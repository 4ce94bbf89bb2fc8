---------------------------- MODULE RecordChannel ----------------------------
(***************************************************************************)
(* What the character device of kernel/gxfp.c promises the process that    *)
(* reads it: a bounded queue of the EC's mailbox records, in arrival       *)
(* order, in which a record may disappear only with a notice that stays    *)
(* ahead of every later record, by an explicit flush, or because the       *)
(* device went down.  How threads, locks and the interrupt bring this      *)
(* about is GxfpMailbox's business.                                        *)
(***************************************************************************)
EXTENDS Naturals, Sequences

CONSTANT Capacity   \* records the queue holds, at least one

VARIABLES
  link,      \* "up", "closing" (going down, not yet purged), "down", "gone"
  arrived,   \* number of records taken from the EC
  pending,   \* the records the reader has still to receive
  notice     \* a loss the reader has still to be told of

vars == <<link, arrived, pending, notice>>

TypeOK ==
  /\ link \in {"up", "closing", "down", "gone"}
  /\ arrived \in Nat
  /\ pending \in Seq(Nat)
  /\ Len(pending) <= Capacity
  /\ notice \in BOOLEAN

Init ==
  /\ link = "up"
  /\ arrived = 0
  /\ pending = <<>>
  /\ notice = FALSE

\* The next record joins the queue.
Arrive ==
  /\ link \in {"up", "closing"}
  /\ Len(pending) < Capacity
  /\ arrived' = arrived + 1
  /\ pending' = Append(pending, arrived')
  /\ UNCHANGED <<link, notice>>

\* There is no room: the queue and the new record are lost, with a notice.
Overrun ==
  /\ link \in {"up", "closing"}
  /\ Len(pending) = Capacity
  /\ arrived' = arrived + 1
  /\ pending' = <<>>
  /\ notice' = TRUE
  /\ UNCHANGED link

\* A record that arrives while the device goes down may be dropped.
Discard ==
  /\ link = "closing"
  /\ arrived' = arrived + 1
  /\ UNCHANGED <<link, pending, notice>>

Take ==
  /\ link = "up"
  /\ ~notice
  /\ pending # <<>>
  /\ pending' = Tail(pending)
  /\ UNCHANGED <<link, arrived, notice>>

ReportLoss ==
  /\ link = "up"
  /\ notice
  /\ notice' = FALSE
  /\ UNCHANGED <<link, arrived, pending>>

Flush ==
  /\ pending' = <<>>
  /\ notice' = FALSE
  /\ UNCHANGED <<link, arrived>>

Close ==
  /\ link \in {"up", "down"}
  /\ link' = "closing"
  /\ UNCHANGED <<arrived, pending, notice>>

Purge ==
  /\ link = "closing"
  /\ link' \in {"down", "gone"}
  /\ pending' = <<>>
  /\ notice' = FALSE
  /\ UNCHANGED arrived

Reopen ==
  /\ link = "down"
  /\ link' = "up"
  /\ UNCHANGED <<arrived, pending, notice>>

Next ==
  \/ Arrive \/ Overrun \/ Discard
  \/ Take \/ ReportLoss \/ Flush
  \/ Close \/ Purge \/ Reopen

Spec == Init /\ [][Next]_vars

=============================================================================
