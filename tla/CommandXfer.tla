----------------------------- MODULE CommandXfer -----------------------------
(***************************************************************************)
(* src/cmd/goodix_xfer.c: one thread sends commands to the MCU and waits   *)
(* for their replies.  A reply carries an opcode and nothing that names    *)
(* the request it answers; a wait takes the first reply with the opcode it *)
(* expects, drops every other frame it reads, and is sent again when it    *)
(* times out, without a flush in between.  So a reply that comes late may  *)
(* be taken for the answer to a later command.  Sending may fail, and so   *)
(* may reading.                                                            *)
(*                                                                         *)
(* The MCU (external) answers commands one at a time in the order it got   *)
(* them, as late as it likes, or not at all.                               *)
(***************************************************************************)
EXTENDS Naturals, Sequences

CONSTANTS
  Commands,     \* the commands there are
  ReplyOf,      \* the opcode a command's reply has
  TriesOf,      \* how often the library sends it
  Unsolicited,  \* opcodes of frames the MCU may send at any time
  QueueBound,   \* bound: frames between the MCU and the thread
  MaxCalls,     \* bound: commands sent in a behaviour
  MaxFaults     \* bound: failed transfers, timeouts and losses

Opcodes == {ReplyOf[c] : c \in Commands} \union Unsolicited

ASSUME CommandsAssumption == "none" \notin Commands
ASSUME TriesAssumption == TriesOf \in [Commands -> Nat \ {0}]
ASSUME ReplyAssumption == DOMAIN ReplyOf = Commands
ASSUME BoundsAssumption == {QueueBound, MaxCalls, MaxFaults} \subseteq Nat

VARIABLES
  \* the call of gxfp_goodix_request_selected: its command, its number, the
  \* tries it has left
  cmd, call, left,
  \* how the last call ended, and with which reply
  result, answer,
  \* commands the MCU has not dealt with, frames the thread has not read
  sent, queue,
  \* history: opcodes whose next reply may be that of an abandoned try
  \* history: failed transfers, timeouts and losses; whether the MCU has sent
  \* a frame nobody asked for
  suspects, faults, notified

xferVars == <<cmd, call, left, result, answer, sent, queue, suspects, faults,
              notified>>

Waiting == cmd # "none"
Expected == ReplyOf[cmd]

-----------------------------------------------------------------------------
\* gxfp_goodix_send_async: the command, as number n, is on its way.
Send(c, n) == sent' = Append(sent, [cmd |-> c, call |-> n])

\* The call ends.
EndCall(r) == result' = r /\ cmd' = "none" /\ left' = 0

Suspect(op) == suspects' = suspects \union {op}

Fault == faults < MaxFaults /\ faults' = faults + 1

\* gxfp_goodix_request_selected, its first try.
Request(c) ==
  /\ ~Waiting
  /\ call < MaxCalls
  /\ call' = call + 1
  /\ \/ /\ Send(c, call')
        /\ cmd' = c /\ left' = TriesOf[c] /\ result' = "none"
        /\ UNCHANGED faults
     \/ EndCall("error") /\ Fault /\ UNCHANGED sent
  /\ UNCHANGED <<answer, queue, suspects, notified>>

\* A command whose reply nobody waits for.
SendAsync(c) ==
  /\ ~Waiting
  /\ call < MaxCalls
  /\ call' = call + 1
  /\ \/ /\ Send(c, call') /\ Suspect(ReplyOf[c]) /\ result' = "ok"
        /\ UNCHANGED faults
     \/ result' = "error" /\ Fault /\ UNCHANGED <<sent, suspects>>
  /\ UNCHANGED <<cmd, left, answer, queue, notified>>

\* gxfp_goodix_wait_selected alone, for the reply to a command sent with
\* SendAsync.
Await(c) ==
  /\ ~Waiting
  /\ cmd' = c /\ left' = 1 /\ result' = "none"
  /\ UNCHANGED <<call, answer, sent, queue, suspects, faults, notified>>

\* gxfp_goodix_wait_selected reads a frame: another opcode is dropped.  A
\* version that does not compare opcodes.
AnyReply(f) == TRUE
Matches(f) == f.op = Expected

Drop ==
  /\ Waiting /\ queue # <<>>
  /\ ~Matches(Head(queue))
  /\ queue' = Tail(queue)
  /\ UNCHANGED <<cmd, call, left, result, answer, sent, suspects, faults,
                 notified>>

\* The caller may find the reply malformed.  An opcode that was not suspect
\* proves that the replies to everything sent before have gone by.
Accept ==
  /\ Waiting /\ queue # <<>>
  /\ Matches(Head(queue))
  /\ queue' = Tail(queue)
  /\ answer' = Head(queue)
  /\ \/ EndCall("ok") /\ UNCHANGED faults
     \/ EndCall("error") /\ Fault
  /\ suspects' = IF Expected \in suspects THEN suspects ELSE Unsolicited
  /\ UNCHANGED <<call, sent, notified>>

\* The deadline passes, while the reply may be in the queue already.
TimeoutResend ==
  /\ Waiting /\ left > 1 /\ Fault
  /\ Suspect(Expected)
  /\ \/ Send(cmd, call) /\ left' = left - 1 /\ UNCHANGED <<cmd, result>>
     \/ EndCall("error") /\ UNCHANGED sent
  /\ UNCHANGED <<call, answer, queue, notified>>

TimeoutEnd ==
  /\ Waiting /\ left = 1 /\ Fault
  /\ EndCall("timeout")
  /\ Suspect(Expected)
  /\ UNCHANGED <<call, answer, sent, queue, notified>>

\* Reading fails: the device lost its queue (-ENOBUFS), or is down.
ReceiveFails ==
  /\ Waiting /\ Fault
  /\ EndCall("error")
  /\ Suspect(Expected)
  /\ queue' \in {queue, <<>>}
  /\ UNCHANGED <<call, answer, sent, notified>>

\* gxfp_dev_flush_rxq.
FlushQueue ==
  /\ ~Waiting
  /\ queue' = <<>>
  /\ UNCHANGED <<cmd, call, left, result, answer, sent, suspects, faults,
                 notified>>

-----------------------------------------------------------------------------
\* The MCU.

Room == Len(queue) < QueueBound

\* It deals with the oldest command, and replies v.
Reply(v) ==
  /\ sent # <<>> /\ Room
  /\ queue' = Append(queue, [op |-> ReplyOf[Head(sent).cmd],
                             call |-> Head(sent).call, val |-> v])
  /\ sent' = Tail(sent)
  /\ UNCHANGED <<cmd, call, left, result, answer, suspects, faults, notified>>

\* The command or its reply gets lost.
Lose ==
  /\ sent # <<>> /\ Fault
  /\ sent' = Tail(sent)
  /\ UNCHANGED <<cmd, call, left, result, answer, queue, suspects, notified>>

\* A frame nobody asked for.
Notify ==
  /\ Room
  /\ \E op \in Unsolicited :
       queue' = Append(queue, [op |-> op, call |-> 0, val |-> "none"])
  /\ notified' = TRUE
  /\ UNCHANGED <<cmd, call, left, result, answer, sent, suspects, faults>>

-----------------------------------------------------------------------------
Timeout == TimeoutResend \/ TimeoutEnd

\* What the thread does inside a call.
Xfer == Drop \/ Accept \/ Timeout \/ ReceiveFails

XferInit ==
  /\ cmd = "none" /\ call = 0 /\ left = 0
  /\ result = "none" /\ answer = [op |-> "none", call |-> 0, val |-> "none"]
  /\ sent = <<>> /\ queue = <<>>
  /\ suspects = Unsolicited /\ faults = 0 /\ notified = FALSE

=============================================================================
