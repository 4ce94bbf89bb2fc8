---------------------------- MODULE FrameAssembly ----------------------------
(***************************************************************************)
(* src/io/dev.c and src/proto/mp_proto.c: the library puts the frames of   *)
(* the MCU together from mailbox records.  A frame longer than a record    *)
(* continues in the records after it, and nothing but its place tells a    *)
(* continuation from anything else: only the first record has a head.      *)
(*                                                                         *)
(* The device underneath is RecordChannel, which may lose its queue with a *)
(* notice, or without one when the machine sleeps.  One thread reads; it   *)
(* may be stopped anywhere, also for as long as a suspend and a resume.    *)
(***************************************************************************)
EXTENDS Naturals, Sequences

CONSTANTS
  Capacity,     \* records the device queues
  Stream,       \* what the MCU sends: the part of its frame each record is
  NonBlocking   \* the file was opened with O_NONBLOCK

IsPart(p) == p.part \in 1 .. p.of

\* The parts of a frame come one after the other.
Follows(p, q) == IF p.part < p.of THEN q.part = p.part + 1 /\ q.of = p.of
                                  ELSE q.part = 1

ASSUME CapacityAssumption == Capacity \in Nat \ {0}
ASSUME StreamAssumption ==
  /\ Stream \in Seq([part : Nat, of : Nat])
  /\ \A r \in 1 .. Len(Stream) : IsPart(Stream[r])
  /\ \A r \in 1 .. Len(Stream) - 1 : Follows(Stream[r], Stream[r + 1])
ASSUME NonBlockingAssumption == NonBlocking \in BOOLEAN

VARIABLES
  \* the device: see RecordChannel
  link, arrived, pending, notice,
  \* the call of gxfp_dev_read_record: where it is, the records it has copied
  phase, parts,
  \* the last frame a call returned
  frame,
  \* history: the device was purged during the assembly of parts, of frame
  torn, frameTorn

channelVars == <<link, arrived, pending, notice>>
readerVars  == <<phase, parts, frame, torn, frameTorn>>
vars        == <<channelVars, readerVars>>

Channel == INSTANCE RecordChannel

-----------------------------------------------------------------------------
\* The device.

\* The MCU sends Stream and no more.
Receive ==
  /\ arrived < Len(Stream)
  /\ Channel!Arrive \/ Channel!Overrun \/ Channel!Discard
  /\ UNCHANGED readerVars

PowerTransition ==
  /\ Channel!Close \/ Channel!Reopen
  /\ UNCHANGED readerVars

\* Suspend or removal empties the queue.
Sleep ==
  /\ Channel!Purge
  /\ torn' = (parts # <<>>)
  /\ UNCHANGED <<phase, parts, frame, frameTorn>>

\* The thread flushes the device between calls (gxfp_dev_flush_rxq).
FlushQueue ==
  /\ phase = "idle"
  /\ Channel!Flush
  /\ UNCHANGED readerVars

-----------------------------------------------------------------------------
\* gxfp_dev_poll_readable returns 0; the kernel reports a loss as readable.
Readable == link = "up" /\ (notice \/ pending # <<>>)

\* gxfp_mp_check_head.
IsHead(r) == Stream[r].part = 1

\* All of the frame that starts with the first record has been copied.
Complete(rs) == Len(rs) = Stream[rs[1]].of

\* gxfp_read_chunk fails without a loss: -EHOSTDOWN, -ENODEV, or -EAGAIN when
\* the queue was emptied after the poll (a blocking read waits instead).
NoRecord ==
  /\ \/ link # "up"
     \/ pending = <<>> /\ ~notice /\ NonBlocking
  /\ UNCHANGED channelVars

\* An assembly that ends without a frame leaves nothing behind.
DropParts == phase' = "idle" /\ parts' = <<>> /\ torn' = FALSE

\* What -ENOBUFS and a poll that times out do to it, each after a version
\* that goes on instead.
GoOn == UNCHANGED <<phase, parts, torn>>
AfterLoss == DropParts

AfterTimeout == DropParts

\* The call returns the frame, or goes on to its next record.
Copied(rs) ==
  IF Complete(rs)
  THEN frame' = rs /\ frameTorn' = torn /\ DropParts
  ELSE parts' = rs /\ phase' = "poll" /\ UNCHANGED <<frame, torn, frameTorn>>

\* gxfp_dev_read_record, up to its poll (one that fails is no step).
StartRead ==
  /\ phase = "idle"
  /\ Readable
  /\ phase' = "head"
  /\ UNCHANGED <<channelVars, parts, frame, torn, frameTorn>>

\* gxfp_rx_assemble: the first record must begin a frame.
ReadHead ==
  /\ phase = "head"
  /\ Channel!Take
  /\ IF IsHead(Head(pending))
     THEN Copied(<<Head(pending)>>)
     ELSE DropParts /\ UNCHANGED <<frame, frameTorn>>

PollChunk ==
  /\ phase = "poll"
  /\ Readable
  /\ phase' = "chunk"
  /\ UNCHANGED <<channelVars, parts, frame, torn, frameTorn>>

\* 500 ms without a record, or the device is down.
PollFails ==
  /\ phase = "poll"
  /\ ~Readable
  /\ AfterTimeout
  /\ UNCHANGED <<channelVars, frame, frameTorn>>

\* A later record is taken as it comes.
ReadChunk ==
  /\ phase = "chunk"
  /\ Channel!Take
  /\ Copied(Append(parts, Head(pending)))

\* -ENOBUFS, once for each loss.
ReadLoss ==
  /\ phase \in {"head", "chunk"}
  /\ Channel!ReportLoss
  /\ AfterLoss
  /\ UNCHANGED <<frame, frameTorn>>

ReadFails ==
  /\ phase \in {"head", "chunk"}
  /\ NoRecord
  /\ DropParts
  /\ UNCHANGED <<frame, frameTorn>>

Reader ==
  \/ StartRead \/ ReadHead \/ PollChunk \/ PollFails \/ ReadChunk
  \/ ReadLoss \/ ReadFails

-----------------------------------------------------------------------------
Init ==
  /\ Channel!Init
  /\ phase = "idle" /\ parts = <<>> /\ torn = FALSE
  /\ frame = <<>> /\ frameTorn = FALSE

Device == Receive \/ PowerTransition \/ Sleep

Next == Device \/ FlushQueue \/ Reader

Spec == Init /\ [][Next]_vars

\* The caller does nothing but read, again and again, and time passes: a poll
\* that finds nothing ends.
ReadingSpec == Init /\ [][Device \/ Reader]_vars /\ WF_vars(Reader)

=============================================================================
