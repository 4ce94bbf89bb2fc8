------------------------- MODULE FrameAssemblyProps -------------------------
(* What src/io/dev.c guarantees of the frames it puts together. *)
EXTENDS FrameAssembly

\* The values each variable may take; the records copied never fill more than
\* the frame the head announced, the size the buffer was checked for.
TypeOK ==
  /\ Channel!TypeOK
  /\ arrived \in 0 .. Len(Stream)
  /\ phase \in {"idle", "head", "poll", "chunk"}
  /\ parts \in Seq(1 .. Len(Stream))
  /\ parts # <<>> => Len(parts) < Stream[parts[1]].of
  /\ frame \in Seq(1 .. Len(Stream))
  /\ torn \in BOOLEAN /\ frameTorn \in BOOLEAN

\* rs is a frame of the MCU from its first record on.
Begins(rs) ==
  /\ IsHead(rs[1])
  /\ \A i \in 1 .. Len(rs) : rs[i] = rs[1] + i - 1

\* A frame that was put together without the machine going to sleep meanwhile
\* is one frame of the MCU, whole: a FIFO overrun between two of its records
\* is noticed, and what is left of an incomplete frame is never joined to the
\* next one (gxfp_rx_assemble, which cannot check a continuation).
FramesWhole ==
  frame # <<>> /\ ~frameTorn => Begins(frame) /\ Complete(frame)

-----------------------------------------------------------------------------
\* Why FramesWhole holds.

\* The device queues the last records to arrive, unless it is going down.
QueueContiguous ==
  /\ pending \in Seq(1 .. Len(Stream))
  /\ link # "closing" =>
       \A i \in 1 .. Len(pending) : pending[i] = arrived - Len(pending) + i

\* Nothing is queued while it is down, and an assembly that goes on is torn.
DownEmpty ==
  link \in {"down", "gone"} => pending = <<>> /\ (parts # <<>> => torn)

\* There are parts between two records of a frame, and only there.
PartsWhileReading == phase \in {"idle", "head"} <=> parts = <<>>

\* Unless torn, the parts begin a frame, and while no loss is to be reported
\* the record to be read next is the one after them.
PartsBegin ==
  parts # <<>> /\ ~torn =>
    /\ Begins(parts)
    /\ link = "up" /\ ~notice => parts[Len(parts)] = arrived - Len(pending)

\* The inductive invariant: FramesWhole and the four facts above.
IInv ==
  /\ TypeOK
  /\ QueueContiguous /\ DownEmpty /\ PartsWhileReading /\ PartsBegin
  /\ FramesWhole

-----------------------------------------------------------------------------
\* After losses of any kind, the next frame that is queued whole reaches the
\* caller, unless it is lost again: neither leftover continuations in front of
\* it nor a partial frame from before swallow it (the head check of
\* gxfp_rx_assemble, and its dropping of a partial frame on every error).
Queued(h) ==
  \A i \in 0 .. Stream[h].of - 1 :
    \E j \in 1 .. Len(pending) : pending[j] = h + i

Resyncs ==
  \A h \in {r \in 1 .. Len(Stream) : IsHead(r)} :
    ~torn /\ Queued(h) ~>
      (frame # <<>> /\ frame[1] = h) \/ notice \/ link # "up"

\* A call returns: the records of a frame are finitely many and every wait
\* for one of them is bounded (irq_timeout_ms).
ReadEnds == phase # "idle" ~> phase = "idle"

=============================================================================
