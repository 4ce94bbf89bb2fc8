------------------------ MODULE FrameAssemblyProofs ------------------------
(***************************************************************************)
(* Proofs about FrameAssembly, for every stream of frames and every        *)
(* capacity of the device: types, and that frames are whole.               *)
(***************************************************************************)
EXTENDS FrameAssemblyProps, TLAPS

USE DEF Channel!TypeOK

\* What the parts of a record sequence are.
LEMMA StreamParts ==
  ASSUME NEW r \in 1 .. Len(Stream)
  PROVE  /\ Stream[r].part \in Nat /\ Stream[r].of \in Nat
         /\ 1 <= Stream[r].part /\ Stream[r].part <= Stream[r].of
<1> DEFINE Parts == [part : Nat, of : Nat]
<1>1. Stream[r] \in Parts
  <2>1. Stream \in Seq(Parts)
    BY StreamAssumption
  <2> HIDE DEF Parts
  <2> QED
    BY <2>1
<1>2. IsPart(Stream[r])
  BY StreamAssumption
<1> QED
  BY <1>1, <1>2 DEF IsPart

\* A queue that ends with the last record to arrive begins with the one that
\* follows those taken before, and still ends with it without its head.
LEMMA TakeOne ==
  ASSUME IInv, Channel!Take
  PROVE  /\ link = "up" /\ ~notice
         /\ Head(pending) \in 1 .. Len(Stream)
         /\ Head(pending) = arrived - Len(pending) + 1
         /\ Len(pending') = Len(pending) - 1
         /\ pending' \in Seq(1 .. Len(Stream))
         /\ \A i \in 1 .. Len(pending') :
              pending'[i] = arrived - Len(pending') + i
         /\ UNCHANGED <<link, arrived, notice>>
<1>1. pending \in Seq(1 .. Len(Stream)) /\ pending # <<>> /\ link = "up" /\ ~notice
  BY DEF IInv, QueueContiguous, Channel!Take
<1>2. \A i \in 1 .. Len(pending) : pending[i] = arrived - Len(pending) + i
  BY <1>1 DEF IInv, QueueContiguous
<1>3. Head(pending) = pending[1] /\ 1 \in 1 .. Len(pending)
  BY <1>1
<1>4. /\ pending' = Tail(pending) /\ Len(pending') = Len(pending) - 1
      /\ pending' \in Seq(1 .. Len(Stream))
  BY <1>1 DEF Channel!Take
<1>5. \A i \in 1 .. Len(pending') : pending'[i] = pending[i + 1]
  BY <1>1, <1>4
<1>6. arrived \in Nat /\ Len(pending) \in Nat
  BY <1>1 DEF IInv, TypeOK
<1>7. ASSUME NEW i \in 1 .. Len(pending')
      PROVE  pending'[i] = arrived - Len(pending') + i
  <2>1. i + 1 \in 1 .. Len(pending)
    BY <1>4, <1>6
  <2>2. pending[i + 1] = arrived - Len(pending) + (i + 1)
    BY <2>1, <1>2
  <2> QED
    BY <2>2, <1>4, <1>5, <1>6
<1> QED
  BY <1>1, <1>2, <1>3, <1>4, <1>6, <1>7 DEF Channel!Take

\* The records a step of the reader has copied, rs, keep the invariant of the
\* parts and, when they are all, make a frame.
LEMMA CopiedKeeps ==
  ASSUME IInv,
         NEW rs \in Seq(1 .. Len(Stream)), rs # <<>>,
         Len(rs) <= Stream[rs[1]].of,
         ~torn => Begins(rs),
         Copied(rs)
  PROVE  /\ phase' \in {"idle", "head", "poll", "chunk"}
         /\ parts' \in Seq(1 .. Len(Stream))
         /\ parts' # <<>> => /\ Len(parts') < Stream[parts'[1]].of
                             /\ parts' = rs /\ torn' = torn
         /\ frame' \in Seq(1 .. Len(Stream))
         /\ torn' \in BOOLEAN /\ frameTorn' \in BOOLEAN
         /\ PartsWhileReading'
         /\ FramesWhole'
<1>1. rs[1] \in 1 .. Len(Stream) /\ Len(rs) \in Nat
  OBVIOUS
<1>2. Stream[rs[1]].of \in Nat
  BY <1>1, StreamParts
<1>3. CASE Complete(rs)
  <2>1. /\ frame' = rs /\ frameTorn' = torn
        /\ phase' = "idle" /\ parts' = <<>> /\ torn' = FALSE
    BY <1>3 DEF Copied, DropParts
  <2>2. FramesWhole'
    BY <2>1, <1>3 DEF FramesWhole, Begins, Complete, IsHead
  <2>3. PartsWhileReading'
    BY <2>1 DEF PartsWhileReading
  <2>4. torn' \in BOOLEAN /\ frameTorn' \in BOOLEAN
    BY <2>1 DEF IInv, TypeOK
  <2>5. phase' \in {"idle", "head", "poll", "chunk"} /\ parts' \in Seq(1 .. Len(Stream))
    BY <2>1
  <2> QED
    BY <2>1, <2>2, <2>3, <2>4, <2>5
<1>4. CASE ~Complete(rs)
  <2>1. /\ parts' = rs /\ phase' = "poll"
        /\ frame' = frame /\ torn' = torn /\ frameTorn' = frameTorn
    BY <1>4 DEF Copied
  <2>2. Len(rs) < Stream[rs[1]].of
    BY <1>4, <1>1, <1>2 DEF Complete
  <2>3. FramesWhole'
    BY <2>1 DEF FramesWhole, IInv, Begins, Complete, IsHead
  <2>4. PartsWhileReading'
    BY <2>1 DEF PartsWhileReading
  <2> QED
    BY <2>1, <2>2, <2>3, <2>4 DEF IInv, TypeOK
<1> QED
  BY <1>3, <1>4

\* What an empty queue is.
Empty(q) ==
  /\ q \in Seq(1 .. Len(Stream)) /\ q \in Seq(Nat)
  /\ Len(q) = 0 /\ Len(q) <= Capacity /\ 1 .. Len(q) = {}

LEMMA EmptyQueue == ASSUME NEW q, q = <<>> PROVE Empty(q)
<1>1. Len(q) = 0 /\ q \in Seq(1 .. Len(Stream)) /\ q \in Seq(Nat)
  OBVIOUS
<1> QED
  BY <1>1, CapacityAssumption DEF Empty

\* The invariant holds in the first state.
LEMMA InitIInv == Init => IInv
<1> SUFFICES ASSUME Init PROVE IInv
  OBVIOUS
<1>1. /\ link = "up" /\ arrived = 0 /\ pending = <<>> /\ notice = FALSE
      /\ phase = "idle" /\ parts = <<>> /\ torn = FALSE
      /\ frame = <<>> /\ frameTorn = FALSE
  BY DEF Init, Channel!Init
<1>2. TypeOK
  <2>1. Len(pending) = 0 /\ Capacity \in Nat /\ Len(Stream) \in Nat
    BY <1>1, CapacityAssumption, StreamAssumption
  <2>2. pending \in Seq(Nat) /\ parts \in Seq(1 .. Len(Stream))
        /\ frame \in Seq(1 .. Len(Stream))
    BY <1>1
  <2>3. arrived \in Nat /\ arrived \in 0 .. Len(Stream)
    BY <1>1, <2>1
  <2>4. torn \in BOOLEAN /\ frameTorn \in BOOLEAN /\ notice \in BOOLEAN
    BY <1>1
  <2> QED
    BY <1>1, <2>1, <2>2, <2>3, <2>4 DEF TypeOK
<1>3. QueueContiguous
  <2>1. Len(pending) = 0 /\ pending \in Seq(1 .. Len(Stream))
    BY <1>1
  <2>2. 1 .. Len(pending) = {}
    BY <2>1
  <2> QED
    BY <2>1, <2>2 DEF QueueContiguous
<1> QED
  BY <1>1, <1>2, <1>3 DEF IInv, DownEmpty, PartsWhileReading, PartsBegin,
     FramesWhole

\* A step that leaves the parts and the last frame alone keeps the invariant if
\* it keeps what the parts and the queue have to do with each other.
LEMMA DeviceKeeps ==
  ASSUME IInv, UNCHANGED <<phase, parts, frame, frameTorn>>,
         torn' \in BOOLEAN, parts = <<>> \/ torn' = torn \/ torn',
         Channel!TypeOK', arrived' \in 0 .. Len(Stream),
         QueueContiguous', DownEmpty',
         link' = "up" /\ ~notice' /\ parts # <<>> /\ ~torn' =>
           /\ link = "up" /\ ~notice
           /\ arrived' - Len(pending') = arrived - Len(pending)
  PROVE  IInv'
<1>1. PartsWhileReading'
  BY DEF IInv, PartsWhileReading
<1>2. FramesWhole'
  BY DEF IInv, FramesWhole, Begins, Complete, IsHead
<1>3. PartsBegin'
  <2>1. SUFFICES ASSUME parts' # <<>>, ~torn'
                 PROVE  /\ Begins(parts')
                        /\ link' = "up" /\ ~notice' =>
                             parts'[Len(parts')] = arrived' - Len(pending')
    BY DEF PartsBegin, Begins, IsHead
  <2>2. parts # <<>> /\ ~torn
    BY <2>1
  <2> QED
    BY <2>1, <2>2 DEF IInv, PartsBegin
<1>4. TypeOK'
  BY DEF IInv, TypeOK
<1> QED
  BY <1>1, <1>2, <1>3, <1>4 DEF IInv

\* A step of the device.
LEMMA DeviceStep == ASSUME IInv, Device PROVE IInv'
<1> USE DEF channelVars, readerVars
<1>1. /\ pending \in Seq(1 .. Len(Stream)) /\ arrived \in 0 .. Len(Stream)
      /\ Len(pending) \in Nat /\ Len(pending) <= Capacity
      /\ link \in {"up", "closing", "down", "gone"} /\ notice \in BOOLEAN
      /\ torn \in BOOLEAN /\ Len(Stream) \in Nat
  BY StreamAssumption DEF IInv, QueueContiguous, TypeOK
<1>2. ASSUME arrived < Len(Stream), Channel!Arrive, UNCHANGED readerVars
      PROVE  IInv'
  <2>1. /\ link \in {"up", "closing"} /\ Len(pending) < Capacity
        /\ arrived' = arrived + 1 /\ pending' = Append(pending, arrived')
        /\ UNCHANGED <<link, notice>>
    BY <1>2 DEF Channel!Arrive
  <2>2. /\ Len(pending') = Len(pending) + 1
        /\ pending' \in Seq(1 .. Len(Stream))
        /\ arrived' \in 0 .. Len(Stream)
    BY <1>1, <1>2, <2>1
  <2>3. ASSUME link' # "closing", NEW i \in 1 .. Len(pending')
        PROVE  pending'[i] = arrived' - Len(pending') + i
    <3>1. CASE i = Len(pending')
      BY <3>1, <1>1, <2>1, <2>2
    <3>2. CASE i # Len(pending')
      <4>1. i \in 1 .. Len(pending)
        BY <3>2, <1>1, <2>2
      <4>2. pending[i] = arrived - Len(pending) + i
        BY <4>1, <2>1, <2>3 DEF IInv, QueueContiguous
      <4> QED
        BY <4>1, <4>2, <1>1, <2>1, <2>2
    <3> QED
      BY <3>1, <3>2
  <2>4. QueueContiguous'
    BY <2>2, <2>3 DEF QueueContiguous
  <2>5. DownEmpty'
    BY <2>1 DEF DownEmpty
  <2>6. arrived' - Len(pending') = arrived - Len(pending)
    BY <1>1, <2>1, <2>2
  <2> QED
    <3>1. Channel!TypeOK'
      BY <1>1, <2>1, <2>2, CapacityAssumption
    <3> QED
      BY <1>1, <1>2, <2>1, <2>2, <2>4, <2>5, <2>6, <3>1, DeviceKeeps
<1>3. ASSUME arrived < Len(Stream), Channel!Overrun, UNCHANGED readerVars
      PROVE  IInv'
  <2>1. /\ link \in {"up", "closing"}
        /\ arrived' = arrived + 1 /\ pending' = <<>> /\ notice' = TRUE
        /\ UNCHANGED link
    BY <1>3 DEF Channel!Overrun
  <2>2. Empty(pending')
    BY <2>1, EmptyQueue
  <2>3. QueueContiguous' /\ DownEmpty' /\ Channel!TypeOK'
    BY <1>1, <2>1, <2>2 DEF Empty, QueueContiguous, DownEmpty
  <2>4. arrived' \in 0 .. Len(Stream)
    BY <1>1, <1>3, <2>1
  <2> QED
    BY <1>1, <1>3, <2>1, <2>3, <2>4, DeviceKeeps
<1>4. ASSUME arrived < Len(Stream), Channel!Discard, UNCHANGED readerVars
      PROVE  IInv'
  <2>1. /\ link = "closing" /\ arrived' = arrived + 1
        /\ UNCHANGED <<link, pending, notice>>
    BY <1>4 DEF Channel!Discard
  <2>2. QueueContiguous' /\ DownEmpty'
    BY <1>1, <2>1 DEF QueueContiguous, DownEmpty
  <2>3. Channel!TypeOK' /\ arrived' \in 0 .. Len(Stream)
    BY <1>1, <1>4, <2>1 DEF IInv, TypeOK
  <2> QED
    BY <1>1, <1>4, <2>1, <2>2, <2>3, DeviceKeeps
<1>5. ASSUME Channel!Close, UNCHANGED readerVars
      PROVE  IInv'
  <2>1. link' = "closing" /\ UNCHANGED <<arrived, pending, notice>>
    BY <1>5 DEF Channel!Close
  <2>2. QueueContiguous' /\ DownEmpty' /\ Channel!TypeOK'
    BY <1>1, <2>1 DEF IInv, TypeOK, QueueContiguous, DownEmpty
  <2> QED
    BY <1>1, <1>5, <2>1, <2>2, DeviceKeeps
<1>6. ASSUME Channel!Reopen, UNCHANGED readerVars
      PROVE  IInv'
  <2>1. /\ link = "down" /\ link' = "up"
        /\ UNCHANGED <<arrived, pending, notice>>
    BY <1>6 DEF Channel!Reopen
  <2>2. QueueContiguous' /\ DownEmpty' /\ Channel!TypeOK'
    BY <1>1, <2>1 DEF IInv, TypeOK, QueueContiguous, DownEmpty
  <2>3. parts # <<>> => torn
    BY <2>1 DEF IInv, DownEmpty
  <2> QED
    BY <1>1, <1>6, <2>1, <2>2, <2>3, DeviceKeeps
<1>7. ASSUME Sleep
      PROVE  IInv'
  <2>1. /\ link' \in {"down", "gone"} /\ pending' = <<>> /\ notice' = FALSE
        /\ UNCHANGED <<arrived, phase, parts, frame, frameTorn>>
        /\ torn' = (parts # <<>>)
    BY <1>7 DEF Sleep, Channel!Purge
  <2>2. Empty(pending')
    BY <2>1, EmptyQueue
  <2>3. notice' \in BOOLEAN /\ arrived' \in Nat
        /\ link' \in {"up", "closing", "down", "gone"}
    <3>1. notice' \in BOOLEAN
      BY <2>1
    <3> QED
      BY <1>1, <2>1, <3>1
  <2>4. QueueContiguous' /\ Channel!TypeOK'
    BY <2>2, <2>3 DEF Empty, QueueContiguous
  <2>5. DownEmpty' /\ torn' \in BOOLEAN
    <3>1. torn' \in BOOLEAN
      BY <2>1
    <3>2. pending' = <<>> /\ (parts' # <<>> => torn')
      BY <2>1
    <3> QED
      BY <3>1, <3>2 DEF DownEmpty
  <2>6. (parts = <<>> \/ torn') /\ notice' = FALSE /\ link' # "up"
    BY <2>1
  <2> QED
    BY <1>1, <2>1, <2>4, <2>5, <2>6, DeviceKeeps
<1> QED
  BY <1>2, <1>3, <1>4, <1>5, <1>6, <1>7 DEF Device, Receive, PowerTransition

\* A call that ends without a frame keeps the invariant if the queue does.
LEMMA DropKeeps ==
  ASSUME IInv, DropParts, UNCHANGED <<link, arrived, frame, frameTorn>>,
         QueueContiguous', DownEmpty', Channel!TypeOK'
  PROVE  IInv'
<1>1. phase' = "idle" /\ parts' = <<>> /\ torn' = FALSE
  BY DEF DropParts
<1>2. PartsWhileReading' /\ PartsBegin'
  BY <1>1 DEF PartsWhileReading, PartsBegin
<1>3. FramesWhole'
  BY DEF IInv, FramesWhole, Begins, Complete, IsHead
<1>4. parts' \in Seq(1 .. Len(Stream)) /\ torn' \in BOOLEAN
  <2>1. torn' \in BOOLEAN
    BY <1>1
  <2>2. parts' \in Seq(1 .. Len(Stream))
    BY <1>1
  <2> QED
    BY <2>1, <2>2
<1>5. TypeOK'
  BY <1>1, <1>4 DEF IInv, TypeOK
<1> QED
  BY <1>2, <1>3, <1>5 DEF IInv

\* Taking a record keeps what is known of the queue.
LEMMA TakeQueue ==
  ASSUME IInv, Channel!Take
  PROVE  /\ arrived' - Len(pending') = Head(pending)
         /\ link' = "up" /\ arrived' = arrived
         /\ QueueContiguous' /\ DownEmpty' /\ Channel!TypeOK'
<1>1. /\ arrived - Len(pending') = Head(pending)
      /\ UNCHANGED <<link, arrived, notice>> /\ pending' \in Seq(1 .. Len(Stream))
      /\ link = "up" /\ ~notice /\ Len(pending') <= Len(pending)
      /\ \A i \in 1 .. Len(pending') :
           pending'[i] = arrived - Len(pending') + i
  <2>1. Len(pending) \in Nat /\ arrived \in Nat
    BY DEF IInv, TypeOK
  <2> QED
    BY <2>1, TakeOne
<1>2. QueueContiguous' /\ DownEmpty'
  BY <1>1 DEF QueueContiguous, DownEmpty
<1>3. Channel!TypeOK'
  <2>1. pending' \in Seq(Nat)
    BY <1>1
  <2>2. Len(pending') <= Capacity
    BY <1>1, <2>1, CapacityAssumption DEF IInv, TypeOK
  <2> QED
    BY <1>1, <2>1, <2>2 DEF IInv, TypeOK
<1> QED
  BY <1>1, <1>2, <1>3

\* A record that is taken goes to the end of the parts.
LEMMA TakeKeeps ==
  ASSUME IInv, Channel!Take,
         NEW rs \in Seq(1 .. Len(Stream)), rs # <<>>,
         Len(rs) <= Stream[rs[1]].of,
         ~torn => Begins(rs),
         rs[Len(rs)] = Head(pending),
         Copied(rs)
  PROVE  IInv'
<1>1. arrived' \in 0 .. Len(Stream)
  BY TakeQueue DEF IInv, TypeOK
<1>2. TypeOK' /\ PartsWhileReading' /\ FramesWhole'
  BY <1>1, TakeQueue, CopiedKeeps DEF TypeOK
<1>3. PartsBegin'
  <2>1. SUFFICES ASSUME parts' # <<>>, ~torn'
                 PROVE  /\ Begins(parts')
                        /\ parts'[Len(parts')] = arrived' - Len(pending')
    BY DEF PartsBegin, Begins, IsHead
  <2>2. parts' = rs /\ torn' = torn
    BY <2>1, CopiedKeeps
  <2> QED
    BY <2>1, <2>2, TakeQueue
<1> QED
  BY <1>2, <1>3, TakeQueue DEF IInv

\* A step of the reader.
LEMMA ReaderStep == ASSUME IInv, Reader PROVE IInv'
<1> USE DEF channelVars
<1>1. /\ QueueContiguous /\ DownEmpty /\ Channel!TypeOK /\ FramesWhole
      /\ PartsWhileReading /\ PartsBegin /\ TypeOK
  BY DEF IInv, TypeOK
<1>2. ASSUME UNCHANGED channelVars, UNCHANGED <<frame, frameTorn>>, DropParts
      PROVE  IInv'
  <2>1. QueueContiguous' /\ Channel!TypeOK'
    BY <1>1, <1>2 DEF QueueContiguous
  <2>2. DownEmpty'
    BY <1>1, <1>2 DEF DownEmpty, DropParts
  <2> QED
    BY <1>2, <2>1, <2>2, DropKeeps
<1>3. ASSUME UNCHANGED <<channelVars, parts, frame, torn, frameTorn>>,
             \/ phase = "idle" /\ phase' = "head"
             \/ phase = "poll" /\ phase' = "chunk"
      PROVE  IInv'
  <2>1. QueueContiguous' /\ Channel!TypeOK' /\ DownEmpty'
    BY <1>1, <1>3 DEF QueueContiguous, DownEmpty
  <2>2. PartsWhileReading'
    BY <1>1, <1>3 DEF PartsWhileReading
  <2>3. PartsBegin' /\ FramesWhole'
    BY <1>1, <1>3 DEF PartsBegin, FramesWhole, Begins, Complete, IsHead
  <2>4. TypeOK'
    BY <1>1, <1>3, <2>1 DEF TypeOK
  <2> QED
    BY <2>1, <2>2, <2>3, <2>4 DEF IInv
<1>4. CASE StartRead
  BY <1>4, <1>3 DEF StartRead
<1>5. CASE PollChunk
  BY <1>5, <1>3 DEF PollChunk
<1>6. CASE PollFails
  BY <1>6, <1>2 DEF PollFails, AfterTimeout
<1>7. CASE ReadFails
  BY <1>7, <1>2 DEF ReadFails, NoRecord
<1>8. CASE ReadLoss
  <2>1. /\ link = "up" /\ notice' = FALSE /\ UNCHANGED <<link, arrived, pending>>
        /\ DropParts /\ UNCHANGED <<frame, frameTorn>>
    BY <1>8 DEF ReadLoss, Channel!ReportLoss, AfterLoss
  <2>2. QueueContiguous' /\ Channel!TypeOK' /\ DownEmpty'
    BY <1>1, <2>1 DEF QueueContiguous, DownEmpty
  <2> QED
    BY <2>1, <2>2, DropKeeps
<1>9. CASE ReadHead
  <2>1. /\ Channel!Take /\ Head(pending) \in 1 .. Len(Stream)
        /\ QueueContiguous' /\ DownEmpty' /\ Channel!TypeOK'
        /\ UNCHANGED <<link, arrived>>
    BY <1>9, TakeOne, TakeQueue DEF ReadHead
  <2>2. CASE IsHead(Head(pending))
    <3>1. PICK rs : rs = <<Head(pending)>>
      OBVIOUS
    <3>2. /\ rs \in Seq(1 .. Len(Stream)) /\ rs # <<>> /\ Len(rs) = 1
          /\ rs[1] = Head(pending) /\ rs[Len(rs)] = Head(pending)
      BY <2>1, <3>1
    <3>3. Len(rs) <= Stream[rs[1]].of
      BY <2>1, <3>2, StreamParts
    <3>4. Begins(rs)
      BY <2>1, <2>2, <3>2 DEF Begins
    <3>5. Copied(rs)
      BY <1>9, <2>2, <3>1 DEF ReadHead
    <3> QED
      BY <2>1, <3>2, <3>3, <3>4, <3>5, TakeKeeps
  <2>3. CASE ~IsHead(Head(pending))
    <3>1. DropParts /\ UNCHANGED <<frame, frameTorn>>
      BY <1>9, <2>3 DEF ReadHead
    <3> QED
      BY <2>1, <3>1, DropKeeps
  <2> QED
    BY <2>2, <2>3
<1>10. CASE ReadChunk
  <2>1. /\ Channel!Take /\ Head(pending) \in 1 .. Len(Stream)
        /\ Head(pending) = arrived - Len(pending) + 1
        /\ link = "up" /\ ~notice
    BY <1>10, TakeOne DEF ReadChunk
  <2>2. /\ parts # <<>> /\ parts \in Seq(1 .. Len(Stream))
        /\ Len(parts) < Stream[parts[1]].of
    BY <1>1, <1>10 DEF ReadChunk, PartsWhileReading, TypeOK
  <2>3. PICK rs : rs = Append(parts, Head(pending))
    OBVIOUS
  <2>4. /\ rs \in Seq(1 .. Len(Stream)) /\ rs # <<>>
        /\ Len(rs) = Len(parts) + 1 /\ rs[1] = parts[1]
        /\ rs[Len(rs)] = Head(pending)
        /\ \A i \in 1 .. Len(parts) : rs[i] = parts[i]
    BY <2>1, <2>2, <2>3
  <2>5. Len(rs) <= Stream[rs[1]].of
    <3>1. parts[1] \in 1 .. Len(Stream)
      BY <2>2
    <3>2. Stream[parts[1]].of \in Nat
      BY <3>1, StreamParts
    <3> QED
      BY <2>2, <2>4, <3>2
  <2>6. ASSUME ~torn PROVE Begins(rs)
    <3>1. Begins(parts) /\ parts[Len(parts)] = arrived - Len(pending)
      BY <1>1, <2>1, <2>2, <2>6 DEF PartsBegin
    <3>2. /\ Len(parts) \in Nat /\ Len(parts) \in 1 .. Len(parts)
          /\ arrived \in Nat /\ Len(pending) \in Nat /\ parts[1] \in Nat
      BY <1>1, <2>2
    <3>3. Head(pending) = parts[1] + Len(parts)
      <4>1. parts[Len(parts)] = parts[1] + Len(parts) - 1
        BY <3>1, <3>2 DEF Begins
      <4>2. parts[1] + Len(parts) - 1 = arrived - Len(pending)
        BY <3>1, <4>1
      <4> QED
        BY <2>1, <3>2, <4>2
    <3>4. ASSUME NEW i \in 1 .. Len(rs) PROVE rs[i] = rs[1] + i - 1
      <4>1. CASE i = Len(rs)
        BY <4>1, <2>4, <3>2, <3>3
      <4>2. CASE i # Len(rs)
        <5>1. i \in 1 .. Len(parts)
          BY <4>2, <2>4, <3>2
        <5>2. parts[i] = parts[1] + i - 1
          BY <5>1, <3>1 DEF Begins
        <5> QED
          BY <5>1, <5>2, <2>4
      <4> QED
        BY <4>1, <4>2
    <3> QED
      BY <2>4, <3>1, <3>4 DEF Begins
  <2>7. Copied(rs)
    BY <1>10, <2>3 DEF ReadChunk
  <2> QED
    BY <2>1, <2>4, <2>5, <2>6, <2>7, TakeKeeps
<1> QED
  BY <1>4, <1>5, <1>6, <1>7, <1>8, <1>9, <1>10 DEF Reader

\* Flushing between calls, when no record has been copied.
LEMMA FlushStep == ASSUME IInv, FlushQueue PROVE IInv'
<1>1. /\ pending' = <<>> /\ notice' = FALSE
      /\ UNCHANGED <<link, arrived, readerVars>> /\ phase = "idle"
  BY DEF FlushQueue, Channel!Flush
<1>2. Empty(pending')
  BY <1>1, EmptyQueue
<1>3. notice' \in BOOLEAN
  BY <1>1
<1>4. QueueContiguous' /\ DownEmpty' /\ Channel!TypeOK'
  BY <1>1, <1>2, <1>3
  DEF Empty, QueueContiguous, DownEmpty, IInv, TypeOK, readerVars
<1>5. parts = <<>>
  BY <1>1 DEF IInv, PartsWhileReading
<1> QED
  BY <1>1, <1>4, <1>5, DeviceKeeps DEF IInv, TypeOK, readerVars

\* Nothing changes.
LEMMA Stutter == ASSUME IInv, UNCHANGED vars PROVE IInv'
BY DEF IInv, TypeOK, QueueContiguous, DownEmpty, PartsWhileReading, PartsBegin,
   FramesWhole, Begins, Complete, IsHead, vars, channelVars, readerVars

-----------------------------------------------------------------------------
\* IInv is an invariant of every stream of frames read over a device of any
\* capacity.
THEOREM Invariance == Spec => []IInv
<1>1. IInv /\ [Next]_vars => IInv'
  BY DeviceStep, ReaderStep, FlushStep, Stutter DEF Next
<1> QED
  BY InitIInv, <1>1, PTL DEF Spec

\* The variables' types, and that the records copied fit the frame announced.
THEOREM TypeCorrect == Spec => []TypeOK
<1>1. IInv => TypeOK
  BY DEF IInv
<1> QED
  BY Invariance, <1>1, PTL

\* Every frame that gxfp_dev_read_record returns is one frame of the MCU,
\* whole, unless the machine went to sleep while it was put together.
THEOREM FramesWholeHolds == Spec => []FramesWhole
<1>1. IInv => FramesWhole
  BY DEF IInv
<1> QED
  BY Invariance, <1>1, PTL

=============================================================================
