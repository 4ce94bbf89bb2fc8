-------------------------- MODULE GxfpMailboxProofs --------------------------
(***************************************************************************)
(* Proofs of the safety properties of GxfpMailbox, for every set of        *)
(* threads, every capacity and any number of records.  IInv is inductive:  *)
(* one lemma per conjunct shows that a step of any process preserves it,   *)
(* and the properties follow from it.  Last, that the driver implements    *)
(* RecordChannel: every step of a process is a step of the channel or      *)
(* leaves it as it is.                                                     *)
(***************************************************************************)
EXTENDS GxfpMailboxProps, TLAPS, FiniteSetTheorems

\* The tuples of variables and the parts of steps every proof expands.
USE DEF vars, queueVars, fifoVars, ghostVars, userVars, fileVars, callVars,
        lockVars, asyncVars, flagVars, handlerVars, irqVars, coreVars,
        ownVars, ecVars, Up,
        Step, Move, CoreStep, Return, Call, CoreOnly, HandlerQueues, Room,
        LoseQueue, WakeAll, TakeReference, DropReference, ReadLockFree,
        TxLockFree, HandlerSynced, IrqAlreadyDisabled, DropQueue

-----------------------------------------------------------------------------
\* The number of records handled is a natural number.
LEMMA HandledNat == ASSUME IInv PROVE Handled \in Nat
BY DEF IInv, TypeOK, IrqInv, Handled

\* The driver core keeps its own books.
LEMMA CoreInvStep == ASSUME IInv, [Next]_vars PROVE CoreInv'
<1> USE DEF IInv, CoreInv, TypeOK, Quiescing, Ended
<1>1. CASE EcPublish
  BY <1>1 DEF EcPublish
<1>2. CASE Irq
  BY <1>2 DEF Irq, IrqEnter, IrqReadWindow, IrqReadDone, IrqEnqueue, IrqWake
<1>3. ASSUME NEW t \in Threads, Enter(t) PROVE CoreInv'
  BY <1>3 DEF Enter, OpenEnter, ReleaseFile, WriteEnter, ReadEnter,
     PollEnter, FlushEnter
<1>4. ASSUME NEW t \in Threads, Continue(t) PROVE CoreInv'
  BY <1>4 DEF Continue, OpenDecide, ReleasePut, WriteLock, WriteWindow,
     WriteDone, ReadLock, ReadDown, ReadOverflow, ReadDequeue, ReadEmpty,
     ReadCopy, ReadPrepare, ReadTest, ReadWoken, PollMask, PollWoken,
     FlushReset
<1>5. ASSUME NEW t \in Threads, Interrupt(t) PROVE CoreInv'
  BY <1>5 DEF Interrupt, ReadLockInterrupted, ReadSleepInterrupted,
     PollTimeout
<1>6. CASE CallbackEnter
  BY <1>6 DEF CallbackEnter, SuspendEnter, ResumeEnter, RemoveMark
<1>7. CASE Callback
  BY <1>7 DEF Callback, ProbeRegister, ProbeEnable, SuspendMark, ResumeMark,
     ResumeEnable, RemoveDeregister, RemoveLock, QuiesceDisable, QuiesceSync,
     QuiesceStrobes, QuiescePurge, WakeAndReturn, DevresRelease, DevresPut
<1>8. CASE UNCHANGED vars
  BY <1>8
<1> QED
  BY <1>1, <1>2, <1>3, <1>4, <1>5, <1>6, <1>7, <1>8 DEF Next

\* Locks are held where the code holds them.
LEMMA LockInvStep == ASSUME IInv, [Next]_vars PROVE LockInv'
<1> USE ThreadsAssumption DEF IInv, LockInv, TypeOK, CoreInv, Quiescing, Ended
<1>1. CASE EcPublish
  BY <1>1 DEF EcPublish
<1>2. CASE Irq
  BY <1>2 DEF Irq, IrqEnter, IrqReadWindow, IrqReadDone, IrqEnqueue, IrqWake
<1>3. ASSUME NEW t \in Threads, Enter(t) PROVE LockInv'
  BY <1>3 DEF Enter, OpenEnter, ReleaseFile, WriteEnter, ReadEnter,
     PollEnter, FlushEnter
<1>4. ASSUME NEW t \in Threads, Continue(t) PROVE LockInv'
  BY <1>4 DEF Continue, OpenDecide, ReleasePut, WriteLock, WriteWindow,
     WriteDone, ReadLock, ReadDown, ReadOverflow, ReadDequeue, ReadEmpty,
     ReadCopy, ReadPrepare, ReadTest, ReadWoken, PollMask, PollWoken,
     FlushReset
<1>5. ASSUME NEW t \in Threads, Interrupt(t) PROVE LockInv'
  BY <1>5 DEF Interrupt, ReadLockInterrupted, ReadSleepInterrupted,
     PollTimeout
<1>6. CASE CallbackEnter
  BY <1>6 DEF CallbackEnter, SuspendEnter, ResumeEnter, RemoveMark
<1>7. CASE Callback
  BY <1>7 DEF Callback, ProbeRegister, ProbeEnable, SuspendMark, ResumeMark,
     ResumeEnable, RemoveDeregister, RemoveLock, QuiesceDisable, QuiesceSync,
     QuiesceStrobes, QuiescePurge, WakeAndReturn, DevresRelease, DevresPut
<1>8. CASE UNCHANGED vars
  BY <1>8
<1> QED
  BY <1>1, <1>2, <1>3, <1>4, <1>5, <1>6, <1>7, <1>8 DEF Next

\* The irq is enabled exactly when it should be.
LEMMA IrqInvStep == ASSUME IInv, [Next]_vars PROVE IrqInv'
<1> USE DEF IInv, IrqInv, TypeOK, CoreInv, Quiescing, Ended
<1>1. CASE EcPublish
  BY <1>1 DEF EcPublish
<1>2. CASE Irq
  BY <1>2 DEF Irq, IrqEnter, IrqReadWindow, IrqReadDone, IrqEnqueue, IrqWake
<1>3. ASSUME NEW t \in Threads, Enter(t) PROVE IrqInv'
  BY <1>3 DEF Enter, OpenEnter, ReleaseFile, WriteEnter, ReadEnter,
     PollEnter, FlushEnter
<1>4. ASSUME NEW t \in Threads, Continue(t) PROVE IrqInv'
  BY <1>4 DEF Continue, OpenDecide, ReleasePut, WriteLock, WriteWindow,
     WriteDone, ReadLock, ReadDown, ReadOverflow, ReadDequeue, ReadEmpty,
     ReadCopy, ReadPrepare, ReadTest, ReadWoken, PollMask, PollWoken,
     FlushReset
<1>5. ASSUME NEW t \in Threads, Interrupt(t) PROVE IrqInv'
  BY <1>5 DEF Interrupt, ReadLockInterrupted, ReadSleepInterrupted,
     PollTimeout
<1>6. CASE CallbackEnter
  BY <1>6 DEF CallbackEnter, SuspendEnter, ResumeEnter, RemoveMark
<1>7. CASE Callback
  BY <1>7 DEF Callback, ProbeRegister, ProbeEnable, SuspendMark, ResumeMark,
     ResumeEnable, RemoveDeregister, RemoveLock, QuiesceDisable, QuiesceSync,
     QuiesceStrobes, QuiescePurge, WakeAndReturn, DevresRelease, DevresPut
<1>8. CASE UNCHANGED vars
  BY <1>8
<1> QED
  BY <1>1, <1>2, <1>3, <1>4, <1>5, <1>6, <1>7, <1>8 DEF Next

\* No step leaves a sleeper without a waker.
LEMMA WaitInvStep == ASSUME IInv, [Next]_vars PROVE WaitInv'
<1> USE DEF IInv, WaitInv, TypeOK, CoreInv, Quiescing, Ended,
            SleeperHasWaker, ReadCondition, PollReady
<1>1. CASE EcPublish
  BY <1>1 DEF EcPublish
<1>2. CASE Irq
  BY <1>2 DEF Irq, IrqEnter, IrqReadWindow, IrqReadDone, IrqEnqueue, IrqWake
<1>3. ASSUME NEW t \in Threads, Enter(t) PROVE WaitInv'
  BY <1>3 DEF Enter, OpenEnter, ReleaseFile, WriteEnter, ReadEnter,
     PollEnter, FlushEnter
<1>4. ASSUME NEW t \in Threads, OpenDecide(t) PROVE WaitInv'
  BY <1>4 DEF OpenDecide
<1>5. ASSUME NEW t \in Threads, ReleasePut(t) PROVE WaitInv'
  BY <1>5 DEF ReleasePut
<1>6. ASSUME NEW t \in Threads, WriteLock(t) PROVE WaitInv'
  BY <1>6 DEF WriteLock
<1>7. ASSUME NEW t \in Threads, WriteWindow(t) PROVE WaitInv'
  BY <1>7 DEF WriteWindow
<1>8. ASSUME NEW t \in Threads, WriteDone(t) PROVE WaitInv'
  BY <1>8 DEF WriteDone
<1>9. ASSUME NEW t \in Threads, ReadLock(t) PROVE WaitInv'
  BY <1>9 DEF ReadLock
<1>10. ASSUME NEW t \in Threads, ReadDown(t) PROVE WaitInv'
  BY <1>10 DEF ReadDown
<1>11. ASSUME NEW t \in Threads, ReadOverflow(t) PROVE WaitInv'
  BY <1>11 DEF ReadOverflow
<1>12. ASSUME NEW t \in Threads, ReadDequeue(t) PROVE WaitInv'
  BY <1>12 DEF ReadDequeue
<1>13. ASSUME NEW t \in Threads, ReadEmpty(t) PROVE WaitInv'
  BY <1>13 DEF ReadEmpty
<1>14. ASSUME NEW t \in Threads, ReadCopy(t) PROVE WaitInv'
  BY <1>14 DEF ReadCopy
<1>15. ASSUME NEW t \in Threads, ReadPrepare(t) PROVE WaitInv'
  BY <1>15 DEF ReadPrepare
<1>16. ASSUME NEW t \in Threads, ReadTest(t) PROVE WaitInv'
  BY <1>16 DEF ReadTest
<1>17. ASSUME NEW t \in Threads, ReadWoken(t) PROVE WaitInv'
  BY <1>17 DEF ReadWoken
<1>18. ASSUME NEW t \in Threads, PollMask(t) PROVE WaitInv'
  BY <1>18 DEF PollMask
<1>19. ASSUME NEW t \in Threads, PollWoken(t) PROVE WaitInv'
  BY <1>19 DEF PollWoken
<1>20. ASSUME NEW t \in Threads, FlushReset(t) PROVE WaitInv'
  BY <1>20 DEF FlushReset
<1>21. ASSUME NEW t \in Threads, Interrupt(t) PROVE WaitInv'
  BY <1>21 DEF Interrupt, ReadLockInterrupted, ReadSleepInterrupted,
     PollTimeout
<1>22. CASE CallbackEnter
  BY <1>22 DEF CallbackEnter, SuspendEnter, ResumeEnter, RemoveMark
<1>23. CASE Callback
  BY <1>23 DEF Callback, ProbeRegister, ProbeEnable, SuspendMark, ResumeMark,
     ResumeEnable, RemoveDeregister, RemoveLock, QuiesceDisable, QuiesceSync,
     QuiesceStrobes, QuiescePurge, WakeAndReturn, DevresRelease, DevresPut
<1>24. CASE UNCHANGED vars
  BY <1>24
<1> QED
  BY <1>1, <1>2, <1>3, <1>4, <1>5, <1>6, <1>7, <1>8, <1>9, <1>10, <1>11,
     <1>12, <1>13, <1>14, <1>15, <1>16, <1>17, <1>18, <1>19, <1>20, <1>21,
     <1>22, <1>23, <1>24 DEF Next, Continue

\* Appending the next record extends the run the FIFO holds.
LEMMA RunAppend ==
  ASSUME NEW f \in Seq(Nat), NEW h \in Nat, RunUpTo(f, h)
  PROVE  /\ Append(f, h + 1) \in Seq(Nat)
         /\ Len(Append(f, h + 1)) = Len(f) + 1
         /\ RunUpTo(Append(f, h + 1), h + 1)
<1>1. Append(f, h + 1) \in Seq(Nat) /\ Len(Append(f, h + 1)) = Len(f) + 1
  OBVIOUS
<1>2. ASSUME NEW i \in 1 .. Len(f) + 1
      PROVE  Append(f, h + 1)[i] = (h + 1) - (Len(f) + 1) + i
  BY DEF RunUpTo
<1> QED
  BY <1>1, <1>2 DEF RunUpTo

\* The oldest record of a run is the one a reader expects; the rest is a run.
LEMMA RunTail ==
  ASSUME NEW f \in Seq(Nat), NEW h \in Nat, RunUpTo(f, h), f # <<>>
  PROVE  /\ Tail(f) \in Seq(Nat)
         /\ Len(Tail(f)) = Len(f) - 1
         /\ Head(f) = h - Len(f) + 1
         /\ RunUpTo(Tail(f), h)
<1>1. Tail(f) \in Seq(Nat) /\ Len(Tail(f)) = Len(f) - 1 /\ Len(f) >= 1
  OBVIOUS
<1>2. Head(f) = h - Len(f) + 1
  BY <1>1 DEF RunUpTo
<1>3. ASSUME NEW i \in 1 .. Len(f) - 1
      PROVE  Tail(f)[i] = h - (Len(f) - 1) + i
  <2>1. i + 1 \in 1 .. Len(f) /\ Tail(f)[i] = f[i + 1]
    BY <1>1
  <2> QED
    BY <2>1 DEF RunUpTo
<1> QED
  BY <1>1, <1>2, <1>3 DEF RunUpTo

\* The empty FIFO is a run up to any record.
LEMMA RunEmpty == ASSUME NEW h \in Nat PROVE RunUpTo(<<>>, h)
BY DEF RunUpTo

\* A step that touches neither the FIFO nor the count of records handled, and
\* brings the device neither up nor to a point where it must be empty.
QueueUntouched ==
  /\ queueVars' = queueVars /\ rxReadBuf' = rxReadBuf /\ Handled' = Handled
  /\ Up' => Up
  /\ Emptied' => Emptied
  /\ \A t \in Threads : pc'[t] = "readCopy" => pc[t] = "readCopy"

\* Such a step keeps the books of the FIFO.
LEMMA QueueFrame == ASSUME QueueInv, QueueUntouched PROVE QueueInv'
<1>1. /\ fifo' = fifo /\ queued' = queued /\ overflow' = overflow /\ base' = base
      /\ lastOut' = lastOut /\ rxReadBuf' = rxReadBuf /\ Handled' = Handled
  BY DEF QueueUntouched
<1>2. NoSilentLoss'
  <2>1. RunUpTo(fifo', Handled') = RunUpTo(fifo, Handled)
    BY <1>1
  <2> QED
    BY <1>1, <2>1 DEF QueueInv, QueueUntouched, NoSilentLoss
<1>3. ReadsInOrder'
  BY <1>1 DEF QueueInv, QueueUntouched, ReadsInOrder
<1> QED
  BY <1>1, <1>2, <1>3 DEF QueueInv, QueueUntouched

\* A step that empties the FIFO and accounts for every record keeps them too.
QueueCleared ==
  /\ fifo' = <<>> /\ queued' = 0 /\ base' = Handled' /\ ~overflow'
  /\ Handled \in Nat /\ Handled' = Handled
  /\ lastOut' = lastOut /\ rxReadBuf' = rxReadBuf
  /\ \A t \in Threads : pc'[t] = "readCopy" => pc[t] = "readCopy"

LEMMA ClearedFrame == ASSUME IInv, QueueCleared PROVE QueueInv'
<1>1. base \in Nat /\ Len(fifo) \in Nat /\ lastOut \in Nat /\ rxReadBuf \in Nat
  BY DEF IInv, TypeOK
<1>2. lastOut' <= base' /\ rxReadBuf' <= base'
  BY <1>1 DEF IInv, QueueInv, QueueCleared
<1>3. queued' = Len(fifo') /\ base' + Len(fifo') <= Handled'
  <2>1. Len(fifo') = 0
    BY DEF QueueCleared
  <2> QED
    BY <2>1 DEF QueueCleared
<1>4. NoSilentLoss'
  <2>1. Len(fifo') = 0 /\ RunUpTo(fifo', Handled')
    BY RunEmpty DEF QueueCleared
  <2> QED
    BY <2>1 DEF NoSilentLoss, QueueCleared
<1>5. ReadsInOrder'
  BY DEF IInv, QueueInv, ReadsInOrder, QueueCleared
<1> QED
  BY <1>2, <1>3, <1>4, <1>5 DEF QueueInv, QueueCleared

\* The handler does not run while the FIFO must be empty.
LEMMA EmptiedIdle == ASSUME IInv, Emptied PROVE irqPc = "idle"
BY DEF IInv, TypeOK, CoreInv, IrqInv, Emptied, Quiescing, Ended

\* Every record is accounted for, and readers get them in order.
LEMMA QueueInvStep == ASSUME IInv, [Next]_vars PROVE QueueInv'
<1>1. Handled \in Nat /\ QueueInv
  BY HandledNat DEF IInv
<1>2. CASE EcPublish
  <2>1. Handled' = Handled
    BY <1>2 DEF Handled, IInv, TypeOK, IrqInv, EcPublish
  <2>2. (Up' => Up) /\ (Emptied' => Emptied)
    BY <1>2 DEF Emptied, IInv, TypeOK, CoreInv, IrqInv, Calls, Quiescing,
       Ended, EcPublish
  <2>3. \A u \in Threads : pc'[u] = "readCopy" => pc[u] = "readCopy"
    BY <1>2 DEF IInv, TypeOK, EcPublish
  <2>4. queueVars' = queueVars /\ rxReadBuf' = rxReadBuf
    BY <1>2 DEF EcPublish
  <2> QED
    BY <1>1, <2>1, <2>2, <2>3, <2>4, QueueFrame DEF QueueUntouched
<1>3. CASE IrqEnter \/ IrqReadWindow \/ IrqWake
  <2>1. Handled' = Handled
    BY <1>3 DEF Handled, IInv, TypeOK, IrqInv, IrqEnter, IrqReadWindow,
       IrqWake
  <2>2. (Up' => Up) /\ (Emptied' => Emptied)
    BY <1>3 DEF Emptied, IInv, TypeOK, CoreInv, IrqInv, Calls, Quiescing,
       Ended, IrqEnter, IrqReadWindow, IrqWake
  <2>3. \A u \in Threads : pc'[u] = "readCopy" => pc[u] = "readCopy"
    BY <1>3 DEF IInv, TypeOK, IrqEnter, IrqReadWindow, IrqWake
  <2>4. queueVars' = queueVars /\ rxReadBuf' = rxReadBuf
    BY <1>3 DEF IrqEnter, IrqReadWindow, IrqWake
  <2> QED
    BY <1>1, <2>1, <2>2, <2>3, <2>4, QueueFrame DEF QueueUntouched
<1>4. CASE IrqReadDone
  <2>1. CASE irqQueue
    <3>1. QueueUntouched
      BY <1>4, <2>1 DEF IrqReadDone, QueueUntouched, Handled, Emptied, IInv, TypeOK, IrqInv
    <3> QED
      BY <1>1, <3>1, QueueFrame
  <2>2. CASE ~irqQueue
    <3>1. Handled' = Handled + 1
      BY <1>4, <2>2 DEF IrqReadDone, Handled, IInv, TypeOK, IrqInv
    <3>2. ~Up /\ ~Up'
      BY <1>4, <2>2 DEF IrqReadDone, IInv, IrqInv
    <3>3. ~Emptied'
      <4>1. Emptied' = Emptied
        BY <1>4 DEF IrqReadDone, Emptied
      <4> QED
        BY <1>4, <4>1, EmptiedIdle DEF IrqReadDone
    <3>4. /\ fifo' = fifo /\ queued' = queued /\ base' = base /\ lastOut' = lastOut
          /\ rxReadBuf' = rxReadBuf /\ pc' = pc
      BY <1>4 DEF IrqReadDone
    <3>5. NoSilentLoss' /\ ReadsInOrder'
      BY <1>1, <3>2, <3>4 DEF NoSilentLoss, QueueInv, ReadsInOrder
    <3>6. base' + Len(fifo') <= Handled'
      BY <1>1, <3>1, <3>4 DEF QueueInv, IInv, TypeOK
    <3> QED
      BY <1>1, <3>3, <3>4, <3>5, <3>6 DEF QueueInv
  <2> QED
    BY <2>1, <2>2
<1>5. CASE IrqEnqueue
  <2>1. Handled' = Handled + 1 /\ rxBuf = Handled + 1
    BY <1>5 DEF IrqEnqueue, Handled, IInv, TypeOK, IrqInv
  <2>2. /\ Up' = Up /\ base' = base /\ pc' = pc
        /\ rxReadBuf' = rxReadBuf /\ lastOut' = lastOut
    BY <1>5 DEF IrqEnqueue
  <2>3. ReadsInOrder'
    BY <1>1, <2>2 DEF QueueInv, ReadsInOrder
  <2>4. ~Emptied'
    <3>1. Emptied' = Emptied
      BY <1>5 DEF IrqEnqueue, Emptied
    <3> QED
      BY <1>5, <3>1, EmptiedIdle DEF IrqEnqueue
  <2>5. fifo \in Seq(Nat) /\ base \in Nat /\ Len(fifo) \in Nat
    BY DEF IInv, TypeOK
  <2>6. CASE fifo' = Append(fifo, rxBuf) /\ queued' = queued + 1 /\ overflow' = overflow
    <3>1. Len(fifo') = Len(fifo) + 1
      BY <2>1, <2>5, <2>6
    <3>2. queued' = Len(fifo') /\ base' + Len(fifo') <= Handled'
      BY <1>1, <2>1, <2>2, <2>5, <2>6, <3>1 DEF QueueInv
    <3>3. ASSUME Up' PROVE RunUpTo(fifo', Handled')
      <4>1. RunUpTo(fifo, Handled)
        BY <1>1, <2>2, <3>3 DEF QueueInv, NoSilentLoss
      <4> QED
        BY <1>1, <2>1, <2>5, <2>6, <4>1, RunAppend
    <3>4. ASSUME Up', ~overflow' PROVE base' = Handled' - Len(fifo')
      BY <1>1, <2>1, <2>2, <2>5, <2>6, <3>1, <3>4 DEF QueueInv, NoSilentLoss
    <3>5. NoSilentLoss'
      BY <3>3, <3>4 DEF NoSilentLoss
    <3> QED
      BY <1>1, <2>2, <2>3, <2>4, <3>2, <3>5 DEF QueueInv
  <2>7. CASE fifo' = <<>> /\ queued' = 0 /\ overflow' = TRUE
    <3>1. Len(fifo') = 0
      BY <2>7
    <3>2. base' + Len(fifo') <= Handled'
      BY <1>1, <2>1, <2>2, <2>5, <3>1 DEF QueueInv
    <3>3. NoSilentLoss'
      BY <1>1, <2>1, <2>7, RunEmpty DEF NoSilentLoss
    <3> QED
      BY <1>1, <2>2, <2>3, <2>4, <2>7, <3>1, <3>2, <3>3 DEF QueueInv
  <2> QED
    BY <1>5, <2>6, <2>7 DEF IrqEnqueue
<1>6. ASSUME NEW t \in Threads,
        OpenEnter(t) \/ ReleaseFile(t) \/ WriteEnter(t) \/ ReadEnter(t) \/
        PollEnter(t) \/ FlushEnter(t)
      PROVE  QueueInv'
  <2>1. Handled' = Handled
    <3>1. sent' = sent /\ unacked' = unacked /\ irqPc' = irqPc
      BY <1>6 DEF OpenEnter, ReleaseFile, WriteEnter, ReadEnter, PollEnter,
         FlushEnter
    <3> QED
      BY <3>1 DEF Handled
  <2>2. (Up' => Up) /\ (Emptied' => Emptied)
    BY <1>6 DEF Emptied, IInv, TypeOK, CoreInv, IrqInv, Calls, Quiescing,
       Ended, OpenEnter, ReleaseFile, WriteEnter, ReadEnter, PollEnter,
       FlushEnter
  <2>3. \A u \in Threads : pc'[u] = "readCopy" => pc[u] = "readCopy"
    BY <1>6 DEF IInv, TypeOK, OpenEnter, ReleaseFile, WriteEnter, ReadEnter,
       PollEnter, FlushEnter
  <2>4. queueVars' = queueVars /\ rxReadBuf' = rxReadBuf
    BY <1>6 DEF OpenEnter, ReleaseFile, WriteEnter, ReadEnter, PollEnter,
       FlushEnter
  <2> QED
    BY <1>1, <2>1, <2>2, <2>3, <2>4, QueueFrame DEF QueueUntouched
<1>7. ASSUME NEW t \in Threads,
        OpenDecide(t) \/ ReleasePut(t) \/ WriteLock(t) \/ WriteWindow(t) \/
        WriteDone(t) \/ ReadLock(t) \/ ReadDown(t) \/ ReadEmpty(t) \/
        ReadPrepare(t) \/ ReadTest(t) \/ ReadWoken(t) \/ PollMask(t) \/
        PollWoken(t)
      PROVE  QueueInv'
  <2>1. Handled' = Handled
    BY <1>7 DEF Handled, IInv, TypeOK, IrqInv, OpenDecide, ReleasePut,
       WriteLock, WriteWindow, WriteDone, ReadLock, ReadDown, ReadEmpty,
       ReadPrepare, ReadTest, ReadWoken, PollMask, PollWoken
  <2>2. (Up' => Up) /\ (Emptied' => Emptied)
    BY <1>7 DEF Emptied, IInv, TypeOK, CoreInv, IrqInv, Calls, Quiescing,
       Ended, OpenDecide, ReleasePut, WriteLock, WriteWindow, WriteDone,
       ReadLock, ReadDown, ReadEmpty, ReadPrepare, ReadTest, ReadWoken,
       PollMask, PollWoken
  <2>3. \A u \in Threads : pc'[u] = "readCopy" => pc[u] = "readCopy"
    BY <1>7 DEF IInv, TypeOK, OpenDecide, ReleasePut, WriteLock, WriteWindow,
       WriteDone, ReadLock, ReadDown, ReadEmpty, ReadPrepare, ReadTest,
       ReadWoken, PollMask, PollWoken
  <2>4. queueVars' = queueVars /\ rxReadBuf' = rxReadBuf
    BY <1>7 DEF OpenDecide, ReleasePut, WriteLock, WriteWindow, WriteDone,
       ReadLock, ReadDown, ReadEmpty, ReadPrepare, ReadTest, ReadWoken,
       PollMask, PollWoken
  <2> QED
    BY <1>1, <2>1, <2>2, <2>3, <2>4, QueueFrame DEF QueueUntouched
<1>8. ASSUME NEW t \in Threads, ReadOverflow(t) PROVE QueueInv'
  <2>1. Handled' = Handled
    BY <1>8 DEF ReadOverflow, Handled
  <2>2. /\ fifo' = fifo /\ queued' = queued /\ lastOut' = lastOut
        /\ rxReadBuf' = rxReadBuf /\ ~overflow' /\ overflow /\ Up /\ Up' = Up
        /\ base' = Handled - Len(fifo) /\ Emptied' = Emptied
    BY <1>8 DEF ReadOverflow, Emptied
  <2>3. \A u \in Threads : pc'[u] = "readCopy" => pc[u] = "readCopy"
    BY <1>8 DEF ReadOverflow, IInv, TypeOK
  <2>4. base \in Nat /\ Len(fifo) \in Nat /\ lastOut \in Nat /\ rxReadBuf \in Nat
    BY DEF IInv, TypeOK
  <2>5. /\ base' + Len(fifo') <= Handled' /\ lastOut' <= base' /\ rxReadBuf' <= base'
    BY <1>1, <2>1, <2>2, <2>4 DEF QueueInv
  <2>6. RunUpTo(fifo', Handled')
    <3>1. RunUpTo(fifo, Handled)
      BY <1>1, <2>2 DEF QueueInv, NoSilentLoss
    <3> QED
      BY <2>1, <2>2, <3>1
  <2>7. NoSilentLoss' /\ ReadsInOrder'
    BY <1>1, <2>1, <2>2, <2>3, <2>6 DEF QueueInv, NoSilentLoss, ReadsInOrder
  <2>8. ~Emptied'
    BY <1>1, <2>2 DEF QueueInv
  <2> QED
    BY <1>1, <2>2, <2>5, <2>7, <2>8 DEF QueueInv
<1>9. ASSUME NEW t \in Threads, ReadDequeue(t) PROVE QueueInv'
  <2>1. Handled' = Handled
    BY <1>9 DEF ReadDequeue, Handled
  <2>2. fifo \in Seq(Nat) /\ base \in Nat /\ Len(fifo) \in Nat /\ lastOut \in Nat
        /\ rxReadBuf \in Nat /\ pc \in [Threads -> Calls]
    BY DEF IInv, TypeOK
  <2>3. fifo # <<>>
    BY <1>9, <1>1, <2>2 DEF ReadDequeue, QueueInv
  <2>4. /\ fifo' = Tail(fifo) /\ queued' = queued - 1 /\ rxReadBuf' = Head(fifo)
        /\ base' = Head(fifo) /\ lastOut' = lastOut /\ overflow' = overflow
        /\ ~overflow /\ Up /\ Up' = Up
    BY <1>9, <2>3 DEF ReadDequeue
  <2>5. base = Handled - Len(fifo) /\ RunUpTo(fifo, Handled)
    BY <1>1, <2>4 DEF QueueInv, NoSilentLoss
  <2>6. /\ Tail(fifo) \in Seq(Nat) /\ Len(Tail(fifo)) = Len(fifo) - 1
        /\ Head(fifo) = Handled - Len(fifo) + 1 /\ RunUpTo(Tail(fifo), Handled)
    BY <1>1, <2>2, <2>3, <2>5, RunTail
  <2>7. /\ queued' = Len(fifo') /\ base' = Handled' - Len(fifo')
        /\ base' = base + 1
    BY <1>1, <2>1, <2>2, <2>4, <2>5, <2>6 DEF QueueInv
  <2>8. base' + Len(fifo') <= Handled' /\ lastOut' <= base' /\ rxReadBuf' <= base'
    BY <1>1, <2>1, <2>2, <2>4, <2>6, <2>7 DEF QueueInv
  <2>9. NoSilentLoss'
    <3>1. RunUpTo(fifo', Handled')
      BY <2>1, <2>4, <2>6
    <3> QED
      BY <2>7, <3>1 DEF NoSilentLoss
  <2>10. ReadsInOrder'
    <3>1. rxReadBuf' > lastOut'
      BY <1>1, <2>2, <2>4, <2>7 DEF QueueInv
    <3> QED
      BY <3>1 DEF ReadsInOrder
  <2>11. ~Emptied'
    <3>1. Emptied' = Emptied
      BY <1>9 DEF ReadDequeue, Emptied
    <3> QED
      BY <1>1, <2>3, <3>1 DEF QueueInv
  <2> QED
    BY <2>7, <2>8, <2>9, <2>10, <2>11 DEF QueueInv
<1>10. ASSUME NEW t \in Threads, ReadCopy(t) PROVE QueueInv'
  <2>1. Handled' = Handled
    BY <1>10 DEF ReadCopy, Handled
  <2>2. /\ fifo' = fifo /\ queued' = queued /\ overflow' = overflow /\ base' = base
        /\ rxReadBuf' = rxReadBuf /\ Up' = Up /\ Emptied' = Emptied
    BY <1>10 DEF ReadCopy, Emptied
  <2>3. lastOut' <= base'
    BY <1>10, <1>1, <2>2 DEF ReadCopy, QueueInv
  <2>4. ReadsInOrder'
    <3>1. ASSUME NEW u \in Threads PROVE pc'[u] # "readCopy"
      BY <1>10, ThreadsAssumption DEF ReadCopy, IInv, TypeOK, LockInv
    <3> QED
      BY <3>1 DEF ReadsInOrder
  <2>5. NoSilentLoss'
    <3>1. RunUpTo(fifo', Handled') = RunUpTo(fifo, Handled)
      BY <2>1, <2>2
    <3> QED
      BY <1>1, <2>1, <2>2, <3>1 DEF QueueInv, NoSilentLoss
  <2> QED
    BY <1>1, <2>1, <2>2, <2>3, <2>4, <2>5 DEF QueueInv
<1>11. ASSUME NEW t \in Threads, FlushReset(t) PROVE QueueInv'
  <2>1. fifo' = <<>> /\ queued' = 0 /\ ~overflow'
    BY <1>11 DEF FlushReset, IInv, CoreInv, QueueInv, Emptied
  <2>2. Handled' = Handled
    BY <1>11 DEF FlushReset, Handled
  <2>3. QueueCleared
    BY <1>11, <1>1, <2>1, <2>2 DEF FlushReset, QueueCleared, IInv, TypeOK
  <2> QED
    BY <2>3, ClearedFrame
<1>12. ASSUME NEW t \in Threads,
        ReadLockInterrupted(t) \/ ReadSleepInterrupted(t) \/ PollTimeout(t)
      PROVE  QueueInv'
  <2>1. Handled' = Handled
    BY <1>12 DEF Handled, IInv, TypeOK, IrqInv, ReadLockInterrupted,
       ReadSleepInterrupted, PollTimeout
  <2>2. (Up' => Up) /\ (Emptied' => Emptied)
    BY <1>12 DEF Emptied, IInv, TypeOK, CoreInv, IrqInv, Calls, Quiescing,
       Ended, ReadLockInterrupted, ReadSleepInterrupted, PollTimeout
  <2>3. \A u \in Threads : pc'[u] = "readCopy" => pc[u] = "readCopy"
    BY <1>12 DEF IInv, TypeOK, ReadLockInterrupted, ReadSleepInterrupted,
       PollTimeout
  <2>4. queueVars' = queueVars /\ rxReadBuf' = rxReadBuf
    BY <1>12 DEF ReadLockInterrupted, ReadSleepInterrupted, PollTimeout
  <2> QED
    BY <1>1, <2>1, <2>2, <2>3, <2>4, QueueFrame DEF QueueUntouched
<1>13. CASE SuspendEnter \/ ResumeEnter \/ RemoveMark
  <2>1. Handled' = Handled
    <3>1. sent' = sent /\ unacked' = unacked /\ irqPc' = irqPc
      BY <1>13 DEF SuspendEnter, ResumeEnter, RemoveMark
    <3> QED
      BY <3>1 DEF Handled
  <2>2. (Up' => Up) /\ (Emptied' => Emptied)
    BY <1>13 DEF Emptied, IInv, TypeOK, CoreInv, IrqInv, Calls, Quiescing,
       Ended, SuspendEnter, ResumeEnter, RemoveMark
  <2>3. \A u \in Threads : pc'[u] = "readCopy" => pc[u] = "readCopy"
    BY <1>13 DEF IInv, TypeOK, SuspendEnter, ResumeEnter, RemoveMark
  <2>4. queueVars' = queueVars /\ rxReadBuf' = rxReadBuf
    BY <1>13 DEF SuspendEnter, ResumeEnter, RemoveMark
  <2> QED
    BY <1>1, <2>1, <2>2, <2>3, <2>4, QueueFrame DEF QueueUntouched
<1>14. CASE ProbeRegister \/ ProbeEnable \/ SuspendMark \/ ResumeEnable
  <2>1. Handled' = Handled
    BY <1>14 DEF Handled, IInv, TypeOK, IrqInv, ProbeRegister, ProbeEnable,
       SuspendMark, ResumeEnable
  <2>2. (Up' => Up) /\ (Emptied' => Emptied)
    BY <1>14 DEF Emptied, IInv, TypeOK, CoreInv, IrqInv, Calls, Quiescing,
       Ended, ProbeRegister, ProbeEnable, SuspendMark, ResumeEnable
  <2>3. \A u \in Threads : pc'[u] = "readCopy" => pc[u] = "readCopy"
    BY <1>14 DEF IInv, TypeOK, ProbeRegister, ProbeEnable, SuspendMark,
       ResumeEnable
  <2>4. queueVars' = queueVars /\ rxReadBuf' = rxReadBuf
    BY <1>14 DEF ProbeRegister, ProbeEnable, SuspendMark, ResumeEnable
  <2> QED
    BY <1>1, <2>1, <2>2, <2>3, <2>4, QueueFrame DEF QueueUntouched
<1>15. CASE RemoveDeregister \/ RemoveLock \/ QuiesceDisable \/ QuiesceSync \/
        QuiesceStrobes
  <2>1. Handled' = Handled
    BY <1>15 DEF Handled, IInv, TypeOK, IrqInv, RemoveDeregister, RemoveLock,
       QuiesceDisable, QuiesceSync, QuiesceStrobes
  <2>2. (Up' => Up) /\ (Emptied' => Emptied)
    BY <1>15 DEF Emptied, IInv, TypeOK, CoreInv, IrqInv, Calls, Quiescing,
       Ended, RemoveDeregister, RemoveLock, QuiesceDisable, QuiesceSync,
       QuiesceStrobes
  <2>3. \A u \in Threads : pc'[u] = "readCopy" => pc[u] = "readCopy"
    BY <1>15 DEF IInv, TypeOK, RemoveDeregister, RemoveLock, QuiesceDisable,
       QuiesceSync, QuiesceStrobes
  <2>4. queueVars' = queueVars /\ rxReadBuf' = rxReadBuf
    BY <1>15 DEF RemoveDeregister, RemoveLock, QuiesceDisable, QuiesceSync,
       QuiesceStrobes
  <2> QED
    BY <1>1, <2>1, <2>2, <2>3, <2>4, QueueFrame DEF QueueUntouched
<1>16. CASE WakeAndReturn \/ DevresRelease \/ DevresPut
  <2>1. Handled' = Handled
    BY <1>16 DEF Handled, IInv, TypeOK, IrqInv, WakeAndReturn, DevresRelease,
       DevresPut
  <2>2. (Up' => Up) /\ (Emptied' => Emptied)
    BY <1>16 DEF Emptied, IInv, TypeOK, CoreInv, IrqInv, Calls, Quiescing,
       Ended, WakeAndReturn, DevresRelease, DevresPut
  <2>3. \A u \in Threads : pc'[u] = "readCopy" => pc[u] = "readCopy"
    BY <1>16 DEF IInv, TypeOK, WakeAndReturn, DevresRelease, DevresPut
  <2>4. queueVars' = queueVars /\ rxReadBuf' = rxReadBuf
    BY <1>16 DEF WakeAndReturn, DevresRelease, DevresPut
  <2> QED
    BY <1>1, <2>1, <2>2, <2>3, <2>4, QueueFrame DEF QueueUntouched
<1>17. CASE ResumeMark
  <2>1. CASE removed
    <3>1. QueueUntouched
      BY <1>17, <2>1 DEF ResumeMark, QueueUntouched, Handled, Emptied
    <3> QED
      BY <1>1, <3>1, QueueFrame
  <2>2. CASE ~removed
    <3>1. fifo = <<>> /\ ~overflow /\ base = Handled /\ queued = 0
      BY <1>17, <1>1 DEF ResumeMark, QueueInv, Emptied, IInv, CoreInv
    <3>2. Handled' = Handled
      BY <1>17 DEF ResumeMark, Handled
    <3>3. QueueCleared
      BY <1>17, <1>1, <3>1, <3>2 DEF ResumeMark, QueueCleared
    <3> QED
      BY <3>3, ClearedFrame
  <2> QED
    BY <2>1, <2>2
<1>18. CASE QuiescePurge
  <2>1. fifo' = <<>> /\ queued' = 0 /\ ~overflow'
    BY <1>18 DEF QuiescePurge, IInv, CoreInv, QueueInv, Emptied
  <2>2. Handled' = Handled
    BY <1>18 DEF QuiescePurge, Handled
  <2>3. QueueCleared
    BY <1>18, <1>1, <2>1, <2>2 DEF QuiescePurge, QueueCleared, IInv, TypeOK
  <2> QED
    BY <2>3, ClearedFrame
<1>19. CASE UNCHANGED vars
  <2>1. QueueUntouched
    BY <1>19 DEF QueueUntouched, Handled, Emptied
  <2> QED
    BY <1>1, <2>1, QueueFrame
<1> QED
  BY <1>2, <1>3, <1>4, <1>5, <1>6, <1>7, <1>8, <1>9, <1>10, <1>11, <1>12,
     <1>13, <1>14, <1>15, <1>16, <1>17, <1>18, <1>19 DEF Next, Irq, Enter,
     Continue, Interrupt, CallbackEnter, Callback

\* Closing threads are counted by a natural number, at least one of them if
\* there is any.
LEMMA PuttersFinite ==
  /\ IsFiniteSet(Putters)
  /\ Cardinality(Putters) \in Nat
<1>1. Putters \subseteq Threads
  BY DEF Putters
<1> QED
  BY <1>1, ThreadsAssumption, FS_Subset, FS_CardinalityType

LEMMA PutterCounted == ASSUME NEW t \in Putters PROVE Cardinality(Putters) >= 1
BY PuttersFinite, FS_EmptySet

\* Every variable keeps its type.
LEMMA TypeOKStep == ASSUME IInv, [Next]_vars PROVE TypeOK'
<1> USE DEF IInv, TypeOK, Calls
<1>1. CASE EcPublish
  BY <1>1 DEF EcPublish
<1>2. CASE IrqEnter
  BY <1>2 DEF IrqEnter
<1>3. CASE IrqReadWindow
  BY <1>3 DEF IrqReadWindow
<1>4. CASE IrqReadDone
  <2>1. unacked' \in BOOLEAN
    BY <1>4 DEF IrqReadDone
  <2> QED
    BY <1>4, <2>1 DEF IrqReadDone
<1>5. CASE IrqEnqueue
  <2>1. fifo' \in Seq(Nat) /\ Len(fifo') <= Capacity /\ queued' \in Nat
    <3>1. CASE Len(fifo) < Capacity /\ fifo' = Append(fifo, rxBuf) /\ queued' = queued + 1
      BY <3>1, CapacityAssumption
    <3>2. CASE fifo' = <<>> /\ queued' = 0
      BY <3>2, CapacityAssumption
    <3> QED
      BY <1>5, <3>1, <3>2 DEF IrqEnqueue
  <2>2. overflow' \in BOOLEAN
    BY <1>5 DEF IrqEnqueue
  <2> QED
    BY <1>5, <2>1, <2>2 DEF IrqEnqueue
<1>6. CASE IrqWake
  BY <1>6 DEF IrqWake
<1>7. ASSUME NEW t \in Threads, OpenEnter(t) PROVE TypeOK'
  BY <1>7 DEF OpenEnter
<1>8. ASSUME NEW t \in Threads, ReleaseFile(t) PROVE TypeOK'
  <2>1. opened' \in BOOLEAN
    BY <1>8 DEF ReleaseFile
  <2> QED
    BY <1>8, <2>1 DEF ReleaseFile
<1>9. ASSUME NEW t \in Threads, WriteEnter(t) PROVE TypeOK'
  BY <1>9 DEF WriteEnter
<1>10. ASSUME NEW t \in Threads, ReadEnter(t) PROVE TypeOK'
  BY <1>10 DEF ReadEnter
<1>11. ASSUME NEW t \in Threads, PollEnter(t) PROVE TypeOK'
  BY <1>11 DEF PollEnter
<1>12. ASSUME NEW t \in Threads, FlushEnter(t) PROVE TypeOK'
  BY <1>12 DEF FlushEnter
<1>13. ASSUME NEW t \in Threads, OpenDecide(t) PROVE TypeOK'
  <2>1. CASE opened' = TRUE /\ refs' = refs + 1
    <3>1. opened' \in BOOLEAN
      BY <2>1
    <3> QED
      BY <1>13, <2>1, <3>1 DEF OpenDecide
  <2>2. CASE opened' = opened /\ refs' = refs
    BY <1>13, <2>2 DEF OpenDecide
  <2> QED
    BY <1>13, <2>1, <2>2 DEF OpenDecide
<1>14. ASSUME NEW t \in Threads, ReleasePut(t) PROVE TypeOK'
  <2>1. refs' \in Nat
    <3>1. t \in Putters
      BY <1>14 DEF ReleasePut, Putters
    <3> QED
      BY <1>14, <3>1, PutterCounted, PuttersFinite DEF RefInv, ReleasePut
  <2> QED
    BY <1>14, <2>1 DEF ReleasePut
<1>15. ASSUME NEW t \in Threads, WriteLock(t) PROVE TypeOK'
  BY <1>15 DEF WriteLock
<1>16. ASSUME NEW t \in Threads, WriteWindow(t) PROVE TypeOK'
  BY <1>16 DEF WriteWindow
<1>17. ASSUME NEW t \in Threads, WriteDone(t) PROVE TypeOK'
  BY <1>17 DEF WriteDone
<1>18. ASSUME NEW t \in Threads, ReadLock(t) PROVE TypeOK'
  BY <1>18 DEF ReadLock
<1>19. ASSUME NEW t \in Threads, ReadDown(t) PROVE TypeOK'
  BY <1>19 DEF ReadDown
<1>20. ASSUME NEW t \in Threads, ReadOverflow(t) PROVE TypeOK'
  <2>1. overflow' \in BOOLEAN
    BY <1>20 DEF ReadOverflow
  <2>2. base' \in Nat
    BY <1>20, HandledNat DEF ReadOverflow, QueueInv
  <2> QED
    BY <1>20, <2>1, <2>2 DEF ReadOverflow
<1>21. ASSUME NEW t \in Threads, ReadDequeue(t) PROVE TypeOK'
  <2>1. fifo # <<>>
    BY <1>21 DEF ReadDequeue, QueueInv
  <2>2. fifo' \in Seq(Nat) /\ Len(fifo') <= Capacity /\ queued' \in Nat
    BY <1>21, <2>1, CapacityAssumption DEF ReadDequeue
  <2>3. rxReadBuf' \in Nat /\ base' \in Nat
    BY <1>21, <2>1 DEF ReadDequeue
  <2>4. pc' \in [Threads -> Calls] /\ rxReadLock' = rxReadLock
    BY <1>21, <2>1 DEF ReadDequeue
  <2> QED
    BY <1>21, <2>2, <2>3, <2>4 DEF ReadDequeue
<1>22. ASSUME NEW t \in Threads, ReadEmpty(t) PROVE TypeOK'
  BY <1>22 DEF ReadEmpty
<1>23. ASSUME NEW t \in Threads, ReadCopy(t) PROVE TypeOK'
  BY <1>23 DEF ReadCopy
<1>24. ASSUME NEW t \in Threads, ReadPrepare(t) PROVE TypeOK'
  BY <1>24 DEF ReadPrepare
<1>25. ASSUME NEW t \in Threads, ReadTest(t) PROVE TypeOK'
  BY <1>25 DEF ReadTest
<1>26. ASSUME NEW t \in Threads, ReadWoken(t) PROVE TypeOK'
  BY <1>26 DEF ReadWoken
<1>27. ASSUME NEW t \in Threads, PollMask(t) PROVE TypeOK'
  BY <1>27 DEF PollMask
<1>28. ASSUME NEW t \in Threads, PollWoken(t) PROVE TypeOK'
  BY <1>28 DEF PollWoken
<1>29. ASSUME NEW t \in Threads, FlushReset(t) PROVE TypeOK'
  <2>1. fifo' \in Seq(Nat) /\ Len(fifo') <= Capacity
    BY <1>29, CapacityAssumption DEF FlushReset
  <2>2. overflow' \in BOOLEAN /\ fifoReady' \in BOOLEAN
    BY <1>29 DEF FlushReset
  <2>3. base' \in Nat
    BY <1>29, HandledNat DEF FlushReset
  <2> QED
    BY <1>29, <2>1, <2>2, <2>3 DEF FlushReset
<1>30. ASSUME NEW t \in Threads, Interrupt(t) PROVE TypeOK'
  BY <1>30 DEF Interrupt, ReadLockInterrupted, ReadSleepInterrupted,
     PollTimeout
<1>31. CASE SuspendEnter
  BY <1>31 DEF SuspendEnter
<1>32. CASE ResumeEnter
  BY <1>32 DEF ResumeEnter
<1>33. CASE RemoveMark
  <2>1. removed' \in BOOLEAN
    BY <1>33 DEF RemoveMark
  <2> QED
    BY <1>33, <2>1 DEF RemoveMark
<1>34. CASE ProbeRegister
  <2>1. registered' \in BOOLEAN
    BY <1>34 DEF ProbeRegister
  <2> QED
    BY <1>34, <2>1 DEF ProbeRegister
<1>35. CASE ProbeEnable
  <2>1. irqDepth' \in Nat
    BY <1>35 DEF ProbeEnable, IrqInv, CoreInv
  <2> QED
    BY <1>35, <2>1 DEF ProbeEnable
<1>36. CASE SuspendMark
  <2>1. suspended' \in BOOLEAN
    BY <1>36 DEF SuspendMark
  <2> QED
    BY <1>36, <2>1 DEF SuspendMark
<1>37. CASE ResumeMark
  <2>1. suspended' \in BOOLEAN
    BY <1>37 DEF ResumeMark
  <2> QED
    BY <1>37, <2>1 DEF ResumeMark
<1>38. CASE ResumeEnable
  <2>1. irqDepth' \in Nat
    BY <1>38 DEF ResumeEnable, IrqInv, CoreInv
  <2> QED
    BY <1>38, <2>1 DEF ResumeEnable
<1>39. CASE RemoveDeregister
  <2>1. registered' \in BOOLEAN
    BY <1>39 DEF RemoveDeregister
  <2> QED
    BY <1>39, <2>1 DEF RemoveDeregister
<1>40. CASE RemoveLock
  BY <1>40 DEF RemoveLock
<1>41. CASE QuiesceDisable
  BY <1>41 DEF QuiesceDisable
<1>42. CASE QuiesceSync
  BY <1>42 DEF QuiesceSync
<1>43. CASE QuiesceStrobes
  BY <1>43 DEF QuiesceStrobes
<1>44. CASE QuiescePurge
  <2>1. fifo' \in Seq(Nat) /\ Len(fifo') <= Capacity
    BY <1>44, CapacityAssumption DEF QuiescePurge
  <2>2. overflow' \in BOOLEAN /\ fifoReady' \in BOOLEAN
    BY <1>44 DEF QuiescePurge
  <2>3. base' \in Nat
    BY <1>44, HandledNat DEF QuiescePurge
  <2> QED
    BY <1>44, <2>1, <2>2, <2>3 DEF QuiescePurge
<1>45. CASE WakeAndReturn
  BY <1>45 DEF WakeAndReturn
<1>46. CASE DevresRelease
  <2>1. hw' \in BOOLEAN
    BY <1>46 DEF DevresRelease
  <2> QED
    BY <1>46, <2>1 DEF DevresRelease
<1>47. CASE DevresPut
  <2>1. refs' \in Nat
    BY <1>47, PuttersFinite DEF DevresPut, RefInv
  <2> QED
    BY <1>47, <2>1 DEF DevresPut
<1>48. CASE UNCHANGED vars
  BY <1>48
<1> QED
  BY <1>1, <1>2, <1>3, <1>4, <1>5, <1>6, <1>7, <1>8, <1>9, <1>10, <1>11,
     <1>12, <1>13, <1>14, <1>15, <1>16, <1>17, <1>18, <1>19, <1>20, <1>21,
     <1>22, <1>23, <1>24, <1>25, <1>26, <1>27, <1>28, <1>29, <1>30, <1>31,
     <1>32, <1>33, <1>34, <1>35, <1>36, <1>37, <1>38, <1>39, <1>40, <1>41,
     <1>42, <1>43, <1>44, <1>45, <1>46, <1>47, <1>48 DEF Next, Irq, Enter,
     Continue, CallbackEnter, Callback

\* The reference count is the number of references.
LEMMA RefInvStep == ASSUME IInv, [Next]_vars PROVE RefInv'
<1> USE DEF IInv, RefInv, TypeOK, CoreInv, LockInv, Quiescing, Ended
<1>1. CASE EcPublish
  BY <1>1 DEF EcPublish, Putters
<1>2. CASE Irq
  <2>1. pc' = pc
      BY <1>2 DEF Irq, IrqEnter, IrqReadWindow, IrqReadDone, IrqEnqueue,
       IrqWake
  <2>2. Putters' = Putters
    BY <2>1 DEF Putters
  <2> QED
      BY <1>2, <2>1, <2>2, PuttersFinite DEF Irq, IrqEnter, IrqReadWindow,
       IrqReadDone, IrqEnqueue, IrqWake
<1>3. ASSUME NEW t \in Threads, OpenEnter(t) PROVE RefInv'
  <2>1. Putters' = Putters
    BY <1>3 DEF OpenEnter, Putters
  <2> QED
    BY <1>3, <2>1, PuttersFinite DEF OpenEnter
<1>4. ASSUME NEW t \in Threads, ReleaseFile(t) PROVE RefInv'
  <2>1. Putters' = Putters \union {t} /\ t \notin Putters
    BY <1>4 DEF ReleaseFile, Putters
  <2>2. Cardinality(Putters') = Cardinality(Putters) + 1
    BY <2>1, PuttersFinite, FS_AddElement
  <2> QED
    BY <1>4, <2>2, PuttersFinite DEF ReleaseFile
<1>5. ASSUME NEW t \in Threads, WriteEnter(t) PROVE RefInv'
  <2>1. Putters' = Putters
    BY <1>5 DEF WriteEnter, Putters
  <2> QED
    BY <1>5, <2>1, PuttersFinite DEF WriteEnter
<1>6. ASSUME NEW t \in Threads, ReadEnter(t) PROVE RefInv'
  <2>1. Putters' = Putters
    BY <1>6 DEF ReadEnter, Putters
  <2> QED
    BY <1>6, <2>1, PuttersFinite DEF ReadEnter
<1>7. ASSUME NEW t \in Threads, PollEnter(t) PROVE RefInv'
  <2>1. Putters' = Putters
    BY <1>7 DEF PollEnter, Putters
  <2> QED
    BY <1>7, <2>1, PuttersFinite DEF PollEnter
<1>8. ASSUME NEW t \in Threads, FlushEnter(t) PROVE RefInv'
  <2>1. Putters' = Putters
    BY <1>8 DEF FlushEnter, Putters
  <2> QED
    BY <1>8, <2>1, PuttersFinite DEF FlushEnter
<1>9. ASSUME NEW t \in Threads, OpenDecide(t) PROVE RefInv'
  <2>1. Putters' = Putters
    BY <1>9 DEF OpenDecide, Putters
  <2> QED
    BY <1>9, <2>1, PuttersFinite DEF OpenDecide
<1>10. ASSUME NEW t \in Threads, ReleasePut(t) PROVE RefInv'
  <2>1. Putters' = Putters \ {t} /\ t \in Putters
    BY <1>10 DEF ReleasePut, Putters
  <2>2. Cardinality(Putters') = Cardinality(Putters) - 1
    BY <2>1, PuttersFinite, FS_RemoveElement
  <2> QED
    BY <1>10, <2>2, PuttersFinite DEF ReleasePut
<1>11. ASSUME NEW t \in Threads, WriteLock(t) PROVE RefInv'
  <2>1. Putters' = Putters
    BY <1>11 DEF WriteLock, Putters
  <2> QED
    BY <1>11, <2>1, PuttersFinite DEF WriteLock
<1>12. ASSUME NEW t \in Threads, WriteWindow(t) PROVE RefInv'
  <2>1. Putters' = Putters
    BY <1>12 DEF WriteWindow, Putters
  <2> QED
    BY <1>12, <2>1, PuttersFinite DEF WriteWindow
<1>13. ASSUME NEW t \in Threads, WriteDone(t) PROVE RefInv'
  <2>1. Putters' = Putters
    BY <1>13 DEF WriteDone, Putters
  <2> QED
    BY <1>13, <2>1, PuttersFinite DEF WriteDone
<1>14. ASSUME NEW t \in Threads, ReadLock(t) PROVE RefInv'
  <2>1. Putters' = Putters
    BY <1>14 DEF ReadLock, Putters
  <2> QED
    BY <1>14, <2>1, PuttersFinite DEF ReadLock
<1>15. ASSUME NEW t \in Threads, ReadDown(t) PROVE RefInv'
  <2>1. Putters' = Putters
    BY <1>15 DEF ReadDown, Putters
  <2> QED
    BY <1>15, <2>1, PuttersFinite DEF ReadDown
<1>16. ASSUME NEW t \in Threads, ReadOverflow(t) PROVE RefInv'
  <2>1. Putters' = Putters
    BY <1>16 DEF ReadOverflow, Putters
  <2> QED
    BY <1>16, <2>1, PuttersFinite DEF ReadOverflow
<1>17. ASSUME NEW t \in Threads, ReadDequeue(t) PROVE RefInv'
  <2>1. Putters' = Putters
    BY <1>17 DEF ReadDequeue, Putters
  <2> QED
    BY <1>17, <2>1, PuttersFinite DEF ReadDequeue
<1>18. ASSUME NEW t \in Threads, ReadEmpty(t) PROVE RefInv'
  <2>1. Putters' = Putters
    BY <1>18 DEF ReadEmpty, Putters
  <2> QED
    BY <1>18, <2>1, PuttersFinite DEF ReadEmpty
<1>19. ASSUME NEW t \in Threads, ReadCopy(t) PROVE RefInv'
  <2>1. Putters' = Putters
    BY <1>19 DEF ReadCopy, Putters
  <2> QED
    BY <1>19, <2>1, PuttersFinite DEF ReadCopy
<1>20. ASSUME NEW t \in Threads, ReadPrepare(t) PROVE RefInv'
  <2>1. Putters' = Putters
    BY <1>20 DEF ReadPrepare, Putters
  <2> QED
    BY <1>20, <2>1, PuttersFinite DEF ReadPrepare
<1>21. ASSUME NEW t \in Threads, ReadTest(t) PROVE RefInv'
  <2>1. Putters' = Putters
    BY <1>21 DEF ReadTest, Putters
  <2> QED
    BY <1>21, <2>1, PuttersFinite DEF ReadTest
<1>22. ASSUME NEW t \in Threads, ReadWoken(t) PROVE RefInv'
  <2>1. Putters' = Putters
    BY <1>22 DEF ReadWoken, Putters
  <2> QED
    BY <1>22, <2>1, PuttersFinite DEF ReadWoken
<1>23. ASSUME NEW t \in Threads, PollMask(t) PROVE RefInv'
  <2>1. Putters' = Putters
    BY <1>23 DEF PollMask, Putters
  <2> QED
    BY <1>23, <2>1, PuttersFinite DEF PollMask
<1>24. ASSUME NEW t \in Threads, PollWoken(t) PROVE RefInv'
  <2>1. Putters' = Putters
    BY <1>24 DEF PollWoken, Putters
  <2> QED
    BY <1>24, <2>1, PuttersFinite DEF PollWoken
<1>25. ASSUME NEW t \in Threads, FlushReset(t) PROVE RefInv'
  <2>1. Putters' = Putters
    BY <1>25 DEF FlushReset, Putters
  <2> QED
    BY <1>25, <2>1, PuttersFinite DEF FlushReset
<1>26. ASSUME NEW t \in Threads, ReadLockInterrupted(t) PROVE RefInv'
  <2>1. Putters' = Putters
    BY <1>26 DEF ReadLockInterrupted, Putters
  <2> QED
    BY <1>26, <2>1, PuttersFinite DEF ReadLockInterrupted
<1>27. ASSUME NEW t \in Threads, ReadSleepInterrupted(t) PROVE RefInv'
  <2>1. Putters' = Putters
    BY <1>27 DEF ReadSleepInterrupted, Putters
  <2> QED
    BY <1>27, <2>1, PuttersFinite DEF ReadSleepInterrupted
<1>28. ASSUME NEW t \in Threads, PollTimeout(t) PROVE RefInv'
  <2>1. Putters' = Putters
    BY <1>28 DEF PollTimeout, Putters
  <2> QED
    BY <1>28, <2>1, PuttersFinite DEF PollTimeout
<1>29. CASE CallbackEnter
  <2>1. pc' = pc
      BY <1>29 DEF CallbackEnter, SuspendEnter, ResumeEnter, RemoveMark
  <2>2. Putters' = Putters
    BY <2>1 DEF Putters
  <2> QED
      BY <1>29, <2>1, <2>2, PuttersFinite DEF CallbackEnter, SuspendEnter,
       ResumeEnter, RemoveMark
<1>30. CASE ProbeRegister
  <2>1. pc' = pc
    BY <1>30 DEF ProbeRegister
  <2>2. Putters' = Putters
    BY <2>1 DEF Putters
  <2> QED
    BY <1>30, <2>1, <2>2, PuttersFinite DEF ProbeRegister
<1>31. CASE ProbeEnable
  <2>1. pc' = pc
    BY <1>31 DEF ProbeEnable
  <2>2. Putters' = Putters
    BY <2>1 DEF Putters
  <2> QED
    BY <1>31, <2>1, <2>2, PuttersFinite DEF ProbeEnable
<1>32. CASE SuspendMark
  <2>1. pc' = pc
    BY <1>32 DEF SuspendMark
  <2>2. Putters' = Putters
    BY <2>1 DEF Putters
  <2> QED
    BY <1>32, <2>1, <2>2, PuttersFinite DEF SuspendMark
<1>33. CASE ResumeMark
  <2>1. pc' = pc
    BY <1>33 DEF ResumeMark
  <2>2. Putters' = Putters
    BY <2>1 DEF Putters
  <2> QED
    BY <1>33, <2>1, <2>2, PuttersFinite DEF ResumeMark
<1>34. CASE ResumeEnable
  <2>1. pc' = pc
    BY <1>34 DEF ResumeEnable
  <2>2. Putters' = Putters
    BY <2>1 DEF Putters
  <2> QED
    BY <1>34, <2>1, <2>2, PuttersFinite DEF ResumeEnable
<1>35. CASE RemoveDeregister
  <2>1. pc' = pc
    BY <1>35 DEF RemoveDeregister
  <2>2. Putters' = Putters
    BY <2>1 DEF Putters
  <2> QED
    BY <1>35, <2>1, <2>2, PuttersFinite, ThreadsAssumption DEF RemoveDeregister
<1>36. CASE RemoveLock
  <2>1. pc' = pc
    BY <1>36 DEF RemoveLock
  <2>2. Putters' = Putters
    BY <2>1 DEF Putters
  <2> QED
    BY <1>36, <2>1, <2>2, PuttersFinite DEF RemoveLock
<1>37. CASE QuiesceDisable
  <2>1. pc' = pc
    BY <1>37 DEF QuiesceDisable
  <2>2. Putters' = Putters
    BY <2>1 DEF Putters
  <2> QED
    BY <1>37, <2>1, <2>2, PuttersFinite DEF QuiesceDisable
<1>38. CASE QuiesceSync
  <2>1. pc' = pc
    BY <1>38 DEF QuiesceSync
  <2>2. Putters' = Putters
    BY <2>1 DEF Putters
  <2> QED
    BY <1>38, <2>1, <2>2, PuttersFinite DEF QuiesceSync
<1>39. CASE QuiesceStrobes
  <2>1. pc' = pc
    BY <1>39 DEF QuiesceStrobes
  <2>2. Putters' = Putters
    BY <2>1 DEF Putters
  <2> QED
    BY <1>39, <2>1, <2>2, PuttersFinite DEF QuiesceStrobes
<1>40. CASE QuiescePurge
  <2>1. pc' = pc
    BY <1>40 DEF QuiescePurge
  <2>2. Putters' = Putters
    BY <2>1 DEF Putters
  <2> QED
    BY <1>40, <2>1, <2>2, PuttersFinite DEF QuiescePurge
<1>41. CASE WakeAndReturn
  <2>1. pc' = pc
    BY <1>41 DEF WakeAndReturn
  <2>2. Putters' = Putters
    BY <2>1 DEF Putters
  <2> QED
    BY <1>41, <2>1, <2>2, PuttersFinite DEF WakeAndReturn
<1>42. CASE DevresRelease
  <2>1. pc' = pc
    BY <1>42 DEF DevresRelease
  <2>2. Putters' = Putters
    BY <2>1 DEF Putters
  <2> QED
    BY <1>42, <2>1, <2>2, PuttersFinite DEF DevresRelease
<1>43. CASE DevresPut
  <2>1. pc' = pc
    BY <1>43 DEF DevresPut
  <2>2. Putters' = Putters
    BY <2>1 DEF Putters
  <2> QED
    BY <1>43, <2>1, <2>2, PuttersFinite DEF DevresPut
<1>44. CASE UNCHANGED vars
  BY <1>44 DEF Putters
<1> QED
  BY <1>1, <1>2, <1>3, <1>4, <1>5, <1>6, <1>7, <1>8, <1>9, <1>10, <1>11,
     <1>12, <1>13, <1>14, <1>15, <1>16, <1>17, <1>18, <1>19, <1>20, <1>21,
     <1>22, <1>23, <1>24, <1>25, <1>26, <1>27, <1>28, <1>29, <1>30, <1>31,
     <1>32, <1>33, <1>34, <1>35, <1>36, <1>37, <1>38, <1>39, <1>40, <1>41,
     <1>42, <1>43, <1>44 DEF Next, Enter, Continue, Interrupt, Callback

-----------------------------------------------------------------------------
\* Before the EC has sent anything there is nothing to lose.
LEMMA NoneHandled ==
  ASSUME sent = 0, ~unacked, irqPc = "idle" PROVE Handled = 0
<1>1. Handled = 0 - 0 - 0
  BY DEF Handled
<1> QED
  BY <1>1

LEMMA NothingLost ==
  ASSUME fifo = <<>>, base = 0, Handled = 0 PROVE NoSilentLoss
<1>1. Len(fifo) = 0 /\ RunUpTo(fifo, Handled)
  BY RunEmpty
<1>2. base = 0 - 0
  OBVIOUS
<1>3. base = Handled - Len(fifo)
  BY <1>1, <1>2, Zenon
<1> QED
  BY <1>1, <1>3 DEF NoSilentLoss

LEMMA InitInv == Init => IInv
<1> SUFFICES ASSUME Init PROVE IInv
  OBVIOUS
<1> USE DEF Init
<1>1. TypeOK
  <2>1. /\ fifoReady \in BOOLEAN /\ overflow \in BOOLEAN /\ removed \in BOOLEAN
        /\ suspended \in BOOLEAN /\ opened \in BOOLEAN /\ irqQueue \in BOOLEAN
        /\ registered \in BOOLEAN /\ hw \in BOOLEAN /\ unacked \in BOOLEAN
    OBVIOUS
  <2> QED
    BY <2>1, CapacityAssumption DEF TypeOK, Calls
<1>2. CoreInv /\ IrqInv
  BY DEF CoreInv, IrqInv, Ended
<1>3. LockInv
  BY ThreadsAssumption DEF LockInv, Quiescing
<1>4. QueueInv
  <2>1. Handled = 0
    <3>1. sent = 0 /\ ~unacked /\ irqPc = "idle"
      OBVIOUS
    <3> QED
      BY <3>1, NoneHandled
  <2>2. Len(fifo) = 0
    OBVIOUS
  <2>3. NoSilentLoss
    <3>1. fifo = <<>> /\ base = 0 /\ RunUpTo(fifo, 0)
      BY RunEmpty
    <3> QED
      BY <2>1, <3>1, NothingLost
  <2>4. ReadsInOrder
    BY DEF ReadsInOrder
  <2> QED
    BY <2>1, <2>2, <2>3, <2>4 DEF QueueInv, Emptied
<1>5. Putters = {}
  BY DEF Putters
<1>6. RefInv
  BY <1>5, FS_EmptySet DEF RefInv
<1>7. WaitInv
  BY DEF WaitInv, SleeperHasWaker
<1> QED
  BY <1>1, <1>2, <1>3, <1>4, <1>6, <1>7 DEF IInv

\* IInv is an invariant: it holds initially and no step breaks it.
THEOREM Invariance == Spec => []IInv
<1>1. IInv /\ [Next]_vars => IInv'
  BY TypeOKStep, CoreInvStep, IrqInvStep, LockInvStep, QueueInvStep,
     RefInvStep, WaitInvStep DEF IInv
<1> QED
  BY InitInv, <1>1, PTL DEF Spec

\* Every variable of the driver keeps its type; in particular the FIFO never
\* exceeds its capacity and the reference count and irq depth never underflow.
THEOREM TypeCorrect == Spec => []TypeOK
<1>1. IInv => TypeOK
  BY DEF IInv
<1> QED
  BY Invariance, <1>1, PTL

\* gxfp_irq_thread, gxfp_read, suspend and remove lose no record silently.
THEOREM NoSilentLossHolds == Spec => []NoSilentLoss
<1>1. IInv => NoSilentLoss
  BY DEF IInv, QueueInv
<1> QED
  BY Invariance, <1>1, PTL

\* Readers that share rx_read_buf get every record once and in order.
THEOREM ReadsInOrderHolds == Spec => []ReadsInOrder
<1>1. IInv => ReadsInOrder
  BY DEF IInv, QueueInv
<1> QED
  BY Invariance, <1>1, PTL

\* Nothing runs on the bus, and nothing is queued, while the device is down.
THEOREM QuietWhenDownHolds == Spec => []QuietWhenDown
<1>1. IInv => QuietWhenDown
  <2> SUFFICES ASSUME IInv, Down PROVE QuietWhenDown
    BY DEF QuietWhenDown
  <2> USE DEF IInv, Down
  <2>1. irqPc = "idle"
    BY DEF TypeOK, CoreInv, IrqInv, Quiescing, Ended
  <2>2. \A t \in Threads : pc[t] \notin {"writeWindow", "writeStrobe"}
    BY ThreadsAssumption DEF TypeOK, CoreInv, LockInv, Quiescing, Ended
  <2>3. fifo = <<>> /\ queued = 0 /\ ~overflow
    BY DEF TypeOK, CoreInv, QueueInv, Emptied, Quiescing, Ended
  <2> QED
    BY <2>1, <2>2, <2>3 DEF QuietWhenDown
<1> QED
  BY Invariance, <1>1, PTL

\* suspend and remove never cut a strobe short.
THEOREM StrobesWholeHolds == Spec => []StrobesWhole
<1>1. IInv => StrobesWhole
  BY ThreadsAssumption DEF IInv, StrobesWhole, TypeOK, CoreInv, IrqInv,
     LockInv, Quiescing, Ended
<1> QED
  BY Invariance, <1>1, PTL

\* Neither the devres resources nor the struct are used after release.
THEOREM NoUseAfterReleaseHolds == Spec => []NoUseAfterRelease
<1>1. IInv => NoUseAfterRelease
  <2> SUFFICES ASSUME IInv PROVE NoUseAfterRelease
    OBVIOUS
  <2> USE DEF IInv
  <2>1. ASSUME ~hw
        PROVE  /\ irqPc = "idle"
               /\ \A t \in Threads : pc[t] \notin {"writeWindow", "writeStrobe"}
    <3>1. irqPc = "idle"
      BY <2>1 DEF TypeOK, CoreInv, IrqInv, Ended
    <3>2. \A t \in Threads : pc[t] \notin {"writeWindow", "writeStrobe"}
      BY <2>1, ThreadsAssumption DEF TypeOK, CoreInv, LockInv, Quiescing, Ended
    <3> QED
      BY <3>1, <3>2
  <2>2. ASSUME refs = 0 PROVE \A t \in Threads : pc[t] = "user"
    <3>1. at = "gone" /\ ~opened /\ Putters = {}
      BY <2>2, PuttersFinite, PutterCounted DEF RefInv
    <3>2. ~registered
      BY <3>1 DEF CoreInv, Quiescing, Ended
    <3> QED
      BY <3>1, <3>2 DEF RefInv, Putters
  <2> QED
    BY <2>1, <2>2 DEF NoUseAfterRelease
<1> QED
  BY Invariance, <1>1, PTL

\* The struct is freed once nothing refers to it.
THEOREM NoLeakHolds == Spec => []NoLeak
<1>1. IInv => NoLeak
  <2>1. (\A t \in Threads : pc[t] # "put") => Putters = {}
    BY DEF Putters
  <2> QED
    BY <2>1, FS_EmptySet DEF IInv, RefInv, NoLeak
<1> QED
  BY Invariance, <1>1, PTL

\* Every enable_irq and disable_irq of the callbacks is paired.
THEOREM IrqPairedHolds == Spec => []IrqPaired
<1>1. IInv => IrqPaired
  BY DEF IInv, IrqPaired, TypeOK, CoreInv, IrqInv
<1> QED
  BY Invariance, <1>1, PTL

\* No wakeup of rx_wait is lost.
THEOREM SleeperHasWakerHolds == Spec => []SleeperHasWaker
<1>1. IInv => SleeperHasWaker
  BY DEF IInv, WaitInv
<1> QED
  BY Invariance, <1>1, PTL

-----------------------------------------------------------------------------
(* The device does what RecordChannel promises: every step is one of the   *)
(* channel's, or one it does not see.                                      *)

ChannelStep == Channel!Next \/ UNCHANGED Channel!vars

\* What the channel sees of a step that leaves the queue, the flags, the
\* count of records handled and the stage of suspend and remove alone.
LEMMA HiddenStep ==
  ASSUME UNCHANGED <<fifo, overflow, link>>, Handled' = Handled
  PROVE  ChannelStep
BY DEF ChannelStep, Channel!vars

\* Threads do not move the driver core or the flags.
LEMMA ThreadsKeepLink ==
  ASSUME UNCHANGED <<flagVars, fifoReady, coreVars>>
  PROVE  UNCHANGED link
BY DEF link

LEMMA ThreadsKeepHandled ==
  ASSUME UNCHANGED <<ecVars, irqPc>>
  PROVE  Handled' = Handled
BY DEF Handled

\* The EC publishes a record; the handler takes it.
LEMMA EcChannelStep == ASSUME IInv, EcPublish PROVE ChannelStep
<1>1. UNCHANGED link
  BY DEF EcPublish, link
<1>2. Handled' = Handled
  BY DEF EcPublish, Handled, IInv, TypeOK
<1> QED
  BY <1>1, <1>2, HiddenStep DEF EcPublish

LEMMA IrqChannelStep == ASSUME IInv, Irq PROVE ChannelStep
<1>1. CASE IrqEnter \/ IrqReadWindow \/ IrqWake
  <2>1. UNCHANGED link
    BY <1>1 DEF IrqEnter, IrqReadWindow, IrqWake, link
  <2>2. Handled' = Handled
    BY <1>1 DEF IrqEnter, IrqReadWindow, IrqWake, Handled
  <2> QED
    BY <1>1, <2>1, <2>2, HiddenStep DEF IrqEnter, IrqReadWindow, IrqWake
<1>2. CASE IrqReadDone
  <2>1. UNCHANGED link
    BY <1>2 DEF IrqReadDone, link
  <2>2. CASE irqQueue
    <3>1. Handled' = Handled
      BY <1>2, <2>2 DEF IrqReadDone, Handled, IInv, TypeOK, IrqInv
    <3> QED
      BY <1>2, <2>1, <3>1, HiddenStep DEF IrqReadDone
  <2>3. CASE ~irqQueue
    <3>1. Handled' = Handled + 1
      BY <1>2, <2>3 DEF IrqReadDone, Handled, IInv, TypeOK, IrqInv
    <3>2. link = "closing"
      BY <1>2, <2>3 DEF IrqReadDone, IInv, TypeOK, IrqInv, CoreInv, link,
         Quiescing, Ended
    <3> QED
      BY <1>2, <2>1, <3>1, <3>2
      DEF IrqReadDone, ChannelStep, Channel!Next, Channel!Discard
  <2> QED
    BY <2>2, <2>3
<1>3. CASE IrqEnqueue
  <2>1. UNCHANGED link
    BY <1>3 DEF IrqEnqueue, link
  <2>2. Handled' = Handled + 1
    BY <1>3 DEF IrqEnqueue, Handled, IInv, TypeOK, IrqInv
  <2>3. link \in {"up", "closing"} /\ fifoReady
    BY <1>3 DEF IrqEnqueue, IInv, TypeOK, IrqInv, CoreInv, link, Quiescing,
       Ended
  <2>4. rxBuf = Handled + 1
    BY <1>3 DEF IrqEnqueue, IInv, TypeOK, IrqInv, Handled
  <2>5. CASE Room
    BY <1>3, <2>1, <2>2, <2>3, <2>4, <2>5
    DEF IrqEnqueue, ChannelStep, Channel!Next, Channel!Arrive
  <2>6. CASE ~Room
    <3>1. Len(fifo) = Capacity
      BY <2>6, CapacityAssumption DEF IInv, TypeOK
    <3> QED
      BY <1>3, <2>1, <2>2, <2>3, <2>6, <3>1
      DEF IrqEnqueue, ChannelStep, Channel!Next, Channel!Overrun
  <2> QED
    BY <2>5, <2>6
<1> QED
  BY <1>1, <1>2, <1>3 DEF Irq

\* A call of a thread: it takes a record, is told of a loss, or flushes.
LEMMA ThreadChannelStep ==
  ASSUME IInv, NEW t \in Threads, Enter(t) \/ Continue(t) \/ Interrupt(t)
  PROVE  ChannelStep
<1>1. UNCHANGED link /\ Handled' = Handled
  <2>1. CASE Enter(t)
    BY <2>1, ThreadsKeepLink, ThreadsKeepHandled
    DEF Enter, OpenEnter, ReleaseFile, WriteEnter, ReadEnter, PollEnter,
        FlushEnter
  <2>2. CASE Continue(t)
    BY <2>2, ThreadsKeepLink, ThreadsKeepHandled
    DEF Continue, OpenDecide, ReleasePut, WriteLock, WriteWindow, WriteDone,
        ReadLock, ReadDown, ReadOverflow, ReadDequeue, ReadEmpty, ReadCopy,
        ReadPrepare, ReadTest, ReadWoken, PollMask, PollWoken, FlushReset
  <2>3. CASE Interrupt(t)
    BY <2>3, ThreadsKeepLink, ThreadsKeepHandled
    DEF Interrupt, ReadLockInterrupted, ReadSleepInterrupted, PollTimeout
  <2> QED
    BY <2>1, <2>2, <2>3
<1>2. CASE ReadOverflow(t)
  <2>1. link = "up"
    BY <1>2 DEF ReadOverflow, link
  <2> QED
    BY <1>1, <1>2, <2>1
    DEF ReadOverflow, ChannelStep, Channel!Next, Channel!ReportLoss
<1>3. CASE ReadDequeue(t)
  <2>1. link = "up"
    BY <1>3 DEF ReadDequeue, link
  <2>2. fifo # <<>>
    BY <1>3 DEF ReadDequeue, IInv, QueueInv, TypeOK
  <2> QED
    BY <1>1, <1>3, <2>1, <2>2
    DEF ReadDequeue, ChannelStep, Channel!Next, Channel!Take
<1>4. CASE FlushReset(t)
  BY <1>1, <1>4 DEF FlushReset, IInv, QueueInv, Emptied, ChannelStep,
     Channel!Next, Channel!Flush
<1>5. CASE UNCHANGED <<fifo, overflow>>
  BY <1>1, <1>5, HiddenStep
<1>6. Enter(t) => UNCHANGED <<fifo, overflow>>
  BY DEF Enter, OpenEnter, ReleaseFile, WriteEnter, ReadEnter, PollEnter,
     FlushEnter
<1>7. Interrupt(t) => UNCHANGED <<fifo, overflow>>
  BY DEF Interrupt, ReadLockInterrupted, ReadSleepInterrupted, PollTimeout
<1>8. Continue(t) => \/ UNCHANGED <<fifo, overflow>>
                     \/ ReadOverflow(t) \/ ReadDequeue(t) \/ FlushReset(t)
  BY DEF Continue, OpenDecide, ReleasePut, WriteLock, WriteWindow, WriteDone,
     ReadLock, ReadDown, ReadEmpty, ReadCopy, ReadPrepare, ReadTest,
     ReadWoken, PollMask, PollWoken
<1> QED
  BY <1>2, <1>3, <1>4, <1>5, <1>6, <1>7, <1>8

\* The driver core closes, purges and reopens the channel.
LEMMA CoreChannelStep ==
  ASSUME IInv, CallbackEnter \/ Callback PROVE ChannelStep
<1> USE DEF IInv, TypeOK, CoreInv, Quiescing, Ended
<1>1. Handled' = Handled
  BY ThreadsKeepHandled
  DEF CallbackEnter, SuspendEnter, ResumeEnter, RemoveMark, Callback,
      ProbeRegister, ProbeEnable, SuspendMark, ResumeMark, ResumeEnable,
      RemoveDeregister, RemoveLock, QuiesceDisable, QuiesceSync,
      QuiesceStrobes, QuiescePurge, WakeAndReturn, DevresRelease, DevresPut
<1>2. CASE SuspendMark \/ RemoveMark
  <2>1. CASE SuspendMark /\ removed
    BY <1>1, <2>1, HiddenStep DEF SuspendMark
  <2>2. CASE SuspendMark /\ ~removed
    BY <1>1, <2>2 DEF SuspendMark, link, ChannelStep, Channel!Next,
       Channel!Close
  <2>3. CASE RemoveMark
    BY <1>1, <2>3 DEF RemoveMark, link, ChannelStep, Channel!Next,
       Channel!Close
  <2> QED
    BY <1>2, <2>1, <2>2, <2>3
<1>3. CASE ResumeMark
  <2>1. ~removed
    BY <1>3 DEF ResumeMark
  <2> QED
    BY <1>1, <1>3, <2>1 DEF ResumeMark, link, ChannelStep, Channel!Next,
       Channel!Reopen
<1>4. CASE QuiescePurge
  <2>1. link = "closing" /\ link' \in {"down", "gone"}
    BY <1>4 DEF QuiescePurge, link
  <2>2. fifo' = <<>>
    BY <1>4 DEF QuiescePurge, QueueInv, Emptied
  <2> QED
    BY <1>1, <1>4, <2>1, <2>2 DEF QuiescePurge, ChannelStep, Channel!Next,
       Channel!Purge
<1>5. CASE SuspendEnter \/ ResumeEnter
  <2>1. UNCHANGED link
    BY <1>5 DEF SuspendEnter, ResumeEnter, link
  <2> QED
    BY <1>1, <1>5, <2>1, HiddenStep DEF SuspendEnter, ResumeEnter
<1>6. CASE \/ ProbeRegister \/ ProbeEnable \/ ResumeEnable \/ RemoveDeregister
           \/ RemoveLock \/ QuiesceDisable \/ QuiesceSync \/ QuiesceStrobes
           \/ WakeAndReturn \/ DevresRelease \/ DevresPut
  <2>1. UNCHANGED <<fifo, overflow, fifoReady, removed, suspended>>
    BY <1>6 DEF ProbeRegister, ProbeEnable, ResumeEnable, RemoveDeregister,
       RemoveLock, QuiesceDisable, QuiesceSync, QuiesceStrobes,
       WakeAndReturn, DevresRelease, DevresPut
  <2>2. UNCHANGED link
    BY <1>6, <2>1 DEF ProbeRegister, ProbeEnable, ResumeEnable,
       RemoveDeregister, RemoveLock, QuiesceDisable, QuiesceSync,
       QuiesceStrobes, WakeAndReturn, DevresRelease, DevresPut, link
  <2> QED
    BY <1>1, <2>1, <2>2, HiddenStep
<1> QED
  BY <1>2, <1>3, <1>4, <1>5, <1>6 DEF CallbackEnter, Callback

\* The driver implements the queue of records that userspace relies on: a
\* record is read in order, reported lost, flushed or purged, at every
\* interleaving of the handler, threads and callbacks.
THEOREM ChannelSpecHolds == Spec => ChannelSpec
<1>1. Init => Channel!Init
  <2>1. Init => link = "up"
    BY DEF Init, link
  <2>2. Init => Handled = 0
    BY NoneHandled DEF Init
  <2> QED
    BY <2>1, <2>2 DEF Init, Channel!Init
<1>2. IInv /\ [Next]_vars => [Channel!Next]_Channel!vars
  <2> SUFFICES ASSUME IInv, [Next]_vars PROVE ChannelStep
    BY DEF ChannelStep
  <2>1. CASE UNCHANGED vars
    <3>1. UNCHANGED link /\ Handled' = Handled
      BY <2>1, ThreadsKeepLink, ThreadsKeepHandled
    <3> QED
      BY <2>1, <3>1, HiddenStep
  <2>2. CASE Next
    BY <2>2, EcChannelStep, IrqChannelStep, ThreadChannelStep,
       CoreChannelStep DEF Next
  <2> QED
    BY <2>1, <2>2
<1> QED
  BY <1>1, <1>2, Invariance, PTL DEF ChannelSpec, Channel!Spec, Spec

=============================================================================
