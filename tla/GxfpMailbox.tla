----------------------------- MODULE GxfpMailbox -----------------------------
(***************************************************************************)
(* kernel/gxfp.c: the character device through which userspace exchanges   *)
(* records with the fingerprint MCU over the EC's mailbox window.          *)
(*                                                                         *)
(* Four kinds of process run concurrently:                                 *)
(*   - Threads, the userspace threads that share the file: each performs   *)
(*     one system call at a time, its place in the call being pc[t];       *)
(*   - the threaded interrupt handler (irqPc), of which the kernel runs    *)
(*     one instance at a time (IRQF_ONESHOT);                              *)
(*   - the driver core (cb, at), which runs probe, suspend, resume and     *)
(*     remove one at a time under the device lock;                         *)
(*   - the EC (external), which publishes a record in the window, raises   *)
(*     the interrupt and waits for the read-done strobe.                   *)
(*                                                                         *)
(* A section of code under the rx_lock spinlock or under open_lock, which  *)
(* never sleeps and touches nothing else, is one atomic step.  tx_lock,    *)
(* rx_read_lock and the misc subsystem's mutex are held across steps and   *)
(* have a holder.  A record is the number the EC gave it.                  *)
(***************************************************************************)
EXTENDS Naturals, Sequences, FiniteSets

CONSTANTS
  Threads,      \* userspace threads
  Capacity,     \* records that fit in rx_fifo (256 KiB / 3600 B = 72)
  MaxRecords    \* bound: records the EC publishes in a behaviour

ASSUME CapacityAssumption == Capacity \in Nat \ {0}
ASSUME MaxRecordsAssumption == MaxRecords \in Nat
ASSUME ThreadsAssumption ==
  /\ IsFiniteSet(Threads)
  /\ Threads \intersect {"free", "driver"} = {}

VARIABLES
  \* struct gxfp, under rx_lock
  fifo, queued, fifoReady, overflow,
  \* struct gxfp, flags and lifetime
  removed, suspended, opened, refs,
  \* who holds tx_lock, rx_read_lock and misc_mtx
  txLock, rxReadLock, miscMtx,
  \* the system calls: place of each thread, threads on rx_wait not yet
  \* woken, the shared rx_read_buf
  pc, waiters, rxReadBuf,
  \* the interrupt: handler's place, its local "queue", rx_buf, disable depth
  irqPc, irqQueue, rxBuf, irqDepth,
  \* the driver core: callback running, its step, misc device registered,
  \* window / GPIOs / irq still owned by the driver
  cb, at, registered, hw,
  \* the EC: records published, last one not yet acknowledged
  sent, unacked,
  \* history: last record the reader was given or told about, last record
  \* copied to userspace
  base, lastOut

fifoVars   == <<fifo, queued, fifoReady, overflow>>
flagVars   == <<removed, suspended>>
fileVars   == <<opened, refs, miscMtx>>
lockVars   == <<txLock, rxReadLock>>
callVars   == <<pc, waiters, rxReadBuf>>
irqVars    == <<irqPc, irqQueue, rxBuf>>
handlerVars == <<irqVars, irqDepth>>
ownVars    == <<registered, hw>>
coreVars   == <<cb, at, ownVars>>
ecVars     == <<sent, unacked>>
ghostVars  == <<base, lastOut>>

\* What threads never change, what only threads and wakeups change, and the
\* queue with its history.
asyncVars  == <<flagVars, handlerVars, coreVars, ecVars>>
userVars   == <<fileVars, callVars>>
queueVars  == <<fifoVars, ghostVars>>

vars == <<queueVars, userVars, lockVars, asyncVars>>

-----------------------------------------------------------------------------
\* Records taken from the EC whose fate the handler has already decided.
Handled ==
  sent - (IF unacked THEN 1 ELSE 0) - (IF irqPc = "enqueue" THEN 1 ELSE 0)

Up == ~removed /\ ~suspended

\* The condition of wait_event_interruptible() in gxfp_read, and the same
\* forgetting that remove ends every wait.
ReadConditionMissesRemove == queued > 0 \/ overflow \/ suspended
ReadCondition == queued > 0 \/ ~fifoReady \/ overflow \/ removed \/ suspended

\* gxfp_poll's mask is not empty.
PollReady == removed \/ suspended \/ overflow \/ (fifoReady /\ queued > 0)

Step(t, from, to) == pc[t] = from /\ pc' = [pc EXCEPT ![t] = to]

\* A step of a thread that changes nothing else.
Move(t, from, to) ==
  /\ Step(t, from, to)
  /\ UNCHANGED <<queueVars, asyncVars, fileVars, waiters, rxReadBuf, lockVars>>

\* kfifo_reset and the clearing of queued_records in every caller.
DropQueue ==
  /\ fifo' = IF fifoReady THEN <<>> ELSE fifo
  /\ queued' = 0

\* The parts of the handlers below that are worth naming, each after a
\* wrong version of it that a property must reject.

\* The handler keeps the record (its local "queue").
QueueOnlyIfOpened == Up /\ opened
HandlerQueues == Up

\* kfifo_avail.
Room == Len(fifo) < Capacity

LoseQueue == fifo' = <<>> /\ queued' = 0 /\ overflow' = TRUE

\* wake_up_interruptible(_all): rx_wait has no exclusive waiter, all wake.
WakeOne == waiters' \in {waiters \ {t} : t \in waiters} \union
                        (IF waiters = {} THEN {{}} ELSE {})
WakeAll == waiters' = {}

\* kref_get and kref_put.
NoReference == UNCHANGED refs
TakeReference == refs' = refs + 1
DropReference == refs' = refs - 1

\* mutex_lock of rx_read_lock by a reader, of tx_lock by a callback.
ReadersOverlap == TRUE
ReadLockFree == rxReadLock = "free"
IgnoreTxLock == TRUE
TxLockFree == txLock = "free"

\* disable_irq waits for the handler; disable_irq_nosync does not.
NoSync == TRUE
HandlerSynced == irqPc = "idle"

\* remove disables the irq unless suspend did.
AlwaysDisable == FALSE
IrqAlreadyDisabled == suspended

-----------------------------------------------------------------------------
\* The EC (external).

EcPublish ==
  /\ ~unacked
  /\ sent < MaxRecords
  /\ sent' = sent + 1
  /\ unacked' = TRUE
  /\ UNCHANGED <<queueVars, flagVars, userVars, lockVars, handlerVars,
                 coreVars>>

-----------------------------------------------------------------------------
\* gxfp_irq_thread.

\* The line is asserted and the irq enabled: the handler starts and samples
\* the flags.
IrqEnter ==
  /\ irqPc = "idle"
  /\ unacked
  /\ irqDepth = 0
  /\ irqQueue' = HandlerQueues
  /\ irqPc' = "window"
  /\ UNCHANGED <<queueVars, flagVars, userVars, lockVars, rxBuf, irqDepth,
                 coreVars, ecVars>>

\* gxfp_read_rx: snapshot of the window, which holds the last record sent.
IrqReadWindow ==
  /\ irqPc = "window"
  /\ rxBuf' = sent
  /\ irqPc' = "strobe"
  /\ UNCHANGED <<queueVars, flagVars, userVars, lockVars, irqQueue, irqDepth,
                 coreVars, ecVars>>

\* gxfp_pulse_read_done, and the early return of a handler that drops.
IrqReadDone ==
  /\ irqPc = "strobe"
  /\ unacked' = FALSE
  /\ irqPc' = IF irqQueue THEN "enqueue" ELSE "idle"
  /\ UNCHANGED <<queueVars, flagVars, userVars, lockVars, irqQueue, rxBuf,
                 irqDepth, coreVars, sent>>

IrqEnqueue ==
  /\ irqPc = "enqueue"
  /\ irqPc' = "wake"
  /\ \/ /\ fifoReady
        /\ Room
        /\ fifo' = Append(fifo, rxBuf)
        /\ queued' = queued + 1
        /\ UNCHANGED overflow
     \/ /\ ~fifoReady \/ ~Room
        /\ LoseQueue
  /\ UNCHANGED <<fifoReady, flagVars, userVars, lockVars, irqQueue, rxBuf,
                 irqDepth, coreVars, ecVars, ghostVars>>

IrqWake ==
  /\ irqPc = "wake"
  /\ WakeAll
  /\ irqPc' = "idle"
  /\ UNCHANGED <<queueVars, flagVars, fileVars, pc, rxReadBuf, lockVars,
                 irqQueue, rxBuf, irqDepth, coreVars, ecVars>>

Irq == IrqEnter \/ IrqReadWindow \/ IrqReadDone \/ IrqEnqueue \/ IrqWake

-----------------------------------------------------------------------------
\* gxfp_open and gxfp_release.

\* misc_open (external) holds misc_mtx while it calls gxfp_open.
OpenEnter(t) ==
  /\ registered
  /\ miscMtx = "free"
  /\ miscMtx' = t
  /\ Step(t, "user", "open")
  /\ UNCHANGED <<queueVars, asyncVars, opened, refs, waiters, rxReadBuf,
                 lockVars>>

\* -EPERM, -ENODEV and -EBUSY leave everything as it was.
OpenDecide(t) ==
  /\ Step(t, "open", "user")
  /\ miscMtx' = "free"
  /\ \E capable \in BOOLEAN :
       IF capable /\ ~removed /\ ~opened
       THEN opened' = TRUE /\ TakeReference
       ELSE UNCHANGED <<opened, refs>>
  /\ UNCHANGED <<queueVars, asyncVars, waiters, rxReadBuf, lockVars>>

\* The last reference to the file goes when no call on it is running
\* (threads in "put" are closing an earlier file).
ReleaseFile(t) ==
  /\ opened
  /\ \A u \in Threads : pc[u] \in {"user", "open", "put"}
  /\ Step(t, "user", "put")
  /\ opened' = FALSE
  /\ UNCHANGED <<queueVars, asyncVars, refs, miscMtx, waiters, rxReadBuf,
                 lockVars>>

\* gxfp_put; the last one runs gxfp_release_dev.
ReleasePut(t) ==
  /\ Step(t, "put", "user")
  /\ DropReference
  /\ UNCHANGED <<queueVars, asyncVars, opened, miscMtx, waiters, rxReadBuf,
                 lockVars>>

-----------------------------------------------------------------------------
\* gxfp_write.

WriteEnter(t) ==
  /\ opened
  /\ Move(t, "user", "writeLock")

\* An error path that forgets to release tx_lock.
WriteLockLeaks(t) ==
  /\ txLock = "free"
  /\ txLock' = t
  /\ \E copied \in BOOLEAN :
       IF copied /\ ~removed /\ ~suspended
       THEN Step(t, "writeLock", "writeWindow")
       ELSE Step(t, "writeLock", "user")
  /\ UNCHANGED <<queueVars, asyncVars, fileVars, waiters, rxReadBuf,
                 rxReadLock>>

\* tx_lock taken: -ENODEV, -EHOSTDOWN and -EFAULT release it at once.
WriteLock(t) ==
  /\ txLock = "free"
  /\ \E copied \in BOOLEAN :
       IF copied /\ ~removed /\ ~suspended
       THEN Step(t, "writeLock", "writeWindow") /\ txLock' = t
       ELSE Step(t, "writeLock", "user") /\ UNCHANGED txLock
  /\ UNCHANGED <<queueVars, asyncVars, fileVars, waiters, rxReadBuf,
                 rxReadLock>>

WriteWindow(t) == Move(t, "writeWindow", "writeStrobe")

\* gxfp_pulse_write_done ends; the guard releases tx_lock.
WriteDone(t) ==
  /\ Step(t, "writeStrobe", "user")
  /\ txLock' = "free"
  /\ UNCHANGED <<queueVars, asyncVars, fileVars, waiters, rxReadBuf,
                 rxReadLock>>

-----------------------------------------------------------------------------
\* gxfp_read.

ReadEnter(t) ==
  /\ opened
  /\ Move(t, "user", "readLock")

ReadLock(t) ==
  /\ ReadLockFree
  /\ rxReadLock' = t
  /\ Step(t, "readLock", "readCheck")
  /\ UNCHANGED <<queueVars, asyncVars, fileVars, waiters, rxReadBuf, txLock>>

\* A signal ends the wait for rx_read_lock.
ReadLockInterrupted(t) == Move(t, "readLock", "user")

\* -ENODEV or -EHOSTDOWN.
ReadDown(t) ==
  /\ removed \/ suspended \/ ~fifoReady
  /\ Step(t, "readCheck", "user")
  /\ rxReadLock' = "free"
  /\ UNCHANGED <<queueVars, asyncVars, fileVars, waiters, rxReadBuf, txLock>>

\* -ENOBUFS.
ReadOverflow(t) ==
  /\ Up /\ fifoReady
  /\ overflow
  /\ overflow' = FALSE
  /\ base' = Handled - Len(fifo)
  /\ Step(t, "readCheck", "user")
  /\ rxReadLock' = "free"
  /\ UNCHANGED <<fifo, queued, fifoReady, asyncVars, fileVars, waiters,
                 rxReadBuf, txLock, lastOut>>

\* A record moves to rx_read_buf; a short kfifo_out would be -EIO.
ReadDequeue(t) ==
  /\ Up /\ fifoReady
  /\ ~overflow
  /\ queued > 0
  /\ IF fifo = <<>>
     THEN /\ queued' = 0
          /\ rxReadLock' = "free"
          /\ Step(t, "readCheck", "user")
          /\ UNCHANGED <<fifo, rxReadBuf, base>>
     ELSE /\ fifo' = Tail(fifo)
          /\ queued' = queued - 1
          /\ rxReadBuf' = Head(fifo)
          /\ base' = Head(fifo)
          /\ Step(t, "readCheck", "readCopy")
          /\ UNCHANGED rxReadLock
  /\ UNCHANGED <<fifoReady, overflow, asyncVars, fileVars, waiters, txLock,
                 lastOut>>

\* Nothing queued: -EAGAIN with O_NONBLOCK, otherwise wait.
ReadEmpty(t) ==
  /\ Up /\ fifoReady
  /\ ~overflow
  /\ queued = 0
  /\ \/ Step(t, "readCheck", "user") /\ rxReadLock' = "free"
     \/ Step(t, "readCheck", "readPrepare") /\ UNCHANGED rxReadLock
  /\ UNCHANGED <<queueVars, asyncVars, fileVars, waiters, rxReadBuf, txLock>>

\* copy_to_user: the record reaches the caller, or -EFAULT and it is gone.
ReadCopy(t) ==
  /\ Step(t, "readCopy", "user")
  /\ rxReadLock' = "free"
  /\ lastOut' \in {rxReadBuf, lastOut}
  /\ UNCHANGED <<fifoVars, asyncVars, fileVars, waiters, rxReadBuf, txLock,
                 base>>

\* wait_event_interruptible: queue on rx_wait, then test, then sleep.
ReadPrepare(t) ==
  /\ Step(t, "readPrepare", "readTest")
  /\ waiters' = waiters \union {t}
  /\ UNCHANGED <<queueVars, asyncVars, fileVars, rxReadBuf, lockVars>>

ReadTest(t) ==
  /\ IF ReadCondition
     THEN Step(t, "readTest", "readCheck") /\ waiters' = waiters \ {t}
     ELSE Step(t, "readTest", "readSleep") /\ UNCHANGED waiters
  /\ UNCHANGED <<queueVars, asyncVars, fileVars, rxReadBuf, lockVars>>

ReadWoken(t) ==
  /\ t \notin waiters
  /\ Move(t, "readSleep", "readPrepare")

\* A signal ends the wait.
ReadSleepInterrupted(t) ==
  /\ Step(t, "readSleep", "user")
  /\ waiters' = waiters \ {t}
  /\ rxReadLock' = "free"
  /\ UNCHANGED <<queueVars, asyncVars, fileVars, rxReadBuf, txLock>>

-----------------------------------------------------------------------------
\* gxfp_poll, called by the poll(2) loop (external) before and after sleeping.

PollEnter(t) ==
  /\ opened
  /\ Step(t, "user", "pollMask")
  /\ waiters' = waiters \union {t}
  /\ UNCHANGED <<queueVars, asyncVars, fileVars, rxReadBuf, lockVars>>

PollMask(t) ==
  /\ IF PollReady
     THEN Step(t, "pollMask", "user") /\ waiters' = waiters \ {t}
     ELSE Step(t, "pollMask", "pollSleep") /\ UNCHANGED waiters
  /\ UNCHANGED <<queueVars, asyncVars, fileVars, rxReadBuf, lockVars>>

PollWoken(t) ==
  /\ t \notin waiters
  /\ Step(t, "pollSleep", "pollMask")
  /\ waiters' = waiters \union {t}
  /\ UNCHANGED <<queueVars, asyncVars, fileVars, rxReadBuf, lockVars>>

PollTimeout(t) ==
  /\ Step(t, "pollSleep", "user")
  /\ waiters' = waiters \ {t}
  /\ UNCHANGED <<queueVars, asyncVars, fileVars, rxReadBuf, lockVars>>

-----------------------------------------------------------------------------
\* gxfp_ioctl: the removed check is made before rx_lock is taken.

FlushEnter(t) ==
  /\ opened
  /\ ~removed
  /\ Move(t, "user", "flush")

FlushReset(t) ==
  /\ Step(t, "flush", "user")
  /\ DropQueue
  /\ overflow' = FALSE
  /\ base' = Handled
  /\ UNCHANGED <<fifoReady, asyncVars, fileVars, waiters, rxReadBuf, lockVars,
                 lastOut>>

-----------------------------------------------------------------------------
\* gxfp_probe's end, gxfp_suspend, gxfp_resume, gxfp_remove.

CoreStep(c, from, to) ==
  /\ cb = c /\ at = from
  /\ cb' = c /\ at' = to

Return(c, from) ==
  /\ cb = c /\ at = from
  /\ cb' = "none" /\ at' = "idle"

Call(c, first) ==
  /\ cb = "none" /\ at = "idle"
  /\ cb' = c /\ at' = first

\* The callback changes only its own place.
CoreOnly ==
  UNCHANGED <<queueVars, flagVars, userVars, lockVars, handlerVars, ownVars,
              ecVars>>

\* misc_register, or its failure, after which devres frees everything.
ProbeRegister ==
  /\ \/ CoreStep("probe", "register", "enable") /\ registered' = TRUE
     \/ /\ cb = "probe" /\ at = "register"
        /\ cb' = "remove" /\ at' = "hw"
        /\ UNCHANGED registered
  /\ UNCHANGED <<queueVars, flagVars, userVars, lockVars, handlerVars, hw,
                 ecVars>>

ProbeEnable ==
  /\ Return("probe", "enable")
  /\ irqDepth' = irqDepth - 1
  /\ UNCHANGED <<queueVars, flagVars, userVars, lockVars, irqVars, ownVars,
                 ecVars>>

\* suspend and resume begin by taking tx_lock and setting the flag; both
\* would return at once if removed were set.
SuspendEnter ==
  /\ ~suspended
  /\ Call("suspend", "lock")
  /\ CoreOnly

SuspendMark ==
  /\ TxLockFree
  /\ IF removed
     THEN Return("suspend", "lock") /\ UNCHANGED <<txLock, suspended>>
     ELSE /\ CoreStep("suspend", "lock", "disable")
          /\ txLock' = "driver"
          /\ suspended' = TRUE
  /\ UNCHANGED <<queueVars, removed, userVars, rxReadLock, handlerVars,
                 ownVars, ecVars>>

ResumeEnter ==
  /\ suspended
  /\ Call("resume", "lock")
  /\ CoreOnly

ResumeMark ==
  /\ TxLockFree
  /\ IF removed
     THEN Return("resume", "lock") /\ UNCHANGED <<txLock, suspended>>
     ELSE /\ CoreStep("resume", "lock", "enable")
          /\ txLock' = "driver"
          /\ suspended' = FALSE
  /\ UNCHANGED <<queueVars, removed, userVars, rxReadLock, handlerVars,
                 ownVars, ecVars>>

ResumeEnable ==
  /\ CoreStep("resume", "enable", "wake")
  /\ irqDepth' = irqDepth - 1
  /\ UNCHANGED <<queueVars, flagVars, userVars, lockVars, irqVars, ownVars,
                 ecVars>>

\* removed is set under open_lock.
RemoveMark ==
  /\ Call("remove", "deregister")
  /\ removed' = TRUE
  /\ UNCHANGED <<queueVars, suspended, userVars, lockVars, handlerVars,
                 ownVars, ecVars>>

\* misc_deregister takes misc_mtx, so it waits for an open in progress.
RemoveDeregister ==
  /\ CoreStep("remove", "deregister", "lock")
  /\ miscMtx = "free"
  /\ registered' = FALSE
  /\ UNCHANGED <<queueVars, flagVars, userVars, lockVars, handlerVars, hw,
                 ecVars>>

\* An irq that suspend disabled stays as it is.
RemoveLock ==
  /\ TxLockFree
  /\ txLock' = "driver"
  /\ CoreStep("remove", "lock",
              IF IrqAlreadyDisabled THEN "strobesLow" ELSE "disable")
  /\ UNCHANGED <<queueVars, flagVars, userVars, rxReadLock, handlerVars,
                 ownVars, ecVars>>

\* disable_irq, first half: no new handler starts.
QuiesceDisable ==
  /\ \E c \in {"suspend", "remove"} : CoreStep(c, "disable", "sync")
  /\ irqDepth' = irqDepth + 1
  /\ UNCHANGED <<queueVars, flagVars, userVars, lockVars, irqVars, ownVars,
                 ecVars>>

\* disable_irq, second half: the running handler finishes.
QuiesceSync ==
  /\ HandlerSynced
  /\ \E c \in {"suspend", "remove"} : CoreStep(c, "sync", "strobesLow")
  /\ CoreOnly

\* Both GPIO outputs are driven low.
QuiesceStrobes ==
  /\ \E c \in {"suspend", "remove"} : CoreStep(c, "strobesLow", "purge")
  /\ CoreOnly

\* The rx_lock section; only remove clears rx_fifo_ready.
QuiescePurge ==
  /\ \/ CoreStep("suspend", "purge", "wake") /\ UNCHANGED fifoReady
     \/ CoreStep("remove", "purge", "wake") /\ fifoReady' = FALSE
  /\ DropQueue
  /\ overflow' = FALSE
  /\ base' = Handled
  /\ UNCHANGED <<flagVars, userVars, lockVars, handlerVars, ownVars, ecVars,
                 lastOut>>

\* wake_up_interruptible_all and the end of the callback.
WakeAndReturn ==
  /\ \/ Return("suspend", "wake")
     \/ Return("resume", "wake")
     \/ CoreStep("remove", "wake", "hw")
  /\ WakeAll
  /\ txLock' = "free"
  /\ UNCHANGED <<queueVars, flagVars, fileVars, pc, rxReadBuf, rxReadLock,
                 handlerVars, ownVars, ecVars>>

\* After remove (or a failed probe) devres frees the irq, the GPIOs and the
\* mapping, and last runs gxfp_put_action.
DevresRelease ==
  /\ CoreStep("remove", "hw", "put")
  /\ hw' = FALSE
  /\ UNCHANGED <<queueVars, flagVars, userVars, lockVars, handlerVars,
                 registered, ecVars>>

DevresPut ==
  /\ CoreStep("remove", "put", "gone")
  /\ DropReference
  /\ UNCHANGED <<queueVars, flagVars, opened, miscMtx, callVars, lockVars,
                 handlerVars, ownVars, ecVars>>

-----------------------------------------------------------------------------
Init ==
  /\ fifo = <<>> /\ queued = 0 /\ fifoReady = TRUE /\ overflow = FALSE
  /\ removed = FALSE /\ suspended = FALSE /\ opened = FALSE /\ refs = 1
  /\ txLock = "free" /\ rxReadLock = "free" /\ miscMtx = "free"
  /\ pc = [t \in Threads |-> "user"]
  /\ waiters = {} /\ rxReadBuf = 0
  /\ irqPc = "idle" /\ irqQueue = FALSE /\ rxBuf = 0 /\ irqDepth = 1
  /\ cb = "probe" /\ at = "register" /\ registered = FALSE /\ hw = TRUE
  /\ sent = 0 /\ unacked = FALSE
  /\ base = 0 /\ lastOut = 0

\* What a thread does of its own will.
Enter(t) ==
  \/ OpenEnter(t) \/ ReleaseFile(t) \/ WriteEnter(t) \/ ReadEnter(t)
  \/ PollEnter(t) \/ FlushEnter(t)

\* What the kernel does for a thread inside a call.
Continue(t) ==
  \/ OpenDecide(t) \/ ReleasePut(t)
  \/ WriteLock(t) \/ WriteWindow(t) \/ WriteDone(t)
  \/ ReadLock(t) \/ ReadDown(t) \/ ReadOverflow(t) \/ ReadDequeue(t)
  \/ ReadEmpty(t) \/ ReadCopy(t) \/ ReadPrepare(t) \/ ReadTest(t)
  \/ ReadWoken(t)
  \/ PollMask(t) \/ PollWoken(t) \/ FlushReset(t)

\* Signals and poll's timeout.
Interrupt(t) ==
  ReadLockInterrupted(t) \/ ReadSleepInterrupted(t) \/ PollTimeout(t)

CallbackEnter == SuspendEnter \/ ResumeEnter \/ RemoveMark

Callback ==
  \/ ProbeRegister \/ ProbeEnable
  \/ SuspendMark \/ ResumeMark \/ ResumeEnable
  \/ RemoveDeregister \/ RemoveLock
  \/ QuiesceDisable \/ QuiesceSync \/ QuiesceStrobes \/ QuiescePurge
  \/ WakeAndReturn \/ DevresRelease \/ DevresPut

Next ==
  \/ EcPublish
  \/ Irq
  \/ \E t \in Threads : Enter(t) \/ Continue(t) \/ Interrupt(t)
  \/ CallbackEnter
  \/ Callback

Spec == Init /\ [][Next]_vars

\* A running handler, a callback and a call in the kernel proceed; a mutex
\* is handed to every waiter in turn.  Nobody has to call, publish, suspend
\* or unbind.
Fairness ==
  /\ WF_vars(Irq)
  /\ SF_vars(Callback)
  /\ \A t \in Threads : SF_vars(Continue(t))

FairSpec == Spec /\ Fairness

=============================================================================
