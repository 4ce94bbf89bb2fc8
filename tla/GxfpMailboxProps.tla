-------------------------- MODULE GxfpMailboxProps --------------------------
(* What kernel/gxfp.c, as GxfpMailbox models it, must never and always do. *)
EXTENDS GxfpMailbox

Calls == {"user", "open", "put", "writeLock", "writeWindow", "writeStrobe",
          "readLock", "readCheck", "readCopy", "readPrepare", "readTest",
          "readSleep", "pollMask", "pollSleep", "flush"}

\* The values each variable may take; the FIFO never holds more records than
\* gxfp_probe sized it for.
TypeOK ==
  /\ fifo \in Seq(Nat) /\ Len(fifo) <= Capacity
  /\ queued \in Nat /\ fifoReady \in BOOLEAN /\ overflow \in BOOLEAN
  /\ removed \in BOOLEAN /\ suspended \in BOOLEAN /\ opened \in BOOLEAN
  /\ refs \in Nat
  /\ txLock \in Threads \union {"free", "driver"}
  /\ rxReadLock \in Threads \union {"free"}
  /\ miscMtx \in Threads \union {"free"}
  /\ pc \in [Threads -> Calls]
  /\ waiters \in SUBSET Threads
  /\ rxReadBuf \in Nat
  /\ irqPc \in {"idle", "window", "strobe", "enqueue", "wake"}
  /\ irqQueue \in BOOLEAN /\ rxBuf \in Nat /\ irqDepth \in Nat
  /\ cb \in {"probe", "none", "suspend", "resume", "remove"}
  /\ at \in {"register", "enable", "idle", "lock", "disable", "sync",
             "strobesLow", "purge", "wake", "deregister", "hw", "put", "gone"}
  /\ registered \in BOOLEAN /\ hw \in BOOLEAN
  /\ sent \in Nat /\ unacked \in BOOLEAN
  /\ base \in Nat /\ lastOut \in Nat

\* f holds the consecutive records up to h.
RunUpTo(f, h) == \A i \in 1 .. Len(f) : f[i] = h - Len(f) + i

\* While the device is up, every record acknowledged to the EC is in the
\* FIFO in order, was given to the reader, or is covered by a loss the reader
\* was told of (-ENOBUFS, or its own flush) or will be told of before any
\* later record (rx_overflow).  Suspend, resume, a full FIFO and the window
\* being refilled during the handler must not open a silent gap.
NoSilentLoss ==
  Up => /\ RunUpTo(fifo, Handled)
        /\ ~overflow => base = Handled - Len(fifo)

\* The bus is quiet once suspend or remove has returned and until resume
\* starts: no handler runs, no write is between its window access and the end
\* of its strobe, and no record or loss notice from before is left behind.
Down ==
  \/ cb = "none" /\ suspended
  \/ cb = "resume" /\ at = "lock"
  \/ cb = "remove" /\ at \in {"hw", "put", "gone"}

QuietWhenDown ==
  Down => /\ irqPc = "idle"
          /\ \A t \in Threads : pc[t] \notin {"writeWindow", "writeStrobe"}
          /\ fifo = <<>> /\ queued = 0 /\ ~overflow

\* suspend and remove drive the strobes low only when neither a write nor the
\* handler is in the middle of a strobe the EC is timing.
StrobesWhole ==
  at = "strobesLow" =>
    /\ irqPc = "idle"
    /\ \A t \in Threads : pc[t] \notin {"writeWindow", "writeStrobe"}

\* The mapping, the GPIOs and the irq are not used after devres has released
\* them, and struct gxfp is not used after its last reference is put.
NoUseAfterRelease ==
  /\ ~hw => /\ irqPc = "idle"
            /\ \A t \in Threads : pc[t] \notin {"writeWindow", "writeStrobe"}
  /\ refs = 0 => \A t \in Threads : pc[t] = "user"

\* The struct is freed when the driver and the last file have let go of it,
\* not later: after unbinding, the count is what open files and closes in
\* progress hold.
NoLeak ==
  (at = "gone" /\ ~opened /\ \A t \in Threads : pc[t] # "put") => refs = 0

\* A resumed (or freshly probed) device can interrupt: enable_irq and
\* disable_irq stay paired through every sequence of callbacks.
IrqPaired ==
  /\ irqDepth <= 1
  /\ cb = "none" => (irqDepth = 0 <=> ~suspended)

\* A thread asleep on rx_wait with something to report is about to be woken:
\* by the handler, or by the callback that changed the flags.  This is why
\* the flags may be written, and tested, outside rx_lock.
SleeperHasWaker ==
  \A t \in waiters :
    \/ pc[t] = "readSleep" /\ ReadCondition
    \/ pc[t] = "pollSleep" /\ PollReady
    => \/ irqPc = "wake"
       \/ cb = "suspend"
       \/ cb = "remove" /\ at \notin {"hw", "put", "gone"}

\* A reader receives each record at most once and in order, although readers
\* share rx_read_buf and copy from it outside rx_lock: what is about to be
\* copied is newer than anything copied before.
ReadsInOrder ==
  \A t \in Threads : pc[t] = "readCopy" => rxReadBuf > lastOut

\* The device does what RecordChannel promises.
link ==
  CASE removed /\ fifoReady -> "closing"
    [] removed /\ ~fifoReady -> "gone"
    [] ~removed /\ cb = "suspend" /\ at # "wake" /\ suspended -> "closing"
    [] ~removed /\ suspended /\ ~(cb = "suspend" /\ at # "wake") -> "down"
    [] OTHER -> "up"

Channel == INSTANCE RecordChannel
             WITH arrived <- Handled, pending <- fifo, notice <- overflow
ChannelSpec == Channel!Spec

\* A reader or poller asleep on rx_wait does not sleep through something to
\* report: a record, a loss, suspend or removal.
SleepersWake ==
  \A t \in Threads :
    /\ pc[t] = "readSleep" /\ ReadCondition ~> pc[t] # "readSleep"
    /\ pc[t] = "pollSleep" /\ PollReady ~> pc[t] # "pollSleep" \/ ~PollReady

\* Unbinding the driver always completes, whatever threads are blocked in
\* the device, and they all get out.
RemoveCompletes == removed ~> (at = "gone")
CallsEndAfterRemove ==
  \A t \in Threads : removed ~> (pc[t] = "user")

-----------------------------------------------------------------------------
(* The inductive invariant behind the safety properties. *)

Quiescing == {"disable", "sync", "strobesLow", "purge", "wake"}
Ended == {"hw", "put", "gone"}

\* Where the driver core may be, and what it has done to the flags, the irq,
\* the misc device and the resources by then.
CoreInv ==
  /\ \/ cb = "probe" /\ at \in {"register", "enable"} /\ ~suspended
     \/ cb = "none" /\ at = "idle"
     \/ cb = "suspend" /\ at \in {"lock"} \union Quiescing
        /\ (suspended <=> at # "lock")
     \/ cb = "resume" /\ at \in {"lock", "enable", "wake"}
        /\ (suspended <=> at = "lock")
     \/ cb = "remove" /\ at \in {"deregister", "lock"} \union Quiescing \union Ended
        /\ (at \in {"disable", "sync"} => ~suspended)
  /\ removed => cb = "remove"
  /\ (cb = "remove" /\ ~removed) => at \in Ended /\ ~suspended
  /\ registered <=>
       ~(cb = "probe" /\ at = "register") /\ (cb = "remove" => at = "deregister")
  /\ (~registered /\ ~removed) => ~opened /\ \A t \in Threads : pc[t] = "user"
  /\ hw <=> ~(cb = "remove" /\ at \in {"put", "gone"})
  /\ fifoReady <=> ~(removed /\ at \in {"wake"} \union Ended)

\* The irq is enabled exactly when the device is up and no callback has
\* disabled it, and a handler runs only while it is enabled or awaited.
IrqInv ==
  /\ irqDepth = IF \/ cb = "probe"
                   \/ cb = "resume" /\ at # "wake"
                   \/ cb \in {"suspend", "remove"}
                      /\ at \in {"sync", "strobesLow", "purge", "wake"} \union Ended
                   \/ suspended /\ cb \in {"none", "remove"}
                THEN 1 ELSE 0
  /\ irqPc # "idle" => irqDepth = 0 \/ at = "sync"
  /\ irqPc \in {"window", "strobe"} => unacked /\ (irqQueue \/ ~Up)
  /\ irqPc = "strobe" => rxBuf = sent
  /\ irqPc = "enqueue" => rxBuf = sent - (IF unacked THEN 1 ELSE 0)
  /\ irqPc = "enqueue" \/ unacked => sent > 0
  /\ irqPc = "enqueue" /\ unacked => sent > 1

\* tx_lock, rx_read_lock and misc_mtx are held where the code holds them.
LockInv ==
  /\ txLock = "driver" <=>
       \/ cb \in {"suspend", "remove"} /\ at \in Quiescing
       \/ cb = "resume" /\ at \in {"enable", "wake"}
  /\ \A t \in Threads :
       /\ pc[t] \in {"writeWindow", "writeStrobe"} <=> txLock = t
       /\ pc[t] \in {"readCheck", "readCopy", "readPrepare", "readTest",
                     "readSleep"} <=> rxReadLock = t
       /\ pc[t] = "open" <=> miscMtx = t
  /\ txLock \in Threads =>
       ~suspended /\ (cb = "remove" => at \in {"deregister", "lock"})

\* What the FIFO holds, and how far the reader has got.  It is empty before
\* anyone can open the device, from suspend's purge to resume, and from
\* remove's purge on.
Emptied ==
  \/ ~fifoReady
  \/ ~registered /\ ~removed
  \/ suspended /\ ~(cb = "suspend" /\ at # "wake")

QueueInv ==
  /\ queued = Len(fifo)
  /\ base + Len(fifo) <= Handled
  /\ lastOut <= base /\ rxReadBuf <= base
  /\ NoSilentLoss
  /\ ReadsInOrder
  /\ Emptied => fifo = <<>> /\ ~overflow /\ base = Handled

Putters == {t \in Threads : pc[t] = "put"}

\* The reference count: the driver's, the open file's, the closing files'.
RefInv ==
  /\ refs = (IF at = "gone" THEN 0 ELSE 1) + (IF opened THEN 1 ELSE 0)
            + Cardinality(Putters)
  /\ \A t \in Threads :
       /\ pc[t] \notin {"user", "open", "put"} => opened
       /\ pc[t] = "open" => registered

WaitInv ==
  /\ \A t \in waiters : pc[t] \in {"readTest", "readSleep", "pollMask", "pollSleep"}
  /\ SleeperHasWaker

\* Everything the step functions rely on, at every step: an invariant that
\* each step preserves, from which the safety properties above follow.
IInv ==
  TypeOK /\ CoreInv /\ IrqInv /\ LockInv /\ QueueInv /\ RefInv /\ WaitInv

=============================================================================
