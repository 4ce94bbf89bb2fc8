# Verification of gxfpmoc

TLA+ models of the Goodix GXFP fingerprint stack in this repository: the kernel
mailbox driver, the userspace library that speaks to the MCU, and the libfprint
driver that uses the library under libfprint's image-device layer. The modules
are checked by TLC on small instances. Every safety property those runs check, and
each refinement of an abstract specification, is also proved with TLAPS for every
value of the constants; liveness is only checked. `PROJECT.json` lists the runs, the
source lines each definition stands for, the hazards and the theorems.

## 1. The system

```
 application ── FpDevice ── image device layer ── gxfp driver        (libfprint, one main loop)
                                                     │ calls
        FDT flow   TLS session   commands ── frame assembly          (library, same thread)
                                                     │ read, write, poll, ioctl
                                             mailbox driver          (kernel)
                                                     │ MMIO window, GPIO strobes, irq
                                                  EC / MCU / sensor  (external)
```

| Component (source) | State it keeps | Operations | Correct when |
|---|---|---|---|
| mailbox driver (`kernel/gxfp.c`) | FIFO of records, overflow flag, removed / suspended, reference count, tx and read mutexes, wait queue, irq depth | open, release, write, read, poll, flush ioctl, threaded irq handler, probe, remove, suspend, resume | no record is lost in silence, readers get records in order, the window is untouched when the device is down, sleepers wake, nothing is used after its release |
| ACPI lookup (`kernel/gxfp.c:108-282`) | none | finds three GPIOs and the window at probe | pure lookup |
| frame assembly (`src/io/dev.c`, `src/proto/mp_proto.c`) | the frame being copied | read a frame, poll, flush, send a packet | a frame is whole or not returned; reading finds the next frame after any loss |
| command exchange (`src/cmd/goodix_xfer.c`) | deadline and tries of a request | send, wait for an opcode, request with retries | a reply belongs to its request; a request ends |
| commands (`src/cmd/*`), bootstrap (`drivers/gxfp.c:663-882`, `flow/milang_init.c`) | script position, chip id, verification attempts | configure and verify the sensor when the device is opened | a device that opens has its configuration |
| finger detection (`src/flow/fdt.c`, `src/cmd/fdt_cmd.c`) | mode, finger state, three base tables | set mode, feed a record | while a finger is awaited the sensor stays armed, once, with thresholds from the last reports |
| TLS session (`src/tls/*`) | handshake state, receive queue | feed, handshake step, pull plaintext | records stay in step with the peer; a handshake that lost nothing ends |
| image pipeline (`src/algo/image/*`) | one normal image, the dark reference | scan plaintext, decode, correct | an image belongs to the task that stores it; every pixel is made of its own sample |
| sensor configuration, provisioning (`src/algo/*`) | none | parse OTP, patch and checksum the blob, build and unwrap PSK blobs | a damaged OTP is not believed; the blob is the template with the calibration and a right checksum |
| recovery (`src/flow/device_recovery.c`) | none | script of commands | only a failed reset fails it |
| image-device layer (`libfprint/fpi-image-device.c`, `fp-image-device.c`, `fp-device.c`) | action, state, finger, enroll stage, scan, error, suspended | activate, finger and image reports, cancel, deactivate, complete, suspend, resume | one result for each action, after everything has stopped; nothing runs while suspended |
| gxfp driver (`libfprint/drivers/gxfp.c`, `fpi-ssm.c`) | running task, its machine, timer and deadline, deactivation flags | the four tasks, change_state, cancel, open, close | the task is the one the layer's state asks for; tasks end |
| demos, tools, nix, the rest of libfprint | – | – | not modelled |

How they interact: the kernel handler runs concurrently with system calls and
power callbacks and shares the FIFO and the flags with them. The library is
called by one thread and talks to the kernel through the file only; what is in
the FIFO is shared by all users of the device, and of the commands that wait for
replies, of the touch events and of the TLS records each reader drops what it
does not look for. Layer and driver are one main loop: they call each other
synchronously, in both directions, nested; timers, idle sources and the result
of the minutiae thread come in between.

What is hard: interleavings of handler, readers, pollers, writers, suspend and
remove; losses and their notice; frames without sequence numbers over a channel
that loses records; replies without request numbers from an MCU that may be
late; machines without a sequence of their own, whose completion functions call
back into the code that completes them; cancellation, deadlines and errors in
every state. The list of hazards, each with its line and the properties that
cover it, is in `PROJECT.json`; one that names no property says why.

## 2. Modules

| Module | Models | Extends or instantiates |
|---|---|---|
| `RecordChannel` | abstract: the queue of records that the device promises, with losses and power transitions | – |
| `GxfpMailbox` | `kernel/gxfp.c` | – |
| `GxfpMailboxProps` | its properties, its inductive invariant, its refinement of `RecordChannel` | `GxfpMailbox` |
| `GxfpMailboxProofs` | the proofs, of the refinement too | `GxfpMailboxProps` |
| `FrameAssembly` | `src/io/dev.c` (receiving) over the device | instance of `RecordChannel` |
| `FrameAssemblyProps`, `FrameAssemblyProofs` | its properties, invariant and proofs | `FrameAssembly` |
| `Packets` | `src/proto/*`, sending in `src/io/dev.c` | `Bytes` |
| `CommandXfer` | `src/cmd/goodix_xfer.c` and an MCU that answers in order, late or never | – |
| `SensorBootstrap`, `SensorBootstrapProps`, `SensorBootstrapProofs` | opening the device: chip id, OTP, resets, DAC, image mode, configuration, verification, TLS init | `CommandXfer` |
| `DeviceLifecycle` | abstract: one action at a time, one result for each | – |
| `TaskProtocol` | abstract: which task the gxfp driver may run next | – |
| `ImageDevice` | the image-device layer and the part of fp-device and fpi-device it needs, with suspend and resume | – |
| `GxfpDriver`, `GxfpDriverProps` | the gxfp driver and fpi-ssm under the layer; properties; refinements of `DeviceLifecycle` and `TaskProtocol` | `ImageDevice` |
| `GxfpDriverCalls` | proofs: which calls of layer and driver may be under way | `GxfpDriverProps` |
| `GxfpDriverProofs` | proofs: the properties and both refinements | `GxfpDriverCalls` |
| `SensorSession`, `SensorSessionProps`, `SensorSessionProofs` | what the driver's tasks do with the touch flow, the TLS session, the image sink, the queue and the sensor | `TaskProtocol` |
| `Bytes` | C's bytes and 16-bit words | – |
| `SensorConfig` | `src/algo/sensor_cfg.c` | `Bytes` |
| `TouchBases` | the base tables of `src/flow/fdt.c` and `src/cmd/fdt_cmd.c` | `Bytes` |
| `ImageDecoder` | `src/algo/image/decoder.c` | – |
| `DataFormats`, `DataFormatsProofs` | runs `SensorConfig`, `TouchBases`, `ImageDecoder` and `Packets` side by side; their properties and proofs | all four |
| `MC*` | instances for TLC | |

`RecordChannel` is the seam between the kernel and the library: the mailbox
driver is checked to implement it, and frame assembly is built on it. So what
`FrameAssembly` assumes of the device is what `GxfpMailbox` provides.

`TaskProtocol` is the seam between the driver under libfprint and the driver over
the library: `GxfpDriver`, in which I/O is an outcome, is checked to implement it
(`TaskOrder`), and `SensorSession`, in which the tasks do their I/O, runs only
the tasks it allows. So `SensorSession` is about orders of tasks that the layer can
cause, and needs none of the layer's state.

### GxfpMailbox

One process per user thread (`pc[t]` is the place in its system call), one for
the threaded handler (`irqPc`), one for the driver core (`cb` the callback, `at`
its step) and the EC. Code under the `rx_lock` spinlock or `open_lock` is one
step; `tx_lock`, `rx_read_lock` and the misc subsystem's mutex are held across
steps and have holders. Flags that the source reads without a lock
(`READ_ONCE(g->suspended)`) are read in a step of their own: the handler samples
them in `IrqEnter` and queues the record three steps later. Going to sleep takes
two steps (`ReadPrepare` joins the wait queue, `ReadTest` tests the condition), so
a wakeup may come in between. A record is the number the EC gave it; `base` and
`lastOut` are history. The EC publishes a record, raises the irq and waits for the
read-done strobe. External here, by how `gxfp.c` uses them: the EC, the misc
device's mutex, `disable_irq`'s wait for the handler, devres' release order.
Suspend may overlap system calls: freezing a thread only stops it where the
model may stop it anyway. The early returns of suspend and resume for a
removed device are kept although the device lock makes them unreachable.

### FrameAssembly

`Stream` is what the MCU sends: for each record, its part in its frame. The
device is `RecordChannel` with its variables; the reader's call goes through its
poll, the head, and for each later record a poll and a read. Only heads are
checked (`gxfp_mp_check_head`): a continuation is taken as it comes, and a
continuation read in place of a head is assumed to fail the check of type and
lengths. `EMSGSIZE` and `EBADMSG` are unreachable: the buffers have the largest
frame's size and the kernel sets `len` and `reserved`. `torn` is history: the
machine went to sleep with part of a frame copied. With a blocking file
(`NonBlocking = FALSE`, as `psk_tool` opens it) a read after an emptied queue waits
instead of failing; the model then has fewer behaviours.

### CommandXfer and SensorBootstrap

A call sends its command, reads frames until one has the expected opcode or time
is up, and sends again. Replies carry an opcode; the model also carries the number of
the call a reply answers, which the code does not see. The MCU deals with commands
one at a time and in order, as late as it likes; it, and replies, may be lost;
frames with an opcode in `Unsolicited` may come at any time. `suspects` is history:
the opcodes whose next reply may belong to a try that was given up. A reply of
another opcode clears it, since replies come in order. `faults` counts
failed and late transfers and bounds them. `SensorBootstrap` runs the script of
`gxfp_img_open` over it with two registers, the DAC and the TCODE, for the
configuration. A reset may clear them, an upload may be refused, and
`gxfp_cmd_upload_config_mcu`'s status is ignored as in the code. Closing and opening
again keeps the MCU's commands and replies; opening flushes only the queue.

### ImageDevice and GxfpDriver

`todo` is the stack of calls of the current dispatch of the main loop: a step runs
the body of one function and puts the calls it makes in front, so nesting in
both directions is kept. With an empty stack the loop dispatches a request, an idle
source, the retry timer or the result of a scan. I/O results are left open: every
call may fail and a poll may find nothing. `warned` collects the warnings and
assertions of the source that fire. `retry_scan` is never called by this driver, and
its I/O never returns a cancellation error. `set_mode(IDLE)` has no effect on what is
modelled. The `deactivating` branches of the capture states that run with no
main-loop turn in between cannot be taken and are left out.

A suspend with no action running, or one that the device class cannot keep, is
answered at once or cancels the action and is answered by its completion; one
that finds the device opening or closing is answered when that ends. The
temperature model of fpi-device is switched off by this driver.

### SensorSession

One task at a time, in the order of `TaskProtocol`; `stage` is the state of its
machine and each action the body of a handler or one turn of its polling loop. The
other actor is the MCU, which takes commands from `toMcu` in order and puts records
on `wire`, the kernel's queue, when it likes; both may lose a message, and a full
queue is thrown away with a notice, as `GxfpMailbox` does. The sensor makes one
report each time it is armed: the wanted one when the finger comes or goes, or one
with a moved or an invalid base. A TLS record carries its session and number,
an image the number of its request: the code sees the first through mbedtls and the
second not at all. What a task leaves behind when it is cancelled, expires or fails
stays where it is: nothing is sent to stop the sensor. `own` marks what the running
task has armed, and is taken from everything on its way when the task ends.
`givenUp`, `waitGivenUp` and `clean` are history. The bootstrap is `SensorBootstrap`'s;
here opening starts the session and flushes the queue. A record the code reads is
processed in one step (`gxfp_poll_records`), decrypting is a step of its own.

### SensorConfig, TouchBases, ImageDecoder, Packets

Pure computations, with the arithmetic in the widths of the code. `SensorConfig`
runs over the real configuration template, byte for byte, with every value of
one calibration and boundary values of the other, whole or with one copy damaged.
`TouchBases` keeps the tables as bytes, and reports may be cut short; C's `|` of two
bytes is its parameter `ByteOr`, which the run gives its value and of which the
proofs need only that it returns a byte and that zero changes nothing. In `ImageDecoder` the
contents of an image are opaque: a sample is the three nibbles it is made of, and
the property compares them with a formula for where a pixel's sample lies; the
loop's positions are the code's. Its Milan formats are first packed column by
column in the code; `Source` composes that with the loop. In `Packets` a payload is
its length and the sum of its bytes, and a frame comes back with one byte of its head
changed. `DataFormats` puts them side by side in one run: they share no state.

## 3. Runs

| Run | Shows | Bounds |
|---|---|---|
| `mailbox_safety` | no silent loss, order of reads, quiet when down, whole strobes, no use after release, no leak, paired irqs, sleepers have wakers; `GxfpMailbox` implements `RecordChannel` | 2 threads, 2 records queued, 4 published |
| `mailbox_liveness` | sleepers wake, unbinding completes, calls end after it | 2 threads, 1 record |
| `frames` | frames are whole unless torn by a suspend; after losses reading finds the next whole frame; calls end | 3 records queued, 5 frames of 1 to 3 records |
| `driver` | task follows state, no critical warning, nothing is lost, enrolments are complete, a suspended device is idle; the lifecycle contract, the order of tasks; deadlines hold, a cancel that finds the device active ends the action | 2 enroll stages |
| `driver_*` (five) | disagreements of code and comments, see below | 2 enroll stages |
| `bootstrap` | a device that opens is configured; replies are only confused after a try was given up; a verification over an MCU that sends nothing unsolicited survives two faults | 24 calls, 3 faults, 3 frames queued |
| `session` | an image is older than its request by no more than the requests given up; a touch report answers the wait's own arming unless a wait was given up; TLS breaks only by a loss; in a session without losses handshakes, waits and captures end | 2 sessions, 3 images, 1 fault, 1 odd report, 2 commands and 2 records under way |
| `formats` | the vote over a damaged OTP; the patched blob and its checksum; thresholds follow the last reports; every pixel of every format has its sample; a packet comes back as it was asked or is refused | all calibration bytes, 12 images for 6 formats, 2 cells, 3 packets |

The inductive invariants, and the type invariants of `GxfpMailbox` and `FrameAssembly`, are
proved and have no run of their own.

The proofs of section 4 hold for every value of the constants, so for safety the bounds
decide only which mistakes TLC would find; for liveness they are what is shown.

Why the bounds are enough. *Mailbox*: every interaction is between two threads
at most (two readers, a reader and a poller, a writer and a closer), and a FIFO of
two of its 72 records has an empty, a partly filled and a full state; four records
overflow it with records before and after. *Frames*: three parts make a first,
a middle and a last record; the stream has each length followed by another, and the
queue is shorter than two frames. *Commands*: an
open takes 17 calls, so 24 leave room for one that failed and another whole one; the
verification gives up after three faults, which the bound reaches. *Driver*:
of 16 enroll stages the first, one in between and the last differ; with two, each is
either first or last, and the code treats stages before the last alike. Nothing
else in that model counts. *Session*: two sessions let the remains of the first meet
the second; three images are a reference, one given up and one received in
its place; the queue of two overflows, and one fault at any place is enough to
break what only a loss may break. *Formats*: bases are at the edges of a
byte's half and its complement, lengths at the edges of the length byte, of a block
and of the buffer, the sequence number at its wrap; two cells tell a cell that a
report has from one it has not.

`CHECK_DEADLOCK FALSE`: the mailbox model stops when the driver is unbound and all
files are closed, the frame model when the MCU has sent its stream and the device is
gone, the bootstrap and session models when their bounds are used up, and the
formats when an input is dealt with. The driver model has the
stall of `driver_enroll_stall`, a finding.

### What the five violations show

* `driver_cancel_ignored` (`fpi-image-device.c:70`): a cancel dispatched while the
  device activates is dropped, and the action then waits for a finger without end;
  `fp-image-device.c:87` says such a cancel returns an error immediately.
* `driver_failed_activation` (`:672`): a failed activation leaves ACTIVATING, the next
  action warns of a transition that "should not happen".
* `driver_enroll_stall` (`:317`): an error while waiting for the finger to lift, with
  a scan still running, leaves an enrolment that nothing continues or ends.
* `driver_suspend_during_open` (`fpi-device.c:1595`): a suspend that waited for an open
  or a close is answered without `is_suspended`, so an action is accepted before
  the resume, against `fp-device.c:1002`; the resume is then refused.
* `driver_pending_retry` (`drivers/gxfp.c:390`): cancelling a task that waits for its
  retry timer fails the assertion of `fpi-ssm.c:338`.

The comment before `fpi_image_device_minutiae_detected`'s start
(`fpi-image-device.c:378`) warns of a second scan; `NoCriticalWarning` shows it does
not happen under this driver.

What `bootstrap` shows: without unsolicited frames (`notified`)
`gxfp_cmd_set_idle` puts requests and replies in step again between attempts, because
its acknowledgement comes after the late replies, which it drops. An acknowledgement
it did not cause ends its wait early, and then one late register reply can
shift all three attempts and fail the open. A wrong configuration is accepted in
neither case, with up to four faults (section 4).

What `session` shows: nothing in the protocol ties an image to its request. A
cancelled capture leaves its image on the way; the next request then gets that image
and every later one in the session is one behind, until the session is set up
again (`ImageLag` bounds it by the requests given up). Likewise a cancelled
wait leaves the sensor armed and its report counts for the next wait (`OwnReport`).
What the driver does right is feed the TLS backend in all tasks: records of a
capture that was given up reach it in order, so a cancellation never breaks the
session; only a lost record does, and then `gxfp_rearm_tls` still takes the session for
connected (`gxfp.c:222`).

### Fairness

* Mailbox: a running handler goes on (weak); a callback and a call inside the kernel
  go on, and a mutex is handed to every waiter in turn (strong, kernel mutexes
  queue their waiters). Nobody has to call, publish, suspend or unbind.
* Frames: the caller reads again and again and time passes, so a poll that finds
  nothing ends (weak, `ReadingSpec`). The caller does not flush.
* Session: the main loop starts the task that is due and runs it (weak on `Begin` and on
  `Task`, the handlers' steps: the 10 ms retry polls again), the MCU runs its commands (weak) and the
  finger comes or goes (weak on `McuReports`). Odd reports, losses, cancels and
  deadlines owe nothing, and the liveness properties speak of sessions without losses.
* Driver: the main loop runs its sources (weak), a cancellation's idle source in turn
  (strong, because the retry timer is armed for 10 ms at a time), the thread
  ends (strong), time passes a deadline (weak). The sensor owes nothing.

## 4. Proofs

`GxfpMailboxProofs` proves `Spec => []IInv`, and from it types and the eight safety
properties of the run, for any finite set of threads that excludes the two names for
lock holders (`ThreadsAssumption`), any positive capacity (`CapacityAssumption`)
and any `MaxRecords`. The safety properties are not inductive: whether a record may
be queued depends on where suspend stands, which depends on the irq depth and on the
holder of `tx_lock`. `IInv` says so in named parts: `CoreInv` (where the driver core
is and what it has done), `IrqInv` (the irq is enabled exactly when it should be),
`LockInv` (who holds what), `QueueInv` (the FIFO's contents and the history), `RefInv`
(the reference count is the driver, the open file and the closing files), `WaitInv`
(sleepers and their wakers). Each part has a lemma that every step preserves it,
with a case for every action; lemmas on what groups of steps leave alone keep
the cases short. `ChannelSpecHolds` maps each step to a step of `RecordChannel` or a
stutter: the handler's enqueue delivers, a reader's dequeue and its notice take,
suspend, resume and remove move the power state, and all else is hidden.

`FrameAssemblyProofs` proves `Spec => []IInv`, `TypeOK` and `FramesWhole` for every
stream whose frames follow each other (`StreamAssumption`), every positive capacity and
both kinds of file. The argument: unless it is going down the queue holds the last
records to arrive (`QueueContiguous`); while the device is down nothing is queued and
an assembly that goes on is torn (`DownEmpty`); and unless torn or a loss is to be
reported, the last record copied is the one before the queue (`PartsBegin`). So the
next record taken follows it. An overrun breaks that but sets the notice, which is
read first and ends the assembly.

`GxfpDriverCalls` and `GxfpDriverProofs` prove, for any number of enroll stages, the six
invariants of the `driver` run and that layer and driver implement `DeviceLifecycle` and
`TaskProtocol`. What matters there is nesting: a property that holds between dispatches
depends on how each function leaves things for the calls still on the stack. `CallInv`
lists the stacks that may be under way, in nine phases from `Quiet` (none) to `Ending`,
and for each how far the layer's state, the task and the driver's flags are; a lemma for
each function says which of them its calls lead to. No stack has more than two
calls. With it go that a machine is in one of its states (`MachineInv`), what
cancellations and suspends belong to (`AskInv`) and what fingers and scans are
compatible with (`FlowInv`). For `LifecycleSpec` a step maps to the action of the
contract that the request or the idle source stands for. For `TaskOrder`, what is due is
read off the stack: a call that stops the session, that leads to a task, or neither; the
lemmas `Seam*` say how it changes when a call is replaced by the calls it makes. The
proof found the model's one flaw of this sort: the `CASE` of `TaskFinished` had two arms that
overlapped for a failed activation, and a choice between them that TLA+ leaves open and
TLC makes by order.

`SensorSessionProofs` proves the safety of the `session` run for any number of sessions,
requests, faults and odd reports and any capacity of the queues. The queues are looked at
as the set of what they hold (`Items`) and the pairs of which one stands ahead of the
other (`Ahead`), because nothing depends on positions. The steps of the host are first
sorted by what they do to the session and the lines (`Kinds`), so that each part of the
invariant has one case per kind. The parts: `StageInv`, the task's stage fits the
session; `LineInv`, how commands, the MCU and records are numbered and ordered, whatever
was lost; `SyncInv`, in a session that lost nothing the images on the way are those from
`nextSeq` to `mcu.sent`, without a gap, and a handshake that can finish is the one last
asked for (`KeepsSync`); `LagInv`, no image that may come is older than its request
by more than the requests given up (`ImageLag`); `TokenInv`, unless a wait was given up there
is one arming, report or event under way at most, and none when nobody waits
(`OwnReport`).

`SensorBootstrapProofs` proves the three properties of the `bootstrap` run, for any number of
calls and tries, any capacity and the opcodes of `OpcodesAssumption`: the acknowledgement is
what the MCU may also send by itself, the registers share an opcode, the other commands have
one each. What is on the way is one pipe: the frames queued, then the replies to the commands
the MCU has not dealt with. `OwnInv`: a reply in it whose opcode is not suspect is that of
the call that waits, and nothing that was asked for is behind it. `LateInv`: either every
opcode the configuration has used is suspect, or no late reply can pass for one of the
verification. `CountInv`: it takes a fault to make an opcode suspect. `VerifiedHolds`
follows while there are fewer faults than opcodes in the configuration, that is up to four,
and is stated with that hypothesis (`VerifiedWithFewFaults`; `VerifiedUnlessLate` says what
holds beyond). Ten faults do break it. Let opens one after another give up at a later
command each, with the MCU so late that it has dealt with few: the first at the OTP, with
the chip id sent twice, then at the first reset, the DAC, the second reset and the upload;
each passes the earlier commands on the replies to the open before. A sixth has its chip id
sent twice and gives up verifying after it has asked for the TCODE. The seventh then takes
every reply of the sixth for its own, the registers' too, and is open when the MCU resets the
sensor once more for it; `gxfp_dev_flush_rxq` cannot flush what has not been sent. TLC finds
this in a search guided to it (an MCU that replies only when the queue is empty and the thread
waits or has opened, at most 16 commands outstanding), and nothing with nine faults or fewer. `TolerateInv` counts for `VerifyTolerates`: `Slack` is the faults of the verification less
its attempts. As long as the present attempt had no fault (-1), replies and requests are in
step again once idle is set (`Undisturbed`); when it has had one (0), no
acknowledgement is left over for the next attempt to take (`Disturbed`).

`DataFormatsProofs` proves the five properties of the `formats` run. The checksum needs a sum over
the words of the blob, a recursive function: that it exists and that two blobs which
agree up to an offset have equal sums is proved by taking the least counterexample, which
needs no induction theorem. A blob is then the template with the entries set so far
(`ConfigInv`), for any template of the shape of `TemplateAssumption` and any calibration.
`BasesInv` says both tables cell by cell, for any bases of 16 bits; the offset is not 1,
and a real one is at least 4. `DecoderInv` says where the loop is: at a group of a column,
with `inPos` and `outPos` both functions of it. `Packets` needs only that a byte is a byte.

The assumptions the proofs use, all checked by TLC on each instance: finite threads and
positive capacities, `NumStages` positive, bounds that are natural numbers, the shape of
the template, of the streams and of the opcodes, inputs that are bytes and words. The code
has each of them as a constant or by a type.

Only model-checked: the liveness properties (fairness is out of the prover's reach).
`RecordChannel`, `DeviceLifecycle` and `TaskProtocol` have no properties of their own
proved beyond what refers to them; that every run's `Init` and bounds allow the
interesting cases is shown by TLC and the mutated definitions only.

## 5. Not modelled

* ACPI lookup, MMIO copies and strobe timing: a lookup without state, and what the
  hardware does.
* The cryptography (mbedtls, key wrapping) and PSK provisioning: straight-line building of
  blobs around it, run once by hand.
* Device recovery: a straight-line script for a demo that ignores every result but
  the reset's.
* The scan of decrypted bytes for frames and the dark-reference correction: pixel
  arithmetic whose correctness is a matter of image quality.
* Minutiae extraction and matching: outcomes left open in `ImageDevice`.
* Critical sections of fpi-device, which only another driver enters, and its
  temperature model, which this driver switches off (`temp_hot_seconds = -1`).
* The rest of the vendored libfprint: drivers of other devices, NBIS, SIGFM, storage of
  prints, and their tables, tests and tools. They are most of the repository's lines
  and have no part in what it is about; large parts are protocol tables
  and numerical code with no behaviour to model.
* Demos, tools and packaging.

## 6. Plan

Done, in order of importance: the mailbox driver with `RecordChannel`; the driver
under the image-device layer with `DeviceLifecycle` and `TaskProtocol`; frame assembly; the
command exchange with the bootstrap; the sensor session; the data formats; the proofs
of section 4, which cover every safety property of the runs. To come:

1. `SensorSession` implements `TaskProtocol`, action by action.
2. What `DeviceLifecycle` and `TaskProtocol` promise by themselves: one result for each
   action, no task without a session.
3. `VerifiedHolds` up to nine faults, the bound the search of section 4 suggests: `LateInv`
   would have to say how far behind each opcode is, instead of whether it is suspect.
4. `FrameAssembly`: that no frame is returned twice, from `PartsBegin`.
