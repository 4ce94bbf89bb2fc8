---------------------------- MODULE SensorSession ----------------------------
(***************************************************************************)
(* The handlers of drivers/gxfp.c over flow/fdt.c, tls/ and                *)
(* algo/image/plain.c, against the sensor's controller (MCU) and the       *)
(* queues between them: a TLS session in which images travel, touch        *)
(* reports the sensor makes once for each time it is armed, and one image  *)
(* for each request.                                                       *)
(*                                                                         *)
(* TaskProtocol says which task runs.  A task polls: each record found is  *)
(* fed to the touch flow or to the TLS backend, and what the backend can   *)
(* decrypt is scanned for an image.  Nothing tells the driver that the     *)
(* sensor still works for a task that ended: a cancelled task leaves the   *)
(* sensor armed and its image on the way.                                  *)
(*                                                                         *)
(* The MCU is external: it runs its commands in order and answers when it  *)
(* likes.  A TLS record is one message; handshakes are two flights each    *)
(* way, and a record out of order or of another session is an error.       *)
(***************************************************************************)
EXTENDS TaskProtocol, Naturals, Sequences

CONSTANTS
  MaxInits,      \* TLS sessions started (TLS_SERVER_INIT commands)
  MaxRequests,   \* images requested
  MaxFaults,     \* messages lost, queues overflown, calls failed
  MaxCommands,   \* commands the MCU has not run yet
  MaxRecords,    \* records in the kernel's queue
  MaxOdd         \* reports with a reversed or an invalid base

ASSUME SessionAssumption ==
  /\ MaxInits \in Nat /\ MaxRequests \in Nat
  /\ MaxFaults \in Nat /\ MaxCommands \in Nat
  /\ MaxRecords \in Nat /\ MaxOdd \in Nat

VARIABLES
  \* the host: the state of the task's machine, the wanted report seen,
  stage, seen,
  \* gxfp_fdt_flow.mode, gxfp_tls_session.state,
  mode, tls,
  \* the TLS backend: handshake progress, session, undecrypted records,
  \* number of the next one, fatal error; and the image in the plain sink
  hs, sess, tlsq, nextSeq, broken, have,
  \* the kernel's record queue and its overflow flag, commands on their way
  wire, overflow, toMcu,
  \* the MCU: its TLS side with the number of images sent, and the report it
  \* is armed for
  mcu, armed,
  \* TLS sessions started, images requested, faults and odd reports so far
  inits, requests, faults, odd,
  \* history: requests of this session whose image was given up; a wait for
  \* the finger was given up; no fault since the session began, or since the
  \* sensor was armed
  givenUp, waitGivenUp, clean

machineVars == <<stage, seen>>
tlsVars     == <<tls, hs, sess, tlsq, nextSeq, broken>>
lineVars    == <<wire, overflow>>
mcuVars     == <<mcu, armed>>
limitVars   == <<faults, clean>>
historyVars == <<givenUp, waitGivenUp>>
vars == <<seamVars, machineVars, mode, tlsVars, have, lineVars, toMcu, mcuVars,
          inits, requests, odd, limitVars, historyVars>>

-----------------------------------------------------------------------------
\* Messages.  own: the task that armed the sensor still runs.

Command(name, n) == [name |-> name, n |-> n]
Arming(d) == [name |-> "arm", dir |-> d, own |-> TRUE]
Report(status, valid, own) ==
  [kind |-> "fdt", status |-> status, valid |-> valid, own |-> own]
Record(msg, s, seq, req) ==
  [kind |-> "tls", msg |-> msg, sess |-> s, seq |-> seq, req |-> req]

Disarmed == [dir |-> "none", own |-> FALSE]

\* What a task that ended leaves behind is no task's own.
Disowned(m) == IF "own" \in DOMAIN m THEN [m EXCEPT !.own = FALSE] ELSE m
DisownedAll(q) == [i \in DOMAIN q |-> Disowned(q[i])]

Fault == faults < MaxFaults /\ faults' = faults + 1 /\ clean' = FALSE
NoFault == UNCHANGED limitVars

\* gxfp_goodix_send_async and gxfp_dev_send_packet: written, or an error.
Sends(c) == Len(toMcu) < MaxCommands /\ toMcu' = Append(toMcu, c)

-----------------------------------------------------------------------------
\* The end of a task: well (gxfp_task_finished without an error), or by an
\* error, its deadline or a cancellation.

Leaves(queue) ==
  /\ stage' = "none" /\ seen' = "no"
  /\ wire' = DisownedAll(queue)
  /\ armed' = Disowned(armed)

Finishes ==
  /\ Done
  /\ Leaves(wire)
  /\ toMcu' = DisownedAll(toMcu)

\* The image of a request is given up unless one was received; a wait unless
\* its report was.
GivesUp(queue, m) ==
  /\ End
  /\ Leaves(queue)
  /\ toMcu' = DisownedAll(toMcu)
  /\ givenUp' = IF stage \in {"referenceWait", "wait"} /\ have = 0
                THEN givenUp + 1 ELSE givenUp
  /\ waitGivenUp' = \/ waitGivenUp
                    \/ stage \in {"upWait", "event"} /\ seen = "no"
  /\ mode' = IF active THEN "idle" ELSE m

\* gxfp_deactivate cancels the task: nothing is sent to the sensor.
Cancel ==
  /\ active
  /\ GivesUp(wire, mode)
  /\ UNCHANGED <<tlsVars, have, overflow, mcu, inits, requests, odd,
                 limitVars>>

\* gxfp_task_expired: an activation or a capture takes 20 s at most.
TimeOut ==
  /\ Running /\ task \in {"activate", "capture"}
  /\ GivesUp(wire, mode)
  /\ UNCHANGED <<tlsVars, have, overflow, mcu, inits, requests, odd,
                 limitVars>>

\* A handler's send fails, or an image, taken from the sink first, cannot be
\* decoded.
Stores == {"referenceStore", "store"}

CallFails ==
  /\ Running
  /\ stage \in {"upSetup", "setup", "referenceStart", "start"} \union Stores
  /\ Fault
  /\ GivesUp(wire, mode)
  /\ have' = IF stage \in Stores THEN 0 ELSE have
  /\ UNCHANGED <<tlsVars, overflow, mcu, inits, requests, odd>>

-----------------------------------------------------------------------------
\* gxfp_rearm_tls: a session that is being set up or works is kept; else the
\* queue is flushed, a new backend made and the MCU told to connect.

Keeps == tls \in {"connecting", "connected"}

NewSession ==
  /\ wire' = <<>> /\ overflow' = FALSE
  /\ tls' = "connecting" /\ hs' = "hello" /\ sess' = 0
  /\ tlsq' = <<>> /\ nextSeq' = 0 /\ broken' = FALSE
  /\ givenUp' = 0
  /\ UNCHANGED waitGivenUp

Connects ==
  /\ inits < MaxInits
  /\ inits' = inits + 1
  /\ NewSession
  /\ Sends(Command("init", inits + 1))
  /\ faults' = faults /\ clean' = TRUE

\* gxfp_img_open, whose bootstrap SensorBootstrap models: what it finds in
\* the queue is dropped.
ImgOpen ==
  /\ Open
  /\ Connects
  /\ mode' = "idle" /\ have' = 0
  /\ UNCHANGED <<machineVars, mcuVars, requests, odd>>

ImgClose ==
  /\ Close
  /\ tls' = "none" /\ hs' = "hello" /\ sess' = 0
  /\ tlsq' = <<>> /\ nextSeq' = 0 /\ broken' = FALSE
  /\ have' = 0
  /\ UNCHANGED <<machineVars, mode, lineVars, toMcu, mcuVars, inits, requests,
                 odd, limitVars, historyVars>>

\* The application asks for an action, or a stage of it; or the layer ends
\* the session between two tasks.
Ask ==
  /\ \/ \E t \in DOMAIN After : CallFor(t) /\ UNCHANGED mode
     \/ Stop /\ task = "none" /\ mode' = "idle"
  /\ UNCHANGED <<machineVars, tlsVars, have, lineVars, toMcu, mcuVars, inits,
                 requests, odd, limitVars, historyVars>>

Activate ==
  /\ due = "activate"
  /\ Start
  /\ stage' = "tls"
  /\ IF Keeps
     THEN UNCHANGED <<tlsVars, lineVars, toMcu, inits, limitVars, historyVars>>
     ELSE Connects
  /\ UNCHANGED <<seen, mode, have, mcuVars, requests, odd>>

\* The command cannot be sent: the session is left waiting for a client that
\* was not asked to connect.
ActivateFails ==
  /\ Refuse
  /\ ~Keeps
  /\ Fault
  /\ NewSession
  /\ UNCHANGED <<machineVars, mode, have, toMcu, mcuVars, inits, requests, odd>>

\* gxfp_start_wait, which forgets the mode, and gxfp_start_capture.

StartTask ==
  /\ due \in {"waitDown", "waitUp", "capture"}
  /\ Start
  /\ IF due = "capture" THEN stage' = "start" /\ UNCHANGED mode
     ELSE stage' = "setup" /\ mode' = "idle"
  /\ UNCHANGED <<seen, tlsVars, have, lineVars, toMcu, mcuVars, inits, requests,
                 odd, limitVars, historyVars>>

-----------------------------------------------------------------------------
\* The touch flow (flow/fdt.c).  Setting the manual base (FDT_MODE) goes with
\* every arming command.  The mode is named for the direction of the wait, and
\* not for the task.

ByTask == task
Direction == IF task = "waitDown" THEN "down" ELSE "up"
Wanted == IF Direction = "down" THEN {"down"} ELSE {"up", "reverse"}

\* gxfp_fdt_flow_set_mode, from WAIT_FDT_SETUP or ACTIVATE_FDT_UP_SETUP, where
\* the mode was forgotten first.
Setup ==
  /\ Running /\ stage \in {"upSetup", "setup"}
  /\ LET from == IF stage = "upSetup" THEN "idle" ELSE mode
     IN IF from = Direction THEN UNCHANGED toMcu ELSE Sends(Arming(Direction))
  /\ mode' = Direction
  /\ stage' = IF stage = "upSetup" THEN "upWait" ELSE "event"
  /\ UNCHANGED <<seamVars, seen, tlsVars, have, lineVars, mcuVars, inits,
                 requests, odd, limitVars, historyVars>>

\* A report that disarmed the sensor while it is still wanted: the base moved
\* or could not be used.  Too rarely, and too often.
OnlyReversed(r) == r.valid /\ r.status = "reverse" /\ mode = "down"
AnyReversed(r) == mode # "idle" /\ (~r.valid \/ r.status = "reverse")
Rearms(r) ==
  \/ r.valid /\ r.status = "reverse" /\ mode = "down"
  \/ ~r.valid /\ mode # "idle"

\* gxfp_tls_session_feed_cipher: every record goes to the backend; or only
\* those some task waits for.
FeedsWanted(r) == 
  IF stage \in {"tls", "referenceWait", "wait"} THEN Append(tlsq, r) ELSE tlsq
FeedsConnected(r) == IF tls = "connected" THEN Append(tlsq, r) ELSE tlsq
FeedsHandshake(r) == IF tls = "connecting" THEN Append(tlsq, r) ELSE tlsq
FeedsCipher(r) == Append(tlsq, r)

\* gxfp_poll_records reads one record: gxfp_fdt_flow_feed_record and
\* gxfp_tls_session_feed_cipher.  Only a wait looks at the events.
Polls == {"tls", "upWait", "referenceWait", "event", "wait"}

Feed ==
  /\ Running /\ stage \in Polls
  /\ ~overflow /\ wire # <<>>
  /\ wire' = Tail(wire)
  /\ LET r == Head(wire) IN
     IF r.kind = "tls"
     THEN /\ tlsq' = FeedsCipher(r)
          /\ UNCHANGED <<seen, toMcu>>
     ELSE /\ IF Rearms(r) THEN Sends(Arming(mode)) ELSE UNCHANGED toMcu
          /\ seen' = IF stage \in {"upWait", "event"} /\ seen # "own"
                        /\ r.valid /\ r.status \in Wanted
                     THEN IF r.own THEN "own" ELSE "stale"
                     ELSE seen
          /\ UNCHANGED tlsq
  /\ UNCHANGED <<seamVars, stage, mode, tls, hs, sess, nextSeq, broken, have,
                 overflow, mcuVars, inits, requests, odd, limitVars,
                 historyVars>>

\* Reading reports lost records, or re-arming fails.
FeedFails ==
  /\ Running /\ stage \in Polls
  /\ \/ /\ overflow /\ overflow' = FALSE
        /\ GivesUp(wire, mode)
        /\ NoFault
     \/ /\ ~overflow /\ wire # <<>>
        /\ Head(wire).kind = "fdt" /\ Rearms(Head(wire))
        /\ Fault
        /\ GivesUp(Tail(wire), IF Head(wire).valid THEN mode ELSE "idle")
        /\ UNCHANGED overflow
  /\ UNCHANGED <<tlsVars, have, mcu, inits, requests, odd>>

\* The poll found a wanted event: ACTIVATE_FDT_UP_WAIT and WAIT_FDT_EVENT.
AcceptUp ==
  /\ Running /\ stage = "upWait" /\ seen # "no"
  /\ stage' = "referenceStart" /\ seen' = "no"
  /\ UNCHANGED <<seamVars, mode, tlsVars, have, lineVars, toMcu, mcuVars, inits,
                 requests, odd, limitVars, historyVars>>

AcceptEvent ==
  /\ stage = "event" /\ seen # "no"
  /\ Finishes
  /\ UNCHANGED <<mode, tlsVars, have, overflow, mcu, inits, requests,
                 odd, limitVars, historyVars>>

-----------------------------------------------------------------------------
\* TLS: ACTIVATE_TLS and the backend.

TlsConnected ==
  /\ stage = "tls" /\ tls = "connected"
  /\ stage' = "upSetup"
  /\ UNCHANGED <<seamVars, seen, mode, tlsVars, have, lineVars, toMcu, mcuVars,
                 inits, requests, odd, limitVars, historyVars>>

\* gxfp_tls_session_handshake_step: the server answers each flight of the
\* client.
Expects(r) == \/ hs = "hello" /\ r.msg = "hello"
              \/ hs = "finished" /\ r.msg = "finished" /\ r.sess = sess

Handshake ==
  /\ stage = "tls" /\ tls = "connecting" /\ tlsq # <<>>
  /\ LET r == Head(tlsq) IN
     /\ Expects(r)
     /\ sess' = r.sess
     /\ IF hs = "hello"
        THEN /\ Sends(Command("serverFlight", r.sess))
             /\ hs' = "finished" /\ UNCHANGED tls
        ELSE /\ Sends(Command("serverFinished", r.sess))
             /\ hs' = "done" /\ tls' = "connected"
  /\ tlsq' = Tail(tlsq)
  /\ UNCHANGED <<seamVars, machineVars, mode, nextSeq, broken, have, lineVars,
                 mcuVars, inits, requests, odd, limitVars, historyVars>>

\* An unexpected record, or a flight that cannot be sent: the session is in
\* error, and the next activation starts another.
HandshakeFails ==
  /\ stage = "tls" /\ tls = "connecting" /\ tlsq # <<>>
  /\ IF Expects(Head(tlsq)) THEN Fault ELSE NoFault
  /\ tls' = "error"
  /\ tlsq' = Tail(tlsq)
  /\ GivesUp(wire, mode)
  /\ UNCHANGED <<hs, sess, nextSeq, broken, have, overflow, mcu, inits,
                 requests, odd>>

-----------------------------------------------------------------------------
\* Images: ACTIVATE_REFERENCE_* and CAPTURE_*.

\* gxfp_plain_sink_reset_normal, or none, and gxfp_cmd_get_image.
SinkKept == UNCHANGED have
SinkReset == have' = 0

RequestImage ==
  /\ Running /\ stage \in {"referenceStart", "start"}
  /\ requests < MaxRequests
  /\ requests' = requests + 1
  /\ SinkReset
  /\ Sends(Command("getImage", requests + 1))
  /\ stage' = IF stage = "start" THEN "wait" ELSE "referenceWait"
  /\ UNCHANGED <<seamVars, seen, mode, tlsVars, lineVars, mcuVars, inits, odd,
                 limitVars, historyVars>>

\* gxfp_pull_plain and gxfp_plain_scan_chunks.  The first image is kept.
KeepFirst(req) == IF have # 0 THEN have ELSE req

Decrypts(r) ==
  ~broken /\ r.msg = "image" /\ r.sess = sess /\ r.seq = nextSeq

Pull ==
  /\ Running /\ stage \in {"referenceWait", "wait"} /\ tlsq # <<>>
  /\ Decrypts(Head(tlsq))
  /\ have' = KeepFirst(Head(tlsq).req)
  /\ tlsq' = Tail(tlsq) /\ nextSeq' = nextSeq + 1
  /\ UNCHANGED <<seamVars, machineVars, mode, tls, hs, sess, broken, lineVars,
                 toMcu, mcuVars, inits, requests, odd, limitVars, historyVars>>

\* The state of the session stays CONNECTED.
PullFails ==
  /\ Running /\ stage \in {"referenceWait", "wait"} /\ tlsq # <<>>
  /\ ~Decrypts(Head(tlsq))
  /\ broken' = TRUE
  /\ tlsq' = Tail(tlsq)
  /\ GivesUp(wire, mode)
  /\ UNCHANGED <<tls, hs, sess, nextSeq, have, overflow, mcu, inits,
                 requests, odd, limitVars>>

ImageSeen ==
  /\ Running /\ stage \in {"referenceWait", "wait"}
  /\ tlsq = <<>> /\ have # 0
  /\ stage' = IF stage = "wait" THEN "store" ELSE "referenceStore"
  /\ UNCHANGED <<seamVars, seen, mode, tlsVars, have, lineVars, toMcu, mcuVars,
                 inits, requests, odd, limitVars, historyVars>>

\* gxfp_store_reference_image and gxfp_store_image.
Store ==
  /\ stage \in Stores
  /\ have' = 0
  /\ Finishes
  /\ UNCHANGED <<mode, tlsVars, overflow, mcu, inits, requests, odd,
                 limitVars, historyVars>>

-----------------------------------------------------------------------------
\* The MCU and the lines (external).

\* A record reaches the queue, is lost, or finds it full, which empties it
\* (gxfp_irq_thread).
Delivers(r) ==
  \/ Len(wire) < MaxRecords /\ wire' = Append(wire, r) /\ UNCHANGED overflow
     /\ NoFault
  \/ Len(wire) = MaxRecords /\ wire' = <<>> /\ overflow' = TRUE
     /\ clean' = FALSE /\ UNCHANGED faults
  \/ UNCHANGED lineVars /\ Fault

Quiet == UNCHANGED lineVars /\ NoFault

\* The MCU runs its next command; one that does not fit its state has no
\* effect.
McuRuns ==
  /\ toMcu # <<>>
  /\ toMcu' = Tail(toMcu)
  /\ LET c == Head(toMcu) IN
     CASE c.name = "init" ->
            /\ mcu' = [phase |-> "hello", sess |-> c.n, sent |-> 0]
            /\ Delivers(Record("hello", c.n, 0, 0))
            /\ UNCHANGED armed
       [] c.name = "serverFlight" /\ mcu.phase = "hello" /\ c.n = mcu.sess ->
            /\ mcu' = [mcu EXCEPT !.phase = "finished"]
            /\ Delivers(Record("finished", c.n, 0, 0))
            /\ UNCHANGED armed
       [] c.name = "serverFinished" /\ mcu.phase = "finished"
          /\ c.n = mcu.sess ->
            /\ mcu' = [mcu EXCEPT !.phase = "connected"]
            /\ Quiet
            /\ UNCHANGED armed
       [] c.name = "getImage" /\ mcu.phase = "connected" ->
            /\ mcu' = [mcu EXCEPT !.sent = @ + 1]
            /\ Delivers(Record("image", mcu.sess, mcu.sent, c.n))
            /\ UNCHANGED armed
       [] c.name = "arm" ->
            /\ armed' = [dir |-> c.dir, own |-> c.own]
            /\ Quiet
            /\ UNCHANGED mcu
       [] OTHER -> UNCHANGED <<mcu, armed>> /\ Quiet
  /\ UNCHANGED <<seamVars, machineVars, mode, tlsVars, have, inits,
                 requests, odd, historyVars>>

\* The finger is put on the sensor or taken off it, and the sensor reports
\* what it is armed for, once.
McuReports ==
  /\ armed.dir # "none"
  /\ armed' = Disarmed
  /\ Delivers(Report(armed.dir, TRUE, armed.own))
  /\ UNCHANGED <<seamVars, machineVars, mode, tlsVars, have, toMcu, mcu,
                 inits, requests, odd, historyVars>>

\* Or its base has moved, or reads as invalid.
McuReportsOdd ==
  /\ armed.dir # "none"
  /\ odd < MaxOdd
  /\ odd' = odd + 1
  /\ armed' = Disarmed
  /\ \/ Delivers(Report("reverse", TRUE, armed.own))
     \/ Delivers(Report(armed.dir, FALSE, armed.own))
  /\ UNCHANGED <<seamVars, machineVars, mode, tlsVars, have, toMcu, mcu,
                 inits, requests, historyVars>>

LoseCommand ==
  /\ toMcu # <<>>
  /\ Fault
  /\ toMcu' = Tail(toMcu)
  /\ UNCHANGED <<seamVars, machineVars, mode, tlsVars, have, lineVars, mcuVars,
                 inits, requests, odd, historyVars>>

-----------------------------------------------------------------------------
Init ==
  /\ TaskInit
  /\ stage = "none" /\ seen = "no" /\ mode = "idle" /\ have = 0
  /\ tls = "none" /\ hs = "hello" /\ sess = 0 /\ tlsq = <<>> /\ nextSeq = 0
  /\ broken = FALSE
  /\ wire = <<>> /\ overflow = FALSE /\ toMcu = <<>>
  /\ mcu = [phase |-> "off", sess |-> 0, sent |-> 0]
  /\ armed = Disarmed
  /\ inits = 0 /\ requests = 0 /\ faults = 0 /\ odd = 0
  /\ givenUp = 0 /\ waitGivenUp = FALSE /\ clean = TRUE

\* The steps of a running task.
Task ==
  \/ Setup \/ Feed \/ FeedFails \/ AcceptUp \/ AcceptEvent
  \/ TlsConnected \/ Handshake \/ HandshakeFails
  \/ RequestImage \/ Pull \/ PullFails \/ ImageSeen \/ Store \/ CallFails

Begin == Activate \/ ActivateFails \/ StartTask
Mcu == McuRuns \/ McuReports \/ McuReportsOdd

Next ==
  \/ ImgOpen \/ ImgClose \/ Ask \/ Begin \/ Cancel \/ TimeOut \/ Task
  \/ Mcu \/ LoseCommand

Spec == Init /\ [][Next]_vars

\* The main loop runs the task, and the MCU its commands and reports.
Fairness == WF_vars(Begin) /\ WF_vars(Task) /\ WF_vars(McuRuns)
            /\ WF_vars(McuReports)

FairSpec == Spec /\ Fairness

=============================================================================
