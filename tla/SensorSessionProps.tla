------------------------- MODULE SensorSessionProps -------------------------
(***************************************************************************)
(* What the driver's tasks may rely on while the sensor, the queues and    *)
(* the TLS session go on without them.                                     *)
(***************************************************************************)
EXTENDS SensorSession

\* The values each variable may take.
TypeOK ==
  /\ isOpen \in BOOLEAN /\ active \in BOOLEAN
  /\ {due, task} \subseteq DOMAIN After \union {"none"}
  /\ stage \in Polls \union {"none", "upSetup", "referenceStart",
                             "referenceStore", "setup", "start", "store"}
  /\ seen \in {"no", "own", "stale"} /\ mode \in {"idle", "down", "up"}
  /\ tls \in {"none", "connecting", "connected", "error"}
  /\ hs \in {"hello", "finished", "done"} /\ sess \in 0..MaxInits
  /\ nextSeq \in 0..MaxRequests /\ have \in 0..MaxRequests
  /\ {broken, overflow, waitGivenUp, clean} \subseteq BOOLEAN
  /\ mcu.phase \in {"off", "hello", "finished", "connected"}
  /\ armed.dir \in {"none", "down", "up"}
  /\ inits \in 0..MaxInits /\ requests \in 0..MaxRequests
  /\ faults \in 0..MaxFaults /\ odd \in 0..MaxOdd
  /\ givenUp \in 0..MaxRequests

\* The image that is stored, as the reference or as the user's finger, is the
\* one this task requested, unless requests of this TLS session were given
\* up; then it is older by at most as many requests.  Nothing in the protocol
\* matches an image with its request (GXFP_CAPTURE_START, gxfp_pull_plain).
ImageLag ==
  stage \in {"referenceStore", "store"} => requests - have <= givenUp

\* The touch report a task acts on answers an arming of its own, unless a
\* wait was given up before: one report for each time the sensor is armed,
\* none left over (gxfp_fdt_flow_feed_record, gxfp_start_wait).
OwnReport == seen = "stale" => waitGivenUp

\* Every record decrypts in a session that lost none, whatever was cancelled
\* in it and whatever an earlier session left on the way: records reach the
\* backend in order, in the tasks that do not want them too
\* (gxfp_poll_records, gxfp_rearm_tls).
KeepsSync == broken => ~clean

\* An activation in a session that lost nothing gets the handshake decided,
\* if it is given the time: the state that is waited for has its message on
\* the way (gxfp_rearm_tls, gxfp_tls_session_handshake_step).
HandshakeEnds ==
  stage = "tls" /\ clean ~> tls # "connecting" \/ stage # "tls" \/ ~clean

\* A wait sees the finger: whatever reports are consumed, dropped or turned
\* down in the meantime, the sensor stays armed until the wanted one was made
\* (gxfp_fdt_flow_feed_record).
FingerNoticed ==
  stage \in {"upWait", "event"} /\ clean
    ~> stage \notin {"upWait", "event"} \/ ~clean

\* A requested image is received.
ImageReceived ==
  stage \in {"referenceWait", "wait"} /\ clean
    ~> stage \notin {"referenceWait", "wait"} \/ ~clean

=============================================================================
