--------------------------- MODULE GxfpDriverProps ---------------------------
(***************************************************************************)
(* What the image-device layer and the GXFP driver guarantee together, and *)
(* what comments and assertions in their source say that they do not.      *)
(***************************************************************************)
EXTENDS GxfpDriver

Errors == {"none", "retry", "fatal", "cancelled"}

\* The values each variable may take.
TypeOK ==
  /\ power \in {"awake", "cancelling", "waiting", "suspended", "unmarked"}
  /\ isOpen \in BOOLEAN /\ cancelled \in BOOLEAN /\ cancelIdle \in BOOLEAN
  /\ action \in CaptureActions \union {"none", "open", "close"}
  /\ returning \in {"no", "ok", "error"}
  /\ reported \in {"no", "match", "retry"}
  /\ state \in States /\ active \in BOOLEAN /\ fingerPresent \in BOOLEAN
  /\ enrollStage \in 0..NumStages /\ scanActive \in BOOLEAN
  /\ actionError \in Errors /\ captureImage \in BOOLEAN
  /\ task \in Tasks \union {"none"} /\ ssmState \in 1..7
  /\ timeout \in BOOLEAN /\ expired \in BOOLEAN
  /\ deactivating \in BOOLEAN /\ completeSent \in BOOLEAN
  /\ captured \in BOOLEAN

-----------------------------------------------------------------------------
\* One action at a time, one result for each, decided only when the driver
\* is inactive, its task gone and no scan pending: everything the layer and
\* the driver do is a step of the device's contract (the completion
\* functions of fpi-device.c, fp_image_device_maybe_complete_action).
Lifecycle == INSTANCE DeviceLifecycle WITH
  Actions <- CaptureActions,
  result  <- returning,
  busy    <- active \/ scanActive \/ task # "none"

LifecycleSpec == Lifecycle!Spec

\* The driver starts tasks in the order the sensor's side is written for,
\* and none after the session is stopped, through every nested completion:
\* the layer and the driver implement TaskProtocol.
LeadsTo(f) ==
  CASE f \in {<<"activateComplete", "none">>, <<"changeState", "awaitOn">>,
              <<"stateChanged", "awaitOn">>} -> "waitDown"
    [] f \in {<<"reportFinger", "on">>, <<"changeState", "capture">>,
              <<"stateChanged", "capture">>} -> "capture"
    [] f \in {<<"imageCaptured", "">>, <<"changeState", "awaitOff">>,
              <<"stateChanged", "awaitOff">>} -> "waitUp"
    [] f = <<"activate", "">> -> "activate"
    [] OTHER -> "none"

Calls == {todo[i] : i \in DOMAIN todo}
Stopping == \E f \in Calls :
  \/ f[1] \in {"sessionError", "deactivate", "driverDeactivate",
              "deactivateComplete"}
  \/ f \in {<<"finished", "fatal">>, <<"finished", "cancelled">>}

InSession == (active \/ <<"activateComplete", "none">> \in Calls) /\ ~Stopping

CalledFor ==
  {t \in {LeadsTo(f) : f \in Calls} : t = "activate" \/ (InSession /\ t # "none")}

Tasking == INSTANCE TaskProtocol WITH
  active <- InSession,
  due    <- IF Stopping \/ task # "none" \/ CalledFor = {} THEN "none"
            ELSE CHOOSE t \in CalledFor : TRUE

TaskOrder == Tasking!TaskSpec

Waiting == todo = <<>>

StateOfTask ==
  [waitDown |-> "awaitOn", capture |-> "capture", waitUp |-> "awaitOff"]

\* Between dispatches the driver's task is the one the state of the layer
\* asks for: they are changed by nested calls in both directions, and a
\* change_state that finds a task still running drops the request
\* (gxfp_start_wait, gxfp_start_capture).  A retry timer always has that
\* task's machine to call back; it fires on freed memory otherwise
\* (gxfp_cancel_task, fpi_ssm_mark_completed).
TaskFollowsState ==
  Waiting =>
    /\ timeout => task # "none"
    /\ task \in DOMAIN StateOfTask => active /\ state = StateOfTask[task]
    /\ task = "activate" => ~active /\ state = "activating"
    /\ active /\ state # "idle" => task # "none"
    /\ active => state \notin {"inactive", "activating", "deactivating"}

\* No g_return_if_fail of the completion and image functions is hit, no
\* assertion fails (fp_image_device_start_capture_action,
\* fp_image_device_close, fpi_image_device_activate), and no scan is started
\* while another one runs, the race fpi_image_device_minutiae_detected warns
\* of.
NoCriticalWarning ==
  warned \intersect {"critical", "assert", "secondScan"} = {}

\* Between dispatches, a verify, identify or capture under way has a task or
\* a scan that will take it further: it never waits for nothing.
NothingLost ==
  Waiting /\ action \in CaptureActions \ {"enroll"} /\ returning = "no" =>
    task # "none" \/ scanActive

\* An enrolment succeeds only with all its stages scanned: an error met on
\* the way is still known when the scans and the deactivation have ended
\* (fp_image_device_maybe_complete_action).
EnrollsAllStages ==
  action = "enroll" /\ returning = "ok" => enrollStage = NumStages

\* The machine sleeps over an idle device: a suspend that found an action is
\* answered when the driver's task, the scan and the action are gone, not
\* before, and nothing starts until it has resumed.  fpi_device_resume asserts
\* as much (fpi_device_suspend_complete, fp_device_task_return_in_idle_cb).
SuspendedIdle ==
  /\ power = "suspended" =>
       action = "none" /\ ~active /\ ~scanActive /\ task = "none"
  /\ power = "cancelling" => action \in CaptureActions

\* An activation and a capture end, whatever the sensor does
\* (gxfp_task_expired).
DeadlinesHold ==
  \A t \in {"activate", "capture"} : task = t ~> task # t

\* A cancel that finds the action active ends it, whatever the finger and the sensor
\* do (fp_image_device_cancel_action and the idle source that calls it).
CancelEnds == cancelIdle /\ active ~> action = "none"

-----------------------------------------------------------------------------
\* fp-image-device.c:87 says of a cancelled capture action "in that case,
\* deactivate and return an error immediately": any cancelled one ends.
AnyCancelEnds == cancelled ~> action = "none"

\* fpi-image-device.c:138 says of every transition not in the table that it
\* "should not happen!".
TransitionsValid == "transition" \notin warned

\* fp-device.c:1002 says that "Any operation started while the device is
\* suspended will fail with BUSY": none is under way between the answer to a
\* suspend and the resume.
SuspendRefuses == power \in {"suspended", "unmarked"} => action = "none"

\* fpi-image-device.c:596 says that a session error "effectively aborts the
\* current ongoing action": no action is left waiting for nothing.
ErrorAborts ==
  Waiting /\ action \in CaptureActions /\ returning = "no" =>
    task # "none" \/ scanActive \/ state = "activating"

\* fpi-ssm.c:338 holds it a bug to complete a machine with a delayed state
\* change pending.
NoTimeoutPending == "timeoutPending" \notin warned

=============================================================================
