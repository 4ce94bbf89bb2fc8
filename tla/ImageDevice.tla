----------------------------- MODULE ImageDevice -----------------------------
(***************************************************************************)
(* fpi-image-device.c and fp-image-device.c: the libfprint layer that runs *)
(* one enroll, verify, identify or capture action over an image driver,    *)
(* and the part of fp-device.c and fpi-device.c that starts, cancels and   *)
(* returns an action.                                                      *)
(*                                                                         *)
(* Everything runs on one main loop, and calls between the layer and the   *)
(* driver are synchronous and nested.  todo is the stack of calls still to *)
(* run in the current dispatch, the next one first: a step runs the body   *)
(* of one call and puts the calls it makes in front of the rest.  A source *)
(* of the main loop (a timer, an idle callback, the result of a scan, a    *)
(* request of the application) is dispatched when the stack is empty.      *)
(***************************************************************************)
EXTENDS Naturals, Sequences

CONSTANT NumStages      \* nr_enroll_stages (16 for this driver)

ASSUME NumStagesAssumption == NumStages \in Nat \ {0}

VARIABLES
  \* FpDevicePrivate: is_open, current_action, the idle source that returns
  \* its result, current_cancellable, the idle source of a cancellation, and
  \* the match result reported early
  isOpen, action, returning, cancelled, cancelIdle, reported,
  \* is_suspended and suspend_resume_task: "awake"; asked to suspend, and
  \* "cancelling" the action or "waiting" for an open or close to end; or
  \* answered, as "suspended" or, when it waited, "unmarked"
  power,
  \* FpImageDevicePrivate
  state, active, fingerPresent, enrollStage, scanActive, actionError,
  captureImage,
  \* the calls of the current dispatch; the warnings and failed assertions
  \* the program has logged
  todo, warned

actionVars == <<isOpen, action, returning, cancelled, cancelIdle, reported,
                power>>
flowVars   == <<fingerPresent, enrollStage, scanActive, actionError,
                captureImage>>
deviceVars == <<state, active, flowVars>>
imageVars  == <<actionVars, deviceVars, todo, warned>>

Matching == {"verify", "identify"}
CaptureActions == {"enroll", "capture"} \union Matching

States == {"inactive", "activating", "idle", "awaitOn", "capture", "awaitOff",
           "deactivating"}

\* valid_transitions of fp_image_device_change_state, without raw mode.
ValidTransitions ==
  {<<"inactive", "activating">>, <<"activating", "idle">>,
   <<"activating", "inactive">>, <<"idle", "awaitOn">>, <<"idle", "capture">>,
   <<"idle", "deactivating">>, <<"awaitOn", "capture">>,
   <<"awaitOn", "deactivating">>, <<"capture", "awaitOff">>,
   <<"capture", "idle">>, <<"capture", "deactivating">>,
   <<"awaitOff", "idle">>, <<"awaitOff", "deactivating">>,
   <<"deactivating", "inactive">>}

-----------------------------------------------------------------------------
\* Calls.  A frame is the name of a function and its argument.

MainLoop == todo = <<>>
Called(f) == todo # <<>> /\ Head(todo)[1] = f
Arg == Head(todo)[2]
Return == todo' = Tail(todo)
ReturnCalling(calls) == todo' = calls \o Tail(todo)
Dispatch(calls) == MainLoop /\ todo' = calls

Warn(w, condition) == warned' = IF condition THEN warned \union {w} ELSE warned

\* The end of an action: its cancellation is disconnected and its result is
\* returned from an idle source.
Complete(result) ==
  /\ returning' = result
  /\ cancelIdle' = FALSE

-----------------------------------------------------------------------------
\* fp-device.c: requests of the application.

\* No action may start, with the check of is_suspended and without.
OnlyBusy == action # "none"
Refused == action # "none" \/ power \in {"cancelling", "suspended"}

RequestOpen ==
  /\ ~isOpen /\ ~Refused
  /\ action' = "open"
  /\ Dispatch(<< <<"open", "">> >>)
  /\ UNCHANGED <<isOpen, power, returning, cancelled, cancelIdle, reported,
                 deviceVars, warned>>

\* fp_image_device_close asserts that the device is inactive.
RequestClose ==
  /\ isOpen /\ ~Refused
  /\ action' = "close"
  /\ Dispatch(<< <<"close", "">> >>)
  /\ Warn("assert", active)
  /\ UNCHANGED <<isOpen, power, returning, cancelled, cancelIdle, reported,
                 deviceVars>>

\* fp_image_device_start_capture_action and fpi_image_device_activate, with
\* their assertions.  A capture that does not wait for a finger is refused.
Request(a) ==
  /\ isOpen /\ ~Refused
  /\ action' = a
  /\ reported' = "no"
  /\ \/ /\ Dispatch(<< <<"changeState", "activating">>, <<"activate", "">> >>)
        /\ enrollStage' = 0
        /\ Warn("assert", fingerPresent \/ scanActive \/ active)
        /\ UNCHANGED <<returning, cancelIdle>>
     \/ /\ a = "capture"
        /\ Dispatch(<<>>)
        /\ Complete("error")
        /\ UNCHANGED <<enrollStage, warned>>
  /\ UNCHANGED <<isOpen, power, cancelled, state, active, fingerPresent, scanActive,
                 actionError, captureImage>>

\* g_cancellable_cancel: the cancellable is set at once, the device told
\* from an idle source.
RequestCancel ==
  /\ MainLoop
  /\ action # "none" /\ returning = "no" /\ ~cancelled
  /\ cancelled' = TRUE
  /\ cancelIdle' = TRUE
  /\ UNCHANGED <<isOpen, power, action, returning, reported, deviceVars, todo,
                 warned>>

\* fp_device_cancel_in_idle_cb and fp_image_device_cancel_action.
CancelInIdle ==
  /\ cancelIdle
  /\ cancelIdle' = FALSE
  /\ Dispatch(IF action \in CaptureActions
              THEN << <<"deactivate", "">> >> ELSE <<>>)
  /\ UNCHANGED <<isOpen, power, action, returning, cancelled, reported, deviceVars,
                 warned>>

\* fpi_device_suspend_complete with an action under way: it is cancelled, and
\* the suspend answered with the action's result.
SuspendCancels ==
  /\ power' = "cancelling"
  /\ cancelled' = TRUE
  /\ cancelIdle' = (cancelIdle \/ (returning = "no" /\ ~cancelled))

\* fp_device_suspend and fpi_device_suspend, for a driver without a suspend
\* method: an open or a close is waited for.
RequestSuspend ==
  /\ MainLoop
  /\ power = "awake"
  /\ IF action \in CaptureActions
     THEN SuspendCancels
     ELSE /\ power' = IF action = "none" THEN "suspended" ELSE "waiting"
          /\ UNCHANGED <<cancelled, cancelIdle>>
  /\ UNCHANGED <<isOpen, action, returning, reported, deviceVars, todo, warned>>

\* fp_device_resume and fpi_device_resume, which is refused, to no effect,
\* when the device was never marked.
RequestResume ==
  /\ MainLoop
  /\ power \in {"suspended", "unmarked"}
  /\ power' = "awake"
  /\ UNCHANGED <<isOpen, action, returning, cancelled, cancelIdle, reported,
                 deviceVars, todo, warned>>

\* fpi_device_suspend_completed and complete_suspend_resume_task, when the
\* result of what they waited for is returned.
AnswerSuspend ==
  power' = CASE power = "cancelling" -> "suspended"
             [] power = "waiting" -> "unmarked"
             [] OTHER -> power

\* fp_device_task_return_in_idle_cb.
ReturnInIdle ==
  /\ MainLoop
  /\ returning # "no"
  /\ action' = "none"
  /\ returning' = "no"
  /\ cancelled' = FALSE
  /\ isOpen' = CASE action = "open" -> returning = "ok"
                 [] action = "close" -> FALSE
                 [] OTHER -> isOpen
  /\ AnswerSuspend
  /\ UNCHANGED <<cancelIdle, reported, deviceVars, todo, warned>>

-----------------------------------------------------------------------------
\* fpi_image_device_open_complete and fpi_image_device_close_complete.
OpenComplete ==
  /\ Called("openComplete")
  /\ state' = "inactive"
  /\ Complete(IF Arg = "none" THEN "ok" ELSE "error")
  /\ Return
  /\ UNCHANGED <<isOpen, power, action, cancelled, reported, active, flowVars, warned>>

CloseComplete ==
  /\ Called("closeComplete")
  /\ state' = "inactive"
  /\ Complete("ok")
  /\ Return
  /\ UNCHANGED <<isOpen, power, action, cancelled, reported, active, flowVars, warned>>

\* fp_image_device_change_state; the driver's change_state runs from it.
ChangeState ==
  /\ Called("changeState")
  /\ Warn("transition", <<state, Arg>> \notin ValidTransitions)
  /\ state' = Arg
  /\ ReturnCalling(<< <<"stateChanged", Arg>> >>)
  /\ UNCHANGED <<actionVars, active, flowVars>>

\* fpi_image_device_deactivate.
Deactivate ==
  /\ Called("deactivate")
  /\ IF ~active \/ state = "deactivating"
     THEN Return
     ELSE ReturnCalling(<< <<"changeState", "deactivating">>,
                           <<"driverDeactivate", "">> >>)
  /\ UNCHANGED <<actionVars, deviceVars, warned>>

\* fpi_image_device_activate_complete.  A failed activation leaves the state
\* as it is.
ActivateComplete ==
  /\ Called("activateComplete")
  /\ IF active \/ state # "activating"
     THEN /\ Warn("critical", TRUE)
          /\ Return
          /\ UNCHANGED <<active, returning, cancelIdle>>
     ELSE IF Arg # "none"
     THEN /\ Complete("error")
          /\ Return
          /\ UNCHANGED <<active, warned>>
     ELSE /\ active' = TRUE
          /\ ReturnCalling(<< <<"changeState", "idle">>,
                              <<"changeState", "awaitOn">> >>)
          /\ UNCHANGED <<returning, cancelIdle, warned>>
  /\ UNCHANGED <<isOpen, power, action, cancelled, reported, state, flowVars>>

\* fpi_image_device_deactivate_complete.
DeactivateComplete ==
  /\ Called("deactivateComplete")
  /\ IF ~active \/ state # "deactivating"
     THEN /\ Warn("critical", TRUE)
          /\ Return
          /\ UNCHANGED <<active, fingerPresent>>
     ELSE /\ active' = FALSE
          /\ fingerPresent' = FALSE
          /\ ReturnCalling(<< <<"changeState", "inactive">>,
                              <<"maybeComplete", "none">> >>)
          /\ UNCHANGED warned
  /\ UNCHANGED <<actionVars, state, enrollStage, scanActive, actionError,
                 captureImage>>

\* fp_image_device_enroll_maybe_await_finger_on, and the same without the
\* wait for the scan.
AwaitOnIgnoringScan == ~fingerPresent
MayAwaitOn == ~scanActive /\ ~fingerPresent

EnrollMaybeAwaitOn ==
  /\ Called("maybeAwaitOn")
  /\ IF MayAwaitOn
     THEN ReturnCalling(<< <<"changeState", "awaitOn">> >>)
     ELSE Return
  /\ UNCHANGED <<actionVars, deviceVars, warned>>

\* fpi_image_device_report_finger_status.
ReportFinger ==
  /\ Called("reportFinger")
  /\ IF state = "inactive"
     THEN Return /\ UNCHANGED fingerPresent
     ELSE /\ fingerPresent' = (Arg = "on")
          /\ ReturnCalling(
               CASE Arg = "on" /\ state = "awaitOn" ->
                      << <<"changeState", "capture">> >>
                 [] Arg = "off" /\ state = "awaitOff" ->
                      << <<"changeState", "idle">>,
                         IF action # "enroll" THEN <<"deactivate", "">>
                         ELSE <<"maybeAwaitOn", "">> >>
                 [] OTHER -> <<>>)
  /\ UNCHANGED <<actionVars, state, active, enrollStage, scanActive,
                 actionError, captureImage, warned>>

\* fpi_image_device_image_captured: the SIGFM extraction runs in a thread.
ImageCaptured ==
  /\ Called("imageCaptured")
  /\ IF state # "capture" \/ action \notin CaptureActions
     THEN /\ Warn("critical", TRUE)
          /\ Return
          /\ UNCHANGED scanActive
     ELSE /\ scanActive' = TRUE
          /\ ReturnCalling(<< <<"changeState", "awaitOff">> >>)
          /\ Warn("secondScan", scanActive)
  /\ UNCHANGED <<actionVars, state, active, fingerPresent, enrollStage,
                 actionError, captureImage>>

\* fpi_image_device_session_error, with an error that is not a cancellation
\* (the driver swallows those).
SessionError ==
  /\ Called("sessionError")
  /\ Warn("critical", ~active \/ state = "inactive")
  /\ ReturnCalling(
       IF ~active /\ action # "none" THEN << <<"activateComplete", Arg>> >>
       ELSE IF active /\ state = "inactive" THEN <<>>
       ELSE << <<"maybeComplete", Arg>>, <<"deactivate", "">> >>)
  /\ UNCHANGED <<actionVars, deviceVars>>

\* The condition under which fp_image_device_maybe_complete_action does
\* nothing more than note the error, and a wrong one.
IgnoreScan == active
StillBusy == active \/ scanActive

\* The first error counts, unless it was only a retry; and an error that is
\* not kept.
LatestError(err) == err
FirstError(err) ==
  IF err # "none" /\ actionError \in {"none", "retry"} THEN err ELSE actionError

MaybeComplete ==
  /\ Called("maybeComplete")
  /\ Return
  /\ LET noted == FirstError(Arg)
         final == IF noted = "none" /\ cancelled THEN "cancelled" ELSE noted
         complete == \/ action = "enroll"
                     \/ action \in Matching /\ reported = "match"
                     \/ action = "capture" /\ captureImage
     IN IF StillBusy
        THEN /\ actionError' = noted
             /\ UNCHANGED <<returning, cancelIdle, captureImage>>
        ELSE /\ actionError' = "none"
             /\ captureImage' = FALSE
             /\ Complete(IF final = "none" /\ complete THEN "ok" ELSE "error")
  /\ UNCHANGED <<isOpen, power, action, cancelled, reported, state, active,
                 fingerPresent, enrollStage, scanActive, warned>>

-----------------------------------------------------------------------------
\* fpi_image_device_minutiae_detected: the scan's result reaches the main
\* loop.  A set cancellable turns any result into a cancellation; too few
\* keypoints become a retry.

ScanCancelled ==
  /\ scanActive /\ cancelled
  /\ Dispatch(<< <<"maybeComplete", "cancelled">>,
                 <<"deactivate", "">> >>)
  /\ scanActive' = FALSE
  /\ UNCHANGED <<actionVars, state, active, fingerPresent, enrollStage,
                 actionError, captureImage, warned>>

ScanForCapture ==
  /\ scanActive /\ ~cancelled /\ action = "capture"
  /\ \E err \in {"none", "retry"} : Dispatch(<< <<"maybeComplete", err>> >>)
  /\ scanActive' = FALSE
  /\ captureImage' = TRUE
  /\ UNCHANGED <<actionVars, state, active, fingerPresent, enrollStage,
                 actionError, warned>>

\* All stages are scanned; and one too many.
PastLastStage(n) == n > NumStages
LastStage(n) == n = NumStages

ScanForEnroll ==
  /\ scanActive /\ ~cancelled /\ action = "enroll"
  /\ \E err \in {"none", "retry"} :
       enrollStage' = IF err = "none" THEN enrollStage + 1 ELSE enrollStage
  /\ Dispatch(IF LastStage(enrollStage')
              THEN << <<"maybeComplete", "none">>, <<"deactivate", "">> >>
              ELSE << <<"maybeAwaitOn", "">> >>)
  /\ scanActive' = FALSE
  /\ UNCHANGED <<actionVars, state, active, fingerPresent, actionError,
                 captureImage, warned>>

\* A retry is reported with the result; an error of the matcher is not.
ScanForMatch ==
  /\ scanActive /\ ~cancelled /\ action \in Matching
  /\ \/ /\ reported' \in {"match", "retry"}
        /\ Dispatch(<< <<"maybeComplete", "none">> >>)
     \/ /\ Dispatch(<< <<"maybeComplete", "fatal">> >>)
        /\ UNCHANGED reported
  /\ scanActive' = FALSE
  /\ UNCHANGED <<isOpen, power, action, returning, cancelled, cancelIdle, state,
                 active, fingerPresent, enrollStage, actionError, captureImage,
                 warned>>

MinutiaeDetected ==
  ScanCancelled \/ ScanForCapture \/ ScanForEnroll \/ ScanForMatch

\* Steps of the layer itself: calls, and sources of the main loop.
LayerCall ==
  \/ OpenComplete \/ CloseComplete \/ ChangeState \/ Deactivate
  \/ ActivateComplete \/ DeactivateComplete \/ EnrollMaybeAwaitOn
  \/ ReportFinger \/ ImageCaptured \/ SessionError \/ MaybeComplete

ImageInit ==
  /\ isOpen = FALSE /\ action = "none" /\ returning = "no"
  /\ power = "awake"
  /\ cancelled = FALSE /\ cancelIdle = FALSE /\ reported = "no"
  /\ state = "inactive" /\ active = FALSE
  /\ fingerPresent = FALSE /\ enrollStage = 0 /\ scanActive = FALSE
  /\ actionError = "none" /\ captureImage = FALSE
  /\ todo = <<>> /\ warned = {}

=============================================================================
