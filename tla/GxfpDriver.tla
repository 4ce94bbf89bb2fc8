----------------------------- MODULE GxfpDriver -----------------------------
(***************************************************************************)
(* drivers/gxfp.c over fpi-ssm.c, under the image-device layer: the GXFP   *)
(* driver runs one task at a time (activation, wait for the finger, wait   *)
(* for its removal, capture) as a sequential state machine that polls the  *)
(* character device from a retry timer.                                    *)
(*                                                                         *)
(* What the I/O calls return is left open: each may fail, and a poll may   *)
(* find nothing yet.  A state handler may block inside such a call, but    *)
(* never returns to the main loop in the middle: a running task is either  *)
(* in the current dispatch or waiting for its retry timer.                 *)
(***************************************************************************)
EXTENDS ImageDevice

VARIABLES
  \* struct _FpiDeviceGxfp: task_kind and task_ssm, the machine's cur_state,
  \* its delayed state change, whether task_deadline_ms has passed,
  \* deactivating, deactivate_complete_sent, and whether captured_image is set
  task, ssmState, timeout, expired, deactivating, completeSent, captured

taskVars   == <<task, ssmState, timeout, expired>>
driverVars == <<taskVars, deactivating, completeSent, captured>>
vars       == <<imageVars, driverVars>>

Tasks == {"activate", "waitDown", "waitUp", "capture"}

\* The states of each task's machine.
Machine(t) ==
  CASE t = "activate" -> <<"tls", "upSetup", "upWait", "referenceStart",
                           "referenceWait", "referenceStore", "done">>
    [] t = "capture"  -> <<"start", "wait", "store">>
    [] OTHER          -> <<"setup", "event", "done">>

Polling == {"tls", "upWait", "referenceWait", "event", "wait"}

HasDeadline(t) == t \in {"activate", "capture"}

At == Machine(task)[ssmState]
Last == ssmState = Len(Machine(task))

-----------------------------------------------------------------------------
\* img_open and img_close.  img_open's I/O may fail at many points, with the
\* same cleanup.
ImgOpen ==
  /\ Called("open")
  /\ \E err \in {"none", "fatal"} :
       ReturnCalling(<< <<"openComplete", err>> >>)
  /\ UNCHANGED <<actionVars, deviceVars, warned, driverVars>>

\* closing swallows the result of a task that is still running.
ImgClose ==
  /\ Called("close")
  /\ Warn("timeoutPending", timeout)
  /\ task' = "none" /\ timeout' = FALSE
  /\ captured' = FALSE
  /\ deactivating' = FALSE /\ completeSent' = FALSE
  /\ ReturnCalling(<< <<"closeComplete", "">> >>)
  /\ UNCHANGED <<actionVars, deviceVars, ssmState, expired>>

\* gxfp_track_task and fpi_ssm_start: the first handler runs at once.
StartTask(t) ==
  /\ task' = t
  /\ ssmState' = 1
  /\ expired' = FALSE
  /\ ReturnCalling(<< <<"run", "">> >>)

\* gxfp_activate, with the two resets, and without either.
StaysDeactivating == UNCHANGED deactivating
StopsDeactivating == deactivating' = FALSE
StaysSent == UNCHANGED completeSent
NotSentYet == completeSent' = FALSE

Activate ==
  /\ Called("activate")
  /\ IF task # "none"
     THEN /\ Return
          /\ UNCHANGED <<taskVars, deactivating, completeSent, captured>>
     ELSE /\ StopsDeactivating
          /\ NotSentYet
          /\ captured' = FALSE
          /\ \/ StartTask("activate") /\ UNCHANGED timeout
             \/ /\ ReturnCalling(<< <<"activateComplete", "fatal">> >>)
                /\ UNCHANGED taskVars
  /\ UNCHANGED <<actionVars, deviceVars, warned>>

\* gxfp_change_state, gxfp_start_wait and gxfp_start_capture.
TaskOf == [awaitOn |-> "waitDown", capture |-> "capture", awaitOff |-> "waitUp"]

StateChanged ==
  /\ Called("stateChanged")
  /\ IF Arg \in DOMAIN TaskOf /\ task = "none" /\ ~deactivating
     THEN StartTask(TaskOf[Arg])
     ELSE Return /\ UNCHANGED <<task, ssmState, expired>>
  /\ UNCHANGED <<actionVars, deviceVars, warned, timeout, deactivating,
                 completeSent, captured>>

\* gxfp_deactivate and gxfp_cancel_task, which fails the task's machine;
\* fpi_ssm_mark_completed objects to a pending state change and clears it.
CancelKeepsTimeout == UNCHANGED timeout
CancelClearsTimeout == timeout' = FALSE

DriverDeactivate ==
  /\ Called("driverDeactivate")
  /\ deactivating' = TRUE
  /\ IF task # "none"
     THEN /\ Warn("timeoutPending", timeout)
          /\ CancelClearsTimeout
          /\ ReturnCalling(<< <<"finished", "cancelled">> >>)
          /\ UNCHANGED completeSent
     ELSE IF ~completeSent
     THEN /\ completeSent' = TRUE
          /\ ReturnCalling(<< <<"deactivateComplete", "">> >>)
          /\ UNCHANGED <<timeout, warned>>
     ELSE Return /\ UNCHANGED <<timeout, warned, completeSent>>
  /\ UNCHANGED <<actionVars, deviceVars, task, ssmState, expired, captured>>

-----------------------------------------------------------------------------
\* The state handlers, gxfp_activate_ssm_handler, gxfp_wait_ssm_handler and
\* gxfp_capture_ssm_handler.

\* The deadline of the task passes: gxfp_task_expired from here on.
DeadlinePasses ==
  /\ HasDeadline(task)
  /\ ~expired
  /\ expired' = TRUE
  /\ UNCHANGED <<imageVars, task, ssmState, timeout, deactivating,
                 completeSent, captured>>

\* An I/O error, or the task's deadline, checked first and not checked.
RunAnyway == TRUE
InTime == ~expired

RunFails ==
  /\ Called("run")
  /\ At # "done" \/ ~InTime
  /\ ReturnCalling(<< <<"finished", "fatal">> >>)
  /\ UNCHANGED <<actionVars, deviceVars, warned, driverVars>>

\* fpi_ssm_next_state, or fpi_ssm_mark_completed from the last state.
RunAdvances ==
  /\ Called("run") /\ InTime
  /\ captured' = (captured \/ At = "store")
  /\ IF Last
     THEN ReturnCalling(<< <<"finished", "none">> >>) /\ UNCHANGED ssmState
     ELSE ReturnCalling(<< <<"run", "">> >>) /\ ssmState' = ssmState + 1
  /\ UNCHANGED <<actionVars, deviceVars, warned, task, timeout, expired,
                 deactivating, completeSent>>

\* gxfp_schedule_retry.
RunRetries ==
  /\ Called("run") /\ InTime
  /\ At \in Polling
  /\ timeout' = TRUE
  /\ Return
  /\ UNCHANGED <<actionVars, deviceVars, warned, task, ssmState, expired,
                 deactivating, completeSent, captured>>

\* on_device_timeout_jump_to_state.
RetryTimeout ==
  /\ timeout
  /\ timeout' = FALSE
  /\ Dispatch(<< <<"run", "">> >>)
  /\ UNCHANGED <<actionVars, deviceVars, warned, task, ssmState, expired,
                 deactivating, completeSent, captured>>

\* gxfp_task_finished, which forgets the machine; and one that does not.
RememberTask == UNCHANGED task
ForgetTask == task' = "none"

TaskFinished ==
  /\ Called("finished")
  /\ ForgetTask
  /\ IF deactivating
     THEN /\ completeSent' = TRUE
          /\ IF completeSent THEN Return
             ELSE ReturnCalling(<< <<"deactivateComplete", "">> >>)
          /\ UNCHANGED captured
     ELSE /\ ReturnCalling(
               IF Arg # "none" /\ task # "activate"
               THEN << <<"sessionError", Arg>> >>
               ELSE CASE task = "activate" -> << <<"activateComplete", Arg>> >>
                      [] task = "waitDown" -> << <<"reportFinger", "on">> >>
                      [] task = "waitUp" -> << <<"reportFinger", "off">> >>
                      [] task = "capture" /\ captured ->
                           << <<"imageCaptured", "">> >>
                      [] OTHER -> <<>>)
          /\ captured' = (captured /\ ~(task = "capture" /\ Arg = "none"))
          /\ UNCHANGED completeSent
  /\ UNCHANGED <<actionVars, deviceVars, warned, ssmState, timeout,
                 expired, deactivating>>

DriverCall ==
  \/ ImgOpen \/ ImgClose \/ Activate \/ StateChanged \/ DriverDeactivate
  \/ RunFails \/ RunAdvances \/ RunRetries \/ TaskFinished

-----------------------------------------------------------------------------
Init ==
  /\ ImageInit
  /\ task = "none" /\ ssmState = 1 /\ timeout = FALSE
  /\ expired = FALSE
  /\ deactivating = FALSE /\ completeSent = FALSE /\ captured = FALSE

\* What the application asks for.
Application ==
  /\ \/ RequestOpen \/ RequestClose \/ RequestCancel
     \/ RequestSuspend \/ RequestResume
     \/ \E a \in CaptureActions : Request(a)
  /\ UNCHANGED driverVars

\* What the main loop runs by itself.
Loop ==
  \/ (LayerCall \/ CancelInIdle \/ ReturnInIdle) /\ UNCHANGED driverVars
  \/ DriverCall
  \/ RetryTimeout

\* The extraction thread ends.
Scan == MinutiaeDetected /\ UNCHANGED driverVars

Next == Application \/ Loop \/ Scan \/ DeadlinePasses

Spec == Init /\ [][Next]_vars

\* The main loop runs its sources, in turn; the thread ends; time passes.
\* The retry timer is armed for 10 ms at a time, so idle sources run.
Fairness ==
  /\ WF_vars(Loop)
  /\ SF_vars(CancelInIdle /\ UNCHANGED driverVars)
  /\ SF_vars(Scan)
  /\ WF_vars(DeadlinePasses)

FairSpec == Spec /\ Fairness

=============================================================================
