---------------------------- MODULE TaskProtocol ----------------------------
(***************************************************************************)
(* The seam between the image-device layer and the sensor: which task the  *)
(* GXFP driver may run next (gxfp_activate, gxfp_change_state,             *)
(* gxfp_task_finished, gxfp_deactivate, gxfp_img_close).  A session is an  *)
(* activation, then a finger waited for, captured and waited to leave, as  *)
(* often as the action asks, until it is stopped.  GxfpDriver implements   *)
(* this protocol; SensorSession runs the tasks it allows on the sensor.    *)
(***************************************************************************)

VARIABLES
  isOpen,    \* the device is open
  active,    \* activated, and not being stopped
  due,       \* the task called for and not started, or "none"
  task       \* task_kind: the task that runs, or "none"

seamVars == <<isOpen, active, due, task>>

\* What a finished task leads to: more enrolment stages are asked for later.
After == [activate |-> "waitDown", waitDown |-> "capture",
          capture  |-> "waitUp",   waitUp   |-> "none"]

TaskInit == isOpen = FALSE /\ active = FALSE /\ due = "none" /\ task = "none"

AtRest == ~active /\ due = "none" /\ task = "none"

Open == ~isOpen /\ AtRest /\ isOpen' = TRUE /\ UNCHANGED <<active, due, task>>

Close == isOpen /\ AtRest /\ isOpen' = FALSE /\ UNCHANGED <<active, due, task>>

\* An action of the application begins, or an enrolment goes on.
CallFor(t) ==
  /\ isOpen /\ due = "none" /\ task = "none"
  /\ t = IF active THEN "waitDown" ELSE "activate"
  /\ due' = t
  /\ UNCHANGED <<isOpen, active, task>>

Start ==
  /\ task = "none" /\ due # "none"
  /\ task' = due /\ due' = "none"
  /\ UNCHANGED <<isOpen, active>>

\* An activation that cannot start.
Refuse ==
  /\ due = "activate"
  /\ due' = "none"
  /\ UNCHANGED <<isOpen, active, task>>

Running == task = "activate" \/ (active /\ task # "none")

\* A task ends well; any other end stops the session.
Done ==
  /\ Running
  /\ task' = "none" /\ due' = After[task] /\ active' = TRUE
  /\ UNCHANGED isOpen

Stop ==
  /\ active /\ active' = FALSE
  /\ due' = "none"
  /\ UNCHANGED <<isOpen, task>>

End ==
  /\ task # "none"
  /\ task' = "none" /\ due' = "none" /\ active' = FALSE
  /\ UNCHANGED isOpen

TaskNext ==
  \/ Open \/ Close \/ \E t \in DOMAIN After : CallFor(t)
  \/ Start \/ Refuse \/ Done \/ Stop \/ End

TaskSpec == TaskInit /\ [][TaskNext]_seamVars

=============================================================================
