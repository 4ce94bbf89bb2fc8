-------------------------- MODULE GxfpDriverProofs --------------------------
(***************************************************************************)
(* Proofs about the image-device layer and the GXFP driver together, for   *)
(* any number of enroll stages: the safety properties of GxfpDriverProps,  *)
(* from the inductive invariant IInv, and that the two implement both      *)
(* DeviceLifecycle, the application's view of them, and TaskProtocol, the  *)
(* sensor's.                                                               *)
(***************************************************************************)
EXTENDS GxfpDriverCalls

-----------------------------------------------------------------------------
\* The invariant.

\* A machine is in one of its states.
MachineInv == task # "none" => ssmState \in 1..Len(Machine(task))

IInv ==
  /\ TypeOK /\ CallInv /\ MachineInv /\ AskInv /\ FlowInv
  /\ NoCriticalWarning /\ EnrollsAllStages

LEMMA CallStep ==
  ASSUME IInv, [Next]_vars
  PROVE  CallInv'
<1> USE DEF IInv
<1>1. ASSUME Application
      PROVE  CallInv'
  BY <1>1, RequestOpenCalls, RequestCloseCalls, RequestCalls, CancelCalls
     DEF Application
<1>2. ASSUME LayerCall, UNCHANGED driverVars
      PROVE  CallInv'
  BY <1>2, OpenOrCloseCalls, ChangeStateCalls, DeactivateCalls, ActivateCompleteCalls,
     DeactivateCompleteCalls, EnrollMaybeAwaitOnCalls, ReportFingerCalls,
     ImageCapturedCalls, SessionErrorCalls, MaybeCompleteCalls DEF LayerCall
<1>3. ASSUME DriverCall
      PROVE  CallInv'
  BY <1>3, ImgOpenCalls, ImgCloseCalls, ActivateCalls, StateChangedCalls,
     DriverDeactivateCalls, RunCalls, TaskFinishedCalls DEF DriverCall
<1>4. ASSUME Loop
      PROVE  CallInv'
  BY <1>2, <1>3, <1>4, CancelInIdleCalls, ReturnInIdleCalls, RetryTimeoutCalls DEF Loop
<1> QED BY <1>1, <1>4, ScanCalls, IdleCalls DEF Next

LEMMA MachineStep ==
  ASSUME IInv, [Next]_vars
  PROVE  MachineInv'
<1> USE DEF IInv
<1>1. ASSUME NEW t \in Tasks
      PROVE  1 \in 1..Len(Machine(t))
  BY DEF Tasks, Machine
<1>2. ASSUME task' = task, ssmState' = ssmState
      PROVE  MachineInv'
  BY <1>2 DEF MachineInv
<1>3. ASSUME UNCHANGED driverVars
      PROVE  MachineInv'
  BY <1>2, <1>3 DEF driverVars, taskVars
<1>4. ASSUME NEW t \in Tasks, StartTask(t)
      PROVE  MachineInv'
  BY <1>1, <1>4 DEF StartTask, MachineInv
<1>5. CASE ImgClose \/ TaskFinished
  BY <1>5 DEF ImgClose, TaskFinished, ForgetTask, MachineInv
<1>6. CASE Activate
  BY <1>2, <1>4, <1>6 DEF Activate, Tasks, taskVars
<1>7. CASE StateChanged
  BY <1>2, <1>4, <1>7 DEF StateChanged, Tasks, TaskOf
<1>8. CASE RunAdvances
  <2>1. task \in Tasks /\ ssmState \in 1..Len(Machine(task))
    BY <1>8, WhenRun DEF RunAdvances, Activating, Tasked, StateOfTask, Tasks, MachineInv
  <2>2. /\ task' = task
        /\ IF Last THEN ssmState' = ssmState ELSE ssmState' = ssmState + 1
    BY <1>8 DEF RunAdvances
  <2>3. Len(Machine(task)) \in Nat
    BY <2>1 DEF Tasks, Machine
  <2> QED BY <2>1, <2>2, <2>3 DEF MachineInv, Last
<1>9. CASE DriverDeactivate \/ RunRetries \/ RetryTimeout \/ DeadlinePasses
  BY <1>2, <1>9 DEF DriverDeactivate, RunRetries, RetryTimeout, DeadlinePasses
<1>10. CASE ImgOpen \/ RunFails \/ UNCHANGED vars
  BY <1>3, <1>10 DEF ImgOpen, RunFails, vars
<1> QED BY <1>3, <1>5, <1>6, <1>7, <1>8, <1>9, <1>10
        DEF Next, Application, Loop, Scan, DriverCall

LEMMA AskStep ==
  ASSUME IInv, [Next]_vars
  PROVE  AskInv'
<1> USE DEF IInv, AskInv
<1>1. ASSUME UNCHANGED actionVars
      PROVE  AskInv'
  BY <1>1 DEF actionVars
<1>2. ASSUME UNCHANGED <<power, action, cancelled>>, Complete("ok") \/ Complete("error")
      PROVE  AskInv'
  BY <1>2 DEF Complete
<1>3. ASSUME UNCHANGED <<power, action, cancelled, returning, cancelIdle>>
      PROVE  AskInv'
  BY <1>3
<1>4. CASE RequestOpen \/ RequestClose
  <2>1. /\ action = "none" /\ power \notin {"cancelling", "suspended"}
        /\ action' \in {"open", "close"}
        /\ UNCHANGED <<power, cancelled, cancelIdle>>
    BY <1>4 DEF RequestOpen, RequestClose, Refused
  <2>2. ~cancelIdle
    BY <2>1, Zenon
  <2> QED BY <2>1, <2>2
<1>5. ASSUME NEW a \in CaptureActions, Request(a)
      PROVE  AskInv'
  <2>1. /\ action = "none" /\ power \notin {"cancelling", "suspended"}
        /\ action' = a /\ UNCHANGED <<power, cancelled>>
        /\ UNCHANGED cancelIdle \/ cancelIdle' = FALSE
    BY <1>5 DEF Request, Refused, Complete
  <2>2. ~cancelIdle
    BY <2>1, Zenon
  <2>3. a # "none"
    BY DEF CaptureActions, Matching
  <2> QED BY <2>1, <2>2, <2>3
<1>6. CASE RequestCancel \/ CancelInIdle \/ RequestResume
  <2>1. CASE RequestCancel
    BY <2>1 DEF RequestCancel
  <2>2. CASE CancelInIdle
    BY <2>2 DEF CancelInIdle
  <2>3. CASE RequestResume
    BY <2>3, Zenon DEF RequestResume
  <2> QED BY <1>6, <2>1, <2>2, <2>3
<1>7. CASE RequestSuspend
  BY <1>7 DEF RequestSuspend, SuspendCancels, CaptureActions, Matching
<1>8. CASE ReturnInIdle
  BY <1>8 DEF ReturnInIdle, AnswerSuspend
<1>9. CASE LayerCall
  BY <1>1, <1>2, <1>3, <1>9
     DEF LayerCall, OpenComplete, CloseComplete, ChangeState, Deactivate,
         ActivateComplete, DeactivateComplete, EnrollMaybeAwaitOn, ReportFinger,
         ImageCaptured, SessionError, MaybeComplete
<1>10. CASE DriverCall \/ RetryTimeout \/ DeadlinePasses \/ UNCHANGED vars
  BY <1>1, <1>10
     DEF DriverCall, ImgOpen, ImgClose, Activate, StateChanged, DriverDeactivate,
         RunFails, RunAdvances, RunRetries, TaskFinished, RetryTimeout,
         DeadlinePasses, vars, imageVars
<1>11. CASE Scan
  BY <1>1, <1>3, <1>11
     DEF Scan, MinutiaeDetected, ScanCancelled, ScanForCapture, ScanForEnroll,
         ScanForMatch
<1> QED BY <1>4, <1>5, <1>6, <1>7, <1>8, <1>9, <1>10, <1>11
        DEF Next, Application, Loop

LEMMA FlowStep ==
  ASSUME IInv, [Next]_vars
  PROVE  FlowInv'
<1> USE DEF IInv
<1>1. ASSUME UNCHANGED <<active, fingerPresent, scanActive, enrollStage>>,
             action' = action \/ action' # "enroll"
      PROVE  FlowInv'
  BY <1>1 DEF FlowInv, More
<1>2. ASSUME UNCHANGED <<action, deviceVars>>
      PROVE  FlowInv'
  BY <1>1, <1>2 DEF deviceVars, flowVars
<1>3. CASE RequestOpen \/ RequestClose \/ ReturnInIdle
  BY <1>1, <1>3 DEF RequestOpen, RequestClose, ReturnInIdle, deviceVars, flowVars
<1>4. ASSUME NEW a \in CaptureActions, Request(a)
      PROVE  FlowInv'
  <2>1. MainLoop /\ action = "none" /\ UNCHANGED <<active, fingerPresent, scanActive>>
    BY <1>4 DEF Request, Refused, Dispatch
  <2>2. ~scanActive
    BY <2>1, InLoop, QuietCases DEF Settled
  <2> QED BY <2>1, <2>2 DEF FlowInv
<1>5. CASE ReportFinger
  <2>1. active
    BY <1>5, WhenFinger DEF ReportFinger, Session
  <2> QED BY <1>5, <2>1 DEF ReportFinger, FlowInv, More, actionVars
<1>6. CASE ImageCaptured
  <2>1. More
    BY <1>6, WhenFinger DEF ImageCaptured
  <2> QED BY <1>6, <2>1 DEF ImageCaptured, FlowInv, More, actionVars
<1>7. CASE ActivateComplete \/ DeactivateComplete
  <2>1. /\ UNCHANGED <<action, scanActive, enrollStage>>
        /\ \/ UNCHANGED <<active, fingerPresent>>
           \/ active' = TRUE
           \/ fingerPresent' = FALSE
    BY <1>7 DEF ActivateComplete, DeactivateComplete, actionVars, flowVars
  <2> QED BY <2>1 DEF FlowInv, More
<1>8. CASE \/ OpenComplete \/ CloseComplete \/ ChangeState \/ Deactivate
           \/ EnrollMaybeAwaitOn \/ SessionError \/ MaybeComplete
  BY <1>1, <1>8
     DEF OpenComplete, CloseComplete, ChangeState, Deactivate, EnrollMaybeAwaitOn,
         SessionError, MaybeComplete, actionVars, deviceVars, flowVars
<1>9. CASE RequestCancel \/ RequestSuspend \/ RequestResume \/ CancelInIdle
  BY <1>2, <1>9 DEF RequestCancel, RequestSuspend, RequestResume, CancelInIdle
<1>10. CASE DriverCall \/ RetryTimeout \/ DeadlinePasses \/ UNCHANGED vars
  BY <1>2, <1>10
     DEF DriverCall, ImgOpen, ImgClose, Activate, StateChanged, DriverDeactivate,
         RunFails, RunAdvances, RunRetries, TaskFinished, RetryTimeout,
         DeadlinePasses, vars, imageVars, actionVars
<1>11. CASE Scan
  <2>1. UNCHANGED <<active, fingerPresent>> /\ scanActive' = FALSE
    BY <1>11
       DEF Scan, MinutiaeDetected, ScanCancelled, ScanForCapture, ScanForEnroll,
           ScanForMatch
  <2> QED BY <2>1 DEF FlowInv
<1> QED BY <1>3, <1>4, <1>5, <1>6, <1>7, <1>8, <1>9, <1>10, <1>11
        DEF Next, Application, Loop, LayerCall

LEMMA WarnedStep ==
  ASSUME IInv, [Next]_vars
  PROVE  NoCriticalWarning'
<1> USE DEF IInv
<1>1. ASSUME UNCHANGED warned
      PROVE  NoCriticalWarning'
  BY <1>1 DEF NoCriticalWarning
<1>2. ASSUME NEW w, NEW condition, Warn(w, condition),
             condition => w \notin {"critical", "assert", "secondScan"}
      PROVE  NoCriticalWarning'
  BY <1>2 DEF NoCriticalWarning, Warn
<1>3. CASE RequestClose
  <2>1. MainLoop /\ action = "none" /\ Warn("assert", active)
    BY <1>3 DEF RequestClose, Refused, Dispatch
  <2>2. ~active
    BY <2>1, InLoop, QuietCases DEF Settled, Rest
  <2> QED BY <1>2, <2>1, <2>2
<1>4. ASSUME NEW a \in CaptureActions, Request(a)
      PROVE  NoCriticalWarning'
  <2>1. /\ MainLoop /\ action = "none"
        /\ UNCHANGED warned \/ Warn("assert", fingerPresent \/ scanActive \/ active)
    BY <1>4 DEF Request, Refused, Dispatch
  <2>2. ~active /\ ~scanActive /\ ~fingerPresent
    BY <2>1, InLoop, QuietCases DEF Settled, Rest, FlowInv
  <2> QED BY <1>1, <1>2, <2>1, <2>2
<1>5. CASE ChangeState
  BY <1>2, <1>5 DEF ChangeState
<1>6. CASE ActivateComplete
  <2>1. ~active /\ state = "activating"
    BY <1>6, WhenActivate DEF ActivateComplete, Settled, Rest
  <2> QED BY <1>1, <1>6, <2>1 DEF ActivateComplete
<1>7. CASE DeactivateComplete
  <2>1. active /\ state = "deactivating"
    BY <1>7, WhenEnding DEF DeactivateComplete, Halting
  <2> QED BY <1>1, <1>7, <2>1 DEF DeactivateComplete
<1>8. CASE ImageCaptured
  <2>1. state = "capture" /\ action \in CaptureActions /\ ~scanActive
    BY <1>8, WhenFinger DEF ImageCaptured, Session, UnderWay
  <2> QED BY <1>2, <1>8, <2>1 DEF ImageCaptured
<1>9. CASE SessionError
  <2>1. active /\ state # "inactive"
    BY <1>9, WhenReporting DEF SessionError, Session, AnyOf
  <2> QED BY <1>2, <1>9, <2>1 DEF SessionError
<1>10. CASE ImgClose \/ DriverDeactivate
  BY <1>1, <1>2, <1>10 DEF ImgClose, DriverDeactivate
<1>11. CASE \/ RequestOpen \/ RequestCancel \/ RequestSuspend \/ RequestResume
            \/ CancelInIdle \/ ReturnInIdle \/ OpenComplete \/ CloseComplete
            \/ Deactivate \/ EnrollMaybeAwaitOn \/ ReportFinger \/ MaybeComplete
  BY <1>1, <1>11
     DEF RequestOpen, RequestCancel, RequestSuspend, RequestResume, CancelInIdle,
         ReturnInIdle, OpenComplete, CloseComplete, Deactivate, EnrollMaybeAwaitOn,
         ReportFinger, MaybeComplete
<1>12. CASE \/ ImgOpen \/ Activate \/ StateChanged \/ RunFails \/ RunAdvances
            \/ RunRetries \/ TaskFinished \/ RetryTimeout \/ DeadlinePasses
            \/ UNCHANGED vars
  BY <1>1, <1>12
     DEF ImgOpen, Activate, StateChanged, RunFails, RunAdvances, RunRetries,
         TaskFinished, RetryTimeout, DeadlinePasses, vars, imageVars
<1>13. CASE Scan
  BY <1>1, <1>13
     DEF Scan, MinutiaeDetected, ScanCancelled, ScanForCapture, ScanForEnroll,
         ScanForMatch
<1> QED BY <1>3, <1>4, <1>5, <1>6, <1>7, <1>8, <1>9, <1>10, <1>11, <1>12, <1>13
        DEF Next, Application, Loop, LayerCall, DriverCall

LEMMA EnrollStep ==
  ASSUME IInv, [Next]_vars
  PROVE  EnrollsAllStages'
<1> USE DEF IInv
<1>1. ASSUME UNCHANGED <<action, returning, enrollStage>>
      PROVE  EnrollsAllStages'
  BY <1>1 DEF EnrollsAllStages
<1>2. ASSUME action' # "enroll" \/ returning' # "ok"
      PROVE  EnrollsAllStages'
  BY <1>2 DEF EnrollsAllStages
<1>3. CASE RequestOpen \/ RequestClose \/ ReturnInIdle
  BY <1>2, <1>3 DEF RequestOpen, RequestClose, ReturnInIdle
<1>4. ASSUME NEW a \in CaptureActions, Request(a)
      PROVE  EnrollsAllStages'
  <2>1. /\ MainLoop /\ action = "none"
        /\ returning' = returning \/ returning' = "error"
    BY <1>4 DEF Request, Refused, Dispatch, Complete
  <2>2. returning = "no"
    BY <2>1, InLoop, QuietCases
  <2> QED BY <1>2, <2>1, <2>2
<1>5. CASE OpenComplete \/ CloseComplete
  <2>1. action \in {"open", "close"} /\ action' = action
    BY <1>5, WhenOpenOrClose DEF OpenComplete, CloseComplete
  <2> QED BY <1>2, <2>1
<1>6. CASE ActivateComplete
  <2>1. UNCHANGED <<action, enrollStage>> /\ (UNCHANGED returning \/ returning' = "error")
    BY <1>6 DEF ActivateComplete, Complete, flowVars
  <2> QED BY <1>1, <1>2, <2>1
<1>7. CASE MaybeComplete
  <2>1. UNCHANGED <<action, enrollStage>>
    BY <1>7 DEF MaybeComplete
  <2>2. CASE StillBusy
    BY <1>1, <1>7, <2>1, <2>2 DEF MaybeComplete
  <2>3. CASE ~StillBusy
    <3>1. Stopped
      <4>1. ~active
        BY <2>3 DEF StillBusy
      <4> QED BY <1>7, <4>1, WhenReporting DEF MaybeComplete, Tasked, Session
    <3>2. returning' = "ok" => actionError = "none" /\ ~cancelled
      BY <1>7, <2>3 DEF MaybeComplete, Complete, FirstError
    <3>3. action = "enroll" /\ returning' = "ok" => enrollStage = NumStages
      BY <3>1, <3>2 DEF Stopped, Reason
    <3> QED BY <2>1, <3>3 DEF EnrollsAllStages
  <2> QED BY <2>2, <2>3
<1>8. CASE \/ RequestCancel \/ RequestSuspend \/ RequestResume \/ CancelInIdle
           \/ ChangeState \/ Deactivate \/ DeactivateComplete \/ EnrollMaybeAwaitOn
           \/ ReportFinger \/ ImageCaptured \/ SessionError
  BY <1>1, <1>8
     DEF RequestCancel, RequestSuspend, RequestResume, CancelInIdle, ChangeState,
         Deactivate, DeactivateComplete, EnrollMaybeAwaitOn, ReportFinger,
         ImageCaptured, SessionError, actionVars, deviceVars, flowVars
<1>9. CASE DriverCall \/ RetryTimeout \/ DeadlinePasses \/ UNCHANGED vars
  BY <1>1, <1>9
     DEF DriverCall, ImgOpen, ImgClose, Activate, StateChanged, DriverDeactivate,
         RunFails, RunAdvances, RunRetries, TaskFinished, RetryTimeout,
         DeadlinePasses, vars, imageVars, actionVars, deviceVars, flowVars
<1>10. CASE Scan
  <2>1. MainLoop /\ scanActive /\ returning' = returning
    BY <1>10
       DEF Scan, MinutiaeDetected, ScanCancelled, ScanForCapture, ScanForEnroll,
           ScanForMatch, Dispatch, actionVars
  <2>2. returning = "no"
    BY <2>1, InLoop, QuietCases DEF Tasked, Pausing, Session, Stopped, UnderWay
  <2> QED BY <1>2, <2>1, <2>2
<1> QED BY <1>3, <1>4, <1>5, <1>6, <1>7, <1>8, <1>9, <1>10
        DEF Next, Application, Loop, LayerCall

\* The values of the variables: of the action, of the layer, of the driver.
LEMMA ActionTypes ==
  ASSUME IInv, [Next]_vars
  PROVE  (/\ power \in {"awake", "cancelling", "waiting", "suspended", "unmarked"}
          /\ isOpen \in BOOLEAN /\ cancelled \in BOOLEAN /\ cancelIdle \in BOOLEAN
          /\ action \in CaptureActions \union {"none", "open", "close"}
          /\ returning \in {"no", "ok", "error"}
          /\ reported \in {"no", "match", "retry"})'
<1> USE DEF IInv, TypeOK
<1> DEFINE Typed ==
      /\ power \in {"awake", "cancelling", "waiting", "suspended", "unmarked"}
      /\ isOpen \in BOOLEAN /\ cancelled \in BOOLEAN /\ cancelIdle \in BOOLEAN
      /\ action \in CaptureActions \union {"none", "open", "close"}
      /\ returning \in {"no", "ok", "error"}
      /\ reported \in {"no", "match", "retry"}
<1>1. ASSUME UNCHANGED <<isOpen, power, action, cancelled>>,
             reported' = reported \/ reported' \in {"match", "retry"},
             UNCHANGED <<returning, cancelIdle>> \/ Complete("ok") \/ Complete("error")
      PROVE  Typed'
  BY <1>1 DEF Complete
<1>2. ASSUME UNCHANGED actionVars
      PROVE  Typed'
  BY <1>1, <1>2 DEF actionVars
<1>3. CASE RequestOpen \/ RequestClose
  BY <1>3 DEF RequestOpen, RequestClose
<1>4. ASSUME NEW a \in CaptureActions, Request(a)
      PROVE  Typed'
  BY <1>4 DEF Request, Complete
<1>5. CASE RequestCancel \/ CancelInIdle \/ RequestResume
  BY <1>5 DEF RequestCancel, CancelInIdle, RequestResume
<1>6. CASE RequestSuspend
  BY <1>6 DEF RequestSuspend, SuspendCancels
<1>7. CASE ReturnInIdle
  BY <1>7 DEF ReturnInIdle, AnswerSuspend
<1>8. CASE LayerCall
  BY <1>1, <1>2, <1>8
     DEF LayerCall, OpenComplete, CloseComplete, ChangeState, Deactivate,
         ActivateComplete, DeactivateComplete, EnrollMaybeAwaitOn, ReportFinger,
         ImageCaptured, SessionError, MaybeComplete
<1>9. CASE DriverCall \/ RetryTimeout \/ DeadlinePasses \/ UNCHANGED vars
  BY <1>2, <1>9
     DEF DriverCall, ImgOpen, ImgClose, Activate, StateChanged, DriverDeactivate,
         RunFails, RunAdvances, RunRetries, TaskFinished, RetryTimeout,
         DeadlinePasses, vars, imageVars
<1>10. CASE Scan
  BY <1>1, <1>2, <1>10
     DEF Scan, MinutiaeDetected, ScanCancelled, ScanForCapture, ScanForEnroll,
         ScanForMatch
<1> QED BY <1>3, <1>4, <1>5, <1>6, <1>7, <1>8, <1>9, <1>10
        DEF Next, Application, Loop

LEMMA LayerTypes ==
  ASSUME IInv, [Next]_vars
  PROVE  (/\ state \in States /\ active \in BOOLEAN /\ fingerPresent \in BOOLEAN
          /\ enrollStage \in 0..NumStages /\ scanActive \in BOOLEAN
          /\ actionError \in Errors /\ captureImage \in BOOLEAN)'
<1> USE DEF IInv, TypeOK
<1> DEFINE Typed ==
      /\ state \in States /\ active \in BOOLEAN /\ fingerPresent \in BOOLEAN
      /\ enrollStage \in 0..NumStages /\ scanActive \in BOOLEAN
      /\ actionError \in Errors /\ captureImage \in BOOLEAN
<1>1. ASSUME UNCHANGED deviceVars
      PROVE  Typed'
  BY <1>1 DEF deviceVars, flowVars
<1>2. ASSUME state' \in States, active' \in BOOLEAN, UNCHANGED flowVars
      PROVE  Typed'
  BY <1>2 DEF flowVars
<1>3. ASSUME UNCHANGED <<state, enrollStage, actionError, captureImage>>,
             UNCHANGED active \/ active' = FALSE,
             fingerPresent' \in BOOLEAN, scanActive' \in BOOLEAN
      PROVE  Typed'
  BY <1>3
<1>4. ASSUME NEW a \in CaptureActions, Request(a)
      PROVE  Typed'
  <2>1. 0 \in 0..NumStages
    BY NumStagesAssumption
  <2>2. enrollStage' = enrollStage \/ enrollStage' = 0
    BY <1>4 DEF Request
  <2>3. UNCHANGED <<state, active, fingerPresent, scanActive, actionError, captureImage>>
    BY <1>4 DEF Request
  <2> QED BY <2>1, <2>2, <2>3
<1>5. CASE \/ RequestOpen \/ RequestClose \/ RequestCancel \/ RequestSuspend
           \/ RequestResume \/ CancelInIdle \/ ReturnInIdle
  BY <1>1, <1>5
     DEF RequestOpen, RequestClose, RequestCancel, RequestSuspend, RequestResume,
         CancelInIdle, ReturnInIdle
<1>6. CASE OpenComplete \/ CloseComplete \/ ActivateComplete
  BY <1>2, <1>6 DEF OpenComplete, CloseComplete, ActivateComplete, States
<1>7. CASE ChangeState
  <2>1. Arg \in States
    <3>1. PICK s \in States : todo = << To(s) >> \/ \E d : todo = << To(s), d >>
      BY <1>7, WhenChangeState DEF ChangeState
    <3> QED BY <3>1, CalleeOne, CalleeTwo DEF To
  <2> QED BY <1>2, <1>7, <2>1 DEF ChangeState
<1>8. CASE Deactivate \/ EnrollMaybeAwaitOn \/ SessionError
  BY <1>1, <1>8 DEF Deactivate, EnrollMaybeAwaitOn, SessionError
<1>9. CASE DeactivateComplete \/ ReportFinger \/ ImageCaptured
  BY <1>3, <1>9 DEF DeactivateComplete, ReportFinger, ImageCaptured
<1>10. CASE MaybeComplete
  <2>1. Arg \in Errors
    <3>1. PICK err \in Errors :
            \/ todo = << Call("maybeComplete", err) >>
            \/ todo = << Call("maybeComplete", err), Call("deactivate", "") >>
      BY <1>10, WhenReporting DEF MaybeComplete
    <3> QED BY <3>1, CalleeOne, CalleeTwo
  <2>2. actionError' \in Errors /\ captureImage' \in BOOLEAN
    BY <1>10, <2>1 DEF MaybeComplete, FirstError, Errors
  <2> QED BY <1>10, <2>2 DEF MaybeComplete
<1>11. CASE DriverCall \/ RetryTimeout \/ DeadlinePasses \/ UNCHANGED vars
  BY <1>1, <1>11
     DEF DriverCall, ImgOpen, ImgClose, Activate, StateChanged, DriverDeactivate,
         RunFails, RunAdvances, RunRetries, TaskFinished, RetryTimeout,
         DeadlinePasses, vars, imageVars
<1>12. CASE ScanForEnroll
  <2>1. enrollStage < NumStages
    BY <1>12 DEF ScanForEnroll, FlowInv, More
  <2>2. enrollStage' \in 0..NumStages
    <3>1. enrollStage' = enrollStage \/ enrollStage' = enrollStage + 1
      BY <1>12 DEF ScanForEnroll
    <3> QED BY <2>1, <3>1, NumStagesAssumption
  <2> QED BY <1>12, <2>2 DEF ScanForEnroll
<1>13. CASE ScanCancelled \/ ScanForCapture \/ ScanForMatch
  BY <1>13 DEF ScanCancelled, ScanForCapture, ScanForMatch
<1> QED BY <1>4, <1>5, <1>6, <1>7, <1>8, <1>9, <1>10, <1>11, <1>12, <1>13
        DEF Next, Application, Loop, LayerCall, Scan, MinutiaeDetected

LEMMA DriverTypes ==
  ASSUME IInv, [Next]_vars
  PROVE  (/\ task \in Tasks \union {"none"} /\ ssmState \in 1..7
          /\ timeout \in BOOLEAN /\ expired \in BOOLEAN
          /\ deactivating \in BOOLEAN /\ completeSent \in BOOLEAN
          /\ captured \in BOOLEAN)'
<1> USE DEF IInv, TypeOK
<1> DEFINE Typed ==
      /\ task \in Tasks \union {"none"} /\ ssmState \in 1..7
      /\ timeout \in BOOLEAN /\ expired \in BOOLEAN
      /\ deactivating \in BOOLEAN /\ completeSent \in BOOLEAN
      /\ captured \in BOOLEAN
<1>1. ASSUME UNCHANGED driverVars
      PROVE  Typed'
  BY <1>1 DEF driverVars, taskVars
<1>2. ASSUME UNCHANGED taskVars, deactivating' \in BOOLEAN, completeSent' \in BOOLEAN,
             captured' \in BOOLEAN
      PROVE  Typed'
  BY <1>2 DEF taskVars
<1>3. ASSUME NEW t \in Tasks, StartTask(t), UNCHANGED timeout,
             deactivating' \in BOOLEAN, completeSent' \in BOOLEAN,
             captured' \in BOOLEAN
      PROVE  Typed'
  <2>1. task' = t /\ ssmState' = 1 /\ expired' = FALSE
    BY <1>3 DEF StartTask
  <2>2. ssmState' \in 1..7
    BY <2>1
  <2> QED BY <1>3, <2>1, <2>2
<1>4. CASE ImgClose
  BY <1>4 DEF ImgClose
<1>5. CASE Activate
  BY <1>2, <1>3, <1>5
     DEF Activate, StopsDeactivating, NotSentYet, taskVars, Tasks
<1>6. CASE StateChanged
  <2>1. UNCHANGED <<timeout, deactivating, completeSent, captured>>
    BY <1>6 DEF StateChanged
  <2>2. CASE UNCHANGED <<task, ssmState, expired>>
    BY <1>2, <2>1, <2>2 DEF taskVars
  <2>3. CASE Arg \in DOMAIN TaskOf /\ StartTask(TaskOf[Arg])
    <3>1. TaskOf[Arg] \in Tasks
      BY <2>3 DEF TaskOf, Tasks
    <3> QED BY <1>3, <2>1, <2>3, <3>1
  <2> QED BY <1>6, <2>2, <2>3 DEF StateChanged
<1>7. CASE DriverDeactivate
  BY <1>7 DEF DriverDeactivate, CancelClearsTimeout
<1>8. CASE RunAdvances
  <2>1. task \in Tasks
    BY <1>8, WhenRun DEF RunAdvances, Activating, Tasked, StateOfTask, Tasks
  <2>2. ssmState' \in 1..7
    <3>1. ssmState' \in 1..Len(Machine(task))
      BY <1>8, <2>1, MachineStep DEF RunAdvances, MachineInv, Tasks
    <3>2. Len(Machine(task)) = 3 \/ Len(Machine(task)) = 7
      BY <2>1 DEF Tasks, Machine
    <3>3. ssmState' \in 1..3 \/ ssmState' \in 1..7
      BY <3>1, <3>2, Zenon
    <3> QED BY <3>3
  <2>3. captured' \in BOOLEAN
    BY <1>8 DEF RunAdvances
  <2> QED BY <1>8, <2>2, <2>3 DEF RunAdvances
<1>9. CASE RunRetries \/ RetryTimeout \/ DeadlinePasses
  BY <1>9 DEF RunRetries, RetryTimeout, DeadlinePasses
<1>10. CASE TaskFinished
  BY <1>10 DEF TaskFinished, ForgetTask
<1>11. CASE ImgOpen \/ RunFails \/ Application \/ Scan \/ UNCHANGED vars
  BY <1>1, <1>11 DEF ImgOpen, RunFails, Application, Scan, vars
<1> QED BY <1>1, <1>4, <1>5, <1>6, <1>7, <1>8, <1>9, <1>10, <1>11
        DEF Next, Loop, DriverCall

\* The invariant holds at the start and through every step of the layer, the
\* driver, the application, the scan and the clock.
THEOREM Invariance == Spec => []IInv
<1>1. Init => IInv
  <2> SUFFICES ASSUME Init PROVE IInv
    OBVIOUS
  <2> USE DEF Init, ImageInit
  <2>1. TypeOK
    <3>1. enrollStage \in 0..NumStages
      BY NumStagesAssumption
    <3>2. ssmState \in 1..7
      OBVIOUS
    <3>3. action \in CaptureActions \union {"none", "open", "close"}
      OBVIOUS
    <3>4. task \in Tasks \union {"none"}
      OBVIOUS
    <3> QED BY <3>1, <3>2, <3>3, <3>4 DEF TypeOK, States, Errors
  <2>2. CallInv
    BY DEF CallInv, Quiet, AtHome, Settled, Rest, Free
  <2>3. MachineInv /\ AskInv /\ FlowInv
    BY DEF MachineInv, AskInv, FlowInv
  <2>4. NoCriticalWarning /\ EnrollsAllStages
    BY DEF NoCriticalWarning, EnrollsAllStages
  <2> QED BY <2>1, <2>2, <2>3, <2>4 DEF IInv
<1>2. IInv /\ [Next]_vars => IInv'
  <2> SUFFICES ASSUME IInv, [Next]_vars PROVE IInv'
    OBVIOUS
  <2>1. TypeOK'
    BY ActionTypes, LayerTypes, DriverTypes DEF TypeOK
  <2> QED BY <2>1, CallStep, MachineStep, AskStep, FlowStep, WarnedStep, EnrollStep
          DEF IInv
<1> QED BY <1>1, <1>2, PTL DEF Spec

\* Every variable of the layer and of the driver keeps to its values.
THEOREM TypeCorrect == Spec => []TypeOK
<1>1. IInv => TypeOK
  BY DEF IInv
<1> QED BY <1>1, Invariance, PTL

\* Between dispatches the task is the one the state of the layer asks for,
\* and the retry timer has a task to call back (gxfp_start_wait,
\* gxfp_cancel_task).
THEOREM TaskFollowsStateHolds == Spec => []TaskFollowsState
<1>1. IInv => TaskFollowsState
  <2> SUFFICES ASSUME IInv, todo = <<>>
               PROVE  /\ timeout => task # "none"
                      /\ task \in DOMAIN StateOfTask =>
                           active /\ state = StateOfTask[task]
                      /\ task = "activate" => ~active /\ state = "activating"
                      /\ active /\ state # "idle" => task # "none"
                      /\ active => state \notin {"inactive", "activating",
                                                 "deactivating"}
    BY DEF TaskFollowsState, Waiting
  <2>1. Quiet
    BY InLoop DEF IInv, MainLoop
  <2>2. CASE AtHome \/ Ended \/ Stopped
    BY <2>2 DEF AtHome, Ended, Stopped, Settled, Rest, Free, StateOfTask
  <2>3. CASE Activating
    BY <2>3 DEF Activating, StateOfTask
  <2>4. CASE Tasked
    BY <2>4 DEF Tasked, StateOfTask
  <2>5. CASE Pausing
    BY <2>5 DEF Pausing, Session, Free, StateOfTask
  <2> QED BY <2>1, <2>2, <2>3, <2>4, <2>5 DEF Quiet
<1> QED BY <1>1, Invariance, PTL

\* No assertion fails, no g_return_if_fail is hit, and no scan is started
\* while another one runs.
THEOREM NoCriticalWarningHolds == Spec => []NoCriticalWarning
<1>1. IInv => NoCriticalWarning
  BY DEF IInv
<1> QED BY <1>1, Invariance, PTL

\* A verify, identify or capture under way always has a task or a scan to
\* take it further.
THEOREM NothingLostHolds == Spec => []NothingLost
<1>1. IInv => NothingLost
  <2> SUFFICES ASSUME IInv, todo = <<>>, action \in CaptureActions \ {"enroll"},
                      returning = "no"
               PROVE  task # "none" \/ scanActive
    BY DEF NothingLost, Waiting
  <2>1. \/ Activating \/ Tasked \/ Pausing
        \/ Stopped /\ Expects
    BY InLoop, QuietCases DEF IInv, MainLoop, CaptureActions, Matching
  <2> QED BY <2>1 DEF Activating, Tasked, Pausing, Expects, StateOfTask
<1> QED BY <1>1, Invariance, PTL

\* An enrolment that succeeds has all its stages scanned, however many there
\* are (fp_image_device_maybe_complete_action).
THEOREM EnrollsAllStagesHolds == Spec => []EnrollsAllStages
<1>1. IInv => EnrollsAllStages
  BY DEF IInv
<1> QED BY <1>1, Invariance, PTL

\* A device marked suspended is idle: a suspend that found an action is
\* answered when its task and its scan are gone (fpi_device_suspend_complete).
THEOREM SuspendedIdleHolds == Spec => []SuspendedIdle
<1>1. IInv => SuspendedIdle
  <2> SUFFICES ASSUME IInv PROVE SuspendedIdle
    OBVIOUS
  <2>1. /\ power = "suspended" => action = "none"
        /\ power = "cancelling" => action \in CaptureActions
    BY DEF IInv, AskInv
  <2>2. action = "none" => Settled
    <3>1. action = "none" => ~UnderWay
      BY DEF UnderWay, CaptureActions, Matching
    <3>2. Activating \/ Tasked \/ Pausing \/ Halting \/ Stopped => UnderWay
      BY DEF Activating, Tasked, Pausing, Session, Halting, Stopped
    <3>3. Quiet \/ OpenOrClose => UnderWay \/ Settled
      BY <3>2 DEF Quiet, AtHome, Ended, OpenOrClose
    <3>4. Starting \/ Running \/ ToFinger \/ FromFinger \/ Stalling \/ Ending => UnderWay
      BY <3>2 DEF Starting, Running, ToFinger, FromFinger, Session, Stalling, Ending
    <3>5. Reporting => UnderWay \/ Ended
      BY <3>2 DEF Reporting, Session
    <3>6. CallInv
      BY DEF IInv
    <3> QED BY <3>1, <3>3, <3>4, <3>5, <3>6 DEF CallInv, Ended
  <2> QED BY <2>1, <2>2 DEF SuspendedIdle, Settled, Rest, Free
<1> QED BY <1>1, Invariance, PTL

-----------------------------------------------------------------------------
\* The layer and the driver keep the contract of DeviceLifecycle: each step
\* is a request, work for the action, its result, its return, or nothing.

Busy == active \/ scanActive \/ task # "none"

LEMMA WorkOrNothing ==
  ASSUME TypeOK', UnderWay, UNCHANGED <<isOpen, action, returning>>
  PROVE  Lifecycle!Next
<1>1. (active \/ scanActive \/ task # "none")' \in BOOLEAN
  OBVIOUS
<1> QED BY <1>1 DEF Lifecycle!Next, Lifecycle!Work, UnderWay

LEMMA Nothing ==
  ASSUME UNCHANGED <<isOpen, action, returning, active, scanActive, task>>
  PROVE  UNCHANGED Lifecycle!lifeVars
BY DEF Lifecycle!lifeVars

LEMMA Decided ==
  ASSUME action # "none", returning = "no", ~Busy,
         Complete("ok") \/ Complete("error"),
         UNCHANGED <<isOpen, action, active, scanActive, task>>
  PROVE  Lifecycle!Next
BY DEF Lifecycle!Next, Lifecycle!Decide, Busy, Complete

LEMMA LifecycleStep ==
  ASSUME IInv, IInv', [Next]_vars
  PROVE  [Lifecycle!Next]_Lifecycle!lifeVars
<1> USE DEF IInv
<1>1. Settled => ~Busy
  BY DEF Settled, Rest, Free, Busy
<1>2. CASE Application
  <2>1. CASE RequestOpen
    <3>1. MainLoop /\ action = "none"
      BY <2>1 DEF RequestOpen, Refused, Dispatch
    <3>2. returning = "no" /\ ~Busy
      BY <1>1, <3>1, InLoop, QuietCases
    <3>3. Lifecycle!Request("open")
      BY <1>2, <2>1, <3>1, <3>2
         DEF Application, RequestOpen, Lifecycle!Request, Busy, deviceVars, flowVars,
             driverVars, taskVars
    <3> QED BY <3>3 DEF Lifecycle!Next
  <2>2. CASE RequestClose
    <3>1. MainLoop /\ action = "none"
      BY <2>2 DEF RequestClose, Refused, Dispatch
    <3>2. returning = "no" /\ ~Busy
      BY <1>1, <3>1, InLoop, QuietCases
    <3>3. Lifecycle!Request("close")
      BY <1>2, <2>2, <3>1, <3>2
         DEF Application, RequestClose, Lifecycle!Request, Busy, deviceVars, flowVars,
             driverVars, taskVars
    <3> QED BY <3>3 DEF Lifecycle!Next
  <2>3. ASSUME NEW a \in CaptureActions, Request(a)
        PROVE  Lifecycle!Next
    <3>1. /\ MainLoop /\ action = "none" /\ action' = a /\ isOpen
          /\ UNCHANGED <<isOpen, active, scanActive>>
          /\ UNCHANGED returning \/ returning' = "error"
      BY <2>3 DEF Request, Refused, Dispatch, Complete
    <3>2. returning = "no" /\ ~Busy
      BY <1>1, <3>1, InLoop, QuietCases
    <3>3. UNCHANGED task /\ a # "open"
      BY <1>2 DEF Application, driverVars, taskVars, CaptureActions, Matching
    <3>4. Lifecycle!Request(a)
      BY <3>1, <3>2, <3>3 DEF Lifecycle!Request, Busy
    <3> QED BY <3>4 DEF Lifecycle!Next
  <2>4. CASE RequestCancel \/ RequestSuspend \/ RequestResume
    BY <1>2, <2>4, Nothing
       DEF Application, RequestCancel, RequestSuspend, RequestResume, deviceVars,
           flowVars, driverVars, taskVars
  <2> QED BY <1>2, <2>1, <2>2, <2>3, <2>4 DEF Application
<1>3. CASE LayerCall /\ UNCHANGED driverVars
  <2>1. UNCHANGED task
    BY <1>3 DEF driverVars, taskVars
  <2>2. CASE OpenComplete \/ CloseComplete
    <3>1. action # "none" /\ returning = "no" /\ ~Busy
      BY <1>1, <2>2, WhenOpenOrClose DEF OpenComplete, CloseComplete
    <3>2. /\ Complete("ok") \/ Complete("error")
          /\ UNCHANGED <<isOpen, action, active, scanActive>>
      BY <2>2 DEF OpenComplete, CloseComplete, flowVars
    <3> QED BY <2>1, <3>1, <3>2, Decided
  <2>3. CASE ActivateComplete
    <3>1. UnderWay /\ ~Busy
      BY <1>1, <2>3, WhenActivate DEF ActivateComplete
    <3>2. action # "none" /\ returning = "no"
      BY <3>1 DEF UnderWay, CaptureActions, Matching
    <3>3. \/ Complete("error") /\ UNCHANGED active
          \/ UNCHANGED returning
      BY <2>3 DEF ActivateComplete
    <3>4. UNCHANGED <<isOpen, action, scanActive>>
      BY <2>3 DEF ActivateComplete, flowVars
    <3> QED BY <2>1, <3>1, <3>2, <3>3, <3>4, Decided, WorkOrNothing
  <2>4. CASE DeactivateComplete \/ ImageCaptured
    <3>1. UnderWay
      BY <2>4, WhenEnding, WhenFinger
         DEF DeactivateComplete, ImageCaptured, Halting, Session
    <3> QED BY <2>4, <3>1, WorkOrNothing DEF DeactivateComplete, ImageCaptured, actionVars
  <2>5. CASE MaybeComplete
    <3>1. UNCHANGED <<isOpen, action, active, scanActive>>
      BY <2>5 DEF MaybeComplete
    <3>2. CASE StillBusy
      BY <2>1, <2>5, <3>1, <3>2, Nothing DEF MaybeComplete
    <3>3. CASE ~StillBusy
      <4>1. ~active /\ ~scanActive
        BY <3>3 DEF StillBusy
      <4>2. Stopped
        BY <2>5, <4>1, WhenReporting DEF MaybeComplete, Tasked, Session
      <4>3. action # "none" /\ returning = "no" /\ ~Busy
        BY <4>1, <4>2 DEF Stopped, Rest, Free, UnderWay, CaptureActions, Matching, Busy
      <4>4. Complete("ok") \/ Complete("error")
        BY <2>5, <3>3 DEF MaybeComplete
      <4> QED BY <2>1, <3>1, <4>3, <4>4, Decided
    <3> QED BY <3>2, <3>3
  <2>6. CASE \/ ChangeState \/ Deactivate \/ EnrollMaybeAwaitOn \/ ReportFinger
             \/ SessionError
    BY <2>1, <2>6, Nothing
       DEF ChangeState, Deactivate, EnrollMaybeAwaitOn, ReportFinger, SessionError,
           actionVars, deviceVars, flowVars
  <2> QED BY <1>3, <2>2, <2>3, <2>4, <2>5, <2>6 DEF LayerCall
<1>4. CASE DriverCall
  <2>1. UNCHANGED <<isOpen, action, returning, active, scanActive>>
    BY <1>4
       DEF DriverCall, ImgOpen, ImgClose, Activate, StateChanged, DriverDeactivate,
           RunFails, RunAdvances, RunRetries, TaskFinished, actionVars, deviceVars,
           flowVars
  <2>2. CASE ImgClose
    <3>1. UNCHANGED task
      BY <2>2, WhenOpenOrClose DEF ImgClose, Settled, Rest, Free
    <3> QED BY <2>1, <3>1, Nothing
  <2>3. CASE Activate \/ TaskFinished
    <3>1. UnderWay
      BY <2>3, WhenActivate, WhenRun
         DEF Activate, TaskFinished, Activating, Tasked, Halting
    <3> QED BY <2>1, <3>1, WorkOrNothing
  <2>4. CASE StateChanged
    <3>1. Starting \/ ToFinger \/ FromFinger \/ Stalling \/ Ending
      BY <2>4, Callers DEF StateChanged, CallInv
    <3>2. UnderWay
      BY <3>1 DEF Starting, ToFinger, FromFinger, Stalling, Ending, Session, Pausing,
                  Stopped, Tasked, Halting
    <3> QED BY <2>1, <3>2, WorkOrNothing
  <2>5. CASE ImgOpen \/ DriverDeactivate \/ RunFails \/ RunAdvances \/ RunRetries
    BY <2>1, <2>5, Nothing
       DEF ImgOpen, DriverDeactivate, RunFails, RunAdvances, RunRetries, driverVars,
           taskVars
  <2> QED BY <1>4, <2>2, <2>3, <2>4, <2>5 DEF DriverCall
<1>5. CASE ReturnInIdle /\ UNCHANGED driverVars
  <2>1. ~Busy
    BY <1>1, <1>5, InLoop, QuietCases DEF ReturnInIdle
  <2>2. Lifecycle!Return
    BY <1>5, <2>1
       DEF ReturnInIdle, Lifecycle!Return, Busy, deviceVars, flowVars, driverVars,
           taskVars
  <2> QED BY <2>2 DEF Lifecycle!Next
<1>6. CASE Scan
  <2>1. MainLoop /\ scanActive /\ UNCHANGED <<isOpen, action, returning>>
    BY <1>6
       DEF Scan, MinutiaeDetected, ScanCancelled, ScanForCapture, ScanForEnroll,
           ScanForMatch, Dispatch, actionVars
  <2>2. UnderWay
    BY <2>1, InLoop, QuietCases DEF Tasked, Pausing, Session, Stopped
  <2> QED BY <2>1, <2>2, WorkOrNothing
<1>7. CASE \/ CancelInIdle /\ UNCHANGED driverVars
           \/ RetryTimeout \/ DeadlinePasses \/ UNCHANGED vars
  BY <1>7, Nothing
     DEF CancelInIdle, RetryTimeout, DeadlinePasses, vars, imageVars, actionVars,
         deviceVars, flowVars, driverVars, taskVars
<1> QED BY <1>2, <1>3, <1>4, <1>5, <1>6, <1>7 DEF Next, Loop

\* The layer and the driver implement DeviceLifecycle: one action at a time,
\* one result for each, decided only when the task, the scan and the session
\* are gone.
THEOREM LifecycleSpecHolds == Spec => LifecycleSpec
<1>1. Init => Lifecycle!Init
  BY DEF Init, ImageInit, Lifecycle!Init
<1>2. IInv /\ IInv' /\ [Next]_vars => [Lifecycle!Next]_Lifecycle!lifeVars
  BY LifecycleStep
<1> QED BY <1>1, <1>2, Invariance, PTL DEF Spec, LifecycleSpec, Lifecycle!Spec

-----------------------------------------------------------------------------
\* The seam between the layer and the driver, read off the calls under way.

Due == IF Stopping \/ task # "none" \/ CalledFor = {} THEN "none"
       ELSE CHOOSE t \in CalledFor : TRUE

\* A call that stops the session, one that leads to a task, and any other.
Stops(c) ==
  \/ c[1] \in {"sessionError", "deactivate", "driverDeactivate", "deactivateComplete"}
  \/ c \in {<<"finished", "fatal">>, <<"finished", "cancelled">>}
Leads(c, t) == ~Stops(c) /\ LeadsTo(c) = t
Plain(c) == Leads(c, "none")

LEMMA StoppingCalls ==
  /\ Stops(Call("sessionError", "fatal")) /\ Stops(Call("deactivate", ""))
  /\ Stops(Call("driverDeactivate", "")) /\ Stops(Call("deactivateComplete", ""))
  /\ Stops(Call("finished", "fatal")) /\ Stops(Call("finished", "cancelled"))
BY DEF Stops, Call

LEMMA LeadingCalls ==
  /\ Leads(Call("activate", ""), "activate")
  /\ Leads(Call("activateComplete", "none"), "waitDown")
  /\ Leads(To("awaitOn"), "waitDown") /\ Leads(In("awaitOn"), "waitDown")
  /\ Leads(Call("reportFinger", "on"), "capture")
  /\ Leads(To("capture"), "capture") /\ Leads(In("capture"), "capture")
  /\ Leads(Call("imageCaptured", ""), "waitUp")
  /\ Leads(To("awaitOff"), "waitUp") /\ Leads(In("awaitOff"), "waitUp")
<1>1. /\ Leads(Call("activate", ""), "activate")
      /\ Leads(Call("activateComplete", "none"), "waitDown")
  BY DEF Leads, Stops, LeadsTo, Call
<1>2. Leads(To("awaitOn"), "waitDown") /\ Leads(In("awaitOn"), "waitDown")
  BY DEF Leads, Stops, LeadsTo, Call, To, In
<1>3. /\ Leads(Call("reportFinger", "on"), "capture")
      /\ Leads(To("capture"), "capture") /\ Leads(In("capture"), "capture")
  BY DEF Leads, Stops, LeadsTo, Call, To, In
<1>4. /\ Leads(Call("imageCaptured", ""), "waitUp")
      /\ Leads(To("awaitOff"), "waitUp") /\ Leads(In("awaitOff"), "waitUp")
  BY DEF Leads, Stops, LeadsTo, Call, To, In
<1> QED BY <1>1, <1>2, <1>3, <1>4

LEMMA PlainCalls ==
  /\ \A f \in {"open", "openComplete", "close", "closeComplete", "run", "maybeAwaitOn",
               "maybeComplete"} :
       \A arg : Plain(Call(f, arg))
  /\ Plain(Call("finished", "none")) /\ Plain(Call("activateComplete", "fatal"))
  /\ Plain(Call("reportFinger", "off"))
  /\ \A s \in {"inactive", "activating", "idle", "deactivating"} :
       Plain(To(s)) /\ Plain(In(s))
<1>1. ASSUME NEW f \in {"open", "openComplete", "close", "closeComplete", "run",
                        "maybeAwaitOn", "maybeComplete"},
             NEW arg
      PROVE  Plain(Call(f, arg))
  BY DEF Plain, Leads, Stops, LeadsTo, Call
<1>2. /\ Plain(Call("finished", "none")) /\ Plain(Call("activateComplete", "fatal"))
      /\ Plain(Call("reportFinger", "off"))
  BY DEF Plain, Leads, Stops, LeadsTo, Call
<1>3. ASSUME NEW s \in {"inactive", "activating", "idle", "deactivating"}
      PROVE  Plain(To(s)) /\ Plain(In(s))
  BY DEF Plain, Leads, Stops, LeadsTo, Call, To, In
<1> QED BY <1>1, <1>2, <1>3

\* The calls of a stack of none, one or two.
LEMMA StackCalls ==
  ASSUME NEW c, NEW d
  PROVE  /\ todo = <<>> => Calls = {}
         /\ todo' = <<>> => Calls' = {}
         /\ todo = <<c>> => Calls = {c}
         /\ todo' = <<c>> => Calls' = {c}
         /\ todo = <<c, d>> => Calls = {c, d}
         /\ todo' = <<c, d>> => Calls' = {c, d}
<1>1. ASSUME NEW s
      PROVE  /\ s = <<>> => {s[i] : i \in DOMAIN s} = {}
             /\ s = <<c>> => {s[i] : i \in DOMAIN s} = {c}
             /\ s = <<c, d>> => {s[i] : i \in DOMAIN s} = {c, d}
  OBVIOUS
<1> QED BY <1>1 DEF Calls

\* What the calls under way make of the session and of the task due.
Off == ~InSession /\ Due = "none"
AsIs == (InSession <=> active) /\ Due = "none"
Asks(t) == InSession /\ Due = t
Ready == ~InSession /\ Due = "activate"

LEMMA SeamOff ==
  ASSUME NEW c, NEW d, Stops(c)
  PROVE  /\ todo = <<c>> \/ todo = <<c, d>> \/ todo = <<d, c>> => Off
         /\ todo' = <<c>> \/ todo' = <<c, d>> \/ todo' = <<d, c>> => Off'
<1>1. ASSUME todo = <<c>> \/ todo = <<c, d>> \/ todo = <<d, c>>
      PROVE  Off
  <2>1. c \in Calls
    BY <1>1, StackCalls
  <2> QED BY <2>1 DEF Off, Due, InSession, Stopping, Stops
<1>2. ASSUME todo' = <<c>> \/ todo' = <<c, d>> \/ todo' = <<d, c>>
      PROVE  Off'
  <2>1. c \in Calls'
    BY <1>2, StackCalls
  <2> QED BY <2>1 DEF Off, Due, InSession, Stopping, Stops
<1> QED BY <1>1, <1>2

LEMMA SeamAsIs ==
  ASSUME NEW c, NEW d, Plain(c), Plain(d)
  PROVE  /\ todo = <<>> \/ todo = <<c>> \/ todo = <<c, d>> => AsIs
         /\ todo' = <<>> \/ todo' = <<c>> \/ todo' = <<c, d>> => AsIs'
<1>1. c # Call("activateComplete", "none") /\ d # Call("activateComplete", "none")
  BY LeadingCalls DEF Plain, Leads
<1>2. ASSUME todo = <<>> \/ todo = <<c>> \/ todo = <<c, d>>
      PROVE  AsIs
  <2>1. Calls \subseteq {c, d}
    BY <1>2, StackCalls
  <2>2. ~Stopping /\ (InSession <=> active)
    BY <1>1, <2>1 DEF Stopping, Stops, InSession, Plain, Leads, Call
  <2>3. CalledFor = {}
    BY <2>1 DEF CalledFor, Plain, Leads
  <2> QED BY <2>2, <2>3 DEF AsIs, Due
<1>3. ASSUME todo' = <<>> \/ todo' = <<c>> \/ todo' = <<c, d>>
      PROVE  AsIs'
  <2>1. Calls' \subseteq {c, d}
    BY <1>3, StackCalls
  <2>2. ~Stopping' /\ (InSession' <=> active')
    BY <1>1, <2>1 DEF Stopping, Stops, InSession, Plain, Leads, Call
  <2>3. CalledFor' = {}
    BY <2>1 DEF CalledFor, Plain, Leads
  <2> QED BY <2>2, <2>3 DEF AsIs, Due
<1> QED BY <1>2, <1>3

\* A task is called for in an active session, or at the end of an activation.
LEMMA SeamAsks ==
  ASSUME NEW t, t # "none", NEW c, NEW d, Leads(c, t), Leads(d, t) \/ Plain(d)
  PROVE  /\ /\ todo = <<c>> \/ todo = <<c, d>> \/ todo = <<d, c>>
            /\ active \/ c = Call("activateComplete", "none")
            /\ task = "none"
            => Asks(t)
         /\ /\ todo' = <<c>> \/ todo' = <<c, d>> \/ todo' = <<d, c>>
            /\ active' \/ c = Call("activateComplete", "none")
            /\ task' = "none"
            => Asks(t)'
<1>1. ASSUME todo = <<c>> \/ todo = <<c, d>> \/ todo = <<d, c>>,
             active \/ c = Call("activateComplete", "none"), task = "none"
      PROVE  Asks(t)
  <2>1. c \in Calls /\ Calls \subseteq {c, d}
    BY <1>1, StackCalls
  <2>2. ~Stopping
    BY <2>1 DEF Stopping, Stops, Plain, Leads
  <2>3. InSession
    BY <1>1, <2>1, <2>2 DEF InSession, Call
  <2>4. CalledFor = {t}
    BY <2>1, <2>3 DEF CalledFor, Plain, Leads
  <2> QED BY <1>1, <2>2, <2>3, <2>4 DEF Asks, Due
<1>2. ASSUME todo' = <<c>> \/ todo' = <<c, d>> \/ todo' = <<d, c>>,
             active' \/ c = Call("activateComplete", "none"), task' = "none"
      PROVE  Asks(t)'
  <2>1. c \in Calls' /\ Calls' \subseteq {c, d}
    BY <1>2, StackCalls
  <2>2. ~Stopping'
    BY <2>1 DEF Stopping, Stops, Plain, Leads
  <2>3. InSession'
    BY <1>2, <2>1, <2>2 DEF InSession, Call
  <2>4. CalledFor' = {t}
    BY <2>1, <2>3 DEF CalledFor, Plain, Leads
  <2> QED BY <1>2, <2>2, <2>3, <2>4 DEF Asks, Due
<1> QED BY <1>1, <1>2

\* An activation is called for before the session.
LEMMA SeamReady ==
  ASSUME NEW d, Plain(d)
  PROVE  /\ /\ todo = << Call("activate", "") >> \/ todo = << d, Call("activate", "") >>
            /\ ~active /\ task = "none"
            => Ready
         /\ /\ todo' = << Call("activate", "") >> \/ todo' = << d, Call("activate", "") >>
            /\ ~active' /\ task' = "none"
            => Ready'
<1> DEFINE c == Call("activate", "")
<1>1. /\ c # Call("activateComplete", "none") /\ d # Call("activateComplete", "none")
      /\ Leads(c, "activate")
  BY LeadingCalls DEF Plain, Leads, Call
<1> HIDE DEF c
<1>2. ASSUME todo = <<c>> \/ todo = <<d, c>>, ~active, task = "none"
      PROVE  Ready
  <2>1. c \in Calls /\ Calls \subseteq {c, d}
    BY <1>2, StackCalls
  <2>2. ~Stopping /\ ~InSession
    BY <1>1, <1>2, <2>1 DEF Stopping, Stops, InSession, Plain, Leads, Call
  <2>3. CalledFor = {"activate"}
    BY <1>1, <2>1, <2>2 DEF CalledFor, Plain, Leads
  <2> QED BY <1>2, <2>2, <2>3 DEF Ready, Due
<1>3. ASSUME todo' = <<c>> \/ todo' = <<d, c>>, ~active', task' = "none"
      PROVE  Ready'
  <2>1. c \in Calls' /\ Calls' \subseteq {c, d}
    BY <1>3, StackCalls
  <2>2. ~Stopping' /\ ~InSession'
    BY <1>1, <1>3, <2>1 DEF Stopping, Stops, InSession, Plain, Leads, Call
  <2>3. CalledFor' = {"activate"}
    BY <1>1, <2>1, <2>2 DEF CalledFor, Plain, Leads
  <2> QED BY <1>3, <2>2, <2>3 DEF Ready, Due
<1> QED BY <1>2, <1>3 DEF c

\* An enrolment's next finger, asked for after its session has stopped,
\* calls for nothing.
LEMMA SeamStale ==
  /\ ~active /\ (todo = << To("awaitOn") >> \/ todo = << In("awaitOn") >>) => Off
  /\ ~active' /\ (todo' = << To("awaitOn") >> \/ todo' = << In("awaitOn") >>) => Off'
<1>1. ASSUME NEW c, Leads(c, "waitDown"), c # Call("activateComplete", "none")
      PROVE  /\ ~active /\ todo = <<c>> => Off
             /\ ~active' /\ todo' = <<c>> => Off'
  <2>1. ASSUME ~active, todo = <<c>>
        PROVE  Off
    <3>1. Calls = {c}
      BY <2>1, StackCalls
    <3>2. ~InSession
      BY <1>1, <2>1, <3>1 DEF InSession, Call
    <3>3. CalledFor = {}
      BY <1>1, <3>1, <3>2 DEF CalledFor, Leads
    <3> QED BY <3>2, <3>3 DEF Off, Due
  <2>2. ASSUME ~active', todo' = <<c>>
        PROVE  Off'
    <3>1. Calls' = {c}
      BY <2>2, StackCalls
    <3>2. ~InSession'
      BY <1>1, <2>2, <3>1 DEF InSession, Call
    <3>3. CalledFor' = {}
      BY <1>1, <3>1, <3>2 DEF CalledFor, Leads
    <3> QED BY <3>2, <3>3 DEF Off, Due
  <2> QED BY <2>1, <2>2
<1>2. /\ To("awaitOn") # Call("activateComplete", "none")
      /\ In("awaitOn") # Call("activateComplete", "none")
  BY DEF To, In, Call
<1> QED BY <1>1, <1>2, LeadingCalls

\* The layer's change of state and the driver's ask for the same.
LEMMA SeamChange ==
  ASSUME NEW s \in States, NEW d, UNCHANGED <<active, task>>,
         \/ todo = << To(s) >> /\ todo' = << In(s) >>
         \/ todo = << To(s), d >> /\ todo' = << In(s), d >>
  PROVE  InSession' = InSession /\ Due' = Due
<1>1. /\ LeadsTo(To(s)) = LeadsTo(In(s)) /\ ~Stops(To(s)) /\ ~Stops(In(s))
      /\ To(s) # Call("activateComplete", "none")
      /\ In(s) # Call("activateComplete", "none")
  BY DEF LeadsTo, Stops, To, In, Call, States
<1>2. \/ Calls = {To(s)} /\ Calls' = {In(s)}
      \/ Calls = {To(s), d} /\ Calls' = {In(s), d}
  BY StackCalls
<1>3. Stopping' = Stopping
  BY <1>1, <1>2 DEF Stopping, Stops
<1>4. InSession' = InSession
  BY <1>1, <1>2, <1>3 DEF InSession, Call
<1>5. CalledFor' = CalledFor
  BY <1>1, <1>2, <1>4 DEF CalledFor
<1> QED BY <1>3, <1>4, <1>5 DEF Due

\* The steps of TaskProtocol, in these terms.
LEMMA SeamSame ==
  ASSUME UNCHANGED <<isOpen, task>>, InSession' <=> InSession, Due' = Due
  PROVE  UNCHANGED Tasking!seamVars
<1>1. InSession \in BOOLEAN /\ InSession' \in BOOLEAN
  BY DEF InSession
<1> QED BY <1>1 DEF Tasking!seamVars, Due

LEMMA SeamCallFor ==
  ASSUME isOpen, Due = "none", task = "none", UNCHANGED <<isOpen, task>>,
         \/ InSession /\ InSession' /\ Due' = "waitDown"
         \/ ~InSession /\ ~InSession' /\ Due' = "activate"
  PROVE  Tasking!TaskNext
<1>1. InSession \in BOOLEAN /\ InSession' \in BOOLEAN
  BY DEF InSession
<1>2. \E t \in DOMAIN Tasking!After : Tasking!CallFor(t)
  BY <1>1 DEF Tasking!CallFor, Tasking!After, Due
<1> QED BY <1>2 DEF Tasking!TaskNext

LEMMA SeamStart ==
  ASSUME task = "none", Due # "none", task' = Due, Due' = "none",
         UNCHANGED isOpen, InSession' <=> InSession
  PROVE  Tasking!TaskNext
<1>1. InSession \in BOOLEAN /\ InSession' \in BOOLEAN
  BY DEF InSession
<1> QED BY <1>1 DEF Tasking!Start, Tasking!TaskNext, Due

LEMMA SeamRefuse ==
  ASSUME Due = "activate", Due' = "none", UNCHANGED <<isOpen, task>>,
         InSession' <=> InSession
  PROVE  Tasking!TaskNext
<1>1. InSession \in BOOLEAN /\ InSession' \in BOOLEAN
  BY DEF InSession
<1> QED BY <1>1 DEF Tasking!Refuse, Tasking!TaskNext, Due

LEMMA SeamDone ==
  ASSUME task = "activate" \/ (InSession /\ task # "none"),
         task' = "none", InSession', UNCHANGED isOpen,
         \/ task = "activate" /\ Due' = "waitDown"
         \/ task = "waitDown" /\ Due' = "capture"
         \/ task = "capture" /\ Due' = "waitUp"
         \/ task = "waitUp" /\ Due' = "none"
  PROVE  Tasking!TaskNext
<1>1. InSession \in BOOLEAN /\ InSession' \in BOOLEAN
  BY DEF InSession
<1>2. Due' = Tasking!After[task]
  BY DEF Tasking!After
<1>3. Tasking!Done
  BY <1>1, <1>2 DEF Tasking!Done, Tasking!Running, Due
<1> QED BY <1>3 DEF Tasking!TaskNext

LEMMA SeamStop ==
  ASSUME InSession, ~InSession', Due' = "none", UNCHANGED <<isOpen, task>>
  PROVE  Tasking!TaskNext
<1>1. InSession \in BOOLEAN /\ InSession' \in BOOLEAN
  BY DEF InSession
<1> QED BY <1>1 DEF Tasking!Stop, Tasking!TaskNext, Due

LEMMA SeamEnd ==
  ASSUME task # "none", task' = "none", ~InSession', Due' = "none", UNCHANGED isOpen
  PROVE  Tasking!TaskNext
<1>1. InSession \in BOOLEAN /\ InSession' \in BOOLEAN
  BY DEF InSession
<1> QED BY <1>1 DEF Tasking!End, Tasking!TaskNext, Due

LEMMA SeamOpen ==
  ASSUME Off, Off', task = "none", task' = "none", isOpen \in BOOLEAN,
         isOpen' = ~isOpen
  PROVE  Tasking!TaskNext
<1>1. InSession \in BOOLEAN /\ InSession' \in BOOLEAN
  BY DEF InSession
<1>2. Tasking!AtRest
  BY DEF Tasking!AtRest, Off, Due
<1>3. InSession' = InSession /\ Due' = Due
  BY <1>1 DEF Off
<1>4. Tasking!Open \/ Tasking!Close
  BY <1>2, <1>3 DEF Tasking!Open, Tasking!Close, Due
<1> QED BY <1>4 DEF Tasking!TaskNext

\* Nothing happens at the seam; or the session is over, if there was one.
LEMMA SeamStays ==
  ASSUME UNCHANGED <<isOpen, task>>,
         \/ Off /\ Off'
         \/ AsIs /\ AsIs' /\ UNCHANGED active
         \/ \E t \in Tasks : Asks(t) /\ Asks(t)'
         \/ Ready /\ Ready'
  PROVE  UNCHANGED Tasking!seamVars
BY SeamSame DEF Off, AsIs, Asks, Ready

LEMMA SeamEnds ==
  ASSUME UNCHANGED <<isOpen, task>>, AsIs \/ Off, Off'
  PROVE  [Tasking!TaskNext]_Tasking!seamVars
<1>1. CASE InSession
  BY <1>1, SeamStop DEF Off
<1>2. CASE ~InSession
  BY <1>2, SeamSame DEF Off, AsIs
<1> QED BY <1>1, <1>2

LEMMA SeamAtRest ==
  /\ AsIs /\ ~active => Off
  /\ (AsIs /\ ~active)' => Off'
BY DEF AsIs, Off

\* A call that asks for nothing returns.
LEMMA SeamDrop ==
  ASSUME NEW c, NEW d, Plain(c), todo = <<c, d>>, todo' = <<d>>,
         UNCHANGED <<active, task>>
  PROVE  InSession' = InSession /\ Due' = Due
<1>1. LeadsTo(c) = "none" /\ ~Stops(c) /\ c # Call("activateComplete", "none")
  BY LeadingCalls DEF Plain, Leads
<1>2. Calls = {c, d} /\ Calls' = {d}
  BY StackCalls
<1>3. Stopping' = Stopping
  BY <1>1, <1>2 DEF Stopping, Stops
<1>4. InSession' = InSession
  BY <1>1, <1>2, <1>3 DEF InSession, Call
<1>5. CalledFor' = CalledFor
  BY <1>1, <1>2, <1>4 DEF CalledFor
<1> QED BY <1>3, <1>4, <1>5 DEF Due

\* The device is closed when it is opened, and open for anything else.
OpenInv ==
  /\ action = "open" => ~isOpen
  /\ action \in CaptureActions \union {"close"} => isOpen

\* It needs no other invariant.
LEMMA OpenStep ==
  ASSUME OpenInv, [Next]_vars
  PROVE  OpenInv'
<1> USE DEF OpenInv
<1>1. ASSUME UNCHANGED <<isOpen, action>>
      PROVE  OpenInv'
  BY <1>1
<1>2. CASE Application
  <2>1. CASE RequestOpen \/ RequestClose
    <3>1. (action' = "open" /\ ~isOpen') \/ (action' = "close" /\ isOpen')
      BY <2>1 DEF RequestOpen, RequestClose
    <3> QED BY <3>1 DEF CaptureActions, Matching
  <2>2. ASSUME NEW a \in CaptureActions, Request(a)
        PROVE  OpenInv'
    BY <2>2 DEF Request, CaptureActions, Matching
  <2>3. CASE RequestCancel \/ RequestSuspend \/ RequestResume
    BY <1>1, <2>3 DEF RequestCancel, RequestSuspend, RequestResume
  <2> QED BY <1>2, <2>1, <2>2, <2>3 DEF Application
<1>3. CASE LayerCall
  BY <1>1, <1>3
     DEF LayerCall, OpenComplete, CloseComplete, ChangeState, Deactivate,
         ActivateComplete, DeactivateComplete, EnrollMaybeAwaitOn, ReportFinger,
         ImageCaptured, SessionError, MaybeComplete, actionVars
<1>4. CASE DriverCall \/ RetryTimeout \/ DeadlinePasses \/ UNCHANGED vars
  BY <1>1, <1>4
     DEF DriverCall, ImgOpen, ImgClose, Activate, StateChanged, DriverDeactivate,
         RunFails, RunAdvances, RunRetries, TaskFinished, RetryTimeout,
         DeadlinePasses, vars, imageVars, actionVars
<1>5. CASE CancelInIdle
  BY <1>1, <1>5 DEF CancelInIdle
<1>6. CASE ReturnInIdle
  BY <1>6 DEF ReturnInIdle, CaptureActions, Matching
<1>7. CASE Scan
  BY <1>1, <1>7
     DEF Scan, MinutiaeDetected, ScanCancelled, ScanForCapture, ScanForEnroll,
         ScanForMatch, actionVars
<1> QED BY <1>2, <1>3, <1>4, <1>5, <1>6, <1>7 DEF Next, Loop

\* Every call of the layer, every call of the driver and every step of the
\* main loop is a step of TaskProtocol or nothing to it.
LEMMA LayerSeam ==
  ASSUME IInv, OpenInv, LayerCall, UNCHANGED driverVars
  PROVE  [Tasking!TaskNext]_Tasking!seamVars
<1> USE DEF IInv
<1>1. UNCHANGED <<isOpen, task>>
  BY DEF driverVars, taskVars, LayerCall, OpenComplete, CloseComplete, ChangeState,
         Deactivate, ActivateComplete, DeactivateComplete, EnrollMaybeAwaitOn,
         ReportFinger, ImageCaptured, SessionError, MaybeComplete, actionVars
<1>2. CASE OpenComplete \/ CloseComplete
  <2>1. /\ UNCHANGED active /\ Return
        /\ Called("openComplete") \/ Called("closeComplete")
    BY <1>2 DEF OpenComplete, CloseComplete
  <2>2. ASSUME NEW f \in {"openComplete", "closeComplete"}, NEW arg,
               todo = << Call(f, arg) >>
        PROVE  UNCHANGED Tasking!seamVars
    <3>1. todo' = <<>>
      BY <2>1, <2>2, LastReturns
    <3>2. AsIs /\ AsIs'
      BY <2>2, <3>1, PlainCalls, SeamAsIs
    <3> QED BY <1>1, <2>1, <3>2, SeamStays
  <2>3. Called("openComplete") => \E arg : todo = << Call("openComplete", arg) >>
    BY WhenOpenOrClose
  <2>4. Called("closeComplete") => todo = << Call("closeComplete", "") >>
    BY WhenOpenOrClose
  <2> QED BY <2>1, <2>2, <2>3, <2>4
<1>3. CASE ChangeState
  <2>1. UNCHANGED active /\ Called("changeState")
    BY <1>3 DEF ChangeState
  <2>2. PICK s \in States : todo = << To(s) >> \/ \E d : todo = << To(s), d >>
    BY <2>1, WhenChangeState
  <2>3. Arg = s
    BY <2>2, CalleeOne, CalleeTwo DEF To
  <2>4. CASE todo = << To(s) >>
    <3>1. todo' = << In(s) >>
      BY <1>3, <2>3, <2>4, LastCalls DEF ChangeState, In, Call
    <3> QED BY <1>1, <2>1, <2>4, <3>1, SeamChange, SeamSame
  <2>5. ASSUME NEW d, todo = << To(s), d >>
        PROVE  UNCHANGED Tasking!seamVars
    <3>1. todo' = << In(s), d >>
      BY <1>3, <2>3, <2>5, FirstCalls DEF ChangeState, In, Call
    <3> QED BY <1>1, <2>1, <2>5, <3>1, SeamChange, SeamSame
  <2> QED BY <2>2, <2>4, <2>5
<1>4. CASE Deactivate
  <2>1. UNCHANGED active /\ todo = << Call("deactivate", "") >>
    BY <1>4, WhenReporting DEF Deactivate, deviceVars
  <2>2. Off
    BY <2>1, StoppingCalls, SeamOff
  <2>3. CASE active /\ state # "deactivating"
    <3>1. todo' = << To("deactivating"), Call("driverDeactivate", "") >>
      BY <1>4, <2>1, <2>3, LastCallsTwo DEF Deactivate, To, Call
    <3>2. Off'
      BY <3>1, StoppingCalls, SeamOff
    <3> QED BY <1>1, <2>2, <3>2, SeamStays
  <2>4. CASE ~active
    <3>1. todo' = <<>>
      BY <1>4, <2>1, <2>4, LastReturns DEF Deactivate
    <3>2. Off'
      BY <2>1, <2>4, <3>1, PlainCalls, SeamAsIs, SeamAtRest
    <3> QED BY <1>1, <2>2, <3>2, SeamStays
  <2>5. state = "deactivating" => ~active
    <3>1. Tasked \/ Session(AnyOf) \/ Activating \/ Stopped \/ Ended
      BY <1>4, WhenReporting DEF Deactivate
    <3>2. CASE Tasked \/ Session(AnyOf)
      BY <3>2 DEF Tasked, Session, AnyOf, StateOfTask
    <3>3. CASE Activating \/ Stopped \/ Ended
      BY <3>3 DEF Activating, Stopped, Ended, Settled, Rest
    <3> QED BY <3>1, <3>2, <3>3
  <2> QED BY <2>3, <2>4, <2>5
<1>5. CASE ActivateComplete
  <2>1. PICK err \in {"none", "fatal"} : todo = << Call("activateComplete", err) >>
    BY <1>5, WhenActivate DEF ActivateComplete
  <2>2. ~active /\ state = "activating" /\ task = "none" /\ Arg = err
    BY <1>5, <2>1, WhenActivate, CalleeOne DEF ActivateComplete, Settled, Rest, Free
  <2>3. CASE err = "none"
    <3>1. /\ todo' = << To("idle"), To("awaitOn") >>
          /\ active' /\ task' = "none"
      BY <1>1, <1>5, <2>1, <2>2, <2>3, LastCallsTwo DEF ActivateComplete, To, Call
    <3>2. Asks("waitDown")
      BY <2>1, <2>2, <2>3, LeadingCalls, SeamAsks
    <3>3. Asks("waitDown")'
      BY <3>1, LeadingCalls, PlainCalls, SeamAsks
    <3> QED BY <1>1, <3>2, <3>3, SeamStays DEF Tasks
  <2>4. CASE err = "fatal"
    <3>1. todo' = <<>> /\ UNCHANGED active
      BY <1>5, <2>1, <2>2, <2>4, LastReturns DEF ActivateComplete
    <3>2. AsIs /\ AsIs'
      BY <2>1, <2>4, <3>1, PlainCalls, SeamAsIs
    <3> QED BY <1>1, <3>1, <3>2, SeamStays
  <2> QED BY <2>3, <2>4
<1>6. CASE DeactivateComplete
  <2>1. todo = << Call("deactivateComplete", "") >> /\ Halting
    BY <1>6, WhenEnding DEF DeactivateComplete
  <2>2. /\ todo' = << To("inactive"), Call("maybeComplete", "none") >>
        /\ active' = FALSE
    BY <1>6, <2>1, LastCallsTwo DEF DeactivateComplete, Halting, To, Call
  <2>3. Off /\ Off'
    BY <2>1, <2>2, StoppingCalls, SeamOff, PlainCalls, SeamAsIs, SeamAtRest
  <2> QED BY <1>1, <2>3, SeamStays
<1>7. CASE EnrollMaybeAwaitOn
  <2>1. /\ todo = << Call("maybeAwaitOn", "") >> /\ UNCHANGED active
        /\ \/ Tasked /\ fingerPresent
           \/ Pausing
           \/ Stopped
    BY <1>7, WhenReporting DEF EnrollMaybeAwaitOn, deviceVars
  <2>2. AsIs
    BY <2>1, PlainCalls, SeamAsIs
  <2>3. CASE ~MayAwaitOn
    <3>1. todo' = <<>>
      BY <1>7, <2>1, <2>3, LastReturns DEF EnrollMaybeAwaitOn
    <3>2. AsIs'
      BY <3>1, PlainCalls, SeamAsIs
    <3> QED BY <1>1, <2>1, <2>2, <3>2, SeamStays
  <2>4. CASE MayAwaitOn
    <3>1. todo' = << To("awaitOn") >>
      BY <1>7, <2>1, <2>4, LastCalls DEF EnrollMaybeAwaitOn, To, Call
    <3>2. CASE Pausing
      <4>1. active /\ task = "none" /\ isOpen
        BY <3>2 DEF Pausing, Session, Free, UnderWay, OpenInv
      <4>2. Asks("waitDown")'
        BY <1>1, <2>1, <3>1, <4>1, LeadingCalls, SeamAsks
      <4> QED BY <1>1, <2>2, <4>1, <4>2, SeamCallFor DEF AsIs, Asks
    <3>3. CASE Stopped
      <4>1. ~active /\ ~active'
        BY <2>1, <3>3 DEF Stopped, Rest
      <4>2. Off'
        BY <3>1, <4>1, SeamStale
      <4> QED BY <1>1, <2>2, <4>1, <4>2, SeamStays, SeamAtRest
    <3> QED BY <2>1, <2>4, <3>2, <3>3 DEF MayAwaitOn
  <2> QED BY <2>3, <2>4
<1>8. CASE ReportFinger
  <2>1. UNCHANGED active
    BY <1>8 DEF ReportFinger
  <2>2. CASE todo = << Call("reportFinger", "on") >> /\ Session({"awaitOn"})
    <3>1. Arg = "on" /\ state = "awaitOn" /\ active /\ task = "none"
      BY <1>8, <2>2, CalleeOne DEF Session, Free
    <3>2. todo' = << To("capture") >>
      BY <1>8, <2>2, <3>1, LastCalls DEF ReportFinger, To, Call
    <3>3. Asks("capture") /\ Asks("capture")'
      BY <1>1, <2>1, <2>2, <3>1, <3>2, LeadingCalls, SeamAsks
    <3> QED BY <1>1, <3>3, SeamStays DEF Tasks
  <2>3. CASE todo = << Call("reportFinger", "off") >> /\ Session({"awaitOff"})
    <3>1. Arg = "off" /\ state = "awaitOff" /\ active
      BY <1>8, <2>3, CalleeOne DEF Session
    <3>2. AsIs
      BY <2>3, PlainCalls, SeamAsIs
    <3>3. CASE action = "enroll"
      <4>1. todo' = << To("idle"), Call("maybeAwaitOn", "") >>
        BY <1>8, <2>3, <3>1, <3>3, LastCallsTwo DEF ReportFinger, To, Call
      <4>2. AsIs'
        BY <4>1, PlainCalls, SeamAsIs
      <4> QED BY <1>1, <2>1, <3>2, <4>2, SeamStays
    <3>4. CASE action # "enroll"
      <4>1. todo' = << To("idle"), Call("deactivate", "") >>
        BY <1>8, <2>3, <3>1, <3>4, LastCallsTwo DEF ReportFinger, To, Call
      <4>2. Off'
        BY <4>1, StoppingCalls, SeamOff
      <4> QED BY <1>1, <3>2, <4>2, SeamEnds
    <3> QED BY <3>3, <3>4
  <2> QED BY <1>8, <2>2, <2>3, WhenFinger DEF ReportFinger
<1>9. CASE ImageCaptured
  <2>1. /\ todo = << Call("imageCaptured", "") >> /\ Session({"capture"})
        /\ UNCHANGED active
    BY <1>9, WhenFinger DEF ImageCaptured
  <2>2. todo' = << To("awaitOff") >> /\ active /\ task = "none"
    BY <1>9, <2>1, LastCalls DEF ImageCaptured, Session, UnderWay, Free, To, Call
  <2>3. Asks("waitUp") /\ Asks("waitUp")'
    BY <1>1, <2>1, <2>2, LeadingCalls, SeamAsks
  <2> QED BY <1>1, <2>3, SeamStays DEF Tasks
<1>10. CASE SessionError
  <2>1. todo = << Call("sessionError", "fatal") >> /\ Session(AnyOf)
    BY <1>10, WhenReporting DEF SessionError
  <2>2. active /\ state # "inactive" /\ Arg = "fatal"
    BY <1>10, <2>1, CalleeOne DEF SessionError, Session, AnyOf
  <2>3. todo' = << Call("maybeComplete", "fatal"), Call("deactivate", "") >>
    BY <1>10, <2>1, <2>2, LastCallsTwo DEF SessionError, Call
  <2>4. Off /\ Off'
    BY <2>1, <2>3, StoppingCalls, SeamOff
  <2> QED BY <1>1, <2>4, SeamStays
<1>11. CASE MaybeComplete
  <2>1. UNCHANGED active /\ Return
    BY <1>11 DEF MaybeComplete
  <2>2. PICK err :
          \/ todo = << Call("maybeComplete", err) >>
          \/ todo = << Call("maybeComplete", err), Call("deactivate", "") >>
    BY <1>11, WhenReporting DEF MaybeComplete
  <2>3. CASE todo = << Call("maybeComplete", err) >>
    <3>1. todo' = <<>>
      BY <2>1, <2>3, LastReturns
    <3>2. AsIs /\ AsIs'
      BY <2>3, <3>1, PlainCalls, SeamAsIs
    <3> QED BY <1>1, <2>1, <3>2, SeamStays
  <2>4. CASE todo = << Call("maybeComplete", err), Call("deactivate", "") >>
    <3>1. todo' = << Call("deactivate", "") >>
      BY <2>1, <2>4, FirstReturns
    <3>2. Off /\ Off'
      BY <2>4, <3>1, StoppingCalls, SeamOff
    <3> QED BY <1>1, <3>2, SeamStays
  <2> QED BY <2>2, <2>3, <2>4
<1> QED BY <1>2, <1>3, <1>4, <1>5, <1>6, <1>7, <1>8, <1>9, <1>10, <1>11 DEF LayerCall

LEMMA DriverSeam ==
  ASSUME IInv, DriverCall
  PROVE  [Tasking!TaskNext]_Tasking!seamVars
<1> USE DEF IInv
<1>1. UNCHANGED <<isOpen, active>>
  BY DEF DriverCall, ImgOpen, ImgClose, Activate, StateChanged, DriverDeactivate,
         RunFails, RunAdvances, RunRetries, TaskFinished, actionVars, deviceVars
<1>2. CASE ImgOpen
  <2>1. todo = << Call("open", "") >>
    BY <1>2, WhenOpenOrClose DEF ImgOpen
  <2>2. PICK err : todo' = << Call("openComplete", err) >>
    BY <1>2, <2>1, LastCalls DEF ImgOpen, Call
  <2>3. AsIs /\ AsIs'
    BY <2>1, <2>2, PlainCalls, SeamAsIs
  <2> QED BY <1>1, <1>2, <2>3, SeamStays DEF ImgOpen, driverVars, taskVars
<1>3. CASE ImgClose
  <2>1. todo = << Call("close", "") >> /\ UNCHANGED task
    BY <1>3, WhenOpenOrClose DEF ImgClose, Settled, Rest, Free
  <2>2. todo' = << Call("closeComplete", "") >>
    BY <1>3, <2>1, LastCalls DEF ImgClose, Call
  <2>3. AsIs /\ AsIs'
    BY <2>1, <2>2, PlainCalls, SeamAsIs
  <2> QED BY <1>1, <2>1, <2>3, SeamStays
<1>4. CASE Activate
  <2>1. todo = << Call("activate", "") >> /\ ~active /\ task = "none"
    BY <1>4, WhenActivate DEF Activate, Settled, Rest, Free
  <2>2. Ready
    BY <2>1, SeamReady, PlainCalls
  <2>3. CASE StartTask("activate")
    <3>1. todo' = << Call("run", "") >> /\ task' = "activate"
      BY <2>1, <2>3, LastCalls DEF StartTask, Call
    <3>2. Off'
      BY <1>1, <2>1, <3>1, PlainCalls, SeamAsIs, SeamAtRest
    <3> QED BY <1>1, <2>1, <2>2, <3>1, <3>2, SeamStart DEF Ready, Off
  <2>4. CASE /\ ReturnCalling(<< <<"activateComplete", "fatal">> >>)
             /\ UNCHANGED taskVars
    <3>1. todo' = << Call("activateComplete", "fatal") >> /\ UNCHANGED task
      BY <2>1, <2>4, LastCalls DEF taskVars, Call
    <3>2. Off'
      BY <1>1, <2>1, <3>1, PlainCalls, SeamAsIs, SeamAtRest
    <3> QED BY <1>1, <2>2, <3>1, <3>2, SeamRefuse DEF Ready, Off
  <2> QED BY <1>4, <2>1, <2>3, <2>4 DEF Activate
<1>5. CASE StateChanged
  <2>1. Called("stateChanged")
    BY <1>5 DEF StateChanged
  <2>2. ASSUME NEW s \in {"awaitOn", "capture", "awaitOff"}, todo = << In(s) >>,
               Session({s})
        PROVE  Tasking!TaskNext
    <3>1. task = "none" /\ active /\ ~deactivating /\ Arg = s
      BY <2>2, CalleeOne DEF Session, Free, Armed, In
    <3>2. ReturnCalling(<< <<"run", "">> >>) /\ task' = TaskOf[s]
      BY <1>5, <3>1, Zenon DEF StateChanged, StartTask, TaskOf
    <3>3. todo' = << Call("run", "") >>
      BY <2>2, <3>2, LastCalls DEF Call
    <3>4. Asks(TaskOf[s]) /\ TaskOf[s] # "none"
      <4>1. Leads(In(s), TaskOf[s]) /\ TaskOf[s] # "none"
        <5>1. /\ TaskOf["awaitOn"] = "waitDown" /\ TaskOf["capture"] = "capture"
              /\ TaskOf["awaitOff"] = "waitUp"
          BY DEF TaskOf
        <5> QED BY <5>1, LeadingCalls
      <4> QED BY <2>2, <3>1, <4>1, SeamAsks
    <3>5. AsIs'
      BY <3>3, PlainCalls, SeamAsIs
    <3> QED BY <1>1, <3>1, <3>2, <3>4, <3>5, SeamStart DEF Asks, AsIs
  <2>3. ASSUME NEW s \in {"inactive", "activating", "idle", "deactivating"}, NEW d,
               todo = << In(s), d >>
        PROVE  UNCHANGED Tasking!seamVars
    <3>1. Arg = s /\ s \notin DOMAIN TaskOf
      BY <2>3, CalleeTwo DEF In, TaskOf
    <3>2. todo' = <<d>> /\ UNCHANGED task
      BY <1>5, <2>3, <3>1, FirstReturns DEF StateChanged
    <3> QED BY <1>1, <2>3, <3>2, PlainCalls, SeamDrop, SeamSame
  <2>4. CASE todo = << In("awaitOn") >> /\ Stopped
    <3>1. deactivating /\ ~active
      BY <2>4 DEF Stopped, Rest
    <3>2. todo' = <<>> /\ UNCHANGED task
      BY <1>5, <2>4, <3>1, LastReturns DEF StateChanged
    <3>3. Off /\ Off'
      BY <1>1, <2>4, <3>1, <3>2, SeamStale, PlainCalls, SeamAsIs, SeamAtRest
    <3> QED BY <1>1, <3>2, <3>3, SeamStays
  <2> QED BY <2>1, <2>2, <2>3, <2>4, WhenStateChanged
<1>6. CASE DriverDeactivate
  <2>1. todo = << Call("driverDeactivate", "") >> /\ UNCHANGED task /\ ~completeSent
    BY <1>6, WhenEnding DEF DriverDeactivate, Armed
  <2>2. \/ todo' = << Call("finished", "cancelled") >>
        \/ todo' = << Call("deactivateComplete", "") >>
    BY <1>6, <2>1, LastCalls DEF DriverDeactivate, Call
  <2>3. Off /\ Off'
    BY <2>1, <2>2, StoppingCalls, SeamOff
  <2> QED BY <1>1, <2>1, <2>3, SeamStays
<1>7. CASE RunFails \/ RunAdvances \/ RunRetries
  <2>1. todo = << Call("run", "") >> /\ UNCHANGED task
    BY <1>7, WhenRun DEF RunFails, RunAdvances, RunRetries, driverVars, taskVars
  <2>2. AsIs
    BY <2>1, PlainCalls, SeamAsIs
  <2>3. CASE RunFails
    <3>1. todo' = << Call("finished", "fatal") >>
      BY <2>1, <2>3, LastCalls DEF RunFails, Call
    <3>2. Off'
      BY <3>1, StoppingCalls, SeamOff
    <3> QED BY <1>1, <2>1, <2>2, <3>2, SeamEnds
  <2>4. CASE RunAdvances \/ RunRetries
    <3>1. \/ todo' = << Call("finished", "none") >>
          \/ todo' = << Call("run", "") >> \/ todo' = <<>>
      BY <2>1, <2>4, LastCalls, LastReturns DEF RunAdvances, RunRetries, Call
    <3>2. AsIs'
      BY <3>1, PlainCalls, SeamAsIs
    <3> QED BY <1>1, <2>1, <2>2, <3>2, SeamStays
  <2> QED BY <1>7, <2>3, <2>4
<1>8. CASE TaskFinished
  <2>1. task' = "none"
    BY <1>8 DEF TaskFinished, ForgetTask
  <2>2. ASSUME Off, Off'
        PROVE  [Tasking!TaskNext]_Tasking!seamVars
    <3>1. CASE task = "none"
      BY <1>1, <2>1, <2>2, <3>1, SeamStays
    <3>2. CASE task # "none"
      BY <1>1, <2>1, <2>2, <3>2, SeamEnd DEF Off
    <3> QED BY <3>1, <3>2
  <2>3. CASE todo = << Call("finished", "cancelled") >> /\ deactivating /\ ~completeSent
    <3>1. todo' = << Call("deactivateComplete", "") >>
      BY <1>8, <2>3, LastCalls DEF TaskFinished, Call
    <3> QED BY <2>2, <2>3, <3>1, StoppingCalls, SeamOff
  <2>4. CASE /\ Activating \/ Tasked
             /\ \/ todo = << Call("finished", "fatal") >>
                \/ /\ todo = << Call("finished", "none") >>
                   /\ task = "capture" => captured
    <3>1. /\ ~deactivating
          /\ task \in {"activate", "waitDown", "waitUp", "capture"}
          /\ task = "activate" <=> ~active
      BY <2>4 DEF Activating, Tasked, Armed, StateOfTask
    <3>2. ReturnCalling(
            IF Arg # "none" /\ task # "activate"
            THEN << <<"sessionError", Arg>> >>
            ELSE CASE task = "activate" -> << <<"activateComplete", Arg>> >>
                   [] task = "waitDown" -> << <<"reportFinger", "on">> >>
                   [] task = "waitUp" -> << <<"reportFinger", "off">> >>
                   [] task = "capture" /\ captured ->
                        << <<"imageCaptured", "">> >>
                   [] OTHER -> <<>>)
      BY <1>8, <3>1, Zenon DEF TaskFinished
    <3>3. CASE todo = << Call("finished", "fatal") >>
      <4>1. Arg = "fatal"
        BY <3>3, CalleeOne
      <4>2. CASE task = "activate"
        <5>1. ReturnCalling(<< Call("activateComplete", "fatal") >>)
          BY <3>2, <4>1, <4>2 DEF Call
        <5>2. todo' = << Call("activateComplete", "fatal") >>
          BY <3>3, <5>1, LastCalls
        <5>3. ~active'
          BY <1>1, <3>1, <4>2
        <5>4. Off /\ Off'
          BY <3>3, <5>2, <5>3, StoppingCalls, SeamOff, PlainCalls, SeamAsIs, SeamAtRest
        <5> QED BY <2>2, <5>4
      <4>3. CASE task # "activate"
        <5>1. ReturnCalling(<< Call("sessionError", "fatal") >>)
          BY <3>2, <4>1, <4>3 DEF Call
        <5>2. todo' = << Call("sessionError", "fatal") >>
          BY <3>3, <5>1, LastCalls
        <5> QED BY <2>2, <3>3, <5>2, StoppingCalls, SeamOff
      <4> QED BY <4>2, <4>3
    <3>4. CASE todo = << Call("finished", "none") >> /\ (task = "capture" => captured)
      <4>1. Arg = "none"
        BY <3>4, CalleeOne
      <4>2. AsIs
        BY <3>4, PlainCalls, SeamAsIs
      <4>3. /\ task = "activate" => ReturnCalling(<< Call("activateComplete", "none") >>)
            /\ task = "waitDown" => ReturnCalling(<< Call("reportFinger", "on") >>)
            /\ task = "waitUp" => ReturnCalling(<< Call("reportFinger", "off") >>)
            /\ task = "capture" => ReturnCalling(<< Call("imageCaptured", "") >>)
        BY <3>2, <3>4, <4>1 DEF Call
      <4>4. /\ task = "activate" => todo' = << Call("activateComplete", "none") >>
            /\ task = "waitDown" => todo' = << Call("reportFinger", "on") >>
            /\ task = "waitUp" => todo' = << Call("reportFinger", "off") >>
            /\ task = "capture" => todo' = << Call("imageCaptured", "") >>
        BY <3>4, <4>3, LastCalls
      <4>5. task # "activate" => active /\ active' /\ InSession
        BY <1>1, <3>1, <4>2 DEF AsIs
      <4>6. /\ task = "activate" => Asks("waitDown")'
            /\ task = "waitDown" => Asks("capture")'
            /\ task = "capture" => Asks("waitUp")'
        BY <2>1, <4>4, <4>5, LeadingCalls, SeamAsks
      <4>7. task = "waitUp" => AsIs'
        BY <4>4, PlainCalls, SeamAsIs
      <4>8. /\ InSession'
            /\ \/ task = "activate" /\ Due' = "waitDown"
               \/ task = "waitDown" /\ Due' = "capture"
               \/ task = "capture" /\ Due' = "waitUp"
               \/ task = "waitUp" /\ Due' = "none"
        BY <3>1, <4>5, <4>6, <4>7 DEF Asks, AsIs
      <4> QED BY <1>1, <2>1, <3>1, <4>5, <4>8, SeamDone
    <3> QED BY <2>4, <3>3, <3>4
  <2> QED BY <1>8, <2>3, <2>4, WhenRun DEF TaskFinished
<1> QED BY <1>2, <1>3, <1>4, <1>5, <1>6, <1>7, <1>8 DEF DriverCall

LEMMA SeamStep ==
  ASSUME IInv, IInv', OpenInv, [Next]_vars
  PROVE  [Tasking!TaskNext]_Tasking!seamVars
<1> USE DEF IInv
<1>1. todo = <<>> => AsIs
  BY PlainCalls, SeamAsIs
<1>2. ASSUME NEW c, Plain(c), MainLoop, todo' = <<>> \/ todo' = <<c>>,
             UNCHANGED <<isOpen, active, task>>
      PROVE  UNCHANGED Tasking!seamVars
  BY <1>1, <1>2, SeamAsIs, SeamStays DEF MainLoop
<1>3. ASSUME NEW c, NEW d, Stops(c), MainLoop, todo' = <<c>> \/ todo' = <<d, c>>,
             UNCHANGED <<isOpen, active, task>>
      PROVE  [Tasking!TaskNext]_Tasking!seamVars
  BY <1>1, <1>3, SeamOff, SeamEnds DEF MainLoop
<1>4. CASE Application
  <2>1. UNCHANGED <<active, task>>
    BY <1>4 DEF Application, RequestOpen, RequestClose, RequestCancel, RequestSuspend,
                RequestResume, Request, deviceVars, driverVars, taskVars
  <2>2. CASE RequestOpen
    BY <1>2, <2>1, <2>2, PlainCalls DEF RequestOpen, Dispatch, Call
  <2>3. CASE RequestClose
    BY <1>2, <2>1, <2>3, PlainCalls DEF RequestClose, Dispatch, Call
  <2>4. ASSUME NEW a \in CaptureActions, Request(a)
        PROVE  [Tasking!TaskNext]_Tasking!seamVars
    <3>1. MainLoop /\ action = "none" /\ isOpen /\ UNCHANGED isOpen
      BY <2>4 DEF Request, Refused, Dispatch
    <3>2. ~active /\ task = "none"
      BY <3>1, InLoop, QuietCases DEF Settled, Rest, Free
    <3>3. CASE todo' = << To("activating"), Call("activate", "") >>
      <4>1. Ready'
        BY <2>1, <3>2, <3>3, PlainCalls, SeamReady
      <4> QED BY <1>1, <2>1, <3>1, <3>2, <4>1, SeamCallFor DEF AsIs, Ready, MainLoop
    <3>4. CASE todo' = <<>>
      BY <1>2, <2>1, <3>1, <3>4, PlainCalls
    <3> QED BY <2>4, <3>3, <3>4 DEF Request, Dispatch, To, Call
  <2>5. CASE RequestCancel \/ RequestSuspend \/ RequestResume
    BY <1>2, <2>1, <2>5, PlainCalls
       DEF RequestCancel, RequestSuspend, RequestResume, MainLoop
  <2> QED BY <1>4, <2>2, <2>3, <2>4, <2>5 DEF Application
<1>5. CASE CancelInIdle /\ UNCHANGED driverVars
  <2>1. UNCHANGED <<isOpen, active, task>> /\ MainLoop
    BY <1>5 DEF CancelInIdle, Dispatch, deviceVars, driverVars, taskVars
  <2>2. todo' = <<>> \/ todo' = << Call("deactivate", "") >>
    BY <1>5 DEF CancelInIdle, Dispatch, Call
  <2> QED BY <1>2, <1>3, <2>1, <2>2, PlainCalls, StoppingCalls
<1>6. CASE ReturnInIdle /\ UNCHANGED driverVars
  <2>1. /\ todo = <<>> /\ todo' = <<>> /\ returning # "no"
        /\ UNCHANGED <<active, task>>
    BY <1>6 DEF ReturnInIdle, MainLoop, deviceVars, driverVars, taskVars
  <2>2. ~active /\ task = "none"
    BY <2>1, InLoop, QuietCases DEF MainLoop, Settled, Rest, Free
  <2>3. Off /\ Off'
    BY <2>1, <2>2, PlainCalls, SeamAsIs, SeamAtRest
  <2>4. isOpen \in BOOLEAN /\ isOpen' \in BOOLEAN
    BY DEF TypeOK
  <2>5. CASE UNCHANGED isOpen
    BY <2>1, <2>3, <2>5, SeamStays
  <2>6. CASE isOpen' = ~isOpen
    BY <2>1, <2>2, <2>3, <2>4, <2>6, SeamOpen
  <2> QED BY <2>4, <2>5, <2>6
<1>7. CASE RetryTimeout
  BY <1>2, <1>7, PlainCalls
     DEF RetryTimeout, Dispatch, MainLoop, actionVars, deviceVars, Call
<1>8. CASE Scan
  <2>1. UNCHANGED <<isOpen, active, task>> /\ MainLoop
    BY <1>8
       DEF Scan, MinutiaeDetected, ScanCancelled, ScanForCapture, ScanForEnroll,
           ScanForMatch, Dispatch, actionVars, driverVars, taskVars
  <2>2. \/ \E err : todo' = << Call("maybeComplete", err), Call("deactivate", "") >>
        \/ \E err : todo' = << Call("maybeComplete", err) >>
        \/ todo' = << Call("maybeAwaitOn", "") >>
    BY <1>8
       DEF Scan, MinutiaeDetected, ScanCancelled, ScanForCapture, ScanForEnroll,
           ScanForMatch, Dispatch, Call
  <2> QED BY <1>2, <1>3, <2>1, <2>2, PlainCalls, StoppingCalls
<1>9. CASE DeadlinePasses \/ UNCHANGED vars
  <2>1. UNCHANGED <<todo, isOpen, active, task>>
    BY <1>9 DEF DeadlinePasses, vars, imageVars, actionVars, deviceVars, driverVars,
                taskVars
  <2> QED BY <2>1, SeamSame DEF InSession, Due, Stopping, CalledFor, Calls
<1> QED BY <1>4, <1>5, <1>6, <1>7, <1>8, <1>9, LayerSeam, DriverSeam DEF Next, Loop

\* The layer and the driver implement TaskProtocol: the tasks are started in
\* the order the sensor's side is written for, and none after the session is
\* stopped, through every nested completion (gxfp_change_state,
\* gxfp_task_finished, gxfp_deactivate).
THEOREM TaskOrderHolds == Spec => TaskOrder
<1>1. Init => Tasking!TaskInit
  <2> SUFFICES ASSUME Init PROVE Tasking!TaskInit
    OBVIOUS
  <2>1. todo = <<>> /\ ~active /\ isOpen = FALSE /\ task = "none"
    BY DEF Init, ImageInit
  <2>2. Off
    BY <2>1, PlainCalls, SeamAsIs, SeamAtRest
  <2> QED BY <2>1, <2>2 DEF Tasking!TaskInit, Off, Due, InSession
<1>2. Init => OpenInv
  BY DEF Init, ImageInit, OpenInv, CaptureActions, Matching
<1>3. OpenInv /\ [Next]_vars => OpenInv'
  BY OpenStep
<1>4. IInv /\ IInv' /\ OpenInv /\ [Next]_vars => [Tasking!TaskNext]_Tasking!seamVars
  BY SeamStep
<1> QED BY <1>1, <1>2, <1>3, <1>4, Invariance, PTL
        DEF Spec, TaskOrder, Tasking!TaskSpec

=============================================================================
