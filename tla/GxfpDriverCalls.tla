-------------------------- MODULE GxfpDriverCalls --------------------------
(***************************************************************************)
(* The calls the image-device layer and the GXFP driver make of each other.*)
(* CallInv says which calls may be under way, and how far the layer and    *)
(* the driver are when they are; the lemmas show that it holds through     *)
(* every call and every source of the main loop, for any number of enroll  *)
(* stages.  GxfpDriverProofs takes it from there.                          *)
(***************************************************************************)
EXTENDS GxfpDriverProps, TLAPS, SequenceTheorems

-----------------------------------------------------------------------------
\* How far the layer and the driver are, whatever calls are under way.

UnderWay == action \in CaptureActions /\ returning = "no"

Free  == task = "none" /\ ~timeout
Armed == ~deactivating /\ ~completeSent
Rest  == ~active /\ Free

\* There are stages left to scan; and why a session is stopped.
More   == action = "enroll" => enrollStage < NumStages
Reason == action = "enroll" =>
            actionError # "none" \/ cancelled \/ enrollStage = NumStages

\* No action, or one that has its result, or one of no interest here.
Settled == Rest /\ ~scanActive

\* Activated, and no task running, in one of the states.
AnyOf == {"idle", "awaitOn", "capture", "awaitOff"}
Session(states) == UnderWay /\ active /\ state \in states /\ Free /\ Armed

\* A task runs, and it is the one the state asks for.
Activating ==
  /\ UnderWay /\ ~active /\ state = "activating" /\ task = "activate" /\ Armed
  /\ ~scanActive /\ More

Tasked ==
  /\ UnderWay /\ active /\ task \in DOMAIN StateOfTask /\ Armed
  /\ state = StateOfTask[task]
  /\ task \in {"waitDown", "capture"} => ~scanActive
  /\ task \in {"capture", "waitUp"} => fingerPresent

\* An enrolment waits for the scan before the next finger.
Pausing == Session({"idle"}) /\ action = "enroll"

\* The session is being stopped; it is over, and its action not yet.
Halting == UnderWay /\ active /\ state = "deactivating" /\ Reason
Stopped == UnderWay /\ Rest /\ deactivating /\ Reason
Expects == action # "enroll" => scanActive

-----------------------------------------------------------------------------
\* The calls under way, and what may be said when they are.

Call(f, arg) == <<f, arg>>
To(s) == Call("changeState", s)
In(s) == Call("stateChanged", s)

AtHome == action = "none" /\ returning = "no" /\ Settled
Ended  == action # "none" /\ returning # "no" /\ Settled

\* Between dispatches.
Quiet ==
  /\ todo = <<>>
  /\ \/ AtHome \/ Ended
     \/ Activating /\ timeout
     \/ Tasked /\ timeout /\ More
     \/ Pausing /\ More
     \/ Stopped /\ Expects

OpenOrClose ==
  /\ returning = "no" /\ Settled
  /\ \/ todo = << Call("open", "") >> /\ action = "open"
     \/ /\ \E err \in {"none", "fatal"} : todo = << Call("openComplete", err) >>
        /\ action = "open"
     \/ todo = << Call("close", "") >> /\ action = "close"
     \/ todo = << Call("closeComplete", "") >> /\ action = "close"

Starting ==
  /\ UnderWay /\ Settled /\ More
  /\ \/ todo = << To("activating"), Call("activate", "") >>
     \/ /\ todo = << In("activating"), Call("activate", "") >>
        /\ state = "activating"
     \/ todo = << Call("activate", "") >> /\ state = "activating"
     \/ /\ \E err \in {"none", "fatal"} :
             todo = << Call("activateComplete", err) >>
        /\ state = "activating" /\ Armed

Running ==
  /\ Activating \/ (Tasked /\ More)
  /\ ~timeout
  /\ \/ todo = << Call("run", "") >>
     \/ todo = << Call("finished", "fatal") >>
     \/ todo = << Call("finished", "none") >> /\ (task = "capture" => captured)

\* A finger is asked for: no scan runs.
ToFinger ==
  /\ ~scanActive /\ More
  /\ \/ todo = << To("idle"), To("awaitOn") >> /\ Session({"activating"})
     \/ todo = << In("idle"), To("awaitOn") >> /\ Session({"idle"})
     \/ todo = << To("awaitOn") >> /\ Session({"idle"})
     \/ todo = << In("awaitOn") >> /\ Session({"awaitOn"})
     \/ todo = << Call("reportFinger", "on") >> /\ Session({"awaitOn"})
     \/ todo = << To("capture") >> /\ Session({"awaitOn"}) /\ fingerPresent
     \/ todo = << In("capture") >> /\ Session({"capture"}) /\ fingerPresent
     \/ /\ todo = << Call("imageCaptured", "") >>
        /\ Session({"capture"}) /\ fingerPresent

\* A scan may run, and the finger is to be lifted.
FromFinger ==
  /\ More
  /\ \/ todo = << To("awaitOff") >> /\ Session({"capture"}) /\ fingerPresent
     \/ todo = << In("awaitOff") >> /\ Session({"awaitOff"}) /\ fingerPresent
     \/ todo = << Call("reportFinger", "off") >> /\ Session({"awaitOff"})
     \/ /\ todo = << To("idle"), Call("maybeAwaitOn", "") >>
        /\ Session({"awaitOff"}) /\ action = "enroll"
     \/ todo = << In("idle"), Call("maybeAwaitOn", "") >> /\ Pausing
     \/ /\ todo = << To("idle"), Call("deactivate", "") >>
        /\ Session({"awaitOff"}) /\ action # "enroll"
     \/ /\ todo = << In("idle"), Call("deactivate", "") >>
        /\ Session({"idle"}) /\ action # "enroll"

\* A scan's result, an error or a cancellation reaches the layer.
Reporting ==
  \/ /\ todo = << Call("maybeAwaitOn", "") >> /\ action = "enroll"
     /\ \/ Tasked /\ timeout /\ More /\ fingerPresent
        \/ Pausing /\ More
        \/ Stopped
  \/ \E err \in Errors :
       /\ todo = << Call("maybeComplete", err) >>
       /\ (Tasked /\ timeout /\ action # "enroll") \/ Stopped
  \/ \E err \in Errors :
       /\ todo = << Call("maybeComplete", err), Call("deactivate", "") >>
       /\ (Tasked /\ timeout) \/ Session(AnyOf) \/ Stopped
       /\ Reason \/ err # "none"
  \/ todo = << Call("sessionError", "fatal") >> /\ Session(AnyOf)
  \/ /\ todo = << Call("deactivate", "") >>
     /\ \/ Tasked /\ timeout /\ Reason
        \/ Session(AnyOf) /\ Reason
        \/ Activating /\ timeout
        \/ Stopped /\ Expects
        \/ Ended

\* An enrolment's next finger is asked for after its session has stopped.
Stalling ==
  /\ todo = << To("awaitOn") >> \/ todo = << In("awaitOn") >>
  /\ Stopped /\ action = "enroll"

\* The session is stopped, and the driver answers.
Ending ==
  \/ /\ todo = << To("deactivating"), Call("driverDeactivate", "") >>
     /\ (Tasked /\ timeout) \/ Session(AnyOf)
     /\ Reason
  \/ /\ \/ todo = << In("deactivating"), Call("driverDeactivate", "") >>
        \/ todo = << Call("driverDeactivate", "") >>
     /\ Halting /\ Armed /\ (timeout => task # "none")
  \/ /\ todo = << Call("finished", "cancelled") >>
     /\ Halting /\ deactivating /\ ~completeSent /\ ~timeout
  \/ /\ todo = << Call("deactivateComplete", "") >>
     /\ Halting /\ deactivating /\ Free
  \/ todo = << To("inactive"), Call("maybeComplete", "none") >> /\ Stopped
  \/ todo = << In("inactive"), Call("maybeComplete", "none") >> /\ Stopped

CallInv ==
  \/ Quiet \/ OpenOrClose \/ Starting \/ Running \/ ToFinger \/ FromFinger
  \/ Reporting \/ Stalling \/ Ending

\* Cancellations and suspends belong to an action.
AskInv ==
  /\ power = "suspended" => action = "none"
  /\ power = "cancelling" => action \in CaptureActions
  /\ cancelIdle => cancelled /\ returning = "no"
  /\ action = "none" => ~cancelled

\* What holds at any time of fingers, of scans and of results.
FlowInv ==
  /\ fingerPresent => active
  /\ scanActive => More

-----------------------------------------------------------------------------
\* The stack of calls.

\* What a call is made of.
LEMMA Calling ==
  ASSUME NEW f, NEW arg
  PROVE  /\ Call(f, arg)[1] = f /\ Call(f, arg)[2] = arg
         /\ To(arg)[1] = "changeState" /\ To(arg)[2] = arg
         /\ In(arg)[1] = "stateChanged" /\ In(arg)[2] = arg
BY DEF Call, To, In

\* What a stack of one or of two calls is made of.
LEMMA OneCall ==
  ASSUME NEW c, todo = <<c>>
  PROVE  todo # <<>> /\ Head(todo) = c /\ Tail(todo) = <<>>
OBVIOUS

LEMMA TwoCalls ==
  ASSUME NEW c, NEW d, todo = <<c, d>>
  PROVE  todo # <<>> /\ Head(todo) = c /\ Tail(todo) = <<d>>
OBVIOUS

\* No calls, one or two are put in front of none or one.
LEMMA InFront ==
  ASSUME NEW c, NEW d
  PROVE  /\ <<>> \o <<>> = <<>>
         /\ <<>> \o <<c>> = <<c>>
         /\ <<c>> \o <<>> = <<c>>
         /\ <<c, d>> \o <<>> = <<c, d>>
         /\ <<c>> \o <<d>> = <<c, d>>
<1>1. /\ <<>> \in Seq({c, d}) /\ <<c>> \in Seq({c, d})
      /\ <<d>> \in Seq({c, d}) /\ <<c, d>> \in Seq({c, d})
  OBVIOUS
<1>2. /\ <<>> \o <<>> = <<>> /\ <<>> \o <<c>> = <<c>>
      /\ <<c>> \o <<>> = <<c>> /\ <<c, d>> \o <<>> = <<c, d>>
  BY <1>1, ConcatEmptySeq
<1>3. <<c>> \o <<d>> = <<c, d>>
  <2>1. Len(<<c>> \o <<d>>) = 2
    BY <1>1
  <2>2. \A i \in 1..2 : (<<c>> \o <<d>>)[i] = <<c, d>>[i]
    BY <1>1
  <2> QED BY <1>1, <2>1, <2>2, SeqEqual, ConcatProperties
<1> QED BY <1>2, <1>3

\* The last call under way returns, or makes one or two calls.
LEMMA LastReturns ==
  ASSUME NEW c, todo = <<c>>, Return \/ ReturnCalling(<<>>)
  PROVE  todo' = <<>>
BY OneCall, InFront DEF Return, ReturnCalling

LEMMA LastCalls ==
  ASSUME NEW c, NEW e, todo = <<c>>, ReturnCalling(<<e>>)
  PROVE  todo' = <<e>>
BY OneCall, InFront DEF ReturnCalling

LEMMA LastCallsTwo ==
  ASSUME NEW c, NEW e, NEW f, todo = <<c>>, ReturnCalling(<<e, f>>)
  PROVE  todo' = <<e, f>>
BY OneCall, InFront DEF ReturnCalling

\* The first of two calls returns, or makes one call.
LEMMA FirstReturns ==
  ASSUME NEW c, NEW d, todo = <<c, d>>, Return \/ ReturnCalling(<<>>)
  PROVE  todo' = <<d>>
BY TwoCalls, InFront DEF Return, ReturnCalling

LEMMA FirstCalls ==
  ASSUME NEW c, NEW d, NEW e, todo = <<c, d>>, ReturnCalling(<<e>>)
  PROVE  todo' = <<e, d>>
BY TwoCalls, InFront DEF ReturnCalling

\* The function called and its argument, of a stack of one or of two calls.
LEMMA CalleeOne ==
  ASSUME NEW f, NEW g, NEW arg
  PROVE  todo = << Call(g, arg) >> => Arg = arg /\ (Called(f) => f = g)
BY OneCall, Calling DEF Called, Arg

LEMMA CalleeTwo ==
  ASSUME NEW f, NEW g, NEW arg, NEW d
  PROVE  todo = << Call(g, arg), d >> => Arg = arg /\ (Called(f) => f = g)
BY TwoCalls, Calling DEF Called, Arg

\* Which functions are called in which situation.
LEMMA Callers ==
  ASSUME NEW f, Called(f)
  PROVE  /\ ~Quiet
         /\ OpenOrClose => f \in {"open", "openComplete", "close", "closeComplete"}
         /\ Starting => f \in {"changeState", "stateChanged", "activate",
                               "activateComplete"}
         /\ Running => f \in {"run", "finished"}
         /\ ToFinger => f \in {"changeState", "stateChanged", "reportFinger",
                               "imageCaptured"}
         /\ FromFinger => f \in {"changeState", "stateChanged", "reportFinger"}
         /\ Reporting => f \in {"maybeAwaitOn", "maybeComplete", "sessionError",
                                "deactivate"}
         /\ Stalling => f \in {"changeState", "stateChanged"}
         /\ Ending => f \in {"changeState", "stateChanged", "driverDeactivate",
                             "finished", "deactivateComplete"}
<1>2. ~Quiet
  BY DEF Called, Quiet
<1>3. OpenOrClose => f \in {"open", "openComplete", "close", "closeComplete"}
  BY CalleeOne, CalleeTwo DEF OpenOrClose, To, In
<1>4. Starting => f \in {"changeState", "stateChanged", "activate",
                         "activateComplete"}
  BY CalleeOne, CalleeTwo DEF Starting, To, In
<1>5. Running => f \in {"run", "finished"}
  BY CalleeOne, CalleeTwo DEF Running, To, In
<1>6. ToFinger => f \in {"changeState", "stateChanged", "reportFinger",
                         "imageCaptured"}
  BY CalleeOne, CalleeTwo DEF ToFinger, To, In
<1>7. FromFinger => f \in {"changeState", "stateChanged", "reportFinger"}
  BY CalleeOne, CalleeTwo DEF FromFinger, To, In
<1>8. Reporting => f \in {"maybeAwaitOn", "maybeComplete", "sessionError",
                          "deactivate"}
  BY CalleeOne, CalleeTwo DEF Reporting, To, In
<1>9. Stalling => f \in {"changeState", "stateChanged"}
  BY CalleeOne, CalleeTwo DEF Stalling, To, In
<1>10. Ending => f \in {"changeState", "stateChanged", "driverDeactivate",
                        "finished", "deactivateComplete"}
  BY CalleeOne, CalleeTwo DEF Ending, To, In
<1> QED BY <1>2, <1>3, <1>4, <1>5, <1>6, <1>7, <1>8, <1>9, <1>10

-----------------------------------------------------------------------------
\* The calls of the layer.

LEMMA ChangeStateCalls ==
  ASSUME CallInv, ChangeState, UNCHANGED driverVars
  PROVE  CallInv'
<1>1. /\ UNCHANGED <<action, returning, active, task, timeout, deactivating,
                     completeSent, scanActive, fingerPresent, enrollStage,
                     actionError, cancelled>>
      /\ Called("changeState") /\ state' = Arg
  BY DEF ChangeState, actionVars, flowVars, driverVars, taskVars
<1>2. /\ UnderWay' = UnderWay /\ Settled' = Settled /\ More' = More
      /\ Reason' = Reason /\ Stopped' = Stopped
      /\ \A s : Session({s}) /\ state' = "idle" => Session({"idle"})'
      /\ \A s : Session({s}) /\ state' = "awaitOn" => Session({"awaitOn"})'
      /\ \A s : Session({s}) /\ state' = "capture" => Session({"capture"})'
      /\ \A s : Session({s}) /\ state' = "awaitOff" => Session({"awaitOff"})'
  BY <1>1 DEF UnderWay, Settled, Rest, Free, More, Reason, Stopped, Session, Armed
<1>3. ASSUME NEW s, todo = << To(s) >>
      PROVE  todo' = << In(s) >> /\ state' = s
  BY <1>1, <1>3, CalleeOne, LastCalls DEF ChangeState, To, In, Call
<1>4. ASSUME NEW s, NEW d, todo = << To(s), d >>
      PROVE  todo' = << In(s), d >> /\ state' = s
  BY <1>1, <1>4, CalleeTwo, FirstCalls DEF ChangeState, To, In, Call
<1>5. CASE Starting
  <2>1. todo = << To("activating"), Call("activate", "") >>
    BY <1>1, <1>5, CalleeOne, CalleeTwo DEF Starting, In
  <2>2. Starting'
    BY <1>1, <1>2, <1>4, <1>5, <2>1 DEF Starting
  <2> QED BY <2>2 DEF CallInv
<1>6. CASE ToFinger
  <2>1. CASE todo = << To("idle"), To("awaitOn") >> /\ Session({"activating"})
    BY <1>1, <1>2, <1>4, <1>6, <2>1 DEF ToFinger, CallInv
  <2>2. CASE todo = << To("awaitOn") >> /\ Session({"idle"})
    BY <1>1, <1>2, <1>3, <1>6, <2>2 DEF ToFinger, CallInv
  <2>3. CASE todo = << To("capture") >> /\ Session({"awaitOn"}) /\ fingerPresent
    BY <1>1, <1>2, <1>3, <1>6, <2>3 DEF ToFinger, CallInv
  <2>4. /\ todo # << In("idle"), To("awaitOn") >>
        /\ todo # << In("awaitOn") >>
        /\ todo # << Call("reportFinger", "on") >>
        /\ todo # << In("capture") >>
        /\ todo # << Call("imageCaptured", "") >>
    BY <1>1, CalleeOne, CalleeTwo DEF In
  <2> QED BY <1>6, <2>1, <2>2, <2>3, <2>4 DEF ToFinger
<1>7. CASE FromFinger
  <2>1. CASE todo = << To("awaitOff") >> /\ Session({"capture"}) /\ fingerPresent
    BY <1>1, <1>2, <1>3, <1>7, <2>1 DEF FromFinger, CallInv
  <2>2. CASE /\ todo = << To("idle"), Call("maybeAwaitOn", "") >>
             /\ Session({"awaitOff"}) /\ action = "enroll"
    BY <1>1, <1>2, <1>4, <1>7, <2>2 DEF FromFinger, Pausing, CallInv
  <2>3. CASE /\ todo = << To("idle"), Call("deactivate", "") >>
             /\ Session({"awaitOff"}) /\ action # "enroll"
    BY <1>1, <1>2, <1>4, <1>7, <2>3 DEF FromFinger, CallInv
  <2>4. /\ todo # << In("awaitOff") >>
        /\ todo # << Call("reportFinger", "off") >>
        /\ todo # << In("idle"), Call("maybeAwaitOn", "") >>
        /\ todo # << In("idle"), Call("deactivate", "") >>
    BY <1>1, CalleeOne, CalleeTwo DEF In
  <2> QED BY <1>7, <2>1, <2>2, <2>3, <2>4 DEF FromFinger
<1>8. CASE Stalling
  <2>1. todo = << To("awaitOn") >>
    BY <1>1, <1>8, CalleeOne, CalleeTwo DEF Stalling, In
  <2> QED BY <1>1, <1>2, <1>3, <1>8, <2>1 DEF Stalling, CallInv
<1>9. CASE Ending
  <2>1. CASE /\ todo = << To("deactivating"), Call("driverDeactivate", "") >>
             /\ (Tasked /\ timeout) \/ Session(AnyOf)
             /\ Reason
    <3>1. /\ todo' = << In("deactivating"), Call("driverDeactivate", "") >>
          /\ state' = "deactivating"
      BY <1>4, <2>1
    <3>2. UnderWay /\ active /\ Armed /\ (timeout => task # "none")
      BY <2>1 DEF Tasked, Session, Free, StateOfTask
    <3>3. (Halting /\ Armed /\ (timeout => task # "none"))'
      BY <1>1, <1>2, <2>1, <3>1, <3>2 DEF Halting, Armed
    <3> QED BY <3>1, <3>3 DEF Ending, CallInv
  <2>2. CASE todo = << To("inactive"), Call("maybeComplete", "none") >> /\ Stopped
    BY <1>1, <1>2, <1>4, <2>2 DEF Ending, CallInv
  <2>3. /\ todo # << In("deactivating"), Call("driverDeactivate", "") >>
        /\ todo # << Call("driverDeactivate", "") >>
        /\ todo # << Call("finished", "cancelled") >>
        /\ todo # << Call("deactivateComplete", "") >>
        /\ todo # << In("inactive"), Call("maybeComplete", "none") >>
    BY <1>1, CalleeOne, CalleeTwo DEF In
  <2> QED BY <1>9, <2>1, <2>2, <2>3 DEF Ending
<1> QED BY <1>1, <1>5, <1>6, <1>7, <1>8, <1>9, Callers DEF CallInv

LEMMA StateChangedCalls ==
  ASSUME CallInv, StateChanged
  PROVE  CallInv'
<1>1. /\ UNCHANGED <<action, returning, active, timeout, deactivating,
                     completeSent, scanActive, fingerPresent, enrollStage,
                     actionError, cancelled, state>>
      /\ Called("stateChanged")
  BY DEF StateChanged, actionVars, deviceVars, flowVars
<1>2. /\ UnderWay' = UnderWay /\ More' = More /\ Reason' = Reason /\ Armed' = Armed
      /\ task' = task => /\ Settled' = Settled /\ Stopped' = Stopped
                         /\ Pausing' = Pausing /\ Halting' = Halting
                         /\ \A S : Session(S)' = Session(S)
  BY <1>1 DEF UnderWay, Settled, Rest, Free, More, Reason, Stopped, Session, Armed,
              Pausing, Halting
<1>3. ASSUME NEW s \in DOMAIN TaskOf, todo = << In(s) >>, Session({s})
      PROVE  todo' = << Call("run", "") >> /\ task' = TaskOf[s]
  BY <1>1, <1>3, CalleeOne, LastCalls
     DEF StateChanged, StartTask, Session, Free, Armed, In, Call
<1>4. ASSUME NEW s, NEW d, todo = << In(s), d >>, s \notin DOMAIN TaskOf
      PROVE  todo' = <<d>> /\ task' = task
  BY <1>1, <1>4, CalleeTwo, FirstReturns DEF StateChanged, In
<1>5. CASE Starting
  <2>1. /\ todo = << In("activating"), Call("activate", "") >>
        /\ state = "activating"
    <3>1. /\ todo # << To("activating"), Call("activate", "") >>
          /\ todo # << Call("activate", "") >>
      BY <1>1, CalleeOne, CalleeTwo DEF To
    <3>2. ASSUME NEW err
          PROVE  todo # << Call("activateComplete", err) >>
      BY <1>1, CalleeOne, CalleeTwo
    <3> QED BY <1>5, <3>1, <3>2 DEF Starting
  <2>2. todo' = << Call("activate", "") >> /\ task' = task
    BY <1>4, <2>1 DEF TaskOf
  <2> QED BY <1>1, <1>2, <1>5, <2>1, <2>2 DEF Starting, CallInv
<1>6. CASE ToFinger
  <2>1. CASE todo = << In("idle"), To("awaitOn") >> /\ Session({"idle"})
    <3>1. todo' = << To("awaitOn") >> /\ task' = task
      BY <1>4, <2>1 DEF TaskOf
    <3> QED BY <1>1, <1>2, <1>6, <2>1, <3>1 DEF ToFinger, CallInv
  <2>2. CASE todo = << In("awaitOn") >> /\ Session({"awaitOn"})
    <3>1. todo' = << Call("run", "") >> /\ task' = "waitDown"
      BY <1>3, <2>2 DEF TaskOf
    <3>2. Tasked' /\ ~timeout'
      BY <1>1, <1>2, <1>6, <2>2, <3>1
         DEF Tasked, Session, Free, StateOfTask, ToFinger
    <3> QED BY <1>2, <1>6, <3>1, <3>2 DEF ToFinger, Running, CallInv
  <2>3. CASE todo = << In("capture") >> /\ Session({"capture"}) /\ fingerPresent
    <3>1. todo' = << Call("run", "") >> /\ task' = "capture"
      BY <1>3, <2>3 DEF TaskOf
    <3>2. Tasked' /\ ~timeout'
      BY <1>1, <1>2, <1>6, <2>3, <3>1
         DEF Tasked, Session, Free, StateOfTask, ToFinger
    <3> QED BY <1>2, <1>6, <3>1, <3>2 DEF ToFinger, Running, CallInv
  <2>4. /\ todo # << To("idle"), To("awaitOn") >>
        /\ todo # << To("awaitOn") >>
        /\ todo # << Call("reportFinger", "on") >>
        /\ todo # << To("capture") >>
        /\ todo # << Call("imageCaptured", "") >>
    BY <1>1, CalleeOne, CalleeTwo DEF To
  <2> QED BY <1>6, <2>1, <2>2, <2>3, <2>4 DEF ToFinger
<1>7. CASE FromFinger
  <2>1. CASE todo = << In("awaitOff") >> /\ Session({"awaitOff"}) /\ fingerPresent
    <3>1. todo' = << Call("run", "") >> /\ task' = "waitUp"
      BY <1>3, <2>1 DEF TaskOf
    <3>2. Tasked' /\ ~timeout'
      BY <1>1, <1>2, <1>7, <2>1, <3>1 DEF Tasked, Session, Free, StateOfTask
    <3> QED BY <1>2, <1>7, <3>1, <3>2 DEF FromFinger, Running, CallInv
  <2>2. CASE todo = << In("idle"), Call("maybeAwaitOn", "") >> /\ Pausing
    <3>1. todo' = << Call("maybeAwaitOn", "") >> /\ task' = task
      BY <1>4, <2>2 DEF TaskOf
    <3> QED BY <1>1, <1>2, <1>7, <2>2, <3>1
            DEF FromFinger, Reporting, Pausing, CallInv
  <2>3. CASE /\ todo = << In("idle"), Call("deactivate", "") >>
             /\ Session({"idle"}) /\ action # "enroll"
    <3>1. todo' = << Call("deactivate", "") >> /\ task' = task
      BY <1>4, <2>3 DEF TaskOf
    <3>2. Session(AnyOf)' /\ Reason'
      BY <1>1, <1>2, <2>3, <3>1 DEF Session, AnyOf, Reason
    <3> QED BY <3>1, <3>2 DEF Reporting, CallInv
  <2>4. /\ todo # << To("awaitOff") >>
        /\ todo # << Call("reportFinger", "off") >>
        /\ todo # << To("idle"), Call("maybeAwaitOn", "") >>
        /\ todo # << To("idle"), Call("deactivate", "") >>
    BY <1>1, CalleeOne, CalleeTwo DEF To
  <2> QED BY <1>7, <2>1, <2>2, <2>3, <2>4 DEF FromFinger
<1>8. CASE Stalling
  <2>1. todo = << In("awaitOn") >> /\ Stopped /\ action = "enroll"
    BY <1>1, <1>8, CalleeOne, CalleeTwo DEF Stalling, To
  <2>2. todo' = <<>> /\ task' = task
    BY <2>1, LastReturns DEF StateChanged, Stopped
  <2> QED BY <1>1, <1>2, <2>1, <2>2 DEF Quiet, Expects, CallInv
<1>9. CASE Ending
  <2>1. CASE /\ todo = << In("deactivating"), Call("driverDeactivate", "") >>
             /\ Halting /\ Armed /\ (timeout => task # "none")
    <3>1. todo' = << Call("driverDeactivate", "") >> /\ task' = task
      BY <1>4, <2>1 DEF TaskOf
    <3> QED BY <1>1, <1>2, <2>1, <3>1 DEF Ending, CallInv
  <2>2. CASE todo = << In("inactive"), Call("maybeComplete", "none") >> /\ Stopped
    <3>1. todo' = << Call("maybeComplete", "none") >> /\ task' = task
      BY <1>4, <2>2 DEF TaskOf
    <3> QED BY <1>2, <2>2, <3>1 DEF Reporting, Errors, CallInv
  <2>3. /\ todo # << To("deactivating"), Call("driverDeactivate", "") >>
        /\ todo # << Call("driverDeactivate", "") >>
        /\ todo # << Call("finished", "cancelled") >>
        /\ todo # << Call("deactivateComplete", "") >>
        /\ todo # << To("inactive"), Call("maybeComplete", "none") >>
    BY <1>1, CalleeOne, CalleeTwo DEF To
  <2> QED BY <1>9, <2>1, <2>2, <2>3 DEF Ending
<1> QED BY <1>1, <1>5, <1>6, <1>7, <1>8, <1>9, Callers DEF CallInv

-----------------------------------------------------------------------------
\* What holds when a function is called.

LEMMA WhenChangeState ==
  ASSUME CallInv, Called("changeState")
  PROVE  \E s \in States : todo = << To(s) >> \/ \E d : todo = << To(s), d >>
<1>1. Starting \/ ToFinger \/ FromFinger \/ Stalling \/ Ending
  BY Callers DEF CallInv
<1>2. ASSUME NEW s, NEW d
      PROVE  todo # << In(s) >> /\ todo # << In(s), d >>
  BY CalleeOne, CalleeTwo DEF In
<1>3. ASSUME NEW f, NEW arg, f # "changeState"
      PROVE  todo # << Call(f, arg) >>
  BY <1>3, CalleeOne
<1>4. CASE Starting \/ ToFinger
  BY <1>2, <1>3, <1>4 DEF Starting, ToFinger, States
<1>5. CASE FromFinger \/ Stalling
  BY <1>2, <1>3, <1>5 DEF FromFinger, Stalling, States
<1>6. CASE Ending
  BY <1>2, <1>3, <1>6 DEF Ending, States
<1> QED BY <1>1, <1>4, <1>5, <1>6

LEMMA WhenStateChanged ==
  ASSUME CallInv, Called("stateChanged")
  PROVE  \/ \E s \in {"awaitOn", "capture", "awaitOff"} :
              todo = << In(s) >> /\ Session({s})
         \/ \E s \in {"inactive", "activating", "idle", "deactivating"} :
              \E d : todo = << In(s), d >>
         \/ todo = << In("awaitOn") >> /\ Stopped
<1>1. Starting \/ ToFinger \/ FromFinger \/ Stalling \/ Ending
  BY Callers DEF CallInv
<1>2. ASSUME NEW s, NEW d
      PROVE  todo # << To(s) >> /\ todo # << To(s), d >>
  BY CalleeOne, CalleeTwo DEF To
<1>3. ASSUME NEW f, NEW arg, f # "stateChanged"
      PROVE  todo # << Call(f, arg) >>
  BY <1>3, CalleeOne
<1>4. CASE Starting \/ Ending
  BY <1>2, <1>3, <1>4 DEF Starting, Ending
<1>5. CASE ToFinger
  BY <1>2, <1>3, <1>5 DEF ToFinger
<1>6. CASE FromFinger
  BY <1>2, <1>3, <1>6 DEF FromFinger
<1>7. CASE Stalling
  BY <1>2, <1>7 DEF Stalling
<1> QED BY <1>1, <1>4, <1>5, <1>6, <1>7

LEMMA WhenOpenOrClose ==
  ASSUME CallInv
  PROVE  /\ Called("open") =>
              todo = << Call("open", "") >> /\ action = "open"
         /\ Called("openComplete") =>
              /\ \E err \in {"none", "fatal"} : todo = << Call("openComplete", err) >>
              /\ action = "open"
         /\ Called("close") =>
              todo = << Call("close", "") >> /\ action = "close"
         /\ Called("closeComplete") =>
              todo = << Call("closeComplete", "") >> /\ action = "close"
         /\ (\E f \in {"open", "openComplete", "close", "closeComplete"} : Called(f)) =>
              returning = "no" /\ Settled
<1>1. ASSUME NEW f \in {"open", "openComplete", "close", "closeComplete"}, Called(f)
      PROVE  OpenOrClose
  BY <1>1, Callers DEF CallInv
<1>2. ASSUME Called("open")
      PROVE  todo = << Call("open", "") >> /\ action = "open"
  <2>1. /\ todo # << Call("close", "") >> /\ todo # << Call("closeComplete", "") >>
        /\ \A err \in {"none", "fatal"} : todo # << Call("openComplete", err) >>
    BY <1>2, CalleeOne
  <2> QED BY <1>1, <1>2, <2>1 DEF OpenOrClose
<1>3. ASSUME Called("openComplete")
      PROVE  /\ \E err \in {"none", "fatal"} : todo = << Call("openComplete", err) >>
             /\ action = "open"
  BY <1>1, <1>3, CalleeOne DEF OpenOrClose
<1>4. ASSUME Called("close")
      PROVE  todo = << Call("close", "") >> /\ action = "close"
  BY <1>1, <1>4, CalleeOne DEF OpenOrClose
<1>5. ASSUME Called("closeComplete")
      PROVE  todo = << Call("closeComplete", "") >> /\ action = "close"
  BY <1>1, <1>5, CalleeOne DEF OpenOrClose
<1>6. ASSUME NEW f \in {"open", "openComplete", "close", "closeComplete"}, Called(f)
      PROVE  returning = "no" /\ Settled
  BY <1>1, <1>6 DEF OpenOrClose
<1> QED BY <1>2, <1>3, <1>4, <1>5, <1>6

LEMMA WhenActivate ==
  ASSUME CallInv
  PROVE  /\ Called("activate") =>
              /\ todo = << Call("activate", "") >>
              /\ UnderWay /\ Settled /\ More /\ state = "activating"
         /\ Called("activateComplete") =>
              /\ \E err \in {"none", "fatal"} :
                    todo = << Call("activateComplete", err) >>
              /\ UnderWay /\ Settled /\ More /\ state = "activating" /\ Armed
<1>1. ASSUME Called("activate")
      PROVE  /\ todo = << Call("activate", "") >>
             /\ UnderWay /\ Settled /\ More /\ state = "activating"
  <2>1. Starting
    BY <1>1, Callers DEF CallInv
  <2>2. /\ todo # << To("activating"), Call("activate", "") >>
        /\ todo # << In("activating"), Call("activate", "") >>
    BY <1>1, CalleeOne, CalleeTwo DEF To, In
  <2>3. ASSUME NEW err
        PROVE  todo # << Call("activateComplete", err) >>
    BY <1>1, CalleeOne
  <2> QED BY <2>1, <2>2, <2>3 DEF Starting
<1>2. ASSUME Called("activateComplete")
      PROVE  /\ \E err \in {"none", "fatal"} :
                    todo = << Call("activateComplete", err) >>
             /\ UnderWay /\ Settled /\ More /\ state = "activating" /\ Armed
  <2>1. Starting
    BY <1>2, Callers DEF CallInv
  <2>2. /\ todo # << To("activating"), Call("activate", "") >>
        /\ todo # << In("activating"), Call("activate", "") >>
        /\ todo # << Call("activate", "") >>
    BY <1>2, CalleeOne, CalleeTwo DEF To, In
  <2> QED BY <2>1, <2>2 DEF Starting
<1> QED BY <1>1, <1>2

LEMMA WhenRun ==
  ASSUME CallInv
  PROVE  /\ Called("run") =>
              todo = << Call("run", "") >> /\ (Activating \/ (Tasked /\ More)) /\ ~timeout
         /\ Called("finished") =>
              \/ /\ Activating \/ (Tasked /\ More)
                 /\ ~timeout
                 /\ \/ todo = << Call("finished", "fatal") >>
                    \/ /\ todo = << Call("finished", "none") >>
                       /\ task = "capture" => captured
              \/ /\ todo = << Call("finished", "cancelled") >>
                 /\ Halting /\ deactivating /\ ~completeSent /\ ~timeout
<1>1. ASSUME Called("run")
      PROVE  todo = << Call("run", "") >> /\ (Activating \/ (Tasked /\ More)) /\ ~timeout
  <2>1. Running
    BY <1>1, Callers DEF CallInv
  <2> QED BY <1>1, <2>1, CalleeOne DEF Running
<1>2. ASSUME Called("finished"), Running
      PROVE  /\ Activating \/ (Tasked /\ More)
             /\ ~timeout
             /\ \/ todo = << Call("finished", "fatal") >>
                \/ /\ todo = << Call("finished", "none") >>
                   /\ task = "capture" => captured
  <2>1. todo # << Call("run", "") >>
    BY <1>2, CalleeOne
  <2> QED BY <1>2, <2>1 DEF Running
<1>3. ASSUME Called("finished"), Ending
      PROVE  /\ todo = << Call("finished", "cancelled") >>
             /\ Halting /\ deactivating /\ ~completeSent /\ ~timeout
  <2>1. /\ todo # << To("deactivating"), Call("driverDeactivate", "") >>
        /\ todo # << In("deactivating"), Call("driverDeactivate", "") >>
        /\ todo # << Call("driverDeactivate", "") >>
        /\ todo # << Call("deactivateComplete", "") >>
        /\ todo # << To("inactive"), Call("maybeComplete", "none") >>
        /\ todo # << In("inactive"), Call("maybeComplete", "none") >>
    BY <1>3, CalleeOne, CalleeTwo DEF To, In
  <2> QED BY <1>3, <2>1 DEF Ending
<1>4. Called("finished") => Running \/ Ending
  BY Callers DEF CallInv
<1> QED BY <1>1, <1>2, <1>3, <1>4

LEMMA WhenFinger ==
  ASSUME CallInv
  PROVE  /\ Called("reportFinger") =>
              \/ /\ todo = << Call("reportFinger", "on") >>
                 /\ Session({"awaitOn"}) /\ ~scanActive /\ More
              \/ /\ todo = << Call("reportFinger", "off") >>
                 /\ Session({"awaitOff"}) /\ More
         /\ Called("imageCaptured") =>
              /\ todo = << Call("imageCaptured", "") >>
              /\ Session({"capture"}) /\ fingerPresent /\ ~scanActive /\ More
<1>1. ASSUME Called("reportFinger"), ToFinger
      PROVE  /\ todo = << Call("reportFinger", "on") >>
             /\ Session({"awaitOn"}) /\ ~scanActive /\ More
  <2>1. /\ todo # << To("idle"), To("awaitOn") >>
        /\ todo # << In("idle"), To("awaitOn") >>
        /\ todo # << To("awaitOn") >> /\ todo # << In("awaitOn") >>
        /\ todo # << To("capture") >> /\ todo # << In("capture") >>
        /\ todo # << Call("imageCaptured", "") >>
    BY <1>1, CalleeOne, CalleeTwo DEF To, In
  <2> QED BY <1>1, <2>1 DEF ToFinger
<1>2. ASSUME Called("reportFinger"), FromFinger
      PROVE  /\ todo = << Call("reportFinger", "off") >>
             /\ Session({"awaitOff"}) /\ More
  <2>1. /\ todo # << To("awaitOff") >> /\ todo # << In("awaitOff") >>
        /\ todo # << To("idle"), Call("maybeAwaitOn", "") >>
        /\ todo # << In("idle"), Call("maybeAwaitOn", "") >>
        /\ todo # << To("idle"), Call("deactivate", "") >>
        /\ todo # << In("idle"), Call("deactivate", "") >>
    BY <1>2, CalleeOne, CalleeTwo DEF To, In
  <2> QED BY <1>2, <2>1 DEF FromFinger
<1>3. ASSUME Called("imageCaptured")
      PROVE  /\ todo = << Call("imageCaptured", "") >>
             /\ Session({"capture"}) /\ fingerPresent /\ ~scanActive /\ More
  <2>1. ToFinger
    BY <1>3, Callers DEF CallInv
  <2>2. /\ todo # << To("idle"), To("awaitOn") >>
        /\ todo # << In("idle"), To("awaitOn") >>
        /\ todo # << To("awaitOn") >> /\ todo # << In("awaitOn") >>
        /\ todo # << To("capture") >> /\ todo # << In("capture") >>
        /\ todo # << Call("reportFinger", "on") >>
    BY <1>3, CalleeOne, CalleeTwo DEF To, In
  <2> QED BY <2>1, <2>2 DEF ToFinger
<1>4. Called("reportFinger") => ToFinger \/ FromFinger
  BY Callers DEF CallInv
<1> QED BY <1>1, <1>2, <1>3, <1>4

LEMMA WhenReporting ==
  ASSUME CallInv
  PROVE  /\ Called("maybeAwaitOn") =>
              /\ todo = << Call("maybeAwaitOn", "") >> /\ action = "enroll"
              /\ \/ Tasked /\ timeout /\ More /\ fingerPresent
                 \/ Pausing /\ More
                 \/ Stopped
         /\ Called("sessionError") =>
              todo = << Call("sessionError", "fatal") >> /\ Session(AnyOf)
         /\ Called("deactivate") =>
              /\ todo = << Call("deactivate", "") >>
              /\ \/ Tasked /\ timeout /\ Reason
                 \/ Session(AnyOf) /\ Reason
                 \/ Activating /\ timeout
                 \/ Stopped /\ Expects
                 \/ Ended
         /\ Called("maybeComplete") =>
              \E err \in Errors :
                \/ /\ todo = << Call("maybeComplete", err) >>
                   /\ (Tasked /\ timeout /\ action # "enroll") \/ Stopped
                \/ /\ todo = << Call("maybeComplete", err), Call("deactivate", "") >>
                   /\ (Tasked /\ timeout) \/ Session(AnyOf) \/ Stopped
                   /\ Reason \/ err # "none"
<1>1. ASSUME NEW f \in {"maybeAwaitOn", "sessionError", "deactivate", "maybeComplete"},
             Called(f)
      PROVE  Reporting
  BY <1>1, Callers DEF CallInv
<1>2. ASSUME NEW f, Called(f), f # "maybeComplete"
      PROVE  \A err : /\ todo # << Call("maybeComplete", err) >>
                      /\ todo # << Call("maybeComplete", err), Call("deactivate", "") >>
  BY <1>2, CalleeOne, CalleeTwo
<1>3. ASSUME Called("maybeAwaitOn")
      PROVE  /\ todo = << Call("maybeAwaitOn", "") >> /\ action = "enroll"
             /\ \/ Tasked /\ timeout /\ More /\ fingerPresent
                \/ Pausing /\ More
                \/ Stopped
  <2>1. Reporting
    BY <1>1, <1>3
  <2>2. /\ todo # << Call("sessionError", "fatal") >>
        /\ todo # << Call("deactivate", "") >>
    BY <1>3, CalleeOne
  <2> QED BY <1>2, <1>3, <2>1, <2>2 DEF Reporting
<1>4. ASSUME Called("sessionError")
      PROVE  todo = << Call("sessionError", "fatal") >> /\ Session(AnyOf)
  <2>1. Reporting
    BY <1>1, <1>4
  <2>2. /\ todo # << Call("maybeAwaitOn", "") >>
        /\ todo # << Call("deactivate", "") >>
    BY <1>4, CalleeOne
  <2> QED BY <1>2, <1>4, <2>1, <2>2 DEF Reporting
<1>5. ASSUME Called("deactivate")
      PROVE  /\ todo = << Call("deactivate", "") >>
             /\ \/ Tasked /\ timeout /\ Reason
                \/ Session(AnyOf) /\ Reason
                \/ Activating /\ timeout
                \/ Stopped /\ Expects
                \/ Ended
  <2>1. Reporting
    BY <1>1, <1>5
  <2>2. /\ todo # << Call("maybeAwaitOn", "") >>
        /\ todo # << Call("sessionError", "fatal") >>
    BY <1>5, CalleeOne
  <2> QED BY <1>2, <1>5, <2>1, <2>2 DEF Reporting
<1>6. ASSUME Called("maybeComplete")
      PROVE  \E err \in Errors :
                \/ /\ todo = << Call("maybeComplete", err) >>
                   /\ (Tasked /\ timeout /\ action # "enroll") \/ Stopped
                \/ /\ todo = << Call("maybeComplete", err), Call("deactivate", "") >>
                   /\ (Tasked /\ timeout) \/ Session(AnyOf) \/ Stopped
                   /\ Reason \/ err # "none"
  <2>1. Reporting
    BY <1>1, <1>6
  <2>2. /\ todo # << Call("maybeAwaitOn", "") >>
        /\ todo # << Call("sessionError", "fatal") >>
        /\ todo # << Call("deactivate", "") >>
    BY <1>6, CalleeOne
  <2> QED BY <2>1, <2>2 DEF Reporting
<1> QED BY <1>3, <1>4, <1>5, <1>6

LEMMA WhenEnding ==
  ASSUME CallInv
  PROVE  /\ Called("driverDeactivate") =>
              /\ todo = << Call("driverDeactivate", "") >>
              /\ Halting /\ Armed /\ (timeout => task # "none")
         /\ Called("deactivateComplete") =>
              /\ todo = << Call("deactivateComplete", "") >>
              /\ Halting /\ deactivating /\ Free
<1>1. ASSUME NEW f \in {"driverDeactivate", "deactivateComplete"}, Called(f)
      PROVE  /\ Ending
             /\ todo # << To("deactivating"), Call("driverDeactivate", "") >>
             /\ todo # << In("deactivating"), Call("driverDeactivate", "") >>
             /\ todo # << Call("finished", "cancelled") >>
             /\ todo # << To("inactive"), Call("maybeComplete", "none") >>
             /\ todo # << In("inactive"), Call("maybeComplete", "none") >>
  <2>1. Ending
    BY <1>1, Callers DEF CallInv
  <2>2. f # "changeState" /\ f # "stateChanged" /\ f # "finished"
    BY <1>1
  <2>3. /\ todo # << To("deactivating"), Call("driverDeactivate", "") >>
        /\ todo # << In("deactivating"), Call("driverDeactivate", "") >>
        /\ todo # << Call("finished", "cancelled") >>
        /\ todo # << To("inactive"), Call("maybeComplete", "none") >>
        /\ todo # << In("inactive"), Call("maybeComplete", "none") >>
    BY <1>1, <2>2, CalleeOne, CalleeTwo DEF To, In
  <2> QED BY <2>1, <2>3
<1>2. ASSUME Called("driverDeactivate")
      PROVE  /\ todo = << Call("driverDeactivate", "") >>
             /\ Halting /\ Armed /\ (timeout => task # "none")
  <2>1. todo # << Call("deactivateComplete", "") >>
    BY <1>2, CalleeOne
  <2> QED BY <1>1, <1>2, <2>1 DEF Ending
<1>3. ASSUME Called("deactivateComplete")
      PROVE  /\ todo = << Call("deactivateComplete", "") >>
             /\ Halting /\ deactivating /\ Free
  <2>1. todo # << Call("driverDeactivate", "") >>
    BY <1>3, CalleeOne
  <2> QED BY <1>1, <1>3, <2>1 DEF Ending
<1> QED BY <1>2, <1>3

-----------------------------------------------------------------------------
\* The calls of the layer, one by one.

LEMMA OpenOrCloseCalls ==
  ASSUME CallInv, OpenComplete \/ CloseComplete, UNCHANGED driverVars
  PROVE  CallInv'
<1>1. /\ UNCHANGED <<action, active, task, timeout, scanActive>>
      /\ returning' \in {"ok", "error"} /\ Return
      /\ Called("openComplete") \/ Called("closeComplete")
  BY DEF OpenComplete, CloseComplete, Complete, flowVars, driverVars, taskVars
<1>2. /\ action # "none" /\ Settled
      /\ \E c : todo = << c >>
  BY <1>1, WhenOpenOrClose
<1>3. todo' = <<>>
  BY <1>1, <1>2, LastReturns
<1>4. Ended'
  BY <1>1, <1>2 DEF Ended, Settled, Rest, Free
<1> QED BY <1>3, <1>4 DEF Quiet, CallInv

LEMMA DeactivateCalls ==
  ASSUME CallInv, Deactivate, UNCHANGED driverVars
  PROVE  CallInv'
<1>1. /\ UNCHANGED <<action, returning, active, task, timeout, deactivating,
                     completeSent, scanActive, fingerPresent, enrollStage,
                     actionError, cancelled, state>>
      /\ Called("deactivate")
  BY DEF Deactivate, actionVars, deviceVars, flowVars, driverVars, taskVars
<1>2. /\ Tasked' = Tasked /\ Session(AnyOf)' = Session(AnyOf)
      /\ Activating' = Activating /\ Stopped' = Stopped /\ Ended' = Ended
      /\ Reason' = Reason /\ Expects' = Expects /\ timeout' = timeout
  BY <1>1 DEF UnderWay, Settled, Rest, Free, More, Reason, Stopped, Session, Armed,
              Tasked, Activating, Ended, Expects
<1>3. /\ todo = << Call("deactivate", "") >>
      /\ \/ Tasked /\ timeout /\ Reason
         \/ Session(AnyOf) /\ Reason
         \/ Activating /\ timeout
         \/ Stopped /\ Expects
         \/ Ended
  BY <1>1, WhenReporting
<1>4. CASE ((Tasked /\ timeout) \/ Session(AnyOf)) /\ Reason
  <2>1. active /\ state # "deactivating"
    BY <1>4 DEF Tasked, Session, AnyOf, StateOfTask
  <2>2. todo' = << To("deactivating"), Call("driverDeactivate", "") >>
    BY <1>3, <2>1, LastCallsTwo DEF Deactivate, To, Call
  <2> QED BY <1>2, <1>4, <2>2 DEF Ending, CallInv
<1>5. CASE (Activating /\ timeout) \/ (Stopped /\ Expects) \/ Ended
  <2>1. ~active
    BY <1>5 DEF Activating, Stopped, Ended, Settled, Rest
  <2>2. todo' = <<>>
    BY <1>3, <2>1, LastReturns DEF Deactivate
  <2>3. ((Activating /\ timeout) \/ (Stopped /\ Expects) \/ Ended)'
    BY <1>2, <1>5
  <2> QED BY <2>2, <2>3 DEF Quiet, CallInv
<1> QED BY <1>3, <1>4, <1>5

LEMMA ActivateCompleteCalls ==
  ASSUME CallInv, ActivateComplete, UNCHANGED driverVars
  PROVE  CallInv'
<1>1. /\ UNCHANGED <<action, task, timeout, deactivating, completeSent, scanActive,
                     enrollStage, state>>
      /\ Called("activateComplete")
  BY DEF ActivateComplete, flowVars, driverVars, taskVars
<1>2. /\ \E err \in {"none", "fatal"} :
            todo = << Call("activateComplete", err) >> /\ Arg = err
      /\ UnderWay /\ Settled /\ More /\ state = "activating" /\ Armed
  BY <1>1, WhenActivate, CalleeOne
<1>3. ~active /\ action # "none"
  BY <1>2 DEF Settled, Rest, UnderWay, CaptureActions, Matching
<1>4. CASE Arg = "none"
  <2>1. /\ todo' = << To("idle"), To("awaitOn") >>
        /\ active' /\ UNCHANGED returning
    BY <1>2, <1>3, <1>4, LastCallsTwo DEF ActivateComplete, To, Call
  <2>2. Session({"activating"})' /\ ~scanActive' /\ More'
    BY <1>1, <1>2, <2>1 DEF Session, Settled, Rest, Free, Armed, UnderWay, More
  <2> QED BY <2>1, <2>2 DEF ToFinger, CallInv
<1>5. CASE Arg # "none"
  <2>1. todo' = <<>> /\ UNCHANGED active /\ returning' = "error"
    BY <1>2, <1>3, <1>5, LastReturns DEF ActivateComplete, Complete
  <2>2. Ended'
    BY <1>1, <1>2, <1>3, <2>1 DEF Ended, Settled, Rest, Free
  <2> QED BY <2>1, <2>2 DEF Quiet, CallInv
<1> QED BY <1>4, <1>5

LEMMA DeactivateCompleteCalls ==
  ASSUME CallInv, DeactivateComplete, UNCHANGED driverVars
  PROVE  CallInv'
<1>1. /\ UNCHANGED <<action, returning, task, timeout, deactivating,
                     enrollStage, actionError, cancelled>>
      /\ Called("deactivateComplete")
  BY DEF DeactivateComplete, actionVars, driverVars, taskVars
<1>2. /\ todo = << Call("deactivateComplete", "") >>
      /\ Halting /\ deactivating /\ Free
  BY <1>1, WhenEnding
<1>3. /\ todo' = << To("inactive"), Call("maybeComplete", "none") >>
      /\ active' = FALSE
  BY <1>2, LastCallsTwo DEF DeactivateComplete, Halting, To, Call
<1>4. Stopped'
  BY <1>1, <1>2, <1>3 DEF Stopped, Halting, UnderWay, Rest, Free, Reason
<1> QED BY <1>3, <1>4 DEF Ending, CallInv

LEMMA EnrollMaybeAwaitOnCalls ==
  ASSUME CallInv, EnrollMaybeAwaitOn, UNCHANGED driverVars
  PROVE  CallInv'
<1>1. /\ UNCHANGED <<action, returning, active, task, timeout, deactivating,
                     completeSent, scanActive, fingerPresent, enrollStage,
                     actionError, cancelled, state>>
      /\ Called("maybeAwaitOn")
  BY DEF EnrollMaybeAwaitOn, actionVars, deviceVars, flowVars, driverVars, taskVars
<1>2. /\ Tasked' = Tasked /\ Session({"idle"})' = Session({"idle"})
      /\ Pausing' = Pausing /\ Stopped' = Stopped /\ More' = More
      /\ timeout' = timeout
  BY <1>1 DEF UnderWay, Rest, Free, More, Reason, Stopped, Session, Armed,
              Tasked, Pausing
<1>3. /\ todo = << Call("maybeAwaitOn", "") >> /\ action = "enroll"
      /\ \/ Tasked /\ timeout /\ More /\ fingerPresent
         \/ Pausing /\ More
         \/ Stopped
  BY <1>1, WhenReporting
<1>4. CASE MayAwaitOn
  <2>1. todo' = << To("awaitOn") >>
    BY <1>3, <1>4, LastCalls DEF EnrollMaybeAwaitOn, To, Call
  <2>2. ~scanActive' /\ ~fingerPresent
    BY <1>1, <1>4 DEF MayAwaitOn
  <2>3. CASE Pausing /\ More
    BY <1>2, <2>1, <2>2, <2>3 DEF Pausing, ToFinger, CallInv
  <2>4. CASE Stopped
    BY <1>1, <1>2, <1>3, <2>1, <2>4 DEF Stalling, CallInv
  <2> QED BY <1>3, <2>2, <2>3, <2>4
<1>5. CASE ~MayAwaitOn
  <2>1. todo' = <<>>
    BY <1>3, <1>5, LastReturns DEF EnrollMaybeAwaitOn
  <2>2. ((Tasked /\ timeout /\ More) \/ (Pausing /\ More) \/ (Stopped /\ Expects))'
    <3>1. Expects'
      BY <1>1, <1>3 DEF Expects
    <3> QED BY <1>2, <1>3, <3>1, Zenon
  <2> QED BY <2>1, <2>2 DEF Quiet, CallInv
<1> QED BY <1>4, <1>5

LEMMA ReportFingerCalls ==
  ASSUME CallInv, ReportFinger, UNCHANGED driverVars
  PROVE  CallInv'
<1>1. /\ UNCHANGED <<action, returning, active, task, timeout, deactivating,
                     completeSent, scanActive, enrollStage, state>>
      /\ Called("reportFinger")
  BY DEF ReportFinger, actionVars, driverVars, taskVars
<1>2. (\A S : Session(S)' = Session(S)) /\ More' = More
  BY <1>1 DEF UnderWay, Free, More, Session, Armed
<1>3. CASE /\ todo = << Call("reportFinger", "on") >>
           /\ Session({"awaitOn"}) /\ ~scanActive /\ More
  <2>1. Arg = "on" /\ state = "awaitOn"
    BY <1>3, CalleeOne DEF Session
  <2>2. todo' = << To("capture") >> /\ fingerPresent' = TRUE
    BY <1>3, <2>1, LastCalls DEF ReportFinger, To, Call
  <2> QED BY <1>1, <1>2, <1>3, <2>2 DEF ToFinger, CallInv
<1>4. CASE /\ todo = << Call("reportFinger", "off") >>
           /\ Session({"awaitOff"}) /\ More
  <2>1. Arg = "off" /\ state = "awaitOff"
    BY <1>4, CalleeOne DEF Session
  <2>2. CASE action = "enroll"
    <3>1. todo' = << To("idle"), Call("maybeAwaitOn", "") >>
      BY <1>4, <2>1, <2>2, LastCallsTwo DEF ReportFinger, To, Call
    <3> QED BY <1>1, <1>2, <1>4, <2>2, <3>1 DEF FromFinger, CallInv
  <2>3. CASE action # "enroll"
    <3>1. todo' = << To("idle"), Call("deactivate", "") >>
      BY <1>4, <2>1, <2>3, LastCallsTwo DEF ReportFinger, To, Call
    <3> QED BY <1>1, <1>2, <1>4, <2>3, <3>1 DEF FromFinger, CallInv
  <2> QED BY <2>2, <2>3
<1> QED BY <1>1, <1>3, <1>4, WhenFinger

LEMMA ImageCapturedCalls ==
  ASSUME CallInv, ImageCaptured, UNCHANGED driverVars
  PROVE  CallInv'
<1>1. /\ UNCHANGED <<action, returning, active, task, timeout, deactivating,
                     completeSent, fingerPresent, enrollStage, state>>
      /\ Called("imageCaptured")
  BY DEF ImageCaptured, actionVars, driverVars, taskVars
<1>2. (\A S : Session(S)' = Session(S)) /\ More' = More
  BY <1>1 DEF UnderWay, Free, More, Session, Armed
<1>3. /\ todo = << Call("imageCaptured", "") >>
      /\ Session({"capture"}) /\ fingerPresent /\ More
  BY <1>1, WhenFinger
<1>4. state = "capture" /\ action \in CaptureActions
  BY <1>3 DEF Session, UnderWay
<1>5. todo' = << To("awaitOff") >>
  BY <1>3, <1>4, LastCalls DEF ImageCaptured, To, Call
<1> QED BY <1>1, <1>2, <1>3, <1>5 DEF FromFinger, CallInv

LEMMA SessionErrorCalls ==
  ASSUME CallInv, SessionError, UNCHANGED driverVars
  PROVE  CallInv'
<1>1. /\ UNCHANGED <<action, returning, active, task, timeout, deactivating,
                     completeSent, state>>
      /\ Called("sessionError")
  BY DEF SessionError, actionVars, deviceVars, driverVars, taskVars
<1>2. todo = << Call("sessionError", "fatal") >> /\ Session(AnyOf)
  BY <1>1, WhenReporting
<1>3. Session(AnyOf)'
  BY <1>1, <1>2 DEF UnderWay, Free, Session, Armed, AnyOf
<1>4. active /\ state # "inactive" /\ Arg = "fatal"
  BY <1>2, CalleeOne DEF Session, AnyOf
<1>5. todo' = << Call("maybeComplete", "fatal"), Call("deactivate", "") >>
  BY <1>2, <1>4, LastCallsTwo DEF SessionError, Call
<1> QED BY <1>3, <1>5 DEF Reporting, Errors, CallInv

\* What fp_image_device_maybe_complete_action notes while the layer is busy.
LEMMA Noted ==
  ASSUME MaybeComplete, StillBusy, NEW err \in Errors, Arg = err,
         Reason \/ err # "none"
  PROVE  Reason'
<1>1. /\ UNCHANGED <<action, cancelled, enrollStage>>
      /\ actionError' = FirstError(err)
  BY DEF MaybeComplete
<1>2. err # "none" \/ actionError # "none" => FirstError(err) # "none"
  BY DEF FirstError
<1> QED BY <1>1, <1>2 DEF Reason

LEMMA MaybeCompleteCalls ==
  ASSUME CallInv, MaybeComplete, UNCHANGED driverVars
  PROVE  CallInv'
<1>1. /\ UNCHANGED <<action, active, task, timeout, deactivating, completeSent,
                     scanActive, fingerPresent, enrollStage, cancelled, state>>
      /\ Called("maybeComplete") /\ Return
  BY DEF MaybeComplete, driverVars, taskVars
<1>2. ASSUME UNCHANGED returning
      PROVE  /\ Tasked' = Tasked /\ Session(AnyOf)' = Session(AnyOf)
             /\ More' = More /\ Expects' = Expects
             /\ Stopped /\ Reason' => Stopped'
  BY <1>1, <1>2 DEF UnderWay, Rest, Free, More, Session, Armed, Tasked, Expects, Stopped
<1>3. PICK err \in Errors :
        \/ /\ todo = << Call("maybeComplete", err) >>
           /\ (Tasked /\ timeout /\ action # "enroll") \/ Stopped
        \/ /\ todo = << Call("maybeComplete", err), Call("deactivate", "") >>
           /\ (Tasked /\ timeout) \/ Session(AnyOf) \/ Stopped
           /\ Reason \/ err # "none"
  BY <1>1, WhenReporting
<1>4. Arg = err
  BY <1>3, CalleeOne, CalleeTwo
<1>5. Stopped => Reason
  BY DEF Stopped
<1>6. todo = << Call("maybeComplete", err) >> => todo' = <<>>
  BY <1>1, LastReturns
<1>7. todo = << Call("maybeComplete", err), Call("deactivate", "") >> =>
        todo' = << Call("deactivate", "") >>
  BY <1>1, FirstReturns
<1>8. CASE StillBusy
  <2>1. UNCHANGED returning
    BY <1>8 DEF MaybeComplete
  <2>2. CASE /\ todo = << Call("maybeComplete", err) >>
             /\ Tasked /\ timeout /\ action # "enroll"
    <3>1. More'
      BY <1>1, <2>2 DEF More
    <3>2. (Tasked /\ timeout /\ More)'
      BY <1>1, <1>2, <2>1, <2>2, <3>1
    <3> QED BY <1>6, <2>2, <3>2 DEF Quiet, CallInv
  <2>3. CASE todo = << Call("maybeComplete", err) >> /\ Stopped
    <3>1. Reason' /\ Expects
      BY <1>4, <1>5, <1>8, <2>3, Noted DEF StillBusy, Stopped, Rest, Expects
    <3> QED BY <1>2, <1>6, <2>1, <2>3, <3>1 DEF Quiet, CallInv
  <2>4. CASE /\ todo = << Call("maybeComplete", err), Call("deactivate", "") >>
             /\ (Tasked /\ timeout) \/ Session(AnyOf) \/ Stopped
             /\ Reason \/ err # "none"
    <3>1. Reason'
      BY <1>4, <1>8, <2>4, Noted
    <3>2. Stopped => Expects
      BY <1>8 DEF StillBusy, Stopped, Rest, Expects
    <3>3. timeout' = timeout
      BY <1>1
    <3>4. todo' = << Call("deactivate", "") >>
      BY <1>7, <2>4
    <3>5. CASE Tasked /\ timeout
      <4>1. Tasked' /\ timeout'
        BY <1>2, <2>1, <3>3, <3>5
      <4> QED BY <3>1, <3>4, <4>1 DEF Reporting, CallInv
    <3>6. CASE Session(AnyOf)
      <4>1. Session(AnyOf)'
        BY <1>2, <2>1, <3>6
      <4> QED BY <3>1, <3>4, <4>1 DEF Reporting, CallInv
    <3>7. CASE Stopped
      <4>1. Stopped' /\ Expects'
        BY <1>2, <1>5, <2>1, <3>1, <3>2, <3>7
      <4> QED BY <3>4, <4>1 DEF Reporting, CallInv
    <3> QED BY <2>4, <3>5, <3>6, <3>7
  <2> QED BY <1>3, <2>2, <2>3, <2>4
<1>9. CASE ~StillBusy
  <2>1. ~active /\ ~scanActive
    BY <1>9 DEF StillBusy
  <2>2. Stopped
    BY <1>3, <2>1 DEF Tasked, Session
  <2>3. returning' \in {"ok", "error"}
    BY <1>9 DEF MaybeComplete, Complete
  <2>4. Ended'
    BY <1>1, <2>1, <2>2, <2>3
       DEF Ended, Settled, Stopped, Rest, Free, UnderWay, CaptureActions, Matching
  <2>5. todo' = <<>> \/ todo' = << Call("deactivate", "") >>
    BY <1>3, <1>6, <1>7
  <2> QED BY <2>4, <2>5 DEF Quiet, Reporting, CallInv
<1> QED BY <1>8, <1>9

-----------------------------------------------------------------------------
\* The calls of the driver, one by one.

LEMMA ImgOpenCalls ==
  ASSUME CallInv, ImgOpen
  PROVE  CallInv'
<1>1. /\ UNCHANGED <<action, returning, active, task, timeout, scanActive>>
      /\ Called("open")
  BY DEF ImgOpen, actionVars, deviceVars, flowVars, driverVars, taskVars
<1>2. /\ todo = << Call("open", "") >> /\ action = "open"
      /\ returning = "no" /\ Settled
  BY <1>1, WhenOpenOrClose
<1>3. \E err \in {"none", "fatal"} : todo' = << Call("openComplete", err) >>
  BY <1>2, LastCalls DEF ImgOpen, Call
<1>4. Settled'
  BY <1>1, <1>2 DEF Settled, Rest, Free
<1> QED BY <1>1, <1>2, <1>3, <1>4 DEF OpenOrClose, CallInv

LEMMA ImgCloseCalls ==
  ASSUME CallInv, ImgClose
  PROVE  CallInv'
<1>1. /\ UNCHANGED <<action, returning, active, scanActive>>
      /\ task' = "none" /\ timeout' = FALSE
      /\ Called("close")
  BY DEF ImgClose, actionVars, deviceVars, flowVars
<1>2. /\ todo = << Call("close", "") >> /\ action = "close"
      /\ returning = "no" /\ Settled
  BY <1>1, WhenOpenOrClose
<1>3. todo' = << Call("closeComplete", "") >>
  BY <1>2, LastCalls DEF ImgClose, Call
<1>4. Settled'
  BY <1>1, <1>2 DEF Settled, Rest, Free
<1> QED BY <1>1, <1>2, <1>3, <1>4 DEF OpenOrClose, CallInv

LEMMA ActivateCalls ==
  ASSUME CallInv, Activate
  PROVE  CallInv'
<1>1. /\ UNCHANGED <<action, returning, active, scanActive, enrollStage, state>>
      /\ Called("activate")
  BY DEF Activate, actionVars, deviceVars, flowVars
<1>2. /\ todo = << Call("activate", "") >>
      /\ UnderWay /\ Settled /\ More /\ state = "activating"
  BY <1>1, WhenActivate
<1>3. task = "none" /\ ~timeout /\ ~active /\ ~scanActive
  BY <1>2 DEF Settled, Rest, Free
<1>4. Armed' /\ UnderWay' /\ More' /\ state' = "activating"
  BY <1>1, <1>2, <1>3
     DEF Activate, StopsDeactivating, NotSentYet, Armed, UnderWay, More
<1>5. CASE StartTask("activate") /\ UNCHANGED timeout
  <2>1. todo' = << Call("run", "") >> /\ task' = "activate"
    BY <1>2, <1>5, LastCalls DEF StartTask, Call
  <2>2. Activating' /\ ~timeout'
    BY <1>1, <1>3, <1>4, <1>5, <2>1 DEF Activating
  <2> QED BY <2>1, <2>2 DEF Running, CallInv
<1>6. CASE /\ ReturnCalling(<< <<"activateComplete", "fatal">> >>)
           /\ UNCHANGED taskVars
  <2>1. todo' = << Call("activateComplete", "fatal") >>
    BY <1>2, <1>6, LastCalls DEF Call
  <2>2. Settled'
    BY <1>1, <1>2, <1>6 DEF Settled, Rest, Free, taskVars
  <2> QED BY <1>4, <2>1, <2>2 DEF Starting, CallInv
<1> QED BY <1>3, <1>5, <1>6 DEF Activate

LEMMA DriverDeactivateCalls ==
  ASSUME CallInv, DriverDeactivate
  PROVE  CallInv'
<1>1. /\ UNCHANGED <<action, returning, active, task, enrollStage, actionError,
                     cancelled, state>>
      /\ Called("driverDeactivate") /\ deactivating' = TRUE
  BY DEF DriverDeactivate, actionVars, deviceVars, flowVars
<1>2. /\ todo = << Call("driverDeactivate", "") >>
      /\ Halting /\ Armed /\ (timeout => task # "none")
  BY <1>1, WhenEnding
<1>3. Halting'
  BY <1>1, <1>2 DEF Halting, UnderWay, Reason
<1>4. ~completeSent
  BY <1>2 DEF Armed
<1>5. CASE task # "none"
  <2>1. /\ todo' = << Call("finished", "cancelled") >>
        /\ timeout' = FALSE /\ UNCHANGED completeSent
    BY <1>2, <1>5, LastCalls DEF DriverDeactivate, CancelClearsTimeout, Call
  <2> QED BY <1>1, <1>3, <1>4, <2>1 DEF Ending, CallInv
<1>6. CASE task = "none"
  <2>1. todo' = << Call("deactivateComplete", "") >> /\ UNCHANGED timeout
    BY <1>2, <1>4, <1>6, LastCalls DEF DriverDeactivate, Call
  <2>2. Free'
    BY <1>1, <1>2, <1>6, <2>1 DEF Free
  <2> QED BY <1>1, <1>3, <2>1, <2>2 DEF Ending, CallInv
<1> QED BY <1>5, <1>6

LEMMA RunCalls ==
  ASSUME CallInv, RunFails \/ RunAdvances \/ RunRetries
  PROVE  CallInv'
<1>1. /\ UNCHANGED <<action, returning, active, scanActive, fingerPresent,
                     enrollStage, state, task, deactivating, completeSent>>
      /\ Called("run")
  BY DEF RunFails, RunAdvances, RunRetries, actionVars, deviceVars, flowVars,
         driverVars, taskVars
<1>2. /\ todo = << Call("run", "") >>
      /\ (Activating \/ (Tasked /\ More)) /\ ~timeout
  BY <1>1, WhenRun
<1>3. (Activating \/ (Tasked /\ More))'
  BY <1>1, <1>2 DEF Activating, Tasked, More, UnderWay, Armed
<1>4. CASE RunFails
  <2>1. todo' = << Call("finished", "fatal") >> /\ UNCHANGED timeout
    BY <1>2, <1>4, LastCalls DEF RunFails, driverVars, taskVars, Call
  <2> QED BY <1>2, <1>3, <2>1 DEF Running, CallInv
<1>5. CASE RunAdvances
  <2>1. UNCHANGED timeout
    BY <1>5 DEF RunAdvances
  <2>2. CASE Last
    <3>1. todo' = << Call("finished", "none") >>
      BY <1>2, <1>5, <2>2, LastCalls DEF RunAdvances, Call
    <3>2. task = "capture" => At = "store"
      BY <2>2 DEF Last, At, Machine
    <3>3. (task = "capture" => captured)'
      BY <1>1, <1>5, <3>2 DEF RunAdvances
    <3> QED BY <1>2, <1>3, <2>1, <3>1, <3>3 DEF Running, CallInv
  <2>3. CASE ~Last
    <3>1. todo' = << Call("run", "") >>
      BY <1>2, <1>5, <2>3, LastCalls DEF RunAdvances, Call
    <3> QED BY <1>2, <1>3, <2>1, <3>1 DEF Running, CallInv
  <2> QED BY <2>2, <2>3
<1>6. CASE RunRetries
  <2>1. todo' = <<>> /\ timeout'
    BY <1>2, <1>6, LastReturns DEF RunRetries
  <2> QED BY <1>3, <2>1 DEF Quiet, CallInv
<1> QED BY <1>4, <1>5, <1>6

LEMMA TaskFinishedCalls ==
  ASSUME CallInv, TaskFinished
  PROVE  CallInv'
<1>1. /\ UNCHANGED <<action, returning, active, scanActive, fingerPresent, cancelled,
                     actionError, enrollStage, state, timeout, deactivating>>
      /\ Called("finished") /\ task' = "none"
  BY DEF TaskFinished, ForgetTask, actionVars, deviceVars, flowVars
<1>2. /\ UnderWay' = UnderWay /\ More' = More /\ Reason' = Reason
      /\ Halting' = Halting
  BY <1>1 DEF UnderWay, More, Reason, Halting
<1>3. CASE /\ Activating \/ (Tasked /\ More)
           /\ ~timeout
           /\ \/ todo = << Call("finished", "fatal") >>
              \/ /\ todo = << Call("finished", "none") >>
                 /\ task = "capture" => captured
  <2>1. Armed
    BY <1>3 DEF Activating, Tasked
  <2>2. Armed' /\ Free' /\ ~deactivating
    <3>1. ~deactivating
      BY <2>1 DEF Armed
    <3>2. UNCHANGED completeSent
      BY <3>1, Zenon DEF TaskFinished
    <3> QED BY <1>1, <1>3, <2>1, <3>1, <3>2 DEF Armed, Free
  <2>3. PICK err \in {"none", "fatal"} : todo = << Call("finished", err) >> /\ Arg = err
    BY <1>3, CalleeOne
  <2>4. err = "none" /\ task = "capture" => captured
    BY <1>3, <2>3, Calling, OneCall
  <2>7. ReturnCalling(
          IF Arg # "none" /\ task # "activate"
          THEN << <<"sessionError", Arg>> >>
          ELSE CASE task = "activate" -> << <<"activateComplete", Arg>> >>
                 [] task = "waitDown" -> << <<"reportFinger", "on">> >>
                 [] task = "waitUp" -> << <<"reportFinger", "off">> >>
                 [] task = "capture" /\ captured ->
                      << <<"imageCaptured", "">> >>
                 [] OTHER -> <<>>)
    BY <2>2, Zenon DEF TaskFinished
  <2>8. /\ task = "activate" => ReturnCalling(<< Call("activateComplete", err) >>)
        /\ task # "activate" /\ err # "none" =>
             ReturnCalling(<< Call("sessionError", err) >>)
        /\ task = "waitDown" /\ err = "none" =>
             ReturnCalling(<< Call("reportFinger", "on") >>)
        /\ task = "waitUp" /\ err = "none" =>
             ReturnCalling(<< Call("reportFinger", "off") >>)
        /\ task = "capture" /\ err = "none" =>
             ReturnCalling(<< Call("imageCaptured", "") >>)
    BY <2>3, <2>4, <2>7 DEF Call
  <2>5. CASE Activating
    <3>1. todo' = << Call("activateComplete", err) >>
      BY <2>3, <2>5, <2>8, LastCalls DEF Activating
    <3>2. Starting'
      <4>1. UnderWay' /\ More' /\ state' = "activating" /\ Settled'
        BY <1>1, <1>2, <2>2, <2>5 DEF Activating, Settled, Rest
      <4> QED BY <2>2, <3>1, <4>1 DEF Starting
    <3> QED BY <3>2 DEF CallInv
  <2>6. CASE Tasked /\ More
    <3>1. /\ UnderWay' /\ active' /\ More'
          /\ task \in {"waitDown", "waitUp", "capture"}
          /\ state' = StateOfTask[task]
          /\ Session({state})'
      BY <1>1, <1>2, <2>2, <2>6 DEF Tasked, StateOfTask, Session
    <3>2. CASE err = "fatal"
      <4>1. todo' = << Call("sessionError", "fatal") >>
        BY <2>3, <3>1, <3>2, <2>8, LastCalls
      <4>2. Session(AnyOf)'
        BY <3>1 DEF Session, AnyOf, StateOfTask
      <4> QED BY <4>1, <4>2 DEF Reporting, CallInv
    <3>3. CASE err = "none" /\ task = "waitDown"
      <4>1. todo' = << Call("reportFinger", "on") >>
        BY <2>3, <3>3, <2>8, LastCalls
      <4>2. Session({"awaitOn"})' /\ ~scanActive'
        BY <1>1, <2>6, <3>1, <3>3 DEF Session, StateOfTask, Tasked
      <4> QED BY <3>1, <4>1, <4>2 DEF ToFinger, CallInv
    <3>4. CASE err = "none" /\ task = "waitUp"
      <4>1. todo' = << Call("reportFinger", "off") >>
        BY <2>3, <3>4, <2>8, LastCalls
      <4>2. Session({"awaitOff"})'
        BY <3>1, <3>4 DEF Session, StateOfTask
      <4> QED BY <3>1, <4>1, <4>2 DEF FromFinger, CallInv
    <3>5. CASE err = "none" /\ task = "capture"
      <4>1. todo' = << Call("imageCaptured", "") >>
        BY <2>3, <3>5, <2>8, LastCalls
      <4>2. Session({"capture"})' /\ fingerPresent' /\ ~scanActive'
        BY <1>1, <2>6, <3>1, <3>5 DEF Session, StateOfTask, Tasked
      <4> QED BY <3>1, <4>1, <4>2 DEF ToFinger, CallInv
    <3> QED BY <3>1, <3>2, <3>3, <3>4, <3>5
  <2> QED BY <1>3, <2>5, <2>6
<1>4. CASE /\ todo = << Call("finished", "cancelled") >>
           /\ Halting /\ deactivating /\ ~completeSent /\ ~timeout
  <2>1. todo' = << Call("deactivateComplete", "") >>
    BY <1>4, LastCalls DEF TaskFinished, Call
  <2>2. Free'
    BY <1>1, <1>4 DEF Free
  <2> QED BY <1>1, <1>2, <1>4, <2>1, <2>2 DEF Ending, CallInv
<1> QED BY <1>1, <1>3, <1>4, WhenRun

-----------------------------------------------------------------------------
\* What the main loop dispatches.

LEMMA InLoop ==
  ASSUME CallInv, MainLoop
  PROVE  Quiet
<1>1. ~OpenOrClose /\ ~Starting /\ ~Running /\ ~ToFinger /\ ~FromFinger
  BY DEF MainLoop, OpenOrClose, Starting, Running, ToFinger, FromFinger
<1>2. ~Reporting /\ ~Stalling /\ ~Ending
  BY DEF MainLoop, Reporting, Stalling, Ending
<1> QED BY <1>1, <1>2 DEF CallInv

\* Nothing is under way between dispatches when there is no action, and an
\* action without a result has a task or waits for a scan.
LEMMA QuietCases ==
  ASSUME Quiet
  PROVE  /\ action = "none" => returning = "no" /\ Settled
         /\ returning # "no" => action # "none" /\ Settled
         /\ action # "none" /\ returning = "no" =>
              \/ Activating /\ timeout
              \/ Tasked /\ timeout /\ More
              \/ Pausing /\ More
              \/ Stopped /\ Expects
         /\ timeout => Activating \/ (Tasked /\ More)
         /\ scanActive =>
              \/ Tasked /\ timeout /\ More /\ fingerPresent
              \/ Pausing /\ More
              \/ Stopped
<1>1. /\ UnderWay => action # "none" /\ returning = "no"
      /\ Activating \/ Tasked \/ Pausing \/ Stopped => UnderWay
      /\ Pausing \/ Stopped \/ AtHome \/ Ended => ~timeout
      /\ Activating \/ AtHome \/ Ended => ~scanActive
  BY DEF UnderWay, CaptureActions, Matching, Activating, Tasked, Pausing, Stopped,
         Session, Rest, Free, AtHome, Ended, Settled
<1>2. action = "none" => AtHome
  BY <1>1 DEF Quiet, Ended
<1>3. returning # "no" => Ended
  BY <1>1 DEF Quiet, AtHome
<1>4. /\ action # "none" /\ returning = "no" => ~AtHome /\ ~Ended
      /\ Tasked /\ scanActive => fingerPresent
  BY DEF AtHome, Ended, Tasked, StateOfTask
<1>5. action # "none" /\ returning = "no" =>
        \/ Activating /\ timeout
        \/ Tasked /\ timeout /\ More
        \/ Pausing /\ More
        \/ Stopped /\ Expects
  BY <1>4, Zenon DEF Quiet
<1>6. timeout => Activating \/ (Tasked /\ More)
  BY <1>1, Zenon DEF Quiet
<1>7. scanActive =>
        \/ Tasked /\ timeout /\ More /\ fingerPresent
        \/ Pausing /\ More
        \/ Stopped
  BY <1>1, <1>4, Zenon DEF Quiet
<1> QED BY <1>2, <1>3, <1>5, <1>6, <1>7 DEF AtHome, Ended

LEMMA RequestOpenCalls ==
  ASSUME CallInv, RequestOpen, UNCHANGED driverVars
  PROVE  CallInv'
<1>1. /\ UNCHANGED <<returning, active, task, timeout, scanActive>>
      /\ MainLoop /\ action = "none" /\ action' = "open"
      /\ todo' = << Call("open", "") >>
  BY DEF RequestOpen, Refused, Dispatch, deviceVars, flowVars, driverVars, taskVars, Call
<1>2. returning = "no" /\ Settled
  BY <1>1, InLoop, QuietCases
<1>3. Settled'
  BY <1>1, <1>2 DEF Settled, Rest, Free
<1> QED BY <1>1, <1>2, <1>3 DEF OpenOrClose, CallInv

LEMMA RequestCloseCalls ==
  ASSUME CallInv, RequestClose, UNCHANGED driverVars
  PROVE  CallInv'
<1>1. /\ UNCHANGED <<returning, active, task, timeout, scanActive>>
      /\ MainLoop /\ action = "none" /\ action' = "close"
      /\ todo' = << Call("close", "") >>
  BY DEF RequestClose, Refused, Dispatch, deviceVars, flowVars, driverVars, taskVars,
         Call
<1>2. returning = "no" /\ Settled
  BY <1>1, InLoop, QuietCases
<1>3. Settled'
  BY <1>1, <1>2 DEF Settled, Rest, Free
<1> QED BY <1>1, <1>2, <1>3 DEF OpenOrClose, CallInv

LEMMA RequestCalls ==
  ASSUME CallInv, NEW a \in CaptureActions, Request(a), UNCHANGED driverVars
  PROVE  CallInv'
<1>1. /\ UNCHANGED <<active, task, timeout, scanActive>>
      /\ MainLoop /\ action = "none" /\ action' = a
  BY DEF Request, Refused, Dispatch, driverVars, taskVars
<1>2. returning = "no" /\ Settled
  BY <1>1, InLoop, QuietCases
<1>3. Settled'
  BY <1>1, <1>2 DEF Settled, Rest, Free
<1>4. CASE /\ todo' = << To("activating"), Call("activate", "") >>
           /\ enrollStage' = 0 /\ UNCHANGED returning
  <2>1. More'
    <3>1. 0 < NumStages
      BY NumStagesAssumption
    <3> QED BY <1>4, <3>1 DEF More
  <2>2. UnderWay'
    BY <1>1, <1>2, <1>4 DEF UnderWay
  <2> QED BY <1>3, <1>4, <2>1, <2>2 DEF Starting, CallInv
<1>5. CASE todo' = <<>> /\ returning' = "error"
  BY <1>1, <1>3, <1>5 DEF Ended, CaptureActions, Matching, Quiet, CallInv
<1> QED BY <1>4, <1>5 DEF Request, Dispatch, Complete, To, Call

\* A cancellation is a reason to stop.
LEMMA CancelCalls ==
  ASSUME CallInv, RequestCancel \/ RequestSuspend \/ RequestResume,
         UNCHANGED driverVars
  PROVE  CallInv'
<1>1. /\ UNCHANGED <<action, returning, active, task, timeout, deactivating,
                     completeSent, scanActive, fingerPresent, enrollStage,
                     actionError, state, todo>>
      /\ UNCHANGED cancelled \/ cancelled' = TRUE
      /\ MainLoop
  BY DEF RequestCancel, RequestSuspend, SuspendCancels, RequestResume, deviceVars,
         flowVars, driverVars, taskVars
<1>2. /\ AtHome' = AtHome /\ Ended' = Ended /\ Activating' = Activating
      /\ Tasked' = Tasked /\ Pausing' = Pausing /\ More' = More
      /\ Expects' = Expects /\ timeout' = timeout
  BY <1>1 DEF AtHome, Ended, Settled, Activating, Tasked, Pausing, Session, UnderWay,
              Rest, Free, Armed, More, Expects
<1>3. Reason => Reason'
  BY <1>1 DEF Reason
<1>4. Stopped => Stopped'
  BY <1>1, <1>3 DEF Stopped, UnderWay, Rest, Free
<1>5. Quiet
  BY <1>1, InLoop
<1>6. Quiet'
  <2>1. todo' = <<>>
    BY <1>1, <1>5 DEF Quiet
  <2> QED BY <1>2, <1>4, <1>5, <2>1, Zenon DEF Quiet
<1> QED BY <1>6 DEF CallInv

LEMMA CancelInIdleCalls ==
  ASSUME CallInv, AskInv, CancelInIdle, UNCHANGED driverVars
  PROVE  CallInv'
<1>1. /\ UNCHANGED <<action, returning, active, task, timeout, deactivating,
                     completeSent, scanActive, fingerPresent, enrollStage,
                     actionError, cancelled, state>>
      /\ MainLoop /\ cancelIdle
  BY DEF CancelInIdle, Dispatch, deviceVars, flowVars, driverVars, taskVars
<1>2. cancelled /\ returning = "no" /\ action # "none"
  BY <1>1 DEF AskInv
<1>3. Reason'
  BY <1>1, <1>2 DEF Reason
<1>4. \/ Activating /\ timeout
      \/ Tasked /\ timeout /\ More
      \/ Pausing /\ More
      \/ Stopped /\ Expects
  BY <1>1, <1>2, InLoop, QuietCases
<1>5. todo' = << Call("deactivate", "") >>
  BY <1>4 DEF CancelInIdle, Dispatch, Activating, Tasked, Pausing, Session, Stopped,
              UnderWay, Call
<1>6. /\ Activating' = Activating /\ Tasked' = Tasked /\ Stopped' = Stopped
      /\ Session(AnyOf)' = Session(AnyOf) /\ Expects' = Expects
      /\ timeout' = timeout
  BY <1>1 DEF Activating, Tasked, Session, UnderWay, Rest, Free, Armed, More,
              Stopped, Expects, Reason
<1>7. Pausing => Session(AnyOf)
  BY DEF Pausing, Session, AnyOf
<1>8. \/ (Tasked /\ timeout /\ Reason)'
      \/ (Session(AnyOf) /\ Reason)'
      \/ (Activating /\ timeout)'
      \/ (Stopped /\ Expects)'
  BY <1>3, <1>4, <1>6, <1>7, Zenon
<1> QED BY <1>5, <1>8 DEF Reporting, CallInv

LEMMA ReturnInIdleCalls ==
  ASSUME CallInv, ReturnInIdle, UNCHANGED driverVars
  PROVE  CallInv'
<1>1. /\ UNCHANGED <<active, task, timeout, scanActive, todo>>
      /\ MainLoop /\ returning # "no"
      /\ action' = "none" /\ returning' = "no"
  BY DEF ReturnInIdle, deviceVars, flowVars, driverVars, taskVars
<1>2. Settled
  BY <1>1, InLoop, QuietCases
<1>3. AtHome' /\ todo' = <<>>
  BY <1>1, <1>2 DEF AtHome, Settled, Rest, Free, MainLoop
<1> QED BY <1>3 DEF Quiet, CallInv

LEMMA RetryTimeoutCalls ==
  ASSUME CallInv, RetryTimeout
  PROVE  CallInv'
<1>1. /\ UNCHANGED <<action, returning, active, task, deactivating,
                     completeSent, scanActive, fingerPresent, enrollStage, state>>
      /\ MainLoop /\ timeout /\ timeout' = FALSE
      /\ todo' = << Call("run", "") >>
  BY DEF RetryTimeout, Dispatch, actionVars, deviceVars, flowVars, Call
<1>2. Activating \/ (Tasked /\ More)
  BY <1>1, InLoop, QuietCases
<1>3. (Activating \/ (Tasked /\ More))'
  BY <1>1, <1>2 DEF Activating, Tasked, UnderWay, Armed, More
<1> QED BY <1>1, <1>3 DEF Running, CallInv

\* The result of a scan finds the finger still there or gone, an enrolment
\* between two fingers, or the session stopped.
LEMMA ScanCalls ==
  ASSUME TypeOK, CallInv, FlowInv, Scan
  PROVE  CallInv'
<1>1. /\ UNCHANGED <<action, returning, active, task, timeout, deactivating,
                     completeSent, fingerPresent, actionError, cancelled, state>>
      /\ MainLoop /\ scanActive /\ scanActive' = FALSE
  BY DEF Scan, MinutiaeDetected, ScanCancelled, ScanForCapture, ScanForEnroll,
         ScanForMatch, Dispatch, actionVars, driverVars, taskVars
<1>2. /\ More
      /\ \/ Tasked /\ timeout /\ More /\ fingerPresent
         \/ Pausing /\ More
         \/ Stopped
  BY <1>1, InLoop, QuietCases DEF FlowInv
<1>3. /\ Tasked => Tasked'
      /\ Pausing => Pausing' /\ Session(AnyOf)'
      /\ timeout' = timeout
  BY <1>1 DEF Tasked, Pausing, Session, UnderWay, Free, Armed, AnyOf
<1>4. Stopped /\ Reason' => Stopped'
  BY <1>1 DEF Stopped, UnderWay, Rest, Free
<1>5. CASE ScanCancelled
  <2>1. todo' = << Call("maybeComplete", "cancelled"), Call("deactivate", "") >>
    BY <1>5 DEF ScanCancelled, Dispatch, Call
  <2>2. Reason'
    BY <1>1, <1>5 DEF ScanCancelled, Reason
  <2>3. ((Tasked /\ timeout) \/ Session(AnyOf) \/ Stopped)'
    BY <1>2, <1>3, <1>4, <2>2, Zenon
  <2> QED BY <2>1, <2>2, <2>3 DEF Reporting, Errors, CallInv
<1>6. CASE ScanForCapture \/ ScanForMatch
  <2>1. \E err \in Errors : todo' = << Call("maybeComplete", err) >>
    BY <1>6 DEF ScanForCapture, ScanForMatch, Dispatch, Errors, Call
  <2>2. UNCHANGED enrollStage /\ action # "enroll"
    BY <1>6 DEF ScanForCapture, ScanForMatch, Matching
  <2>3. Stopped => Stopped'
    BY <1>1, <1>4, <2>2 DEF Stopped, Reason
  <2>4. ~Pausing
    BY <2>2 DEF Pausing
  <2>5. (Tasked /\ timeout /\ action # "enroll")' \/ Stopped'
    <3>1. action' # "enroll"
      BY <1>1, <2>2
    <3> QED BY <1>2, <1>3, <2>3, <2>4, <3>1, Zenon
  <2> QED BY <2>1, <2>5 DEF Reporting, CallInv
<1>7. CASE ScanForEnroll
  <2>1. action = "enroll" /\ enrollStage < NumStages
    BY <1>2, <1>7 DEF ScanForEnroll, More
  <2>2. enrollStage' = enrollStage \/ enrollStage' = enrollStage + 1
    BY <1>7 DEF ScanForEnroll
  <2>3. Stopped => Stopped'
    BY <1>1, <1>4, <2>1, <2>2, NumStagesAssumption DEF Stopped, Reason, TypeOK
  <2>4. CASE enrollStage' = NumStages
    <3>1. todo' = << Call("maybeComplete", "none"), Call("deactivate", "") >>
      BY <1>7, <2>4 DEF ScanForEnroll, Dispatch, LastStage, Call
    <3>2. Reason'
      BY <2>4 DEF Reason
    <3>3. ((Tasked /\ timeout) \/ Session(AnyOf) \/ Stopped)'
      BY <1>2, <1>3, <2>3, Zenon
    <3> QED BY <3>1, <3>2, <3>3 DEF Reporting, Errors, CallInv
  <2>5. CASE enrollStage' # NumStages
    <3>1. todo' = << Call("maybeAwaitOn", "") >>
      BY <1>7, <2>5 DEF ScanForEnroll, Dispatch, LastStage, Call
    <3>2. More' /\ action' = "enroll"
      BY <1>1, <2>1, <2>2, <2>5, NumStagesAssumption DEF More, TypeOK
    <3>3. fingerPresent' = fingerPresent
      BY <1>1
    <3>4. \/ (Tasked /\ timeout /\ More /\ fingerPresent)'
          \/ (Pausing /\ More)'
          \/ Stopped'
      BY <1>2, <1>3, <2>3, <3>2, <3>3, Zenon
    <3> QED BY <3>1, <3>2, <3>4 DEF Reporting, CallInv
  <2> QED BY <2>4, <2>5
<1> QED BY <1>5, <1>6, <1>7 DEF Scan, MinutiaeDetected

\* A deadline that passes, and nothing, change no call.
LEMMA IdleCalls ==
  ASSUME CallInv, DeadlinePasses \/ UNCHANGED vars
  PROVE  CallInv'
<1>1. UNCHANGED <<action, returning, active, task, timeout, deactivating,
                  completeSent, scanActive, fingerPresent, enrollStage, actionError,
                  cancelled, state, todo, captured>>
  BY DEF DeadlinePasses, vars, imageVars, actionVars, deviceVars, flowVars, driverVars,
         taskVars
<1>2. /\ Quiet' = Quiet /\ OpenOrClose' = OpenOrClose /\ Starting' = Starting
      /\ Running' = Running
  BY <1>1 DEF Quiet, OpenOrClose, Starting, Running, AtHome, Ended, Settled, Activating,
              Tasked, Pausing, Stopped, Session, UnderWay, Rest, Free, Armed, More,
              Reason, Expects
<1>3. /\ ToFinger' = ToFinger /\ FromFinger' = FromFinger
      /\ Reporting' = Reporting /\ Stalling' = Stalling /\ Ending' = Ending
  BY <1>1 DEF ToFinger, FromFinger, Reporting, Stalling, Ending, Ended, Settled,
              Activating, Tasked, Pausing, Halting, Stopped, Session, UnderWay, Rest,
              Free, Armed, More, Reason, Expects
<1> QED BY <1>2, <1>3 DEF CallInv

=============================================================================
