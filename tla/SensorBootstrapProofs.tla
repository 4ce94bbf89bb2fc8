------------------------ MODULE SensorBootstrapProofs ------------------------
(***************************************************************************)
(* Proofs of the safety properties of SensorBootstrap, for any number of   *)
(* calls and any capacity of the queue.                                    *)
(*                                                                         *)
(* The pipe is what has been sent to the MCU and not been read back: the   *)
(* frames of the queue, then the replies to the commands the MCU has not   *)
(* dealt with.  The invariant is in three layers: OwnInv, that a reply     *)
(* whose opcode is not suspect is that of the call that waits; LateInv,    *)
(* where late replies may be when the sensor counts as configured; and     *)
(* TolerateInv, what one fault can do to the attempts of the verification. *)
(***************************************************************************)
EXTENDS SensorBootstrapProps, Integers, FiniteSetTheorems, TLAPS

Vals == {"dac", "tcode", "other", "milang", "unknown", "none"}
Frames == [op : Opcodes, call : Nat, val : Vals]
Orders == [cmd : Commands, call : Nat \ {0}]

Verifying == {"setIdle", "readDac", "readTcode"}
Done      == {"tls", "tlsInit", "opened"}
Steps == DOMAIN CommandOf \union Done \union
         {"closed", "opening", "image", "imageSent", "imageWait", "failed",
          "unverified"}

Ack == ReplyOf["setIdle"]
Reg == ReplyOf["chip"]

-----------------------------------------------------------------------------
XferTypes ==
  /\ cmd \in Commands \union {"none"} /\ call \in Nat /\ left \in Nat
  /\ answer.val \in Vals
  /\ sent \in Seq(Orders) /\ queue \in Seq(Frames)
  /\ suspects \subseteq Opcodes /\ Unsolicited \subseteq suspects
  /\ faults \in 0..MaxFaults /\ notified \in BOOLEAN

Registers ==
  [dac : {"dac", "other"}, tcode : {"tcode", "other"}]
    \ {[dac |-> "other", tcode |-> "tcode"]}

BootTypes ==
  /\ step \in Steps /\ attempt \in 0..Attempts /\ sensor \in Registers
  /\ faultsBefore \in 0..MaxFaults \union {Never}

\* A call waits in the step that made it, and has a result after it.
CallInv ==
  /\ Waiting => \/ step \in DOMAIN CommandOf /\ cmd = CommandOf[step]
                \/ step = "imageWait" /\ cmd = "image"
  /\ Waiting => result = "none"
  /\ Waiting \/ step = "imageSent" => call > 0

\* The reply of this step has come.
Answered == step \in DOMAIN CommandOf /\ ~Waiting /\ result = "ok"

-----------------------------------------------------------------------------
\* OwnInv.
Own(op) == Waiting /\ op = Expected

QueueOwn ==
  \A i \in 1..Len(queue) : queue[i].op \notin suspects =>
    /\ Own(queue[i].op) /\ queue[i].call = call
    /\ queue[i].val \in ValuesRead(cmd)
    /\ sent = <<>>
    /\ \A j \in 1..Len(queue) : j > i => queue[j].call = 0

SentOwn ==
  \A i \in 1..Len(sent) : ReplyOf[sent[i].cmd] \notin suspects =>
    Waiting /\ sent[i].cmd = cmd /\ sent[i].call = call /\ i = Len(sent)

Unasked ==
  \A i \in 1..Len(queue) : queue[i].call = 0 =>
    queue[i].op \in Unsolicited /\ queue[i].val = "none" /\ notified

Numbered ==
  /\ \A i \in 1..Len(queue) : queue[i].call <= call
  /\ \A i \in 1..Len(sent) : sent[i].call <= call

\* Nothing that was asked for is on its way.
Drained == sent = <<>> /\ \A i \in 1..Len(queue) : queue[i].call = 0

AnswerInv ==
  Answered /\ ReplyOf[CommandOf[step]] \notin suspects =>
    Drained /\ answer.val \in ValuesRead(CommandOf[step])

OwnInv == QueueOwn /\ SentOwn /\ Unasked /\ Numbered /\ AnswerInv

-----------------------------------------------------------------------------
\* LateInv.

\* The configuration's commands whose replies the open has taken.
Before ==
  CASE step = "otp" -> {"chip"}
    [] step = "reset1" -> {"chip", "otp"}
    [] step = "setDac" -> {"chip", "otp", "reset"}
    [] step \in {"reset2", "image", "imageSent", "imageWait", "upload"} ->
         Config \ {"upload"}
    [] step \in Verifying \union Done -> Config
    [] OTHER -> {}
Taken == Before \union (IF Answered THEN {CommandOf[step]} ELSE {})

\* Each of them may have been a late one.
AllLate == \A c \in Taken : ReplyOf[c] \in suspects

NotSent(S) == \A i \in 1..Len(sent) : sent[i].cmd \notin S
NoTcode == \A i \in 1..Len(queue) : queue[i].val # "tcode"
NoUpload == \A i \in 1..Len(queue) : queue[i].op # ReplyOf["upload"]

\* No late reply can pass for one of the verification: no TCODE was read
\* before the last reset.
Configuring == {"chip", "otp", "reset1", "setDac", "reset2", "image", "imageSent",
                "imageWait"}
NoneEarly == NotSent({"upload", "readTcode"}) /\ NoTcode /\ NoUpload
ResetsFirst ==
  \A i, j \in 1..Len(sent) :
    i < j => ~(sent[i].cmd = "upload" /\ sent[j].cmd = "reset")
Uploading ==
  /\ NotSent({"readTcode"}) /\ NoTcode /\ ResetsFirst
  /\ ~NoUpload \/ Answered => NotSent({"reset"})
TcodeTaken == step = "readTcode" /\ Answered /\ answer.val = "tcode"

NothingLate ==
  /\ step \in Configuring => NoneEarly
  /\ step = "upload" => Uploading
  /\ step \in Verifying => NotSent({"reset"}) /\ (~NoTcode \/ TcodeTaken => Right)
  /\ step \in Done => NotSent({"reset"}) /\ Right

LateInv == (step \in Done => chip = "milang") => AllLate \/ NothingLate

\* As many opcodes are suspect as there were faults.
CountInv ==
  /\ IsFiniteSet(suspects \ Unsolicited)
  /\ Cardinality(suspects \ Unsolicited) <= faults

-----------------------------------------------------------------------------
\* TolerateInv.
Total == Len(queue) + Len(sent)
OpAt(i) == IF i <= Len(queue) THEN queue[i].op
                              ELSE ReplyOf[sent[i - Len(queue)].cmd]
NoAck == \A i \in 1..Total : OpAt(i) # Ack

Verifies == step \in Verifying /\ faultsBefore # Never
Slack == faults - faultsBefore - attempt   \* -1 if this attempt had none

NoFaultInv ==
  Verifies /\ faults = faultsBefore =>
    /\ attempt = 1 /\ Right /\ suspects \subseteq Unsolicited
    /\ ~Waiting => result = "ok"
    /\ step = "readTcode" => dacRead = "dac"

\* What the queue and the MCU have of the verification's calls.
OwnFrames ==
  \A i \in 1..Len(queue) : queue[i].call = call =>
    queue[i].op = Expected /\ queue[i].val \in ValuesRead(cmd)
OwnOrders == \A i \in 1..Len(sent) : sent[i].call = call => sent[i].cmd = cmd
FewOnTheWay == Total <= faults - faultsBefore + (IF Waiting THEN 1 ELSE 0)

OwnCalls ==
  /\ Right /\ NotSent(Commands \ Verifying)
  /\ Waiting => OwnFrames /\ OwnOrders
  /\ FewOnTheWay

\* The attempt has seen no fault, and comes to a good end.
AckLast == \A i \in 1..Total : i < Total => OpAt(i) # Ack
OnlyOwn ==
  /\ \A i \in 1..Len(queue) : queue[i].call = call
  /\ \A i \in 1..Len(sent) : sent[i].call = call

Undisturbed ==
  /\ IF Waiting THEN step = "setIdle" \/ Total <= 1 ELSE Total = 0 /\ result = "ok"
  /\ IF step = "setIdle" THEN AckLast ELSE OnlyOwn
  /\ step = "readDac" /\ ~Waiting => answer.val = "dac"
  /\ step = "readTcode" => dacRead = "dac" /\ (~Waiting => answer.val = "tcode")

\* One fault too many: if the attempt fails, no reply to gxfp_cmd_set_idle is
\* left for the next one.
LastAreReg(k) == \A i \in 1..Total : i > Total - k => OpAt(i) = Reg
Disturbed ==
  /\ step = "readDac" /\ ~NoAck => (Waiting \/ result = "ok") /\ LastAreReg(1)
  /\ step = "readTcode" /\ ~NoAck => Waiting /\ LastAreReg(2)

Quiet == Verifies /\ ~notified /\ faults <= faultsBefore + 2
QuietInv ==
  Quiet =>
    /\ OwnCalls
    /\ attempt >= 1 /\ Slack >= -1
    /\ Slack = -1 => Undisturbed
    /\ Slack = 0 => Disturbed

BeforeInv ==
  /\ faultsBefore # Never => faultsBefore <= faults
  /\ step \in Configuring \union {"closed", "opening", "upload"} => faultsBefore = Never

TolerateInv == BeforeInv /\ NoFaultInv /\ QuietInv /\ VerifyTolerates

IInv == XferTypes /\ BootTypes /\ CallInv /\ OwnInv /\ LateInv /\ CountInv
        /\ TolerateInv

-----------------------------------------------------------------------------
LEMMA TailAt ==
  ASSUME NEW S, NEW q \in Seq(S), q # <<>>
  PROVE  /\ Len(q) \in Nat /\ Len(q) > 0 /\ Head(q) \in S /\ Head(q) = q[1]
         /\ Tail(q) \in Seq(S) /\ Len(Tail(q)) = Len(q) - 1
         /\ \A i \in 1..(Len(q) - 1) : Tail(q)[i] = q[i + 1]
OBVIOUS

LEMMA AppendAt ==
  ASSUME NEW S, NEW q \in Seq(S), NEW m \in S
  PROVE  /\ Append(q, m) \in Seq(S) /\ Len(q) \in Nat
         /\ Len(Append(q, m)) = Len(q) + 1
         /\ \A i \in 1..Len(q) : Append(q, m)[i] = q[i]
         /\ Append(q, m)[Len(q) + 1] = m
OBVIOUS

\* What the tables say of the commands and their opcodes.
LEMMA Tables ==
  /\ DOMAIN CommandOf = {"chip", "otp", "reset1", "setDac", "reset2", "upload",
                         "setIdle", "readDac", "readTcode"}
  /\ CommandOf["chip"] = "chip" /\ CommandOf["otp"] = "otp"
  /\ CommandOf["reset1"] = "reset" /\ CommandOf["setDac"] = "setDac"
  /\ CommandOf["reset2"] = "reset" /\ CommandOf["upload"] = "upload"
  /\ CommandOf["setIdle"] = "setIdle" /\ CommandOf["readDac"] = "readDac"
  /\ CommandOf["readTcode"] = "readTcode"
  /\ DOMAIN NextStep = {"otp", "reset1", "setDac", "reset2", "upload"}
  /\ NextStep["otp"] = "reset1" /\ NextStep["reset1"] = "setDac"
  /\ NextStep["setDac"] = "reset2" /\ NextStep["reset2"] = "image"
  /\ NextStep["upload"] = "setIdle"
BY DEF CommandOf, NextStep

LEMMA Opcode ==
  /\ Config \union Acked \union Verifying \subseteq Commands
  /\ \A s \in DOMAIN CommandOf : CommandOf[s] \in Commands
  /\ "image" \in Commands /\ "tlsInit" \in Commands /\ "none" \notin Commands
  /\ \A c \in Commands : ReplyOf[c] \in Opcodes
  /\ Unsolicited \subseteq Opcodes
BY OpcodesAssumption, CommandsAssumption, Tables
DEF Config, Acked, Verifying, Opcodes

LEMMA Bounds ==
  /\ QueueBound \in Nat /\ MaxCalls \in Nat /\ MaxFaults \in Nat
  /\ Never = MaxFaults + 1 /\ TriesOf \in [Commands -> Nat \ {0}]
BY BoundsAssumption, TriesAssumption DEF Never

-----------------------------------------------------------------------------
\* The kinds of steps.
Stays == UNCHANGED <<bootVars, sensor, faultsBefore>>

\* The open goes on without a command.
Moves ==
  /\ ~Waiting /\ step' \in Steps \ (DOMAIN CommandOf \union {"imageSent", "imageWait"})
  /\ UNCHANGED <<xferVars, sensor>>
Flushes ==
  /\ FlushQueue
  /\ \/ step = "closed" /\ step' = "opening"
     \/ step = "tls" /\ step' = "tlsInit"
  /\ UNCHANGED <<chip, attempt, dacRead, sensor, faultsBefore>>

\* It goes on to step s with its command, which is sent, or not.
AsksOk(s) ==
  /\ ~Waiting /\ step' = s /\ s \in DOMAIN CommandOf
  /\ call' = call + 1 /\ sent' = Append(sent, [cmd |-> CommandOf[s], call |-> call'])
  /\ cmd' = CommandOf[s] /\ left' = TriesOf[cmd'] /\ result' = "none"
  /\ UNCHANGED <<answer, queue, suspects, faults, notified, sensor>>
AsksFails(s) ==
  /\ ~Waiting /\ step' = s /\ s \in DOMAIN CommandOf
  /\ call' = call + 1 /\ EndCall("error") /\ Fault
  /\ UNCHANGED <<answer, sent, queue, suspects, notified, sensor>>

Asyncs ==
  /\ \/ step = "image" /\ step' = "imageSent" /\ SendAsync("image")
     \/ step = "tlsInit" /\ step' \in {"opened", "failed"} /\ SendAsync("tlsInit")
  /\ UNCHANGED <<chip, attempt, dacRead, sensor, faultsBefore>>
Awaits ==
  /\ step = "imageSent" /\ step' = "imageWait" /\ Await("image")
  /\ UNCHANGED <<chip, attempt, dacRead, sensor, faultsBefore>>

Drops == Drop /\ Stays
Accepts == Accept /\ Stays

\* A try is given up, and sent again, or the call ends; the queue may be lost.
Resends ==
  /\ Waiting /\ Fault /\ Suspect(Expected)
  /\ Send(cmd, call) /\ left' \in Nat
  /\ UNCHANGED <<cmd, call, result, answer, queue, notified>> /\ Stays
Ends ==
  /\ Waiting /\ Fault /\ Suspect(Expected)
  /\ \E r \in {"error", "timeout"} : EndCall(r)
  /\ queue' \in {queue, <<>>}
  /\ UNCHANGED <<call, answer, sent, notified>> /\ Stays

Kinds ==
  \/ Moves \/ Flushes \/ Asyncs \/ Awaits \/ Drops \/ Accepts \/ Resends \/ Ends
  \/ \E s \in DOMAIN CommandOf : AsksOk(s) \/ AsksFails(s)
  \/ McuReplies \/ McuNotifies \/ McuLoses
  \/ UNCHANGED vars

LEMMA Entered ==
  ASSUME NEW s, Enter(s), UNCHANGED sensor, ~Waiting
  PROVE  IF s \in DOMAIN CommandOf THEN AsksOk(s) \/ AsksFails(s)
         ELSE step' = s /\ UNCHANGED xferVars
<1>1. CASE s \in DOMAIN CommandOf
  BY <1>1 DEF Enter, Request, AsksOk, AsksFails, EndCall, Send
<1>2. CASE s \notin DOMAIN CommandOf
  BY <1>2 DEF Enter
<1> QED BY <1>1, <1>2

\* What a step of the call is.
LEMMA Called ==
  ASSUME Call, XferTypes
  PROVE  Drops \/ Accepts \/ Resends \/ Ends
<1>1. Stays
  BY DEF Call, Stays
<1>2. CASE Drop \/ Accept
  BY <1>1, <1>2 DEF Drops, Accepts, Stays
<1>3. CASE TimeoutResend
  <2>1. left - 1 \in Nat
    BY <1>3 DEF TimeoutResend, XferTypes
  <2>2. CASE Send(cmd, call) /\ left' = left - 1 /\ UNCHANGED <<cmd, result>>
    BY <1>1, <1>3, <2>1, <2>2 DEF TimeoutResend, Resends, Stays
  <2>3. CASE EndCall("error") /\ UNCHANGED sent
    BY <1>1, <1>3, <2>3 DEF TimeoutResend, Ends, Stays
  <2> QED BY <1>3, <2>2, <2>3 DEF TimeoutResend
<1>4. CASE TimeoutEnd
  BY <1>1, <1>4 DEF TimeoutEnd, Ends, Stays
<1>5. CASE ReceiveFails
  BY <1>1, <1>5 DEF ReceiveFails, Ends, Stays
<1> QED BY <1>2, <1>3, <1>4, <1>5 DEF Call, Xfer, Timeout

LEMMA Stepped ==
  ASSUME [Next]_vars, XferTypes, BootTypes, CallInv
  PROVE  Kinds
<1> USE Tables
<1>0. CASE UNCHANGED vars
  BY <1>0 DEF Kinds
<1>1. CASE Open
  BY <1>1 DEF Open, Kinds, Flushes
<1>2. CASE ReadChip
  <2>1. ~Waiting /\ Enter("chip") /\ UNCHANGED sensor
    BY <1>2 DEF ReadChip, CallInv
  <2> QED BY <2>1, Entered DEF Kinds
<1>3. CASE HaveChip
  <2> DEFINE s == IF chip' = "milang" THEN "otp" ELSE "tls"
  <2>1. ~Waiting /\ Enter(s) /\ UNCHANGED sensor
    BY <1>3 DEF HaveChip, Returned
  <2>2. s \in Steps /\ s \notin {"imageSent", "imageWait"}
    BY DEF Steps, Done
  <2> QED BY <2>1, <2>2, Entered DEF Kinds, Moves
<1>4. CASE Configure
  <2> DEFINE s == IF result = "ok" THEN NextStep[step] ELSE "failed"
  <2>1. ~Waiting /\ Enter(s) /\ UNCHANGED sensor /\ step \in DOMAIN NextStep
    BY <1>4 DEF Configure
  <2>2. s \in Steps /\ s \notin {"imageSent", "imageWait"}
    BY <2>1 DEF Steps, Done
  <2> QED BY <2>1, <2>2, Entered DEF Kinds, Moves
<1>5. CASE SendImageMode
  BY <1>5 DEF SendImageMode, Kinds, Asyncs
<1>6. CASE AwaitImageMode
  <2>1. step = "imageSent" /\ ~Waiting
    BY <1>6 DEF AwaitImageMode, CallInv
  <2> QED BY <1>6, <2>1 DEF AwaitImageMode, Kinds, Awaits, Moves, Steps
<1>7. CASE HaveImageMode
  <2> DEFINE s == IF result = "ok" THEN "upload" ELSE "failed"
  <2>1. ~Waiting /\ Enter(s) /\ UNCHANGED sensor
    BY <1>7 DEF HaveImageMode, Returned
  <2>2. s \in Steps /\ s \notin {"imageSent", "imageWait"}
    BY DEF Steps, Done
  <2> QED BY <2>1, <2>2, Entered DEF Kinds, Moves
<1>8. ASSUME AnotherAttempt, ~Waiting, UNCHANGED sensor
      PROVE  Kinds
  <2>1. CASE attempt < Attempts
    BY <1>8, <2>1, Entered DEF AnotherAttempt, Kinds
  <2>2. CASE ~(attempt < Attempts)
    BY <1>8, <2>2 DEF AnotherAttempt, Kinds, Moves, Steps
  <2> QED BY <2>1, <2>2
<1>9. CASE IdleSet
  BY <1>9, Entered DEF IdleSet, Returned, Kinds
<1>10. CASE HaveDac
  <2>1. ~Waiting /\ UNCHANGED sensor /\ (Enter("readTcode") \/ AnotherAttempt)
    BY <1>10 DEF HaveDac, Returned
  <2> QED BY <2>1, <1>8, Entered DEF Kinds
<1>11. CASE HaveTcode
  <2>1. /\ ~Waiting /\ UNCHANGED sensor
        /\ (step' = "tls" /\ UNCHANGED xferVars) \/ AnotherAttempt
    BY <1>11 DEF HaveTcode, Returned
  <2> QED BY <2>1, <1>8 DEF Kinds, Moves, Steps, Done
<1>12. CASE FlushForTls
  BY <1>12 DEF FlushForTls, Kinds, Flushes
<1>13. CASE InitTls
  BY <1>13 DEF InitTls, Kinds, Asyncs
<1>14. CASE Close
  <2>1. ~Waiting
    BY <1>14 DEF Close, CallInv
  <2> QED BY <1>14, <2>1 DEF Close, Kinds, Moves, Steps
<1>15. CASE Call
  BY <1>15, Called DEF Kinds
<1>16. CASE McuReplies \/ McuNotifies \/ McuLoses
  BY <1>16 DEF Kinds
<1> QED
  BY <1>0, <1>1, <1>2, <1>3, <1>4, <1>5, <1>6, <1>7, <1>9, <1>10, <1>11, <1>12,
     <1>13, <1>14, <1>15, <1>16 DEF Next, Driver

-----------------------------------------------------------------------------
\* The types.
LEMMA FrameRead ==
  ASSUME NEW c, sensor \in Registers, NEW v \in ValuesRead(c)
  PROVE  v \in Vals
BY DEF Registers, ValuesRead, Vals

LEMMA XferTypesKept ==
  ASSUME XferTypes, BootTypes, CallInv, Kinds
  PROVE  XferTypes'
<1> USE Opcode, Bounds
<1>1. CASE Moves \/ UNCHANGED vars
  BY <1>1 DEF Moves, XferTypes, xferVars, vars
<1>2. CASE Flushes
  BY <1>2 DEF Flushes, FlushQueue, XferTypes
<1>3. CASE Asyncs
  <2>1. PICK c \in {"image", "tlsInit"} : SendAsync(c)
    BY <1>3 DEF Asyncs
  <2>2. call' \in Nat \ {0}
    BY <2>1 DEF SendAsync, XferTypes
  <2>3. CASE Send(c, call') /\ Suspect(ReplyOf[c]) /\ UNCHANGED faults
    <3>1. [cmd |-> c, call |-> call'] \in Orders
      BY <2>1, <2>2 DEF Orders
    <3>2. sent' \in Seq(Orders)
      BY <2>3, <3>1, AppendAt DEF Send, XferTypes
    <3> QED BY <2>1, <2>2, <2>3, <3>2 DEF SendAsync, XferTypes, Suspect
  <2>4. CASE Fault /\ UNCHANGED <<sent, suspects>>
    BY <2>1, <2>2, <2>4 DEF SendAsync, XferTypes, Fault
  <2> QED BY <2>1, <2>3, <2>4 DEF SendAsync
<1>4. CASE Awaits
  BY <1>4 DEF Awaits, Await, XferTypes
<1>5. CASE Drops
  <2>1. queue' \in Seq(Frames)
    BY <1>5, TailAt DEF Drops, Drop, XferTypes
  <2> QED BY <1>5, <2>1 DEF Drops, Drop, XferTypes
<1>6. CASE Accepts
  <2>1. queue' \in Seq(Frames) /\ answer' \in Frames
    BY <1>6, TailAt DEF Accepts, Accept, XferTypes
  <2>2. answer'.val \in Vals
    BY <2>1 DEF Frames
  <2>3. faults' \in 0..MaxFaults
    BY <1>6 DEF Accepts, Accept, XferTypes, Fault
  <2> QED BY <1>6, <2>1, <2>2, <2>3 DEF Accepts, Accept, XferTypes, EndCall
<1>7. CASE Resends
  <2>1. cmd \in Commands
    BY <1>7 DEF Resends, XferTypes, Waiting
  <2>2. [cmd |-> cmd, call |-> call] \in Orders
    BY <1>7, <2>1 DEF Resends, XferTypes, CallInv, Orders
  <2>3. sent' \in Seq(Orders)
    BY <1>7, <2>2, AppendAt DEF Resends, Send, XferTypes
  <2>4. faults' \in 0..MaxFaults
    BY <1>7 DEF Resends, Fault, XferTypes
  <2>5. suspects' \subseteq Opcodes /\ Unsolicited \subseteq suspects'
    BY <1>7, <2>1 DEF Resends, Suspect, Expected, XferTypes
  <2>6. /\ cmd' \in Commands \union {"none"} /\ call' \in Nat /\ left' \in Nat
        /\ answer'.val \in Vals /\ queue' \in Seq(Frames)
    BY <1>7 DEF Resends, XferTypes
  <2>7. notified' \in BOOLEAN
    BY <1>7 DEF Resends, XferTypes
  <2> QED BY <2>3, <2>4, <2>5, <2>6, <2>7 DEF XferTypes
<1>8. CASE Ends
  <2>1. cmd \in Commands
    BY <1>8 DEF Ends, XferTypes, Waiting
  <2>2. suspects' \subseteq Opcodes /\ Unsolicited \subseteq suspects'
    BY <1>8, <2>1 DEF Ends, Suspect, Expected, XferTypes
  <2>3. faults' \in 0..MaxFaults
    BY <1>8 DEF Ends, Fault, XferTypes
  <2>4. queue' \in Seq(Frames)
    <3>1. queue \in Seq(Frames) /\ <<>> \in Seq(Frames)
      BY DEF XferTypes
    <3> QED BY <1>8, <3>1 DEF Ends
  <2>5. cmd' = "none" /\ left' = 0
    BY <1>8 DEF Ends, EndCall
  <2>6. notified' \in BOOLEAN
    BY <1>8 DEF Ends, XferTypes
  <2>7. call' \in Nat /\ answer'.val \in Vals /\ sent' \in Seq(Orders)
    BY <1>8 DEF Ends, XferTypes
  <2> QED BY <2>2, <2>3, <2>4, <2>5, <2>6, <2>7 DEF XferTypes
<1>9. ASSUME NEW s \in DOMAIN CommandOf, AsksOk(s)
      PROVE  XferTypes'
  <2>1. [cmd |-> CommandOf[s], call |-> call'] \in Orders
    BY <1>9 DEF AsksOk, Orders, XferTypes
  <2>2. sent' \in Seq(Orders)
    BY <1>9, <2>1, AppendAt DEF AsksOk, XferTypes
  <2> QED BY <1>9, <2>2 DEF AsksOk, XferTypes
<1>10. ASSUME NEW s \in DOMAIN CommandOf, AsksFails(s)
       PROVE  XferTypes'
  BY <1>10 DEF AsksFails, XferTypes, EndCall, Fault
<1>11. CASE McuReplies
  <2>1. PICK v \in ValuesRead(Head(sent).cmd) : Reply(v)
    BY <1>11 DEF McuReplies
  <2>2. sent # <<>> /\ sent' \in Seq(Orders) /\ Head(sent) \in Orders
    BY <2>1, TailAt DEF Reply, XferTypes
  <2>3. [op |-> ReplyOf[Head(sent).cmd], call |-> Head(sent).call, val |-> v]
          \in Frames
    BY <2>2, FrameRead DEF BootTypes, Orders, Frames
  <2>4. queue' \in Seq(Frames)
    BY <2>1, <2>3, AppendAt DEF Reply, XferTypes
  <2> QED BY <2>1, <2>2, <2>4 DEF Reply, XferTypes
<1>12. CASE McuNotifies
  <2>1. PICK op \in Unsolicited :
          queue' = Append(queue, [op |-> op, call |-> 0, val |-> "none"])
    BY <1>12 DEF McuNotifies, Notify
  <2>2. [op |-> op, call |-> 0, val |-> "none"] \in Frames
    BY DEF Frames, Vals
  <2>3. queue' \in Seq(Frames)
    BY <2>1, <2>2, AppendAt DEF XferTypes
  <2> QED BY <1>12, <2>3 DEF McuNotifies, Notify, XferTypes
<1>13. CASE McuLoses
  <2>1. sent' \in Seq(Orders)
    BY <1>13, TailAt DEF McuLoses, Lose, XferTypes
  <2> QED BY <1>13, <2>1 DEF McuLoses, Lose, Fault, XferTypes
<1> QED
  BY <1>1, <1>2, <1>3, <1>4, <1>5, <1>6, <1>7, <1>8, <1>9, <1>10, <1>11, <1>12,
     <1>13 DEF Kinds

\* BootTypes say what the steps of the open say of themselves: it does not
\* depend on the queue.
LEMMA BootTypesKept ==
  ASSUME XferTypes, BootTypes, [Next]_vars
  PROVE  BootTypes'
<1> USE Tables, Bounds
<1>1. /\ step \in Steps /\ attempt \in 0..3 /\ sensor \in Registers
      /\ faultsBefore \in 0..MaxFaults \union {Never} /\ faults \in 0..MaxFaults
      /\ Attempts = 3 /\ Never' = Never
  BY DEF BootTypes, XferTypes, Attempts, Never
<1>2. ASSUME NEW s \in Steps, Enter(s)
      PROVE  step' \in Steps
  BY <1>2 DEF Enter
<1>3. {"closed", "opening", "chip", "otp", "tls", "image", "imageSent", "imageWait",
       "failed", "upload", "unverified", "setIdle", "readDac", "readTcode",
       "tlsInit", "opened"} \subseteq Steps
      /\ \A s \in DOMAIN NextStep : NextStep[s] \in Steps
  BY DEF Steps, Done
<1>4. step' \in Steps
  <2>1. CASE Driver
    BY <1>1, <1>2, <1>3, <2>1
    DEF Driver, Open, ReadChip, HaveChip, Configure, SendImageMode, AwaitImageMode,
        HaveImageMode, IdleSet, HaveDac, HaveTcode, AnotherAttempt, FlushForTls,
        InitTls, Close
  <2>2. CASE ~Driver
    BY <1>1, <2>2 DEF Next, Call, McuReplies, McuNotifies, McuLoses, vars, bootVars
  <2> QED BY <2>1, <2>2
<1>5. attempt' \in 0..3
  BY <1>1
  DEF Next, Driver, Open, ReadChip, HaveChip, Configure, SendImageMode,
      AwaitImageMode, HaveImageMode, IdleSet, HaveDac, HaveTcode, AnotherAttempt,
      FlushForTls, InitTls, Close, Call, McuReplies, McuNotifies, McuLoses, vars,
      bootVars
<1>6. faultsBefore' \in 0..MaxFaults \union {Never}
  BY <1>1
  DEF Next, Driver, Open, ReadChip, HaveChip, Configure, SendImageMode,
      AwaitImageMode, HaveImageMode, IdleSet, HaveDac, HaveTcode,
      FlushForTls, InitTls, Close, Call, McuReplies, McuNotifies, McuLoses, vars
<1>7. ASSUME NEW c, NEW v \in Effect(c)
      PROVE  v \in Registers
  BY <1>1, <1>7 DEF Effect, Registers
<1>8. sensor' \in Registers
  BY <1>1, <1>7
  DEF Next, Driver, Open, ReadChip, HaveChip, Configure, SendImageMode,
      AwaitImageMode, HaveImageMode, IdleSet, HaveDac, HaveTcode,
      FlushForTls, InitTls, Close, Call, McuReplies, McuNotifies, McuLoses, vars
<1> QED BY <1>1, <1>4, <1>5, <1>6, <1>8 DEF BootTypes

LEMMA CallInvKept ==
  ASSUME XferTypes, BootTypes, CallInv, Kinds
  PROVE  CallInv'
<1> USE Tables
<1>1. CASE Moves \/ UNCHANGED vars
  BY <1>1 DEF Moves, CallInv, Waiting, xferVars, vars, bootVars
<1>2. CASE Flushes \/ Awaits
  BY <1>2 DEF Flushes, FlushQueue, Awaits, Await, CallInv, Waiting
<1>3. CASE Asyncs
  <2>1. ~Waiting' /\ call' = call + 1 /\ call \in Nat
    BY <1>3 DEF Asyncs, SendAsync, Waiting, XferTypes
  <2> QED BY <2>1 DEF CallInv
<1>4. CASE Drops \/ Accepts \/ Resends \/ Ends
  BY <1>4 DEF Drops, Drop, Accepts, Accept, Resends, Ends, Stays, bootVars, EndCall,
              CallInv, Waiting
<1>5. ASSUME NEW s \in DOMAIN CommandOf, AsksOk(s) \/ AsksFails(s)
      PROVE  CallInv'
  BY <1>5 DEF AsksOk, AsksFails, EndCall, CallInv, Waiting, XferTypes
<1>6. CASE McuReplies \/ McuNotifies \/ McuLoses
  BY <1>6 DEF McuReplies, Reply, McuNotifies, Notify, McuLoses, Lose, bootVars,
              CallInv, Waiting
<1> QED BY <1>1, <1>2, <1>3, <1>4, <1>5, <1>6 DEF Kinds

-----------------------------------------------------------------------------
\* OwnInv.  Everything on its way may be late.
AllSuspect ==
  /\ \A i \in 1..Len(queue) : queue[i].op \in suspects
  /\ \A i \in 1..Len(sent) : ReplyOf[sent[i].cmd] \in suspects

LEMMA WhileIdle ==
  ASSUME QueueOwn, SentOwn, ~Waiting
  PROVE  AllSuspect
BY DEF QueueOwn, SentOwn, AllSuspect, Own

LEMMA SuspectAll ==
  ASSUME AllSuspect'
  PROVE  QueueOwn' /\ SentOwn'
BY DEF QueueOwn, SentOwn, AllSuspect

\* A call that ends, or is sent again, leaves suspects only.
LEMMA GivenUp ==
  ASSUME XferTypes, CallInv, QueueOwn, SentOwn, Resends \/ Ends
  PROVE  AllSuspect'
<1>1. suspects' = suspects \union {Expected}
  BY DEF Resends, Ends, Suspect
<1>2. \A i \in 1..Len(queue) : queue[i].op \in suspects'
  BY <1>1 DEF QueueOwn, Own
<1>3. \A i \in 1..Len(sent) : ReplyOf[sent[i].cmd] \in suspects'
  BY <1>1 DEF SentOwn, Expected
<1>4. CASE Ends
  BY <1>2, <1>3, <1>4 DEF Ends, AllSuspect
<1>5. CASE Resends
  <2>1. cmd \in Commands /\ call \in Nat \ {0}
    BY <1>5 DEF Resends, XferTypes, Waiting, CallInv
  <2> DEFINE m == [cmd |-> cmd, call |-> call]
  <2>2. m \in Orders /\ sent \in Seq(Orders) /\ ReplyOf[m.cmd] \in suspects'
    BY <1>1, <2>1 DEF XferTypes, Expected, Orders
  <2>3. sent' = Append(sent, m) /\ queue' = queue
    BY <1>5 DEF Resends, Send
  <2> HIDE DEF m
  <2>4. \A i \in 1..Len(sent') : ReplyOf[sent'[i].cmd] \in suspects'
    BY <1>3, <2>2, <2>3, AppendAt
  <2> QED BY <1>2, <2>3, <2>4 DEF AllSuspect
<1> QED BY <1>4, <1>5

\* A reply that was not suspect was the last of what was asked for.
LEMMA Taking ==
  ASSUME XferTypes, QueueOwn, SentOwn, Unasked, Accepts
  PROVE  /\ AllSuspect'
         /\ Expected \notin suspects =>
              Drained' /\ answer'.val \in ValuesRead(cmd) /\ suspects' = Unsolicited
         /\ Expected \in suspects => suspects' = suspects
<1>1. /\ Waiting /\ queue # <<>> /\ Head(queue).op = Expected
      /\ queue' = Tail(queue) /\ answer' = Head(queue) /\ sent' = sent
      /\ suspects' = IF Expected \in suspects THEN suspects ELSE Unsolicited
  BY DEF Accepts, Accept, Matches
<1>2. /\ Len(queue) \in Nat /\ Len(queue) > 0 /\ Head(queue) = queue[1]
      /\ Len(queue') = Len(queue) - 1
      /\ \A i \in 1..(Len(queue) - 1) : queue'[i] = queue[i + 1]
  BY <1>1, TailAt DEF XferTypes
<1>3. CASE Expected \in suspects
  <2>1. \A i \in 1..Len(queue) : queue[i].op \in suspects
    BY <1>3 DEF QueueOwn, Own
  <2>2. \A i \in 1..Len(queue') : queue'[i].op \in suspects
    BY <1>2, <2>1
  <2>3. \A i \in 1..Len(sent) : ReplyOf[sent[i].cmd] \in suspects
    BY <1>3 DEF SentOwn, Expected
  <2> QED BY <1>1, <1>3, <2>2, <2>3 DEF AllSuspect
<1>4. CASE Expected \notin suspects
  <2>1. /\ sent = <<>> /\ queue[1].val \in ValuesRead(cmd)
        /\ \A j \in 1..Len(queue) : j > 1 => queue[j].call = 0
    BY <1>1, <1>2, <1>4 DEF QueueOwn
  <2>2. \A i \in 1..Len(queue') : queue'[i].call = 0 /\ queue'[i].op \in Unsolicited
    <3> SUFFICES ASSUME NEW i \in 1..Len(queue')
                 PROVE  queue'[i].call = 0 /\ queue'[i].op \in Unsolicited
      OBVIOUS
    <3>1. i + 1 \in 1..Len(queue) /\ i + 1 > 1 /\ queue'[i] = queue[i + 1]
      BY <1>2
    <3> QED BY <2>1, <3>1 DEF Unasked
  <2> QED BY <1>1, <1>2, <1>4, <2>1, <2>2 DEF AllSuspect, Drained
<1> QED BY <1>3, <1>4

LEMMA UnaskedKept ==
  ASSUME XferTypes, BootTypes, Unasked, Kinds
  PROVE  Unasked'
<1>1. CASE queue' = queue /\ notified' = notified
  BY <1>1 DEF Unasked
<1>2. CASE queue' = <<>>
  BY <1>2 DEF Unasked
<1>3. CASE Drops \/ Accepts
  <2>1. queue # <<>> /\ queue' = Tail(queue) /\ notified' = notified
    BY <1>3 DEF Drops, Drop, Accepts, Accept
  <2>2. /\ Len(queue) \in Nat /\ Len(queue') = Len(queue) - 1
        /\ \A i \in 1..(Len(queue) - 1) : queue'[i] = queue[i + 1]
    BY <2>1, TailAt DEF XferTypes
  <2> SUFFICES ASSUME NEW i \in 1..Len(queue'), queue'[i].call = 0
               PROVE  /\ queue'[i].op \in Unsolicited /\ queue'[i].val = "none"
                      /\ notified'
    BY DEF Unasked
  <2>3. i + 1 \in 1..Len(queue) /\ queue'[i] = queue[i + 1]
    BY <2>2
  <2> QED BY <2>1, <2>3 DEF Unasked
<1>4. ASSUME NEW m, queue' = Append(queue, m), m \in Frames,
             m.call = 0 => m.op \in Unsolicited /\ m.val = "none" /\ notified',
             notified => notified'
      PROVE  Unasked'
  <2>1. /\ Len(queue) \in Nat /\ Len(queue') = Len(queue) + 1
        /\ \A i \in 1..Len(queue) : queue'[i] = queue[i]
        /\ queue'[Len(queue) + 1] = m
    BY <1>4, AppendAt DEF XferTypes
  <2> SUFFICES ASSUME NEW i \in 1..Len(queue'), queue'[i].call = 0
               PROVE  /\ queue'[i].op \in Unsolicited /\ queue'[i].val = "none"
                      /\ notified'
    BY DEF Unasked
  <2>2. i = Len(queue) + 1 \/ i \in 1..Len(queue)
    BY <2>1
  <2> QED BY <1>4, <2>1, <2>2 DEF Unasked
<1>5. CASE McuReplies
  <2>1. PICK v \in ValuesRead(Head(sent).cmd) : Reply(v)
    BY <1>5 DEF McuReplies
  <2> DEFINE m == [op |-> ReplyOf[Head(sent).cmd], call |-> Head(sent).call,
                   val |-> v]
  <2>2. Head(sent) \in Orders
    BY <2>1, TailAt DEF Reply, XferTypes
  <2>3. m \in Frames /\ m.call # 0
    BY <2>2, FrameRead, Opcode DEF BootTypes, Orders, Frames
  <2>4. queue' = Append(queue, m) /\ notified' = notified
    BY <2>1 DEF Reply
  <2> QED BY <1>4, <2>3, <2>4
<1>6. CASE McuNotifies
  <2>1. PICK op \in Unsolicited :
          queue' = Append(queue, [op |-> op, call |-> 0, val |-> "none"])
    BY <1>6 DEF McuNotifies, Notify
  <2>2. [op |-> op, call |-> 0, val |-> "none"] \in Frames
    BY Opcode DEF Frames, Vals
  <2>3. notified'
    BY <1>6 DEF McuNotifies, Notify
  <2> QED BY <1>4, <2>1, <2>2, <2>3
<1>7. CASE ~(Drops \/ Accepts \/ McuReplies \/ McuNotifies)
  <2>1. queue' = <<>> \/ (queue' = queue /\ notified' = notified)
    BY <1>7 DEF Kinds, Moves, xferVars, vars, Flushes, FlushQueue, Asyncs, SendAsync,
                Awaits, Await, Resends, Ends, AsksOk, AsksFails, McuLoses, Lose
  <2> QED BY <1>1, <1>2, <2>1
<1> QED BY <1>3, <1>5, <1>6, <1>7

\* A command reads what it leaves.
LEMMA ReadsWhatIs ==
  ASSUME NEW c, sensor' \in Effect(c), NEW v \in ValuesRead(c)
  PROVE  v \in ValuesRead(c)'
<1>1. CASE c \in {"readDac", "readTcode"}
  BY <1>1 DEF Effect, ValuesRead
<1>2. CASE c \notin {"readDac", "readTcode"}
  BY <1>2 DEF ValuesRead
<1> QED BY <1>1, <1>2

LEMMA McuOwn ==
  ASSUME XferTypes, XferTypes', BootTypes, QueueOwn, SentOwn, McuReplies
  PROVE  QueueOwn' /\ SentOwn'
<1>1. PICK v \in ValuesRead(Head(sent).cmd) : Reply(v)
  BY DEF McuReplies
<1>0. PICK m : m = [op |-> ReplyOf[Head(sent).cmd], call |-> Head(sent).call, val |-> v]
  OBVIOUS
<1>2. /\ sent # <<>> /\ sent' = Tail(sent) /\ queue' = Append(queue, m)
      /\ cmd' = cmd /\ call' = call /\ suspects' = suspects
      /\ sensor' \in Effect(Head(sent).cmd)
  BY <1>0, <1>1 DEF Reply, McuReplies
<1>3. /\ Len(sent) \in Nat /\ Len(sent) > 0 /\ Head(sent) = sent[1] /\ Head(sent) \in Orders
      /\ Len(sent') = Len(sent) - 1
      /\ \A i \in 1..(Len(sent) - 1) : sent'[i] = sent[i + 1]
  BY <1>2, TailAt DEF XferTypes
<1>4. m \in Frames /\ m.op = ReplyOf[sent[1].cmd] /\ m.call = sent[1].call /\ m.val = v
  BY <1>0, <1>3, FrameRead, Opcode DEF BootTypes, Orders, Frames
<1>5. /\ Len(queue) \in Nat /\ Len(queue') = Len(queue) + 1
      /\ \A i \in 1..Len(queue) : queue'[i] = queue[i]
      /\ queue'[Len(queue) + 1] = m
  BY <1>2, <1>4, AppendAt DEF XferTypes
<1>6. \A i \in 1..Len(queue) : queue[i].op \in suspects
  BY <1>2 DEF QueueOwn
<1>7. SentOwn'
  <2> SUFFICES ASSUME NEW i \in 1..Len(sent'), ReplyOf[sent'[i].cmd] \notin suspects'
               PROVE  (Waiting /\ sent[i].cmd = cmd /\ sent[i].call = call /\ i = Len(sent))'
    BY DEF SentOwn
  <2>1. i + 1 \in 1..Len(sent) /\ sent'[i] = sent[i + 1]
    BY <1>3
  <2>2. Waiting /\ sent[i + 1].cmd = cmd /\ sent[i + 1].call = call /\ i + 1 = Len(sent)
    BY <1>2, <2>1 DEF SentOwn
  <2>3. i = Len(sent')
    BY <1>3, <2>2
  <2>4. sent'[i].cmd = cmd' /\ sent'[i].call = call' /\ Waiting'
    BY <1>2, <2>1, <2>2 DEF Waiting
  <2> QED BY <2>3, <2>4
<1>8. ASSUME m.op \notin suspects
      PROVE  /\ Own(m.op)' /\ m.call = call /\ m.val \in ValuesRead(cmd)'
             /\ sent' = <<>>
  <2>1. Waiting /\ sent[1].cmd = cmd /\ sent[1].call = call /\ 1 = Len(sent)
    BY <1>3, <1>4, <1>8 DEF SentOwn
  <2>2. v \in ValuesRead(cmd)'
    <3>1. PICK c : c = cmd
      OBVIOUS
    <3>2. v \in ValuesRead(c)'
      BY <1>2, <1>3, <2>1, <3>1, ReadsWhatIs
    <3> QED BY <1>2, <3>1, <3>2 DEF ValuesRead
  <2>3. sent' = <<>>
    BY <1>2, <1>3, <2>1 DEF XferTypes
  <2>4. Own(m.op)'
    BY <1>2, <1>4, <2>1 DEF Own, Waiting, Expected
  <2> QED BY <1>4, <2>1, <2>2, <2>3, <2>4
<1>9. QueueOwn'
  <2> SUFFICES ASSUME NEW i \in 1..Len(queue'), queue'[i].op \notin suspects'
               PROVE  (/\ Own(queue[i].op) /\ queue[i].call = call
                       /\ queue[i].val \in ValuesRead(cmd)
                       /\ sent = <<>>
                       /\ \A j \in 1..Len(queue) : j > i => queue[j].call = 0)'
    BY DEF QueueOwn
  <2>1. i = Len(queue) + 1 /\ queue'[i] = m
    BY <1>2, <1>5, <1>6
  <2>2. \A j \in 1..Len(queue') : ~(j > i)
    BY <1>5, <2>1
  <2> QED BY <1>2, <1>8, <2>1, <2>2
<1> QED BY <1>7, <1>9

LEMMA NotifyOwn ==
  ASSUME XferTypes, QueueOwn, SentOwn, McuNotifies
  PROVE  QueueOwn' /\ SentOwn'
<1>1. PICK op \in Unsolicited :
        queue' = Append(queue, [op |-> op, call |-> 0, val |-> "none"])
  BY DEF McuNotifies, Notify
<1>2. PICK m : m = [op |-> op, call |-> 0, val |-> "none"]
  OBVIOUS
<1>3. m \in Frames /\ m.call = 0 /\ m.op \in suspects
  BY <1>2, Opcode DEF Frames, Vals, XferTypes
<1>4. /\ Len(queue) \in Nat /\ Len(queue') = Len(queue) + 1
      /\ \A i \in 1..Len(queue) : queue'[i] = queue[i]
      /\ queue'[Len(queue) + 1] = m
  BY <1>1, <1>2, <1>3, AppendAt DEF XferTypes
<1>5. UNCHANGED <<cmd, call, sent, suspects, sensor>>
  BY DEF McuNotifies, Notify
<1>6. SentOwn'
  BY <1>5 DEF SentOwn, Waiting
<1>7. \A c : ValuesRead(c)' = ValuesRead(c)
  BY <1>5 DEF ValuesRead
<1>8. QueueOwn'
  <2> SUFFICES ASSUME NEW i \in 1..Len(queue'), queue'[i].op \notin suspects'
               PROVE  (/\ Own(queue[i].op) /\ queue[i].call = call
                       /\ queue[i].val \in ValuesRead(cmd)
                       /\ sent = <<>>
                       /\ \A j \in 1..Len(queue) : j > i => queue[j].call = 0)'
    BY DEF QueueOwn
  <2>1. i \in 1..Len(queue) /\ queue'[i] = queue[i]
    BY <1>3, <1>4, <1>5
  <2>2. /\ Own(queue[i].op) /\ queue[i].call = call
        /\ queue[i].val \in ValuesRead(cmd) /\ sent = <<>>
        /\ \A j \in 1..Len(queue) : j > i => queue[j].call = 0
    BY <1>5, <2>1 DEF QueueOwn
  <2>3. \A j \in 1..Len(queue') : j > i => queue'[j].call = 0
    BY <1>3, <1>4, <2>2
  <2>4. Own(queue[i].op)'
    BY <1>5, <2>1, <2>2 DEF Own, Waiting, Expected
  <2>5. queue'[i].val \in ValuesRead(cmd)'
    BY <1>5, <1>7, <2>1, <2>2 DEF ValuesRead
  <2> QED BY <1>5, <2>1, <2>2, <2>3, <2>4, <2>5
<1> QED BY <1>6, <1>8

LEMMA LoseOwn ==
  ASSUME XferTypes, QueueOwn, SentOwn, McuLoses
  PROVE  QueueOwn' /\ SentOwn'
<1>1. /\ sent # <<>> /\ sent' = Tail(sent)
      /\ UNCHANGED <<cmd, call, queue, suspects>>
  BY DEF McuLoses, Lose
<1>2. /\ Len(sent) \in Nat /\ Len(sent) > 0 /\ Len(sent') = Len(sent) - 1
      /\ \A i \in 1..(Len(sent) - 1) : sent'[i] = sent[i + 1]
  BY <1>1, TailAt DEF XferTypes
<1>3. QueueOwn'
  BY <1>1 DEF QueueOwn
<1>4. SentOwn'
  <2> SUFFICES ASSUME NEW i \in 1..Len(sent'), ReplyOf[sent'[i].cmd] \notin suspects'
               PROVE  (Waiting /\ sent[i].cmd = cmd /\ sent[i].call = call /\ i = Len(sent))'
    BY DEF SentOwn
  <2>1. i + 1 \in 1..Len(sent) /\ sent'[i] = sent[i + 1]
    BY <1>2
  <2>2. Waiting /\ sent[i + 1].cmd = cmd /\ sent[i + 1].call = call /\ i + 1 = Len(sent)
    BY <1>1, <2>1 DEF SentOwn
  <2>3. i = Len(sent')
    BY <1>2, <2>2
  <2>4. sent'[i].cmd = cmd' /\ sent'[i].call = call' /\ Waiting'
    BY <1>1, <2>1, <2>2 DEF Waiting
  <2> QED BY <2>3, <2>4
<1> QED BY <1>3, <1>4

LEMMA DropOwn ==
  ASSUME XferTypes, QueueOwn, SentOwn, Drops
  PROVE  QueueOwn' /\ SentOwn'
<1>1. /\ queue # <<>> /\ queue' = Tail(queue)
      /\ UNCHANGED <<cmd, call, sent, suspects, sensor>>
  BY DEF Drops, Drop, Stays
<1>2. /\ Len(queue) \in Nat /\ Len(queue) > 0 /\ Len(queue') = Len(queue) - 1
      /\ \A i \in 1..(Len(queue) - 1) : queue'[i] = queue[i + 1]
  BY <1>1, TailAt DEF XferTypes
<1>3. SentOwn'
  BY <1>1 DEF SentOwn, Waiting
<1>4. QueueOwn'
  <2> SUFFICES ASSUME NEW i \in 1..Len(queue'), queue'[i].op \notin suspects'
               PROVE  (/\ Own(queue[i].op) /\ queue[i].call = call
                       /\ queue[i].val \in ValuesRead(cmd)
                       /\ sent = <<>>
                       /\ \A j \in 1..Len(queue) : j > i => queue[j].call = 0)'
    BY DEF QueueOwn
  <2>1. i + 1 \in 1..Len(queue) /\ queue'[i] = queue[i + 1] /\ i \in Int
    BY <1>2
  <2>2. /\ Own(queue[i + 1].op) /\ queue[i + 1].call = call
        /\ queue[i + 1].val \in ValuesRead(cmd) /\ sent = <<>>
        /\ \A j \in 1..Len(queue) : j > i + 1 => queue[j].call = 0
    BY <1>1, <2>1 DEF QueueOwn
  <2>3. \A j \in 1..Len(queue') : j > i => queue'[j].call = 0
    <3> SUFFICES ASSUME NEW j \in 1..Len(queue'), j > i
                 PROVE  queue'[j].call = 0
      OBVIOUS
    <3>1. j + 1 \in 1..Len(queue) /\ j + 1 > i + 1 /\ queue'[j] = queue[j + 1]
      BY <1>2, <2>1
    <3> QED BY <2>2, <3>1
  <2>4. Own(queue'[i].op) /\ Waiting' = Waiting /\ Expected' = Expected
    BY <1>1, <2>1, <2>2 DEF Waiting, Expected
  <2>5. Own(queue[i].op)'
    BY <2>4 DEF Own
  <2>6. queue'[i].val \in ValuesRead(cmd)'
    BY <1>1, <2>1, <2>2 DEF ValuesRead
  <2> QED BY <1>1, <2>1, <2>2, <2>3, <2>5, <2>6
<1> QED BY <1>3, <1>4

LEMMA AskOwn ==
  ASSUME XferTypes, QueueOwn, SentOwn, NEW s \in DOMAIN CommandOf,
         AsksOk(s) \/ AsksFails(s)
  PROVE  QueueOwn' /\ SentOwn'
<1>1. AllSuspect
  BY WhileIdle DEF AsksOk, AsksFails
<1>2. CASE AsksFails(s)
  <2>1. AllSuspect'
    BY <1>1, <1>2 DEF AsksFails, AllSuspect
  <2> QED BY <2>1, SuspectAll
<1>3. CASE AsksOk(s)
  <2>1. PICK m : m = [cmd |-> CommandOf[s], call |-> call']
    OBVIOUS
  <2>2. m \in Orders /\ m.cmd = cmd' /\ m.call = call' /\ Waiting'
    BY <1>3, <2>1, Opcode DEF AsksOk, Orders, XferTypes, Waiting
  <2>3. sent' = Append(sent, m) /\ UNCHANGED <<queue, suspects>>
    BY <1>3, <2>1 DEF AsksOk
  <2>4. /\ Len(sent) \in Nat /\ Len(sent') = Len(sent) + 1
        /\ \A i \in 1..Len(sent) : sent'[i] = sent[i]
        /\ sent'[Len(sent) + 1] = m
    BY <2>2, <2>3, AppendAt DEF XferTypes
  <2>5. QueueOwn'
    BY <1>1, <2>3 DEF AllSuspect, QueueOwn
  <2>6. SentOwn'
    <3> SUFFICES ASSUME NEW i \in 1..Len(sent'), ReplyOf[sent'[i].cmd] \notin suspects'
                 PROVE  (Waiting /\ sent[i].cmd = cmd /\ sent[i].call = call
                         /\ i = Len(sent))'
      BY DEF SentOwn
    <3>1. i = Len(sent')
      BY <1>1, <2>3, <2>4 DEF AllSuspect
    <3> QED BY <2>2, <2>4, <3>1
  <2> QED BY <2>5, <2>6
<1> QED BY <1>2, <1>3

LEMMA AsyncOwn ==
  ASSUME XferTypes, QueueOwn, SentOwn, Asyncs
  PROVE  QueueOwn' /\ SentOwn'
<1>1. PICK c \in {"image", "tlsInit"} : SendAsync(c)
  BY DEF Asyncs
<1>2. AllSuspect
  BY <1>1, WhileIdle DEF SendAsync
<1>3. CASE UNCHANGED <<sent, suspects>>
  BY <1>1, <1>2, <1>3, SuspectAll DEF SendAsync, AllSuspect
<1>4. CASE Send(c, call') /\ Suspect(ReplyOf[c])
  <2>1. PICK m : m = [cmd |-> c, call |-> call']
    OBVIOUS
  <2>2. m \in Orders /\ ReplyOf[m.cmd] \in suspects' /\ suspects \subseteq suspects'
    BY <1>1, <1>4, <2>1, Opcode DEF SendAsync, Orders, XferTypes, Suspect
  <2>3. sent' = Append(sent, m) /\ queue' = queue
    BY <1>1, <1>4, <2>1 DEF SendAsync, Send
  <2>4. /\ Len(sent) \in Nat /\ Len(sent') = Len(sent) + 1
        /\ \A i \in 1..Len(sent) : sent'[i] = sent[i]
        /\ sent'[Len(sent) + 1] = m
    BY <2>2, <2>3, AppendAt DEF XferTypes
  <2>5. AllSuspect'
    BY <1>2, <2>2, <2>3, <2>4 DEF AllSuspect
  <2> QED BY <2>5, SuspectAll
<1> QED BY <1>1, <1>3, <1>4 DEF SendAsync

LEMMA PipeOwnKept ==
  ASSUME XferTypes, XferTypes', BootTypes, CallInv, QueueOwn, SentOwn, Unasked, Kinds
  PROVE  QueueOwn' /\ SentOwn'
<1>1. CASE Moves \/ UNCHANGED vars
  BY <1>1 DEF Moves, xferVars, vars, QueueOwn, SentOwn, Own, Waiting, Expected,
              ValuesRead
<1>2. CASE Flushes \/ Awaits
  <2>1. AllSuspect
    BY <1>2, WhileIdle DEF Flushes, FlushQueue, Awaits, Await
  <2>2. AllSuspect'
    BY <1>2, <2>1 DEF Flushes, FlushQueue, Awaits, Await, AllSuspect
  <2> QED BY <2>2, SuspectAll
<1>3. CASE Accepts \/ Resends \/ Ends
  BY <1>3, Taking, GivenUp, SuspectAll
<1> QED
  BY <1>1, <1>2, <1>3, AsyncOwn, DropOwn, AskOwn, McuOwn, NotifyOwn, LoseOwn
  DEF Kinds

LEMMA AnswerInvKept ==
  ASSUME XferTypes, CallInv, CallInv', QueueOwn, SentOwn, Unasked, AnswerInv,
         Kinds
  PROVE  AnswerInv'
<1> USE Tables
<1> SUFFICES ASSUME Answered', ReplyOf[CommandOf[step]]' \notin suspects'
             PROVE  (Drained /\ answer.val \in ValuesRead(CommandOf[step]))'
  BY DEF AnswerInv
<1>1. step' \in DOMAIN CommandOf /\ ~Waiting' /\ result' = "ok"
  BY DEF Answered
<1>2. CASE Accepts
  <2>1. step' = step /\ Waiting /\ sensor' = sensor
    BY <1>2 DEF Accepts, Accept, Stays, bootVars
  <2>2. cmd = CommandOf[step]
    BY <1>1, <2>1 DEF CallInv
  <2>3. Expected \notin suspects
    BY <1>2, <2>1, <2>2, Taking DEF Expected
  <2>4. Drained' /\ answer'.val \in ValuesRead(cmd)
    BY <1>2, <2>3, Taking
  <2> QED BY <2>1, <2>2, <2>4 DEF ValuesRead
<1>3. CASE UNCHANGED vars
  BY <1>1, <1>3 DEF vars, bootVars, xferVars, AnswerInv, Answered, Waiting, Drained,
                    ValuesRead
<1>4. CASE McuReplies \/ McuLoses \/ McuNotifies
  <2>1. /\ UNCHANGED <<step, result, cmd, suspects, answer>>
    BY <1>4 DEF McuReplies, Reply, McuLoses, Lose, McuNotifies, Notify, bootVars
  <2>2. Drained /\ answer.val \in ValuesRead(CommandOf[step])
    BY <1>1, <2>1 DEF AnswerInv, Answered, Waiting
  <2>3. McuNotifies
    BY <1>4, <2>2 DEF Drained, McuReplies, McuLoses
  <2>4. PICK op \in Unsolicited :
          queue' = Append(queue, [op |-> op, call |-> 0, val |-> "none"])
    BY <2>3 DEF McuNotifies, Notify
  <2>5. PICK m : m = [op |-> op, call |-> 0, val |-> "none"]
    OBVIOUS
  <2>6. m \in Frames /\ m.call = 0
    BY <2>5, Opcode DEF Frames, Vals, XferTypes
  <2>7. /\ Len(queue) \in Nat /\ Len(queue') = Len(queue) + 1
        /\ \A i \in 1..Len(queue) : queue'[i] = queue[i]
        /\ queue'[Len(queue) + 1] = m
    BY <2>4, <2>5, <2>6, AppendAt DEF XferTypes
  <2>8. sent' = sent /\ sensor' = sensor
    BY <2>3 DEF McuNotifies, Notify
  <2>9. Drained'
    BY <2>2, <2>6, <2>7, <2>8 DEF Drained
  <2> QED BY <2>1, <2>2, <2>8, <2>9 DEF ValuesRead
<1>5. CASE Moves \/ Flushes \/ Asyncs \/ Awaits
  BY <1>1, <1>5 DEF Moves, Flushes, Asyncs, Awaits
<1>6. CASE Drops \/ Resends
  BY <1>1, <1>6 DEF Drops, Drop, Resends, Waiting
<1>7. CASE Ends
  BY <1>1, <1>7 DEF Ends, EndCall
<1>8. ASSUME NEW s \in DOMAIN CommandOf, AsksOk(s) \/ AsksFails(s)
      PROVE  FALSE
  BY <1>1, <1>8 DEF AsksOk, AsksFails, EndCall
<1> QED
  BY <1>2, <1>3, <1>4, <1>5, <1>6, <1>7, <1>8 DEF Kinds

\* The calls are numbered in their order.
LEMMA NumberedKept ==
  ASSUME XferTypes, BootTypes, CallInv, Numbered, Kinds
  PROVE  Numbered'
<1>1. call \in Nat /\ (call' = call \/ call' = call + 1)
  BY DEF XferTypes, Kinds, Moves, xferVars, vars, Flushes, FlushQueue, Awaits, Await,
         Asyncs, SendAsync, Drops, Drop, Accepts, Accept, Resends, Ends, AsksOk,
         AsksFails, McuReplies, Reply, McuNotifies, Notify, McuLoses, Lose
<1>2. \A n \in Nat : n <= call => n <= call'
  BY <1>1
<1>3. (\A i \in 1..Len(queue) : queue[i].call \in Nat)
      /\ (\A i \in 1..Len(sent) : sent[i].call \in Nat)
  <2>1. /\ \A i \in 1..Len(queue) : queue[i] \in Frames
        /\ \A i \in 1..Len(sent) : sent[i] \in Orders
    BY DEF XferTypes
  <2>2. /\ \A i \in 1..Len(queue) : queue[i].call \in Nat
    BY <2>1 DEF Frames
  <2>3. \A i \in 1..Len(sent) : sent[i].call \in Nat
    BY <2>1 DEF Orders
  <2> QED BY <2>2, <2>3
<1>4. \A i \in 1..Len(queue') : queue'[i].call <= call'
  <2>1. CASE queue' \in {queue, <<>>}
    BY <1>2, <1>3, <2>1 DEF Numbered
  <2>2. CASE queue # <<>> /\ queue' = Tail(queue)
    <3>1. \A i \in 1..Len(queue') : i + 1 \in 1..Len(queue) /\ queue'[i] = queue[i + 1]
      BY <2>2, TailAt DEF XferTypes
    <3> QED BY <1>2, <1>3, <3>1 DEF Numbered
  <2>3. ASSUME NEW m \in Frames, queue' = Append(queue, m), m.call <= call'
        PROVE  \A i \in 1..Len(queue') : queue'[i].call <= call'
    <3>1. /\ Len(queue) \in Nat /\ Len(queue') = Len(queue) + 1
          /\ \A i \in 1..Len(queue) : queue'[i] = queue[i]
          /\ queue'[Len(queue) + 1] = m
      BY <2>3, AppendAt DEF XferTypes
    <3>2. \A i \in 1..Len(queue') :
            i = Len(queue) + 1 \/ (i \in 1..Len(queue) /\ queue'[i] = queue[i])
      BY <3>1
    <3> QED BY <1>2, <1>3, <2>3, <3>1, <3>2 DEF Numbered
  <2>4. CASE McuReplies
    <3>1. PICK v \in ValuesRead(Head(sent).cmd) : Reply(v)
      BY <2>4 DEF McuReplies
    <3>2. PICK m : m = [op |-> ReplyOf[Head(sent).cmd], call |-> Head(sent).call,
                        val |-> v]
      OBVIOUS
    <3>3. Head(sent) \in Orders /\ Head(sent) = sent[1] /\ Len(sent) > 0 /\ Len(sent) \in Nat
      BY <3>1, TailAt DEF Reply, XferTypes
    <3>4. m \in Frames
      BY <3>2, <3>3, FrameRead, Opcode DEF BootTypes, Orders, Frames
    <3>5. m.call <= call' /\ queue' = Append(queue, m)
      BY <1>2, <1>3, <3>1, <3>2, <3>3 DEF Reply, Numbered
    <3> QED BY <2>3, <3>4, <3>5
  <2>5. CASE McuNotifies
    <3>1. PICK op \in Unsolicited :
            queue' = Append(queue, [op |-> op, call |-> 0, val |-> "none"])
      BY <2>5 DEF McuNotifies, Notify
    <3>2. PICK m : m = [op |-> op, call |-> 0, val |-> "none"]
      OBVIOUS
    <3>3. m \in Frames /\ m.call <= call'
      BY <1>1, <3>2, Opcode DEF Frames, Vals
    <3> QED BY <2>3, <3>1, <3>2, <3>3
  <2>6. CASE ~(McuReplies \/ McuNotifies)
    BY <2>1, <2>2, <2>6
    DEF Kinds, Moves, xferVars, vars, Flushes, FlushQueue, Awaits, Await, Asyncs,
        SendAsync, Drops, Drop, Accepts, Accept, Resends, Ends, AsksOk, AsksFails,
        McuLoses, Lose
  <2> QED BY <2>4, <2>5, <2>6
<1>5. \A i \in 1..Len(sent') : sent'[i].call <= call'
  <2>1. CASE sent' = sent
    BY <1>2, <1>3, <2>1 DEF Numbered
  <2>2. CASE sent # <<>> /\ sent' = Tail(sent)
    <3>1. \A i \in 1..Len(sent') : i + 1 \in 1..Len(sent) /\ sent'[i] = sent[i + 1]
      BY <2>2, TailAt DEF XferTypes
    <3> QED BY <1>2, <1>3, <3>1 DEF Numbered
  <2>3. ASSUME NEW c \in Commands, sent' = Append(sent, [cmd |-> c, call |-> call']),
               call' > 0
        PROVE  \A i \in 1..Len(sent') : sent'[i].call <= call'
    <3>1. PICK m : m = [cmd |-> c, call |-> call']
      OBVIOUS
    <3>2. m \in Orders /\ m.call <= call'
      BY <1>1, <2>3, <3>1 DEF Orders
    <3>3. /\ Len(sent) \in Nat /\ Len(sent') = Len(sent) + 1
          /\ \A i \in 1..Len(sent) : sent'[i] = sent[i]
          /\ sent'[Len(sent) + 1] = m
      BY <2>3, <3>1, <3>2, AppendAt DEF XferTypes
    <3>4. \A i \in 1..Len(sent') :
            i = Len(sent) + 1 \/ (i \in 1..Len(sent) /\ sent'[i] = sent[i])
      BY <3>3
    <3> QED BY <1>2, <1>3, <3>2, <3>3, <3>4 DEF Numbered
  <2>4. CASE Resends
    <3>1. cmd \in Commands /\ call' > 0 /\ sent' = Append(sent, [cmd |-> cmd, call |-> call'])
      BY <2>4 DEF Resends, Send, XferTypes, Waiting, CallInv
    <3> QED BY <2>3, <3>1
  <2>5. CASE Asyncs
    BY <1>1, <2>1, <2>3, <2>5, Opcode DEF Asyncs, SendAsync, Send
  <2>6. ASSUME NEW s \in DOMAIN CommandOf, AsksOk(s) \/ AsksFails(s)
        PROVE  \A i \in 1..Len(sent') : sent'[i].call <= call'
    BY <1>1, <2>1, <2>3, <2>6, Opcode DEF AsksOk, AsksFails
  <2>7. CASE ~(Resends \/ Asyncs \/ \E s \in DOMAIN CommandOf : AsksOk(s) \/ AsksFails(s))
    BY <2>1, <2>2, <2>7
    DEF Kinds, Moves, xferVars, vars, Flushes, FlushQueue, Awaits, Await, Drops, Drop,
        Accepts, Accept, Ends, McuReplies, Reply, McuNotifies, Notify, McuLoses, Lose
  <2> QED BY <2>4, <2>5, <2>6, <2>7
<1> QED BY <1>4, <1>5 DEF Numbered

LEMMA OwnInvKept ==
  ASSUME XferTypes, XferTypes', BootTypes, CallInv, CallInv', OwnInv, Kinds
  PROVE  OwnInv'
BY PipeOwnKept, UnaskedKept, NumberedKept, AnswerInvKept DEF OwnInv

-----------------------------------------------------------------------------
\* LateInv.  What the steps of the queues leave as it is.
LEMMA SentLess ==
  ASSUME XferTypes, sent' = sent \/ (sent # <<>> /\ sent' = Tail(sent))
  PROVE  /\ \A S : NotSent(S) => NotSent(S)'
         /\ ResetsFirst => ResetsFirst'
<1>1. CASE sent' = sent
  BY <1>1 DEF NotSent, ResetsFirst
<1>2. CASE sent # <<>> /\ sent' = Tail(sent)
  <2>1. /\ Len(sent) \in Nat /\ Len(sent') = Len(sent) - 1
        /\ \A i \in 1..(Len(sent) - 1) : sent'[i] = sent[i + 1]
    BY <1>2, TailAt DEF XferTypes
  <2>2. \A i \in 1..Len(sent') : i + 1 \in 1..Len(sent) /\ sent'[i] = sent[i + 1]
    BY <2>1
  <2>3. ASSUME NEW S, NotSent(S)
        PROVE  NotSent(S)'
    BY <2>2, <2>3 DEF NotSent
  <2>4. ASSUME ResetsFirst
        PROVE  ResetsFirst'
    <3> SUFFICES ASSUME NEW i \in 1..Len(sent'), NEW j \in 1..Len(sent'), i < j
                 PROVE  ~(sent'[i].cmd = "upload" /\ sent'[j].cmd = "reset")
      BY DEF ResetsFirst
    <3>1. i + 1 < j + 1
      OBVIOUS
    <3> QED BY <2>2, <2>4, <3>1 DEF ResetsFirst
  <2> QED BY <2>3, <2>4
<1> QED BY <1>1, <1>2

LEMMA SentMore ==
  ASSUME XferTypes, NEW m \in Orders, sent' = Append(sent, m)
  PROVE  /\ \A S : NotSent(S) /\ m.cmd \notin S => NotSent(S)'
         /\ ResetsFirst /\ m.cmd # "reset" => ResetsFirst'
<1>1. /\ Len(sent) \in Nat /\ Len(sent') = Len(sent) + 1
      /\ \A i \in 1..Len(sent) : sent'[i] = sent[i]
      /\ sent'[Len(sent) + 1] = m
  BY AppendAt DEF XferTypes
<1>2. \A i \in 1..Len(sent') :
        i = Len(sent) + 1 \/ (i \in 1..Len(sent) /\ sent'[i] = sent[i])
  BY <1>1
<1>3. ASSUME NEW S, NotSent(S), m.cmd \notin S
      PROVE  NotSent(S)'
  BY <1>1, <1>2, <1>3 DEF NotSent
<1>4. ASSUME ResetsFirst, m.cmd # "reset"
      PROVE  ResetsFirst'
  <2> SUFFICES ASSUME NEW i \in 1..Len(sent'), NEW j \in 1..Len(sent'), i < j,
                      sent'[i].cmd = "upload", sent'[j].cmd = "reset"
               PROVE  FALSE
    BY DEF ResetsFirst
  <2>1. j \in 1..Len(sent) /\ sent'[j] = sent[j]
    BY <1>1, <1>2, <1>4
  <2>2. i \in 1..Len(sent) /\ sent'[i] = sent[i]
    BY <1>1, <2>1
  <2> QED BY <1>4, <2>1, <2>2 DEF ResetsFirst
<1> QED BY <1>3, <1>4

LEMMA QueueLess ==
  ASSUME XferTypes,
         queue' \in {queue, <<>>} \/ (queue # <<>> /\ queue' = Tail(queue))
  PROVE  (NoTcode => NoTcode') /\ (NoUpload => NoUpload')
<1>1. CASE queue' \in {queue, <<>>}
  BY <1>1 DEF NoTcode, NoUpload
<1>2. CASE queue # <<>> /\ queue' = Tail(queue)
  <2>1. /\ Len(queue) \in Nat /\ Len(queue') = Len(queue) - 1
        /\ \A i \in 1..(Len(queue) - 1) : queue'[i] = queue[i + 1]
    BY <1>2, TailAt DEF XferTypes
  <2>2. \A i \in 1..Len(queue') : i + 1 \in 1..Len(queue) /\ queue'[i] = queue[i + 1]
    BY <2>1
  <2> QED BY <2>2 DEF NoTcode, NoUpload
<1> QED BY <1>1, <1>2

LEMMA QueueMore ==
  ASSUME XferTypes, NEW m \in Frames, queue' = Append(queue, m)
  PROVE  /\ NoTcode /\ m.val # "tcode" => NoTcode'
         /\ NoUpload /\ m.op # ReplyOf["upload"] => NoUpload'
<1>1. /\ Len(queue) \in Nat /\ Len(queue') = Len(queue) + 1
      /\ \A i \in 1..Len(queue) : queue'[i] = queue[i]
      /\ queue'[Len(queue) + 1] = m
  BY AppendAt DEF XferTypes
<1>2. \A i \in 1..Len(queue') :
        i = Len(queue) + 1 \/ (i \in 1..Len(queue) /\ queue'[i] = queue[i])
  BY <1>1
<1> QED BY <1>1, <1>2 DEF NoTcode, NoUpload

\* Only a reset takes the configuration from the sensor.
LEMMA RightStays ==
  ASSUME sensor \in Registers, NEW c, c # "reset", sensor' \in Effect(c)
  PROVE  /\ Right => Right'
         /\ "tcode" \in ValuesRead(c) => c = "readTcode" /\ Right'
BY DEF Registers, Effect, Right, ValuesRead

\* A reply with the opcode of the upload answers an upload.
LEMMA UploadOnly ==
  /\ \A c \in Commands : ReplyOf[c] = ReplyOf["upload"] => c = "upload"
  /\ ReplyOf["upload"] \notin Unsolicited
BY OpcodesAssumption DEF Config, Acked

LEMMA AllLateKept ==
  ASSUME AllLate, step' = step, suspects \subseteq suspects',
         Answered' => Answered
  PROVE  AllLate'
<1>1. Before' = Before
  BY DEF Before
<1>2. Taken' \subseteq Taken
  BY <1>1 DEF Taken
<1> QED BY <1>2 DEF AllLate

\* A frame is read: another one, or the reply.
LEMMA LateRead ==
  ASSUME XferTypes, BootTypes, CallInv, OwnInv, OwnInv', LateInv, Drops \/ Accepts
  PROVE  LateInv'
<1> USE Tables
<1>1. /\ Waiting /\ queue # <<>> /\ queue' = Tail(queue) /\ sent' = sent
      /\ UNCHANGED <<step, chip, sensor>>
  BY DEF Drops, Drop, Accepts, Accept, Stays, bootVars
<1>2. ~Answered /\ ~TcodeTaken
  BY <1>1 DEF Answered, TcodeTaken
<1>3. queue[1] = Head(queue) /\ 1 \in 1..Len(queue)
  BY <1>1, TailAt DEF XferTypes
<1>4. ASSUME NothingLate
      PROVE  NothingLate'
  <2>1. (\A S : NotSent(S) => NotSent(S)') /\ (ResetsFirst => ResetsFirst')
    BY <1>1, SentLess
  <2>2. (NoTcode => NoTcode') /\ (NoUpload => NoUpload') /\ (Right => Right')
    BY <1>1, QueueLess DEF Right
  <2>3. ASSUME Answered'
        PROVE  /\ step = "upload" => ~NoUpload
               /\ answer'.val = "tcode" => ~NoTcode
    <3>1. Accepts
      BY <1>1, <2>3 DEF Drops, Drop, Answered, Waiting
    <3>2. /\ answer' = queue[1] /\ queue[1].op = Expected
      BY <1>3, <3>1 DEF Accepts, Accept, Matches
    <3>3. step = "upload" => cmd = "upload"
      BY <1>1 DEF CallInv
    <3> QED BY <1>3, <3>2, <3>3 DEF NoUpload, NoTcode, Expected
  <2>4. (step \in Configuring => NoneEarly)'
    BY <1>1, <1>4, <2>1, <2>2 DEF NothingLate, NoneEarly
  <2>5. (step = "upload" => Uploading)'
    BY <1>1, <1>4, <2>1, <2>2, <2>3 DEF NothingLate, Uploading
  <2>6. (step \in Verifying => NotSent({"reset"}) /\ (~NoTcode \/ TcodeTaken => Right))'
    BY <1>1, <1>4, <2>1, <2>2, <2>3 DEF NothingLate, TcodeTaken
  <2>7. (step \in Done => NotSent({"reset"}) /\ Right)'
    BY <1>1, <1>4, <2>1, <2>2 DEF NothingLate
  <2> QED BY <2>4, <2>5, <2>6, <2>7 DEF NothingLate
<1>6. ASSUME AllLate
      PROVE  AllLate' \/ NothingLate'
  <2>1. CASE Drops
    <3>1. ~Answered' /\ suspects' = suspects
      BY <1>1, <2>1 DEF Drops, Drop, Answered, Waiting
    <3> QED BY <1>1, <1>6, <3>1, AllLateKept
  <2>2. CASE Accepts /\ Expected \in suspects
    <3>1. suspects' = suspects
      BY <2>2, Taking DEF OwnInv
    <3>2. Taken' \subseteq Taken \union {cmd}
      <4>1. Before' = Before
        BY <1>1 DEF Before
      <4>2. step \in DOMAIN CommandOf => cmd = CommandOf[step]
        BY <1>1 DEF CallInv
      <4> QED BY <1>1, <4>1, <4>2 DEF Taken, Answered
    <3> QED BY <1>6, <2>2, <3>1, <3>2 DEF AllLate, Expected
  <2>3. CASE Accepts /\ Expected \notin suspects
    <3>1. Drained' /\ answer'.val \in ValuesRead(cmd)
      BY <2>3, Taking DEF OwnInv
    <3>2. (\A S : NotSent(S)') /\ NoTcode' /\ NoUpload' /\ ResetsFirst'
      BY <3>1, UploadOnly
      DEF Drained, OwnInv, Unasked, NotSent, NoTcode, NoUpload, ResetsFirst
    <3>3. TcodeTaken' => Right'
      BY <1>1, <3>1 DEF TcodeTaken, ValuesRead, BootTypes, Registers, Right
    <3>4. step' \notin Done
      BY <1>1 DEF CallInv, Done
    <3> QED BY <3>2, <3>3, <3>4 DEF NothingLate, NoneEarly, Uploading
  <2> QED BY <2>1, <2>2, <2>3
<1> QED BY <1>1, <1>4, <1>6 DEF LateInv

\* A try is given up.
LEMMA LateGivenUp ==
  ASSUME XferTypes, CallInv, LateInv, Resends \/ Ends
  PROVE  LateInv'
<1> USE Tables
<1>1. /\ Waiting /\ UNCHANGED <<step, chip, sensor>> /\ queue' \in {queue, <<>>}
      /\ suspects \subseteq suspects'
  BY DEF Resends, Ends, Stays, bootVars, Suspect
<1>2. ~Answered'
  BY DEF Resends, Ends, Answered, Waiting, EndCall
<1>3. (NoTcode => NoTcode') /\ (NoUpload => NoUpload') /\ (Right => Right')
  BY <1>1, QueueLess DEF Right
<1>4. AllLate => AllLate'
  BY <1>1, <1>2, AllLateKept
<1>5. CASE Ends
  <2>1. (\A S : NotSent(S) => NotSent(S)') /\ (ResetsFirst => ResetsFirst')
    BY <1>5, SentLess DEF Ends
  <2>2. NothingLate => NothingLate'
    BY <1>1, <1>2, <1>3, <2>1 DEF NothingLate, NoneEarly, Uploading, TcodeTaken
  <2> QED BY <1>1, <1>4, <2>2 DEF LateInv
<1>6. CASE Resends
  <2>1. PICK m : m = [cmd |-> cmd, call |-> call]
    OBVIOUS
  <2>2. m \in Orders /\ m.cmd = cmd /\ sent' = Append(sent, m)
    BY <1>1, <1>6, <2>1 DEF Resends, Send, XferTypes, CallInv, Orders, Waiting
  <2>3. /\ \A S : NotSent(S) /\ cmd \notin S => NotSent(S)'
        /\ ResetsFirst /\ cmd # "reset" => ResetsFirst'
    BY <2>2, SentMore
  <2>4. /\ step \in Configuring => cmd \notin {"upload", "readTcode"}
        /\ step = "upload" => cmd = "upload"
        /\ step \in Verifying => cmd \in Verifying
        /\ step \notin Done
    BY <1>1 DEF CallInv, Configuring, Verifying, Done
  <2>5. NothingLate => NothingLate'
    BY <1>1, <1>2, <1>3, <2>3, <2>4
    DEF NothingLate, NoneEarly, Uploading, TcodeTaken, Verifying
  <2> QED BY <1>1, <1>4, <2>5 DEF LateInv
<1> QED BY <1>5, <1>6

\* The MCU deals with a command, loses one or sends something by itself.
LEMMA LateMcu ==
  ASSUME XferTypes, BootTypes, LateInv, McuReplies \/ McuNotifies \/ McuLoses
  PROVE  LateInv'
<1>1. UNCHANGED <<step, chip, result, cmd, suspects, answer>>
  BY DEF McuReplies, Reply, McuNotifies, Notify, McuLoses, Lose, bootVars
<1>2. (Answered' <=> Answered) /\ (TcodeTaken' <=> TcodeTaken)
  BY <1>1 DEF Answered, TcodeTaken, Waiting
<1>3. AllLate => AllLate'
  BY <1>1, <1>2, AllLateKept
<1>4. CASE McuNotifies
  <2>1. PICK op \in Unsolicited :
          queue' = Append(queue, [op |-> op, call |-> 0, val |-> "none"])
    BY <1>4 DEF McuNotifies, Notify
  <2>2. PICK m : m = [op |-> op, call |-> 0, val |-> "none"]
    OBVIOUS
  <2>3. m \in Frames /\ m.val # "tcode" /\ m.op # ReplyOf["upload"]
    BY <2>2, Opcode, UploadOnly DEF Frames, Vals
  <2>4. (NoTcode => NoTcode') /\ (NoUpload => NoUpload')
    BY <2>1, <2>2, <2>3, QueueMore
  <2>5. sent' = sent /\ (Right <=> Right')
    BY <1>4 DEF McuNotifies, Notify, Right
  <2>6. (\A S : NotSent(S) => NotSent(S)') /\ (ResetsFirst => ResetsFirst')
    BY <2>5, SentLess
  <2>7. NothingLate => NothingLate'
    BY <1>1, <1>2, <2>4, <2>5, <2>6 DEF NothingLate, NoneEarly, Uploading
  <2> QED BY <1>1, <1>3, <2>7 DEF LateInv
<1>5. CASE McuReplies \/ McuLoses
  <2>1. PICK c : c = Head(sent).cmd
    OBVIOUS
  <2>2. sent # <<>> /\ sent' = Tail(sent) /\ sensor' \in Effect(c)
    BY <1>5, <2>1 DEF McuReplies, Reply, McuLoses, Lose
  <2>0. /\ Len(sent) \in Nat /\ Len(sent) > 0
        /\ Head(sent) \in Orders /\ Head(sent) = sent[1]
    BY <2>2, TailAt DEF XferTypes
  <2>3. 1 \in 1..Len(sent) /\ sent[1].cmd = c /\ c \in Commands
    BY <2>0, <2>1 DEF Orders
  <2>4. (\A S : NotSent(S) => NotSent(S)') /\ (ResetsFirst => ResetsFirst')
    BY <2>2, SentLess
  <2>5. \A S : NotSent(S) => c \notin S
    BY <2>3 DEF NotSent
  <2>6. NotSent({"reset"}) /\ Right => Right'
    BY <2>2, <2>5, RightStays DEF BootTypes
  <2>7. /\ NoTcode /\ NotSent({"readTcode"}) => NoTcode'
        /\ NotSent({"reset"}) => NoTcode' \/ ~NoTcode \/ Right'
        /\ NoUpload => NoUpload' \/ c = "upload"
    <3>1. CASE McuLoses
      BY <3>1, QueueLess DEF McuLoses, Lose
    <3>2. CASE McuReplies
      <4>1. PICK v \in ValuesRead(c) : Reply(v)
        BY <2>1, <3>2 DEF McuReplies
      <4>2. PICK m : m = [op |-> ReplyOf[Head(sent).cmd], call |-> Head(sent).call,
                          val |-> v]
        OBVIOUS
      <4>3. m \in Frames /\ m.op = ReplyOf[c] /\ m.val = v
        BY <2>0, <2>1, <4>1, <4>2, FrameRead, Opcode
        DEF BootTypes, Orders, Frames
      <4>4. /\ NoTcode /\ v # "tcode" => NoTcode'
            /\ NoUpload /\ ReplyOf[c] # ReplyOf["upload"] => NoUpload'
        BY <4>1, <4>2, <4>3, QueueMore DEF Reply
      <4>5. v = "tcode" => c = "readTcode" /\ Right'
        <5>1. c = "reset" => v = "none"
          BY <4>1 DEF ValuesRead
        <5> QED BY <2>2, <4>1, <5>1, RightStays DEF BootTypes
      <4>6. ReplyOf[c] = ReplyOf["upload"] => c = "upload"
        BY <2>3, UploadOnly
      <4> QED BY <2>5, <4>4, <4>5, <4>6
    <3> QED BY <1>5, <3>1, <3>2
  <2>8. c = "upload" /\ ResetsFirst => NotSent({"reset"})'
    <3> SUFFICES ASSUME c = "upload", ResetsFirst, NEW i \in 1..Len(sent')
                 PROVE  sent'[i].cmd # "reset"
      BY DEF NotSent
    <3>1. /\ Len(sent) \in Nat /\ Len(sent') = Len(sent) - 1
          /\ \A k \in 1..(Len(sent) - 1) : sent'[k] = sent[k + 1]
      BY <2>2, TailAt DEF XferTypes
    <3>2. i + 1 \in 1..Len(sent) /\ sent'[i] = sent[i + 1] /\ 1 < i + 1
      BY <3>1
    <3> QED BY <2>3, <3>2 DEF ResetsFirst
  <2>9. ASSUME NothingLate
        PROVE  NothingLate'
    <3>1. (step \in Configuring => NoneEarly)'
      BY <1>1, <2>4, <2>5, <2>7, <2>9 DEF NothingLate, NoneEarly, NotSent
    <3>2. (step = "upload" => Uploading)'
      BY <1>1, <1>2, <2>4, <2>7, <2>8, <2>9 DEF NothingLate, Uploading
    <3>3. (step \in Verifying => NotSent({"reset"}) /\ (~NoTcode \/ TcodeTaken => Right))'
      BY <1>1, <1>2, <2>4, <2>6, <2>7, <2>9 DEF NothingLate
    <3>4. (step \in Done => NotSent({"reset"}) /\ Right)'
      BY <1>1, <2>4, <2>6, <2>9 DEF NothingLate
    <3> QED BY <3>1, <3>2, <3>3, <3>4 DEF NothingLate
  <2> QED BY <1>1, <1>3, <2>9 DEF LateInv
<1> QED BY <1>4, <1>5

\* Where a step of the open leads.
Asks(s) == AsksOk(s) \/ AsksFails(s)

EndsOpen  == step' \in {"failed", "unverified", "closed"} /\ UNCHANGED <<xferVars, sensor>>
AsksChip  == step = "opening" /\ step' = "chip" /\ Asks("chip")
Skips     == step' = "tls" /\ chip' # "milang"
Configures ==
  /\ <<step, step'>> \in {<<"chip", "otp">>, <<"otp", "reset1">>,
                          <<"reset1", "setDac">>, <<"setDac", "reset2">>}
  /\ Answered /\ Asks(step')
AfterReset ==
  step = "reset2" /\ step' = "image" /\ Answered /\ UNCHANGED <<xferVars, sensor, chip>>
Uploads == step = "imageWait" /\ step' = "upload" /\ Asks("upload")
Verify1 == step = "upload" /\ step' = "setIdle" /\ Answered /\ Asks("setIdle")
Verify2 == step \in Verifying /\ step' \in Verifying /\ Asks(step')
Verified ==
  step = "readTcode" /\ step' = "tls" /\ TcodeTaken /\ UNCHANGED <<xferVars, sensor, chip>>

Routes ==
  \/ EndsOpen \/ AsksChip \/ Skips \/ Configures \/ AfterReset \/ Uploads
  \/ Verify1 \/ Verify2 \/ Verified \/ Flushes \/ Asyncs \/ Awaits

LEMMA Routed ==
  ASSUME Driver, BootTypes, CallInv
  PROVE  Routes
<1> USE Tables
<1>1. CASE Open \/ FlushForTls
  BY <1>1 DEF Open, FlushForTls, Routes, Flushes
<1>2. CASE ReadChip
  <2>1. ~Waiting /\ Enter("chip") /\ UNCHANGED sensor
    BY <1>2 DEF ReadChip, CallInv
  <2> QED BY <1>2, <2>1, Entered DEF ReadChip, Enter, Routes, AsksChip, Asks
<1>3. CASE HaveChip
  <2>1. CASE chip' = "milang"
    <3>1. ~Waiting /\ Enter("otp") /\ UNCHANGED sensor /\ step = "chip" /\ result = "ok"
      BY <1>3, <2>1 DEF HaveChip, Returned
    <3>2. Asks("otp") /\ step' = "otp" /\ Answered
      BY <3>1, Entered DEF Asks, Enter, Answered
    <3> QED BY <3>1, <3>2 DEF Routes, Configures
  <2>2. CASE chip' # "milang"
    BY <1>3, <2>2 DEF HaveChip, Enter, Routes, Skips
  <2> QED BY <2>1, <2>2
<1>4. CASE Configure
  <2>1. ~Waiting /\ UNCHANGED sensor /\ step \in DOMAIN NextStep /\ chip' = chip
    BY <1>4 DEF Configure
  <2>2. CASE result # "ok"
    <3>1. Enter("failed")
      BY <1>4, <2>2 DEF Configure
    <3> QED BY <2>1, <3>1 DEF Enter, Routes, EndsOpen
  <2>3. CASE result = "ok" /\ step = "reset2"
    <3>1. Enter("image") /\ Answered
      BY <1>4, <2>1, <2>3 DEF Configure, Answered
    <3> QED BY <2>1, <2>3, <3>1 DEF Enter, Routes, AfterReset
  <2>4. CASE result = "ok" /\ step # "reset2"
    <3>1. PICK s : s = NextStep[step]
      OBVIOUS
    <3>2. Enter(s) /\ Answered /\ s \in DOMAIN CommandOf
      BY <1>4, <2>1, <2>4, <3>1 DEF Configure, Answered
    <3>3. Asks(s) /\ step' = s
      BY <2>1, <3>2, Entered DEF Asks, Enter
    <3>4. <<step, s>> \in {<<"otp", "reset1">>, <<"reset1", "setDac">>,
                           <<"setDac", "reset2">>, <<"upload", "setIdle">>}
      BY <2>1, <2>4, <3>1
    <3> QED BY <3>2, <3>3, <3>4 DEF Routes, Configures, Verify1
  <2> QED BY <2>2, <2>3, <2>4
<1>5. CASE SendImageMode \/ InitTls
  BY <1>5 DEF SendImageMode, InitTls, Routes, Asyncs
<1>6. CASE AwaitImageMode
  BY <1>6 DEF AwaitImageMode, Routes, Awaits, EndsOpen
<1>7. CASE HaveImageMode
  <2>1. ~Waiting /\ UNCHANGED sensor /\ step = "imageWait"
    BY <1>7 DEF HaveImageMode, Returned
  <2>2. CASE result = "ok"
    <3>1. Enter("upload")
      BY <1>7, <2>2 DEF HaveImageMode
    <3> QED BY <2>1, <3>1, Entered DEF Enter, Routes, Uploads, Asks
  <2>3. CASE result # "ok"
    BY <1>7, <2>1, <2>3 DEF HaveImageMode, Enter, Routes, EndsOpen
  <2> QED BY <2>2, <2>3
<1>8. ASSUME AnotherAttempt, step \in Verifying, ~Waiting, UNCHANGED sensor
      PROVE  Routes
  <2>1. CASE attempt < Attempts
    <3>1. Enter("setIdle")
      BY <1>8, <2>1 DEF AnotherAttempt
    <3> QED BY <1>8, <3>1, Entered DEF Enter, Routes, Verify2, Asks, Verifying
  <2>2. CASE ~(attempt < Attempts)
    BY <1>8, <2>2 DEF AnotherAttempt, Routes, EndsOpen
  <2> QED BY <2>1, <2>2
<1>9. CASE IdleSet
  <2>1. step \in Verifying /\ ~Waiting /\ Enter("readDac") /\ UNCHANGED sensor
    BY <1>9 DEF IdleSet, Returned, Verifying
  <2> QED BY <2>1, Entered DEF Enter, Routes, Verify2, Asks, Verifying
<1>10. CASE HaveDac
  <2>1. /\ step \in Verifying /\ ~Waiting /\ UNCHANGED sensor
        /\ Enter("readTcode") \/ AnotherAttempt
    BY <1>10 DEF HaveDac, Returned, Verifying
  <2> QED BY <1>8, <2>1, Entered DEF Enter, Routes, Verify2, Asks, Verifying
<1>11. CASE HaveTcode
  <2>1. step = "readTcode" /\ ~Waiting /\ UNCHANGED <<sensor, chip>>
    BY <1>11 DEF HaveTcode, Returned
  <2>2. CASE result = "ok" /\ SameConfig(answer.val)
    BY <1>11, <2>1, <2>2
    DEF HaveTcode, SameConfig, Routes, Verified, TcodeTaken, Answered
  <2>3. CASE ~(result = "ok" /\ SameConfig(answer.val))
    BY <1>8, <1>11, <2>1, <2>3 DEF HaveTcode, Verifying
  <2> QED BY <2>2, <2>3
<1>12. CASE Close
  BY <1>12 DEF Close, Routes, EndsOpen
<1> QED
  BY <1>1, <1>2, <1>3, <1>4, <1>5, <1>6, <1>7, <1>9, <1>10, <1>11, <1>12 DEF Driver

LEMMA AllLateNext ==
  ASSUME AllLate, Before' \subseteq Taken, ~Answered', suspects \subseteq suspects'
  PROVE  AllLate'
BY DEF AllLate, Taken

LEMMA LateRouted ==
  ASSUME XferTypes, BootTypes, CallInv, LateInv, Routes
  PROVE  LateInv'
<1> USE Tables
<1>1. CASE EndsOpen
  <2>1. Taken' = {}
    BY <1>1 DEF EndsOpen, Taken, Before, Answered, Verifying, Done
  <2> QED BY <2>1 DEF LateInv, AllLate
<1>2. CASE AsksChip
  <2>1. ~Answered' /\ Before' = {}
    BY <1>2
    DEF AsksChip, Asks, AsksOk, AsksFails, EndCall, Answered, Before, Verifying, Done
  <2> QED BY <2>1 DEF LateInv, AllLate, Taken
<1>3. CASE Skips
  BY <1>3 DEF Skips, LateInv, Done
<1>4. ASSUME NEW s \in DOMAIN CommandOf, Asks(s)
      PROVE  /\ step' = s /\ ~Answered' /\ suspects' = suspects
             /\ (NoTcode => NoTcode') /\ (NoUpload => NoUpload') /\ (Right => Right')
             /\ \A S : NotSent(S) /\ CommandOf[s] \notin S => NotSent(S)'
             /\ ResetsFirst /\ CommandOf[s] # "reset" => ResetsFirst'
  <2>1. /\ step' = s /\ ~Answered' /\ suspects' = suspects /\ queue' = queue
        /\ sensor' = sensor
    BY <1>4 DEF Asks, AsksOk, AsksFails, EndCall, Answered
  <2>2. (NoTcode => NoTcode') /\ (NoUpload => NoUpload') /\ (Right => Right')
    BY <2>1, QueueLess DEF Right
  <2>3. CASE AsksFails(s)
    BY <2>1, <2>2, <2>3, SentLess DEF AsksFails
  <2>4. CASE AsksOk(s)
    <3>1. PICK m : m = [cmd |-> CommandOf[s], call |-> call']
      OBVIOUS
    <3>2. m \in Orders /\ m.cmd = CommandOf[s] /\ sent' = Append(sent, m)
      BY <2>4, <3>1, Opcode DEF AsksOk, Orders, XferTypes
    <3> QED BY <2>1, <2>2, <3>2, SentMore
  <2> QED BY <1>4, <2>3, <2>4 DEF Asks
<1>5. CASE Configures
  <2>1. PICK s \in DOMAIN CommandOf : s = step'
    BY <1>5 DEF Configures
  <2>2. Asks(s) /\ Answered
    BY <1>5, <2>1 DEF Configures
  <2>3. /\ step \in Configuring /\ s \in Configuring
        /\ CommandOf[s] \notin {"upload", "readTcode"}
    BY <1>5, <2>1 DEF Configures, Configuring
  <2>4. AllLate => AllLate'
    <3>1. Before' \subseteq Taken
      BY <1>5, <2>2 DEF Configures, Taken, Before, Verifying, Done, Config
    <3> QED BY <1>4, <2>2, <3>1, AllLateNext
  <2>5. NothingLate => NothingLate'
    BY <1>4, <2>1, <2>2, <2>3
    DEF NothingLate, NoneEarly, Configuring, Verifying, Done
  <2>6. step \notin Done
    BY <2>3 DEF Configuring, Done
  <2> QED BY <2>4, <2>5, <2>6 DEF LateInv
<1>6. CASE AfterReset
  <2>1. ~Answered' /\ Before' \subseteq Taken /\ suspects' = suspects
    BY <1>6
    DEF AfterReset, xferVars, Answered, Taken, Before, Verifying, Done, Config
  <2>2. NoneEarly => NoneEarly'
    BY <1>6 DEF AfterReset, xferVars, NoneEarly, NotSent, NoTcode, NoUpload
  <2>3. NothingLate => NothingLate'
    BY <1>6, <2>2 DEF AfterReset, NothingLate, Configuring, Verifying, Done
  <2>4. step \notin Done
    BY <1>6 DEF AfterReset, Done
  <2> QED BY <2>1, <2>3, <2>4, AllLateNext DEF LateInv
<1>7. CASE Uploads
  <2>1. step = "imageWait" /\ step' = "upload" /\ Asks("upload")
    BY <1>7 DEF Uploads
  <2>2. Before' \subseteq Taken
    BY <2>1 DEF Taken, Before, Verifying, Done, Config
  <2>3. AllLate => AllLate'
    BY <1>4, <2>1, <2>2, AllLateNext
  <2>4. NoneEarly => ResetsFirst
    BY DEF NoneEarly, ResetsFirst, NotSent
  <2>5. NoneEarly => NotSent({"readTcode"})
    BY DEF NoneEarly, NotSent
  <2>6. NothingLate => NothingLate'
    BY <1>4, <2>1, <2>4, <2>5
    DEF NothingLate, NoneEarly, Uploading, Configuring, Verifying, Done
  <2> QED BY <2>1, <2>3, <2>6 DEF LateInv, Done
<1>8. CASE Verify1
  <2>1. step = "upload" /\ step' = "setIdle" /\ Asks("setIdle") /\ Answered
    BY <1>8 DEF Verify1
  <2>2. Before' \subseteq Taken
    BY <2>1 DEF Taken, Before, Verifying, Done, Config
  <2>3. AllLate => AllLate'
    BY <1>4, <2>1, <2>2, AllLateNext
  <2>4. NothingLate => NothingLate'
    BY <1>4, <2>1
    DEF NothingLate, Uploading, Configuring, Verifying, Done, TcodeTaken
  <2> QED BY <2>1, <2>3, <2>4 DEF LateInv, Done
<1>9. CASE Verify2
  <2>1. PICK s \in DOMAIN CommandOf : s = step'
    BY <1>9 DEF Verify2, Verifying
  <2>2. step \in Verifying /\ s \in Verifying /\ Asks(s) /\ CommandOf[s] # "reset"
    BY <1>9, <2>1 DEF Verify2, Verifying
  <2>3. Before' \subseteq Taken
    BY <2>1, <2>2 DEF Taken, Before, Verifying, Done, Config
  <2>4. AllLate => AllLate'
    BY <1>4, <2>1, <2>2, <2>3, AllLateNext
  <2>5. NothingLate => NothingLate'
    BY <1>4, <2>1, <2>2
    DEF NothingLate, Configuring, Verifying, Done, TcodeTaken
  <2> QED BY <2>2, <2>4, <2>5 DEF LateInv, Verifying, Done
<1>10. CASE Verified
  <2>1. /\ step = "readTcode" /\ step' = "tls" /\ TcodeTaken
        /\ UNCHANGED <<sent, sensor, suspects>>
    BY <1>10 DEF Verified, xferVars
  <2>2. ~Answered' /\ Before' \subseteq Taken
    BY <2>1 DEF Answered, Taken, Before, Verifying, Done, Config
  <2>3. NothingLate => NothingLate'
    BY <2>1 DEF NothingLate, Configuring, Verifying, Done, NotSent, Right
  <2>4. step \notin Done
    BY <2>1 DEF Done
  <2> QED BY <2>1, <2>2, <2>3, <2>4, AllLateNext DEF LateInv
<1>11. CASE Flushes
  <2>1. UNCHANGED <<chip, sent, sensor, suspects>>
    BY <1>11 DEF Flushes, FlushQueue
  <2>2. CASE step = "closed" /\ step' = "opening"
    BY <2>2 DEF LateInv, AllLate, Taken, Answered, Before, Verifying, Done
  <2>3. CASE step = "tls" /\ step' = "tlsInit"
    <3>1. ~Answered' /\ Before' \subseteq Taken
      BY <2>3 DEF Answered, Taken, Before, Verifying, Done, Config
    <3>2. NothingLate => NothingLate'
      BY <2>1, <2>3 DEF NothingLate, Configuring, Verifying, Done, NotSent, Right
    <3> QED BY <2>1, <2>3, <3>1, <3>2, AllLateNext DEF LateInv, Done
  <2> QED BY <1>11, <2>2, <2>3 DEF Flushes
<1>12. CASE Awaits
  <2>1. /\ step = "imageSent" /\ step' = "imageWait"
        /\ UNCHANGED <<sent, queue, suspects>>
    BY <1>12 DEF Awaits, Await
  <2>2. ~Answered' /\ Before' \subseteq Taken
    BY <2>1 DEF Answered, Taken, Before, Verifying, Done
  <2>3. NothingLate => NothingLate'
    BY <2>1 DEF NothingLate, NoneEarly, Configuring, Verifying, Done, NotSent, NoTcode,
                NoUpload
  <2> QED BY <2>1, <2>2, <2>3, AllLateNext DEF LateInv, Done
<1>13. CASE Asyncs
  <2>1. PICK c \in {"image", "tlsInit"} : SendAsync(c)
    BY <1>13 DEF Asyncs
  <2>2. /\ queue' = queue /\ sensor' = sensor /\ chip' = chip
        /\ suspects \subseteq suspects'
    BY <1>13, <2>1 DEF Asyncs, SendAsync, Suspect
  <2>3. /\ (NoTcode => NoTcode') /\ (NoUpload => NoUpload')
    BY <2>2, QueueLess
  <2>4. \A S : NotSent(S) /\ c \notin S => NotSent(S)'
    <3>1. CASE sent' = sent
      BY <3>1, SentLess
    <3>2. CASE Send(c, call')
      <4>1. PICK m : m = [cmd |-> c, call |-> call']
        OBVIOUS
      <4>2. m \in Orders /\ m.cmd = c /\ sent' = Append(sent, m)
        BY <2>1, <3>2, <4>1, Opcode DEF SendAsync, Send, Orders, XferTypes
      <4> QED BY <4>2, SentMore
    <3> QED BY <2>1, <3>1, <3>2 DEF SendAsync
  <2>5. CASE step = "image" /\ step' = "imageSent"
    <3>1. ~Answered' /\ Before' \subseteq Taken
      BY <2>5 DEF Answered, Taken, Before, Verifying, Done
    <3>2. NothingLate => NothingLate'
      BY <2>3, <2>4, <2>5 DEF NothingLate, NoneEarly, Configuring, Verifying, Done
    <3> QED BY <2>2, <2>5, <3>1, <3>2, AllLateNext DEF LateInv, Done
  <2>6. CASE step = "tlsInit" /\ step' = "opened"
    <3>1. ~Answered' /\ Before' \subseteq Taken
      BY <2>6 DEF Answered, Taken, Before, Verifying, Done
    <3>2. NothingLate => NothingLate'
      BY <2>2, <2>4, <2>6 DEF NothingLate, Configuring, Verifying, Done, Right
    <3> QED BY <2>2, <2>6, <3>1, <3>2, AllLateNext DEF LateInv, Done
  <2>7. CASE step' = "failed"
    BY <2>7 DEF LateInv, AllLate, Taken, Answered, Before, Verifying, Done
  <2> QED BY <1>13, <2>5, <2>6, <2>7 DEF Asyncs
<1> QED
  BY <1>1, <1>2, <1>3, <1>5, <1>6, <1>7, <1>8, <1>9, <1>10, <1>11, <1>12, <1>13
  DEF Routes

LEMMA LateInvKept ==
  ASSUME XferTypes, BootTypes, CallInv, OwnInv, OwnInv', LateInv, [Next]_vars
  PROVE  LateInv'
<1>1. CASE UNCHANGED vars
  BY <1>1
  DEF vars, xferVars, bootVars, LateInv, AllLate, Taken, Before, Answered, Waiting,
      NothingLate, NoneEarly, Uploading, NotSent, NoTcode, NoUpload, ResetsFirst,
      TcodeTaken, Right
<1>2. CASE Driver
  BY <1>2, Routed, LateRouted
<1>3. CASE McuReplies \/ McuNotifies \/ McuLoses
  BY <1>3, LateMcu
<1>4. CASE Call
  BY <1>4, Called, LateRead, LateGivenUp
<1> QED BY <1>1, <1>2, <1>3, <1>4 DEF Next

-----------------------------------------------------------------------------
\* CountInv.
LEMMA CountKept ==
  ASSUME NEW S, IsFiniteSet(S), NEW n \in Nat, Cardinality(S) <= n,
         NEW T, NEW x, T \subseteq S \union {x}
  PROVE  /\ IsFiniteSet(T) /\ Cardinality(T) <= n + 1
         /\ T \subseteq S => Cardinality(T) <= n
<1>1. Cardinality(S) \in Nat
  BY FS_CardinalityType
<1>2. /\ IsFiniteSet(S \union {x})
      /\ Cardinality(S \union {x}) \in {Cardinality(S), Cardinality(S) + 1}
  BY FS_AddElement
<1>3. IsFiniteSet(S \union {x}) /\ Cardinality(S \union {x}) <= n + 1
  BY <1>1, <1>2
<1>4. IsFiniteSet(T) /\ Cardinality(T) <= Cardinality(S \union {x})
  BY <1>3, FS_Subset
<1>5. T \subseteq S => Cardinality(T) <= Cardinality(S)
  BY FS_Subset
<1>6. Cardinality(T) \in Nat /\ Cardinality(S) \in Nat
      /\ Cardinality(S \union {x}) \in Nat
  BY <1>3, <1>4, FS_CardinalityType
<1> QED BY <1>3, <1>4, <1>5, <1>6

LEMMA FaultsGrow ==
  ASSUME XferTypes, Kinds
  PROVE  faults' = faults \/ faults' = faults + 1
<1>1. CASE Asyncs
  BY <1>1 DEF Asyncs, SendAsync, Fault
<1>2. ASSUME NEW s \in DOMAIN CommandOf, AsksOk(s) \/ AsksFails(s)
      PROVE  faults' = faults \/ faults' = faults + 1
  BY <1>2 DEF AsksOk, AsksFails, Fault
<1>3. CASE Accepts
  BY <1>3 DEF Accepts, Accept, Fault
<1> QED
  BY <1>1, <1>2, <1>3
  DEF Kinds, Moves, xferVars, vars, Flushes, FlushQueue, Awaits, Await, Drops, Drop,
      Resends, Ends, Fault, McuReplies, Reply, McuNotifies, Notify, McuLoses, Lose

LEMMA CountInvKept ==
  ASSUME XferTypes, CountInv, Kinds
  PROVE  CountInv'
<1> DEFINE S == suspects \ Unsolicited
<1>1. faults \in Nat /\ (faults' = faults \/ faults' = faults + 1)
  BY FaultsGrow, Bounds DEF XferTypes
<1>2. CASE suspects' \ Unsolicited \subseteq S
  <2>1. PICK T : T = suspects' \ Unsolicited
    OBVIOUS
  <2>2. IsFiniteSet(T) /\ Cardinality(T) <= faults
    BY <1>1, <1>2, <2>1, CountKept DEF CountInv
  <2>3. Cardinality(T) \in Nat
    BY <2>2, FS_CardinalityType
  <2> QED BY <1>1, <2>1, <2>2, <2>3 DEF CountInv
<1>3. CASE Resends \/ Ends
  <2>1. PICK T : T = suspects' \ Unsolicited
    OBVIOUS
  <2>2. T \subseteq S \union {Expected} /\ faults' = faults + 1
    BY <1>3, <2>1 DEF Resends, Ends, Suspect, Fault
  <2>3. IsFiniteSet(T) /\ Cardinality(T) <= faults + 1
    BY <1>1, <2>2, CountKept DEF CountInv
  <2> QED BY <2>1, <2>2, <2>3 DEF CountInv
<1>4. CASE Asyncs
  <2>1. PICK c \in {"image", "tlsInit"} : SendAsync(c)
    BY <1>4 DEF Asyncs
  <2>2. ReplyOf[c] \in Unsolicited
    BY OpcodesAssumption DEF Acked
  <2> QED BY <1>2, <2>1, <2>2 DEF SendAsync, Suspect
<1>5. CASE Accepts
  BY <1>2, <1>5 DEF Accepts, Accept
<1>6. ASSUME NEW s \in DOMAIN CommandOf, AsksOk(s) \/ AsksFails(s)
      PROVE  CountInv'
  BY <1>2, <1>6 DEF AsksOk, AsksFails
<1> QED
  BY <1>2, <1>3, <1>4, <1>5, <1>6
  DEF Kinds, Moves, xferVars, vars, Flushes, FlushQueue, Awaits, Await, Drops, Drop,
      McuReplies, Reply, McuNotifies, Notify, McuLoses, Lose

\* To make every reply of the configuration suspect takes five faults.
LEMMA FiveSuspects ==
  ASSUME XferTypes, CountInv, \A c \in Config : ReplyOf[c] \in suspects
  PROVE  faults >= 5
<1> DEFINE a == ReplyOf["chip"]
           b == ReplyOf["otp"]
           c == ReplyOf["reset"]
           d == ReplyOf["setDac"]
           e == ReplyOf["upload"]
           S == suspects \ Unsolicited
<1>1. /\ a # b /\ a # c /\ a # d /\ a # e /\ b # c /\ b # d /\ b # e
      /\ c # d /\ c # e /\ d # e
  BY OpcodesAssumption DEF Config
<1>2. {a, b, c, d, e} \subseteq S
  BY OpcodesAssumption DEF Config
<1> HIDE DEF a, b, c, d, e
<1>3. IsFiniteSet({}) /\ Cardinality({}) = 0
  BY FS_EmptySet
<1>4. IsFiniteSet({a}) /\ Cardinality({a}) = 1
  BY FS_Singleton
<1>5. IsFiniteSet({a, b}) /\ Cardinality({a, b}) = 2
  <2>1. {a, b} = {a} \union {b} /\ b \notin {a}
    BY <1>1
  <2> QED BY <1>4, <2>1, FS_AddElement
<1>6. IsFiniteSet({a, b, c}) /\ Cardinality({a, b, c}) = 3
  <2>1. {a, b, c} = {a, b} \union {c} /\ c \notin {a, b}
    BY <1>1
  <2> QED BY <1>5, <2>1, FS_AddElement
<1>7. IsFiniteSet({a, b, c, d}) /\ Cardinality({a, b, c, d}) = 4
  <2>1. {a, b, c, d} = {a, b, c} \union {d} /\ d \notin {a, b, c}
    BY <1>1
  <2> QED BY <1>6, <2>1, FS_AddElement
<1>8. IsFiniteSet({a, b, c, d, e}) /\ Cardinality({a, b, c, d, e}) = 5
  <2>1. {a, b, c, d, e} = {a, b, c, d} \union {e} /\ e \notin {a, b, c, d}
    BY <1>1
  <2> QED BY <1>7, <2>1, FS_AddElement
<1>9. IsFiniteSet(S) /\ Cardinality(S) <= faults /\ faults \in Nat
  BY Bounds DEF CountInv, XferTypes
<1>10. 5 <= Cardinality(S) /\ Cardinality(S) \in Nat
  BY <1>2, <1>8, <1>9, FS_Subset, FS_CardinalityType
<1> QED BY <1>9, <1>10

-----------------------------------------------------------------------------
\* TolerateInv.  What the steps do to the pipe.
Sizes ==
  Len(queue) \in Nat /\ Len(sent) \in Nat /\ Total \in Nat

LEMMA PipeSizes ==
  ASSUME XferTypes
  PROVE  Sizes
BY DEF XferTypes, Sizes, Total

PipeTail ==
  /\ Total > 0 /\ Total' = Total - 1
  /\ \A i \in 1..Total : i < Total => OpAt(i)' = OpAt(i + 1)
PipeMore(op) ==
  /\ Total' = Total + 1
  /\ \A i \in 1..Total : OpAt(i)' = OpAt(i)
  /\ \A i \in Nat : i = Total + 1 => OpAt(i)' = op

LEMMA PipeRead ==
  ASSUME XferTypes, queue # <<>>, queue' = Tail(queue), sent' = sent
  PROVE  PipeTail /\ OpAt(1) = Head(queue).op
<1>1. /\ Len(queue) \in Nat /\ Len(queue) > 0 /\ Head(queue) = queue[1]
      /\ Len(queue') = Len(queue) - 1 /\ Len(sent) \in Nat
      /\ \A i \in 1..(Len(queue) - 1) : queue'[i] = queue[i + 1]
  BY TailAt DEF XferTypes
<1>2. Total' = Total - 1 /\ Total > 0 /\ Total \in Nat
  BY <1>1 DEF Total
<1>3. ASSUME NEW i \in 1..Total, i < Total
      PROVE  OpAt(i)' = OpAt(i + 1)
  <2>1. CASE i < Len(queue)
    BY <1>1, <2>1 DEF OpAt
  <2>2. CASE ~(i < Len(queue))
    <3>1. (i - Len(queue'))  = (i + 1) - Len(queue)
      BY <1>1
    <3>2. ~(i <= Len(queue')) /\ ~(i + 1 <= Len(queue))
      BY <1>1, <2>2
    <3> QED BY <3>1, <3>2 DEF OpAt
  <2> QED BY <2>1, <2>2
<1> QED BY <1>1, <1>2, <1>3 DEF PipeTail, OpAt

LEMMA PipeSent ==
  ASSUME XferTypes, NEW m \in Orders, sent' = Append(sent, m), queue' = queue
  PROVE  PipeMore(ReplyOf[m.cmd])
<1>1. /\ Len(queue) \in Nat /\ Len(sent) \in Nat /\ Len(sent') = Len(sent) + 1
      /\ \A i \in 1..Len(sent) : sent'[i] = sent[i]
      /\ sent'[Len(sent) + 1] = m
  BY AppendAt DEF XferTypes
<1>2. Total' = Total + 1 /\ Total = Len(queue) + Len(sent)
  BY <1>1 DEF Total
<1>3. ASSUME NEW i \in 1..Total
      PROVE  OpAt(i)' = OpAt(i)
  <2>1. CASE i <= Len(queue)
    BY <2>1 DEF OpAt
  <2>2. CASE ~(i <= Len(queue))
    <3>1. i - Len(queue) \in 1..Len(sent)
      BY <1>1, <1>2, <2>2
    <3> QED BY <1>1, <2>2, <3>1 DEF OpAt
  <2> QED BY <2>1, <2>2
<1>4. ASSUME NEW i \in Nat, i = Total + 1
      PROVE  OpAt(i)' = ReplyOf[m.cmd]
  <2>1. ~(i <= Len(queue)) /\ i - Len(queue) = Len(sent) + 1
    BY <1>1, <1>2, <1>4
  <2> QED BY <1>1, <2>1 DEF OpAt
<1> QED BY <1>2, <1>3, <1>4 DEF PipeMore

LEMMA PipeReplied ==
  ASSUME XferTypes, BootTypes, McuReplies
  PROVE  Total' = Total /\ \A i \in 1..Total : OpAt(i)' = OpAt(i)
<1>1. PICK v \in ValuesRead(Head(sent).cmd) : Reply(v)
  BY DEF McuReplies
<1>2. PICK m : m = [op |-> ReplyOf[Head(sent).cmd], call |-> Head(sent).call, val |-> v]
  OBVIOUS
<1>3. sent # <<>> /\ sent' = Tail(sent) /\ queue' = Append(queue, m)
  BY <1>1, <1>2 DEF Reply
<1>4. /\ Len(sent) \in Nat /\ Len(sent) > 0 /\ Head(sent) = sent[1] /\ Head(sent) \in Orders
      /\ Len(sent') = Len(sent) - 1
      /\ \A i \in 1..(Len(sent) - 1) : sent'[i] = sent[i + 1]
  BY <1>3, TailAt DEF XferTypes
<1>5. m \in Frames /\ m.op = ReplyOf[sent[1].cmd]
  BY <1>2, <1>4, FrameRead, Opcode DEF BootTypes, Orders, Frames
<1>6. /\ Len(queue) \in Nat /\ Len(queue') = Len(queue) + 1
      /\ \A i \in 1..Len(queue) : queue'[i] = queue[i]
      /\ queue'[Len(queue) + 1] = m
  BY <1>3, <1>5, AppendAt DEF XferTypes
<1>7. ASSUME NEW i \in 1..Total
      PROVE  OpAt(i)' = OpAt(i)
  <2>1. CASE i <= Len(queue)
    BY <1>6, <2>1 DEF OpAt
  <2>2. CASE i = Len(queue) + 1
    <3>1. i <= Len(queue') /\ ~(i <= Len(queue)) /\ i - Len(queue) = 1
      BY <1>6, <2>2
    <3> QED BY <1>5, <1>6, <2>2, <3>1 DEF OpAt
  <2>3. CASE i > Len(queue) + 1
    <3>1. /\ ~(i <= Len(queue')) /\ ~(i <= Len(queue))
          /\ i - Len(queue) = (i - Len(queue')) + 1
          /\ i - Len(queue') \in 1..(Len(sent) - 1)
      BY <1>4, <1>6, <2>3 DEF Total
    <3> QED BY <1>4, <3>1 DEF OpAt
  <2> QED BY <1>6, <2>1, <2>2, <2>3
<1> QED BY <1>4, <1>6, <1>7 DEF Total

\* A loss, or an opcode that is not Ack sent, brings no reply to setIdle.
LEMMA PipeLost ==
  ASSUME XferTypes,
         \/ queue' \in {queue, <<>>} /\ sent' = sent
         \/ queue' = queue /\ sent # <<>> /\ sent' = Tail(sent)
  PROVE  Total' <= Total /\ (NoAck => NoAck')
<1>1. Len(queue) \in Nat /\ Len(sent) \in Nat
  BY PipeSizes DEF Sizes
<1>2. ASSUME NoAck
      PROVE  /\ \A i \in 1..Len(queue) : queue[i].op # Ack
             /\ \A i \in 1..Len(sent) : ReplyOf[sent[i].cmd] # Ack
  <2>1. ASSUME NEW i \in 1..Len(queue)
        PROVE  queue[i].op # Ack
    <3>1. i \in 1..Total /\ i <= Len(queue)
      BY <1>1 DEF Total
    <3> QED BY <1>2, <3>1 DEF NoAck, OpAt
  <2>2. ASSUME NEW i \in 1..Len(sent)
        PROVE  ReplyOf[sent[i].cmd] # Ack
    <3>1. PICK k \in 1..Total : k = i + Len(queue)
      BY <1>1 DEF Total
    <3>2. ~(k <= Len(queue)) /\ k - Len(queue) = i
      BY <1>1, <3>1
    <3> QED BY <1>2, <3>2 DEF NoAck, OpAt
  <2> QED BY <2>1, <2>2
<1>3. ASSUME \A i \in 1..Len(queue') : queue'[i].op # Ack,
             \A i \in 1..Len(sent') : ReplyOf[sent'[i].cmd] # Ack,
             Len(queue') \in Nat, Len(sent') \in Nat
      PROVE  NoAck'
  <2> SUFFICES ASSUME NEW i \in 1..Total'
               PROVE  OpAt(i)' # Ack
    BY DEF NoAck, Ack
  <2>1. CASE i <= Len(queue')
    BY <1>3, <2>1 DEF OpAt
  <2>2. CASE ~(i <= Len(queue'))
    <3>1. i - Len(queue') \in 1..Len(sent')
      BY <1>3, <2>2 DEF Total
    <3> QED BY <1>3, <2>2, <3>1 DEF OpAt
  <2> QED BY <2>1, <2>2
<1>4. CASE queue' \in {queue, <<>>} /\ sent' = sent
  <2>1. Len(queue') \in Nat /\ Len(queue') <= Len(queue)
    BY <1>1, <1>4
  <2> QED BY <1>1, <1>2, <1>3, <1>4, <2>1 DEF Total
<1>5. CASE queue' = queue /\ sent # <<>> /\ sent' = Tail(sent)
  <2>1. /\ Len(sent') = Len(sent) - 1 /\ Len(sent) > 0
        /\ \A i \in 1..(Len(sent) - 1) : sent'[i] = sent[i + 1]
    BY <1>5, TailAt DEF XferTypes
  <2>2. \A i \in 1..Len(sent') : i + 1 \in 1..Len(sent) /\ sent'[i] = sent[i + 1]
    BY <1>1, <2>1
  <2>3. Len(queue') = Len(queue)
    BY <1>5
  <2>4. Len(sent') \in Nat /\ Len(sent') < Len(sent)
    BY <1>1, <2>1
  <2>5. Len(queue') = Len(queue) /\ Len(sent') \in Nat /\ Len(sent') < Len(sent)
    BY <2>3, <2>4
  <2>6. ASSUME NoAck
        PROVE  NoAck'
    <3>1. \A i \in 1..Len(sent') : ReplyOf[sent'[i].cmd] # Ack
      BY <1>2, <2>2, <2>6
    <3>2. \A i \in 1..Len(queue') : queue'[i].op # Ack
      BY <1>2, <1>5, <2>6
    <3> QED BY <1>1, <1>3, <2>5, <3>1, <3>2
  <2> QED BY <1>1, <2>5, <2>6 DEF Total
<1> QED BY <1>4, <1>5

LEMMA BootNumbers ==
  ASSUME XferTypes, BootTypes
  PROVE  /\ faults \in Nat /\ attempt \in Nat /\ faultsBefore \in Nat
         /\ Slack \in Int /\ Slack = faults - faultsBefore - attempt
BY Bounds DEF XferTypes, BootTypes, Attempts, Slack

LEMMA OpcodesApart == Ack # Reg /\ Ack \in Unsolicited /\ Reg \notin Unsolicited
BY OpcodesAssumption DEF Ack, Reg, Config, Acked

LEMMA VerifyOpcodes ==
  ASSUME CallInv, step \in Verifying, Waiting
  PROVE  /\ cmd \in Verifying /\ cmd = step
         /\ Expected = IF step = "setIdle" THEN Ack ELSE Reg
<1> USE Tables
<1>1. cmd = step
  BY DEF CallInv, Verifying
<1> QED BY <1>1, OpcodesAssumption DEF Verifying, Expected, Ack, Reg

\* A frame that is read, and what is left.
LEMMA QuietRead ==
  ASSUME XferTypes, BootTypes, BootTypes', XferTypes', CallInv, QuietInv,
         Drops \/ Accepts, Quiet'
  PROVE  QuietInv'
<1>1. /\ Waiting /\ queue # <<>> /\ queue' = Tail(queue) /\ sent' = sent
      /\ UNCHANGED <<step, attempt, faultsBefore, dacRead, sensor, call, notified>>
      /\ faults' = faults \/ (faults' = faults + 1 /\ Accepts)
  BY DEF Drops, Drop, Accepts, Accept, Fault, Stays, bootVars
<1>2. /\ faults \in Nat /\ attempt \in Nat /\ faultsBefore \in Nat /\ Slack \in Int
      /\ Slack = faults - faultsBefore - attempt
      /\ Slack' = Slack + (faults' - faults)
  BY <1>1, BootNumbers DEF Slack
<1>3. Quiet /\ step \in Verifying
  BY <1>1, <1>2 DEF Quiet, Verifies
<1>4. /\ OwnCalls /\ attempt >= 1 /\ Slack >= -1
      /\ Slack = -1 => Undisturbed
      /\ Slack = 0 => Disturbed
  BY <1>3 DEF QuietInv
<1>5. PipeTail /\ OpAt(1) = Head(queue).op
  BY <1>1, PipeRead
<1>6. Total \in Nat /\ Total' \in Nat /\ Total' = Total - 1 /\ Total > 0
  BY <1>5, PipeSizes DEF Sizes, PipeTail
<1>7. \A i \in 1..Total' : i + 1 \in 1..Total /\ OpAt(i)' = OpAt(i + 1)
  BY <1>5, <1>6 DEF PipeTail
<1>8. \A i \in 1..Len(queue') : i + 1 \in 1..Len(queue) /\ queue'[i] = queue[i + 1]
  BY <1>1, TailAt DEF XferTypes
<1>9. NoAck => NoAck'
  BY <1>7 DEF NoAck, Ack
<1>10. /\ cmd = step
       /\ Expected = IF step = "setIdle" THEN Ack ELSE Reg
  BY <1>1, <1>3, VerifyOpcodes
<1>11. OnlyOwn => OnlyOwn'
  BY <1>1, <1>8 DEF OnlyOwn
<1>12. AckLast => AckLast'
  <2> SUFFICES ASSUME AckLast, NEW i \in 1..Total', i < Total'
               PROVE  OpAt(i)' # Ack
    BY DEF AckLast, Ack
  <2>1. i + 1 \in 1..Total /\ i + 1 < Total
    BY <1>6
  <2> QED BY <1>7, <2>1 DEF AckLast
<1>13. Right' /\ NotSent(Commands \ Verifying)'
  BY <1>1, <1>4 DEF OwnCalls, Right, NotSent
<1>14. ASSUME NEW k \in Nat, LastAreReg(k)
       PROVE  LastAreReg(k)'
  <2> SUFFICES ASSUME NEW i \in 1..Total', i > Total' - k
               PROVE  OpAt(i)' = Reg
    BY DEF LastAreReg, Reg
  <2>1. i + 1 \in 1..Total /\ i + 1 > Total - k
    BY <1>6
  <2> QED BY <1>7, <1>14, <2>1 DEF LastAreReg
<1>15. CASE Drops
  <2>1. /\ UNCHANGED <<cmd, result, answer, faults>> /\ Head(queue).op # Expected
        /\ (Waiting' <=> Waiting) /\ Slack' = Slack
    BY <1>2, <1>15 DEF Drops, Drop, Matches, Waiting
  <2>2. OwnFrames' /\ OwnOrders'
    BY <1>1, <1>4, <1>8, <2>1 DEF OwnCalls, OwnFrames, OwnOrders, Expected, ValuesRead
  <2>3. FewOnTheWay'
    BY <1>1, <1>2, <1>4, <1>6, <2>1 DEF OwnCalls, FewOnTheWay
  <2>4. Slack = -1 => Undisturbed'
    <3> SUFFICES ASSUME Slack = -1 PROVE Undisturbed'
      OBVIOUS
    <3>1. Undisturbed
      BY <1>4
    <3>2. step = "setIdle"
      <4> SUFFICES ASSUME step # "setIdle" PROVE FALSE
        OBVIOUS
      <4>1. queue[1].call = call /\ 1 \in 1..Len(queue) /\ Head(queue) = queue[1]
        BY <1>1, <3>1, TailAt DEF Undisturbed, OnlyOwn, XferTypes
      <4> QED BY <1>1, <1>4, <2>1, <4>1 DEF OwnCalls, OwnFrames
    <3> QED BY <1>1, <1>12, <2>1, <3>1, <3>2 DEF Undisturbed
  <2>5. Slack = 0 => Disturbed'
    <3> SUFFICES ASSUME Slack = 0, ~NoAck' PROVE Disturbed'
      BY DEF Disturbed
    <3>1. Disturbed /\ ~NoAck
      BY <1>4, <1>9
    <3>2. \A k \in Nat : LastAreReg(k) => LastAreReg(k)'
      BY <1>14
    <3> QED BY <1>1, <2>1, <3>1, <3>2 DEF Disturbed
  <2>6. OwnCalls'
    BY <1>13, <2>2, <2>3 DEF OwnCalls
  <2>7. attempt' >= 1 /\ Slack' >= -1
    BY <1>1, <1>2, <1>4, <2>1
  <2> QED BY <2>1, <2>4, <2>5, <2>6, <2>7 DEF QuietInv
<1>16. CASE Accepts
  <2>1. /\ ~Waiting' /\ Head(queue).op = Expected /\ answer' = Head(queue)
        /\ cmd' = "none"
        /\ \/ result' = "ok" /\ faults' = faults
           \/ result' = "error" /\ faults' = faults + 1
    BY <1>1, <1>16 DEF Accepts, Accept, Matches, EndCall, Fault, Waiting
  <2>2. FewOnTheWay'
    BY <1>1, <1>2, <1>4, <1>6, <2>1 DEF OwnCalls, FewOnTheWay
  <2>3. Head(queue) = queue[1] /\ 1 \in 1..Len(queue)
    BY <1>1, TailAt DEF XferTypes
  <2>4. ASSUME Slack = -1
        PROVE  /\ Total = 1
               /\ step = "readDac" => answer'.val = "dac"
               /\ step = "readTcode" => answer'.val = "tcode" /\ dacRead = "dac"
    <3>1. Undisturbed
      BY <1>4, <2>4
    <3>2. CASE step = "setIdle"
      <4>1. AckLast /\ OpAt(1) = Ack
        BY <1>5, <1>10, <2>1, <3>1, <3>2 DEF Undisturbed
      <4> QED BY <1>6, <3>2, <4>1 DEF AckLast
    <3>3. CASE step # "setIdle"
      <4>1. Total = 1 /\ OnlyOwn /\ (step = "readTcode" => dacRead = "dac")
        BY <1>1, <1>6, <3>1, <3>3 DEF Undisturbed
      <4>2. queue[1].val \in ValuesRead(cmd)
        BY <1>1, <1>4, <2>3, <4>1 DEF OwnCalls, OwnFrames, OnlyOwn
      <4> QED BY <1>4, <1>10, <2>1, <2>3, <3>3, <4>1, <4>2
              DEF OwnCalls, Right, ValuesRead
    <3> QED BY <3>2, <3>3
  <2>5. Slack' = -1 => Undisturbed'
    <3> SUFFICES ASSUME Slack' = -1 PROVE Undisturbed'
      OBVIOUS
    <3>1. Slack = -1 /\ result' = "ok"
      BY <1>2, <1>4, <2>1
    <3>2. Undisturbed /\ Total' = 0
      BY <1>4, <1>6, <2>4, <3>1
    <3>3. IF step = "setIdle" THEN AckLast' ELSE OnlyOwn'
      BY <1>11, <1>12, <3>2 DEF Undisturbed
    <3> QED BY <1>1, <2>1, <2>4, <3>1, <3>2, <3>3 DEF Undisturbed
  <2>6. Slack' = 0 => Disturbed'
    <3> SUFFICES ASSUME Slack' = 0, ~NoAck', step \in {"readDac", "readTcode"}
                 PROVE  Disturbed'
      BY <1>1 DEF Disturbed
    <3>1. OpAt(1) = Reg
      BY <1>5, <1>10, <2>1
    <3>2. PICK k \in 1..Total' : OpAt(k + 1) = Ack
      BY <1>7 DEF NoAck, Ack
    <3>3. Slack # -1
      <4>1. Total' = 0 \/ Slack # -1
        BY <1>6, <2>4
      <4> QED BY <1>6, <3>2, <4>1
    <3>4. Slack = 0 /\ faults' = faults /\ result' = "ok"
      BY <1>2, <1>4, <2>1, <3>3
    <3>5. Disturbed /\ ~NoAck
      BY <1>4, <1>9, <3>4
    <3>6. CASE step = "readDac"
      <4>1. LastAreReg(1)'
        BY <1>14, <3>5, <3>6 DEF Disturbed
      <4> QED BY <1>1, <3>4, <3>6, <4>1 DEF Disturbed
    <3>7. CASE step = "readTcode"
      <4>1. LastAreReg(2)
        BY <3>5, <3>7 DEF Disturbed
      <4>2. ~(k + 1 > Total - 2)
        BY <1>7, <3>2, <4>1, OpcodesApart DEF LastAreReg
      <4>3. Total >= 4
        BY <1>6, <4>2
      <4>4. Total <= faults - faultsBefore + 1
        BY <1>1, <1>4 DEF OwnCalls, FewOnTheWay
      <4>5. faults <= faultsBefore + 2
        BY <1>3 DEF Quiet
      <4> QED BY <1>2, <1>6, <4>3, <4>4, <4>5
    <3> QED BY <3>6, <3>7
  <2>7. OwnCalls'
    BY <1>13, <2>1, <2>2 DEF OwnCalls
  <2>8. attempt' >= 1 /\ Slack' >= -1
    BY <1>1, <1>2, <1>4, <2>1
  <2> QED BY <2>5, <2>6, <2>7, <2>8 DEF QuietInv
<1> QED BY <1>15, <1>16

\* All that is on its way is of a call to read a register.
LEMMA OwnNoAck ==
  ASSUME XferTypes, CallInv, step \in Verifying \ {"setIdle"}, Waiting,
         OnlyOwn, OwnFrames, OwnOrders
  PROVE  NoAck
<1>1. cmd = step /\ Expected = Reg
  BY VerifyOpcodes
<1>2. Len(queue) \in Nat /\ Len(sent) \in Nat
  BY PipeSizes DEF Sizes
<1>3. ASSUME NEW i \in 1..Total
      PROVE  OpAt(i) = Reg
  <2>1. CASE i <= Len(queue)
    <3>1. i \in 1..Len(queue)
      BY <2>1
    <3> QED BY <1>1, <2>1, <3>1 DEF OnlyOwn, OwnFrames, OpAt
  <2>2. CASE ~(i <= Len(queue))
    <3>1. i - Len(queue) \in 1..Len(sent)
      BY <1>2, <2>2 DEF Total
    <3>2. sent[i - Len(queue)].cmd = cmd
      BY <3>1 DEF OnlyOwn, OwnOrders
    <3> QED BY <1>1, <2>2, <3>2 DEF OpAt, Expected
  <2> QED BY <2>1, <2>2
<1> QED BY <1>3, OpcodesApart DEF NoAck

\* A command of the verification changes no register.
LEMMA VerifyReads ==
  ASSUME NEW c \in Verifying
  PROVE  Effect(c) = {sensor}
BY DEF Effect, Verifying

LEMMA OldestOrder ==
  ASSUME XferTypes, sent # <<>>, NotSent(Commands \ Verifying)
  PROVE  Head(sent) = sent[1] /\ 1 \in 1..Len(sent) /\ Head(sent).cmd \in Verifying
<1>1. Head(sent) = sent[1] /\ 1 \in 1..Len(sent) /\ Head(sent) \in Orders
  BY TailAt DEF XferTypes
<1> QED BY <1>1 DEF Orders, NotSent

\* One fault more, and the attempt is disturbed.
LEMMA QuietFault ==
  ASSUME XferTypes, BootTypes, BootTypes', XferTypes', CallInv, QuietInv,
         Resends \/ Ends \/ McuLoses, Quiet'
  PROVE  QuietInv'
<1>1. /\ UNCHANGED <<step, attempt, faultsBefore, dacRead, call, notified, answer>>
      /\ faults' = faults + 1
  BY DEF Resends, Ends, Fault, Stays, bootVars, McuLoses, Lose
<1>2. /\ faults \in Nat /\ attempt \in Nat /\ faultsBefore \in Nat /\ Slack \in Int
      /\ Slack = faults - faultsBefore - attempt
      /\ Slack' = Slack + 1
  BY <1>1, BootNumbers DEF Slack
<1>3. Quiet /\ step \in Verifying
  BY <1>1, <1>2 DEF Quiet, Verifies
<1>4. /\ OwnCalls /\ attempt >= 1 /\ Slack >= -1
      /\ Slack = -1 => Undisturbed
      /\ Slack = 0 => Disturbed
  BY <1>3 DEF QuietInv
<1>5. Sizes /\ Sizes'
  BY PipeSizes DEF XferTypes, Sizes, Total
<1>6. Slack' \in Int /\ Slack' >= 0 /\ attempt' >= 1
  BY <1>1, <1>2, <1>4
<1>7. ASSUME OwnCalls', Slack = -1 /\ step # "setIdle" => NoAck'
      PROVE  QuietInv'
  <2>1. Slack' = 0 => Disturbed'
    <3> SUFFICES ASSUME Slack' = 0 PROVE Disturbed'
      OBVIOUS
    <3>1. Slack = -1
      BY <1>2
    <3>2. step' = "setIdle" \/ NoAck'
      BY <1>1, <1>7, <3>1
    <3> QED BY <3>2, Zenon DEF Disturbed
  <2> QED BY <1>6, <1>7, <2>1 DEF QuietInv
<1>8. ASSUME Slack = -1, step # "setIdle", Waiting
      PROVE  NoAck
  BY <1>3, <1>4, <1>8, OwnNoAck DEF OwnCalls, Undisturbed
<1>9. CASE Resends
  <2>1. /\ Waiting /\ Waiting' /\ sent' = Append(sent, [cmd |-> cmd, call |-> call])
        /\ UNCHANGED <<cmd, queue, sensor>>
    BY <1>9 DEF Resends, Send, Stays, Waiting
  <2>2. PICK m : m = [cmd |-> cmd, call |-> call]
    OBVIOUS
  <2>3. cmd = step /\ cmd \in Verifying /\ Expected = IF step = "setIdle" THEN Ack ELSE Reg
    BY <1>3, <2>1, VerifyOpcodes
  <2>4. m \in Orders /\ sent' = Append(sent, m) /\ m.cmd = cmd /\ m.call = call
    <3>1. call \in Nat \ {0} /\ cmd \in Commands
      BY <2>1, <2>3, Opcode DEF XferTypes, CallInv
    <3> QED BY <2>1, <2>2, <3>1 DEF Orders
  <2>5. PipeMore(Expected)
    BY <2>1, <2>4, PipeSent DEF Expected
  <2>6. /\ Len(sent') = Len(sent) + 1 /\ sent'[Len(sent) + 1] = m
        /\ \A i \in 1..Len(sent) : sent'[i] = sent[i]
    BY <2>4, AppendAt DEF XferTypes
  <2>7. ASSUME NEW i \in 1..Len(sent')
        PROVE  i \in 1..Len(sent) \/ sent'[i] = m
    BY <1>5, <2>6 DEF Sizes
  <2>8. Right' /\ NotSent(Commands \ Verifying)'
    BY <1>4, <2>1, <2>3, <2>4, <2>6, <2>7 DEF OwnCalls, Right, NotSent
  <2>9. OwnFrames' /\ OwnOrders'
    BY <1>1, <1>4, <2>1, <2>4, <2>6, <2>7
    DEF OwnCalls, OwnFrames, OwnOrders, Expected, ValuesRead
  <2>10. FewOnTheWay'
    BY <1>1, <1>2, <1>4, <1>5, <2>1, <2>5 DEF OwnCalls, FewOnTheWay, PipeMore, Sizes
  <2>11. OwnCalls'
    BY <2>8, <2>9, <2>10 DEF OwnCalls
  <2>12. ASSUME Slack = -1, step # "setIdle"
         PROVE  NoAck'
    <3>1. NoAck /\ Expected # Ack
      BY <1>8, <2>1, <2>3, <2>12, OpcodesApart
    <3> SUFFICES ASSUME NEW i \in 1..Total'
                 PROVE  OpAt(i)' # Ack
      BY DEF NoAck, Ack
    <3>2. i \in 1..Total \/ i = Total + 1
      BY <1>5, <2>5 DEF PipeMore, Sizes
    <3> QED BY <2>5, <3>1, <3>2 DEF PipeMore, NoAck
  <2> QED BY <1>7, <2>11, <2>12
<1>10. CASE Ends \/ McuLoses
  <2>1. Total' <= Total /\ (NoAck => NoAck')
    BY <1>10, PipeLost DEF Ends, McuLoses, Lose
  <2>2. /\ UNCHANGED sensor
        /\ Waiting' => Waiting /\ McuLoses
        /\ Ends => Waiting /\ ~Waiting'
    BY <1>4, <1>10, OldestOrder, VerifyReads
    DEF Ends, EndCall, McuLoses, Lose, Stays, Waiting, OwnCalls
  <2>3. \A i \in 1..Len(sent') : \E j \in 1..Len(sent) : sent'[i] = sent[j]
    <3>1. CASE Ends
      BY <3>1 DEF Ends
    <3>2. CASE McuLoses
      <4>1. /\ Len(sent') = Len(sent) - 1
            /\ \A i \in 1..(Len(sent) - 1) : sent'[i] = sent[i + 1]
        BY <3>2, TailAt DEF McuLoses, Lose, XferTypes
      <4>2. \A i \in 1..Len(sent') : i + 1 \in 1..Len(sent) /\ sent'[i] = sent[i + 1]
        BY <1>5, <4>1 DEF Sizes
      <4> QED BY <4>2
    <3> QED BY <1>10, <3>1, <3>2
  <2>4. Right' /\ NotSent(Commands \ Verifying)'
    BY <1>4, <2>2, <2>3 DEF OwnCalls, Right, NotSent
  <2>5. Waiting' => OwnFrames' /\ OwnOrders'
    <3> SUFFICES ASSUME Waiting' PROVE OwnFrames' /\ OwnOrders'
      OBVIOUS
    <3>1. UNCHANGED <<cmd, queue>> /\ OwnFrames /\ OwnOrders
      BY <1>4, <2>2 DEF McuLoses, Lose, OwnCalls
    <3> QED BY <1>1, <2>2, <2>3, <3>1 DEF OwnFrames, OwnOrders, Expected, ValuesRead
  <2>6. FewOnTheWay'
    <3>1. Total <= faults - faultsBefore + (IF Waiting THEN 1 ELSE 0)
      BY <1>4 DEF OwnCalls, FewOnTheWay
    <3>2. Total' <= faults' - faultsBefore' + (IF Waiting' THEN 1 ELSE 0)
      BY <1>1, <1>2, <1>5, <1>10, <2>1, <2>2, <3>1 DEF Sizes
    <3> QED BY <3>2 DEF FewOnTheWay
  <2>7. OwnCalls'
    BY <2>4, <2>5, <2>6 DEF OwnCalls
  <2>8. ASSUME Slack = -1, step # "setIdle"
        PROVE  NoAck'
    <3>1. CASE Waiting
      BY <1>8, <2>1, <2>8, <3>1
    <3>2. CASE ~Waiting
      <4>1. Total = 0 /\ sent # <<>>
        BY <1>4, <1>10, <2>2, <2>8, <3>2 DEF Undisturbed, McuLoses
      <4> QED BY <1>5, <4>1, TailAt DEF Total, Sizes, XferTypes
    <3> QED BY <3>1, <3>2
  <2> QED BY <1>7, <2>7, <2>8
<1> QED BY <1>9, <1>10

\* A reply comes, to the oldest command.
LEMMA QuietReply ==
  ASSUME XferTypes, BootTypes, BootTypes', XferTypes', CallInv, QuietInv,
         McuReplies, Quiet'
  PROVE  QuietInv'
<1>1. UNCHANGED <<step, attempt, faultsBefore, dacRead, call, cmd, notified, answer,
                  result, faults>>
  BY DEF McuReplies, Reply, bootVars
<1>2. Quiet /\ step \in Verifying /\ Slack' = Slack /\ (Waiting' <=> Waiting)
  BY <1>1 DEF Quiet, Verifies, Slack, Waiting
<1>3. /\ OwnCalls /\ attempt >= 1 /\ Slack >= -1
      /\ Slack = -1 => Undisturbed
      /\ Slack = 0 => Disturbed
  BY <1>2 DEF QuietInv
<1>4. Sizes /\ Sizes' /\ Total' = Total /\ \A i \in 1..Total : OpAt(i)' = OpAt(i)
  BY PipeSizes, PipeReplied DEF XferTypes, Sizes, Total
<1>5. sent # <<>> /\ Head(sent) = sent[1] /\ 1 \in 1..Len(sent) /\ Head(sent).cmd \in Verifying
  BY <1>3, OldestOrder DEF OwnCalls, McuReplies
<1>6. sensor' = sensor
  BY <1>5, VerifyReads DEF McuReplies
<1>7. PICK v \in ValuesRead(sent[1].cmd) : Reply(v)
  BY <1>5 DEF McuReplies
<1>8. PICK m : m = [op |-> ReplyOf[sent[1].cmd], call |-> sent[1].call, val |-> v]
  OBVIOUS
<1>9. queue' = Append(queue, m) /\ sent' = Tail(sent)
  BY <1>5, <1>7, <1>8 DEF Reply
<1>10. \A i \in 1..Len(sent') : i + 1 \in 1..Len(sent) /\ sent'[i] = sent[i + 1]
  <2>1. /\ Len(sent') = Len(sent) - 1
        /\ \A i \in 1..(Len(sent) - 1) : sent'[i] = sent[i + 1]
    BY <1>5, <1>9, TailAt DEF XferTypes
  <2> QED BY <1>4, <2>1 DEF Sizes
<1>11. \A i \in 1..Len(queue') : (i \in 1..Len(queue) /\ queue'[i] = queue[i]) \/ queue'[i] = m
  <2>1. m \in Frames
    <3>1. sent[1] \in Orders
      BY <1>5 DEF XferTypes
    <3> QED BY <1>5, <1>7, <1>8, <3>1, FrameRead, Opcode DEF BootTypes, Orders, Frames
  <2>2. /\ Len(queue') = Len(queue) + 1 /\ queue'[Len(queue) + 1] = m
        /\ \A i \in 1..Len(queue) : queue'[i] = queue[i]
    BY <1>9, <2>1, AppendAt DEF XferTypes
  <2> QED BY <1>4, <2>2 DEF Sizes
<1>12. Waiting => OwnFrames' /\ OwnOrders'
  <2> SUFFICES ASSUME Waiting PROVE OwnFrames' /\ OwnOrders'
    OBVIOUS
  <2>1. OwnFrames /\ OwnOrders
    BY <1>3 DEF OwnCalls
  <2>2. m.call = call => m.op = Expected /\ m.val \in ValuesRead(cmd)
    BY <1>5, <1>7, <1>8, <2>1 DEF OwnOrders, Expected
  <2>3. OwnFrames'
    BY <1>1, <1>6, <1>11, <2>1, <2>2 DEF OwnFrames, Expected, ValuesRead
  <2>4. OwnOrders'
    BY <1>1, <1>10, <2>1 DEF OwnOrders
  <2> QED BY <2>3, <2>4
<1>13. OwnCalls'
  <2>1. Right' /\ NotSent(Commands \ Verifying)'
    BY <1>3, <1>6, <1>10 DEF OwnCalls, Right, NotSent
  <2>2. FewOnTheWay'
    BY <1>1, <1>2, <1>3, <1>4 DEF OwnCalls, FewOnTheWay
  <2> QED BY <1>2, <1>12, <2>1, <2>2 DEF OwnCalls
<1>14. OnlyOwn => OnlyOwn'
  <2>1. OnlyOwn => m.call = call
    BY <1>5, <1>8 DEF OnlyOwn
  <2> QED BY <1>1, <1>10, <1>11, <2>1 DEF OnlyOwn
<1>15. AckLast => AckLast'
  BY <1>4 DEF AckLast, Ack
<1>16. NoAck => NoAck'
  BY <1>4 DEF NoAck, Ack
<1>17. ASSUME NEW k \in Nat, LastAreReg(k)
       PROVE  LastAreReg(k)'
  BY <1>4, <1>17 DEF LastAreReg, Reg
<1>18. Slack = -1 => Undisturbed'
  BY <1>1, <1>2, <1>3, <1>4, <1>14, <1>15 DEF Undisturbed
<1>19. Slack = 0 => Disturbed'
  BY <1>1, <1>2, <1>3, <1>16, <1>17 DEF Disturbed
<1> QED BY <1>1, <1>2, <1>3, <1>13, <1>18, <1>19 DEF QuietInv

\* How the steps of the open lead into and through the verification.
Starts ==
  /\ step = "upload" /\ step' = "setIdle" /\ result = "ok" /\ Asks("setIdle")
  /\ attempt' = 1 /\ dacRead' = dacRead
  /\ faultsBefore' = IF Right /\ suspects \subseteq Unsolicited THEN faults ELSE faultsBefore
Continues(s) ==
  /\ \/ step = "setIdle" /\ s = "readDac" /\ dacRead' = dacRead
     \/ step = "readDac" /\ s = "readTcode" /\ result = "ok" /\ dacRead' = answer.val
  /\ step' = s /\ Asks(s) /\ UNCHANGED <<attempt, faultsBefore>>
Fails ==
  /\ ~Waiting
  /\ \/ step = "readDac" /\ result # "ok"
     \/ step = "readTcode" /\ ~(result = "ok" /\ dacRead = "dac" /\ answer.val = "tcode")
Retries ==
  /\ Fails /\ attempt < Attempts /\ attempt' = attempt + 1
  /\ step' = "setIdle" /\ Asks("setIdle") /\ UNCHANGED <<dacRead, faultsBefore>>
GivesUp ==
  /\ Fails /\ ~(attempt < Attempts)
  /\ step' = "unverified" /\ UNCHANGED <<xferVars, faultsBefore, sensor>>
Calls ==
  Drops \/ Accepts \/ Resends \/ Ends \/ McuReplies \/ McuNotifies \/ McuLoses
  \/ UNCHANGED vars

VerifyRoutes ==
  \/ Starts \/ Continues("readDac") \/ Continues("readTcode") \/ Retries \/ GivesUp
  \/ Calls

LEMMA VerifyRouted ==
  ASSUME [Next]_vars, XferTypes, BootTypes, CallInv,
         step' \in Verifying \union {"unverified"}
  PROVE  VerifyRoutes
<1> USE Tables
<1>1. CASE UNCHANGED vars \/ McuReplies \/ McuNotifies \/ McuLoses
  BY <1>1 DEF VerifyRoutes, Calls
<1>2. CASE Call
  BY <1>2, Called DEF VerifyRoutes, Calls
<1>3. step' \notin {"opening", "chip", "otp", "tls", "image", "imageSent", "imageWait",
                    "upload", "failed", "tlsInit", "opened", "closed"}
  BY DEF Verifying
<1>4. CASE Open \/ ReadChip \/ HaveChip \/ SendImageMode \/ AwaitImageMode
           \/ HaveImageMode \/ FlushForTls \/ InitTls \/ Close
  BY <1>3, <1>4
  DEF Open, ReadChip, HaveChip, SendImageMode, AwaitImageMode, HaveImageMode,
      FlushForTls, InitTls, Close, Enter
<1>5. CASE Configure
  <2>1. ~Waiting /\ UNCHANGED <<sensor, dacRead>> /\ step \in DOMAIN NextStep
    BY <1>5 DEF Configure
  <2>2. result = "ok" /\ Enter(NextStep[step]) /\ step' = NextStep[step]
    BY <1>3, <1>5 DEF Configure, Enter
  <2>3. step = "upload" /\ step' = "setIdle"
    BY <2>1, <2>2 DEF Verifying
  <2>4. Asks("setIdle")
    BY <2>1, <2>2, <2>3, Entered DEF Asks
  <2> QED BY <1>5, <2>1, <2>2, <2>3, <2>4 DEF Configure, VerifyRoutes, Starts
<1>6. CASE IdleSet
  <2>1. ~Waiting /\ Enter("readDac") /\ UNCHANGED sensor
    BY <1>6 DEF IdleSet, Returned
  <2>2. Asks("readDac") /\ step' = "readDac"
    BY <2>1, Entered DEF Asks, Enter
  <2> QED BY <1>6, <2>2 DEF IdleSet, Returned, VerifyRoutes, Continues
<1>7. ASSUME AnotherAttempt, Fails, UNCHANGED <<sensor, dacRead, faultsBefore>>
      PROVE  Retries \/ GivesUp
  <2>1. CASE attempt < Attempts
    <3>1. Enter("setIdle") /\ attempt' = attempt + 1
      BY <1>7, <2>1 DEF AnotherAttempt
    <3>2. Asks("setIdle") /\ step' = "setIdle"
      BY <1>7, <3>1, Entered DEF Asks, Enter, Fails
    <3> QED BY <1>7, <2>1, <3>1, <3>2 DEF Retries
  <2>2. CASE ~(attempt < Attempts)
    BY <1>7, <2>2 DEF AnotherAttempt, GivesUp
  <2> QED BY <2>1, <2>2
<1>8. CASE HaveDac
  <2>1. step = "readDac" /\ ~Waiting /\ UNCHANGED <<sensor, faultsBefore>>
    BY <1>8 DEF HaveDac, Returned
  <2>2. CASE result = "ok"
    <3>1. Enter("readTcode") /\ dacRead' = answer.val /\ attempt' = attempt
      BY <1>8, <2>2 DEF HaveDac
    <3>2. Asks("readTcode") /\ step' = "readTcode"
      BY <2>1, <3>1, Entered DEF Asks, Enter
    <3> QED BY <2>1, <2>2, <3>1, <3>2 DEF VerifyRoutes, Continues
  <2>3. CASE result # "ok"
    BY <1>7, <1>8, <2>1, <2>3 DEF HaveDac, Fails, VerifyRoutes
  <2> QED BY <2>2, <2>3
<1>9. CASE HaveTcode
  <2>1. step = "readTcode" /\ ~Waiting /\ UNCHANGED <<sensor, faultsBefore, dacRead>>
    BY <1>9 DEF HaveTcode, Returned
  <2>2. ~(result = "ok" /\ SameConfig(answer.val)) /\ AnotherAttempt
    BY <1>3, <1>9 DEF HaveTcode
  <2> QED BY <1>7, <2>1, <2>2 DEF Fails, SameConfig, VerifyRoutes
<1> QED
  BY <1>1, <1>2, <1>4, <1>5, <1>6, <1>8, <1>9 DEF Next, Driver

-----------------------------------------------------------------------------
\* A command more, after the ones before it.
Op(s) == ReplyOf[CommandOf[s]]

LEMMA AskedPipe ==
  ASSUME XferTypes, NEW s \in DOMAIN CommandOf, Asks(s)
  PROVE  /\ ~Waiting /\ UNCHANGED <<queue, notified, sensor, answer, suspects>> /\ step' = s
         /\ \/ /\ AsksOk(s) /\ PipeMore(Op(s)) /\ Waiting' /\ faults' = faults
            \/ /\ AsksFails(s) /\ sent' = sent /\ Total' = Total
               /\ \A i \in 1..Total : OpAt(i)' = OpAt(i)
               /\ ~Waiting' /\ faults' = faults + 1
<1>1. CASE AsksOk(s)
  <2>1. PICK m : m = [cmd |-> CommandOf[s], call |-> call']
    OBVIOUS
  <2>2. m \in Orders
    BY <1>1, <2>1, Opcode DEF AsksOk, Orders, XferTypes
  <2>3. PipeMore(Op(s))
    BY <1>1, <2>1, <2>2, PipeSent DEF AsksOk, Op
  <2> QED BY <1>1, <2>3, Opcode DEF AsksOk, Waiting
<1>2. CASE AsksFails(s)
  BY <1>2 DEF AsksFails, EndCall, Fault, Waiting, Total, OpAt
<1> QED BY <1>1, <1>2 DEF Asks

LEMMA AskedOwn ==
  ASSUME XferTypes, BootTypes, BootTypes', Numbered, OwnCalls, faultsBefore' = faultsBefore,
         NEW s \in Verifying, Asks(s)
  PROVE  OwnCalls'
<1>1. s \in DOMAIN CommandOf /\ CommandOf[s] = s /\ s \in Commands
  BY Tables, Opcode DEF Verifying
<1>2. /\ ~Waiting /\ UNCHANGED <<queue, sensor>>
      /\ \/ /\ AsksOk(s) /\ PipeMore(Op(s)) /\ Waiting' /\ faults' = faults
         \/ /\ AsksFails(s) /\ sent' = sent /\ Total' = Total
            /\ ~Waiting' /\ faults' = faults + 1
  BY <1>1, AskedPipe
<1>3. Sizes /\ call \in Nat
  BY PipeSizes DEF XferTypes
<1>4. FewOnTheWay'
  <2>1. /\ faults \in Nat /\ faultsBefore \in Nat
        /\ Total <= faults - faultsBefore
    BY <1>2, <1>3, BootNumbers DEF OwnCalls, FewOnTheWay, Sizes
  <2>2. CASE Waiting' /\ faults' = faults /\ PipeMore(Op(s))
    BY <1>3, <2>1, <2>2 DEF FewOnTheWay, PipeMore, Sizes
  <2>3. CASE ~Waiting' /\ faults' = faults + 1 /\ Total' = Total
    BY <1>3, <2>1, <2>3 DEF FewOnTheWay, Sizes
  <2> QED BY <1>2, <2>2, <2>3
<1>5. CASE AsksFails(s)
  <2>1. Right' /\ NotSent(Commands \ Verifying)' /\ ~Waiting'
    BY <1>2, <1>5 DEF OwnCalls, Right, NotSent, AsksFails, EndCall, Waiting
  <2> QED BY <1>4, <2>1 DEF OwnCalls
<1>6. CASE AsksOk(s)
  <2>1. PICK m : m = [cmd |-> s, call |-> call + 1]
    OBVIOUS
  <2>2. m \in Orders /\ sent' = Append(sent, m) /\ cmd' = s /\ call' = call + 1
    BY <1>1, <1>3, <1>6, <2>1 DEF AsksOk, Orders
  <2>3. \A i \in 1..Len(sent') : (i \in 1..Len(sent) /\ sent'[i] = sent[i]) \/ sent'[i] = m
    <3>1. /\ Len(sent') = Len(sent) + 1 /\ sent'[Len(sent) + 1] = m
          /\ \A i \in 1..Len(sent) : sent'[i] = sent[i]
      BY <2>2, AppendAt DEF XferTypes
    <3> QED BY <1>3, <3>1 DEF Sizes
  <2>4. Right' /\ NotSent(Commands \ Verifying)'
    BY <1>2, <2>1, <2>3 DEF OwnCalls, Right, NotSent
  <2>5. OwnFrames'
    <3>1. \A i \in 1..Len(queue) : queue[i].call \in Nat /\ queue[i].call <= call
      <4>1. \A i \in 1..Len(queue) : queue[i] \in Frames
        BY DEF XferTypes
      <4> QED BY <4>1 DEF Numbered, Frames
    <3>2. \A i \in 1..Len(queue) : queue[i].call # call'
      BY <1>3, <2>2, <3>1
    <3> QED BY <1>2, <3>2 DEF OwnFrames
  <2>6. OwnOrders'
    <3>1. \A i \in 1..Len(sent) : sent[i].call \in Nat /\ sent[i].call <= call
      <4>1. \A i \in 1..Len(sent) : sent[i] \in Orders
        BY DEF XferTypes
      <4> QED BY <4>1 DEF Numbered, Orders
    <3>2. \A i \in 1..Len(sent) : sent[i].call # call'
      BY <1>3, <2>2, <3>1
    <3> QED BY <2>1, <2>2, <2>3, <3>2 DEF OwnOrders
  <2> QED BY <1>4, <2>4, <2>5, <2>6 DEF OwnCalls
<1> QED BY <1>5, <1>6 DEF Asks

\* Nothing is on its way when the verification starts, if the MCU sent nothing
\* unsolicited.
LEMMA StartsDrained ==
  ASSUME XferTypes, OwnInv, Starts, suspects \subseteq Unsolicited, ~notified
  PROVE  sent = <<>> /\ queue = <<>>
<1> USE Tables
<1>1. step = "upload" /\ result = "ok" /\ ~Waiting
  BY AskedPipe DEF Starts
<1>2. ReplyOf["upload"] \notin suspects
  BY OpcodesAssumption DEF Config
<1>3. Drained
  BY <1>1, <1>2 DEF OwnInv, AnswerInv, Answered
<1>4. 1 \notin 1..Len(queue)
  BY <1>3 DEF Drained, OwnInv, Unasked
<1>5. Len(queue) \in Nat /\ queue \in Seq(Frames)
  BY DEF XferTypes
<1>6. Len(queue) = 0
  BY <1>4, <1>5
<1> QED BY <1>3, <1>5, <1>6 DEF Drained

LEMMA QuietStarts ==
  ASSUME XferTypes, XferTypes', BootTypes, BootTypes', BeforeInv, OwnInv, Starts, Quiet'
  PROVE  QuietInv'
<1>1. /\ ~Waiting /\ UNCHANGED <<queue, notified, sensor>> /\ step' = "setIdle"
      /\ \/ /\ AsksOk("setIdle") /\ PipeMore(Op("setIdle")) /\ Waiting' /\ faults' = faults
         \/ /\ AsksFails("setIdle") /\ sent' = sent /\ Total' = Total
            /\ ~Waiting' /\ faults' = faults + 1
  BY AskedPipe, Tables DEF Starts
<1>2. Right /\ suspects \subseteq Unsolicited /\ faultsBefore' = faults /\ attempt' = 1
  BY DEF BeforeInv, Starts, Quiet, Verifies, Never
<1>3. sent = <<>> /\ queue = <<>>
  BY <1>1, <1>2, StartsDrained DEF Quiet
<1>4. Total = 0 /\ Len(queue') = 0
  BY <1>1, <1>3 DEF Total
<1>5. Sizes' /\ faults \in Nat /\ call \in Nat
  BY PipeSizes, BootNumbers DEF XferTypes, Sizes, Total
<1>6. CASE AsksOk("setIdle") /\ PipeMore(Op("setIdle")) /\ Waiting' /\ faults' = faults
  <2>1. PICK m : m = [cmd |-> "setIdle", call |-> call + 1]
    OBVIOUS
  <2>2. m \in Orders /\ cmd' = "setIdle" /\ call' = call + 1 /\ sent' = Append(<<>>, m)
    BY <1>3, <1>5, <1>6, <2>1, Tables, Opcode DEF AsksOk, Orders, Verifying
  <2>3. Len(sent') = 1 /\ sent'[1] = m
    BY <2>2
  <2>4. Total' = 1
    BY <1>4, <1>6 DEF PipeMore
  <2>5. \A i \in 1..Len(sent') : sent'[i] = m
    BY <2>3
  <2>6. OwnCalls'
    <3>1. Right' /\ NotSent(Commands \ Verifying)'
      BY <1>1, <1>2, <2>1, <2>5 DEF Right, NotSent, Verifying
    <3>2. OwnFrames' /\ OwnOrders'
      BY <1>4, <2>1, <2>2, <2>5 DEF OwnFrames, OwnOrders
    <3>3. FewOnTheWay'
      BY <1>2, <1>5, <1>6, <2>4 DEF FewOnTheWay
    <3> QED BY <3>1, <3>2, <3>3 DEF OwnCalls
  <2>7. AckLast'
    BY <2>4 DEF AckLast
  <2>8. Undisturbed'
    BY <1>1, <1>6, <2>7 DEF Undisturbed
  <2>9. attempt' >= 1 /\ Slack' = -1
    BY <1>2, <1>5, <1>6 DEF Slack
  <2> QED BY <2>6, <2>8, <2>9 DEF QuietInv
<1>7. CASE AsksFails("setIdle") /\ sent' = sent /\ Total' = Total /\ ~Waiting'
           /\ faults' = faults + 1
  <2>1. Right' /\ NotSent(Commands \ Verifying)'
    BY <1>1, <1>2, <1>3, <1>7 DEF Right, NotSent
  <2>2. FewOnTheWay'
    BY <1>2, <1>4, <1>5, <1>7 DEF FewOnTheWay
  <2>3. OwnCalls'
    BY <1>7, <2>1, <2>2 DEF OwnCalls
  <2>4. attempt' >= 1 /\ Slack' = 0
    BY <1>2, <1>5, <1>7 DEF Slack
  <2>5. Disturbed'
    BY <1>1 DEF Disturbed
  <2> QED BY <2>3, <2>4, <2>5 DEF QuietInv
<1> QED BY <1>1, <1>6, <1>7

\* What is known of a quiet verification before a step of the open.
QuietBefore ==
  /\ OwnCalls /\ attempt >= 1 /\ Slack >= -1
  /\ Slack = -1 => Undisturbed
  /\ Slack = 0 => Disturbed

LEMMA QuietContinues ==
  ASSUME XferTypes, XferTypes', BootTypes, BootTypes', Numbered, QuietBefore,
         NEW s \in {"readDac", "readTcode"}, Continues(s), Quiet'
  PROVE  QuietInv'
<1>1. /\ ~Waiting /\ UNCHANGED <<queue, notified, sensor, answer>> /\ step' = s
      /\ \/ /\ AsksOk(s) /\ PipeMore(Op(s)) /\ Waiting' /\ faults' = faults
         \/ /\ AsksFails(s) /\ sent' = sent /\ Total' = Total
            /\ \A i \in 1..Total : OpAt(i)' = OpAt(i)
            /\ ~Waiting' /\ faults' = faults + 1
  BY AskedPipe, Tables DEF Continues
<1>2. UNCHANGED <<attempt, faultsBefore>>
  BY DEF Continues
<1>3. /\ faults \in Nat /\ attempt \in Nat /\ faultsBefore \in Nat /\ Slack \in Int
      /\ Slack = faults - faultsBefore - attempt
      /\ Slack' = Slack + (faults' - faults)
  BY <1>1, <1>2, BootNumbers DEF Slack
<1>4. Sizes /\ Sizes' /\ call \in Nat
  BY PipeSizes DEF XferTypes, Sizes, Total
<1>5. OwnCalls'
  BY <1>2, AskedOwn DEF QuietBefore, Continues, Verifying
<1>6. attempt' >= 1 /\ Slack' \in Int /\ Slack' >= -1
  BY <1>1, <1>2, <1>3 DEF QuietBefore
<1>7. Op(s) = Reg
  BY OpcodesAssumption, Tables DEF Op, Reg
<1>8. CASE AsksOk(s) /\ PipeMore(Op(s)) /\ Waiting' /\ faults' = faults
  <2>1. Slack' = Slack
    BY <1>3, <1>8
  <2>2. /\ Total' = Total + 1
        /\ \A i \in 1..Total : OpAt(i)' = OpAt(i)
        /\ \A i \in 1..Total' : i \in 1..Total \/ OpAt(i)' = Reg
    BY <1>4, <1>7, <1>8 DEF PipeMore, Sizes
  <2>3. NoAck => NoAck'
    BY <2>2, OpcodesApart DEF NoAck, Ack
  <2>4. Slack' = -1 => Undisturbed'
    <3> SUFFICES ASSUME Slack = -1 PROVE Undisturbed'
      BY <2>1
    <3>1. Undisturbed /\ Total = 0 /\ result = "ok"
      BY <1>1 DEF QuietBefore, Undisturbed
    <3>2. Len(queue) = 0 /\ Len(sent) = 0 /\ Total' = 1
      BY <1>4, <2>2, <3>1 DEF Total, Sizes
    <3>3. OnlyOwn'
      <4>1. sent = <<>>
        BY <3>2 DEF XferTypes
      <4>2. PICK m : m = [cmd |-> CommandOf[s], call |-> call']
        OBVIOUS
      <4>3. sent' = Append(<<>>, m)
        BY <1>8, <4>1, <4>2 DEF AsksOk
      <4>4. Len(sent') = 1 /\ sent'[1] = m
        BY <4>3
      <4>5. \A i \in 1..Len(sent') : sent'[i] = m
        BY <4>4
      <4> QED BY <1>1, <3>2, <4>2, <4>5 DEF OnlyOwn
    <3>4. s = "readTcode" => dacRead' = "dac"
      BY <1>1, <3>1 DEF Continues, Undisturbed
    <3> QED BY <1>1, <1>8, <3>2, <3>3, <3>4 DEF Undisturbed
  <2>5. Slack' = 0 => Disturbed'
    <3> SUFFICES ASSUME Slack = 0, ~NoAck' PROVE Disturbed'
      BY <2>1 DEF Disturbed
    <3>1. Disturbed /\ ~NoAck
      BY <2>3 DEF QuietBefore
    <3>2. LastAreReg(1)'
      <4> SUFFICES ASSUME NEW i \in 1..Total', i > Total' - 1
                   PROVE  OpAt(i)' = Reg
        BY DEF LastAreReg, Reg
      <4>1. i \notin 1..Total
        BY <1>4, <2>2 DEF Sizes
      <4> QED BY <2>2, <4>1
    <3>3. s = "readTcode" => LastAreReg(2)'
      <4> SUFFICES ASSUME s = "readTcode", NEW i \in 1..Total', i > Total' - 2
                   PROVE  OpAt(i)' = Reg
        BY DEF LastAreReg, Reg
      <4>1. LastAreReg(1)
        BY <3>1 DEF Disturbed, Continues
      <4>2. CASE i \in 1..Total
        <5>1. i > Total - 1
          BY <1>4, <2>2, <4>2 DEF Sizes
        <5> QED BY <2>2, <4>1, <4>2, <5>1 DEF LastAreReg
      <4> QED BY <2>2, <4>2
    <3> QED BY <1>1, <1>8, <3>2, <3>3 DEF Disturbed
  <2> QED BY <1>5, <1>6, <2>4, <2>5 DEF QuietInv
<1>9. CASE AsksFails(s) /\ sent' = sent /\ Total' = Total /\ ~Waiting' /\ faults' = faults + 1
  <2>1. Slack' = Slack + 1 /\ Slack' >= 0
    BY <1>3, <1>9 DEF QuietBefore
  <2>2. Slack' = 0 => Disturbed'
    <3> SUFFICES ASSUME Slack = -1 PROVE Disturbed'
      BY <1>3, <2>1
    <3>1. Total' = 0
      BY <1>1, <1>9 DEF QuietBefore, Undisturbed
    <3>2. NoAck'
      BY <3>1 DEF NoAck
    <3> QED BY <3>2 DEF Disturbed
  <2> QED BY <1>5, <1>6, <2>1, <2>2 DEF QuietInv
<1> QED BY <1>1, <1>8, <1>9

\* An attempt that had no fault does not fail.  If one with one fault too few
\* for the next one fails, no reply to gxfp_cmd_set_idle is left.
LEMMA QuietFails ==
  ASSUME XferTypes, BootTypes, QuietBefore, Fails
  PROVE  Slack # -1 /\ (Slack = 0 => NoAck)
<1>1. ASSUME Slack = -1 PROVE FALSE
  <2>1. Undisturbed
    BY <1>1 DEF QuietBefore
  <2> QED BY <2>1 DEF Undisturbed, Fails
<1>2. ASSUME Slack = 0 PROVE NoAck
  <2>1. Disturbed
    BY <1>2 DEF QuietBefore
  <2> QED BY <2>1 DEF Disturbed, Fails
<1> QED BY <1>1, <1>2

LEMMA QuietRetries ==
  ASSUME XferTypes, XferTypes', BootTypes, BootTypes', Numbered, QuietBefore, Retries, Quiet'
  PROVE  QuietInv'
<1>1. /\ ~Waiting /\ step' = "setIdle"
      /\ \/ AsksOk("setIdle") /\ PipeMore(Op("setIdle")) /\ Waiting' /\ faults' = faults
         \/ ~Waiting' /\ faults' = faults + 1
  BY AskedPipe, Tables DEF Retries
<1>2. attempt' = attempt + 1 /\ faultsBefore' = faultsBefore /\ Fails
  BY DEF Retries
<1>3. /\ faults \in Nat /\ attempt \in Nat /\ faultsBefore \in Nat /\ Slack \in Int
      /\ Slack = faults - faultsBefore - attempt
      /\ Slack' = Slack - 1 + (faults' - faults)
  BY <1>1, <1>2, BootNumbers DEF Slack
<1>4. Slack >= 0 /\ (Slack = 0 => NoAck)
  <2>1. Slack >= -1 /\ Slack # -1 /\ (Slack = 0 => NoAck)
    BY <1>2, QuietFails DEF QuietBefore
  <2> QED BY <1>3, <2>1
<1>5. Sizes /\ Sizes'
  BY PipeSizes DEF XferTypes, Sizes, Total
<1>6. OwnCalls'
  BY <1>2, AskedOwn DEF QuietBefore, Retries, Verifying
<1>7. attempt' >= 1 /\ Slack' \in Int /\ Slack' >= -1 /\ (Slack' = -1 => Slack = 0 /\ Waiting')
  BY <1>1, <1>2, <1>3, <1>4 DEF QuietBefore
<1>8. Slack' = -1 => Undisturbed'
  <2> SUFFICES ASSUME Slack' = -1 PROVE Undisturbed'
    OBVIOUS
  <2>1. NoAck /\ Waiting' /\ PipeMore(Op("setIdle"))
    BY <1>1, <1>4, <1>7
  <2>2. AckLast'
    <3> SUFFICES ASSUME NEW i \in 1..Total', i < Total'
                 PROVE  OpAt(i)' # Ack
      BY DEF AckLast, Ack
    <3>1. i \in 1..Total /\ OpAt(i)' = OpAt(i)
      BY <1>5, <2>1 DEF PipeMore, Sizes
    <3> QED BY <2>1, <3>1 DEF NoAck
  <2> QED BY <1>1, <2>1, <2>2 DEF Undisturbed
<1>9. Slack' = 0 => Disturbed'
  BY <1>1 DEF Disturbed
<1> QED BY <1>6, <1>7, <1>8, <1>9 DEF QuietInv

LEMMA QuietInvKept ==
  ASSUME XferTypes, XferTypes', BootTypes, BootTypes', CallInv, OwnInv, BeforeInv, QuietInv,
         [Next]_vars
  PROVE  QuietInv'
<1> SUFFICES ASSUME Quiet' PROVE QuietInv'
  BY DEF QuietInv
<1>1. VerifyRoutes
  BY VerifyRouted DEF Quiet, Verifies
<1>2. ASSUME faultsBefore' = faultsBefore, step \in Verifying, Asks(step'),
             step' \in DOMAIN CommandOf
      PROVE  QuietBefore
  <2>1. notified' = notified /\ faults' \in {faults, faults + 1}
    BY <1>2, AskedPipe
  <2>2. Quiet
    BY <1>2, <2>1, BootNumbers DEF Quiet, Verifies
  <2> QED BY <2>2 DEF QuietInv, QuietBefore
<1>3. CASE Starts
  BY <1>3, QuietStarts
<1>4. ASSUME NEW s \in {"readDac", "readTcode"}, Continues(s) PROVE QuietInv'
  <2>1. QuietBefore
    BY <1>2, <1>4, Tables DEF Continues, Verifying
  <2> QED BY <1>4, <2>1, QuietContinues DEF OwnInv
<1>5. CASE Retries
  <2>1. QuietBefore
    BY <1>2, <1>5, Tables DEF Retries, Fails, Verifying
  <2> QED BY <1>5, <2>1, QuietRetries DEF OwnInv
<1>6. CASE GivesUp
  BY <1>6 DEF GivesUp, Quiet, Verifies, Verifying
<1>7. CASE Drops \/ Accepts
  BY <1>7, QuietRead
<1>8. CASE Resends \/ Ends \/ McuLoses
  BY <1>8, QuietFault
<1>9. CASE McuReplies
  BY <1>9, QuietReply
<1>10. CASE McuNotifies
  BY <1>10 DEF McuNotifies, Notify, Quiet
<1>11. CASE UNCHANGED vars
  BY <1>11
  DEF vars, xferVars, bootVars, QuietInv, Quiet, Verifies, OwnCalls, Right, NotSent, Waiting,
      OwnFrames, OwnOrders, FewOnTheWay, Total, Slack, Undisturbed, AckLast, OnlyOwn, OpAt,
      Disturbed, NoAck, LastAreReg, Expected, ValuesRead, Ack, Reg
<1> QED
  BY <1>1, <1>3, <1>4, <1>5, <1>6, <1>7, <1>8, <1>9, <1>10, <1>11 DEF VerifyRoutes, Calls

-----------------------------------------------------------------------------
LEMMA BeforeInvKept ==
  ASSUME XferTypes, XferTypes', BootTypes, BootTypes', CallInv, BeforeInv, [Next]_vars
  PROVE  BeforeInv'
<1> USE Tables
<1>1. faults \in Nat /\ faultsBefore \in Nat /\ (faults' = faults \/ faults' = faults + 1)
  BY FaultsGrow, Stepped, BootNumbers
<1>2. faultsBefore' \in {faultsBefore, faults, Never}
  BY DEF Next, Driver, Open, ReadChip, HaveChip, Configure, SendImageMode, AwaitImageMode,
         HaveImageMode, IdleSet, HaveDac, HaveTcode, FlushForTls, InitTls, Close, Call,
         McuReplies, McuNotifies, McuLoses, vars
<1>3. faultsBefore' # Never => faultsBefore' <= faults'
  BY <1>1, <1>2 DEF BeforeInv
<1>4. ASSUME step' \in Configuring \union {"closed", "opening", "upload"}
      PROVE  faultsBefore' = Never
  <2>1. CASE Close
    BY <2>1 DEF Close
  <2>2. CASE ~Close
    <3>1. /\ step \in Configuring \union {"closed", "opening", "upload"}
          /\ faultsBefore' = faultsBefore
      BY <1>4, <2>2
      DEF Next, Driver, Open, ReadChip, HaveChip, Configure, SendImageMode, AwaitImageMode,
          HaveImageMode, IdleSet, HaveDac, HaveTcode, FlushForTls, InitTls, Call,
          McuReplies, McuNotifies, McuLoses, vars, bootVars, Returned, Enter,
          AnotherAttempt, Configuring
    <3> QED BY <3>1 DEF BeforeInv
  <2> QED BY <2>1, <2>2
<1> QED BY <1>3, <1>4 DEF BeforeInv, Configuring, Never

\* The answer to a read of the configured registers, while no fault happened.
LEMMA RegistersRead ==
  ASSUME OwnInv, Right, suspects \subseteq Unsolicited, step \in {"readDac", "readTcode"},
         ~Waiting, result = "ok"
  PROVE  answer.val = IF step = "readDac" THEN "dac" ELSE "tcode"
<1> USE Tables
<1>1. Answered /\ CommandOf[step] = step
  BY DEF Answered
<1>2. ReplyOf[step] \notin suspects
  BY OpcodesAssumption DEF Config
<1>3. answer.val \in ValuesRead(step)
  BY <1>1, <1>2 DEF OwnInv, AnswerInv
<1> QED BY <1>3 DEF ValuesRead, Right

LEMMA NoFaultInvKept ==
  ASSUME XferTypes, BootTypes, CallInv, OwnInv, BeforeInv, BeforeInv', NoFaultInv,
         [Next]_vars
  PROVE  NoFaultInv'
<1> SUFFICES ASSUME Verifies', faults' = faultsBefore'
             PROVE  NoFaultInv'
  BY DEF NoFaultInv
<1> DEFINE Good == /\ attempt' = 1 /\ Right' /\ suspects' \subseteq Unsolicited
                   /\ ~Waiting' => result' = "ok"
                   /\ step' = "readTcode" => dacRead' = "dac"
<1>1. Good => NoFaultInv'
  BY DEF NoFaultInv
<1> USE Tables
<1>2. VerifyRoutes
  BY VerifyRouted DEF Verifies
<1>3. faults \in Nat /\ faultsBefore \in Nat /\ (faults' = faults \/ faults' = faults + 1)
  BY FaultsGrow, Stepped, BootNumbers
<1>4. ASSUME faultsBefore' = faultsBefore, step \in Verifying
      PROVE  /\ faults' = faults
             /\ attempt = 1 /\ Right /\ suspects \subseteq Unsolicited
             /\ ~Waiting => result = "ok"
             /\ step = "readTcode" => dacRead = "dac"
  <2>1. faultsBefore # Never /\ Never' = Never
    BY <1>4 DEF Verifies, Never
  <2>2. faults' = faults /\ faults = faultsBefore
    BY <1>3, <1>4, <2>1 DEF BeforeInv
  <2> QED BY <1>4, <2>1, <2>2 DEF NoFaultInv, Verifies
<1>5. CASE Starts
  <2>1. /\ UNCHANGED <<sensor, suspects>> /\ step' = "setIdle"
        /\ Waiting' \/ faults' = faults + 1
    BY <1>5, AskedPipe DEF Starts
  <2>2. Right /\ suspects \subseteq Unsolicited /\ faultsBefore' = faults
    BY <1>5 DEF Starts, BeforeInv, Verifies, Never
  <2>3. Waiting'
    BY <1>3, <2>1, <2>2
  <2> QED BY <1>1, <1>5, <2>1, <2>2, <2>3 DEF Starts, Right
<1>6. ASSUME NEW s \in {"readDac", "readTcode"}, Continues(s)
      PROVE  NoFaultInv'
  <2>1. /\ UNCHANGED <<sensor, suspects>> /\ ~Waiting
        /\ Waiting' \/ faults' = faults + 1
    BY <1>6, AskedPipe DEF Continues
  <2>2. /\ faults' = faults /\ attempt = 1 /\ Right /\ suspects \subseteq Unsolicited
    BY <1>4, <1>6 DEF Continues, Verifying
  <2>3. Waiting' /\ attempt' = 1
    BY <1>3, <1>6, <2>1, <2>2 DEF Continues
  <2>4. s = "readTcode" => dacRead' = "dac"
    BY <1>6, <2>1, <2>2, RegistersRead DEF Continues
  <2> QED BY <1>1, <1>6, <2>1, <2>2, <2>3, <2>4 DEF Continues, Right
<1>7. CASE Retries
  <2>1. ~Waiting /\ step \in {"readDac", "readTcode"} /\ faultsBefore' = faultsBefore
    BY <1>7 DEF Retries, Fails
  <2>2. /\ Right /\ suspects \subseteq Unsolicited /\ result = "ok"
        /\ step = "readTcode" => dacRead = "dac"
    BY <1>4, <2>1 DEF Verifying
  <2>3. answer.val = IF step = "readDac" THEN "dac" ELSE "tcode"
    BY <2>1, <2>2, RegistersRead
  <2> QED BY <1>7, <2>2, <2>3 DEF Retries, Fails
<1>8. CASE GivesUp
  BY <1>8 DEF GivesUp, Verifies, Verifying
<1>9. CASE Calls
  <2>1. UNCHANGED <<step, attempt, dacRead, faultsBefore>>
    BY <1>9 DEF Calls, Drops, Accepts, Resends, Ends, Stays, McuReplies, McuNotifies,
                McuLoses, vars, bootVars
  <2>2. /\ faults' = faults
        /\ attempt = 1 /\ Right /\ suspects \subseteq Unsolicited
        /\ ~Waiting => result = "ok"
        /\ step = "readTcode" => dacRead = "dac"
    BY <1>4, <2>1 DEF Verifies
  <2>3. ~Resends /\ ~Ends /\ ~McuLoses
    BY <1>3, <2>2 DEF Resends, Ends, McuLoses, Lose, Fault
  <2>4. CASE UNCHANGED vars \/ McuNotifies \/ Drops
    <3>1. UNCHANGED <<sensor, suspects, cmd, result>>
      BY <2>4 DEF vars, xferVars, McuNotifies, Notify, Drops, Drop, Stays
    <3> QED BY <1>1, <2>1, <2>2, <3>1 DEF Right, Waiting
  <2>5. CASE Accepts
    <3>1. result' = "ok" /\ suspects' \subseteq Unsolicited /\ sensor' = sensor
      BY <1>3, <2>2, <2>5 DEF Accepts, Accept, EndCall, Fault, Stays
    <3> QED BY <1>1, <2>1, <2>2, <3>1 DEF Right
  <2>6. CASE McuReplies
    <3>1. UNCHANGED <<suspects, cmd, result>> /\ sent # <<>>
      BY <2>6 DEF McuReplies, Reply
    <3>2. Head(sent) = sent[1] /\ 1 \in 1..Len(sent) /\ Head(sent) \in Orders
      BY <3>1, TailAt DEF XferTypes
    <3>3. sent[1].cmd \in Acked \union Verifying
      <4>1. CASE ReplyOf[sent[1].cmd] \in suspects
        BY <2>2, <3>2, <4>1, OpcodesAssumption DEF Orders, Verifying
      <4>2. CASE ReplyOf[sent[1].cmd] \notin suspects
        <5>1. Waiting /\ sent[1].cmd = cmd
          BY <3>2, <4>2 DEF OwnInv, SentOwn
        <5> QED BY <2>1, <5>1, VerifyOpcodes DEF Verifies
      <4> QED BY <4>1, <4>2
    <3>4. sensor' = sensor
      BY <2>6, <3>2, <3>3 DEF McuReplies, Effect, Acked, Verifying
    <3> QED BY <1>1, <2>1, <2>2, <3>1, <3>4 DEF Right, Waiting
  <2> QED BY <1>9, <2>3, <2>4, <2>5, <2>6 DEF Calls
<1> QED BY <1>2, <1>5, <1>6, <1>7, <1>8, <1>9 DEF VerifyRoutes

\* An attempt more than there may be: with a fault, or with three of them if the
\* MCU sent nothing unsolicited.
LEMMA VerifyToleratesKept ==
  ASSUME XferTypes, BootTypes, CallInv, OwnInv, BeforeInv, NoFaultInv, QuietInv,
         VerifyTolerates, [Next]_vars
  PROVE  VerifyTolerates'
<1> SUFFICES ASSUME step' = "unverified", faultsBefore' # Never
             PROVE  faults' >= faultsBefore' + (IF notified' THEN 1 ELSE 3)
  BY DEF VerifyTolerates, Never
<1> USE Tables
<1>1. VerifyRoutes
  BY VerifyRouted
<1>2. faults \in Nat /\ faultsBefore \in Nat /\ (faults' = faults \/ faults' = faults + 1)
  BY FaultsGrow, Stepped, BootNumbers
<1>3. CASE GivesUp
  <2>1. /\ step \in Verifying /\ ~Waiting /\ attempt = 3 /\ Fails
        /\ UNCHANGED <<faults, faultsBefore, notified>>
    BY <1>3 DEF GivesUp, Fails, xferVars, Attempts, BootTypes, Verifying
  <2>2. Verifies /\ faultsBefore <= faults
    BY <2>1 DEF Verifies, BeforeInv
  <2>3. faults # faultsBefore
    BY <2>1, <2>2 DEF NoFaultInv
  <2>4. ASSUME ~notified, faults <= faultsBefore + 2 PROVE FALSE
    <3>1. QuietBefore
      BY <2>2, <2>4 DEF Quiet, QuietInv, QuietBefore
    <3>2. Slack = faults - faultsBefore - 3 /\ Slack >= -1 /\ Slack # -1
      BY <2>1, <3>1, QuietFails, BootNumbers DEF QuietBefore
    <3> QED BY <1>2, <2>4, <3>2
  <2>5. notified \/ faults > faultsBefore + 2
    BY <1>2, <2>4
  <2>6. faults >= faultsBefore + (IF notified THEN 1 ELSE 3)
    BY <1>2, <2>2, <2>3, <2>5
  <2> QED BY <2>1, <2>6
<1>4. CASE Calls
  <2>1. UNCHANGED <<step, faultsBefore>>
    BY <1>4 DEF Calls, Drops, Accepts, Resends, Ends, Stays, McuReplies, McuNotifies,
                McuLoses, vars, bootVars
  <2>2. notified => notified'
    BY <1>4 DEF Calls, Drops, Drop, Accepts, Accept, Resends, Ends, McuReplies, Reply,
                McuNotifies, Notify, McuLoses, Lose, vars, xferVars
  <2>3. faults >= faultsBefore + (IF notified THEN 1 ELSE 3)
    BY <2>1 DEF VerifyTolerates, Never
  <2> QED BY <1>2, <2>1, <2>2, <2>3
<1>5. CASE Starts \/ Continues("readDac") \/ Continues("readTcode") \/ Retries
  BY <1>5 DEF Starts, Continues, Retries
<1> QED BY <1>1, <1>3, <1>4, <1>5 DEF VerifyRoutes

LEMMA TolerateInvKept ==
  ASSUME XferTypes, XferTypes', BootTypes, BootTypes', CallInv, OwnInv, TolerateInv,
         [Next]_vars
  PROVE  TolerateInv'
<1>1. BeforeInv'
  BY BeforeInvKept DEF TolerateInv
<1>2. NoFaultInv'
  BY <1>1, NoFaultInvKept DEF TolerateInv
<1>3. QuietInv'
  BY QuietInvKept DEF TolerateInv
<1>4. VerifyTolerates'
  BY VerifyToleratesKept DEF TolerateInv
<1> QED BY <1>1, <1>2, <1>3, <1>4 DEF TolerateInv

-----------------------------------------------------------------------------
LEMMA IInvInitially ==
  ASSUME Init
  PROVE  IInv
<1> USE Tables DEF Init, XferInit
<1>1. XferTypes
  <2>1. /\ cmd \in Commands \union {"none"} /\ call \in Nat /\ left \in Nat
        /\ answer.val \in Vals /\ notified \in BOOLEAN
    BY DEF Vals
  <2>2. sent \in Seq(Orders) /\ queue \in Seq(Frames)
    OBVIOUS
  <2>3. suspects \subseteq Opcodes /\ Unsolicited \subseteq suspects
    BY Opcode
  <2>4. faults \in 0..MaxFaults
    BY Bounds
  <2> QED BY <2>1, <2>2, <2>3, <2>4 DEF XferTypes
<1>2. BootTypes
  BY Bounds DEF BootTypes, Steps, Attempts, Registers
<1>3. CallInv /\ OwnInv
  BY DEF CallInv, Waiting, OwnInv, QueueOwn, SentOwn, Unasked, Numbered, AnswerInv, Answered
<1>4. LateInv
  BY DEF LateInv, NothingLate, Configuring, Verifying, Done
<1>5. CountInv
  <2>1. suspects \ Unsolicited = {}
    OBVIOUS
  <2>2. IsFiniteSet(suspects \ Unsolicited) /\ Cardinality(suspects \ Unsolicited) = 0
    BY <2>1, FS_EmptySet
  <2>3. faults = 0
    OBVIOUS
  <2> QED BY <2>2, <2>3 DEF CountInv
<1>6. TolerateInv
  BY DEF TolerateInv, BeforeInv, NoFaultInv, QuietInv, Quiet, Verifies, VerifyTolerates, Never
<1> QED BY <1>1, <1>2, <1>3, <1>4, <1>5, <1>6 DEF IInv

LEMMA IInvKept ==
  ASSUME IInv, [Next]_vars
  PROVE  IInv'
<1>1. XferTypes /\ BootTypes /\ CallInv /\ OwnInv /\ LateInv /\ CountInv /\ TolerateInv
  BY DEF IInv
<1>2. Kinds
  BY <1>1, Stepped
<1>3. XferTypes' /\ BootTypes' /\ CallInv'
  BY <1>1, <1>2, XferTypesKept, BootTypesKept, CallInvKept
<1>4. OwnInv'
  BY <1>1, <1>2, <1>3, OwnInvKept
<1>5. LateInv' /\ CountInv'
  BY <1>1, <1>2, <1>4, LateInvKept, CountInvKept
<1>6. TolerateInv'
  BY <1>1, <1>3, TolerateInvKept
<1> QED BY <1>3, <1>4, <1>5, <1>6 DEF IInv

\* The invariant holds in every reachable state: what the driver still has to
\* read, and what the MCU still has to answer, is accounted for by the call that
\* waits, the opcodes that are suspect and the faults there were
\* (gxfp_goodix_request_selected, gxfp_cmd_verify_sensor_cfg).
THEOREM Invariance == Spec => []IInv
<1>1. Init => IInv
  BY IInvInitially
<1>2. IInv /\ [Next]_vars => IInv'
  BY IInvKept
<1> QED BY <1>1, <1>2, PTL DEF Spec

\* A reply that gxfp_goodix_wait_selected accepts answers the call that waits
\* for it, unless its opcode is one that a try given up before has made suspect:
\* the frames before it were dropped or flushed, and there is no reply to an
\* older request behind an opcode that is not suspect.
THEOREM OwnReplyHolds == Spec => OwnReply
<1>1. ASSUME IInv, Accept, Expected \notin suspects
      PROVE  answer'.call = call
  <2>1. XferTypes /\ QueueOwn
    BY <1>1 DEF IInv, OwnInv
  <2>2. queue # <<>> /\ Head(queue).op = Expected /\ answer' = Head(queue)
    BY <1>1 DEF Accept, Matches
  <2>3. Head(queue) = queue[1] /\ 1 \in 1..Len(queue)
    BY <2>1, <2>2, TailAt DEF XferTypes
  <2> QED BY <1>1, <2>1, <2>2, <2>3 DEF QueueOwn
<1>2. IInv /\ [Next]_vars => [Accept /\ Expected \notin suspects => answer'.call = call]_vars
  BY <1>1
<1> QED BY <1>2, Invariance, PTL DEF Spec, OwnReply

\* A device that opened has the configuration its OTP asks for, unless every
\* opcode of the configuration's replies is suspect: gxfp_img_open then took a
\* late reply for each of its commands, and may have taken late register values
\* in gxfp_cmd_verify_sensor_cfg too.
THEOREM VerifiedUnlessLate ==
  Spec => [](step \in {"tls", "tlsInit", "opened"} /\ chip = "milang" =>
               Right \/ \A c \in Config : ReplyOf[c] \in suspects)
<1> DEFINE Verified1 == step \in {"tls", "tlsInit", "opened"} /\ chip = "milang" =>
                         Right \/ \A c \in Config : ReplyOf[c] \in suspects
<1>1. IInv => Verified1
  <2> SUFFICES ASSUME IInv, step \in Done, chip = "milang"
               PROVE  Right \/ \A c \in Config : ReplyOf[c] \in suspects
    BY DEF Done
  <2>1. AllLate \/ NothingLate
    BY DEF IInv, LateInv
  <2>2. CASE NothingLate
    BY <2>2 DEF NothingLate
  <2>3. CASE AllLate
    BY <2>3 DEF AllLate, Taken, Before, Done, Verifying
  <2> QED BY <2>1, <2>2, <2>3
<1> QED BY <1>1, Invariance, PTL

\* A device that opened has the configuration its OTP asks for, whatever late
\* replies gxfp_cmd_verify_sensor_cfg took for the ones it asked for, as long as
\* there were no more than four failed transfers, timeouts and losses: each
\* opcode of the configuration takes one to become suspect, and there are five.
THEOREM VerifiedWithFewFaults == Spec => [](faults <= 4 => VerifiedHolds)
<1> DEFINE Late == \A c \in Config : ReplyOf[c] \in suspects
           Verified1 == step \in {"tls", "tlsInit", "opened"} /\ chip = "milang" =>
                         Right \/ Late
<1>1. IInv /\ Verified1 => (faults <= 4 => VerifiedHolds)
  <2> SUFFICES ASSUME IInv, Verified1, faults <= 4 PROVE VerifiedHolds
    OBVIOUS
  <2>1. ~Late
    <3> SUFFICES ASSUME Late PROVE FALSE
      OBVIOUS
    <3>1. faults >= 5 /\ faults \in Nat
      BY FiveSuspects, Bounds DEF IInv, XferTypes
    <3> QED BY <3>1
  <2> QED BY <2>1 DEF VerifiedHolds
<1> QED BY <1>1, Invariance, VerifiedUnlessLate, PTL

\* gxfp_cmd_verify_sensor_cfg does not give up a sensor that has the right
\* configuration before the third fault of its verification, or the first one
\* if the MCU has sent something unsolicited.
THEOREM VerifyToleratesHolds == Spec => []VerifyTolerates
<1>1. IInv => VerifyTolerates
  BY DEF IInv, TolerateInv
<1> QED BY <1>1, Invariance, PTL

=============================================================================
