--------------------------- MODULE SensorBootstrap ---------------------------
(***************************************************************************)
(* How the driver configures the sensor when the device is opened: the     *)
(* commands of gxfp_img_open and gxfp_apply_milang_cfg (drivers/gxfp.c),   *)
(* gxfp_milang_prepare_config (flow/milang_init.c) and                     *)
(* gxfp_cmd_verify_sensor_cfg (cmd/sensor_cfg_cmd.c), over CommandXfer.    *)
(* A configuration is two registers: the DAC and the TCODE the OTP asks    *)
(* for; the rest of the blob is not read back.                             *)
(***************************************************************************)
EXTENDS CommandXfer

\* The opcodes in src/cmd: that of an acknowledgement, which the MCU also
\* sends by itself; one for the registers; and one for each other command.
Config == {"chip", "otp", "reset", "setDac", "upload"}
Acked  == {"image", "setIdle", "tlsInit"}

ASSUME OpcodesAssumption ==
  /\ Commands = Config \union Acked \union {"readDac", "readTcode"}
  /\ \A c \in Config : /\ ReplyOf[c] \notin Unsolicited
                       /\ \A d \in Config : ReplyOf[c] = ReplyOf[d] => c = d
  /\ \A c \in {"readDac", "readTcode"} : ReplyOf[c] = ReplyOf["chip"]
  /\ \A c \in Acked : ReplyOf[c] \in Unsolicited

VARIABLES
  step,       \* where gxfp_img_open is
  chip,       \* the chip id it read
  attempt,    \* attempts gxfp_cmd_verify_sensor_cfg has begun
  dacRead,    \* what it read from the DAC register
  sensor,     \* the sensor's registers
  \* history: the faults there were when the verification began with the
  \* registers right and no opcode newly suspect
  faultsBefore

bootVars == <<step, chip, attempt, dacRead>>
vars     == <<xferVars, bootVars, sensor, faultsBefore>>

Attempts == 3
Never == MaxFaults + 1

\* The steps whose failure fails the open, in order.
NextStep == [otp |-> "reset1", reset1 |-> "setDac", setDac |-> "reset2",
             reset2 |-> "image", upload |-> "setIdle"]
CommandOf == [chip |-> "chip", otp |-> "otp", reset1 |-> "reset",
              setDac |-> "setDac", reset2 |-> "reset", upload |-> "upload",
              setIdle |-> "setIdle", readDac |-> "readDac",
              readTcode |-> "readTcode"]

Right == sensor = [dac |-> "dac", tcode |-> "tcode"]

\* The thread has returned from the call of this step, or goes on in it.
Returned(s) == step = s /\ ~Waiting

\* gxfp_img_open goes on to the next step, with its command if it has one.
Enter(s) ==
  /\ step' = s
  /\ IF s \in DOMAIN CommandOf THEN Request(CommandOf[s])
                               ELSE UNCHANGED xferVars

-----------------------------------------------------------------------------
\* gxfp_img_open: flush, then the chip id.
Open ==
  /\ step = "closed"
  /\ FlushQueue
  /\ step' = "opening"
  /\ UNCHANGED <<chip, attempt, dacRead, sensor, faultsBefore>>

ReadChip ==
  /\ step = "opening"
  /\ Enter("chip")
  /\ UNCHANGED <<chip, attempt, dacRead, sensor, faultsBefore>>

\* A chip id that cannot be read, or is another, skips the configuration.
HaveChip ==
  /\ Returned("chip")
  /\ chip' = IF result = "ok" THEN answer.val ELSE "unknown"
  /\ Enter(IF chip' = "milang" THEN "otp" ELSE "tls")
  /\ UNCHANGED <<attempt, dacRead, sensor, faultsBefore>>

\* gxfp_cmd_read_otp up to gxfp_cmd_upload_config_mcu, whose status byte
\* nobody looks at.
Configure ==
  /\ step \in DOMAIN NextStep
  /\ ~Waiting
  /\ Enter(IF result = "ok" THEN NextStep[step] ELSE "failed")
  /\ attempt' = IF step' = "setIdle" THEN 1 ELSE attempt
  /\ faultsBefore' = IF step' = "setIdle" /\ Right /\ suspects \subseteq Unsolicited
                     THEN faults ELSE faultsBefore
  /\ UNCHANGED <<chip, dacRead, sensor>>

\* gxfp_cmd_image_mode_send, then gxfp_cmd_image_mode_wait.
SendImageMode ==
  /\ step = "image"
  /\ SendAsync("image")
  /\ step' = "imageSent"
  /\ UNCHANGED <<chip, attempt, dacRead, sensor, faultsBefore>>

AwaitImageMode ==
  /\ step = "imageSent"
  /\ IF result = "ok" THEN Await("image") /\ step' = "imageWait"
                      ELSE step' = "failed" /\ UNCHANGED xferVars
  /\ UNCHANGED <<chip, attempt, dacRead, sensor, faultsBefore>>

HaveImageMode ==
  /\ Returned("imageWait")
  /\ Enter(IF result = "ok" THEN "upload" ELSE "failed")
  /\ UNCHANGED <<chip, attempt, dacRead, sensor, faultsBefore>>

-----------------------------------------------------------------------------
\* gxfp_cmd_verify_sensor_cfg.

\* The next attempt, or -EIO after the last; and one attempt only.
OneAttempt == step' = "unverified" /\ UNCHANGED <<xferVars, attempt>>
AnotherAttempt ==
  IF attempt < Attempts
  THEN Enter("setIdle") /\ attempt' = attempt + 1
  ELSE step' = "unverified" /\ UNCHANGED <<xferVars, attempt>>

\* The result of gxfp_cmd_set_idle is ignored.
IdleSet ==
  /\ Returned("setIdle")
  /\ Enter("readDac")
  /\ UNCHANGED <<chip, attempt, dacRead, sensor, faultsBefore>>

HaveDac ==
  /\ Returned("readDac")
  /\ IF result = "ok"
     THEN dacRead' = answer.val /\ Enter("readTcode") /\ UNCHANGED attempt
     ELSE AnotherAttempt /\ UNCHANGED dacRead
  /\ UNCHANGED <<chip, sensor, faultsBefore>>

\* Both registers hold what was uploaded; and a comparison of one only.
SameDac(tcode) == dacRead = "dac"
SameConfig(tcode) == dacRead = "dac" /\ tcode = "tcode"

HaveTcode ==
  /\ Returned("readTcode")
  /\ IF result = "ok" /\ SameConfig(answer.val)
     THEN step' = "tls" /\ UNCHANGED <<xferVars, attempt>>
     ELSE AnotherAttempt
  /\ UNCHANGED <<chip, dacRead, sensor, faultsBefore>>

\* gxfp_rearm_tls: flush, then a command nobody waits for.
FlushForTls ==
  /\ step = "tls"
  /\ FlushQueue
  /\ step' = "tlsInit"
  /\ UNCHANGED <<chip, attempt, dacRead, sensor, faultsBefore>>

InitTls ==
  /\ step = "tlsInit"
  /\ SendAsync("tlsInit")
  /\ step' = IF result' = "ok" THEN "opened" ELSE "failed"
  /\ UNCHANGED <<chip, attempt, dacRead, sensor, faultsBefore>>

\* gxfp_img_close, or the end of an open that failed: the device keeps its
\* queue and the MCU its commands.
Close ==
  /\ step \in {"failed", "unverified", "opened"}
  /\ step' = "closed" /\ chip' = "unknown" /\ attempt' = 0
  /\ dacRead' = "none" /\ faultsBefore' = Never
  /\ UNCHANGED <<xferVars, sensor>>

Driver ==
  \/ Open \/ ReadChip \/ HaveChip \/ Configure
  \/ SendImageMode \/ AwaitImageMode \/ HaveImageMode
  \/ IdleSet \/ HaveDac \/ HaveTcode \/ FlushForTls \/ InitTls \/ Close

-----------------------------------------------------------------------------
\* The sensor and the MCU (external).

\* What a command does to the registers, if the sensor takes it.
Effect(c) ==
  {sensor} \union
  CASE c = "upload" -> {[dac |-> "dac", tcode |-> "tcode"]}
    [] c = "setDac" -> {[sensor EXCEPT !.dac = "dac"]}
    [] c = "reset"  -> {[dac |-> "other", tcode |-> "other"]}
    [] OTHER        -> {}

ValuesRead(c) ==
  CASE c = "readDac" -> {sensor.dac}
    [] c = "readTcode" -> {sensor.tcode}
    [] c = "chip" -> {"milang", "unknown"}
    [] OTHER -> {"none"}

McuReplies ==
  /\ sent # <<>>
  /\ sensor' \in Effect(Head(sent).cmd)
  /\ \E v \in ValuesRead(Head(sent).cmd) : Reply(v)
  /\ UNCHANGED <<bootVars, faultsBefore>>

McuNotifies ==
  /\ Notify
  /\ UNCHANGED <<bootVars, sensor, faultsBefore>>

McuLoses ==
  /\ sent # <<>>
  /\ sensor' \in Effect(Head(sent).cmd)
  /\ Lose
  /\ UNCHANGED <<bootVars, faultsBefore>>

Call ==
  /\ Xfer
  /\ UNCHANGED <<bootVars, sensor, faultsBefore>>

-----------------------------------------------------------------------------
Init ==
  /\ XferInit
  /\ step = "closed" /\ chip = "unknown" /\ attempt = 0 /\ dacRead = "none"
  /\ sensor = [dac |-> "other", tcode |-> "other"]
  /\ faultsBefore = Never

Next == Driver \/ Call \/ McuReplies \/ McuNotifies \/ McuLoses

Spec == Init /\ [][Next]_vars

=============================================================================
