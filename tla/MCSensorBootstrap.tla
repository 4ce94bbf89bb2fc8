-------------------------- MODULE MCSensorBootstrap --------------------------
(***************************************************************************)
(* Opening the device with the reply opcodes and the numbers of tries that *)
(* src/cmd gives each command; a wait without tries counts as one.         *)
(***************************************************************************)
EXTENDS SensorBootstrapProps

Cmds == {"chip", "otp", "reset", "setDac", "image", "upload", "setIdle",
         "readDac", "readTcode", "tlsInit"}
Replies == [chip |-> "reg", otp |-> "otp", reset |-> "reset", setDac |-> "setDac",
  image |-> "ack", upload |-> "upload", setIdle |-> "ack", readDac |-> "reg",
  readTcode |-> "reg", tlsInit |-> "ack"]
Tries == [chip |-> 3, otp |-> 8, reset |-> 6, setDac |-> 3, image |-> 1,
  upload |-> 3, setIdle |-> 1, readDac |-> 3, readTcode |-> 3, tlsInit |-> 1]

=============================================================================
