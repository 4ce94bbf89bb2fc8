------------------------ MODULE SensorBootstrapProps ------------------------
(***************************************************************************)
(* What opening the device promises about replies and the sensor.          *)
(***************************************************************************)
EXTENDS SensorBootstrap

\* A reply that gxfp_goodix_wait_selected accepts answers the call that waits
\* for it, unless a try with the same reply opcode was given up before and no
\* reply of another opcode has been accepted since.  A reply does not say
\* which request it is for.
OwnReply ==
  [][Accept /\ Expected \notin suspects => answer'.call = call]_vars

\* A device that opened has the configuration its OTP asks for, whatever late
\* replies gxfp_cmd_verify_sensor_cfg took for the ones it asked for.  That
\* bounds what late replies can do and does not exclude it: it holds as long
\* as there were fewer faults than opcodes in the configuration, and fails when
\* an open gets all its replies from the opens before, which takes more.
VerifiedHolds == step \in {"tls", "tlsInit", "opened"} /\ chip = "milang" => Right

\* The verification of a sensor that has the right configuration does not
\* fail by itself.  While the MCU has sent nothing unsolicited, its three
\* attempts survive any two failed, late or lost transfers, since
\* gxfp_cmd_set_idle, whose result nobody looks at, reads past the late
\* replies of the attempt before; after something unsolicited, it takes one.
VerifyTolerates ==
  step = "unverified" /\ faultsBefore # Never =>
    faults >= faultsBefore + (IF notified THEN 1 ELSE 3)

=============================================================================
