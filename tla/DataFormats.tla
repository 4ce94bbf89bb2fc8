----------------------------- MODULE DataFormats -----------------------------
(***************************************************************************)
(* The pure computations of the library, one at a time: the configuration  *)
(* blob from the OTP, the touch thresholds from the sensor's bases, an     *)
(* image from its packed samples, a command to a packet and back.  They    *)
(* share no state; subject says which one runs.                            *)
(***************************************************************************)
EXTENDS SensorConfig, TouchBases, ImageDecoder, Packets

VARIABLE subject

vars == <<subject, configVars, baseVars, decoderVars, packetVars>>

NoOtp == [crcHolds |-> FALSE]
AnImage == CHOOSE i \in Images : TRUE

Init ==
  /\ subject \in {"config", "bases", "image", "packets"}
  /\ ConfigInit(IF subject = "config" THEN Otps ELSE {NoOtp})
  /\ BasesInit(IF subject = "bases" THEN Offsets ELSE {0})
  /\ DecoderInit(IF subject = "image" THEN Images ELSE {AnImage})
  /\ PacketsInit

Configures ==
  /\ subject = "config" /\ ConfigNext
  /\ UNCHANGED <<subject, baseVars, decoderVars, packetVars>>

Measures ==
  /\ subject = "bases" /\ BasesNext
  /\ UNCHANGED <<subject, configVars, decoderVars, packetVars>>

Decodes ==
  /\ subject = "image" /\ DecoderNext
  /\ UNCHANGED <<subject, configVars, baseVars, packetVars>>

Sends ==
  /\ subject = "packets" /\ PacketsNext
  /\ UNCHANGED <<subject, configVars, baseVars, decoderVars>>

Next == Configures \/ Measures \/ Decodes \/ Sends

Spec == Init /\ [][Next]_vars

-----------------------------------------------------------------------------
\* A calibration read from the OTP with one copy damaged, or none, is the one
\* stored, or it is refused; and it is refused only when the CRC fails or
\* nothing was stored (gxfp_milang_check_otp, gxfp_milang_parse_otp).
OtpVoted ==
  subject = "config" /\ cfgStep # "read" =>
    IF cfgStep = "refused"
    THEN ~otp.crcHolds \/ 0 \in {otp.stored.tcode, otp.stored.dac}
    ELSE cal = [tcode |-> Tcode(otp.stored.tcode), dac |-> Dac(otp.stored.dac),
                delta |-> FdtDelta(otp.stored.tcode)]

\* What a register is set to.
Setting(r) ==
  CASE r = "dac" -> cal.dac
    [] r = "tcode" -> cal.tcode
    [] r = "fdt" -> 128 + 256 * cal.delta

\* The uploaded blob holds the calibration in its three registers, each found
\* in its section once, closes with a checksum over all of it, and is the
\* template elsewhere; as long as the delta fits its byte
\* (gxfp_milang_apply_otp_patch, gxfp_cfg_patch_reg, gxfp_cfg_recalc_checksum).
ConfigPatched ==
  cfgStep = "ready" /\ cal.delta < 256 =>
    /\ Mod16(Seed + WordSum(cfg, CfgLen \div 2)) = 0
    /\ \A r \in DOMAIN Registers :
         /\ {WordAt(cfg, e + 2) : e \in EntriesOf(cfg, r)} = {Setting(r)}
         /\ \A d, e \in EntriesOf(cfg, r) : d = e
    /\ \A i \in 0..ChecksumOff - 1 :
         \/ cfg[i] = Template[i]
         \/ \E r \in DOMAIN Registers : \E e \in EntriesOf(cfg, r) : i \in {e + 2, e + 3}

\* An entry as the cell's last report makes it, if there was one.
FollowsLeft(entry, known) ==
  known # <<>> => entry = [low |-> 128, high |-> Low(Half(known[1]))]

FollowsTouch(entry, known) ==
  known # <<>> /\ Half(known[1]) + UpOffset < 256 =>
    LET raised == Half(known[1]) + UpOffset
    IN entry = [low |-> raised, high |-> IF known[2] THEN raised ELSE UpOffset - 2]

\* The sensor is armed with thresholds from the last valid reports: those of
\* a finger that left for the next touch, those of the touch, raised by this
\* sensor's delta, for the finger to leave; whatever reports came in between
\* and whichever cells they had; as long as base and delta fit a byte
\* (fdt_base_table_update_from_frame, gxfp_cmd_fdt_set_mode).
ThresholdsFollow ==
  sent.dir # "none" =>
    \A c \in Cells :
      /\ FollowsLeft(sent.manual[c], sent.left[c])
      /\ IF sent.dir = "down" THEN FollowsLeft(sent.table[c], sent.left[c])
                              ELSE FollowsTouch(sent.table[c], sent.touched[c])

\* The n-th sample from an offset, and where the sample of a pixel is.
SampleFrom(from, n) == Samples(Group(from + 6 * (n \div 4)))[(n % 4) + 1]

RowOf(pixel, cols) == pixel \div cols
ColOf(pixel, cols) == pixel % cols
Pitch(len, cols) == len \div cols

SampleOf(pixel) ==
  IF format.name = "chicagohNav"
  THEN SampleFrom(start, pixel)
  ELSE SampleFrom(start + ColOf(pixel, format.cols) * Pitch(format.len, format.cols),
                  RowOf(pixel, format.cols))

\* An image is taken for what it is, and every pixel is made of its own three
\* nibbles: a Milan column holds two rows more than are used, a ChicagoH
\* frame lies column by column or, for navigation, row by row
\* (gxfp_decode_auto_detect, gxfp_decode_milan, gxfp_decode_chicago).
PixelsPlaced ==
  /\ decStep # "detect" => format = image.f /\ start = image.head
  /\ decStep # "refused"
  /\ \A k \in DOMAIN placed :
       /\ placed[k].pixel \in 0..Total - 1
       /\ placed[k].nibbles = SampleOf(placed[k].pixel)

\* Lengths the buffer holds in whole blocks.
Blocks == {8 * k : k \in 0..TxBufferSize \div 8}

\* A command of up to 496 bytes is sent, in whole blocks the buffer holds and
\* under the next sequence number; the frame the MCU got out of it parses to
\* what was asked, and one whose head changed on the way is refused
\* (gxfp_goodix_send_async, gxfp_dev_send_packet, gxfp_mp_wrap,
\* gxfp_mp_check_head, gxfp_parse_goodix_body).
PacketsRoundTrip ==
  /\ pktStep = "tooLong" => asked.len > 496
  /\ pktStep \in {"wrapped", "written"} =>
       LET mpLen == Le16(packet.low, packet.high) IN
       /\ mpLen = asked.len + 8
       /\ packet.size \in Blocks /\ packet.size \in 8 + mpLen..TxBufferSize
       /\ Le16(packet.seqLow, packet.seqHigh) = Mod16(SeqStart + packets)
  /\ pktStep = "parsed" =>
       IF echo = mp
       THEN parsed = [valid |-> TRUE, cmd |-> asked.cmd, len |-> asked.len,
                      ok |-> TRUE]
       ELSE ~parsed.valid

=============================================================================
