---------------------------- MODULE SensorConfig ----------------------------
(***************************************************************************)
(* algo/sensor_cfg.c: from the sensor's OTP memory to the configuration    *)
(* blob that is uploaded.  The OTP holds two calibration values, TCODE and *)
(* DAC, three copies of each; the blob is a table of register settings in  *)
(* sections, closed by a checksum of its 16-bit words.                     *)
(*                                                                         *)
(* Bytes are numbers; the blob is a function from offsets to bytes.  Of    *)
(* the OTP's own checksums only the one that covers a copy matters: a CRC  *)
(* over the DAC's third copy.                                              *)
(***************************************************************************)
EXTENDS Bytes

CONSTANTS
  Template,   \* gxfp_milang_cfg_template
  Otps        \* what may be read: [stored, copies, crcHolds]

CfgLen == 224
ChecksumOff == CfgLen - 2
Registers == [dac |-> 544, tcode |-> 92, fdt |-> 130]
SectionOf == [dac |-> 0, tcode |-> 4, fdt |-> 2]

\* Of the three copies of each value one may be damaged.
Complement(b) == 255 - b

Copies(stored) ==
  [tcode |-> stored.tcode, tcodeNeg |-> Complement(stored.tcode),
   tcodeAlt |-> stored.tcode,
   dac |-> stored.dac, dacBak |-> Complement(stored.dac),
   dacNeg |-> stored.dac]

ASSUME OtpsAssumption ==
  \A o \in Otps :
    /\ o.stored \in [tcode : Byte, dac : Byte]
    /\ o.crcHolds \in BOOLEAN
    /\ \E f \in DOMAIN Copies(o.stored) :
         /\ o.copies[f] \in Byte
         /\ o.copies = [Copies(o.stored) EXCEPT ![f] = o.copies[f]]

VARIABLES
  otp,      \* the OTP as read
  cal,      \* struct gxfp_milang_otp_cfg
  cfg,      \* the blob
  cfgStep   \* where gxfp_apply_milang_cfg is with them

configVars == <<otp, cal, cfg, cfgStep>>

-----------------------------------------------------------------------------
\* gxfp_milang_check_otp: two copies that agree are believed.

None == 0

\* In the order of the code: a value, its complement, its repetition.
TrustFirst(a, neg, b) == IF a # 0 THEN a ELSE b
Vote(a, neg, b) ==
  CASE a # 0 /\ a = Complement(neg) -> a
    [] a # 0 /\ a = b -> a
    [] b # 0 /\ b = Complement(neg) -> b
    [] OTHER -> None

VotedTcode == Vote(otp.copies.tcode, otp.copies.tcodeNeg, otp.copies.tcodeAlt)
VotedDac == Vote(otp.copies.dacNeg, otp.copies.dacBak, otp.copies.dac)

\* gxfp_milang_parse_otp, in 16 bits.
Tcode(t) == ((t \div 16) + 1) * 16
ToDelta(n) == Mod16(n) \div (3 * 16)
FdtDelta(t) == ToDelta((((t % 16) + 2) * 25600) \div Tcode(t))
Dac(d) == d * 16 + 8      \* or 8: the low bits of d * 16 are clear

-----------------------------------------------------------------------------
\* The blob.

WordAt(c, off) == Le16(c[off], c[off + 1])

WordSum(c, words) ==
  LET Sum[n \in 0..CfgLen \div 2] ==
        IF n = 0 THEN 0 ELSE Sum[n - 1] + WordAt(c, 2 * (n - 1))
  IN Sum[words]

\* gxfp_cfg_recalc_checksum: the negated sum, from a seed, in 16 bits.
Seed == 42405

WithChecksum(c) ==
  LET sum == Mod16(-(Seed + WordSum(c, ChecksumOff \div 2)))
  IN [c EXCEPT ![ChecksumOff] = Low(sum), ![ChecksumOff + 1] = High(sum)]

\* The entries of a section, of four bytes each: register and value.
Entries(c, s) ==
  LET start == c[1 + 2 * s]
  IN {e \in start..start + c[2 + 2 * s] - 1 : (e - start) % 4 = 0}

EntriesOf(c, r) == {e \in Entries(c, SectionOf[r]) : WordAt(c, e) = Registers[r]}

\* The source's table: whole entries between its header and its checksum, and
\* each of the three registers once in its section.
ASSUME TemplateAssumption ==
  /\ Template \in [0..CfgLen - 1 -> Byte]
  /\ \A r \in DOMAIN Registers :
       LET start == Template[1 + 2 * SectionOf[r]]
       IN /\ start >= 17 /\ start % 4 = 1
          /\ start + Template[2 + 2 * SectionOf[r]] < ChecksumOff
          /\ \E e \in 0..CfgLen - 1 : EntriesOf(Template, r) = {e}
  /\ \A e \in EntriesOf(Template, "fdt") : Template[e + 2] = 128

\* gxfp_cfg_patch_reg sets the first entry of the register, and the checksum;
\* or the checksum of what the blob was.
StaleChecksum(c, e, low, high) ==
  [WithChecksum(c) EXCEPT ![e + 2] = low, ![e + 3] = high]
SetEntry(c, e, low, high) ==
  WithChecksum([c EXCEPT ![e + 2] = low, ![e + 3] = high])

PatchReg(r, val, keepsLow, next) ==
  LET found == EntriesOf(cfg, r)
      e == CHOOSE x \in found : \A y \in found : x <= y
  IN IF found = {}
     THEN cfgStep' = "refused" /\ UNCHANGED cfg
     ELSE /\ cfg' = SetEntry(cfg, e, IF keepsLow THEN cfg[e + 2] ELSE Low(val),
                             High(val))
          /\ cfgStep' = next

-----------------------------------------------------------------------------
\* gxfp_apply_milang_cfg, the part between gxfp_cmd_read_otp and the upload.

ParseOtp ==
  /\ cfgStep = "read"
  /\ IF otp.crcHolds /\ VotedTcode # None /\ VotedDac # None
     THEN /\ cal' = [tcode |-> Tcode(VotedTcode), dac |-> Dac(VotedDac),
                     delta |-> FdtDelta(VotedTcode)]
          /\ cfgStep' = "dac"
     ELSE UNCHANGED cal /\ cfgStep' = "refused"
  /\ cfg' = Template
  /\ UNCHANGED otp

\* gxfp_milang_apply_otp_patch.
Patch ==
  /\ \/ cfgStep = "dac" /\ PatchReg("dac", cal.dac, FALSE, "tcode")
     \/ cfgStep = "tcode" /\ PatchReg("tcode", cal.tcode, FALSE, "fdt")
     \/ cfgStep = "fdt" /\ PatchReg("fdt", Mod16(cal.delta * 256), TRUE, "ready")
  /\ UNCHANGED <<otp, cal>>

NoCal == [tcode |-> 0, dac |-> 0, delta |-> 0]

ConfigInit(readings) ==
  /\ otp \in readings /\ cal = NoCal /\ cfg = Template /\ cfgStep = "read"

ConfigNext == ParseOtp \/ Patch

=============================================================================
