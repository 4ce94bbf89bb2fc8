----------------------------- MODULE TouchBases -----------------------------
(***************************************************************************)
(* The base tables of the touch flow (flow/fdt.c, cmd/fdt_cmd.c).  Every   *)
(* report of the sensor carries its measured bases; from those of a touch  *)
(* the driver computes the thresholds that tell when the finger leaves     *)
(* (the up table), from those of a finger that left the ones that tell of  *)
(* the next touch (the down table), and it arms the sensor with them.      *)
(***************************************************************************)
EXTENDS Bytes

CONSTANTS
  NumCells,  \* base entries of a report (ten on the real sensor)
  Bases,     \* the 16-bit values a cell may report
  Offsets,   \* up_dac_offset: the FDT delta computed from the OTP, or 0
  ByteOr(_, _)   \* C's | of two bytes

ASSUME BasesAssumption ==
  /\ NumCells \in Nat /\ Bases \subseteq Word16
  /\ Offsets \subseteq Nat \ {1}
ASSUME OrAssumption ==
  /\ \A a, b \in Byte : ByteOr(a, b) \in Byte
  /\ \A a \in Byte : ByteOr(a, 0) = a

Cells == 0..NumCells - 1

VARIABLES
  offset, upTable, downTable,   \* gxfp_cmd_fdt_state
  sent,      \* the last arming command and what its table is based on
  touched,   \* history: each cell's base and flag in the last down report
  left       \* history: each cell's base in the last up or reverse report

baseVars == <<offset, upTable, downTable, sent, touched, left>>

Half(raw) == raw \div 2
Entry(low, high) == [low |-> Low(low), high |-> Low(high)]

\* fdt_base_valid looks at eight bits of each half.
BaseValid(raws) ==
  raws # <<>> /\ \A c \in DOMAIN raws : Low(Half(raws[c])) \notin {0, 255}

\* fdt_downbase_from_raw, for one cell.
DownEntry(raw) == Entry(128, Half(raw))

\* fdt_upbase_from_raw, for one cell; second_flag and diff_use are 0, as the
\* driver sets them.  The arithmetic has 16 bits, so that a carry out of the
\* low byte is mixed into the high one.
UpOffset == IF offset = 0 THEN 21 ELSE offset

Encoded(raw) ==
  LET sum == Half(raw) + UpOffset
  IN Entry(sum, ByteOr(Low(sum), High(sum)))

\* A cell that is not touched is told by the other byte of its threshold; or
\* by the same.
UntouchedSame(raw) == Entry(offset - 2, Encoded(raw).low)
Untouched(raw) ==
  Entry(Encoded(raw).high, IF offset = 0 THEN 19 ELSE offset - 2)

UpEntry(raw, flag) == IF flag THEN Encoded(raw) ELSE Untouched(raw)

\* fdt_base_table_update_from_frame.  The cells come in order, and the last
\* ones may be missing; what the report has not is kept.
Reports == UNION {[0..n -> Bases] : n \in -1..NumCells - 1}

ReportDown ==
  /\ \E raws \in Reports, flags \in SUBSET Cells :
       /\ BaseValid(raws)
       /\ upTable' = [c \in Cells |-> IF c \in DOMAIN raws
                                      THEN UpEntry(raws[c], c \in flags)
                                      ELSE upTable[c]]
       /\ touched' = [c \in Cells |-> IF c \in DOMAIN raws
                                      THEN <<raws[c], c \in flags>>
                                      ELSE touched[c]]
  /\ UNCHANGED <<offset, downTable, sent, left>>

ReportLeft ==
  /\ \E raws \in Reports :
       /\ BaseValid(raws)
       /\ downTable' = [c \in Cells |-> IF c \in DOMAIN raws
                                        THEN DownEntry(raws[c])
                                        ELSE downTable[c]]
       /\ left' = [c \in Cells |-> IF c \in DOMAIN raws THEN <<raws[c]>>
                                   ELSE left[c]]
  /\ UNCHANGED <<offset, upTable, sent, touched>>

\* An invalid base changes no table.
ReportInvalid ==
  /\ \E raws \in Reports : ~BaseValid(raws)
  /\ UNCHANGED baseVars

\* gxfp_cmd_fdt_set_mode, which copies the down table to the manual one, then
\* gxfp_cmd_fdt_send_down or gxfp_cmd_fdt_send_up.
Manual == downTable

Arm(dir) ==
  /\ sent' = [dir |-> dir, manual |-> Manual,
              table |-> IF dir = "down" THEN downTable ELSE upTable,
              touched |-> touched, left |-> left]
  /\ UNCHANGED <<offset, upTable, downTable, touched, left>>

Unknown == [c \in Cells |-> <<>>]

BasesInit(offsets) ==
  /\ offset \in offsets
  /\ upTable = [c \in Cells |-> Entry(0, 0)]
  /\ downTable = [c \in Cells |-> Entry(0, 0)]
  /\ sent = [dir |-> "none"]
  /\ touched = Unknown /\ left = Unknown

BasesNext ==
  \/ ReportDown \/ ReportLeft \/ ReportInvalid
  \/ \E dir \in {"down", "up"} : Arm(dir)

=============================================================================
