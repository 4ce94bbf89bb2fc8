---------------------------- MODULE ImageDecoder ----------------------------
(***************************************************************************)
(* algo/image/decoder.c: the sensor's format is told from the length of    *)
(* the image, which may have a header and a CRC around it, and its packed  *)
(* 12-bit samples, four in six bytes, are put in their places.             *)
(*                                                                         *)
(* The contents of the payload are opaque: a sample is the triple of       *)
(* nibbles it is made of, and a step of the loop records which samples it  *)
(* put where.                                                              *)
(***************************************************************************)
EXTENDS Integers, Sequences

\* The packed formats of gxfp_decode_auto_detect.
Formats ==
  { [name |-> "milangRaw",   len |-> 14784, rows |-> 54, cols |-> 176],
    [name |-> "milangNav",   len |-> 1344,  rows |-> 54, cols |-> 16],
    [name |-> "chicagohRaw", len |-> 7680,  rows |-> 64, cols |-> 80],
    [name |-> "chicagohNav", len |-> 2400,  rows |-> 64, cols |-> 25] }
Plain ==
  { [name |-> "chicagohRawU16", len |-> 10240, rows |-> 64, cols |-> 80],
    [name |-> "chicagohNavU16", len |-> 3200,  rows |-> 64, cols |-> 25] }

Milan == {"milangRaw", "milangNav"}

HeaderLen == 5
CrcLen == 4

VARIABLES
  image,     \* what was received: its format, header and CRC lengths
  format,    \* the format it is taken for
  start,     \* where its payload starts
  inPos, outPos,   \* in_i and out_i
  placed,    \* what the last step of the loop put: pixel to nibbles
  decStep

decoderVars == <<image, format, start, inPos, outPos, placed, decStep>>

\* gxfp_decode_auto_detect: how a length may be read.
Readings(len) ==
  {r \in [f : Formats \union Plain, head : {0, HeaderLen}, tail : {0, CrcLen}] :
     len = r.head + r.f.len + r.tail}

Detect ==
  /\ decStep = "detect"
  /\ \E r \in Readings(image.head + image.f.len + image.tail) :
       format' = r.f /\ start' = r.head
  /\ decStep' = IF format' \in Plain THEN "copied" ELSE "loop"
  /\ inPos' = 0 /\ outPos' = 0 /\ placed' = <<>>
  /\ UNCHANGED image

-----------------------------------------------------------------------------
\* unpack_sample4: nibbles <<byte, half>> of six bytes, most significant
\* first.
Samples(b) ==
  << << <<b[1], "low">>,  <<b[2], "high">>, <<b[2], "low">> >>,
     << <<b[4], "high">>, <<b[4], "low">>,  <<b[1], "high">> >>,
     << <<b[6], "low">>,  <<b[3], "high">>, <<b[3], "low">> >>,
     << <<b[5], "high">>, <<b[5], "low">>,  <<b[6], "high">> >> >>

Group(from) == [i \in 1..6 |-> from + i - 1]

\* gxfp_decode_milan first packs the columns together: of the stride's
\* bytes, which hold two more rows, it takes those of its own rows.
PackedLen(samples) == (samples * 3) \div 2

Stride == PackedLen(format.rows + 2)
TakeExact == PackedLen(format.rows)
Take == PackedLen(format.rows) + 1

Unpacked(pos, take, stride) == (pos \div take) * stride + (pos % take)
Source(pos) == start + Unpacked(pos, Take, Stride)

Total == format.rows * format.cols

\* Column-major to row-major.
RowIn(i, rows) == i % rows
Transposed(i, rows, cols) == RowIn(i, rows) * cols + (i \div rows)
Pixel(i) == Transposed(i, format.rows, format.cols)

MilanStep ==
  /\ decStep = "loop" /\ format.name \in Milan
  /\ outPos < Total /\ inPos < Take * format.cols
  /\ LET n == IF RowIn(outPos, format.rows) = format.rows - 2 THEN 2 ELSE 4
         samples == Samples([i \in 1..6 |-> Source(inPos + i - 1)])
     IN /\ placed' = [k \in 1..n |-> [pixel |-> Pixel(outPos + k - 1),
                                      nibbles |-> samples[k]]]
        /\ outPos' = outPos + n
        /\ inPos' = inPos + (IF n = 2 THEN 4 ELSE 6)
  /\ UNCHANGED <<image, format, start, decStep>>

\* gxfp_decode_chicago; a frame as long as a nav frame is not transposed.
Transposes == format.len # 2400

ChicagoStep ==
  /\ decStep = "loop" /\ format.name \notin Milan
  /\ inPos + 6 <= format.len
  /\ LET samples == Samples(Group(start + inPos))
     IN placed' = [k \in 1..4 |->
                     [pixel |-> IF Transposes THEN Pixel(outPos + k - 1)
                                              ELSE outPos + k - 1,
                      nibbles |-> samples[k]]]
  /\ outPos' = outPos + 4
  /\ inPos' = inPos + 6
  /\ UNCHANGED <<image, format, start, decStep>>

\* The loop ends; it must have come out even.
LoopEnds ==
  /\ decStep = "loop"
  /\ IF format.name \in Milan
     THEN outPos >= Total \/ inPos >= Take * format.cols
     ELSE inPos + 6 > format.len
  /\ decStep' = IF outPos = Total THEN "decoded" ELSE "refused"
  /\ placed' = <<>>
  /\ UNCHANGED <<image, format, start, inPos, outPos>>

NoFormat == [name |-> "none", len |-> 0, rows |-> 0, cols |-> 0]

Images ==
  [f : Formats \union Plain, head : {0, HeaderLen}, tail : {0, CrcLen}]

DecoderInit(images) ==
  /\ image \in images
  /\ format = NoFormat /\ start = 0 /\ inPos = 0 /\ outPos = 0
  /\ placed = <<>> /\ decStep = "detect"

DecoderNext == Detect \/ MilanStep \/ ChicagoStep \/ LoopEnds

=============================================================================
