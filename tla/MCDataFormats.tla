---------------------------- MODULE MCDataFormats ----------------------------
\* The configuration template of the source, and the inputs of the checks.
EXTENDS DataFormats, Bitwise

BitOr(a, b) == a | b

\* Calibration values: all of them, and boundary ones.
Wide == Byte
Edge == {0, 1, 15, 16, 127, 128, 240, 254, 255}

TemplateBytes ==
  <<  48,  17, 100, 117,   0, 117,  44, 161,  28, 189,  24, 213,   0, 213,   0, 213,
       0, 186,   0,   0, 128, 202,   0,   6,   0, 132,   0, 190, 178, 134,   0, 197,
     185, 136,   0, 181, 173, 138,   0, 157, 149, 140,   0,   0, 190, 142,   0,   0,
     197, 144,   0,   0, 181, 146,   0,   0, 157, 148,   0,   0, 175, 150,   0,   0,
     191, 152,   0,   0, 182, 154,   0,   0, 167, 210,   0,   0,   0, 212,   0,   0,
       0, 214,   0,   0,   0, 216,   0,   0,   0,  18,   0,   3,   4, 208,   0,   0,
       0, 112,   0,   0,   0, 114,   0, 120,  86, 116,   0,  52,  18,  32,   0,  16,
      64,  32,   2,   8,  16,  42,   1, 130,   3,  34,   0,   1,  32,  36,   0,  20,
       0, 128,   0,   1,   4,  92,   0,   0,   1,  86,   0,  12,  36,  88,   0,   5,
       0,  50,   0,   8,   2, 102,   0,   0,   2, 124,   0,   0,  56, 130,   0, 128,
      21,  42,   1,   8,   0,  92,   0, 128,   0,  84,   0,   0,   1,  98,   0,  56,
       4, 100,   0,  16,   0, 102,   0,   0,   2, 124,   0,   1,  56,  42,   1,   8,
       0,  92,   0, 128,   0,  82,   0,   8,   0,  84,   0,   0,   1, 102,   0,   0,
       2, 124,   0,   1,  56,   0,   0,   0,   0,   0,   0,   0,   0,   0,   0,   0 >>
TheTemplate == [i \in 0..CfgLen - 1 |-> TemplateBytes[i + 1]]

Stored(t, d) == [tcode |-> t, dac |-> d]

\* Undamaged, with any of the two; or with one copy changed.
Whole ==
  {[stored |-> Stored(t, d), copies |-> Copies(Stored(t, d)), crcHolds |-> TRUE] :
     t \in Wide, d \in Edge}
Damaged ==
  {[stored   |-> Stored(t, d),
    copies   |-> [Copies(Stored(t, d)) EXCEPT ![f] = x],
    crcHolds |-> f # "dacNeg" \/ x = d] :
     t \in Edge, d \in Edge, f \in DOMAIN Copies(Stored(0, 0)), x \in Edge}
TheOtps == Whole \union Damaged

\* The deltas of the template's and of the extreme calibrations; no OTP.
TheOffsets == {0, FdtDelta(240), FdtDelta(128), FdtDelta(47)}

=============================================================================
