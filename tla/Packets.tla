------------------------------ MODULE Packets ------------------------------
(***************************************************************************)
(* proto/goodix_proto.c, proto/mp_proto.c and the sending side of          *)
(* io/dev.c: a command becomes a goodix frame, the frame an MP frame, and  *)
(* that, wrapped and padded, one write to the character device.  The MCU   *)
(* (external) echoes the MP frame, perhaps with a byte of its head         *)
(* changed, and the host checks and parses it.                             *)
(*                                                                         *)
(* A payload is its length and the sum of its bytes; headers are bytes.    *)
(***************************************************************************)
EXTENDS Bytes

CONSTANTS
  Opcodes,      \* command bytes
  Lengths,      \* payload lengths a caller may ask for
  Sums,         \* sums of a payload's bytes, in eight bits
  SeqStart,     \* seq16 before the first packet
  MaxPackets    \* packets wrapped

PayloadMax == 65280
PayloadLengths == 0..PayloadMax

ASSUME PacketsAssumption ==
  /\ Opcodes \subseteq Byte /\ Sums \subseteq Byte
  /\ Lengths \subseteq PayloadLengths /\ SeqStart \in Word16 /\ MaxPackets \in Nat

VARIABLES
  asked,     \* the command to send: opcode, payload length and sum
  mp,        \* the MP frame: head and the goodix frame in it
  seq16,     \* gxfp_dev.seq16
  packet,    \* the bytes of the write: wrapper head, sequence number, length
  echo,      \* the MP frame the host receives
  parsed,    \* struct gxfp_frame_parsed
  packets,   \* packets wrapped so far
  pktStep

packetVars ==
  <<asked, mp, seq16, packet, echo, parsed, packets, pktStep>>

TypeCmd == 10
Types == {10, 11, 12}
TxBufferSize == 512
MaxPayload == TxBufferSize - 8 - 4
LenMax == 27648

-----------------------------------------------------------------------------
\* gxfp_goodix_proto_checksum and gxfp_goodix_build_frame.
ProtoChecksum(cmd, declLen, sum) ==
  Low(170 - (cmd + Low(declLen) + High(declLen) + sum))

Body(a) ==
  LET declLen == a.len + 1
  IN [cmd |-> a.cmd, low |-> Low(declLen), high |-> High(declLen),
      sum |-> a.sum, check |-> ProtoChecksum(a.cmd, declLen, a.sum)]
BodyLen(a) == 1 + 2 + a.len + 1

\* gxfp_mp_build.
HeadOf(type, len) ==
  LET flags == type * 16
  IN [flags |-> flags, low |-> Low(len), high |-> High(len),
      check |-> Low(flags + Low(len) + High(len))]

\* gxfp_mp_wrapped_len.
WrappedLen(len) == 8 + len + ((8 - (len % 8)) % 8)

\* gxfp_goodix_send_async and gxfp_dev_send_packet up to gxfp_mp_build.
Build ==
  /\ pktStep = "idle"
  /\ \E a \in [cmd : Opcodes, len : Lengths, sum : Sums] :
       /\ a.len = 0 => a.sum = 0
       /\ asked' = a
       /\ IF BodyLen(a) > MaxPayload
          THEN pktStep' = "tooLong" /\ UNCHANGED mp
          ELSE /\ pktStep' = "built"
               /\ mp' = [head |-> HeadOf(TypeCmd, BodyLen(a)), body |-> Body(a)]
  /\ UNCHANGED <<seq16, packet, echo, parsed, packets>>

\* gxfp_mp_wrap.  The length in the wrapper leaves the padding out.
NextSeq == Mod16(seq16 + 1)

Wrap ==
  /\ pktStep = "built" /\ packets < MaxPackets
  /\ LET mpLen == 4 + Le16(mp.head.low, mp.head.high) IN
     IF WrappedLen(mpLen) > TxBufferSize
     THEN pktStep' = "tooLong" /\ UNCHANGED <<seq16, packet, packets>>
     ELSE /\ seq16' = NextSeq
          /\ packet' = [magic |-> 240, low |-> Low(mpLen), high |-> High(mpLen),
                        check |-> Low(240 + Low(mpLen) + High(mpLen)),
                        seqLow |-> Low(seq16'), seqHigh |-> High(seq16'),
                        size |-> WrappedLen(mpLen)]
          /\ packets' = packets + 1
          /\ pktStep' = "wrapped"
  /\ UNCHANGED <<asked, mp, echo, parsed>>

\* The write of gxfp_dev_send_packet.
Write ==
  /\ pktStep = "wrapped"
  /\ pktStep' = "written"
  /\ UNCHANGED <<asked, mp, seq16, packet, echo, parsed, packets>>

\* The call ends: what it had on its stack is gone.
NoAsk == [cmd |-> 0, len |-> 0, sum |-> 0]
NoFrame == [head |-> HeadOf(0, 0), body |-> Body(NoAsk)]

Forget ==
  /\ asked' = NoAsk /\ mp' = NoFrame /\ packet' = <<>> /\ echo' = NoFrame
  /\ parsed' = [valid |-> FALSE] /\ pktStep' = "idle"
  /\ UNCHANGED <<seq16, packets>>

\* The write failed, or the command was too long.
SendFails == pktStep \in {"wrapped", "tooLong"} /\ Forget

-----------------------------------------------------------------------------
\* The MCU echoes the frame; a byte of the head may have changed.
Echo ==
  /\ pktStep = "written"
  /\ \/ echo' = mp
     \/ \E f \in {"flags", "low", "high", "check"}, v \in {0, 1, 160, 176, 255} :
          echo' = [mp EXCEPT !.head[f] = v]
  /\ pktStep' = "echoed"
  /\ UNCHANGED <<asked, mp, seq16, packet, parsed, packets>>

\* gxfp_mp_check_head, whose length bounds what is assembled.
TypeOf(flags) == flags \div 16

HeadUnsummed(h) ==
  TypeOf(h.flags) \in Types /\ Le16(h.low, h.high) < LenMax
HeadValid(h) ==
  /\ TypeOf(h.flags) \in Types
  /\ Le16(h.low, h.high) < LenMax
  /\ h.check = Low(h.flags + h.low + h.high)

\* gxfp_parse_goodix_body.  A wrong checksum is noted, and the frame valid.
Parse ==
  /\ pktStep = "echoed"
  /\ LET b == echo.body
         declLen == Le16(b.low, b.high)
     IN IF /\ HeadValid(echo.head)
           /\ declLen >= 1
           /\ 3 + (declLen - 1) + 1 <= Le16(echo.head.low, echo.head.high)
        THEN parsed' = [valid |-> TRUE, cmd |-> b.cmd, len |-> declLen - 1,
                        ok |-> b.check = ProtoChecksum(b.cmd, declLen, b.sum)]
        ELSE parsed' = [valid |-> FALSE]
  /\ pktStep' = "parsed"
  /\ UNCHANGED <<asked, mp, seq16, packet, echo, packets>>

Again == pktStep = "parsed" /\ Forget

PacketsInit ==
  /\ asked = NoAsk /\ mp = NoFrame /\ seq16 = SeqStart /\ packet = <<>>
  /\ echo = NoFrame /\ parsed = [valid |-> FALSE]
  /\ packets = 0 /\ pktStep = "idle"

PacketsNext ==
  Build \/ Wrap \/ Write \/ SendFails \/ Echo \/ Parse \/ Again

=============================================================================
