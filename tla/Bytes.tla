------------------------------- MODULE Bytes -------------------------------
(***************************************************************************)
(* Bytes and 16-bit words, as the packets and the blob are made of them.   *)
(***************************************************************************)
EXTENDS Integers

Byte == 0..255
WordMax == 65535
Word16 == 0..WordMax

Low(n) == n % 256
High(n) == (n \div 256) % 256
Le16(low, high) == low + 256 * high

\* What is left of a number in a uint16_t.
Mod16(n) == n % 65536

=============================================================================
