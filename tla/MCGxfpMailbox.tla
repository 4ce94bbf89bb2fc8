--------------------------- MODULE MCGxfpMailbox ---------------------------
(* GxfpMailbox on two threads, for TLC. *)
EXTENDS GxfpMailboxProps, TLC

CONSTANTS t1, t2

TwoThreads == {t1, t2}
ThreadSymmetry == Permutations(TwoThreads)

=============================================================================
