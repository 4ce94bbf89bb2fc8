--------------------------- MODULE MCFrameAssembly ---------------------------
(* Frames of three, one, two, one and one records. *)
EXTENDS FrameAssemblyProps

FiveFrames ==
  << [part |-> 1, of |-> 3], [part |-> 2, of |-> 3], [part |-> 3, of |-> 3],
     [part |-> 1, of |-> 1],
     [part |-> 1, of |-> 2], [part |-> 2, of |-> 2],
     [part |-> 1, of |-> 1], [part |-> 1, of |-> 1] >>

=============================================================================
