--------------------------- MODULE MCRequestPool ---------------------------
(***************************************************************************)
(* Finite instances of RequestPool for TLC.                                *)
(***************************************************************************)
EXTENDS RequestPool, TLC

(* Frames and descriptors are interchangeable: nothing orders them.        *)
FrameFdSymmetry == Permutations(Frames) \cup Permutations(Fds)

=============================================================================
