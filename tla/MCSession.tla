------------------------------ MODULE MCSession ------------------------------
(***************************************************************************)
(* Finite instances of Session, and of KeyValue below it, for TLC.         *)
(***************************************************************************)
EXTENDS Session, TLC

(* Sound: all properties of the run speak of states and single steps, and  *)
(* name no thread, browser or cookie.                                      *)
Symmetry == Permutations(Threads) \cup Permutations(Browsers)
            \cup Permutations(Uuids)

=============================================================================
