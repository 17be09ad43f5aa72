----------------------------- MODULE MCHandlers -----------------------------
(***************************************************************************)
(* A finite instance of Handlers for TLC.                                  *)
(***************************************************************************)
EXTENDS Handlers

(* "/" and "/a", and requests that match both, one or none of them.        *)
TwoPaths == {<<1>>, <<1, 2>>}
SomeUrls == {<<1, 2, 3>>, <<1, 4>>, <<6>>}

=============================================================================
