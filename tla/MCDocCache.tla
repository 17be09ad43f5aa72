----------------------------- MODULE MCDocCache -----------------------------
(***************************************************************************)
(* Finite instances of DocCache for TLC: two document graphs.              *)
(***************************************************************************)
EXTENDS DocCache, TLC

CONSTANTS datum, left, right, whole, page, other, part, path1, path2

(* A diamond over one datum: whole is made of left and right, both of it.  *)
DiamondDocs  == {datum, left, right, whole}
DiamondKind  == [d \in DiamondDocs |-> IF d = datum THEN "datum" ELSE "chain"]
DiamondIngr  == datum :> <<>> @@ left :> <<datum>> @@ right :> <<datum>>
                @@ whole :> <<left, right>>
DiamondPath0 == [d \in DiamondDocs |-> NULL]

(* Two files and a chain over the first.                                   *)
FileDocs  == {page, other, part}
FileKind  == [d \in FileDocs |-> IF d = part THEN "chain" ELSE "file"]
FileIngr  == page :> <<>> @@ other :> <<>> @@ part :> <<page>>
FilePath0 == page :> path1 @@ other :> path2 @@ part :> NULL

=============================================================================
