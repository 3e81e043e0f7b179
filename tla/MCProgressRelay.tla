---------------------------- MODULE MCProgressRelay ----------------------------
(* Instances of ProgressRelay for TLC: a start and the resume of its search.  *)
EXTENDS ProgressRelay, TLC

CONSTANTS r1, r2, b1, b2

SameSearch == [r \in Runs |-> r1]
Works2     == (r1 :> {b1, b2}) @@ (r2 :> {b1})
Each       == (r1 :> (b1 :> 1 @@ b2 :> 1)) @@ (r2 :> (b1 :> 1 @@ b2 :> 0))
BothBoards == (r1 :> {b1, b2}) @@ (r2 :> {b1, b2})
Sendings   == (r1 :> (b1 :> 0 @@ b2 :> 0)) @@ (r2 :> (b1 :> 2 @@ b2 :> 1))
==============================================================================
