-------------------------------- MODULE MCInput --------------------------------
(***************************************************************************)
(* Input and Pacing on small instances: what a board's worker touches, and *)
(* how long it waits. They share no state, so each behaviour moves one of  *)
(* them and leaves the other as it starts.                                 *)
(***************************************************************************)
EXTENDS Input, Pacing, TLC

CONSTANTS r1, r2, d1, d2

VARIABLE which

handVars == <<which, vars, pacingVars>>

HandInit ==
    /\ Init  /\ PacingInit
    /\ \/ which = "input"   /\ board = "hellowork"
       \/ which = "pacing"  /\ backend = "cdp"  /\ hasScreen = FALSE

HandNext ==
    \/ which = "input"   /\ Next        /\ UNCHANGED <<which, pacingVars>>
    \/ which = "pacing"  /\ PacingNext  /\ UNCHANGED <<which, vars>>

HandSpec == HandInit /\ [][HandNext]_handVars

\* Two searches and two display numbers that nothing tells apart.
Alike == Permutations({r1, r2}) \union Permutations({d1, d2})
================================================================================
