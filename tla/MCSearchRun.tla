----------------------------- MODULE MCSearchRun -----------------------------
(* Instances of SearchRun for TLC: two boards, and an offer or two on them.  *)
EXTENDS SearchRun, TLC

CONSTANTS o1, o2, o3, apec, wttj

(* Boards of the offers: one offer on each of two boards, two on one, two on *)
(* one and one on another, a single one.                                     *)
OneEach   == (o1 :> apec) @@ (o2 :> wttj)
BothOne   == (o1 :> apec) @@ (o2 :> apec)
TwoAndOne == (o1 :> apec) @@ (o2 :> apec) @@ (o3 :> wttj)
JustOne   == o1 :> apec
==============================================================================
