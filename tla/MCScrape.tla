------------------------------- MODULE MCScrape --------------------------------
(* Instances of Scrape for TLC: a posting and its repost, and one external.   *)
EXTENDS Scrape, TLC

CONSTANTS p1, p2, p3, k1, k2

Reposts == (p1 :> k1) @@ (p2 :> k1) @@ (p3 :> k2)
================================================================================
