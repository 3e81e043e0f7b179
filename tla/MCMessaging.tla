------------------------------ MODULE MCMessaging ------------------------------
(* Instances of Messaging for TLC.                                           *)
EXTENDS Messaging, TLC

CONSTANTS u1, u2, j1, j2

Alike == Permutations(Users)
================================================================================
