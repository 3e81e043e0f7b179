------------------------------- MODULE MCSubmit --------------------------------
(* Instances of Submit for TLC.                                              *)
EXTENDS Submit, TLC

CONSTANTS o1, o2, o3

Three == <<o1, o2, o3>>
================================================================================
