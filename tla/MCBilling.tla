------------------------------ MODULE MCBilling ------------------------------
(* Instances of Billing for TLC: the plans scaled down to a few credits.      *)
EXTENDS Billing, TLC

CONSTANTS s1, s2

Credits == ("FREE" :> 0) @@ ("BASIC" :> 1) @@ ("PREMIUM" :> 2)
Grace   == ("FREE" :> 0) @@ ("BASIC" :> 0) @@ ("PREMIUM" :> 1)
==============================================================================
