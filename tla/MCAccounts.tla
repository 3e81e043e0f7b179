------------------------------ MODULE MCAccounts -------------------------------
(***************************************************************************)
(* Accounts and Personas on small instances. They share nothing, so each   *)
(* behaviour moves one of them and leaves the other as it starts.          *)
(***************************************************************************)
EXTENDS Accounts, Personas, TLC

CONSTANTS u1, a1, a2, p1, q1, q2, r1

VARIABLE which

holderVars == <<which, vars, personaVars>>

HolderInit ==
    /\ Init  /\ PersonasInit
    /\ \/ which = "account"  /\ mode = "pool"
       \/ which = "devices"

HolderNext ==
    \/ which = "account" /\ Next /\ UNCHANGED <<which, personaVars>>
    \/ which = "devices" /\ PersonasNext /\ UNCHANGED <<which, vars>>

HolderSpec == HolderInit /\ [][HolderNext]_holderVars

Alike == Permutations(Requests) \union Permutations(Addresses)
================================================================================
