-------------------------------- MODULE Wallet --------------------------------
(***************************************************************************)
(* What the wallet of AI credits promises, whatever the webhooks do: the   *)
(* balance is never negative and never above the allocation of a plan; a   *)
(* spending is covered by the balance it is taken from; the balance rises  *)
(* only by a refill, or when a transaction that had read it earlier writes *)
(* back what it read.                                                      *)
(***************************************************************************)
EXTENDS Integers

CONSTANTS
    Plans,      \* the plans, FREE among them
    Allocated   \* AI credits a plan is given for a billing cycle

VARIABLES
    balance,    \* the credits left
    open        \* the balances that open transactions have read

wallet == <<balance, open>>

Init == balance = 0 /\ open = {}

Refill  == balance' \in {Allocated[p] : p \in Plans}
Spend   == \E n \in 1..balance : balance' = balance - n
Forfeit == balance' = 0
Restore == balance' \in open

(* A transaction reads the balance as it is, and forgets it when it ends.   *)
Reads == balance' = balance /\ open' \subseteq open \cup {balance}

Moves == (Refill \/ Spend \/ Forfeit \/ Restore) /\ open' \subseteq open

Next == Reads \/ Moves

Spec == Init /\ [][Next]_wallet
==============================================================================
