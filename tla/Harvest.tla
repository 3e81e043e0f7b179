-------------------------------- MODULE Harvest --------------------------------
(***************************************************************************)
(* What a scrape promises: it keeps new offers one at a time, up to a      *)
(* limit and none twice, and hands over all it kept, or nothing.           *)
(***************************************************************************)
EXTENDS Naturals, Sequences, SequencesExt

CONSTANT Limit

VARIABLES kept, open, handed

Init == kept = <<>> /\ open = TRUE /\ handed = <<>>

Keep ==
    /\ open  /\ Len(kept) < Limit
    /\ Len(kept') = Len(kept) + 1  /\ Front(kept') = kept
    /\ Last(kept') \notin ToSet(kept)
    /\ UNCHANGED <<open, handed>>

HandOver ==
    /\ open  /\ open' = FALSE
    /\ handed' \in {kept, <<>>}
    /\ UNCHANGED kept

Next == Keep \/ HandOver

Spec == Init /\ [][Next]_<<kept, open, handed>>
================================================================================
