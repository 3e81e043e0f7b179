-------------------------------- MODULE Outbox --------------------------------
(***************************************************************************)
(* What a submission node promises: it takes the approved offers in order, *)
(* clicks "send" at most once for each, reports only offers it clicked, up *)
(* to a limit, and hands over every offer it reported, whatever stops it.  *)
(***************************************************************************)
EXTENDS Naturals, Sequences, SequencesExt

CONSTANTS Queue, Limit   \* the approved offers, in order; worker_job_limit

VARIABLES
    turn,      \* the place in Queue of the offer being handled
    clicked,   \* the offers sent
    reported,  \* the offers reported as sent, in order
    open,      \* is the outbox still at work
    handed     \* what it handed over at its end

Init == turn \in 1..Len(Queue) + 1 /\ clicked = {} /\ reported = <<>> /\ open = TRUE /\ handed = <<>>

\* The current offer is sent: never one that was sent before.
Click ==
    /\ open  /\ turn <= Len(Queue)  /\ Queue[turn] \notin clicked
    /\ clicked' = clicked \union {Queue[turn]}
    /\ UNCHANGED <<turn, reported, open, handed>>

\* The current offer, sent and not reported yet, is reported.
Report ==
    /\ Len(reported) < Limit
    /\ Queue[turn] \in clicked \ ToSet(reported)
    /\ reported' = Append(reported, Queue[turn])

\* The current offer is left, reported or not.
PassOn ==
    /\ turn' = turn + 1
    /\ Report \/ UNCHANGED reported

Handle ==
    /\ open  /\ turn <= Len(Queue)
    /\ PassOn \/ (Report /\ UNCHANGED turn)
    /\ UNCHANGED <<clicked, open, handed>>

HandOver ==
    /\ open  /\ open' = FALSE  /\ handed' = reported
    /\ UNCHANGED <<turn, clicked, reported>>

Next == Click \/ Handle \/ HandOver

Spec == Init /\ [][Next]_<<turn, clicked, reported, open, handed>>
================================================================================
