-------------------------------- MODULE Submit ---------------------------------
(***************************************************************************)
(* The submission node of the three board workers (submit_applications):   *)
(* for each approved offer it opens the application form, fills it, clicks *)
(* the send button, waits for the board's confirmation, and pauses.        *)
(*                                                                         *)
(* The site is the environment: what loads, what raises, whether it took   *)
(* the application and what it shows of it.  A confirmation is shown only  *)
(* for an application the site took, an error badge only for one it did    *)
(* not.  HelloWork may show neither in time, and its worker then assumes   *)
(* success.                                                                *)
(***************************************************************************)
EXTENDS Integers, Sequences, SequencesExt

CONSTANTS
    Boards,      \* a subset of "apec", "hellowork", "wttj"
    Queue,       \* the board's approved offers, in the order they are taken
    WorkerLimit, \* worker_job_limit
    Tries,       \* 3: attempts to open a form
    MaxMissed    \* bound: kill reads that fail after the kill

ASSUME SubmitAssumption ==
    /\ Boards \subseteq {"apec", "hellowork", "wttj"}
    /\ Queue \in Seq(ToSet(Queue))  /\ IsInjective(Queue)
    /\ {WorkerLimit, MaxMissed} \subseteq Nat  /\ Tries \in Nat \ {0}

VARIABLES
    board,      \* whose worker this is
    at,         \* where the node is
    turn,       \* the place in Queue of the offer in hand
    tries,      \* attempts to open its form that failed
    clicks,     \* history: clicks on the send button, by offer
    answer,     \* what the site made of them: "none", "taken" or "refused"
    successful, \* successful_submissions
    result,     \* submitted_offers, as returned
    outcome,    \* how the node returned
    paced,      \* has the node paused since the last click
    killed,     \* the user stopped the search
    late,       \* history: clicks since that happened
    missed      \* history: kill reads that failed since

vars == <<board, at, turn, tries, clicks, answer, successful, result, outcome, paced,
          killed, late, missed>>

Offers == ToSet(Queue)
offer  == Queue[turn]

Init ==
    /\ board \in Boards
    /\ at = "start"  /\ turn \in 1..Len(Queue) + 1  /\ tries = 0
    /\ clicks = [o \in Offers |-> 0]  /\ answer = [o \in Offers |-> "none"]
    /\ successful = <<>>  /\ result = <<>>  /\ outcome = "none"
    /\ paced = TRUE  /\ killed = FALSE  /\ late = 0  /\ missed = 0

-----------------------------------------------------------------------------
(* Leaving the loop.                                                       *)

Return(how) ==
    /\ at' = "done"  /\ outcome' = how  /\ result' = successful
    /\ UNCHANGED <<board, turn, tries, clicks, answer, successful, paced, killed, late>>

\* A stop the user asked for hands over what was sent before it.
HaltedWithNothing ==
    /\ at' = "done"  /\ outcome' = "AGENT_STOPPED"  /\ result' = <<>>
    /\ UNCHANGED <<board, turn, tries, clicks, answer, successful, paced, killed, late>>
Halted == Return("AGENT_STOPPED")

Finished == Return(IF successful = <<>> THEN "SUBMISSION_FAILED" ELSE "submitted")

\* The worker's own approved offers: Queue from `turn` on, perhaps none.
Start ==
    /\ at = "start"  /\ UNCHANGED missed
    /\ IF turn > Len(Queue)
       THEN Return("nothing to submit")
       ELSE /\ at' = "loop"
            /\ UNCHANGED <<board, turn, tries, clicks, answer, successful, result, outcome,
                          paced, killed, late>>

-----------------------------------------------------------------------------
(* One offer.                                                              *)

\* The kill switch is read before every offer.  A read that fails counts as
\* "not killed".
GoesOn ==
    \/ ~killed  /\ UNCHANGED missed
    \/ killed  /\ missed < MaxMissed  /\ missed' = missed + 1

Turn ==
    /\ at = "loop"  /\ turn <= Len(Queue)
    /\ \/ killed  /\ Halted  /\ UNCHANGED missed
       \/ GoesOn  /\ Len(successful) >= WorkerLimit  /\ Finished
       \/ /\ GoesOn  /\ Len(successful) < WorkerLimit
          /\ at' = "form"  /\ tries' = 0
          /\ UNCHANGED <<board, turn, clicks, answer, successful, result, outcome, paced, killed, late>>

\* `continue`: on to the next offer at once, without the pause.
Skip == at' = "loop"  /\ turn' = turn + 1

\* The form is one unit that is tried again; the send button is not in it.
FormFails ==
    /\ at = "form"
    /\ IF tries + 1 < Tries
       THEN tries' = tries + 1  /\ UNCHANGED <<at, turn>>
       ELSE tries' = 0  /\ Skip
    /\ UNCHANGED <<board, clicks, answer, successful, result, outcome,
                  paced, killed, late, missed>>

\* The form is filled, or something in it raises, or no send button shows: the
\* offer is left to the pause.  Optional parts that fail are passed over.
Fill ==
    /\ at = "form"
    /\ at' \in {"send", "pause"}  /\ tries' = 0
    /\ UNCHANGED <<board, turn, clicks, answer, successful, result, outcome,
                  paced, killed, late, missed>>

\* The click may raise after the site has taken the application.
Click ==
    /\ at = "send"
    /\ clicks' = [clicks EXCEPT ![offer] = @ + 1]
    /\ \E a \in {"none", "taken", "refused"} :
           answer' = [answer EXCEPT ![offer] = IF @ = "taken" THEN @ ELSE a]
    /\ at' \in {"confirm", "pause"}
    /\ paced' = FALSE
    /\ late' = IF killed THEN late + 1 ELSE late
    /\ UNCHANGED <<board, turn, tries, successful, result, outcome, killed, missed>>

-----------------------------------------------------------------------------
(* The confirmation.  No click is repeated.                                *)

Report ==
    /\ successful' = Append(successful, offer)
    /\ UNCHANGED <<board, tries, clicks, answer, result, outcome, paced, killed, late, missed>>

Unreported ==
    UNCHANGED <<board, tries, clicks, answer, successful, result, outcome,
                  paced, killed, late, missed>>

\* No confirmation in 45 seconds (APEC, WTTJ): `continue`.
UnconfirmedAgain == at' = "form"  /\ UNCHANGED turn  /\ Unreported
Unconfirmed == Skip  /\ Unreported

ApecConfirm ==
    \/ answer[offer] = "taken"  /\ Report  /\ at' = "pause"  /\ UNCHANGED turn
    \/ Unconfirmed

\* HelloWork: only an error badge that shows in time stops the offer from being
\* counted; no notification at all counts as success.
HelloWorkConfirm ==
    \/ answer[offer] = "refused"  /\ Skip  /\ Unreported
    \/ Report  /\ at' = "pause"  /\ UNCHANGED turn

\* WTTJ: the progress frame names a variable that does not exist.  The offer is
\* counted first, then the NameError is taken for a missing confirmation.
WttjConfirm ==
    \/ answer[offer] = "taken"  /\ Report  /\ Skip
    \/ Unconfirmed

Confirm ==
    /\ at = "confirm"
    /\ \/ board = "apec"  /\ ApecConfirm
       \/ board = "hellowork"  /\ HelloWorkConfirm
       \/ board = "wttj"  /\ WttjConfirm

\* The pause between two applications ends the turn.
Pause ==
    /\ at = "pause"
    /\ paced' = TRUE  /\ Skip
    /\ UNCHANGED <<board, tries, clicks, answer, successful, result, outcome, killed, late, missed>>

LoopEnds == at = "loop"  /\ turn > Len(Queue)  /\ Finished  /\ UNCHANGED missed

Kill ==
    /\ at # "done"  /\ ~killed  /\ killed' = TRUE
    /\ UNCHANGED <<board, at, turn, tries, clicks, answer, successful, result, outcome, paced, late, missed>>

Node == Start \/ Turn \/ FormFails \/ Fill \/ Click \/ Confirm \/ Pause \/ LoopEnds
Next == Node \/ Kill

\* The node is a coroutine with a timeout on every wait: it goes on.
Spec == Init /\ [][Next]_vars /\ WF_vars(Node)

-----------------------------------------------------------------------------
(* Properties.                                                             *)

TypeOK ==
    /\ board \in Boards  /\ turn \in 1..Len(Queue) + 1  /\ tries \in 0..Tries - 1
    /\ at \in {"start", "loop", "form", "send", "confirm", "pause", "done"}
    /\ clicks \in [Offers -> Nat]
    /\ answer \in [Offers -> {"none", "taken", "refused"}]
    /\ successful \in Seq(Offers)  /\ result \in Seq(Offers)
    /\ outcome \in {"none", "nothing to submit", "AGENT_STOPPED", "SUBMISSION_FAILED",
                    "submitted"}
    /\ paced \in BOOLEAN  /\ killed \in BOOLEAN
    /\ late \in Nat  /\ missed \in 0..MaxMissed

\* "NO retry (duplicate submission risk)": whatever raises, and however often a
\* form is opened again, no offer's send button is clicked twice.
OneClickPerOffer == \A o \in Offers : clicks[o] <= 1

\* A worker that learns it is killed between two offers sends nothing more: the
\* offer in hand is the only one that can still go out, and one more for each
\* read of the kill switch that failed.
KillStopsSubmissions == late <= 1 + missed

\* APEC and Welcome to the Jungle report an offer only if the site took it;
\* HelloWork's worker takes silence for success and is left out.
ReportedWasTaken ==
    board # "hellowork" => \A i \in DOMAIN successful : answer[successful[i]] = "taken"

\* The node is an outbox: offers in order, clicked before they are reported and
\* at most once, no more reported than the limit, and every reported offer
\* handed over, a stop by the user included.
Promise == INSTANCE Outbox WITH Limit <- WorkerLimit, reported <- successful,
               open <- at # "done",
               clicked <- {o \in Offers : clicks[o] > 0}, handed <- result
OutboxSpec == Promise!Spec

\* "Nobody fires off applications back to back": the pause is "the ONLY thing
\* pacing this loop", so the worker pauses between an application that went out
\* and the next click on a send button.
ApplicationsArePaced ==
    [][clicks' # clicks /\ turn > 1 /\ Queue[turn - 1] \in ToSet(successful) => paced]_vars
================================================================================
