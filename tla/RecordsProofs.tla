----------------------------- MODULE RecordsProofs -----------------------------
(***************************************************************************)
(* Theorems about what becomes of an application and of every other row:   *)
(* the submitting pass that clicks and reports (Submit), for any boards,   *)
(* queue, limit and number of attempts, and the two stores that keep the   *)
(* rows (Stores), for any people, keys, boards, clock and bounds.  They    *)
(* share no state and no theorem: each part speaks of its own              *)
(* specification only.                                                     *)
(***************************************************************************)
EXTENDS Submit, Stores, FiniteSetTheorems, WellFoundedInduction, TLAPS

-------------------------------------------------------------------------------
(* Part 1: Submit. *)

(***************************************************************************)
(* The inductive invariant.                                                *)
(***************************************************************************)

InHand == at \in {"form", "send", "confirm", "pause"}

\* Offers the node has not come to, the one in hand before its click included.
Ahead(i) == i > turn \/ (i = turn /\ at \in {"start", "loop", "form", "send"})

\* What was clicked lies behind, once each; what was reported was clicked; the
\* offer whose confirmation is awaited is clicked and not reported yet.
ClickedInOrder ==
    /\ InHand => turn <= Len(Queue)
    /\ \A i \in DOMAIN Queue : Ahead(i) => clicks[Queue[i]] = 0
    /\ \A o \in Offers : clicks[o] <= 1
    /\ \A i \in DOMAIN successful : clicks[successful[i]] > 0
    /\ at = "confirm" => clicks[offer] > 0  /\ offer \notin ToSet(successful)

WithinLimit == at \in {"form", "send", "confirm"} => Len(successful) < WorkerLimit
NotHandedYet == at # "done" => result = <<>>

SInv == TypeOK /\ ClickedInOrder /\ WithinLimit /\ NotHandedYet

-----------------------------------------------------------------------------
(* Lemmas on sequences and on the queue.                                   *)

\* Reporting one more offer puts it at the end and keeps the others in place.
LEMMA AppendIs ==
    ASSUME NEW S, NEW s \in Seq(S), NEW x \in S
    PROVE  /\ Append(s, x) \in Seq(S)  /\ Len(Append(s, x)) = Len(s) + 1
           /\ Append(s, x)[Len(s) + 1] = x
           /\ \A i \in 1..Len(s) : Append(s, x)[i] = s[i]
           /\ Append(s, x) # s
OBVIOUS

\* The approved offers form a finite sequence.
LEMMA QueueLength ==
    Len(Queue) \in Nat /\ DOMAIN Queue = 1..Len(Queue)
BY SubmitAssumption

\* The offers are its members.
LEMMA QueueMembers ==
    /\ \A i \in DOMAIN Queue : Queue[i] \in Offers
    /\ \A o \in Offers : \E i \in DOMAIN Queue : o = Queue[i]
BY DEF Offers, ToSet

\* No offer is in it twice.
LEMMA QueueDistinct ==
    ASSUME NEW i \in DOMAIN Queue, NEW j \in DOMAIN Queue, Queue[i] = Queue[j] PROVE i = j
BY SubmitAssumption DEF IsInjective

\* The place in the queue, in plain numbers.
LEMMA Places ==
    ASSUME TypeOK
    PROVE  /\ turn \in Nat  /\ turn >= 1  /\ turn <= Len(Queue) + 1
           /\ Len(Queue) \in Nat
<1>1. turn \in 1..Len(Queue) + 1
  BY DEF TypeOK
<1> QED
  BY <1>1, QueueLength

LEMMA OfferInHand ==
    ASSUME TypeOK, turn <= Len(Queue) PROVE offer \in Offers /\ turn \in DOMAIN Queue
<1>1. turn \in DOMAIN Queue
  BY QueueLength, Places
<1> QED
  BY <1>1, QueueMembers DEF offer

\* The counts of clicks and the list of reports have their types.
LEMMA Counts ==
    ASSUME TypeOK
    PROVE  /\ clicks \in [Offers -> Nat]
           /\ successful \in Seq(Offers)  /\ Len(successful) \in Nat
           /\ DOMAIN successful = 1..Len(successful)
           /\ \A i \in DOMAIN successful : successful[i] \in Offers
<1>1. clicks \in [Offers -> Nat] /\ successful \in Seq(Offers)
  BY DEF TypeOK
<1> QED
  BY <1>1

LEMMA MembersOfReported ==
    ASSUME TypeOK, NEW o
    PROVE  o \in ToSet(successful) <=> \E i \in DOMAIN successful : successful[i] = o
BY DEF TypeOK, ToSet

-----------------------------------------------------------------------------
(* Type correctness and the invariant.                                     *)

LEMMA InitSInv == Init => SInv
<1> SUFFICES ASSUME Init PROVE SInv
  OBVIOUS
<1>1. TypeOK
  <2>1. turn \in 1..Len(Queue) + 1
    BY DEF Init
  <2>2. /\ clicks \in [Offers -> Nat]  /\ answer \in [Offers -> {"none", "taken", "refused"}]
        /\ successful \in Seq(Offers)  /\ result \in Seq(Offers)
    BY DEF Init
  <2>3. tries \in 0..Tries - 1 /\ missed \in 0..MaxMissed
    BY SubmitAssumption DEF Init
  <2> QED
    BY <2>1, <2>2, <2>3 DEF Init, TypeOK
<1>2. ClickedInOrder
  <2>1. \A i \in DOMAIN Queue : clicks[Queue[i]] = 0
    BY QueueMembers DEF Init
  <2> QED
    BY <2>1 DEF Init, ClickedInOrder, InHand
<1>3. WithinLimit /\ NotHandedYet
  BY DEF Init, WithinLimit, NotHandedYet
<1> QED
  BY <1>1, <1>2, <1>3 DEF SInv

\* Leaving the loop changes nothing about what was clicked.
LEMMA ReturnSInv ==
    ASSUME SInv, missed' \in 0..MaxMissed, at # "done",
           NEW how \in {"nothing to submit", "AGENT_STOPPED", "SUBMISSION_FAILED", "submitted"},
           Return(how)
    PROVE  SInv'
<1>1. TypeOK'
  BY DEF SInv, TypeOK, Return
<1>2. ClickedInOrder'
  BY DEF SInv, TypeOK, ClickedInOrder, InHand, Ahead, Return
<1>3. WithinLimit' /\ NotHandedYet'
  BY DEF WithinLimit, NotHandedYet, Return
<1> QED
  BY <1>1, <1>2, <1>3 DEF SInv

\* Leaving the offer in hand: the next ones are still untouched.
LEMMA SkipSInv ==
    ASSUME SInv, InHand, Skip, tries' \in 0..Tries - 1,
           paced' \in BOOLEAN, UNCHANGED <<board, clicks, answer, successful, result, outcome,
                                          killed, late, missed>>
    PROVE  SInv'
<1>1. TypeOK' /\ turn' = turn + 1 /\ at' = "loop"
  <2>1. turn' \in 1..Len(Queue) + 1
    BY Places DEF SInv, ClickedInOrder, Skip
  <2> QED
    BY <2>1 DEF SInv, TypeOK, Skip
<1>2. ClickedInOrder'
  <2>1. \A i \in DOMAIN Queue : Ahead(i)' => Ahead(i)
    BY <1>1, Places, QueueLength DEF SInv, Ahead
  <2> QED
    BY <1>1, <2>1 DEF SInv, ClickedInOrder, InHand
<1>3. WithinLimit' /\ NotHandedYet'
  BY <1>1 DEF SInv, WithinLimit, NotHandedYet, InHand
<1> QED
  BY <1>1, <1>2, <1>3 DEF SInv

\* Reporting the offer in hand, which was clicked and not reported, and going to
\* the pause (apec, hellowork) or on to the next offer (wttj).
LEMMA ReportSInv ==
    ASSUME SInv, at = "confirm", Report,
           (at' = "pause" /\ UNCHANGED turn) \/ Skip
    PROVE  SInv'
<1>1. offer \in Offers /\ turn \in DOMAIN Queue
  BY OfferInHand DEF SInv, ClickedInOrder, InHand
<1>2. /\ successful' \in Seq(Offers)  /\ Len(successful') = Len(successful) + 1
      /\ successful'[Len(successful) + 1] = offer
      /\ \A i \in DOMAIN successful : successful'[i] = successful[i]
  BY <1>1, Counts, AppendIs DEF SInv, Report
<1>3. TypeOK'
  <2>1. turn' \in 1..Len(Queue) + 1
    BY <1>1, Places, QueueLength DEF SInv, Skip
  <2> QED
    BY <1>2, <2>1 DEF SInv, TypeOK, Report, Skip
<1>4. ClickedInOrder'
  <2>1. (InHand => turn <= Len(Queue))'
    BY <1>1, QueueLength DEF InHand, Skip
  <2>2. \A i \in DOMAIN Queue : Ahead(i)' => clicks'[Queue[i]] = 0
    <3>1. \A i \in DOMAIN Queue : Ahead(i)' => Ahead(i)
      BY Places, QueueLength DEF SInv, Ahead, Skip
    <3> QED
      BY <3>1 DEF SInv, ClickedInOrder, Report
  <2>3. \A i \in 1..Len(successful') : clicks'[successful'[i]] > 0
    <3> SUFFICES ASSUME NEW i \in 1..Len(successful') PROVE clicks'[successful'[i]] > 0
      OBVIOUS
    <3>1. clicks' = clicks /\ Len(successful) \in Nat
      BY Counts DEF SInv, Report
    <3>2. CASE i <= Len(successful)
      <4>1. i \in DOMAIN successful
        BY <1>2, <3>1, <3>2, Counts DEF SInv
      <4> QED
        BY <1>2, <3>1, <4>1 DEF SInv, ClickedInOrder
    <3>3. CASE i = Len(successful) + 1
      BY <1>2, <3>1, <3>3 DEF SInv, ClickedInOrder
    <3> QED
      BY <1>2, <3>1, <3>2, <3>3
  <2> QED
    BY <2>1, <2>2, <2>3 DEF SInv, ClickedInOrder, Report, Skip
<1>5. WithinLimit' /\ NotHandedYet'
  BY DEF SInv, WithinLimit, NotHandedYet, Report, Skip
<1> QED
  BY <1>3, <1>4, <1>5 DEF SInv

LEMMA TurnSInv ==
    ASSUME SInv, Turn PROVE SInv'
<1>1. missed' \in 0..MaxMissed
  <2>1. missed \in 0..MaxMissed /\ MaxMissed \in Nat
    BY SubmitAssumption DEF SInv, TypeOK
  <2>2. UNCHANGED missed \/ GoesOn
    BY DEF Turn
  <2> QED
    BY <2>1, <2>2 DEF GoesOn
<1>2. CASE Halted
  BY <1>1, <1>2, ReturnSInv DEF Turn, Halted
<1>3. CASE Finished
  BY <1>1, <1>3, ReturnSInv DEF Turn, Finished
<1>4. CASE /\ GoesOn /\ Len(successful) < WorkerLimit /\ at' = "form" /\ tries' = 0
           /\ UNCHANGED <<board, turn, clicks, answer, successful, result, outcome,
                          paced, killed, late>>
  <2>1. TypeOK'
    <3>1. tries' \in 0..Tries - 1
      BY <1>4, SubmitAssumption
    <3> QED
      BY <1>1, <1>4, <3>1 DEF SInv, TypeOK
  <2>2. ClickedInOrder'
    BY <1>4 DEF SInv, TypeOK, ClickedInOrder, InHand, Ahead, Turn
  <2>3. WithinLimit' /\ NotHandedYet'
    BY <1>4 DEF SInv, WithinLimit, NotHandedYet, Turn
  <2> QED
    BY <2>1, <2>2, <2>3 DEF SInv
<1> QED
  BY <1>2, <1>3, <1>4 DEF Turn

LEMMA ClickSInv ==
    ASSUME SInv, Click PROVE SInv'
<1>1. offer \in Offers /\ turn \in DOMAIN Queue /\ offer = Queue[turn]
  BY OfferInHand DEF SInv, ClickedInOrder, InHand, Click, offer
<1>2. clicks[offer] = 0
  BY <1>1 DEF SInv, ClickedInOrder, Ahead, Click
<1>3. /\ clicks' \in [Offers -> Nat]  /\ clicks'[offer] = 1
      /\ \A o \in Offers : o # offer => clicks'[o] = clicks[o]
  BY <1>1, <1>2, Counts DEF SInv, Click
<1>4. TypeOK'
  <2>1. answer' \in [Offers -> {"none", "taken", "refused"}]
    BY DEF SInv, TypeOK, Click
  <2>2. late' \in Nat
    <3>1. late \in Nat
      BY DEF SInv, TypeOK
    <3> QED
      BY <3>1 DEF Click
  <2> QED
    BY <1>3, <2>1, <2>2 DEF SInv, TypeOK, Click
<1>5. offer \notin ToSet(successful)
  BY <1>2, MembersOfReported DEF SInv, ClickedInOrder
<1>6. ClickedInOrder'
  <2>1. (InHand => turn <= Len(Queue))'
    BY <1>1, QueueLength DEF InHand, Click
  <2>2. \A i \in DOMAIN Queue : Ahead(i)' => clicks'[Queue[i]] = 0
    <3> SUFFICES ASSUME NEW i \in DOMAIN Queue, Ahead(i)' PROVE clicks'[Queue[i]] = 0
      OBVIOUS
    <3>1. i > turn
      BY DEF Ahead, Click
    <3>2. Queue[i] \in Offers /\ Queue[i] # offer
      <4>1. i # turn
        BY <3>1, Places DEF SInv
      <4> QED
        BY <1>1, <4>1, QueueDistinct, QueueMembers
    <3> QED
      BY <1>3, <3>1, <3>2 DEF SInv, ClickedInOrder, Ahead
  <2>3. \A o \in Offers : clicks'[o] <= 1
    BY <1>3 DEF SInv, ClickedInOrder
  <2>4. \A i \in 1..Len(successful') : clicks'[successful'[i]] > 0
    <3> SUFFICES ASSUME NEW i \in DOMAIN successful PROVE clicks'[successful[i]] > 0
      BY DEF Click
    <3>1. successful[i] \in Offers
      BY Counts DEF SInv
    <3> QED
      BY <1>3, <3>1 DEF SInv, ClickedInOrder
  <2>5. (at = "confirm" => clicks[offer] > 0 /\ offer \notin ToSet(successful))'
    BY <1>3, <1>5 DEF Click, offer
  <2> QED
    BY <2>1, <2>2, <2>3, <2>4, <2>5 DEF ClickedInOrder
<1>7. WithinLimit' /\ NotHandedYet'
  BY DEF SInv, WithinLimit, NotHandedYet, Click
<1> QED
  BY <1>4, <1>6, <1>7 DEF SInv

LEMMA StepSInv == SInv /\ [Next]_vars => SInv'
<1> SUFFICES ASSUME SInv, [Next]_vars PROVE SInv'
  OBVIOUS
<1> USE DEF InHand
<1>0. missed \in 0..MaxMissed /\ tries \in 0..Tries - 1 /\ paced \in BOOLEAN
  BY DEF SInv, TypeOK
<1>1. CASE Start
  <2>1. CASE Return("nothing to submit")
    BY <1>0, <1>1, <2>1, ReturnSInv DEF Start
  <2>2. CASE at' = "loop" /\ UNCHANGED <<board, turn, tries, clicks, answer, successful, result,
                                         outcome, paced, killed, late>>
    <3>1. TypeOK'
      BY <1>1, <2>2 DEF SInv, TypeOK, Start
    <3> QED
      BY <1>1, <2>2, <3>1 DEF SInv, ClickedInOrder, Ahead, WithinLimit, NotHandedYet, Start
  <2> QED
    BY <1>1, <2>1, <2>2 DEF Start
<1>2. CASE Turn
  BY <1>2, TurnSInv
<1>3. CASE FormFails
  <2>1. tries' \in 0..Tries - 1
    BY <1>0, <1>3, SubmitAssumption DEF FormFails
  <2>2. CASE UNCHANGED <<at, turn>>
    <3>1. TypeOK'
      BY <1>3, <2>1, <2>2 DEF SInv, TypeOK, FormFails
    <3> QED
      BY <1>3, <2>2, <3>1 DEF SInv, ClickedInOrder, Ahead, WithinLimit, NotHandedYet, FormFails,
                              offer
  <2>3. CASE Skip
    BY <1>0, <1>3, <2>1, <2>3, SkipSInv DEF FormFails
  <2> QED
    BY <1>3, <2>2, <2>3 DEF FormFails
<1>4. CASE Fill
  <2>1. TypeOK'
    <3>1. tries' \in 0..Tries - 1
      BY <1>4, SubmitAssumption DEF Fill
    <3> QED
      BY <1>4, <3>1 DEF SInv, TypeOK, Fill
  <2> QED
    BY <1>4, <2>1 DEF SInv, ClickedInOrder, Ahead, WithinLimit, NotHandedYet, Fill, offer
<1>5. CASE Click
  BY <1>5, ClickSInv
<1>6. CASE Confirm
  <2>1. CASE Report /\ ((at' = "pause" /\ UNCHANGED turn) \/ Skip)
    BY <1>6, <2>1, ReportSInv DEF Confirm
  <2>2. CASE Unreported /\ Skip
    BY <1>0, <1>6, <2>2, SkipSInv DEF Confirm, Unreported
  <2> QED
    BY <1>6, <2>1, <2>2 DEF Confirm, ApecConfirm, HelloWorkConfirm, WttjConfirm, Unconfirmed
<1>7. CASE Pause
  BY <1>0, <1>7, SkipSInv DEF Pause
<1>8. CASE LoopEnds
  BY <1>0, <1>8, ReturnSInv DEF LoopEnds, Finished
<1>9. CASE Kill
  <2>1. TypeOK'
    BY <1>9 DEF SInv, TypeOK, Kill
  <2> QED
    BY <1>9, <2>1 DEF SInv, ClickedInOrder, Ahead, WithinLimit, NotHandedYet, Kill, offer
<1>10. CASE UNCHANGED vars
  <2>1. TypeOK'
    BY <1>10 DEF SInv, TypeOK, vars
  <2> QED
    BY <1>10, <2>1 DEF SInv, ClickedInOrder, Ahead, WithinLimit, NotHandedYet, vars, offer
<1> QED
  BY <1>1, <1>2, <1>3, <1>4, <1>5, <1>6, <1>7, <1>8, <1>9, <1>10 DEF Next, Node

LEMMA Invariant == Spec => []SInv
BY InitSInv, StepSInv, PTL DEF Spec

(***************************************************************************)
(* The theorems.                                                           *)
(***************************************************************************)

\* Every variable keeps to its values: in particular no read of the queue is
\* made outside it, and the reports are offers of the queue.
THEOREM SubmissionTypes == Spec => []TypeOK
<1>1. SInv => TypeOK
  BY DEF SInv
<1> QED
  BY <1>1, Invariant, PTL

\* Whatever raises, however often a form is opened again and however the node is
\* stopped, no board's worker clicks the send button of an offer twice.
THEOREM NoSecondClick == Spec => []OneClickPerOffer
<1>1. SInv => OneClickPerOffer
  BY DEF SInv, ClickedInOrder, OneClickPerOffer
<1> QED
  BY <1>1, Invariant, PTL

-----------------------------------------------------------------------------
(* The kill.                                                               *)

\* A node on its way to a click has used up neither the offer in hand nor a
\* failed read of the kill switch.
KillInv ==
    /\ late \in Nat /\ missed \in Nat
    /\ ~killed => late = 0
    /\ late <= 1 + missed
    /\ at \in {"form", "send"} => late <= missed

LEMMA InitKillInv == Init => KillInv
BY DEF Init, KillInv

LEMMA StepKillInv == SInv /\ KillInv /\ [Next]_vars => KillInv'
<1> SUFFICES ASSUME SInv, KillInv, [Next]_vars PROVE KillInv'
  OBVIOUS
<1>0. missed' \in Nat /\ late' \in Nat
  <2>1. missed' \in 0..MaxMissed /\ late' \in Nat
    BY StepSInv DEF SInv, TypeOK
  <2> QED
    BY <2>1
<1> USE <1>0 DEF KillInv
<1>1. CASE Start
  BY <1>1 DEF Start, Return
<1>2. CASE Turn
  <2>1. UNCHANGED <<killed, late>> /\ (at' = "done" \/ at' = "form")
    BY <1>2 DEF Turn, Halted, Finished, Return
  <2>2. CASE GoesOn
    <3>1. (~killed /\ missed' = missed) \/ missed' = missed + 1
      BY <2>2 DEF GoesOn
    <3>2. CASE ~killed /\ missed' = missed
      BY <2>1, <3>2
    <3>3. CASE missed' = missed + 1
      BY <2>1, <3>3
    <3> QED
      BY <3>1, <3>2, <3>3
  <2>3. CASE at' = "done" /\ missed' = missed
    BY <2>1, <2>3
  <2> QED
    BY <1>2, <2>2, <2>3 DEF Turn, Halted, Return
<1>3. CASE FormFails
  BY <1>3 DEF FormFails, Skip
<1>4. CASE Fill
  BY <1>4 DEF Fill
<1>5. CASE Click
  BY <1>5 DEF Click
<1>6. CASE Confirm
  BY <1>6 DEF Confirm, ApecConfirm, HelloWorkConfirm, WttjConfirm, Unconfirmed, Unreported,
              Report, Skip
<1>7. CASE Pause
  BY <1>7 DEF Pause, Skip
<1>8. CASE LoopEnds
  BY <1>8 DEF LoopEnds, Finished, Return
<1>9. CASE Kill
  BY <1>9 DEF Kill
<1>10. CASE UNCHANGED vars
  BY <1>10 DEF vars
<1> QED
  BY <1>1, <1>2, <1>3, <1>4, <1>5, <1>6, <1>7, <1>8, <1>9, <1>10 DEF Next, Node

\* After the user stops the search, the node clicks "send" for the offer in hand
\* at most, and for one more with each read of the kill switch that fails.
THEOREM KillStopsTheNode == Spec => []KillStopsSubmissions
<1>1. KillInv => KillStopsSubmissions
  BY DEF KillInv, KillStopsSubmissions
<1> QED
  BY <1>1, Invariant, InitKillInv, StepKillInv, PTL DEF Spec

-----------------------------------------------------------------------------
(* What is reported.                                                       *)

LEMMA StepReported == SInv /\ ReportedWasTaken /\ [Next]_vars => ReportedWasTaken'
<1> SUFFICES ASSUME SInv, ReportedWasTaken, [Next]_vars, board' # "hellowork",
                    NEW i \in DOMAIN successful'
             PROVE  answer'[successful'[i]] = "taken"
  BY DEF ReportedWasTaken
<1>1. board' = board
  BY DEF Next, Node, Start, Turn, FormFails, Fill, Click, Confirm, Pause, LoopEnds, Kill,
         ApecConfirm, HelloWorkConfirm, WttjConfirm, Unconfirmed, Unreported, Report, Halted,
         Finished, Return, vars
<1>2. CASE Click
  <2>1. successful' = successful /\ successful[i] \in Offers
    BY <1>2, Counts DEF SInv, Click
  <2>2. answer[successful[i]] = "taken"
    BY <1>1, <2>1 DEF ReportedWasTaken
  <2>3. \A o \in Offers : answer[o] = "taken" => answer'[o] = "taken"
    BY <1>2 DEF SInv, TypeOK, Click
  <2> QED
    BY <2>1, <2>2, <2>3
<1>3. CASE Confirm /\ Report
  <2>1. answer[offer] = "taken" /\ answer' = answer
    BY <1>1, <1>3 DEF Confirm, ApecConfirm, WttjConfirm, Unconfirmed, Unreported, Report
  <2>2. offer \in Offers
    BY <1>3, OfferInHand DEF SInv, ClickedInOrder, InHand, Confirm
  <2>3. CASE i \in DOMAIN successful
    BY <1>1, <1>3, <2>1, <2>2, <2>3, AppendIs, Counts DEF SInv, Report, ReportedWasTaken
  <2>4. CASE i \notin DOMAIN successful
    <3>1. i = Len(successful) + 1
      BY <1>3, <2>2, <2>4, AppendIs, Counts DEF SInv, Report
    <3> QED
      BY <1>3, <2>1, <2>2, <3>1, AppendIs, Counts DEF SInv, Report
  <2> QED
    BY <2>3, <2>4
<1>4. CASE UNCHANGED <<answer, successful>>
  BY <1>1, <1>4 DEF ReportedWasTaken
<1> QED
  BY <1>2, <1>3, <1>4 DEF Next, Node, Start, Turn, FormFails, Fill, Confirm, Pause, LoopEnds,
         Kill, ApecConfirm, HelloWorkConfirm, WttjConfirm, Unconfirmed, Unreported, Halted,
         Finished, Return, vars

\* What the APEC and the Welcome to the Jungle workers hand over as sent was
\* taken by the site, including what WTTJ reports before the NameError.
THEOREM ReportsAreTrue == Spec => []ReportedWasTaken
<1>1. Init => ReportedWasTaken
  BY DEF Init, ReportedWasTaken
<1> QED
  BY <1>1, StepReported, Invariant, PTL DEF Spec

(***************************************************************************)
(* The node implements the outbox.                                         *)
(***************************************************************************)

Sent == {o \in Offers : clicks[o] > 0}

LEMMA InitOutbox == Init => Promise!Init
BY DEF Init, Promise!Init, Offers

\* A click is the outbox's click: the offer was not sent before.
LEMMA ClickRefines ==
    ASSUME SInv, Click PROVE Promise!Click
<1>1. offer \in Offers /\ turn \in DOMAIN Queue /\ turn <= Len(Queue) /\ offer = Queue[turn]
  BY OfferInHand DEF SInv, ClickedInOrder, InHand, Click, offer
<1>2. clicks[offer] = 0
  BY <1>1 DEF SInv, ClickedInOrder, Ahead, Click
<1>3. Sent' = Sent \union {offer} /\ offer \notin Sent
  BY <1>1, <1>2, Counts DEF SInv, Click, Sent
<1> QED
  BY <1>1, <1>3 DEF Promise!Click, Click, Sent

\* So is a report: the offer in hand was sent and not reported, and the limit is
\* not reached.
LEMMA ReportRefines ==
    ASSUME SInv, at = "confirm", Report, (at' = "pause" /\ UNCHANGED turn) \/ Skip
    PROVE  Promise!Handle
<1>1. offer \in Offers /\ turn \in DOMAIN Queue /\ turn <= Len(Queue) /\ offer = Queue[turn]
  BY OfferInHand DEF SInv, ClickedInOrder, InHand, offer
<1>2. offer \in Sent \ ToSet(successful) /\ Len(successful) < WorkerLimit
  BY <1>1 DEF SInv, ClickedInOrder, WithinLimit, Sent
<1>3. Promise!Report
  BY <1>1, <1>2 DEF Promise!Report, Promise!ToSet, ToSet, Report, Sent
<1> QED
  BY <1>1, <1>3 DEF Promise!Handle, Promise!PassOn, Report, Skip

LEMMA SkipRefines ==
    ASSUME SInv, InHand, Skip,
           UNCHANGED <<clicks, successful, result>>
    PROVE  Promise!Handle
BY DEF SInv, ClickedInOrder, InHand, Skip, Promise!Handle, Promise!PassOn

LEMMA ReturnRefines ==
    ASSUME SInv, at # "done", NEW how, Return(how) PROVE Promise!HandOver
BY DEF Return, Promise!HandOver

LEMMA StepOutbox ==
    SInv /\ [Next]_vars =>
        [Promise!Next]_<<turn, Sent, successful, at # "done", result>>
<1> SUFFICES ASSUME SInv, [Next]_vars
             PROVE  Promise!Next \/ UNCHANGED <<turn, Sent, successful, at # "done", result>>
  OBVIOUS
<1>1. ASSUME at # "done", NEW how, Return(how) PROVE Promise!Next
  BY <1>1, ReturnRefines DEF Promise!Next
<1>2. CASE Click
  BY <1>2, ClickRefines DEF Promise!Next
<1>3. CASE Confirm
  <2>1. CASE Report /\ ((at' = "pause" /\ UNCHANGED turn) \/ Skip)
    BY <1>3, <2>1, ReportRefines DEF Confirm, Promise!Next
  <2>2. CASE Unreported /\ Skip
    BY <1>3, <2>2, SkipRefines DEF Confirm, InHand, Unreported, Promise!Next
  <2> QED
    BY <1>3, <2>1, <2>2 DEF Confirm, ApecConfirm, HelloWorkConfirm, WttjConfirm, Unconfirmed
<1>4. CASE Pause \/ (FormFails /\ Skip)
  BY <1>4, SkipRefines DEF Pause, FormFails, InHand, Promise!Next
<1>5. CASE /\ UNCHANGED <<turn, clicks, successful, result>>
           /\ (at # "done" /\ at' # "done") \/ at' = at
  BY <1>5 DEF Sent
<1>6. Start \/ Turn \/ LoopEnds => at # "done"
  BY DEF Start, Turn, LoopEnds
<1> QED
  BY <1>1, <1>2, <1>3, <1>4, <1>5, <1>6
     DEF Next, Node, Start, Turn, Halted, Finished, FormFails, Fill, LoopEnds, Kill, vars

\* Every run of the submission node, on any board, is a run of the outbox: it
\* takes the offers in order, sends none twice, reports only what it sent and no
\* more than the limit, and hands over everything it reported, however it ends.
THEOREM RefinesOutbox == Spec => OutboxSpec
BY Invariant, InitOutbox, StepOutbox, PTL DEF Spec, OutboxSpec, Promise!Spec, Sent

-------------------------------------------------------------------------------
(* Part 2: Stores. *)

(***************************************************************************)
(* Numbers of elements, and the order of the elements of a finite set.     *)
(***************************************************************************)

Images(f, S)   == {f[x] : x \in S}
OneToOne(f, S) == \A x, y \in S : f[x] = f[y] => x = y

LEMMA ImageIsFinite ==
    ASSUME NEW S, IsFiniteSet(S), NEW f
    PROVE  IsFiniteSet(Images(f, S)) /\ Cardinality(Images(f, S)) <= Cardinality(S)
<1> DEFINE T == Images(f, S)
           g == [x \in S |-> f[x]]
<1>1. g \in Surjection(S, T)
  BY DEF Surjection, Images
<1> QED
  BY <1>1, FS_Surjection

LEMMA SameNumber ==
    ASSUME NEW S, IsFiniteSet(S), NEW f, OneToOne(f, S)
    PROVE  IsFiniteSet(Images(f, S)) /\ Cardinality(Images(f, S)) = Cardinality(S)
<1> DEFINE T == Images(f, S)
           g == [x \in S |-> f[x]]
<1>1. g \in Bijection(S, T)
  <2>1. g \in [S -> T] /\ DOMAIN g = S /\ \A x, y \in S : g[x] = g[y] => x = y
    BY DEF Images, OneToOne
  <2>2. \A z \in T : \E x \in S : g[x] = z
    BY DEF Images
  <2> HIDE DEF g
  <2> QED
    BY <2>1, <2>2 DEF Bijection, Injection, Surjection, IsInjective
<1> QED
  BY <1>1, FS_Bijection DEF ExistsBijection

LEMMA DisjointAdd ==
    ASSUME NEW S, NEW T, IsFiniteSet(S), IsFiniteSet(T), S \cap T = {}
    PROVE  Cardinality(S \union T) = Cardinality(S) + Cardinality(T)
<1>1. /\ Cardinality(S \union T) = Cardinality(S) + Cardinality(T) - Cardinality(S \cap T)
      /\ Cardinality(S) \in Nat  /\ Cardinality(T) \in Nat
  BY FS_Union, FS_CardinalityType
<1>2. Cardinality(S \cap T) = 0
  BY FS_EmptySet
<1> QED
  BY <1>1, <1>2

LEMMA ProperIsSmaller ==
    ASSUME NEW S, IsFiniteSet(S), NEW T, T \subseteq S, NEW x \in S, x \notin T
    PROVE  Cardinality(T) < Cardinality(S)
<1>1. T \subseteq S \ {x}
  OBVIOUS
<1>2. IsFiniteSet(S \ {x}) /\ Cardinality(S \ {x}) = Cardinality(S) - 1 /\ Cardinality(S) \in Nat
  BY FS_RemoveElement, FS_CardinalityType
<1>3. Cardinality(T) <= Cardinality(S \ {x}) /\ IsFiniteSet(T)
  BY <1>1, <1>2, FS_Subset
<1>4. Cardinality(T) \in Nat
  BY <1>3, FS_CardinalityType
<1> QED
  BY <1>2, <1>3, <1>4

Orders(R, S) ==
    /\ \A x \in S : <<x, x>> \notin R
    /\ \A x, y \in S : x # y => <<x, y>> \in R \/ <<y, x>> \in R
    /\ \A x, y, z \in S : <<x, y>> \in R /\ <<y, z>> \in R => <<x, z>> \in R

AheadOf(R, S, x) == {y \in S : <<y, x>> \in R}

Sorts(s, R, S) ==
    /\ s \in [1 .. Cardinality(S) -> S]
    /\ \A i, j \in 1 .. Cardinality(S) : i < j => <<s[i], s[j]>> \in R

LEMMA BeforeGrows ==
    ASSUME NEW S, IsFiniteSet(S), NEW R, Orders(R, S)
    PROVE  /\ \A x \in S : Cardinality(AheadOf(R, S, x)) \in 0 .. Cardinality(S) - 1
           /\ \A x, y \in S : <<x, y>> \in R =>
                 Cardinality(AheadOf(R, S, x)) < Cardinality(AheadOf(R, S, y))
<1>1. \A x \in S : IsFiniteSet(AheadOf(R, S, x))
  BY FS_Subset DEF AheadOf
<1>2. ASSUME NEW x \in S PROVE Cardinality(AheadOf(R, S, x)) \in 0 .. Cardinality(S) - 1
  <2>1. Cardinality(AheadOf(R, S, x)) < Cardinality(S)
    <3>1. AheadOf(R, S, x) \subseteq S /\ x \notin AheadOf(R, S, x)
      BY DEF AheadOf, Orders
    <3> QED
      BY <3>1, ProperIsSmaller
  <2>2. Cardinality(AheadOf(R, S, x)) \in Nat /\ Cardinality(S) \in Nat
    BY <1>1, FS_CardinalityType
  <2> QED
    BY <2>1, <2>2
<1>3. ASSUME NEW x \in S, NEW y \in S, <<x, y>> \in R
      PROVE  Cardinality(AheadOf(R, S, x)) < Cardinality(AheadOf(R, S, y))
  <2>1. AheadOf(R, S, x) \subseteq AheadOf(R, S, y)
    BY <1>3 DEF AheadOf, Orders
  <2>2. x \in AheadOf(R, S, y) /\ x \notin AheadOf(R, S, x)
    BY <1>3 DEF AheadOf, Orders
  <2> QED
    BY <1>1, <2>1, <2>2, ProperIsSmaller
<1> QED
  BY <1>2, <1>3

\* An injection of a finite set into as many numbers reaches them all.
LEMMA ReachesAll ==
    ASSUME NEW S, IsFiniteSet(S), NEW f \in [S -> 1 .. Cardinality(S)],
           \A x, y \in S : f[x] = f[y] => x = y
    PROVE  \A k \in 1 .. Cardinality(S) : \E x \in S : f[x] = k
<1> DEFINE T == Images(f, S)
           n == Cardinality(S)
<1>1. IsFiniteSet(T) /\ Cardinality(T) = n
  BY SameNumber DEF OneToOne
<1>2. n \in Nat
  BY FS_CardinalityType
<1>3. IsFiniteSet(1 .. n) /\ Cardinality(1 .. n) = n
  BY <1>2, FS_Interval
<1>4. T \subseteq 1 .. n
  BY DEF Images
<1>5. ASSUME NEW k \in 1 .. n, k \notin T PROVE FALSE
  <2>1. Cardinality(T) < Cardinality(1 .. n)
    <3> HIDE DEF T, n
    <3> QED
      BY <1>3, <1>4, <1>5, ProperIsSmaller
  <2> QED
    BY <1>1, <1>2, <1>3, <2>1
<1> QED
  BY <1>5 DEF Images

LEMMA CanBeSorted ==
    ASSUME NEW S, IsFiniteSet(S), NEW R, Orders(R, S)
    PROVE  \E s : Sorts(s, R, S)
<1> DEFINE n == Cardinality(S)
           rank == [x \in S |-> 1 + Cardinality(AheadOf(R, S, x))]
           s == [k \in 1 .. n |-> CHOOSE x \in S : rank[x] = k]
<1>1. n \in Nat
  BY FS_CardinalityType
<1>2. rank \in [S -> 1 .. n]
  <2>1. \A x \in S : Cardinality(AheadOf(R, S, x)) \in 0 .. n - 1
    BY BeforeGrows
  <2> QED
    BY <1>1, <2>1
<1>3. \A x, y \in S : <<x, y>> \in R => rank[x] < rank[y]
  <2>1. \A x \in S : Cardinality(AheadOf(R, S, x)) \in 0 .. n - 1
    BY BeforeGrows
  <2>2. \A x, y \in S : <<x, y>> \in R => Cardinality(AheadOf(R, S, x)) < Cardinality(AheadOf(R, S, y))
    BY BeforeGrows
  <2> QED
    BY <1>1, <2>1, <2>2
<1>4. \A x, y \in S : rank[x] = rank[y] => x = y
  <2> HIDE DEF rank
  <2>1. \A x, y \in S : rank[x] < rank[y] => rank[x] # rank[y]
    BY <1>1, <1>2
  <2> QED
    BY <1>3, <2>1 DEF Orders
<1>5. \A k \in 1 .. n : \E x \in S : rank[x] = k
  <2> HIDE DEF rank
  <2> QED
    BY <1>2, <1>4, ReachesAll
<1>6. \A k \in 1 .. n : s[k] \in S /\ rank[s[k]] = k
  <2> HIDE DEF rank
  <2> QED
    BY <1>5
<1>7. ASSUME NEW i \in 1 .. n, NEW j \in 1 .. n, i < j PROVE <<s[i], s[j]>> \in R
  <2>1. s[i] \in S /\ s[j] \in S /\ rank[s[i]] = i /\ rank[s[j]] = j
    BY <1>6
  <2> HIDE DEF rank, s
  <2>2. s[i] # s[j]
    BY <1>1, <1>7, <2>1
  <2>3. <<s[j], s[i]>> \notin R
    BY <1>1, <1>3, <1>7, <2>1
  <2> QED
    BY <2>1, <2>2, <2>3 DEF Orders
<1> QED
  <2>1. s \in [1 .. n -> S]
    BY <1>6
  <2> HIDE DEF s
  <2> QED
    BY <1>7, <2>1 DEF Sorts

LEMMA SortedIs ==
    ASSUME NEW S, IsFiniteSet(S), NEW R, Orders(R, S), NEW s, Sorts(s, R, S)
    PROVE  /\ Cardinality(S) \in Nat  /\ s \in [1 .. Cardinality(S) -> S]
           /\ \A i, j \in 1 .. Cardinality(S) : <<s[i], s[j]>> \in R <=> i < j
           /\ \A i, j \in 1 .. Cardinality(S) : s[i] = s[j] => i = j
           /\ \A x \in S : \E i \in 1 .. Cardinality(S) : s[i] = x
           /\ \A i \in 1 .. Cardinality(S) : Cardinality(AheadOf(R, S, s[i])) = i - 1
<1> DEFINE n == Cardinality(S)
<1>1. n \in Nat /\ s \in [1 .. n -> S] /\ \A i, j \in 1 .. n : i < j => <<s[i], s[j]>> \in R
  BY FS_CardinalityType DEF Sorts
<1> HIDE DEF n
<1>2. \A i, j \in 1 .. n : <<s[i], s[j]>> \in R <=> i < j
  <2> SUFFICES ASSUME NEW i \in 1 .. n, NEW j \in 1 .. n, <<s[i], s[j]>> \in R PROVE i < j
    BY <1>1
  <2>1. s[i] \in S /\ s[j] \in S
    BY <1>1
  <2>2. CASE i = j
    BY <2>1, <2>2 DEF Orders
  <2>3. CASE j < i
    <3>1. <<s[j], s[i]>> \in R
      BY <1>1, <2>3
    <3> QED
      BY <2>1, <3>1 DEF Orders
  <2> QED
    BY <1>1, <2>2, <2>3
<1>3. \A i, j \in 1 .. n : s[i] = s[j] => i = j
  <2> SUFFICES ASSUME NEW i \in 1 .. n, NEW j \in 1 .. n, s[i] = s[j] PROVE i = j
    OBVIOUS
  <2>1. s[i] \in S /\ <<s[i], s[i]>> \notin R
    BY <1>1 DEF Orders
  <2>2. ~(i < j) /\ ~(j < i)
    BY <1>1, <2>1
  <2> QED
    BY <1>1, <2>2
<1>4. \A x \in S : \E i \in 1 .. n : s[i] = x
  <2> DEFINE T == Images(s, 1 .. n)
  <2>1. IsFiniteSet(1 .. n) /\ Cardinality(1 .. n) = n
    BY <1>1, FS_Interval
  <2>2. Cardinality(T) = n
    <3>1. OneToOne(s, 1 .. n)
      BY <1>3 DEF OneToOne
    <3> QED
      BY <2>1, <3>1, SameNumber
  <2>3. T \subseteq S
    BY <1>1 DEF Images
  <2>4. ASSUME NEW x \in S, x \notin T PROVE FALSE
    <3>1. Cardinality(T) < Cardinality(S)
      <4> HIDE DEF T
      <4> QED
        BY <2>3, <2>4, ProperIsSmaller
    <3> QED
      BY <1>1, <2>2, <3>1 DEF n
  <2> QED
    BY <2>4 DEF Images
<1>5. ASSUME NEW i \in 1 .. n PROVE Cardinality(AheadOf(R, S, s[i])) = i - 1
  <2>1. AheadOf(R, S, s[i]) = Images(s, 1 .. i - 1)
    <3>1. ASSUME NEW x \in AheadOf(R, S, s[i]) PROVE x \in Images(s, 1 .. i - 1)
      <4>1. PICK j \in 1 .. n : s[j] = x
        BY <1>4, <3>1 DEF AheadOf
      <4>2. <<s[j], s[i]>> \in R
        BY <3>1, <4>1 DEF AheadOf
      <4>3. j \in 1 .. i - 1
        BY <1>1, <1>2, <4>2
      <4> QED
        BY <4>1, <4>3 DEF Images
    <3>2. ASSUME NEW j \in 1 .. i - 1 PROVE s[j] \in AheadOf(R, S, s[i])
      <4>1. j \in 1 .. n /\ j < i
        BY <1>1, <3>2
      <4> QED
        BY <1>1, <4>1 DEF AheadOf
    <3> QED
      BY <3>1, <3>2 DEF Images
  <2>2. IsFiniteSet(1 .. i - 1) /\ Cardinality(1 .. i - 1) = i - 1
    BY <1>1, FS_Interval
  <2>3. OneToOne(s, 1 .. i - 1)
    BY <1>1, <1>3 DEF OneToOne
  <2> QED
    BY <2>1, <2>2, <2>3, SameNumber
<1> QED
  BY <1>1, <1>2, <1>3, <1>4, <1>5 DEF n

-----------------------------------------------------------------------------
(***************************************************************************)
(* The visits of two adjoining windows.                                    *)
(***************************************************************************)

VisitRows(rows) ==
    /\ IsFiniteSet(rows)
    /\ \A x \in rows : x.at \in Int /\ x.id \in Int /\ x.visitor \in Visitors
    /\ \A x, y \in rows : x.id = y.id => x = y

\* The views that start a visit.
Starting(t, w) ==
    {x \in Scanned(t, w) :
        x.at >= w.from
        /\ \A y \in Scanned(t, w) : (y.visitor = x.visitor /\ Earlier(y, x)) => x.at - y.at > Gap}

LEMMA SessionsAre == \A t, w : SqlSessions(t, w) = Cardinality(Starting(t, w))
BY DEF SqlSessions, Starting, Quantify

LEMMA ScannedIs ==
    \A t, from, to, x : x \in Scanned(t, Window(from, to)) <=>
                            x \in t.visits /\ from - Gap <= x.at /\ x.at < to
BY DEF Scanned, Window, Within

LEMMA StartingSplits ==
    ASSUME NEW t, VisitRows(t.visits), NEW a \in Int, NEW b \in Int, NEW c \in Int, a <= b, b <= c
    PROVE  /\ Starting(t, Window(a, c)) = Starting(t, Window(a, b)) \union Starting(t, Window(b, c))
           /\ Starting(t, Window(a, b)) \cap Starting(t, Window(b, c)) = {}
           /\ \A w : IsFiniteSet(Starting(t, w))
<1> DEFINE Late(x, y) == (y.visitor = x.visitor /\ Earlier(y, x)) => x.at - y.at > Gap
<1>0. Gap \in Int /\ Gap >= 0
  BY StoresAssumption
<1>1. \A from, to, x : x \in Starting(t, Window(from, to)) <=>
          /\ x \in t.visits /\ from - Gap <= x.at /\ x.at < to /\ x.at >= from
          /\ \A y \in t.visits : from - Gap <= y.at /\ y.at < to => Late(x, y)
  <2> SUFFICES ASSUME NEW from, NEW to, NEW x
               PROVE  x \in Starting(t, Window(from, to)) <=>
                          /\ x \in t.visits /\ from - Gap <= x.at /\ x.at < to /\ x.at >= from
                          /\ \A y \in t.visits : from - Gap <= y.at /\ y.at < to => Late(x, y)
    OBVIOUS
  <2>1. Window(from, to).from = from
    BY DEF Window
  <2>2. x \in Starting(t, Window(from, to)) <=>
            /\ x \in Scanned(t, Window(from, to))  /\ x.at >= from
            /\ \A y \in Scanned(t, Window(from, to)) : Late(x, y)
    BY <2>1 DEF Starting
  <2> HIDE DEF Late
  <2> QED
    BY <2>2, ScannedIs
<1>2. \A x \in t.visits : x.at \in Int
  BY DEF VisitRows
<1>3. \A x, y \in t.visits : Earlier(y, x) => y.at <= x.at
  BY <1>2 DEF Earlier
<1>4. \A x, y \in t.visits : y.at > x.at => Late(x, y)
  BY <1>2, <1>3
<1>5. \A x, y \in t.visits : y.at < x.at - Gap => Late(x, y)
  BY <1>0, <1>2
<1> HIDE DEF Late
<1>6. \A x : x \in Starting(t, Window(a, c)) <=>
                 x \in Starting(t, Window(a, b)) \/ x \in Starting(t, Window(b, c))
  <2> TAKE x
  <2>1. CASE x \notin t.visits
    BY <1>1, <2>1
  <2>2. CASE x \in t.visits /\ x.at < b
    <3>1. x \notin Starting(t, Window(b, c))
      BY <1>1, <1>2, <2>2
    <3>2. \A y \in t.visits : y.at < c /\ ~(y.at < b) => Late(x, y)
      BY <1>2, <1>4, <2>2
    <3>3. x \in Starting(t, Window(a, c)) => x \in Starting(t, Window(a, b))
      BY <1>1, <1>2, <2>2
    <3>4. x \in Starting(t, Window(a, b)) => x \in Starting(t, Window(a, c))
      BY <1>1, <1>2, <2>2, <3>2
    <3> QED
      BY <3>1, <3>3, <3>4
  <2>3. CASE x \in t.visits /\ ~(x.at < b)
    <3>1. x \notin Starting(t, Window(a, b))
      BY <1>1, <1>2, <2>3
    <3>2. \A y \in t.visits : a - Gap <= y.at /\ ~(b - Gap <= y.at) => Late(x, y)
      BY <1>0, <1>2, <1>5, <2>3
    <3>3. x \in Starting(t, Window(a, c)) => x \in Starting(t, Window(b, c))
      BY <1>0, <1>1, <1>2, <2>3
    <3>4. x \in Starting(t, Window(b, c)) => x \in Starting(t, Window(a, c))
      BY <1>0, <1>1, <1>2, <2>3, <3>2
    <3> QED
      BY <3>1, <3>3, <3>4
  <2> QED
    BY <2>1, <2>2, <2>3
<1>7. Starting(t, Window(a, b)) \cap Starting(t, Window(b, c)) = {}
  BY <1>1, <1>2
<1>8. \A w : Starting(t, w) \subseteq t.visits
  BY DEF Starting, Scanned
<1>9. \A w : IsFiniteSet(Starting(t, w))
  BY <1>8, FS_Subset DEF VisitRows
<1> QED
  BY <1>6, <1>7, <1>9

LEMMA SessionsSplit ==
    ASSUME NEW t, VisitRows(t.visits), NEW a \in Int, NEW b \in Int, NEW c \in Int, a <= b, b <= c
    PROVE  SqlSessions(t, Window(a, b)) + SqlSessions(t, Window(b, c)) = SqlSessions(t, Window(a, c))
<1> DEFINE S == Starting(t, Window(a, b))
           T == Starting(t, Window(b, c))
<1>1. /\ Starting(t, Window(a, c)) = S \union T  /\ S \cap T = {}
      /\ IsFiniteSet(S)  /\ IsFiniteSet(T)
  <2>1. /\ Starting(t, Window(a, c)) = S \union T  /\ S \cap T = {}
        /\ \A w : IsFiniteSet(Starting(t, w))
    BY StartingSplits
  <2> QED
    BY <2>1
<1> HIDE DEF S, T
<1>2. Cardinality(S \union T) = Cardinality(S) + Cardinality(T)
  BY <1>1, DisjointAdd
<1> QED
  BY <1>1, <1>2, SessionsAre DEF S, T

-----------------------------------------------------------------------------
(***************************************************************************)
(* The loop over the sorted views of a visitor finds the same visits.      *)
(***************************************************************************)

ViewsOf(t, w, v) == {x \in Scanned(t, w) : x.visitor = v}
Times(t, w, v) == SortedBy(ViewsOf(t, w, v), Earlier)
EarlierOf(rows) == {z \in rows \X rows : Earlier(z[1], z[2])}

LEMMA EarlierOrders ==
    ASSUME NEW rows, VisitRows(rows), NEW S, S \subseteq rows
    PROVE  Orders(EarlierOf(S), S)
<1>1. \A x \in S : x.at \in Int /\ x.id \in Int
  BY DEF VisitRows
<1>2. \A x, y \in S : <<x, y>> \in EarlierOf(S) <=> Earlier(x, y)
  BY DEF EarlierOf
<1>3. \A x, y \in S : x # y => x.id # y.id
  BY DEF VisitRows
<1> QED
  BY <1>1, <1>2, <1>3 DEF Orders, Earlier

LEMMA TimesAre ==
    ASSUME NEW t, VisitRows(t.visits), NEW w, NEW v
    PROVE  /\ IsFiniteSet(ViewsOf(t, w, v))
           /\ Orders(EarlierOf(ViewsOf(t, w, v)), ViewsOf(t, w, v))
           /\ Sorts(Times(t, w, v), EarlierOf(ViewsOf(t, w, v)), ViewsOf(t, w, v))
<1> DEFINE S == ViewsOf(t, w, v)
           R == EarlierOf(S)
<1>1. S \subseteq t.visits
  BY DEF ViewsOf, Scanned
<1>2. IsFiniteSet(S)
  BY <1>1, FS_Subset DEF VisitRows
<1>3. Orders(R, S)
  BY <1>1, EarlierOrders
<1>4. PICK s : Sorts(s, R, S)
  BY <1>2, <1>3, CanBeSorted
<1>5. \A x, y \in S : <<x, y>> \in R <=> Earlier(x, y)
  BY DEF EarlierOf
<1> HIDE DEF S, R
<1>6. \E z \in [1 .. Cardinality(S) -> S] :
          \A i, j \in 1 .. Cardinality(S) : i < j => Earlier(z[i], z[j])
  BY <1>4, <1>5 DEF Sorts
<1>7. Times(t, w, v) = CHOOSE z \in [1 .. Cardinality(S) -> S] :
          \A i, j \in 1 .. Cardinality(S) : i < j => Earlier(z[i], z[j])
  BY DEF Times, SortedBy, S
<1>8. /\ Times(t, w, v) \in [1 .. Cardinality(S) -> S]
      /\ \A i, j \in 1 .. Cardinality(S) : i < j => Earlier(Times(t, w, v)[i], Times(t, w, v)[j])
  BY <1>6, <1>7
<1>9. Sorts(Times(t, w, v), R, S)
  BY <1>5, <1>8 DEF Sorts
<1> QED
  BY <1>2, <1>3, <1>9 DEF S, R

FirstOf(t, w, v) ==
    {i \in DOMAIN Times(t, w, v) :
        /\ Times(t, w, v)[i].at >= w.from
        /\ i = 1 \/ Times(t, w, v)[i].at - Times(t, w, v)[i - 1].at > Gap}
FirstViews(t, w) == UNION {{v} \X FirstOf(t, w, v) : v \in Visitors}

LEMMA MemSessionsAre == \A t, w : MemSessions(t, w) = Cardinality(FirstViews(t, w))
BY DEF MemSessions, FirstViews, FirstOf, Times, ViewsOf

LEMMA FirstStarts ==
    ASSUME NEW t, VisitRows(t.visits), NEW w, w.from \in Int, NEW v,
           NEW i \in 1 .. Cardinality(ViewsOf(t, w, v))
    PROVE  /\ Times(t, w, v)[i] \in ViewsOf(t, w, v)
           /\ i \in FirstOf(t, w, v) <=> Times(t, w, v)[i] \in Starting(t, w)
<1> DEFINE S == ViewsOf(t, w, v)
           n == Cardinality(S)
           s == Times(t, w, v)
<1>1. IsFiniteSet(S) /\ Orders(EarlierOf(S), S) /\ Sorts(s, EarlierOf(S), S)
  BY TimesAre
<1> HIDE DEF S, n, s
<1>2. /\ n \in Nat  /\ s \in [1 .. n -> S]
      /\ \A k, j \in 1 .. n : <<s[k], s[j]>> \in EarlierOf(S) <=> k < j
      /\ \A x \in S : \E k \in 1 .. n : s[k] = x
  <2> DEFINE R == EarlierOf(S)
  <2> HIDE DEF R
  <2>1. Orders(R, S) /\ Sorts(s, R, S)
    BY <1>1 DEF R
  <2>2. /\ Cardinality(S) \in Nat  /\ s \in [1 .. Cardinality(S) -> S]
        /\ \A k, j \in 1 .. Cardinality(S) : <<s[k], s[j]>> \in R <=> k < j
        /\ \A x \in S : \E k \in 1 .. Cardinality(S) : s[k] = x
    <3>1. IsFiniteSet(S)
      BY <1>1
    <3> HIDE DEF n
    <3>2. Cardinality(S) \in Nat /\ s \in [1 .. Cardinality(S) -> S]
      BY <2>1, <3>1, SortedIs
    <3>3. \A k, j \in 1 .. Cardinality(S) : <<s[k], s[j]>> \in R <=> k < j
      BY <2>1, <3>1, SortedIs
    <3>4. \A x \in S : \E k \in 1 .. Cardinality(S) : s[k] = x
      BY <2>1, <3>1, SortedIs
    <3> QED
      BY <3>2, <3>3, <3>4
  <2> QED
    BY <2>2 DEF n, R
<1>3. \A x, y \in S : <<x, y>> \in EarlierOf(S) <=> Earlier(x, y)
  BY DEF EarlierOf
<1>4. \A k, j \in 1 .. n : Earlier(s[k], s[j]) <=> k < j
  BY <1>2, <1>3
<1>5. i \in 1 .. n /\ s[i] \in S
  BY <1>2 DEF n, S
<1>6. \A x \in S : x.at \in Int /\ x.visitor = v /\ x \in Scanned(t, w)
  BY DEF S, ViewsOf, Scanned, VisitRows
<1>7. \A y \in Scanned(t, w) : y.visitor = v => y \in S
  BY DEF S, ViewsOf
<1>8. \A k, j \in 1 .. n : k <= j => s[k].at <= s[j].at
  <2> SUFFICES ASSUME NEW k \in 1 .. n, NEW j \in 1 .. n, k <= j PROVE s[k].at <= s[j].at
    OBVIOUS
  <2>1. s[k] \in S /\ s[j] \in S
    BY <1>2
  <2>2. s[k].at \in Int /\ s[j].at \in Int
    BY <1>6, <2>1
  <2>3. k = j \/ Earlier(s[k], s[j])
    BY <1>4
  <2> QED
    BY <2>2, <2>3 DEF Earlier
<1>9. i \in FirstOf(t, w, v) <=>
          s[i].at >= w.from /\ (i = 1 \/ s[i].at - s[i - 1].at > Gap)
  BY <1>2, <1>5 DEF FirstOf, s
<1>10. s[i] \in Starting(t, w) <=>
          /\ s[i].at >= w.from
          /\ \A y \in S : Earlier(y, s[i]) => s[i].at - y.at > Gap
  BY <1>5, <1>6, <1>7 DEF Starting
<1>11. ASSUME i = 1 \/ s[i].at - s[i - 1].at > Gap, NEW y \in S, Earlier(y, s[i])
       PROVE  s[i].at - y.at > Gap
  <2>1. PICK j \in 1 .. n : s[j] = y
    BY <1>2
  <2>2. j < i
    BY <1>4, <1>5, <1>11, <2>1
  <2>3. i # 1 /\ j <= i - 1 /\ i - 1 \in 1 .. n
    BY <1>2, <1>5, <2>2
  <2>4. y.at <= s[i - 1].at
    BY <1>8, <2>1, <2>3
  <2>5. s[i - 1] \in S
    BY <1>2, <2>3
  <2>6. y.at \in Int /\ s[i].at \in Int /\ s[i - 1].at \in Int
    BY <1>5, <1>6, <2>5
  <2>7. Gap \in Int
    BY StoresAssumption
  <2> QED
    BY <1>11, <2>3, <2>4, <2>6, <2>7
<1>12. ASSUME \A y \in S : Earlier(y, s[i]) => s[i].at - y.at > Gap, i # 1
       PROVE  s[i].at - s[i - 1].at > Gap
  <2>1. i - 1 \in 1 .. n /\ i - 1 < i
    BY <1>2, <1>5, <1>12
  <2>2. s[i - 1] \in S /\ Earlier(s[i - 1], s[i])
    BY <1>2, <1>4, <1>5, <2>1
  <2> QED
    BY <1>12, <2>2
<1> QED
  BY <1>5, <1>9, <1>10, <1>11, <1>12 DEF s, S

LEMMA SessionsAlike ==
    ASSUME NEW t, VisitRows(t.visits), NEW w, w.from \in Int
    PROVE  SqlSessions(t, w) = MemSessions(t, w)
<1> DEFINE S == Starting(t, w)
           n(v) == Cardinality(ViewsOf(t, w, v))
           when(x) == CHOOSE i \in 1 .. n(x.visitor) : Times(t, w, x.visitor)[i] = x
           g == [x \in S |-> <<x.visitor, when(x)>>]
<1>1. IsFiniteSet(S)
  <2>1. S \subseteq t.visits
    BY DEF Starting, Scanned
  <2> QED
    BY <2>1, FS_Subset DEF VisitRows
<1>2. \A v : /\ DOMAIN Times(t, w, v) = 1 .. n(v)
             /\ \A i, j \in 1 .. n(v) : Times(t, w, v)[i] = Times(t, w, v)[j] => i = j
             /\ \A x \in ViewsOf(t, w, v) : \E i \in 1 .. n(v) : Times(t, w, v)[i] = x
  <2> TAKE v
  <2>1. /\ IsFiniteSet(ViewsOf(t, w, v))
        /\ Orders(EarlierOf(ViewsOf(t, w, v)), ViewsOf(t, w, v))
        /\ Sorts(Times(t, w, v), EarlierOf(ViewsOf(t, w, v)), ViewsOf(t, w, v))
    BY TimesAre
  <2>2. /\ Times(t, w, v) \in [1 .. n(v) -> ViewsOf(t, w, v)]
        /\ \A i, j \in 1 .. n(v) : Times(t, w, v)[i] = Times(t, w, v)[j] => i = j
        /\ \A x \in ViewsOf(t, w, v) : \E i \in 1 .. n(v) : Times(t, w, v)[i] = x
    BY <2>1, SortedIs
  <2> QED
    BY <2>2
<1>3. \A x \in S : x \in ViewsOf(t, w, x.visitor) /\ x.visitor \in Visitors
  BY DEF Starting, ViewsOf, Scanned, VisitRows
<1>4. \A x \in S : when(x) \in 1 .. n(x.visitor) /\ Times(t, w, x.visitor)[when(x)] = x
  <2> SUFFICES ASSUME NEW x \in S
               PROVE  when(x) \in 1 .. n(x.visitor) /\ Times(t, w, x.visitor)[when(x)] = x
    OBVIOUS
  <2>1. \E i \in 1 .. n(x.visitor) : Times(t, w, x.visitor)[i] = x
    BY <1>2, <1>3
  <2> QED
    BY <2>1
<1> HIDE DEF when, n, S
<1>5. \A v : \A i \in 1 .. n(v) :
          /\ Times(t, w, v)[i] \in ViewsOf(t, w, v)
          /\ i \in FirstOf(t, w, v) <=> Times(t, w, v)[i] \in S
  BY FirstStarts DEF n, S
<1>6. OneToOne(g, S)
  <2> SUFFICES ASSUME NEW x \in S, NEW y \in S, <<x.visitor, when(x)>> = <<y.visitor, when(y)>>
               PROVE  x = y
    BY DEF OneToOne
  <2>1. x.visitor = y.visitor /\ when(x) = when(y)
    OBVIOUS
  <2> QED
    BY <1>4, <2>1
<1>7. Images(g, S) = FirstViews(t, w)
  <2>1. \A x \in S : <<x.visitor, when(x)>> \in FirstViews(t, w)
    <3> SUFFICES ASSUME NEW x \in S PROVE <<x.visitor, when(x)>> \in FirstViews(t, w)
      OBVIOUS
    <3>1. when(x) \in FirstOf(t, w, x.visitor)
      BY <1>4, <1>5
    <3> QED
      BY <1>3, <3>1 DEF FirstViews
  <2>2. ASSUME NEW z \in FirstViews(t, w) PROVE \E x \in S : z = <<x.visitor, when(x)>>
    <3>0. PICK v \in Visitors : z \in {v} \X FirstOf(t, w, v)
      BY <2>2 DEF FirstViews
    <3>1. PICK i \in FirstOf(t, w, v) : z = <<v, i>>
      BY <3>0
    <3>2. i \in 1 .. n(v)
      BY <1>2 DEF FirstOf
    <3> DEFINE x == Times(t, w, v)[i]
    <3>3. x \in S /\ x.visitor = v
      BY <1>5, <3>2 DEF ViewsOf
    <3> HIDE DEF x
    <3>4. when(x) \in 1 .. n(v) /\ Times(t, w, v)[when(x)] = Times(t, w, v)[i]
      BY <1>4, <3>3 DEF x
    <3>5. when(x) = i
      BY <1>2, <3>2, <3>4
    <3> QED
      BY <3>1, <3>3, <3>5
  <2> QED
    BY <2>1, <2>2 DEF Images
<1>8. Cardinality(Images(g, S)) = Cardinality(S)
  <2> HIDE DEF g
  <2> QED
    BY <1>1, <1>6, SameNumber
<1> QED
  BY <1>7, <1>8, SessionsAre, MemSessionsAre DEF S

-----------------------------------------------------------------------------
(***************************************************************************)
(* The first of a sorted list are those that few are before.               *)
(***************************************************************************)

\* The larger key first.
ByKey(v, S) == {z \in S \X S : v[z[1]] > v[z[2]]}

LEMMA KeyOrders ==
    ASSUME NEW S, NEW v \in [S -> Int], OneToOne(v, S)
    PROVE  Orders(ByKey(v, S), S)
<1>1. \A x, y \in S : <<x, y>> \in ByKey(v, S) <=> v[x] > v[y]
  BY DEF ByKey
<1>2. \A x, y \in S : x # y => v[x] # v[y]
  BY DEF OneToOne
<1>3. \A x \in S : v[x] \in Int
  OBVIOUS
<1> QED
  BY <1>1, <1>2, <1>3 DEF Orders

Above(v, S, x) == {y \in S : v[y] > v[x]}

Descends(s, v, S) ==
    /\ s \in [1 .. Cardinality(S) -> S]
    /\ \A i, j \in 1 .. Cardinality(S) : i < j => v[s[i]] > v[s[j]]

LEMMA DescendsIs ==
    ASSUME NEW S, NEW v, NEW s
    PROVE  Descends(s, v, S) <=> Sorts(s, ByKey(v, S), S)
<1>1. \A x, y \in S : <<x, y>> \in ByKey(v, S) <=> v[x] > v[y]
  BY DEF ByKey
<1> QED
  BY <1>1 DEF Sorts, Descends

LEMMA CanDescend ==
    ASSUME NEW S, IsFiniteSet(S), NEW v \in [S -> Int], OneToOne(v, S)
    PROVE  \E s : Descends(s, v, S)
BY KeyOrders, CanBeSorted, DescendsIs

LEMMA DescendingIs ==
    ASSUME NEW S, IsFiniteSet(S), NEW v \in [S -> Int], OneToOne(v, S), NEW s, Descends(s, v, S)
    PROVE  /\ Cardinality(S) \in Nat  /\ s \in [1 .. Cardinality(S) -> S]
           /\ \A x \in S : \E i \in 1 .. Cardinality(S) : s[i] = x
           /\ \A i \in 1 .. Cardinality(S) : Cardinality(Above(v, S, s[i])) = i - 1
<1>1. Orders(ByKey(v, S), S) /\ Sorts(s, ByKey(v, S), S)
  BY KeyOrders, DescendsIs
<1>2. /\ Cardinality(S) \in Nat  /\ s \in [1 .. Cardinality(S) -> S]
      /\ \A x \in S : \E i \in 1 .. Cardinality(S) : s[i] = x
      /\ \A i \in 1 .. Cardinality(S) : Cardinality(AheadOf(ByKey(v, S), S, s[i])) = i - 1
  <2> DEFINE R == ByKey(v, S)
  <2> HIDE DEF R
  <2>1. Orders(R, S) /\ Sorts(s, R, S)
    BY <1>1 DEF R
  <2>2. /\ Cardinality(S) \in Nat  /\ s \in [1 .. Cardinality(S) -> S]
        /\ \A x \in S : \E i \in 1 .. Cardinality(S) : s[i] = x
        /\ \A i \in 1 .. Cardinality(S) : Cardinality(AheadOf(R, S, s[i])) = i - 1
    BY <2>1, SortedIs
  <2> QED
    BY <2>2 DEF R
<1>3. \A x \in S : AheadOf(ByKey(v, S), S, x) = Above(v, S, x)
  BY DEF AheadOf, ByKey, Above
<1>4. \A i \in 1 .. Cardinality(S) : Cardinality(Above(v, S, s[i])) = i - 1
  <2> SUFFICES ASSUME NEW i \in 1 .. Cardinality(S)
               PROVE  Cardinality(Above(v, S, s[i])) = i - 1
    OBVIOUS
  <2>1. AheadOf(ByKey(v, S), S, s[i]) = Above(v, S, s[i])
    BY <1>2, <1>3
  <2>2. Cardinality(AheadOf(ByKey(v, S), S, s[i])) = i - 1
    BY <1>2
  <2> QED
    BY <2>1, <2>2
<1> QED
  BY <1>2, <1>4

Newest(S) == SortedBy(S, LAMBDA x, y : x.at > y.at)
Highest(S) == SortedBy(S, LAMBDA x, y : x.slot > y.slot)

LEMMA NewestFirst ==
    ASSUME NEW S, IsFiniteSet(S), \A x \in S : x.at \in Int, \A x, y \in S : x.at = y.at => x = y,
           NEW k \in Int
    PROVE  {Newest(S)[i] : i \in {j \in DOMAIN Newest(S) : j <= k}} = Latest(S, k)
<1> DEFINE v == [x \in S |-> x.at]
           n == Cardinality(S)
           s == Newest(S)
<1>1. v \in [S -> Int] /\ OneToOne(v, S)
  BY DEF OneToOne
<1>2. s = CHOOSE z \in [1 .. n -> S] : \A i, j \in 1 .. n : i < j => z[i].at > z[j].at
  BY DEF Newest, SortedBy
<1>3. \A z \in [1 .. n -> S] : \A i \in 1 .. n : z[i].at = v[z[i]]
  OBVIOUS
<1>4. Descends(s, v, S)
  <2> HIDE DEF s, v
  <2>1. PICK z : Descends(z, v, S)
    BY <1>1, CanDescend
  <2>2. z \in [1 .. n -> S] /\ \A i, j \in 1 .. n : i < j => z[i].at > z[j].at
    BY <1>3, <2>1 DEF Descends
  <2>3. s \in [1 .. n -> S] /\ \A i, j \in 1 .. n : i < j => s[i].at > s[j].at
    BY <1>2, <2>2
  <2> QED
    BY <1>3, <2>3 DEF Descends
<1>5. /\ n \in Nat  /\ s \in [1 .. n -> S]
      /\ \A x \in S : \E i \in 1 .. n : s[i] = x
      /\ \A i \in 1 .. n : Cardinality(Above(v, S, s[i])) = i - 1
  <2> HIDE DEF s, v
  <2> QED
    BY <1>1, <1>4, DescendingIs
<1>6. \A x \in S : Above(v, S, x) = {y \in S : y.at > x.at}
  BY DEF Above
<1>7. \A x : x \in Latest(S, k) <=> x \in S /\ Cardinality({y \in S : y.at > x.at}) < k
  BY DEF Latest, Quantify
<1> HIDE DEF s, v, n
<1>8. \A i \in 1 .. n : s[i] \in S /\ (s[i] \in Latest(S, k) <=> i <= k)
  <2> SUFFICES ASSUME NEW i \in 1 .. n PROVE s[i] \in S /\ (s[i] \in Latest(S, k) <=> i <= k)
    OBVIOUS
  <2>1. s[i] \in S /\ Cardinality({y \in S : y.at > s[i].at}) = i - 1
    BY <1>5, <1>6
  <2>2. s[i] \in Latest(S, k) <=> i - 1 < k
    BY <1>7, <2>1
  <2>3. i - 1 < k <=> i <= k
    BY <1>5
  <2> QED
    BY <2>1, <2>2, <2>3
<1>9. DOMAIN s = 1 .. n
  BY <1>5
<1>10. {s[i] : i \in {j \in 1 .. n : j <= k}} = Latest(S, k)
  <2>1. \A x \in Latest(S, k) : \E i \in 1 .. n : s[i] = x /\ i <= k
    BY <1>5, <1>7, <1>8
  <2>2. \A i \in 1 .. n : i <= k => s[i] \in Latest(S, k)
    BY <1>8
  <2> QED
    BY <2>1, <2>2
<1> QED
  BY <1>9, <1>10 DEF s

LEMMA HighestFirst ==
    ASSUME NEW S, IsFiniteSet(S), \A x \in S : x.slot \in Int,
           \A x, y \in S : x.slot = y.slot => x = y, NEW k \in Int
    PROVE  {Highest(S)[i] : i \in {j \in DOMAIN Highest(S) : j > k}}
               = {x \in S : Quantify(S, LAMBDA y : y.slot > x.slot) >= k}
<1> DEFINE v == [x \in S |-> x.slot]
           n == Cardinality(S)
           s == Highest(S)
           Outranked == {x \in S : Cardinality({y \in S : y.slot > x.slot}) >= k}
<1>1. v \in [S -> Int] /\ OneToOne(v, S)
  BY DEF OneToOne
<1>2. s = CHOOSE z \in [1 .. n -> S] : \A i, j \in 1 .. n : i < j => z[i].slot > z[j].slot
  BY DEF Highest, SortedBy
<1>3. \A z \in [1 .. n -> S] : \A i \in 1 .. n : z[i].slot = v[z[i]]
  OBVIOUS
<1>4. Descends(s, v, S)
  <2> HIDE DEF s, v
  <2>1. PICK z : Descends(z, v, S)
    BY <1>1, CanDescend
  <2>2. z \in [1 .. n -> S] /\ \A i, j \in 1 .. n : i < j => z[i].slot > z[j].slot
    BY <1>3, <2>1 DEF Descends
  <2>3. s \in [1 .. n -> S] /\ \A i, j \in 1 .. n : i < j => s[i].slot > s[j].slot
    BY <1>2, <2>2
  <2> QED
    BY <1>3, <2>3 DEF Descends
<1>5. /\ n \in Nat  /\ s \in [1 .. n -> S]
      /\ \A x \in S : \E i \in 1 .. n : s[i] = x
      /\ \A i \in 1 .. n : Cardinality(Above(v, S, s[i])) = i - 1
  <2> HIDE DEF s, v
  <2> QED
    BY <1>1, <1>4, DescendingIs
<1>6. \A x \in S : Above(v, S, x) = {y \in S : y.slot > x.slot}
  BY DEF Above
<1>7. \A x : x \in Outranked <=> x \in S /\ Cardinality({y \in S : y.slot > x.slot}) >= k
  OBVIOUS
<1> HIDE DEF s, v, n, Outranked
<1>8. \A i \in 1 .. n : s[i] \in S /\ (s[i] \in Outranked <=> i > k)
  <2> SUFFICES ASSUME NEW i \in 1 .. n PROVE s[i] \in S /\ (s[i] \in Outranked <=> i > k)
    OBVIOUS
  <2>1. s[i] \in S /\ Cardinality({y \in S : y.slot > s[i].slot}) = i - 1
    BY <1>5, <1>6
  <2>2. s[i] \in Outranked <=> i - 1 >= k
    BY <1>7, <2>1
  <2>3. i - 1 >= k <=> i > k
    BY <1>5
  <2> QED
    BY <2>1, <2>2, <2>3
<1>9. DOMAIN s = 1 .. n
  BY <1>5
<1>10. {s[i] : i \in {j \in 1 .. n : j > k}} = Outranked
  <2>1. \A x \in Outranked : \E i \in 1 .. n : s[i] = x /\ i > k
    BY <1>5, <1>7, <1>8
  <2>2. \A i \in 1 .. n : i > k => s[i] \in Outranked
    BY <1>8
  <2> QED
    BY <2>1, <2>2
<1> QED
  BY <1>9, <1>10 DEF s, Outranked, Quantify

-----------------------------------------------------------------------------
(***************************************************************************)
(* The invariant: the dictionaries mirror the database, and an open unit's *)
(* copy mirrors what the database had before it.                           *)
(***************************************************************************)

IsStore(t) == t = [f \in {"notices", "views", "visits", "offers", "searches", "prefs", "creds",
                          "devices", "subs", "ledger", "log", "users", "logins"} |-> t[f]]

NoticeRows(rows) == \A a \in rows : a.starts \in Int /\ a.ends \in Int

Offer(last) ==
    [id : Ids, search : Ids, status : DOMAIN After, response : BOOLEAN, interview : BOOLEAN,
     at : NoTime .. last, sent : NoTime .. last]
OfferRows(rows, last) ==
    IsFiniteSet(rows) /\ rows \subseteq Offer(last) /\ \A o, q \in rows : o.id = q.id => o = q
Undate(o) == [o EXCEPT !.at = NoTime, !.sent = NoTime]
Undated(rows) == {Undate(o) : o \in rows}

\* No two were saved at one time.
SearchRows(rows) ==
    /\ IsFiniteSet(rows)  /\ \A x \in rows : x.at \in Int
    /\ \A x, y \in rows : x.at = y.at => x = y

DeviceRow(last) ==
    [id : Ids, owner : People, slot : Ids, board : Sites \union {NoBoard}, uses : Nat,
     retired : NoTime .. last]
DeviceRows(rows, last) ==
    /\ IsFiniteSet(rows)  /\ rows \subseteq DeviceRow(last)
    /\ \A x, y \in rows : x.id = y.id => x = y
    /\ \A x, y \in rows : x.owner = y.owner /\ x.slot = y.slot => x = y

Subscription == [id : People, credits : Int, active : BOOLEAN]
SubRows(rows) ==
    /\ rows \subseteq Subscription
    /\ \A x, y \in rows : x.id = y.id => x = y

LedgerRows(rows) ==
    /\ IsFiniteSet(rows)
    /\ \A e \in rows : /\ e.id \in Nat  /\ e.id <= Cardinality(rows)
                       /\ e.at \in Nat  /\ e.user \in People

UserRows(rows) == rows \subseteq [id : People, name : {"first", "second"}]
LoginRow ==
    [id : People, at : Nat, verified : BOOLEAN, active : BOOLEAN, admin : BOOLEAN, optOut : BOOLEAN]
LoginRows(t) == t.logins \subseteq LoginRow /\ \A x \in t.logins : Has(t.users, x.id)

Sound(t, last) ==
    /\ IsStore(t)
    /\ NoticeRows(t.notices)  /\ VisitRows(t.visits)  /\ OfferRows(t.offers, last)
    /\ SearchRows(t.searches)  /\ DeviceRows(t.devices, last)
    /\ SubRows(t.subs)  /\ LedgerRows(t.ledger)  /\ UserRows(t.users)  /\ LoginRows(t)

Mirrors(t, m) ==
    /\ IsStore(m)
    /\ t.notices = m.notices  /\ t.views = m.views  /\ t.visits = m.visits
    /\ t.searches = m.searches  /\ t.prefs = m.prefs  /\ t.creds = m.creds
    /\ t.devices = m.devices  /\ t.subs = m.subs  /\ t.ledger = m.ledger
    /\ t.log = m.log  /\ t.users = m.users
    /\ m.offers = Undated(t.offers)
    /\ t.logins = {x \in m.logins : Has(t.users, x.id)}

Twins(t, m, last) == Sound(t, last) /\ Mirrors(t, m)

StoreInv ==
    /\ area \in Areas  /\ Ticks[area] \in Nat  /\ clock \in 0 .. Ticks[area]
    /\ Sound(sql, Ticks[area])
    /\ \A u, v \in unit : u = v
    /\ unit = {} => Mirrors(sql, mem)
    /\ \A u \in unit :
          /\ Mirrors(sql, u.snapshot)
          /\ ~u.raises => Twins(u.session, mem, Ticks[area])

LEMMA StoreInvInit == StoresInit => StoreInv
<1> SUFFICES ASSUME StoresInit PROVE StoreInv
  OBVIOUS
<1>1. area \in Areas /\ Ticks[area] \in Nat /\ clock \in 0 .. Ticks[area] /\ unit = {}
  BY StoresAssumption DEF StoresInit
<1>2. sql = Empty /\ mem = Empty /\ IsStore(Empty)
  BY DEF StoresInit, Empty, IsStore
<1>3. IsFiniteSet({}) /\ Cardinality({}) = 0
  BY FS_EmptySet
<1>4. Sound(Empty, Ticks[area])
  BY <1>2, <1>3 DEF Empty, Sound, NoticeRows, VisitRows, OfferRows, SearchRows, DeviceRows,
                    SubRows, LedgerRows, UserRows, LoginRows
<1>5. Mirrors(Empty, Empty)
  BY <1>2 DEF Empty, Mirrors, Undated
<1> QED
  BY <1>1, <1>2, <1>4, <1>5 DEF StoreInv

\* One table is written in both.
LEMMA NoticesTwin ==
    ASSUME NEW t, NEW m, NEW last, Twins(t, m, last), NEW e, NoticeRows(e)
    PROVE  Twins([t EXCEPT !.notices = e], [m EXCEPT !.notices = e], last)
BY DEF Twins, Sound, Mirrors, IsStore, LoginRows

LEMMA ViewsTwin ==
    ASSUME NEW t, NEW m, NEW last, Twins(t, m, last), NEW e
    PROVE  Twins([t EXCEPT !.views = e], [m EXCEPT !.views = e], last)
BY DEF Twins, Sound, Mirrors, IsStore, LoginRows

LEMMA VisitsTwin ==
    ASSUME NEW t, NEW m, NEW last, Twins(t, m, last), NEW e, VisitRows(e)
    PROVE  Twins([t EXCEPT !.visits = e], [m EXCEPT !.visits = e], last)
BY DEF Twins, Sound, Mirrors, IsStore, LoginRows

LEMMA OffersTwin ==
    ASSUME NEW t, NEW m, NEW last, Twins(t, m, last), NEW e, OfferRows(e, last)
    PROVE  Twins([t EXCEPT !.offers = e], [m EXCEPT !.offers = Undated(e)], last)
BY DEF Twins, Sound, Mirrors, IsStore, LoginRows

LEMMA SearchesTwin ==
    ASSUME NEW t, NEW m, NEW last, Twins(t, m, last), NEW e, SearchRows(e)
    PROVE  Twins([t EXCEPT !.searches = e], [m EXCEPT !.searches = e], last)
BY DEF Twins, Sound, Mirrors, IsStore, LoginRows

LEMMA PrefsTwin ==
    ASSUME NEW t, NEW m, NEW last, Twins(t, m, last), NEW e
    PROVE  Twins([t EXCEPT !.prefs = e], [m EXCEPT !.prefs = e], last)
BY DEF Twins, Sound, Mirrors, IsStore, LoginRows

LEMMA CredsTwin ==
    ASSUME NEW t, NEW m, NEW last, Twins(t, m, last), NEW e
    PROVE  Twins([t EXCEPT !.creds = e], [m EXCEPT !.creds = e], last)
BY DEF Twins, Sound, Mirrors, IsStore, LoginRows

LEMMA DevicesTwin ==
    ASSUME NEW t, NEW m, NEW last, Twins(t, m, last), NEW e, DeviceRows(e, last)
    PROVE  Twins([t EXCEPT !.devices = e], [m EXCEPT !.devices = e], last)
BY DEF Twins, Sound, Mirrors, IsStore, LoginRows

LEMMA SubsTwin ==
    ASSUME NEW t, NEW m, NEW last, Twins(t, m, last), NEW e, SubRows(e)
    PROVE  Twins([t EXCEPT !.subs = e], [m EXCEPT !.subs = e], last)
BY DEF Twins, Sound, Mirrors, IsStore, LoginRows

LEMMA LedgerTwin ==
    ASSUME NEW t, NEW m, NEW last, Twins(t, m, last), NEW e, LedgerRows(e)
    PROVE  Twins([t EXCEPT !.ledger = e], [m EXCEPT !.ledger = e], last)
BY DEF Twins, Sound, Mirrors, IsStore, LoginRows

LEMMA LogTwin ==
    ASSUME NEW t, NEW m, NEW last, Twins(t, m, last), NEW e
    PROVE  Twins([t EXCEPT !.log = e], [m EXCEPT !.log = e], last)
BY DEF Twins, Sound, Mirrors, IsStore, LoginRows

LEMMA AccountsTwin ==
    ASSUME NEW t, NEW m, NEW last, Twins(t, m, last), NEW us, NEW ls, NEW ks,
           UserRows(us), ls \subseteq LoginRow, ls = {x \in ks : Has(us, x.id)}
    PROVE  Twins([t EXCEPT !.users = us, !.logins = ls],
                 [m EXCEPT !.users = us, !.logins = ks], last)
<1>1. \A x \in ls : Has(us, x.id)
  OBVIOUS
<1> QED
  BY <1>1 DEF Twins, Sound, Mirrors, IsStore, LoginRows

LEMMA FieldsOfTwins ==
    ASSUME NEW t, NEW m, NEW last, Twins(t, m, last)
    PROVE  /\ IsStore(t)  /\ IsStore(m)
           /\ NoticeRows(t.notices)  /\ VisitRows(t.visits)  /\ OfferRows(t.offers, last)
           /\ SearchRows(t.searches)  /\ DeviceRows(t.devices, last)
           /\ SubRows(t.subs)  /\ LedgerRows(t.ledger)  /\ UserRows(t.users)  /\ LoginRows(t)
           /\ t.notices = m.notices  /\ t.views = m.views  /\ t.visits = m.visits
           /\ t.searches = m.searches  /\ t.prefs = m.prefs  /\ t.creds = m.creds
           /\ t.devices = m.devices  /\ t.subs = m.subs  /\ t.ledger = m.ledger
           /\ t.log = m.log  /\ t.users = m.users
           /\ m.offers = Undated(t.offers)
           /\ t.logins = {x \in m.logins : Has(t.users, x.id)}
BY DEF Twins, Sound, Mirrors

-----------------------------------------------------------------------------
(***************************************************************************)
(* Every operation writes the same rows in both.                           *)
(***************************************************************************)

LEMMA SaveNoticeTwins ==
    ASSUME NEW t, NEW m, NEW last, Twins(t, m, last), NEW a, a.starts \in Int, a.ends \in Int
    PROVE  Twins(SqlSaveNotice(t, a), MemSaveNotice(m, a), last)
<1>1. t.notices = m.notices /\ NoticeRows(t.notices)
  BY FieldsOfTwins
<1>2. NoticeRows(Put(t.notices, a))
  BY <1>1 DEF NoticeRows, Put
<1>3. Twins([t EXCEPT !.notices = Put(t.notices, a)], [m EXCEPT !.notices = Put(t.notices, a)], last)
  BY <1>2, NoticesTwin
<1> QED
  BY <1>1, <1>3 DEF SqlSaveNotice, MemSaveNotice

LEMMA DeleteNoticeTwins ==
    ASSUME NEW t, NEW m, NEW last, Twins(t, m, last), NEW n
    PROVE  Twins(SqlDeleteNotice(t, n), MemDeleteNotice(m, n), last)
<1>1. t.notices = m.notices /\ t.views = m.views /\ NoticeRows(t.notices)
  BY FieldsOfTwins
<1> DEFINE ns == {a \in t.notices : a.id # n}
           vs == {v \in t.views : v[2] # n}
<1>2. NoticeRows(ns)
  BY <1>1 DEF NoticeRows
<1>3. Twins([t EXCEPT !.notices = ns], [m EXCEPT !.notices = ns], last)
  BY <1>2, NoticesTwin
<1>4. Twins([[t EXCEPT !.notices = ns] EXCEPT !.views = vs],
            [[m EXCEPT !.notices = ns] EXCEPT !.views = vs], last)
  BY <1>3, ViewsTwin
<1> QED
  BY <1>1, <1>4 DEF SqlDeleteNotice, MemDeleteNotice

LEMMA DismissTwins ==
    ASSUME NEW t, NEW m, NEW last, Twins(t, m, last), NEW p, NEW n
    PROVE  Twins(SqlDismiss(t, p, n), MemDismiss(m, p, n), last)
<1>1. t.views = m.views /\ IsStore(m)
  BY FieldsOfTwins
<1> DEFINE vs == t.views \union {<<p, n>>}
<1>2. Twins([t EXCEPT !.views = vs], [m EXCEPT !.views = vs], last)
  BY ViewsTwin
<1>3. <<p, n>> \in m.views => [m EXCEPT !.views = vs] = m
  BY <1>1 DEF IsStore
<1> QED
  BY <1>1, <1>2, <1>3 DEF SqlDismiss, MemDismiss

LEMMA PruneTwins ==
    ASSUME NEW t, NEW m, NEW last, Twins(t, m, last), NEW cutoff \in Int
    PROVE  Twins(SqlPrune(t, cutoff), MemPrune(m, cutoff), last)
<1>1. t.visits = m.visits /\ VisitRows(t.visits)
  BY FieldsOfTwins
<1> DEFINE vs == {x \in t.visits : x.at >= cutoff}
<1>2. {x \in t.visits : ~(x.at < cutoff)} = vs
  BY <1>1 DEF VisitRows
<1>3. VisitRows(vs)
  <2>1. IsFiniteSet(vs)
    BY <1>1, FS_Subset DEF VisitRows
  <2> QED
    BY <1>1, <2>1 DEF VisitRows
<1>4. Twins([t EXCEPT !.visits = vs], [m EXCEPT !.visits = vs], last)
  BY <1>3, VisitsTwin
<1> QED
  BY <1>1, <1>2, <1>4 DEF SqlPrune, MemPrune

\* There are fewer rows than keys.
LEMMA KeyIsFresh ==
    ASSUME NEW rows, IsFiniteSet(rows), Cardinality(rows) < MaxRows
    PROVE  FreshKey(rows) \in 1 .. MaxRows + 1 /\ ~Has(rows, FreshKey(rows))
<1>1. SUFFICES \E n \in 1 .. MaxRows + 1 : ~Has(rows, n)
  BY DEF FreshKey
<1>2. SUFFICES ASSUME \A n \in 1 .. MaxRows + 1 : Has(rows, n) PROVE FALSE
  OBVIOUS
<1> DEFINE f == [x \in rows |-> x.id]
           keys == Images(f, rows)
<1>3. MaxRows \in Nat
  BY StoresAssumption
<1>4. 1 .. MaxRows + 1 \subseteq keys
  BY <1>2 DEF Has, Images
<1>5. IsFiniteSet(keys) /\ Cardinality(keys) <= Cardinality(rows)
  BY ImageIsFinite
<1>6. Cardinality(1 .. MaxRows + 1) = MaxRows + 1
  BY <1>3, FS_Interval
<1>7. Cardinality(1 .. MaxRows + 1) <= Cardinality(keys)
  BY <1>4, <1>5, FS_Subset
<1>8. Cardinality(rows) \in Nat /\ Cardinality(keys) \in Nat
  BY <1>5, FS_CardinalityType
<1> QED
  BY <1>3, <1>5, <1>6, <1>7, <1>8

LEMMA SaveVisitTwins ==
    ASSUME NEW t, NEW m, NEW last, Twins(t, m, last), NEW x, x.at \in Int, x.id \in Int,
           x.visitor \in Visitors, ~Has(t.visits, x.id)
    PROVE  Twins(SqlSaveVisit(t, x), MemSaveVisit(m, x), last)
<1>1. t.visits = m.visits /\ VisitRows(t.visits)
  BY FieldsOfTwins
<1> DEFINE vs == t.visits \union {x}
<1>2. Put(t.visits, x) = vs
  BY DEF Put, Has
<1>3. VisitRows(vs)
  <2>1. IsFiniteSet(vs)
    BY <1>1, FS_AddElement DEF VisitRows
  <2>2. \A y \in vs : y.at \in Int /\ y.id \in Int /\ y.visitor \in Visitors
    BY <1>1 DEF VisitRows
  <2>3. \A y, z \in vs : y.id = z.id => y = z
    BY <1>1 DEF VisitRows, Has
  <2> QED
    BY <2>1, <2>2, <2>3 DEF VisitRows
<1>4. Twins([t EXCEPT !.visits = vs], [m EXCEPT !.visits = vs], last)
  BY <1>3, VisitsTwin
<1> QED
  BY <1>1, <1>2, <1>4 DEF SqlSaveVisit, MemSaveVisit

LEMMA SavePreferencesTwins ==
    ASSUME NEW t, NEW m, NEW last, Twins(t, m, last), NEW x
    PROVE  Twins(SqlSavePreferences(t, x), MemSavePreferences(m, x), last)
<1>1. t.prefs = m.prefs
  BY FieldsOfTwins
<1>2. Twins([t EXCEPT !.prefs = Put(t.prefs, x)], [m EXCEPT !.prefs = Put(t.prefs, x)], last)
  BY PrefsTwin
<1> QED
  BY <1>1, <1>2 DEF SqlSavePreferences, MemSavePreferences

LEMMA SetCredentialsTwins ==
    ASSUME NEW t, NEW m, NEW last, Twins(t, m, last), NEW p, NEW given
    PROVE  Twins(SqlSetCredentials(t, p, given), MemSetCredentials(m, p, given), last)
<1>1. t.creds = m.creds
  BY FieldsOfTwins
<1> DEFINE new == UNION {Credential(p, b, {c \in t.creds : c.id = <<p, b>>}, given[b]) : b \in Sites}
<1>2. Twins([t EXCEPT !.creds = PutAll(t.creds, new)], [m EXCEPT !.creds = PutAll(t.creds, new)], last)
  BY CredsTwin
<1>3. SqlSetCredentials(t, p, given) = [t EXCEPT !.creds = PutAll(t.creds, new)]
  BY DEF SqlSetCredentials, SqlSaveCredentials, SqlCredential
<1>4. MemSetCredentials(m, p, given) = [m EXCEPT !.creds = PutAll(t.creds, new)]
  BY <1>1 DEF MemSetCredentials, MemSaveCredentials, MemCredential
<1> QED
  BY <1>2, <1>3, <1>4

LEMMA LogTwins ==
    ASSUME NEW t, NEW m, NEW last, Twins(t, m, last), NEW p, NEW kind
    PROVE  Twins(SqlLog(t, p, kind), MemLog(m, p, kind), last)
<1>1. t.log = m.log /\ IsStore(m)
  BY FieldsOfTwins
<1> DEFINE ls == t.log \union {<<p, kind>>}
<1>2. Twins([t EXCEPT !.log = ls], [m EXCEPT !.log = ls], last)
  BY LogTwin
<1>3. <<p, kind>> \in m.log => [m EXCEPT !.log = ls] = m
  BY <1>1 DEF IsStore
<1> QED
  BY <1>1, <1>2, <1>3 DEF SqlLog, MemLog

LEMMA PutIsFinite ==
    ASSUME NEW rows, IsFiniteSet(rows), NEW x
    PROVE  IsFiniteSet(Put(rows, x))
<1>1. IsFiniteSet({y \in rows : y.id # x.id})
  BY FS_Subset
<1> QED
  BY <1>1, FS_AddElement DEF Put

LEMMA UndateIs ==
    ASSUME NEW last \in Nat, NEW o \in Offer(last)
    PROVE  /\ Undate(o) \in Offer(last)
           /\ Undate(o).id = o.id  /\ Undate(o).search = o.search  /\ Undate(o).status = o.status
           /\ Undate(o).response = o.response  /\ Undate(o).interview = o.interview
           /\ Undate(o).at = NoTime  /\ Undate(o).sent = NoTime
<1>1. NoTime \in NoTime .. last
  BY DEF NoTime
<1>2. Undate(o) = [o EXCEPT !.at = NoTime, !.sent = NoTime]
  BY DEF Undate
<1> QED
  BY <1>1, <1>2 DEF Offer

LEMMA SaveOfferTwins ==
    ASSUME NEW t, NEW m, NEW last \in Nat, Twins(t, m, last), clock \in 0 .. last,
           NEW o \in Offer(last)
    PROVE  Twins(SqlSaveOffer(t, o), MemSaveOffer(m, Undate(o)), last)
<1>1. m.offers = Undated(t.offers) /\ OfferRows(t.offers, last)
  BY FieldsOfTwins
<1> DEFINE os == Put(t.offers, Dated(o))
<1>2. Dated(o) \in Offer(last) /\ Undate(Dated(o)) = Undate(o) /\ Dated(o).id = o.id
  <2>1. \E when, sent \in NoTime .. last : Dated(o) = [o EXCEPT !.at = when, !.sent = sent]
    <3>1. /\ (IF o.at = NoTime THEN clock ELSE o.at) \in NoTime .. last
          /\ (IF o.status = "SUBMITTED" /\ o.sent = NoTime THEN clock ELSE o.sent) \in NoTime .. last
      BY DEF Offer, NoTime
    <3> QED
      BY <3>1 DEF Dated
  <2>2. PICK when \in NoTime .. last, sent \in NoTime .. last :
            Dated(o) = [o EXCEPT !.at = when, !.sent = sent]
    BY <2>1
  <2>3. Dated(o) \in Offer(last) /\ Dated(o).id = o.id
    BY <2>2 DEF Offer
  <2>4. Undate(Dated(o)) = Undate(o)
    BY <2>2 DEF Undate, Offer
  <2> QED
    BY <2>3, <2>4
<1>3. OfferRows(os, last)
  <2>1. IsFiniteSet(os)
    BY <1>1, PutIsFinite DEF OfferRows
  <2>2. os \subseteq Offer(last) /\ \A q, r \in os : q.id = r.id => q = r
    BY <1>1, <1>2 DEF OfferRows, Put
  <2> QED
    BY <2>1, <2>2 DEF OfferRows
<1>4. Undated(os) = Put(m.offers, Undate(o))
  <2>1. \A q \in t.offers : Undate(q).id = q.id
    BY <1>1, UndateIs DEF OfferRows
  <2>2. Undate(o).id = o.id
    BY UndateIs
  <2> QED
    BY <1>1, <1>2, <2>1, <2>2 DEF Undated, Put
<1>5. Twins([t EXCEPT !.offers = os], [m EXCEPT !.offers = Undated(os)], last)
  BY <1>3, OffersTwin
<1> QED
  BY <1>4, <1>5 DEF SqlSaveOffer, MemSaveOffer

LEMMA DraftIs ==
    ASSUME NEW last \in Nat, NEW n \in Ids, NEW s \in Ids
    PROVE  Draft(n, s) \in Offer(last) /\ Undate(Draft(n, s)) = Draft(n, s)
<1>1. NoTime \in NoTime .. last /\ "GENERATED" \in DOMAIN After
  BY DEF NoTime, After
<1>2. Draft(n, s) \in Offer(last)
  BY <1>1 DEF Draft, Offer
<1>3. Undate(Draft(n, s)) = Draft(n, s)
  <2>1. Draft(n, s).at = NoTime /\ Draft(n, s).sent = NoTime
    BY DEF Draft
  <2> QED
    BY <1>2, <2>1 DEF Undate, Offer
<1> QED
  BY <1>2, <1>3

LEMMA MovedIs ==
    ASSUME NEW t, NEW m, NEW last \in Nat, Twins(t, m, last), NEW n, Has(t.offers, n),
           NEW st \in DOMAIN After, NEW keepsDates \in BOOLEAN
    PROVE  /\ Moved(t, n, st, keepsDates) \in Offer(last)
           /\ Moved(m, n, st, keepsDates) = Undate(Moved(t, n, st, keepsDates))
<1>1. m.offers = Undated(t.offers) /\ OfferRows(t.offers, last)
  BY FieldsOfTwins
<1>2. PICK o \in t.offers : o.id = n
  BY DEF Has
<1>3. o \in Offer(last) /\ \A x \in t.offers : x.id = n => x = o
  BY <1>1, <1>2 DEF OfferRows
<1> DEFINE c == CHOOSE x \in t.offers : x.id = n
           d == CHOOSE x \in m.offers : x.id = n
<1>4. c = o
  BY <1>2, <1>3
<1>5. Undate(o) \in m.offers /\ Undate(o).id = n /\ \A x \in m.offers : x.id = n => x = Undate(o)
  <2>1. \A q \in t.offers : Undate(q).id = q.id
    BY <1>1, UndateIs DEF OfferRows
  <2> QED
    BY <1>1, <1>2, <1>3, <2>1 DEF Undated
<1>6. d = Undate(o)
  BY <1>5
<1>7. /\ Moved(t, n, st, keepsDates) = [c EXCEPT !.status = st, !.at = IF keepsDates THEN @ ELSE NoTime]
      /\ Moved(m, n, st, keepsDates) = [d EXCEPT !.status = st, !.at = IF keepsDates THEN @ ELSE NoTime]
  BY DEF Moved
<1> HIDE DEF c, d
<1>8. NoTime \in NoTime .. last
  BY DEF NoTime
<1>9. Moved(t, n, st, keepsDates) \in Offer(last)
  BY <1>3, <1>4, <1>7, <1>8 DEF Offer
<1>10. Moved(m, n, st, keepsDates) = Undate(Moved(t, n, st, keepsDates))
  BY <1>3, <1>4, <1>6, <1>7 DEF Undate, Offer
<1> QED
  BY <1>9, <1>10

\* What a toggle does to an offer.
Toggle(o, p, n, field, b) ==
    IF o.id = n /\ o.status = "SUBMITTED" /\ Owner(o) = p THEN [o EXCEPT ![field] = b] ELSE o

LEMMA ToggledTwins ==
    ASSUME NEW t, NEW m, NEW last \in Nat, Twins(t, m, last), NEW p, NEW n,
           NEW field \in {"response", "interview"}, NEW b \in BOOLEAN
    PROVE  Twins(Toggled(t, p, n, field, b), Toggled(m, p, n, field, b), last)
<1>1. m.offers = Undated(t.offers) /\ OfferRows(t.offers, last)
  BY FieldsOfTwins
<1> DEFINE f == [o \in t.offers |-> Toggle(o, p, n, field, b)]
           os == {Toggle(o, p, n, field, b) : o \in t.offers}
<1>2. \A s : {IF o.id = n /\ o \in SentBy(s, p) THEN [o EXCEPT ![field] = b] ELSE o : o \in s.offers}
                 = {Toggle(o, p, n, field, b) : o \in s.offers}
  BY DEF Toggle, SentBy
<1>3. \A o \in t.offers : /\ Toggle(o, p, n, field, b) \in Offer(last)
                          /\ Toggle(o, p, n, field, b).id = o.id
                          /\ Undate(Toggle(o, p, n, field, b)) = Toggle(Undate(o), p, n, field, b)
  <2> SUFFICES ASSUME NEW o \in t.offers
               PROVE  /\ Toggle(o, p, n, field, b) \in Offer(last)
                      /\ Toggle(o, p, n, field, b).id = o.id
                      /\ Undate(Toggle(o, p, n, field, b)) = Toggle(Undate(o), p, n, field, b)
    OBVIOUS
  <2>1. o \in Offer(last)
    BY <1>1 DEF OfferRows
  <2>2. CASE field = "response"
    BY <2>1, <2>2 DEF Toggle, Undate, Offer, Owner
  <2>3. CASE field = "interview"
    BY <2>1, <2>3 DEF Toggle, Undate, Offer, Owner
  <2> QED
    BY <2>2, <2>3
<1>4. OfferRows(os, last)
  <2>1. IsFiniteSet(os)
    <3>1. Images(f, t.offers) = os
      BY DEF Images
    <3> QED
      BY <1>1, <3>1, ImageIsFinite DEF OfferRows
  <2>2. os \subseteq Offer(last) /\ \A q, r \in os : q.id = r.id => q = r
    BY <1>1, <1>3 DEF OfferRows
  <2> QED
    BY <2>1, <2>2 DEF OfferRows
<1>5. Undated(os) = {Toggle(o, p, n, field, b) : o \in m.offers}
  BY <1>1, <1>3 DEF Undated
<1>6. Twins([t EXCEPT !.offers = os], [m EXCEPT !.offers = Undated(os)], last)
  BY <1>4, OffersTwin
<1> QED
  BY <1>2, <1>5, <1>6 DEF Toggled

LEMMA CleanupTwins ==
    ASSUME NEW t, NEW m, NEW last \in Nat, Twins(t, m, last), NEW s, NEW st
    PROVE  Twins(SqlCleanup(t, s, st), MemCleanup(m, s, st), last)
<1>1. m.offers = Undated(t.offers) /\ OfferRows(t.offers, last)
  BY FieldsOfTwins
<1> DEFINE os == t.offers \ OffersAs(t, s, st)
<1>2. OfferRows(os, last)
  <2>1. IsFiniteSet(os)
    BY <1>1, FS_Subset DEF OfferRows
  <2> QED
    BY <1>1, <2>1 DEF OfferRows
<1>3. Undated(os) = {o \in m.offers : o.search # s \/ o.status # st}
  <2>1. \A q \in t.offers : Undate(q).search = q.search /\ Undate(q).status = q.status
    BY <1>1, UndateIs DEF OfferRows
  <2> QED
    BY <1>1, <2>1 DEF Undated, OffersAs
<1>4. Twins([t EXCEPT !.offers = os], [m EXCEPT !.offers = Undated(os)], last)
  BY <1>2, OffersTwin
<1> QED
  BY <1>3, <1>4 DEF SqlCleanup, MemCleanup

LEMMA SaveSearchTwins ==
    ASSUME NEW t, NEW m, NEW last, Twins(t, m, last), NEW x, x.at \in Int,
           \A y \in t.searches : y.at # x.at
    PROVE  Twins(SqlSaveSearch(t, x), MemSaveSearch(m, x), last)
<1>1. t.searches = m.searches /\ SearchRows(t.searches)
  BY FieldsOfTwins
<1> DEFINE ss == Put(t.searches, x)
<1>2. SearchRows(ss)
  <2>1. IsFiniteSet(ss)
    BY <1>1, PutIsFinite DEF SearchRows
  <2>2. (\A y \in ss : y.at \in Int) /\ \A y, z \in ss : y.at = z.at => y = z
    BY <1>1 DEF SearchRows, Put
  <2> QED
    BY <2>1, <2>2 DEF SearchRows
<1>3. Twins([t EXCEPT !.searches = ss], [m EXCEPT !.searches = ss], last)
  BY <1>2, SearchesTwin
<1> QED
  BY <1>1, <1>3 DEF SqlSaveSearch, MemSaveSearch

LEMMA SaveDeviceTwins ==
    ASSUME NEW t, NEW m, NEW last \in Nat, Twins(t, m, last), NEW d \in DeviceRow(last),
           \A x \in t.devices : x.id = d.id => x.owner = d.owner /\ x.slot = d.slot
    PROVE  Twins(SqlSaveDevice(t, d), MemSaveDevice(m, d), last)
<1>1. t.devices = m.devices /\ DeviceRows(t.devices, last)
  BY FieldsOfTwins
<1>2. Slot(m, d) = Slot(t, d)
  BY <1>1 DEF Slot
<1>3. ASSUME NEW e \in DeviceRow(last), e.owner = d.owner, e.slot = d.slot,
             \A x \in t.devices : x.id = e.id <=> x \in Slot(t, d)
      PROVE  Twins([t EXCEPT !.devices = Put(t.devices, e)],
                   [m EXCEPT !.devices = Put(t.devices, e)], last)
  <2>1. IsFiniteSet(Put(t.devices, e))
    BY <1>1, PutIsFinite DEF DeviceRows
  <2>2. Put(t.devices, e) \subseteq DeviceRow(last)
    BY <1>1 DEF DeviceRows, Put
  <2>3. \A x, y \in Put(t.devices, e) : x.id = y.id => x = y
    BY <1>1 DEF DeviceRows, Put
  <2>4. \A x, y \in Put(t.devices, e) : x.owner = y.owner /\ x.slot = y.slot => x = y
    BY <1>1, <1>3 DEF DeviceRows, Put, Slot
  <2>5. DeviceRows(Put(t.devices, e), last)
    BY <2>1, <2>2, <2>3, <2>4 DEF DeviceRows
  <2> QED
    BY <2>5, DevicesTwin
<1>4. CASE Slot(t, d) = {}
  <2>1. Twins([t EXCEPT !.devices = Put(t.devices, d)],
              [m EXCEPT !.devices = Put(t.devices, d)], last)
    <3>1. \A x \in t.devices : x.id = d.id <=> x \in Slot(t, d)
      BY <1>4 DEF Slot
    <3> QED
      BY <1>3, <3>1
  <2>2. Put(t.devices, d) = t.devices \union {d}
    BY <1>4 DEF Put, Slot
  <2>3. SqlSaveDevice(t, d) = [t EXCEPT !.devices = Put(t.devices, d)]
    BY <1>4, <2>2 DEF SqlSaveDevice
  <2>4. (CHOOSE x \in {d} : TRUE) = d
    OBVIOUS
  <2>5. {[d EXCEPT !.id = x.id] : x \in Slot(m, d)} = {}
    BY <1>2, <1>4
  <2>6. MemSaveDevice(m, d) = [m EXCEPT !.devices = Put(t.devices, d)]
    BY <1>1, <2>4, <2>5 DEF MemSaveDevice
  <2> QED
    BY <2>1, <2>3, <2>6
<1>5. CASE Slot(t, d) # {}
  <2>1. PICK x \in t.devices : Slot(t, d) = {x} /\ x.owner = d.owner /\ x.slot = d.slot
    BY <1>1, <1>5 DEF DeviceRows, Slot
  <2> DEFINE e == [d EXCEPT !.id = x.id]
  <2>2. e \in DeviceRow(last) /\ e.owner = d.owner /\ e.slot = d.slot /\ e.id = x.id
    BY <1>1, <2>1 DEF DeviceRow, DeviceRows
  <2>3. {[d EXCEPT !.id = y.id] : y \in Slot(t, d)} = {e}
    BY <2>1
  <2> HIDE DEF e
  <2>4. \A y \in t.devices : y.id = e.id <=> y \in Slot(t, d)
    BY <1>1, <2>1, <2>2 DEF DeviceRows
  <2>5. Twins([t EXCEPT !.devices = Put(t.devices, e)],
              [m EXCEPT !.devices = Put(t.devices, e)], last)
    BY <1>3, <2>2, <2>4
  <2>6. Put(t.devices, e) = (t.devices \ Slot(t, d)) \union {e}
    BY <2>4 DEF Put
  <2>7. SqlSaveDevice(t, d) = [t EXCEPT !.devices = Put(t.devices, e)]
    BY <1>5, <2>3, <2>6 DEF SqlSaveDevice
  <2>8. (CHOOSE y \in {e} : TRUE) = e
    OBVIOUS
  <2>9. MemSaveDevice(m, d) = [m EXCEPT !.devices = Put(t.devices, e)]
    BY <1>1, <1>2, <2>3, <2>8 DEF MemSaveDevice
  <2> QED
    BY <2>5, <2>7, <2>9
<1> QED
  BY <1>4, <1>5

LEMMA ChangedDevices ==
    ASSUME NEW rows, NEW last, DeviceRows(rows, last), NEW f \in [rows -> DeviceRow(last)],
           \A x \in rows : f[x].id = x.id /\ f[x].owner = x.owner /\ f[x].slot = x.slot
    PROVE  DeviceRows(Images(f, rows), last)
<1>1. IsFiniteSet(Images(f, rows))
  BY ImageIsFinite DEF DeviceRows
<1>2. Images(f, rows) \subseteq DeviceRow(last)
  BY DEF Images
<1>3. \A x, y \in Images(f, rows) : x.id = y.id => x = y
  BY DEF Images, DeviceRows
<1>4. \A x, y \in Images(f, rows) : x.owner = y.owner /\ x.slot = y.slot => x = y
  BY DEF Images, DeviceRows
<1> QED
  BY <1>1, <1>2, <1>3, <1>4 DEF DeviceRows

LEMMA TouchTwins ==
    ASSUME NEW t, NEW m, NEW last \in Nat, Twins(t, m, last), NEW n
    PROVE  Twins(SqlTouch(t, n), MemTouch(m, n), last)
<1>1. t.devices = m.devices /\ DeviceRows(t.devices, last)
  BY FieldsOfTwins
<1> DEFINE f == [d \in t.devices |-> IF d.id = n THEN Used(d) ELSE d]
           ds == {IF d.id = n THEN Used(d) ELSE d : d \in t.devices}
<1>2. \A d \in t.devices : /\ Used(d) \in DeviceRow(last)  /\ Used(d).id = d.id
                           /\ Used(d).owner = d.owner  /\ Used(d).slot = d.slot
  BY <1>1 DEF DeviceRows, DeviceRow, Used
<1>3. Images(f, t.devices) = ds
  BY DEF Images
<1>4. DeviceRows(ds, last)
  <2>1. f \in [t.devices -> DeviceRow(last)]
    BY <1>1, <1>2 DEF DeviceRows
  <2>2. \A x \in t.devices : f[x].id = x.id /\ f[x].owner = x.owner /\ f[x].slot = x.slot
    BY <1>2
  <2> HIDE DEF f, ds
  <2> QED
    BY <1>1, <1>3, <2>1, <2>2, ChangedDevices
<1>5. Twins([t EXCEPT !.devices = ds], [m EXCEPT !.devices = ds], last)
  BY <1>4, DevicesTwin
<1> QED
  BY <1>1, <1>5 DEF SqlTouch, MemTouch, OnDevice

LEMMA RetireTwins ==
    ASSUME NEW t, NEW m, NEW last \in Nat, Twins(t, m, last), clock \in 0 .. last, NEW n
    PROVE  Twins(SqlRetire(t, n), MemRetire(m, n), last)
<1>1. t.devices = m.devices /\ DeviceRows(t.devices, last)
  BY FieldsOfTwins
<1> DEFINE f == [d \in t.devices |-> IF d.id = n THEN Retired(d) ELSE d]
           ds == {IF d.id = n THEN Retired(d) ELSE d : d \in t.devices}
<1>2. \A d \in t.devices : /\ Retired(d) \in DeviceRow(last)  /\ Retired(d).id = d.id
                           /\ Retired(d).owner = d.owner  /\ Retired(d).slot = d.slot
  <2>1. clock \in NoTime .. last
    BY DEF NoTime
  <2> QED
    BY <1>1, <2>1 DEF DeviceRows, DeviceRow, Retired
<1>3. Images(f, t.devices) = ds
  BY DEF Images
<1>4. DeviceRows(ds, last)
  <2>1. f \in [t.devices -> DeviceRow(last)]
    BY <1>1, <1>2 DEF DeviceRows
  <2>2. \A x \in t.devices : f[x].id = x.id /\ f[x].owner = x.owner /\ f[x].slot = x.slot
    BY <1>2
  <2> HIDE DEF f, ds
  <2> QED
    BY <1>1, <1>3, <2>1, <2>2, ChangedDevices
<1>5. Twins([t EXCEPT !.devices = ds], [m EXCEPT !.devices = ds], last)
  BY <1>4, DevicesTwin
<1> QED
  BY <1>1, <1>5 DEF SqlRetire, MemRetire, OnDevice

LEMMA PurgeTwins ==
    ASSUME NEW t, NEW m, NEW last \in Nat, Twins(t, m, last), NEW p
    PROVE  Twins(SqlPurge(t, p), MemPurge(m, p), last)
<1>1. t.devices = m.devices /\ DeviceRows(t.devices, last)
  BY FieldsOfTwins
<1> DEFINE old == {d \in t.devices : d.owner = p /\ d.retired # NoTime}
           gone == {x \in old : Quantify(old, LAMBDA y : y.slot > x.slot) >= KeepRetired}
           ds == t.devices \ gone
<1>2. /\ IsFiniteSet(old)  /\ \A x \in old : x.slot \in Int
      /\ \A x, y \in old : x.slot = y.slot => x = y
  <2>1. IsFiniteSet(old)
    BY <1>1, FS_Subset DEF DeviceRows
  <2>2. Ids \subseteq Int
    BY StoresAssumption
  <2> QED
    BY <1>1, <2>1, <2>2 DEF DeviceRows, DeviceRow
<1>3. KeepRetired \in Int
  BY StoresAssumption
<1>4. {Highest(old)[i] : i \in {j \in DOMAIN Highest(old) : j > KeepRetired}} = gone
  <2> HIDE DEF old
  <2> QED
    BY <1>2, <1>3, HighestFirst
<1>5. DeviceRows(ds, last)
  <2>1. IsFiniteSet(ds)
    BY <1>1, FS_Subset DEF DeviceRows
  <2>2. ds \subseteq t.devices
    OBVIOUS
  <2> HIDE DEF ds
  <2> QED
    BY <1>1, <2>1, <2>2 DEF DeviceRows
<1>6. Twins([t EXCEPT !.devices = ds], [m EXCEPT !.devices = ds], last)
  <2> HIDE DEF ds
  <2> QED
    BY <1>5, DevicesTwin
<1>7. Old(t, p) = old /\ Old(m, p) = old
  BY <1>1 DEF Old
<1>8. SqlPurge(t, p) = [t EXCEPT !.devices = ds]
  BY <1>7 DEF SqlPurge
<1>9. MemPurge(m, p) = [m EXCEPT !.devices = ds]
  <2> DEFINE Rest(S) == {Highest(S)[i] : i \in {j \in DOMAIN Highest(S) : j > KeepRetired}}
  <2>1. MemPurge(m, p) = [m EXCEPT !.devices = m.devices \ Rest(Old(m, p))]
    BY DEF MemPurge, Highest
  <2>2. Rest(old) = gone
    BY <1>4
  <2> HIDE DEF Rest, old, gone
  <2> QED
    BY <1>1, <1>7, <2>1, <2>2
<1> QED
  BY <1>6, <1>8, <1>9

LEMMA SaveSubscriptionTwins ==
    ASSUME NEW t, NEW m, NEW last, Twins(t, m, last), NEW x \in Subscription
    PROVE  Twins(SqlSaveSubscription(t, x), MemSaveSubscription(m, x), last)
<1>1. t.subs = m.subs /\ SubRows(t.subs)
  BY FieldsOfTwins
<1>2. SubRows(Put(t.subs, x))
  BY <1>1 DEF SubRows, Put
<1>3. Twins([t EXCEPT !.subs = Put(t.subs, x)], [m EXCEPT !.subs = Put(t.subs, x)], last)
  BY <1>2, SubsTwin
<1> QED
  BY <1>1, <1>3 DEF SqlSaveSubscription, MemSaveSubscription

\* The number of an entry is the next one.
LEMMA RecordTwins ==
    ASSUME NEW t, NEW m, NEW last, Twins(t, m, last), NEW e,
           e.id = Cardinality(t.ledger) + 1, e.at \in Nat, e.user \in People
    PROVE  Twins(SqlRecord(t, e), MemRecord(m, e), last)
<1>1. t.ledger = m.ledger /\ LedgerRows(t.ledger)
  BY FieldsOfTwins
<1> DEFINE es == t.ledger \union {e}
           n == Cardinality(t.ledger)
<1>2. n \in Nat
  BY <1>1, FS_CardinalityType DEF LedgerRows
<1>3. \A x \in t.ledger : x.id \in Nat /\ x.id <= n
  BY <1>1 DEF LedgerRows
<1>4. e.id = n + 1
  OBVIOUS
<1>5. e \notin t.ledger /\ \A x \in t.ledger : x.id # e.id
  <2> HIDE DEF n
  <2> QED
    BY <1>2, <1>3, <1>4
<1>6. IsFiniteSet(es) /\ Cardinality(es) = n + 1
  BY <1>1, <1>5, FS_AddElement DEF LedgerRows
<1>7. LedgerRows(es)
  <2>1. ASSUME NEW x \in es
        PROVE  x.id \in Nat /\ x.id <= Cardinality(es) /\ x.at \in Nat /\ x.user \in People
    <3>1. x.at \in Nat /\ x.user \in People
      BY <1>1 DEF LedgerRows
    <3>2. x.id \in Nat /\ x.id <= n + 1
      <4> HIDE DEF n
      <4> QED
        BY <1>2, <1>3, <1>4
    <3> QED
      BY <1>6, <3>1, <3>2
  <2> QED
    BY <1>6, <2>1 DEF LedgerRows
<1>8. Put(t.ledger, e) = es
  BY <1>5 DEF Put
<1>9. Twins([t EXCEPT !.ledger = es], [m EXCEPT !.ledger = es], last)
  BY <1>7, LedgerTwin
<1> QED
  BY <1>1, <1>8, <1>9 DEF SqlRecord, MemRecord

LEMMA TryConsumeTwins ==
    ASSUME NEW t, NEW m, NEW last, Twins(t, m, last), NEW p \in People, NEW amount \in Nat,
           clock \in Nat
    PROVE  Twins(SqlTryConsume(t, p, amount), MemTryConsume(m, p, amount), last)
<1>1. /\ t.subs = m.subs  /\ SubRows(t.subs)  /\ t.ledger = m.ledger
      /\ IsStore(t)  /\ IsStore(m)
  BY FieldsOfTwins
<1> DEFINE afford == {y \in t.subs : y.id = p /\ y.credits >= amount}
           consumed == {[x EXCEPT !.credits = @ - amount] : x \in afford}
           entries == {Entry(t, p, -amount, x.credits, "CONSUME") : x \in consumed}
<1>2. SqlTryConsume(t, p, amount)
          = [t EXCEPT !.subs = PutAll(t.subs, consumed), !.ledger = t.ledger \union entries]
  BY DEF SqlTryConsume
<1>3. \A y \in t.subs : y.credits \in Int
  BY <1>1 DEF SubRows, Subscription
<1>4. CASE afford = {}
  <2>1. ~\E x \in m.subs : x.id = p /\ ~(x.credits < amount)
    BY <1>1, <1>3, <1>4
  <2>2. MemTryConsume(m, p, amount) = m
    BY <2>1 DEF MemTryConsume
  <2>3. consumed = {} /\ entries = {}
    BY <1>4
  <2>4. PutAll(t.subs, {}) = t.subs /\ t.ledger \union {} = t.ledger
    BY DEF PutAll
  <2>5. SqlTryConsume(t, p, amount) = t
    <3>1. SqlTryConsume(t, p, amount) = [t EXCEPT !.subs = t.subs, !.ledger = t.ledger]
      <4> HIDE DEF consumed, entries
      <4> QED
        BY <1>2, <2>3, <2>4
    <3> QED
      BY <1>1, <3>1 DEF IsStore
  <2> QED
    BY <2>2, <2>5
<1>5. CASE afford # {}
  <2>1. PICK x \in t.subs : x.id = p /\ x.credits >= amount
    BY <1>5
  <2>2. x \in Subscription /\ \A y \in t.subs : y.id = p => y = x
    BY <1>1, <2>1 DEF SubRows
  <2> DEFINE left == x.credits - amount
             new == [x EXCEPT !.credits = left]
             e == Entry(t, p, -amount, left, "CONSUME")
             s == SqlSaveSubscription(t, new)
             r == MemSaveSubscription(m, new)
  <2>3. left \in Int /\ new \in Subscription /\ new.id = p /\ new.credits = left
    BY <2>1, <2>2 DEF Subscription
  <2>4. Twins(s, r, last)
    BY <2>3, SaveSubscriptionTwins
  <2>5. s.ledger = t.ledger /\ r.ledger = t.ledger /\ s.subs = Put(t.subs, new)
    BY <1>1 DEF SqlSaveSubscription, MemSaveSubscription, IsStore
  <2>6. e.id = Cardinality(s.ledger) + 1 /\ e.at \in Nat /\ e.user \in People
    BY <2>5 DEF Entry
  <2>7. Twins(SqlRecord(s, e), MemRecord(r, e), last)
    <3> HIDE DEF s, r, e
    <3> QED
      BY <2>4, <2>6, RecordTwins
  <2>8. SqlTryConsume(t, p, amount) = SqlRecord(s, e)
    <3>1. consumed = {new}
      BY <2>1, <2>2
    <3>2. entries = {e}
      BY <2>3, <3>1
    <3>3. PutAll(t.subs, {new}) = Put(t.subs, new)
      BY DEF PutAll, Put
    <3> HIDE DEF consumed, entries, new, e
    <3> QED
      BY <1>1, <1>2, <3>1, <3>2, <3>3 DEF SqlRecord, SqlSaveSubscription, IsStore
  <2>9. MemTryConsume(m, p, amount) = MemRecord(r, e)
    <3>1. \E y \in m.subs : y.id = p /\ ~(y.credits < amount)
      BY <1>1, <1>3, <2>1
    <3>2. (CHOOSE y \in m.subs : y.id = p) = x
      BY <1>1, <2>1, <2>2
    <3>3. Entry(m, p, -amount, left, "CONSUME") = e
      BY <1>1 DEF Entry
    <3> DEFINE y == CHOOSE z \in m.subs : z.id = p
    <3>4. MemTryConsume(m, p, amount) =
              MemRecord(MemSaveSubscription(m, [y EXCEPT !.credits = y.credits - amount]),
                        Entry(m, p, -amount, y.credits - amount, "CONSUME"))
      BY <3>1 DEF MemTryConsume
    <3> HIDE DEF e
    <3> QED
      BY <3>2, <3>3, <3>4
  <2> QED
    BY <2>7, <2>8, <2>9
<1> QED
  BY <1>4, <1>5

LEMMA ReplenishTwins ==
    ASSUME NEW t, NEW m, NEW last, Twins(t, m, last), NEW x \in Subscription, NEW e,
           e.id = Cardinality(t.ledger) + 1, e.at \in Nat, e.user \in People
    PROVE  Twins(SqlRecord(SqlSaveSubscription(t, x), e), MemRecord(MemSaveSubscription(m, x), e), last)
<1> DEFINE s == SqlSaveSubscription(t, x)
           r == MemSaveSubscription(m, x)
<1>1. Twins(s, r, last)
  BY SaveSubscriptionTwins
<1>2. s.ledger = t.ledger
  BY FieldsOfTwins DEF SqlSaveSubscription, IsStore
<1> HIDE DEF s, r
<1>3. Twins(SqlRecord(s, e), MemRecord(r, e), last)
  BY <1>1, <1>2, RecordTwins
<1> QED
  BY <1>3 DEF s, r

LEMMA RegisterTwins ==
    ASSUME NEW t, NEW m, NEW last, Twins(t, m, last), NEW p \in People, ~Has(m.logins, p),
           NEW x \in [id : People, name : {"first", "second"}], NEW y \in LoginRow, x.id = p, y.id = p
    PROVE  Twins(SqlSaveLogin(SqlSaveUser(t, x), y), MemSaveLogin(MemSaveUser(m, x), y), last)
<1>1. /\ t.users = m.users  /\ t.logins = {z \in m.logins : Has(t.users, z.id)}
      /\ UserRows(t.users)  /\ LoginRows(t)  /\ IsStore(t)  /\ IsStore(m)
  BY FieldsOfTwins
<1> DEFINE us == Put(t.users, x)
           ls == Put(t.logins, y)
           ks == Put(m.logins, y)
<1>2. \A n : Has(us, n) <=> Has(t.users, n) \/ n = p
  BY DEF Has, Put
<1>3. \A z \in m.logins : z.id # p
  BY DEF Has
<1>4. ls = {z \in ks : Has(us, z.id)}
  BY <1>1, <1>2, <1>3 DEF Put
<1>5. UserRows(us) /\ ls \subseteq LoginRow
  BY <1>1 DEF UserRows, LoginRows, Put
<1>6. Twins([t EXCEPT !.users = us, !.logins = ls], [m EXCEPT !.users = us, !.logins = ks], last)
  <2> HIDE DEF us, ls, ks
  <2> QED
    BY <1>4, <1>5, AccountsTwin
<1>7. SqlSaveLogin(SqlSaveUser(t, x), y) = [t EXCEPT !.users = us, !.logins = ls]
  BY <1>1 DEF SqlSaveLogin, SqlSaveUser, IsStore
<1>8. MemSaveLogin(MemSaveUser(m, x), y) = [m EXCEPT !.users = us, !.logins = ks]
  BY <1>1 DEF MemSaveLogin, MemSaveUser, IsStore
<1> QED
  BY <1>6, <1>7, <1>8

LEMMA SaveLoginTwins ==
    ASSUME NEW t, NEW m, NEW last, Twins(t, m, last), NEW y \in LoginRow, Has(t.users, y.id)
    PROVE  Twins(SqlSaveLogin(t, y), MemSaveLogin(m, y), last)
<1>1. /\ t.users = m.users  /\ t.logins = {z \in m.logins : Has(t.users, z.id)}
      /\ UserRows(t.users)  /\ LoginRows(t)  /\ IsStore(t)  /\ IsStore(m)
  BY FieldsOfTwins
<1> DEFINE ls == Put(t.logins, y)
           ks == Put(m.logins, y)
<1>2. ls = {z \in ks : Has(t.users, z.id)}
  BY <1>1 DEF Put
<1>3. ls \subseteq LoginRow
  BY <1>1 DEF LoginRows, Put
<1>4. Twins([t EXCEPT !.users = t.users, !.logins = ls],
            [m EXCEPT !.users = t.users, !.logins = ks], last)
  <2> HIDE DEF ls, ks
  <2> QED
    BY <1>1, <1>2, <1>3, AccountsTwin
<1>5. SqlSaveLogin(t, y) = [t EXCEPT !.users = t.users, !.logins = ls]
  BY <1>1 DEF SqlSaveLogin, IsStore
<1>6. MemSaveLogin(m, y) = [m EXCEPT !.users = t.users, !.logins = ks]
  BY <1>1 DEF MemSaveLogin, IsStore
<1> QED
  BY <1>4, <1>5, <1>6

LEMMA UpdateUserTwins ==
    ASSUME NEW t, NEW m, NEW last, Twins(t, m, last), NEW p, NEW name \in {"second", NotSaid}
    PROVE  Twins(SqlUpdateUser(t, p, Params(name)), MemUpdateUser(m, p, Params(name)), last)
<1>1. /\ t.users = m.users  /\ t.logins = {z \in m.logins : Has(t.users, z.id)}
      /\ UserRows(t.users)  /\ LoginRows(t)  /\ IsStore(t)  /\ IsStore(m)
  BY FieldsOfTwins
<1> DEFINE data == Params(name)
           Edited(x) == IF x.id = p THEN Renamed(x, data) ELSE x
           us == {Edited(x) : x \in t.users}
<1>2. data \in {{}, {"second"}} /\ data \ {NotSaid} = data
  BY DEF Params, NotSaid
<1>3. UserRows(us) /\ \A n : Has(us, n) <=> Has(t.users, n)
  <2>1. data # {} => (CHOOSE v \in data : TRUE) = "second"
    BY <1>2
  <2>2. \A x \in t.users : x \in [id : People, name : {"first", "second"}]
    BY <1>1 DEF UserRows
  <2> HIDE DEF data
  <2>3. \A x \in t.users : /\ Edited(x) \in [id : People, name : {"first", "second"}]
                           /\ Edited(x).id = x.id
    BY <2>1, <2>2 DEF Renamed
  <2> HIDE DEF Edited
  <2> QED
    BY <1>1, <2>3 DEF UserRows, Has
<1>4. t.logins \subseteq LoginRow /\ t.logins = {z \in m.logins : Has(us, z.id)}
  BY <1>1, <1>3 DEF LoginRows
<1>5. Twins([t EXCEPT !.users = us, !.logins = t.logins],
            [m EXCEPT !.users = us, !.logins = m.logins], last)
  <2> HIDE DEF us
  <2> QED
    BY <1>3, <1>4, AccountsTwin
<1>6. SqlUpdateUser(t, p, data) = [t EXCEPT !.users = us, !.logins = t.logins]
  BY <1>1 DEF SqlUpdateUser, Changed, IsStore
<1>7. MemUpdateUser(m, p, data) = [m EXCEPT !.users = us, !.logins = m.logins]
  <2>1. MemUpdateUser(m, p, data) = Changed(m, p, data)
    BY <1>2 DEF MemUpdateUser
  <2> HIDE DEF data
  <2> QED
    BY <1>1, <2>1 DEF Changed, IsStore
<1> QED
  BY <1>5, <1>6, <1>7

LEMMA DeleteUserTwins ==
    ASSUME NEW t, NEW m, NEW last, Twins(t, m, last), NEW p
    PROVE  Twins(SqlDeleteUser(t, p), MemDeleteUser(m, p), last)
<1>1. /\ t.users = m.users  /\ t.logins = {z \in m.logins : Has(t.users, z.id)}
      /\ UserRows(t.users)  /\ LoginRows(t)  /\ IsStore(t)  /\ IsStore(m)
  BY FieldsOfTwins
<1> DEFINE us == {x \in t.users : x.id # p}
           ls == {x \in t.logins : x.id # p}
<1>2. UserRows(us) /\ ls \subseteq LoginRow
  BY <1>1 DEF UserRows, LoginRows
<1>3. ls = {z \in m.logins : Has(us, z.id)}
  BY <1>1 DEF Has
<1>4. Twins([t EXCEPT !.users = us, !.logins = ls], [m EXCEPT !.users = us, !.logins = m.logins], last)
  <2> HIDE DEF us, ls
  <2> QED
    BY <1>2, <1>3, AccountsTwin
<1>5. SqlDeleteUser(t, p) = [t EXCEPT !.users = us, !.logins = ls]
  BY <1>1 DEF SqlDeleteUser, IsStore
<1>6. MemDeleteUser(m, p) = [m EXCEPT !.users = us, !.logins = m.logins]
  BY <1>1 DEF MemDeleteUser, IsStore
<1> QED
  BY <1>4, <1>5, <1>6

-----------------------------------------------------------------------------
(***************************************************************************)
(* Every unit of work keeps the invariant, however it ends.                *)
(***************************************************************************)

LEMMA OpensKeeps ==
    ASSUME StoreInv, NEW s, NEW m, NEW d, NEW raises, OpensUnit(s, m, d, raises),
           ~raises => Twins(s, m, Ticks[area])
    PROVE  StoreInv'
<1> DEFINE u == [session |-> s, snapshot |-> mem, dismissed |-> d, raises |-> raises]
<1>1. unit = {} /\ unit' = {u} /\ mem' = m /\ area' = area /\ clock' = clock /\ sql' = sql
  BY DEF OpensUnit
<1>2. u.session = s /\ u.snapshot = mem /\ u.raises = raises
  OBVIOUS
<1>3. Mirrors(sql, mem) /\ Sound(sql, Ticks[area])
  BY <1>1 DEF StoreInv
<1> HIDE DEF u
<1> QED
  BY <1>1, <1>2, <1>3 DEF StoreInv

LEMMA WritesKeeps ==
    ASSUME StoreInv, NEW where, NEW s, NEW m, Writes(where, s, m), Twins(s, m, Ticks[area])
    PROVE  StoreInv'
<1>1. OpensUnit(s, m, dismissed, FALSE)
  BY DEF Writes
<1> QED
  BY <1>1, OpensKeeps

LEMMA BreaksKeeps ==
    ASSUME StoreInv, NEW where, NEW m, Breaks(where, m)
    PROVE  StoreInv'
<1>1. OpensUnit(sql, m, dismissed, TRUE)
  BY DEF Breaks
<1> QED
  BY <1>1, OpensKeeps

\* What holds when a unit opens.
LEMMA WhenOpening ==
    ASSUME StoreInv, unit = {}
    PROVE  /\ Twins(sql, mem, Ticks[area])
           /\ Ticks[area] \in Nat  /\ clock \in 0 .. Ticks[area]
           /\ clock \in Nat  /\ clock \in Int
BY DEF StoreInv, Twins

LEMMA CommitKeeps == StoreInv /\ Commit => StoreInv'
<1> SUFFICES ASSUME StoreInv, Commit PROVE StoreInv'
  OBVIOUS
<1>1. PICK u \in unit : /\ ~u.raises  /\ sql' = u.session  /\ unit' = {}
                        /\ UNCHANGED <<area, clock, mem>>
  BY DEF Commit
<1>2. Twins(u.session, mem, Ticks[area])
  BY <1>1 DEF StoreInv
<1> QED
  BY <1>1, <1>2 DEF StoreInv, Twins

LEMMA RollbackKeeps == StoreInv /\ Rollback => StoreInv'
<1> SUFFICES ASSUME StoreInv, Rollback PROVE StoreInv'
  OBVIOUS
<1>1. PICK u \in unit : mem' = u.snapshot /\ unit' = {} /\ UNCHANGED <<area, clock, sql>>
  BY DEF Rollback, Restored
<1> QED
  BY <1>1 DEF StoreInv

LEMMA TickKeeps == StoreInv /\ Tick => StoreInv'
BY DEF StoreInv, Tick

LEMMA NoticeUnitKeeps == StoreInv /\ NoticeUnit => StoreInv'
<1> SUFFICES ASSUME StoreInv, NoticeUnit PROVE StoreInv'
  OBVIOUS
<1>1. ASSUME NEW n \in Ids, SaveNotice(n) PROVE StoreInv'
  <2>1. PICK on \in BOOLEAN, starts \in 0 .. Ticks[area], ends \in 1 .. Never :
            LET a == [id |-> n, on |-> on, starts |-> starts, ends |-> ends] IN
            \/ Writes("notices", SqlSaveNotice(sql, a), MemSaveNotice(mem, a))
            \/ Breaks("notices", MemSaveNotice(mem, a))
    BY <1>1 DEF SaveNotice
  <2> DEFINE a == [id |-> n, on |-> on, starts |-> starts, ends |-> ends]
  <2>2. CASE Writes("notices", SqlSaveNotice(sql, a), MemSaveNotice(mem, a))
    <3>1. Twins(sql, mem, Ticks[area])
      BY <2>2, WhenOpening DEF Writes, OpensUnit
    <3>2. a.starts \in Int /\ a.ends \in Int
      OBVIOUS
    <3> HIDE DEF a
    <3>3. Twins(SqlSaveNotice(sql, a), MemSaveNotice(mem, a), Ticks[area])
      BY <3>1, <3>2, SaveNoticeTwins
    <3> QED
      BY <2>2, <3>3, WritesKeeps
  <2>3. CASE Breaks("notices", MemSaveNotice(mem, a))
    BY <2>3, BreaksKeeps
  <2> QED
    BY <2>1, <2>2, <2>3
<1>2. ASSUME NEW n \in Ids, DeleteNotice(n) PROVE StoreInv'
  <2>1. OpensUnit(SqlDeleteNotice(sql, n), MemDeleteNotice(mem, n), {v \in dismissed : v[2] # n}, FALSE)
    BY <1>2 DEF DeleteNotice
  <2>2. Twins(sql, mem, Ticks[area])
    BY <2>1, WhenOpening DEF OpensUnit
  <2>3. Twins(SqlDeleteNotice(sql, n), MemDeleteNotice(mem, n), Ticks[area])
    BY <2>2, DeleteNoticeTwins
  <2> QED
    BY <2>1, <2>3, OpensKeeps
<1>3. ASSUME NEW n \in Ids, NEW p \in People, Dismiss(p, n) PROVE StoreInv'
  <2>1. OpensUnit(SqlDismiss(sql, p, n), MemDismiss(mem, p, n), dismissed \union {<<p, n>>}, FALSE)
    BY <1>3 DEF Dismiss
  <2>2. Twins(sql, mem, Ticks[area])
    BY <2>1, WhenOpening DEF OpensUnit
  <2>3. Twins(SqlDismiss(sql, p, n), MemDismiss(mem, p, n), Ticks[area])
    BY <2>2, DismissTwins
  <2> QED
    BY <2>1, <2>3, OpensKeeps
<1> QED
  BY <1>1, <1>2, <1>3 DEF NoticeUnit

LEMMA VisitUnitKeeps == StoreInv /\ VisitUnit => StoreInv'
<1> SUFFICES ASSUME StoreInv, VisitUnit PROVE StoreInv'
  OBVIOUS
<1>1. ASSUME PruneOldPageViews PROVE StoreInv'
  <2>1. PICK days \in 1 .. 2 :
            Writes("visits", SqlPrune(sql, clock - days * DayTicks), MemPrune(mem, clock - days * DayTicks))
    BY <1>1 DEF PruneOldPageViews
  <2>2. Twins(sql, mem, Ticks[area]) /\ clock \in Int
    BY <2>1, WhenOpening DEF Writes, OpensUnit
  <2> DEFINE cutoff == clock - days * DayTicks
  <2>3. cutoff \in Int
    BY <2>2, StoresAssumption
  <2> HIDE DEF cutoff
  <2>4. Twins(SqlPrune(sql, cutoff), MemPrune(mem, cutoff), Ticks[area])
    BY <2>2, <2>3, PruneTwins
  <2> QED
    BY <2>1, <2>4, WritesKeeps DEF cutoff
<1>2. ASSUME NEW v \in Visitors, RecordPageView(v) PROVE StoreInv'
  <2>1. PICK who \in {Anonymous, v} :
            LET x == [id |-> FreshKey(sql.visits), visitor |-> v, user |-> who, at |-> clock] IN
            Cardinality(sql.visits) < MaxRows /\ Writes("visits", SqlSaveVisit(sql, x), MemSaveVisit(mem, x))
    BY <1>2 DEF RecordPageView
  <2> DEFINE x == [id |-> FreshKey(sql.visits), visitor |-> v, user |-> who, at |-> clock]
  <2>2. Cardinality(sql.visits) < MaxRows /\ Writes("visits", SqlSaveVisit(sql, x), MemSaveVisit(mem, x))
    BY <2>1
  <2>3. Twins(sql, mem, Ticks[area]) /\ clock \in Int
    BY <2>2, WhenOpening DEF Writes, OpensUnit
  <2>4. IsFiniteSet(sql.visits)
    BY <2>3, FieldsOfTwins DEF VisitRows
  <2>5. FreshKey(sql.visits) \in 1 .. MaxRows + 1 /\ ~Has(sql.visits, FreshKey(sql.visits))
    BY <2>2, <2>4, KeyIsFresh
  <2>6. MaxRows \in Nat
    BY StoresAssumption
  <2>7. x.at \in Int /\ x.id \in Int /\ x.visitor \in Visitors /\ ~Has(sql.visits, x.id)
    BY <2>3, <2>5, <2>6
  <2> HIDE DEF x
  <2>8. Twins(SqlSaveVisit(sql, x), MemSaveVisit(mem, x), Ticks[area])
    BY <2>3, <2>7, SaveVisitTwins
  <2> QED
    BY <2>2, <2>8, WritesKeeps
<1> QED
  BY <1>1, <1>2 DEF VisitUnit

LEMMA OfferUnitKeeps == StoreInv /\ OfferUnit => StoreInv'
<1> SUFFICES ASSUME StoreInv, OfferUnit PROVE StoreInv'
  OBVIOUS
<1> DEFINE last == Ticks[area]
<1>1. ASSUME NEW n \in Ids, MoveOffer(n) PROVE StoreInv'
  <2>1. PICK o \in sql.offers : o.id = n /\ \E st \in After[o.status], keepsDates \in BOOLEAN :
            Writes("tracker", SqlSaveOffer(sql, Moved(sql, n, st, keepsDates)),
                              MemSaveOffer(mem, Moved(mem, n, st, keepsDates)))
    BY <1>1 DEF MoveOffer
  <2>2. PICK st \in After[o.status], keepsDates \in BOOLEAN :
            Writes("tracker", SqlSaveOffer(sql, Moved(sql, n, st, keepsDates)),
                              MemSaveOffer(mem, Moved(mem, n, st, keepsDates)))
    BY <2>1
  <2>3. Twins(sql, mem, last) /\ last \in Nat /\ clock \in 0 .. last
    BY <2>2, WhenOpening DEF Writes, OpensUnit
  <2>4. o.status \in DOMAIN After
    BY <2>3, FieldsOfTwins DEF OfferRows, Offer
  <2>5. st \in DOMAIN After
    BY <2>4 DEF After
  <2>6. Has(sql.offers, n)
    BY <2>1 DEF Has
  <2> DEFINE q == Moved(sql, n, st, keepsDates)
  <2> HIDE DEF last
  <2>7. q \in Offer(last) /\ Moved(mem, n, st, keepsDates) = Undate(q)
    BY <2>3, <2>5, <2>6, MovedIs
  <2> HIDE DEF q
  <2>8. Twins(SqlSaveOffer(sql, q), MemSaveOffer(mem, Undate(q)), last)
    BY <2>3, <2>7, SaveOfferTwins
  <2> QED
    BY <2>2, <2>7, <2>8, WritesKeeps DEF q, last
<1>2. ASSUME NEW s \in Ids, CleanupUnsubmitted(s) PROVE StoreInv'
  <2>1. Writes("tracker", SqlCleanup(sql, s, "APPROVED"), MemCleanup(mem, s, "APPROVED"))
    BY <1>2 DEF CleanupUnsubmitted
  <2>2. Twins(sql, mem, last) /\ last \in Nat
    BY <2>1, WhenOpening DEF Writes, OpensUnit
  <2>3. Twins(SqlCleanup(sql, s, "APPROVED"), MemCleanup(mem, s, "APPROVED"), last)
    BY <2>2, CleanupTwins
  <2> QED
    BY <2>1, <2>3, WritesKeeps
<1>3. ASSUME NEW n \in Ids, SaveSearch(n) PROVE StoreInv'
  <2>1. PICK st \in {"SEARCHING", "COMPLETED"} :
            LET x == [id |-> n, status |-> st, at |-> clock] IN
            /\ \A y \in sql.searches : y.at # clock
            /\ Writes("searches", SqlSaveSearch(sql, x), MemSaveSearch(mem, x))
    BY <1>3 DEF SaveSearch
  <2> DEFINE x == [id |-> n, status |-> st, at |-> clock]
  <2>2. Writes("searches", SqlSaveSearch(sql, x), MemSaveSearch(mem, x))
    BY <2>1
  <2>3. Twins(sql, mem, last) /\ clock \in Int
    BY <2>2, WhenOpening DEF Writes, OpensUnit
  <2>4. x.at \in Int /\ \A y \in sql.searches : y.at # x.at
    BY <2>1, <2>3
  <2> HIDE DEF x
  <2>5. Twins(SqlSaveSearch(sql, x), MemSaveSearch(mem, x), last)
    BY <2>3, <2>4, SaveSearchTwins
  <2> QED
    BY <2>2, <2>5, WritesKeeps
<1>4. ASSUME NEW n \in Ids, NEW s \in Ids, DraftOffer(n, s) PROVE StoreInv'
  <2>1. Writes("tracker", SqlSaveOffer(sql, Draft(n, s)), MemSaveOffer(mem, Draft(n, s)))
    BY <1>4 DEF DraftOffer
  <2>2. Twins(sql, mem, last) /\ last \in Nat /\ clock \in 0 .. last
    BY <2>1, WhenOpening DEF Writes, OpensUnit
  <2> DEFINE q == Draft(n, s)
  <2> HIDE DEF last
  <2>3. q \in Offer(last) /\ Undate(q) = q
    BY <2>2, DraftIs
  <2> HIDE DEF q
  <2>4. Twins(SqlSaveOffer(sql, q), MemSaveOffer(mem, Undate(q)), last)
    BY <2>2, <2>3, SaveOfferTwins
  <2> QED
    BY <2>1, <2>3, <2>4, WritesKeeps DEF q, last
<1>5. ASSUME NEW n \in Ids, NEW p \in People, ToggleResponse(p, n) PROVE StoreInv'
  <2>1. PICK b \in BOOLEAN : Writes("tracker", SqlToggleResponse(sql, p, n, b), MemToggleResponse(mem, p, n, b))
    BY <1>5 DEF ToggleResponse
  <2>2. Twins(sql, mem, last) /\ last \in Nat
    BY <2>1, WhenOpening DEF Writes, OpensUnit
  <2>3. Twins(SqlToggleResponse(sql, p, n, b), MemToggleResponse(mem, p, n, b), last)
    BY <2>2, ToggledTwins DEF SqlToggleResponse, MemToggleResponse
  <2> QED
    BY <2>1, <2>3, WritesKeeps
<1>6. ASSUME NEW n \in Ids, NEW p \in People, ToggleInterview(p, n) PROVE StoreInv'
  <2>1. PICK b \in BOOLEAN : Writes("tracker", SqlToggleInterview(sql, p, n, b), MemToggleInterview(mem, p, n, b))
    BY <1>6 DEF ToggleInterview
  <2>2. Twins(sql, mem, last) /\ last \in Nat
    BY <2>1, WhenOpening DEF Writes, OpensUnit
  <2>3. Twins(SqlToggleInterview(sql, p, n, b), MemToggleInterview(mem, p, n, b), last)
    BY <2>2, ToggledTwins DEF SqlToggleInterview, MemToggleInterview
  <2> QED
    BY <2>1, <2>3, WritesKeeps
<1> QED
  BY <1>1, <1>2, <1>3, <1>4, <1>5, <1>6 DEF OfferUnit

LEMMA ProfileUnitKeeps == StoreInv /\ ProfileUnit => StoreInv'
<1> SUFFICES ASSUME StoreInv, NEW p \in People, UpdateUserPreferences(p) PROVE StoreInv'
  BY DEF ProfileUnit
<1>1. PICK choice \in 0 .. 1, given \in [Sites -> [login : 0 .. 2, password : 0 .. 1]] :
          LET row == [id |-> p, choice |-> choice] IN
          Writes("profile", SqlSetCredentials(SqlSavePreferences(sql, row), p, given),
                            MemSetCredentials(MemSavePreferences(mem, row), p, given))
  BY DEF UpdateUserPreferences
<1> DEFINE row == [id |-> p, choice |-> choice]
           s == SqlSavePreferences(sql, row)
           m == MemSavePreferences(mem, row)
<1>2. Writes("profile", SqlSetCredentials(s, p, given), MemSetCredentials(m, p, given))
  BY <1>1
<1>3. Twins(sql, mem, Ticks[area])
  BY <1>2, WhenOpening DEF Writes, OpensUnit
<1>4. Twins(s, m, Ticks[area])
  BY <1>3, SavePreferencesTwins
<1> HIDE DEF s, m
<1>5. Twins(SqlSetCredentials(s, p, given), MemSetCredentials(m, p, given), Ticks[area])
  BY <1>4, SetCredentialsTwins
<1> QED
  BY <1>2, <1>5, WritesKeeps

LEMMA DeviceUnitKeeps == StoreInv /\ DeviceUnit => StoreInv'
<1> SUFFICES ASSUME StoreInv, DeviceUnit PROVE StoreInv'
  OBVIOUS
<1> DEFINE last == Ticks[area]
<1>1. ASSUME NEW n \in Ids, TouchDevice(n) PROVE StoreInv'
  <2>1. Writes("devices", SqlTouch(sql, n), MemTouch(mem, n))
    BY <1>1 DEF TouchDevice
  <2>2. Twins(sql, mem, last) /\ last \in Nat
    BY <2>1, WhenOpening DEF Writes, OpensUnit
  <2>3. Twins(SqlTouch(sql, n), MemTouch(mem, n), last)
    BY <2>2, TouchTwins
  <2> QED
    BY <2>1, <2>3, WritesKeeps
<1>2. ASSUME NEW n \in Ids, RetireDevice(n) PROVE StoreInv'
  <2>1. Writes("devices", SqlRetire(sql, n), MemRetire(mem, n))
    BY <1>2 DEF RetireDevice
  <2>2. Twins(sql, mem, last) /\ last \in Nat /\ clock \in 0 .. last
    BY <2>1, WhenOpening DEF Writes, OpensUnit
  <2>3. Twins(SqlRetire(sql, n), MemRetire(mem, n), last)
    BY <2>2, RetireTwins
  <2> QED
    BY <2>1, <2>3, WritesKeeps
<1>3. ASSUME NEW p \in People, PurgeDevices(p) PROVE StoreInv'
  <2>1. Writes("devices", SqlPurge(sql, p), MemPurge(mem, p))
    BY <1>3 DEF PurgeDevices
  <2>2. Twins(sql, mem, last) /\ last \in Nat
    BY <2>1, WhenOpening DEF Writes, OpensUnit
  <2>3. Twins(SqlPurge(sql, p), MemPurge(mem, p), last)
    BY <2>2, PurgeTwins
  <2> QED
    BY <2>1, <2>3, WritesKeeps
<1>4. ASSUME NEW n \in Ids, NEW p \in People, SaveDevice(n, p) PROVE StoreInv'
  <2>1. PICK slot \in Ids, b \in Sites :
            LET d == [id |-> n, owner |-> p, slot |-> slot, board |-> b, uses |-> 0, retired |-> NoTime] IN
            /\ \A x \in sql.devices : x.id = n => x.owner = p /\ x.slot = slot
            /\ Writes("devices", SqlSaveDevice(sql, d), MemSaveDevice(mem, d))
    BY <1>4 DEF SaveDevice
  <2> DEFINE d == [id |-> n, owner |-> p, slot |-> slot, board |-> b, uses |-> 0, retired |-> NoTime]
  <2>2. Writes("devices", SqlSaveDevice(sql, d), MemSaveDevice(mem, d))
    BY <2>1
  <2>3. Twins(sql, mem, last) /\ last \in Nat
    BY <2>2, WhenOpening DEF Writes, OpensUnit
  <2>4. d \in DeviceRow(last)
    <3>1. NoTime \in NoTime .. last
      BY <2>3 DEF NoTime
    <3> QED
      BY <3>1 DEF DeviceRow
  <2>5. \A x \in sql.devices : x.id = d.id => x.owner = d.owner /\ x.slot = d.slot
    BY <2>1
  <2> HIDE DEF d
  <2>6. Twins(SqlSaveDevice(sql, d), MemSaveDevice(mem, d), last)
    BY <2>3, <2>4, <2>5, SaveDeviceTwins
  <2> QED
    BY <2>2, <2>6, WritesKeeps
<1> QED
  BY <1>1, <1>2, <1>3, <1>4 DEF DeviceUnit

LEMMA LedgerUnitKeeps == StoreInv /\ LedgerUnit => StoreInv'
<1> SUFFICES ASSUME StoreInv, NEW p \in People,
                    Replenish(p) \/ Consume(p) \/ Deactivate(p) \/ LogMessage(p)
             PROVE  StoreInv'
  BY DEF LedgerUnit
<1> DEFINE last == Ticks[area]
<1>1. CASE Replenish(p)
  <2> DEFINE x == [id |-> p, credits |-> Grant, active |-> TRUE]
             e == Entry(sql, p, Grant, Grant, "REPLENISH")
  <2>1. Writes("ledger", SqlRecord(SqlSaveSubscription(sql, x), e),
                         MemRecord(MemSaveSubscription(mem, x), e))
    BY <1>1 DEF Replenish
  <2>2. Twins(sql, mem, last) /\ clock \in Nat
    BY <2>1, WhenOpening DEF Writes, OpensUnit
  <2>3. x \in Subscription
    BY StoresAssumption DEF Subscription
  <2>4. e.id = Cardinality(sql.ledger) + 1 /\ e.at \in Nat /\ e.user \in People
    BY <2>2 DEF Entry
  <2> HIDE DEF x, e
  <2>5. Twins(SqlRecord(SqlSaveSubscription(sql, x), e), MemRecord(MemSaveSubscription(mem, x), e), last)
    BY <2>2, <2>3, <2>4, ReplenishTwins
  <2> QED
    BY <2>1, <2>5, WritesKeeps
<1>2. CASE Consume(p)
  <2>1. PICK amount \in 1 .. 2 : Writes("ledger", SqlTryConsume(sql, p, amount), MemTryConsume(mem, p, amount))
    BY <1>2 DEF Consume
  <2>2. Twins(sql, mem, last) /\ clock \in Nat
    BY <2>1, WhenOpening DEF Writes, OpensUnit
  <2>3. amount \in Nat
    OBVIOUS
  <2>4. Twins(SqlTryConsume(sql, p, amount), MemTryConsume(mem, p, amount), last)
    BY <2>2, <2>3, TryConsumeTwins
  <2> QED
    BY <2>1, <2>4, WritesKeeps
<1>3. CASE Deactivate(p)
  <2>1. PICK x \in sql.subs : Writes("ledger", SqlSaveSubscription(sql, [x EXCEPT !.active = FALSE]),
                                               MemSaveSubscription(mem, [x EXCEPT !.active = FALSE]))
    BY <1>3 DEF Deactivate
  <2>2. Twins(sql, mem, last)
    BY <2>1, WhenOpening DEF Writes, OpensUnit
  <2> DEFINE y == [x EXCEPT !.active = FALSE]
  <2>3. y \in Subscription
    BY <2>2, FieldsOfTwins DEF SubRows, Subscription
  <2> HIDE DEF y
  <2>4. Twins(SqlSaveSubscription(sql, y), MemSaveSubscription(mem, y), last)
    BY <2>2, <2>3, SaveSubscriptionTwins
  <2> QED
    BY <2>1, <2>4, WritesKeeps DEF y
<1>4. CASE LogMessage(p)
  <2>1. Writes("ledger", SqlLog(sql, p, "welcome"), MemLog(mem, p, "welcome"))
    BY <1>4 DEF LogMessage
  <2>2. Twins(sql, mem, last)
    BY <2>1, WhenOpening DEF Writes, OpensUnit
  <2>3. Twins(SqlLog(sql, p, "welcome"), MemLog(mem, p, "welcome"), last)
    BY <2>2, LogTwins
  <2> QED
    BY <2>1, <2>3, WritesKeeps
<1> QED
  BY <1>1, <1>2, <1>3, <1>4

LEMMA EditLoginKeeps ==
    ASSUME StoreInv, NEW p, NEW field \in {"verified", "optOut", "admin", "active"},
           NEW value \in BOOLEAN, EditLogin(p, field, value)
    PROVE  StoreInv'
<1>1. PICK x \in sql.logins : Writes("accounts", SqlSaveLogin(sql, [x EXCEPT ![field] = value]),
                                                 MemSaveLogin(mem, [x EXCEPT ![field] = value]))
  BY DEF EditLogin
<1>2. Twins(sql, mem, Ticks[area])
  BY <1>1, WhenOpening DEF Writes, OpensUnit
<1> DEFINE y == [x EXCEPT ![field] = value]
<1>3. y \in LoginRow /\ y.id = x.id /\ Has(sql.users, x.id)
  <2>1. x \in LoginRow /\ Has(sql.users, x.id)
    BY <1>2, FieldsOfTwins DEF LoginRows
  <2>2. CASE field = "verified"
    BY <2>1, <2>2 DEF LoginRow
  <2>3. CASE field = "optOut"
    BY <2>1, <2>3 DEF LoginRow
  <2>4. CASE field = "admin"
    BY <2>1, <2>4 DEF LoginRow
  <2>5. CASE field = "active"
    BY <2>1, <2>5 DEF LoginRow
  <2> QED
    BY <2>2, <2>3, <2>4, <2>5
<1> HIDE DEF y
<1>4. Twins(SqlSaveLogin(sql, y), MemSaveLogin(mem, y), Ticks[area])
  BY <1>2, <1>3, SaveLoginTwins
<1> QED
  BY <1>1, <1>4, WritesKeeps DEF y

LEMMA AccountUnitKeeps == StoreInv /\ AccountUnit => StoreInv'
<1> SUFFICES ASSUME StoreInv, AccountUnit PROVE StoreInv'
  OBVIOUS
<1> DEFINE last == Ticks[area]
<1>1. ASSUME NEW p \in People, Register(p) PROVE StoreInv'
  <2> DEFINE x == [id |-> p, name |-> "first"]
             y == [id |-> p, at |-> clock, verified |-> FALSE, active |-> TRUE, admin |-> FALSE, optOut |-> FALSE]
  <2>1. /\ ~Has(mem.logins, p)
        /\ Writes("accounts", SqlSaveLogin(SqlSaveUser(sql, x), y), MemSaveLogin(MemSaveUser(mem, x), y))
    BY <1>1 DEF Register
  <2>2. Twins(sql, mem, last) /\ clock \in Nat
    BY <2>1, WhenOpening DEF Writes, OpensUnit
  <2>3. x \in [id : People, name : {"first", "second"}] /\ y \in LoginRow /\ x.id = p /\ y.id = p
    BY <2>2 DEF LoginRow
  <2> HIDE DEF x, y
  <2>4. Twins(SqlSaveLogin(SqlSaveUser(sql, x), y), MemSaveLogin(MemSaveUser(mem, x), y), last)
    BY <2>1, <2>2, <2>3, RegisterTwins
  <2> QED
    BY <2>1, <2>4, WritesKeeps
<1>2. ASSUME NEW p \in People, UpdateUser(p) PROVE StoreInv'
  <2>1. PICK name \in {"second", NotSaid} :
          Writes("accounts", SqlUpdateUser(sql, p, Params(name)), MemUpdateUser(mem, p, Params(name)))
    BY <1>2 DEF UpdateUser
  <2>2. Twins(sql, mem, last)
    BY <2>1, WhenOpening DEF Writes, OpensUnit
  <2>3. Twins(SqlUpdateUser(sql, p, Params(name)), MemUpdateUser(mem, p, Params(name)), last)
    BY <2>2, UpdateUserTwins
  <2> QED
    BY <2>1, <2>3, WritesKeeps
<1>3. ASSUME NEW p \in People, DeleteUser(p) PROVE StoreInv'
  <2>1. Writes("accounts", SqlDeleteUser(sql, p), MemDeleteUser(mem, p))
    BY <1>3 DEF DeleteUser
  <2>2. Twins(sql, mem, last)
    BY <2>1, WhenOpening DEF Writes, OpensUnit
  <2>3. Twins(SqlDeleteUser(sql, p), MemDeleteUser(mem, p), last)
    BY <2>2, DeleteUserTwins
  <2> QED
    BY <2>1, <2>3, WritesKeeps
<1>4. ASSUME NEW p \in People, Verify(p) \/ Unsubscribe(p) PROVE StoreInv'
  BY <1>4, EditLoginKeeps DEF Verify, Unsubscribe
<1>5. ASSUME NEW p \in People, NEW b \in BOOLEAN, SetAdmin(p, b) \/ SetActive(p, b) PROVE StoreInv'
  BY <1>5, EditLoginKeeps DEF SetAdmin, SetActive
<1> QED
  BY <1>1, <1>2, <1>3, <1>4, <1>5 DEF AccountUnit

LEMMA StoreInvStep == StoreInv /\ [StoresNext]_storeVars => StoreInv'
<1>1. StoreInv /\ StoresNext => StoreInv'
  BY CommitKeeps, RollbackKeeps, TickKeeps, NoticeUnitKeeps, VisitUnitKeeps, OfferUnitKeeps,
     ProfileUnitKeeps, DeviceUnitKeeps, LedgerUnitKeeps, AccountUnitKeeps DEF StoresNext
<1>2. StoreInv /\ UNCHANGED storeVars => StoreInv'
  BY DEF StoreInv, storeVars
<1> QED
  BY <1>1, <1>2

-----------------------------------------------------------------------------
(***************************************************************************)
(* Dismissed announcements.  Only the units of the announcements open with *)
(* dismissals of their own, and a behaviour keeps to one group of tables.  *)
(***************************************************************************)

DismissInv ==
    /\ dismissed \subseteq (People \X Ids) \intersect sql.views
    /\ \A u \in unit : u.dismissed \subseteq (People \X Ids) \intersect u.session.views
    /\ area # "notices" => dismissed = {} /\ \A u \in unit : u.dismissed = {}

LEMMA OpensDismissed ==
    ASSUME NEW s, NEW m, NEW d, NEW raises, OpensUnit(s, m, d, raises), DismissInv,
           d \subseteq (People \X Ids) \intersect s.views, area # "notices" => d = {}
    PROVE  DismissInv'
<1> DEFINE u == [session |-> s, snapshot |-> mem, dismissed |-> d, raises |-> raises]
<1>1. unit' = {u} /\ area' = area /\ sql' = sql /\ dismissed' = dismissed
  BY DEF OpensUnit
<1>2. u.session = s /\ u.dismissed = d
  OBVIOUS
<1> HIDE DEF u
<1> QED
  BY <1>1, <1>2 DEF DismissInv

\* A unit of other tables leaves the dismissals, which are none.
Elsewhere == area # "notices" /\ \E s, m, raises : OpensUnit(s, m, dismissed, raises)

LEMMA WritesElsewhere ==
    ASSUME NEW where, NEW s, NEW m, where # "notices", Writes(where, s, m) \/ Breaks(where, m)
    PROVE  Elsewhere
<1>1. area # "notices"
  BY Zenon DEF Writes, Breaks
<1>2. OpensUnit(s, m, dismissed, FALSE) \/ OpensUnit(sql, m, dismissed, TRUE)
  BY Zenon DEF Writes, Breaks
<1> QED
  BY <1>1, <1>2, Zenon DEF Elsewhere

LEMMA ElsewhereKeeps ==
    ASSUME DismissInv, Elsewhere
    PROVE  DismissInv'
<1>1. PICK s, m, raises : OpensUnit(s, m, dismissed, raises)
  BY DEF Elsewhere
<1>2. dismissed = {} /\ area # "notices"
  BY DEF DismissInv, Elsewhere
<1> QED
  BY <1>1, <1>2, OpensDismissed

LEMMA UnitsElsewhere ==
    VisitUnit \/ OfferUnit \/ ProfileUnit \/ DeviceUnit \/ LedgerUnit \/ AccountUnit => Elsewhere
<1>1. VisitUnit => Elsewhere
  BY WritesElsewhere DEF VisitUnit, PruneOldPageViews, RecordPageView
<1>2. OfferUnit => Elsewhere
  BY WritesElsewhere DEF OfferUnit, MoveOffer, CleanupUnsubmitted, SaveSearch, DraftOffer, ToggleResponse, ToggleInterview
<1>3. ProfileUnit => Elsewhere
  BY WritesElsewhere DEF ProfileUnit, UpdateUserPreferences
<1>4. DeviceUnit => Elsewhere
  BY WritesElsewhere DEF DeviceUnit, TouchDevice, RetireDevice, SaveDevice, PurgeDevices
<1>5. LedgerUnit => Elsewhere
  BY WritesElsewhere DEF LedgerUnit, Replenish, Consume, Deactivate, LogMessage
<1>6. AccountUnit => Elsewhere
  BY WritesElsewhere DEF AccountUnit, Register, Verify, Unsubscribe, UpdateUser, DeleteUser, SetAdmin, SetActive, EditLogin
<1> QED
  BY <1>1, <1>2, <1>3, <1>4, <1>5, <1>6

LEMMA NoticeUnitDismissed ==
    ASSUME StoreInv, DismissInv, NoticeUnit
    PROVE  DismissInv'
<1>1. IsStore(sql)
  BY DEF StoreInv, Sound
<1>2. dismissed \subseteq (People \X Ids) \intersect sql.views
  BY DEF DismissInv
<1>3. ASSUME NEW n \in Ids, SaveNotice(n) PROVE DismissInv'
  <2>1. PICK a : \/ Writes("notices", SqlSaveNotice(sql, a), MemSaveNotice(mem, a))
                 \/ Breaks("notices", MemSaveNotice(mem, a))
    BY <1>3 DEF SaveNotice
  <2>2. SqlSaveNotice(sql, a).views = sql.views
    BY <1>1 DEF SqlSaveNotice, IsStore
  <2>3. CASE Writes("notices", SqlSaveNotice(sql, a), MemSaveNotice(mem, a))
    BY <1>2, <2>2, <2>3, OpensDismissed DEF Writes
  <2>4. CASE Breaks("notices", MemSaveNotice(mem, a))
    BY <1>2, <2>4, OpensDismissed DEF Breaks
  <2> QED
    BY <2>1, <2>3, <2>4
<1>4. ASSUME NEW n \in Ids, DeleteNotice(n) PROVE DismissInv'
  <2>1. SqlDeleteNotice(sql, n).views = {v \in sql.views : v[2] # n}
    BY <1>1 DEF SqlDeleteNotice, IsStore
  <2>2. {v \in dismissed : v[2] # n} \subseteq (People \X Ids) \intersect SqlDeleteNotice(sql, n).views
    BY <1>2, <2>1
  <2> QED
    BY <1>4, <2>2, OpensDismissed DEF DeleteNotice
<1>5. ASSUME NEW n \in Ids, NEW p \in People, Dismiss(p, n) PROVE DismissInv'
  <2>1. SqlDismiss(sql, p, n).views = sql.views \union {<<p, n>>}
    BY <1>1 DEF SqlDismiss, IsStore
  <2>2. dismissed \union {<<p, n>>} \subseteq (People \X Ids) \intersect SqlDismiss(sql, p, n).views
    BY <1>2, <2>1
  <2> QED
    BY <1>5, <2>2, OpensDismissed DEF Dismiss
<1> QED
  BY <1>3, <1>4, <1>5 DEF NoticeUnit

LEMMA DismissInvStep == StoreInv /\ DismissInv /\ [StoresNext]_storeVars => DismissInv'
<1> SUFFICES ASSUME StoreInv, DismissInv, [StoresNext]_storeVars PROVE DismissInv'
  OBVIOUS
<1>1. CASE Commit
  <2>1. PICK u \in unit : /\ sql' = u.session  /\ dismissed' = u.dismissed  /\ unit' = {}
                          /\ area' = area
    BY <1>1 DEF Commit
  <2> QED
    BY <2>1 DEF DismissInv
<1>2. CASE Rollback \/ Tick \/ UNCHANGED storeVars
  BY <1>2 DEF DismissInv, Rollback, Tick, storeVars
<1>3. CASE NoticeUnit
  BY <1>3, NoticeUnitDismissed
<1>4. CASE VisitUnit \/ OfferUnit \/ ProfileUnit \/ DeviceUnit \/ LedgerUnit \/ AccountUnit
  BY <1>4, UnitsElsewhere, ElsewhereKeeps
<1> QED
  BY <1>1, <1>2, <1>3, <1>4 DEF StoresNext

-----------------------------------------------------------------------------
(***************************************************************************)
(* The results.                                                            *)
(***************************************************************************)

LEMMA SessionsFollow == StoreInv => SessionsAddUp
<1> SUFFICES ASSUME StoreInv, NEW a \in 0 .. Ticks[area] + 1, NEW b \in 0 .. Ticks[area] + 1,
                    NEW c \in 0 .. Ticks[area] + 1, a <= b, b <= c
             PROVE  SqlSessions(sql, Window(a, b)) + SqlSessions(sql, Window(b, c))
                        = SqlSessions(sql, Window(a, c))
  BY DEF SessionsAddUp
<1>1. a \in Int /\ b \in Int /\ c \in Int
  BY DEF StoreInv
<1>2. VisitRows(sql.visits)
  BY DEF StoreInv, Sound
<1> QED
  BY <1>1, <1>2, SessionsSplit

LEMMA UndateTwice ==
    ASSUME NEW last, NEW o \in Offer(last)
    PROVE  Undate(Undate(o)) = Undate(o)
BY DEF Undate, Offer

LEMMA UndatedIsAs ==
    ASSUME NEW last \in Nat, NEW rows, OfferRows(rows, last)
    PROVE  /\ \A o \in rows : /\ Undate(o).id = o.id  /\ Undate(o).search = o.search
                              /\ Undate(o).status = o.status  /\ Undate(o).response = o.response
                              /\ Undate(o).interview = o.interview  /\ Undate(o).at = NoTime
           /\ \A part \in SUBSET rows : Cardinality(Undated(part)) = Cardinality(part)
<1>1. ASSUME NEW o \in rows
      PROVE  /\ Undate(o).id = o.id  /\ Undate(o).search = o.search
             /\ Undate(o).status = o.status  /\ Undate(o).response = o.response
             /\ Undate(o).interview = o.interview  /\ Undate(o).at = NoTime
  <2>1. o \in Offer(last)
    BY DEF OfferRows
  <2> QED
    BY <2>1, UndateIs
<1>2. ASSUME NEW part \in SUBSET rows PROVE Cardinality(Undated(part)) = Cardinality(part)
  <2> DEFINE f == [o \in part |-> Undate(o)]
  <2>1. IsFiniteSet(part)
    BY FS_Subset DEF OfferRows
  <2>2. OneToOne(f, part)
    BY <1>1 DEF OneToOne, OfferRows
  <2>3. Undated(part) = Images(f, part)
    BY DEF Undated, Images
  <2> HIDE DEF f
  <2> QED
    BY <2>1, <2>2, <2>3, SameNumber
<1> QED
  BY <1>1, <1>2

LEMMA SameStore ==
    ASSUME NEW t, NEW m, IsStore(t), IsStore(m),
           t.notices = m.notices, t.views = m.views, t.visits = m.visits, t.offers = m.offers,
           t.searches = m.searches, t.prefs = m.prefs, t.creds = m.creds, t.devices = m.devices,
           t.subs = m.subs, t.ledger = m.ledger, t.log = m.log, t.users = m.users,
           t.logins = m.logins
    PROVE  t = m
<1> DEFINE F == {"notices", "views", "visits", "offers", "searches", "prefs", "creds", "devices",
                 "subs", "ledger", "log", "users", "logins"}
<1>1. t = [f \in F |-> t[f]] /\ m = [f \in F |-> m[f]]
  BY DEF IsStore
<1>2. \A f \in F : t[f] = m[f]
  OBVIOUS
<1>3. [f \in F |-> t[f]] = [f \in F |-> m[f]]
  BY <1>2, Zenon
<1> QED
  BY <1>1, <1>3, Zenon

IsWith(r, s, os, ls) == r = [s EXCEPT !.offers = os, !.logins = ls]

LEMMA TwoTables ==
    ASSUME NEW s, IsStore(s), NEW os, NEW ls, NEW r, IsWith(r, s, os, ls)
    PROVE  /\ IsStore(r)
           /\ r.notices = s.notices  /\ r.views = s.views  /\ r.visits = s.visits
           /\ r.searches = s.searches  /\ r.prefs = s.prefs  /\ r.creds = s.creds
           /\ r.devices = s.devices  /\ r.subs = s.subs  /\ r.ledger = s.ledger
           /\ r.log = s.log  /\ r.users = s.users  /\ r.offers = os  /\ r.logins = ls
BY DEF IsStore, IsWith

LEMMA KeptAgree ==
    ASSUME NEW t, NEW m, NEW last \in Nat, Twins(t, m, last)
    PROVE  Kept(t) = Kept(m)
<1>1. /\ IsStore(t)  /\ IsStore(m)  /\ OfferRows(t.offers, last)  /\ m.offers = Undated(t.offers)
      /\ t.notices = m.notices  /\ t.views = m.views  /\ t.visits = m.visits
      /\ t.searches = m.searches  /\ t.prefs = m.prefs  /\ t.creds = m.creds
      /\ t.devices = m.devices  /\ t.subs = m.subs  /\ t.ledger = m.ledger
      /\ t.log = m.log  /\ t.users = m.users
      /\ t.logins = {x \in m.logins : Has(t.users, x.id)}
  BY FieldsOfTwins
<1>2. \A o \in t.offers : Undate(Undate(o)) = Undate(o)
  BY <1>1, UndateTwice DEF OfferRows
<1>3. Undated(m.offers) = Undated(t.offers)
  BY <1>1, <1>2 DEF Undated
<1>4. {x \in t.logins : Has(t.users, x.id)} = {x \in m.logins : Has(m.users, x.id)}
  BY <1>1
<1>5. \A s : Kept(s) = [s EXCEPT !.offers = Undated(s.offers),
                                 !.logins = {x \in s.logins : Has(s.users, x.id)}]
  BY DEF Kept, Undated, Undate
<1>6. Kept(t) = [t EXCEPT !.offers = Undated(t.offers), !.logins = {x \in t.logins : Has(t.users, x.id)}]
  BY <1>5
<1>7. Kept(m) = [m EXCEPT !.offers = Undated(t.offers), !.logins = {x \in t.logins : Has(t.users, x.id)}]
  BY <1>3, <1>4, <1>5
<1> DEFINE ls == {x \in t.logins : Has(t.users, x.id)}
<1>8. /\ IsStore(Kept(t))
      /\ Kept(t).notices = t.notices  /\ Kept(t).views = t.views  /\ Kept(t).visits = t.visits
      /\ Kept(t).searches = t.searches  /\ Kept(t).prefs = t.prefs  /\ Kept(t).creds = t.creds
      /\ Kept(t).devices = t.devices  /\ Kept(t).subs = t.subs  /\ Kept(t).ledger = t.ledger
      /\ Kept(t).log = t.log  /\ Kept(t).users = t.users
      /\ Kept(t).offers = Undated(t.offers)  /\ Kept(t).logins = ls
  <2>1. IsStore(t)
    BY <1>1
  <2>2. IsWith(Kept(t), t, Undated(t.offers), ls)
    BY <1>6 DEF IsWith
  <2> HIDE DEF ls
  <2> QED
    BY <2>1, <2>2, TwoTables
<1>9. /\ IsStore(Kept(m))
      /\ Kept(m).notices = m.notices  /\ Kept(m).views = m.views  /\ Kept(m).visits = m.visits
      /\ Kept(m).searches = m.searches  /\ Kept(m).prefs = m.prefs  /\ Kept(m).creds = m.creds
      /\ Kept(m).devices = m.devices  /\ Kept(m).subs = m.subs  /\ Kept(m).ledger = m.ledger
      /\ Kept(m).log = m.log  /\ Kept(m).users = m.users
      /\ Kept(m).offers = Undated(t.offers)  /\ Kept(m).logins = ls
  <2>1. IsStore(m)
    BY <1>1
  <2>2. IsWith(Kept(m), m, Undated(t.offers), ls)
    BY <1>7 DEF IsWith
  <2> HIDE DEF ls
  <2> QED
    BY <2>1, <2>2, TwoTables
<1> HIDE DEF ls
<1> QED
  BY <1>1, <1>8, <1>9, SameStore

LEMMA ActiveAlike ==
    ASSUME NEW t, NEW m, NEW last, Twins(t, m, last), NEW p, clock \in Int
    PROVE  SqlActive(t, p) = MemActive(m, p)
<1>1. t.notices = m.notices /\ t.views = m.views /\ NoticeRows(t.notices)
  BY FieldsOfTwins
<1>2. \A a \in t.notices : a.ends > clock <=> clock < a.ends
  BY <1>1 DEF NoticeRows
<1> QED
  BY <1>1, <1>2 DEF SqlActive, MemActive, IsLive

LEMMA SameRowsAlike ==
    ASSUME NEW t, NEW m, NEW last, Twins(t, m, last), NEW p
    PROVE  /\ SqlGetPreferences(t, p) = MemGetPreferences(m, p)
           /\ SqlDevices(t, p) = MemDevices(m, p)
           /\ \A b : SqlDeviceOf(t, p, b) = MemDeviceOf(m, p, b)
           /\ SqlAlreadySent(t, p, "welcome") = MemAlreadySent(m, p, "welcome")
<1>1. /\ t.prefs = m.prefs  /\ t.creds = m.creds  /\ t.devices = m.devices  /\ t.log = m.log
  BY FieldsOfTwins
<1>2. Live(t, p) = Live(m, p)
  BY <1>1 DEF Live
<1>3. SqlGetPreferences(t, p) = MemGetPreferences(m, p)
  BY <1>1 DEF SqlGetPreferences, MemGetPreferences, SqlPreferences, MemPreferences,
              SqlCredentials, MemCredentials
<1>4. SqlDevices(t, p) = MemDevices(m, p)
  BY <1>2 DEF SqlDevices, MemDevices
<1>5. \A b : SqlDeviceOf(t, p, b) = MemDeviceOf(m, p, b)
  BY <1>2 DEF SqlDeviceOf, MemDeviceOf
<1>6. SqlAlreadySent(t, p, "welcome") = MemAlreadySent(m, p, "welcome")
  <2>1. \A e : (\E x \in m.log : x = e) <=> e \in m.log
    OBVIOUS
  <2>2. SqlAlreadySent(t, p, "welcome") <=> MemAlreadySent(m, p, "welcome")
    BY <1>1, <2>1 DEF SqlAlreadySent, MemAlreadySent
  <2>3. SqlAlreadySent(t, p, "welcome") \in BOOLEAN /\ MemAlreadySent(m, p, "welcome") \in BOOLEAN
    BY DEF SqlAlreadySent, MemAlreadySent
  <2> QED
    BY <2>2, <2>3
<1> QED
  BY <1>3, <1>4, <1>5, <1>6

LEMMA SentAlike ==
    ASSUME NEW t, NEW m, NEW last \in Nat, Twins(t, m, last), NEW p
    PROVE  /\ \A f \in SharedFilters :
                  /\ SqlApplications(t, p, f).total = MemApplications(m, p, f).total
                  /\ SqlApplications(t, p, f).unfiltered = MemApplications(m, p, f).unfiltered
           /\ SqlAnalytics(t, p, NoTime) = MemAnalytics(m, p, NoTime)
<1>1. m.offers = Undated(t.offers) /\ OfferRows(t.offers, last)
  BY FieldsOfTwins
<1>2. \A o \in t.offers : /\ o.id \in Ids  /\ Undate(o).id = o.id
                          /\ Undate(o).search = o.search  /\ Undate(o).status = o.status
                          /\ Undate(o).response = o.response  /\ Undate(o).interview = o.interview
  BY <1>1, UndatedIsAs DEF OfferRows, Offer
<1>3. \A part \in SUBSET t.offers : Cardinality(Undated(part)) = Cardinality(part)
  BY <1>1, UndatedIsAs
<1> DEFINE S == SentBy(t, p)
           T == SentBy(m, p)
<1>4. S \subseteq t.offers /\ T = Undated(S)
  BY <1>1, <1>2 DEF SentBy, Owner, Undated
<1>5. \A o \in S : Undate(o).response = o.response /\ Undate(o).interview = o.interview
  BY <1>2, <1>4
<1>6. \A part \in SUBSET S : Cardinality(Undated(part)) = Cardinality(part)
  BY <1>3, <1>4
<1>7. Since(t, p, NoTime) = S /\ Since(m, p, NoTime) = T
  BY DEF Since
<1> HIDE DEF S, T
<1>8. Cardinality(T) = Cardinality(S)
  BY <1>4, <1>6
<1>9. ASSUME NEW f \in SharedFilters
      PROVE  Cardinality({o \in T : MemMatches(o, f)}) = Cardinality({o \in S : SqlMatches(o, f)})
  <2> DEFINE part == {o \in S : SqlMatches(o, f)}
  <2>1. f.place = {} /\ f.board \subseteq Sites /\ f.from = {} /\ f.to = {}
    BY DEF SharedFilters
  <2>2. ASSUME NEW o \in S PROVE MemMatches(Undate(o), f) <=> SqlMatches(o, f)
    <3>1. /\ Undate(o).id = o.id  /\ Undate(o).response = o.response
          /\ Undate(o).interview = o.interview  /\ o.id \in Ids
      BY <1>2, <1>4
    <3>2. Matches(Undate(o), f) <=> Matches(o, f)
      BY <2>1, <3>1 DEF Matches
    <3>3. f.place \subseteq Listing[o.id].place
      BY <2>1
    <3>4. \A b \in f.board : b = Listing[o.id].board <=> Lower[b] = Lower[Listing[o.id].board]
      BY <2>1, <3>1, StoresAssumption
    <3> QED
      BY <2>1, <3>1, <3>2, <3>3, <3>4 DEF MemMatches, SqlMatches
  <2>3. {o \in T : MemMatches(o, f)} = Undated(part)
    BY <1>4, <2>2 DEF Undated
  <2>4. part \in SUBSET S
    OBVIOUS
  <2> HIDE DEF part
  <2>5. Cardinality(Undated(part)) = Cardinality(part)
    BY <1>6, <2>4
  <2> QED
    BY <2>3, <2>5 DEF part
<1>10. Cardinality({o \in T : o.response}) = Cardinality({o \in S : o.response})
  <2> DEFINE part == {o \in S : o.response}
  <2>1. {o \in T : o.response} = Undated(part)
    BY <1>4, <1>5 DEF Undated
  <2>2. part \in SUBSET S
    OBVIOUS
  <2> HIDE DEF part
  <2>3. Cardinality(Undated(part)) = Cardinality(part)
    BY <1>6, <2>2
  <2> QED
    BY <2>1, <2>3 DEF part
<1>11. Cardinality({o \in T : o.interview}) = Cardinality({o \in S : o.interview})
  <2> DEFINE part == {o \in S : o.interview}
  <2>1. {o \in T : o.interview} = Undated(part)
    BY <1>4, <1>5 DEF Undated
  <2>2. part \in SUBSET S
    OBVIOUS
  <2> HIDE DEF part
  <2>3. Cardinality(Undated(part)) = Cardinality(part)
    BY <1>6, <2>2
  <2> QED
    BY <2>1, <2>3 DEF part
<1>12. ASSUME NEW f \in SharedFilters
       PROVE  /\ SqlApplications(t, p, f).total = MemApplications(m, p, f).total
              /\ SqlApplications(t, p, f).unfiltered = MemApplications(m, p, f).unfiltered
  BY <1>8, <1>9 DEF SqlApplications, MemApplications, S, T
<1>13. SqlAnalytics(t, p, NoTime) = MemAnalytics(m, p, NoTime)
  BY <1>7, <1>8, <1>10, <1>11 DEF SqlAnalytics, MemAnalytics, Quantify, S, T
<1> QED
  BY <1>12, <1>13

LEMMA BySearchAlike ==
    ASSUME NEW t, NEW m, NEW last \in Nat, Twins(t, m, last), NEW s
    PROVE  /\ SqlBySearch(t, s) = MemBySearch(m, s)
           /\ \A st : SqlBySearchAs(t, s, st) = MemBySearchAs(m, s, st)
<1>1. m.offers = Undated(t.offers) /\ OfferRows(t.offers, last)
  BY FieldsOfTwins
<1>2. \A o \in t.offers : Undate(o).id = o.id /\ Undate(o).search = o.search /\ Undate(o).status = o.status
  BY <1>1, UndatedIsAs
<1>3. SqlBySearch(t, s) = MemBySearch(m, s)
  BY <1>1, <1>2 DEF SqlBySearch, MemBySearch, Undated
<1>4. ASSUME NEW st PROVE SqlBySearchAs(t, s, st) = MemBySearchAs(m, s, st)
  BY <1>1, <1>2 DEF SqlBySearchAs, MemBySearchAs, OffersAs, Undated
<1> QED
  BY <1>3, <1>4

LEMMA RecentAlike ==
    ASSUME NEW t, NEW m, NEW last, Twins(t, m, last), NEW p, NEW k \in Int
    PROVE  SqlRecentSearches(t, p, k) = MemRecentSearches(m, p, k)
<1>1. t.searches = m.searches /\ SearchRows(t.searches)
  BY FieldsOfTwins
<1> DEFINE S == Visible(t, p)
           firsts == {j \in DOMAIN Newest(S) : j <= k}
<1>2. Visible(m, p) = S
  BY <1>1 DEF Visible
<1>3. /\ IsFiniteSet(S)  /\ \A x \in S : x.at \in Int
      /\ \A x, y \in S : x.at = y.at => x = y
  <2>1. S \subseteq t.searches
    BY DEF Visible
  <2> HIDE DEF S
  <2> QED
    BY <1>1, <2>1, FS_Subset DEF SearchRows
<1>4. {Newest(S)[i] : i \in firsts} = Latest(S, k)
  <2> HIDE DEF S
  <2> QED
    BY <1>3, NewestFirst
<1>5. SqlRecentSearches(t, p, k) = {x.id : x \in Latest(S, k)}
  BY DEF SqlRecentSearches
<1>6. MemRecentSearches(m, p, k) = {Newest(S)[i].id : i \in firsts}
  <2> DEFINE Firsts(R) == {Newest(R)[i].id : i \in {j \in DOMAIN Newest(R) : j <= k}}
  <2>1. MemRecentSearches(m, p, k) = Firsts(Visible(m, p))
    BY DEF MemRecentSearches, Newest
  <2>2. Firsts(S) = {Newest(S)[i].id : i \in firsts}
    OBVIOUS
  <2> HIDE DEF Firsts, S
  <2> QED
    BY <1>2, <2>1, <2>2
<1> HIDE DEF firsts, S
<1> QED
  BY <1>4, <1>5, <1>6

LEMMA LeastIs ==
    ASSUME NEW S, IsFiniteSet(S), S # {}, S \subseteq Int
    PROVE  Min(S) \in S /\ \A x \in S : Min(S) <= x
<1> DEFINE v == [x \in S |-> -x]
           n == Cardinality(S)
<1>1. v \in [S -> Int] /\ OneToOne(v, S)
  <2>1. \A x, y \in S : -x = -y => x = y
    OBVIOUS
  <2> QED
    BY <2>1 DEF OneToOne
<1>2. \A x, y \in S : v[x] > v[y] => x <= y
  OBVIOUS
<1> HIDE DEF v
<1>3. PICK s : Descends(s, v, S)
  BY <1>1, CanDescend
<1>4. /\ n \in Nat  /\ s \in [1 .. n -> S]
      /\ \A x \in S : \E i \in 1 .. n : s[i] = x
  BY <1>1, <1>3, DescendingIs
<1>5. n # 0
  BY FS_EmptySet
<1> HIDE DEF n
<1>6. 1 \in 1 .. n /\ s[1] \in S
  BY <1>4, <1>5
<1>7. \A i \in 1 .. n : s[1] <= s[i]
  <2>1. ASSUME NEW i \in 1 .. n, 1 < i PROVE s[1] <= s[i]
    <3>1. v[s[1]] > v[s[i]]
      BY <1>3, <1>6, <2>1 DEF Descends, n
    <3> QED
      BY <1>2, <1>4, <1>6, <3>1
  <2>2. ASSUME NEW i \in 1 .. n, ~(1 < i) PROVE s[1] <= s[i]
    <3>1. i = 1
      BY <1>4, <2>2
    <3>2. s[1] \in Int
      BY <1>6
    <3> QED
      BY <3>1, <3>2
  <2> QED
    BY <2>1, <2>2
<1>8. \E x \in S : \A y \in S : x <= y
  BY <1>4, <1>6, <1>7
<1> QED
  BY <1>8 DEF Min

LEMMA FirstPurchaseAlike ==
    ASSUME NEW t, NEW m, NEW last, Twins(t, m, last), NEW w, w.from \in Int, w.to \in Int
    PROVE  SqlFirstPurchase(t, w) = MemFirstPurchase(m, w)
<1>1. t.ledger = m.ledger /\ LedgerRows(t.ledger)
  BY FieldsOfTwins
<1> DEFINE In(x) == w.from <= x /\ x < w.to
<1>2. \A x : Within([at |-> x], w) <=> In(x)
  BY DEF Within
<1>3. \A p : Payments(m, p) = Payments(t, p)
  BY <1>1 DEF Payments
<1>4. ASSUME NEW p PROVE IsFiniteSet(Payments(t, p)) /\ Payments(t, p) \subseteq Nat
  <2> DEFINE paid == {x \in t.ledger : x.user = p /\ x.kind = "REPLENISH"}
             f == [e \in paid |-> e.at]
  <2>1. IsFiniteSet(paid)
    BY <1>1, FS_Subset DEF LedgerRows
  <2>2. Payments(t, p) = Images(f, paid)
    BY DEF Payments, Images
  <2>3. Payments(t, p) \subseteq Nat
    BY <1>1 DEF Payments, LedgerRows
  <2> HIDE DEF paid, f
  <2> QED
    BY <2>1, <2>2, <2>3, ImageIsFinite
<1>5. \A p : Payments(t, p) # {} => p \in {e.user : e \in t.ledger} /\ p \in People
  BY <1>1 DEF Payments, LedgerRows
<1>6. ASSUME NEW p, Payments(t, p) # {}
      PROVE  In(Min(Payments(t, p)))
                 <=> \E when \in Payments(t, p) : In(when) /\ \A x \in Payments(t, p) : x >= when
  <2> DEFINE P == Payments(t, p)
  <2> HIDE DEF P
  <2>1. IsFiniteSet(P) /\ P # {} /\ P \subseteq Int
    BY <1>4, <1>6 DEF P
  <2>2. Min(P) \in P /\ \A x \in P : Min(P) <= x
    BY <2>1, LeastIs
  <2> DEFINE least == Min(P)
  <2> HIDE DEF least
  <2>3. least \in P /\ least \in Int /\ \A x \in P : least <= x /\ x \in Int
    BY <2>1, <2>2 DEF least
  <2>4. \A when \in P : (\A x \in P : x >= when) => when = least
    BY <2>3
  <2>5. \A x \in P : x >= least
    BY <2>3
  <2> HIDE DEF In
  <2>6. In(least) <=> \E when \in P : In(when) /\ \A x \in P : x >= when
    BY <2>3, <2>4, <2>5
  <2> QED
    BY <2>6 DEF P, least
<1> HIDE DEF In
<1>7. ASSUME NEW p PROVE p \in SqlFirstPurchase(t, w) <=> p \in MemFirstPurchase(m, w)
  <2>1. p \in SqlFirstPurchase(t, w) <=> Payments(t, p) # {} /\ In(Min(Payments(t, p)))
    BY <1>2, <1>5 DEF SqlFirstPurchase
  <2>2. p \in MemFirstPurchase(m, w)
            <=> /\ p \in People
                /\ \E when \in Payments(t, p) : In(when) /\ \A x \in Payments(t, p) : x >= when
    BY <1>3 DEF MemFirstPurchase, Within, In
  <2> QED
    BY <1>5, <1>6, <2>1, <2>2
<1> QED
  BY <1>7 DEF SqlFirstPurchase, MemFirstPurchase

LEMMA WindowsAreInts ==
    ASSUME clock \in Nat, Ticks[area] \in Nat
    PROVE  /\ Today.from \in Int  /\ Today.to \in Int
           /\ Always.from \in Int  /\ Always.to \in Int
           /\ MonthBounds.this.from \in Int  /\ MonthBounds.this.to \in Int
           /\ MonthBounds.last.from \in Int  /\ MonthBounds.last.to \in Int
<1>1. DayTicks \in Nat \ {0} /\ MonthTicks \in Nat \ {0} /\ FirstMonth \in Int
  BY StoresAssumption
<1>2. \A y, n \in Int : MonthStart(y, n) \in Int
  BY <1>1 DEF MonthStart
<1>3. Today.from \in Int /\ Today.to \in Int
  BY <1>1 DEF Today, Window, DayStart
<1>4. Always.from \in Int /\ Always.to \in Int
  BY DEF Always, Window, NoTime, Never
<1> DEFINE months == (FirstMonth - 1) + (clock \div MonthTicks)
           y == months \div 12
           n == 1 + (months % 12)
           from == IF n = 1 THEN MonthStart(y - 1, 12) ELSE MonthStart(y, n - 1)
           to == IF n = 12 THEN MonthStart(y + 1, 1) ELSE MonthStart(y, n + 1)
<1>5. MonthBounds = [last |-> Window(from, MonthStart(y, n)), this |-> Window(MonthStart(y, n), to)]
  BY DEF MonthBounds
<1>6. months \in Int
  BY <1>1
<1> HIDE DEF months
<1>7. y \in Int /\ n \in Int
  BY <1>6
<1> HIDE DEF y, n
<1>8. from \in Int /\ MonthStart(y, n) \in Int /\ to \in Int
  <2>1. y - 1 \in Int /\ y + 1 \in Int /\ n - 1 \in Int /\ n + 1 \in Int /\ 1 \in Int /\ 12 \in Int
    BY <1>7
  <2>2. /\ MonthStart(y, n) \in Int  /\ MonthStart(y - 1, 12) \in Int  /\ MonthStart(y, n - 1) \in Int
        /\ MonthStart(y + 1, 1) \in Int  /\ MonthStart(y, n + 1) \in Int
    BY <1>2, <1>7, <2>1, Zenon
  <2> QED
    BY <2>2
<1> HIDE DEF from, to
<1> QED
  BY <1>3, <1>4, <1>5, <1>8 DEF Window

LEMMA OverviewAlike ==
    ASSUME NEW t, NEW m, NEW last \in Nat, Twins(t, m, last), Kept(m) = m,
           last = Ticks[area], clock \in Nat
    PROVE  SqlOverview(t) = MemOverview(m)
<1>1. /\ IsStore(m)  /\ t.visits = m.visits  /\ t.subs = m.subs  /\ t.ledger = m.ledger
      /\ t.users = m.users  /\ m.offers = Undated(t.offers)
      /\ t.logins = {x \in m.logins : Has(t.users, x.id)}
      /\ VisitRows(t.visits)  /\ LedgerRows(t.ledger)  /\ OfferRows(t.offers, last)
  BY FieldsOfTwins
<1>2. /\ Today.from \in Int  /\ Today.to \in Int
      /\ Always.from \in Int  /\ Always.to \in Int
      /\ MonthBounds.this.from \in Int  /\ MonthBounds.this.to \in Int
      /\ MonthBounds.last.from \in Int  /\ MonthBounds.last.to \in Int
  BY WindowsAreInts
<1>3. t.logins = m.logins
  <2> DEFINE ls == {x \in m.logins : Has(m.users, x.id)}
  <2>1. IsWith(Kept(m), m, Undated(m.offers), ls)
    BY DEF IsWith, Kept, Undated, Undate
  <2>2. IsStore(m) /\ t.logins = ls
    BY <1>1
  <2> HIDE DEF ls
  <2>3. Kept(m).logins = ls
    BY <2>1, <2>2, TwoTables
  <2> QED
    BY <2>2, <2>3
<1>4. /\ SqlUsers(t) = MemUsers(m)  /\ SqlVerified(t) = MemVerified(m)
      /\ \A w : SqlSignups(t, w) = MemSignups(m, w)
  BY <1>1, <1>3 DEF SqlUsers, MemUsers, SqlVerified, MemVerified, SqlSignups, MemSignups
<1>5. /\ SqlVisitors(t, Today) = MemVisitors(m, Today)
      /\ SqlPageViews(t, Today) = MemPageViews(m, Today)
      /\ SqlSignedIn(t, Today) = MemSignedIn(m, Today)
  BY <1>1 DEF SqlVisitors, MemVisitors, SqlPageViews, MemPageViews, SqlSignedIn, MemSignedIn,
              KnownVisits
<1>6. SqlSessions(t, Today) = MemSessions(m, Today)
  <2>1. SqlSessions(m, Today) = MemSessions(m, Today)
    <3> DEFINE w == Today
    <3> HIDE DEF w
    <3>1. w.from \in Int
      BY <1>2 DEF w
    <3>2. SqlSessions(m, w) = MemSessions(m, w)
      BY <1>1, <3>1, SessionsAlike
    <3> QED
      BY <3>2 DEF w
  <2>2. SqlSessions(t, Today) = SqlSessions(m, Today)
    BY <1>1 DEF SqlSessions, Scanned
  <2> QED
    BY <2>1, <2>2
<1>7. SqlCountAs(t, "SUBMITTED", Always) = MemCountAs(m, "SUBMITTED", Always)
  <2> DEFINE part == {o \in t.offers : o.status = "SUBMITTED"}
  <2>1. \A o \in t.offers : /\ Undate(o).status = o.status  /\ Undate(o).at = NoTime
                            /\ o.at \in NoTime .. last
    BY <1>1, UndatedIsAs DEF OfferRows, Offer
  <2>2. \A x \in NoTime .. last : NoTime <= x /\ x < Never
    BY DEF NoTime, Never
  <2>3. Always.from = NoTime /\ Always.to = Never /\ NoTime \in NoTime .. last
    BY DEF Always, Window, NoTime
  <2>4. \A o : o.at \in NoTime .. last => Within(o, Always)
    BY <2>2, <2>3 DEF Within
  <2>5. {o \in t.offers : o.status = "SUBMITTED" /\ Within(o, Always)} = part
    BY <2>1, <2>4
  <2>6. {o \in m.offers : o.status = "SUBMITTED" /\ Within(o, Always)} = Undated(part)
    BY <1>1, <2>1, <2>3, <2>4 DEF Undated
  <2>7. part \in SUBSET t.offers
    OBVIOUS
  <2> HIDE DEF part
  <2>8. Cardinality(Undated(part)) = Cardinality(part)
    BY <1>1, <2>7, UndatedIsAs
  <2> QED
    BY <2>5, <2>6, <2>8 DEF SqlCountAs, MemCountAs, Quantify
<1>8. ASSUME NEW w, w.from \in Int, w.to \in Int
      PROVE  SqlConsumed(t, w) = MemConsumed(m, w)
  <2>1. {e \in t.ledger : e.kind = "CONSUME" /\ Within(e, w)}
            = {e \in m.ledger : e.kind = "CONSUME" /\ ~(e.at < w.from) /\ ~(e.at >= w.to)}
    BY <1>1, <1>8 DEF LedgerRows, Within
  <2> QED
    BY <2>1 DEF SqlConsumed, MemConsumed
<1>9. /\ SqlConsumed(t, Always) = MemConsumed(m, Always)
      /\ SqlConsumed(t, MonthBounds.this) = MemConsumed(m, MonthBounds.this)
      /\ SqlConsumed(t, MonthBounds.last) = MemConsumed(m, MonthBounds.last)
  BY <1>2, <1>8
<1>10. Estimate(SqlActiveSubs(t)) = Estimate(MemActiveSubs(m)) /\ SqlEarliest(t) = MemEarliest(m)
  BY <1>1 DEF SqlActiveSubs, MemActiveSubs, SqlEarliest, MemEarliest
<1> QED
  BY <1>4, <1>5, <1>6, <1>7, <1>9, <1>10 DEF SqlOverview, MemOverview

LEMMA AnswersFollow ==
    ASSUME StoreInv, unit = {}
    PROVE  Kept(sql) = Kept(mem) /\ SameAnswers
<1> DEFINE last == Ticks[area]
<1>1. Twins(sql, mem, last) /\ last \in Nat /\ clock \in Nat /\ clock \in Int
  BY WhenOpening
<1>2. \A w \in Windows : w.from \in Int /\ w.to \in Int
  BY <1>1 DEF Windows, Window
<1>3. ASSUME NEW p \in People
      PROVE  /\ SqlActive(sql, p) = MemActive(mem, p)
             /\ SqlGetPreferences(sql, p) = MemGetPreferences(mem, p)
             /\ SqlDevices(sql, p) = MemDevices(mem, p)
             /\ \A b \in Sites : SqlDeviceOf(sql, p, b) = MemDeviceOf(mem, p, b)
             /\ \A f \in SharedFilters : SameTotals(p, f)
             /\ SqlAnalytics(sql, p, NoTime) = MemAnalytics(mem, p, NoTime)
             /\ \A k \in 1 .. 2 : SqlRecentSearches(sql, p, k) = MemRecentSearches(mem, p, k)
             /\ SqlAlreadySent(sql, p, "welcome") = MemAlreadySent(mem, p, "welcome")
  <2>1. SqlActive(sql, p) = MemActive(mem, p)
    BY <1>1, ActiveAlike
  <2>2. /\ SqlGetPreferences(sql, p) = MemGetPreferences(mem, p)
        /\ SqlDevices(sql, p) = MemDevices(mem, p)
        /\ \A b : SqlDeviceOf(sql, p, b) = MemDeviceOf(mem, p, b)
        /\ SqlAlreadySent(sql, p, "welcome") = MemAlreadySent(mem, p, "welcome")
    BY <1>1, SameRowsAlike
  <2>3. /\ \A f \in SharedFilters : SameTotals(p, f)
        /\ SqlAnalytics(sql, p, NoTime) = MemAnalytics(mem, p, NoTime)
    BY <1>1, SentAlike DEF SameTotals
  <2>4. \A k \in 1 .. 2 : SqlRecentSearches(sql, p, k) = MemRecentSearches(mem, p, k)
    BY <1>1, RecentAlike
  <2> QED
    BY <2>1, <2>2, <2>3, <2>4
<1>4. ASSUME NEW s \in Ids
      PROVE  SqlBySearch(sql, s) = MemBySearch(mem, s)
             /\ \A st \in DOMAIN After : SqlBySearchAs(sql, s, st) = MemBySearchAs(mem, s, st)
  BY <1>1, BySearchAlike
<1>5. \A w \in Windows : SqlFirstPurchase(sql, w) = MemFirstPurchase(mem, w)
  BY <1>1, <1>2, FirstPurchaseAlike
<1>6. Kept(mem) = mem => SqlOverview(sql) = MemOverview(mem)
  BY <1>1, OverviewAlike
<1>7. Kept(sql) = Kept(mem)
  BY <1>1, KeptAgree
<1> QED
  BY <1>3, <1>4, <1>5, <1>6, <1>7 DEF SameAnswers

LEMMA InitStoreInv == StoresSpec => []StoreInv
BY StoreInvInit, StoreInvStep, PTL DEF StoresSpec

\* Between two units of work, however many of them failed, the dictionaries hold
\* the rows of the database, but for the dates it gives an offer and the logins it
\* cascades, and both adapters answer the queries SameAnswers lists alike, grouped
\* and sorted ones included.  It leaves out what they answer differently: what is
\* asked by a date, and of the tracker a place, a board in another spelling and the
\* top titles.
THEOREM StoresMirror == StoresSpec => []StoresAgree
<1>1. StoreInv => StoresAgree
  BY AnswersFollow DEF StoresAgree
<1> QED
  BY <1>1, InitStoreInv, PTL

\* The visits the dashboard counts for two adjoining windows add up to those of
\* the whole, whatever was pruned and wherever the boundary falls: the look-back
\* counts a visit that runs over it once, on the side it began.
THEOREM VisitsAddUp == StoresSpec => []SessionsAddUp
BY InitStoreInv, SessionsFollow, PTL

\* A user who has dismissed an announcement is not shown it again, however often it
\* is edited, taken down and published anew, and whatever units failed in between.
THEOREM DismissedForGood == StoresSpec => []DismissedStaysAway
<1>1. StoresInit => DismissInv
  BY DEF StoresInit, DismissInv
<1>2. DismissInv => DismissedStaysAway
  BY DEF DismissInv, DismissedStaysAway, SqlActive
<1> QED
  BY <1>1, <1>2, InitStoreInv, DismissInvStep, PTL DEF StoresSpec

================================================================================
