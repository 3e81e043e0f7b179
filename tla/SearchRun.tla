------------------------------ MODULE SearchRun ------------------------------
(***************************************************************************)
(* One job search of one user, from the start request to its last resume.  *)
(*                                                                         *)
(* The API process owns the user's requests (start, approve, discard,      *)
(* resume, kill).  Every accepted start or resume dispatches an EXECUTION, *)
(* a worker process that walks the master graph of MasterAgent: a START    *)
(* router, one node per board, analyze, prepare_submit, finalize and the   *)
(* notification nodes.  API and executions share only the database rows of *)
(* the search and the LangGraph checkpoint of its thread.                  *)
(*                                                                         *)
(* The graph is run in supersteps: the nodes in todo[e] run side by side   *)
(* on the state g[e] that the superstep started from, each adds its writes *)
(* to nxt[e] and its router's choice to succ[e]; when todo[e] is empty the *)
(* writes become the next state, it is checkpointed, and succ[e] starts.   *)
(***************************************************************************)
EXTENDS Integers, FiniteSetsExt

CONSTANTS
    Offers,        \* the job offers the boards can show
    Boards,        \* the boards with a worker: APEC, HelloWork, WTTJ
    BoardOf,       \* the board each offer lives on
    Plans,         \* the account types considered, of BASIC and PREMIUM
    DailyLimit,    \* UserSubscription.daily_limit of the plan
    StartCredits,  \* AI credits at the start of the search
    MaxRuns,       \* bound: executions dispatched (one start, then resumes)
    MaxFaults,     \* bound: crashes and failed database calls
    MaxEdits,      \* bound: review requests that read before they write
    MaxElsewhere   \* bound: applications, and credits, the other searches use

ASSUME OffersAssumption == IsFiniteSet(Offers)
ASSUME BoardsAssumption == IsFiniteSet(Boards) /\ BoardOf \in [Offers -> Boards]
ASSUME PlansAssumption  == Plans \subseteq {"BASIC", "PREMIUM"}
ASSUME LimitsAssumption ==
    /\ DailyLimit \in Nat \ {0}   /\ StartCredits \in Nat
    /\ MaxRuns \in Nat \ {0}      /\ MaxFaults \in Nat
    /\ MaxEdits \in Nat           /\ MaxElsewhere \in Nat

VARIABLES
    (* rows of the database *)
    plan, searchStatus, shutdown, alive, row, credits, elsewhere, usage,
    (* the LangGraph checkpoint of the search's thread *)
    ckpt,
    (* the executions *)
    pc, todo, succ, g, nxt, snap, an, fin, wk,
    (* a review request, and the resumes, between their read and their write *)
    edit, picked,
    (* the bounds used up *)
    faults, edits,
    (* history: what the boards, the user and the ledger have seen *)
    applies, entries, confirmed, consent, charged, saved, missed, overwritten

dbVars   == <<plan, searchStatus, shutdown, alive, row, credits, elsewhere, usage>>
execVars == <<pc, todo, succ, g, nxt, snap, an, fin, wk>>
history  == <<applies, entries, confirmed, consent, charged, saved, missed, overwritten>>
vars     == <<dbVars, ckpt, execVars, edit, picked, faults, edits, history>>

Runs        == 1..MaxRuns
MasterNodes == {"start", "analyze", "human_review", "prepare_submit",
                "dispatch_submit", "finalize", "completion_notification",
                "stop_agent_notification", "error_notification"}
Nodes       == MasterNodes \cup Boards

ASSUME NodesAssumption == Boards \cap MasterNodes = {}

SearchStatus == {"none", "SEARCHING", "PAUSED", "COMPLETED", "CANCELLED", "FAILED"}
RowStatus    == {"none", "GENERATED", "APPROVED", "SUBMITTED", "REJECTED"}
Copies       == 0..2    \* 2 stands for "two or more"
NoOffer      == "no offer"
ASSUME NoOfferAssumption == NoOffer \notin Offers

(* JobApplicationState, cut down to what routing and submission read: how   *)
(* many APPROVED copies of an offer processed_offers holds, the offers in   *)
(* submitted_offers and found_raw_offers, and whether error is set.         *)
GraphState  == [queue: [Offers -> Copies], sent: SUBSET Offers,
                found: SUBSET Offers, err: BOOLEAN]
EmptyState  == [queue |-> [o \in Offers |-> 0], sent |-> {}, found |-> {}, err |-> FALSE]

WorkerState == [phase: {"idle", "scrape", "boot", "check", "send", "done"},
                left: [Offers -> Copies], limit: Nat, ok: Nat,
                cur: Offers \cup {NoOffer}, late: Nat]
IdleWorker  == [phase |-> "idle", left |-> [o \in Offers |-> 0], limit |-> 0,
                ok |-> 0, cur |-> NoOffer, late |-> 0]

Analysis    == [phase: {"idle", "offers", "save", "pause", "route"},
                left: SUBSET Offers, kept: SUBSET Offers]
NoAnalysis  == [phase |-> "idle", left |-> {}, kept |-> {}]

Finalizing  == [phase: {"idle", "save", "clean"}, killed: BOOLEAN]
NotFinalizing == [phase |-> "idle", killed |-> FALSE]

NoEdit == [op |-> "none", offer |-> NoOffer]
EditOp == {"approve", "discard", "letter"}
Edit   == {NoEdit} \cup [op: EditOp, offer: Offers]

TypeOK ==
    /\ plan \in {"BASIC", "PREMIUM"}
    /\ searchStatus \in SearchStatus
    /\ shutdown \in BOOLEAN
    /\ alive \in BOOLEAN
    /\ row \in [Offers -> RowStatus]
    /\ credits \in Nat /\ elsewhere \in Nat /\ usage \in Nat
    /\ ckpt \in GraphState
    /\ pc \in [Runs -> {"idle", "dispatched", "running", "interrupted", "ended", "crashed"}]
    /\ todo \in [Runs -> SUBSET Nodes]
    /\ succ \in [Runs -> SUBSET Nodes]
    /\ g \in [Runs -> GraphState]
    /\ nxt \in [Runs -> GraphState]
    /\ snap \in Nat
    /\ an \in Analysis
    /\ fin \in [Runs -> Finalizing]
    /\ wk \in [Runs -> [Boards -> WorkerState]]
    /\ \A e \in Runs, b \in Boards : wk[e][b].phase = "send" => wk[e][b].cur \in Offers
    /\ edit \in Edit  /\ picked \in [Runs -> SUBSET Offers]
    /\ faults \in Nat /\ edits \in Nat
    /\ applies \in [Offers -> Nat] /\ entries \in [Offers -> Nat]
    /\ confirmed \in [Runs -> SUBSET Offers]
    /\ consent \in SUBSET Offers /\ saved \in SUBSET Offers
    /\ overwritten \in SUBSET Offers
    /\ charged \in Nat /\ missed \in Nat

Init ==
    /\ plan \in Plans
    /\ searchStatus = "none"  /\ shutdown = FALSE  /\ alive = FALSE
    /\ row = [o \in Offers |-> "none"]
    /\ credits = StartCredits  /\ elsewhere = 0  /\ usage = 0
    /\ ckpt = EmptyState
    /\ pc = [e \in Runs |-> "idle"]
    /\ todo = [e \in Runs |-> {}]  /\ succ = [e \in Runs |-> {}]
    /\ g = [e \in Runs |-> EmptyState]  /\ nxt = [e \in Runs |-> EmptyState]
    /\ snap = 0  /\ an = NoAnalysis
    /\ fin = [e \in Runs |-> NotFinalizing]
    /\ wk = [e \in Runs |-> [b \in Boards |-> IdleWorker]]
    /\ edit = NoEdit  /\ picked = [e \in Runs |-> {}]  /\ faults = 0  /\ edits = 0
    /\ applies = [o \in Offers |-> 0]  /\ entries = [o \in Offers |-> 0]
    /\ confirmed = [e \in Runs |-> {}]
    /\ consent = {}  /\ charged = 0  /\ saved = {}  /\ missed = 0  /\ overwritten = {}

-----------------------------------------------------------------------------
(* Shared pieces of the handlers. *)

Lesser(m, n)  == IF m <= n THEN m ELSE n
Monus(m, n)   == IF m <= n THEN 0 ELSE m - n
RowsIn(s)     == {o \in Offers : row[o] = s}
SetRows(S, s) == row' = [o \in Offers |-> IF o \in S THEN s ELSE row[o]]

(* get_daily_application_count: what this search and the user's other       *)
(* searches have recorded today.                                            *)
DailyUsed == elsewhere + Cardinality(RowsIn("SUBMITTED"))

(* alive: last_heartbeat is set and younger than the stale threshold.        *)
(* touch_heartbeat is a field-scoped UPDATE, with no look at is_shutdown.    *)
Beat == alive' = TRUE

Fault == faults < MaxFaults /\ faults' = faults + 1

(* The kill check of nodes and workers: seen is what the caller is told.    *)
(* When the read fails the use case answers "not killed".                   *)
IsKilled(seen) ==
    \/ seen = shutdown  /\ UNCHANGED <<faults, missed>>
    \/ shutdown /\ ~seen /\ Fault /\ missed' = missed + 1

At(e, node) == pc[e] = "running" /\ node \in todo[e]

(* A node returns and its router names the nodes of the next superstep.     *)
Leave(e, node, next) ==
    /\ todo' = [todo EXCEPT ![e] = @ \ {node}]
    /\ succ' = [succ EXCEPT ![e] = @ \cup next]

-----------------------------------------------------------------------------
(* The API process: start, resume, kill and the review requests. *)

(* The gates that start and resume share: the wallet and the daily limit.    *)
MaySend == credits > 0 /\ DailyUsed < DailyLimit

StartPrepare ==
    /\ searchStatus = "none"  /\ MaySend
    /\ searchStatus' = "SEARCHING"  /\ shutdown' = FALSE  /\ Beat
    /\ pc' = [pc EXCEPT ![1] = "dispatched"]
    /\ UNCHANGED <<plan, row, credits, elsewhere, usage, ckpt, todo, succ, g, nxt,
                   snap, an, fin, wk, edit, picked, faults, edits, history>>

(* A resume looks at neither the search's status nor its kill switch, and    *)
(* does not change them: it may follow a kill, a completion or a crash, and  *)
(* it may overlap the execution before it, or another resume.  Resumes are   *)
(* numbered in the order in which they dispatch.                             *)
(*                                                                           *)
(* "Apply all" first reads the drafts ...                                    *)
ResumeRead(e) ==
    /\ e > 1  /\ pc[e] = "idle"  /\ picked[e] = {}  /\ pc[1] # "idle"
    /\ MaySend
    /\ RowsIn("GENERATED") # {}
    /\ picked' = [picked EXCEPT ![e] = RowsIn("GENERATED")]
    /\ UNCHANGED <<dbVars, ckpt, execVars, edit, faults, edits, history>>

(* ... and later upserts those rows whole, as approved, whatever became of   *)
(* them meanwhile. A plain resume takes the drafts approved one by one.      *)
ResumePrepare(e, applyAll) ==
    /\ e > 1  /\ pc[e] = "idle"  /\ pc[e - 1] # "idle"
    /\ applyAll <=> picked[e] # {}
    /\ IF applyAll
       THEN /\ SetRows(picked[e], "APPROVED")
            /\ picked' = [picked EXCEPT ![e] = {}]
            /\ consent' = consent \cup picked[e]
            /\ overwritten' = overwritten \cup (picked[e] \cap RowsIn("SUBMITTED"))
       ELSE /\ MaySend  /\ RowsIn("APPROVED") # {}
            /\ UNCHANGED <<row, picked, consent, overwritten>>
    /\ pc' = [pc EXCEPT ![e] = "dispatched"]
    /\ UNCHANGED <<plan, searchStatus, shutdown, alive, credits, elsewhere, usage,
                   ckpt, todo, succ, g, nxt, snap, an, fin, wk, edit, faults, edits,
                   applies, entries, confirmed, charged, saved, missed>>

(* cancel() is unconditional; set_shutdown clears the heartbeat too.         *)
Kill ==
    /\ searchStatus # "none"
    /\ searchStatus' = "CANCELLED"  /\ shutdown' = TRUE  /\ alive' = FALSE
    /\ UNCHANGED <<plan, row, credits, elsewhere, usage, ckpt, execVars, edit, picked, faults,
                   edits, history>>

(* The other stop button sets the kill switch alone, not the status.         *)
RequestShutdown ==
    /\ searchStatus # "none"
    /\ shutdown' = TRUE  /\ alive' = FALSE
    /\ UNCHANGED <<plan, searchStatus, row, credits, elsewhere, usage, ckpt, execVars, edit, picked,
                   faults, edits, history>>

(* A review request (approve, discard, rewrite the letter) reads the offer's *)
(* row in one statement, checks its status, and upserts the whole row, the   *)
(* status it read or changed included, in a later one.                       *)
Editable(op) == IF op = "discard" THEN RowStatus \ {"none", "SUBMITTED"} ELSE {"GENERATED"}
EditedTo(op) == CASE op = "approve" -> "APPROVED"
                  [] op = "discard" -> "REJECTED"
                  [] OTHER          -> "GENERATED"

EditRead(op, o) ==
    /\ edit = NoEdit  /\ edits < MaxEdits
    /\ row[o] \in Editable(op)
    /\ edit' = [op |-> op, offer |-> o]  /\ edits' = edits + 1
    /\ UNCHANGED <<dbVars, ckpt, execVars, picked, faults, history>>

EditWrite ==
    /\ edit # NoEdit
    /\ row' = [row EXCEPT ![edit.offer] = EditedTo(edit.op)]
    /\ consent' = IF edit.op = "approve" THEN consent \cup {edit.offer} ELSE consent
    /\ overwritten' = IF row[edit.offer] = "SUBMITTED"
                      THEN overwritten \cup {edit.offer} ELSE overwritten
    /\ edit' = NoEdit
    /\ UNCHANGED <<plan, searchStatus, shutdown, alive, credits, elsewhere, usage, ckpt,
                   execVars, picked, faults, edits, applies, entries, confirmed, charged, saved, missed>>

-----------------------------------------------------------------------------
(* What goes on around the search: the clock, and the user's other searches. *)

HeartbeatGoesStale ==
    /\ alive  /\ alive' = FALSE
    /\ UNCHANGED <<plan, searchStatus, shutdown, row, credits, elsewhere, usage, ckpt,
                   execVars, edit, picked, faults, edits, history>>

ElsewhereApplies ==
    /\ elsewhere < MaxElsewhere  /\ elsewhere' = elsewhere + 1
    /\ UNCHANGED <<plan, searchStatus, shutdown, alive, row, credits, usage, ckpt,
                   execVars, edit, picked, faults, edits, history>>

ElsewhereBills ==
    /\ credits > 0  /\ credits + charged + MaxElsewhere > StartCredits
    /\ credits' = credits - 1
    /\ UNCHANGED <<plan, searchStatus, shutdown, alive, row, elsewhere, usage, ckpt,
                   execVars, edit, picked, faults, edits, history>>

-----------------------------------------------------------------------------
(* An execution comes up. *)

(* The row of agent_states exists since prepare: create_agent_state returns  *)
(* it as it is, kill switch and heartbeat included.                          *)
BootStart ==
    /\ pc[1] = "dispatched"
    /\ pc' = [pc EXCEPT ![1] = "running"]
    /\ todo' = [todo EXCEPT ![1] = {"start"}]
    /\ g' = [g EXCEPT ![1] = EmptyState]  /\ nxt' = [nxt EXCEPT ![1] = EmptyState]
    /\ snap' = credits
    /\ UNCHANGED <<dbVars, ckpt, succ, an, fin, wk, edit, picked, faults, edits, history>>

(* aupdate_state: the approved rows are APPENDED to the checkpointed         *)
(* processed_offers, as the output of human_review.                          *)
Resumed ==
    [ckpt EXCEPT !.queue = [o \in Offers |->
        IF row[o] = "APPROVED" THEN Lesser(2, ckpt.queue[o] + 1) ELSE ckpt.queue[o]]]

BootResume(e) ==
    /\ e > 1  /\ pc[e] = "dispatched"
    /\ pc' = [pc EXCEPT ![e] = "running"]
    /\ todo' = [todo EXCEPT ![e] = {"prepare_submit"}]
    /\ ckpt' = Resumed
    /\ g' = [g EXCEPT ![e] = Resumed]  /\ nxt' = [nxt EXCEPT ![e] = Resumed]
    /\ entries' = [o \in Offers |-> entries[o] + Resumed.queue[o]]
    /\ Beat
    /\ UNCHANGED <<plan, searchStatus, shutdown, row, credits, elsewhere, usage, succ, snap,
                   an, fin, wk, edit, picked, faults, edits, applies, confirmed, consent, charged,
                   saved, missed, overwritten>>

(* The process dies, or an exception no node catches ends the graph: what    *)
(* the superstep had done is lost, the checkpoint and the rows remain.       *)
Crash(e) ==
    /\ pc[e] \in {"dispatched", "running"}  /\ Fault
    /\ pc' = [pc EXCEPT ![e] = "crashed"]
    /\ todo' = [todo EXCEPT ![e] = {}]  /\ succ' = [succ EXCEPT ![e] = {}]
    /\ g' = [g EXCEPT ![e] = EmptyState]  /\ nxt' = [nxt EXCEPT ![e] = EmptyState]
    /\ an' = IF e = 1 THEN NoAnalysis ELSE an
    /\ fin' = [fin EXCEPT ![e] = NotFinalizing]
    /\ wk' = [wk EXCEPT ![e] = [b \in Boards |-> IdleWorker]]
    /\ UNCHANGED <<dbVars, ckpt, snap, edit, picked, edits, history>>

-----------------------------------------------------------------------------
(* The scrape phase: the START router and the board workers. *)

ToWorkers(e, B, w) == wk' = [wk EXCEPT ![e] = [b \in Boards |-> IF b \in B THEN w[b] ELSE @[b]]]
SetWorker(e, b, w) == wk' = [wk EXCEPT ![e][b] = w]

(* active is the boards switched on in the preferences: any set, none too.  *)
DispatchScrape(e, seen, active) ==
    /\ At(e, "start")
    /\ Beat  /\ IsKilled(seen)
    /\ Leave(e, "start", IF seen THEN {} ELSE active)
    /\ IF seen THEN UNCHANGED wk
       ELSE ToWorkers(e, active, [b \in Boards |-> [IdleWorker EXCEPT !.phase = "scrape"]])
    /\ UNCHANGED <<plan, searchStatus, shutdown, row, credits, elsewhere, usage, ckpt, pc,
                   g, nxt, snap, an, fin, edit, picked, edits, applies, entries, confirmed, consent,
                   charged, saved, overwritten>>

(* A scraping worker returns what it found, nothing when it failed or was    *)
(* told to stop, and worker_return_router reads the kill switch for it.      *)
WorkerScrape(e, b, seen, S) ==
    /\ At(e, b)  /\ wk[e][b].phase = "scrape"
    /\ IsKilled(seen)
    /\ nxt' = [nxt EXCEPT ![e].found = @ \cup S, ![e].err = FALSE]
    /\ SetWorker(e, b, [wk[e][b] EXCEPT !.phase = "done"])
    /\ Leave(e, b, IF seen THEN {"finalize"} ELSE {"analyze"})
    /\ UNCHANGED <<dbVars, ckpt, pc, g, snap, an, fin, edit, picked, edits, applies, entries,
                   confirmed, consent, charged, saved, overwritten>>

-----------------------------------------------------------------------------
(* analyze: letters for the found offers, ranking, billing, saving.          *)

AtAnalyze(e, phase) == At(e, "analyze") /\ an.phase = phase

AnalysisFails(e) ==
    /\ nxt' = [nxt EXCEPT ![e].err = TRUE]
    /\ an' = [NoAnalysis EXCEPT !.phase = "route"]

(* The balance is the one loaded when the execution came up.                 *)
AnalyzeStart(e) ==
    /\ AtAnalyze(e, "idle")
    /\ Beat
    /\ IF g[e].found = {} THEN an' = [an EXCEPT !.phase = "route"] /\ UNCHANGED nxt
       ELSE IF snap < Lesser(Cardinality(g[e].found), DailyLimit) THEN AnalysisFails(e)
       ELSE an' = [phase |-> "offers", left |-> g[e].found, kept |-> {}] /\ UNCHANGED nxt
    /\ UNCHANGED <<plan, searchStatus, shutdown, row, credits, elsewhere, usage, ckpt, pc,
                   todo, succ, g, snap, fin, wk, edit, picked, faults, edits, history>>

(* One offer: the model's letter parses (ok) or the offer is dropped. A kill *)
(* that is seen ends the loop; what was kept goes on to be billed.           *)
AnalyzeOffer(e, o, seen, ok) ==
    /\ AtAnalyze(e, "offers")  /\ o \in an.left
    /\ Beat  /\ IsKilled(seen)
    /\ an' = IF seen THEN [an EXCEPT !.left = {}]
             ELSE [an EXCEPT !.left = @ \ {o}, !.kept = IF ok THEN @ \cup {o} ELSE @]
    /\ UNCHANGED <<plan, searchStatus, shutdown, row, credits, elsewhere, usage, ckpt, pc,
                   todo, succ, g, nxt, snap, fin, wk, edit, picked, edits, applies, entries,
                   confirmed, consent, charged, saved, overwritten>>

(* A mutant of Fee: every letter is charged, also those the ranking drops.   *)
FeeForEveryLetter(best) == Cardinality(an.kept)

(* The best DailyLimit letters are kept, and those are what is charged, in   *)
(* one UPDATE guarded by the balance.                                        *)
Fee(best)     == Cardinality(best)
Affordable(n) == credits >= n

AnalyzeBill(e, best) ==
    /\ AtAnalyze(e, "offers")  /\ an.left = {}
    /\ Cardinality(best) = Lesser(Cardinality(an.kept), DailyLimit)
    /\ \/ /\ best = {} \/ ~Affordable(Fee(best))
          /\ AnalysisFails(e)  /\ UNCHANGED <<credits, charged, faults>>
       \/ best # {}  /\ Fault  /\ AnalysisFails(e)  /\ UNCHANGED <<credits, charged>>
       \/ /\ best # {}  /\ Affordable(Fee(best))
          /\ credits' = credits - Fee(best)
          /\ charged' = charged + Fee(best)
          /\ an' = [phase |-> "save", left |-> {}, kept |-> best]
          /\ UNCHANGED <<nxt, faults>>
    /\ UNCHANGED <<plan, searchStatus, shutdown, alive, row, elsewhere, usage, ckpt, pc,
                   todo, succ, g, snap, fin, wk, edit, picked, edits, applies, entries, confirmed,
                   consent, saved, missed, overwritten>>

(* Mutant of DraftStatus: drafts of both plans are born approved.            *)
DraftStatusApproved == "APPROVED"

(* PREMIUM drafts wait for the user; BASIC ones enter the queue approved.    *)
DraftStatus == IF plan = "PREMIUM" THEN "GENERATED" ELSE "APPROVED"

AnalyzeSave(e) ==
    /\ AtAnalyze(e, "save")
    /\ \/ /\ Fault  /\ AnalysisFails(e)
          /\ UNCHANGED <<row, saved, entries>>
       \/ /\ plan = "PREMIUM"
          /\ SetRows(an.kept, DraftStatus)  /\ saved' = an.kept
          /\ an' = [an EXCEPT !.phase = "pause"]
          /\ UNCHANGED <<nxt, entries, faults>>
       \/ /\ plan = "BASIC"
          /\ SetRows(an.kept, DraftStatus)  /\ saved' = an.kept
          /\ nxt' = [nxt EXCEPT ![e].queue =
                        [o \in Offers |-> IF o \in an.kept THEN 1 ELSE @[o]]]
          /\ entries' = [o \in Offers |-> IF o \in an.kept THEN entries[o] + 1 ELSE entries[o]]
          /\ an' = [NoAnalysis EXCEPT !.phase = "route"]
          /\ UNCHANGED faults
    /\ UNCHANGED <<plan, searchStatus, shutdown, alive, credits, elsewhere, usage, ckpt, pc,
                   todo, succ, g, snap, fin, wk, edit, picked, edits, applies, confirmed, consent,
                   charged, missed, overwritten>>

(* set_search_status is unconditional and its failure is swallowed.          *)
AnalyzePause(e) ==
    /\ AtAnalyze(e, "pause")
    /\ \/ searchStatus' = "PAUSED"  /\ UNCHANGED faults
       \/ Fault  /\ UNCHANGED searchStatus
    /\ an' = [NoAnalysis EXCEPT !.phase = "route"]
    /\ UNCHANGED <<plan, shutdown, alive, row, credits, elsewhere, usage, ckpt, pc, todo,
                   succ, g, nxt, snap, fin, wk, edit, picked, edits, history>>

(* Mutant of RouteReview: an empty scrape is analyzed once more.             *)
RouteReviewAgain(e, seen) ==
    IF seen THEN {"finalize"} ELSE IF g[e].found = {} THEN {"analyze"}
    ELSE IF plan = "PREMIUM" THEN {"human_review"} ELSE {"prepare_submit"}

(* route_review looks at the kill switch, at no_jobs_found and at the plan,  *)
(* never at the error analyze returned.                                      *)
RouteReview(e, seen) ==
    IF seen \/ g[e].found = {} THEN {"finalize"}
    ELSE IF plan = "PREMIUM" THEN {"human_review"} ELSE {"prepare_submit"}

AnalyzeRoute(e, seen) ==
    /\ AtAnalyze(e, "route")
    /\ IsKilled(seen)
    /\ an' = NoAnalysis
    /\ Leave(e, "analyze", RouteReview(e, seen))
    /\ UNCHANGED <<dbVars, ckpt, pc, g, nxt, snap, fin, wk, edit, picked, edits, applies, entries,
                   confirmed, consent, charged, saved, overwritten>>

-----------------------------------------------------------------------------
(* The submit phase: prepare_submit, its router, and the board workers. *)

QueueOn(q, b)  == [o \in Offers |-> IF BoardOf[o] = b THEN q[o] ELSE 0]
BoardsOf(q)    == {b \in Boards : \E o \in Offers : BoardOf[o] = b /\ q[o] > 0}

(* What is left of today. A failed count comes back as a Result, not as an   *)
(* exception, and counts as 0.                                               *)
Remaining(quota) ==
    \/ quota = Monus(DailyLimit, DailyUsed)  /\ UNCHANGED faults
    \/ quota = DailyLimit  /\ Fault

(* Mutant of Share: every board takes the remainder.                         *)
ShareForEach(quota, B, b, first) ==
    LET n == Cardinality(B)
    IN  (IF quota < n THEN 1 ELSE quota \div n) + (quota % n)

(* The share of a board; the first board takes the remainder.                *)
Share(quota, B, b, first) ==
    LET n == Cardinality(B)
    IN  (IF quota < n THEN 1 ELSE quota \div n) + (IF b = first THEN quota % n ELSE 0)

Dispatched(e, quota, first) ==
    LET B == BoardsOf(g[e].queue)
    IN  ToWorkers(e, B, [b \in Boards |-> [IdleWorker EXCEPT
                            !.phase = "boot", !.left = QueueOn(g[e].queue, b),
                            !.limit = Share(quota, B, b, first)]])

PrepareSubmit(e, seen) ==
    /\ At(e, "prepare_submit")
    /\ Beat  /\ IsKilled(seen)
    /\ IF seen \/ BoardsOf(g[e].queue) = {}
       THEN Leave(e, "prepare_submit", {})
       ELSE /\ todo' = [todo EXCEPT ![e] = (@ \ {"prepare_submit"}) \cup {"dispatch_submit"}]
            /\ UNCHANGED succ
    /\ UNCHANGED <<plan, searchStatus, shutdown, row, credits, elsewhere, usage, ckpt, pc, g,
                   nxt, snap, an, fin, wk, edit, picked, edits, applies, entries, confirmed, consent,
                   charged, saved, overwritten>>

DispatchSubmit(e, quota, first) ==
    /\ At(e, "dispatch_submit")
    /\ Remaining(quota)
    /\ IF quota = 0
       THEN Leave(e, "dispatch_submit", {})  /\ UNCHANGED wk
       ELSE /\ first \in BoardsOf(g[e].queue)
            /\ Leave(e, "dispatch_submit", BoardsOf(g[e].queue))
            /\ Dispatched(e, quota, first)
    /\ UNCHANGED <<dbVars, ckpt, pc, g, nxt, snap, an, fin, edit, picked, edits, history>>

(* Every way out of a submitting worker goes through its cleanup node, which *)
(* scrubs the error, and worker_return_router names finalize either way.     *)
WorkerEnds(e, b, w) ==
    /\ SetWorker(e, b, [w EXCEPT !.phase = "done"])
    /\ Leave(e, b, {"finalize"})

Scrubbed(e) == nxt' = [nxt EXCEPT ![e].err = FALSE]

AtWorker(e, b, phase) == At(e, b) /\ wk[e][b].phase = phase

(* The session opens, or it does not (on), and the node's exit looks at the  *)
(* error the worker INHERITED from the state and at the kill switch.         *)
WorkerBoot(e, b, seen, on) ==
    /\ AtWorker(e, b, "boot")
    /\ IsKilled(seen)
    /\ IF g[e].err \/ ~on \/ seen
       THEN WorkerEnds(e, b, wk[e][b])  /\ Scrubbed(e)
       ELSE SetWorker(e, b, [wk[e][b] EXCEPT !.phase = "check"])  /\ UNCHANGED <<todo, succ, nxt>>
    /\ UNCHANGED <<dbVars, ckpt, pc, g, snap, an, fin, edit, picked, edits, applies, entries,
                   confirmed, consent, charged, saved, overwritten>>

(* Mutant of Halts: no kill check inside the loop.                           *)
HaltsAtLimit(w, seen)   == w.ok >= w.limit

(* The top of the loop of submit_applications: the kill switch, then what    *)
(* this worker has had confirmed against its share of the day.               *)
Halts(w, seen) == seen \/ w.ok >= w.limit

WorkerCheck(e, b, seen) ==
    LET w == wk[e][b]
    IN  /\ AtWorker(e, b, "check")
        /\ IF \A o \in Offers : w.left[o] = 0
           THEN WorkerEnds(e, b, w)  /\ Scrubbed(e)  /\ UNCHANGED <<alive, faults, missed>>
           ELSE /\ Beat  /\ IsKilled(seen)
                /\ IF Halts(w, seen)
                   THEN WorkerEnds(e, b, w)  /\ Scrubbed(e)
                   ELSE /\ \E o \in Offers :
                              /\ w.left[o] > 0
                              /\ SetWorker(e, b, [w EXCEPT !.phase = "send", !.cur = o])
                        /\ UNCHANGED <<todo, succ, nxt>>
        /\ UNCHANGED <<plan, searchStatus, shutdown, row, credits, elsewhere, usage, ckpt, pc, g,
                       snap, an, fin, edit, picked, edits, applies, entries, confirmed, consent,
                       charged, saved, overwritten>>

(* An offer is given one attempt, whatever came of it.                       *)
OneLess(left, o, confirms) == [left EXCEPT ![o] = Monus(@, 1)]

(* Mutant of MayConfirm: SUBMITTED is set before the click.                  *)
MayAssume(sends, confirms) == TRUE

(* The form: skipped before the click, sent and confirmed, or sent with no   *)
(* confirmation seen, which the code takes for a failure.                    *)
MayConfirm(sends, confirms) == confirms => sends

WorkerSend(e, b, sends, confirms) ==
    LET w == wk[e][b]
        o == w.cur
    IN  /\ AtWorker(e, b, "send")  /\ MayConfirm(sends, confirms)
        /\ SetWorker(e, b, [w EXCEPT
              !.phase = "check", !.cur = NoOffer, !.left = OneLess(@, o, confirms),
              !.ok = IF confirms THEN @ + 1 ELSE @,
              !.late = IF sends /\ shutdown THEN @ + 1 ELSE @])
        /\ applies' = IF sends THEN [applies EXCEPT ![o] = @ + 1] ELSE applies
        /\ IF confirms
           THEN /\ nxt' = [nxt EXCEPT ![e].sent = @ \cup {o}, ![e].queue[o] = Monus(@, 1)]
                /\ confirmed' = [confirmed EXCEPT ![e] = @ \cup {o}]
           ELSE UNCHANGED <<nxt, confirmed>>
        /\ UNCHANGED <<dbVars, ckpt, pc, todo, succ, g, snap, an, fin, edit, picked, faults, edits,
                       entries, consent, charged, saved, missed, overwritten>>

-----------------------------------------------------------------------------
(* finalize and the notifications. *)

(* Mutant of ToRecord: a killed run saves nothing.                           *)
ToRecordUnlessKilled(e, killed) == IF killed THEN {} ELSE g[e].sent

(* What finalize saves: submitted_offers, also when the run was killed.      *)
ToRecord(e, killed) == g[e].sent

FinalizeStart(e, seen) ==
    /\ At(e, "finalize")  /\ fin[e].phase = "idle"
    /\ Beat  /\ IsKilled(seen)
    /\ fin' = [fin EXCEPT ![e] = [phase |-> IF ToRecord(e, seen) = {} THEN "clean" ELSE "save",
                                  killed |-> seen]]
    /\ UNCHANGED <<plan, searchStatus, shutdown, row, credits, elsewhere, usage, ckpt, pc, todo,
                   succ, g, nxt, snap, an, wk, edit, picked, edits, applies, entries, confirmed,
                   consent, charged, saved, overwritten>>

(* Upserts every offer of submitted_offers, those of earlier executions too. *)
FinalizeSave(e) ==
    /\ At(e, "finalize")  /\ fin[e].phase = "save"
    /\ \/ /\ SetRows(ToRecord(e, fin[e].killed), "SUBMITTED")
          /\ fin' = [fin EXCEPT ![e].phase = "clean"]
          /\ UNCHANGED <<todo, succ, nxt, faults>>
       \/ /\ Fault  /\ fin' = [fin EXCEPT ![e] = NotFinalizing]
          /\ nxt' = [nxt EXCEPT ![e].err = TRUE]
          /\ Leave(e, "finalize", {"error_notification"})
          /\ UNCHANGED row
    /\ UNCHANGED <<plan, searchStatus, shutdown, alive, credits, elsewhere, usage, ckpt, pc,
                   g, snap, an, wk, edit, picked, edits, history>>

(* Mutants of Unsubmitted and RouteEnd: the cleanup deletes by search only;  *)
(* the kill read by finalize is not looked at again.                         *)
AllOffers == {o \in Offers : row[o] # "none"}

RouteEndKillIgnored(e) ==
    IF g[e].err THEN {"error_notification"} ELSE {"completion_notification"}

(* What the cleanup deletes: the offers still APPROVED, not the drafts.      *)
Unsubmitted == RowsIn("APPROVED")

(* The error first, then the kill. Status is "killed" or                     *)
(* "finished_successfully" here, so no_jobs_notification is never chosen.    *)
RouteEnd(e) ==
    IF g[e].err THEN {"error_notification"}
    ELSE IF fin[e].killed THEN {"stop_agent_notification"} ELSE {"completion_notification"}

FinalizeCleanup(e) ==
    /\ At(e, "finalize")  /\ fin[e].phase = "clean"
    /\ \/ SetRows(Unsubmitted, "none")  /\ UNCHANGED faults
       \/ Fault  /\ UNCHANGED row
    /\ Leave(e, "finalize", RouteEnd(e))
    /\ fin' = [fin EXCEPT ![e] = NotFinalizing]
    /\ UNCHANGED <<plan, searchStatus, shutdown, alive, credits, elsewhere, usage, ckpt, pc,
                   g, nxt, snap, an, wk, edit, picked, edits, history>>

(* complete_search() refuses COMPLETED and PENDING only; the usage is        *)
(* recorded in either case, in the same transaction.                         *)
CompletionNotification(e) ==
    /\ At(e, "completion_notification")
    /\ \/ searchStatus' = "COMPLETED"  /\ usage' = usage + 1  /\ UNCHANGED faults
       \/ Fault  /\ UNCHANGED <<searchStatus, usage>>
    /\ Leave(e, "completion_notification", {})
    /\ UNCHANGED <<plan, shutdown, alive, row, credits, elsewhere, ckpt, pc, g, nxt, snap,
                   an, fin, wk, edit, picked, edits, history>>

StopNotification(e) ==
    /\ At(e, "stop_agent_notification")
    /\ nxt' = [nxt EXCEPT ![e].err = TRUE]
    /\ Leave(e, "stop_agent_notification", {})
    /\ UNCHANGED <<dbVars, ckpt, pc, g, snap, an, fin, wk, edit, picked, faults, edits, history>>

ErrorNotification(e) ==
    /\ At(e, "error_notification")
    /\ \/ searchStatus' = "FAILED"  /\ UNCHANGED faults
       \/ Fault  /\ UNCHANGED searchStatus
    /\ Leave(e, "error_notification", {})
    /\ UNCHANGED <<plan, shutdown, alive, row, credits, elsewhere, usage, ckpt, pc, g, nxt,
                   snap, an, fin, wk, edit, picked, edits, history>>

-----------------------------------------------------------------------------
(* The superstep barrier. *)

(* A worker hands back the whole state, so the reducer of processed_offers   *)
(* (operator.add) appends to it the list the worker was given.               *)
Merged(e) ==
    IF \E b \in Boards : wk[e][b].phase = "done"
    THEN [nxt[e] EXCEPT !.queue = [o \in Offers |-> IF nxt[e].queue[o] > 0 THEN 2 ELSE 0]]
    ELSE nxt[e]

(* interrupt_before = human_review stops the graph before the superstep.     *)
NextSuperstep(e) ==
    /\ pc[e] = "running"  /\ todo[e] = {}
    /\ ckpt' = Merged(e)
    /\ succ' = [succ EXCEPT ![e] = {}]
    /\ wk' = [wk EXCEPT ![e] = [b \in Boards |->
                IF b \in succ[e] THEN wk[e][b] ELSE IdleWorker]]
    /\ IF succ[e] = {} \/ "human_review" \in succ[e]
       THEN /\ pc' = [pc EXCEPT ![e] = IF succ[e] = {} THEN "ended" ELSE "interrupted"]
            /\ g' = [g EXCEPT ![e] = EmptyState]  /\ nxt' = [nxt EXCEPT ![e] = EmptyState]
            /\ UNCHANGED todo
       ELSE /\ todo' = [todo EXCEPT ![e] = succ[e]]
            /\ g' = [g EXCEPT ![e] = Merged(e)]  /\ nxt' = [nxt EXCEPT ![e] = Merged(e)]
            /\ UNCHANGED pc
    /\ UNCHANGED <<dbVars, snap, an, fin, edit, picked, faults, edits, history>>

-----------------------------------------------------------------------------
User ==
    \/ StartPrepare
    \/ \E e \in Runs : ResumeRead(e)
    \/ \E e \in Runs, all \in BOOLEAN : ResumePrepare(e, all)
    \/ Kill
    \/ RequestShutdown
    \/ \E op \in EditOp, o \in Offers : EditRead(op, o)
    \/ EditWrite

Around == HeartbeatGoesStale \/ ElsewhereApplies \/ ElsewhereBills

Master(e) ==
    \/ NextSuperstep(e)
    \/ \E seen \in BOOLEAN, active \in SUBSET Boards : DispatchScrape(e, seen, active)
    \/ AnalyzeStart(e)
    \/ \E o \in Offers, seen \in BOOLEAN, ok \in BOOLEAN : AnalyzeOffer(e, o, seen, ok)
    \/ \E best \in SUBSET an.kept : AnalyzeBill(e, best)
    \/ AnalyzeSave(e)
    \/ AnalyzePause(e)
    \/ \E seen \in BOOLEAN : AnalyzeRoute(e, seen)
    \/ \E seen \in BOOLEAN : PrepareSubmit(e, seen)
    \/ \E quota \in 0..DailyLimit, first \in Boards : DispatchSubmit(e, quota, first)
    \/ \E seen \in BOOLEAN : FinalizeStart(e, seen)
    \/ FinalizeSave(e)
    \/ FinalizeCleanup(e)
    \/ CompletionNotification(e)
    \/ StopNotification(e)
    \/ ErrorNotification(e)

Worker(e, b) ==
    \/ \E seen \in BOOLEAN, S \in SUBSET {o \in Offers : BoardOf[o] = b} :
            WorkerScrape(e, b, seen, S)
    \/ \E seen \in BOOLEAN, on \in BOOLEAN : WorkerBoot(e, b, seen, on)
    \/ \E seen \in BOOLEAN : WorkerCheck(e, b, seen)
    \/ \E sends \in BOOLEAN, confirms \in BOOLEAN : WorkerSend(e, b, sends, confirms)

Boot(e) == (e = 1 /\ BootStart) \/ BootResume(e)

Execution(e) == Boot(e) \/ Master(e) \/ (\E b \in Boards : Worker(e, b))

Next ==
    \/ User
    \/ Around
    \/ \E e \in Runs : Execution(e) \/ Crash(e)

Spec == Init /\ [][Next]_vars

(* Fairness: a dispatched job is started, and a started one is scheduled     *)
(* until it ends or crashes, whichever of its nodes has the turn; the clock  *)
(* moves. Nobody owes a resume, a kill, a review, a crash or a failed call.  *)
Fairness == (\A e \in Runs : WF_vars(Execution(e))) /\ WF_vars(HeartbeatGoesStale)

FairSpec == Spec /\ Fairness

-----------------------------------------------------------------------------
(* Safety. *)

(* The kill switch stops the sending: once the user has stopped the search,  *)
(* a board worker sends at most the application it had already begun, and    *)
(* one more for each kill check whose database read failed.                  *)
KillStopsWorkers ==
    \A e \in Runs, b \in Boards : wk[e][b].late <= 1 + missed

(* A PREMIUM user's drafts wait for review: no application leaves without an *)
(* "apply" or "apply all" of the user for that very offer.                   *)
ConsentBeforeSending ==
    plan = "PREMIUM" => \A o \in Offers : applies[o] > 0 => o \in consent

(* The dashboard and the daily counter do not lie: an offer recorded as      *)
(* SUBMITTED was sent to its board.                                          *)
RecordedWasSent ==
    \A o \in Offers : row[o] = "SUBMITTED" => applies[o] > 0

(* "NO retry (duplicate submission risk)": the loop sends an offer at most   *)
(* once for each time an execution was handed it as an APPROVED copy.        *)
NoRetry ==
    \A o \in Offers : applies[o] <= entries[o]

(* An execution that announces completion or a stop has recorded every       *)
(* application it saw confirmed; only a review or an "apply all" whose write *)
(* came later may have put another status over it.                           *)
NoLostApplication ==
    \A e \in Runs :
        At(e, "completion_notification") \/ At(e, "stop_agent_notification")
            => \A o \in confirmed[e] : row[o] = "SUBMITTED" \/ o \in overwritten

(* Truncate first, then bill: the user is charged for the drafts that are    *)
(* saved and for no other, never more than the daily limit, unless a fault   *)
(* came between the charge and the save.                                     *)
ChargedForDrafts ==
    /\ charged <= Lesser(DailyLimit, StartCredits)
    /\ charged = Cardinality(saved) \/ an.phase = "save" \/ faults > 0

(* One execution alone respects the daily limit, as long as the limit is not *)
(* smaller than what the one-per-board minimum can add up to.                *)
DailyLimitPerExecution ==
    DailyLimit + 1 >= 2 * Cardinality(Boards)
        => \A e \in Runs : MapThenSumSet(LAMBDA b : wk[e][b].ok, Boards) <= DailyLimit

(* One dispatch, in which no call failed, hands its workers no more than is  *)
(* left of the user's day, whatever the user's other searches recorded       *)
(* meanwhile: only when there is less than one application per board does    *)
(* each board's minimum of one come on top.                                  *)
Handed(e) == MapThenSumSet(LAMBDA b : wk[e][b].limit, Boards)

HandedAtMost(bound(_, _)) ==
    \A e \in Runs :
        At(e, "dispatch_submit") /\ ~At(e, "dispatch_submit")' /\ faults' = faults
            => Handed(e)' <= bound(Monus(DailyLimit, DailyUsed),
                                   Cardinality(BoardsOf(g[e].queue)))

OvershootIsOnePerBoard ==
    [][HandedAtMost(LAMBDA left, n : IF left \in 1..(n - 1) THEN left + n ELSE left)]_vars

(* Once recorded, an application is taken back by nothing but a request of   *)
(* the user whose read of the offer came before the recording: a review, or  *)
(* an "apply all" that still counts it among the drafts. No cleanup, no      *)
(* later execution and no other resume does it.                              *)
SubmittedIsFinal ==
    [][\A o \in Offers : row[o] = "SUBMITTED" /\ row'[o] # "SUBMITTED"
            => \/ edit.offer = o /\ edit' = NoEdit
               \/ \E e \in Runs : o \in picked[e] /\ picked'[e] = {}]_vars

(* A completed run is announced as such: usage is counted at most once by    *)
(* an execution in which no call failed, however its routes cross.           *)
UsageCountedOncePerRun ==
    faults = 0 => usage <= Cardinality({e \in Runs : pc[e] # "idle"})

-----------------------------------------------------------------------------
(* Liveness, under FairSpec. *)

(* Every dispatched execution comes to an end: no route goes round, and no   *)
(* worker loop outlives its list.                                            *)
EveryRunEnds ==
    \A e \in Runs : pc[e] = "dispatched" ~> pc[e] \in {"ended", "interrupted", "crashed"}

(* A confirmed application reaches the database, or the user is told it did  *)
(* not: the exceptions are a crash before finalize and the failed save that  *)
(* FINAL_DB_UPDATE_FAILED reports.                                           *)
ConfirmedIsRecorded ==
    \A e \in Runs, o \in Offers :
        At(e, BoardOf[o]) /\ o \in confirmed[e]
            ~> \/ row[o] = "SUBMITTED" \/ o \in overwritten
               \/ pc[e] = "crashed" \/ At(e, "error_notification")

(* The widget's "alive" does not outlive the executions: the heartbeat is in *)
(* the end stale or cleared, and stays so.                                   *)
AliveEnds == <>[]~alive

-----------------------------------------------------------------------------
(* What comments and docstrings of the code say, and the code does not do.   *)

(* set_shutdown: "after shutdown the agent must not read as alive".          *)
KilledNotAlive == shutdown => ~alive

(* CompleteAgentRunUseCase: a search is completed only from SEARCHING, an    *)
(* "already completed/cancelled" one keeps its status.                       *)
CancelledNotCompleted ==
    [][searchStatus = "CANCELLED" => searchStatus' # "COMPLETED"]_vars

(* dispatch_submit announces "Dispatching up to {remaining_quota}            *)
(* submissions", and calls that the "Global Submit Quota".                   *)
DispatchWithinQuota == [][HandedAtMost(LAMBDA left, n : left)]_vars

(* GetJobsForReviewUseCase: "COMPLETED implies no GENERATED/APPROVED jobs    *)
(* survive". The claim about the drafts nobody approved.                     *)
CompletedLeavesNoDrafts == searchStatus = "COMPLETED" => RowsIn("GENERATED") = {}

(* CompleteAgentRunUseCase: it "fixes the bug where searches were stuck in   *)
(* SEARCHING status forever".                                                *)
SearchingEnds == searchStatus = "SEARCHING" ~> searchStatus # "SEARCHING"
==============================================================================
