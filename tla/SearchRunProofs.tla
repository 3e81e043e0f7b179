--------------------------- MODULE SearchRunProofs ---------------------------
(* Proofs about SearchRun, for every set of offers, boards and bounds.       *)
EXTENDS SearchRun, FiniteSetTheorems, TLAPS

(***************************************************************************)
(* Type correctness.                                                       *)
(***************************************************************************)

LEMMA EmptyTypes ==
    /\ EmptyState \in GraphState  /\ IdleWorker \in WorkerState
    /\ NoAnalysis \in Analysis  /\ NotFinalizing \in Finalizing  /\ NoEdit \in Edit
    /\ IdleWorker.phase = "idle"
BY DEF EmptyState, GraphState, Copies, IdleWorker, WorkerState, NoAnalysis, Analysis,
       NotFinalizing, Finalizing, NoEdit, Edit

LEMMA InitTypeOK == Init => TypeOK
<1> SUFFICES ASSUME Init PROVE TypeOK
  OBVIOUS
<1>1. /\ plan \in {"BASIC", "PREMIUM"}
      /\ row \in [Offers -> RowStatus]
      /\ credits \in Nat
  BY PlansAssumption, LimitsAssumption DEF Init, RowStatus
<1>2. /\ ckpt \in GraphState
      /\ g \in [Runs -> GraphState]  /\ nxt \in [Runs -> GraphState]
      /\ an \in Analysis  /\ fin \in [Runs -> Finalizing]
      /\ edit \in Edit  /\ picked \in [Runs -> SUBSET Offers]
  BY EmptyTypes DEF Init
<1>3. /\ wk \in [Runs -> [Boards -> WorkerState]]
      /\ \A e \in Runs, b \in Boards : wk[e][b].phase # "send"
  BY EmptyTypes DEF Init
<1>4. QED
  BY <1>1, <1>2, <1>3 DEF Init, TypeOK, SearchStatus

(* Helpers: what the shared pieces of the handlers leave well-typed.         *)
LEMMA LeaveType ==
    ASSUME TypeOK, NEW e \in Runs, NEW node, NEW next \in SUBSET Nodes, Leave(e, node, next)
    PROVE  todo' \in [Runs -> SUBSET Nodes] /\ succ' \in [Runs -> SUBSET Nodes]
BY DEF TypeOK, Leave

LEMMA IsKilledType ==
    ASSUME TypeOK, NEW seen \in BOOLEAN, IsKilled(seen)
    PROVE  faults' \in Nat /\ missed' \in Nat
BY DEF TypeOK, IsKilled, Fault

LEMMA StepTypeUser ==
    ASSUME TypeOK, User \/ Around PROVE TypeOK'
<1> USE EmptyTypes, PlansAssumption, LimitsAssumption, NodesAssumption
<1>1. CASE StartPrepare
  BY <1>1 DEF TypeOK, StartPrepare, Beat, history, SearchStatus, Runs
<1>2. ASSUME NEW e \in Runs, ResumeRead(e) \/ \E all \in BOOLEAN : ResumePrepare(e, all)
      PROVE  TypeOK'
  <2>1. CASE ResumeRead(e)
    BY <2>1 DEF TypeOK, ResumeRead, RowsIn, dbVars, execVars, history
  <2>2. ASSUME NEW all \in BOOLEAN, ResumePrepare(e, all) PROVE TypeOK'
    <3>0. picked[e] \subseteq Offers  /\ "APPROVED" \in RowStatus
      BY DEF TypeOK, RowStatus
    <3>1. row' \in [Offers -> RowStatus]
      BY <2>2, <3>0 DEF TypeOK, ResumePrepare, SetRows
    <3>2. /\ picked' \in [Runs -> SUBSET Offers]
          /\ consent' \in SUBSET Offers  /\ overwritten' \in SUBSET Offers
      BY <2>2, <3>0 DEF TypeOK, ResumePrepare
    <3>3. QED
      BY <2>2, <3>1, <3>2 DEF TypeOK, ResumePrepare
  <2>3. QED
    BY <1>2, <2>1, <2>2
<1>3. CASE Kill \/ RequestShutdown
  BY <1>3 DEF TypeOK, Kill, RequestShutdown, execVars, history, SearchStatus
<1>4. ASSUME NEW op \in EditOp, NEW o \in Offers, EditRead(op, o) PROVE TypeOK'
  BY <1>4 DEF TypeOK, EditRead, dbVars, execVars, history, Edit
<1>5. CASE EditWrite
  <2>1. edit.offer \in Offers
    BY <1>5 DEF TypeOK, EditWrite, Edit, NoEdit
  <2>2. QED
    BY <1>5, <2>1 DEF TypeOK, EditWrite, EditedTo, RowStatus, execVars
<1>6. CASE HeartbeatGoesStale
  BY <1>6 DEF TypeOK, HeartbeatGoesStale, execVars, history
<1>7. CASE ElsewhereApplies
  BY <1>7 DEF TypeOK, ElsewhereApplies, execVars, history
<1>8. CASE ElsewhereBills
  BY <1>8 DEF TypeOK, ElsewhereBills, execVars, history
<1> QED
  BY <1>1, <1>2, <1>3, <1>4, <1>5, <1>6, <1>7, <1>8 DEF User, Around

LEMMA StepTypeBoot ==
    ASSUME TypeOK, NEW e \in Runs, Boot(e) \/ Crash(e) PROVE TypeOK'
<1> USE EmptyTypes, LimitsAssumption, NodesAssumption
<1>1. CASE BootStart
  BY <1>1 DEF TypeOK, BootStart, dbVars, history, Runs, Nodes, MasterNodes
<1>2. CASE BootResume(e)
  <2>1. Resumed \in GraphState
    <3> DEFINE q == [o \in Offers |-> IF row[o] = "APPROVED" THEN Lesser(2, ckpt.queue[o] + 1)
                                      ELSE ckpt.queue[o]]
    <3>1. \A n \in Copies : Lesser(2, n + 1) \in Copies
      BY DEF Copies, Lesser
    <3>2. ckpt \in GraphState
      BY DEF TypeOK
    <3>3. q \in [Offers -> Copies]
      BY <3>1, <3>2 DEF GraphState
    <3> HIDE DEF q
    <3>4. [ckpt EXCEPT !.queue = q] \in GraphState
      BY <3>2, <3>3 DEF GraphState
    <3>5. QED
      BY <3>4 DEF Resumed, q
  <2>2. entries' \in [Offers -> Nat]
    <3>1. \A o \in Offers : Resumed.queue[o] \in Nat /\ entries[o] \in Nat
      <4>1. Resumed.queue \in [Offers -> Copies]  /\ entries \in [Offers -> Nat]
        BY <2>1 DEF TypeOK, GraphState
      <4>2. QED
        BY <4>1 DEF Copies
    <3>2. entries' = [o \in Offers |-> entries[o] + Resumed.queue[o]]
      BY <1>2 DEF BootResume
    <3>3. QED
      BY <3>1, <3>2
  <2>3. ckpt' \in GraphState /\ g' \in [Runs -> GraphState] /\ nxt' \in [Runs -> GraphState]
    BY <1>2, <2>1 DEF TypeOK, BootResume
  <2>4. /\ pc' \in [Runs -> {"idle", "dispatched", "running", "interrupted", "ended", "crashed"}]
        /\ todo' \in [Runs -> SUBSET Nodes]
    BY <1>2 DEF TypeOK, BootResume, Nodes, MasterNodes
  <2>5. QED
    BY <1>2, <2>2, <2>3, <2>4 DEF TypeOK, BootResume, Beat
<1>3. CASE Crash(e)
  <2>1. /\ wk' \in [Runs -> [Boards -> WorkerState]]
        /\ \A r \in Runs, b \in Boards : wk'[r][b].phase = "send" => wk'[r][b].cur \in Offers
    BY <1>3 DEF TypeOK, Crash
  <2>2. QED
    BY <1>3, <2>1 DEF TypeOK, Crash, Fault, dbVars, history
<1> QED
  BY <1>1, <1>2, <1>3 DEF Boot

LEMMA StepTypeWorker ==
    ASSUME TypeOK, NEW e \in Runs, NEW b \in Boards, Worker(e, b) PROVE TypeOK'
<1>0. /\ wk[e][b] \in WorkerState
      /\ nxt[e] \in GraphState
      /\ {"finalize"} \in SUBSET Nodes  /\ {"analyze"} \in SUBSET Nodes
  BY DEF TypeOK, Nodes, MasterNodes
(* A worker's own record, once it is well-typed, is all that changes in wk.  *)
<1>a. ASSUME NEW w \in WorkerState, SetWorker(e, b, w), w.phase = "send" => w.cur \in Offers
      PROVE  /\ wk' \in [Runs -> [Boards -> WorkerState]]
             /\ \A r \in Runs, c \in Boards : wk'[r][c].phase = "send" => wk'[r][c].cur \in Offers
  BY <1>a DEF TypeOK, SetWorker
<1>b. ASSUME Scrubbed(e) PROVE nxt' \in [Runs -> GraphState]
  BY <1>0, <1>b DEF TypeOK, Scrubbed, GraphState
<1>1. ASSUME NEW seen \in BOOLEAN, NEW S \in SUBSET {o \in Offers : BoardOf[o] = b},
             WorkerScrape(e, b, seen, S)
      PROVE  TypeOK'
  <2> DEFINE w == [wk[e][b] EXCEPT !.phase = "done"]
  <2>1. w \in WorkerState /\ w.phase # "send" /\ SetWorker(e, b, w)
    BY <1>0, <1>1 DEF WorkerScrape, WorkerState
  <2>2. nxt' \in [Runs -> GraphState]
    <3>1. [nxt[e] EXCEPT !.found = @ \cup S, !.err = FALSE] \in GraphState
      BY <1>0 DEF GraphState
    <3>2. nxt' = [nxt EXCEPT ![e] = [nxt[e] EXCEPT !.found = @ \cup S, !.err = FALSE]]
      BY <1>0, <1>1 DEF WorkerScrape, TypeOK, GraphState
    <3>3. QED
      BY <3>1, <3>2 DEF TypeOK
  <2>3. todo' \in [Runs -> SUBSET Nodes] /\ succ' \in [Runs -> SUBSET Nodes]
    BY <1>0, <1>1, LeaveType DEF WorkerScrape
  <2> HIDE DEF w
  <2>4. QED
    BY <1>1, <1>a, <2>1, <2>2, <2>3, IsKilledType DEF WorkerScrape, TypeOK, dbVars
<1>2. ASSUME NEW seen \in BOOLEAN, NEW on \in BOOLEAN, WorkerBoot(e, b, seen, on)
      PROVE  TypeOK'
  <2>1. CASE g[e].err \/ ~on \/ seen
    <3>1. [wk[e][b] EXCEPT !.phase = "done"] \in WorkerState
      BY <1>0 DEF WorkerState
    <3>2. /\ todo' \in [Runs -> SUBSET Nodes] /\ succ' \in [Runs -> SUBSET Nodes]
          /\ SetWorker(e, b, [wk[e][b] EXCEPT !.phase = "done"])  /\ Scrubbed(e)
      BY <1>0, <1>2, <2>1, LeaveType DEF WorkerBoot, WorkerEnds
    <3>3. [wk[e][b] EXCEPT !.phase = "done"].phase # "send"
      BY <1>0 DEF WorkerState
    <3>4. QED
      BY <1>2, <1>a, <1>b, <3>1, <3>2, <3>3, IsKilledType DEF WorkerBoot, TypeOK, dbVars
  <2>2. CASE ~(g[e].err \/ ~on \/ seen)
    <3>1. /\ [wk[e][b] EXCEPT !.phase = "check"] \in WorkerState
          /\ [wk[e][b] EXCEPT !.phase = "check"].phase # "send"
      BY <1>0 DEF WorkerState
    <3>2. QED
      BY <1>2, <1>a, <2>2, <3>1, IsKilledType DEF WorkerBoot, TypeOK, dbVars
  <2>3. QED
    BY <2>1, <2>2
<1>3. ASSUME NEW seen \in BOOLEAN, WorkerCheck(e, b, seen) PROVE TypeOK'
  <2>0. faults' \in Nat /\ missed' \in Nat /\ alive' \in BOOLEAN
    BY <1>3, IsKilledType DEF WorkerCheck, TypeOK, Beat
  <2>1. CASE WorkerEnds(e, b, wk[e][b]) /\ Scrubbed(e)
    <3>1. /\ [wk[e][b] EXCEPT !.phase = "done"] \in WorkerState
          /\ [wk[e][b] EXCEPT !.phase = "done"].phase # "send"
      BY <1>0 DEF WorkerState
    <3>2. /\ todo' \in [Runs -> SUBSET Nodes] /\ succ' \in [Runs -> SUBSET Nodes]
          /\ SetWorker(e, b, [wk[e][b] EXCEPT !.phase = "done"])
      BY <1>0, <2>1, LeaveType DEF WorkerEnds
    <3>3. QED
      BY <1>3, <1>a, <1>b, <2>0, <2>1, <3>1, <3>2 DEF WorkerCheck, TypeOK
  <2>2. ASSUME NEW o \in Offers, UNCHANGED <<todo, succ, nxt>>,
               SetWorker(e, b, [wk[e][b] EXCEPT !.phase = "send", !.cur = o])
        PROVE  TypeOK'
    <3>1. /\ [wk[e][b] EXCEPT !.phase = "send", !.cur = o] \in WorkerState
          /\ [wk[e][b] EXCEPT !.phase = "send", !.cur = o].cur \in Offers
      BY <1>0 DEF WorkerState
    <3>2. QED
      BY <1>3, <1>a, <2>0, <2>2, <3>1 DEF WorkerCheck, TypeOK
  <2>3. QED
    BY <1>3, <2>1, <2>2 DEF WorkerCheck
<1>4. ASSUME NEW sends \in BOOLEAN, NEW confirms \in BOOLEAN, WorkerSend(e, b, sends, confirms)
      PROVE  TypeOK'
  <2> DEFINE o == wk[e][b].cur
             w == [wk[e][b] EXCEPT
                      !.phase = "check", !.cur = NoOffer, !.left = OneLess(@, o, confirms),
                      !.ok = IF confirms THEN @ + 1 ELSE @,
                      !.late = IF sends /\ shutdown THEN @ + 1 ELSE @]
  <2>0. o \in Offers
    BY <1>4 DEF WorkerSend, AtWorker, TypeOK
  <2>1. \A n \in Copies : Monus(n, 1) \in Copies
    BY DEF Copies, Monus
  <2>2. OneLess(wk[e][b].left, o, confirms) \in [Offers -> Copies]
    BY <1>0, <2>0, <2>1 DEF OneLess, WorkerState
  <2>3. w \in WorkerState /\ w.phase = "check"
    <3> DEFINE left == OneLess(wk[e][b].left, o, confirms)
               ok   == IF confirms THEN wk[e][b].ok + 1 ELSE wk[e][b].ok
               late == IF sends /\ shutdown THEN wk[e][b].late + 1 ELSE wk[e][b].late
    <3>1. ok \in Nat /\ late \in Nat
      BY <1>0 DEF WorkerState
    <3>2. left \in [Offers -> Copies]
      BY <2>2
    <3>3. w = [wk[e][b] EXCEPT !.phase = "check", !.cur = NoOffer, !.left = left,
                               !.ok = ok, !.late = late]
      BY <1>0 DEF WorkerState
    <3> HIDE DEF w, left, ok, late
    <3>4. QED
      BY <1>0, <3>1, <3>2, <3>3 DEF WorkerState
  <2>4. SetWorker(e, b, w)
    BY <1>4 DEF WorkerSend
  <2>5. nxt' \in [Runs -> GraphState]
    <3>1. [nxt[e] EXCEPT !.sent = @ \cup {o}, !.queue[o] = Monus(@, 1)] \in GraphState
      BY <1>0, <2>0, <2>1 DEF GraphState
    <3>2. CASE confirms
      <4>1. nxt' = [nxt EXCEPT ![e] = [nxt[e] EXCEPT !.sent = @ \cup {o}, !.queue[o] = Monus(@, 1)]]
        BY <1>0, <1>4, <2>0, <3>2 DEF WorkerSend, TypeOK, GraphState
      <4>2. QED
        BY <3>1, <4>1 DEF TypeOK
    <3>3. CASE ~confirms
      BY <1>4, <3>3 DEF WorkerSend, TypeOK
    <3>4. QED
      BY <3>2, <3>3
  <2>6. applies' \in [Offers -> Nat] /\ confirmed' \in [Runs -> SUBSET Offers]
    BY SMTT(40), <1>4, <2>0 DEF WorkerSend, TypeOK
  <2> HIDE DEF w
  <2>7. /\ wk' \in [Runs -> [Boards -> WorkerState]]
        /\ \A r \in Runs, c \in Boards : wk'[r][c].phase = "send" => wk'[r][c].cur \in Offers
    BY <1>a, <2>3, <2>4
  <2>8. QED
    BY <1>4, <2>5, <2>6, <2>7 DEF WorkerSend, TypeOK, dbVars
<1>5. QED
  BY <1>1, <1>2, <1>3, <1>4 DEF Worker

(* A share of the daily quota is a number: the boards of a queue are a       *)
(* finite set, and there is at least one where dispatch_submit divides.      *)
LEMMA ShareType ==
    ASSUME NEW B \in SUBSET Boards, B # {}, NEW quota \in Nat, NEW b, NEW first
    PROVE  Share(quota, B, b, first) \in Nat
<1>1. IsFiniteSet(B)
  BY BoardsAssumption, FS_Subset
<1>2. Cardinality(B) \in Nat /\ Cardinality(B) # 0
  BY <1>1, FS_CardinalityType, FS_EmptySet
<1> DEFINE n == Cardinality(B)
<1>3. quota \div n \in Nat /\ quota % n \in Nat
  <2> HIDE DEF n
  <2> QED
    BY <1>2 DEF n
<1> HIDE DEF n
<1>4. (IF quota < n THEN 1 ELSE quota \div n) \in Nat /\ (IF b = first THEN quota % n ELSE 0) \in Nat
  BY <1>3
<1>5. QED
  BY <1>4 DEF Share, n

LEMMA AnalysisType ==
    ASSUME TypeOK, NEW e \in Runs, AnalysisFails(e)
    PROVE  nxt' \in [Runs -> GraphState] /\ an' \in Analysis
BY DEF TypeOK, AnalysisFails, GraphState, Analysis, NoAnalysis

(* The workers that dispatch_scrape and dispatch_submit set going.           *)
LEMMA ToWorkersType ==
    ASSUME TypeOK, NEW e \in Runs, NEW B, NEW w \in [Boards -> WorkerState],
           \A b \in Boards : w[b].phase # "send", ToWorkers(e, B, w)
    PROVE  /\ wk' \in [Runs -> [Boards -> WorkerState]]
           /\ \A r \in Runs, b \in Boards : wk'[r][b].phase = "send" => wk'[r][b].cur \in Offers
<1>1. [b \in Boards |-> IF b \in B THEN w[b] ELSE wk[e][b]] \in [Boards -> WorkerState]
  BY DEF TypeOK
<1>2. wk' = [wk EXCEPT ![e] = [b \in Boards |-> IF b \in B THEN w[b] ELSE wk[e][b]]]
  BY DEF ToWorkers, TypeOK
<1>3. QED
  BY <1>1, <1>2 DEF TypeOK

LEMMA StepTypeMaster ==
    ASSUME TypeOK, NEW e \in Runs, Master(e) PROVE TypeOK'
<1>0. /\ g[e] \in GraphState  /\ nxt[e] \in GraphState  /\ an \in Analysis
      /\ Boards \subseteq Nodes  /\ MasterNodes \subseteq Nodes
  BY DEF TypeOK, Nodes
<1>1. CASE NextSuperstep(e)
  <2>1. Merged(e) \in GraphState
    BY <1>0 DEF Merged, GraphState, Copies
  <2> DEFINE stops == succ[e] = {} \/ "human_review" \in succ[e]
  <2>2. ckpt' \in GraphState
    BY <1>1, <2>1 DEF NextSuperstep
  <2>3. /\ wk' \in [Runs -> [Boards -> WorkerState]]
        /\ \A r \in Runs, b \in Boards : wk'[r][b].phase = "send" => wk'[r][b].cur \in Offers
    BY <1>1, EmptyTypes DEF NextSuperstep, TypeOK
  <2>4. succ' \in [Runs -> SUBSET Nodes]
    BY <1>1 DEF NextSuperstep, TypeOK
  <2>5. /\ todo' \in [Runs -> SUBSET Nodes]
        /\ g' \in [Runs -> GraphState] /\ nxt' \in [Runs -> GraphState]
        /\ pc' \in [Runs -> {"idle", "dispatched", "running", "interrupted", "ended", "crashed"}]
    <3>1. CASE stops
      <4>1. /\ pc' = [pc EXCEPT ![e] = IF succ[e] = {} THEN "ended" ELSE "interrupted"]
            /\ g' = [g EXCEPT ![e] = EmptyState]  /\ nxt' = [nxt EXCEPT ![e] = EmptyState]
            /\ todo' = todo
        BY <1>1, <3>1 DEF NextSuperstep
      <4>2. QED
        BY <4>1, EmptyTypes DEF TypeOK
    <3>2. CASE ~stops
      <4>1. /\ todo' = [todo EXCEPT ![e] = succ[e]]  /\ pc' = pc
            /\ g' = [g EXCEPT ![e] = Merged(e)]  /\ nxt' = [nxt EXCEPT ![e] = Merged(e)]
        BY <1>1, <3>2 DEF NextSuperstep
      <4>2. QED
        BY <2>1, <4>1 DEF TypeOK
    <3>3. QED
      BY <3>1, <3>2
  <2>6. QED
    BY <1>1, <2>2, <2>3, <2>4, <2>5 DEF NextSuperstep, TypeOK, dbVars, history
<1>2. ASSUME NEW seen \in BOOLEAN, NEW active \in SUBSET Boards, DispatchScrape(e, seen, active)
      PROVE  TypeOK'
  <2>1. todo' \in [Runs -> SUBSET Nodes] /\ succ' \in [Runs -> SUBSET Nodes]
    <3>1. (IF seen THEN {} ELSE active) \in SUBSET Nodes
      BY <1>0
    <3>2. QED
      BY <1>2, <3>1, LeaveType DEF DispatchScrape
  <2>2. /\ wk' \in [Runs -> [Boards -> WorkerState]]
        /\ \A r \in Runs, b \in Boards : wk'[r][b].phase = "send" => wk'[r][b].cur \in Offers
    <3>1. CASE seen
      BY <1>2, <3>1 DEF DispatchScrape, TypeOK
    <3>2. CASE ~seen
      <4> DEFINE w == [b \in Boards |-> [IdleWorker EXCEPT !.phase = "scrape"]]
      <4>1. w \in [Boards -> WorkerState] /\ \A b \in Boards : w[b].phase # "send"
        BY EmptyTypes DEF WorkerState
      <4>2. ToWorkers(e, active, w)
        BY <1>2, <3>2 DEF DispatchScrape
      <4> HIDE DEF w
      <4>3. QED
        BY <4>1, <4>2, ToWorkersType
    <3>3. QED
      BY <3>1, <3>2
  <2>3. QED
    BY <1>2, <2>1, <2>2, IsKilledType DEF DispatchScrape, TypeOK, Beat
<1>3. CASE AnalyzeStart(e)
  <2>1. nxt' \in [Runs -> GraphState] /\ an' \in Analysis
    <3>1. CASE AnalysisFails(e)
      BY <3>1, AnalysisType
    <3>2. CASE ~AnalysisFails(e)
      <4>1. nxt' = nxt /\ \/ an' = [an EXCEPT !.phase = "route"]
                          \/ an' = [phase |-> "offers", left |-> g[e].found, kept |-> {}]
        BY <1>3, <3>2 DEF AnalyzeStart
      <4>2. g[e].found \in SUBSET Offers
        BY <1>0 DEF GraphState
      <4>3. nxt' \in [Runs -> GraphState]
        BY <4>1 DEF TypeOK
      <4>4. an' \in Analysis
        BY <1>0, <4>1, <4>2 DEF Analysis
      <4>5. QED
        BY <4>3, <4>4
    <3>3. QED
      BY <3>1, <3>2
  <2>2. QED
    BY <1>3, <2>1 DEF AnalyzeStart, TypeOK, Beat, history
<1>4. ASSUME NEW o \in Offers, NEW seen \in BOOLEAN, NEW ok \in BOOLEAN, AnalyzeOffer(e, o, seen, ok)
      PROVE  TypeOK'
  <2>1. an' \in Analysis
    BY <1>0, <1>4 DEF AnalyzeOffer, Analysis
  <2>2. QED
    BY <1>4, <2>1, IsKilledType DEF AnalyzeOffer, TypeOK, Beat
<1>5. ASSUME NEW best \in SUBSET an.kept, AnalyzeBill(e, best) PROVE TypeOK'
  <2>1. best \in SUBSET Offers
    BY <1>0 DEF Analysis
  <2>2. Fee(best) \in Nat
    BY <2>1, OffersAssumption, FS_Subset, FS_CardinalityType DEF Fee
  <2>3. credits' \in Nat /\ charged' \in Nat /\ faults' \in Nat
    BY <1>5, <2>2 DEF AnalyzeBill, Affordable, TypeOK, Fault
  <2>4. nxt' \in [Runs -> GraphState] /\ an' \in Analysis
    <3>1. CASE AnalysisFails(e)
      BY <3>1, AnalysisType
    <3>2. CASE ~AnalysisFails(e)
      BY <1>5, <2>1, <3>2 DEF AnalyzeBill, TypeOK, Analysis
    <3>3. QED
      BY <3>1, <3>2
  <2>5. QED
    BY <1>5, <2>3, <2>4 DEF AnalyzeBill, TypeOK
<1>6. CASE AnalyzeSave(e)
  <2>1. nxt' \in [Runs -> GraphState] /\ an' \in Analysis
    <3>1. CASE AnalysisFails(e)
      BY <3>1, AnalysisType
    <3>2. CASE ~AnalysisFails(e)
      <4>1. an' \in Analysis
        BY <1>0, <1>6, <3>2 DEF AnalyzeSave, Analysis, NoAnalysis
      <4>2. [nxt[e] EXCEPT !.queue = [o \in Offers |-> IF o \in an.kept THEN 1 ELSE @[o]]] \in GraphState
        BY <1>0 DEF GraphState, Copies
      <4>3. nxt' \in [Runs -> GraphState]
        BY <1>0, <1>6, <3>2, <4>2 DEF AnalyzeSave, TypeOK
      <4>4. QED
        BY <4>1, <4>3
    <3>3. QED
      BY <3>1, <3>2
  <2>2. row' \in [Offers -> RowStatus] /\ saved' \in SUBSET Offers
    BY <1>0, <1>6 DEF AnalyzeSave, TypeOK, SetRows, DraftStatus, RowStatus, Analysis
  <2>3. entries' \in [Offers -> Nat] /\ faults' \in Nat
    BY <1>6 DEF AnalyzeSave, TypeOK, Fault
  <2>4. QED
    BY <1>6, <2>1, <2>2, <2>3 DEF AnalyzeSave, TypeOK
<1>7. CASE AnalyzePause(e)
  <2>1. an' \in Analysis
    BY <1>7 DEF AnalyzePause, Analysis, NoAnalysis
  <2>2. searchStatus' \in SearchStatus /\ faults' \in Nat
    BY <1>7 DEF AnalyzePause, TypeOK, SearchStatus, Fault
  <2>3. QED
    BY <1>7, <2>1, <2>2 DEF AnalyzePause, TypeOK, history
<1>8. ASSUME NEW seen \in BOOLEAN, AnalyzeRoute(e, seen) PROVE TypeOK'
  <2>1. RouteReview(e, seen) \in SUBSET Nodes
    BY <1>0 DEF RouteReview, MasterNodes
  <2>2. QED
    BY <1>8, <2>1, LeaveType, IsKilledType, EmptyTypes DEF AnalyzeRoute, TypeOK, dbVars
<1>9. ASSUME NEW seen \in BOOLEAN, PrepareSubmit(e, seen) PROVE TypeOK'
  <2>1. todo' \in [Runs -> SUBSET Nodes] /\ succ' \in [Runs -> SUBSET Nodes]
    <3>1. CASE Leave(e, "prepare_submit", {})
      BY <3>1, LeaveType
    <3>2. CASE ~Leave(e, "prepare_submit", {})
      <4>1. /\ todo' = [todo EXCEPT ![e] = (todo[e] \ {"prepare_submit"}) \cup {"dispatch_submit"}]
            /\ succ' = succ
        BY <1>9, <3>2 DEF PrepareSubmit, TypeOK
      <4>2. "dispatch_submit" \in Nodes
        BY <1>0 DEF MasterNodes
      <4>3. QED
        BY <4>1, <4>2 DEF TypeOK
    <3>3. QED
      BY <3>1, <3>2
  <2>2. QED
    BY <1>9, <2>1, IsKilledType DEF PrepareSubmit, TypeOK, Beat
<1>10. ASSUME NEW quota \in 0..DailyLimit, NEW first \in Boards, DispatchSubmit(e, quota, first)
       PROVE  TypeOK'
  <2> DEFINE B == BoardsOf(g[e].queue)
             w == [b \in Boards |-> [IdleWorker EXCEPT !.phase = "boot",
                      !.left = QueueOn(g[e].queue, b), !.limit = Share(quota, B, b, first)]]
  <2>1. B \in SUBSET Boards /\ B \in SUBSET Nodes
    BY <1>0 DEF BoardsOf
  <2>2. faults' \in Nat
    BY <1>10 DEF DispatchSubmit, Remaining, Fault, TypeOK
  <2>3. CASE quota = 0
    <3>1. todo' \in [Runs -> SUBSET Nodes] /\ succ' \in [Runs -> SUBSET Nodes]
      BY <1>10, <2>3, LeaveType DEF DispatchSubmit
    <3>2. QED
      BY <1>10, <2>2, <2>3, <3>1 DEF DispatchSubmit, TypeOK, dbVars, history, Remaining, Fault
  <2>4. CASE quota # 0
    <3>1. /\ todo' \in [Runs -> SUBSET Nodes] /\ succ' \in [Runs -> SUBSET Nodes]
          /\ B # {}
      BY <1>10, <2>1, <2>4, LeaveType DEF DispatchSubmit
    <3>2. \A b \in Boards : Share(quota, B, b, first) \in Nat
      BY <1>10, <2>1, <3>1, ShareType, LimitsAssumption
    <3>3. \A b \in Boards : QueueOn(g[e].queue, b) \in [Offers -> Copies]
      BY <1>0 DEF QueueOn, GraphState, Copies
    <3>4. ToWorkers(e, B, w)
      BY <1>10, <2>4 DEF DispatchSubmit, Dispatched
    <3> HIDE DEF B
    <3>5. w \in [Boards -> WorkerState] /\ \A b \in Boards : w[b].phase # "send"
      BY <3>2, <3>3, EmptyTypes DEF WorkerState
    <3> HIDE DEF w
    <3>6. /\ wk' \in [Runs -> [Boards -> WorkerState]]
          /\ \A r \in Runs, b \in Boards : wk'[r][b].phase = "send" => wk'[r][b].cur \in Offers
      BY <3>4, <3>5, ToWorkersType
    <3>7. QED
      BY <1>10, <2>2, <3>1, <3>6 DEF DispatchSubmit, TypeOK, dbVars, history, Remaining, Fault
  <2>5. QED
    BY <2>3, <2>4
<1>11. ASSUME NEW seen \in BOOLEAN, FinalizeStart(e, seen) PROVE TypeOK'
  <2>1. fin' \in [Runs -> Finalizing]
    BY <1>11 DEF FinalizeStart, TypeOK, Finalizing
  <2>2. QED
    BY <1>11, <2>1, IsKilledType DEF FinalizeStart, TypeOK, Beat
<1>12. CASE FinalizeSave(e)
  <2>1. fin' \in [Runs -> Finalizing]
    <3>1. fin[e] \in Finalizing /\ [fin[e] EXCEPT !.phase = "clean"] \in Finalizing
      BY ZenonT(60) DEF TypeOK, Finalizing
    <3>2. \/ fin' = [fin EXCEPT ![e] = [fin[e] EXCEPT !.phase = "clean"]]
          \/ fin' = [fin EXCEPT ![e] = NotFinalizing]
      BY <1>12 DEF FinalizeSave, TypeOK
    <3>3. QED
      BY <3>1, <3>2, EmptyTypes DEF TypeOK
  <2>2. row' \in [Offers -> RowStatus] /\ faults' \in Nat
    BY <1>12 DEF FinalizeSave, TypeOK, SetRows, RowStatus, Fault
  <2>3. nxt' \in [Runs -> GraphState]
    <3>1. [nxt EXCEPT ![e].err = TRUE] \in [Runs -> GraphState]
      BY <1>0 DEF TypeOK, GraphState
    <3>2. nxt' = nxt \/ nxt' = [nxt EXCEPT ![e].err = TRUE]
      BY <1>12 DEF FinalizeSave
    <3>3. QED
      BY <3>1, <3>2 DEF TypeOK
  <2>4. todo' \in [Runs -> SUBSET Nodes] /\ succ' \in [Runs -> SUBSET Nodes]
    <3>1. {"error_notification"} \in SUBSET Nodes
      BY <1>0 DEF MasterNodes
    <3>2. CASE Leave(e, "finalize", {"error_notification"})
      BY <3>1, <3>2, LeaveType
    <3>3. CASE UNCHANGED <<todo, succ>>
      BY <3>3 DEF TypeOK
    <3>4. QED
      BY <1>12, <3>2, <3>3 DEF FinalizeSave
  <2>5. QED
    BY <1>12, <2>1, <2>2, <2>3, <2>4 DEF FinalizeSave, TypeOK, history
<1>13. CASE FinalizeCleanup(e)
  <2>1. RouteEnd(e) \in SUBSET Nodes
    BY <1>0 DEF RouteEnd, MasterNodes
  <2>2. row' \in [Offers -> RowStatus] /\ faults' \in Nat
    BY <1>13 DEF FinalizeCleanup, TypeOK, SetRows, RowStatus, Fault
  <2>3. fin' \in [Runs -> Finalizing]
    BY <1>13, EmptyTypes DEF FinalizeCleanup, TypeOK
  <2>4. QED
    BY <1>13, <2>1, <2>2, <2>3, LeaveType DEF FinalizeCleanup, TypeOK, history
<1>14. CASE CompletionNotification(e)
  BY <1>14, LeaveType DEF CompletionNotification, TypeOK, SearchStatus, Fault, history
<1>15. CASE StopNotification(e)
  <2>1. nxt' \in [Runs -> GraphState]
    BY <1>0, <1>15 DEF StopNotification, TypeOK, GraphState
  <2>2. QED
    BY <1>15, <2>1, LeaveType DEF StopNotification, TypeOK, dbVars, history
<1>16. CASE ErrorNotification(e)
  BY <1>16, LeaveType DEF ErrorNotification, TypeOK, SearchStatus, Fault, history
<1>17. QED
  BY <1>1, <1>2, <1>3, <1>4, <1>5, <1>6, <1>7, <1>8, <1>9, <1>10, <1>11, <1>12, <1>13, <1>14,
     <1>15, <1>16 DEF Master

(* Every reachable state is well-typed; in particular the balance that the   *)
(* guarded UPDATE of try_consume_credits leaves is never negative.           *)
THEOREM TypeCorrect == Spec => []TypeOK
<1>1. TypeOK /\ [Next]_vars => TypeOK'
  <2>1. ASSUME TypeOK, Next PROVE TypeOK'
    BY <2>1, StepTypeUser, StepTypeBoot, StepTypeWorker, StepTypeMaster DEF Next, Execution
  <2>2. ASSUME TypeOK, UNCHANGED vars PROVE TypeOK'
    BY <2>2 DEF TypeOK, vars, dbVars, execVars, history
  <2>3. QED
    BY <2>1, <2>2
<1>2. QED
  BY InitTypeOK, <1>1, PTL DEF Spec

(***************************************************************************)
(* The kill switch stops the sending.                                      *)
(*                                                                         *)
(* KillStopsWorkers is not inductive: a worker with one late application   *)
(* could be about to send another. What rules it out is that the worker    *)
(* has passed the check since: with the search killed it can only have     *)
(* passed on a failed read, which is one more missed; and before the kill  *)
(* nothing is late.                                                        *)
(***************************************************************************)
KillInv ==
    /\ searchStatus = "none" => ~shutdown
    /\ \A e \in Runs, b \in Boards :
          /\ ~shutdown => wk[e][b].late = 0
          /\ wk[e][b].late <= 1 + missed
          /\ wk[e][b].phase = "send" => wk[e][b].late <= missed

(* The steps that send nothing: a worker's record stays, is reset, or        *)
(* changes without a later application and without a send begun.             *)
LEMMA KillInvQuiet ==
    ASSUME TypeOK, KillInv,
           searchStatus' # "none" \/ searchStatus' = searchStatus,
           shutdown' = shutdown, missed' \in Nat, missed' >= missed,
           \A e \in Runs, b \in Boards :
              \/ wk'[e][b] = wk[e][b]
              \/ wk'[e][b].phase # "send" /\ wk'[e][b].late \in {0, wk[e][b].late}
    PROVE  KillInv'
<1>1. \A e \in Runs, b \in Boards : wk[e][b].late \in Nat
  BY DEF TypeOK, WorkerState
<1>2. missed \in Nat
  BY DEF TypeOK
<1>3. ASSUME NEW e \in Runs, NEW b \in Boards
      PROVE  /\ ~shutdown' => wk'[e][b].late = 0
             /\ wk'[e][b].late <= 1 + missed'
             /\ wk'[e][b].phase = "send" => wk'[e][b].late <= missed'
  <2>1. wk[e][b].late \in Nat
    BY <1>1
  <2>2. /\ ~shutdown => wk[e][b].late = 0
        /\ wk[e][b].late <= 1 + missed
        /\ wk[e][b].phase = "send" => wk[e][b].late <= missed
    BY DEF KillInv
  <2>3. CASE wk'[e][b] = wk[e][b]
    BY <1>2, <2>1, <2>2, <2>3
  <2>4. CASE wk'[e][b].phase # "send" /\ wk'[e][b].late \in {0, wk[e][b].late}
    BY <1>2, <2>1, <2>2, <2>4
  <2>5. QED
    BY <2>3, <2>4
<1>4. QED
  BY <1>3 DEF KillInv

LEMMA IsKilledMissed ==
    ASSUME TypeOK, NEW seen \in BOOLEAN, IsKilled(seen)
    PROVE  /\ missed' \in Nat  /\ missed' >= missed
           /\ shutdown /\ ~seen => missed' = missed + 1
BY DEF TypeOK, IsKilled

LEMMA KillInvWorker ==
    ASSUME TypeOK, KillInv, NEW e \in Runs, NEW b \in Boards, Worker(e, b)
    PROVE  KillInv'
<1>0. /\ wk \in [Runs -> [Boards -> WorkerState]]  /\ wk[e][b] \in WorkerState
      /\ wk[e][b].late \in Nat  /\ missed \in Nat  /\ shutdown \in BOOLEAN
  BY DEF TypeOK, WorkerState
<1>a. ASSUME NEW w, SetWorker(e, b, w)
      PROVE  /\ wk'[e][b] = w
             /\ \A r \in Runs, c \in Boards : wk'[r][c] = wk[r][c] \/ (r = e /\ c = b)
  BY <1>0, <1>a DEF SetWorker
<1>b. [wk[e][b] EXCEPT !.phase = "done"].phase # "send"
      /\ [wk[e][b] EXCEPT !.phase = "done"].late = wk[e][b].late
  BY <1>0 DEF WorkerState
<1>1. ASSUME NEW seen \in BOOLEAN, NEW S \in SUBSET {o \in Offers : BoardOf[o] = b},
             WorkerScrape(e, b, seen, S)
      PROVE  KillInv'
  <2>1. SetWorker(e, b, [wk[e][b] EXCEPT !.phase = "done"])
    BY <1>1 DEF WorkerScrape
  <2>2. \A r \in Runs, c \in Boards :
           \/ wk'[r][c] = wk[r][c]
           \/ wk'[r][c].phase # "send" /\ wk'[r][c].late \in {0, wk[r][c].late}
    BY <1>a, <1>b, <2>1
  <2>3. QED
    BY <1>1, <2>2, IsKilledMissed, KillInvQuiet DEF WorkerScrape, dbVars
<1>2. ASSUME NEW seen \in BOOLEAN, NEW on \in BOOLEAN, WorkerBoot(e, b, seen, on)
      PROVE  KillInv'
  <2>1. \/ SetWorker(e, b, [wk[e][b] EXCEPT !.phase = "done"])
        \/ SetWorker(e, b, [wk[e][b] EXCEPT !.phase = "check"])
    BY <1>2 DEF WorkerBoot, WorkerEnds
  <2>2. [wk[e][b] EXCEPT !.phase = "check"].phase # "send"
        /\ [wk[e][b] EXCEPT !.phase = "check"].late = wk[e][b].late
    BY <1>0 DEF WorkerState
  <2>3. \A r \in Runs, c \in Boards :
           \/ wk'[r][c] = wk[r][c]
           \/ wk'[r][c].phase # "send" /\ wk'[r][c].late \in {0, wk[r][c].late}
    BY <1>a, <1>b, <2>1, <2>2
  <2>4. QED
    BY <1>2, <2>3, IsKilledMissed, KillInvQuiet DEF WorkerBoot, dbVars
<1>3. ASSUME NEW seen \in BOOLEAN, WorkerCheck(e, b, seen) PROVE KillInv'
  <2>1. CASE WorkerEnds(e, b, wk[e][b])
    <3>1. missed' \in Nat /\ missed' >= missed
      <4>1. missed' = missed \/ IsKilled(seen)
        BY <1>3 DEF WorkerCheck
      <4>2. QED
        BY <1>0, <4>1, IsKilledMissed
    <3>2. \A r \in Runs, c \in Boards :
             \/ wk'[r][c] = wk[r][c]
             \/ wk'[r][c].phase # "send" /\ wk'[r][c].late \in {0, wk[r][c].late}
      BY <1>a, <1>b, <2>1 DEF WorkerEnds
    <3>3. QED
      BY <1>3, <3>1, <3>2, KillInvQuiet DEF WorkerCheck
  <2>2. ASSUME NEW o \in Offers, ~seen, IsKilled(seen),
               SetWorker(e, b, [wk[e][b] EXCEPT !.phase = "send", !.cur = o])
        PROVE  KillInv'
    <3>1. wk'[e][b].late = wk[e][b].late /\ wk'[e][b].phase = "send"
      <4>1. wk'[e][b] = [wk[e][b] EXCEPT !.phase = "send", !.cur = o]
        BY <1>a, <2>2
      <4>2. QED
        BY <1>0, <4>1 DEF WorkerState
    <3>2. wk[e][b].late <= missed' /\ missed' \in Nat /\ missed' >= missed
      BY <1>0, <2>2, IsKilledMissed DEF KillInv
    <3>3. \A r \in Runs, c \in Boards : wk[r][c].late \in Nat
      BY <1>0 DEF WorkerState
    <3>4. shutdown' = shutdown /\ searchStatus' = searchStatus
      BY <1>3 DEF WorkerCheck
    <3>5. ASSUME NEW r \in Runs, NEW c \in Boards
          PROVE  /\ ~shutdown' => wk'[r][c].late = 0
                 /\ wk'[r][c].late <= 1 + missed'
                 /\ wk'[r][c].phase = "send" => wk'[r][c].late <= missed'
      <4>1. CASE r = e /\ c = b
        BY <1>0, <3>1, <3>2, <3>4, <4>1 DEF KillInv
      <4>2. CASE wk'[r][c] = wk[r][c]
        BY <1>0, <3>2, <3>3, <3>4, <4>2 DEF KillInv
      <4>3. QED
        BY <1>a, <2>2, <4>1, <4>2
    <3>6. QED
      BY <3>4, <3>5 DEF KillInv
  <2>3. QED
    BY <1>3, <2>1, <2>2 DEF WorkerCheck, Halts
<1>4. ASSUME NEW sends \in BOOLEAN, NEW confirms \in BOOLEAN, WorkerSend(e, b, sends, confirms)
      PROVE  KillInv'
  <2>1. /\ wk'[e][b].phase = "check"
        /\ wk'[e][b].late = IF sends /\ shutdown THEN wk[e][b].late + 1 ELSE wk[e][b].late
    BY <1>0, <1>4 DEF WorkerSend, SetWorker, WorkerState
  <2>2. \A r \in Runs, c \in Boards : wk'[r][c] = wk[r][c] \/ (r = e /\ c = b)
    BY <1>0, <1>4 DEF WorkerSend, SetWorker
  <2>3. wk[e][b].phase = "send"
    BY <1>4 DEF WorkerSend, AtWorker
  <2>4. shutdown' = shutdown /\ missed' = missed /\ searchStatus' = searchStatus
    BY <1>4 DEF WorkerSend, dbVars
  <2>5. ASSUME NEW r \in Runs, NEW c \in Boards
        PROVE  /\ ~shutdown' => wk'[r][c].late = 0
               /\ wk'[r][c].late <= 1 + missed'
               /\ wk'[r][c].phase = "send" => wk'[r][c].late <= missed'
    <3>1. CASE r = e /\ c = b
      BY <1>0, <2>1, <2>3, <2>4, <3>1 DEF KillInv
    <3>2. CASE wk'[r][c] = wk[r][c]
      BY <2>4, <3>2 DEF KillInv
    <3>3. QED
      BY <2>2, <3>1, <3>2
  <2>6. QED
    BY <2>4, <2>5 DEF KillInv
<1>5. QED
  BY <1>1, <1>2, <1>3, <1>4 DEF Worker

LEMMA KillInvRest ==
    ASSUME TypeOK, KillInv,
           \/ User \/ Around
           \/ \E e \in Runs : Boot(e) \/ Crash(e) \/ Master(e)
    PROVE  KillInv'
<1>0. missed \in Nat /\ missed >= missed
  BY DEF TypeOK
<1>q. ASSUME UNCHANGED <<wk, shutdown>>, searchStatus' # "none" \/ searchStatus' = searchStatus,
             missed' \in Nat, missed' >= missed
      PROVE  KillInv'
  BY <1>q, KillInvQuiet
<1>1. CASE StartPrepare
  BY <1>1 DEF StartPrepare, KillInv, history
<1>2. CASE Kill \/ RequestShutdown
  BY <1>2 DEF Kill, RequestShutdown, KillInv, execVars, history
<1>3. CASE User /\ ~StartPrepare /\ ~Kill /\ ~RequestShutdown
  BY <1>0, <1>3, <1>q DEF User, ResumeRead, ResumePrepare, EditRead, EditWrite, dbVars, execVars, history
<1>4. CASE Around
  BY <1>0, <1>4, <1>q DEF Around, HeartbeatGoesStale, ElsewhereApplies, ElsewhereBills,
                          execVars, history
<1>5. ASSUME NEW e \in Runs, Boot(e) PROVE KillInv'
  BY <1>0, <1>5, <1>q DEF Boot, BootStart, BootResume, dbVars, history
(* The records that a crash, a dispatch or the barrier write are fresh ones. *)
<1>6. IdleWorker.late = 0 /\ IdleWorker.phase # "send"
  BY DEF IdleWorker
<1>7. ASSUME NEW e \in Runs, Crash(e) PROVE KillInv'
  <2>1. \A r \in Runs, b \in Boards : wk'[r][b] = wk[r][b] \/ wk'[r][b] = IdleWorker
    BY <1>7 DEF Crash, TypeOK
  <2>2. UNCHANGED <<shutdown, searchStatus, missed>>
    BY <1>7 DEF Crash, dbVars, history
  <2>3. QED
    BY <1>0, <1>6, <2>1, <2>2, KillInvQuiet
<1>8. ASSUME NEW e \in Runs, NextSuperstep(e) PROVE KillInv'
  <2>1. \A r \in Runs, b \in Boards : wk'[r][b] = wk[r][b] \/ wk'[r][b] = IdleWorker
    BY <1>8 DEF NextSuperstep, TypeOK
  <2>2. UNCHANGED <<shutdown, searchStatus, missed>>
    BY <1>8 DEF NextSuperstep, dbVars, history
  <2>3. QED
    BY <1>0, <1>6, <2>1, <2>2, KillInvQuiet
<1>9. ASSUME NEW e \in Runs, NEW B, NEW w, ToWorkers(e, B, w),
             \A b \in Boards : w[b].late = 0 /\ w[b].phase # "send"
      PROVE  \A r \in Runs, b \in Boards :
                \/ wk'[r][b] = wk[r][b]
                \/ wk'[r][b].phase # "send" /\ wk'[r][b].late \in {0, wk[r][b].late}
  BY <1>9 DEF ToWorkers, TypeOK
<1>10. ASSUME NEW e \in Runs, NEW seen \in BOOLEAN, NEW active \in SUBSET Boards,
              DispatchScrape(e, seen, active)
       PROVE  KillInv'
  <2>1. shutdown' = shutdown /\ searchStatus' = searchStatus /\ missed' \in Nat /\ missed' >= missed
    BY <1>10, IsKilledMissed DEF DispatchScrape
  <2>2. CASE seen
    BY <1>10, <1>q, <2>1, <2>2 DEF DispatchScrape
  <2>3. CASE ~seen
    <3> DEFINE w == [b \in Boards |-> [IdleWorker EXCEPT !.phase = "scrape"]]
    <3>1. ToWorkers(e, active, w)
      BY <1>10, <2>3 DEF DispatchScrape
    <3>2. \A b \in Boards : w[b].late = 0 /\ w[b].phase # "send"
      BY DEF IdleWorker
    <3> HIDE DEF w
    <3>3. QED
      BY <1>9, <2>1, <3>1, <3>2, KillInvQuiet
  <2>4. QED
    BY <2>2, <2>3
<1>11. ASSUME NEW e \in Runs, NEW quota \in 0..DailyLimit, NEW first \in Boards,
              DispatchSubmit(e, quota, first)
       PROVE  KillInv'
  <2>1. UNCHANGED <<shutdown, searchStatus, missed>>
    BY <1>11 DEF DispatchSubmit, dbVars, history
  <2>2. CASE quota = 0
    BY <1>0, <1>11, <1>q, <2>1, <2>2 DEF DispatchSubmit
  <2>3. CASE quota # 0
    <3> DEFINE B == BoardsOf(g[e].queue)
               w == [b \in Boards |-> [IdleWorker EXCEPT !.phase = "boot",
                        !.left = QueueOn(g[e].queue, b), !.limit = Share(quota, B, b, first)]]
    <3>1. ToWorkers(e, B, w)
      BY <1>11, <2>3 DEF DispatchSubmit, Dispatched
    <3>2. \A b \in Boards : w[b].late = 0 /\ w[b].phase # "send"
      BY DEF IdleWorker
    <3> HIDE DEF w, B
    <3>3. QED
      BY <1>0, <1>9, <2>1, <3>1, <3>2, KillInvQuiet
  <2>4. QED
    BY <2>2, <2>3
(* The other nodes of the master read the kill switch or write the status.   *)
<1>12. ASSUME NEW e \in Runs, NEW seen \in BOOLEAN,
              \/ \E o \in Offers, ok \in BOOLEAN : AnalyzeOffer(e, o, seen, ok)
              \/ AnalyzeRoute(e, seen) \/ PrepareSubmit(e, seen) \/ FinalizeStart(e, seen)
       PROVE  KillInv'
  <2>1. IsKilled(seen) /\ UNCHANGED <<wk, shutdown, searchStatus>>
    BY <1>12 DEF AnalyzeOffer, AnalyzeRoute, PrepareSubmit, FinalizeStart, dbVars
  <2>2. QED
    BY <1>q, <2>1, IsKilledMissed
<1>13. ASSUME NEW e \in Runs,
              \/ AnalyzeStart(e) \/ \E best \in SUBSET an.kept : AnalyzeBill(e, best)
              \/ AnalyzeSave(e) \/ FinalizeSave(e) \/ FinalizeCleanup(e) \/ StopNotification(e)
       PROVE  KillInv'
  BY <1>0, <1>13, <1>q DEF AnalyzeStart, AnalyzeBill, AnalyzeSave, FinalizeSave, FinalizeCleanup,
                           StopNotification, dbVars, history
<1>14. ASSUME NEW e \in Runs,
              AnalyzePause(e) \/ CompletionNotification(e) \/ ErrorNotification(e)
       PROVE  KillInv'
  BY <1>0, <1>14, <1>q DEF AnalyzePause, CompletionNotification, ErrorNotification, history
<1>15. ASSUME NEW e \in Runs, Master(e) PROVE KillInv'
  BY <1>8, <1>10, <1>11, <1>12, <1>13, <1>14, <1>15 DEF Master
<1>16. QED
  BY <1>1, <1>2, <1>3, <1>4, <1>5, <1>7, <1>15

(* A stopped search sends no more: a board worker finishes at most the       *)
(* application it had begun, plus one for each kill check it could not read. *)
THEOREM KillStops == Spec => []KillStopsWorkers
<1>1. Init => KillInv
  <2>1. ASSUME Init PROVE KillInv
    <3>1. \A e \in Runs, b \in Boards : wk[e][b] = IdleWorker
      BY <2>1 DEF Init
    <3>2. IdleWorker.late = 0 /\ IdleWorker.phase # "send"
      BY DEF IdleWorker
    <3>3. missed = 0 /\ ~shutdown
      BY <2>1 DEF Init
    <3>4. QED
      BY <3>1, <3>2, <3>3 DEF KillInv
  <2>2. QED
    BY <2>1
<1>2. TypeOK /\ KillInv /\ [Next]_vars => KillInv'
  <2>1. ASSUME TypeOK, KillInv, Next PROVE KillInv'
    BY <2>1, KillInvWorker, KillInvRest DEF Next, Execution
  <2>2. ASSUME KillInv, UNCHANGED vars PROVE KillInv'
    BY <2>2 DEF KillInv, vars, dbVars, execVars, history
  <2>3. QED
    BY <2>1, <2>2
<1>3. KillInv => KillStopsWorkers
  BY DEF KillInv, KillStopsWorkers
<1>4. QED
  BY TypeCorrect, <1>1, <1>2, <1>3, PTL DEF Spec

(***************************************************************************)
(* Nothing is sent without the user's consent on PREMIUM.                  *)
(*                                                                         *)
(* Consent has to be followed from the row it is given on through every    *)
(* place an APPROVED copy passes: the row, the checkpoint, the states of a *)
(* superstep, the list of a worker and the offer a worker has in hand.     *)
(* Executions overlap, and the checkpoint of one is what the next starts   *)
(* from, so each place must be covered in every execution at once.         *)
(***************************************************************************)
Queued(s) == {o \in Offers : s.queue[o] > 0}

SentConsented    == \A o \in Offers : applies[o] > 0 => o \in consent
RowsConsented    == RowsIn("APPROVED") \subseteq consent
QueuesConsented  ==
    /\ Queued(ckpt) \subseteq consent
    /\ \A e \in Runs : Queued(g[e]) \subseteq consent /\ Queued(nxt[e]) \subseteq consent
WorkersConsented ==
    \A e \in Runs, b \in Boards :
        /\ \A o \in Offers : wk[e][b].left[o] > 0 => o \in consent
        /\ wk[e][b].phase = "send" => wk[e][b].cur \in consent

ConsentInv ==
    plan = "PREMIUM" =>
        SentConsented /\ RowsConsented /\ QueuesConsented /\ WorkersConsented

(* Consent is never taken back, so a part whose variables a step leaves      *)
(* alone, or only shrinks, stays true.                                       *)
LEMMA ConsentKept ==
    ASSUME ConsentInv, plan = "PREMIUM", consent \subseteq consent'
    PROVE  /\ applies' = applies => SentConsented'
           /\ row' = row => RowsConsented'
           /\ ckpt' = ckpt /\ g' = g /\ (\A e \in Runs : nxt'[e].queue = nxt[e].queue)
                  => QueuesConsented'
           /\ wk' = wk => WorkersConsented'
           /\ (\A e \in Runs, b \in Boards :
                  \/ wk'[e][b] = wk[e][b] \/ wk'[e][b] = IdleWorker
                  \/ wk'[e][b].left = wk[e][b].left /\ wk'[e][b].phase # "send")
                  => WorkersConsented'
<1> USE DEF ConsentInv
<1>1. applies' = applies => SentConsented'
  BY DEF SentConsented
<1>2. row' = row => RowsConsented'
  BY DEF RowsConsented, RowsIn
<1>3. ckpt' = ckpt /\ g' = g /\ (\A e \in Runs : nxt'[e].queue = nxt[e].queue) => QueuesConsented'
  BY DEF QueuesConsented, Queued
<1>4. wk' = wk => WorkersConsented'
  BY DEF WorkersConsented
<1>5. ASSUME \A e \in Runs, b \in Boards :
                \/ wk'[e][b] = wk[e][b] \/ wk'[e][b] = IdleWorker
                \/ wk'[e][b].left = wk[e][b].left /\ wk'[e][b].phase # "send"
      PROVE  WorkersConsented'
  <2>1. IdleWorker.phase # "send" /\ \A o \in Offers : IdleWorker.left[o] = 0
    BY DEF IdleWorker
  <2>2. ASSUME NEW e \in Runs, NEW b \in Boards
        PROVE  /\ \A o \in Offers : wk'[e][b].left[o] > 0 => o \in consent'
               /\ wk'[e][b].phase = "send" => wk'[e][b].cur \in consent'
    <3>1. CASE wk'[e][b] = wk[e][b]
      BY <3>1 DEF WorkersConsented
    <3>2. CASE wk'[e][b] = IdleWorker
      BY <2>1, <3>2
    <3>3. CASE wk'[e][b].left = wk[e][b].left /\ wk'[e][b].phase # "send"
      BY <3>3 DEF WorkersConsented
    <3>4. QED
      BY <1>5, <3>1, <3>2, <3>3
  <2>3. QED
    BY <2>2 DEF WorkersConsented
<1>6. QED
  BY <1>1, <1>2, <1>3, <1>4, <1>5

LEMMA ConsentUser ==
    ASSUME TypeOK, ConsentInv, User \/ Around PROVE ConsentInv'
<1> SUFFICES ASSUME plan' = "PREMIUM" PROVE ConsentInv'
  BY DEF ConsentInv
<1>0. plan = "PREMIUM"
  BY DEF User, Around, StartPrepare, ResumeRead, ResumePrepare, Kill, RequestShutdown, EditRead, EditWrite,
         HeartbeatGoesStale, ElsewhereApplies, ElsewhereBills, dbVars
<1>1. ASSUME NEW e \in Runs, NEW all \in BOOLEAN, ResumePrepare(e, all) PROVE ConsentInv'
  <2>1. consent \subseteq consent'
    BY <1>1 DEF ResumePrepare
  <2>2. RowsConsented'
    <3>1. CASE all
      <4>1. row' = [o \in Offers |-> IF o \in picked[e] THEN "APPROVED" ELSE row[o]]
            /\ consent' = consent \cup picked[e]
        BY <1>1, <3>1 DEF ResumePrepare, SetRows
      <4>2. QED
        BY <1>0, <4>1 DEF RowsIn, RowsConsented, ConsentInv
    <3>2. CASE ~all
      BY <1>0, <1>1, <2>1, <3>2, ConsentKept DEF ResumePrepare
    <3>3. QED
      BY <3>1, <3>2
  <2>3. QED
    BY <1>0, <1>1, <2>1, <2>2, ConsentKept DEF ResumePrepare, ConsentInv
<1>2. CASE EditWrite
  <2>1. consent \subseteq consent'
    BY <1>2 DEF EditWrite
  <2>2. RowsConsented'
    <3>1. edit.op = "approve" => edit.offer \in consent'
      BY <1>2 DEF EditWrite
    <3>2. edit.op # "approve" => EditedTo(edit.op) # "APPROVED"
      BY DEF EditedTo
    <3>3. row' = [row EXCEPT ![edit.offer] = EditedTo(edit.op)] /\ row \in [Offers -> RowStatus]
      BY <1>2 DEF EditWrite, TypeOK
    <3>4. \A o \in Offers : row[o] = "APPROVED" => o \in consent
      BY <1>0 DEF ConsentInv, RowsConsented, RowsIn
    <3>5. QED
      BY <2>1, <3>1, <3>2, <3>3, <3>4 DEF RowsConsented, RowsIn
  <2>3. QED
    BY <1>0, <1>2, <2>1, <2>2, ConsentKept DEF EditWrite, execVars, ConsentInv
<1>3. CASE \/ StartPrepare \/ Kill \/ RequestShutdown \/ Around
           \/ \E e \in Runs : ResumeRead(e)
           \/ \E op \in EditOp, o \in Offers : EditRead(op, o)
  <2>1. UNCHANGED <<consent, applies, row, ckpt, g, nxt, wk>>
    BY <1>3 DEF StartPrepare, ResumeRead, Kill, RequestShutdown, EditRead, Around, HeartbeatGoesStale, ElsewhereApplies,
                ElsewhereBills, dbVars, execVars, history
  <2>2. QED
    BY <1>0, <2>1, ConsentKept DEF ConsentInv
<1>4. QED
  BY <1>1, <1>2, <1>3 DEF User

LEMMA ConsentBoot ==
    ASSUME TypeOK, ConsentInv, NEW e \in Runs, Boot(e) \/ Crash(e) PROVE ConsentInv'
<1> SUFFICES ASSUME plan' = "PREMIUM" PROVE ConsentInv'
  BY DEF ConsentInv
<1>0. /\ plan = "PREMIUM"  /\ UNCHANGED <<applies, row, consent>>
      /\ Queued(EmptyState) = {}
  BY DEF Boot, BootStart, BootResume, Crash, dbVars, history, Queued, EmptyState
<1>1. CASE BootStart \/ Crash(e)
  <2>1. /\ ckpt' = ckpt
        /\ \A r \in Runs : g'[r] \in {g[r], EmptyState} /\ nxt'[r] \in {nxt[r], EmptyState}
    BY <1>1 DEF BootStart, Crash, TypeOK
  <2>2. QueuesConsented'
    BY <1>0, <2>1 DEF ConsentInv, QueuesConsented, Queued
  <2>3. \A r \in Runs, b \in Boards : wk'[r][b] = wk[r][b] \/ wk'[r][b] = IdleWorker
    <3>1. CASE BootStart
      BY <3>1 DEF BootStart
    <3>2. CASE Crash(e)
      <4>1. wk' = [wk EXCEPT ![e] = [b \in Boards |-> IdleWorker]]
        BY <3>2 DEF Crash
      <4>2. wk \in [Runs -> [Boards -> WorkerState]]
        BY DEF TypeOK
      <4>3. QED
        BY <4>1, <4>2
    <3>3. QED
      BY <1>1, <3>1, <3>2
  <2>4. SentConsented' /\ RowsConsented' /\ WorkersConsented'
    BY <1>0, <2>3, ConsentKept
  <2>5. QED
    BY <2>2, <2>4 DEF ConsentInv
<1>2. CASE BootResume(e)
  <2>1. Queued(Resumed) \subseteq consent
    <3>1. \A o \in Offers : Resumed.queue[o] = IF row[o] = "APPROVED"
                                               THEN Lesser(2, ckpt.queue[o] + 1) ELSE ckpt.queue[o]
      BY DEF Resumed, TypeOK, GraphState
    <3>2. \A o \in Offers : Resumed.queue[o] > 0 => row[o] = "APPROVED" \/ ckpt.queue[o] > 0
      BY <3>1
    <3>3. QED
      BY <1>0, <3>2 DEF Queued, ConsentInv, RowsConsented, QueuesConsented, RowsIn
  <2>2. /\ ckpt' = Resumed
        /\ \A r \in Runs : g'[r] \in {g[r], Resumed} /\ nxt'[r] \in {nxt[r], Resumed}
    BY <1>2 DEF BootResume, TypeOK
  <2>3. QueuesConsented'
    <3> DEFINE R == Resumed
    <3>1. Queued(R) \subseteq consent  /\ ckpt' = R
          /\ \A r \in Runs : g'[r] \in {g[r], R} /\ nxt'[r] \in {nxt[r], R}
      BY <2>1, <2>2
    <3> HIDE DEF R
    <3>2. QED
      BY <1>0, <3>1 DEF ConsentInv, QueuesConsented, Queued
  <2>4. wk' = wk
    BY <1>2 DEF BootResume
  <2>5. QED
    BY <1>0, <2>3, <2>4, ConsentKept DEF ConsentInv
<1>3. QED
  BY <1>1, <1>2 DEF Boot

LEMMA ConsentWorker ==
    ASSUME TypeOK, ConsentInv, NEW e \in Runs, NEW b \in Boards, Worker(e, b)
    PROVE  ConsentInv'
<1> SUFFICES ASSUME plan' = "PREMIUM" PROVE ConsentInv'
  BY DEF ConsentInv
<1>0. /\ plan = "PREMIUM"  /\ UNCHANGED <<row, consent, ckpt, g>>
      /\ wk \in [Runs -> [Boards -> WorkerState]]  /\ wk[e][b] \in WorkerState
      /\ nxt \in [Runs -> GraphState]
  BY DEF Worker, WorkerScrape, WorkerBoot, WorkerCheck, WorkerSend, dbVars, TypeOK
<1>1. RowsConsented'
  BY <1>0, ConsentKept
<1>a. ASSUME NEW w, SetWorker(e, b, w)
      PROVE  /\ wk'[e][b] = w
             /\ \A r \in Runs, c \in Boards : wk'[r][c] = wk[r][c] \/ (r = e /\ c = b)
  BY <1>0, <1>a DEF SetWorker
<1>b. ASSUME NEW p \in {"check", "done"}, SetWorker(e, b, [wk[e][b] EXCEPT !.phase = p])
      PROVE  WorkersConsented'
  <2>1. [wk[e][b] EXCEPT !.phase = p].left = wk[e][b].left
        /\ [wk[e][b] EXCEPT !.phase = p].phase # "send"
    BY <1>0 DEF WorkerState
  <2>2. \A r \in Runs, c \in Boards :
           \/ wk'[r][c] = wk[r][c]
           \/ wk'[r][c].left = wk[r][c].left /\ wk'[r][c].phase # "send"
    BY <1>a, <1>b, <2>1
  <2>3. QED
    BY <1>0, <2>2, ConsentKept
<1>c. ASSUME applies' = applies, \A r \in Runs : nxt'[r].queue = nxt[r].queue
      PROVE  SentConsented' /\ QueuesConsented'
  BY <1>0, <1>c, ConsentKept
<1>2. ASSUME NEW seen \in BOOLEAN, NEW S \in SUBSET {o \in Offers : BoardOf[o] = b},
             WorkerScrape(e, b, seen, S)
      PROVE  ConsentInv'
  <2>1. \A r \in Runs : nxt'[r].queue = nxt[r].queue
    BY <1>0, <1>2 DEF WorkerScrape, GraphState
  <2>2. QED
    BY <1>1, <1>2, <1>b, <1>c, <2>1 DEF WorkerScrape, ConsentInv
<1>3. ASSUME NEW seen \in BOOLEAN, NEW on \in BOOLEAN, WorkerBoot(e, b, seen, on)
      PROVE  ConsentInv'
  <2>1. \A r \in Runs : nxt'[r].queue = nxt[r].queue
    BY <1>0, <1>3 DEF WorkerBoot, Scrubbed, GraphState
  <2>2. QED
    BY <1>1, <1>3, <1>b, <1>c, <2>1 DEF WorkerBoot, WorkerEnds, ConsentInv
<1>4. ASSUME NEW seen \in BOOLEAN, WorkerCheck(e, b, seen) PROVE ConsentInv'
  <2>1. CASE WorkerEnds(e, b, wk[e][b]) /\ Scrubbed(e)
    <3>1. \A r \in Runs : nxt'[r].queue = nxt[r].queue
      BY <1>0, <2>1 DEF Scrubbed, GraphState
    <3>2. applies' = applies
      BY <1>4 DEF WorkerCheck
    <3>3. QED
      BY <1>1, <1>b, <1>c, <2>1, <3>1, <3>2 DEF WorkerEnds, ConsentInv
  <2>2. ASSUME NEW o \in Offers, wk[e][b].left[o] > 0, nxt' = nxt,
               SetWorker(e, b, [wk[e][b] EXCEPT !.phase = "send", !.cur = o])
        PROVE  ConsentInv'
    <3>1. wk'[e][b].left = wk[e][b].left /\ wk'[e][b].cur = o
      <4>1. wk'[e][b] = [wk[e][b] EXCEPT !.phase = "send", !.cur = o]
        BY <1>a, <2>2
      <4>2. QED
        BY <1>0, <4>1 DEF WorkerState
    <3>2. o \in consent
      BY <1>0, <2>2 DEF ConsentInv, WorkersConsented
    <3>3. ASSUME NEW r \in Runs, NEW c \in Boards
          PROVE  /\ \A x \in Offers : wk'[r][c].left[x] > 0 => x \in consent'
                 /\ wk'[r][c].phase = "send" => wk'[r][c].cur \in consent'
      <4>1. CASE r = e /\ c = b
        BY <1>0, <3>1, <3>2, <4>1 DEF ConsentInv, WorkersConsented
      <4>2. CASE wk'[r][c] = wk[r][c]
        BY <1>0, <4>2 DEF ConsentInv, WorkersConsented
      <4>3. QED
        BY <1>a, <2>2, <4>1, <4>2
    <3>4. applies' = applies
      BY <1>4 DEF WorkerCheck
    <3>5. QED
      BY <1>1, <1>c, <2>2, <3>3, <3>4 DEF ConsentInv, WorkersConsented
  <2>3. QED
    BY <1>4, <2>1, <2>2 DEF WorkerCheck
<1>5. ASSUME NEW sends \in BOOLEAN, NEW confirms \in BOOLEAN, WorkerSend(e, b, sends, confirms)
      PROVE  ConsentInv'
  <2> DEFINE o == wk[e][b].cur
  <2>1. o \in consent /\ o \in Offers
    BY <1>0, <1>5 DEF WorkerSend, AtWorker, ConsentInv, WorkersConsented, TypeOK
  <2>2. SentConsented'
    <3>1. applies' \in {applies, [applies EXCEPT ![o] = @ + 1]} /\ applies \in [Offers -> Nat]
      BY <1>5 DEF WorkerSend, TypeOK
    <3> HIDE DEF o
    <3>2. QED
      BY <1>0, <2>1, <3>1 DEF ConsentInv, SentConsented
  <2>3. QueuesConsented'
    <3>1. \A r \in Runs, x \in Offers : nxt'[r].queue[x] > 0 => nxt[r].queue[x] > 0
      <4>1. \/ nxt' = nxt
            \/ nxt' = [nxt EXCEPT ![e].sent = @ \cup {o}, ![e].queue[o] = Monus(@, 1)]
        BY <1>5 DEF WorkerSend
      <4>2. nxt \in [Runs -> GraphState]
        BY DEF TypeOK
      <4>3. \A n \in Copies : Monus(n, 1) > 0 => n > 0
        BY DEF Monus, Copies
      <4> HIDE DEF o
      <4>4. QED
        BY <4>1, <4>2, <4>3 DEF GraphState
    <3>2. QED
      BY <1>0, <3>1 DEF ConsentInv, QueuesConsented, Queued
  <2>4. WorkersConsented'
    <3>1. wk'[e][b].left = OneLess(wk[e][b].left, o, confirms) /\ wk'[e][b].phase = "check"
      BY <1>0, <1>5 DEF WorkerSend, SetWorker, WorkerState
    <3>2. \A x \in Offers : wk'[e][b].left[x] > 0 => wk[e][b].left[x] > 0
      <4> DEFINE left == wk[e][b].left
      <4>1. left \in [Offers -> Copies]
        BY <1>0 DEF WorkerState
      <4> HIDE DEF left, o
      <4>2. \A x \in Offers : OneLess(left, o, confirms)[x] > 0 => left[x] > 0
        BY <2>1, <4>1 DEF OneLess, Monus, Copies
      <4>3. QED
        BY <3>1, <4>2 DEF left
    <3>3. \A r \in Runs, c \in Boards : wk'[r][c] = wk[r][c] \/ (r = e /\ c = b)
      BY <1>0, <1>5 DEF WorkerSend, SetWorker
    <3>4. QED
      BY <1>0, <3>1, <3>2, <3>3 DEF ConsentInv, WorkersConsented
  <2>5. QED
    BY <1>1, <2>2, <2>3, <2>4 DEF ConsentInv
<1>6. QED
  BY <1>2, <1>3, <1>4, <1>5 DEF Worker

(* The barrier: a merge doubles copies, it makes none.                       *)
LEMMA MergedQueued ==
    ASSUME TypeOK, NEW e \in Runs PROVE Queued(Merged(e)) \subseteq Queued(nxt[e])
<1>1. nxt[e] \in GraphState
  BY DEF TypeOK
<1>2. \A o \in Offers : Merged(e).queue[o] > 0 => nxt[e].queue[o] > 0
  BY <1>1 DEF Merged, GraphState, Copies
<1>3. QED
  BY <1>2 DEF Queued

LEMMA ConsentMaster ==
    ASSUME TypeOK, ConsentInv, NEW e \in Runs, Master(e) PROVE ConsentInv'
<1> SUFFICES ASSUME plan' = "PREMIUM" PROVE ConsentInv'
  BY DEF ConsentInv
<1>0. /\ plan = "PREMIUM"  /\ UNCHANGED <<applies, consent>>
      /\ wk \in [Runs -> [Boards -> WorkerState]]  /\ nxt \in [Runs -> GraphState]
  BY DEF Master, NextSuperstep, DispatchScrape, AnalyzeStart, AnalyzeOffer, AnalyzeBill,
         AnalyzeSave, AnalyzePause, AnalyzeRoute, PrepareSubmit, DispatchSubmit, FinalizeStart,
         FinalizeSave, FinalizeCleanup, CompletionNotification, StopNotification,
         ErrorNotification, dbVars, history, TypeOK
<1>1. SentConsented'
  BY <1>0, ConsentKept
<1>a. ASSUME ckpt' = ckpt, g' = g, RowsConsented',
             nxt' = nxt \/ nxt' = [nxt EXCEPT ![e].err = TRUE], WorkersConsented'
      PROVE  ConsentInv'
  <2>1. \A r \in Runs : nxt'[r].queue = nxt[r].queue
    BY <1>0, <1>a DEF GraphState
  <2>2. QED
    BY <1>0, <1>1, <1>a, <2>1, ConsentKept DEF ConsentInv
<1>2. CASE NextSuperstep(e)
  <2> DEFINE S == {EmptyState, Merged(e)}
  <2>1. \A s \in S : Queued(s) \subseteq consent
    <3>1. Queued(EmptyState) = {}
      BY DEF Queued, EmptyState
    <3>2. Queued(nxt[e]) \subseteq consent
      BY <1>0 DEF ConsentInv, QueuesConsented
    <3>3. QED
      BY <3>1, <3>2, MergedQueued
  <2>2. /\ ckpt' \in S
        /\ \A r \in Runs : g'[r] \in S \cup {g[r]} /\ nxt'[r] \in S \cup {nxt[r]}
    BY <1>2 DEF NextSuperstep, TypeOK
  <2>3. QueuesConsented'
    <3> HIDE DEF S
    <3>1. Queued(ckpt') \subseteq consent
      BY <2>1, <2>2
    <3>2. ASSUME NEW r \in Runs
          PROVE  Queued(g'[r]) \subseteq consent /\ Queued(nxt'[r]) \subseteq consent
      <4>1. Queued(g[r]) \subseteq consent /\ Queued(nxt[r]) \subseteq consent
        BY <1>0 DEF ConsentInv, QueuesConsented
      <4>2. QED
        BY <2>1, <2>2, <4>1
    <3>3. QED
      BY <1>0, <3>1, <3>2 DEF QueuesConsented, Queued
  <2>4. \A r \in Runs, b \in Boards : wk'[r][b] = wk[r][b] \/ wk'[r][b] = IdleWorker
    BY <1>2 DEF NextSuperstep, TypeOK
  <2>5. row' = row
    BY <1>2 DEF NextSuperstep, dbVars
  <2>6. RowsConsented' /\ WorkersConsented'
    BY <1>0, <2>4, <2>5, ConsentKept
  <2>7. QED
    BY <1>1, <2>3, <2>6 DEF ConsentInv
(* Workers that are set going hold nothing, or what the queue holds.         *)
<1>b. ASSUME NEW B, NEW w, ToWorkers(e, B, w),
             \A b \in Boards : /\ w[b].phase # "send"
                               /\ \A o \in Offers : w[b].left[o] > 0 => o \in consent
      PROVE  WorkersConsented'
  <2>1. \A r \in Runs, b \in Boards : wk'[r][b] = wk[r][b] \/ wk'[r][b] = w[b]
    BY <1>0, <1>b DEF ToWorkers
  <2>2. QED
    BY <1>0, <1>b, <2>1 DEF ConsentInv, WorkersConsented
<1>3. ASSUME NEW seen \in BOOLEAN, NEW active \in SUBSET Boards, DispatchScrape(e, seen, active)
      PROVE  ConsentInv'
  <2>1. RowsConsented'
    BY <1>0, <1>3, ConsentKept DEF DispatchScrape
  <2>2. CASE seen
    BY <1>0, <1>3, <1>a, <2>1, <2>2, ConsentKept DEF DispatchScrape
  <2>3. CASE ~seen
    <3> DEFINE w == [b \in Boards |-> [IdleWorker EXCEPT !.phase = "scrape"]]
    <3>1. ToWorkers(e, active, w)
      BY <1>3, <2>3 DEF DispatchScrape
    <3>2. \A b \in Boards : w[b].phase # "send" /\ \A o \in Offers : w[b].left[o] = 0
      BY DEF IdleWorker
    <3> HIDE DEF w
    <3>3. WorkersConsented'
      BY <1>b, <3>1, <3>2
    <3>4. QED
      BY <1>3, <1>a, <2>1, <3>3 DEF DispatchScrape
  <2>4. QED
    BY <2>2, <2>3
<1>4. ASSUME NEW quota \in 0..DailyLimit, NEW first \in Boards, DispatchSubmit(e, quota, first)
      PROVE  ConsentInv'
  <2>1. RowsConsented'
    BY <1>0, <1>4, ConsentKept DEF DispatchSubmit, dbVars
  <2>2. CASE quota = 0
    BY <1>0, <1>4, <1>a, <2>1, <2>2, ConsentKept DEF DispatchSubmit
  <2>3. CASE quota # 0
    <3> DEFINE B == BoardsOf(g[e].queue)
               w == [b \in Boards |-> [IdleWorker EXCEPT !.phase = "boot",
                        !.left = QueueOn(g[e].queue, b), !.limit = Share(quota, B, b, first)]]
    <3>1. ToWorkers(e, B, w)
      BY <1>4, <2>3 DEF DispatchSubmit, Dispatched
    <3>2. \A b \in Boards : w[b].phase # "send" /\ w[b].left = QueueOn(g[e].queue, b)
      BY DEF IdleWorker
    <3>3. Queued(g[e]) \subseteq consent
      BY <1>0 DEF ConsentInv, QueuesConsented
    <3> HIDE DEF w, B
    <3>4. \A b \in Boards, o \in Offers : w[b].left[o] > 0 => o \in consent
      <4>1. ASSUME NEW b \in Boards, NEW o \in Offers, QueueOn(g[e].queue, b)[o] > 0
            PROVE  g[e].queue[o] > 0
        BY <4>1 DEF QueueOn
      <4>2. QED
        BY <3>2, <3>3, <4>1 DEF Queued
    <3>5. WorkersConsented'
      BY <1>b, <3>1, <3>2, <3>4
    <3>6. QED
      BY <1>4, <1>a, <2>1, <3>5 DEF DispatchSubmit
  <2>4. QED
    BY <2>2, <2>3
<1>5. CASE AnalyzeSave(e)
  <2>1. /\ UNCHANGED <<ckpt, g, wk>>
        /\ nxt' = nxt \/ nxt' = [nxt EXCEPT ![e].err = TRUE]
        /\ row' = row \/ SetRows(an.kept, "GENERATED")
    BY <1>0, <1>5 DEF AnalyzeSave, AnalysisFails, DraftStatus
  <2>2. RowsConsented'
    BY <1>0, <2>1 DEF SetRows, RowsIn, ConsentInv, RowsConsented
  <2>3. QED
    BY <1>0, <1>a, <2>1, <2>2, ConsentKept
<1>6. CASE FinalizeSave(e) \/ FinalizeCleanup(e)
  <2>1. /\ UNCHANGED <<ckpt, g, wk>>
        /\ nxt' = nxt \/ nxt' = [nxt EXCEPT ![e].err = TRUE]
        /\ \/ row' = row
           \/ \E S : SetRows(S, "SUBMITTED") \/ SetRows(S, "none")
    BY <1>6 DEF FinalizeSave, FinalizeCleanup
  <2>2. RowsConsented'
    BY <1>0, <2>1 DEF SetRows, RowsIn, ConsentInv, RowsConsented
  <2>3. QED
    BY <1>0, <1>a, <2>1, <2>2, ConsentKept
<1>7. CASE \/ AnalyzeStart(e) \/ AnalyzePause(e)
           \/ \E o \in Offers, seen \in BOOLEAN, ok \in BOOLEAN : AnalyzeOffer(e, o, seen, ok)
           \/ \E best \in SUBSET an.kept : AnalyzeBill(e, best)
           \/ \E seen \in BOOLEAN :
                 AnalyzeRoute(e, seen) \/ PrepareSubmit(e, seen) \/ FinalizeStart(e, seen)
           \/ CompletionNotification(e) \/ StopNotification(e) \/ ErrorNotification(e)
  <2>1. /\ UNCHANGED <<row, ckpt, g, wk>>
        /\ nxt' = nxt \/ nxt' = [nxt EXCEPT ![e].err = TRUE]
    BY <1>7 DEF AnalyzeStart, AnalyzePause, AnalyzeOffer, AnalyzeBill, AnalyzeRoute,
                PrepareSubmit, FinalizeStart, CompletionNotification, StopNotification,
                ErrorNotification, AnalysisFails, dbVars
  <2>2. QED
    BY <1>0, <1>a, <2>1, ConsentKept
<1>8. QED
  BY <1>2, <1>3, <1>4, <1>5, <1>6, <1>7 DEF Master

(* On PREMIUM no application leaves without the user's consent to it.        *)
THEOREM ConsentGiven == Spec => []ConsentBeforeSending
<1>1. Init => ConsentInv
  <2>1. ASSUME Init PROVE ConsentInv
    <3>1. /\ Queued(EmptyState) = {}  /\ IdleWorker.phase # "send"
          /\ \A o \in Offers : IdleWorker.left[o] = 0
      BY DEF Queued, EmptyState, IdleWorker
    <3>2. /\ ckpt = EmptyState  /\ applies = [o \in Offers |-> 0]
          /\ row = [o \in Offers |-> "none"]
          /\ \A e \in Runs : g[e] = EmptyState /\ nxt[e] = EmptyState
          /\ \A e \in Runs, b \in Boards : wk[e][b] = IdleWorker
      BY <2>1 DEF Init
    <3>3. QED
      BY <3>1, <3>2 DEF ConsentInv, SentConsented, RowsConsented, RowsIn, QueuesConsented,
                        WorkersConsented
  <2>2. QED
    BY <2>1
<1>2. TypeOK /\ ConsentInv /\ [Next]_vars => ConsentInv'
  <2>1. ASSUME TypeOK, ConsentInv, Next PROVE ConsentInv'
    BY <2>1, ConsentUser, ConsentBoot, ConsentWorker, ConsentMaster DEF Next, Execution
  <2>2. ASSUME ConsentInv, UNCHANGED vars PROVE ConsentInv'
    BY <2>2 DEF ConsentInv, SentConsented, RowsConsented, RowsIn, QueuesConsented, Queued,
                WorkersConsented, vars, dbVars, execVars, history
  <2>3. QED
    BY <2>1, <2>2
<1>3. ConsentInv => ConsentBeforeSending
  BY DEF ConsentInv, SentConsented, ConsentBeforeSending
<1>4. QED
  BY TypeCorrect, <1>1, <1>2, <1>3, PTL DEF Spec

(***************************************************************************)
(* What is recorded was sent.                                              *)
(*                                                                         *)
(* A row becomes SUBMITTED from submitted_offers of the state finalize     *)
(* started from. That list grows in the worker that saw the confirmation,  *)
(* and passes through the barrier, the checkpoint and every later resume.  *)
(***************************************************************************)
Sent == {o \in Offers : applies[o] > 0}

ListsWereSent ==
    /\ ckpt.sent \subseteq Sent
    /\ \A e \in Runs : g[e].sent \subseteq Sent /\ nxt[e].sent \subseteq Sent

SentInv == RecordedWasSent /\ ListsWereSent

(* A step that takes back no application, records none and lengthens no list *)
(* keeps the invariant.                                                      *)
LEMMA SentKept ==
    ASSUME SentInv, Sent \subseteq Sent',
           \A o \in Offers : row'[o] = "SUBMITTED" => row[o] = "SUBMITTED",
           ckpt'.sent \subseteq ckpt.sent
               \/ \E e \in Runs : ckpt'.sent \subseteq nxt[e].sent,
           \A e \in Runs :
               /\ \/ g'[e].sent \subseteq g[e].sent  \/ g'[e].sent \subseteq nxt[e].sent
                  \/ g'[e].sent \subseteq ckpt.sent
               /\ nxt'[e].sent \subseteq nxt[e].sent  \/ nxt'[e].sent \subseteq ckpt.sent
    PROVE  SentInv'
<1>1. RecordedWasSent'
  BY DEF SentInv, RecordedWasSent, Sent
<1>2. ListsWereSent'
  BY DEF SentInv, ListsWereSent
<1>3. QED
  BY <1>1, <1>2 DEF SentInv

(* The common case: rows and lists of sent offers are left alone.            *)
LEMMA SentUntouched ==
    ASSUME SentInv, UNCHANGED <<applies, row, ckpt, g>>,
           \A e \in Runs : nxt'[e].sent = nxt[e].sent
    PROVE  SentInv'
BY DEF SentInv, RecordedWasSent, ListsWereSent, Sent

LEMMA SentUser ==
    ASSUME TypeOK, SentInv, User \/ Around PROVE SentInv'
<1>0. UNCHANGED <<applies, ckpt, g, nxt>>
  BY DEF User, Around, StartPrepare, ResumeRead, ResumePrepare, Kill, RequestShutdown, EditRead, EditWrite,
         HeartbeatGoesStale, ElsewhereApplies, ElsewhereBills, execVars, history
<1>1. \A o \in Offers : row'[o] = "SUBMITTED" => row[o] = "SUBMITTED"
  <2>1. ASSUME NEW e \in Runs, NEW all \in BOOLEAN, ResumePrepare(e, all)
        PROVE  \A o \in Offers : row'[o] = "SUBMITTED" => row[o] = "SUBMITTED"
    BY <2>1 DEF ResumePrepare, SetRows
  <2>2. CASE EditWrite
    <3>1. EditedTo(edit.op) # "SUBMITTED"
      BY DEF EditedTo
    <3>2. row' = [row EXCEPT ![edit.offer] = EditedTo(edit.op)] /\ row \in [Offers -> RowStatus]
      BY <2>2 DEF EditWrite, TypeOK
    <3>3. QED
      BY <3>1, <3>2
  <2>3. CASE \/ StartPrepare \/ Kill \/ RequestShutdown \/ Around
             \/ \E e \in Runs : ResumeRead(e)
             \/ \E op \in EditOp, o \in Offers : EditRead(op, o)
    BY <2>3 DEF StartPrepare, ResumeRead, Kill, RequestShutdown, EditRead, Around, HeartbeatGoesStale,
                ElsewhereApplies, ElsewhereBills, dbVars
  <2>4. QED
    BY <2>1, <2>2, <2>3 DEF User
<1>2. QED
  BY <1>0, <1>1, SentKept DEF Sent

LEMMA SentBoot ==
    ASSUME TypeOK, SentInv, NEW e \in Runs, Boot(e) \/ Crash(e) PROVE SentInv'
<1>1. UNCHANGED <<applies, row>> /\ EmptyState.sent = {}
  BY DEF Boot, BootStart, BootResume, Crash, dbVars, history, EmptyState
<1>2. CASE BootStart \/ Crash(e)
  <2>1. /\ ckpt' = ckpt
        /\ \A r \in Runs : g'[r] \in {g[r], EmptyState} /\ nxt'[r] \in {nxt[r], EmptyState}
    BY <1>2 DEF BootStart, Crash, TypeOK
  <2>2. \A r \in Runs : g'[r].sent \subseteq g[r].sent /\ nxt'[r].sent \subseteq nxt[r].sent
    BY <1>1, <2>1
  <2>3. QED
    BY <1>1, <2>1, <2>2, SentKept DEF Sent
<1>3. CASE BootResume(e)
  <2>1. Resumed.sent = ckpt.sent
    BY DEF Resumed, TypeOK, GraphState
  <2>2. /\ ckpt' = Resumed
        /\ \A r \in Runs : g'[r] \in {g[r], Resumed} /\ nxt'[r] \in {nxt[r], Resumed}
    BY <1>3 DEF BootResume, TypeOK
  <2>3. /\ ckpt'.sent = ckpt.sent
        /\ \A r \in Runs : g'[r].sent \in {g[r].sent, ckpt.sent}
                           /\ nxt'[r].sent \in {nxt[r].sent, ckpt.sent}
    BY <2>1, <2>2
  <2>4. QED
    BY <1>1, <2>3, SentKept DEF Sent
<1>4. QED
  BY <1>2, <1>3 DEF Boot

LEMMA SentWorker ==
    ASSUME TypeOK, SentInv, NEW e \in Runs, NEW b \in Boards, Worker(e, b) PROVE SentInv'
<1>0. nxt \in [Runs -> GraphState] /\ UNCHANGED <<row, ckpt, g>>
  BY DEF Worker, WorkerScrape, WorkerBoot, WorkerCheck, WorkerSend, dbVars, TypeOK
<1>1. ASSUME NEW seen \in BOOLEAN, NEW S \in SUBSET {o \in Offers : BoardOf[o] = b},
             WorkerScrape(e, b, seen, S)
      PROVE  SentInv'
  <2>1. applies' = applies /\ \A r \in Runs : nxt'[r].sent = nxt[r].sent
    BY <1>0, <1>1 DEF WorkerScrape, GraphState
  <2>2. QED
    BY <1>0, <2>1, SentUntouched
<1>2. ASSUME NEW seen \in BOOLEAN, NEW on \in BOOLEAN,
             WorkerBoot(e, b, seen, on) \/ WorkerCheck(e, b, seen)
      PROVE  SentInv'
  <2>1. applies' = applies /\ (nxt' = nxt \/ nxt' = [nxt EXCEPT ![e].err = FALSE])
    BY <1>2 DEF WorkerBoot, WorkerCheck, WorkerEnds, Scrubbed
  <2>2. \A r \in Runs : nxt'[r].sent = nxt[r].sent
    BY <1>0, <2>1 DEF GraphState
  <2>3. QED
    BY <1>0, <2>1, <2>2, SentUntouched
(* The confirmation comes after the click: the offer it adds was sent.       *)
<1>3. ASSUME NEW sends \in BOOLEAN, NEW confirms \in BOOLEAN, WorkerSend(e, b, sends, confirms)
      PROVE  SentInv'
  <2> DEFINE o == wk[e][b].cur
  <2>1. o \in Offers
    BY <1>3 DEF WorkerSend, AtWorker, TypeOK
  <2>2. /\ applies \in [Offers -> Nat]
        /\ applies' = IF sends THEN [applies EXCEPT ![o] = @ + 1] ELSE applies
    BY <1>3 DEF WorkerSend, TypeOK
  <2>3. \A r \in Runs : \/ nxt'[r].sent = nxt[r].sent
                        \/ sends /\ nxt'[r].sent = nxt[r].sent \cup {o}
    <3>1. confirms => sends
      BY <1>3 DEF WorkerSend, MayConfirm
    <3>2. \/ nxt' = nxt
          \/ confirms /\ nxt' = [nxt EXCEPT ![e].sent = @ \cup {o}, ![e].queue[o] = Monus(@, 1)]
      BY <1>3 DEF WorkerSend
    <3>3. QED
      BY <1>0, <3>1, <3>2 DEF GraphState
  <2> HIDE DEF o
  <2>4. Sent \subseteq Sent' /\ (sends => o \in Sent')
    BY <2>1, <2>2 DEF Sent
  <2>5. RecordedWasSent'
    BY <1>0, <2>4 DEF SentInv, RecordedWasSent, Sent
  <2>6. ListsWereSent'
    BY <1>0, <2>3, <2>4 DEF SentInv, ListsWereSent
  <2>7. QED
    BY <2>5, <2>6 DEF SentInv
<1>4. QED
  BY <1>1, <1>2, <1>3 DEF Worker

LEMMA SentMaster ==
    ASSUME TypeOK, SentInv, NEW e \in Runs, Master(e) PROVE SentInv'
<1>0. nxt \in [Runs -> GraphState] /\ applies' = applies
  BY DEF Master, NextSuperstep, DispatchScrape, AnalyzeStart, AnalyzeOffer, AnalyzeBill,
         AnalyzeSave, AnalyzePause, AnalyzeRoute, PrepareSubmit, DispatchSubmit, FinalizeStart,
         FinalizeSave, FinalizeCleanup, CompletionNotification, StopNotification,
         ErrorNotification, dbVars, history, TypeOK
<1>1. CASE NextSuperstep(e)
  <2>1. Merged(e).sent = nxt[e].sent /\ EmptyState.sent = {}
    BY <1>0 DEF Merged, GraphState, EmptyState
  <2> DEFINE M == Merged(e)
  <2>2. /\ ckpt' = M  /\ row' = row
        /\ \A r \in Runs : /\ g'[r] = g[r] \/ (r = e /\ g'[r] \in {EmptyState, M})
                           /\ nxt'[r] = nxt[r] \/ (r = e /\ nxt'[r] \in {EmptyState, M})
    BY <1>1 DEF NextSuperstep, TypeOK, dbVars
  <2>3. M.sent = nxt[e].sent
    BY <2>1
  <2> HIDE DEF M
  <2>4. \A r \in Runs : /\ g'[r].sent \subseteq g[r].sent \/ g'[r].sent \subseteq nxt[r].sent
                        /\ nxt'[r].sent \subseteq nxt[r].sent
    BY <2>1, <2>2, <2>3
  <2>5. QED
    BY <1>0, <2>2, <2>3, <2>4, SentKept DEF Sent
(* finalize records what the list of its state holds, and only that.         *)
<1>2. CASE FinalizeSave(e)
  <2>1. /\ UNCHANGED <<ckpt, g>>
        /\ nxt' = nxt \/ nxt' = [nxt EXCEPT ![e].err = TRUE]
        /\ row' = row \/ SetRows(g[e].sent, "SUBMITTED")
    BY <1>2 DEF FinalizeSave, ToRecord
  <2>2. \A r \in Runs : nxt'[r].sent = nxt[r].sent
    BY <1>0, <2>1 DEF GraphState
  <2>3. ListsWereSent'
    BY <1>0, <2>1, <2>2 DEF SentInv, ListsWereSent, Sent
  <2>4. RecordedWasSent'
    BY <1>0, <2>1 DEF SetRows, SentInv, ListsWereSent, RecordedWasSent, Sent
  <2>5. QED
    BY <2>3, <2>4 DEF SentInv
<1>3. CASE AnalyzeSave(e) \/ FinalizeCleanup(e)
  <2>1. /\ UNCHANGED <<ckpt, g>>
        /\ \A o \in Offers : row'[o] = "SUBMITTED" => row[o] = "SUBMITTED"
    BY <1>3 DEF AnalyzeSave, FinalizeCleanup, SetRows, DraftStatus
  <2>2. \A r \in Runs : nxt'[r].sent = nxt[r].sent
    <3>1. \/ nxt' = nxt \/ nxt' = [nxt EXCEPT ![e].err = TRUE]
          \/ \E q : nxt' = [nxt EXCEPT ![e].queue = q]
      BY <1>3 DEF AnalyzeSave, FinalizeCleanup, AnalysisFails
    <3>2. ASSUME NEW q, nxt' = [nxt EXCEPT ![e].queue = q]
          PROVE  \A r \in Runs : nxt'[r].sent = nxt[r].sent
      BY <1>0, <3>2 DEF GraphState
    <3>3. ASSUME nxt' = nxt \/ nxt' = [nxt EXCEPT ![e].err = TRUE]
          PROVE  \A r \in Runs : nxt'[r].sent = nxt[r].sent
      BY <1>0, <3>3 DEF GraphState
    <3>4. QED
      BY <3>1, <3>2, <3>3
  <2>3. QED
    BY <1>0, <2>1, <2>2, SentKept DEF Sent
<1>4. CASE \/ AnalyzeStart(e) \/ AnalyzePause(e)
           \/ \E o \in Offers, seen \in BOOLEAN, ok \in BOOLEAN : AnalyzeOffer(e, o, seen, ok)
           \/ \E best \in SUBSET an.kept : AnalyzeBill(e, best)
           \/ \E seen \in BOOLEAN : \/ AnalyzeRoute(e, seen) \/ PrepareSubmit(e, seen)
                                    \/ FinalizeStart(e, seen)
                                    \/ \E active \in SUBSET Boards : DispatchScrape(e, seen, active)
           \/ \E quota \in 0..DailyLimit, first \in Boards : DispatchSubmit(e, quota, first)
           \/ CompletionNotification(e) \/ StopNotification(e) \/ ErrorNotification(e)
  <2>1. /\ UNCHANGED <<row, ckpt, g>>
        /\ nxt' = nxt \/ nxt' = [nxt EXCEPT ![e].err = TRUE]
    BY <1>4 DEF AnalyzeStart, AnalyzePause, AnalyzeOffer, AnalyzeBill, AnalyzeRoute,
                PrepareSubmit, FinalizeStart, DispatchScrape, DispatchSubmit,
                CompletionNotification, StopNotification, ErrorNotification, AnalysisFails, dbVars
  <2>2. \A r \in Runs : nxt'[r].sent = nxt[r].sent
    BY <1>0, <2>1 DEF GraphState
  <2>3. QED
    BY <1>0, <2>1, <2>2, SentUntouched
<1>5. QED
  BY <1>1, <1>2, <1>3, <1>4 DEF Master

(* The dashboard does not lie: an offer recorded as SUBMITTED was sent to    *)
(* its board, by whichever execution, and however many have crashed since.   *)
THEOREM RecordedSent == Spec => []RecordedWasSent
<1>1. Init => SentInv
  BY DEF Init, SentInv, RecordedWasSent, ListsWereSent, EmptyState
<1>2. TypeOK /\ SentInv /\ [Next]_vars => SentInv'
  <2>1. ASSUME TypeOK, SentInv, Next PROVE SentInv'
    BY <2>1, SentUser, SentBoot, SentWorker, SentMaster DEF Next, Execution
  <2>2. ASSUME SentInv, UNCHANGED vars PROVE SentInv'
    BY <2>2, SentUntouched DEF vars, dbVars, execVars, history
  <2>3. QED
    BY <2>1, <2>2
<1>3. SentInv => RecordedWasSent
  BY DEF SentInv
<1>4. QED
  BY TypeCorrect, <1>1, <1>2, <1>3, PTL DEF Spec

(***************************************************************************)
(* One execution drafts, once; a drafted offer is billed once; a recorded  *)
(* application is final.                                                   *)
(*                                                                         *)
(* analyze writes rows, and charges, without a look at what is there: both *)
(* are right only because no second analysis ever runs.  Why not is a fact *)
(* about the graph, not about analyze: the first execution alone passes    *)
(* START, only START sends a worker scraping, only a scraping worker names *)
(* analyze, and all of that is over before the first row is written, which *)
(* is what any other execution has to wait for.                            *)
(***************************************************************************)
Submitting == {"boot", "check", "send"}   \* the phases of a submitting worker

Scouting(e) == \E b \in Boards : wk[e][b].phase = "scrape"

Unstarted ==
    /\ searchStatus = "none" => \A e \in Runs : pc[e] = "idle"
    /\ \A e \in Runs : pc[e] \in {"idle", "dispatched"}
          => todo[e] = {} /\ succ[e] = {} /\ ~Scouting(e)

OnlyFirst ==
    \A e \in Runs \ {1} :
        /\ "start" \notin todo[e] \cup succ[e]
        /\ "analyze" \notin todo[e] \cup succ[e]
        /\ ~Scouting(e)

(* The first execution: START comes first and alone, the scraping boards     *)
(* next, analyze, with at most finalize beside it, after them.               *)
Staged ==
    /\ "start" \notin succ[1]
    /\ "start" \in todo[1] => todo[1] = {"start"} /\ succ[1] = {} /\ ~Scouting(1)
    /\ \A b \in Boards : wk[1][b].phase = "scrape" =>
          \/ b \in todo[1] /\ todo[1] \subseteq Boards /\ succ[1] \subseteq {"analyze", "finalize"}
          \/ b \in succ[1] /\ todo[1] = {} /\ succ[1] \subseteq Boards
    /\ "analyze" \in succ[1] => todo[1] \subseteq Boards /\ succ[1] \subseteq {"analyze", "finalize"}
    /\ "analyze" \in todo[1] => todo[1] \subseteq {"analyze", "finalize"}
    /\ an.phase # "idle" => "analyze" \in todo[1]

Control == Unstarted /\ OnlyFirst /\ Staged

(* How a step moves an execution along the graph.  Phases: the workers that  *)
(* scrape, and those that submit, are the same but for the boards B of e.    *)
PhasesBut(e, B) ==
    \A r \in Runs, b \in Boards :
        \/ r = e /\ b \in B
        \/ /\ wk'[r][b].phase = "scrape" <=> wk[r][b].phase = "scrape"
           /\ wk'[r][b].phase \in Submitting <=> wk[r][b].phase \in Submitting

Elsewhere(e) == \A r \in Runs : r # e => pc'[r] = pc[r] /\ todo'[r] = todo[r] /\ succ'[r] = succ[r]

(* The position stays.                                                       *)
Still ==
    /\ \A r \in Runs : pc'[r] = pc[r] /\ todo'[r] = todo[r] /\ succ'[r] = succ[r]
    /\ \A r \in Runs : PhasesBut(r, {})
    /\ an'.phase # "idle" => "analyze" \in todo[1]
    /\ searchStatus' = "none" => searchStatus = "none"

(* Node n of e returns, and its router names next.                           *)
Hop(e, n, next) ==
    /\ pc[e] = "running"  /\ pc'[e] = "running"  /\ n \in todo[e]
    /\ todo'[e] = todo[e] \ {n}  /\ succ'[e] = succ[e] \cup next
    /\ Elsewhere(e)
    /\ PhasesBut(e, {n})
    /\ n \in Boards => /\ wk[e][n].phase \in Submitting \cup {"scrape"}
                       /\ wk'[e][n].phase = "done"
                       /\ next = {"finalize"} \/ (next = {"analyze"} /\ wk[e][n].phase = "scrape")
    /\ "analyze" \in next => n \in Boards
    /\ "start" \notin next  /\ next \cap Boards = {}
    /\ "finalize" \in next => next = {"finalize"} /\ n \in Boards \cup {"analyze"}
    /\ an'.phase # "idle" => an.phase # "idle" /\ (e = 1 => n # "analyze")
    /\ searchStatus' = "none" => searchStatus = "none"

(* A dispatching node n of e sets the workers of the boards B to phase.      *)
Sends(e, n, B, phase) ==
    /\ pc[e] = "running"  /\ pc'[e] = "running"  /\ n \in todo[e]
    /\ todo'[e] = todo[e] \ {n}  /\ succ'[e] = succ[e] \cup B
    /\ B \subseteq Boards
    /\ Elsewhere(e)
    /\ PhasesBut(e, B)
    /\ \A b \in B : wk'[e][b].phase = phase
    /\ an'.phase = an.phase
    /\ searchStatus' = searchStatus

(* A board is none of the nodes with a name.                                 *)
LEMMA BoardNames ==
    \A b \in Boards : b \notin {"start", "analyze", "human_review", "prepare_submit",
                                "dispatch_submit", "finalize", "completion_notification",
                                "stop_agent_notification", "error_notification"}
BY NodesAssumption DEF MasterNodes

LEMMA FirstRun == 1 \in Runs
BY LimitsAssumption DEF Runs

LEMMA ControlStill == ASSUME Control, Still PROVE Control'
<1>1. \A r \in Runs : Scouting(r)' <=> Scouting(r)
  BY DEF Still, PhasesBut, Scouting
<1>2. Unstarted'
  BY <1>1 DEF Control, Unstarted, Still
<1>3. OnlyFirst'
  BY <1>1 DEF Control, OnlyFirst, Still
<1>4. Staged'
  <2>1. \A b \in Boards : wk'[1][b].phase = "scrape" <=> wk[1][b].phase = "scrape"
    BY FirstRun DEF Still, PhasesBut
  <2>2. pc'[1] = pc[1] /\ todo'[1] = todo[1] /\ succ'[1] = succ[1]
    BY FirstRun DEF Still
  <2>3. QED
    BY <1>1, <2>1, <2>2, FirstRun DEF Control, Staged, Still
<1>5. QED
  BY <1>2, <1>3, <1>4 DEF Control

LEMMA ControlHop ==
    ASSUME Control, NEW e \in Runs, NEW n, NEW next, Hop(e, n, next) PROVE Control'
<1>1. \A r \in Runs : Scouting(r)' => Scouting(r)
  <2> SUFFICES ASSUME NEW r \in Runs, NEW b \in Boards, wk'[r][b].phase = "scrape"
               PROVE  wk[r][b].phase = "scrape"
    BY DEF Scouting
  <2>1. CASE r = e /\ b = n
    BY <2>1 DEF Hop
  <2>2. CASE ~(r = e /\ b = n)
    BY <2>2 DEF Hop, PhasesBut
  <2>3. QED
    BY <2>1, <2>2
<1>2. Unstarted'
  BY <1>1 DEF Control, Unstarted, Hop, Elsewhere
<1>3. OnlyFirst'
  <2> SUFFICES ASSUME NEW r \in Runs \ {1}
               PROVE  /\ "start" \notin todo'[r] \cup succ'[r]
                      /\ "analyze" \notin todo'[r] \cup succ'[r]
                      /\ ~Scouting(r)'
    BY DEF OnlyFirst
  <2>1. /\ "start" \notin todo[r] \cup succ[r]  /\ "analyze" \notin todo[r] \cup succ[r]
        /\ ~Scouting(r)
    BY DEF Control, OnlyFirst
  <2>2. CASE r = e
    <3>1. "analyze" \notin next
      BY <2>1, <2>2 DEF Hop, Scouting
    <3>2. QED
      BY <1>1, <2>1, <2>2, <3>1 DEF Hop
  <2>3. CASE r # e
    BY <1>1, <2>1, <2>3 DEF Hop, Elsewhere
  <2>4. QED
    BY <2>2, <2>3
<1>4. Staged'
  <2>1. CASE e # 1
    <3>1. todo'[1] = todo[1] /\ succ'[1] = succ[1]
      BY <2>1, FirstRun DEF Hop, Elsewhere
    <3>2. \A b \in Boards : wk'[1][b].phase = "scrape" <=> wk[1][b].phase = "scrape"
      BY <2>1, FirstRun DEF Hop, PhasesBut
    <3>3. an'.phase # "idle" => an.phase # "idle"
      BY DEF Hop
    <3>4. QED
      BY <1>1, <3>1, <3>2, <3>3, FirstRun DEF Control, Staged
  <2>2. CASE e = 1
    <3>1. /\ todo'[1] = todo[1] \ {n}  /\ succ'[1] = succ[1] \cup next  /\ n \in todo[1]
          /\ "start" \notin next  /\ next \cap Boards = {}
          /\ an'.phase # "idle" => an.phase # "idle" /\ n # "analyze"
          /\ \A b \in Boards : b # n =>
                (wk'[1][b].phase = "scrape" <=> wk[1][b].phase = "scrape")
          /\ n \in Boards => /\ wk'[1][n].phase = "done"
                             /\ next \in {{"finalize"}, {"analyze"}}
          /\ "analyze" \in next => n \in Boards /\ wk[1][n].phase = "scrape"
      BY <2>2, FirstRun DEF Hop, PhasesBut
    <3>2. Staged
      BY DEF Control
    <3>3. "start" \notin succ'[1] /\ ("start" \in todo'[1] => FALSE)
      BY <3>1, <3>2 DEF Staged
    <3>4. ASSUME NEW b \in Boards, wk'[1][b].phase = "scrape"
          PROVE  b \in todo'[1] /\ todo'[1] \subseteq Boards /\ succ'[1] \subseteq {"analyze", "finalize"}
      BY <3>1, <3>2, <3>4 DEF Staged
    <3>5. "analyze" \in succ'[1] => todo'[1] \subseteq Boards /\ succ'[1] \subseteq {"analyze", "finalize"}
      BY <3>1, <3>2, BoardNames DEF Staged
    <3>6. "analyze" \in todo'[1] => todo'[1] \subseteq {"analyze", "finalize"}
      BY <3>1, <3>2 DEF Staged
    <3>7. an'.phase # "idle" => "analyze" \in todo'[1]
      BY <3>1, <3>2 DEF Staged
    <3>8. QED
      BY <3>3, <3>4, <3>5, <3>6, <3>7 DEF Staged
  <2>3. QED
    BY <2>1, <2>2
<1>5. QED
  BY <1>2, <1>3, <1>4 DEF Control

(* START sends the scrapers of the first execution, dispatch_submit the      *)
(* submitters of any.                                                        *)
LEMMA ControlSends ==
    ASSUME Control, NEW e \in Runs, NEW n \in {"start", "dispatch_submit"}, NEW B, NEW phase,
           Sends(e, n, B, phase), phase = "scrape" => n = "start"
    PROVE  Control'
<1>1. "start" \in todo[e] => e = 1 /\ todo[1] = {"start"} /\ succ[1] = {} /\ ~Scouting(1)
  BY DEF Control, OnlyFirst, Staged
<1>2. \A r \in Runs : Scouting(r)' => Scouting(r) \/ (r = e /\ phase = "scrape")
  <2> SUFFICES ASSUME NEW r \in Runs, NEW b \in Boards, wk'[r][b].phase = "scrape"
               PROVE  wk[r][b].phase = "scrape" \/ (r = e /\ phase = "scrape")
    BY DEF Scouting
  <2>1. QED
    BY DEF Sends, PhasesBut
<1>3. Unstarted'
  BY <1>2 DEF Control, Unstarted, Sends, Elsewhere
<1>4. OnlyFirst'
  BY <1>1, <1>2, BoardNames DEF Control, OnlyFirst, Sends, Elsewhere
<1>5. Staged'
  <2>0. Staged
    BY DEF Control
  <2>1. CASE e # 1
    <3>1. todo'[1] = todo[1] /\ succ'[1] = succ[1] /\ an'.phase = an.phase
      BY <2>1, FirstRun DEF Sends, Elsewhere
    <3>2. \A b \in Boards : wk'[1][b].phase = "scrape" <=> wk[1][b].phase = "scrape"
      BY <2>1, FirstRun DEF Sends, PhasesBut
    <3>4. Scouting(1)' <=> Scouting(1)
      BY <3>2 DEF Scouting
    <3>5. QED
      BY <2>0, <3>1, <3>2, <3>4 DEF Staged
  <2>2. CASE e = 1
    <3>1. /\ todo'[1] = todo[1] \ {n}  /\ succ'[1] = succ[1] \cup B  /\ n \in todo[1]
          /\ B \subseteq Boards  /\ an'.phase = an.phase
          /\ \A b \in Boards : wk'[1][b].phase = "scrape" =>
                wk[1][b].phase = "scrape" \/ (b \in B /\ n = "start")
      BY <2>2, FirstRun DEF Sends, PhasesBut
    <3>2. CASE n = "start"
      <4>1. todo[1] = {"start"} /\ succ[1] = {} /\ ~Scouting(1)
        BY <1>1, <2>2, <3>1, <3>2
      <4>2. todo'[1] = {} /\ succ'[1] = B
        BY <3>1, <3>2, <4>1
      <4>3. \A b \in Boards : wk'[1][b].phase = "scrape" => b \in B
        BY <3>1, <4>1 DEF Scouting
      <4>4. an'.phase = "idle"
        BY <2>0, <3>1, <4>1 DEF Staged
      <4>5. QED
        BY <3>1, <4>2, <4>3, <4>4, BoardNames DEF Staged
    <3>3. CASE n = "dispatch_submit"
      <4>1. ~(todo[1] \subseteq Boards) /\ todo[1] # {"start"} /\ todo[1] # {}
        BY <3>1, <3>3, BoardNames
      <4>2. ~(todo[1] \subseteq {"analyze", "finalize"})
        BY <3>1, <3>3
      <4>3. \A b \in Boards : wk'[1][b].phase # "scrape"
        BY <2>0, <3>1, <3>3, <4>1 DEF Staged
      <4>4. "start" \notin todo[1] /\ "start" \notin succ[1] /\ "analyze" \notin succ[1]
            /\ "analyze" \notin todo[1]
        BY <2>0, <4>1, <4>2 DEF Staged
      <4>5. "start" \notin todo'[1] /\ "start" \notin succ'[1] /\ "analyze" \notin succ'[1]
            /\ "analyze" \notin todo'[1]
        BY <3>1, <4>4, BoardNames
      <4>6. an'.phase = "idle"
        BY <2>0, <3>1, <4>4 DEF Staged
      <4>7. QED
        BY <4>3, <4>5, <4>6 DEF Staged
    <3>4. QED
      BY <3>2, <3>3
  <2>3. QED
    BY <2>1, <2>2
<1>6. QED
  BY <1>3, <1>4, <1>5 DEF Control

(* The superstep barrier, and a crash.                                       *)
Barrier(e) ==
    /\ pc[e] = "running"  /\ todo[e] = {}  /\ succ'[e] = {}
    /\ \/ todo'[e] = succ[e]  /\ succ[e] # {}  /\ "human_review" \notin succ[e]  /\ pc'[e] = "running"
       \/ /\ todo'[e] = {}  /\ pc'[e] \in {"ended", "interrupted"}
          /\ succ[e] = {} \/ "human_review" \in succ[e]
    /\ Elsewhere(e)
    /\ PhasesBut(e, Boards)
    /\ \A b \in Boards : wk'[e][b].phase = IF b \in succ[e] THEN wk[e][b].phase ELSE "idle"

Stops(e) ==
    /\ pc[e] # "idle"  /\ pc'[e] = "crashed"  /\ todo'[e] = {}  /\ succ'[e] = {}
    /\ Elsewhere(e)
    /\ PhasesBut(e, Boards)
    /\ \A b \in Boards : wk'[e][b].phase = "idle"

LEMMA BarrierSteps ==
    ASSUME TypeOK, NEW e \in Runs, NextSuperstep(e) PROVE Barrier(e)
<1>1. /\ pc[e] = "running"  /\ todo[e] = {}  /\ succ'[e] = {}
  BY DEF NextSuperstep, TypeOK
<1>2. \A r \in Runs : r # e => pc'[r] = pc[r] /\ todo'[r] = todo[r] /\ succ'[r] = succ[r]
  BY DEF NextSuperstep, TypeOK
<1>3. wk' = [wk EXCEPT ![e] = [b \in Boards |-> IF b \in succ[e] THEN wk[e][b] ELSE IdleWorker]]
  BY DEF NextSuperstep
<1>4. wk \in [Runs -> [Boards -> WorkerState]]
  BY DEF TypeOK
<1>5. \A r \in Runs : r # e => wk'[r] = wk[r]
  BY <1>3, <1>4
<1>6. \A b \in Boards : wk'[e][b] = IF b \in succ[e] THEN wk[e][b] ELSE IdleWorker
  BY <1>3, <1>4
<1>7. \/ todo'[e] = succ[e]  /\ succ[e] # {}  /\ "human_review" \notin succ[e]  /\ pc'[e] = "running"
      \/ /\ todo'[e] = {}  /\ pc'[e] \in {"ended", "interrupted"}
         /\ succ[e] = {} \/ "human_review" \in succ[e]
  BY DEF NextSuperstep, TypeOK
<1>8. QED
  BY <1>1, <1>2, <1>5, <1>6, <1>7, EmptyTypes DEF Barrier, PhasesBut, Elsewhere

LEMMA CrashStops ==
    ASSUME TypeOK, NEW e \in Runs, Crash(e) PROVE Stops(e)
<1>1. /\ pc[e] # "idle"  /\ pc'[e] = "crashed"  /\ todo'[e] = {}  /\ succ'[e] = {}
      /\ \A r \in Runs : r # e => pc'[r] = pc[r] /\ todo'[r] = todo[r] /\ succ'[r] = succ[r]
  BY DEF Crash, TypeOK
<1>2. wk' = [wk EXCEPT ![e] = [b \in Boards |-> IdleWorker]]
  BY DEF Crash
<1>3. wk \in [Runs -> [Boards -> WorkerState]]
  BY DEF TypeOK
<1>4. (\A r \in Runs : r # e => wk'[r] = wk[r]) /\ \A b \in Boards : wk'[e][b] = IdleWorker
  BY <1>2, <1>3
<1>5. QED
  BY <1>1, <1>4, EmptyTypes DEF Stops, PhasesBut, Elsewhere

LEMMA ControlBarrier ==
    ASSUME Control, NEW e \in Runs, Barrier(e), an' = an, searchStatus' = searchStatus
    PROVE  Control'
<1>1. \A r \in Runs : Scouting(r)' => Scouting(r)
  <2> SUFFICES ASSUME NEW r \in Runs, NEW b \in Boards, wk'[r][b].phase = "scrape"
               PROVE  wk[r][b].phase = "scrape"
    BY DEF Scouting
  <2>1. QED
    BY DEF Barrier, PhasesBut
<1>2. Unstarted'
  BY <1>1 DEF Control, Unstarted, Barrier, Elsewhere
<1>3. OnlyFirst'
  BY <1>1 DEF Control, OnlyFirst, Barrier, Elsewhere
<1>4. Staged'
  <2>0. Staged
    BY DEF Control
  <2>1. CASE e # 1
    <3>1. todo'[1] = todo[1] /\ succ'[1] = succ[1]
      BY <2>1, FirstRun DEF Barrier, Elsewhere
    <3>2. \A b \in Boards : wk'[1][b].phase = "scrape" <=> wk[1][b].phase = "scrape"
      BY <2>1, FirstRun DEF Barrier, PhasesBut
    <3>3. Scouting(1)' <=> Scouting(1)
      BY <3>2 DEF Scouting
    <3>4. QED
      BY <2>0, <3>1, <3>2, <3>3 DEF Staged
  <2>2. CASE e = 1
    <3>1. todo[1] = {} /\ succ'[1] = {} /\ (todo'[1] = succ[1] \/ todo'[1] = {})
      BY <2>2 DEF Barrier
    <3>2. an'.phase = "idle"
      BY <2>0, <3>1 DEF Staged
    <3>3. ASSUME NEW b \in Boards, wk'[1][b].phase = "scrape"
          PROVE  b \in todo'[1] /\ todo'[1] \subseteq Boards
      <4>1. wk[1][b].phase = "scrape" /\ b \in succ[1]
        BY <2>2, <3>3 DEF Barrier
      <4>2. succ[1] \subseteq Boards
        BY <2>0, <3>1, <4>1 DEF Staged
      <4>3. todo'[1] = succ[1]
        BY <2>2, <4>1, <4>2, BoardNames DEF Barrier
      <4>4. QED
        BY <4>1, <4>2, <4>3
    <3>4. "start" \notin todo'[1]
      BY <2>0, <3>1 DEF Staged
    <3>5. "analyze" \in todo'[1] => todo'[1] \subseteq {"analyze", "finalize"}
      BY <2>0, <3>1 DEF Staged
    <3>6. QED
      BY <3>1, <3>2, <3>3, <3>4, <3>5 DEF Staged
  <2>3. QED
    BY <2>1, <2>2
<1>5. QED
  BY <1>2, <1>3, <1>4 DEF Control

LEMMA ControlStops ==
    ASSUME Control, NEW e \in Runs, Stops(e), searchStatus' = searchStatus,
           an' = IF e = 1 THEN NoAnalysis ELSE an
    PROVE  Control'
<1>1. \A r \in Runs : Scouting(r)' => Scouting(r)
  BY DEF Scouting, Stops, PhasesBut
<1>2. Unstarted'
  BY <1>1 DEF Control, Unstarted, Stops, Elsewhere
<1>3. OnlyFirst'
  BY <1>1 DEF Control, OnlyFirst, Stops, Elsewhere
<1>4. Staged'
  <2>0. Staged
    BY DEF Control
  <2>1. CASE e # 1
    <3>1. todo'[1] = todo[1] /\ succ'[1] = succ[1]  /\ an' = an
      BY <2>1, FirstRun DEF Stops, Elsewhere
    <3>2. \A b \in Boards : wk'[1][b].phase = "scrape" <=> wk[1][b].phase = "scrape"
      BY <2>1, FirstRun DEF Stops, PhasesBut
    <3>3. Scouting(1)' <=> Scouting(1)
      BY <3>2 DEF Scouting
    <3>4. QED
      BY <2>0, <3>1, <3>2, <3>3 DEF Staged
  <2>2. CASE e = 1
    <3>1. todo'[1] = {} /\ succ'[1] = {} /\ \A b \in Boards : wk'[1][b].phase = "idle"
      BY <2>2 DEF Stops
    <3>2. an'.phase = "idle"
      BY <2>2 DEF NoAnalysis
    <3>3. QED
      BY <3>1, <3>2 DEF Staged
  <2>3. QED
    BY <2>1, <2>2
<1>5. QED
  BY <1>2, <1>3, <1>4 DEF Control

(* An execution is dispatched, or comes up.                                  *)
LEMMA ControlBegins ==
    ASSUME TypeOK, Control,
           StartPrepare \/ (\E e \in Runs, all \in BOOLEAN : ResumePrepare(e, all))
             \/ BootStart \/ (\E e \in Runs : BootResume(e))
    PROVE  Control'
<1>1. wk' = wk /\ an' = an
  BY DEF StartPrepare, ResumePrepare, BootStart, BootResume
<1>2. \A r \in Runs : Scouting(r)' <=> Scouting(r)
  BY <1>1 DEF Scouting
<1>3. Unstarted /\ OnlyFirst /\ Staged /\ 1 \in Runs
  BY FirstRun DEF Control
<1>4. CASE StartPrepare
  <2>1. /\ searchStatus = "none"  /\ searchStatus' # "none"  /\ todo' = todo  /\ succ' = succ
        /\ pc'[1] = "dispatched"  /\ \A r \in Runs : r # 1 => pc'[r] = pc[r]
    BY <1>4, FirstRun DEF StartPrepare, TypeOK
  <2>2. Unstarted'
    BY <1>2, <1>3, <2>1 DEF Unstarted
  <2>3. QED
    BY <1>1, <1>2, <1>3, <2>1, <2>2 DEF Control, OnlyFirst, Staged
<1>5. ASSUME NEW e \in Runs, NEW all \in BOOLEAN, ResumePrepare(e, all) PROVE Control'
  <2>1. /\ pc[e] = "idle"  /\ pc[e - 1] # "idle"  /\ e - 1 \in Runs  /\ todo' = todo  /\ succ' = succ
        /\ pc'[e] = "dispatched"  /\ \A r \in Runs : r # e => pc'[r] = pc[r]
        /\ searchStatus' = searchStatus
    <3>1. e - 1 \in Runs
      BY <1>5, LimitsAssumption DEF ResumePrepare, Runs
    <3>2. pc \in [Runs -> {"idle", "dispatched", "running", "interrupted", "ended", "crashed"}]
      BY DEF TypeOK
    <3>3. QED
      BY <1>5, <3>1, <3>2 DEF ResumePrepare
  <2>2. Unstarted'
    BY <1>2, <1>3, <2>1 DEF Unstarted
  <2>3. QED
    BY <1>1, <1>2, <1>3, <2>1, <2>2 DEF Control, OnlyFirst, Staged
<1>6. CASE BootStart
  <2>1. /\ pc[1] = "dispatched"  /\ pc'[1] = "running"  /\ \A r \in Runs : r # 1 => pc'[r] = pc[r]
        /\ todo'[1] = {"start"}  /\ \A r \in Runs : r # 1 => todo'[r] = todo[r]
        /\ succ' = succ  /\ searchStatus' = searchStatus
    BY <1>6, FirstRun DEF BootStart, TypeOK, dbVars
  <2>2. todo[1] = {} /\ succ[1] = {} /\ ~Scouting(1)
    BY <1>3, <2>1 DEF Unstarted
  <2>3. Unstarted' /\ OnlyFirst'
    BY <1>2, <1>3, <2>1 DEF Unstarted, OnlyFirst
  <2>4. Staged'
    BY <1>1, <1>2, <1>3, <2>1, <2>2 DEF Staged, Scouting
  <2>5. QED
    BY <2>3, <2>4 DEF Control
<1>7. ASSUME NEW e \in Runs, BootResume(e) PROVE Control'
  <2>1. /\ e # 1  /\ pc[e] = "dispatched"
        /\ pc'[e] = "running"  /\ \A r \in Runs : r # e => pc'[r] = pc[r]
        /\ todo'[e] = {"prepare_submit"}  /\ \A r \in Runs : r # e => todo'[r] = todo[r]
        /\ succ' = succ  /\ searchStatus' = searchStatus
    BY <1>7 DEF BootResume, TypeOK
  <2>2. Unstarted' /\ OnlyFirst'
    BY <1>2, <1>3, <2>1 DEF Unstarted, OnlyFirst
  <2>3. QED
    BY <1>1, <1>2, <1>3, <2>1, <2>2 DEF Control, Staged
<1>8. QED
  BY <1>4, <1>5, <1>6, <1>7

(* prepare_submit hands over to its router within the superstep.             *)
Routes(e) ==
    /\ pc[e] = "running"  /\ "prepare_submit" \in todo[e]
    /\ todo'[e] = (todo[e] \ {"prepare_submit"}) \cup {"dispatch_submit"}  /\ succ'[e] = succ[e]
    /\ pc'[e] = "running"  /\ Elsewhere(e)
    /\ wk' = wk  /\ an' = an  /\ searchStatus' = searchStatus

LEMMA ControlRoutes ==
    ASSUME Control, NEW e \in Runs, Routes(e) PROVE Control'
<1>1. \A r \in Runs : Scouting(r)' <=> Scouting(r)
  BY DEF Routes, Scouting
<1>2. Unstarted' /\ OnlyFirst'
  BY <1>1 DEF Control, Unstarted, OnlyFirst, Routes, Elsewhere
<1>3. Staged'
  <2>0. Staged /\ wk' = wk /\ an' = an
    BY DEF Control, Routes
  <2>1. CASE e # 1
    <3>1. todo'[1] = todo[1] /\ succ'[1] = succ[1]
      BY <2>1, FirstRun DEF Routes, Elsewhere
    <3>2. QED
      BY <1>1, <2>0, <3>1, FirstRun DEF Staged
  <2>2. CASE e = 1
    <3>1. /\ "prepare_submit" \in todo[1]  /\ succ'[1] = succ[1]
          /\ todo'[1] = (todo[1] \ {"prepare_submit"}) \cup {"dispatch_submit"}
      BY <2>2 DEF Routes
    <3>2. /\ "analyze" \notin todo[1]  /\ "analyze" \notin succ[1]
          /\ "start" \notin todo[1]  /\ "start" \notin succ[1]
          /\ \A b \in Boards : wk[1][b].phase # "scrape"
      BY <2>0, <3>1, BoardNames DEF Staged
    <3>3. an.phase = "idle"
      BY <2>0, <3>2 DEF Staged
    <3>4. QED
      BY <2>0, <3>1, <3>2, <3>3 DEF Staged
  <2>3. QED
    BY <2>1, <2>2
<1>4. QED
  BY <1>2, <1>3 DEF Control

(* What else the steps of the families have in common: the kill switch a     *)
(* router was told of when no call failed, the state of finalize, the usage. *)
Stays ==
    /\ Still  /\ usage' = usage  /\ (shutdown => shutdown')  /\ faults <= faults'
    /\ \A r \in Runs :
          \/ fin'[r].killed = fin[r].killed /\ (fin'[r].phase = "idle" <=> fin[r].phase = "idle")
          \/ /\ "finalize" \in todo[r]  /\ fin'[r].phase # "idle"
             /\ faults' = 0 => (fin'[r].killed <=> shutdown)

(* The nodes that are alone in their superstep.                             *)
Lone == {"start", "prepare_submit", "dispatch_submit", "completion_notification", "human_review"}

Told(e, n, next) ==
    /\ "analyze" \in next => ~shutdown
    /\ n \in Boards /\ wk[e][n].phase = "scrape" /\ "finalize" \in next => shutdown
    /\ \A x \in Lone : x \in next =>
          /\ next = {x}
          /\ \/ n = "analyze" /\ ~shutdown
             \/ n = "finalize" /\ fin[e].phase # "idle" /\ ~fin[e].killed

Same == shutdown' = shutdown /\ faults <= faults' /\ searchStatus' = searchStatus

Moves(e, n, next) ==
    /\ Hop(e, n, next)  /\ shutdown' = shutdown  /\ faults <= faults'
    /\ faults' = 0 => Told(e, n, next)
    /\ \A r \in Runs : r # e \/ n # "finalize" => fin'[r] = fin[r]
    /\ n = "finalize" => fin'[e].phase = "idle"
    /\ n = "completion_notification" => next = {}
    /\ an' = an \/ n = "analyze"
    /\ usage' = usage \/ (n = "completion_notification" /\ usage' <= usage + 1)

Send(e) ==
    /\ Same  /\ fin' = fin  /\ usage' = usage
    /\ \/ \E B : Sends(e, "start", B, "scrape")
       \/ \E B : Sends(e, "dispatch_submit", B, "boot")

Route(e) == Routes(e) /\ Same /\ fin' = fin /\ usage' = usage

LEMMA Told2Killed ==
    ASSUME TypeOK, NEW seen \in BOOLEAN, IsKilled(seen)
    PROVE  faults <= faults' /\ (faults' = 0 => (seen <=> shutdown))
BY DEF TypeOK, IsKilled, Fault

(* The frame of a node that only returns.                                    *)
LEMMA LeaveHops ==
    ASSUME TypeOK, NEW e \in Runs, NEW n \in MasterNodes, NEW next, At(e, n), Leave(e, n, next),
           pc' = pc, wk' = wk, next \cap Boards = {}, next \cap {"start", "analyze"} = {},
           "finalize" \in next => n = "analyze" /\ next = {"finalize"},
           an' = an \/ an' = NoAnalysis, e = 1 /\ n = "analyze" => an' = NoAnalysis,
           searchStatus' = "none" => searchStatus = "none"
    PROVE  Hop(e, n, next)
<1>1. /\ pc[e] = "running"  /\ pc'[e] = "running"  /\ n \in todo[e]
  BY DEF At
<1>2. /\ todo'[e] = todo[e] \ {n}  /\ succ'[e] = succ[e] \cup next
      /\ \A r \in Runs : r # e => todo'[r] = todo[r] /\ succ'[r] = succ[r]
  <2>1. todo \in [Runs -> SUBSET Nodes] /\ succ \in [Runs -> SUBSET Nodes]
    BY DEF TypeOK
  <2>2. QED
    BY <2>1 DEF Leave
<1>3. n \notin Boards
  BY NodesAssumption
<1>4. an'.phase # "idle" => an.phase # "idle" /\ (e = 1 => n # "analyze")
  BY DEF NoAnalysis
<1>5. QED
  BY <1>1, <1>2, <1>3, <1>4 DEF Hop, Elsewhere, PhasesBut

(* The worker sending steps: START and dispatch_submit.                      *)
LEMMA WorkersSent ==
    ASSUME TypeOK, NEW e \in Runs, NEW n, NEW B \in SUBSET Boards, NEW w, NEW phase,
           At(e, n), Leave(e, n, B), ToWorkers(e, B, w), \A b \in B : w[b].phase = phase,
           pc' = pc, an' = an, searchStatus' = searchStatus
    PROVE  Sends(e, n, B, phase)
<1>1. /\ pc[e] = "running"  /\ pc'[e] = "running"  /\ n \in todo[e]
  BY DEF At
<1>2. /\ todo'[e] = todo[e] \ {n}  /\ succ'[e] = succ[e] \cup B
      /\ \A r \in Runs : r # e => todo'[r] = todo[r] /\ succ'[r] = succ[r]
  <2>1. todo \in [Runs -> SUBSET Nodes] /\ succ \in [Runs -> SUBSET Nodes]
    BY DEF TypeOK
  <2>2. QED
    BY <2>1 DEF Leave
<1>3. /\ \A r \in Runs : r # e => wk'[r] = wk[r]
      /\ \A b \in Boards : wk'[e][b] = IF b \in B THEN w[b] ELSE wk[e][b]
  <2>1. wk \in [Runs -> [Boards -> WorkerState]]
    BY DEF TypeOK
  <2>2. QED
    BY <2>1 DEF ToWorkers
<1>4. QED
  BY <1>1, <1>2, <1>3 DEF Sends, Elsewhere, PhasesBut

LEMMA StaysQuiet ==
    ASSUME TypeOK, pc' = pc, todo' = todo, succ' = succ, wk' = wk, fin' = fin, usage' = usage,
           shutdown => shutdown', faults <= faults',
           searchStatus' = "none" => searchStatus = "none",
           an'.phase # "idle" => "analyze" \in todo[1]
    PROVE  Stays
BY DEF Stays, Still, PhasesBut

LEMMA MasterMoves ==
    ASSUME TypeOK, Control, NEW e \in Runs, Master(e)
    PROVE  \/ Barrier(e) /\ Same /\ fin' = fin /\ usage' = usage /\ an' = an
           \/ Stays  \/ Send(e)  \/ Route(e)
           \/ \E n \in Nodes : \E next : Moves(e, n, next)
<1> DEFINE Goal == \/ Barrier(e) /\ Same /\ fin' = fin /\ usage' = usage /\ an' = an
                   \/ Stays  \/ Send(e)  \/ Route(e)
                   \/ \E n \in Nodes : \E next : Moves(e, n, next)
<1> USE DEF MasterNodes
<1>a. faults \in Nat /\ MasterNodes \subseteq Nodes /\ fin \in [Runs -> Finalizing] /\ usage \in Nat
  BY DEF TypeOK, Nodes
<1>b. At(e, "analyze") => "analyze" \in todo[1] /\ e = 1
  BY DEF At, Control, OnlyFirst
<1>c. faults <= faults
  BY <1>a
<1>d. ASSUME Fault PROVE faults <= faults' /\ faults' # 0
  BY <1>a, <1>d DEF Fault
<1>1. CASE NextSuperstep(e)
  <2>1. Barrier(e)
    BY <1>1, BarrierSteps
  <2>2. QED
    BY <1>1, <1>c, <2>1 DEF NextSuperstep, Same, dbVars
<1>2. ASSUME NEW seen \in BOOLEAN, NEW active \in SUBSET Boards, DispatchScrape(e, seen, active)
      PROVE  Goal
  <2>1. /\ At(e, "start")  /\ pc' = pc  /\ an' = an  /\ fin' = fin  /\ usage' = usage
        /\ shutdown' = shutdown  /\ searchStatus' = searchStatus  /\ faults <= faults'
    BY <1>2, Told2Killed DEF DispatchScrape
  <2>2. CASE seen
    <3>1. Leave(e, "start", {}) /\ wk' = wk
      BY <1>2, <2>2 DEF DispatchScrape
    <3>2. Hop(e, "start", {})
      BY <2>1, <3>1, LeaveHops
    <3>3. Moves(e, "start", {})
      BY <2>1, <3>2 DEF Moves, Told
    <3>4. QED
      BY <1>a, <3>3
  <2>3. CASE ~seen
    <3> DEFINE w == [b \in Boards |-> [IdleWorker EXCEPT !.phase = "scrape"]]
    <3>1. Leave(e, "start", active) /\ ToWorkers(e, active, w)
      BY <1>2, <2>3 DEF DispatchScrape
    <3>2. \A b \in active : w[b].phase = "scrape"
      BY DEF IdleWorker
    <3> HIDE DEF w
    <3>3. Sends(e, "start", active, "scrape")
      BY <2>1, <3>1, <3>2, WorkersSent
    <3>4. QED
      BY <2>1, <3>3 DEF Send, Same
  <2>4. QED
    BY <2>2, <2>3
<1>3. CASE AnalyzeStart(e)
  <2>1. "analyze" \in todo[1]
    BY <1>3, <1>b DEF AnalyzeStart, AtAnalyze
  <2>2. QED
    BY <1>3, <1>c, <2>1, StaysQuiet DEF AnalyzeStart
<1>4. ASSUME NEW o \in Offers, NEW seen \in BOOLEAN, NEW ok \in BOOLEAN, AnalyzeOffer(e, o, seen, ok)
      PROVE  Goal
  <2>1. "analyze" \in todo[1] /\ faults <= faults'
    BY <1>4, <1>b, Told2Killed DEF AnalyzeOffer, AtAnalyze
  <2>2. QED
    BY <1>4, <2>1, StaysQuiet DEF AnalyzeOffer
<1>5. ASSUME NEW best \in SUBSET an.kept, AnalyzeBill(e, best) PROVE Goal
  <2>1. "analyze" \in todo[1] /\ faults <= faults'
    BY <1>5, <1>b, <1>c, <1>d DEF AnalyzeBill, AtAnalyze
  <2>2. QED
    BY <1>5, <2>1, StaysQuiet DEF AnalyzeBill
<1>6. CASE AnalyzeSave(e)
  <2>1. "analyze" \in todo[1] /\ faults <= faults'
    BY <1>6, <1>b, <1>c, <1>d DEF AnalyzeSave, AtAnalyze
  <2>2. QED
    BY <1>6, <2>1, StaysQuiet DEF AnalyzeSave
<1>7. CASE AnalyzePause(e)
  <2>1. "analyze" \in todo[1] /\ faults <= faults'
    BY <1>7, <1>b, <1>c, <1>d DEF AnalyzePause, AtAnalyze
  <2>2. searchStatus' = "none" => searchStatus = "none"
    BY <1>7 DEF AnalyzePause
  <2>3. QED
    BY <1>7, <2>1, <2>2, StaysQuiet DEF AnalyzePause
<1>8. ASSUME NEW seen \in BOOLEAN, AnalyzeRoute(e, seen) PROVE Goal
  <2> DEFINE next == RouteReview(e, seen)
  <2>1. /\ At(e, "analyze")  /\ Leave(e, "analyze", next)  /\ pc' = pc  /\ wk' = wk
        /\ an' = NoAnalysis  /\ fin' = fin  /\ usage' = usage
        /\ shutdown' = shutdown  /\ searchStatus' = searchStatus
        /\ faults <= faults'
        /\ faults' = 0 => (seen <=> shutdown)
    BY <1>8, Told2Killed DEF AnalyzeRoute, AtAnalyze, dbVars
  <2>2. /\ next \in {{"finalize"}, {"human_review"}, {"prepare_submit"}}
        /\ seen => next = {"finalize"}
    BY DEF RouteReview
  <2> HIDE DEF next
  <2>3. Hop(e, "analyze", next)
    BY <2>1, <2>2, LeaveHops, BoardNames
  <2>4. faults' = 0 => Told(e, "analyze", next)
    <3>1. ASSUME NEW x \in Lone, x \in next PROVE next = {x} /\ ~seen
      BY <2>2, <3>1 DEF Lone
    <3>2. QED
      BY <2>1, <2>2, <3>1, BoardNames DEF Told
  <2>5. Moves(e, "analyze", next)
    BY <2>1, <2>3, <2>4 DEF Moves
  <2>6. QED
    BY <1>a, <2>5
<1>9. ASSUME NEW seen \in BOOLEAN, PrepareSubmit(e, seen) PROVE Goal
  <2>1. /\ At(e, "prepare_submit")  /\ pc' = pc  /\ wk' = wk
        /\ an' = an  /\ fin' = fin  /\ usage' = usage
        /\ shutdown' = shutdown  /\ searchStatus' = searchStatus  /\ faults <= faults'
    BY <1>9, Told2Killed DEF PrepareSubmit
  <2>2. CASE Leave(e, "prepare_submit", {})
    <3>1. Hop(e, "prepare_submit", {})
      BY <2>1, <2>2, LeaveHops
    <3>2. Moves(e, "prepare_submit", {})
      BY <2>1, <3>1, BoardNames DEF Moves, Told
    <3>3. QED
      BY <1>a, <3>2
  <2>3. CASE /\ todo' = [todo EXCEPT ![e] = (@ \ {"prepare_submit"}) \cup {"dispatch_submit"}]
             /\ UNCHANGED succ
    <3>1. todo \in [Runs -> SUBSET Nodes]
      BY DEF TypeOK
    <3>2. Routes(e)
      BY <2>1, <2>3, <3>1 DEF Routes, At, Elsewhere
    <3>3. QED
      BY <2>1, <3>2 DEF Route, Same
  <2>4. QED
    BY <1>9, <2>2, <2>3 DEF PrepareSubmit
<1>10. ASSUME NEW quota \in 0..DailyLimit, NEW first \in Boards, DispatchSubmit(e, quota, first)
       PROVE  Goal
  <2>1. /\ At(e, "dispatch_submit")  /\ pc' = pc  /\ an' = an  /\ fin' = fin  /\ usage' = usage
        /\ shutdown' = shutdown  /\ searchStatus' = searchStatus  /\ faults <= faults'
    BY <1>10, <1>c, <1>d DEF DispatchSubmit, Remaining, dbVars
  <2>2. CASE quota = 0
    <3>1. Leave(e, "dispatch_submit", {}) /\ wk' = wk
      BY <1>10, <2>2 DEF DispatchSubmit
    <3>2. Hop(e, "dispatch_submit", {})
      BY <2>1, <3>1, LeaveHops
    <3>3. Moves(e, "dispatch_submit", {})
      BY <2>1, <3>2, BoardNames DEF Moves, Told
    <3>4. QED
      BY <1>a, <3>3
  <2>3. CASE quota # 0
    <3> DEFINE B == BoardsOf(g[e].queue)
               w == [b \in Boards |-> [IdleWorker EXCEPT
                        !.phase = "boot", !.left = QueueOn(g[e].queue, b),
                        !.limit = Share(quota, B, b, first)]]
    <3>1. Leave(e, "dispatch_submit", B) /\ ToWorkers(e, B, w)
      BY <1>10, <2>3 DEF DispatchSubmit, Dispatched
    <3>2. B \subseteq Boards /\ \A b \in B : w[b].phase = "boot"
      BY DEF IdleWorker, BoardsOf
    <3> HIDE DEF w, B
    <3>3. Sends(e, "dispatch_submit", B, "boot")
      BY <2>1, <3>1, <3>2, WorkersSent
    <3>4. QED
      BY <2>1, <3>3 DEF Send, Same
  <2>4. QED
    BY <2>2, <2>3
<1>11. ASSUME NEW seen \in BOOLEAN, FinalizeStart(e, seen) PROVE Goal
  <2>1. /\ At(e, "finalize")  /\ pc' = pc  /\ todo' = todo  /\ succ' = succ  /\ wk' = wk
        /\ an' = an  /\ usage' = usage
        /\ shutdown' = shutdown  /\ searchStatus' = searchStatus  /\ faults <= faults'
        /\ faults' = 0 => (seen <=> shutdown)
    BY <1>11, Told2Killed DEF FinalizeStart
  <2>2. /\ fin'[e].phase # "idle"  /\ fin'[e].killed = seen
        /\ \A r \in Runs : r # e => fin'[r] = fin[r]
    BY <1>11, <1>a DEF FinalizeStart
  <2>3. an'.phase # "idle" => "analyze" \in todo[1]
    BY <2>1 DEF Control, Staged
  <2>4. Still
    BY <2>1, <2>3 DEF Still, PhasesBut
  <2>5. QED
    BY <2>1, <2>2, <2>4 DEF Stays, At
<1>12. CASE FinalizeSave(e)
  <2>1. /\ At(e, "finalize")  /\ fin[e].phase = "save"  /\ pc' = pc  /\ wk' = wk  /\ an' = an
        /\ usage' = usage  /\ shutdown' = shutdown  /\ searchStatus' = searchStatus
    BY <1>12 DEF FinalizeSave
  <2>2. CASE fin' = [fin EXCEPT ![e].phase = "clean"] /\ UNCHANGED <<todo, succ, nxt, faults>>
    <3>1. /\ fin'[e].phase = "clean"  /\ fin'[e].killed = fin[e].killed
          /\ \A r \in Runs : r # e => fin'[r] = fin[r]
      BY <1>a, <2>2 DEF Finalizing
    <3>2. an'.phase # "idle" => "analyze" \in todo[1]
      BY <2>1 DEF Control, Staged
    <3>3. Still
      BY <2>1, <2>2, <3>2 DEF Still, PhasesBut
    <3>4. QED
      BY <1>c, <2>1, <2>2, <3>1, <3>3 DEF Stays
  <2>3. CASE /\ Fault  /\ fin' = [fin EXCEPT ![e] = NotFinalizing]
             /\ Leave(e, "finalize", {"error_notification"})
    <3>1. Hop(e, "finalize", {"error_notification"})
      BY <2>1, <2>3, LeaveHops, BoardNames
    <3>2. fin'[e].phase = "idle" /\ \A r \in Runs : r # e => fin'[r] = fin[r]
      BY <1>a, <2>3 DEF NotFinalizing
    <3>3. faults <= faults' /\ faults' # 0
      BY <1>d, <2>3
    <3>4. Moves(e, "finalize", {"error_notification"})
      BY <2>1, <3>1, <3>2, <3>3 DEF Moves
    <3>5. QED
      BY <1>a, <3>4
  <2>4. QED
    BY <1>12, <2>2, <2>3 DEF FinalizeSave
<1>13. CASE FinalizeCleanup(e)
  <2> DEFINE next == RouteEnd(e)
  <2>1. /\ At(e, "finalize")  /\ fin[e].phase = "clean"  /\ pc' = pc  /\ wk' = wk  /\ an' = an
        /\ usage' = usage  /\ shutdown' = shutdown  /\ searchStatus' = searchStatus
        /\ Leave(e, "finalize", next)  /\ faults <= faults'
    BY <1>13, <1>c, <1>d DEF FinalizeCleanup
  <2>2. fin'[e].phase = "idle" /\ \A r \in Runs : r # e => fin'[r] = fin[r]
    BY <1>13, <1>a DEF FinalizeCleanup, NotFinalizing
  <2>3. /\ next \in {{"error_notification"}, {"stop_agent_notification"}, {"completion_notification"}}
        /\ next = {"completion_notification"} => ~fin[e].killed
    BY DEF RouteEnd
  <2> HIDE DEF next
  <2>4. Hop(e, "finalize", next)
    BY <2>1, <2>3, LeaveHops, BoardNames
  <2>5. Told(e, "finalize", next)
    BY <2>1, <2>3, BoardNames DEF Told, Lone
  <2>6. Moves(e, "finalize", next)
    BY <2>1, <2>2, <2>4, <2>5 DEF Moves
  <2>7. QED
    BY <1>a, <2>6
<1>14. CASE CompletionNotification(e)
  <2>1. /\ At(e, "completion_notification")  /\ pc' = pc  /\ wk' = wk  /\ an' = an  /\ fin' = fin
        /\ shutdown' = shutdown  /\ Leave(e, "completion_notification", {})
        /\ faults <= faults'  /\ usage' <= usage + 1
        /\ searchStatus' = "none" => searchStatus = "none"
    BY <1>14, <1>a, <1>c, <1>d DEF CompletionNotification
  <2>2. Hop(e, "completion_notification", {})
    BY <2>1, LeaveHops
  <2>3. Moves(e, "completion_notification", {})
    BY <2>1, <2>2, BoardNames DEF Moves, Told
  <2>4. QED
    BY <1>a, <2>3
<1>15. CASE StopNotification(e)
  <2>1. /\ At(e, "stop_agent_notification")  /\ pc' = pc  /\ wk' = wk  /\ an' = an  /\ fin' = fin
        /\ shutdown' = shutdown  /\ Leave(e, "stop_agent_notification", {})
        /\ faults <= faults'  /\ usage' = usage  /\ searchStatus' = searchStatus
    BY <1>15, <1>c DEF StopNotification, dbVars
  <2>2. Hop(e, "stop_agent_notification", {})
    BY <2>1, LeaveHops
  <2>3. Moves(e, "stop_agent_notification", {})
    BY <2>1, <2>2, BoardNames DEF Moves, Told
  <2>4. QED
    BY <1>a, <2>3
<1>16. CASE ErrorNotification(e)
  <2>1. /\ At(e, "error_notification")  /\ pc' = pc  /\ wk' = wk  /\ an' = an  /\ fin' = fin
        /\ shutdown' = shutdown  /\ Leave(e, "error_notification", {})
        /\ faults <= faults'  /\ usage' = usage
        /\ searchStatus' = "none" => searchStatus = "none"
    BY <1>16, <1>c, <1>d DEF ErrorNotification
  <2>2. Hop(e, "error_notification", {})
    BY <2>1, LeaveHops
  <2>3. Moves(e, "error_notification", {})
    BY <2>1, <2>2, BoardNames DEF Moves, Told
  <2>4. QED
    BY <1>a, <2>3
<1>17. QED
  BY <1>1, <1>2, <1>3, <1>4, <1>5, <1>6, <1>7, <1>8, <1>9, <1>10, <1>11, <1>12, <1>13, <1>14,
     <1>15, <1>16 DEF Master

LEMMA WorkerMoves ==
    ASSUME TypeOK, Control, NEW e \in Runs, NEW b \in Boards, Worker(e, b)
    PROVE  Stays \/ \E n \in Nodes : \E next : Moves(e, n, next)
<1> DEFINE Goal == Stays \/ \E n \in Nodes : \E next : Moves(e, n, next)
<1>a. /\ faults \in Nat  /\ wk \in [Runs -> [Boards -> WorkerState]]  /\ wk[e][b] \in WorkerState
      /\ todo \in [Runs -> SUBSET Nodes]  /\ succ \in [Runs -> SUBSET Nodes]
      /\ b \in Nodes
  BY DEF TypeOK, Nodes
<1>b. b \notin {"finalize", "completion_notification", "analyze", "start"}
  BY BoardNames
<1>c. ASSUME NEW w, SetWorker(e, b, w)
      PROVE  /\ wk'[e][b] = w
             /\ \A r \in Runs, c \in Boards : r # e \/ c # b => wk'[r][c] = wk[r][c]
  BY <1>a, <1>c DEF SetWorker
(* The two ways a submitting worker goes on, and the one it returns by.      *)
<1>d. ASSUME NEW w, SetWorker(e, b, w), w.phase \in Submitting, wk[e][b].phase \in Submitting,
             pc' = pc, todo' = todo, succ' = succ, fin' = fin, usage' = usage, an' = an,
             shutdown' = shutdown, searchStatus' = searchStatus, faults <= faults'
      PROVE  Stays
  <2>1. an'.phase # "idle" => "analyze" \in todo[1]
    BY <1>d DEF Control, Staged
  <2>2. \A r \in Runs : PhasesBut(r, {})
    BY <1>c, <1>d DEF PhasesBut, Submitting
  <2>3. QED
    BY <1>d, <2>1, <2>2 DEF Stays, Still
<1>e. ASSUME NEW next, NEW w, SetWorker(e, b, w), w.phase = "done", Leave(e, b, next), At(e, b),
             wk[e][b].phase \in Submitting \cup {"scrape"},
             next = {"finalize"} \/ (next = {"analyze"} /\ wk[e][b].phase = "scrape"),
             faults' = 0 /\ wk[e][b].phase = "scrape" => (next = {"finalize"} <=> shutdown),
             pc' = pc, fin' = fin, usage' = usage, an' = an,
             shutdown' = shutdown, searchStatus' = searchStatus, faults <= faults'
      PROVE  Moves(e, b, next)
  <2>1. /\ pc[e] = "running"  /\ pc'[e] = "running"  /\ b \in todo[e]
    BY <1>e DEF At
  <2>2. /\ todo'[e] = todo[e] \ {b}  /\ succ'[e] = succ[e] \cup next
        /\ \A r \in Runs : r # e => todo'[r] = todo[r] /\ succ'[r] = succ[r]
    BY <1>a, <1>e DEF Leave
  <2>3. PhasesBut(e, {b})
    BY <1>c, <1>e DEF PhasesBut
  <2>4. /\ "start" \notin next  /\ next \cap Boards = {}
    BY <1>e, BoardNames
  <2>5. Hop(e, b, next)
    BY <1>b, <1>c, <1>e, <2>1, <2>2, <2>3, <2>4 DEF Hop, Elsewhere
  <2>6. \A x \in Lone : x \notin next
    BY <1>e DEF Lone
  <2>7. faults' = 0 => Told(e, b, next)
    BY <1>e, <2>6 DEF Told
  <2>8. QED
    BY <1>b, <1>e, <2>5, <2>7 DEF Moves
<1>1. ASSUME NEW seen \in BOOLEAN, NEW S \in SUBSET {o \in Offers : BoardOf[o] = b},
             WorkerScrape(e, b, seen, S)
      PROVE  Goal
  <2> DEFINE next == IF seen THEN {"finalize"} ELSE {"analyze"}
             w == [wk[e][b] EXCEPT !.phase = "done"]
  <2>1. /\ At(e, b)  /\ wk[e][b].phase = "scrape"  /\ SetWorker(e, b, w)  /\ Leave(e, b, next)
        /\ pc' = pc  /\ fin' = fin  /\ usage' = usage  /\ an' = an
        /\ shutdown' = shutdown  /\ searchStatus' = searchStatus  /\ faults <= faults'
        /\ (faults' = 0 => (seen <=> shutdown))
    BY <1>1, Told2Killed DEF WorkerScrape, dbVars
  <2>2. w.phase = "done"
    BY <1>a DEF WorkerState
  <2>3. /\ next = {"finalize"} \/ next = {"analyze"}
        /\ next = {"finalize"} <=> seen
    OBVIOUS
  <2> HIDE DEF next, w
  <2>4. Moves(e, b, next)
    BY <1>e, <2>1, <2>2, <2>3
  <2>5. QED
    BY <1>a, <2>4
<1>2. ASSUME NEW seen \in BOOLEAN, NEW on \in BOOLEAN, WorkerBoot(e, b, seen, on) PROVE Goal
  <2>1. /\ At(e, b)  /\ wk[e][b].phase = "boot"
        /\ pc' = pc  /\ fin' = fin  /\ usage' = usage  /\ an' = an
        /\ shutdown' = shutdown  /\ searchStatus' = searchStatus  /\ faults <= faults'
    BY <1>2, Told2Killed DEF WorkerBoot, AtWorker, dbVars
  <2>2. CASE WorkerEnds(e, b, wk[e][b])
    <3>1. [wk[e][b] EXCEPT !.phase = "done"].phase = "done"
      BY <1>a DEF WorkerState
    <3>2. Moves(e, b, {"finalize"})
      BY <1>e, <2>1, <2>2, <3>1 DEF WorkerEnds, Submitting
    <3>3. QED
      BY <1>a, <3>2
  <2>3. CASE SetWorker(e, b, [wk[e][b] EXCEPT !.phase = "check"]) /\ UNCHANGED <<todo, succ, nxt>>
    <3>1. [wk[e][b] EXCEPT !.phase = "check"].phase \in Submitting
      BY <1>a DEF WorkerState, Submitting
    <3>2. Stays
      BY <1>d, <2>1, <2>3, <3>1 DEF Submitting
    <3>3. QED
      BY <3>2
  <2>4. QED
    BY <1>2, <2>2, <2>3 DEF WorkerBoot
<1>3. ASSUME NEW seen \in BOOLEAN, WorkerCheck(e, b, seen) PROVE Goal
  <2>1. /\ At(e, b)  /\ wk[e][b].phase = "check"
        /\ pc' = pc  /\ fin' = fin  /\ usage' = usage  /\ an' = an
        /\ shutdown' = shutdown  /\ searchStatus' = searchStatus  /\ faults <= faults'
    <3>1. faults <= faults'
      <4>1. CASE UNCHANGED <<alive, faults, missed>>
        BY <1>a, <4>1
      <4>2. CASE IsKilled(seen)
        BY <4>2, Told2Killed
      <4>3. QED
        BY <1>3, <4>1, <4>2 DEF WorkerCheck
    <3>2. QED
      BY <1>3, <3>1 DEF WorkerCheck, AtWorker
  <2>2. CASE WorkerEnds(e, b, wk[e][b])
    <3>1. [wk[e][b] EXCEPT !.phase = "done"].phase = "done"
      BY <1>a DEF WorkerState
    <3>2. Moves(e, b, {"finalize"})
      BY <1>e, <2>1, <2>2, <3>1 DEF WorkerEnds, Submitting
    <3>3. QED
      BY <1>a, <3>2
  <2>3. ASSUME NEW o \in Offers, UNCHANGED <<todo, succ, nxt>>,
               SetWorker(e, b, [wk[e][b] EXCEPT !.phase = "send", !.cur = o])
        PROVE  Goal
    <3>1. [wk[e][b] EXCEPT !.phase = "send", !.cur = o].phase \in Submitting
      BY <1>a DEF WorkerState, Submitting
    <3>2. Stays
      BY <1>d, <2>1, <2>3, <3>1 DEF Submitting
    <3>3. QED
      BY <3>2
  <2>4. QED
    BY <1>3, <2>2, <2>3 DEF WorkerCheck
<1>4. ASSUME NEW sends \in BOOLEAN, NEW confirms \in BOOLEAN, WorkerSend(e, b, sends, confirms)
      PROVE  Goal
  <2>1. /\ wk[e][b].phase = "send"  /\ pc' = pc  /\ todo' = todo  /\ succ' = succ
        /\ fin' = fin  /\ usage' = usage  /\ an' = an
        /\ shutdown' = shutdown  /\ searchStatus' = searchStatus  /\ faults <= faults'
    BY <1>4, <1>a DEF WorkerSend, AtWorker, dbVars
  <2>2. \E w : SetWorker(e, b, w) /\ w.phase = "check"
    <3> DEFINE o == wk[e][b].cur
               w == [wk[e][b] EXCEPT
                        !.phase = "check", !.cur = NoOffer, !.left = OneLess(@, o, confirms),
                        !.ok = IF confirms THEN @ + 1 ELSE @,
                        !.late = IF sends /\ shutdown THEN @ + 1 ELSE @]
    <3>1. SetWorker(e, b, w)
      BY <1>4 DEF WorkerSend
    <3>2. w.phase = "check"
      BY <1>a DEF WorkerState
    <3> HIDE DEF w
    <3>3. QED
      BY <3>1, <3>2
  <2>3. Stays
    BY <1>d, <2>1, <2>2 DEF Submitting
  <2>4. QED
    BY <2>3
<1>5. QED
  BY <1>1, <1>2, <1>3, <1>4 DEF Worker

(* What the user, the clock and the other searches do leaves the position of *)
(* every execution alone, but for the two requests that dispatch one.        *)
Dispatches == StartPrepare \/ \E e \in Runs, all \in BOOLEAN : ResumePrepare(e, all)

LEMMA OutsideStays ==
    ASSUME TypeOK, Control, User \/ Around, ~Dispatches PROVE Stays
<1>0. an.phase # "idle" => "analyze" \in todo[1]
  BY DEF Control, Staged
<1> DEFINE Quiet ==
           /\ pc' = pc  /\ todo' = todo  /\ succ' = succ  /\ wk' = wk  /\ fin' = fin  /\ an' = an
           /\ usage' = usage  /\ (shutdown => shutdown')  /\ faults' = faults
           /\ (searchStatus' = "none" => searchStatus = "none")
<1>1. Quiet
  <2>1. CASE Kill \/ RequestShutdown
    BY <2>1 DEF Kill, RequestShutdown, execVars
  <2>2. ASSUME \/ \E op \in EditOp, o \in Offers : EditRead(op, o)
               \/ \E e \in Runs : ResumeRead(e)
        PROVE  Quiet
    BY <2>2 DEF EditRead, ResumeRead, dbVars, execVars
  <2>3. CASE EditWrite
    BY <2>3 DEF EditWrite, execVars
  <2>4. CASE Around
    BY <2>4 DEF Around, HeartbeatGoesStale, ElsewhereApplies, ElsewhereBills, execVars
  <2>5. QED
    BY <2>1, <2>2, <2>3, <2>4 DEF User, Dispatches
<1>2. faults <= faults'
  BY <1>1 DEF TypeOK
<1>3. QED
  BY <1>0, <1>1, <1>2, StaysQuiet

LEMMA ControlStep ==
    ASSUME TypeOK, Control, Next PROVE Control'
<1>1. CASE User \/ Around
  <2>1. CASE Dispatches
    BY <2>1, ControlBegins DEF Dispatches
  <2>2. CASE ~Dispatches
    BY <1>1, <2>2, OutsideStays, ControlStill DEF Stays
  <2>3. QED
    BY <2>1, <2>2
<1>2. ASSUME NEW e \in Runs, Boot(e) PROVE Control'
  BY <1>2, ControlBegins DEF Boot
<1>3. ASSUME NEW e \in Runs, Master(e) PROVE Control'
  <2>1. CASE Barrier(e) /\ Same /\ an' = an
    BY <2>1, ControlBarrier DEF Same
  <2>2. CASE Stays
    BY <2>2, ControlStill DEF Stays
  <2>3. CASE Send(e)
    BY <2>3, ControlSends DEF Send
  <2>4. CASE Route(e)
    BY <2>4, ControlRoutes DEF Route
  <2>5. CASE \E n \in Nodes : \E next : Moves(e, n, next)
    BY <2>5, ControlHop DEF Moves
  <2>6. QED
    BY <1>3, <2>1, <2>2, <2>3, <2>4, <2>5, MasterMoves
<1>4. ASSUME NEW e \in Runs, NEW b \in Boards, Worker(e, b) PROVE Control'
  BY <1>4, WorkerMoves, ControlStill, ControlHop DEF Stays, Moves
<1>5. ASSUME NEW e \in Runs, Crash(e) PROVE Control'
  <2>1. searchStatus' = searchStatus /\ an' = IF e = 1 THEN NoAnalysis ELSE an
    BY <1>5 DEF Crash, dbVars
  <2>2. QED
    BY <1>5, <2>1, CrashStops, ControlStops
<1>6. QED
  BY <1>1, <1>2, <1>3, <1>4, <1>5 DEF Next, Execution

(***************************************************************************)
(* Drafts are written once, billed once, and final once sent.              *)
(***************************************************************************)

(* The first execution may still write a draft.                              *)
Drafting ==
    \/ pc[1] \in {"idle", "dispatched"}
    \/ "start" \in todo[1]
    \/ Scouting(1)
    \/ "analyze" \in succ[1]
    \/ "analyze" \in todo[1] /\ an.phase \in {"idle", "offers", "save"}

NothingWritten ==
    /\ \A o \in Offers : row[o] = "none"
    /\ edit = NoEdit  /\ \A e \in Runs : picked[e] = {}
    /\ \A e \in Runs \ {1} : pc[e] = "idle"
    /\ \A b \in Boards : wk[1][b].phase \notin Submitting
    /\ g[1].sent = {}  /\ nxt[1].sent = {}
    /\ saved = {}
    /\ an.phase # "save" => charged = 0

Fresh == Drafting => NothingWritten

Billed ==
    /\ credits <= StartCredits
    /\ charged <= DailyLimit  /\ charged <= StartCredits
    /\ an.phase = "save" => charged = Cardinality(an.kept)
    /\ charged = Cardinality(saved) \/ an.phase = "save" \/ faults > 0

(* Where the first execution can be while it is drafting.                    *)
LEMMA DraftingAt ==
    ASSUME Control, Drafting
    PROVE  /\ todo[1] \subseteq Boards \cup {"start", "analyze", "finalize"}
           /\ pc[1] \in {"idle", "dispatched"} => todo[1] = {}
<1>1. Staged /\ (pc[1] \in {"idle", "dispatched"} => todo[1] = {})
  BY FirstRun DEF Control, Unstarted
<1>2. Scouting(1) => todo[1] \subseteq Boards
  BY <1>1 DEF Staged, Scouting
<1>3. QED
  BY <1>1, <1>2 DEF Drafting, Staged

LEMMA AnalyzingAlone ==
    ASSUME Control, NEW e \in Runs, At(e, "analyze")
    PROVE  /\ e = 1  /\ pc[1] = "running"  /\ "analyze" \in todo[1]
           /\ "start" \notin todo[1]  /\ "analyze" \notin succ[1]  /\ ~Scouting(1)
<1>1. e = 1 /\ pc[1] = "running" /\ "analyze" \in todo[1]
  BY DEF At, Control, OnlyFirst
<1>2. Staged
  BY DEF Control
<1>3. "start" \notin todo[1] /\ "analyze" \notin succ[1]
  BY <1>1, <1>2, BoardNames DEF Staged
<1>4. ~Scouting(1)
  BY <1>1, <1>2, BoardNames DEF Staged, Scouting
<1>5. QED
  BY <1>1, <1>3, <1>4

(* Once the drafting is over, it stays over.                                 *)
LEMMA DraftingStill ==
    ASSUME Control, Still, Drafting',
           an'.phase \in {"idle", "offers", "save"} =>
               an.phase \in {"idle", "offers", "save"} \/ "analyze" \notin todo[1]
    PROVE  Drafting
<1>1. /\ pc'[1] = pc[1] /\ todo'[1] = todo[1] /\ succ'[1] = succ[1]
      /\ Scouting(1)' <=> Scouting(1)
  BY FirstRun DEF Still, PhasesBut, Scouting
<1>2. QED
  BY <1>1 DEF Drafting

LEMMA DraftingMoves ==
    ASSUME Control, NEW e \in Runs, NEW n, NEW next, Moves(e, n, next), Drafting'
    PROVE  Drafting
<1>1. Hop(e, n, next)
  BY DEF Moves
<1>2. CASE e # 1
  <2>1. /\ pc'[1] = pc[1] /\ todo'[1] = todo[1] /\ succ'[1] = succ[1]
        /\ Scouting(1)' <=> Scouting(1)
    BY <1>1, <1>2, FirstRun DEF Hop, Elsewhere, PhasesBut, Scouting
  <2>2. an' = an
    <3>1. n # "analyze"
      BY <1>1, <1>2 DEF Hop, Control, OnlyFirst
    <3>2. QED
      BY <3>1 DEF Moves
  <2>3. QED
    BY <2>1, <2>2 DEF Drafting
<1>3. CASE e = 1
  <2>1. /\ pc'[1] = "running"  /\ todo'[1] = todo[1] \ {n}  /\ succ'[1] = succ[1] \cup next
        /\ "analyze" \in next => n \in Boards /\ wk[1][n].phase = "scrape"
        /\ n = "analyze" \/ an' = an
    BY <1>1, <1>3 DEF Hop, Moves
  <2>2. Scouting(1)' => Scouting(1)
    BY <1>1, <1>3, FirstRun DEF Hop, PhasesBut, Scouting
  <2>3. "analyze" \in next => Scouting(1)
    BY <2>1 DEF Scouting
  <2>4. QED
    BY <2>1, <2>2, <2>3 DEF Drafting
<1>4. QED
  BY <1>2, <1>3

LEMMA DraftingSends ==
    ASSUME Control, NEW e \in Runs, Send(e) \/ Route(e), Drafting'
    PROVE  Drafting
<1>1. CASE Route(e)
  <2>1. Scouting(1)' <=> Scouting(1)
    BY <1>1 DEF Route, Routes, Scouting
  <2>2. QED
    BY <1>1, <2>1, FirstRun DEF Route, Routes, Elsewhere, Drafting
<1>2. CASE Send(e)
  <2>1. PICK n \in {"start", "dispatch_submit"}, B \in SUBSET Boards, phase \in {"scrape", "boot"} :
          /\ Sends(e, n, B, phase)
          /\ n = "start" <=> phase = "scrape"
    BY <1>2 DEF Send, Sends
  <2>2. Scouting(1)' => Scouting(1) \/ (e = 1 /\ n = "start")
    <3> SUFFICES ASSUME NEW b \in Boards, wk'[1][b].phase = "scrape"
                 PROVE  wk[1][b].phase = "scrape" \/ (e = 1 /\ n = "start")
      BY DEF Scouting
    <3>1. QED
      BY <2>1, FirstRun DEF Sends, PhasesBut
  <2>3. /\ pc'[1] = pc[1] /\ todo'[1] \subseteq todo[1]
        /\ "analyze" \in succ'[1] => "analyze" \in succ[1]
        /\ an'.phase = an.phase
        /\ e = 1 => n \in todo[1]
    BY <2>1, FirstRun, BoardNames DEF Sends, Elsewhere
  <2>4. QED
    BY <2>2, <2>3 DEF Drafting
<1>3. QED
  BY <1>1, <1>2

LEMMA DraftingBarrier ==
    ASSUME Control, NEW e \in Runs, Barrier(e), an' = an, Drafting'
    PROVE  Drafting
<1>1. Scouting(1)' => Scouting(1)
  BY FirstRun DEF Barrier, PhasesBut, Scouting
<1>2. CASE e # 1
  BY <1>1, <1>2, FirstRun DEF Barrier, Elsewhere, Drafting
<1>3. CASE e = 1
  <2>1. /\ "start" \notin todo'[1]  /\ succ'[1] = {}
        /\ "analyze" \in todo'[1] => "analyze" \in succ[1]
        /\ pc'[1] \notin {"idle", "dispatched"}
    BY <1>3 DEF Barrier, Control, Staged
  <2>2. QED
    BY <1>1, <2>1 DEF Drafting
<1>4. QED
  BY <1>2, <1>3

LEMMA DraftingStops ==
    ASSUME NEW e \in Runs, Stops(e), an' = (IF e = 1 THEN NoAnalysis ELSE an), Drafting'
    PROVE  e # 1 /\ Drafting
<1>1. e # 1
  BY DEF Stops, Drafting, Scouting
<1>2. QED
  BY <1>1, FirstRun DEF Stops, Elsewhere, PhasesBut, Scouting, Drafting

(* What leaves every part of NothingWritten as it is.                        *)
NothingNew ==
    /\ row' = row  /\ edit' = edit  /\ picked' = picked  /\ saved' = saved  /\ charged' = charged
    /\ \A e \in Runs \ {1} : pc'[e] = pc[e]
    /\ g'[1].sent = g[1].sent  /\ nxt'[1].sent = nxt[1].sent
    /\ an.phase = "save" => an'.phase = "save"
    /\ \A b \in Boards : wk'[1][b].phase \in Submitting => wk[1][b].phase \in Submitting

LEMMA NothingNewKept ==
    ASSUME NothingWritten, NothingNew PROVE NothingWritten'
BY DEF NothingWritten, NothingNew

LEMMA FreshOutside ==
    ASSUME TypeOK, Control, Fresh, User \/ Around PROVE Fresh'
<1> SUFFICES ASSUME Drafting' PROVE NothingWritten'
  BY DEF Fresh
<1>1. CASE StartPrepare
  <2>1. /\ searchStatus = "none"  /\ wk' = wk  /\ g' = g  /\ nxt' = nxt  /\ an' = an
        /\ row' = row  /\ edit' = edit  /\ picked' = picked  /\ saved' = saved  /\ charged' = charged
        /\ \A e \in Runs \ {1} : pc'[e] = pc[e]
    BY <1>1 DEF StartPrepare, TypeOK, history
  <2>2. pc[1] = "idle"
    BY <2>1, FirstRun DEF Control, Unstarted
  <2>3. NothingWritten
    BY <2>2 DEF Fresh, Drafting
  <2>4. QED
    BY <2>1, <2>3, NothingNewKept DEF NothingNew
<1>2. ASSUME NEW e \in Runs, NEW all \in BOOLEAN, ResumePrepare(e, all) PROVE NothingWritten'
  <2>1. /\ e > 1  /\ todo' = todo  /\ succ' = succ  /\ wk' = wk  /\ an' = an  /\ pc'[1] = pc[1]
        /\ picked[e] # {} \/ RowsIn("APPROVED") # {}
    BY <1>2, FirstRun DEF ResumePrepare, TypeOK
  <2>2. Drafting
    BY <2>1 DEF Drafting, Scouting
  <2>3. QED
    BY <2>1, <2>2 DEF Fresh, NothingWritten, RowsIn
<1>3. CASE (User \/ Around) /\ ~Dispatches
  <2>1. Stays /\ an' = an
    <3>1. an' = an
      BY <1>3 DEF User, Around, Dispatches, ResumeRead, Kill, RequestShutdown, EditRead,
                  EditWrite, HeartbeatGoesStale, ElsewhereApplies, ElsewhereBills, execVars
    <3>2. QED
      BY <1>3, <3>1, OutsideStays
  <2>2. NothingWritten
    BY <2>1, DraftingStill DEF Stays, Fresh
  <2>3. row' = row /\ edit' = edit /\ picked' = picked /\ saved' = saved /\ charged' = charged
    <3>1. ASSUME \/ \E op \in EditOp, o \in Offers : EditRead(op, o)
                 \/ \E e \in Runs : ResumeRead(e)
          PROVE  FALSE
      BY <2>2, <3>1 DEF NothingWritten, EditRead, Editable, ResumeRead, RowsIn
    <3>2. ~EditWrite
      BY <2>2 DEF NothingWritten, EditWrite
    <3>3. QED
      BY <1>3, <3>1, <3>2 DEF User, Around, Dispatches, Kill, RequestShutdown, HeartbeatGoesStale,
                              ElsewhereApplies, ElsewhereBills, history
  <2>4. pc' = pc /\ g' = g /\ nxt' = nxt /\ wk' = wk
    BY <1>3 DEF User, Around, Dispatches, ResumeRead, Kill, RequestShutdown, EditRead, EditWrite,
                HeartbeatGoesStale, ElsewhereApplies, ElsewhereBills, execVars
  <2>5. QED
    BY <2>1, <2>2, <2>3, <2>4, NothingNewKept DEF NothingNew
<1>4. QED
  BY <1>1, <1>2, <1>3 DEF Dispatches

LEMMA FreshBoot ==
    ASSUME TypeOK, Control, Fresh, NEW e \in Runs, Boot(e) \/ Crash(e) PROVE Fresh'
<1> SUFFICES ASSUME Drafting' PROVE NothingWritten'
  BY DEF Fresh
<1>1. CASE BootStart
  <2>1. /\ pc[1] = "dispatched"  /\ wk' = wk  /\ an' = an
        /\ row' = row  /\ edit' = edit  /\ picked' = picked  /\ saved' = saved  /\ charged' = charged
        /\ \A r \in Runs \ {1} : pc'[r] = pc[r]
        /\ g'[1].sent = {}  /\ nxt'[1].sent = {}
    BY <1>1, FirstRun DEF BootStart, TypeOK, dbVars, history, EmptyState
  <2>2. NothingWritten
    BY <2>1 DEF Fresh, Drafting
  <2>3. QED
    BY <2>1, <2>2 DEF NothingWritten
<1>2. CASE BootResume(e)
  <2>1. /\ e # 1  /\ pc[e] = "dispatched"  /\ succ' = succ  /\ wk' = wk  /\ an' = an
        /\ pc'[1] = pc[1]  /\ todo'[1] = todo[1]
    BY <1>2, FirstRun DEF BootResume, TypeOK
  <2>2. Drafting
    BY <2>1 DEF Drafting, Scouting
  <2>3. QED
    BY <2>1, <2>2 DEF Fresh, NothingWritten
<1>3. CASE Crash(e)
  <2>1. Stops(e) /\ an' = IF e = 1 THEN NoAnalysis ELSE an
    BY <1>3, CrashStops DEF Crash
  <2>2. e # 1 /\ Drafting
    BY <2>1, DraftingStops
  <2>3. pc[e] = "idle"
    BY <2>2 DEF Fresh, NothingWritten
  <2>4. QED
    BY <2>1, <2>3 DEF Stops
<1>4. QED
  BY <1>1, <1>2, <1>3 DEF Boot

(* Of the board workers, only a scraping one is there to take a step.        *)
LEMMA FreshWorker ==
    ASSUME TypeOK, Control, Fresh, NEW e \in Runs, NEW b \in Boards, Worker(e, b) PROVE Fresh'
<1> SUFFICES ASSUME Drafting' PROVE NothingWritten'
  BY DEF Fresh
<1>1. an' = an /\ At(e, b)
  BY DEF Worker, WorkerScrape, WorkerBoot, WorkerCheck, WorkerSend, AtWorker
<1>2. Drafting
  BY <1>1, WorkerMoves, DraftingStill, DraftingMoves DEF Stays
<1>3. NothingWritten
  BY <1>2 DEF Fresh
<1>4. e = 1 /\ wk[1][b].phase \notin Submitting
  BY <1>1, <1>3 DEF NothingWritten, At
<1>5. PICK seen \in BOOLEAN, S \in SUBSET {o \in Offers : BoardOf[o] = b} : WorkerScrape(e, b, seen, S)
  BY <1>4 DEF Worker, WorkerBoot, WorkerCheck, WorkerSend, AtWorker, Submitting
<1>6. /\ row' = row  /\ edit' = edit  /\ picked' = picked  /\ saved' = saved  /\ charged' = charged  /\ pc' = pc  /\ g' = g
  BY <1>5 DEF WorkerScrape, dbVars
<1>7. nxt'[1].sent = nxt[1].sent
  <2>1. nxt \in [Runs -> GraphState]
    BY DEF TypeOK
  <2>2. nxt' = [nxt EXCEPT ![1] = [nxt[1] EXCEPT !.found = @ \cup S, !.err = FALSE]]
    BY <1>4, <1>5, <2>1, FirstRun DEF WorkerScrape, GraphState
  <2>3. QED
    BY <2>1, <2>2, FirstRun DEF GraphState
<1>8. \A c \in Boards : wk'[1][c].phase \in Submitting => wk[1][c].phase \in Submitting
  <2>1. wk \in [Runs -> [Boards -> WorkerState]]
    BY DEF TypeOK
  <2>2. wk' = [wk EXCEPT ![1][b] = [wk[1][b] EXCEPT !.phase = "done"]]
    BY <1>4, <1>5 DEF WorkerScrape, SetWorker
  <2>3. \A c \in Boards : wk'[1][c] = IF c = b THEN [wk[1][b] EXCEPT !.phase = "done"] ELSE wk[1][c]
    BY <2>1, <2>2, FirstRun
  <2>4. [wk[1][b] EXCEPT !.phase = "done"].phase = "done"
    BY <2>1, FirstRun DEF WorkerState
  <2>5. QED
    BY <2>3, <2>4 DEF Submitting
<1>9. QED
  BY <1>1, <1>3, <1>6, <1>7, <1>8, NothingNewKept DEF NothingNew

LEMMA FreshMaster ==
    ASSUME TypeOK, Control, Fresh, NEW e \in Runs, Master(e) PROVE Fresh'
<1> SUFFICES ASSUME Drafting' PROVE NothingWritten'
  BY DEF Fresh
<1> USE FirstRun
<1>0. /\ nxt \in [Runs -> GraphState]  /\ g \in [Runs -> GraphState]  /\ an \in Analysis
      /\ row \in [Offers -> RowStatus]
  BY DEF TypeOK
<1>a. ASSUME nxt' = nxt \/ AnalysisFails(e) PROVE nxt'[1].sent = nxt[1].sent
  BY SMTT(40), <1>0, <1>a DEF AnalysisFails, GraphState
(* Every action but those of analyze leaves the analysis alone.              *)
<1>1. ASSUME an' = an PROVE Drafting
  <2>1. CASE Stays
    BY <1>1, <2>1, DraftingStill DEF Stays
  <2>2. CASE Send(e) \/ Route(e)
    BY <2>2, DraftingSends
  <2>3. CASE Barrier(e)
    BY <1>1, <2>3, DraftingBarrier
  <2>4. CASE \E n \in Nodes : \E next : Moves(e, n, next)
    BY <2>4, DraftingMoves
  <2>5. QED
    BY <2>1, <2>2, <2>3, <2>4, MasterMoves
(* In a drafting state, all that moves belongs to the first execution.       *)
<1>2. ASSUME Drafting PROVE NothingWritten /\ (pc[e] = "running" => e = 1)
  BY <1>2 DEF Fresh, NothingWritten
<1>3. ASSUME At(e, "analyze"), todo' = todo, succ' = succ, pc' = pc, wk' = wk
      PROVE  an'.phase \in {"idle", "offers", "save"}
  <2>1. /\ pc[1] = "running"  /\ "start" \notin todo[1]  /\ "analyze" \notin succ[1]  /\ ~Scouting(1)
    BY <1>3, AnalyzingAlone
  <2>2. ~Scouting(1)'
    BY <1>3, <2>1 DEF Scouting
  <2>3. QED
    BY <1>3, <2>1, <2>2 DEF Drafting
<1>4. CASE NextSuperstep(e)
  <2>1. an' = an /\ pc[e] = "running"
    BY <1>4 DEF NextSuperstep
  <2>2. NothingWritten /\ e = 1
    BY <1>1, <1>2, <2>1
  <2>3. Merged(1).sent = {}
    BY <1>0, <2>2 DEF Merged, GraphState, NothingWritten
  <2>4. g'[1].sent = {} /\ nxt'[1].sent = {}
    <3>1. \/ g' = [g EXCEPT ![1] = EmptyState] /\ nxt' = [nxt EXCEPT ![1] = EmptyState]
          \/ g' = [g EXCEPT ![1] = Merged(1)] /\ nxt' = [nxt EXCEPT ![1] = Merged(1)]
      BY <1>4, <2>2 DEF NextSuperstep
    <3>2. EmptyState.sent = {}
      BY DEF EmptyState
    <3>3. QED
      BY <1>0, <2>3, <3>1, <3>2
  <2>5. Barrier(1)
    BY <1>4, <2>2, BarrierSteps
  <2>6. \A b \in Boards : wk'[1][b].phase \notin Submitting
    BY <2>2, <2>5 DEF Barrier, NothingWritten, Submitting
  <2>7. /\ row' = row  /\ edit' = edit  /\ picked' = picked  /\ saved' = saved  /\ charged' = charged
        /\ \A r \in Runs \ {1} : pc'[r] = pc[r]
    BY <1>4, <2>5 DEF NextSuperstep, dbVars, history, Barrier, Elsewhere
  <2>8. QED
    BY <2>1, <2>2, <2>4, <2>6, <2>7 DEF NothingWritten
<1>5. ASSUME NEW seen \in BOOLEAN, NEW active \in SUBSET Boards, DispatchScrape(e, seen, active)
      PROVE  NothingWritten'
  <2>1. /\ row' = row  /\ edit' = edit  /\ picked' = picked  /\ saved' = saved  /\ charged' = charged  /\ pc' = pc
        /\ g' = g  /\ nxt' = nxt  /\ an' = an
    BY <1>5 DEF DispatchScrape
  <2>2. NothingWritten /\ e = 1
    BY <1>1, <1>2, <1>5, <2>1 DEF DispatchScrape, At
  <2>3. \A b \in Boards : wk'[1][b].phase \in Submitting => wk[1][b].phase \in Submitting
    <3>1. CASE seen
      BY <1>5, <3>1 DEF DispatchScrape
    <3>2. CASE ~seen
      <4>1. ToWorkers(1, active, [b \in Boards |-> [IdleWorker EXCEPT !.phase = "scrape"]])
        BY <1>5, <2>2, <3>2 DEF DispatchScrape
      <4>2. wk \in [Runs -> [Boards -> WorkerState]]
        BY DEF TypeOK
      <4>3. \A b \in Boards : wk'[1][b] =
              IF b \in active THEN [IdleWorker EXCEPT !.phase = "scrape"] ELSE wk[1][b]
        BY <4>1, <4>2 DEF ToWorkers
      <4>4. [IdleWorker EXCEPT !.phase = "scrape"].phase = "scrape"
        BY DEF IdleWorker
      <4>5. QED
        BY <4>3, <4>4 DEF Submitting
    <3>3. QED
      BY <3>1, <3>2
  <2>4. QED
    BY <2>1, <2>2, <2>3, NothingNewKept DEF NothingNew
<1>6. ASSUME AnalyzeStart(e) \/ \E o \in Offers, seen \in BOOLEAN, ok \in BOOLEAN : AnalyzeOffer(e, o, seen, ok)
      PROVE  NothingWritten'
  <2>1. /\ At(e, "analyze")  /\ an.phase \in {"idle", "offers"}
        /\ row' = row  /\ edit' = edit  /\ picked' = picked  /\ saved' = saved  /\ charged' = charged  /\ pc' = pc
        /\ g' = g  /\ wk' = wk
    BY <1>6 DEF AnalyzeStart, AnalyzeOffer, AtAnalyze, history
  <2>2. Drafting
    BY <2>1, AnalyzingAlone DEF Drafting
  <2>3. nxt'[1].sent = nxt[1].sent
    BY <1>6, <1>a DEF AnalyzeStart, AnalyzeOffer
  <2>4. QED
    BY <1>2, <2>1, <2>2, <2>3, NothingNewKept DEF NothingNew
<1>7. ASSUME NEW best \in SUBSET an.kept, AnalyzeBill(e, best) PROVE NothingWritten'
  <2>1. /\ At(e, "analyze")  /\ an.phase = "offers"
        /\ row' = row  /\ edit' = edit  /\ picked' = picked  /\ saved' = saved  /\ pc' = pc  /\ g' = g  /\ wk' = wk
        /\ an'.phase = "save" \/ charged' = charged
    BY <1>7 DEF AnalyzeBill, AtAnalyze
  <2>2. Drafting
    BY <2>1, AnalyzingAlone DEF Drafting
  <2>3. nxt'[1].sent = nxt[1].sent
    BY <1>7, <1>a DEF AnalyzeBill
  <2>4. QED
    BY <1>2, <2>1, <2>2, <2>3 DEF NothingWritten
(* A save, a pause and the route end the drafting.                           *)
<1>8. CASE AnalyzeSave(e) \/ AnalyzePause(e)
  <2>1. /\ At(e, "analyze")  /\ todo' = todo  /\ succ' = succ  /\ pc' = pc  /\ wk' = wk
    BY <1>8 DEF AnalyzeSave, AnalyzePause, AtAnalyze
  <2>2. an'.phase \in {"pause", "route"}
    BY <1>0, <1>8 DEF AnalyzeSave, AnalyzePause, AnalysisFails, NoAnalysis, Analysis
  <2>3. QED
    BY <1>3, <2>1, <2>2
<1>9. ASSUME NEW seen \in BOOLEAN, AnalyzeRoute(e, seen) PROVE NothingWritten'
  <2>1. At(e, "analyze") /\ an.phase = "route" /\ wk' = wk /\ pc' = pc
    BY <1>9 DEF AnalyzeRoute, AtAnalyze
  <2>2. /\ e = 1  /\ pc[1] = "running"  /\ "start" \notin todo[1]  /\ "analyze" \notin succ[1]
        /\ ~Scouting(1)
    BY <2>1, AnalyzingAlone
  <2>3. /\ todo'[1] = todo[1] \ {"analyze"}
        /\ succ'[1] = succ[1] \cup RouteReview(1, seen)
    <3>1. todo \in [Runs -> SUBSET Nodes] /\ succ \in [Runs -> SUBSET Nodes]
      BY DEF TypeOK
    <3>2. QED
      BY <1>9, <2>2, <3>1 DEF AnalyzeRoute, Leave
  <2>4. "analyze" \notin RouteReview(1, seen)
    BY DEF RouteReview
  <2>5. ~Scouting(1)'
    BY <2>1, <2>2 DEF Scouting
  <2>6. QED
    BY <2>1, <2>2, <2>3, <2>4, <2>5 DEF Drafting
<1>10. ASSUME (\E seen \in BOOLEAN : PrepareSubmit(e, seen))
              \/ (\E quota \in 0..DailyLimit, first \in Boards : DispatchSubmit(e, quota, first))
              \/ CompletionNotification(e) \/ StopNotification(e) \/ ErrorNotification(e)
       PROVE  NothingWritten'
  <2>1. /\ pc[e] = "running"  /\ an' = an
        /\ todo[e] \cap {"prepare_submit", "dispatch_submit", "completion_notification",
                         "stop_agent_notification", "error_notification"} # {}
    BY <1>10 DEF PrepareSubmit, DispatchSubmit, CompletionNotification, StopNotification,
                 ErrorNotification, At
  <2>2. Drafting /\ e = 1
    BY <1>1, <1>2, <2>1
  <2>3. QED
    BY <2>1, <2>2, DraftingAt, BoardNames
<1>11. CASE (\E seen \in BOOLEAN : FinalizeStart(e, seen)) \/ FinalizeSave(e) \/ FinalizeCleanup(e)
  <2>1. /\ pc[e] = "running"  /\ an' = an  /\ edit' = edit  /\ picked' = picked  /\ saved' = saved  /\ charged' = charged
        /\ pc' = pc  /\ g' = g  /\ wk' = wk
    BY <1>11 DEF FinalizeStart, FinalizeSave, FinalizeCleanup, At, history
  <2>2. NothingWritten /\ e = 1
    BY <1>1, <1>2, <2>1
  <2>3. nxt'[1].sent = nxt[1].sent
    BY <1>0, <1>11 DEF FinalizeStart, FinalizeSave, FinalizeCleanup, GraphState
  <2>4. \A o \in Offers : row'[o] = "none"
    <3>1. CASE row' = row
      BY <2>2, <3>1 DEF NothingWritten
    <3>2. CASE SetRows(ToRecord(e, fin[e].killed), "SUBMITTED")
      BY <2>2, <3>2 DEF SetRows, ToRecord, NothingWritten
    <3>3. CASE SetRows(Unsubmitted, "none")
      BY <2>2, <3>3 DEF SetRows, NothingWritten
    <3>4. QED
      BY <1>11, <3>1, <3>2, <3>3 DEF FinalizeStart, FinalizeSave, FinalizeCleanup
  <2>5. QED
    BY <2>1, <2>2, <2>3, <2>4 DEF NothingWritten
<1>12. QED
  BY <1>4, <1>5, <1>6, <1>7, <1>8, <1>9, <1>10, <1>11 DEF Master

LEMMA FreshStep == ASSUME TypeOK, Control, Fresh, Next PROVE Fresh'
BY FreshOutside, FreshBoot, FreshWorker, FreshMaster DEF Next, Execution

(* What is billed is what is saved, and once.                                *)
LEMMA BilledStep == ASSUME TypeOK, Control, Fresh, Billed, Next PROVE Billed'
<1>0. /\ credits \in Nat  /\ charged \in Nat  /\ faults \in Nat  /\ an \in Analysis
      /\ StartCredits \in Nat  /\ DailyLimit \in Nat
  BY LimitsAssumption DEF TypeOK
<1>1. ASSUME credits' = credits \/ credits' = credits - 1, charged' = charged, saved' = saved,
             an'.phase = "save" => an' = an,
             faults' = faults \/ faults' > 0,
             an.phase = "save" => an'.phase = "save" \/ faults' > 0
      PROVE  Billed'
  BY <1>0, <1>1 DEF Billed
<1>2. ASSUME Fault PROVE faults' > 0
  BY <1>0, <1>2 DEF Fault
<1>3. ASSUME NEW seen, IsKilled(seen) PROVE faults' = faults \/ faults' > 0
  BY <1>2, <1>3 DEF IsKilled
<1>4. CASE User \/ Around
  <2>1. /\ charged' = charged  /\ saved' = saved  /\ an' = an  /\ faults' = faults
        /\ credits' = credits \/ credits' = credits - 1
    BY <1>4 DEF User, Around, StartPrepare, ResumeRead, ResumePrepare, Kill, RequestShutdown, EditRead,
                EditWrite, HeartbeatGoesStale, ElsewhereApplies, ElsewhereBills, execVars,
                history, dbVars
  <2>2. QED
    BY <1>1, <2>1
<1>5. ASSUME NEW e \in Runs, Boot(e) PROVE Billed'
  <2>1. /\ charged' = charged  /\ saved' = saved  /\ an' = an  /\ faults' = faults /\ credits' = credits
    BY <1>5 DEF Boot, BootStart, BootResume, dbVars, history
  <2>2. QED
    BY <1>1, <2>1
<1>6. ASSUME NEW e \in Runs, Crash(e) PROVE Billed'
  <2>1. /\ charged' = charged  /\ saved' = saved  /\ credits' = credits
        /\ an' = NoAnalysis \/ an' = an
        /\ faults' > 0
    BY <1>2, <1>6 DEF Crash, dbVars, history
  <2>2. QED
    BY <1>1, <2>1 DEF NoAnalysis
<1>7. ASSUME NEW e \in Runs, NEW b \in Boards, Worker(e, b) PROVE Billed'
  <2>1. /\ charged' = charged  /\ saved' = saved  /\ an' = an /\ credits' = credits
        /\ faults' = faults \/ faults' > 0
    BY <1>3, <1>7 DEF Worker, WorkerScrape, WorkerBoot, WorkerCheck, WorkerSend, dbVars
  <2>2. QED
    BY <1>1, <2>1
<1>8. ASSUME NEW e \in Runs, Master(e) PROVE Billed'
  <2>1. CASE NextSuperstep(e)
    BY <1>1, <2>1 DEF NextSuperstep, dbVars, history
  <2>2. ASSUME NEW seen \in BOOLEAN, NEW active \in SUBSET Boards, DispatchScrape(e, seen, active)
        PROVE  Billed'
    BY <1>1, <1>3, <2>2 DEF DispatchScrape
  <2>3. CASE AnalyzeStart(e)
    <3>1. /\ charged' = charged  /\ saved' = saved  /\ credits' = credits  /\ faults' = faults
          /\ an.phase = "idle"
      BY <2>3 DEF AnalyzeStart, AtAnalyze, history
    <3>2. an'.phase # "save"
      BY <1>0, <2>3 DEF AnalyzeStart, AnalysisFails, NoAnalysis, Analysis
    <3>3. QED
      BY <1>1, <3>1, <3>2
  <2>4. ASSUME NEW o \in Offers, NEW seen \in BOOLEAN, NEW ok \in BOOLEAN,
               AnalyzeOffer(e, o, seen, ok)
        PROVE  Billed'
    <3>1. /\ charged' = charged  /\ saved' = saved  /\ credits' = credits
          /\ faults' = faults \/ faults' > 0
          /\ an.phase = "offers"
      BY <1>3, <2>4 DEF AnalyzeOffer, AtAnalyze
    <3>2. an'.phase # "save"
      BY <1>0, <2>4, <3>1 DEF AnalyzeOffer, Analysis
    <3>3. QED
      BY <1>1, <3>1, <3>2
  <2>5. ASSUME NEW best \in SUBSET an.kept, AnalyzeBill(e, best) PROVE Billed'
    <3>1. Drafting /\ an.phase = "offers"
      BY <2>5, AnalyzingAlone DEF AnalyzeBill, AtAnalyze, Drafting
    <3>2. charged = 0 /\ saved = {}
      BY <3>1 DEF Fresh, NothingWritten
    <3>3. saved' = saved
      BY <2>5 DEF AnalyzeBill
    <3>4. CASE credits' = credits /\ charged' = charged /\ AnalysisFails(e)
      <4>1. an'.phase = "route"
        BY <3>4 DEF AnalysisFails, NoAnalysis
      <4>2. faults' = faults \/ faults' > 0
        BY <1>2, <2>5 DEF AnalyzeBill
      <4>3. QED
        BY <1>1, <3>1, <3>3, <3>4, <4>1, <4>2
    <3>5. CASE /\ Affordable(Fee(best))  /\ credits' = credits - Fee(best)
               /\ charged' = charged + Fee(best)
               /\ an' = [phase |-> "save", left |-> {}, kept |-> best]
      <4>1. IsFiniteSet(an.kept) /\ IsFiniteSet(best)
        <5>1. an.kept \subseteq Offers
          BY <1>0 DEF Analysis
        <5>2. QED
          BY <5>1, OffersAssumption, FS_Subset
      <4>2. Cardinality(best) \in Nat /\ Cardinality(an.kept) \in Nat
        BY <4>1, FS_CardinalityType
      <4>3. Cardinality(best) <= DailyLimit
        BY <1>0, <2>5, <4>2 DEF AnalyzeBill, Lesser
      <4>4. Fee(best) = Cardinality(best)
        BY DEF Fee
      <4>5. charged' = Cardinality(best) /\ credits' = credits - Cardinality(best)
            /\ Cardinality(best) <= credits
        BY <1>0, <3>2, <3>5, <4>2, <4>4 DEF Affordable
      <4>6. an'.phase = "save" /\ an'.kept = best
        BY <3>5
      <4>7. QED
        BY <1>0, <4>2, <4>3, <4>5, <4>6 DEF Billed
    <3>6. QED
      BY <2>5, <3>4, <3>5 DEF AnalyzeBill
  <2>6. CASE AnalyzeSave(e)
    <3>1. an.phase = "save" /\ credits' = credits /\ charged' = charged
      BY <2>6 DEF AnalyzeSave, AtAnalyze
    <3>2. CASE Fault /\ AnalysisFails(e) /\ saved' = saved
      BY <1>1, <1>2, <3>1, <3>2 DEF AnalysisFails, NoAnalysis
    <3>3. CASE saved' = an.kept
      <4>1. charged' = Cardinality(saved')
        BY <3>1, <3>3 DEF Billed
      <4>2. an'.phase # "save"
        BY <1>0, <2>6 DEF AnalyzeSave, AnalysisFails, NoAnalysis, Analysis
      <4>3. QED
        BY <3>1, <4>1, <4>2 DEF Billed
    <3>4. QED
      BY <2>6, <3>2, <3>3 DEF AnalyzeSave
  <2>7. CASE AnalyzePause(e)
    <3>1. /\ charged' = charged  /\ saved' = saved  /\ credits' = credits
          /\ faults' = faults \/ faults' > 0
          /\ an.phase = "pause"  /\ an'.phase = "route"
      BY <1>2, <2>7 DEF AnalyzePause, AtAnalyze, history, NoAnalysis
    <3>2. QED
      BY <1>1, <3>1
  <2>8. ASSUME NEW seen \in BOOLEAN, AnalyzeRoute(e, seen) PROVE Billed'
    <3>1. /\ charged' = charged  /\ saved' = saved  /\ credits' = credits
          /\ faults' = faults \/ faults' > 0
          /\ an.phase = "route"  /\ an'.phase = "idle"
      BY <1>3, <2>8 DEF AnalyzeRoute, AtAnalyze, dbVars, NoAnalysis
    <3>2. QED
      BY <1>1, <3>1
  <2>9. ASSUME NEW seen \in BOOLEAN, PrepareSubmit(e, seen) PROVE Billed'
    BY <1>1, <1>3, <2>9 DEF PrepareSubmit
  <2>10. ASSUME NEW quota \in 0..DailyLimit, NEW first \in Boards, DispatchSubmit(e, quota, first)
         PROVE  Billed'
    BY <1>1, <1>2, <2>10 DEF DispatchSubmit, Remaining, dbVars, history
  <2>11. ASSUME NEW seen \in BOOLEAN, FinalizeStart(e, seen) PROVE Billed'
    BY <1>1, <1>3, <2>11 DEF FinalizeStart
  <2>12. CASE FinalizeSave(e)
    BY <1>1, <1>2, <2>12 DEF FinalizeSave, history
  <2>13. CASE FinalizeCleanup(e)
    BY <1>1, <1>2, <2>13 DEF FinalizeCleanup, history
  <2>14. CASE CompletionNotification(e) \/ StopNotification(e) \/ ErrorNotification(e)
    <3>1. /\ charged' = charged  /\ saved' = saved  /\ credits' = credits  /\ an' = an
          /\ faults' = faults \/ faults' > 0
      BY <1>2, <2>14 DEF CompletionNotification, StopNotification, ErrorNotification, dbVars, history
    <3>2. QED
      BY <1>1, <3>1
  <2>15. QED
    BY <1>8, <2>1, <2>2, <2>3, <2>4, <2>5, <2>6, <2>7, <2>8, <2>9, <2>10, <2>11, <2>12, <2>13,
       <2>14 DEF Master
<1>9. QED
  BY <1>4, <1>5, <1>6, <1>7, <1>8 DEF Next, Execution

DraftInv == Control /\ Fresh /\ Billed

LEMMA InitDrafts == Init => DraftInv
<1> SUFFICES ASSUME Init PROVE DraftInv
  OBVIOUS
<1>1. \A r \in Runs : /\ pc[r] = "idle"  /\ todo[r] = {}  /\ succ[r] = {}
                      /\ \A b \in Boards : wk[r][b].phase = "idle"
                      /\ g[r].sent = {}  /\ nxt[r].sent = {}
  BY DEF Init, IdleWorker, EmptyState
<1>2. an.phase = "idle"
  BY DEF Init, NoAnalysis
<1>3. Control
  BY <1>1, <1>2, FirstRun DEF Control, Unstarted, OnlyFirst, Staged, Scouting
<1>4. Fresh
  BY <1>1, FirstRun DEF Init, Fresh, NothingWritten, Submitting
<1>5. Billed
  BY <1>2, LimitsAssumption, FS_EmptySet DEF Init, Billed
<1>6. QED
  BY <1>3, <1>4, <1>5 DEF DraftInv

(* No second analysis ever runs, and the one that does finds nothing written. *)
THEOREM DraftedOnce == Spec => []DraftInv
<1>1. TypeOK /\ DraftInv /\ [Next]_vars => DraftInv'
  <2>1. ASSUME TypeOK, DraftInv, Next PROVE DraftInv'
    BY <2>1, ControlStep, FreshStep, BilledStep DEF DraftInv
  <2>2. ASSUME DraftInv, UNCHANGED vars PROVE DraftInv'
    <3>1. Control'
      BY <2>2 DEF DraftInv, Control, Unstarted, OnlyFirst, Staged, Scouting, vars, dbVars, execVars
    <3>2. Fresh'
      BY <2>2 DEF DraftInv, Fresh, Drafting, NothingWritten, Scouting, vars, dbVars, execVars, history
    <3>3. Billed'
      BY <2>2 DEF DraftInv, Billed, vars, dbVars, execVars, history
    <3>4. QED
      BY <3>1, <3>2, <3>3 DEF DraftInv
  <2>3. QED
    BY <2>1, <2>2
<1>2. QED
  BY TypeCorrect, InitDrafts, <1>1, PTL DEF Spec

(* The user is charged for the drafts that are saved and for no other.       *)
THEOREM ChargedForWhatIsSaved == Spec => []ChargedForDrafts
<1>1. TypeOK /\ DraftInv => ChargedForDrafts
  BY LimitsAssumption DEF TypeOK, DraftInv, Billed, ChargedForDrafts, Lesser
<1>2. QED
  BY TypeCorrect, DraftedOnce, <1>1, PTL

(* A recorded application is taken back by nothing but a review, or an       *)
(* "apply all", that had read the offer before it was recorded.              *)
TakenBack(o) ==
    \/ edit.offer = o /\ edit' = NoEdit
    \/ \E e \in Runs : o \in picked[e] /\ picked'[e] = {}

LEMMA SubmittedStays ==
    ASSUME TypeOK, DraftInv, Next, NEW o \in Offers, row[o] = "SUBMITTED", row'[o] # "SUBMITTED"
    PROVE  TakenBack(o)
<1>0. row \in [Offers -> RowStatus]
  BY DEF TypeOK
<1>1. ASSUME NEW e \in Runs, NEW all \in BOOLEAN, ResumePrepare(e, all) PROVE TakenBack(o)
  <2>1. CASE all
    <3>1. o \in picked[e]
      BY <1>0, <1>1, <2>1 DEF ResumePrepare, SetRows
    <3>2. picked'[e] = {}
      BY <1>1, <2>1 DEF ResumePrepare, TypeOK
    <3>3. QED
      BY <3>1, <3>2 DEF TakenBack
  <2>2. CASE ~all
    BY <1>1, <2>2 DEF ResumePrepare
  <2>3. QED
    BY <2>1, <2>2
<1>2. ASSUME EditWrite PROVE TakenBack(o)
  BY <1>0, <1>2 DEF EditWrite, TakenBack
<1>3. ASSUME NEW e \in Runs, AnalyzeSave(e) PROVE FALSE
  <2>1. Drafting
    BY <1>3, AnalyzingAlone DEF AnalyzeSave, AtAnalyze, Drafting, DraftInv
  <2>2. QED
    BY <2>1 DEF DraftInv, Fresh, NothingWritten
<1>4. ASSUME NEW e \in Runs, FinalizeSave(e) \/ FinalizeCleanup(e) PROVE FALSE
  BY <1>0, <1>4 DEF FinalizeSave, FinalizeCleanup, SetRows, Unsubmitted, RowsIn
<1>5. CASE User \/ Around
  <2>1. CASE StartPrepare \/ Kill \/ RequestShutdown \/ Around
    BY <2>1 DEF StartPrepare, Kill, RequestShutdown, Around, HeartbeatGoesStale, ElsewhereApplies,
                ElsewhereBills
  <2>2. ASSUME NEW op \in EditOp, NEW p \in Offers, EditRead(op, p) PROVE FALSE
    BY <2>2 DEF EditRead, dbVars
  <2>3. ASSUME NEW e \in Runs, ResumeRead(e) PROVE FALSE
    BY <2>3 DEF ResumeRead, dbVars
  <2>4. QED
    BY <1>1, <1>2, <1>5, <2>1, <2>2, <2>3 DEF User
<1>6. ASSUME NEW e \in Runs, Boot(e) \/ Crash(e) PROVE FALSE
  BY <1>6 DEF Boot, BootStart, BootResume, Crash, dbVars
<1>7. ASSUME NEW e \in Runs, NEW b \in Boards, Worker(e, b) PROVE FALSE
  BY <1>7 DEF Worker, WorkerScrape, WorkerBoot, WorkerCheck, WorkerSend, dbVars
<1>8. ASSUME NEW e \in Runs, Master(e) PROVE FALSE
  <2>1. CASE \/ NextSuperstep(e) \/ AnalyzeStart(e) \/ AnalyzePause(e)
             \/ CompletionNotification(e) \/ StopNotification(e) \/ ErrorNotification(e)
    BY <2>1 DEF NextSuperstep, AnalyzeStart, AnalyzePause, CompletionNotification,
                StopNotification, ErrorNotification, dbVars
  <2>2. ASSUME NEW seen \in BOOLEAN, NEW active \in SUBSET Boards, DispatchScrape(e, seen, active)
        PROVE  FALSE
    BY <2>2 DEF DispatchScrape
  <2>3. ASSUME NEW p \in Offers, NEW seen \in BOOLEAN, NEW ok \in BOOLEAN,
               AnalyzeOffer(e, p, seen, ok)
        PROVE  FALSE
    BY <2>3 DEF AnalyzeOffer
  <2>4. ASSUME NEW best \in SUBSET an.kept, AnalyzeBill(e, best) PROVE FALSE
    BY <2>4 DEF AnalyzeBill
  <2>5. ASSUME NEW seen \in BOOLEAN,
               AnalyzeRoute(e, seen) \/ PrepareSubmit(e, seen) \/ FinalizeStart(e, seen)
        PROVE  FALSE
    BY <2>5 DEF AnalyzeRoute, PrepareSubmit, FinalizeStart, dbVars
  <2>6. ASSUME NEW quota \in 0..DailyLimit, NEW first \in Boards, DispatchSubmit(e, quota, first)
        PROVE  FALSE
    BY <2>6 DEF DispatchSubmit, dbVars
  <2>7. QED
    BY <1>3, <1>4, <1>8, <2>1, <2>2, <2>3, <2>4, <2>5, <2>6 DEF Master
<1>9. QED
  BY <1>5, <1>6, <1>7, <1>8 DEF Next, Execution

THEOREM RecordedIsFinal == Spec => SubmittedIsFinal
<1>1. TypeOK /\ DraftInv /\ [Next]_vars =>
        [\A o \in Offers : row[o] = "SUBMITTED" /\ row'[o] # "SUBMITTED"
              => TakenBack(o)]_vars
  BY SubmittedStays
<1>2. QED
  BY TypeCorrect, DraftedOnce, <1>1, PTL DEF Spec, SubmittedIsFinal, TakenBack

(***************************************************************************)
(* Without a failed call, usage counts each execution once at most: the    *)
(* completion is announced alone, so the execution that announces it has   *)
(* no other node left that could lead there again.                         *)
(***************************************************************************)
LoneAlone ==
    \A e \in Runs : \A x \in Lone :
        /\ x \in todo[e] => todo[e] = {x} /\ succ[e] = {}
        /\ x \in succ[e] => succ[e] = {x} /\ todo[e] = {}

BoardsApart ==
    \A e \in Runs :
        /\ \A b \in Boards : b \in succ[e] => succ[e] \subseteq Boards /\ todo[e] = {}
        /\ \A b \in Boards : wk[e][b].phase \in Submitting =>
              \/ b \in todo[e] /\ todo[e] \subseteq Boards /\ succ[e] \subseteq {"finalize"}
              \/ b \in succ[e]
        /\ Scouting(e) => \A b \in Boards : wk[e][b].phase \notin Submitting

Analyzing ==
    /\ "analyze" \in todo[1] => shutdown \/ (todo[1] = {"analyze"} /\ succ[1] = {})
    /\ "analyze" \in succ[1] => shutdown \/ succ[1] = {"analyze"}

Finalizes ==
    \A e \in Runs :
        /\ fin[e].phase # "idle" => "finalize" \in todo[e]
        /\ "finalize" \in todo[e] =>
             \/ shutdown /\ (fin[e].phase # "idle" => fin[e].killed)
             \/ todo[e] = {"finalize"} /\ succ[e] = {}
        /\ "finalize" \in succ[e] =>
             \/ shutdown
             \/ succ[e] = {"finalize"} /\ todo[e] \subseteq Boards /\ ~Scouting(e)

Over == {e \in Runs : pc[e] \notin {"idle", "dispatched"} /\ todo[e] = {} /\ succ[e] = {}}

Routed == LoneAlone /\ BoardsApart /\ Analyzing /\ Finalizes

UsageInv == faults = 0 => Routed /\ usage <= Cardinality(Over)

LEMMA RoutedStays ==
    ASSUME Routed, Stays, faults' = 0 PROVE Routed'
<1>1. \A r \in Runs : todo'[r] = todo[r] /\ succ'[r] = succ[r]
  BY DEF Stays, Still
<1>2. \A r \in Runs, b \in Boards :
        /\ wk'[r][b].phase = "scrape" <=> wk[r][b].phase = "scrape"
        /\ wk'[r][b].phase \in Submitting <=> wk[r][b].phase \in Submitting
  BY DEF Stays, Still, PhasesBut
<1>3. \A r \in Runs : Scouting(r)' <=> Scouting(r)
  BY <1>2 DEF Scouting
<1>4. LoneAlone'
  BY <1>1 DEF Routed, LoneAlone
<1>5. BoardsApart'
  BY <1>1, <1>2, <1>3 DEF Routed, BoardsApart
<1>6. Analyzing'
  BY <1>1, FirstRun DEF Routed, Analyzing, Stays
<1>7. Finalizes'
  <2> SUFFICES ASSUME NEW e \in Runs
               PROVE  /\ fin'[e].phase # "idle" => "finalize" \in todo'[e]
                      /\ "finalize" \in todo'[e] =>
                           \/ shutdown' /\ (fin'[e].phase # "idle" => fin'[e].killed)
                           \/ todo'[e] = {"finalize"} /\ succ'[e] = {}
                      /\ "finalize" \in succ'[e] =>
                           \/ shutdown'
                           \/ succ'[e] = {"finalize"} /\ todo'[e] \subseteq Boards /\ ~Scouting(e)'
    BY DEF Finalizes
  <2>1. /\ fin[e].phase # "idle" => "finalize" \in todo[e]
        /\ "finalize" \in todo[e] =>
             \/ shutdown /\ (fin[e].phase # "idle" => fin[e].killed)
             \/ todo[e] = {"finalize"} /\ succ[e] = {}
        /\ "finalize" \in succ[e] =>
             \/ shutdown
             \/ succ[e] = {"finalize"} /\ todo[e] \subseteq Boards /\ ~Scouting(e)
    BY DEF Routed, Finalizes
  <2>2. /\ shutdown => shutdown'
        /\ \/ fin'[e].killed = fin[e].killed /\ (fin'[e].phase = "idle" <=> fin[e].phase = "idle")
           \/ /\ "finalize" \in todo[e]  /\ fin'[e].phase # "idle"
              /\ fin'[e].killed <=> shutdown
    BY DEF Stays
  <2>3. QED
    BY <1>1, <1>3, <2>1, <2>2
<1>8. QED
  BY <1>4, <1>5, <1>6, <1>7 DEF Routed

LEMMA RoutedMoves ==
    ASSUME Control, Routed, NEW e \in Runs, NEW n, NEW next, Moves(e, n, next), faults' = 0
    PROVE  Routed'
<1>1. /\ todo'[e] = todo[e] \ {n}  /\ succ'[e] = succ[e] \cup next  /\ n \in todo[e]
      /\ \A r \in Runs : r # e => todo'[r] = todo[r] /\ succ'[r] = succ[r]
      /\ shutdown' = shutdown
      /\ "start" \notin next  /\ next \cap Boards = {}
      /\ "analyze" \in next => n \in Boards
      /\ "finalize" \in next => next = {"finalize"} /\ n \in Boards \cup {"analyze"}
      /\ Told(e, n, next)
  BY DEF Moves, Hop, Elsewhere
<1>2. /\ \A r \in Runs, b \in Boards : r # e \/ b # n =>
            /\ wk'[r][b].phase = "scrape" <=> wk[r][b].phase = "scrape"
            /\ wk'[r][b].phase \in Submitting <=> wk[r][b].phase \in Submitting
      /\ n \in Boards => /\ wk[e][n].phase \in Submitting \cup {"scrape"}
                         /\ wk'[e][n].phase = "done"
                         /\ next = {"finalize"} \/ (next = {"analyze"} /\ wk[e][n].phase = "scrape")
  BY DEF Moves, Hop, PhasesBut
<1>3. \A r \in Runs : Scouting(r)' => Scouting(r)
  BY <1>2 DEF Scouting
<1>4. \A r \in Runs, b \in Boards : wk'[r][b].phase \in Submitting =>
          wk[r][b].phase \in Submitting /\ (r # e \/ b # n)
  BY <1>2 DEF Submitting
<1>5. \A r \in Runs : r # e => (Scouting(r)' <=> Scouting(r))
  BY <1>2 DEF Scouting
<1>6. ASSUME n \in Boards, wk[e][n].phase = "scrape" PROVE e = 1 /\ Scouting(e)
  BY <1>6 DEF Control, OnlyFirst, Scouting
<1>7. LoneAlone'
  <2> SUFFICES ASSUME NEW r \in Runs, NEW x \in Lone
               PROVE  /\ x \in todo'[r] => todo'[r] = {x} /\ succ'[r] = {}
                      /\ x \in succ'[r] => succ'[r] = {x} /\ todo'[r] = {}
    BY DEF LoneAlone
  <2>1. /\ x \in todo[r] => todo[r] = {x} /\ succ[r] = {}
        /\ x \in succ[r] => succ[r] = {x} /\ todo[r] = {}
    BY DEF Routed, LoneAlone
  <2>2. CASE r # e
    BY <1>1, <2>1, <2>2
  <2>3. CASE r = e
    <3>1. x \notin todo'[e]
      BY <1>1, <2>1, <2>3
    <3>2. x \notin succ[e]
      BY <1>1, <2>1, <2>3
    <3>3. ASSUME x \in next PROVE next = {x} /\ todo[e] = {n} /\ succ[e] = {}
      <4>1. /\ next = {x}
            /\ \/ n = "analyze" /\ ~shutdown
               \/ n = "finalize" /\ fin[e].phase # "idle" /\ ~fin[e].killed
        BY <1>1, <3>3 DEF Told
      <4>2. CASE n = "analyze" /\ ~shutdown
        <5>1. e = 1
          BY <1>1, <4>2 DEF Control, OnlyFirst
        <5>2. QED
          BY <1>1, <4>1, <4>2, <5>1 DEF Routed, Analyzing
      <4>3. CASE n = "finalize" /\ fin[e].phase # "idle" /\ ~fin[e].killed
        BY <1>1, <4>1, <4>3 DEF Routed, Finalizes
      <4>4. QED
        BY <4>1, <4>2, <4>3
    <3>4. QED
      BY <1>1, <2>3, <3>1, <3>2, <3>3
  <2>4. QED
    BY <2>2, <2>3
<1>8. BoardsApart'
  <2> SUFFICES ASSUME NEW r \in Runs
               PROVE  /\ \A b \in Boards : b \in succ'[r] => succ'[r] \subseteq Boards /\ todo'[r] = {}
                      /\ \A b \in Boards : wk'[r][b].phase \in Submitting =>
                            \/ /\ b \in todo'[r]  /\ todo'[r] \subseteq Boards
                               /\ succ'[r] \subseteq {"finalize"}
                            \/ b \in succ'[r]
                      /\ Scouting(r)' => \A b \in Boards : wk'[r][b].phase \notin Submitting
    BY DEF BoardsApart
  <2>1. /\ \A b \in Boards : b \in succ[r] => succ[r] \subseteq Boards /\ todo[r] = {}
        /\ \A b \in Boards : wk[r][b].phase \in Submitting =>
              \/ b \in todo[r] /\ todo[r] \subseteq Boards /\ succ[r] \subseteq {"finalize"}
              \/ b \in succ[r]
        /\ Scouting(r) => \A b \in Boards : wk[r][b].phase \notin Submitting
    BY DEF Routed, BoardsApart
  <2>2. CASE r # e
    BY <1>1, <1>4, <1>5, <2>1, <2>2
  <2>3. CASE r = e
    <3>1. \A b \in Boards : b \notin succ'[e]
      BY <1>1, <2>1, <2>3
    <3>2. ASSUME NEW b \in Boards, wk'[e][b].phase \in Submitting
          PROVE  b \in todo'[e] /\ todo'[e] \subseteq Boards /\ succ'[e] \subseteq {"finalize"}
      <4>1. wk[e][b].phase \in Submitting /\ b # n
        BY <1>4, <3>2
      <4>2. b \in todo[e] /\ todo[e] \subseteq Boards /\ succ[e] \subseteq {"finalize"}
        BY <1>1, <2>1, <2>3, <4>1
      <4>3. n \in Boards /\ wk[e][n].phase # "scrape"
        BY <1>1, <2>1, <2>3, <4>1, <4>2 DEF Scouting
      <4>4. next = {"finalize"}
        BY <1>2, <4>3
      <4>5. QED
        BY <1>1, <4>1, <4>2, <4>4
    <3>3. Scouting(e)' => \A b \in Boards : wk'[e][b].phase \notin Submitting
      BY <1>3, <1>4, <2>1, <2>3
    <3>4. QED
      BY <2>3, <3>1, <3>2, <3>3
  <2>4. QED
    BY <2>2, <2>3
<1>9. Analyzing'
  <2>1. CASE e # 1
    BY <1>1, <2>1, FirstRun DEF Routed, Analyzing
  <2>2. CASE e = 1
    <3>1. "analyze" \in todo'[1] => shutdown
      BY <1>1, <2>2 DEF Routed, Analyzing
    <3>2. ASSUME "analyze" \in succ'[1], ~shutdown PROVE succ'[1] = {"analyze"}
      <4>1. CASE "analyze" \in next
        <5>1. n \in Boards /\ wk[1][n].phase = "scrape" /\ next = {"analyze"} /\ Scouting(1)
          BY <1>1, <1>2, <1>6, <2>2, <4>1
        <5>2. succ[1] \subseteq {"analyze", "finalize"}
          BY <1>1, <2>2, <5>1, FirstRun DEF Control, Staged
        <5>3. "finalize" \notin succ[1]
          BY <3>2, <5>1, FirstRun DEF Routed, Finalizes
        <5>4. QED
          BY <1>1, <2>2, <5>1, <5>2, <5>3
      <4>2. CASE "analyze" \notin next
        <5>1. "analyze" \in succ[1] /\ succ[1] = {"analyze"}
          BY <1>1, <2>2, <3>2, <4>2 DEF Routed, Analyzing
        <5>2. todo[1] \subseteq Boards
          BY <5>1 DEF Control, Staged
        <5>3. n \in Boards /\ next = {"finalize"}
          BY <1>1, <1>2, <2>2, <4>2, <5>2
        <5>4. wk[1][n].phase \in Submitting
          BY <1>1, <1>2, <2>2, <3>2, <5>3 DEF Told
        <5>5. FALSE
          BY <1>1, <2>2, <5>1, <5>3, <5>4, FirstRun, BoardNames DEF Routed, BoardsApart
        <5>6. QED
          BY <5>5
      <4>3. QED
        BY <4>1, <4>2
    <3>3. QED
      BY <1>1, <3>1, <3>2 DEF Analyzing
  <2>3. QED
    BY <2>1, <2>2
<1>10. Finalizes'
  <2> SUFFICES ASSUME NEW r \in Runs
               PROVE  /\ fin'[r].phase # "idle" => "finalize" \in todo'[r]
                      /\ "finalize" \in todo'[r] =>
                           \/ shutdown' /\ (fin'[r].phase # "idle" => fin'[r].killed)
                           \/ todo'[r] = {"finalize"} /\ succ'[r] = {}
                      /\ "finalize" \in succ'[r] =>
                           \/ shutdown'
                           \/ succ'[r] = {"finalize"} /\ todo'[r] \subseteq Boards /\ ~Scouting(r)'
    BY DEF Finalizes
  <2>1. /\ fin[r].phase # "idle" => "finalize" \in todo[r]
        /\ "finalize" \in todo[r] =>
             \/ shutdown /\ (fin[r].phase # "idle" => fin[r].killed)
             \/ todo[r] = {"finalize"} /\ succ[r] = {}
        /\ "finalize" \in succ[r] =>
             \/ shutdown
             \/ succ[r] = {"finalize"} /\ todo[r] \subseteq Boards /\ ~Scouting(r)
    BY DEF Routed, Finalizes
  <2>2. /\ r # e \/ n # "finalize" => fin'[r] = fin[r]
        /\ r = e /\ n = "finalize" => fin'[r].phase = "idle"
    BY DEF Moves
  <2>3. CASE r # e
    BY <1>1, <1>5, <2>1, <2>2, <2>3
  <2>4. CASE r = e
    <3>1. fin'[e].phase # "idle" => "finalize" \in todo'[e]
      BY <1>1, <2>1, <2>2, <2>4
    <3>2. "finalize" \in todo'[e] => shutdown /\ (fin'[e].phase # "idle" => fin'[e].killed)
      BY <1>1, <2>1, <2>2, <2>4
    <3>3. ASSUME "finalize" \in succ'[e], ~shutdown
          PROVE  succ'[e] = {"finalize"} /\ todo'[e] \subseteq Boards /\ ~Scouting(e)'
      <4>1. CASE "finalize" \in succ[e]
        <5>1. succ[e] = {"finalize"} /\ todo[e] \subseteq Boards /\ ~Scouting(e)
          BY <2>1, <2>4, <3>3, <4>1
        <5>2. n \in Boards /\ wk[e][n].phase # "scrape"
          BY <1>1, <5>1 DEF Scouting
        <5>3. next = {"finalize"}
          BY <1>2, <5>2
        <5>4. QED
          BY <1>1, <1>3, <5>1, <5>3
      <4>2. CASE "finalize" \notin succ[e] /\ n = "analyze"
        <5>1. e = 1
          BY <1>1, <4>2 DEF Control, OnlyFirst
        <5>2. todo[1] = {"analyze"} /\ succ[1] = {} /\ ~Scouting(1)
          <6>1. todo[1] = {"analyze"} /\ succ[1] = {}
            BY <1>1, <3>3, <4>2, <5>1 DEF Routed, Analyzing
          <6>2. QED
            BY <6>1, BoardNames DEF Control, Staged, Scouting
        <5>3. "finalize" \in next
          BY <1>1, <3>3, <4>2
        <5>4. next = {"finalize"}
          BY <1>1, <5>3
        <5>5. QED
          BY <1>1, <1>3, <4>2, <5>1, <5>2, <5>4
      <4>3. CASE "finalize" \notin succ[e] /\ n # "analyze"
        <5>1. n \in Boards /\ next = {"finalize"}
          BY <1>1, <1>2, <3>3, <4>3
        <5>2. wk[e][n].phase \in Submitting
          BY <1>1, <1>2, <3>3, <5>1 DEF Told
        <5>3. ~Scouting(e) /\ todo[e] \subseteq Boards /\ succ[e] \subseteq {"finalize"}
          BY <1>1, <5>1, <5>2 DEF Routed, BoardsApart
        <5>4. QED
          BY <1>1, <1>3, <5>1, <5>3
      <4>4. QED
        BY <4>1, <4>2, <4>3
    <3>4. QED
      BY <1>1, <2>4, <3>1, <3>2, <3>3
  <2>5. QED
    BY <2>3, <2>4
<1>11. QED
  BY <1>7, <1>8, <1>9, <1>10 DEF Routed

LEMMA RoutedSend ==
    ASSUME Control, Routed, NEW e \in Runs, Send(e) PROVE Routed'
<1>1. PICK n \in {"start", "dispatch_submit"}, B \in SUBSET Boards, phase \in {"scrape", "boot"} :
        /\ Sends(e, n, B, phase)
        /\ n = "start" <=> phase = "scrape"
  BY DEF Send, Sends
<1>2. todo[e] = {n} /\ succ[e] = {}
  BY <1>1 DEF Routed, LoneAlone, Lone, Sends
<1>3. /\ todo'[e] = {}  /\ succ'[e] = B
      /\ \A r \in Runs : r # e => todo'[r] = todo[r] /\ succ'[r] = succ[r]
      /\ fin' = fin  /\ shutdown' = shutdown
  BY <1>1, <1>2 DEF Sends, Elsewhere, Send, Same
<1>4. /\ \A r \in Runs, b \in Boards : r # e \/ b \notin B =>
            /\ wk'[r][b].phase = "scrape" <=> wk[r][b].phase = "scrape"
            /\ wk'[r][b].phase \in Submitting <=> wk[r][b].phase \in Submitting
      /\ \A b \in B : wk'[e][b].phase = phase
  BY <1>1 DEF Sends, PhasesBut
<1>5. \A r \in Runs : r # e => (Scouting(r)' <=> Scouting(r))
  BY <1>4 DEF Scouting
<1>6. /\ \A b \in Boards : wk[e][b].phase \notin Submitting
      /\ n = "start" \/ ~Scouting(e)
  <2>1. \A b \in Boards : wk[e][b].phase \notin Submitting
    BY <1>2, BoardNames DEF Routed, BoardsApart
  <2>2. ASSUME Scouting(e) PROVE n = "start"
    <3>1. e = 1
      BY <2>2 DEF Control, OnlyFirst
    <3>2. PICK b \in Boards : wk[1][b].phase = "scrape"
      BY <2>2, <3>1 DEF Scouting
    <3>3. QED
      BY <1>2, <3>1, <3>2, BoardNames DEF Control, Staged
  <2>3. QED
    BY <2>1, <2>2
<1>7. LoneAlone'
  <2>1. \A x \in Lone : x \notin B
    BY <1>1, BoardNames DEF Lone
  <2>2. QED
    BY <1>3, <2>1 DEF Routed, LoneAlone
<1>8. BoardsApart'
  <2>1. ASSUME NEW b \in Boards, wk'[e][b].phase \in Submitting PROVE b \in B /\ phase = "boot"
    BY <1>4, <1>6, <2>1, <1>1 DEF Submitting
  <2>2. ASSUME Scouting(e)', NEW b \in Boards PROVE wk'[e][b].phase \notin Submitting
    <3>1. phase = "scrape"
      BY <1>1, <1>4, <1>6, <2>2 DEF Scouting
    <3>2. QED
      BY <2>1, <3>1
  <2>3. QED
    BY <1>1, <1>3, <1>4, <1>5, <2>1, <2>2 DEF Routed, BoardsApart
<1>9. Analyzing'
  BY <1>1, <1>3, BoardNames, FirstRun DEF Routed, Analyzing
<1>10. Finalizes'
  <2>1. ASSUME NEW r \in Runs, r # e
        PROVE  /\ fin'[r].phase # "idle" => "finalize" \in todo'[r]
               /\ "finalize" \in todo'[r] =>
                    \/ shutdown' /\ (fin'[r].phase # "idle" => fin'[r].killed)
                    \/ todo'[r] = {"finalize"} /\ succ'[r] = {}
               /\ "finalize" \in succ'[r] =>
                    \/ shutdown'
                    \/ succ'[r] = {"finalize"} /\ todo'[r] \subseteq Boards /\ ~Scouting(r)'
    BY <1>3, <1>5, <2>1 DEF Routed, Finalizes
  <2>2. fin[e].phase = "idle" /\ "finalize" \notin todo'[e] /\ "finalize" \notin succ'[e]
    BY <1>1, <1>2, <1>3, BoardNames DEF Routed, Finalizes
  <2>3. QED
    BY <1>3, <2>1, <2>2 DEF Finalizes
<1>11. QED
  BY <1>7, <1>8, <1>9, <1>10 DEF Routed

LEMMA RoutedRoute ==
    ASSUME Routed, NEW e \in Runs, Route(e) PROVE Routed'
<1>1. /\ "prepare_submit" \in todo[e]  /\ succ'[e] = succ[e]
      /\ todo'[e] = (todo[e] \ {"prepare_submit"}) \cup {"dispatch_submit"}
      /\ \A r \in Runs : r # e => todo'[r] = todo[r] /\ succ'[r] = succ[r]
      /\ wk' = wk  /\ fin' = fin  /\ shutdown' = shutdown
  BY DEF Route, Routes, Elsewhere, Same
<1>2. todo[e] = {"prepare_submit"} /\ succ[e] = {}
  BY <1>1 DEF Routed, LoneAlone, Lone
<1>3. todo'[e] = {"dispatch_submit"} /\ succ'[e] = {}
  BY <1>1, <1>2
<1>4. \A r \in Runs : Scouting(r)' <=> Scouting(r)
  BY <1>1 DEF Scouting
<1>5. LoneAlone'
  BY <1>1, <1>3 DEF Routed, LoneAlone
<1>6. BoardsApart'
  <2>1. \A b \in Boards : wk[e][b].phase \notin Submitting
    BY <1>2, BoardNames DEF Routed, BoardsApart
  <2>2. QED
    BY <1>1, <1>3, <1>4, <2>1 DEF Routed, BoardsApart
<1>7. Analyzing'
  BY <1>1, <1>3, FirstRun DEF Routed, Analyzing
<1>8. Finalizes'
  <2>1. fin[e].phase = "idle"
    BY <1>2 DEF Routed, Finalizes
  <2>2. QED
    BY <1>1, <1>3, <1>4, <2>1 DEF Routed, Finalizes
<1>9. QED
  BY <1>5, <1>6, <1>7, <1>8 DEF Routed

LEMMA RoutedBarrier ==
    ASSUME Control, Routed, NEW e \in Runs, Barrier(e), Same, fin' = fin PROVE Routed'
<1>1. /\ todo[e] = {}  /\ succ'[e] = {}
      /\ \A r \in Runs : r # e => todo'[r] = todo[r] /\ succ'[r] = succ[r]
      /\ shutdown' = shutdown  /\ fin' = fin
      /\ \A r \in Runs, b \in Boards : r # e =>
            /\ wk'[r][b].phase = "scrape" <=> wk[r][b].phase = "scrape"
            /\ wk'[r][b].phase \in Submitting <=> wk[r][b].phase \in Submitting
      /\ \A b \in Boards : wk'[e][b].phase = IF b \in succ[e] THEN wk[e][b].phase ELSE "idle"
  BY DEF Barrier, Elsewhere, Same, PhasesBut
<1>2. todo'[e] = succ[e] \/ (todo'[e] = {} /\ \A b \in Boards : b \notin succ[e])
  <2>1. CASE "human_review" \in succ[e]
    <3>1. succ[e] = {"human_review"}
      BY <2>1 DEF Routed, LoneAlone, Lone
    <3>2. QED
      BY <3>1, BoardNames DEF Barrier
  <2>2. CASE "human_review" \notin succ[e]
    BY <2>2 DEF Barrier
  <2>3. QED
    BY <2>1, <2>2
<1>3. \A r \in Runs : r # e => (Scouting(r)' <=> Scouting(r))
  BY <1>1 DEF Scouting
<1>4. Scouting(e)' => Scouting(e)
  BY <1>1 DEF Scouting
<1>5. LoneAlone'
  BY <1>1, <1>2 DEF Routed, LoneAlone
<1>6. BoardsApart'
  <2>1. ASSUME NEW b \in Boards, wk'[e][b].phase \in Submitting
        PROVE  /\ b \in todo'[e] /\ todo'[e] \subseteq Boards
               /\ wk[e][b].phase \in Submitting
    <3>1. b \in succ[e] /\ wk[e][b].phase \in Submitting
      BY <1>1, <2>1 DEF Submitting
    <3>2. QED
      BY <1>2, <3>1 DEF Routed, BoardsApart
  <2>2. QED
    BY <1>1, <1>3, <1>4, <2>1 DEF Routed, BoardsApart
<1>7. Analyzing'
  BY <1>1, <1>2, FirstRun DEF Routed, Analyzing
<1>8. Finalizes'
  <2>1. ASSUME NEW r \in Runs, r # e
        PROVE  /\ fin'[r].phase # "idle" => "finalize" \in todo'[r]
               /\ "finalize" \in todo'[r] =>
                    \/ shutdown' /\ (fin'[r].phase # "idle" => fin'[r].killed)
                    \/ todo'[r] = {"finalize"} /\ succ'[r] = {}
               /\ "finalize" \in succ'[r] =>
                    \/ shutdown'
                    \/ succ'[r] = {"finalize"} /\ todo'[r] \subseteq Boards /\ ~Scouting(r)'
    BY <1>1, <1>3, <2>1 DEF Routed, Finalizes
  <2>2. fin[e].phase = "idle"
    BY <1>1 DEF Routed, Finalizes
  <2>3. "finalize" \in todo'[e] => shutdown \/ todo'[e] = {"finalize"}
    BY <1>1, <1>2 DEF Routed, Finalizes
  <2>4. QED
    BY <1>1, <2>1, <2>2, <2>3 DEF Finalizes
<1>9. QED
  BY <1>5, <1>6, <1>7, <1>8 DEF Routed

LEMMA RoutedBegins ==
    ASSUME TypeOK, Control, Routed,
           Dispatches \/ BootStart \/ (\E e \in Runs : BootResume(e))
    PROVE  Routed'
<1>1. wk' = wk /\ fin' = fin /\ succ' = succ
  BY DEF Dispatches, StartPrepare, ResumePrepare, BootStart, BootResume
<1>2. \A r \in Runs : Scouting(r)' <=> Scouting(r)
  BY <1>1 DEF Scouting
<1>3. CASE Dispatches
  <2>1. todo' = todo
    BY <1>3 DEF Dispatches, StartPrepare, ResumePrepare
  <2>2. shutdown' = shutdown \/ \A r \in Runs : todo[r] = {} /\ succ[r] = {}
    BY <1>3 DEF Dispatches, StartPrepare, ResumePrepare, Control, Unstarted
  <2>3. LoneAlone' /\ BoardsApart'
    BY <1>1, <1>2, <2>1 DEF Routed, LoneAlone, BoardsApart
  <2>4. Analyzing' /\ Finalizes'
    BY <1>1, <1>2, <2>1, <2>2, FirstRun DEF Routed, Analyzing, Finalizes
  <2>5. QED
    BY <2>3, <2>4 DEF Routed
<1>4. ASSUME NEW e \in Runs, (BootStart /\ e = 1) \/ BootResume(e) PROVE Routed'
  <2>1. /\ pc[e] = "dispatched"  /\ shutdown' = shutdown
        /\ todo' = [todo EXCEPT ![e] = {IF e = 1 THEN "start" ELSE "prepare_submit"}]
    BY <1>4 DEF BootStart, BootResume, dbVars
  <2>2. /\ todo'[e] = {IF e = 1 THEN "start" ELSE "prepare_submit"}
        /\ \A r \in Runs : r # e => todo'[r] = todo[r]
    BY <2>1 DEF TypeOK
  <2>3. todo[e] = {} /\ succ[e] = {} /\ ~Scouting(e)
    BY <2>1 DEF Control, Unstarted
  <2>4. LoneAlone'
    BY <1>1, <2>2, <2>3 DEF Routed, LoneAlone
  <2>5. BoardsApart'
    <3>1. \A b \in Boards : wk[e][b].phase \notin Submitting
      BY <2>3 DEF Routed, BoardsApart
    <3>2. QED
      BY <1>1, <1>2, <2>2, <2>3, <3>1 DEF Routed, BoardsApart
  <2>6. Analyzing'
    BY <1>1, <2>1, <2>2, FirstRun DEF Routed, Analyzing
  <2>7. Finalizes'
    <3>1. fin[e].phase = "idle"
      BY <2>3 DEF Routed, Finalizes
    <3>2. QED
      BY <1>1, <1>2, <2>1, <2>2, <2>3, <3>1 DEF Routed, Finalizes
  <2>8. QED
    BY <2>4, <2>5, <2>6, <2>7 DEF Routed
<1>5. QED
  BY <1>3, <1>4, FirstRun

(* An execution that is over stays over, and one that announces completion   *)
(* is over with it.                                                          *)
LEMMA OverFinite ==
    ASSUME NEW S \in SUBSET Runs PROVE IsFiniteSet(S) /\ Cardinality(S) \in Nat
<1>1. IsFiniteSet(Runs)
  BY LimitsAssumption, FS_Interval DEF Runs
<1>2. QED
  BY <1>1, FS_Subset, FS_CardinalityType

LEMMA OverGrows ==
    ASSUME usage \in Nat, usage' \in Nat, usage <= Cardinality(Over), Over \subseteq Over',
           usage' = usage \/ (usage' <= usage + 1 /\ Over' # Over)
    PROVE  usage' <= Cardinality(Over')
<1>1. Over \subseteq Runs /\ Over' \subseteq Runs
  BY DEF Over
<1>2. IsFiniteSet(Over') /\ Cardinality(Over) \in Nat /\ Cardinality(Over') \in Nat
  BY <1>1, OverFinite
<1>3. Cardinality(Over) <= Cardinality(Over')
  BY <1>2, FS_Subset
<1>4. Over' # Over => Cardinality(Over) < Cardinality(Over')
  BY <1>2, FS_Subset
<1>5. QED
  BY <1>2, <1>3, <1>4

LEMMA TypeStep ==
    ASSUME TypeOK, Next PROVE TypeOK'
BY StepTypeUser, StepTypeBoot, StepTypeWorker, StepTypeMaster DEF Next, Execution

(* What a node's return does to Over.                                        *)
LEMMA OverMoves ==
    ASSUME Control, Routed, NEW e \in Runs, NEW n, NEW next, Moves(e, n, next), faults' = 0
    PROVE  /\ Over \subseteq Over'
           /\ n = "completion_notification" => Over' # Over
<1>1. /\ pc[e] = "running"  /\ pc'[e] = "running"  /\ n \in todo[e]
      /\ todo'[e] = todo[e] \ {n}  /\ succ'[e] = succ[e] \cup next
      /\ \A r \in Runs : r # e => pc'[r] = pc[r] /\ todo'[r] = todo[r] /\ succ'[r] = succ[r]
  BY DEF Moves, Hop, Elsewhere
<1>2. Over \subseteq Over'
  BY <1>1 DEF Over
<1>3. ASSUME n = "completion_notification" PROVE e \in Over' /\ e \notin Over
  <2>1. todo[e] = {n} /\ succ[e] = {}
    BY <1>1, <1>3 DEF Routed, LoneAlone, Lone
  <2>2. next = {}
    BY <1>3 DEF Moves
  <2>3. QED
    BY <1>1, <2>1, <2>2 DEF Over
<1>4. QED
  BY <1>2, <1>3

LEMMA UsageStep ==
    ASSUME TypeOK, Control, UsageInv, Next PROVE UsageInv'
<1> SUFFICES ASSUME faults' = 0 PROVE Routed' /\ usage' <= Cardinality(Over')
  BY DEF UsageInv
<1>1. usage \in Nat /\ usage' \in Nat /\ faults \in Nat /\ faults' \in Nat
  <2>1. TypeOK'
    BY TypeStep
  <2>2. QED
    BY <2>1 DEF TypeOK
(* The families that leave usage alone and the ended executions ended.       *)
<1>a. ASSUME faults <= faults', usage' = usage,
             \A r \in Runs : /\ pc[r] \notin {"idle", "dispatched"} => pc'[r] \notin {"idle", "dispatched"}
                             /\ todo[r] = {} /\ succ[r] = {} /\ pc[r] \notin {"idle", "dispatched"}
                                    => todo'[r] = {} /\ succ'[r] = {},
             Routed => Routed'
      PROVE  Routed' /\ usage' <= Cardinality(Over')
  <2>1. faults = 0
    BY <1>1, <1>a
  <2>2. Routed /\ usage <= Cardinality(Over)
    BY <2>1 DEF UsageInv
  <2>3. QED
    <3>1. Over \subseteq Over'
      BY <1>a DEF Over
    <3>2. QED
      BY <1>1, <1>a, <2>2, <3>1, OverGrows
<1>b. ASSUME Stays PROVE Routed' /\ usage' <= Cardinality(Over')
  BY <1>a, <1>b, RoutedStays DEF Stays, Still
<1>c. ASSUME NEW e \in Runs, NEW n, NEW next, Moves(e, n, next)
      PROVE  Routed' /\ usage' <= Cardinality(Over')
  <2>1. faults = 0
    BY <1>1, <1>c DEF Moves
  <2>2. Routed /\ usage <= Cardinality(Over)
    BY <2>1 DEF UsageInv
  <2>3. Routed' /\ Over \subseteq Over' /\ (n = "completion_notification" => Over' # Over)
    BY <1>c, <2>2, RoutedMoves, OverMoves
  <2>4. usage' = usage \/ (n = "completion_notification" /\ usage' <= usage + 1)
    BY <1>c DEF Moves
  <2>5. QED
    BY <1>1, <2>2, <2>3, <2>4, OverGrows
<1>2. ASSUME Dispatches \/ BootStart \/ (\E e \in Runs : BootResume(e))
      PROVE  Routed' /\ usage' <= Cardinality(Over')
  <2>1. faults' = faults /\ usage' = usage /\ succ' = succ
    BY <1>2 DEF Dispatches, StartPrepare, ResumePrepare, BootStart, BootResume, dbVars
  <2>2. \A r \in Runs : pc[r] \notin {"idle", "dispatched"} =>
            pc'[r] \notin {"idle", "dispatched"} /\ todo'[r] = todo[r]
    <3>1. CASE StartPrepare
      <4>1. searchStatus = "none" /\ todo' = todo
        BY <3>1 DEF StartPrepare
      <4>2. QED
        BY <4>1 DEF Control, Unstarted
    <3>2. ASSUME NEW e \in Runs, NEW all \in BOOLEAN, ResumePrepare(e, all)
          PROVE  \A r \in Runs : pc[r] \notin {"idle", "dispatched"} =>
                     pc'[r] \notin {"idle", "dispatched"} /\ todo'[r] = todo[r]
      <4>1. pc[e] = "idle" /\ todo' = todo /\ pc' = [pc EXCEPT ![e] = "dispatched"]
        BY <3>2 DEF ResumePrepare
      <4>2. QED
        BY <4>1 DEF TypeOK
    <3>3. ASSUME NEW e \in Runs, (BootStart /\ e = 1) \/ BootResume(e)
          PROVE  \A r \in Runs : pc[r] \notin {"idle", "dispatched"} =>
                     pc'[r] \notin {"idle", "dispatched"} /\ todo'[r] = todo[r]
      <4>1. /\ pc[e] = "dispatched"  /\ pc' = [pc EXCEPT ![e] = "running"]
            /\ \E N : todo' = [todo EXCEPT ![e] = N]
        BY <3>3 DEF BootStart, BootResume
      <4>2. QED
        BY <4>1 DEF TypeOK
    <3>4. QED
      BY <1>2, <3>1, <3>2, <3>3, FirstRun DEF Dispatches
  <2>3. faults <= faults'
    BY <1>1, <2>1
  <2>4. QED
    BY <1>2, <1>a, <2>1, <2>2, <2>3, RoutedBegins
<1>3. CASE User \/ Around
  <2>1. CASE Dispatches
    BY <1>2, <2>1
  <2>2. CASE ~Dispatches
    BY <1>3, <1>b, <2>2, OutsideStays
  <2>3. QED
    BY <2>1, <2>2
<1>4. ASSUME NEW e \in Runs, Boot(e) PROVE Routed' /\ usage' <= Cardinality(Over')
  BY <1>2, <1>4 DEF Boot
<1>5. ASSUME NEW e \in Runs, Master(e) PROVE Routed' /\ usage' <= Cardinality(Over')
  <2>1. CASE Barrier(e) /\ Same /\ fin' = fin /\ usage' = usage
    <3>1. \A r \in Runs :
             /\ pc[r] \notin {"idle", "dispatched"} => pc'[r] \notin {"idle", "dispatched"}
             /\ todo[r] = {} /\ succ[r] = {} => todo'[r] = {} /\ succ'[r] = {}
      BY <2>1 DEF Barrier, Elsewhere
    <3>2. QED
      BY <1>a, <2>1, <3>1, RoutedBarrier DEF Same
  <2>2. CASE Send(e)
    <3>1. \A r \in Runs :
             /\ pc[r] \notin {"idle", "dispatched"} => pc'[r] \notin {"idle", "dispatched"}
             /\ todo[r] = {} /\ succ[r] = {} => todo'[r] = {} /\ succ'[r] = {}
      BY <2>2 DEF Send, Sends, Elsewhere
    <3>2. QED
      BY <1>a, <2>2, <3>1, RoutedSend DEF Send, Same
  <2>3. CASE Route(e)
    <3>1. \A r \in Runs :
             /\ pc[r] \notin {"idle", "dispatched"} => pc'[r] \notin {"idle", "dispatched"}
             /\ todo[r] = {} /\ succ[r] = {} => todo'[r] = {} /\ succ'[r] = {}
      BY <2>3 DEF Route, Routes, Elsewhere
    <3>2. QED
      BY <1>a, <2>3, <3>1, RoutedRoute DEF Route, Same
  <2>4. QED
    BY <1>5, <1>b, <1>c, <2>1, <2>2, <2>3, MasterMoves
<1>6. ASSUME NEW e \in Runs, NEW b \in Boards, Worker(e, b)
      PROVE  Routed' /\ usage' <= Cardinality(Over')
  BY <1>6, <1>b, <1>c, WorkerMoves
<1>7. ASSUME NEW e \in Runs, Crash(e) PROVE FALSE
  BY <1>1, <1>7 DEF Crash, Fault
<1>8. QED
  BY <1>3, <1>4, <1>5, <1>6, <1>7 DEF Next, Execution

LEMMA InitRouted ==
    Init => Control /\ UsageInv
<1> SUFFICES ASSUME Init PROVE Control /\ UsageInv
  OBVIOUS
<1>1. \A r \in Runs : /\ pc[r] = "idle"  /\ todo[r] = {}  /\ succ[r] = {}
                      /\ fin[r].phase = "idle"
                      /\ \A b \in Boards : wk[r][b].phase = "idle"
  BY DEF Init, NotFinalizing, IdleWorker
<1>2. an.phase = "idle" /\ usage = 0
  BY DEF Init, NoAnalysis
<1>3. Control
  BY <1>1, <1>2, FirstRun DEF Control, Unstarted, OnlyFirst, Staged, Scouting
<1>4. Routed
  BY <1>1, FirstRun DEF Routed, LoneAlone, BoardsApart, Analyzing, Finalizes, Scouting, Submitting
<1>5. usage <= Cardinality(Over)
  <2>1. Over \subseteq Runs
    BY DEF Over
  <2>2. QED
    BY <1>2, <2>1, OverFinite
<1>6. QED
  BY <1>3, <1>4, <1>5 DEF UsageInv

(* Each execution is counted once at most.                                   *)
THEOREM CountedOncePerRun == Spec => []UsageCountedOncePerRun
<1>1. Init => Control /\ UsageInv
  BY InitRouted
<1>2. TypeOK /\ Control /\ UsageInv /\ [Next]_vars => Control' /\ UsageInv'
  <2>1. ASSUME TypeOK, Control, UsageInv, Next PROVE Control' /\ UsageInv'
    BY <2>1, ControlStep, UsageStep
  <2>2. ASSUME Control, UsageInv, UNCHANGED vars PROVE Control' /\ UsageInv'
    BY <2>2 DEF Control, Unstarted, OnlyFirst, Staged, Scouting, UsageInv, Routed, LoneAlone,
                BoardsApart, Analyzing, Finalizes, Over, vars, dbVars, execVars
  <2>3. QED
    BY <2>1, <2>2
<1>3. TypeOK /\ UsageInv => UsageCountedOncePerRun
  <2> SUFFICES ASSUME TypeOK, UsageInv, faults = 0
               PROVE  usage <= Cardinality({e \in Runs : pc[e] # "idle"})
    BY DEF UsageCountedOncePerRun
  <2> DEFINE Begun == {e \in Runs : pc[e] # "idle"}
  <2>1. usage <= Cardinality(Over) /\ usage \in Nat
    BY DEF UsageInv, TypeOK
  <2>2. Over \subseteq Begun /\ Begun \subseteq Runs /\ Over \subseteq Runs
    BY DEF Over
  <2>3. Cardinality(Over) <= Cardinality(Begun) /\ Cardinality(Over) \in Nat /\ Cardinality(Begun) \in Nat
    BY <2>2, OverFinite, FS_Subset
  <2>4. QED
    BY <2>1, <2>3
<1>4. QED
  BY TypeCorrect, <1>1, <1>2, <1>3, PTL DEF Spec
==============================================================================
