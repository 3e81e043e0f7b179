----------------------------- MODULE ProgressRelay -----------------------------
(***************************************************************************)
(* Progress of the executions on its way to the browser.                   *)
(*                                                                         *)
(* AgentRunner loads the context of a run, hands the agent a callback that *)
(* publishes on the channel of the run's search, and ends the channel with *)
(* one sentinel.  The request that asked for the run relays the channel to *)
(* the client until the sentinel.  The channel is Redis Pub/Sub, which has *)
(* no replay, or a queue in memory; the agent runs in a job of its own, or *)
(* in the API's process, where every run shares one agent instance.        *)
(***************************************************************************)
EXTENDS Integers, Sequences, FiniteSetsExt

CONSTANTS
    Runs,         \* executions, each asked for by one request
    Starts,       \* those that start a search; the others resume one
    SearchOf,     \* the search a run belongs to
    Boards,       \* the job boards, each with one worker
    Active,       \* the boards a run works on
    Assigned,     \* what a board may find in a start, or has to send in a resume
    Muted,        \* the boards that send no frame of a sending (WTTJ)
    MaxJobs,      \* max_jobs of a start, over all boards
    Deployments,  \* a subset of "cloud", "local", "memory"
    NoRun

ASSUME RunsAssumption ==
    /\ Starts \subseteq Runs
    /\ Active \in [Runs -> SUBSET Boards]
    /\ Assigned \in [Runs -> [Boards -> Nat]]
    /\ Muted \subseteq Boards
    /\ MaxJobs \in Nat
    /\ Deployments \subseteq {"cloud", "local", "memory"}
    /\ NoRun \notin Runs

VARIABLES
    deploy,     \* how the system is deployed; never changes
    pc,         \* where an execution is
    outcome,    \* how the agent ended: returned, raised, was cancelled
    callback,   \* per process and worker: the run whose callback it holds
    counts,     \* per callback, band and board: the last (done, total)
    done,       \* per run and board: offers found, or applications sent
    sending,    \* per run and board: the frame being published
    published,  \* per callback: the frames it published, oldest first
    client,     \* the stream of the request that asked for a run
    box,        \* the queue a stream reads from, 0 when none
    boxes,      \* the queues
    current,    \* per search: the queue in the map of the memory broker, or 0
    seen,       \* per stream: the frames relayed to the client
    timely      \* history: it subscribed before its run published anything

runVars    == <<pc, outcome, callback, counts, done, sending>>
streamVars == <<client, box, seen, timely>>
relayVars == <<deploy, runVars, published, streamVars, boxes, current>>

Bands    == {"scrape", "submit"}
Redis    == deploy # "memory"
Searches == {SearchOf[r] : r \in Runs}

(* A job has a process and an agent of its own; otherwise all runs share the *)
(* process of the API.                                                       *)
Process(r) == IF deploy = "cloud" THEN r ELSE NoRun
Processes  == Runs \cup {NoRun}

Band(r) == IF r \in Starts THEN "scrape" ELSE "submit"

(* A frame: whose callback published it, which run and board it is about,    *)
(* and its percentage (0 when it has none).                                  *)
Frame   == [via: Runs, of: Runs, kind: {"work", "error", "end"}, bar: 0..100]
NoFrame == [via |-> NoRun, kind |-> "none"]

RelayTypeOK ==
    /\ deploy \in Deployments
    /\ pc \in [Runs -> {"idle", "dispatched", "working", "crashed", "closing",
                        "ended", "dead"}]
    /\ outcome \in [Runs -> {"none", "ok", "raised", "cancelled"}]
    /\ callback \in [Processes -> [Boards -> Runs \cup {NoRun}]]
    /\ counts \in [Runs -> [Bands \X Boards -> Nat \X Nat]]
    /\ done \in [Runs -> [Boards -> Nat]]
    /\ \A r \in Runs, b \in Boards : done[r][b] <= Assigned[r][b]
    /\ sending \in [Runs -> [Boards -> Frame \cup {NoFrame}]]
    /\ published \in [Runs -> Seq(Frame)]
    /\ client \in [Runs -> {"off", "waiting", "reading", "done", "gone"}]
    /\ box \in [Runs -> 0..Len(boxes)]
    /\ boxes \in Seq(Seq(Frame))
    /\ current \in [Searches -> 0..Len(boxes)]
    /\ seen \in [Runs -> Seq(Frame)]
    /\ timely \in [Runs -> BOOLEAN]

RelayInit ==
    /\ deploy \in Deployments
    /\ pc = [r \in Runs |-> "idle"]
    /\ outcome = [r \in Runs |-> "none"]
    /\ callback = [p \in Processes |-> [b \in Boards |-> NoRun]]
    /\ counts = [r \in Runs |-> [k \in Bands \X Boards |-> <<0, 0>>]]
    /\ done = [r \in Runs |-> [b \in Boards |-> 0]]
    /\ sending = [r \in Runs |-> [b \in Boards |-> NoFrame]]
    /\ published = [r \in Runs |-> <<>>]
    /\ client = [r \in Runs |-> "off"]
    /\ box = [r \in Runs |-> 0]
    /\ boxes = <<>>
    /\ current = [s \in Searches |-> 0]
    /\ seen = [r \in Runs |-> <<>>]
    /\ timely = [r \in Runs |-> FALSE]

-----------------------------------------------------------------------------
(* The percentage. *)

(* progress_for, on the two bands that count (PREMIUM): the start of the     *)
(* band when there is nothing to count, else the share of it that is done.   *)
Start(band) == IF band = "scrape" THEN 30 ELSE 10
End(band)   == IF band = "scrape" THEN 70 ELSE 95

ProgressFor(band, n, total) ==
    IF n = 0 \/ total = 0 THEN Start(band)
    ELSE Start(band) + ((End(band) - Start(band)) * Min({n, total})) \div total

(* count_total of a frame: max_jobs in a start; in a resume the offers of    *)
(* this board still APPROVED, which the one just sent no longer is.          *)
CountTotal(r, b, n) == IF r \in Starts THEN MaxJobs ELSE Assigned[r][b] - n

(* The callback's aggregation: done sums over the boards, total does not.    *)
SumDone(cs, band)  == FoldSet(LAMBDA b, acc : acc + cs[<<band, b>>][1], 0, Boards)
MaxTotal(cs, band) == Max({cs[<<band, b>>][2] : b \in Boards})

Bar(cs, band) == ProgressFor(band, SumDone(cs, band), MaxTotal(cs, band))

-----------------------------------------------------------------------------
(* The brokers. *)

(* The streams that listen to a channel. Mutant: only the latest to come.    *)
ListenersLatest(s) ==
    {k \in Runs : client[k] = "reading" /\ SearchOf[k] = s
                  /\ \A j \in Runs : SearchOf[j] = s => box[j] <= box[k]}
Listeners(s) == {k \in Runs : client[k] = "reading" /\ SearchOf[k] = s}

(* Redis copies a frame to every stream that listens now; the memory broker  *)
(* puts it on the queue of the search, made on demand.                       *)
Push(f) ==
    LET s == SearchOf[f.via]
    IN  IF Redis
        THEN /\ boxes' = [i \in DOMAIN boxes |->
                             IF \E k \in Listeners(s) : box[k] = i
                             THEN Append(boxes[i], f) ELSE boxes[i]]
             /\ UNCHANGED current
        ELSE IF current[s] = 0
        THEN /\ boxes' = Append(boxes, <<f>>)
             /\ current' = [current EXCEPT ![s] = Len(boxes) + 1]
        ELSE /\ boxes' = [boxes EXCEPT ![current[s]] = Append(@, f)]
             /\ UNCHANGED current

Publish(f) ==
    /\ Push(f)
    /\ published' = [published EXCEPT ![f.via] = Append(@, f)]

Alert(r)    == [via |-> r, of |-> r, kind |-> "error", bar |-> 0]
Sentinel(r) == [via |-> r, of |-> r, kind |-> "end", bar |-> 0]

-----------------------------------------------------------------------------
(* The requests. *)

(* A resume is asked for once the start has paused, so not before it works.  *)
MayAsk(r) ==
    r \in Starts \/ \E q \in Starts : SearchOf[q] = SearchOf[r]
                                      /\ pc[q] \notin {"idle", "dispatched"}

(* Prepare, then broker.stream, then dispatch. stream is an async generator: *)
(* calling it runs nothing, so the streamed request waits, unsubscribed.     *)
Ask(r, streamed) ==
    /\ pc[r] = "idle"  /\ client[r] = "off"  /\ MayAsk(r)
    /\ \/ pc' = [pc EXCEPT ![r] = "dispatched"]
          /\ client' = [client EXCEPT ![r] = IF streamed THEN "waiting" ELSE "off"]
       \/ streamed  /\ UNCHANGED pc                          \* dispatch failed
          /\ client' = [client EXCEPT ![r] = "gone"]
    /\ UNCHANGED <<deploy, outcome, callback, counts, done, sending, published, box,
                   boxes, current, seen, timely>>

(* The first __anext__ subscribes.                                           *)
Subscribe(r) ==
    LET s == SearchOf[r]
        fresh == Redis \/ current[s] = 0
    IN  /\ client[r] = "waiting"
        /\ client' = [client EXCEPT ![r] = "reading"]
        /\ boxes' = IF fresh THEN Append(boxes, <<>>) ELSE boxes
        /\ box' = [box EXCEPT ![r] = IF fresh THEN Len(boxes) + 1 ELSE current[s]]
        /\ current' = IF Redis THEN current ELSE [current EXCEPT ![s] = box'[r]]
        /\ timely' = [timely EXCEPT ![r] = published[r] = <<>>]
        /\ UNCHANGED <<deploy, runVars, published, seen>>

(* The finally clause: unsubscribe, or pop the queue of the search; a queue  *)
(* nobody holds any more is garbage.                                         *)
Close(r, how, rest) ==
    LET held == \E k \in Runs \ {r} : box[k] = box[r]
    IN  /\ client' = [client EXCEPT ![r] = how]
        /\ box' = [box EXCEPT ![r] = 0]
        /\ seen' = [seen EXCEPT ![r] = <<>>]
        /\ boxes' = [boxes EXCEPT ![box[r]] = IF held THEN rest ELSE <<>>]
        /\ current' = IF Redis THEN current ELSE [current EXCEPT ![SearchOf[r]] = 0]

Read(r) ==
    LET f == Head(boxes[box[r]])
    IN  /\ client[r] = "reading"  /\ boxes[box[r]] # <<>>
        /\ IF f.kind = "end" THEN Close(r, "done", Tail(boxes[box[r]]))
           ELSE /\ seen' = [seen EXCEPT ![r] = Append(@, f)]
                /\ boxes' = [boxes EXCEPT ![box[r]] = Tail(@)]
                /\ UNCHANGED <<client, box, current>>
        /\ UNCHANGED <<deploy, runVars, published, timely>>

(* The client leaves, before or while its stream is read.                    *)
Leave(r) ==
    /\ client[r] = "waiting"
    /\ client' = [client EXCEPT ![r] = "gone"]
    /\ UNCHANGED <<deploy, runVars, published, box, boxes, current, seen, timely>>

Disconnect(r) ==
    /\ client[r] = "reading"
    /\ Close(r, "gone", boxes[box[r]])
    /\ UNCHANGED <<deploy, runVars, published, timely>>

-----------------------------------------------------------------------------
(* The executions. *)

LoadFails(r) ==
    /\ pc[r] = "dispatched"
    /\ pc' = [pc EXCEPT ![r] = "closing"]
    /\ outcome' = [outcome EXCEPT ![r] = "raised"]
    /\ Publish(Alert(r))
    /\ UNCHANGED <<deploy, callback, counts, done, sending, streamVars>>

(* A start sets the callback of every worker, a resume of the active ones;   *)
(* each takes back what it set when the agent returns or raises.             *)
Attached(r) == IF r \in Starts THEN Boards ELSE Active[r]

SetCallbacks(r, to) ==
    callback' = [callback EXCEPT ![Process(r)] =
                    [b \in Boards |-> IF b \in Attached(r) THEN to ELSE @[b]]]

(* Mutant: nothing is taken back.                                            *)
KeepCallbacks(r) == UNCHANGED callback
ClearCallbacks(r) == SetCallbacks(r, NoRun)

Attach(r) ==
    /\ pc[r] = "dispatched"
    /\ pc' = [pc EXCEPT ![r] = "working"]
    /\ SetCallbacks(r, r)
    /\ UNCHANGED <<deploy, outcome, counts, done, sending, published, streamVars, boxes,
                   current>>

(* A worker counts one more and emits: through whatever callback it holds.   *)
(* The aggregation is computed before publish is awaited. WTTJ's sendings    *)
(* emit nothing: the frame's count_total names an unbound variable.          *)
Emit(r, b) ==
    LET c == callback[Process(r)][b]
        n == done[r][b] + 1
        total == CountTotal(r, b, n)
        cs == [counts[c] EXCEPT ![<<Band(r), b>>] = <<n, total>>]
        f == [via |-> c, of |-> r, kind |-> "work",
              bar |-> IF total = 0 THEN 0 ELSE Bar(cs, Band(r))]
    IN  /\ pc[r] = "working"  /\ b \in Active[r]
        /\ sending[r][b] = NoFrame  /\ n <= Assigned[r][b]
        /\ done' = [done EXCEPT ![r][b] = n]
        /\ IF c = NoRun \/ (r \notin Starts /\ b \in Muted)
           THEN UNCHANGED <<counts, sending, published, boxes, current>>
           ELSE /\ counts' = IF total = 0 THEN counts ELSE [counts EXCEPT ![c] = cs]
                /\ IF Redis
                   THEN /\ sending' = [sending EXCEPT ![r][b] = f]
                        /\ UNCHANGED <<published, boxes, current>>
                   ELSE Publish(f) /\ UNCHANGED sending
        /\ UNCHANGED <<deploy, pc, outcome, callback, streamVars>>

SendFrame(r, b) ==
    /\ sending[r][b] # NoFrame
    /\ Publish(sending[r][b])
    /\ sending' = [sending EXCEPT ![r][b] = NoFrame]
    /\ UNCHANGED <<deploy, pc, outcome, callback, counts, done, streamVars>>

Quiet(r) == \A b \in Boards : sending[r][b] = NoFrame

(* The agent returns, or raises: the callbacks go first. What the graph of a *)
(* start raises is logged and swallowed; a resume lets it through to the     *)
(* runner.                                                                   *)
Return(r, raises) ==
    /\ pc[r] = "working"  /\ Quiet(r)
    /\ ClearCallbacks(r)
    /\ pc' = [pc EXCEPT ![r] = IF raises /\ r \notin Starts THEN "crashed" ELSE "closing"]
    /\ outcome' = [outcome EXCEPT ![r] = IF raises THEN "raised" ELSE "ok"]
    /\ UNCHANGED <<deploy, counts, done, sending, published, streamVars, boxes, current>>

ReportCrash(r) == Publish(Alert(r))

Report(r) ==
    /\ pc[r] = "crashed"
    /\ pc' = [pc EXCEPT ![r] = "closing"]
    /\ ReportCrash(r)
    /\ UNCHANGED <<deploy, outcome, callback, counts, done, sending, streamVars>>

EndChannel(r) == Publish(Sentinel(r))

Finish(r) ==
    /\ pc[r] = "closing"
    /\ pc' = [pc EXCEPT ![r] = "ended"]
    /\ EndChannel(r)
    /\ UNCHANGED <<deploy, outcome, callback, counts, done, sending, streamVars>>

(* SIGTERM cancels the run of a job: the finally clauses still run. SIGKILL  *)
(* runs nothing.                                                             *)
Preempt(r) ==
    /\ deploy = "cloud"  /\ pc[r] \in {"working", "crashed"}
    /\ pc' = [pc EXCEPT ![r] = "closing"]
    /\ outcome' = [outcome EXCEPT ![r] = "cancelled"]
    /\ ClearCallbacks(r)
    /\ sending' = [sending EXCEPT ![r] = [b \in Boards |-> NoFrame]]
    /\ UNCHANGED <<deploy, counts, done, published, streamVars, boxes, current>>

Die(r) ==
    /\ deploy = "cloud"  /\ pc[r] \in {"dispatched", "working", "crashed", "closing"}
    /\ pc' = [pc EXCEPT ![r] = "dead"]
    /\ sending' = [sending EXCEPT ![r] = [b \in Boards |-> NoFrame]]
    /\ UNCHANGED <<deploy, outcome, callback, counts, done, published, streamVars, boxes,
                   current>>

-----------------------------------------------------------------------------
Works(r) ==
    \/ LoadFails(r) \/ Attach(r) \/ Report(r) \/ Finish(r)
    \/ \E b \in Boards : Emit(r, b) \/ SendFrame(r, b)
    \/ \E raises \in BOOLEAN : Return(r, raises)

RelayNext ==
    \E r \in Runs :
        \/ \E streamed \in BOOLEAN : Ask(r, streamed)
        \/ Subscribe(r) \/ Read(r) \/ Leave(r) \/ Disconnect(r)
        \/ Works(r)
        \/ Preempt(r) \/ Die(r)

(* The event loops run: executions go on and streams are read. Nobody has to *)
(* ask, to disconnect or to be preempted.                                    *)
RelaySpec ==
    /\ RelayInit /\ [][RelayNext]_relayVars
    /\ \A r \in Runs : WF_relayVars(Works(r)) /\ WF_relayVars(Subscribe(r)) /\ WF_relayVars(Read(r))

-----------------------------------------------------------------------------
(* Properties. *)

\* The frames of r among these are all there are, in their order.
Carries(frames, r, all) ==
    LET mine == {k \in DOMAIN frames : frames[k].via = r}
    IN  /\ Cardinality(mine) = Len(all)
        /\ \A k \in mine : frames[k] = all[Cardinality({j \in mine : j <= k})]

\* The channel was told of the failure.
Told(r) == \E i \in DOMAIN published[r] : published[r][i].kind = "error"

(* "Call exactly once, last, per run": whatever happened to a run, nothing   *)
(* is published through its callback once its sentinel is, not even by       *)
(* another run that shares the agent, and a run that ended has published it, *)
(* a resume that raised the reason before it. (With Redis and a shared agent *)
(* a frame of the other run may still be in flight.)                         *)
SentinelOnceAndLast ==
    deploy # "local" =>
        \A r \in Runs :
            /\ \A i \in DOMAIN published[r] :
                  published[r][i].kind = "end" => i = Len(published[r])
            /\ pc[r] = "ended" =>
                  /\ \E i \in DOMAIN published[r] : published[r][i].kind = "end"
                  /\ r \notin Starts /\ outcome[r] = "raised" => Told(r)

(* A stream that subscribed before its run published anything has every      *)
(* frame of its run, the sentinel included, read or waiting, in order. With  *)
(* the memory broker that takes the one subscriber per search it assumes.    *)
Alone(r) == \A q \in Runs \ {r} : SearchOf[q] = SearchOf[r] => client[q] = "off"

ReaderMissesNothing ==
    \A r \in Runs :
        client[r] = "reading" /\ (IF Redis THEN timely[r] ELSE Alone(r))
            => Carries(seen[r] \o boxes[box[r]], r, published[r])

(* The bar of a start is what its boards found together of max_jobs: a board *)
(* that has all of its share does not drive it to the end, and one that      *)
(* reports for the first time does not drag it back.                         *)
DoneBy(r) == FoldSet(LAMBDA b, acc : acc + done[r][b], 0, Active[r])

BarCountsEveryBoard ==
    deploy = "cloud" =>
        \A r \in Starts :
            Bar(counts[r], "scrape") = ProgressFor("scrape", DoneBy(r), MaxJobs)

(* "SUBSCRIBE BEFORE DISPATCH — no lost frames" (agent.py), for a request    *)
(* that streams.                                                             *)
NoLostFrames ==
    \A r \in Runs :
        client[r] = "reading" => Carries(seen[r] \o boxes[box[r]], r, published[r])

(* The runner's error frame is there "so failures are never silent".         *)
FailuresNeverSilent ==
    \A r \in Runs : pc[r] = "ended" /\ outcome[r] = "raised" => Told(r)

(* "Every worker reports the same run-wide denominator (max_jobs, or the     *)
(* approved-offer count)": the bar of a resume is not ahead of its sendings. *)
SubmitBarIsRunWide ==
    \A r \in Runs \ Starts :
        deploy = "cloud" =>
            Bar(counts[r], "submit")
                <= ProgressFor("submit", DoneBy(r),
                               FoldSet(LAMBDA b, acc : acc + Assigned[r][b], 0, Active[r]))
==============================================================================
