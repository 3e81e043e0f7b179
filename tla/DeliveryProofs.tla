----------------------------- MODULE DeliveryProofs ----------------------------
(***************************************************************************)
(* Theorems about the three components that deliver something to a user:   *)
(* the messaging job (Messaging), the free search (FreeSearch) and the     *)
(* progress frames of a run (ProgressRelay).  They share no state and no   *)
(* theorem: each part below speaks of its own specification only, for any  *)
(* users, requests and runs and any bounds.                                *)
(***************************************************************************)
EXTENDS Messaging, FreeSearch, ProgressRelay, FiniteSetTheorems, SequenceTheorems, TLAPS

-------------------------------------------------------------------------------
(* Part 1: Messaging. *)

(***************************************************************************)
(* The inductive invariants.                                               *)
(***************************************************************************)

Execution ==
    [pc : Stopped \union Kinds, window : Int, todo : SUBSET Users, paid : SUBSET Users,
     user : Users \union {Nobody}, step : {"take", "check", "send", "log"},
     failed : BOOLEAN, sigterm : BOOLEAN]

Typed ==
    /\ TypeOK
    /\ job \in [Jobs -> Execution]
    /\ got \in [Users \X Kinds -> Nat]  /\ lapses \in [Users \X Kinds -> Nat]

\* An execution with a recipient in hand is running; its recipients registered.
Recipients ==
    /\ \A j \in Jobs :
          /\ job[j].step # "take" => Running(j)  /\ job[j].user \in job[j].todo
          /\ \A u \in job[j].todo : created[u] # Never
    /\ \A u \in open : created[u] # Never

JobsInv == Typed /\ Recipients

OneRuns == \A i, j \in Jobs : Running(i) /\ Running(j) => i = j

\* A message that is in the log, or sent and about to be logged.
AboutToLog(j, u, k) == job[j].step = "log" /\ job[j].user = u /\ job[j].pc = k
Accounted(u, k) == <<u, k>> \in log \/ \E j \in Jobs : AboutToLog(j, u, k)

\* Nobody was sent a copy before registering; a message that is not accounted for
\* was sent only in lapses; a message about to be sent is not in the log.
SentInv ==
    /\ \A u \in Users, k \in Kinds : created[u] = Never => got[<<u, k>>] = 0
    /\ \A u \in open, k \in Kinds :
          /\ got[<<u, k>>] <= 1 + lapses[<<u, k>>]
          /\ ~Accounted(u, k) => got[<<u, k>>] <= lapses[<<u, k>>]
    /\ \A j \in Jobs : job[j].step = "send" => <<job[j].user, job[j].pc>> \notin log

\* An execution looks at one day of the past; while it has met no failure, the
\* members of its cohorts are in the log or still to come.
Due(j, u)      == paid[u] = job[j].window
Reminds(w, u) == created[u] = w /\ paid[u] # created[u] /\ u \notin opted \union searched

CohortInv ==
    /\ \A d \in clean : d \in Int /\ Never < d /\ d < day
    /\ \A j \in Jobs : Running(j) =>
          /\ Never < job[j].window  /\ job[j].window < day
          /\ job[j].failed \/ \A u \in open : Due(j, u) =>
                <<u, "checkin">> \in log \/ (job[j].pc = "checkin" /\ u \in job[j].todo)
    /\ \A j \in Jobs : job[j].pc = "reminder" =>
          /\ \A u \in job[j].paid : Due(j, u)
          /\ job[j].failed \/ \A u \in open : Reminds(job[j].window, u) =>
                <<u, "reminder">> \in log \/ u \in job[j].todo

-----------------------------------------------------------------------------
(* The records of an execution.                                            *)

LEMMA IdleIs ==
    Idle \in Execution  /\ Idle.pc = "idle"  /\ Idle.todo = {}  /\ Idle.step = "take"
BY DEF Idle, Execution, Stopped, Never

\* An execution that has ended keeps nothing.
LEMMA EndedIs ==
    ASSUME NEW j, NEW how \in Stopped
    PROVE  /\ Ended(j, how) \in Execution  /\ Ended(j, how).pc = how
           /\ Ended(j, how).todo = {}  /\ Ended(j, how).step = "take"
BY IdleIs DEF Ended, Execution

\* One that is done with a recipient goes back to take the next.
LEMMA SkipIs ==
    ASSUME NEW j, job[j] \in Execution
    PROVE  /\ Skip(j) \in Execution  /\ Skip(j).pc = job[j].pc  /\ Skip(j).window = job[j].window
           /\ Skip(j).todo = job[j].todo \ {job[j].user}  /\ Skip(j).paid = job[j].paid
           /\ Skip(j).step = "take"  /\ Skip(j).failed = job[j].failed
BY DEF Skip, Execution

\* An execution that starts looks at one day and at those who first paid on it.
LEMMA LaunchIs ==
    ASSUME JobsInv, NEW j \in Jobs, Launch(j)
    PROVE  /\ job' = [job EXCEPT ![j] = [Idle EXCEPT !.pc = "checkin", !.window = Window,
                                                    !.todo = PaidIn(Window)]]
           /\ job'[j] \in Execution  /\ job'[j].pc = "checkin"  /\ job'[j].window = Window
           /\ job'[j].todo = PaidIn(Window)  /\ job'[j].step = "take"  /\ ~job'[j].failed
<1>1. Window \in Int /\ PaidIn(Window) \in SUBSET Users
  BY MessagingAssumption DEF JobsInv, Typed, TypeOK, Days, Window, PaidIn
<1>2. job' = [job EXCEPT ![j] = [Idle EXCEPT !.pc = "checkin", !.window = Window,
                                             !.todo = PaidIn(Window)]]
  BY DEF Launch
<1>3. job \in [Jobs -> Execution]
  BY DEF JobsInv, Typed
<1> QED
  BY <1>1, <1>2, <1>3 DEF Idle, Execution, Kinds

LEMMA SecondIs ==
    ASSUME JobsInv, NEW j \in Jobs, SecondCohort(j), ~job[j].sigterm
    PROVE  /\ job' = [job EXCEPT ![j] = [job[j] EXCEPT !.pc = "reminder",
                            !.todo = Reminded(job[j].window), !.paid = PaidIn(job[j].window)]]
           /\ job'[j] \in Execution  /\ job'[j].pc = "reminder"
           /\ job'[j].window = job[j].window  /\ job'[j].todo = Reminded(job[j].window)
           /\ job'[j].paid = PaidIn(job[j].window)
           /\ job'[j].step = job[j].step  /\ job'[j].failed = job[j].failed
<1>1. /\ Reminded(job[j].window) \in SUBSET Users
      /\ PaidIn(job[j].window) \in SUBSET Users
  BY DEF JobsInv, Typed, TypeOK, Reminded, CreatedIn, PaidIn
<1>2. job \in [Jobs -> Execution]
  BY DEF JobsInv, Typed
<1>3. job' = [job EXCEPT ![j] = [job[j] EXCEPT !.pc = "reminder",
                            !.todo = Reminded(job[j].window), !.paid = PaidIn(job[j].window)]]
  BY DEF SecondCohort
<1> QED
  BY ZenonT(60), <1>1, <1>2, <1>3 DEF Execution, Kinds

\* What each step of an execution does to its record: the others stay as they are.
LEMMA OneJobMoves ==
    ASSUME JobsInv, NEW j \in Jobs,
           \/ Launch(j) \/ Take(j) \/ Check(j) \/ Send(j) \/ SendFails(j) \/ Record(j)
           \/ SecondCohort(j) \/ Exit(j) \/ Sigterm(j) \/ Kill(j)
    PROVE  /\ \A i \in Jobs : i # j => job'[i] = job[i]
           /\ job' \in [Jobs -> Execution]
           /\ UNCHANGED <<day, People>>
           /\ job'[j].step # "take" => Running(j)' /\ job'[j].user \in job'[j].todo
           /\ ~Launch(j) => Running(j)
           /\ \A u \in job'[j].todo : u \in job[j].todo \/ u \in open
<1> DEFINE Goal ==
             /\ \A i \in Jobs : i # j => job'[i] = job[i]
             /\ job' \in [Jobs -> Execution]
             /\ UNCHANGED <<day, People>>
             /\ job'[j].step # "take" => Running(j)' /\ job'[j].user \in job'[j].todo
             /\ ~Launch(j) => Running(j)
             /\ \A u \in job'[j].todo : u \in job[j].todo \/ u \in open
<1>0. /\ job \in [Jobs -> Execution]  /\ job[j] \in Execution
      /\ job[j].step # "take" => Running(j) /\ job[j].user \in job[j].todo
  BY DEF JobsInv, Typed, Recipients
<1>1. ASSUME NEW how \in Stopped, job' = [job EXCEPT ![j] = Ended(j, how)], Running(j),
             UNCHANGED <<day, People>>
      PROVE  Goal
  BY <1>0, <1>1, EndedIs
<1>2. ASSUME job' = [job EXCEPT ![j] = Skip(j)], Running(j), UNCHANGED <<day, People>>
      PROVE  Goal
  BY <1>0, <1>2, SkipIs
<1>3. CASE Launch(j)
  BY <1>0, <1>3, LaunchIs DEF Launch, PaidIn
<1>4. CASE Take(j)
  <2>1. PICK u \in job[j].todo :
            /\ Running(j)
            /\ job' = [job EXCEPT ![j] =
                  IF job[j].pc = "reminder" /\ PassedOver(job[j], u)
                  THEN [job[j] EXCEPT !.todo = @ \ {u}]
                  ELSE IF u \notin open THEN Ended(j, "aborted")
                  ELSE [job[j] EXCEPT !.user = u, !.step = "check"]]
            /\ job[j].step = "take"
            /\ UNCHANGED <<day, People>>
    BY <1>4 DEF Take
  <2>2. CASE job' = [job EXCEPT ![j] = [job[j] EXCEPT !.todo = @ \ {u}]]
    BY <1>0, <2>1, <2>2 DEF Execution, Running
  <2>3. CASE job' = [job EXCEPT ![j] = [job[j] EXCEPT !.user = u, !.step = "check"]]
    <3>1. /\ [job[j] EXCEPT !.user = u, !.step = "check"] \in Execution
          /\ job'[j] = [job[j] EXCEPT !.user = u, !.step = "check"]
      BY <1>0, <2>1, <2>3 DEF Execution
    <3>2. /\ job'[j].user = u /\ job'[j].todo = job[j].todo /\ job'[j].pc = job[j].pc
          /\ u \in job[j].todo
      BY <1>0, <3>1, <2>1 DEF Execution
    <3> QED
      BY <1>0, <2>1, <2>3, <3>1, <3>2 DEF Running
  <2>4. CASE job' = [job EXCEPT ![j] = Ended(j, "aborted")]
    BY <1>1, <2>1, <2>4 DEF Stopped
  <2> QED
    BY <2>1, <2>2, <2>3, <2>4
<1>5. CASE Check(j) /\ job' = [job EXCEPT ![j] = [job[j] EXCEPT !.step = "send"]]
  BY <1>0, <1>5 DEF Check, Execution, Running
<1>6. CASE Send(j)
  BY <1>0, <1>6 DEF Send, Execution, Running
<1>7. CASE SendFails(j)
  <2>1. [Skip(j) EXCEPT !.failed = TRUE] \in Execution
    BY <1>0, SkipIs DEF Execution
  <2>2. [Skip(j) EXCEPT !.failed = TRUE].step = "take"
    BY <1>0, SkipIs DEF Execution
  <2>3. [Skip(j) EXCEPT !.failed = TRUE].todo \subseteq job[j].todo
    BY <1>0, SkipIs DEF Execution
  <2> QED
    BY <1>0, <1>7, <2>1, <2>2, <2>3 DEF SendFails
<1>8. CASE SecondCohort(j) /\ ~job[j].sigterm
  <2>1. Running(j) /\ job[j].step = "take"
    BY <1>8 DEF SecondCohort, Running, Stopped
  <2> QED
    BY <1>0, <1>8, <2>1, SecondIs DEF SecondCohort, Reminded, CreatedIn
<1>9. CASE Sigterm(j)
  BY <1>0, <1>9 DEF Sigterm, Execution, Running
<1>10. CASE Check(j) /\ job' = [job EXCEPT ![j] = Skip(j)]
  BY <1>0, <1>2, <1>10 DEF Check
<1>11. CASE Record(j)
  BY <1>0, <1>1, <1>2, <1>11 DEF Record, Stopped
<1>12. CASE Exit(j) \/ Kill(j) \/ (SecondCohort(j) /\ job[j].sigterm)
  <2>1. Running(j)
    BY <1>12 DEF Exit, Kill, SecondCohort, Running, Stopped
  <2> QED
    BY <1>1, <1>12, <2>1 DEF Exit, Kill, SecondCohort, Stopped
<1> QED
  BY <1>3, <1>4, <1>5, <1>6, <1>7, <1>8, <1>9, <1>10, <1>11, <1>12 DEF Check

-----------------------------------------------------------------------------
(* Types, and recipients.                                                  *)

JobStep(j) ==
    \/ Launch(j) \/ Take(j) \/ Check(j) \/ Send(j) \/ SendFails(j) \/ Record(j)
    \/ SecondCohort(j) \/ Exit(j) \/ Sigterm(j) \/ Kill(j)

PeopleStep == Register \/ Pay \/ StartSearch \/ Unsubscribe \/ DeleteUser

LEMMA NextIs == Next <=> (\E j \in Jobs : JobStep(j)) \/ PeopleStep \/ NextDay
BY DEF Next, JobStep, PeopleStep

LEMMA InitJobsInv == Init => JobsInv
<1> SUFFICES ASSUME Init PROVE JobsInv
  OBVIOUS
<1>1. \A j \in Jobs : job[j] = Idle
  BY DEF Init
<1>2. job \in [Jobs -> Execution] /\ \A j \in Jobs : job[j].pc = "idle" /\ job[j].step = "take"
                                                  /\ job[j].todo = {}
  BY <1>1, IdleIs DEF Init, Stopped
<1>3. Typed
  BY <1>2, MessagingAssumption DEF Init, Typed, TypeOK, Days, Never, Stopped
<1>4. Recipients
  BY <1>2 DEF Init, Recipients
<1> QED
  BY <1>3, <1>4 DEF JobsInv

\* The message an execution has in hand is one of the messages there are.
LEMMA InHand ==
    ASSUME JobsInv, NEW j \in Jobs, job[j].step # "take"
    PROVE  /\ <<job[j].user, job[j].pc>> \in Users \X Kinds
           /\ created[job[j].user] # Never  /\ job[j].user \in job[j].todo
<1>1. /\ job[j].pc \in Stopped \union Kinds  /\ job[j].todo \subseteq Users
  BY DEF JobsInv, Typed, Execution
<1>2. job[j].pc \in Kinds
  BY <1>1 DEF JobsInv, Recipients, Running
<1> QED
  BY <1>1, <1>2 DEF JobsInv, Recipients

LEMMA HistoryTypes ==
    ASSUME JobsInv, NEW j \in Jobs, JobStep(j)
    PROVE  /\ got' \in [Users \X Kinds -> Nat]  /\ lapses' \in [Users \X Kinds -> Nat]
           /\ log' \subseteq Users \X Kinds
<1>0. /\ got \in [Users \X Kinds -> Nat]  /\ lapses \in [Users \X Kinds -> Nat]
      /\ log \subseteq Users \X Kinds
  BY DEF JobsInv, Typed, TypeOK
<1>1. CASE UNCHANGED <<got, lapses, log>>
  BY <1>0, <1>1
<1>2. CASE Send(j) \/ SendFails(j) \/ Record(j)
  <2>1. <<job[j].user, job[j].pc>> \in Users \X Kinds
    BY <1>2, InHand DEF Send, SendFails, Record
  <2>2. CASE Send(j)
    BY <1>0, <2>1, <2>2 DEF Send
  <2>3. CASE SendFails(j)
    <3> DEFINE m == <<job[j].user, job[j].pc>>
    <3>1. /\ UNCHANGED log
          /\ got' = got \/ got' = [got EXCEPT ![m] = @ + 1]
          /\ lapses' = lapses \/ lapses' = [lapses EXCEPT ![m] = @ + 1]
      BY <2>3 DEF SendFails
    <3> QED
      BY <1>0, <2>1, <3>1
  <2>4. CASE Record(j)
    <3> DEFINE m == <<job[j].user, job[j].pc>>
    <3>1. /\ UNCHANGED got
          /\ log' = log \/ log' = log \union {m}
          /\ lapses' = lapses \/ lapses' = [lapses EXCEPT ![m] = @ + 1]
      BY <2>4 DEF Record
    <3> QED
      BY <1>0, <2>1, <3>1
  <2> QED
    BY <1>2, <2>2, <2>3, <2>4
<1>3. CASE Kill(j)
  <2>1. job[j].step = "log" => <<job[j].user, job[j].pc>> \in Users \X Kinds
    BY InHand
  <2> QED
    BY <1>0, <1>3, <2>1 DEF Kill
<1> QED
  BY <1>1, <1>2, <1>3
     DEF JobStep, Launch, Take, Check, SecondCohort, Exit, Sigterm, History

\* Users come, pay, search, opt out and go; nothing of it touches an execution.
LEMMA PeopleMove ==
    ASSUME JobsInv, PeopleStep
    PROVE  /\ UNCHANGED <<day, job, launches, got, mailed, lapses, clean>>
           /\ open' \subseteq Users  /\ log' \subseteq log
           /\ created' \in [Users -> 0..MaxDay]  /\ paid' \in [Users -> 0..MaxDay]
           /\ \A u \in Users : created[u] # Never => created'[u] = created[u]
           /\ \A u \in open' : created'[u] # Never /\ (u \in open \/ created[u] = Never)
<1>1. CASE Register
  <2>1. PICK u \in Users : /\ created[u] = Never
                           /\ open' = open \union {u}
                           /\ created' = [created EXCEPT ![u] = day]
    BY <1>1 DEF Register
  <2>2. day \in 0..MaxDay /\ day # Never /\ open \subseteq Users
        /\ created \in [Users -> 0..MaxDay] /\ paid \in [Users -> 0..MaxDay]
    BY MessagingAssumption DEF JobsInv, Typed, TypeOK, Days, Never
  <2>3. UNCHANGED <<day, job, launches, got, mailed, lapses, clean, log, paid>>
    BY <1>1 DEF Register, History
  <2> QED
    BY <2>1, <2>2, <2>3 DEF JobsInv, Recipients
<1>2. CASE Pay
  <2>1. day \in 0..MaxDay /\ paid \in [Users -> 0..MaxDay]
    BY MessagingAssumption DEF JobsInv, Typed, TypeOK, Days
  <2> QED
    BY <1>2, <2>1 DEF Pay, History, JobsInv, Typed, TypeOK, Recipients
<1>3. CASE StartSearch \/ Unsubscribe
  BY <1>3 DEF StartSearch, Unsubscribe, History, JobsInv, Typed, TypeOK, Recipients
<1>4. CASE DeleteUser
  BY <1>4 DEF DeleteUser, History, JobsInv, Typed, TypeOK, Recipients
<1> QED
  BY <1>1, <1>2, <1>3, <1>4 DEF PeopleStep

LEMMA DayEnds ==
    ASSUME JobsInv, NextDay
    PROVE  /\ day' = day + 1  /\ day' \in Days
           /\ job' = [j \in Jobs |-> Idle]
           /\ UNCHANGED <<open, created, paid, searched, opted, log, got, mailed, lapses, clean>>
           /\ \A j \in Jobs : ~Running(j) /\ job[j].step = "take"
<1>1. day' \in Days
  BY MessagingAssumption DEF NextDay, JobsInv, Typed, TypeOK, Days
<1> QED
  BY <1>1 DEF NextDay, People, History, JobsInv, Recipients

LEMMA StepJobsInv == JobsInv /\ [Next]_vars => JobsInv'
<1> SUFFICES ASSUME JobsInv, [Next]_vars PROVE JobsInv'
  OBVIOUS
<1>0. job \in [Jobs -> Execution]
  BY DEF JobsInv, Typed
<1>1. ASSUME NEW j \in Jobs, JobStep(j) PROVE JobsInv'
  <2>1. /\ \A i \in Jobs : i # j => job'[i] = job[i]
        /\ job' \in [Jobs -> Execution]
        /\ UNCHANGED <<day, People>>
        /\ job'[j].step # "take" => Running(j)' /\ job'[j].user \in job'[j].todo
        /\ \A u \in job'[j].todo : u \in job[j].todo \/ u \in open
    BY <1>1, OneJobMoves DEF JobStep
  <2>2. UNCHANGED <<day, open, created, paid>>
    BY <2>1 DEF People
  <2>3. \A i \in Jobs : job'[i].pc \in Stopped \union Kinds
    BY <2>1 DEF Execution
  <2>4. Typed'
    BY <1>1, <2>1, <2>2, <2>3, HistoryTypes DEF JobsInv, Typed, TypeOK
  <2>5. Recipients'
    BY <2>1, <2>2 DEF JobsInv, Recipients, Running
  <2> QED
    BY <2>4, <2>5 DEF JobsInv
<1>2. CASE PeopleStep
  <2>1. Typed'
    BY <1>2, PeopleMove DEF JobsInv, Typed, TypeOK
  <2>2. \A j \in Jobs : job[j].todo \subseteq Users
    BY <1>0 DEF Execution
  <2>3. Recipients'
    BY <1>2, <2>2, PeopleMove DEF JobsInv, Recipients, Running
  <2> QED
    BY <2>1, <2>3 DEF JobsInv
<1>3. CASE NextDay
  <2>1. \A j \in Jobs : job'[j] = Idle
    BY <1>3, DayEnds
  <2>2. /\ job' \in [Jobs -> Execution]
        /\ \A j \in Jobs : job'[j].pc \in Stopped \union Kinds /\ job'[j].step = "take"
                          /\ job'[j].todo = {}
    BY <1>3, <2>1, DayEnds, IdleIs DEF Stopped
  <2> QED
    BY <1>3, <2>2, DayEnds DEF JobsInv, Typed, TypeOK, Recipients
<1>4. CASE UNCHANGED vars
  BY <1>4 DEF JobsInv, Typed, TypeOK, Recipients, Running, vars, People, History
<1> QED
  BY <1>1, <1>2, <1>3, <1>4, NextIs

LEMMA JobsInvariant == Spec => []JobsInv
BY InitJobsInv, StepJobsInv, PTL DEF Spec

\* Every variable keeps to its values.
THEOREM MessagingTypes == Spec => []TypeOK
<1>1. JobsInv => TypeOK
  BY DEF JobsInv, Typed
<1> QED
  BY <1>1, JobsInvariant, PTL

-----------------------------------------------------------------------------
(* Copies of a message, where executions do not overlap.                   *)

LEMMA StepOneRuns ==
    ASSUME ~Overlap PROVE JobsInv /\ OneRuns /\ [Next]_vars => OneRuns'
<1> SUFFICES ASSUME JobsInv, OneRuns, [Next]_vars PROVE OneRuns'
  OBVIOUS
<1>1. ASSUME NEW j \in Jobs, JobStep(j) PROVE OneRuns'
  <2>1. /\ \A i \in Jobs : i # j => job'[i] = job[i]
        /\ ~Launch(j) => Running(j)
    BY <1>1, OneJobMoves DEF JobStep
  <2>2. CASE Launch(j)
    BY <2>1, <2>2 DEF Launch, OneRuns, Running
  <2>3. CASE Running(j)
    BY <2>1, <2>3 DEF OneRuns, Running
  <2> QED
    BY <2>1, <2>2, <2>3
<1>2. CASE PeopleStep \/ UNCHANGED vars
  BY <1>2, PeopleMove DEF OneRuns, Running, vars
<1>3. CASE NextDay
  <2>1. \A j \in Jobs : job'[j].pc = "idle"
    BY <1>3, DayEnds, IdleIs
  <2> QED
    BY <2>1 DEF OneRuns, Running, Stopped
<1> QED
  BY <1>1, <1>2, <1>3, NextIs

\* Which message is about to be logged changes only when one is sent, logged, or
\* left by an execution that dies.
LEMMA QuietSteps ==
    ASSUME JobsInv, NEW j \in Jobs,
           Launch(j) \/ Take(j) \/ Check(j) \/ SecondCohort(j) \/ Exit(j) \/ Sigterm(j)
    PROVE  /\ UNCHANGED <<got, lapses, log>>
           /\ \A i \in Jobs : \A u, k : AboutToLog(i, u, k)' <=> AboutToLog(i, u, k)
           /\ job'[j].step = "send" =>
                  \/ job'[j].user = job[j].user /\ job'[j].pc = job[j].pc /\ job[j].step = "send"
                  \/ <<job'[j].user, job'[j].pc>> \notin log
<1>0. /\ job \in [Jobs -> Execution]  /\ job[j] \in Execution
      /\ job[j].step # "take" => Running(j)
  BY DEF JobsInv, Typed, Recipients
<1>1. UNCHANGED <<got, lapses, log>>
  BY DEF Launch, Take, Check, SecondCohort, Exit, Sigterm, History
<1>2. \A i \in Jobs : i # j => job'[i] = job[i]
  BY OneJobMoves
<1>3. CASE Sigterm(j)
  <2>1. /\ job'[j].step = job[j].step /\ job'[j].user = job[j].user /\ job'[j].pc = job[j].pc
    BY <1>0, <1>3 DEF Sigterm, Execution
  <2> QED
    BY <1>1, <1>2, <2>1 DEF AboutToLog
<1>4. CASE Check(j)
  <2>1. job[j].step = "check"
    BY <1>4 DEF Check
  <2>2. CASE job' = [job EXCEPT ![j] = Skip(j)]
    BY <1>0, <1>1, <1>2, <2>1, <2>2, SkipIs DEF AboutToLog
  <2>3. CASE /\ job' = [job EXCEPT ![j] = [job[j] EXCEPT !.step = "send"]]
             /\ ~AlreadySent(job[j].user, job[j].pc)
    <3>1. /\ job'[j].step = "send" /\ job'[j].user = job[j].user /\ job'[j].pc = job[j].pc
      BY <1>0, <2>3 DEF Execution
    <3> QED
      BY <1>1, <1>2, <2>1, <2>3, <3>1 DEF AboutToLog, AlreadySent
  <2> QED
    BY <1>4, <2>2, <2>3 DEF Check
<1>5. CASE job[j].step = "take" /\ job'[j].step \in {"take", "check"}
  BY <1>1, <1>2, <1>5 DEF AboutToLog
<1>6. CASE Launch(j)
  <2>1. job[j].step = "take"
    BY <1>0, <1>6 DEF Launch
  <2> QED
    BY <1>5, <1>6, <2>1, LaunchIs
<1>7. CASE Take(j)
  <2>1. PICK u \in job[j].todo :
            \/ job' = [job EXCEPT ![j] = [job[j] EXCEPT !.todo = @ \ {u}]]
            \/ job' = [job EXCEPT ![j] = Ended(j, "aborted")]
            \/ job' = [job EXCEPT ![j] = [job[j] EXCEPT !.user = u, !.step = "check"]]
    BY <1>7 DEF Take
  <2>2. job[j].step = "take" /\ "aborted" \in Stopped
    BY <1>7 DEF Take, Stopped
  <2>3. job'[j].step \in {"take", "check"}
    <3>1. CASE job' = [job EXCEPT ![j] = Ended(j, "aborted")]
      BY <1>0, <2>2, <3>1, EndedIs
    <3>2. CASE \/ job' = [job EXCEPT ![j] = [job[j] EXCEPT !.todo = @ \ {u}]]
               \/ job' = [job EXCEPT ![j] = [job[j] EXCEPT !.user = u, !.step = "check"]]
      BY <1>0, <2>2, <3>2 DEF Execution
    <3> QED
      BY <2>1, <3>1, <3>2
  <2> QED
    BY <1>5, <2>2, <2>3
<1>8. CASE Exit(j) \/ (SecondCohort(j) /\ job[j].sigterm)
  BY <1>0, <1>5, <1>8, EndedIs DEF Exit, SecondCohort, Stopped
<1>9. CASE SecondCohort(j) /\ ~job[j].sigterm
  BY <1>0, <1>5, <1>9, SecondIs DEF SecondCohort
<1> QED
  BY <1>3, <1>4, <1>6, <1>7, <1>8, <1>9

LEMMA SendKeeps ==
    ASSUME JobsInv, OneRuns, SentInv, NEW j \in Jobs, Send(j) PROVE SentInv'
<1> DEFINE w == job[j].user
           c == job[j].pc
<1>1. /\ <<w, c>> \in Users \X Kinds  /\ created[w] # Never  /\ job[j].step = "send"
      /\ Running(j) /\ job \in [Jobs -> Execution]
  BY InHand DEF Send, JobsInv, Recipients, Typed
<1>2. /\ job'[j].step = "log" /\ job'[j].user = w /\ job'[j].pc = c
      /\ \A i \in Jobs : i # j => job'[i] = job[i]
      /\ got' = [got EXCEPT ![<<w, c>>] = @ + 1]
      /\ UNCHANGED <<open, created, log, lapses>>
  BY <1>1 DEF Send, Execution, People
<1>3. \A i \in Jobs : i # j => job[i].step = "take"
  BY <1>1 DEF JobsInv, Recipients, OneRuns
<1>4. <<w, c>> \notin log /\ ~Accounted(w, c)
  BY <1>1, <1>3 DEF SentInv, Accounted, AboutToLog
<1>5. \A u \in Users, k \in Kinds : created'[u] = Never => got'[<<u, k>>] = 0
  BY <1>1, <1>2 DEF SentInv, JobsInv, Typed
<1>6. ASSUME NEW u \in open, NEW k \in Kinds
      PROVE  /\ got'[<<u, k>>] <= 1 + lapses[<<u, k>>]
             /\ ~Accounted(u, k)' => got'[<<u, k>>] <= lapses[<<u, k>>]
  <2>1. <<u, k>> \in Users \X Kinds
    BY DEF JobsInv, Typed, TypeOK
  <2>2. got[<<u, k>>] \in Nat /\ lapses[<<u, k>>] \in Nat
    BY <2>1 DEF JobsInv, Typed
  <2>3. CASE u = w /\ k = c
    <3>1. got'[<<u, k>>] = got[<<u, k>>] + 1
      BY <1>1, <1>2, <2>3 DEF JobsInv, Typed
    <3>2. got[<<u, k>>] <= lapses[<<u, k>>]
      BY <1>4, <2>3 DEF SentInv
    <3>3. Accounted(u, k)'
      BY <1>2, <2>3 DEF Accounted, AboutToLog
    <3> QED
      BY <2>2, <3>1, <3>2, <3>3
  <2>4. CASE u # w \/ k # c
    <3>1. got'[<<u, k>>] = got[<<u, k>>]
      BY <1>1, <1>2, <2>1, <2>4 DEF JobsInv, Typed
    <3>2. Accounted(u, k) => Accounted(u, k)'
      BY <1>1, <1>2, <1>3 DEF Accounted, AboutToLog
    <3> QED
      BY <3>1, <3>2 DEF SentInv
  <2> QED
    BY <2>3, <2>4
<1>7. \A i \in Jobs : job'[i].step = "send" => <<job'[i].user, job'[i].pc>> \notin log'
  BY <1>2 DEF SentInv
<1> QED
  BY <1>2, <1>5, <1>6, <1>7 DEF SentInv

\* A call that fails is a lapse if the message went out.
LEMMA SendFailsKeeps ==
    ASSUME JobsInv, OneRuns, SentInv, NEW j \in Jobs, SendFails(j) PROVE SentInv'
<1> DEFINE w == job[j].user
           c == job[j].pc
<1>1. /\ <<w, c>> \in Users \X Kinds  /\ created[w] # Never  /\ job[j].step = "send"
      /\ job \in [Jobs -> Execution]  /\ job[j] \in Execution
  BY InHand DEF SendFails, JobsInv, Typed
<1>2. /\ job'[j].step = "take"
      /\ \A i \in Jobs : i # j => job'[i] = job[i]
      /\ UNCHANGED <<open, created, log>>
  BY <1>1, SkipIs DEF SendFails, Execution, People
<1>3. \/ UNCHANGED <<got, lapses>>
      \/ /\ got' = [got EXCEPT ![<<w, c>>] = @ + 1]
         /\ lapses' = [lapses EXCEPT ![<<w, c>>] = @ + 1]
  BY DEF SendFails
<1>4. \A u, k : Accounted(u, k) => Accounted(u, k)'
  BY <1>1, <1>2 DEF Accounted, AboutToLog
<1>5. \A u \in Users, k \in Kinds : created'[u] = Never => got'[<<u, k>>] = 0
  BY <1>1, <1>2, <1>3 DEF SentInv, JobsInv, Typed
<1>6. ASSUME NEW u \in open, NEW k \in Kinds
      PROVE  /\ got'[<<u, k>>] <= 1 + lapses'[<<u, k>>]
             /\ ~Accounted(u, k)' => got'[<<u, k>>] <= lapses'[<<u, k>>]
  <2>1. <<u, k>> \in Users \X Kinds
    BY DEF JobsInv, Typed, TypeOK
  <2>2. got[<<u, k>>] \in Nat /\ lapses[<<u, k>>] \in Nat
    BY <2>1 DEF JobsInv, Typed
  <2>3. \/ got'[<<u, k>>] = got[<<u, k>>] /\ lapses'[<<u, k>>] = lapses[<<u, k>>]
        \/ got'[<<u, k>>] = got[<<u, k>>] + 1 /\ lapses'[<<u, k>>] = lapses[<<u, k>>] + 1
    BY <1>1, <1>3, <2>1 DEF JobsInv, Typed
  <2> QED
    BY <1>4, <2>2, <2>3 DEF SentInv
<1>7. \A i \in Jobs : job'[i].step = "send" => <<job'[i].user, job'[i].pc>> \notin log'
  BY <1>2 DEF SentInv
<1> QED
  BY <1>2, <1>5, <1>6, <1>7 DEF SentInv

\* A message that was sent is logged, or its account is gone.
LEMMA RecordKeeps ==
    ASSUME JobsInv, OneRuns, SentInv, NEW j \in Jobs, Record(j) PROVE SentInv'
<1> DEFINE w == job[j].user
           c == job[j].pc
<1>1. /\ <<w, c>> \in Users \X Kinds  /\ job[j].step = "log"  /\ Running(j)
      /\ job \in [Jobs -> Execution]  /\ job[j] \in Execution
  BY InHand DEF Record, JobsInv, Typed, Recipients
<1>2. /\ job'[j].step = "take"
      /\ \A i \in Jobs : i # j => job'[i] = job[i] /\ job[i].step = "take"
      /\ UNCHANGED <<open, created, got>>
  BY <1>1, SkipIs, EndedIs DEF Record, People, Stopped, JobsInv, Recipients, OneRuns
<1>3. \/ log' = log \union {<<w, c>>} /\ lapses' = lapses
      \/ log' = log /\ w \notin open /\ lapses' = [lapses EXCEPT ![<<w, c>>] = @ + 1]
  BY DEF Record
<1>4. ASSUME NEW u \in open, NEW k \in Kinds
      PROVE  /\ got'[<<u, k>>] <= 1 + lapses'[<<u, k>>]
             /\ ~Accounted(u, k)' => got'[<<u, k>>] <= lapses'[<<u, k>>]
  <2>1. <<u, k>> \in Users \X Kinds
    BY DEF JobsInv, Typed, TypeOK
  <2>2. got'[<<u, k>>] = got[<<u, k>>] /\ lapses'[<<u, k>>] = lapses[<<u, k>>]
    BY <1>1, <1>2, <1>3, <2>1 DEF JobsInv, Typed
  <2>3. Accounted(u, k) => Accounted(u, k)'
    BY <1>2, <1>3 DEF Accounted, AboutToLog
  <2> QED
    BY <2>2, <2>3 DEF SentInv
<1>5. \A i \in Jobs : job'[i].step = "send" => <<job'[i].user, job'[i].pc>> \notin log'
  BY <1>2
<1> QED
  BY <1>2, <1>4, <1>5 DEF SentInv

\* An execution that dies with a message to log leaves a lapse.
LEMMA KillKeeps ==
    ASSUME JobsInv, SentInv, NEW j \in Jobs, Kill(j) PROVE SentInv'
<1> DEFINE w == job[j].user
           c == job[j].pc
<1>1. job \in [Jobs -> Execution]  /\ job[j] \in Execution
  BY DEF JobsInv, Typed
<1>2. /\ job'[j].step = "take"
      /\ \A i \in Jobs : i # j => job'[i] = job[i]
      /\ UNCHANGED <<open, created, got, log>>
  BY <1>1, EndedIs DEF Kill, People, Stopped
<1>3. ASSUME NEW u \in open, NEW k \in Kinds
      PROVE  /\ got'[<<u, k>>] <= 1 + lapses'[<<u, k>>]
             /\ ~Accounted(u, k)' => got'[<<u, k>>] <= lapses'[<<u, k>>]
  <2>1. <<u, k>> \in Users \X Kinds
    BY DEF JobsInv, Typed, TypeOK
  <2>2. /\ got[<<u, k>>] \in Nat /\ lapses[<<u, k>>] \in Nat
        /\ got[<<u, k>>] <= 1 + lapses[<<u, k>>]
        /\ ~Accounted(u, k) => got[<<u, k>>] <= lapses[<<u, k>>]
    BY <2>1 DEF JobsInv, Typed, SentInv
  <2>3. CASE AboutToLog(j, u, k)
    <3>1. lapses'[<<u, k>>] = lapses[<<u, k>>] + 1
      BY <2>1, <2>3 DEF Kill, AboutToLog, JobsInv, Typed
    <3> QED
      BY <1>2, <2>2, <3>1
  <2>4. CASE ~AboutToLog(j, u, k)
    <3>1. lapses'[<<u, k>>] = lapses[<<u, k>>]
      BY <2>1, <2>4 DEF Kill, AboutToLog, JobsInv, Typed
    <3>2. Accounted(u, k) => Accounted(u, k)'
      BY <1>2, <2>4 DEF Accounted, AboutToLog
    <3> QED
      BY <1>2, <2>2, <3>1, <3>2
  <2> QED
    BY <2>3, <2>4
<1>4. \A i \in Jobs : job'[i].step = "send" => <<job'[i].user, job'[i].pc>> \notin log'
  BY <1>2 DEF SentInv
<1> QED
  BY <1>2, <1>3, <1>4 DEF SentInv

LEMMA StepSentInv == JobsInv /\ OneRuns /\ SentInv /\ [Next]_vars => SentInv'
<1> SUFFICES ASSUME JobsInv, OneRuns, SentInv, [Next]_vars PROVE SentInv'
  OBVIOUS
<1>1. ASSUME NEW j \in Jobs,
             Launch(j) \/ Take(j) \/ Check(j) \/ SecondCohort(j) \/ Exit(j) \/ Sigterm(j)
      PROVE  SentInv'
  <2>1. /\ UNCHANGED <<got, lapses, log, open, created>>
        /\ \A i \in Jobs : i # j => job'[i] = job[i]
    BY <1>1, QuietSteps, OneJobMoves DEF People
  <2>2. \A u, k : Accounted(u, k)' <=> Accounted(u, k)
    BY <1>1, <2>1, QuietSteps DEF Accounted
  <2>3. \A i \in Jobs : job'[i].step = "send" => <<job'[i].user, job'[i].pc>> \notin log'
    BY <1>1, <2>1, QuietSteps DEF SentInv
  <2> QED
    BY <2>1, <2>2, <2>3 DEF SentInv
<1>2. ASSUME NEW j \in Jobs, JobStep(j) PROVE SentInv'
  BY <1>1, <1>2, SendKeeps, SendFailsKeeps, RecordKeeps, KillKeeps DEF JobStep
<1>3. CASE PeopleStep
  <2>1. \A u \in open', k \in Kinds : u \notin open => got[<<u, k>>] = 0 /\ lapses[<<u, k>>] \in Nat
    <3>1. \A u \in open', k \in Kinds : <<u, k>> \in Users \X Kinds
      BY <1>3, PeopleMove
    <3> QED
      BY <1>3, <3>1, PeopleMove DEF SentInv, JobsInv, Typed
  <2>2. \A u \in open' \intersect open, k \in Kinds : Accounted(u, k) => Accounted(u, k)'
    <3>1. \A u \in open' \intersect open, k \in Kinds : <<u, k>> \in log => <<u, k>> \in log'
      BY <1>3 DEF PeopleStep, Register, Pay, StartSearch, Unsubscribe, DeleteUser
    <3> QED
      BY <1>3, <3>1, PeopleMove DEF Accounted, AboutToLog
  <2>3. \A u \in Users, k \in Kinds : created'[u] = Never => got'[<<u, k>>] = 0
    BY <1>3, PeopleMove DEF SentInv
  <2>4. \A i \in Jobs : job'[i].step = "send" => <<job'[i].user, job'[i].pc>> \notin log'
    BY <1>3, PeopleMove DEF SentInv
  <2>5. \A u \in open', k \in Kinds :
            /\ got'[<<u, k>>] <= 1 + lapses'[<<u, k>>]
            /\ ~Accounted(u, k)' => got'[<<u, k>>] <= lapses'[<<u, k>>]
    <3> SUFFICES ASSUME NEW u \in open', NEW k \in Kinds
                 PROVE  /\ got[<<u, k>>] <= 1 + lapses[<<u, k>>]
                        /\ ~Accounted(u, k)' => got[<<u, k>>] <= lapses[<<u, k>>]
      BY <1>3, PeopleMove
    <3>1. CASE u \in open
      BY <2>2, <3>1 DEF SentInv
    <3>2. CASE u \notin open
      BY <2>1, <3>2
    <3> QED
      BY <3>1, <3>2
  <2> QED
    BY <2>3, <2>4, <2>5 DEF SentInv
<1>4. CASE NextDay
  <2>1. \A j \in Jobs : job'[j].step = "take" /\ job[j].step = "take"
    BY <1>4, DayEnds, IdleIs
  <2>2. \A u, k : Accounted(u, k)' <=> Accounted(u, k)
    BY <1>4, <2>1, DayEnds DEF Accounted, AboutToLog
  <2> QED
    BY <1>4, <2>1, <2>2, DayEnds DEF SentInv
<1>5. CASE UNCHANGED vars
  BY <1>5 DEF SentInv, Accounted, AboutToLog, vars, People, History
<1> QED
  BY <1>2, <1>3, <1>4, <1>5, NextIs

\* Where executions do not overlap, an account has more than one copy of a message
\* only for sends that never reached the log, however often the job is retried,
\* killed or terminated, and whatever its users do meanwhile.
THEOREM OneCopyButForLapses == ASSUME ~Overlap PROVE Spec => []OnlyALapseRepeats
<1>1. Init => OneRuns /\ SentInv
  BY IdleIs DEF Init, OneRuns, SentInv, Running, Stopped, Accounted, AboutToLog
<1>2. JobsInv /\ SentInv => OnlyALapseRepeats
  <2> SUFFICES ASSUME JobsInv, SentInv, NEW m \in open \X Kinds PROVE got[m] <= 1 + lapses[m]
    BY DEF OnlyALapseRepeats
  <2>1. PICK u \in open, k \in Kinds : m = <<u, k>>
    OBVIOUS
  <2> QED
    BY <2>1 DEF SentInv
<1>3. JobsInv /\ OneRuns /\ [Next]_vars => OneRuns'
  BY StepOneRuns
<1> QED
  BY <1>1, <1>2, <1>3, JobsInvariant, StepSentInv, PTL DEF Spec

-----------------------------------------------------------------------------
(* Cohorts, where the anchor lies in the past; executions may overlap.     *)

\* The members of a cohort are those of a day gone by: nobody joins one.
NotBeforeRegistering == \A u \in Users : created[u] = Never => paid[u] = Never
CleanInv == CohortInv /\ CleanRunMissesNobody /\ NotBeforeRegistering

LEMMA InitCleanInv == Init => CleanInv
BY IdleIs DEF Init, CleanInv, CohortInv, CleanRunMissesNobody, NotBeforeRegistering, Running,
              Stopped

\* What is due to the users who are there, in one execution.
Good(j) ==
    /\ Running(j) =>
          /\ Never < job[j].window  /\ job[j].window < day
          /\ job[j].failed \/ \A u \in open : Due(j, u) =>
                <<u, "checkin">> \in log \/ (job[j].pc = "checkin" /\ u \in job[j].todo)
    /\ job[j].pc = "reminder" =>
          /\ \A u \in job[j].paid : Due(j, u)
          /\ job[j].failed \/ \A u \in open : Reminds(job[j].window, u) =>
                <<u, "reminder">> \in log \/ u \in job[j].todo

PastDays == \A d \in clean : d \in Int /\ Never < d /\ d < day

LEMMA CohortParts == CohortInv <=> PastDays /\ \A j \in Jobs : Good(j)
BY DEF CohortInv, PastDays, Good

LEMMA StoppedIsGood ==
    ASSUME NEW j, job[j].pc \in Stopped PROVE Good(j)
BY DEF Good, Running, Stopped

\* An execution that moves on, with its day and its cohort of payers, and leaves a
\* recipient only for the log or for a reason, or with a failure.
LEMMA MovesOnIsGood ==
    ASSUME JobsInv, NEW j \in Jobs, Good(j), Running(j), UNCHANGED <<day, People>>,
           job'[j].pc = job[j].pc, job'[j].window = job[j].window, job'[j].paid = job[j].paid,
           log \subseteq log',
           job[j].failed => job'[j].failed,
           job'[j].failed \/ \A u \in job[j].todo \ job'[j].todo :
               \/ u \in open => <<u, job[j].pc>> \in log'
               \/ job[j].pc = "reminder" /\ PassedOver(job[j], u)
    PROVE  Good(j)'
<1>0. UNCHANGED <<day, open, created, paid, searched, opted>> /\ Running(j)'
  BY DEF People, Running
<1>1. CASE job[j].pc = "checkin"
  BY <1>0, <1>1 DEF Good, Due
<1>2. CASE job[j].pc = "reminder"
  <2>1. ASSUME ~job'[j].failed, NEW u \in open, Reminds(job[j].window, u)
        PROVE  <<u, "reminder">> \in log' \/ u \in job'[j].todo
    <3>1. ~PassedOver(job[j], u)
      BY <1>2, <2>1 DEF PassedOver, Reminds, Good, Due
    <3>2. <<u, "reminder">> \in log \/ u \in job[j].todo
      BY <1>2, <2>1 DEF Good
    <3> QED
      BY <1>2, <2>1, <3>1, <3>2
  <2> QED
    BY <1>0, <1>2, <2>1 DEF Good, Due, Reminds
<1>3. job[j].pc \in Kinds
  BY DEF JobsInv, Typed, Execution, Running
<1> QED
  BY <1>1, <1>2, <1>3 DEF Kinds

LEMMA JobStepIsGood ==
    ASSUME Anchor > 0, JobsInv, NEW j \in Jobs, Good(j), JobStep(j)
    PROVE  Good(j)' /\ log \subseteq log'
<1>0. /\ job \in [Jobs -> Execution]  /\ job[j] \in Execution  /\ day \in Int /\ Anchor \in Nat
      /\ job[j].step # "take" => Running(j)
  BY MessagingAssumption DEF JobsInv, Typed, TypeOK, Days, Recipients
<1>1. log \subseteq log'
  BY DEF JobStep, Launch, Take, Check, Send, SendFails, Record, SecondCohort, Exit, Sigterm, Kill
<1>2. UNCHANGED <<day, People>> /\ (~Launch(j) => Running(j))
  BY OneJobMoves DEF JobStep
<1>3. ASSUME NEW how \in Stopped, job' = [job EXCEPT ![j] = Ended(j, how)] PROVE Good(j)'
  <2>1. job'[j].pc \in Stopped
    BY <1>0, <1>3, EndedIs
  <2> QED
    BY <2>1 DEF Good, Running, Stopped
<1>4. CASE Launch(j)
  <2>1. Window < day /\ Never < Window
    BY <1>0, <1>4 DEF Launch, Window, Never
  <2>2. \A u \in open : paid[u] = Window => u \in PaidIn(Window)
    BY DEF PaidIn
  <2> QED
    <3>1. UNCHANGED <<day, open, paid>>
      BY <1>2 DEF People
    <3>2. /\ job'[j].pc = "checkin" /\ job'[j].window = Window /\ job'[j].todo = PaidIn(Window)
      BY <1>4, LaunchIs
    <3>3. \A u \in open : paid'[u] = job'[j].window => u \in job'[j].todo
      BY <2>2, <3>1, <3>2
    <3>4. \A u \in open' : Due(j, u)' => u \in job'[j].todo
      BY <3>1, <3>2, <3>3 DEF Due
    <3>5. job'[j].pc # "reminder" /\ Never < job'[j].window /\ job'[j].window < day'
      BY <2>1, <3>1, <3>2
    <3>6. \A u \in open' : Due(j, u)' =>
               <<u, "checkin">> \in log' \/ (job'[j].pc = "checkin" /\ u \in job'[j].todo)
      BY <3>2, <3>4
    <3> QED
      BY <1>1, <3>5, <3>6 DEF Good
<1>5. CASE Take(j)
  <2>1. PICK u \in job[j].todo :
            \/ /\ job' = [job EXCEPT ![j] = [job[j] EXCEPT !.todo = @ \ {u}]]
               /\ job[j].pc = "reminder" /\ PassedOver(job[j], u)
            \/ job' = [job EXCEPT ![j] = Ended(j, "aborted")]
            \/ job' = [job EXCEPT ![j] = [job[j] EXCEPT !.user = u, !.step = "check"]]
    BY <1>5 DEF Take
  <2>2. Running(j)
    BY <1>5 DEF Take
  <2>3. CASE /\ job' = [job EXCEPT ![j] = [job[j] EXCEPT !.todo = @ \ {u}]]
             /\ job[j].pc = "reminder" /\ PassedOver(job[j], u)
    <3>1. /\ job'[j].pc = job[j].pc /\ job'[j].window = job[j].window
          /\ job'[j].paid = job[j].paid /\ job'[j].failed = job[j].failed
          /\ job'[j].todo = job[j].todo \ {u}
      BY <1>0, <2>3 DEF Execution
    <3> QED
      BY <1>1, <1>2, <2>2, <2>3, <3>1, MovesOnIsGood
  <2>4. CASE job' = [job EXCEPT ![j] = [job[j] EXCEPT !.user = u, !.step = "check"]]
    <3>1. /\ job'[j].pc = job[j].pc /\ job'[j].window = job[j].window
          /\ job'[j].paid = job[j].paid /\ job'[j].failed = job[j].failed
          /\ job'[j].todo = job[j].todo
      BY <1>0, <2>4 DEF Execution
    <3> QED
      BY <1>1, <1>2, <2>2, <3>1, MovesOnIsGood
  <2> QED
    <3>0. "aborted" \in Stopped
      BY DEF Stopped
    <3>1. CASE job' = [job EXCEPT ![j] = Ended(j, "aborted")]
      BY <1>1, <1>3, <3>0, <3>1
    <3> QED
      BY <2>1, <2>3, <2>4, <3>1
<1>6. CASE job' = [job EXCEPT ![j] = Skip(j)] /\ Running(j) /\ <<job[j].user, job[j].pc>> \in log'
  <2>1. /\ job'[j].pc = job[j].pc /\ job'[j].window = job[j].window
        /\ job'[j].paid = job[j].paid /\ job'[j].failed = job[j].failed
        /\ job'[j].todo = job[j].todo \ {job[j].user}
    BY <1>0, <1>6, SkipIs
  <2> QED
    BY <1>1, <1>2, <1>6, <2>1, MovesOnIsGood
<1>7. CASE Send(j) \/ Sigterm(j) \/ (Check(j) /\ job' = [job EXCEPT ![j] = [job[j] EXCEPT !.step = "send"]])
  <2>1. /\ job'[j].pc = job[j].pc /\ job'[j].window = job[j].window
        /\ job'[j].paid = job[j].paid /\ job'[j].failed = job[j].failed
        /\ job'[j].todo = job[j].todo
    BY <1>0, <1>7 DEF Send, Sigterm, Execution
  <2>2. Running(j)
    BY <1>0, <1>7 DEF Send, Sigterm, Check
  <2> QED
    BY <1>1, <1>2, <2>1, <2>2, MovesOnIsGood
<1>8. CASE SendFails(j)
  <2>1. /\ job'[j].pc = job[j].pc /\ job'[j].window = job[j].window
        /\ job'[j].paid = job[j].paid /\ job'[j].failed
    BY <1>0, <1>8, SkipIs DEF SendFails, Execution
  <2>2. Running(j)
    BY <1>0, <1>8 DEF SendFails
  <2> QED
    BY <1>1, <1>2, <2>1, <2>2, MovesOnIsGood
<1>9. CASE Check(j) \/ Record(j)
  BY <1>0, <1>3, <1>6, <1>7, <1>9 DEF Check, AlreadySent, Record, Stopped
<1>10. CASE SecondCohort(j) /\ ~job[j].sigterm
  <2>1. /\ job[j].pc = "checkin" /\ job[j].todo = {} /\ Running(j)
    BY <1>10 DEF SecondCohort, Running, Stopped
  <2>2. /\ job'[j].pc = "reminder" /\ job'[j].window = job[j].window
        /\ job'[j].todo = Reminded(job[j].window) /\ job'[j].paid = PaidIn(job[j].window)
        /\ job'[j].failed = job[j].failed
    BY <1>10, SecondIs
  <2>3. UNCHANGED <<day, open, created, paid, searched, opted>>
    BY <1>2 DEF People
  <2>4. \A u \in job'[j].paid : Due(j, u)'
    BY <2>2, <2>3 DEF PaidIn, Due
  <2>5. \A u \in open : Reminds(job[j].window, u) => u \in job'[j].todo
    BY <2>2 DEF Reminds, Reminded, CreatedIn
  <2>6. job[j].failed \/ \A u \in open : Due(j, u) => <<u, "checkin">> \in log
    BY <2>1 DEF Good
  <2>7. Never < job[j].window  /\ job[j].window < day
    BY <2>1 DEF Good
  <2> QED
    BY <1>1, <2>2, <2>3, <2>4, <2>5, <2>6, <2>7 DEF Good, Due, Reminds
<1>11. CASE Exit(j) \/ Kill(j) \/ (SecondCohort(j) /\ job[j].sigterm)
  BY <1>3, <1>11 DEF Exit, Kill, SecondCohort, Stopped
<1> QED
  BY <1>1, <1>4, <1>5, <1>7, <1>8, <1>9, <1>10, <1>11 DEF JobStep

\* An execution that ends without a failure has gone through the cohorts of its day.
LEMMA ExitIsClean ==
    ASSUME JobsInv, CleanInv, NEW j \in Jobs, Exit(j)
    PROVE  PastDays' /\ CleanRunMissesNobody'
<1>1. /\ job[j].pc = "reminder" /\ job[j].todo = {} /\ Running(j)
      /\ UNCHANGED <<day, open, created, paid, searched, opted, log>>
      /\ clean' = IF job[j].failed THEN clean ELSE clean \union {job[j].window}
      /\ job[j].window \in Int
  BY DEF Exit, People, Running, Stopped, JobsInv, Typed, Execution
<1>2. Good(j) /\ PastDays
  BY CohortParts DEF CleanInv
<1>3. PastDays'
  BY <1>1, <1>2 DEF PastDays, Good
<1>4. CASE job[j].failed
  BY <1>1, <1>3, <1>4 DEF CleanInv, CleanRunMissesNobody
<1>5. CASE ~job[j].failed
  <2>1. \A u \in open : paid[u] = job[j].window => <<u, "checkin">> \in log
    BY <1>1, <1>2, <1>5 DEF Good, Due
  <2>2. \A u \in open : Reminds(job[j].window, u) => <<u, "reminder">> \in log
    BY <1>1, <1>2, <1>5 DEF Good
  <2>3. clean' = clean \union {job[j].window}
    BY <1>1, <1>5
  <2>4. CleanRunMissesNobody'
    BY <1>1, <2>1, <2>2, <2>3 DEF CleanInv, CleanRunMissesNobody, Reminds
  <2> QED
    BY <1>3, <2>4
<1> QED
  BY <1>4, <1>5

\* Nobody joins the cohorts of a day gone by.
LEMMA NobodyJoins ==
    ASSUME JobsInv, NotBeforeRegistering, PeopleStep, NEW w \in Int, Never < w, w < day,
           NEW u \in open'
    PROVE  /\ paid'[u] = w => u \in open /\ paid[u] = w
           /\ Reminds(w, u)' => u \in open /\ Reminds(w, u)
           /\ \A k : u \in open /\ <<u, k>> \in log => <<u, k>> \in log'
<1>1. /\ day \in Int /\ open \subseteq Users
      /\ created \in [Users -> 0..MaxDay] /\ paid \in [Users -> 0..MaxDay]
      /\ \A v \in open : created[v] # Never
  BY DEF JobsInv, Typed, TypeOK, Days, Recipients
<1>2. CASE Register
  BY <1>1, <1>2 DEF Register, NotBeforeRegistering, Reminds, Never
<1>3. CASE Pay
  BY <1>1, <1>3 DEF Pay, Reminds, Never
<1>4. CASE StartSearch \/ Unsubscribe
  BY <1>1, <1>4 DEF StartSearch, Unsubscribe, Reminds
<1>5. CASE DeleteUser
  BY <1>1, <1>5 DEF DeleteUser, Reminds
<1> QED
  BY <1>2, <1>3, <1>4, <1>5 DEF PeopleStep

LEMMA StepCleanInv ==
    ASSUME Anchor > 0 PROVE JobsInv /\ CleanInv /\ [Next]_vars => CleanInv'
<1> SUFFICES ASSUME JobsInv, CleanInv, [Next]_vars PROVE CleanInv'
  OBVIOUS
<1>0. PastDays /\ (\A j \in Jobs : Good(j)) /\ NotBeforeRegistering /\ CleanRunMissesNobody
  BY CohortParts DEF CleanInv
<1> SUFFICES (PastDays /\ (\A j \in Jobs : Good(j)) /\ NotBeforeRegistering
                  /\ CleanRunMissesNobody)'
  BY CohortParts, PTL DEF CleanInv
<1>1. ASSUME NEW j \in Jobs, JobStep(j)
      PROVE  (PastDays /\ (\A i \in Jobs : Good(i)) /\ NotBeforeRegistering
                  /\ CleanRunMissesNobody)'
  <2>1. Good(j)' /\ log \subseteq log'
    BY <1>0, <1>1, JobStepIsGood
  <2>2. /\ \A i \in Jobs : i # j => job'[i] = job[i]
        /\ UNCHANGED <<day, open, created, paid, searched, opted>>
    BY <1>1, OneJobMoves DEF JobStep, People
  <2>3. ASSUME NEW i \in Jobs, i # j PROVE Good(i)'
    <3>1. Good(i) /\ job'[i] = job[i]
      BY <1>0, <2>2, <2>3
    <3> QED
      BY <2>1, <2>2, <3>1 DEF Good, Running, Due, Reminds
  <2>4. NotBeforeRegistering'
    BY <1>0, <2>2 DEF NotBeforeRegistering
  <2>5. CASE Exit(j)
    BY <2>1, <2>3, <2>4, <2>5, ExitIsClean
  <2>6. CASE UNCHANGED clean
    <3>1. PastDays' /\ CleanRunMissesNobody'
      BY <1>0, <2>1, <2>2, <2>6 DEF PastDays, CleanRunMissesNobody
    <3> QED
      BY <2>1, <2>3, <2>4, <3>1
  <2> QED
    BY <1>1, <2>5, <2>6
       DEF JobStep, Launch, Take, Check, Send, SendFails, Record, SecondCohort, Sigterm, Kill,
           History
<1>2. CASE PeopleStep
  <2>1. UNCHANGED <<day, job, clean>> /\ open' \subseteq Users
    BY <1>2, PeopleMove
  <2>2. PastDays'
    BY <1>0, <2>1 DEF PastDays
  <2>3. NotBeforeRegistering'
    BY <1>0, <1>2
       DEF NotBeforeRegistering, PeopleStep, Register, Pay, StartSearch, Unsubscribe, DeleteUser,
           JobsInv, Typed, TypeOK, Recipients
  <2>4. \A u \in Users : paid[u] # Never => paid'[u] = paid[u]
    BY <1>2
       DEF PeopleStep, Register, Pay, StartSearch, Unsubscribe, DeleteUser, JobsInv, Typed, TypeOK
  <2>5. ASSUME NEW j \in Jobs PROVE Good(j)'
    <3>1. Good(j) /\ job'[j] = job[j] /\ job[j] \in Execution
      BY <1>0, <2>1 DEF JobsInv, Typed
    <3>2. CASE Running(j)
      <4>1. job[j].window \in Int /\ Never < job[j].window /\ job[j].window < day
        BY <3>1, <3>2 DEF Good, Execution
      <4>2. job[j].failed \/ \A u \in open' : Due(j, u)' =>
                <<u, "checkin">> \in log' \/ (job[j].pc = "checkin" /\ u \in job[j].todo)
        BY <1>0, <1>2, <3>1, <3>2, <4>1, NobodyJoins DEF Good, Due
      <4>3. CASE job[j].pc = "reminder"
        <5>1. \A u \in job[j].paid : Due(j, u)'
          BY <2>4, <3>1, <4>1, <4>3 DEF Good, Due, Execution
        <5>2. job[j].failed \/ \A u \in open' : Reminds(job[j].window, u)' =>
                  <<u, "reminder">> \in log' \/ u \in job[j].todo
          BY <1>0, <1>2, <2>1, <3>1, <4>1, <4>3, NobodyJoins DEF Good
        <5> QED
          BY <2>1, <4>1, <4>2, <4>3, <5>1, <5>2 DEF Good
      <4> QED
        BY <2>1, <4>1, <4>2, <4>3 DEF Good
    <3>3. CASE ~Running(j)
      BY <3>1, <3>3 DEF Good, Running, Stopped
    <3> QED
      BY <3>2, <3>3
  <2>6. CleanRunMissesNobody'
    <3> SUFFICES ASSUME NEW u \in open'
                 PROVE  /\ paid'[u] \in clean => <<u, "checkin">> \in log'
                        /\ \A w \in clean : Reminds(w, u)' => <<u, "reminder">> \in log'
      BY <2>1 DEF CleanRunMissesNobody, Reminds
    <3>1. \A w \in clean : w \in Int /\ Never < w /\ w < day
      BY <1>0 DEF PastDays
    <3>2. paid'[u] \in clean => <<u, "checkin">> \in log'
      BY <1>0, <1>2, <3>1, NobodyJoins DEF CleanRunMissesNobody
    <3>3. ASSUME NEW w \in clean, Reminds(w, u)' PROVE <<u, "reminder">> \in log'
      <4>1. u \in open /\ Reminds(w, u) /\ (<<u, "reminder">> \in log => <<u, "reminder">> \in log')
        BY <1>0, <1>2, <3>1, <3>3, NobodyJoins
      <4> QED
        BY <1>0, <3>3, <4>1 DEF CleanRunMissesNobody, Reminds
    <3> QED
      BY <3>2, <3>3
  <2> QED
    BY <2>2, <2>3, <2>5, <2>6
<1>3. CASE NextDay
  <2>1. \A j \in Jobs : job'[j].pc = "idle"
    BY <1>3, DayEnds, IdleIs
  <2>2. \A j \in Jobs : Good(j)'
    BY <2>1 DEF Good, Running, Stopped
  <2>3. day' = day + 1 /\ day \in Int
    BY <1>3, DayEnds DEF JobsInv, Typed, TypeOK, Days
  <2>4. PastDays' /\ NotBeforeRegistering' /\ CleanRunMissesNobody'
    BY <1>0, <1>3, <2>3, DayEnds DEF PastDays, NotBeforeRegistering, CleanRunMissesNobody
  <2> QED
    BY <2>2, <2>4
<1>4. CASE UNCHANGED vars
  BY <1>0, <1>4
     DEF PastDays, NotBeforeRegistering, CleanRunMissesNobody, Good, Running, Due, Reminds, vars,
         People, History
<1> QED
  BY <1>1, <1>2, <1>3, <1>4, NextIs

\* Where the anchor lies in the past, the day of an execution that met no failure
\* misses nobody: its customers have the check-in, and its other accounts, unless
\* they opted out or searched, the reminder.  Executions may overlap.
THEOREM CleanDaysAreComplete == ASSUME Anchor > 0 PROVE Spec => []CleanRunMissesNobody
<1>1. CleanInv => CleanRunMissesNobody
  BY DEF CleanInv
<1>2. JobsInv /\ CleanInv /\ [Next]_vars => CleanInv'
  BY StepCleanInv
<1> QED
  BY <1>1, <1>2, InitCleanInv, JobsInvariant, PTL DEF Spec

-------------------------------------------------------------------------------
(* Part 2: FreeSearch. *)

(***************************************************************************)
(* The rows: a recording has read what is recorded, unless another one had *)
(* read the row as well.                                                   *)
(***************************************************************************)

ReadRow == [row : UsageRows, count : Nat]

RowTypes ==
    /\ usage \in [UsageRows -> Nat \union {NoRow}]
    /\ recorded \in [UsageRows -> Nat]
    /\ held \in [Requests -> SUBSET ReadRow]
    /\ today \in 0 .. LastDay
    /\ phase \in [Requests -> {"idle", "checked", "scraping", "scraped", "recording",
                                "answered", "failed"}]
    /\ turn \in Requests \union {NoRequest}
    /\ turn # NoRequest => phase[turn] = "scraping"

\* A request holds one row at most, and only while it records.
OneRowHeld == \A r \in Requests : \A h, k \in held[r] : h = k  /\ phase[r] = "recording"

ReadIsRecorded ==
    \A r \in Requests : \A h \in held[r] :
        /\ h.count <= recorded[h.row]
        /\ h.row \notin overlapped => h.count = recorded[h.row]

HeldTwice ==
    \A r, q \in Requests : \A h \in held[r], k \in held[q] :
        r # q /\ h.row = k.row => h.row \in overlapped

UsageInv == RowTypes /\ OneRowHeld /\ ReadIsRecorded /\ HeldTwice /\ CountedOnce

LEMMA UsageInit == SearchInit => UsageInv
<1> SUFFICES ASSUME SearchInit PROVE UsageInv
  OBVIOUS
<1>1. RowTypes
  <2>1. usage \in [UsageRows -> Nat \union {NoRow}] /\ recorded \in [UsageRows -> Nat]
    BY DEF SearchInit
  <2>2. held \in [Requests -> SUBSET ReadRow] /\ today \in 0 .. LastDay
    <3>1. LastDay \in Nat
      BY FreeSearchAssumption
    <3>2. \A r \in Requests : held[r] = {}
      BY DEF SearchInit
    <3> QED
      BY <3>1, <3>2 DEF SearchInit
  <2> QED
    BY <2>1, <2>2 DEF SearchInit, RowTypes
<1>2. OneRowHeld /\ ReadIsRecorded /\ HeldTwice
  BY DEF SearchInit, OneRowHeld, ReadIsRecorded, HeldTwice
<1>3. \A x \in UsageRows : Created(x) = 0 /\ recorded[x] = 0
  BY DEF SearchInit, Created
<1> QED
  BY <1>1, <1>2, <1>3 DEF UsageInv, CountedOnce

\* A step that leaves the rows alone, and the requests that record.
LEMMA RowsStay ==
    ASSUME UsageInv, UNCHANGED rows, RowTypes',
           \A r \in Requests : phase[r] = "recording" => phase'[r] = "recording"
    PROVE  UsageInv'
BY DEF UsageInv, OneRowHeld, ReadIsRecorded, HeldTwice, CountedOnce, Created, rows

\* The row of a request and the day.
LEMMA RowIs == ASSUME UsageInv, NEW r \in Requests PROVE Row(r) \in UsageRows
BY DEF UsageInv, RowTypes, Row, UsageRows, Searchers

LEMMA CreatedIs ==
    ASSUME UsageInv, NEW x \in UsageRows
    PROVE  Created(x) \in Nat  /\ Created(x) <= recorded[x]  /\ recorded[x] \in Nat
BY DEF UsageInv, RowTypes, Created, CountedOnce, NoRow

LEMMA CheckUsageStep ==
    ASSUME UsageInv, NEW r \in Requests, CheckUsage(r)  PROVE UsageInv'
<1>1. Row(r) \in UsageRows /\ Created(Row(r)) \in Nat
  BY RowIs, CreatedIs
<1>2. usage' = [usage EXCEPT ![Row(r)] = Created(Row(r))]
  BY DEF CheckUsage
<1>3. \A x \in UsageRows : Created(x)' = Created(x)
  BY <1>1, <1>2 DEF UsageInv, RowTypes, Created, NoRow
<1>4. /\ UNCHANGED <<recorded, held, overlapped, today, turn>>
      /\ phase[r] = "idle"  /\ phase' = [phase EXCEPT ![r] = "checked"]
  BY DEF CheckUsage, Goes
<1>5. usage' \in [UsageRows -> Nat \union {NoRow}]
  BY <1>1, <1>2 DEF UsageInv, RowTypes
<1> QED
  BY <1>3, <1>4, <1>5 DEF UsageInv, RowTypes, OneRowHeld, ReadIsRecorded, HeldTwice, CountedOnce

LEMMA ReadUsageStep ==
    ASSUME UsageInv, NEW r \in Requests, ReadUsage(r)  PROVE UsageInv'
<1> DEFINE x == Row(r)
           h == [row |-> x, count |-> Created(x)]
<1>1. x \in UsageRows /\ Created(x) \in Nat /\ h \in ReadRow
  BY RowIs, CreatedIs DEF ReadRow
<1>2. /\ held' = [held EXCEPT ![r] = {h}]  /\ UNCHANGED <<usage, recorded, today, turn>>
      /\ overlapped' = overlapped \union {y \in {x} : \E q \in Requests : HoldsRow(q, y)}
      /\ phase[r] = "scraped"
      /\ phase' = [phase EXCEPT ![r] = "recording"]
  BY DEF ReadUsage, Goes
<1>3. RowTypes'
  BY <1>1, <1>2 DEF UsageInv, RowTypes
<1>4. h.row = x /\ h.count = Created(x) /\ Created(x) <= recorded[x]
      /\ (x \notin overlapped => Created(x) = recorded[x])
  BY <1>1 DEF UsageInv, CountedOnce
<1> HIDE DEF h, x
<1>5. \A q \in Requests : held'[q] = IF q = r THEN {h} ELSE held[q]
  BY <1>2 DEF UsageInv, RowTypes
<1>6. \A q \in Requests : q = r => phase'[q] = "recording"
  BY <1>2 DEF UsageInv, RowTypes
<1>7. OneRowHeld'
  <2> SUFFICES ASSUME NEW q \in Requests, NEW a \in held'[q], NEW b \in held'[q]
               PROVE  a = b /\ phase'[q] = "recording"
    BY DEF OneRowHeld
  <2>1. CASE q = r
    BY <1>5, <1>6, <2>1
  <2>2. CASE q # r
    BY <1>2, <1>5, <2>2 DEF UsageInv, OneRowHeld, RowTypes
  <2> QED
    BY <2>1, <2>2
<1>8. ReadIsRecorded'
  BY <1>2, <1>4, <1>5 DEF UsageInv, ReadIsRecorded
<1>9. HeldTwice'
  <2> SUFFICES ASSUME NEW p \in Requests, NEW q \in Requests, NEW a \in held'[p], NEW b \in held'[q],
                      p # q, a.row = b.row
               PROVE  a.row \in overlapped'
    BY DEF HeldTwice
  <2>1. CASE p = r
    <3>1. a = h /\ b \in held[q]
      BY <1>5, <2>1
    <3>2. HoldsRow(q, x)
      BY <1>4, <3>1 DEF HoldsRow
    <3> QED
      BY <1>2, <1>4, <3>1, <3>2
  <2>2. CASE q = r
    <3>1. b = h /\ a \in held[p]
      BY <1>5, <2>2
    <3>2. HoldsRow(p, x)
      BY <1>4, <3>1 DEF HoldsRow
    <3> QED
      BY <1>2, <1>4, <3>1, <3>2
  <2>3. CASE p # r /\ q # r
    BY <1>2, <1>5, <2>3 DEF UsageInv, HeldTwice
  <2> QED
    BY <2>1, <2>2, <2>3
<1>10. CountedOnce'
  BY <1>2 DEF UsageInv, CountedOnce, Created
<1> QED
  BY <1>3, <1>7, <1>8, <1>9, <1>10 DEF UsageInv

LEMMA RecordUsageStep ==
    ASSUME UsageInv, NEW r \in Requests, RecordUsage(r)  PROVE UsageInv'
<1>1. PICK h \in held[r] : /\ usage' = [usage EXCEPT ![h.row] = h.count + 1]
                           /\ recorded' = [recorded EXCEPT ![h.row] = @ + 1]
  BY DEF RecordUsage, RowSaved
<1>2. /\ held' = [held EXCEPT ![r] = {}]  /\ UNCHANGED <<today, overlapped, turn>>
      /\ phase[r] = "recording"  /\ phase' = [phase EXCEPT ![r] = "answered"]
  BY DEF RecordUsage, Goes
<1>3. PICK x \in UsageRows, n \in Nat : h = [row |-> x, count |-> n]
  BY DEF UsageInv, RowTypes, ReadRow
<1>4. h.row = x /\ h.count = n
  BY <1>3
<1>5. n <= recorded[x] /\ recorded[x] \in Nat /\ (x \notin overlapped => n = recorded[x])
  BY <1>4 DEF UsageInv, RowTypes, ReadIsRecorded
<1>6. /\ usage' = [usage EXCEPT ![x] = n + 1]
      /\ recorded' = [recorded EXCEPT ![x] = recorded[x] + 1]
  BY <1>1, <1>4
<1>7. RowTypes'
  BY <1>2, <1>5, <1>6 DEF UsageInv, RowTypes
<1>8. \A q \in Requests : held'[q] = IF q = r THEN {} ELSE held[q]
  BY <1>2 DEF UsageInv, RowTypes
<1>9. OneRowHeld'
  BY <1>2, <1>8 DEF UsageInv, OneRowHeld, RowTypes
<1>10. HeldTwice'
  BY <1>2, <1>8 DEF UsageInv, HeldTwice
<1>11. ReadIsRecorded'
  <2> SUFFICES ASSUME NEW q \in Requests, NEW k \in held'[q]
               PROVE  /\ k.count <= recorded'[k.row]
                      /\ k.row \notin overlapped' => k.count = recorded'[k.row]
    BY DEF ReadIsRecorded
  <2>1. q # r /\ k \in held[q]
    BY <1>8
  <2>2. PICK y \in UsageRows, m \in Nat : k = [row |-> y, count |-> m]
    BY <2>1 DEF UsageInv, RowTypes, ReadRow
  <2>3. k.row = y /\ k.count = m
    BY <2>2
  <2>4. m <= recorded[y] /\ recorded[y] \in Nat /\ (y \notin overlapped => m = recorded[y])
    BY <2>1, <2>3 DEF UsageInv, RowTypes, ReadIsRecorded
  <2>5. y = x => y \in overlapped
    BY <1>4, <2>1, <2>3 DEF UsageInv, HeldTwice
  <2>6. recorded'[y] = IF y = x THEN recorded[x] + 1 ELSE recorded[y]
    BY <1>6 DEF UsageInv, RowTypes
  <2>7. m <= recorded'[y] /\ (y \notin overlapped => m = recorded'[y])
    BY <1>5, <2>4, <2>5, <2>6
  <2> QED
    BY <1>2, <2>3, <2>7
<1>12. CountedOnce'
  <2> SUFFICES ASSUME NEW y \in UsageRows
               PROVE  /\ Created(y)' <= recorded'[y]
                      /\ y \notin overlapped' => Created(y)' = recorded'[y]
    BY DEF CountedOnce
  <2>1. CASE y = x
    <3>1. usage'[y] = n + 1 /\ recorded'[y] = recorded[x] + 1
      BY <1>6, <2>1 DEF UsageInv, RowTypes
    <3>2. Created(y)' = n + 1
      BY <3>1 DEF Created, NoRow
    <3> QED
      BY <1>2, <1>5, <2>1, <3>1, <3>2
  <2>2. CASE y # x
    BY <1>2, <1>6, <2>2 DEF UsageInv, RowTypes, CountedOnce, Created
  <2> QED
    BY <2>1, <2>2
<1> QED
  BY <1>7, <1>9, <1>10, <1>11, <1>12 DEF UsageInv

LEMMA UsageFailsStep ==
    ASSUME UsageInv, NEW r \in Requests, UsageFails(r)  PROVE UsageInv'
<1>1. /\ held' = [held EXCEPT ![r] = {}]
      /\ UNCHANGED <<today, usage, recorded, overlapped, turn>>
      /\ phase[r] # "scraping"  /\ phase' = [phase EXCEPT ![r] = "failed"]
  BY DEF UsageFails, Goes
<1>2. \A q \in Requests : held'[q] = IF q = r THEN {} ELSE held[q]
  BY <1>1 DEF UsageInv, RowTypes
<1>3. RowTypes'
  BY <1>1 DEF UsageInv, RowTypes
<1>4. OneRowHeld' /\ HeldTwice'
  BY <1>1, <1>2 DEF UsageInv, OneRowHeld, HeldTwice, RowTypes
<1>5. ReadIsRecorded'
  BY <1>1, <1>2 DEF UsageInv, ReadIsRecorded
<1>6. CountedOnce'
  BY <1>1 DEF UsageInv, CountedOnce, Created
<1> QED
  BY <1>3, <1>4, <1>5, <1>6 DEF UsageInv

\* The scrapes: a request is scraped for between its check and its recording.
LEMMA ScrapeRows ==
    ASSUME UsageInv, NEW r \in Requests, Scrape(r)  PROVE UsageInv'
<1>1. /\ UNCHANGED rows  /\ today' = today  /\ phase[r] = "checked"  /\ turn' = r
      /\ phase' = [phase EXCEPT ![r] = "scraping"]
  BY DEF Scrape, Goes
<1>2. RowTypes'
  BY <1>1 DEF UsageInv, RowTypes, rows
<1> QED
  BY <1>1, <1>2, RowsStay DEF UsageInv, RowTypes

LEMMA ShutsRows ==
    ASSUME UsageInv, turn # NoRequest, Shuts  PROVE UsageInv'
<1>1. /\ UNCHANGED rows  /\ today' = today  /\ phase[turn] = "scraping"  /\ turn' = NoRequest
      /\ phase' = [phase EXCEPT ![turn] = "scraped"]
  BY DEF Shuts, UsageInv, RowTypes
<1>2. RowTypes'
  BY <1>1 DEF UsageInv, RowTypes, rows
<1> QED
  BY <1>1, <1>2, RowsStay DEF UsageInv, RowTypes

-----------------------------------------------------------------------------
(***************************************************************************)
(* The cards: what was read of the card in hand is the card's, unless the  *)
(* list has moved since.                                                   *)
(***************************************************************************)

Snippet == [title : Offers \union {Nowhere}, link : Offers \union {Nowhere, Results}, moved : BOOLEAN]

Shape ==
    /\ scraper \in Scrapers  /\ jks \subseteq Offers  /\ moved \in BOOLEAN
    /\ title \in Offers \union {Nowhere}  /\ spot \in Offers \union {Nowhere, Results}
    /\ shown \in Seq(Offers)  /\ nth \in Nat  /\ nth > 0

CardInHand ==
    ~moved => /\ step = "open"  => title = shown[nth]
              /\ step = "data"  => shown[nth] \notin Decoys
              /\ step = "offer" => (spot \in Offers => spot = title)

\* Indeed's links are remembered keys, each taken once.
Collected ==
    /\ snippets \in Seq(Snippet)
    /\ \A k \in 1 .. Len(snippets) : ~snippets[k].moved =>
          /\ scraper # "apec" => snippets[k].link = snippets[k].title
          /\ scraper = "indeed" => snippets[k].link \notin Decoys
    /\ scraper = "indeed" =>
          \A k \in 1 .. Len(snippets) :
              /\ snippets[k].link \in jks
              /\ \A j \in 1 .. Len(snippets) : snippets[j].link = snippets[k].link => j = k

LinkInv == Shape /\ CardInHand /\ Collected

LEMMA PagesAre == ASSUME NEW l \in Pages PROVE l \in Seq(Offers)
<1>1. PICK m \in 0 .. MaxCards : l \in [1 .. m -> Offers]
  BY FreeSearchAssumption DEF Pages, SeqOf
<1>2. MaxCards \in Nat
  BY FreeSearchAssumption
<1>3. m \in Nat
  BY <1>2
<1> QED
  BY <1>1, <1>3

LEMMA LinkInit == SearchInit => LinkInv
<1>1. SearchInit => snippets = <<>> /\ Len(snippets) = 0 /\ snippets \in Seq(Snippet)
  BY EmptySeq DEF SearchInit, Fresh
<1>2. SearchInit => Shape
  <2> SUFFICES ASSUME SearchInit PROVE Shape
    OBVIOUS
  <2>1. shown \in Seq(Offers)
    BY EmptySeq DEF SearchInit, Fresh
  <2>2. moved \in BOOLEAN
    BY Zenon DEF SearchInit, Fresh
  <2>3. nth \in Nat /\ nth > 0
    BY SMT DEF SearchInit, Fresh
  <2> QED
    BY <2>1, <2>2, <2>3 DEF SearchInit, Fresh, Shape
<1> QED
  BY <1>1, <1>2 DEF SearchInit, Fresh, LinkInv, CardInHand, Collected

\* Nothing was kept, and no card is in hand.
LEMMA NothingInHand ==
    ASSUME LinkInv, Shape', UNCHANGED <<scraper, snippets, jks>>, step' \notin {"open", "data", "offer"}
    PROVE  LinkInv'
BY DEF LinkInv, CardInHand, Collected

\* One snippet more.
LEMMA OneSnippetMore ==
    ASSUME LinkInv, Shape', scraper' = scraper, step' \notin {"open", "data", "offer"},
           NEW t \in Offers \union {Nowhere}, NEW l \in Offers \union {Nowhere, Results},
           snippets' = Append(snippets, [title |-> t, link |-> l, moved |-> moved]),
           jks \subseteq jks',
           ~moved /\ scraper # "apec" => l = t,
           ~moved /\ scraper = "indeed" => l \notin Decoys,
           scraper = "indeed" => l \notin jks /\ l \in jks'
    PROVE  LinkInv'
<1> DEFINE s == [title |-> t, link |-> l, moved |-> moved]
<1>1. s \in Snippet /\ s.title = t /\ s.link = l /\ s.moved = moved
  BY DEF LinkInv, Shape, Snippet
<1>2. snippets \in Seq(Snippet) /\ snippets' = Append(snippets, s)
  BY DEF LinkInv, Collected
<1> HIDE DEF s
<1>3. PICK n \in Nat : n = Len(snippets)
  BY <1>2
<1>4. /\ snippets' \in Seq(Snippet)  /\ Len(snippets') = n + 1  /\ snippets'[n + 1] = s
      /\ \A k \in 1 .. n : snippets'[k] = snippets[k]
  BY <1>1, <1>2, <1>3
<1>5. ASSUME NEW k \in 1 .. Len(snippets'), ~snippets'[k].moved
      PROVE  /\ scraper # "apec" => snippets'[k].link = snippets'[k].title
             /\ scraper = "indeed" => snippets'[k].link \notin Decoys
  <2>1. CASE k = n + 1
    BY <1>1, <1>4, <1>5, <2>1
  <2>2. CASE k # n + 1
    <3>1. k \in 1 .. n
      BY <1>4, <2>2
    <3> QED
      BY <1>3, <1>4, <1>5, <3>1 DEF LinkInv, Collected
  <2> QED
    BY <2>1, <2>2
<1>6. ASSUME scraper = "indeed", NEW k \in 1 .. Len(snippets')
      PROVE  /\ snippets'[k].link \in jks'
             /\ \A j \in 1 .. Len(snippets') : snippets'[j].link = snippets'[k].link => j = k
  <2>1. \A j \in 1 .. n : snippets'[j].link \in jks
    BY <1>3, <1>4, <1>6 DEF LinkInv, Collected
  <2>2. snippets'[n + 1].link = l /\ l \notin jks /\ l \in jks'
    BY <1>1, <1>4, <1>6
  <2>3. \A i, j \in 1 .. n : snippets'[j].link = snippets'[i].link => j = i
    BY <1>3, <1>4, <1>6 DEF LinkInv, Collected
  <2>4. \A j \in 1 .. n + 1 : j \in 1 .. n \/ j = n + 1
    OBVIOUS
  <2>5. snippets'[k].link \in jks'
    BY <1>4, <2>1, <2>2, <2>4
  <2>6. ASSUME NEW j \in 1 .. Len(snippets'), snippets'[j].link = snippets'[k].link
        PROVE  j = k
    BY <1>4, <2>1, <2>2, <2>3, <2>4, <2>6
  <2> QED
    BY <2>5, <2>6
<1>7. Collected'
  BY <1>4, <1>5, <1>6 DEF Collected
<1> QED
  BY <1>7 DEF LinkInv, CardInHand

LEMMA NthMore == ASSUME Shape, NextCard PROVE nth' \in Nat /\ nth' > 0
BY DEF Shape, NextCard

LEMMA SkipsStep ==
    ASSUME LinkInv, Skips, UNCHANGED scraper  PROVE LinkInv'
<1>1. Shape' /\ step' = "card" /\ UNCHANGED <<snippets, jks>>
  BY NthMore DEF Skips, NextCard, Go, LinkInv, Shape
<1> QED
  BY <1>1, NothingInHand

LEMMA ReadsTitleStep ==
    ASSUME LinkInv, ReadsTitle, UNCHANGED scraper  PROVE LinkInv'
<1>1. CASE Skips
  BY <1>1, SkipsStep
<1>2. CASE CardHere /\ title' = shown[nth] /\ Go("open") /\ UNCHANGED <<nth, shown, spot, harvest>>
  <2>1. shown[nth] \in Offers
    BY <1>2 DEF CardHere, LinkInv, Shape
  <2> QED
    BY <1>2, <2>1 DEF LinkInv, Shape, CardInHand, Collected, Go, harvest
<1> QED
  BY <1>1, <1>2 DEF ReadsTitle

LEMMA IndeedDecoyStep ==
    ASSUME LinkInv, IndeedDecoy  PROVE LinkInv'
<1>1. CASE Skips
  BY <1>1, SkipsStep DEF IndeedDecoy, Reads
<1>2. CASE CardHere /\ ~IsDecoy(shown[nth]) /\ Go("data")
           /\ UNCHANGED <<nth, title, shown, spot, harvest>>
  BY <1>2 DEF LinkInv, Shape, CardInHand, Collected, Go, harvest, IsDecoy, IndeedDecoy, Reads
<1> QED
  BY <1>1, <1>2 DEF IndeedDecoy

LEMMA OpensStep ==
    ASSUME LinkInv, step = "open", Opens, UNCHANGED scraper  PROVE LinkInv'
<1>1. shown[nth] \in Offers
  BY DEF Opens, CardHere, LinkInv, Shape
<1>2. Nowhere \notin Offers /\ Results \notin Offers
  BY FreeSearchAssumption DEF Nowhere, Results
<1>3. UNCHANGED <<nth, title, shown, moved, snippets, jks, scraper>> /\ step' = "offer"
  BY DEF Opens, Go, harvest
<1>4. spot' \in Offers => spot' = shown[nth]
  BY <1>2 DEF Opens
<1>5. Shape'
  BY <1>1, <1>3 DEF LinkInv, Shape, Opens
<1>6. CardInHand'
  BY <1>3, <1>4 DEF LinkInv, CardInHand
<1> QED
  BY <1>3, <1>5, <1>6 DEF LinkInv, Collected

\* Back to the results.
LEMMA ReturnsIs ==
    ASSUME LinkInv, Returns, UNCHANGED scraper, moved' = FALSE, jks' = jks
    PROVE  Shape' /\ step' = "card"
BY PagesAre, NthMore DEF Returns, NextCard, Go, LinkInv, Shape

LEMMA LeavesStep ==
    ASSUME LinkInv, Returns, Leaves, UNCHANGED scraper  PROVE LinkInv'
BY ReturnsIs, NothingInHand DEF Leaves

LEMMA HwOfferStep ==
    ASSUME LinkInv, HwOffer  PROVE LinkInv'
<1>1. UNCHANGED scraper /\ scraper = "hw" /\ step = "offer" /\ Returns
  BY DEF HwOffer, Reads, In
<1>2. CASE Leaves
  BY <1>1, <1>2, LeavesStep
<1>3. CASE IsOffer /\ Keeps(spot)
  <2>1. Shape' /\ step' = "card"
    BY <1>1, <1>3, ReturnsIs DEF Keeps
  <2>2. ~moved => spot = title
    BY <1>1, <1>3 DEF LinkInv, CardInHand, IsOffer
  <2>3. snippets' = Append(snippets, [title |-> title, link |-> spot, moved |-> moved])
        /\ jks' = jks
    BY <1>3 DEF Keeps, Appends
  <2>4. title \in Offers \union {Nowhere} /\ spot \in Offers \union {Nowhere, Results}
    BY DEF LinkInv, Shape
  <2> QED
    BY <1>1, <2>1, <2>2, <2>3, <2>4, OneSnippetMore
<1> QED
  BY <1>2, <1>3 DEF HwOffer

LEMMA ApecOfferStep ==
    ASSUME LinkInv, ApecOffer  PROVE LinkInv'
<1>1. UNCHANGED scraper /\ scraper = "apec" /\ Returns /\ Keeps(spot)
  BY DEF ApecOffer, Reads, In
<1>2. Shape' /\ step' = "card"
  BY <1>1, ReturnsIs DEF Keeps
<1>3. snippets' = Append(snippets, [title |-> title, link |-> spot, moved |-> moved])
      /\ jks' = jks
  BY <1>1 DEF Keeps, Appends
<1>4. title \in Offers \union {Nowhere} /\ spot \in Offers \union {Nowhere, Results}
  BY DEF LinkInv, Shape
<1> QED
  BY <1>1, <1>2, <1>3, <1>4, OneSnippetMore

LEMMA WttjLinkStep ==
    ASSUME LinkInv, WttjLink  PROVE LinkInv'
<1>1. UNCHANGED <<scraper, shown, spot>> /\ scraper = "wttj" /\ step = "open" /\ NextCard
  BY DEF WttjLink, Reads, In
<1>2. ASSUME moved' = FALSE, jks' = jks PROVE Shape' /\ step' = "card"
  BY <1>1, <1>2, NthMore DEF NextCard, Go, LinkInv, Shape
<1>3. CASE Leaves
  BY <1>1, <1>2, <1>3, NothingInHand DEF Leaves
<1>4. CASE CardHere /\ Keeps(shown[nth])
  <2>1. Shape' /\ step' = "card"
    BY <1>2, <1>4 DEF Keeps
  <2>2. ~moved => shown[nth] = title
    BY <1>1 DEF LinkInv, CardInHand
  <2>3. snippets' = Append(snippets, [title |-> title, link |-> shown[nth], moved |-> moved])
        /\ jks' = jks
    BY <1>4 DEF Keeps, Appends
  <2>4. title \in Offers \union {Nowhere} /\ shown[nth] \in Offers
    BY <1>4 DEF LinkInv, Shape, CardHere
  <2> QED
    BY <1>1, <2>1, <2>2, <2>3, <2>4, OneSnippetMore
<1> QED
  BY <1>3, <1>4 DEF WttjLink

LEMMA IndeedDataStep ==
    ASSUME LinkInv, IndeedData  PROVE LinkInv'
<1>1. /\ UNCHANGED <<scraper, shown, spot>>  /\ scraper = "indeed"  /\ step = "data"  /\ NextCard
      /\ moved' = FALSE
  BY DEF IndeedData, Reads, In
<1>2. ASSUME jks' \subseteq Offers PROVE Shape' /\ step' = "card"
  BY <1>1, <1>2, NthMore DEF NextCard, Go, LinkInv, Shape
<1>3. CASE UNCHANGED <<snippets, jks>>
  BY <1>1, <1>2, <1>3, NothingInHand DEF LinkInv, Shape
<1>4. CASE /\ CardHere  /\ IsNewKey(shown[nth])
           /\ jks' = jks \union {shown[nth]}
           /\ snippets' = Append(snippets, [title |-> shown[nth], link |-> shown[nth], moved |-> moved])
  <2>1. shown[nth] \in Offers
    BY <1>4 DEF LinkInv, Shape, CardHere
  <2>2. Shape' /\ step' = "card"
    BY <1>2, <1>4, <2>1 DEF LinkInv, Shape
  <2>3. ~moved => shown[nth] \notin Decoys
    BY <1>1 DEF LinkInv, CardInHand
  <2>4. shown[nth] \notin jks
    BY <1>4 DEF IsNewKey
  <2> QED
    BY <1>1, <1>4, <2>1, <2>2, <2>3, <2>4, OneSnippetMore
<1> QED
  BY <1>3, <1>4 DEF IndeedData

LEMMA ListMovesStep ==
    ASSUME LinkInv, ListMoves  PROVE LinkInv'
BY PagesAre DEF ListMoves, LinkInv, Shape, CardInHand, Collected

LEMMA WalksStep ==
    ASSUME LinkInv, Walks, step' \notin {"open", "data", "offer"}  PROVE LinkInv'
<1>1. Shape' /\ UNCHANGED <<scraper, snippets, jks>>
  BY DEF Walks, harvest, LinkInv, Shape
<1> QED
  BY <1>1, NothingInHand

LEMMA ArrivesStep ==
    ASSUME LinkInv, Arrives \/ Stays, UNCHANGED <<scraper, harvest>>, step' \notin {"open", "data", "offer"}
    PROVE LinkInv'
<1>1. Shape' /\ UNCHANGED <<scraper, snippets, jks>>
  BY PagesAre DEF Arrives, Stays, harvest, LinkInv, Shape
<1> QED
  BY <1>1, NothingInHand

LEMMA ShutsStep ==
    ASSUME LinkInv, Shuts  PROVE LinkInv'
<1>1. snippets' \in Seq(Snippet) /\ Len(snippets') = 0 /\ shown' \in Seq(Offers)
  BY EmptySeq DEF Shuts, Restarted
<1>2. moved' \in BOOLEAN  /\ moved' = FALSE
  BY Zenon DEF Shuts, Restarted
<1>4. nth' \in Nat /\ nth' > 0
  BY SMT DEF Shuts, Restarted
<1>3. Shape'
  BY <1>1, <1>2, <1>4 DEF Shuts, Restarted, LinkInv, Shape
<1> QED
  BY <1>1, <1>3 DEF Shuts, Restarted, LinkInv, CardInHand, Collected

-----------------------------------------------------------------------------
(***************************************************************************)
(* What is open. *)
(***************************************************************************)

\* Only Indeed's scraper has a display while it runs.
OpenInv ==
    /\ parts \in 0 .. 4  /\ screen \in BOOLEAN  /\ scraper \in Scrapers
    /\ turn # NoRequest /\ screen => scraper = "indeed"
    /\ NothingLeftOpen

LEMMA OpenInit == SearchInit => OpenInv
<1> SUFFICES ASSUME SearchInit PROVE OpenInv
  OBVIOUS
<1>1. screen \in BOOLEAN /\ ~screen
  BY Zenon DEF SearchInit
<1>2. parts \in 0 .. 4 /\ ~(parts > 0)
  BY SMT DEF SearchInit
<1> QED
  BY <1>1, <1>2 DEF SearchInit, OpenInv, NothingLeftOpen

LEMMA ScrapeOpens ==
    ASSUME OpenInv, NEW r \in Requests, Scrape(r), screen' \in BOOLEAN,
           screen' = FALSE \/ scraper = "indeed"
    PROVE  OpenInv'
<1>1. r # NoRequest
  BY FreeSearchAssumption DEF NoRequest
<1>2. parts' \in 0 .. 4 /\ scraper' = scraper /\ turn' = r
  BY DEF Scrape
<1> QED
  BY <1>1, <1>2 DEF OpenInv, NothingLeftOpen

LEMMA ShutsOpen ==
    ASSUME OpenInv, Shuts, screen' \in BOOLEAN, "browser" \in stuck' <=> parts' > 0,
           screen' => "screen" \in stuck'
    PROVE  OpenInv'
<1>1. parts' \in 0 .. 4 /\ scraper' = scraper /\ turn' = NoRequest
  BY DEF Shuts, OpenInv
<1> QED
  BY <1>1 DEF OpenInv, NothingLeftOpen

-----------------------------------------------------------------------------
(***************************************************************************)
(* Every step. *)
(***************************************************************************)

SearchInv == UsageInv /\ LinkInv /\ OpenInv

\* A step of a scraper between its launch and its end.
LEMMA OnTheWay ==
    ASSUME SearchInv, UNCHANGED <<scraper, today, rows, phase, turn, machine>>, LinkInv'
    PROVE  SearchInv'
<1>1. RowTypes'
  BY DEF SearchInv, UsageInv, RowTypes, rows
<1>2. UsageInv'
  BY <1>1, RowsStay DEF SearchInv
<1>3. OpenInv'
  BY DEF SearchInv, OpenInv, NothingLeftOpen, machine
<1> QED
  BY <1>2, <1>3 DEF SearchInv

\* From the home page to the results.
LEMMA Walking ==
    ASSUME SearchInv,
           \/ HwHome \/ ApecHome \/ ApecMenu \/ WttjHome \/ IndeedHome
           \/ HwSubmit \/ ApecSubmit \/ WttjSubmit \/ IndeedSubmit \/ IndeedDirect
    PROVE  SearchInv'
<1>1. Walks /\ step' \notin {"open", "data", "offer"}
  BY DEF HwHome, ApecHome, ApecMenu, WttjHome, IndeedHome, HwSubmit, ApecSubmit, WttjSubmit,
         IndeedSubmit, IndeedDirect, In, Finds, Misses, Raises, Go
<1>2. LinkInv'
  BY <1>1, WalksStep DEF SearchInv
<1> QED
  BY <1>1, <1>2, OnTheWay DEF Walks

LEMMA AtTheResults ==
    ASSUME SearchInv, HwResults \/ ApecResults \/ WttjResults \/ IndeedResults
    PROVE  SearchInv'
<1>1. /\ Arrives \/ Stays
      /\ step' \notin {"open", "data", "offer"}
      /\ UNCHANGED <<scraper, today, rows, phase, turn, harvest, machine>>
  BY DEF HwResults, ApecResults, WttjResults, IndeedResults, In, ShowsResults, CountsCards, Misses,
         Raises, Go
<1>2. LinkInv'
  BY <1>1, ArrivesStep DEF SearchInv
<1> QED
  BY <1>1, <1>2, OnTheWay

LEMMA AtACard ==
    ASSUME SearchInv,
           \/ HwTitle \/ ApecTitle \/ WttjTitle \/ IndeedDecoy \/ HwOpen \/ ApecOpen
           \/ HwOffer \/ ApecOffer \/ WttjLink \/ IndeedData \/ ListMoves
    PROVE  SearchInv'
<1>1. UNCHANGED <<scraper, today, rows, phase, turn, machine>>
  BY DEF HwTitle, ApecTitle, WttjTitle, IndeedDecoy, HwOpen, ApecOpen, HwOffer, ApecOffer, WttjLink,
         IndeedData, ListMoves, Reads
<1>2. LinkInv
  BY DEF SearchInv
<1>3. CASE HwTitle \/ ApecTitle \/ WttjTitle
  BY <1>1, <1>2, <1>3, ReadsTitleStep, OnTheWay DEF HwTitle, ApecTitle, WttjTitle
<1>4. CASE HwOpen \/ ApecOpen
  <2>1. step = "open" /\ (Opens \/ (Returns /\ Leaves))
    BY <1>4 DEF HwOpen, ApecOpen, In
  <2> QED
    BY <1>1, <1>2, <2>1, OpensStep, LeavesStep, OnTheWay
<1>5. CASE IndeedDecoy \/ HwOffer \/ ApecOffer \/ WttjLink \/ IndeedData \/ ListMoves
  BY <1>1, <1>2, <1>5, IndeedDecoyStep, HwOfferStep, ApecOfferStep, WttjLinkStep, IndeedDataStep,
     ListMovesStep, OnTheWay
<1> QED
  BY <1>3, <1>4, <1>5

LEMMA TurningThePage ==
    ASSUME SearchInv, HwPagination \/ ApecPagination \/ WttjPagination \/ IndeedPagination
    PROVE  SearchInv'
<1>1. Pagination
  BY DEF HwPagination, ApecPagination, WttjPagination, IndeedPagination
<1>2. /\ Arrives \/ Stays
      /\ step' \notin {"open", "data", "offer"}
      /\ UNCHANGED <<scraper, today, rows, phase, turn, harvest, machine>>
  BY <1>1 DEF Pagination, Turns, Go
<1>3. LinkInv'
  BY <1>2, ArrivesStep DEF SearchInv
<1> QED
  BY <1>2, <1>3, OnTheWay

\* The end of a scrape, whatever the closes raised.
LEMMA Closing ==
    ASSUME SearchInv, HwClose \/ ApecClose \/ WttjClose \/ IndeedClose
    PROVE  SearchInv'
<1>1. Shuts /\ turn # NoRequest
  BY DEF HwClose, ApecClose, WttjClose, IndeedClose, In
<1>2. UsageInv' /\ LinkInv'
  BY <1>1, ShutsRows, ShutsStep DEF SearchInv
<1>3. CASE HwClose \/ ApecClose \/ WttjClose
  <2>1. screen' = screen /\ stuck' = StuckParts /\ scraper # "indeed"
    BY <1>3 DEF HwClose, ApecClose, WttjClose, In
  <2>2. ~screen /\ screen \in BOOLEAN
    BY <1>1, <2>1 DEF SearchInv, OpenInv
  <2>3. "browser" \in stuck' <=> parts' > 0
    BY <2>1 DEF StuckParts
  <2>4. OpenInv'
    BY <1>1, <2>1, <2>2, <2>3, ShutsOpen DEF SearchInv
  <2> QED
    BY <1>2, <2>4 DEF SearchInv
<1>4. CASE IndeedClose
  <2>1. screen' \in BOOLEAN /\ (screen' => "screen" \in stuck')
    BY <1>4 DEF IndeedClose, StopsScreen, SearchInv, OpenInv
  <2>2. "browser" \in stuck' <=> parts' > 0
    BY <1>4 DEF IndeedClose, StuckParts
  <2>3. OpenInv'
    BY <1>1, <2>1, <2>2, ShutsOpen DEF SearchInv
  <2> QED
    BY <1>2, <2>3 DEF SearchInv
<1> QED
  BY <1>3, <1>4

LEMMA Launching ==
    ASSUME SearchInv, NEW r \in Requests,
           HwBrowser(r) \/ ApecBrowser(r) \/ WttjBrowser(r) \/ IndeedBrowser(r)
    PROVE  SearchInv'
<1>1. /\ Scrape(r)  /\ screen' \in BOOLEAN
      /\ screen' = FALSE \/ scraper = "indeed"
  BY DEF HwBrowser, ApecBrowser, WttjBrowser, IndeedBrowser
<1>2. UsageInv' /\ OpenInv'
  BY <1>1, ScrapeRows, ScrapeOpens DEF SearchInv
<1>3. LinkInv'
  <2>1. UNCHANGED <<scraper, place, harvest>> /\ step' \in {"home", "close"}
    BY <1>1 DEF Scrape, Go
  <2>2. Shape'
    BY <2>1 DEF SearchInv, LinkInv, Shape, place, harvest
  <2> QED
    BY <2>1, <2>2, NothingInHand DEF SearchInv, harvest
<1> QED
  BY <1>2, <1>3 DEF SearchInv

\* The unit of a look-up or a recording, and the clock.
LEMMA AtTheDesk ==
    ASSUME SearchInv,
           \/ Midnight
           \/ \E r \in Requests : CheckUsage(r) \/ ReadUsage(r) \/ RecordUsage(r) \/ UsageFails(r)
    PROVE  SearchInv'
<1>1. UNCHANGED <<scraper, turn, step, place, harvest, machine>>
  BY DEF Midnight, CheckUsage, ReadUsage, RecordUsage, UsageFails
<1>2. LinkInv' /\ OpenInv'
  BY <1>1 DEF SearchInv, LinkInv, Shape, CardInHand, Collected, OpenInv, NothingLeftOpen, place,
              harvest, machine
<1>3. CASE Midnight
  <2>1. UNCHANGED <<rows, phase, turn>> /\ today' = today + 1 /\ today < LastDay
    BY <1>3 DEF Midnight
  <2>2. LastDay \in Nat
    BY FreeSearchAssumption
  <2>3. today' \in 0 .. LastDay
    BY <2>1, <2>2 DEF SearchInv, UsageInv, RowTypes
  <2>4. RowTypes'
    BY <2>1, <2>3 DEF SearchInv, UsageInv, RowTypes, rows
  <2>5. UsageInv'
    BY <2>1, <2>4, RowsStay DEF SearchInv
  <2> QED
    BY <1>2, <2>5 DEF SearchInv
<1>4. ASSUME NEW r \in Requests, CheckUsage(r) \/ ReadUsage(r) \/ RecordUsage(r) \/ UsageFails(r)
      PROVE  SearchInv'
  BY <1>2, <1>4, CheckUsageStep, ReadUsageStep, RecordUsageStep, UsageFailsStep DEF SearchInv
<1> QED
  BY <1>3, <1>4

LEMMA SearchInvAlways == SearchSpec => []SearchInv
<1>1. SearchInit => SearchInv
  BY UsageInit, LinkInit, OpenInit DEF SearchInv
<1>2. ASSUME SearchInv, [SearchNext]_searchVars PROVE SearchInv'
  <2>1. CASE ScraperStep
    BY <1>2, <2>1, Walking, AtTheResults, AtACard, TurningThePage, Closing
       DEF ScraperStep, HwStep, ApecStep, WttjStep, IndeedStep
  <2>2. ASSUME NEW r \in Requests, RequestStep(r) PROVE SearchInv'
    BY <1>2, <2>2, Launching, AtTheDesk DEF RequestStep
  <2>3. CASE ListMoves \/ Midnight
    BY <1>2, <2>3, AtACard, AtTheDesk
  <2>4. CASE UNCHANGED searchVars
    <3>1. UNCHANGED <<scraper, today, rows, phase, turn, step, place, harvest, machine>>
      BY <2>4 DEF searchVars
    <3>2. LinkInv'
      BY <1>2, <3>1 DEF SearchInv, LinkInv, Shape, CardInHand, Collected, place, harvest
    <3> QED
      BY <1>2, <3>1, <3>2, OnTheWay
  <2> QED
    BY <1>2, <2>1, <2>2, <2>3, <2>4 DEF SearchNext
<1> QED
  BY <1>1, <1>2, PTL DEF SearchSpec

\* free_search_use_cases.py: the row of a user and a day counts the searches that were
\* recorded on it, for any number of requests that look up, record or fail at once.
THEOREM SearchesAreCounted == SearchSpec => []CountedOnce
<1>1. SearchInv => CountedOnce
  BY DEF SearchInv, UsageInv
<1> QED
  BY <1>1, SearchInvAlways, PTL

\* The scrapers without an account: a snippet's link is that of its title, however the
\* list moves, and Indeed's are no decoys and each taken once.
THEOREM LinksAreTrue == SearchSpec => []LinksFollowTitles
<1>1. SearchInv => LinksFollowTitles
  <2> SUFFICES ASSUME SearchInv PROVE LinksFollowTitles
    OBVIOUS
  <2>1. DOMAIN snippets = 1 .. Len(snippets)
    BY DEF SearchInv, LinkInv, Collected
  <2> QED
    BY <2>1 DEF SearchInv, LinkInv, Collected, LinksFollowTitles, IsInjective
<1> QED
  BY <1>1, SearchInvAlways, PTL

\* The finally of each scraper: however a scrape ended, what is still open is what
\* raised when it was closed.
THEOREM ScrapesClose == SearchSpec => []NothingLeftOpen
<1>1. SearchInv => NothingLeftOpen
  BY DEF SearchInv, OpenInv
<1> QED
  BY <1>1, SearchInvAlways, PTL

-------------------------------------------------------------------------------
(* Part 3: ProgressRelay. *)

(***************************************************************************)
(* Types. A bar is any value the aggregation computes.                     *)
(***************************************************************************)

Tally  == [Bands \X Boards -> Nat \X Nat]
AnyBar == {0} \union {Bar(cs, band) : cs \in Tally, band \in Bands}
Sent   == [via : Runs, of : Runs, kind : {"work", "error", "end"}, bar : AnyBar]

RunTypes ==
    /\ deploy \in {"cloud", "local", "memory"}
    /\ pc \in [Runs -> {"idle", "dispatched", "working", "crashed", "closing",
                        "ended", "dead"}]
    /\ outcome \in [Runs -> {"none", "ok", "raised", "cancelled"}]
    /\ callback \in [Processes -> [Boards -> Runs \union {NoRun}]]
    /\ counts \in [Runs -> Tally]
    /\ done \in [Runs -> [Boards -> Nat]]
    /\ sending \in [Runs -> [Boards -> Sent \union {NoFrame}]]
    /\ published \in [Runs -> Seq(Sent)]

LEMMA NoFrameIsNotSent == NoFrame \notin Sent
<1>1. \A f \in Sent : f.kind # "none"
  BY DEF Sent
<1> QED
  BY <1>1 DEF NoFrame

LEMMA OwnFramesAreSent ==
    ASSUME NEW r \in Runs
    PROVE  /\ Alert(r) \in Sent  /\ Alert(r).via = r  /\ Alert(r).kind = "error"
           /\ Sentinel(r) \in Sent  /\ Sentinel(r).via = r  /\ Sentinel(r).kind = "end"
<1>1. 0 \in AnyBar
  BY DEF AnyBar
<1> QED
  BY <1>1 DEF Sent, Alert, Sentinel

LEMMA PublishTypes ==
    ASSUME NEW f \in Sent, published \in [Runs -> Seq(Sent)], Publish(f)
    PROVE  /\ published' \in [Runs -> Seq(Sent)]
           /\ f.via \in Runs
           /\ published'[f.via] = Append(published[f.via], f)
           /\ \A r \in Runs \ {f.via} : published'[r] = published[r]
<1>1. f.via \in Runs
  BY DEF Sent
<1>2. published' = [published EXCEPT ![f.via] = Append(published[f.via], f)]
  BY DEF Publish
<1>3. Append(published[f.via], f) \in Seq(Sent)
  <2>1. published[f.via] \in Seq(Sent)
    BY <1>1
  <2> QED
    BY <2>1
<1> QED
  BY <1>1, <1>2, <1>3

\* The frame a worker emits.
LEMMA EmittedIsSent ==
    ASSUME RunTypes, NEW r \in Runs, NEW b \in Boards, NEW n \in Nat,
           n <= Assigned[r][b], NEW c \in Runs
    PROVE  LET total == CountTotal(r, b, n)
               cs == [counts[c] EXCEPT ![<<Band(r), b>>] = <<n, total>>]
           IN  /\ cs \in Tally
               /\ [via |-> c, of |-> r, kind |-> "work",
                   bar |-> IF total = 0 THEN 0 ELSE Bar(cs, Band(r))] \in Sent
<1> DEFINE total == CountTotal(r, b, n)
           cs == [counts[c] EXCEPT ![<<Band(r), b>>] = <<n, total>>]
<1>1. total \in Nat
  <2>1. MaxJobs \in Nat /\ Assigned[r][b] \in Nat
    BY RunsAssumption
  <2>2. PICK a \in Nat : a = Assigned[r][b]
    BY <2>1
  <2> QED
    BY <2>1, <2>2 DEF CountTotal
<1>2. Band(r) \in Bands
  BY DEF Band, Bands
<1>3. cs \in Tally
  <2>1. counts[c] \in Tally
    BY DEF RunTypes
  <2>2. <<n, total>> \in Nat \X Nat
    BY <1>1
  <2> HIDE DEF total
  <2> QED
    BY <2>1, <2>2 DEF Tally
<1>4. (IF total = 0 THEN 0 ELSE Bar(cs, Band(r))) \in AnyBar
  <2> HIDE DEF total, cs
  <2> QED
    BY <1>2, <1>3 DEF AnyBar
<1> QED
  <2> HIDE DEF total, cs
  <2>1. [via |-> c, of |-> r, kind |-> "work",
         bar |-> IF total = 0 THEN 0 ELSE Bar(cs, Band(r))] \in Sent
    BY <1>4 DEF Sent
  <2> QED
    BY <1>3, <2>1 DEF total, cs

LEMMA RunTypesInit == RelayInit => RunTypes
<1> SUFFICES ASSUME RelayInit PROVE RunTypes
  OBVIOUS
<1>1. deploy \in {"cloud", "local", "memory"}
  BY RunsAssumption DEF RelayInit
<1>2. counts \in [Runs -> Tally]
  <2>1. [k \in Bands \X Boards |-> <<0, 0>>] \in Tally
    BY DEF Tally
  <2> QED
    BY <2>1 DEF RelayInit
<1>3. published \in [Runs -> Seq(Sent)]
  <2>1. <<>> \in Seq(Sent)
    BY EmptySeq
  <2> QED
    BY <2>1 DEF RelayInit
<1>4. /\ pc \in [Runs -> {"idle", "dispatched", "working", "crashed", "closing",
                         "ended", "dead"}]
      /\ outcome \in [Runs -> {"none", "ok", "raised", "cancelled"}]
      /\ callback \in [Processes -> [Boards -> Runs \union {NoRun}]]
      /\ done \in [Runs -> [Boards -> Nat]]
      /\ sending \in [Runs -> [Boards -> Sent \union {NoFrame}]]
  BY DEF RelayInit
<1> QED
  BY <1>1, <1>2, <1>3, <1>4 DEF RunTypes

LEMMA CallbackTypes ==
    ASSUME RunTypes, NEW r \in Runs, NEW to \in Runs \union {NoRun}, SetCallbacks(r, to)
    PROVE  /\ callback' \in [Processes -> [Boards -> Runs \union {NoRun}]]
           /\ Process(r) \in Processes
           /\ \A b \in Boards : callback'[Process(r)][b] =
                 IF b \in Attached(r) THEN to ELSE callback[Process(r)][b]
           /\ \A p \in Processes : p # Process(r) => callback'[p] = callback[p]
<1>1. Process(r) \in Processes
  BY DEF Process, Processes
<1>2. callback \in [Processes -> [Boards -> Runs \union {NoRun}]]
  BY DEF RunTypes
<1> DEFINE new == [b \in Boards |-> IF b \in Attached(r) THEN to ELSE callback[Process(r)][b]]
<1>3. new \in [Boards -> Runs \union {NoRun}]
  <2>1. callback[Process(r)] \in [Boards -> Runs \union {NoRun}]
    BY <1>1, <1>2
  <2> QED
    BY <2>1
<1>4. callback' = [callback EXCEPT ![Process(r)] = new]
  BY DEF SetCallbacks
<1>5. \A b \in Boards : new[b] = IF b \in Attached(r) THEN to ELSE callback[Process(r)][b]
  OBVIOUS
<1> HIDE DEF new
<1> QED
  BY <1>1, <1>2, <1>3, <1>4, <1>5

\* What one emission does to the types: through no callback, or a frame of it.
LEMMA EmitTypes ==
    ASSUME RunTypes, NEW r \in Runs, NEW b \in Boards, Emit(r, b)
    PROVE  RunTypes'
<1> DEFINE c == callback[Process(r)][b]
           n == done[r][b] + 1
           total == CountTotal(r, b, n)
           cs == [counts[c] EXCEPT ![<<Band(r), b>>] = <<n, total>>]
           f == [via |-> c, of |-> r, kind |-> "work",
                 bar |-> IF total = 0 THEN 0 ELSE Bar(cs, Band(r))]
<1>1. done[r][b] \in Nat /\ n \in Nat
  <2>1. done[r][b] \in Nat
    BY DEF RunTypes
  <2> QED
    BY <2>1
<1>2. done' \in [Runs -> [Boards -> Nat]]
  <2>1. done' = [done EXCEPT ![r][b] = n]
    BY DEF Emit
  <2>2. done \in [Runs -> [Boards -> Nat]]
    BY DEF RunTypes
  <2> HIDE DEF n
  <2> QED
    BY <1>1, <2>1, <2>2
<1>3. UNCHANGED <<deploy, pc, outcome, callback>>
  BY DEF Emit
<1>4. CASE c = NoRun \/ (r \notin Starts /\ b \in Muted)
  <2>1. UNCHANGED <<counts, sending, published>>
    BY <1>4 DEF Emit
  <2> QED
    BY <1>2, <1>3, <2>1 DEF RunTypes
<1>5. CASE ~(c = NoRun \/ (r \notin Starts /\ b \in Muted))
  <2>1. c \in Runs
    <3>1. Process(r) \in Processes
      BY DEF Process, Processes
    <3>2. c \in Runs \union {NoRun}
      BY <3>1 DEF RunTypes
    <3> QED
      BY <1>5, <3>2
  <2>2. n <= Assigned[r][b]
    BY DEF Emit
  <2>3. cs \in Tally /\ f \in Sent
    <3> HIDE DEF c, n
    <3> QED
      BY <1>1, <2>1, <2>2, EmittedIsSent
  <2>4. counts' \in [Runs -> Tally]
    <3>1. counts' = IF total = 0 THEN counts ELSE [counts EXCEPT ![c] = cs]
      BY <1>5 DEF Emit
    <3>2. counts \in [Runs -> Tally]
      BY DEF RunTypes
    <3> HIDE DEF c, cs, total
    <3> QED
      BY <2>1, <2>3, <3>1, <3>2
  <2>5. IF Redis
        THEN sending' = [sending EXCEPT ![r][b] = f] /\ UNCHANGED published
        ELSE Publish(f) /\ UNCHANGED sending
    BY <1>5 DEF Emit
  <2>6. sending' \in [Runs -> [Boards -> Sent \union {NoFrame}]]
    <3>1. sending \in [Runs -> [Boards -> Sent \union {NoFrame}]]
      BY DEF RunTypes
    <3> HIDE DEF f
    <3> QED
      BY <2>3, <2>5, <3>1
  <2>7. published' \in [Runs -> Seq(Sent)]
    <3>1. published \in [Runs -> Seq(Sent)]
      BY DEF RunTypes
    <3> HIDE DEF f
    <3> QED
      BY <2>3, <2>5, <3>1, PublishTypes
  <2> QED
    BY <1>2, <1>3, <2>4, <2>6, <2>7 DEF RunTypes
<1> QED
  BY <1>4, <1>5

LEMMA RunTypesStep == RunTypes /\ [RelayNext]_relayVars => RunTypes'
<1> SUFFICES ASSUME RunTypes, [RelayNext]_relayVars PROVE RunTypes'
  OBVIOUS
<1>1. CASE UNCHANGED <<deploy, runVars, published>>
  BY <1>1 DEF RunTypes, runVars
<1>2. ASSUME NEW r \in Runs, NEW streamed \in BOOLEAN, Ask(r, streamed)
      PROVE  RunTypes'
  <2>1. pc' \in [Runs -> {"idle", "dispatched", "working", "crashed", "closing",
                          "ended", "dead"}]
    BY <1>2 DEF Ask, RunTypes
  <2> QED
    BY <1>2, <2>1 DEF Ask, RunTypes
<1>3. ASSUME NEW r \in Runs, NEW f \in Sent, Publish(f),
             UNCHANGED <<deploy, callback, counts, done>>,
             pc' \in [Runs -> {"idle", "dispatched", "working", "crashed", "closing",
                               "ended", "dead"}],
             outcome' \in [Runs -> {"none", "ok", "raised", "cancelled"}],
             sending' \in [Runs -> [Boards -> Sent \union {NoFrame}]]
      PROVE  RunTypes'
  <2>1. published' \in [Runs -> Seq(Sent)]
    BY <1>3, PublishTypes DEF RunTypes
  <2> QED
    BY <1>3, <2>1 DEF RunTypes
<1>4. ASSUME NEW r \in Runs, LoadFails(r) PROVE RunTypes'
  <2>1. Alert(r) \in Sent /\ Publish(Alert(r))
    BY <1>4, OwnFramesAreSent DEF LoadFails
  <2>2. pc' \in [Runs -> {"idle", "dispatched", "working", "crashed", "closing",
                          "ended", "dead"}]
    BY <1>4 DEF LoadFails, RunTypes
  <2>3. outcome' \in [Runs -> {"none", "ok", "raised", "cancelled"}]
    BY <1>4 DEF LoadFails, RunTypes
  <2>4. sending' \in [Runs -> [Boards -> Sent \union {NoFrame}]]
    BY <1>4 DEF LoadFails, RunTypes
  <2> QED
    BY <1>3, <1>4, <2>1, <2>2, <2>3, <2>4 DEF LoadFails
<1>5. ASSUME NEW r \in Runs, Attach(r) PROVE RunTypes'
  <2>1. callback' \in [Processes -> [Boards -> Runs \union {NoRun}]]
    BY <1>5, CallbackTypes DEF Attach
  <2>2. pc' \in [Runs -> {"idle", "dispatched", "working", "crashed", "closing",
                          "ended", "dead"}]
    BY <1>5 DEF Attach, RunTypes
  <2> QED
    BY <1>5, <2>1, <2>2 DEF Attach, RunTypes
<1>6. ASSUME NEW r \in Runs, NEW b \in Boards, SendFrame(r, b) PROVE RunTypes'
  <2>1. sending[r][b] \in Sent /\ Publish(sending[r][b])
    BY <1>6 DEF SendFrame, RunTypes
  <2>2. sending' \in [Runs -> [Boards -> Sent \union {NoFrame}]]
    BY <1>6 DEF SendFrame, RunTypes
  <2>3. pc' = pc /\ outcome' = outcome
    BY <1>6 DEF SendFrame
  <2> QED
    BY <1>3, <1>6, <2>1, <2>2, <2>3 DEF SendFrame, RunTypes
<1>7. ASSUME NEW r \in Runs, NEW raises \in BOOLEAN, Return(r, raises) PROVE RunTypes'
  <2>1. callback' \in [Processes -> [Boards -> Runs \union {NoRun}]]
    BY <1>7, CallbackTypes DEF Return, ClearCallbacks
  <2>2. pc' \in [Runs -> {"idle", "dispatched", "working", "crashed", "closing",
                          "ended", "dead"}]
    BY <1>7 DEF Return, RunTypes
  <2>3. outcome' \in [Runs -> {"none", "ok", "raised", "cancelled"}]
    BY <1>7 DEF Return, RunTypes
  <2> QED
    BY <1>7, <2>1, <2>2, <2>3 DEF Return, RunTypes
<1>8. ASSUME NEW r \in Runs, Report(r) \/ Finish(r) PROVE RunTypes'
  <2>1. \E f \in Sent : Publish(f)
    BY <1>8, OwnFramesAreSent DEF Report, Finish, ReportCrash, EndChannel
  <2>2. pc' \in [Runs -> {"idle", "dispatched", "working", "crashed", "closing",
                          "ended", "dead"}]
    BY <1>8 DEF Report, Finish, RunTypes
  <2>3. UNCHANGED <<deploy, outcome, callback, counts, done, sending>>
    BY <1>8 DEF Report, Finish
  <2> QED
    BY <1>3, <1>8, <2>1, <2>2, <2>3 DEF RunTypes
<1>9. ASSUME NEW r \in Runs, Preempt(r) \/ Die(r) PROVE RunTypes'
  <2>1. callback' \in [Processes -> [Boards -> Runs \union {NoRun}]]
    <3>1. CASE Preempt(r)
      BY <3>1, CallbackTypes DEF Preempt, ClearCallbacks
    <3>2. CASE Die(r)
      BY <3>2 DEF Die, RunTypes
    <3> QED
      BY <1>9, <3>1, <3>2
  <2>2. pc' \in [Runs -> {"idle", "dispatched", "working", "crashed", "closing",
                          "ended", "dead"}]
    BY <1>9 DEF Preempt, Die, RunTypes
  <2>3. outcome' \in [Runs -> {"none", "ok", "raised", "cancelled"}]
    BY <1>9 DEF Preempt, Die, RunTypes
  <2>4. sending' \in [Runs -> [Boards -> Sent \union {NoFrame}]]
    <3>1. sending' = [sending EXCEPT ![r] = [b \in Boards |-> NoFrame]]
      BY <1>9 DEF Preempt, Die
    <3>2. [b \in Boards |-> NoFrame] \in [Boards -> Sent \union {NoFrame}]
      OBVIOUS
    <3> QED
      BY <3>1, <3>2 DEF RunTypes
  <2> QED
    BY <1>9, <2>1, <2>2, <2>3, <2>4 DEF Preempt, Die, RunTypes
<1>10. ASSUME NEW r \in Runs, Subscribe(r) \/ Read(r) \/ Leave(r) \/ Disconnect(r)
       PROVE  RunTypes'
  BY <1>1, <1>10 DEF Subscribe, Read, Leave, Disconnect
<1> QED
  BY <1>1, <1>2, <1>4, <1>5, <1>6, <1>7, <1>8, <1>9, <1>10, EmitTypes
     DEF RelayNext, Works, relayVars

(***************************************************************************)
(* The sentinel: a worker holds the callback of a run at work, so nothing   *)
(* is published for a run that has ended.                                  *)
(***************************************************************************)

HeldByWorking ==
    \A p \in Processes, b \in Boards :
        LET c == callback[p][b]
        IN  c # NoRun => /\ Process(c) = p  /\ b \in Attached(c)
                         /\ pc[c] = "working" \/ (deploy = "cloud" /\ pc[c] = "dead")

InFlight ==
    \A r \in Runs, b \in Boards :
        sending[r][b] # NoFrame =>
            /\ deploy = "cloud"  /\ pc[r] = "working"
            /\ sending[r][b].via = r  /\ sending[r][b].kind = "work"

ClosedWell(r) ==
    /\ \A i \in DOMAIN published[r] :
          published[r][i].kind = "end" => i = Len(published[r]) /\ pc[r] = "ended"
    /\ pc[r] = "ended" => \E i \in DOMAIN published[r] : published[r][i].kind = "end"
    /\ pc[r] \in {"closing", "ended"} /\ r \notin Starts /\ outcome[r] = "raised"
          => Told(r)

SentinelInv ==
    deploy # "local" =>
        /\ HeldByWorking  /\ InFlight
        /\ \A r \in Runs : ClosedWell(r)

LEMMA ClosedWellStays ==
    ASSUME NEW r \in Runs, ClosedWell(r), published'[r] = published[r],
           pc'[r] = pc[r], outcome'[r] = outcome[r]
    PROVE  ClosedWell(r)'
BY DEF ClosedWell, Told

\* A step of a run that publishes nothing.
LEMMA ClosedWellMoves ==
    ASSUME NEW r \in Runs, ClosedWell(r), published'[r] = published[r],
           pc[r] # "ended", pc'[r] # "ended",
           pc'[r] = "closing" => r \in Starts \/ outcome'[r] # "raised"
    PROVE  ClosedWell(r)'
BY DEF ClosedWell

\* A frame other than the sentinel.
LEMMA ClosedWellPublishes ==
    ASSUME NEW r \in Runs, NEW f \in Sent, ClosedWell(r), f.kind # "end",
           published[r] \in Seq(Sent), published'[r] = Append(published[r], f),
           pc[r] # "ended", pc'[r] # "ended",
           f.kind = "error" \/ pc'[r] # "closing"
    PROVE  ClosedWell(r)'
<1>1. /\ Len(published'[r]) = Len(published[r]) + 1
      /\ DOMAIN published[r] = 1 .. Len(published[r])
      /\ DOMAIN published'[r] = 1 .. Len(published[r]) + 1
      /\ published'[r][Len(published[r]) + 1] = f
      /\ \A i \in DOMAIN published[r] : published'[r][i] = published[r][i]
      /\ Len(published[r]) \in Nat
  OBVIOUS
<1>2. \A i \in DOMAIN published'[r] : published'[r][i].kind # "end"
  BY <1>1 DEF ClosedWell
<1>3. f.kind = "error" => Told(r)'
  BY <1>1 DEF Told
<1> QED
  BY <1>2, <1>3 DEF ClosedWell

\* The sentinel.
LEMMA ClosedWellEnds ==
    ASSUME NEW r \in Runs, ClosedWell(r), published[r] \in Seq(Sent),
           published'[r] = Append(published[r], Sentinel(r)),
           pc[r] = "closing", pc'[r] = "ended", outcome'[r] = outcome[r]
    PROVE  ClosedWell(r)'
<1>1. /\ Len(published'[r]) = Len(published[r]) + 1
      /\ DOMAIN published[r] = 1 .. Len(published[r])
      /\ DOMAIN published'[r] = 1 .. Len(published[r]) + 1
      /\ published'[r][Len(published[r]) + 1].kind = "end"
      /\ \A i \in DOMAIN published[r] : published'[r][i] = published[r][i]
      /\ Len(published[r]) \in Nat
  BY OwnFramesAreSent
<1>2. \A i \in DOMAIN published[r] : published[r][i].kind # "end"
  BY DEF ClosedWell
<1>3. Told(r) => Told(r)'
  BY <1>1 DEF Told
<1> QED
  BY <1>1, <1>2, <1>3 DEF ClosedWell

LEMMA DeployStays == [RelayNext]_relayVars => deploy' = deploy
<1> SUFFICES ASSUME [RelayNext]_relayVars PROVE deploy' = deploy
  OBVIOUS
<1>1. ASSUME NEW r \in Runs, NEW streamed \in BOOLEAN, Ask(r, streamed)
      PROVE  deploy' = deploy
  BY <1>1 DEF Ask
<1>2. ASSUME NEW r \in Runs, NEW b \in Boards, Emit(r, b) \/ SendFrame(r, b)
      PROVE  deploy' = deploy
  BY <1>2 DEF Emit, SendFrame
<1>3. ASSUME NEW r \in Runs, NEW raises \in BOOLEAN, Return(r, raises)
      PROVE  deploy' = deploy
  BY <1>3 DEF Return
<1>4. ASSUME NEW r \in Runs,
             \/ Subscribe(r) \/ Read(r) \/ Leave(r) \/ Disconnect(r)
             \/ LoadFails(r) \/ Attach(r) \/ Report(r) \/ Finish(r)
             \/ Preempt(r) \/ Die(r)
      PROVE  deploy' = deploy
  BY <1>4 DEF Subscribe, Read, Leave, Disconnect, LoadFails, Attach, Report, Finish,
              Preempt, Die
<1>5. UNCHANGED relayVars => deploy' = deploy
  BY DEF relayVars
<1> QED
  BY <1>1, <1>2, <1>3, <1>4, <1>5 DEF RelayNext, Works

LEMMA SentinelInit == RelayInit => SentinelInv
<1> SUFFICES ASSUME RelayInit PROVE SentinelInv
  OBVIOUS
<1>1. HeldByWorking
  BY DEF RelayInit, HeldByWorking
<1>2. InFlight
  BY DEF RelayInit, InFlight
<1>3. \A r \in Runs : ClosedWell(r)
  <2>1. \A r \in Runs : published[r] = <<>> /\ pc[r] = "idle"
    BY DEF RelayInit
  <2>2. DOMAIN <<>> = {}
    OBVIOUS
  <2> QED
    BY <2>1, <2>2 DEF ClosedWell
<1> QED
  BY <1>1, <1>2, <1>3 DEF SentinelInv

LEMMA SentinelStep ==
    RunTypes /\ SentinelInv /\ [RelayNext]_relayVars => SentinelInv'
<1> SUFFICES ASSUME RunTypes, SentinelInv, [RelayNext]_relayVars, deploy # "local"
             PROVE  /\ HeldByWorking'  /\ InFlight'
                    /\ \A q \in Runs : ClosedWell(q)'
  BY DeployStays DEF SentinelInv
<1>a. HeldByWorking /\ InFlight /\ (\A q \in Runs : ClosedWell(q))
  BY DEF SentinelInv
<1>b. RunTypes'
  BY RunTypesStep
<1>c. deploy \in {"cloud", "memory"}
  BY DEF RunTypes
<1>n. ASSUME NEW r \in Runs, UNCHANGED <<deploy, callback>>,
             \A q \in Runs \ {r} : pc'[q] = pc[q],
             pc[r] # "working" \/ (deploy = "cloud" /\ pc'[r] = "dead"),
             pc[r] # "dead"
      PROVE  HeldByWorking'
  <2>1. \A q \in Runs \ {r} : pc'[q] = pc[q]
    BY <1>n
  <2> SUFFICES ASSUME NEW p \in Processes, NEW b \in Boards, callback[p][b] # NoRun
               PROVE  /\ Process(callback[p][b]) = p  /\ b \in Attached(callback[p][b])
                      /\ pc'[callback[p][b]] = "working"
                           \/ (deploy = "cloud" /\ pc'[callback[p][b]] = "dead")
    BY <1>n DEF HeldByWorking, Attached, Process
  <2>2. callback[p][b] \in Runs
    BY DEF RunTypes
  <2>3. /\ Process(callback[p][b]) = p  /\ b \in Attached(callback[p][b])
        /\ pc[callback[p][b]] = "working"
             \/ (deploy = "cloud" /\ pc[callback[p][b]] = "dead")
    BY <1>a DEF HeldByWorking
  <2>4. Process(callback[p][b]) = p
    BY <1>n, <2>3 DEF Process
  <2> QED
    BY <1>n, <2>1, <2>2, <2>3, <2>4
<1>1. CASE UNCHANGED <<deploy, pc, outcome, callback, sending, published>>
  BY <1>1, <1>a, ClosedWellStays DEF HeldByWorking, InFlight, Process, Attached
<1>2. ASSUME NEW r \in Runs, NEW streamed \in BOOLEAN, Ask(r, streamed)
      PROVE  HeldByWorking' /\ InFlight' /\ \A q \in Runs : ClosedWell(q)'
  <2>1. /\ pc[r] = "idle"
        /\ pc'[r] \in {"idle", "dispatched"}
        /\ \A q \in Runs \ {r} : pc'[q] = pc[q]
        /\ UNCHANGED <<deploy, outcome, callback, sending, published>>
    BY <1>2 DEF Ask, RunTypes
  <2>2. HeldByWorking'
    BY <1>n, <2>1
  <2>3. InFlight'
    BY <1>a, <2>1 DEF InFlight
  <2>4. \A q \in Runs : ClosedWell(q)'
    BY <1>a, <2>1, ClosedWellStays, ClosedWellMoves
  <2> QED
    BY <2>2, <2>3, <2>4
<1>3. ASSUME NEW r \in Runs, LoadFails(r) \/ Report(r) \/ Finish(r)
      PROVE  HeldByWorking' /\ InFlight' /\ \A q \in Runs : ClosedWell(q)'
  <2>1. /\ pc[r] \in {"dispatched", "crashed", "closing"}
        /\ \A q \in Runs \ {r} : pc'[q] = pc[q] /\ outcome'[q] = outcome[q]
        /\ UNCHANGED <<deploy, callback, sending>>
    BY <1>3 DEF LoadFails, Report, Finish, RunTypes
  <2>2. HeldByWorking'
    BY <1>n, <2>1
  <2>3. InFlight'
    BY <1>a, <2>1 DEF InFlight
  <2>4. CASE LoadFails(r) \/ Report(r)
    <3>1. Publish(Alert(r)) /\ pc'[r] = "closing" /\ pc[r] # "ended"
      BY <2>4 DEF LoadFails, Report, ReportCrash, RunTypes
    <3>2. /\ published'[r] = Append(published[r], Alert(r))
          /\ \A q \in Runs \ {r} : published'[q] = published[q]
      <4>1. Alert(r) \in Sent /\ Alert(r).via = r /\ published \in [Runs -> Seq(Sent)]
        BY OwnFramesAreSent DEF RunTypes
      <4> QED
        BY <3>1, <4>1, PublishTypes
    <3>3. published[r] \in Seq(Sent) /\ ClosedWell(r)
      BY <1>a DEF RunTypes
    <3>4. ClosedWell(r)'
      BY <3>1, <3>2, <3>3, OwnFramesAreSent, ClosedWellPublishes
    <3> QED
      BY <1>a, <2>1, <2>2, <2>3, <3>2, <3>4, ClosedWellStays
  <2>5. CASE Finish(r)
    <3>1. /\ Publish(Sentinel(r)) /\ pc'[r] = "ended" /\ pc[r] = "closing"
          /\ outcome'[r] = outcome[r]
      BY <2>5 DEF Finish, EndChannel, RunTypes
    <3>2. /\ published'[r] = Append(published[r], Sentinel(r))
          /\ \A q \in Runs \ {r} : published'[q] = published[q]
      <4>1. Sentinel(r) \in Sent /\ Sentinel(r).via = r /\ published \in [Runs -> Seq(Sent)]
        BY OwnFramesAreSent DEF RunTypes
      <4> QED
        BY <3>1, <4>1, PublishTypes
    <3>3. published[r] \in Seq(Sent) /\ ClosedWell(r)
      BY <1>a DEF RunTypes
    <3>4. ClosedWell(r)'
      BY <3>1, <3>2, <3>3, ClosedWellEnds
    <3> QED
      BY <1>a, <2>1, <2>2, <2>3, <3>2, <3>4, ClosedWellStays
  <2> QED
    BY <1>3, <2>4, <2>5
<1>4. ASSUME NEW r \in Runs, Attach(r)
      PROVE  HeldByWorking' /\ InFlight' /\ \A q \in Runs : ClosedWell(q)'
  <2>1. /\ pc[r] = "dispatched"  /\ pc'[r] = "working"
        /\ \A q \in Runs \ {r} : pc'[q] = pc[q]
        /\ UNCHANGED <<deploy, outcome, sending, published>>
        /\ SetCallbacks(r, r)
    BY <1>4 DEF Attach, RunTypes
  <2>2. HeldByWorking'
    <3> SUFFICES ASSUME NEW p \in Processes, NEW b \in Boards, callback'[p][b] # NoRun
                 PROVE  /\ Process(callback'[p][b]) = p  /\ b \in Attached(callback'[p][b])
                        /\ pc'[callback'[p][b]] = "working"
                             \/ (deploy = "cloud" /\ pc'[callback'[p][b]] = "dead")
      BY <2>1 DEF HeldByWorking, Attached, Process
    <3>1. CASE p = Process(r) /\ b \in Attached(r)
      <4>1. callback'[p][b] = r
        BY <2>1, <3>1, CallbackTypes
      <4> QED
        BY <2>1, <3>1, <4>1
    <3>2. CASE ~(p = Process(r) /\ b \in Attached(r))
      <4>1. callback'[p][b] = callback[p][b]
        BY <2>1, <3>2, CallbackTypes
      <4>2. /\ Process(callback[p][b]) = p  /\ b \in Attached(callback[p][b])
            /\ pc[callback[p][b]] = "working"
                 \/ (deploy = "cloud" /\ pc[callback[p][b]] = "dead")
        BY <1>a, <4>1 DEF HeldByWorking
      <4>3. callback[p][b] \in Runs \ {r}
        BY <2>1, <4>1, <4>2 DEF RunTypes
      <4>5. Process(callback'[p][b]) = p
        BY <2>1, <4>1, <4>2 DEF Process
      <4> QED
        BY <2>1, <4>1, <4>2, <4>3, <4>5
    <3> QED
      BY <3>1, <3>2
  <2>3. InFlight'
    BY <1>a, <2>1 DEF InFlight
  <2>4. \A q \in Runs : ClosedWell(q)'
    BY <1>a, <2>1, ClosedWellStays, ClosedWellMoves
  <2> QED
    BY <2>2, <2>3, <2>4
<1>5. ASSUME NEW r \in Runs, SetCallbacks(r, NoRun), pc[r] \in {"working", "crashed"},
             \A q \in Runs \ {r} : pc'[q] = pc[q],
             deploy' = deploy
      PROVE  HeldByWorking'
  <2>1. \A q \in Runs \ {r} : pc'[q] = pc[q]
    BY <1>5
  <2> SUFFICES ASSUME NEW p \in Processes, NEW b \in Boards, callback'[p][b] # NoRun
               PROVE  /\ Process(callback'[p][b]) = p  /\ b \in Attached(callback'[p][b])
                      /\ pc'[callback'[p][b]] = "working"
                           \/ (deploy = "cloud" /\ pc'[callback'[p][b]] = "dead")
    BY <1>5 DEF HeldByWorking, Attached, Process
  <2>2. ~(p = Process(r) /\ b \in Attached(r)) /\ callback'[p][b] = callback[p][b]
    BY <1>5, CallbackTypes
  <2>3. /\ Process(callback[p][b]) = p  /\ b \in Attached(callback[p][b])
        /\ pc[callback[p][b]] = "working"
             \/ (deploy = "cloud" /\ pc[callback[p][b]] = "dead")
    BY <1>a, <2>2 DEF HeldByWorking
  <2>4. callback[p][b] \in Runs \ {r}
    BY <2>2, <2>3 DEF RunTypes
  <2>5. Process(callback'[p][b]) = p
    BY <1>5, <2>2, <2>3 DEF Process
  <2> QED
    BY <1>5, <2>1, <2>2, <2>3, <2>4, <2>5
<1>6. ASSUME NEW r \in Runs, NEW raises \in BOOLEAN, Return(r, raises)
      PROVE  HeldByWorking' /\ InFlight' /\ \A q \in Runs : ClosedWell(q)'
  <2>1. /\ pc[r] = "working"  /\ pc'[r] \in {"crashed", "closing"}
        /\ pc'[r] = "closing" => r \in Starts \/ outcome'[r] # "raised"
        /\ \A q \in Runs \ {r} : pc'[q] = pc[q] /\ outcome'[q] = outcome[q]
        /\ UNCHANGED <<deploy, sending, published>>
        /\ SetCallbacks(r, NoRun)
        /\ Quiet(r)
    BY <1>6 DEF Return, ClearCallbacks, RunTypes
  <2>2. HeldByWorking'
    BY <1>5, <2>1
  <2>3. InFlight'
    BY <1>a, <2>1 DEF InFlight, Quiet
  <2>4. \A q \in Runs : ClosedWell(q)'
    BY <1>a, <2>1, ClosedWellStays, ClosedWellMoves
  <2> QED
    BY <2>2, <2>3, <2>4
<1>7. ASSUME NEW r \in Runs, Preempt(r) \/ Die(r)
      PROVE  HeldByWorking' /\ InFlight' /\ \A q \in Runs : ClosedWell(q)'
  <2>1. /\ pc[r] \notin {"ended", "dead"}  /\ pc'[r] \in {"closing", "dead"}
        /\ pc'[r] = "closing" => outcome'[r] = "cancelled"
        /\ \A q \in Runs \ {r} : pc'[q] = pc[q] /\ outcome'[q] = outcome[q]
        /\ UNCHANGED <<deploy, published>>
        /\ \A b \in Boards : sending'[r][b] = NoFrame
        /\ \A q \in Runs \ {r} : sending'[q] = sending[q]
    BY <1>7 DEF Preempt, Die, RunTypes
  <2>2. HeldByWorking'
    <3>1. CASE Preempt(r)
      BY <1>5, <2>1, <3>1 DEF Preempt, ClearCallbacks
    <3>2. CASE Die(r)
      <4>1. pc'[r] = "dead" /\ deploy = "cloud" /\ UNCHANGED callback
        BY <3>2 DEF Die, RunTypes
      <4> QED
        BY <1>n, <2>1, <4>1
    <3> QED
      BY <1>7, <3>1, <3>2
  <2>3. InFlight'
    <3> SUFFICES ASSUME NEW q \in Runs, NEW b \in Boards, sending'[q][b] # NoFrame
                 PROVE  /\ deploy = "cloud"  /\ pc'[q] = "working"
                        /\ sending'[q][b].via = q  /\ sending'[q][b].kind = "work"
      BY <2>1 DEF InFlight
    <3>1. q # r
      BY <2>1
    <3>2. sending[q][b] = sending'[q][b] /\ pc'[q] = pc[q]
      BY <2>1, <3>1
    <3> QED
      BY <1>a, <3>2 DEF InFlight
  <2>4. \A q \in Runs : ClosedWell(q)'
    BY <1>a, <2>1, ClosedWellStays, ClosedWellMoves
  <2> QED
    BY <2>2, <2>3, <2>4
<1>8. ASSUME NEW r \in Runs, NEW f \in Sent, Publish(f), f.kind = "work",
             pc[f.via] = "working", UNCHANGED <<pc, outcome>>
      PROVE  \A q \in Runs : ClosedWell(q)'
  <2>1. /\ f.via \in Runs
        /\ published'[f.via] = Append(published[f.via], f)
        /\ \A q \in Runs \ {f.via} : published'[q] = published[q]
    BY <1>8, PublishTypes DEF RunTypes
  <2>2. published[f.via] \in Seq(Sent) /\ ClosedWell(f.via)
    BY <1>a, <2>1 DEF RunTypes
  <2>3. ClosedWell(f.via)'
    BY <1>8, <2>1, <2>2, ClosedWellPublishes
  <2> QED
    BY <1>8, <1>a, <2>1, <2>3, ClosedWellStays
<1>9. ASSUME NEW r \in Runs, NEW b \in Boards, SendFrame(r, b)
      PROVE  HeldByWorking' /\ InFlight' /\ \A q \in Runs : ClosedWell(q)'
  <2>1. /\ sending[r][b] # NoFrame  /\ Publish(sending[r][b])
        /\ sending[r][b] \in Sent
        /\ UNCHANGED <<deploy, pc, outcome, callback>>
    BY <1>9 DEF SendFrame, RunTypes
  <2>2. pc[r] = "working" /\ sending[r][b].via = r /\ sending[r][b].kind = "work"
    BY <1>a, <2>1 DEF InFlight
  <2>3. \A q \in Runs : ClosedWell(q)'
    BY <1>8, <2>1, <2>2
  <2>4. HeldByWorking'
    BY <1>a, <2>1 DEF HeldByWorking, Process, Attached
  <2>5. InFlight'
    <3>1. \A q \in Runs, d \in Boards :
             sending'[q][d] = sending[q][d] \/ sending'[q][d] = NoFrame
      BY <1>9 DEF SendFrame, RunTypes
    <3> QED
      BY <1>a, <2>1, <3>1 DEF InFlight
  <2> QED
    BY <2>3, <2>4, <2>5
<1>10. ASSUME NEW r \in Runs, NEW b \in Boards, Emit(r, b)
       PROVE  HeldByWorking' /\ InFlight' /\ \A q \in Runs : ClosedWell(q)'
  <2> DEFINE c == callback[Process(r)][b]
             n == done[r][b] + 1
             total == CountTotal(r, b, n)
             cs == [counts[c] EXCEPT ![<<Band(r), b>>] = <<n, total>>]
             f == [via |-> c, of |-> r, kind |-> "work",
                   bar |-> IF total = 0 THEN 0 ELSE Bar(cs, Band(r))]
  <2>1. pc[r] = "working" /\ UNCHANGED <<deploy, pc, outcome, callback>>
    BY <1>10 DEF Emit
  <2>2. HeldByWorking'
    BY <1>a, <2>1 DEF HeldByWorking, Process, Attached
  <2>3. CASE c = NoRun \/ (r \notin Starts /\ b \in Muted)
    <3>1. UNCHANGED <<sending, published>>
      BY <1>10, <2>3 DEF Emit
    <3> QED
      BY <1>1, <2>1, <3>1
  <2>4. CASE ~(c = NoRun \/ (r \notin Starts /\ b \in Muted))
    <3>1. Process(r) \in Processes
      BY DEF Process, Processes
    <3>2. c \in Runs
      BY <2>4, <3>1 DEF RunTypes
    <3>3. Process(c) = Process(r) /\ (pc[c] = "working" \/ (deploy = "cloud" /\ pc[c] = "dead"))
      BY <1>a, <2>4, <3>1 DEF HeldByWorking
    <3>4. deploy = "cloud" => c = r
      <4> HIDE DEF c
      <4> QED
        BY <3>2, <3>3 DEF Process
    <3>5. pc[c] = "working"
      BY <1>c, <2>1, <3>3, <3>4
    <3>6. f.via = c /\ f.kind = "work"
      OBVIOUS
    <3>7. IF Redis
          THEN sending' = [sending EXCEPT ![r][b] = f] /\ UNCHANGED published
          ELSE Publish(f) /\ UNCHANGED sending
      BY <1>10, <2>4 DEF Emit
    <3>8. f \in Sent
      <4>1. done[r][b] \in Nat
        BY DEF RunTypes
      <4>2. n \in Nat /\ n <= Assigned[r][b]
        BY <1>10, <4>1 DEF Emit
      <4> HIDE DEF c, n
      <4> QED
        BY <3>2, <4>2, EmittedIsSent
    <3> HIDE DEF f
    <3>9. CASE Redis
      <4>1. deploy = "cloud"
        BY <1>c, <3>9 DEF Redis
      <4>2. InFlight'
        <5> SUFFICES ASSUME NEW q \in Runs, NEW d \in Boards, sending'[q][d] # NoFrame
                     PROVE  /\ deploy = "cloud"  /\ pc[q] = "working"
                            /\ sending'[q][d].via = q  /\ sending'[q][d].kind = "work"
          BY <2>1 DEF InFlight
        <5>1. CASE q = r /\ d = b
          <6>1. sending'[r][b] = f
            BY <3>7, <3>9 DEF RunTypes
          <6> QED
            BY <2>1, <3>4, <3>6, <4>1, <5>1, <6>1
        <5>2. CASE ~(q = r /\ d = b)
          <6>1. sending'[q][d] = sending[q][d]
            BY <3>7, <3>9, <5>2 DEF RunTypes
          <6> QED
            BY <1>a, <6>1 DEF InFlight
        <5> QED
          BY <5>1, <5>2
      <4>3. \A q \in Runs : ClosedWell(q)'
        BY <1>a, <2>1, <3>7, <3>9, ClosedWellStays
      <4> QED
        BY <2>2, <4>2, <4>3
    <3>10. CASE ~Redis
      <4>1. InFlight'
        BY <1>a, <2>1, <3>7, <3>10 DEF InFlight
      <4>2. \A q \in Runs : ClosedWell(q)'
        BY <1>8, <2>1, <3>5, <3>6, <3>7, <3>8, <3>10
      <4> QED
        BY <2>2, <4>1, <4>2
    <3> QED
      BY <3>9, <3>10
  <2> QED
    BY <2>3, <2>4
<1>11. ASSUME NEW r \in Runs, Subscribe(r) \/ Read(r) \/ Leave(r) \/ Disconnect(r)
       PROVE  HeldByWorking' /\ InFlight' /\ \A q \in Runs : ClosedWell(q)'
  BY <1>1, <1>11 DEF Subscribe, Read, Leave, Disconnect, runVars
<1>12. CASE UNCHANGED relayVars
  BY <1>1, <1>12 DEF relayVars, runVars
<1> QED
  BY <1>2, <1>3, <1>4, <1>6, <1>7, <1>9, <1>10, <1>11, <1>12 DEF RelayNext, Works

(* AgentRunner promises exactly one sentinel, published last: once a run has *)
(* ended nothing comes after the sentinel of its channel, whoever shares the *)
(* agent, and a resume that raised has told its channel first.               *)
THEOREM SentinelsClose == RelaySpec => []SentinelOnceAndLast
<1>1. RunTypes /\ SentinelInv => SentinelOnceAndLast
  <2> SUFFICES ASSUME RunTypes, SentinelInv, deploy # "local", NEW r \in Runs
               PROVE  /\ \A i \in DOMAIN published[r] :
                            published[r][i].kind = "end" => i = Len(published[r])
                      /\ pc[r] = "ended" =>
                            /\ \E i \in DOMAIN published[r] : published[r][i].kind = "end"
                            /\ r \notin Starts /\ outcome[r] = "raised" => Told(r)
    BY DEF SentinelOnceAndLast
  <2>1. ClosedWell(r)
    BY DEF SentinelInv
  <2> QED
    BY <2>1 DEF ClosedWell
<1>2. RelayInit => RunTypes /\ SentinelInv
  BY RunTypesInit, SentinelInit
<1>3. RunTypes /\ SentinelInv /\ [RelayNext]_relayVars => (RunTypes /\ SentinelInv)'
  BY RunTypesStep, SentinelStep
<1> QED
  BY <1>1, <1>2, <1>3, PTL DEF RelaySpec

(***************************************************************************)
(* The channels: the frames of a run in a list, and how they grow.         *)
(***************************************************************************)

FramesOf(frames, r) == {k \in DOMAIN frames : frames[k].via = r}

LEMMA FramesAreFinite ==
    ASSUME NEW S, NEW frames \in Seq(S), NEW r
    PROVE  /\ IsFiniteSet(FramesOf(frames, r))
           /\ \A k : /\ IsFiniteSet({j \in FramesOf(frames, r) : j <= k})
                     /\ Cardinality({j \in FramesOf(frames, r) : j <= k}) \in Nat
                     /\ Cardinality({j \in FramesOf(frames, r) : j <= k})
                          <= Cardinality(FramesOf(frames, r))
<1>1. IsFiniteSet(1 .. Len(frames))
  <2>1. Len(frames) \in Nat
    OBVIOUS
  <2> QED
    BY <2>1, FS_Interval
<1>2. FramesOf(frames, r) \subseteq 1 .. Len(frames)
  BY DEF FramesOf
<1>3. IsFiniteSet(FramesOf(frames, r))
  BY <1>1, <1>2, FS_Subset
<1>4. ASSUME NEW k
      PROVE  /\ IsFiniteSet({j \in FramesOf(frames, r) : j <= k})
             /\ Cardinality({j \in FramesOf(frames, r) : j <= k}) \in Nat
             /\ Cardinality({j \in FramesOf(frames, r) : j <= k})
                  <= Cardinality(FramesOf(frames, r))
  <2> DEFINE upto == {j \in FramesOf(frames, r) : j <= k}
  <2>1. upto \subseteq FramesOf(frames, r)
    OBVIOUS
  <2> HIDE DEF upto
  <2>2. IsFiniteSet(upto) /\ Cardinality(upto) <= Cardinality(FramesOf(frames, r))
    BY <1>3, <2>1, FS_Subset
  <2>3. Cardinality(upto) \in Nat
    BY <2>2, FS_CardinalityType
  <2> QED
    BY <2>2, <2>3 DEF upto
<1> QED
  BY <1>3, <1>4

LEMMA CarriesNothing == ASSUME NEW r PROVE Carries(<<>>, r, <<>>)
<1>1. {k \in DOMAIN <<>> : <<>>[k].via = r} = {}
  OBVIOUS
<1>2. Cardinality({}) = 0 /\ Len(<<>>) = 0
  BY FS_EmptySet
<1> QED
  BY <1>1, <1>2 DEF Carries

\* A frame of another run.
LEMMA CarriesOther ==
    ASSUME NEW S, NEW frames \in Seq(S), NEW f \in S, NEW r, NEW all, f.via # r,
           Carries(frames, r, all)
    PROVE  Carries(Append(frames, f), r, all)
<1> DEFINE more == Append(frames, f)
           mine == FramesOf(frames, r)
<1>1. /\ DOMAIN frames = 1 .. Len(frames)  /\ DOMAIN more = 1 .. Len(frames) + 1
      /\ \A k \in 1 .. Len(frames) : more[k] = frames[k]
      /\ more[Len(frames) + 1] = f
      /\ Len(frames) \in Nat
  OBVIOUS
<1> HIDE DEF more
<1>2. FramesOf(more, r) = mine
  BY <1>1 DEF FramesOf
<1>3. \A k \in mine : more[k] = frames[k]
  BY <1>1 DEF FramesOf
<1>4. /\ Cardinality(mine) = Len(all)
      /\ \A k \in mine : frames[k] = all[Cardinality({j \in mine : j <= k})]
  BY DEF Carries, FramesOf
<1> HIDE DEF mine
<1>5. /\ Cardinality(FramesOf(more, r)) = Len(all)
      /\ \A k \in FramesOf(more, r) :
            more[k] = all[Cardinality({j \in FramesOf(more, r) : j <= k})]
  BY <1>2, <1>3, <1>4
<1>6. Carries(more, r, all)
  BY <1>5 DEF Carries, FramesOf
<1> QED
  BY <1>6 DEF more

\* A frame of the run, published last.
LEMMA CarriesOwn ==
    ASSUME NEW S, NEW frames \in Seq(S), NEW f \in S, NEW r, NEW all \in Seq(S), f.via = r,
           Carries(frames, r, all)
    PROVE  Carries(Append(frames, f), r, Append(all, f))
<1> DEFINE more == Append(frames, f)
           last == Len(frames) + 1
           mine == FramesOf(frames, r)
           longer == Append(all, f)
<1>1. /\ DOMAIN frames = 1 .. Len(frames)  /\ DOMAIN more = 1 .. last
      /\ \A k \in 1 .. Len(frames) : more[k] = frames[k]
      /\ more[last] = f
      /\ Len(frames) \in Nat
  OBVIOUS
<1>2. /\ Len(all) \in Nat /\ Len(longer) = Len(all) + 1
      /\ longer[Len(all) + 1] = f
      /\ \A i \in 1 .. Len(all) : longer[i] = all[i]
  OBVIOUS
<1> HIDE DEF more, longer
<1>3. FramesOf(more, r) = mine \union {last} /\ last \notin mine
  BY <1>1 DEF FramesOf
<1>4. \A k \in mine : more[k] = frames[k] /\ k \in 1 .. Len(frames)
  BY <1>1 DEF FramesOf
<1>5. /\ Cardinality(mine) = Len(all)
      /\ \A k \in mine : frames[k] = all[Cardinality({j \in mine : j <= k})]
  BY DEF Carries, FramesOf
<1>6. /\ IsFiniteSet(mine)
      /\ \A k : /\ IsFiniteSet({j \in mine : j <= k})
                /\ Cardinality({j \in mine : j <= k}) \in Nat
                /\ Cardinality({j \in mine : j <= k}) <= Cardinality(mine)
  BY FramesAreFinite
<1> HIDE DEF mine
<1>7. Cardinality(FramesOf(more, r)) = Len(longer)
  <2>1. Cardinality(mine \union {last}) = Cardinality(mine) + 1
    <3> HIDE DEF last
    <3> QED
      BY <1>3, <1>6, FS_AddElement
  <2> QED
    BY <1>2, <1>3, <1>5, <2>1
<1>8. ASSUME NEW k \in FramesOf(more, r)
      PROVE  more[k] = longer[Cardinality({j \in FramesOf(more, r) : j <= k})]
  <2>1. CASE k = last
    <3>1. {j \in FramesOf(more, r) : j <= k} = FramesOf(more, r)
      BY <1>1, <1>3, <1>4, <2>1
    <3> QED
      BY <1>1, <1>2, <1>7, <2>1, <3>1
  <2>2. CASE k # last
    <3>1. k \in mine
      BY <1>3, <2>2
    <3>2. {j \in FramesOf(more, r) : j <= k} = {j \in mine : j <= k}
      BY <1>1, <1>3, <1>4, <3>1
    <3> DEFINE upto == {j \in mine : j <= k}
    <3>3. k \in upto /\ IsFiniteSet(upto) /\ Cardinality(upto) \in Nat
          /\ Cardinality(upto) <= Cardinality(mine)
      <4>1. k \in Nat
        BY <1>1, <1>4, <3>1
      <4>2. k \in upto
        BY <3>1, <4>1
      <4> QED
        BY <1>6, <4>2
    <3>4. frames[k] = all[Cardinality(upto)]
      BY <1>5, <3>1
    <3> HIDE DEF upto
    <3>5. Cardinality(upto) # 0
      BY <3>3, FS_EmptySet
    <3>6. Cardinality(upto) \in 1 .. Len(all)
      BY <1>2, <1>5, <3>3, <3>5
    <3>7. longer[Cardinality(upto)] = all[Cardinality(upto)]
      BY <1>2, <3>6
    <3> QED
      BY <1>4, <3>1, <3>2, <3>4, <3>7 DEF upto
  <2> QED
    BY <2>1, <2>2
<1>9. Carries(more, r, longer)
  BY <1>7, <1>8 DEF Carries, FramesOf
<1> QED
  BY <1>9 DEF more, longer

(***************************************************************************)
(* The queues: whose they are, and what they hold for a run that has one   *)
(* subscriber, or whose stream came in time.                               *)
(***************************************************************************)

QueueTypes ==
    /\ client \in [Runs -> {"off", "waiting", "reading", "done", "gone"}]
    /\ box \in [Runs -> Nat]
    /\ boxes \in Seq(Seq(Sent))
    /\ current \in [Searches -> Nat]
    /\ seen \in [Runs -> Seq(Sent)]
    /\ timely \in [Runs -> BOOLEAN]
    /\ \A r \in Runs : box[r] <= Len(boxes)
    /\ \A s \in Searches : current[s] <= Len(boxes)
    /\ \A r \in Runs : client[r] = "reading" <=> box[r] # 0
    /\ \A r \in Runs : client[r] # "reading" => seen[r] = <<>>

\* Redis gives every stream a queue of its own; the memory broker one per search.
QueuesApart ==
    /\ Redis => \A j, k \in Runs : box[j] # 0 /\ box[j] = box[k] => j = k
    /\ ~Redis =>
          /\ \A j, k \in Runs : box[j] # 0 /\ box[j] = box[k] => SearchOf[j] = SearchOf[k]
          /\ \A k \in Runs, s \in Searches :
                box[k] # 0 /\ box[k] = current[s] => SearchOf[k] = s
          /\ \A s, t \in Searches : current[s] # 0 /\ current[s] = current[t] => s = t

\* What the queue of a search holds for the only stream it has, which may still
\* come or which reads it; and what a stream that came in time has or will read.
Served(r) ==
    /\ ~Redis /\ Alone(r) /\ client[r] \in {"off", "waiting"} =>
          IF current[SearchOf[r]] = 0 THEN published[r] = <<>>
          ELSE Carries(boxes[current[SearchOf[r]]], r, published[r])
    /\ ~Redis /\ Alone(r) /\ client[r] = "reading" => box[r] = current[SearchOf[r]]
    /\ client[r] = "reading" /\ (IF Redis THEN timely[r] ELSE Alone(r)) =>
          Carries(seen[r] \o boxes[box[r]], r, published[r])

QueueInv == QueueTypes /\ QueuesApart /\ \A r \in Runs : Served(r)

LEMMA QueueInit == RelayInit => QueueInv
<1> SUFFICES ASSUME RelayInit PROVE QueueInv
  OBVIOUS
<1>1. <<>> \in Seq(Sent) /\ <<>> \in Seq(Seq(Sent)) /\ Len(<<>>) = 0
  BY EmptySeq
<1>2. QueueTypes
  BY <1>1 DEF RelayInit, QueueTypes
<1>3. \A r \in Runs : SearchOf[r] \in Searches
  BY DEF Searches
<1>4. QueuesApart
  BY DEF RelayInit, QueuesApart
<1>5. \A r \in Runs : Served(r)
  BY <1>3 DEF RelayInit, Served
<1> QED
  BY <1>2, <1>4, <1>5 DEF QueueInv

\* Published frames reach the streams that listen, and the queue of their search.
LEMMA PushReaches ==
    ASSUME RunTypes, QueueInv, NEW f \in Sent, Push(f), UNCHANGED <<deploy, streamVars>>
    PROVE  /\ QueueTypes' /\ QueuesApart'
           /\ \A r \in Runs : client[r] = "reading" =>
                 \/ /\ boxes'[box[r]] = Append(boxes[box[r]], f)
                    /\ Redis => SearchOf[r] = SearchOf[f.via]
                    /\ ~Redis => box[r] = current'[SearchOf[f.via]]
                 \/ /\ boxes'[box[r]] = boxes[box[r]]
                    /\ Redis => SearchOf[r] # SearchOf[f.via]
                    /\ ~Redis => box[r] # current'[SearchOf[f.via]]
           /\ ~Redis => LET s == SearchOf[f.via]
                       IN  /\ \A t \in Searches \ {s} :
                                 /\ current'[t] = current[t]
                                 /\ current[t] # 0 => boxes'[current[t]] = boxes[current[t]]
                           /\ current'[s] # 0
                           /\ current[s] # 0 =>
                                 /\ current'[s] = current[s]
                                 /\ boxes'[current[s]] = Append(boxes[current[s]], f)
                           /\ current[s] = 0 => boxes'[current'[s]] = <<f>>
<1> DEFINE s == SearchOf[f.via]
<1>1. f.via \in Runs /\ s \in Searches
  <2>1. f.via \in Runs
    BY DEF Sent
  <2> QED
    BY <2>1 DEF Searches
<1>2. QueueTypes /\ QueuesApart
  BY DEF QueueInv
<1>3. UNCHANGED <<client, box, seen, timely>> /\ (Redis' <=> Redis)
  BY DEF streamVars, Redis
<1>4. PICK n \in Nat : n = Len(boxes)
  BY <1>2 DEF QueueTypes
<1>5. DOMAIN boxes = 1 .. n /\ boxes \in Seq(Seq(Sent)) /\ \A i \in 1 .. n : boxes[i] \in Seq(Sent)
  BY <1>2, <1>4 DEF QueueTypes
<1>6. \A r \in Runs : client[r] = "reading" => box[r] \in 1 .. n
  BY <1>2, <1>4 DEF QueueTypes
<1>7. CASE Redis
  <2> DEFINE fed(i) == \E k \in Listeners(s) : box[k] = i
  <2>1. boxes' = [i \in 1 .. n |-> IF fed(i) THEN Append(boxes[i], f) ELSE boxes[i]]
        /\ UNCHANGED current
    BY <1>5, <1>7 DEF Push
  <2>2. \A i \in 1 .. n : boxes'[i] = IF fed(i) THEN Append(boxes[i], f) ELSE boxes[i]
    <3> HIDE DEF fed
    <3> QED
      BY <2>1
  <2>3. \A i \in 1 .. n : (IF fed(i) THEN Append(boxes[i], f) ELSE boxes[i]) \in Seq(Sent)
    <3> HIDE DEF fed
    <3> QED
      BY <1>5
  <2>4. boxes' \in Seq(Seq(Sent)) /\ Len(boxes') = n
    <3> HIDE DEF fed
    <3>1. boxes' \in [1 .. n -> Seq(Sent)]
      BY <2>1, <2>3
    <3> QED
      BY <1>4, <2>1, <3>1
  <2>5. QueueTypes'
    BY <1>2, <1>3, <1>4, <2>1, <2>4 DEF QueueTypes
  <2>6. QueuesApart'
    BY <1>2, <1>3, <2>1 DEF QueuesApart
  <2>7. ASSUME NEW r \in Runs, client[r] = "reading"
        PROVE  fed(box[r]) <=> SearchOf[r] = s
    <3>1. fed(box[r]) => SearchOf[r] = s
      BY <1>2, <1>6, <1>7, <2>7 DEF Listeners, QueuesApart
    <3>2. SearchOf[r] = s => fed(box[r])
      BY <2>7 DEF Listeners
    <3> QED
      BY <3>1, <3>2
  <2> HIDE DEF fed
  <2> QED
    BY <1>6, <1>7, <2>2, <2>5, <2>6, <2>7
<1>8. CASE ~Redis /\ current[s] = 0
  <2>1. boxes' = Append(boxes, <<f>>) /\ current' = [current EXCEPT ![s] = n + 1]
    BY <1>4, <1>8 DEF Push
  <2>2. <<f>> \in Seq(Sent)
    OBVIOUS
  <2>3. /\ boxes' \in Seq(Seq(Sent)) /\ Len(boxes') = n + 1 /\ boxes'[n + 1] = <<f>>
        /\ \A i \in 1 .. n : boxes'[i] = boxes[i]
    BY <1>4, <1>5, <2>1, <2>2
  <2>4. current \in [Searches -> Nat] /\ \A t \in Searches : current[t] <= n
    BY <1>2, <1>4 DEF QueueTypes
  <2>5. /\ current' \in [Searches -> Nat] /\ current'[s] = n + 1
        /\ \A t \in Searches \ {s} : current'[t] = current[t]
    BY <1>1, <2>1, <2>4
  <2>6. QueueTypes'
    <3>1. \A t \in Searches : current'[t] <= n + 1
      BY <2>4, <2>5
    <3>2. \A r \in Runs : box[r] <= n + 1
      BY <1>2, <1>4 DEF QueueTypes
    <3> QED
      BY <1>2, <1>3, <2>3, <2>5, <3>1, <3>2 DEF QueueTypes
  <2>7. QueuesApart'
    <3>1. \A k \in Runs : box[k] # n + 1
      BY <1>2, <1>4 DEF QueueTypes
    <3>2. \A t \in Searches : current[t] # n + 1
      BY <2>4
    <3> HIDE DEF s
    <3> QED
      BY <1>2, <1>3, <1>8, <2>5, <3>1, <3>2 DEF QueuesApart
  <2>8. \A r \in Runs : client[r] = "reading" => box[r] # n + 1 /\ boxes'[box[r]] = boxes[box[r]]
    BY <1>6, <2>3
  <2>9. \A t \in Searches \ {s} : current[t] # 0 => boxes'[current[t]] = boxes[current[t]]
    <3>1. \A t \in Searches : current[t] # 0 => current[t] \in 1 .. n
      BY <2>4
    <3> QED
      BY <2>3, <3>1
  <2>10. current'[s] # 0
    BY <2>5
  <2> HIDE DEF s
  <2> QED
    BY <1>8, <2>3, <2>5, <2>6, <2>7, <2>8, <2>9, <2>10 DEF s
<1>9. CASE ~Redis /\ current[s] # 0
  <2>1. boxes' = [boxes EXCEPT ![current[s]] = Append(@, f)] /\ UNCHANGED current
    BY <1>9 DEF Push
  <2>2. \A t \in Searches : current[t] \in Nat /\ current[t] <= n
    BY <1>2, <1>4 DEF QueueTypes
  <2>3. PICK m \in 1 .. n : m = current[s]
    BY <1>1, <1>9, <2>2
  <2>4. Append(boxes[m], f) \in Seq(Sent)
    BY <1>5
  <2>5. /\ boxes' \in Seq(Seq(Sent)) /\ Len(boxes') = n
        /\ boxes'[m] = Append(boxes[m], f)
        /\ \A i \in 1 .. n : i # m => boxes'[i] = boxes[i]
    BY <1>4, <1>5, <2>1, <2>3, <2>4
  <2>6. QueueTypes'
    BY <1>2, <1>3, <1>4, <2>1, <2>5 DEF QueueTypes
  <2>7. QueuesApart'
    BY <1>2, <1>3, <2>1 DEF QueuesApart
  <2>8. \A r \in Runs : client[r] = "reading" =>
           IF box[r] = m THEN boxes'[box[r]] = Append(boxes[box[r]], f)
           ELSE boxes'[box[r]] = boxes[box[r]]
    BY <1>6, <2>5
  <2>9. \A t \in Searches \ {s} : current[t] # 0 => boxes'[current[t]] = boxes[current[t]]
    <3>1. \A t \in Searches \ {s} : current[t] # 0 => current[t] \in 1 .. n /\ current[t] # m
      BY <1>1, <1>2, <1>9, <2>2, <2>3 DEF QueuesApart
    <3> QED
      BY <2>5, <3>1
  <2> HIDE DEF s
  <2> QED
    BY <1>9, <2>1, <2>3, <2>5, <2>6, <2>7, <2>8, <2>9 DEF s
<1> QED
  BY <1>7, <1>8, <1>9

LEMMA AppendToConcat ==
    ASSUME NEW S, NEW s \in Seq(S), NEW t \in Seq(S), NEW e \in S
    PROVE  s \o Append(t, e) = Append(s \o t, e)
<1>1. s \o t \in Seq(S) /\ <<e>> \in Seq(S)
  BY ConcatProperties
<1>2. Append(t, e) = t \o <<e>> /\ Append(s \o t, e) = (s \o t) \o <<e>>
  BY <1>1, AppendIsConcat
<1>3. (s \o t) \o <<e>> = s \o (t \o <<e>>)
  BY <1>1, ConcatAssociative
<1> QED
  BY <1>2, <1>3

\* A frame that is read moves from the queue to what was seen.
LEMMA ReadMoves ==
    ASSUME NEW S, NEW s \in Seq(S), NEW t \in Seq(S), t # <<>>
    PROVE  /\ Append(s, Head(t)) \o Tail(t) = s \o t
           /\ Append(s, Head(t)) \in Seq(S) /\ Tail(t) \in Seq(S)
<1>1. /\ Head(t) \in S /\ Tail(t) \in Seq(S) /\ Len(Tail(t)) = Len(t) - 1
      /\ \A i \in 1 .. Len(Tail(t)) : Tail(t)[i] = t[i + 1]
  BY HeadTailProperties
<1> DEFINE h == <<Head(t)>>
<1>2. h \in Seq(S) /\ Len(h) = 1 /\ h[1] = t[1]
  BY <1>1
<1>3. h \o Tail(t) = t
  <2>1. Len(t) \in Nat /\ Len(t) # 0
    OBVIOUS
  <2> HIDE DEF h
  <2>2. /\ h \o Tail(t) \in Seq(S) /\ Len(h \o Tail(t)) = Len(t)
        /\ \A i \in 1 .. Len(t) :
              (h \o Tail(t))[i] = IF i <= 1 THEN h[i] ELSE Tail(t)[i - 1]
    <3>1. /\ h \o Tail(t) \in Seq(S)
          /\ Len(h \o Tail(t)) = Len(h) + Len(Tail(t))
          /\ \A i \in 1 .. Len(h) + Len(Tail(t)) :
                (h \o Tail(t))[i] = IF i <= Len(h) THEN h[i] ELSE Tail(t)[i - Len(h)]
      <4>1. \A a, c \in Seq(S) :
               /\ a \o c \in Seq(S)  /\ Len(a \o c) = Len(a) + Len(c)
               /\ \A i \in 1 .. Len(a) + Len(c) :
                     (a \o c)[i] = IF i <= Len(a) THEN a[i] ELSE c[i - Len(a)]
        BY ConcatProperties
      <4> QED
        BY <1>1, <1>2, <4>1
    <3>2. Len(h) + Len(Tail(t)) = Len(t)
      BY <1>1, <1>2, <2>1
    <3> QED
      BY <1>2, <3>1, <3>2
  <2>3. \A i \in 1 .. Len(t) : (h \o Tail(t))[i] = t[i]
    <3> SUFFICES ASSUME NEW i \in 1 .. Len(t) PROVE (h \o Tail(t))[i] = t[i]
      OBVIOUS
    <3>1. CASE i = 1
      BY <1>2, <2>2, <3>1
    <3>2. CASE i # 1
      <4>1. i - 1 \in 1 .. Len(Tail(t)) /\ (i - 1) + 1 = i
        BY <1>1, <2>1, <3>2
      <4>2. Tail(t)[i - 1] = t[i]
        BY <1>1, <4>1
      <4> QED
        BY <2>1, <2>2, <3>2, <4>2
    <3> QED
      BY <3>1, <3>2
  <2> QED
    BY <2>2, <2>3, SeqEqual
<1>4. Append(s, Head(t)) = s \o h
  BY <1>1, AppendIsConcat
<1>5. (s \o h) \o Tail(t) = s \o (h \o Tail(t))
  BY <1>1, <1>2, ConcatAssociative
<1>6. s \o h \in Seq(S)
  BY <1>2, ConcatProperties
<1> QED
  BY <1>1, <1>3, <1>4, <1>5, <1>6

LEMMA PublishServes ==
    ASSUME RunTypes, QueueInv, NEW f \in Sent, Publish(f), UNCHANGED <<deploy, streamVars>>
    PROVE  QueueInv'
<1> DEFINE v == f.via
           s == SearchOf[v]
<1>1. /\ v \in Runs  /\ published'[v] = Append(published[v], f)
      /\ \A r \in Runs \ {v} : published'[r] = published[r]
  BY PublishTypes DEF RunTypes
<1>2. UNCHANGED <<client, box, seen, timely>> /\ (Redis' <=> Redis) /\ \A r : Alone(r)' <=> Alone(r)
  BY DEF streamVars, Redis, Alone
<1>3. Push(f)
  BY DEF Publish
<1>4. /\ QueueTypes' /\ QueuesApart'
      /\ \A r \in Runs : client[r] = "reading" =>
            \/ /\ boxes'[box[r]] = Append(boxes[box[r]], f)
               /\ Redis => SearchOf[r] = s
               /\ ~Redis => box[r] = current'[s]
            \/ /\ boxes'[box[r]] = boxes[box[r]]
               /\ Redis => SearchOf[r] # s
               /\ ~Redis => box[r] # current'[s]
      /\ ~Redis => /\ \A t \in Searches \ {s} :
                         /\ current'[t] = current[t]
                         /\ current[t] # 0 => boxes'[current[t]] = boxes[current[t]]
                   /\ current'[s] # 0
                   /\ current[s] # 0 =>
                         /\ current'[s] = current[s]
                         /\ boxes'[current[s]] = Append(boxes[current[s]], f)
                   /\ current[s] = 0 => boxes'[current'[s]] = <<f>>
  BY <1>3, PushReaches
<1>5. \A r \in Runs : SearchOf[r] \in Searches /\ published[r] \in Seq(Sent)
  BY DEF Searches, RunTypes
<1>6. QueueTypes /\ \A r \in Runs : Served(r)
  BY DEF QueueInv
<1>7. \A i : i \in 1 .. Len(boxes) => boxes[i] \in Seq(Sent)
  BY <1>6 DEF QueueTypes
<1> HIDE DEF v, s
<1>8. ASSUME NEW r \in Runs PROVE Served(r)'
  <2>1. Served(r)
    BY <1>6
  <2>2. /\ v = r => SearchOf[r] = s /\ published'[r] = Append(published[r], f) /\ f.via = r
        /\ v # r => published'[r] = published[r] /\ f.via # r
    BY <1>1 DEF v, s
  <2>3. ASSUME NEW frames \in Seq(Sent), Carries(frames, r, published[r])
        PROVE  Carries(Append(frames, f), r, published'[r])
    BY <1>5, <2>2, <2>3, CarriesOwn, CarriesOther
  <2>4. ASSUME ~Redis, Alone(r), client[r] \in {"off", "waiting"}
        PROVE  IF current'[SearchOf[r]] = 0 THEN published'[r] = <<>>
               ELSE Carries(boxes'[current'[SearchOf[r]]], r, published'[r])
    <3>1. CASE SearchOf[r] # s
      BY <1>4, <1>5, <2>1, <2>2, <2>4, <3>1 DEF Served
    <3>2. CASE SearchOf[r] = s /\ current[s] = 0
      <4>1. published[r] = <<>>
        BY <2>1, <2>4, <3>2 DEF Served
      <4>2. <<>> \in Seq(Sent) /\ Carries(<<>>, r, published[r])
        BY <4>1, EmptySeq, CarriesNothing
      <4>3. Carries(Append(<<>>, f), r, published'[r])
        BY <2>3, <4>2
      <4>4. Append(<<>>, f) = <<f>>
        OBVIOUS
      <4> QED
        BY <1>4, <2>4, <3>2, <4>3, <4>4
    <3>3. CASE SearchOf[r] = s /\ current[s] # 0
      <4>1. Carries(boxes[current[s]], r, published[r])
        BY <2>1, <2>4, <3>3 DEF Served
      <4>2. boxes[current[s]] \in Seq(Sent)
        BY <1>5, <1>6, <1>7, <3>3 DEF QueueTypes
      <4>3. Carries(Append(boxes[current[s]], f), r, published'[r])
        BY <2>3, <4>1, <4>2
      <4> QED
        BY <1>4, <2>4, <3>3, <4>3
    <3> QED
      BY <3>1, <3>2, <3>3
  <2>5. ASSUME ~Redis, Alone(r), client[r] = "reading"
        PROVE  box[r] = current'[SearchOf[r]] /\ box[r] = current[SearchOf[r]]
    <3>1. box[r] = current[SearchOf[r]] /\ box[r] # 0
      BY <1>6, <2>1, <2>5 DEF Served, QueueTypes
    <3> QED
      BY <1>4, <1>5, <2>5, <3>1
  <2>6. ASSUME client[r] = "reading", IF Redis THEN timely[r] ELSE Alone(r)
        PROVE  Carries(seen[r] \o boxes'[box[r]], r, published'[r])
    <3>1. Carries(seen[r] \o boxes[box[r]], r, published[r])
      BY <2>1, <2>6 DEF Served
    <3>2. boxes[box[r]] \in Seq(Sent) /\ seen[r] \in Seq(Sent)
      BY <1>6, <1>7, <2>6 DEF QueueTypes
    <3>3. CASE boxes'[box[r]] = Append(boxes[box[r]], f)
      <4>1. seen[r] \o Append(boxes[box[r]], f) = Append(seen[r] \o boxes[box[r]], f)
        <5>1. \A a, c \in Seq(Sent) : a \o Append(c, f) = Append(a \o c, f)
          BY AppendToConcat
        <5> QED
          BY <3>2, <5>1
      <4>2. seen[r] \o boxes[box[r]] \in Seq(Sent)
        BY <3>2
      <4> QED
        BY <2>3, <3>1, <3>3, <4>1, <4>2
    <3>4. CASE boxes'[box[r]] # Append(boxes[box[r]], f)
      <4>1. /\ boxes'[box[r]] = boxes[box[r]]
            /\ Redis => SearchOf[r] # s
            /\ ~Redis => box[r] # current'[s]
        BY <1>4, <2>6, <3>4
      <4>2. v # r
        BY <2>2, <2>5, <2>6, <4>1
      <4> QED
        BY <2>2, <3>1, <4>1, <4>2
    <3> QED
      BY <3>3, <3>4
  <2> QED
    BY <1>2, <2>4, <2>5, <2>6 DEF Served
<1> QED
  BY <1>4, <1>8 DEF QueueInv

\* What a step of one stream leaves the others.
LEMMA OthersServed ==
    ASSUME QueueInv, NEW r \in Runs, client'[r] # "off",
           deploy' = deploy, published' = published,
           \A q \in Runs \ {r} : /\ client'[q] = client[q]  /\ box'[q] = box[q]
                                 /\ seen'[q] = seen[q]  /\ timely'[q] = timely[q],
           \A q \in Runs \ {r} : client[q] = "reading" /\ (Redis \/ SearchOf[q] # SearchOf[r])
                                 => boxes'[box[q]] = boxes[box[q]],
           ~Redis => \A t \in Searches \ {SearchOf[r]} :
                        /\ current'[t] = current[t]
                        /\ current[t] # 0 => boxes'[current[t]] = boxes[current[t]]
    PROVE  \A q \in Runs \ {r} : Served(q)'
<1> SUFFICES ASSUME NEW q \in Runs \ {r} PROVE Served(q)'
  OBVIOUS
<1>1. Served(q) /\ SearchOf[q] \in Searches
  BY DEF QueueInv, Searches
<1>2. Redis' <=> Redis
  BY DEF Redis
<1>3. Alone(q)' => Alone(q) /\ SearchOf[q] # SearchOf[r]
  BY DEF Alone
<1>4. /\ client'[q] = client[q]  /\ box'[q] = box[q]
      /\ seen'[q] = seen[q]  /\ timely'[q] = timely[q] /\ published'[q] = published[q]
      /\ client[q] = "reading" /\ (Redis \/ SearchOf[q] # SearchOf[r])
           => boxes'[box[q]] = boxes[box[q]]
      /\ ~Redis /\ SearchOf[q] # SearchOf[r] =>
            /\ current'[SearchOf[q]] = current[SearchOf[q]]
            /\ current[SearchOf[q]] # 0
                  => boxes'[current[SearchOf[q]]] = boxes[current[SearchOf[q]]]
  BY <1>1
<1> QED
  BY <1>1, <1>2, <1>3, <1>4 DEF Served

LEMMA AskServes ==
    ASSUME QueueInv, NEW r \in Runs, NEW streamed \in BOOLEAN, Ask(r, streamed)
    PROVE  QueueInv'
<1>1. /\ client[r] = "off" /\ client'[r] \in {"off", "waiting", "gone"}
      /\ \A q \in Runs \ {r} : client'[q] = client[q]
      /\ client' \in [Runs -> {"off", "waiting", "reading", "done", "gone"}]
      /\ UNCHANGED <<deploy, published, box, boxes, current, seen, timely>>
  BY DEF Ask, QueueInv, QueueTypes
<1>2. QueueTypes' /\ QueuesApart'
  BY <1>1 DEF QueueInv, QueueTypes, QueuesApart, Redis
<1>3. CASE client'[r] = "off"
  <2>1. UNCHANGED client
    BY <1>1, <1>3 DEF QueueInv, QueueTypes
  <2> QED
    BY <1>1, <1>2, <2>1 DEF QueueInv, Served, Alone, Redis
<1>4. CASE client'[r] # "off"
  <2>1. \A q \in Runs \ {r} : Served(q)'
    BY <1>1, <1>4, OthersServed
  <2>2. (Alone(r)' <=> Alone(r)) /\ (Redis' <=> Redis)
    BY <1>1 DEF Alone, Redis
  <2>3. Served(r)'
    BY <1>1, <2>2 DEF QueueInv, Served
  <2> QED
    BY <1>2, <2>1, <2>3 DEF QueueInv
<1> QED
  BY <1>3, <1>4

LEMMA SubscribeServes ==
    ASSUME RunTypes, QueueInv, NEW r \in Runs, Subscribe(r)
    PROVE  QueueInv'
<1> DEFINE s == SearchOf[r]
           fresh == Redis \/ current[s] = 0
<1>1. QueueTypes /\ QueuesApart /\ Served(r) /\ s \in Searches
  BY DEF QueueInv, Searches
<1>2. PICK n \in Nat : n = Len(boxes)
  BY <1>1 DEF QueueTypes
<1>3. PICK m \in Nat : m = IF fresh THEN n + 1 ELSE current[s]
  <2>1. current[s] \in Nat /\ n + 1 \in Nat
    BY <1>1 DEF QueueTypes
  <2> HIDE DEF fresh
  <2> QED
    BY <2>1
<1>4. /\ client[r] = "waiting"
      /\ client' = [client EXCEPT ![r] = "reading"]
      /\ boxes' = IF fresh THEN Append(boxes, <<>>) ELSE boxes
      /\ box' = [box EXCEPT ![r] = m]
      /\ timely' = [timely EXCEPT ![r] = published[r] = <<>>]
      /\ UNCHANGED <<deploy, published, seen>>
  BY <1>2, <1>3 DEF Subscribe, runVars
<1>5. /\ client'[r] = "reading" /\ box'[r] = m /\ (timely'[r] <=> published[r] = <<>>)
      /\ seen'[r] = <<>>
      /\ \A q \in Runs \ {r} : /\ client'[q] = client[q]  /\ box'[q] = box[q]
                              /\ seen'[q] = seen[q]  /\ timely'[q] = timely[q]
      /\ client' \in [Runs -> {"off", "waiting", "reading", "done", "gone"}]
      /\ box' \in [Runs -> Nat] /\ timely' \in [Runs -> BOOLEAN]
  <2>1. (published[r] = <<>>) \in BOOLEAN
    OBVIOUS
  <2>2. timely' \in [Runs -> BOOLEAN] /\ (timely'[r] <=> published[r] = <<>>)
        /\ \A q \in Runs \ {r} : timely'[q] = timely[q]
    BY <1>1, <1>4, <2>1 DEF QueueTypes
  <2> QED
    BY <1>1, <1>4, <2>2 DEF QueueTypes
<1>6. /\ Redis => current' = current
      /\ ~Redis => current' = [current EXCEPT ![s] = m]
  BY <1>4, <1>5 DEF Subscribe
<1>7. /\ current' \in [Searches -> Nat]
      /\ \A t \in Searches \ {s} : current'[t] = current[t]
      /\ Redis => current' = current
      /\ ~Redis => current'[s] = m
  BY <1>1, <1>6 DEF QueueTypes
<1>8. /\ boxes \in Seq(Seq(Sent))
      /\ boxes' \in Seq(Seq(Sent))
      /\ Len(boxes') = IF fresh THEN n + 1 ELSE n
      /\ fresh => boxes'[n + 1] = <<>>
      /\ \A i \in 1 .. n : boxes'[i] = boxes[i]
  <2>1. <<>> \in Seq(Sent)
    BY EmptySeq
  <2>2. boxes \in Seq(Seq(Sent))
    BY <1>1 DEF QueueTypes
  <2> QED
    BY <1>2, <1>4, <2>1, <2>2
<1>9. /\ \A q \in Runs : box[q] <= n /\ box[q] \in Nat
      /\ \A t \in Searches : current[t] <= n /\ current[t] \in Nat
      /\ \A q \in Runs : client[q] = "reading" <=> box[q] # 0
      /\ \A q \in Runs : client[q] # "reading" => seen[q] = <<>>
      /\ seen \in [Runs -> Seq(Sent)]
  BY <1>1, <1>2 DEF QueueTypes
<1>10. m # 0 /\ (fresh => m = n + 1) /\ (~fresh => m = current[s])
  BY <1>3
<1>11. Redis' <=> Redis
  BY <1>4 DEF Redis
<1> HIDE DEF s
<1>12. QueueTypes'
  <2>0. m <= Len(boxes') /\ n <= Len(boxes') /\ Len(boxes') \in Nat
    <3>1. current[s] <= n
      BY <1>1, <1>9
    <3> HIDE DEF fresh
    <3> QED
      BY <1>8, <1>10, <3>1
  <2>1. \A q \in Runs : box'[q] <= Len(boxes')
    <3> SUFFICES ASSUME NEW q \in Runs PROVE box'[q] <= Len(boxes')
      OBVIOUS
    <3>1. PICK i \in Nat : i = box[q]
      BY <1>9
    <3>2. i <= n
      BY <1>9, <3>1
    <3>3. box'[q] = m \/ box'[q] = i
      BY <1>5, <3>1
    <3> QED
      BY <2>0, <3>2, <3>3
  <2>2. \A t \in Searches : current'[t] <= Len(boxes')
    <3> SUFFICES ASSUME NEW t \in Searches PROVE current'[t] <= Len(boxes')
      OBVIOUS
    <3>1. PICK i \in Nat : i = current[t]
      BY <1>9
    <3>2. i <= n
      BY <1>9, <3>1
    <3>3. current'[t] = m \/ current'[t] = i
      BY <1>7, <3>1
    <3> QED
      BY <2>0, <3>2, <3>3
  <2>3. \A q \in Runs : client'[q] = "reading" <=> box'[q] # 0
    BY <1>5, <1>9, <1>10
  <2>4. \A q \in Runs : client'[q] # "reading" => seen'[q] = <<>>
    BY <1>5, <1>9
  <2> QED
    BY <1>4, <1>5, <1>7, <1>8, <1>9, <2>1, <2>2, <2>3, <2>4 DEF QueueTypes
<1>13. QueuesApart'
  <2>1. CASE Redis
    <3>1. \A q \in Runs : box[q] # m
      BY <1>9, <1>10, <2>1
    <3> QED
      BY <1>1, <1>5, <1>11, <2>1, <3>1 DEF QueuesApart
  <2>2. CASE ~Redis /\ current[s] = 0
    <3>1. (\A q \in Runs : box[q] # m) /\ \A t \in Searches : current[t] # m
      BY <1>9, <1>10, <2>2
    <3> QED
      <4>1. \A j, k \in Runs : box'[j] # 0 /\ box'[j] = box'[k] => SearchOf[j] = SearchOf[k]
        BY <1>1, <1>5, <2>2, <3>1 DEF QueuesApart
      <4>2. \A k \in Runs, t \in Searches :
               box'[k] # 0 /\ box'[k] = current'[t] => SearchOf[k] = t
        <5> SUFFICES ASSUME NEW k \in Runs, NEW t \in Searches, box'[k] # 0,
                            box'[k] = current'[t]
                     PROVE  SearchOf[k] = t
          OBVIOUS
        <5>0. box'[k] # 0 /\ box'[k] = current'[t]
          OBVIOUS
        <5>1. CASE k = r
          <6>1. current'[t] = m
            BY <1>5, <5>0, <5>1
          <6>2. t = s
            BY <1>7, <2>2, <3>1, <6>1
          <6> QED
            BY <5>1, <6>2 DEF s
        <5>2. CASE k # r
          <6>1. t # s
            BY <1>5, <1>7, <2>2, <3>1, <5>2
          <6> QED
            <7>1. box'[k] = box[k] /\ current'[t] = current[t]
              BY <1>5, <1>7, <5>2, <6>1
            <7>2. box[k] # 0 /\ box[k] = current[t]
              BY <5>0, <7>1
            <7> QED
              BY <1>1, <2>2, <7>2 DEF QueuesApart
        <5> QED
          BY <5>1, <5>2
      <4>3. \A t, u \in Searches : current'[t] # 0 /\ current'[t] = current'[u] => t = u
        BY <1>1, <1>7, <2>2, <3>1 DEF QueuesApart
      <4> QED
        BY <1>11, <2>2, <4>1, <4>2, <4>3 DEF QueuesApart
  <2>3. CASE ~Redis /\ current[s] # 0
    <3>1. m = current[s] /\ \A t \in Searches : current'[t] = current[t]
      BY <1>7, <1>10, <2>3
    <3>2. \A q \in Runs : box[q] = m => SearchOf[q] = s
      BY <1>1, <1>10, <2>3, <3>1 DEF QueuesApart
    <3>3. \A t \in Searches : current[t] = m => t = s
      BY <1>1, <1>10, <2>3, <3>1 DEF QueuesApart
    <3> QED
      BY <1>1, <1>5, <1>11, <2>3, <3>1, <3>2, <3>3 DEF QueuesApart, s
  <2> QED
    BY <2>1, <2>2, <2>3
<1>14. \A q \in Runs \ {r} : Served(q)'
  <2>1. client'[r] # "off" /\ deploy' = deploy /\ published' = published
    BY <1>4, <1>5
  <2>2. \A q \in Runs : client[q] = "reading" => boxes'[box[q]] = boxes[box[q]]
    <3>1. \A q \in Runs : client[q] = "reading" => box[q] \in 1 .. n
      BY <1>9
    <3> QED
      BY <1>8, <3>1
  <2>3. \A t \in Searches : current[t] # 0 => boxes'[current[t]] = boxes[current[t]]
    <3>1. \A t \in Searches : current[t] # 0 => current[t] \in 1 .. n
      BY <1>9
    <3> QED
      BY <1>8, <3>1
  <2> QED
    BY <1>5, <1>7, <2>1, <2>2, <2>3, OthersServed DEF s
<1>15. Served(r)'
  <2>1. Alone(r)' => Alone(r)
    BY <1>5 DEF Alone
  <2>2. ~Redis => box'[r] = current'[s]
    BY <1>5, <1>7
  <2>3. ASSUME IF Redis THEN timely'[r] ELSE Alone(r)'
        PROVE  Carries(seen'[r] \o boxes'[box'[r]], r, published'[r])
    <3>1. CASE fresh
      <4>1. published[r] = <<>>
        BY <1>1, <1>4, <1>5, <2>1, <2>3, <3>1 DEF Served, s
      <4>2. boxes'[box'[r]] = <<>> /\ seen'[r] = <<>>
        BY <1>5, <1>8, <1>10, <3>1
      <4>3. <<>> \o <<>> = <<>>
        OBVIOUS
      <4> QED
        BY <1>4, <4>1, <4>2, <4>3, CarriesNothing
    <3>2. CASE ~fresh
      <4>1. Carries(boxes[current[s]], r, published[r])
        BY <1>1, <1>4, <2>1, <2>3, <3>2 DEF Served, s
      <4>2. boxes'[box'[r]] = boxes[current[s]] /\ boxes[current[s]] \in Seq(Sent)
        BY <1>1, <1>2, <1>5, <1>8, <1>9, <1>10, <3>2
      <4>3. seen'[r] \o boxes'[box'[r]] = boxes[current[s]]
        BY <1>5, <4>2, ConcatEmptySeq
      <4> QED
        BY <1>4, <4>1, <4>3
    <3> QED
      BY <3>1, <3>2
  <2> QED
    BY <1>5, <1>11, <2>2, <2>3 DEF Served, s
<1> QED
  BY <1>12, <1>13, <1>14, <1>15 DEF QueueInv

LEMMA CloseServes ==
    ASSUME RunTypes, QueueInv, NEW r \in Runs, client[r] = "reading",
           NEW how \in {"done", "gone"}, NEW rest \in Seq(Sent), Close(r, how, rest),
           UNCHANGED <<deploy, published, timely>>
    PROVE  QueueInv'
<1> DEFINE s == SearchOf[r]
<1>1. QueueTypes /\ QueuesApart /\ s \in Searches
  BY DEF QueueInv, Searches
<1>2. PICK n \in Nat : n = Len(boxes)
  BY <1>1 DEF QueueTypes
<1>3. PICK m \in 1 .. n : m = box[r]
  BY <1>1, <1>2 DEF QueueTypes
<1>4. PICK left \in Seq(Sent) : boxes' = [boxes EXCEPT ![m] = left]
  <2>1. <<>> \in Seq(Sent)
    BY EmptySeq
  <2>2. \/ boxes' = [boxes EXCEPT ![m] = rest]
        \/ boxes' = [boxes EXCEPT ![m] = <<>>]
    BY <1>3 DEF Close
  <2> QED
    BY <2>1, <2>2
<1>5. /\ boxes \in Seq(Seq(Sent)) /\ boxes' \in Seq(Seq(Sent)) /\ Len(boxes') = n
      /\ \A i \in 1 .. n : i # m => boxes'[i] = boxes[i]
  <2>1. boxes \in Seq(Seq(Sent))
    BY <1>1 DEF QueueTypes
  <2> QED
    BY <1>2, <1>4, <2>1
<1>6. /\ client'[r] = how /\ box'[r] = 0 /\ seen'[r] = <<>>
      /\ \A q \in Runs \ {r} : /\ client'[q] = client[q]  /\ box'[q] = box[q]
                              /\ seen'[q] = seen[q]  /\ timely'[q] = timely[q]
      /\ client' \in [Runs -> {"off", "waiting", "reading", "done", "gone"}]
      /\ box' \in [Runs -> Nat] /\ seen' \in [Runs -> Seq(Sent)]
  <2>1. <<>> \in Seq(Sent)
    BY EmptySeq
  <2> QED
    BY <1>1, <2>1 DEF Close, QueueTypes
<1>7. /\ current' \in [Searches -> Nat]
      /\ \A t \in Searches : current'[t] \in {0, current[t]}
      /\ \A t \in Searches \ {s} : current'[t] = current[t]
      /\ Redis => current' = current
  BY <1>1 DEF Close, QueueTypes
<1>8. /\ \A q \in Runs : box[q] <= n /\ box[q] \in Nat
      /\ \A t \in Searches : current[t] <= n /\ current[t] \in Nat
      /\ \A q \in Runs : client[q] = "reading" <=> box[q] # 0
      /\ \A q \in Runs : client[q] # "reading" => seen[q] = <<>>
      /\ timely \in [Runs -> BOOLEAN]
  BY <1>1, <1>2 DEF QueueTypes
<1>9. Redis' <=> Redis
  BY DEF Redis
<1> HIDE DEF s
<1>10. QueueTypes'
  <2>1. \A t \in Searches : current'[t] <= n
    BY <1>7, <1>8
  <2>2. \A q \in Runs : box'[q] <= n
    <3> SUFFICES ASSUME NEW q \in Runs PROVE box'[q] <= n
      OBVIOUS
    <3>1. box'[q] = 0 \/ box'[q] = box[q]
      BY <1>6
    <3>2. PICK i \in Nat : i = box[q]
      BY <1>8
    <3>3. i <= n
      BY <1>8, <3>2
    <3> QED
      BY <3>1, <3>2, <3>3
  <2>3. \A q \in Runs : client'[q] = "reading" <=> box'[q] # 0
    BY <1>6, <1>8
  <2>4. \A q \in Runs : client'[q] # "reading" => seen'[q] = <<>>
    BY <1>6, <1>8
  <2> QED
    BY <1>5, <1>6, <1>7, <1>8, <2>1, <2>2, <2>3, <2>4 DEF QueueTypes
<1>11. QueuesApart'
  <2>1. Redis => (\A j, k \in Runs : box'[j] # 0 /\ box'[j] = box'[k] => j = k)
    <3>1. \A q \in Runs : box'[q] # 0 => box'[q] = box[q]
      BY <1>6
    <3> QED
      BY <1>1, <3>1 DEF QueuesApart
  <2>2. ASSUME ~Redis
        PROVE  /\ \A j, k \in Runs : box'[j] # 0 /\ box'[j] = box'[k] => SearchOf[j] = SearchOf[k]
               /\ \A k \in Runs, t \in Searches :
                     box'[k] # 0 /\ box'[k] = current'[t] => SearchOf[k] = t
               /\ \A t, u \in Searches : current'[t] # 0 /\ current'[t] = current'[u] => t = u
    <3>1. \A k \in Runs : box'[k] \in {0, box[k]}
      BY <1>6
    <3> QED
      BY <1>1, <1>7, <2>2, <3>1 DEF QueuesApart
  <2> QED
    BY <1>9, <2>1, <2>2 DEF QueuesApart
<1>12. \A q \in Runs \ {r} : Served(q)'
  <2>1. client'[r] # "off" /\ deploy' = deploy /\ published' = published
    BY <1>6
  <2>2. \A q \in Runs \ {r} : client[q] = "reading" /\ (Redis \/ SearchOf[q] # SearchOf[r])
                              => boxes'[box[q]] = boxes[box[q]]
    <3> SUFFICES ASSUME NEW q \in Runs \ {r}, client[q] = "reading",
                        Redis \/ SearchOf[q] # SearchOf[r]
                 PROVE  boxes'[box[q]] = boxes[box[q]]
      OBVIOUS
    <3>1. box[q] \in 1 .. n /\ box[r] # 0
      BY <1>3, <1>8
    <3>2. box[q] # m
      BY <1>1, <1>3, <3>1 DEF QueuesApart
    <3> QED
      BY <1>5, <3>1, <3>2
  <2>3. ~Redis => \A t \in Searches \ {s} :
                     current[t] # 0 => boxes'[current[t]] = boxes[current[t]]
    <3> SUFFICES ASSUME ~Redis, NEW t \in Searches \ {s}, current[t] # 0
                 PROVE  boxes'[current[t]] = boxes[current[t]]
      OBVIOUS
    <3>1. current[t] \in 1 .. n /\ box[r] # 0
      BY <1>3, <1>8
    <3>2. current[t] # m
      BY <1>1, <1>3, <3>1 DEF QueuesApart, s
    <3> QED
      BY <1>5, <3>1, <3>2
  <2> QED
    BY <1>6, <1>7, <2>1, <2>2, <2>3, OthersServed DEF s
<1>13. Served(r)'
  BY <1>6 DEF Served
<1> QED
  BY <1>10, <1>11, <1>12, <1>13 DEF QueueInv

LEMMA ReadServes ==
    ASSUME RunTypes, QueueInv, NEW r \in Runs, Read(r)
    PROVE  QueueInv'
<1> DEFINE s == SearchOf[r]
           f == Head(boxes[box[r]])
<1>1. QueueTypes /\ QueuesApart /\ Served(r) /\ s \in Searches
  BY DEF QueueInv, Searches
<1>2. PICK n \in Nat : n = Len(boxes)
  BY <1>1 DEF QueueTypes
<1>3. client[r] = "reading" /\ boxes[box[r]] # <<>> /\ UNCHANGED <<deploy, published, timely>>
  BY DEF Read
<1>4. PICK m \in 1 .. n : m = box[r]
  BY <1>1, <1>2, <1>3 DEF QueueTypes
<1>5. /\ boxes \in Seq(Seq(Sent)) /\ boxes[m] \in Seq(Sent)
      /\ seen \in [Runs -> Seq(Sent)]
  <2>1. boxes \in Seq(Seq(Sent)) /\ seen \in [Runs -> Seq(Sent)]
    BY <1>1 DEF QueueTypes
  <2> QED
    BY <1>2, <2>1
<1>6. /\ Append(seen[r], f) \o Tail(boxes[m]) = seen[r] \o boxes[m]
      /\ Append(seen[r], f) \in Seq(Sent) /\ Tail(boxes[m]) \in Seq(Sent)
  <2>1. \A a, c \in Seq(Sent) : c # <<>> =>
           /\ Append(a, Head(c)) \o Tail(c) = a \o c
           /\ Append(a, Head(c)) \in Seq(Sent) /\ Tail(c) \in Seq(Sent)
    BY ReadMoves
  <2>2. boxes[m] # <<>> /\ boxes[m] \in Seq(Sent) /\ seen[r] \in Seq(Sent)
        /\ f = Head(boxes[m])
    BY <1>3, <1>4, <1>5
  <2> HIDE DEF f
  <2> QED
    BY <2>1, <2>2
<1>7. CASE f.kind = "end"
  <2>1. Close(r, "done", Tail(boxes[m]))
    BY <1>4, <1>7 DEF Read
  <2> QED
    BY <1>3, <1>6, <2>1, CloseServes
<1>8. CASE f.kind # "end"
  <2>1. /\ seen' = [seen EXCEPT ![r] = Append(seen[r], f)]
        /\ boxes' = [boxes EXCEPT ![m] = Tail(boxes[m])]
        /\ UNCHANGED <<client, box, current>>
    BY <1>4, <1>8 DEF Read
  <2>2. /\ seen' \in [Runs -> Seq(Sent)] /\ seen'[r] = Append(seen[r], f)
        /\ \A q \in Runs \ {r} : seen'[q] = seen[q]
    <3> HIDE DEF f
    <3> QED
      BY <1>5, <1>6, <2>1
  <2>3. /\ boxes' \in Seq(Seq(Sent)) /\ Len(boxes') = n /\ boxes'[m] = Tail(boxes[m])
        /\ \A i \in 1 .. n : i # m => boxes'[i] = boxes[i]
    BY <1>2, <1>5, <1>6, <2>1
  <2>4. QueueTypes'
    <3>1. \A q \in Runs : client[q] # "reading" => seen'[q] = <<>>
      BY <1>1, <1>3, <2>2 DEF QueueTypes
    <3> QED
      BY <1>1, <1>2, <1>3, <2>1, <2>2, <2>3, <3>1 DEF QueueTypes
  <2>5. QueuesApart' /\ (Redis' <=> Redis) /\ (Alone(r)' <=> Alone(r))
    BY <1>1, <1>3, <2>1 DEF QueuesApart, Redis, Alone
  <2>6. /\ \A q \in Runs : box[q] <= n /\ box[q] \in Nat
        /\ \A t \in Searches : current[t] <= n /\ current[t] \in Nat
        /\ \A q \in Runs : client[q] = "reading" <=> box[q] # 0
    BY <1>1, <1>2 DEF QueueTypes
  <2>7. \A q \in Runs \ {r} : Served(q)'
    <3>1. client'[r] # "off" /\ deploy' = deploy /\ published' = published
      BY <1>3, <2>1
    <3>2. \A q \in Runs \ {r} : client[q] = "reading" /\ (Redis \/ SearchOf[q] # SearchOf[r])
                                => boxes'[box[q]] = boxes[box[q]]
      BY <1>1, <1>4, <2>3, <2>6 DEF QueuesApart
    <3>3. ~Redis => \A t \in Searches \ {s} :
                       current[t] # 0 => boxes'[current[t]] = boxes[current[t]]
      BY <1>1, <1>4, <2>3, <2>6 DEF QueuesApart
    <3> QED
      BY <1>3, <2>1, <2>2, <3>1, <3>2, <3>3, OthersServed
  <2>8. seen'[r] \o boxes'[box'[r]] = seen[r] \o boxes[box[r]]
    <3> HIDE DEF f
    <3> QED
      BY <1>4, <1>6, <2>1, <2>2, <2>3
  <2>9. Served(r)'
    BY <1>1, <1>3, <2>1, <2>5, <2>8 DEF Served
  <2> QED
    BY <2>4, <2>5, <2>7, <2>9 DEF QueueInv
<1> QED
  BY <1>7, <1>8

LEMMA QueueStep == RunTypes /\ QueueInv /\ [RelayNext]_relayVars => QueueInv'
<1> SUFFICES ASSUME RunTypes, QueueInv, [RelayNext]_relayVars PROVE QueueInv'
  OBVIOUS
<1>1. CASE UNCHANGED <<deploy, published, streamVars, boxes, current>>
  <2>1. UNCHANGED <<deploy, published, client, box, boxes, current, seen, timely>>
    BY <1>1 DEF streamVars
  <2>2. QueueTypes'
    BY <2>1 DEF QueueInv, QueueTypes
  <2>3. QueuesApart'
    BY <2>1 DEF QueueInv, QueuesApart, Redis
  <2>4. \A q \in Runs : Served(q)'
    BY <2>1 DEF QueueInv, Served, Alone, Redis
  <2> QED
    BY <2>2, <2>3, <2>4 DEF QueueInv
<1>2. ASSUME NEW r \in Runs, Leave(r) PROVE QueueInv'
  <2>1. /\ client[r] = "waiting" /\ client'[r] = "gone"
        /\ \A q \in Runs \ {r} : client'[q] = client[q]
        /\ client' \in [Runs -> {"off", "waiting", "reading", "done", "gone"}]
        /\ UNCHANGED <<deploy, published, box, boxes, current, seen, timely>>
    BY <1>2 DEF Leave, QueueInv, QueueTypes
  <2>2. QueueTypes' /\ QueuesApart'
    BY <2>1 DEF QueueInv, QueueTypes, QueuesApart, Redis
  <2>3. \A q \in Runs \ {r} : Served(q)'
    BY <2>1, OthersServed
  <2>4. Served(r)'
    BY <2>1 DEF Served
  <2> QED
    BY <2>2, <2>3, <2>4 DEF QueueInv
<1>3. ASSUME NEW r \in Runs, Disconnect(r) PROVE QueueInv'
  <2>1. client[r] = "reading" /\ Close(r, "gone", boxes[box[r]])
        /\ UNCHANGED <<deploy, published, timely>>
    BY <1>3 DEF Disconnect
  <2>2. boxes[box[r]] \in Seq(Sent)
    BY <2>1 DEF QueueInv, QueueTypes
  <2> QED
    BY <2>1, <2>2, CloseServes
<1>4. ASSUME NEW r \in Runs, LoadFails(r) \/ Report(r) \/ Finish(r) PROVE QueueInv'
  <2>1. \E f \in Sent : Publish(f)
    BY <1>4, OwnFramesAreSent DEF LoadFails, Report, Finish, ReportCrash, EndChannel
  <2>2. UNCHANGED <<deploy, streamVars>>
    BY <1>4 DEF LoadFails, Report, Finish
  <2> QED
    BY <2>1, <2>2, PublishServes
<1>5. ASSUME NEW r \in Runs, NEW b \in Boards, SendFrame(r, b) PROVE QueueInv'
  <2>1. sending[r][b] \in Sent /\ Publish(sending[r][b]) /\ UNCHANGED <<deploy, streamVars>>
    BY <1>5 DEF SendFrame, RunTypes
  <2> QED
    BY <2>1, PublishServes
<1>6. ASSUME NEW r \in Runs, NEW b \in Boards, Emit(r, b) PROVE QueueInv'
  <2> DEFINE c == callback[Process(r)][b]
             n == done[r][b] + 1
             total == CountTotal(r, b, n)
             cs == [counts[c] EXCEPT ![<<Band(r), b>>] = <<n, total>>]
             f == [via |-> c, of |-> r, kind |-> "work",
                   bar |-> IF total = 0 THEN 0 ELSE Bar(cs, Band(r))]
  <2>1. UNCHANGED <<deploy, streamVars>>
    BY <1>6 DEF Emit
  <2>2. CASE UNCHANGED <<published, boxes, current>>
    BY <1>1, <2>1, <2>2
  <2>3. CASE ~UNCHANGED <<published, boxes, current>>
    <3>1. ~(c = NoRun \/ (r \notin Starts /\ b \in Muted)) /\ Publish(f)
      BY <1>6, <2>3 DEF Emit
    <3>2. c \in Runs
      <4>1. Process(r) \in Processes
        BY DEF Process, Processes
      <4> QED
        BY <3>1, <4>1 DEF RunTypes
    <3>3. f \in Sent
      <4>1. done[r][b] \in Nat
        BY DEF RunTypes
      <4>2. n \in Nat /\ n <= Assigned[r][b]
        BY <1>6, <4>1 DEF Emit
      <4> HIDE DEF c, n
      <4> QED
        BY <3>2, <4>2, EmittedIsSent
    <3> HIDE DEF f
    <3> QED
      BY <2>1, <3>1, <3>3, PublishServes
  <2> QED
    BY <2>2, <2>3
<1>7. ASSUME NEW r \in Runs, Attach(r) \/ Preempt(r) \/ Die(r) PROVE QueueInv'
  BY <1>1, <1>7 DEF Attach, Preempt, Die
<1>8. ASSUME NEW r \in Runs, NEW raises \in BOOLEAN, Return(r, raises) PROVE QueueInv'
  BY <1>1, <1>8 DEF Return
<1>9. CASE UNCHANGED relayVars
  BY <1>1, <1>9 DEF relayVars
<1> QED
  BY <1>2, <1>3, <1>4, <1>5, <1>6, <1>7, <1>8, <1>9, AskServes, SubscribeServes, ReadServes
     DEF RelayNext, Works

(* A stream that subscribed before its run published anything, and with the  *)
(* memory broker the only stream of a search, has every frame of its run,    *)
(* the sentinel included, read or waiting, in the order of their publishing. *)
THEOREM NothingIsMissed == RelaySpec => []ReaderMissesNothing
<1>1. QueueInv => ReaderMissesNothing
  BY DEF QueueInv, Served, ReaderMissesNothing
<1>2. RelayInit => RunTypes /\ QueueInv
  BY RunTypesInit, QueueInit
<1>3. RunTypes /\ QueueInv /\ [RelayNext]_relayVars => (RunTypes /\ QueueInv)'
  BY RunTypesStep, QueueStep
<1> QED
  BY <1>1, <1>2, <1>3, PTL DEF RelaySpec

===============================================================================
