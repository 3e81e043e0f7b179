-------------------------------- MODULE Messaging -------------------------------
(***************************************************************************)
(* The daily messaging job: two onboarding e-mails, each to the users      *)
(* whose anchor event fell on the UTC day Anchor days back.                *)
(*                                                                         *)
(* An execution selects a cohort, and for each of its members loads the    *)
(* profile, looks in message_log, sends, and logs, each in a transaction   *)
(* of its own, while users register, pay, start searches, unsubscribe and  *)
(* delete their accounts.  It may be terminated, killed, or retried.       *)
(***************************************************************************)
EXTENDS Integers, Sequences

CONSTANTS
    Users,
    Jobs,         \* executions that can exist at once
    Overlap,      \* may two executions run at once?
    Anchor,       \* MESSAGING_ANCHOR_DAYS (3)
    MaxDay,       \* bound: days
    MaxLaunches   \* bound: executions a day

ASSUME MessagingAssumption ==
    /\ {MaxDay, MaxLaunches} \subseteq Nat \ {0}  /\ Anchor \in Nat  /\ Overlap \in BOOLEAN

Kinds   == {"checkin", "reminder"}
Days    == 1..MaxDay
Never   == 0
Nobody  == "nobody"
Stopped == {"idle", "done", "aborted", "killed"}

VARIABLES
    day,       \* today, in UTC
    open,      \* users with an account
    created,   \* the day of registration
    paid,      \* the day of the first replenish
    searched,  \* users with a search, of any status
    opted,     \* marketing_opt_out
    log,       \* message_log
    job,       \* the executions
    launches,  \* executions today
    got,       \* history: how often each user was sent each kind
    mailed,    \* history: on which days
    lapses,    \* history: sends that were never logged
    clean      \* history: days whose cohorts an execution went through without a failure

vars == <<day, open, created, paid, searched, opted, log, job, launches, got, mailed, lapses,
          clean>>
History == <<got, mailed, lapses, clean>>
People  == <<open, created, paid, searched, opted>>

Idle == [pc |-> "idle", window |-> Never, todo |-> {}, paid |-> {}, user |-> Nobody,
         step |-> "take", failed |-> FALSE, sigterm |-> FALSE]

Init ==
    /\ day = 1  /\ open = {}  /\ searched = {}  /\ opted = {}  /\ log = {}
    /\ created = [u \in Users |-> Never]  /\ paid = [u \in Users |-> Never]
    /\ job = [j \in Jobs |-> Idle]  /\ launches = 0
    /\ got = [m \in Users \X Kinds |-> 0]  /\ lapses = [m \in Users \X Kinds |-> 0]
    /\ mailed = {}  /\ clean = {}

-----------------------------------------------------------------------------
(* The cohorts.                                                            *)

\* anchor_window: one whole day, and every day in one window.
Window == day - Anchor

\* first_purchase_between and list_created_between.
PaidIn(w)         == {u \in open : paid[u] = w}
CreatedIn(w)      == {u \in open : created[u] = w}
Reminded(w)       == CreatedIn(w) \ opted
NeverSent(u, k)   == FALSE
SentSomething(u, k) == \E x \in Kinds : <<u, x>> \in log
AlreadySent(u, k) == <<u, k>> \in log

\* Who gets no reminder: a customer of the same day, and whoever has a search.
PassedOver(it, u) == u \in it.paid \/ u \in searched

Running(j) == job[j].pc \notin Stopped

Skip(j)  == [job[j] EXCEPT !.todo = @ \ {job[j].user}, !.user = Nobody, !.step = "take"]
Ended(j, how) == [Idle EXCEPT !.pc = how]

-----------------------------------------------------------------------------
(* An execution.                                                           *)

Launch(j) ==
    /\ ~Running(j)  /\ launches < MaxLaunches  /\ Window > Never
    /\ Overlap \/ \A i \in Jobs : ~Running(i)
    /\ launches' = launches + 1
    /\ job' = [job EXCEPT ![j] = [Idle EXCEPT !.pc = "checkin", !.window = Window,
                                              !.todo = PaidIn(Window)]]
    /\ UNCHANGED <<day, People, log, History>>

\* The profile is loaded.  user_repo.get raises for a user who left since the
\* cohort was selected, and nothing catches it.
Take(j) == \E u \in job[j].todo :
    LET it == job[j]
    IN  /\ Running(j)  /\ it.step = "take"
        /\ job' = [job EXCEPT ![j] =
                      IF it.pc = "reminder" /\ PassedOver(it, u) THEN [it EXCEPT !.todo = @ \ {u}]
                      ELSE IF u \notin open THEN Ended(j, "aborted")
                      ELSE [it EXCEPT !.user = u, !.step = "check"]]
        /\ UNCHANGED <<day, People, log, launches, History>>

Check(j) ==
    /\ job[j].step = "check"
    /\ job' = [job EXCEPT ![j] = IF AlreadySent(job[j].user, job[j].pc) THEN Skip(j)
                                 ELSE [job[j] EXCEPT !.step = "send"]]
    /\ UNCHANGED <<day, People, log, launches, History>>

Send(j) == LET m == <<job[j].user, job[j].pc>> IN
    /\ job[j].step = "send"
    /\ job' = [job EXCEPT ![j].step = "log"]
    /\ got' = [got EXCEPT ![m] = @ + 1]  /\ mailed' = mailed \union {Append(m, day)}
    /\ UNCHANGED <<day, People, log, launches, lapses, clean>>

\* The provider refuses, or the call fails, with the message on its way or not.
SendFails(j) == LET m == <<job[j].user, job[j].pc>> IN
    /\ job[j].step = "send"
    /\ job' = [job EXCEPT ![j] = [Skip(j) EXCEPT !.failed = TRUE]]
    /\ \/ UNCHANGED <<got, mailed, lapses>>
       \/ /\ got' = [got EXCEPT ![m] = @ + 1]  /\ mailed' = mailed \union {Append(m, day)}
          /\ lapses' = [lapses EXCEPT ![m] = @ + 1]
    /\ UNCHANGED <<day, People, log, launches, clean>>

\* ON CONFLICT DO NOTHING; a user who is gone breaks the foreign key.
Record(j) == LET it == job[j] IN
    /\ it.step = "log"
    /\ IF it.user \in open
       THEN /\ log' = log \union {<<it.user, it.pc>>}
            /\ job' = [job EXCEPT ![j] = Skip(j)]
            /\ UNCHANGED lapses
       ELSE /\ job' = [job EXCEPT ![j] = Ended(j, "aborted")]
            /\ lapses' = [lapses EXCEPT ![<<it.user, it.pc>>] = @ + 1]
            /\ UNCHANGED log
    /\ UNCHANGED <<day, People, launches, got, mailed, clean>>

\* The stop is read once, between the two cohorts.
SecondCohort(j) == LET it == job[j] IN
    /\ it.pc = "checkin"  /\ it.step = "take"  /\ it.todo = {}
    /\ job' = [job EXCEPT ![j] =
                  IF it.sigterm THEN Ended(j, "done")
                  ELSE [it EXCEPT !.pc = "reminder", !.todo = Reminded(it.window),
                                  !.paid = PaidIn(it.window)]]
    /\ UNCHANGED <<day, People, log, launches, History>>

Exit(j) == LET it == job[j] IN
    /\ it.pc = "reminder"  /\ it.step = "take"  /\ it.todo = {}
    /\ job' = [job EXCEPT ![j] = Ended(j, "done")]
    /\ clean' = IF it.failed THEN clean ELSE clean \union {it.window}
    /\ UNCHANGED <<day, People, log, launches, got, mailed, lapses>>

Sigterm(j) ==
    /\ Running(j)  /\ ~job[j].sigterm  /\ job' = [job EXCEPT ![j].sigterm = TRUE]
    /\ UNCHANGED <<day, People, log, launches, History>>

\* The grace period or the task's time is over, or the process dies.
Kill(j) == LET it == job[j] IN
    /\ Running(j)  /\ job' = [job EXCEPT ![j] = Ended(j, "killed")]
    /\ lapses' = IF it.step = "log" THEN [lapses EXCEPT ![<<it.user, it.pc>>] = @ + 1] ELSE lapses
    /\ UNCHANGED <<day, People, log, launches, got, mailed, clean>>

-----------------------------------------------------------------------------
(* The users, and the calendar.                                            *)

Register == \E u \in Users :
    /\ created[u] = Never  /\ open' = open \union {u}  /\ created' = [created EXCEPT ![u] = day]
    /\ UNCHANGED <<day, paid, searched, opted, log, job, launches, History>>

\* A renewal is a replenish as well, but not the first.
Pay == \E u \in open :
    /\ paid[u] = Never  /\ paid' = [paid EXCEPT ![u] = day]
    /\ UNCHANGED <<day, open, created, searched, opted, log, job, launches, History>>

StartSearch == \E u \in open \ searched :
    /\ searched' = searched \union {u}
    /\ UNCHANGED <<day, open, created, paid, opted, log, job, launches, History>>

Unsubscribe == \E u \in open \ opted :
    /\ opted' = opted \union {u}
    /\ UNCHANGED <<day, open, created, paid, searched, log, job, launches, History>>

\* The account goes, and its ledger, its searches and its log with it.
DeleteUser == \E u \in open :
    /\ open' = open \ {u}  /\ searched' = searched \ {u}  /\ opted' = opted \ {u}
    /\ log' = log \ ({u} \X Kinds)
    /\ UNCHANGED <<day, created, paid, job, launches, History>>

\* The job is triggered at eight and has a quarter of an hour.
NextDay ==
    /\ day < MaxDay  /\ \A j \in Jobs : ~Running(j)
    /\ day' = day + 1  /\ launches' = 0  /\ job' = [j \in Jobs |-> Idle]
    /\ UNCHANGED <<People, log, History>>

Next ==
    \/ \E j \in Jobs :
          \/ Launch(j) \/ Take(j) \/ Check(j) \/ Send(j) \/ SendFails(j) \/ Record(j)
          \/ SecondCohort(j) \/ Exit(j) \/ Sigterm(j) \/ Kill(j)
    \/ Register \/ Pay \/ StartSearch \/ Unsubscribe \/ DeleteUser \/ NextDay

Spec == Init /\ [][Next]_vars

-----------------------------------------------------------------------------
(* Properties.                                                             *)

TypeOK ==
    /\ day \in Days  /\ open \subseteq Users  /\ log \subseteq Users \X Kinds
    /\ created \in [Users -> 0..MaxDay]  /\ paid \in [Users -> 0..MaxDay]
    /\ \A j \in Jobs : job[j].pc \in Stopped \union Kinds

\* "nobody is emailed twice": an account gets a second copy of a message only when the
\* first one never reached message_log, because the execution ended between the
\* two or the provider's answer was lost, however often the job is retried.
OnlyALapseRepeats == \A m \in open \X Kinds : got[m] <= 1 + lapses[m]

\* "sending both on the same day would be the worst possible first impression":
\* nobody gets the reminder and the check-in on one day, through retries, crashes
\* and payments that arrive while the job runs.
NotBothOnOneDay ==
    \A u \in Users, d \in Days : ~(<<u, "checkin", d>> \in mailed /\ <<u, "reminder", d>> \in mailed)

\* Consecutive runs tile the timeline, and a run that reports no failure missed
\* nobody: every customer of its day has the check-in, and every account of its
\* day that paid on another day, if at all, and neither opted out nor ever
\* searched, has the reminder.
CleanRunMissesNobody ==
    \A u \in open :
        /\ paid[u] \in clean => <<u, "checkin">> \in log
        /\ created[u] \in clean /\ paid[u] # created[u] /\ u \notin opted \union searched
              => <<u, "reminder">> \in log

\* "One failure does not stop the run": no recipient makes an execution abort.
OneFailureStopsNothing == \A j \in Jobs : job[j].pc # "aborted"
================================================================================
