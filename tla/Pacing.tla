-------------------------------- MODULE Pacing ---------------------------------
(***************************************************************************)
(* The human pacing of one board's worker (HumanPacing): the pauses of its *)
(* two tracks, the budget they all share, and the heartbeat that has to go *)
(* on while they last.                                                     *)
(*                                                                         *)
(* The worker is built once per process, and its clock is a field of it:   *)
(* executions of several searches may follow or overlap one another on one *)
(* worker (LocalDispatcher), and a later process starts without a clock.   *)
(* Time passes in units of Unit seconds; a draw from a range of seconds is *)
(* a draw from the units it rounds to.  What a worker does on the site     *)
(* between two heartbeats of its loops takes any of Works.                 *)
(***************************************************************************)
EXTENDS Integers, FiniteSetsExt

CONSTANTS
    PacedBoards,   \* a subset of "apec", "hellowork", "wttj"
    Runs,     \* searches; a run's token is its name
    Unit,     \* 30: seconds of a unit, and tick_every
    Pace,     \* the pace knob
    Budget,   \* the pacing budget, in units
    Ceiling,  \* PAUSE_CEILING_S, in units
    Stale,    \* AGENT_HEARTBEAT_STALE_SECONDS, in units
    Works,    \* bound: what a site may take between two heartbeats, in units
    Lengths,  \* description lengths, in percent of _READ_LONG_CHARS
    MaxNow,   \* bound: units of time
    NoClock,  \* _run_started_at is None
    NoToken   \* _pacing_run_token is None

ASSUME PacingAssumption ==
    /\ PacedBoards \subseteq {"apec", "hellowork", "wttj"}
    /\ {Unit, Pace} \subseteq Nat \ {0}
    /\ {Budget, Ceiling, Stale, MaxNow} \subseteq Nat
    /\ Works \subseteq Nat  /\ Lengths \subseteq Nat
    /\ NoClock \notin Nat  /\ NoToken \notin Runs \X BOOLEAN

VARIABLES
    board,    \* whose worker this is
    now,      \* time.monotonic()
    clock,    \* _run_started_at
    token,    \* _pacing_run_token
    place,    \* where each execution is
    left,     \* units it stays there
    silence,  \* units since its last heartbeat, no longer counted once it is stale
    booted    \* history: when each run first came up in this process

execution == <<place, left, silence>>
pacingVars == <<board, now, clock, token, execution, booted>>

Tracks     == {"scrape", "submit"}
Executions == Runs \X Tracks

Pauses == {"browse", "scanned", "breathe", "drift", "break", "turn"}
Waits  == {"land", "scan", "open", "read"}
Loops  == {"page", "top"}
Ended  == {"idle", "over"}
Active(e) == place[e] \notin Ended

PacingInit ==
    /\ board \in PacedBoards
    /\ now = 0  /\ clock = NoClock  /\ token = NoToken
    /\ place = [e \in Executions |-> "idle"]
    /\ left = [e \in Executions |-> 0]
    /\ silence = [e \in Executions |-> 0]
    /\ booted = [r \in Runs |-> NoClock]

-----------------------------------------------------------------------------
(* The budget. *)

\* Mutant: idempotent within the process.
StartPacingOnce(t) ==
    /\ token' = t
    /\ IF clock = NoClock THEN clock' = now ELSE UNCHANGED clock

\* Idempotent within a run, whichever track comes up.
StartPacing(t) ==
    IF t = token THEN UNCHANGED <<clock, token>> ELSE clock' = now  /\ token' = t

OverBudget      == clock # NoClock  /\ now - clock > Budget
BudgetRemaining == IF clock = NoClock THEN Budget ELSE Max({0, Budget - (now - clock)})

-----------------------------------------------------------------------------
(* How long: ranges of seconds, drawn in units. *)

Units(low, high) == (low \div Unit)..((high + Unit - 1) \div Unit)

Tier == [NAV |-> 2, SCROLL |-> 3, CARD |-> 4, SUBMIT |-> 6]
Scaled(seconds, tier) == seconds * Tier[tier] * Pace

\* _pause: none over budget, no single one over the ceiling, none past the budget.
Pause(low, high, tier) ==
    IF OverBudget THEN {0}
    ELSE {Min({u, Ceiling, BudgetRemaining}) :
              u \in Units(Scaled(low, tier), Scaled(high, tier))}

DistractedStop == {0} \union Pause(1, 4, "NAV")
MaybeBreak     == {0} \union Pause(18, 55, "NAV")
ArrivalBrowse  == Pause(0, 6, "SCROLL")
Breathe(e)     == IF e[2] = "submit" THEN Pause(15, 25, "SUBMIT") ELSE Pause(6, 30, "CARD")

\* _READ_BAND_S; HelloWork's reading is commented out.
ReadBand == [apec |-> <<50, 150>>, wttj |-> <<60, 180>>]

\* _read_bounds: the length picks a midpoint of the band, a quarter either way.
ReadBounds(length) ==
    LET floor    == ReadBand[board][1]
        ceiling  == ReadBand[board][2]
        midpoint == floor + ((ceiling - floor) * Min({length, 100})) \div 100
        low      == Max({floor, (midpoint * 3) \div 4})
    IN  <<low, Max({low, Min({ceiling, (midpoint * 5) \div 4})})>>

\* human_scan_list and human_read_page look neither at the budget nor at the
\* heartbeat; the pace stretches the scan.
Scan == IF board = "apec" THEN Units(3 * Pace, 7 * Pace)
        ELSE Units(Scaled(2, "SCROLL"), Scaled(6, "SCROLL"))
Reading(length) == Units(ReadBounds(length)[1], ReadBounds(length)[2])

-----------------------------------------------------------------------------
(* One execution. *)

Moves(e, from, to, lengths) ==
    /\ place[e] = from  /\ left[e] = 0
    /\ place' = [place EXCEPT ![e] = to]
    /\ \E u \in lengths : left' = [left EXCEPT ![e] = u]
    /\ UNCHANGED <<board, now>>

Stays == UNCHANGED <<clock, token, silence, booted>>
Beat(e) == silence' = [silence EXCEPT ![e] = 0]

\* start_session or start_session_with_auth.  A resume has its run's token, or a
\* new one where the checkpoint does not give it.
Boot(e) ==
    /\ e[2] = "submit" => place[<<e[1], "scrape">>] = "over"
    /\ Moves(e, "idle", "land", Works)
    /\ \E fresh \in {FALSE, e[2] = "submit"} : StartPacing(<<e[1], fresh>>)
    /\ booted' = IF booted[e[1]] = NoClock THEN [booted EXCEPT ![e[1]] = now] ELSE booted
    /\ Beat(e)

\* Homepage, sign-in and search, with a look around; then the loop.
Land(e) ==
    \/ e[2] = "scrape"  /\ Moves(e, "land", "browse", ArrivalBrowse)  /\ Stays
    \/ e[2] = "scrape"  /\ Moves(e, "browse", "page", {0})  /\ Stays
    \/ e[2] = "submit"  /\ Moves(e, "land", "top", {0})  /\ Stays

\* A page of results: a heartbeat, a scan, and on APEC nothing more.
Page(e) ==
    \/ Moves(e, "page", "scan", Scan)  /\ Beat(e)  /\ UNCHANGED <<clock, token, booted>>
    \/ /\ Stays
       /\ \/ board = "apec"  /\ Moves(e, "scan", "top", {0})
          \/ board # "apec"  /\ Moves(e, "scan", "scanned", DistractedStop)
          \/ Moves(e, "scanned", "top", {0})

\* A card, or an offer to submit.
Card(e) ==
    /\ Moves(e, "top", "open", Works)
    /\ Beat(e)  /\ UNCHANGED <<clock, token, booted>>

\* The description is read; a card that is passed over costs no pause.
Read(e) ==
    /\ Stays
    /\ \/ /\ e[2] = "scrape"  /\ board # "hellowork"
          /\ \E l \in Lengths : Moves(e, "open", "read", Reading(l))
       \/ \E from \in {"open", "read"} : Moves(e, from, "top", {0})

Rest(e) ==
    /\ Stays
    /\ \/ place[e] = "open"  /\ (e[2] = "submit" \/ board = "hellowork")
          /\ Moves(e, "open", "breathe", Breathe(e))
       \/ Moves(e, "read", "breathe", Breathe(e))
       \/ e[2] = "scrape"  /\ Moves(e, "breathe", "drift", DistractedStop)
       \/ Moves(e, IF e[2] = "scrape" THEN "drift" ELSE "breathe", "break", MaybeBreak)
       \/ Moves(e, "break", "top", {0})

\* The next page of results, after a break or none.
Turn(e) ==
    /\ e[2] = "scrape"  /\ Stays
    /\ Moves(e, "top", "turn", MaybeBreak) \/ Moves(e, "turn", "page", {0})

\* The last card, a kill, an error.
Leave(e) == \E from \in Loops \union Waits : Moves(e, from, "over", {0})  /\ Stays

-----------------------------------------------------------------------------
(* Time: every wait goes on.  A pause beats at the end of each of its slices  *)
(* (human_long_pause); nothing else does.                                    *)

Passes(beats) ==
    /\ now < MaxNow  /\ \E e \in Executions : Active(e)
    /\ \A e \in Executions : Active(e) => left[e] > 0
    /\ now' = now + 1
    /\ left' = [e \in Executions |-> IF Active(e) THEN left[e] - 1 ELSE 0]
    /\ silence' = [e \in Executions |->
           IF Active(e)  /\ ~(place[e] \in Pauses /\ left[e] \in beats)
           THEN Min({silence[e], Stale}) + 1 ELSE 0]
    /\ UNCHANGED <<board, clock, token, place, booted>>

\* Mutant: one heartbeat at the end of a pause.
PassBeatingAtTheEnd == Passes({1})
Pass == Passes(1..Ceiling)

\* Between executions time passes without a trace of its own: the user reviews.
Review ==
    /\ now < MaxNow  /\ \A e \in Executions : ~Active(e)
    /\ \E r \in Runs : place[<<r, "scrape">>] = "over"  /\ place[<<r, "submit">>] = "idle"
    /\ now' = now + 1
    /\ UNCHANGED <<board, clock, token, execution, booted>>

\* The next execution is in another process (CloudRunJobsDispatcher), with a worker
\* of its own; LocalDispatcher stays in this one.
NewProcess ==
    /\ \A e \in Executions : ~Active(e)  /\ clock # NoClock
    /\ clock' = NoClock  /\ token' = NoToken
    /\ booted' = [r \in Runs |-> NoClock]
    /\ UNCHANGED <<board, now, execution>>

PacingNext ==
    \/ \E e \in Executions : Boot(e) \/ Land(e) \/ Page(e) \/ Card(e) \/ Read(e)
                             \/ Rest(e) \/ Turn(e) \/ Leave(e)
    \/ Pass \/ Review \/ NewProcess

PacingSpec == PacingInit /\ [][PacingNext]_pacingVars

-----------------------------------------------------------------------------
(* Properties. *)

PacingTypeOK ==
    /\ board \in PacedBoards  /\ now \in 0..MaxNow
    /\ clock \in 0..MaxNow \union {NoClock}
    /\ token \in (Runs \X BOOLEAN) \union {NoToken}
    /\ place \in [Executions -> Pauses \union Waits \union Loops \union Ended]
    /\ left \in [Executions -> Nat]
    /\ silence \in [Executions -> 0..(Stale + 1)]
    /\ booted \in [Runs -> 0..MaxNow \union {NoClock}]

\* "Silently disabling all pacing for the life of the process", and "past it, every
\* deliberate pause collapses": whatever runs follow and overlap one another on the
\* worker, no execution finds its pauses spent by a run that came up before its own
\* did, and a pause under way is over when the budget is.
PacedByItsOwnBudget ==
    \A e \in Executions : Active(e) =>
        /\ clock # NoClock  /\ clock >= booted[e[1]]
        /\ place[e] \in Pauses /\ left[e] > 0 => now + left[e] <= clock + Budget

\* "Or a healthy agent would be declared dead": pauses, however long, do not make a
\* running search look dead.  HelloWork's worker only: the other two read offers,
\* and beat no heart while they do.
SeemsAlive ==
    board = "hellowork" => \A e \in Executions : Active(e) => silence[e] <= Stale

\* By hand (violated): the same of the boards that read.
ReaderSeemsAlive == \A e \in Executions : Active(e) => silence[e] <= Stale

\* By hand (violated): what is not a _pause keeps to the budget too.
ReadingKeepsToTheBudget ==
    \A e \in Executions : place[e] = "read" /\ left[e] > 0 => now <= clock + Budget

\* By hand (violated): "both browser tracks of one run share" one budget.
OneBudgetPerRun ==
    \A e \in Executions : place[e] \in Pauses  /\ left[e] > 0 => now <= booted[e[1]] + Budget

\* By hand (violated): a resume is paced.
ResumesArePaced ==
    [][\A r \in Runs : place[<<r, "submit">>] = "idle" /\ place'[<<r, "submit">>] # "idle"
           => now - clock' <= Budget]_pacingVars
================================================================================
