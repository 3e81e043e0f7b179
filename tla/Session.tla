-------------------------------- MODULE Session --------------------------------
(***************************************************************************)
(* A board worker around its scraping and submitting nodes: the browser it *)
(* starts, the persona that browser wears, the saved sign-in (cookie jar)  *)
(* it loads and saves, and the cleanup.  One worker object lives in each   *)
(* process and keeps one browser, one page and one current persona for all *)
(* the runs of that process; a jar is kept on the process's disk and, when *)
(* a session store is wired, in the store.                                 *)
(*                                                                         *)
(* A Cloud Run job executes one run in its own process.  LocalDispatcher   *)
(* executes every run in the process of the API, and nothing there keeps   *)
(* two runs apart: Overlap says whether they may be under way at once.     *)
(***************************************************************************)
CONSTANTS
    Boards,     \* a subset of "apec", "hellowork", "wttj"
    Runs,
    Users,
    Personas,
    OwnerOf,    \* the user a persona belongs to
    Processes,
    Overlap     \* may two runs of one process be under way at once?

NoRun == "none"

ASSUME SessionAssumption ==
    /\ Boards \subseteq {"apec", "hellowork", "wttj"}
    /\ OwnerOf \in [Personas -> Users]
    /\ Overlap \in BOOLEAN
    /\ NoRun \notin Runs

NoPersona == "nofp"
Guest     == "guest"

Devices == Personas \union {NoPersona}
\* Who is signed in, and the device that signed in.
SignIns == [user : Users, device : Devices]
SignedOut == [user |-> Guest, device |-> NoPersona]
Jars    == SignIns \union {SignedOut}
NoJar   == [user |-> "nobody", device |-> NoPersona]
Keys    == Users \X Devices

VARIABLES
    board,    \* whose workers these are
    store,    \* is a session store wired
    who,      \* the user of a run
    wears,    \* the persona the master resolved for a run
    submits,  \* does the run submit (start_with_session), or scrape
    auto,     \* a scrape: full automation, with credentials; a submission: credentials
    host,     \* the process of a run
    node,     \* where a run's graph is
    fp,       \* _fingerprint_id, by process
    browser,  \* the run whose browser the worker of a process holds
    page,     \* the run whose page and context it holds
    up,       \* the runs whose browser is running
    open,     \* the runs whose page is open
    cookies,  \* what the browser context of a run is signed in as
    local,    \* the jars on the disk of a process
    stored    \* the jars in the store

run   == <<board, store, who, wears, submits, auto, host>>
wheel == <<browser, page, up, open>>
jars  == <<local, stored>>
vars  == <<run, node, fp, wheel, cookies, jars>>

Init ==
    /\ board \in Boards  /\ store \in BOOLEAN
    /\ wears \in [Runs -> Devices]  /\ who \in [Runs -> Users]
    /\ \A r \in Runs : wears[r] \in Personas => who[r] = OwnerOf[wears[r]]
    /\ submits \in [Runs -> BOOLEAN]  /\ auto \in [Runs -> BOOLEAN]
    /\ host \in [Runs -> Processes]
    /\ node = [r \in Runs |-> "idle"]
    /\ fp = [h \in Processes |-> NoPersona]
    /\ browser = [h \in Processes |-> NoRun]  /\ page = [h \in Processes |-> NoRun]
    /\ up = {}  /\ open = {}
    /\ cookies = [r \in Runs |-> SignedOut]
    /\ local = [h \in Processes |-> [k \in Keys |-> NoJar]]
    /\ stored = [k \in Keys |-> NoJar]

Active(r) == node[r] \notin {"idle", "ended", "lost"}

\* The worker's page, as a run's node finds it.
pageOf(r)   == page[host[r]]
PageUsable(r) == pageOf(r) \in open

\* Where a run's jar is looked for: under the worker's current persona.
Key(r) == <<who[r], fp[host[r]]>>

GoTo(r, n) == node' = [node EXCEPT ![r] = n]
\* A node that fails returns an error, and the router goes to cleanup.
Fails(r)   == GoTo(r, "cleanup")

-----------------------------------------------------------------------------
(* start_session and start_session_with_auth.                              *)

\* The persona is recorded before anything that builds a path to a jar.
KeepsPersona(r) == UNCHANGED fp
RecordPersona(r) == fp' = [fp EXCEPT ![host[r]] = wears[r]]

Begin(r) ==
    /\ node[r] = "idle"
    /\ Overlap \/ \A s \in Runs : host[s] = host[r] => ~Active(s)
    /\ RecordPersona(r)
    /\ GoTo(r, "launch")
    /\ UNCHANGED <<run, wheel, cookies, jars>>

Launches(r, next) ==
    /\ node[r] = "launch"
    /\ \/ /\ browser' = [browser EXCEPT ![host[r]] = r]  /\ up' = up \union {r}
          /\ GoTo(r, next)
       \/ Fails(r)  /\ UNCHANGED <<browser, up>>
    /\ UNCHANGED <<run, fp, page, open, cookies, jars>>

OpensContext(r) ==
    /\ node[r] = "context"
    /\ \/ /\ r \in up
          /\ page' = [page EXCEPT ![host[r]] = r]  /\ open' = open \union {r}
          /\ GoTo(r, "home")
       \/ Fails(r)  /\ UNCHANGED <<page, open>>
    /\ UNCHANGED <<run, fp, browser, up, cookies, jars>>

\* The stored jar is copied to the disk, if the store is wired and gives it; the
\* jar found on the disk is what the context will start from.
LoadJar(r) ==
    /\ node[r] = "load"
    /\ \/ /\ store  /\ stored[Key(r)] # NoJar
          /\ local' = [local EXCEPT ![host[r]][Key(r)] = stored[Key(r)]]
       \/ UNCHANGED local
    /\ cookies' = [cookies EXCEPT ![r] =
           IF local'[host[r]][Key(r)] = NoJar THEN SignedOut ELSE local'[host[r]][Key(r)]]
    /\ GoTo(r, "context")
    /\ UNCHANGED <<run, fp, wheel, stored>>

\* The board's homepage, in three attempts: a node of its own when scraping, the
\* end of start_session_with_auth when submitting.
Arrive(r, next) ==
    /\ node[r] = "home"
    /\ (PageUsable(r)  /\ GoTo(r, next)) \/ Fails(r)
    /\ UNCHANGED <<run, fp, wheel, cookies, jars>>
GoToJobBoard(r) == ~submits[r]  /\ Arrive(r, IF auto[r] THEN "form" ELSE "login")

StartSession(r) == ~submits[r]  /\ (Launches(r, "context") \/ OpensContext(r))
StartSessionWithAuth(r) ==
    submits[r]  /\ (Launches(r, "load") \/ LoadJar(r) \/ OpensContext(r) \/ Arrive(r, "gate"))

-----------------------------------------------------------------------------
(* Signing in.                                                             *)

ForgetUnnamed(r) == local' = [local EXCEPT ![host[r]][<<who[r], NoPersona>>] = NoJar]
ForgetLocal(r) == local' = [local EXCEPT ![host[r]][Key(r)] = NoJar]

\* _is_session_valid: the page shows somebody signed in.  A session the site has
\* ended does not, nor does a page too slow to show it.
TakesAnybody(r) == PageUsable(r)
Valid(r) == PageUsable(r)  /\ cookies[pageOf(r)].user # Guest
Expires(r) ==
    cookies' \in {cookies} \union
        (IF PageUsable(r) THEN {[cookies EXCEPT ![pageOf(r)] = SignedOut]} ELSE {})

\* An expired session is signed in again with the stored credentials; without them
\* the run ends and the jar on the disk is dropped.
Renews(r) ==
    /\ Expires(r)
    /\ \/ auto[r]  /\ GoTo(r, "form")  /\ UNCHANGED local
       \/ ~auto[r]  /\ Fails(r)  /\ ForgetLocal(r)

Gate(r) ==
    /\ node[r] = "gate"
    /\ \/ Valid(r)  /\ GoTo(r, "search")  /\ UNCHANGED <<cookies, local>>
       \/ Renews(r)
       \* The click into the candidate's area, and the reload before a renewal, are
       \* in no try but the node's own.
       \/ board # "wttj"  /\ Fails(r)  /\ Expires(r)  /\ UNCHANGED local
    /\ UNCHANGED <<run, fp, wheel, stored>>

SignedIn(r) == [cookies EXCEPT ![pageOf(r)] = [user |-> who[r], device |-> wears[pageOf(r)]]]
\* What the site makes of it is the site's: a login that reports failure may have
\* signed in all the same.
Tried(r) == {cookies} \union (IF PageUsable(r) THEN {SignedIn(r)} ELSE {})

\* request_login ends with an error, and _perform_auto_login has the jar dropped.
LoginFails(r) == Fails(r)  /\ IF submits[r] THEN ForgetLocal(r) ELSE UNCHANGED local

\* The form is shown to a guest only.  `awaited`: an attempt to submit waits for the
\* site to sign in, and a repeated one finds no form where the first has; `proof`:
\* what is asked for at the end.
LoginStages(r, awaited, proof) ==
    /\ UNCHANGED <<run, fp, wheel, stored>>
    /\ \/ /\ node[r] = "form"  /\ UNCHANGED cookies
          /\ \/ /\ PageUsable(r)  /\ ~Valid(r)
                /\ GoTo(r, "typing")  /\ UNCHANGED local
             \/ LoginFails(r)
       \/ /\ node[r] = "typing"  /\ cookies' \in Tried(r)
          /\ \/ /\ PageUsable(r)  /\ (awaited => cookies' = SignedIn(r))
                /\ GoTo(r, "confirm")  /\ UNCHANGED local
             \/ LoginFails(r)
       \/ /\ node[r] = "confirm"  /\ UNCHANGED cookies
          /\ \/ PageUsable(r)  /\ proof  /\ GoTo(r, "save")  /\ UNCHANGED local
             \/ LoginFails(r)

\* APEC: the first sign-in waits for the candidate's address at each attempt, the
\* renewal only afterwards.
ApecRequestLogin(r) == board = "apec"  /\ ~submits[r]  /\ LoginStages(r, TRUE, Valid(r))
ApecAutoLogin(r)    == board = "apec"  /\ submits[r]   /\ LoginStages(r, FALSE, Valid(r))

\* HelloWork: each attempt waits for the account's menu; the homepage that is asked
\* for in the end is everybody's.
HwRequestLogin(r) == board = "hellowork"  /\ ~submits[r]  /\ LoginStages(r, TRUE, TRUE)
HwAutoLogin(r)    == board = "hellowork"  /\ submits[r]   /\ LoginStages(r, TRUE, TRUE)

\* Welcome to the Jungle: the menu of somebody signed in is asked for afterwards.
WttjRequestLogin(r) == board = "wttj"  /\ ~submits[r]  /\ LoginStages(r, FALSE, Valid(r))
WttjAutoLogin(r)    == board = "wttj"  /\ submits[r]   /\ LoginStages(r, FALSE, Valid(r))

\* Semi-automation: the user has 90 seconds, whoever has credentials stored.  Only
\* Welcome to the Jungle looks for somebody signed in afterwards; APEC and HelloWork
\* click on links.
ManualSignIn(r, looks) ==
    /\ node[r] = "login"  /\ cookies' \in Tried(r)
    /\ \/ PageUsable(r)  /\ (looks => cookies' = SignedIn(r))  /\ GoTo(r, "save")
       \/ Fails(r)
    /\ UNCHANGED <<run, fp, wheel, jars>>
ApecManualSignIn(r) == board = "apec"       /\ ManualSignIn(r, FALSE)
HwManualSignIn(r)   == board = "hellowork"  /\ ManualSignIn(r, FALSE)
WttjManualSignIn(r) == board = "wttj"       /\ ManualSignIn(r, TRUE)

\* _save_auth_state: the worker's context, under the worker's persona, to the
\* disk and (best effort) to the store.
Save(r) ==
    /\ node[r] = "save"
    /\ \/ /\ pageOf(r) # NoRun  /\ PageUsable(r)
          /\ local' = [local EXCEPT ![host[r]][Key(r)] = cookies[pageOf(r)]]
          /\ \/ store  /\ stored' = [stored EXCEPT ![Key(r)] = cookies[pageOf(r)]]
             \/ UNCHANGED stored
          /\ GoTo(r, "search")
       \/ pageOf(r) = NoRun  /\ GoTo(r, "search")  /\ UNCHANGED jars
       \/ ~PageUsable(r)  /\ Fails(r)  /\ UNCHANGED stored
          /\ IF submits[r] THEN ForgetLocal(r) ELSE UNCHANGED local
    /\ UNCHANGED <<run, fp, wheel, cookies>>

-----------------------------------------------------------------------------
(* The rest of the graph.                                                  *)

\* search_jobs: the query and its filters.
Search(r) ==
    /\ node[r] = "search"  /\ ~submits[r]
    /\ (PageUsable(r)  /\ GoTo(r, "work")) \/ Fails(r)
    /\ UNCHANGED <<run, fp, wheel, cookies, jars>>

\* Before submitting, a search only warms the session up, and its failure does not
\* stop the run; Welcome to the Jungle's click on the way there can.
WarmUp(r) ==
    /\ node[r] = "search"  /\ submits[r]
    /\ GoTo(r, "work") \/ (board = "wttj"  /\ Fails(r))
    /\ UNCHANGED <<run, fp, wheel, cookies, jars>>

\* get_matched_jobs (module Scrape) or submit_applications (module Submit).
Work(r) ==
    /\ node[r] = "work"  /\ GoTo(r, "cleanup")
    /\ UNCHANGED <<run, fp, wheel, cookies, jars>>

\* route_node_exit: between two nodes, a killed run goes to cleanup.
Stopped(r) ==
    /\ \/ node[r] = "work"
       \/ ~submits[r]  /\ node[r] \in {"home", "login", "form", "search"}
    /\ Fails(r)
    /\ UNCHANGED <<run, fp, wheel, cookies, jars>>

-----------------------------------------------------------------------------
(* Cleanup, and a process that dies.                                       *)

\* force_cleanup closes whatever browser and page the worker holds, each part in a
\* try of its own.
ClosesAll(r) ==
    /\ up' = up \ {browser[host[r]]}
    /\ open' = open \ {page[host[r]], browser[host[r]]}
\* HelloWork has one try for all: a page that does not close keeps the rest open.
HwClose(r) ==
    /\ ClosesAll(r) \/ (pageOf(r) # NoRun  /\ UNCHANGED <<up, open>>)
    /\ UNCHANGED <<browser, page>>
WttjClose(r) == ClosesAll(r)  /\ UNCHANGED <<browser, page>>
\* Only APEC's worker forgets what it closed.
ApecClose(r) ==
    /\ ClosesAll(r)
    /\ browser' = [browser EXCEPT ![host[r]] = NoRun]
    /\ page' = [page EXCEPT ![host[r]] = NoRun]

Cleanup(r) ==
    /\ node[r] = "cleanup"  /\ GoTo(r, "ended")
    /\ \/ board = "apec"       /\ ApecClose(r)
       \/ board = "hellowork"  /\ HwClose(r)
       \/ board = "wttj"       /\ WttjClose(r)
    /\ IF store THEN ForgetLocal(r) ELSE UNCHANGED local
    /\ UNCHANGED <<run, fp, cookies, stored>>

\* The process dies with its browsers; its disk stays.
Crash(h) ==
    /\ \E r \in Runs : host[r] = h  /\ Active(r)
    /\ node' = [r \in Runs |-> IF host[r] = h /\ Active(r) THEN "lost" ELSE node[r]]
    /\ up' = {r \in up : host[r] # h}  /\ open' = {r \in open : host[r] # h}
    /\ fp' = [fp EXCEPT ![h] = NoPersona]
    /\ browser' = [browser EXCEPT ![h] = NoRun]  /\ page' = [page EXCEPT ![h] = NoRun]
    /\ UNCHANGED <<run, cookies, jars>>

Login(r) ==
    \/ Gate(r) \/ Save(r)
    \/ ApecRequestLogin(r) \/ ApecAutoLogin(r) \/ ApecManualSignIn(r)
    \/ HwRequestLogin(r) \/ HwAutoLogin(r) \/ HwManualSignIn(r)
    \/ WttjRequestLogin(r) \/ WttjAutoLogin(r) \/ WttjManualSignIn(r)

Step(r) ==
    \/ StartSession(r) \/ StartSessionWithAuth(r) \/ GoToJobBoard(r) \/ Login(r)
    \/ Search(r) \/ WarmUp(r) \/ Work(r) \/ Cleanup(r)

Next ==
    \/ \E r \in Runs : Begin(r) \/ Step(r) \/ Stopped(r)
    \/ \E h \in Processes : Crash(h)

Spec == Init /\ [][Next]_vars

-----------------------------------------------------------------------------
(* Properties.                                                             *)

Nodes == {"idle", "launch", "load", "context", "home", "gate", "login", "form", "typing",
          "confirm", "save", "search", "work", "cleanup", "ended", "lost"}

TypeOK ==
    /\ board \in Boards  /\ store \in BOOLEAN
    /\ who \in [Runs -> Users]  /\ wears \in [Runs -> Devices]
    /\ submits \in [Runs -> BOOLEAN]  /\ auto \in [Runs -> BOOLEAN]
    /\ host \in [Runs -> Processes]  /\ node \in [Runs -> Nodes]
    /\ fp \in [Processes -> Devices]
    /\ browser \in [Processes -> Runs \union {NoRun}]
    /\ page \in [Processes -> Runs \union {NoRun}]
    /\ up \subseteq Runs  /\ open \subseteq up
    /\ cookies \in [Runs -> Jars]
    /\ local \in [Processes -> [Keys -> Jars \union {NoJar}]]
    /\ stored \in [Keys -> Jars \union {NoJar}]

\* "Cookie jars are keyed on it, so a jar can never be replayed under a different
\* device": no browser context carries a sign-in made by another persona.
JarNeverReplayed ==
    \A r \in Runs : cookies[r].user # Guest => cookies[r].device = wears[r]

\* A run fills in applications in its own browser only, signed in as its own user:
\* whatever jar it found, expired, stale or none.
SubmitsAsItsUser ==
    \A r \in Runs : node[r] = "work" /\ submits[r] =>
        pageOf(r) = r  /\ r \in open  /\ cookies[r].user = who[r]

\* When a run's graph has ended, its browser has been closed (HelloWork's cleanup,
\* which a page that does not close cuts short, is left out).
BrowsersClose == board # "hellowork" => \A r \in Runs : node[r] = "ended" => r \notin up

\* With a store, no sign-in stays on the disk of a process whose runs all ended,
\* unless the process died during one.
NoJarLeftBehind ==
    store => \A h \in Processes :
        (\A r \in Runs : host[r] = h => node[r] \in {"idle", "ended"})
            => \A k \in Keys : local[h][k] = NoJar
================================================================================
