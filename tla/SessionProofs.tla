----------------------------- MODULE SessionProofs -----------------------------
(***************************************************************************)
(* Proofs about Session, for any boards, runs, users, personas and         *)
(* processes, where a process has one run under way at a time (~Overlap):  *)
(* a Cloud Run job; and about SearchForm, with which it shares no state.   *)
(***************************************************************************)
EXTENDS Session, SearchForm, TLAPS

(***************************************************************************)
(* The inductive invariant.                                                *)
(***************************************************************************)

\* The sign-in of a run, and the place and the content of a user's jar.
Own(r)    == [user |-> who[r], device |-> wears[r]]
OwnKey(r) == <<who[r], wears[r]>>
JarOf(k)  == [user |-> k[1], device |-> k[2]]

\* The nodes that a run reaches with a page it has opened.
OnPage == {"home", "gate", "login", "form", "typing", "confirm", "save", "search", "work"}

OneAtATime ==
    \A r, s \in Runs : host[r] = host[s] /\ Active(r) /\ Active(s) => r = s

\* What the worker of a process keeps from run to run is that of the active run.
Wearing   == \A r \in Runs : Active(r) => fp[host[r]] = wears[r]
OnItsPage ==
    /\ \A h \in Processes : \A r \in {page[h], browser[h]} \ {NoRun} : host[r] = h
    /\ \A r \in Runs : node[r] \in OnPage => page[host[r]] = r /\ r \in open

\* A context is signed in as its own run or not at all; a jar is that of its key,
\* or one saved by somebody not signed in, or none.
CookiesAreOwn == \A r \in Runs : cookies[r] \in {SignedOut, Own(r)}
JarsFitKeys ==
    /\ \A h \in Processes, k \in Keys : local[h][k] \in {NoJar, SignedOut, JarOf(k)}
    /\ \A k \in Keys : stored[k] \in {NoJar, SignedOut, JarOf(k)}

\* From the proof of a sign-in to the end of its work, a submitting run is signed in.
StaysSignedIn ==
    \A r \in Runs :
        submits[r] /\ (node[r] \in {"save", "search", "work"}
                          \/ (board = "hellowork" /\ node[r] = "confirm"))
            => cookies[r].user = who[r]

\* Nobody signs in by hand for a submission.
ByHand == \A r \in Runs : node[r] = "login" => ~submits[r]

\* With a store, the jars on a disk are those of the run under way.
JarsOfTheActive ==
    store => \A h \in Processes, k \in Keys :
        local[h][k] # NoJar =>
            \E r \in Runs : /\ host[r] = h
                            /\ node[r] = "lost" \/ (Active(r) /\ k = OwnKey(r))

SessionInv ==
    /\ TypeOK
    /\ OneAtATime /\ Wearing /\ OnItsPage
    /\ CookiesAreOwn /\ JarsFitKeys
    /\ StaysSignedIn /\ ByHand /\ JarsOfTheActive

-----------------------------------------------------------------------------
(* The initial states.                                                     *)

LEMMA OwnTypes ==
    ASSUME TypeOK, NEW r \in Runs
    PROVE  /\ host[r] \in Processes  /\ who[r] \in Users  /\ wears[r] \in Devices
           /\ Own(r) \in SignIns  /\ Own(r) \in Jars  /\ SignedOut \in Jars
           /\ OwnKey(r) \in Keys  /\ JarOf(OwnKey(r)) = Own(r)  /\ Own(r).user = who[r]
BY DEF TypeOK, Own, OwnKey, JarOf, SignIns, Jars, Keys

LEMMA InitSessionInv == Init => SessionInv
<1> SUFFICES ASSUME Init PROVE SessionInv
  OBVIOUS
<1>1. TypeOK
  <2>1. SignedOut \in Jars /\ NoPersona \in Devices
    BY DEF Jars, Devices
  <2>2. node \in [Runs -> Nodes]
    BY DEF Init, Nodes
  <2> QED
    BY <2>1, <2>2 DEF Init, TypeOK
<1>2. OneAtATime /\ Wearing /\ OnItsPage
  BY DEF Init, OneAtATime, Wearing, OnItsPage, Active, OnPage
<1>3. CookiesAreOwn /\ JarsFitKeys
  BY DEF Init, CookiesAreOwn, JarsFitKeys
<1>4. StaysSignedIn /\ ByHand /\ JarsOfTheActive
  BY DEF Init, StaysSignedIn, ByHand, JarsOfTheActive
<1> QED
  BY <1>1, <1>2, <1>3, <1>4 DEF SessionInv

-----------------------------------------------------------------------------
(* What one step of a run does: to the graph, to the page, to the sign-in  *)
(* and to the jars.                                                        *)

\* Whatever it does, a run that is under way goes to another node of its graph,
\* and touches neither what it is nor the persona of its process.
LEMMA StepMoves ==
    ASSUME NEW r \in Runs, Step(r) \/ Stopped(r)
    PROVE  /\ UNCHANGED run  /\ UNCHANGED fp
           /\ node[r] \in Nodes \ {"idle", "ended", "lost"}
           /\ \E n \in Nodes \ {"idle", "lost"} : GoTo(r, n)
<1> USE DEF GoTo, Fails, Nodes
<1>1. CASE StartSession(r) \/ StartSessionWithAuth(r) \/ GoToJobBoard(r)
  BY <1>1 DEF StartSession, StartSessionWithAuth, GoToJobBoard, Launches, OpensContext, LoadJar,
              Arrive
<1>2. CASE Gate(r) \/ Save(r)
  BY <1>2 DEF Gate, Renews, Save
<1>3. ASSUME NEW awaited, NEW proof, LoginStages(r, awaited, proof)
      PROVE  /\ UNCHANGED run  /\ UNCHANGED fp
             /\ node[r] \in Nodes \ {"idle", "ended", "lost"}
             /\ \E n \in Nodes \ {"idle", "lost"} : GoTo(r, n)
  BY <1>3 DEF LoginStages, LoginFails
<1>4. ASSUME NEW looks, ManualSignIn(r, looks)
      PROVE  /\ UNCHANGED run  /\ UNCHANGED fp
             /\ node[r] \in Nodes \ {"idle", "ended", "lost"}
             /\ \E n \in Nodes \ {"idle", "lost"} : GoTo(r, n)
  BY <1>4 DEF ManualSignIn
<1>5. CASE Login(r)
  BY <1>2, <1>3, <1>4, <1>5
     DEF Login, ApecRequestLogin, ApecAutoLogin, ApecManualSignIn, HwRequestLogin, HwAutoLogin,
         HwManualSignIn, WttjRequestLogin, WttjAutoLogin, WttjManualSignIn
<1>6. CASE Search(r) \/ WarmUp(r) \/ Work(r) \/ Cleanup(r)
  BY <1>6 DEF Search, WarmUp, Work, Cleanup
<1>7. CASE Stopped(r)
  BY <1>7 DEF Stopped
<1> QED
  BY <1>1, <1>5, <1>6, <1>7 DEF Step

\* The page changes when the context opens and at the cleanup only; a node on the
\* page is reached from one, or from the opening.
LEMMA StepPage ==
    ASSUME TypeOK, NEW r \in Runs, Step(r) \/ Stopped(r)
    PROVE  /\ up' \in SUBSET Runs /\ open' \subseteq up'
           /\ browser' \in [Processes -> Runs \union {NoRun}]
           /\ browser' \in {browser, [browser EXCEPT ![host[r]] = r],
                           [browser EXCEPT ![host[r]] = NoRun]}
           /\ page' \in [Processes -> Runs \union {NoRun}]
           /\ \/ UNCHANGED <<page, open>>  /\ (node'[r] \in OnPage => node[r] \in OnPage)
              \/ page' = [page EXCEPT ![host[r]] = r]  /\ open' = open \union {r}
              \/ /\ node'[r] \notin OnPage
                 /\ page' \in {page, [page EXCEPT ![host[r]] = NoRun]}
                 /\ open' \in {open, open \ {page[host[r]], browser[host[r]]}}
<1> USE DEF GoTo, Fails, OnPage
<1>0. node \in [Runs -> Nodes] /\ host[r] \in Processes
  BY DEF TypeOK
<1>1. CASE Launches(r, "context") \/ Launches(r, "load")
  <2>1. node'[r] \notin OnPage /\ UNCHANGED <<page, open>>
    BY <1>0, <1>1 DEF Launches
  <2>2. /\ up' \in {up, up \union {r}}
        /\ browser' \in {browser, [browser EXCEPT ![host[r]] = r]}
    BY <1>1 DEF Launches
  <2> QED
    BY SMTT(40), <2>1, <2>2 DEF TypeOK
<1>2. CASE OpensContext(r)
  BY ZenonT(60), <1>0, <1>2 DEF TypeOK, OpensContext
<1>3. CASE UNCHANGED wheel /\ (node'[r] \in OnPage => node[r] \in OnPage)
  BY <1>3 DEF TypeOK, wheel
<1>4. CASE LoadJar(r) \/ Arrive(r, "gate") \/ GoToJobBoard(r)
  BY <1>0, <1>3, <1>4 DEF LoadJar, Arrive, GoToJobBoard
<1>5. ASSUME NEW awaited, NEW proof, LoginStages(r, awaited, proof)
      PROVE  UNCHANGED wheel /\ node[r] \in OnPage
  BY <1>5 DEF LoginStages
<1>6. CASE Login(r)
  <2>1. UNCHANGED wheel /\ node[r] \in OnPage
    BY <1>5, <1>6
       DEF Login, Gate, Save, ManualSignIn, ApecRequestLogin, ApecAutoLogin, ApecManualSignIn,
           HwRequestLogin, HwAutoLogin, HwManualSignIn, WttjRequestLogin, WttjAutoLogin,
           WttjManualSignIn
  <2> QED
    BY <1>3, <2>1
<1>7. CASE Search(r) \/ WarmUp(r) \/ Work(r) \/ Stopped(r)
  BY <1>0, <1>3, <1>7 DEF Search, WarmUp, Work, Stopped
<1>8. CASE Cleanup(r)
  <2>1. node'[r] \notin OnPage
    BY <1>0, <1>8 DEF Cleanup
  <2>2. CASE ApecClose(r) \/ WttjClose(r)
    BY <1>0, <2>1, <2>2 DEF ApecClose, WttjClose, ClosesAll, TypeOK
  <2>3. CASE HwClose(r)
    BY <1>0, <2>1, <2>3 DEF HwClose, ClosesAll, TypeOK
  <2> QED
    BY <1>8, <2>2, <2>3 DEF Cleanup
<1> QED
  BY <1>1, <1>2, <1>4, <1>6, <1>7, <1>8 DEF Step, StartSession, StartSessionWithAuth

\* A run under way finds what its own process keeps for it.
LEMMA ActiveFinds ==
    ASSUME SessionInv, NEW r \in Runs, node[r] \in Nodes \ {"idle", "ended", "lost"}
    PROVE  /\ Active(r)  /\ fp[host[r]] = wears[r]  /\ Key(r) = OwnKey(r)
           /\ host[r] \in Processes  /\ OwnKey(r) \in Keys
           /\ node[r] \in OnPage => pageOf(r) = r
<1>1. Active(r) /\ fp[host[r]] = wears[r]
  BY DEF SessionInv, Wearing, Active
<1>2. host[r] \in Processes /\ OwnKey(r) \in Keys
  BY OwnTypes DEF SessionInv
<1> QED
  BY <1>1, <1>2 DEF SessionInv, OnItsPage, Key, OwnKey, pageOf

\* A context changes hands by its own run only, and only to that run's sign-in or
\* to none.
LEMMA StepSignIn ==
    ASSUME SessionInv, NEW r \in Runs, Step(r) \/ Stopped(r)
    PROVE  cookies' \in {cookies, [cookies EXCEPT ![r] = SignedOut], [cookies EXCEPT ![r] = Own(r)]}
<1>0. node[r] \in Nodes \ {"idle", "ended", "lost"}
  BY StepMoves
<1>1. CASE LoadJar(r)
  <2>1. Key(r) = OwnKey(r) /\ host[r] \in Processes /\ OwnKey(r) \in Keys
    BY <1>0, ActiveFinds
  <2>2. JarOf(OwnKey(r)) = Own(r)
    BY OwnTypes DEF SessionInv
  <2>3. /\ local[host[r]][Key(r)] \in {NoJar, SignedOut, Own(r)}
        /\ stored[Key(r)] \in {NoJar, SignedOut, Own(r)}
    BY <2>1, <2>2 DEF SessionInv, JarsFitKeys
  <2>4. local \in [Processes -> [Keys -> Jars \union {NoJar}]]
    BY DEF SessionInv, TypeOK
  <2>5. local'[host[r]][Key(r)] \in {NoJar, SignedOut, Own(r)}
    BY <1>1, <2>1, <2>3, <2>4 DEF LoadJar
  <2> QED
    BY <1>1, <2>5 DEF LoadJar
<1>2. CASE node[r] \in OnPage /\ (Expires(r) \/ cookies' \in Tried(r))
  <2>1. pageOf(r) = r
    BY <1>0, <1>2, ActiveFinds
  <2> QED
    BY <1>2, <2>1 DEF Expires, Tried, SignedIn, Own
<1>3. CASE UNCHANGED cookies
  BY <1>3
<1>4. ASSUME NEW awaited, NEW proof, LoginStages(r, awaited, proof)
      PROVE  UNCHANGED cookies \/ (node[r] \in OnPage /\ cookies' \in Tried(r))
  BY <1>4 DEF LoginStages, OnPage
<1>5. CASE Login(r)
  BY <1>2, <1>3, <1>4, <1>5
     DEF Login, Gate, Renews, Save, ManualSignIn, ApecRequestLogin, ApecAutoLogin,
         ApecManualSignIn, HwRequestLogin, HwAutoLogin, HwManualSignIn, WttjRequestLogin,
         WttjAutoLogin, WttjManualSignIn, OnPage
<1>6. CASE \/ StartSession(r) \/ GoToJobBoard(r)
           \/ Launches(r, "load") \/ OpensContext(r) \/ Arrive(r, "gate")
           \/ Search(r) \/ WarmUp(r) \/ Work(r) \/ Cleanup(r) \/ Stopped(r)
  BY <1>3, <1>6 DEF StartSession, GoToJobBoard, Launches, OpensContext, Arrive, Search, WarmUp,
                    Work, Cleanup, Stopped
<1> QED
  BY <1>1, <1>5, <1>6 DEF Step, StartSessionWithAuth

\* A run writes and drops its own jar only; its cleanup, where there is a store,
\* drops it from the disk.
LEMMA StepJars ==
    ASSUME SessionInv, NEW r \in Runs, Step(r) \/ Stopped(r)
    PROVE  /\ \/ local' = local
              \/ \E x \in {NoJar, SignedOut, Own(r)} :
                     local' = [local EXCEPT ![host[r]][OwnKey(r)] = x]
           /\ \/ stored' = stored
              \/ \E x \in {NoJar, SignedOut, Own(r)} : stored' = [stored EXCEPT ![OwnKey(r)] = x]
           /\ store /\ node'[r] = "ended" => local' = [local EXCEPT ![host[r]][OwnKey(r)] = NoJar]
<1> DEFINE Kept ==
             /\ \/ local' = local
                \/ \E x \in {NoJar, SignedOut, Own(r)} :
                       local' = [local EXCEPT ![host[r]][OwnKey(r)] = x]
             /\ \/ stored' = stored
                \/ \E x \in {NoJar, SignedOut, Own(r)} :
                       stored' = [stored EXCEPT ![OwnKey(r)] = x]
<1>0. node[r] \in Nodes \ {"idle", "ended", "lost"} /\ node \in [Runs -> Nodes]
  BY StepMoves DEF SessionInv, TypeOK
<1>1. Key(r) = OwnKey(r) /\ host[r] \in Processes /\ OwnKey(r) \in Keys
  BY <1>0, ActiveFinds
<1>2. ForgetLocal(r) => \E x \in {NoJar, SignedOut, Own(r)} :
                           local' = [local EXCEPT ![host[r]][OwnKey(r)] = x]
  BY <1>1 DEF ForgetLocal
<1>3. CASE LoadJar(r)
  <2>1. JarOf(OwnKey(r)) = Own(r)
    BY OwnTypes DEF SessionInv
  <2>2. stored[Key(r)] \in {NoJar, SignedOut, Own(r)}
    BY <1>1, <2>1 DEF SessionInv, JarsFitKeys
  <2>3. Kept
    BY <1>1, <1>3, <2>2 DEF LoadJar
  <2> QED
    BY <1>0, <1>3, <2>3 DEF LoadJar, GoTo
<1>4. CASE Save(r)
  <2>1. pageOf(r) = r
    BY <1>0, <1>4, ActiveFinds DEF Save, OnPage
  <2>2. cookies[pageOf(r)] \in {NoJar, SignedOut, Own(r)}
    BY <2>1 DEF SessionInv, CookiesAreOwn
  <2>3. Kept
    BY <1>1, <1>2, <1>4, <2>2 DEF Save, jars
  <2> QED
    BY <1>0, <1>4, <2>3 DEF Save, GoTo, Fails
<1>5. ASSUME NEW awaited, NEW proof, LoginStages(r, awaited, proof)
      PROVE  Kept /\ node'[r] # "ended"
  BY <1>0, <1>2, <1>5 DEF LoginStages, LoginFails, GoTo, Fails
<1>6. CASE Gate(r)
  BY <1>0, <1>2, <1>6 DEF Gate, Renews, GoTo, Fails
<1>7. ASSUME NEW looks, ManualSignIn(r, looks)
      PROVE  Kept /\ node'[r] # "ended"
  BY <1>0, <1>7 DEF ManualSignIn, jars, GoTo, Fails
<1>8. CASE Login(r)
  BY <1>4, <1>5, <1>6, <1>7, <1>8
     DEF Login, ApecRequestLogin, ApecAutoLogin, ApecManualSignIn, HwRequestLogin, HwAutoLogin,
         HwManualSignIn, WttjRequestLogin, WttjAutoLogin, WttjManualSignIn
<1>9. CASE Cleanup(r)
  BY <1>0, <1>1, <1>2, <1>9 DEF Cleanup, ForgetLocal
<1>10. CASE \/ StartSession(r) \/ GoToJobBoard(r)
            \/ Launches(r, "load") \/ OpensContext(r) \/ Arrive(r, "gate")
            \/ Search(r) \/ WarmUp(r) \/ Work(r) \/ Stopped(r)
  BY <1>0, <1>10 DEF StartSession, GoToJobBoard, Launches, OpensContext, Arrive, Search, WarmUp,
                     Work, Stopped, jars, GoTo, Fails
<1> QED
  BY <1>3, <1>8, <1>9, <1>10 DEF Step, StartSessionWithAuth

\* A submitting run comes to its work from a jar that somebody signed in left, and
\* that is the run's own user, or from a sign-in of its own that was proven.
LEMMA StepSigned ==
    ASSUME SessionInv, NEW r \in Runs, Step(r) \/ Stopped(r), submits[r],
           node'[r] \in {"save", "search", "work"} \/ (board = "hellowork" /\ node'[r] = "confirm")
    PROVE  cookies'[r].user = who[r]
<1> USE DEF GoTo, Fails
<1>0. node[r] \in Nodes \ {"idle", "ended", "lost"} /\ node \in [Runs -> Nodes]
  BY StepMoves DEF SessionInv, TypeOK
<1>1. cookies \in [Runs -> Jars] /\ cookies[r] \in {SignedOut, Own(r)} /\ Own(r).user = who[r]
  BY OwnTypes DEF SessionInv, TypeOK, CookiesAreOwn
<1>2. node[r] \in OnPage => pageOf(r) = r
  BY <1>0, ActiveFinds
<1>3. Valid(r) /\ node[r] \in OnPage => cookies[r].user = who[r]
  BY <1>1, <1>2 DEF Valid, SignedOut
<1>4. node[r] \in OnPage => SignedIn(r)[r].user = who[r]
  BY <1>1, <1>2 DEF SignedIn
<1>5. CASE Gate(r)
  BY <1>0, <1>3, <1>5 DEF Gate, Renews, OnPage
<1>6. CASE ApecAutoLogin(r) \/ WttjAutoLogin(r)
  BY <1>0, <1>3, <1>6 DEF ApecAutoLogin, WttjAutoLogin, LoginStages, LoginFails, OnPage
<1>7. CASE HwAutoLogin(r)
  <2>1. CASE node[r] = "confirm" /\ UNCHANGED cookies
    BY <1>7, <2>1 DEF SessionInv, StaysSignedIn, HwAutoLogin
  <2>3. CASE node'[r] \in {"typing", "cleanup"}
    BY <2>3
  <2>2. CASE node[r] = "typing" /\ cookies' = SignedIn(r)
    BY <1>4, <2>2 DEF OnPage
  <2> QED
    <3>1. LoginStages(r, TRUE, TRUE)
      BY <1>7 DEF HwAutoLogin
    <3> QED
      BY <1>0, <2>1, <2>2, <2>3, <3>1 DEF LoginStages, LoginFails
<1>8. CASE \/ Save(r) /\ UNCHANGED cookies
           \/ WarmUp(r) /\ UNCHANGED cookies
  BY <1>0, <1>8 DEF SessionInv, StaysSignedIn, Save, WarmUp
<1>9. ~ApecManualSignIn(r) /\ ~HwManualSignIn(r) /\ ~WttjManualSignIn(r)
  BY DEF SessionInv, ByHand, ApecManualSignIn, HwManualSignIn, WttjManualSignIn, ManualSignIn
<1>10. ~ApecRequestLogin(r) /\ ~HwRequestLogin(r) /\ ~WttjRequestLogin(r)
  BY DEF ApecRequestLogin, HwRequestLogin, WttjRequestLogin
<1>11. CASE Login(r)
  BY <1>5, <1>6, <1>7, <1>8, <1>9, <1>10, <1>11 DEF Login, Save
<1>12. CASE Search(r) \/ WarmUp(r)
  BY <1>8, <1>12 DEF Search, WarmUp
<1>13. CASE Work(r) \/ Stopped(r) \/ Cleanup(r)
  BY <1>0, <1>13 DEF Work, Stopped, Cleanup
<1>14. CASE StartSession(r) \/ StartSessionWithAuth(r) \/ GoToJobBoard(r)
  BY <1>0, <1>14 DEF StartSession, StartSessionWithAuth, GoToJobBoard, Launches, LoadJar,
                     OpensContext, Arrive
<1> QED
  BY <1>11, <1>12, <1>13, <1>14 DEF Step

LEMMA StepByHand ==
    ASSUME SessionInv, NEW r \in Runs, Step(r) \/ Stopped(r), node'[r] = "login"
    PROVE  ~submits[r]
<1> USE DEF GoTo, Fails
<1>0. node \in [Runs -> Nodes]
  BY DEF SessionInv, TypeOK
<1>1. ~Gate(r) /\ ~Save(r)
  BY <1>0 DEF Gate, Renews, Save
<1>2. ASSUME NEW awaited, NEW proof PROVE ~LoginStages(r, awaited, proof)
  BY <1>0 DEF LoginStages, LoginFails
<1>3. ASSUME NEW looks PROVE ~ManualSignIn(r, looks)
  BY <1>0 DEF ManualSignIn
<1>4. ~Login(r)
  BY <1>1, <1>2, <1>3
     DEF Login, ApecRequestLogin, ApecAutoLogin, ApecManualSignIn, HwRequestLogin, HwAutoLogin,
         HwManualSignIn, WttjRequestLogin, WttjAutoLogin, WttjManualSignIn
<1>5. ~Search(r) /\ ~WarmUp(r) /\ ~Work(r) /\ ~Stopped(r) /\ ~Cleanup(r)
  BY <1>0 DEF Search, WarmUp, Work, Stopped, Cleanup
<1>6. ~StartSession(r) /\ ~StartSessionWithAuth(r)
  BY <1>0 DEF StartSession, StartSessionWithAuth, Launches, LoadJar, OpensContext, Arrive
<1> QED
  BY <1>4, <1>5, <1>6 DEF Step, GoToJobBoard

-----------------------------------------------------------------------------
(* The invariant is kept, by a step of a run that is under way, ...        *)

LEMMA OthersElsewhere ==
    ASSUME SessionInv, NEW r \in Runs, Step(r) \/ Stopped(r)
    PROVE  /\ \A s \in Runs : s # r => node'[s] = node[s]
           /\ \A s \in Runs : s # r /\ Active(s) => host[s] # host[r]
           /\ \A s \in Runs : Active(s)' => Active(s)
           /\ node' \in [Runs -> Nodes]
<1>1. node \in [Runs -> Nodes]
  BY DEF SessionInv, TypeOK
<1>2. PICK n \in Nodes \ {"idle", "lost"} : node' = [node EXCEPT ![r] = n]
  BY StepMoves DEF GoTo
<1>3. Active(r)
  BY StepMoves DEF Active
<1> QED
  BY <1>1, <1>2, <1>3 DEF SessionInv, OneAtATime, Active

\* A jar is written in one place, and the others stay.
LEMMA DiskIs ==
    ASSUME SessionInv, NEW r \in Runs, Step(r) \/ Stopped(r)
    PROVE  /\ local' \in [Processes -> [Keys -> Jars \union {NoJar}]]
           /\ \A h \in Processes, k \in Keys :
                 /\ h # host[r] \/ k # OwnKey(r) => local'[h][k] = local[h][k]
                 /\ local'[h][k] \in {local[h][k], NoJar, SignedOut, Own(r)}
           /\ store /\ node'[r] = "ended" => local'[host[r]][OwnKey(r)] = NoJar
<1>1. /\ local \in [Processes -> [Keys -> Jars \union {NoJar}]]
      /\ SignedOut \in Jars /\ Own(r) \in Jars
      /\ host[r] \in Processes /\ OwnKey(r) \in Keys
  BY OwnTypes DEF SessionInv, TypeOK
<1>2. ASSUME NEW x \in {NoJar, SignedOut, Own(r)},
             local' = [local EXCEPT ![host[r]][OwnKey(r)] = x]
      PROVE  /\ local' \in [Processes -> [Keys -> Jars \union {NoJar}]]
             /\ \A h \in Processes, k \in Keys :
                   local'[h][k] = IF h = host[r] /\ k = OwnKey(r) THEN x ELSE local[h][k]
  <2> DEFINE disk == [local[host[r]] EXCEPT ![OwnKey(r)] = x]
  <2>1. disk \in [Keys -> Jars \union {NoJar}]
    BY <1>1
  <2>2. local' = [local EXCEPT ![host[r]] = disk]
    BY <1>2
  <2>3. \A k \in Keys : disk[k] = IF k = OwnKey(r) THEN x ELSE local[host[r]][k]
    BY <1>1
  <2> QED
    BY <1>1, <2>1, <2>2, <2>3
<1>3. CASE local' = local /\ ~(store /\ node'[r] = "ended")
  BY <1>1, <1>3
<1>4. CASE \E x \in {NoJar, SignedOut, Own(r)} : /\ local' = [local EXCEPT ![host[r]][OwnKey(r)] = x]
                                             /\ ~(store /\ node'[r] = "ended")
  BY <1>1, <1>2, <1>4
<1>5. CASE local' = [local EXCEPT ![host[r]][OwnKey(r)] = NoJar]
  BY <1>1, <1>2, <1>5
<1> QED
  BY <1>3, <1>4, <1>5, StepJars

LEMMA RunStepTypes ==
    ASSUME SessionInv, NEW r \in Runs, Step(r) \/ Stopped(r) PROVE TypeOK'
<1>1. UNCHANGED run /\ UNCHANGED fp
  BY StepMoves
<1>2. node' \in [Runs -> Nodes]
  BY OthersElsewhere
<1>3. /\ up' \in SUBSET Runs /\ open' \subseteq up'
      /\ browser' \in [Processes -> Runs \union {NoRun}]
      /\ page' \in [Processes -> Runs \union {NoRun}]
  BY StepPage DEF SessionInv
<1>4. SignedOut \in Jars /\ Own(r) \in Jars
  BY OwnTypes DEF SessionInv
<1>5. cookies' \in [Runs -> Jars]
  BY <1>4, StepSignIn DEF SessionInv, TypeOK
<1>6. local' \in [Processes -> [Keys -> Jars \union {NoJar}]]
  BY DiskIs
<1>7. stored' \in [Keys -> Jars \union {NoJar}]
  BY <1>4, StepJars DEF SessionInv, TypeOK
<1> QED
  BY <1>1, <1>2, <1>3, <1>5, <1>6, <1>7 DEF SessionInv, TypeOK, run

LEMMA RunStepPages ==
    ASSUME SessionInv, NEW r \in Runs, Step(r) \/ Stopped(r)
    PROVE  (OneAtATime /\ Wearing /\ OnItsPage)'
<1>0. UNCHANGED run /\ UNCHANGED fp
  BY StepMoves
<1>1. (OneAtATime /\ Wearing)'
  BY <1>0, OthersElsewhere DEF SessionInv, OneAtATime, Wearing, run
<1>2. /\ host \in [Runs -> Processes] /\ host' = host
      /\ page \in [Processes -> Runs \union {NoRun}]
      /\ browser \in [Processes -> Runs \union {NoRun}]
  BY <1>0 DEF SessionInv, TypeOK, run
<1>3. r # NoRun
  BY SessionAssumption
<1>4. /\ page' \in {page, [page EXCEPT ![host[r]] = r], [page EXCEPT ![host[r]] = NoRun]}
      /\ browser' \in {browser, [browser EXCEPT ![host[r]] = r],
                       [browser EXCEPT ![host[r]] = NoRun]}
  BY StepPage DEF SessionInv
<1>5. ASSUME NEW h \in Processes, NEW s \in {page'[h], browser'[h]} \ {NoRun} PROVE host'[s] = h
  <2>1. s \in {page[h], browser[h]} \/ (s = r /\ h = host[r])
    BY <1>2, <1>4, <1>5
  <2> QED
    BY <1>2, <1>5, <2>1 DEF SessionInv, OnItsPage
<1>6. ASSUME NEW s \in Runs, node'[s] \in OnPage PROVE page'[host'[s]] = s /\ s \in open'
  <2>1. CASE s = r
    BY <1>2, <1>6, <2>1, StepPage DEF SessionInv, OnItsPage
  <2>2. CASE s # r
    <3>1. node[s] \in OnPage /\ Active(s) /\ host[s] # host[r]
      BY <1>6, <2>2, OthersElsewhere DEF OnPage, Active
    <3>2. page[host[s]] = s /\ s \in open
      BY <3>1 DEF SessionInv, OnItsPage
    <3>3. page'[host[s]] = s
      BY <1>2, <1>4, <3>1, <3>2
    <3>4. s \notin {page[host[r]], browser[host[r]]}
      <4>1. s # NoRun
        BY SessionAssumption
      <4> QED
        BY <1>2, <3>1, <4>1 DEF SessionInv, OnItsPage
    <3>5. s \in open'
      BY <3>2, <3>4, StepPage DEF SessionInv
    <3> QED
      BY <1>2, <3>3, <3>5
  <2> QED
    BY <2>1, <2>2
<1> QED
  BY <1>1, <1>5, <1>6 DEF OnItsPage

LEMMA RunStepSignIns ==
    ASSUME SessionInv, NEW r \in Runs, Step(r) \/ Stopped(r)
    PROVE  (CookiesAreOwn /\ JarsFitKeys /\ StaysSignedIn /\ ByHand)'
<1>0. UNCHANGED run
  BY StepMoves
<1>1. cookies \in [Runs -> Jars]
  BY DEF SessionInv, TypeOK
<1>2. \A s \in Runs : s # r => cookies'[s] = cookies[s]
  BY <1>1, StepSignIn
<1>3. CookiesAreOwn'
  BY <1>0, <1>1, StepSignIn DEF SessionInv, CookiesAreOwn, Own, run
<1>4. JarsFitKeys'
  <2>1. JarOf(OwnKey(r)) = Own(r)
    BY OwnTypes DEF SessionInv
  <2>2. /\ local \in [Processes -> [Keys -> Jars \union {NoJar}]]
        /\ stored \in [Keys -> Jars \union {NoJar}]
    BY DEF SessionInv, TypeOK
  <2>3. \A h \in Processes, k \in Keys : local'[h][k] \in {NoJar, SignedOut, JarOf(k)}
    <3>1. \A h \in Processes, k \in Keys :
              local[h][k] \in {NoJar, SignedOut, JarOf(k)}
      BY DEF SessionInv, JarsFitKeys
    <3> QED
      BY <2>1, <3>1, DiskIs
  <2>4. \A k \in Keys : stored'[k] \in {NoJar, SignedOut, JarOf(k)}
    BY <2>1, <2>2, StepJars DEF SessionInv, JarsFitKeys
  <2> QED
    BY <2>3, <2>4 DEF JarsFitKeys
<1>5. StaysSignedIn'
  BY <1>0, <1>2, OthersElsewhere, StepSigned DEF SessionInv, StaysSignedIn, run
<1>6. ByHand'
  <2>1. node'[r] = "login" => ~submits[r]
    BY StepByHand DEF SessionInv
  <2> QED
    BY <1>0, <2>1, OthersElsewhere DEF SessionInv, ByHand, run
<1> QED
  BY <1>3, <1>4, <1>5, <1>6

LEMMA RunStepJars ==
    ASSUME SessionInv, NEW r \in Runs, Step(r) \/ Stopped(r)
    PROVE  JarsOfTheActive'
<1> SUFFICES ASSUME store', NEW h \in Processes, NEW k \in Keys, local'[h][k] # NoJar
             PROVE  \E s \in Runs : /\ host'[s] = h
                                    /\ node'[s] = "lost" \/ (Active(s)' /\ k = OwnKey(s)')
  BY DEF JarsOfTheActive
<1>0. UNCHANGED <<store, host, who, wears>>
  BY StepMoves DEF run
<1>1. local \in [Processes -> [Keys -> Jars \union {NoJar}]] /\ node \in [Runs -> Nodes]
  BY DEF SessionInv, TypeOK
<1>2. node[r] \notin {"idle", "ended", "lost"} /\ node'[r] \notin {"idle", "lost"}
  BY <1>1, StepMoves DEF GoTo
<1>3. CASE h = host[r] /\ k = OwnKey(r)
  <2>1. host[r] \in Processes /\ OwnKey(r) \in Keys
    BY OwnTypes DEF SessionInv
  <2>2. node'[r] # "ended"
    BY <1>0, <1>3, <2>1, DiskIs
  <2> QED
    BY <1>0, <1>2, <1>3, <2>2 DEF Active, OwnKey
<1>4. CASE h # host[r] \/ k # OwnKey(r)
  <2>1. local[h][k] # NoJar
    BY <1>4, DiskIs
  <2>2. PICK s \in Runs : /\ host[s] = h
                          /\ node[s] = "lost" \/ (Active(s) /\ k = OwnKey(s))
    BY <1>0, <2>1 DEF SessionInv, JarsOfTheActive
  <2>3. s # r
    BY <1>2, <1>4, <2>2
  <2>4. node'[s] = node[s]
    BY <2>3, OthersElsewhere
  <2> QED
    BY <1>0, <2>2, <2>4 DEF Active, OwnKey
<1> QED
  BY <1>3, <1>4

-----------------------------------------------------------------------------
(* ... by a run that begins, and by a process that dies.                   *)

LEMMA BeginKeeps ==
    ASSUME ~Overlap, SessionInv, NEW r \in Runs, Begin(r)
    PROVE  SessionInv'
<1>0. /\ UNCHANGED <<board, store, who, wears, submits, auto, host>>
      /\ UNCHANGED <<browser, page, up, open, cookies, local, stored>>
  BY DEF Begin, run, wheel, jars
<1>1. /\ node[r] = "idle" /\ node' = [node EXCEPT ![r] = "launch"]
      /\ fp' = [fp EXCEPT ![host[r]] = wears[r]]
      /\ \A s \in Runs : host[s] = host[r] => ~Active(s)
  BY DEF Begin, GoTo, RecordPersona
<1>2. /\ node \in [Runs -> Nodes] /\ fp \in [Processes -> Devices]
      /\ host[r] \in Processes /\ wears[r] \in Devices
  BY OwnTypes DEF SessionInv, TypeOK
<1>3. node' \in [Runs -> Nodes] /\ fp' \in [Processes -> Devices]
  BY <1>1, <1>2 DEF Nodes
<1>4. TypeOK'
  BY <1>0, <1>3 DEF SessionInv, TypeOK
<1>5. /\ \A s \in Runs : s # r => node'[s] = node[s]
      /\ node'[r] = "launch"
  BY <1>1, <1>2
<1>6. OneAtATime'
  BY <1>0, <1>1, <1>5 DEF SessionInv, OneAtATime, Active
<1>7. Wearing'
  BY <1>0, <1>1, <1>2, <1>5 DEF SessionInv, TypeOK, Wearing, Active
<1>8. OnItsPage'
  BY <1>0, <1>5 DEF SessionInv, OnItsPage, OnPage
<1>9. (CookiesAreOwn /\ JarsFitKeys)'
  BY <1>0 DEF SessionInv, CookiesAreOwn, JarsFitKeys, Own
<1>10. (StaysSignedIn /\ ByHand)'
  BY <1>0, <1>5 DEF SessionInv, StaysSignedIn, ByHand
<1>11. JarsOfTheActive'
  <2> SUFFICES ASSUME store, NEW h \in Processes, NEW k \in Keys, local[h][k] # NoJar
               PROVE  \E s \in Runs : /\ host[s] = h
                                      /\ node'[s] = "lost" \/ (Active(s)' /\ k = OwnKey(s)')
    BY <1>0 DEF JarsOfTheActive
  <2>1. PICK s \in Runs : /\ host[s] = h
                          /\ node[s] = "lost" \/ (Active(s) /\ k = OwnKey(s))
    BY DEF SessionInv, JarsOfTheActive
  <2>2. node'[s] = node[s]
    BY <1>1, <1>5, <2>1 DEF Active
  <2> QED
    BY <1>0, <2>1, <2>2 DEF Active, OwnKey
<1> QED
  BY <1>4, <1>6, <1>7, <1>8, <1>9, <1>10, <1>11 DEF SessionInv

LEMMA CrashKeeps ==
    ASSUME SessionInv, NEW h \in Processes, Crash(h)
    PROVE  SessionInv'
<1>0. UNCHANGED <<board, store, who, wears, submits, auto, host, cookies, local, stored>>
  BY DEF Crash, run, jars
<1>1. /\ node' = [r \in Runs |-> IF host[r] = h /\ Active(r) THEN "lost" ELSE node[r]]
      /\ up' = {r \in up : host[r] # h}  /\ open' = {r \in open : host[r] # h}
      /\ fp' = [fp EXCEPT ![h] = NoPersona]
      /\ browser' = [browser EXCEPT ![h] = NoRun]  /\ page' = [page EXCEPT ![h] = NoRun]
  BY DEF Crash
<1>2. \A r \in Runs : node'[r] = node[r] \/ (host[r] = h /\ node'[r] = "lost")
  BY <1>1
<1>3. \A r \in Runs : Active(r)' => Active(r) /\ host[r] # h /\ node'[r] = node[r]
  BY <1>1 DEF Active
<1>4. TypeOK'
  <2>1. node' \in [Runs -> Nodes]
    BY <1>1 DEF SessionInv, TypeOK, Nodes
  <2>2. NoPersona \in Devices
    BY DEF Devices
  <2>3. fp' \in [Processes -> Devices]
    BY <1>1, <2>2 DEF SessionInv, TypeOK
  <2>4. /\ browser' \in [Processes -> Runs \union {NoRun}]
        /\ page' \in [Processes -> Runs \union {NoRun}]
    BY <1>1 DEF SessionInv, TypeOK
  <2>5. up' \subseteq Runs /\ open' \subseteq up'
    BY <1>1 DEF SessionInv, TypeOK
  <2> QED
    BY <1>0, <2>1, <2>3, <2>4, <2>5 DEF SessionInv, TypeOK
<1>5. OneAtATime'
  BY <1>0, <1>3 DEF SessionInv, OneAtATime
<1>6. Wearing'
  <2>1. host \in [Runs -> Processes] /\ fp \in [Processes -> Devices]
    BY DEF SessionInv, TypeOK
  <2> QED
    BY <1>0, <1>1, <1>3, <2>1 DEF SessionInv, Wearing
<1>7. OnItsPage'
  <2>1. /\ host \in [Runs -> Processes]
        /\ page \in [Processes -> Runs \union {NoRun}]
        /\ browser \in [Processes -> Runs \union {NoRun}]
    BY DEF SessionInv, TypeOK
  <2>2. ASSUME NEW g \in Processes, NEW r \in {page'[g], browser'[g]} \ {NoRun}
        PROVE  host'[r] = g
    BY <1>0, <1>1, <2>1, <2>2 DEF SessionInv, OnItsPage
  <2>3. ASSUME NEW r \in Runs, node'[r] \in OnPage
        PROVE  page'[host'[r]] = r /\ r \in open'
    <3>1. node[r] \in OnPage /\ host[r] # h
      BY <1>3, <2>3 DEF OnPage, Active
    <3> QED
      BY <1>0, <1>1, <2>1, <3>1 DEF SessionInv, OnItsPage
  <2> QED
    BY <2>2, <2>3 DEF OnItsPage
<1>8. (CookiesAreOwn /\ JarsFitKeys)'
  BY <1>0 DEF SessionInv, CookiesAreOwn, JarsFitKeys, Own
<1>9. (StaysSignedIn /\ ByHand)'
  BY <1>0, <1>2 DEF SessionInv, StaysSignedIn, ByHand
<1>10. JarsOfTheActive'
  <2> SUFFICES ASSUME store, NEW g \in Processes, NEW k \in Keys, local[g][k] # NoJar
               PROVE  \E s \in Runs : /\ host[s] = g
                                      /\ node'[s] = "lost" \/ (Active(s)' /\ k = OwnKey(s)')
    BY <1>0 DEF JarsOfTheActive
  <2>1. PICK s \in Runs : /\ host[s] = g
                          /\ node[s] = "lost" \/ (Active(s) /\ k = OwnKey(s))
    BY DEF SessionInv, JarsOfTheActive
  <2> QED
    BY <1>0, <1>2, <2>1 DEF Active, OwnKey
<1> QED
  BY <1>4, <1>5, <1>6, <1>7, <1>8, <1>9, <1>10 DEF SessionInv

LEMMA StepSessionInv ==
    ASSUME ~Overlap PROVE SessionInv /\ [Next]_vars => SessionInv'
<1> SUFFICES ASSUME SessionInv, [Next]_vars PROVE SessionInv'
  OBVIOUS
<1>1. ASSUME NEW r \in Runs, Step(r) \/ Stopped(r) PROVE SessionInv'
  BY <1>1, RunStepTypes, RunStepPages, RunStepSignIns, RunStepJars DEF SessionInv
<1>2. CASE UNCHANGED vars
  <2>1. TypeOK'
    BY <1>2 DEF SessionInv, TypeOK, vars, run, wheel, jars
  <2> QED
    BY <1>2, <2>1
       DEF SessionInv, OneAtATime, Wearing, OnItsPage, CookiesAreOwn, JarsFitKeys, StaysSignedIn,
           ByHand, JarsOfTheActive, Active, Own, OwnKey, vars, run, wheel, jars
<1> QED
  BY <1>1, <1>2, BeginKeeps, CrashKeeps DEF Next

LEMMA SessionInvariant == ASSUME ~Overlap PROVE Spec => []SessionInv
BY InitSessionInv, StepSessionInv, PTL DEF Spec

(***************************************************************************)
(* The theorems.                                                           *)
(***************************************************************************)

\* Every variable keeps to its values.
THEOREM SessionTypes == ASSUME ~Overlap PROVE Spec => []TypeOK
<1>1. SessionInv => TypeOK
  BY DEF SessionInv
<1> QED
  BY <1>1, SessionInvariant, PTL

\* No browser context carries a sign-in made by another persona, whatever jars the
\* disks and the store hold, and whichever runs failed or died before.
THEOREM NoJarUnderAnotherDevice == ASSUME ~Overlap PROVE Spec => []JarNeverReplayed
<1>1. SessionInv => JarNeverReplayed
  <2> SUFFICES ASSUME SessionInv, NEW r \in Runs, cookies[r].user # Guest
               PROVE  cookies[r].device = wears[r]
    BY DEF JarNeverReplayed
  <2>1. cookies[r] = Own(r)
    BY DEF SessionInv, CookiesAreOwn, SignedOut
  <2> QED
    BY <2>1 DEF Own
<1> QED
  BY <1>1, SessionInvariant, PTL

\* A run that submits does so on its own page, signed in as its own user.
THEOREM SubmitsSignedIn == ASSUME ~Overlap PROVE Spec => []SubmitsAsItsUser
<1>1. SessionInv => SubmitsAsItsUser
  BY DEF SessionInv, OnItsPage, OnPage, StaysSignedIn, SubmitsAsItsUser, pageOf
<1> QED
  BY <1>1, SessionInvariant, PTL

\* With a store, a process whose runs have all ended holds no sign-in on its disk.
THEOREM DisksAreCleared == ASSUME ~Overlap PROVE Spec => []NoJarLeftBehind
<1>1. SessionInv => NoJarLeftBehind
  BY DEF SessionInv, JarsOfTheActive, NoJarLeftBehind, Active
<1> QED
  BY <1>1, SessionInvariant, PTL


(***************************************************************************)
(* SearchForm: what a field holds at each step of search_jobs.  Once its   *)
(* step is behind, a field that did not slip is as this search wants it;   *)
(* before, a form that opens empty holds nothing where a later step may    *)
(* leave the field alone or only adds to it.                               *)
(***************************************************************************)
FieldAt == [apec |-> [keywords |-> {}, render |-> {"title"}, contract |-> {"title"},
                      send |-> {"title", "contracts", "salary"}],
            hellowork |-> [query |-> {}, panel |-> {"title", "place"},
                           send |-> {"title", "place", "contracts", "salary"}],
            wttj |-> [open |-> {}, role |-> {}, place |-> {"title", "levels"},
                      contract |-> {"title", "levels", "chips"},
                      send |-> {"title", "levels", "chips", "contracts", "salary"}]]

Under == at \notin {"results", "failed"}

Filled == Under => \A f \in FieldAt[site][at] \ slips : Wanted(f, form[f])

StillEmpty ==
    /\ site = "apec" /\ at \in {"keywords", "render", "contract"} => form.salary = <<>>
    /\ site = "hellowork" /\ at \in {"query", "panel"} =>
          form.contracts = {}  /\ form.salary = <<>>
    /\ site = "hellowork" /\ at = "query" /\ want.place = NoPlace => form.place = <<>>

\* HelloWork's filters may never be sent: the list is then the query's.
QuerySent ==
    site = "hellowork" /\ at \in {"panel", "send"} =>
        \A f \in {"title", "place"} \ slips : Wanted(f, asked[f])

FormInv ==
    /\ FormTypeOK  /\ at \in DOMAIN FieldAt[site] \union {"results", "failed"}
    /\ Filled  /\ StillEmpty  /\ QuerySent  /\ FiltersFollowTheSearch

LEMMA WantIs ==
    ASSUME want \in Wants
    PROVE  /\ want.contracts \subseteq Kinds  /\ want.salary \in Nat
           /\ want.salary = 0 \/ want.salary >= 1000
           /\ <<want.title>> \in Texts  /\ <<want.place>> \in Texts
           /\ <<Part>> \in Texts  /\ <<>> \in Texts
           /\ WttjPlace \in {w.place : w \in Wants} \union {"France"}
<1>1. /\ want.contracts \subseteq Kinds
      /\ want.salary \in {0} \union {s \in Nat : s >= 1000}
  BY SearchFormAssumption
<1>2. want.title \in {w.title : w \in Wants}  /\ want.place \in {w.place : w \in Wants}
  OBVIOUS
<1> QED
  BY <1>1, <1>2 DEF Texts, WttjPlace

\* What is typed in the salary's field is a number.
LEMMA FiguresAre ==
    ASSUME want \in Wants
    PROVE  /\ <<>> \in Figures  /\ <<want.salary>> \in Figures  /\ <<WttjSalary>> \in Figures
           /\ InThousands(want.salary) \in Nat  /\ <<InThousands(want.salary)>> \in Figures
           /\ want.salary > 0 => InThousands(want.salary) = want.salary \div 1000
<1>1. PICK n \in Nat : n = want.salary /\ (n = 0 \/ n >= 1000)
  BY WantIs
<1>2. n \div 1000 \in Nat
  BY <1>1
<1>3. WttjSalary \in Nat
  BY <1>1 DEF WttjSalary
<1>4. InThousands(n) \in Nat /\ (n > 0 => InThousands(n) = n \div 1000)
  BY <1>1, <1>2 DEF InThousands
<1> QED
  BY <1>1, <1>3, <1>4 DEF Figures

LEMMA ContractsAre ==
    ASSUME want \in Wants
    PROVE  /\ HwContracts \subseteq Kinds  /\ want.contracts \intersect WttjContracts \subseteq Kinds
           /\ want.contracts = {} => HwContracts = {}
BY WantIs DEF HwContracts, Kinds

LEMMA LevelsAre == \A y : ExperienceLevels(y) \subseteq Levels
BY DEF ExperienceLevels, Levels

LEMMA InitFormInv == FormInit => FormInv
<1> SUFFICES ASSUME FormInit PROVE FormInv
  OBVIOUS
<1>1. Blank \in Forms
  BY DEF Blank, Forms, Texts, Figures
<1>2. FormTypeOK
  BY <1>1, SearchFormAssumption DEF FormInit, FormTypeOK
<1>3. site \in {"apec", "hellowork", "wttj"}
  BY SearchFormAssumption DEF FormInit
<1>4. at \in DOMAIN FieldAt[site]  /\ FieldAt[site][at] = {}  /\ at \notin {"results", "failed"}
      /\ at \notin {"panel", "send"}
  BY <1>3 DEF FormInit, FirstStep, FieldAt
<1>5. Filled  /\ StillEmpty  /\ QuerySent  /\ FiltersFollowTheSearch
  BY <1>4 DEF FormInit, Blank, Filled, StillEmpty, QuerySent, FiltersFollowTheSearch
<1> QED
  BY <1>2, <1>4, <1>5 DEF FormInv

\* The table, read.
LEMMA ApecFields ==
    /\ DOMAIN FieldAt["apec"] = {"keywords", "render", "contract", "send"}
    /\ FieldAt["apec"]["keywords"] = {}  /\ FieldAt["apec"]["render"] = {"title"}
    /\ FieldAt["apec"]["contract"] = {"title"}
    /\ FieldAt["apec"]["send"] = FieldsOf["apec"]
    /\ FieldsOf["apec"] = {"title", "contracts", "salary"}
BY DEF FieldAt, FieldsOf

\* A field is wanted as it is while the search is the same.
LEMMA StaysWanted ==
    ASSUME UNCHANGED <<site, want>>, NEW f \in DOMAIN Blank, NEW has, Wanted(f, has)
    PROVE  Wanted(f, has)'
<1>0. f \in {"title", "place", "chips", "contracts", "salary", "levels"}
  BY DEF Blank
<1>1. CASE f = "title" \/ f = "place"
  BY <1>1 DEF Wanted
<1>2. CASE f = "chips" \/ f = "levels"
  BY <1>2 DEF Wanted, WttjPlace
<1>3. CASE f = "salary"
  BY <1>3 DEF Wanted, WttjSalary
<1>4. CASE f = "contracts"
  BY <1>4 DEF Wanted, HwContracts
<1> QED
  BY <1>0, <1>1, <1>2, <1>3, <1>4

LEMMA ApecFormInv == FormInv /\ ApecSearches => FormInv'
<1> SUFFICES ASSUME FormInv, ApecSearches PROVE FormInv'
  OBVIOUS
<1>0. /\ site = "apec"  /\ UNCHANGED <<site, want, ahead, kept>>  /\ want \in Wants
      /\ FormTypeOK  /\ form \in Forms
  BY DEF ApecSearches, ApecKeywords, ApecRender, ApecFilters, ApecSend, FormInv, FormTypeOK
<1>a. CASE SearchFails /\ UNCHANGED <<asked, shown>>
  BY <1>0, <1>a
     DEF SearchFails, Goes, FormInv, FormTypeOK, Filled, Under, StillEmpty, QuerySent,
         FiltersFollowTheSearch
<1>1. CASE ApecKeywords /\ ~SearchFails
  <2>1. /\ form' \in Forms  /\ form'.title = <<want.title>>  /\ form'.salary = form.salary
        /\ at = "keywords"  /\ at' = "render"  /\ tries' = 0  /\ UNCHANGED <<slips, asked, shown>>
    BY <1>0, <1>1, WantIs DEF ApecKeywords, Goes, Forms, Retype
  <2>2. FormTypeOK'
    BY <1>0, <2>1 DEF FormTypeOK
  <2>3. Filled'
    BY <1>0, <2>1, ApecFields DEF Filled, Wanted
  <2>4. StillEmpty' /\ QuerySent' /\ FiltersFollowTheSearch'
    BY <1>0, <2>1 DEF FormInv, StillEmpty, QuerySent, FiltersFollowTheSearch
  <2> QED
    BY <1>0, <2>1, <2>2, <2>3, <2>4, ApecFields DEF FormInv
<1>2. CASE ApecRender /\ ~SearchFails
  <2>0. Blank \in Forms /\ Blank.salary = <<>>  /\ "title" \in DOMAIN Blank
    BY DEF Blank, Forms, Texts, Figures
  <2>1. /\ form' \in Forms
        /\ form.salary = <<>> => form'.salary = <<>>
        /\ at = "render"  /\ at' \in {"render", "contract"}  /\ tries' \in 0..2
        /\ UNCHANGED <<asked, shown>>
        /\ slips' \subseteq DOMAIN Blank
        /\ "title" \in slips' \/ (UNCHANGED <<slips, form>>)
    BY <1>0, <1>2, <2>0 DEF ApecRender, Goes, Unset, FormTypeOK
  <2>2. FormTypeOK'
    BY <1>0, <2>1 DEF FormTypeOK
  <2>3. Filled'
    <3>1. "title" \notin slips => Wanted("title", form["title"])
      BY <1>0, <2>1, ApecFields DEF Filled, FormInv, Under
    <3> QED
      BY <1>0, <2>1, <3>1, ApecFields DEF Filled, Wanted
  <2>4. StillEmpty' /\ QuerySent' /\ FiltersFollowTheSearch'
    BY <1>0, <2>1 DEF FormInv, StillEmpty, QuerySent, FiltersFollowTheSearch
  <2> QED
    BY <1>0, <2>1, <2>2, <2>3, <2>4, ApecFields DEF FormInv
<1>3. CASE ApecFilters /\ ~SearchFails
  <2>0. /\ at = "contract"  /\ at' = "send"  /\ tries' = 0  /\ UNCHANGED <<asked, shown>>
        /\ form.salary = <<>>
    BY <1>0, <1>3 DEF ApecFilters, Goes, FormInv, StillEmpty
  <2> DEFINE mapped == want.contracts \intersect ApecContracts
             chosen == IF mapped = {} THEN {{}} ELSE {{k} : k \in mapped}
  <2>1. PICK one \in chosen, salary \in BOOLEAN :
           /\ form' = [form EXCEPT !.contracts = one,
                 !.salary = IF want.salary > 0 /\ salary THEN Retype(@, InThousands(want.salary)) ELSE @]
           /\ Slip("salary", IF want.salary > 0 /\ ~salary THEN {"salary"} ELSE {})
    BY <1>3 DEF ApecFilters
  <2>2. /\ one \in SUBSET Kinds
        /\ IF mapped = {} THEN one = {} ELSE \E k \in mapped : one = {k}
    BY <1>0, WantIs
  <2> HIDE DEF chosen
  <2>3. /\ form' \in Forms  /\ form'.title = form.title  /\ form'.contracts = one
        /\ form'.salary = IF want.salary > 0 /\ salary THEN <<InThousands(want.salary)>> ELSE <<>>
    BY <1>0, <2>0, <2>1, <2>2, FiguresAre DEF Forms, Retype
  <2>4. slips' = slips \union (IF want.salary > 0 /\ ~salary THEN {"salary"} ELSE {})
    BY <2>1 DEF Slip, Unset
  <2>5. slips' \subseteq DOMAIN Blank
    BY <1>0, <2>4 DEF FormTypeOK, Blank
  <2>6. FormTypeOK'
    BY <1>0, <2>0, <2>3, <2>5 DEF FormTypeOK
  <2>7. ASSUME NEW f \in FieldsOf["apec"] \ slips'  PROVE Wanted(f, form[f])'
    <3>1. CASE f = "title"
      <4>1. Wanted("title", form["title"])
        BY <1>0, <2>0, <2>4, <2>7, <3>1, ApecFields DEF FormInv, Filled, Under
      <4> QED
        BY <1>0, <2>3, <3>1, <4>1 DEF Wanted
    <3>2. CASE f = "contracts"
      BY <1>0, <2>2, <2>3, <3>2 DEF Wanted
    <3>3. CASE f = "salary"
      <4>1. want.salary > 0 => salary
        BY <2>4, <2>7, <3>3
      <4>2. want.salary \in Nat
        BY <1>0, WantIs
      <4> QED
        BY <1>0, <2>3, <3>3, <4>1, <4>2, FiguresAre DEF Wanted
    <3> QED
      BY <3>1, <3>2, <3>3, ApecFields
  <2>8. Filled'
    BY <1>0, <2>0, <2>7, ApecFields DEF Filled
  <2>9. StillEmpty' /\ QuerySent' /\ FiltersFollowTheSearch'
    BY <1>0, <2>0 DEF StillEmpty, QuerySent, FiltersFollowTheSearch
  <2> QED
    BY <1>0, <2>0, <2>6, <2>8, <2>9, ApecFields DEF FormInv
<1>4. CASE ApecSend /\ ~(SearchFails /\ UNCHANGED <<asked, shown>>)
  <2>1. /\ at = "send"  /\ at' = "results"  /\ tries' = 0  /\ asked' = form  /\ shown' = form
        /\ UNCHANGED <<form, slips>>
    BY <1>4 DEF ApecSend, Goes
  <2>2. \A f \in FieldsOf["apec"] \ slips : Wanted(f, form[f])
    BY <1>0, <2>1, ApecFields DEF FormInv, Filled, Under
  <2>3. FiltersFollowTheSearch'
    <3>1. \A f \in FieldsOf["apec"] \ slips : Wanted(f, asked[f])'
      <4> SUFFICES ASSUME NEW f \in FieldsOf["apec"] \ slips  PROVE Wanted(f, asked[f])'
        BY <2>1
      <4>1. Wanted(f, form[f])  /\ asked'[f] = form[f]  /\ f \in DOMAIN Blank
        BY <2>1, <2>2, ApecFields DEF Blank
      <4> QED
        BY <1>0, <4>1, StaysWanted
    <3> QED
      BY <1>0, <2>1, <3>1 DEF FiltersFollowTheSearch
  <2> QED
    BY <1>0, <2>1, <2>3 DEF FormInv, FormTypeOK, Filled, Under, StillEmpty, QuerySent
<1> QED
  BY <1>a, <1>1, <1>2, <1>3, <1>4 DEF ApecSearches, ApecKeywords, ApecRender, ApecFilters, ApecSend

LEMMA HwFields ==
    /\ DOMAIN FieldAt["hellowork"] = {"query", "panel", "send"}
    /\ FieldAt["hellowork"]["query"] = {}
    /\ FieldAt["hellowork"]["panel"] = {"title", "place"}
    /\ FieldAt["hellowork"]["send"] = FieldsOf["hellowork"]
    /\ FieldsOf["hellowork"] = {"title", "place", "contracts", "salary"}
BY DEF FieldAt, FieldsOf

\* What an attempt at the query makes of the form: the two fields, and no other.
LEMMA QueryIs ==
    ASSUME FormInv, site = "hellowork", at = "query",
           form' \in {form, HwTitled(Part), HwTitled(want.title), HwPlaced(Part), HwPlaced(want.place)}
    PROVE  /\ form' \in Forms
           /\ form'.contracts = {}  /\ form'.salary = <<>>
           /\ want.place = NoPlace => form'.place = <<>>
           /\ form' = HwPlaced(want.place) =>
                 Wanted("title", form'["title"]) /\ Wanted("place", form'["place"])
<1>0. /\ form \in Forms  /\ want \in Wants  /\ form.contracts = {}  /\ form.salary = <<>>
      /\ want.place = NoPlace => form.place = <<>>
  BY DEF FormInv, FormTypeOK, StillEmpty
<1>1. ASSUME NEW word, <<word>> \in Texts
      PROVE  /\ HwTitled(word) \in Forms  /\ HwTitled(word).title = <<word>>
             /\ HwTitled(word).place = form.place
             /\ HwTitled(word).contracts = {}  /\ HwTitled(word).salary = <<>>
  BY <1>0, <1>1 DEF HwTitled, Retype, Forms
<1>2. ASSUME NEW word, <<word>> \in Texts
      PROVE  /\ HwPlaced(word) \in Forms  /\ HwPlaced(word).title = <<want.title>>
             /\ HwPlaced(word).contracts = {}  /\ HwPlaced(word).salary = <<>>
             /\ HwPlaced(word).place = IF want.place = NoPlace THEN form.place ELSE <<word>>
  <2> DEFINE h == HwTitled(want.title)
  <2>1. /\ h \in Forms  /\ h.title = <<want.title>>  /\ h.place = form.place
        /\ h.contracts = {}  /\ h.salary = <<>>
    BY <1>0, <1>1, WantIs
  <2>2. HwPlaced(word) = IF want.place = NoPlace THEN h ELSE [h EXCEPT !.place = <<word>>]
    BY DEF HwPlaced, Retype
  <2> HIDE DEF h
  <2> QED
    BY <1>2, <2>1, <2>2 DEF Forms
<1> QED
  BY <1>0, <1>1, <1>2, WantIs DEF Wanted

LEMMA HwFormInv == FormInv /\ HwSearches => FormInv'
<1> SUFFICES ASSUME FormInv, HwSearches PROVE FormInv'
  OBVIOUS
<1>0. /\ site = "hellowork"  /\ UNCHANGED <<site, want, ahead, kept>>  /\ want \in Wants
      /\ FormTypeOK  /\ form \in Forms
  BY DEF HwSearches, HwQuery, HwFilters, HwSend, HwListArrives, FormInv, FormTypeOK
<1>b. UNCHANGED <<site, want>>
  BY <1>0
<1>a. CASE SearchFails /\ UNCHANGED <<asked, shown>>
  BY <1>0, <1>a
     DEF SearchFails, Goes, FormInv, FormTypeOK, Filled, Under, StillEmpty, QuerySent,
         FiltersFollowTheSearch
<1>1. CASE HwQuery /\ ~(SearchFails /\ UNCHANGED <<asked, shown>>)
  <2>1. /\ form' \in {form, HwTitled(Part), HwTitled(want.title), HwPlaced(Part), HwPlaced(want.place)}
        /\ at = "query"  /\ UNCHANGED slips
    BY <1>1 DEF HwQuery
  <2>2. /\ form' \in Forms  /\ form'.contracts = {}  /\ form'.salary = <<>>
        /\ want.place = NoPlace => form'.place = <<>>
        /\ form' = HwPlaced(want.place) =>
              Wanted("title", form'["title"]) /\ Wanted("place", form'["place"])
    BY <1>0, <2>1, QueryIs
  <2>3. CASE tries' = tries + 1  /\ tries < 2  /\ UNCHANGED <<at, asked, shown>>
    BY <1>0, <2>1, <2>2, <2>3, HwFields
       DEF FormInv, FormTypeOK, Filled, Under, StillEmpty, QuerySent, FiltersFollowTheSearch
  <2>4. CASE /\ form' = HwPlaced(want.place)  /\ asked' = form'  /\ shown' = form'
             /\ Goes(IF want.contracts # {} \/ want.salary > 0 THEN "panel" ELSE "results")
    <3> DEFINE filled == form'
    <3>1. /\ Wanted("title", filled["title"]) /\ Wanted("place", filled["place"])
          /\ at' \in {"panel", "results"}  /\ tries' = 0
          /\ at' = "results" => want.contracts = {} /\ want.salary = 0
      BY <1>0, <2>2, <2>4, WantIs DEF Goes
    <3>2. at' = "results" =>
             Wanted("contracts", filled["contracts"]) /\ Wanted("salary", filled["salary"])
      BY <1>0, <2>2, <3>1, ContractsAre DEF Wanted
    <3>3. FormTypeOK'
      BY <1>0, <2>1, <2>2, <2>4, <3>1 DEF FormTypeOK
    <3>4. ASSUME NEW f \in {"title", "place"}
          PROVE  Wanted(f, form[f])' /\ Wanted(f, asked[f])'
      BY <1>b, <2>4, <3>1, StaysWanted DEF Blank
    <3>5. ASSUME NEW f \in {"title", "place", "contracts", "salary"}, at' = "results"
          PROVE  Wanted(f, asked[f])'
      BY <1>b, <2>4, <3>1, <3>2, <3>5, StaysWanted DEF Blank
    <3>6. Filled' /\ QuerySent'
      BY <1>0, <3>1, <3>4, HwFields DEF Filled, QuerySent, Under
    <3>7. StillEmpty'
      BY <1>0, <2>2, <3>1 DEF StillEmpty
    <3>8. FiltersFollowTheSearch'
      BY <1>0, <3>5, HwFields DEF FiltersFollowTheSearch
    <3> QED
      BY <1>0, <3>1, <3>3, <3>6, <3>7, <3>8, HwFields DEF FormInv
  <2> QED
    BY <1>1, <2>3, <2>4 DEF HwQuery
<1>2. CASE HwFilters /\ ~(SearchFails /\ UNCHANGED <<asked, shown>>)
  <2>0. /\ at = "panel"  /\ at' = "send"  /\ tries' = 0  /\ UNCHANGED <<asked, shown>>
        /\ form.contracts = {}  /\ form.salary = <<>>
    BY <1>0, <1>2 DEF HwFilters, Goes, FormInv, StillEmpty
  <2>1. PICK lost \in SUBSET HwContracts, salary \in BOOLEAN :
            /\ form' = [form EXCEPT !.contracts = TickOnly(@, HwContracts, lost),
                  !.salary = IF want.salary > 0 /\ salary THEN Retype(@, want.salary) ELSE @]
            /\ Unset((IF lost = {} THEN {} ELSE {"contracts"}) \union
                     (IF want.salary > 0 /\ ~salary THEN {"salary"} ELSE {}))
    BY <1>2 DEF HwFilters
  <2>2. /\ form' \in Forms  /\ form'.title = form.title  /\ form'.place = form.place
        /\ form'.contracts = HwContracts \ lost
        /\ form'.salary = IF want.salary > 0 /\ salary THEN <<want.salary>> ELSE <<>>
    BY <1>0, <2>0, <2>1, FiguresAre, ContractsAre DEF Forms, Retype, TickOnly
  <2>3. slips' = slips \union (IF lost = {} THEN {} ELSE {"contracts"})
                       \union (IF want.salary > 0 /\ ~salary THEN {"salary"} ELSE {})
    BY <2>1 DEF Unset
  <2>4. FormTypeOK'
    BY <1>0, <2>0, <2>2, <2>3 DEF FormTypeOK, Blank
  <2> DEFINE filled == form'
  <2>5. ASSUME NEW f \in FieldsOf["hellowork"] \ slips'  PROVE Wanted(f, filled[f])
    <3>1. CASE f \in {"title", "place"}
      <4>1. Wanted(f, form[f])
        BY <1>0, <2>0, <2>3, <2>5, <3>1, HwFields DEF FormInv, Filled, Under
      <4> QED
        BY <2>2, <3>1, <4>1
    <3>2. CASE f = "contracts"
      BY <1>0, <2>2, <2>3, <2>5, <3>2 DEF Wanted
    <3>3. CASE f = "salary"
      <4>1. want.salary > 0 => salary
        BY <2>3, <2>5, <3>3
      <4>2. want.salary \in Nat
        BY <1>0, WantIs
      <4> QED
        BY <1>0, <2>2, <3>3, <4>1, <4>2 DEF Wanted
    <3> QED
      BY <3>1, <3>2, <3>3, HwFields
  <2>6. ASSUME NEW f \in FieldsOf["hellowork"] \ slips'  PROVE Wanted(f, form[f])'
    BY <1>b, <2>5, <2>6, StaysWanted, HwFields DEF Blank
  <2>7. ASSUME NEW f \in {"title", "place"} \ slips'  PROVE Wanted(f, asked[f])'
    <3>1. Wanted(f, asked[f])
      BY <1>0, <2>0, <2>3, <2>7 DEF FormInv, QuerySent
    <3> QED
      BY <1>b, <2>0, <3>1, StaysWanted DEF Blank
  <2>8. Filled' /\ QuerySent'
    BY <1>0, <2>0, <2>6, <2>7, HwFields DEF Filled, QuerySent
  <2>9. StillEmpty' /\ FiltersFollowTheSearch'
    BY <1>0, <2>0 DEF StillEmpty, FiltersFollowTheSearch
  <2> QED
    BY <1>0, <2>0, <2>4, <2>8, <2>9, HwFields DEF FormInv
<1>3. CASE HwSend /\ ~(SearchFails /\ UNCHANGED <<asked, shown>>)
  <2>0. /\ at = "send"  /\ at' = "results"  /\ tries' = 0  /\ UNCHANGED form
        /\ \/ asked' = form  /\ shown' \in {shown, form}  /\ UNCHANGED slips
           \/ slips' = slips \union {"contracts", "salary"}  /\ UNCHANGED <<asked, shown>>
    BY <1>3 DEF HwSend, Goes, Unset
  <2>1. FormTypeOK'
    BY <1>0, <2>0 DEF FormTypeOK, Blank
  <2> DEFINE sent == asked'
  <2>2. ASSUME NEW f \in FieldsOf["hellowork"] \ slips'  PROVE Wanted(f, sent[f])
    <3>1. CASE asked' = form /\ UNCHANGED slips
      BY <1>0, <2>0, <2>2, <3>1, HwFields DEF FormInv, Filled, Under
    <3>2. CASE slips' = slips \union {"contracts", "salary"}  /\ asked' = asked
      BY <1>0, <2>0, <2>2, <3>2, HwFields DEF FormInv, QuerySent
    <3> QED
      BY <2>0, <3>1, <3>2
  <2>3. ASSUME NEW f \in FieldsOf["hellowork"] \ slips'  PROVE Wanted(f, asked[f])'
    BY <1>b, <2>2, <2>3, StaysWanted, HwFields DEF Blank
  <2>4. FiltersFollowTheSearch'
    BY <1>0, <2>3 DEF FiltersFollowTheSearch
  <2> QED
    BY <1>0, <2>0, <2>1, <2>4 DEF FormInv, Filled, Under, StillEmpty, QuerySent
<1>4. CASE HwListArrives
  <2>0. at = "results"  /\ UNCHANGED <<at, tries, form, slips, asked>>  /\ shown' = asked
    BY <1>4 DEF HwListArrives
  <2>1. ASSUME NEW f \in FieldsOf["hellowork"] \ slips  PROVE Wanted(f, asked[f])'
    <3>1. Wanted(f, asked[f])
      BY <1>0, <2>0 DEF FormInv, FiltersFollowTheSearch
    <3> QED
      BY <1>b, <2>0, <3>1, StaysWanted, HwFields DEF Blank
  <2>2. FormTypeOK' /\ FiltersFollowTheSearch'
    BY <1>0, <2>0, <2>1 DEF FormTypeOK, FiltersFollowTheSearch
  <2> QED
    BY <1>0, <2>0, <2>2 DEF FormInv, Filled, Under, StillEmpty, QuerySent
<1> QED
  BY <1>a, <1>1, <1>2, <1>3, <1>4 DEF HwSearches, HwQuery, HwFilters, HwSend

LEMMA WttjFields ==
    /\ DOMAIN FieldAt["wttj"] = {"open", "role", "place", "contract", "send"}
    /\ FieldAt["wttj"]["open"] = {}  /\ FieldAt["wttj"]["role"] = {}
    /\ FieldAt["wttj"]["place"] = {"title", "levels"}
    /\ FieldAt["wttj"]["contract"] = {"title", "levels", "chips"}
    /\ FieldAt["wttj"]["send"] = FieldsOf["wttj"]
    /\ FieldsOf["wttj"] = {"title", "levels", "chips", "contracts", "salary"}
BY DEF FieldAt, FieldsOf

\* A step that fills in the fields of one section keeps those of the sections before.
LEMMA SectionFilled ==
    ASSUME FormInv, site = "wttj", at \in DOMAIN FieldAt["wttj"],
           UNCHANGED <<site, want, ahead, kept, asked, shown>>,
           NEW next \in DOMAIN FieldAt["wttj"], Goes(next),
           NEW here, FieldAt["wttj"][next] = FieldAt["wttj"][at] \union here,
           slips \subseteq slips', slips' \subseteq DOMAIN Blank, form' \in Forms,
           \A f \in FieldAt["wttj"][at] : form'[f] = form[f],
           \A f \in here \ slips' : Wanted(f, form'[f])
    PROVE  FormInv'
<1>1. at \notin {"results", "failed"}  /\ next \notin {"results", "failed"}
  BY WttjFields
<1>2. FieldAt["wttj"][next] \subseteq DOMAIN Blank
  BY WttjFields DEF Blank
<1> DEFINE filled == form'
<1>3. ASSUME NEW f \in FieldAt["wttj"][next] \ slips'  PROVE Wanted(f, filled[f])
  BY <1>1, <1>3 DEF FormInv, Filled, Under
<1>4. ASSUME NEW f \in FieldAt["wttj"][next] \ slips'  PROVE Wanted(f, form[f])'
  BY <1>2, <1>3, <1>4, StaysWanted
<1>5. FormTypeOK'
  BY DEF FormInv, FormTypeOK, Goes
<1>6. Filled' /\ StillEmpty' /\ QuerySent' /\ FiltersFollowTheSearch'
  BY <1>1, <1>4 DEF Filled, StillEmpty, QuerySent, FiltersFollowTheSearch, Goes
<1> QED
  BY <1>5, <1>6 DEF FormInv, Goes

LEMMA WttjFormInv == FormInv /\ WttjSearches => FormInv'
<1> SUFFICES ASSUME FormInv, WttjSearches PROVE FormInv'
  OBVIOUS
<1>0. /\ site = "wttj"  /\ UNCHANGED <<site, want, ahead>>  /\ want \in Wants
      /\ FormTypeOK  /\ form \in Forms  /\ kept \in Forms  /\ slips \subseteq DOMAIN Blank
  BY DEF WttjSearches, WttjOpen, WttjRole, WttjLocation, WttjContract, WttjSend, FormInv, FormTypeOK
<1>b. UNCHANGED <<site, want>>
  BY <1>0
<1>a. CASE SearchFails /\ kept' \in {kept, form} /\ UNCHANGED <<asked, shown>>
  BY <1>0, <1>a
     DEF SearchFails, Goes, FormInv, FormTypeOK, Filled, Under, StillEmpty, QuerySent,
         FiltersFollowTheSearch
<1>1. CASE WttjOpen /\ ~SearchFails
  <2>1. form' = kept  /\ Goes("role")  /\ at = "open"  /\ UNCHANGED <<slips, kept, asked, shown>>
    BY <1>1 DEF WttjOpen
  <2> QED
    BY <1>0, <2>1, SectionFilled, WttjFields
<1>2. CASE WttjRole /\ ~SearchFails
  <2>1. PICK lost \in SUBSET Levels :
            /\ form' = [form EXCEPT !.title = Retype(@, want.title),
                  !.levels = SetBoxes(@, ExperienceLevels(want.years), lost)]
            /\ Slip("levels", lost)  /\ Goes("place")
    BY <1>2 DEF WttjRole
  <2>2. /\ form' \in Forms  /\ form'.title = <<want.title>>
        /\ lost = {} => form'.levels = ExperienceLevels(want.years)
    BY <1>0, <2>1, WantIs, LevelsAre DEF Forms, Retype, SetBoxes
  <2>3. slips' = slips \union (IF lost = {} THEN {} ELSE {"levels"})
    BY <2>1 DEF Slip, Unset
  <2>4. Wanted("title", form'["title"]) /\ ("levels" \notin slips' => Wanted("levels", form'["levels"]))
    BY <2>2, <2>3 DEF Wanted
  <2>5. at = "role" /\ UNCHANGED <<kept, asked, shown>>
    BY <1>2 DEF WttjRole
  <2>6. slips \subseteq slips' /\ slips' \subseteq DOMAIN Blank
    BY <1>0, <2>3 DEF Blank
  <2>10. /\ \A f \in {"title", "levels"} \ slips' : Wanted(f, form'[f])
         /\ \A f \in FieldAt["wttj"]["role"] : form'[f] = form[f]
    BY <2>2, <2>4, WttjFields
  <2> QED
    BY <2>10, <1>0, <2>1, <2>2, <2>4, <2>5, <2>6, SectionFilled, WttjFields
<1>3. CASE WttjLocation /\ ~SearchFails
  <2>1. PICK left \in SUBSET form.chips, chosen \in BOOLEAN :
            /\ form' = [form EXCEPT !.chips = left \union (IF chosen THEN {WttjPlace} ELSE {})]
            /\ Slip("chips", left \union (IF chosen THEN {} ELSE {WttjPlace}))
            /\ Goes("contract")
    BY <1>3 DEF WttjLocation
  <2>2. /\ form' \in Forms  /\ form'.title = form.title  /\ form'.levels = form.levels
        /\ form'.chips = left \union (IF chosen THEN {WttjPlace} ELSE {})
    BY <1>0, <2>1, WantIs DEF Forms
  <2>3. slips' = slips \union (IF chosen /\ left = {} THEN {} ELSE {"chips"})
    BY <2>1 DEF Slip, Unset
  <2>4. "chips" \notin slips' => Wanted("chips", form'["chips"])
    BY <2>2, <2>3 DEF Wanted
  <2>5. at = "place" /\ UNCHANGED <<kept, asked, shown>>
    BY <1>3 DEF WttjLocation
  <2>6. slips \subseteq slips' /\ slips' \subseteq DOMAIN Blank
    BY <1>0, <2>3 DEF Blank
  <2>10. /\ \A f \in {"chips"} \ slips' : Wanted(f, form'[f])
         /\ \A f \in FieldAt["wttj"]["place"] : form'[f] = form[f]
    BY <2>2, <2>4, WttjFields
  <2>11. /\ FieldAt["wttj"]["contract"] = FieldAt["wttj"]["place"] \union {"chips"}
         /\ {"place", "contract"} \subseteq DOMAIN FieldAt["wttj"]
    BY WttjFields
  <2> QED
    BY <2>10, <2>11, <1>0, <2>1, <2>2, <2>4, <2>5, <2>6, SectionFilled
<1>4. CASE WttjContract
  <2> DEFINE wanted == want.contracts \intersect WttjContracts
  <2>1. PICK hidden \in {{}, Hidden}, lost \in SUBSET (wanted \union form.contracts),
             filled \in BOOLEAN :
        \E salary \in IF filled THEN {Retype(form.salary, WttjSalary)} ELSE {form.salary, <<>>} :
             LET boxes == SetBoxes(form.contracts, wanted, hidden \union lost) IN
             /\ form' = [form EXCEPT !.contracts = boxes, !.salary = salary]
             /\ Unset((IF boxes = wanted THEN {} ELSE {"contracts"}) \union
                      (IF filled THEN {} ELSE {"salary"}))
             /\ Goes("send")
    BY <1>4 DEF WttjContract
  <2> DEFINE boxes == SetBoxes(form.contracts, wanted, hidden \union lost)
  <2>2. PICK salary \in IF filled THEN {Retype(form.salary, WttjSalary)} ELSE {form.salary, <<>>} :
             /\ form' = [form EXCEPT !.contracts = boxes, !.salary = salary]
             /\ Unset((IF boxes = wanted THEN {} ELSE {"contracts"}) \union
                      (IF filled THEN {} ELSE {"salary"}))
             /\ Goes("send")
    BY <2>1
  <2>3. boxes \subseteq Kinds
    BY <1>0, ContractsAre DEF SetBoxes, Forms
  <2>4. salary \in Figures  /\ (filled => salary = <<WttjSalary>>)
    BY <1>0, <2>2, FiguresAre DEF Forms, Retype
  <2> HIDE DEF boxes
  <2>5. /\ form' \in Forms  /\ form'.title = form.title  /\ form'.levels = form.levels
        /\ form'.chips = form.chips  /\ form'.contracts = boxes  /\ form'.salary = salary
    BY <1>0, <2>2, <2>3, <2>4 DEF Forms
  <2>6. slips' = slips \union (IF boxes = wanted THEN {} ELSE {"contracts"})
                       \union (IF filled THEN {} ELSE {"salary"})
    BY <2>2 DEF Unset
  <2>7. /\ "contracts" \notin slips' => Wanted("contracts", form'["contracts"])
        /\ "salary" \notin slips' => Wanted("salary", form'["salary"])
    BY <1>0, <2>4, <2>5, <2>6 DEF Wanted
  <2>8. at = "contract" /\ UNCHANGED <<kept, asked, shown>>
    BY <1>4 DEF WttjContract
  <2>9. slips \subseteq slips' /\ slips' \subseteq DOMAIN Blank
    BY <1>0, <2>6 DEF Blank
  <2>10. /\ \A f \in {"contracts", "salary"} \ slips' : Wanted(f, form'[f])
         /\ \A f \in FieldAt["wttj"]["contract"] : form'[f] = form[f]
    BY <2>5, <2>7, WttjFields
  <2>11. /\ FieldAt["wttj"]["send"] = FieldAt["wttj"]["contract"] \union {"contracts", "salary"}
         /\ {"contract", "send"} \subseteq DOMAIN FieldAt["wttj"]
    BY WttjFields
  <2> QED
    BY <2>10, <2>11, <1>0, <2>2, <2>5, <2>7, <2>8, <2>9, SectionFilled
<1>5. CASE WttjSend /\ ~(SearchFails /\ kept' \in {kept, form} /\ UNCHANGED <<asked, shown>>)
  <2>0. /\ at = "send"  /\ at' = "results"  /\ tries' = 0  /\ UNCHANGED <<form, slips>>
        /\ kept' = form  /\ asked' = form  /\ shown' = form
    BY <1>5 DEF WttjSend, Goes
  <2>1. FormTypeOK'
    BY <1>0, <2>0 DEF FormTypeOK
  <2>2. ASSUME NEW f \in FieldsOf["wttj"] \ slips  PROVE Wanted(f, asked[f])'
    <3>1. Wanted(f, form[f])
      BY <1>0, <2>0, WttjFields DEF FormInv, Filled, Under
    <3> QED
      BY <1>b, <2>0, <3>1, StaysWanted, WttjFields DEF Blank
  <2>3. FiltersFollowTheSearch'
    BY <1>0, <2>0, <2>2 DEF FiltersFollowTheSearch
  <2> QED
    BY <1>0, <2>0, <2>1, <2>3 DEF FormInv, Filled, Under, StillEmpty, QuerySent
<1> QED
  BY <1>a, <1>1, <1>2, <1>3, <1>4, <1>5
     DEF WttjSearches, WttjOpen, WttjRole, WttjLocation, WttjSend

\* Another search starts from a form that is empty, or will be read from the account.
LEMMA NextFormInv == FormInv /\ NextSearch => FormInv'
<1> SUFFICES ASSUME FormInv, NextSearch PROVE FormInv'
  OBVIOUS
<1>1. Blank \in Forms
  BY DEF Blank, Forms, Texts, Figures
<1>2. FormTypeOK'
  BY <1>1, SearchFormAssumption DEF NextSearch, FormInv, FormTypeOK
<1>3. site' = site /\ site \in {"apec", "hellowork", "wttj"}
  BY SearchFormAssumption DEF NextSearch, FormInv, FormTypeOK
<1>4. at' \in DOMAIN FieldAt[site]  /\ FieldAt[site][at'] = {}  /\ at' \notin {"results", "failed"}
      /\ at' \notin {"panel", "send"}
  BY <1>3 DEF NextSearch, FirstStep, FieldAt
<1>5. form' = Blank
  BY DEF NextSearch
<1>6. Filled'  /\ StillEmpty'  /\ QuerySent'  /\ FiltersFollowTheSearch'
  BY <1>3, <1>4, <1>5 DEF Blank, Filled, StillEmpty, QuerySent, FiltersFollowTheSearch
<1> QED
  BY <1>2, <1>3, <1>4, <1>6 DEF FormInv

LEMMA StepFormInv == FormInv /\ [FormNext]_formVars => FormInv'
<1>1. FormInv /\ UNCHANGED formVars => FormInv'
  <2> SUFFICES ASSUME FormInv, UNCHANGED formVars PROVE FormInv'
    OBVIOUS
  <2>1. /\ UNCHANGED <<site, want>>  /\ UNCHANGED <<ahead, at, tries, form>>
        /\ UNCHANGED <<kept, slips, asked, shown>>
    BY DEF formVars
  <2>2. ASSUME NEW f \in DOMAIN Blank, NEW has, Wanted(f, has)  PROVE Wanted(f, has)'
    BY <2>1, <2>2, StaysWanted
  <2>3. /\ Under => FieldAt[site][at] \subseteq DOMAIN Blank
        /\ FieldsOf[site] \subseteq DOMAIN Blank
    BY ApecFields, HwFields, WttjFields, SearchFormAssumption DEF FormInv, FormTypeOK, Under, Blank
  <2>4. Filled'
    BY <2>1, <2>2, <2>3 DEF FormInv, Filled, Under
  <2>5. QuerySent'
    BY <2>1, <2>2 DEF FormInv, QuerySent, Blank
  <2>6. FiltersFollowTheSearch'
    BY <2>1, <2>2, <2>3 DEF FormInv, FiltersFollowTheSearch
  <2> QED
    BY <2>1, <2>4, <2>5, <2>6 DEF FormInv, FormTypeOK, StillEmpty
<1> QED
  BY <1>1, NextFormInv, ApecFormInv, HwFormInv, WttjFormInv DEF FormNext

\* The form of a search holds values of its fields' types.
THEOREM FormTypes == FormSpec => []FormTypeOK
<1>1. FormInv => FormTypeOK
  BY DEF FormInv
<1> QED
  BY <1>1, InitFormInv, StepFormInv, PTL DEF FormSpec

\* search_jobs and _apply_filters of the three boards: however many searches of an
\* account follow one another, and whichever field, page or attempt failed before, the
\* list a run scrapes was asked for with what this search wants in each field that did
\* not slip.
THEOREM AskedAsWanted == FormSpec => []FiltersFollowTheSearch
<1>1. FormInv => FiltersFollowTheSearch
  BY DEF FormInv
<1> QED
  BY <1>1, InitFormInv, StepFormInv, PTL DEF FormSpec
================================================================================
