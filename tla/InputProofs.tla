----------------------------- MODULE InputProofs -------------------------------
(***************************************************************************)
(* Proofs about Input and Pacing.  They share no state; each has its own   *)
(* inductive invariants and theorems.                                      *)
(***************************************************************************)
EXTENDS Input, Pacing, TLAPS

(***************************************************************************)
(* Input: displays.                                                        *)
(*                                                                         *)
(* A display belongs to the one worker that opened it, from the start of   *)
(* its session until its cleanup, and its browser is on no other: this is  *)
(* what neither property says of a session that is on its way.             *)
(***************************************************************************)
Places == {"idle", "launch", "page", "calibrate", "verify", "ready", "failed", "close"}

Browsers == Displays \union {NoDisplay, Headless}

\* Where the browser of a worker with display d opens.
OpensOn(d) == IF d = NoDisplay THEN Headless ELSE d

Sited ==
    /\ at \in [Boards -> Places]
    /\ display \in [Boards -> Displays \union {NoDisplay}]
    /\ browser \in [Boards -> Browsers]
    /\ mounted \in [Boards -> BOOLEAN]
    /\ servers \subseteq Numbers  /\ borrowed \in BOOLEAN

BrowserOnItsDisplay ==
    \A b \in Boards :
        /\ at[b] \in {"idle", "close"} => display[b] = NoDisplay
        /\ at[b] \in {"idle", "launch"} => browser[b] = NoDisplay
        /\ at[b] = "failed" => browser[b] \in {NoDisplay, OpensOn(display[b])}
        /\ at[b] \in {"page", "calibrate", "verify", "ready"} => browser[b] = OpensOn(display[b])

SteeredWithX ==
    \A b \in Boards :
        /\ at[b] = "calibrate" => display[b] # NoDisplay
        /\ mounted[b] => at[b] \in {"verify", "ready", "failed"}  /\ display[b] # NoDisplay
                         /\ browser[b] = display[b]
        /\ at[b] = "verify" => display[b] # NoDisplay

DisplaysApart ==
    \A b, c \in Boards : b # c /\ display[b] # NoDisplay => display[c] # display[b]

DisplaysAccounted ==
    /\ orphans \subseteq servers
    /\ \A b \in Boards :
          /\ display[b] \in Numbers => display[b] \in servers \ orphans
          /\ display[b] = Screen => borrowed
    /\ \A n \in servers \ orphans : \E b \in Boards : display[b] = n
    /\ borrowed => \E b \in Boards : display[b] = Screen

DisplayInv ==
    Sited /\ BrowserOnItsDisplay /\ SteeredWithX /\ DisplaysApart /\ DisplaysAccounted

(***************************************************************************)
(* Input: clicks and texts.                                                *)
(***************************************************************************)
HandState == [at: {"rest", "aim", "press", "beat", "retry", "focus", "look", "look again", "keys"},
              then: {"rest", "look again"}, again: BOOLEAN, retried: BOOLEAN,
              mark: Nat, presses: Nat, raised: BOOLEAN, left: Nat]

\* How often the button was pressed so far: what NoRepeat bounds, exactly.
PressedSoFar(h) ==
    /\ h.presses <= (IF h.again THEN 2 ELSE 1) + (IF h.raised THEN 1 ELSE 0)
    /\ h.at \in {"aim", "press", "retry", "beat"} => ~h.raised
    /\ h.retried => h.again
    /\ h.at = "aim"   => h.presses = 0  /\ ~h.retried
    /\ h.at = "press" => h.presses = (IF h.retried THEN 1 ELSE 0)
    /\ h.at = "retry" => h.presses = 1  /\ h.again  /\ ~h.retried
    /\ h.at = "beat"  => h.presses = (IF h.retried THEN 2 ELSE 1)

HandInv ==
    /\ hand \in [Boards -> HandState]  /\ strays \in [Boards -> Nat]
    /\ \A b \in Boards : PressedSoFar(hand[b])

\* Without recycled ids, every page steered with the pointer reports its windows, and
\* a window in front came either when no click was looking, or since the press of a
\* click that is about to look.
Reach(b) ==
    /\ ~known[b]
    /\ mounted[b] \/ at[b] = "verify" => b \in listening
    /\ at[b] \notin {"ready", "failed", "close"} => onTop[b]
    /\ mounted[b] /\ ~onTop[b] =>
          \/ at[b] = "failed"  \/ belated[b]
          \/ (hand[b].at = "beat" /\ strays[b] > hand[b].mark)
    /\ hand[b].at = "beat" => strays[b] >= hand[b].mark
    /\ mounted[b] /\ hand[b].at = "keys" => focus[b] = "page" \/ blind[b]
    /\ at[b] # "ready" => hand[b].at = "rest"

ReachTypes ==
    /\ onTop \in [Boards -> BOOLEAN]  /\ belated \in [Boards -> BOOLEAN]
    /\ blind \in [Boards -> BOOLEAN]  /\ known \in [Boards -> BOOLEAN]
    /\ focus \in [Boards -> {"page", "controls", "elsewhere"}]

ReachInv == ReachTypes  /\ \A b \in Boards : Reach(b)

(***************************************************************************)
(* Displays: preservation.                                                 *)
(***************************************************************************)
LEMMA DisplayNames ==
    /\ NoDisplay \notin Displays  /\ Headless \notin Displays  /\ NoDisplay # Headless
    /\ Screen \notin Numbers  /\ NoDisplay # Screen
BY InputAssumption DEF Displays, Screen, NoDisplay, Headless

\* A session begins on a display nobody else has, or on none.
LEMMA BeginSited ==
    ASSUME DisplayInv, NEW b \in Boards, NoScreen(b) \/ Borrow(b) \/ StartServer(b)
    PROVE  DisplayInv'
<1> USE DEF DisplayInv
<1>1. /\ at[b] = "idle"  /\ at' = [at EXCEPT ![b] = "launch"]
      /\ UNCHANGED <<browser, mounted, orphans>>
  BY DEF NoScreen, Borrow, StartServer, Begin, GoTo
<1>2. PICK d \in Displays \union {NoDisplay} :
          /\ display' = [display EXCEPT ![b] = d]
          /\ d \in Numbers => d \notin servers  /\ servers' = servers \union {d}
          /\ d \notin Numbers => servers' = servers
          /\ d = Screen => ~borrowed  /\ borrowed'
          /\ d # Screen => borrowed' = borrowed
  BY DisplayNames DEF NoScreen, Borrow, StartServer, Borrows, MayBorrow, Displays
<1>3. display[b] = NoDisplay  /\ browser[b] = NoDisplay  /\ ~mounted[b]
  BY <1>1 DEF BrowserOnItsDisplay, SteeredWithX
<1>4. Sited'
  BY <1>1, <1>2, DisplayNames DEF Sited, Places, Displays
<1>5. BrowserOnItsDisplay' /\ SteeredWithX'
  BY <1>1, <1>2, <1>3 DEF Sited, BrowserOnItsDisplay, SteeredWithX
<1>6. \A c \in Boards : d # NoDisplay => display[c] # d
  BY <1>2, DisplayNames DEF DisplaysAccounted, Displays
<1>7. DisplaysApart'
  BY <1>2, <1>6 DEF DisplaysApart, Sited
<1>8. DisplaysAccounted'
  <2>1. orphans' \subseteq servers'
    BY <1>1, <1>2 DEF DisplaysAccounted
  <2>2. ASSUME NEW c \in Boards
        PROVE  /\ display'[c] \in Numbers => display'[c] \in servers' \ orphans'
               /\ display'[c] = Screen => borrowed'
    BY <1>1, <1>2, DisplayNames DEF DisplaysAccounted, Sited
  <2>3. ASSUME NEW n \in servers' \ orphans'
        PROVE  \E c \in Boards : display'[c] = n
    <3>1. CASE n \in servers
      <4>1. PICK c \in Boards : display[c] = n
        BY <1>1, <2>3, <3>1 DEF DisplaysAccounted
      <4>2. c # b
        BY <1>3, <3>1, <4>1, DisplayNames DEF Sited, Displays
      <4> QED
        BY <1>2, <4>1, <4>2 DEF Sited
    <3>2. CASE n \notin servers
      BY <1>2, <2>3, <3>2 DEF Sited
    <3> QED
      BY <3>1, <3>2
  <2>4. ASSUME borrowed'
        PROVE  \E c \in Boards : display'[c] = Screen
    <3>1. CASE d = Screen
      BY <1>2, <3>1 DEF Sited
    <3>2. CASE d # Screen
      <4>1. PICK c \in Boards : display[c] = Screen
        BY <1>2, <2>4, <3>2 DEF DisplaysAccounted
      <4>2. c # b
        BY <1>3, <4>1, DisplayNames
      <4> QED
        BY <1>2, <4>1, <4>2 DEF Sited
    <3> QED
      BY <3>1, <3>2
  <2> QED
    BY <2>1, <2>2, <2>3, <2>4 DEF DisplaysAccounted
<1> QED
  BY <1>4, <1>5, <1>7, <1>8

\* The cleanup gives back the worker's own display, which is nobody else's.
LEMMA CloseSited ==
    ASSUME DisplayInv, NEW b \in Boards, CloseDisplay(b)
    PROVE  DisplayInv'
<1> USE DEF DisplayInv
<1>1. /\ at' = [at EXCEPT ![b] = "close"]  /\ mounted' = [mounted EXCEPT ![b] = FALSE]
      /\ display' = [display EXCEPT ![b] = NoDisplay]
      /\ servers' = servers \ {display[b]}  /\ borrowed' = (borrowed /\ display[b] # Screen)
      /\ UNCHANGED <<orphans, browser>>
  BY DEF CloseDisplay, GoTo, Stop
<1>2. Sited'
  BY <1>1 DEF Sited, Places
<1>3. BrowserOnItsDisplay' /\ SteeredWithX'
  BY <1>1 DEF Sited, BrowserOnItsDisplay, SteeredWithX
<1>4. DisplaysApart'
  BY <1>1 DEF Sited, DisplaysApart
<1>5. \A c \in Boards \ {b} : display'[c] = display[c]
                              /\ (display[c] # NoDisplay => display[c] # display[b])
  BY <1>1 DEF Sited, DisplaysApart
<1>6. display'[b] = NoDisplay  /\ NoDisplay \notin Numbers  /\ NoDisplay # Screen
  BY <1>1, DisplayNames DEF Sited, Displays
<1>7. orphans' \subseteq servers'
  BY <1>1, DisplayNames DEF DisplaysAccounted, Sited, Displays
<1>8. ASSUME NEW c \in Boards
      PROVE  /\ display'[c] \in Numbers => display'[c] \in servers' \ orphans'
             /\ display'[c] = Screen => borrowed'
  <2>1. CASE c = b
    BY <1>6, <2>1
  <2>2. CASE c # b
    <3>1. display'[c] = display[c]  /\ (display[c] # NoDisplay => display[c] # display[b])
      BY <1>5, <2>2
    <3>2. display[c] \in Numbers => display[c] \in servers \ orphans
      BY DEF DisplaysAccounted
    <3>3. display[c] = Screen => borrowed
      BY DEF DisplaysAccounted
    <3>4. display'[c] \in Numbers => display'[c] \in servers' \ orphans'
      BY <1>1, <1>6, <3>1, <3>2
    <3>5. display[c] = Screen => borrowed'
      BY <1>1, <1>6, <3>1, <3>3
    <3> QED
      BY <3>1, <3>4, <3>5
  <2> QED
    BY <2>1, <2>2
<1>9. ASSUME NEW n \in servers' \ orphans'
      PROVE  \E c \in Boards : display'[c] = n
  <2>1. PICK c \in Boards : display[c] = n
    BY <1>1, <1>9 DEF DisplaysAccounted
  <2>2. c # b
    BY <1>1, <1>9, <2>1
  <2> QED
    BY <1>5, <2>1, <2>2
<1>10. ASSUME borrowed'
       PROVE  \E c \in Boards : display'[c] = Screen
  <2>1. PICK c \in Boards : display[c] = Screen
    BY <1>1, <1>10 DEF DisplaysAccounted
  <2>2. c # b
    BY <1>1, <1>10, <2>1
  <2> QED
    BY <1>5, <2>1, <2>2
<1> QED
  BY <1>2, <1>3, <1>4, <1>7, <1>8, <1>9, <1>10 DEF DisplaysAccounted

\* In between, a worker's browser opens on its display and its page is mounted there.
LEMMA SessionSited ==
    ASSUME DisplayInv, NEW b \in Boards,
           \/ Launch(b)  \/ OpenPage(b)  \/ NotCalibrated(b)  \/ Mount(b)  \/ Verify(b)
           \/ SessionFails(b)  \/ CloseBrowser(b)
    PROVE  DisplayInv'
<1> USE DEF DisplayInv
<1>1. UNCHANGED <<display, servers, orphans, borrowed>>
  BY DEF Launch, OpenPage, NotCalibrated, Mount, Verify, SessionFails, CloseBrowser, screens,
         session
<1>2. DisplaysApart' /\ DisplaysAccounted'
  BY <1>1 DEF DisplaysApart, DisplaysAccounted
<1>3. Sited' /\ BrowserOnItsDisplay' /\ SteeredWithX'
  <2> USE DEF Sited, BrowserOnItsDisplay, SteeredWithX, GoTo
  <2>1. CASE Launch(b)
    BY <1>1, <2>1 DEF Launch, OpensOn, Places, Browsers
  <2>2. CASE OpenPage(b)
    BY <1>1, <2>2 DEF OpenPage, Places
  <2>3. CASE NotCalibrated(b)
    BY <1>1, <2>3 DEF NotCalibrated, Places, session, windows, touch
  <2>4. CASE Mount(b)
    BY <1>1, <2>4 DEF Mount, Places, OpensOn
  <2>5. CASE Verify(b)
    BY <1>1, <2>5 DEF Verify, Places, OpensOn
  <2>6. CASE SessionFails(b)
    BY <1>1, <2>6 DEF SessionFails, Places
  <2>7. CASE CloseBrowser(b)
    BY <1>1, <2>7 DEF CloseBrowser, Places, Browsers
  <2> QED
    BY <2>1, <2>2, <2>3, <2>4, <2>5, <2>6, <2>7
<1> QED
  BY <1>2, <1>3

LEMMA CrashSited ==
    ASSUME DisplayInv, Crash
    PROVE  DisplayInv'
<1>1. /\ \A b \in Boards : at'[b] = "idle"  /\ display'[b] = NoDisplay
                           /\ browser'[b] = NoDisplay  /\ mounted'[b] = FALSE
      /\ orphans' = servers  /\ servers' = servers  /\ borrowed' = FALSE
  BY DEF Crash, Each
<1>2. Sited'
  BY DEF DisplayInv, Sited, Crash, Each, Places, Browsers
<1>3. BrowserOnItsDisplay' /\ SteeredWithX' /\ DisplaysApart'
  BY <1>1 DEF BrowserOnItsDisplay, SteeredWithX, DisplaysApart
<1>4. DisplaysAccounted'
  BY <1>1, DisplayNames DEF DisplaysAccounted, Displays
<1> QED
  BY <1>2, <1>3, <1>4 DEF DisplayInv

LEMMA GestureSited ==
    ASSUME NEW b \in Boards, Gesture(b)
    PROVE  UNCHANGED <<setting, screens, session, count>>
BY DEF Gesture, BeginClick, Aim, Press, PressRaises, Check, Retry, WindowOpens, BeginText, FocusWindow,
       LookFirst, LookAgain, Look, Key, FocusLeaves, Elsewhere

LEMMA InitSited == Init => DisplayInv
<1> SUFFICES ASSUME Init  PROVE DisplayInv
  OBVIOUS
<1>1. /\ \A b \in Boards : at[b] = "idle"  /\ display[b] = NoDisplay
                           /\ browser[b] = NoDisplay  /\ mounted[b] = FALSE
      /\ orphans = {}  /\ servers = {}  /\ borrowed = FALSE
  BY DEF Init, Each
<1>2. Sited
  BY DEF Sited, Init, Each, Places, Browsers
<1>3. BrowserOnItsDisplay /\ SteeredWithX /\ DisplaysApart
  BY <1>1 DEF BrowserOnItsDisplay, SteeredWithX, DisplaysApart
<1>4. DisplaysAccounted
  BY <1>1, DisplayNames DEF DisplaysAccounted, Displays
<1> QED
  BY <1>2, <1>3, <1>4 DEF DisplayInv

LEMMA StepSited == DisplayInv /\ [Next]_vars => DisplayInv'
<1> SUFFICES ASSUME DisplayInv, [Next]_vars  PROVE DisplayInv'
  OBVIOUS
<1>1. ASSUME UNCHANGED <<screens, session>>  PROVE DisplayInv'
  BY <1>1 DEF screens, session, DisplayInv, Sited, BrowserOnItsDisplay, SteeredWithX,
              DisplaysApart, DisplaysAccounted
<1>2. ASSUME NEW b \in Boards, Gesture(b)  PROVE DisplayInv'
  BY <1>1, <1>2, GestureSited
<1>3. ASSUME NEW b \in Boards, Session(b)  PROVE DisplayInv'
  BY <1>3, BeginSited, SessionSited, CloseSited DEF Session
<1> QED
  BY <1>1, <1>2, <1>3, CrashSited DEF Next, vars

LEMMA DisplaysAlways == Spec => []DisplayInv
BY InitSited, StepSited, PTL DEF Spec

\* display.py: where a worker has the X pointer, no other browser is on the display,
\* but one whose cleanup is under way; for any boards, numbers and crashes.
THEOREM PointersApart == Spec => []OnePointerPerDisplay
<1>1. DisplayInv => OnePointerPerDisplay
  <2> SUFFICES ASSUME DisplayInv, NEW b \in Boards, NEW c \in Boards, b # c, mounted[b],
                      browser[c] = browser[b], at[c] # "close"
               PROVE  FALSE
    BY DEF OnePointerPerDisplay
  <2> USE DEF DisplayInv
  <2>1. browser[b] = display[b]  /\ display[b] \in Displays
    BY DEF SteeredWithX, Sited
  <2>2. browser[c] = display[c]
    BY <2>1, DisplayNames DEF BrowserOnItsDisplay, OpensOn, Sited, Places
  <2> QED
    BY <2>1, <2>2, DisplayNames DEF DisplaysApart
<1> QED
  BY <1>1, DisplaysAlways, PTL

\* stop_display: whichever await a session failed at, once all have been cleaned up no
\* server of this process runs and the borrowed screen is free.
THEOREM DisplaysComeBack == Spec => []ScreensAreReturned
<1>1. DisplayInv => ScreensAreReturned
  BY DisplayNames
     DEF DisplayInv, ScreensAreReturned, BrowserOnItsDisplay, DisplaysAccounted, Sited, Displays
<1> QED
  BY <1>1, DisplaysAlways, PTL

(***************************************************************************)
(* Clicks and texts: preservation.                                         *)
(***************************************************************************)
LEMMA RestIsAHand ==
    /\ AtRest \in HandState  /\ PressedSoFar(AtRest)  /\ RecoveryClick \in HandState
    /\ PressedSoFar(RecoveryClick)  /\ AtRest.at = "rest"
<1>1. AtRest \in HandState  /\ AtRest.at = "rest"
  BY DEF AtRest, HandState
<1>2. PressedSoFar(AtRest)
  BY DEF AtRest, PressedSoFar
<1>3. RecoveryClick \in HandState
  BY DEF AtRest, RecoveryClick, HandState
<1>4. PressedSoFar(RecoveryClick)
  BY DEF AtRest, RecoveryClick, PressedSoFar
<1> QED
  BY <1>1, <1>2, <1>3, <1>4

\* A worker's hand turns to another place.
LEMMA HandMoves ==
    ASSUME HandInv, NEW b \in Boards, NEW h \in HandState, PressedSoFar(h), Do(b, h),
           strays' \in [Boards -> Nat]
    PROVE  HandInv'
BY DEF HandInv, Do

\* A click or a text goes on; a press comes only after aiming or for the one retry.
LEMMA HandTurns ==
    ASSUME HandInv, NEW b \in Boards, NEW s \in {"press", "look", "look again", "retry", "rest"},
           Hand(b, s), strays' \in [Boards -> Nat],
           s = "press" => hand[b].at = "aim",
           s = "retry" => hand[b].at = "beat"  /\ hand[b].again  /\ ~hand[b].retried
    PROVE  HandInv'
<1> DEFINE h == hand[b]
<1>1. h \in HandState  /\ PressedSoFar(h)
  BY DEF HandInv
<1>2. [h EXCEPT !.at = s] \in HandState
  BY <1>1 DEF HandState
<1>3. PressedSoFar([h EXCEPT !.at = s])
  BY <1>1 DEF PressedSoFar, HandState
<1> QED
  BY <1>2, <1>3, HandMoves DEF Hand

\* locator.click() ends the click.
LEMMA PlainClickEnds ==
    ASSUME HandInv, NEW b \in Boards, PlainClick(b), hand[b].at \in {"aim", "retry"},
           strays' \in [Boards -> Nat]
    PROVE  HandInv'
<1> DEFINE h == hand[b]
<1>1. h \in HandState  /\ PressedSoFar(h)
  BY DEF HandInv
<1>2. /\ h.then \in {"rest", "look again"}  /\ h.presses \in Nat
      /\ h.again \in BOOLEAN  /\ h.retried \in BOOLEAN
  BY <1>1 DEF HandState
<1>3. PICK n \in Nat : h.presses = n
  BY <1>2
<1> DEFINE p == n + 1
           k == [h EXCEPT !.at = h.then, !.presses = p]
<1>4. p \in Nat  /\ p <= (IF h.again THEN 2 ELSE 1)  /\ (h.retried => h.again)  /\ h.raised = FALSE
  <2>1. (h.retried => h.again)  /\ (n = 0 \/ (n = 1 /\ h.again))
    BY <1>1, <1>3 DEF PressedSoFar
  <2>2. h.raised = FALSE
    BY <1>1 DEF PressedSoFar, HandState
  <2> QED
    BY <2>1, <2>2
<1> HIDE DEF p
<1>5. k \in HandState  /\ k.at = h.then  /\ k.presses = p  /\ k.again = h.again
      /\ k.retried = h.retried  /\ k.raised = h.raised
  BY <1>1, <1>2, <1>4 DEF HandState
<1>6. Do(b, k)
  BY <1>1, <1>3 DEF PlainClick, HandState, p
<1> HIDE DEF k, p
<1>7. PressedSoFar(k)
  <2>0. ~k.raised
    BY <1>4, <1>5
  <2>1. k.presses <= (IF k.again THEN 2 ELSE 1) + (IF k.raised THEN 1 ELSE 0)
    BY <1>4, <1>5, <2>0
  <2>2. (k.retried => k.again)  /\ k.at \in {"rest", "look again"}
    BY <1>2, <1>4, <1>5
  <2> QED
    BY <2>1, <2>2 DEF PressedSoFar
<1> QED
  BY <1>5, <1>6, <1>7, HandMoves

LEMMA ClickHands ==
    ASSUME HandInv, NEW b \in Boards,
           Aim(b) \/ Press(b) \/ PressRaises(b) \/ Check(b) \/ Retry(b)
    PROVE  HandInv'
<1> DEFINE h == hand[b]
<1>1. h \in HandState  /\ PressedSoFar(h)  /\ strays[b] \in Nat
  BY DEF HandInv
<1>2. h.then \in {"rest", "look again"}  /\ h.mark \in Nat
  BY <1>1 DEF HandState
<1>3. strays' \in [Boards -> Nat]
  BY <1>2 DEF HandInv, Aim, Press, PressRaises, Check, Retry, windows
<1>4. CASE Aim(b)
  <2>1. h.at = "aim"  /\ (Hand(b, "press") \/ PlainClick(b) \/ Hand(b, "look again"))
    BY <1>4 DEF Aim, Ready
  <2> QED
    BY <1>3, <2>1, HandTurns, PlainClickEnds
<1>5. CASE Press(b)
  <2>0. h.presses \in Nat  /\ h.again \in BOOLEAN  /\ h.retried \in BOOLEAN
    BY <1>1 DEF HandState
  <2>n. PICK n \in Nat : h.presses = n
    BY <2>0
  <2> DEFINE p == n + 1
             k == [h EXCEPT !.at = "beat", !.mark = strays[b], !.presses = p]
  <2>1. h.at = "press"  /\ Do(b, k)
    BY <1>1, <1>5, <2>n DEF Press, Ready, HandState
  <2>2. p \in Nat
    OBVIOUS
  <2> HIDE DEF p
  <2>3. k \in HandState  /\ k.at = "beat"  /\ k.presses = p  /\ k.again = h.again
        /\ k.retried = h.retried  /\ k.raised = h.raised
    BY <1>1, <2>2 DEF HandState
  <2>4. p = (IF h.retried THEN 2 ELSE 1)  /\ (h.retried => h.again)  /\ ~h.raised
    BY <1>1, <2>0, <2>n, <2>1 DEF PressedSoFar, p
  <2> HIDE DEF k
  <2>5. PressedSoFar(k)
    BY <2>0, <2>3, <2>4 DEF PressedSoFar
  <2> QED
    BY <1>3, <2>1, <2>3, <2>5, HandMoves
<1>6. CASE Check(b)
  <2>1. /\ h.at = "beat"
        /\ \/ Hand(b, "retry")  /\ h.again  /\ ~h.retried
           \/ Hand(b, h.then)
    BY <1>6 DEF Check, Repeats, Ready
  <2> QED
    BY <1>2, <1>3, <2>1, HandTurns
<1>7. CASE Retry(b)
  <2>1. /\ h.at = "retry"
        /\ \/ Do(b, [h EXCEPT !.at = "press", !.retried = TRUE])
           \/ Hand(b, h.then)
           \/ PlainClick(b)
    BY <1>7 DEF Retry, Ready
  <2>2. ASSUME Do(b, [h EXCEPT !.at = "press", !.retried = TRUE])
        PROVE  HandInv'
    <3> DEFINE k == [h EXCEPT !.at = "press", !.retried = TRUE]
    <3>0. h.presses = 1  /\ h.again  /\ ~h.raised
      BY <1>1, <2>1 DEF PressedSoFar
    <3>1. k \in HandState  /\ k.at = "press"  /\ k.presses = h.presses  /\ k.again = h.again
          /\ k.retried = TRUE  /\ k.raised = h.raised
      BY <1>1 DEF HandState
    <3> HIDE DEF k
    <3>2. PressedSoFar(k)
      BY <3>0, <3>1 DEF PressedSoFar
    <3> QED
      BY <1>3, <2>2, <3>1, <3>2, HandMoves DEF k
  <2> QED
    BY <1>2, <1>3, <2>1, <2>2, HandTurns, PlainClickEnds
<1>8. CASE PressRaises(b)
  <2>0. h.presses \in Nat  /\ h.again \in BOOLEAN  /\ h.retried \in BOOLEAN
    BY <1>1 DEF HandState
  <2>n. PICK n \in Nat : h.presses = n
    BY <2>0
  <2>1. PICK out \in BOOLEAN :
           Do(b, [h EXCEPT !.at = h.then, !.raised = out,
                           !.presses = @ + (IF out THEN 1 ELSE 0)
                                         + (IF h.then = "rest" THEN 1 ELSE 0)])
    BY <1>8 DEF PressRaises
  <2> DEFINE p == n + (IF out THEN 1 ELSE 0) + (IF h.then = "rest" THEN 1 ELSE 0)
             k == [h EXCEPT !.at = h.then, !.raised = out, !.presses = p]
  <2>2. Do(b, k)
    BY <1>1, <2>n, <2>1 DEF HandState
  <2>3. /\ p \in Nat  /\ (h.retried => h.again)
        /\ p <= (IF h.again THEN 2 ELSE 1) + (IF out THEN 1 ELSE 0)
    <3>1. n = (IF h.retried THEN 1 ELSE 0)  /\ (h.retried => h.again)
      BY <1>1, <1>8, <2>n DEF PressedSoFar, PressRaises, Ready
    <3> QED
      BY <2>0, <3>1
  <2> HIDE DEF p
  <2>4. k \in HandState  /\ k.at = h.then  /\ k.presses = p  /\ k.again = h.again
        /\ k.retried = h.retried  /\ k.raised = out
    BY <1>1, <1>2, <2>3 DEF HandState
  <2> HIDE DEF k
  <2>5. PressedSoFar(k)
    BY <1>2, <2>3, <2>4 DEF PressedSoFar
  <2> QED
    BY <1>3, <2>2, <2>4, <2>5, HandMoves
<1> QED
  BY <1>4, <1>5, <1>6, <1>7, <1>8

\* A click or a text begins, and a text goes on: from an empty hand.
LEMMA TextHands ==
    ASSUME HandInv, NEW b \in Boards,
           \/ \E again \in BOOLEAN : BeginClick(b, again)
           \/ BeginText(b)  \/ FocusWindow(b)  \/ LookFirst(b)  \/ LookAgain(b)  \/ Key(b)
    PROVE  HandInv'
<1> DEFINE h == hand[b]
           Aims(again) == [AtRest EXCEPT !.at = "aim", !.again = again]
           Types == [AtRest EXCEPT !.at = "keys", !.left = TextLength]
           Focuses == [AtRest EXCEPT !.at = "focus"]
<1>1. h \in HandState  /\ PressedSoFar(h)
  BY DEF HandInv
<1>l. h.left \in Nat
  BY <1>1 DEF HandState
<1>n. PICK n \in Nat : h.left = n
  BY <1>l
<1> DEFINE Goes == [h EXCEPT !.left = n - 1]
<1>2. strays' \in [Boards -> Nat]
  BY DEF HandInv, BeginClick, BeginText, FocusWindow, LookFirst, LookAgain, Look, Key, windows
<1>3. \A again \in BOOLEAN : Aims(again) \in HandState  /\ PressedSoFar(Aims(again))
  <2>1. \A again \in BOOLEAN : Aims(again) \in HandState
    BY DEF AtRest, HandState
  <2>2. \A again \in BOOLEAN : PressedSoFar(Aims(again))
    BY DEF AtRest, PressedSoFar
  <2> QED
    BY <2>1, <2>2
<1>4. Types \in HandState  /\ Focuses \in HandState  /\ PressedSoFar(Types)
      /\ PressedSoFar(Focuses)
  <2>1. Types \in HandState
    BY InputAssumption DEF AtRest, HandState
  <2>2. Focuses \in HandState
    BY DEF AtRest, HandState
  <2>3. PressedSoFar(Types)
    BY DEF AtRest, PressedSoFar
  <2>4. PressedSoFar(Focuses)
    BY DEF AtRest, PressedSoFar
  <2> QED
    BY <2>1, <2>2, <2>3, <2>4
<1>5. ASSUME h.left > 1
      PROVE  Goes \in HandState  /\ PressedSoFar(Goes)
  <2>1. n - 1 \in Nat
    BY <1>n, <1>5
  <2>2. Goes \in HandState
    BY <1>1, <2>1 DEF HandState
  <2>3. Goes.at = h.at  /\ Goes.presses = h.presses  /\ Goes.again = h.again
        /\ Goes.retried = h.retried  /\ Goes.raised = h.raised
    BY <1>1 DEF HandState
  <2> HIDE DEF Goes
  <2>4. PressedSoFar(Goes)
    BY <1>1, <2>3 DEF PressedSoFar
  <2> QED
    BY <2>2, <2>4
<1>6. CASE \E again \in BOOLEAN : BeginClick(b, again)
  BY <1>2, <1>3, <1>6, HandMoves DEF BeginClick
<1>7. CASE FocusWindow(b)
  BY <1>2, <1>7, HandTurns DEF FocusWindow
<1>8. CASE BeginText(b) \/ LookFirst(b) \/ LookAgain(b)
  <2>1. Do(b, Types) \/ Do(b, Focuses) \/ Do(b, RecoveryClick) \/ Do(b, AtRest)
    BY <1>8 DEF BeginText, LookFirst, LookAgain, Look, StartKeys, Refusal
  <2> QED
    BY <1>2, <1>4, <2>1, RestIsAHand, HandMoves
<1>9. CASE Key(b)
  <2>1. (h.left > 1 /\ Do(b, Goes)) \/ Do(b, AtRest)
    BY <1>1, <1>n, <1>9 DEF Key, HandState
  <2> QED
    BY <1>2, <1>5, <2>1, RestIsAHand, HandMoves
<1> QED
  BY <1>6, <1>7, <1>8, <1>9

\* The session around it drops the click or text under way, or leaves it alone.
LEMMA SessionHands ==
    ASSUME HandInv, NEW b \in Boards,
           Session(b) \/ WindowOpens(b) \/ FocusLeaves(b)
    PROVE  HandInv'
<1>1. strays' \in [Boards -> Nat]
  BY DEF HandInv, Session, NoScreen, Borrow, StartServer, Begin, Launch, OpenPage, NotCalibrated,
         Mount, Verify, SessionFails, CloseDisplay, CloseBrowser, WindowOpens, FocusLeaves, windows
<1>2. hand' = hand \/ hand' = [hand EXCEPT ![b] = AtRest]
  BY DEF Session, NoScreen, Borrow, StartServer, Begin, Launch, OpenPage, NotCalibrated, Mount,
         Verify, SessionFails, CloseDisplay, CloseBrowser, WindowOpens, FocusLeaves, touch
<1> QED
  BY <1>1, <1>2, RestIsAHand DEF HandInv

LEMMA InitHands == Init => HandInv
BY RestIsAHand DEF Init, HandInv, Each

LEMMA StepHands == HandInv /\ [Next]_vars => HandInv'
<1>1. HandInv /\ Crash => HandInv'
  BY RestIsAHand DEF HandInv, Crash, Each
<1>2. HandInv /\ UNCHANGED vars => HandInv'
  BY DEF HandInv, vars, windows, touch
<1> QED
  BY <1>1, <1>2, ClickHands, TextHands, SessionHands DEF Next, Gesture

LEMMA HandsAlways == Spec => []HandInv
BY InitHands, StepHands, PTL DEF Spec

\* human_click and human_hover_and_click: a click that must not happen twice is pressed
\* once, any other at most twice, whichever windows open and whichever step before or
\* after a press fails; one time more only where the pressing raised with the press out.
THEOREM PressedOnce == Spec => []NoRepeat
<1>1. HandInv => NoRepeat
  BY DEF HandInv, PressedSoFar, NoRepeat
<1> QED
  BY <1>1, HandsAlways, PTL

(***************************************************************************)
(* What the pointer and the keys reach: preservation.                      *)
(***************************************************************************)
Untouched(b) ==
    /\ at'[b] = at[b]  /\ known'[b] = known[b]  /\ mounted'[b] = mounted[b]
    /\ hand'[b] = hand[b]  /\ strays'[b] = strays[b]  /\ onTop'[b] = onTop[b]
    /\ belated'[b] = belated[b]  /\ blind'[b] = blind[b]  /\ focus'[b] = focus[b]
    /\ b \in listening' <=> b \in listening

LEMMA ReachOfOne ==
    ASSUME ReachInv, ReachTypes', NEW b \in Boards, Reach(b)',
           \A c \in Boards \ {b} : Untouched(c)
    PROVE  ReachInv'
BY DEF ReachInv, Reach, Untouched

Steered == DisplayInv /\ HandInv /\ ReachInv

LEMMA SessionReach ==
    ASSUME Steered, ~Recycled, NEW b \in Boards, Session(b)
    PROVE  ReachInv'
<1>0. /\ Reach(b)  /\ hand \in [Boards -> HandState]  /\ AtRest.at = "rest"
      /\ at \in [Boards -> Places]  /\ mounted \in [Boards -> BOOLEAN]
      /\ display \in [Boards -> Displays \union {NoDisplay}]
      /\ strays \in [Boards -> Nat]
      /\ mounted[b] => at[b] \in {"verify", "ready", "failed"}
  BY RestIsAHand DEF Steered, ReachInv, HandInv, DisplayInv, Sited, SteeredWithX
<1>1. ReachTypes
  BY DEF Steered, ReachInv
<1> USE DEF GoTo
<1>2. CASE NoScreen(b) \/ Borrow(b) \/ StartServer(b) \/ Launch(b) \/ NotCalibrated(b)
  <2>1. /\ UNCHANGED <<known, mounted, hand, strays, onTop, belated, blind, focus, listening>>
        /\ \A c \in Boards \ {b} : at'[c] = at[c]
        /\ at[b] \in {"idle", "launch", "calibrate"}
        /\ at'[b] \in {"launch", "page", "ready"}
    BY <1>0, <1>2 DEF NoScreen, Borrow, StartServer, Begin, Launch, NotCalibrated, windows, touch
  <2>2. ReachTypes'  /\ \A c \in Boards \ {b} : Untouched(c)
    BY <1>1, <2>1 DEF ReachTypes, Untouched
  <2>3. Reach(b)'
    BY <1>0, <2>1 DEF Reach
  <2> QED
    BY <2>2, <2>3, ReachOfOne DEF Steered
<1>3. CASE OpenPage(b)
  <2>1. /\ UNCHANGED <<mounted, hand, strays, onTop, belated, blind, focus, listening>>
        /\ known' = [known EXCEPT ![b] = FALSE]
        /\ \A c \in Boards \ {b} : at'[c] = at[c]
        /\ at[b] = "page"  /\ at'[b] \in {"calibrate", "ready"}
    BY <1>0, <1>3 DEF OpenPage, windows, touch
  <2>2. ReachTypes'  /\ \A c \in Boards \ {b} : Untouched(c)
    BY <1>1, <2>1 DEF ReachTypes, Untouched
  <2>3. Reach(b)'
    BY <1>0, <1>1, <2>1 DEF Reach, ReachTypes
  <2> QED
    BY <2>2, <2>3, ReachOfOne DEF Steered
<1>4. CASE Mount(b)
  <2>1. /\ UNCHANGED <<known, hand, strays, onTop, belated, blind, focus>>
        /\ mounted' = [mounted EXCEPT ![b] = TRUE]  /\ listening' = listening \union {b}
        /\ at' = [at EXCEPT ![b] = "verify"]  /\ at[b] = "calibrate"
    BY <1>0, <1>4 DEF Mount, WatchForStrayPages, Reach, touch
  <2>2. ReachTypes'  /\ \A c \in Boards \ {b} : Untouched(c)
    BY <1>0, <1>1, <2>1 DEF ReachTypes, Untouched
  <2>3. Reach(b)'
    BY <1>0, <2>1 DEF Reach
  <2> QED
    BY <2>2, <2>3, ReachOfOne DEF Steered
<1>5. CASE Verify(b)
  <2>1. /\ UNCHANGED <<known, hand, strays, onTop, belated, blind, focus, listening>>
        /\ \A c \in Boards \ {b} : at'[c] = at[c] /\ mounted'[c] = mounted[c]
        /\ at'[b] = "ready"  /\ at[b] = "verify"
    BY <1>0, <1>5 DEF Verify, windows, touch
  <2>2. ReachTypes'  /\ \A c \in Boards \ {b} : Untouched(c)
    BY <1>0, <1>1, <2>1 DEF ReachTypes, Untouched
  <2>3. Reach(b)'
    BY <1>0, <2>1 DEF Reach
  <2> QED
    BY <2>2, <2>3, ReachOfOne DEF Steered
<1>6. CASE SessionFails(b)
  <2>1. /\ UNCHANGED <<known, mounted, strays, onTop, belated, blind, focus, listening>>
        /\ hand' = [hand EXCEPT ![b] = AtRest]  /\ at' = [at EXCEPT ![b] = "failed"]
    BY <1>0, <1>6 DEF SessionFails, windows
  <2>2. ReachTypes'  /\ \A c \in Boards \ {b} : Untouched(c)
    BY <1>0, <1>1, <2>1 DEF ReachTypes, Untouched
  <2>3. Reach(b)'
    BY <1>0, <2>1 DEF Reach
  <2> QED
    BY <2>2, <2>3, ReachOfOne DEF Steered
<1>7. CASE CloseDisplay(b)
  <2>1. /\ UNCHANGED <<known, strays, onTop, belated, blind, focus, listening>>
        /\ hand' = [hand EXCEPT ![b] = AtRest]  /\ at' = [at EXCEPT ![b] = "close"]
        /\ mounted' = [mounted EXCEPT ![b] = FALSE]
    BY <1>0, <1>7 DEF CloseDisplay, windows
  <2>2. ReachTypes'  /\ \A c \in Boards \ {b} : Untouched(c)
    BY <1>0, <1>1, <2>1 DEF ReachTypes, Untouched
  <2>3. Reach(b)'
    BY <1>0, <2>1 DEF Reach
  <2> QED
    BY <2>2, <2>3, ReachOfOne DEF Steered
<1>8. CASE CloseBrowser(b)
  <2>1. /\ UNCHANGED <<mounted, hand>>  /\ at[b] = "close"
        /\ at' = [at EXCEPT ![b] = "idle"]  /\ known' = [known EXCEPT ![b] = FALSE]
        /\ listening' = listening \ {b}  /\ strays' = [strays EXCEPT ![b] = 0]
        /\ onTop' = [onTop EXCEPT ![b] = TRUE]  /\ focus' = [focus EXCEPT ![b] = "page"]
        /\ belated' = [belated EXCEPT ![b] = FALSE]  /\ blind' = [blind EXCEPT ![b] = FALSE]
    BY <1>8 DEF CloseBrowser
  <2>2. ReachTypes'  /\ \A c \in Boards \ {b} : Untouched(c)
    BY <1>0, <1>1, <2>1 DEF ReachTypes, Untouched
  <2>3. Reach(b)'
    BY <1>0, <1>1, <2>1 DEF Reach, ReachTypes
  <2> QED
    BY <2>2, <2>3, ReachOfOne DEF Steered
<1> QED
  BY <1>2, <1>3, <1>4, <1>5, <1>6, <1>7, <1>8 DEF Session

LEMMA GestureReach ==
    ASSUME Steered, NEW b \in Boards, Gesture(b)
    PROVE  ReachInv'
<1> DEFINE h == hand[b]
<1>0. /\ Reach(b)  /\ hand \in [Boards -> HandState]  /\ h \in HandState
      /\ strays \in [Boards -> Nat]  /\ strays[b] \in Nat  /\ h.mark \in Nat
      /\ h.then \in {"rest", "look again"}  /\ at[b] = "ready"
  <2>1. h \in HandState /\ strays[b] \in Nat
    BY DEF Steered, HandInv
  <2>2. at[b] = "ready"
    BY DEF Gesture, BeginClick, Aim, Press, PressRaises, Check, Retry, WindowOpens, BeginText, FocusWindow,
           LookFirst, LookAgain, Look, Key, FocusLeaves, Ready
  <2> QED
    BY <2>1, <2>2 DEF Steered, ReachInv, HandInv, HandState
<1>1. ReachTypes
  BY DEF Steered, ReachInv
<1>2. /\ UNCHANGED <<at, known, mounted, listening>>
      /\ b \in Clickers
  BY DEF Gesture, BeginClick, Aim, Press, PressRaises, Check, Retry, WindowOpens, BeginText, FocusWindow,
         LookFirst, LookAgain, Look, Key, FocusLeaves, Elsewhere, session, windows, Ready
<1>3. ASSUME UNCHANGED <<strays, onTop, belated, blind, focus>>,
             NEW k, Do(b, k), k.at \notin {"beat", "keys"}, h.at # "beat"
      PROVE  ReachInv'
  <2>1. ReachTypes'  /\ \A c \in Boards \ {b} : Untouched(c)
    BY <1>0, <1>1, <1>2, <1>3 DEF ReachTypes, Untouched, Do
  <2>2. hand'[b] = k
    BY <1>0, <1>3 DEF Do
  <2>3. Reach(b)'
    BY <1>0, <1>2, <1>3, <2>2 DEF Reach
  <2> QED
    BY <2>1, <2>3, ReachOfOne DEF Steered
<1>4. \A s : [h EXCEPT !.at = s].at = s
  BY <1>0 DEF HandState
<1>5. CASE \E again \in BOOLEAN : BeginClick(b, again)
  <2>1. PICK again \in BOOLEAN : BeginClick(b, again)
    BY <1>5
  <2> DEFINE k == [AtRest EXCEPT !.at = "aim", !.again = again]
  <2>2. k.at = "aim"
    BY DEF AtRest
  <2> QED
    BY <1>3, <2>1, <2>2 DEF BeginClick, Ready, windows
<1>6. CASE Aim(b) \/ Retry(b)
  <2> DEFINE click == [h EXCEPT !.at = h.then, !.presses = @ + 1]
             retry == [h EXCEPT !.at = "press", !.retried = TRUE]
  <2>1. click.at = h.then  /\ retry.at = "press"
    BY <1>0 DEF HandState
  <2>2. UNCHANGED <<strays, onTop, belated, blind, focus>>  /\ h.at # "beat"
    BY <1>6 DEF Aim, Retry, Ready, windows
  <2>3. Do(b, click) \/ Do(b, retry) \/ Hand(b, "press") \/ Hand(b, "look again")
        \/ Hand(b, h.then)
    BY <1>6 DEF Aim, Retry, PlainClick
  <2>4. ASSUME NEW s \in {"press", "look again", "rest"}, Hand(b, s)  PROVE ReachInv'
    BY <1>3, <1>4, <2>2, <2>4 DEF Hand
  <2> QED
    BY <1>0, <1>3, <2>1, <2>2, <2>3, <2>4
<1>7. CASE Press(b)
  <2> DEFINE k == [h EXCEPT !.at = "beat", !.mark = strays[b], !.presses = @ + 1]
  <2>1. /\ h.at = "press"  /\ UNCHANGED <<strays, onTop, belated, blind>>
        /\ hand' = [hand EXCEPT ![b] = k]
        /\ focus' = [focus EXCEPT ![b] =
              IF @ = "controls" /\ (onTop[b] \/ ~mounted[b]) THEN "page" ELSE @]
    BY <1>7 DEF Press, TakesFocus, Ready, Do, windows
  <2>2. k.at = "beat"  /\ k.mark = strays[b]
    BY <1>0 DEF HandState
  <2>3. ReachTypes'  /\ \A c \in Boards \ {b} : Untouched(c)
    BY <1>0, <1>1, <1>2, <2>1 DEF ReachTypes, Untouched
  <2>4. hand'[b].at = "beat"  /\ hand'[b].mark = strays'[b]  /\ (mounted[b] => onTop[b] \/ belated[b])
    BY <1>0, <2>1, <2>2 DEF Reach
  <2>5. strays'[b] >= hand'[b].mark
    <3>1. PICK n \in Nat : strays[b] = n
      BY <1>0
    <3>2. strays'[b] = n  /\ hand'[b].mark = n
      BY <2>1, <2>4, <3>1
    <3> QED
      BY <3>2
  <2>6. Reach(b)'
    BY <1>0, <1>2, <2>1, <2>4, <2>5 DEF Reach
  <2> QED
    BY <2>3, <2>6, ReachOfOne DEF Steered
<1>8. CASE Check(b)
  <2> DEFINE closed == strays[b] > h.mark
  <2>1. PICK s \in {"retry", "rest", "look again"} :
          /\ hand' = [hand EXCEPT ![b] = [h EXCEPT !.at = s]]
          /\ strays' = [strays EXCEPT ![b] = IF closed THEN h.mark ELSE @]
          /\ onTop' = [onTop EXCEPT ![b] = @ \/ closed]
          /\ belated' = [belated EXCEPT ![b] = @ /\ ~closed]
          /\ UNCHANGED <<blind, focus>>
    BY <1>0, <1>8 DEF Check, Hand, Do
  <2>2. /\ hand'[b].at = s
        /\ onTop'[b] <=> onTop[b] \/ closed
        /\ belated'[b] <=> belated[b] /\ ~closed
    BY <1>0, <1>1, <1>4, <2>1 DEF ReachTypes
  <2>3. ReachTypes'  /\ \A c \in Boards \ {b} : Untouched(c)
    BY <1>0, <1>1, <1>2, <2>1 DEF ReachTypes, Untouched
  <2>4. Reach(b)'
    BY <1>0, <1>2, <2>1, <2>2 DEF Reach
  <2> QED
    BY <2>3, <2>4, ReachOfOne DEF Steered
<1>9. CASE WindowOpens(b)
  <2>1. /\ UNCHANGED hand
        /\ \A c \in Boards \ {b} : strays'[c] = strays[c]
        /\ b \in listening => strays'[b] = strays[b] + 1
        /\ onTop' = [onTop EXCEPT ![b] = FALSE]
        /\ focus' = [focus EXCEPT ![b] = "elsewhere"]
        /\ belated' = [belated EXCEPT ![b] = @ \/ h.at # "beat"]
        /\ blind' = [blind EXCEPT ![b] = @ \/ h.at = "keys"]
    BY <1>0, <1>9 DEF WindowOpens
  <2>2. /\ belated'[b] <=> belated[b] \/ h.at # "beat"
        /\ blind'[b] <=> blind[b] \/ h.at = "keys"
    BY <1>1, <2>1 DEF ReachTypes
  <2>3. ReachTypes'  /\ \A c \in Boards \ {b} : Untouched(c)
    BY <1>0, <1>1, <1>2, <2>1 DEF ReachTypes, Untouched
  <2>4. mounted[b] => strays'[b] = strays[b] + 1
    BY <1>0, <2>1 DEF Reach
  <2>5. /\ mounted[b] /\ h.at = "beat" => strays'[b] > h.mark
        /\ h.at = "beat" => strays'[b] >= h.mark
    <3>1. strays'[b] \in {strays[b], strays[b] + 1}
      BY <1>0, <1>9 DEF WindowOpens
    <3>2. h.at = "beat" => strays[b] >= h.mark
      BY <1>0 DEF Reach
    <3>3. PICK n \in Nat, m \in Nat : strays[b] = n  /\ h.mark = m
      BY <1>0
    <3> QED
      BY <2>4, <3>1, <3>2, <3>3
  <2>6. Reach(b)'
    BY <1>0, <1>2, <2>1, <2>2, <2>5 DEF Reach
  <2> QED
    BY <2>3, <2>6, ReachOfOne DEF Steered
<1>10. CASE BeginText(b)
  <2> DEFINE f == [AtRest EXCEPT !.at = "focus"]
             k == [AtRest EXCEPT !.at = "keys", !.left = TextLength]
  <2>1. f.at = "focus"  /\ k.at = "keys"
    BY DEF AtRest
  <2>2. h.at = "rest"  /\ UNCHANGED <<strays, onTop, belated, blind, focus>>
        /\ (Do(b, f) \/ (~mounted[b] /\ Do(b, k)))
    BY <1>10 DEF BeginText, Ready, StartKeys, windows
  <2>3. CASE Do(b, f)
    BY <1>3, <2>1, <2>2, <2>3
  <2>4. CASE ~mounted[b] /\ Do(b, k)
    <3>1. hand'[b] = k
      BY <1>0, <2>4 DEF Do
    <3>2. ReachTypes'  /\ \A c \in Boards \ {b} : Untouched(c)
      BY <1>0, <1>1, <1>2, <2>2, <2>4 DEF ReachTypes, Untouched, Do
    <3> HIDE DEF k
    <3>3. Reach(b)'
      BY <1>0, <1>2, <2>1, <2>2, <2>4, <3>1 DEF Reach
    <3> QED
      BY <3>2, <3>3, ReachOfOne DEF Steered
  <2> QED
    BY <2>2, <2>3, <2>4
<1>11. CASE FocusWindow(b)
  <2>1. /\ h.at = "focus"  /\ UNCHANGED <<strays, onTop, belated, blind>>
        /\ hand' = [hand EXCEPT ![b] = [h EXCEPT !.at = "look"]]
        /\ focus' = [focus EXCEPT ![b] =
              IF @ = "elsewhere" /\ browser[b] # Screen THEN "page" ELSE @]
    BY <1>11 DEF FocusWindow, Ready, Hand, Do, windows
  <2>2. hand'[b].at = "look"
    BY <1>0, <1>4, <2>1
  <2>3. ReachTypes'  /\ \A c \in Boards \ {b} : Untouched(c)
    BY <1>0, <1>1, <1>2, <2>1 DEF ReachTypes, Untouched
  <2>4. Reach(b)'
    BY <1>0, <1>2, <2>1, <2>2 DEF Reach
  <2> QED
    BY <2>3, <2>4, ReachOfOne DEF Steered
<1>12. ASSUME NEW s \in {"look", "look again"}, NEW other \in HandState, Look(b, s, other),
              other.at \notin {"beat", "keys"}
       PROVE  ReachInv'
  <2> DEFINE k == [AtRest EXCEPT !.at = "keys", !.left = TextLength]
  <2>1. PICK answered \in BOOLEAN :
          /\ h.at = s  /\ UNCHANGED <<strays, onTop, belated, focus>>
          /\ blind' = [blind EXCEPT ![b] = ~answered]
          /\ IF answered => focus[b] = "page" THEN Do(b, k) ELSE Do(b, other)
    BY <1>12 DEF Look, Ready, StartKeys, windows
  <2>2. k.at = "keys"
    BY DEF AtRest
  <2>3. hand'[b].at = "keys" => (answered => focus[b] = "page")
    BY <1>0, <1>12, <2>1 DEF Do
  <2>4. hand'[b].at # "beat"  /\ (blind'[b] <=> ~answered)
    BY <1>0, <1>1, <1>12, <2>1, <2>2 DEF Do, ReachTypes
  <2>5. ReachTypes'  /\ \A c \in Boards \ {b} : Untouched(c)
    BY <1>0, <1>1, <1>2, <2>1 DEF ReachTypes, Untouched, Do
  <2>6. Reach(b)'
    BY <1>0, <1>2, <1>12, <2>1, <2>3, <2>4 DEF Reach
  <2> QED
    BY <2>5, <2>6, ReachOfOne DEF Steered
<1>13. CASE LookFirst(b) \/ LookAgain(b)
  <2>1. RecoveryClick.at = "aim"
    BY DEF RecoveryClick, AtRest
  <2> QED
    BY <1>12, <1>13, <2>1, RestIsAHand DEF LookFirst, LookAgain, Refusal
<1>14. CASE Key(b)
  <2>1. /\ h.at = "keys"  /\ UNCHANGED <<strays, onTop, belated, blind, focus>>
        /\ \A c \in Boards \ {b} : hand'[c] = hand[c]
        /\ hand'[b].at \in {"keys", "rest"}
    BY <1>0, <1>14, RestIsAHand DEF Key, Ready, Do, windows, HandState
  <2>2. ReachTypes'  /\ \A c \in Boards \ {b} : Untouched(c)
    BY <1>0, <1>1, <1>2, <2>1 DEF ReachTypes, Untouched
  <2>3. Reach(b)'
    BY <1>0, <1>2, <2>1 DEF Reach
  <2> QED
    BY <2>2, <2>3, ReachOfOne DEF Steered
<1>15. CASE FocusLeaves(b)
  <2>1. PICK to \in {"controls", "elsewhere"} :
          /\ UNCHANGED <<hand, strays, onTop, belated>>
          /\ focus' = [focus EXCEPT ![b] = to]
          /\ blind' = [blind EXCEPT ![b] = @ \/ h.at = "keys"]
    BY <1>15 DEF FocusLeaves, windows
  <2>2. blind'[b] <=> blind[b] \/ h.at = "keys"
    BY <1>1, <2>1 DEF ReachTypes
  <2>3. ReachTypes'  /\ \A c \in Boards \ {b} : Untouched(c)
    BY <1>0, <1>1, <1>2, <2>1 DEF ReachTypes, Untouched
  <2>4. Reach(b)'
    BY <1>0, <1>2, <2>1, <2>2 DEF Reach
  <2> QED
    BY <2>3, <2>4, ReachOfOne DEF Steered
<1>16. CASE PressRaises(b)
  <2>1. PICK out \in BOOLEAN, n \in Nat :
          /\ h.at = "press"  /\ UNCHANGED <<strays, onTop, belated, blind>>
          /\ hand' = [hand EXCEPT ![b] = [h EXCEPT !.at = h.then, !.raised = out, !.presses = n]]
          /\ focus' = [focus EXCEPT ![b] =
                IF out /\ @ = "controls" /\ (onTop[b] \/ ~mounted[b]) THEN "page" ELSE @]
    <3>1. h.presses \in Nat
      BY <1>0 DEF HandState
    <3>2. PICK out \in BOOLEAN :
            /\ hand' = [hand EXCEPT ![b] =
                   [h EXCEPT !.at = h.then, !.raised = out,
                             !.presses = @ + (IF out THEN 1 ELSE 0)
                                           + (IF h.then = "rest" THEN 1 ELSE 0)]]
            /\ focus' = [focus EXCEPT ![b] =
                   IF out /\ @ = "controls" /\ (onTop[b] \/ ~mounted[b]) THEN "page" ELSE @]
      BY <1>16 DEF PressRaises, TakesFocus, Do
    <3> DEFINE n == h.presses + (IF out THEN 1 ELSE 0) + (IF h.then = "rest" THEN 1 ELSE 0)
    <3>3. n \in Nat
      BY <3>1
    <3>4. hand' = [hand EXCEPT ![b] = [h EXCEPT !.at = h.then, !.raised = out, !.presses = n]]
      BY <1>0, <3>2 DEF HandState
    <3>5. h.at = "press"  /\ UNCHANGED <<strays, onTop, belated, blind>>
      BY <1>16 DEF PressRaises, Ready, windows
    <3> HIDE DEF n
    <3> QED
      BY <3>2, <3>3, <3>4, <3>5
  <2>2. hand'[b].at = h.then
    BY <1>0, <2>1 DEF HandState
  <2>3. ReachTypes'  /\ \A c \in Boards \ {b} : Untouched(c)
    BY <1>0, <1>1, <1>2, <2>1 DEF ReachTypes, Untouched
  <2>4. Reach(b)'
    BY <1>0, <1>2, <2>1, <2>2 DEF Reach
  <2> QED
    BY <2>3, <2>4, ReachOfOne DEF Steered
<1> QED
  BY <1>5, <1>6, <1>7, <1>8, <1>9, <1>10, <1>11, <1>13, <1>14, <1>15, <1>16 DEF Gesture

LEMMA InitReach == Init => ReachInv
<1> SUFFICES ASSUME Init  PROVE ReachInv
  OBVIOUS
<1>1. ReachTypes
  BY DEF Init, Each, ReachTypes
<1>2. \A b \in Boards : /\ known[b] = FALSE  /\ mounted[b] = FALSE  /\ at[b] = "idle"
                        /\ onTop[b] = TRUE  /\ hand[b].at = "rest"
  BY RestIsAHand DEF Init, Each
<1> QED
  BY <1>1, <1>2 DEF ReachInv, Reach

LEMMA StepReach == ASSUME ~Recycled PROVE Steered /\ [Next]_vars => Steered'
<1> SUFFICES ASSUME Steered, [Next]_vars  PROVE Steered'
  OBVIOUS
<1>1. DisplayInv'  /\ HandInv'
  BY StepSited, StepHands DEF Steered
<1>2. CASE Crash
  <2>1. ReachTypes'
    BY <1>2 DEF Crash, Each, ReachTypes
  <2>2. \A b \in Boards : /\ known'[b] = FALSE  /\ mounted'[b] = FALSE  /\ at'[b] = "idle"
                          /\ onTop'[b] = TRUE  /\ hand'[b].at = "rest"
    BY <1>2, RestIsAHand DEF Crash, Each
  <2>3. ReachInv'
    BY <2>1, <2>2 DEF ReachInv, Reach
  <2> QED
    BY <1>1, <2>3 DEF Steered
<1>3. CASE UNCHANGED vars
  <2>1. ReachInv'
    BY <1>3 DEF vars, session, windows, touch, Steered, ReachInv, ReachTypes, Reach
  <2> QED
    BY <1>1, <2>1 DEF Steered
<1> QED
  BY <1>1, <1>2, <1>3, SessionReach, GestureReach DEF Next, Steered

LEMMA SteeredAlways == ASSUME ~Recycled PROVE Spec => []Steered
<1>1. Init => Steered
  BY InitSited, InitHands, InitReach DEF Steered
<1> QED
  BY <1>1, StepReach, PTL DEF Spec

\* x11_backend.py and human_type: where no context inherits a closed one's id(), a press
\* goes to the browser's own window and a key to the page, whatever windows open and
\* wherever the focus goes, unless that happened when no click or look could see it.
THEOREM InputArrives == ASSUME ~Recycled PROVE Spec => InputReachesThePage
<1>1. ASSUME Steered, NEW b \in Boards, mounted[b], hand[b].at = "press"
      PROVE  onTop[b] \/ belated[b]
  <2>1. Reach(b)  /\ at[b] # "failed"
    BY <1>1 DEF Steered, ReachInv, Reach
  <2> QED
    BY <1>1, <2>1 DEF Reach
<1>2. ASSUME Steered, NEW b \in Boards, mounted[b], hand[b].at = "keys"
      PROVE  focus[b] = "page" \/ blind[b]
  BY <1>2 DEF Steered, ReachInv, Reach
<1>3. Steered => \A b \in Boards : mounted[b] =>
                     /\ Pressed(b) => onTop[b] \/ belated[b]
                     /\ Struck(b) => focus[b] = "page" \/ blind[b]
  BY <1>1, <1>2 DEF Pressed, Struck
<1> QED
  BY <1>3, SteeredAlways, PTL DEF InputReachesThePage

(***************************************************************************)
(* Pacing: the budget.                                                     *)
(***************************************************************************)

\* What was recorded lies in the past.
Recorded ==
    /\ now \in Nat  /\ clock \in Nat \union {NoClock}
    /\ clock # NoClock => clock <= now
    /\ booted \in [Runs -> Nat \union {NoClock}]
    /\ \A r \in Runs : booted[r] # NoClock => booted[r] <= now

\* The clock a token stands for is no older than the run of that token: the second
\* track of the run, which finds the token, keeps that clock.
TokenHasItsClock ==
    /\ token \in (Runs \X BOOLEAN) \union {NoToken}
    /\ token # NoToken =>
           /\ clock # NoClock  /\ booted[token[1]] # NoClock
           /\ clock >= booted[token[1]]

RunHasItsClock ==
    \A e \in Executions : Active(e) =>
        clock # NoClock  /\ booted[e[1]] # NoClock  /\ clock >= booted[e[1]]

Fits(u) == u \in Int  /\ u <= Ceiling  /\ (u = 0 \/ now + u <= clock + Budget)
PausesFit == \A e \in Executions : place[e] \in Pauses => Fits(left[e])

Placed ==
    /\ place \in [Executions -> Pauses \union Waits \union Loops \union Ended]
    /\ left = [e \in Executions |-> left[e]]

PInv == Recorded /\ TokenHasItsClock /\ RunHasItsClock /\ PausesFit /\ Placed

-----------------------------------------------------------------------------
(* Least and greatest of a few numbers. *)

LEMMA MinOfThree ==
    ASSUME NEW a \in Int, NEW b \in Int, NEW c \in Int
    PROVE  Min({a, b, c}) \in {a, b, c}  /\ Min({a, b, c}) <= b  /\ Min({a, b, c}) <= c
<1> DEFINE S == {a, b, c}
<1>1. \E x \in S : \A y \in S : x <= y
  <2>1. CASE a <= b /\ a <= c
    BY <2>1
  <2>2. CASE b <= a /\ b <= c
    BY <2>2
  <2>3. CASE c <= a /\ c <= b
    BY <2>3
  <2> QED
    BY <2>1, <2>2, <2>3
<1>2. Min(S) = CHOOSE x \in S : \A y \in S : x <= y
  BY DEF Min
<1>3. Min(S) \in S  /\ \A y \in S : Min(S) <= y
  BY <1>1, <1>2
<1> QED
  BY <1>3

LEMMA MinOfTwo ==
    ASSUME NEW a \in Int, NEW b \in Int, a <= b
    PROVE  Min({a, b}) = a
<1> DEFINE S == {a, b}
<1>1. \E x \in S : \A y \in S : x <= y
  OBVIOUS
<1>2. Min(S) = CHOOSE x \in S : \A y \in S : x <= y
  BY DEF Min
<1>3. Min(S) \in S  /\ \A y \in S : Min(S) <= y
  BY <1>1, <1>2
<1> QED
  BY <1>3

LEMMA MaxOfTwo ==
    ASSUME NEW a \in Int, NEW b \in Int, a <= b
    PROVE  Max({a, b}) = b
<1> DEFINE S == {a, b}
<1>1. \E x \in S : \A y \in S : x >= y
  OBVIOUS
<1>2. Max(S) = CHOOSE x \in S : \A y \in S : x >= y
  BY DEF Max
<1>3. Max(S) \in S  /\ \A y \in S : Max(S) >= y
  BY <1>1, <1>2
<1> QED
  BY <1>3

\* What _pause draws ends with the budget, or is nothing, and is under the ceiling.
LEMMA PauseFits ==
    ASSUME Recorded, clock # NoClock,
           NEW low \in Nat, NEW high \in Nat, NEW tier \in DOMAIN Tier
    PROVE  \A u \in {0} \union Pause(low, high, tier) : Fits(u)
<1>1. Budget \in Nat  /\ Ceiling \in Nat  /\ Unit \in Nat \ {0}  /\ Pace \in Nat \ {0}
  BY PacingAssumption
<1>2. now \in Nat  /\ clock \in Nat  /\ clock <= now
  BY DEF Recorded
<1>3. Fits(0)
  BY <1>1 DEF Fits
<1>4. CASE OverBudget
  BY <1>3, <1>4 DEF Pause
<1>5. CASE ~OverBudget
  <2>1. now - clock <= Budget
    BY <1>1, <1>2, <1>5 DEF OverBudget
  <2>2. BudgetRemaining = Budget - (now - clock)
    BY <1>1, <1>2, <2>1, MaxOfTwo DEF BudgetRemaining
  <2>3. Units(Scaled(low, tier), Scaled(high, tier)) \subseteq Int
    BY DEF Units
  <2>4. ASSUME NEW u \in Pause(low, high, tier)
        PROVE  Fits(u)
    <3>1. PICK w \in Units(Scaled(low, tier), Scaled(high, tier)) :
              u = Min({w, Ceiling, BudgetRemaining})
      BY <1>5, <2>4 DEF Pause
    <3>2. w \in Int  /\ BudgetRemaining \in Int
      BY <1>1, <1>2, <2>2, <2>3
    <3>3. u \in {w, Ceiling, BudgetRemaining}  /\ u <= Ceiling  /\ u <= BudgetRemaining
      BY <1>1, <3>1, <3>2, MinOfThree
    <3> QED
      BY <1>1, <1>2, <2>2, <3>2, <3>3 DEF Fits
  <2> QED
    BY <1>3, <2>4
<1> QED
  BY <1>4, <1>5

-----------------------------------------------------------------------------
(* Preservation. *)

\* An execution moves on within its run; a pause it begins fits.
LEMMA MovesKeepPInv ==
    ASSUME PInv, NEW e \in Executions, NEW from, NEW to, NEW lengths,
           from \notin Ended, to \in Pauses \union Waits \union Loops \union Ended,
           to \in Pauses => \A u \in lengths : Fits(u),
           Moves(e, from, to, lengths), UNCHANGED <<clock, token, booted>>
    PROVE  PInv'
<1> USE DEF PInv
<1>1. Recorded'  /\ TokenHasItsClock'
  BY DEF Recorded, TokenHasItsClock, Moves
<1>2. Active(e)
  BY DEF Moves, Active
<1>3. RunHasItsClock'
  BY <1>2 DEF RunHasItsClock, Moves, Active, Placed
<1>4. PausesFit'
  <2> SUFFICES ASSUME NEW f \in Executions, place'[f] \in Pauses  PROVE Fits(left[f])'
    BY DEF PausesFit
  <2>1. CASE f = e
    BY <2>1 DEF Moves, Placed, Fits
  <2>2. CASE f # e
    <3>1. place'[f] = place[f]  /\ left'[f] = left[f]
      BY <2>2 DEF Moves, Placed
    <3> QED
      BY <3>1 DEF PausesFit, Fits, Moves
  <2> QED
    BY <2>1, <2>2
<1>5. Placed'
  BY DEF Placed, Moves
<1> QED
  BY <1>1, <1>3, <1>4, <1>5

\* An execution comes up: the clock is its run's own, or a new one.
LEMMA BootKeepsPInv ==
    ASSUME PInv, NEW e \in Executions, Boot(e)
    PROVE  PInv'
<1> USE DEF PInv
<1> DEFINE r == e[1]
<1>1. r \in Runs  /\ place[e] = "idle"  /\ now' = now
  BY DEF Executions, Boot, Moves
<1>2. PICK fresh \in BOOLEAN : StartPacing(<<r, fresh>>)
  BY DEF Boot
<1>3. Recorded'
  BY <1>1, <1>2 DEF Recorded, Boot, StartPacing, TokenHasItsClock
<1>4. /\ clock' # NoClock  /\ booted'[r] # NoClock  /\ clock' >= booted'[r]
      /\ token' = <<r, fresh>>
  <2>1. now # NoClock
    BY PacingAssumption DEF Recorded
  <2>2. CASE <<r, fresh>> = token
    <3>1. token # NoToken  /\ token[1] = r
      BY <1>1, <2>2, PacingAssumption
    <3> QED
      BY <1>1, <1>2, <2>2, <3>1 DEF TokenHasItsClock, StartPacing, Boot
  <2>3. CASE <<r, fresh>> # token
    BY <1>1, <1>2, <2>1, <2>3 DEF StartPacing, Boot, Recorded
  <2> QED
    BY <2>2, <2>3
<1>5. TokenHasItsClock'
  BY <1>1, <1>2, <1>4 DEF TokenHasItsClock
<1>6. clock # NoClock => clock' >= clock  /\ clock' # NoClock
  BY <1>2, PacingAssumption DEF StartPacing, Recorded
<1>7. RunHasItsClock'
  <2> SUFFICES ASSUME NEW f \in Executions, Active(f)'
               PROVE  clock' # NoClock  /\ booted'[f[1]] # NoClock
                      /\ clock' >= booted'[f[1]]
    BY DEF RunHasItsClock
  <2>1. CASE f[1] = r
    BY <1>4, <2>1
  <2>2. CASE f[1] # r
    <3>1. f # e  /\ f[1] \in Runs
      BY <2>2 DEF Executions
    <3>2. Active(f)
      BY <3>1 DEF Active, Boot, Moves, Placed
    <3>3. booted'[f[1]] = booted[f[1]]
      BY <2>2, <3>1 DEF Boot, Recorded
    <3>4. clock # NoClock  /\ booted[f[1]] # NoClock  /\ clock >= booted[f[1]]
      BY <3>2 DEF RunHasItsClock
    <3>5. clock \in Nat  /\ booted[f[1]] \in Nat  /\ clock' \in Nat
      BY <1>3, <1>4, <3>1, <3>4 DEF Recorded
    <3> QED
      BY <1>6, <3>3, <3>4, <3>5
  <2> QED
    BY <2>1, <2>2
<1>8. PausesFit'
  <2> SUFFICES ASSUME NEW f \in Executions, place'[f] \in Pauses  PROVE Fits(left[f])'
    BY DEF PausesFit
  <2>1. f # e
    BY DEF Boot, Moves, Placed, Pauses
  <2>2. place'[f] = place[f]  /\ left'[f] = left[f]
    BY <2>1 DEF Boot, Moves, Placed
  <2>3. Active(f)  /\ Fits(left[f])
    BY <2>2 DEF PausesFit, Active, Pauses, Ended
  <2>4. clock \in Nat  /\ clock' \in Nat  /\ clock' >= clock  /\ now \in Nat
    BY <1>3, <1>6, <2>3 DEF RunHasItsClock, Recorded
  <2> QED
    BY <1>1, <2>2, <2>3, <2>4, PacingAssumption DEF Fits
<1>9. Placed'
  BY DEF Placed, Boot, Moves, Waits
<1> QED
  BY <1>3, <1>5, <1>7, <1>8, <1>9

\* Time: a pause is one unit shorter when the clock is one unit later.
LEMMA PassKeepsPInv ==
    ASSUME PInv, Pass
    PROVE  PInv'
<1> USE DEF PInv, Pass, Passes
<1>1. Recorded'
  BY PacingAssumption DEF Recorded
<1>2. TokenHasItsClock'  /\ RunHasItsClock'
  BY DEF TokenHasItsClock, RunHasItsClock, Active
<1>3. PausesFit'
  <2> SUFFICES ASSUME NEW f \in Executions, place[f] \in Pauses  PROVE Fits(left[f])'
    BY DEF PausesFit
  <2>1. Active(f)  /\ Fits(left[f])
    BY DEF PausesFit, Active, Pauses, Ended
  <2>2. left[f] > 0  /\ left'[f] = left[f] - 1
    BY <2>1
  <2>3. clock \in Nat  /\ now \in Nat  /\ Budget \in Nat  /\ Ceiling \in Nat
    BY <2>1, PacingAssumption DEF RunHasItsClock, Recorded
  <2> QED
    BY <2>1, <2>2, <2>3 DEF Fits
<1>4. Placed'
  BY DEF Placed
<1> QED
  BY <1>1, <1>2, <1>3, <1>4

\* Between executions there is no pause to keep.
LEMMA IdleKeepsPInv ==
    ASSUME PInv, Review \/ NewProcess
    PROVE  PInv'
<1> USE DEF PInv
<1>1. \A e \in Executions : ~Active(e)
  BY DEF Review, NewProcess
<1>2. \A e \in Executions : place[e] \notin Pauses
  BY <1>1 DEF Active, Pauses, Ended
<1>3. CASE Review
  BY <1>1, <1>2, <1>3, PacingAssumption
  DEF Review, Recorded, TokenHasItsClock, RunHasItsClock, PausesFit, Placed, execution,
      Active
<1>4. CASE NewProcess
  BY <1>1, <1>2, <1>4, PacingAssumption
  DEF NewProcess, Recorded, TokenHasItsClock, RunHasItsClock, PausesFit, Placed,
      execution, Active
<1> QED
  BY <1>3, <1>4

-----------------------------------------------------------------------------
LEMMA InitPInv == PacingInit => PInv
BY PacingAssumption
DEF PacingInit, PInv, Recorded, TokenHasItsClock, RunHasItsClock, PausesFit, Placed, Active,
    Pauses, Ended

LEMMA NextPInv == PInv /\ [PacingNext]_pacingVars => PInv'
<1> SUFFICES ASSUME PInv, [PacingNext]_pacingVars  PROVE PInv'
  OBVIOUS
<1> USE DEF Stays, Beat, Pauses, Waits, Loops, Ended
<1>1. ASSUME NEW e \in Executions, Active(e)
      PROVE  /\ \A u \in DistractedStop : Fits(u)
             /\ \A u \in MaybeBreak : Fits(u)
             /\ \A u \in ArrivalBrowse : Fits(u)
             /\ \A u \in Breathe(e) : Fits(u)
  <2>1. Recorded  /\ clock # NoClock
    BY <1>1 DEF PInv, RunHasItsClock
  <2>2. {"NAV", "SCROLL", "CARD", "SUBMIT"} \subseteq DOMAIN Tier
    BY DEF Tier
  <2> QED
    BY <2>1, <2>2, PauseFits DEF DistractedStop, MaybeBreak, ArrivalBrowse, Breathe
<1>2. ASSUME NEW e \in Executions, Boot(e)  PROVE PInv'
  BY <1>2, BootKeepsPInv
<1>3. ASSUME NEW e \in Executions, Land(e)  PROVE PInv'
  <2>1. Active(e)
    BY <1>3 DEF Land, Moves, Active
  <2> QED
    BY <1>1, <1>3, <2>1, MovesKeepPInv DEF Land
<1>4. ASSUME NEW e \in Executions, Page(e)  PROVE PInv'
  <2>1. Active(e)
    BY <1>4 DEF Page, Moves, Active
  <2> QED
    BY <1>1, <1>4, <2>1, MovesKeepPInv DEF Page
<1>5. ASSUME NEW e \in Executions, Card(e)  PROVE PInv'
  BY <1>5, MovesKeepPInv DEF Card
<1>6. ASSUME NEW e \in Executions, Read(e)  PROVE PInv'
  BY <1>6, MovesKeepPInv DEF Read
<1>7. ASSUME NEW e \in Executions, Rest(e)  PROVE PInv'
  <2>1. Active(e)
    BY <1>7 DEF Rest, Moves, Active
  <2> QED
    BY <1>1, <1>7, <2>1, MovesKeepPInv DEF Rest
<1>8. ASSUME NEW e \in Executions, Turn(e)  PROVE PInv'
  <2>1. Active(e)
    BY <1>8 DEF Turn, Moves, Active
  <2> QED
    BY <1>1, <1>8, <2>1, MovesKeepPInv DEF Turn
<1>9. ASSUME NEW e \in Executions, Leave(e)  PROVE PInv'
  BY <1>9, MovesKeepPInv DEF Leave
<1>10. CASE Pass
  BY <1>10, PassKeepsPInv
<1>11. CASE Review \/ NewProcess
  BY <1>11, IdleKeepsPInv
<1>12. CASE UNCHANGED pacingVars
  BY <1>12 DEF pacingVars, execution, PInv, Recorded, TokenHasItsClock, RunHasItsClock,
               PausesFit, Fits, Placed, Active
<1> QED
  BY <1>2, <1>3, <1>4, <1>5, <1>6, <1>7, <1>8, <1>9, <1>10, <1>11, <1>12 DEF PacingNext

LEMMA PInvAlways == PacingSpec => []PInv
BY InitPInv, NextPInv, PTL DEF PacingSpec

\* _start_pacing and _pause: however many runs follow and overlap one another on a
\* worker, none is paced by a clock older than its own first execution, and whatever
\* the pace, the tier and the ceiling, a pause ends with the budget it was drawn from.
THEOREM OwnBudget == PacingSpec => []PacedByItsOwnBudget
<1>1. ASSUME PInv  PROVE PacedByItsOwnBudget
  <2>1. ASSUME NEW e \in Executions, place[e] \in Pauses, left[e] > 0
        PROVE  now + left[e] <= clock + Budget
    <3>1. Fits(left[e])
      BY <1>1, <2>1 DEF PInv, PausesFit
    <3> QED
      BY <2>1, <3>1 DEF Fits
  <2> QED
    BY <1>1, <2>1 DEF PInv, RunHasItsClock, PacedByItsOwnBudget
<1> QED
  BY <1>1, PInvAlways, PTL

(***************************************************************************)
(* Pacing: the heartbeat.                                                  *)
(*                                                                         *)
(* A wait that does not beat has to fit into what is left of the cutoff    *)
(* since the last beat; a pause beats in each of its units, because the    *)
(* ceiling bounds it; and nothing waits twice between two beats.           *)
(***************************************************************************)
\* A site's answer, and a look over HelloWork's page of results, take no longer than
\* the cutoff.
Attended ==
    /\ \A u \in Works : u <= Stale
    /\ \A u \in Units(Scaled(2, "SCROLL"), Scaled(6, "SCROLL")) : u <= Stale

Heard(e) ==
    /\ left[e] \in Int  /\ silence[e] \in Nat
    /\ Active(e) => silence[e] <= Stale
    /\ place[e] \in Waits => place[e] # "read"  /\ silence[e] + left[e] <= Stale
    /\ place[e] \in Loops => left[e] = 0

SilenceInv ==
    /\ silence = [e \in Executions |-> silence[e]]
    /\ board = "hellowork" => \A e \in Executions : Heard(e)

LEMMA InitSilence == PacingInit => SilenceInv
BY DEF PacingInit, SilenceInv, Heard, Active, Waits, Loops, Ended

\* A step without a beat goes to a pause, a loop or the end.
LEMMA QuietMove ==
    ASSUME PInv, SilenceInv, board = "hellowork", NEW e \in Executions, NEW from, NEW to,
           NEW lengths, from \notin Ended, to \in Pauses \union Loops \union {"over"},
           to \in Loops => lengths = {0}, \A u \in lengths : u \in Int,
           Moves(e, from, to, lengths), UNCHANGED silence
    PROVE  SilenceInv'
<1>1. Active(e)  /\ silence[e] \in Nat  /\ silence[e] <= Stale
  BY DEF Moves, Active, SilenceInv, Heard
<1>2. place'[e] = to  /\ left'[e] \in lengths
  BY DEF Moves, PInv, Placed
<1>3. Heard(e)'
  BY <1>1, <1>2 DEF Heard, Active, Pauses, Waits, Loops, Ended
<1>4. ASSUME NEW f \in Executions, f # e  PROVE Heard(f)'
  <2>1. place'[f] = place[f]  /\ left'[f] = left[f]  /\ Heard(f)
    BY <1>4 DEF Moves, PInv, Placed, SilenceInv
  <2> QED
    BY <2>1 DEF Heard, Active
<1> QED
  BY <1>3, <1>4 DEF SilenceInv

\* A step with a beat may go to a wait that fits.
LEMMA BeatingMove ==
    ASSUME PInv, SilenceInv, board = "hellowork", NEW e \in Executions, NEW from,
           NEW to \in Waits \ {"read"}, NEW lengths,
           \A u \in lengths : u \in Int  /\ u <= Stale,
           Moves(e, from, to, lengths), Beat(e)
    PROVE  SilenceInv'
<1>1. Stale \in Nat
  BY PacingAssumption
<1>2. place'[e] = to  /\ left'[e] \in lengths  /\ silence'[e] = 0
  BY DEF Moves, Beat, PInv, Placed, SilenceInv
<1>3. Heard(e)'
  BY <1>1, <1>2 DEF Heard, Active, Waits, Loops, Ended
<1>4. ASSUME NEW f \in Executions, f # e  PROVE Heard(f)'
  <2>1. place'[f] = place[f]  /\ left'[f] = left[f]  /\ silence'[f] = silence[f]  /\ Heard(f)
    BY <1>4 DEF Moves, Beat, PInv, Placed, SilenceInv
  <2> QED
    BY <2>1 DEF Heard, Active
<1> QED
  BY <1>3, <1>4 DEF SilenceInv, Beat

LEMMA PassKeepsSilence ==
    ASSUME PInv, SilenceInv, board = "hellowork", Pass
    PROVE  SilenceInv'
<1>1. Stale \in Nat  /\ Ceiling \in Nat
  BY PacingAssumption
<1>2. ASSUME NEW e \in Executions  PROVE Heard(e)'
  <2>1. /\ Heard(e)  /\ place'[e] = place[e]
        /\ left'[e] = (IF Active(e) THEN left[e] - 1 ELSE 0)
        /\ Active(e) => left[e] > 0
    BY DEF Pass, Passes, SilenceInv
  <2>2. CASE ~Active(e)
    <3>1. silence'[e] = 0
      BY <2>2 DEF Pass, Passes
    <3> QED
      BY <2>1, <2>2, <3>1 DEF Heard, Active, Waits, Loops, Ended
  <2>3. CASE Active(e) /\ place[e] \in Pauses
    <3>1. left[e] \in 1..Ceiling
      BY <1>1, <2>1, <2>3 DEF PInv, PausesFit, Fits
    <3>2. silence'[e] = 0
      BY <2>3, <3>1 DEF Pass, Passes
    <3> QED
      BY <1>1, <2>1, <2>3, <3>1, <3>2 DEF Heard, Active, Pauses, Waits, Loops
  <2>4. CASE Active(e) /\ place[e] \in Waits
    <3>1. silence'[e] = Min({silence[e], Stale}) + 1
      BY <2>4 DEF Pass, Passes, Pauses, Waits
    <3>2. Min({silence[e], Stale}) = silence[e]
      <4>1. silence[e] \in Nat  /\ silence[e] <= Stale
        BY <2>1, <2>4 DEF Heard
      <4> QED
        BY <1>1, <4>1, MinOfTwo
    <3>3. /\ silence[e] \in Nat  /\ left[e] \in Int  /\ left[e] > 0  /\ place[e] # "read"
          /\ silence[e] + left[e] <= Stale
      BY <2>1, <2>4 DEF Heard
    <3>4. silence[e] + 1 <= Stale  /\ (silence[e] + 1) + (left[e] - 1) <= Stale
      BY <1>1, <3>3
    <3>5. silence'[e] = silence[e] + 1  /\ left'[e] = left[e] - 1
      BY <2>1, <2>4, <3>1, <3>2
    <3>6. place'[e] \in Waits  /\ place'[e] # "read"  /\ place'[e] \notin Loops
      BY <2>1, <2>4, <3>3 DEF Waits, Loops
    <3> QED
      BY <3>3, <3>4, <3>5, <3>6 DEF Heard
  <2>5. CASE Active(e) /\ place[e] \in Loops
    BY <2>1, <2>5 DEF Heard
  <2>6. place[e] \in Pauses \union Waits \union Loops \union Ended
    BY DEF PInv, Placed
  <2> QED
    BY <2>2, <2>3, <2>4, <2>5, <2>6 DEF Active
<1>3. silence' = [e \in Executions |-> silence'[e]]
  BY DEF Pass, Passes
<1> QED
  BY <1>2, <1>3 DEF SilenceInv

LEMMA StepSilence ==
    ASSUME Attended PROVE PInv /\ SilenceInv /\ [PacingNext]_pacingVars => SilenceInv'
<1> SUFFICES ASSUME PInv, SilenceInv, [PacingNext]_pacingVars  PROVE SilenceInv'
  OBVIOUS
<1>1. board' = board
  BY DEF PacingNext, Boot, Land, Page, Card, Read, Rest, Turn, Leave, Moves, Pass, Passes, Review,
         NewProcess, pacingVars
<1>2. silence' = [e \in Executions |-> silence'[e]]
  BY DEF SilenceInv, PacingNext, Boot, Land, Page, Card, Read, Rest, Turn, Leave, Stays, Beat, Pass,
         Passes, Review, NewProcess, pacingVars, execution
<1>3. CASE board # "hellowork"
  BY <1>1, <1>2, <1>3 DEF SilenceInv
<1>4. CASE board = "hellowork"
  <2>1. ASSUME NEW e \in Executions, Active(e)
        PROVE  /\ \A u \in DistractedStop : u \in Int
               /\ \A u \in MaybeBreak : u \in Int
               /\ \A u \in ArrivalBrowse : u \in Int
               /\ \A u \in Breathe(e) : u \in Int
    <3>1. Recorded  /\ clock # NoClock
      BY <2>1 DEF PInv, RunHasItsClock
    <3>2. {"NAV", "SCROLL", "CARD", "SUBMIT"} \subseteq DOMAIN Tier
      BY DEF Tier
    <3> QED
      BY <3>1, <3>2, PauseFits DEF DistractedStop, MaybeBreak, ArrivalBrowse, Breathe, Fits
  <2>2. /\ \A u \in Works : u \in Int  /\ u <= Stale
        /\ \A u \in Scan : u \in Int  /\ u <= Stale
    BY <1>4, PacingAssumption DEF Attended, Scan, Units
  <2> USE DEF Stays, Pauses, Loops, Ended
  <2>3. ASSUME NEW e \in Executions, Boot(e)  PROVE SilenceInv'
    BY <1>4, <2>2, <2>3, BeatingMove DEF Boot, Waits
  <2>4. ASSUME NEW e \in Executions, Land(e)  PROVE SilenceInv'
    <3>1. Active(e)
      BY <2>4 DEF Land, Moves, Active
    <3> QED
      BY <1>4, <2>1, <2>4, <3>1, QuietMove DEF Land
  <2>5. ASSUME NEW e \in Executions, Page(e)  PROVE SilenceInv'
    <3>1. Active(e)
      BY <2>5 DEF Page, Moves, Active
    <3>2. CASE Moves(e, "page", "scan", Scan) /\ Beat(e)
      BY <1>4, <2>2, <3>2, BeatingMove DEF Waits
    <3>3. CASE UNCHANGED silence /\ (Moves(e, "scan", "scanned", DistractedStop)
                                     \/ Moves(e, "scanned", "top", {0}))
      BY <1>4, <2>1, <3>1, <3>3, QuietMove
    <3> QED
      BY <1>4, <2>5, <3>2, <3>3 DEF Page
  <2>6. ASSUME NEW e \in Executions, Card(e)  PROVE SilenceInv'
    BY <1>4, <2>2, <2>6, BeatingMove DEF Card, Waits
  <2>7. ASSUME NEW e \in Executions, Read(e)  PROVE SilenceInv'
    <3>1. UNCHANGED silence  /\ \E from \in {"open", "read"} : Moves(e, from, "top", {0})
      BY <1>4, <2>7 DEF Read
    <3> QED
      BY <1>4, <3>1, QuietMove
  <2>8. ASSUME NEW e \in Executions, Rest(e)  PROVE SilenceInv'
    <3>1. Active(e)
      BY <2>8 DEF Rest, Moves, Active
    <3> QED
      BY <1>4, <2>1, <2>8, <3>1, QuietMove DEF Rest
  <2>9. ASSUME NEW e \in Executions, Turn(e)  PROVE SilenceInv'
    <3>1. Active(e)
      BY <2>9 DEF Turn, Moves, Active
    <3> QED
      BY <1>4, <2>1, <2>9, <3>1, QuietMove DEF Turn
  <2>10. ASSUME NEW e \in Executions, Leave(e)  PROVE SilenceInv'
    BY <1>4, <2>10, QuietMove DEF Leave, Waits
  <2>11. CASE Review \/ NewProcess \/ UNCHANGED pacingVars
    BY <2>11 DEF SilenceInv, Heard, Active, Review, NewProcess, pacingVars, execution
  <2> QED
    BY <1>4, <2>3, <2>4, <2>5, <2>6, <2>7, <2>8, <2>9, <2>10, <2>11, PassKeepsSilence
       DEF PacingNext
<1> QED
  BY <1>3, <1>4

\* human_long_pause and agent_state_use_cases.py: where a site answers, and a page of
\* results is looked over, within the cutoff, no HelloWork search that rests reads as
\* dead, however long its pauses and however many runs overlap on the worker.
THEOREM RestsAlive == ASSUME Attended PROVE PacingSpec => []SeemsAlive
<1>1. SilenceInv => SeemsAlive
  BY DEF SilenceInv, Heard, SeemsAlive
<1> QED
  BY <1>1, InitSilence, StepSilence, InitPInv, NextPInv, PTL DEF PacingSpec
================================================================================
