--------------------------------- MODULE Input ---------------------------------
(***************************************************************************)
(* How the board workers of one process reach their browsers with pointer  *)
(* and keys: the X display a browser opens on, the input backend mounted   *)
(* on its page, and the clicks and texts that go through it.               *)
(*                                                                         *)
(* X delivers a press to the window on top and a key to the window with    *)
(* the focus; the browser's own protocol (CDP) delivers both to the page.  *)
(* A process can borrow the one screen that exists, or start servers of    *)
(* its own; its X client library cannot connect to both kinds.  The steps  *)
(* between two awaits of one worker are one action.                        *)
(***************************************************************************)
EXTENDS Naturals, FiniteSets

CONSTANTS
    Boards,      \* one worker each
    Clickers,    \* those whose clicks and texts are followed
    Numbers,     \* the display numbers tried (24 of them)
    Recycled,    \* may a context have the id() that a closed one had?
    MaxStarts,   \* bound: browser sessions
    MaxCrashes,  \* bound: process deaths
    MaxWindows,  \* bound: windows open besides the browser's own
    TextLength   \* bound: characters of a text

Screen    == "screen"      \* the display that exists already
NoDisplay == "none"
Headless  == "headless"
Displays  == Numbers \union {Screen}

ASSUME InputAssumption ==
    /\ Clickers \subseteq Boards  /\ Recycled \in BOOLEAN
    /\ {Screen, NoDisplay, Headless} \intersect Numbers = {}
    /\ {MaxStarts, MaxCrashes, MaxWindows, TextLength} \subseteq Nat

KindOf(d) == IF d = Screen THEN "screen" ELSE "own"

VARIABLES
    backend,     \* resolve_backend_name
    hasScreen,   \* is there a display to borrow
    at,          \* where a worker's session is
    starts,      \* the bound used up
    crashes,
    display,     \* _x_display
    browser,     \* where the worker's browser is
    known,       \* is the id of its context in _watched already
    mounted,     \* the page's backend is X
    servers,     \* the servers running, by number
    orphans,     \* those whose process has died
    borrowed,    \* _borrowed_by is not empty
    startedOwn,  \* _started_own_display
    connected,   \* the kinds of server the X library has connected to
    watched,     \* _watched holds the id of a context that is closed
    listening,   \* boards whose context reports new pages
    strays,      \* how many of them are in _strays
    hand,        \* the click or text under way
    onTop,       \* is the browser's own window on top
    focus,       \* where keys go: the page, the browser's own controls, elsewhere
    belated,     \* history: a window came when no click was looking
    blind        \* history: the focus left after the last look, or nobody could look

setting == <<backend, hasScreen>>
screens == <<servers, orphans, borrowed, startedOwn, connected>>
session == <<at, display, browser, known, mounted>>
count   == <<starts, crashes>>
windows == <<watched, listening, strays>>
touch   == <<hand, onTop, focus, belated, blind>>
vars    == <<setting, screens, session, count, windows, touch>>

AtRest == [at |-> "rest", then |-> "rest", again |-> FALSE, retried |-> FALSE, mark |-> 0,
           presses |-> 0, raised |-> FALSE, left |-> 0]

Each(v) == [b \in Boards |-> v]

Init ==
    /\ backend \in {"cdp", "x11"}  /\ hasScreen \in BOOLEAN
    /\ starts = 0  /\ crashes = 0   /\ servers = {}  /\ orphans = {}
    /\ borrowed = FALSE  /\ startedOwn = FALSE  /\ connected = {}
    /\ at = Each("idle")  /\ display = Each(NoDisplay)  /\ browser = Each(NoDisplay)
    /\ known = Each(FALSE)  /\ mounted = Each(FALSE)
    /\ watched = FALSE  /\ listening = {}  /\ strays = Each(0)
    /\ hand = Each(AtRest)  /\ onTop = Each(TRUE)  /\ focus = Each("page")
    /\ belated = Each(FALSE)  /\ blind = Each(FALSE)

GoTo(b, s) == at' = [at EXCEPT ![b] = s]

-----------------------------------------------------------------------------
(* The display, before the browser is launched (_browser_launch_kwargs).    *)

\* As if a borrowed screen were not remembered.
MayBorrowAgain == hasScreen
MayBorrow == hasScreen /\ ~borrowed
Borrows   == MayBorrow /\ ~startedOwn

Begin(b) ==
    /\ at[b] = "idle"  /\ starts < MaxStarts
    /\ starts' = starts + 1  /\ GoTo(b, "launch")
    /\ UNCHANGED <<setting, browser, known, mounted, crashes, orphans, connected, windows, touch>>

\* Headless: under CDP, or when no server comes up.
NoScreen(b) ==
    /\ Begin(b)
    /\ backend = "cdp" \/ ~Borrows
    /\ display' = [display EXCEPT ![b] = NoDisplay]
    /\ UNCHANGED <<servers, borrowed, startedOwn>>

Borrow(b) ==
    /\ Begin(b)  /\ backend = "x11"  /\ Borrows
    /\ display' = [display EXCEPT ![b] = Screen]  /\ borrowed' = TRUE
    /\ UNCHANGED <<servers, startedOwn>>

\* A number is skipped when its lock exists, or when its server does not answer.
StartServer(b) ==
    /\ Begin(b)  /\ backend = "x11"  /\ ~Borrows
    /\ \E n \in Numbers \ servers :
          /\ servers' = servers \union {n}
          /\ display' = [display EXCEPT ![b] = n]
    /\ startedOwn' = TRUE
    /\ UNCHANGED borrowed

(* The session fails: what was opened stays until the cleanup.              *)
SessionFails(b) ==
    /\ at[b] \in {"launch", "page", "calibrate", "verify", "ready"}
    /\ GoTo(b, "failed")  /\ hand' = [hand EXCEPT ![b] = AtRest]
    /\ UNCHANGED <<setting, screens, display, browser, known, mounted, count, windows,
                   onTop, focus, belated, blind>>

Launch(b) ==
    /\ at[b] = "launch"  /\ GoTo(b, "page")
    /\ browser' = [browser EXCEPT ![b] =
           IF display[b] = NoDisplay THEN Headless ELSE display[b]]
    /\ UNCHANGED <<setting, screens, display, known, mounted, count, windows, touch>>

-----------------------------------------------------------------------------
(* The input backend (_mount_input).                                        *)

\* Connect finds the page's window; a library that met the other kind raises.
CanConnect(b) == connected \subseteq {KindOf(display[b])}

OpenPage(b) ==
    /\ at[b] = "page"
    /\ \E again \in {FALSE} \union {Recycled /\ watched} : known' = [known EXCEPT ![b] = again]
    /\ IF display[b] # NoDisplay /\ CanConnect(b)
         THEN connected' = {KindOf(display[b])} /\ GoTo(b, "calibrate")
         ELSE GoTo(b, "ready") /\ UNCHANGED connected
    /\ UNCHANGED <<setting, servers, orphans, borrowed, startedOwn, display, browser,
                   mounted, count, windows, touch>>

\* No window, or no answer to the probes: the page keeps CDP.
NotCalibrated(b) ==
    /\ at[b] = "calibrate"  /\ GoTo(b, "ready")
    /\ UNCHANGED <<setting, screens, display, browser, known, mounted, count, windows, touch>>

WatchForStrayPages(b) ==
    listening' = IF known[b] THEN listening ELSE listening \union {b}

Mount(b) ==
    /\ at[b] = "calibrate"  /\ GoTo(b, "verify")
    /\ mounted' = [mounted EXCEPT ![b] = TRUE]
    /\ WatchForStrayPages(b)
    /\ UNCHANGED <<setting, screens, display, browser, known, count, watched, strays, touch>>

Verify(b) ==
    /\ at[b] = "verify"  /\ GoTo(b, "ready")
    /\ \E agrees \in BOOLEAN : mounted' = [mounted EXCEPT ![b] = agrees]
    /\ UNCHANGED <<setting, screens, display, browser, known, count, windows, touch>>

-----------------------------------------------------------------------------
(* The cleanup: the display first, then the page and the browser.           *)

\* As if a borrowed display had nothing to stop.
StopServer(d) == servers' = servers \ {d}  /\ UNCHANGED borrowed

Stop(d) ==
    /\ servers' = servers \ {d}
    /\ borrowed' = (borrowed /\ d # Screen)

CloseDisplay(b) ==
    /\ at[b] \in {"ready", "failed"}  /\ hand[b].at = "rest"
    /\ GoTo(b, "close")  /\ hand' = [hand EXCEPT ![b] = AtRest]
    /\ mounted' = [mounted EXCEPT ![b] = FALSE]
    /\ Stop(display[b])
    /\ display' = [display EXCEPT ![b] = NoDisplay]
    /\ UNCHANGED <<setting, orphans, startedOwn, connected, browser, known, count, windows,
                   onTop, focus, belated, blind>>

CloseBrowser(b) ==
    /\ at[b] = "close"  /\ GoTo(b, "idle")
    /\ browser' = [browser EXCEPT ![b] = NoDisplay]
    /\ known' = [known EXCEPT ![b] = FALSE]
    /\ watched' = (watched \/ b \in listening)  /\ listening' = listening \ {b}
    /\ strays' = [strays EXCEPT ![b] = 0]
    /\ onTop' = [onTop EXCEPT ![b] = TRUE]  /\ focus' = [focus EXCEPT ![b] = "page"]
    /\ belated' = [belated EXCEPT ![b] = FALSE]  /\ blind' = [blind EXCEPT ![b] = FALSE]
    /\ UNCHANGED <<setting, screens, display, mounted, count, hand>>

\* The process dies and another takes its place; its servers go on, with their locks.
Crash ==
    /\ crashes < MaxCrashes  /\ crashes' = crashes + 1
    /\ orphans' = servers
    /\ borrowed' = FALSE  /\ startedOwn' = FALSE  /\ connected' = {}
    /\ at' = Each("idle")  /\ display' = Each(NoDisplay)  /\ browser' = Each(NoDisplay)
    /\ known' = Each(FALSE)  /\ mounted' = Each(FALSE)
    /\ watched' = FALSE  /\ listening' = {}  /\ strays' = Each(0)
    /\ hand' = Each(AtRest)  /\ onTop' = Each(TRUE)  /\ focus' = Each("page")
    /\ belated' = Each(FALSE)  /\ blind' = Each(FALSE)
    /\ UNCHANGED <<setting, servers, starts>>

-----------------------------------------------------------------------------
(* A click (human_hover_and_click, and human_click around it).              *)

Ready(b, s) == at[b] = "ready" /\ b \in Clickers /\ hand[b].at = s
Do(b, h)    == hand' = [hand EXCEPT ![b] = h]
Hand(b, s)  == Do(b, [hand[b] EXCEPT !.at = s])
Elsewhere   == <<setting, screens, session, count>>

\* again: may the click be repeated when it opened a window (retry_on_popup)?
BeginClick(b, again) ==
    /\ Ready(b, "rest")
    /\ Do(b, [AtRest EXCEPT !.at = "aim", !.again = again])
    /\ UNCHANGED <<Elsewhere, windows, onTop, focus, belated, blind>>

\* locator.click(): no geometry, or human_click's answer to an exception.
PlainClick(b) ==
    Do(b, [hand[b] EXCEPT !.at = hand[b].then, !.presses = @ + 1])

Aim(b) ==
    /\ Ready(b, "aim")
    /\ \/ Hand(b, "press")
       \/ PlainClick(b)
       \/ hand[b].then = "look again" /\ Hand(b, "look again")
    /\ UNCHANGED <<Elsewhere, windows, onTop, focus, belated, blind>>

TakesFocus(b, out) ==
    focus' = [focus EXCEPT ![b] =
        IF out /\ @ = "controls" /\ (onTop[b] \/ ~mounted[b]) THEN "page" ELSE @]

Press(b) ==
    /\ Ready(b, "press")
    /\ Do(b, [hand[b] EXCEPT !.at = "beat", !.mark = strays[b], !.presses = @ + 1])
    /\ TakesFocus(b, TRUE)
    /\ UNCHANGED <<Elsewhere, windows, onTop, belated, blind>>

\* button_down, the pause or button_up raises, with the press out or before: nothing
\* guards them, so human_click clicks once more, whatever again says; the recovery
\* click of a text has no such answer.  raised: history, a press was out by then.
PressRaises(b) ==
    /\ Ready(b, "press")
    /\ \E out \in BOOLEAN :
          LET answer == IF hand[b].then = "rest" THEN 1 ELSE 0
          IN  /\ Do(b, [hand[b] EXCEPT !.at = hand[b].then, !.raised = out,
                                      !.presses = @ + (IF out THEN 1 ELSE 0) + answer])
              /\ TakesFocus(b, out)
    /\ UNCHANGED <<Elsewhere, windows, onTop, belated, blind>>

\* As if every click could be repeated.
RepeatsAny(b, closed) == closed /\ ~hand[b].retried
Repeats(b, closed) == closed /\ hand[b].again /\ ~hand[b].retried

\* _close_strays_since: closing one raises the browser's own window.
Check(b) ==
    LET closed == strays[b] > hand[b].mark IN
    /\ Ready(b, "beat")
    /\ strays' = [strays EXCEPT ![b] = IF closed THEN hand[b].mark ELSE @]
    /\ onTop' = [onTop EXCEPT ![b] = @ \/ closed]
    /\ belated' = [belated EXCEPT ![b] = @ /\ ~closed]
    /\ Hand(b, IF Repeats(b, closed) THEN "retry" ELSE hand[b].then)
    /\ UNCHANGED <<Elsewhere, watched, listening, focus, blind>>

\* From a fresh box; without one the click is over, and an exception is answered as above.
Retry(b) ==
    /\ Ready(b, "retry")
    /\ \/ Do(b, [hand[b] EXCEPT !.at = "press", !.retried = TRUE])
       \/ Hand(b, hand[b].then)
       \/ hand[b].then = "rest" /\ PlainClick(b)
    /\ UNCHANGED <<Elsewhere, windows, onTop, focus, belated, blind>>

\* The page's click, or its own doing, opens a window in front, and that takes the focus.
WindowOpens(b) ==
    /\ at[b] = "ready"  /\ b \in Clickers  /\ strays[b] < MaxWindows
    /\ IF b \in listening THEN strays' = [strays EXCEPT ![b] = @ + 1]
       ELSE UNCHANGED strays
    /\ onTop' = [onTop EXCEPT ![b] = FALSE]
    /\ focus' = [focus EXCEPT ![b] = "elsewhere"]
    /\ belated' = [belated EXCEPT ![b] = @ \/ hand[b].at # "beat"]
    /\ blind' = [blind EXCEPT ![b] = @ \/ hand[b].at = "keys"]
    /\ UNCHANGED <<Elsewhere, watched, listening, hand>>

-----------------------------------------------------------------------------
(* A text (human_type).                                                     *)

StartKeys(b) == Do(b, [AtRest EXCEPT !.at = "keys", !.left = TextLength])

\* Under CDP every key is sent to the element.
BeginText(b) ==
    /\ Ready(b, "rest")
    /\ IF mounted[b] THEN Do(b, [AtRest EXCEPT !.at = "focus"]) ELSE StartKeys(b)
    /\ UNCHANGED <<Elsewhere, windows, onTop, focus, belated, blind>>

\* focus_window: on a screen with a window manager it has no effect.
FocusWindow(b) ==
    /\ Ready(b, "focus")  /\ Hand(b, "look")
    /\ focus' = [focus EXCEPT ![b] =
           IF @ = "elsewhere" /\ browser[b] # Screen THEN "page" ELSE @]
    /\ UNCHANGED <<Elsewhere, windows, onTop, belated, blind>>

(* _keys_reach_the_page: a failed look counts as a yes.                      *)
Look(b, s, otherwise) ==
    /\ Ready(b, s)
    /\ \E answered \in BOOLEAN :
          /\ blind' = [blind EXCEPT ![b] = ~answered]
          /\ IF answered => focus[b] = "page" THEN StartKeys(b) ELSE Do(b, otherwise)
    /\ UNCHANGED <<Elsewhere, windows, onTop, focus, belated>>

RecoveryClick == [AtRest EXCEPT !.at = "aim", !.then = "look again", !.again = TRUE]
\* As if the text were typed in any case.
TypedAnyway   == [AtRest EXCEPT !.at = "keys", !.left = TextLength]
Refusal       == AtRest

LookFirst(b) == Look(b, "look", RecoveryClick)
LookAgain(b) == Look(b, "look again", Refusal)

Key(b) ==
    /\ Ready(b, "keys")
    /\ Do(b, IF hand[b].left > 1 THEN [hand[b] EXCEPT !.left = @ - 1] ELSE AtRest)
    /\ UNCHANGED <<Elsewhere, windows, onTop, focus, belated, blind>>

\* The browser's controls take the focus; on the user's own screen any window may.
FocusLeaves(b) ==
    /\ at[b] = "ready"  /\ b \in Clickers
    /\ \E to \in {"controls"} \union (IF browser[b] = Screen THEN {"elsewhere"} ELSE {}) :
          focus[b] # to /\ focus' = [focus EXCEPT ![b] = to]
    /\ blind' = [blind EXCEPT ![b] = @ \/ hand[b].at = "keys"]
    /\ UNCHANGED <<Elsewhere, windows, hand, onTop, belated>>

-----------------------------------------------------------------------------
Session(b) ==
    \/ NoScreen(b)  \/ Borrow(b)  \/ StartServer(b)  \/ Launch(b)  \/ OpenPage(b)
    \/ NotCalibrated(b)  \/ Mount(b)  \/ Verify(b)  \/ SessionFails(b)
    \/ CloseDisplay(b)  \/ CloseBrowser(b)

Gesture(b) ==
    \/ \E again \in BOOLEAN : BeginClick(b, again)
    \/ Aim(b)  \/ Press(b)  \/ PressRaises(b)  \/ Check(b)  \/ Retry(b)  \/ WindowOpens(b)
    \/ BeginText(b)  \/ FocusWindow(b)  \/ LookFirst(b)  \/ LookAgain(b)  \/ Key(b)
    \/ FocusLeaves(b)

Next == Crash \/ \E b \in Boards : Session(b) \/ Gesture(b)

Spec == Init /\ [][Next]_vars

(* The variables are what their comments say.                               *)
TypeOK ==
    /\ backend \in {"cdp", "x11"}  /\ hasScreen \in BOOLEAN
    /\ at \in [Boards -> {"idle", "launch", "page", "calibrate", "verify", "ready",
                          "failed", "close"}]
    /\ display \in [Boards -> Displays \union {NoDisplay}]
    /\ browser \in [Boards -> Displays \union {NoDisplay, Headless}]
    /\ {known, mounted} \subseteq [Boards -> BOOLEAN]
    /\ servers \subseteq Numbers  /\ orphans \subseteq servers
    /\ connected \subseteq {"screen", "own"}
    /\ strays \in [Boards -> 0..MaxWindows]
    /\ focus \in [Boards -> {"page", "controls", "elsewhere"}]

(* One browser per display: where a worker steers a browser with the X       *)
(* pointer, no other browser is, but one whose cleanup is under way.  A      *)
(* borrowed screen is given back before its browser is closed, so the        *)
(* stronger claim of display.py's header is not true of it.                  *)
OnePointerPerDisplay ==
    \A b, c \in Boards :
        b # c /\ mounted[b] /\ browser[c] = browser[b] => at[c] = "close"

(* Whatever fails in a session, its cleanup leaves no X server running and   *)
(* the borrowed screen free for the next; a process that died leaves its own.*)
ScreensAreReturned ==
    (\A b \in Boards : at[b] = "idle") => servers = orphans /\ ~borrowed

(* Under X, a press goes to the browser's own window, unless a window came   *)
(* when no click was looking; and a key goes to the page, unless the focus   *)
(* left after the last look or that look failed.  Windows a click opens, and *)
(* a focus lost before the text, are found and repaired, or the text is      *)
(* refused.                                                                  *)
Pressed(b) == hand[b].at = "press" /\ hand'[b].presses > hand[b].presses
Struck(b)  == hand[b].at = "keys" /\ hand'[b] # hand[b] /\ at'[b] = "ready"

InputReachesThePage ==
    [][\A b \in Boards : mounted[b] =>
          /\ Pressed(b) => onTop[b] \/ belated[b]
          /\ Struck(b) => focus[b] = "page" \/ blind[b]]_vars

(* A click is repeated at most once, and never where the caller said that it *)
(* must not happen twice (the send button), whichever windows open and       *)
(* whichever step before a press or after it fails.  Only where the pressing *)
(* itself raised with the press out does human_click add one of its own.     *)
NoRepeat ==
    \A b \in Boards :
        hand[b].presses <= (IF hand[b].again THEN 2 ELSE 1) + (IF hand[b].raised THEN 1 ELSE 0)

(* The remark at "not retrying": the caller has said that the action is not  *)
(* safe to repeat, and sending twice is not recoverable.  An exception of    *)
(* the press is answered with a second click all the same.                   *)
SingleAttempt == \A b \in Boards : ~hand[b].again => hand[b].presses <= 1

(* The comment on watch_for_stray_pages, "Register once per context": every  *)
(* page steered with the X pointer reports the windows it opens.             *)
StraysAreSeen == \A b \in Boards : mounted[b] => b \in listening

(* The header of display.py: one browser per display, never shared.          *)
OneBrowserPerDisplay ==
    \A b, c \in Boards : b # c /\ browser[b] = browser[c] => browser[b] \notin Displays

(* The remark on _started_own_display: a process that has started a server   *)
(* of its own stops borrowing, so that the next connection works.  It does   *)
(* not when the screen was borrowed first: the other kind of server then     *)
(* refuses every later board of the process.                                 *)
PointerNotLost ==
    [][\A b \in Boards : OpenPage(b) /\ display[b] # NoDisplay => CanConnect(b)]_vars
================================================================================
