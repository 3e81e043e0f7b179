------------------------------ MODULE FreeSearch -------------------------------
(***************************************************************************)
(* A free search: the daily usage row is looked up, a scraper without an   *)
(* account reads snippets off a board, and the usage row is counted up.    *)
(*                                                                         *)
(* Every request builds its own scrapers and browser, so two scrapes share *)
(* nothing: one is followed at a time.  The rows are shared: lookups and   *)
(* recordings of several requests interleave.  HelloWork is the scraper    *)
(* that is launched; the other three are wired, and modelled as well.      *)
(*                                                                         *)
(* The site is the environment: what loads, what raises, which cards a     *)
(* page shows, also when it is opened again.  A card is looked up by its   *)
(* place at every access (a locator), so the list can move under a reader. *)
(***************************************************************************)
EXTENDS Integers, Sequences, SequencesExt

CONSTANTS
    Requests,    \* free searches
    UserOf,      \* the user of a request
    Scrapers,    \* a subset of "hw", "wttj", "apec", "indeed"
    Offers,      \* what a card may stand for
    Decoys,      \* the offers that Indeed hides from people
    Target,      \* target_count, all of it for one board
    PageLimit,   \* max_pages of a scraper
    Tries,       \* 3: looks for the search field and for results
    MaxCards,    \* bound: cards on a page
    LastDay      \* bound: days

ASSUME FreeSearchAssumption ==
    /\ Scrapers \subseteq {"hw", "wttj", "apec", "indeed"}  /\ Decoys \subseteq Offers
    /\ {Target, Tries, MaxCards, LastDay} \subseteq Nat  /\ PageLimit \in [Scrapers -> Nat]
    /\ "no request" \notin Requests  /\ {"no offer", "results"} \cap Offers = {}

Searchers == {UserOf[r] : r \in Requests}
UsageRows == Searchers \X (0 .. LastDay)
NoRow     == -1
NoRequest == "no request"
Nowhere   == "no offer"     \* a page that is not an offer's
Results   == "results"

VARIABLES
    scraper,     \* the scraper that is launched
    today,       \* the UTC date
    usage,       \* searches_count of the row of a user and a day
    phase,       \* where a request is
    held,        \* the row a recording has read, if it has
    turn,        \* the request whose scrape is followed
    step,        \* where its scraper is
    tries,       \* attempt of the loop it is in
    resultsPage, \* page_number
    shown,       \* the cards of the results page, as the site shows them now
    count,       \* how many there were when the page was counted
    nth,         \* the card in hand
    title,       \* whose title was read
    spot,        \* what the browser shows
    snippets,    \* results
    jks,         \* seen_jk
    parts,       \* how much of playwright, browser, context, page is open
    screen,      \* _x_display is open
    recorded,    \* history: recordings committed, by row
    overlapped,  \* history: rows that two recordings had read at once
    moved,       \* history: the list moved while a card was being read
    stuck        \* history: what raised when it was closed

rows    == <<usage, held, recorded, overlapped>>
place   == <<resultsPage, shown, count, nth, title, spot, tries>>
harvest == <<snippets, jks, moved>>
machine == <<parts, screen, stuck>>
searchVars == <<scraper, today, rows, phase, turn, step, place, harvest, machine>>

Pages == {l \in SeqOf(Offers, MaxCards) : l # <<>> /\ IsInjective(l)}

Fresh ==
    /\ step = "off"  /\ tries = 0  /\ resultsPage = 1  /\ shown = <<>>  /\ count = 0
    /\ nth = 1  /\ title = Nowhere  /\ spot = Nowhere  /\ snippets = <<>>  /\ jks = {}
    /\ moved = FALSE

Restarted ==
    /\ step' = "off"  /\ tries' = 0  /\ resultsPage' = 1  /\ shown' = <<>>  /\ count' = 0
    /\ nth' = 1  /\ title' = Nowhere  /\ spot' = Nowhere  /\ snippets' = <<>>  /\ jks' = {}
    /\ moved' = FALSE

SearchInit ==
    /\ scraper \in Scrapers  /\ today = 0
    /\ usage = [x \in UsageRows |-> NoRow]
    /\ phase = [r \in Requests |-> "idle"]
    /\ held = [r \in Requests |-> {}]
    /\ recorded = [x \in UsageRows |-> 0]  /\ overlapped = {}
    /\ turn = NoRequest  /\ Fresh  /\ parts = 0  /\ screen = FALSE  /\ stuck = {}

-----------------------------------------------------------------------------
(* The request: check, scrape, record (FreeSearchUseCase.execute).          *)

Goes(r, p) == phase' = [phase EXCEPT ![r] = p]
Row(r)     == <<UserOf[r], today>>
Created(x) == IF usage[x] = NoRow THEN 0 ELSE usage[x]

\* An insert that waits for its commit makes the next one wait.
HoldsRow(r, x) == \E h \in held[r] : h.row = x
Unlocked(x) == usage[x] # NoRow \/ \A r \in Requests : ~HoldsRow(r, x)

(* The answer of can_run is read and not used.                              *)
CheckUsage(r) ==
    /\ phase[r] = "idle"  /\ Unlocked(Row(r))
    /\ usage' = [usage EXCEPT ![Row(r)] = Created(Row(r))]
    /\ Goes(r, "checked")
    /\ UNCHANGED <<scraper, today, held, recorded, overlapped, turn, step, place, harvest, machine>>

ReadUsage(r) ==
    /\ phase[r] = "scraped"  /\ Unlocked(Row(r))
    /\ held' = [held EXCEPT ![r] = {[row |-> Row(r), count |-> Created(Row(r))]}]
    /\ overlapped' = overlapped \union
           {x \in {Row(r)} : \E q \in Requests : HoldsRow(q, x)}
    /\ Goes(r, "recording")
    /\ UNCHANGED <<scraper, today, usage, recorded, turn, step, place, harvest, machine>>

\* As if the row of the day were looked up again at the save.
RowSavedToday(h) == <<h.row[1], today>>
RowSaved(h) == h.row

(* The merge writes the count that was read, plus one.                      *)
RecordUsage(r) ==
    /\ phase[r] = "recording"
    /\ \E h \in held[r] :
          /\ usage' = [usage EXCEPT ![RowSaved(h)] = h.count + 1]
          /\ recorded' = [recorded EXCEPT ![h.row] = @ + 1]
    /\ held' = [held EXCEPT ![r] = {}]
    /\ Goes(r, "answered")
    /\ UNCHANGED <<scraper, today, overlapped, turn, step, place, harvest, machine>>

(* A unit of work fails: it is rolled back, and the answer is an error.     *)
UsageFails(r) ==
    /\ phase[r] \in {"idle", "scraped", "recording"}
    /\ held' = [held EXCEPT ![r] = {}]  /\ Goes(r, "failed")
    /\ UNCHANGED <<scraper, today, usage, recorded, overlapped, turn, step, place, harvest, machine>>

Midnight ==
    /\ today < LastDay  /\ today' = today + 1
    /\ UNCHANGED <<scraper, rows, phase, turn, step, place, harvest, machine>>

-----------------------------------------------------------------------------
(* The browser. *)

In(w, s) == turn # NoRequest /\ scraper = w /\ step = s
Go(s)    == step' = s

Scrape(r) ==
    /\ phase[r] = "checked"  /\ turn = NoRequest
    /\ turn' = r  /\ Goes(r, "scraping")  /\ stuck' = {}
    /\ \/ parts' = 4 /\ Go("home")
       \/ parts' \in 0 .. 3 /\ Go("close")
    /\ UNCHANGED <<scraper, today, rows, place, harvest>>

HwBrowser(r)   == scraper = "hw"   /\ Scrape(r) /\ screen' = FALSE
ApecBrowser(r) == scraper = "apec" /\ Scrape(r) /\ screen' = FALSE
WttjBrowser(r) == scraper = "wttj" /\ Scrape(r) /\ screen' = FALSE

\* Indeed asks for a display, and goes on without one.
IndeedBrowser(r) == scraper = "indeed" /\ Scrape(r) /\ screen' \in BOOLEAN

\* The four closes share a try: one that raises leaves itself and the rest.
Shuts ==
    /\ parts' \in 0 .. parts
    /\ phase' = [phase EXCEPT ![turn] = "scraped"]  /\ turn' = NoRequest
    /\ Restarted
    /\ UNCHANGED <<scraper, today, rows>>
StuckParts == {x \in {"browser"} : parts' > 0}

HwClose   == In("hw", "close")   /\ Shuts /\ stuck' = StuckParts /\ UNCHANGED screen
ApecClose == In("apec", "close") /\ Shuts /\ stuck' = StuckParts /\ UNCHANGED screen
WttjClose == In("wttj", "close") /\ Shuts /\ stuck' = StuckParts /\ UNCHANGED screen

\* Whatever the closes did, the display is stopped; that can raise as well.
StopsScreen == screen
IndeedClose ==
    /\ In("indeed", "close")  /\ Shuts
    /\ IF StopsScreen
         THEN \/ screen' = FALSE /\ stuck' = StuckParts
              \/ screen' = TRUE  /\ stuck' = StuckParts \union {"screen"}
         ELSE UNCHANGED screen /\ stuck' = StuckParts

-----------------------------------------------------------------------------
(* From the home page to the results. *)

Walks == UNCHANGED <<scraper, today, rows, phase, turn, harvest, machine,
                     resultsPage, shown, count, nth, title, spot>>

\* One look of a loop: it finds what it looks for, or it has one attempt less.
Finds(s)    == Go(s) /\ tries' = 0
Misses(end) == /\ tries' = (tries + 1) % Tries
               /\ Go(IF tries' = 0 THEN end ELSE step)
\* An exception that nobody catches on the way ends the scrape.
Raises == Go("close") /\ tries' = 0

\* After a miss the page is reloaded; after the last one the field is tried anyway.
HwHome     == In("hw", "home")     /\ (Finds("submit") \/ Misses("submit") \/ Raises) /\ Walks
ApecHome   == In("apec", "home")   /\ (Finds("menu") \/ Misses("menu") \/ Raises) /\ Walks
ApecMenu   == In("apec", "menu")   /\ (Finds("submit") \/ Misses("submit")) /\ Walks
WttjHome   == In("wttj", "home")   /\ (Finds("submit") \/ Raises) /\ Walks
IndeedHome == In("indeed", "home") /\ (Finds("submit") \/ Misses("direct") \/ Raises) /\ Walks

HwSubmit     == In("hw", "submit")     /\ (Finds("results") \/ Raises) /\ Walks
ApecSubmit   == In("apec", "submit")   /\ (Finds("results") \/ Raises) /\ Walks
WttjSubmit   == In("wttj", "submit")   /\ (Finds("results") \/ Raises) /\ Walks
\* Indeed knows the address of its results.
IndeedSubmit == In("indeed", "submit") /\ (Finds("results") \/ Finds("direct") \/ Raises) /\ Walks
IndeedDirect == In("indeed", "direct") /\ (Finds("results") \/ Raises) /\ Walks

\* A page of results: it is counted once, and shown as the site likes.
Arrives ==
    /\ shown' \in Pages  /\ count' = Len(shown')  /\ nth' = 1  /\ spot' = Results
    /\ title' = Nowhere
CountsCards == Go("card") /\ tries' = 0 /\ Arrives
Stays == UNCHANGED <<shown, count, nth, spot, title>>
ShowsResults(giveUp) ==
    /\ CountsCards \/ ((Misses("close") \/ (giveUp /\ Raises)) /\ Stays)
    /\ UNCHANGED <<scraper, today, rows, phase, turn, harvest, machine, resultsPage>>

HwResults   == In("hw", "results")   /\ ShowsResults(FALSE)
ApecResults == In("apec", "results") /\ ShowsResults(FALSE)
\* One look only.
WttjResults == In("wttj", "results") /\ (CountsCards \/ (Raises /\ Stays))
               /\ UNCHANGED <<scraper, today, rows, phase, turn, harvest, machine, resultsPage>>
\* The class names may not resolve.
IndeedResults == In("indeed", "results") /\ ShowsResults(TRUE)

-----------------------------------------------------------------------------
(* The cards. *)

Reads == UNCHANGED <<scraper, today, rows, phase, turn, machine, resultsPage, tries, count>>

Full     == Len(snippets) >= Target
CardLeft == ~Full /\ nth <= count
\* The card at the place in hand, as the list is now.
CardHere == spot = Results /\ nth <= Len(shown)
NextCard == nth' = nth + 1 /\ Go("card") /\ title' = Nowhere

\* The list may move between two accesses to a card.
ListMoves ==
    /\ turn # NoRequest  /\ step \in {"open", "data"}  /\ ~moved
    /\ shown' \in Pages \ {shown}  /\ moved' = TRUE
    /\ UNCHANGED <<scraper, today, rows, phase, turn, machine, resultsPage, tries, count, step,
                   nth, title, spot, snippets, jks>>

Skips == NextCard /\ UNCHANGED <<shown, spot, snippets, jks>> /\ moved' = FALSE

\* A title that cannot be read skips the card.
ReadsTitle ==
    \/ /\ CardHere  /\ title' = shown[nth]  /\ Go("open")
       /\ UNCHANGED <<nth, shown, spot, harvest>>
    \/ Skips

HwTitle   == In("hw", "card")   /\ CardLeft /\ ReadsTitle /\ Reads
ApecTitle == In("apec", "card") /\ CardLeft /\ ReadsTitle /\ Reads
WttjTitle == In("wttj", "card") /\ CardLeft /\ ReadsTitle /\ Reads

\* A decoy is passed over, and so is a card that cannot be looked at.
IsDecoy(o) == o \in Decoys
IndeedDecoy ==
    /\ In("indeed", "card")  /\ CardLeft  /\ Reads
    /\ \/ /\ CardHere  /\ ~IsDecoy(shown[nth])  /\ Go("data")
          /\ UNCHANGED <<nth, title, shown, spot, harvest>>
       \/ Skips

\* A click leads to the offer of the card, to another page, or nowhere.
Opens ==
    /\ CardHere  /\ spot' \in {shown[nth], Nowhere, Results}  /\ Go("offer")
    /\ UNCHANGED <<nth, title, shown, harvest>>

\* Back to the results, which the site may show anew; or a goto that raised twice.
Returns ==
    /\ NextCard
    /\ \/ spot' = Results /\ shown' \in Pages
       \/ UNCHANGED <<spot, shown>>

Appends(link) == snippets' = Append(snippets, [title |-> title, link |-> link, moved |-> moved])
Keeps(link)   == Appends(link) /\ moved' = FALSE /\ UNCHANGED jks
Leaves        == moved' = FALSE /\ UNCHANGED <<snippets, jks>>

HwOpen   == In("hw", "open")   /\ (Opens \/ (Returns /\ Leaves)) /\ Reads
ApecOpen == In("apec", "open") /\ (Opens \/ (Returns /\ Leaves)) /\ Reads

\* The content has rendered, and the address is an offer's.
IsOffer == spot \in Offers
HwOffer ==
    /\ In("hw", "offer")  /\ Returns  /\ Reads
    /\ (IsOffer /\ Keeps(spot)) \/ Leaves

\* APEC takes the address one second after the click, whatever it is.
ApecOffer ==
    /\ In("apec", "offer")  /\ Returns  /\ Reads
    /\ Keeps(spot)

\* WTTJ and Indeed do not open a card: its link is on it.
WttjLink ==
    /\ In("wttj", "open")  /\ Reads  /\ NextCard  /\ UNCHANGED <<shown, spot>>
    /\ (CardHere /\ Keeps(shown[nth])) \/ Leaves

\* As if seen_jk were left out.
IsNewKeyAlways(o) == TRUE
\* One call reads title and key; a key is taken once.
IsNewKey(o) == o \notin jks
IndeedData ==
    /\ In("indeed", "data")  /\ Reads  /\ NextCard  /\ UNCHANGED <<shown, spot>>
    /\ moved' = FALSE
    /\ \/ /\ CardHere  /\ IsNewKey(shown[nth])
          /\ jks' = jks \union {shown[nth]}
          /\ snippets' = Append(snippets, [title |-> shown[nth], link |-> shown[nth], moved |-> moved])
       \/ UNCHANGED <<snippets, jks>>

-----------------------------------------------------------------------------
(* The next page. *)

PageDone == step = "card" /\ ~CardLeft
LastPage == resultsPage >= PageLimit[scraper]
Turns ==
    /\ resultsPage' = resultsPage + 1
    /\ IF LastPage THEN Go("close") /\ Stays ELSE Go("card") /\ Arrives
Pagination ==
    /\ PageDone
    /\ (~Full /\ spot = Results /\ Turns) \/ (Go("close") /\ UNCHANGED resultsPage /\ Stays)
    /\ UNCHANGED <<scraper, today, rows, phase, turn, harvest, machine, tries>>

HwPagination     == turn # NoRequest /\ scraper = "hw"     /\ Pagination
ApecPagination   == turn # NoRequest /\ scraper = "apec"   /\ Pagination
WttjPagination   == turn # NoRequest /\ scraper = "wttj"   /\ Pagination
IndeedPagination == turn # NoRequest /\ scraper = "indeed" /\ Pagination

-----------------------------------------------------------------------------

HwStep == HwClose \/ HwHome \/ HwSubmit \/ HwResults \/ HwTitle \/ HwOpen \/ HwOffer \/ HwPagination
ApecStep == ApecClose \/ ApecHome \/ ApecMenu \/ ApecSubmit \/ ApecResults \/ ApecTitle
               \/ ApecOpen \/ ApecOffer \/ ApecPagination
WttjStep == WttjClose \/ WttjHome \/ WttjSubmit \/ WttjResults \/ WttjTitle \/ WttjLink \/ WttjPagination
IndeedStep == IndeedClose \/ IndeedHome \/ IndeedSubmit \/ IndeedDirect \/ IndeedResults
               \/ IndeedDecoy \/ IndeedData \/ IndeedPagination
ScraperStep == HwStep \/ ApecStep \/ WttjStep \/ IndeedStep

RequestStep(r) ==
    \/ CheckUsage(r) \/ ReadUsage(r) \/ RecordUsage(r) \/ UsageFails(r)
    \/ HwBrowser(r) \/ ApecBrowser(r) \/ WttjBrowser(r) \/ IndeedBrowser(r)

SearchNext == ScraperStep \/ ListMoves \/ Midnight \/ \E r \in Requests : RequestStep(r)

SearchSpec == SearchInit /\ [][SearchNext]_searchVars

-----------------------------------------------------------------------------

(* The usage row counts the searches that were recorded on it: never more,   *)
(* and fewer only when two recordings had read it at once (execute looks the *)
(* row up, adds one and merges it, in a unit of work of its own).            *)
CountedOnce ==
    \A x \in UsageRows :
        /\ Created(x) <= recorded[x]
        /\ x \notin overlapped => Created(x) = recorded[x]

(* A snippet's link is that of the offer whose title it shows, unless the    *)
(* list moved while its card was read; no decoy among Indeed's, none twice.  *)
(* APEC's link is whatever the page was a second after the click.            *)
LinksFollowTitles ==
    /\ \A k \in DOMAIN snippets : ~snippets[k].moved =>
          /\ scraper # "apec" => snippets[k].link = snippets[k].title
          /\ scraper = "indeed" => snippets[k].link \notin Decoys
    /\ scraper = "indeed" => IsInjective(snippets)

(* A scrape that has ended, however it ended, has closed its browser and     *)
(* given its display back, unless closing that very thing raised.            *)
NothingLeftOpen ==
    turn = NoRequest => /\ parts > 0 => "browser" \in stuck
                        /\ screen => "screen" \in stuck

(* What the code's text says, and the runs refute (checked by hand):         *)
(* routers/free_search.py:34 "Limited to 10 searches per user per day".      *)
WithinDailyLimit(limit) == \A x \in UsageRows : recorded[x] <= limit
================================================================================
