-------------------------------- MODULE Scrape ---------------------------------
(***************************************************************************)
(* The scraping node of the three board workers (get_matched_jobs): it     *)
(* walks the pages of results, opens cards one by one, keeps the offers it *)
(* can apply to on the board itself, and finds its way back to the list.   *)
(*                                                                         *)
(* The site is the environment: which cards a page shows and in what order *)
(* they come back, what loads, what raises.  APEC visits cards in a        *)
(* shuffled order and remembers them by hash; HelloWork walks by index and *)
(* remembers nothing; WTTJ always takes the first card it has not handled, *)
(* because an opened card leaves the list.                                 *)
(***************************************************************************)
EXTENDS Integers, Sequences, SequencesExt, FiniteSetsExt

CONSTANTS
    Boards,       \* a subset of "apec", "hellowork", "wttj"
    Postings,     \* what a card may stand for
    Keys,         \* hashes of company and title
    KeyOf,        \* the hash of a posting: a repost has the one it had
    Ignored,      \* hashes of the user's offers of the last days
    External,     \* postings applied to on the recruiter's own site
    Own,          \* postings of the user's current company
    WorkerLimit,  \* worker_job_limit
    HardCap,      \* 12: no worker keeps more
    MaxPages,     \* 20: result pages a scrape opens
    MaxCards,     \* bound: cards on a page
    MaxHovers,    \* 2: times WTTJ passes over one card
    StallFloor,   \* 15: the least no-progress cap of WTTJ
    MaxMissed     \* bound: kill reads that fail after the kill

ASSUME ScrapeAssumption ==
    /\ Boards \subseteq {"apec", "hellowork", "wttj"}
    /\ KeyOf \in [Postings -> Keys]
    /\ Ignored \subseteq Keys  /\ External \subseteq Postings  /\ Own \subseteq Postings
    /\ {WorkerLimit, HardCap, MaxPages, MaxCards, MaxHovers, StallFloor, MaxMissed}
           \subseteq Nat

VARIABLES
    board,    \* whose worker this is
    at,       \* where the node is
    hashes,   \* ignored_hashes: empty when the query failed
    page,     \* page_number
    list,     \* the cards of the results page, as the site shows them now
    place,    \* is the browser on the results, or elsewhere
    todo,     \* positions still to visit (APEC, HelloWork)
    cur,      \* the posting in hand
    seen,     \* seen_jobs (APEC: hashes), processed_hrefs (WTTJ: postings)
    hovers,   \* hover_skip_counts
    streak,   \* no_progress_streak
    found,    \* found_job_entities
    result,   \* what the node returned
    killed,   \* the user stopped the search
    atKill,   \* history: offers found when that happened
    missed    \* history: kill reads that failed since

memory == <<seen, hovers, streak>>
site   == <<list, place>>
vars   == <<board, at, hashes, page, site, todo, cur, memory, found, result, killed,
            atKill, missed>>

Limit    == Min({WorkerLimit, HardCap})
StallCap == Max({3 * Limit, StallFloor})

(* What a page may show: distinct cards, at least one.                       *)
CardLists == {l \in SeqOf(Postings, MaxCards) : l # <<>> /\ IsInjective(l)}
Rebuilt   == {l \in CardLists : ToSet(l) = ToSet(list)}

Init ==
    /\ board \in Boards
    /\ at = "start"  /\ hashes = {}  /\ page = 1
    /\ list = <<>>  /\ place = "results"  /\ todo = <<>>
    /\ cur \in {CHOOSE p \in Postings : TRUE}
    /\ seen = {}  /\ hovers = [p \in Postings |-> 0]  /\ streak = 0
    /\ found = <<>>  /\ result = [how |-> "none", offers |-> <<>>]
    /\ killed = FALSE  /\ atKill = 0  /\ missed = 0

-----------------------------------------------------------------------------
(* Ways out. *)

Return(how, offers) ==
    /\ at' = "over"
    /\ result' = [how |-> how, offers |-> offers]
    /\ UNCHANGED <<board, hashes, page, site, todo, cur, memory, found, killed, atKill>>

(* The end of the walk, or a kill that was seen: all there is. What reaches  *)
(* the node's own handler: an error, and no offers.                          *)
Complete == Return("done", found)  /\ UNCHANGED missed
Stopped  == killed  /\ Return("stopped", found)  /\ UNCHANGED missed
Critical == Return("critical", <<>>)  /\ UNCHANGED missed

(* The read of the kill switch fails open.                                  *)
GoesOn == IF killed THEN missed < MaxMissed /\ missed' = missed + 1 ELSE UNCHANGED missed

-----------------------------------------------------------------------------
(* Pages. *)

LoadHashes ==
    /\ at = "start"  /\ at' = "page"
    /\ hashes' \in {Ignored, {}}
    /\ UNCHANGED <<board, page, site, todo, cur, memory, found, result, killed, atKill,
                   missed>>

(* The order of visits: APEC's is a permutation (drawn from the next nine    *)
(* cards left, with some put off to the end).                                *)
PlanCardVisitOrder(n) == {o \in SeqOf(1..n, n) : Len(o) = n /\ IsInjective(o)}

VisitOrders(l) ==
    CASE board = "apec"      -> PlanCardVisitOrder(Len(l))
      [] board = "hellowork" -> {[i \in 1..Len(l) |-> i]}
      [] board = "wttj"      -> {<<>>}

(* Mutant: what was seen is forgotten on the next page.                      *)
ShowCardsAfresh(l) ==
    /\ at' = "card"  /\ list' = l  /\ todo' \in VisitOrders(l)  /\ streak' = 0
    /\ seen' = {}
    /\ UNCHANGED <<board, hashes, page, place, cur, hovers, found, result, killed, atKill>>

ShowCards(l) ==
    /\ at' = "card"  /\ list' = l  /\ todo' \in VisitOrders(l)  /\ streak' = 0
    /\ UNCHANGED <<board, hashes, page, place, cur, seen, hovers, found, result, killed,
                   atKill>>

OpenPage ==
    /\ at = "page"
    /\ \/ Complete  /\ (Len(found) >= Limit \/ page > MaxPages)
       \/ Len(found) < Limit  /\ page <= MaxPages
          /\ \/ Stopped
             \/ GoesOn  /\ \E l \in CardLists : ShowCards(l)
             \/ Complete                                      \* no card shows
             \/ Critical

(* The next page, if there is one to click; stranded, there is none. Mutant: *)
(* the page is turned but not counted.                                       *)
PageAgain == page
PageAfter == page + 1

TurnPage ==
    /\ at = "turn"
    /\ \/ Complete
       \/ /\ Len(found) < Limit  /\ place = "results"
          /\ at' = "page"  /\ page' = PageAfter
          /\ UNCHANGED <<board, hashes, site, todo, cur, memory, found, result, killed,
                         atKill, missed>>

LeavePage ==
    /\ at' = "turn"
    /\ UNCHANGED <<board, hashes, page, site, todo, cur, memory, found, result, killed,
                   atKill>>

-----------------------------------------------------------------------------
(* Cards: a kill check, then the card is read and passed over or opened. A   *)
(* stranded worker waits for a card that is not there until that raises.     *)

Reachable(i) == place = "results" /\ i <= Len(list)

NextCard(next, memory_) ==
    /\ at' = next  /\ seen' = memory_
    /\ todo' = Tail(todo)
    /\ UNCHANGED <<board, hashes, page, site, hovers, streak, found, result, killed,
                   atKill>>

ApecCard ==
    LET i == Head(todo)
        p == list[i]
    IN  /\ at = "card"  /\ board = "apec"
        /\ \/ /\ todo = <<>> \/ Len(found) >= Limit
              /\ LeavePage  /\ UNCHANGED missed
           \/ /\ todo # <<>>  /\ Len(found) < Limit
              /\ \/ Stopped
                 \/ (killed => missed < MaxMissed)  /\ Critical
                 \/ /\ Reachable(i)  /\ GoesOn
                    /\ \/ NextCard("card", seen)  /\ UNCHANGED cur      \* no title
                       \/ NextCard("card", seen \cup {KeyOf[p]})  /\ UNCHANGED cur
                          /\ KeyOf[p] \in seen \cup hashes
                       \/ NextCard("open", seen \cup {KeyOf[p]})  /\ cur' = p
                          /\ KeyOf[p] \notin seen \cup hashes

HelloWorkCard ==
    LET i == Head(todo)
        p == list[i]
    IN  /\ at = "card"  /\ board = "hellowork"
        /\ \/ todo = <<>>  /\ LeavePage  /\ UNCHANGED missed
           \/ /\ todo # <<>>
              /\ \/ Stopped
                 \/ /\ GoesOn
                    /\ \/ Len(found) >= Limit  /\ LeavePage
                       \/ /\ Len(found) < Limit
                          /\ \/ NextCard("flee", seen)  /\ UNCHANGED cur
                             \/ NextCard("card", seen)  /\ UNCHANGED cur  /\ Reachable(i)
                             \/ NextCard("back", seen)  /\ UNCHANGED cur  /\ Reachable(i)
                                /\ KeyOf[p] \in hashes
                             \/ NextCard("open", seen)  /\ cur' = p  /\ Reachable(i)
                                /\ KeyOf[p] \notin hashes

(* WTTJ: a card it cannot read, or will not apply to, is processed.          *)
Poison(p, next, s) ==
    /\ at' = next  /\ seen' = seen \cup {p}  /\ streak' = s
    /\ UNCHANGED <<board, hashes, page, todo, hovers, found, result, killed, atKill>>

Hover(p) ==
    /\ hovers[p] < MaxHovers
    /\ hovers' = [hovers EXCEPT ![p] = @ + 1]  /\ streak' = streak + 1
    /\ UNCHANGED <<board, at, hashes, page, site, todo, cur, seen, found, result, killed,
                   atKill>>

Take(p) ==
    /\ at' = "open"  /\ cur' = p
    /\ UNCHANGED <<board, hashes, page, site, todo, memory, found, result, killed, atKill>>

WttjCard ==
    LET unprocessed == {i \in DOMAIN list : list[i] \notin seen}
        stalled == streak >= StallCap \/ place # "results" \/ unprocessed = {}
    IN  /\ at = "card"  /\ board = "wttj"
        /\ \/ Len(found) >= Limit  /\ LeavePage  /\ UNCHANGED missed
           \/ /\ Len(found) < Limit
              /\ \/ Stopped
                 \/ GoesOn  /\ stalled  /\ LeavePage
                 \/ /\ GoesOn  /\ ~stalled
                    /\ \E i \in unprocessed :
                          LET p == list[i]
                              unwanted == p \in Own \/ KeyOf[p] \in hashes
                          IN  /\ \A j \in unprocessed : i <= j
                              /\ \/ Poison(p, "card", streak + 1)  /\ UNCHANGED <<site, cur>>
                                 \/ Poison(p, "flee", streak + 1)  /\ UNCHANGED <<site, cur>>
                                 \/ ~unwanted  /\ Hover(p)
                                 \/ ~unwanted  /\ Take(p)

-----------------------------------------------------------------------------
(* Opening the card in hand: three clicks at most. A click that navigated    *)
(* before it failed leaves the browser on a page with no cards to retry.     *)

Go(next, to) ==
    /\ at' = next  /\ place' = to
    /\ UNCHANGED <<board, hashes, page, list, todo, cur, memory, found, result, killed,
                   atKill, missed>>

ApecOpen ==
    /\ at = "open"  /\ board = "apec"
    /\ \/ Go("offer", "elsewhere")
       \/ Go("card", "results")
       \/ Go("card", "elsewhere")                  \* click_success is False: continue

HelloWorkOpen ==
    /\ at = "open"  /\ board = "hellowork"
    /\ \/ Go("offer", "elsewhere")
       \/ Go("back", "elsewhere")                  \* not the page of an offer
       \/ Go("card", "results")
       \/ Go("card", "elsewhere")

WttjOpen ==
    /\ at = "open"  /\ board = "wttj"
    /\ UNCHANGED <<cur, missed>>
    /\ \/ Poison(cur, "offer", streak)  /\ place' = "elsewhere"
          /\ list' \in {list} \cup {RemoveAt(list, i) : i \in {j \in DOMAIN list : list[j] = cur}}
       \/ Poison(cur, "retreat", streak + 1)  /\ place' \in {"results", "elsewhere"}
          /\ UNCHANGED list

-----------------------------------------------------------------------------
(* On the offer: kept if the board takes the application itself.             *)

Keep(next) ==
    /\ found' = Append(found, cur)  /\ at' = next
    /\ UNCHANGED <<board, hashes, page, site, todo, cur, memory, result, killed, atKill,
                   missed>>

ApecOffer ==
    /\ at = "offer"  /\ board = "apec"
    /\ \/ Go("back", place)
       \/ cur \notin External  /\ Keep("back")      \* the link says to=int
       \/ Critical

(* Internal is what showed no external form within three seconds.            *)
HelloWorkOffer ==
    /\ at = "offer"  /\ board = "hellowork"
    /\ Go("back", place) \/ Go("flee", place) \/ Keep("back")

WttjOffer ==
    /\ at = "offer"  /\ board = "wttj"
    /\ \/ Go("back", place)
       \/ Keep("back")
       \/ /\ at' = "flee"  /\ streak' = streak + 1
          /\ UNCHANGED <<board, hashes, page, site, todo, cur, seen, hovers, found, result,
                         killed, atKill, missed>>

-----------------------------------------------------------------------------
(* Back to the results, which the site may show in another order.            *)

BackOn(next, s) ==
    /\ at' = next  /\ place' = "results"  /\ list' \in Rebuilt \cup {list}
    /\ streak' = s
    /\ UNCHANGED <<board, hashes, page, todo, cur, seen, hovers, found, result, killed,
                   atKill, missed>>

(* Browser back is outside any try; a missing list is only logged.           *)
ApecBack ==
    /\ at = "back"  /\ board = "apec"
    /\ BackOn("card", streak) \/ Go("card", "elsewhere") \/ Critical

HelloWorkBack ==
    /\ at \in {"back", "flee"}  /\ board = "hellowork"
    /\ \/ BackOn("card", streak)
       \/ \E to \in {"results", "elsewhere"} : Go("turn", to)

(* The way back is a link of the offer's page: from the results it fails.    *)
(* After an offer, progress; after a click that failed, whatever happens the *)
(* next card is tried.                                                       *)
WttjBack ==
    /\ at \in {"back", "flee", "retreat"}  /\ board = "wttj"
    /\ \/ place = "elsewhere"  /\ BackOn("card", IF at = "back" THEN 0 ELSE streak)
       \/ Go(IF at = "retreat" THEN "card" ELSE "turn", place)

-----------------------------------------------------------------------------
Kill ==
    /\ ~killed  /\ at # "over"
    /\ killed' = TRUE  /\ atKill' = Len(found)
    /\ UNCHANGED <<board, at, hashes, page, site, todo, cur, memory, found, result, missed>>

Work ==
    \/ LoadHashes \/ OpenPage \/ TurnPage
    \/ ApecCard \/ ApecOpen \/ ApecOffer \/ ApecBack
    \/ HelloWorkCard \/ HelloWorkOpen \/ HelloWorkOffer \/ HelloWorkBack
    \/ WttjCard \/ WttjOpen \/ WttjOffer \/ WttjBack

Next == Work \/ Kill

(* Every wait of the node has a timeout, so it always gets on; nobody has to *)
(* kill it.                                                                  *)
Spec == Init /\ [][Next]_vars /\ WF_vars(Work)

-----------------------------------------------------------------------------
(* Properties. *)

TypeOK ==
    /\ board \in Boards
    /\ at \in {"start", "page", "card", "open", "offer", "back", "flee", "retreat", "turn",
               "over"}
    /\ hashes \subseteq Keys  /\ page \in 1..(MaxPages + 1)
    /\ list \in CardLists \cup {<<>>}  /\ place \in {"results", "elsewhere"}
    /\ todo \in SeqOf(1..MaxCards, MaxCards)
    /\ at \in {"open", "offer"} => cur \in Postings
    /\ seen \subseteq Keys \cup Postings  /\ hovers \in [Postings -> 0..MaxHovers]
    /\ streak \in 0..StallCap
    /\ found \in SeqOf(Postings, Limit)
    /\ result.how \in {"none", "done", "stopped", "critical"}
    /\ killed \in BOOLEAN  /\ atKill \in 0..Limit  /\ missed \in 0..MaxMissed

(* A scrape keeps at most Limit offers, none of them twice although pages    *)
(* are reshuffled and postings come back on later ones (APEC: none of one    *)
(* hash; WTTJ: of one link; HelloWork keeps no memory), and hands over all   *)
(* of them, or nothing.                                                      *)
Identity(i) ==
    CASE board = "apec"      -> <<0, KeyOf[found[i]]>>
      [] board = "hellowork" -> <<i, found[i]>>
      [] board = "wttj"      -> <<0, found[i]>>

Harvest == INSTANCE Harvest WITH
    kept <- [i \in DOMAIN found |-> Identity(i)],
    open <- at # "over",
    handed <- [i \in DOMAIN result.offers |-> Identity(i)]

HarvestSpec == Harvest!Spec

(* A kill is seen before the next card: after it a scrape keeps the offer in *)
(* hand and one more per kill read that failed.                              *)
KillStopsScrape == killed => Len(found) - atKill <= 1 + missed

(* On HelloWork and WTTJ a card that raises, or a way back that is lost,     *)
(* costs that card or that page: once a page has shown its cards, nothing    *)
(* that was found is thrown away.                                            *)
FindsSurviveCards ==
    [][board # "apec" /\ at # "page" => result'.how # "critical"]_vars

(* A scrape ends, even of a site that always has one more page and never     *)
(* takes a card off its list.                                                *)
ScrapeEnds == <>(at = "over")

(* "Card click failed after 3 attempts. Skipping." (apec_worker.py): after a  *)
(* card whose click failed the node goes on; it does not end there, without  *)
(* what it found.                                                            *)
FailedClickOnlySkips ==
    [][at = "card" /\ place = "elsewhere" => result'.how # "critical"]_vars
================================================================================
