----------------------------- MODULE ScrapeProofs ------------------------------
(* Proofs about Scrape, for any boards, postings, hashes, limits and pages.   *)
EXTENDS Scrape, SequenceTheorems, TLAPS

(***************************************************************************)
(* The inductive invariant.                                                *)
(***************************************************************************)

InHand == at \in {"open", "offer"}

\* A card is opened only while there is room for one more offer, on WTTJ before
\* the page is given up.
Room == InHand => Len(found) < Limit  /\ (board = "wttj" => streak < StallCap)

\* What was kept is remembered, and what is in hand is not what was kept.
Remembered ==
    /\ \A i \in DOMAIN found : /\ board = "apec" => KeyOf[found[i]] \in seen
                               /\ board = "wttj" => found[i] \in seen
    /\ InHand  /\ board = "apec" =>
          KeyOf[cur] \in seen  /\ \A i \in DOMAIN found : KeyOf[found[i]] # KeyOf[cur]
    /\ InHand  /\ board = "wttj" =>
          (at = "open" <=> cur \notin seen)  /\ \A i \in DOMAIN found : found[i] # cur

\* Nothing is returned before the end.
NotYet == at # "over" => result = [how |-> "none", offers |-> <<>>]

\* What may still be kept: the offer in hand, and one for each failed read.
Halting == Len(found) - atKill + (IF InHand THEN 1 ELSE 0) <= 1 + missed
HaltInv == killed => Halting

\* Past the check of its number, a page is one of those allowed.
Numbered == at \notin {"start", "page", "over"} => page \in 1..MaxPages

ScrapeInv == TypeOK /\ Numbered /\ Room /\ Remembered /\ NotYet /\ HaltInv

-----------------------------------------------------------------------------
(* Lemmas on numbers and sequences.                                        *)

LEMMA Caps == Limit \in Nat /\ StallCap \in Nat
<1>1. Limit \in {WorkerLimit, HardCap}
  <2>1. WorkerLimit <= HardCap \/ HardCap <= WorkerLimit
    BY ScrapeAssumption
  <2>2. \E x \in {WorkerLimit, HardCap} : \A y \in {WorkerLimit, HardCap} : x <= y
    BY <2>1, ScrapeAssumption
  <2> QED
    BY <2>2 DEF Limit, Min
<1>2. Limit \in Nat
  BY <1>1, ScrapeAssumption
<1>3. StallCap \in {3 * Limit, StallFloor}
  <2>1. 3 * Limit \in Nat /\ StallFloor \in Nat
    BY <1>2, ScrapeAssumption
  <2>2. \E x \in {3 * Limit, StallFloor} : \A y \in {3 * Limit, StallFloor} : x >= y
    BY <2>1
  <2> QED
    BY <2>2 DEF StallCap, Max
<1> QED
  BY <1>2, <1>3, ScrapeAssumption

\* The sequences of a bounded length.
LEMMA SeqOfIs ==
    ASSUME NEW S, NEW n \in Nat, NEW s
    PROVE  s \in SeqOf(S, n) <=> s \in Seq(S) /\ Len(s) <= n
<1>1. ASSUME s \in SeqOf(S, n) PROVE s \in Seq(S) /\ Len(s) <= n
  <2>1. PICK m \in 0..n : s \in [1..m -> S]
    BY <1>1 DEF SeqOf
  <2> QED
    BY <2>1
<1>2. ASSUME s \in Seq(S), Len(s) <= n PROVE s \in SeqOf(S, n)
  <2>1. Len(s) \in 0..n /\ s \in [1..Len(s) -> S]
    BY <1>2
  <2> QED
    BY <2>1 DEF SeqOf
<1> QED
  BY <1>1, <1>2

\* One more at the end keeps the others in place.
LEMMA AppendIs ==
    ASSUME NEW S, NEW s \in Seq(S), NEW x \in S
    PROVE  /\ Append(s, x) \in Seq(S)  /\ Len(Append(s, x)) = Len(s) + 1
           /\ DOMAIN Append(s, x) = 1..Len(s) + 1  /\ DOMAIN s = 1..Len(s)
           /\ Append(s, x)[Len(s) + 1] = x
           /\ \A i \in 1..Len(s) : Append(s, x)[i] = s[i]
OBVIOUS

\* A list that has lost one card.
LEMMA RemoveAtIs ==
    ASSUME NEW S, NEW s \in Seq(S), NEW i \in 1..Len(s)
    PROVE  /\ RemoveAt(s, i) \in Seq(S)  /\ Len(RemoveAt(s, i)) = Len(s) - 1
           /\ \A j \in 1..Len(s) - 1 : RemoveAt(s, i)[j] = s[IF j < i THEN j ELSE j + 1]
<1> DEFINE a == SubSeq(s, 1, i - 1)
           b == SubSeq(s, i + 1, Len(s))
<1>1. a \in Seq(S) /\ Len(a) = i - 1 /\ \A j \in 1..i - 1 : a[j] = s[j]
  OBVIOUS
<1>2. b \in Seq(S) /\ Len(b) = Len(s) - i /\ \A j \in 1..Len(s) - i : b[j] = s[i + j]
  OBVIOUS
<1>3. RemoveAt(s, i) = a \o b
  BY DEF RemoveAt
<1> HIDE DEF a, b
<1>4. /\ a \o b \in Seq(S)  /\ Len(a \o b) = Len(a) + Len(b)
      /\ \A j \in 1..Len(a) + Len(b) :
            (a \o b)[j] = IF j <= Len(a) THEN a[j] ELSE b[j - Len(a)]
  BY <1>1, <1>2, ConcatProperties
<1>5. ASSUME NEW j \in 1..Len(s) - 1
      PROVE  (a \o b)[j] = s[IF j < i THEN j ELSE j + 1]
  <2>1. CASE j < i
    BY <1>1, <1>2, <1>4, <2>1
  <2>2. CASE ~(j < i)
    <3> DEFINE k == j - (i - 1)
    <3>1. k \in 1..Len(s) - i /\ i + k = j + 1
      BY <2>2
    <3>2. (a \o b)[j] = b[k]
      BY <1>1, <1>2, <1>4, <2>2
    <3> HIDE DEF k
    <3>3. b[k] = s[j + 1]
      BY <1>2, <3>1
    <3> QED
      BY <2>2, <3>2, <3>3
  <2> QED
    BY <2>1, <2>2
<1> QED
  BY <1>1, <1>2, <1>3, <1>4, <1>5

\* What the site shows stays a list of distinct cards.
LEMMA ListsShrink ==
    ASSUME NEW l \in CardLists \cup {<<>>}, NEW i \in DOMAIN l
    PROVE  RemoveAt(l, i) \in CardLists \cup {<<>>}
<1>1. l \in Seq(Postings) /\ Len(l) <= MaxCards /\ IsInjective(l) /\ DOMAIN l = 1..Len(l)
  <2>1. l # <<>>
    OBVIOUS
  <2> QED
    BY <2>1, SeqOfIs, ScrapeAssumption DEF CardLists
<1> DEFINE r == RemoveAt(l, i)
<1>2. /\ r \in Seq(Postings)  /\ Len(r) = Len(l) - 1
      /\ \A j \in 1..Len(l) - 1 : r[j] = l[IF j < i THEN j ELSE j + 1]
  <2>1. i \in 1..Len(l)
    BY <1>1
  <2> QED
    BY <1>1, <2>1, RemoveAtIs, Zenon
<1> HIDE DEF r
<1>3. r \in SeqOf(Postings, MaxCards)
  BY <1>1, <1>2, SeqOfIs, ScrapeAssumption
<1>4. IsInjective(r)
  <2> SUFFICES ASSUME NEW j \in DOMAIN r, NEW k \in DOMAIN r, r[j] = r[k]  PROVE j = k
    BY DEF IsInjective
  <2>1. j \in 1..Len(l) - 1 /\ k \in 1..Len(l) - 1
    BY <1>2
  <2>2. l[IF j < i THEN j ELSE j + 1] = l[IF k < i THEN k ELSE k + 1]
    BY <1>2, <2>1
  <2>3. (IF j < i THEN j ELSE j + 1) = (IF k < i THEN k ELSE k + 1)
    BY <1>1, <2>1, <2>2 DEF IsInjective
  <2> QED
    BY <1>1, <2>1, <2>3
<1> QED
  BY <1>3, <1>4 DEF r, CardLists

\* The cards on a page are postings.
LEMMA CardsArePostings ==
    ASSUME NEW l \in CardLists \cup {<<>>}
    PROVE  l \in Seq(Postings) /\ \A i \in DOMAIN l : l[i] \in Postings
<1>1. CASE l \in CardLists
  <2>1. l \in Seq(Postings)
    BY <1>1, SeqOfIs, ScrapeAssumption DEF CardLists
  <2> QED
    BY <2>1
<1>2. CASE l = <<>>
  BY <1>2
<1> QED
  BY <1>1, <1>2

\* The offers kept.
LEMMA FoundIs ==
    ASSUME TypeOK
    PROVE  /\ found \in Seq(Postings)  /\ Len(found) \in Nat  /\ Len(found) <= Limit
           /\ DOMAIN found = 1..Len(found)
BY Caps, SeqOfIs DEF TypeOK

\* The reads of the kill switch.
LEMMA GoingOn ==
    ASSUME TypeOK, GoesOn
    PROVE  missed' \in 0..MaxMissed  /\ missed' >= missed  /\ (killed => missed' = missed + 1)
BY ScrapeAssumption DEF TypeOK, GoesOn

\* The orders in which a page is visited.
LEMMA VisitsAre ==
    ASSUME board \in Boards, NEW l \in CardLists, NEW o \in VisitOrders(l)
    PROVE  o \in SeqOf(1..MaxCards, MaxCards)
<1>1. l \in Seq(Postings) /\ Len(l) \in Nat /\ Len(l) <= MaxCards
  BY SeqOfIs, ScrapeAssumption DEF CardLists
<1>2. CASE board = "apec"
  <2>1. o \in Seq(1..Len(l)) /\ Len(o) <= Len(l)
    BY <1>1, <1>2, SeqOfIs DEF VisitOrders, PlanCardVisitOrder
  <2>2. o \in Seq(1..MaxCards) /\ Len(o) <= MaxCards
    BY <1>1, <2>1, ScrapeAssumption
  <2> QED
    BY <2>2, SeqOfIs, ScrapeAssumption
<1>3. CASE board = "hellowork"
  <2>1. o = [i \in 1..Len(l) |-> i]
    BY <1>3 DEF VisitOrders
  <2>2. o \in Seq(1..MaxCards) /\ Len(o) <= MaxCards
    BY <1>1, <2>1, ScrapeAssumption
  <2> QED
    BY <2>2, SeqOfIs, ScrapeAssumption
<1>4. CASE board = "wttj"
  <2>1. o = <<>>
    BY <1>4 DEF VisitOrders
  <2>2. o \in Seq(1..MaxCards) /\ Len(o) <= MaxCards
    BY <2>1, ScrapeAssumption
  <2> QED
    BY <2>2, SeqOfIs, ScrapeAssumption
<1> QED
  BY <1>2, <1>3, <1>4, ScrapeAssumption

LEMMA VisitsLeft ==
    ASSUME NEW o \in SeqOf(1..MaxCards, MaxCards), o # <<>>
    PROVE  Tail(o) \in SeqOf(1..MaxCards, MaxCards) /\ Head(o) \in 1..MaxCards
<1>1. o \in Seq(1..MaxCards) /\ Len(o) <= MaxCards
  BY SeqOfIs, ScrapeAssumption
<1>2. Tail(o) \in Seq(1..MaxCards) /\ Len(Tail(o)) = Len(o) - 1 /\ Head(o) \in 1..MaxCards
  BY <1>1, HeadTailProperties
<1> QED
  <2>1. MaxCards \in Nat /\ Len(o) \in Nat
    BY <1>1, ScrapeAssumption
  <2>2. Len(Tail(o)) <= MaxCards
    BY <1>1, <1>2, <2>1
  <2> QED
    BY <1>2, <2>1, <2>2, SeqOfIs

-----------------------------------------------------------------------------
(* The invariant.                                                          *)

LEMMA InitInv == Init => ScrapeInv
<1> SUFFICES ASSUME Init PROVE ScrapeInv
  OBVIOUS
<1>1. TypeOK
  <2>1. <<>> \in SeqOf(Postings, Limit) /\ <<>> \in SeqOf(1..MaxCards, MaxCards)
    <3>1. MaxCards \in Nat /\ Limit \in Nat /\ Len(<<>>) = 0
      BY Caps, ScrapeAssumption
    <3>2. <<>> \in Seq(Postings) /\ <<>> \in Seq(1..MaxCards)
      OBVIOUS
    <3>3. Len(<<>>) <= MaxCards /\ Len(<<>>) <= Limit
      BY <3>1
    <3> QED
      BY <3>1, <3>2, <3>3, SeqOfIs
  <2>2. page \in 1..(MaxPages + 1) /\ streak \in 0..StallCap /\ atKill \in 0..Limit
        /\ missed \in 0..MaxMissed /\ hovers \in [Postings -> 0..MaxHovers]
    BY Caps, ScrapeAssumption DEF Init
  <2> QED
    BY <2>1, <2>2 DEF Init, TypeOK
<1>2. Numbered /\ Room /\ NotYet /\ HaltInv
  BY DEF Init, Numbered, Room, InHand, NotYet, HaltInv
<1>3. Remembered
  BY DEF Init, Remembered, InHand
<1> QED
  BY <1>1, <1>2, <1>3 DEF ScrapeInv

\* The node returns.
LEMMA ReturnInv ==
    ASSUME ScrapeInv, at # "over", missed' \in 0..MaxMissed, missed' >= missed,
           NEW how \in {"done", "stopped", "critical"}, NEW offers, Return(how, offers)
    PROVE  ScrapeInv'
<1>1. TypeOK'
  BY DEF ScrapeInv, TypeOK, Return, site, memory, CardLists
<1>2. Numbered' /\ Room' /\ NotYet' /\ Remembered'
  BY DEF ScrapeInv, Numbered, Room, NotYet, Remembered, InHand, Return, site, memory
<1>3. HaltInv'
  <2>1. missed \in Int /\ missed' \in Int /\ atKill \in Int /\ Len(found) \in Int
    BY FoundIs, ScrapeAssumption, Caps DEF ScrapeInv, TypeOK
  <2> QED
    BY <2>1 DEF ScrapeInv, HaltInv, Halting, InHand, Return
<1> QED
  BY <1>1, <1>2, <1>3 DEF ScrapeInv

\* A step that opens nothing and keeps nothing, and forgets nothing.
LEMMA WalkInv ==
    ASSUME ScrapeInv, TypeOK', ~InHand', at' # "over", at # "over", missed' >= missed,
           seen \subseteq seen', UNCHANGED <<board, found, result, killed, atKill>>,
           \/ at' = "page"
           \/ page' = page  /\ at # "start"  /\ (at = "page" => page \in 1..MaxPages)
    PROVE  ScrapeInv'
<1>1. Numbered' /\ Room' /\ NotYet' /\ Remembered'
  BY DEF ScrapeInv, Numbered, Room, NotYet, Remembered, InHand
<1>2. HaltInv'
  <2>1. missed \in Int /\ missed' \in Int /\ atKill \in Int /\ Len(found) \in Int
    BY FoundIs, ScrapeAssumption, Caps DEF ScrapeInv, TypeOK
  <2> QED
    BY <2>1 DEF ScrapeInv, HaltInv, Halting, InHand
<1> QED
  BY <1>1, <1>2 DEF ScrapeInv

\* A card is opened that was not kept before.
LEMMA OpenInv ==
    ASSUME ScrapeInv, TypeOK', at = "card", at' = "open", Len(found) < Limit,
           GoesOn, seen \subseteq seen', UNCHANGED <<board, page, found, result, killed, atKill>>,
           board = "apec" => KeyOf[cur'] \notin seen  /\ KeyOf[cur'] \in seen',
           board = "wttj" => cur' \notin seen'  /\ streak' < StallCap
    PROVE  ScrapeInv'
<1>1. Numbered' /\ Room' /\ NotYet'
  BY DEF ScrapeInv, Numbered, Room, NotYet, InHand
<1>2. Remembered'
  BY DEF ScrapeInv, Remembered, InHand
<1>3. HaltInv'
  <2>1. /\ missed \in Int  /\ missed' \in Int  /\ atKill \in Int  /\ Len(found) \in Int
        /\ killed => missed' = missed + 1
    <3>1. TypeOK /\ MaxMissed \in Nat
      BY ScrapeAssumption DEF ScrapeInv
    <3>2. missed' \in 0..MaxMissed /\ (killed => missed' = missed + 1)
      BY <3>1, GoingOn
    <3>3. missed \in 0..MaxMissed /\ atKill \in 0..Limit
      BY <3>1 DEF TypeOK
    <3> QED
      BY <3>1, <3>2, <3>3, FoundIs, Caps
  <2> QED
    BY <2>1 DEF ScrapeInv, HaltInv, Halting, InHand
<1> QED
  BY <1>1, <1>2, <1>3 DEF ScrapeInv

\* Its page shows.
LEMMA ReadInv ==
    ASSUME ScrapeInv, TypeOK', at = "open", at' = "offer",
           UNCHANGED <<board, page, cur, streak, found, result, killed, atKill, missed>>,
           seen' = IF board = "wttj" THEN seen \cup {cur} ELSE seen
    PROVE  ScrapeInv'
<1>1. Numbered' /\ Room' /\ NotYet'
  BY DEF ScrapeInv, Numbered, Room, NotYet, InHand
<1>2. Remembered'
  BY DEF ScrapeInv, Remembered, InHand
<1>3. HaltInv'
  BY DEF ScrapeInv, HaltInv, Halting, InHand
<1> QED
  BY <1>1, <1>2, <1>3 DEF ScrapeInv

\* It is kept.
LEMMA KeepInv ==
    ASSUME ScrapeInv, at = "offer", Keep("back")
    PROVE  ScrapeInv'
<1>1. /\ found \in Seq(Postings)  /\ cur \in Postings  /\ Len(found) \in Nat
      /\ Len(found) < Limit  /\ Limit \in Nat
  BY FoundIs, Caps DEF ScrapeInv, TypeOK, Room, InHand
<1>2. /\ found' \in Seq(Postings)  /\ Len(found') = Len(found) + 1
      /\ DOMAIN found' = 1..Len(found) + 1  /\ DOMAIN found = 1..Len(found)
      /\ found'[Len(found) + 1] = cur  /\ \A i \in DOMAIN found : found'[i] = found[i]
  BY <1>1, AppendIs DEF Keep
<1>3. TypeOK'
  <2>1. found' \in SeqOf(Postings, Limit)
    BY <1>1, <1>2, SeqOfIs
  <2> QED
    BY <2>1 DEF ScrapeInv, TypeOK, Keep, site, memory, CardLists
<1>4. Numbered' /\ Room' /\ NotYet'
  BY DEF ScrapeInv, Numbered, Room, NotYet, InHand, Keep
<1>5. Remembered'
  <2>1. \A i \in DOMAIN found' : i \in DOMAIN found \/ i = Len(found) + 1
    BY <1>1, <1>2
  <2>2. UNCHANGED <<seen, board>> /\ ~InHand'
    BY DEF Keep, memory, InHand
  <2>3. ASSUME NEW i \in DOMAIN found'
        PROVE  /\ board = "apec" => KeyOf[found'[i]] \in seen
               /\ board = "wttj" => found'[i] \in seen
    <3>1. CASE i \in DOMAIN found
      BY <1>2, <3>1 DEF ScrapeInv, Remembered
    <3>2. CASE i = Len(found) + 1
      BY <1>2, <3>2 DEF ScrapeInv, Remembered, InHand
    <3> QED
      BY <2>1, <3>1, <3>2
  <2>4. (\A i \in DOMAIN found :
            /\ board = "apec" => KeyOf[found[i]] \in seen
            /\ board = "wttj" => found[i] \in seen)'
    BY <2>2, <2>3
  <2> QED
    BY <2>2, <2>4 DEF Remembered
<1>6. HaltInv'
  <2>1. missed \in Int /\ atKill \in Int
    BY ScrapeAssumption, Caps DEF ScrapeInv, TypeOK
  <2> QED
    BY <1>1, <1>2, <2>1 DEF ScrapeInv, HaltInv, Halting, InHand, Keep
<1> QED
  BY <1>3, <1>4, <1>5, <1>6 DEF ScrapeInv

\* The next card of an order.
LEMMA NextCardTypes ==
    ASSUME TypeOK, todo # <<>>, GoesOn, NEW s \in SUBSET (Keys \cup Postings),
           NEW next \in {"card", "open", "back", "flee"}, NextCard(next, s),
           next = "open" => cur' \in Postings
    PROVE  TypeOK'
<1>1. todo' \in SeqOf(1..MaxCards, MaxCards) /\ missed' \in 0..MaxMissed
  BY VisitsLeft, GoingOn DEF TypeOK, NextCard
<1> QED
  BY <1>1 DEF TypeOK, NextCard, site, CardLists

\* A posting has a hash; the card at a position that shows is a posting.
LEMMA CardInHand ==
    ASSUME TypeOK, todo # <<>>, Reachable(Head(todo))
    PROVE  list[Head(todo)] \in Postings /\ KeyOf[list[Head(todo)]] \in Keys
<1>1. Head(todo) \in 1..MaxCards
  BY VisitsLeft DEF TypeOK
<1>2. list \in Seq(Postings) /\ Head(todo) <= Len(list)
  BY CardsArePostings DEF TypeOK, Reachable
<1>3. Head(todo) \in 1..Len(list)
  BY <1>1, <1>2
<1> QED
  BY <1>2, <1>3, ScrapeAssumption

LEMMA OpenPageInv == ASSUME ScrapeInv, OpenPage PROVE ScrapeInv'
<1>1. CASE Complete \/ Stopped \/ Critical
  <2>1. missed' \in 0..MaxMissed /\ missed' >= missed
    BY <1>1, ScrapeAssumption DEF ScrapeInv, TypeOK, Complete, Stopped, Critical, OpenPage
  <2> QED
    BY <1>1, <2>1, ReturnInv DEF OpenPage, Complete, Stopped, Critical
<1>2. CASE page <= MaxPages /\ GoesOn /\ \E l \in CardLists : ShowCards(l)
  <2>1. PICK l \in CardLists : ShowCards(l)
    BY <1>2
  <2>2. TypeOK'
    <3>1. todo' \in SeqOf(1..MaxCards, MaxCards) /\ missed' \in 0..MaxMissed
      BY <1>2, <2>1, VisitsAre, GoingOn DEF ScrapeInv, TypeOK, ShowCards
    <3> QED
      BY <2>1, <3>1, Caps DEF ScrapeInv, TypeOK, ShowCards
  <2>3. page \in 1..MaxPages \/ ~(page <= MaxPages)
    BY ScrapeAssumption DEF ScrapeInv, TypeOK
  <2>4. page <= MaxPages
    BY <1>2
  <2> QED
    BY <1>2, <2>1, <2>2, <2>3, <2>4, GoingOn, WalkInv DEF ScrapeInv, ShowCards, OpenPage, InHand
<1> QED
  BY <1>1, <1>2 DEF OpenPage

LEMMA ApecCardInv == ASSUME ScrapeInv, ApecCard PROVE ScrapeInv'
<1> DEFINE i == Head(todo)
           p == list[i]
<1>0. at = "card" /\ board = "apec" /\ TypeOK /\ seen \subseteq Keys \cup Postings
  BY DEF ApecCard, ScrapeInv, TypeOK
<1>1. CASE LeavePage /\ UNCHANGED missed
  <2>1. TypeOK'
    BY <1>0, <1>1 DEF TypeOK, LeavePage, site, memory, CardLists
  <2> QED
    BY <1>0, <1>1, <2>1, WalkInv, ScrapeAssumption DEF TypeOK, LeavePage, InHand, memory
<1>2. CASE Stopped \/ ((killed => missed < MaxMissed) /\ Critical)
  <2>1. missed' \in 0..MaxMissed /\ missed' >= missed
    BY <1>0, <1>2, ScrapeAssumption DEF TypeOK, Stopped, Critical
  <2> QED
    BY <1>0, <1>2, <2>1, ReturnInv DEF Stopped, Critical
<1>3. ASSUME todo # <<>>, Len(found) < Limit, Reachable(i), GoesOn, NextCard("card", seen)
      PROVE  ScrapeInv'
  <2>1. TypeOK'
    BY <1>0, <1>3, NextCardTypes
  <2> QED
    BY <1>0, <1>3, <2>1, GoingOn, WalkInv DEF NextCard, InHand
<1>4. ASSUME todo # <<>>, Len(found) < Limit, Reachable(i), GoesOn,
             NextCard("card", seen \cup {KeyOf[p]})
      PROVE  ScrapeInv'
  <2>1. TypeOK'
    BY <1>0, <1>4, CardInHand, NextCardTypes
  <2> QED
    BY <1>0, <1>4, <2>1, GoingOn, WalkInv DEF NextCard, InHand
<1>5. ASSUME todo # <<>>, Len(found) < Limit, Reachable(i), GoesOn, cur' = p,
             NextCard("open", seen \cup {KeyOf[p]}), KeyOf[p] \notin seen
      PROVE  ScrapeInv'
  <2>1. TypeOK'
    BY <1>0, <1>5, CardInHand, NextCardTypes
  <2> QED
    BY <1>0, <1>5, <2>1, OpenInv DEF NextCard
<1> QED
  BY <1>1, <1>2, <1>3, <1>4, <1>5 DEF ApecCard

LEMMA HelloWorkCardInv == ASSUME ScrapeInv, HelloWorkCard PROVE ScrapeInv'
<1> DEFINE i == Head(todo)
           p == list[i]
<1>0. at = "card" /\ board = "hellowork" /\ TypeOK /\ seen \subseteq Keys \cup Postings
  BY DEF HelloWorkCard, ScrapeInv, TypeOK
<1>1. CASE LeavePage /\ (GoesOn \/ UNCHANGED missed)
  <2>1. missed' \in 0..MaxMissed /\ missed' >= missed
    BY <1>0, <1>1, GoingOn, ScrapeAssumption DEF TypeOK
  <2>2. TypeOK'
    BY <1>0, <1>1, <2>1 DEF TypeOK, LeavePage, site, memory, CardLists
  <2> QED
    BY <1>0, <1>1, <2>1, <2>2, WalkInv DEF LeavePage, InHand, memory
<1>2. CASE Stopped
  <2>1. missed' \in 0..MaxMissed /\ missed' >= missed
    BY <1>0, <1>2, ScrapeAssumption DEF TypeOK, Stopped
  <2> QED
    BY <1>0, <1>2, <2>1, ReturnInv DEF Stopped
<1>3. ASSUME todo # <<>>, GoesOn, NEW next \in {"card", "back", "flee"}, NextCard(next, seen)
      PROVE  ScrapeInv'
  <2>1. TypeOK'
    BY <1>0, <1>3, NextCardTypes
  <2> QED
    BY <1>0, <1>3, <2>1, GoingOn, WalkInv DEF NextCard, InHand
<1>4. ASSUME todo # <<>>, Len(found) < Limit, Reachable(i), GoesOn, cur' = p,
             NextCard("open", seen)
      PROVE  ScrapeInv'
  <2>1. TypeOK'
    BY <1>0, <1>4, CardInHand, NextCardTypes
  <2> QED
    BY <1>0, <1>4, <2>1, OpenInv DEF NextCard
<1> QED
  BY <1>1, <1>2, <1>3, <1>4 DEF HelloWorkCard

LEMMA WttjCardInv == ASSUME ScrapeInv, WttjCard PROVE ScrapeInv'
<1>0. at = "card" /\ board = "wttj" /\ TypeOK
  BY DEF WttjCard, ScrapeInv
<1>1. CASE LeavePage /\ (GoesOn \/ UNCHANGED missed)
  <2>1. missed' \in 0..MaxMissed /\ missed' >= missed
    BY <1>0, <1>1, GoingOn, ScrapeAssumption DEF TypeOK
  <2>2. TypeOK'
    BY <1>0, <1>1, <2>1 DEF TypeOK, LeavePage, site, memory, CardLists
  <2> QED
    BY <1>0, <1>1, <2>1, <2>2, WalkInv DEF LeavePage, InHand, memory
<1>2. CASE Stopped
  <2>1. missed' \in 0..MaxMissed /\ missed' >= missed
    BY <1>0, <1>2, ScrapeAssumption DEF TypeOK, Stopped
  <2> QED
    BY <1>0, <1>2, <2>1, ReturnInv DEF Stopped
<1>3. ASSUME NEW i \in DOMAIN list, list[i] \notin seen, streak < StallCap, GoesOn,
             Len(found) < Limit,
             \/ Poison(list[i], "card", streak + 1)  /\ UNCHANGED <<site, cur>>
             \/ Poison(list[i], "flee", streak + 1)  /\ UNCHANGED <<site, cur>>
             \/ Hover(list[i])
             \/ Take(list[i])
      PROVE  ScrapeInv'
  <2> DEFINE p == list[i]
  <2>1. /\ p \in Postings  /\ missed' \in 0..MaxMissed  /\ missed' >= missed
        /\ streak + 1 \in 0..StallCap
    BY <1>0, <1>3, CardsArePostings, GoingOn, Caps DEF TypeOK
  <2>2. p \notin seen
    BY <1>3
  <2> HIDE DEF p
  <2>3. CASE (Poison(p, "card", streak + 1) \/ Poison(p, "flee", streak + 1))
             /\ UNCHANGED <<site, cur>>
    <3>1. TypeOK'
      BY <1>0, <2>1, <2>3 DEF TypeOK, Poison, site, CardLists
    <3> QED
      BY <1>0, <2>1, <2>3, <3>1, WalkInv DEF Poison, InHand
  <2>4. CASE Hover(p)
    <3>1. hovers' \in [Postings -> 0..MaxHovers]
      <4>1. hovers[p] \in 0..MaxHovers /\ hovers[p] < MaxHovers /\ MaxHovers \in Nat
        BY <1>0, <2>1, <2>4, ScrapeAssumption DEF TypeOK, Hover
      <4>2. hovers[p] + 1 \in 0..MaxHovers
        BY <4>1
      <4> QED
        BY <1>0, <2>1, <2>4, <4>2 DEF TypeOK, Hover
    <3>2. TypeOK'
      BY <1>0, <2>1, <2>4, <3>1 DEF TypeOK, Hover, site, CardLists
    <3> QED
      BY <1>0, <2>1, <2>4, <3>2, WalkInv DEF Hover, InHand
  <2>5. CASE Take(p)
    <3>1. TypeOK'
      BY <1>0, <2>1, <2>5 DEF TypeOK, Take, site, memory, CardLists
    <3> QED
      BY <1>0, <1>3, <2>1, <2>2, <2>5, <3>1, OpenInv DEF Take, memory
  <2> QED
    BY <1>3, <2>3, <2>4, <2>5 DEF p
<1>4. \/ LeavePage /\ (GoesOn \/ UNCHANGED missed)
      \/ Stopped
      \/ /\ GoesOn  /\ Len(found) < Limit  /\ ~(streak >= StallCap)
         /\ \E i \in DOMAIN list :
               /\ list[i] \notin seen
               /\ \/ Poison(list[i], "card", streak + 1)  /\ UNCHANGED <<site, cur>>
                  \/ Poison(list[i], "flee", streak + 1)  /\ UNCHANGED <<site, cur>>
                  \/ Hover(list[i])
                  \/ Take(list[i])
  BY DEF WttjCard
<1>5. ~(streak >= StallCap) => streak < StallCap
  BY <1>0, Caps DEF TypeOK
<1> QED
  BY <1>1, <1>2, <1>3, <1>4, <1>5

\* Only the browser moves.
LEMMA GoInv ==
    ASSUME ScrapeInv, at \notin {"start", "page", "over"}, NEW next \in {"card", "back", "flee", "turn"},
           NEW to \in {"results", "elsewhere"}, Go(next, to)
    PROVE  ScrapeInv'
<1>1. TypeOK'
  BY DEF ScrapeInv, TypeOK, Go, memory, CardLists
<1> QED
  BY <1>1, WalkInv, ScrapeAssumption DEF ScrapeInv, TypeOK, Go, InHand, memory

\* The results show again.
LEMMA BackInv ==
    ASSUME ScrapeInv, at \notin {"start", "page", "over"}, NEW s \in 0..StallCap, BackOn("card", s) PROVE ScrapeInv'
<1>1. list' \in CardLists \cup {<<>>}
  BY DEF ScrapeInv, TypeOK, BackOn, Rebuilt
<1>2. TypeOK'
  BY <1>1 DEF ScrapeInv, TypeOK, BackOn
<1>3. missed' >= missed /\ UNCHANGED <<board, page, seen, found, result, killed, atKill>>
  BY ScrapeAssumption DEF ScrapeInv, TypeOK, BackOn
<1>4. at' = "card" /\ ~InHand'
  BY DEF BackOn, InHand
<1> QED
  BY <1>2, <1>3, <1>4, WalkInv

LEMMA CriticalInv == ASSUME ScrapeInv, at # "over", Critical PROVE ScrapeInv'
BY ReturnInv, ScrapeAssumption DEF ScrapeInv, TypeOK, Critical

LEMMA OpenedInv == ASSUME ScrapeInv, ApecOpen \/ HelloWorkOpen PROVE ScrapeInv'
<1>1. at = "open" /\ board # "wttj"
  BY DEF ApecOpen, HelloWorkOpen
<1>2. CASE Go("offer", "elsewhere")
  <2>1. TypeOK'
    BY <1>1, <1>2 DEF ScrapeInv, TypeOK, Go, memory, CardLists
  <2> QED
    BY <1>1, <1>2, <2>1, ReadInv DEF Go, memory
<1> QED
  BY <1>1, <1>2, GoInv DEF ApecOpen, HelloWorkOpen

LEMMA WttjOpenInv == ASSUME ScrapeInv, WttjOpen PROVE ScrapeInv'
<1>0. /\ at = "open"  /\ board = "wttj"  /\ cur \in Postings  /\ TypeOK
      /\ streak < StallCap  /\ UNCHANGED <<cur, missed>>
  BY DEF ScrapeInv, TypeOK, Room, InHand, WttjOpen
<1>1. missed' >= missed
  BY <1>0, ScrapeAssumption DEF TypeOK
<1>2. ASSUME Poison(cur, "offer", streak), place' = "elsewhere",
             list' \in {list} \cup {RemoveAt(list, i) : i \in {j \in DOMAIN list : list[j] = cur}}
      PROVE  ScrapeInv'
  <2>1. list' \in CardLists \cup {<<>>}
    BY <1>0, <1>2, ListsShrink DEF TypeOK
  <2>2. TypeOK'
    BY <1>0, <1>2, <2>1 DEF TypeOK, Poison
  <2> QED
    BY <1>0, <1>2, <2>2, ReadInv DEF Poison
<1>3. ASSUME Poison(cur, "retreat", streak + 1), place' \in {"results", "elsewhere"},
             UNCHANGED list
      PROVE  ScrapeInv'
  <2>1. streak + 1 \in 0..StallCap
    BY <1>0, Caps DEF TypeOK
  <2>2. TypeOK'
    BY <1>0, <1>3, <2>1 DEF TypeOK, Poison, CardLists
  <2> QED
    BY <1>0, <1>1, <1>3, <2>2, WalkInv DEF Poison, InHand
<1> QED
  BY <1>2, <1>3 DEF WttjOpen

LEMMA OfferInv ==
    ASSUME ScrapeInv, ApecOffer \/ HelloWorkOffer \/ WttjOffer PROVE ScrapeInv'
<1>1. at = "offer" /\ place \in {"results", "elsewhere"} /\ TypeOK
  BY DEF ScrapeInv, TypeOK, ApecOffer, HelloWorkOffer, WttjOffer
<1>2. ASSUME board = "wttj", at' = "flee", streak' = streak + 1,
             UNCHANGED <<board, hashes, page, site, todo, cur, seen, hovers, found, result,
                         killed, atKill, missed>>
      PROVE  ScrapeInv'
  <2>1. streak + 1 \in 0..StallCap
    BY <1>1, <1>2, Caps DEF ScrapeInv, TypeOK, Room, InHand
  <2>2. TypeOK'
    BY <1>1, <1>2, <2>1 DEF TypeOK, site, CardLists
  <2> QED
    BY <1>1, <1>2, <2>2, WalkInv, ScrapeAssumption DEF TypeOK, InHand
<1> QED
  BY <1>1, <1>2, GoInv, KeepInv, CriticalInv DEF ApecOffer, HelloWorkOffer, WttjOffer

LEMMA BackOnInv ==
    ASSUME ScrapeInv, ApecBack \/ HelloWorkBack \/ WttjBack PROVE ScrapeInv'
<1>1. /\ at \notin {"start", "page", "over"}  /\ place \in {"results", "elsewhere"}
      /\ streak \in 0..StallCap  /\ 0 \in 0..StallCap
  BY Caps DEF ScrapeInv, TypeOK, ApecBack, HelloWorkBack, WttjBack
<1> QED
  BY <1>1, GoInv, BackInv, CriticalInv DEF ApecBack, HelloWorkBack, WttjBack

LEMMA OtherInv ==
    ASSUME ScrapeInv, LoadHashes \/ TurnPage \/ Kill PROVE ScrapeInv'
<1>0. TypeOK /\ at # "over" /\ missed \in Nat
  BY ScrapeAssumption DEF ScrapeInv, TypeOK, LoadHashes, TurnPage, Kill
<1>1. CASE LoadHashes
  <2>1. TypeOK'
    BY <1>0, <1>1, ScrapeAssumption DEF TypeOK, LoadHashes, site, memory, CardLists
  <2> QED
    BY <1>0, <1>1, <2>1, WalkInv DEF LoadHashes, InHand, memory
<1>2. CASE TurnPage
  <2>1. CASE Complete
    BY <1>0, <2>1, ReturnInv DEF Complete, TypeOK
  <2>2. CASE at' = "page" /\ page' = PageAfter /\ UNCHANGED <<board, hashes, site, todo, cur,
             memory, found, result, killed, atKill, missed>>
    <3>1. page' \in 1..(MaxPages + 1)
      BY <1>0, <1>2, <2>2, ScrapeAssumption DEF ScrapeInv, Numbered, TurnPage, PageAfter
    <3>2. TypeOK'
      BY <1>0, <2>2, <3>1 DEF TypeOK, site, memory, CardLists
    <3> QED
      BY <1>0, <2>2, <3>2, WalkInv DEF InHand, memory
  <2> QED
    BY <1>2, <2>1, <2>2 DEF TurnPage
<1>3. CASE Kill
  <2>1. Len(found) \in 0..Limit
    BY <1>0, FoundIs
  <2>2. TypeOK'
    BY <1>0, <1>3, <2>1 DEF TypeOK, Kill, site, memory, CardLists
  <2>3. Numbered' /\ Room' /\ NotYet' /\ Remembered'
    BY <1>3 DEF ScrapeInv, Numbered, Room, NotYet, Remembered, InHand, Kill, memory
  <2>4. HaltInv'
    BY <1>0, <1>3, <2>1, Caps DEF HaltInv, Halting, InHand, Kill
  <2> QED
    BY <2>2, <2>3, <2>4 DEF ScrapeInv
<1> QED
  BY <1>1, <1>2, <1>3

LEMMA NextInv == ScrapeInv /\ [Next]_vars => ScrapeInv'
<1> SUFFICES ASSUME ScrapeInv, [Next]_vars  PROVE ScrapeInv'
  OBVIOUS
<1>1. CASE UNCHANGED vars
  BY <1>1 DEF vars, site, memory, ScrapeInv, TypeOK, CardLists, Numbered, Room, Remembered, NotYet,
              HaltInv, Halting, InHand
<1> QED
  BY <1>1, OpenPageInv, ApecCardInv, HelloWorkCardInv, WttjCardInv, OpenedInv, WttjOpenInv,
     OfferInv, BackOnInv, OtherInv DEF Next, Work

THEOREM Invariant == Spec => []ScrapeInv
BY InitInv, NextInv, PTL DEF Spec

\* Every variable keeps its type: the list is one of distinct cards whatever leaves it,
\* no card is passed over more often than allowed, no more is kept than the limit.
THEOREM ScrapeTypes == Spec => []TypeOK
<1>1. ScrapeInv => TypeOK
  BY DEF ScrapeInv
<1> QED
  BY <1>1, Invariant, PTL

\* The circuit breaker of the card loops: after a kill the offer in hand may be kept,
\* and one more for each read that failed open.
THEOREM KillStopsTheWalk == Spec => []KillStopsScrape
<1>1. ScrapeInv => KillStopsScrape
  <2> SUFFICES ASSUME ScrapeInv, killed  PROVE Len(found) - atKill <= 1 + missed
    BY DEF KillStopsScrape
  <2>1. missed \in Int /\ atKill \in Int /\ Len(found) \in Int
    BY FoundIs, ScrapeAssumption, Caps DEF ScrapeInv, TypeOK
  <2> QED
    BY <2>1 DEF ScrapeInv, HaltInv, Halting
<1> QED
  BY <1>1, Invariant, PTL

-----------------------------------------------------------------------------
(* The refinement of Harvest.                                              *)

KeptIds   == [i \in DOMAIN found |-> Identity(i)]
HandedIds == [i \in DOMAIN result.offers |-> Identity(i)]

\* A step returns all or nothing, keeps the offer in hand, or does neither; only a
\* page that does not load, and APEC, throw away.
Returns ==
    /\ at # "over"  /\ at' = "over"  /\ UNCHANGED <<board, found>>
    /\ result'.offers \in {found, <<>>}
    /\ result'.how = "critical" => board = "apec" \/ at = "page"
Keeps   == at = "offer"  /\ Keep("back")
Neither == at # "over"  /\ at' # "over"  /\ UNCHANGED <<board, found, result>>

LEMMA StepKinds ==
    ASSUME ScrapeInv, Next PROVE Returns \/ Keeps \/ Neither
<1>1. CASE LoadHashes \/ TurnPage \/ Kill
  BY <1>1 DEF LoadHashes, TurnPage, Kill, Complete, Return, Returns, Neither, memory
<1>2. CASE OpenPage
  BY <1>2 DEF OpenPage, Complete, Stopped, Critical, Return, ShowCards, Returns, Neither
<1>3. CASE ApecCard
  BY <1>3 DEF ApecCard, LeavePage, Stopped, Critical, Return, NextCard, Returns, Neither
<1>4. CASE HelloWorkCard
  BY <1>4 DEF HelloWorkCard, LeavePage, Stopped, Return, NextCard, Returns, Neither
<1>5. CASE WttjCard
  BY <1>5 DEF WttjCard, LeavePage, Stopped, Return, Poison, Hover, Take, Returns, Neither
<1>6. CASE ApecOpen \/ HelloWorkOpen \/ WttjOpen
  BY <1>6 DEF ApecOpen, HelloWorkOpen, WttjOpen, Go, Poison, Neither
<1>7. CASE ApecOffer \/ HelloWorkOffer \/ WttjOffer
  BY <1>7 DEF ApecOffer, HelloWorkOffer, WttjOffer, Go, Critical, Return, Returns, Keeps, Neither
<1>8. CASE ApecBack \/ HelloWorkBack \/ WttjBack
  BY <1>8 DEF ApecBack, HelloWorkBack, WttjBack, BackOn, Go, Critical, Return, Returns, Neither
<1> QED
  BY <1>1, <1>2, <1>3, <1>4, <1>5, <1>6, <1>7, <1>8 DEF Next, Work

\* On HelloWork and WTTJ no card and no way back throws away what was found.
THEOREM FindsAreKept == Spec => FindsSurviveCards
<1>1. ScrapeInv /\ [Next]_vars
         => (board # "apec" /\ at # "page" => result'.how # "critical") \/ UNCHANGED vars
  <2> SUFFICES ASSUME ScrapeInv, Next, board # "apec", at # "page", result'.how = "critical"
               PROVE  FALSE
    OBVIOUS
  <2>1. at # "over" => result.how = "none"
    BY DEF ScrapeInv, NotYet
  <2> QED
    BY <2>1, StepKinds DEF Returns, Keeps, Keep, Neither
<1> QED
  BY <1>1, Invariant, PTL DEF Spec, FindsSurviveCards

\* The list of what was kept, by what makes an offer the same on its board.
LEMMA KeptIdsIs ==
    ASSUME TypeOK
    PROVE  /\ KeptIds \in Seq({Identity(i) : i \in DOMAIN found})
           /\ Len(KeptIds) = Len(found)  /\ DOMAIN KeptIds = 1..Len(found)
           /\ \A i \in 1..Len(found) : KeptIds[i] = Identity(i)
<1>1. DOMAIN found = 1..Len(found) /\ Len(found) \in Nat
  BY FoundIs
<1> QED
  BY <1>1 DEF KeptIds

LEMMA InitHarvest == Init => Harvest!Init
<1> SUFFICES ASSUME Init PROVE Harvest!Init
  OBVIOUS
<1>1. DOMAIN found = {} /\ DOMAIN result.offers = {} /\ DOMAIN <<>> = {} /\ at # "over"
  BY DEF Init
<1>2. KeptIds = <<>> /\ HandedIds = <<>>
  BY <1>1 DEF KeptIds, HandedIds
<1> QED
  BY <1>1, <1>2 DEF Harvest!Init, KeptIds, HandedIds

\* A return hands over all that was kept, or nothing.
LEMMA ReturnHandsOver == ASSUME ScrapeInv, Returns PROVE Harvest!HandOver
<1>1. KeptIds' = KeptIds
  BY DEF Returns, KeptIds, Identity
<1>2. CASE result'.offers = found
  <2>1. HandedIds' = KeptIds'
    BY <1>2 DEF Returns, HandedIds, KeptIds, Identity
  <2> QED
    BY <1>1, <2>1 DEF Returns, Harvest!HandOver, KeptIds, HandedIds
<1>3. CASE result'.offers = <<>>
  <2>1. HandedIds' = [i \in {} |-> Identity(i)']
    BY <1>3 DEF HandedIds
  <2>2. HandedIds' = <<>>
    BY <2>1
  <2> QED
    BY <1>1, <2>2 DEF Returns, Harvest!HandOver, KeptIds, HandedIds
<1> QED
  BY <1>2, <1>3 DEF Returns

\* An offer that is kept is a new one.
LEMMA KeepIsNew == ASSUME ScrapeInv, Keeps PROVE Harvest!Keep
<1>0. PICK n \in Nat : n = Len(found) + 1
  BY FoundIs DEF ScrapeInv
<1>1. /\ at = "offer"  /\ at' = "back"  /\ UNCHANGED <<board, result>>
      /\ TypeOK  /\ n = Len(found) + 1  /\ Len(found) \in Nat
      /\ found \in Seq(Postings)  /\ cur \in Postings  /\ found' = Append(found, cur)
  BY <1>0, FoundIs DEF ScrapeInv, TypeOK, InHand, Keeps, Keep
<1>2. /\ Len(found') = n  /\ found'[n] = cur
      /\ \A i \in 1..Len(found) : found'[i] = found[i]
  BY <1>1, AppendIs
<1>3. \A i \in 1..Len(found) : Identity(i)' = Identity(i)
  BY <1>1, <1>2 DEF Identity
<1>4. Len(KeptIds) < Limit
  BY <1>1, KeptIdsIs DEF ScrapeInv, Room, InHand
<1>5. /\ Len(KeptIds') = n  /\ KeptIds' \in Seq({Identity(i)' : i \in DOMAIN found'})
      /\ \A i \in 1..n : KeptIds'[i] = Identity(i)'
  <2>1. /\ DOMAIN found' = 1..n  /\ KeptIds' = [i \in DOMAIN found' |-> Identity(i)']
    BY <1>1, <1>2 DEF KeptIds
  <2> QED
    BY <1>1, <2>1
<1>6. Front(KeptIds') = KeptIds
  <2>1. Front(KeptIds') = SubSeq(KeptIds', 1, Len(found))
    BY <1>1, <1>5 DEF Front
  <2>2. SubSeq(KeptIds', 1, Len(found)) = [i \in 1..Len(found) |-> KeptIds'[i]]
    BY <1>1, <1>5
  <2>3. KeptIds = [i \in 1..Len(found) |-> Identity(i)]
    BY <1>1 DEF KeptIds
  <2>4. \A i \in 1..Len(found) : KeptIds'[i] = Identity(i)
    BY <1>1, <1>3, <1>5
  <2> QED
    BY <2>1, <2>2, <2>3, <2>4
<1>7. Last(KeptIds') \notin ToSet(KeptIds)
  <2>1. Last(KeptIds') = Identity(n)'
    BY <1>1, <1>5 DEF Last
  <2>2. ASSUME NEW i \in 1..Len(found)  PROVE Identity(i) # Identity(n)'
    <3>1. i # n /\ i \in DOMAIN found
      BY <1>1
    <3>2. CASE board = "apec"
      <4>1. Identity(i) = <<0, KeyOf[found[i]]>> /\ Identity(n)' = <<0, KeyOf[cur]>>
        BY <1>1, <1>2, <3>2 DEF Identity
      <4>2. KeyOf[found[i]] # KeyOf[cur]
        BY <1>1, <3>1, <3>2 DEF ScrapeInv, Remembered, InHand
      <4> QED
        BY <4>1, <4>2
    <3>3. CASE board = "hellowork"
      <4>1. Identity(i) = <<i, found[i]>> /\ Identity(n)' = <<n, cur>>
        BY <1>1, <1>2, <3>3 DEF Identity
      <4> QED
        BY <3>1, <4>1
    <3>4. CASE board = "wttj"
      <4>1. Identity(i) = <<0, found[i]>> /\ Identity(n)' = <<0, cur>>
        BY <1>1, <1>2, <3>4 DEF Identity
      <4>2. found[i] # cur
        BY <1>1, <3>1, <3>4 DEF ScrapeInv, Remembered, InHand
      <4> QED
        BY <4>1, <4>2
    <3> QED
      BY <1>1, <3>2, <3>3, <3>4, ScrapeAssumption DEF TypeOK
  <2>3. ASSUME NEW x \in ToSet(KeptIds)  PROVE x # Identity(n)'
    <3>1. PICK i \in 1..Len(found) : x = Identity(i)
      BY <1>1, KeptIdsIs DEF ToSet
    <3> QED
      BY <2>2, <3>1
  <2> QED
    BY <2>1, <2>3
<1>8. HandedIds' = HandedIds
  <2>1. result.offers = <<>>
    BY <1>1 DEF ScrapeInv, NotYet
  <2>2. HandedIds = [i \in {} |-> Identity(i)] /\ HandedIds' = [i \in {} |-> Identity(i)']
    BY <1>1, <2>1 DEF HandedIds
  <2> QED
    BY <2>2
<1>9. at # "over" /\ (at # "over")' /\ Len(KeptIds') = Len(KeptIds) + 1
  BY <1>1, <1>5, KeptIdsIs
<1>10. UNCHANGED <<at # "over", HandedIds>>
  BY <1>8, <1>9
<1> QED
  BY <1>4, <1>6, <1>7, <1>9, <1>10, Zenon
     DEF Harvest!Keep, Harvest!Front, Harvest!Last, Harvest!ToSet, Front, Last, ToSet,
         KeptIds, HandedIds

LEMMA StepHarvest ==
    ScrapeInv /\ [Next]_vars => [Harvest!Next]_<<KeptIds, at # "over", HandedIds>>
<1> SUFFICES ASSUME ScrapeInv, [Next]_vars
             PROVE  [Harvest!Next]_<<KeptIds, at # "over", HandedIds>>
  OBVIOUS
<1>1. ASSUME (at # "over") <=> (at' # "over"), UNCHANGED <<board, found, result>>
      PROVE  UNCHANGED <<KeptIds, at # "over", HandedIds>>
  BY <1>1 DEF KeptIds, HandedIds, Identity
<1>2. CASE UNCHANGED vars
  BY <1>1, <1>2 DEF vars
<1>3. CASE Neither
  BY <1>1, <1>3 DEF Neither
<1> QED
  BY <1>2, <1>3, StepKinds, ReturnHandsOver, KeepIsNew DEF Harvest!Next

\* The three loops of get_matched_jobs implement the abstract harvest: new offers one at
\* a time up to the limit, none of them twice, and all of them or none handed over.
THEOREM RefinesHarvest == Spec => HarvestSpec
BY Invariant, InitHarvest, StepHarvest, PTL DEF Spec, HarvestSpec, Harvest!Spec, KeptIds, HandedIds
================================================================================
