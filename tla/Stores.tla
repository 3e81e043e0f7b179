-------------------------------- MODULE Stores --------------------------------
(***************************************************************************)
(* The two implementations of the repositories: the database (sql) and the *)
(* dictionaries that stand in for it (mem, REPOSITORY_TYPE=memory), driven *)
(* by the use cases that only read and write rows: announcements, page     *)
(* views and the administrator's figures, the tracker of applications,     *)
(* preferences, devices, credits.                                          *)
(*                                                                         *)
(* Both get the same units of work, one after the other.  A unit reads and *)
(* writes, then commits or fails: the database drops what a failed unit    *)
(* wrote, the dictionaries were written in place and get the copy back     *)
(* that was taken when the unit began.                                     *)
(***************************************************************************)
EXTENDS Integers, Sequences, FiniteSets, FiniteSetsExt, Functions

CONSTANTS
    Areas,       \* the groups of tables; a behaviour keeps to one
    People,      \* users
    Visitors,    \* visitor_id of a browser
    Ids,         \* keys of rows
    OwnerOf,     \* the user of a search
    Sites,       \* job boards, by the name the database keeps
    Lower,       \* the lower case of a board's name, however it is spelled
    Listing,     \* what an offer says: company, titles and place as words, and its board
    Filters,     \* what the tracker may be asked for
    Ticks,       \* bound: the clock, by area
    DayTicks,    \* a day
    MonthTicks,  \* a month; all months are as long
    FirstMonth,  \* the month the clock starts in
    Gap,         \* inactivity_minutes of a visit
    KeepRetired, \* keep_last of the devices
    Grant,       \* credits of a payment
    MaxRows      \* bound: page views, rows of the ledger, uses of a device

ASSUME StoresAssumption ==
    /\ {DayTicks, MonthTicks, Gap, KeepRetired, Grant, MaxRows} \subseteq Nat
    /\ DayTicks > 0  /\ MonthTicks > 0  /\ FirstMonth \in 1 .. 12
    /\ Ticks \in [Areas -> Nat]  /\ Ids \subseteq Nat  /\ OwnerOf \in [Ids -> People]
    /\ \A n \in Ids : Listing[n].board \in Sites
    /\ \A b, c \in Sites : Lower[b] = Lower[c] => b = c

NoTime    == -1                                    \* a date that is NULL
Anonymous == "nobody"
NoBoard   == "no board"

VARIABLES
    area,       \* which tables the behaviour is about
    clock,
    sql,        \* the tables in the database
    mem,        \* the dictionaries
    unit,       \* the unit of work that is open, if one is
    dismissed   \* history: which user has dismissed which announcement

Never == 1 + Ticks[area]     \* ends_at IS NULL

storeVars == <<area, clock, sql, mem, unit, dismissed>>

Empty ==
    [notices |-> {}, views |-> {}, visits |-> {}, offers |-> {}, searches |-> {}, prefs |-> {},
     creds |-> {}, devices |-> {}, subs |-> {}, ledger |-> {}, log |-> {}, users |-> {},
     logins |-> {}]

StoresInit ==
    /\ area \in Areas  /\ clock = 0  /\ sql = Empty  /\ mem = Empty
    /\ unit = {}  /\ dismissed = {}

-----------------------------------------------------------------------------
(* The unit of work. *)

\* What the exit of a unit needs: the session's tables, and the copies.
\* Writes to the dictionaries are in place at once.
OpensUnit(s, m, d, raises) ==
    /\ unit = {}
    /\ unit' = {[session |-> s, snapshot |-> mem, dismissed |-> d, raises |-> raises]}
    /\ mem' = m
    /\ UNCHANGED <<area, clock, sql, dismissed>>

Writes(where, s, m) == area = where /\ OpensUnit(s, m, dismissed, FALSE)
Breaks(where, m)    == area = where /\ OpensUnit(sql, m, dismissed, TRUE)

Commit ==
    \E u \in unit :
        /\ ~u.raises
        /\ sql' = u.session  /\ dismissed' = u.dismissed  /\ unit' = {}
        /\ UNCHANGED <<area, clock, mem>>

\* As if the copies shared their rows with the dictionaries.
RestoredNothing(u) == mem
Restored(u) == u.snapshot

Rollback ==
    \E u \in unit :
        /\ mem' = Restored(u)  /\ unit' = {}
        /\ UNCHANGED <<area, clock, sql, dismissed>>

Tick ==
    /\ unit = {}  /\ clock < Ticks[area]  /\ clock' = clock + 1
    /\ UNCHANGED <<area, sql, mem, unit, dismissed>>

\* A row is replaced by its key (merge, or an assignment to the dictionary).
Put(rows, row)  == {x \in rows : x.id # row.id} \union {row}
PutAll(rows, new) == {x \in rows : \A y \in new : x.id # y.id} \union new
Has(rows, n)    == \E x \in rows : x.id = n
Within(x, w)    == w.from <= x.at /\ x.at < w.to
Window(from, to) == [from |-> from, to |-> to]
DayStart == clock - (clock % DayTicks)
Today == Window(DayStart, DayStart + DayTicks)

\* The rows in an order.
SortedBy(rows, Before(_, _)) ==
    CHOOSE s \in [1 .. Cardinality(rows) -> rows] :
        \A i, j \in 1 .. Cardinality(rows) : i < j => Before(s[i], s[j])

-----------------------------------------------------------------------------
(* Announcements. *)

IsLive(a, now) == a.on /\ a.starts <= now /\ (a.ends = Never \/ now < a.ends)

SqlActive(t, p) ==
    {a \in t.notices : /\ a.on  /\ a.starts <= clock  /\ (a.ends = Never \/ a.ends > clock)
                       /\ ~\E v \in t.views : v = <<p, a.id>>}
MemActive(t, p) ==
    LET live == {a \in t.notices : IsLive(a, clock)}
    IN  {a \in live : <<p, a.id>> \notin t.views}

\* INSERT ... ON CONFLICT DO NOTHING, and a set.
SqlDismiss(t, p, n) == [t EXCEPT !.views = @ \union {<<p, n>>}]
MemDismiss(t, p, n) == IF <<p, n>> \in t.views THEN t ELSE [t EXCEPT !.views = @ \union {<<p, n>>}]

SqlSaveNotice(t, a) == [t EXCEPT !.notices = Put(@, a)]
MemSaveNotice(t, a) == [t EXCEPT !.notices = Put(@, a)]

\* ON DELETE CASCADE, and the sweep that stands in for it.
SqlDeleteNotice(t, n) ==
    [t EXCEPT !.notices = {a \in @ : a.id # n}, !.views = {v \in @ : v[2] # n}]
MemDeleteNoticeOnly(t, n) == [t EXCEPT !.notices = {a \in @ : a.id # n}]
MemDeleteNotice(t, n) ==
    [t EXCEPT !.notices = {a \in @ : a.id # n}, !.views = {v \in @ : v[2] # n}]

\* 404 for an announcement that is not there.
Dismiss(p, n) ==
    /\ area = "notices"  /\ Has(sql.notices, n)
    /\ OpensUnit(SqlDismiss(sql, p, n), MemDismiss(mem, p, n), dismissed \union {<<p, n>>}, FALSE)

\* A new one is validated before it is a row, an edited one afterwards.
IsValid(a) == a.ends = Never \/ a.ends > a.starts
SaveNotice(n) ==
    \E on \in BOOLEAN, starts \in 0 .. Ticks[area], ends \in 1 .. Never :
        LET a == [id |-> n, on |-> on, starts |-> starts, ends |-> ends] IN
        \/ IsValid(a) /\ Writes("notices", SqlSaveNotice(sql, a), MemSaveNotice(mem, a))
        \/ /\ ~IsValid(a)  /\ Has(sql.notices, n)
           /\ Breaks("notices", MemSaveNotice(mem, a))

DeleteNotice(n) ==
    /\ area = "notices"  /\ Has(sql.notices, n)
    /\ OpensUnit(SqlDeleteNotice(sql, n), MemDeleteNotice(mem, n),
             {v \in dismissed : v[2] # n}, FALSE)

-----------------------------------------------------------------------------
(* Page views, and the windows [from, to) the administrator asks for.       *)

SqlVisitors(t, w) == Cardinality({x.visitor : x \in {v \in t.visits : Within(v, w)}})
MemVisitors(t, w) == Cardinality({x.visitor : x \in {v \in t.visits : Within(v, w)}})

SqlPageViews(t, w) == Quantify(t.visits, LAMBDA v : Within(v, w))
MemPageViews(t, w) == Quantify(t.visits, LAMBDA v : Within(v, w))

KnownVisits(t, w) == {v \in t.visits : Within(v, w) /\ v.user # Anonymous}
SqlSignedIn(t, w) == Cardinality({x.visitor : x \in KnownVisits(t, w)})
MemSignedIn(t, w) == Cardinality({x.visitor : x \in KnownVisits(t, w)})

\* As if the look-back were left out.
ScannedFromStart(t, w) == {v \in t.visits : Within(v, w)}
Scanned(t, w) == {v \in t.visits : Within(v, Window(w.from - Gap, w.to))}

\* LAG over the views of a visitor: one with no predecessor, or a late one, starts a visit.
Earlier(x, y) == x.at < y.at \/ (x.at = y.at /\ x.id < y.id)
SqlSessions(t, w) ==
    LET ordered == Scanned(t, w)
        Starts(x) == \A y \in ordered :
                        (y.visitor = x.visitor /\ Earlier(y, x)) => x.at - y.at > Gap
    IN  Quantify(ordered, LAMBDA x : x.at >= w.from /\ Starts(x))

\* The loop over the sorted times of a visitor.
MemSessions(t, w) ==
    LET Times(v) == SortedBy({x \in Scanned(t, w) : x.visitor = v}, Earlier)
        Starts(s) == {i \in DOMAIN s : s[i].at >= w.from /\ (i = 1 \/ s[i].at - s[i - 1].at > Gap)}
    IN  Cardinality(UNION {{v} \X Starts(Times(v)) : v \in Visitors})

SqlPrune(t, cutoff) == [t EXCEPT !.visits = {x \in @ : ~(x.at < cutoff)}]
MemPrune(t, cutoff) == [t EXCEPT !.visits = {x \in @ : x.at >= cutoff}]

SqlSaveVisit(t, x) == [t EXCEPT !.visits = @ \union {x}]
MemSaveVisit(t, x) == [t EXCEPT !.visits = Put(@, x)]

FreshKey(rows) == CHOOSE n \in 1 .. MaxRows + 1 : ~Has(rows, n)

RecordPageView(v) ==
    \E who \in {Anonymous, v} :
        LET x == [id |-> FreshKey(sql.visits), visitor |-> v, user |-> who, at |-> clock] IN
        /\ Cardinality(sql.visits) < MaxRows
        /\ Writes("visits", SqlSaveVisit(sql, x), MemSaveVisit(mem, x))

\* retention_days is at least one.
PruneOldPageViews ==
    \E days \in 1 .. 2 :
        LET cutoff == clock - days * DayTicks IN
        Writes("visits", SqlPrune(sql, cutoff), MemPrune(mem, cutoff))

-----------------------------------------------------------------------------
(* The tracker: offers, from their drafts on, and the recent searches.      *)

\* The database dates an offer at its save, and its sending once.
Dated(o) == [o EXCEPT !.at   = IF @ = NoTime THEN clock ELSE @,
                      !.sent = IF o.status = "SUBMITTED" /\ @ = NoTime THEN clock ELSE @]
SqlSaveOffer(t, o) == [t EXCEPT !.offers = Put(@, Dated(o))]
MemSaveOffer(t, o) == [t EXCEPT !.offers = Put(@, o)]

OffersAs(t, s, st)      == {o \in t.offers : o.search = s /\ o.status = st}
SqlBySearch(t, s)       == {o.id : o \in {x \in t.offers : x.search = s}}
MemBySearch(t, s)       == {o.id : o \in {x \in t.offers : x.search = s}}
SqlBySearchAs(t, s, st) == {o.id : o \in OffersAs(t, s, st)}
MemBySearchAs(t, s, st) == {o.id : o \in OffersAs(t, s, st)}

SqlCleanup(t, s, st) == [t EXCEPT !.offers = @ \ OffersAs(t, s, st)]
MemCleanup(t, s, st) == [t EXCEPT !.offers = {o \in @ : o.search # s \/ o.status # st}]

Owner(o)       == OwnerOf[o.search]
SentBy(t, p)   == {o \in t.offers : o.status = "SUBMITTED" /\ Owner(o) = p}
\* Only the caller's own, and only what was sent; anything else is not found.
Toggled(t, p, n, field, b) ==
    [t EXCEPT !.offers = {IF o.id = n /\ o \in SentBy(t, p) THEN [o EXCEPT ![field] = b] ELSE o : o \in @}]
SqlToggleResponse(t, p, n, b)  == Toggled(t, p, n, "response", b)
MemToggleResponse(t, p, n, b)  == Toggled(t, p, n, "response", b)
SqlToggleInterview(t, p, n, b) == Toggled(t, p, n, "interview", b)
MemToggleInterview(t, p, n, b) == Toggled(t, p, n, "interview", b)

\* A criterion is a set, empty when it is not asked for. Company and title ask for a part.
Matches(o, f) ==
    /\ f.company \subseteq Listing[o.id].company  /\ f.title \subseteq Listing[o.id].title
    /\ \A b \in f.response : o.response = b
    /\ \A b \in f.interview : o.interview = b
    /\ \A d \in f.from : o.at # NoTime /\ o.at \div DayTicks >= d
    /\ \A d \in f.to : o.at # NoTime /\ o.at \div DayTicks <= d
\* The database asks for a part of the place and for a board's name as it keeps it,
\* the dictionary for all of the place and for the name in any spelling.
SqlMatches(o, f) ==
    /\ Matches(o, f)
    /\ f.place \subseteq Listing[o.id].place
    /\ \A b \in f.board : b = Listing[o.id].board
MemMatches(o, f) ==
    /\ Matches(o, f)
    /\ f.place = {} \/ f.place = Listing[o.id].place
    /\ \A b \in f.board : Lower[b] = Lower[Listing[o.id].board]

\* The three titles most applied for, with their counts; either of two that are level.
Top(os, titleOf) ==
    LET slices == {<<t, Quantify(os, LAMBDA o : titleOf[o.id] = t)>> : t \in {titleOf[o.id] : o \in os}}
    IN  {s \in kSubset(Min({3, Cardinality(slices)}), slices) : \A x \in s, y \in slices \ s : x[2] >= y[2]}
JobTitle   == [n \in Ids |-> Listing[n].title]
CleanTitle == [n \in Ids |-> IF Listing[n].clean = {} THEN JobTitle[n] ELSE Listing[n].clean]

\* The list of the tracker: how many pass the filter, how many there are, the top titles.
SqlApplications(t, p, f) ==
    LET shown == {o \in SentBy(t, p) : SqlMatches(o, f)}
    IN  [total |-> Cardinality(shown), unfiltered |-> Cardinality(SentBy(t, p)),
         titles |-> Top(shown, CleanTitle)]
MemApplications(t, p, f) ==
    LET shown == {o \in SentBy(t, p) : MemMatches(o, f)}
    IN  [total |-> Cardinality(shown), unfiltered |-> Cardinality(SentBy(t, p)),
         titles |-> Top(shown, JobTitle)]

\* since is NoTime for the period "all".
Since(t, p, since) == {o \in SentBy(t, p) : since = NoTime \/ (o.at # NoTime /\ o.at >= since)}
SqlAnalytics(t, p, since) ==
    [all |-> Cardinality(SentBy(t, p)), period |-> Cardinality(Since(t, p, since)),
     responses  |-> Quantify(Since(t, p, since), LAMBDA o : o.response),
     interviews |-> Quantify(Since(t, p, since), LAMBDA o : o.interview)]
MemAnalytics(t, p, since) ==
    [all |-> Cardinality(SentBy(t, p)), period |-> Cardinality(Since(t, p, since)),
     responses  |-> Quantify(Since(t, p, since), LAMBDA o : o.response),
     interviews |-> Quantify(Since(t, p, since), LAMBDA o : o.interview)]

SqlCountAs(t, st, w) == Quantify(t.offers, LAMBDA o : o.status = st /\ Within(o, w))
MemCountAs(t, st, w) == Quantify(t.offers, LAMBDA o : o.status = st /\ Within(o, w))
\* Every offer, dated or not.
Always == Window(NoTime, Never)

SqlSentToday(t, p) == Quantify(SentBy(t, p), LAMBDA o : o.at >= DayStart)
MemSentToday(t, p) == Quantify(SentBy(t, p), LAMBDA o : o.at # NoTime /\ o.at >= DayStart)

SqlSentBetween(t, p, w) == Quantify(SentBy(t, p), LAMBDA o : w.from <= o.sent /\ o.sent < w.to)
MemSentBetween(t, p, w) ==
    Quantify(SentBy(t, p), LAMBDA o : o.sent # NoTime /\ w.from <= o.sent /\ o.sent < w.to)

\* What not to apply to again. The dictionary does not ask whose offers they are.
SqlRecent(t, p, since) == {o.id : o \in {x \in SentBy(t, p) : x.at >= since}}
MemRecent(t, p, since) ==
    {o.id : o \in {x \in t.offers : x.status = "SUBMITTED" /\ x.at # NoTime /\ x.at >= since}}

\* What a run and a review do to an offer. An agent's offer has no dates of its own.
Draft(n, s) == [id |-> n, search |-> s, status |-> "GENERATED", response |-> FALSE,
                interview |-> FALSE, at |-> NoTime, sent |-> NoTime]
DraftOffer(n, s) ==
    /\ ~Has(sql.offers, n)
    /\ Writes("tracker", SqlSaveOffer(sql, Draft(n, s)), MemSaveOffer(mem, Draft(n, s)))

After == [GENERATED |-> {"GENERATED", "APPROVED", "REJECTED"},
          APPROVED |-> {"SUBMITTED", "REJECTED"}, SUBMITTED |-> {}, REJECTED |-> {}]
Moved(t, n, st, keepsDates) ==
    LET o == CHOOSE x \in t.offers : x.id = n
    IN  [o EXCEPT !.status = st, !.at = IF keepsDates THEN @ ELSE NoTime]
MoveOffer(n) ==
    /\ area = "tracker"  /\ Has(sql.offers, n)
    /\ \E o \in sql.offers : o.id = n /\ \E st \in After[o.status], keepsDates \in BOOLEAN :
          Writes("tracker", SqlSaveOffer(sql, Moved(sql, n, st, keepsDates)),
                            MemSaveOffer(mem, Moved(mem, n, st, keepsDates)))

ToggleResponse(p, n) ==
    \E b \in BOOLEAN :
        /\ \E o \in SentBy(sql, p) : o.id = n
        /\ Writes("tracker", SqlToggleResponse(sql, p, n, b),
                             MemToggleResponse(mem, p, n, b))
ToggleInterview(p, n) ==
    \E b \in BOOLEAN :
        /\ \E o \in SentBy(sql, p) : o.id = n
        /\ Writes("tracker", SqlToggleInterview(sql, p, n, b),
                             MemToggleInterview(mem, p, n, b))

CleanupUnsubmitted(s) ==
    Writes("tracker", SqlCleanup(sql, s, "APPROVED"), MemCleanup(mem, s, "APPROVED"))

Latest(rows, k) == {x \in rows : Quantify(rows, LAMBDA y : y.at > x.at) < k}
Visible(t, p)   == {x \in t.searches : OwnerOf[x.id] = p /\ x.status # "COMPLETED"}
SqlRecentSearches(t, p, k) == {x.id : x \in Latest(Visible(t, p), k)}
MemRecentSearches(t, p, k) ==
    LET newest == SortedBy(Visible(t, p), LAMBDA x, y : x.at > y.at)
    IN  {newest[i].id : i \in {j \in DOMAIN newest : j <= k}}

SqlSaveSearch(t, x) == [t EXCEPT !.searches = Put(@, x)]
MemSaveSearch(t, x) == [t EXCEPT !.searches = Put(@, x)]
\* No two searches are stamped at one time.
SaveSearch(n) ==
    \E st \in {"SEARCHING", "COMPLETED"} :
        LET x == [id |-> n, status |-> st, at |-> clock] IN
        /\ \A y \in sql.searches : y.at # clock
        /\ Writes("searches", SqlSaveSearch(sql, x), MemSaveSearch(mem, x))

-----------------------------------------------------------------------------
(* Preferences and credentials. *)

SqlPreferences(t, p) == {x \in t.prefs : x.id = p}
MemPreferences(t, p) == {x \in t.prefs : x.id = p}
SqlSavePreferences(t, x) == [t EXCEPT !.prefs = Put(@, x)]
MemSavePreferences(t, x) == [t EXCEPT !.prefs = Put(@, x)]

SqlCredential(t, p, b) == {c \in t.creds : c.id = <<p, b>>}
MemCredential(t, p, b) == {c \in t.creds : c.id = <<p, b>>}
SqlSaveCredentials(t, cs) == [t EXCEPT !.creds = PutAll(@, cs)]
MemSaveCredentials(t, cs) == [t EXCEPT !.creds = PutAll(@, cs)]
SqlCredentials(t, p) == {c \in t.creds : c.id[1] = p}
MemCredentials(t, p) == {c \in t.creds : c.id[1] = p}

\* A login or a password that is not given stays; a new pair needs both.
NotGiven == 0
OrElse(given, old) == IF given = NotGiven THEN old ELSE given
NewCredential(p, b, g) ==
    IF NotGiven \in {g.login, g.password} THEN {}
    ELSE {[id |-> <<p, b>>, login |-> g.login, password |-> g.password]}
Credential(p, b, old, g) ==
    IF old = {} THEN NewCredential(p, b, g)
    ELSE {[c EXCEPT !.login = OrElse(g.login, @), !.password = OrElse(g.password, @)] : c \in old}

\* Each board looks up and saves a row of its own.
SqlSetCredentials(t, p, given) ==
    SqlSaveCredentials(t, UNION {Credential(p, b, SqlCredential(t, p, b), given[b]) : b \in Sites})
MemSetCredentials(t, p, given) ==
    MemSaveCredentials(t, UNION {Credential(p, b, MemCredential(t, p, b), given[b]) : b \in Sites})

Defaults == 0     \* what a user without a row has chosen
Shown(rows, creds) ==
    [prefs |-> IF rows = {} THEN {Defaults} ELSE {x.choice : x \in rows},
     configured |-> {c.id[2] : c \in {d \in creds : NotGiven \notin {d.login, d.password}}}]
SqlGetPreferences(t, p) == Shown(SqlPreferences(t, p), SqlCredentials(t, p))
MemGetPreferences(t, p) == Shown(MemPreferences(t, p), MemCredentials(t, p))

\* The preferences first, then every board that was given.
UpdateUserPreferences(p) ==
    \E choice \in 0 .. 1, given \in [Sites -> [login : 0 .. 2, password : 0 .. 1]] :
        LET row == [id |-> p, choice |-> choice] IN
        Writes("profile", SqlSetCredentials(SqlSavePreferences(sql, row), p, given),
                          MemSetCredentials(MemSavePreferences(mem, row), p, given))

-----------------------------------------------------------------------------
(* Devices. *)

Live(t, p)  == {d \in t.devices : d.owner = p /\ d.retired = NoTime}
Lowest(ds)  == {d.id : d \in {x \in ds : \A y \in ds : x.slot <= y.slot}}
SqlDevices(t, p)  == {d.id : d \in Live(t, p)}
MemDevices(t, p)  == {d.id : d \in Live(t, p)}
SqlDeviceOf(t, p, b) == Lowest({d \in Live(t, p) : d.board = b})
MemDeviceOf(t, p, b) == Lowest({d \in Live(t, p) : d.board = b})

\* The slot of a user is the key: the row that has it keeps its id.
Slot(t, d) == {x \in t.devices : x.owner = d.owner /\ x.slot = d.slot}
SqlSaveDevice(t, d) ==
    [t EXCEPT !.devices = IF Slot(t, d) = {} THEN @ \union {d}
                          ELSE (@ \ Slot(t, d)) \union {[d EXCEPT !.id = x.id] : x \in Slot(t, d)}]
MemSaveDevice(t, d) ==
    LET kept == {[d EXCEPT !.id = x.id] : x \in Slot(t, d)}
    IN  [t EXCEPT !.devices = Put(@, CHOOSE x \in IF kept = {} THEN {d} ELSE kept : TRUE)]

OnDevice(t, n, Change(_)) ==
    [t EXCEPT !.devices = {IF d.id = n THEN Change(d) ELSE d : d \in @}]
Used(d)    == [d EXCEPT !.uses = @ + 1]
Retired(d) == IF d.retired = NoTime THEN [d EXCEPT !.retired = clock, !.board = NoBoard] ELSE d
SqlTouch(t, n)  == OnDevice(t, n, Used)
MemTouch(t, n)  == OnDevice(t, n, Used)
SqlRetire(t, n) == OnDevice(t, n, Retired)
MemRetire(t, n) == OnDevice(t, n, Retired)

\* The newest retired ones are kept, by slot.
Old(t, p) == {d \in t.devices : d.owner = p /\ d.retired # NoTime}
SqlPurge(t, p) ==
    [t EXCEPT !.devices = @ \ {d \in Old(t, p) : Quantify(Old(t, p), LAMBDA x : x.slot > d.slot) >= KeepRetired}]
MemPurge(t, p) ==
    LET newest == SortedBy(Old(t, p), LAMBDA x, y : x.slot > y.slot)
    IN  [t EXCEPT !.devices = @ \ {newest[i] : i \in {j \in DOMAIN newest : j > KeepRetired}}]

\* Two runs may choose one slot for two devices; a device that was loaded is saved as it is.
SaveDevice(n, p) ==
    \E slot \in Ids, b \in Sites :
        LET d == [id |-> n, owner |-> p, slot |-> slot, board |-> b, uses |-> 0, retired |-> NoTime] IN
        /\ \A x \in sql.devices : x.id = n => x.owner = p /\ x.slot = slot
        /\ Writes("devices", SqlSaveDevice(sql, d), MemSaveDevice(mem, d))
TouchDevice(n) ==
    /\ \E d \in sql.devices : d.id = n /\ d.uses < 1
    /\ Writes("devices", SqlTouch(sql, n), MemTouch(mem, n))
RetireDevice(n) ==
    /\ Has(sql.devices, n)
    /\ Writes("devices", SqlRetire(sql, n), MemRetire(mem, n))
PurgeDevices(p) == Writes("devices", SqlPurge(sql, p), MemPurge(mem, p))

-----------------------------------------------------------------------------
(* Credits: the balance, its ledger, and what was mailed. *)

Entry(t, p, delta, after, kind) ==
    [id |-> Cardinality(t.ledger) + 1, user |-> p, delta |-> delta, after |-> after,
     kind |-> kind, at |-> clock]

SqlSaveSubscription(t, x) == [t EXCEPT !.subs = Put(@, x)]
MemSaveSubscription(t, x) == [t EXCEPT !.subs = Put(@, x)]
SqlRecord(t, e) == [t EXCEPT !.ledger = @ \union {e}]
MemRecord(t, e) == [t EXCEPT !.ledger = Put(@, e)]

\* One statement: the row of the ledger feeds off the row that was decremented.
SqlTryConsume(t, p, amount) ==
    LET consumed == {[x EXCEPT !.credits = @ - amount] :
                        x \in {y \in t.subs : y.id = p /\ y.credits >= amount}}
    IN  [t EXCEPT !.subs = PutAll(@, consumed),
                  !.ledger = @ \union {Entry(t, p, -amount, x.credits, "CONSUME") : x \in consumed}]
MemTryConsume(t, p, amount) ==
    IF \E x \in t.subs : x.id = p /\ ~(x.credits < amount)
      THEN LET x == CHOOSE y \in t.subs : y.id = p
               left == x.credits - amount
           IN  MemRecord(MemSaveSubscription(t, [x EXCEPT !.credits = left]),
                         Entry(t, p, -amount, left, "CONSUME"))
      ELSE t

Spent(entries) == MapThenSumSet(LAMBDA e : -e.delta, entries)
SqlConsumed(t, w) == Spent({e \in t.ledger : e.kind = "CONSUME" /\ Within(e, w)})
MemConsumed(t, w) ==
    Spent({e \in t.ledger : e.kind = "CONSUME" /\ ~(e.at < w.from) /\ ~(e.at >= w.to)})

\* Who paid for the first time in a window: the first payment of each, then the window.
Payments(t, p) == {e.at : e \in {x \in t.ledger : x.user = p /\ x.kind = "REPLENISH"}}
SqlFirstPurchase(t, w) ==
    {p \in {e.user : e \in t.ledger} :
        Payments(t, p) # {} /\ Within([at |-> Min(Payments(t, p))], w)}
MemFirstPurchase(t, w) ==
    {p \in People : \E at \in Payments(t, p) :
        Within([at |-> at], w) /\ \A x \in Payments(t, p) : x >= at}

SqlEarliest(t) == IF t.ledger = {} THEN NoTime ELSE Min({e.at : e \in t.ledger})
MemEarliest(t) == IF t.ledger = {} THEN NoTime ELSE Min({e.at : e \in t.ledger})

SqlLog(t, p, kind) == [t EXCEPT !.log = @ \union {<<p, kind>>}]
MemLog(t, p, kind) == IF <<p, kind>> \in t.log THEN t ELSE [t EXCEPT !.log = @ \union {<<p, kind>>}]
SqlAlreadySent(t, p, kind) == \E x \in t.log : x = <<p, kind>>
MemAlreadySent(t, p, kind) == <<p, kind>> \in t.log

SqlActiveSubs(t) == {x \in t.subs : x.active}
MemActiveSubs(t) == {x \in t.subs : x.active}

\* A payment resets the balance and records the grant.
Replenish(p) ==
    LET x == [id |-> p, credits |-> Grant, active |-> TRUE]
        e == Entry(sql, p, Grant, Grant, "REPLENISH")
    IN  /\ Cardinality(sql.ledger) < MaxRows
        /\ Writes("ledger", SqlRecord(SqlSaveSubscription(sql, x), e),
                            MemRecord(MemSaveSubscription(mem, x), e))
Consume(p) ==
    \E amount \in 1 .. 2 :
        /\ Cardinality(sql.ledger) < MaxRows
        /\ Writes("ledger", SqlTryConsume(sql, p, amount), MemTryConsume(mem, p, amount))
Deactivate(p) ==
    \E x \in sql.subs :
        /\ x.id = p
        /\ Writes("ledger", SqlSaveSubscription(sql, [x EXCEPT !.active = FALSE]),
                            MemSaveSubscription(mem, [x EXCEPT !.active = FALSE]))
LogMessage(p) == Writes("ledger", SqlLog(sql, p, "welcome"), MemLog(mem, p, "welcome"))

-----------------------------------------------------------------------------
(* Accounts: the profile, and the row to sign in with. *)

SqlSaveUser(t, x)  == [t EXCEPT !.users = Put(@, x)]
MemSaveUser(t, x)  == [t EXCEPT !.users = Put(@, x)]
SqlSaveLogin(t, x) == [t EXCEPT !.logins = Put(@, x)]
MemSaveLogin(t, x) == [t EXCEPT !.logins = Put(@, x)]

\* A field that is None: the request leaves it out, and so would the dictionary.
NotSaid == "not said"
Params(name) == {name} \ {NotSaid}
Renamed(x, data) == IF data = {} THEN x ELSE [x EXCEPT !.name = CHOOSE name \in data : TRUE]
Changed(t, p, data) == [t EXCEPT !.users = {IF x.id = p THEN Renamed(x, data) ELSE x : x \in @}]
SqlUpdateUser(t, p, data) == Changed(t, p, data)
MemUpdateUser(t, p, data) == Changed(t, p, data \ {NotSaid})

\* ON DELETE CASCADE; the dictionaries keep what belonged to the user.
SqlDeleteUser(t, p) ==
    [t EXCEPT !.users = {x \in @ : x.id # p}, !.logins = {x \in @ : x.id # p}]
MemDeleteUser(t, p) == [t EXCEPT !.users = {x \in @ : x.id # p}]

SqlUsers(t) == Cardinality(t.users)
MemUsers(t) == Cardinality(t.users)
SqlSignups(t, w) == Quantify(t.logins, LAMBDA x : Within(x, w))
MemSignups(t, w) == Quantify(t.logins, LAMBDA x : Within(x, w))
SqlVerified(t) == Quantify(t.logins, LAMBDA x : x.verified)
MemVerified(t) == Quantify(t.logins, LAMBDA x : x.verified)
SqlReachable(t, w) == {x.id : x \in {y \in t.logins : Within(y, w) /\ ~y.optOut}}
MemReachable(t, w) == {x.id : x \in {y \in t.logins : Within(y, w) /\ ~y.optOut}}

\* Read from the row on every request.
IsAdmin(t, p) == \E x \in t.logins : x.id = p /\ x.active /\ x.admin

Register(p) ==
    LET x == [id |-> p, name |-> "first"]
        y == [id |-> p, at |-> clock, verified |-> FALSE, active |-> TRUE, admin |-> FALSE, optOut |-> FALSE]
    IN  /\ ~Has(sql.users, p)  /\ ~Has(mem.logins, p)
        /\ Writes("accounts", SqlSaveLogin(SqlSaveUser(sql, x), y), MemSaveLogin(MemSaveUser(mem, x), y))
EditLogin(p, field, value) ==
    \E x \in sql.logins :
        /\ x.id = p
        /\ LET y == [x EXCEPT ![field] = value]
           IN  Writes("accounts", SqlSaveLogin(sql, y), MemSaveLogin(mem, y))
Verify(p)      == EditLogin(p, "verified", TRUE)
Unsubscribe(p) == EditLogin(p, "optOut", TRUE)
\* By hand, in the database.
SetAdmin(p, b)  == EditLogin(p, "admin", b)
SetActive(p, b) == EditLogin(p, "active", b)
UpdateUser(p) ==
    /\ Has(sql.users, p)
    /\ \E name \in {"second", NotSaid} :
          Writes("accounts", SqlUpdateUser(sql, p, Params(name)), MemUpdateUser(mem, p, Params(name)))
DeleteUser(p) ==
    /\ Has(sql.users, p)
    /\ Writes("accounts", SqlDeleteUser(sql, p), MemDeleteUser(mem, p))

-----------------------------------------------------------------------------
(* The administrator's figures. *)

\* The clock starts with the month FirstMonth of the year 0.
MonthStart(y, m) == (12 * y + m - FirstMonth) * MonthTicks
MonthBounds ==
    LET months == (FirstMonth - 1) + (clock \div MonthTicks)
        y == months \div 12
        m == 1 + (months % 12)
        last == IF m = 1 THEN MonthStart(y - 1, 12) ELSE MonthStart(y, m - 1)
        next == IF m = 12 THEN MonthStart(y + 1, 1) ELSE MonthStart(y, m + 1)
    IN  [last |-> Window(last, MonthStart(y, m)), this |-> Window(MonthStart(y, m), next)]

\* Estimated from what the active plans grant and what is left of it.
Estimate(subs) == MapThenSumSet(LAMBDA x : Max({Grant - x.credits, 0}), subs)

SqlOverview(t) ==
    [users    |-> <<SqlUsers(t), SqlVerified(t), SqlSignups(t, MonthBounds.this), SqlSignups(t, MonthBounds.last)>>,
     visitors |-> <<SqlVisitors(t, Today), SqlSessions(t, Today), SqlPageViews(t, Today), SqlSignedIn(t, Today),
                    Max({SqlVisitors(t, Today) - SqlSignedIn(t, Today), 0})>>,
     sent     |-> SqlCountAs(t, "SUBMITTED", Always),
     credits  |-> <<SqlConsumed(t, Always), SqlConsumed(t, MonthBounds.this), SqlConsumed(t, MonthBounds.last),
                    Estimate(SqlActiveSubs(t)), SqlEarliest(t)>>]
MemOverview(t) ==
    [users    |-> <<MemUsers(t), MemVerified(t), MemSignups(t, MonthBounds.this), MemSignups(t, MonthBounds.last)>>,
     visitors |-> <<MemVisitors(t, Today), MemSessions(t, Today), MemPageViews(t, Today), MemSignedIn(t, Today),
                    Max({MemVisitors(t, Today) - MemSignedIn(t, Today), 0})>>,
     sent     |-> MemCountAs(t, "SUBMITTED", Always),
     credits  |-> <<MemConsumed(t, Always), MemConsumed(t, MonthBounds.this), MemConsumed(t, MonthBounds.last),
                    Estimate(MemActiveSubs(t)), MemEarliest(t)>>]

-----------------------------------------------------------------------------

NoticeUnit ==
    \E n \in Ids : SaveNotice(n) \/ DeleteNotice(n) \/ \E p \in People : Dismiss(p, n)
VisitUnit == PruneOldPageViews \/ \E v \in Visitors : RecordPageView(v)
OfferUnit ==
    \E n \in Ids :
        \/ MoveOffer(n) \/ CleanupUnsubmitted(n) \/ SaveSearch(n)
        \/ \E s \in Ids : DraftOffer(n, s)
        \/ \E p \in People : ToggleResponse(p, n) \/ ToggleInterview(p, n)
ProfileUnit == \E p \in People : UpdateUserPreferences(p)
DeviceUnit ==
    \/ \E n \in Ids : TouchDevice(n) \/ RetireDevice(n) \/ \E p \in People : SaveDevice(n, p)
    \/ \E p \in People : PurgeDevices(p)
LedgerUnit ==
    \E p \in People : Replenish(p) \/ Consume(p) \/ Deactivate(p) \/ LogMessage(p)
AccountUnit ==
    \E p \in People :
        \/ Register(p) \/ Verify(p) \/ Unsubscribe(p) \/ UpdateUser(p) \/ DeleteUser(p)
        \/ \E b \in BOOLEAN : SetAdmin(p, b) \/ SetActive(p, b)

StoresNext ==
    \/ Commit \/ Rollback \/ Tick
    \/ NoticeUnit \/ VisitUnit \/ OfferUnit \/ ProfileUnit \/ DeviceUnit \/ LedgerUnit \/ AccountUnit

StoresSpec == StoresInit /\ [][StoresNext]_storeVars

-----------------------------------------------------------------------------

Windows == {Window(from, to) : from, to \in 0 .. Ticks[area] + 1}

\* What both keep: not the dates the database gives an offer, nor the logins of the deleted.
Kept(t) ==
    [t EXCEPT !.offers = {[o EXCEPT !.at = NoTime, !.sent = NoTime] : o \in @},
              !.logins = {x \in @ : Has(t.users, x.id)}]

\* What both stores filter by in one way: no date, no place, a board by its name.
SharedFilters == {f \in Filters : f.place = {} /\ f.board \subseteq Sites /\ f.from = {} /\ f.to = {}}
SameTotals(p, f) ==
    LET s == SqlApplications(sql, p, f)
        m == MemApplications(mem, p, f)
    IN  s.total = m.total /\ s.unfiltered = m.unfiltered

SameAnswers ==
    /\ \A p \in People :
          /\ SqlActive(sql, p) = MemActive(mem, p)
          /\ SqlGetPreferences(sql, p) = MemGetPreferences(mem, p)
          /\ SqlDevices(sql, p) = MemDevices(mem, p)
          /\ \A b \in Sites : SqlDeviceOf(sql, p, b) = MemDeviceOf(mem, p, b)
          /\ \A f \in SharedFilters : SameTotals(p, f)
          /\ SqlAnalytics(sql, p, NoTime) = MemAnalytics(mem, p, NoTime)
          /\ \A k \in 1 .. 2 : SqlRecentSearches(sql, p, k) = MemRecentSearches(mem, p, k)
          /\ SqlAlreadySent(sql, p, "welcome") = MemAlreadySent(mem, p, "welcome")
    /\ \A s \in Ids : SqlBySearch(sql, s) = MemBySearch(mem, s)
                      /\ \A st \in DOMAIN After : SqlBySearchAs(sql, s, st) = MemBySearchAs(mem, s, st)
    /\ \A w \in Windows : SqlFirstPurchase(sql, w) = MemFirstPurchase(mem, w)
    /\ Kept(mem) = mem => SqlOverview(sql) = MemOverview(mem)

(* Between two units of work, whatever of them failed, the dictionaries hold *)
(* the rows of the database, but for the dates it gives an offer and what it *)
(* cascades, and answer alike each query of SameAnswers: "Mirrors the DB     *)
(* adapter" (memory.py). The queries they answer differently are not of it:  *)
(* those over dates (DatedAnswersAgree), and of the tracker those for a      *)
(* place or for a board in another spelling, and the top titles              *)
(* (ListingsAgree).                                                          *)
StoresAgree == unit = {} => Kept(sql) = Kept(mem) /\ (mem = Empty \/ SameAnswers)

(* A user who has dismissed an announcement is not shown it again, however   *)
(* often it is edited, taken down and published anew; only its deletion      *)
(* forgets (announcement_use_cases.py:179 "keeps the dismissals"); by hand.  *)
DismissedStaysAway ==
    unit = {} => \A v \in dismissed : \A a \in SqlActive(sql, v[1]) : a.id # v[2]

(* The visits of two adjoining windows add up to those of the whole: one     *)
(* that runs over the boundary is counted once, on the day it began.         *)
SessionsAddUp ==
    sql.visits = {} \/ \A a, b, c \in 0 .. Ticks[area] + 1 :
        a <= b /\ b <= c =>
            SqlSessions(sql, Window(a, b)) + SqlSessions(sql, Window(b, c)) = SqlSessions(sql, Window(a, c))

(* What the text says and the stores do not do (checked by hand):            *)
(* memory.py "Mirrors the DB adapter" of the queries over dates; and         *)
(* page_view_repo_db.py:22 "Visits that straddle midnight still count once   *)
(* in each day".                                                             *)
DatedAnswersAgree ==
    unit = {} =>
        \A p \in People :
            /\ SqlSentToday(sql, p) = MemSentToday(mem, p)
            /\ SqlRecent(sql, p, 0) = MemRecent(mem, p, 0)
            /\ SqlAnalytics(sql, p, 0) = MemAnalytics(mem, p, 0)
            /\ \A w \in Windows : /\ SqlSentBetween(sql, p, w) = MemSentBetween(mem, p, w)
                                   /\ SqlCountAs(sql, "SUBMITTED", w) = MemCountAs(mem, "SUBMITTED", w)
SeenOnEachDay ==
    \A from \in 0 .. Ticks[area] :
        from % DayTicks = 0 =>
            LET day == Window(from, from + DayTicks)
            IN  SqlSessions(sql, day) >= SqlVisitors(sql, day)

ListingsAgree ==
    unit = {} => \A p \in People, f \in Filters : SqlApplications(sql, p, f) = MemApplications(mem, p, f)
================================================================================
