\* One free search of each kind of scraper, and one unit of work after the other in
\* each group of tables.
SPECIFICATION DeskSpec
CONSTANTS
    Requests = {r1, r2}
    UserOf <- SameUser
    Scrapers = {"hw", "wttj", "apec", "indeed"}
    Offers = {o1, o2}
    Decoys = {o2}
    Target = 2
    PageLimit <- TwoPages
    Tries = 2
    MaxCards = 2
    LastDay = 1
    Areas = {"notices", "visits", "tracker", "searches", "profile", "devices", "ledger", "accounts"}
    People = {"ana", "bob"}
    Visitors = {"ana", "bob"}
    Ids = {1, 2}
    OwnerOf <- OwnersOf
    Sites = {"APEC", "WTTJ"}
    Lower <- LowerCase
    Listing <- Listed
    Filters <- Asked
    Ticks <- TicksOf
    DayTicks = 2
    MonthTicks = 2
    FirstMonth = 12
    Gap = 1
    KeepRetired = 1
    Grant = 2
    MaxRows = 3
\* A request that was answered, and a clock at its bound, have nothing left to do.
CHECK_DEADLOCK FALSE
INVARIANTS
    CountedOnce
    LinksFollowTitles
    StoresAgree
    SessionsAddUp
