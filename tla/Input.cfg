SPECIFICATION HandSpec
CONSTANTS
    Boards = {"apec", "wttj"}
    Clickers = {"apec"}
    d1 = d1
    d2 = d2
    Numbers = {d1, d2}
    Recycled = FALSE
    MaxStarts = 3
    MaxCrashes = 1
    MaxWindows = 2
    TextLength = 2
    PacedBoards = {"apec", "hellowork"}
    r1 = r1
    r2 = r2
    Runs = {r1, r2}
    Unit = 30
    Pace = 2
    Budget = 4
    Ceiling = 4
    Stale = 4
    Works = {0, 3}
    Lengths = {100}
    MaxNow = 6
    NoClock = NoClock
    NoToken = NoToken
SYMMETRY Alike
CHECK_DEADLOCK FALSE
INVARIANTS
    OnePointerPerDisplay
    ScreensAreReturned
    NoRepeat
    PacedByItsOwnBudget
    SeemsAlive
PROPERTY InputReachesThePage
