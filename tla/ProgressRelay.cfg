SPECIFICATION RelaySpec
CONSTANTS
    r1 = r1
    r2 = r2
    b1 = b1
    b2 = b2
    Runs = {r1, r2}
    Starts = {r1}
    SearchOf <- SameSearch
    Boards = {b1, b2}
    Active <- Works2
    Assigned <- Each
    Muted = {b2}
    MaxJobs = 2
    Deployments = {"cloud", "memory"}
    NoRun = NoRun
CHECK_DEADLOCK FALSE
INVARIANTS
    SentinelOnceAndLast
    ReaderMissesNothing
