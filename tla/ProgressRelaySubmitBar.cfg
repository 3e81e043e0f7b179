SPECIFICATION RelaySpec
CONSTANTS
    r1 = r1
    r2 = r2
    b1 = b1
    b2 = b2
    Runs = {r1, r2}
    Starts = {r1}
    SearchOf <- SameSearch
    Boards = {b1, b2}
    Active <- BothBoards
    Assigned <- Sendings
    Muted = {b2}
    MaxJobs = 2
    Deployments = {"cloud"}
    NoRun = NoRun
CHECK_DEADLOCK FALSE
INVARIANT SubmitBarIsRunWide
