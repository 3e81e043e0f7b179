SPECIFICATION Spec
CONSTANTS
    o1 = o1
    o2 = o2
    o3 = o3
    apec = apec
    wttj = wttj
    Offers = {o1, o2}
    Boards = {apec}
    BoardOf <- BothOne
    Plans = {"PREMIUM"}
    DailyLimit = 2
    StartCredits = 3
    MaxRuns = 2
    MaxFaults = 0
    MaxEdits = 1
    MaxElsewhere = 0
CHECK_DEADLOCK FALSE
INVARIANT CompletedLeavesNoDrafts
