SPECIFICATION Spec
CONSTANTS
    o1 = o1
    o2 = o2
    o3 = o3
    apec = apec
    wttj = wttj
    Offers = {o1, o2, o3}
    Boards = {apec, wttj}
    BoardOf <- TwoAndOne
    Plans = {"BASIC", "PREMIUM"}
    DailyLimit = 2
    StartCredits = 3
    MaxRuns = 1
    MaxFaults = 1
    MaxEdits = 0
    MaxElsewhere = 2
CHECK_DEADLOCK FALSE
INVARIANTS
    KillStopsWorkers
    ChargedForDrafts
    UsageCountedOncePerRun
PROPERTY OvershootIsOnePerBoard
