SPECIFICATION Spec
CONSTANTS
    o1 = o1
    o2 = o2
    o3 = o3
    apec = apec
    wttj = wttj
    Offers = {o1, o2}
    Boards = {apec, wttj}
    BoardOf <- OneEach
    Plans = {"BASIC"}
    DailyLimit = 2
    StartCredits = 2
    MaxRuns = 1
    MaxFaults = 0
    MaxEdits = 0
    MaxElsewhere = 1
CHECK_DEADLOCK FALSE
PROPERTY DispatchWithinQuota
