SPECIFICATION Spec
CONSTANTS
    o1 = o1
    o2 = o2
    o3 = o3
    apec = apec
    wttj = wttj
    Offers = {o1}
    Boards = {apec}
    BoardOf <- JustOne
    Plans = {"BASIC"}
    DailyLimit = 1
    StartCredits = 1
    MaxRuns = 1
    MaxFaults = 0
    MaxEdits = 0
    MaxElsewhere = 0
CHECK_DEADLOCK FALSE
INVARIANT KilledNotAlive
