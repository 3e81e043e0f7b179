SPECIFICATION Spec
CONSTANTS
    o1 = o1
    o2 = o2
    o3 = o3
    apec = apec
    wttj = wttj
    Offers = {o1}
    Boards = {apec}
    BoardOf <- JustOne
    Plans = {"PREMIUM"}
    DailyLimit = 1
    StartCredits = 2
    MaxRuns = 3
    MaxFaults = 0
    MaxEdits = 0
    MaxElsewhere = 0
CHECK_DEADLOCK FALSE
PROPERTY SubmittedIsFinal
