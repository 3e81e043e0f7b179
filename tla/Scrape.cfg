SPECIFICATION Spec
CONSTANTS
    p1 = p1
    p2 = p2
    p3 = p3
    k1 = k1
    k2 = k2
    Boards = {"apec", "hellowork", "wttj"}
    Postings = {p1, p2, p3}
    Keys = {k1, k2}
    KeyOf <- Reposts
    Ignored = {k2}
    External = {p3}
    Own = {p2}
    WorkerLimit = 3
    HardCap = 2
    MaxPages = 2
    MaxCards = 3
    MaxHovers = 2
    StallFloor = 3
    MaxMissed = 1
CHECK_DEADLOCK FALSE
PROPERTIES
    HarvestSpec
    ScrapeEnds
