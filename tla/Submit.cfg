SPECIFICATION Spec
CONSTANTS
    o1 = o1
    o2 = o2
    o3 = o3
    Boards = {"apec", "hellowork", "wttj"}
    Queue <- Three
    WorkerLimit = 2
    Tries = 3
    MaxMissed = 1
CHECK_DEADLOCK FALSE
INVARIANTS
    OneClickPerOffer
PROPERTIES
    OutboxSpec
