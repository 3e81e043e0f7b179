SPECIFICATION PersonasSpec
CONSTANTS
    Boards = {"apec", "wttj"}
    Runs = {r1, r2}
    PoolSize = 2
    MaxSessions = 3
    KeepRetired = 1
    Concurrent = TRUE
    MaxResolves = 5
CHECK_DEADLOCK FALSE
PROPERTY DeviceStable
