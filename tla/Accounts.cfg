SPECIFICATION HolderSpec
CONSTANTS
    u1 = u1
    a1 = a1
    a2 = a2
    p1 = p1
    q1 = q1
    q2 = q2
    r1 = r1
    Users = {u1}
    Addresses = {a1, a2}
    Passwords = {p1}
    Requests = {q1, q2}
    MaxTries = 1
    MaxCodes = 2
    Long = FALSE
    Boards = {"apec", "wttj"}
    Runs = {r1}
    PoolSize = 2
    MaxSessions = 3
    KeepRetired = 1
    Concurrent = FALSE
    MaxResolves = 4
SYMMETRY Alike
CHECK_DEADLOCK FALSE
INVARIANTS
    EmailsAgree
    AddressIsProven
PROPERTIES
    OnlyStaleSavesUndo
    DeviceStable
