SPECIFICATION Spec
CONSTANTS
    u1 = u1
    u2 = u2
    j1 = j1
    j2 = j2
    Users = {u1, u2}
    Jobs = {j1}
    Overlap = FALSE
    Anchor = 1
    MaxDay = 3
    MaxLaunches = 2
SYMMETRY Alike
CHECK_DEADLOCK FALSE
INVARIANTS
    OnlyALapseRepeats
    CleanRunMissesNobody
