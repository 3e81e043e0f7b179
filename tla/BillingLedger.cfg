SPECIFICATION Spec
CONSTANTS
    s1 = s1
    s2 = s2
    NoSub = NoSub
    Subs = {s1}
    MaxOpen = 1
    Allocated <- Credits
    GraceOf <- Grace
    Period = 1
    Horizon = 1
    Window = 1
    MaxTime = 5
    MaxEvents = 4
    MaxUpsets = 0
    MaxSpent = 1
CHECK_DEADLOCK FALSE
INVARIANT LedgerReconciles
