SPECIFICATION Spec
CONSTANTS
    d0 = d0
    d1 = d1
    d2 = d2
    k = k
    Daemon = {d0, d1, d2, k}
    Keeper = k
    Version <- Versions
    Cli = {c1}
    Newest = 2
    None = None
    MaxStarts = 2
    MaxFaults = 2
INVARIANTS
    OneAtWork
    ServesInSight
PROPERTIES
    TakesOver
CHECK_DEADLOCK FALSE
