SPECIFICATION Spec
CONSTANTS
    Chats = {c1}
    Runs = {r1, r2}
    Opens = {p1}
    Ops = {o1, o2}
    Reaper = reaper
    Free = free
    None = none
    MAX_CONCURRENT_RUNS = 2
    MAX_LIVE_SANDBOXES = 1
    MaxCrashes = 0
    MaxRev = 2
    CutRemove = TRUE
    StaleReads = TRUE
CHECK_DEADLOCK FALSE
SYMMETRY Symmetry
INVARIANTS TypeOK ReusableClean OwnedWhileInUse
PROPERTIES HandsOverSaved
