SPECIFICATION Spec
CONSTANTS
    Chats = {c1, c2}
    Runs = {r1, r2}
    Opens = {}
    Ops = {o1, o2}
    Reaper = reaper
    Free = free
    None = none
    MAX_CONCURRENT_RUNS = 2
    MAX_LIVE_SANDBOXES = 1
    MaxCrashes = 0
    MaxRev = 1
    CutRemove = FALSE
    StaleReads = FALSE
CHECK_DEADLOCK FALSE
SYMMETRY Symmetry
INVARIANTS RunningBound
PROPERTIES SweepUndisturbed
