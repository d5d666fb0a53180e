SPECIFICATION Spec
CONSTANTS
    Chats = {c1}
    Runs = {r1, r2}
    Opens = {p1}
    Ops = {o1, o2}
    Reaper = reaper
    Free = free
    None = none
    MAX_CONCURRENT_RUNS = 2
    MAX_LIVE_SANDBOXES = 1
    MaxCrashes = 1
    MaxRev = 1
    CutRemove = FALSE
    StaleReads = TRUE
CHECK_DEADLOCK FALSE
SYMMETRY Symmetry
INVARIANTS NoOrphan OneJobPerProject
PROPERTIES OwnershipSpec OutcomeOnlyInterrupted
