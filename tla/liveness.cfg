SPECIFICATION FairSpec
CONSTANTS
    Chats = {c1}
    Runs = {r1}
    Opens = {p1}
    Ops = {o1}
    Reaper = reaper
    Free = free
    None = none
    MAX_CONCURRENT_RUNS = 2
    MAX_LIVE_SANDBOXES = 1
    MaxCrashes = 1
    MaxRev = 1
    CutRemove = TRUE
    StaleReads = TRUE
CHECK_DEADLOCK FALSE
PROPERTIES RunsEnd KnownCleanupCompletes
