SPECIFICATION FairSpec
CONSTANTS
    Runs = {r1}
    Views = {}
    Opens = {}
    Maint = maint
    Del = del
    Legacy = legacy
    None = none
    MaxRev = 1
    KEEP = 2
    BATCH = 1
    QUOTA = 2
    MaxFaults = 1
CHECK_DEADLOCK FALSE
INVARIANT SafeThroughCrash
PROPERTIES DeletionCompletes PendingResolved
