SPECIFICATION Spec
CONSTANTS
    Runs = {r1}
    Views = {p1}
    Opens = {p1}
    Maint = maint
    Del = del
    Legacy = legacy
    None = none
    MaxRev = 3
    KEEP = 2
    BATCH = 1
    QUOTA = 2
    MaxFaults = 0
CHECK_DEADLOCK FALSE
INVARIANTS SavedReadable NoStray SourceKept StoredWithinQuota
PROPERTIES PromotionSound
