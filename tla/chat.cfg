SPECIFICATION Spec
CONSTANTS
    MaxRuns = 1
    MaxEvents = 3
    HistoryLimit = 1
    QueueSize = 2
    MaxFlight = 1
    MaxPosts = 1
    MaxFaults = 1
INVARIANTS
    QuietViewAgrees
    CutKeepsOutcome
PROPERTIES
    NeverUntold
    EndIsTold
CHECK_DEADLOCK FALSE
