SPECIFICATION Spec
CONSTANTS
    MaxSessions = 2
    Variants = 2
    Retries = 1
    MaxAttempts = 2
    MaxConfigs = 2
    MaxChoices = 1
    MaxFaults = 1
INVARIANTS
    Comparable
    CompletionPending
PROPERTIES
    ReplacementKept
CHECK_DEADLOCK FALSE
