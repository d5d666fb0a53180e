SPECIFICATION Spec
CONSTANTS
    MaxStaged = 1
    MaxVersions = 1
    MaxLosses = 1
    MaxEvents = 2
    MaxRequests = 1
    MaxSteers = 2
    PreviewSessions = 2
    PreviewVariants = 1
    MaxPublished = 2
    MaxRenders = 1
    MaxInjections = 2
    MaxTries = 1
    Dirs = {"a"}
    MaxPages = 2
    MaxScans = 2
    MaxVisits = 1
    Words = {"x", "y"}
    LeafTags = {"span", "code"}
    MaxNodes = 3
    MaxEdits = 2
    MaxPins = 3
    MaxStrokes = 1
    MaxNotes = 4
    Tabs = {1, 2}
    Roots = {"A", "B"}
    HandledLimit = 2
    MaxStored = 3
    MaxLoads = 1
    MaxY = 3
    MaxMoves = 3
    Layouts <- MCLayouts
    PointStep = 10
    DragSteps = {100}
    MaxDrags = 1
    MaxRenderings = 2
    MaxInserts = 1
INVARIANTS
    CopyEditsHold
    InputHolds
    ViewHolds
    PagesHold
CHECK_DEADLOCK FALSE
