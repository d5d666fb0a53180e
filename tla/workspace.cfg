SPECIFICATION Spec
CONSTANTS
    Projects = {"main", "other"}
    Main = "main"
    Files = {"app", "style"}
    filesOf <- MCFilesOf
    size <- MCSize
    MaxBytes = 3
    MaxFiles = 2
    MaxRev = 2
    MaxVisits = 1
    MaxTurns = 2
INVARIANTS
    OneStartup
    ShownIsCurrent
PROPERTIES
    Forward
    OpeningEnds
CHECK_DEADLOCK FALSE
