SPECIFICATION Spec
CONSTANTS
    Tabs = {t1, t2}
    Requests = {a, b}
    Owner = owner
    Newcomer = newcomer
    Links = {l1, l2}
    MaxPairs = 3
    MaxLogins = 2
SYMMETRY Symmetry
INVARIANTS
    OneIdentity
    OwnAccount
    LinksOnce
    NoneStranded
PROPERTIES
    OnlyRefusedSessionEnds
CHECK_DEADLOCK FALSE
