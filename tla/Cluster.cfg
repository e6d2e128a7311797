CONSTANTS
    None = None
    Partial = Partial
    Complete = Complete
    Commands = {c1, c2}
    Revisions = {r1, r2}
    Tail = FALSE
    MaxFaults = 2
    MaxPackFaults = 3
    LoadShards = 4
    LoadDepth = 2
    MaxReads = 1
SPECIFICATION MCSpec
INVARIANTS
    WaitProtected
    CopyTrusted
    PagesKept
    PackWhole
PROPERTIES
    OwnerOnly
    DeadRankNoticed
    LoadEnds
CHECK_DEADLOCK FALSE
