CONSTANTS
    None = None
    Partial = Partial
    Complete = Complete
    Commands = {c1, c2}
    Revisions = {r1, r2}
    Tail = TRUE
    MaxFaults = 1
SPECIFICATION Spec
INVARIANT LockLetGo
CHECK_DEADLOCK FALSE
