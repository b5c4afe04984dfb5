SPECIFICATION Spec
CONSTANTS
    p1 = p1
    p2 = p2
    Procs = {p1, p2}
    MaxInits = 2
    MaxGiven = 1
    EarlyUse = TRUE
INVARIANT EveryPathWrapped
