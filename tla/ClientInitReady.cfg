SPECIFICATION FairSpec
CONSTANTS
    p1 = p1
    p2 = p2
    Procs = {p1, p2}
    MaxInits = 3
    MaxGiven = 1
    EarlyUse = FALSE
INVARIANT EveryPathWrapped
INVARIANT ReadyMeansWhole
INVARIANT NamespaceMatchesConfig
INVARIANT ClientInv
PROPERTY ConfigStays
PROPERTY CallsGetThrough
PROPERTY IsOneClient
