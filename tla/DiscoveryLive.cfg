SPECIFICATION FairSpec
CONSTANTS
    p1 = p1
    p2 = p2
    p3 = p3
    g1 = g1
    g2 = g2
    k1 = k1
    k2 = k2
    Procs = {p1, p2}
    GVs = {g1}
    Kinds = {k1}
    Calls <- CallsRetry
    Backends = {TRUE, FALSE}
    MaxChanges = 1
    AllGVs = AllGVs
    Group <- OneGroup
    Rank <- G1First
    NoProc = NoProc
INVARIANT TypeOK
PROPERTY CallsReturn
PROPERTY QueriesShareFlights
