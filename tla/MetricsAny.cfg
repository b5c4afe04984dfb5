SPECIFICATION Spec
CONSTANTS
    c1 = c1
    c2 = c2
    c3 = c3
    s1 = s1
    s2 = s2
    Clients = {c1, c2, c3}
    Storages = {s1, s2}
    Prefixes = {"", "own_"}
    ExtraLabels = {"operator"}
    Setups <- AnySetups
    NoBackend = NoBackend
SYMMETRY Sym
INVARIANT MetricsInv
INVARIANT ResultsCounted
INVARIANT InitsCoexist
INVARIANT ResultsShareFate
