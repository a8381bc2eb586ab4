SPECIFICATION FairSpec
CONSTANTS
    p1 = p1
    p2 = p2
    c1 = c1
    c2 = c2
    c3 = c3
    Proc = {p1, p2}
    Caller = {c1, c2, c3}
    Host <- HostTwoOne
    MaxInt32 = 2
INVARIANTS
    IdInv
    NeverOverwrites
PROPERTIES
    ImplementsRegistry
    CallReturns
