SPECIFICATION FairSpec
CONSTANTS
    r1 = r1
    r2 = r2
    p1 = p1
    p2 = p2
    w1 = w1
    w2 = w2
    None = None
    Req = {r1, r2}
    Invalid = {r2}
    Proc = {p1}
    Worker = {w1, w2}
    Host <- HostSame
    MaxAttempts = 1
    MaxId = 2
    Faults = {"publish", "mongo", "crash", "disconnect", "broker"}
PROPERTIES
    AcceptedSettles
