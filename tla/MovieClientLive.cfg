SPECIFICATION FairSpec
CONSTANTS
    c1 = c1
    c2 = c2
    Caller = {c1, c2}
    Kinds <- Reads
    MaxAttempts = 2
    TripAfter = 2
    Faults = {"down"}
PROPERTIES
    RequestAnswered
    BreakerRecovers
