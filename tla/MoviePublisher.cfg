SPECIFICATION FairSpec
CONSTANTS
    c1 = c1
    c2 = c2
    None = None
    Caller = {c1, c2}
    MaxAttempts = 2
    TripAfter = 2
    Faults = {"down", "drop", "blocked"}
INVARIANTS
    PublisherInv
    OneConnection
PROPERTIES
    ImplementsResilience
    PostAnswered
    PublisherRecovers
