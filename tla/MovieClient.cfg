SPECIFICATION Spec
CONSTANTS
    c1 = c1
    c2 = c2
    Caller = {c1, c2}
    Kinds <- AnyKind
    MaxAttempts = 2
    TripAfter = 2
    Faults = {"down", "mongo", "leave"}
SYMMETRY Requests
INVARIANTS
    ClientInv
    NotFoundIsTrue
    DeletedOnce
PROPERTIES
    ImplementsResilience
