SPECIFICATION Spec
CONSTANTS
    c1 = c1
    c2 = c2
    Caller = {c1, c2}
    Kinds <- Plain
    MaxAttempts = 3
    TripAfter = 5
    Faults = {"leave"}
INVARIANTS
    HealthyStaysClosed
