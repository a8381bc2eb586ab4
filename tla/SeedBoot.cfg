SPECIFICATION Spec
CONSTANTS
    p1 = p1
    p2 = p2
    Proc = {p1, p2}
    SeedIds <- Seeds
    MaxId = 4
    Faults = {"crash", "mongo", "late"}
SYMMETRY Replicas
INVARIANTS
    BootInv
    OnlyExposedReplaced
    DeletedStaysDeleted
CHECK_DEADLOCK FALSE
