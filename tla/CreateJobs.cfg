SPECIFICATION Spec
CONSTANTS
    r1 = r1
    r2 = r2
    p1 = p1
    p2 = p2
    w1 = w1
    w2 = w2
    None = None
    Req = {r1}
    Invalid = {}
    Proc = {p1, p2}
    Worker = {w1, w2}
    Host <- HostTwo
    MaxAttempts = 2
    MaxId = 2
    Faults = {"publish", "mongo", "crash", "disconnect", "broker"}
INVARIANTS
    JobInv
    CompletedOwnsMovie
    OneMoviePerCopy
    PendingIsExplained
    FailedMadeNothing
    AnswersExplained
PROPERTIES
    ImplementsPromise
