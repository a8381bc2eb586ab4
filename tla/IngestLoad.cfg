SPECIFICATION FairSpec
CONSTANTS
    N = 3
    PostSlots = 2
    PollSlots = 2
INVARIANTS
    LoadInv
    ReportIsTrue
PROPERTIES
    Terminates
