SPECIFICATION FairSpec
CONSTANTS
    Request = {r1, r2}
    QueueSize = 1
CHECK_DEADLOCK FALSE
INVARIANTS
    
    
    NothingCutShort
PROPERTIES
    ServingNeverFatal
    SignalEnds
