CONSTANTS
    MaxPending = 2
    BatchSize = 1
    CacheSize = 2
    MaxSequence = 2
    MaxEpoch = 1
    Restarts = 1
    Losses = 1
SPECIFICATION Spec
INVARIANTS TypeOK RebootFences OneApply
PROPERTIES RunsForward
