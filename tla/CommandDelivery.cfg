CONSTANTS
    MaxPending = 2
    BatchSize = 2
    CacheSize = 1
    MaxSequence = 2
    MaxEpoch = 2
    Restarts = 0
    Losses = 1
SPECIFICATION FairSpec
INVARIANTS AnswersAgree
PROPERTIES RequestsResolve
