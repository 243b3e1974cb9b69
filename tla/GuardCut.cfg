CONSTANTS
    Units = {1, 2}
    MaxA = 1
    SupplyLimit = 2
    Restores = 1
    GuardEpochs = 2
    GuardFaults = 1
SPECIFICATION GuardFairSpec
PROPERTY CutHolds
CHECK_DEADLOCK FALSE
