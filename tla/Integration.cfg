CONSTANTS
    Reports = 2
    HoldSurprises = 2
    Events = 2
    MaxExportEpoch = 3
    ExportFaults = 1
    Units = {1, 2}
    MaxA = 1
    SupplyLimit = 2
    Restores = 1
    GuardEpochs = 1
    GuardFaults = 1
    Calls = 3
    Sites = 2
    Days = 2
    QuotaFaults = 1
SPECIFICATION FairSpec
INVARIANTS TypesOK Obligated
PROPERTIES OwnersOff HoldsFollow TrippedStays DischargeEnds CutKept QuotaKept
CHECK_DEADLOCK FALSE
