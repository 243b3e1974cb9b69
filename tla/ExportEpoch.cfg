CONSTANTS
    Events = 2
    MaxExportEpoch = 3
    ExportFaults = 2
SPECIFICATION ExportFairSpec
PROPERTY EpochForward
CHECK_DEADLOCK FALSE
