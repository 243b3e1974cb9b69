CONSTANTS
    WriteFaults = 0
    Restarts = 1
    MaxInFlight = 1
    MaxStores = 2
    MaxRevision = 2
    RetiredMirror = "authority_unknown"
    Inverters = {"i1", "i2"}
    Connections = 2
    Writes = 1
SPECIFICATION SettlesSpec
PROPERTIES EverythingEnds LinkKept
CHECK_DEADLOCK FALSE
