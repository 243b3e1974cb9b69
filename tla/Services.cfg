CONSTANTS
    WriteFaults = 1
    Restarts = 1
    MaxInFlight = 2
    MaxStores = 3
    MaxRevision = 2
    RetiredMirror = "observe"
    Callers = {"cli", "owner"}
    Edits = 2
    QueueRoom = 1
    TickFaults = 1
    Levels = {0, 1}
    Powers = {1}
    Tolerance = 0
    MaxAge = 1
    Threshold = 2
    Recovery = 1
    SocLevels = {0, 2}
    SocSlack = 1
    ReportAge = 0
    UnchangedAge = 1
    FailuresAllowed = 2
    StableMinutes = 2
    BookDays = 2
    SlotsADay = 2
    SettleSlots = 1
    RetrySlots = 1
    HorizonSlots = 2
    KeptSlots = 4
    WindowDays = 1
    BookTroubles = 1
    ModeSwitches = 1
SPECIFICATION ServicesSpec
INVARIANTS TypesOK SingleAuthority NoResurrection
PROPERTIES ImplementsGrant RunsAfterAsked WritesCurrent TrustEarned EvidenceKept EvidenceHonest
CHECK_DEADLOCK FALSE
