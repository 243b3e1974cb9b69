CONSTANTS
    FirstModes = {"observe", "protect"}
    ClearReports = 2
    ModeRequests = 1
    Troubles = 1
    Evenings = 2
    SocLimit = 2
    ProgramFaults = 1
    DaySlots = 5
    WindowSlots = 1
    Capacity = 6
    DischargeUnits = 2
    SiteExport = 2
    ChargeUnits = 6
    SupplyUnits = 8
    BufferPct = 50
    HomeNumbers <- PlanNumbers
    Homes <- PlanHomes
    Saves = 2
    Outages = 1
    StoreFaults = 1
    Installs = {"options", "nothing", "before 0.31"}
SPECIFICATION FairSpec
INVARIANTS TypesOK FallbackResident ExportPays OptimiseGuarded
PROPERTIES FiresPaid HoldKept LetGo PromiseKept SettingsKept
CHECK_DEADLOCK FALSE
