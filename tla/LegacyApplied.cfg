CONSTANTS
    Evenings = 2
    SocLimit = 2
    ProgramFaults = 0
SPECIFICATION ProgSpec
INVARIANT AppliedResident
CHECK_DEADLOCK FALSE
