CONSTANTS
    i1 = i1
    Inverters = {i1}
    Requests = 2
    Surprises = 1
    Glitches = 1
    SaveFaults = 1
    Restarts = 1
    Repairs = 1
SPECIFICATION FairSpec
PROPERTIES NoOldPlan SwitchesEnd
