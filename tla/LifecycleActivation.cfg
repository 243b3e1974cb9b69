CONSTANTS
    i1 = i1
    Inverters = {i1}
    Requests = 3
    Surprises = 1
    Glitches = 1
    SaveFaults = 0
    Restarts = 0
    Repairs = 0
SPECIFICATION FairSpec
PROPERTIES ActivationEnds
