CONSTANTS
    i1 = i1
    i2 = i2
    Inverters = {i1, i2}
    Requests = 3
    Surprises = 2
    Glitches = 1
    SaveFaults = 0
    Restarts = 0
    Repairs = 0
SPECIFICATION Spec
SYMMETRY Alike
CONSTRAINT NotAllSpent
INVARIANTS TypeOK InForce
PROPERTIES LeftClean EndsOnPlan
