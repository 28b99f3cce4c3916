SPECIFICATION Spec
CONSTANTS
    p1 = p1
    p2 = p2
    p3 = p3
    p4 = p4
    r1 = r1
    r2 = r2
    Physicals = {p1, p2, p3}
    Order <- Three
    Jobs = 2
    Exclusive = {}
    Needs <- NeedsOfThree
    CheckerNeeds = {r2}
    Slots <- OneSlot
    Resources = {r1, r2}
    Admission = Admission
    MaxTakes = 0
    MaxFaults = 0
PROPERTY BarrierHoldsAdmission
CHECK_DEADLOCK FALSE
