SPECIFICATION FairSpec
CONSTANTS
    p1 = p1
    p2 = p2
    p3 = p3
    p4 = p4
    r1 = r1
    r2 = r2
    Physicals = {p1, p2, p3, p4}
    Order <- Four
    Jobs = 2
    Exclusive = {p2}
    Needs <- NeedsOfFour
    CheckerNeeds = {r2}
    Slots <- OneSlot
    Resources = {r1, r2}
    Admission = Admission
    MaxTakes = 1
    MaxFaults = 1
INVARIANTS TypeOK AdmissionLimits ProcessesSerialize WaitsHoldingNothing LateBounded Settles
PROPERTY Returns
CHECK_DEADLOCK FALSE
