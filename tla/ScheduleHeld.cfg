SPECIFICATION Spec
CONSTANTS
    p1 = p1
    p2 = p2
    p3 = p3
    p4 = p4
    r1 = r1
    r2 = r2
    Physicals = {p1, p2}
    Order <- Two
    Jobs = 2
    Exclusive = {}
    Needs <- NeedsOfTwo
    CheckerNeeds = {r1}
    Slots <- OneSlot
    Resources = {r1, r2}
    Admission = Admission
    MaxTakes = 0
    MaxFaults = 1
INVARIANT HeldUntilCheckpoint
CHECK_DEADLOCK FALSE
