SPECIFICATION Spec
CONSTANTS
    p1 = p1
    p2 = p2
    m1 = m1
    m2 = m2
    m3 = m3
    c1 = c1
    c2 = c2
    t = t
    v1 = v1
    v2 = v2
    Physicals = {p1, p2}
    Members = {m1, m2, m3}
    NoMember = NoMember
    Nobody = Nobody
    MembersOf <- Shared
    ClaimOf <- ClaimOfMember
    ToolOf <- ToolOfMember
    Versions = {v1}
    Runs <- OneRun
    Resume = TRUE
    Selections <- Everything
    Outcomes = {"PASS", "FAIL"}
    MaxAttempts = 2
    MaxCrashes = 1
    MaxFaults = 1
INVARIANTS TypeOK Accounted OwnerlessReadable AppendsBind
CHECK_DEADLOCK FALSE
