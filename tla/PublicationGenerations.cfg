SPECIFICATION GateSpec
CONSTANTS
    p1 = p1
    p2 = p2
    m1 = m1
    m2 = m2
    c1 = c1
    c2 = c2
    t = t
    v1 = v1
    v2 = v2
    Physicals = {p1}
    Members = {m1, m2}
    NoMember = NoMember
    None = None
    MembersOf <- SharedSlot
    ClaimOf <- ClaimOfMember
    ToolOf <- ToolOfMember
    Versions = {v1, v2}
    Runs <- TwoRuns
    Order <- OneSlot
    MemberOrder <- TwoMembers
    DependsOn <- SystemClaim
    Required = {c1, c2}
    Selections <- Whole
    MaxAttempts = 2
    MaxTroubles = 1
    MaxEdits = 1
SYMMETRY VersionSymmetry
CHECK_DEADLOCK FALSE
INVARIANTS
    GateTypeOK
    PublishedPassStands
    FailuresReported
    AcknowledgedStays
    PointerResolves
    GateSound
    GateReportsFailures
PROPERTIES
    GateConfirms
