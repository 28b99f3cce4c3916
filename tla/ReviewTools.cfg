SPECIFICATION ReviewSpec
CONSTANTS
    a = a
    b = b
    x = x
    y = y
    s1 = s1
    s2 = s2
    s3 = s3
    Voices = {a, b}
    Commands = {x, y}
    MaxResets = 1
    MaxCrashes = 1
    Routes = {a, b}
    MaxTargetEdits = 1
    Seats = {s1, s2, s3}
    DeclaredFamily <- FamiliesM
    ServedFamilies = {"f1", "f2"}
    MinFamilies = 2
    Criteria = {"c1"}
    Panels <- PanelsM
    MaxPanelEdits = 2
    Claims = {"inv", "sys"}
    Kind <- KindM
    Requires <- RequiresM
    Depends <- DependsM
    Tools <- ToolsM
    Producers = {"p"}
    HandWritten <- HandWrittenM
    Cohorts <- CohortsM
    MaxInputEdits = 1
    MaxRuns = 2
CHECK_DEADLOCK FALSE
INVARIANTS
    UpdatesKept
    SynthesisAccounts
    RoutesHonest
    VerdictEvidenced
    OutputsVisible
    VerifiedIsCurrent
    DashboardAgrees
PROPERTIES
    AttemptsKept
