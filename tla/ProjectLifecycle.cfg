SPECIFICATION LifecycleSpec
CONSTANTS
    ScriptNames <- ScriptNamesM
    Candidates <- CandidatesM
    PolicyFile = ".fv/verified-inputs.txt"
    Projects <- ProjectsM
    Targets = {"none", "given"}
    MaxInits = 2
    Dests <- DestsM
    Order <- OrderM
    Starts <- StartsM
    Dispatch = "dispatch"
    Ledger = "ledger"
    Runs = {1, 2}
    Modes <- ModesM
    MaxFaults = 2
    MaxKills = 1
    MaxWrites = 1
    Trees <- TreesM
    Normal <- NormalM
    Planned <- PlannedM
    Crates <- CratesM
    Customs <- CustomsM
    Hosts <- HostsM
CHECK_DEADLOCK FALSE
INVARIANTS
    ScaffoldComplete
    CoverageKept
    OriginalsSurvive
    NothingLost
    ReapplyIsIdentity
    NoOmission
    VerifiedMeansRun
    ClaimedLayersRan
PROPERTIES
    KeepsPromise
