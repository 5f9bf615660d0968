CONSTANTS
    u1 = u1
    u2 = u2
    Uploads <- One
    Imports <- NoImport
    Outcomes <- AnyOutcome
    InlineJobs = FALSE
    JobWorkers = 1
    JobTimeout = 1
    Lag = 1
    MaxWait = 2
    ReapAge = 5
    Faults = TRUE
SPECIFICATION FairSpec
INVARIANTS
    TypeOK
    ModelFollowsRun
    NoDanglingArtifact
    ReadyHasResults
    DashboardAgrees
    LiveJobNotReaped
PROPERTIES
    DeployedNeverFails
    DeletedStaysDeleted
    
    RestartsSettleRuns
    ImplementsModelStatus
CHECK_DEADLOCK FALSE
