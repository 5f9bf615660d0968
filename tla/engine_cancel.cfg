SPECIFICATION RunSpec
CHECK_DEADLOCK FALSE
CONSTANTS
    Graphs <- Catalogue
    MaxOps = 3
    Levels = {0, 5}
    OfsLevels = {90, 99}
    Interrupts = {"flag"}
    RedisFaults = FALSE
    Adaptive = TRUE
    PerDim = 1
    Startup = 1
    MinTrials = 1
    MaxTrials = 2
    EarlyStop = FALSE
    Patience = 1
    Epsilon = 10
    Prunes <- NoPruning
    Tau = 95
    Ladder <- Rungs
    ExternalSizes = {60}
    Inputs <- Passes
    OpConfigs <- Asked
    Shapes <- FlowGraphs
    Files <- Uploads
    GuaranteeMode = TRUE
PROPERTIES
    CancelAbortsSearch
