CONSTANTS
    u1 = u1
    u2 = u2
    Uploads <- Both
    Imports <- BothImported
    Outcomes <- WeightsOnly
    InlineJobs = TRUE
    JobWorkers = 0
    JobTimeout = 0
    Lag = 1
    MaxWait = 9
    ReapAge = 0
    Faults = FALSE
SPECIFICATION FairSpec
PROPERTIES
    EveryRunSettles
CHECK_DEADLOCK FALSE
