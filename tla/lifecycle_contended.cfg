CONSTANTS
    u1 = u1
    u2 = u2
    Uploads <- One
    Imports <- NoImport
    Outcomes <- AnyOutcome
    InlineJobs = FALSE
    JobWorkers = 1
    JobTimeout = 1
    Lag = 1
    MaxWait = 9
    ReapAge = 3
    Faults = TRUE
SPECIFICATION Spec
INVARIANT RunningJobNotReaped
CHECK_DEADLOCK FALSE
