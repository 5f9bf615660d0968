CONSTANTS
    s1 = s1
    s2 = s2
    h1 = h1
    h2 = h2
    Nobody = Nobody
    MaxEvents = 2
    MaxBatches = 2
    MaxTime = 0
    Senders <- TwoSenders
    Handlers <- TwoHandlers
    QueueMax = 1
    BatchMax = 1
    SpoolMax = 1
    ServerMax = 1
    Skews <- Ahead
    PastClamp = 1
    FutureClamp = 1
    LedgerDays = 2
SPECIFICATION FairSpec
PROPERTY RecoveredSpoolDrains
CHECK_DEADLOCK FALSE
