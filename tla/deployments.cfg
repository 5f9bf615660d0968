CONSTANTS
    d1 = d1
    d2 = d2
    r1 = r1
    r2 = r2
    Ids <- TwoIds
    Legacy <- OneId
    Rotations <- TwoRotations
    Target <- AllForOne
    w1 = w1
    w2 = w2
    w3 = w3
    w4 = w4
    mlp = mlp
    Watched <- Four
    Fleets <- AloneOrPair
    Reporting <- Ships
    Managed <- Changing
    ModelOf <- SameModel
    Baseline = 20
    Divergence = 1
    Answered <- SlowOrFailed
    Stats <- UsualOrOdd
    MaxPasses = 2
    MaxClock = 3
    MaxRows = 2
    Lags = {0}
    Minute = 2
    Span = 2
    Cooldown = 1
    RefWindows = 1
    Fresh = 2
    DriftP95 = 10
    DriftError = 1
    DriftMix = 20
    DriftMean = 3
    ChartBuckets = 2
    ChartBucket = 2
    EventDays = 2
    AlertDays = 1
    v1 = v1
    v2 = v2
    Viewers <- TwoViewers
    Kind <- OneOfEach
    MaxLogs = 3
    MaxTurns = 5
    Percents = {50}
    x1 = x1
    x2 = x2
    x3 = x3
    g1 = g1
    api1 = api1
    api2 = api2
    Unowned = Unowned
    Exports <- ThreeExports
    Downloads <- OneDownload
    Processes <- TwoApis
    ProcessOf <- TwoAndOne
SYMMETRY Interchangeable
SPECIFICATION DashSpec
INVARIANTS
    TypeOK
    FlagAgrees
    BadgeHasDeployment
    NoLockout
    RotationRetiresKeys
    AlertsSpaced
    
    LogComplete
PROPERTIES
    BuiltOncePerProcess
CHECK_DEADLOCK FALSE
