CONSTANTS
    d1 = d1
    d2 = d2
    r1 = r1
    r2 = r2
    Ids <- TwoIds
    Legacy <- OneId
    Rotations <- OneRotation
    Target <- AllForOne
SPECIFICATION Spec
INVARIANT LiveDeploymentReadsDeployed
CHECK_DEADLOCK FALSE
