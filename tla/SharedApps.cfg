SPECIFICATION Spec
CONSTANTS
    d1 = d1
    d2 = d2
    s1 = s1
    up = up
    up2 = up2
    rs = rs
    NoApp = NoApp
    NoCount = NoCount
    Garbled = Garbled
    Deployments = {d1}
    StatefulSets = {s1}
    Bare = {s1}
    Procs = {up, up2}
    Upgrades = {up, up2}
    MaxReplicas = 1
    ScaleDownMode = "auto"
    MayBeGarbled = {d1}
    Overlap = TRUE
    BackoffLimit = 1
    MaxFaults = 2
    MaxUserOps = 1
    DoublyListed = {d1}
    Listed <- OnceOrTwice
INVARIANT TypeOK
INVARIANT DeploymentsRecoverable
INVARIANT RestoreComplete
SYMMETRY Rivals
CHECK_DEADLOCK FALSE
PROPERTY ImplementsReplicaMemory
