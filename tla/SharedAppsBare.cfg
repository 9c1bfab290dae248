SPECIFICATION Spec
CONSTANTS
    d1 = d1
    d2 = d2
    s1 = s1
    up = up
    up2 = up2
    rs = rs
    NoApp = NoApp
    NoCount = NoCount
    Garbled = Garbled
    Deployments = {d1, d2}
    StatefulSets = {s1}
    Bare = {s1}
    Procs = {up, rs}
    Upgrades = {up}
    MaxReplicas = 1
    ScaleDownMode = "on"
    MayBeGarbled = {}
    Overlap = TRUE
    BackoffLimit = 1
    MaxFaults = 0
    MaxUserOps = 0
    DoublyListed = {s1}
    Listed <- OnceOrTwice
INVARIANT AlwaysRestored
CHECK_DEADLOCK FALSE
