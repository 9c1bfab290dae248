SPECIFICATION FairUpgradeSpec
CONSTANTS
    d1 = d1
    up = up
    rs = rs
    n1 = n1
    n2 = n2
    v1 = v1
    v2 = v2
    NoApp = NoApp
    NoVolume = NoVolume
    NoCount = NoCount
    Garbled = Garbled
    NoLabel = NoLabel
    Unparsable = Unparsable
    Deployments = {d1}
    StatefulSets = {}
    Bare = {}
    Listed <- MCListed
    Procs = {up, rs}
    Upgrades = {up}
    MaxReplicas = 1
    ScaleDownMode = "auto"
    MayBeGarbled = {}
    Overlap = FALSE
    BackoffLimit = 0
    MaxFaults = 0
    MaxUserOps = 0
    Nodes = {n1, n2}
    Versions <- MCVersions
    Tags <- MCTags
    Volumes = {v1, v2}
    Owner <- MCOwner
    Cases <- MCMixed
    LateClaims = {v1}
PROPERTY MixedClusterIsDrainedFirst
CHECK_DEADLOCK FALSE
