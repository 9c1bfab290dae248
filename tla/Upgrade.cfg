SPECIFICATION FairUpgradeSpec
CONSTANTS
    d1 = d1
    up = up
    rs = rs
    n1 = n1
    n2 = n2
    v1 = v1
    v2 = v2
    NoApp = NoApp
    NoVolume = NoVolume
    NoCount = NoCount
    Garbled = Garbled
    NoLabel = NoLabel
    Unparsable = Unparsable
    Deployments = {d1}
    StatefulSets = {}
    Bare = {}
    Listed <- MCListed
    Procs = {up, rs}
    Upgrades = {up}
    MaxReplicas = 1
    ScaleDownMode = "auto"
    MayBeGarbled = {}
    Overlap = FALSE
    BackoffLimit = 1
    MaxFaults = 1
    MaxUserOps = 1
    Nodes = {n1, n2}
    Versions <- MCVersions
    Tags <- MCTags
    Volumes = {v1, v2}
    Owner <- MCOwner
    Cases <- MCCases
    LateClaims = {v1}
INVARIANT UpgradeTypeOK
INVARIANT DrainedWhileRolling
INVARIANT NoOrphanAttempt
PROPERTY NodesAreDrainedFirst
PROPERTY EventuallyRestored
CHECK_DEADLOCK FALSE
