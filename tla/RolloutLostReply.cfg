SPECIFICATION Spec
CONSTANTS
    px = px
    px2 = px2
    n1 = n1
    n2 = n2
    NoDS = NoDS
    DaemonSets = {px}
    Nodes = {n1, n2}
    MayBePinned = {}
    Timeouts = {600}
    BackoffLimit = 0
    MaxFaults = 1
    MaxEdits = 0
INVARIANT UpgradedMeansAllNew
CHECK_DEADLOCK FALSE
