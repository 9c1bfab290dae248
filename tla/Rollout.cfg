SPECIFICATION FairSpec
CONSTANTS
    px = px
    px2 = px2
    n1 = n1
    n2 = n2
    NoDS = NoDS
    DaemonSets = {px}
    Nodes = {n1, n2}
    MayBePinned = {px}
    Timeouts = {0, 600}
    BackoffLimit = 1
    MaxFaults = 2
    MaxEdits = 1
INVARIANT TypeOK
INVARIANT PermissionsBeforePods
INVARIANT WaitIsSound
INVARIANT CleanUpgradeMeansAllNew
PROPERTY ImplementsRolloutContract
PROPERTY EventuallySucceeds
CHECK_DEADLOCK FALSE
