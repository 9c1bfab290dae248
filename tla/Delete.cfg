SPECIFICATION FairSpec
CONSTANTS
    px = px
    px2 = px2
    ns1 = ns1
    ns2 = ns2
    n1 = n1
    n2 = n2
    None = None
    DaemonSets = {px, px2}
    Namespaces = {ns1}
    Home <- OneHome
    Selects <- MCSelects
    Configs <- MCConfigs
    Nodes = {n1, n2}
    BackoffLimit = 1
    MaxFaults = 2
    MaxNodeFaults = 1
INVARIANT TypeOK
INVARIANT NothingWipedUnderPX
INVARIANT DeleteRemovesWhatItFound
INVARIANT DeleteFailsForAReason
INVARIANT WiperIsRemoved
INVARIANT WipedMeansClean
INVARIANT OnlyPXNodesAreWiped
PROPERTY DeleteEnds
CHECK_DEADLOCK FALSE
