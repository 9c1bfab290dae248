SPECIFICATION Spec
CONSTANTS
    px = px
    px2 = px2
    ns1 = ns1
    ns2 = ns2
    n1 = n1
    n2 = n2
    None = None
    DaemonSets = {px, px2}
    Namespaces = {ns1, ns2}
    Home <- TwoHomes
    Selects <- MCSelects
    Configs <- MCConfigs
    Nodes = {n1}
    BackoffLimit = 1
    MaxFaults = 1
    MaxNodeFaults = 0
INVARIANT NamespacesCleared
CHECK_DEADLOCK FALSE
