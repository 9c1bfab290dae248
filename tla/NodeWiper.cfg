SPECIFICATION FairSpec
CONSTANTS
    n1 = n1
    n2 = n2
    Nodes = {n1, n2}
    MaxNodeFaults = 3
INVARIANT TypeOK
INVARIANT ReadyMeansClean
INVARIANT PxctlOutlivesData
PROPERTY EventuallyClean
