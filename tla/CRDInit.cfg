SPECIFICATION FairSpec
CONSTANTS
    r1 = r1
    r2 = r2
    c1 = c1
    c2 = c2
    Resources = {r1, r2}
    List <- MCList
    Callers = {c1, c2}
    MaxCalls = 3
    MaxFaults = 1
    MaxMeddling = 1
INVARIANT TypeOK
INVARIANT NilMeansEstablished
INVARIANT OthersAreCreated
INVARIANT NoSpuriousError
PROPERTY CallsEnd
CHECK_DEADLOCK FALSE
