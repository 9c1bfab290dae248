SPECIFICATION Spec
CONSTANTS
    NoLabel = NoLabel
    Unparsable = Unparsable
    Malformed = Malformed
    ArgLists <- MCArgLists
    Records <- MCRecords
    Parts <- MCParts
    Envs <- MCEnvs
    Var <- MCVar
    Secrets <- MCSecrets
    EndpointLists <- MCEndpointLists
    Answers = {"etcd2", "etcd3", "odd", "down"}
    Services <- MCServices
    APIServices <- MCAPIServices
    MaxRefreshes = 2
    PodLists <- MCPodLists
    LabelLists <- MCLabelLists
    Tags <- MCTags
INVARIANT ArgumentsAreUnderstood
INVARIANT ReferencesAreResolved
INVARIANT EndpointsAreIndependent
INVARIANT TargetPortsSurvive
INVARIANT NoUnmanagedPodMissed
INVARIANT GateFollowsItsComment
CHECK_DEADLOCK FALSE
