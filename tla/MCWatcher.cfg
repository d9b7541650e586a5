CONSTANTS
    NodeCheckIDs <- MCNodeCheckIDs
    ServiceCheckIDs <- MCServiceCheckIDs
    MaintCheckIDs = {}
    Possible <- MCPresence
    Services = {s1}
    Nodes = {}
    Capacity = 1
    MaxWatches = 2
    MaxChanges = 2
    MaxErrors = 0
    MaxResets = 1
    MayCancel = TRUE
SPECIFICATION Spec
INVARIANTS
    TypeOK
    ReadyNotEarly
    OneLiveWatch
    TimelineTruthful
CHECK_DEADLOCK FALSE
