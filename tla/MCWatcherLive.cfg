CONSTANTS
    NodeCheckIDs <- MCNodeCheckIDs
    ServiceCheckIDs <- MCServiceCheckIDs
    MaintCheckIDs = {}
    Possible <- MCPossible
    Services = {}
    Nodes = {n1}
    Capacity = 1
    MaxWatches = 2
    MaxChanges = 2
    MaxErrors = 1
    MaxResets = 0
    MayCancel = FALSE
SPECIFICATION FairSpec
INVARIANT
    TimelineTruthful
PROPERTIES
    Converges
    MuReleased
    ReadyUnlessStopped
