CONSTANTS
    NodeCheckIDs <- MCNodeCheckIDs
    ServiceCheckIDs <- MCServiceCheckIDs
    MaintCheckIDs = {}
    Possible <- MCPossible
    Services = {s1}
    Nodes = {}
    Capacity = 1
    MaxWatches = 2
    MaxChanges = 2
    MaxErrors = 1
    MaxResets = 1
    MayCancel = FALSE
SPECIFICATION Spec
INVARIANT GoneIsRecorded
