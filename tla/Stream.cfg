CONSTANTS
    Clients = {c1}
    Stores = {"memory", "mysql"}
    Capacity = 1
    ReplayLimit = 2
    DefaultLimit = 1
    MaxLimit = 2
    Wanted = {1, 2, 4}
    Times = {3, 4}
    MaxEvents = 4
    MaxBreaks = 1
    MaxErrors = 1
SPECIFICATION FairSpec
INVARIANTS
    HubConsistent
    NoHoles
    LossExplained
PROPERTIES
    CaughtUp
    StreamsEnd
CHECK_DEADLOCK FALSE
