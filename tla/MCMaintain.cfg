CONSTANTS
    Instances <- MCInstances
    Retention <- MCRetention
    Batches = 1
    FirstDay = 1
    LastDay = 4
    MaxErrors = 1
SPECIFICATION FairSpec
INVARIANTS
    ListsCurrent
    DayHasPartition
PROPERTIES
    OnlyExpired
    ExpiredGoes
