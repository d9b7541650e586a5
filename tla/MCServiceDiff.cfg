CONSTANTS
    NodeCheckIDs <- MCNodeCheckIDs
    ServiceCheckIDs <- MCServiceCheckIDs
    MaintCheckIDs <- MCMaintCheckIDs
    InstanceRefresh = 1
    Keys = {k1, k2}
    Instances <- MCInstances
    MaxTime = 1
SYMMETRY MCSymmetry
SPECIFICATION Spec
INVARIANTS
    TimelineTruthful
    EventsMinimal
    HealthyAsConsul
    RegistryCurrent
PROPERTY
    AnnouncedOnTime
CHECK_DEADLOCK FALSE
