CONSTANTS
    Instances = {i1, i2}
    None = None
    MaxFaults = 2
    MaxRestarts = 1
SPECIFICATION FairSpec
INVARIANTS
    TypeOK
    Exclusive
PROPERTIES
    StopHandsOver
    Failover
