CONSTANTS
    Instances = {i1, i2}
    None = None
    MaxFaults = 1
    MaxRestarts = 0
SPECIFICATION FairSpec
PROPERTIES
    Available
