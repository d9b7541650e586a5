CONSTANTS
    BatchSize = 2
    Capacity = 1
    MaxAttempts = 3
    Chunk = 1
    MaxSent = 2
SPECIFICATION FairSpec
INVARIANTS
    Accounted
    WrittenInOrder
    WritesBounded
    LastFlushComplete
PROPERTIES
    StopsAfterCancel
    EveryBatchFlushed
