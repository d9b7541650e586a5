CONSTANTS
    MaxSize = 3
    Event <- MCEvent
    Instance <- MCInstance
    MaxBatch = 2
    MaxStored = 4
    MaxUpserts = 1
    DefaultLimit = 2
    MaxLimit = 3
    Names <- MCNames
    Starts <- MCStarts
    Fold <- MCFold
    Rank <- MCRank
    Numbers = {"1"}
    None = None
    MinTime <- MCMinTime
    Second = 4
    Minute = 8
    Hour = 12
    Day = 16
    RollupMin = 16
    DefaultBuckets = 3
    MaxBuckets = 3
    Sample = 3
    DefaultFacet = 2
    MaxSuggest = 3
    DefaultSuggest = 2
    Now = 16
    PageSize = 1
    PageQueries <- MCPageQueries
    Requests <- MCRequests
    Ranges <- MCRanges
    BucketCounts = {0, 2, 4}
    Zones = {0, 4}
    Moves = {0, 2}
    Live = {"a", "b"}
SPECIFICATION Spec
INVARIANTS
    RegistriesAgree
    PagesComplete
    SameFilters
    UnsampledComplete
    HistogramTruthful
    SuggestComplete
PROPERTIES
    RingIsLog
    PagesDescend
CHECK_DEADLOCK FALSE
