\* One caller making every API call on two keys, with invalidation, the
\* shrinker and commits interleaved; each fill reads and inserts in one step.
\* Checks the dirty counters and the lru, that the cache agrees with the
\* segments, and that the API is an atomic key-value map.
CONSTANTS
    Keys <- Keys2
    Vals <- MCVals
    Threads = {t1}
    NONE = NONE
    Ops <- AllOps
    BoundaryMin = 1
    BoundaryMax = 2
    NrToScan = {1}
    AtomicFill = TRUE
    SegInit <- SegEvenOrEmpty
    FreedItemReads = {"kept"}
    SaveMax = 0
    RecordCalls = FALSE
SPECIFICATION Spec
INVARIANT TypeOK
INVARIANT DirtyAccounting
INVARIANT LruTracksClean
INVARIANT CacheCoherent
PROPERTY ImplementsItemStore
