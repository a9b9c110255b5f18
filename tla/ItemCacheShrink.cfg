\* The shrinker over four keys read in from full segments, with lookups
\* and dirtying by one caller, commits and invalidation, and fills whose
\* read and insert are separate steps: splits, shortening, erasing ranges
\* and the no-progress rotation of the lru all happen.  Checks coherence
\* and the lru.
CONSTANTS
    Keys <- Keys4
    Vals <- OneVal
    Threads = {t1}
    NONE = NONE
    Ops <- ReadOps
    BoundaryMin = 1
    BoundaryMax = 2
    NrToScan = {1, 2}
    AtomicFill = FALSE
    SegInit <- SegFull
    FreedItemReads = {"kept"}
    SaveMax = 0
    RecordCalls = FALSE
SPECIFICATION Spec
INVARIANT CacheCoherent
INVARIANT LruTracksClean
