\* Two callers whose lookups and next scans drop the lock to fill and
\* retry, interleaved with each other's creates and deletes, commits and
\* the lock layer's writeback and invalidation; fills read and insert in
\* one step.  Checks coherence and the atomic key-value map.
CONSTANTS
    Keys <- Keys2
    Vals <- OneVal
    Threads = {t1, t2}
    NONE = NONE
    Ops <- InterleaveIterOps
    BoundaryMin = 1
    BoundaryMax = 2
    NrToScan = {}
    AtomicFill = TRUE
    SegInit <- SegEvenOrEmpty
    FreedItemReads = {"kept"}
    SaveMax = 0
    RecordCalls = FALSE
SYMMETRY MCSymmetry
SPECIFICATION Spec
INVARIANT CacheCoherent
PROPERTY ImplementsItemStore
