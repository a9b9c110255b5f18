\* One caller looking up and deleting with fills that read the segments
\* and insert the batch in separate steps, commits between them.
\* Checks that the cache agrees with the segments.
CONSTANTS
    Keys <- Keys2
    Vals <- OneVal
    Threads = {t1}
    NONE = NONE
    Ops <- LookupDelete
    BoundaryMin = 1
    BoundaryMax = 2
    NrToScan = {}
    AtomicFill = FALSE
    SegInit <- SegEvenOrEmpty
    FreedItemReads = {"kept"}
    SaveMax = 0
    RecordCalls = FALSE
SPECIFICATION Spec
INVARIANT CacheCoherent
