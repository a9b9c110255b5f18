\* delete_save and restore with the shrinker running between them (and no
\* invalidation): the restore comment says the caller's locks keep the
\* cached ranges, but the shrinker does not take locks.
CONSTANTS
    Keys <- Keys2
    Vals <- OneVal
    Threads = {t1}
    NONE = NONE
    Ops <- SaveOps
    BoundaryMin = 1
    BoundaryMax = 2
    NrToScan = {1}
    AtomicFill = TRUE
    SegInit <- SegEvenOrEmpty
    FreedItemReads = {"kept"}
    SaveMax = 1
    RecordCalls = TRUE
SPECIFICATION Spec
PROPERTY ImplementsItemStore
