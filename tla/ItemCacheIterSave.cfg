\* next and prev beside delete_save and restore of up to two items (the
\* same key twice when it is recreated in between), the calls that write
\* over the saved keys, and commits outside the save; no invalidation and
\* no shrinker, whose effect on restore is restore_shrunk.  Each result is
\* recorded with its call, so the refinement checks next/prev answers
\* against their arguments.
CONSTANTS
    Keys <- Keys2
    Vals <- MCVals
    Threads = {t1}
    NONE = NONE
    Ops <- IterateSaveOps
    BoundaryMin = 1
    BoundaryMax = 2
    NrToScan = {}
    AtomicFill = TRUE
    SegInit <- SegEvenOrEmpty
    FreedItemReads = {"kept"}
    SaveMax = 2
    RecordCalls = TRUE
SPECIFICATION Spec
INVARIANT DirtyAccounting
INVARIANT LruTracksClean
INVARIANT CacheCoherent
PROPERTY ImplementsItemStore
