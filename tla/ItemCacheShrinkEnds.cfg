\* The shrinker over three keys with a caller dirtying and looking up
\* items and commits: a clean item between two dirty ones cannot be
\* shrunk and is rotated to the lru tail.  Checks that the loop ends.
CONSTANTS
    Keys <- Keys3
    Vals <- OneVal
    Threads = {t1}
    NONE = NONE
    Ops <- ReadOps
    BoundaryMin = 1
    BoundaryMax = 2
    NrToScan = {1, 3}
    AtomicFill = TRUE
    SegInit <- SegFull
    FreedItemReads = {"kept"}
    SaveMax = 0
    RecordCalls = FALSE
SPECIFICATION Spec
PROPERTY ShrinkTerminates
