\* One caller creating, deleting and looking up items, where the persistent
\* bit insert_item() reads from the item it just freed may read as zero.
\* Checks that the API behaves as an atomic key-value map.
CONSTANTS
    Keys <- Keys2
    Vals <- OneVal
    Threads = {t1}
    NONE = NONE
    Ops <- CreateDelete
    BoundaryMin = 1
    BoundaryMax = 2
    NrToScan = {}
    AtomicFill = TRUE
    SegInit <- SegEvenOrEmpty
    FreedItemReads = {"kept", "cleared"}
    SaveMax = 0
    RecordCalls = TRUE
SPECIFICATION Spec
PROPERTY ImplementsItemStore
