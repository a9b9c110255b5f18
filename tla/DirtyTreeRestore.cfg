\* Every tree operation on four keys with delete_save and restore of one
\* item.  dirty_seg must write every dirty item.
CONSTANTS
    Keys <- MCKeys
    NIL = NIL
    Ops <- AllTreeOps
    SaveMax = 1
SPECIFICATION Spec
INVARIANT DirtySegWritesAll
