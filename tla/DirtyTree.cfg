\* Every tree operation on four keys, delete_save and restore of one item
\* included.  Checks that a dirty subtree is never hidden and that, when
\* the child bits are exact, dirty_seg writes every dirty item and
\* writeback finds a dirty item in exactly the ranges that hold one; and
\* that copy_keys walks the items in key order.
CONSTANTS
    Keys <- MCKeys
    NIL = NIL
    Ops <- AllTreeOps
    SaveMax = 1
SPECIFICATION Spec
INVARIANT BitsComplete
INVARIANT ExactBitsWriteAll
INVARIANT ExactBitsFindWithin
INVARIANT CopyKeysInOrder
