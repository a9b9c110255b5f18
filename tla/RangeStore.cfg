CONSTANTS
    Keys <- MCKeys
    CopySlots <- MCCopySlots
SPECIFICATION Spec
INVARIANT TypeOK
INVARIANT RangesDisjoint
INVARIANT RangeCachedExact
INVARIANT CopyRangeKeysComplete
INVARIANT ShrinkCutExact
PROPERTY InsertExact
PROPERTY RemoveSound
