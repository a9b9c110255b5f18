CONSTANTS
    Keys <- MCKeys
    CopySlots <- MCCopySlots
SPECIFICATION Spec
PROPERTY RemoveExact
