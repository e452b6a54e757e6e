SPECIFICATION Spec
CONSTANTS
    Refs = {1, 2, 3, 4}
    Data = {x, y}
    Hash <- MCHash
    DefaultCapacity = 4
    MaxCapacity = 8
    None = None
    EMPTY = EMPTY
    TOMBSTONE = TOMBSTONE
INVARIANTS SizeIsExact OneReachableSlot
PROPERTIES IsLiveOrderMap
