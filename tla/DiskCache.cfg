\* The lock count wraps at 4.
SPECIFICATION Spec
CONSTANTS
    a = a
    b = b
    Buffer <- Buffers
    Frames = 3
    Blocks <- FewBlocks
    MaxCount = 2
    CountSize = 4
    MaxHeld = 2
INVARIANT LockedDataStays
