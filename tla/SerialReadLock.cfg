CONSTANTS
    b1 = b1
    b2 = b2
    Blocks <- MCBlocks
    Reader = Reader
    Nobody = Nobody
    BufferSize = 2
    MaxBytes = 4
SPECIFICATION Spec
INVARIANTS ReadLockIsFree
CHECK_DEADLOCK FALSE
