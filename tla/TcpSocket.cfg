CONSTANTS
    b1 = b1
    b2 = b2
    b3 = b3
    NoBlock = NoBlock
    Blocks <- MCBlocks
    BlockLen <- MCBlockLen
    BufferSize = 2
    Window = 2
SPECIFICATION FairSpec
INVARIANTS BlocksContiguous CleanEndIsComplete
PROPERTIES ImplementsPipe EverySendResolves DropEndsPeerIterator
CHECK_DEADLOCK FALSE
