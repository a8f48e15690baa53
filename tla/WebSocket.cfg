CONSTANTS
    b1 = b1
    b2 = b2
    b3 = b3
    NoBlock = NoBlock
    Ping = Ping
    Close = Close
    Blocks <- MCBlocks
    Window = 2
SPECIFICATION FairSpec
INVARIANT FailureHasCause
PROPERTIES ImplementsPipe SentIsDelivered
CHECK_DEADLOCK FALSE
