CONSTANTS
    b1 = b1
    b2 = b2
    b3 = b3
    Blocks <- MCBlocks
    Capacity = 1
SPECIFICATION FairSpec
INVARIANTS MissNeedsEarlySend EndNeedsCallbackDropped
PROPERTIES ImplementsPipe SentIsDelivered
CHECK_DEADLOCK FALSE
