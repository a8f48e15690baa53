CONSTANTS
    Capacity = 2
    MaxCommands = 8
SPECIFICATION FairSpec
INVARIANTS PeerListens HistorySavedFirst
PROPERTIES ImplementsRpc WaitingHasCause
CHECK_DEADLOCK FALSE
