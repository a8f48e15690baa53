CONSTANTS
    c1 = c1
    c2 = c2
    c3 = c3
    Clients <- MCClients
    Backlog = 2
    MaxFiles = 2
SPECIFICATION FairSpec
INVARIANTS FilesAccounted SocketsInOrder
PROPERTY WaitingHasCause
CHECK_DEADLOCK FALSE
