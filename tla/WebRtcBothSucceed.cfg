CONSTANTS
    p1 = p1
    p2 = p2
    Peers <- MCPeers
    Candidates = 2
SPECIFICATION Spec
INVARIANTS BothCreateInterfacesSucceed
CHECK_DEADLOCK FALSE
