CONSTANTS
    p1 = p1
    p2 = p2
    Peers <- MCPeers
    Candidates = 2
SPECIFICATION FairSpec
INVARIANTS OpenNeedsAnswer SuccessIsReal FailureNeedsOvertaking AnswererAddsNoCandidate
PROPERTIES HandshakeCompletes HangHasCause
CHECK_DEADLOCK FALSE
