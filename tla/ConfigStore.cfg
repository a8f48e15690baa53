CONSTANTS
    q1 = q1
    q2 = q2
    q3 = q3
    e1 = e1
    e2 = e2
    e3 = e3
    None = None
    Processes <- MCProcesses
    Endpoints <- MCEndpoints
SPECIFICATION Spec
INVARIANTS OneIdentity FailureNeedsTornWrite RunsOnWholeConfig TornBarsEveryStart
PROPERTIES WholeStaysWhole
CHECK_DEADLOCK FALSE
