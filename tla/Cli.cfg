CONSTANTS
    q1 = q1
    q2 = q2
    e1 = e1
    e2 = e2
    None = None
    Processes <- MCProcesses
    Endpoints <- MCEndpoints
    MaxEvents = 2
SPECIFICATION CliSpec
INVARIANTS TerminalRestored FailureHasCause
PROPERTIES QuitEnds
CHECK_DEADLOCK FALSE
