CONSTANTS
    p1 = p1
    Clients = {c1, c2}
    Processes = {p1}
    ProcessOf <- OneProcess
    None = None
    MaxConnects = 2
    MaxCandidates = 1
    Asserts = TRUE
SPECIFICATION ClientSpec
CHECK_DEADLOCK FALSE
INVARIANTS
    TimerStartsIdle
