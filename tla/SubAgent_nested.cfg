CONSTANTS
    Operator = operator
    m1 = m1
    m2 = m2
    Conns = {}
    Commands = {"create", "close", "send", "assign"}
    MaxAgents = 3
    ChanCap = 1
    Connected = FALSE
    Faulty = FALSE
    Nested = TRUE
    MaxId = 3
    MaxReq = 4
    MaxRestarts = 0
SPECIFICATION Spec
INVARIANTS CascadeReleases
CHECK_DEADLOCK FALSE
