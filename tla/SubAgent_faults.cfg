CONSTANTS
    Operator = operator
    m1 = m1
    m2 = m2
    Conns = {m1}
    Commands = {"create", "close"}
    MaxAgents = 1
    ChanCap = 1
    Connected = TRUE
    Faulty = TRUE
    Nested = FALSE
    MaxId = 2
    MaxReq = 2
    MaxRestarts = 1
SPECIFICATION Spec
INVARIANTS CapOvershoot RuntimeBacked
CHECK_DEADLOCK FALSE
