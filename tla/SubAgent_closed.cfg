CONSTANTS
    Operator = operator
    m1 = m1
    m2 = m2
    Conns = {}
    Commands = {"chain"}
    MaxAgents = 2
    ChanCap = 1
    Connected = FALSE
    Faulty = FALSE
    Nested = FALSE
    MaxId = 1
    MaxReq = 1
    MaxRestarts = 0
SPECIFICATION Spec
PROPERTIES CompletedStays
CHECK_DEADLOCK FALSE
