CONSTANTS
    Operator = operator
    m1 = m1
    m2 = m2
    Conns = {m1}
    Commands = {"send", "close"}
    MaxAgents = 1
    ChanCap = 1
    Connected = FALSE
    Faulty = FALSE
    Nested = FALSE
    MaxId = 2
    MaxReq = 2
    MaxRestarts = 0
SPECIFICATION FairSpec
INVARIANTS TypeOK
PROPERTIES CallsReturn ClosedTaskEnds
CHECK_DEADLOCK FALSE
