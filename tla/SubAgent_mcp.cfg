CONSTANTS
    Operator = operator
    m1 = m1
    m2 = m2
    Conns = {m1, m2}
    Commands = {"chain"}
    MaxAgents = 2
    ChanCap = 1
    Connected = FALSE
    Faulty = FALSE
    Nested = FALSE
    MaxId = 4
    MaxReq = 1
    MaxRestarts = 0
SYMMETRY ConnSymmetry
SPECIFICATION Spec
INVARIANTS FreshInsert McpAnswer ChainFreesSlot
CHECK_DEADLOCK FALSE
