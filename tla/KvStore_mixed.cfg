CONSTANTS
    operator = operator
    mcp = mcp
    v1 = v1
    v2 = v2
    state = state
    rating = rating
    chat = chat
    goal = goal
    Clients = {operator, mcp}
    Jobs <- MixedJobs
    Serial = FALSE
    Keys = {state, rating, chat, goal}
    Values = {v1, v2}
    Nil = nil
    Home <- SystemHome
    MaxWrites = 2
SPECIFICATION Spec
INVARIANTS KeysAtHome
