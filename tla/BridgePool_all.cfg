CONSTANTS
    chat = chat
    search = search
    model = model
    radio = radio
    sat = sat
    Bridges = {chat, search, model}
    Links = {radio, sat}
    LlmBridges = {chat, model}
    Llm = model
    Need <- SomeNeed
    StartPriority <- SomePriority
    Bandwidths = {0, 12, 60}
    Inputs = {0, 9}
    PoolTtl = 1
    LlmTtl = 2
    MaxAge = 2
SPECIFICATION Spec
INVARIANTS TypeOK AnswerAge
PROPERTIES LockedKept PriorityWins EnabledFit
