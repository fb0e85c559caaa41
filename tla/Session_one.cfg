CONSTANTS
    p1 = p1
    p2 = p2
    Procs = {p1}
    MaxSid = 3
    MaxStarts = 4
    MaxLines = 3
SPECIFICATION Spec
INVARIANTS TypeOK StepHasCheckpoint CheckpointFresh
PROPERTIES SavedNeverShrinks
CHECK_DEADLOCK FALSE
