\* Three requests that ask the same question, an hour apart.
SPECIFICATION NewsSpec
CONSTANTS
    Asker = {q1, q2, q3}
    Engines = 1
    MaxCalls = 1
    Hour = 1
    Week = 2
    MaxTime = 2
INVARIANTS
    ReusedIsRecent
CHECK_DEADLOCK FALSE
