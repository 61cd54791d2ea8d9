SPECIFICATION StreamFairSpec
CONSTANTS
    Job = {j1}
    Token = {t1}
    Sweeper = {}
    Reader = {r1}
    N = 1
    Slots = 1
    PageSize = 1
    None = None
PROPERTIES
    StreamEnds
CHECK_DEADLOCK FALSE
