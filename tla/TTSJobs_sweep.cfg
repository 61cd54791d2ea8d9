\* A gateway sweeping while workers of one job are superseded and crash; all settle.
SPECIFICATION FairSpec
CONSTANTS
    Job = {j1}
    Token = {t1, t2}
    Sweeper = {s1}
    N = 1
    Slots = 1
    PageSize = 1
    None = None
INVARIANTS
    CheckpointsKept
    OwnerCanMerge
PROPERTIES
    Settles
CHECK_DEADLOCK FALSE
