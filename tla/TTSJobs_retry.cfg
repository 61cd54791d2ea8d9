\* A job of two chunks retried and recovered, no sweep.
SPECIFICATION Spec
CONSTANTS
    Job = {j1}
    Token = {t1, t2}
    Sweeper = {}
    N = 2
    Slots = 1
    PageSize = 1
    None = None
SYMMETRY Symmetry
INVARIANTS
    CompletedIsWhole
    FenceHolds
PROPERTIES
    CheckpointsNotRepeated
    CompletedIsFinal
    ImplementsContract
CHECK_DEADLOCK FALSE
