\* A reader racing completion, cleanup, crashes and a retry of one job.
SPECIFICATION StreamSpec
CONSTANTS
    Job = {j1}
    Token = {t1, t2}
    Sweeper = {}
    Reader = {r1}
    N = 1
    Slots = 1
    PageSize = 1
    None = None
SYMMETRY Symmetry
INVARIANTS
    StreamIsWhole
    FallBackWorks
CHECK_DEADLOCK FALSE
