\* Two speech callers over three keys.  Three submissions.  A request for up to two
\* outputs.  Batches of two records.  Three requests about a page.
SPECIFICATION MCSpec
CONSTANTS
    K = 3
    Broken = {}
    Query = {}
    Speech = {s1, s2}
    Keyword = {}
    Limits <- NoLimit
    MaxTries = 2
    MaxAdmin = 1
    s1 = s1
    s2 = s2
    p1 = p1
    r1 = r1
    k1 = k1
    i1 = i1
    Process = {p1}
    Home <- OneHome
    Request = {r1, r2, r3}
    Identity = {k1, k2}
    Input = {i1, i2}
    None = None
    MaxOutputs = 2
    MaxMishaps = 2
    MaxEntries = 2
    MaxRecords = 3
    MaxTroubles = 2
    PageVisit = {v1, v2, v3}
    PageToken = {t1, t2}
    MaxLapses = 1
INVARIANTS
    StartedOnce
    AccountIsKept
    RecordsKept
PROPERTIES
    PageIsTrue
    RoundRobin
    Answered
    BatchesArrive
CHECK_DEADLOCK FALSE
