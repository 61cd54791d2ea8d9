\* A limit raised while a quota failure is written, one key.
SPECIFICATION Spec
CONSTANTS
    K = 1
    Broken = {}
    Query = {q1}
    Speech = {s1}
    Keyword = {}
    Limits <- OneOrTwo
    MaxTries = 1
    MaxAdmin = 2
    q1 = q1
    q2 = q2
    s1 = s1
    s2 = s2
    w1 = w1
    p1 = p1
    Process = {p1}
    Home <- OneHome
INVARIANTS
    MarkedIsSkipped
CHECK_DEADLOCK FALSE
