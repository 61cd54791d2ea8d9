\* Two processes, four jobs: the oldest refused, the second hidden.  Three uploads of
\* one token, two at a time.  One extraction of two keywords and three deletions, one
\* of them of another application.
SPECIFICATION MCSpec
CONSTANTS
    J = 4
    Hidden <- OneHidden
    Refused <- OneRefused
    Gateway = {g1, g2}
    MaxFaults = 1
    Token = {t1}
    File = {f1, f2}
    Slots = 2
    MaxUploads = 3
    MaxLosses = 1
    x1 = x1
    d1 = d1
    d2 = d2
    d3 = d3
    Extraction = {x1}
    Deletion = {d1, d2, d3}
    OwnerOf <- Owner
    MaxKeywords = 2
    Quantity = 1
    MaxAccidents = 2
INVARIANTS
    ServedOnce
    RegisteredHasObject
    AnsweredIsRegistered
    LibraryAgrees
PROPERTIES
    Recovered
CHECK_DEADLOCK FALSE
