\* Two queries, a speech caller and a keyword extraction over one key.  Three writers
\* of a catalog of two models, one of whose two providers is synchronised.  Two
\* requests that ask one question.  Three ways to sign in, two requests at a time, a
\* wrong code more than is allowed.
SPECIFICATION MCSpec
CONSTANTS
    K = 1
    Broken = {}
    Query = {q1, q2}
    Speech = {s1}
    Keyword = {w1}
    Limits <- NoneOrOne
    MaxTries = 1
    MaxAdmin = 2
    q1 = q1
    q2 = q2
    s1 = s1
    s2 = s2
    w1 = w1
    p1 = p1
    Process = {p1}
    Home <- OneHome
    Writer = {w1, w2, w3}
    Name = {n1, n2}
    Vendor = {openrouter, groq}
    Synced = openrouter
    MaxBreakdowns = 1
    Asker = {a1, a2}
    Engines = 2
    MaxCalls = 2
    Hour = 1
    Week = 2
    MaxTime = 2
    Login = {dashboard, mailed, external}
    Legacy = {external}
    ByEmail = {mailed}
    Handler = {h1, h2}
    MaxGuesses = 6
SYMMETRY Symmetry
INVARIANTS
    QuotaRespected
    ExhaustedIsSkipped
    CatalogIsWhole
    ReusedIsSound
    OneSessionPerSignIn
    GuessesAreLimited
CHECK_DEADLOCK FALSE
