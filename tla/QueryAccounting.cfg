\* Two processes and two queries, one of each endpoint, the first never accountable.
SPECIFICATION FairSpec
CONSTANTS
    Q = 2
    Generate <- First
    Bad <- First
    Gateway = {g1, g2}
    Limit = 1
    MaxFaults = 1
INVARIANTS
    CountedOnce
    CompletedIsCounted
    AnswerAgrees
PROPERTIES
    Settles
    Accounted
