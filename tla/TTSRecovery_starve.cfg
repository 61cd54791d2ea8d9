\* One process, three jobs: the two oldest are refused for good.
SPECIFICATION FairSpec
CONSTANTS
    J = 3
    Hidden = {}
    Refused <- TwoRefused
    Gateway = {g1}
    MaxFaults = 0
PROPERTIES
    Recovered
CHECK_DEADLOCK FALSE
