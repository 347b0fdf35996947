SPECIFICATION FairSpec
CONSTANTS
    e1 = e1  e2 = e2  e3 = e3  w1 = w1  w2 = w2  fA = fA  fB = fB  fC = fC
    NoJob = NoJob
    Extracts = {e1}
    Workers = {w1}
    Funds = {fA, fB}
    Scopes <- OneFund
    Modes = {"event"}
    Priorities = {1}
    MaxAttemptsPerFund = 2
    MaxAttemptsPerExtract = 3
    Hooks = {"bus"}
    MaxCrashes = 0
    MaxRaises = 0
CHECK_DEADLOCK FALSE
PROPERTIES
    BufferedEventsPublished
