SPECIFICATION LiveSpec
CONSTANTS
    e1 = e1  e2 = e2  e3 = e3  w1 = w1  w2 = w2  fA = fA  fB = fB  fC = fC
    NoJob = NoJob
    Extracts = {e1, e2, e3}
    Workers = {w1}
    Funds = {fA, fB}
    Scopes <- TwoFunds
    Modes = {"event"}
    Priorities = {0, 1}
    MaxAttemptsPerFund = 1
    MaxAttemptsPerExtract = 2
    Hooks = {"pause", "bus"}
    MaxCrashes = 0
    MaxRaises = 0
PROPERTIES
    AcceptedFinishes
    CancelledReleases
    FinishedNotifies
