SPECIFICATION Spec
CONSTANTS
    e1 = e1  e2 = e2  e3 = e3  w1 = w1  w2 = w2  fA = fA  fB = fB  fC = fC
    NoJob = NoJob
    Extracts = {e1, e2}
    Workers = {w1, w2}
    Funds = {fA}
    Scopes <- OneFund
    Modes = {"event", "webhook", "none"}
    Priorities = {0, 2}
    MaxAttemptsPerFund = 2
    MaxAttemptsPerExtract = 3
    Hooks = {"pause", "outage", "bus"}
    MaxCrashes = 0
    MaxRaises = 0
SYMMETRY Symmetry
INVARIANTS
    NoOrphan
    NoticeMatchesOutcome
PROPERTIES
    CancelledEarlyIsFinal
