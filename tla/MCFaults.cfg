SPECIFICATION Spec
CONSTANTS
    e1 = e1  e2 = e2  e3 = e3  w1 = w1  w2 = w2  fA = fA  fB = fB  fC = fC
    NoJob = NoJob
    Extracts = {e1, e2}
    Workers = {w1, w2}
    Funds = {fA, fB, fC}
    Scopes <- DeepScopes
    Modes = {"event"}
    Priorities = {1}
    MaxAttemptsPerFund = 2
    MaxAttemptsPerExtract = 4
    Hooks = {}
    MaxCrashes = 1
    MaxRaises = 1
SYMMETRY Symmetry
CHECK_DEADLOCK FALSE
INVARIANTS
    TypeOK
    SingleOwner
    StagingOwned
    PublishIsAtomic
    NothingWithoutOutcome
    CompletedIsWhole
    PartialAccounts
    FailsFast
PROPERTIES
    OutcomeStable
    ImplementsContract
