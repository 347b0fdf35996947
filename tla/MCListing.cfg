SPECIFICATION ListingSpec
CONSTANTS
    a1 = a1  k1 = k1  k2 = k2  k3 = k3  bA = bA  bB = bB
    fA = fA  fB = fB  NoRecord = NoRecord  AnyFund = AnyFund
    Apps = {a1}
    Keys = {k1, k2, k3}
    Funds = {fA, fB}
    Bodies = {bA, bB}
    Requests <- SentRequests
    Requested <- RequestedFunds
    Entitled <- EntitledFunds
    Queries <- SentQueries
    RequestLimit = 2
    PresignLimit = 0
    ActiveLimit = 3
    Window = 0
    PruneSlack = 0
    KeyTtl = 3
    MaxTime = 3
    MaxRows = 3
    MaxFaults = 0
CHECK_DEADLOCK FALSE
INVARIANTS
    WalkOrdered
    WalkCovers
PROPERTY
    WalkAdvances
