SPECIFICATION Spec
CONSTANTS
    a1 = a1  a2 = a2  k1 = k1  k2 = k2  bBoth = bBoth  bAll = bAll
    fA = fA  fB = fB  NoRecord = NoRecord
    Apps = {a1}
    Keys = {k1}
    Funds = {fA, fB}
    Bodies = {bBoth, bAll}
    Requests <- OneKey
    Requested <- RequestedFunds
    Entitled <- EntitledOne
    RequestLimit = 2
    PresignLimit = 4
    ActiveLimit = 2
    Window = 1
    PruneSlack = 0
    KeyTtl = 1
    MaxTime = 3
    MaxRows = 3
    MaxFaults = 0
CHECK_DEADLOCK FALSE
INVARIANT
    ExpiredKeyIsNew
