SPECIFICATION FairSpec
CONSTANTS
    j1 = j1  j2 = j2  j3 = j3  s1 = s1  s2 = s2  NoJob = NoJob
    Jobs = {j1, j2, j3}
    Senders = {s1, s2}
    MaxAttempts = 5
    MaxLosses = 1
    MaxRaises = 1
    MaxCrashes = 1
CHECK_DEADLOCK FALSE
INVARIANTS
    WebhookTypeOK
    VerdictSound
    RepeatsExplained
PROPERTIES
    EveryJobEnds
