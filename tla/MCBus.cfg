SPECIFICATION ConsumerFairSpec
CONSTANTS
    v1 = v1  v2 = v2  g1 = g1  g2 = g2  c1 = c1  c2 = c2  None = None
    i1 = i1  i2 = i2
    Events = {v1, v2}
    Groups = {g1, g2}
    Consumers = {c1, c2}
    Handlers <- Wirings
    Ready = {v1}
    Ids = {i1, i2}
    MaxAttempts = 2
    MaxPrunes = 1
    MaxLeaves = 1
INVARIANTS
    EachEventOnceInOrder
    NoLostWakeup
    ConsumerTypeOK
    ProcessedOnce
    HandledMeansProcessed
PROPERTIES
    EveryEventDelivered
