SPECIFICATION ConsumerFairSpec
CONSTANTS
    v1 = v1  v2 = v2  g1 = g1  g2 = g2  c1 = c1  c2 = c2  None = None
    i1 = i1  i2 = i2
    Events = {v1, v2}
    Groups = {g1}
    Consumers = {c1}
    Handlers <- OneWiring
    Ready = {v1, v2}
    Ids = {i1, i2}
    MaxAttempts = 1
    MaxPrunes = 1
    MaxLeaves = 0
PROPERTIES
    AtLeastOnce
