SPECIFICATION FairSpec
CONSTANTS
    e1 = e1  e2 = e2  fA = fA  NoRow = NoRow
    Extracts = {e1, e2}
    Files = {fA}
    RetentionDays <- DaysByExtract
    WarnWindow = 1
    LinkTtl = 1
    MaxTime = 3
    MaxCrashes = 1
    MaxRaises = 1
    MaxDiskErrors = 1
INVARIANTS
    KeptForPeriod
    WarnedOncePerFault
    ListedFilesExist
    LeftoversOutOfReach
PROPERTIES
    WarnedBeforeDeleted
    ExpiredInTheEnd
