SPECIFICATION FairSpec
CONSTANTS
    p1 = p1
    p2 = p2
    Processes = {p1, p2}
    Contents = {c1, c2}
    Settings <- Both
    TempAttempts = 2
    MaxNames = 3
    MaxFailures = 1
    MaxCrashes = 1
    Torn = Torn
    None = None
INVARIANT TypeOK
INVARIANT WholeFiles
PROPERTY PublishedSpec
PROPERTY CallsEnd
CHECK_DEADLOCK FALSE
