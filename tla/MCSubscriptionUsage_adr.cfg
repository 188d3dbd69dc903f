SPECIFICATION Spec
CONSTANTS
    s1 = s1
    Sessions = {s1}
    Providers = {p1, p2}
    p1 = p1
    p2 = p2
    Configs <- OnlineConfigs
    MaxAge = 1
    MaxTime = 2
    MaxTicks = 1
    MaxFetches = 2
    MaxFailures = 3
    MaxStarts = 2
    Damaged = Damaged
    Unknown = Unknown
    Cache = Cache
    None = None
PROPERTY FailedFetchKeepsDisk
CHECK_DEADLOCK FALSE
