SPECIFICATION FairSpec
CONSTANTS
    s1 = s1
    Sessions = {s1}
    Providers = {p1, p2}
    p1 = p1
    p2 = p2
    Configs <- OnlineConfigs
    MaxAge = 1
    MaxTime = 2
    MaxTicks = 1
    MaxFetches = 3
    MaxFailures = 2
    MaxStarts = 2
    Damaged = Damaged
    Unknown = Unknown
    Cache = Cache
    None = None
INVARIANT TypeOK
INVARIANT OneFetch
INVARIANT EveryProviderAnswered
INVARIANT StaleIsMarked
INVARIANT DiskMirrorsDisplay
PROPERTY DisplayOnlyAdvances
PROPERTY FetchSettles
CHECK_DEADLOCK FALSE
