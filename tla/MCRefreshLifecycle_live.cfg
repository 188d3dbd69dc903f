SPECIFICATION FairSpec
CONSTANTS
    Orders = {o1, o2}
    Catalogs = {c1}
    Fingerprints = {f1}
    MaxDay = 1
    RelativeRange = TRUE
    Offline = FALSE
    MaxInputs = 1
    MaxFailures = 1
    None = None
PROPERTIES
    ManualRefreshRuns
    ColdStartSettles
    ShutdownCompletes
    ContextConverges
    CacheCatchesUp
