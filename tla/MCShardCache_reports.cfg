SPECIFICATION FairSpec
CONSTANTS
    tui = tui
    warm = warm
    i1 = i1
    i2 = i2
    Acquirers = {tui, warm}
    Inputs = {i1, i2}
    Settings <- Instances
    BatchWidth = 1
    MaxVersion = 1
    MaxDamage = 1
    None = None
INVARIANT TypeOK
INVARIANT SealedShards
PROPERTY ReplacementSpared
PROPERTY CacheIsInvisible
PROPERTY Converges
