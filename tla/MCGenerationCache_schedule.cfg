SPECIFICATION Spec
CONSTANTS
    tui = tui
    warm = warm
    own = own
    other = other
    f1 = f1
    f2 = f2
    Sessions = {tui, warm}
    Config <- Configs
    Failures = {f1, f2}
    BaseDelay = 2
    MaxDelay = 3
    FreshFor = 1
    MaxTime = 5
    MaxAttempt = 2
    Settings <- AloneOrShared
    MaxRewinds = 1
    MaxCrashes = 1
    Healthy = Healthy
    Foreign = Foreign
    None = None
INVARIANT TypeOK
INVARIANT OwnFilesDecode
INVARIANT ScheduleOnDisk
PROPERTY DeferralBounded
PROPERTY Escalates
CHECK_DEADLOCK FALSE
