SPECIFICATION Spec
CONSTANTS
    tui = tui
    warm = warm
    Acquirers = {tui, warm}
    Usages = {1, 3}
    Models <- TurnModels
    MaxResponses = 3
    MaxHumans = 1
    MaxFaulty = 1
    Drafts <- Replacements
    MaxChanges = 6
    MaxRewrites = 1
    Settings <- Sessions
    None = None
SYMMETRY Interchangeable
CHECK_DEADLOCK FALSE
INVARIANT CompleteIsFullParse
INVARIANT SealedCheckpoint
INVARIANT ResponsesCountOnce
