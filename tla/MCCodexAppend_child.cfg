SPECIFICATION Spec
CONSTANTS
    tui = tui
    warm = warm
    Acquirers = {tui, warm}
    Usages = {1, 3}
    Models <- TurnModels
    MaxResponses = 1
    MaxHumans = 1
    MaxFaulty = 1
    Drafts <- Replacements
    MaxChanges = 6
    MaxRewrites = 1
    Settings <- Forking
    None = None
CHECK_DEADLOCK FALSE
INVARIANT CountedExactlyOnce
