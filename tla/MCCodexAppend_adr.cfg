SPECIFICATION Spec
CONSTANTS
    tui = tui
    warm = warm
    Acquirers = {tui, warm}
    Usages = {1, 2}
    Models <- TurnModels
    MaxResponses = 2
    MaxHumans = 1
    MaxFaulty = 0
    Drafts <- Replacements
    MaxChanges = 6
    MaxRewrites = 1
    Settings <- Compacting
    None = None
CHECK_DEADLOCK FALSE
INVARIANT CountedExactlyOnce
