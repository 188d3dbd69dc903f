SPECIFICATION Spec
CONSTANTS
    tui = tui
    warm = warm
    Acquirers = {tui, warm}
    Drafts <- Streams
    MaxChanges = 2
    MaxRewrites = 1
    MaxFaults = 1
    None = None
SYMMETRY Interchangeable
INVARIANT SealedCheckpoint
INVARIANT CompleteIsFullParse
INVARIANT MessagesCountOnce
