SPECIFICATION Spec
CONSTANTS
    Orders = {o1, o2}
    Catalogs = {c1, c2}
    Fingerprints = {f1, f2}
    MaxDay = 0
    RelativeRange = FALSE
    Offline = FALSE
    MaxInputs = 2
    MaxFailures = 1
    None = None
SYMMETRY Interchangeable
INVARIANTS
    TypeOK
    SingleFlight
    WritesOnlyShown
    BackoffOfInstalled
    UnchangedIsCurrent
    NoSilentMismatch
PROPERTIES
    SealedAfterDrain
    PublishedSpec
