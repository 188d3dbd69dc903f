SPECIFICATION Spec
CONSTANTS
    Orders = {o1, o2}
    Catalogs = {c1}
    Fingerprints = {f1}
    MaxDay = 0
    RelativeRange = FALSE
    Offline = FALSE
    MaxInputs = 2
    MaxFailures = 1
    None = None
INVARIANT UnchangedKeepsContext
