SPECIFICATION Spec
CONSTANTS
    w1 = w1
    w2 = w2
    s1 = s1
    s2 = s2
    Workers = {w1, w2}
    Sessions = {s1, s2}
    KeepResident = 1
    PersistModes = {TRUE}
    StoreFormats = {"npz"}
    Routing = "sticky"
    Faults = {"crash"}
    MaxTurns = 4
SYMMETRY Symmetry
INVARIANT RestorableAnywhere
