SPECIFICATION SessionsSpec
CONSTANTS
    Hosts = {"service", "edge"}
    Serial = {TRUE, FALSE}
    Reqs = {r1, r2, r3}
    MaxCreates = 2
    MaxFailures = 1
    Absent = Absent
    r1 = r1
    r2 = r2
    r3 = r3
    IdleSeconds <- MCIdle
    Message = 5
    Exchange = 45
    Client = 200
INVARIANTS
    StoredIsCoherent
    OvercountIsBounded
PROPERTIES
    SerialRefines
    EnqueuedIsCounted
CHECK_DEADLOCK FALSE
