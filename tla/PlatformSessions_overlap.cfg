SPECIFICATION SessionsSpec
CONSTANTS
    Hosts = {"edge"}
    Serial = {FALSE}
    Reqs = {r1, r2}
    MaxCreates = 2
    MaxFailures = 0
    Absent = Absent
    r1 = r1
    r2 = r2
    r3 = r3
    IdleSeconds <- MCIdleTwo
    Message = 5
    Exchange = 45
    Client = 200
PROPERTIES
    SingleWriter
CHECK_DEADLOCK FALSE
