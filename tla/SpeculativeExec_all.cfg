SPECIFICATION RunnerSpec
CONSTANTS
    Harnesses = {"live", "modal", "replay"}
    Tests = {t1, t2, t3}
    Script = t3
    Slow = {t2}
    MaxCalls = 4
    None = None
    Tasks <- MCTasks
    Attempts = 2
    MaxStarts = 3
INVARIANTS
    
    LaunchesAccounted
PROPERTIES
    
    
    BatchEnds
CHECK_DEADLOCK FALSE
