SPECIFICATION Spec
CONSTANTS
    i1 = i1
    i2 = i2
    r1 = r1
    r2 = r2
    r3 = r3
    p1 = p1
    p2 = p2
    Instances = {i1, i2}
    Requests = {r1, r2, r3}
    Prompts = {p1, p2}
    PromptOf <- TwoPrompts
    LenOf <- Lengths
    BlockSize = 2
    LoadPolicy = "adaptive"
    ContentionFloor = 50
    Deployments <- AllocFailure
INVARIANT ReportedIsWritten
