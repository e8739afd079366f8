SPECIFICATION Spec
CONSTANTS
    Handles = {s1, s2}
    Labels = {v1}
    Ids = {id1}
    Configs <- MCConfigs
    Starts <- MCStarts
    None = None
    MaxSegs = 2
    MaxMutations = 2
INVARIANTS
    PlansAreSound
    
    
 
