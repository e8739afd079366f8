SPECIFICATION FairSpec
CONSTANTS
    BudgetTokens = 3
    KeepRecentTokens = 1
    Compactors = {"uniform", "sensitivity"}
    MaxTotal = 6
    MaxVersion = 4
    MaxSnapshots = 2
CHECK_DEADLOCK FALSE
INVARIANTS ContextIsWhole WithinBudget VersionsIdentify
PROPERTY AppendEnds
