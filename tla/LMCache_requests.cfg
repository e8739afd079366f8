SPECIFICATION LMSpec
CONSTANTS
    Slots = {"a", "b", "c", "d"}
    NTiers = 3
    Capacity <- MCCapacity
    Sizes <- MCSizes
    MaxClock = 7
    Workload <- MCRequests
CHECK_DEADLOCK FALSE
INVARIANTS BooksAreExact TiersAreOrdered HotIsInFastestFit ServedIsResident
PROPERTIES DropsOnlyTheOldest
