SPECIFICATION CustodySpec
CONSTANTS
    Objects = {o1, o2}
    Drafts = {d1, d2}
    MaxCrashes = 1
    MaxOffers = 2
    Capacity = 1
    FileScenarios <- FileCases
INVARIANTS ContentInUseStays
PROPERTIES CacheSteps CacheEnds
CHECK_DEADLOCK FALSE
