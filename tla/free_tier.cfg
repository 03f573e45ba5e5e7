SPECIFICATION FairSpec
CHECK_DEADLOCK FALSE
CONSTANTS
    Requests = {r1, r2}
    Posts = {p1, p2}
    Free = Free
    DailyUnits = 1
    BonusUnits = 1
    AgentUnits = 2
    MonthlyLimit = 1
    MaxCost = 1
    MaxDays = 1
    MaxMonths = 1
INVARIANTS
    OneFreeRun
    CostOverrunBounded
    UnitsWithinPromise
PROPERTIES
    LockFreed
