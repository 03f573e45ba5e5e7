SPECIFICATION Spec
CONSTANTS
    Requests = {r1, r2}
    r1 = r1
    r2 = r2
    NoCap = NoCap
    MaxTokens = 3
    InitialBalance = 2
    MaxMonth = 0
    Estimates = {0, 2}
    Costs = {1, 4}
    TopUp = 2
    MaxTopUps = 0
    Caps = {NoCap}
    MaxRefills = 1
SYMMETRY RequestSymmetry
INVARIANTS
    TrackerMatchesStores
    RefusalReturnsExtra
    RefundIsExact
    SettledFairly
    OverfullOnlyWhileCapping
