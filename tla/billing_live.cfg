SPECIFICATION FairSpec
CONSTANTS
    Requests = {r1, r2}
    r1 = r1
    r2 = r2
    NoCap = NoCap
    MaxTokens = 1
    InitialBalance = 2
    MaxMonth = 1
    Estimates = {2}
    Costs = {3}
    TopUp = 2
    MaxTopUps = 1
    Caps = {NoCap, 2}
    MaxRefills = 0
PROPERTIES
    CapBindsDraws
    RequestsEnd
