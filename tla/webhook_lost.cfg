SPECIFICATION ClaimsSpec
CONSTANTS
    w1 = w1
    w2 = w2
    e1 = e1
    e2 = e2
    Workers = {w1, w2}
    Events = {e1, e2}
    Birth <- MCBirth
    RetryWindow = 4
    Runtime = 1
    Stale = 2
    Retention = 5
    MaxNow = 8
SYMMETRY WorkerSymmetry
INVARIANTS
    AckedMeansHandled
