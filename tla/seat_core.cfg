SPECIFICATION Spec
CONSTANTS
    m1 = m1
    m2 = m2
    p1 = p1
    p2 = p2
    p3 = p3
    Requests = {p1, p2, p3}
    Members = {m1, m2}
    Owner <- MCOwner
    MaxTokens = 2
    Debts = {1, 3}
    Charges = {1, 2}
    MaxRemovals = 2
    MaxClears = 1
INVARIANTS
    OneClaimant
    CounterExactAtRest
PROPERTIES
    ImplementsLedger
