SPECIFICATION Spec
CONSTANTS
    m1 = m1
    m2 = m2
    r1 = r1
    r2 = r2
    r3 = r3
    r4 = r4
    k1 = k1
    Members = {m1, m2}
    Requests = {r1, r2, r3, r4}
    Owner <- MCOwner
    Amounts = {1, 2}
    NoCap = NoCap
    Caps = {NoCap, 2}
    InitialBalance = 3
    Keys = {k1}
    Credit = 1
    MaxMonth = 1
SYMMETRY MCSymmetry
INVARIANTS
    CreditedOnce
PROPERTIES
    TeamCapBinds
    MemberCapBinds
