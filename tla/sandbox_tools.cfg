SPECIFICATION Spec
CONSTANTS
    a = a
    b = b
    d = d
    Calls <- MCCalls
    Kinds <- MCKinds
    NoCall = NoCall
    MaxBoxes = 4
    MaxCreateRetries = 2
    MaxHealthFailures = 2
    MaxFaults = 1
    MaxAttempts = 2
INVARIANTS
    OneSandbox
    LockIsTrue
    Accounted
PROPERTIES
    CallsEnd
CHECK_DEADLOCK FALSE
