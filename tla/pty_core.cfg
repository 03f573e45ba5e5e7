SPECIFICATION FairSpec
CONSTANTS
    s1 = s1
    s2 = s2
    s3 = s3
    Sessions = {s1, s2, s3}
    MaxPtys = 1
    Parallel = 2
    MaxFaults = 1
INVARIANTS
    NoOrphan
    Supervised
    CapOverrunBounded
    KillReportIsTrue
PROPERTIES
    SessionsEnd
    KillCallsEnd
