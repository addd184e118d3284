CONSTANTS
    m1 = m1
    m2 = m2
    s1 = s1
    s2 = s2
    u1 = u1
    u2 = u2
    u3 = u3
    c1 = c1
    c2 = c2
    c3 = c3
    None = None
    Managers = {m1}
    Sessions = {s1, s2}
    ManagerOf <- OneManager
    URIs = {u1, u2, u3}
    Subscribable = {u1, u2}
    Calls = {c1, c2}
    MaxWatchers = 1
    GateLimit = 1
    Lease = 1
    MaxLifetime = 1
    RateLimitPause = 1
    MaxRateLimitPause = 2
    ReadFailures = {}
    MaxTime = 0
    MaxVersion = 0
    MaxStreak = 0
SPECIFICATION FairSpec
INVARIANT TypeOK
INVARIANT NoOrphan
INVARIANT SuccessMeansRead
INVARIANT ClosedIsQuiet
PROPERTY CallersAreAnswered
PROPERTY CloseFinishes
CHECK_DEADLOCK FALSE
