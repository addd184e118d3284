CONSTANTS
    m1 = m1
    m2 = m2
    s1 = s1
    s2 = s2
    u1 = u1
    u2 = u2
    u3 = u3
    c1 = c1
    c2 = c2
    c3 = c3
    None = None
    Managers = {m1}
    Sessions = {s1, s2}
    ManagerOf <- OneManager
    URIs = {u1}
    Subscribable = {u1}
    Calls = {c1, c2, c3}
    MaxWatchers = 1
    GateLimit = 0
    Lease = 1
    MaxLifetime = 2
    RateLimitPause = 1
    MaxRateLimitPause = 2
    ReadFailures = {}
    MaxTime = 0
    MaxVersion = 0
    MaxStreak = 0
SPECIFICATION Spec
SYMMETRY Sym
PROPERTY GiveUpLeavesSiblings
CHECK_DEADLOCK FALSE
