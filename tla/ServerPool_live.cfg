CONSTANTS
    k1 = k1
    k2 = k2
    k3 = k3
    sh1 = sh1
    r1 = r1
    r2 = r2
    r3 = r3
    None = None
    Keys = {k1}
    Shapes = {sh1}
    ShapeOf <- OneShape
    Requests = {r1, r2}
    MaxSize = 1
    ProbeSlots = 1
    MaxAge = 1
    IdleTimeout = 0
    MaxTime = 0
    Events = {"revoke", "sweep", "badBuild", "badCatalog", "shutdown"}
SPECIFICATION FairSpec
INVARIANT PoisonedNeverCached
PROPERTY CallsReturn
PROPERTY RevokedIsDropped
CHECK_DEADLOCK FALSE
