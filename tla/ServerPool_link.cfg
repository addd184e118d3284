CONSTANTS
    k1 = k1
    k2 = k2
    k3 = k3
    sh1 = sh1
    r1 = r1
    r2 = r2
    r3 = r3
    None = None
    Keys = {k1, k2, k3}
    Shapes = {sh1}
    ShapeOf <- OneShape
    Requests = {r1, r2, r3}
    MaxSize = 2
    ProbeSlots = 3
    MaxAge = 1
    IdleTimeout = 1
    MaxTime = 2
    Events = {"subscribe", "shutdown"}
SPECIFICATION Spec
SYMMETRY KeySym
INVARIANT TypeOK
INVARIANT PoolIsLinked
PROPERTY PressureSparesWork
CHECK_DEADLOCK FALSE
