CONSTANTS
    k1 = k1
    k2 = k2
    k3 = k3
    sh1 = sh1
    r1 = r1
    r2 = r2
    r3 = r3
    None = None
    Keys = {k1}
    Shapes = {sh1}
    ShapeOf <- OneShape
    Requests = {r1, r2}
    MaxSize = 1
    ProbeSlots = 1
    MaxAge = 1
    IdleTimeout = 0
    MaxTime = 0
    Events = {"revoke", "restore", "below", "unknownKind", "named401", "unnamed401", "sweep", "unreachable", "fineGrained"}
SPECIFICATION Spec
SYMMETRY KeySym
INVARIANT EndingsAreTrue
INVARIANT ProbesAreHeld
CHECK_DEADLOCK FALSE
