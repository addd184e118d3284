CONSTANTS
    o1 = o1
    s1 = s1
    s2 = s2
    u1 = u1
    u2 = u2
    r1 = r1
    r2 = r2
    Legacy = Legacy
    None = None
    Owners = {o1}
    Sessions = {s1}
    OwnerOf <- OneOwner
    URIs = {u1}
    Requests = {r1, r2}
    Transports = {"stdio"}
    Wants <- One
    Methods = {"listen"}
    Events = {"cancel"}
SPECIFICATION Spec
SYMMETRY Sym
INVARIANT OpenStreamsAreWatched
CHECK_DEADLOCK FALSE
