CONSTANTS
    o1 = o1
    s1 = s1
    s2 = s2
    u1 = u1
    u2 = u2
    r1 = r1
    r2 = r2
    Legacy = Legacy
    None = None
    Owners = {o1}
    Sessions = {s1, s2}
    OwnerOf <- OneOwner
    URIs = {u1, u2}
    Requests = {r1, r2}
    Transports = {"stateless"}
    Wants <- Either
    Methods = {"listen"}
    Events = {"cancel", "evict"}
SPECIFICATION Spec
SYMMETRY UriSym
INVARIANT TypeOK
INVARIANT OpenStreamsAreWatched
INVARIANT EndingsAreTold
CHECK_DEADLOCK FALSE
