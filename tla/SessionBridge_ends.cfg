CONSTANTS
    o1 = o1
    s1 = s1
    s2 = s2
    u1 = u1
    u2 = u2
    r1 = r1
    r2 = r2
    Legacy = Legacy
    None = None
    Owners = {o1}
    Sessions = {s1}
    OwnerOf <- OneOwner
    URIs = {u1}
    Requests = {r1, r2}
    Transports = {"stateless", "stateful"}
    Wants <- Mixed
    Methods = {"listen", "subscribe", "unsubscribe", "initialize"}
    Events = {"cancel", "evict", "shutdown"}
SPECIFICATION FairSpec
INVARIANT OverMeansReleased
INVARIANT EvictedSubscribersAreEnded
PROPERTY ListensEnd
CHECK_DEADLOCK FALSE
