CONSTANTS
    r1 = r1
    r2 = r2
    r3 = r3
    a1 = a1
    a2 = a2
    t1 = t1
    t2 = t2
    t3 = t3
    dying = dying
    narrow = narrow
    foreign = foreign
    NoToken = NoToken
    Requests = {r1, r2, r3}
    Addresses = {a1, a2}
    Tokens = {t1, t2, t3, dying, narrow, foreign}
    Accepted = {t1, t3, dying, narrow}
    Workloads <- MCWorkloads
    MaxFails = 2
    Window = 1
    DistinctLimit = 1
    DistinctWindow = 2
    Step = 1
    Ladder <- ShortLadder
    MaxTracked = 1
    SweepAfter = 1
    MaxClock = 3
    HeldLimit = 2
    SessionLimit = 1
    ListenLimit = 1
    ProcessListens = 2
    Guarded <- MCGuarded
    Narrow = {narrow}
    Foreign = {foreign}
    DiesAt <- MCDiesAt
    Endless = Endless
    TTL = 2
    CacheCapacity = 2
    VerifySlots = 2
    RejectedTTL = 1
    RejectedMax = 1
SPECIFICATION GuardedSpec
SYMMETRY Sym
INVARIANT GuardTypeOK
INVARIANT BlocksAreEarned
INVARIANT AnsweredHonestly
INVARIANT SlotsAreHeld
INVARIANT CallsAreCounted
INVARIANT VerificationsAreCounted
INVARIANT CacheIsSound
INVARIANT OnlyGuessesAreCharged
PROPERTY LadderRemembers
PROPERTY LiveAreSpared
PROPERTY ServedInTime
CHECK_DEADLOCK FALSE
