----------------------------- MODULE BearerGuard -----------------------------
(****************************************************************************)
(* What stands in front of the gate of an oauth deployment: the bearer      *)
(* guard of cmd/server and, behind it, the SDK's bearer middleware, which   *)
(* both ask the verifier of internal/oauth who a token belongs to.  A       *)
(* verification asks GitLab under one of a few slots, unless the identity   *)
(* is cached; a refusal is remembered, with whether it was GitLab's.  The   *)
(* guard charges the budgets the gate behind it asks again.  The deployment *)
(* admits the tokens of certain applications only, so that an introspection *)
(* without an answer is no verdict.                                         *)
(*                                                                          *)
(* A request that passes both is at the gate (RequestGate), which lets a    *)
(* GET through unasked on a stateless server.  Of a request that is past    *)
(* when a behavior begins, only the identity it left in the cache is there. *)
(****************************************************************************)
EXTENDS RequestGate

CONSTANTS
    Guarded,          \* the workloads of deployments in oauth mode
    Narrow,           \* accepted tokens whose scopes are below the minimum
    Foreign,          \* tokens GitLab knows and this deployment does not admit
    DiesAt,           \* when a token expires, as its introspection says
    Endless,          \* the expiry of one that does not
    TTL,              \* oauthCacheTTL
    CacheCapacity,    \* identityCacheCapacity
    VerifySlots,      \* verificationSlots
    RejectedTTL, RejectedMax

ASSUME GuardAssumption ==
    /\ Guarded \subseteq Workloads
    /\ Narrow \subseteq Accepted /\ Foreign \subseteq Tokens \ Accepted
    /\ DiesAt \in [Tokens -> Nat \cup {Endless}] /\ Endless \notin Nat
    /\ {TTL, CacheCapacity, VerifySlots, RejectedTTL, RejectedMax} \subseteq Nat \ {0}
    /\ \A w \in Workloads \ Guarded : \A r \in Requests : w[r].token \notin Foreign
    /\ \A w \in Guarded : \A r \in Requests : w[r].kind = "past" =>
            w[r].token \in Accepted /\ DiesAt[w[r].token] = Endless

VARIABLES
    guard,        \* how far each request is in front of the gate
    second,       \* the requests the SDK's middleware verifies, after the guard
    identity,     \* what the verification of a request found
    reading,      \* the clock as Put read it
    cache,        \* the TokenCache
    rejected,     \* RejectedTokens.entries
    verifying     \* the slots of verificationGate that are taken

guardVars == <<guard, second, identity, reading, cache, rejected, verifying>>
allVars   == <<vars, guardVars>>

Cache == INSTANCE TokenCache WITH Capacity <- CacheCapacity

NoIdentity == [since |-> Never, dies |-> Never]
Identity(now, ttl) == [since |-> now, dies |-> now + ttl]
Anonymous(r) == Token(r) = NoToken

Stages == {"asking", "blocked", "remembered?", "cached?", "acquiring", "waiting", "gaveUp", "recheck",
           "asked", "stamping", "stamped", "putting", "invalid", "refused", "checked", "passed", "out"}

(* What Puts of the tokens of the requests that are past, each at the start of
   its life, made of the cache, in whatever order they were: it holds as many of
   them as it may.                                                           *)
LeftBehind ==
    LET past == {Token(r) : r \in {q \in Requests : Kind(q) = "past"}}
        kept == {K \in SUBSET past : Cardinality(K) = Min({CacheCapacity, Cardinality(past)})}
        Left(K, R) == [entries |-> [t \in K |-> [info |-> Identity(0, TTL), until |-> TTL]],
                       recency |-> R, soonest |-> IF K = {} THEN Cache!Zero ELSE TTL]
    IN UNION {{Left(K, R) : R \in {O \in SUBSET (K \X K) : Cache!Lists(O, K)}} : K \in kept}

GuardInit ==
    /\ guard = [r \in Requests |-> IF asked \notin Guarded THEN "passed"
                                 ELSE IF Kind(r) = "past" THEN "out" ELSE "asking"]
    /\ second = {}
    /\ identity = [r \in Requests |-> NoIdentity]
    /\ reading = [r \in Requests |-> Never]
    /\ IF asked \in Guarded THEN cache \in LeftBehind ELSE cache = Cache!Empty
    /\ rejected = <<>>
    /\ verifying = 0

Moves(r, from, to) == guard[r] = from /\ guard' = [guard EXCEPT ![r] = to]

(* A request is answered by the guard or by the SDK, charged or not. *)
AnsweredAs(r, d) == door' = [door EXCEPT ![r] = d]

-----------------------------------------------------------------------------
(* bearerGuard.check *)

(* blockedByBudget *)
GuardAsks(r) ==
    LET a == Address(r) IN
    /\ Moves(r, "asking", IF Blocked(a) THEN "blocked" ELSE "remembered?")
    /\ failures' = FailuresAsked(a)
    /\ distinct' = DistinctAsked(a)
    /\ promise' = [promise EXCEPT ![r] = IF Blocked(a) THEN clock + LongestBlock(a) ELSE @]
    /\ lockedAt' = [lockedAt EXCEPT ![r] = IF LockoutLeft(a) # Never THEN clock ELSE @]
    /\ heard' = [heard EXCEPT ![a] = IF DistinctLeft(a) # Never THEN clock ELSE @]
    /\ UNCHANGED <<asked, clock, failuresSwept, distinctSwept, pool, failedAt, door, slotVars>>
    /\ UNCHANGED <<second, identity, reading, cache, rejected, verifying>>

(* credentialAlreadyVerified: a token whose identity is cached, and admits it,
   is let past the block.                                                    *)
Exempt(r) ==
    LET known == Cache!Fresh(cache, Token(r), clock) /\ Token(r) \notin Narrow IN
    /\ Moves(r, "blocked", IF known THEN "remembered?" ELSE "out")
    /\ cache' = Cache!Got(cache, Token(r), clock)
    /\ IF known THEN promise' = [promise EXCEPT ![r] = Never] /\ UNCHANGED door
                ELSE AnsweredAs(r, "refused") /\ UNCHANGED promise
    /\ UNCHANGED <<asked, clock, records, pool, failedAt, lockedAt, heard, slotVars>>
    /\ UNCHANGED <<second, identity, reading, rejected, verifying>>

Remembered(t) == t \in DOMAIN rejected /\ ~Cache!Expired(clock, rejected[t].until)

(* Mutated form of ChargedFor: every remembered refusal is taken for GitLab's. *)
ChargedForAll(r) == TRUE

(* Without a token, or with one GitLab is known to refuse, the address pays. *)
ChargedFor(r) == Anonymous(r) \/ rejected[Token(r)].charged

(* LookupRefusal, which lets go of an expired refusal; the same refusal again. *)
Recall(r) ==
    LET t == Token(r)
        over == Anonymous(r) \/ Remembered(t)
    IN
    /\ Moves(r, "remembered?", IF over THEN "out" ELSE "cached?")
    /\ rejected' = IF over THEN rejected ELSE Restrict(rejected, DOMAIN rejected \ {t})
    /\ IF over THEN AnsweredAs(r, IF ChargedFor(r) THEN "failing" ELSE "refused")
               ELSE UNCHANGED door
    /\ UNCHANGED <<asked, clock, records, pool, history, slotVars>>
    /\ UNCHANGED <<second, identity, reading, cache, verifying>>

-----------------------------------------------------------------------------
(* The verifier: newGitLabVerifier *)

gateVars == <<asked, clock, records, pool, history, slotVars>>

(* A verification found the identity of the token: the guard asks whether its
   scopes are enough, and the SDK verifies once more.                        *)
Verified(r, id) ==
    IF r \in second THEN
        /\ guard' = [guard EXCEPT ![r] = "checked"]
        /\ identity' = [identity EXCEPT ![r] = id]
        /\ UNCHANGED <<door, second>>
    ELSE
        /\ guard' = [guard EXCEPT ![r] = IF Token(r) \in Narrow THEN "out" ELSE "cached?"]
        /\ identity' = [identity EXCEPT ![r] = NoIdentity]
        /\ IF Token(r) \in Narrow THEN AnsweredAs(r, "refused") /\ UNCHANGED second
                                  ELSE second' = second \cup {r} /\ UNCHANGED door

(* It found no verdict: neither remembered nor charged. *)
Unverified(r) ==
    /\ guard' = [guard EXCEPT ![r] = "out"]
    /\ AnsweredAs(r, "refused")
    /\ UNCHANGED <<second, identity>>

(* cachedIdentity, asked before a slot is, *)
AskCache(r) ==
    /\ guard[r] = "cached?"
    /\ cache' = Cache!Got(cache, Token(r), clock)
    /\ IF Cache!Fresh(cache, Token(r), clock)
       THEN Verified(r, cache.entries[Token(r)].info)
       ELSE guard' = [guard EXCEPT ![r] = "acquiring"] /\ UNCHANGED <<door, second, identity>>
    /\ UNCHANGED <<gateVars, reading, rejected, verifying>>

(* when the wait for one has ended without, *)
AskCacheAtLast(r) ==
    /\ guard[r] = "gaveUp"
    /\ cache' = Cache!Got(cache, Token(r), clock)
    /\ IF Cache!Fresh(cache, Token(r), clock)
       THEN Verified(r, cache.entries[Token(r)].info)
       ELSE Unverified(r)
    /\ UNCHANGED <<gateVars, reading, rejected, verifying>>

(* Mutated form of AskCacheHolding: the early return keeps the slot. *)
AskCacheKeeping(r) ==
    /\ guard[r] = "recheck"
    /\ cache' = Cache!Got(cache, Token(r), clock)
    /\ IF Cache!Fresh(cache, Token(r), clock)
       THEN Verified(r, cache.entries[Token(r)].info) /\ UNCHANGED verifying
       ELSE guard' = [guard EXCEPT ![r] = "asked"] /\ UNCHANGED <<door, second, identity, verifying>>
    /\ UNCHANGED <<gateVars, reading, rejected>>

(* and once it is held: another request may have verified the token meanwhile. *)
AskCacheHolding(r) ==
    /\ guard[r] = "recheck"
    /\ cache' = Cache!Got(cache, Token(r), clock)
    /\ IF Cache!Fresh(cache, Token(r), clock)
       THEN Verified(r, cache.entries[Token(r)].info) /\ verifying' = verifying - 1
       ELSE guard' = [guard EXCEPT ![r] = "asked"] /\ UNCHANGED <<door, second, identity, verifying>>
    /\ UNCHANGED <<gateVars, reading, rejected>>

(* verificationGate.acquire: a free slot at once, *)
Acquire(r) ==
    LET free == verifying < VerifySlots IN
    /\ Moves(r, "acquiring", IF free THEN "recheck" ELSE "waiting")
    /\ verifying' = IF free THEN verifying + 1 ELSE verifying
    /\ UNCHANGED <<gateVars, door, second, identity, reading, cache, rejected>>

(* or the first to come free, *)
AcquireLate(r) ==
    /\ verifying < VerifySlots
    /\ Moves(r, "waiting", "recheck")
    /\ verifying' = verifying + 1
    /\ UNCHANGED <<gateVars, door, second, identity, reading, cache, rejected>>

(* unless the wait or the request is over first. *)
GiveUp(r) ==
    /\ Moves(r, "waiting", "gaveUp")
    /\ UNCHANGED <<gateVars, door, second, identity, reading, cache, rejected, verifying>>

Dead(t) == DiesAt[t] # Endless /\ clock >= DiesAt[t]

(* askIdentity and introspectToken: GitLab accepts the token, *)
GitLabAccepts(r) ==
    /\ Token(r) \in Accepted /\ ~Dead(Token(r))
    /\ Moves(r, "asked", "stamping")
    /\ UNCHANGED <<gateVars, door, second, identity, reading, cache, rejected, verifying>>

(* refuses it, or describes one this deployment does not admit; the guard
   remembers it, the SDK only answers;                                       *)
GitLabRefuses(r) ==
    /\ guard[r] = "asked"
    /\ Token(r) \notin Accepted \/ Dead(Token(r))
    /\ verifying' = verifying - 1
    /\ IF r \in second THEN Unverified(r)
       ELSE /\ guard' = [guard EXCEPT ![r] =
                            IF Token(r) \in Foreign /\ ~Dead(Token(r)) THEN "refused" ELSE "invalid"]
            /\ UNCHANGED <<door, second, identity>>
    /\ UNCHANGED <<gateVars, reading, cache, rejected>>

(* or cannot tell. *)
GitLabIsSilent(r) ==
    /\ guard[r] = "asked"
    /\ verifying' = verifying - 1
    /\ Unverified(r)
    /\ UNCHANGED <<gateVars, reading, cache, rejected>>

(* Mutated form of EffectiveTTL: the configured one, whatever the token's. *)
ConfiguredTTL(t) == TTL

(* effectiveCacheTTL: an identity is kept no longer than its token lives. *)
EffectiveTTL(t) ==
    IF DiesAt[t] = Endless THEN TTL
    ELSE IF Dead(t) THEN 1
    ELSE Min({TTL, DiesAt[t] - clock})

(* admitToken stamps the identity with one reading of the clock, *)
Stamp(r) ==
    /\ Moves(r, "stamping", "stamped")
    /\ identity' = [identity EXCEPT ![r] = Identity(clock, EffectiveTTL(Token(r)))]
    /\ UNCHANGED <<gateVars, door, second, reading, cache, rejected, verifying>>

(* and Put dates the entry from another, taken before its lock. *)
ReadClock(r) ==
    /\ Moves(r, "stamped", "putting")
    /\ reading' = [reading EXCEPT ![r] = clock]
    /\ UNCHANGED <<gateVars, door, second, identity, cache, rejected, verifying>>

Store(r) ==
    LET id == identity[r] IN
    /\ guard[r] = "putting"
    /\ cache' = Cache!Put(cache, Token(r), [info |-> id, until |-> reading[r] + (id.dies - id.since)],
                          reading[r])
    /\ reading' = [reading EXCEPT ![r] = Never]
    /\ Verified(r, id)
    /\ verifying' = verifying - 1
    /\ UNCHANGED <<gateVars, rejected>>

-----------------------------------------------------------------------------
(* bearerGuard.classify and the SDK *)

(* evictLocked: the expired refusals, or else the one nearest to it. *)
Evictions ==
    LET alive == {t \in DOMAIN rejected : Remembered(t)} IN
    IF Cardinality(DOMAIN rejected) < RejectedMax THEN {DOMAIN rejected}
    ELSE IF Cardinality(alive) < RejectedMax THEN {alive}
    ELSE {alive \ {t} : t \in {s \in alive : \A u \in alive : rejected[s].until <= rejected[u].until}}

(* RejectedTokens.record; a token GitLab refused is charged to its address. *)
Remember(r, from, charged) ==
    /\ Moves(r, from, "out")
    /\ \E kept \in Evictions :
        rejected' = Assign(Restrict(rejected, kept), Token(r),
                           [until |-> clock + RejectedTTL, charged |-> charged])
    /\ AnsweredAs(r, IF charged THEN "failing" ELSE "refused")
    /\ UNCHANGED <<gateVars, second, identity, reading, cache, verifying>>

RememberInvalid(r) == Remember(r, "invalid", TRUE)
RememberRefused(r) == Remember(r, "refused", FALSE)

(* auth.RequireBearerToken looks at the expiration of what it was given. *)
SDKChecks(r) ==
    LET served == clock <= identity[r].dies IN
    /\ Moves(r, "checked", IF served THEN "passed" ELSE "out")
    /\ IF served THEN UNCHANGED door ELSE AnsweredAs(r, "refused")
    /\ UNCHANGED <<gateVars, second, identity, reading, cache, rejected, verifying>>

-----------------------------------------------------------------------------

InFront(r) == guard[r] \notin {"passed", "out"}

(* The periodic cleanups. *)
CleanupCache ==
    /\ cache' = Cache!Swept(cache, clock) /\ cache' # cache
    /\ UNCHANGED <<vars, guard, second, identity, reading, rejected, verifying>>

CleanupRejected ==
    /\ rejected' = Restrict(rejected, {t \in DOMAIN rejected : Remembered(t)}) /\ rejected' # rejected
    /\ UNCHANGED <<vars, guard, second, identity, reading, cache, verifying>>

GuardTick ==
    /\ clock < MaxClock /\ \E r \in Requests : InFront(r)
    /\ clock' = clock + 1
    /\ UNCHANGED <<asked, records, pool, door, history, slotVars, guardVars>>

GuardedInit == Init /\ GuardInit

GuardNext ==
    \/ \E r \in Requests :
        /\ InFront(r)
        /\ \/ GuardAsks(r) \/ Exempt(r) \/ Recall(r)
           \/ AskCache(r) \/ AskCacheAtLast(r) \/ AskCacheHolding(r)
           \/ Acquire(r) \/ AcquireLate(r) \/ GiveUp(r)
           \/ GitLabAccepts(r) \/ GitLabRefuses(r) \/ GitLabIsSilent(r)
           \/ Stamp(r) \/ ReadClock(r) \/ Store(r)
           \/ RememberInvalid(r) \/ RememberRefused(r) \/ SDKChecks(r)
    \/ CleanupCache \/ CleanupRejected \/ GuardTick

(* The gate asks its own budgets once the guard and the SDK have let a request
   through; charging what the guard refused is chargeFailure's steps too.    *)
GateNext ==
    /\ Next
    /\ \A r \in Requests : InFront(r) => door'[r] = door[r]
    /\ UNCHANGED guardVars

GuardedNext == GuardNext \/ GateNext

GuardedSpec == GuardedInit /\ [][GuardedNext]_allVars

-----------------------------------------------------------------------------
(* Properties *)

GuardTypeOK ==
    /\ TypeOK
    /\ guard \in [Requests -> Stages]
    /\ second \subseteq Requests
    /\ \A r \in Requests : identity[r] = NoIdentity \/ identity[r].since < identity[r].dies
    /\ reading \in [Requests -> (0..MaxClock) \cup {Never}]
    /\ Cache!Held(cache) \subseteq Accepted
    /\ DOMAIN rejected \subseteq Tokens \ (Accepted \cap {t \in Tokens : DiesAt[t] = Endless})
    /\ Cardinality(DOMAIN rejected) <= RejectedMax
    /\ verifying \in 0..VerifySlots

(* The cache never holds more than it may, its recency orders what it holds as
   one list, and soonest is no later than any expiry it holds, through puts that
   overtake each other, refreshes, sweeps and expiries met by a Get
   (TokenCache: were soonest too late, a full cache would spare the dead).   *)
CacheIsSound == Cache!Sound(cache)

(* A live identity leaves the cache only to make room in a full one, only as the
   least recently used, and only while nothing held had expired when Put read
   its clock (makeRoomLocked).                                               *)
LiveAreSpared ==
    [][\A t \in Cache!Held(cache) \ Cache!Held(cache') :
        Cache!Fresh(cache, t, clock) =>
            /\ Cardinality(Cache!Held(cache)) = CacheCapacity
            /\ t \in Cache!Back(cache)
            /\ \E r \in Requests :
                /\ guard[r] = "putting" /\ guard'[r] # "putting"
                /\ \A u \in Cache!Held(cache) : Cache!Fresh(cache, u, reading[r])]_allVars

(* The slots taken are those of verifications in progress, every way out of one
   gives its slot back, and there are never more than there may be
   (verificationGate, and the early returns of newGitLabVerifier).           *)
VerificationsAreCounted ==
    /\ verifying = Cardinality({r \in Requests :
                        guard[r] \in {"recheck", "asked", "stamping", "stamped", "putting"}})
    /\ verifying <= VerifySlots

(* Whoever is let through is let through on an identity GitLab vouched for no
   longer than the TTL ago, and no later than the token's own expiry, whatever
   the cache dated its entry from; a token that died while it was verified has
   one last tick (effectiveCacheTTL, admitToken, and the SDK's check).       *)
ServedInTime ==
    [][\A r \in Requests : guard[r] = "checked" /\ guard'[r] = "passed" =>
        LET id == identity[r] IN
        /\ clock <= id.since + TTL
        /\ DiesAt[Token(r)] # Endless =>
              \/ clock <= DiesAt[Token(r)]
              \/ id.since >= DiesAt[Token(r)] /\ clock <= id.since + 1]_allVars

(* The budgets are charged for guesses only: a request without a token, or with
   one GitLab refuses.  A token GitLab knows costs its address nothing, whether
   the refusal is fresh or remembered from another request (classify and
   LookupRefusal).                                                           *)
OnlyGuessesAreCharged ==
    \A r \in Requests : door[r] \in {"failing", "charging"} =>
        Anonymous(r) \/ Token(r) \notin Accepted \cup Foreign \/ Dead(Token(r))
==============================================================================
