--------------------------- MODULE BearerGuardProofs ---------------------------
(****************************************************************************)
(* The bearer guard and the gate behind it, for every deployment, number of *)
(* requests and life of a token: who is let through is let through in time, *)
(* only guesses are charged, no slot of a verification is lost, the cache   *)
(* of identities is sound and spares the living, and what RequestGateProofs *)
(* proves of the gate is so behind the guard.                               *)
(****************************************************************************)
EXTENDS BearerGuard, RequestGateProofs, WellFoundedInduction

(* A token that GitLab refuses, or would if it were asked. *)
Bad(t) == t \notin Accepted \cup Foreign \/ Dead(t)

(* An identity lives no longer than the TTL, and no longer than its token but
   for the last tick of one that died as it was verified.                    *)
Vouched(t, id) ==
    /\ id \in [since : Int, dies : Int]
    /\ id.dies <= id.since + TTL
    /\ DiesAt[t] # Endless =>
          id.dies <= DiesAt[t] \/ (id.since >= DiesAt[t] /\ id.dies <= id.since + 1)

(* What is cached is the identity of a token GitLab accepts. *)
IsCache(c) == c = [entries |-> c.entries, recency |-> c.recency, soonest |-> c.soonest]
CacheHolds(c) ==
    /\ IsCache(c)
    /\ \A t \in Cache!Held(c) : t \in Accepted /\ Vouched(t, c.entries[t].info)

Doors == {"arriving", "passed", "failing", "charging", "admitted", "refused"}

GuardTypes ==
    /\ asked \in Workloads /\ clock \in Int
    /\ guard \in [Requests -> Stages]
    /\ door \in [Requests -> Doors]
    /\ identity \in [Requests -> [since : Int, dies : Int]]
    /\ verifying \in Nat

(* What was charged when it was learned is to be charged from memory. *)
RefusalsAreFair == \A t \in DOMAIN rejected : rejected[t].charged = TRUE => Bad(t)

RequestOK(r) ==
    /\ guard[r] = "invalid" => Bad(Token(r))
    /\ guard[r] \in {"stamping", "stamped", "putting", "checked"} => Token(r) \in Accepted
    /\ guard[r] \in {"stamped", "putting", "checked"} => Vouched(Token(r), identity[r])
    /\ InFront(r) => asked \in Guarded /\ door[r] = "arriving"
    /\ asked \in Guarded /\ (guard[r] = "passed" \/ door[r] = "passed") => Token(r) \in Accepted
    /\ asked \in Guarded /\ door[r] = "arriving" /\ guard[r] = "out" => Kind(r) = "past"
    /\ door[r] \in {"failing", "charging"} => Anonymous(r) \/ Bad(Token(r))

GuardInv ==
    /\ GuardTypes
    /\ \A r \in Requests : RequestOK(r)
    /\ RefusalsAreFair /\ (asked \in Guarded => CacheHolds(cache))
    /\ VerificationsAreCounted

-----------------------------------------------------------------------------
(* The cache *)

(* What is held of one cache is what another held. *)
Within(d, c) ==
    /\ IsCache(d)
    /\ \A t \in Cache!Held(d) : t \in Cache!Held(c) /\ d.entries[t] = c.entries[t]

LEMMA RecencyAlone ==
    ASSUME NEW c, IsCache(c), NEW s
    PROVE  Within([c EXCEPT !.recency = s], c)
<1>1. [c EXCEPT !.recency = s] = [entries |-> c.entries, recency |-> s, soonest |-> c.soonest]
  BY DEF IsCache
<1>2. QED
  BY <1>1 DEF Within, IsCache, Cache!Held

LEMMA SoonestAlone ==
    ASSUME NEW c, IsCache(c), NEW n
    PROVE  Within([c EXCEPT !.soonest = n], c)
<1>1. [c EXCEPT !.soonest = n] = [entries |-> c.entries, recency |-> c.recency, soonest |-> n]
  BY DEF IsCache
<1>2. QED
  BY <1>1 DEF Within, IsCache, Cache!Held

LEMMA FewerHeld ==
    ASSUME NEW c, IsCache(c), NEW K
    PROVE  Within(Cache!Without(c, K), c)
<1> DEFINE s == c.recency \cap ((Cache!Held(c) \ K) \X (Cache!Held(c) \ K))
           e == Cache!Restrict(c.entries, Cache!Held(c) \ K)
<1>1. Cache!Without(c, K) = [entries |-> e, recency |-> s, soonest |-> c.soonest]
  BY DEF Cache!Without
<1>2. e = [t \in DOMAIN c.entries \ K |-> c.entries[t]]
  BY DEF Cache!Restrict, Cache!Held
<1> HIDE DEF s, e
<1>3. QED
  BY <1>1, <1>2 DEF Within, IsCache, Cache!Held

LEMMA WithinIsTransitive ==
    ASSUME NEW c, NEW d, NEW e, Within(e, d), Within(d, c)
    PROVE  Within(e, c)
BY DEF Within

LEMMA GotIsWithin ==
    ASSUME NEW c, IsCache(c), NEW k, NEW now
    PROVE  Within(Cache!Got(c, k, now), c)
<1>1. PICK s : s = Cache!ToFront(c.recency, Cache!Held(c), k)
  OBVIOUS
<1>2. \/ Cache!Got(c, k, now) = [c EXCEPT !.recency = s]
      \/ Cache!Got(c, k, now) = Cache!Without(c, {k})
  BY <1>1 DEF Cache!Got
<1>3. QED
  BY <1>2, RecencyAlone, FewerHeld

LEMMA SweptIsWithin ==
    ASSUME NEW c, IsCache(c), NEW now
    PROVE  Within(Cache!Swept(c, now), c)
<1>1. \E K, n : Cache!Swept(c, now) = [Cache!Without(c, K) EXCEPT !.soonest = n]
  BY DEF Cache!Swept
<1>2. PICK K, n : Cache!Swept(c, now) = [Cache!Without(c, K) EXCEPT !.soonest = n]
  BY <1>1
<1>3. PICK d : d = Cache!Without(c, K)
  OBVIOUS
<1>4. Within(d, c) /\ IsCache(d)
  BY <1>3, FewerHeld DEF Within
<1>5. QED
  BY <1>2, <1>3, <1>4, SoonestAlone, WithinIsTransitive

LEMMA RoomIsWithin ==
    ASSUME NEW c, IsCache(c), NEW now
    PROVE  Within(Cache!WithRoom(c, now), c)
<1>1. PICK d : d = IF Cache!Expired(now, c.soonest) THEN Cache!Swept(c, now) ELSE c
  OBVIOUS
<1>2. Within(d, c) /\ IsCache(d)
  <2>1. Within(c, c)
    BY DEF Within
  <2>2. QED
    BY <1>1, <2>1, SweptIsWithin DEF Within
<1>3. \E K : Cache!WithRoom(c, now) = d \/ Cache!WithRoom(c, now) = Cache!Without(d, K)
  BY <1>1 DEF Cache!WithRoom
<1>4. QED
  BY <1>2, <1>3, FewerHeld, WithinIsTransitive

(* Put adds one entry, and spares what it spares as it was. *)
LEMMA PutAddsOne ==
    ASSUME NEW c, IsCache(c), NEW k, NEW e, NEW now
    PROVE  /\ IsCache(Cache!Put(c, k, e, now))
           /\ \A t \in Cache!Held(Cache!Put(c, k, e, now)) :
                \/ t = k /\ Cache!Put(c, k, e, now).entries[t] = e
                \/ t \in Cache!Held(c) /\ Cache!Put(c, k, e, now).entries[t] = c.entries[t]
<1> DEFINE room == IF k \in Cache!Held(c) \/ Cache!Cardinality(Cache!Held(c)) < CacheCapacity
                   THEN c ELSE Cache!WithRoom(c, now)
           f == [j \in Cache!Held(room) \cup {k} |-> IF j = k THEN e ELSE room.entries[j]]
           d == [entries |-> f, recency |-> Cache!ToFront(room.recency, Cache!Held(room), k),
                 soonest |-> room.soonest]
<1>1. Within(c, c)
  BY DEF Within
<1>2. Within(room, c)
  BY <1>1, RoomIsWithin
<1>3. Cache!Put(c, k, e, now) = Cache!Noted(d, e.until)
  BY DEF Cache!Put
<1>4. f = [j \in Cache!Held(room) \cup {k} |-> IF j = k THEN e ELSE room.entries[j]]
  OBVIOUS
<1> HIDE DEF room, f
<1>5. d.entries = f /\ IsCache(d)
  BY DEF IsCache
<1> HIDE DEF d
<1>6. Within(Cache!Noted(d, e.until), d)
  <2>1. Within(d, d)
    BY <1>5 DEF Within
  <2>2. QED
    BY <1>5, <2>1, SoonestAlone DEF Cache!Noted
<1>7. \A t \in Cache!Held(d) :
         \/ t = k /\ d.entries[t] = e
         \/ t \in Cache!Held(c) /\ d.entries[t] = c.entries[t]
  <2>1. /\ DOMAIN f = {k} \cup DOMAIN room.entries
        /\ \A t \in DOMAIN f : f[t] = IF t = k THEN e ELSE room.entries[t]
    BY <1>4 DEF Cache!Held
  <2>2. QED
    BY <1>2, <1>5, <2>1 DEF Within, Cache!Held
<1>8. QED
  BY <1>3, <1>6, <1>7 DEF Within

LEMMA CacheStaysSane ==
    ASSUME CacheHolds(cache), Within(cache', cache)
    PROVE  CacheHolds(cache')
BY DEF CacheHolds, Within

-----------------------------------------------------------------------------
(* What a request in front of the gate does *)

OfGuard(r) ==
    \/ GuardAsks(r) \/ Exempt(r) \/ Recall(r)
    \/ AskCache(r) \/ AskCacheAtLast(r) \/ AskCacheHolding(r)
    \/ Acquire(r) \/ AcquireLate(r) \/ GiveUp(r)
    \/ GitLabAccepts(r) \/ GitLabRefuses(r) \/ GitLabIsSilent(r)
    \/ Stamp(r) \/ ReadClock(r) \/ Store(r)
    \/ RememberInvalid(r) \/ RememberRefused(r) \/ SDKChecks(r)

(* Where a step takes a request. *)
Sent(r, g, d, i) ==
    /\ guard' = [guard EXCEPT ![r] = g] /\ door' = [door EXCEPT ![r] = d]
    /\ identity' = [identity EXCEPT ![r] = i]
    /\ g \in Stages /\ d \in Doors /\ i \in [since : Int, dies : Int]

LEMMA Unmoved ==
    ASSUME GuardTypes, NEW r \in Requests
    PROVE  /\ guard[r] \in Stages /\ door[r] \in Doors /\ identity[r] \in [since : Int, dies : Int]
           /\ door' = door => door' = [door EXCEPT ![r] = door[r]]
           /\ identity' = identity => identity' = [identity EXCEPT ![r] = identity[r]]
BY DEF GuardTypes

LEMMA SentArrives ==
    ASSUME GuardTypes, NEW r \in Requests, NEW g, NEW d, NEW i, Sent(r, g, d, i)
    PROVE  /\ guard'[r] = g /\ door'[r] = d /\ identity'[r] = i
           /\ \A q \in Requests : q # r =>
                guard'[q] = guard[q] /\ door'[q] = door[q] /\ identity'[q] = identity[q]
           /\ guard' \in [Requests -> Stages] /\ door' \in [Requests -> Doors]
           /\ identity' \in [Requests -> [since : Int, dies : Int]]
BY DEF GuardTypes, Sent

(* What no step in front of the gate changes. *)
LEMMA GuardFrame ==
    ASSUME NEW r \in Requests, OfGuard(r)
    PROVE  asked' = asked /\ clock' = clock /\ UNCHANGED <<pooled, entry>> /\ UNCHANGED slotVars
BY DEF OfGuard, GuardAsks, Exempt, Recall, AskCache, AskCacheAtLast, AskCacheHolding, Acquire,
       AcquireLate, GiveUp, GitLabAccepts, GitLabRefuses, GitLabIsSilent, Stamp, ReadClock, Store,
       RememberInvalid, RememberRefused, Remember, SDKChecks, gateVars, pool

LEMMA TokensAreKnown ==
    ASSUME GuardTypes, NEW r \in Requests
    PROVE  /\ Token(r) \in Tokens \cup {NoToken}
           /\ Accepted \subseteq Tokens /\ Foreign \subseteq Tokens /\ NoToken \notin Tokens
           /\ Kind(r) = asked[r].kind
BY BudgetsAssumption, GuardAssumption DEF GuardTypes, Token, Kind

(* A dead token stays dead. *)
LEMMA BadStaysBad ==
    ASSUME clock \in Int, clock' \in Int, clock' >= clock, NEW t, Bad(t)
    PROVE  Bad(t)'
<1>1. CASE t \notin Accepted \cup Foreign
  BY <1>1 DEF Bad
<1>2. CASE t \in Accepted \cup Foreign
  <2>1. t \in Tokens /\ DiesAt[t] \in Nat \cup {Endless}
    BY <1>2, BudgetsAssumption, GuardAssumption
  <2>2. DiesAt[t] # Endless /\ clock >= DiesAt[t]
    BY <1>2 DEF Bad, Dead
  <2>3. clock' >= DiesAt[t]
    BY <2>1, <2>2
  <2>4. QED
    BY <2>2, <2>3 DEF Bad, Dead
<1>3. QED
  BY <1>1, <1>2

(* A request that does not move stays as it should be. *)
LEMMA BystanderOK ==
    ASSUME clock \in Int, clock' \in Int, clock' >= clock, asked' = asked, NEW q \in Requests,
           RequestOK(q), guard'[q] = guard[q], door'[q] = door[q], identity'[q] = identity[q]
    PROVE  RequestOK(q)'
<1>1. Bad(Token(q)) => Bad(Token(q))'
  <2>1. PICK t : t = Token(q)
    OBVIOUS
  <2>2. t = Token(q)'
    BY <2>1 DEF Token
  <2>3. Bad(t) => Bad(t)'
    BY BadStaysBad
  <2>4. QED
    BY <2>1, <2>2, <2>3 DEF Bad, Dead, Token
<1>2. Vouched(Token(q), identity[q]) => Vouched(Token(q), identity[q])'
  BY DEF Vouched, Token
<1>3. QED
  BY <1>1, <1>2 DEF RequestOK, InFront, Anonymous, Token, Kind

(* One that moves, while nothing else does: what it has to be where it comes. *)
LEMMA ArrivesOK ==
    ASSUME GuardTypes, asked' = asked, clock' = clock, NEW r \in Requests, NEW g, NEW d, NEW i,
           Sent(r, g, d, i),
           g = "invalid" => Bad(Token(r)),
           g \in {"stamping", "stamped", "putting", "checked", "passed"} => Token(r) \in Accepted,
           g \in {"stamped", "putting", "checked"} => Vouched(Token(r), i),
           g \notin {"passed", "out"} => asked \in Guarded /\ d = "arriving",
           d # "passed", g = "out" => d # "arriving",
           d \in {"failing", "charging"} => Anonymous(r) \/ Bad(Token(r))
    PROVE  RequestOK(r)'
<1>1. guard'[r] = g /\ door'[r] = d /\ identity'[r] = i
  BY SentArrives
<1>2. Token(r)' = Token(r) /\ (Bad(Token(r)) <=> Bad(Token(r))')
  BY DEF Token, Bad, Dead
<1>3. Vouched(Token(r), i) => Vouched(Token(r)', identity'[r])
  BY <1>1, <1>2
<1>4. QED
  BY <1>1, <1>2, <1>3 DEF RequestOK, InFront, Anonymous, Vouched

Verifying == {"recheck", "asked", "stamping", "stamped", "putting"}

(* What a step makes of the request it moves, and of the count of the slots. *)
Settled(r, g, d, i) ==
    /\ Sent(r, g, d, i)
    /\ g = "invalid" => Bad(Token(r))
    /\ g \in {"stamping", "stamped", "putting", "checked", "passed"} => Token(r) \in Accepted
    /\ g \in {"stamped", "putting", "checked"} => Vouched(Token(r), i)
    /\ g \notin {"passed", "out"} => asked \in Guarded /\ d = "arriving"
    /\ d # "passed" /\ (g = "out" => d # "arriving")
    /\ d \in {"failing", "charging"} => Anonymous(r) \/ Bad(Token(r))
    /\ verifying' = verifying + In(g \in Verifying) - In(guard[r] \in Verifying)
    /\ g \in Verifying => guard[r] \in Verifying \/ verifying < VerifySlots

Settles(r) == \E g, d, i : Settled(r, g, d, i)

LEMMA SettlesOK ==
    ASSUME GuardTypes, asked' = asked, clock' = clock, NEW r \in Requests, Settles(r)
    PROVE  RequestOK(r)'
<1>1. PICK g, d, i : Settled(r, g, d, i)
  BY DEF Settles
<1>2. QED
  BY <1>1, ArrivesOK DEF Settled

(* A step that has nothing to do with the slots. *)
LEMMA NoSlotMoves ==
    ASSUME GuardTypes, NEW r \in Requests, NEW g, g \notin Verifying, guard[r] \notin Verifying,
           verifying' = verifying
    PROVE  /\ verifying' = verifying + In(g \in Verifying) - In(guard[r] \in Verifying)
           /\ g \in Verifying => guard[r] \in Verifying \/ verifying < VerifySlots
BY DEF GuardTypes, In

LEMMA AsksSettle ==
    ASSUME GuardTypes, RefusalsAreFair, NEW r \in Requests, RequestOK(r), InFront(r),
           GuardAsks(r) \/ Exempt(r) \/ Recall(r)
    PROVE  Settles(r)
<1>1. /\ asked \in Guarded /\ door[r] = "arriving" /\ verifying \in Nat
      /\ identity[r] \in [since : Int, dies : Int]
      /\ identity' = [identity EXCEPT ![r] = identity[r]]
      /\ verifying' = verifying
  <2>1. identity' = identity /\ verifying' = verifying
    BY DEF GuardAsks, Exempt, Recall
  <2>2. QED
    BY <2>1, Unmoved DEF RequestOK, GuardTypes
<1>2. CASE GuardAsks(r)
  <2>1. PICK g \in {"blocked", "remembered?"} : guard' = [guard EXCEPT ![r] = g]
    BY <1>2 DEF GuardAsks, Moves
  <2>2. guard[r] = "asking" /\ door' = door
    BY <1>2 DEF GuardAsks, Moves
  <2>3. door' = [door EXCEPT ![r] = "arriving"]
    BY <1>1, <2>2, Unmoved
  <2>4. g \notin Verifying /\ guard[r] \notin Verifying
    BY <2>1, <2>2 DEF Verifying
  <2>5. Settled(r, g, "arriving", identity[r])
    BY <1>1, <2>1, <2>3, <2>4, NoSlotMoves DEF Settled, Sent, Stages, Doors
  <2>6. QED
    BY <2>5 DEF Settles
<1>3. CASE Exempt(r)
  <2>1. guard[r] = "blocked"
    BY <1>3 DEF Exempt, Moves
  <2>2. \/ guard' = [guard EXCEPT ![r] = "remembered?"] /\ door' = door
        \/ guard' = [guard EXCEPT ![r] = "out"] /\ door' = [door EXCEPT ![r] = "refused"]
    BY <1>3 DEF Exempt, Moves, AnsweredAs
  <2>3. CASE guard' = [guard EXCEPT ![r] = "remembered?"] /\ door' = door
    <3>1. door' = [door EXCEPT ![r] = "arriving"]
      BY <1>1, <2>3, Unmoved
    <3>2. "remembered?" \notin Verifying /\ guard[r] \notin Verifying
      BY <2>1 DEF Verifying
    <3>3. Settled(r, "remembered?", "arriving", identity[r])
      BY <1>1, <2>3, <3>1, <3>2, NoSlotMoves DEF Settled, Sent, Stages, Doors
    <3>4. QED
      BY <3>3 DEF Settles
  <2>4. CASE guard' = [guard EXCEPT ![r] = "out"] /\ door' = [door EXCEPT ![r] = "refused"]
    <3>1. Settled(r, "out", "refused", identity[r])
      BY <1>1, <2>1, <2>4 DEF Settled, Sent, Stages, Doors, Verifying, In
    <3>2. QED
      BY <3>1 DEF Settles
  <2>5. QED
    BY <2>2, <2>3, <2>4
<1>4. CASE Recall(r)
  <2>1. guard[r] = "remembered?"
    BY <1>4 DEF Recall, Moves
  <2>2. CASE Anonymous(r) \/ Remembered(Token(r))
    <3>1. guard' = [guard EXCEPT ![r] = "out"]
      BY <1>4, <2>2 DEF Recall, Moves
    <3>2. PICK d \in {"failing", "refused"} :
             door' = [door EXCEPT ![r] = d] /\ (d = "failing" => ChargedFor(r))
      BY <1>4, <2>2 DEF Recall, AnsweredAs
    <3>3. d = "failing" => Anonymous(r) \/ Bad(Token(r))
      BY <2>2, <3>2 DEF ChargedFor, Remembered, RefusalsAreFair
    <3>4. Settled(r, "out", d, identity[r])
      BY <1>1, <2>1, <3>1, <3>2, <3>3 DEF Settled, Sent, Stages, Doors, Verifying, In
    <3>5. QED
      BY <3>4 DEF Settles
  <2>3. CASE ~(Anonymous(r) \/ Remembered(Token(r)))
    <3>1. guard' = [guard EXCEPT ![r] = "cached?"] /\ door' = door
      BY <1>4, <2>3 DEF Recall, Moves
    <3>2. door' = [door EXCEPT ![r] = "arriving"]
      BY <1>1, <3>1, Unmoved
    <3>3. "cached?" \notin Verifying /\ guard[r] \notin Verifying
      BY <2>1 DEF Verifying
    <3>4. Settled(r, "cached?", "arriving", identity[r])
      BY <1>1, <3>1, <3>2, <3>3, NoSlotMoves DEF Settled, Sent, Stages, Doors
    <3>5. QED
      BY <3>4 DEF Settles
  <2>4. QED
    BY <2>2, <2>3
<1>5. QED
  BY <1>2, <1>3, <1>4

(* A verification that found the identity of a token GitLab accepts. *)
LEMMA VerifiedSettles ==
    ASSUME GuardTypes, NEW r \in Requests, asked \in Guarded, door[r] = "arriving",
           NEW id, Vouched(Token(r), id), Token(r) \in Accepted, Verified(r, id),
           verifying' = verifying - In(guard[r] \in Verifying)
    PROVE  Settles(r)
<1>1. /\ verifying \in Nat /\ In(guard[r] \in Verifying) \in Int
      /\ id \in [since : Int, dies : Int] /\ NoIdentity \in [since : Int, dies : Int]
  BY DEF GuardTypes, In, Vouched, NoIdentity, Never
<1>2. CASE r \in second
  <2>1. /\ guard' = [guard EXCEPT ![r] = "checked"] /\ identity' = [identity EXCEPT ![r] = id]
        /\ door' = [door EXCEPT ![r] = "arriving"]
    BY <1>2, Unmoved DEF Verified
  <2>2. In("checked" \in Verifying) = 0
    BY DEF In, Verifying
  <2>3. Settled(r, "checked", "arriving", id)
    BY <1>1, <2>1, <2>2 DEF Settled, Sent, Stages, Doors, Verifying
  <2>4. QED
    BY <2>3 DEF Settles
<1>3. CASE r \notin second
  <2>1. PICK g \in {"out", "cached?"} : guard' = [guard EXCEPT ![r] = g] /\ (g = "out" <=> Token(r) \in Narrow)
    BY <1>3 DEF Verified
  <2>2. identity' = [identity EXCEPT ![r] = NoIdentity]
    BY <1>3 DEF Verified
  <2>3. PICK d \in {"refused", "arriving"} :
          door' = [door EXCEPT ![r] = d] /\ (d = "refused" <=> Token(r) \in Narrow)
    BY <1>3, Unmoved DEF Verified, AnsweredAs
  <2>4. In(g \in Verifying) = 0
    BY DEF In, Verifying
  <2>5. Settled(r, g, d, NoIdentity)
    BY <1>1, <2>1, <2>2, <2>3, <2>4 DEF Settled, Sent, Stages, Doors, Verifying
  <2>6. QED
    BY <2>5 DEF Settles
<1>4. QED
  BY <1>2, <1>3

LEMMA UnverifiedSettles ==
    ASSUME GuardTypes, NEW r \in Requests, Unverified(r),
           verifying' = verifying - In(guard[r] \in Verifying)
    PROVE  Settles(r)
<1>1. /\ verifying \in Nat /\ In(guard[r] \in Verifying) \in Int /\ In("out" \in Verifying) = 0
      /\ identity[r] \in [since : Int, dies : Int]
  BY DEF GuardTypes, In, Verifying
<1>2. /\ guard' = [guard EXCEPT ![r] = "out"] /\ door' = [door EXCEPT ![r] = "refused"]
      /\ identity' = [identity EXCEPT ![r] = identity[r]]
  BY Unmoved DEF Unverified, AnsweredAs
<1>3. Settled(r, "out", "refused", identity[r])
  BY <1>1, <1>2 DEF Settled, Sent, Stages, Doors, Verifying
<1>4. QED
  BY <1>3 DEF Settles

LEMMA CachedIsVouched ==
    ASSUME CacheHolds(cache), NEW t, Cache!Fresh(cache, t, clock)
    PROVE  t \in Accepted /\ Vouched(t, cache.entries[t].info)
BY DEF CacheHolds, Cache!Fresh

LEMMA AnswersSettle ==
    ASSUME GuardTypes, CacheHolds(cache), NEW r \in Requests, RequestOK(r), InFront(r),
           AskCache(r) \/ AskCacheAtLast(r) \/ AskCacheHolding(r) \/ Store(r)
    PROVE  Settles(r)
<1>1. asked \in Guarded /\ door[r] = "arriving" /\ verifying \in Nat
  BY DEF RequestOK, GuardTypes
<1>2. /\ door' = door => door' = [door EXCEPT ![r] = "arriving"]
      /\ identity' = identity => identity' = [identity EXCEPT ![r] = identity[r]]
      /\ identity[r] \in [since : Int, dies : Int]
  BY <1>1, Unmoved
<1>3. CASE AskCache(r)
  <2>1. guard[r] = "cached?" /\ verifying' = verifying
    BY <1>3 DEF AskCache
  <2>2. verifying' = verifying - In(guard[r] \in Verifying)
    BY <1>1, <2>1 DEF In, Verifying
  <2>3. CASE Cache!Fresh(cache, Token(r), clock)
    <3>1. Verified(r, cache.entries[Token(r)].info)
      BY <1>3, <2>3 DEF AskCache
    <3>2. QED
      BY <1>1, <2>2, <2>3, <3>1, CachedIsVouched, VerifiedSettles
  <2>4. CASE ~Cache!Fresh(cache, Token(r), clock)
    <3>1. guard' = [guard EXCEPT ![r] = "acquiring"] /\ door' = door /\ identity' = identity
      BY <1>3, <2>4 DEF AskCache
    <3>2. Settled(r, "acquiring", "arriving", identity[r])
      BY <1>1, <1>2, <2>1, <3>1 DEF Settled, Sent, Stages, Doors, Verifying, In
    <3>3. QED
      BY <3>2 DEF Settles
  <2>5. QED
    BY <2>3, <2>4
<1>4. CASE AskCacheAtLast(r)
  <2>1. guard[r] = "gaveUp" /\ verifying' = verifying
    BY <1>4 DEF AskCacheAtLast
  <2>2. verifying' = verifying - In(guard[r] \in Verifying)
    BY <1>1, <2>1 DEF In, Verifying
  <2>3. CASE Cache!Fresh(cache, Token(r), clock)
    <3>1. Verified(r, cache.entries[Token(r)].info)
      BY <1>4, <2>3 DEF AskCacheAtLast
    <3>2. QED
      BY <1>1, <2>2, <2>3, <3>1, CachedIsVouched, VerifiedSettles
  <2>4. CASE ~Cache!Fresh(cache, Token(r), clock)
    <3>1. Unverified(r)
      BY <1>4, <2>4 DEF AskCacheAtLast
    <3>2. QED
      BY <2>2, <3>1, UnverifiedSettles
  <2>5. QED
    BY <2>3, <2>4
<1>5. CASE AskCacheHolding(r)
  <2>1. guard[r] = "recheck"
    BY <1>5 DEF AskCacheHolding
  <2>2. In(guard[r] \in Verifying) = 1
    BY <2>1 DEF In, Verifying
  <2>3. CASE Cache!Fresh(cache, Token(r), clock)
    <3>1. Verified(r, cache.entries[Token(r)].info) /\ verifying' = verifying - 1
      BY <1>5, <2>3 DEF AskCacheHolding
    <3>2. QED
      BY <1>1, <2>2, <2>3, <3>1, CachedIsVouched, VerifiedSettles
  <2>4. CASE ~Cache!Fresh(cache, Token(r), clock)
    <3>1. /\ guard' = [guard EXCEPT ![r] = "asked"] /\ door' = door /\ identity' = identity
          /\ verifying' = verifying
      BY <1>5, <2>4 DEF AskCacheHolding
    <3>2. Settled(r, "asked", "arriving", identity[r])
      BY <1>1, <1>2, <2>1, <3>1 DEF Settled, Sent, Stages, Doors, Verifying, In
    <3>3. QED
      BY <3>2 DEF Settles
  <2>5. QED
    BY <2>3, <2>4
<1>6. CASE Store(r)
  <2>1. guard[r] = "putting" /\ Verified(r, identity[r]) /\ verifying' = verifying - 1
    BY <1>6 DEF Store
  <2>2. In(guard[r] \in Verifying) = 1
    BY <2>1 DEF In, Verifying
  <2>3. Token(r) \in Accepted /\ Vouched(Token(r), identity[r])
    BY <2>1 DEF RequestOK
  <2>4. QED
    BY <1>1, <2>1, <2>2, <2>3, VerifiedSettles
<1>7. QED
  BY <1>3, <1>4, <1>5, <1>6

-----------------------------------------------------------------------------
(* The verification of a token *)

LEMMA LeastOfTwo ==
    ASSUME NEW a \in Int, NEW b \in Int
    PROVE  /\ Min({a, b}) \in Int /\ Min({a, b}) <= a /\ Min({a, b}) <= b
           /\ Min({a, b}) \in {a, b}
<1>1. \E x \in {a, b} : \A y \in {a, b} : x <= y
  <2>1. CASE a <= b
    BY <2>1
  <2>2. CASE ~(a <= b)
    BY <2>2
  <2>3. QED
    BY <2>1, <2>2
<1>2. Min({a, b}) \in {a, b} /\ \A y \in {a, b} : Min({a, b}) <= y
  BY <1>1 DEF Min
<1>3. QED
  BY <1>2

(* effectiveCacheTTL keeps an identity no longer than its token lives. *)
LEMMA StampedIsVouched ==
    ASSUME clock \in Int, NEW t \in Tokens
    PROVE  Vouched(t, Identity(clock, EffectiveTTL(t)))
<1>1. TTL \in Nat /\ TTL >= 1 /\ DiesAt[t] \in Nat \cup {Endless} /\ Endless \notin Nat
  BY GuardAssumption
<1>2. /\ \A n \in Int : Identity(clock, n) \in [since : Int, dies : Int]
      /\ \A n \in Int : Identity(clock, n).since = clock /\ Identity(clock, n).dies = clock + n
  BY DEF Identity
<1>3. CASE DiesAt[t] = Endless
  BY <1>1, <1>2, <1>3 DEF Vouched, EffectiveTTL
<1>4. CASE DiesAt[t] # Endless /\ clock >= DiesAt[t]
  <2>1. EffectiveTTL(t) = 1
    BY <1>4 DEF EffectiveTTL, Dead
  <2>2. QED
    BY <1>1, <1>2, <1>4, <2>1 DEF Vouched
<1>5. CASE DiesAt[t] # Endless /\ ~(clock >= DiesAt[t])
  <2>1. EffectiveTTL(t) = Min({TTL, DiesAt[t] - clock})
    BY <1>5 DEF EffectiveTTL, Dead
  <2>2. PICK n : n = EffectiveTTL(t)
    OBVIOUS
  <2>3. n \in Int /\ n <= TTL /\ n <= DiesAt[t] - clock
    <3>1. PICK b : b = DiesAt[t] - clock
      OBVIOUS
    <3>2. b \in Int /\ TTL \in Int
      BY <1>1, <1>5, <3>1
    <3>3. n = Min({TTL, b})
      BY <2>1, <2>2, <3>1
    <3>4. n \in Int /\ n <= TTL /\ n <= b
      BY <3>2, <3>3, LeastOfTwo
    <3>5. QED
      BY <3>1, <3>4
  <2>4. clock + n <= clock + TTL /\ clock + n <= DiesAt[t]
    BY <1>1, <1>5, <2>3
  <2>5. Vouched(t, Identity(clock, n))
    BY <1>2, <2>3, <2>4 DEF Vouched
  <2>6. QED
    BY <2>2, <2>5
<1>6. QED
  BY <1>3, <1>4, <1>5

LEMMA SlotsSettle ==
    ASSUME GuardTypes, NEW r \in Requests, RequestOK(r), InFront(r),
           Acquire(r) \/ AcquireLate(r) \/ GiveUp(r) \/ GitLabAccepts(r) \/ Stamp(r) \/ ReadClock(r)
    PROVE  Settles(r)
<1>1. asked \in Guarded /\ door[r] = "arriving" /\ verifying \in Nat /\ VerifySlots \in Nat
  BY GuardAssumption DEF RequestOK, GuardTypes
<1>2. /\ door' = [door EXCEPT ![r] = "arriving"]
      /\ identity' = identity => identity' = [identity EXCEPT ![r] = identity[r]]
      /\ identity[r] \in [since : Int, dies : Int]
  <2>1. door' = door
    BY DEF Acquire, AcquireLate, GiveUp, GitLabAccepts, Stamp, ReadClock
  <2>2. QED
    BY <1>1, <2>1, Unmoved
<1>3. \A g : /\ In(g \in Verifying) \in Int
             /\ (g \in Verifying => In(g \in Verifying) = 1) /\ (g \notin Verifying => In(g \in Verifying) = 0)
  BY DEF In
<1>4. CASE (Acquire(r) /\ verifying < VerifySlots) \/ AcquireLate(r)
  <2>1. /\ guard[r] \in {"acquiring", "waiting"} /\ guard' = [guard EXCEPT ![r] = "recheck"]
        /\ verifying' = verifying + 1 /\ verifying < VerifySlots /\ identity' = identity
    BY <1>4 DEF Acquire, AcquireLate, Moves
  <2>2. "recheck" \in Verifying /\ guard[r] \notin Verifying
    BY <2>1 DEF Verifying
  <2>3. verifying' = verifying + In("recheck" \in Verifying) - In(guard[r] \in Verifying)
    BY <1>1, <1>3, <2>1, <2>2
  <2>4. Settled(r, "recheck", "arriving", identity[r])
    BY <1>1, <1>2, <2>1, <2>3 DEF Settled, Sent, Stages, Doors
  <2>5. QED
    BY <2>4 DEF Settles
<1>5. CASE (Acquire(r) /\ ~(verifying < VerifySlots)) \/ GiveUp(r)
  <2>1. PICK g \in {"waiting", "gaveUp"} : guard' = [guard EXCEPT ![r] = g]
    BY <1>5 DEF Acquire, GiveUp, Moves
  <2>2. guard[r] \in {"acquiring", "waiting"} /\ verifying' = verifying /\ identity' = identity
    BY <1>5 DEF Acquire, GiveUp, Moves
  <2>3. g \notin Verifying /\ guard[r] \notin Verifying
    BY <2>1, <2>2 DEF Verifying
  <2>4. Settled(r, g, "arriving", identity[r])
    BY <1>1, <1>2, <2>1, <2>2, <2>3, NoSlotMoves DEF Settled, Sent, Stages, Doors
  <2>5. QED
    BY <2>4 DEF Settles
<1>6. CASE GitLabAccepts(r) \/ Stamp(r) \/ ReadClock(r)
  <2>1. guard[r] \in {"asked", "stamping", "stamped"} /\ verifying' = verifying
    BY <1>6 DEF GitLabAccepts, Stamp, ReadClock, Moves
  <2>2. Token(r) \in Accepted
    BY <1>6 DEF GitLabAccepts, Stamp, ReadClock, Moves, RequestOK
  <2>3. Token(r) \in Tokens /\ clock \in Int
    BY <2>2, TokensAreKnown DEF GuardTypes
  <2>4. PICK g \in {"stamping", "stamped", "putting"} : guard' = [guard EXCEPT ![r] = g] /\
          (g = "stamping" <=> guard[r] = "asked") /\ (g = "stamped" <=> guard[r] = "stamping")
    BY <1>6 DEF GitLabAccepts, Stamp, ReadClock, Moves
  <2>5. PICK i : /\ identity' = [identity EXCEPT ![r] = i] /\ i \in [since : Int, dies : Int]
                 /\ g \in {"stamped", "putting"} => Vouched(Token(r), i)
    <3>1. CASE Stamp(r)
      <4>1. identity' = [identity EXCEPT ![r] = Identity(clock, EffectiveTTL(Token(r)))]
        BY <3>1 DEF Stamp
      <4>2. Vouched(Token(r), Identity(clock, EffectiveTTL(Token(r))))
        BY <2>3, StampedIsVouched
      <4>3. QED
        BY <4>1, <4>2 DEF Vouched
    <3>2. CASE GitLabAccepts(r) \/ ReadClock(r)
      <4>1. identity' = [identity EXCEPT ![r] = identity[r]]
        BY <1>2, <3>2 DEF GitLabAccepts, ReadClock
      <4>2. g \in {"stamped", "putting"} => guard[r] = "stamped"
        BY <2>1, <2>4, <3>2 DEF GitLabAccepts, ReadClock, Moves
      <4>3. g \in {"stamped", "putting"} => Vouched(Token(r), identity[r])
        BY <4>2 DEF RequestOK
      <4>4. QED
        BY <1>2, <4>1, <4>3
    <3>3. QED
      BY <1>6, <3>1, <3>2
  <2>6. g \in Verifying /\ guard[r] \in Verifying
    BY <2>1, <2>4 DEF Verifying
  <2>7. verifying' = verifying + In(g \in Verifying) - In(guard[r] \in Verifying)
    BY <1>1, <1>3, <2>1, <2>6
  <2>8. Settled(r, g, "arriving", i)
    BY <1>1, <1>2, <2>2, <2>4, <2>5, <2>6, <2>7 DEF Settled, Sent, Stages, Doors
  <2>9. QED
    BY <2>8 DEF Settles
<1>7. QED
  BY <1>4, <1>5, <1>6

LEMMA VerdictsSettle ==
    ASSUME GuardTypes, NEW r \in Requests, RequestOK(r), InFront(r),
           GitLabRefuses(r) \/ GitLabIsSilent(r) \/ RememberInvalid(r) \/ RememberRefused(r) \/ SDKChecks(r)
    PROVE  Settles(r)
<1>1. asked \in Guarded /\ door[r] = "arriving" /\ verifying \in Nat
  BY DEF RequestOK, GuardTypes
<1>2. /\ door' = door => door' = [door EXCEPT ![r] = "arriving"]
      /\ identity' = identity => identity' = [identity EXCEPT ![r] = identity[r]]
      /\ identity[r] \in [since : Int, dies : Int]
  BY <1>1, Unmoved
<1>3. CASE GitLabRefuses(r) \/ GitLabIsSilent(r)
  <2>1. guard[r] = "asked" /\ verifying' = verifying - 1
    BY <1>3 DEF GitLabRefuses, GitLabIsSilent
  <2>2. In(guard[r] \in Verifying) = 1
    BY <2>1 DEF In, Verifying
  <2>3. CASE Unverified(r)
    BY <2>1, <2>2, <2>3, UnverifiedSettles
  <2>4. CASE ~Unverified(r)
    <3>1. PICK g \in {"refused", "invalid"} :
            /\ guard' = [guard EXCEPT ![r] = g]
            /\ g = "refused" <=> Token(r) \in Foreign /\ ~Dead(Token(r))
      BY <1>3, <2>4 DEF GitLabRefuses, GitLabIsSilent
    <3>2. door' = door /\ identity' = identity /\ (Token(r) \notin Accepted \/ Dead(Token(r)))
      BY <1>3, <2>4 DEF GitLabRefuses, GitLabIsSilent
    <3>3. g = "invalid" => Bad(Token(r))
      BY <3>1, <3>2 DEF Bad
    <3>4. g \notin Verifying
      BY <3>1 DEF Verifying
    <3>5. verifying' = verifying + In(g \in Verifying) - In(guard[r] \in Verifying)
      BY <1>1, <2>1, <2>2, <3>4 DEF In
    <3>6. Settled(r, g, "arriving", identity[r])
      BY <1>1, <1>2, <3>1, <3>2, <3>3, <3>4, <3>5 DEF Settled, Sent, Stages, Doors
    <3>7. QED
      BY <3>6 DEF Settles
  <2>5. QED
    BY <2>3, <2>4
<1>4. CASE RememberInvalid(r) \/ RememberRefused(r)
  <2>1. /\ guard[r] \in {"invalid", "refused"} /\ guard' = [guard EXCEPT ![r] = "out"]
        /\ verifying' = verifying /\ identity' = identity
    BY <1>4 DEF RememberInvalid, RememberRefused, Remember, Moves
  <2>2. PICK d \in {"failing", "refused"} :
          door' = [door EXCEPT ![r] = d] /\ (d = "failing" => guard[r] = "invalid")
    BY <1>4 DEF RememberInvalid, RememberRefused, Remember, Moves, AnsweredAs
  <2>3. d = "failing" => Bad(Token(r))
    BY <2>2 DEF RequestOK
  <2>4. "out" \notin Verifying /\ guard[r] \notin Verifying
    BY <2>1 DEF Verifying
  <2>5. Settled(r, "out", d, identity[r])
    BY <1>2, <2>1, <2>2, <2>3, <2>4, NoSlotMoves DEF Settled, Sent, Stages, Doors
  <2>6. QED
    BY <2>5 DEF Settles
<1>5. CASE SDKChecks(r)
  <2>1. guard[r] = "checked" /\ verifying' = verifying /\ identity' = identity
    BY <1>5 DEF SDKChecks, Moves
  <2>2. Token(r) \in Accepted /\ guard[r] \notin Verifying
    BY <2>1 DEF RequestOK, Verifying
  <2>3. CASE clock <= identity[r].dies
    <3>1. guard' = [guard EXCEPT ![r] = "passed"] /\ door' = door /\ "passed" \notin Verifying
      BY <1>5, <2>3 DEF SDKChecks, Moves, Verifying
    <3>2. Settled(r, "passed", "arriving", identity[r])
      BY <1>2, <2>1, <2>2, <3>1, NoSlotMoves DEF Settled, Sent, Stages, Doors
    <3>3. QED
      BY <3>2 DEF Settles
  <2>4. CASE ~(clock <= identity[r].dies)
    <3>1. guard' = [guard EXCEPT ![r] = "out"] /\ door' = [door EXCEPT ![r] = "refused"] /\ "out" \notin Verifying
      BY <1>5, <2>4 DEF SDKChecks, Moves, AnsweredAs, Verifying
    <3>2. Settled(r, "out", "refused", identity[r])
      BY <1>2, <2>1, <2>2, <3>1, NoSlotMoves DEF Settled, Sent, Stages, Doors
    <3>3. QED
      BY <3>2 DEF Settles
  <2>5. QED
    BY <2>3, <2>4
<1>6. QED
  BY <1>3, <1>4, <1>5

-----------------------------------------------------------------------------
(* Every step in front of the gate keeps the invariant *)

LEMMA EveryStepSettles ==
    ASSUME GuardInv, NEW r \in Requests, InFront(r), OfGuard(r)
    PROVE  Settles(r)
<1>1. GuardTypes /\ RequestOK(r) /\ RefusalsAreFair /\ CacheHolds(cache)
  BY DEF GuardInv, RequestOK
<1>2. QED
  BY <1>1, AsksSettle, AnswersSettle, SlotsSettle, VerdictsSettle DEF OfGuard

VerifyingNow == {r \in Requests : guard[r] \in Verifying}

LEMMA CountedByStage ==
    VerificationsAreCounted <=> verifying = Cardinality(VerifyingNow) /\ verifying <= VerifySlots
BY DEF VerificationsAreCounted, VerifyingNow, Verifying

LEMMA SlotsStayCounted ==
    ASSUME GuardTypes, VerificationsAreCounted, NEW r \in Requests, Settles(r)
    PROVE  VerificationsAreCounted' /\ verifying' \in Nat
<1>1. PICK g, d, i : Settled(r, g, d, i)
  BY DEF Settles
<1>2. guard'[r] = g /\ \A q \in Requests : q # r => guard'[q] = guard[q]
  BY <1>1, SentArrives DEF Settled
<1>3. IsFiniteSet(VerifyingNow)
  BY BudgetsFiniteAssumption, FS_Subset DEF VerifyingNow
<1>4. \A y : y # r => (y \in VerifyingNow <=> y \in VerifyingNow')
  BY <1>2 DEF VerifyingNow
<1>5. /\ Cardinality(VerifyingNow) \in Nat /\ Cardinality(VerifyingNow') \in Nat
      /\ Cardinality(VerifyingNow') =
            Cardinality(VerifyingNow) + In(r \in VerifyingNow') - In(r \in VerifyingNow)
  BY <1>3, <1>4, OneChange
<1>6. In(r \in VerifyingNow') = In(g \in Verifying) /\ In(r \in VerifyingNow) = In(guard[r] \in Verifying)
  BY <1>2 DEF VerifyingNow, In
<1>7. verifying = Cardinality(VerifyingNow) /\ verifying <= VerifySlots
  BY CountedByStage
<1>8. /\ verifying' = verifying + In(g \in Verifying) - In(guard[r] \in Verifying)
      /\ g \in Verifying => guard[r] \in Verifying \/ verifying < VerifySlots
  BY <1>1 DEF Settled
<1>9. VerifySlots \in Nat
  BY GuardAssumption
<1>10. verifying' = Cardinality(VerifyingNow')
  BY <1>5, <1>6, <1>7, <1>8
<1>11. verifying' <= VerifySlots
  BY <1>5, <1>7, <1>8, <1>9 DEF In
<1>12. VerificationsAreCounted'
  BY <1>10, <1>11, CountedByStage DEF VerificationsAreCounted, VerifyingNow, Verifying
<1>13. QED
  BY <1>5, <1>10, <1>12

LEMMA CacheStays ==
    ASSUME CacheHolds(cache), NEW r \in Requests, RequestOK(r), OfGuard(r)
    PROVE  CacheHolds(cache')
<1>1. \/ cache' = cache \/ cache' = Cache!Got(cache, Token(r), clock)
      \/ Store(r)
  BY DEF OfGuard, GuardAsks, Exempt, Recall, AskCache, AskCacheAtLast, AskCacheHolding, Acquire,
         AcquireLate, GiveUp, GitLabAccepts, GitLabRefuses, GitLabIsSilent, Stamp, ReadClock,
         RememberInvalid, RememberRefused, Remember, SDKChecks
<1>2. CASE cache' = cache
  BY <1>2
<1>3. CASE cache' = Cache!Got(cache, Token(r), clock)
  BY <1>3, GotIsWithin, CacheStaysSane DEF CacheHolds
<1>4. CASE Store(r)
  <2>1. Token(r) \in Accepted /\ Vouched(Token(r), identity[r])
    BY <1>4 DEF Store, RequestOK
  <2>2. PICK e : e = [info |-> identity[r], until |-> reading[r] + (identity[r].dies - identity[r].since)]
    OBVIOUS
  <2>3. e.info = identity[r] /\ cache' = Cache!Put(cache, Token(r), e, reading[r])
    BY <1>4, <2>2 DEF Store
  <2>4. /\ IsCache(cache')
        /\ \A t \in Cache!Held(cache') :
             \/ t = Token(r) /\ cache'.entries[t] = e
             \/ t \in Cache!Held(cache) /\ cache'.entries[t] = cache.entries[t]
    BY <2>3, PutAddsOne DEF CacheHolds
  <2>5. QED
    BY <2>1, <2>3, <2>4 DEF CacheHolds
<1>5. QED
  BY <1>1, <1>2, <1>3, <1>4

(* The refusals that are let go of do not matter to those that are not. *)
LEMMA FewerStayFair ==
    ASSUME clock' = clock, NEW K, K \subseteq DOMAIN rejected, rejected' = Restrict(rejected, K),
           RefusalsAreFair
    PROVE  RefusalsAreFair'
<1>1. DOMAIN rejected' = K /\ \A t \in K : rejected'[t] = rejected[t]
  BY DEF Restrict
<1>2. \A t : Bad(t) => Bad(t)'
  BY DEF Bad, Dead
<1>3. QED
  BY <1>1, <1>2 DEF RefusalsAreFair, Bad, Dead

LEMMA RefusalsStayFair ==
    ASSUME RefusalsAreFair, NEW r \in Requests, RequestOK(r), OfGuard(r)
    PROVE  RefusalsAreFair'
<1>1. clock' = clock
  BY GuardFrame
<1>2. rejected' = rejected \/ Recall(r) \/ RememberInvalid(r) \/ RememberRefused(r)
  BY DEF OfGuard, GuardAsks, Exempt, AskCache, AskCacheAtLast, AskCacheHolding, Acquire,
         AcquireLate, GiveUp, GitLabAccepts, GitLabRefuses, GitLabIsSilent, Stamp, ReadClock,
         Store, SDKChecks
<1>3. CASE rejected' = rejected
  BY <1>1, <1>3 DEF RefusalsAreFair, Bad, Dead
<1>4. CASE Recall(r)
  <2>1. rejected' = rejected \/ rejected' = Restrict(rejected, DOMAIN rejected \ {Token(r)})
    BY <1>4 DEF Recall
  <2>2. DOMAIN rejected \ {Token(r)} \subseteq DOMAIN rejected
    OBVIOUS
  <2>3. QED
    BY <1>1, <1>3, <2>1, <2>2, FewerStayFair
<1>5. ASSUME NEW from, NEW charged \in BOOLEAN, Remember(r, from, charged), charged => Bad(Token(r))
      PROVE  RefusalsAreFair'
  <2>1. PICK kept \in Evictions :
          rejected' = Assign(Restrict(rejected, kept), Token(r),
                             [until |-> clock + RejectedTTL, charged |-> charged])
    BY <1>5 DEF Remember
  <2>2. kept \subseteq DOMAIN rejected
    BY DEF Evictions
  <2>3. PICK e : e = [until |-> clock + RejectedTTL, charged |-> charged]
    OBVIOUS
  <2>4. e.charged = charged
    BY <2>3
  <2>5. /\ DOMAIN rejected' = kept \cup {Token(r)}
        /\ \A t \in kept \cup {Token(r)} : rejected'[t] = IF t = Token(r) THEN e ELSE rejected[t]
    BY <2>1, <2>3 DEF Assign, Restrict
  <2>6. \A t : Bad(t) => Bad(t)'
    BY <1>1 DEF Bad, Dead
  <2>7. \A t \in DOMAIN rejected' : rejected'[t].charged = TRUE => Bad(t)
    BY <1>5, <2>2, <2>4, <2>5 DEF RefusalsAreFair
  <2>8. QED
    BY <2>6, <2>7, <1>1 DEF RefusalsAreFair, Bad, Dead
<1>6. CASE RememberInvalid(r)
  <2>1. guard[r] = "invalid"
    BY <1>6 DEF RememberInvalid, Remember, Moves
  <2>2. Bad(Token(r)) /\ Remember(r, "invalid", TRUE)
    BY <1>6, <2>1 DEF RequestOK, RememberInvalid
  <2>3. QED
    BY <1>5, <2>2
<1>7. CASE RememberRefused(r)
  BY <1>5, <1>7 DEF RememberRefused
<1>8. QED
  BY <1>2, <1>3, <1>4, <1>6, <1>7

LEMMA GuardKeepsInv ==
    ASSUME GuardInv, NEW r \in Requests, InFront(r), OfGuard(r)
    PROVE  GuardInv'
<1>1. /\ GuardTypes /\ (\A q \in Requests : RequestOK(q)) /\ RefusalsAreFair
      /\ CacheHolds(cache) /\ VerificationsAreCounted
  BY DEF GuardInv, RequestOK
<1>2. asked' = asked /\ clock' = clock /\ clock \in Int /\ clock' \in Int /\ clock' >= clock
  BY <1>1, GuardFrame DEF GuardTypes
<1>3. Settles(r)
  BY EveryStepSettles
<1>4. PICK g, d, i : Sent(r, g, d, i)
  BY <1>3 DEF Settles, Settled
<1>5. VerificationsAreCounted' /\ verifying' \in Nat
  BY <1>1, <1>3, SlotsStayCounted
<1>6. GuardTypes'
  BY <1>1, <1>2, <1>4, <1>5, SentArrives DEF GuardTypes
<1>7. ASSUME NEW q \in Requests PROVE RequestOK(q)'
  <2>1. CASE q = r
    BY <1>1, <1>2, <1>3, <2>1, SettlesOK
  <2>2. CASE q # r
    <3>1. guard'[q] = guard[q] /\ door'[q] = door[q] /\ identity'[q] = identity[q]
      BY <1>1, <1>4, <2>2, SentArrives
    <3>2. QED
      BY <1>1, <1>2, <3>1, BystanderOK
  <2>3. QED
    BY <2>1, <2>2
<1>8. RefusalsAreFair'
  BY <1>1, RefusalsStayFair
<1>9. CacheHolds(cache')
  BY <1>1, CacheStays
<1>10. CacheHolds(cache)'
  BY <1>9 DEF CacheHolds, Vouched, IsCache
<1>11. QED
  BY <1>5, <1>6, <1>7, <1>8, <1>10 DEF GuardInv

-----------------------------------------------------------------------------
(* The gate behind the guard, the clock and the cleanups *)

(* Where the budgets of the gate take a request. *)
DoorMoves(r, d) ==
    /\ door' = [door EXCEPT ![r] = d] /\ clock' = clock
    /\ \/ door[r] = "arriving" /\ Kind(r) # "past" /\ d \in {"passed", "refused"}
       \/ door[r] = "passed" /\ d \in {"admitted", "refused"}
       \/ door[r] = "passed" /\ d = "failing" /\ Token(r) \notin Accepted
       \/ door[r] = "failing" /\ d = "charging"
       \/ door[r] = "charging" /\ d = "refused"

LEMMA BudgetsMoveDoors ==
    ASSUME BudgetsNext, clock \in Int
    PROVE  \/ \E r \in Requests : \E d : DoorMoves(r, d)
           \/ door' = door /\ clock' \in Int /\ clock' >= clock
<1>1. ASSUME NEW r \in Requests, AskBudgets(r)
      PROVE  \E d : DoorMoves(r, d)
  <2>1. PICK d \in {"passed", "refused"} : At(r, "arriving", d)
    BY <1>1 DEF AskBudgets
  <2>2. Kind(r) # "past" /\ clock' = clock
    BY <1>1 DEF AskBudgets, Kind
  <2>3. DoorMoves(r, d)
    BY <2>1, <2>2 DEF DoorMoves, At
  <2>4. QED
    BY <2>3
<1>2. ASSUME NEW r \in Requests, Admit(r) \/ TurnAway(r)
      PROVE  \E d : DoorMoves(r, d)
  <2>1. PICK d \in {"admitted", "refused"} : At(r, "passed", d) /\ clock' = clock
    BY <1>2 DEF Admit, TurnAway
  <2>2. DoorMoves(r, d)
    BY <2>1 DEF DoorMoves, At
  <2>3. QED
    BY <2>2
<1>3. ASSUME NEW r \in Requests, Reject(r)
      PROVE  DoorMoves(r, "failing")
  BY <1>3 DEF Reject, DoorMoves, At
<1>4. ASSUME NEW r \in Requests, ChargeFailure(r)
      PROVE  DoorMoves(r, "charging")
  BY <1>4 DEF ChargeFailure, DoorMoves, At
<1>5. ASSUME NEW r \in Requests, ChargeDistinct(r)
      PROVE  DoorMoves(r, "refused")
  BY <1>5 DEF ChargeDistinct, DoorMoves, At
<1>6. CASE CleanupFailures \/ CleanupDistinct \/ Tick \/ \E t \in Tokens : Forget(t)
  <2>1. door' = door /\ (clock' = clock \/ clock' = clock + 1)
    BY <1>6 DEF CleanupFailures, CleanupDistinct, Tick, Forget
  <2>2. QED
    BY <2>1
<1>7. QED
  BY <1>1, <1>2, <1>3, <1>4, <1>5, <1>6 DEF BudgetsNext

(* The door of a request is behind the guard: it moves once the guard has let
   the request through, and what the gate rejects was not accepted before.   *)
LEMMA DoorKeepsOK ==
    ASSUME GuardTypes, NEW r \in Requests, RequestOK(r), NEW d, DoorMoves(r, d), asked' = asked,
           InFront(r) => door'[r] = door[r], guard' = guard, identity' = identity
    PROVE  RequestOK(r)' /\ door' \in [Requests -> Doors]
<1>1. door \in [Requests -> Doors] /\ d \in Doors /\ door'[r] = d /\ d # door[r]
  BY DEF GuardTypes, DoorMoves, Doors
<1>2. ~InFront(r) /\ guard'[r] = guard[r] /\ guard[r] \in {"passed", "out"}
  BY <1>1 DEF InFront
<1>3. /\ Token(r)' = Token(r) /\ (Bad(Token(r)) <=> Bad(Token(r))')
      /\ Anonymous(r)' = Anonymous(r) /\ Kind(r)' = Kind(r)
  BY DEF Token, Bad, Dead, DoorMoves, Anonymous, Kind
<1>4. asked \in Guarded /\ d = "passed" => Token(r) \in Accepted
  <2>1. d = "passed" => door[r] = "arriving" /\ Kind(r) # "past"
    BY DEF DoorMoves
  <2>2. QED
    BY <1>2, <2>1 DEF RequestOK
<1>5. d \in {"failing", "charging"} => Anonymous(r) \/ Bad(Token(r))
  <2>1. CASE d = "failing"
    <3>1. door[r] = "passed" /\ Token(r) \notin Accepted
      BY <2>1 DEF DoorMoves
    <3>2. asked \in Workloads \ Guarded
      BY <3>1 DEF RequestOK, GuardTypes
    <3>3. asked[r].token \notin Foreign
      BY <3>2, GuardAssumption
    <3>4. QED
      BY <3>1, <3>3 DEF Bad, Token
  <2>2. CASE d = "charging"
    BY <2>2 DEF DoorMoves, RequestOK
  <2>3. CASE d \notin {"failing", "charging"}
    BY <2>3
  <2>4. QED
    BY <2>1, <2>2, <2>3
<1>6. d # "arriving"
  BY DEF DoorMoves
<1>7. door' \in [Requests -> Doors]
  BY <1>1 DEF DoorMoves
<1>8. RequestOK(r)'
  BY <1>1, <1>2, <1>3, <1>4, <1>5, <1>6 DEF RequestOK, InFront
<1>9. QED
  BY <1>7, <1>8

(* Time passes, or a cleanup runs, or the gate does what is its own. *)
LEMMA RestKeepsInv ==
    ASSUME GuardInv, asked' = asked, clock' \in Int, clock' >= clock,
           guard' = guard, identity' = identity, verifying' = verifying,
           door' \in [Requests -> Doors],
           \A q \in Requests : RequestOK(q)',
           RefusalsAreFair', IsCache(cache) => Within(cache', cache)
    PROVE  GuardInv'
<1>1. GuardTypes'
  BY DEF GuardInv, GuardTypes
<1>2. VerificationsAreCounted'
  BY DEF GuardInv, VerificationsAreCounted
<1>3. asked \in Guarded => CacheHolds(cache')
  BY CacheStaysSane DEF GuardInv, CacheHolds
<1>4. (asked \in Guarded => CacheHolds(cache))'
  BY <1>3 DEF CacheHolds, Vouched, IsCache
<1>5. QED
  BY <1>1, <1>2, <1>4 DEF GuardInv

LEMMA OthersStay ==
    ASSUME GuardInv, asked' = asked, clock' \in Int, clock' >= clock,
           guard' = guard, identity' = identity, NEW q \in Requests, door'[q] = door[q]
    PROVE  RequestOK(q)'
BY BystanderOK DEF GuardInv, GuardTypes

LEMMA TimeKeepsFair ==
    ASSUME GuardInv, clock' \in Int, clock' >= clock, rejected' = rejected
    PROVE  RefusalsAreFair'
<1>1. \A t : Bad(t) => Bad(t)'
  BY BadStaysBad DEF GuardInv, GuardTypes
<1>2. \A t \in DOMAIN rejected : rejected[t].charged = TRUE => Bad(t)
  BY DEF GuardInv, RefusalsAreFair
<1>3. QED
  BY <1>1, <1>2 DEF RefusalsAreFair, Bad, Dead

LEMMA GateKeepsInv ==
    ASSUME GuardInv, GateNext
    PROVE  GuardInv'
<1>1. /\ asked' = asked /\ guard' = guard /\ identity' = identity /\ verifying' = verifying
      /\ cache' = cache /\ rejected' = rejected
      /\ \A r \in Requests : InFront(r) => door'[r] = door[r]
  BY BudgetsKeepAsked DEF GateNext, Next, budgetVars, guardVars
<1>2. /\ GuardTypes /\ clock \in Int /\ door \in [Requests -> Doors]
      /\ \A q \in Requests : RequestOK(q)
  BY DEF GuardInv, GuardTypes
<1>3. Within(cache', cache) \/ ~IsCache(cache)
  BY <1>1 DEF Within
<1>4. \/ \E r \in Requests : \E d : DoorMoves(r, d)
      \/ door' = door /\ clock' \in Int /\ clock' >= clock
  BY <1>2, BudgetsMoveDoors DEF GateNext, Next, budgetVars
<1>5. CASE \E r \in Requests : \E d : DoorMoves(r, d)
  <2>1. PICK r \in Requests : \E d : DoorMoves(r, d)
    BY <1>5
  <2>2. PICK d : DoorMoves(r, d)
    BY <2>1
  <2>3. clock' \in Int /\ clock' >= clock /\ \A q \in Requests : q # r => door'[q] = door[q]
    BY <1>2, <2>2 DEF DoorMoves
  <2>4. RequestOK(r)' /\ door' \in [Requests -> Doors]
    BY <1>1, <1>2, <2>2, DoorKeepsOK
  <2>5. \A q \in Requests : RequestOK(q)'
    <3>1. ASSUME NEW q \in Requests, q # r PROVE RequestOK(q)'
      BY <1>1, <2>3, <3>1, OthersStay
    <3>2. QED
      BY <2>4, <3>1
  <2>6. RefusalsAreFair'
    BY <1>1, <2>3, TimeKeepsFair
  <2>7. QED
    BY <1>1, <1>3, <2>3, <2>4, <2>5, <2>6, RestKeepsInv
<1>6. CASE door' = door /\ clock' \in Int /\ clock' >= clock
  <2>1. \A q \in Requests : RequestOK(q)'
    BY <1>1, <1>6, OthersStay
  <2>2. RefusalsAreFair'
    BY <1>1, <1>6, TimeKeepsFair
  <2>3. QED
    BY <1>1, <1>2, <1>3, <1>6, <2>1, <2>2, RestKeepsInv
<1>7. QED
  BY <1>4, <1>5, <1>6

LEMMA CleanupsKeepInv ==
    ASSUME GuardInv, CleanupCache \/ CleanupRejected \/ GuardTick \/ UNCHANGED allVars
    PROVE  GuardInv'
<1>1. /\ asked' = asked /\ guard' = guard /\ identity' = identity /\ verifying' = verifying
      /\ door' = door
  BY DEF CleanupCache, CleanupRejected, GuardTick, allVars, guardVars, vars, budgetVars
<1>2. clock \in Int /\ clock' \in Int /\ clock' >= clock /\ door' \in [Requests -> Doors]
  BY <1>1 DEF GuardInv, GuardTypes, CleanupCache, CleanupRejected, GuardTick, allVars, guardVars, vars, budgetVars
<1>3. \A q \in Requests : RequestOK(q)'
  BY <1>1, <1>2, OthersStay
<1>4. IsCache(cache) => Within(cache', cache)
  <2>1. IsCache(cache) => Within(cache, cache)
    BY DEF Within
  <2>2. cache' = cache \/ cache' = Cache!Swept(cache, clock)
    BY DEF CleanupCache, CleanupRejected, GuardTick, allVars, guardVars
  <2>3. QED
    BY <2>1, <2>2, SweptIsWithin
<1>5. RefusalsAreFair'
  <2>1. CASE CleanupRejected
    <3>1. clock' = clock /\ rejected' = Restrict(rejected, {t \in DOMAIN rejected : Remembered(t)})
      BY <2>1 DEF CleanupRejected, vars, budgetVars
    <3>2. QED
      BY <3>1, FewerStayFair DEF GuardInv
  <2>2. CASE ~CleanupRejected
    <3>1. rejected' = rejected
      BY <2>2 DEF CleanupCache, GuardTick, allVars, guardVars
    <3>2. QED
      BY <1>2, <3>1, TimeKeepsFair
  <2>3. QED
    BY <2>1, <2>2
<1>6. QED
  BY <1>1, <1>2, <1>3, <1>4, <1>5, RestKeepsInv

LEMMA GuardInvIsInductive ==
    ASSUME GuardInv, [GuardedNext]_allVars
    PROVE  GuardInv'
<1>1. ASSUME NEW r \in Requests, InFront(r), OfGuard(r) PROVE GuardInv'
  BY <1>1, GuardKeepsInv
<1>2. QED
  BY <1>1, GateKeepsInv, CleanupsKeepInv DEF GuardedNext, GuardNext, OfGuard

(* What the Puts of the requests that are past left of their tokens. *)
Past == {Token(r) : r \in {q \in Requests : Kind(q) = "past"}}

LeftIn(c, K, R) ==
    /\ K \subseteq Past /\ Cardinality(K) = Min({CacheCapacity, Cardinality(Past)})
    /\ Cache!Lists(R, K)
    /\ c.entries = [t \in K |-> [info |-> Identity(0, TTL), until |-> TTL]]
    /\ c.recency = R /\ c.soonest = IF K = {} THEN Cache!Zero ELSE TTL
    /\ IsCache(c)

LEMMA WhatIsLeft ==
    ASSUME NEW c \in LeftBehind
    PROVE  \E K, R : LeftIn(c, K, R)
<1> DEFINE Left(K, R) == [entries |-> [t \in K |-> [info |-> Identity(0, TTL), until |-> TTL]],
                          recency |-> R, soonest |-> IF K = {} THEN Cache!Zero ELSE TTL]
<1>1. PICK K \in {J \in SUBSET Past : Cardinality(J) = Min({CacheCapacity, Cardinality(Past)})} :
        c \in {Left(K, R) : R \in {O \in SUBSET (K \X K) : Cache!Lists(O, K)}}
  BY DEF LeftBehind, Past
<1>2. PICK R \in {O \in SUBSET (K \X K) : Cache!Lists(O, K)} : c = Left(K, R)
  BY <1>1
<1>3. LeftIn(c, K, R)
  <2>1. PICK e : e = [t \in K |-> [info |-> Identity(0, TTL), until |-> TTL]]
    OBVIOUS
  <2>2. PICK m : m = IF K = {} THEN Cache!Zero ELSE TTL
    OBVIOUS
  <2>3. c = [entries |-> e, recency |-> R, soonest |-> m]
    BY <1>2, <2>1, <2>2
  <2>4. c.entries = e /\ c.recency = R /\ c.soonest = m /\ IsCache(c)
    BY <2>3 DEF IsCache
  <2>5. QED
    BY <1>1, <1>2, <2>1, <2>2, <2>4 DEF LeftIn
<1>4. QED
  BY <1>3

(* They are the identities of accepted tokens that do not expire. *)
LEMMA GuardInvHoldsAtFirst == GuardedInit => GuardInv
<1> SUFFICES ASSUME GuardedInit PROVE GuardInv
  OBVIOUS
<1>1. /\ asked \in Workloads /\ clock = 0 /\ door = [r \in Requests |-> "arriving"]
      /\ guard = [r \in Requests |-> IF asked \notin Guarded THEN "passed"
                                    ELSE IF Kind(r) = "past" THEN "out" ELSE "asking"]
      /\ identity = [r \in Requests |-> NoIdentity]
      /\ asked \in Guarded => cache \in LeftBehind
      /\ rejected = <<>> /\ verifying = 0
  BY DEF GuardedInit, Init, BudgetsInit, GuardInit
<1>2. GuardTypes
  BY <1>1 DEF GuardTypes, Stages, Doors, NoIdentity, Never
<1>3. ASSUME NEW r \in Requests PROVE RequestOK(r)
  BY <1>1 DEF RequestOK, InFront
<1>4. RefusalsAreFair
  BY <1>1 DEF RefusalsAreFair
<1>5. VerificationsAreCounted
  <2>1. VerifyingNow = {}
    BY <1>1 DEF VerifyingNow, Verifying
  <2>2. Cardinality({}) = 0
    BY FS_EmptySet
  <2>3. VerifySlots \in Nat
    BY GuardAssumption
  <2>4. verifying = Cardinality(VerifyingNow) /\ verifying <= VerifySlots
    BY <1>1, <2>1, <2>2, <2>3
  <2>5. QED
    BY <2>4, CountedByStage
<1>6. ASSUME asked \in Guarded PROVE CacheHolds(cache)
  <2>1. PICK K, R : LeftIn(cache, K, R)
    BY <1>1, <1>6, WhatIsLeft
  <2>2. \A t \in K : t \in Accepted /\ DiesAt[t] = Endless
    BY <1>6, <2>1, GuardAssumption DEF LeftIn, Past, Token, Kind
  <2>3. IsCache(cache)
    BY <2>1 DEF LeftIn, IsCache
  <2>4. /\ Identity(0, TTL) \in [since : Int, dies : Int]
        /\ Identity(0, TTL).dies <= Identity(0, TTL).since + TTL
    BY GuardAssumption DEF Identity
  <2>5. \A t \in Cache!Held(cache) : t \in K /\ cache.entries[t].info = Identity(0, TTL)
    BY <2>1 DEF LeftIn, Cache!Held
  <2>6. \A t \in Cache!Held(cache) : t \in Accepted /\ Vouched(t, cache.entries[t].info)
    BY <2>2, <2>4, <2>5 DEF Vouched
  <2>7. QED
    BY <2>3, <2>6 DEF CacheHolds
<1>7. QED
  BY <1>2, <1>3, <1>4, <1>5, <1>6 DEF GuardInv

LEMMA GuardInvHolds == GuardedSpec => []GuardInv
<1>1. GuardInv /\ [GuardedNext]_allVars => GuardInv'
  BY GuardInvIsInductive
<1>2. QED
  BY <1>1, GuardInvHoldsAtFirst, PTL DEF GuardedSpec

(* What the gate's invariant speaks of is left alone by everything in front,
   where nobody has been let through yet.                                    *)
LEMMA SlotInvBehindGuard == GuardedSpec => []SlotInv
<1>1. GuardedInit => SlotInv
  BY SlotInvHoldsAtFirst DEF GuardedInit
<1>2. ASSUME SlotInv, GuardInv, [GuardedNext]_allVars PROVE SlotInv'
  <2>1. ASSUME NEW r \in Requests, InFront(r), OfGuard(r) PROVE SlotInv'
    <3>1. asked' = asked /\ entry' = entry /\ UNCHANGED slotVars
      BY <2>1, GuardFrame
    <3>2. PICK g, d, i : Sent(r, g, d, i)
      BY <1>2, <2>1, EveryStepSettles DEF Settles, Settled
    <3>3. door[r] = "arriving" /\ door' = [door EXCEPT ![r] = d]
      BY <1>2, <2>1, <3>2 DEF Sent, GuardInv, RequestOK
    <3>4. PlacesKept
      BY <1>2, <3>1, <3>3 DEF PlacesKept, SlotInv, AtTheDoor
    <3>5. QED
      BY <1>2, <3>1, <3>4, SlotInvStays
  <2>2. CASE CleanupCache \/ CleanupRejected \/ GuardTick \/ UNCHANGED allVars
    <3>1. UNCHANGED <<asked, door, entry>> /\ UNCHANGED slotVars
      BY <2>2 DEF CleanupCache, CleanupRejected, GuardTick, allVars, vars, budgetVars, pool
    <3>2. PlacesKept
      BY <3>1 DEF PlacesKept
    <3>3. QED
      BY <1>2, <3>1, <3>2, SlotInvStays
  <2>3. CASE GateNext
    BY <1>2, <2>3, SlotInvIsInductive DEF GateNext
  <2>4. QED
    BY <1>2, <2>1, <2>2, <2>3 DEF GuardedNext, GuardNext, OfGuard
<1>3. QED
  BY <1>1, <1>2, GuardInvHolds, PTL DEF GuardedSpec

-----------------------------------------------------------------------------

(* The slots of the gate are held behind the guard as they are without one. *)
THEOREM SlotsAreHeldBehindGuard == GuardedSpec => []SlotsAreHeld
<1>1. SlotInv => SlotsAreHeld
  BY DEF SlotInv
<1>2. QED
  BY <1>1, SlotInvBehindGuard, PTL

(* And no call or session goes uncounted there. *)
THEOREM CallsAreCountedBehindGuard == GuardedSpec => []CallsAreCounted
<1>1. SlotInv => CallsAreCounted
  BY HoldersCover
<1>2. QED
  BY <1>1, SlotInvBehindGuard, PTL

(* Every way out of a verification gives its slot back, and no more are taken
   than there are (verificationGate, the early returns of newGitLabVerifier). *)
THEOREM VerificationsKeepTheirSlots == GuardedSpec => []VerificationsAreCounted
<1>1. GuardInv => VerificationsAreCounted
  BY DEF GuardInv
<1>2. QED
  BY <1>1, GuardInvHolds, PTL

(* A token GitLab knows costs its address nothing, whether its refusal is fresh
   or remembered from another request, and whatever the gate behind makes of it
   (bearerGuard.classify, LookupRefusal, chargeFailure).                     *)
THEOREM GuessesAlonePay == GuardedSpec => []OnlyGuessesAreCharged
<1>1. GuardInv => OnlyGuessesAreCharged
  BY DEF GuardInv, RequestOK, OnlyGuessesAreCharged, Bad
<1>2. QED
  BY <1>1, GuardInvHolds, PTL

(* The guard has vouched for the identity it checks: the cache gives out what a
   verification stamped, and the SDK's clock is compared with that stamp.     *)
LEMMA CheckedInTime ==
    ASSUME GuardInv, [GuardedNext]_allVars, NEW r \in Requests,
           guard[r] = "checked", guard'[r] = "passed"
    PROVE  /\ clock <= identity[r].since + TTL
           /\ DiesAt[Token(r)] # Endless =>
                 \/ clock <= DiesAt[Token(r)]
                 \/ identity[r].since >= DiesAt[Token(r)] /\ clock <= identity[r].since + 1
<1>1. GuardTypes /\ RequestOK(r) /\ clock \in Int
  BY DEF GuardInv, GuardTypes
<1>2. Vouched(Token(r), identity[r]) /\ Token(r) \in Accepted
  BY <1>1 DEF RequestOK
<1>3. clock <= identity[r].dies
  <2>1. ASSUME NEW q \in Requests, OfGuard(q), InFront(q), q # r PROVE FALSE
    <3>1. Settles(q)
      BY <2>1, EveryStepSettles
    <3>2. guard'[r] = guard[r]
      BY <1>1, <2>1, <3>1, SentArrives DEF Settles, Settled
    <3>3. QED
      BY <3>2
  <2>2. guard' # guard
    OBVIOUS
  <2>3. OfGuard(r)
    BY <2>1, <2>2 DEF GuardedNext, GuardNext, GateNext, CleanupCache, CleanupRejected, GuardTick,
                      OfGuard, allVars, guardVars
  <2>4. SDKChecks(r)
    BY <2>3 DEF OfGuard, GuardAsks, Exempt, Recall, AskCache, AskCacheAtLast, AskCacheHolding, Acquire,
         AcquireLate, GiveUp, GitLabAccepts, GitLabRefuses, GitLabIsSilent, Stamp, ReadClock, Store,
         RememberInvalid, RememberRefused, Remember, Moves
  <2>5. QED
    BY <1>1, <2>4 DEF SDKChecks, Moves, GuardTypes
<1>4. PICK id : id = identity[r]
  OBVIOUS
<1>5. id.since \in Int /\ id.dies \in Int /\ TTL \in Int /\ DiesAt[Token(r)] \in Nat \cup {Endless}
  BY <1>2, <1>4, GuardAssumption, BudgetsAssumption DEF Vouched
<1>6. QED
  BY <1>1, <1>2, <1>3, <1>4, <1>5 DEF Vouched

(* Whoever is let through is let through on an identity GitLab vouched for no
   longer than the TTL ago and no later than its token's expiry, but for the
   one last tick of a token that died as it was verified (effectiveCacheTTL,
   admitToken, the SDK's check), whichever request verified it and whatever
   the cache dated its entry from.                                            *)
THEOREM NobodyIsServedLate == GuardedSpec => ServedInTime
<1>1. GuardInv /\ [GuardedNext]_allVars =>
        [\A r \in Requests : guard[r] = "checked" /\ guard'[r] = "passed" =>
            LET id == identity[r] IN
            /\ clock <= id.since + TTL
            /\ DiesAt[Token(r)] # Endless =>
                  \/ clock <= DiesAt[Token(r)]
                  \/ id.since >= DiesAt[Token(r)] /\ clock <= id.since + 1]_allVars
  BY CheckedInTime
<1>2. QED
  BY <1>1, GuardInvHolds, PTL DEF GuardedSpec, ServedInTime

-----------------------------------------------------------------------------
(* The order of the cache, and its room *)

(* A sound cache, in the numbers of the clock. *)
Sane(c) ==
    /\ IsCache(c) /\ Cache!Sound(c) /\ IsFiniteSet(Cache!Held(c))
    /\ c.soonest \in Nat \cup {Cache!Zero}
    /\ \A k \in Cache!Held(c) : c.entries[k].until \in Nat

(* The instance of FiniteSets the cache counts with is this module's. *)
LEMMA CacheCounts == \A S : Cache!Cardinality(S) = Cardinality(S)
BY DEF Cache!Cardinality, Cardinality

LEMMA SaneIsSound ==
    ASSUME NEW c
    PROVE  Sane(c) <=>
             /\ IsCache(c) /\ IsFiniteSet(Cache!Held(c)) /\ Cardinality(Cache!Held(c)) <= CacheCapacity
             /\ Cache!Lists(c.recency, Cache!Held(c))
             /\ c.soonest \in Nat \cup {Cache!Zero}
             /\ \A k \in Cache!Held(c) : /\ c.entries[k].until \in Nat
                                         /\ c.soonest # Cache!Zero /\ c.soonest <= c.entries[k].until
BY CacheCounts DEF Sane, Cache!Sound

LEMMA FewerListed ==
    ASSUME NEW R, NEW S, Cache!Lists(R, S), NEW T, T \subseteq S
    PROVE  Cache!Lists(R \cap (T \X T), T)
<1>1. R \cap (T \X T) \subseteq T \X T
  OBVIOUS
<1>2. \A j, k \in T : <<j, k>> \in R \cap (T \X T) <=> <<j, k>> \in R
  OBVIOUS
<1> HIDE DEF Cache!Lists
<1>3. QED
  BY <1>1, <1>2 DEF Cache!Lists

LEMMA FrontListed ==
    ASSUME NEW R, NEW S, Cache!Lists(R, S), NEW k
    PROVE  Cache!Lists(Cache!ToFront(R, S, k), S \cup {k})
<1>1. PICK others : others = S \ {k}
  OBVIOUS
<1>2. PICK Q : Q = (R \cap (others \X others)) \cup ({k} \X others)
  OBVIOUS
<1>3. Cache!ToFront(R, S, k) = Q
  BY <1>1, <1>2 DEF Cache!ToFront
<1>4. Cache!Lists(R \cap (others \X others), others)
  BY <1>1, FewerListed
<1>5. \A i, j \in S \cup {k} :
        <<i, j>> \in Q <=> \/ i = k /\ j # k
                           \/ i # k /\ j # k /\ <<i, j>> \in R
  BY <1>1, <1>2
<1>6. Q \subseteq (S \cup {k}) \X (S \cup {k})
  BY <1>1, <1>2
<1>7. ASSUME NEW i \in S \cup {k}, NEW j \in S \cup {k}
      PROVE  (<<i, j>> \in Q) = (i # j /\ <<j, i>> \notin Q)
  <2>1. i # k /\ j # k => (<<i, j>> \in R <=> i # j /\ <<j, i>> \notin R)
    BY DEF Cache!Lists
  <2>2. <<i, j>> \in Q <=> (i = k /\ j # k) \/ (i # k /\ j # k /\ <<i, j>> \in R)
    BY <1>5
  <2>3. <<j, i>> \in Q <=> (j = k /\ i # k) \/ (j # k /\ i # k /\ <<j, i>> \in R)
    BY <1>5
  <2>4. QED
    BY <2>1, <2>2, <2>3
<1>8. ASSUME NEW i \in S \cup {k}, NEW j \in S \cup {k}, NEW l \in S \cup {k},
             <<i, j>> \in Q, <<j, l>> \in Q
      PROVE  <<i, l>> \in Q
  <2>1. j # k /\ l # k /\ <<j, l>> \in R
    BY <1>5, <1>8
  <2>2. CASE i = k
    BY <1>5, <2>1, <2>2
  <2>3. CASE i # k
    <3>1. <<i, j>> \in R /\ i \in S /\ j \in S /\ l \in S
      BY <1>5, <1>8, <2>1, <2>3
    <3>2. <<i, l>> \in R
      BY <2>1, <3>1 DEF Cache!Lists
    <3>3. QED
      BY <1>5, <2>1, <2>3, <3>2
  <2>4. QED
    BY <2>2, <2>3
<1>9. QED
  BY <1>3, <1>6, <1>7, <1>8 DEF Cache!Lists

(* A list that is not empty has a last member, whatever its length: the one with
   the fewest behind it.                                                     *)
LEMMA ListHasBack ==
    ASSUME NEW R, NEW S, Cache!Lists(R, S), IsFiniteSet(S), S # {}
    PROVE  \E k \in S : \A j \in S \ {k} : <<j, k>> \in R
<1> DEFINE Behind(k) == {j \in S : <<k, j>> \in R}
           T == {Behind(k) : k \in S}
<1>1. T \subseteq FiniteSubsetsOf(S) /\ T # {}
  <2>1. \A k \in S : Behind(k) \in FiniteSubsetsOf(S)
    <3> SUFFICES ASSUME NEW k \in S PROVE Behind(k) \in FiniteSubsetsOf(S)
      OBVIOUS
    <3>1. Behind(k) \in SUBSET S
      OBVIOUS
    <3>2. IsFiniteSet(Behind(k))
      BY <3>1, FS_Subset
    <3>3. QED
      BY <3>1, <3>2 DEF FiniteSubsetsOf
  <2> HIDE DEF Behind
  <2>2. QED
    BY <2>1
<1>2. PICK B \in T : \A C \in T : <<C, B>> \notin StrictSubsetOrdering(S)
  BY <1>1, FS_StrictSubsetOrderingWellFounded, WFMin
<1>3. PICK k \in S : B = Behind(k)
  BY <1>2
<1>4. ASSUME NEW j \in S \ {k} PROVE <<j, k>> \in R
  <2>1. SUFFICES ASSUME <<j, k>> \notin R PROVE FALSE
    OBVIOUS
  <2>2. <<k, j>> \in R /\ <<j, j>> \notin R
    BY <1>4, <2>1 DEF Cache!Lists
  <2>3. Behind(j) \subseteq Behind(k) /\ Behind(j) # Behind(k)
    BY <1>4, <2>2 DEF Cache!Lists
  <2>4. <<Behind(j), B>> \in StrictSubsetOrdering(S)
    <3>1. <<Behind(j), B>>[1] = Behind(j) /\ <<Behind(j), B>>[2] = B
      OBVIOUS
    <3>2. Behind(j) \subseteq S /\ B \subseteq S
      BY <1>3
    <3>3. QED
      BY <1>3, <2>3, <3>1, <3>2 DEF StrictSubsetOrdering
  <2>5. QED
    BY <1>2, <1>4, <2>4
<1>5. QED
  BY <1>4

(* The earliest of instants there is. *)
LEMMA EarliestExists ==
    ASSUME NEW E, E \subseteq Nat, E # {}
    PROVE  /\ Cache!Min(E) \in E
           /\ \A e \in E : Cache!Min(E) <= e
<1>1. PICK n \in E : TRUE
  OBVIOUS
<1> DEFINE Until(e) == 0..e
           T == {Until(e) : e \in {d \in E : d <= n}}
<1>2. T \subseteq FiniteSubsetsOf(Until(n)) /\ T # {}
  <2>1. ASSUME NEW e \in E, e <= n PROVE Until(e) \in FiniteSubsetsOf(Until(n))
    <3>1. e \in Nat /\ n \in Nat
      OBVIOUS
    <3>2. Until(e) \in SUBSET Until(n)
      BY <2>1, <3>1
    <3>3. IsFiniteSet(Until(e))
      BY <3>1, FS_Interval
    <3>4. QED
      BY <3>2, <3>3 DEF FiniteSubsetsOf
  <2>2. n <= n
    BY <1>1
  <2> HIDE DEF Until
  <2>3. QED
    BY <2>1, <2>2
<1>3. IsFiniteSet(Until(n))
  BY FS_Interval
<1>4. PICK B \in T : \A C \in T : <<C, B>> \notin StrictSubsetOrdering(Until(n))
  BY <1>2, <1>3, FS_StrictSubsetOrderingWellFounded, WFMin
<1>5. PICK m \in E : m <= n /\ B = Until(m)
  BY <1>4
<1>6. ASSUME NEW e \in E PROVE m <= e
  <2>1. SUFFICES ASSUME e < m PROVE FALSE
    BY <1>6
  <2>2. e \in Nat /\ m \in Nat /\ n \in Nat /\ e <= n
    BY <1>5, <1>6, <2>1
  <2>3. Until(e) \subseteq Until(m) /\ Until(m) \subseteq Until(n) /\ Until(e) # Until(m)
    <3>1. m \in Until(m) /\ m \notin Until(e)
      BY <2>1, <2>2
    <3>2. QED
      BY <1>5, <2>1, <2>2, <3>1
  <2>4. <<Until(e), B>> \in StrictSubsetOrdering(Until(n))
    <3>1. <<Until(e), B>>[1] = Until(e) /\ <<Until(e), B>>[2] = B
      OBVIOUS
    <3> HIDE DEF Until
    <3>2. QED
      BY <1>5, <2>3, <3>1 DEF StrictSubsetOrdering
  <2>5. Until(e) \in T
    BY <1>6, <2>2
  <2>6. QED
    BY <1>4, <2>4, <2>5
<1>7. QED
  BY <1>6 DEF Cache!Min

(* What is left of a cache is held as it was, in the order it was. *)
LEMMA WithoutIsSane ==
    ASSUME NEW c, Sane(c), NEW K, NEW d, d = Cache!Without(c, K)
    PROVE  /\ Sane(d) /\ Cache!Held(d) = Cache!Held(c) \ K
           /\ d.soonest = c.soonest
           /\ \A k \in Cache!Held(d) : d.entries[k] = c.entries[k]
           /\ \A j, k \in Cache!Held(d) : <<j, k>> \in d.recency <=> <<j, k>> \in c.recency
           /\ Cardinality(Cache!Held(d)) <= Cardinality(Cache!Held(c))
<1>1. PICK S : S = Cache!Held(c)
  OBVIOUS
<1>2. PICK T : T = S \ K
  OBVIOUS
<1>3. PICK e : e = [k \in T |-> c.entries[k]]
  OBVIOUS
<1>4. Cache!Restrict(c.entries, T) = e
  BY <1>3 DEF Cache!Restrict
<1>5. d = [entries |-> e, recency |-> c.recency \cap (T \X T), soonest |-> c.soonest]
  BY <1>1, <1>2, <1>4 DEF Cache!Without
<1>6. /\ d.entries = e /\ d.recency = c.recency \cap (T \X T) /\ d.soonest = c.soonest /\ IsCache(d)
      /\ Cache!Held(d) = T
  BY <1>3, <1>5 DEF IsCache, Cache!Held
<1>7. Cache!Lists(c.recency, S) /\ IsFiniteSet(S) /\ Cardinality(S) <= CacheCapacity
  BY <1>1, SaneIsSound
<1>8. Cache!Lists(d.recency, T)
  BY <1>2, <1>6, <1>7, FewerListed
<1>9. IsFiniteSet(T) /\ Cardinality(T) <= Cardinality(S) /\ Cardinality(S) \in Nat /\ Cardinality(T) \in Nat
  BY <1>2, <1>7, FS_Subset, FS_CardinalityType
<1>10. Cardinality(T) <= CacheCapacity
  BY <1>7, <1>9, GuardAssumption
<1>11. \A k \in T : d.entries[k] = c.entries[k] /\ k \in S
  BY <1>2, <1>3, <1>6
<1>12. \A k \in T : /\ d.entries[k].until \in Nat
                    /\ d.soonest # Cache!Zero /\ d.soonest <= d.entries[k].until
  BY <1>1, <1>6, <1>11, SaneIsSound
<1>13. d.soonest \in Nat \cup {Cache!Zero}
  BY <1>6, SaneIsSound
<1>14. Sane(d)
  BY <1>6, <1>8, <1>9, <1>10, <1>12, <1>13, SaneIsSound
<1>15. \A j, k \in T : <<j, k>> \in d.recency <=> <<j, k>> \in c.recency
  BY <1>6
<1>16. QED
  BY <1>1, <1>2, <1>6, <1>9, <1>11, <1>14, <1>15

(* A Get lets nothing go that has not expired. *)
LEMMA GotIsSane ==
    ASSUME NEW c, Sane(c), NEW k, NEW now, NEW d, d = Cache!Got(c, k, now)
    PROVE  /\ Sane(d)
           /\ \A t \in Cache!Held(c) \ Cache!Held(d) : ~Cache!Fresh(c, t, now)
<1>1. CASE Cache!Fresh(c, k, now)
  <2>1. PICK R : R = Cache!ToFront(c.recency, Cache!Held(c), k)
    OBVIOUS
  <2>2. d = [c EXCEPT !.recency = R]
    BY <1>1, <2>1 DEF Cache!Got
  <2>3. d = [entries |-> c.entries, recency |-> R, soonest |-> c.soonest]
    BY <2>2 DEF Sane, IsCache
  <2>4. d.entries = c.entries /\ d.recency = R /\ d.soonest = c.soonest /\ IsCache(d)
    BY <2>3 DEF IsCache
  <2>5. Cache!Held(d) = Cache!Held(c) /\ k \in Cache!Held(c)
    BY <1>1, <2>4 DEF Cache!Held, Cache!Fresh
  <2>6. Cache!Lists(R, Cache!Held(c))
    <3>1. Cache!Held(c) \cup {k} = Cache!Held(c)
      BY <2>5
    <3>2. Cache!Lists(R, Cache!Held(c) \cup {k})
      BY <2>1, SaneIsSound, FrontListed
    <3>3. QED
      BY <3>1, <3>2
  <2>7. Sane(d)
    BY <2>4, <2>5, <2>6, SaneIsSound
  <2>8. QED
    BY <2>5, <2>7
<1>2. CASE ~Cache!Fresh(c, k, now)
  <2>1. d = Cache!Without(c, {k})
    BY <1>2 DEF Cache!Got
  <2>2. Sane(d) /\ Cache!Held(d) = Cache!Held(c) \ {k}
    BY <2>1, WithoutIsSane
  <2>3. QED
    BY <1>2, <2>2
<1>3. QED
  BY <1>1, <1>2

(* A sweep drops what has expired, all of it and nothing else, and soonest is
   that of what it leaves.                                                   *)
LEMMA SweptIsSane ==
    ASSUME NEW c, Sane(c), NEW now, NEW d, d = Cache!Swept(c, now)
    PROVE  /\ Sane(d)
           /\ Cache!Held(d) = {k \in Cache!Held(c) : ~Cache!Expired(now, c.entries[k].until)}
           /\ \A j, k \in Cache!Held(d) : <<j, k>> \in d.recency <=> <<j, k>> \in c.recency
<1>1. PICK K : K = {k \in Cache!Held(c) : Cache!Expired(now, c.entries[k].until)}
  OBVIOUS
<1>2. PICK kept : kept = Cache!Without(c, K)
  OBVIOUS
<1>3. PICK ends : ends = {kept.entries[k].until : k \in Cache!Held(kept)}
  OBVIOUS
<1>4. PICK m : m = IF ends = {} THEN Cache!Zero ELSE Cache!Min(ends)
  OBVIOUS
<1>5. d = [kept EXCEPT !.soonest = m]
  BY <1>1, <1>2, <1>3, <1>4 DEF Cache!Swept
<1>6. /\ Sane(kept) /\ Cache!Held(kept) = Cache!Held(c) \ K
      /\ \A j, k \in Cache!Held(kept) : <<j, k>> \in kept.recency <=> <<j, k>> \in c.recency
  BY <1>2, WithoutIsSane
<1>7. d = [entries |-> kept.entries, recency |-> kept.recency, soonest |-> m]
  BY <1>5, <1>6 DEF Sane, IsCache
<1>8. d.entries = kept.entries /\ d.recency = kept.recency /\ d.soonest = m /\ IsCache(d)
  BY <1>7 DEF IsCache
<1>9. Cache!Held(d) = Cache!Held(kept)
  BY <1>8 DEF Cache!Held
<1>10. \A k \in Cache!Held(kept) : kept.entries[k].until \in Nat
  BY <1>6, SaneIsSound
<1>11. \A k \in Cache!Held(kept) : m \in Nat /\ m <= kept.entries[k].until
  <2>1. ends \subseteq Nat /\ \A k \in Cache!Held(kept) : kept.entries[k].until \in ends
    BY <1>3, <1>10
  <2>2. ASSUME ends # {} PROVE m \in ends /\ \A e \in ends : m <= e
    BY <1>4, <2>1, <2>2, EarliestExists
  <2>3. QED
    BY <2>1, <2>2
<1>12. m \in Nat \cup {Cache!Zero}
  BY <1>3, <1>4, <1>11
<1>13. Cache!Zero \notin Nat
  BY DEF Cache!Zero
<1>14. \A k \in Cache!Held(d) : /\ d.entries[k].until \in Nat
                                /\ d.soonest # Cache!Zero /\ d.soonest <= d.entries[k].until
  BY <1>8, <1>9, <1>10, <1>11, <1>13
<1>15. Sane(d)
  BY <1>6, <1>8, <1>9, <1>12, <1>14, SaneIsSound
<1>16. QED
  BY <1>1, <1>6, <1>8, <1>9, <1>15

(* A full cache has room made in it, of what has expired, or else of the one
   used least recently, and then nothing it holds has expired.               *)
Sacrificed(c, t, now) ==
    /\ Cardinality(Cache!Held(c)) = CacheCapacity /\ t \in Cache!Back(c)
    /\ \A u \in Cache!Held(c) : Cache!Fresh(c, u, now)

LEMMA RoomIsMade ==
    ASSUME NEW c, Sane(c), NEW now \in Nat, NEW d, d = Cache!WithRoom(c, now)
    PROVE  /\ Sane(d) /\ Cardinality(Cache!Held(d)) < CacheCapacity
           /\ Cache!Held(d) \subseteq Cache!Held(c)
           /\ \A t \in Cache!Held(c) \ Cache!Held(d) : Cache!Fresh(c, t, now) => Sacrificed(c, t, now)
<1>1. PICK s : s = IF Cache!Expired(now, c.soonest) THEN Cache!Swept(c, now) ELSE c
  OBVIOUS
<1>2. Sane(c) /\ CacheCapacity \in Nat /\ CacheCapacity >= 1
  BY GuardAssumption
<1>3. /\ Sane(s) /\ Cache!Held(s) = {k \in Cache!Held(c) : ~Cache!Expired(now, c.entries[k].until)}
      /\ \A j, k \in Cache!Held(s) : <<j, k>> \in s.recency <=> <<j, k>> \in c.recency
  <2>1. CASE Cache!Expired(now, c.soonest)
    BY <1>1, <2>1, SweptIsSane
  <2>2. CASE ~Cache!Expired(now, c.soonest)
    <3>1. s = c
      BY <1>1, <2>2
    <3>2. \A k \in Cache!Held(c) : ~Cache!Expired(now, c.entries[k].until)
      BY <2>2, SaneIsSound DEF Cache!Expired
    <3>3. QED
      BY <3>1, <3>2
  <2>3. QED
    BY <2>1, <2>2
<1>4. PICK S : S = Cache!Held(c)
  OBVIOUS
<1>5. PICK T : T = Cache!Held(s)
  OBVIOUS
<1>6. /\ IsFiniteSet(S) /\ Cardinality(S) \in Nat /\ Cardinality(S) <= CacheCapacity
      /\ IsFiniteSet(T) /\ Cardinality(T) \in Nat /\ T \subseteq S
  BY <1>3, <1>4, <1>5, SaneIsSound, FS_CardinalityType
<1>7. \A t \in S : Cache!Fresh(c, t, now) <=> t \in T
  BY <1>3, <1>4, <1>5 DEF Cache!Fresh
<1>8. CASE Cardinality(T) < CacheCapacity
  <2>1. d = s
    BY <1>1, <1>5, <1>8, CacheCounts DEF Cache!WithRoom
  <2>2. QED
    BY <1>3, <1>4, <1>5, <1>6, <1>7, <1>8, <2>1
<1>9. CASE ~(Cardinality(T) < CacheCapacity)
  <2>1. d = Cache!Without(s, Cache!Back(s))
    BY <1>1, <1>5, <1>9, CacheCounts DEF Cache!WithRoom
  <2>2. T = S
    <3>1. CASE T = S
      BY <3>1
    <3>2. CASE T # S
      <4>1. Cardinality(T) < Cardinality(S)
        BY <1>6, <3>2, FS_Subset
      <4>2. QED
        BY <1>2, <1>6, <1>9, <4>1
    <3>3. QED
      BY <3>1, <3>2
  <2>3. Cardinality(S) = CacheCapacity
    BY <1>2, <1>6, <1>9, <2>2
  <2>4. Cache!Back(s) = Cache!Back(c)
    BY <1>3, <1>4, <1>5, <2>2 DEF Cache!Back
  <2>5. Sane(d) /\ Cache!Held(d) = T \ Cache!Back(s)
    BY <1>3, <1>5, <2>1, WithoutIsSane
  <2>6. PICK b \in T : b \in Cache!Back(s)
    <3>1. Cache!Lists(s.recency, T)
      BY <1>3, <1>5, SaneIsSound
    <3>2. T # {}
      <4>1. Cardinality({}) = 0
        BY FS_EmptySet
      <4>2. QED
        BY <1>2, <2>2, <2>3, <4>1
    <3>3. \E k \in T : \A j \in T \ {k} : <<j, k>> \in s.recency
      BY <1>6, <3>1, <3>2, ListHasBack
    <3>4. QED
      BY <1>5, <3>3 DEF Cache!Back
  <2>7. Cardinality(Cache!Held(d)) < CacheCapacity
    <3>1. Cache!Held(d) \subseteq T \ {b}
      BY <2>5, <2>6
    <3>2. IsFiniteSet(T \ {b}) /\ Cardinality(T \ {b}) = Cardinality(T) - 1
      BY <1>6, <2>6, FS_RemoveElement
    <3>3. Cardinality(Cache!Held(d)) <= Cardinality(T \ {b})
      BY <3>1, <3>2, FS_Subset
    <3>4. IsFiniteSet(Cache!Held(d)) /\ Cardinality(Cache!Held(d)) \in Nat
      BY <2>5, SaneIsSound, FS_CardinalityType
    <3>5. QED
      BY <1>2, <1>6, <2>2, <2>3, <3>2, <3>3, <3>4
  <2>8. \A t \in S \ Cache!Held(d) : Sacrificed(c, t, now)
    BY <1>4, <1>7, <2>2, <2>3, <2>4, <2>5 DEF Sacrificed
  <2>9. QED
    BY <1>4, <2>2, <2>5, <2>7, <2>8
<1>10. QED
  BY <1>8, <1>9

(* A Put sacrifices one live identity at most, to make room. *)
LEMMA PutIsSane ==
    ASSUME NEW c, Sane(c), NEW k, NEW e, e.until \in Nat, NEW now \in Nat, NEW d, d = Cache!Put(c, k, e, now)
    PROVE  /\ Sane(d)
           /\ \A t \in Cache!Held(c) \ Cache!Held(d) : Cache!Fresh(c, t, now) => Sacrificed(c, t, now)
<1>1. PICK room : room = IF k \in Cache!Held(c) \/ Cardinality(Cache!Held(c)) < CacheCapacity
                         THEN c ELSE Cache!WithRoom(c, now)
  OBVIOUS
<1>2. /\ Sane(room) /\ Cache!Held(room) \subseteq Cache!Held(c)
      /\ k \in Cache!Held(room) \/ Cardinality(Cache!Held(room)) < CacheCapacity
      /\ \A t \in Cache!Held(c) \ Cache!Held(room) : Cache!Fresh(c, t, now) => Sacrificed(c, t, now)
  <2>1. CASE k \in Cache!Held(c) \/ Cardinality(Cache!Held(c)) < CacheCapacity
    BY <1>1, <2>1
  <2>2. CASE ~(k \in Cache!Held(c) \/ Cardinality(Cache!Held(c)) < CacheCapacity)
    BY <1>1, <2>2, RoomIsMade
  <2>3. QED
    BY <2>1, <2>2
<1>3. PICK S : S = Cache!Held(room)
  OBVIOUS
<1>4. PICK T : T = S \cup {k}
  OBVIOUS
<1>5. PICK f : f = [j \in T |-> IF j = k THEN e ELSE room.entries[j]]
  OBVIOUS
<1>6. PICK R : R = Cache!ToFront(room.recency, S, k)
  OBVIOUS
<1>7. PICK b : b = [entries |-> f, recency |-> R, soonest |-> room.soonest]
  OBVIOUS
<1>8. d = Cache!Noted(b, e.until)
  BY <1>1, <1>3, <1>4, <1>5, <1>6, <1>7, CacheCounts DEF Cache!Put
<1>9. b.entries = f /\ b.recency = R /\ b.soonest = room.soonest
  BY <1>7
<1>10. PICK m : m = IF room.soonest = Cache!Zero \/ e.until < room.soonest THEN e.until ELSE room.soonest
  OBVIOUS
<1>11. d = [entries |-> f, recency |-> R, soonest |-> m]
  <2>1. CASE room.soonest = Cache!Zero \/ e.until < room.soonest
    <3>1. d = [b EXCEPT !.soonest = e.until]
      BY <1>8, <1>9, <2>1 DEF Cache!Noted
    <3>2. QED
      BY <1>7, <1>10, <2>1, <3>1
  <2>2. CASE ~(room.soonest = Cache!Zero \/ e.until < room.soonest)
    BY <1>7, <1>8, <1>9, <1>10, <2>2 DEF Cache!Noted
  <2>3. QED
    BY <2>1, <2>2
<1>12. d.entries = f /\ d.recency = R /\ d.soonest = m /\ IsCache(d) /\ Cache!Held(d) = T
  BY <1>5, <1>11 DEF IsCache, Cache!Held
<1>13. /\ IsFiniteSet(S) /\ Cardinality(S) \in Nat /\ Cardinality(S) <= CacheCapacity
       /\ Cache!Lists(room.recency, S) /\ room.soonest \in Nat \cup {Cache!Zero}
       /\ \A j \in S : /\ room.entries[j].until \in Nat
                       /\ room.soonest # Cache!Zero /\ room.soonest <= room.entries[j].until
  BY <1>2, <1>3, SaneIsSound, FS_CardinalityType
<1>14. CacheCapacity \in Nat /\ Cache!Zero \notin Nat
  BY GuardAssumption DEF Cache!Zero
<1>15. IsFiniteSet(T) /\ Cardinality(T) <= CacheCapacity
  <2>1. CASE k \in S
    <3>1. T = S
      BY <1>4, <2>1
    <3>2. QED
      BY <1>13, <3>1
  <2>2. CASE k \notin S
    <3>1. IsFiniteSet(T) /\ Cardinality(T) = Cardinality(S) + 1
      BY <1>4, <1>13, <2>2, FS_AddElement
    <3>2. QED
      BY <1>2, <1>3, <1>13, <1>14, <2>2, <3>1
  <2>3. QED
    BY <2>1, <2>2
<1>16. Cache!Lists(R, T)
  BY <1>4, <1>6, <1>13, FrontListed
<1>17. \A j \in T : f[j].until \in Nat /\ ((j = k /\ f[j] = e) \/ (j \in S /\ f[j] = room.entries[j]))
  BY <1>4, <1>5, <1>13
<1>18. m \in Nat /\ m <= e.until /\ \A j \in S : m <= room.entries[j].until
  BY <1>10, <1>13, <1>14
<1>19. \A j \in T : f[j].until \in Nat /\ m # Cache!Zero /\ m <= f[j].until
  BY <1>14, <1>17, <1>18
<1>20. Sane(d)
  BY <1>12, <1>15, <1>16, <1>18, <1>19, SaneIsSound
<1>21. QED
  BY <1>2, <1>3, <1>4, <1>12, <1>20

-----------------------------------------------------------------------------
(* What becomes of the cache *)

(* An entry outlives the reading of the clock it is dated from. *)
Alive(id) == id.since < id.dies

ReadOK(r) ==
    /\ reading[r] \in (0..clock) \cup {Never}
    /\ guard[r] = "putting" => reading[r] # Never
    /\ identity[r] = NoIdentity \/ Alive(identity[r])
    /\ guard[r] \in {"stamped", "putting"} => identity[r] # NoIdentity

CacheInv ==
    /\ clock \in 0..MaxClock /\ reading \in [Requests -> Int]
    /\ \A r \in Requests : ReadOK(r)
    /\ Sane(cache) /\ \A t \in Cache!Held(cache) : t \in Accepted /\ Alive(cache.entries[t].info)

(* What a step may do to the cache. *)
CacheStep ==
    \/ cache' = cache
    \/ cache' = Cache!Swept(cache, clock)
    \/ \E r \in Requests : cache' = Cache!Got(cache, Token(r), clock) \/ Store(r)

LEMMA StepsOnCache ==
    ASSUME [GuardedNext]_allVars
    PROVE  CacheStep
<1>1. ASSUME NEW r \in Requests, OfGuard(r) PROVE CacheStep
  BY <1>1 DEF CacheStep, OfGuard, GuardAsks, Exempt, Recall, AskCache, AskCacheAtLast, AskCacheHolding,
       Acquire, AcquireLate, GiveUp, GitLabAccepts, GitLabRefuses, GitLabIsSilent, Stamp, ReadClock,
       RememberInvalid, RememberRefused, Remember, SDKChecks
<1>2. CASE GateNext \/ CleanupCache \/ CleanupRejected \/ GuardTick \/ UNCHANGED allVars
  BY <1>2 DEF CacheStep, GateNext, CleanupCache, CleanupRejected, GuardTick, allVars, guardVars
<1>3. QED
  BY <1>1, <1>2 DEF GuardedNext, GuardNext, OfGuard

(* The entry a Put stores. *)
LEMMA StoredIsDated ==
    ASSUME CacheInv, GuardInv, NEW r \in Requests, Store(r)
    PROVE  \E e : /\ cache' = Cache!Put(cache, Token(r), e, reading[r])
                  /\ e.info = identity[r] /\ e.until \in Nat
                  /\ reading[r] \in 0..clock /\ Alive(identity[r]) /\ Token(r) \in Accepted
<1>1. guard[r] = "putting" /\ ReadOK(r) /\ RequestOK(r) /\ GuardTypes /\ clock \in Nat
  BY DEF Store, CacheInv, GuardInv
<1>2. reading[r] \in 0..clock /\ Alive(identity[r]) /\ Token(r) \in Accepted
  BY <1>1 DEF ReadOK, RequestOK
<1>3. PICK id : id = identity[r]
  OBVIOUS
<1>4. id.since \in Int /\ id.dies \in Int /\ id.since < id.dies
  BY <1>1, <1>2, <1>3 DEF GuardTypes, Alive
<1>5. PICK e : e = [info |-> id, until |-> reading[r] + (id.dies - id.since)]
  OBVIOUS
<1>6. e.info = identity[r] /\ e.until = reading[r] + (id.dies - id.since)
  BY <1>3, <1>5
<1>7. e.until \in Nat
  BY <1>1, <1>2, <1>4, <1>6
<1>8. cache' = Cache!Put(cache, Token(r), e, reading[r])
  BY <1>3, <1>5 DEF Store
<1>9. QED
  BY <1>2, <1>6, <1>7, <1>8

LEMMA HeldStaySane ==
    ASSUME CacheInv, GuardInv, [GuardedNext]_allVars
    PROVE  /\ Sane(cache')
           /\ \A t \in Cache!Held(cache') : t \in Accepted /\ Alive(cache'.entries[t].info)
<1>1. Sane(cache) /\ IsCache(cache) /\ \A t \in Cache!Held(cache) : t \in Accepted /\ Alive(cache.entries[t].info)
  BY DEF CacheInv, Sane
<1>2. CASE cache' = cache
  BY <1>1, <1>2
<1>3. CASE cache' = Cache!Swept(cache, clock)
  BY <1>1, <1>3, SweptIsSane, SweptIsWithin DEF Within
<1>4. ASSUME NEW r \in Requests, cache' = Cache!Got(cache, Token(r), clock)
      PROVE  /\ Sane(cache')
             /\ \A t \in Cache!Held(cache') : t \in Accepted /\ Alive(cache'.entries[t].info)
  BY <1>1, <1>4, GotIsSane, GotIsWithin DEF Within
<1>5. ASSUME NEW r \in Requests, Store(r)
      PROVE  /\ Sane(cache')
             /\ \A t \in Cache!Held(cache') : t \in Accepted /\ Alive(cache'.entries[t].info)
  <2>1. PICK e : /\ cache' = Cache!Put(cache, Token(r), e, reading[r])
                 /\ e.info = identity[r] /\ e.until \in Nat
                 /\ reading[r] \in 0..clock /\ Alive(identity[r]) /\ Token(r) \in Accepted
    BY <1>5, StoredIsDated
  <2>2. reading[r] \in Nat
    BY <2>1
  <2>3. Sane(cache')
    BY <1>1, <2>1, <2>2, PutIsSane
  <2>4. \A t \in Cache!Held(cache') :
           \/ t = Token(r) /\ cache'.entries[t] = e
           \/ t \in Cache!Held(cache) /\ cache'.entries[t] = cache.entries[t]
    BY <1>1, <2>1, PutAddsOne
  <2>5. QED
    BY <1>1, <2>1, <2>3, <2>4
<1>6. QED
  BY <1>2, <1>3, <1>4, <1>5, StepsOnCache DEF CacheStep

(* What a verification that is over leaves a request with. *)
LEMMA VerifiedIsAlive ==
    ASSUME GuardTypes, NEW r \in Requests, NEW id, Alive(id), Verified(r, id)
    PROVE  /\ guard'[r] \notin {"stamped", "putting"}
           /\ identity'[r] = NoIdentity \/ Alive(identity'[r])
BY DEF Verified, GuardTypes

LEMMA StampedIsAlive ==
    ASSUME clock \in Nat, NEW t \in Accepted
    PROVE  Alive(Identity(clock, EffectiveTTL(t)))
<1>1. TTL \in Nat /\ TTL >= 1 /\ DiesAt[t] \in Nat \cup {Endless} /\ Endless \notin Nat
  BY GuardAssumption, BudgetsAssumption
<1>2. EffectiveTTL(t) \in Nat /\ EffectiveTTL(t) >= 1
  <2>1. CASE DiesAt[t] = Endless \/ Dead(t)
    BY <1>1, <2>1 DEF EffectiveTTL
  <2>2. CASE ~(DiesAt[t] = Endless \/ Dead(t))
    <3>1. PICK d : d = DiesAt[t]
      OBVIOUS
    <3>2. d \in Nat /\ clock < d
      BY <1>1, <2>2, <3>1 DEF Dead
    <3>3. EffectiveTTL(t) = Min({TTL, d - clock})
      BY <2>2, <3>1 DEF EffectiveTTL
    <3>4. d - clock \in Nat /\ d - clock >= 1
      BY <3>2
    <3>5. Min({TTL, d - clock}) \in {TTL, d - clock}
      <4>1. PICK n : n = d - clock
        OBVIOUS
      <4>2. TTL \in Int /\ n \in Int
        BY <1>1, <3>4, <4>1
      <4>3. Min({TTL, n}) \in {TTL, n}
        BY <4>2, LeastOfTwo
      <4>4. QED
        BY <4>1, <4>3
    <3>6. QED
      BY <1>1, <3>3, <3>4, <3>5
  <2>3. QED
    BY <2>1, <2>2
<1>3. PICK n : n = EffectiveTTL(t)
  OBVIOUS
<1>4. Identity(clock, n).since = clock /\ Identity(clock, n).dies = clock + n
  BY DEF Identity
<1>5. QED
  BY <1>2, <1>3, <1>4 DEF Alive

(* The request that moves. *)
LEMMA MoverReads ==
    ASSUME CacheInv, GuardInv, NEW r \in Requests, InFront(r), OfGuard(r)
    PROVE  ReadOK(r)' /\ reading' \in [Requests -> Int]
<1>1. /\ GuardTypes /\ ReadOK(r) /\ RequestOK(r) /\ clock \in Nat /\ clock' = clock
      /\ reading \in [Requests -> Int] /\ asked' = asked
  BY GuardFrame DEF CacheInv, GuardInv
<1>2. CASE ReadClock(r)
  BY <1>1, <1>2 DEF ReadClock, Moves, GuardTypes, ReadOK, Alive, Never
<1>3. CASE Stamp(r)
  <2>1. Token(r) \in Accepted
    BY <1>1, <1>3 DEF Stamp, Moves, RequestOK
  <2>2. PICK id : id = Identity(clock, EffectiveTTL(Token(r)))
    OBVIOUS
  <2>3. Alive(id)
    BY <1>1, <2>1, <2>2, StampedIsAlive
  <2>4. id # NoIdentity
    BY <2>3 DEF Alive, NoIdentity, Never
  <2>5. guard'[r] = "stamped" /\ identity'[r] = id /\ reading' = reading
    BY <1>1, <1>3, <2>2 DEF Stamp, Moves, GuardTypes
  <2>6. QED
    BY <1>1, <2>3, <2>4, <2>5 DEF ReadOK, Alive
<1>4. ASSUME NEW id, Alive(id), Verified(r, id), reading' = reading \/ reading' = [reading EXCEPT ![r] = Never]
      PROVE  ReadOK(r)' /\ reading' \in [Requests -> Int]
  <2>1. /\ guard'[r] \notin {"stamped", "putting"}
        /\ identity'[r] = NoIdentity \/ Alive(identity'[r])
    BY <1>1, <1>4, VerifiedIsAlive
  <2>2. reading'[r] \in {reading[r], Never} /\ reading' \in [Requests -> Int]
    BY <1>1, <1>4 DEF Never
  <2>3. QED
    BY <1>1, <2>1, <2>2 DEF ReadOK, Alive
<1>5. CASE Store(r)
  <2>1. PICK id : id = identity[r]
    OBVIOUS
  <2>2. Alive(id) /\ Verified(r, id) /\ reading' = [reading EXCEPT ![r] = Never]
    BY <1>1, <1>5, <2>1 DEF Store, ReadOK
  <2>3. QED
    BY <1>4, <2>2
<1>6. CASE reading' = reading /\ identity' = identity /\ guard'[r] \notin {"stamped", "putting"}
  BY <1>1, <1>6 DEF ReadOK, Alive
<1>7. CASE AskCache(r) \/ AskCacheAtLast(r) \/ AskCacheHolding(r)
  <2>1. reading' = reading
    BY <1>7 DEF AskCache, AskCacheAtLast, AskCacheHolding
  <2>2. CASE Cache!Fresh(cache, Token(r), clock)
    <3>1. PICK id : id = cache.entries[Token(r)].info
      OBVIOUS
    <3>2. Verified(r, id)
      BY <1>7, <2>2, <3>1 DEF AskCache, AskCacheAtLast, AskCacheHolding
    <3>3. Alive(id)
      BY <2>2, <3>1 DEF CacheInv, Cache!Fresh
    <3>4. QED
      BY <1>4, <2>1, <3>2, <3>3
  <2>3. CASE ~Cache!Fresh(cache, Token(r), clock)
    BY <1>1, <1>6, <1>7, <2>1, <2>3 DEF AskCache, AskCacheAtLast, AskCacheHolding, Unverified, GuardTypes
  <2>4. QED
    BY <2>2, <2>3
<1>8. CASE GuardAsks(r) \/ Exempt(r) \/ Recall(r) \/ Acquire(r) \/ AcquireLate(r) \/ GiveUp(r)
  BY <1>1, <1>6, <1>8 DEF GuardAsks, Exempt, Recall, Acquire, AcquireLate, GiveUp, Moves, GuardTypes
<1>9. CASE GitLabAccepts(r) \/ GitLabRefuses(r) \/ GitLabIsSilent(r)
  BY <1>1, <1>6, <1>9 DEF GitLabAccepts, GitLabRefuses, GitLabIsSilent, Unverified, Moves, GuardTypes
<1>10. CASE RememberInvalid(r) \/ RememberRefused(r) \/ SDKChecks(r)
  BY <1>1, <1>6, <1>10 DEF RememberInvalid, RememberRefused, Remember, SDKChecks, Moves, GuardTypes
<1>11. QED
  BY <1>2, <1>3, <1>5, <1>7, <1>8, <1>9, <1>10 DEF OfGuard

(* The others, and time. *)
LEMMA BystanderReads ==
    ASSUME NEW q \in Requests, ReadOK(q), clock \in Nat, clock' \in Nat, clock' >= clock,
           guard'[q] = guard[q], identity'[q] = identity[q], reading'[q] = reading[q]
    PROVE  ReadOK(q)'
BY DEF ReadOK, Alive

LEMMA ReadingsStay ==
    ASSUME NEW r \in Requests, OfGuard(r), reading \in [Requests -> Int]
    PROVE  \A q \in Requests : q # r => reading'[q] = reading[q]
BY DEF OfGuard, GuardAsks, Exempt, Recall, AskCache, AskCacheAtLast, AskCacheHolding,
       Acquire, AcquireLate, GiveUp, GitLabAccepts, GitLabRefuses, GitLabIsSilent, Stamp, ReadClock,
       Store, RememberInvalid, RememberRefused, Remember, SDKChecks

(* Only time moves the clock, within the bound. *)
LEMMA ClockStaysBounded ==
    ASSUME clock \in 0..MaxClock, [GuardedNext]_allVars
    PROVE  clock' \in 0..MaxClock /\ clock' >= clock
<1>1. MaxClock \in Nat /\ clock \in Nat
  BY BudgetsAssumption
<1>2. clock' = clock \/ (clock < MaxClock /\ clock' = clock + 1)
  <2>1. ASSUME NEW r \in Requests, OfGuard(r) PROVE clock' = clock
    BY <2>1, GuardFrame
  <2>2. CASE CleanupCache \/ CleanupRejected \/ GuardTick \/ UNCHANGED allVars
    BY <2>2 DEF CleanupCache, CleanupRejected, GuardTick, allVars, vars, budgetVars
  <2>3. CASE BudgetsNext
    BY <2>3 DEF BudgetsNext, AskBudgets, Admit, Reject, TurnAway, ChargeFailure, ChargeDistinct,
                CleanupFailures, CleanupDistinct, Tick, Forget
  <2>4. CASE UNCHANGED budgetVars
    BY <2>4 DEF budgetVars
  <2>5. QED
    BY <2>1, <2>2, <2>3, <2>4 DEF GuardedNext, GuardNext, OfGuard, GateNext, Next
<1>3. QED
  BY <1>1, <1>2

LEMMA CacheInvIsInductive ==
    ASSUME CacheInv, GuardInv, [GuardedNext]_allVars
    PROVE  CacheInv'
<1>1. /\ clock \in 0..MaxClock /\ clock' \in 0..MaxClock /\ clock \in Nat /\ clock' \in Nat /\ clock' >= clock
      /\ reading \in [Requests -> Int] /\ \A q \in Requests : ReadOK(q)
  BY ClockStaysBounded DEF CacheInv
<1>2. (\A q \in Requests : ReadOK(q)') /\ reading' \in [Requests -> Int]
  <2>1. ASSUME NEW r \in Requests, InFront(r), OfGuard(r)
        PROVE  (\A q \in Requests : ReadOK(q)') /\ reading' \in [Requests -> Int]
    <3>1. PICK g, d, i : Sent(r, g, d, i)
      BY <2>1, EveryStepSettles DEF Settles, Settled
    <3>2. ASSUME NEW q \in Requests, q # r PROVE ReadOK(q)'
      <4>1. guard'[q] = guard[q] /\ identity'[q] = identity[q]
        BY <3>1, <3>2, SentArrives DEF GuardInv
      <4>2. reading'[q] = reading[q]
        BY <1>1, <2>1, <3>2, ReadingsStay
      <4>3. QED
        BY <1>1, <4>1, <4>2, BystanderReads
    <3>3. QED
      BY <2>1, <3>2, MoverReads
  <2>2. CASE guard' = guard /\ identity' = identity /\ reading' = reading
    BY <1>1, <2>2, BystanderReads
  <2>3. CASE GateNext \/ CleanupCache \/ CleanupRejected \/ GuardTick \/ UNCHANGED allVars
    BY <2>2, <2>3 DEF GateNext, CleanupCache, CleanupRejected, GuardTick, allVars, guardVars
  <2>4. QED
    BY <2>1, <2>3 DEF GuardedNext, GuardNext, OfGuard
<1>3. /\ Sane(cache')
      /\ \A t \in Cache!Held(cache') : t \in Accepted /\ Alive(cache'.entries[t].info)
  BY HeldStaySane
<1>4. Sane(cache)' /\ (\A t \in Cache!Held(cache) : t \in Accepted /\ Alive(cache.entries[t].info))'
  BY <1>3 DEF Sane, IsCache, Cache!Held, Cache!Sound, Cache!Lists, Cache!Zero, Alive
<1>5. QED
  BY <1>1, <1>2, <1>4 DEF CacheInv

LEMMA CacheInvHoldsAtFirst == GuardedInit => CacheInv
<1> SUFFICES ASSUME GuardedInit PROVE CacheInv
  OBVIOUS
<1>1. /\ clock = 0 /\ identity = [r \in Requests |-> NoIdentity]
      /\ reading = [r \in Requests |-> Never]
      /\ guard = [r \in Requests |-> IF asked \notin Guarded THEN "passed"
                                    ELSE IF Kind(r) = "past" THEN "out" ELSE "asking"]
      /\ IF asked \in Guarded THEN cache \in LeftBehind ELSE cache = Cache!Empty
  BY DEF GuardedInit, Init, BudgetsInit, GuardInit
<1>2. clock \in 0..MaxClock
  BY <1>1, BudgetsAssumption
<1>3. reading \in [Requests -> Int] /\ \A r \in Requests : ReadOK(r)
  BY <1>1 DEF ReadOK, Never
<1>4. /\ CacheCapacity \in Nat /\ CacheCapacity >= 1 /\ TTL \in Nat /\ TTL >= 1
      /\ Cache!Zero \notin Nat
  BY GuardAssumption DEF Cache!Zero
<1>5. CASE asked \in Guarded
  <2>1. PICK K, R : LeftIn(cache, K, R)
    BY <1>1, <1>5, WhatIsLeft
  <2>2. PICK id : id = Identity(0, TTL)
    OBVIOUS
  <2>3. Alive(id)
    <3>1. id.since = 0 /\ id.dies = 0 + TTL
      BY <2>2 DEF Identity
    <3>2. QED
      BY <1>4, <3>1 DEF Alive
  <2>4. /\ IsCache(cache) /\ Cache!Held(cache) = K /\ cache.recency = R
        /\ cache.soonest = IF K = {} THEN Cache!Zero ELSE TTL
        /\ \A t \in K : cache.entries[t].info = id /\ cache.entries[t].until = TTL
    BY <2>1, <2>2 DEF LeftIn, Cache!Held
  <2>5. Past \subseteq Accepted /\ IsFiniteSet(Past)
    <3>1. Past \subseteq Accepted
      BY <1>5, GuardAssumption DEF Past, Token, Kind
    <3>2. PICK Q : Q = {q \in Requests : Kind(q) = "past"}
      OBVIOUS
    <3>3. IsFiniteSet(Q)
      BY <3>2, BudgetsFiniteAssumption, FS_Subset
    <3>4. IsFiniteSet({Token(r) : r \in Q})
      <4>1. PICK f : f = [r \in Q |-> Token(r)]
        OBVIOUS
      <4>2. PICK T : T = {Token(r) : r \in Q}
        OBVIOUS
      <4>3. f \in Surjection(Q, T)
        BY <4>1, <4>2 DEF Surjection
      <4>4. QED
        BY <3>3, <4>2, <4>3, FS_Surjection
    <3>5. QED
      BY <3>1, <3>2, <3>4 DEF Past
  <2>6. IsFiniteSet(K) /\ Cardinality(K) <= CacheCapacity /\ K \subseteq Accepted
    <3>1. K \subseteq Past /\ Cardinality(K) = Min({CacheCapacity, Cardinality(Past)})
      BY <2>1 DEF LeftIn
    <3>2. Cardinality(Past) \in Nat
      BY <2>5, FS_CardinalityType
    <3>3. PICK n \in Int : n = Cardinality(Past)
      BY <3>2
    <3>4. Min({CacheCapacity, n}) <= CacheCapacity
      <4>1. CacheCapacity \in Int
        BY <1>4
      <4>2. QED
        BY <4>1, LeastOfTwo
    <3>5. QED
      BY <2>5, <3>1, <3>3, <3>4, FS_Subset
  <2>7. Cache!Lists(cache.recency, K)
    BY <2>1, <2>4 DEF LeftIn
  <2>8. cache.soonest \in Nat \cup {Cache!Zero}
    BY <1>4, <2>4
  <2>9. \A t \in K : /\ cache.entries[t].until \in Nat
                     /\ cache.soonest # Cache!Zero /\ cache.soonest <= cache.entries[t].until
    BY <1>4, <2>4
  <2>10. Sane(cache)
    BY <2>4, <2>6, <2>7, <2>8, <2>9, SaneIsSound
  <2>11. QED
    BY <1>1, <1>2, <1>3, <2>3, <2>4, <2>6, <2>10 DEF CacheInv
<1>6. CASE asked \notin Guarded
  <2>1. cache = [entries |-> <<>>, recency |-> {}, soonest |-> Cache!Zero]
    BY <1>1, <1>6 DEF Cache!Empty
  <2>2. IsCache(cache) /\ Cache!Held(cache) = {} /\ cache.recency = {} /\ cache.soonest = Cache!Zero
    BY <2>1 DEF IsCache, Cache!Held
  <2>3. Cache!Lists({}, {})
    BY DEF Cache!Lists
  <2>4. IsFiniteSet({}) /\ Cardinality({}) = 0
    BY FS_EmptySet
  <2>5. Sane(cache)
    BY <1>4, <2>2, <2>3, <2>4, SaneIsSound
  <2>6. QED
    BY <1>1, <1>2, <1>3, <2>2, <2>5 DEF CacheInv
<1>7. QED
  BY <1>5, <1>6

LEMMA CacheInvHolds == GuardedSpec => []CacheInv
<1>1. GuardInv /\ CacheInv /\ [GuardedNext]_allVars => CacheInv'
  BY CacheInvIsInductive
<1>2. QED
  BY <1>1, CacheInvHoldsAtFirst, GuardInvHolds, PTL DEF GuardedSpec

(* The cache is within its capacity, ordered as one list, and never thinks that
   nothing has expired when something has, through Puts that overtake each
   other, refreshes, sweeps and the expiries a Get meets (TokenCache).       *)
THEOREM TheCacheIsSound == GuardedSpec => []CacheIsSound
<1>1. CacheInv => CacheIsSound
  BY DEF CacheInv, Sane, CacheIsSound
<1>2. QED
  BY <1>1, CacheInvHolds, PTL

(* A live identity that goes was sacrificed by a Put. *)
LEMMA LiveStayHeld ==
    ASSUME CacheInv, GuardInv, [GuardedNext]_allVars,
           NEW t \in Cache!Held(cache) \ Cache!Held(cache'), Cache!Fresh(cache, t, clock)
    PROVE  /\ Cardinality(Cache!Held(cache)) = CacheCapacity
           /\ t \in Cache!Back(cache)
           /\ \E r \in Requests :
               /\ guard[r] = "putting" /\ guard'[r] # "putting"
               /\ \A u \in Cache!Held(cache) : Cache!Fresh(cache, u, reading[r])
<1>1. Sane(cache) /\ clock \in Nat
  BY DEF CacheInv
<1>2. CASE cache' = cache
  BY <1>2
<1>3. CASE cache' = Cache!Swept(cache, clock)
  BY <1>1, <1>3, SweptIsSane DEF Cache!Fresh
<1>4. CASE \E r \in Requests : cache' = Cache!Got(cache, Token(r), clock)
  BY <1>1, <1>4, GotIsSane
<1>5. ASSUME NEW r \in Requests, Store(r)
      PROVE  /\ Sacrificed(cache, t, reading[r])
             /\ guard[r] = "putting" /\ guard'[r] # "putting"
  <2>1. PICK e : /\ cache' = Cache!Put(cache, Token(r), e, reading[r])
                 /\ e.info = identity[r] /\ e.until \in Nat
                 /\ reading[r] \in 0..clock /\ Alive(identity[r]) /\ Token(r) \in Accepted
    BY <1>5, StoredIsDated
  <2>2. reading[r] \in Nat /\ reading[r] <= clock
    BY <1>1, <2>1
  <2>3. Cache!Fresh(cache, t, reading[r])
    <3>1. cache.entries[t].until \in Nat
      BY <1>1 DEF Sane
    <3>2. QED
      BY <1>1, <2>2, <3>1 DEF Cache!Fresh, Cache!Expired
  <2>4. Sacrificed(cache, t, reading[r])
    BY <1>1, <2>1, <2>2, <2>3, PutIsSane
  <2>5. guard[r] = "putting" /\ guard'[r] # "putting"
    BY <1>5, <2>1, VerifiedIsAlive DEF Store, GuardInv
  <2>6. QED
    BY <2>4, <2>5
<1>6. QED
  BY <1>2, <1>3, <1>4, <1>5, StepsOnCache DEF CacheStep, Sacrificed

(* A live identity goes only as the least recently used of a full cache, and
   only when nothing there had expired as the Put that needs the room read its
   clock (makeRoomLocked).                                                   *)
THEOREM TheLiveAreSpared == GuardedSpec => LiveAreSpared
<1>1. CacheInv /\ GuardInv /\ [GuardedNext]_allVars =>
        [\A t \in Cache!Held(cache) \ Cache!Held(cache') :
           Cache!Fresh(cache, t, clock) =>
             /\ Cardinality(Cache!Held(cache)) = CacheCapacity
             /\ t \in Cache!Back(cache)
             /\ \E r \in Requests :
                 /\ guard[r] = "putting" /\ guard'[r] # "putting"
                 /\ \A u \in Cache!Held(cache) : Cache!Fresh(cache, u, reading[r])]_allVars
  BY LiveStayHeld
<1>2. QED
  BY <1>1, CacheInvHolds, GuardInvHolds, PTL DEF GuardedSpec, LiveAreSpared
===============================================================================
