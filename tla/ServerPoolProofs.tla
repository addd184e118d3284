--------------------------- MODULE ServerPoolProofs ---------------------------
(***************************************************************************)
(* The safety properties of ServerPool, for every number of credentials,   *)
(* shapes and calls and every choice of what happens around the pool: the  *)
(* map, the LRU list and the states of the credentials never disagree, no  *)
(* entry of a failed registration is pooled, no probe slot leaks, nobody   *)
(* is told an ending that is not true, and size pressure spares work.      *)
(***************************************************************************)
EXTENDS ServerPool, FiniteSetTheorems, WellFoundedInduction, TLAPS

(* A call names its key as it starts, and what it found, was handed and waits
   on stays what it was.  An entry is pooled by the request that built it, once. *)
CallOK(r) ==
    /\ (pc[r] = "idle") = (Key(r) = None)
    /\ pc[r] \in {"hit", "rejected", "stale"} => arg[r].cached # None
    /\ pc[r] = "rejected" => entry[arg[r].cached].rejected
    /\ arg[r].cached # None => entry[arg[r].cached].inserted
    /\ arg[r].result # None => entry[arg[r].result].inserted
    /\ pc[r] = "joined" => arg[r].leader # None
    /\ pc[r] = "insert" => entry[r].server # None
    /\ entry[r].inserted => pc[r] \in {"built", "done"}
    /\ entry[r].cause # "none" => entry[r].inserted

(* The list is in the order of last use. *)
ByUse ==
    /\ \A e \in Requests : entry[e].used <= now
    /\ \A a, b \in linked : <<a, b>> \in ahead => entry[a].used >= entry[b].used

(* The registry knows no server whose registration has failed. *)
KnownServers ==
    \A x \in Shapes : shapes[x] # None => reg[shapes[x]] \in {"running", "ready", "failing"}

(* What a check that is under way has learned is still true when it is used. *)
CheckOK(e) ==
    /\ entry[e].rejected => e \in refused
    /\ e \in evicting => e \in refused
    /\ confirm[e] # "idle" => entry[e].inserted /\ entry[e].cooling
    /\ confirm[e] = "refused" => e \in refused
    /\ confirm[e] = "belowMinimum" => gitlab[Key(e)] = "below"
    /\ e \in sweep.todo \/ e = sweep.at => entry[e].inserted

SweepOK ==
    sweep.step = "belowMinimum" => sweep.at # None /\ gitlab[Key(sweep.at)] = "below"

CallInv   == \A r \in Requests : CallOK(r)
CheckInv  == SweepOK /\ \A e \in Requests : CheckOK(e)
PoolInv   == /\ TypeOK /\ ProbesAreHeld /\ CallInv
             /\ PoolIsLinked /\ ByUse
             /\ KnownServers /\ PoisonedNeverCached
             /\ CheckInv /\ EndingsAreTrue

USE PoolAssumption, PoolOptionsAssumption

-----------------------------------------------------------------------------
(* Lists in order: A says of the members of L which is ahead of which. *)

LineUp(A, L) ==
    /\ A \subseteq L \X L
    /\ \A a, b \in L : (<<a, b>> \in A) = (a # b /\ <<b, a>> \notin A)
    /\ \A a, b, c \in L : <<a, b>> \in A /\ <<b, c>> \in A => <<a, c>> \in A

LEMMA LineUpIsOrder ==
    ASSUME NEW A, NEW L
    PROVE  LineUp(A, L) <=> A \in Orders(L) /\ Linear(A)
<1>1. ASSUME LineUp(A, L) PROVE A \in Orders(L) /\ Linear(A)
  <2>1. A \in Orders(L)
    BY <1>1 DEF LineUp, Orders
  <2>2. SUFFICES ASSUME NEW p \in A, NEW q \in A, p[2] = q[1] PROVE <<p[1], q[2]>> \in A
    BY <2>1 DEF Linear
  <2>3. /\ p[1] \in L /\ p[2] \in L /\ q[2] \in L
        /\ <<p[1], p[2]>> \in A /\ <<p[2], q[2]>> \in A
    BY <1>1, <2>2 DEF LineUp
  <2>4. QED
    BY <1>1, <2>3 DEF LineUp
<1>2. ASSUME A \in Orders(L), Linear(A) PROVE LineUp(A, L)
  <2>1. A \subseteq L \X L /\ \A a, b \in L : (<<a, b>> \in A) = (a # b /\ <<b, a>> \notin A)
    BY <1>2 DEF Orders
  <2>2. ASSUME NEW a \in L, NEW b \in L, NEW c \in L, <<a, b>> \in A, <<b, c>> \in A
        PROVE  <<a, c>> \in A
    <3>1. <<a, b>>[2] = <<b, c>>[1] /\ <<a, b>>[1] = a /\ <<b, c>>[2] = c
      OBVIOUS
    <3>2. QED
      BY <1>2, <2>2, <3>1 DEF Linear
  <2>3. QED
    BY <2>1, <2>2 DEF LineUp
<1>3. QED
  BY <1>1, <1>2

LEMMA WithoutMembers ==
    ASSUME NEW E, NEW a, NEW b
    PROVE  <<a, b>> \in Without(E) <=> <<a, b>> \in ahead /\ a \notin E /\ b \notin E
<1>1. <<a, b>>[1] = a /\ <<a, b>>[2] = b
  OBVIOUS
<1>2. QED
  BY <1>1 DEF Without

(* Taking members away leaves a list in order. *)
LEMMA WithoutStaysOrdered ==
    ASSUME NEW E, LineUp(ahead, linked)
    PROVE  LineUp(Without(E), linked \ E)
<1>1. Without(E) \subseteq (linked \ E) \X (linked \ E)
  BY DEF Without, LineUp
<1>2. QED
  BY <1>1, WithoutMembers DEF LineUp

(* Putting one list in front of another gives a list. *)
LEMMA StackedIsOrdered ==
    ASSUME NEW A, NEW L, NEW B, NEW M, LineUp(A, L), LineUp(B, M), L \cap M = {}
    PROVE  LineUp(A \cup B \cup (M \X L), L \cup M)
<1> DEFINE S == A \cup B \cup (M \X L)
<1>1. S \subseteq (L \cup M) \X (L \cup M)
  BY DEF LineUp
<1>2. ASSUME NEW a, NEW b
      PROVE  <<a, b>> \in S <=> \/ <<a, b>> \in A /\ a \in L /\ b \in L
                                \/ <<a, b>> \in B /\ a \in M /\ b \in M
                                \/ a \in M /\ b \in L
  BY DEF LineUp
<1> HIDE DEF S
<1>3. ASSUME NEW a \in L \cup M, NEW b \in L \cup M
      PROVE  (<<a, b>> \in S) = (a # b /\ <<b, a>> \notin S)
  BY <1>2 DEF LineUp
<1>4. ASSUME NEW a \in L \cup M, NEW b \in L \cup M, NEW c \in L \cup M,
             <<a, b>> \in S, <<b, c>> \in S
      PROVE  <<a, c>> \in S
  BY <1>2, <1>4 DEF LineUp
<1>5. LineUp(S, L \cup M)
  BY <1>1, <1>3, <1>4 DEF LineUp
<1>6. QED
  BY <1>5 DEF S

LEMMA OneIsOrdered ==
    ASSUME NEW e
    PROVE  LineUp({}, {e})
BY DEF LineUp

(* A list that is not empty has a last member, whatever its length. *)
LEMMA BackExists ==
    ASSUME NEW S, IsFiniteSet(S), S # {}, S \subseteq linked, LineUp(ahead, linked)
    PROVE  Back(S) # {}
<1> DEFINE Behind(e) == {d \in S : <<e, d>> \in ahead}
           T == {Behind(e) : e \in S}
<1>1. T \subseteq FiniteSubsetsOf(S) /\ T # {}
  <2>1. \A e \in S : Behind(e) \in FiniteSubsetsOf(S)
    <3> SUFFICES ASSUME NEW e \in S PROVE Behind(e) \in FiniteSubsetsOf(S)
      OBVIOUS
    <3>1. Behind(e) \in SUBSET S
      OBVIOUS
    <3>2. IsFiniteSet(Behind(e))
      BY <3>1, FS_Subset
    <3>3. QED
      BY <3>1, <3>2 DEF FiniteSubsetsOf
  <2> HIDE DEF Behind
  <2>2. QED
    BY <2>1
<1>2. PICK B \in T : \A C \in T : <<C, B>> \notin StrictSubsetOrdering(S)
  BY <1>1, FS_StrictSubsetOrderingWellFounded, WFMin
<1>3. PICK e \in S : B = Behind(e)
  BY <1>2
<1>4. ASSUME NEW d \in S \ {e} PROVE <<d, e>> \in ahead
  <2>1. SUFFICES ASSUME <<d, e>> \notin ahead PROVE FALSE
    OBVIOUS
  <2>2. <<e, d>> \in ahead /\ <<d, d>> \notin ahead
    BY <1>4, <2>1 DEF LineUp
  <2>3. Behind(d) \subseteq Behind(e) /\ Behind(d) # Behind(e)
    BY <1>4, <2>2 DEF LineUp
  <2>4. <<Behind(d), B>> \in StrictSubsetOrdering(S)
    <3>1. <<Behind(d), B>>[1] = Behind(d) /\ <<Behind(d), B>>[2] = B
      OBVIOUS
    <3>2. Behind(d) \subseteq S /\ B \subseteq S
      BY <1>3
    <3>3. QED
      BY <1>3, <2>3, <3>1, <3>2 DEF StrictSubsetOrdering
  <2>5. QED
    BY <1>2, <1>4, <2>4
<1>5. QED
  BY <1>4 DEF Back

(* Room is made in a full list: whoever goes is a member of it. *)
LEMMA RoomIsMade ==
    ASSUME IsFiniteSet(linked), LineUp(ahead, linked), Cardinality(linked) <= MaxSize
    PROVE  /\ Evicted \subseteq linked
           /\ Cardinality(linked \ Evicted) <= MaxSize - 1
<1>1. LruVictim \subseteq linked
  BY DEF LruVictim, Back
<1>2. ASSUME Cardinality(linked) >= MaxSize
      PROVE  LruVictim # {}
  <2>1. linked # {}
    BY <1>2, FS_EmptySet
  <2>2. IsFiniteSet(linked \ busy)
    BY FS_Difference
  <2>3. CASE linked \subseteq busy
    BY <2>1, <2>3, BackExists DEF LruVictim
  <2>4. CASE ~(linked \subseteq busy)
    BY <2>2, <2>4, BackExists DEF LruVictim
  <2>5. QED
    BY <2>3, <2>4
<1>3. CASE Cardinality(linked) >= MaxSize
  <2>1. PICK v \in linked : v \in Evicted
    BY <1>1, <1>2, <1>3 DEF Evicted
  <2>2. IsFiniteSet(linked \ {v}) /\ Cardinality(linked \ {v}) = Cardinality(linked) - 1
    BY FS_RemoveElement
  <2>3. Cardinality(linked \ Evicted) <= Cardinality(linked \ {v})
    BY <2>1, <2>2, FS_Subset
  <2>4. Cardinality(linked) \in Nat /\ Cardinality(linked \ Evicted) \in Nat
    BY FS_CardinalityType, FS_Difference
  <2>5. QED
    BY <1>1, <1>3, <2>2, <2>3, <2>4 DEF Evicted
<1>4. CASE ~(Cardinality(linked) >= MaxSize)
  <2>1. Evicted = {} /\ linked \ Evicted = linked
    BY <1>4 DEF Evicted
  <2>2. Cardinality(linked) \in Nat
    BY FS_CardinalityType
  <2>3. QED
    BY <1>4, <2>1, <2>2
<1>5. QED
  BY <1>3, <1>4

-----------------------------------------------------------------------------
(* What a step does to the map and the list *)

KeysStay ==
    \A e \in Requests : /\ arg'[e].key \in Keys \cup {None}
                        /\ Key(e) # None => arg'[e].key = arg[e].key

(* Nobody joins or leaves, and nobody moves. *)
Stays ==
    /\ UNCHANGED <<entries, linked, ahead, states>>
    /\ now' \in 0 .. MaxTime /\ now <= now'
    /\ entry' \in [Requests -> Entry]
    /\ \A e \in Requests :
        /\ entry'[e].inserted = entry[e].inserted
        /\ entry'[e].cause = entry[e].cause
        /\ entry'[e].used = entry[e].used
        /\ entry[e].rejected => entry'[e].rejected
        /\ entry'[e].rejected => entry[e].rejected \/ NamedRefusal(e) \/ ConfirmAnswered(e)
        /\ entry[e].cooling /\ confirm[e] # "idle" => entry'[e].cooling
        /\ entry[e].inserted => entry'[e].server = entry[e].server
        /\ entry[e].server # None => entry'[e].server # None
    /\ KeysStay

(* Who goes deserves what is said of it. *)
Deserved(E, c) ==
    /\ c = "rejected_credential" => E \subseteq refused
    /\ c = "below_minimum" => \A e \in E : gitlab[Key(e)] = "below"
    /\ c # "size_pressure"

Drops(E, c) ==
    /\ E \subseteq Pooled /\ c \in Cause /\ (c = "none" => E = {})
    /\ Deserved(E, c)
    /\ DropEntries(E, c)
    /\ UNCHANGED <<now, arg>>

Touches(e) ==
    /\ e \in Requests /\ entry[e].inserted
    /\ ahead' = InFront(e)
    /\ entry' = [entry EXCEPT ![e].used = now]
    /\ UNCHANGED <<now, entries, linked, states, busy>>
    /\ KeysStay

KindsOfStep ==
    \/ Stays
    \/ \E E \in SUBSET Requests, c \in Cause : Drops(E, c)
    \/ \E e \in Requests : Touches(e)
    \/ \E r \in Requests : Insert(r) \/ InsertRefused(r)
    \/ IdleSweep

LEMMA StaysAsItWas ==
    ASSUME TypeOK, UNCHANGED <<entries, linked, ahead, states, entry>>, KeysStay,
           now' \in 0 .. MaxTime, now <= now'
    PROVE  Stays
BY DEF Stays, TypeOK

LEMMA SameKeys ==
    ASSUME PoolInv, UNCHANGED arg
    PROVE  KeysStay
<1>1. arg \in [Requests -> Arg]
  BY DEF PoolInv, TypeOK
<1>2. QED
  BY <1>1 DEF KeysStay, Arg

LEMMA ResultNamesNoKey ==
    ASSUME TypeOK, NEW r \in Requests, NEW x, Built(r, x)
    PROVE  KeysStay
<1>1. arg \in [Requests -> Arg] /\ arg' = [arg EXCEPT ![r].result = x]
  BY DEF TypeOK, Built
<1>2. ASSUME NEW e \in Requests
      PROVE  arg'[e].key = arg[e].key /\ arg[e].key \in Keys \cup {None}
  BY <1>1 DEF Arg
<1>3. QED
  BY <1>2 DEF KeysStay

LEMMA TimeHolds ==
    ASSUME TypeOK, now' = now
    PROVE  now' \in 0 .. MaxTime /\ now <= now'
BY DEF TypeOK

(* Pooled entries were inserted, by requests that named a key. *)
LEMMA PooledAreInserted ==
    ASSUME TypeOK, PoolIsLinked, NEW k \in Keys, entries[k] # None
    PROVE  /\ entries[k] \in Requests /\ Key(entries[k]) = k
           /\ Current(entries[k]) /\ entry[entries[k]].inserted
<1>1. entries[k] \in Requests /\ Key(entries[k]) = k
  BY DEF TypeOK, PoolIsLinked
<1>2. Current(entries[k])
  BY <1>1 DEF Current
<1>3. QED
  BY <1>1, <1>2 DEF PoolIsLinked

LEMMA NamedKeys ==
    ASSUME TypeOK, NEW r \in Requests, CallOK(r), pc[r] # "idle"
    PROVE  Key(r) \in Keys
BY DEF TypeOK, CallOK, Key, Arg

(* The entry a call has been handed was inserted. *)
LEMMA InHandIsInserted ==
    ASSUME TypeOK, CallInv, NEW e \in Requests, InHand(e)
    PROVE  entry[e].inserted /\ Admitted(e) /\ Key(e) \in Keys
<1>1. PICK r \in Requests : arg[r].result = e
  BY DEF InHand
<1>2. entry[e].inserted
  BY <1>1 DEF CallInv, CallOK
<1>3. pc[e] \in {"built", "done"}
  BY <1>2 DEF CallInv, CallOK
<1>4. QED
  BY <1>2, <1>3, NamedKeys DEF Admitted, CallInv

(* The steps that leave entries, list and states alone. *)
LEMMA LookupStays ==
    ASSUME PoolInv, NEW r \in Requests, NEW k \in Keys, Lookup(r, k)
    PROVE  Stays
<1>1. arg \in [Requests -> Arg] /\ TypeOK
  BY DEF PoolInv, TypeOK
<1>2. \A e \in Requests : e # r => arg'[e] = arg[e]
  BY <1>1 DEF Lookup
<1>3. Key(r) = None
  BY DEF PoolInv, CallInv, CallOK, Lookup
<1>4. KeysStay
  <2>1. \A e \in Requests : arg[e].key \in Keys \cup {None}
    BY <1>1 DEF Arg
  <2>2. arg'[r].key = k
    BY <1>1 DEF Lookup, Arg
  <2>3. QED
    BY <1>2, <1>3, <2>1, <2>2 DEF KeysStay
<1>5. QED
  BY <1>1, <1>4, StaysAsItWas, TimeHolds DEF Lookup, clocks, pool, owned

LEMMA JoinStays ==
    ASSUME PoolInv, NEW r \in Requests, Join(r) \/ JoinerReturns(r)
    PROVE  Stays
<1>1. arg \in [Requests -> Arg] /\ TypeOK
  BY DEF PoolInv, TypeOK
<1>2. ASSUME NEW e \in Requests
      PROVE  arg'[e].key = arg[e].key /\ arg[e].key \in Keys \cup {None}
  BY <1>1 DEF Join, JoinerReturns, Arg
<1>3. KeysStay
  BY <1>2 DEF KeysStay
<1>4. QED
  BY <1>1, <1>3, StaysAsItWas, TimeHolds DEF Join, JoinerReturns, clocks, pool, owned

LEMMA LeadStays ==
    ASSUME PoolInv, NEW r \in Requests, Lead(r) \/ NoSlot(r) \/ BuildFails(r)
    PROVE  Stays
<1>1. TypeOK
  BY DEF PoolInv
<1>2. KeysStay
  BY <1>1, SameKeys, ResultNamesNoKey DEF Lead, NoSlot, BuildFails
<1>3. QED
  BY <1>1, <1>2, StaysAsItWas, TimeHolds DEF Lead, NoSlot, BuildFails, clocks, pool, owned

(* Steps that mark one entry, or the entries of one key. *)
LEMMA MarkStays ==
    ASSUME TypeOK, NEW f \in [Requests -> Entry], entry' = f, KeysStay,
           UNCHANGED <<entries, linked, ahead, states, now>>,
           \A e \in Requests :
              /\ f[e].inserted = entry[e].inserted /\ f[e].cause = entry[e].cause
              /\ f[e].used = entry[e].used
              /\ entry[e].rejected => f[e].rejected
              /\ f[e].rejected => entry[e].rejected \/ NamedRefusal(e) \/ ConfirmAnswered(e)
              /\ entry[e].cooling /\ confirm[e] # "idle" => f[e].cooling
              /\ entry[e].inserted => f[e].server = entry[e].server
              /\ entry[e].server # None => f[e].server # None
    PROVE  Stays
BY TimeHolds DEF Stays

LEMMA VerifyStays ==
    ASSUME PoolInv, NEW r \in Requests, Verify(r)
    PROVE  Stays
<1>1. TypeOK /\ entry \in [Requests -> Entry]
  BY DEF PoolInv, TypeOK
<1>2. UNCHANGED <<entries, linked, ahead, states, now>>
  BY DEF Verify, clocks, pool, owned
<1>3. KeysStay
  BY <1>1, SameKeys, ResultNamesNoKey DEF Verify
<1>4. CASE UNCHANGED entry
  BY <1>1, <1>2, <1>3, <1>4, StaysAsItWas, TimeHolds
<1>5. CASE \E j \in BOOLEAN : entry' = [entry EXCEPT ![r].judged = j]
  <2>1. PICK j \in BOOLEAN : entry' = [entry EXCEPT ![r].judged = j]
    BY <1>5
  <2>2. entry' \in [Requests -> Entry]
    BY <1>1, <2>1 DEF Entry
  <2>3. \A e \in Requests : /\ entry'[e].inserted = entry[e].inserted
                            /\ entry'[e].cause = entry[e].cause
                            /\ entry'[e].used = entry[e].used
                            /\ entry'[e].rejected = entry[e].rejected
                            /\ entry'[e].cooling = entry[e].cooling
                            /\ entry'[e].server = entry[e].server
    BY <1>1, <2>1 DEF Entry
  <2>4. QED
    BY <1>1, <1>2, <1>3, <2>2, <2>3, MarkStays
<1>6. QED
  BY <1>4, <1>5 DEF Verify

LEMMA LearnFactsStays ==
    ASSUME PoolInv, NEW r \in Requests, LearnFacts(r)
    PROVE  Stays
<1>1. TypeOK /\ entry \in [Requests -> Entry]
  BY DEF PoolInv, TypeOK
<1>2. UNCHANGED <<entries, linked, ahead, states, now>>
  BY DEF LearnFacts, clocks, pool, owned
<1>3. KeysStay
  BY <1>1, SameKeys, ResultNamesNoKey DEF LearnFacts
<1>4. CASE UNCHANGED entry
  BY <1>1, <1>2, <1>3, <1>4, StaysAsItWas, TimeHolds
<1>5. CASE entry' = [entry EXCEPT ![r].kindUnknown = TRUE]
  <2>2. entry' \in [Requests -> Entry]
    BY <1>1, <1>5 DEF Entry
  <2>3. \A e \in Requests : /\ entry'[e].inserted = entry[e].inserted
                            /\ entry'[e].cause = entry[e].cause
                            /\ entry'[e].used = entry[e].used
                            /\ entry'[e].rejected = entry[e].rejected
                            /\ entry'[e].cooling = entry[e].cooling
                            /\ entry'[e].server = entry[e].server
    BY <1>1, <1>5 DEF Entry
  <2>4. QED
    BY <1>1, <1>2, <1>3, <2>2, <2>3, MarkStays
<1>6. QED
  BY <1>4, <1>5 DEF LearnFacts

LEMMA TakeServerStays ==
    ASSUME PoolInv, NEW r \in Requests, TakeServer(r)
    PROVE  /\ Stays
           /\ entry'[r].server \in Requests
           /\ \A e \in Requests : e # r => entry'[e] = entry[e]
<1> DEFINE s == ShapeOf[Key(r)]
           server == IF shapes[s] = None THEN r ELSE shapes[s]
<1>1. TypeOK /\ entry \in [Requests -> Entry] /\ CallOK(r) /\ pc[r] = "factory"
  BY DEF PoolInv, TypeOK, CallInv, TakeServer
<1>2. UNCHANGED <<entries, linked, ahead, states, now>> /\ KeysStay
  BY SameKeys DEF TakeServer, clocks, pool, owned
<1>3. server \in Requests
  <2>1. Key(r) \in Keys
    BY <1>1, NamedKeys
  <2>2. s \in Shapes
    BY <2>1
  <2>3. shapes[s] \in Requests \cup {None}
    BY <1>1, <2>2 DEF TypeOK
  <2>4. QED
    BY <2>3
<1>4. entry' = [entry EXCEPT ![r].server = server]
  BY DEF TakeServer
<1> HIDE DEF s, server
<1>5. entry' \in [Requests -> Entry]
  BY <1>1, <1>3, <1>4 DEF Entry
<1>6. \A e \in Requests : /\ entry'[e].inserted = entry[e].inserted
                          /\ entry'[e].cause = entry[e].cause
                          /\ entry'[e].used = entry[e].used
                          /\ entry'[e].rejected = entry[e].rejected
                          /\ entry'[e].cooling = entry[e].cooling
                          /\ entry'[e].server = IF e = r THEN server ELSE entry[e].server
  BY <1>1, <1>4 DEF Entry
<1>7. ~entry[r].inserted
  BY <1>1 DEF CallOK
<1>8. Stays
  BY <1>1, <1>2, <1>3, <1>5, <1>6, <1>7, MarkStays
<1>9. QED
  BY <1>1, <1>3, <1>4, <1>6, <1>8

(* Marks about a refusal. *)
LEMMA RefusalMarksStay ==
    ASSUME PoolInv, NEW e \in Requests,
           NamedRefusal(e) \/ UnexplainedRefusal(e) \/ CooldownEnds(e) \/ ConfirmAnswered(e)
    PROVE  Stays
<1>1. TypeOK /\ entry \in [Requests -> Entry]
  BY DEF PoolInv, TypeOK
<1>2. UNCHANGED <<entries, linked, ahead, states, now>> /\ KeysStay
  BY SameKeys DEF NamedRefusal, UnexplainedRefusal, CooldownEnds, ConfirmAnswered,
                  clocks, pool, owned, calls
<1>3. /\ entry' \in [Requests -> Entry]
      /\ \A d \in Requests : /\ entry'[d].inserted = entry[d].inserted
                             /\ entry'[d].cause = entry[d].cause
                             /\ entry'[d].used = entry[d].used
                             /\ entry[d].rejected => entry'[d].rejected
                             /\ entry'[d].rejected => entry[d].rejected \/ NamedRefusal(d) \/ ConfirmAnswered(d)
                             /\ entry[d].cooling /\ confirm[d] # "idle" => entry'[d].cooling
                             /\ entry'[d].server = entry[d].server
  <2>1. CASE NamedRefusal(e)
    <3>1. entry' = [entry EXCEPT ![e].named = TRUE, ![e].rejected = TRUE]
      BY <2>1 DEF NamedRefusal
    <3>2. entry' \in [Requests -> Entry]
      <4>1. [entry[e] EXCEPT !.named = TRUE, !.rejected = TRUE] \in Entry
        BY <1>1 DEF Entry
      <4>2. entry' = [entry EXCEPT ![e] = [entry[e] EXCEPT !.named = TRUE, !.rejected = TRUE]]
        BY <1>1, <3>1
      <4>3. QED
        BY <1>1, <4>1, <4>2
    <3>3. \A d \in Requests : /\ entry'[d].inserted = entry[d].inserted
                              /\ entry'[d].cause = entry[d].cause
                              /\ entry'[d].used = entry[d].used
                              /\ entry[d].rejected => entry'[d].rejected
                              /\ entry'[d].rejected => entry[d].rejected \/ NamedRefusal(d) \/ ConfirmAnswered(d)
                              /\ entry[d].cooling /\ confirm[d] # "idle" => entry'[d].cooling
                              /\ entry'[d].server = entry[d].server
      BY <1>1, <2>1, <3>1 DEF Entry
    <3>4. QED
      BY <3>2, <3>3
  <2>2. CASE UnexplainedRefusal(e)
    <3>1. entry' = [entry EXCEPT ![e].cooling = TRUE]
      BY <2>2 DEF UnexplainedRefusal
    <3>2. entry' \in [Requests -> Entry]
      BY <1>1, <3>1 DEF Entry
    <3>3. \A d \in Requests : /\ entry'[d].inserted = entry[d].inserted
                              /\ entry'[d].cause = entry[d].cause
                              /\ entry'[d].used = entry[d].used
                              /\ entry[d].rejected => entry'[d].rejected
                              /\ entry'[d].rejected => entry[d].rejected \/ NamedRefusal(d) \/ ConfirmAnswered(d)
                              /\ entry[d].cooling /\ confirm[d] # "idle" => entry'[d].cooling
                              /\ entry'[d].server = entry[d].server
      BY <1>1, <3>1 DEF Entry
    <3>4. QED
      BY <3>2, <3>3
  <2>3. CASE CooldownEnds(e)
    BY <1>1, <2>3 DEF CooldownEnds, Entry
  <2>4. CASE ConfirmAnswered(e)
    <3>1. PICK j \in BOOLEAN : (entry[e].rejected => j) /\ entry' = [entry EXCEPT ![e].rejected = j]
      <4>1. PICK v \in Answers(Key(e)) : entry' = [entry EXCEPT ![e].rejected = @ \/ v = "refused"]
        BY <2>4 DEF ConfirmAnswered
      <4>2. QED
        BY <1>1, <4>1 DEF Entry
    <3>2. entry' \in [Requests -> Entry]
      BY <1>1, <3>1 DEF Entry
    <3>3. \A d \in Requests : /\ entry'[d].inserted = entry[d].inserted
                              /\ entry'[d].cause = entry[d].cause
                              /\ entry'[d].used = entry[d].used
                              /\ entry[d].rejected => entry'[d].rejected
                              /\ entry'[d].rejected => entry[d].rejected \/ NamedRefusal(d) \/ ConfirmAnswered(d)
                              /\ entry[d].cooling /\ confirm[d] # "idle" => entry'[d].cooling
                              /\ entry'[d].server = entry[d].server
      BY <1>1, <2>4, <3>1 DEF Entry
    <3>4. QED
      BY <3>2, <3>3
  <2>5. QED
    BY <2>1, <2>2, <2>3, <2>4
<1>4. QED
  BY <1>1, <1>2, <1>3, MarkStays

(* A check that found nothing wrong marks entries as checked. *)
LEMMA ChecksStay ==
    ASSUME PoolInv, NEW e \in Requests, ConfirmKeeps(e) \/ SweepKeeps(e)
    PROVE  Stays
<1>1. TypeOK /\ entry \in [Requests -> Entry] /\ now \in 0 .. MaxTime
  BY DEF PoolInv, TypeOK
<1>2. UNCHANGED <<entries, linked, ahead, states, now>> /\ KeysStay
  BY SameKeys DEF ConfirmKeeps, ConfirmReturns, SweepKeeps, clocks, pool, owned, calls
<1>3. PICK E \in SUBSET Requests :
        entry' = [d \in Requests |-> IF d \in E THEN [entry[d] EXCEPT !.validated = now] ELSE entry[d]]
  <2>1. CASE ConfirmKeeps(e)
    <3> DEFINE E == {d \in Requests : d = e /\ Current(e)}
    <3>1. entry' = [d \in Requests |-> IF d \in E THEN [entry[d] EXCEPT !.validated = now] ELSE entry[d]]
      BY <1>1, <2>1 DEF ConfirmKeeps
    <3>2. QED
      BY <3>1
  <2>2. CASE SweepKeeps(e)
    <3> DEFINE E == {d \in Requests : Current(d) /\ Key(d) = Key(e)}
    <3>1. entry' = [d \in Requests |-> IF d \in E THEN [entry[d] EXCEPT !.validated = now] ELSE entry[d]]
      BY <2>2 DEF SweepKeeps
    <3>2. QED
      BY <3>1
  <2>3. QED
    BY <2>1, <2>2
<1>4. \A d \in Requests : entry'[d] = [entry[d] EXCEPT !.validated = now] \/ entry'[d] = entry[d]
  BY <1>3
<1>5. ASSUME NEW d \in Requests
      PROVE  /\ entry'[d] \in Entry
             /\ entry'[d].inserted = entry[d].inserted
             /\ entry'[d].cause = entry[d].cause
             /\ entry'[d].used = entry[d].used
             /\ entry'[d].rejected = entry[d].rejected
             /\ entry'[d].cooling = entry[d].cooling
             /\ entry'[d].server = entry[d].server
  <2>1. entry[d] \in Entry
    BY <1>1
  <2>2. CASE entry'[d] = entry[d]
    BY <2>1, <2>2
  <2>3. CASE entry'[d] = [entry[d] EXCEPT !.validated = now]
    BY <1>1, <2>1, <2>3 DEF Entry
  <2>4. QED
    BY <1>4, <2>2, <2>3
<1>6. entry' \in [Requests -> Entry]
  BY <1>3, <1>5
<1>7. QED
  BY <1>1, <1>2, <1>5, <1>6, MarkStays

(* Entries are given up, and touched. *)
LEMMA DroppingDrops ==
    ASSUME NEW E, NEW c, c \in Cause \ {"none"}, DropEntries(E, c), E \subseteq Pooled,
           Deserved(E, c), UNCHANGED <<now, arg>>
    PROVE  KindsOfStep
<1>1. E \subseteq Requests
  BY DEF Pooled
<1>2. Drops(E, c)
  BY DEF Drops
<1>3. QED
  BY <1>1, <1>2 DEF KindsOfStep

LEMMA CallsDrop ==
    ASSUME PoolInv, NEW r \in Requests, DropRejected(r) \/ EvictStale(r)
    PROVE  KindsOfStep
<1>1. UNCHANGED <<now, arg>>
  BY DEF DropRejected, EvictStale, clocks
<1>2. CASE DropRejected(r)
  <2>1. entry[arg[r].cached].rejected /\ arg[r].cached # None
    BY <1>2 DEF DropRejected, PoolInv, CallInv, CallOK
  <2>2. arg[r].cached \in Requests
    BY <2>1 DEF PoolInv, TypeOK, Arg
  <2>3. arg[r].cached \in refused
    BY <2>1, <2>2 DEF PoolInv, CheckInv, CheckOK
  <2>4. PICK E : E = {arg[r].cached} \cap Pooled
    OBVIOUS
  <2>5. DropEntries(E, "rejected_credential") /\ Deserved(E, "rejected_credential")
    BY <1>2, <2>3, <2>4 DEF DropRejected, DropIfCurrent, Deserved
  <2>6. QED
    BY <1>1, <2>4, <2>5, DroppingDrops DEF Cause
<1>3. CASE EvictStale(r)
  <2>1. DropEntries({e \in Pooled : Key(e) = Key(r) /\ Stale(e)}, "stale_credential")
    BY <1>3 DEF EvictStale
  <2>2. QED
    BY <1>1, <2>1, DroppingDrops DEF Cause, Deserved
<1>4. QED
  BY <1>2, <1>3

LEMMA ChecksDrop ==
    ASSUME PoolInv, NEW e \in Requests, EvictRejected(e) \/ ConfirmEvicts(e) \/ SweepEvicts(e)
    PROVE  KindsOfStep
<1>1. UNCHANGED <<now, arg>>
  BY DEF EvictRejected, ConfirmEvicts, ConfirmReturns, SweepEvicts, TurnEnds, clocks, calls
<1>2. CheckOK(e) /\ SweepOK
  BY DEF PoolInv, CheckInv
<1>3. ASSUME DropIfCurrent(e, "rejected_credential"), e \in refused PROVE KindsOfStep
  BY <1>1, <1>3, DroppingDrops DEF DropIfCurrent, Cause, Deserved
<1>4. ASSUME DropIfCurrent(e, "below_minimum"), gitlab[Key(e)] = "below" PROVE KindsOfStep
  BY <1>1, <1>4, DroppingDrops DEF DropIfCurrent, Cause, Deserved
<1>5. CASE EvictRejected(e) \/ ConfirmEvicts(e)
  BY <1>2, <1>3, <1>4, <1>5 DEF EvictRejected, ConfirmEvicts, CheckOK
<1>6. CASE SweepEvicts(e)
  <2>1. \/ DropEntries({d \in Pooled : Key(d) = Key(e)}, "invalid_credential")
        \/ DropIfCurrent(e, "below_minimum") /\ gitlab[Key(e)] = "below"
    BY <1>2, <1>6 DEF SweepEvicts, SweepOK
  <2>2. QED
    BY <1>1, <1>4, <2>1, DroppingDrops DEF Cause, Deserved
<1>7. QED
  BY <1>5, <1>6

LEMMA RedetectsDropOrStay ==
    ASSUME PoolInv, NEW e \in Requests, SweepRedetects(e)
    PROVE  KindsOfStep
<1>1. UNCHANGED <<now, arg>>
  BY DEF SweepRedetects, TurnEnds, clocks, calls
<1>2. CASE DropEntries({}, "none")
  <2>1. Drops({}, "none")
    BY <1>1, <1>2 DEF Drops, Cause, Deserved
  <2>2. QED
    BY <2>1 DEF KindsOfStep, Cause
<1>3. CASE entry' = [entry EXCEPT ![e].kindUnknown = FALSE] /\ UNCHANGED <<pool, owned>>
  <2>1. TypeOK /\ entry \in [Requests -> Entry]
    BY DEF PoolInv, TypeOK
  <2>2. entry' \in [Requests -> Entry]
    BY <1>3, <2>1 DEF Entry
  <2>3. \A d \in Requests : /\ entry'[d].inserted = entry[d].inserted
                            /\ entry'[d].cause = entry[d].cause
                            /\ entry'[d].used = entry[d].used
                            /\ entry'[d].rejected = entry[d].rejected
                            /\ entry'[d].cooling = entry[d].cooling
                            /\ entry'[d].server = entry[d].server
    BY <1>3, <2>1 DEF Entry
  <2>4. UNCHANGED <<entries, linked, ahead, states, now>> /\ KeysStay
    BY <1>1, <1>3, SameKeys DEF pool, owned
  <2>5. Stays
    BY <2>1, <2>2, <2>3, <2>4, MarkStays
  <2>6. QED
    BY <2>5 DEF KindsOfStep
<1>4. CASE DropIfCurrent(e, "below_minimum") /\ gitlab[Key(e)] = "below"
  BY <1>1, <1>4, DroppingDrops DEF DropIfCurrent, Cause, Deserved
<1>5. QED
  BY <1>2, <1>3, <1>4 DEF SweepRedetects

LEMMA OthersDrop ==
    ASSUME NEW s \in Requests, EvictServer(s) \/ Close
    PROVE  KindsOfStep
<1>1. UNCHANGED <<now, arg>>
  BY DEF EvictServer, RegisterStep, Close, clocks, calls
<1>2. CASE EvictServer(s)
  <2>1. DropEntries({e \in Pooled : entry[e].server = s}, "rebuild")
    BY <1>2 DEF EvictServer
  <2>2. QED
    BY <1>1, <2>1, DroppingDrops DEF Cause, Deserved
<1>3. CASE Close
  BY <1>1, <1>3, DroppingDrops DEF Close, Cause, Deserved
<1>4. QED
  BY <1>2, <1>3

LEMMA UseTouches ==
    ASSUME PoolInv, NEW r \in Requests, Hit(r) \/ KeepExisting(r)
    PROVE  \E e \in Requests : Touches(e)
<1>1. TypeOK /\ PoolIsLinked /\ CallOK(r) /\ CallInv /\ arg \in [Requests -> Arg]
  BY DEF PoolInv, CallInv, TypeOK
<1>2. CASE Hit(r)
  <2>1. arg[r].cached \in Requests /\ entry[arg[r].cached].inserted
    BY <1>1, <1>2 DEF CallOK, Hit, Arg
  <2>2. \A e \in Requests : arg'[e].key = arg[e].key /\ arg[e].key \in Keys \cup {None}
    BY <1>1, <1>2 DEF Hit, Arg
  <2>3. Touches(arg[r].cached)
    BY <1>2, <2>1, <2>2 DEF Touches, Hit, KeysStay, clocks, owned
  <2>4. QED
    BY <2>1, <2>3
<1>3. CASE KeepExisting(r)
  <2>1. Key(r) \in Keys
    BY <1>1, <1>3, NamedKeys DEF KeepExisting
  <2>2. entries[Key(r)] \in Requests /\ entry[entries[Key(r)]].inserted
    BY <1>1, <1>3, <2>1, PooledAreInserted DEF KeepExisting
  <2>3. KeysStay
    BY <1>1, <1>3, ResultNamesNoKey DEF KeepExisting
  <2>4. Touches(entries[Key(r)])
    BY <1>3, <2>2, <2>3 DEF Touches, KeepExisting, clocks, owned
  <2>5. QED
    BY <2>2, <2>4
<1>4. QED
  BY <1>2, <1>3

LEMMA QuietStays ==
    ASSUME PoolInv, UNCHANGED <<entries, linked, ahead, states, entry, arg>>,
           now' = now \/ (now < MaxTime /\ now' = now + 1)
    PROVE  Stays
<1>1. TypeOK /\ now' \in 0 .. MaxTime /\ now <= now'
  BY DEF PoolInv, TypeOK
<1>2. KeysStay
  BY SameKeys
<1>3. UNCHANGED <<entries, linked, ahead, states, entry>>
  OBVIOUS
<1>4. QED
  BY <1>1, <1>2, <1>3, StaysAsItWas

Quiet == UNCHANGED <<now, entries, linked, ahead, states, entry, arg>>

LEMMA QuietSteps ==
    ASSUME NEW r \in Requests
    PROVE  /\ TakeSlot(r) \/ ReadGrant(r) \/ Finish(r) => Quiet
           /\ ConfirmStarts(r) \/ ConfirmLearnsNothing(r) => Quiet
           /\ SweepTakes(r) \/ SweepAnswered(r) \/ SweepUndecided(r) => Quiet
           /\ RegistrationEnds(r) \/ ForgetShape(r) \/ MarkFailed(r) => Quiet
           /\ Subscribes(r) \/ SweepStarts => Quiet
<1>1. TakeSlot(r) \/ ReadGrant(r) \/ Finish(r) => Quiet
  BY DEF TakeSlot, ReadGrant, Finish, Quiet, clocks, pool, owned
<1>2. ConfirmStarts(r) \/ ConfirmLearnsNothing(r) => Quiet
  BY DEF ConfirmStarts, ConfirmLearnsNothing, ConfirmReturns, Quiet, clocks, pool, owned, calls
<1>3. SweepTakes(r) \/ SweepAnswered(r) \/ SweepUndecided(r) => Quiet
  BY DEF SweepTakes, SweepAnswered, SweepUndecided, TurnEnds, Quiet, clocks, pool, owned, calls
<1>4. RegistrationEnds(r) \/ ForgetShape(r) \/ MarkFailed(r) => Quiet
  BY DEF RegistrationEnds, ForgetShape, MarkFailed, RegisterStep, Quiet, clocks, pool, owned, calls
<1>5. Subscribes(r) \/ SweepStarts => Quiet
  BY DEF Subscribes, SweepStarts, Quiet, clocks, pool, owned, calls
<1>6. QED
  BY <1>1, <1>2, <1>3, <1>4, <1>5

LEMMA StepsHaveKinds ==
    ASSUME PoolInv, [Next]_vars
    PROVE  KindsOfStep
<1>1. ASSUME Quiet PROVE KindsOfStep
  BY <1>1, QuietStays DEF Quiet, KindsOfStep
<1>2. ASSUME NEW r \in Requests, NEW k \in Keys, Lookup(r, k) PROVE KindsOfStep
  BY <1>2, LookupStays DEF KindsOfStep
<1>3. ASSUME NEW r \in Requests, FastPath(r) PROVE KindsOfStep
  <2>1. CASE Hit(r)
    BY <2>1, UseTouches DEF KindsOfStep
  <2>2. CASE DropRejected(r) \/ EvictStale(r)
    BY <2>2, CallsDrop
  <2>3. CASE Lead(r) \/ Join(r)
    BY <2>3, LeadStays, JoinStays DEF KindsOfStep
  <2>4. QED
    BY <1>3, <2>1, <2>2, <2>3 DEF FastPath
<1>4. ASSUME NEW r \in Requests, Building(r) PROVE KindsOfStep
  <2>1. CASE TakeSlot(r) \/ ReadGrant(r)
    BY <1>1, <2>1, QuietSteps
  <2>2. CASE NoSlot(r) \/ BuildFails(r)
    BY <2>2, LeadStays DEF KindsOfStep
  <2>3. CASE Verify(r) \/ LearnFacts(r) \/ TakeServer(r)
    BY <2>3, VerifyStays, LearnFactsStays, TakeServerStays DEF KindsOfStep
  <2>4. QED
    BY <1>4, <2>1, <2>2, <2>3 DEF Building
<1>5. ASSUME NEW r \in Requests, Inserting(r) PROVE KindsOfStep
  <2>1. CASE KeepExisting(r)
    BY <2>1, UseTouches DEF KindsOfStep
  <2>2. CASE Insert(r) \/ InsertRefused(r)
    BY <2>2 DEF KindsOfStep
  <2>3. CASE Finish(r)
    BY <1>1, <2>3, QuietSteps
  <2>4. CASE JoinerReturns(r)
    BY <2>4, JoinStays DEF KindsOfStep
  <2>5. QED
    BY <1>5, <2>1, <2>2, <2>3, <2>4 DEF Inserting
<1>6. ASSUME NEW e \in Requests, RefusalStep(e) PROVE KindsOfStep
  <2>1. CASE EvictRejected(e)
    BY <2>1, ChecksDrop
  <2>2. CASE NamedRefusal(e) \/ UnexplainedRefusal(e) \/ CooldownEnds(e)
    BY <2>2, RefusalMarksStay DEF KindsOfStep
  <2>3. QED
    BY <1>6, <2>1, <2>2 DEF RefusalStep
<1>7. ASSUME NEW e \in Requests, ConfirmStep(e) PROVE KindsOfStep
  <2>1. CASE ConfirmStarts(e) \/ ConfirmLearnsNothing(e)
    BY <1>1, <2>1, QuietSteps
  <2>2. CASE ConfirmAnswered(e)
    BY <2>2, RefusalMarksStay DEF KindsOfStep
  <2>3. CASE ConfirmEvicts(e)
    BY <2>3, ChecksDrop
  <2>4. CASE ConfirmKeeps(e)
    BY <2>4, ChecksStay DEF KindsOfStep
  <2>5. QED
    BY <1>7, <2>1, <2>2, <2>3, <2>4 DEF ConfirmStep
<1>8. ASSUME NEW e \in Requests, SweepTurn(e) PROVE KindsOfStep
  <2>1. CASE SweepTakes(e) \/ SweepAnswered(e) \/ SweepUndecided(e)
    BY <1>1, <2>1, QuietSteps
  <2>2. CASE SweepEvicts(e)
    BY <2>2, ChecksDrop
  <2>3. CASE SweepKeeps(e)
    BY <2>3, ChecksStay DEF KindsOfStep
  <2>4. CASE SweepRedetects(e)
    BY <2>4, RedetectsDropOrStay
  <2>5. QED
    BY <1>8, <2>1, <2>2, <2>3, <2>4 DEF SweepTurn
<1>9. ASSUME NEW s \in Requests, RegistrationStep(s) PROVE KindsOfStep
  <2>1. CASE RegistrationEnds(s) \/ ForgetShape(s) \/ MarkFailed(s)
    BY <1>1, <2>1, QuietSteps
  <2>2. CASE EvictServer(s)
    BY <2>2, OthersDrop
  <2>3. QED
    BY <1>9, <2>1, <2>2 DEF RegistrationStep
<1>10. ASSUME NEW r \in Requests, Subscribes(r) PROVE KindsOfStep
  BY <1>1, <1>10, QuietSteps
<1>11. CASE SweepStarts
  BY <1>1, <1>11 DEF SweepStarts, Quiet, clocks, pool, owned, calls
<1>12. CASE IdleSweep
  BY <1>12 DEF KindsOfStep
<1>13. CASE LifetimeEnds \/ \E k \in Keys : StandingChanges(k)
  BY <1>1, <1>13 DEF LifetimeEnds, StandingChanges, Quiet, pool, owned, calls
<1>14. CASE Close
  <2>1. PICK e \in Requests : TRUE
    BY <1>14 DEF Close, Pooled
  <2>2. QED
    BY <1>14, <2>1, OthersDrop
<1>15. CASE Tick
  BY <1>15, QuietStays DEF Tick, KindsOfStep, pool, owned, calls
<1>16. CASE UNCHANGED vars
  BY <1>1, <1>16 DEF vars, Quiet, clocks, pool, owned, calls
<1>17. QED
  BY <1>2, <1>3, <1>4, <1>5, <1>6, <1>7, <1>8, <1>9, <1>10, <1>11, <1>12, <1>13, <1>14, <1>15, <1>16
     DEF Next, CallStep

-----------------------------------------------------------------------------
(* The map, the list and the states *)

LEMMA ListIsOrdered ==
    ASSUME PoolIsLinked
    PROVE  LineUp(ahead, linked)
BY LineUpIsOrder DEF PoolIsLinked

(* Where the entries of E leave the map, they and no other stop being pooled. *)
LEMMA PooledLess ==
    ASSUME TypeOK, PoolIsLinked, KeysStay, NEW E, E \subseteq Requests,
           entries' = [k \in Keys |-> IF entries[k] \in E THEN None ELSE entries[k]]
    PROVE  /\ \A e \in Requests : Current(e)' <=> Current(e) /\ e \notin E
           /\ \A k \in Keys : entries'[k] # None => arg'[entries'[k]].key = k
<1>1. \A k \in Keys : entries[k] \in Requests \cup {None}
  BY DEF TypeOK
<1>2. \A e \in Requests : Key(e) \in Keys \cup {None}
  BY DEF TypeOK, Arg, Key
<1>3. \A e \in Requests : Key(e)' \in Keys \cup {None} /\ (Key(e) # None => Key(e)' = Key(e))
  BY DEF KeysStay, Key
<1>4. \A k \in Keys : entries[k] # None => Key(entries[k]) = k
  BY DEF PoolIsLinked
<1>5. ASSUME NEW k \in Keys, entries'[k] # None PROVE arg'[entries'[k]].key = k
  <2>1. entries'[k] = entries[k] /\ entries[k] \in Requests
    BY <1>1, <1>5
  <2>2. QED
    BY <1>3, <1>4, <1>5, <2>1 DEF Key
<1>6. ASSUME NEW e \in Requests
      PROVE  Current(e)' <=> Current(e) /\ e \notin E
  <2>1. ASSUME Current(e)' PROVE Current(e) /\ e \notin E
    <3>1. Key(e)' \in Keys /\ entries'[Key(e)'] = e
      BY <1>3, <2>1 DEF Current
    <3>2. entries[Key(e)'] = e /\ e \notin E
      BY <3>1
    <3>3. QED
      BY <1>4, <3>1, <3>2 DEF Current
  <2>2. ASSUME Current(e), e \notin E PROVE Current(e)'
    <3>1. Key(e)' = Key(e) /\ Key(e) \in Keys /\ entries[Key(e)] = e
      BY <1>2, <1>3, <2>2 DEF Current
    <3>2. entries'[Key(e)] = e
      BY <2>2, <3>1
    <3>3. QED
      BY <3>1, <3>2 DEF Current
  <2>3. QED
    BY <2>1, <2>2
<1>7. QED
  BY <1>5, <1>6

LEMMA LeavingKeepsList ==
    ASSUME TypeOK, PoolIsLinked, KeysStay, NEW E, E \subseteq Requests,
           entries' = [k \in Keys |-> IF entries[k] \in E THEN None ELSE entries[k]],
           linked' = linked \ E, states' = states \ E,
           LineUp(ahead', linked'),
           \A e \in Requests : (entry'[e].cause = "none" /\ entry'[e].inserted)
                                  = (Current(e) /\ e \notin E)
    PROVE  PoolIsLinked'
<1>1. /\ \A e \in Requests : Current(e)' <=> Current(e) /\ e \notin E
      /\ \A k \in Keys : entries'[k] # None => arg'[entries'[k]].key = k
  BY PooledLess
<1>2. Pooled' = Pooled \ E
  BY <1>1 DEF Pooled
<1>3. linked' = Pooled' /\ states' = Pooled'
  BY <1>2 DEF PoolIsLinked
<1>4. ahead' \in Orders(linked') /\ Linear(ahead')
  BY LineUpIsOrder
<1>5. IsFiniteSet(linked) /\ linked \in SUBSET Requests
  BY FS_Subset, PoolFiniteAssumption DEF TypeOK
<1>6. Cardinality(linked') <= MaxSize
  <2>1. Cardinality(linked') <= Cardinality(linked)
    BY <1>5, FS_Subset
  <2>2. Cardinality(linked') \in Nat /\ Cardinality(linked) \in Nat
    BY <1>5, FS_CardinalityType, FS_Difference
  <2>3. QED
    BY <2>1, <2>2 DEF PoolIsLinked
<1>7. \A e \in Requests : (entry'[e].cause = "none" /\ entry'[e].inserted) = Current(e)'
  <2>1. ASSUME NEW e \in Requests
        PROVE  (entry'[e].cause = "none" /\ entry'[e].inserted) = (Current(e) /\ e \notin E)
    OBVIOUS
  <2>2. QED
    BY <1>1, <2>1 DEF Current
<1>8. \A e \in Requests : (entry[e].cause = "none" /\ entry[e].inserted)' = Current(e)'
  BY <1>7
<1>9. Linear(ahead)' /\ ahead' \in Orders(linked)'
  BY <1>4 DEF Linear, Orders
<1>10. QED
  BY <1>1, <1>3, <1>6, <1>8, <1>9 DEF PoolIsLinked, Key

LEMMA NobodyLeaves ==
    ASSUME TypeOK, UNCHANGED entries
    PROVE  entries' = [k \in Keys |-> IF entries[k] \in {} THEN None ELSE entries[k]]
BY DEF TypeOK

LEMMA StaysKeepsList ==
    ASSUME PoolInv, Stays
    PROVE  PoolIsLinked' /\ ByUse'
<1>1. TypeOK /\ PoolIsLinked /\ ByUse /\ LineUp(ahead, linked)
  BY ListIsOrdered DEF PoolInv
<1>2. PoolIsLinked'
  <2>0. PICK E : E = {}
    OBVIOUS
  <2>1. entries' = [k \in Keys |-> IF entries[k] \in E THEN None ELSE entries[k]]
    BY <1>1, <2>0, NobodyLeaves DEF Stays
  <2>2. linked' = linked \ E /\ states' = states \ E /\ LineUp(ahead', linked') /\ KeysStay /\ E \subseteq Requests
    BY <1>1, <2>0 DEF Stays
  <2>3. \A e \in Requests : (entry'[e].cause = "none" /\ entry'[e].inserted) = (Current(e) /\ e \notin E)
    BY <1>1, <2>0 DEF Stays, PoolIsLinked
  <2>4. QED
    BY <1>1, <2>1, <2>2, <2>3, LeavingKeepsList
<1>3. ByUse'
  <2>1. now \in Nat /\ now' \in Nat /\ now <= now' /\ \A e \in Requests : entry[e].used \in Nat
    BY <1>1 DEF Stays, TypeOK, Entry
  <2>2. linked \subseteq Requests
    BY <1>1 DEF TypeOK
  <2>3. QED
    BY <1>1, <2>1, <2>2 DEF ByUse, Stays
<1>4. QED
  BY <1>2, <1>3

LEMMA DroppedEntry ==
    ASSUME TypeOK, NEW E, NEW c \in Cause, DropEntries(E, c), NEW e \in Requests
    PROVE  /\ entry'[e] \in Entry
           /\ entry'[e].inserted = entry[e].inserted /\ entry'[e].used = entry[e].used
           /\ entry'[e].rejected = entry[e].rejected /\ entry'[e].server = entry[e].server
           /\ entry'[e].cooling = entry[e].cooling
           /\ entry'[e].cause = IF e \in E THEN c ELSE entry[e].cause
<1>1. entry[e] \in Entry
  BY DEF TypeOK
<1>2. entry'[e] = IF e \in E THEN [entry[e] EXCEPT !.cause = c] ELSE entry[e]
  BY DEF DropEntries
<1>3. QED
  BY <1>1, <1>2 DEF Entry

LEMMA DropsKeepsList ==
    ASSUME PoolInv, NEW E, NEW c \in Cause, Drops(E, c)
    PROVE  PoolIsLinked' /\ ByUse'
<1>1. TypeOK /\ PoolIsLinked /\ ByUse /\ LineUp(ahead, linked) /\ KeysStay
  BY ListIsOrdered, SameKeys DEF PoolInv, Drops
<1>2. E \subseteq Requests /\ E \subseteq Pooled /\ DropEntries(E, c)
  BY DEF Drops, Pooled
<1>3. PoolIsLinked'
  <2>1. /\ entries' = [k \in Keys |-> IF entries[k] \in E THEN None ELSE entries[k]]
        /\ linked' = linked \ E /\ states' = states \ E /\ ahead' = Without(E)
    BY <1>2 DEF DropEntries
  <2>2. LineUp(ahead', linked')
    BY <1>1, <2>1, WithoutStaysOrdered
  <2>3. \A e \in Requests : (entry'[e].cause = "none" /\ entry'[e].inserted) = (Current(e) /\ e \notin E)
    <3> SUFFICES ASSUME NEW e \in Requests
                 PROVE  (entry'[e].cause = "none" /\ entry'[e].inserted) = (Current(e) /\ e \notin E)
      OBVIOUS
    <3>1. /\ entry'[e].inserted = entry[e].inserted
          /\ entry'[e].cause = IF e \in E THEN c ELSE entry[e].cause
      BY <1>1, <1>2, DroppedEntry
    <3>2. CASE e \in E
      BY <3>1, <3>2 DEF Drops
    <3>3. CASE e \notin E
      BY <1>1, <3>1, <3>3 DEF PoolIsLinked
    <3>4. QED
      BY <3>2, <3>3
  <2>4. QED
    BY <1>1, <1>2, <2>1, <2>2, <2>3, LeavingKeepsList
<1>4. ByUse'
  <2>1. \A e \in Requests : entry'[e].used = entry[e].used
    BY <1>1, <1>2, DroppedEntry
  <2>2. \A a, b : <<a, b>> \in ahead' => <<a, b>> \in ahead
    BY <1>2, WithoutMembers DEF DropEntries
  <2>3. linked' \subseteq linked /\ linked \subseteq Requests /\ now' = now
    BY <1>1, <1>2 DEF DropEntries, TypeOK, Drops
  <2>4. QED
    BY <1>1, <2>1, <2>2, <2>3 DEF ByUse
<1>5. QED
  BY <1>3, <1>4

(* Whoever is used goes to the front. *)
LEMMA TouchedEntry ==
    ASSUME TypeOK, NEW d \in Requests, entry' = [entry EXCEPT ![d].used = now], NEW e \in Requests
    PROVE  /\ entry'[e] \in Entry
           /\ entry'[e].inserted = entry[e].inserted /\ entry'[e].cause = entry[e].cause
           /\ entry'[e].rejected = entry[e].rejected /\ entry'[e].server = entry[e].server
           /\ entry'[e].cooling = entry[e].cooling
           /\ entry'[e].used = IF e = d THEN now ELSE entry[e].used
<1>1. entry \in [Requests -> Entry] /\ entry[e] \in Entry /\ now \in 0 .. MaxTime
  BY DEF TypeOK
<1>2. entry'[e] = IF e = d THEN [entry[e] EXCEPT !.used = now] ELSE entry[e]
  BY <1>1
<1>3. QED
  BY <1>1, <1>2 DEF Entry

LEMMA FrontIsOrdered ==
    ASSUME LineUp(ahead, linked), NEW e
    PROVE  /\ LineUp(InFront(e), linked)
           /\ \A a, b : <<a, b>> \in InFront(e) /\ a # e => <<a, b>> \in ahead /\ (b = e => e \notin linked)
<1>1. CASE e \in linked
  <2>1. LineUp(Without({e}), linked \ {e}) /\ LineUp({}, {e})
    BY WithoutStaysOrdered, OneIsOrdered
  <2>2. LineUp(Without({e}) \cup {} \cup ({e} \X (linked \ {e})), (linked \ {e}) \cup {e})
    BY <2>1, StackedIsOrdered
  <2>3. InFront(e) = Without({e}) \cup {} \cup ({e} \X (linked \ {e})) /\ linked = (linked \ {e}) \cup {e}
    BY <1>1 DEF InFront
  <2>4. LineUp(InFront(e), linked)
    BY <2>2, <2>3
  <2>5. \A a, b : <<a, b>> \in InFront(e) /\ a # e => <<a, b>> \in Without({e})
    BY <2>3
  <2>6. QED
    BY <2>4, <2>5, WithoutMembers
<1>2. CASE e \notin linked
  BY <1>2 DEF InFront
<1>3. QED
  BY <1>1, <1>2

LEMMA TouchesKeepsList ==
    ASSUME PoolInv, NEW d \in Requests, Touches(d)
    PROVE  PoolIsLinked' /\ ByUse'
<1>1. TypeOK /\ PoolIsLinked /\ ByUse /\ LineUp(ahead, linked) /\ KeysStay
  BY ListIsOrdered DEF PoolInv, Touches
<1>2. /\ entries' = entries /\ linked' = linked /\ states' = states /\ now' = now
      /\ ahead' = InFront(d) /\ entry' = [entry EXCEPT ![d].used = now]
  BY DEF Touches
<1>3. PoolIsLinked'
  <2>0. PICK E : E = {}
    OBVIOUS
  <2>1. entries' = [k \in Keys |-> IF entries[k] \in E THEN None ELSE entries[k]]
    BY <1>1, <1>2, <2>0, NobodyLeaves
  <2>2. linked' = linked \ E /\ states' = states \ E /\ LineUp(ahead', linked') /\ E \subseteq Requests
    BY <1>1, <1>2, <2>0, FrontIsOrdered
  <2>3. \A e \in Requests : (entry'[e].cause = "none" /\ entry'[e].inserted) = (Current(e) /\ e \notin E)
    BY <1>1, <1>2, <2>0, TouchedEntry DEF PoolIsLinked
  <2>4. QED
    BY <1>1, <2>1, <2>2, <2>3, LeavingKeepsList
<1>4. ByUse'
  <2>1. now \in Nat /\ \A e \in Requests : entry[e].used \in Nat
    BY <1>1 DEF TypeOK, Entry
  <2>2. \A e \in Requests : entry'[e].used = IF e = d THEN now ELSE entry[e].used
    BY <1>1, <1>2, TouchedEntry
  <2>3. linked \subseteq Requests
    BY <1>1 DEF TypeOK
  <2>4. \A a, b : <<a, b>> \in ahead' /\ a # d => <<a, b>> \in ahead /\ (b = d => d \notin linked)
    BY <1>1, <1>2, FrontIsOrdered
  <2>5. QED
    BY <1>1, <1>2, <2>1, <2>2, <2>3, <2>4 DEF ByUse
<1>5. QED
  BY <1>3, <1>4

(* A build inserts its entry, or the insertion is undone. *)
LEMMA InsertingIsNew ==
    ASSUME PoolInv, NEW r \in Requests, Insert(r) \/ InsertRefused(r)
    PROVE  /\ Key(r) \in Keys /\ entries[Key(r)] = None /\ pc[r] = "insert"
           /\ ~entry[r].inserted /\ ~Current(r) /\ r \notin linked
           /\ Evicted \subseteq Pooled /\ Evicted \subseteq Requests /\ r \notin Evicted
           /\ Cardinality(linked \ Evicted) <= MaxSize - 1
           /\ KeysStay /\ now' = now
<1>1. TypeOK /\ PoolIsLinked /\ CallOK(r) /\ LineUp(ahead, linked) /\ pc[r] = "insert" /\ entries[Key(r)] = None
  BY ListIsOrdered DEF PoolInv, CallInv, Insert, InsertRefused
<1>2. Key(r) \in Keys /\ ~entry[r].inserted
  BY <1>1, NamedKeys DEF CallOK
<1>3. ~Current(r) /\ r \notin linked
  BY <1>1, <1>2 DEF PoolIsLinked, Pooled
<1>4. IsFiniteSet(linked) /\ Cardinality(linked) <= MaxSize
  BY <1>1, FS_Subset, PoolFiniteAssumption DEF TypeOK, PoolIsLinked
<1>5. Evicted \subseteq linked /\ Cardinality(linked \ Evicted) <= MaxSize - 1
  BY <1>1, <1>4, RoomIsMade
<1>6. Evicted \subseteq Pooled /\ Evicted \subseteq Requests /\ r \notin Evicted
  BY <1>1, <1>3, <1>5 DEF PoolIsLinked, TypeOK
<1>7. KeysStay
  BY <1>1, ResultNamesNoKey DEF Insert, InsertRefused
<1>8. now' = now
  BY DEF Insert, InsertRefused, clocks
<1>9. QED
  BY <1>1, <1>2, <1>3, <1>5, <1>6, <1>7, <1>8

LEMMA InsertedEntry ==
    ASSUME PoolInv, NEW r \in Requests, NEW c \in {"none", "rebuild"},
           \/ Insert(r) /\ c = "none"
           \/ InsertRefused(r) /\ c = "rebuild",
           NEW e \in Requests
    PROVE  /\ entry'[e] \in Entry
           /\ entry'[e].inserted = (entry[e].inserted \/ e = r)
           /\ entry'[e].cause = IF e = r THEN c
                                ELSE IF e \in Evicted THEN "size_pressure" ELSE entry[e].cause
           /\ entry'[e].used = IF e = r THEN now ELSE entry[e].used
           /\ entry'[e].rejected = entry[e].rejected /\ entry'[e].server = entry[e].server
           /\ entry'[e].cooling = entry[e].cooling
<1>1. /\ entry[e] \in Entry /\ now \in 0 .. MaxTime
      /\ entry[r].cause = "none" /\ ~entry[r].inserted
  <2>1. ~entry[r].inserted
    BY InsertingIsNew
  <2>2. entry[r].cause = "none"
    BY <2>1 DEF PoolInv, CallInv, CallOK
  <2>3. QED
    BY <2>1, <2>2 DEF PoolInv, TypeOK
<1>2. CASE e = r
  <2>1. CASE Insert(r)
    <3>1. entry'[e] = [entry[e] EXCEPT !.inserted = TRUE, !.validated = now, !.used = now] /\ c = "none"
      BY <1>2, <2>1 DEF Insert, InsertRefused
    <3>2. QED
      BY <1>1, <1>2, <3>1 DEF Entry
  <2>2. CASE InsertRefused(r)
    <3>1. /\ entry'[e] = [entry[e] EXCEPT !.inserted = TRUE, !.validated = now, !.used = now, !.cause = "rebuild"]
          /\ c = "rebuild"
      BY <1>2, <2>2 DEF Insert, InsertRefused
    <3>2. QED
      BY <1>1, <1>2, <3>1 DEF Entry, Cause
  <2>3. QED
    BY <2>1, <2>2
<1>3. CASE e # r
  <2>1. entry'[e] = IF e \in Evicted THEN [entry[e] EXCEPT !.cause = "size_pressure"] ELSE entry[e]
    BY <1>3 DEF Insert, InsertRefused
  <2>2. QED
    BY <1>1, <1>3, <2>1 DEF Entry, Cause
<1>4. QED
  BY <1>2, <1>3

LEMMA InsertKeepsList ==
    ASSUME PoolInv, NEW r \in Requests, Insert(r)
    PROVE  PoolIsLinked' /\ ByUse'
<1>1. TypeOK /\ PoolIsLinked /\ ByUse /\ LineUp(ahead, linked)
  BY ListIsOrdered DEF PoolInv
<1>2. /\ Key(r) \in Keys /\ entries[Key(r)] = None /\ ~entry[r].inserted /\ ~Current(r)
      /\ r \notin linked /\ r \notin Evicted /\ Evicted \subseteq Pooled /\ KeysStay
      /\ Cardinality(linked \ Evicted) <= MaxSize - 1 /\ now' = now
  BY InsertingIsNew
<1>3. /\ entries' = [k \in Keys |-> IF k = Key(r) THEN r
                                    ELSE IF entries[k] \in Evicted THEN None ELSE entries[k]]
      /\ linked' = (linked \ Evicted) \cup {r}
      /\ ahead' = Without(Evicted) \cup ({r} \X (linked \ Evicted))
      /\ states' = (states \ Evicted) \cup {r}
  BY DEF Insert
<1>4. \A e \in Requests : Key(e)' \in Keys \cup {None} /\ (Key(e) # None => Key(e)' = Key(e))
  BY <1>2 DEF KeysStay, Key
<1>5. /\ \A k \in Keys : entries[k] \in Requests \cup {None}
      /\ \A k \in Keys : entries[k] # None => Key(entries[k]) = k
      /\ \A e \in Requests : Key(e) \in Keys \cup {None}
  BY <1>1 DEF TypeOK, PoolIsLinked, Arg, Key
<1>6. Key(r)' = Key(r)
  BY <1>2, <1>4
<1>7. ASSUME NEW k \in Keys, entries'[k] # None PROVE arg'[entries'[k]].key = k
  <2>1. CASE k = Key(r)
    BY <1>3, <1>6, <2>1 DEF Key
  <2>2. CASE k # Key(r)
    <3>1. entries'[k] = entries[k] /\ entries[k] \in Requests
      BY <1>3, <1>5, <1>7, <2>2
    <3>2. QED
      BY <1>4, <1>5, <1>7, <3>1 DEF Key
  <2>3. QED
    BY <2>1, <2>2
<1>8. ASSUME NEW e \in Requests
      PROVE  Current(e)' <=> (Current(e) /\ e \notin Evicted) \/ e = r
  <2>1. CASE e = r
    BY <1>2, <1>3, <1>6, <2>1 DEF Current
  <2>2. CASE e # r
    <3>1. ASSUME Current(e)' PROVE Current(e) /\ e \notin Evicted
      <4>1. Key(e)' \in Keys /\ entries'[Key(e)'] = e
        BY <1>4, <3>1 DEF Current
      <4>2. entries[Key(e)'] = e /\ e \notin Evicted
        BY <1>3, <2>2, <4>1
      <4>3. QED
        BY <1>5, <4>1, <4>2 DEF Current
    <3>2. ASSUME Current(e), e \notin Evicted PROVE Current(e)'
      <4>1. Key(e)' = Key(e) /\ Key(e) \in Keys /\ entries[Key(e)] = e
        BY <1>4, <1>5, <3>2 DEF Current
      <4>2. Key(e) # Key(r)
        BY <1>2, <4>1
      <4>3. entries'[Key(e)] = e
        BY <1>3, <3>2, <4>1, <4>2
      <4>4. QED
        BY <4>1, <4>3 DEF Current
    <3>3. QED
      BY <2>2, <3>1, <3>2
  <2>3. QED
    BY <2>1, <2>2
<1>9. Pooled' = (Pooled \ Evicted) \cup {r}
  BY <1>8 DEF Pooled
<1>10. linked' = Pooled' /\ states' = Pooled'
  BY <1>1, <1>3, <1>9 DEF PoolIsLinked
<1>11. LineUp(ahead', linked')
  <2>1. LineUp(Without(Evicted), linked \ Evicted) /\ LineUp({}, {r}) /\ (linked \ Evicted) \cap {r} = {}
    BY <1>1, <1>2, WithoutStaysOrdered, OneIsOrdered
  <2>2. LineUp(Without(Evicted) \cup {} \cup ({r} \X (linked \ Evicted)), (linked \ Evicted) \cup {r})
    BY <2>1, StackedIsOrdered
  <2>3. Without(Evicted) \cup {} \cup ({r} \X (linked \ Evicted)) = ahead'
    BY <1>3
  <2>4. QED
    BY <1>3, <2>2, <2>3
<1>12. Linear(ahead)' /\ ahead' \in Orders(linked)'
  BY <1>11, LineUpIsOrder DEF Linear, Orders
<1>13. Cardinality(linked') <= MaxSize
  <2>1. IsFiniteSet(linked \ Evicted)
    BY <1>1, FS_Subset, FS_Difference, PoolFiniteAssumption DEF TypeOK
  <2>2. Cardinality(linked \ Evicted) \in Nat
    BY <2>1, FS_CardinalityType
  <2>3. Cardinality((linked \ Evicted) \cup {r}) = Cardinality(linked \ Evicted) + 1
    <3>1. r \notin linked \ Evicted
      BY <1>2
    <3>2. QED
      BY <2>1, <3>1, FS_AddElement
  <2>4. Cardinality((linked \ Evicted) \cup {r}) \in Nat
    BY <2>2, <2>3
  <2>5. QED
    BY <1>2, <1>3, <2>2, <2>3, <2>4
<1>14. \A e \in Requests : (entry[e].cause = "none" /\ entry[e].inserted)' = Current(e)'
  <2>1. SUFFICES ASSUME NEW e \in Requests
                 PROVE  (entry'[e].cause = "none" /\ entry'[e].inserted) = Current(e)'
    OBVIOUS
  <2>2. /\ entry'[e].inserted = (entry[e].inserted \/ e = r)
        /\ entry'[e].cause = IF e = r THEN "none"
                             ELSE IF e \in Evicted THEN "size_pressure" ELSE entry[e].cause
    BY InsertedEntry
  <2>3. (entry[e].cause = "none" /\ entry[e].inserted) = Current(e)
    BY <1>1 DEF PoolIsLinked
  <2>4. CASE e = r
    BY <1>8, <2>2, <2>4 DEF Current
  <2>5. CASE e # r
    BY <1>8, <2>2, <2>3, <2>5 DEF Current
  <2>6. QED
    BY <2>4, <2>5
<1>15. PoolIsLinked'
  BY <1>7, <1>10, <1>12, <1>13, <1>14 DEF PoolIsLinked, Key
<1>16. ByUse'
  <2>1. now \in Nat /\ \A e \in Requests : entry[e].used \in Nat
    BY <1>1 DEF TypeOK, Entry
  <2>2. \A e \in Requests : entry'[e].used = IF e = r THEN now ELSE entry[e].used
    BY InsertedEntry
  <2>3. linked \subseteq Requests
    BY <1>1 DEF TypeOK
  <2>4. \A a, b : <<a, b>> \in ahead' => a = r \/ (<<a, b>> \in ahead /\ a \in linked /\ b \in linked)
    <3>1. \A a, b : <<a, b>> \in ahead' => a = r \/ <<a, b>> \in Without(Evicted)
      BY <1>3
    <3>2. \A a, b : <<a, b>> \in ahead => a \in linked /\ b \in linked
      BY <1>1 DEF LineUp
    <3>3. QED
      BY <3>1, <3>2, WithoutMembers
  <2>5. QED
    BY <1>1, <1>2, <1>3, <2>1, <2>2, <2>3, <2>4 DEF ByUse
<1>17. QED
  BY <1>15, <1>16

LEMMA InsertRefusedKeepsList ==
    ASSUME PoolInv, NEW r \in Requests, InsertRefused(r)
    PROVE  PoolIsLinked' /\ ByUse'
<1>1. TypeOK /\ PoolIsLinked /\ ByUse /\ LineUp(ahead, linked)
  BY ListIsOrdered DEF PoolInv
<1>2. /\ Key(r) \in Keys /\ ~entry[r].inserted /\ ~Current(r)
      /\ r \notin linked /\ r \notin Evicted /\ Evicted \subseteq Requests /\ KeysStay /\ now' = now
  BY InsertingIsNew
<1>3. /\ entries' = [k \in Keys |-> IF entries[k] \in Evicted THEN None ELSE entries[k]]
      /\ linked' = linked \ Evicted /\ ahead' = Without(Evicted) /\ states' = states \ Evicted
  BY DEF InsertRefused
<1>4. LineUp(ahead', linked')
  BY <1>1, <1>3, WithoutStaysOrdered
<1>5. ASSUME NEW e \in Requests
      PROVE  (entry'[e].cause = "none" /\ entry'[e].inserted) = (Current(e) /\ e \notin Evicted)
  <2>1. /\ entry'[e].inserted = (entry[e].inserted \/ e = r)
        /\ entry'[e].cause = IF e = r THEN "rebuild"
                             ELSE IF e \in Evicted THEN "size_pressure" ELSE entry[e].cause
    BY InsertedEntry
  <2>2. (entry[e].cause = "none" /\ entry[e].inserted) = Current(e)
    BY <1>1 DEF PoolIsLinked
  <2>3. CASE e = r
    BY <1>2, <2>1, <2>3
  <2>4. CASE e # r
    BY <2>1, <2>2, <2>4
  <2>5. QED
    BY <2>3, <2>4
<1>6. PoolIsLinked'
  BY <1>1, <1>2, <1>3, <1>4, <1>5, LeavingKeepsList
<1>7. ByUse'
  <2>1. now \in Nat /\ \A e \in Requests : entry[e].used \in Nat
    BY <1>1 DEF TypeOK, Entry
  <2>2. \A e \in Requests : entry'[e].used = IF e = r THEN now ELSE entry[e].used
    BY InsertedEntry
  <2>3. linked \subseteq Requests
    BY <1>1 DEF TypeOK
  <2>4. \A a, b : <<a, b>> \in ahead' => <<a, b>> \in ahead
    BY <1>3, WithoutMembers
  <2>5. QED
    BY <1>1, <1>2, <1>3, <2>1, <2>2, <2>3, <2>4 DEF ByUse
<1>8. QED
  BY <1>6, <1>7

(* The idle sweep. *)
LEMMA IdleEntry ==
    ASSUME PoolInv, IdleSweep, NEW e \in Requests
    PROVE  /\ entry'[e] \in Entry
           /\ entry'[e].inserted = entry[e].inserted
           /\ entry'[e].cause = IF e \in Unused \ busy THEN "idle" ELSE entry[e].cause
           /\ entry'[e].used = IF e \in Unused \cap busy THEN now ELSE entry[e].used
           /\ entry'[e].rejected = entry[e].rejected /\ entry'[e].server = entry[e].server
           /\ entry'[e].cooling = entry[e].cooling
<1>1. entry[e] \in Entry /\ now \in 0 .. MaxTime
  BY DEF PoolInv, TypeOK
<1>2. entry'[e] = IF e \in Unused \cap busy THEN [entry[e] EXCEPT !.used = now]
                  ELSE IF e \in Unused \ busy THEN [entry[e] EXCEPT !.cause = "idle"]
                  ELSE entry[e]
  BY DEF IdleSweep
<1>3. QED
  BY <1>1, <1>2 DEF Entry, Cause

LEMMA IdleSweepKeepsList ==
    ASSUME PoolInv, IdleSweep
    PROVE  PoolIsLinked' /\ ByUse'
<1> DEFINE kept == Unused \cap busy
           gone == Unused \ busy
<1>1. TypeOK /\ PoolIsLinked /\ ByUse /\ LineUp(ahead, linked)
  BY ListIsOrdered DEF PoolInv
<1>2. /\ entries' = [k \in Keys |-> IF entries[k] \in gone THEN None ELSE entries[k]]
      /\ linked' = linked \ gone /\ states' = states \ gone /\ now' = now
      /\ \E order \in Orders(kept) :
          /\ Linear(order)
          /\ ahead' = Without(Unused) \cup order \cup (kept \X (linked \ Unused))
  BY DEF IdleSweep, clocks
<1>3. KeysStay
  BY SameKeys DEF IdleSweep, calls
<1>4. Unused \subseteq linked /\ linked \subseteq Requests
  BY <1>1 DEF Unused, Pooled, PoolIsLinked
<1>5. PICK order : LineUp(order, kept) /\ ahead' = Without(Unused) \cup order \cup (kept \X (linked \ Unused))
  BY <1>2, LineUpIsOrder
<1>6. LineUp(ahead', linked')
  <2>1. LineUp(Without(Unused), linked \ Unused)
    BY <1>1, WithoutStaysOrdered
  <2>2. (linked \ Unused) \cap kept = {} /\ (linked \ Unused) \cup kept = linked \ gone
    BY <1>4
  <2>3. LineUp(ahead', (linked \ Unused) \cup kept)
    BY <1>5, <2>1, <2>2, StackedIsOrdered
  <2>4. QED
    BY <1>2, <2>2, <2>3
<1>7. ASSUME NEW e \in Requests
      PROVE  (entry'[e].cause = "none" /\ entry'[e].inserted) = (Current(e) /\ e \notin gone)
  BY <1>1, IdleEntry DEF PoolIsLinked
<1>8. gone \subseteq Requests
  BY <1>4
<1>9. PoolIsLinked'
  <2> HIDE DEF gone
  <2>1. QED
    BY <1>1, <1>2, <1>3, <1>6, <1>7, <1>8, LeavingKeepsList
<1>10. ByUse'
  <2>1. now \in Nat /\ \A e \in Requests : entry[e].used \in Nat
    BY <1>1 DEF TypeOK, Entry
  <2>2. \A e \in Requests : entry'[e].used = IF e \in kept THEN now ELSE entry[e].used
    BY IdleEntry
  <2>3. \A a, b : <<a, b>> \in ahead' =>
            a \in kept \/ (<<a, b>> \in ahead /\ a \notin Unused /\ b \notin Unused)
    <3>1. \A a, b : <<a, b>> \in ahead' => a \in kept \/ <<a, b>> \in Without(Unused)
      BY <1>5 DEF LineUp
    <3>2. QED
      BY <3>1, WithoutMembers
  <2>4. linked' \subseteq linked
    BY <1>2
  <2>5. QED
    BY <1>1, <1>2, <1>4, <2>1, <2>2, <2>3, <2>4 DEF ByUse
<1>11. QED
  BY <1>9, <1>10

(* What every step keeps of every entry. *)
Onward ==
    /\ entry' \in [Requests -> Entry]
    /\ \A e \in Requests :
        /\ entry[e].inserted => entry'[e].inserted /\ entry'[e].server = entry[e].server
        /\ entry[e].rejected => entry'[e].rejected
        /\ entry'[e].rejected => entry[e].rejected \/ NamedRefusal(e) \/ ConfirmAnswered(e)
        /\ entry[e].cooling /\ confirm[e] # "idle" => entry'[e].cooling
        /\ entry[e].server # None => entry'[e].server # None
        /\ entry'[e].inserted => entry[e].inserted \/ Insert(e) \/ InsertRefused(e)
        /\ entry'[e].cause # "none" => entry'[e].inserted
        /\ entry'[e].cause = "none" => entry[e].cause = "none"
        /\ entry'[e].cause = "rejected_credential" => entry[e].cause = "rejected_credential" \/ e \in refused
        /\ entry'[e].cause = "below_minimum" =>
                entry[e].cause = "below_minimum" \/ gitlab[Key(e)] = "below"
        /\ entry'[e].cause = "size_pressure" => entry[e].cause = "size_pressure" \/ e \in LruVictim
    /\ KeysStay

LEMMA StepsGoOnward ==
    ASSUME PoolInv, KindsOfStep
    PROVE  Onward
<1>1. TypeOK /\ \A e \in Requests : entry[e].cause # "none" => entry[e].inserted
  BY DEF PoolInv, CallInv, CallOK
<1>2. CASE Stays
  BY <1>1, <1>2 DEF Stays, Onward
<1>3. ASSUME NEW E, NEW c \in Cause, Drops(E, c) PROVE Onward
  <2>1. DropEntries(E, c) /\ KeysStay /\ E \subseteq Pooled
    BY <1>3, SameKeys DEF Drops
  <2>2. entry' \in [Requests -> Entry]
    <3>1. \A e \in Requests : entry'[e] \in Entry
      BY <1>1, <2>1, DroppedEntry
    <3>2. QED
      BY <2>1, <3>1 DEF DropEntries
  <2>3. \A e \in Requests : e \in E => entry[e].inserted
    BY <2>1 DEF PoolInv, PoolIsLinked, Pooled
  <2>4. \A e \in Requests :
           /\ entry'[e].inserted = entry[e].inserted
           /\ entry'[e].rejected = entry[e].rejected /\ entry'[e].server = entry[e].server
           /\ entry'[e].cooling = entry[e].cooling
           /\ entry'[e].cause = IF e \in E THEN c ELSE entry[e].cause
    BY <1>1, <2>1, DroppedEntry
  <2>5. (c = "none" => E = {}) /\ Deserved(E, c)
    BY <1>3 DEF Drops
  <2>6. QED
    BY <1>1, <2>1, <2>2, <2>3, <2>4, <2>5 DEF Onward, Deserved
<1>4. ASSUME NEW d \in Requests, Touches(d) PROVE Onward
  <2>1. entry' = [entry EXCEPT ![d].used = now] /\ KeysStay
    BY <1>4 DEF Touches
  <2>2. \A e \in Requests :
           /\ entry'[e] \in Entry
           /\ entry'[e].inserted = entry[e].inserted /\ entry'[e].cause = entry[e].cause
           /\ entry'[e].rejected = entry[e].rejected /\ entry'[e].server = entry[e].server
           /\ entry'[e].cooling = entry[e].cooling
    BY <1>1, <2>1, TouchedEntry
  <2>3. entry' \in [Requests -> Entry]
    BY <1>1, <2>1, <2>2 DEF TypeOK
  <2>4. QED
    BY <1>1, <2>1, <2>2, <2>3 DEF Onward
<1>5. ASSUME NEW r \in Requests, Insert(r) \/ InsertRefused(r) PROVE Onward
  <2>1. PICK c \in {"none", "rebuild"} : \/ Insert(r) /\ c = "none"
                                         \/ InsertRefused(r) /\ c = "rebuild"
    BY <1>5
  <2>2. \A e \in Requests :
           /\ entry'[e] \in Entry
           /\ entry'[e].inserted = (entry[e].inserted \/ e = r)
           /\ entry'[e].rejected = entry[e].rejected /\ entry'[e].server = entry[e].server
           /\ entry'[e].cooling = entry[e].cooling
           /\ entry'[e].cause = IF e = r THEN c
                                ELSE IF e \in Evicted THEN "size_pressure" ELSE entry[e].cause
    BY <2>1, InsertedEntry
  <2>3. entry' \in [Requests -> Entry]
    <3>1. entry' = [e \in Requests |-> entry'[e]]
      BY <1>5 DEF Insert, InsertRefused
    <3>2. QED
      BY <2>2, <3>1
  <2>4. KeysStay /\ Evicted \subseteq Pooled /\ ~entry[r].inserted
    BY <1>5, InsertingIsNew
  <2>5. \A e \in Requests : e \in Evicted => entry[e].inserted
    BY <2>4 DEF PoolInv, PoolIsLinked, Pooled
  <2>6. Evicted \subseteq LruVictim
    BY DEF Evicted
  <2>7. QED
    BY <1>1, <1>5, <2>1, <2>2, <2>3, <2>4, <2>5, <2>6 DEF Onward
<1>6. CASE IdleSweep
  <2>1. \A e \in Requests :
           /\ entry'[e] \in Entry
           /\ entry'[e].inserted = entry[e].inserted
           /\ entry'[e].rejected = entry[e].rejected /\ entry'[e].server = entry[e].server
           /\ entry'[e].cooling = entry[e].cooling
           /\ entry'[e].cause = IF e \in Unused \ busy THEN "idle" ELSE entry[e].cause
    BY <1>6, IdleEntry
  <2>2. \A e \in Requests : e \in Unused => entry[e].inserted
    BY DEF PoolInv, PoolIsLinked, Pooled, Unused
  <2>3. entry' \in [Requests -> Entry] /\ KeysStay
    BY <1>6, <2>1, SameKeys DEF IdleSweep, calls
  <2>4. QED
    BY <1>1, <2>1, <2>2, <2>3 DEF Onward
<1>7. QED
  BY <1>2, <1>3, <1>4, <1>5, <1>6 DEF KindsOfStep

LEMMA StepsKeepList ==
    ASSUME PoolInv, KindsOfStep
    PROVE  PoolIsLinked' /\ ByUse'
BY StaysKeepsList, DropsKeepsList, TouchesKeepsList, InsertKeepsList, InsertRefusedKeepsList,
   IdleSweepKeepsList DEF KindsOfStep

-----------------------------------------------------------------------------
(* The calls *)

(* Whoever does not move is as it was. *)
LEMMA BystanderOK ==
    ASSUME PoolInv, Onward, NEW e \in Requests, pc'[e] = pc[e], arg'[e] = arg[e]
    PROVE  CallOK(e)'
<1>1. CallOK(e) /\ arg[e] \in Arg
  BY DEF PoolInv, CallInv, TypeOK
<1>2. arg[e].cached \in Requests \cup {None} /\ arg[e].result \in Requests \cup {None}
  BY <1>1 DEF Arg
<1>3. Key(e)' = Key(e)
  BY DEF Key
<1>4. entry'[e].inserted => pc[e] \in {"built", "done"}
  <2>1. pc \in [Requests -> CallPc]
    BY DEF PoolInv, TypeOK
  <2>2. ~Insert(e) /\ ~InsertRefused(e)
    BY <2>1 DEF Insert, InsertRefused, Built
  <2>3. QED
    BY <1>1, <2>2 DEF Onward, CallOK
<1>5. /\ arg[e].cached # None => entry'[arg[e].cached].inserted
      /\ arg[e].result # None => entry'[arg[e].result].inserted
  BY <1>1, <1>2 DEF Onward, CallOK
<1>6. pc[e] = "rejected" => entry'[arg[e].cached].rejected
  BY <1>1, <1>2 DEF Onward, CallOK
<1>7. pc[e] = "insert" => entry'[e].server # None
  BY <1>1 DEF Onward, CallOK
<1>8. entry'[e].cause # "none" => entry'[e].inserted
  BY DEF Onward
<1>9. QED
  BY <1>1, <1>3, <1>4, <1>5, <1>6, <1>7, <1>8 DEF CallOK

LEMMA NobodyMoves ==
    ASSUME PoolInv, Onward, UNCHANGED calls
    PROVE  CallInv'
BY BystanderOK DEF calls, CallInv

LEMMA OneMoves ==
    ASSUME PoolInv, Onward, NEW r \in Requests, CallOK(r)',
           \A e \in Requests \ {r} : pc'[e] = pc[e] /\ arg'[e] = arg[e]
    PROVE  CallInv'
BY BystanderOK DEF CallInv

(* A call goes on with what it holds. *)
LEMMA GoesOn ==
    ASSUME PoolInv, Onward, NEW r \in Requests, NEW x, pc' = [pc EXCEPT ![r] = x], arg' = arg,
           pc[r] # "idle",
           x \notin {"idle", "hit", "rejected", "stale", "joined"},
           x = "insert" => entry'[r].server # None,
           x \in {"built", "done"} \/ pc[r] \notin {"insert", "built", "done"}
    PROVE  CallInv'
<1>1. CallOK(r) /\ arg[r] \in Arg /\ pc \in [Requests -> CallPc]
  BY DEF PoolInv, CallInv, TypeOK
<1>2. arg[r].cached \in Requests \cup {None} /\ arg[r].result \in Requests \cup {None}
  BY <1>1 DEF Arg
<1>3. Key(r)' = Key(r) /\ pc'[r] = x
  BY <1>1 DEF Key
<1>4. entry'[r].inserted => x \in {"built", "done"}
  BY <1>1 DEF Onward, CallOK, Insert, InsertRefused
<1>5. /\ arg[r].cached # None => entry'[arg[r].cached].inserted
      /\ arg[r].result # None => entry'[arg[r].result].inserted
      /\ entry'[r].cause # "none" => entry'[r].inserted
  BY <1>1, <1>2 DEF Onward, CallOK
<1>6. CallOK(r)'
  BY <1>1, <1>3, <1>4, <1>5 DEF CallOK
<1>7. QED
  BY <1>1, <1>6, OneMoves

(* A build ends, or a call is served, with an entry that was inserted. *)
LEMMA EndsWith ==
    ASSUME PoolInv, Onward, NEW r \in Requests, NEW d \in Requests \cup {None}, NEW x \in {"built", "done"},
           pc' = [pc EXCEPT ![r] = x], arg' = [arg EXCEPT ![r].result = d],
           pc[r] # "idle", d # None => entry'[d].inserted
    PROVE  CallInv'
<1>1. CallOK(r) /\ arg \in [Requests -> Arg] /\ pc \in [Requests -> CallPc]
  BY DEF PoolInv, CallInv, TypeOK
<1>2. arg[r] \in Arg /\ arg[r].cached \in Requests \cup {None}
  BY <1>1 DEF Arg
<1>3. arg'[r] = [arg[r] EXCEPT !.result = d] /\ pc'[r] = x
  BY <1>1
<1>4. arg'[r].key = arg[r].key /\ arg'[r].cached = arg[r].cached /\ arg'[r].result = d
  BY <1>2, <1>3 DEF Arg
<1>5. /\ arg[r].cached # None => entry'[arg[r].cached].inserted
      /\ entry'[r].cause # "none" => entry'[r].inserted
  BY <1>1, <1>2 DEF Onward, CallOK
<1>6. Key(r)' = Key(r)
  BY <1>4 DEF Key
<1>7. CallOK(r)'
  BY <1>1, <1>3, <1>4, <1>5, <1>6 DEF CallOK
<1>8. QED
  BY <1>1, <1>7, OneMoves

LEMMA BuildsEnd ==
    ASSUME PoolInv, Onward, NEW r \in Requests, NEW d \in Requests \cup {None}, Built(r, d),
           pc[r] # "idle", d # None => entry'[d].inserted
    PROVE  CallInv'
BY EndsWith DEF Built

LEMMA LookupKeepsCalls ==
    ASSUME PoolInv, Onward, NEW r \in Requests, NEW k \in Keys, Lookup(r, k)
    PROVE  CallInv'
<1>1. /\ TypeOK /\ PoolIsLinked /\ CallOK(r) /\ arg \in [Requests -> Arg] /\ pc \in [Requests -> CallPc]
      /\ pc[r] = "idle" /\ k # None
  BY DEF PoolInv, CallInv, TypeOK, Lookup
<1>2. arg[r] \in Arg /\ arg[r].result \in Requests \cup {None}
  BY <1>1 DEF Arg
<1>3. arg'[r] = [arg[r] EXCEPT !.key = k, !.cached = entries[k]]
  BY <1>1 DEF Lookup
<1>4. arg'[r].key = k /\ arg'[r].cached = entries[k] /\ arg'[r].result = arg[r].result
  BY <1>2, <1>3 DEF Arg
<1>5. pc'[r] = IF entries[k] = None THEN "miss" ELSE Found(entries[k])
  BY <1>1 DEF Lookup
<1>6. entry' = entry
  BY DEF Lookup
<1>7. entries[k] # None => entries[k] \in Requests /\ entry[entries[k]].inserted
  BY <1>1, PooledAreInserted
<1>8. pc'[r] \in {"miss", "hit", "rejected", "stale"}
  BY <1>5 DEF Found
<1>9. pc'[r] # "miss" => entries[k] # None
  BY <1>5
<1>10. pc'[r] = "rejected" => entry[entries[k]].rejected
  BY <1>5 DEF Found
<1>11. /\ ~entry[r].inserted /\ entry[r].cause = "none"
       /\ arg[r].result # None => entry[arg[r].result].inserted
  BY <1>1 DEF CallOK
<1>12. CallOK(r)'
  BY <1>1, <1>4, <1>6, <1>7, <1>8, <1>9, <1>10, <1>11 DEF CallOK, Key
<1>13. QED
  BY <1>1, <1>12, OneMoves DEF Lookup

LEMMA JoinKeepsCalls ==
    ASSUME PoolInv, Onward, NEW r \in Requests, Join(r)
    PROVE  CallInv'
<1>1. /\ TypeOK /\ CallOK(r) /\ arg \in [Requests -> Arg] /\ pc \in [Requests -> CallPc]
      /\ pc[r] = "miss" /\ building[Key(r)] # None
  BY DEF PoolInv, CallInv, TypeOK, Join
<1>2. arg[r] \in Arg
  BY <1>1
<1>3. arg'[r] = [arg[r] EXCEPT !.leader = building[Key(r)]] /\ pc'[r] = "joined" /\ entry' = entry
  BY <1>1 DEF Join
<1>4. /\ arg'[r].key = arg[r].key /\ arg'[r].cached = arg[r].cached
      /\ arg'[r].result = arg[r].result /\ arg'[r].leader # None
  BY <1>1, <1>2, <1>3 DEF Arg
<1>5. CallOK(r)'
  BY <1>1, <1>3, <1>4 DEF CallOK, Key
<1>6. QED
  BY <1>1, <1>5, OneMoves DEF Join

LEMMA JoinerReturnsKeepsCalls ==
    ASSUME PoolInv, Onward, NEW r \in Requests, JoinerReturns(r)
    PROVE  CallInv'
<1>1. CallInv /\ CallOK(r) /\ arg \in [Requests -> Arg] /\ pc[r] = "joined"
  BY DEF PoolInv, CallInv, TypeOK, JoinerReturns
<1>2. arg[r].leader \in Requests
  BY <1>1 DEF Arg, CallOK
<1>3. PICK d \in Requests \cup {None} : d = arg[arg[r].leader].result
  BY <1>1, <1>2 DEF Arg
<1>4. d # None => entry[d].inserted
  BY <1>1, <1>2, <1>3 DEF CallInv, CallOK
<1>5. pc' = [pc EXCEPT ![r] = "done"] /\ arg' = [arg EXCEPT ![r].result = d] /\ entry' = entry
  BY <1>3 DEF JoinerReturns
<1>6. QED
  BY <1>1, <1>4, <1>5, EndsWith

LEMMA FastPathKeepsCalls ==
    ASSUME PoolInv, Onward, NEW r \in Requests, FastPath(r)
    PROVE  CallInv'
<1>1. CallOK(r) /\ arg \in [Requests -> Arg]
  BY DEF PoolInv, CallInv, TypeOK
<1>2. CASE Hit(r)
  <2>1. PICK d \in Requests \cup {None} : d = arg[r].cached
    BY <1>1 DEF Arg
  <2>2. d # None => entry'[d].inserted
    BY <1>1, <2>1 DEF CallOK, Onward
  <2>3. /\ pc' = [pc EXCEPT ![r] = "done"] /\ arg' = [arg EXCEPT ![r].result = d]
        /\ pc[r] # "idle"
    BY <1>2, <2>1 DEF Hit
  <2>4. QED
    BY <2>2, <2>3, EndsWith
<1>3. CASE DropRejected(r) \/ EvictStale(r)
  <2>1. /\ pc' = [pc EXCEPT ![r] = "miss"] /\ arg' = arg
        /\ pc[r] \in {"rejected", "stale"}
    BY <1>3 DEF DropRejected, EvictStale
  <2>2. QED
    BY <2>1, GoesOn
<1>4. CASE Lead(r)
  <2>1. pc[r] = "miss" /\ (Built(r, None) \/ (pc' = [pc EXCEPT ![r] = "slot"] /\ arg' = arg))
    BY <1>4 DEF Lead
  <2>2. QED
    BY <2>1, GoesOn, BuildsEnd
<1>5. CASE Join(r)
  BY <1>5, JoinKeepsCalls
<1>6. QED
  BY <1>2, <1>3, <1>4, <1>5 DEF FastPath

LEMMA BuildingKeepsCalls ==
    ASSUME PoolInv, Onward, NEW r \in Requests, Building(r)
    PROVE  CallInv'
<1>1. ASSUME Built(r, None), pc[r] # "idle" PROVE CallInv'
  BY <1>1, BuildsEnd
<1>2. ASSUME NEW x \in {"verify", "facts", "grantSlot", "grant", "factory"},
             pc' = [pc EXCEPT ![r] = x], arg' = arg,
             pc[r] \in {"slot", "verify", "facts", "grantSlot", "grant", "factory"}
      PROVE  CallInv'
  BY <1>2, GoesOn
<1>3. CASE TakeSlot(r)
  <2>1. \/ pc[r] = "slot" /\ pc' = [pc EXCEPT ![r] = "verify"]
        \/ pc[r] = "grantSlot" /\ pc' = [pc EXCEPT ![r] = "grant"]
    BY <1>3 DEF TakeSlot, PoolInv, TypeOK
  <2>2. arg' = arg
    BY <1>3 DEF TakeSlot
  <2>3. QED
    BY <1>2, <2>1, <2>2
<1>4. CASE NoSlot(r)
  BY <1>1, <1>4 DEF NoSlot
<1>5. CASE Verify(r)
  <2>1. pc[r] = "verify" /\ (Built(r, None) \/ (pc' = [pc EXCEPT ![r] = "facts"] /\ arg' = arg))
    BY <1>5 DEF Verify
  <2>2. QED
    BY <1>1, <1>2, <2>1
<1>6. CASE LearnFacts(r)
  <2>1. /\ pc[r] = "facts"
        /\ \/ Built(r, None)
           \/ pc' = [pc EXCEPT ![r] = "factory"] /\ arg' = arg
           \/ pc' = [pc EXCEPT ![r] = "grantSlot"] /\ arg' = arg
    BY <1>6 DEF LearnFacts
  <2>2. QED
    BY <1>1, <1>2, <2>1
<1>7. CASE ReadGrant(r)
  BY <1>2, <1>7 DEF ReadGrant
<1>8. CASE TakeServer(r)
  <2>1. entry'[r].server # None
    BY <1>8, TakeServerStays
  <2>2. pc[r] = "factory" /\ pc' = [pc EXCEPT ![r] = "insert"] /\ arg' = arg
    BY <1>8 DEF TakeServer
  <2>3. QED
    BY <2>1, <2>2, GoesOn
<1>9. CASE BuildFails(r)
  BY <1>1, <1>9 DEF BuildFails
<1>10. QED
  BY <1>3, <1>4, <1>5, <1>6, <1>7, <1>8, <1>9 DEF Building

LEMMA InsertingKeepsCalls ==
    ASSUME PoolInv, Onward, NEW r \in Requests, Inserting(r)
    PROVE  CallInv'
<1>1. TypeOK /\ PoolIsLinked /\ CallOK(r)
  BY DEF PoolInv, CallInv
<1>2. CASE KeepExisting(r)
  <2>1. Key(r) \in Keys
    BY <1>1, <1>2, NamedKeys DEF KeepExisting
  <2>2. entries[Key(r)] \in Requests /\ entry'[entries[Key(r)]].inserted
    BY <1>1, <1>2, <2>1, PooledAreInserted DEF KeepExisting, Onward
  <2>3. Built(r, entries[Key(r)]) /\ pc[r] = "insert"
    BY <1>2 DEF KeepExisting
  <2>4. QED
    BY <2>2, <2>3, BuildsEnd
<1>3. CASE Insert(r) \/ InsertRefused(r)
  <2>1. PICK c \in {"none", "rebuild"} : \/ Insert(r) /\ c = "none"
                                         \/ InsertRefused(r) /\ c = "rebuild"
    BY <1>3
  <2>2. entry'[r].inserted
    BY <2>1, InsertedEntry
  <2>3. Built(r, r) /\ pc[r] = "insert"
    BY <1>3 DEF Insert, InsertRefused
  <2>4. QED
    BY <2>2, <2>3, BuildsEnd
<1>4. CASE Finish(r)
  <2>1. pc[r] = "built" /\ pc' = [pc EXCEPT ![r] = "done"] /\ arg' = arg
    BY <1>4 DEF Finish
  <2>2. QED
    BY <2>1, GoesOn
<1>5. CASE JoinerReturns(r)
  BY <1>5, JoinerReturnsKeepsCalls
<1>6. QED
  BY <1>2, <1>3, <1>4, <1>5 DEF Inserting

(* Whatever is not a step of a call leaves the calls alone. *)
OfCalls == \E r \in Requests : CallStep(r) \/ \E k \in Keys : Lookup(r, k)

LEMMA OthersLeaveCalls ==
    ASSUME [Next]_vars, ~OfCalls
    PROVE  UNCHANGED calls
<1>1. ASSUME NEW r \in Requests, RefusalStep(r) \/ ConfirmStep(r) PROVE UNCHANGED calls
  BY <1>1 DEF RefusalStep, NamedRefusal, EvictRejected, UnexplainedRefusal, CooldownEnds,
              ConfirmStep, ConfirmStarts, ConfirmAnswered, ConfirmEvicts, ConfirmKeeps,
              ConfirmLearnsNothing, ConfirmReturns
<1>2. ASSUME NEW r \in Requests, SweepTurn(r) PROVE UNCHANGED calls
  BY <1>2 DEF SweepTurn, SweepTakes, SweepAnswered, SweepEvicts, SweepKeeps, SweepUndecided,
              SweepRedetects, TurnEnds
<1>3. ASSUME NEW r \in Requests, RegistrationStep(r) \/ Subscribes(r) PROVE UNCHANGED calls
  BY <1>3 DEF RegistrationStep, RegistrationEnds, ForgetShape, EvictServer, MarkFailed,
              RegisterStep, Subscribes
<1>4. CASE SweepStarts \/ IdleSweep \/ LifetimeEnds \/ Close \/ Tick \/ \E k \in Keys : StandingChanges(k)
  BY <1>4 DEF SweepStarts, IdleSweep, LifetimeEnds, Close, Tick, StandingChanges
<1>5. CASE UNCHANGED vars
  BY <1>5 DEF vars
<1>6. QED
  BY <1>1, <1>2, <1>3, <1>4, <1>5 DEF Next, OfCalls

LEMMA StepsKeepCalls ==
    ASSUME PoolInv, [Next]_vars, Onward
    PROVE  CallInv'
BY OthersLeaveCalls, NobodyMoves, LookupKeepsCalls, FastPathKeepsCalls, BuildingKeepsCalls,
   InsertingKeepsCalls DEF OfCalls, CallStep

-----------------------------------------------------------------------------
(* The probe slots *)

Probing    == {r \in Requests : pc[r] \in {"verify", "grant"}}
Confirming == {e \in Requests : confirm[e] \notin {"idle", "started"}}

LEMMA HoldersAreCounted ==
    ASSUME PoolInv
    PROVE  /\ IsFiniteSet(Probing) /\ IsFiniteSet(Confirming)
           /\ Cardinality(Probing) \in Nat /\ Cardinality(Confirming) \in Nat
           /\ probes = Cardinality(Probing) + Cardinality(Confirming) /\ probes <= ProbeSlots
<1>1. IsFiniteSet(Probing) /\ IsFiniteSet(Confirming)
  BY FS_Subset, PoolFiniteAssumption DEF Probing, Confirming
<1>2. QED
  BY <1>1, FS_CardinalityType DEF PoolInv, ProbesAreHeld, Probing, Confirming

LEMMA ProbesHeld ==
    ASSUME probes' = Cardinality(Probing') + Cardinality(Confirming'), probes' <= ProbeSlots,
           Cardinality(Probing') \in Nat, Cardinality(Confirming') \in Nat
    PROVE  ProbesAreHeld' /\ probes' \in Nat
BY DEF ProbesAreHeld, Probing, Confirming

(* A step that takes no slot and gives none back. *)
LEMMA NoSlotMoves ==
    ASSUME PoolInv, Probing' = Probing, Confirming' = Confirming, probes' = probes
    PROVE  ProbesAreHeld' /\ probes' \in Nat
BY HoldersAreCounted, ProbesHeld

(* A slot taken, and given back, with the holder it had. *)
LEMMA SlotMoves ==
    ASSUME PoolInv, NEW r \in Requests,
           \/ /\ probes' = probes + 1 /\ probes < ProbeSlots
              /\ \/ Probing' = Probing \cup {r} /\ r \notin Probing /\ Confirming' = Confirming
                 \/ Confirming' = Confirming \cup {r} /\ r \notin Confirming /\ Probing' = Probing
           \/ /\ probes' = probes - 1
              /\ \/ Probing' = Probing \ {r} /\ r \in Probing /\ Confirming' = Confirming
                 \/ Confirming' = Confirming \ {r} /\ r \in Confirming /\ Probing' = Probing
    PROVE  ProbesAreHeld' /\ probes' \in Nat
<1>1. /\ IsFiniteSet(Probing) /\ IsFiniteSet(Confirming)
      /\ Cardinality(Probing) \in Nat /\ Cardinality(Confirming) \in Nat
      /\ probes = Cardinality(Probing) + Cardinality(Confirming) /\ probes <= ProbeSlots
  BY HoldersAreCounted
<1>2. /\ r \notin Probing => Cardinality(Probing \cup {r}) = Cardinality(Probing) + 1
      /\ r \notin Confirming => Cardinality(Confirming \cup {r}) = Cardinality(Confirming) + 1
  BY <1>1, FS_AddElement
<1>3. /\ r \in Probing => Cardinality(Probing \ {r}) = Cardinality(Probing) - 1
                          /\ Cardinality(Probing \ {r}) \in Nat
      /\ r \in Confirming => Cardinality(Confirming \ {r}) = Cardinality(Confirming) - 1
                             /\ Cardinality(Confirming \ {r}) \in Nat
  BY <1>1, FS_RemoveElement, FS_CardinalityType
<1>4. /\ probes' = Cardinality(Probing') + Cardinality(Confirming') /\ probes' <= ProbeSlots
      /\ Cardinality(Probing') \in Nat /\ Cardinality(Confirming') \in Nat
  <2>1. CASE Probing' = Probing \cup {r} /\ r \notin Probing /\ Confirming' = Confirming
             /\ probes' = probes + 1 /\ probes < ProbeSlots
    BY <1>1, <1>2, <2>1
  <2>2. CASE Confirming' = Confirming \cup {r} /\ r \notin Confirming /\ Probing' = Probing
             /\ probes' = probes + 1 /\ probes < ProbeSlots
    BY <1>1, <1>2, <2>2
  <2>3. CASE Probing' = Probing \ {r} /\ r \in Probing /\ Confirming' = Confirming
             /\ probes' = probes - 1
    BY <1>1, <1>3, <2>3
  <2>4. CASE Confirming' = Confirming \ {r} /\ r \in Confirming /\ Probing' = Probing
             /\ probes' = probes - 1
    BY <1>1, <1>3, <2>4
  <2>5. QED
    BY <2>1, <2>2, <2>3, <2>4
<1>5. QED
  BY <1>4, ProbesHeld

LEMMA ProbingMoves ==
    ASSUME PoolInv, NEW r \in Requests, NEW x, pc' = [pc EXCEPT ![r] = x]
    PROVE  Probing' = IF x \in {"verify", "grant"} THEN Probing \cup {r} ELSE Probing \ {r}
<1>1. pc \in [Requests -> CallPc]
  BY DEF PoolInv, TypeOK
<1>2. QED
  BY <1>1 DEF Probing

LEMMA ConfirmingMoves ==
    ASSUME PoolInv, NEW e \in Requests, NEW x, confirm' = [confirm EXCEPT ![e] = x]
    PROVE  Confirming' = IF x \notin {"idle", "started"} THEN Confirming \cup {e} ELSE Confirming \ {e}
<1>1. confirm \in [Requests -> {"idle", "started", "probing"} \cup Verdict]
  BY DEF PoolInv, TypeOK
<1>2. QED
  BY <1>1 DEF Confirming

(* A call moves between stages that hold no slot. *)
LEMMA MovesWithoutSlot ==
    ASSUME PoolInv, NEW r \in Requests, NEW x, pc' = [pc EXCEPT ![r] = x],
           x \notin {"verify", "grant"}, pc[r] \notin {"verify", "grant"},
           UNCHANGED <<probes, confirm>>
    PROVE  ProbesAreHeld' /\ probes' \in Nat
<1>1. Probing' = Probing
  BY ProbingMoves DEF Probing
<1>2. Confirming' = Confirming
  BY DEF Confirming
<1>3. QED
  BY <1>1, <1>2, NoSlotMoves

LEMMA CallsKeepProbes ==
    ASSUME PoolInv, NEW r \in Requests, CallStep(r) \/ \E k \in Keys : Lookup(r, k)
    PROVE  ProbesAreHeld' /\ probes' \in Nat
<1>1. CASE UNCHANGED <<probes, confirm>> /\ \E x : /\ pc' = [pc EXCEPT ![r] = x]
                                                    /\ x \notin {"verify", "grant"}
                                                    /\ pc[r] \notin {"verify", "grant"}
  BY <1>1, MovesWithoutSlot
<1>2. ASSUME NEW k \in Keys, Lookup(r, k) PROVE ProbesAreHeld' /\ probes' \in Nat
  <2>1. PICK x : x = IF entries[k] = None THEN "miss" ELSE Found(entries[k])
    OBVIOUS
  <2>2. x \notin {"verify", "grant"}
    BY <2>1 DEF Found
  <2>3. pc' = [pc EXCEPT ![r] = x] /\ pc[r] = "idle" /\ UNCHANGED <<probes, confirm>>
    BY <1>2, <2>1 DEF Lookup, checks
  <2>4. QED
    BY <1>1, <2>2, <2>3
<1>3. CASE FastPath(r)
  <2>1. UNCHANGED <<probes, confirm>>
    BY <1>3 DEF FastPath, Hit, DropRejected, EvictStale, Lead, Join, checks
  <2>2. \E x \in {"done", "miss", "built", "slot", "joined"} : pc' = [pc EXCEPT ![r] = x]
    BY <1>3 DEF FastPath, Hit, DropRejected, EvictStale, Lead, Join, Built
  <2>3. pc[r] \notin {"verify", "grant"}
    BY <1>3 DEF FastPath, Hit, DropRejected, EvictStale, Lead, Join
  <2>4. QED
    BY <1>1, <2>1, <2>2, <2>3
<1>4. CASE Inserting(r)
  <2>1. UNCHANGED <<probes, confirm>>
    BY <1>4 DEF Inserting, KeepExisting, Insert, InsertRefused, Finish, JoinerReturns, checks
  <2>2. \E x \in {"built", "done"} : pc' = [pc EXCEPT ![r] = x]
    BY <1>4 DEF Inserting, KeepExisting, Insert, InsertRefused, Finish, JoinerReturns, Built
  <2>3. pc[r] \notin {"verify", "grant"}
    BY <1>4 DEF Inserting, KeepExisting, Insert, InsertRefused, Finish, JoinerReturns
  <2>4. QED
    BY <1>1, <2>1, <2>2, <2>3
<1>5. CASE NoSlot(r) \/ LearnFacts(r) \/ TakeServer(r) \/ BuildFails(r)
  <2>1. UNCHANGED <<probes, confirm>>
    BY <1>5 DEF NoSlot, LearnFacts, TakeServer, BuildFails, checks
  <2>2. \E x \in {"built", "factory", "grantSlot", "insert"} : pc' = [pc EXCEPT ![r] = x]
    BY <1>5 DEF NoSlot, LearnFacts, TakeServer, BuildFails, Built
  <2>3. pc[r] \notin {"verify", "grant"}
    BY <1>5 DEF NoSlot, LearnFacts, TakeServer, BuildFails
  <2>4. QED
    BY <1>1, <2>1, <2>2, <2>3
<1>6. CASE TakeSlot(r)
  <2>1. /\ probes' = probes + 1 /\ probes < ProbeSlots /\ confirm' = confirm
        /\ pc[r] \in {"slot", "grantSlot"}
        /\ pc' = [pc EXCEPT ![r] = IF pc[r] = "slot" THEN "verify" ELSE "grant"]
    BY <1>6 DEF TakeSlot, checks, PoolInv, TypeOK
  <2>2. Probing' = Probing \cup {r} /\ r \notin Probing
    BY <2>1, ProbingMoves DEF Probing
  <2>3. Confirming' = Confirming
    BY <2>1 DEF Confirming
  <2>4. QED
    BY <2>1, <2>2, <2>3, SlotMoves
<1>7. CASE Verify(r) \/ ReadGrant(r)
  <2>1. probes' = probes - 1 /\ confirm' = confirm /\ pc[r] \in {"verify", "grant"}
    BY <1>7 DEF Verify, ReadGrant, checks
  <2>2. \E x \in {"facts", "built", "factory"} : pc' = [pc EXCEPT ![r] = x]
    BY <1>7 DEF Verify, ReadGrant, Built
  <2>3. Probing' = Probing \ {r} /\ r \in Probing
    BY <2>1, <2>2, ProbingMoves DEF Probing
  <2>4. Confirming' = Confirming
    BY <2>1 DEF Confirming
  <2>5. QED
    BY <2>1, <2>3, <2>4, SlotMoves
<1>8. QED
  BY <1>2, <1>3, <1>4, <1>5, <1>6, <1>7 DEF CallStep, Building

LEMMA ConfirmsKeepProbes ==
    ASSUME PoolInv, NEW e \in Requests, ConfirmStep(e) \/ UnexplainedRefusal(e)
    PROVE  ProbesAreHeld' /\ probes' \in Nat
<1>1. Probing' = Probing
  <2>1. pc' = pc
    BY DEF ConfirmStep, ConfirmStarts, ConfirmAnswered, ConfirmEvicts, ConfirmKeeps,
           ConfirmLearnsNothing, ConfirmReturns, UnexplainedRefusal, calls
  <2>2. QED
    BY <2>1 DEF Probing
<1>2. CASE ConfirmStarts(e)
  <2>1. confirm[e] = "started"
    BY <1>2 DEF ConfirmStarts
  <2>2. CASE Current(e) /\ probes < ProbeSlots
    <3>1. probes' = probes + 1 /\ confirm' = [confirm EXCEPT ![e] = "probing"]
      BY <1>2, <2>2 DEF ConfirmStarts
    <3>2. Confirming' = Confirming \cup {e} /\ e \notin Confirming
      <4>1. e \notin Confirming
        BY <2>1 DEF Confirming
      <4>2. PICK x : x = "probing"
        OBVIOUS
      <4>3. confirm' = [confirm EXCEPT ![e] = x] /\ x \notin {"idle", "started"}
        BY <3>1, <4>2
      <4>4. Confirming' = Confirming \cup {e}
        BY <4>3, ConfirmingMoves
      <4>5. QED
        BY <4>1, <4>4
    <3>3. QED
      BY <1>1, <2>2, <3>1, <3>2, SlotMoves
  <2>3. CASE ~(Current(e) /\ probes < ProbeSlots)
    <3>1. probes' = probes /\ confirm' = [confirm EXCEPT ![e] = "idle"]
      BY <1>2, <2>3 DEF ConfirmStarts
    <3>2. Confirming' = Confirming
      BY <2>1, <3>1, ConfirmingMoves DEF Confirming
    <3>3. QED
      BY <1>1, <3>1, <3>2, NoSlotMoves
  <2>4. QED
    BY <2>2, <2>3
<1>3. CASE ConfirmAnswered(e)
  <2>1. confirm[e] = "probing" /\ probes' = probes
    BY <1>3 DEF ConfirmAnswered
  <2>2. PICK v \in Answers(Key(e)) : confirm' = [confirm EXCEPT ![e] = v]
    BY <1>3 DEF ConfirmAnswered
  <2>3. v \in Verdict
    <3>1. entry[e].inserted
      BY <2>1 DEF PoolInv, CheckInv, CheckOK
    <3>2. Key(e) \in Keys
      BY <3>1, NamedKeys DEF PoolInv, CallInv, CallOK
    <3>3. gitlab[Key(e)] \in Standing
      BY <3>2 DEF PoolInv, TypeOK
    <3>4. QED
      BY <2>2, <3>3 DEF Answers, Standing, Verdict
  <2>4. Confirming' = Confirming
    BY <2>1, <2>2, <2>3, ConfirmingMoves DEF Confirming, Verdict
  <2>5. QED
    BY <1>1, <2>1, <2>4, NoSlotMoves
<1>4. CASE ConfirmEvicts(e) \/ ConfirmKeeps(e) \/ ConfirmLearnsNothing(e)
  <2>1. probes' = probes - 1 /\ confirm' = [confirm EXCEPT ![e] = "idle"]
    BY <1>4 DEF ConfirmEvicts, ConfirmKeeps, ConfirmLearnsNothing, ConfirmReturns
  <2>2. confirm[e] \notin {"idle", "started"}
    BY <1>4 DEF ConfirmEvicts, ConfirmKeeps, ConfirmLearnsNothing
  <2>3. Confirming' = Confirming \ {e} /\ e \in Confirming
    BY <2>1, <2>2, ConfirmingMoves DEF Confirming
  <2>4. QED
    BY <1>1, <2>1, <2>3, SlotMoves
<1>5. CASE UnexplainedRefusal(e)
  <2>1. probes' = probes /\ confirm' = [confirm EXCEPT ![e] = "started"] /\ ~entry[e].cooling
    BY <1>5 DEF UnexplainedRefusal
  <2>2. confirm[e] \in {"idle", "started"}
    BY <2>1 DEF PoolInv, CheckInv, CheckOK
  <2>3. Confirming' = Confirming
    BY <2>1, <2>2, ConfirmingMoves DEF Confirming
  <2>4. QED
    BY <1>1, <2>1, <2>3, NoSlotMoves
<1>6. QED
  BY <1>2, <1>3, <1>4, <1>5 DEF ConfirmStep

(* The steps that are of no call and of no confirmation. *)
LEMMA OthersLeaveProbes ==
    ASSUME [Next]_vars, ~OfCalls,
           ~\E e \in Requests : ConfirmStep(e) \/ UnexplainedRefusal(e)
    PROVE  UNCHANGED <<probes, confirm, pc>>
<1>1. ASSUME NEW r \in Requests, NamedRefusal(r) \/ EvictRejected(r) \/ CooldownEnds(r)
      PROVE  UNCHANGED <<probes, confirm, pc>>
  BY <1>1 DEF NamedRefusal, EvictRejected, CooldownEnds, calls, checks
<1>2. ASSUME NEW r \in Requests, SweepTurn(r) PROVE UNCHANGED <<probes, confirm, pc>>
  BY <1>2 DEF SweepTurn, SweepTakes, SweepAnswered, SweepEvicts, SweepKeeps, SweepUndecided,
              SweepRedetects, TurnEnds, calls
<1>3. ASSUME NEW r \in Requests, RegistrationStep(r) \/ Subscribes(r)
      PROVE  UNCHANGED <<probes, confirm, pc>>
  BY <1>3 DEF RegistrationStep, RegistrationEnds, ForgetShape, EvictServer, MarkFailed,
              RegisterStep, Subscribes, calls, checks
<1>4. CASE SweepStarts \/ IdleSweep \/ LifetimeEnds \/ Close \/ Tick \/ \E k \in Keys : StandingChanges(k)
  BY <1>4 DEF SweepStarts, IdleSweep, LifetimeEnds, Close, Tick, StandingChanges, calls, checks
<1>5. CASE UNCHANGED vars
  BY <1>5 DEF vars, calls, checks
<1>6. QED
  BY <1>1, <1>2, <1>3, <1>4, <1>5 DEF Next, OfCalls, RefusalStep

LEMMA StepsKeepProbes ==
    ASSUME PoolInv, [Next]_vars
    PROVE  ProbesAreHeld' /\ probes' \in Nat
<1>1. ASSUME UNCHANGED <<probes, confirm, pc>> PROVE ProbesAreHeld' /\ probes' \in Nat
  <2>1. Probing' = Probing /\ Confirming' = Confirming
    BY <1>1 DEF Probing, Confirming
  <2>2. QED
    BY <1>1, <2>1, NoSlotMoves
<1>2. QED
  BY <1>1, OthersLeaveProbes, CallsKeepProbes, ConfirmsKeepProbes DEF OfCalls

-----------------------------------------------------------------------------
(* Who writes what *)

OfChecks == \E e \in Requests : RefusalStep(e) \/ ConfirmStep(e) \/ SweepTurn(e)
OfWorld  == LifetimeEnds \/ \E k \in Keys : StandingChanges(k)

LEMMA CallsWrite ==
    ASSUME NEW r \in Requests, CallStep(r) \/ \E k \in Keys : Lookup(r, k)
    PROVE  /\ UNCHANGED <<gitlab, lifetime, evicting, confirm, sweep>>
           /\ Verify(r) \/ UNCHANGED refused
           /\ TakeServer(r) \/ UNCHANGED registry
           /\ Lead(r) \/ Finish(r) \/ UNCHANGED building
<1>1. CASE \E k \in Keys : Lookup(r, k)
  BY <1>1 DEF Lookup, clocks, checks
<1>2. CASE FastPath(r)
  BY <1>2 DEF FastPath, Hit, DropRejected, EvictStale, Lead, Join, clocks, checks
<1>3. CASE Building(r)
  BY <1>3 DEF Building, TakeSlot, NoSlot, Verify, LearnFacts, ReadGrant, TakeServer, BuildFails,
              clocks, checks
<1>4. CASE Inserting(r)
  BY <1>4 DEF Inserting, KeepExisting, Insert, InsertRefused, Finish, JoinerReturns, clocks, checks
<1>5. QED
  BY <1>1, <1>2, <1>3, <1>4 DEF CallStep

LEMMA ChecksWrite ==
    ASSUME NEW e \in Requests, RefusalStep(e) \/ ConfirmStep(e) \/ SweepTurn(e)
    PROVE  UNCHANGED <<gitlab, lifetime, registry, building>>
<1>1. CASE RefusalStep(e)
  BY <1>1 DEF RefusalStep, NamedRefusal, EvictRejected, UnexplainedRefusal, CooldownEnds, clocks
<1>2. CASE ConfirmStep(e)
  BY <1>2 DEF ConfirmStep, ConfirmStarts, ConfirmAnswered, ConfirmEvicts, ConfirmKeeps,
              ConfirmLearnsNothing, ConfirmReturns, clocks
<1>3. CASE SweepTurn(e)
  BY <1>3 DEF SweepTurn, SweepTakes, SweepAnswered, SweepEvicts, SweepKeeps, SweepUndecided,
              SweepRedetects, TurnEnds, clocks
<1>4. QED
  BY <1>1, <1>2, <1>3

LEMMA OthersWrite ==
    ASSUME [Next]_vars, ~OfCalls, ~OfChecks
    PROVE  /\ OfWorld \/ UNCHANGED <<gitlab, lifetime>>
           /\ UNCHANGED <<evicting, confirm, refused, building>>
           /\ SweepStarts \/ UNCHANGED sweep
           /\ (\E s \in Requests : RegistrationStep(s)) \/ UNCHANGED registry
<1>1. ASSUME NEW s \in Requests, RegistrationStep(s)
      PROVE  UNCHANGED <<gitlab, lifetime, evicting, confirm, refused, building, sweep>>
  BY <1>1 DEF RegistrationStep, RegistrationEnds, ForgetShape, EvictServer, MarkFailed,
              RegisterStep, clocks, checks
<1>2. ASSUME NEW s \in Requests, Subscribes(s)
      PROVE  UNCHANGED <<gitlab, lifetime, evicting, confirm, refused, building, sweep, registry>>
  BY <1>2 DEF Subscribes, clocks, checks
<1>3. CASE SweepStarts
  BY <1>3 DEF SweepStarts, clocks
<1>4. CASE OfWorld
  BY <1>4 DEF OfWorld, LifetimeEnds, StandingChanges, checks
<1>5. CASE IdleSweep \/ Close \/ Tick
  BY <1>5 DEF IdleSweep, Close, Tick, clocks, checks
<1>6. CASE UNCHANGED vars
  BY <1>6 DEF vars, clocks, checks
<1>7. QED
  BY <1>1, <1>2, <1>3, <1>4, <1>5, <1>6 DEF Next, OfCalls, OfChecks, OfWorld

LEMMA StandingIsTyped ==
    ASSUME PoolInv, [Next]_vars
    PROVE  /\ gitlab' \in [Keys -> Standing] /\ lifetime' \in {"live", "over"}
           /\ \A k \in Keys : gitlab[k] = "below" => gitlab'[k] = "below"
<1>1. gitlab \in [Keys -> Standing] /\ lifetime \in {"live", "over"}
  BY DEF PoolInv, TypeOK
<1>2. CASE UNCHANGED <<gitlab, lifetime>>
  BY <1>1, <1>2
<1>3. CASE LifetimeEnds
  BY <1>1, <1>3 DEF LifetimeEnds
<1>4. ASSUME NEW k \in Keys, StandingChanges(k)
      PROVE  /\ gitlab' \in [Keys -> Standing] /\ lifetime' = lifetime
             /\ \A x \in Keys : gitlab[x] = "below" => gitlab'[x] = "below"
  <2>1. /\ lifetime' = lifetime
        /\ \/ gitlab[k] = "accepts" /\ gitlab' = [gitlab EXCEPT ![k] = "refuses"]
           \/ gitlab[k] = "refuses" /\ gitlab' = [gitlab EXCEPT ![k] = "accepts"]
    BY <1>4 DEF StandingChanges
  <2>2. QED
    BY <1>1, <2>1 DEF Standing
<1>5. QED
  BY <1>1, <1>2, <1>3, <1>4, CallsWrite, ChecksWrite, OthersWrite DEF OfCalls, OfChecks, OfWorld

(* What a probe answers is a verdict, and what it says is so. *)
LEMMA AnswersAreTrue ==
    ASSUME PoolInv, NEW k \in Keys, NEW v \in Answers(k)
    PROVE  v \in Verdict /\ (v = "belowMinimum" => gitlab[k] = "below")
<1>1. gitlab[k] \in Standing
  BY DEF PoolInv, TypeOK
<1>2. QED
  BY <1>1 DEF Answers, Standing, Verdict

LEMMA CheckedAreNamed ==
    ASSUME PoolInv, NEW e \in Requests, entry[e].inserted
    PROVE  Key(e) \in Keys /\ Admitted(e)
<1>1. CallOK(e) /\ pc[e] \in {"built", "done"}
  BY DEF PoolInv, CallInv, CallOK
<1>2. QED
  BY <1>1, NamedKeys DEF Admitted, PoolInv

-----------------------------------------------------------------------------
(* Types *)

LEMMA EntriesAreTyped ==
    ASSUME PoolInv, KindsOfStep
    PROVE  entries' \in [Keys -> Requests \cup {None}] /\ now' \in 0 .. MaxTime
<1>1. entries \in [Keys -> Requests \cup {None}] /\ now \in 0 .. MaxTime
  BY DEF PoolInv, TypeOK
<1>2. CASE Stays
  BY <1>1, <1>2 DEF Stays
<1>3. ASSUME NEW E, NEW c, Drops(E, c) PROVE entries' \in [Keys -> Requests \cup {None}] /\ now' = now
  BY <1>1, <1>3 DEF Drops, DropEntries
<1>4. ASSUME NEW e, Touches(e) PROVE entries' \in [Keys -> Requests \cup {None}] /\ now' = now
  BY <1>1, <1>4 DEF Touches
<1>5. ASSUME NEW r \in Requests, Insert(r) \/ InsertRefused(r)
      PROVE  entries' \in [Keys -> Requests \cup {None}] /\ now' = now
  <2>1. PICK E : E = Evicted
    OBVIOUS
  <2>2. /\ now' = now
        /\ \/ entries' = [k \in Keys |-> IF k = Key(r) THEN r ELSE IF entries[k] \in E THEN None ELSE entries[k]]
           \/ entries' = [k \in Keys |-> IF entries[k] \in E THEN None ELSE entries[k]]
    BY <1>5, <2>1 DEF Insert, InsertRefused, clocks
  <2>3. QED
    BY <1>1, <2>2
<1>6. CASE IdleSweep
  <2>1. PICK E : E = Unused \ busy
    OBVIOUS
  <2>2. entries' = [k \in Keys |-> IF entries[k] \in E THEN None ELSE entries[k]] /\ now' = now
    BY <1>6, <2>1 DEF IdleSweep, clocks
  <2>3. QED
    BY <1>1, <2>2
<1>7. QED
  BY <1>1, <1>2, <1>3, <1>4, <1>5, <1>6 DEF KindsOfStep

LEMMA BusyAreStates ==
    ASSUME PoolInv, [Next]_vars
    PROVE  busy' \subseteq states'
<1>1. busy \subseteq states
  BY DEF PoolInv, TypeOK
<1>2. ASSUME NEW E, NEW c, DropEntries(E, c) PROVE busy' \subseteq states'
  BY <1>1, <1>2 DEF DropEntries
<1>3. CASE UNCHANGED owned
  BY <1>1, <1>3 DEF owned
<1>4. ASSUME NEW r \in Requests, NEW k \in Keys, Lookup(r, k) PROVE busy' \subseteq states'
  BY <1>3, <1>4 DEF Lookup
<1>5. ASSUME NEW r \in Requests, FastPath(r) PROVE busy' \subseteq states'
  <2>1. CASE UNCHANGED owned
    BY <1>3, <2>1
  <2>2. CASE DropRejected(r)
    BY <1>2, <2>2 DEF DropRejected, DropIfCurrent
  <2>3. CASE EvictStale(r)
    <3>1. DropEntries({e \in Pooled : Key(e) = Key(r) /\ Stale(e)}, "stale_credential")
      BY <2>3 DEF EvictStale
    <3>2. QED
      BY <1>2, <3>1
  <2>4. QED
    BY <1>5, <2>1, <2>2, <2>3 DEF FastPath, Hit, Lead, Join
<1>6. ASSUME NEW r \in Requests, Building(r) PROVE busy' \subseteq states'
  BY <1>3, <1>6 DEF Building, TakeSlot, NoSlot, Verify, LearnFacts, ReadGrant, TakeServer, BuildFails
<1>7. ASSUME NEW r \in Requests, Inserting(r) PROVE busy' \subseteq states'
  <2>1. CASE UNCHANGED owned
    BY <1>3, <2>1
  <2>2. CASE Insert(r) \/ InsertRefused(r)
    BY <1>1, <2>2 DEF Insert, InsertRefused
  <2>3. QED
    BY <1>7, <2>1, <2>2 DEF Inserting, KeepExisting, Finish, JoinerReturns
<1>8. ASSUME NEW e \in Requests, RefusalStep(e) \/ ConfirmStep(e) PROVE busy' \subseteq states'
  <2>1. UNCHANGED owned \/ DropIfCurrent(e, "rejected_credential") \/ DropIfCurrent(e, "below_minimum")
    BY <1>8 DEF RefusalStep, NamedRefusal, EvictRejected, UnexplainedRefusal, CooldownEnds,
                ConfirmStep, ConfirmStarts, ConfirmAnswered, ConfirmEvicts, ConfirmKeeps,
                ConfirmLearnsNothing
  <2>2. QED
    BY <1>2, <1>3, <2>1 DEF DropIfCurrent
<1>9. ASSUME NEW e \in Requests, SweepTurn(e) PROVE busy' \subseteq states'
  <2>1. CASE UNCHANGED owned
    BY <1>3, <2>1
  <2>2. CASE SweepEvicts(e)
    <3>1. \/ DropEntries({d \in Pooled : Key(d) = Key(e)}, "invalid_credential")
          \/ DropIfCurrent(e, "below_minimum")
      BY <2>2 DEF SweepEvicts
    <3>2. QED
      BY <1>2, <3>1 DEF DropIfCurrent
  <2>3. CASE SweepRedetects(e)
    BY <1>2, <1>3, <2>3 DEF SweepRedetects, DropIfCurrent
  <2>4. QED
    BY <1>9, <2>1, <2>2, <2>3 DEF SweepTurn, SweepTakes, SweepAnswered, SweepKeeps, SweepUndecided
<1>10. ASSUME NEW s \in Requests, RegistrationStep(s) PROVE busy' \subseteq states'
  <2>1. CASE UNCHANGED owned
    BY <1>3, <2>1
  <2>2. CASE EvictServer(s)
    <3>1. DropEntries({e \in Pooled : entry[e].server = s}, "rebuild")
      BY <2>2 DEF EvictServer
    <3>2. QED
      BY <1>2, <3>1
  <2>3. QED
    BY <1>10, <2>1, <2>2 DEF RegistrationStep, RegistrationEnds, ForgetShape, MarkFailed
<1>11. ASSUME NEW e \in Requests, Subscribes(e) PROVE busy' \subseteq states'
  BY <1>1, <1>11 DEF Subscribes
<1>12. CASE SweepStarts \/ LifetimeEnds \/ Tick \/ \E k \in Keys : StandingChanges(k)
  BY <1>3, <1>12 DEF SweepStarts, LifetimeEnds, Tick, StandingChanges
<1>13. CASE IdleSweep
  BY <1>1, <1>13 DEF IdleSweep
<1>14. CASE Close
  BY <1>2, <1>14 DEF Close
<1>15. CASE UNCHANGED vars
  BY <1>3, <1>15 DEF vars
<1>16. QED
  BY <1>4, <1>5, <1>6, <1>7, <1>8, <1>9, <1>10, <1>11, <1>12, <1>13, <1>14, <1>15 DEF Next, CallStep

LEMMA ListIsTyped ==
    ASSUME PoolIsLinked'
    PROVE  linked' \subseteq Requests /\ ahead' \subseteq Requests \X Requests /\ states' \subseteq Requests
<1>1. linked' = Pooled' /\ states' = Pooled' /\ ahead' \in Orders(linked)'
  BY DEF PoolIsLinked
<1>2. Pooled' \subseteq Requests
  BY DEF Pooled
<1>3. ahead' \subseteq linked' \X linked'
  BY <1>1 DEF Orders
<1>4. QED
  BY <1>1, <1>2, <1>3

LEMMA CallsAreTyped ==
    ASSUME PoolInv, [Next]_vars
    PROVE  pc' \in [Requests -> CallPc] /\ arg' \in [Requests -> Arg]
<1>1. pc \in [Requests -> CallPc] /\ arg \in [Requests -> Arg] /\ TypeOK
  BY DEF PoolInv, TypeOK
<1>2. CASE UNCHANGED calls
  BY <1>1, <1>2 DEF calls
<1>3. ASSUME NEW r \in Requests, NEW d \in Requests \cup {None}, NEW x \in CallPc,
             pc' = [pc EXCEPT ![r] = x], arg' = arg \/ arg' = [arg EXCEPT ![r].result = d]
      PROVE  pc' \in [Requests -> CallPc] /\ arg' \in [Requests -> Arg]
  BY <1>1, <1>3 DEF Arg
<1>4. ASSUME NEW r \in Requests, NEW k \in Keys, Lookup(r, k)
      PROVE  pc' \in [Requests -> CallPc] /\ arg' \in [Requests -> Arg]
  <2>1. /\ pc' = [pc EXCEPT ![r] = IF entries[k] = None THEN "miss" ELSE Found(entries[k])]
        /\ arg' = [arg EXCEPT ![r].key = k, ![r].cached = entries[k]]
    BY <1>4 DEF Lookup
  <2>2. PICK c \in Requests \cup {None} : c = entries[k]
    BY <1>1 DEF TypeOK
  <2>3. arg[r] \in Arg
    BY <1>1
  <2>4. [arg[r] EXCEPT !.key = k, !.cached = c] \in Arg
    BY <2>3 DEF Arg
  <2>5. arg' = [arg EXCEPT ![r] = [arg[r] EXCEPT !.key = k, !.cached = c]]
    BY <1>1, <2>1, <2>2
  <2>6. arg' \in [Requests -> Arg]
    BY <1>1, <2>4, <2>5
  <2>7. pc' \in [Requests -> CallPc]
    BY <1>1, <2>1 DEF Found, CallPc
  <2>8. QED
    BY <2>6, <2>7
<1>5. ASSUME NEW r \in Requests, FastPath(r)
      PROVE  pc' \in [Requests -> CallPc] /\ arg' \in [Requests -> Arg]
  <2>1. CASE Hit(r)
    <3>1. PICK d \in Requests \cup {None} : d = arg[r].cached
      BY <1>1 DEF Arg
    <3>2. pc' = [pc EXCEPT ![r] = "done"] /\ arg' = [arg EXCEPT ![r].result = d]
      BY <2>1, <3>1 DEF Hit
    <3>3. QED
      BY <1>3, <3>2 DEF CallPc
  <2>2. CASE DropRejected(r) \/ EvictStale(r)
    BY <1>3, <2>2 DEF DropRejected, EvictStale, CallPc
  <2>3. CASE Lead(r)
    BY <1>3, <2>3 DEF Lead, Built, CallPc
  <2>4. CASE Join(r)
    <3>1. Key(r) \in Keys
      BY <2>4, NamedKeys DEF PoolInv, CallInv, Join
    <3>2. building[Key(r)] \in Requests \cup {None}
      BY <1>1, <3>1 DEF TypeOK
    <3>3. pc' = [pc EXCEPT ![r] = "joined"] /\ arg' = [arg EXCEPT ![r].leader = building[Key(r)]]
      BY <2>4 DEF Join
    <3>4. QED
      BY <1>1, <3>2, <3>3 DEF Arg, CallPc
  <2>5. QED
    BY <1>5, <2>1, <2>2, <2>3, <2>4 DEF FastPath
<1>6. ASSUME NEW r \in Requests, Building(r)
      PROVE  pc' \in [Requests -> CallPc] /\ arg' \in [Requests -> Arg]
  <2>1. \/ arg' = arg
        \/ arg' = [arg EXCEPT ![r].result = None]
    BY <1>6 DEF Building, TakeSlot, NoSlot, Verify, LearnFacts, ReadGrant, TakeServer, BuildFails, Built
  <2>2. CASE TakeSlot(r)
    <3>1. pc' = [pc EXCEPT ![r] = IF pc[r] = "slot" THEN "verify" ELSE "grant"]
      BY <1>1, <2>2 DEF TakeSlot
    <3>2. QED
      BY <1>3, <2>1, <3>1 DEF CallPc
  <2>3. CASE ~TakeSlot(r)
    <3>1. \E x \in {"built", "facts", "factory", "grantSlot", "insert"} : pc' = [pc EXCEPT ![r] = x]
      BY <1>6, <2>3 DEF Building, NoSlot, Verify, LearnFacts, ReadGrant, TakeServer, BuildFails, Built
    <3>2. QED
      BY <1>3, <2>1, <3>1 DEF CallPc
  <2>4. QED
    BY <2>2, <2>3
<1>7. ASSUME NEW r \in Requests, Inserting(r)
      PROVE  pc' \in [Requests -> CallPc] /\ arg' \in [Requests -> Arg]
  <2>1. CASE KeepExisting(r)
    <3>1. Key(r) \in Keys
      BY <2>1, NamedKeys DEF PoolInv, CallInv, KeepExisting
    <3>2. PICK d \in Requests \cup {None} : d = entries[Key(r)]
      BY <1>1, <3>1 DEF TypeOK
    <3>3. pc' = [pc EXCEPT ![r] = "built"] /\ arg' = [arg EXCEPT ![r].result = d]
      BY <2>1, <3>2 DEF KeepExisting, Built
    <3>4. QED
      BY <1>3, <3>3 DEF CallPc
  <2>2. CASE Insert(r) \/ InsertRefused(r) \/ Finish(r)
    BY <1>3, <2>2 DEF Insert, InsertRefused, Finish, Built, CallPc
  <2>3. CASE JoinerReturns(r)
    <3>1. arg[r].leader \in Requests
      BY <1>1, <2>3 DEF PoolInv, CallInv, CallOK, JoinerReturns, Arg
    <3>2. PICK d \in Requests \cup {None} : d = arg[arg[r].leader].result
      BY <1>1, <3>1 DEF Arg
    <3>3. pc' = [pc EXCEPT ![r] = "done"] /\ arg' = [arg EXCEPT ![r].result = d]
      BY <2>3, <3>2 DEF JoinerReturns
    <3>4. QED
      BY <1>3, <3>3 DEF CallPc
  <2>4. QED
    BY <1>7, <2>1, <2>2, <2>3 DEF Inserting
<1>8. QED
  BY <1>2, <1>4, <1>5, <1>6, <1>7, OthersLeaveCalls DEF OfCalls, CallStep

-----------------------------------------------------------------------------
(* The registry of the shapes *)

RegStages == {"none", "running", "ready", "failing", "forgotten", "evicted", "failed"}

LEMMA RegistryKept ==
    ASSUME PoolInv, [Next]_vars
    PROVE  /\ shapes' \in [Shapes -> Requests \cup {None}] /\ reg' \in [Requests -> RegStages]
           /\ KnownServers'
           /\ \A s \in Requests : reg'[s] \in {"evicted", "failed"} =>
                  reg[s] \in {"evicted", "failed"} \/ EvictServer(s)
<1>1. /\ shapes \in [Shapes -> Requests \cup {None}] /\ reg \in [Requests -> RegStages]
      /\ KnownServers /\ TypeOK
  BY DEF PoolInv, TypeOK, RegStages
<1>2. CASE UNCHANGED registry
  BY <1>1, <1>2 DEF registry, KnownServers
<1>3. ASSUME NEW r \in Requests, TakeServer(r)
      PROVE  /\ shapes' \in [Shapes -> Requests \cup {None}] /\ reg' \in [Requests -> RegStages]
             /\ KnownServers'
             /\ \A s \in Requests : reg'[s] \in {"evicted", "failed"} => reg[s] \in {"evicted", "failed"}
  <2>1. Key(r) \in Keys
    BY <1>3, NamedKeys DEF PoolInv, CallInv, TakeServer
  <2>2. PICK x \in Shapes : x = ShapeOf[Key(r)]
    BY <2>1
  <2>3. PICK server \in Requests : server = IF shapes[x] = None THEN r ELSE shapes[x]
    BY <1>1
  <2>4. /\ shapes' = [shapes EXCEPT ![x] = server]
        /\ reg' = IF server = r THEN [reg EXCEPT ![r] = "running"] ELSE reg
    BY <1>3, <2>2, <2>3 DEF TakeServer
  <2>5. server # r => reg[server] \in {"running", "ready", "failing"}
    BY <1>1, <2>3 DEF KnownServers
  <2>6. shapes' \in [Shapes -> Requests \cup {None}] /\ reg' \in [Requests -> RegStages]
    BY <1>1, <2>4 DEF RegStages
  <2>7. KnownServers'
    BY <1>1, <2>4, <2>5 DEF KnownServers
  <2>8. \A s \in Requests : reg'[s] \in {"evicted", "failed"} => reg[s] \in {"evicted", "failed"}
    BY <1>1, <2>4
  <2>9. QED
    BY <2>6, <2>7, <2>8
<1>4. ASSUME NEW s \in Requests, RegistrationStep(s)
      PROVE  /\ shapes' \in [Shapes -> Requests \cup {None}] /\ reg' \in [Requests -> RegStages]
             /\ KnownServers'
             /\ \A d \in Requests : reg'[d] \in {"evicted", "failed"} =>
                    reg[d] \in {"evicted", "failed"} \/ EvictServer(d)
  <2>1. CASE RegistrationEnds(s)
    <3>1. /\ shapes' = shapes /\ reg[s] = "running"
          /\ reg' = [reg EXCEPT ![s] = "ready"] \/ reg' = [reg EXCEPT ![s] = "failing"]
      BY <2>1 DEF RegistrationEnds, RegisterStep
    <3>2. QED
      BY <1>1, <3>1 DEF KnownServers, RegStages
  <2>2. CASE ForgetShape(s)
    <3>1. /\ shapes' = [x \in Shapes |-> IF shapes[x] = s THEN None ELSE shapes[x]]
          /\ reg' = [reg EXCEPT ![s] = "forgotten"]
      BY <2>2 DEF ForgetShape, RegisterStep
    <3>2. QED
      BY <1>1, <3>1 DEF KnownServers, RegStages
  <2>3. CASE EvictServer(s)
    <3>1. shapes' = shapes /\ reg[s] = "forgotten" /\ reg' = [reg EXCEPT ![s] = "evicted"]
      BY <2>3 DEF EvictServer, RegisterStep
    <3>2. QED
      BY <1>1, <2>3, <3>1 DEF KnownServers, RegStages
  <2>4. CASE MarkFailed(s)
    <3>1. shapes' = shapes /\ reg[s] = "evicted" /\ reg' = [reg EXCEPT ![s] = "failed"]
      BY <2>4 DEF MarkFailed, RegisterStep
    <3>2. QED
      BY <1>1, <3>1 DEF KnownServers, RegStages
  <2>5. QED
    BY <1>4, <2>1, <2>2, <2>3, <2>4 DEF RegistrationStep
<1>5. QED
  BY <1>2, <1>3, <1>4, CallsWrite, ChecksWrite, OthersWrite DEF OfCalls, OfChecks

(* Who is pooled after a step was pooled before it, or is inserted by it. *)
LEMMA PooledComeByInsertion ==
    ASSUME PoolInv, Onward, PoolIsLinked', NEW e \in Requests, Current(e)'
    PROVE  Current(e) \/ Insert(e)
<1>1. entry'[e].cause = "none" /\ entry'[e].inserted
  BY DEF PoolIsLinked
<1>2. entry[e].cause = "none" /\ (entry[e].inserted \/ Insert(e) \/ InsertRefused(e))
  BY <1>1 DEF Onward
<1>3. ~InsertRefused(e)
  BY <1>1, InsertedEntry
<1>4. QED
  BY <1>2, <1>3 DEF PoolInv, PoolIsLinked

LEMMA ServersKept ==
    ASSUME PoolInv, [Next]_vars, Onward, PoolIsLinked'
    PROVE  PoisonedNeverCached'
<1>1. SUFFICES ASSUME NEW s \in Requests, reg'[s] \in {"evicted", "failed"},
                      NEW e \in Requests, Current(e)'
               PROVE  entry'[e].server # s
  BY DEF PoisonedNeverCached, Pooled
<1>2. entry'[e].cause = "none"
  BY <1>1 DEF PoolIsLinked
<1>3. CASE Current(e)
  <2>1. entry'[e].server = entry[e].server
    BY <1>3 DEF PoolInv, PoolIsLinked, Onward
  <2>2. CASE reg[s] \in {"evicted", "failed"}
    BY <1>3, <2>1, <2>2 DEF PoolInv, PoisonedNeverCached, Pooled
  <2>3. CASE EvictServer(s)
    <3>1. PICK E : E = {d \in Pooled : entry[d].server = s}
      OBVIOUS
    <3>2. DropEntries(E, "rebuild")
      BY <2>3, <3>1 DEF EvictServer
    <3>3. entry'[e].cause = IF e \in E THEN "rebuild" ELSE entry[e].cause
      BY <3>2, DroppedEntry DEF PoolInv, Cause
    <3>4. e \notin E
      BY <1>2, <3>3
    <3>5. QED
      BY <1>3, <2>1, <3>1, <3>4 DEF Pooled
  <2>4. QED
    BY <1>1, <2>2, <2>3, RegistryKept
<1>4. CASE Insert(e)
  <2>1. entry'[e].server = entry[e].server /\ entry[e].server # None
    BY <1>4, InsertedEntry DEF Insert, PoolInv, CallInv, CallOK
  <2>2. reg[entry[e].server] \in {"running", "ready", "failing"}
    BY <1>4, <2>1 DEF Insert, Adopted, PoolInv, KnownServers
  <2>3. reg' = reg
    BY <1>4 DEF Insert, registry
  <2>4. QED
    BY <1>1, <2>1, <2>2, <2>3
<1>5. QED
  BY <1>1, <1>3, <1>4, PooledComeByInsertion

(* Who leads a key's build, named by the key it has. *)
LEMMA BuildingIsTyped ==
    ASSUME PoolInv, [Next]_vars
    PROVE  building' \in [Keys -> Requests \cup {None}]
<1>1. building \in [Keys -> Requests \cup {None}]
  BY DEF PoolInv, TypeOK
<1>2. CASE UNCHANGED building
  BY <1>1, <1>2
<1>3. ASSUME NEW r \in Requests, Lead(r) \/ Finish(r)
      PROVE  building' \in [Keys -> Requests \cup {None}]
  <2>1. building' = [building EXCEPT ![Key(r)] = r] \/ building' = [building EXCEPT ![Key(r)] = None]
    BY <1>3 DEF Lead, Finish
  <2>2. QED
    BY <1>1, <2>1
<1>4. QED
  BY <1>2, <1>3, CallsWrite, ChecksWrite, OthersWrite DEF OfCalls, OfChecks

-----------------------------------------------------------------------------
(* What the checks learn *)

LEMMA RefusalsCount ==
    ASSUME NEW k, NEW v
    PROVE  /\ Refusals(k, v) \subseteq Requests
           /\ \A e \in Requests : Admitted(e) => e \in Refusals(Key(e), "refused")
BY DEF Refusals

(* GitLab's refusals are not forgotten, and every entry that turns rejected
   is one whose token was refused.                                          *)
LEMMA RefusedGrows ==
    ASSUME PoolInv, [Next]_vars
    PROVE  refused \subseteq refused' /\ refused' \subseteq Requests
<1>1. refused \subseteq Requests
  BY DEF PoolInv, TypeOK
<1>2. CASE UNCHANGED refused
  BY <1>1, <1>2
<1>3. ASSUME NEW k, NEW v, refused' = refused \cup Refusals(k, v)
      PROVE  refused \subseteq refused' /\ refused' \subseteq Requests
  BY <1>1, <1>3, RefusalsCount
<1>4. ASSUME NEW r \in Requests, Verify(r) PROVE refused \subseteq refused' /\ refused' \subseteq Requests
  BY <1>3, <1>4 DEF Verify
<1>5. ASSUME NEW e \in Requests, RefusalStep(e) \/ ConfirmStep(e) \/ SweepTurn(e)
      PROVE  refused \subseteq refused' /\ refused' \subseteq Requests
  <2>1. CASE NamedRefusal(e)
    BY <1>3, <2>1 DEF NamedRefusal
  <2>2. CASE ConfirmAnswered(e)
    BY <1>3, <2>2 DEF ConfirmAnswered
  <2>3. CASE SweepAnswered(e)
    BY <1>3, <2>3 DEF SweepAnswered
  <2>4. CASE UNCHANGED refused
    BY <1>2, <2>4
  <2>5. QED
    BY <1>5, <2>1, <2>2, <2>3, <2>4
       DEF RefusalStep, EvictRejected, UnexplainedRefusal, CooldownEnds, ConfirmStep, ConfirmStarts,
           ConfirmEvicts, ConfirmKeeps, ConfirmLearnsNothing, ConfirmReturns, SweepTurn, SweepTakes,
           SweepEvicts, SweepKeeps, SweepUndecided, SweepRedetects, TurnEnds, checks
<1>6. QED
  BY <1>2, <1>4, <1>5, CallsWrite, OthersWrite DEF OfCalls, OfChecks

LEMMA NamedAreRefused ==
    ASSUME PoolInv, NEW e \in Requests, NamedRefusal(e)
    PROVE  e \in refused'
<1>1. refused' = refused \cup Refusals(Key(e), "refused") /\ InHand(e)
  BY DEF NamedRefusal
<1>2. QED
  BY <1>1, InHandIsInserted, RefusalsCount DEF PoolInv

LEMMA ConfirmedAreRefused ==
    ASSUME PoolInv, Onward, NEW e \in Requests, ConfirmAnswered(e), entry'[e].rejected
    PROVE  e \in refused'
<1>1. PICK v : /\ entry' = [entry EXCEPT ![e].rejected = entry[e].rejected \/ v = "refused"]
               /\ refused' = refused \cup Refusals(Key(e), v)
  BY DEF ConfirmAnswered
<1>2. CASE entry[e].rejected
  BY <1>1, <1>2 DEF PoolInv, CheckInv, CheckOK
<1>3. CASE ~entry[e].rejected
  <2>1. entry \in [Requests -> Entry]
    BY DEF PoolInv, TypeOK
  <2>2. entry'[e].rejected = (entry[e].rejected \/ v = "refused")
    BY <1>1, <2>1 DEF Entry
  <2>3. v = "refused"
    BY <1>3, <2>2
  <2>4. Admitted(e)
    BY CheckedAreNamed DEF ConfirmAnswered, PoolInv, CheckInv, CheckOK
  <2>5. QED
    BY <1>1, <2>3, <2>4, RefusalsCount
<1>4. QED
  BY <1>2, <1>3

(* Who reaches too little goes on reaching too little, under the same key. *)
LEMMA BelowStays ==
    ASSUME PoolInv, [Next]_vars, Onward, NEW e \in Requests, entry[e].inserted,
           gitlab[Key(e)] = "below"
    PROVE  gitlab'[arg'[e].key] = "below"
<1>1. Key(e) \in Keys /\ Key(e) # None
  BY CheckedAreNamed
<1>2. arg'[e].key = arg[e].key
  BY <1>1 DEF Onward, KeysStay
<1>3. gitlab'[Key(e)] = "below"
  BY <1>1, StandingIsTyped
<1>4. QED
  BY <1>2, <1>3 DEF Key

ConfirmSteps == {"idle", "started", "probing"} \cup Verdict

(* Where an entry's confirmation may go, and on which grounds. *)
ConfirmGoes(e, x) ==
    \/ x = "idle"
    \/ x = "started" /\ UnexplainedRefusal(e)
    \/ x = "probing" /\ confirm[e] = "started"
    \/ /\ x \in Answers(Key(e)) /\ confirm[e] = "probing"
       /\ refused' = refused \cup Refusals(Key(e), x)

LEMMA ConfirmMoves ==
    ASSUME PoolInv, [Next]_vars
    PROVE  \/ UNCHANGED confirm
           \/ \E e \in Requests : \E x : confirm' = [confirm EXCEPT ![e] = x] /\ ConfirmGoes(e, x)
<1> DEFINE Goal == \/ UNCHANGED confirm
                   \/ \E e \in Requests : \E x : confirm' = [confirm EXCEPT ![e] = x] /\ ConfirmGoes(e, x)
<1>1. ASSUME NEW e \in Requests, RefusalStep(e) PROVE Goal
  <2>1. CASE UnexplainedRefusal(e)
    BY <2>1 DEF UnexplainedRefusal, ConfirmGoes
  <2>2. CASE UNCHANGED confirm
    BY <2>2
  <2>3. QED
    BY <1>1, <2>1, <2>2 DEF RefusalStep, NamedRefusal, EvictRejected, CooldownEnds, checks
<1>2. ASSUME NEW e \in Requests, ConfirmStep(e) PROVE Goal
  <2>1. CASE ConfirmStarts(e)
    BY <2>1 DEF ConfirmStarts, ConfirmGoes
  <2>2. CASE ConfirmAnswered(e)
    BY <2>2 DEF ConfirmAnswered, ConfirmGoes
  <2>3. CASE ConfirmReturns(e)
    BY <2>3 DEF ConfirmReturns, ConfirmGoes
  <2>4. QED
    BY <1>2, <2>1, <2>2, <2>3 DEF ConfirmStep, ConfirmEvicts, ConfirmKeeps, ConfirmLearnsNothing
<1>3. ASSUME NEW e \in Requests, SweepTurn(e) PROVE UNCHANGED confirm
  BY <1>3 DEF SweepTurn, SweepTakes, SweepAnswered, SweepEvicts, SweepKeeps, SweepUndecided,
              SweepRedetects, TurnEnds
<1>4. QED
  BY <1>1, <1>2, <1>3, CallsWrite, OthersWrite DEF OfCalls, OfChecks

LEMMA ConfirmKept ==
    ASSUME PoolInv, [Next]_vars, Onward
    PROVE  /\ confirm' \in [Requests -> ConfirmSteps]
           /\ \A e \in Requests :
                /\ confirm'[e] # "idle" => entry'[e].inserted /\ entry'[e].cooling
                /\ confirm'[e] = "refused" => e \in refused'
                /\ confirm'[e] = "belowMinimum" => gitlab'[arg'[e].key] = "below"
<1>1. confirm \in [Requests -> ConfirmSteps] /\ TypeOK /\ CallInv
  BY DEF PoolInv, TypeOK, ConfirmSteps
<1>2. ASSUME NEW e \in Requests, confirm'[e] = confirm[e]
      PROVE  /\ confirm'[e] # "idle" => entry'[e].inserted /\ entry'[e].cooling
             /\ confirm'[e] = "refused" => e \in refused'
             /\ confirm'[e] = "belowMinimum" => gitlab'[arg'[e].key] = "below"
  <2>1. CheckOK(e)
    BY DEF PoolInv, CheckInv
  <2>2. confirm[e] # "idle" => entry'[e].inserted /\ entry'[e].cooling
    BY <2>1 DEF CheckOK, Onward
  <2>3. confirm[e] = "belowMinimum" => gitlab'[arg'[e].key] = "below"
    BY <2>1, BelowStays DEF CheckOK
  <2>4. QED
    BY <1>2, <2>1, <2>2, <2>3, RefusedGrows DEF CheckOK
<1>3. CASE UNCHANGED confirm
  BY <1>1, <1>2, <1>3
<1>4. ASSUME NEW d \in Requests, NEW x, confirm' = [confirm EXCEPT ![d] = x], ConfirmGoes(d, x)
      PROVE  /\ x \in ConfirmSteps
             /\ x # "idle" => entry'[d].inserted /\ entry'[d].cooling
             /\ x = "refused" => d \in refused'
             /\ x = "belowMinimum" => gitlab'[arg'[d].key] = "below"
  <2>1. CASE x = "idle"
    BY <2>1 DEF ConfirmSteps
  <2>2. CASE x = "started" /\ UnexplainedRefusal(d)
    <3>1. entry' = [entry EXCEPT ![d].cooling = TRUE] /\ InHand(d)
      BY <2>2 DEF UnexplainedRefusal
    <3>2. entry'[d].cooling
      BY <1>1, <3>1 DEF TypeOK, Entry
    <3>3. entry'[d].inserted
      BY <1>1, <3>1, InHandIsInserted DEF Onward
    <3>4. QED
      BY <2>2, <3>2, <3>3 DEF ConfirmSteps
  <2>3. CASE x = "probing" /\ confirm[d] = "started"
    BY <2>3 DEF ConfirmSteps, PoolInv, CheckInv, CheckOK, Onward
  <2>4. CASE /\ x \in Answers(Key(d)) /\ confirm[d] = "probing"
             /\ refused' = refused \cup Refusals(Key(d), x)
    <3>1. entry[d].inserted /\ entry[d].cooling
      BY <2>4 DEF PoolInv, CheckInv, CheckOK
    <3>2. Key(d) \in Keys /\ Admitted(d)
      BY <3>1, CheckedAreNamed
    <3>3. x \in Verdict /\ (x = "belowMinimum" => gitlab[Key(d)] = "below")
      BY <2>4, <3>2, AnswersAreTrue
    <3>4. entry'[d].inserted /\ entry'[d].cooling
      BY <2>4, <3>1 DEF Onward
    <3>5. x = "refused" => d \in refused'
      BY <2>4, <3>2, RefusalsCount
    <3>6. QED
      BY <3>1, <3>3, <3>4, <3>5, BelowStays DEF ConfirmSteps
  <2>5. QED
    BY <1>4, <2>1, <2>2, <2>3, <2>4 DEF ConfirmGoes
<1>5. ASSUME NEW d \in Requests, NEW x, confirm' = [confirm EXCEPT ![d] = x], ConfirmGoes(d, x)
      PROVE  /\ confirm' \in [Requests -> ConfirmSteps]
             /\ confirm'[d] = x /\ \A e \in Requests : e # d => confirm'[e] = confirm[e]
  <2>1. x \in ConfirmSteps
    BY <1>4, <1>5
  <2>2. QED
    BY <1>1, <1>5, <2>1
<1>6. CASE \E d \in Requests : \E x : confirm' = [confirm EXCEPT ![d] = x] /\ ConfirmGoes(d, x)
  <2>1. PICK d \in Requests : \E x : confirm' = [confirm EXCEPT ![d] = x] /\ ConfirmGoes(d, x)
    BY <1>6
  <2>2. PICK x : confirm' = [confirm EXCEPT ![d] = x] /\ ConfirmGoes(d, x)
    BY <2>1
  <2>3. /\ confirm' \in [Requests -> ConfirmSteps]
        /\ confirm'[d] = x /\ \A e \in Requests : e # d => confirm'[e] = confirm[e]
    BY <1>5, <2>2
  <2>4. /\ x # "idle" => entry'[d].inserted /\ entry'[d].cooling
        /\ x = "refused" => d \in refused'
        /\ x = "belowMinimum" => gitlab'[arg'[d].key] = "below"
    BY <1>4, <2>2
  <2>5. QED
    BY <1>2, <2>3, <2>4
<1>7. QED
  BY <1>3, <1>6, ConfirmMoves

LEMMA EvictingKept ==
    ASSUME PoolInv, [Next]_vars
    PROVE  evicting' \subseteq Requests /\ \A e \in Requests : e \in evicting' => e \in refused'
<1>1. evicting \subseteq Requests /\ \A e \in Requests : e \in evicting => e \in refused'
  BY RefusedGrows DEF PoolInv, TypeOK, CheckInv, CheckOK
<1>2. CASE evicting' \subseteq evicting
  BY <1>1, <1>2
<1>3. ASSUME NEW e \in Requests, NamedRefusal(e)
      PROVE  evicting' \subseteq Requests /\ \A d \in Requests : d \in evicting' => d \in refused'
  <2>1. evicting' = evicting \cup {e} /\ e \in refused'
    BY <1>3, NamedAreRefused DEF NamedRefusal
  <2>2. QED
    BY <1>1, <2>1
<1>4. ASSUME NEW e \in Requests, RefusalStep(e), ~NamedRefusal(e) PROVE evicting' \subseteq evicting
  BY <1>4 DEF RefusalStep, EvictRejected, UnexplainedRefusal, CooldownEnds, checks
<1>5. ASSUME NEW e \in Requests, ConfirmStep(e) \/ SweepTurn(e) PROVE evicting' = evicting
  BY <1>5 DEF ConfirmStep, ConfirmStarts, ConfirmAnswered, ConfirmEvicts, ConfirmKeeps,
              ConfirmLearnsNothing, ConfirmReturns, SweepTurn, SweepTakes, SweepAnswered,
              SweepEvicts, SweepKeeps, SweepUndecided, SweepRedetects, TurnEnds
<1>6. QED
  BY <1>2, <1>3, <1>4, <1>5, CallsWrite, OthersWrite DEF OfCalls, OfChecks

(* The sweep walks entries that were pooled, and believes what GitLab said. *)
SweepGoes ==
    \/ UNCHANGED sweep
    \/ sweep' = [sweep EXCEPT !.todo = Pooled] /\ sweep.at = None
    \/ sweep' = [sweep EXCEPT !.todo = {}]
    \/ \E e \in sweep.todo : sweep' = [todo |-> sweep.todo \ {e}, at |-> e, step |-> "asking"]
    \/ \E e \in Requests : \E v \in Answers(Key(e)) : sweep.at = e /\ sweep' = [sweep EXCEPT !.step = v]
    \/ sweep' = [sweep EXCEPT !.at = None, !.step = "none"]
    \/ sweep' = [sweep EXCEPT !.step = "refresh"]

LEMMA SweepMoves ==
    ASSUME PoolInv, [Next]_vars
    PROVE  SweepGoes
<1>1. CASE UNCHANGED sweep
  BY <1>1 DEF SweepGoes
<1>2. CASE SweepStarts
  BY <1>2 DEF SweepStarts, SweepGoes
<1>3. ASSUME NEW e \in Requests, SweepTurn(e) PROVE SweepGoes
  <2>1. CASE SweepTakes(e)
    BY <2>1 DEF SweepTakes, SweepGoes
  <2>2. CASE SweepAnswered(e)
    BY <2>2 DEF SweepAnswered, SweepGoes
  <2>3. CASE TurnEnds
    BY <2>3 DEF TurnEnds, SweepGoes
  <2>4. CASE SweepKeeps(e)
    BY <2>4 DEF SweepKeeps, SweepGoes
  <2>5. QED
    BY <1>3, <2>1, <2>2, <2>3, <2>4 DEF SweepTurn, SweepEvicts, SweepUndecided, SweepRedetects
<1>4. ASSUME NEW e \in Requests, RefusalStep(e) \/ ConfirmStep(e) PROVE UNCHANGED sweep
  BY <1>4 DEF RefusalStep, NamedRefusal, EvictRejected, UnexplainedRefusal, CooldownEnds,
              ConfirmStep, ConfirmStarts, ConfirmAnswered, ConfirmEvicts, ConfirmKeeps,
              ConfirmLearnsNothing, ConfirmReturns, checks
<1>5. QED
  BY <1>1, <1>2, <1>3, <1>4, CallsWrite, OthersWrite DEF OfCalls, OfChecks

LEMMA SweepKept ==
    ASSUME PoolInv, [Next]_vars, Onward
    PROVE  /\ sweep' \in Sweep /\ SweepOK'
           /\ \A e \in Requests : e \in sweep'.todo \/ e = sweep'.at => entry'[e].inserted
<1>1. /\ sweep \in Sweep /\ SweepOK
      /\ \A e \in Requests : e \in sweep.todo \/ e = sweep.at => entry[e].inserted
  BY DEF PoolInv, TypeOK, CheckInv, CheckOK
<1>2. /\ sweep = [todo |-> sweep.todo, at |-> sweep.at, step |-> sweep.step]
      /\ sweep.todo \subseteq Requests /\ sweep.at \in Requests \cup {None}
      /\ sweep.step \in {"asking", "refresh"} \cup Verdict
  BY <1>1 DEF Sweep
<1>3. \A e \in Requests : entry[e].inserted => entry'[e].inserted
  BY DEF Onward
<1>4. sweep.step = "belowMinimum" => sweep.at # None /\ gitlab'[arg'[sweep.at].key] = "below"
  BY <1>1, <1>2, BelowStays DEF SweepOK
<1>5. ASSUME NEW todo \in SUBSET Requests, NEW at \in Requests \cup {None},
             NEW step \in {"asking", "refresh"} \cup Verdict,
             sweep' = [todo |-> todo, at |-> at, step |-> step],
             \A e \in Requests : e \in todo \/ e = at => entry[e].inserted,
             step = "belowMinimum" => at # None /\ gitlab'[arg'[at].key] = "below"
      PROVE  /\ sweep' \in Sweep /\ SweepOK'
             /\ \A e \in Requests : e \in sweep'.todo \/ e = sweep'.at => entry'[e].inserted
  <2>1. sweep'.todo = todo /\ sweep'.at = at /\ sweep'.step = step
    BY <1>5
  <2>2. sweep' \in Sweep
    BY <1>5 DEF Sweep
  <2>3. SweepOK'
    BY <1>5, <2>1 DEF SweepOK, Key
  <2>4. \A e \in Requests : e \in sweep'.todo \/ e = sweep'.at => entry'[e].inserted
    BY <1>3, <1>5, <2>1
  <2>5. QED
    BY <2>2, <2>3, <2>4
<1>6. CASE UNCHANGED sweep
  BY <1>1, <1>2, <1>4, <1>5, <1>6
<1>7. CASE sweep' = [sweep EXCEPT !.todo = Pooled] /\ sweep.at = None
  <2>1. sweep' = [todo |-> Pooled, at |-> None, step |-> sweep.step]
    BY <1>2, <1>7
  <2>2. Pooled \subseteq Requests /\ \A e \in Pooled : entry[e].inserted
    BY DEF Pooled, PoolInv, PoolIsLinked
  <2>3. sweep.step # "belowMinimum"
    BY <1>1, <1>7 DEF SweepOK
  <2>4. PICK S \in SUBSET Requests : S = Pooled
    BY <2>2
  <2>5. QED
    BY <1>2, <1>5, <1>7, <2>1, <2>2, <2>3, <2>4, PoolAssumption
<1>8. CASE sweep' = [sweep EXCEPT !.todo = {}]
  <2>1. sweep' = [todo |-> {}, at |-> sweep.at, step |-> sweep.step]
    BY <1>2, <1>8
  <2>2. PICK S \in SUBSET Requests : S = {}
    OBVIOUS
  <2>3. QED
    BY <1>1, <1>2, <1>4, <1>5, <2>1, <2>2
<1>9. ASSUME NEW e \in sweep.todo, sweep' = [todo |-> sweep.todo \ {e}, at |-> e, step |-> "asking"]
      PROVE  /\ sweep' \in Sweep /\ SweepOK'
             /\ \A d \in Requests : d \in sweep'.todo \/ d = sweep'.at => entry'[d].inserted
  <2>1. PICK S \in SUBSET Requests : S = sweep.todo \ {e}
    BY <1>2
  <2>2. e \in Requests /\ \A d \in Requests : d \in S \/ d = e => entry[d].inserted
    BY <1>1, <1>2, <2>1
  <2>3. PICK x \in {"asking", "refresh"} \cup Verdict : x = "asking"
    OBVIOUS
  <2>4. QED
    BY <1>5, <1>9, <2>1, <2>2, <2>3
<1>10. ASSUME NEW e \in Requests, NEW v \in Answers(Key(e)), sweep.at = e, sweep' = [sweep EXCEPT !.step = v]
       PROVE  /\ sweep' \in Sweep /\ SweepOK'
              /\ \A d \in Requests : d \in sweep'.todo \/ d = sweep'.at => entry'[d].inserted
  <2>1. sweep' = [todo |-> sweep.todo, at |-> e, step |-> v]
    BY <1>2, <1>10
  <2>2. entry[e].inserted /\ Key(e) \in Keys
    BY <1>1, <1>10, CheckedAreNamed
  <2>3. v \in Verdict /\ (v = "belowMinimum" => gitlab[Key(e)] = "below")
    BY <1>10, <2>2, AnswersAreTrue
  <2>4. v = "belowMinimum" => e # None /\ gitlab'[arg'[e].key] = "below"
    BY <2>2, <2>3, BelowStays
  <2>5. QED
    BY <1>1, <1>2, <1>5, <1>10, <2>1, <2>3, <2>4
<1>11. CASE sweep' = [sweep EXCEPT !.at = None, !.step = "none"]
  <2>1. sweep' = [todo |-> sweep.todo, at |-> None, step |-> "none"]
    BY <1>2, <1>11
  <2>2. PICK x \in {"asking", "refresh"} \cup Verdict : x = "none"
    BY DEF Verdict
  <2>3. \A d \in Requests : d \in sweep.todo \/ d = None => entry[d].inserted
    BY <1>1
  <2>4. QED
    BY <1>2, <1>5, <2>1, <2>2, <2>3
<1>12. CASE sweep' = [sweep EXCEPT !.step = "refresh"]
  <2>1. sweep' = [todo |-> sweep.todo, at |-> sweep.at, step |-> "refresh"]
    BY <1>2, <1>12
  <2>2. PICK x \in {"asking", "refresh"} \cup Verdict : x = "refresh"
    OBVIOUS
  <2>3. QED
    BY <1>1, <1>2, <1>5, <2>1, <2>2
<1>13. QED
  BY <1>6, <1>7, <1>8, <1>9, <1>10, <1>11, <1>12, SweepMoves DEF SweepGoes

LEMMA StepsKeepChecks ==
    ASSUME PoolInv, [Next]_vars, Onward
    PROVE  CheckInv'
<1>1. ASSUME NEW e \in Requests, entry'[e].rejected PROVE e \in refused'
  <2>1. CASE entry[e].rejected
    BY <2>1, RefusedGrows DEF PoolInv, CheckInv, CheckOK
  <2>2. QED
    BY <1>1, <2>1, NamedAreRefused, ConfirmedAreRefused DEF Onward
<1>2. \A e \in Requests : CheckOK(e)'
  BY <1>1, ConfirmKept, EvictingKept, SweepKept DEF CheckOK, Key
<1>3. QED
  BY <1>2, SweepKept DEF CheckInv

LEMMA StepsKeepEndings ==
    ASSUME PoolInv, [Next]_vars, Onward
    PROVE  EndingsAreTrue'
<1>1. ASSUME NEW e \in Requests, entry'[e].cause = "rejected_credential" PROVE e \in refused'
  BY <1>1, RefusedGrows DEF Onward, PoolInv, EndingsAreTrue
<1>2. ASSUME NEW e \in Requests, entry'[e].cause = "below_minimum" PROVE gitlab'[arg'[e].key] = "below"
  <2>1. gitlab[Key(e)] = "below"
    BY <1>2 DEF Onward, PoolInv, EndingsAreTrue
  <2>2. CASE entry[e].inserted
    BY <2>1, <2>2, BelowStays
  <2>3. CASE Insert(e) \/ InsertRefused(e)
    <3>1. Key(e) \in Keys /\ KeysStay
      BY <2>3, InsertingIsNew
    <3>2. arg'[e].key = arg[e].key /\ gitlab'[Key(e)] = "below"
      BY <2>1, <3>1, StandingIsTyped DEF KeysStay
    <3>3. QED
      BY <3>2 DEF Key
  <2>4. QED
    BY <1>2, <2>2, <2>3 DEF Onward
<1>3. QED
  BY <1>1, <1>2 DEF EndingsAreTrue, Key

-----------------------------------------------------------------------------
(* The invariant *)

LEMMA InitiallyInv == Init => PoolInv
<1> SUFFICES ASSUME Init PROVE PoolInv
  OBVIOUS
<1>1. /\ entry = [e \in Requests |-> NewEntry] /\ pc = [r \in Requests |-> "idle"]
      /\ arg = [r \in Requests |-> [key |-> None, cached |-> None, leader |-> None, result |-> None]]
      /\ entries = [k \in Keys |-> None] /\ confirm = [e \in Requests |-> "idle"]
      /\ sweep = [todo |-> {}, at |-> None, step |-> "none"]
      /\ now = 0 /\ linked = {} /\ ahead = {} /\ probes = 0 /\ refused = {} /\ states = {}
  BY DEF Init
<1>2. NewEntry \in Entry
  BY DEF NewEntry, Entry, Cause
<1>3. TypeOK
  <2>1. entry \in [Requests -> Entry]
    BY <1>1, <1>2
  <2>2. arg \in [Requests -> Arg] /\ pc \in [Requests -> CallPc] /\ sweep \in Sweep
    BY <1>1 DEF Arg, CallPc, Sweep, Verdict
  <2>3. gitlab \in [Keys -> Standing]
    BY DEF Init, Standing
  <2>4. QED
    BY <2>1, <2>2, <2>3 DEF Init, TypeOK
<1>4. Pooled = {} /\ \A e \in Requests : ~Current(e)
  BY <1>1 DEF Pooled, Current, Key
<1>5. ProbesAreHeld
  <2>1. {r \in Requests : pc[r] \in {"verify", "grant"}} = {}
    BY <1>1
  <2>2. {e \in Requests : confirm[e] \notin {"idle", "started"}} = {}
    BY <1>1
  <2>3. QED
    BY <1>1, <2>1, <2>2, FS_EmptySet DEF ProbesAreHeld
<1>6. CallInv
  BY <1>1 DEF CallInv, CallOK, Key, NewEntry
<1>7. PoolIsLinked /\ ByUse
  <2>1. LineUp(ahead, linked)
    BY <1>1 DEF LineUp
  <2>2. ahead \in Orders(linked) /\ Linear(ahead)
    BY <2>1, LineUpIsOrder
  <2>3. Cardinality(linked) <= MaxSize
    BY <1>1, FS_EmptySet
  <2>4. \A e \in Requests : (entry[e].cause = "none" /\ entry[e].inserted) = Current(e)
    BY <1>1, <1>4 DEF NewEntry, Current
  <2>5. QED
    BY <1>1, <1>4, <2>2, <2>3, <2>4 DEF PoolIsLinked, ByUse, NewEntry
<1>8. KnownServers /\ PoisonedNeverCached
  BY <1>4 DEF Init, KnownServers, PoisonedNeverCached
<1>9. CheckInv /\ EndingsAreTrue
  BY <1>1 DEF CheckInv, SweepOK, CheckOK, EndingsAreTrue, NewEntry, Init
<1>10. QED
  BY <1>3, <1>5, <1>6, <1>7, <1>8, <1>9 DEF PoolInv

LEMMA StepsKeepInv == PoolInv /\ [Next]_vars => PoolInv'
<1> SUFFICES ASSUME PoolInv, [Next]_vars PROVE PoolInv'
  OBVIOUS
<1>1. KindsOfStep /\ Onward
  BY StepsHaveKinds, StepsGoOnward
<1>2. PoolIsLinked' /\ ByUse'
  BY <1>1, StepsKeepList
<1>3. ProbesAreHeld' /\ probes' \in Nat
  BY <1>1, StepsKeepProbes
<1>4. TypeOK'
  <2>1. entries' \in [Keys -> Requests \cup {None}] /\ now' \in 0 .. MaxTime
    BY <1>1, EntriesAreTyped
  <2>2. linked' \subseteq Requests /\ ahead' \subseteq Requests \X Requests /\ states' \subseteq Requests
    BY <1>2, ListIsTyped
  <2>3. busy' \subseteq states' /\ building' \in [Keys -> Requests \cup {None}]
    BY BusyAreStates, BuildingIsTyped
  <2>4. gitlab' \in [Keys -> Standing] /\ lifetime' \in {"live", "over"}
    BY StandingIsTyped
  <2>5. shapes' \in [Shapes -> Requests \cup {None}] /\ reg' \in [Requests -> RegStages]
    BY RegistryKept
  <2>6. pc' \in [Requests -> CallPc] /\ arg' \in [Requests -> Arg]
    BY CallsAreTyped
  <2>7. entry' \in [Requests -> Entry]
    BY <1>1 DEF Onward
  <2>8. confirm' \in [Requests -> ConfirmSteps] /\ sweep' \in Sweep
    BY <1>1, ConfirmKept, SweepKept
  <2>9. evicting' \subseteq Requests /\ refused' \subseteq Requests
    BY EvictingKept, RefusedGrows
  <2>10. QED
    BY <1>3, <2>1, <2>2, <2>3, <2>4, <2>5, <2>6, <2>7, <2>8, <2>9 DEF TypeOK, RegStages, ConfirmSteps
<1>5. CallInv' /\ CheckInv' /\ EndingsAreTrue'
  BY <1>1, StepsKeepCalls, StepsKeepChecks, StepsKeepEndings
<1>6. KnownServers' /\ PoisonedNeverCached'
  BY <1>1, <1>2, RegistryKept, ServersKept
<1>7. QED
  BY <1>2, <1>3, <1>4, <1>5, <1>6 DEF PoolInv

LEMMA PoolInvariance == Spec => []PoolInv
<1>1. Init => PoolInv
  BY InitiallyInv
<1>2. PoolInv /\ [Next]_vars => PoolInv'
  BY StepsKeepInv
<1>3. QED
  BY <1>1, <1>2, PTL DEF Spec

-----------------------------------------------------------------------------
(* The theorems *)

(* Every variable of the pool keeps its type, and only an entry that has
   per-credential state is at work.                                         *)
THEOREM PoolIsTyped == Spec => []TypeOK
<1>1. PoolInv => TypeOK
  BY DEF PoolInv
<1>2. QED
  BY <1>1, PoolInvariance, PTL

(* The map, the LRU list and the states of the credentials hold the same
   entries whichever removal paths raced, at most MaxSize of them, and no
   entry leaves without a cause.                                            *)
THEOREM MapAndListAgree == Spec => []PoolIsLinked
<1>1. PoolInv => PoolIsLinked
  BY DEF PoolInv
<1>2. QED
  BY <1>1, PoolInvariance, PTL

(* A build that took the server of a registration which has since failed
   does not leave its entry in the pool.                                    *)
THEOREM FailedServersAreNotPooled == Spec => []PoisonedNeverCached
<1>1. PoolInv => PoisonedNeverCached
  BY DEF PoolInv
<1>2. QED
  BY <1>1, PoolInvariance, PTL

(* Whoever is told "your credential was rejected" because a call was refused,
   or "reaches too little", is told what was so of the very entry dropped,
   however late the verdict was acted on.  Of what the sweep drops, which its
   client is told in the same words (CauseInvalidCredential), this says nothing:
   there it is not so, as the run of InvalidIsCurrent shows.                 *)
THEOREM ToldWhatIsSo == Spec => []EndingsAreTrue
<1>1. PoolInv => EndingsAreTrue
  BY DEF PoolInv
<1>2. QED
  BY <1>1, PoolInvariance, PTL

(* Builds, grant reads and confirmations together hold exactly the probe
   slots taken, and never more than there are.                              *)
THEOREM SlotsComeBack == Spec => []ProbesAreHeld
<1>1. PoolInv => ProbesAreHeld
  BY DEF PoolInv
<1>2. QED
  BY <1>1, PoolInvariance, PTL

(* The list is in the order of last use, so its tail is the entry unused
   longest: making room takes that one among the credentials without work. *)
THEOREM RoomIsMadeAmongTheIdle == Spec => PressureSparesWork
<1> DEFINE Spared(e) == IF e \in busy THEN Pooled \subseteq busy
                        ELSE \A d \in Pooled \ busy : entry[d].used >= entry[e].used
<1>1. ASSUME PoolInv, [Next]_vars, NEW e \in Pooled, entry'[e].cause = "size_pressure"
      PROVE  Spared(e)
  <2>1. /\ e \in Requests /\ linked = Pooled /\ entry[e].cause = "none"
        /\ \A d \in Requests : entry[d].used \in Nat
    <3>1. e \in Requests /\ linked = Pooled /\ Current(e)
      BY <1>1 DEF PoolInv, PoolIsLinked, Pooled
    <3>2. entry[e].cause = "none"
      BY <1>1, <3>1 DEF PoolInv, PoolIsLinked
    <3>3. ASSUME NEW d \in Requests PROVE entry[d].used \in Nat
      BY <1>1 DEF PoolInv, TypeOK, Entry
    <3>4. QED
      BY <3>1, <3>2, <3>3
  <2>2. Onward
    BY <1>1, StepsHaveKinds, StepsGoOnward
  <2>3. e \in LruVictim
    BY <1>1, <2>1, <2>2 DEF Onward
  <2>4. CASE linked \subseteq busy
    BY <1>1, <2>1, <2>4
  <2>5. CASE ~(linked \subseteq busy)
    <3>1. e \in Back(linked \ busy)
      BY <2>3, <2>5 DEF LruVictim
    <3>2. e \notin busy /\ \A d \in (linked \ busy) \ {e} : <<d, e>> \in ahead
      BY <3>1 DEF Back
    <3>3. ASSUME NEW d \in Pooled \ busy PROVE entry[d].used >= entry[e].used
      <4>1. CASE d = e
        BY <2>1, <4>1
      <4>2. CASE d # e
        BY <1>1, <2>1, <3>2, <3>3, <4>2 DEF PoolInv, ByUse
      <4>3. QED
        BY <4>1, <4>2
    <3>4. QED
      BY <3>2, <3>3
  <2>6. QED
    BY <2>4, <2>5
<1>2. PoolInv /\ [Next]_vars =>
        [\A e \in Pooled : entry'[e].cause = "size_pressure" => Spared(e)]_<<entry, entries>>
  BY <1>1
<1>3. QED
  BY <1>2, PoolInvariance, PTL DEF Spec, PressureSparesWork

===============================================================================
