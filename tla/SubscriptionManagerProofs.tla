---------------------- MODULE SubscriptionManagerProofs ----------------------
(***************************************************************************)
(* What holds of SubscriptionManager for every number of credentials,      *)
(* sessions, URIs and calls and every value of the two ceilings.           *)
(***************************************************************************)
EXTENDS SubscriptionManager, FiniteSetTheorems, TLAPS

(* The variables the gate and the registries are made of. *)
slotVars == <<held, mu, registry, pc, arg>>

SlotTypes ==
    /\ held \in Nat
    /\ mu \in [Managers -> Calls \cup {None}]
    /\ registry \in [Managers -> [URIs -> Calls \cup {None}]]
    /\ pc \in [Calls -> CallPc]
    /\ arg \in [Calls -> Args]

(* A call that has started names a session, a URI and, once it waits or has
   succeeded, the watcher it is about.                                      *)
ArgumentsKnown ==
    \A c \in Calls :
        /\ pc[c] # "idle" => arg[c].sub \in Sessions /\ arg[c].uri \in URIs
        /\ pc[c] = "awaiting" => arg[c].watcher \in Calls

WithinGate == GateLimit # 0 => held <= GateLimit
WithinCap  == \A m \in Managers : Cardinality(WatchedURIs(m)) <= MaxWatchers

(* The inductive invariant.  GateCountsWatchers alone is not inductive: a
   removal gives back as many slots as the registry held URIs for only
   because a watcher is registered once, under its own URI, and an insertion
   takes exactly one because the URI was kept free by the lock.             *)
GateInv ==
    /\ SlotTypes
    /\ ArgumentsKnown
    /\ SlotsAreOwned
    /\ GateCountsWatchers
    /\ WithinGate
    /\ WithinCap

USE ManagerAssumption, FiniteAssumption, OptionsAssumption

-----------------------------------------------------------------------------
LEMMA SlotSetsFinite ==
    ASSUME SlotTypes
    PROVE  /\ IsFiniteSet(WatchedSlots) /\ Cardinality(WatchedSlots) \in Nat
           /\ IsFiniteSet(Reserving) /\ Cardinality(Reserving) \in Nat
           /\ \A m \in Managers : /\ IsFiniteSet(WatchedURIs(m))
                                  /\ Cardinality(WatchedURIs(m)) \in Nat
<1>1. IsFiniteSet(Managers \X URIs)
  BY FS_Product
<1>2. IsFiniteSet(WatchedSlots)
  BY <1>1, FS_Subset DEF WatchedSlots
<1>3. IsFiniteSet(Reserving)
  BY FS_Subset DEF Reserving
<1>4. \A m \in Managers : IsFiniteSet(WatchedURIs(m))
  BY FS_Subset DEF WatchedURIs
<1>5. QED
  BY <1>2, <1>3, <1>4, FS_CardinalityType

(* Dropping watchers of one manager takes as many slots out of WatchedSlots
   as it takes URIs out of the registry, and nothing else changes there.    *)
LEMMA DropCounts ==
    ASSUME SlotTypes, NEW m \in Managers, NEW W, W \subseteq Calls,
           registry' = [registry EXCEPT ![m] =
                            [u \in URIs |-> IF @[u] \in W THEN None ELSE @[u]]]
    PROVE  LET D == {u \in URIs : registry[m][u] \in W}
           IN  /\ registry' \in [Managers -> [URIs -> Calls \cup {None}]]
               /\ \A k \in Managers, u \in URIs :
                    registry'[k][u] # None => registry'[k][u] = registry[k][u]
               /\ Cardinality(D) \in Nat
               /\ Cardinality(D) <= Cardinality(WatchedSlots)
               /\ Cardinality(WatchedSlots') = Cardinality(WatchedSlots) - Cardinality(D)
               /\ \A k \in Managers : /\ Cardinality(WatchedURIs(k)') \in Nat
                                      /\ Cardinality(WatchedURIs(k)') <= Cardinality(WatchedURIs(k))
<1> DEFINE D == {u \in URIs : registry[m][u] \in W}
           Gone == {m} \X D
<1>1. registry' \in [Managers -> [URIs -> Calls \cup {None}]]
  BY DEF SlotTypes
<1>2. \A k \in Managers, u \in URIs :
        registry'[k][u] = IF k = m /\ u \in D THEN None ELSE registry[k][u]
  BY DEF SlotTypes
<1>3. IsFiniteSet(D) /\ Cardinality(D) \in Nat
  BY FS_Subset, FS_CardinalityType
<1>4. IsFiniteSet(Gone) /\ Cardinality(Gone) = Cardinality(D)
  <2>1. IsFiniteSet({m}) /\ Cardinality({m}) = 1
    BY FS_Singleton
  <2>2. IsFiniteSet(Gone) /\ Cardinality(Gone) = Cardinality({m}) * Cardinality(D)
    <3> HIDE DEF D
    <3>1. IsFiniteSet({m} \X D) /\ Cardinality({m} \X D) = Cardinality({m}) * Cardinality(D)
      BY <2>1, <1>3, FS_Product, Zenon
    <3>2. QED
      BY <3>1
  <2>3. QED
    <3> HIDE DEF D, Gone
    <3>1. QED
      BY <2>1, <2>2, <1>3
<1>5. Gone \subseteq WatchedSlots
  BY DEF WatchedSlots
<1>6. WatchedSlots' = WatchedSlots \ Gone
  <2>1. ASSUME NEW k \in Managers \X URIs
        PROVE  k \in WatchedSlots' <=> k \in WatchedSlots \ Gone
    <3>1. k[1] \in Managers /\ k[2] \in URIs /\ k = <<k[1], k[2]>>
      OBVIOUS
    <3>2. registry'[k[1]][k[2]] = IF k[1] = m /\ k[2] \in D THEN None ELSE registry[k[1]][k[2]]
      BY <3>1, <1>2
    <3>3. k \in Gone <=> k[1] = m /\ k[2] \in D
      BY <3>1
    <3>4. QED
      BY <3>1, <3>2, <3>3 DEF WatchedSlots
  <2>2. WatchedSlots' \subseteq Managers \X URIs /\ WatchedSlots \subseteq Managers \X URIs
    BY DEF WatchedSlots
  <2>3. QED
    BY <2>1, <2>2
<1>7. Cardinality(WatchedSlots') = Cardinality(WatchedSlots) - Cardinality(D)
  <2>1. WatchedSlots \cap Gone = Gone
    BY <1>5
  <2>2. IsFiniteSet(WatchedSlots)
    BY SlotSetsFinite
  <2>3. Cardinality(WatchedSlots \ Gone) = Cardinality(WatchedSlots) - Cardinality(WatchedSlots \cap Gone)
    BY <2>2, <1>4, FS_Difference, Zenon
  <2>4. QED
    BY <2>1, <2>3, <1>4, <1>6
<1>8. Cardinality(D) <= Cardinality(WatchedSlots)
  BY <1>4, <1>5, SlotSetsFinite, FS_Subset
<1>9. ASSUME NEW k \in Managers
      PROVE  /\ Cardinality(WatchedURIs(k)') \in Nat
             /\ Cardinality(WatchedURIs(k)') <= Cardinality(WatchedURIs(k))
  <2>1. WatchedURIs(k)' \subseteq WatchedURIs(k)
    BY <1>2 DEF WatchedURIs
  <2>2. QED
    BY <2>1, SlotSetsFinite, FS_Subset, FS_CardinalityType
<1>10. QED
  BY <1>1, <1>2, <1>3, <1>7, <1>8, <1>9

(* Whatever drops watchers under the lock keeps the accounting. *)
LEMMA DropKeepsGateInv ==
    ASSUME GateInv, NEW m \in Managers, NEW W, W \subseteq Calls,
           Unlocked(m), Drop(m, W), UNCHANGED <<mu, arg>>, pc' \in [Calls -> CallPc],
           \A c \in Calls : \/ pc'[c] = pc[c]
                            \/ /\ pc[c] \notin {"idle", "reserved"}
                               /\ pc'[c] \notin {"idle", "reserved", "awaiting"}
    PROVE  GateInv'
<1> USE DEF GateInv
<1> DEFINE D == {u \in URIs : registry[m][u] \in W}
<1>1. /\ registry' \in [Managers -> [URIs -> Calls \cup {None}]]
      /\ \A k \in Managers, u \in URIs :
            registry'[k][u] # None => registry'[k][u] = registry[k][u]
      /\ Cardinality(D) \in Nat
      /\ Cardinality(D) <= Cardinality(WatchedSlots)
      /\ Cardinality(WatchedSlots') = Cardinality(WatchedSlots) - Cardinality(D)
      /\ \A k \in Managers : /\ Cardinality(WatchedURIs(k)') \in Nat
                             /\ Cardinality(WatchedURIs(k)') <= Cardinality(WatchedURIs(k))
  BY DropCounts DEF Drop
<1>2. held' = held - Slots(Cardinality(D))
  BY DEF Drop
<1>3. Reserving' = Reserving
  BY DEF Reserving
<1>4. held' = Slots(Cardinality(WatchedSlots') + Cardinality(Reserving')) /\ held' \in Nat /\ held' <= held
  BY <1>1, <1>2, <1>3, SlotSetsFinite DEF GateCountsWatchers, Slots
<1>5. SlotTypes'
  BY <1>1, <1>4 DEF SlotTypes
<1>6. ArgumentsKnown'
  BY DEF ArgumentsKnown
<1>7. SlotsAreOwned'
  <2>1. \A c \in Calls : pc'[c] # "idle" => Mgr(c)' = Mgr(c) /\ Uri(c)' = Uri(c)
    BY DEF Mgr, Uri
  <2>2. ASSUME NEW c \in Reserving'
        PROVE  mu'[Mgr(c)'] = c /\ registry'[Mgr(c)'][Uri(c)'] = None
    <3>1. c \in Reserving /\ c \in Calls /\ Mgr(c)' = Mgr(c) /\ Uri(c)' = Uri(c)
      BY <1>3, <2>1, <2>2 DEF Reserving
    <3>2. Mgr(c) \in Managers /\ Uri(c) \in URIs
      BY <3>1 DEF Reserving, ArgumentsKnown, Mgr, Uri
    <3>3. QED
      BY <3>1, <3>2, <1>1 DEF SlotsAreOwned
  <2>3. ASSUME NEW k \in Managers, NEW u \in URIs, registry'[k][u] # None
        PROVE  /\ pc'[registry'[k][u]] \notin {"idle", "reserved"}
               /\ ManagerOf[arg'[registry'[k][u]].sub] = k
               /\ arg'[registry'[k][u]].uri = u
    <3> DEFINE w == registry[k][u]
    <3>1. registry'[k][u] = w /\ w # None /\ w \in Calls
      BY <2>3, <1>1 DEF SlotTypes
    <3>2. pc[w] \notin {"idle", "reserved"} /\ Mgr(w) = k /\ Uri(w) = u
      BY <3>1 DEF SlotsAreOwned
    <3>3. pc'[w] \notin {"idle", "reserved"}
      BY <3>1, <3>2
    <3>4. QED
      BY <3>1, <3>2, <3>3 DEF Mgr, Uri
  <2>4. QED
    BY <2>2, <2>3 DEF SlotsAreOwned, Mgr, Uri
<1>8. WithinGate'
  BY <1>4 DEF WithinGate, SlotTypes
<1>9. WithinCap'
  <2>1. \A k \in Managers : Cardinality(WatchedURIs(k)) \in Nat
    BY SlotSetsFinite
  <2>2. \A k \in Managers : Cardinality(WatchedURIs(k)') <= MaxWatchers
    BY <1>1, <2>1 DEF WithinCap
  <2>3. QED
    BY <2>2 DEF WithinCap
<1>10. QED
  BY <1>4, <1>5, <1>6, <1>7, <1>8, <1>9 DEF GateCountsWatchers

(* A call that is refused, joins, or goes on without touching a registry. *)
LEMMA CallMovesOn ==
    ASSUME GateInv, UNCHANGED <<held, mu, registry>>,
           NEW c \in Calls, NEW p \in CallPc \ {"idle", "reserved"}, Answers(c, p),
           \/ /\ pc[c] \notin {"idle", "reserved"} /\ p # "awaiting" /\ arg' = arg
           \/ /\ pc[c] = "idle"
              /\ \E a \in Args : /\ arg' = [arg EXCEPT ![c] = a]
                                 /\ a.sub \in Sessions /\ a.uri \in URIs
                                 /\ p = "awaiting" => a.watcher \in Calls
    PROVE  GateInv'
<1> USE DEF GateInv
<1>1. SlotTypes'
  BY DEF SlotTypes, Answers
<1>2. ArgumentsKnown'
  BY DEF ArgumentsKnown, SlotTypes, Answers
<1>3. Reserving' = Reserving
  BY DEF Reserving, SlotTypes, Answers
<1>4. SlotsAreOwned'
  <2>1. \A w \in Calls : pc[w] # "idle" => arg'[w] = arg[w]
    BY DEF SlotTypes
  <2>2. ASSUME NEW d \in Reserving'
        PROVE  mu'[ManagerOf[arg'[d].sub]] = d /\ registry'[ManagerOf[arg'[d].sub]][arg'[d].uri] = None
    <3>1. d \in Reserving /\ arg'[d] = arg[d]
      BY <1>3, <2>1 DEF Reserving
    <3>2. QED
      BY <3>1 DEF SlotsAreOwned, Mgr, Uri
  <2>3. ASSUME NEW k \in Managers, NEW u \in URIs, registry'[k][u] # None
        PROVE  /\ pc'[registry'[k][u]] \notin {"idle", "reserved"}
               /\ ManagerOf[arg'[registry'[k][u]].sub] = k
               /\ arg'[registry'[k][u]].uri = u
    <3> DEFINE w == registry[k][u]
    <3>1. registry'[k][u] = w /\ w \in Calls
      BY <2>3 DEF SlotTypes
    <3>2. pc[w] \notin {"idle", "reserved"} /\ Mgr(w) = k /\ Uri(w) = u
      BY <2>3 DEF SlotsAreOwned
    <3>3. pc'[w] \notin {"idle", "reserved"}
      BY <3>1, <3>2 DEF SlotTypes, Answers
    <3>4. QED
      BY <3>1, <3>2, <3>3, <2>1 DEF Mgr, Uri
  <2>4. QED
    BY <2>2, <2>3 DEF SlotsAreOwned, Mgr, Uri
<1>5. GateCountsWatchers'
  BY <1>3 DEF GateCountsWatchers, WatchedSlots
<1>6. WithinGate' /\ WithinCap'
  BY DEF WithinGate, WithinCap, WatchedURIs
<1>7. QED
  BY <1>1, <1>2, <1>4, <1>5, <1>6

LEMMA FrameKeepsGateInv ==
    ASSUME GateInv, UNCHANGED slotVars
    PROVE  GateInv'
<1> USE DEF GateInv, slotVars
<1>1. SlotTypes'
  BY DEF SlotTypes
<1>2. ArgumentsKnown'
  BY DEF ArgumentsKnown
<1>3. SlotsAreOwned'
  BY DEF SlotsAreOwned, Reserving, Mgr, Uri
<1>4. GateCountsWatchers'
  BY DEF GateCountsWatchers, Reserving, WatchedSlots
<1>5. WithinGate' /\ WithinCap'
  BY DEF WithinGate, WithinCap, WatchedURIs
<1>6. QED
  BY <1>1, <1>2, <1>3, <1>4, <1>5

(* The shared slot is taken: one more call between taking and spending. *)
LEMMA ReserveKeepsGateInv ==
    ASSUME GateInv, NEW c \in Calls, NEW s \in Sessions, NEW u \in URIs, Reserve(c, s, u)
    PROVE  GateInv'
<1> USE DEF GateInv
<1> DEFINE m == ManagerOf[s]
<1>0. /\ pc[c] = "idle" /\ mu[m] = None /\ m \in Managers
      /\ registry[m][u] = None /\ registry' = registry
      /\ GateLimit = 0 \/ held < GateLimit
      /\ held' = held + Slots(1) /\ mu' = [mu EXCEPT ![m] = c]
      /\ pc' = [pc EXCEPT ![c] = "reserved"]
      /\ arg' = [arg EXCEPT ![c] = Arguments(s, u, c, FALSE)]
  BY DEF Reserve, Enters, Unlocked, Answers
<1>1. SlotTypes'
  BY <1>0 DEF SlotTypes, Arguments, Args, CallPc, Slots
<1>2. ArgumentsKnown'
  BY <1>0 DEF ArgumentsKnown, SlotTypes, Arguments
<1>3. Reserving' = Reserving \cup {c} /\ c \notin Reserving
  BY <1>0 DEF Reserving, SlotTypes
<1>4. SlotsAreOwned'
  <2>1. \A w \in Calls : w # c => arg'[w] = arg[w] /\ pc'[w] = pc[w]
    BY <1>0 DEF SlotTypes
  <2>2. ASSUME NEW d \in Reserving'
        PROVE  mu'[ManagerOf[arg'[d].sub]] = d /\ registry'[ManagerOf[arg'[d].sub]][arg'[d].uri] = None
    <3>1. CASE d = c
      <4>1. arg'[d].sub = s /\ arg'[d].uri = u
        BY <3>1, <1>0 DEF SlotTypes, Arguments
      <4>2. QED
        BY <3>1, <4>1, <1>0 DEF SlotTypes
    <3>2. CASE d # c
      <4>1. d \in Reserving /\ d \in Calls /\ arg'[d] = arg[d]
        BY <3>2, <1>3, <2>1 DEF Reserving
      <4>2. Mgr(d) \in Managers /\ mu[Mgr(d)] = d /\ registry[Mgr(d)][Uri(d)] = None
        BY <4>1 DEF SlotsAreOwned, ArgumentsKnown, Reserving, Mgr
      <4>3. Mgr(d) # m
        BY <4>1, <4>2, <1>0
      <4>4. QED
        BY <4>1, <4>2, <4>3, <1>0 DEF Mgr, Uri, SlotTypes
    <3>3. QED
      BY <3>1, <3>2
  <2>3. ASSUME NEW k \in Managers, NEW x \in URIs, registry'[k][x] # None
        PROVE  /\ pc'[registry'[k][x]] \notin {"idle", "reserved"}
               /\ ManagerOf[arg'[registry'[k][x]].sub] = k
               /\ arg'[registry'[k][x]].uri = x
    <3> DEFINE w == registry[k][x]
    <3>1. registry'[k][x] = w /\ w \in Calls
      BY <2>3, <1>0 DEF SlotTypes
    <3>2. pc[w] \notin {"idle", "reserved"} /\ Mgr(w) = k /\ Uri(w) = x
      BY <2>3, <1>0 DEF SlotsAreOwned
    <3>3. w # c
      BY <3>2, <1>0
    <3>4. QED
      BY <3>1, <3>2, <3>3, <2>1 DEF Mgr, Uri
  <2>4. QED
    BY <2>2, <2>3 DEF SlotsAreOwned, Mgr, Uri
<1>5. GateCountsWatchers'
  <2>1. Cardinality(Reserving') = Cardinality(Reserving) + 1
    BY <1>3, SlotSetsFinite, FS_AddElement
  <2>2. WatchedSlots' = WatchedSlots
    BY <1>0 DEF WatchedSlots
  <2>3. QED
    BY <1>0, <2>1, <2>2, SlotSetsFinite DEF GateCountsWatchers, Slots
<1>6. WithinGate' /\ WithinCap'
  BY <1>0 DEF WithinGate, WithinCap, WatchedURIs, SlotTypes, Slots
<1>7. QED
  BY <1>1, <1>2, <1>4, <1>5, <1>6

(* What every step that spends a slot has in common: c alone stops being a
   call with a slot, and the slot of nobody else is disturbed.              *)
LEMMA SpendingReserver ==
    ASSUME GateInv, NEW c \in Calls, pc[c] = "reserved",
           NEW p \in CallPc \ {"idle", "reserved", "awaiting"}, Answers(c, p),
           mu' = [mu EXCEPT ![Mgr(c)] = None], arg' = arg
    PROVE  /\ Mgr(c) \in Managers /\ Uri(c) \in URIs
           /\ mu[Mgr(c)] = c /\ registry[Mgr(c)][Uri(c)] = None
           /\ mu' \in [Managers -> Calls \cup {None}] /\ pc' \in [Calls -> CallPc]
           /\ ArgumentsKnown'
           /\ Reserving' = Reserving \ {c}
           /\ Cardinality(Reserving') = Cardinality(Reserving) - 1
           /\ Cardinality(Reserving) >= 1
           /\ \A d \in Reserving' : /\ Mgr(d) \in Managers \ {Mgr(c)} /\ Uri(d) \in URIs
                                    /\ mu'[Mgr(d)] = d /\ registry[Mgr(d)][Uri(d)] = None
           /\ \A w \in Calls : pc[w] \notin {"idle", "reserved"} => pc'[w] = pc[w]
<1> USE DEF GateInv
<1>1. /\ Mgr(c) \in Managers /\ Uri(c) \in URIs
      /\ mu[Mgr(c)] = c /\ registry[Mgr(c)][Uri(c)] = None
  BY DEF ArgumentsKnown, SlotsAreOwned, Reserving, Mgr, Uri
<1>2. mu' \in [Managers -> Calls \cup {None}] /\ pc' \in [Calls -> CallPc]
  BY DEF SlotTypes, Answers
<1>3. ArgumentsKnown'
  BY DEF ArgumentsKnown, SlotTypes, Answers
<1>4. Reserving' = Reserving \ {c} /\ c \in Reserving
  BY DEF Reserving, SlotTypes, Answers
<1>5. Cardinality(Reserving') = Cardinality(Reserving) - 1
  BY <1>4, SlotSetsFinite, FS_RemoveElement
<1>6. Cardinality(Reserving) >= 1
  <2>1. Cardinality(Reserving) # 0
    BY <1>4, SlotSetsFinite, FS_EmptySet
  <2>2. QED
    BY <2>1, SlotSetsFinite
<1>7. ASSUME NEW d \in Reserving'
      PROVE  /\ Mgr(d) \in Managers \ {Mgr(c)} /\ Uri(d) \in URIs
             /\ mu'[Mgr(d)] = d /\ registry[Mgr(d)][Uri(d)] = None
  <2>1. d \in Reserving /\ d \in Calls /\ d # c
    BY <1>4 DEF Reserving
  <2>2. Mgr(d) \in Managers /\ Uri(d) \in URIs
    BY <2>1 DEF ArgumentsKnown, Reserving, Mgr, Uri
  <2>3. mu[Mgr(d)] = d /\ registry[Mgr(d)][Uri(d)] = None
    BY <2>1 DEF SlotsAreOwned
  <2>4. QED
    BY <1>1, <2>1, <2>2, <2>3 DEF SlotTypes
<1>8. \A w \in Calls : pc[w] \notin {"idle", "reserved"} => pc'[w] = pc[w]
  BY DEF SlotTypes, Answers
<1>9. QED
  BY <1>1, <1>2, <1>3, <1>4, <1>5, <1>6, <1>7, <1>8

LEMMA RefuseTooManyKeepsGateInv ==
    ASSUME GateInv, NEW c \in Calls, RefuseTooMany(c)
    PROVE  GateInv'
<1> USE DEF GateInv
<1>0. /\ pc[c] = "reserved" /\ Answers(c, "tooMany") /\ arg' = arg /\ registry' = registry
      /\ mu' = [mu EXCEPT ![Mgr(c)] = None] /\ held' = held - Slots(1)
      /\ "tooMany" \in CallPc \ {"idle", "reserved", "awaiting"}
  BY DEF RefuseTooMany, CallPc, Answered
<1>1. /\ mu' \in [Managers -> Calls \cup {None}] /\ pc' \in [Calls -> CallPc]
      /\ ArgumentsKnown'
      /\ Cardinality(Reserving') = Cardinality(Reserving) - 1 /\ Cardinality(Reserving) >= 1
      /\ \A d \in Reserving' : mu'[Mgr(d)] = d /\ registry[Mgr(d)][Uri(d)] = None
      /\ \A w \in Calls : pc[w] \notin {"idle", "reserved"} => pc'[w] = pc[w]
  BY <1>0, SpendingReserver
<1>2. WatchedSlots' = WatchedSlots
  BY <1>0 DEF WatchedSlots
<1>3. held' = Slots(Cardinality(WatchedSlots') + Cardinality(Reserving')) /\ held' \in Nat /\ held' <= held
  BY <1>0, <1>1, <1>2, SlotSetsFinite DEF GateCountsWatchers, Slots
<1>4. SlotTypes'
  BY <1>0, <1>1, <1>3 DEF SlotTypes
<1>5. SlotsAreOwned'
  <2>1. \A m \in Managers, u \in URIs : registry[m][u] # None => registry[m][u] \in Calls
    BY DEF SlotTypes
  <2>2. QED
    BY <1>0, <1>1, <2>1 DEF SlotsAreOwned, Mgr, Uri
<1>6. WithinGate' /\ WithinCap'
  BY <1>0, <1>3 DEF WithinGate, WithinCap, WatchedURIs, SlotTypes
<1>7. QED
  BY <1>1, <1>3, <1>4, <1>5, <1>6 DEF GateCountsWatchers

(* The slot taken becomes the slot of one more watched URI. *)
LEMMA InsertKeepsGateInv ==
    ASSUME GateInv, NEW c \in Calls, Insert(c)
    PROVE  GateInv'
<1> USE DEF GateInv
<1> DEFINE m == Mgr(c)
           u == Uri(c)
<1>0. /\ pc[c] = "reserved" /\ Answers(c, "reading") /\ arg' = arg /\ held' = held
      /\ registry' = [registry EXCEPT ![m][u] = c] /\ ~Full(m)
      /\ mu' = [mu EXCEPT ![m] = None]
      /\ "reading" \in CallPc \ {"idle", "reserved", "awaiting"}
  BY DEF Insert, Place, CallPc
<1>1. /\ m \in Managers /\ u \in URIs /\ registry[m][u] = None
      /\ mu' \in [Managers -> Calls \cup {None}] /\ pc' \in [Calls -> CallPc]
      /\ ArgumentsKnown'
      /\ Cardinality(Reserving') = Cardinality(Reserving) - 1 /\ Cardinality(Reserving) >= 1
      /\ \A d \in Reserving' : /\ Mgr(d) \in Managers \ {m} /\ Uri(d) \in URIs
                               /\ mu'[Mgr(d)] = d /\ registry[Mgr(d)][Uri(d)] = None
      /\ \A w \in Calls : pc[w] \notin {"idle", "reserved"} => pc'[w] = pc[w]
  BY <1>0, SpendingReserver
<1>2. /\ registry' \in [Managers -> [URIs -> Calls \cup {None}]]
      /\ \A k \in Managers, x \in URIs :
            registry'[k][x] = IF k = m /\ x = u THEN c ELSE registry[k][x]
  BY <1>0, <1>1 DEF SlotTypes
<1>3. WatchedSlots' = WatchedSlots \cup {<<m, u>>} /\ <<m, u>> \notin WatchedSlots
  BY <1>1, <1>2 DEF WatchedSlots
<1>4. Cardinality(WatchedSlots') = Cardinality(WatchedSlots) + 1
  BY <1>3, SlotSetsFinite, FS_AddElement
<1>5. GateCountsWatchers'
  BY <1>0, <1>1, <1>4, SlotSetsFinite DEF GateCountsWatchers, Slots
<1>6. SlotTypes'
  BY <1>0, <1>1, <1>2 DEF SlotTypes
<1>7. SlotsAreOwned'
  <2>1. \A d \in Reserving' : /\ mu'[ManagerOf[arg'[d].sub]] = d
                              /\ registry'[ManagerOf[arg'[d].sub]][arg'[d].uri] = None
    BY <1>0, <1>1, <1>2 DEF Mgr, Uri
  <2>2. ASSUME NEW k \in Managers, NEW x \in URIs, registry'[k][x] # None
        PROVE  /\ pc'[registry'[k][x]] \notin {"idle", "reserved"}
               /\ ManagerOf[arg'[registry'[k][x]].sub] = k
               /\ arg'[registry'[k][x]].uri = x
    <3>1. CASE k = m /\ x = u
      <4>1. registry'[k][x] = c
        BY <3>1, <1>1, <1>2
      <4>2. pc'[c] = "reading"
        BY <1>0 DEF Answers, SlotTypes
      <4>3. ManagerOf[arg'[c].sub] = k /\ arg'[c].uri = x
        BY <3>1, <1>0 DEF Mgr, Uri
      <4>4. QED
        BY <4>1, <4>2, <4>3
    <3>2. CASE ~(k = m /\ x = u)
      <4>1. registry'[k][x] = registry[k][x] /\ registry[k][x] \in Calls /\ registry[k][x] # None
        BY <3>2, <2>2, <1>2 DEF SlotTypes
      <4>2. /\ pc[registry[k][x]] \notin {"idle", "reserved"}
            /\ Mgr(registry[k][x]) = k /\ Uri(registry[k][x]) = x
        BY <4>1 DEF SlotsAreOwned
      <4>3. pc'[registry[k][x]] = pc[registry[k][x]]
        BY <4>1, <4>2, <1>1
      <4>4. QED
        BY <4>1, <4>2, <4>3, <1>0 DEF Mgr, Uri
    <3>3. QED
      BY <3>1, <3>2
  <2>3. QED
    BY <2>1, <2>2 DEF SlotsAreOwned, Mgr, Uri
<1>8. WithinCap'
  <2>0. \A k \in Managers : IsFiniteSet(WatchedURIs(k)) /\ Cardinality(WatchedURIs(k)) \in Nat
    BY SlotSetsFinite
  <2>1. Cardinality(WatchedURIs(m)) < MaxWatchers
    BY <2>0, <1>0, <1>1 DEF Full
  <2>2. ASSUME NEW k \in Managers
        PROVE  Cardinality(WatchedURIs(k)') <= MaxWatchers
    <3>1. CASE k = m
      <4>1. WatchedURIs(k)' = WatchedURIs(k) \cup {u} /\ u \notin WatchedURIs(k)
        BY <3>1, <1>1, <1>2 DEF WatchedURIs
      <4>2. Cardinality(WatchedURIs(k)') = Cardinality(WatchedURIs(k)) + 1
        BY <4>1, <2>0, FS_AddElement
      <4>3. QED
        BY <3>1, <4>2, <2>0, <2>1
    <3>2. CASE k # m
      <4>1. WatchedURIs(k)' = WatchedURIs(k)
        BY <3>2, <1>2 DEF WatchedURIs
      <4>2. QED
        BY <4>1 DEF WithinCap
    <3>3. QED
      BY <3>1, <3>2
  <2>3. QED
    BY <2>2 DEF WithinCap
<1>9. WithinGate'
  BY <1>0 DEF WithinGate
<1>10. QED
  BY <1>1, <1>5, <1>6, <1>7, <1>8, <1>9

(* The slot taken becomes the slot of the new watch, and the slot of the
   watch it replaces goes back: v is registered under one URI only.        *)
LEMMA InsertEvictingKeepsGateInv ==
    ASSUME GateInv, NEW c \in Calls, InsertEvicting(c)
    PROVE  GateInv'
<1> USE DEF GateInv
<1> DEFINE m == Mgr(c)
           u == Uri(c)
<1>0. /\ pc[c] = "reserved" /\ Answers(c, "reading") /\ arg' = arg
      /\ held' = held - Slots(1) /\ mu' = [mu EXCEPT ![m] = None]
      /\ "reading" \in CallPc \ {"idle", "reserved", "awaiting"}
  BY DEF InsertEvicting, Place, CallPc
<1>1. /\ m \in Managers /\ u \in URIs /\ registry[m][u] = None
      /\ mu' \in [Managers -> Calls \cup {None}] /\ pc' \in [Calls -> CallPc]
      /\ ArgumentsKnown'
      /\ Cardinality(Reserving') = Cardinality(Reserving) - 1 /\ Cardinality(Reserving) >= 1
      /\ \A d \in Reserving' : /\ Mgr(d) \in Managers \ {m} /\ Uri(d) \in URIs
                               /\ mu'[Mgr(d)] = d /\ registry[Mgr(d)][Uri(d)] = None
      /\ \A w \in Calls : pc[w] \notin {"idle", "reserved"} => pc'[w] = pc[w]
  BY <1>0, SpendingReserver
<1>2. PICK v \in WatchersOf(m) :
        registry' = [registry EXCEPT ![m] =
                        [x \in URIs |-> IF x = u THEN c ELSE IF @[x] = v THEN None ELSE @[x]]]
  BY DEF InsertEvicting, LongestDemoted
<1>3. PICK y \in URIs : v = registry[m][y] /\ registry[m][y] # None
  BY <1>2 DEF WatchersOf, WatchedURIs
<1>4. \A x \in URIs : registry[m][x] = v <=> x = y
  BY <1>1, <1>3 DEF SlotsAreOwned
<1>5. /\ registry' \in [Managers -> [URIs -> Calls \cup {None}]]
      /\ \A k \in Managers, x \in URIs :
            registry'[k][x] = IF k # m THEN registry[k][x]
                              ELSE IF x = u THEN c ELSE IF x = y THEN None ELSE registry[k][x]
  <2>1. registry' \in [Managers -> [URIs -> Calls \cup {None}]]
    BY <1>1, <1>2 DEF SlotTypes
  <2>2. QED
    BY <2>1, <1>1, <1>2, <1>4 DEF SlotTypes
<1>6. y # u
  BY <1>1, <1>3
<1>7. Cardinality(WatchedSlots') = Cardinality(WatchedSlots)
  <2>1. WatchedSlots' = (WatchedSlots \ {<<m, y>>}) \cup {<<m, u>>}
    <3>1. ASSUME NEW k \in Managers, NEW x \in URIs
          PROVE  <<k, x>> \in WatchedSlots' <=> <<k, x>> \in (WatchedSlots \ {<<m, y>>}) \cup {<<m, u>>}
      BY <1>1, <1>3, <1>5, <1>6 DEF WatchedSlots
    <3>2. /\ WatchedSlots' \subseteq Managers \X URIs
          /\ (WatchedSlots \ {<<m, y>>}) \cup {<<m, u>>} \subseteq Managers \X URIs
      BY <1>1 DEF WatchedSlots
    <3>3. QED
      BY <3>1, <3>2
  <2>2. <<m, y>> \in WatchedSlots /\ <<m, u>> \notin WatchedSlots
    BY <1>1, <1>3 DEF WatchedSlots
  <2>3. IsFiniteSet(WatchedSlots) /\ Cardinality(WatchedSlots) \in Nat
    BY SlotSetsFinite
  <2>4. /\ IsFiniteSet(WatchedSlots \ {<<m, y>>})
        /\ Cardinality(WatchedSlots \ {<<m, y>>}) = Cardinality(WatchedSlots) - 1
    BY <2>2, <2>3, FS_RemoveElement
  <2>5. <<m, u>> \notin WatchedSlots \ {<<m, y>>}
    BY <2>2
  <2>6. Cardinality(WatchedSlots') = Cardinality(WatchedSlots \ {<<m, y>>}) + 1
    BY <2>1, <2>4, <2>5, FS_AddElement
  <2>7. QED
    BY <2>3, <2>4, <2>6
<1>8. held' = Slots(Cardinality(WatchedSlots') + Cardinality(Reserving')) /\ held' \in Nat /\ held' <= held
  BY <1>0, <1>1, <1>7, SlotSetsFinite DEF GateCountsWatchers, Slots
<1>9. SlotTypes'
  BY <1>0, <1>1, <1>5, <1>8 DEF SlotTypes
<1>10. SlotsAreOwned'
  <2>1. \A d \in Reserving' : /\ mu'[ManagerOf[arg'[d].sub]] = d
                              /\ registry'[ManagerOf[arg'[d].sub]][arg'[d].uri] = None
    BY <1>0, <1>1, <1>5 DEF Mgr, Uri
  <2>2. ASSUME NEW k \in Managers, NEW x \in URIs, registry'[k][x] # None
        PROVE  /\ pc'[registry'[k][x]] \notin {"idle", "reserved"}
               /\ ManagerOf[arg'[registry'[k][x]].sub] = k
               /\ arg'[registry'[k][x]].uri = x
    <3>1. CASE k = m /\ x = u
      <4>1. registry'[k][x] = c
        BY <3>1, <1>1, <1>5
      <4>2. pc'[c] = "reading"
        BY <1>0 DEF Answers, SlotTypes
      <4>3. ManagerOf[arg'[c].sub] = k /\ arg'[c].uri = x
        BY <3>1, <1>0 DEF Mgr, Uri
      <4>4. QED
        BY <4>1, <4>2, <4>3
    <3>2. CASE ~(k = m /\ x = u)
      <4>1. registry'[k][x] = registry[k][x] /\ registry[k][x] \in Calls /\ registry[k][x] # None
        BY <3>2, <2>2, <1>5 DEF SlotTypes
      <4>2. /\ pc[registry[k][x]] \notin {"idle", "reserved"}
            /\ Mgr(registry[k][x]) = k /\ Uri(registry[k][x]) = x
        BY <4>1 DEF SlotsAreOwned
      <4>3. pc'[registry[k][x]] = pc[registry[k][x]]
        BY <4>1, <4>2, <1>1
      <4>4. QED
        BY <4>1, <4>2, <4>3, <1>0 DEF Mgr, Uri
    <3>3. QED
      BY <3>1, <3>2
  <2>3. QED
    BY <2>1, <2>2 DEF SlotsAreOwned, Mgr, Uri
<1>11. WithinCap'
  <2>0. \A k \in Managers : IsFiniteSet(WatchedURIs(k)) /\ Cardinality(WatchedURIs(k)) \in Nat
    BY SlotSetsFinite
  <2>1. ASSUME NEW k \in Managers
        PROVE  Cardinality(WatchedURIs(k)') = Cardinality(WatchedURIs(k))
    <3>1. CASE k = m
      <4>1. /\ WatchedURIs(k)' = (WatchedURIs(k) \ {y}) \cup {u}
            /\ y \in WatchedURIs(k) /\ u \notin WatchedURIs(k)
        BY <3>1, <1>1, <1>3, <1>5, <1>6 DEF WatchedURIs
      <4>2. /\ IsFiniteSet(WatchedURIs(k) \ {y})
            /\ Cardinality(WatchedURIs(k) \ {y}) = Cardinality(WatchedURIs(k)) - 1
        BY <4>1, <2>0, FS_RemoveElement
      <4>3. Cardinality(WatchedURIs(k)') = Cardinality(WatchedURIs(k) \ {y}) + 1
        BY <4>1, <4>2, FS_AddElement
      <4>4. QED
        BY <4>2, <4>3, <2>0
    <3>2. CASE k # m
      <4>1. WatchedURIs(k)' = WatchedURIs(k)
        BY <3>2, <1>5 DEF WatchedURIs
      <4>2. QED
        BY <4>1
    <3>3. QED
      BY <3>1, <3>2
  <2>2. QED
    BY <2>1 DEF WithinCap
<1>12. WithinGate'
  BY <1>8 DEF WithinGate, SlotTypes
<1>13. QED
  BY <1>1, <1>8, <1>9, <1>10, <1>11, <1>12 DEF GateCountsWatchers

-----------------------------------------------------------------------------
(* A loop runs only for a call that has succeeded, so its manager is known. *)
LoopInv ==
    /\ loop \in [Calls -> LoopPc]
    /\ \A w \in Calls : loop[w] # "none" => pc[w] = "ok"

LEMMA LoopMovesOn ==
    ASSUME LoopInv, SlotTypes, NEW w \in Calls, loop[w] # "none" \/ pc'[w] = "ok",
           NEW to \in LoopPc, loop' = [loop EXCEPT ![w] = to],
           \A c \in Calls : pc[c] = "ok" => pc'[c] = "ok"
    PROVE  LoopInv'
BY DEF LoopInv

LEMMA LoopFrame ==
    ASSUME LoopInv, SlotTypes, loop' = loop,
           \A c \in Calls : pc[c] = "ok" => pc'[c] = "ok"
    PROVE  LoopInv'
BY DEF LoopInv

(* No step takes a call back from its success. *)
LEMMA SuccessStays ==
    ASSUME SlotTypes, [Next]_vars
    PROVE  \A c \in Calls : pc[c] = "ok" => pc'[c] = "ok"
<1>1. CASE UNCHANGED vars
  BY <1>1 DEF vars, callVars
<1>2. ASSUME NEW s \in Sessions, ClientStep(s)
      PROVE  \A c \in Calls : pc[c] = "ok" => pc'[c] = "ok"
  <2>1. ASSUME NEW u \in URIs, NEW c \in Calls, Subscribe(c, s, u)
        PROVE  \A d \in Calls : pc[d] = "ok" => pc'[d] = "ok"
    <3>1. pc[c] = "idle" /\ \E p \in CallPc : pc' = [pc EXCEPT ![c] = p]
      BY <2>1 DEF Subscribe, RefuseURI, RefuseClosed, Join, RefuseAtCapacity, Reserve, Enters,
                  Answers, CallPc, Answered
    <3>2. QED
      BY <3>1 DEF SlotTypes
  <2>2. QED
    BY <1>2, <2>1 DEF ClientStep, Unsubscribe, UnsubscribeAll, RenewAll, RenewLocked, callVars
<1>3. ASSUME NEW m \in Managers, ManagerStep(m)
      PROVE  \A c \in Calls : pc[c] = "ok" => pc'[c] = "ok"
  BY <1>3 DEF ManagerStep, Close, CloseReturns, Renew, RenewLocked, callVars
<1>4. ASSUME NEW c \in Calls, CallStep(c) \/ GiveUp(c)
      PROVE  \A d \in Calls : pc[d] = "ok" => pc'[d] = "ok"
  <2>1. pc[c] # "ok" /\ \E p : pc' = [pc EXCEPT ![c] = p]
    BY <1>4 DEF CallStep, GiveUp, RefuseTooMany, Insert, InsertEvicting, Place, FirstRead, AbandonFailed,
                AbandonClosed, AbandonWithdrawn, Abandon, Launch, AwaitReady, Answers
  <2>2. QED
    BY <2>1 DEF SlotTypes
<1>5. ASSUME NEW w \in Calls, LoopStep(w) \/ LifetimeEnds(w) \/ Cancel(w) \/ Wake(w)
      PROVE  pc' = pc
  <2>1. CASE LoopStep(w)
    BY <2>1 DEF LoopStep, ContextDone, Resume, Poll, SitOutPause, ReadAnswers, ReadSucceeded,
                ReadInaccessible, ReadRateLimited, ReadFailed, UpdateDigest, Notify, ApplyLease,
                ResetTimer, Retire, Announce, callVars
  <2>2. CASE LifetimeEnds(w) \/ Cancel(w) \/ Wake(w)
    BY <2>2 DEF LifetimeEnds, Cancel, Wake, callVars
  <2>3. QED
    BY <1>5, <2>1, <2>2
<1>6. CASE Tick \/ \E u \in URIs : Change(u)
  BY <1>6 DEF Tick, Change, callVars
<1>7. QED
  BY <1>1, <1>2, <1>3, <1>4, <1>5, <1>6 DEF Next

LEMMA LoopInvStep ==
    ASSUME LoopInv, SlotTypes, [Next]_vars
    PROVE  LoopInv'
<1>0. \A c \in Calls : pc[c] = "ok" => pc'[c] = "ok"
  BY SuccessStays
<1>1. CASE UNCHANGED vars
  BY <1>0, <1>1, LoopFrame DEF vars, loopVars
<1>2. ASSUME NEW s \in Sessions, ClientStep(s)
      PROVE  LoopInv'
  <2>1. loop' = loop
    BY <1>2 DEF ClientStep, Subscribe, RefuseURI, RefuseClosed, Join, RefuseAtCapacity, Reserve,
                Unsubscribe, UnsubscribeAll, RenewAll, RenewLocked, loopVars
  <2>2. QED
    BY <1>0, <2>1, LoopFrame
<1>3. ASSUME NEW m \in Managers, ManagerStep(m)
      PROVE  LoopInv'
  <2>1. loop' = loop
    BY <1>3 DEF ManagerStep, Close, CloseReturns, Renew, RenewLocked, loopVars
  <2>2. QED
    BY <1>0, <2>1, LoopFrame
<1>4. ASSUME NEW c \in Calls, CallStep(c) \/ GiveUp(c)
      PROVE  LoopInv'
  <2>1. CASE Launch(c)
    <3>1. pc'[c] = "ok" /\ loop' = [loop EXCEPT ![c] = "sleep"]
      BY <2>1 DEF Launch, Answers, SlotTypes
    <3>2. QED
      BY <3>1, <1>0, LoopMovesOn DEF LoopPc
  <2>2. CASE ~Launch(c)
    <3>1. loop' = loop
      BY <1>4, <2>2 DEF CallStep, GiveUp, RefuseTooMany, Insert, InsertEvicting, Place, FirstRead,
                        AbandonFailed, AbandonClosed, AbandonWithdrawn, Abandon, AwaitReady, loopVars
    <3>2. QED
      BY <3>1, <1>0, LoopFrame
  <2>3. QED
    BY <2>1, <2>2
<1>5. ASSUME NEW w \in Calls, LoopStep(w)
      PROVE  LoopInv'
  <2>1. loop[w] # "none"
    BY <1>5 DEF LoopStep, Looping
  <2>2. CASE Resume(w) \/ SitOutPause(w)
    BY <2>2, <1>0, LoopFrame DEF Resume, SitOutPause, loopVars
  <2>3. CASE ~(Resume(w) \/ SitOutPause(w))
    <3>1. \E to \in LoopPc : loop' = [loop EXCEPT ![w] = to]
      BY <1>5, <2>3 DEF LoopStep, ContextDone, Poll, ReadAnswers, ReadSucceeded, ReadInaccessible,
                ReadRateLimited, ReadFailed, UpdateDigest, Notify, ApplyLease, ResetTimer, Retire,
                Announce, Step, LoopPc
    <3>2. QED
      BY <3>1, <2>1, <1>0, LoopMovesOn
  <2>4. QED
    BY <2>2, <2>3
<1>6. ASSUME NEW w \in Calls, LifetimeEnds(w) \/ Cancel(w) \/ Wake(w)
      PROVE  LoopInv'
  BY <1>0, <1>6, LoopFrame DEF LifetimeEnds, Cancel, Wake, loopVars
<1>7. CASE Tick \/ \E u \in URIs : Change(u)
  BY <1>0, <1>7, LoopFrame DEF Tick, Change, loopVars
<1>8. QED
  BY <1>1, <1>2, <1>3, <1>4, <1>5, <1>6, <1>7 DEF Next

-----------------------------------------------------------------------------
(* The registry of a manager holds calls. *)
LEMMA RegisteredAreCalls ==
    ASSUME SlotTypes, NEW m \in Managers
    PROVE  WatchersOf(m) \subseteq Calls
BY DEF SlotTypes, WatchersOf, WatchedURIs

LEMMA LeavesKeepsGateInv ==
    ASSUME GateInv, NEW s \in Sessions, NEW u \in URIs, Unlocked(ManagerOf[s]), Leaves(s, u),
           UNCHANGED <<mu, arg>>, pc' \in [Calls -> CallPc],
           \A c \in Calls : \/ pc'[c] = pc[c]
                            \/ /\ pc[c] \notin {"idle", "reserved"}
                               /\ pc'[c] \notin {"idle", "reserved", "awaiting"}
    PROVE  GateInv'
<1> DEFINE m == ManagerOf[s]
           w == registry[m][u]
<1>1. m \in Managers
  OBVIOUS
<1>2. w \in Calls \cup {None}
  BY <1>1 DEF GateInv, SlotTypes
<1>3. Drop(m, {}) \/ (w # None /\ Drop(m, {w}))
  <2>1. CASE UNCHANGED <<registry, held>>
    <3>1. registry' = [registry EXCEPT ![m] = [x \in URIs |-> IF @[x] \in {} THEN None ELSE @[x]]]
      BY <2>1, <1>1 DEF GateInv, SlotTypes
    <3>2. {x \in URIs : registry[m][x] \in {}} = {}
      OBVIOUS
    <3>3. held' = held - Slots(0)
      BY <2>1 DEF Slots, GateInv, SlotTypes
    <3>4. QED
      BY <3>1, <3>2, <3>3, FS_EmptySet DEF Drop
  <2>2. CASE w # None /\ Drop(m, {w})
    BY <2>2
  <2>3. QED
    BY <2>1, <2>2 DEF Leaves
<1>4. CASE Drop(m, {})
  BY <1>1, <1>4, DropKeepsGateInv
<1>5. CASE w # None /\ Drop(m, {w})
  BY <1>1, <1>2, <1>5, DropKeepsGateInv
<1>6. QED
  BY <1>3, <1>4, <1>5

LEMMA ClientKeepsGateInv ==
    ASSUME GateInv, NEW s \in Sessions, ClientStep(s)
    PROVE  GateInv'
<1>0. ManagerOf[s] \in Managers /\ pc \in [Calls -> CallPc]
  BY DEF GateInv, SlotTypes
<1>1. ASSUME NEW u \in URIs, NEW c \in Calls, Subscribe(c, s, u)
      PROVE  GateInv'
  <2>1. CASE Reserve(c, s, u)
    BY <2>1, ReserveKeepsGateInv
  <2>2. CASE Join(c, s, u)
    <3>1. registry[ManagerOf[s]][u] \in Calls
      BY <1>0, <2>2 DEF Join, GateInv, SlotTypes
    <3> DEFINE a == Arguments(s, u, registry[ManagerOf[s]][u], s \in watcher[registry[ManagerOf[s]][u]].subs)
    <3>2. a \in Args /\ a.sub \in Sessions /\ a.uri \in URIs /\ a.watcher \in Calls
      BY <3>1 DEF Arguments, Args
    <3>3. /\ pc[c] = "idle" /\ Answers(c, "awaiting") /\ arg' = [arg EXCEPT ![c] = a]
          /\ UNCHANGED <<held, mu, registry>>
      BY <2>2 DEF Join, Enters, managerVars
    <3>4. "awaiting" \in CallPc \ {"idle", "reserved"}
      BY DEF CallPc
    <3> HIDE DEF a
    <3>5. QED
      BY <3>2, <3>3, <3>4, CallMovesOn
  <2>3. CASE RefuseURI(c, s, u) \/ RefuseClosed(c, s, u) \/ RefuseAtCapacity(c, s, u)
    <3> DEFINE a == Arguments(s, u, None, FALSE)
    <3>1. a \in Args /\ a.sub \in Sessions /\ a.uri \in URIs
      BY DEF Arguments, Args
    <3>2. PICK p \in {"notSubscribable", "closed", "atCapacity"} :
            /\ pc[c] = "idle" /\ Answers(c, p) /\ arg' = [arg EXCEPT ![c] = a]
            /\ UNCHANGED <<held, mu, registry>>
      BY <2>3 DEF RefuseURI, RefuseClosed, RefuseAtCapacity, Enters, managerVars
    <3>3. p \in CallPc \ {"idle", "reserved"} /\ p # "awaiting"
      BY DEF CallPc, Answered
    <3> HIDE DEF a
    <3>4. QED
      BY <3>1, <3>2, <3>3, CallMovesOn
  <2>4. QED
    BY <1>1, <2>1, <2>2, <2>3 DEF Subscribe
<1>2. ASSUME NEW u \in URIs, Unsubscribe(s, u)
      PROVE  GateInv'
  BY <1>0, <1>2, LeavesKeepsGateInv DEF Unsubscribe, callVars
<1>3. CASE UnsubscribeAll(s)
  <2>1. PICK W \in SUBSET WatchersOf(ManagerOf[s]) : Drop(ManagerOf[s], W)
    BY <1>3 DEF UnsubscribeAll
  <2>2. W \subseteq Calls
    BY <1>0, RegisteredAreCalls DEF GateInv
  <2>3. QED
    BY <1>0, <1>3, <2>1, <2>2, DropKeepsGateInv DEF UnsubscribeAll, callVars
<1>4. CASE RenewAll(s)
  BY <1>4, FrameKeepsGateInv DEF RenewAll, RenewLocked, slotVars, managerVars, callVars
<1>5. QED
  BY <1>1, <1>2, <1>3, <1>4 DEF ClientStep

LEMMA ManagerKeepsGateInv ==
    ASSUME GateInv, NEW m \in Managers, ManagerStep(m)
    PROVE  GateInv'
<1>1. CASE Close(m)
  <2>1. WatchersOf(m) \subseteq Calls /\ pc \in [Calls -> CallPc]
    BY RegisteredAreCalls DEF GateInv, SlotTypes
  <2>2. QED
    BY <1>1, <2>1, DropKeepsGateInv DEF Close, callVars
<1>2. CASE ~Close(m)
  BY <1>2, FrameKeepsGateInv
     DEF ManagerStep, CloseReturns, Renew, RenewLocked, slotVars, managerVars, callVars
<1>3. QED
  BY <1>1, <1>2

LEMMA CallKeepsGateInv ==
    ASSUME GateInv, NEW c \in Calls, CallStep(c) \/ GiveUp(c)
    PROVE  GateInv'
<1>0. pc \in [Calls -> CallPc]
  BY DEF GateInv, SlotTypes
<1>1. pc[c] # "idle" => arg[c].sub \in Sessions /\ Mgr(c) \in Managers /\ Uri(c) \in URIs
  BY DEF GateInv, ArgumentsKnown, Mgr, Uri
<1>2. CASE RefuseTooMany(c) \/ Insert(c) \/ InsertEvicting(c)
  BY <1>2, RefuseTooManyKeepsGateInv, InsertKeepsGateInv, InsertEvictingKeepsGateInv
<1>3. CASE FirstRead(c) \/ Launch(c) \/ AwaitReady(c)
  <2>1. PICK p \in {"read", "ok", "failed", "closed"} :
          pc[c] \notin {"idle", "reserved"} /\ Answers(c, p) /\ arg' = arg
    BY <1>3 DEF FirstRead, Launch, AwaitReady, StartReply
  <2>2. p \in CallPc \ {"idle", "reserved"} /\ p # "awaiting"
    BY DEF CallPc, Answered
  <2>3. UNCHANGED <<held, mu, registry>>
    BY <1>3 DEF FirstRead, Launch, AwaitReady, managerVars
  <2>4. QED
    BY <2>1, <2>2, <2>3, CallMovesOn
<1>4. CASE AbandonFailed(c) \/ AbandonClosed(c) \/ AbandonWithdrawn(c)
  <2>1. /\ pc[c] = "read" /\ Unlocked(Mgr(c)) /\ Drop(Mgr(c), {c}) /\ UNCHANGED <<mu, arg>>
        /\ \E p \in {"failed", "closed", "ok"} : pc' = [pc EXCEPT ![c] = p]
    BY <1>4 DEF AbandonFailed, AbandonClosed, AbandonWithdrawn, Abandon, Answers, DropIfRegistered
  <2>2. /\ pc' \in [Calls -> CallPc]
        /\ \A d \in Calls : \/ pc'[d] = pc[d]
                            \/ /\ pc[d] \notin {"idle", "reserved"}
                               /\ pc'[d] \notin {"idle", "reserved", "awaiting"}
    BY <1>0, <2>1 DEF CallPc, Answered
  <2>3. QED
    BY <1>1, <2>1, <2>2, DropKeepsGateInv
<1>5. CASE GiveUp(c)
  <2>1. pc[c] = "awaiting" /\ Unlocked(Mgr(c)) /\ pc' = [pc EXCEPT ![c] = "gaveUp"] /\ UNCHANGED <<mu, arg>>
    BY <1>5 DEF GiveUp, Answers
  <2>2. /\ pc' \in [Calls -> CallPc]
        /\ \A d \in Calls : \/ pc'[d] = pc[d]
                            \/ /\ pc[d] \notin {"idle", "reserved"}
                               /\ pc'[d] \notin {"idle", "reserved", "awaiting"}
    BY <1>0, <2>1 DEF CallPc, Answered
  <2>3. CASE Leaves(arg[c].sub, Uri(c))
    BY <1>1, <2>1, <2>2, <2>3, LeavesKeepsGateInv DEF Mgr
  <2>4. CASE UNCHANGED <<registry, held>>
    BY <2>1, <2>4, CallMovesOn DEF Answers, CallPc, Answered
  <2>5. QED
    BY <1>5, <2>3, <2>4 DEF GiveUp
<1>6. QED
  BY <1>2, <1>3, <1>4, <1>5 DEF CallStep

LEMMA LoopKeepsGateInv ==
    ASSUME GateInv, LoopInv, NEW w \in Calls, LoopStep(w)
    PROVE  GateInv'
<1>1. CASE Retire(w)
  <2>1. pc[w] = "ok" /\ Mgr(w) \in Managers /\ pc \in [Calls -> CallPc]
    BY DEF LoopStep, Looping, LoopInv, GateInv, ArgumentsKnown, SlotTypes, Mgr
  <2>2. QED
    BY <1>1, <2>1, DropKeepsGateInv DEF Retire, Locks, DropIfRegistered, callVars
<1>2. CASE ~Retire(w)
  <2>1. UNCHANGED slotVars
    BY <1>2 DEF LoopStep, ContextDone, Resume, Poll, SitOutPause, ReadAnswers, ReadSucceeded,
                ReadInaccessible, ReadRateLimited, ReadFailed, UpdateDigest, Notify, ApplyLease,
                ResetTimer, Announce, slotVars, managerVars, callVars
  <2>2. QED
    BY <2>1, FrameKeepsGateInv
<1>3. QED
  BY <1>1, <1>2

LEMMA GateInvStep ==
    ASSUME GateInv, LoopInv, [Next]_vars
    PROVE  GateInv'
<1>1. CASE UNCHANGED vars
  BY <1>1, FrameKeepsGateInv DEF vars, slotVars, managerVars, callVars
<1>2. ASSUME NEW c \in Calls, LifetimeEnds(c) \/ Cancel(c) \/ Wake(c)
      PROVE  GateInv'
  BY <1>2, FrameKeepsGateInv DEF LifetimeEnds, Cancel, Wake, slotVars, managerVars, callVars
<1>3. CASE Tick \/ \E u \in URIs : Change(u)
  BY <1>3, FrameKeepsGateInv DEF Tick, Change, slotVars, managerVars, callVars
<1>4. QED
  BY <1>1, <1>2, <1>3, ClientKeepsGateInv, ManagerKeepsGateInv, CallKeepsGateInv, LoopKeepsGateInv
     DEF Next

LEMMA GateInvInit ==
    ASSUME Init
    PROVE  GateInv /\ LoopInv
<1>1. SlotTypes
  BY DEF Init, SlotTypes, CallPc, Args
<1>2. WatchedSlots = {} /\ Reserving = {} /\ \A m \in Managers : WatchedURIs(m) = {}
  BY DEF Init, WatchedSlots, Reserving, WatchedURIs
<1>3. GateCountsWatchers
  BY <1>2, FS_EmptySet DEF Init, GateCountsWatchers, Slots
<1>4. WithinGate /\ WithinCap
  <2>1. WithinGate
    BY DEF Init, WithinGate
  <2>2. \A m \in Managers : Cardinality(WatchedURIs(m)) = 0
    BY <1>2, FS_EmptySet, Zenon
  <2>3. QED
    BY <2>1, <2>2 DEF WithinCap
<1>5. ArgumentsKnown /\ SlotsAreOwned
  <2>1. \A m \in Managers, u \in URIs : registry[m][u] = None
    BY DEF Init
  <2>2. \A c \in Calls : pc[c] = "idle"
    BY DEF Init
  <2>3. QED
    BY <1>2, <2>1, <2>2 DEF ArgumentsKnown, SlotsAreOwned
<1>6. LoopInv
  BY DEF Init, LoopInv, LoopPc
<1>7. QED
  BY <1>1, <1>3, <1>4, <1>5, <1>6 DEF GateInv

LEMMA GateInvariance == Spec => [](GateInv /\ LoopInv)
<1>1. Init => GateInv /\ LoopInv
  BY GateInvInit
<1>2. GateInv /\ LoopInv /\ [Next]_vars => (GateInv /\ LoopInv)'
  BY GateInvStep, LoopInvStep DEF GateInv
<1>3. QED
  BY <1>1, <1>2, PTL DEF Spec

(* Whatever the number of credentials, sessions, URIs and calls, the count
   of the shared gate is exactly the watched URIs of every registry plus the
   slots calls have taken and not spent: no path that removes a watcher
   leaks a slot or gives one back twice.                                    *)
THEOREM GateIsExact == Spec => []GateCountsWatchers
BY GateInvariance, PTL DEF GateInv

(* A call between taking the shared slot and spending it holds its manager's
   lock and finds its URI free, and a registry never holds a watcher of
   another URI or another manager.                                          *)
THEOREM SlotsStayOwned == Spec => []SlotsAreOwned
BY GateInvariance, PTL DEF GateInv

(* Neither the ceiling of the process nor that of a credential is exceeded,
   although a Subscribe in one manager interleaves with those of the others
   between its check of the shared ceiling and the insertion.               *)
THEOREM CeilingsAreKept == Spec => []CeilingsHold
<1>1. GateInv => CeilingsHold
  <2> SUFFICES ASSUME GateInv PROVE CeilingsHold
    OBVIOUS
  <2>1. GateLimit # 0 => Cardinality(WatchedSlots) <= held
    BY SlotSetsFinite DEF GateInv, GateCountsWatchers, Slots
  <2>2. GateLimit # 0 => Cardinality(WatchedSlots) <= GateLimit
    BY <2>1, SlotSetsFinite DEF GateInv, WithinGate, SlotTypes
  <2>3. QED
    BY <2>2 DEF GateInv, CeilingsHold, WithinCap
<1>2. QED
  BY <1>1, GateInvariance, PTL

-----------------------------------------------------------------------------
(* The types of what GateInv and LoopInv say nothing of. *)
DataTypes ==
    /\ now \in 0 .. MaxTime
    /\ content \in [URIs -> Version]
    /\ closed \in [Managers -> {"open", "closing", "closed"}]
    /\ running \in [Managers -> SUBSET Calls]
    /\ rateLimits \in [Managers -> Nat]
    /\ pausedUntil \in [Managers -> Nat]
    /\ watcher \in [Calls -> Watcher]
    /\ answer \in [Calls -> Answer]
    /\ toCancel \subseteq Calls
    /\ toWake \subseteq Calls

LEMMA FreshWatcher ==
    ASSUME NEW subs \in SUBSET Sessions
    PROVE  NewWatcher(subs) \in Watcher
BY DEF NewWatcher, Watcher, Version

(* The fields the actions set, one at a time or together. *)
LEMMA WatcherFields ==
    ASSUME NEW w \in Watcher
    PROVE  /\ \A x \in SUBSET Sessions : [w EXCEPT !.subs = x] \in Watcher
           /\ \A x \in {"wait", "started", "failed", "closed", "withdrawn"} : [w EXCEPT !.ready = x] \in Watcher
           /\ \A x \in {"live", "canceled", "deadline"} : [w EXCEPT !.ctx = x] \in Watcher
           /\ \A x \in {"live", "canceled", "deadline"} : [w EXCEPT !.evicted = TRUE, !.ctx = x] \in Watcher
           /\ \A x \in Nat : [w EXCEPT !.leaseAt = x, !.demoted = FALSE] \in Watcher
           /\ \A x, y \in Nat, d \in Version :
                [w EXCEPT !.digest = d, !.ready = "started", !.leaseAt = x, !.endsAt = y] \in Watcher
           /\ \A d \in Version : [w EXCEPT !.digest = d] \in Watcher
           /\ \A x \in {"cadence", "slow"}, d \in BOOLEAN : [w EXCEPT !.demoted = d, !.timer = x] \in Watcher
           /\ \A x \in {"cadence", "slow"} : [w EXCEPT !.timer = x] \in Watcher
           /\ \A x \in {"cadence", "slow"}, d \in BOOLEAN : [w EXCEPT !.renew = d, !.timer = x] \in Watcher
           /\ \A d \in BOOLEAN : [w EXCEPT !.renew = d] \in Watcher
BY DEF Watcher

LEMMA WatcherValues ==
    ASSUME NEW w \in Watcher
    PROVE  /\ w.subs \subseteq Sessions
           /\ w.ctx \in {"live", "canceled", "deadline"}
           /\ (IF w.ctx = "live" THEN "canceled" ELSE w.ctx) \in {"live", "canceled", "deadline"}
           /\ w.demoted \in BOOLEAN
BY DEF Watcher

(* A session is added to or taken out of a watcher's set. *)
LEMMA SubsTyped ==
    ASSUME watcher \in [Calls -> Watcher], NEW w \in Calls, NEW x \in SUBSET Sessions,
           watcher' = [watcher EXCEPT ![w].subs = x]
    PROVE  watcher' \in [Calls -> Watcher]
BY WatcherFields

(* What cancel() does to a context, whoever calls it. *)
LEMMA CanceledTyped ==
    ASSUME watcher \in [Calls -> Watcher], NEW w \in Calls,
           watcher' = [watcher EXCEPT ![w].ctx = IF @ = "live" THEN "canceled" ELSE @]
    PROVE  watcher' \in [Calls -> Watcher]
<1> DEFINE x == IF watcher[w].ctx = "live" THEN "canceled" ELSE watcher[w].ctx
<1>1. x \in {"live", "canceled", "deadline"}
  BY WatcherValues
<1>2. watcher' = [watcher EXCEPT ![w].ctx = x]
  OBVIOUS
<1> HIDE DEF x
<1>3. [watcher[w] EXCEPT !.ctx = x] \in Watcher
  BY <1>1, WatcherFields
<1>4. QED
  BY <1>2, <1>3

LEMMA RenewedTyped ==
    ASSUME DataTypes, NEW W \in SUBSET Calls, RenewLocked(W)
    PROVE  watcher' \in [Calls -> Watcher]
<1>1. now + Lease \in Nat
  BY DEF DataTypes
<1>2. \A w \in Calls : [watcher[w] EXCEPT !.leaseAt = now + Lease, !.demoted = FALSE] \in Watcher
  BY <1>1, WatcherFields DEF DataTypes
<1>3. QED
  BY <1>2 DEF RenewLocked, DataTypes

(* Session s leaves the watcher of u, if it was subscribed to it. *)
LEMMA LeavesTyped ==
    ASSUME DataTypes, GateInv, NEW s \in Sessions, NEW u \in URIs, Leaves(s, u)
    PROVE  watcher' \in [Calls -> Watcher] /\ toCancel' \subseteq Calls
<1> DEFINE w == registry[ManagerOf[s]][u]
<1>1. w \in Calls \cup {None}
  BY DEF GateInv, SlotTypes
<1>2. CASE UNCHANGED <<watcher, toCancel>>
  BY <1>2 DEF DataTypes
<1>3. CASE /\ w # None /\ watcher' = [watcher EXCEPT ![w].subs = @ \ {s}]
           /\ toCancel' = toCancel \/ toCancel' = toCancel \cup Cancelable({w})
  <2>1. w \in Calls /\ watcher[w].subs \ {s} \in SUBSET Sessions
    BY <1>1, <1>3, WatcherValues DEF DataTypes
  <2>2. watcher' = [watcher EXCEPT ![w].subs = watcher[w].subs \ {s}]
    BY <1>3
  <2>3. QED
    BY <1>3, <2>1, <2>2, SubsTyped DEF DataTypes, Cancelable
<1>4. QED
  BY <1>2, <1>3 DEF Leaves

(* What a read is answered with has the version of a known URI. *)
LEMMA ReadNowTyped ==
    ASSUME DataTypes, NEW w \in Calls, Uri(w) \in URIs, NEW kind \in {"ok", "canceled"} \cup ReadFailures
    PROVE  ReadNow(w, kind) \in Answer
BY DEF DataTypes, ReadNow, Answer, Version

LEMMA ClientKeepsTypes ==
    ASSUME DataTypes, GateInv, NEW s \in Sessions, ClientStep(s)
    PROVE  DataTypes'
<1> USE DEF DataTypes
<1>0. ManagerOf[s] \in Managers /\ WatchersOf(ManagerOf[s]) \subseteq Calls
  BY RegisteredAreCalls DEF GateInv
<1>1. ASSUME NEW u \in URIs, NEW c \in Calls, Subscribe(c, s, u)
      PROVE  DataTypes'
  <2>1. CASE Join(c, s, u)
    <3> DEFINE w == registry[ManagerOf[s]][u]
    <3>1. w \in Calls
      BY <1>0, <2>1 DEF Join, GateInv, SlotTypes
    <3>2. watcher[w].subs \cup {s} \in SUBSET Sessions
      BY <3>1, WatcherValues
    <3>3. watcher' = [watcher EXCEPT ![w].subs = watcher[w].subs \cup {s}]
      BY <2>1 DEF Join
    <3>4. watcher' \in [Calls -> Watcher]
      BY <3>1, <3>2, <3>3, SubsTyped
    <3>5. QED
      BY <2>1, <3>4 DEF Join, environment, managerVars, pauseVars, loopVars, owed
  <2>2. CASE ~Join(c, s, u)
    BY <1>1, <2>2 DEF Subscribe, RefuseURI, RefuseClosed, RefuseAtCapacity, Reserve,
                      environment, managerVars, pauseVars, loopVars, owed
  <2>3. QED
    BY <2>1, <2>2
<1>2. ASSUME NEW u \in URIs, Unsubscribe(s, u)
      PROVE  DataTypes'
  <2>1. watcher' \in [Calls -> Watcher] /\ toCancel' \subseteq Calls
    BY <1>2, LeavesTyped DEF Unsubscribe
  <2>2. QED
    BY <1>2, <2>1 DEF Unsubscribe, environment, pauseVars, loopVars
<1>3. CASE UnsubscribeAll(s)
  <2>1. watcher' \in [Calls -> Watcher]
    <3>1. \A w \in Calls : watcher[w].subs \ {s} \in SUBSET Sessions
      BY WatcherValues
    <3>2. \A w \in Calls : [watcher[w] EXCEPT !.subs = @ \ {s}] \in Watcher
      BY <3>1, WatcherFields
    <3>3. QED
      BY <1>3, <3>2 DEF UnsubscribeAll
  <2>2. toCancel' \subseteq Calls
    BY <1>0, <1>3 DEF UnsubscribeAll, Cancelable
  <2>3. QED
    BY <1>3, <2>1, <2>2 DEF UnsubscribeAll, environment, pauseVars, loopVars
<1>4. CASE RenewAll(s)
  <2>1. PICK W \in SUBSET Calls : RenewLocked(W)
    BY <1>0, <1>4 DEF RenewAll
  <2>2. watcher' \in [Calls -> Watcher]
    BY <2>1, RenewedTyped
  <2>3. QED
    BY <2>1, <2>2 DEF RenewLocked, environment, managerVars, pauseVars, loopVars
<1>5. QED
  BY <1>1, <1>2, <1>3, <1>4 DEF ClientStep

LEMMA ManagerKeepsTypes ==
    ASSUME DataTypes, GateInv, NEW m \in Managers, ManagerStep(m)
    PROVE  DataTypes'
<1> USE DEF DataTypes
<1>0. WatchersOf(m) \subseteq Calls
  BY RegisteredAreCalls DEF GateInv
<1>1. CASE Close(m)
  BY <1>0, <1>1 DEF Close, Cancelable, environment, pauseVars, loopVars
<1>2. CASE CloseReturns(m)
  BY <1>2 DEF CloseReturns, environment, pauseVars, loopVars, owed
<1>3. ASSUME NEW u \in URIs, Renew(m, u)
      PROVE  DataTypes'
  <2>1. registry[m][u] \in Calls
    BY <1>3 DEF Renew, GateInv, SlotTypes
  <2>2. PICK W \in SUBSET Calls : RenewLocked(W)
    BY <1>3, <2>1 DEF Renew
  <2>3. watcher' \in [Calls -> Watcher]
    BY <2>2, RenewedTyped
  <2>4. QED
    BY <2>2, <2>3 DEF RenewLocked, environment, managerVars, pauseVars, loopVars
<1>4. QED
  BY <1>1, <1>2, <1>3 DEF ManagerStep

LEMMA CallKeepsTypes ==
    ASSUME DataTypes, GateInv, NEW c \in Calls, CallStep(c) \/ GiveUp(c)
    PROVE  DataTypes'
<1> USE DEF DataTypes
<1>1. pc[c] # "idle" => arg[c].sub \in Sessions /\ Mgr(c) \in Managers /\ Uri(c) \in URIs
  BY DEF GateInv, ArgumentsKnown, Mgr, Uri
<1>2. CASE RefuseTooMany(c) \/ AwaitReady(c)
  BY <1>2 DEF RefuseTooMany, AwaitReady, environment, managerVars, pauseVars, loopVars, owed
<1>3. CASE Insert(c) \/ InsertEvicting(c)
  <2>1. NewWatcher({arg[c].sub}) \in Watcher
    BY <1>1, <1>3, FreshWatcher DEF Insert, InsertEvicting
  <2>2. watcher' \in [Calls -> Watcher]
    <3>1. CASE Insert(c)
      BY <2>1, <3>1 DEF Insert
    <3>2. CASE InsertEvicting(c)
      <4>1. PICK v \in LongestDemoted(Mgr(c)) :
              watcher' = [watcher EXCEPT
                    ![c] = NewWatcher({arg[c].sub}),
                    ![v] = [watcher[v] EXCEPT !.evicted = TRUE,
                                              !.ctx = IF @ = "live" THEN "canceled" ELSE @]]
        BY <3>2 DEF InsertEvicting
      <4>2. v \in Calls
        BY <1>1, <3>2, RegisteredAreCalls DEF GateInv, LongestDemoted, InsertEvicting
      <4> DEFINE x == IF watcher[v].ctx = "live" THEN "canceled" ELSE watcher[v].ctx
      <4>3. x \in {"live", "canceled", "deadline"}
        BY <4>2, WatcherValues
      <4>4. watcher' = [watcher EXCEPT ![c] = NewWatcher({arg[c].sub}),
                                       ![v] = [watcher[v] EXCEPT !.evicted = TRUE, !.ctx = x]]
        BY <4>1
      <4> HIDE DEF x
      <4>5. [watcher[v] EXCEPT !.evicted = TRUE, !.ctx = x] \in Watcher
        BY <4>2, <4>3, WatcherFields
      <4>6. QED
        BY <2>1, <4>2, <4>4, <4>5
    <3>3. QED
      BY <1>3, <3>1, <3>2
  <2>3. QED
    BY <1>3, <2>2 DEF Insert, InsertEvicting, Place, environment, pauseVars, loopVars, owed
<1>4. CASE FirstRead(c)
  <2>1. answer' \in [Calls -> Answer]
    BY <1>1, <1>4, ReadNowTyped DEF FirstRead
  <2>2. QED
    BY <1>4, <2>1 DEF FirstRead, environment, managerVars, pauseVars, owed
<1>5. CASE AbandonFailed(c) \/ AbandonClosed(c) \/ AbandonWithdrawn(c)
  <2>1. PICK reason \in {"failed", "closed", "withdrawn"}, reply \in {"failed", "closed", "ok"} : Abandon(c, reason, reply)
    BY <1>5 DEF AbandonFailed, AbandonClosed, AbandonWithdrawn
  <2>2. watcher' \in [Calls -> Watcher]
    BY <2>1, WatcherFields DEF Abandon
  <2>3. QED
    BY <2>1, <2>2 DEF Abandon, environment, pauseVars, loopVars, owed
<1>6. CASE Launch(c)
  <2>1. now + Lease \in Nat /\ now + MaxLifetime \in Nat /\ answer[c].version \in Version
    BY DEF Answer
  <2>2. watcher' \in [Calls -> Watcher]
    BY <1>6, <2>1, WatcherFields DEF Launch
  <2>3. running' \in [Managers -> SUBSET Calls]
    BY <1>6 DEF Launch
  <2>4. QED
    BY <1>6, <2>2, <2>3 DEF Launch, environment, pauseVars, owed
<1>7. CASE GiveUp(c)
  <2>1. arg[c].sub \in Sessions /\ Uri(c) \in URIs
    BY <1>1, <1>7 DEF GiveUp
  <2>2. watcher' \in [Calls -> Watcher] /\ toCancel' \subseteq Calls
    BY <1>7, <2>1, LeavesTyped DEF GiveUp
  <2>3. QED
    BY <1>7, <2>2 DEF GiveUp, environment, pauseVars, loopVars
<1>8. QED
  BY <1>2, <1>3, <1>4, <1>5, <1>6, <1>7 DEF CallStep

LEMMA LoopKeepsTypes ==
    ASSUME DataTypes, GateInv, LoopInv, NEW w \in Calls, LoopStep(w)
    PROVE  DataTypes'
<1> USE DEF DataTypes
<1>0. Mgr(w) \in Managers /\ Uri(w) \in URIs
  <2>1. pc[w] = "ok"
    BY DEF LoopStep, Looping, LoopInv
  <2>2. QED
    BY <2>1 DEF GateInv, ArgumentsKnown, Mgr, Uri
<1>1. CASE ContextDone(w)
  BY <1>1 DEF ContextDone, Answer, Version, environment, managerVars, pauseVars, owed
<1>2. ASSUME NEW kind \in {"ok", "canceled"} \cup ReadFailures, ReadAnswers(w, kind)
      PROVE  DataTypes'
  <2>1. answer' \in [Calls -> Answer]
    BY <1>0, <1>2, ReadNowTyped DEF ReadAnswers
  <2>2. QED
    BY <1>2, <2>1 DEF ReadAnswers, environment, managerVars, pauseVars, owed
<1>3. CASE Resume(w) \/ SitOutPause(w) \/ UpdateDigest(w) \/ ApplyLease(w)
  <2>1. answer[w].version \in Version
    BY DEF Answer
  <2>2. watcher' \in [Calls -> Watcher]
    <3>1. CASE Resume(w) \/ SitOutPause(w)
      <4>1. /\ [watcher[w] EXCEPT !.renew = FALSE, !.timer = "cadence"] \in Watcher
            /\ [watcher[w] EXCEPT !.timer = "cadence"] \in Watcher
        BY WatcherFields
      <4>2. \/ watcher' = [watcher EXCEPT ![w] = [watcher[w] EXCEPT !.renew = FALSE, !.timer = "cadence"]]
            \/ watcher' = [watcher EXCEPT ![w] = [watcher[w] EXCEPT !.timer = "cadence"]]
        BY <3>1 DEF Resume, SitOutPause
      <4>3. QED
        BY <4>1, <4>2
    <3>2. CASE UpdateDigest(w)
      <4>1. [watcher[w] EXCEPT !.digest = answer[w].version] \in Watcher
        BY <2>1, WatcherFields
      <4>2. \/ watcher' = watcher
            \/ watcher' = [watcher EXCEPT ![w] = [watcher[w] EXCEPT !.digest = answer[w].version]]
        BY <3>2 DEF UpdateDigest
      <4>3. QED
        BY <4>1, <4>2
    <3>3. CASE ApplyLease(w)
      <4> DEFINE slow == watcher[w].demoted \/ now >= watcher[w].leaseAt
                 x == IF slow THEN "slow" ELSE "cadence"
      <4>1. slow \in BOOLEAN /\ x \in {"cadence", "slow"}
        BY WatcherValues
      <4>2. watcher' = [watcher EXCEPT ![w] = [watcher[w] EXCEPT !.demoted = slow, !.timer = x]]
        BY <3>3 DEF ApplyLease
      <4> HIDE DEF slow, x
      <4>3. [watcher[w] EXCEPT !.demoted = slow, !.timer = x] \in Watcher
        BY <4>1, WatcherFields
      <4>4. QED
        BY <4>2, <4>3
    <3>4. QED
      BY <1>3, <3>1, <3>2, <3>3
  <2>3. QED
    BY <1>3, <2>2 DEF Resume, SitOutPause, UpdateDigest, ApplyLease,
                      environment, managerVars, pauseVars, loopVars, owed
<1>4. CASE Poll(w) \/ ReadInaccessible(w) \/ ReadFailed(w) \/ Notify(w) \/ ResetTimer(w)
  BY <1>4 DEF Poll, ReadInaccessible, ReadFailed, Notify, ResetTimer,
              environment, managerVars, pauseVars, owed
<1>5. CASE ReadSucceeded(w)
  BY <1>5 DEF ReadSucceeded, environment, managerVars, pauseVars, owed
<1>6. CASE ReadRateLimited(w)
  <2>1. rateLimits[Mgr(w)] + 1 \in Nat
    BY <1>0
  <2>2. PICK wait \in 1 .. MaxRateLimitPause : pausedUntil' = [pausedUntil EXCEPT ![Mgr(w)] = now + wait]
    BY <1>6 DEF ReadRateLimited, Jittered
  <2>3. now + wait \in Nat
    OBVIOUS
  <2>4. rateLimits' \in [Managers -> Nat] /\ pausedUntil' \in [Managers -> Nat]
    BY <1>6, <2>1, <2>2, <2>3 DEF ReadRateLimited
  <2>5. QED
    BY <1>6, <2>4 DEF ReadRateLimited, environment, managerVars, owed
<1>7. CASE Retire(w) \/ Announce(w)
  <2>1. GoroutineEnds(w) => /\ watcher' \in [Calls -> Watcher]
                            /\ running' \in [Managers -> SUBSET Calls]
    <3>1. GoroutineEnds(w) => watcher' \in [Calls -> Watcher]
      BY CanceledTyped DEF GoroutineEnds
    <3>2. GoroutineEnds(w) => running' \in [Managers -> SUBSET Calls]
      BY <1>0 DEF GoroutineEnds
    <3>3. QED
      BY <3>1, <3>2
  <2>2. QED
    BY <1>7, <2>1 DEF Retire, Announce, environment, pauseVars, owed
<1>8. QED
  BY <1>1, <1>2, <1>3, <1>4, <1>5, <1>6, <1>7 DEF LoopStep

LEMMA DataTypesStep ==
    ASSUME DataTypes, GateInv, LoopInv, [Next]_vars
    PROVE  DataTypes'
<1>1. CASE UNCHANGED vars
  BY <1>1 DEF DataTypes, vars, environment, managerVars, pauseVars, loopVars, owed
<1>2. ASSUME NEW w \in Calls, LifetimeEnds(w) \/ Cancel(w) \/ Wake(w)
      PROVE  DataTypes'
  <2>1. watcher' \in [Calls -> Watcher]
    <3>1. CASE LifetimeEnds(w)
      BY <3>1, WatcherFields DEF DataTypes, LifetimeEnds
    <3>2. CASE Cancel(w)
      BY <3>2, CanceledTyped DEF DataTypes, Cancel
    <3>3. CASE Wake(w)
      BY <3>3, WatcherFields DEF DataTypes, Wake
    <3>4. QED
      BY <1>2, <3>1, <3>2, <3>3
  <2>2. QED
    BY <1>2, <2>1 DEF DataTypes, LifetimeEnds, Cancel, Wake,
                      environment, managerVars, pauseVars, loopVars, owed
<1>3. CASE Tick \/ \E u \in URIs : Change(u)
  BY <1>3 DEF DataTypes, Tick, Change, Version, managerVars, pauseVars, loopVars, owed
<1>4. QED
  BY <1>1, <1>2, <1>3, ClientKeepsTypes, ManagerKeepsTypes, CallKeepsTypes, LoopKeepsTypes DEF Next

LEMMA TypeInvariance == Spec => [](DataTypes /\ GateInv /\ LoopInv)
<1>1. Init => DataTypes
  BY FreshWatcher DEF Init, DataTypes, Version, Answer
<1>2. DataTypes /\ GateInv /\ LoopInv /\ [Next]_vars => DataTypes'
  BY DataTypesStep
<1>3. QED
  BY <1>1, <1>2, GateInvariance, PTL DEF Spec

(* Every state the managers can reach is one TypeOK describes.  That the count
   of the gate is never negative takes the exactness of the count, since no
   release checks what it gives back.                                       *)
THEOREM TypeCorrect == Spec => []TypeOK
<1>1. DataTypes /\ GateInv /\ LoopInv => TypeOK
  BY DEF DataTypes, GateInv, SlotTypes, LoopInv, TypeOK
<1>2. QED
  BY <1>1, TypeInvariance, PTL

-----------------------------------------------------------------------------
(* The WaitGroup of a manager holds every loop of it that runs, and is empty
   from the moment Close returns; ClosedIsQuiet follows, but by itself says
   nothing of why Close did not return too early.                           *)
WaitInv ==
    /\ \A w \in Calls : Looping(w) => w \in running[Mgr(w)]
    /\ \A m \in Managers : closed[m] = "closed" => running[m] = {}

(* A call that has started keeps its arguments. *)
LEMMA ArgumentsStay ==
    ASSUME SlotTypes, [Next]_vars
    PROVE  \A w \in Calls : pc[w] # "idle" => arg'[w] = arg[w]
<1>1. CASE UNCHANGED vars
  BY <1>1 DEF vars, callVars
<1>2. ASSUME NEW s \in Sessions, ClientStep(s)
      PROVE  \A w \in Calls : pc[w] # "idle" => arg'[w] = arg[w]
  <2>1. ASSUME NEW u \in URIs, NEW c \in Calls, Subscribe(c, s, u)
        PROVE  \A w \in Calls : pc[w] # "idle" => arg'[w] = arg[w]
    <3>1. pc[c] = "idle" /\ \E a : arg' = [arg EXCEPT ![c] = a]
      BY <2>1 DEF Subscribe, RefuseURI, RefuseClosed, Join, RefuseAtCapacity, Reserve, Enters
    <3>2. QED
      BY <3>1 DEF SlotTypes
  <2>2. QED
    BY <1>2, <2>1 DEF ClientStep, Unsubscribe, UnsubscribeAll, RenewAll, RenewLocked, callVars
<1>3. ASSUME NEW m \in Managers, ManagerStep(m)
      PROVE  arg' = arg
  BY <1>3 DEF ManagerStep, Close, CloseReturns, Renew, RenewLocked, callVars
<1>4. ASSUME NEW c \in Calls, CallStep(c) \/ GiveUp(c)
      PROVE  arg' = arg
  BY <1>4 DEF CallStep, GiveUp, RefuseTooMany, Insert, InsertEvicting, Place, FirstRead, AbandonFailed,
              AbandonClosed, AbandonWithdrawn, Abandon, Launch, AwaitReady
<1>5. ASSUME NEW w \in Calls, LoopStep(w) \/ LifetimeEnds(w) \/ Cancel(w) \/ Wake(w)
      PROVE  arg' = arg
  <2>1. CASE LoopStep(w)
    BY <2>1 DEF LoopStep, ContextDone, Resume, Poll, SitOutPause, ReadAnswers, ReadSucceeded,
                ReadInaccessible, ReadRateLimited, ReadFailed, UpdateDigest, Notify, ApplyLease,
                ResetTimer, Retire, Announce, callVars
  <2>2. CASE LifetimeEnds(w) \/ Cancel(w) \/ Wake(w)
    BY <2>2 DEF LifetimeEnds, Cancel, Wake, callVars
  <2>3. QED
    BY <1>5, <2>1, <2>2
<1>6. CASE Tick \/ \E u \in URIs : Change(u)
  BY <1>6 DEF Tick, Change, callVars
<1>7. QED
  BY <1>1, <1>2, <1>3, <1>4, <1>5, <1>6 DEF Next

(* Steps that start and end no loop and close nothing. *)
LEMMA WaitFrame ==
    ASSUME WaitInv, LoopInv, UNCHANGED <<loop, running, closed>>,
           \A w \in Calls : pc[w] # "idle" => arg'[w] = arg[w]
    PROVE  WaitInv'
<1>1. \A w \in Calls : Looping(w) => pc[w] # "idle"
  BY DEF LoopInv, Looping
<1>2. QED
  BY <1>1 DEF WaitInv, Looping, Mgr

LEMMA CallKeepsWaitInv ==
    ASSUME WaitInv, LoopInv, DataTypes, GateInv, NEW c \in Calls, CallStep(c) \/ GiveUp(c),
           \A w \in Calls : pc[w] # "idle" => arg'[w] = arg[w]
    PROVE  WaitInv'
<1>1. CASE Launch(c)
  <2>1. /\ pc[c] = "read" /\ closed[Mgr(c)] = "open" /\ closed' = closed /\ arg' = arg
        /\ running' = [running EXCEPT ![Mgr(c)] = @ \cup {c}]
        /\ loop' = [loop EXCEPT ![c] = "sleep"]
    BY <1>1 DEF Launch
  <2>2. Mgr(c) \in Managers
    BY <2>1 DEF GateInv, ArgumentsKnown, Mgr
  <2>3. \A m \in Managers : running[m] \subseteq running'[m] /\ (m # Mgr(c) => running'[m] = running[m])
    BY <2>1, <2>2 DEF DataTypes
  <2>4. c \in running'[Mgr(c)]
    BY <2>1, <2>2 DEF DataTypes
  <2>5. \A w \in Calls : w # c => loop'[w] = loop[w]
    BY <2>1 DEF LoopInv
  <2>6. \A w \in Calls : Looping(w) => Mgr(w) \in Managers
    BY DEF Looping, LoopInv, GateInv, ArgumentsKnown, Mgr
  <2>7. ASSUME NEW w \in Calls, Looping(w)'
        PROVE  w \in running'[Mgr(w)']
    <3>1. Mgr(w)' = Mgr(w)
      BY <2>1 DEF Mgr
    <3>2. CASE w = c
      BY <2>4, <3>1, <3>2
    <3>3. CASE w # c
      <4>1. Looping(w)
        BY <2>5, <2>7, <3>3 DEF Looping
      <4>2. w \in running[Mgr(w)] /\ Mgr(w) \in Managers
        BY <4>1, <2>6 DEF WaitInv
      <4>3. QED
        BY <4>2, <2>3, <3>1
    <3>4. QED
      BY <3>2, <3>3
  <2>8. \A m \in Managers : closed'[m] = "closed" => running'[m] = {}
    BY <2>1, <2>3 DEF WaitInv
  <2>9. QED
    BY <2>7, <2>8 DEF WaitInv
<1>2. CASE ~Launch(c)
  <2>1. UNCHANGED <<loop, running, closed>>
    BY <1>2 DEF CallStep, GiveUp, RefuseTooMany, Insert, InsertEvicting, Place, FirstRead,
                AbandonFailed, AbandonClosed, AbandonWithdrawn, Abandon, AwaitReady,
                loopVars, managerVars
  <2>2. QED
    BY <2>1, WaitFrame
<1>3. QED
  BY <1>1, <1>2

LEMMA LoopKeepsWaitInv ==
    ASSUME WaitInv, LoopInv, DataTypes, GateInv, NEW w \in Calls, LoopStep(w)
    PROVE  WaitInv'
<1>0. Mgr(w) \in Managers /\ Looping(w)
  BY DEF LoopStep, Looping, LoopInv, GateInv, ArgumentsKnown, Mgr
<1>1. closed' = closed /\ arg' = arg
  BY DEF LoopStep, ContextDone, Resume, Poll, SitOutPause, ReadAnswers, ReadSucceeded,
         ReadInaccessible, ReadRateLimited, ReadFailed, UpdateDigest, Notify, ApplyLease,
         ResetTimer, Retire, Announce, callVars, managerVars
<1>2. /\ running' = running \/ running' = [running EXCEPT ![Mgr(w)] = @ \ {w}]
      /\ running' # running => loop' = [loop EXCEPT ![w] = "done"]
      /\ \A v \in Calls : v # w => loop'[v] = loop[v]
  <2>1. CASE Retire(w) \/ Announce(w)
    BY <2>1 DEF Retire, Announce, GoroutineEnds, Step, LoopInv
  <2>2. CASE ~(Retire(w) \/ Announce(w))
    <3>1. running' = running
      BY <2>2 DEF LoopStep, ContextDone, Resume, Poll, SitOutPause, ReadAnswers, ReadSucceeded,
         ReadInaccessible, ReadRateLimited, ReadFailed, UpdateDigest, Notify, ApplyLease,
         ResetTimer, managerVars
    <3>2. loop' = loop \/ \E to : loop' = [loop EXCEPT ![w] = to]
      BY <2>2 DEF LoopStep, ContextDone, Resume, Poll, SitOutPause, ReadAnswers, ReadSucceeded,
         ReadInaccessible, ReadRateLimited, ReadFailed, UpdateDigest, Notify, ApplyLease,
         ResetTimer, Step, loopVars
    <3>3. QED
      BY <3>1, <3>2 DEF LoopInv
  <2>3. QED
    BY <2>1, <2>2
<1>3. \A v \in Calls : Looping(v) => Mgr(v) \in Managers
  BY DEF Looping, LoopInv, GateInv, ArgumentsKnown, Mgr
<1>4. ASSUME NEW v \in Calls, Looping(v)'
      PROVE  v \in running'[Mgr(v)]
  <2>1. CASE running' = running
    <3>1. Looping(v)
      BY <1>0, <1>2, <1>4 DEF Looping
    <3>2. QED
      BY <2>1, <3>1 DEF WaitInv
  <2>2. CASE running' # running
    <3>1. v # w
      BY <1>2, <1>4, <2>2 DEF Looping, LoopInv
    <3>2. Looping(v)
      BY <1>2, <1>4, <3>1 DEF Looping
    <3>3. v \in running[Mgr(v)] /\ Mgr(v) \in Managers
      BY <1>3, <3>2 DEF WaitInv
    <3>4. QED
      BY <1>2, <2>2, <3>1, <3>3 DEF DataTypes
  <2>3. QED
    BY <2>1, <2>2
<1>5. \A m \in Managers : running'[m] \subseteq running[m]
  BY <1>2 DEF DataTypes
<1>6. QED
  BY <1>1, <1>4, <1>5 DEF WaitInv, Mgr

LEMMA WaitInvStep ==
    ASSUME WaitInv, LoopInv, DataTypes, GateInv, [Next]_vars
    PROVE  WaitInv'
<1>0. \A w \in Calls : pc[w] # "idle" => arg'[w] = arg[w]
  BY ArgumentsStay DEF GateInv
<1>1. CASE UNCHANGED vars
  BY <1>0, <1>1, WaitFrame DEF vars, managerVars, loopVars
<1>2. ASSUME NEW s \in Sessions, ClientStep(s)
      PROVE  WaitInv'
  <2>1. UNCHANGED <<loop, running, closed>>
    BY <1>2 DEF ClientStep, Subscribe, RefuseURI, RefuseClosed, Join, RefuseAtCapacity, Reserve,
                Unsubscribe, UnsubscribeAll, RenewAll, RenewLocked, loopVars, managerVars
  <2>2. QED
    BY <1>0, <2>1, WaitFrame
<1>3. ASSUME NEW m \in Managers, ManagerStep(m)
      PROVE  WaitInv'
  <2>1. UNCHANGED <<loop, running, arg>>
    BY <1>3 DEF ManagerStep, Close, CloseReturns, Renew, RenewLocked, loopVars, managerVars, callVars
  <2>2. \A k \in Managers : closed'[k] = "closed" => running[k] = {}
    BY <1>3 DEF ManagerStep, Close, CloseReturns, Renew, RenewLocked, managerVars, WaitInv, DataTypes
  <2>3. QED
    BY <2>1, <2>2 DEF WaitInv, Looping, Mgr
<1>4. ASSUME NEW w \in Calls, LifetimeEnds(w) \/ Cancel(w) \/ Wake(w)
      PROVE  WaitInv'
  BY <1>0, <1>4, WaitFrame DEF LifetimeEnds, Cancel, Wake, loopVars, managerVars
<1>5. CASE Tick \/ \E u \in URIs : Change(u)
  BY <1>0, <1>5, WaitFrame DEF Tick, Change, loopVars, managerVars
<1>6. QED
  BY <1>0, <1>1, <1>2, <1>3, <1>4, <1>5, CallKeepsWaitInv, LoopKeepsWaitInv DEF Next

(* Once Close of a manager has returned, none of its watch loops runs: not
   one that was winding down, and not one a Subscribe in the middle of its
   first read would have launched behind the wait.                          *)
THEOREM CloseIsFinal == Spec => []ClosedIsQuiet
<1>1. Init => WaitInv
  BY DEF Init, WaitInv, Looping
<1>2. WaitInv /\ LoopInv /\ DataTypes /\ GateInv /\ [Next]_vars => WaitInv'
  BY WaitInvStep
<1>3. WaitInv /\ DataTypes /\ GateInv /\ LoopInv => ClosedIsQuiet
  BY DEF WaitInv, ClosedIsQuiet
<1>4. QED
  BY <1>1, <1>2, <1>3, TypeInvariance, PTL DEF Spec

==============================================================================
