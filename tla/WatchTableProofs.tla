--------------------------- MODULE WatchTableProofs ---------------------------
(***************************************************************************)
(* The subscription managers implement WatchTable: what the first reads,   *)
(* poll loops, leases, slots and interleavings of SubscriptionManager do   *)
(* to the subscribers of a watch is, step by step, what the table allows,  *)
(* whatever the number of credentials, sessions, URIs and calls.           *)
(***************************************************************************)
EXTENDS WatcherProofs

USE ManagerAssumption, FiniteAssumption, OptionsAssumption

(* The variables of the table, as the managers keep them. *)
Held    == [k \in Managers \X URIs |-> HoldersOf(k)]
Due     == KeysOf(Announcing)
Leaving == KeysOf(Unwinding \ Announcing)

TableVars == <<closed, Held, StartedWatches, Due, Leaving>>

LEMMA TableVarsAre ==
    ASSUME UNCHANGED TableVars
    PROVE  UNCHANGED Table!vars
BY DEF TableVars, Held, Due, Leaving, Table!vars

LEMMA TableInit ==
    ASSUME Init
    PROVE  Table!Init
<1>1. Unwinding = {} /\ Announcing = {}
  BY DEF Init, Unwinding, Announcing, Launched
<1>2. WatchedSlots = {} /\ StartedWatches = {}
  BY DEF Init, WatchedSlots, StartedWatches
<1>3. \A k \in Managers \X URIs : HoldersOf(k) = {}
  BY DEF Init, HoldersOf
<1>4. QED
  BY <1>1, <1>2, <1>3 DEF Init, Table!Init, Table!Watches, KeysOf

-----------------------------------------------------------------------------
(* The table's variables, one watch or one watcher at a time. *)

LEMMA HeldAt ==
    ASSUME NEW m \in Managers, NEW u \in URIs
    PROVE  /\ Held[<<m, u>>] = IF registry[m][u] = None THEN {} ELSE watcher[registry[m][u]].subs
           /\ <<m, u>> \in StartedWatches <=>
                registry[m][u] # None /\ watcher[registry[m][u]].ready = "started"
BY DEF Held, HoldersOf, StartedWatches, WatchedSlots

LEMMA HeldNext ==
    ASSUME NEW m \in Managers, NEW u \in URIs
    PROVE  /\ Held'[<<m, u>>] = IF registry'[m][u] = None THEN {} ELSE watcher'[registry'[m][u]].subs
           /\ <<m, u>> \in StartedWatches' <=>
                registry'[m][u] # None /\ watcher'[registry'[m][u]].ready = "started"
BY DEF Held, HoldersOf, StartedWatches, WatchedSlots

(* The next state of the table is told by what it is at every watch. *)
LEMMA HeldBecomes ==
    ASSUME NEW f \in [Managers \X URIs -> SUBSET Sessions],
           \A m \in Managers, u \in URIs : Held'[<<m, u>>] = f[<<m, u>>]
    PROVE  Held' = f
<1>1. ASSUME NEW k \in Managers \X URIs
      PROVE  Held'[k] = f[k]
  <2>1. PICK m \in Managers, u \in URIs : k = <<m, u>>
    OBVIOUS
  <2>2. QED
    BY <2>1
<1>2. Held' = [k \in Managers \X URIs |-> Held'[k]]
  BY DEF Held
<1>3. QED
  BY <1>1, <1>2

LEMMA StartedBecome ==
    ASSUME NEW K \in SUBSET (Managers \X URIs),
           \A m \in Managers, u \in URIs : <<m, u>> \in StartedWatches' <=> <<m, u>> \in K
    PROVE  StartedWatches' = K
<1>1. ASSUME NEW k \in Managers \X URIs
      PROVE  k \in StartedWatches' <=> k \in K
  <2>1. PICK m \in Managers, u \in URIs : k = <<m, u>>
    OBVIOUS
  <2>2. QED
    BY <2>1
<1>2. StartedWatches' \subseteq Managers \X URIs
  BY DEF StartedWatches, WatchedSlots
<1>3. QED
  BY <1>1, <1>2

LEMMA HeldType ==
    ASSUME ManagerInv
    PROVE  Held \in [Managers \X URIs -> SUBSET Sessions]
<1>1. ASSUME NEW m \in Managers, NEW u \in URIs
      PROVE  Held[<<m, u>>] \in SUBSET Sessions
  <2>1. registry[m][u] = None \/ registry[m][u] \in Calls
    BY DEF ManagerInv, GateInv, SlotTypes
  <2>2. \A w \in Calls : watcher[w].subs \in SUBSET Sessions
    BY DEF ManagerInv, DataTypes, Watcher
  <2>3. QED
    BY <2>1, <2>2, HeldAt
<1>2. \A k \in Managers \X URIs : Held[k] \in SUBSET Sessions
  BY <1>1
<1>3. QED
  BY <1>2 DEF Held

LEMMA StartedAreWatches ==
    StartedWatches \subseteq Managers \X URIs
BY DEF StartedWatches, WatchedSlots

(* Which watchers are on their way out, and which of them will say so. *)
LEMMA UnwindingKnown ==
    ASSUME ManagerInv, NEW w \in Unwinding
    PROVE  w \in Calls /\ pc[w] = "ok" /\ Mgr(w) \in Managers /\ Uri(w) \in URIs
BY DEF Unwinding, Launched, ManagerInv, LoopInv, GateInv, ArgumentsKnown, Mgr, Uri

KeyOf(w) == <<Mgr(w), Uri(w)>>

LEMMA KeyStays ==
    ASSUME NEW w \in Calls, arg'[w] = arg[w]
    PROVE  KeyOf(w)' = KeyOf(w)
BY DEF KeyOf, Mgr, Uri

(* The keys of a set of watchers that stays. *)
LEMMA SameKeys ==
    ASSUME ManagerInv, \A w \in Calls : pc[w] # "idle" => arg'[w] = arg[w],
           \A w \in Calls : w \in Unwinding' <=> w \in Unwinding,
           \A w \in Calls : w \in Announcing' <=> w \in Announcing
    PROVE  Due' = Due /\ Leaving' = Leaving
<1>1. Unwinding' = Unwinding /\ Announcing' = Announcing /\ Announcing \subseteq Unwinding
  BY DEF Unwinding, Announcing
<1>2. \A w \in Unwinding : <<Mgr(w)', Uri(w)'>> = <<Mgr(w), Uri(w)>>
  BY UnwindingKnown DEF Mgr, Uri
<1>3. Due' = {<<Mgr(w)', Uri(w)'>> : w \in Announcing} /\ Leaving' = {<<Mgr(w)', Uri(w)'>> : w \in Unwinding \ Announcing}
  BY <1>1 DEF Due, Leaving, KeysOf
<1>4. QED
  BY <1>1, <1>2, <1>3 DEF Due, Leaving, KeysOf

-----------------------------------------------------------------------------
(* Steps the table does not see. *)
Calm ==
    /\ UNCHANGED <<closed, registry, running>>
    /\ \A w \in Calls :
        /\ pc[w] # "idle" => arg'[w] = arg[w]
        /\ Registered(w)' <=> Registered(w)
        /\ Registered(w) => watcher'[w].subs = watcher[w].subs /\ watcher'[w].ready = watcher[w].ready
        /\ Launched(w)' <=> Launched(w)
        /\ loop'[w] = "announce" <=> loop[w] = "announce"
        /\ Launched(w) => (watcher'[w].evicted <=> watcher[w].evicted)

LEMMA CalmStutters ==
    ASSUME ManagerInv, Calm
    PROVE  UNCHANGED TableVars
<1> USE DEF Calm
<1>1. \A w \in Calls : Launched(w) => Mgr(w)' = Mgr(w)
  BY DEF Launched, ManagerInv, LoopInv, Mgr
<1>2. \A w \in Calls : (w \in Unwinding' <=> w \in Unwinding) /\ (w \in Announcing' <=> w \in Announcing)
  BY <1>1 DEF Unwinding, Announcing
<1>3. Due' = Due /\ Leaving' = Leaving
  BY <1>2, SameKeys
<1>4. \A m \in Managers, u \in URIs :
        Held'[<<m, u>>] = Held[<<m, u>>] /\ (<<m, u>> \in StartedWatches' <=> <<m, u>> \in StartedWatches)
  <2> SUFFICES ASSUME NEW m \in Managers, NEW u \in URIs
               PROVE  /\ Held'[<<m, u>>] = Held[<<m, u>>]
                      /\ <<m, u>> \in StartedWatches' <=> <<m, u>> \in StartedWatches
    OBVIOUS
  <2>1. registry[m][u] # None => registry[m][u] \in Calls /\ Registered(registry[m][u])
    BY RegistryHolds DEF ManagerInv
  <2>2. registry'[m][u] = registry[m][u]
    OBVIOUS
  <2>3. registry[m][u] # None =>
          /\ watcher'[registry[m][u]].subs = watcher[registry[m][u]].subs
          /\ watcher'[registry[m][u]].ready = watcher[registry[m][u]].ready
    BY <2>1
  <2>4. QED
    BY <2>2, <2>3, HeldAt, HeldNext
<1>5. Held' = Held
  BY <1>4, HeldType, HeldBecomes
<1>6. StartedWatches' = StartedWatches
  BY <1>4, StartedAreWatches, StartedBecome
<1>7. QED
  BY <1>3, <1>5, <1>6 DEF TableVars

(* A call begins without a watcher of its own, or goes on without it. *)
LEMMA CallsAreCalm ==
    ASSUME ManagerInv, NEW c \in Calls, NEW p, pc' = [pc EXCEPT ![c] = p],
           UNCHANGED <<closed, registry, running, loop, watcher>>,
           \/ /\ pc[c] # "idle" /\ p # "idle" /\ arg' = arg
           \/ /\ pc[c] = "idle"
              /\ \E s \in Sessions, u \in URIs : \E a :
                    arg' = [arg EXCEPT ![c] = a] /\ a.sub = s /\ a.uri = u
    PROVE  Calm
<1>1. pc \in [Calls -> CallPc] /\ arg \in [Calls -> Args]
  BY DEF ManagerInv, GateInv, SlotTypes
<1>2. ASSUME NEW w \in Calls
      PROVE  Registered(w)' <=> Registered(w)
  <2>1. CASE w # c \/ pc[c] # "idle"
    <3>1. arg'[w] = arg[w] /\ (pc'[w] = "idle" <=> pc[w] = "idle")
      BY <1>1, <2>1
    <3>2. QED
      BY <3>1 DEF Registered, Mgr, Uri
  <2>2. CASE w = c /\ pc[c] = "idle"
    <3>1. PICK s \in Sessions, u \in URIs : arg'[c].sub = s /\ arg'[c].uri = u
      BY <1>1, <2>2
    <3>2. registry[ManagerOf[s]][u] # c
      BY <2>2, RegistryHolds DEF ManagerInv
    <3>3. Mgr(c)' = ManagerOf[s] /\ Uri(c)' = u
      BY <3>1 DEF Mgr, Uri
    <3>4. QED
      BY <2>2, <3>2, <3>3 DEF Registered
  <2>3. QED
    BY <2>1, <2>2
<1>3. \A w \in Calls : pc[w] # "idle" => arg'[w] = arg[w]
  BY <1>1
<1>4. QED
  BY <1>2, <1>3 DEF Calm, Launched

LEMMA StartingIsCalm ==
    ASSUME ManagerInv, NEW c \in Calls, NEW s \in Sessions, NEW u \in URIs,
           RefuseURI(c, s, u) \/ RefuseClosed(c, s, u) \/ RefuseAtCapacity(c, s, u) \/ Reserve(c, s, u)
    PROVE  Calm
<1>1. PICK p \in {"notSubscribable", "closed", "atCapacity", "reserved"}, x \in {None, c} :
        /\ pc[c] = "idle" /\ pc' = [pc EXCEPT ![c] = p]
        /\ arg' = [arg EXCEPT ![c] = Arguments(s, u, x, FALSE)]
        /\ UNCHANGED <<closed, registry, running, loop, watcher>>
  BY DEF RefuseURI, RefuseClosed, RefuseAtCapacity, Reserve, Enters, Answers, managerVars, loopVars
<1> DEFINE a == Arguments(s, u, x, FALSE)
<1>2. a.sub = s /\ a.uri = u /\ arg' = [arg EXCEPT ![c] = a]
  BY <1>1 DEF Arguments
<1> HIDE DEF a
<1>3. \E r \in Sessions, y \in URIs : \E b : arg' = [arg EXCEPT ![c] = b] /\ b.sub = r /\ b.uri = y
  BY <1>2
<1>4. QED
  BY <1>1, <1>3, CallsAreCalm

LEMMA WaitingIsCalm ==
    ASSUME ManagerInv, NEW c \in Calls, RefuseTooMany(c) \/ FirstRead(c) \/ AwaitReady(c)
    PROVE  Calm
<1>1. \E p : pc' = [pc EXCEPT ![c] = p] /\ pc[c] # "idle" /\ p # "idle"
  BY DEF RefuseTooMany, FirstRead, AwaitReady, StartReply, Answers
<1>2. UNCHANGED <<closed, registry, running, loop, watcher, arg>>
  BY DEF RefuseTooMany, FirstRead, AwaitReady, managerVars, loopVars
<1>3. QED
  BY <1>1, <1>2, CallsAreCalm

(* Where the registry and the arguments stay, so does who is registered. *)
LEMMA StillRegistered ==
    ASSUME UNCHANGED <<registry, pc, arg>>
    PROVE  \A w \in Calls : Registered(w)' <=> Registered(w)
BY DEF Registered, Mgr, Uri

LEMMA RenewalIsCalm ==
    ASSUME ManagerInv, NEW W, RenewLocked(W)
    PROVE  Calm
<1>1. UNCHANGED <<closed, registry, running, pc, arg, loop>>
  BY DEF RenewLocked, managerVars, callVars, loopVars
<1>2. ASSUME NEW w \in Calls
      PROVE  /\ watcher'[w].subs = watcher[w].subs /\ watcher'[w].ready = watcher[w].ready
             /\ watcher'[w].evicted = watcher[w].evicted
  <2>1. watcher[w] \in Watcher
    BY DEF ManagerInv, DataTypes
  <2>2. \/ watcher'[w] = [watcher[w] EXCEPT !.leaseAt = now + Lease, !.demoted = FALSE]
        \/ watcher'[w] = watcher[w]
    BY DEF RenewLocked
  <2>3. QED
    BY <2>1, <2>2 DEF Watcher
<1>3. QED
  BY <1>1, <1>2, StillRegistered DEF Calm, Launched

LEMMA NudgesAreCalm ==
    ASSUME ManagerInv, NEW v \in Calls, LifetimeEnds(v) \/ Cancel(v) \/ Wake(v)
    PROVE  Calm
<1>1. UNCHANGED <<closed, registry, running, pc, arg, loop>>
  BY DEF LifetimeEnds, Cancel, Wake, managerVars, callVars, loopVars
<1>2. watcher \in [Calls -> Watcher]
  BY DEF ManagerInv, DataTypes
<1>3. ASSUME NEW w \in Calls
      PROVE  /\ watcher'[w].subs = watcher[w].subs /\ watcher'[w].ready = watcher[w].ready
             /\ watcher'[w].evicted = watcher[w].evicted
  BY <1>2 DEF LifetimeEnds, Cancel, Wake, Watcher
<1>4. QED
  BY <1>1, <1>3, StillRegistered DEF Calm, Launched

LEMMA EnvironmentIsCalm ==
    ASSUME ManagerInv, Tick \/ (\E u \in URIs : Change(u)) \/ UNCHANGED vars
    PROVE  Calm
<1>1. UNCHANGED <<closed, registry, running, pc, arg, loop, watcher>>
  BY DEF Tick, Change, vars, managerVars, callVars, loopVars
<1>2. QED
  BY <1>1, StillRegistered DEF Calm, Launched

LEMMA PollingIsCalm ==
    ASSUME ManagerInv, NEW v \in Calls, LoopStep(v), ~(Retire(v) \/ Announce(v))
    PROVE  Calm
<1>1. watcher \in [Calls -> Watcher] /\ watcher[v] \in Watcher /\ loop \in [Calls -> LoopPc]
  BY DEF ManagerInv, DataTypes, LoopInv
<1>2. UNCHANGED <<closed, registry, running, pc, arg>>
  BY DEF LoopStep, ContextDone, Resume, Poll, SitOutPause, ReadAnswers, ReadSucceeded, ReadInaccessible,
         ReadRateLimited, ReadFailed, UpdateDigest, Notify, ApplyLease, ResetTimer, managerVars, callVars
<1>3. /\ \A w \in Calls : w # v => watcher'[w] = watcher[w]
      /\ watcher'[v].subs = watcher[v].subs /\ watcher'[v].ready = watcher[v].ready
      /\ watcher'[v].evicted = watcher[v].evicted
  <2>1. CASE watcher' = watcher
    BY <2>1
  <2>2. CASE Resume(v) \/ SitOutPause(v) \/ UpdateDigest(v) \/ ApplyLease(v)
    BY <1>1, <2>2 DEF Resume, SitOutPause, UpdateDigest, ApplyLease, Watcher
  <2>3. QED
    BY <2>1, <2>2 DEF LoopStep, ContextDone, Poll, ReadAnswers, ReadSucceeded, ReadInaccessible,
         ReadRateLimited, ReadFailed, Notify, ResetTimer
<1>4. \/ loop' = loop
      \/ /\ loop[v] \notin {"none", "announce"}
         /\ \E to : to \notin {"none", "announce"} /\ loop' = [loop EXCEPT ![v] = to]
  BY DEF LoopStep, ContextDone, Resume, Poll, SitOutPause, ReadAnswers, ReadSucceeded, ReadInaccessible,
         ReadRateLimited, ReadFailed, UpdateDigest, Notify, ApplyLease, ResetTimer, Step, loopVars
<1>5. \A w \in Calls : (Launched(w)' <=> Launched(w)) /\ (loop'[w] = "announce" <=> loop[w] = "announce")
  BY <1>1, <1>4 DEF Launched
<1>6. QED
  BY <1>2, <1>3, <1>5, StillRegistered DEF Calm

-----------------------------------------------------------------------------
(* Steps the table sees.  What they leave alone: *)

LEMMA SameWatch ==
    ASSUME NEW m \in Managers, NEW u \in URIs, registry'[m][u] = registry[m][u],
           registry[m][u] # None =>
                /\ watcher'[registry[m][u]].subs = watcher[registry[m][u]].subs
                /\ watcher'[registry[m][u]].ready = watcher[registry[m][u]].ready
    PROVE  /\ Held'[<<m, u>>] = Held[<<m, u>>]
           /\ <<m, u>> \in StartedWatches' <=> <<m, u>> \in StartedWatches
BY HeldAt, HeldNext

(* The subscribers of one watch change. *)
LEMMA HeldUpdate ==
    ASSUME ManagerInv, NEW m \in Managers, NEW u \in URIs, NEW X \in SUBSET Sessions,
           Held'[<<m, u>>] = X,
           \A n \in Managers, y \in URIs : ~(n = m /\ y = u) => Held'[<<n, y>>] = Held[<<n, y>>]
    PROVE  Held' = [Held EXCEPT ![<<m, u>>] = X]
<1>1. Held \in [Managers \X URIs -> SUBSET Sessions]
  BY HeldType
<1>2. [Held EXCEPT ![<<m, u>>] = X] \in [Managers \X URIs -> SUBSET Sessions]
  BY <1>1
<1>3. \A n \in Managers, y \in URIs : Held'[<<n, y>>] = [Held EXCEPT ![<<m, u>>] = X][<<n, y>>]
  BY <1>1
<1>4. QED
  BY <1>2, <1>3, HeldBecomes

(* The watches of K, and no other, cease to be started. *)
LEMMA StartedLose ==
    ASSUME NEW K,
           \A n \in Managers, y \in URIs : <<n, y>> \in StartedWatches' <=> <<n, y>> \in StartedWatches /\ <<n, y>> \notin K
    PROVE  StartedWatches' = StartedWatches \ K
<1>1. PICK S \in SUBSET (Managers \X URIs) : S = StartedWatches \ K
  BY StartedAreWatches
<1>2. \A n \in Managers, y \in URIs : <<n, y>> \in StartedWatches' <=> <<n, y>> \in S
  BY <1>1
<1>3. QED
  BY <1>1, <1>2, StartedBecome

(* No loop moves on, and no watch that has one begins or ends. *)
LEMMA SameUnwinding ==
    ASSUME ManagerInv, UNCHANGED <<running, loop>>,
           \A w \in Calls : pc[w] # "idle" => arg'[w] = arg[w],
           \A w \in Calls : Launched(w) => (Registered(w)' <=> Registered(w)),
           \A w \in Calls : Launched(w) => (watcher'[w].evicted <=> watcher[w].evicted)
    PROVE  Due' = Due /\ Leaving' = Leaving
<1>1. \A w \in Calls : Launched(w) => Mgr(w)' = Mgr(w)
  BY DEF Launched, ManagerInv, LoopInv, Mgr
<1>2. \A w \in Calls : Launched(w)' <=> Launched(w)
  BY DEF Launched
<1>3. \A w \in Calls : (w \in Unwinding' <=> w \in Unwinding) /\ (w \in Announcing' <=> w \in Announcing)
  BY <1>1, <1>2 DEF Unwinding, Announcing
<1>4. QED
  BY <1>3, SameKeys

(* What the table is told of the watchers on their way out. *)
LEMMA KeysAfter ==
    ASSUME \A w \in Calls : pc[w] # "idle" => arg'[w] = arg[w],
           NEW A \in SUBSET Calls, NEW L \in SUBSET Calls, \A w \in A \cup L : pc[w] # "idle",
           Announcing' = A, Unwinding' \ Announcing' = L
    PROVE  Due' = KeysOf(A) /\ Leaving' = KeysOf(L)
<1>1. \A w \in A \cup L : Mgr(w)' = Mgr(w) /\ Uri(w)' = Uri(w)
  BY DEF Mgr, Uri
<1>2. Due' = {<<Mgr(w)', Uri(w)'>> : w \in A} /\ Leaving' = {<<Mgr(w)', Uri(w)'>> : w \in L}
  BY DEF Due, Leaving, KeysOf
<1>3. QED
  BY <1>1, <1>2 DEF KeysOf

LEMMA KeysOfBoth ==
    ASSUME NEW V, NEW W
    PROVE  KeysOf(V \cup W) = KeysOf(V) \cup KeysOf(W)
BY DEF KeysOf

LEMMA KeyAdded ==
    ASSUME NEW W, NEW v
    PROVE  KeysOf(W \cup {v}) = KeysOf(W) \cup {KeyOf(v)}
BY DEF KeysOf, KeyOf

LEMMA KeyRemoved ==
    ASSUME NEW W, NEW v \in W
    PROVE  KeyOf(v) \in KeysOf(W) /\ KeysOf(W \ {v}) \in Table!Less(KeysOf(W), KeyOf(v))
<1>1. KeysOf(W) = KeysOf(W \ {v}) \cup {KeyOf(v)}
  BY DEF KeysOf, KeyOf
<1>2. QED
  BY <1>1 DEF Table!Less

-----------------------------------------------------------------------------
(* Close has come back, with no watch loop of the manager left. *)
LEMMA CloseReturnsIsSeen ==
    ASSUME ManagerInv, NEW m \in Managers, CloseReturns(m)
    PROVE  Table!CloseReturns(m)
<1>1. /\ closed[m] = "closing" /\ running[m] = {} /\ closed' = [closed EXCEPT ![m] = "closed"]
      /\ UNCHANGED <<registry, running, pc, arg, loop, watcher>>
  BY DEF CloseReturns, callVars, loopVars
<1>2. UNCHANGED <<Held, StartedWatches, Due, Leaving>>
  BY <1>1 DEF Held, StartedWatches, WatchedSlots, HoldersOf, Due, Leaving, KeysOf, Unwinding, Announcing, Launched,
              Registered, Mgr, Uri
<1>3. ASSUME NEW w \in Unwinding
      PROVE  Mgr(w) # m
  BY <1>1 DEF Unwinding
<1>4. (Due \cup Leaving) \cap ({m} \X URIs) = {}
  BY <1>3 DEF Due, Leaving, KeysOf, Announcing
<1>5. QED
  BY <1>1, <1>2, <1>4 DEF Table!CloseReturns, Held, Due, Leaving

(* A session is added to the watcher of its URI. *)
LEMMA JoinIsSeen ==
    ASSUME ManagerInv, NEW c \in Calls, NEW s \in Sessions, NEW u \in URIs, Join(c, s, u)
    PROVE  Table!Join(s, u)
<1>1. /\ pc \in [Calls -> CallPc] /\ arg \in [Calls -> Args] /\ watcher \in [Calls -> Watcher]
      /\ ManagerOf[s] \in Managers
  BY DEF ManagerInv, DataTypes, GateInv, SlotTypes
<1>2. PICK v \in Calls : v = registry[ManagerOf[s]][u]
  BY <1>1, RegistryHolds DEF ManagerInv, Join
<1>3. /\ pc[c] = "idle" /\ pc' = [pc EXCEPT ![c] = "awaiting"] /\ closed[ManagerOf[s]] = "open"
      /\ watcher' = [watcher EXCEPT ![v].subs = watcher[v].subs \cup {s}]
      /\ UNCHANGED <<closed, registry, running, loop>>
  BY <1>2 DEF Join, Enters, Answers, managerVars, loopVars
<1>4. \A w \in Calls : w # c => arg'[w] = arg[w]
  BY <1>1 DEF Join
<1>5. \A w \in Calls : Launched(w) => w # c
  BY <1>3 DEF Launched, ManagerInv, LoopInv
<1>6. /\ watcher'[v].subs = watcher[v].subs \cup {s} /\ watcher'[v].ready = watcher[v].ready
      /\ \A w \in Calls : watcher'[w].evicted = watcher[w].evicted
      /\ \A w \in Calls : w # v => watcher'[w] = watcher[w]
  BY <1>1, <1>3 DEF Watcher
<1>7. Due' = Due /\ Leaving' = Leaving
  <2>1. \A w \in Calls : pc[w] # "idle" => arg'[w] = arg[w]
    BY <1>3, <1>4
  <2>2. \A w \in Calls : Launched(w) => (Registered(w)' <=> Registered(w))
    BY <1>1, <1>3, <1>4, <1>5 DEF Registered, Mgr, Uri
  <2>3. QED
    BY <1>3, <1>6, <2>1, <2>2, SameUnwinding
<1>8. ASSUME NEW n \in Managers, NEW y \in URIs, ~(n = ManagerOf[s] /\ y = u)
      PROVE  /\ Held'[<<n, y>>] = Held[<<n, y>>]
             /\ <<n, y>> \in StartedWatches' <=> <<n, y>> \in StartedWatches
  <2>1. registry[n][y] # None => registry[n][y] \in Calls /\ registry[n][y] # v
    BY <1>1, <1>2, <1>8, RegistryHolds DEF ManagerInv
  <2>2. QED
    BY <1>3, <1>6, <2>1, SameWatch
<1>9. /\ Held'[<<ManagerOf[s], u>>] = Held[<<ManagerOf[s], u>>] \cup {s}
      /\ <<ManagerOf[s], u>> \in StartedWatches' <=> <<ManagerOf[s], u>> \in StartedWatches
  BY <1>1, <1>2, <1>3, <1>6, HeldAt, HeldNext
<1>10. Held' = [Held EXCEPT ![<<ManagerOf[s], u>>] = Held[<<ManagerOf[s], u>>] \cup {s}]
  <2>1. Held[<<ManagerOf[s], u>>] \cup {s} \in SUBSET Sessions
    BY <1>1, HeldType
  <2>2. QED
    BY <1>1, <1>8, <1>9, <2>1, HeldUpdate
<1>11. StartedWatches' = StartedWatches
  BY <1>8, <1>9, StartedAreWatches, StartedBecome
<1>12. QED
  BY <1>3, <1>7, <1>10, <1>11 DEF Table!Join, Held, Due, Leaving

-----------------------------------------------------------------------------
(* The steps of a Subscribe call that insert, launch or abandon its watcher. *)

(* Nobody watched the URI: the call's own watcher begins, with its session. *)
LEMMA InsertIsSeen ==
    ASSUME ManagerInv, NEW c \in Calls, Insert(c)
    PROVE  Table!Join(arg[c].sub, Uri(c))
<1>1. /\ pc[c] = "reserved" /\ pc' = [pc EXCEPT ![c] = "reading"]
      /\ registry' = [registry EXCEPT ![Mgr(c)][Uri(c)] = c]
      /\ watcher' = [watcher EXCEPT ![c] = NewWatcher({arg[c].sub})]
      /\ UNCHANGED <<closed, running, arg, loop>>
  BY DEF Insert, Place, Answers, loopVars
<1>2. /\ pc \in [Calls -> CallPc] /\ watcher \in [Calls -> Watcher]
      /\ registry \in [Managers -> [URIs -> Calls \cup {None}]]
  BY DEF ManagerInv, GateInv, SlotTypes, DataTypes
<1>3. /\ Mgr(c) \in Managers /\ Uri(c) \in URIs /\ registry[Mgr(c)][Uri(c)] = None
      /\ arg[c].sub \in Sessions /\ Mgr(c) = ManagerOf[arg[c].sub]
  BY <1>1 DEF ManagerInv, GateInv, ArgumentsKnown, SlotsAreOwned, Reserving, Mgr, Uri
<1>4. closed[Mgr(c)] = "open" /\ ~Launched(c)
  BY <1>1 DEF ManagerInv, WatcherInv, WatcherOK, LoopInv, Launched
<1>5. Due' = Due /\ Leaving' = Leaving
  <2>1. ASSUME NEW w \in Calls, Launched(w)
        PROVE  (Registered(w)' <=> Registered(w)) /\ watcher'[w].evicted = watcher[w].evicted
    <3>1. w # c /\ pc'[w] = pc[w] /\ arg'[w] = arg[w] /\ watcher'[w] = watcher[w]
      BY <1>1, <1>2, <1>4, <2>1
    <3>2. pc[w] # "idle" /\ Mgr(w) \in Managers /\ Uri(w) \in URIs
      BY <2>1 DEF Launched, ManagerInv, LoopInv, GateInv, ArgumentsKnown, Mgr, Uri
    <3>3. registry'[Mgr(w)][Uri(w)] = w <=> registry[Mgr(w)][Uri(w)] = w
      BY <1>1, <1>2, <1>3, <3>1, <3>2
    <3>4. Mgr(w)' = Mgr(w) /\ Uri(w)' = Uri(w)
      BY <3>1 DEF Mgr, Uri
    <3>5. QED
      BY <3>1, <3>3, <3>4 DEF Registered
  <2>2. QED
    BY <1>1, <2>1, SameUnwinding
<1>6. ASSUME NEW n \in Managers, NEW y \in URIs, ~(n = Mgr(c) /\ y = Uri(c))
      PROVE  /\ Held'[<<n, y>>] = Held[<<n, y>>]
             /\ <<n, y>> \in StartedWatches' <=> <<n, y>> \in StartedWatches
  <2>1. registry'[n][y] = registry[n][y]
    BY <1>1, <1>2, <1>3, <1>6
  <2>2. registry[n][y] # None => registry[n][y] \in Calls /\ registry[n][y] # c
    BY <1>1, RegistryHolds DEF ManagerInv
  <2>3. registry[n][y] # None => watcher'[registry[n][y]] = watcher[registry[n][y]]
    BY <1>1, <1>2, <2>2
  <2>4. QED
    BY <2>1, <2>3, SameWatch
<1>7. /\ Held[<<Mgr(c), Uri(c)>>] = {} /\ Held'[<<Mgr(c), Uri(c)>>] = {arg[c].sub}
      /\ <<Mgr(c), Uri(c)>> \notin StartedWatches /\ <<Mgr(c), Uri(c)>> \notin StartedWatches'
  <2>1. registry'[Mgr(c)][Uri(c)] = c /\ watcher'[c] = NewWatcher({arg[c].sub})
    BY <1>1, <1>2, <1>3
  <2>2. watcher'[c].subs = {arg[c].sub} /\ watcher'[c].ready = "wait"
    BY <2>1 DEF NewWatcher
  <2>3. QED
    BY <1>3, <2>1, <2>2, HeldAt, HeldNext
<1>8. Held' = [Held EXCEPT ![<<Mgr(c), Uri(c)>>] = {arg[c].sub}]
  BY <1>3, <1>6, <1>7, HeldUpdate
<1>9. StartedWatches' = StartedWatches
  BY <1>6, <1>7, StartedAreWatches, StartedBecome
<1>10. Held' = [Held EXCEPT ![<<Mgr(c), Uri(c)>>] = Held[<<Mgr(c), Uri(c)>>] \cup {arg[c].sub}]
  BY <1>7, <1>8
<1>11. QED
  BY <1>1, <1>3, <1>4, <1>5, <1>9, <1>10 DEF Table!Join, Held, Due, Leaving

(* The manager is at its ceiling: the watch begins in the place of another. *)
LEMMA InsertEvictingIsSeen ==
    ASSUME ManagerInv, WaitInv, NEW c \in Calls, InsertEvicting(c)
    PROVE  \E v \in URIs : Table!JoinDisplacing(arg[c].sub, Uri(c), v)
<1>1. PICK v \in Calls : Displaces(c, v)
  BY InsertEvictingDisplaces DEF ManagerInv
<1>2. /\ pc[c] = "reserved" /\ v # c /\ Registered(v) /\ Mgr(v) = Mgr(c) /\ watcher[v].demoted
      /\ watcher'[c] = NewWatcher({arg[c].sub})
      /\ \A w \in Calls : w # c /\ w # v => watcher'[w] = watcher[w]
      /\ \A w \in Calls : w # c => (Registered(w)' <=> Registered(w) /\ w # v)
  BY <1>1 DEF Displaces
<1>3. UNCHANGED <<closed, running, arg, loop>>
  BY <1>1 DEF Displaces
<1>4. \A m \in Managers, u \in URIs :
            registry'[m][u] = IF m = Mgr(c) /\ u = Uri(c) THEN c
                              ELSE IF m = Mgr(c) /\ registry[m][u] = v THEN None ELSE registry[m][u]
  BY <1>1 DEF Displaces
<1>5. /\ Mgr(c) \in Managers /\ Uri(c) \in URIs /\ registry[Mgr(c)][Uri(c)] = None
      /\ arg[c].sub \in Sessions /\ Mgr(c) = ManagerOf[arg[c].sub]
  BY <1>2 DEF ManagerInv, GateInv, ArgumentsKnown, SlotsAreOwned, Reserving, Mgr, Uri
<1>6. Uri(v) \in URIs /\ registry[Mgr(c)][Uri(v)] = v /\ Uri(v) # Uri(c)
  BY <1>2, <1>5, RegisteredAreHeld DEF ManagerInv
<1>7. /\ closed[Mgr(c)] = "open" /\ ~Launched(c)
      /\ Launched(v) /\ watcher[v].ready = "started" /\ loop[v] \notin {"announce", "done"}
  BY <1>2 DEF ManagerInv, WatcherInv, WatcherOK, LoopInv, Launched
<1>8. /\ watcher[v] \in Watcher
      /\ watcher'[v] = [watcher[v] EXCEPT !.evicted = TRUE, !.ctx = IF @ = "live" THEN "canceled" ELSE @]
  BY <1>1 DEF Displaces, ManagerInv, DataTypes
<1>9. watcher'[v].evicted /\ watcher'[v].subs = watcher[v].subs /\ watcher'[v].ready = watcher[v].ready
  BY <1>8 DEF Watcher
<1>10. v \in running[Mgr(v)]
  BY <1>7 DEF WaitInv, Looping, Launched
<1>11. Due' = Due \cup {<<Mgr(c), Uri(v)>>} /\ Leaving' = Leaving
  <2>1. \A w \in Calls : Mgr(w)' = Mgr(w) /\ (Launched(w)' <=> Launched(w)) /\ loop'[w] = loop[w]
    BY <1>3 DEF Mgr, Launched
  <2>2. \A w \in Calls : w \in Unwinding' <=> w \in Unwinding \/ w = v
    BY <1>2, <1>3, <1>7, <1>10, <2>1 DEF Unwinding
  <2>3. v \notin Unwinding
    BY <1>2 DEF Unwinding
  <2>4. ASSUME NEW w \in Calls
        PROVE  w \in Announcing' <=> w \in Announcing \/ w = v
    <3>1. CASE w = v
      BY <1>9, <2>2, <3>1 DEF Announcing
    <3>2. CASE w = c
      BY <1>7, <2>1, <2>2, <3>2, <1>2 DEF Announcing, Unwinding
    <3>3. CASE w # v /\ w # c
      BY <1>2, <2>1, <2>2, <3>3 DEF Announcing
    <3>4. QED
      BY <3>1, <3>2, <3>3
  <2>5. /\ Announcing' = Announcing \cup {v} /\ Unwinding' \ Announcing' = Unwinding \ Announcing
        /\ Announcing \subseteq Unwinding /\ Unwinding \subseteq Calls
    BY <2>2, <2>3, <2>4 DEF Unwinding, Announcing
  <2>6. \A w \in (Announcing \cup {v}) \cup (Unwinding \ Announcing) : w \in Calls /\ pc[w] # "idle"
    BY <2>5, <1>2, UnwindingKnown DEF Registered
  <2>7. Due' = KeysOf(Announcing \cup {v}) /\ Leaving' = KeysOf(Unwinding \ Announcing)
    <3>1. Announcing \cup {v} \in SUBSET Calls /\ Unwinding \ Announcing \in SUBSET Calls
      BY <2>5
    <3>2. \A w \in Calls : arg'[w] = arg[w]
      BY <1>3
    <3>3. QED
      BY <2>5, <2>6, <3>1, <3>2, KeysAfter
  <2>8. KeyOf(v) = <<Mgr(c), Uri(v)>>
    BY <1>2 DEF KeyOf
  <2>9. QED
    BY <2>7, <2>8, KeyAdded DEF Due, Leaving
<1>12. ASSUME NEW n \in Managers, NEW y \in URIs, ~(n = Mgr(c) /\ y \in {Uri(c), Uri(v)})
      PROVE  /\ Held'[<<n, y>>] = Held[<<n, y>>]
             /\ <<n, y>> \in StartedWatches' <=> <<n, y>> \in StartedWatches
  <2>1. registry[n][y] # None => registry[n][y] \in Calls /\ registry[n][y] # c /\ registry[n][y] # v
    BY <1>2, <1>12, RegistryHolds DEF ManagerInv
  <2>2. registry'[n][y] = registry[n][y]
    BY <1>4, <1>12, <2>1
  <2>3. QED
    BY <1>2, <2>1, <2>2, SameWatch
<1>13. /\ Held[<<Mgr(c), Uri(c)>>] = {} /\ Held'[<<Mgr(c), Uri(c)>>] = {arg[c].sub}
       /\ <<Mgr(c), Uri(c)>> \notin StartedWatches /\ <<Mgr(c), Uri(c)>> \notin StartedWatches'
  <2>1. registry'[Mgr(c)][Uri(c)] = c /\ watcher'[c].subs = {arg[c].sub} /\ watcher'[c].ready = "wait"
    BY <1>2, <1>4, <1>5 DEF NewWatcher
  <2>2. QED
    BY <1>5, <2>1, HeldAt, HeldNext
<1>14. /\ Held'[<<Mgr(c), Uri(v)>>] = {}
       /\ <<Mgr(c), Uri(v)>> \in StartedWatches /\ <<Mgr(c), Uri(v)>> \notin StartedWatches'
  <2>1. registry'[Mgr(c)][Uri(v)] = None /\ v # None
    BY <1>4, <1>5, <1>6
  <2>2. QED
    BY <1>5, <1>6, <1>7, <2>1, HeldAt, HeldNext
<1>15. Held' = [Held EXCEPT ![<<Mgr(c), Uri(c)>>] = {arg[c].sub}, ![<<Mgr(c), Uri(v)>>] = {}]
  <2>1. PICK f \in [Managers \X URIs -> SUBSET Sessions] :
            f = [Held EXCEPT ![<<Mgr(c), Uri(c)>>] = {arg[c].sub}, ![<<Mgr(c), Uri(v)>>] = {}]
    BY <1>5, <1>6, HeldType
  <2>2. ASSUME NEW n \in Managers, NEW y \in URIs
        PROVE  Held'[<<n, y>>] = f[<<n, y>>]
    <3>1. f[<<n, y>>] = IF n = Mgr(c) /\ y = Uri(v) THEN {}
                        ELSE IF n = Mgr(c) /\ y = Uri(c) THEN {arg[c].sub} ELSE Held[<<n, y>>]
      BY <1>5, <1>6, <2>1, HeldType
    <3>2. QED
      BY <1>12, <1>13, <1>14, <1>6, <3>1
  <2>3. QED
    BY <2>1, <2>2, HeldBecomes
<1>16. StartedWatches' = StartedWatches \ {<<Mgr(c), Uri(v)>>}
  <2>1. ASSUME NEW n \in Managers, NEW y \in URIs
        PROVE  <<n, y>> \in StartedWatches' <=> <<n, y>> \in StartedWatches /\ <<n, y>> \notin {<<Mgr(c), Uri(v)>>}
    BY <1>12, <1>13, <1>14, <1>6
  <2>2. QED
    BY <2>1, StartedLose
<1>17. Table!JoinDisplacing(arg[c].sub, Uri(c), Uri(v))
  BY <1>3, <1>5, <1>7, <1>11, <1>13, <1>14, <1>15, <1>16 DEF Table!JoinDisplacing, Held, Due, Leaving
<1>18. QED
  BY <1>6, <1>17

(* The first read succeeded: a loop is launched. *)
LEMMA LaunchIsSeen ==
    ASSUME ManagerInv, NEW c \in Calls, Launch(c)
    PROVE  Mgr(c) \in Managers /\ Uri(c) \in URIs /\ Table!Start(<<Mgr(c), Uri(c)>>)
<1>1. /\ pc[c] = "read" /\ pc' = [pc EXCEPT ![c] = "ok"] /\ Registered(c)
      /\ watcher' = [watcher EXCEPT ![c].digest = answer[c].version, ![c].ready = "started",
                                    ![c].leaseAt = now + Lease, ![c].endsAt = now + MaxLifetime]
      /\ running' = [running EXCEPT ![Mgr(c)] = @ \cup {c}]
      /\ loop' = [loop EXCEPT ![c] = "sleep"]
      /\ UNCHANGED <<closed, registry, arg>>
  BY DEF Launch, Answers
<1>2. /\ pc \in [Calls -> CallPc] /\ watcher \in [Calls -> Watcher] /\ loop \in [Calls -> LoopPc]
      /\ running \in [Managers -> SUBSET Calls]
  BY DEF ManagerInv, GateInv, SlotTypes, DataTypes, LoopInv
<1>3. Mgr(c) \in Managers /\ Uri(c) \in URIs /\ registry[Mgr(c)][Uri(c)] = c /\ c # None
  BY <1>1, RegisteredAreHeld DEF ManagerInv
<1>4. watcher[c].subs # {} /\ watcher[c].ready = "wait"
  BY <1>1 DEF ManagerInv, WatcherInv, WatcherOK, Beginning
<1>5. /\ watcher'[c].subs = watcher[c].subs /\ watcher'[c].ready = "started"
      /\ \A w \in Calls : w # c => watcher'[w] = watcher[w]
  BY <1>1, <1>2 DEF Watcher
<1>6. Due' = Due /\ Leaving' = Leaving
  <2>1. \A w \in Calls : (Registered(w)' <=> Registered(w)) /\ Mgr(w)' = Mgr(w)
    BY <1>1, <1>2 DEF Registered, Mgr, Uri
  <2>2. ASSUME NEW w \in Calls
        PROVE  (w \in Unwinding' <=> w \in Unwinding) /\ (w \in Announcing' <=> w \in Announcing)
    <3>1. CASE w = c
      BY <1>1, <2>1, <3>1 DEF Unwinding, Announcing
    <3>2. CASE w # c
      <4>1. loop'[w] = loop[w] /\ watcher'[w] = watcher[w]
        BY <1>1, <1>2, <1>5, <3>2
      <4>2. Launched(w) => Mgr(w) \in Managers
        BY DEF Launched, ManagerInv, LoopInv, GateInv, ArgumentsKnown, Mgr
      <4>3. Launched(w) => (w \in running'[Mgr(w)] <=> w \in running[Mgr(w)])
        BY <1>1, <1>2, <3>2, <4>2
      <4>4. QED
        BY <2>1, <4>1, <4>3 DEF Unwinding, Announcing, Launched
    <3>3. QED
      BY <3>1, <3>2
  <2>3. QED
    BY <1>1, <2>2, SameKeys
<1>7. ASSUME NEW n \in Managers, NEW y \in URIs, ~(n = Mgr(c) /\ y = Uri(c))
      PROVE  /\ Held'[<<n, y>>] = Held[<<n, y>>]
             /\ <<n, y>> \in StartedWatches' <=> <<n, y>> \in StartedWatches
  <2>1. registry[n][y] # None => registry[n][y] \in Calls /\ registry[n][y] # c
    BY <1>7, RegistryHolds DEF ManagerInv
  <2>2. QED
    BY <1>1, <1>5, <2>1, SameWatch
<1>8. /\ Held'[<<Mgr(c), Uri(c)>>] = Held[<<Mgr(c), Uri(c)>>] /\ Held[<<Mgr(c), Uri(c)>>] # {}
      /\ <<Mgr(c), Uri(c)>> \notin StartedWatches /\ <<Mgr(c), Uri(c)>> \in StartedWatches'
  <2>1. Held[<<Mgr(c), Uri(c)>>] = watcher[c].subs /\ <<Mgr(c), Uri(c)>> \notin StartedWatches
    BY <1>3, <1>4, HeldAt
  <2>2. PICK m \in Managers, u \in URIs : m = Mgr(c) /\ u = Uri(c)
    BY <1>3
  <2>3. registry'[m][u] = c
    BY <1>1, <1>3, <2>2
  <2>4. Held'[<<m, u>>] = watcher'[c].subs /\ <<m, u>> \in StartedWatches'
    BY <1>3, <1>5, <2>3, HeldNext
  <2>5. QED
    BY <1>4, <1>5, <2>1, <2>2, <2>4
<1>9. Held' = Held
  BY <1>7, <1>8, HeldType, HeldBecomes
<1>10. StartedWatches' = StartedWatches \cup {<<Mgr(c), Uri(c)>>}
  <2>1. StartedWatches \cup {<<Mgr(c), Uri(c)>>} \in SUBSET (Managers \X URIs)
    BY <1>3, StartedAreWatches
  <2>2. \A n \in Managers, y \in URIs :
            <<n, y>> \in StartedWatches' <=> <<n, y>> \in StartedWatches \cup {<<Mgr(c), Uri(c)>>}
    BY <1>7, <1>8
  <2>3. QED
    BY <2>1, <2>2, StartedBecome
<1>11. QED
  BY <1>1, <1>3, <1>6, <1>8, <1>9, <1>10 DEF Table!Start, Held, Due, Leaving

(* The registered watcher w is dropped, with no change of any other watch. *)
LEMMA DropIsSeen ==
    ASSUME ManagerInv, NEW w \in Calls, Registered(w), Drop(Mgr(w), {w}),
           \A v \in Calls : v # w => watcher'[v] = watcher[v]
    PROVE  /\ Mgr(w) \in Managers /\ Uri(w) \in URIs
           /\ Held[<<Mgr(w), Uri(w)>>] = watcher[w].subs /\ watcher[w].subs # {}
           /\ <<Mgr(w), Uri(w)>> \in StartedWatches <=> watcher[w].ready = "started"
           /\ Held' = [Held EXCEPT ![<<Mgr(w), Uri(w)>>] = {}]
           /\ StartedWatches' = StartedWatches \ {<<Mgr(w), Uri(w)>>}
<1>1. registry \in [Managers -> [URIs -> Calls \cup {None}]]
  BY DEF ManagerInv, GateInv, SlotTypes
<1>2. Mgr(w) \in Managers /\ Uri(w) \in URIs /\ registry[Mgr(w)][Uri(w)] = w /\ w # None
  BY RegisteredAreHeld DEF ManagerInv
<1>3. watcher[w].subs # {}
  BY DEF ManagerInv, WatcherInv, WatcherOK
<1>4. ASSUME NEW n \in Managers, NEW y \in URIs
      PROVE  registry'[n][y] = IF n = Mgr(w) /\ registry[n][y] = w THEN None ELSE registry[n][y]
  BY <1>1, <1>2 DEF Drop
<1>5. ASSUME NEW n \in Managers, NEW y \in URIs, ~(n = Mgr(w) /\ y = Uri(w))
      PROVE  /\ Held'[<<n, y>>] = Held[<<n, y>>]
             /\ <<n, y>> \in StartedWatches' <=> <<n, y>> \in StartedWatches
  <2>1. registry[n][y] # None => registry[n][y] \in Calls /\ registry[n][y] # w
    BY <1>5, RegistryHolds DEF ManagerInv
  <2>2. registry'[n][y] = registry[n][y]
    BY <1>2, <1>4, <2>1
  <2>3. QED
    BY <2>1, <2>2, SameWatch
<1>6. /\ Held[<<Mgr(w), Uri(w)>>] = watcher[w].subs /\ Held'[<<Mgr(w), Uri(w)>>] = {}
      /\ <<Mgr(w), Uri(w)>> \in StartedWatches <=> watcher[w].ready = "started"
      /\ <<Mgr(w), Uri(w)>> \notin StartedWatches'
  BY <1>2, <1>4, HeldAt, HeldNext
<1>7. Held' = [Held EXCEPT ![<<Mgr(w), Uri(w)>>] = {}]
  BY <1>2, <1>5, <1>6, HeldUpdate
<1>8. StartedWatches' = StartedWatches \ {<<Mgr(w), Uri(w)>>}
  <2>1. ASSUME NEW n \in Managers, NEW y \in URIs
        PROVE  <<n, y>> \in StartedWatches' <=> <<n, y>> \in StartedWatches /\ <<n, y>> \notin {<<Mgr(w), Uri(w)>>}
    BY <1>5, <1>6
  <2>2. QED
    BY <2>1, StartedLose
<1>9. QED
  BY <1>2, <1>3, <1>6, <1>7, <1>8

(* A watcher nobody holds is dropped without effect. *)
LEMMA DropOfUnregistered ==
    ASSUME ManagerInv, NEW w \in Calls, pc[w] # "idle", ~Registered(w), Mgr(w) \in Managers, Drop(Mgr(w), {w})
    PROVE  registry' = registry
<1>1. registry \in [Managers -> [URIs -> Calls \cup {None}]]
  BY DEF ManagerInv, GateInv, SlotTypes
<1>2. ASSUME NEW y \in URIs
      PROVE  registry[Mgr(w)][y] # w
  <2>1. w # None
    OBVIOUS
  <2>2. QED
    BY <2>1, RegistryHolds DEF ManagerInv
<1>3. registry' = [registry EXCEPT ![Mgr(w)] = [y \in URIs |-> IF @[y] \in {w} THEN None ELSE @[y]]]
  BY DEF Drop
<1>4. [y \in URIs |-> IF registry[Mgr(w)][y] \in {w} THEN None ELSE registry[Mgr(w)][y]] = registry[Mgr(w)]
  BY <1>1, <1>2
<1>5. QED
  BY <1>1, <1>3, <1>4

(* The first read is judged: the watch ends before it has begun, or nobody
   held it any more.                                                        *)
LEMMA AbandonIsSeen ==
    ASSUME ManagerInv, NEW c \in Calls,
           AbandonFailed(c) \/ AbandonClosed(c) \/ AbandonWithdrawn(c)
    PROVE  \/ Mgr(c) \in Managers /\ Uri(c) \in URIs /\ Table!End(<<Mgr(c), Uri(c)>>)
           \/ UNCHANGED TableVars
<1>1. PICK reason \in {"failed", "closed", "withdrawn"}, reply \in {"failed", "closed", "ok"} :
        /\ pc[c] = "read" /\ pc' = [pc EXCEPT ![c] = reply] /\ Drop(Mgr(c), {c})
        /\ watcher' = [watcher EXCEPT ![c].ready = reason]
        /\ UNCHANGED <<closed, running, arg, loop>>
  BY DEF AbandonFailed, AbandonClosed, AbandonWithdrawn, Abandon, DropIfRegistered, Answers, loopVars
<1>2. pc \in [Calls -> CallPc] /\ watcher \in [Calls -> Watcher]
  BY DEF ManagerInv, GateInv, SlotTypes, DataTypes
<1>3. ~Launched(c) /\ watcher[c].ready = "wait" /\ Mgr(c) \in Managers
  BY <1>1 DEF ManagerInv, WatcherInv, WatcherOK, LoopInv, Launched, Beginning, GateInv, ArgumentsKnown, Mgr
<1>4. \A w \in Calls : w # c => watcher'[w] = watcher[w] /\ pc'[w] = pc[w]
  BY <1>1, <1>2
<1>5. ASSUME NEW w \in Calls, pc[w] # "idle"
      PROVE  Registered(w)' <=> Registered(w) /\ w # c
  <2>1. pc'[w] # "idle" /\ arg'[w] = arg[w]
    BY <1>1, <1>2, <1>5
  <2>2. QED
    BY <1>1, <1>3, <1>5, <2>1, DropUnregisters DEF ManagerInv
<1>6. CASE Registered(c)
  <2>1. /\ Uri(c) \in URIs /\ Held[<<Mgr(c), Uri(c)>>] # {} /\ <<Mgr(c), Uri(c)>> \notin StartedWatches
        /\ Held' = [Held EXCEPT ![<<Mgr(c), Uri(c)>>] = {}]
        /\ StartedWatches' = StartedWatches \ {<<Mgr(c), Uri(c)>>}
    BY <1>1, <1>3, <1>4, <1>6, DropIsSeen
  <2>2. Due' = Due /\ Leaving' = Leaving
    <3>1. ASSUME NEW w \in Calls, Launched(w)
          PROVE  (Registered(w)' <=> Registered(w)) /\ watcher'[w].evicted = watcher[w].evicted
      <4>1. w # c /\ pc[w] # "idle"
        BY <1>3, <3>1 DEF Launched, ManagerInv, LoopInv
      <4>2. QED
        BY <1>4, <1>5, <4>1
    <3>2. QED
      BY <1>1, <3>1, SameUnwinding
  <2>3. Due' = Due \cup (StartedWatches \cap {<<Mgr(c), Uri(c)>>})
    BY <2>1, <2>2
  <2>4. QED
    BY <1>1, <1>3, <2>1, <2>2, <2>3 DEF Table!End, Held, Due, Leaving
<1>7. CASE ~Registered(c)
  <2>1. registry' = registry
    BY <1>1, <1>3, <1>7, DropOfUnregistered
  <2>2. ASSUME NEW w \in Calls
        PROVE  /\ Registered(w)' <=> Registered(w)
               /\ Registered(w) => watcher'[w].subs = watcher[w].subs /\ watcher'[w].ready = watcher[w].ready
               /\ Launched(w)' <=> Launched(w)
               /\ Launched(w) => (watcher'[w].evicted <=> watcher[w].evicted)
    <3>1. Launched(w) => w # c
      BY <1>3
    <3>2. Registered(w)' <=> Registered(w)
      <4>1. CASE pc[w] = "idle"
        BY <1>1, <1>4, <4>1 DEF Registered
      <4>2. CASE pc[w] # "idle"
        BY <1>5, <1>7, <4>2
      <4>3. QED
        BY <4>1, <4>2
    <3>3. Registered(w) => w # c
      BY <1>7
    <3>4. QED
      BY <1>1, <1>4, <3>1, <3>2, <3>3 DEF Launched
  <2>3. Calm
    BY <1>1, <2>1, <2>2 DEF Calm
  <2>4. QED
    BY <2>3, CalmStutters
<1>8. QED
  BY <1>6, <1>7

-----------------------------------------------------------------------------
(* Watches given up by their subscribers, or closed: those with a loop go on
   their way out.                                                           *)
LEMMA DroppedUnwind ==
    ASSUME ManagerInv, WaitInv, NEW m \in Managers, NEW W \in SUBSET WatchersOf(m), Drop(m, W),
           UNCHANGED <<running, loop, arg>>,
           \A w \in Calls : pc[w] # "idle" => pc'[w] # "idle",
           \A w \in Calls : watcher'[w].evicted = watcher[w].evicted
    PROVE  Due' = Due /\ Leaving' = Leaving \cup KeysOf(Cancelable(W))
<1>1. \A w \in W : w \in Calls /\ Registered(w) /\ Mgr(w) = m
  BY HeldAreRegistered DEF ManagerInv
<1>2. \A w \in Calls : pc[w] # "idle" => (Registered(w)' <=> Registered(w) /\ w \notin W)
  <2>1. W \subseteq Calls
    BY <1>1
  <2>2. QED
    BY <1>1, <2>1, DropUnregisters DEF ManagerInv
<1>3. \A w \in Calls : Mgr(w)' = Mgr(w) /\ (Launched(w)' <=> Launched(w)) /\ (Launched(w) => pc[w] = "ok")
  BY DEF Mgr, Launched, ManagerInv, LoopInv
<1>4. ASSUME NEW w \in Calls, w \in W, Launched(w)
      PROVE  w \in running[Mgr(w)] /\ loop[w] # "announce" /\ ~watcher[w].evicted /\ w \notin Unwinding
  <2>1. Registered(w) /\ WatcherOK(w)
    BY <1>1, <1>4 DEF ManagerInv, WatcherInv
  <2>2. loop[w] \notin {"announce", "done"} /\ ~watcher[w].evicted
    BY <2>1 DEF WatcherOK
  <2>3. QED
    BY <1>4, <2>1, <2>2 DEF WaitInv, Looping, Launched, Unwinding
<1>5. \A w \in Calls : w \in Unwinding' <=> w \in Unwinding \/ w \in Cancelable(W)
  BY <1>1, <1>2, <1>3, <1>4 DEF Unwinding, Cancelable
<1>6. \A w \in Calls : w \in Announcing' <=> w \in Announcing
  BY <1>4, <1>5 DEF Announcing, Cancelable
<1>7. /\ Unwinding \subseteq Calls /\ Announcing \subseteq Unwinding
      /\ Unwinding' \subseteq Calls /\ Announcing' \subseteq Calls
      /\ Cancelable(W) \subseteq Calls /\ Cancelable(W) \cap Announcing = {}
  BY <1>1, <1>4 DEF Unwinding, Announcing, Cancelable
<1>8. PICK A \in SUBSET Calls, L \in SUBSET Calls :
        A = Announcing /\ L = (Unwinding \ Announcing) \cup Cancelable(W)
  BY <1>7
<1>9. Announcing' = A /\ Unwinding' \ Announcing' = L
  BY <1>5, <1>6, <1>7, <1>8
<1>10. \A w \in A \cup L : pc[w] # "idle"
  BY <1>1, <1>7, <1>8, UnwindingKnown DEF Registered, Cancelable
<1>11. Due' = KeysOf(A) /\ Leaving' = KeysOf(L)
  BY <1>9, <1>10, KeysAfter
<1>12. QED
  BY <1>8, <1>11, KeysOfBoth DEF Due, Leaving

(* Those with a loop are those whose first read succeeded. *)
LEMMA StartedAmong ==
    ASSUME ManagerInv, NEW m \in Managers, NEW W \in SUBSET WatchersOf(m)
    PROVE  KeysOf(Cancelable(W)) = StartedWatches \cap KeysOf(W)
<1>1. ASSUME NEW w \in W
      PROVE  Launched(w) <=> <<Mgr(w), Uri(w)>> \in StartedWatches
  <2>1. w \in Calls /\ Registered(w)
    BY HeldAreRegistered DEF ManagerInv
  <2>2. Mgr(w) \in Managers /\ Uri(w) \in URIs /\ registry[Mgr(w)][Uri(w)] = w /\ w # None
    BY <2>1, RegisteredAreHeld DEF ManagerInv
  <2>3. watcher[w].ready = "started" <=> Launched(w)
    BY <2>1 DEF ManagerInv, WatcherInv, WatcherOK
  <2>4. QED
    BY <2>2, <2>3, HeldAt
<1>2. QED
  BY <1>1 DEF KeysOf, Cancelable

(* A session lets go of the watches of U it holds, whether by Unsubscribe, by
   UnsubscribeAll or by a wait that expired: own are those, and last those it
   was alone to hold.                                                       *)
HoldsOf(s, U, own, last) ==
    /\ own = {w \in WatchersOf(ManagerOf[s]) : Uri(w) \in U /\ s \in watcher[w].subs}
    /\ last = {w \in own : watcher[w].subs = {s}}

LetsGo(s, own, last) ==
    /\ Drop(ManagerOf[s], last)
    /\ \A w \in Calls : /\ watcher'[w].subs = IF w \in own THEN watcher[w].subs \ {s} ELSE watcher[w].subs
                        /\ watcher'[w].ready = watcher[w].ready
                        /\ watcher'[w].evicted = watcher[w].evicted
    /\ UNCHANGED <<closed, running, loop, arg>>
    /\ \A w \in Calls : pc[w] # "idle" => pc'[w] # "idle"

LEMMA LeaveIsSeen ==
    ASSUME ManagerInv, WaitInv, NEW s \in Sessions, NEW U \in SUBSET URIs, NEW own, NEW last,
           HoldsOf(s, U, own, last), LetsGo(s, own, last)
    PROVE  Table!Leave(s, U)
<1>0. /\ own = {w \in WatchersOf(ManagerOf[s]) : Uri(w) \in U /\ s \in watcher[w].subs}
      /\ last = {w \in own : watcher[w].subs = {s}} /\ last \in SUBSET WatchersOf(ManagerOf[s])
  BY DEF HoldsOf
<1>1. PICK m \in Managers : m = ManagerOf[s]
  OBVIOUS
<1>2. PICK K \in SUBSET (Managers \X URIs), ended \in SUBSET (Managers \X URIs) :
        K = {k \in {m} \X U : s \in Held[k]} /\ ended = {k \in K : Held[k] = {s}}
  <2>1. PICK K \in SUBSET (Managers \X URIs) : K = {k \in {m} \X U : s \in Held[k]}
    <3>1. {k \in {m} \X U : s \in Held[k]} \subseteq Managers \X URIs
      OBVIOUS
    <3>2. QED
      BY <3>1
  <2>2. {k \in K : Held[k] = {s}} \in SUBSET (Managers \X URIs)
    BY <2>1
  <2>3. QED
    BY <2>1, <2>2
<1>3. registry \in [Managers -> [URIs -> Calls \cup {None}]]
  BY DEF ManagerInv, GateInv, SlotTypes
<1>4. \A n \in Managers, y \in URIs :
        registry'[n][y] = IF n = m /\ registry[n][y] \in last THEN None ELSE registry[n][y]
  BY <1>1, <1>3 DEF LetsGo, Drop
<1>5. ASSUME NEW n \in Managers, NEW y \in URIs
      PROVE  /\ <<n, y>> \in K <=> registry[n][y] \in own
             /\ <<n, y>> \in ended <=> registry[n][y] \in last
  <2>1. CASE registry[n][y] = None
    <3>1. Held[<<n, y>>] = {}
      BY <2>1, HeldAt
    <3>2. None \notin WatchersOf(m)
      BY HeldAreRegistered DEF ManagerInv
    <3>3. QED
      BY <1>0, <1>1, <1>2, <2>1, <3>1, <3>2
  <2>2. CASE registry[n][y] # None
    <3>1. PICK w \in Calls : w = registry[n][y] /\ Registered(w) /\ Mgr(w) = n /\ Uri(w) = y
      BY <2>2, RegistryHolds DEF ManagerInv
    <3>2. Held[<<n, y>>] = watcher[w].subs
      BY <2>2, <3>1, HeldAt
    <3>3. w \in WatchersOf(m) <=> n = m
      BY <3>1, HeldAreRegistered, RegisteredAreHeld DEF ManagerInv
    <3>4. QED
      BY <1>0, <1>1, <1>2, <3>1, <3>2, <3>3
  <2>3. QED
    BY <2>1, <2>2
<1>6. PICK f \in [Managers \X URIs -> SUBSET Sessions] :
        f = [k \in Managers \X URIs |-> IF k \in K THEN Held[k] \ {s} ELSE Held[k]]
  BY HeldType
<1>7. ASSUME NEW n \in Managers, NEW y \in URIs
      PROVE  /\ Held'[<<n, y>>] = f[<<n, y>>]
             /\ <<n, y>> \in StartedWatches' <=> <<n, y>> \in StartedWatches /\ <<n, y>> \notin ended
  <2>0. f[<<n, y>>] = IF <<n, y>> \in K THEN Held[<<n, y>>] \ {s} ELSE Held[<<n, y>>]
    BY <1>6
  <2>1. CASE registry[n][y] = None
    <3>1. registry'[n][y] = None
      BY <1>4, <2>1
    <3>2. Held[<<n, y>>] = {} /\ Held'[<<n, y>>] = {}
      BY <2>1, <3>1, HeldAt, HeldNext
    <3>3. <<n, y>> \notin StartedWatches /\ <<n, y>> \notin StartedWatches'
      BY <2>1, <3>1, HeldAt, HeldNext
    <3>4. QED
      BY <2>0, <3>2, <3>3
  <2>2. CASE registry[n][y] # None
    <3>1. PICK w \in Calls : w = registry[n][y] /\ w # None /\ Mgr(w) = n
      BY <2>2, RegistryHolds DEF ManagerInv
    <3>2. w \in last => w \in own /\ watcher[w].subs = {s} /\ n = m
      BY <1>0, <1>1, <3>1, HeldAreRegistered DEF ManagerInv
    <3>3. registry'[n][y] = IF w \in last THEN None ELSE w
      BY <1>4, <3>1, <3>2
    <3>4. Held[<<n, y>>] = watcher[w].subs /\ (<<n, y>> \in StartedWatches <=> watcher[w].ready = "started")
      BY <3>1, HeldAt
    <3>5. /\ Held'[<<n, y>>] = IF w \in last THEN {} ELSE watcher'[w].subs
          /\ <<n, y>> \in StartedWatches' <=> w \notin last /\ watcher'[w].ready = "started"
      BY <3>1, <3>3, HeldNext
    <3>6. /\ <<n, y>> \in K <=> w \in own
          /\ <<n, y>> \in ended <=> w \in last
      BY <1>5, <3>1
    <3>7. f[<<n, y>>] = IF w \in own THEN watcher[w].subs \ {s} ELSE watcher[w].subs
      BY <2>0, <3>4, <3>6
    <3>8. w \in last => watcher[w].subs \ {s} = {}
      BY <3>2
    <3>9. /\ watcher'[w].subs = IF w \in own THEN watcher[w].subs \ {s} ELSE watcher[w].subs
          /\ watcher'[w].ready = watcher[w].ready
      BY DEF LetsGo
    <3>10. Held'[<<n, y>>] = f[<<n, y>>]
      BY <3>2, <3>5, <3>7, <3>8, <3>9
    <3>11. <<n, y>> \in StartedWatches' <=> <<n, y>> \in StartedWatches /\ <<n, y>> \notin ended
      BY <3>4, <3>5, <3>6, <3>9
    <3>12. QED
      BY <3>10, <3>11
  <2>3. QED
    BY <2>1, <2>2
<1>8. Held' = f
  BY <1>7, HeldBecomes
<1>9. StartedWatches' = StartedWatches \ ended
  BY <1>7, StartedLose
<1>10. Due' = Due /\ Leaving' = Leaving \cup KeysOf(Cancelable(last))
  <2>1. last \in SUBSET WatchersOf(m)
    BY <1>0, <1>1
  <2>2. QED
    BY <1>1, <2>1, DroppedUnwind DEF LetsGo
<1>11. KeysOf(Cancelable(last)) = StartedWatches \cap ended
  <2>1. KeysOf(Cancelable(last)) = StartedWatches \cap KeysOf(last)
    <3>1. last \in SUBSET WatchersOf(m)
      BY <1>0, <1>1
    <3>2. QED
      BY <3>1, StartedAmong
  <2>2. KeysOf(last) = ended
    <3>1. ASSUME NEW w \in last
          PROVE  <<Mgr(w), Uri(w)>> \in ended
      <4>1. w \in Calls /\ Registered(w)
        BY <1>0, <1>1, HeldAreRegistered DEF ManagerInv
      <4>2. Mgr(w) \in Managers /\ Uri(w) \in URIs /\ registry[Mgr(w)][Uri(w)] = w
        BY <4>1, RegisteredAreHeld DEF ManagerInv
      <4>3. QED
        BY <1>5, <4>2
    <3>2. ASSUME NEW k \in ended
          PROVE  k \in KeysOf(last)
      <4>1. PICK n \in Managers, y \in URIs : k = <<n, y>>
        BY <1>2
      <4>2. registry[n][y] \in last
        BY <1>5, <4>1
      <4>3. registry[n][y] # None
        BY <1>0, <1>1, <4>2, HeldAreRegistered DEF ManagerInv
      <4>4. Mgr(registry[n][y]) = n /\ Uri(registry[n][y]) = y
        BY <4>3, RegistryHolds DEF ManagerInv
      <4>5. QED
        BY <4>1, <4>2, <4>4 DEF KeysOf
    <3>3. KeysOf(last) \subseteq ended
      BY <3>1 DEF KeysOf
    <3>4. QED
      BY <3>2, <3>3
  <2>3. QED
    BY <2>1, <2>2
<1>12. Held' = [k \in Managers \X URIs |-> IF k \in K THEN Held[k] \ {s} ELSE Held[k]]
  BY <1>6, <1>8
<1>13. LET gone == {k \in {ManagerOf[s]} \X U : s \in Held[k]}
           over == {k \in gone : Held[k] = {s}}
       IN  /\ Held' = [k \in Managers \X URIs |-> IF k \in gone THEN Held[k] \ {s} ELSE Held[k]]
           /\ StartedWatches' = StartedWatches \ over
           /\ Leaving' = Leaving \cup (StartedWatches \cap over)
           /\ UNCHANGED <<closed, Due>>
  <2>1. K = {k \in {ManagerOf[s]} \X U : s \in Held[k]} /\ ended = {k \in K : Held[k] = {s}}
    BY <1>1, <1>2
  <2>2. Leaving' = Leaving \cup (StartedWatches \cap ended) /\ UNCHANGED <<closed, Due>>
    BY <1>10, <1>11 DEF LetsGo
  <2>3. QED
    BY <1>9, <1>12, <2>1, <2>2
<1>14. QED
  BY <1>13 DEF Table!Leave, Table!Watches, Held, Due, Leaving

LEMMA LeavesIsSeen ==
    ASSUME ManagerInv, WaitInv, NEW s \in Sessions, NEW u \in URIs, Leaves(s, u),
           registry[ManagerOf[s]][u] # None, s \in watcher[registry[ManagerOf[s]][u]].subs,
           UNCHANGED <<closed, running, loop, arg>>,
           \A w \in Calls : pc[w] # "idle" => pc'[w] # "idle"
    PROVE  Table!Leave(s, {u})
<1>1. PICK m \in Managers : m = ManagerOf[s]
  OBVIOUS
<1>2. PICK v \in Calls : v = registry[m][u] /\ Registered(v) /\ Mgr(v) = m /\ Uri(v) = u
  BY <1>1, RegistryHolds DEF ManagerInv
<1>3. watcher \in [Calls -> Watcher] /\ watcher[v] \in Watcher
  BY DEF ManagerInv, DataTypes
<1>4. v \in WatchersOf(m)
  BY <1>2, RegisteredAreHeld DEF ManagerInv
<1>5. ASSUME NEW w \in WatchersOf(m), Uri(w) \in {u}
      PROVE  w = v
  <2>1. w \in Calls /\ Registered(w) /\ Mgr(w) = m
    BY <1>5, HeldAreRegistered DEF ManagerInv
  <2>2. registry[Mgr(w)][Uri(w)] = w
    BY <2>1, RegisteredAreHeld DEF ManagerInv
  <2>3. QED
    BY <1>2, <1>5, <2>1, <2>2
<1>6. PICK own \in SUBSET WatchersOf(m) : own = {v}
  BY <1>4
<1>7. own = {w \in WatchersOf(m) : Uri(w) \in {u} /\ s \in watcher[w].subs}
  BY <1>1, <1>2, <1>4, <1>5, <1>6
<1>8. PICK last \in SUBSET WatchersOf(m) : last = {w \in own : watcher[w].subs = {s}}
  BY <1>6
<1>9. watcher' = [watcher EXCEPT ![v].subs = @ \ {s}]
  BY <1>1, <1>2 DEF Leaves
<1>10. /\ watcher'[v].subs = watcher[v].subs \ {s} /\ watcher'[v].ready = watcher[v].ready
       /\ watcher'[v].evicted = watcher[v].evicted
       /\ \A w \in Calls : w # v => watcher'[w] = watcher[w]
  BY <1>3, <1>9 DEF Watcher
<1>11. Drop(m, last)
  <2>1. CASE watcher[v].subs = {s}
    <3>1. last = {v}
      BY <1>6, <1>8, <2>1
    <3>2. Drop(m, {v})
      BY <1>1, <1>2, <2>1 DEF Leaves
    <3>3. QED
      BY <3>1, <3>2
  <2>2. CASE watcher[v].subs # {s}
    <3>1. UNCHANGED <<registry, held>>
      BY <1>1, <1>2, <2>2 DEF Leaves
    <3>2. last = {}
      BY <1>6, <1>8, <2>2
    <3>3. Drop(m, {})
      BY <3>1, DropOfNobody DEF ManagerInv
    <3>4. QED
      BY <3>2, <3>3
  <2>3. QED
    BY <2>1, <2>2
<1>12. \A w \in Calls : /\ watcher'[w].subs = IF w \in own THEN watcher[w].subs \ {s} ELSE watcher[w].subs
                        /\ watcher'[w].ready = watcher[w].ready
                        /\ watcher'[w].evicted = watcher[w].evicted
  BY <1>6, <1>10
<1>13. {u} \in SUBSET URIs
  OBVIOUS
<1>14. HoldsOf(s, {u}, own, last)
  BY <1>1, <1>7, <1>8 DEF HoldsOf
<1>15. LetsGo(s, own, last)
  BY <1>1, <1>11, <1>12 DEF LetsGo
<1>16. QED
  BY <1>13, <1>14, <1>15, LeaveIsSeen

LEMMA UnsubscribeAllIsSeen ==
    ASSUME ManagerInv, WaitInv, NEW s \in Sessions, UnsubscribeAll(s)
    PROVE  Table!Leave(s, URIs)
<1>1. PICK m \in Managers : m = ManagerOf[s]
  OBVIOUS
<1>2. watcher \in [Calls -> Watcher]
  BY DEF ManagerInv, DataTypes
<1>3. PICK own \in SUBSET WatchersOf(m), last \in SUBSET WatchersOf(m) :
        /\ own = {w \in WatchersOf(m) : s \in watcher[w].subs}
        /\ last = {w \in own : watcher[w].subs = {s}}
        /\ watcher' = [w \in Calls |->
                IF w \in own THEN [watcher[w] EXCEPT !.subs = @ \ {s}] ELSE watcher[w]]
        /\ Drop(m, last)
  BY <1>1 DEF UnsubscribeAll
<1>4. own = {w \in WatchersOf(m) : Uri(w) \in URIs /\ s \in watcher[w].subs}
  <2>1. \A w \in WatchersOf(m) : Uri(w) \in URIs
    BY HeldAreRegistered, RegisteredAreHeld DEF ManagerInv
  <2>2. QED
    BY <1>3, <2>1
<1>5. ASSUME NEW w \in Calls
      PROVE  /\ watcher'[w].subs = IF w \in own THEN watcher[w].subs \ {s} ELSE watcher[w].subs
             /\ watcher'[w].ready = watcher[w].ready /\ watcher'[w].evicted = watcher[w].evicted
  <2>1. watcher'[w] = IF w \in own THEN [watcher[w] EXCEPT !.subs = @ \ {s}] ELSE watcher[w]
    BY <1>3
  <2>2. watcher[w] \in Watcher
    BY <1>2
  <2>3. QED
    BY <2>1, <2>2 DEF Watcher
<1>6. UNCHANGED <<closed, running, loop, pc, arg>>
  BY DEF UnsubscribeAll, callVars, loopVars
<1>7. URIs \in SUBSET URIs
  OBVIOUS
<1>8. HoldsOf(s, URIs, own, last)
  BY <1>1, <1>3, <1>4 DEF HoldsOf
<1>9. LetsGo(s, own, last)
  <2>1. Drop(ManagerOf[s], last)
    BY <1>1, <1>3
  <2>2. QED
    BY <1>5, <1>6, <2>1 DEF LetsGo
<1>10. QED
  BY <1>7, <1>8, <1>9, LeaveIsSeen

LEMMA CloseIsSeen ==
    ASSUME ManagerInv, WaitInv, NEW m \in Managers, Close(m)
    PROVE  Table!Close(m)
<1>1. /\ closed[m] = "open" /\ closed' = [closed EXCEPT ![m] = "closing"]
      /\ Drop(m, WatchersOf(m)) /\ UNCHANGED <<running, pc, arg, loop, watcher>>
  BY DEF Close, callVars, loopVars
<1>2. registry \in [Managers -> [URIs -> Calls \cup {None}]]
  BY DEF ManagerInv, GateInv, SlotTypes
<1>3. ASSUME NEW n \in Managers, NEW y \in URIs
      PROVE  registry'[n][y] = IF n = m THEN None ELSE registry[n][y]
  <2>1. registry'[n][y] = IF n = m /\ registry[n][y] \in WatchersOf(m) THEN None ELSE registry[n][y]
    BY <1>1, <1>2 DEF Drop
  <2>2. registry[m][y] # None => registry[m][y] \in WatchersOf(m)
    BY DEF WatchersOf, WatchedURIs
  <2>3. QED
    BY <2>1, <2>2
<1>4. PICK K \in SUBSET (Managers \X URIs) : K = {m} \X URIs
  OBVIOUS
<1>5. PICK f \in [Managers \X URIs -> SUBSET Sessions] :
        f = [k \in Managers \X URIs |-> IF k \in K THEN {} ELSE Held[k]]
  BY HeldType
<1>6. ASSUME NEW n \in Managers, NEW y \in URIs
      PROVE  /\ Held'[<<n, y>>] = f[<<n, y>>]
             /\ <<n, y>> \in StartedWatches' <=> <<n, y>> \in StartedWatches /\ <<n, y>> \notin K
  <2>1. f[<<n, y>>] = IF n = m THEN {} ELSE Held[<<n, y>>]
    BY <1>4, <1>5
  <2>2. <<n, y>> \in K <=> n = m
    BY <1>4
  <2>3. CASE n = m
    <3>1. registry'[n][y] = None
      BY <1>3, <2>3
    <3>2. QED
      BY <2>1, <2>2, <2>3, <3>1, HeldNext
  <2>4. CASE n # m
    <3>1. registry'[n][y] = registry[n][y]
      BY <1>3, <2>4
    <3>2. QED
      BY <1>1, <2>1, <2>2, <2>4, <3>1, SameWatch
  <2>5. QED
    BY <2>3, <2>4
<1>7. Held' = f
  BY <1>6, HeldBecomes
<1>8. StartedWatches' = StartedWatches \ K
  BY <1>6, StartedLose
<1>9. Due' = Due /\ Leaving' = Leaving \cup KeysOf(Cancelable(WatchersOf(m)))
  <2>1. WatchersOf(m) \in SUBSET WatchersOf(m)
    OBVIOUS
  <2>2. QED
    BY <1>1, <2>1, DroppedUnwind
<1>10. KeysOf(Cancelable(WatchersOf(m))) = StartedWatches \cap K
  <2>1. WatchersOf(m) \in SUBSET WatchersOf(m)
    OBVIOUS
  <2>2. KeysOf(Cancelable(WatchersOf(m))) = StartedWatches \cap KeysOf(WatchersOf(m))
    BY <2>1, StartedAmong
  <2>3. KeysOf(WatchersOf(m)) \subseteq K
    <3>1. \A w \in WatchersOf(m) : Mgr(w) = m /\ Uri(w) \in URIs
      BY HeldAreRegistered, RegisteredAreHeld DEF ManagerInv
    <3>2. QED
      BY <1>4, <3>1 DEF KeysOf
  <2>4. ASSUME NEW k \in StartedWatches, k \in K
        PROVE  k \in KeysOf(WatchersOf(m))
    <3>1. PICK y \in URIs : k = <<m, y>>
      BY <1>4, <2>4
    <3>2. registry[m][y] # None
      BY <2>4, <3>1, HeldAt
    <3>3. /\ registry[m][y] \in WatchersOf(m)
          /\ Mgr(registry[m][y]) = m /\ Uri(registry[m][y]) = y
      BY <3>2, RegistryHolds DEF ManagerInv, WatchersOf, WatchedURIs
    <3>4. QED
      BY <3>1, <3>3 DEF KeysOf
  <2>5. QED
    BY <2>2, <2>3, <2>4
<1>11. LET gone == {m} \X URIs
       IN  /\ Held' = [k \in Managers \X URIs |-> IF k \in gone THEN {} ELSE Held[k]]
           /\ StartedWatches' = StartedWatches \ gone
           /\ Leaving' = Leaving \cup (StartedWatches \cap gone)
           /\ UNCHANGED Due
  <2>1. Held' = [k \in Managers \X URIs |-> IF k \in K THEN {} ELSE Held[k]]
    BY <1>5, <1>7
  <2>2. StartedWatches' = StartedWatches \ K /\ Leaving' = Leaving \cup (StartedWatches \cap K) /\ UNCHANGED Due
    BY <1>8, <1>9, <1>10
  <2>3. QED
    BY <1>4, <2>1, <2>2
<1>12. QED
  BY <1>1, <1>11 DEF Table!Close, Table!Watches, Held, Due, Leaving

-----------------------------------------------------------------------------
(* The end of a loop. *)

(* What the other watchers see of it. *)
LEMMA EndsElsewhere ==
    ASSUME ManagerInv, NEW v \in Calls, Retire(v) \/ Announce(v)
    PROVE  /\ UNCHANGED <<closed, pc, arg>>
           /\ \A w \in Calls : /\ watcher'[w].subs = watcher[w].subs /\ watcher'[w].ready = watcher[w].ready
                               /\ watcher'[w].evicted = watcher[w].evicted /\ Mgr(w)' = Mgr(w)
           /\ \A w \in Calls : w # v => /\ w \in Unwinding' <=> w \in Unwinding
                                        /\ w \in Announcing' <=> w \in Announcing
<1>1. /\ watcher \in [Calls -> Watcher] /\ loop \in [Calls -> LoopPc] /\ running \in [Managers -> SUBSET Calls]
  BY DEF ManagerInv, DataTypes, LoopInv
<1>2. UNCHANGED <<closed, pc, arg>>
  BY DEF Retire, Announce, callVars
<1>3. ASSUME NEW w \in Calls
      PROVE  /\ watcher'[w].subs = watcher[w].subs /\ watcher'[w].ready = watcher[w].ready
             /\ watcher'[w].evicted = watcher[w].evicted
  BY <1>1 DEF Retire, Announce, GoroutineEnds, Watcher
<1>4. \A w \in Calls : Mgr(w)' = Mgr(w)
  BY <1>2 DEF Mgr
<1>5. Launched(v) /\ Mgr(v) \in Managers
  BY DEF Retire, Announce, Step, Launched, ManagerInv, LoopInv, GateInv, ArgumentsKnown, Mgr
<1>6. \A w \in Calls : w # v => loop'[w] = loop[w]
  BY <1>1 DEF Retire, Announce, Step
<1>7. ASSUME NEW w \in Calls, w # v, Launched(w)
      PROVE  w \in running'[Mgr(w)] <=> w \in running[Mgr(w)]
  <2>1. Mgr(w) \in Managers
    BY <1>7 DEF Launched, ManagerInv, LoopInv, GateInv, ArgumentsKnown, Mgr
  <2>2. running' = running \/ running' = [running EXCEPT ![Mgr(v)] = @ \ {v}]
    BY DEF Retire, Announce, GoroutineEnds
  <2>3. QED
    BY <1>1, <1>5, <1>7, <2>1, <2>2
<1>8. \A w \in Calls : w # v => (Registered(w)' <=> Registered(w))
  BY EndsKeepWatcher
<1>9. \A w \in Calls : w # v => /\ w \in Unwinding' <=> w \in Unwinding
                                /\ w \in Announcing' <=> w \in Announcing
  BY <1>3, <1>4, <1>6, <1>7, <1>8 DEF Unwinding, Announcing, Launched
<1>10. QED
  BY <1>2, <1>3, <1>4, <1>9

(* The registry left alone, the end of a loop changes no watch. *)
LEMMA EndsUnheld ==
    ASSUME ManagerInv, NEW v \in Calls, Retire(v) \/ Announce(v), registry' = registry
    PROVE  Held' = Held /\ StartedWatches' = StartedWatches
<1>1. ASSUME NEW n \in Managers, NEW y \in URIs
      PROVE  /\ Held'[<<n, y>>] = Held[<<n, y>>]
             /\ <<n, y>> \in StartedWatches' <=> <<n, y>> \in StartedWatches
  <2>1. registry[n][y] # None => registry[n][y] \in Calls
    BY RegistryHolds DEF ManagerInv
  <2>2. QED
    BY <2>1, EndsElsewhere, SameWatch
<1>2. Held' = Held
  BY <1>1, HeldType, HeldBecomes
<1>3. StartedWatches' = StartedWatches
  BY <1>1, StartedAreWatches, StartedBecome
<1>4. QED
  BY <1>2, <1>3

(* The watcher w is the only one that starts, ends or changes its way out. *)
LEMMA OneUnwinds ==
    ASSUME ManagerInv, NEW v \in Calls, Retire(v) \/ Announce(v)
    PROVE  /\ v \notin Unwinding /\ v \in Announcing' =>
                Due' = Due \cup {KeyOf(v)} /\ Leaving' = Leaving
           /\ v \in Announcing /\ v \in Announcing' => Due' = Due /\ Leaving' = Leaving
           /\ v \in Announcing /\ v \notin Unwinding' =>
                KeyOf(v) \in Due /\ Due' \in Table!Less(Due, KeyOf(v)) /\ Leaving' = Leaving
           /\ v \in Unwinding \ Announcing /\ v \in Announcing' =>
                /\ KeyOf(v) \in Leaving
                /\ Due' = Due \cup {KeyOf(v)} /\ Leaving' \in Table!Less(Leaving, KeyOf(v))
           /\ v \in Unwinding \ Announcing /\ v \notin Unwinding' =>
                KeyOf(v) \in Leaving /\ Due' = Due /\ Leaving' \in Table!Less(Leaving, KeyOf(v))
<1>1. /\ UNCHANGED <<closed, pc, arg>>
      /\ \A w \in Calls : w # v => /\ w \in Unwinding' <=> w \in Unwinding
                                   /\ w \in Announcing' <=> w \in Announcing
  BY EndsElsewhere
<1>2. /\ Unwinding \subseteq Calls /\ Announcing \subseteq Unwinding
      /\ Unwinding' \subseteq Calls /\ Announcing' \subseteq Unwinding'
  BY DEF Unwinding, Announcing
<1>3. pc[v] # "idle" /\ \A w \in Unwinding : pc[w] # "idle"
  BY UnwindingKnown DEF Retire, Announce, Step, ManagerInv, LoopInv
<1>4. ASSUME NEW A \in SUBSET (Unwinding \cup {v}), NEW L \in SUBSET (Unwinding \cup {v}),
             Announcing' = A, Unwinding' \ Announcing' = L
      PROVE  Due' = KeysOf(A) /\ Leaving' = KeysOf(L)
  BY <1>1, <1>2, <1>3, <1>4, KeysAfter
<1>5. CASE v \notin Unwinding /\ v \in Announcing'
  <2>1. Announcing' = Announcing \cup {v} /\ Unwinding' \ Announcing' = Unwinding \ Announcing
    BY <1>1, <1>2, <1>5
  <2>2. Due' = KeysOf(Announcing \cup {v}) /\ Leaving' = KeysOf(Unwinding \ Announcing)
    BY <1>2, <1>4, <2>1
  <2>3. QED
    BY <1>2, <1>5, <2>2, KeyAdded DEF Due, Leaving
<1>6. CASE v \in Announcing /\ v \in Announcing'
  <2>1. Announcing' = Announcing /\ Unwinding' \ Announcing' = Unwinding \ Announcing
    BY <1>1, <1>2, <1>6
  <2>2. Due' = KeysOf(Announcing) /\ Leaving' = KeysOf(Unwinding \ Announcing)
    BY <1>2, <1>4, <2>1
  <2>3. QED
    BY <1>2, <1>6, <2>2 DEF Due, Leaving
<1>7. CASE v \in Announcing /\ v \notin Unwinding'
  <2>1. Announcing' = Announcing \ {v} /\ Unwinding' \ Announcing' = Unwinding \ Announcing
    BY <1>1, <1>2, <1>7
  <2>2. Due' = KeysOf(Announcing \ {v}) /\ Leaving' = KeysOf(Unwinding \ Announcing)
    BY <1>2, <1>4, <2>1
  <2>3. QED
    BY <1>2, <1>7, <2>2, KeyRemoved DEF Due, Leaving
<1>8. CASE v \in Unwinding \ Announcing /\ v \in Announcing'
  <2>1. Announcing' = Announcing \cup {v} /\ Unwinding' \ Announcing' = (Unwinding \ Announcing) \ {v}
    BY <1>1, <1>2, <1>8
  <2>2. Due' = KeysOf(Announcing \cup {v}) /\ Leaving' = KeysOf((Unwinding \ Announcing) \ {v})
    BY <1>2, <1>4, <2>1
  <2>3. QED
    BY <1>2, <1>8, <2>2, KeyAdded, KeyRemoved DEF Due, Leaving
<1>9. CASE v \in Unwinding \ Announcing /\ v \notin Unwinding'
  <2>1. Announcing' = Announcing /\ Unwinding' \ Announcing' = (Unwinding \ Announcing) \ {v}
    BY <1>1, <1>2, <1>9
  <2>2. Due' = KeysOf(Announcing) /\ Leaving' = KeysOf((Unwinding \ Announcing) \ {v})
    BY <1>2, <1>4, <2>1
  <2>3. QED
    BY <1>2, <1>9, <2>2, KeyRemoved DEF Due, Leaving
<1>10. QED
  BY <1>2, <1>5, <1>6, <1>7, <1>8, <1>9

(* Retire announces an ending, or tells nobody of one nobody is there to hear.
   It is never silent about a watch somebody still holds.                     *)
LEMMA RetireIsSeen ==
    ASSUME ManagerInv, WaitInv, NEW v \in Calls, Retire(v)
    PROVE  /\ Mgr(v) \in Managers /\ Uri(v) \in URIs
           /\ \/ Table!End(KeyOf(v)) \/ Table!EndUnheld(KeyOf(v)) \/ Table!EndSilently(KeyOf(v))
              \/ UNCHANGED TableVars
<1>1. loop[v] = "retire" /\ Launched(v) /\ Looping(v)
  BY DEF Retire, Step, Launched, Looping
<1>2. /\ loop \in [Calls -> LoopPc] /\ running \in [Managers -> SUBSET Calls]
      /\ watcher[v] \in Watcher /\ WatcherOK(v) /\ pc[v] = "ok"
  BY <1>1 DEF ManagerInv, DataTypes, LoopInv, WatcherInv
<1>3. Mgr(v) \in Managers /\ Uri(v) \in URIs
  BY <1>2 DEF ManagerInv, GateInv, ArgumentsKnown, Mgr, Uri
<1>4. v \in running[Mgr(v)]
  BY <1>1 DEF WaitInv
<1>5. /\ UNCHANGED <<closed, pc, arg>> /\ watcher'[v].evicted = watcher[v].evicted /\ Mgr(v)' = Mgr(v)
      /\ \A w \in Calls : watcher'[w].subs = watcher[w].subs /\ watcher'[w].ready = watcher[w].ready
  BY EndsElsewhere
<1>6. Drop(Mgr(v), {v})
  BY DEF Retire, DropIfRegistered
<1>7. ~Registered(v)'
  BY <1>2, <1>3, <1>5, <1>6, DropUnregisters DEF ManagerInv
<1>8. StopReason(v) # "silent" => loop'[v] = "announce" /\ UNCHANGED <<running, watcher>>
  BY <1>2 DEF Retire, Step
<1>9. StopReason(v) = "silent" => loop'[v] = "done" /\ v \notin running'[Mgr(v)] /\ ~watcher[v].evicted
  BY <1>2, <1>3 DEF Retire, Step, GoroutineEnds, StopReason
<1>10. StopReason(v) # "silent" => v \in Unwinding' /\ v \in Announcing'
  BY <1>4, <1>5, <1>7, <1>8 DEF Unwinding, Announcing, Launched
<1>11. StopReason(v) = "silent" => v \notin Unwinding'
  BY <1>5, <1>9 DEF Unwinding
<1>12. CASE Registered(v)
  <2>1. watcher[v].ctx = "deadline" \/ answer[v].kind = "inaccessible"
    BY <1>1, <1>2, <1>12 DEF WatcherOK, Watcher
  <2>2. StopReason(v) # "silent"
    BY <2>1 DEF StopReason
  <2>3. watcher[v].ready = "started"
    BY <1>1, <1>2 DEF WatcherOK
  <2>4. watcher' = watcher
    BY <1>8, <2>2
  <2>5. /\ Held[<<Mgr(v), Uri(v)>>] # {} /\ <<Mgr(v), Uri(v)>> \in StartedWatches
        /\ Held' = [Held EXCEPT ![<<Mgr(v), Uri(v)>>] = {}]
        /\ StartedWatches' = StartedWatches \ {<<Mgr(v), Uri(v)>>}
    BY <1>6, <1>12, <2>3, <2>4, DropIsSeen
  <2>6. v \notin Unwinding
    BY <1>12 DEF Unwinding
  <2>7. Due' = Due \cup {KeyOf(v)} /\ Leaving' = Leaving
    BY <1>10, <2>2, <2>6, OneUnwinds
  <2>8. Due' = Due \cup (StartedWatches \cap {KeyOf(v)})
    BY <2>5, <2>7 DEF KeyOf
  <2>9. Table!End(KeyOf(v))
    BY <1>5, <2>5, <2>7, <2>8 DEF Table!End, Held, Due, Leaving, KeyOf
  <2>10. QED
    BY <1>3, <2>9
<1>13. CASE ~Registered(v)
  <2>1. v \in Unwinding
    BY <1>1, <1>4, <1>13 DEF Unwinding
  <2>2. registry' = registry
    BY <1>2, <1>3, <1>6, <1>13, DropOfUnregistered
  <2>3. Held' = Held /\ StartedWatches' = StartedWatches
    BY <2>2, EndsUnheld
  <2>4. CASE StopReason(v) = "silent"
    <3>1. v \in Unwinding \ Announcing /\ v \notin Unwinding'
      BY <1>1, <1>9, <1>11, <2>1, <2>4 DEF Announcing
    <3>2. KeyOf(v) \in Leaving /\ Due' = Due /\ Leaving' \in {Leaving, Leaving \ {KeyOf(v)}}
      BY <3>1, OneUnwinds DEF Table!Less
    <3>3. CASE Leaving' = Leaving
      BY <1>3, <1>5, <2>3, <3>2, <3>3 DEF TableVars
    <3>4. CASE Leaving' = Leaving \ {KeyOf(v)}
      <4>1. Table!EndSilently(KeyOf(v))
        BY <1>5, <2>3, <3>2, <3>4 DEF Table!EndSilently, Held, Due, Leaving
      <4>2. QED
        BY <1>3, <4>1
    <3>5. QED
      BY <1>3, <3>2, <3>3, <3>4
  <2>5. CASE StopReason(v) # "silent" /\ watcher[v].evicted
    <3>1. v \in Announcing /\ v \in Announcing'
      BY <1>10, <2>1, <2>5 DEF Announcing
    <3>2. Due' = Due /\ Leaving' = Leaving
      BY <3>1, OneUnwinds
    <3>3. QED
      BY <1>3, <1>5, <2>3, <3>2 DEF TableVars
  <2>6. CASE StopReason(v) # "silent" /\ ~watcher[v].evicted
    <3>1. v \in Unwinding \ Announcing /\ v \in Announcing'
      BY <1>1, <1>10, <2>1, <2>6 DEF Announcing
    <3>2. /\ KeyOf(v) \in Leaving /\ Due' = Due \cup {KeyOf(v)}
          /\ Leaving' \in Table!Less(Leaving, KeyOf(v))
      BY <3>1, OneUnwinds
    <3>3. Table!EndUnheld(KeyOf(v))
      BY <1>5, <2>3, <3>2 DEF Table!EndUnheld, Held, Due, Leaving
    <3>4. QED
      BY <1>3, <3>3
  <2>7. QED
    BY <2>4, <2>5, <2>6
<1>14. QED
  BY <1>12, <1>13

(* OnStop has been told: one ending less is owed. *)
LEMMA AnnounceIsSeen ==
    ASSUME ManagerInv, WaitInv, NEW v \in Calls, Announce(v)
    PROVE  Mgr(v) \in Managers /\ Uri(v) \in URIs /\ Table!Announce(KeyOf(v))
<1>1. loop[v] = "announce" /\ Launched(v) /\ Looping(v)
  BY DEF Announce, Step, Launched, Looping
<1>2. running \in [Managers -> SUBSET Calls] /\ WatcherOK(v) /\ pc[v] = "ok"
  BY <1>1 DEF ManagerInv, DataTypes, LoopInv, WatcherInv
<1>3. Mgr(v) \in Managers /\ Uri(v) \in URIs
  BY <1>2 DEF ManagerInv, GateInv, ArgumentsKnown, Mgr, Uri
<1>4. v \in running[Mgr(v)] /\ ~Registered(v)
  BY <1>1, <1>2 DEF WaitInv, WatcherOK
<1>5. v \in Announcing
  BY <1>1, <1>4 DEF Unwinding, Announcing
<1>6. UNCHANGED closed /\ Mgr(v)' = Mgr(v)
  BY EndsElsewhere
<1>7. v \notin Unwinding'
  BY <1>2, <1>3, <1>6 DEF Announce, GoroutineEnds, Unwinding
<1>8. KeyOf(v) \in Due /\ Due' \in Table!Less(Due, KeyOf(v)) /\ Leaving' = Leaving
  BY <1>5, <1>7, OneUnwinds
<1>9. Held' = Held /\ StartedWatches' = StartedWatches
  BY EndsUnheld DEF Announce
<1>10. QED
  BY <1>3, <1>6, <1>8, <1>9 DEF Table!Announce, Held, Due, Leaving

-----------------------------------------------------------------------------
(* Every step of the managers is a step of the table, or none. *)
TableStep == Table!Next \/ UNCHANGED TableVars

LEMMA CallIsSeen ==
    ASSUME ManagerInv, WaitInv, NEW c \in Calls, CallStep(c) \/ GiveUp(c)
    PROVE  TableStep
<1>1. (arg[c].sub \in Sessions /\ (pc[c] # "idle" => Uri(c) \in URIs)) \/ pc[c] = "idle"
  BY DEF ManagerInv, GateInv, ArgumentsKnown, Uri
<1>2. CASE RefuseTooMany(c) \/ FirstRead(c) \/ AwaitReady(c)
  BY <1>2, WaitingIsCalm, CalmStutters DEF TableStep
<1>3. CASE Insert(c)
  <2>1. Table!Join(arg[c].sub, Uri(c)) /\ pc[c] # "idle"
    BY <1>3, InsertIsSeen DEF Insert
  <2>2. QED
    BY <1>1, <2>1 DEF TableStep, Table!Next
<1>4. CASE InsertEvicting(c)
  <2>1. /\ \E v \in URIs : Table!JoinDisplacing(arg[c].sub, Uri(c), v)
        /\ pc[c] # "idle"
    BY <1>4, InsertEvictingIsSeen DEF InsertEvicting
  <2>2. QED
    BY <1>1, <2>1 DEF TableStep, Table!Next
<1>5. CASE AbandonFailed(c) \/ AbandonClosed(c) \/ AbandonWithdrawn(c)
  BY <1>5, AbandonIsSeen DEF TableStep, Table!Next, Table!Watches
<1>6. CASE Launch(c)
  BY <1>6, LaunchIsSeen DEF TableStep, Table!Next, Table!Watches
<1>7. CASE GiveUp(c)
  <2>1. /\ pc[c] = "awaiting" /\ pc' = [pc EXCEPT ![c] = "gaveUp"]
        /\ UNCHANGED <<closed, running, loop, arg>>
    BY <1>7 DEF GiveUp, Answers, loopVars
  <2>2. PICK s \in Sessions, u \in URIs : s = arg[c].sub /\ u = Uri(c)
    BY <1>1, <2>1
  <2>3. CASE UNCHANGED <<registry, watcher>>
    <3>1. UNCHANGED <<closed, registry, running, loop, watcher>> /\ arg' = arg /\ pc[c] # "idle"
      BY <2>1, <2>3
    <3>2. Calm
      BY <2>1, <3>1, CallsAreCalm
    <3>3. QED
      BY <3>2, CalmStutters DEF TableStep
  <2>4. CASE ~UNCHANGED <<registry, watcher>>
    <3>1. Leaves(s, u)
      BY <1>7, <2>2, <2>4 DEF GiveUp
    <3>2. registry[ManagerOf[s]][u] # None /\ s \in watcher[registry[ManagerOf[s]][u]].subs
      BY <2>4, <3>1 DEF Leaves
    <3>3. \A w \in Calls : pc[w] # "idle" => pc'[w] # "idle"
      BY <2>1 DEF ManagerInv, GateInv, SlotTypes
    <3>4. Table!Leave(s, {u})
      BY <2>1, <3>1, <3>2, <3>3, LeavesIsSeen
    <3>5. \E U \in SUBSET URIs : Table!Leave(s, U)
      BY <3>4
    <3>6. QED
      BY <3>5 DEF TableStep, Table!Next
  <2>5. QED
    BY <2>3, <2>4
<1>8. QED
  BY <1>2, <1>3, <1>4, <1>5, <1>6, <1>7 DEF CallStep

LEMMA LoopIsSeen ==
    ASSUME ManagerInv, WaitInv, NEW v \in Calls, LoopStep(v)
    PROVE  TableStep
<1>1. CASE Retire(v)
  BY <1>1, RetireIsSeen DEF TableStep, Table!Next, Table!Watches, KeyOf
<1>2. CASE Announce(v)
  BY <1>2, AnnounceIsSeen DEF TableStep, Table!Next, Table!Watches, KeyOf
<1>3. CASE ~(Retire(v) \/ Announce(v))
  BY <1>3, PollingIsCalm, CalmStutters DEF TableStep
<1>4. QED
  BY <1>1, <1>2, <1>3

LEMMA ClientIsSeen ==
    ASSUME ManagerInv, WaitInv, NEW s \in Sessions, ClientStep(s)
    PROVE  TableStep
<1>1. ASSUME NEW u \in URIs, NEW c \in Calls, Subscribe(c, s, u)
      PROVE  TableStep
  <2>1. CASE Join(c, s, u)
    BY <2>1, JoinIsSeen DEF TableStep, Table!Next
  <2>2. CASE RefuseURI(c, s, u) \/ RefuseClosed(c, s, u) \/ RefuseAtCapacity(c, s, u) \/ Reserve(c, s, u)
    BY <2>2, StartingIsCalm, CalmStutters DEF TableStep
  <2>3. QED
    BY <1>1, <2>1, <2>2 DEF Subscribe
<1>2. ASSUME NEW u \in URIs, Unsubscribe(s, u)
      PROVE  TableStep
  <2>1. /\ Leaves(s, u) /\ registry[ManagerOf[s]][u] # None
        /\ s \in watcher[registry[ManagerOf[s]][u]].subs
        /\ UNCHANGED <<closed, running, loop, arg>> /\ pc' = pc
    BY <1>2 DEF Unsubscribe, callVars, loopVars
  <2>2. Table!Leave(s, {u})
    BY <2>1, LeavesIsSeen
  <2>3. \E U \in SUBSET URIs : Table!Leave(s, U)
    BY <2>2
  <2>4. QED
    BY <2>3 DEF TableStep, Table!Next
<1>3. CASE UnsubscribeAll(s)
  <2>1. \E U \in SUBSET URIs : Table!Leave(s, U)
    BY <1>3, UnsubscribeAllIsSeen
  <2>2. QED
    BY <2>1 DEF TableStep, Table!Next
<1>4. CASE RenewAll(s)
  BY <1>4, RenewalIsCalm, CalmStutters DEF RenewAll, TableStep
<1>5. QED
  BY <1>1, <1>2, <1>3, <1>4 DEF ClientStep

LEMMA ManagerIsSeen ==
    ASSUME ManagerInv, WaitInv, NEW m \in Managers, ManagerStep(m)
    PROVE  TableStep
<1>1. CASE Close(m)
  BY <1>1, CloseIsSeen DEF TableStep, Table!Next
<1>2. CASE CloseReturns(m)
  BY <1>2, CloseReturnsIsSeen DEF TableStep, Table!Next
<1>3. ASSUME NEW u \in URIs, Renew(m, u)
      PROVE  TableStep
  BY <1>3, RenewalIsCalm, CalmStutters DEF Renew, TableStep
<1>4. QED
  BY <1>1, <1>2, <1>3 DEF ManagerStep

LEMMA StepIsSeen ==
    ASSUME ManagerInv, WaitInv, [Next]_vars
    PROVE  TableStep
<1>1. ASSUME NEW v \in Calls, LifetimeEnds(v) \/ Cancel(v) \/ Wake(v)
      PROVE  TableStep
  BY <1>1, NudgesAreCalm, CalmStutters DEF TableStep
<1>2. CASE Tick \/ (\E u \in URIs : Change(u)) \/ UNCHANGED vars
  BY <1>2, EnvironmentIsCalm, CalmStutters DEF TableStep
<1>3. QED
  BY <1>1, <1>2, CallIsSeen, LoopIsSeen, ClientIsSeen, ManagerIsSeen DEF Next

(* Subscriptions are taken from nobody who did not give them up, except all at
   once and with an announcement owed; a watch makes room only for the one put
   in its place; and Close comes back with nothing left to announce: joins,
   withdrawals, expired waits, evictions, retirements and Close of package
   subscriptions implement WatchTable however they interleave.               *)
THEOREM ManagersImplementTable == Spec => ImplementsTable
<1>1. Init => Table!Init
  BY TableInit
<1>2. ManagerInv /\ WaitInv /\ [Next]_vars => [Table!Next]_(Table!vars)
  BY StepIsSeen, TableVarsAre DEF TableStep
<1>3. QED
  BY <1>1, <1>2, ManagerInvariance, PTL DEF Spec, ImplementsTable, Table!Spec

==============================================================================
