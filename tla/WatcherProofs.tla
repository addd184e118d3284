----------------------------- MODULE WatcherProofs -----------------------------
(***************************************************************************)
(* What holds of every watcher SubscriptionManager creates, from the call  *)
(* that inserts it to the end of its loop, whatever the number of          *)
(* credentials, sessions, URIs and calls: nobody is told success early, no *)
(* loop runs on unseen, no renewal is slept through, room is made by the   *)
(* step that uses it, and a success never lifts a pause.                   *)
(***************************************************************************)
EXTENDS SubscriptionManagerProofs

Beginning == {"reading", "read"}     \* inserted, the first read not yet judged

(* The life of one watcher.  NoOrphan and the others are not inductive: why a
   watcher nobody holds was withdrawn rather than lost is a matter of what was
   true of it when it was inserted, launched or dropped.                     *)
WatcherOK(w) ==
    /\ pc[w] \in Beginning \cup {"reserved"} => arg[w].watcher = w
    /\ pc[w] \in Beginning \cup {"idle", "reserved"} => watcher[w].ready = "wait"
    /\ pc[w] = "reserved" => closed[Mgr(w)] = "open"
    /\ pc[w] \in Beginning =>
            /\ watcher[w].timer = "cadence"
            /\ Registered(w) \/ closed[Mgr(w)] # "open" \/ watcher[w].subs = {}
    /\ Registered(w) => /\ watcher[w].ready \in {"wait", "started"} /\ watcher[w].subs # {}
                        /\ ~watcher[w].evicted /\ watcher[w].ctx # "canceled"
                        /\ loop[w] \notin {"announce", "done"}
    /\ watcher[w].ready = "started" <=> Launched(w)
    /\ watcher[w].ready = "withdrawn" => watcher[w].subs = {}
    /\ watcher[w].demoted => Launched(w) /\ now >= watcher[w].leaseAt
    /\ w \in toCancel => Launched(w) /\ ~Registered(w)
    /\ loop[w] \notin {"none", "announce", "done"} /\ ~Registered(w)
            => watcher[w].ctx # "live" \/ w \in toCancel
    /\ loop[w] \in {"arm", "sleep"} /\ watcher[w].timer = "slow" /\ ~watcher[w].demoted
            => watcher[w].renew \/ w \in toWake
    /\ loop[w] = "retire" => watcher[w].ctx # "live" \/ answer[w].kind = "inaccessible"
    /\ loop[w] = "done" => w \notin running[Mgr(w)]

(* A call that was told success is about a watcher whose first read succeeded,
   or that its last subscriber had let go of before it could be judged.      *)
SuccessOK(c) ==
    pc[c] = "ok" => /\ arg[c].watcher \in Calls
                    /\ watcher[arg[c].watcher].ready \in {"started", "withdrawn"}

WatcherInv == \A w \in Calls : WatcherOK(w) /\ SuccessOK(w)

USE ManagerAssumption, FiniteAssumption, OptionsAssumption

(* What the steps below start from. *)
ManagerInv == DataTypes /\ GateInv /\ LoopInv /\ WatcherInv

-----------------------------------------------------------------------------
(* Being registered, before and after a step. *)

LEMMA RegistryHolds ==
    ASSUME GateInv, NEW m \in Managers, NEW u \in URIs, registry[m][u] # None
    PROVE  /\ registry[m][u] \in Calls /\ Registered(registry[m][u])
           /\ Mgr(registry[m][u]) = m /\ Uri(registry[m][u]) = u
           /\ pc[registry[m][u]] \notin {"idle", "reserved"}
<1>1. registry[m][u] \in Calls
  BY DEF GateInv, SlotTypes
<1>2. /\ pc[registry[m][u]] \notin {"idle", "reserved"}
      /\ Mgr(registry[m][u]) = m /\ Uri(registry[m][u]) = u
  BY DEF GateInv, SlotsAreOwned
<1>3. QED
  BY <1>1, <1>2 DEF Registered

LEMMA HeldAreRegistered ==
    ASSUME GateInv, NEW m \in Managers, NEW w \in WatchersOf(m)
    PROVE  w \in Calls /\ Registered(w) /\ Mgr(w) = m /\ pc[w] \notin {"idle", "reserved"}
BY RegistryHolds DEF WatchersOf, WatchedURIs

LEMMA RegisteredAreHeld ==
    ASSUME GateInv, NEW w \in Calls, Registered(w)
    PROVE  /\ Mgr(w) \in Managers /\ Uri(w) \in URIs /\ registry[Mgr(w)][Uri(w)] = w
           /\ w \in WatchersOf(Mgr(w)) /\ pc[w] \notin {"idle", "reserved"}
<1>1. Mgr(w) \in Managers /\ Uri(w) \in URIs /\ registry[Mgr(w)][Uri(w)] = w
  BY DEF Registered, GateInv, ArgumentsKnown, Mgr, Uri
<1>2. w # None
  OBVIOUS
<1>3. QED
  BY <1>1, <1>2, RegistryHolds DEF WatchersOf, WatchedURIs

LEMMA RegistryKept ==
    ASSUME registry' = registry, NEW w \in Calls, pc[w] # "idle", pc'[w] # "idle", arg'[w] = arg[w]
    PROVE  Registered(w)' <=> Registered(w)
BY DEF Registered, Mgr, Uri

LEMMA IdleUnregistered ==
    ASSUME NEW w \in Calls, pc[w] = "idle"
    PROVE  ~Registered(w)
BY DEF Registered

(* A drop unregisters the watchers dropped, and no other. *)
LEMMA DropUnregisters ==
    ASSUME GateInv, NEW m \in Managers, NEW W, W \subseteq Calls, Drop(m, W),
           NEW w \in Calls, pc[w] # "idle", pc'[w] # "idle", arg'[w] = arg[w]
    PROVE  Registered(w)' <=> Registered(w) /\ ~(Mgr(w) = m /\ w \in W)
<1>1. Mgr(w) \in Managers /\ Uri(w) \in URIs /\ Mgr(w)' = Mgr(w) /\ Uri(w)' = Uri(w)
  BY DEF GateInv, ArgumentsKnown, Mgr, Uri
<1>2. registry'[Mgr(w)][Uri(w)] = IF Mgr(w) = m /\ registry[m][Uri(w)] \in W
                                  THEN None ELSE registry[Mgr(w)][Uri(w)]
  BY <1>1 DEF Drop, GateInv, SlotTypes
<1>3. w # None
  OBVIOUS
<1>4. QED
  BY <1>1, <1>2, <1>3 DEF Registered

-----------------------------------------------------------------------------
(* A step leaves w as it was. *)
Untouched(w) ==
    /\ pc'[w] = pc[w] /\ (pc[w] # "idle" => arg'[w] = arg[w])
    /\ watcher'[w] = watcher[w] /\ loop'[w] = loop[w] /\ answer'[w] = answer[w]
    /\ Registered(w)' <=> Registered(w)

LEMMA UntouchedStays ==
    ASSUME LoopInv, DataTypes, DataTypes', NEW w \in Calls, WatcherOK(w), Untouched(w),
           now' >= now,
           closed'[Mgr(w)] = closed[Mgr(w)]
              \/ pc[w] = "idle" \/ (pc[w] # "reserved" /\ closed'[Mgr(w)] # "open"),
           pc[w] # "idle" /\ w \in running'[Mgr(w)] => w \in running[Mgr(w)],
           w \in toCancel' <=> w \in toCancel, w \in toWake => w \in toWake'
    PROVE  WatcherOK(w)'
<1>1. CASE pc[w] = "idle"
  <2>1. loop[w] = "none" /\ ~Registered(w)
    BY <1>1, IdleUnregistered DEF LoopInv
  <2>2. QED
    BY <1>1, <2>1 DEF WatcherOK, Untouched, Launched, Beginning
<1>2. CASE pc[w] # "idle"
  <2>1. Mgr(w)' = Mgr(w)
    BY <1>2 DEF Untouched, Mgr
  <2>2. now \in Nat /\ now' \in Nat /\ watcher[w].leaseAt \in Nat
    BY DEF DataTypes, Watcher
  <2>3. QED
    BY <1>2, <2>1, <2>2 DEF WatcherOK, Untouched, Launched
<1>3. QED
  BY <1>1, <1>2

(* A step of one actor, seen from the other watchers: their registry entries
   and what is owed to them stay.                                           *)
Elsewhere(w) ==
    /\ now' >= now /\ closed' = closed
    /\ pc[w] # "idle" /\ w \in running'[Mgr(w)] => w \in running[Mgr(w)]
    /\ w \in toCancel' <=> w \in toCancel
    /\ w \in toWake => w \in toWake'

LEMMA OthersStay ==
    ASSUME ManagerInv, DataTypes', NEW w \in Calls, Untouched(w), Elsewhere(w)
    PROVE  WatcherOK(w)'
<1>1. WatcherOK(w)
  BY DEF ManagerInv, WatcherInv
<1>2. QED
  BY <1>1, UntouchedStays DEF ManagerInv, Elsewhere

(* A call that has not begun, begins and is refused, joins or reserves. *)
LEMMA StartingKeepsWatchers ==
    ASSUME ManagerInv, DataTypes', NEW c \in Calls, NEW s \in Sessions, NEW u \in URIs,
           RefuseURI(c, s, u) \/ RefuseClosed(c, s, u) \/ RefuseAtCapacity(c, s, u) \/ Reserve(c, s, u)
    PROVE  \A w \in Calls : WatcherOK(w)'
<1>1. PICK p \in {"notSubscribable", "closed", "atCapacity", "reserved"}, x \in {None, c} :
        /\ pc[c] = "idle" /\ pc' = [pc EXCEPT ![c] = p]
        /\ arg' = [arg EXCEPT ![c] = Arguments(s, u, x, FALSE)]
        /\ p = "reserved" => x = c /\ closed[ManagerOf[s]] = "open"
        /\ UNCHANGED <<now, closed, registry, running, loop, answer, watcher, toCancel, toWake>>
  BY DEF RefuseURI, RefuseClosed, RefuseAtCapacity, Reserve, Enters, Answers, environment, managerVars,
         loopVars, owed
<1>2. pc \in [Calls -> CallPc] /\ arg \in [Calls -> Args] /\ ManagerOf[s] \in Managers
  BY DEF ManagerInv, GateInv, SlotTypes
<1>3. now \in Nat
  BY DEF ManagerInv, DataTypes
<1>4. ASSUME NEW w \in Calls, w # c
      PROVE  WatcherOK(w)'
  <2>1. pc'[w] = pc[w] /\ arg'[w] = arg[w]
    BY <1>1, <1>2, <1>4
  <2>2. Registered(w)' <=> Registered(w)
    BY <1>1, <2>1 DEF Registered, Mgr, Uri
  <2>3. Untouched(w)
    BY <1>1, <2>1, <2>2 DEF Untouched
  <2>4. Elsewhere(w)
    BY <1>1, <1>3 DEF Elsewhere
  <2>5. QED
    BY <2>3, <2>4, OthersStay
<1>5. WatcherOK(c)'
  <2>1. /\ pc'[c] = p /\ arg'[c].sub = s /\ arg'[c].uri = u /\ arg'[c].watcher = x
    BY <1>1, <1>2 DEF Arguments
  <2>2. Mgr(c)' = ManagerOf[s] /\ Uri(c)' = u
    BY <2>1 DEF Mgr, Uri
  <2>3. ~Registered(c)'
    <3>1. registry[ManagerOf[s]][u] # c
      BY <1>1, <1>2, RegistryHolds DEF ManagerInv
    <3>2. QED
      BY <1>1, <2>2, <3>1 DEF Registered
  <2>4. loop[c] = "none" /\ ~Registered(c) /\ WatcherOK(c)
    BY <1>1, IdleUnregistered DEF ManagerInv, LoopInv, WatcherInv
  <2>5. QED
    BY <1>1, <2>1, <2>2, <2>3, <2>4 DEF WatcherOK, Launched, Beginning
<1>6. QED
  BY <1>4, <1>5

(* The fields of w's watcher that a change of subscribers leaves alone. *)
SameButSubs(w) ==
    /\ watcher'[w].ready = watcher[w].ready /\ watcher'[w].ctx = watcher[w].ctx
    /\ watcher'[w].leaseAt = watcher[w].leaseAt /\ watcher'[w].demoted = watcher[w].demoted
    /\ watcher'[w].evicted = watcher[w].evicted /\ watcher'[w].timer = watcher[w].timer
    /\ watcher'[w].renew = watcher[w].renew

(* A registered watcher gains or loses subscribers; it is dropped only when
   its loop, if it has one, is about to be cancelled.                       *)
LEMMA HeldChanges ==
    ASSUME ManagerInv, NEW w \in Calls, Registered(w), SameButSubs(w), arg'[w] = arg[w],
           pc'[w] = pc[w] \/ (pc[w] = "awaiting" /\ pc'[w] = "gaveUp"),
           UNCHANGED <<now, running, loop, answer>>,
           Registered(w)' => watcher'[w].subs # {} /\ w \notin toCancel',
           ~Registered(w)' => (w \in toCancel' <=> Launched(w)),
           ~Registered(w)' => watcher'[w].subs = {} \/ closed'[Mgr(w)] # "open",
           w \in toWake => w \in toWake'
    PROVE  WatcherOK(w)'
<1>1. WatcherOK(w) /\ pc[w] \notin {"idle", "reserved"}
  BY RegisteredAreHeld DEF ManagerInv, WatcherInv
<1>2. Mgr(w)' = Mgr(w)
  BY DEF Mgr
<1>3. Launched(w)' <=> Launched(w)
  BY DEF Launched
<1>4. CASE Registered(w)'
  BY <1>1, <1>2, <1>3, <1>4 DEF WatcherOK, SameButSubs, Beginning
<1>5. CASE ~Registered(w)'
  BY <1>1, <1>2, <1>3, <1>5 DEF WatcherOK, SameButSubs, Beginning, Launched
<1>6. QED
  BY <1>4, <1>5

(* Session s is added to the watcher found under its URI. *)
LEMMA JoinKeepsWatchers ==
    ASSUME ManagerInv, DataTypes', NEW c \in Calls, NEW s \in Sessions, NEW u \in URIs, Join(c, s, u)
    PROVE  \A w \in Calls : WatcherOK(w)'
<1>1. /\ pc \in [Calls -> CallPc] /\ arg \in [Calls -> Args] /\ ManagerOf[s] \in Managers
      /\ watcher \in [Calls -> Watcher]
  BY DEF ManagerInv, DataTypes, GateInv, SlotTypes
<1>2. now \in Nat
  BY DEF ManagerInv, DataTypes
<1>3. PICK v \in Calls : /\ v = registry[ManagerOf[s]][u] /\ Registered(v)
                         /\ pc[v] \notin {"idle", "reserved"}
  BY <1>1, RegistryHolds DEF ManagerInv, Join
<1>4. PICK a : arg' = [arg EXCEPT ![c] = a] /\ a.sub = s /\ a.uri = u
  <2> DEFINE joined == Arguments(s, u, v, s \in watcher[v].subs)
  <2>1. arg' = [arg EXCEPT ![c] = joined]
    BY <1>3 DEF Join
  <2>2. joined.sub = s /\ joined.uri = u
    BY DEF Arguments
  <2> HIDE DEF joined
  <2>3. QED
    BY <2>1, <2>2
<1>5. /\ pc[c] = "idle" /\ pc' = [pc EXCEPT ![c] = "awaiting"] /\ v # c
      /\ watcher' = [watcher EXCEPT ![v].subs = watcher[v].subs \cup {s}]
      /\ UNCHANGED <<now, closed, registry, running, loop, answer, toCancel, toWake>>
  BY <1>3 DEF Join, Enters, Answers, environment, managerVars, loopVars, owed
<1>6. \A w \in Calls : w # c => pc'[w] = pc[w] /\ arg'[w] = arg[w] /\ (Registered(w)' <=> Registered(w))
  BY <1>5, <1>4, <1>1 DEF Registered, Mgr, Uri
<1>7. ASSUME NEW w \in Calls, w # c, w # v
      PROVE  WatcherOK(w)'
  BY <1>5, <1>1, <1>2, <1>6, <1>7, OthersStay DEF Untouched, Elsewhere
<1>8. WatcherOK(c)'
  <2>1. ~Registered(c)'
    <3>1. registry[ManagerOf[s]][u] # c
      BY <1>5, <1>3
    <3>2. Mgr(c)' = ManagerOf[s] /\ Uri(c)' = u
      BY <1>1, <1>4 DEF Mgr, Uri
    <3>3. QED
      BY <1>5, <3>1, <3>2 DEF Registered
  <2>2. loop[c] = "none" /\ ~Registered(c) /\ WatcherOK(c)
    BY <1>5, IdleUnregistered DEF ManagerInv, LoopInv, WatcherInv
  <2>3. pc'[c] = "awaiting" /\ watcher'[c] = watcher[c]
    BY <1>5, <1>1, <1>3
  <2>4. QED
    BY <1>5, <2>1, <2>2, <2>3 DEF WatcherOK, Launched, Beginning
<1>9. WatcherOK(v)'
  <2>1. SameButSubs(v) /\ watcher'[v].subs = watcher[v].subs \cup {s}
    BY <1>5, <1>1 DEF SameButSubs, Watcher
  <2>2. Registered(v)' /\ pc'[v] = pc[v] /\ arg'[v] = arg[v]
    BY <1>5, <1>3, <1>6
  <2>3. v \notin toCancel
    BY <1>3 DEF ManagerInv, WatcherInv, WatcherOK
  <2>4. QED
    BY <1>5, <1>3, <2>1, <2>2, <2>3, HeldChanges
<1>10. QED
  BY <1>7, <1>8, <1>9

(* What a drop does for one watcher of the set or outside it. *)
LEMMA DropKeepsWatchers ==
    ASSUME ManagerInv, DataTypes', NEW m \in Managers, NEW W, W \subseteq WatchersOf(m), Drop(m, W),
           toCancel' = toCancel \cup Cancelable(W),
           UNCHANGED <<now, running, arg, loop, answer, toWake>>,
           \A w \in Calls : pc'[w] = pc[w] \/ (pc[w] = "awaiting" /\ pc'[w] = "gaveUp"),
           \A k \in Managers : closed'[k] = closed[k] \/ (k = m /\ closed'[k] # "open" /\ mu[m] = None),
           \A w \in Calls : ~(Registered(w) /\ Mgr(w) = m) => watcher'[w] = watcher[w],
           \A w \in Calls : Registered(w) /\ Mgr(w) = m =>
                /\ SameButSubs(w)
                /\ w \notin W => watcher'[w].subs # {}
                /\ w \in W => watcher'[w].subs = {} \/ closed'[m] # "open"
    PROVE  \A w \in Calls : WatcherOK(w)'
<1>1. W \subseteq Calls
  BY HeldAreRegistered DEF ManagerInv
<1>2. ASSUME NEW w \in Calls, pc[w] # "idle"
      PROVE  Registered(w)' <=> Registered(w) /\ ~(Mgr(w) = m /\ w \in W)
  BY <1>1, <1>2, DropUnregisters DEF ManagerInv
<1>3. ASSUME NEW w \in Calls, Registered(w), Mgr(w) = m
      PROVE  WatcherOK(w)'
  <2>1. pc[w] # "idle"
    BY <1>3 DEF Registered
  <2>2. Registered(w)' <=> w \notin W
    BY <1>2, <1>3, <2>1
  <2>3. w \notin toCancel
    BY <1>3 DEF ManagerInv, WatcherInv, WatcherOK
  <2>4. w \in toCancel' <=> w \in W /\ Launched(w)
    BY <2>3 DEF Cancelable
  <2>5. SameButSubs(w) /\ (w \notin W => watcher'[w].subs # {})
        /\ (w \in W => watcher'[w].subs = {} \/ closed'[Mgr(w)] # "open")
    BY <1>3
  <2>6. QED
    BY <1>3, <2>2, <2>4, <2>5, HeldChanges
<1>4. ASSUME NEW w \in Calls, ~(Registered(w) /\ Mgr(w) = m)
      PROVE  WatcherOK(w)'
  <2>1. CASE pc'[w] = pc[w]
    <3>1. Registered(w)' <=> Registered(w)
      BY <1>2, <1>4, <2>1 DEF Registered
    <3>2. Untouched(w)
      BY <1>4, <2>1, <3>1 DEF Untouched
    <3>3. w \in toCancel' <=> w \in toCancel
      BY <1>4, HeldAreRegistered DEF Cancelable, ManagerInv
    <3>4. \/ closed'[Mgr(w)] = closed[Mgr(w)] \/ pc[w] = "idle"
          \/ (pc[w] # "reserved" /\ closed'[Mgr(w)] # "open")
      <4>1. pc[w] # "idle" => Mgr(w) \in Managers
        BY DEF ManagerInv, GateInv, ArgumentsKnown, Mgr
      <4>2. pc[w] = "reserved" => mu[Mgr(w)] = w
        BY DEF ManagerInv, GateInv, SlotsAreOwned, Reserving
      <4>3. QED
        BY <4>1, <4>2
    <3>5. now \in Nat /\ WatcherOK(w)
      BY DEF ManagerInv, DataTypes, WatcherInv
    <3>6. QED
      BY <3>2, <3>3, <3>4, <3>5, UntouchedStays DEF ManagerInv
  <2>2. CASE pc[w] = "awaiting" /\ pc'[w] = "gaveUp"
    <3>1. Registered(w)' <=> Registered(w)
      BY <1>2, <1>4, <2>2
    <3>2. WatcherOK(w) /\ loop[w] = "none"
      BY <2>2 DEF ManagerInv, WatcherInv, LoopInv
    <3>3. w \in toCancel' <=> w \in toCancel
      BY <1>4, HeldAreRegistered DEF Cancelable, ManagerInv
    <3>4. QED
      BY <1>4, <2>2, <3>1, <3>2, <3>3 DEF WatcherOK, Beginning, Launched
  <2>3. QED
    BY <2>1, <2>2
<1>5. QED
  BY <1>3, <1>4

(* A step that drops nothing leaves the registry as a drop of nobody would. *)
LEMMA DropOfNobody ==
    ASSUME GateInv, NEW m \in Managers, UNCHANGED <<registry, held>>
    PROVE  Drop(m, {})
<1>1. registry' = [registry EXCEPT ![m] = [u \in URIs |-> IF @[u] \in {} THEN None ELSE @[u]]]
  BY DEF GateInv, SlotTypes
<1>2. Cardinality({u \in URIs : registry[m][u] \in {}}) = 0
  <2>1. {u \in URIs : registry[m][u] \in {}} = {}
    OBVIOUS
  <2>2. QED
    BY <2>1, FS_EmptySet, Zenon
<1>3. held' = held - Slots(0)
  BY DEF Slots, GateInv, SlotTypes
<1>4. QED
  BY <1>1, <1>2, <1>3 DEF Drop

(* Unsubscribe of one session, called by itself or by an expired wait. *)
LEMMA LeavesKeepsWatchers ==
    ASSUME ManagerInv, DataTypes', NEW s \in Sessions, NEW u \in URIs, Unlocked(ManagerOf[s]), Leaves(s, u),
           UNCHANGED <<now, closed, running, arg, loop, answer, toWake>>,
           \A w \in Calls : pc'[w] = pc[w] \/ (pc[w] = "awaiting" /\ pc'[w] = "gaveUp")
    PROVE  \A w \in Calls : WatcherOK(w)'
<1> DEFINE m == ManagerOf[s]
<1>1. m \in Managers
  OBVIOUS
<1>2. watcher \in [Calls -> Watcher]
  BY DEF ManagerInv, DataTypes
<1>3. PICK v \in Calls \cup {None} : v = registry[m][u]
  BY <1>1 DEF ManagerInv, GateInv, SlotTypes
<1>4. CASE v = None \/ s \notin watcher[v].subs
  <2>1. UNCHANGED <<registry, held, watcher, toCancel>>
    BY <1>3, <1>4 DEF Leaves
  <2>2. Drop(m, {}) /\ toCancel' = toCancel \cup Cancelable({}) /\ {} \subseteq WatchersOf(m)
    BY <1>1, <2>1, DropOfNobody DEF ManagerInv, Cancelable
  <2>3. \A w \in Calls : Registered(w) /\ Mgr(w) = m => SameButSubs(w) /\ watcher'[w].subs # {}
    BY <2>1 DEF ManagerInv, WatcherInv, WatcherOK, SameButSubs
  <2>4. QED
    BY <1>1, <2>1, <2>2, <2>3, DropKeepsWatchers
<1>5. CASE v # None /\ s \in watcher[v].subs
  <2>1. v \in Calls /\ Registered(v) /\ Mgr(v) = m /\ v \in WatchersOf(m)
    BY <1>1, <1>3, <1>5, RegistryHolds DEF ManagerInv, WatchersOf, WatchedURIs
  <2>2. watcher' = [watcher EXCEPT ![v].subs = watcher[v].subs \ {s}]
    BY <1>3, <1>5 DEF Leaves
  <2>3. /\ SameButSubs(v) /\ watcher'[v].subs = watcher[v].subs \ {s}
        /\ \A w \in Calls : w # v => watcher'[w] = watcher[w]
    BY <1>2, <2>1, <2>2 DEF SameButSubs, Watcher
  <2>4. \A w \in Calls : Registered(w) => watcher[w].subs # {}
    BY DEF ManagerInv, WatcherInv, WatcherOK
  <2>5. \A w \in Calls : ~(Registered(w) /\ Mgr(w) = m) => watcher'[w] = watcher[w]
    BY <2>1, <2>3
  <2>6. \A w \in Calls : Registered(w) /\ Mgr(w) = m =>
          SameButSubs(w) /\ (w # v => watcher'[w].subs # {})
    BY <2>3, <2>4 DEF SameButSubs
  <2>7. CASE watcher[v].subs # {s}
    <3>1. UNCHANGED <<registry, held, toCancel>>
      BY <1>3, <1>5, <2>7 DEF Leaves
    <3>2. Drop(m, {}) /\ toCancel' = toCancel \cup Cancelable({}) /\ {} \subseteq WatchersOf(m)
      BY <1>1, <3>1, DropOfNobody DEF ManagerInv, Cancelable
    <3>3. watcher'[v].subs # {}
      BY <1>5, <2>3, <2>7
    <3>4. \A w \in Calls : Registered(w) /\ Mgr(w) = m => SameButSubs(w) /\ watcher'[w].subs # {}
      BY <2>6, <3>3
    <3>5. QED
      BY <1>1, <2>5, <3>2, <3>4, DropKeepsWatchers
  <2>8. CASE watcher[v].subs = {s}
    <3>1. Drop(m, {v}) /\ toCancel' = toCancel \cup Cancelable({v}) /\ {v} \subseteq WatchersOf(m)
      BY <1>3, <1>5, <2>1, <2>8 DEF Leaves
    <3>2. watcher'[v].subs = {}
      BY <2>3, <2>8
    <3>3. \A w \in Calls : Registered(w) /\ Mgr(w) = m =>
            /\ SameButSubs(w)
            /\ w \notin {v} => watcher'[w].subs # {}
            /\ w \in {v} => watcher'[w].subs = {}
      BY <2>6, <3>2
    <3>4. QED
      BY <1>1, <2>5, <3>1, <3>3, DropKeepsWatchers
  <2>9. QED
    BY <2>7, <2>8
<1>6. QED
  BY <1>4, <1>5

LEMMA UnsubscribeAllKeepsWatchers ==
    ASSUME ManagerInv, DataTypes', NEW s \in Sessions, UnsubscribeAll(s)
    PROVE  \A w \in Calls : WatcherOK(w)'
<1> DEFINE m == ManagerOf[s]
<1>1. m \in Managers
  OBVIOUS
<1>2. watcher \in [Calls -> Watcher] /\ \A w \in Calls : Registered(w) => watcher[w].subs # {}
  BY DEF ManagerInv, DataTypes, WatcherInv, WatcherOK
<1>3. PICK own \in SUBSET WatchersOf(m), last \in SUBSET WatchersOf(m) :
        /\ own = {w \in WatchersOf(m) : s \in watcher[w].subs}
        /\ last = {w \in own : watcher[w].subs = {s}}
        /\ watcher' = [w \in Calls |->
                IF w \in own THEN [watcher[w] EXCEPT !.subs = @ \ {s}] ELSE watcher[w]]
        /\ Drop(m, last) /\ toCancel' = toCancel \cup Cancelable(last)
  BY DEF UnsubscribeAll
<1>4. \A w \in Calls : ~(Registered(w) /\ Mgr(w) = m) => watcher'[w] = watcher[w]
  BY <1>1, <1>3, HeldAreRegistered DEF ManagerInv
<1>5. ASSUME NEW w \in Calls, Registered(w), Mgr(w) = m
      PROVE  /\ SameButSubs(w)
             /\ w \notin last => watcher'[w].subs # {}
             /\ w \in last => watcher'[w].subs = {}
  <2>1. w \in WatchersOf(m)
    BY <1>5, RegisteredAreHeld DEF ManagerInv
  <2>2. CASE w \in own
    <3>1. SameButSubs(w) /\ watcher'[w].subs = watcher[w].subs \ {s}
      BY <1>2, <1>3, <2>2 DEF SameButSubs, Watcher
    <3>2. QED
      BY <1>3, <2>2, <3>1
  <2>3. CASE w \notin own
    BY <1>2, <1>3, <1>5, <2>3 DEF SameButSubs
  <2>4. QED
    BY <2>2, <2>3
<1>6. UNCHANGED <<now, closed, running, arg, loop, answer, toWake, pc>>
  BY DEF UnsubscribeAll, environment, callVars, loopVars
<1>7. last \subseteq WatchersOf(m) /\ Drop(m, last) /\ toCancel' = toCancel \cup Cancelable(last)
  BY <1>3
<1>8. \A w \in Calls : Registered(w) /\ Mgr(w) = m =>
        /\ SameButSubs(w)
        /\ w \notin last => watcher'[w].subs # {}
        /\ w \in last => watcher'[w].subs = {}
  BY <1>5
<1> HIDE DEF m
<1>9. QED
  BY <1>1, <1>4, <1>6, <1>7, <1>8, DropKeepsWatchers

(* Close drops every watcher of m, those whose first read is in flight too. *)
LEMMA CloseKeepsWatchers ==
    ASSUME ManagerInv, DataTypes', NEW m \in Managers, Close(m) \/ CloseReturns(m)
    PROVE  \A w \in Calls : WatcherOK(w)'
<1>1. \A w \in Calls : Registered(w) => watcher[w].subs # {}
  BY DEF ManagerInv, WatcherInv, WatcherOK
<1>2. closed \in [Managers -> {"open", "closing", "closed"}] /\ now \in Nat
  BY DEF ManagerInv, DataTypes
<1>3. CASE Close(m)
  <2>1. /\ mu[m] = None /\ closed' = [closed EXCEPT ![m] = "closing"]
        /\ Drop(m, WatchersOf(m)) /\ toCancel' = toCancel \cup Cancelable(WatchersOf(m))
        /\ UNCHANGED <<now, running, pc, arg, loop, answer, watcher, toWake>>
    BY <1>3 DEF Close, Unlocked, environment, callVars, loopVars
  <2>2. \A k \in Managers : closed'[k] = closed[k] \/ (k = m /\ closed'[k] # "open" /\ mu[m] = None)
    BY <1>2, <2>1
  <2>3. \A w \in Calls : Registered(w) /\ Mgr(w) = m =>
          /\ SameButSubs(w)
          /\ w \notin WatchersOf(m) => watcher'[w].subs # {}
          /\ w \in WatchersOf(m) => closed'[m] # "open"
    BY <1>1, <1>2, <2>1 DEF SameButSubs
  <2>4. QED
    BY <2>1, <2>2, <2>3, DropKeepsWatchers
<1>4. CASE CloseReturns(m)
  <2>1. /\ closed[m] = "closing" /\ closed' = [closed EXCEPT ![m] = "closed"]
        /\ UNCHANGED <<now, registry, running, pc, arg, loop, answer, watcher, toCancel, toWake>>
    BY <1>4 DEF CloseReturns, environment, callVars, loopVars, owed
  <2>2. ASSUME NEW w \in Calls
        PROVE  WatcherOK(w)'
    <3>1. Untouched(w)
      BY <2>1 DEF Untouched, Registered, Mgr, Uri
    <3>2. \/ closed'[Mgr(w)] = closed[Mgr(w)] \/ pc[w] = "idle"
          \/ (pc[w] # "reserved" /\ closed'[Mgr(w)] # "open")
      <4>1. pc[w] # "idle" => Mgr(w) \in Managers
        BY DEF ManagerInv, GateInv, ArgumentsKnown, Mgr
      <4>2. WatcherOK(w)
        BY DEF ManagerInv, WatcherInv
      <4>3. pc[w] = "reserved" => closed[Mgr(w)] = "open"
        BY <4>2 DEF WatcherOK
      <4>4. QED
        BY <1>2, <2>1, <4>1, <4>3
    <3>3. WatcherOK(w)
      BY DEF ManagerInv, WatcherInv
    <3>4. QED
      BY <1>2, <2>1, <3>1, <3>2, <3>3, UntouchedStays DEF ManagerInv
  <2>3. QED
    BY <2>2
<1>5. QED
  BY <1>3, <1>4

(* A renewal lifts the demotion of registered watchers, and owes a wake to
   those that may be asleep on the slow timer.                             *)
LEMMA RenewKeepsWatchers ==
    ASSUME ManagerInv, DataTypes', NEW W \in SUBSET Calls, RenewLocked(W)
    PROVE  \A w \in Calls : WatcherOK(w)'
<1>1. watcher \in [Calls -> Watcher] /\ now \in Nat
  BY DEF ManagerInv, DataTypes
<1>2. /\ \A w \in Calls : watcher'[w] =
            IF w \in W THEN [watcher[w] EXCEPT !.leaseAt = now + Lease, !.demoted = FALSE] ELSE watcher[w]
      /\ toWake' = toWake \cup {w \in W : watcher[w].demoted}
  BY DEF RenewLocked
<1>3. UNCHANGED <<now, closed, registry, running, pc, arg, loop, answer, toCancel>>
  BY DEF RenewLocked, environment, managerVars, callVars, loopVars
<1>4. ASSUME NEW w \in Calls
      PROVE  WatcherOK(w)'
  <2>1. Registered(w)' <=> Registered(w)
    BY <1>3 DEF Registered, Mgr, Uri
  <2>2. WatcherOK(w)
    BY DEF ManagerInv, WatcherInv
  <2>3. CASE w \notin W
    <3>1. watcher'[w] = watcher[w] /\ (w \in toWake => w \in toWake')
      BY <1>2, <2>3
    <3>2. Untouched(w)
      BY <1>3, <2>1, <3>1 DEF Untouched
    <3>3. Elsewhere(w)
      BY <1>3, <1>1, <3>1 DEF Elsewhere
    <3>4. QED
      BY <3>2, <3>3, OthersStay
  <2>4. CASE w \in W
    <3>1. /\ watcher'[w].subs = watcher[w].subs /\ watcher'[w].ready = watcher[w].ready
          /\ watcher'[w].ctx = watcher[w].ctx /\ watcher'[w].evicted = watcher[w].evicted
          /\ watcher'[w].timer = watcher[w].timer /\ watcher'[w].renew = watcher[w].renew
          /\ watcher'[w].demoted = FALSE
      <4>1. watcher'[w] = [watcher[w] EXCEPT !.leaseAt = now + Lease, !.demoted = FALSE]
        BY <1>2, <2>4
      <4>2. watcher[w] \in Watcher
        BY <1>1
      <4>3. QED
        BY <4>1, <4>2 DEF Watcher
    <3>2. watcher[w].demoted => w \in toWake'
      BY <1>2, <2>4
    <3>3. Mgr(w)' = Mgr(w) /\ (w \in toWake => w \in toWake')
      BY <1>3, <1>2 DEF Mgr
    <3>4. QED
      BY <1>3, <2>1, <2>2, <3>1, <3>2, <3>3 DEF WatcherOK, Launched
  <2>5. QED
    BY <2>3, <2>4
<1>5. QED
  BY <1>4

(* What cancel(), wake() and the end of a lifetime do, whenever they come. *)
LEMMA NudgesKeepWatchers ==
    ASSUME ManagerInv, DataTypes', NEW v \in Calls, LifetimeEnds(v) \/ Cancel(v) \/ Wake(v)
    PROVE  \A w \in Calls : WatcherOK(w)'
<1>1. watcher \in [Calls -> Watcher] /\ now \in Nat
  BY DEF ManagerInv, DataTypes
<1>2. /\ UNCHANGED <<now, closed, registry, running, pc, arg, loop, answer>>
      /\ \A w \in Calls : w # v => watcher'[w] = watcher[w]
      /\ \A w \in Calls : w # v => (w \in toCancel' <=> w \in toCancel) /\ (w \in toWake' <=> w \in toWake)
  BY <1>1 DEF LifetimeEnds, Cancel, Wake, environment, managerVars, callVars, loopVars, owed
<1>3. \A w \in Calls : Registered(w)' <=> Registered(w)
  BY <1>2 DEF Registered, Mgr, Uri
<1>4. ASSUME NEW w \in Calls, w # v
      PROVE  WatcherOK(w)'
  BY <1>1, <1>2, <1>3, <1>4, OthersStay DEF Untouched, Elsewhere
<1>5. /\ watcher'[v].subs = watcher[v].subs /\ watcher'[v].ready = watcher[v].ready
      /\ watcher'[v].leaseAt = watcher[v].leaseAt /\ watcher'[v].demoted = watcher[v].demoted
      /\ watcher'[v].evicted = watcher[v].evicted /\ watcher'[v].timer = watcher[v].timer
      /\ watcher[v].renew => watcher'[v].renew
      /\ watcher[v].ctx # "live" => watcher'[v].ctx = watcher[v].ctx
      /\ v \in toCancel' => v \in toCancel
      /\ v \in toWake => v \in toWake' \/ watcher'[v].renew
  BY <1>1 DEF LifetimeEnds, Cancel, Wake, Watcher, owed
<1>6. \/ watcher'[v].ctx = watcher[v].ctx /\ (v \in toCancel' <=> v \in toCancel)
      \/ watcher'[v].ctx = "deadline" /\ Looping(v)
      \/ watcher'[v].ctx # "live" /\ v \in toCancel
  BY <1>1 DEF LifetimeEnds, Cancel, Wake, Watcher, owed
<1>7. watcher'[v].ctx = "canceled" => watcher[v].ctx = "canceled" \/ v \in toCancel
  BY <1>1 DEF LifetimeEnds, Cancel, Wake, Watcher, owed
<1>8. WatcherOK(v)'
  <2>1. WatcherOK(v)
    BY DEF ManagerInv, WatcherInv
  <2>2. Mgr(v)' = Mgr(v)
    BY <1>2 DEF Mgr
  <2>3. QED
    BY <1>2, <1>3, <1>5, <1>6, <1>7, <2>1, <2>2 DEF WatcherOK, Launched
<1>9. QED
  BY <1>4, <1>8

LEMMA EnvironmentKeepsWatchers ==
    ASSUME ManagerInv, DataTypes', Tick \/ (\E u \in URIs : Change(u)) \/ UNCHANGED vars
    PROVE  \A w \in Calls : WatcherOK(w)'
<1>1. /\ now \in Nat /\ now' >= now
      /\ UNCHANGED <<closed, registry, running, pc, arg, loop, answer, watcher, toCancel, toWake>>
  BY DEF Tick, Change, vars, environment, managerVars, callVars, loopVars, owed, ManagerInv, DataTypes
<1>2. ASSUME NEW w \in Calls
      PROVE  Untouched(w) /\ Elsewhere(w)
  BY <1>1 DEF Untouched, Elsewhere, Registered, Mgr, Uri
<1>3. QED
  BY <1>2, OthersStay

-----------------------------------------------------------------------------
(* The steps of a Subscribe call in flight. *)

(* A call whose own watcher does not exist yet, or not any more, moves on. *)
LEMMA BystanderMovesOn ==
    ASSUME ManagerInv, DataTypes', NEW c \in Calls, NEW p, pc' = [pc EXCEPT ![c] = p],
           \/ pc[c] = "reserved" /\ p = "tooMany"
           \/ pc[c] = "reading" /\ p = "read"
           \/ pc[c] = "awaiting" /\ p \notin Beginning \cup {"idle", "reserved"},
           UNCHANGED <<now, closed, registry, running, arg, loop, watcher, toCancel, toWake>>,
           \A w \in Calls : w # c => answer'[w] = answer[w]
    PROVE  \A w \in Calls : WatcherOK(w)'
<1>1. pc \in [Calls -> CallPc] /\ now \in Nat
  BY DEF ManagerInv, GateInv, SlotTypes, DataTypes
<1>2. ASSUME NEW w \in Calls, w # c
      PROVE  WatcherOK(w)'
  <2>1. pc'[w] = pc[w]
    BY <1>1, <1>2
  <2>2. Untouched(w) /\ Elsewhere(w)
    BY <1>1, <1>2, <2>1 DEF Untouched, Elsewhere, Registered, Mgr, Uri
  <2>3. QED
    BY <2>2, OthersStay
<1>3. WatcherOK(c)'
  <2>1. WatcherOK(c) /\ loop[c] = "none" /\ pc'[c] = p
    BY <1>1 DEF ManagerInv, WatcherInv, LoopInv
  <2>2. Mgr(c)' = Mgr(c) /\ pc[c] # "idle" /\ p # "idle" /\ p # "reserved"
    BY DEF Mgr, Beginning
  <2>3. Registered(c)' <=> Registered(c)
    BY <2>1, <2>2, RegistryKept
  <2>4. QED
    BY <2>1, <2>2, <2>3 DEF WatcherOK, Launched, Beginning
<1>4. QED
  BY <1>2, <1>3

LEMMA InsertKeepsWatchers ==
    ASSUME ManagerInv, DataTypes', NEW c \in Calls, Insert(c)
    PROVE  \A w \in Calls : WatcherOK(w)'
<1>1. /\ pc[c] = "reserved" /\ pc' = [pc EXCEPT ![c] = "reading"]
      /\ registry' = [registry EXCEPT ![Mgr(c)][Uri(c)] = c]
      /\ watcher' = [watcher EXCEPT ![c] = NewWatcher({arg[c].sub})]
      /\ UNCHANGED <<now, closed, running, arg, loop, answer, toCancel, toWake>>
  BY DEF Insert, Place, Answers, environment, loopVars, owed
<1>2. /\ pc \in [Calls -> CallPc] /\ now \in Nat /\ watcher \in [Calls -> Watcher]
      /\ registry \in [Managers -> [URIs -> Calls \cup {None}]]
  BY DEF ManagerInv, GateInv, SlotTypes, DataTypes
<1>3. Mgr(c) \in Managers /\ Uri(c) \in URIs /\ registry[Mgr(c)][Uri(c)] = None
  BY <1>1 DEF ManagerInv, GateInv, ArgumentsKnown, SlotsAreOwned, Reserving, Mgr, Uri
<1>4. ASSUME NEW w \in Calls, w # c
      PROVE  WatcherOK(w)'
  <2>1. pc'[w] = pc[w] /\ watcher'[w] = watcher[w]
    BY <1>1, <1>2, <1>4
  <2>2. Registered(w)' <=> Registered(w)
    <3>1. CASE pc[w] = "idle"
      BY <2>1, <3>1 DEF Registered
    <3>2. CASE pc[w] # "idle"
      <4>1. Mgr(w) \in Managers /\ Uri(w) \in URIs /\ Mgr(w)' = Mgr(w) /\ Uri(w)' = Uri(w) /\ w # None
        BY <1>1, <3>2 DEF ManagerInv, GateInv, ArgumentsKnown, Mgr, Uri
      <4>2. registry'[Mgr(w)][Uri(w)] = w <=> registry[Mgr(w)][Uri(w)] = w
        BY <1>1, <1>2, <1>3, <1>4, <4>1
      <4>3. QED
        BY <2>1, <4>1, <4>2 DEF Registered
    <3>3. QED
      BY <3>1, <3>2
  <2>3. Untouched(w) /\ Elsewhere(w)
    BY <1>1, <1>2, <2>1, <2>2 DEF Untouched, Elsewhere
  <2>4. QED
    BY <2>3, OthersStay
<1>5. WatcherOK(c)'
  <2>1. WatcherOK(c) /\ loop[c] = "none"
    BY <1>1 DEF ManagerInv, WatcherInv, LoopInv
  <2>2. watcher'[c] = NewWatcher({arg[c].sub}) /\ pc'[c] = "reading"
    BY <1>1, <1>2
  <2>3. /\ watcher'[c].ready = "wait" /\ watcher'[c].timer = "cadence" /\ watcher'[c].subs # {}
        /\ watcher'[c].evicted = FALSE /\ watcher'[c].demoted = FALSE /\ watcher'[c].ctx = "live"
    BY <2>2 DEF NewWatcher
  <2>4. Mgr(c)' = Mgr(c) /\ Uri(c)' = Uri(c)
    BY <1>1 DEF Mgr, Uri
  <2>5. registry'[Mgr(c)][Uri(c)] = c
    BY <1>1, <1>2, <1>3
  <2>6. Registered(c)'
    BY <1>3, <2>2, <2>4, <2>5 DEF Registered
  <2>7. QED
    BY <1>1, <2>1, <2>2, <2>3, <2>4, <2>6 DEF WatcherOK, Launched, Beginning
<1>6. QED
  BY <1>4, <1>5

(* The step that makes room, seen from the new watcher, the one it displaces
   and the others.                                                          *)
Displaces(c, v) ==
    /\ pc[c] = "reserved" /\ pc' = [pc EXCEPT ![c] = "reading"] /\ v # c
    /\ UNCHANGED <<now, closed, running, arg, loop, answer, toCancel, toWake>>
    /\ Registered(v) /\ Mgr(v) = Mgr(c) /\ watcher[v].demoted /\ pc[v] \notin {"idle", "reserved"}
    /\ watcher'[c] = NewWatcher({arg[c].sub})
    /\ watcher'[v] = [watcher[v] EXCEPT !.evicted = TRUE, !.ctx = IF @ = "live" THEN "canceled" ELSE @]
    /\ \A w \in Calls : w # c /\ w # v => watcher'[w] = watcher[w]
    /\ \A w \in Calls : w # c => pc'[w] = pc[w] /\ (Registered(w)' <=> Registered(w) /\ w # v)
    /\ pc'[c] = "reading" /\ Registered(c)'
    /\ \A m \in Managers, u \in URIs :
            registry'[m][u] = IF m = Mgr(c) /\ u = Uri(c) THEN c
                              ELSE IF m = Mgr(c) /\ registry[m][u] = v THEN None ELSE registry[m][u]

LEMMA InsertEvictingDisplaces ==
    ASSUME GateInv, DataTypes, NEW c \in Calls, InsertEvicting(c)
    PROVE  \E v \in Calls : Displaces(c, v)
<1>1. /\ pc[c] = "reserved" /\ pc' = [pc EXCEPT ![c] = "reading"]
      /\ UNCHANGED <<now, closed, running, arg, loop, answer, toCancel, toWake>>
  BY DEF InsertEvicting, Place, Answers, environment, loopVars, owed
<1>2. /\ pc \in [Calls -> CallPc] /\ now \in Nat /\ watcher \in [Calls -> Watcher]
      /\ registry \in [Managers -> [URIs -> Calls \cup {None}]]
  BY DEF GateInv, SlotTypes, DataTypes
<1>3. Mgr(c) \in Managers /\ Uri(c) \in URIs /\ registry[Mgr(c)][Uri(c)] = None /\ c # None
  BY <1>1 DEF GateInv, ArgumentsKnown, SlotsAreOwned, Reserving, Mgr, Uri
<1>4. PICK v \in LongestDemoted(Mgr(c)) :
        /\ registry' = [registry EXCEPT ![Mgr(c)] =
                [u \in URIs |-> IF u = Uri(c) THEN c ELSE IF @[u] = v THEN None ELSE @[u]]]
        /\ watcher' = [watcher EXCEPT
                ![c] = NewWatcher({arg[c].sub}),
                ![v] = [watcher[v] EXCEPT !.evicted = TRUE,
                                          !.ctx = IF @ = "live" THEN "canceled" ELSE @]]
  BY DEF InsertEvicting
<1>5. /\ v \in Calls /\ Registered(v) /\ Mgr(v) = Mgr(c) /\ v # c /\ watcher[v].demoted
      /\ pc[v] \notin {"idle", "reserved"}
  <2>1. v \in WatchersOf(Mgr(c)) /\ watcher[v].demoted
    BY DEF LongestDemoted
  <2>2. QED
    BY <1>1, <1>3, <2>1, HeldAreRegistered
<1>6. ASSUME NEW m \in Managers, NEW u \in URIs
      PROVE  registry'[m][u] = IF m = Mgr(c) /\ u = Uri(c) THEN c
                               ELSE IF m = Mgr(c) /\ registry[m][u] = v THEN None ELSE registry[m][u]
  BY <1>2, <1>3, <1>4
<1>7. ASSUME NEW w \in Calls, w # c
      PROVE  pc'[w] = pc[w] /\ (Registered(w)' <=> Registered(w) /\ w # v)
  <2>1. pc'[w] = pc[w]
    BY <1>1, <1>2, <1>7
  <2>2. CASE pc[w] = "idle"
    BY <2>1, <2>2 DEF Registered
  <2>3. CASE pc[w] # "idle"
    <3>1. Mgr(w) \in Managers /\ Uri(w) \in URIs /\ Mgr(w)' = Mgr(w) /\ Uri(w)' = Uri(w) /\ w # None
      BY <1>1, <2>3 DEF GateInv, ArgumentsKnown, Mgr, Uri
    <3>2. registry'[Mgr(w)][Uri(w)] = w <=> registry[Mgr(w)][Uri(w)] = w /\ w # v
      BY <1>3, <1>5, <1>6, <1>7, <3>1
    <3>3. QED
      BY <2>1, <3>1, <3>2 DEF Registered
  <2>4. QED
    BY <2>2, <2>3
<1>8. watcher'[c] = NewWatcher({arg[c].sub}) /\ pc'[c] = "reading"
  BY <1>1, <1>2, <1>4, <1>5
<1>9. /\ watcher'[v] = [watcher[v] EXCEPT !.evicted = TRUE, !.ctx = IF @ = "live" THEN "canceled" ELSE @]
      /\ \A w \in Calls : w # c /\ w # v => watcher'[w] = watcher[w]
  BY <1>2, <1>4, <1>5
<1>10. Registered(c)'
  <2>1. Mgr(c)' = Mgr(c) /\ Uri(c)' = Uri(c)
    BY <1>1 DEF Mgr, Uri
  <2>2. registry'[Mgr(c)][Uri(c)] = c
    BY <1>3, <1>6
  <2>3. QED
    BY <1>3, <1>8, <2>1, <2>2 DEF Registered
<1>11. Displaces(c, v)
  BY <1>1, <1>5, <1>6, <1>7, <1>8, <1>9, <1>10 DEF Displaces
<1>12. QED
  BY <1>5, <1>11

(* The demoted watcher that makes room is cancelled under the same lock. *)
LEMMA InsertEvictingKeepsWatchers ==
    ASSUME ManagerInv, DataTypes', NEW c \in Calls, InsertEvicting(c)
    PROVE  \A w \in Calls : WatcherOK(w)'
<1>1. PICK v \in Calls : Displaces(c, v)
  BY InsertEvictingDisplaces DEF ManagerInv
<1> USE DEF Displaces
<1>2. now \in Nat /\ watcher \in [Calls -> Watcher]
  BY DEF ManagerInv, DataTypes
<1>3. ASSUME NEW w \in Calls, w # c, w # v
      PROVE  WatcherOK(w)'
  <2>1. Untouched(w) /\ Elsewhere(w)
    BY <1>1, <1>2, <1>3 DEF Untouched, Elsewhere
  <2>2. QED
    BY <2>1, OthersStay
<1>4. WatcherOK(v)'
  <2>1. WatcherOK(v)
    BY DEF ManagerInv, WatcherInv
  <2>2. /\ watcher'[v].subs = watcher[v].subs /\ watcher'[v].ready = watcher[v].ready
        /\ watcher'[v].leaseAt = watcher[v].leaseAt /\ watcher'[v].demoted = watcher[v].demoted
        /\ watcher'[v].timer = watcher[v].timer /\ watcher'[v].renew = watcher[v].renew
        /\ watcher'[v].ctx # "live"
    <3>1. watcher'[v] = [watcher[v] EXCEPT !.evicted = TRUE, !.ctx = IF @ = "live" THEN "canceled" ELSE @]
      BY <1>1
    <3>2. watcher[v] \in Watcher
      BY <1>2
    <3> HIDE DEF Displaces
    <3>3. QED
      BY <3>1, <3>2 DEF Watcher
  <2>3. ~Registered(v)' /\ pc'[v] = pc[v] /\ Mgr(v)' = Mgr(v)
    BY <1>1 DEF Mgr
  <2>4. Launched(v) /\ pc[v] = "ok"
    BY <1>1, <2>1 DEF WatcherOK, ManagerInv, LoopInv, Launched
  <2>5. QED
    BY <1>1, <2>1, <2>2, <2>3, <2>4 DEF WatcherOK, Launched, Beginning
<1>5. WatcherOK(c)'
  <2>1. WatcherOK(c) /\ loop[c] = "none"
    BY <1>1 DEF ManagerInv, WatcherInv, LoopInv
  <2>2. /\ watcher'[c].ready = "wait" /\ watcher'[c].timer = "cadence" /\ watcher'[c].subs # {}
        /\ watcher'[c].evicted = FALSE /\ watcher'[c].demoted = FALSE /\ watcher'[c].ctx = "live"
    BY <1>1 DEF NewWatcher
  <2>3. Mgr(c)' = Mgr(c)
    BY <1>1 DEF Mgr
  <2>4. QED
    BY <1>1, <2>1, <2>2, <2>3 DEF WatcherOK, Launched, Beginning
<1>6. QED
  BY <1>3, <1>4, <1>5

(* A first read that failed, came after Close, or was for nobody any more:
   the watcher is dropped before anything was launched for it.             *)
LEMMA AbandonKeepsWatchers ==
    ASSUME ManagerInv, DataTypes', NEW c \in Calls,
           AbandonFailed(c) \/ AbandonClosed(c) \/ AbandonWithdrawn(c)
    PROVE  \A w \in Calls : WatcherOK(w)'
<1>1. PICK reason \in {"failed", "closed", "withdrawn"}, reply \in {"failed", "closed", "ok"} :
        /\ pc[c] = "read" /\ pc' = [pc EXCEPT ![c] = reply] /\ Drop(Mgr(c), {c})
        /\ watcher' = [watcher EXCEPT ![c].ready = reason]
        /\ reason = "withdrawn" => ~Registered(c) /\ closed[Mgr(c)] = "open"
        /\ UNCHANGED <<now, closed, running, arg, loop, answer, toCancel, toWake>>
  BY DEF AbandonFailed, AbandonClosed, AbandonWithdrawn, Abandon, DropIfRegistered, Answers,
         environment, loopVars, owed
<1>2. /\ pc \in [Calls -> CallPc] /\ now \in Nat /\ watcher \in [Calls -> Watcher]
  BY DEF ManagerInv, GateInv, SlotTypes, DataTypes
<1>3. Mgr(c) \in Managers
  BY <1>1 DEF ManagerInv, GateInv, ArgumentsKnown, Mgr
<1>4. ASSUME NEW w \in Calls, pc[w] # "idle"
      PROVE  Registered(w)' <=> Registered(w) /\ w # c
  <2>1. pc'[w] # "idle" /\ arg'[w] = arg[w]
    BY <1>1, <1>2, <1>4
  <2>2. Registered(w)' <=> Registered(w) /\ ~(Mgr(w) = Mgr(c) /\ w \in {c})
    BY <1>1, <1>3, <1>4, <2>1, DropUnregisters DEF ManagerInv
  <2>3. QED
    BY <2>2
<1>5. ASSUME NEW w \in Calls, w # c
      PROVE  WatcherOK(w)'
  <2>1. pc'[w] = pc[w] /\ watcher'[w] = watcher[w]
    BY <1>1, <1>2, <1>5
  <2>2. Registered(w)' <=> Registered(w)
    BY <1>4, <1>5, <2>1 DEF Registered
  <2>3. Untouched(w)
    BY <1>1, <2>1, <2>2 DEF Untouched
  <2>4. Elsewhere(w)
    BY <1>1, <1>2 DEF Elsewhere
  <2>5. QED
    BY <2>3, <2>4, OthersStay
<1>6. WatcherOK(c)'
  <2>1. WatcherOK(c) /\ loop[c] = "none" /\ pc'[c] = reply
    BY <1>1, <1>2 DEF ManagerInv, WatcherInv, LoopInv
  <2>2. /\ watcher'[c].ready = reason /\ watcher'[c].subs = watcher[c].subs
        /\ watcher'[c].demoted = watcher[c].demoted
    BY <1>1, <1>2 DEF Watcher
  <2>3. ~Registered(c)'
    BY <1>1, <1>4
  <2>4. reason = "withdrawn" => watcher[c].subs = {}
    BY <1>1, <2>1 DEF WatcherOK, Beginning
  <2>5. QED
    BY <1>1, <2>1, <2>2, <2>3, <2>4 DEF WatcherOK, Launched, Beginning
<1>7. QED
  BY <1>5, <1>6

LEMMA LaunchKeepsWatchers ==
    ASSUME ManagerInv, DataTypes', NEW c \in Calls, Launch(c)
    PROVE  \A w \in Calls : WatcherOK(w)'
<1>1. /\ pc[c] = "read" /\ pc' = [pc EXCEPT ![c] = "ok"] /\ Registered(c)
      /\ watcher' = [watcher EXCEPT ![c].digest = answer[c].version, ![c].ready = "started",
                                    ![c].leaseAt = now + Lease, ![c].endsAt = now + MaxLifetime]
      /\ running' = [running EXCEPT ![Mgr(c)] = @ \cup {c}]
      /\ loop' = [loop EXCEPT ![c] = "sleep"]
      /\ UNCHANGED <<now, closed, registry, arg, answer, toCancel, toWake>>
  BY DEF Launch, Answers, environment, owed
<1>2. /\ pc \in [Calls -> CallPc] /\ now \in Nat /\ watcher \in [Calls -> Watcher]
      /\ loop \in [Calls -> LoopPc] /\ running \in [Managers -> SUBSET Calls]
  BY DEF ManagerInv, GateInv, SlotTypes, DataTypes, LoopInv
<1>3. ASSUME NEW w \in Calls
      PROVE  Registered(w)' <=> Registered(w)
  BY <1>1, <1>2 DEF Registered, Mgr, Uri
<1>4. ASSUME NEW w \in Calls, w # c
      PROVE  WatcherOK(w)'
  <2>1. pc'[w] = pc[w] /\ watcher'[w] = watcher[w] /\ loop'[w] = loop[w]
    BY <1>1, <1>2, <1>4
  <2>2. Untouched(w)
    BY <1>1, <1>3, <2>1 DEF Untouched
  <2>3. pc[w] # "idle" /\ w \in running'[Mgr(w)] => w \in running[Mgr(w)]
    <3>1. pc[w] # "idle" => Mgr(w) \in Managers
      BY DEF ManagerInv, GateInv, ArgumentsKnown, Mgr
    <3>2. QED
      BY <1>1, <1>2, <1>4, <3>1
  <2>4. Elsewhere(w)
    BY <1>1, <1>2, <2>3 DEF Elsewhere
  <2>5. QED
    BY <2>2, <2>4, OthersStay
<1>5. WatcherOK(c)'
  <2>1. WatcherOK(c) /\ loop[c] = "none" /\ pc'[c] = "ok" /\ loop'[c] = "sleep"
    BY <1>1, <1>2 DEF ManagerInv, WatcherInv, LoopInv
  <2>2. /\ watcher'[c].ready = "started" /\ watcher'[c].subs = watcher[c].subs
        /\ watcher'[c].ctx = watcher[c].ctx /\ watcher'[c].demoted = watcher[c].demoted
        /\ watcher'[c].evicted = watcher[c].evicted /\ watcher'[c].timer = watcher[c].timer
    <3>1. watcher[c] \in Watcher
      BY <1>2
    <3>2. watcher'[c] = [watcher[c] EXCEPT !.digest = answer[c].version, !.ready = "started",
                                           !.leaseAt = now + Lease, !.endsAt = now + MaxLifetime]
      BY <1>1, <1>2
    <3>3. QED
      BY <3>1, <3>2 DEF Watcher
  <2>3. ~watcher[c].demoted /\ c \notin toCancel /\ watcher[c].timer = "cadence"
    BY <1>1, <2>1 DEF WatcherOK, Launched, Beginning
  <2>4. QED
    BY <1>1, <1>3, <2>1, <2>2, <2>3 DEF WatcherOK, Launched, Beginning
<1>6. QED
  BY <1>4, <1>5

LEMMA CallKeepsWatchers ==
    ASSUME ManagerInv, DataTypes', NEW c \in Calls, CallStep(c) \/ GiveUp(c)
    PROVE  \A w \in Calls : WatcherOK(w)'
<1>0. pc \in [Calls -> CallPc] /\ answer \in [Calls -> Answer]
  BY DEF ManagerInv, GateInv, SlotTypes, DataTypes
<1>1. CASE Insert(c) \/ InsertEvicting(c)
  BY <1>1, InsertKeepsWatchers, InsertEvictingKeepsWatchers
<1>2. CASE AbandonFailed(c) \/ AbandonClosed(c) \/ AbandonWithdrawn(c)
  BY <1>2, AbandonKeepsWatchers
<1>3. CASE Launch(c)
  BY <1>3, LaunchKeepsWatchers
<1>4. CASE RefuseTooMany(c) \/ FirstRead(c) \/ AwaitReady(c)
  <2>1. PICK p : /\ pc' = [pc EXCEPT ![c] = p]
                 /\ \/ pc[c] = "reserved" /\ p = "tooMany"
                    \/ pc[c] = "reading" /\ p = "read"
                    \/ pc[c] = "awaiting" /\ p \in {"ok", "failed", "closed"}
    BY <1>4 DEF RefuseTooMany, FirstRead, AwaitReady, StartReply, Answers
  <2>2. /\ UNCHANGED <<now, closed, registry, running, arg, loop, watcher, toCancel, toWake>>
        /\ \A w \in Calls : w # c => answer'[w] = answer[w]
    BY <1>0, <1>4 DEF RefuseTooMany, FirstRead, AwaitReady, environment, managerVars, loopVars, owed
  <2>3. pc[c] = "awaiting" => p \notin Beginning \cup {"idle", "reserved"}
    BY <2>1 DEF Beginning
  <2>4. QED
    BY <2>1, <2>2, <2>3, BystanderMovesOn
<1>5. CASE GiveUp(c)
  <2>1. /\ pc[c] = "awaiting" /\ pc' = [pc EXCEPT ![c] = "gaveUp"] /\ Unlocked(Mgr(c))
        /\ arg[c].sub \in Sessions /\ Uri(c) \in URIs
        /\ UNCHANGED <<now, closed, running, arg, loop, answer, toWake>>
    BY <1>5 DEF GiveUp, Answers, environment, loopVars, ManagerInv, GateInv, ArgumentsKnown, Uri
  <2>2. \A w \in Calls : pc'[w] = pc[w] \/ (pc[w] = "awaiting" /\ pc'[w] = "gaveUp")
    BY <1>0, <2>1
  <2>3. CASE Leaves(arg[c].sub, Uri(c))
    BY <2>1, <2>2, <2>3, LeavesKeepsWatchers DEF Mgr
  <2>4. CASE UNCHANGED <<registry, held, watcher, toCancel>>
    <3>1. "gaveUp" \notin Beginning \cup {"idle", "reserved"}
      BY DEF Beginning
    <3>2. QED
      BY <2>1, <2>4, <3>1, BystanderMovesOn
  <2>5. QED
    BY <1>5, <2>3, <2>4 DEF GiveUp
<1>6. QED
  BY <1>1, <1>2, <1>3, <1>4, <1>5 DEF CallStep

-----------------------------------------------------------------------------
(* The steps of a watch loop. *)
Stepping == {"sleep", "reading", "answered", "compare", "notify", "lease", "arm", "retire"}

(* The loop of v goes on, holding what it held. *)
LEMMA LoopGoesOn ==
    ASSUME ManagerInv, NEW v \in Calls, loop[v] \in Stepping, loop'[v] \in Stepping,
           UNCHANGED <<now, closed, registry, pc, arg, toCancel, toWake>>,
           watcher'[v].subs = watcher[v].subs, watcher'[v].ready = watcher[v].ready,
           watcher'[v].ctx = watcher[v].ctx, watcher'[v].leaseAt = watcher[v].leaseAt,
           watcher'[v].evicted = watcher[v].evicted,
           watcher'[v].demoted => now >= watcher[v].leaseAt,
           loop'[v] \in {"arm", "sleep"} /\ watcher'[v].timer = "slow" /\ ~watcher'[v].demoted
                => watcher'[v].renew \/ v \in toWake,
           loop'[v] = "retire" => watcher[v].ctx # "live" \/ answer'[v].kind = "inaccessible"
    PROVE  WatcherOK(v)'
<1>1. WatcherOK(v) /\ pc[v] = "ok"
  BY DEF ManagerInv, WatcherInv, LoopInv, Stepping
<1>2. Mgr(v)' = Mgr(v) /\ (Registered(v)' <=> Registered(v))
  BY DEF Registered, Mgr, Uri
<1>3. Launched(v) /\ Launched(v)'
  BY DEF Launched, Stepping
<1>4. CASE Registered(v)
  BY <1>1, <1>2, <1>3, <1>4 DEF WatcherOK, Beginning, Stepping
<1>5. CASE ~Registered(v)
  BY <1>1, <1>2, <1>3, <1>5 DEF WatcherOK, Beginning, Stepping
<1>6. QED
  BY <1>4, <1>5

(* The steps that only move the loop, or its answer and its digest. *)
LEMMA LoopMovesKeepWatcher ==
    ASSUME ManagerInv, NEW v \in Calls,
           \/ ContextDone(v) \/ Poll(v)
           \/ \E kind \in {"ok", "canceled"} \cup ReadFailures : ReadAnswers(v, kind)
           \/ ReadSucceeded(v) \/ ReadInaccessible(v) \/ ReadRateLimited(v) \/ ReadFailed(v)
           \/ UpdateDigest(v) \/ Notify(v) \/ ResetTimer(v)
    PROVE  WatcherOK(v)'
<1>1. watcher \in [Calls -> Watcher] /\ loop \in [Calls -> LoopPc] /\ WatcherOK(v)
  BY DEF ManagerInv, DataTypes, LoopInv, WatcherInv
<1>2. UNCHANGED <<now, closed, registry, pc, arg, toCancel, toWake>>
  BY DEF ContextDone, Poll, ReadAnswers, ReadSucceeded, ReadInaccessible, ReadRateLimited, ReadFailed,
         UpdateDigest, Notify, ResetTimer, environment, managerVars, callVars, owed
<1>3. /\ watcher'[v].subs = watcher[v].subs /\ watcher'[v].ready = watcher[v].ready
      /\ watcher'[v].ctx = watcher[v].ctx /\ watcher'[v].leaseAt = watcher[v].leaseAt
      /\ watcher'[v].evicted = watcher[v].evicted /\ watcher'[v].demoted = watcher[v].demoted
      /\ watcher'[v].timer = watcher[v].timer /\ watcher'[v].renew = watcher[v].renew
  <2>1. CASE watcher' = watcher
    BY <2>1
  <2>2. CASE watcher' = [watcher EXCEPT ![v].digest = answer[v].version]
    BY <1>1, <2>2 DEF Watcher
  <2>3. QED
    BY <2>1, <2>2 DEF ContextDone, Poll, ReadAnswers, ReadSucceeded, ReadInaccessible, ReadRateLimited,
         ReadFailed, UpdateDigest, Notify, ResetTimer
<1>4. /\ loop[v] \in Stepping /\ loop'[v] \in Stepping
      /\ loop'[v] \in {"arm", "sleep"} => loop[v] = "arm"
      /\ loop'[v] = "retire" => watcher[v].ctx # "live" \/ answer'[v].kind = "inaccessible"
  BY <1>1 DEF ContextDone, Poll, ReadAnswers, ReadSucceeded, ReadInaccessible, ReadRateLimited, ReadFailed,
         UpdateDigest, Notify, ResetTimer, Step, Stepping
<1>5. QED
  <2>1. watcher[v].demoted => now >= watcher[v].leaseAt
    BY <1>1 DEF WatcherOK
  <2>2. loop'[v] \in {"arm", "sleep"} /\ watcher[v].timer = "slow" /\ ~watcher[v].demoted
          => watcher[v].renew \/ v \in toWake
    BY <1>1, <1>4 DEF WatcherOK
  <2>3. QED
    BY <1>2, <1>3, <1>4, <2>1, <2>2, LoopGoesOn

(* The steps that set the watcher's timer. *)
LEMMA TimersKeepWatcher ==
    ASSUME ManagerInv, NEW v \in Calls, Resume(v) \/ SitOutPause(v) \/ ApplyLease(v)
    PROVE  WatcherOK(v)'
<1>1. watcher[v] \in Watcher /\ watcher \in [Calls -> Watcher] /\ loop \in [Calls -> LoopPc] /\ WatcherOK(v)
  BY DEF ManagerInv, DataTypes, LoopInv, WatcherInv
<1>2. UNCHANGED <<now, closed, registry, pc, arg, toCancel, toWake>>
  BY DEF Resume, SitOutPause, ApplyLease, environment, managerVars, callVars, owed
<1>3. CASE Resume(v) \/ SitOutPause(v)
  <2>1. loop[v] = "sleep" /\ loop'[v] = "sleep"
    BY <1>3 DEF Resume, SitOutPause, loopVars
  <2>2. \E r \in BOOLEAN : watcher'[v] = [watcher[v] EXCEPT !.renew = r, !.timer = "cadence"]
    <3>1. CASE Resume(v)
      BY <1>1, <3>1 DEF Resume
    <3>2. CASE SitOutPause(v)
      <4>1. watcher'[v] = [watcher[v] EXCEPT !.timer = "cadence"]
        BY <1>1, <3>2 DEF SitOutPause
      <4>2. watcher[v].renew \in BOOLEAN /\ watcher'[v] = [watcher[v] EXCEPT !.renew = watcher[v].renew, !.timer = "cadence"]
        BY <1>1, <4>1 DEF Watcher
      <4>3. QED
        BY <4>2
    <3>3. QED
      BY <1>3, <3>1, <3>2
  <2>3. /\ watcher'[v].subs = watcher[v].subs /\ watcher'[v].ready = watcher[v].ready
        /\ watcher'[v].ctx = watcher[v].ctx /\ watcher'[v].leaseAt = watcher[v].leaseAt
        /\ watcher'[v].evicted = watcher[v].evicted /\ watcher'[v].demoted = watcher[v].demoted
        /\ watcher'[v].timer = "cadence"
    BY <1>1, <2>2 DEF Watcher
  <2>4. watcher[v].demoted => now >= watcher[v].leaseAt
    BY <1>1 DEF WatcherOK
  <2>5. QED
    BY <1>2, <2>1, <2>3, <2>4, LoopGoesOn DEF Stepping
<1>4. CASE ApplyLease(v)
  <2> DEFINE slow == watcher[v].demoted \/ now >= watcher[v].leaseAt
  <2>1. loop[v] = "lease" /\ loop'[v] = "arm"
    BY <1>1, <1>4 DEF ApplyLease, Step
  <2>2. watcher'[v] = [watcher[v] EXCEPT !.demoted = slow, !.timer = IF slow THEN "slow" ELSE "cadence"]
    BY <1>1, <1>4 DEF ApplyLease
  <2>3. /\ watcher'[v].subs = watcher[v].subs /\ watcher'[v].ready = watcher[v].ready
        /\ watcher'[v].ctx = watcher[v].ctx /\ watcher'[v].leaseAt = watcher[v].leaseAt
        /\ watcher'[v].evicted = watcher[v].evicted /\ watcher'[v].demoted = slow
        /\ watcher'[v].timer = IF slow THEN "slow" ELSE "cadence"
    BY <1>1, <2>2 DEF Watcher
  <2>4. slow => now >= watcher[v].leaseAt
    BY <1>1 DEF WatcherOK
  <2>5. QED
    BY <1>2, <2>1, <2>3, <2>4, LoopGoesOn DEF Stepping
<1>5. QED
  BY <1>3, <1>4

(* The loop ends: it leaves the registry first, and the WaitGroup last. *)
LEMMA EndsKeepWatcher ==
    ASSUME ManagerInv, NEW v \in Calls, Retire(v) \/ Announce(v)
    PROVE  /\ WatcherOK(v)'
           /\ \A w \in Calls : w # v => (Registered(w)' <=> Registered(w))
           /\ \A w \in Calls : w # v => watcher'[w] = watcher[w]
           /\ \A m \in Managers : running'[m] \subseteq running[m]
<1>1. /\ watcher[v] \in Watcher /\ watcher \in [Calls -> Watcher] /\ loop \in [Calls -> LoopPc]
      /\ WatcherOK(v) /\ running \in [Managers -> SUBSET Calls]
  BY DEF ManagerInv, DataTypes, LoopInv, WatcherInv
<1>2. UNCHANGED <<now, closed, pc, arg, answer, toCancel, toWake>>
  BY DEF Retire, Announce, environment, callVars, owed
<1>3. loop[v] \in {"retire", "announce"} /\ pc[v] = "ok" /\ Launched(v) /\ Mgr(v) \in Managers
  <2>1. loop[v] \in {"retire", "announce"}
    BY DEF Retire, Announce, Step
  <2>2. pc[v] = "ok"
    BY <2>1 DEF ManagerInv, LoopInv
  <2>3. QED
    BY <2>1, <2>2 DEF ManagerInv, GateInv, ArgumentsKnown, Launched, Mgr
<1>4. ~Registered(v)' /\ \A w \in Calls : w # v => (Registered(w)' <=> Registered(w))
  <2>1. CASE Retire(v)
    <3>1. Drop(Mgr(v), {v})
      BY <2>1 DEF Retire, DropIfRegistered
    <3>2. ASSUME NEW w \in Calls, pc[w] # "idle"
          PROVE  Registered(w)' <=> Registered(w) /\ w # v
      BY <1>2, <1>3, <3>1, <3>2, DropUnregisters DEF ManagerInv
    <3>3. \A w \in Calls : pc[w] = "idle" => ~Registered(w) /\ ~Registered(w)'
      BY <1>2 DEF Registered
    <3>4. QED
      BY <1>3, <3>2, <3>3
  <2>2. CASE Announce(v)
    <3>1. registry' = registry /\ loop[v] = "announce"
      BY <2>2 DEF Announce, Step
    <3>2. \A w \in Calls : Registered(w)' <=> Registered(w)
      BY <1>2, <3>1 DEF Registered, Mgr, Uri
    <3>3. QED
      BY <1>1, <3>1, <3>2 DEF WatcherOK
  <2>3. QED
    BY <2>1, <2>2
<1>5. /\ \/ loop'[v] = "announce" /\ UNCHANGED <<running, watcher>>
         \/ loop'[v] = "done" /\ GoroutineEnds(v)
  BY <1>1 DEF Retire, Announce, Step
<1>6. /\ watcher'[v].subs = watcher[v].subs /\ watcher'[v].ready = watcher[v].ready
      /\ watcher'[v].leaseAt = watcher[v].leaseAt /\ watcher'[v].demoted = watcher[v].demoted
      /\ \A w \in Calls : w # v => watcher'[w] = watcher[w]
      /\ \A m \in Managers : running'[m] \subseteq running[m]
      /\ loop'[v] = "done" => v \notin running'[Mgr(v)]
  <2>1. CASE UNCHANGED <<running, watcher>> /\ loop'[v] = "announce"
    BY <2>1
  <2>2. CASE GoroutineEnds(v)
    BY <1>1, <1>3, <2>2 DEF GoroutineEnds, Watcher
  <2>3. QED
    BY <1>5, <2>1, <2>2
<1>7. WatcherOK(v)'
  <2>1. Launched(v)' /\ Mgr(v)' = Mgr(v)
    BY <1>2, <1>5 DEF Launched, Mgr
  <2>2. QED
    BY <1>1, <1>2, <1>3, <1>4, <1>5, <1>6, <2>1 DEF WatcherOK, Beginning
<1>8. QED
  BY <1>4, <1>6, <1>7

LEMMA LoopKeepsWatchers ==
    ASSUME ManagerInv, DataTypes', NEW v \in Calls, LoopStep(v)
    PROVE  \A w \in Calls : WatcherOK(w)'
<1>1. watcher \in [Calls -> Watcher] /\ loop \in [Calls -> LoopPc] /\ answer \in [Calls -> Answer] /\ now \in Nat
  BY DEF ManagerInv, DataTypes, LoopInv
<1>2. UNCHANGED <<now, closed, pc, arg, toCancel, toWake>>
  BY DEF LoopStep, ContextDone, Resume, Poll, SitOutPause, ReadAnswers, ReadSucceeded, ReadInaccessible,
         ReadRateLimited, ReadFailed, UpdateDigest, Notify, ApplyLease, ResetTimer, Retire, Announce,
         environment, managerVars, callVars, owed
<1>3. \A w \in Calls : w # v => loop'[w] = loop[w] /\ answer'[w] = answer[w]
  BY <1>1 DEF LoopStep, ContextDone, Resume, Poll, SitOutPause, ReadAnswers, ReadSucceeded, ReadInaccessible,
         ReadRateLimited, ReadFailed, UpdateDigest, Notify, ApplyLease, ResetTimer, Retire, Announce,
         Step, loopVars
<1>4. /\ \A w \in Calls : w # v => watcher'[w] = watcher[w]
      /\ \A w \in Calls : w # v => (Registered(w)' <=> Registered(w))
      /\ \A m \in Managers : running'[m] \subseteq running[m]
  <2>1. CASE Retire(v) \/ Announce(v)
    BY <2>1, EndsKeepWatcher
  <2>2. CASE ~(Retire(v) \/ Announce(v))
    <3>1. UNCHANGED <<registry, running>>
      BY <2>2 DEF LoopStep, ContextDone, Resume, Poll, SitOutPause, ReadAnswers, ReadSucceeded,
         ReadInaccessible, ReadRateLimited, ReadFailed, UpdateDigest, Notify, ApplyLease, ResetTimer, managerVars
    <3>2. \A w \in Calls : w # v => watcher'[w] = watcher[w]
      BY <1>1, <2>2 DEF LoopStep, ContextDone, Resume, Poll, SitOutPause, ReadAnswers, ReadSucceeded,
         ReadInaccessible, ReadRateLimited, ReadFailed, UpdateDigest, Notify, ApplyLease, ResetTimer
    <3>3. QED
      BY <1>2, <3>1, <3>2 DEF Registered, Mgr, Uri
  <2>3. QED
    BY <2>1, <2>2
<1>5. ASSUME NEW w \in Calls, w # v
      PROVE  WatcherOK(w)'
  <2>1. Untouched(w)
    BY <1>2, <1>3, <1>4, <1>5 DEF Untouched
  <2>2. pc[w] # "idle" => Mgr(w) \in Managers
    BY DEF ManagerInv, GateInv, ArgumentsKnown, Mgr
  <2>3. Elsewhere(w)
    BY <1>1, <1>2, <1>4, <2>2 DEF Elsewhere
  <2>4. QED
    BY <2>1, <2>3, OthersStay
<1>6. WatcherOK(v)'
  BY EndsKeepWatcher, TimersKeepWatcher, LoopMovesKeepWatcher DEF LoopStep
<1>7. QED
  BY <1>5, <1>6

LEMMA ClientKeepsWatchers ==
    ASSUME ManagerInv, DataTypes', NEW s \in Sessions, ClientStep(s)
    PROVE  \A w \in Calls : WatcherOK(w)'
<1>1. ASSUME NEW u \in URIs, NEW c \in Calls, Subscribe(c, s, u)
      PROVE  \A w \in Calls : WatcherOK(w)'
  BY <1>1, StartingKeepsWatchers, JoinKeepsWatchers DEF Subscribe
<1>2. ASSUME NEW u \in URIs, Unsubscribe(s, u)
      PROVE  \A w \in Calls : WatcherOK(w)'
  BY <1>2, LeavesKeepsWatchers DEF Unsubscribe, environment, callVars, loopVars
<1>3. CASE RenewAll(s)
  <2>1. WatchersOf(ManagerOf[s]) \subseteq Calls
    BY RegisteredAreCalls DEF ManagerInv, GateInv
  <2>2. QED
    BY <1>3, <2>1, RenewKeepsWatchers DEF RenewAll
<1>4. QED
  BY <1>1, <1>2, <1>3, UnsubscribeAllKeepsWatchers DEF ClientStep

LEMMA ManagerKeepsWatchers ==
    ASSUME ManagerInv, DataTypes', NEW m \in Managers, ManagerStep(m)
    PROVE  \A w \in Calls : WatcherOK(w)'
<1>1. ASSUME NEW u \in URIs, Renew(m, u)
      PROVE  \A w \in Calls : WatcherOK(w)'
  <2>1. {registry[m][u]} \subseteq Calls
    BY <1>1, RegistryHolds DEF ManagerInv, Renew
  <2>2. QED
    BY <1>1, <2>1, RenewKeepsWatchers DEF Renew
<1>2. QED
  BY <1>1, CloseKeepsWatchers DEF ManagerStep

LEMMA WatchersStep ==
    ASSUME ManagerInv, DataTypes', [Next]_vars
    PROVE  \A w \in Calls : WatcherOK(w)'
BY ClientKeepsWatchers, ManagerKeepsWatchers, CallKeepsWatchers, LoopKeepsWatchers, NudgesKeepWatchers,
   EnvironmentKeepsWatchers DEF Next

-----------------------------------------------------------------------------
(* What decided a first read is never undone, and a watcher is told to make
   room by one action only.                                                 *)
ReadyKept ==
    \A w \in Calls :
        /\ watcher[w].ready \in {"started", "withdrawn"} => watcher'[w].ready = watcher[w].ready
        /\ watcher'[w].evicted => watcher[w].evicted \/ \E c \in Calls : InsertEvicting(c)

LEMMA CallKeepsReady ==
    ASSUME ManagerInv, NEW c \in Calls, CallStep(c) \/ GiveUp(c)
    PROVE  ReadyKept
<1>1. watcher \in [Calls -> Watcher] /\ WatcherOK(c)
  BY DEF ManagerInv, DataTypes, WatcherInv
<1>2. CASE Insert(c)
  <2>1. /\ watcher[c].ready = "wait" /\ \A w \in Calls : w # c => watcher'[w] = watcher[w]
        /\ ~watcher'[c].evicted
    BY <1>1, <1>2 DEF Insert, WatcherOK, NewWatcher
  <2>2. QED
    BY <2>1 DEF ReadyKept
<1>3. CASE InsertEvicting(c)
  <2>1. PICK v \in Calls : Displaces(c, v)
    BY <1>3, InsertEvictingDisplaces DEF ManagerInv
  <2>2. watcher'[v].ready = watcher[v].ready /\ watcher[c].ready = "wait"
    BY <1>1, <2>1 DEF Displaces, WatcherOK, Watcher
  <2>3. QED
    BY <1>3, <2>1, <2>2 DEF ReadyKept, Displaces
<1>4. CASE AbandonFailed(c) \/ AbandonClosed(c) \/ AbandonWithdrawn(c) \/ Launch(c)
  <2>1. watcher[c].ready = "wait"
    BY <1>1, <1>4 DEF AbandonFailed, AbandonClosed, AbandonWithdrawn, Launch, WatcherOK, Beginning
  <2>2. /\ \A w \in Calls : w # c => watcher'[w] = watcher[w]
        /\ watcher'[c].evicted = watcher[c].evicted
    BY <1>1, <1>4 DEF AbandonFailed, AbandonClosed, AbandonWithdrawn, Abandon, Launch, Watcher
  <2>3. QED
    BY <2>1, <2>2 DEF ReadyKept
<1>5. CASE RefuseTooMany(c) \/ FirstRead(c) \/ AwaitReady(c)
  BY <1>5 DEF RefuseTooMany, FirstRead, AwaitReady, ReadyKept
<1>6. CASE GiveUp(c)
  <2>1. CASE watcher' = watcher
    BY <2>1 DEF ReadyKept
  <2>2. CASE \E v, s : watcher' = [watcher EXCEPT ![v].subs = @ \ {s}]
    BY <1>1, <2>2 DEF ReadyKept, Watcher
  <2>3. QED
    BY <1>6, <2>1, <2>2 DEF GiveUp, Leaves
<1>7. QED
  BY <1>2, <1>3, <1>4, <1>5, <1>6 DEF CallStep

LEMMA RenewKeepsReady ==
    ASSUME ManagerInv, NEW W, RenewLocked(W)
    PROVE  ReadyKept
<1>1. ASSUME NEW w \in Calls
      PROVE  watcher'[w].ready = watcher[w].ready /\ watcher'[w].evicted = watcher[w].evicted
  <2>1. watcher[w] \in Watcher
    BY DEF ManagerInv, DataTypes
  <2>2. \/ watcher'[w] = [watcher[w] EXCEPT !.leaseAt = now + Lease, !.demoted = FALSE]
        \/ watcher'[w] = watcher[w]
    BY DEF RenewLocked
  <2>3. QED
    BY <2>1, <2>2 DEF Watcher
<1>2. QED
  BY <1>1 DEF ReadyKept

LEMMA OthersKeepReady ==
    ASSUME ManagerInv, [Next]_vars, \A c \in Calls : ~(CallStep(c) \/ GiveUp(c))
    PROVE  ReadyKept
<1>1. watcher \in [Calls -> Watcher]
  BY DEF ManagerInv, DataTypes
<1>2. ASSUME NEW s \in Sessions, ClientStep(s)
      PROVE  ReadyKept
  <2>1. CASE watcher' = watcher
    BY <2>1 DEF ReadyKept
  <2>2. CASE \E v, x : watcher' = [watcher EXCEPT ![v].subs = x]
    BY <1>1, <2>2 DEF ReadyKept, Watcher
  <2>3. CASE UnsubscribeAll(s)
    BY <1>1, <2>3 DEF UnsubscribeAll, ReadyKept, Watcher
  <2>4. CASE RenewAll(s)
    BY <2>4, RenewKeepsReady DEF RenewAll
  <2>5. ASSUME NEW u \in URIs, NEW c \in Calls, Subscribe(c, s, u)
        PROVE  watcher' = watcher \/ \E v, x : watcher' = [watcher EXCEPT ![v].subs = x]
    BY <2>5 DEF Subscribe, RefuseURI, RefuseClosed, Join, RefuseAtCapacity, Reserve
  <2>6. ASSUME NEW u \in URIs, Unsubscribe(s, u)
        PROVE  watcher' = watcher \/ \E v, x : watcher' = [watcher EXCEPT ![v].subs = x]
    BY <2>6 DEF Unsubscribe, Leaves
  <2>7. QED
    BY <1>2, <2>1, <2>2, <2>3, <2>4, <2>5, <2>6 DEF ClientStep
<1>3. ASSUME NEW m \in Managers, ManagerStep(m)
      PROVE  ReadyKept
  <2>1. CASE Close(m) \/ CloseReturns(m)
    BY <2>1 DEF Close, CloseReturns, ReadyKept
  <2>2. ASSUME NEW u \in URIs, Renew(m, u)
        PROVE  ReadyKept
    BY <2>2, RenewKeepsReady DEF Renew
  <2>3. QED
    BY <1>3, <2>1, <2>2 DEF ManagerStep
<1>4. ASSUME NEW v \in Calls, LoopStep(v)
      PROVE  ReadyKept
  <2>1. CASE watcher' = watcher
    BY <2>1 DEF ReadyKept
  <2>2. CASE Resume(v) \/ SitOutPause(v) \/ UpdateDigest(v) \/ ApplyLease(v) \/ Retire(v) \/ Announce(v)
    <3>1. watcher[v] \in Watcher
      BY <1>1
    <3>2. /\ watcher'[v].ready = watcher[v].ready /\ watcher'[v].evicted = watcher[v].evicted
          /\ \A w \in Calls : w # v => watcher'[w] = watcher[w]
      BY <1>1, <2>2, <3>1 DEF Resume, SitOutPause, UpdateDigest, ApplyLease, Retire, Announce,
                              GoroutineEnds, Watcher
    <3>3. QED
      BY <3>2 DEF ReadyKept
  <2>3. QED
    BY <1>4, <2>1, <2>2 DEF LoopStep, ContextDone, Poll, ReadAnswers, ReadSucceeded, ReadInaccessible,
         ReadRateLimited, ReadFailed, Notify, ResetTimer
<1>5. ASSUME NEW v \in Calls, LifetimeEnds(v) \/ Cancel(v) \/ Wake(v)
      PROVE  ReadyKept
  BY <1>1, <1>5 DEF LifetimeEnds, Cancel, Wake, ReadyKept, Watcher
<1>6. CASE Tick \/ (\E u \in URIs : Change(u)) \/ UNCHANGED vars
  BY <1>6 DEF Tick, Change, vars, ReadyKept
<1>7. QED
  BY <1>2, <1>3, <1>4, <1>5, <1>6 DEF Next

LEMMA ReadyStays ==
    ASSUME ManagerInv, [Next]_vars
    PROVE  ReadyKept
BY CallKeepsReady, OthersKeepReady

(* A call turns to success in one of three ways. *)
LEMMA SuccessStep ==
    ASSUME ManagerInv, [Next]_vars
    PROVE  \A c \in Calls : SuccessOK(c)'
<1>1. ASSUME NEW c \in Calls, pc'[c] = "ok", pc[c] # "ok"
      PROVE  AbandonWithdrawn(c) \/ Launch(c) \/ AwaitReady(c)
  <2>1. pc \in [Calls -> CallPc]
    BY DEF ManagerInv, GateInv, SlotTypes
  <2>2. ASSUME NEW s \in Sessions, ClientStep(s)
        PROVE  FALSE
    <3>1. ASSUME NEW u \in URIs, NEW d \in Calls, Subscribe(d, s, u)
          PROVE  \E p : p # "ok" /\ pc' = [pc EXCEPT ![d] = p]
      BY <3>1 DEF Subscribe, RefuseURI, RefuseClosed, Join, RefuseAtCapacity, Reserve, Answers
    <3>2. CASE pc' = pc
      BY <1>1, <3>2
    <3>3. QED
      BY <1>1, <2>1, <2>2, <3>1, <3>2 DEF ClientStep, Unsubscribe, UnsubscribeAll, RenewAll, RenewLocked, callVars
  <2>3. ASSUME NEW d \in Calls, CallStep(d) \/ GiveUp(d)
        PROVE  AbandonWithdrawn(c) \/ Launch(c) \/ AwaitReady(c)
    <3>1. \E p : pc' = [pc EXCEPT ![d] = p]
      BY <2>3 DEF CallStep, GiveUp, RefuseTooMany, Insert, InsertEvicting, Place, FirstRead, AbandonFailed,
                  AbandonClosed, AbandonWithdrawn, Abandon, Launch, AwaitReady, Answers
    <3>2. d = c
      BY <1>1, <2>1, <3>1
    <3>3. QED
      BY <1>1, <2>1, <2>3, <3>2 DEF CallStep, GiveUp, RefuseTooMany, Insert, InsertEvicting, Place,
                  FirstRead, AbandonFailed, AbandonClosed, Abandon, Answers
  <2>4. ASSUME NEW m \in Managers, ManagerStep(m)
        PROVE  FALSE
    BY <1>1, <2>4 DEF ManagerStep, Close, CloseReturns, Renew, RenewLocked, callVars
  <2>5. ASSUME NEW w \in Calls, LoopStep(w) \/ LifetimeEnds(w) \/ Cancel(w) \/ Wake(w)
        PROVE  FALSE
    <3>1. pc' = pc
      BY <2>5 DEF LoopStep, ContextDone, Resume, Poll, SitOutPause, ReadAnswers, ReadSucceeded,
                ReadInaccessible, ReadRateLimited, ReadFailed, UpdateDigest, Notify, ApplyLease,
                ResetTimer, Retire, Announce, LifetimeEnds, Cancel, Wake, callVars
    <3>2. QED
      BY <1>1, <3>1
  <2>6. CASE Tick \/ (\E u \in URIs : Change(u)) \/ UNCHANGED vars
    BY <1>1, <2>6 DEF Tick, Change, vars, callVars
  <2>7. QED
    BY <2>2, <2>3, <2>4, <2>5, <2>6 DEF Next
<1>2. ReadyKept /\ \A w \in Calls : pc[w] # "idle" => arg'[w] = arg[w]
  BY ReadyStays, ArgumentsStay DEF ManagerInv, GateInv
<1>3. ASSUME NEW c \in Calls, pc'[c] = "ok"
      PROVE  arg'[c].watcher \in Calls /\ watcher'[arg'[c].watcher].ready \in {"started", "withdrawn"}
  <2>0. watcher \in [Calls -> Watcher] /\ WatcherOK(c) /\ SuccessOK(c)
    BY DEF ManagerInv, WatcherInv, DataTypes
  <2>1. CASE pc[c] = "ok"
    BY <1>2, <2>0, <2>1 DEF SuccessOK, ReadyKept
  <2>2. CASE AbandonWithdrawn(c) \/ Launch(c)
    <3>1. pc[c] = "read" /\ arg'[c].watcher = c
      BY <1>2, <2>0, <2>2 DEF AbandonWithdrawn, Launch, WatcherOK, Beginning
    <3>2. watcher'[c].ready \in {"started", "withdrawn"}
      BY <2>0, <2>2 DEF AbandonWithdrawn, Abandon, Launch, Watcher
    <3>3. QED
      BY <3>1, <3>2
  <2>3. CASE AwaitReady(c)
    <3>1. pc[c] = "awaiting" /\ arg'[c] = arg[c] /\ arg[c].watcher \in Calls
      BY <1>2, <2>3 DEF AwaitReady, ManagerInv, GateInv, ArgumentsKnown
    <3>2. "ok" = StartReply(arg[c].watcher) /\ watcher' = watcher
      BY <1>3, <2>3 DEF AwaitReady, Answers, ManagerInv, GateInv, SlotTypes
    <3>3. watcher[arg[c].watcher].ready \in {"started", "withdrawn"}
      BY <3>2 DEF StartReply
    <3>4. QED
      BY <3>1, <3>2, <3>3
  <2>4. QED
    BY <1>1, <1>3, <2>1, <2>2, <2>3
<1>4. QED
  BY <1>3 DEF SuccessOK

-----------------------------------------------------------------------------
LEMMA WatcherInvInit ==
    ASSUME Init
    PROVE  WatcherInv
<1>1. ASSUME NEW w \in Calls
      PROVE  WatcherOK(w) /\ SuccessOK(w)
  <2>1. /\ pc[w] = "idle" /\ loop[w] = "none" /\ watcher[w] = NewWatcher({})
        /\ toCancel = {}
    BY DEF Init
  <2>2. watcher[w].ready = "wait" /\ ~watcher[w].demoted
    BY <2>1 DEF NewWatcher
  <2>3. QED
    BY <2>1, <2>2 DEF WatcherOK, SuccessOK, Registered, Launched, Beginning
<1>2. QED
  BY <1>1 DEF WatcherInv

LEMMA ManagerInvariance == Spec => [](ManagerInv /\ WaitInv)
<1>1. Init => WatcherInv /\ WaitInv
  BY WatcherInvInit DEF Init, WaitInv, Looping
<1>2. ManagerInv /\ DataTypes' /\ [Next]_vars => WatcherInv'
  BY WatchersStep, SuccessStep DEF WatcherInv
<1>3. WaitInv /\ LoopInv /\ DataTypes /\ GateInv /\ [Next]_vars => WaitInv'
  BY WaitInvStep
<1>4. DataTypes /\ GateInv /\ LoopInv /\ WatcherInv <=> ManagerInv
  BY DEF ManagerInv
<1>5. QED
  BY <1>1, <1>2, <1>3, <1>4, TypeInvariance, PTL DEF Spec

(* Whoever can be reached by a watcher is in its set, and no poll loop runs on
   for the rest of its lifetime with nobody to cancel it, however the last
   unsubscription, an expired wait, a Close or an eviction interleaves with
   the first read and the launch (Manager.start, abandonLocked).            *)
THEOREM NothingRunsUnseen == Spec => []NoOrphan
<1>1. ManagerInv => NoOrphan
  BY DEF ManagerInv, WatcherInv, WatcherOK, NoOrphan
<1>2. QED
  BY <1>1, ManagerInvariance, PTL

(* No Subscribe call is told success before the one first read it shares was
   judged good, or its watcher was withdrawn because nobody holds it.        *)
THEOREM SuccessIsEarned == Spec => []SuccessMeansRead
<1>1. ManagerInv => SuccessMeansRead
  <2> SUFFICES ASSUME ManagerInv, NEW c \in Calls, pc[c] = "ok"
               PROVE  \/ watcher[arg[c].watcher].ready = "started"
                      \/ /\ watcher[arg[c].watcher].ready = "withdrawn"
                         /\ arg[c].sub \notin watcher[arg[c].watcher].subs
    BY DEF SuccessMeansRead
  <2>1. arg[c].watcher \in Calls /\ watcher[arg[c].watcher].ready \in {"started", "withdrawn"}
    BY DEF ManagerInv, WatcherInv, SuccessOK
  <2>2. watcher[arg[c].watcher].ready = "withdrawn" => watcher[arg[c].watcher].subs = {}
    BY <2>1 DEF ManagerInv, WatcherInv, WatcherOK
  <2>3. QED
    BY <2>1, <2>2
<1>2. QED
  BY <1>1, ManagerInvariance, PTL

(* A watcher demoted to the slow cadence and renewed since is not left to its
   slow sleep, whichever of the renewal, the nudge and the reset of its timer
   comes first (renewLocked, wake, applyLease).                              *)
THEOREM RenewalIsNoticed == Spec => []RevivedIsWoken
<1>1. ManagerInv => RevivedIsWoken
  BY DEF ManagerInv, WatcherInv, WatcherOK, RevivedIsWoken
<1>2. QED
  BY <1>1, ManagerInvariance, PTL

(* Room is made by one step only, the one that puts the new watcher in place
   of a demoted one of the same manager whose lease has run out.             *)
THEOREM RoomIsMadeAtOnce == Spec => EvictionMakesRoom
<1> DEFINE Made == \A v \in Calls : watcher'[v].evicted /\ ~watcher[v].evicted =>
                        /\ now >= watcher[v].leaseAt
                        /\ \E c \in Calls : /\ pc[c] = "reserved" /\ pc'[c] = "reading"
                                            /\ Mgr(c) = Mgr(v) /\ Registered(c)'
<1>1. ManagerInv /\ [Next]_vars => [Made]_vars
  <2> SUFFICES ASSUME ManagerInv, [Next]_vars, NEW v \in Calls, watcher'[v].evicted, ~watcher[v].evicted
               PROVE  /\ now >= watcher[v].leaseAt
                      /\ \E c \in Calls : /\ pc[c] = "reserved" /\ pc'[c] = "reading"
                                          /\ Mgr(c) = Mgr(v) /\ Registered(c)'
    OBVIOUS
  <2>1. PICK c \in Calls : InsertEvicting(c)
    BY ReadyStays DEF ReadyKept
  <2>2. PICK d \in Calls : Displaces(c, d)
    BY <2>1, InsertEvictingDisplaces DEF ManagerInv
  <2>3. v = d
    BY <2>2 DEF Displaces, NewWatcher
  <2>4. now >= watcher[v].leaseAt
    BY <2>2, <2>3 DEF Displaces, ManagerInv, WatcherInv, WatcherOK
  <2>5. QED
    BY <2>2, <2>3, <2>4 DEF Displaces
<1>2. QED
  BY <1>1, ManagerInvariance, PTL DEF Spec, EvictionMakesRoom

(* While GitLab has a credential paused, a read of that credential that was
   in flight and succeeds does not lift the pause, nor take anything from the
   back-off streak, whichever of its watchers it belongs to (clearRateLimit). *)
THEOREM PausesHold == Spec => PauseOutlivesSuccess
<1> DEFINE Held == \A m \in Managers : Paused(m) =>
                        rateLimits'[m] >= rateLimits[m] /\ pausedUntil'[m] > now
<1>1. DataTypes /\ GateInv /\ LoopInv /\ [Next]_vars => [Held]_pauseVars
  <2> SUFFICES ASSUME DataTypes, GateInv, LoopInv, [Next]_vars, pauseVars' # pauseVars,
                      NEW m \in Managers, Paused(m)
               PROVE  rateLimits'[m] >= rateLimits[m] /\ pausedUntil'[m] > now
    OBVIOUS
  <2>1. /\ now \in Nat /\ rateLimits \in [Managers -> Nat] /\ pausedUntil \in [Managers -> Nat]
        /\ now < pausedUntil[m]
    BY DEF DataTypes, Paused
  <2>2. PICK w \in Calls : LoopStep(w)
    <3>1. ASSUME NEW s \in Sessions, ClientStep(s)
          PROVE  pauseVars' = pauseVars
      BY <3>1 DEF ClientStep, Subscribe, RefuseURI, RefuseClosed, Join, RefuseAtCapacity, Reserve, Unsubscribe,
                  UnsubscribeAll, RenewAll, RenewLocked
    <3>2. ASSUME NEW k \in Managers, ManagerStep(k)
          PROVE  pauseVars' = pauseVars
      BY <3>2 DEF ManagerStep, Close, CloseReturns, Renew, RenewLocked
    <3>3. ASSUME NEW c \in Calls, CallStep(c) \/ GiveUp(c)
          PROVE  pauseVars' = pauseVars
      BY <3>3 DEF CallStep, GiveUp, RefuseTooMany, Insert, InsertEvicting, Place, FirstRead, AbandonFailed,
                  AbandonClosed, AbandonWithdrawn, Abandon, Launch, AwaitReady
    <3>4. ASSUME NEW c \in Calls, LifetimeEnds(c) \/ Cancel(c) \/ Wake(c)
          PROVE  pauseVars' = pauseVars
      BY <3>4 DEF LifetimeEnds, Cancel, Wake
    <3>5. CASE Tick \/ (\E u \in URIs : Change(u)) \/ UNCHANGED vars
      BY <3>5 DEF Tick, Change, vars
    <3>6. QED
      BY <3>1, <3>2, <3>3, <3>4, <3>5 DEF Next
  <2>3. Mgr(w) \in Managers
    BY <2>2 DEF LoopStep, Looping, LoopInv, GateInv, ArgumentsKnown, Mgr
  <2>4. CASE ReadSucceeded(w)
    <3>1. CASE now < pausedUntil[Mgr(w)]
      BY <2>4, <3>1 DEF ReadSucceeded, pauseVars
    <3>2. CASE ~(now < pausedUntil[Mgr(w)])
      <4>1. Mgr(w) # m
        BY <2>1, <3>2
      <4>2. rateLimits'[m] = rateLimits[m] /\ pausedUntil'[m] = pausedUntil[m]
        BY <2>1, <2>3, <2>4, <3>2, <4>1 DEF ReadSucceeded
      <4>3. QED
        BY <2>1, <4>2
    <3>3. QED
      BY <3>1, <3>2
  <2>5. CASE ReadRateLimited(w)
    <3>1. PICK wait \in Jittered(BackOff(rateLimits[Mgr(w)] + 1)) :
            pausedUntil' = [pausedUntil EXCEPT ![Mgr(w)] = now + wait]
      BY <2>5 DEF ReadRateLimited
    <3>2. wait \in Nat /\ wait > 0
      BY DEF Jittered
    <3>3. rateLimits' = [rateLimits EXCEPT ![Mgr(w)] = rateLimits[Mgr(w)] + 1]
      BY <2>5 DEF ReadRateLimited
    <3>4. QED
      BY <2>1, <2>3, <3>1, <3>2, <3>3
  <2>6. QED
    BY <2>2, <2>4, <2>5 DEF LoopStep, ContextDone, Resume, Poll, SitOutPause, ReadAnswers, ReadInaccessible,
           ReadFailed, UpdateDigest, Notify, ApplyLease, ResetTimer, Retire, Announce
<1>2. QED
  BY <1>1, TypeInvariance, PTL DEF Spec, PauseOutlivesSuccess

==============================================================================
