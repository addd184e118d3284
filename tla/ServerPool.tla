----------------------------- MODULE ServerPool -----------------------------
(***************************************************************************)
(* internal/serverpool/pool.go with the shape registry that feeds it       *)
(* (cmd/server/shape.go): the bounded pool of credential entries, built    *)
(* once per credential however many requests race for it, and every path   *)
(* that takes an entry away.  The pool's write lock is taken and given     *)
(* back inside one action.                                                 *)
(*                                                                         *)
(* An entry is named by the request whose build made it, and a shape's     *)
(* server by the build whose factory call made it.                         *)
(***************************************************************************)
EXTENDS Naturals, FiniteSets

CONSTANTS
    Keys,         \* credentials: sessionKey(token, gitlabURL)
    Shapes,       \* configuration shapes, one MCP server each
    ShapeOf,      \* the shape a credential's configuration has
    Requests,     \* calls of GetOrCreateEntryWithFacts, and what they build
    None,
    MaxSize,      \* ServerPool.maxSize
    ProbeSlots,   \* maxConcurrentCredentialProbes
    MaxAge,       \* ServerPool.maxCredentialAge, in clock units
    IdleTimeout,  \* ServerPool.idleTimeout, in clock units; 0 disables
    Events,       \* what may happen around the pool in this instance
    MaxTime       \* bound: the clock stops here

(* GitLab revoking and restoring a token, not answering, tokens below the
   admission minimum, tokens whose kind nothing tells, fine-grained tokens,
   calls GitLab answers 401, the revalidation sweep, an open subscription,
   a registration that fails, a build that fails here, and shutdown.        *)
AllEvents == {"revoke", "restore", "unreachable", "below", "unknownKind", "fineGrained",
              "named401", "unnamed401", "sweep", "subscribe", "badCatalog", "badBuild", "shutdown"}

ASSUME PoolAssumption ==
    /\ ShapeOf \in [Keys -> Shapes]
    /\ None \notin Requests \cup Keys
    /\ Events \subseteq AllEvents

ASSUME PoolFiniteAssumption == IsFiniteSet(Requests) /\ IsFiniteSet(Keys)

ASSUME PoolOptionsAssumption ==
    /\ MaxSize \in Nat \ {0}
    /\ ProbeSlots \in Nat \ {0}
    /\ MaxAge \in Nat \ {0}
    /\ IdleTimeout \in Nat
    /\ MaxTime \in Nat

VARIABLES
    now,       \* the clock
    gitlab,    \* how each credential stands with GitLab
    lifetime,  \* the context of WithBaseContext: "live" or "over"
    entries,   \* ServerPool.entries
    linked,    \* the entries whose element is in ServerPool.lru
    ahead,     \* the order of that list: <<a, b>> when a is nearer the front
    probes,    \* slots taken in ServerPool.probes
    building,  \* ServerPool.building: the request leading a key's build
    shapes,    \* shapeServers.shapes
    reg,       \* where each server's registration is
    entry,     \* the Entry struct
    states,    \* credentialStates: the entries with per-credential state
    busy,      \* those whose state holds a stream or a watcher
    pc, arg,   \* where each request is, and what it holds
    evicting,  \* entries with an evictRejectedCredential goroutine to run
    confirm,   \* where each entry's confirmUnexplainedRefusal is
    sweep,     \* the revalidation sweep
    refused    \* history: entries whose token GitLab refused since admission

clocks   == <<now, gitlab, lifetime>>
pool     == <<entries, linked, ahead>>
owned    == <<states, busy>>
registry == <<shapes, reg>>
calls    == <<pc, arg>>
checks   == <<evicting, confirm, sweep>>
vars == <<clocks, pool, probes, building, registry, entry, owned, calls, checks, refused>>

-----------------------------------------------------------------------------
(* Types *)

Standing == {"accepts", "refuses", "below"}
Verdict  == {"accepted", "permissionMissing", "refused", "belowMinimum", "none"}
Cause    == {"none", "size_pressure", "idle", "stale_credential", "rejected_credential",
             "invalid_credential", "below_minimum", "rebuild", "pool_closed"}
CallPc   == {"idle", "hit", "rejected", "stale", "miss", "slot", "verify", "facts",
             "grantSlot", "grant", "factory", "insert", "built", "joined", "done"}

Entry == [server      : Requests \cup {None},
          kindUnknown : BOOLEAN,
          judged      : BOOLEAN,     \* history: GitLab accepted it when it was built
          inserted    : BOOLEAN,     \* history: it was in the map
          validated   : 0 .. MaxTime,
          used        : 0 .. MaxTime,
          rejected    : BOOLEAN,
          named       : BOOLEAN,     \* Client.unauthorizedOnce has run
          cooling     : BOOLEAN,     \* the confirmation window is taken
          cause       : Cause]

Arg == [key    : Keys \cup {None},
        cached : Requests \cup {None},   \* what the fast path found
        leader : Requests \cup {None},   \* whose build the call waits on
        result : Requests \cup {None}]   \* the entry returned, None for an error

Sweep == [todo : SUBSET Requests, at : Requests \cup {None},
          step : {"asking", "refresh"} \cup Verdict]

TypeOK ==
    /\ now \in 0 .. MaxTime
    /\ gitlab \in [Keys -> Standing]
    /\ lifetime \in {"live", "over"}
    /\ entries \in [Keys -> Requests \cup {None}]
    /\ linked \subseteq Requests
    /\ ahead \subseteq Requests \X Requests
    /\ probes \in Nat
    /\ building \in [Keys -> Requests \cup {None}]
    /\ shapes \in [Shapes -> Requests \cup {None}]
    /\ reg \in [Requests -> {"none", "running", "ready", "failing", "forgotten", "evicted", "failed"}]
    /\ entry \in [Requests -> Entry]
    /\ states \subseteq Requests /\ busy \subseteq states
    /\ pc \in [Requests -> CallPc]
    /\ arg \in [Requests -> Arg]
    /\ evicting \subseteq Requests
    /\ confirm \in [Requests -> {"idle", "started", "probing"} \cup Verdict]
    /\ sweep \in Sweep
    /\ refused \subseteq Requests

-----------------------------------------------------------------------------
(* Helpers *)

Key(r)     == arg[r].key
Current(e) == Key(e) # None /\ entries[Key(e)] = e
Pooled     == {e \in Requests : Current(e)}
InHand(e)  == \E r \in Requests : pc[r] = "done" /\ arg[r].result = e
Stale(e)   == now > entry[e].validated + MaxAge
Happens(x) == x \in Events

(* list.MoveToFront, which ignores an element the list no longer holds. *)
Without(E)  == {p \in ahead : p[1] \notin E /\ p[2] \notin E}
InFront(e)  == IF e \in linked THEN Without({e}) \cup ({e} \X (linked \ {e})) ELSE ahead

(* Mutated form of DropEntries: a credential at work is left its streams. *)
DropKeepingWork(E, cause) ==
    /\ entries' = [k \in Keys |-> IF entries[k] \in E THEN None ELSE entries[k]]
    /\ linked' = linked \ E
    /\ ahead' = Without(E)
    /\ entry' = [e \in Requests |-> IF e \in E THEN [entry[e] EXCEPT !.cause = cause] ELSE entry[e]]
    /\ states' = states \ E
    /\ UNCHANGED busy

(* list.Remove for each entry of E, then dropEntry: out of the map, and
   WithOnEvict's callback takes the credential's state away.                *)
DropEntries(E, cause) ==
    /\ entries' = [k \in Keys |-> IF entries[k] \in E THEN None ELSE entries[k]]
    /\ linked' = linked \ E
    /\ ahead' = Without(E)
    /\ entry' = [e \in Requests |-> IF e \in E THEN [entry[e] EXCEPT !.cause = cause] ELSE entry[e]]
    /\ states' = states \ E
    /\ busy' = busy \ E

(* Mutated form of DropIfCurrent: whatever the key holds by now goes. *)
DropByKey(e, cause) == DropEntries({d \in Pooled : Key(d) = Key(e)}, cause)

(* Removal paths that check the entry is still the one under its key. *)
DropIfCurrent(e, cause) == DropEntries({e} \cap Pooled, cause)

(* What the credential probe may answer now. *)
Answers(k) ==
    (CASE gitlab[k] = "accepts" -> {"accepted", "permissionMissing"}
       [] gitlab[k] = "refuses" -> {"refused"}
       [] gitlab[k] = "below"   -> {"accepted", "belowMinimum"})
    \cup (IF Happens("unreachable") \/ lifetime = "over" THEN {"none"} ELSE {})

(* The probe of a request's own build is behind it. *)
Admitted(r) == pc[r] \in {"facts", "grantSlot", "grant", "factory", "insert", "built", "done"}

(* History: a refusal of k's token counts against every entry admitted so far. *)
Refusals(k, verdict) ==
    IF verdict = "refused"
    THEN {e \in Requests : Key(e) = k /\ Admitted(e)}
    ELSE {}

-----------------------------------------------------------------------------
(* GetOrCreateEntryWithFacts: the fast path *)

NewEntry == [server |-> None, kindUnknown |-> FALSE, judged |-> FALSE,
             inserted |-> FALSE, validated |-> 0, used |-> 0, rejected |-> FALSE,
             named |-> FALSE, cooling |-> FALSE, cause |-> "none"]

Init ==
    /\ now = 0
    /\ gitlab \in [Keys -> {"accepts"} \cup {x \in {"below"} : Happens(x)}]
    /\ lifetime = "live"
    /\ entries = [k \in Keys |-> None]
    /\ linked = {} /\ ahead = {}
    /\ probes = 0
    /\ building = [k \in Keys |-> None]
    /\ shapes = [s \in Shapes |-> None]
    /\ reg = [s \in Requests |-> "none"]
    /\ entry = [e \in Requests |-> NewEntry]
    /\ states = {} /\ busy = {}
    /\ pc = [r \in Requests |-> "idle"]
    /\ arg = [r \in Requests |-> [key |-> None, cached |-> None, leader |-> None,
                                  result |-> None]]
    /\ evicting = {}
    /\ confirm = [e \in Requests |-> "idle"]
    /\ sweep = [todo |-> {}, at |-> None, step |-> "none"]
    /\ refused = {}

(* Under the read lock: what is pooled for the key, and whether it may be served. *)
Found(e) ==
    CASE e = None          -> "miss"
      [] entry[e].rejected -> "rejected"
      [] Stale(e)          -> "stale"
      [] OTHER             -> "hit"

Lookup(r, k) ==
    /\ pc[r] = "idle"
    /\ pc' = [pc EXCEPT ![r] = IF entries[k] = None THEN "miss" ELSE Found(entries[k])]
    /\ arg' = [arg EXCEPT ![r].key = k, ![r].cached = entries[k]]
    /\ UNCHANGED <<clocks, pool, probes, building, registry, entry, owned, checks, refused>>

(* The write lock, taken after the read lock was given back. *)
Hit(r) ==
    /\ pc[r] = "hit"
    /\ pc' = [pc EXCEPT ![r] = "done"]
    /\ arg' = [arg EXCEPT ![r].result = arg[r].cached]
    /\ ahead' = InFront(arg[r].cached)
    /\ entry' = [entry EXCEPT ![arg[r].cached].used = now]
    /\ UNCHANGED <<clocks, entries, linked, probes, building, registry, owned, checks, refused>>

DropRejected(r) ==
    /\ pc[r] = "rejected"
    /\ pc' = [pc EXCEPT ![r] = "miss"]
    /\ DropIfCurrent(arg[r].cached, "rejected_credential")
    /\ UNCHANGED <<clocks, probes, building, registry, arg, checks, refused>>

EvictStale(r) ==
    /\ pc[r] = "stale"
    /\ pc' = [pc EXCEPT ![r] = "miss"]
    /\ DropEntries({e \in Pooled : Key(e) = Key(r) /\ Stale(e)}, "stale_credential")
    /\ UNCHANGED <<clocks, probes, building, registry, arg, checks, refused>>

-----------------------------------------------------------------------------
(* The shared build *)

(* The leader's build is over: what it has to hand out, None for an error. *)
Built(r, result) ==
    /\ pc' = [pc EXCEPT ![r] = "built"]
    /\ arg' = [arg EXCEPT ![r].result = result]

Lead(r) ==
    /\ pc[r] = "miss" /\ building[Key(r)] = None
    /\ building' = [building EXCEPT ![Key(r)] = r]
    /\ IF lifetime = "over" THEN Built(r, None)
       ELSE pc' = [pc EXCEPT ![r] = "slot"] /\ UNCHANGED arg
    /\ UNCHANGED <<clocks, pool, probes, registry, entry, owned, checks, refused>>

Join(r) ==
    /\ pc[r] = "miss" /\ building[Key(r)] # None
    /\ pc' = [pc EXCEPT ![r] = "joined"]
    /\ arg' = [arg EXCEPT ![r].leader = building[Key(r)]]
    /\ UNCHANGED <<clocks, pool, probes, building, registry, entry, owned, checks, refused>>

(* acquireProbeSlot, for the credential probe and for a fine-grained read. *)
TakeSlot(r) ==
    /\ pc[r] \in {"slot", "grantSlot"} /\ probes < ProbeSlots
    /\ probes' = probes + 1
    /\ pc' = [pc EXCEPT ![r] = IF @ = "slot" THEN "verify" ELSE "grant"]
    /\ UNCHANGED <<clocks, pool, building, registry, entry, owned, arg, checks, refused>>

(* Mutated form of NoSlot: the release is deferred before the slot is taken. *)
NoSlotReleasing(r) ==
    /\ pc[r] \in {"slot", "grantSlot"}
    /\ probes = ProbeSlots \/ lifetime = "over"
    /\ probes' = probes - 1
    /\ Built(r, None)
    /\ UNCHANGED <<clocks, pool, building, registry, entry, owned, checks, refused>>

(* ErrCredentialProbeBusy, or the pool shutting down. *)
NoSlot(r) ==
    /\ pc[r] \in {"slot", "grantSlot"}
    /\ probes = ProbeSlots \/ lifetime = "over"
    /\ Built(r, None)
    /\ UNCHANGED <<clocks, pool, probes, building, registry, entry, owned, checks, refused>>

(* verifyCredential, giving the slot back.  No verdict admits. *)
Verify(r) ==
    /\ pc[r] = "verify"
    /\ probes' = probes - 1
    /\ \E v \in Answers(Key(r)) :
        /\ IF v \in {"accepted", "none"}
           THEN /\ pc' = [pc EXCEPT ![r] = "facts"]
                /\ entry' = [entry EXCEPT ![r].judged = (v = "accepted")]
                /\ UNCHANGED arg
           ELSE Built(r, None) /\ UNCHANGED entry
        /\ refused' = refused \cup Refusals(Key(r), v)
    /\ UNCHANGED <<clocks, pool, building, registry, owned, checks>>

(* entryConfig: the token's own description, unless nothing answered for it. *)
LearnFacts(r) ==
    /\ pc[r] = "facts"
    /\ \/ /\ gitlab[Key(r)] = "below"
          /\ Built(r, None) /\ UNCHANGED entry
       \/ /\ gitlab[Key(r)] # "below"
          /\ \/ pc' = [pc EXCEPT ![r] = "factory"]
             \/ Happens("fineGrained") /\ pc' = [pc EXCEPT ![r] = "grantSlot"]
          /\ UNCHANGED <<arg, entry>>
       \/ /\ Happens("unknownKind")
          /\ entry' = [entry EXCEPT ![r].kindUnknown = TRUE]
          /\ pc' = [pc EXCEPT ![r] = "factory"] /\ UNCHANGED arg
    /\ UNCHANGED <<clocks, pool, probes, building, registry, owned, checks, refused>>

ReadGrant(r) ==
    /\ pc[r] = "grant"
    /\ probes' = probes - 1
    /\ pc' = [pc EXCEPT ![r] = "factory"]
    /\ UNCHANGED <<clocks, pool, building, registry, entry, owned, arg, checks, refused>>

(* The factory: the shape's server, made and its registration started if the
   registry has none.  resolveIdentity then leaves a gap before the insertion. *)
TakeServer(r) ==
    LET s == ShapeOf[Key(r)]
        server == IF shapes[s] = None THEN r ELSE shapes[s]
    IN  /\ pc[r] = "factory"
        /\ pc' = [pc EXCEPT ![r] = "insert"]
        /\ shapes' = [shapes EXCEPT ![s] = server]
        /\ reg' = IF server = r THEN [reg EXCEPT ![r] = "running"] ELSE reg
        /\ entry' = [entry EXCEPT ![r].server = server]
        /\ UNCHANGED <<clocks, pool, probes, building, owned, arg, checks, refused>>

BuildFails(r) ==
    /\ Happens("badBuild") /\ pc[r] = "factory"
    /\ Built(r, None)
    /\ UNCHANGED <<clocks, pool, probes, building, registry, entry, owned, checks, refused>>

-----------------------------------------------------------------------------
(* insertEntry *)

Back(S) == {e \in S : \A d \in S \ {e} : <<d, e>> \in ahead}

(* Mutated form of LruVictim: the tail, whether its credential works or not. *)
LruTail == Back(linked)

(* lruVictimLocked: the element nearest the back among those not in use, or
   among all of them when every one is.                                     *)
LruVictim == IF linked \subseteq busy THEN Back(linked) ELSE Back(linked \ busy)

(* evictLRU, when the list is full. *)
Evicted == IF Cardinality(linked) >= MaxSize THEN LruVictim ELSE {}

(* The same key was inserted while this build ran: that entry is returned. *)
KeepExisting(r) ==
    LET e == entries[Key(r)]
    IN  /\ pc[r] = "insert" /\ e # None
        /\ ahead' = InFront(e)
        /\ entry' = [entry EXCEPT ![e].used = now]
        /\ Built(r, e)
        /\ UNCHANGED <<clocks, entries, linked, probes, building, registry, owned, checks, refused>>

(* Mutated form of Adopted: the insert callback keeps every entry. *)
AdoptedAlways(r) == TRUE

(* adoptPooledEntry: the insert callback keeps an entry whose server the shape
   registry still knows, and gives it its per-credential state.             *)
Adopted(r) == \E s \in Shapes : shapes[s] = entry[r].server

(* Mutated form of Insert: the key is not looked up again under the lock. *)
InsertUnchecked(r) ==
    /\ pc[r] = "insert" /\ Adopted(r)
    /\ entries' = [k \in Keys |-> IF k = Key(r) THEN r
                                  ELSE IF entries[k] \in Evicted THEN None ELSE entries[k]]
    /\ linked' = (linked \ Evicted) \cup {r}
    /\ ahead' = Without(Evicted) \cup ({r} \X (linked \ Evicted))
    /\ entry' = [e \in Requests |->
                    IF e = r THEN [entry[e] EXCEPT !.inserted = TRUE, !.validated = now, !.used = now]
                    ELSE IF e \in Evicted THEN [entry[e] EXCEPT !.cause = "size_pressure"]
                    ELSE entry[e]]
    /\ states' = (states \ Evicted) \cup {r}
    /\ busy' = busy \ Evicted
    /\ Built(r, r)
    /\ UNCHANGED <<clocks, probes, building, registry, checks, refused>>

Insert(r) ==
    /\ pc[r] = "insert" /\ entries[Key(r)] = None /\ Adopted(r)
    /\ entries' = [k \in Keys |-> IF k = Key(r) THEN r
                                  ELSE IF entries[k] \in Evicted THEN None ELSE entries[k]]
    /\ linked' = (linked \ Evicted) \cup {r}
    /\ ahead' = Without(Evicted) \cup ({r} \X (linked \ Evicted))
    /\ entry' = [e \in Requests |->
                    IF e = r THEN [entry[e] EXCEPT !.inserted = TRUE, !.validated = now, !.used = now]
                    ELSE IF e \in Evicted THEN [entry[e] EXCEPT !.cause = "size_pressure"]
                    ELSE entry[e]]
    /\ states' = (states \ Evicted) \cup {r}
    /\ busy' = busy \ Evicted
    /\ Built(r, r)
    /\ UNCHANGED <<clocks, probes, building, registry, checks, refused>>

(* dropRefusedEntry: the insertion is undone under the lock that made it; what
   was evicted to make room stays evicted, and the request still gets r.     *)
InsertRefused(r) ==
    /\ pc[r] = "insert" /\ entries[Key(r)] = None /\ ~Adopted(r)
    /\ entries' = [k \in Keys |-> IF entries[k] \in Evicted THEN None ELSE entries[k]]
    /\ linked' = linked \ Evicted
    /\ ahead' = Without(Evicted)
    /\ entry' = [e \in Requests |->
                    IF e = r THEN [entry[e] EXCEPT !.inserted = TRUE, !.validated = now,
                                                   !.used = now, !.cause = "rebuild"]
                    ELSE IF e \in Evicted THEN [entry[e] EXCEPT !.cause = "size_pressure"]
                    ELSE entry[e]]
    /\ states' = states \ Evicted
    /\ busy' = busy \ Evicted
    /\ Built(r, r)
    /\ UNCHANGED <<clocks, probes, building, registry, checks, refused>>

(* singleflight.Group forgets the call and releases who joined it. *)
Finish(r) ==
    /\ pc[r] = "built"
    /\ building' = [building EXCEPT ![Key(r)] = None]
    /\ pc' = [pc EXCEPT ![r] = "done"]
    /\ UNCHANGED <<clocks, pool, probes, registry, entry, owned, arg, checks, refused>>

(* Mutated form of JoinerReturns: only a build that succeeded releases them. *)
JoinerReturnsOnSuccess(r) ==
    /\ pc[r] = "joined" /\ pc[arg[r].leader] = "done" /\ arg[arg[r].leader].result # None
    /\ pc' = [pc EXCEPT ![r] = "done"]
    /\ arg' = [arg EXCEPT ![r].result = arg[arg[r].leader].result]
    /\ UNCHANGED <<clocks, pool, probes, building, registry, entry, owned, checks, refused>>

JoinerReturns(r) ==
    /\ pc[r] = "joined" /\ pc[arg[r].leader] = "done"
    /\ pc' = [pc EXCEPT ![r] = "done"]
    /\ arg' = [arg EXCEPT ![r].result = arg[arg[r].leader].result]
    /\ UNCHANGED <<clocks, pool, probes, building, registry, entry, owned, checks, refused>>

-----------------------------------------------------------------------------
(* What GitLab answers a call made with an entry *)

(* handleUnauthorized, on a 401 naming the credential: reported once. *)
NamedRefusal(e) ==
    /\ Happens("named401") /\ InHand(e)
    /\ gitlab[Key(e)] # "accepts" /\ ~entry[e].named
    /\ entry' = [entry EXCEPT ![e].named = TRUE, ![e].rejected = TRUE]
    /\ evicting' = evicting \cup {e}
    /\ refused' = refused \cup Refusals(Key(e), "refused")
    /\ UNCHANGED <<clocks, pool, probes, building, registry, owned, calls, confirm, sweep>>

EvictRejected(e) ==
    /\ e \in evicting
    /\ evicting' = evicting \ {e}
    /\ DropIfCurrent(e, "rejected_credential")
    /\ UNCHANGED <<clocks, probes, building, registry, calls, confirm, sweep, refused>>

(* handleUnauthorized, on a 401 that names nothing: claimConfirmation. *)
UnexplainedRefusal(e) ==
    /\ Happens("unnamed401") /\ InHand(e)
    /\ ~entry[e].rejected /\ ~entry[e].cooling
    /\ entry' = [entry EXCEPT ![e].cooling = TRUE]
    /\ confirm' = [confirm EXCEPT ![e] = "started"]
    /\ UNCHANGED <<clocks, pool, probes, building, registry, owned, calls, evicting, sweep, refused>>

(* confirmCooldown passes.  It is longer than the probe's own timeout, so the
   confirmation it was claimed for is over.                                  *)
CooldownEnds(e) ==
    /\ entry[e].cooling /\ confirm[e] = "idle"
    /\ entry' = [entry EXCEPT ![e].cooling = FALSE]
    /\ UNCHANGED <<clocks, pool, probes, building, registry, owned, calls, checks, refused>>

(* confirmUnexplainedRefusal: isCurrent, then tryProbeSlot. *)
ConfirmStarts(e) ==
    /\ confirm[e] = "started"
    /\ IF Current(e) /\ probes < ProbeSlots
       THEN probes' = probes + 1 /\ confirm' = [confirm EXCEPT ![e] = "probing"]
       ELSE confirm' = [confirm EXCEPT ![e] = "idle"] /\ UNCHANGED probes
    /\ UNCHANGED <<clocks, pool, building, registry, entry, owned, calls, evicting, sweep, refused>>

ConfirmAnswered(e) ==
    /\ confirm[e] = "probing"
    /\ \E v \in Answers(Key(e)) :
        /\ confirm' = [confirm EXCEPT ![e] = v]
        /\ entry' = [entry EXCEPT ![e].rejected = @ \/ v = "refused"]
        /\ refused' = refused \cup Refusals(Key(e), v)
    /\ UNCHANGED <<clocks, pool, probes, building, registry, owned, calls, evicting, sweep>>

(* The slot goes back whatever is done with the verdict. *)
ConfirmReturns(e) ==
    /\ probes' = probes - 1
    /\ confirm' = [confirm EXCEPT ![e] = "idle"]
    /\ UNCHANGED <<clocks, building, registry, calls, evicting, sweep, refused>>

ConfirmEvicts(e) ==
    /\ \/ confirm[e] = "refused" /\ DropIfCurrent(e, "rejected_credential")
       \/ confirm[e] = "belowMinimum" /\ DropIfCurrent(e, "below_minimum")
    /\ ConfirmReturns(e)

(* keepConfirmedEntry: the probe counts as a credential check. *)
ConfirmKeeps(e) ==
    /\ confirm[e] \in {"accepted", "permissionMissing"}
    /\ entry' = IF Current(e) THEN [entry EXCEPT ![e].validated = now] ELSE entry
    /\ ConfirmReturns(e)
    /\ UNCHANGED <<pool, owned>>

ConfirmLearnsNothing(e) ==
    /\ confirm[e] = "none"
    /\ ConfirmReturns(e)
    /\ UNCHANGED <<pool, entry, owned>>

-----------------------------------------------------------------------------
(* The sweeps *)

(* revalidateAll: a copy of the map under the read lock, walked in any order. *)
SweepStarts ==
    /\ Happens("sweep") /\ lifetime = "live"
    /\ sweep.todo = {} /\ sweep.at = None /\ Pooled # {}
    /\ sweep' = [sweep EXCEPT !.todo = Pooled]
    /\ UNCHANGED <<clocks, pool, probes, building, registry, entry, owned, calls, evicting, confirm, refused>>

SweepTakes(e) ==
    /\ e \in sweep.todo /\ sweep.at = None
    /\ sweep' = IF lifetime = "over" THEN [sweep EXCEPT !.todo = {}]
                ELSE [todo |-> sweep.todo \ {e}, at |-> e, step |-> "asking"]
    /\ UNCHANGED <<clocks, pool, probes, building, registry, entry, owned, calls, evicting, confirm, refused>>

(* revalidateEntry: the probe, then what its verdict asks for. *)
SweepAnswered(e) ==
    /\ sweep.at = e /\ sweep.step = "asking"
    /\ \E v \in Answers(Key(e)) :
        /\ sweep' = [sweep EXCEPT !.step = v]
        /\ refused' = refused \cup Refusals(Key(e), v)
    /\ UNCHANGED <<clocks, pool, probes, building, registry, entry, owned, calls, evicting, confirm>>

TurnEnds == /\ sweep' = [sweep EXCEPT !.at = None, !.step = "none"]
            /\ UNCHANGED <<clocks, probes, building, registry, calls, evicting, confirm, refused>>

(* Mutated form of SweepEvicts: a refusal is only counted. *)
SweepEvictsBelowMinimum(e) ==
    /\ sweep.at = e /\ sweep.step \in {"refused", "belowMinimum"}
    /\ DropIfCurrent(IF sweep.step = "belowMinimum" THEN e ELSE None, "below_minimum")
    /\ TurnEnds

(* evictByKey drops whatever the key holds by now. *)
SweepEvicts(e) ==
    /\ sweep.at = e
    /\ \/ /\ sweep.step = "refused"
          /\ DropEntries({d \in Pooled : Key(d) = Key(e)}, "invalid_credential")
       \/ sweep.step = "belowMinimum" /\ DropIfCurrent(e, "below_minimum")
    /\ TurnEnds

(* The key's entry by now is marked checked; one whose token's kind nothing
   has told yet is asked about next, under no lock (refreshAuthority).       *)
SweepKeeps(e) ==
    /\ sweep.at = e /\ sweep.step \in {"accepted", "permissionMissing"}
    /\ entry' = [d \in Requests |-> IF Current(d) /\ Key(d) = Key(e)
                                    THEN [entry[d] EXCEPT !.validated = now] ELSE entry[d]]
    /\ sweep' = IF entry[e].kindUnknown THEN [sweep EXCEPT !.step = "refresh"]
                ELSE [sweep EXCEPT !.at = None, !.step = "none"]
    /\ UNCHANGED <<clocks, pool, probes, building, registry, owned, calls, evicting, confirm, refused>>

SweepUndecided(e) ==
    /\ sweep.at = e /\ sweep.step = "none"
    /\ TurnEnds
    /\ UNCHANGED <<pool, entry, owned>>

(* redetectKind: no answer, a kind learned, or scopes below the minimum. *)
SweepRedetects(e) ==
    /\ sweep.at = e /\ sweep.step = "refresh"
    /\ \/ DropEntries({}, "none")
       \/ /\ gitlab[Key(e)] # "below"
          /\ entry' = [entry EXCEPT ![e].kindUnknown = FALSE]
          /\ UNCHANGED <<pool, owned>>
       \/ gitlab[Key(e)] = "below" /\ DropIfCurrent(e, "below_minimum")
    /\ TurnEnds

(* evictIdle: entries unused for IdleTimeout go, unless their credential is at
   work; those are used as of now and moved to the front, in map order.     *)
Unused    == {e \in Pooled : now >= entry[e].used + IdleTimeout}
Orders(S) == {R \in SUBSET (S \X S) :
                 \A a, b \in S : (<<a, b>> \in R) = (a # b /\ <<b, a>> \notin R)}
Linear(R) == \A p, q \in R : p[2] = q[1] => <<p[1], q[2]>> \in R

IdleSweep ==
    LET kept == Unused \cap busy
        gone == Unused \ busy
    IN  /\ IdleTimeout > 0 /\ lifetime = "live" /\ Unused # {}
        /\ entries' = [k \in Keys |-> IF entries[k] \in gone THEN None ELSE entries[k]]
        /\ linked' = linked \ gone
        /\ \E order \in Orders(kept) :
            /\ Linear(order)
            /\ ahead' = Without(Unused) \cup order \cup (kept \X (linked \ Unused))
        /\ entry' = [e \in Requests |->
                        IF e \in kept THEN [entry[e] EXCEPT !.used = now]
                        ELSE IF e \in gone THEN [entry[e] EXCEPT !.cause = "idle"]
                        ELSE entry[e]]
        /\ states' = states \ gone
        /\ busy' = busy \ gone
        /\ UNCHANGED <<clocks, probes, building, registry, calls, checks, refused>>

-----------------------------------------------------------------------------
(* startShapeRegistration: what the goroutine of a shape's registration does,
   in its order: forget the shape, evict its entries, fail the gate.         *)

RegisterStep(s, from, to) ==
    /\ reg[s] = from
    /\ reg' = [reg EXCEPT ![s] = to]
    /\ UNCHANGED <<clocks, probes, building, calls, checks, refused>>

RegistrationEnds(s) ==
    /\ \/ RegisterStep(s, "running", "ready")
       \/ Happens("badCatalog") /\ RegisterStep(s, "running", "failing")
    /\ UNCHANGED <<pool, shapes, entry, owned>>

ForgetShape(s) ==
    /\ RegisterStep(s, "failing", "forgotten")
    /\ shapes' = [x \in Shapes |-> IF shapes[x] = s THEN None ELSE shapes[x]]
    /\ UNCHANGED <<pool, entry, owned>>

EvictServer(s) ==
    /\ RegisterStep(s, "forgotten", "evicted")
    /\ DropEntries({e \in Pooled : entry[e].server = s}, "rebuild")
    /\ UNCHANGED shapes

MarkFailed(s) ==
    /\ RegisterStep(s, "evicted", "failed")
    /\ UNCHANGED <<pool, shapes, entry, owned>>

-----------------------------------------------------------------------------
(* Around the pool *)

(* A credential opens or ends its last stream or watcher. *)
Subscribes(e) ==
    /\ Happens("subscribe") /\ e \in states /\ InHand(e)
    /\ busy' = IF e \in busy THEN busy \ {e} ELSE busy \cup {e}
    /\ UNCHANGED <<clocks, pool, probes, building, registry, entry, states, calls, checks, refused>>

StandingChanges(k) ==
    /\ \/ Happens("revoke") /\ gitlab[k] = "accepts" /\ gitlab' = [gitlab EXCEPT ![k] = "refuses"]
       \/ Happens("restore") /\ gitlab[k] = "refuses" /\ gitlab' = [gitlab EXCEPT ![k] = "accepts"]
    /\ UNCHANGED <<now, lifetime, pool, probes, building, registry, entry, owned, calls, checks, refused>>

LifetimeEnds ==
    /\ Happens("shutdown") /\ lifetime = "live"
    /\ lifetime' = "over"
    /\ UNCHANGED <<now, gitlab, pool, probes, building, registry, entry, owned, calls, checks, refused>>

(* Close at the end of serveHTTP; a build still running inserts after it. *)
Close ==
    /\ lifetime = "over" /\ Pooled # {}
    /\ DropEntries(Pooled, "pool_closed")
    /\ UNCHANGED <<clocks, probes, building, registry, calls, checks, refused>>

Tick ==
    /\ now < MaxTime
    /\ now' = now + 1
    /\ UNCHANGED <<gitlab, lifetime, pool, probes, building, registry, entry, owned, calls, checks, refused>>

-----------------------------------------------------------------------------
(* The specification *)

FastPath(r) == Hit(r) \/ DropRejected(r) \/ EvictStale(r) \/ Lead(r) \/ Join(r)
Building(r) == \/ TakeSlot(r) \/ NoSlot(r) \/ Verify(r) \/ LearnFacts(r) \/ ReadGrant(r)
               \/ TakeServer(r) \/ BuildFails(r)
Inserting(r) == KeepExisting(r) \/ Insert(r) \/ InsertRefused(r) \/ Finish(r) \/ JoinerReturns(r)
CallStep(r) == FastPath(r) \/ Building(r) \/ Inserting(r)

ConfirmStep(e) == \/ ConfirmStarts(e) \/ ConfirmAnswered(e) \/ ConfirmEvicts(e)
                  \/ ConfirmKeeps(e) \/ ConfirmLearnsNothing(e)
SweepTurn(e) == \/ SweepTakes(e) \/ SweepAnswered(e) \/ SweepEvicts(e) \/ SweepKeeps(e)
                \/ SweepUndecided(e) \/ SweepRedetects(e)
RefusalStep(e) == NamedRefusal(e) \/ EvictRejected(e) \/ UnexplainedRefusal(e) \/ CooldownEnds(e)
RegistrationStep(s) == RegistrationEnds(s) \/ ForgetShape(s) \/ EvictServer(s) \/ MarkFailed(s)

Next ==
    \/ \E r \in Requests, k \in Keys : Lookup(r, k)
    \/ \E r \in Requests : \/ CallStep(r) \/ RefusalStep(r) \/ ConfirmStep(r)
                           \/ SweepTurn(r) \/ RegistrationStep(r) \/ Subscribes(r)
    \/ SweepStarts \/ IdleSweep
    \/ \E k \in Keys : StandingChanges(k)
    \/ LifetimeEnds \/ Close \/ Tick

Spec == Init /\ [][Next]_vars

-----------------------------------------------------------------------------
(* Safety *)

(* The map and the LRU list hold the same entries, in one order, never more
   than --max-http-clients of them: no removal path forgets one of the two.
   Only pooled entries own per-credential state, and an entry that was pooled
   and no longer is was ended with a cause: none is replaced under its key, or
   dropped, without its subscribers being told.                              *)
PoolIsLinked ==
    /\ linked = Pooled
    /\ \A k \in Keys : entries[k] # None => Key(entries[k]) = k
    /\ ahead \in Orders(linked) /\ Linear(ahead)
    /\ Cardinality(linked) <= MaxSize
    /\ \A e \in Requests : (entry[e].cause = "none" /\ entry[e].inserted) = Current(e)
    /\ states = Pooled

(* Size pressure takes the entry unused longest among those whose credential
   has no work running, and one with work running only when all have: what
   the idle sweep keeps, size pressure does not take first.                  *)
PressureSparesWork ==
    [][\A e \in Pooled : entry'[e].cause = "size_pressure" =>
          IF e \in busy THEN Pooled \subseteq busy
          ELSE \A d \in Pooled \ busy : entry[d].used >= entry[e].used]_<<entry, entries>>

(* Once a failed registration answers its requests "retry", no pooled entry
   points at its server, whichever of the build and the failure was first.  *)
PoisonedNeverCached ==
    \A s \in Requests : reg[s] \in {"evicted", "failed"} =>
        \A e \in Pooled : entry[e].server # s

(* A client told to re-authenticate because a call was refused held a token
   GitLab refused after admitting that very entry, and one told its token
   reaches too little holds such a token.                                    *)
EndingsAreTrue ==
    \A e \in Requests :
        /\ entry[e].cause = "rejected_credential" => e \in refused
        /\ entry[e].cause = "below_minimum" => gitlab[Key(e)] = "below"

(* Every probe slot taken is held by a build or a confirmation that will give
   it back: refusals, timeouts and shutdown neither leak nor over-release.   *)
ProbesAreHeld ==
    /\ probes = Cardinality({r \in Requests : pc[r] \in {"verify", "grant"}})
              + Cardinality({e \in Requests : confirm[e] \notin {"idle", "started"}})
    /\ probes <= ProbeSlots

-----------------------------------------------------------------------------
(* Liveness.  Goroutines run: builds, joiners, evictions and confirmations
   step when they can.  A probe has a timeout, so it always answers.  The run
   of RevokedIsDropped keeps GitLab reachable, so that a probe's answer is a
   verdict; nothing bounds how long an unreachable GitLab teaches nothing.   *)

Fairness ==
    /\ \A r \in Requests : /\ WF_vars(FastPath(r)) /\ WF_vars(Building(r)) /\ WF_vars(Inserting(r))
                           /\ WF_vars(EvictRejected(r)) /\ WF_vars(ConfirmStep(r))
                           /\ WF_vars(SweepTurn(r)) /\ WF_vars(RegistrationStep(r))
    /\ WF_vars(SweepStarts)

FairSpec == Spec /\ Fairness

(* Every request is answered: a waiter on a shared build is released however
   that build ends, and a queue for probe slots moves.                       *)
CallsReturn == \A r \in Requests : pc[r] \notin {"idle", "done"} ~> pc[r] = "done"

(* A credential GitLab refuses for good is not served for good: its entries
   leave the pool, whichever check learns of it first, unless the process
   shuts down meanwhile.                                                     *)
RevokedIsDropped ==
    \A k \in Keys : (lifetime = "live" /\ gitlab[k] = "refuses" /\ entries[k] # None)
        ~> (lifetime = "over" \/ gitlab[k] # "refuses" \/ entries[k] = None)

-----------------------------------------------------------------------------
(* What a comment says and the code does not keep, checked by a run that expects
   the counterexample.                                                       *)

(* CauseInvalidCredential: "the periodic revalidation finding that GitLab now
   refuses the credential" of the entry it drops.                            *)
InvalidIsCurrent ==
    \A e \in Requests : entry[e].cause = "invalid_credential" => e \in refused

==============================================================================
