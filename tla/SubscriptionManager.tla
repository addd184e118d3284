------------------------- MODULE SubscriptionManager -------------------------
(***************************************************************************)
(* internal/subscriptions: the managers that poll GitLab on behalf of      *)
(* subscribed sessions, one manager per credential, and the WatcherGate    *)
(* they share.  A manager holds one watcher per URI, shared by every       *)
(* session that subscribed to it.  The mutex of a manager is taken and     *)
(* given back inside one action, except by a Subscribe call between taking *)
(* the shared slot and spending it, where mu names the call holding it.    *)
(*                                                                         *)
(* A watcher is named by the Subscribe call that created it.               *)
(***************************************************************************)
EXTENDS Naturals, FiniteSets

CONSTANTS
    Managers,         \* one per pooled credential
    Sessions,         \* the subscribers
    ManagerOf,        \* the manager answering for a session's credential
    URIs,
    Subscribable,     \* the URIs Classify accepts
    Calls,            \* calls of Manager.Subscribe, and the watchers they create
    None,
    MaxWatchers,      \* Options.MaxWatchers
    GateLimit,        \* WatcherGate.limit; 0 is no ceiling
    Lease,            \* Options.Lease, in clock units
    MaxLifetime,      \* Options.MaxLifetime
    RateLimitPause,   \* rateLimitBackoff
    MaxRateLimitPause,\* maxRateLimitBackoff
    ReadFailures,     \* the ways a read may fail in this instance
    MaxTime,          \* bound: the clock stops here
    MaxVersion,       \* bound: changes made to one resource
    MaxStreak         \* bound: rate-limit refusals answered in a row

(* The failures a Reader reports that a watcher tells apart. *)
Failures == {"inaccessible", "rateLimited", "transient"}

ASSUME ManagerAssumption ==
    /\ ManagerOf \in [Sessions -> Managers]
    /\ Subscribable \subseteq URIs
    /\ None \notin Calls \cup Sessions \cup URIs
    /\ ReadFailures \subseteq Failures

ASSUME FiniteAssumption ==
    IsFiniteSet(Managers) /\ IsFiniteSet(URIs) /\ IsFiniteSet(Calls)

ASSUME OptionsAssumption ==
    /\ MaxWatchers \in Nat \ {0}
    /\ GateLimit \in Nat
    /\ Lease \in Nat \ {0}
    /\ MaxLifetime \in Nat \ {0} /\ MaxLifetime >= Lease
    /\ RateLimitPause \in Nat \ {0}
    /\ MaxRateLimitPause \in Nat \ {0} /\ MaxRateLimitPause >= RateLimitPause
    /\ MaxTime \in Nat
    /\ MaxVersion \in Nat
    /\ MaxStreak \in Nat

VARIABLES
    now,          \* the clock every deadline is compared with
    content,      \* what GitLab would answer for each URI, as a version
    held,         \* WatcherGate.held
    mu,           \* the call holding a manager's mutex across steps, or None
    closed,       \* Manager.closed, and whether its Close has returned
    registry,     \* Manager.watchers
    running,      \* Manager.wg: the watch goroutines added and not done
    rateLimits,   \* Manager.rateLimits
    pausedUntil,  \* Manager.pausedUntil, 0 for the zero time
    pc, arg,      \* where each Subscribe call is, and its arguments
    loop,         \* where each watch goroutine is
    watcher,      \* the watcher struct
    answer,       \* what the watcher's read in flight returned
    toCancel,     \* watchers dropped whose cancel() is still to be called
    toWake        \* watchers revived whose wake() is still to be called

environment == <<now, content>>
managerVars == <<held, mu, closed, registry, running>>
pauseVars   == <<rateLimits, pausedUntil>>
callVars    == <<pc, arg>>
loopVars    == <<loop, answer>>
owed        == <<toCancel, toWake>>
vars == <<environment, managerVars, pauseVars, callVars, loopVars, watcher, owed>>

-----------------------------------------------------------------------------
(* Types *)

Answered == {"ok", "notSubscribable", "closed", "atCapacity", "tooMany", "failed", "gaveUp"}
CallPc   == {"idle", "reserved", "reading", "read", "awaiting"} \cup Answered
LoopPc   == {"none", "sleep", "reading", "answered", "compare", "notify",
             "lease", "arm", "retire", "announce", "done"}
Version  == 0 .. MaxVersion

Args == [sub : Sessions \cup {None}, uri : URIs \cup {None},
         watcher : Calls \cup {None}, alreadyHeld : BOOLEAN]

Watcher == [subs    : SUBSET Sessions,
            ready   : {"wait", "started", "failed", "closed", "withdrawn"},
            digest  : Version,
            ctx     : {"live", "canceled", "deadline"},
            leaseAt : Nat,
            endsAt  : Nat,
            demoted : BOOLEAN,
            evicted : BOOLEAN,
            timer   : {"cadence", "slow"},
            renew   : BOOLEAN]

Answer == [kind : {"ok", "canceled"} \cup Failures, version : Version]

NewWatcher(subs) ==
    [subs |-> subs, ready |-> "wait", digest |-> 0, ctx |-> "live", leaseAt |-> 0,
     endsAt |-> 0, demoted |-> FALSE, evicted |-> FALSE, timer |-> "cadence", renew |-> FALSE]

TypeOK ==
    /\ now \in 0 .. MaxTime
    /\ content \in [URIs -> Version]
    /\ held \in Nat
    /\ mu \in [Managers -> Calls \cup {None}]
    /\ closed \in [Managers -> {"open", "closing", "closed"}]
    /\ registry \in [Managers -> [URIs -> Calls \cup {None}]]
    /\ running \in [Managers -> SUBSET Calls]
    /\ rateLimits \in [Managers -> Nat]
    /\ pausedUntil \in [Managers -> Nat]
    /\ pc \in [Calls -> CallPc]
    /\ arg \in [Calls -> Args]
    /\ loop \in [Calls -> LoopPc]
    /\ watcher \in [Calls -> Watcher]
    /\ answer \in [Calls -> Answer]
    /\ toCancel \subseteq Calls
    /\ toWake \subseteq Calls

-----------------------------------------------------------------------------
(* Helpers *)

Mgr(c)         == ManagerOf[arg[c].sub]
Uri(c)         == arg[c].uri
Registered(w)  == pc[w] # "idle" /\ Uri(w) # None /\ registry[Mgr(w)][Uri(w)] = w
WatchedURIs(m) == {u \in URIs : registry[m][u] # None}
WatchersOf(m)  == {registry[m][u] : u \in WatchedURIs(m)}
Unlocked(m)    == mu[m] = None
Launched(w)    == loop[w] # "none"
Cancelable(W)  == {w \in W : Launched(w)}   \* those whose cancel is not nil
Looping(w)     == loop[w] \notin {"none", "done"}

(* The slots of the gate that n watchers are worth: none without a ceiling. *)
Slots(n) == IF GateLimit = 0 THEN 0 ELSE n

(* What a read answers when it is answered now. *)
ReadNow(w, kind) ==
    [kind |-> kind, version |-> IF kind = "ok" THEN content[Uri(w)] ELSE 0]

(* dropWatcherLocked for every watcher of W, which are all in m's registry:
   each leaves the registry and its slot goes back to the gate.            *)
Drop(m, W) ==
    /\ registry' = [registry EXCEPT ![m] =
                        [u \in URIs |-> IF @[u] \in W THEN None ELSE @[u]]]
    /\ held' = held - Slots(Cardinality({u \in URIs : registry[m][u] \in W}))

(* Mutated form of DropIfRegistered: no identity check on the release. *)
DropReleasingTwice(m, w) ==
    /\ registry' = [registry EXCEPT ![m] = [u \in URIs |-> IF @[u] = w THEN None ELSE @[u]]]
    /\ held' = held - Slots(1)

DropIfRegistered(m, w) == Drop(m, {w})

-----------------------------------------------------------------------------
Init ==
    /\ now = 0
    /\ content = [u \in URIs |-> 0]
    /\ held = 0
    /\ mu = [m \in Managers |-> None]
    /\ closed = [m \in Managers |-> "open"]
    /\ registry = [m \in Managers |-> [u \in URIs |-> None]]
    /\ running = [m \in Managers |-> {}]
    /\ rateLimits = [m \in Managers |-> 0]
    /\ pausedUntil = [m \in Managers |-> 0]
    /\ pc = [c \in Calls |-> "idle"]
    /\ arg = [c \in Calls |-> [sub |-> None, uri |-> None, watcher |-> None, alreadyHeld |-> FALSE]]
    /\ loop = [c \in Calls |-> "none"]
    /\ watcher = [c \in Calls |-> NewWatcher({})]
    /\ answer = [c \in Calls |-> [kind |-> "ok", version |-> 0]]
    /\ toCancel = {}
    /\ toWake = {}

-----------------------------------------------------------------------------
(* Manager.Subscribe *)

Answers(c, reply) == pc' = [pc EXCEPT ![c] = reply]

Arguments(s, u, w, already) ==
    [sub |-> s, uri |-> u, watcher |-> w, alreadyHeld |-> already]

(* Classify refuses the URI before the lock is taken. *)
RefuseURI(c, s, u) ==
    /\ pc[c] = "idle"
    /\ u \notin Subscribable
    /\ Answers(c, "notSubscribable")
    /\ arg' = [arg EXCEPT ![c] = Arguments(s, u, None, FALSE)]
    /\ UNCHANGED <<environment, managerVars, pauseVars, loopVars, watcher, owed>>

(* Mutated form of Enters: the lock is not waited for. *)
EntersUnlocked(c, s, u) ==
    /\ pc[c] = "idle"
    /\ u \in Subscribable

Enters(c, s, u) ==
    /\ pc[c] = "idle"
    /\ u \in Subscribable
    /\ Unlocked(ManagerOf[s])

RefuseClosed(c, s, u) ==
    /\ Enters(c, s, u)
    /\ closed[ManagerOf[s]] # "open"
    /\ Answers(c, "closed")
    /\ arg' = [arg EXCEPT ![c] = Arguments(s, u, None, FALSE)]
    /\ UNCHANGED <<environment, managerVars, pauseVars, loopVars, watcher, owed>>

(* Mutated form of Join: success before the first read has been decided. *)
JoinBlind(c, s, u) ==
    LET w == registry[ManagerOf[s]][u] IN
    /\ Enters(c, s, u)
    /\ closed[ManagerOf[s]] = "open"
    /\ w # None
    /\ Answers(c, "ok")
    /\ arg' = [arg EXCEPT ![c] = Arguments(s, u, w, s \in watcher[w].subs)]
    /\ watcher' = [watcher EXCEPT ![w].subs = @ \cup {s}]
    /\ UNCHANGED <<environment, managerVars, pauseVars, loopVars, owed>>

(* The URI is watched already: the session is added to the watcher's set and
   the call waits for the first read, noting whether it added anything.     *)
Join(c, s, u) ==
    LET w == registry[ManagerOf[s]][u] IN
    /\ Enters(c, s, u)
    /\ closed[ManagerOf[s]] = "open"
    /\ w # None
    /\ Answers(c, "awaiting")
    /\ arg' = [arg EXCEPT ![c] = Arguments(s, u, w, s \in watcher[w].subs)]
    /\ watcher' = [watcher EXCEPT ![w].subs = @ \cup {s}]
    /\ UNCHANGED <<environment, managerVars, pauseVars, loopVars, owed>>

(* WatcherGate.acquire, under the manager's lock but not under any other
   manager's.  The lock stays held until Insert or RefuseTooMany.          *)
RefuseAtCapacity(c, s, u) ==
    /\ Enters(c, s, u)
    /\ closed[ManagerOf[s]] = "open" /\ registry[ManagerOf[s]][u] = None
    /\ GateLimit # 0 /\ held >= GateLimit
    /\ Answers(c, "atCapacity")
    /\ arg' = [arg EXCEPT ![c] = Arguments(s, u, None, FALSE)]
    /\ UNCHANGED <<environment, managerVars, pauseVars, loopVars, watcher, owed>>

(* Mutated form of Full: off by one at the credential's ceiling. *)
FullLate(m) == Cardinality(WatchedURIs(m)) > MaxWatchers

Full(m) == Cardinality(WatchedURIs(m)) >= MaxWatchers

(* Mutated form of LongestDemoted: any watcher may make room. *)
LongestHeld(m) ==
    {w \in WatchersOf(m) : \A v \in WatchersOf(m) : watcher[w].leaseAt <= watcher[v].leaseAt}

(* The watcher evictDemotedLocked picks: demoted, and demoted the longest. *)
LongestDemoted(m) ==
    LET demoted == {w \in WatchersOf(m) : watcher[w].demoted}
    IN  {w \in demoted : \A v \in demoted : watcher[w].leaseAt <= watcher[v].leaseAt}

(* Mutated form of Reserve: room is made before the shared slot is taken. *)
ReserveEvictingFirst(c, s, u) ==
    LET m == ManagerOf[s] IN
    /\ Enters(c, s, u)
    /\ closed[m] = "open" /\ registry[m][u] = None
    /\ \E gone \in IF Full(m) THEN {{v} : v \in LongestDemoted(m)} ELSE {{}} :
         /\ registry' = [registry EXCEPT ![m] = [x \in URIs |-> IF @[x] \in gone THEN None ELSE @[x]]]
         /\ watcher' = [v \in Calls |->
                IF v \in gone THEN [watcher[v] EXCEPT !.evicted = TRUE, !.ctx = "canceled"] ELSE watcher[v]]
         /\ held' = held + Slots(1) - Slots(Cardinality(gone))
    /\ mu' = [mu EXCEPT ![m] = c]
    /\ Answers(c, "reserved")
    /\ arg' = [arg EXCEPT ![c] = Arguments(s, u, c, FALSE)]
    /\ UNCHANGED <<environment, closed, running, pauseVars, loopVars, owed>>

Reserve(c, s, u) ==
    /\ Enters(c, s, u)
    /\ closed[ManagerOf[s]] = "open" /\ registry[ManagerOf[s]][u] = None
    /\ GateLimit = 0 \/ held < GateLimit
    /\ held' = held + Slots(1)
    /\ mu' = [mu EXCEPT ![ManagerOf[s]] = c]
    /\ Answers(c, "reserved")
    /\ arg' = [arg EXCEPT ![c] = Arguments(s, u, c, FALSE)]
    /\ UNCHANGED <<environment, closed, registry, running, pauseVars, loopVars, watcher, owed>>

RefuseTooMany(c) ==
    /\ pc[c] = "reserved"
    /\ Full(Mgr(c)) /\ LongestDemoted(Mgr(c)) = {}
    /\ held' = held - Slots(1)
    /\ mu' = [mu EXCEPT ![Mgr(c)] = None]
    /\ Answers(c, "tooMany")
    /\ UNCHANGED <<environment, closed, registry, running, pauseVars, arg, loopVars, watcher, owed>>

(* The new watcher goes into the registry with its first subscriber; the call
   goes on to the first read, without the lock.                              *)
Place(c) ==
    /\ Answers(c, "reading")
    /\ mu' = [mu EXCEPT ![Mgr(c)] = None]
    /\ UNCHANGED <<environment, closed, running, pauseVars, arg, loopVars, owed>>

Insert(c) ==
    /\ pc[c] = "reserved"
    /\ ~Full(Mgr(c))
    /\ registry' = [registry EXCEPT ![Mgr(c)][Uri(c)] = c]
    /\ watcher' = [watcher EXCEPT ![c] = NewWatcher({arg[c].sub})]
    /\ held' = held
    /\ Place(c)

InsertEvicting(c) ==
    /\ pc[c] = "reserved"
    /\ Full(Mgr(c))
    /\ \E v \in LongestDemoted(Mgr(c)) :
         /\ registry' = [registry EXCEPT ![Mgr(c)] =
                [u \in URIs |-> IF u = Uri(c) THEN c ELSE IF @[u] = v THEN None ELSE @[u]]]
         /\ watcher' = [watcher EXCEPT
                ![c] = NewWatcher({arg[c].sub}),
                ![v] = [watcher[v] EXCEPT !.evicted = TRUE,
                                          !.ctx = IF @ = "live" THEN "canceled" ELSE @]]
         /\ held' = held - Slots(1)
    /\ Place(c)

(* Manager.start: the first read, on the caller's context, with no lock. *)
FirstRead(c) ==
    /\ pc[c] = "reading"
    /\ \E kind \in {"ok", "canceled"} \cup ReadFailures :
         answer' = [answer EXCEPT ![c] = ReadNow(c, kind)]
    /\ Answers(c, "read")
    /\ UNCHANGED <<environment, managerVars, pauseVars, arg, loop, watcher, owed>>

(* abandonLocked, in the order start tries its three reasons. *)
Abandon(c, reason, reply) ==
    /\ DropIfRegistered(Mgr(c), c)
    /\ watcher' = [watcher EXCEPT ![c].ready = reason]
    /\ Answers(c, reply)
    /\ UNCHANGED <<environment, mu, closed, running, pauseVars, arg, loopVars, owed>>

(* Mutated form of AbandonFailed: whoever waits on the watcher is not released. *)
AbandonFailedUnannounced(c) ==
    /\ pc[c] = "read" /\ Unlocked(Mgr(c))
    /\ answer[c].kind # "ok"
    /\ DropIfRegistered(Mgr(c), c)
    /\ Answers(c, "failed")
    /\ UNCHANGED <<environment, mu, closed, running, pauseVars, arg, loopVars, watcher, owed>>

AbandonFailed(c) ==
    /\ pc[c] = "read" /\ Unlocked(Mgr(c))
    /\ answer[c].kind # "ok"
    /\ Abandon(c, "failed", "failed")

(* Mutated form of AbandonClosed: counted on the WaitGroup before the check. *)
AbandonClosedCounted(c) ==
    /\ pc[c] = "read" /\ Unlocked(Mgr(c))
    /\ answer[c].kind = "ok" /\ closed[Mgr(c)] # "open"
    /\ running' = [running EXCEPT ![Mgr(c)] = @ \cup {c}]
    /\ watcher' = [watcher EXCEPT ![c].ready = "closed"]
    /\ Answers(c, "closed")
    /\ UNCHANGED <<environment, held, mu, closed, registry, pauseVars, arg, loopVars, owed>>

AbandonClosed(c) ==
    /\ pc[c] = "read" /\ Unlocked(Mgr(c))
    /\ answer[c].kind = "ok" /\ closed[Mgr(c)] # "open"
    /\ Abandon(c, "closed", "closed")

AbandonWithdrawn(c) ==
    /\ pc[c] = "read" /\ Unlocked(Mgr(c))
    /\ answer[c].kind = "ok" /\ closed[Mgr(c)] = "open" /\ ~Registered(c)
    /\ Abandon(c, "withdrawn", "ok")

(* Mutated form of Launch: launched although nobody holds it any more. *)
LaunchWithdrawn(c) ==
    /\ pc[c] = "read" /\ Unlocked(Mgr(c))
    /\ answer[c].kind = "ok" /\ closed[Mgr(c)] = "open"
    /\ watcher' = [watcher EXCEPT ![c].digest = answer[c].version,
                                  ![c].ready = "started",
                                  ![c].leaseAt = now + Lease,
                                  ![c].endsAt = now + MaxLifetime]
    /\ running' = [running EXCEPT ![Mgr(c)] = @ \cup {c}]
    /\ loop' = [loop EXCEPT ![c] = "sleep"]
    /\ Answers(c, "ok")
    /\ UNCHANGED <<environment, held, mu, closed, registry, pauseVars, arg, answer, owed>>

Launch(c) ==
    /\ pc[c] = "read" /\ Unlocked(Mgr(c))
    /\ answer[c].kind = "ok" /\ closed[Mgr(c)] = "open" /\ Registered(c)
    /\ watcher' = [watcher EXCEPT ![c].digest = answer[c].version,
                                  ![c].ready = "started",
                                  ![c].leaseAt = now + Lease,
                                  ![c].endsAt = now + MaxLifetime]
    /\ running' = [running EXCEPT ![Mgr(c)] = @ \cup {c}]
    /\ loop' = [loop EXCEPT ![c] = "sleep"]
    /\ Answers(c, "ok")
    /\ UNCHANGED <<environment, held, mu, closed, registry, pauseVars, arg, answer, owed>>

(* Manager.awaitStart *)
StartReply(w) ==
    CASE watcher[w].ready \in {"started", "withdrawn"} -> "ok"
      [] watcher[w].ready = "failed" -> "failed"
      [] OTHER -> "closed"

AwaitReady(c) ==
    /\ pc[c] = "awaiting"
    /\ watcher[arg[c].watcher].ready # "wait"
    /\ Answers(c, StartReply(arg[c].watcher))
    /\ UNCHANGED <<environment, managerVars, pauseVars, arg, loopVars, watcher, owed>>

(* Manager.Unsubscribe of session s, as a step of whatever calls it. *)
Leaves(s, u) ==
    LET m == ManagerOf[s]
        w == registry[m][u]
        holds == w # None /\ s \in watcher[w].subs
    IN  IF ~holds
        THEN UNCHANGED <<registry, held, watcher, toCancel>>
        ELSE /\ watcher' = [watcher EXCEPT ![w].subs = @ \ {s}]
             /\ IF watcher[w].subs # {s}
                THEN UNCHANGED <<registry, held, toCancel>>
                ELSE /\ Drop(m, {w})
                     /\ toCancel' = toCancel \cup Cancelable({w})

(* The caller's context ends while it waits: select takes either branch when
   both are ready.  Interest this call added is given back, by URI.          *)
GiveUp(c) ==
    /\ pc[c] = "awaiting"
    /\ Unlocked(Mgr(c))
    /\ Answers(c, "gaveUp")
    /\ IF arg[c].alreadyHeld
       THEN UNCHANGED <<registry, held, watcher, toCancel>>
       ELSE Leaves(arg[c].sub, Uri(c))
    /\ UNCHANGED <<environment, mu, closed, running, pauseVars, arg, loopVars, toWake>>

-----------------------------------------------------------------------------
(* Unsubscribe, UnsubscribeAll, Close *)

Unsubscribe(s, u) ==
    LET w == registry[ManagerOf[s]][u] IN
    /\ Unlocked(ManagerOf[s])
    /\ w # None /\ s \in watcher[w].subs
    /\ Leaves(s, u)
    /\ UNCHANGED <<environment, mu, closed, running, pauseVars, callVars, loopVars, toWake>>

UnsubscribeAll(s) ==
    LET m    == ManagerOf[s]
        own  == {w \in WatchersOf(m) : s \in watcher[w].subs}
        last == {w \in own : watcher[w].subs = {s}}
    IN  /\ Unlocked(m)
        /\ own # {}
        /\ watcher' = [w \in Calls |->
                IF w \in own THEN [watcher[w] EXCEPT !.subs = @ \ {s}] ELSE watcher[w]]
        /\ Drop(m, last)
        /\ toCancel' = toCancel \cup Cancelable(last)
        /\ UNCHANGED <<environment, mu, closed, running, pauseVars, callVars, loopVars, toWake>>

(* The first Close empties the registry and then waits for the watch loops. *)
Close(m) ==
    /\ Unlocked(m)
    /\ closed[m] = "open"
    /\ closed' = [closed EXCEPT ![m] = "closing"]
    /\ Drop(m, WatchersOf(m))
    /\ toCancel' = toCancel \cup Cancelable(WatchersOf(m))
    /\ UNCHANGED <<environment, mu, running, pauseVars, callVars, loopVars, watcher, toWake>>

(* Mutated form of CloseReturns: it does not wait for the goroutines. *)
CloseReturnsEarly(m) ==
    /\ closed[m] = "closing"
    /\ closed' = [closed EXCEPT ![m] = "closed"]
    /\ UNCHANGED <<environment, held, mu, registry, running, pauseVars, callVars, loopVars, watcher, owed>>

CloseReturns(m) ==
    /\ closed[m] = "closing"
    /\ running[m] = {}
    /\ closed' = [closed EXCEPT ![m] = "closed"]
    /\ UNCHANGED <<environment, held, mu, registry, running, pauseVars, callVars, loopVars, watcher, owed>>

(* The cancel() calls Unsubscribe, UnsubscribeAll and Close make after they
   have given the lock back.                                                *)
Cancel(w) ==
    /\ w \in toCancel
    /\ toCancel' = toCancel \ {w}
    /\ watcher' = [watcher EXCEPT ![w].ctx = IF @ = "live" THEN "canceled" ELSE @]
    /\ UNCHANGED <<environment, managerVars, pauseVars, callVars, loopVars, toWake>>

-----------------------------------------------------------------------------
(* Manager.watch: one loop per launched watcher.  A step that takes the lock
   names it; sleeping covers the select and whatever the timer was set to.  *)

Step(w, from, to) ==
    /\ loop[w] = from
    /\ loop' = [loop EXCEPT ![w] = to]

Locks(w) == Unlocked(Mgr(w))

(* context.WithTimeout: the absolute lifetime ends. *)
LifetimeEnds(w) ==
    /\ Looping(w)
    /\ watcher[w].ctx = "live" /\ now >= watcher[w].endsAt
    /\ watcher' = [watcher EXCEPT ![w].ctx = "deadline"]
    /\ UNCHANGED <<environment, managerVars, pauseVars, callVars, loopVars, owed>>

ContextDone(w) ==
    /\ watcher[w].ctx # "live"
    /\ Step(w, "sleep", "retire")
    /\ answer' = [answer EXCEPT ![w] = [kind |-> "canceled", version |-> 0]]
    /\ UNCHANGED <<environment, managerVars, pauseVars, callVars, watcher, owed>>

Resume(w) ==
    /\ loop[w] = "sleep" /\ watcher[w].renew /\ Locks(w)
    /\ watcher' = [watcher EXCEPT ![w].renew = FALSE, ![w].timer = "cadence"]
    /\ UNCHANGED <<environment, managerVars, pauseVars, callVars, loopVars, owed>>

Paused(m) == pausedUntil[m] # 0 /\ now < pausedUntil[m]

(* Mutated form of Poll: a watch past its lease is not polled at all. *)
PollUnlessSlow(w) ==
    /\ Locks(w) /\ ~Paused(Mgr(w)) /\ watcher[w].timer # "slow"
    /\ Step(w, "sleep", "reading")
    /\ UNCHANGED <<environment, managerVars, pauseVars, callVars, answer, watcher, owed>>

(* The timer fires: outside a pause the watcher polls, inside one it sleeps
   out the remainder of the pause instead of its own timer.                 *)
Poll(w) ==
    /\ Locks(w) /\ ~Paused(Mgr(w))
    /\ Step(w, "sleep", "reading")
    /\ UNCHANGED <<environment, managerVars, pauseVars, callVars, answer, watcher, owed>>

SitOutPause(w) ==
    /\ Locks(w) /\ Paused(Mgr(w))
    /\ loop[w] = "sleep" /\ watcher[w].timer = "slow"
    /\ watcher' = [watcher EXCEPT ![w].timer = "cadence"]
    /\ UNCHANGED <<environment, managerVars, pauseVars, callVars, loopVars, owed>>

(* Reader.Read within poll: a canceled context fails it; GitLab's answer may
   still be overtaken by a cancellation before the loop looks at it.        *)
ReadAnswers(w, kind) ==
    /\ IF watcher[w].ctx = "live" THEN kind # "canceled" ELSE kind = "canceled"
    /\ kind = "rateLimited" => rateLimits[Mgr(w)] < MaxStreak
    /\ Step(w, "reading", "answered")
    /\ answer' = [answer EXCEPT ![w] = ReadNow(w, kind)]
    /\ UNCHANGED <<environment, managerVars, pauseVars, callVars, watcher, owed>>

(* Mutated form of ReadSucceeded: any success ends the pause. *)
ReadSucceededLiftingPause(w) ==
    LET m == Mgr(w) IN
    /\ Locks(w)
    /\ answer[w].kind = "ok"
    /\ Step(w, "answered", "compare")
    /\ rateLimits' = [rateLimits EXCEPT ![m] = 0]
    /\ pausedUntil' = [pausedUntil EXCEPT ![m] = 0]
    /\ UNCHANGED <<environment, managerVars, callVars, answer, watcher, owed>>

(* clearRateLimit: a success resets the streak unless a pause is in force. *)
ReadSucceeded(w) ==
    LET m == Mgr(w) IN
    /\ Locks(w)
    /\ answer[w].kind = "ok"
    /\ Step(w, "answered", "compare")
    /\ IF now < pausedUntil[m]
       THEN UNCHANGED pauseVars
       ELSE /\ rateLimits' = [rateLimits EXCEPT ![m] = 0]
            /\ pausedUntil' = [pausedUntil EXCEPT ![m] = 0]
    /\ UNCHANGED <<environment, managerVars, callVars, answer, watcher, owed>>

ReadInaccessible(w) ==
    /\ answer[w].kind = "inaccessible"
    /\ Step(w, "answered", "retire")
    /\ UNCHANGED <<environment, managerVars, pauseVars, callVars, answer, watcher, owed>>

Lesser(a, b) == IF a <= b THEN a ELSE b
BackOff(n)   == Lesser(RateLimitPause * 2 ^ Lesser(n - 1, 8), MaxRateLimitPause)

(* jitterFraction either way, clamped to the ceiling. *)
Jittered(d) == {x \in 1 .. MaxRateLimitPause : 5 * x >= 4 * d /\ 5 * x <= 6 * d}

(* recordRateLimit *)
ReadRateLimited(w) ==
    LET m == Mgr(w)
        streak == rateLimits[m] + 1
    IN  /\ Locks(w)
        /\ answer[w].kind = "rateLimited"
        /\ Step(w, "answered", "lease")
        /\ rateLimits' = [rateLimits EXCEPT ![m] = streak]
        /\ \E wait \in Jittered(BackOff(streak)) :
             pausedUntil' = [pausedUntil EXCEPT ![m] = now + wait]
        /\ UNCHANGED <<environment, managerVars, callVars, answer, watcher, owed>>

(* Canceled mid-read, or a transient failure: try again at the base cadence. *)
ReadFailed(w) ==
    /\ answer[w].kind \in {"canceled", "transient"}
    /\ Step(w, "answered", "lease")
    /\ UNCHANGED <<environment, managerVars, pauseVars, callVars, answer, watcher, owed>>

(* updateDigest *)
UpdateDigest(w) ==
    /\ Locks(w)
    /\ IF Registered(w) /\ watcher[w].digest # answer[w].version
       THEN /\ Step(w, "compare", "notify")
            /\ watcher' = [watcher EXCEPT ![w].digest = answer[w].version]
       ELSE /\ Step(w, "compare", "lease")
            /\ UNCHANGED watcher
    /\ UNCHANGED <<environment, managerVars, pauseVars, callVars, answer, owed>>

(* Notifier.ResourceUpdated: best effort, whatever it returns. *)
Notify(w) ==
    /\ Step(w, "notify", "lease")
    /\ UNCHANGED <<environment, managerVars, pauseVars, callVars, answer, watcher, owed>>

ApplyLease(w) ==
    LET slow == watcher[w].demoted \/ now >= watcher[w].leaseAt IN
    /\ Locks(w)
    /\ Step(w, "lease", "arm")
    /\ watcher' = [watcher EXCEPT ![w].demoted = slow,
                                  ![w].timer = IF slow THEN "slow" ELSE "cadence"]
    /\ UNCHANGED <<environment, managerVars, pauseVars, callVars, answer, owed>>

(* The timer is reset to what applyLease returned, without the lock. *)
ResetTimer(w) ==
    /\ Step(w, "arm", "sleep")
    /\ UNCHANGED <<environment, managerVars, pauseVars, callVars, answer, watcher, owed>>

(* Mutated form of StopReason: the loop's own finding is not announced. *)
StopReasonOfContext(w) ==
    CASE watcher[w].ctx = "deadline" -> "lifetime"
      [] watcher[w].evicted          -> "evicted"
      [] OTHER                       -> "silent"

(* Why retire announces the end of w, or "silent". *)
StopReason(w) ==
    CASE answer[w].kind = "inaccessible" -> "inaccessible"
      [] watcher[w].ctx = "deadline"     -> "lifetime"
      [] watcher[w].evicted              -> "evicted"
      [] OTHER                           -> "silent"

GoroutineEnds(w) ==
    /\ running' = [running EXCEPT ![Mgr(w)] = @ \ {w}]
    /\ watcher' = [watcher EXCEPT ![w].ctx = IF @ = "live" THEN "canceled" ELSE @]

Retire(w) ==
    /\ Locks(w)
    /\ DropIfRegistered(Mgr(w), w)
    /\ IF StopReason(w) = "silent"
       THEN Step(w, "retire", "done") /\ GoroutineEnds(w)
       ELSE Step(w, "retire", "announce") /\ UNCHANGED <<running, watcher>>
    /\ UNCHANGED <<environment, mu, closed, pauseVars, callVars, answer, owed>>

(* Options.OnStop, with no lock held. *)
Announce(w) ==
    /\ Step(w, "announce", "done")
    /\ GoroutineEnds(w)
    /\ UNCHANGED <<environment, held, mu, closed, registry, pauseVars, callVars, answer, owed>>

-----------------------------------------------------------------------------
(* Renew and RenewAll: renewLocked for each watcher of W under one lock, then
   wake for those it revived, after it.                                      *)

RenewLocked(W) ==
    /\ watcher' = [w \in Calls |->
            IF w \in W THEN [watcher[w] EXCEPT !.leaseAt = now + Lease, !.demoted = FALSE]
                       ELSE watcher[w]]
    /\ toWake' = toWake \cup {w \in W : watcher[w].demoted}
    /\ UNCHANGED <<environment, managerVars, pauseVars, callVars, loopVars, toCancel>>

Renew(m, u) ==
    /\ Unlocked(m)
    /\ registry[m][u] # None
    /\ RenewLocked({registry[m][u]})

RenewAll(s) ==
    LET own == {w \in WatchersOf(ManagerOf[s]) : s \in watcher[w].subs} IN
    /\ Unlocked(ManagerOf[s])
    /\ own # {}
    /\ RenewLocked(own)

(* Mutated form of Wake: the channel has no buffer. *)
WakeUnbuffered(w) ==
    /\ w \in toWake
    /\ toWake' = toWake \ {w}
    /\ watcher' = [watcher EXCEPT ![w].renew = @ \/ loop[w] = "sleep"]
    /\ UNCHANGED <<environment, managerVars, pauseVars, callVars, loopVars, toCancel>>

Wake(w) ==
    /\ w \in toWake
    /\ toWake' = toWake \ {w}
    /\ watcher' = [watcher EXCEPT ![w].renew = TRUE]
    /\ UNCHANGED <<environment, managerVars, pauseVars, callVars, loopVars, toCancel>>

-----------------------------------------------------------------------------
(* The environment: time passes, resources change. *)

Tick ==
    /\ now < MaxTime
    /\ now' = now + 1
    /\ UNCHANGED <<content, managerVars, pauseVars, callVars, loopVars, watcher, owed>>

Change(u) ==
    /\ content[u] < MaxVersion
    /\ content' = [content EXCEPT ![u] = @ + 1]
    /\ UNCHANGED <<now, managerVars, pauseVars, callVars, loopVars, watcher, owed>>

-----------------------------------------------------------------------------
Subscribe(c, s, u) ==
    \/ RefuseURI(c, s, u) \/ RefuseClosed(c, s, u) \/ Join(c, s, u)
    \/ RefuseAtCapacity(c, s, u) \/ Reserve(c, s, u)

(* What a call in flight does on its own account. *)
CallStep(c) ==
    \/ RefuseTooMany(c) \/ Insert(c) \/ InsertEvicting(c)
    \/ FirstRead(c)
    \/ AbandonFailed(c) \/ AbandonClosed(c) \/ AbandonWithdrawn(c) \/ Launch(c)
    \/ AwaitReady(c)

LoopStep(w) ==
    /\ Looping(w)
    /\ \/ ContextDone(w) \/ Resume(w) \/ Poll(w) \/ SitOutPause(w)
       \/ \E kind \in {"ok", "canceled"} \cup ReadFailures : ReadAnswers(w, kind)
       \/ ReadSucceeded(w) \/ ReadInaccessible(w) \/ ReadRateLimited(w) \/ ReadFailed(w)
       \/ UpdateDigest(w) \/ Notify(w) \/ ApplyLease(w) \/ ResetTimer(w)
       \/ Retire(w) \/ Announce(w)

ClientStep(s) ==
    \/ \E u \in URIs : (\E c \in Calls : Subscribe(c, s, u)) \/ Unsubscribe(s, u)
    \/ UnsubscribeAll(s) \/ RenewAll(s)

ManagerStep(m) ==
    \/ Close(m) \/ CloseReturns(m)
    \/ \E u \in URIs : Renew(m, u)

Next ==
    \/ \E s \in Sessions : ClientStep(s)
    \/ \E m \in Managers : ManagerStep(m)
    \/ \E c \in Calls : CallStep(c) \/ GiveUp(c) \/ LoopStep(c) \/ LifetimeEnds(c)
                       \/ Cancel(c) \/ Wake(c)
    \/ Tick
    \/ \E u \in URIs : Change(u)

Spec == Init /\ [][Next]_vars
-----------------------------------------------------------------------------
(* Safety *)

Reserving    == {c \in Calls : pc[c] = "reserved"}
WatchedSlots == {k \in Managers \X URIs : registry[k[1]][k[2]] # None}

(* The count of the shared gate is exact: one for each watcher in any
   registry and one for each call between taking its slot and spending it,
   whatever dropped the others: a slot leaked by one removal path would show
   up much later as refusals for no visible reason (dropWatcherLocked).     *)
GateCountsWatchers ==
    held = Slots(Cardinality(WatchedSlots) + Cardinality(Reserving))

(* Neither the process-wide ceiling nor the credential's is ever exceeded,
   although a full manager spends the shared slot before its own.           *)
CeilingsHold ==
    /\ GateLimit # 0 => Cardinality(WatchedSlots) <= GateLimit
    /\ \A m \in Managers : Cardinality(WatchedURIs(m)) <= MaxWatchers

(* A slot taken and not spent belongs to a call that holds its manager's
   lock and whose URI nobody else has begun to watch meanwhile; and what the
   registry holds under a URI is a watcher of that URI and that manager.    *)
SlotsAreOwned ==
    /\ \A c \in Reserving : mu[Mgr(c)] = c /\ registry[Mgr(c)][Uri(c)] = None
    /\ \A m \in Managers, u \in URIs : registry[m][u] # None =>
            LET w == registry[m][u] IN
            /\ pc[w] \notin {"idle", "reserved"}
            /\ Mgr(w) = m /\ Uri(w) = u

(* Whoever can be reached by a watcher is in its set, and a watch goroutine
   nothing holds any more has been told to stop, or its canceller is about
   to: no poll loop runs on unseen for the rest of its lifetime.            *)
NoOrphan ==
    \A w \in Calls :
        /\ Registered(w) => watcher[w].subs # {}
        /\ loop[w] \in {"sleep", "reading", "compare", "notify", "lease", "arm"} /\ ~Registered(w)
              => watcher[w].ctx # "live" \/ w \in toCancel

(* A Subscribe call is told it succeeded only once the one read anybody made
   has succeeded; when its watcher was withdrawn meanwhile, only if its own
   session had let go of it.                                                *)
SuccessMeansRead ==
    \A c \in Calls : pc[c] = "ok" =>
        LET w == watcher[arg[c].watcher] IN
        \/ w.ready = "started"
        \/ w.ready = "withdrawn" /\ arg[c].sub \notin w.subs

(* A revived watcher never sits out a slow sleep: while it is asleep on the
   slow timer with its lease renewed, the nudge is in its channel or the
   renewer is about to put it there.                                        *)
RevivedIsWoken ==
    \A w \in Calls :
        loop[w] = "sleep" /\ watcher[w].timer = "slow" /\ ~watcher[w].demoted
            => watcher[w].renew \/ w \in toWake

(* Once Close has returned, no watch loop of that manager runs, and none is
   launched later by a Subscribe whose first read was in flight.            *)
ClosedIsQuiet ==
    \A m \in Managers : closed[m] = "closed" =>
        \A w \in Calls : Looping(w) => Mgr(w) # m

(* A watcher is stopped to make room only in the step that puts the new one
   in its place, and never within a lease of its last renewal: a refusal
   costs the credential none of the watches it has.                         *)
EvictionMakesRoom ==
    [][\A v \in Calls : watcher'[v].evicted /\ ~watcher[v].evicted =>
            /\ now >= watcher[v].leaseAt
            /\ \E c \in Calls : /\ pc[c] = "reserved" /\ pc'[c] = "reading"
                                /\ Mgr(c) = Mgr(v) /\ Registered(c)']_vars

(* A read that succeeds while a rate-limit pause is in force neither lifts
   the pause nor forgets the streak that makes the next one longer.         *)
PauseOutlivesSuccess ==
    [][\A m \in Managers : Paused(m) =>
            rateLimits'[m] >= rateLimits[m] /\ pausedUntil'[m] > now]_pauseVars

-----------------------------------------------------------------------------
(* Refinement: what all of this promises the transport layer. *)

HoldersOf(k) == LET w == registry[k[1]][k[2]] IN IF w = None THEN {} ELSE watcher[w].subs

StartedWatches ==
    {k \in WatchedSlots : watcher[registry[k[1]][k[2]]].ready = "started"}

(* Goroutines of watches no longer registered, and those among them that will
   call OnStop.                                                             *)
Unwinding == {w \in Calls : Launched(w) /\ w \in running[Mgr(w)] /\ ~Registered(w)}

Announcing == {w \in Unwinding : loop[w] = "announce" \/ watcher[w].evicted}

KeysOf(W) == {<<Mgr(w), Uri(w)>> : w \in W}

Table == INSTANCE WatchTable WITH
    subs      <- [k \in Managers \X URIs |-> HoldersOf(k)],
    started   <- StartedWatches,
    due       <- KeysOf(Announcing),
    unwinding <- KeysOf(Unwinding \ Announcing)

(* Joins, withdrawals, evictions, retirements and Close, with their reads,
   races and slots, never do to the subscribers of a watch what the table
   does not allow: take it from one of them alone who did not leave it, end
   it without announcing it, end it before its successor is in place, or let
   Close return while an announcement may still come.                       *)
ImplementsTable == Table!Spec

-----------------------------------------------------------------------------
(* Liveness *)

(* What the code's scheduling justifies: goroutines that can run do run, a
   read in flight is answered in the end, the timer of a sleeping watcher
   fires, and GitLab does not fail every read of a watch forever.  A select
   whose context is done does not take its timer every time: the timer has
   just been reset, and is not ready when the context already is.  Nothing is
   assumed of clients, of contexts ending, of the clock or of the resources. *)
Fairness ==
    /\ \A c \in Calls :
        /\ WF_vars(CallStep(c))
        /\ WF_vars(LoopStep(c))
        /\ SF_vars(ReadAnswers(c, "ok") /\ Looping(c))
        /\ SF_vars(ContextDone(c) /\ Looping(c))
        /\ WF_vars(Cancel(c))
        /\ WF_vars(Wake(c))
    /\ \A m \in Managers : WF_vars(CloseReturns(m))

FairSpec == Spec /\ Fairness

(* Whoever waits on a first read is released, however that read and its
   watcher end: by a failure, a withdrawal, a Close or a launch.            *)
CallersAreAnswered ==
    \A c \in Calls : pc[c] \in {"reserved", "reading", "awaiting"} ~> pc[c] \in Answered

(* Close comes back: every loop it waits for notices its cancellation. *)
CloseFinishes == \A m \in Managers : closed[m] = "closing" ~> closed[m] = "closed"

(* A change is seen by every watch that stays: the baseline catches up with
   what GitLab answers, or the watch is over, or GitLab refuses for ever: a
   pause that ends does not leave the watch asleep (pause, SitOutPause).     *)
ChangesAreSeen ==
    \A w \in Calls : Looping(w) /\ watcher[w].digest # content[Uri(w)]
        ~> ~Looping(w) \/ watcher[w].digest = content[Uri(w)] \/ []Paused(Mgr(w))

-----------------------------------------------------------------------------
(* What a comment of manager.go says and its interleavings do not keep, checked
   by a run that expects the counterexample.                                *)

(* Subscribe: interest the subscriber already held is not taken back by a
   wait that expires, since its sibling call still relies on it.            *)
GiveUpLeavesSiblings ==
    [][\A c, d \in Calls :
            /\ pc[c] = "awaiting" /\ pc'[c] = "gaveUp"
            /\ d # c /\ pc[d] \in {"awaiting", "ok"}
            /\ arg[d].sub = arg[c].sub /\ arg[d].watcher = arg[c].watcher
            /\ arg[d].sub \in watcher[arg[d].watcher].subs
            => arg[d].sub \in watcher'[arg[d].watcher].subs]_pc

==============================================================================
