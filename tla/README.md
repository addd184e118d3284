# gitlab-mcp-server in TLA+

This directory specifies the concurrent core of `gitlab-mcp-server`: the Go
process that serves the Model Context Protocol for many GitLab credentials at
once. The specifications are translated from the code under `src/`, checked by
TLC on small instances and, as to their safety properties, proved with TLAPS for
every value of the constants.

`PROJECT.json` lists the components, the TLC runs, the source lines behind each
definition, the mutated definitions each property is known to reject, the
hazards the properties answer, the disagreements found and the theorems.

## 1. Inventory

Over a million lines of the repository are per-domain tool handlers
(`internal/tools`), their tests, generated catalogs, and development commands
(`cmd/audit_*`, `cmd/gen_*`). A handler keeps no state between two calls. What
keeps state, and runs concurrently, is the following.

| Component | State | Operations | Why it is hard | What makes it correct |
|---|---|---|---|---|
| **Subscription manager** `internal/subscriptions/manager.go` | a registry URI -> watcher per credential, each watcher's subscribers, baseline, lease; a pause; a process-wide `WatcherGate` | Subscribe, Unsubscribe, UnsubscribeAll, Renew, RenewAll, Close, one poll goroutine per watcher | first reads and polls run without the lock; six paths remove a watcher; the gate is shared by managers with separate locks | gate count exact, ceilings kept, no orphan goroutine, success means a first read, changes are seen, Close waits for every loop |
| **Server pool** `internal/serverpool/pool.go` | map and LRU list of credential entries, builds in flight (singleflight), probe slots, a cool-down per entry | GetOrCreateEntryWithFacts, Admitted, 401 handling and confirmation, revalidation sweep, idle sweep, EvictServer, Close | read lock then write lock on the fast path; answers from GitLab arrive after the entry changed; eight causes of eviction | map and list agree, an entry is ended once and with a true cause, probe slots balance, revoked credentials leave, size pressure spares work |
| **Shape servers** `cmd/server/shape.go` | one MCP server per configuration shape, its registration | get, forServer, forget, startShapeRegistration | registration fails while entries of its server are being built | no entry of a dead server stays pooled |
| **Credential states** `cmd/server/credential.go` | what one credential's sessions and streams hang on | add, remove, inUse, bindCredential | started and ended by the pool under its lock | exist exactly for pooled entries |
| **Session bridge and listen streams** `cmd/server/subscriptions.go` | holds of streams on watches, open listen streams, listen counters | Subscribe, Unsubscribe, awaitEnd, arm, stoppedFor, closeOwner, closeAll | stream, session and credential may end in any order; a hold is taken after the subscribe returns | an open stream is watched or about to be told; what the server ended is told why; what is over holds nothing |
| **Session owners, session slots, held calls** `session_owner.go`, `sessions.go`, `carrier.go`, `held.go` | session -> credential, slot hand-over flags, counters | record, forget, forgetOwner, keep, releaseUnkept, acquire, release | a slot has two parties that may release it; attribution races eviction | every slot counted is held by somebody, never past a ceiling |
| **Authentication budgets** `serverpool/rate_limit.go`, `distinct_token_budget.go`, `auth_gate.go`, `bearer_guard.go` | failures per address, distinct tokens per address, blocks and rungs | RecordFailure, BlockedFor, Charge, Blocked, Cleanup | check and charge are separate critical sections; a full table; time boundaries | blocks are earned, Retry-After is honest, silence alone forgives, a full table loses no live record |
| **OAuth verification** `internal/oauth` | identity cache, refused-token cache, verification slots | verify, Get, Put, record, LookupRefusal, Cleanup | the cache is read before, while and after waiting for a slot | bounds hold, no live identity evicted while an expired one stays, nobody served past the life of a token, only guesses charged |
| **Readiness, TLS reload, discovery rate** `readiness.go`, `tls_reload.go`, `discovery_rate.go` | a gate opened once, the served pair, rate per address | markReady, markFailed, markRefused, await, GetCertificate, allow | three parties open one gate; files change one after the other | one cause, no torn pair |
| **Tool rate limiter, once map, progress** `internal/toolutil` | buckets, memo table, last value | take, debit, refund, Load, forget, Update | refunds and forgets race with users | tokens never exceed the burst; progress only grows |
| **GitLab client** `internal/gitlab` | lazy initialisation, retry budget | EnsureInitialized, requests | slow, refusing or limiting remote | once initialised stays so |
| **Elicitation** `internal/elicitation` | signed state carried by the client | encodeState, decodeState, exchange | rounds interleave with other calls | a round continues its own exchange only |

How they interact: an HTTP request passes the authentication budgets and the
bearer or OAuth guard, and asks the pool for its credential's entry. The pool
verifies the credential with GitLab under a probe slot, takes the MCP server of
the credential's shape from the shape registry, and on insertion starts the
credential's state (`WithOnInsert`); on eviction it ends it (`WithOnEvict`),
which closes the credential's sessions and listen streams. A session that
subscribes to a resource goes through the session bridge to its credential's
subscription manager, which starts a poll goroutine under the shared gate and
calls back (`ResourceUpdated`, `OnStop`) into the bridge and its streams.

The hazards of this code, each at its line, are the `hazards` of
`PROJECT.json`; those of components not modelled yet say so.

## 2. Modules

| Module | Models | Uses |
|---|---|---|
| `WatchTable` | what the managers promise the transport layer: the abstract specification | |
| `SubscriptionManager` | the managers of all credentials and the gate; implements `WatchTable` | `WatchTable` by INSTANCE, with a refinement mapping |
| `SubscriptionManagerProofs`, `WatcherProofs`, `WatchTableProofs` | theorems about it: the gate and the manager, each watcher, the refinement | each extends the one before |
| `ServerPool` | the pool with shapes, credential states and registration around it | |
| `ServerPoolProofs` | theorems about it | |
| `SessionBridge` | sessions, holds, listen streams, evictions and shutdown, on top of the watch tables | `WatchTable` by INSTANCE, its actions as steps |
| `SessionBridgeProofs` | theorems about it | |
| `AuthBudgets` | the failure limiter, the distinct-credential ladder and the gate that asks and charges them, with time | |
| `RequestGate` | a POST behind that gate: the slots of sessions, held calls and listens, and the calls dispatched from it | extends `AuthBudgets` |
| `RequestGateProofs` | theorems about it | |
| `TokenCache` | the operators of the cache of verified identities | |
| `BearerGuard` | an oauth deployment: the guard, the verifier and the SDK in front of the gate | extends `RequestGate`, `TokenCache` by INSTANCE |
| `BearerGuardProofs` | theorems about it | extends `RequestGateProofs` |
| `AuthBudgetsProofs` | theorems about the budgets, asked and charged by the guard and the gate | extends `BearerGuardProofs` |
| `MCSubscriptionManager`, `MCServerPool`, `MCSessionBridge`, `MCBearerGuard` | instances for TLC: constant functions, workloads and symmetry | |

Two chains of composition: `SubscriptionManager` implements `WatchTable` and
`SessionBridge` is built on it, so what the bridge relies on is what the managers
are proved to do; and a request goes through `BearerGuard`, `AuthBudgets` and
`RequestGate` in one state space, where the guard charges the very budgets the
gate asks again.

Each component module ends with its properties; the definitions headed
"Mutated form of ..." are wrong variants of the operation that follows, kept to
show that the properties reject them. No action of a specification uses them.

### 2.1 SubscriptionManager

State. `registry`, `closed`, `running`, `rateLimits`, `pausedUntil` are the
fields of each `Manager`; `held` is the count of the `WatcherGate`; `mu` names
the call that keeps a manager's mutex across several steps (only Subscribe does,
between `WatcherGate.acquire` and the insertion) and is `None` when the lock is
free. A watcher is named by the `Subscribe` call that made it; `watcher[w]` is
its struct (subscribers, baseline digest as a version number, ready channel,
lease, demotion, context, renew channel), `loop[w]` the position of its
goroutine, `answer[w]` what its read in flight returned. `toCancel` and `toWake`
hold the calls of `cancel()` and `wake()` the code makes after giving up a lock:
other actors may step before they happen.

Actions. Subscribe is `RefuseURI`, `RefuseClosed`, `Join`, `RefuseAtCapacity`,
or `Reserve` followed by `RefuseTooMany`, `Insert` or `InsertEvicting`; then
`FirstRead` (without the lock), then one of `AbandonFailed`, `AbandonClosed`,
`AbandonWithdrawn`, `Launch`; a joiner waits in `AwaitReady` or leaves by
`GiveUp`. The goroutine of a watcher is `ContextDone`, `Resume`, `Poll`,
`SitOutPause`, `ReadAnswers`, the branch the answer takes (`ReadSucceeded`,
`ReadInaccessible`, `ReadRateLimited`, `ReadFailed`), `UpdateDigest`, `Notify`,
`ApplyLease`, `ResetTimer`, `Retire`, `Announce`: the code's order, each step
one critical section or one call without the lock. `Tick` and `Change` are the
clock and GitLab.

Abstractions. A digest is the version of the content; a cadence is a timer that
may fire whenever the loop sleeps; the jitter of a pause is either end of its
range. Constants bound time (`MaxTime`), changes (`MaxVersion`) and refusals in
a row (`MaxStreak`).

Refinement. `ImplementsTable` maps a registered watcher to its subscribers, one
whose first read succeeded to `started`, one retired and not yet announced to
`due`, and one whose loop was cancelled to `unwinding`. Reservations, reads, polls,
leases and pauses are stutters; the eviction of a demoted watch together with the
insertion of its successor is one step of the table (`JoinDisplacing`).

### 2.2 ServerPool

State. `entries` is the map, `linked` and `ahead` the LRU list (its members, and
the pairs of which the first is nearer the front), `building` the singleflight
group, `probes` the slots taken, `shapes` and `reg` the shape registry and where
each server's registration is, `states` and `busy` the credential states and
those with a stream or a watcher. `entry[e]` is the `Entry`; an entry is named by
the request whose build made it, a server by the build whose factory call made
it. `gitlab[k]` is how GitLab answers for the credential now. `judged`,
`inserted` and `refused` are history, read by properties only.

Actions. A request does `Lookup` under the read lock, then `Hit`,
`DropRejected` or `EvictStale` under the write lock, or leads or joins a build
(`Lead`, `Join`); a build is `TakeSlot`/`NoSlot`, `Verify`, `LearnFacts`,
`ReadGrant`, `TakeServer`, `BuildFails`, then `KeepExisting`, `Insert` or
`InsertRefused`, and `Finish` answers the leader while `JoinerReturns` answers
the others, as long as singleflight still holds the build. A 401 seen by a call
is `NamedRefusal` then `EvictRejected` (a goroutine), or `UnexplainedRefusal`
and the steps of the confirmation (`ConfirmStarts` to `ConfirmKeeps`); the sweep
is `SweepStarts`, then per entry `SweepTakes`, `SweepAnswered` and its verdict.
`IdleSweep`, `EvictServer` after a failed registration, and `Close` are the
other ways out.

Abstractions. The tail of the list is the entry nothing is ahead of it of; after
`Close` re-linking a stale element by a hit in flight is not modelled (the pool is
not used again); metrics and logs are left out; the record of tokens below the
minimum that the pool hands its door belongs to the door. The 30 s confirmation
cool-down is assumed to outlast the 5 s probe. `Events` selects, per instance,
what the environment may do: TLC cannot take all of them at once.

### 2.3 SessionBridge

State. `session`, `recorded` (`sessionOwners`), `awaited`, `leaving` and `holds`
belong to sessions; `pc`, `todo`, `at`, `result`, `told` follow a request; `ctx`,
`stage`, `why`, `live` are a listen stream: its context, whether it is filed in
the registry, taken out to be ended, its ending stored, canceled. `pool`,
`orphans`, `down`, `sealed` are evictions and the shutdown. The five variables of
`WatchTable` are the managers underneath.

Actions. `Arrive` (the gate has bound the request), `Record`, `Arm`, then for each
resource `Join` or `Refused`, `Hold`, with `GiveUp` and `Abandoned`; `Acknowledge`
or `Fail`; `Unwind`, `Release`, `Leave`, `Finish`. `ReleaseSession`,
`LeaveSession` and `ForgetSession` are the goroutine that awaits the end of a
session. `Announce` is `OnStop` and `stoppedFor`, `EndStream` the two steps of
`endWith`; `Evict`, `CloseManager`, `CloseOwner`, `EndSessions` are an eviction in
the order of the code; `Shutdown` and `CloseAll` the end of the process.

The three transports differ in what they accept (`Takes`): a stateless request is
a session of its own and only listens, a stateful session opens with initialize
and is known by the gate, stdio is one session doing everything. This and the
waiting of `session.Wait` are modelled from how the code uses the SDK. A stateful
session holds no listen stream: stateful HTTP refuses the revisions that have
`subscriptions/listen` (`cmd/server/instructions_test.go:340`,
`cmd/server/shape_test.go:1139`, `docs/development/upstream-bugs.md:10410`), so
what `endSessionsWithoutStreams` leaves out (`session_owner.go:245`) is never among
the sessions handed to it there. Updates
delivered to a stream, the renewal ticker and keep-alives are not modelled.

### 2.4 AuthBudgets

State. `failures` and `distinct` are the two tables, functions of the addresses
tracked, with the instants they were last swept; `pooled` the entries of the pool,
by credential, each named by the request that had it built; `entry` the entry a
request was resolved to; `door` how far a request is; `asked` what each request is,
chosen once.
`promise`, `failedAt`, `lockedAt` and `heard` are history for the properties.

Actions. `AskBudgets`, `Admit`/`Reject`/`TurnAway`, `ChargeFailure`,
`ChargeDistinct` (two budgets, one after the other), the two cleanups, `Forget`,
`Tick`. Any token may be admitted: one GitLab accepts, and one its probe has no
answer about (`verifyUnderProbeBound`, `pool.go:865`); `TurnAway` is a build that
fails for another reason, or a token GitLab accepts and the door does not. The tables' sweeps when full are part of the operation that meets them.
The two budgets are asked in one step. The deployment has IPv4 clients and no
trusted proxy header, so the transport-source budget is absent and the /48
aggregate is not asked. The window of the budgets and the step of the ladder are
a few ticks; the ladder is <<2, 3>> steps instead of <<1, 10, 60>>. The clock
stops while no record is kept, since nothing else reads it.

### 2.5 RequestGate

State. `held`, `sessions`, `streams` are the counters of the process and `listens`
those of the pool's entries, so that a credential evicted and rebuilt counts anew
while its old streams may still be open; `post` and
`call` follow a POST and its calls, `saw` is what a compare and swap has read;
`slot`, `claimed`, `own` say who is to give a slot back; `gone` the clients that
left.

Actions. The load and the swap of `processSlots.acquire` are steps of their own
(`ReadHeld`, `TakeHeld` and so on), as are the add and the retraction of
`listenCounter`. `Keep`, `Claim` and `Count` are the middlewares that meet a
message behind the SDK; a POST whose client is gone is found by its carrier or
not. A listen whose entry was evicted before the gate bound it to its state, or
whose carrier is gone, belongs to nobody and is refused (`Enter`, `Unattributed`). `Return`, `Dispatchable` and `EndSession` are the SDK: its handler returns
once the calls are answered, or earlier when the client is gone. The two
decrements of a `sessionSlot` are one step.

### 2.6 BearerGuard and TokenCache

`TokenCache` has one operator per method of the cache (`Got`, `Put`, `WithRoom`,
`Swept`, `Noted`), each a critical section. The recency list is an order, the
pairs of which the first is nearer the front; that it orders what is held as one
list is part of `Sound`. `BearerGuard` follows a request
through `bearerGuard.check` (`GuardAsks`, `Exempt`, `Recall`), the verifier
(`AskCache`, `Acquire` or `AcquireLate` or `GiveUp`, `AskCacheHolding`,
`AskCacheAtLast`, what GitLab says, `Stamp`, `ReadClock`, `Store`), what the guard
remembers of a refusal, and the second verification by the SDK's middleware, after
which `SDKChecks` looks at the expiration. A request charged by the guard goes
through the charging steps of `AuthBudgets`; one let through asks the gate.

Each reading of the clock is where the code makes it, and may be a tick apart
from the next: the guard, the cache, the stamp, the entry and the SDK read five.
The deployment pins its OAuth applications, so an introspection that does not
answer is no verdict (`GitLabIsSilent`); without pins the code keeps such an
identity for the whole TTL, whatever the token's life, which `ServedInTime` would
not hold of. Asking for the identity and introspecting are one step. The refusals
the pool and the gate record and read, and `TokenCache.Evict`, which nothing
calls, are left out.

## 3. Runs

Twelve runs; every action fires in one of the passing ones, and for each
property a mutated operation is named in `PROJECT.json` under which TLC finds it
violated.

| Run | Instance | Question |
|---|---|---|
| `manager_live` | 1 manager with a ceiling of 1, gate 1, 2 sessions, 2 URIs and one that cannot be watched, 2 calls, a clock that stands still, fairness | is anyone told success early, is a loop left behind, is Close final and does it return, is every caller answered |
| `manager_watch` | ceiling 1, gate 2, 1 session, 2 URIs, 2 calls, clock 0..1, rate limiting | eviction, pauses, renewals, the watch table and the count of the gate (`EvictionMakesRoom`, `PauseOutlivesSuccess`, `RevivedIsWoken`, `ImplementsTable`, `GateCountsWatchers`, `CeilingsHold`, `SlotsAreOwned`) |
| `manager_change` | 1 call, clock 0..2, 2 changes, failing and rate-limited reads, fairness | is every change seen by a watch that stays whose pauses end (`ChangesAreSeen`), are endings announced as the table says (`ImplementsTable`) |
| `manager_giveup` | 2 sessions, 3 calls | refuted: giving up leaves a sibling's interest alone |
| `pool_link` | 3 keys, 3 requests, size 2, clock 0..2, idle sweep, work, Close | do map, list and states agree, one ending each, does size pressure spare work |
| `pool_refusal` | 1 key, 2 requests, 1 probe slot, every kind of refusal, sweep, restored tokens, unreachable GitLab | are endings true, do probe slots balance |
| `pool_live` | 1 key, 2 requests, failing builds and registrations, revocation, shutdown, fairness | is a dead server's entry ever kept, does every request return, does the sweep take out a revoked token; only the sweep learns of a revocation here, and no build queues for its probe slot |
| `pool_fresh_evicted` | 1 key, 2 requests | refuted: the sweep drops only what was refused |
| `bridge_streams` | stateless, 2 sessions, 2 URIs, 2 listens, cancellation, eviction | is an open stream watched or about to be told (`OpenStreamsAreWatched`), is an ending told (`EndingsAreTold`) |
| `bridge_ends` | stateless and stateful, 1 session, 1 URI, 2 requests of any method, cancellation, eviction, shutdown, fairness | is what is over released, is whoever is evicted told or ended, does every listen end |
| `bridge_hold` | stdio, 2 listens | refuted: an open stream is watched, on the one session of stdio |
| `gate_posts` | 3 requests, of seven workloads in oauth mode and a dozen without; tables capped at 1, caches at 2, 2 verification slots, ceilings 2 for held calls and for listens of the process, the others 1, clock 0..3; 886,434 states up to symmetry | are blocks earned, promised and kept honestly, is every slot and verification held by somebody, is the identity cache sound, is nobody served past the life of a token |

Why the bounds are enough. A gate of one is the smallest contention for the shared
slot; two URIs under a cap of one make an eviction; clock 0..1 with a lease of one
makes a demotion and a renewal, 0..2 with a lifetime of two also an end of life;
longer clocks repeat these boundaries. A pool of two and three keys make size
pressure with a choice of victim. Two requests on one key make a shared build, a
refusal between fast path and slow path, and an entry rebuilt while a check of the
old one is in flight. Two listens of one session meet in every order of their
holds, and a listen that wants list changes too is one no resource ends. In
`gate_posts` a table of one place and two addresses make a full table; a limit of
two failures, a window of one tick and a ladder of two rungs reach every boundary
by instant three; a POST of two calls beside two others exceeds a ceiling of two
by two. A failing credential is brought by notifications, which no ceiling
counts. Three listens of one credential, its entry evicted and rebuilt in
between, fill the ceiling of an entry and that of the process. The budget of
distinct tokens has a limit of one here, so each token charged is a block and a
second charge of the burst meets it. Of the oauth workloads, a dying token beside two others fills a cache of
two with one entry expired before the rest; three requests with one token make two
verifications side by side, a third waiting, and two puts of one key; an address
blocked by a guess is that of a token already verified; two requests with one
refused token make a refusal fresh and remembered, and a third evicts it. A
request that is past when the behavior begins stands for what earlier traffic left
in the cache.

Requests, calls, keys and, where nothing tells them apart, URIs are symmetric in
the safety runs, and every set of workloads is closed under the permutation of the
requests; liveness runs use no symmetry. `CHECK_DEADLOCK FALSE` is set because an
instance really stops once its bounded requests are answered.

Fairness. A goroutine that can step does step, so calls, watch loops, builds,
evictions, confirmations and the requests of the bridge are weakly fair. A read or
probe has a timeout, so it is answered. Strong fairness is assumed twice in the
manager: a watch whose reads are answered again and again is answered successfully
again and again (`ChangesAreSeen` would be false of a GitLab that fails for ever),
and a `select` of a loop whose context is done is not won by the timer every time,
since the timer has just been reset. In the bridge the watch goroutines a Close
waits for do end, which is what `CloseFinishes` shows of the manager. Clients,
clocks, ends of contexts, changes of resources and standings, evictions and
shutdown have no fairness.

### Where comments and code disagree

Three claims are refuted by a run and are `findings` of `PROJECT.json`, each with
the quoted comment. `manager_giveup`: a session that joined a watch twice is told
it succeeded and is not subscribed. `pool_fresh_evicted`: an entry verified a
moment ago is dropped with the ending "credential refused". `bridge_hold`: a
listen is acknowledged on a watch a sibling of its session has just given up.

More were met and have no run of their own.

Managers and pool:
- A call may join a watch that has decided to stop and not yet been removed
  (`manager.go:812`, `manager.go:823` says there is no window); it is among those
  the ending is announced to.
- A notification may follow the last `Unsubscribe` (`manager.go:1065` runs outside
  the lock `updateDigest` held).
- `OnStop` names a watch by URI only, and may be called for one whose last
  subscriber left while its poll was in flight, when a newer watch of that URI
  exists (`manager.go:855`).
- An entry built while GitLab gave no verdict is admitted (`pool.go:865`), as
  `distinct_token_budget.go:78` says and `Admit` models, where the gate and the pool
  say of every pooled credential that GitLab accepted it (`auth_gate.go:784`,
  `pool.go:1230`).
- A request may join a finished build whose entry was refused meanwhile
  (`pool.go:783`), because singleflight forgets a build only when its function
  returned; a build may outlive `Close` (`pool.go:1868`); an accepted revalidation
  stamps the entry found under the key then (`pool.go:2287`).

Transport layer:
- A listen on list changes alone, armed after `closeOwner`, stays open until its
  client leaves (`subscriptions.go:848`); one on resources is refused by the
  closed manager.
- A stateful session whose first message finds no carrier, its client being gone,
  keeps no slot and lives on uncounted (`sessions.go:160`); `CallsAreCounted`
  excepts exactly these.
- `listenCounter` adds before it compares, so while a refused acquire is being
  retracted another may be refused for it (`subscriptions.go:1614`).

Budgets and oauth:
- The ladder is said to be forgiven to an address not "heard from at all"
  (`distinct_token_budget.go:124`); only the budget's own block hears a knock, so
  an address held by the failure limiter alone, or that sends no token, is silent.
- The bearer guard exempts a verified credential from a block so that it is not
  refused "before the address was spent" (`main.go:4075`); the gate behind it asks
  the same budgets and exempts pooled credentials only, so the exempted request is
  refused there when the pool does not hold its credential yet.
- The comment of the exemption says no upstream call is made for it
  (`bearer_guard.go:595`); the identity may expire or be evicted between the
  exemption and the verification, which then asks GitLab.
- `TokenCache.Put` reads the clock again, so an entry outlives the `Expiration` of
  the identity it holds, and a cached identity may be answered 401 by the SDK's own
  check; it is never served late (`ServedInTime`).
- `RejectedTokens.record` at its capacity evicts another live refusal even when the
  key it records is already held.

## 4. Proofs

Every theorem holds for every value of the constants that the named assumptions
of its module admit, so for any number of managers, credentials, sessions, URIs,
requests and calls and any ceilings. Before a proof was written its inductive
invariant was an invariant of a run on the module's instance.

| Module | Theorem | States |
|---|---|---|
| `SubscriptionManagerProofs` | `GateIsExact` | `Spec => []GateCountsWatchers` |
| | `SlotsStayOwned` | `Spec => []SlotsAreOwned` |
| | `CeilingsAreKept` | `Spec => []CeilingsHold` |
| | `TypeCorrect` | `Spec => []TypeOK` |
| | `CloseIsFinal` | `Spec => []ClosedIsQuiet` |
| `WatcherProofs` | `NothingRunsUnseen` | `Spec => []NoOrphan` |
| | `SuccessIsEarned` | `Spec => []SuccessMeansRead` |
| | `RenewalIsNoticed` | `Spec => []RevivedIsWoken` |
| | `RoomIsMadeAtOnce` | `Spec => EvictionMakesRoom` |
| | `PausesHold` | `Spec => PauseOutlivesSuccess` |
| `WatchTableProofs` | `ManagersImplementTable` | `Spec => ImplementsTable` |
| `ServerPoolProofs` | `PoolIsTyped` | `Spec => []TypeOK` |
| | `MapAndListAgree` | `Spec => []PoolIsLinked` |
| | `FailedServersAreNotPooled` | `Spec => []PoisonedNeverCached` |
| | `ToldWhatIsSo` | `Spec => []EndingsAreTrue` |
| | `SlotsComeBack` | `Spec => []ProbesAreHeld` |
| | `RoomIsMadeAmongTheIdle` | `Spec => PressureSparesWork` |
| `RequestGateProofs` | `NoSlotIsLost` | `Spec => []SlotsAreHeld` |
| | `CeilingsHold` | `Spec => []CallsAreCounted` |
| `BearerGuardProofs` | `SlotsAreHeldBehindGuard` | `GuardedSpec => []SlotsAreHeld` |
| | `CallsAreCountedBehindGuard` | `GuardedSpec => []CallsAreCounted` |
| | `VerificationsKeepTheirSlots` | `GuardedSpec => []VerificationsAreCounted` |
| | `GuessesAlonePay` | `GuardedSpec => []OnlyGuessesAreCharged` |
| | `NobodyIsServedLate` | `GuardedSpec => ServedInTime` |
| | `TheCacheIsSound` | `GuardedSpec => []CacheIsSound` |
| | `TheLiveAreSpared` | `GuardedSpec => LiveAreSpared` |
| `AuthBudgetsProofs` | `NobodyIsBlockedForNothing` | `GuardedSpec => []BlocksAreEarned` |
| | `RetryAfterIsKept` | `GuardedSpec => []AnsweredHonestly` |
| | `LaddersAreRemembered` | `GuardedSpec => LadderRemembers` |
| | `TypesBehindGuard` | `GuardedSpec => []GuardTypeOK` |
| `SessionBridgeProofs` | `BridgeIsTyped` | `Spec => []TypeOK` |
| | `EndedListensSayWhy` | `Spec => []EndingsAreTold` |
| | `OverSessionsAreReleased` | `Spec => []OverMeansReleased` |
| | `EvictedSessionsAreEnded` | `Spec => []EvictedSubscribersAreEnded` |
| | `HttpStreamsAreWatched` | `Spec => [](transport # "stdio" => OpenStreamsAreWatched)` |
| | `BridgeUsesTable` | `Spec => Table!Spec` |

### 4.1 The managers

Assumptions: `ManagerAssumption`, `FiniteAssumption`, `OptionsAssumption`: the
sets are finite, a session belongs to one manager, caps and intervals are
positive, a lifetime is at least a lease, the longest pause at least the first.
`New` and the option defaults of the code ensure them.

The gate. `GateCountsWatchers` is not inductive: a removal of several watchers
(`UnsubscribeAll`, `Close`) gives back as many slots as the registry held entries
for only if a watcher is registered once, and an insertion spends one slot for
one new entry only if the URI is still free. `GateInv` adds exactly that: the
types of the gate's variables, that started calls know their arguments,
`SlotsAreOwned` (the URI of a reserving call is kept free by the lock it holds,
what is registered under a URI is a watcher of that URI and manager), and the two
ceilings. The lemma `DropCounts` does the counting once, for any set of watchers
of one manager; one lemma per actor (`ClientKeepsGateInv`, `ManagerKeepsGateInv`,
`CallKeepsGateInv`, `LoopKeepsGateInv`) takes the actions one by one. `LoopInv`
says that only a call that succeeded has a watch loop, so that what a loop drops
was never a reservation. `TypeCorrect` adds `DataTypes`, the types of everything
else. `CloseIsFinal` needs `WaitInv`: every watcher that loops is among those the
manager's wait group waits for, and a manager whose Close has returned waits for
none; `Launch` keeps it because it adds to the group in the critical section that
found the manager open.

The watchers. That an unregistered loop has been told to end depends on the whole
life of its watcher, so `WatcherInv` says of each watcher, in `WatcherOK`, what
its call, its registration, its ready channel, its context and its loop must be
to one another, and in `SuccessOK` what a call that succeeded was about. The
lemma `DropUnregisters` tells who a drop unregisters; the two actors between
which a hazard lies (a join and the first read, a renewal and the sleep, the
cancel a drop owes and the loop) appear as `toCancel` and `toWake` in
`WatcherOK`. `EvictionMakesRoom` and `PauseOutlivesSuccess` follow from one step
of these invariants.

The refinement. `TableInit` maps initial states to initial states; `StepIsSeen`
says that each step is an action of `WatchTable` or changes nothing the table
sees. One lemma per action names the abstract action: `Held`, `Due` and `Leaving`
are what the managers' state means to the table, and steps that touch none of
them are collected as calm (`CalmStutters`).

### 4.2 The pool

Assumptions: `PoolAssumption`, `PoolOptionsAssumption` and
`PoolFiniteAssumption` (finitely many requests and keys).

`PoolInv` is the conjunction of the properties with three that tie them together.
`CallInv`: what a request in progress was handed or waits on is an entry that was
inserted, once, by the request that built it. `ByUse`: the LRU order agrees with
the times of last use, so that the back of the list is what was unused longest.
`CheckInv`: what a confirmation or the sweep has learned of a credential and has
not used yet is still so. `ToldWhatIsSo` speaks of what a refused call or a missing
scope drops; the sweep drops by key, and of what it drops as refused the like is
false (`pool_fresh_evicted`). Steps are sorted by what they do to the list
(`KindsOfStep`): leave it alone, drop entries, touch one, insert one, or sweep
the idle; the list lemmas (`WithoutStaysOrdered`, `StackedIsOrdered`) are stated
of any order. That a full list has a last entry at all (`BackExists`) is by
well-foundedness of strict inclusion of finite sets.

### 4.3 The gate

Assumptions: `BudgetsAssumption`, `BudgetsFiniteAssumption` (finitely many
requests), `GateAssumption`: limits are positive, as their constructors ensure.

`SlotInv` adds to `SlotsAreHeld` who may hold: `PostOK` (a POST takes the slots of
its kind; its slots are the gate's, the session's or given back, in step with its
session and its stage; a count it is about to swap was seen below the limit),
`MessageOK` (a call that runs has a slot of its own or the claimed one of its
POST), `OneClaims` (one call alone claims it) and `Ceilings`. `OneChange` counts:
two sets that differ in one member at most. A compare and swap keeps a ceiling
because the value seen was below it and is the value swapped. A listen is counted
for the entry its request was resolved to, which no step changes once the request
is admitted (`AtTheDoor`, `PlacesKept`), whatever the pool does to the entry.
`CallsAreCounted` is then an injection of what runs into the holders (`HoldersCover`).

### 4.4 The guard

Assumptions: those of the gate and `GuardAssumption`. Of a deployment that is not
in oauth mode it says that a token of another application is not presented to it,
as what that would mean there is not modelled; and of one that is, that the
tokens verified before a behavior begins were accepted and do not expire.

`SlotInv` is proved again of `GuardedSpec`: in front of the gate nothing it speaks
of moves (`GuardFrame`), behind it the steps are those of the gate. `GuardInv` is
what the guard needs: each request is where it is for a reason (`RequestOK`: in
front, at an untouched door; refused as invalid, a token that is bad; stamped, an
identity vouched for; past the guard, a token GitLab accepted), what is remembered
as charged is of a bad token and stays so (`BadStaysBad`), and everything cached
is the vouched identity of an accepted token. Every step in front of the gate is
brought to one form, `Settled`: where it takes the request, its door, its identity
and the count of the slots. `PutAddsOne`, `GotIsWithin` and `SweptIsWithin` say
what `TokenCache` may make of its entries, whatever it does to their order.

`CacheInv` is what the cache needs. `Sane` is `Sound` with the deadlines as
numbers: without the types, that the earliest deadline left bounds the others
cannot be said. `ReadOK` dates what is about to be stored: a request that puts has
read the clock, not later than now, and has an identity that outlives its stamp
(`Alive`), so the entry it makes has a deadline after the reading. Each method of
the cache is then a lemma (`WithoutIsSane`, `GotIsSane`, `SweptIsSane`, `RoomIsMade`,
`PutIsSane`) and a step is one of them or leaves the cache alone (`StepsOnCache`).
That the list of a full cache has a last member (`ListHasBack`) and the entries a
sweep leaves an earliest deadline (`EarliestExists`) is by well-foundedness,
whatever their number. `RoomIsMade` says besides who may be dropped: a live
identity only as the last of a full cache nothing of which had expired
(`Sacrificed`), which `LiveAreSpared` is a consequence of.

### 4.5 The budgets

Assumptions: those of the guard; of the budgets, `BudgetsAssumption` says that
limits, windows and steps are positive and that the ladder is a sequence with at
least one rung.

`BudgetInv` dates every record by the history. `CountOK`: what the limiter has
counted of an address is at most the number of its requests that failed since the
record began; a request fails once (`FailedOnce`, since no step reopens its door:
`DoorsStayShut`), so one charge adds one to both sides. `LockOK` carries the count
over to the refusal it caused. `PromiseOK`: a promise not yet due is the end of one
of the two blocks, and neither ends after it. `HeardOK`: the record of an address
was last seen when the budget last heard of it.

Every step of the guard, of the gate, of the clock and of the cleanups is one of
five to the budgets (`StepsOnBudgets`): a request asks, a failure is charged, a
credential is charged, a table is swept, or the records rest. `KeepsFailure`,
`KeepsBlock` and `KeepsLadder` say what may become of the record of an address that
is not being charged: a record within its window, a block that is on and a rung
not silent long enough survive asking, sweeping, a full table and the charges of
others. Of the address that is charged, a block that is on stays as it is and only a
record without one climbs, by one rung, so that a burst charged together costs one
block. A charge voids what was promised to its address, which is the property's own
exception; so promises are kept because records are.

The types of all the variables of guard, gate and budgets (`GuardTypeOK`) are spread
over `SlotInv`, `GuardInv`, `CacheInv` and `BudgetInv`; `FrontTypes` adds what none
of them needs, above all the refusals remembered: at most `RejectedMax`, since
`evictLocked` leaves room for one more (`EvictionsMakeRoom`), and none of a
token GitLab accepts for good, since a request that comes to be refused carries a
token (`CarriesToken`).

### 4.6 The bridge

Assumption: `BridgeAssumption`, the shapes of the constants and that a listen
wants something.

`BridgeInv` has a part for each way the pieces can come apart. `RequestOK` and
`SessionOK`: whoever subscribes or holds was awaited before it did, belongs to the
credential whose manager it is in, and leaves only once its session is over; as
being over is final and a request of an over session does not begin, what
`LeaveSession` takes away stays away. `StreamOK`: a stream is taken, its ending stored
and its context ended in this order, and one that unwinds acknowledged does so
because its context has ended. `EvictionOK`: a stateful session with a call in
progress or a hold is attributed to its credential or among those handed over when
the credential was evicted (`Attributed`). `WatchOK` is for stateless requests, each
a session of its own (`AloneInSession`): a listen that has subscribed keeps its
watch, or the end of that watch is due or its manager closing; a step of another
session spares it (`Spares`), and a watch that stops is announced to every filed
stream before it is over (`Nudged`). On stdio the last part is false, since two
listens share the one session: `bridge_hold` refutes it.

`BridgeUsesTable` closes the chain of section 2: whatever sessions, streams and
evictions do at once, each step of the bridge is a step of the table or leaves it
alone (`TableIsRespected`; a request that joins or leaves is that of a known
session, by `RequestOK`). The table the bridge uses is thus the one
`ManagersImplementTable` shows the managers to implement.

### 4.7 Only model-checked

- Every liveness property (`CallersAreAnswered`, `CallsReturn`, `ChangesAreSeen`,
  `CloseFinishes`, `ListensEnd`, `RevokedIsDropped`): fairness and ENABLED are out of
  the prover's reach.
- Nothing else: every safety property of a passing run is a theorem.
  `OpenStreamsAreWatched` is one for the HTTP transports only, as it is false on
  stdio.

No module uses a RECURSIVE operator.

## 5. Plan

Modelled and checked: the two chains of section 2 and the pool; proved: the safety
properties of all of them, and both ends of `WatchTable`. Left to TLC for good: the
liveness properties.

To model, when a run can be spared: the delivery of updates to streams; the
readiness gate, the certificate reloader and the tool rate limiter.

## 6. Not modelled, and why

Tool, resource and prompt handlers, completions and formatting are stateless.
Fine-grained tokens and the tenant policy are declared tables. Telemetry observes
and feeds nothing back. Configuration is read once. Audit, generator, benchmark
and release commands do not run in the server; together with the handlers they are
nearly all of the repository's lines. The GitLab client appears as the
environment. Readiness, TLS reload, the discovery rate, the tool rate limiter, the
once map, progress and elicitation are small machines behind one lock each, left
for later. Of the modelled components, what is left out is named in section 2.
