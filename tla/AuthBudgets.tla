----------------------------- MODULE AuthBudgets -----------------------------
(***************************************************************************)
(* The authentication budgets a request meets before its credential is     *)
(* read, internal/serverpool and the gate of cmd/server that consults and   *)
(* charges them: the failure limiter, which blocks an address for the rest  *)
(* of a window, and the distinct-credential budget, whose blocks lengthen.  *)
(* Between the question and the charge the credential is verified, and      *)
(* any number of requests of the address may be in between.                 *)
(*                                                                          *)
(* The deployment is one with IPv4 clients and no trusted proxy header: the *)
(* transport-source budget is nil and the /48 aggregate is not asked.       *)
(***************************************************************************)
EXTENDS Integers, FiniteSets, Functions, FiniteSetsExt, Sequences, TLC

CONSTANTS
    Requests, Addresses, Tokens,
    NoToken,          \* a request that carries no credential
    Accepted,         \* the credentials GitLab accepts
    Workloads,        \* what the requests may be: functions on Requests
    MaxFails,         \* NewAuthRateLimiter(maxFails, window)
    Window,
    DistinctLimit,    \* NewDistinctTokenBudget(limit, window, step)
    DistinctWindow,
    Step,
    Ladder,           \* escalationLadder
    MaxTracked,       \* maxTrackedAuthSources
    SweepAfter,       \* an eighth of a window: a full table is swept no more often
    MaxClock          \* bound: the instants a behavior is followed through

ASSUME BudgetsAssumption ==
    /\ NoToken \notin Tokens /\ Accepted \subseteq Tokens
    /\ \A w \in Workloads : w \in [Requests -> [address : Addresses, token : Tokens \cup {NoToken},
                                                kind : {"past", "get", "call", "batch", "open", "listen"},
                                                calls : 0..2]]
    /\ {MaxFails, Window, DistinctLimit, DistinctWindow, Step, MaxTracked, SweepAfter} \subseteq Nat \ {0}
    /\ Ladder \in Seq(Nat \ {0}) /\ Ladder # <<>>
    /\ MaxClock \in Nat

ASSUME BudgetsFiniteAssumption == IsFiniteSet(Requests)

VARIABLES
    asked,        \* what each request is, and how many calls it carries
    clock,
    failures,     \* AuthRateLimiter.failures: a function of the addresses tracked
    failuresSwept,
    distinct,     \* DistinctTokenBudget.addresses
    distinctSwept,
    pooled,       \* the pool's entries: of each credential served, the request that had its entry built
    entry,        \* the entry a request is served by, named by the request that had it built
    door,         \* how far each request is at the gate
    (* history, read by the properties alone *)
    promise,      \* when a refused request was told to come back
    failedAt,     \* when the failure of a request was recorded
    lockedAt,     \* when a request was refused because of the failure limiter
    heard         \* when the distinct-credential budget last heard from an address

records    == <<failures, failuresSwept, distinct, distinctSwept>>
pool       == <<pooled, entry>>
history    == <<promise, failedAt, lockedAt, heard>>
budgetVars == <<asked, clock, records, pool, door, history>>

(* A key of a table is given a value. *)
Assign(table, k, v) == [j \in DOMAIN table \cup {k} |-> IF j = k THEN v ELSE table[j]]

Never == -100
Address(r) == asked[r].address
Token(r) == asked[r].token

-----------------------------------------------------------------------------
(* AuthRateLimiter *)

Lapsed(a) == clock - failures[a].firstAt > Window

LockoutLeft(a) ==
    IF a \in DOMAIN failures /\ ~Lapsed(a) /\ failures[a].count >= MaxFails
    THEN failures[a].firstAt + Window - clock ELSE Never

(* BlockedFor lets go of a lapsed record. *)
FailuresAsked(a) ==
    Restrict(failures, {k \in DOMAIN failures : k # a \/ ~Lapsed(k)})

SweptFailures == Restrict(failures, {k \in DOMAIN failures : ~Lapsed(k)})

(* roomForNewKeyLocked: a full table is swept, but not at every refused insert. *)
FailuresFull == Cardinality(DOMAIN failures) >= MaxTracked
SweepsFailures(a) ==
    a \notin DOMAIN failures /\ FailuresFull /\ clock - failuresSwept >= SweepAfter
FailuresWithRoom(a) == IF SweepsFailures(a) THEN SweptFailures ELSE failures

(* Mutated form of Counts: a full table takes one more address. *)
CountsAlways(a) == TRUE

(* RecordFailure reports whether it counted: a new address needs room. *)
Counts(a) ==
    a \in DOMAIN failures \/ Cardinality(DOMAIN FailuresWithRoom(a)) < MaxTracked

(* RecordFailure: within the window one more, otherwise a record that replaces
   the lapsed one or takes a place in the table.                            *)
FreshFailure == [count |-> 1, firstAt |-> clock]
(* Mutated form of Recorded: a lapsed record keeps its count. *)
RecordedOnTop(a) ==
    IF a \in DOMAIN failures THEN
        [failures EXCEPT ![a] = [count |-> @.count + 1,
                                 firstAt |-> IF Lapsed(a) THEN clock ELSE @.firstAt]]
    ELSE Assign(FailuresWithRoom(a), a, FreshFailure)

Recorded(a) ==
    IF a \in DOMAIN failures /\ ~Lapsed(a)
    THEN [failures EXCEPT ![a].count = @ + 1]
    ELSE Assign(FailuresWithRoom(a), a, FreshFailure)

-----------------------------------------------------------------------------
(* DistinctTokenBudget *)

ResetAfter == Ladder[Len(Ladder)] * Step
Silent(k) == clock - distinct[k].seenAt >= ResetAfter
BlockOn(k) == clock < distinct[k].until

DistinctLeft(a) ==
    IF a \in DOMAIN distinct /\ BlockOn(a) THEN distinct[a].until - clock ELSE Never

(* Mutated form of DistinctAsked: knocking at a block leaves no trace. *)
DistinctAskedUnheard(a) == distinct

(* Blocked: an address that knocks at its block is heard; a block that is over
   is put away.                                                             *)
DistinctAsked(a) ==
    IF a \notin DOMAIN distinct THEN distinct
    ELSE IF BlockOn(a) THEN [distinct EXCEPT ![a].seenAt = clock]
    ELSE [distinct EXCEPT ![a].until = Never]

SweptDistinct ==
    Restrict(distinct, {k \in DOMAIN distinct : BlockOn(k) \/ ~Silent(k)})

DistinctFull == Cardinality(DOMAIN distinct) >= MaxTracked
SweepsDistinct(a) ==
    a \notin DOMAIN distinct /\ DistinctFull /\ clock - distinctSwept >= SweepAfter
DistinctWithRoom(a) == IF SweepsDistinct(a) THEN SweptDistinct ELSE distinct

(* countedRecordLocked: the record a charge is counted in. *)
FreshDistinct == [digests |-> {}, windowAt |-> clock, step |-> 0, until |-> Never, seenAt |-> clock]
Counted(a) ==
    IF a \notin DOMAIN distinct \/ Silent(a) THEN FreshDistinct
    ELSE IF clock - distinct[a].windowAt > DistinctWindow
    THEN [distinct[a] EXCEPT !.digests = {}, !.windowAt = clock]
    ELSE distinct[a]

(* The distinct credentials of a record reached the limit: the next block. *)
Raised(rec) ==
    LET step == IF rec.step < Len(Ladder) THEN rec.step + 1 ELSE rec.step IN
    [rec EXCEPT !.digests = {}, !.windowAt = clock, !.step = step,
                !.until = clock + Ladder[step] * Step]

(* Charge: ignored while the address is blocked, but heard. *)
Charged(a, t) ==
    IF a \in DOMAIN distinct /\ BlockOn(a) THEN [distinct EXCEPT ![a].seenAt = clock]
    ELSE IF a \notin DOMAIN distinct /\ Cardinality(DOMAIN DistinctWithRoom(a)) >= MaxTracked
    THEN DistinctWithRoom(a)
    ELSE LET rec == [Counted(a) EXCEPT !.seenAt = clock, !.digests = @ \cup {t}] IN
         Assign(DistinctWithRoom(a), a, IF Cardinality(rec.digests) < DistinctLimit THEN rec ELSE Raised(rec))

-----------------------------------------------------------------------------
(* The gate *)

BudgetsInit ==
    /\ asked \in Workloads
    /\ clock = 0
    /\ failures = <<>> /\ failuresSwept = Never
    /\ distinct = <<>> /\ distinctSwept = Never
    /\ pooled = <<>> /\ entry = [r \in Requests |-> r]
    /\ door = [r \in Requests |-> "arriving"]
    /\ promise = [r \in Requests |-> Never]
    /\ failedAt = [r \in Requests |-> Never]
    /\ lockedAt = [r \in Requests |-> Never]
    /\ heard = [a \in Addresses |-> Never]

At(r, from, to) == door[r] = from /\ door' = [door EXCEPT ![r] = to]

(* Mutated form of LongestBlock: answers with the first block found. *)
FirstBlock(a) == IF LockoutLeft(a) # Never THEN LockoutLeft(a) ELSE DistinctLeft(a)

(* longestAuthBlock: what a request held by several budgets is told. *)
LongestBlock(a) == Max({LockoutLeft(a), DistinctLeft(a)})

Blocked(a) == LockoutLeft(a) # Never \/ DistinctLeft(a) # Never

(* blockedByBudget, with credentialAlreadyAdmitted: a request whose credential
   the pool serves is let past.  A GET to a stateless server is not asked.   *)
AskBudgets(r) ==
    LET a == Address(r)
        refused == Blocked(a) /\ Token(r) \notin DOMAIN pooled
    IN
    /\ asked[r].kind \notin {"past", "get"}
    /\ At(r, "arriving", IF refused THEN "refused" ELSE "passed")
    /\ failures' = FailuresAsked(a)
    /\ distinct' = DistinctAsked(a)
    /\ promise' = [promise EXCEPT ![r] = IF refused THEN clock + LongestBlock(a) ELSE @]
    /\ lockedAt' = [lockedAt EXCEPT ![r] = IF refused /\ LockoutLeft(a) # Never THEN clock ELSE @]
    /\ heard' = [heard EXCEPT ![a] = IF DistinctLeft(a) # Never THEN clock ELSE @]
    /\ UNCHANGED <<asked, clock, failuresSwept, distinctSwept, pool, failedAt>>

(* The pool's answer about a credential.  It serves the entry it holds, or has
   one built, of any token, once GitLab accepts it or the probe has no answer; *)
Admit(r) ==
    LET t == Token(r) IN
    /\ t # NoToken
    /\ At(r, "passed", "admitted")
    /\ pooled' = IF t \in DOMAIN pooled THEN pooled ELSE Assign(pooled, t, r)
    /\ entry' = [entry EXCEPT ![r] = pooled'[t]]
    /\ UNCHANGED <<asked, clock, records, history>>

(* GitLab refuses the credential, or there is none to ask about; *)
Reject(r) ==
    /\ At(r, "passed", "failing")
    /\ Token(r) \notin Accepted \cup DOMAIN pooled
    /\ UNCHANGED <<asked, clock, records, pool, history>>

(* or its entry cannot be built, which is no verdict and costs the address nothing. *)
TurnAway(r) ==
    /\ Token(r) \notin DOMAIN pooled \cup {NoToken}
    /\ At(r, "passed", "refused")
    /\ UNCHANGED <<asked, clock, records, pool, history>>

(* chargeFailure, one budget after the other, each under its own lock.  What an
   address was promised no longer stands once it fails again.               *)
Voided(a) == [q \in Requests |-> IF Address(q) = a THEN Never ELSE promise[q]]

ChargeFailure(r) ==
    LET a == Address(r) IN
    /\ At(r, "failing", "charging")
    /\ failures' = IF Counts(a) THEN Recorded(a) ELSE FailuresWithRoom(a)
    /\ failuresSwept' = IF SweepsFailures(a) THEN clock ELSE failuresSwept
    /\ failedAt' = [failedAt EXCEPT ![r] = IF Counts(a) THEN clock ELSE @]
    /\ promise' = Voided(a)
    /\ UNCHANGED <<asked, clock, distinct, distinctSwept, pool, lockedAt, heard>>

ChargeDistinct(r) ==
    LET a == Address(r) IN
    /\ At(r, "charging", "refused")
    /\ IF Token(r) = NoToken
       THEN UNCHANGED <<distinct, distinctSwept, heard>>
       ELSE /\ distinct' = Charged(a, Token(r))
            /\ distinctSwept' = IF SweepsDistinct(a) THEN clock ELSE distinctSwept
            /\ heard' = [heard EXCEPT ![a] = clock]
    /\ promise' = Voided(a)
    /\ UNCHANGED <<asked, clock, failures, failuresSwept, pool, failedAt, lockedAt>>

(* The periodic cleanups of the two tables. *)
CleanupFailures ==
    /\ SweptFailures # failures
    /\ failures' = SweptFailures /\ failuresSwept' = clock
    /\ UNCHANGED <<asked, clock, distinct, distinctSwept, pool, door, history>>

CleanupDistinct ==
    /\ SweptDistinct # distinct
    /\ distinct' = SweptDistinct /\ distinctSwept' = clock
    /\ UNCHANGED <<asked, clock, failures, failuresSwept, pool, door, history>>

(* The pool lets an entry go. *)
Forget(t) ==
    /\ t \in DOMAIN pooled
    /\ pooled' = Restrict(pooled, DOMAIN pooled \ {t})
    /\ UNCHANGED <<asked, clock, records, entry, door, history>>

(* Time passes; it matters to the records alone. *)
Tick ==
    /\ clock < MaxClock
    /\ DOMAIN failures # {} \/ DOMAIN distinct # {}
    /\ clock' = clock + 1
    /\ UNCHANGED <<asked, records, pool, door, history>>

BudgetsNext ==
    \/ \E r \in Requests :
        \/ AskBudgets(r) \/ Admit(r) \/ Reject(r) \/ TurnAway(r)
        \/ ChargeFailure(r) \/ ChargeDistinct(r)
    \/ CleanupFailures \/ CleanupDistinct \/ Tick
    \/ \E t \in Tokens : Forget(t)

BudgetsSpec == BudgetsInit /\ [][BudgetsNext]_budgetVars

-----------------------------------------------------------------------------
(* Properties *)

BudgetsTypeOK ==
    /\ clock \in 0..MaxClock
    /\ DOMAIN failures \subseteq Addresses /\ DOMAIN distinct \subseteq Addresses
    /\ Cardinality(DOMAIN failures) <= MaxTracked
    /\ Cardinality(DOMAIN distinct) <= MaxTracked
    /\ \A a \in DOMAIN failures : failures[a] \in [count : Nat \ {0}, firstAt : 0..clock]
    /\ \A a \in DOMAIN distinct :
        /\ Cardinality(distinct[a].digests) < DistinctLimit
        /\ distinct[a].step \in 0..Len(Ladder)
        /\ distinct[a].windowAt \in 0..clock /\ distinct[a].seenAt \in 0..clock
    /\ DOMAIN pooled \subseteq Tokens /\ entry \in [Requests -> Requests]
    /\ \A t \in DOMAIN pooled : pooled[t] \in Requests /\ Token(pooled[t]) = t
    /\ door \in [Requests -> {"arriving", "passed", "failing", "charging", "admitted", "refused"}]

(* A request is refused for the failures of its address only when the limiter
   had recorded as many as it takes, of requests that failed within the window:
   never for failures of two windows added together, nor for those of a record
   that should have lapsed (RecordFailure and BlockedFor, with the sweeps and
   the cleanup that share their table).                                      *)
BlocksAreEarned ==
    \A r \in Requests : lockedAt[r] # Never =>
        Cardinality({q \in Requests :
            /\ Address(q) = Address(r) /\ failedAt[q] # Never
            /\ failedAt[q] \in (lockedAt[r] - Window) .. lockedAt[r]}) >= MaxFails

(* Retry-After is a promise: as long as its address fails no more, a request
   refused with 429 stays blocked until the instant it was told and is blocked
   no more after it, whichever budget held it, whatever the sweeps, the cleanup
   and the full tables did meanwhile (blockedByBudget, longestAuthBlock).    *)
AnsweredHonestly ==
    \A r \in Requests : promise[r] # Never =>
        /\ clock < promise[r] => Blocked(Address(r))
        /\ clock > promise[r] => ~Blocked(Address(r))

(* An address climbs its ladder one rung at a time and only while no block of
   its is on, so that a burst charged together costs one block, whose end does
   not move; and the ladder is forgiven, or its record let go, only once the
   budget has heard nothing of the address for the longest block there is:
   knocking at a block is not silence, and a full table takes no place from an
   address it tracks (DistinctTokenBudget).                                   *)
LadderRemembers ==
    [][\A a \in DOMAIN distinct :
        /\ (a \notin DOMAIN distinct' \/ distinct'[a].step < distinct[a].step)
              => clock - heard[a] >= ResetAfter
        /\ a \in DOMAIN distinct' =>
              /\ distinct'[a].step <= distinct[a].step + 1
              /\ BlockOn(a) => /\ distinct'[a].step <= distinct[a].step
                               /\ distinct'[a].until = distinct[a].until]_budgetVars
==============================================================================
