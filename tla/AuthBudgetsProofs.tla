--------------------------- MODULE AuthBudgetsProofs ---------------------------
(****************************************************************************)
(* The authentication budgets, asked and charged by the gate and by the     *)
(* guard in front of it, for every number of requests, addresses and        *)
(* credentials and every setting of the budgets: a block is earned, an      *)
(* answer to a blocked request is kept, and the ladder of an address is     *)
(* forgotten after silence alone.  With them, the types of all the guard,   *)
(* the gate and the budgets keep.                                           *)
(****************************************************************************)
EXTENDS BearerGuardProofs

(* A table of at most MaxTracked addresses. *)
Tracked(D) == D \subseteq Addresses /\ IsFiniteSet(D) /\ Cardinality(D) <= MaxTracked

FailureRecords(f, now) ==
    /\ Tracked(DOMAIN f)
    /\ \A a \in DOMAIN f : f[a] \in [count : Nat \ {0}, firstAt : 0..now]

DistinctRecord(rec, now) ==
    /\ rec \in [digests : SUBSET (Tokens \cup {NoToken}), windowAt : 0..now, step : 0..Len(Ladder),
                until : Int, seenAt : 0..now]
    /\ IsFiniteSet(rec.digests)

DistinctRecords(d, now) ==
    /\ Tracked(DOMAIN d)
    /\ \A a \in DOMAIN d : DistinctRecord(d[a], now) /\ Cardinality(d[a].digests) < DistinctLimit

Instants == (0..clock) \cup {Never}

BudgetTypes ==
    /\ asked \in Workloads /\ clock \in 0..MaxClock
    /\ FailureRecords(failures, clock) /\ DistinctRecords(distinct, clock)
    /\ promise \in [Requests -> Nat \cup {Never}]
    /\ failedAt \in [Requests -> Instants] /\ lockedAt \in [Requests -> Instants]
    /\ heard \in [Addresses -> Instants]

(* The requests of an address whose failures were recorded in an interval. *)
FailedIn(a, from, to) ==
    {q \in Requests : Address(q) = a /\ failedAt[q] # Never /\ failedAt[q] \in from .. to}

(* Every failure counted is that of a request that failed since the record
   began; and the failure of a request is recorded once, on its way out.     *)
CountOK(a) ==
    a \in DOMAIN failures =>
        failures[a].count <= Cardinality(FailedIn(a, failures[a].firstAt, clock))

FailedOnce(r) == failedAt[r] # Never => door[r] \in {"charging", "refused"}

LockOK(r) ==
    lockedAt[r] # Never =>
        Cardinality(FailedIn(Address(r), lockedAt[r] - Window, lockedAt[r])) >= MaxFails

(* A promise not yet due is the end of a block, and no block of the address ends
   after it.                                                                 *)
Locks(a) == a \in DOMAIN failures /\ failures[a].count >= MaxFails
LockEnds(a) == failures[a].firstAt + Window

PromiseKept(a, due) ==
    due # Never =>
        /\ clock < due => \/ Locks(a) /\ LockEnds(a) = due
                          \/ a \in DOMAIN distinct /\ distinct[a].until = due
        /\ Locks(a) => LockEnds(a) <= due
        /\ a \in DOMAIN distinct => distinct[a].until <= due

PromiseOK(r) == PromiseKept(Address(r), promise[r])

(* The budget has heard of an address it tracks when its record says it was seen. *)
HeardOK(a) == a \in DOMAIN distinct => heard[a] = distinct[a].seenAt

BudgetInv ==
    /\ BudgetTypes
    /\ \A a \in Addresses : CountOK(a) /\ HeardOK(a)
    /\ \A r \in Requests : FailedOnce(r) /\ LockOK(r) /\ PromiseOK(r)

-----------------------------------------------------------------------------
(* The settings, and the sizes of the tables *)

LEMMA Settings ==
    /\ MaxFails \in Nat /\ MaxFails >= 1 /\ Window \in Nat /\ Window >= 1
    /\ DistinctLimit \in Nat /\ DistinctLimit >= 1 /\ DistinctWindow \in Nat
    /\ Step \in Nat /\ MaxTracked \in Nat /\ MaxTracked >= 1 /\ SweepAfter \in Nat
    /\ MaxClock \in Nat /\ Never = -100 /\ NoToken \notin Tokens
BY BudgetsAssumption DEF Never

LEMMA LadderIsFinite ==
    /\ Len(Ladder) \in Nat /\ Len(Ladder) >= 1
    /\ \A i \in 1..Len(Ladder) : Ladder[i] \in Nat
BY BudgetsAssumption

LEMMA RequestIsOfAddress ==
    ASSUME asked \in Workloads, NEW r \in Requests
    PROVE  Address(r) \in Addresses /\ Token(r) \in Tokens \cup {NoToken}
<1>1. asked \in [Requests -> [address : Addresses, token : Tokens \cup {NoToken},
                             kind : {"past", "get", "call", "batch", "open", "listen"}, calls : 0..2]]
  BY BudgetsAssumption
<1>2. QED
  BY <1>1 DEF Address, Token

LEMMA FewerTracked ==
    ASSUME NEW D, NEW E, Tracked(D), E \subseteq D
    PROVE  Tracked(E)
<1>1. IsFiniteSet(E) /\ Cardinality(E) <= Cardinality(D) /\ Cardinality(D) \in Nat /\ Cardinality(E) \in Nat
  BY FS_Subset, FS_CardinalityType DEF Tracked
<1>2. QED
  BY <1>1, Settings DEF Tracked

LEMMA OneMoreTracked ==
    ASSUME NEW D, Tracked(D), NEW a \in Addresses, a \in D \/ Cardinality(D) < MaxTracked
    PROVE  Tracked(D \cup {a})
<1>1. CASE a \in D
  <2>1. D \cup {a} = D
    BY <1>1
  <2>2. QED
    BY <2>1
<1>2. CASE a \notin D
  <2>1. IsFiniteSet(D) /\ Cardinality(D) \in Nat /\ Cardinality(D) < MaxTracked
    BY <1>2, FS_CardinalityType DEF Tracked
  <2>2. IsFiniteSet(D \cup {a}) /\ Cardinality(D \cup {a}) = Cardinality(D) + 1
    BY <1>2, <2>1, FS_AddElement
  <2>3. QED
    BY <2>1, <2>2, Settings DEF Tracked
<1>3. QED
  BY <1>1, <1>2

LEMMA TheEmptyTable == Tracked({})
<1>1. IsFiniteSet({}) /\ Cardinality({}) = 0
  BY FS_EmptySet
<1>2. QED
  BY <1>1, Settings DEF Tracked

(* A table some of whose records are gone. *)
Kept(g, f) == DOMAIN g \subseteq DOMAIN f /\ \A a \in DOMAIN g : g[a] = f[a]

LEMMA KeptFailures ==
    ASSUME NEW f, NEW g, NEW now, FailureRecords(f, now), Kept(g, f)
    PROVE  FailureRecords(g, now)
BY FewerTracked DEF FailureRecords, Kept

LEMMA KeptDistinct ==
    ASSUME NEW f, NEW g, NEW now, DistinctRecords(f, now), Kept(g, f)
    PROVE  DistinctRecords(g, now)
BY FewerTracked DEF DistinctRecords, Kept

LEMMA FailureAssigned ==
    ASSUME NEW f, NEW now, FailureRecords(f, now), NEW a \in Addresses,
           a \in DOMAIN f \/ Cardinality(DOMAIN f) < MaxTracked,
           NEW v \in [count : Nat \ {0}, firstAt : 0..now]
    PROVE  FailureRecords(Assign(f, a, v), now)
<1>1. Tracked(DOMAIN f \cup {a})
  BY OneMoreTracked DEF FailureRecords
<1>2. PICK g : g = Assign(f, a, v)
  OBVIOUS
<1>3. /\ DOMAIN g = DOMAIN f \cup {a} /\ g[a] = v
      /\ \A b \in DOMAIN f : b # a => g[b] = f[b]
  BY <1>2 DEF Assign
<1>4. FailureRecords(g, now)
  BY <1>1, <1>3 DEF FailureRecords
<1>5. QED
  BY <1>2, <1>4

LEMMA DistinctAssigned ==
    ASSUME NEW f, NEW now, DistinctRecords(f, now), NEW a \in Addresses,
           a \in DOMAIN f \/ Cardinality(DOMAIN f) < MaxTracked,
           NEW v, DistinctRecord(v, now), Cardinality(v.digests) < DistinctLimit
    PROVE  DistinctRecords(Assign(f, a, v), now)
<1>1. Tracked(DOMAIN f \cup {a})
  BY OneMoreTracked DEF DistinctRecords
<1>2. PICK g : g = Assign(f, a, v)
  OBVIOUS
<1>3. /\ DOMAIN g = DOMAIN f \cup {a} /\ g[a] = v
      /\ \A b \in DOMAIN f : b # a => g[b] = f[b]
  BY <1>2 DEF Assign
<1>4. DistinctRecords(g, now)
  BY <1>1, <1>3 DEF DistinctRecords
<1>5. QED
  BY <1>2, <1>4

(* The records of a while ago are records now. *)
LEMMA RecordsAge ==
    ASSUME NEW now \in Int, NEW later \in Int, now <= later
    PROVE  /\ \A f : FailureRecords(f, now) => FailureRecords(f, later)
           /\ \A d : DistinctRecords(d, now) => DistinctRecords(d, later)
<1>1. 0..now \subseteq 0..later
  OBVIOUS
<1>2. \A rec : DistinctRecord(rec, now) => DistinctRecord(rec, later)
  BY <1>1 DEF DistinctRecord
<1>3. QED
  BY <1>1, <1>2 DEF FailureRecords, DistinctRecords

LEMMA GreaterOfTwo ==
    ASSUME NEW a \in Int, NEW b \in Int
    PROVE  Max({a, b}) \in {a, b} /\ Max({a, b}) >= a /\ Max({a, b}) >= b
<1>1. \E x \in {a, b} : \A y \in {a, b} : x >= y
  <2>1. CASE a >= b
    BY <2>1
  <2>2. CASE ~(a >= b)
    BY <2>2
  <2>3. QED
    BY <2>1, <2>2
<1>2. QED
  BY <1>1 DEF Max

-----------------------------------------------------------------------------
(* The failure limiter's table *)

(* What becomes of the record of an address nobody charges: it stays as it is
   for the window, and is let go of after it at the earliest.                *)
KeepsFailure(g, k) ==
    /\ k \in DOMAIN g => k \in DOMAIN failures /\ g[k] = failures[k]
    /\ k \in DOMAIN failures /\ ~Lapsed(k) => k \in DOMAIN g

KeepsFailures(g) == FailureRecords(g, clock) /\ \A k : KeepsFailure(g, k)

LEMMA RestrictedFailures ==
    ASSUME BudgetTypes, NEW D, D \subseteq DOMAIN failures,
           \A k \in DOMAIN failures : ~Lapsed(k) => k \in D
    PROVE  KeepsFailures(Restrict(failures, D)) /\ DOMAIN Restrict(failures, D) = D
<1>1. PICK g : g = Restrict(failures, D)
  OBVIOUS
<1>2. DOMAIN g = D /\ \A k \in D : g[k] = failures[k]
  BY <1>1 DEF Restrict
<1>3. Kept(g, failures)
  BY <1>2 DEF Kept
<1>4. FailureRecords(g, clock)
  BY <1>3, KeptFailures DEF BudgetTypes
<1>5. \A k : KeepsFailure(g, k)
  BY <1>2 DEF KeepsFailure
<1>6. QED
  BY <1>1, <1>2, <1>4, <1>5 DEF KeepsFailures

LEMMA SweepSparesFailures ==
    ASSUME BudgetTypes
    PROVE  KeepsFailures(SweptFailures)
BY RestrictedFailures DEF SweptFailures

LEMMA AskingSparesFailures ==
    ASSUME BudgetTypes, NEW a
    PROVE  /\ KeepsFailures(FailuresAsked(a))
           /\ a \in DOMAIN FailuresAsked(a) => ~Lapsed(a)
<1>1. PICK D : D = {k \in DOMAIN failures : k # a \/ ~Lapsed(k)}
  OBVIOUS
<1>2. FailuresAsked(a) = Restrict(failures, D)
  BY <1>1 DEF FailuresAsked
<1>3. KeepsFailures(Restrict(failures, D)) /\ DOMAIN Restrict(failures, D) = D
  BY <1>1, RestrictedFailures
<1>4. QED
  BY <1>1, <1>2, <1>3

LEMMA RoomSparesFailures ==
    ASSUME BudgetTypes, NEW a
    PROVE  /\ KeepsFailures(FailuresWithRoom(a))
           /\ a \in DOMAIN failures => FailuresWithRoom(a) = failures
<1>1. KeepsFailures(failures)
  BY DEF BudgetTypes, KeepsFailures, KeepsFailure
<1>2. QED
  BY <1>1, SweepSparesFailures DEF FailuresWithRoom, SweepsFailures

(* A failure that counts is the first of a record, or one more. *)
LEMMA FailureIsCounted ==
    ASSUME BudgetTypes, NEW a \in Addresses, Counts(a)
    PROVE  /\ FailureRecords(Recorded(a), clock)
           /\ \A k : k # a => KeepsFailure(Recorded(a), k)
           /\ a \in DOMAIN Recorded(a)
           /\ \/ Recorded(a)[a].count = 1 /\ Recorded(a)[a].firstAt = clock
              \/ /\ a \in DOMAIN failures
                 /\ Recorded(a)[a].count = failures[a].count + 1
                 /\ Recorded(a)[a].firstAt = failures[a].firstAt
<1>1. FailureRecords(failures, clock) /\ clock \in Nat
  BY Settings DEF BudgetTypes
<1>2. CASE a \in DOMAIN failures /\ ~Lapsed(a)
  <2>1. failures[a] \in [count : Nat \ {0}, firstAt : 0..clock]
    BY <1>1, <1>2 DEF FailureRecords
  <2>2. PICK v : v = [failures[a] EXCEPT !.count = @ + 1]
    OBVIOUS
  <2>3. /\ v.count = failures[a].count + 1 /\ v.firstAt = failures[a].firstAt
        /\ v \in [count : Nat \ {0}, firstAt : 0..clock]
    BY <2>1, <2>2
  <2>4. PICK g : g = Recorded(a)
    OBVIOUS
  <2>5. g = [failures EXCEPT ![a] = v]
    BY <1>2, <2>2, <2>4 DEF Recorded
  <2>6. DOMAIN g = DOMAIN failures /\ g[a] = v /\ \A k \in DOMAIN failures : k # a => g[k] = failures[k]
    BY <1>2, <2>5
  <2>7. FailureRecords(g, clock)
    BY <1>1, <2>3, <2>6 DEF FailureRecords
  <2>8. \A k : k # a => KeepsFailure(g, k)
    BY <2>6 DEF KeepsFailure
  <2>9. QED
    BY <1>2, <2>3, <2>4, <2>6, <2>7, <2>8
<1>3. CASE ~(a \in DOMAIN failures /\ ~Lapsed(a))
  <2>1. PICK f : f = FailuresWithRoom(a)
    OBVIOUS
  <2>2. KeepsFailures(f) /\ (a \in DOMAIN failures => f = failures)
    BY <2>1, RoomSparesFailures
  <2>3. a \in DOMAIN f \/ Cardinality(DOMAIN f) < MaxTracked
    BY <2>1, <2>2 DEF Counts
  <2>4. PICK v : v = FreshFailure
    OBVIOUS
  <2>5. v.count = 1 /\ v.firstAt = clock /\ v \in [count : Nat \ {0}, firstAt : 0..clock]
    BY <1>1, <2>4 DEF FreshFailure
  <2>6. PICK g : g = Assign(f, a, v)
    OBVIOUS
  <2>7. g = Recorded(a)
    BY <1>3, <2>1, <2>4, <2>6 DEF Recorded
  <2>8. DOMAIN g = DOMAIN f \cup {a} /\ g[a] = v /\ \A k \in DOMAIN f : k # a => g[k] = f[k]
    BY <2>6 DEF Assign
  <2>9. FailureRecords(g, clock)
    BY <2>2, <2>3, <2>5, <2>6, FailureAssigned DEF KeepsFailures
  <2>10. \A k : k # a => KeepsFailure(g, k)
    BY <2>2, <2>8 DEF KeepsFailures, KeepsFailure
  <2>11. QED
    BY <2>5, <2>7, <2>8, <2>9, <2>10
<1>4. QED
  BY <1>2, <1>3

LEMMA UncountedFailure ==
    ASSUME BudgetTypes, NEW a \in Addresses, ~Counts(a)
    PROVE  KeepsFailures(FailuresWithRoom(a))
BY RoomSparesFailures

-----------------------------------------------------------------------------
(* The distinct-credential budget's table *)

(* A block that is on stays until its instant, and none begins. *)
KeepsBlock(d, k) ==
    /\ k \in DOMAIN d => k \in DOMAIN distinct /\ d[k].until \in {distinct[k].until, Never}
    /\ k \in DOMAIN distinct /\ BlockOn(k) => k \in DOMAIN d /\ d[k].until = distinct[k].until

(* An address loses its ladder, or part of it, after a silence alone, climbs one
   rung at most, and neither climbs nor sees its block move while that is on. *)
KeepsLadder(d, k) ==
    k \in DOMAIN distinct =>
        /\ k \notin DOMAIN d \/ d[k].step < distinct[k].step => Silent(k)
        /\ k \in DOMAIN d =>
              /\ d[k].step <= distinct[k].step + 1
              /\ BlockOn(k) => d[k].step <= distinct[k].step /\ d[k].until = distinct[k].until

KeepsDistinct(d) ==
    /\ DistinctRecords(d, clock)
    /\ \A k : KeepsBlock(d, k) /\ KeepsLadder(d, k)

LEMMA DistinctIsTyped ==
    ASSUME BudgetTypes, NEW a \in DOMAIN distinct
    PROVE  /\ DistinctRecord(distinct[a], clock)
           /\ Cardinality(distinct[a].digests) < DistinctLimit
           /\ distinct[a].until \in Int /\ distinct[a].step \in 0..Len(Ladder)
           /\ distinct[a].seenAt \in 0..clock /\ distinct[a].windowAt \in 0..clock
           /\ clock \in Nat
BY Settings DEF BudgetTypes, DistinctRecords, DistinctRecord

LEMMA SameDistinct ==
    ASSUME BudgetTypes
    PROVE  KeepsDistinct(distinct)
<1>1. \A k : KeepsLadder(distinct, k)
  BY DistinctIsTyped, LadderIsFinite DEF KeepsLadder
<1>2. QED
  BY <1>1 DEF BudgetTypes, KeepsDistinct, KeepsBlock

LEMMA SweepSparesDistinct ==
    ASSUME BudgetTypes
    PROVE  KeepsDistinct(SweptDistinct) /\ Kept(SweptDistinct, distinct)
<1>1. PICK D : D = {k \in DOMAIN distinct : BlockOn(k) \/ ~Silent(k)}
  OBVIOUS
<1>2. PICK d : d = SweptDistinct
  OBVIOUS
<1>3. d = Restrict(distinct, D)
  BY <1>1, <1>2 DEF SweptDistinct
<1>4. DOMAIN d = D /\ \A k \in D : d[k] = distinct[k]
  BY <1>1, <1>3 DEF Restrict
<1>5. Kept(d, distinct)
  BY <1>1, <1>4 DEF Kept
<1>6. DistinctRecords(d, clock)
  BY <1>5, KeptDistinct DEF BudgetTypes
<1>7. \A k : KeepsBlock(d, k)
  BY <1>1, <1>4 DEF KeepsBlock
<1>8. ASSUME NEW k PROVE KeepsLadder(d, k)
  <2>1. k \in D => k \in DOMAIN distinct /\ d[k] = distinct[k] /\ distinct[k].step \in Int
    BY <1>1, <1>4, DistinctIsTyped, LadderIsFinite
  <2>2. QED
    BY <1>1, <1>4, <2>1 DEF KeepsLadder
<1>9. QED
  BY <1>2, <1>5, <1>6, <1>7, <1>8 DEF KeepsDistinct

LEMMA RoomSparesDistinct ==
    ASSUME BudgetTypes, NEW a
    PROVE  /\ KeepsDistinct(DistinctWithRoom(a)) /\ Kept(DistinctWithRoom(a), distinct)
           /\ a \in DOMAIN distinct => DistinctWithRoom(a) = distinct
<1>1. KeepsDistinct(distinct) /\ Kept(distinct, distinct)
  BY SameDistinct DEF Kept
<1>2. QED
  BY <1>1, SweepSparesDistinct DEF DistinctWithRoom, SweepsDistinct

(* One record is written: the others are as they were. *)
LEMMA OneRecordWritten ==
    ASSUME BudgetTypes, NEW a \in DOMAIN distinct, NEW v, DistinctRecord(v, clock),
           Cardinality(v.digests) < DistinctLimit, v.step = distinct[a].step,
           v.until \in {distinct[a].until, Never}, BlockOn(a) => v.until = distinct[a].until
    PROVE  KeepsDistinct([distinct EXCEPT ![a] = v])
<1>1. PICK d : d = [distinct EXCEPT ![a] = v]
  OBVIOUS
<1>2. DOMAIN d = DOMAIN distinct /\ d[a] = v /\ \A k \in DOMAIN distinct : k # a => d[k] = distinct[k]
  BY <1>1
<1>3. DistinctRecords(d, clock)
  BY <1>2 DEF BudgetTypes, DistinctRecords
<1>4. \A k : KeepsBlock(d, k)
  BY <1>2 DEF KeepsBlock
<1>5. ASSUME NEW k PROVE KeepsLadder(d, k)
  <2>1. k \in DOMAIN distinct =>
            /\ d[k].step = distinct[k].step /\ distinct[k].step \in Int
            /\ BlockOn(k) => d[k].until = distinct[k].until
    BY <1>2, DistinctIsTyped, LadderIsFinite
  <2>2. QED
    BY <1>2, <2>1 DEF KeepsLadder
<1>6. QED
  BY <1>1, <1>3, <1>4, <1>5 DEF KeepsDistinct

(* An address that knocks at its block is heard, and at no other instant. *)
LEMMA AskingSparesDistinct ==
    ASSUME BudgetTypes, NEW a
    PROVE  /\ KeepsDistinct(DistinctAsked(a))
           /\ \A k \in DOMAIN DistinctAsked(a) :
                /\ k \in DOMAIN distinct
                /\ DistinctAsked(a)[k].seenAt = IF k = a /\ BlockOn(a) THEN clock ELSE distinct[k].seenAt
           /\ a \in DOMAIN DistinctAsked(a) /\ ~BlockOn(a) => DistinctAsked(a)[a].until = Never
<1>1. CASE a \notin DOMAIN distinct
  BY <1>1, SameDistinct DEF DistinctAsked
<1>2. CASE a \in DOMAIN distinct
  <2>1. /\ DistinctRecord(distinct[a], clock) /\ Cardinality(distinct[a].digests) < DistinctLimit
        /\ clock \in 0..clock /\ Never \in Int
    BY <1>2, DistinctIsTyped, Settings
  <2>2. PICK v : v = IF BlockOn(a) THEN [distinct[a] EXCEPT !.seenAt = clock]
                                   ELSE [distinct[a] EXCEPT !.until = Never]
    OBVIOUS
  <2>3. /\ DistinctRecord(v, clock) /\ v.digests = distinct[a].digests /\ v.step = distinct[a].step
        /\ v.until = IF BlockOn(a) THEN distinct[a].until ELSE Never
        /\ v.seenAt = IF BlockOn(a) THEN clock ELSE distinct[a].seenAt
    BY <2>1, <2>2 DEF DistinctRecord
  <2>4. DistinctAsked(a) = [distinct EXCEPT ![a] = v]
    BY <1>2, <2>2 DEF DistinctAsked
  <2>5. KeepsDistinct([distinct EXCEPT ![a] = v])
    BY <1>2, <2>1, <2>3, OneRecordWritten
  <2>6. QED
    BY <1>2, <2>3, <2>4, <2>5
<1>3. QED
  BY <1>1, <1>2

(* The record a charge is counted in keeps its rung, unless after a silence. *)
LEMMA CountedRecord ==
    ASSUME BudgetTypes, NEW a \in Addresses
    PROVE  /\ DistinctRecord(Counted(a), clock)
           /\ a \in DOMAIN distinct => Counted(a).step <= distinct[a].step
           /\ a \in DOMAIN distinct /\ ~Silent(a) => Counted(a).step = distinct[a].step
<1>1. clock \in Nat /\ DistinctLimit \in Nat /\ DistinctLimit >= 1 /\ Never \in Int /\ Len(Ladder) \in Nat
  BY Settings, LadderIsFinite DEF BudgetTypes
<1>2. IsFiniteSet({}) /\ {} \in SUBSET (Tokens \cup {NoToken})
  BY FS_EmptySet
<1>3. DistinctRecord(FreshDistinct, clock)
  BY <1>1, <1>2 DEF FreshDistinct, DistinctRecord
<1>4. CASE a \notin DOMAIN distinct \/ Silent(a)
  <2>1. Counted(a) = FreshDistinct /\ FreshDistinct.step = 0
    BY <1>4 DEF Counted, FreshDistinct
  <2>2. a \in DOMAIN distinct => distinct[a].step \in 0..Len(Ladder)
    BY DistinctIsTyped
  <2>3. QED
    BY <1>1, <1>3, <1>4, <2>1, <2>2
<1>5. CASE a \in DOMAIN distinct /\ ~Silent(a)
  <2>1. DistinctRecord(distinct[a], clock)
    BY <1>5, DistinctIsTyped
  <2>2. PICK v : v = [distinct[a] EXCEPT !.digests = {}, !.windowAt = clock]
    OBVIOUS
  <2>3. /\ v.digests = {} /\ v.windowAt = clock /\ v.step = distinct[a].step
        /\ v.until = distinct[a].until /\ v.seenAt = distinct[a].seenAt
        /\ v = [digests |-> {}, windowAt |-> clock, step |-> distinct[a].step,
                until |-> distinct[a].until, seenAt |-> distinct[a].seenAt]
    BY <2>1, <2>2 DEF DistinctRecord
  <2>4. Counted(a) \in {v, distinct[a]}
    BY <1>5, <2>2 DEF Counted
  <2>5. DistinctRecord(v, clock)
    BY <1>1, <1>2, <2>1, <2>3 DEF DistinctRecord
  <2>6. Counted(a).step = distinct[a].step /\ distinct[a].step \in Int
    BY <1>1, <2>1, <2>3, <2>4 DEF DistinctRecord
  <2>7. QED
    BY <1>5, <2>1, <2>4, <2>5, <2>6
<1>6. QED
  BY <1>4, <1>5

LEMMA RaisedRecord ==
    ASSUME clock \in Nat, NEW rec, DistinctRecord(rec, clock)
    PROVE  /\ DistinctRecord(Raised(rec), clock) /\ Cardinality(Raised(rec).digests) < DistinctLimit
           /\ Raised(rec).step >= rec.step /\ Raised(rec).step <= rec.step + 1
           /\ Raised(rec).seenAt = rec.seenAt
<1>1. /\ Len(Ladder) \in Nat /\ Len(Ladder) >= 1 /\ Step \in Nat /\ DistinctLimit \in Nat
      /\ DistinctLimit >= 1 /\ rec.step \in 0..Len(Ladder)
  BY Settings, LadderIsFinite DEF DistinctRecord
<1>2. PICK step : step = IF rec.step < Len(Ladder) THEN rec.step + 1 ELSE rec.step
  OBVIOUS
<1>3. step \in 1..Len(Ladder) /\ step >= rec.step /\ step <= rec.step + 1
  BY <1>1, <1>2
<1>4. PICK rung : rung = Ladder[step] * Step
  OBVIOUS
<1>5. rung \in Int
  BY <1>1, <1>3, <1>4, LadderIsFinite
<1>6. PICK v : v = [rec EXCEPT !.digests = {}, !.windowAt = clock, !.step = step, !.until = clock + rung]
  OBVIOUS
<1>7. v = Raised(rec)
  BY <1>2, <1>4, <1>6 DEF Raised
<1>8. IsFiniteSet({}) /\ Cardinality({}) = 0
  BY FS_EmptySet
<1>9. /\ v.digests = {} /\ v.windowAt = clock /\ v.step = step /\ v.until = clock + rung
      /\ v.seenAt = rec.seenAt
      /\ v = [digests |-> {}, windowAt |-> clock, step |-> step, until |-> clock + rung, seenAt |-> rec.seenAt]
  BY <1>6 DEF DistinctRecord
<1>10. DistinctRecord(v, clock)
  BY <1>1, <1>3, <1>5, <1>8, <1>9 DEF DistinctRecord
<1>11. QED
  BY <1>1, <1>3, <1>7, <1>8, <1>9, <1>10

(* A charge: the address climbs a rung at most, and a block that is on neither
   moves nor is missed.                                                      *)
LEMMA ChargeIsCounted ==
    ASSUME BudgetTypes, NEW a \in Addresses, NEW t \in Tokens
    PROVE  /\ DistinctRecords(Charged(a, t), clock)
           /\ \A k : k # a => KeepsBlock(Charged(a, t), k)
           /\ \A k : KeepsLadder(Charged(a, t), k)
           /\ \A k \in DOMAIN Charged(a, t) :
                Charged(a, t)[k].seenAt = IF k = a THEN clock ELSE distinct[k].seenAt
<1>1. PICK d : d = Charged(a, t)
  OBVIOUS
<1>2. PICK f : f = DistinctWithRoom(a)
  OBVIOUS
<1>3. /\ KeepsDistinct(f) /\ Kept(f, distinct) /\ (a \in DOMAIN distinct => f = distinct)
  BY <1>2, RoomSparesDistinct
<1>4. clock \in Nat /\ clock \in 0..clock /\ DistinctLimit \in Nat
  BY Settings DEF BudgetTypes
<1>5. CASE a \in DOMAIN distinct /\ BlockOn(a)
  <2>1. /\ DistinctRecord(distinct[a], clock) /\ Cardinality(distinct[a].digests) < DistinctLimit
    BY <1>5, DistinctIsTyped
  <2>2. PICK v : v = [distinct[a] EXCEPT !.seenAt = clock]
    OBVIOUS
  <2>3. /\ DistinctRecord(v, clock) /\ v.digests = distinct[a].digests /\ v.step = distinct[a].step
        /\ v.until = distinct[a].until /\ v.seenAt = clock
    BY <1>4, <2>1, <2>2 DEF DistinctRecord
  <2>4. d = [distinct EXCEPT ![a] = v]
    BY <1>1, <1>5, <2>2 DEF Charged
  <2>5. KeepsDistinct(d)
    BY <1>5, <2>1, <2>3, <2>4, OneRecordWritten
  <2>6. \A k \in DOMAIN d : d[k].seenAt = IF k = a THEN clock ELSE distinct[k].seenAt
    BY <1>5, <2>3, <2>4
  <2>7. QED
    BY <1>1, <2>5, <2>6 DEF KeepsDistinct
<1>6. CASE /\ a \notin DOMAIN distinct
           /\ Cardinality(DOMAIN f) >= MaxTracked
  <2>1. d = f
    BY <1>1, <1>2, <1>6 DEF Charged
  <2>2. \A k \in DOMAIN d : k # a /\ d[k].seenAt = distinct[k].seenAt
    BY <1>3, <1>6, <2>1 DEF Kept
  <2>3. QED
    BY <1>1, <1>3, <2>1, <2>2 DEF KeepsDistinct
<1>7. CASE /\ ~(a \in DOMAIN distinct /\ BlockOn(a))
           /\ ~(a \notin DOMAIN distinct /\ Cardinality(DOMAIN f) >= MaxTracked)
  <2>1. PICK c : c = Counted(a)
    OBVIOUS
  <2>2. /\ DistinctRecord(c, clock)
        /\ a \in DOMAIN distinct => c.step <= distinct[a].step
        /\ a \in DOMAIN distinct /\ ~Silent(a) => c.step = distinct[a].step
    BY <2>1, CountedRecord
  <2>3. PICK rec : rec = [c EXCEPT !.seenAt = clock, !.digests = @ \cup {t}]
    OBVIOUS
  <2>4. /\ DistinctRecord(rec, clock) /\ rec.seenAt = clock /\ rec.step = c.step
    <3>1. IsFiniteSet(c.digests \cup {t}) /\ c.digests \cup {t} \in SUBSET (Tokens \cup {NoToken})
      <4>1. IsFiniteSet(c.digests) /\ IsFiniteSet({t}) /\ c.digests \in SUBSET (Tokens \cup {NoToken})
        BY <2>2, FS_Singleton DEF DistinctRecord
      <4>2. QED
        BY <4>1, FS_Union
    <3>2. QED
      BY <1>4, <2>2, <2>3, <3>1 DEF DistinctRecord
  <2>5. PICK v : v = IF Cardinality(rec.digests) < DistinctLimit THEN rec ELSE Raised(rec)
    OBVIOUS
  <2>6. /\ DistinctRecord(v, clock) /\ Cardinality(v.digests) < DistinctLimit
        /\ v.step >= c.step /\ v.step <= c.step + 1 /\ v.seenAt = clock
    <3>1. rec.step \in Int /\ Len(Ladder) \in Nat
      BY <2>4, LadderIsFinite DEF DistinctRecord
    <3>2. CASE Cardinality(rec.digests) < DistinctLimit
      BY <2>4, <2>5, <3>1, <3>2
    <3>3. CASE ~(Cardinality(rec.digests) < DistinctLimit)
      <4>1. v = Raised(rec)
        BY <2>5, <3>3
      <4>2. /\ DistinctRecord(Raised(rec), clock) /\ Cardinality(Raised(rec).digests) < DistinctLimit
            /\ Raised(rec).step >= rec.step /\ Raised(rec).step <= rec.step + 1
            /\ Raised(rec).seenAt = rec.seenAt
        BY <1>4, <2>4, RaisedRecord
      <4>3. QED
        BY <2>4, <4>1, <4>2
    <3>4. QED
      BY <3>2, <3>3
  <2>7. d = Assign(f, a, v)
    BY <1>1, <1>2, <1>7, <2>1, <2>3, <2>5 DEF Charged
  <2>8. a \in DOMAIN f \/ Cardinality(DOMAIN f) < MaxTracked
    <3>1. Cardinality(DOMAIN f) \in Nat /\ MaxTracked \in Nat
      BY <1>3, FS_CardinalityType, Settings DEF KeepsDistinct, DistinctRecords, Tracked
    <3>2. QED
      BY <1>3, <1>7, <3>1
  <2>9. DistinctRecords(d, clock)
    BY <1>3, <2>6, <2>7, <2>8, DistinctAssigned DEF KeepsDistinct
  <2>10. DOMAIN d = DOMAIN f \cup {a} /\ d[a] = v /\ \A k \in DOMAIN f : k # a => d[k] = f[k]
    BY <2>7 DEF Assign
  <2>11. \A k : k # a => KeepsBlock(d, k) /\ KeepsLadder(d, k)
    BY <1>3, <2>10 DEF KeepsDistinct, KeepsBlock, KeepsLadder
  <2>12. KeepsLadder(d, a)
    <3>1. a \in DOMAIN distinct => distinct[a].step \in Int
      BY DistinctIsTyped, LadderIsFinite
    <3>2. v.step \in Int /\ c.step \in Int
      BY <2>2, <2>6, LadderIsFinite DEF DistinctRecord
    <3>3. QED
      BY <1>7, <2>2, <2>6, <2>10, <3>1, <3>2 DEF KeepsLadder
  <2>13. \A k \in DOMAIN d : d[k].seenAt = IF k = a THEN clock ELSE distinct[k].seenAt
    BY <1>3, <2>6, <2>10 DEF Kept
  <2>14. QED
    BY <1>1, <2>9, <2>11, <2>12, <2>13
<1>8. QED
  BY <1>5, <1>6, <1>7

-----------------------------------------------------------------------------
(* Blocks *)

LEMMA BlocksAreRecords ==
    ASSUME BudgetTypes, NEW a \in Addresses
    PROVE  /\ LockoutLeft(a) # Never <=> Locks(a) /\ ~Lapsed(a)
           /\ Locks(a) => LockEnds(a) \in Nat /\ (Lapsed(a) <=> clock > LockEnds(a))
           /\ LockoutLeft(a) # Never => LockoutLeft(a) = LockEnds(a) - clock /\ LockoutLeft(a) >= 0
           /\ DistinctLeft(a) # Never <=> a \in DOMAIN distinct /\ BlockOn(a)
           /\ DistinctLeft(a) # Never => DistinctLeft(a) = distinct[a].until - clock /\ DistinctLeft(a) > 0
           /\ LockoutLeft(a) \in Int /\ DistinctLeft(a) \in Int
<1>1. clock \in Nat /\ Window \in Nat /\ MaxFails \in Nat /\ Never = -100
  BY Settings DEF BudgetTypes
<1>2. a \in DOMAIN failures => failures[a].firstAt \in 0..clock /\ failures[a].count \in Nat
  BY DEF BudgetTypes, FailureRecords
<1>3. a \in DOMAIN distinct => distinct[a].until \in Int
  BY DistinctIsTyped
<1>4. /\ LockoutLeft(a) # Never <=> Locks(a) /\ ~Lapsed(a)
      /\ Locks(a) => LockEnds(a) \in Nat /\ (Lapsed(a) <=> clock > LockEnds(a))
      /\ LockoutLeft(a) # Never => LockoutLeft(a) = LockEnds(a) - clock /\ LockoutLeft(a) >= 0
      /\ LockoutLeft(a) \in Int
  BY <1>1, <1>2 DEF LockoutLeft, Lapsed, Locks, LockEnds
<1>5. /\ DistinctLeft(a) # Never <=> a \in DOMAIN distinct /\ BlockOn(a)
      /\ DistinctLeft(a) # Never => DistinctLeft(a) = distinct[a].until - clock /\ DistinctLeft(a) > 0
      /\ DistinctLeft(a) \in Int
  BY <1>1, <1>3 DEF DistinctLeft, BlockOn
<1>6. QED
  BY <1>4, <1>5

-----------------------------------------------------------------------------
(* What a step does to the budgets *)

(* A request, at the guard or at the gate behind it, asks both of them, and may
   be refused.                                                               *)
Asks(r) ==
    LET a == Address(r) IN
    /\ failures' = FailuresAsked(a) /\ distinct' = DistinctAsked(a)
    /\ \/ promise' = promise
       \/ Blocked(a) /\ promise' = [promise EXCEPT ![r] = clock + LongestBlock(a)]
    /\ \/ lockedAt' = lockedAt
       \/ LockoutLeft(a) # Never /\ lockedAt' = [lockedAt EXCEPT ![r] = clock]
    /\ heard' = [heard EXCEPT ![a] = IF DistinctLeft(a) # Never THEN clock ELSE @]
    /\ asked' = asked /\ clock' = clock /\ failedAt' = failedAt

(* A table is swept. *)
Sweeps ==
    /\ \/ failures' = SweptFailures /\ distinct' = distinct
       \/ distinct' = SweptDistinct /\ failures' = failures
    /\ UNCHANGED <<asked, clock, promise, failedAt, lockedAt, heard>>

(* The records are left alone; a refusal may be taken back, and time may pass. *)
Rests ==
    /\ UNCHANGED <<asked, failures, distinct, failedAt, lockedAt, heard>>
    /\ promise' = promise \/ \E r \in Requests : promise' = [promise EXCEPT ![r] = Never]
    /\ clock' = clock \/ (clock < MaxClock /\ clock' = clock + 1)

BudgetStep ==
    \/ \E r \in Requests : Asks(r) \/ ChargeFailure(r) \/ ChargeDistinct(r)
    \/ Sweeps \/ Rests

LEMMA GuardStepsOnBudgets ==
    ASSUME BudgetTypes, NEW r \in Requests, OfGuard(r)
    PROVE  Asks(r) \/ Rests
<1> USE DEF slotVars, counts
<1>0. promise \in [Requests -> Nat \cup {Never}] /\ lockedAt \in [Requests -> Instants]
  BY DEF BudgetTypes
<1>1. CASE GuardAsks(r)
  <2>1. PICK a : a = Address(r)
    OBVIOUS
  <2>2. /\ failures' = FailuresAsked(a) /\ distinct' = DistinctAsked(a)
        /\ promise' = [promise EXCEPT ![r] = IF Blocked(a) THEN clock + LongestBlock(a) ELSE @]
        /\ lockedAt' = [lockedAt EXCEPT ![r] = IF LockoutLeft(a) # Never THEN clock ELSE @]
        /\ heard' = [heard EXCEPT ![a] = IF DistinctLeft(a) # Never THEN clock ELSE @]
        /\ asked' = asked /\ clock' = clock /\ failedAt' = failedAt
    BY <1>1, <2>1 DEF GuardAsks
  <2>3. promise' = promise \/ (Blocked(a) /\ promise' = [promise EXCEPT ![r] = clock + LongestBlock(a)])
    BY <1>0, <2>2
  <2>4. lockedAt' = lockedAt \/ (LockoutLeft(a) # Never /\ lockedAt' = [lockedAt EXCEPT ![r] = clock])
    BY <1>0, <2>2
  <2>5. QED
    BY <2>1, <2>2, <2>3, <2>4 DEF Asks
<1>2. CASE Exempt(r)
  BY <1>2 DEF Exempt, Rests, records
<1>3. CASE ~GuardAsks(r) /\ ~Exempt(r)
  BY <1>3 DEF OfGuard, Recall, AskCache, AskCacheAtLast, AskCacheHolding, Acquire,
       AcquireLate, GiveUp, GitLabAccepts, GitLabRefuses, GitLabIsSilent, Stamp, ReadClock, Store,
       RememberInvalid, RememberRefused, Remember, SDKChecks, gateVars, records, history, Rests
<1>4. QED
  BY <1>1, <1>2, <1>3

LEMMA GateStepsOnBudgets ==
    ASSUME BudgetTypes, BudgetsNext
    PROVE  BudgetStep
<1>0. promise \in [Requests -> Nat \cup {Never}] /\ lockedAt \in [Requests -> Instants]
  BY DEF BudgetTypes
<1>1. ASSUME NEW r \in Requests, AskBudgets(r)
      PROVE  Asks(r)
  <2>1. PICK a : a = Address(r)
    OBVIOUS
  <2>2. PICK refused : refused = (Blocked(a) /\ Token(r) \notin DOMAIN pooled)
    OBVIOUS
  <2>3. /\ failures' = FailuresAsked(a) /\ distinct' = DistinctAsked(a)
        /\ promise' = [promise EXCEPT ![r] = IF refused THEN clock + LongestBlock(a) ELSE @]
        /\ lockedAt' = [lockedAt EXCEPT ![r] = IF refused /\ LockoutLeft(a) # Never THEN clock ELSE @]
        /\ heard' = [heard EXCEPT ![a] = IF DistinctLeft(a) # Never THEN clock ELSE @]
        /\ asked' = asked /\ clock' = clock /\ failedAt' = failedAt
    BY <1>1, <2>1, <2>2 DEF AskBudgets
  <2>4. promise' = promise \/ (Blocked(a) /\ promise' = [promise EXCEPT ![r] = clock + LongestBlock(a)])
    BY <1>0, <2>2, <2>3
  <2>5. lockedAt' = lockedAt \/ (LockoutLeft(a) # Never /\ lockedAt' = [lockedAt EXCEPT ![r] = clock])
    BY <1>0, <2>3
  <2>6. QED
    BY <2>1, <2>3, <2>4, <2>5 DEF Asks
<1>2. ASSUME NEW r \in Requests, Admit(r) \/ Reject(r) \/ TurnAway(r)
      PROVE  Rests
  BY <1>2 DEF Admit, Reject, TurnAway, Rests, records, history
<1>3. CASE CleanupFailures \/ CleanupDistinct
  BY <1>3 DEF CleanupFailures, CleanupDistinct, Sweeps, BudgetStep, history
<1>4. CASE Tick \/ \E t \in Tokens : Forget(t)
  BY <1>4 DEF Tick, Forget, Rests, BudgetStep, records, history
<1>5. QED
  BY <1>1, <1>2, <1>3, <1>4 DEF BudgetsNext, BudgetStep

LEMMA StepsOnBudgets ==
    ASSUME BudgetTypes, [GuardedNext]_allVars
    PROVE  BudgetStep
<1> USE DEF slotVars, counts, guardVars
<1>1. CASE GuardNext
  <2>1. CASE \E r \in Requests : InFront(r) /\ OfGuard(r)
    BY <2>1, GuardStepsOnBudgets DEF BudgetStep
  <2>2. CASE CleanupCache \/ CleanupRejected \/ GuardTick
    BY <2>2 DEF CleanupCache, CleanupRejected, GuardTick, vars, budgetVars, records, history,
                BudgetStep, Rests
  <2>3. QED
    BY <1>1, <2>1, <2>2 DEF GuardNext, OfGuard
<1>2. CASE GateNext
  <2>1. CASE BudgetsNext
    BY <2>1, GateStepsOnBudgets
  <2>2. CASE UNCHANGED budgetVars
    BY <2>2 DEF budgetVars, records, history, BudgetStep, Rests
  <2>3. QED
    BY <1>2, <2>1, <2>2 DEF GateNext, Next
<1>3. CASE UNCHANGED allVars
  BY <1>3 DEF allVars, vars, budgetVars, records, history, BudgetStep, Rests
<1>4. QED
  BY <1>1, <1>2, <1>3 DEF GuardedNext

(* A request that fails does so once: its door does not open again. *)
Leaving == {"charging", "refused"}

LEMMA DoorsStayShut ==
    ASSUME GuardInv, [GuardedNext]_allVars, NEW q \in Requests, door[q] \in Leaving
    PROVE  door'[q] \in Leaving
<1>1. GuardTypes /\ clock \in Int /\ door \in [Requests -> Doors]
  BY DEF GuardInv, GuardTypes
<1>2. ASSUME NEW r \in Requests, InFront(r), OfGuard(r)
      PROVE  door'[q] \in Leaving
  <2>1. door[r] = "arriving"
    BY <1>2 DEF GuardInv, RequestOK
  <2>2. PICK g, d, i : Sent(r, g, d, i)
    BY <1>2, EveryStepSettles DEF Settles, Settled
  <2>3. q # r
    BY <2>1 DEF Leaving
  <2>4. QED
    BY <1>1, <2>2, <2>3, SentArrives
<1>3. CASE \E r \in Requests : \E d : DoorMoves(r, d)
  <2>1. PICK r \in Requests : \E d : DoorMoves(r, d)
    BY <1>3
  <2>2. PICK d : DoorMoves(r, d)
    BY <2>1
  <2>3. r = q => d \in Leaving
    BY <2>2 DEF DoorMoves, Leaving
  <2>4. door' = [door EXCEPT ![r] = d]
    BY <2>2 DEF DoorMoves
  <2>5. QED
    BY <1>1, <2>3, <2>4
<1>4. CASE door' = door
  BY <1>4
<1>5. CASE GuardNext
  <2>1. CASE CleanupCache \/ CleanupRejected \/ GuardTick
    BY <1>4, <2>1 DEF CleanupCache, CleanupRejected, GuardTick, vars, budgetVars
  <2>2. QED
    BY <1>2, <1>5, <2>1 DEF GuardNext, OfGuard
<1>6. CASE GateNext
  <2>1. CASE BudgetsNext
    BY <1>1, <1>3, <1>4, <2>1, BudgetsMoveDoors
  <2>2. CASE UNCHANGED budgetVars
    BY <1>4, <2>2 DEF budgetVars
  <2>3. QED
    BY <1>6, <2>1, <2>2 DEF GateNext, Next
<1>7. CASE UNCHANGED allVars
  BY <1>4, <1>7 DEF allVars, vars, budgetVars
<1>8. QED
  BY <1>5, <1>6, <1>7 DEF GuardedNext

-----------------------------------------------------------------------------
(* What a step that is not about an address leaves of it *)

(* The failure of a request is recorded for good. *)
GoesOn ==
    /\ asked' = asked /\ clock \in Nat /\ clock' \in Nat /\ clock' >= clock
    /\ \A q \in Requests : failedAt[q] # Never => failedAt'[q] = failedAt[q]

LEMMA FailuresAddUp ==
    ASSUME GoesOn, NEW a, NEW from \in Int, NEW to \in Int,
           NEW earlier \in Int, NEW later \in Int, earlier <= from, to <= later
    PROVE  /\ Cardinality(FailedIn(a, from, to)) <= Cardinality(FailedIn(a, earlier, later)')
           /\ Cardinality(FailedIn(a, from, to)) \in Nat
           /\ Cardinality(FailedIn(a, earlier, later)') \in Nat
           /\ IsFiniteSet(FailedIn(a, from, to)) /\ IsFiniteSet(FailedIn(a, earlier, later)')
           /\ FailedIn(a, from, to) \subseteq FailedIn(a, earlier, later)'
<1>1. PICK S : S = FailedIn(a, from, to)
  OBVIOUS
<1>2. PICK T : T = FailedIn(a, earlier, later)'
  OBVIOUS
<1>3. S \subseteq T /\ T \subseteq Requests
  BY <1>1, <1>2 DEF FailedIn, GoesOn, Address
<1>4. IsFiniteSet(T)
  BY <1>3, BudgetsFiniteAssumption, FS_Subset
<1>5. IsFiniteSet(S) /\ Cardinality(S) <= Cardinality(T)
  BY <1>3, <1>4, FS_Subset
<1>6. Cardinality(S) \in Nat /\ Cardinality(T) \in Nat
  BY <1>4, <1>5, FS_CardinalityType
<1>7. QED
  BY <1>1, <1>2, <1>3, <1>4, <1>5, <1>6

LEMMA FailureIsTyped ==
    ASSUME BudgetTypes, NEW a \in DOMAIN failures
    PROVE  failures[a].count \in Nat /\ failures[a].firstAt \in 0..clock /\ clock \in Nat
BY Settings DEF BudgetTypes, FailureRecords

LEMMA CountStays ==
    ASSUME BudgetTypes, GoesOn, NEW a, CountOK(a), KeepsFailure(failures', a)
    PROVE  CountOK(a)'
<1>1. SUFFICES ASSUME a \in DOMAIN failures'
               PROVE  failures'[a].count <= Cardinality(FailedIn(a, failures[a].firstAt, clock)')
  BY DEF CountOK
<1>2. a \in DOMAIN failures /\ failures'[a] = failures[a]
  BY <1>1 DEF KeepsFailure
<1>3. PICK n, from : n = failures[a].count /\ from = failures[a].firstAt
  OBVIOUS
<1>4. PICK to, later : to = clock /\ later = clock'
  OBVIOUS
<1>5. n \in Nat /\ from \in Int /\ to \in Int /\ later \in Int /\ to <= later
  BY <1>2, <1>3, <1>4, FailureIsTyped DEF GoesOn
<1>6. n <= Cardinality(FailedIn(a, from, to))
  BY <1>2, <1>3, <1>4 DEF CountOK
<1>7. /\ Cardinality(FailedIn(a, from, to)) <= Cardinality(FailedIn(a, from, later)')
      /\ Cardinality(FailedIn(a, from, to)) \in Nat /\ Cardinality(FailedIn(a, from, later)') \in Nat
  BY <1>5, FailuresAddUp
<1>8. FailedIn(a, failures[a].firstAt, clock)' = FailedIn(a, from, later)'
  BY <1>2, <1>3, <1>4 DEF FailedIn
<1>9. QED
  BY <1>2, <1>3, <1>5, <1>6, <1>7, <1>8

LEMMA LockStays ==
    ASSUME BudgetTypes, GoesOn, NEW r \in Requests, LockOK(r), lockedAt'[r] = lockedAt[r]
    PROVE  LockOK(r)'
<1>1. PICK a, at : a = Address(r) /\ at = lockedAt[r]
  OBVIOUS
<1>2. a = Address(r)' /\ at = lockedAt'[r]
  BY <1>1 DEF GoesOn, Address
<1>3. Window \in Nat /\ MaxFails \in Nat /\ (at \in Nat \/ at = Never) /\ Never \in Int
  BY <1>1, Settings DEF BudgetTypes, Instants, GoesOn
<1>4. at # Never => Cardinality(FailedIn(a, at - Window, at)) >= MaxFails
  BY <1>1 DEF LockOK
<1>5. PICK from : from = at - Window
  OBVIOUS
<1>6. from \in Int /\ at \in Int
  BY <1>3, <1>5
<1>7. /\ Cardinality(FailedIn(a, from, at)) <= Cardinality(FailedIn(a, from, at)')
      /\ Cardinality(FailedIn(a, from, at)) \in Nat /\ Cardinality(FailedIn(a, from, at)') \in Nat
  BY <1>6, FailuresAddUp
<1>8. at # Never => Cardinality(FailedIn(a, from, at)') >= MaxFails
  BY <1>3, <1>4, <1>5, <1>7
<1>9. FailedIn(a, from, at)' = FailedIn(Address(r), lockedAt[r] - Window, lockedAt[r])'
  BY <1>2, <1>5 DEF FailedIn
<1>10. QED
  BY <1>2, <1>8, <1>9 DEF LockOK

LEMMA PromiseStays ==
    ASSUME BudgetTypes, GoesOn, NEW r \in Requests, PromiseOK(r),
           KeepsFailure(failures', Address(r)), KeepsBlock(distinct', Address(r)),
           promise'[r] \in {promise[r], Never}
    PROVE  PromiseOK(r)'
<1>1. PICK a, due : a = Address(r) /\ due = promise'[r]
  OBVIOUS
<1>2. a = Address(r)' /\ (due # Never => due \in Nat /\ PromiseKept(a, due))
  <2>1. due # Never => due = promise[r] /\ due \in Nat
    BY <1>1 DEF BudgetTypes
  <2>2. QED
    BY <1>1, <2>1 DEF GoesOn, Address, PromiseOK
<1>3. SUFFICES ASSUME due # Never
               PROVE  PromiseKept(a, due)'
  <2>1. PromiseKept(a, due)' => PromiseOK(r)'
    BY <1>1, <1>2 DEF PromiseOK, PromiseKept, Locks, LockEnds
  <2>2. due = Never => PromiseOK(r)'
    BY <1>1, <1>2 DEF PromiseOK, PromiseKept
  <2>3. QED
    BY <2>1, <2>2
<1>4. /\ Window \in Nat /\ clock \in Nat /\ clock' \in Nat /\ clock' >= clock /\ due \in Nat
      /\ Never = -100
  BY <1>2, <1>3, Settings DEF GoesOn
<1>5. /\ a \in DOMAIN failures => failures[a].firstAt \in Nat
      /\ a \in DOMAIN distinct => distinct[a].until \in Int
  BY FailureIsTyped, DistinctIsTyped
<1>6. Locks(a)' => Locks(a) /\ LockEnds(a)' = LockEnds(a)
  BY <1>1 DEF KeepsFailure, Locks, LockEnds
<1>7. Locks(a) /\ LockEnds(a) = due /\ clock < due => Locks(a)' /\ LockEnds(a)' = due
  <2>1. Locks(a) /\ LockEnds(a) = due /\ clock < due => ~Lapsed(a)
    BY <1>4, <1>5 DEF Locks, LockEnds, Lapsed
  <2>2. QED
    BY <1>1, <2>1 DEF KeepsFailure, Locks, LockEnds
<1>8. a \in DOMAIN distinct' => a \in DOMAIN distinct /\ distinct'[a].until \in {distinct[a].until, Never}
  BY <1>1 DEF KeepsBlock
<1>9. a \in DOMAIN distinct /\ distinct[a].until = due /\ clock < due
        => a \in DOMAIN distinct' /\ distinct'[a].until = due
  BY <1>1 DEF KeepsBlock, BlockOn
<1>10. /\ clock' < due => \/ Locks(a)' /\ LockEnds(a)' = due
                          \/ a \in DOMAIN distinct' /\ distinct'[a].until = due
  BY <1>2, <1>3, <1>4, <1>7, <1>9 DEF PromiseKept
<1>11. Locks(a)' => LockEnds(a)' <= due
  BY <1>2, <1>3, <1>6 DEF PromiseKept
<1>12. a \in DOMAIN distinct' => distinct'[a].until <= due
  BY <1>2, <1>3, <1>4, <1>5, <1>8 DEF PromiseKept
<1>13. QED
  BY <1>10, <1>11, <1>12 DEF PromiseKept

LEMMA NothingPromised ==
    ASSUME NEW r \in Requests, promise'[r] = Never
    PROVE  PromiseOK(r)'
BY DEF PromiseOK, PromiseKept

-----------------------------------------------------------------------------
(* Every step keeps the invariant *)

LEMMA FailedOnceStays ==
    ASSUME GuardInv, [GuardedNext]_allVars, NEW q \in Requests, FailedOnce(q),
           failedAt'[q] = failedAt[q] \/ door'[q] \in Leaving
    PROVE  FailedOnce(q)'
BY DoorsStayShut DEF FailedOnce, Leaving

(* A request that is told to come back is told of the longest of its blocks. *)
LEMMA PromiseIsMade ==
    ASSUME BudgetTypes, clock' = clock, asked' = asked, NEW r \in Requests, Asks(r),
           NEW a \in Addresses, a = Address(r), Blocked(a),
           NEW due, due = clock + LongestBlock(a)
    PROVE  due \in Nat /\ PromiseKept(a, due)'
<1>1. PICK lock, dist, most : lock = LockoutLeft(a) /\ dist = DistinctLeft(a) /\ most = LongestBlock(a)
  OBVIOUS
<1>2. /\ lock # Never <=> Locks(a) /\ ~Lapsed(a)
      /\ Locks(a) => LockEnds(a) \in Nat /\ (Lapsed(a) <=> clock > LockEnds(a))
      /\ lock # Never => lock = LockEnds(a) - clock /\ lock >= 0
      /\ dist # Never <=> a \in DOMAIN distinct /\ BlockOn(a)
      /\ dist # Never => dist = distinct[a].until - clock /\ dist > 0
      /\ lock \in Int /\ dist \in Int
  BY <1>1, BlocksAreRecords
<1>3. most \in {lock, dist} /\ most >= lock /\ most >= dist
  BY <1>1, <1>2, GreaterOfTwo DEF LongestBlock
<1>4. clock \in Nat /\ Never = -100 /\ (lock # Never \/ dist # Never)
  BY <1>1, Settings DEF BudgetTypes, Blocked
<1>5. most \in Nat /\ clock + most \in Nat /\ most # Never
  BY <1>2, <1>3, <1>4
<1>6. /\ KeepsFailures(failures') /\ (a \in DOMAIN failures' => ~Lapsed(a))
      /\ KeepsDistinct(distinct')
      /\ a \in DOMAIN distinct' /\ ~BlockOn(a) => distinct'[a].until = Never
  BY AskingSparesFailures, AskingSparesDistinct DEF Asks
<1>7. Locks(a)' => Locks(a) /\ ~Lapsed(a) /\ LockEnds(a)' = LockEnds(a)
  BY <1>6 DEF KeepsFailures, KeepsFailure, Locks, LockEnds
<1>8. Locks(a) /\ ~Lapsed(a) => Locks(a)' /\ LockEnds(a)' = LockEnds(a)
  BY <1>6 DEF KeepsFailures, KeepsFailure, Locks, LockEnds
<1>9. a \in DOMAIN distinct /\ BlockOn(a) => a \in DOMAIN distinct' /\ distinct'[a].until = distinct[a].until
  BY <1>6 DEF KeepsDistinct, KeepsBlock
<1>10. a \in DOMAIN distinct' =>
          distinct'[a].until = Never \/ (a \in DOMAIN distinct /\ BlockOn(a) /\ distinct'[a].until = distinct[a].until)
  BY <1>6, <1>9 DEF KeepsDistinct, KeepsBlock
<1>11. a \in DOMAIN distinct => distinct[a].until \in Int
  BY DistinctIsTyped
<1>12. due = clock + most
  BY <1>1
<1>13. most = lock => Locks(a)' /\ LockEnds(a)' = due
  BY <1>2, <1>4, <1>5, <1>8, <1>12
<1>14. most = dist => a \in DOMAIN distinct' /\ distinct'[a].until = due
  BY <1>2, <1>4, <1>5, <1>9, <1>11, <1>12
<1>15. Locks(a)' => LockEnds(a)' <= due
  BY <1>2, <1>3, <1>4, <1>5, <1>7, <1>12
<1>16. a \in DOMAIN distinct' => distinct'[a].until <= due
  BY <1>2, <1>3, <1>4, <1>5, <1>10, <1>11, <1>12
<1>17. PromiseKept(a, due)'
  BY <1>3, <1>13, <1>14, <1>15, <1>16 DEF PromiseKept
<1>18. QED
  BY <1>5, <1>12, <1>17

(* The failures the limiter counts are those of a whole window. *)
LEMMA LockIsEarned ==
    ASSUME BudgetTypes, GoesOn, clock' = clock, NEW r \in Requests, NEW a \in Addresses, a = Address(r),
           CountOK(a), LockoutLeft(a) # Never, lockedAt'[r] = clock
    PROVE  LockOK(r)'
<1>1. Locks(a) /\ ~Lapsed(a)
  BY BlocksAreRecords
<1>2. PICK n, from, at : n = failures[a].count /\ from = failures[a].firstAt /\ at = clock
  OBVIOUS
<1>3. n \in Nat /\ from \in 0..at /\ at \in Nat /\ Window \in Nat /\ MaxFails \in Nat /\ n >= MaxFails
  BY <1>1, <1>2, FailureIsTyped, Settings DEF Locks
<1>4. n <= Cardinality(FailedIn(a, from, at))
  BY <1>1, <1>2 DEF CountOK, Locks
<1>5. PICK earlier : earlier = at - Window
  OBVIOUS
<1>6. earlier \in Int /\ earlier <= from /\ from \in Int /\ at \in Int
  BY <1>1, <1>2, <1>3, <1>5 DEF Lapsed
<1>7. /\ Cardinality(FailedIn(a, from, at)) <= Cardinality(FailedIn(a, earlier, at)')
      /\ Cardinality(FailedIn(a, from, at)) \in Nat /\ Cardinality(FailedIn(a, earlier, at)') \in Nat
  BY <1>6, FailuresAddUp
<1>8. Cardinality(FailedIn(a, earlier, at)') >= MaxFails
  BY <1>3, <1>4, <1>7
<1>9. a = Address(r)' /\ lockedAt'[r] = at
  BY <1>2 DEF GoesOn, Address
<1>10. FailedIn(a, earlier, at)' = FailedIn(Address(r), lockedAt[r] - Window, lockedAt[r])'
  BY <1>5, <1>9 DEF FailedIn
<1>11. QED
  BY <1>8, <1>10 DEF LockOK

LEMMA AskingKeepsInv ==
    ASSUME BudgetInv, GuardInv, [GuardedNext]_allVars, NEW r \in Requests, Asks(r)
    PROVE  BudgetInv'
<1>1. /\ BudgetTypes /\ (\A k \in Addresses : CountOK(k) /\ HeardOK(k))
      /\ \A q \in Requests : FailedOnce(q) /\ LockOK(q) /\ PromiseOK(q)
  BY DEF BudgetInv
<1>2. PICK a : a = Address(r)
  OBVIOUS
<1>3. a \in Addresses /\ clock \in Nat
  BY <1>1, <1>2, RequestIsOfAddress, Settings DEF BudgetTypes
<1>4. asked' = asked /\ clock' = clock /\ failedAt' = failedAt /\ GoesOn
  BY <1>3 DEF Asks, GoesOn
<1>5. KeepsFailures(failures') /\ KeepsDistinct(distinct')
  BY <1>1, <1>2, AskingSparesFailures, AskingSparesDistinct DEF Asks
<1>6. PICK due : due = clock + LongestBlock(a)
  OBVIOUS
<1>7. /\ promise' = promise \/ (Blocked(a) /\ promise' = [promise EXCEPT ![r] = due])
      /\ lockedAt' = lockedAt \/ (LockoutLeft(a) # Never /\ lockedAt' = [lockedAt EXCEPT ![r] = clock])
      /\ heard' = [heard EXCEPT ![a] = IF DistinctLeft(a) # Never THEN clock ELSE @]
  BY <1>2, <1>6 DEF Asks
<1>8. Blocked(a) => due \in Nat /\ PromiseKept(a, due)'
  BY <1>1, <1>2, <1>3, <1>4, <1>6, PromiseIsMade
<1>9. BudgetTypes'
  <2>1. FailureRecords(failures, clock)' /\ DistinctRecords(distinct, clock)'
    BY <1>4, <1>5 DEF KeepsFailures, KeepsDistinct, FailureRecords, DistinctRecords, DistinctRecord, Tracked
  <2>2. clock \in Instants /\ Instants' = Instants
    BY <1>3, <1>4 DEF Instants
  <2>3. promise' \in [Requests -> Nat \cup {Never}]
    BY <1>1, <1>7, <1>8 DEF BudgetTypes
  <2>4. lockedAt' \in [Requests -> Instants] /\ failedAt' \in [Requests -> Instants]
    BY <1>1, <1>4, <1>7, <2>2 DEF BudgetTypes
  <2>5. heard' \in [Addresses -> Instants]
    BY <1>1, <1>7, <2>2 DEF BudgetTypes
  <2>6. QED
    BY <1>1, <1>4, <2>1, <2>2, <2>3, <2>4, <2>5 DEF BudgetTypes
<1>10. ASSUME NEW k \in Addresses PROVE CountOK(k)'
  BY <1>1, <1>4, <1>5, CountStays DEF KeepsFailures
<1>11. ASSUME NEW k \in Addresses PROVE HeardOK(k)'
  <2>1. SUFFICES ASSUME k \in DOMAIN distinct'
                 PROVE  heard'[k] = distinct'[k].seenAt
    BY DEF HeardOK
  <2>2. k \in DOMAIN distinct /\ distinct'[k].seenAt = IF k = a /\ BlockOn(a) THEN clock ELSE distinct[k].seenAt
    BY <1>1, <1>2, <2>1, AskingSparesDistinct DEF Asks
  <2>3. DistinctLeft(a) # Never <=> a \in DOMAIN distinct /\ BlockOn(a)
    BY <1>1, <1>3, BlocksAreRecords
  <2>4. heard[k] = distinct[k].seenAt
    BY <1>1, <2>2 DEF HeardOK
  <2>5. heard'[k] = IF k = a /\ DistinctLeft(a) # Never THEN clock ELSE heard[k]
    BY <1>1, <1>7 DEF BudgetTypes
  <2>6. QED
    BY <2>2, <2>3, <2>4, <2>5
<1>12. ASSUME NEW q \in Requests PROVE FailedOnce(q)' /\ LockOK(q)' /\ PromiseOK(q)'
  <2>1. FailedOnce(q)'
    BY <1>1, <1>4, FailedOnceStays
  <2>2. LockOK(q)'
    <3>1. CASE lockedAt'[q] = lockedAt[q]
      BY <1>1, <1>4, <3>1, LockStays
    <3>2. CASE lockedAt'[q] # lockedAt[q]
      <4>1. q = r /\ LockoutLeft(a) # Never /\ lockedAt'[r] = clock
        BY <1>1, <1>7, <3>2 DEF BudgetTypes
      <4>2. QED
        BY <1>1, <1>2, <1>3, <1>4, <4>1, LockIsEarned
    <3>3. QED
      BY <3>1, <3>2
  <2>3. PromiseOK(q)'
    <3>1. CASE promise'[q] = promise[q]
      BY <1>1, <1>4, <1>5, <3>1, PromiseStays DEF KeepsFailures, KeepsDistinct
    <3>2. CASE promise'[q] # promise[q]
      <4>1. q = r /\ Blocked(a) /\ promise'[r] = due
        BY <1>1, <1>7, <3>2 DEF BudgetTypes
      <4>2. PromiseKept(a, due)' /\ a = Address(q)'
        BY <1>2, <1>4, <1>8, <4>1 DEF Address
      <4>3. QED
        BY <4>1, <4>2 DEF PromiseOK, PromiseKept, Locks, LockEnds
    <3>3. QED
      BY <3>1, <3>2
  <2>4. QED
    BY <2>1, <2>2, <2>3
<1>13. QED
  BY <1>9, <1>10, <1>11, <1>12 DEF BudgetInv

(* A failure is charged: what its address was promised no longer stands. *)
LEMMA FailingKeepsInv ==
    ASSUME BudgetInv, GuardInv, [GuardedNext]_allVars, NEW r \in Requests, ChargeFailure(r)
    PROVE  BudgetInv'
<1>1. /\ BudgetTypes /\ (\A k \in Addresses : CountOK(k) /\ HeardOK(k))
      /\ \A q \in Requests : FailedOnce(q) /\ LockOK(q) /\ PromiseOK(q)
  BY DEF BudgetInv
<1>2. PICK a : a = Address(r)
  OBVIOUS
<1>3. a \in Addresses /\ clock \in Nat /\ \A q \in Requests : Address(q) \in Addresses
  BY <1>1, <1>2, RequestIsOfAddress, Settings DEF BudgetTypes
<1>4. /\ failures' = IF Counts(a) THEN Recorded(a) ELSE FailuresWithRoom(a)
      /\ failedAt' = [failedAt EXCEPT ![r] = IF Counts(a) THEN clock ELSE @]
      /\ promise' = [q \in Requests |-> IF Address(q) = a THEN Never ELSE promise[q]]
      /\ asked' = asked /\ clock' = clock /\ distinct' = distinct /\ lockedAt' = lockedAt /\ heard' = heard
      /\ door[r] = "failing" /\ door' = [door EXCEPT ![r] = "charging"]
  BY <1>2 DEF ChargeFailure, Voided, At
<1>5. failedAt \in [Requests -> Instants] /\ failedAt[r] = Never
  BY <1>1, <1>4 DEF BudgetTypes, FailedOnce
<1>6. GoesOn
  BY <1>3, <1>4, <1>5 DEF GoesOn
<1>7. /\ FailureRecords(failures', clock)
      /\ \A k : k # a \/ ~Counts(a) => KeepsFailure(failures', k)
  BY <1>1, <1>3, <1>4, FailureIsCounted, UncountedFailure DEF KeepsFailures
<1>8. KeepsDistinct(distinct')
  BY <1>1, <1>4, SameDistinct
<1>9. BudgetTypes'
  <2>1. FailureRecords(failures, clock)' /\ DistinctRecords(distinct, clock)'
    BY <1>4, <1>7, <1>8 DEF KeepsDistinct, FailureRecords, DistinctRecords, DistinctRecord, Tracked
  <2>2. clock \in Instants /\ Instants' = Instants
    BY <1>3, <1>4 DEF Instants
  <2>3. promise' \in [Requests -> Nat \cup {Never}]
    BY <1>1, <1>4 DEF BudgetTypes
  <2>4. failedAt' \in [Requests -> Instants]
    BY <1>4, <1>5, <2>2
  <2>5. QED
    BY <1>1, <1>4, <2>1, <2>2, <2>3, <2>4 DEF BudgetTypes
<1>10. ASSUME NEW k \in Addresses PROVE CountOK(k)'
  <2>1. CASE k # a \/ ~Counts(a)
    BY <1>1, <1>6, <1>7, <2>1, CountStays
  <2>2. CASE k = a /\ Counts(a)
    <3>1. PICK n, from, now : n = failures'[a].count /\ from = failures'[a].firstAt /\ now = clock
      OBVIOUS
    <3>2. failedAt'[r] = now /\ now \in Nat /\ now # Never /\ Never \in Int
      BY <1>3, <1>4, <1>5, <2>2, <3>1, Settings
    <3>3. FailedIn(a, failures[a].firstAt, clock)' = FailedIn(a, from, now)'
      BY <1>4, <3>1 DEF FailedIn
    <3>4. \/ n = 1 /\ from = now
          \/ a \in DOMAIN failures /\ n = failures[a].count + 1 /\ from = failures[a].firstAt
      BY <1>1, <1>3, <1>4, <2>2, <3>1, FailureIsCounted
    <3>5. from \in Int /\ from <= now
      BY <1>1, <3>1, <3>2, <3>4, FailureIsTyped
    <3>6. r \in FailedIn(a, from, now)' /\ r \notin FailedIn(a, from, now)
      <4>1. a = Address(r)'
        BY <1>2, <1>4 DEF Address
      <4>2. QED
        BY <1>5, <3>2, <3>5, <4>1 DEF FailedIn
    <3>7. PICK S, T : S = FailedIn(a, from, now) /\ T = FailedIn(a, from, now)'
      OBVIOUS
    <3>8. /\ S \subseteq T /\ IsFiniteSet(S) /\ IsFiniteSet(T)
          /\ Cardinality(S) \in Nat /\ Cardinality(T) \in Nat
      BY <1>6, <3>2, <3>5, <3>7, FailuresAddUp
    <3>9. Cardinality(S \cup {r}) = Cardinality(S) + 1 /\ Cardinality(S \cup {r}) <= Cardinality(T)
      <4>1. r \notin S /\ S \cup {r} \subseteq T
        BY <3>6, <3>7, <3>8
      <4>2. QED
        BY <3>8, <4>1, FS_AddElement, FS_Subset
    <3>10. n <= Cardinality(T)
      <4>1. CASE n = 1 /\ from = now
        BY <3>8, <3>9, <4>1
      <4>2. CASE a \in DOMAIN failures /\ n = failures[a].count + 1 /\ from = failures[a].firstAt
        <5>1. failures[a].count <= Cardinality(S) /\ failures[a].count \in Nat
          BY <1>1, <1>3, <3>1, <3>7, <4>2, FailureIsTyped DEF CountOK
        <5>2. QED
          BY <3>8, <3>9, <4>2, <5>1
      <4>3. QED
        BY <3>4, <4>1, <4>2
    <3>11. QED
      BY <2>2, <3>1, <3>3, <3>7, <3>10 DEF CountOK
  <2>3. QED
    BY <2>1, <2>2
<1>11. ASSUME NEW k \in Addresses PROVE HeardOK(k)'
  BY <1>1, <1>4 DEF HeardOK
<1>12. ASSUME NEW q \in Requests PROVE FailedOnce(q)' /\ LockOK(q)' /\ PromiseOK(q)'
  <2>1. failedAt'[q] = failedAt[q] \/ door'[q] \in Leaving
    <3>1. door \in [Requests -> Doors]
      BY DEF GuardInv, GuardTypes
    <3>2. QED
      BY <1>4, <1>5, <3>1 DEF Leaving
  <2>2. FailedOnce(q)'
    BY <1>1, <2>1, FailedOnceStays
  <2>3. LockOK(q)'
    BY <1>1, <1>4, <1>6, LockStays
  <2>4. PromiseOK(q)'
    <3>1. CASE Address(q) = a
      <4>1. promise'[q] = Never
        BY <1>4, <3>1
      <4>2. QED
        BY <4>1, NothingPromised
    <3>2. CASE Address(q) # a
      <4>1. promise'[q] = promise[q]
        BY <1>4, <3>2
      <4>2. KeepsFailure(failures', Address(q)) /\ KeepsBlock(distinct', Address(q))
        BY <1>7, <1>8, <3>2 DEF KeepsDistinct
      <4>3. QED
        BY <1>1, <1>6, <4>1, <4>2, PromiseStays
    <3>3. QED
      BY <3>1, <3>2
  <2>5. QED
    BY <2>2, <2>3, <2>4
<1>13. QED
  BY <1>9, <1>10, <1>11, <1>12 DEF BudgetInv

LEMMA SameFailures ==
    ASSUME BudgetTypes
    PROVE  KeepsFailures(failures)
BY DEF BudgetTypes, KeepsFailures, KeepsFailure

LEMMA ChargingKeepsInv ==
    ASSUME BudgetInv, GuardInv, [GuardedNext]_allVars, NEW r \in Requests, ChargeDistinct(r)
    PROVE  BudgetInv'
<1>1. /\ BudgetTypes /\ (\A k \in Addresses : CountOK(k) /\ HeardOK(k))
      /\ \A q \in Requests : FailedOnce(q) /\ LockOK(q) /\ PromiseOK(q)
  BY DEF BudgetInv
<1>2. PICK a, t : a = Address(r) /\ t = Token(r)
  OBVIOUS
<1>3. a \in Addresses /\ clock \in Nat /\ (t = NoToken \/ t \in Tokens)
  BY <1>1, <1>2, RequestIsOfAddress, Settings DEF BudgetTypes
<1>4. /\ \/ t = NoToken /\ distinct' = distinct /\ heard' = heard
         \/ t # NoToken /\ distinct' = Charged(a, t) /\ heard' = [heard EXCEPT ![a] = clock]
      /\ promise' = [q \in Requests |-> IF Address(q) = a THEN Never ELSE promise[q]]
      /\ asked' = asked /\ clock' = clock /\ failures' = failures /\ lockedAt' = lockedAt
      /\ failedAt' = failedAt
  BY <1>2 DEF ChargeDistinct, Voided
<1>5. GoesOn
  BY <1>3, <1>4 DEF GoesOn
<1>6. KeepsFailures(failures')
  BY <1>1, <1>4, SameFailures
<1>7. /\ DistinctRecords(distinct', clock) /\ (\A k : k # a => KeepsBlock(distinct', k))
      /\ \A k \in Addresses \cap DOMAIN distinct' : heard'[k] = distinct'[k].seenAt
  <2>1. CASE t = NoToken /\ distinct' = distinct /\ heard' = heard
    BY <1>1, <2>1, SameDistinct DEF KeepsDistinct, HeardOK
  <2>2. CASE t # NoToken /\ distinct' = Charged(a, t) /\ heard' = [heard EXCEPT ![a] = clock]
    <3>1. /\ DistinctRecords(distinct', clock) /\ (\A k : k # a => KeepsBlock(distinct', k))
          /\ \A k \in DOMAIN distinct' : distinct'[k].seenAt = IF k = a THEN clock ELSE distinct[k].seenAt
      BY <1>1, <1>3, <2>2, ChargeIsCounted
    <3>2. ASSUME NEW k \in Addresses, k \in DOMAIN distinct'
          PROVE  heard'[k] = distinct'[k].seenAt
      <4>1. heard'[k] = IF k = a THEN clock ELSE heard[k]
        BY <1>1, <2>2 DEF BudgetTypes
      <4>2. k # a => heard[k] = distinct[k].seenAt
        BY <1>1, <3>1, <3>2 DEF HeardOK, KeepsBlock
      <4>3. QED
        BY <3>1, <3>2, <4>1, <4>2
    <3>3. QED
      BY <3>1, <3>2
  <2>3. QED
    BY <1>4, <2>1, <2>2
<1>8. BudgetTypes'
  <2>1. FailureRecords(failures, clock)' /\ DistinctRecords(distinct, clock)'
    BY <1>4, <1>6, <1>7 DEF KeepsFailures, FailureRecords, DistinctRecords, DistinctRecord, Tracked
  <2>2. clock \in Instants /\ Instants' = Instants
    BY <1>3, <1>4 DEF Instants
  <2>3. promise' \in [Requests -> Nat \cup {Never}]
    BY <1>1, <1>4 DEF BudgetTypes
  <2>4. heard' \in [Addresses -> Instants]
    BY <1>1, <1>4, <2>2 DEF BudgetTypes
  <2>5. QED
    BY <1>1, <1>4, <2>1, <2>2, <2>3, <2>4 DEF BudgetTypes
<1>9. ASSUME NEW k \in Addresses PROVE CountOK(k)' /\ HeardOK(k)'
  BY <1>1, <1>5, <1>6, <1>7, CountStays DEF KeepsFailures, HeardOK
<1>10. ASSUME NEW q \in Requests PROVE FailedOnce(q)' /\ LockOK(q)' /\ PromiseOK(q)'
  <2>1. FailedOnce(q)'
    BY <1>1, <1>4, FailedOnceStays
  <2>2. LockOK(q)'
    BY <1>1, <1>4, <1>5, LockStays
  <2>3. PromiseOK(q)'
    <3>1. CASE Address(q) = a
      <4>1. promise'[q] = Never
        BY <1>4, <3>1
      <4>2. QED
        BY <4>1, NothingPromised
    <3>2. CASE Address(q) # a
      <4>1. promise'[q] = promise[q]
        BY <1>4, <3>2
      <4>2. KeepsFailure(failures', Address(q)) /\ KeepsBlock(distinct', Address(q))
        BY <1>6, <1>7, <3>2 DEF KeepsFailures
      <4>3. QED
        BY <1>1, <1>5, <4>1, <4>2, PromiseStays
    <3>3. QED
      BY <3>1, <3>2
  <2>4. QED
    BY <2>1, <2>2, <2>3
<1>11. QED
  BY <1>8, <1>9, <1>10 DEF BudgetInv

(* Where nothing is asked or charged, the records stay or are swept. *)
LEMMA LeftAloneKeepsInv ==
    ASSUME BudgetInv, GuardInv, [GuardedNext]_allVars, GoesOn, clock' \in 0..MaxClock,
           KeepsFailures(failures'), KeepsDistinct(distinct'), Kept(distinct', distinct),
           failedAt' = failedAt, lockedAt' = lockedAt, heard' = heard,
           promise' \in [Requests -> Nat \cup {Never}],
           \A q \in Requests : promise'[q] \in {promise[q], Never}
    PROVE  BudgetInv'
<1>1. /\ BudgetTypes /\ (\A k \in Addresses : CountOK(k) /\ HeardOK(k))
      /\ \A q \in Requests : FailedOnce(q) /\ LockOK(q) /\ PromiseOK(q)
  BY DEF BudgetInv
<1>2. BudgetTypes'
  <2>1. FailureRecords(failures', clock') /\ DistinctRecords(distinct', clock')
    BY RecordsAge DEF KeepsFailures, KeepsDistinct, GoesOn
  <2>2. FailureRecords(failures, clock)' /\ DistinctRecords(distinct, clock)'
    BY <2>1 DEF FailureRecords, DistinctRecords, DistinctRecord, Tracked
  <2>3. Instants \subseteq Instants'
    BY DEF Instants, GoesOn
  <2>4. asked' \in Workloads
    BY <1>1 DEF BudgetTypes, GoesOn
  <2>5. /\ failedAt' \in [Requests -> Instants'] /\ lockedAt' \in [Requests -> Instants']
        /\ heard' \in [Addresses -> Instants']
    BY <1>1, <2>3 DEF BudgetTypes
  <2>6. QED
    BY <2>2, <2>4, <2>5 DEF BudgetTypes
<1>3. ASSUME NEW k \in Addresses PROVE CountOK(k)' /\ HeardOK(k)'
  BY <1>1, CountStays DEF KeepsFailures, HeardOK, Kept
<1>4. ASSUME NEW q \in Requests PROVE FailedOnce(q)' /\ LockOK(q)' /\ PromiseOK(q)'
  BY <1>1, FailedOnceStays, LockStays, PromiseStays DEF KeepsFailures, KeepsDistinct
<1>5. QED
  BY <1>2, <1>3, <1>4 DEF BudgetInv

LEMMA SweepingKeepsInv ==
    ASSUME BudgetInv, GuardInv, [GuardedNext]_allVars, Sweeps
    PROVE  BudgetInv'
<1>1. BudgetTypes
  BY DEF BudgetInv
<1>2. GoesOn /\ clock' \in 0..MaxClock
  BY <1>1, Settings DEF Sweeps, GoesOn, BudgetTypes
<1>3. KeepsFailures(failures') /\ KeepsDistinct(distinct') /\ Kept(distinct', distinct)
  <2>1. Kept(distinct, distinct)
    BY DEF Kept
  <2>2. QED
    BY <1>1, <2>1, SweepSparesFailures, SweepSparesDistinct, SameFailures, SameDistinct DEF Sweeps
<1>4. /\ promise' \in [Requests -> Nat \cup {Never}]
      /\ \A q \in Requests : promise'[q] \in {promise[q], Never}
      /\ failedAt' = failedAt /\ lockedAt' = lockedAt /\ heard' = heard
  BY <1>1 DEF Sweeps, BudgetTypes
<1>5. QED
  BY <1>2, <1>3, <1>4, LeftAloneKeepsInv

LEMMA RestingKeepsInv ==
    ASSUME BudgetInv, GuardInv, [GuardedNext]_allVars, Rests
    PROVE  BudgetInv'
<1>1. BudgetTypes /\ clock \in 0..MaxClock /\ MaxClock \in Nat
  BY Settings DEF BudgetInv, BudgetTypes
<1>2. clock' \in 0..MaxClock /\ clock' >= clock
  BY <1>1 DEF Rests
<1>3. GoesOn
  BY <1>1, <1>2 DEF Rests, GoesOn
<1>4. KeepsFailures(failures') /\ KeepsDistinct(distinct') /\ Kept(distinct', distinct)
  BY <1>1, SameFailures, SameDistinct DEF Rests, Kept
<1>5. /\ promise' \in [Requests -> Nat \cup {Never}]
      /\ \A q \in Requests : promise'[q] \in {promise[q], Never}
      /\ failedAt' = failedAt /\ lockedAt' = lockedAt /\ heard' = heard
  BY <1>1 DEF Rests, BudgetTypes
<1>6. QED
  BY <1>2, <1>3, <1>4, <1>5, LeftAloneKeepsInv

LEMMA BudgetInvIsInductive ==
    ASSUME BudgetInv, GuardInv, [GuardedNext]_allVars
    PROVE  BudgetInv'
<1>1. BudgetStep
  BY StepsOnBudgets DEF BudgetInv
<1>2. QED
  BY <1>1, AskingKeepsInv, FailingKeepsInv, ChargingKeepsInv, SweepingKeepsInv, RestingKeepsInv
     DEF BudgetStep

LEMMA BudgetInvHoldsAtFirst ==
    ASSUME GuardedInit
    PROVE  BudgetInv
<1>1. /\ asked \in Workloads /\ clock = 0 /\ failures = <<>> /\ distinct = <<>>
      /\ promise = [r \in Requests |-> Never] /\ failedAt = [r \in Requests |-> Never]
      /\ lockedAt = [r \in Requests |-> Never] /\ heard = [a \in Addresses |-> Never]
  BY DEF GuardedInit, Init, BudgetsInit
<1>2. DOMAIN failures = {} /\ DOMAIN distinct = {}
  BY <1>1
<1>3. FailureRecords(failures, clock) /\ DistinctRecords(distinct, clock)
  BY <1>2, TheEmptyTable DEF FailureRecords, DistinctRecords
<1>4. clock \in 0..MaxClock
  BY <1>1, Settings
<1>5. BudgetTypes
  BY <1>1, <1>3, <1>4 DEF BudgetTypes, Instants
<1>6. \A a \in Addresses : CountOK(a) /\ HeardOK(a)
  BY <1>2 DEF CountOK, HeardOK
<1>7. \A r \in Requests : FailedOnce(r) /\ LockOK(r) /\ PromiseOK(r)
  BY <1>1 DEF FailedOnce, LockOK, PromiseOK, PromiseKept
<1>8. QED
  BY <1>5, <1>6, <1>7 DEF BudgetInv

LEMMA BudgetInvHolds == GuardedSpec => []BudgetInv
<1>1. BudgetInv /\ GuardInv /\ [GuardedNext]_allVars => BudgetInv'
  BY BudgetInvIsInductive
<1>2. QED
  BY <1>1, BudgetInvHoldsAtFirst, GuardInvHolds, PTL DEF GuardedSpec

-----------------------------------------------------------------------------

(* A request is refused for the failures of its address only where requests of
   the address had failed as often as it takes within the window that ended
   there, whatever swept the table, filled it or lapsed in it meanwhile
   (RecordFailure, BlockedFor).                                               *)
THEOREM NobodyIsBlockedForNothing == GuardedSpec => []BlocksAreEarned
<1>1. BudgetInv => BlocksAreEarned
  BY DEF BudgetInv, LockOK, FailedIn, BlocksAreEarned
<1>2. QED
  BY <1>1, BudgetInvHolds, PTL

(* While its address fails no more, who was told to come back is blocked until
   then and no longer, by whichever budget (longestAuthBlock).                *)
LEMMA PromisesAreHonest ==
    ASSUME BudgetInv, NEW r \in Requests, promise[r] # Never
    PROVE  /\ clock < promise[r] => Blocked(Address(r))
           /\ clock > promise[r] => ~Blocked(Address(r))
<1>1. BudgetTypes /\ PromiseOK(r)
  BY DEF BudgetInv
<1>2. PICK a, due : a = Address(r) /\ due = promise[r]
  OBVIOUS
<1>3. a \in Addresses /\ due \in Nat /\ clock \in Nat
  BY <1>1, <1>2, RequestIsOfAddress, Settings DEF BudgetTypes
<1>4. PromiseKept(a, due) /\ due # Never
  BY <1>1, <1>2 DEF PromiseOK
<1>5. /\ LockoutLeft(a) # Never <=> Locks(a) /\ ~Lapsed(a)
      /\ Locks(a) => LockEnds(a) \in Nat /\ (Lapsed(a) <=> clock > LockEnds(a))
      /\ DistinctLeft(a) # Never <=> a \in DOMAIN distinct /\ BlockOn(a)
  BY <1>1, <1>3, BlocksAreRecords
<1>6. a \in DOMAIN distinct => distinct[a].until \in Int
  BY <1>1, DistinctIsTyped
<1>7. Blocked(a) <=> (Locks(a) /\ ~Lapsed(a)) \/ (a \in DOMAIN distinct /\ clock < distinct[a].until)
  BY <1>5 DEF Blocked, BlockOn
<1>8. clock < due => Blocked(a)
  BY <1>3, <1>4, <1>5, <1>7 DEF PromiseKept
<1>9. clock > due => ~Blocked(a)
  BY <1>3, <1>4, <1>5, <1>6, <1>7 DEF PromiseKept
<1>10. QED
  BY <1>2, <1>8, <1>9

(* Retry-After is kept, at the gate and at the guard in front of it, for every
   interleaving of the budgets, their sweeps and their cleanups.              *)
THEOREM RetryAfterIsKept == GuardedSpec => []AnsweredHonestly
<1>1. BudgetInv => AnsweredHonestly
  BY PromisesAreHonest DEF AnsweredHonestly
<1>2. QED
  BY <1>1, BudgetInvHolds, PTL

(* No step takes a rung from an address but after a silence of the longest
   block, nor adds one while a block is on: not an answer, not a charge, and no
   sweep of a full table.                                                    *)
LEMMA LaddersStay ==
    ASSUME BudgetInv, BudgetStep, NEW a \in DOMAIN distinct
    PROVE  /\ (a \notin DOMAIN distinct' \/ distinct'[a].step < distinct[a].step)
                 => clock - heard[a] >= ResetAfter
           /\ a \in DOMAIN distinct' =>
                 /\ distinct'[a].step <= distinct[a].step + 1
                 /\ BlockOn(a) => /\ distinct'[a].step <= distinct[a].step
                                  /\ distinct'[a].until = distinct[a].until
<1>1. BudgetTypes
  BY DEF BudgetInv
<1>2. KeepsLadder(distinct', a)
  <2>1. ASSUME NEW r \in Requests, Asks(r) PROVE KeepsLadder(distinct', a)
    BY <1>1, <2>1, AskingSparesDistinct DEF Asks, KeepsDistinct
  <2>2. KeepsLadder(distinct, a)
    BY <1>1, SameDistinct DEF KeepsDistinct
  <2>3. ASSUME NEW r \in Requests, ChargeFailure(r) PROVE KeepsLadder(distinct', a)
    BY <2>2, <2>3 DEF ChargeFailure
  <2>4. ASSUME NEW r \in Requests, ChargeDistinct(r) PROVE KeepsLadder(distinct', a)
    <3>1. PICK b, t : b = Address(r) /\ t = Token(r)
      OBVIOUS
    <3>2. b \in Addresses /\ (t = NoToken \/ t \in Tokens)
      BY <1>1, <3>1, RequestIsOfAddress DEF BudgetTypes
    <3>3. distinct' = distinct \/ (t # NoToken /\ distinct' = Charged(b, t))
      BY <2>4, <3>1 DEF ChargeDistinct
    <3>4. QED
      BY <1>1, <2>2, <3>2, <3>3, ChargeIsCounted
  <2>5. CASE Sweeps
    BY <1>1, <2>2, <2>5, SweepSparesDistinct DEF Sweeps, KeepsDistinct
  <2>6. CASE Rests
    BY <2>2, <2>6 DEF Rests
  <2>7. QED
    BY <2>1, <2>3, <2>4, <2>5, <2>6 DEF BudgetStep
<1>3. a \in Addresses /\ heard[a] = distinct[a].seenAt
  BY DEF BudgetInv, BudgetTypes, DistinctRecords, Tracked, HeardOK
<1>4. QED
  BY <1>2, <1>3 DEF KeepsLadder, Silent

(* A burst costs one block: an address climbs a rung at a time and none while it
   is blocked, and its ladder is forgiven only after the budget has heard nothing
   of it for as long as the longest block (DistinctTokenBudget).              *)
THEOREM LaddersAreRemembered == GuardedSpec => LadderRemembers
<1>1. BudgetInv /\ [GuardedNext]_allVars =>
        [\A a \in DOMAIN distinct :
            /\ (a \notin DOMAIN distinct' \/ distinct'[a].step < distinct[a].step)
                  => clock - heard[a] >= ResetAfter
            /\ a \in DOMAIN distinct' =>
                  /\ distinct'[a].step <= distinct[a].step + 1
                  /\ BlockOn(a) => /\ distinct'[a].step <= distinct[a].step
                                   /\ distinct'[a].until = distinct[a].until]_budgetVars
  BY StepsOnBudgets, LaddersStay DEF BudgetInv
<1>2. QED
  BY <1>1, BudgetInvHolds, PTL DEF GuardedSpec, LadderRemembers

-----------------------------------------------------------------------------
(* The types of the guard, the gate and the budgets *)

(* A token GitLab may refuse: not accepted, or one that will expire. *)
Refusable == Tokens \ (Accepted \cap {t \in Tokens : DiesAt[t] = Endless})

(* Past the question whether its refusal is remembered, a request has a token. *)
Recalled == Stages \ {"asking", "blocked", "remembered?", "passed", "out"}

CarriesToken(r) ==
    /\ guard[r] \in Recalled => Token(r) \in Tokens
    /\ guard[r] = "refused" => Token(r) \in Foreign

RefusalTable(f) ==
    /\ DOMAIN f \subseteq Refusable /\ IsFiniteSet(DOMAIN f) /\ Cardinality(DOMAIN f) <= RejectedMax

(* An entry of the pool is of the token of the request that had it built. *)
PoolTypes ==
    /\ DOMAIN pooled \subseteq Tokens /\ entry \in [Requests -> Requests]
    /\ \A t \in DOMAIN pooled : pooled[t] \in Requests /\ Token(pooled[t]) = t

FrontTypes ==
    /\ second \subseteq Requests /\ PoolTypes
    /\ \A r \in Requests : CarriesToken(r)
    /\ RefusalTable(rejected)

LEMMA FewerRefusals ==
    ASSUME NEW f, RefusalTable(f), NEW K, K \subseteq DOMAIN f
    PROVE  RefusalTable(Restrict(f, K))
<1>1. DOMAIN Restrict(f, K) = K
  BY DEF Restrict
<1>2. PICK D : D = DOMAIN f
  OBVIOUS
<1>3. /\ IsFiniteSet(D) /\ Cardinality(D) <= RejectedMax
      /\ RejectedMax \in Nat /\ K \subseteq D /\ D \subseteq Refusable
  BY <1>2, GuardAssumption DEF RefusalTable
<1>4. IsFiniteSet(K) /\ Cardinality(K) <= Cardinality(D)
  BY <1>3, FS_Subset
<1>5. Cardinality(K) \in Nat /\ Cardinality(D) \in Nat
  BY <1>3, <1>4, FS_CardinalityType
<1>6. QED
  BY <1>1, <1>3, <1>4, <1>5 DEF RefusalTable

(* evictLocked always makes room for one more. *)
LEMMA EvictionsMakeRoom ==
    ASSUME RefusalTable(rejected), NEW K \in Evictions
    PROVE  K \subseteq DOMAIN rejected /\ IsFiniteSet(K) /\ Cardinality(K) < RejectedMax
<1>1. PICK D : D = DOMAIN rejected
  OBVIOUS
<1>2. PICK alive : alive = {t \in D : Remembered(t)}
  OBVIOUS
<1>3. IsFiniteSet(D) /\ Cardinality(D) <= RejectedMax /\ RejectedMax \in Nat /\ alive \subseteq D
  BY <1>1, <1>2, GuardAssumption DEF RefusalTable
<1>4. IsFiniteSet(alive) /\ Cardinality(alive) <= Cardinality(D)
  BY <1>3, FS_Subset
<1>5. Cardinality(alive) \in Nat /\ Cardinality(D) \in Nat
  BY <1>3, <1>4, FS_CardinalityType
<1>6. \/ K = D /\ Cardinality(D) < RejectedMax
      \/ K = alive /\ Cardinality(alive) < RejectedMax
      \/ \E t \in alive : K = alive \ {t}
  BY <1>1, <1>2 DEF Evictions
<1>7. CASE \E t \in alive : K = alive \ {t}
  <2>1. PICK t \in alive : K = alive \ {t}
    BY <1>7
  <2>2. IsFiniteSet(alive \ {t}) /\ Cardinality(alive \ {t}) = Cardinality(alive) - 1
    BY <1>4, FS_RemoveElement
  <2>3. QED
    BY <1>1, <1>3, <1>4, <1>5, <2>1, <2>2
<1>8. QED
  BY <1>1, <1>3, <1>4, <1>6, <1>7

LEMMA RefusalsStayTabled ==
    ASSUME RefusalTable(rejected), NEW r \in Requests, RequestOK(r), CarriesToken(r), OfGuard(r)
    PROVE  RefusalTable(rejected')
<1>1. rejected' = rejected \/ Recall(r) \/ RememberInvalid(r) \/ RememberRefused(r)
  BY DEF OfGuard, GuardAsks, Exempt, AskCache, AskCacheAtLast, AskCacheHolding, Acquire,
         AcquireLate, GiveUp, GitLabAccepts, GitLabRefuses, GitLabIsSilent, Stamp, ReadClock,
         Store, SDKChecks
<1>2. CASE rejected' = rejected
  BY <1>2
<1>3. CASE Recall(r)
  <2>1. rejected' = rejected \/ rejected' = Restrict(rejected, DOMAIN rejected \ {Token(r)})
    BY <1>3 DEF Recall
  <2>2. DOMAIN rejected \ {Token(r)} \subseteq DOMAIN rejected
    OBVIOUS
  <2>3. QED
    BY <2>1, <2>2, FewerRefusals
<1>4. ASSUME NEW from, NEW charged, Remember(r, from, charged), Token(r) \in Refusable
      PROVE  RefusalTable(rejected')
  <2>1. PICK K \in Evictions :
          rejected' = Assign(Restrict(rejected, K), Token(r),
                             [until |-> clock + RejectedTTL, charged |-> charged])
    BY <1>4 DEF Remember
  <2>2. K \subseteq DOMAIN rejected /\ IsFiniteSet(K) /\ Cardinality(K) < RejectedMax
    BY EvictionsMakeRoom
  <2>3. PICK t : t = Token(r)
    OBVIOUS
  <2>4. DOMAIN rejected' = K \cup {t}
    BY <2>1, <2>3 DEF Assign, Restrict
  <2>5. Cardinality(K) \in Nat /\ RejectedMax \in Nat
    BY <2>2, FS_CardinalityType, GuardAssumption
  <2>6. IsFiniteSet(K \cup {t}) /\ Cardinality(K \cup {t}) <= RejectedMax
    <3>1. CASE t \in K
      <4>1. K \cup {t} = K
        BY <3>1
      <4>2. QED
        BY <2>2, <2>5, <4>1
    <3>2. CASE t \notin K
      <4>1. IsFiniteSet(K \cup {t}) /\ Cardinality(K \cup {t}) = Cardinality(K) + 1
        BY <2>2, <3>2, FS_AddElement
      <4>2. QED
        BY <2>2, <2>5, <4>1
    <3>3. QED
      BY <3>1, <3>2
  <2>7. QED
    BY <1>4, <2>2, <2>3, <2>4, <2>6 DEF RefusalTable
<1>5. CASE RememberInvalid(r)
  <2>1. guard[r] = "invalid"
    BY <1>5 DEF RememberInvalid, Remember, Moves
  <2>2. Bad(Token(r)) /\ Token(r) \in Tokens
    BY <2>1 DEF RequestOK, CarriesToken, Recalled, Stages
  <2>3. Token(r) \in Refusable
    BY <2>2 DEF Bad, Dead, Refusable
  <2>4. QED
    BY <1>4, <1>5, <2>3 DEF RememberInvalid
<1>6. CASE RememberRefused(r)
  <2>1. guard[r] = "refused"
    BY <1>6 DEF RememberRefused, Remember, Moves
  <2>2. Token(r) \in Refusable
    BY <2>1, GuardAssumption DEF CarriesToken, Refusable
  <2>3. QED
    BY <1>4, <1>6, <2>2 DEF RememberRefused
<1>7. QED
  BY <1>1, <1>2, <1>3, <1>5, <1>6

(* The request that moves keeps its token. *)
LEMMA MoverCarriesToken ==
    ASSUME GuardTypes, NEW r \in Requests, CarriesToken(r), OfGuard(r)
    PROVE  CarriesToken(r)'
<1>1. Token(r)' = Token(r) /\ Token(r) \in Tokens \cup {NoToken} /\ guard \in [Requests -> Stages]
  BY GuardFrame, TokensAreKnown DEF GuardTypes, Token
<1>2. CASE GuardAsks(r) \/ Exempt(r)
  BY <1>1, <1>2 DEF GuardAsks, Exempt, Moves, CarriesToken, Recalled
<1>3. CASE Recall(r)
  BY <1>1, <1>3 DEF Recall, Anonymous, Moves, CarriesToken, Recalled
<1>4. CASE GitLabRefuses(r)
  <2>1. guard[r] \in Recalled
    BY <1>4 DEF GitLabRefuses, Recalled, Stages
  <2>2. Token(r) \in Tokens
    BY <2>1 DEF CarriesToken
  <2>3. guard'[r] = "refused" => Token(r) \in Foreign
    BY <1>1, <1>4 DEF GitLabRefuses, Unverified
  <2>4. QED
    BY <1>1, <2>2, <2>3 DEF CarriesToken
<1>5. ASSUME guard[r] \in Recalled, guard'[r] # "refused" PROVE CarriesToken(r)'
  BY <1>1, <1>5 DEF CarriesToken
<1>6. CASE AskCache(r) \/ AskCacheAtLast(r) \/ AskCacheHolding(r) \/ Store(r)
  <2>1. guard[r] \in Recalled
    BY <1>6 DEF AskCache, AskCacheAtLast, AskCacheHolding, Store, Recalled, Stages
  <2>2. guard'[r] # "refused"
    BY <1>1, <1>6 DEF AskCache, AskCacheAtLast, AskCacheHolding, Store, Verified, Unverified
  <2>3. QED
    BY <1>5, <2>1, <2>2
<1>7. CASE Acquire(r) \/ AcquireLate(r) \/ GiveUp(r) \/ GitLabAccepts(r) \/ GitLabIsSilent(r) \/ Stamp(r) \/ ReadClock(r)
  <2>1. guard[r] \in Recalled
    BY <1>7 DEF Acquire, AcquireLate, GiveUp, GitLabAccepts, GitLabIsSilent, Stamp, ReadClock, Moves,
                Recalled, Stages
  <2>2. guard'[r] # "refused"
    BY <1>1, <1>7 DEF Acquire, AcquireLate, GiveUp, GitLabAccepts, GitLabIsSilent, Stamp, ReadClock, Moves,
                      Unverified
  <2>3. QED
    BY <1>5, <2>1, <2>2
<1>8. CASE RememberInvalid(r) \/ RememberRefused(r) \/ SDKChecks(r)
  <2>1. guard'[r] \notin Recalled
    BY <1>1, <1>8 DEF RememberInvalid, RememberRefused, Remember, SDKChecks, Moves, Recalled
  <2>2. guard'[r] # "refused"
    BY <2>1 DEF Recalled, Stages
  <2>3. QED
    BY <2>1, <2>2 DEF CarriesToken
<1>9. QED
  BY <1>2, <1>3, <1>4, <1>6, <1>7, <1>8 DEF OfGuard

LEMMA GuardKeepsFront ==
    ASSUME GuardInv, FrontTypes, NEW r \in Requests, InFront(r), OfGuard(r)
    PROVE  FrontTypes'
<1>1. GuardTypes /\ RequestOK(r) /\ asked' = asked
  BY GuardFrame DEF GuardInv
<1>2. second' \subseteq Requests
  BY DEF FrontTypes, OfGuard, GuardAsks, Exempt, Recall, AskCache, AskCacheAtLast, AskCacheHolding,
         Acquire, AcquireLate, GiveUp, GitLabAccepts, GitLabRefuses, GitLabIsSilent, Stamp, ReadClock,
         Store, RememberInvalid, RememberRefused, Remember, SDKChecks, Verified, Unverified
<1>3. PoolTypes'
  BY <1>1, GuardFrame DEF FrontTypes, PoolTypes, Token
<1>4. PICK g, d, i : Sent(r, g, d, i)
  BY EveryStepSettles DEF Settles, Settled
<1>5. ASSUME NEW q \in Requests PROVE CarriesToken(q)'
  <2>1. CASE q = r
    BY <1>1, <2>1, MoverCarriesToken DEF FrontTypes
  <2>2. CASE q # r
    <3>1. guard'[q] = guard[q]
      BY <1>1, <1>4, <2>2, SentArrives
    <3>2. QED
      BY <1>1, <3>1 DEF FrontTypes, CarriesToken, Token
  <2>3. QED
    BY <2>1, <2>2
<1>6. RefusalTable(rejected')
  BY <1>1, RefusalsStayTabled DEF FrontTypes
<1>7. RefusalTable(rejected)'
  BY <1>6 DEF RefusalTable
<1>8. QED
  BY <1>2, <1>3, <1>5, <1>7 DEF FrontTypes

(* The pool builds an entry for the token it was asked about. *)
LEMMA PoolStaysTyped ==
    ASSUME GuardTypes, PoolTypes, BudgetsNext
    PROVE  PoolTypes'
<1>1. asked' = asked /\ \A r \in Requests : Token(r)' = Token(r)
  BY BudgetsKeepAsked DEF Token
<1>2. ASSUME NEW r \in Requests, Admit(r) PROVE PoolTypes'
  <2>1. PICK t : t = Token(r)
    OBVIOUS
  <2>2. t \in Tokens
    BY <1>2, <2>1, TokensAreKnown DEF Admit
  <2>3. /\ pooled' = IF t \in DOMAIN pooled THEN pooled ELSE Assign(pooled, t, r)
        /\ entry' = [entry EXCEPT ![r] = pooled'[t]]
    BY <1>2, <2>1 DEF Admit
  <2>4. /\ DOMAIN pooled' = DOMAIN pooled \cup {t}
        /\ \A u \in DOMAIN pooled' : pooled'[u] = IF u \in DOMAIN pooled THEN pooled[u] ELSE r
    BY <2>3 DEF Assign
  <2>5. \A u \in DOMAIN pooled' : pooled'[u] \in Requests /\ Token(pooled'[u]) = u
    BY <2>1, <2>4 DEF PoolTypes
  <2>6. DOMAIN pooled' \subseteq Tokens /\ entry' \in [Requests -> Requests]
    BY <2>2, <2>3, <2>4, <2>5 DEF PoolTypes
  <2>7. QED
    BY <1>1, <2>5, <2>6 DEF PoolTypes, Token
<1>3. ASSUME NEW t \in Tokens, Forget(t) PROVE PoolTypes'
  <2>1. entry' = entry /\ pooled' = Restrict(pooled, DOMAIN pooled \ {t})
    BY <1>3 DEF Forget
  <2>2. /\ DOMAIN pooled' = DOMAIN pooled \ {t}
        /\ \A u \in DOMAIN pooled' : pooled'[u] = pooled[u]
    BY <2>1 DEF Restrict
  <2>3. QED
    BY <1>1, <2>1, <2>2 DEF PoolTypes, Token
<1>4. CASE UNCHANGED <<pooled, entry>>
  BY <1>1, <1>4 DEF PoolTypes, Token
<1>5. QED
  BY <1>2, <1>3, <1>4 DEF BudgetsNext, AskBudgets, Reject, TurnAway, ChargeFailure,
     ChargeDistinct, CleanupFailures, CleanupDistinct, Tick, pool

LEMMA FrontTypesAreInductive ==
    ASSUME GuardInv, FrontTypes, [GuardedNext]_allVars
    PROVE  FrontTypes'
<1>1. ASSUME NEW r \in Requests, InFront(r), OfGuard(r) PROVE FrontTypes'
  BY <1>1, GuardKeepsFront
<1>2. ASSUME guard' = guard, second' = second, asked' = asked, PoolTypes', RefusalTable(rejected)'
      PROVE  FrontTypes'
  BY <1>2 DEF FrontTypes, CarriesToken, Token
<1>3. CASE CleanupCache \/ GuardTick \/ UNCHANGED allVars
  <2>1. UNCHANGED <<guard, second, asked, pooled, entry, rejected>>
    BY <1>3 DEF CleanupCache, GuardTick, allVars, guardVars, vars, budgetVars, pool
  <2>2. PoolTypes'
    BY <2>1 DEF FrontTypes, PoolTypes, Token
  <2>3. QED
    BY <1>2, <2>1, <2>2 DEF FrontTypes, RefusalTable
<1>4. CASE CleanupRejected
  <2>1. /\ UNCHANGED <<guard, second, asked, pooled, entry>>
        /\ rejected' = Restrict(rejected, {t \in DOMAIN rejected : Remembered(t)})
    BY <1>4 DEF CleanupRejected, vars, budgetVars, pool
  <2>2. RefusalTable(rejected')
    BY <2>1, FewerRefusals DEF FrontTypes
  <2>3. PoolTypes'
    BY <2>1 DEF FrontTypes, PoolTypes, Token
  <2>4. QED
    BY <1>2, <2>1, <2>2, <2>3 DEF FrontTypes, RefusalTable
<1>5. CASE GateNext
  <2>1. /\ guard' = guard /\ second' = second /\ rejected' = rejected /\ asked' = asked
    BY <1>5, BudgetsKeepAsked DEF GateNext, Next, guardVars, budgetVars
  <2>2. PoolTypes'
    <3>1. CASE UNCHANGED budgetVars
      <4>1. UNCHANGED <<asked, pooled, entry>>
        BY <3>1 DEF budgetVars, pool
      <4>2. QED
        BY <4>1 DEF FrontTypes, PoolTypes, Token
    <3>2. CASE BudgetsNext
      BY <3>2, PoolStaysTyped DEF FrontTypes, GuardInv
    <3>3. QED
      BY <1>5, <3>1, <3>2 DEF GateNext, Next
  <2>3. QED
    BY <1>2, <2>1, <2>2 DEF FrontTypes, RefusalTable
<1>6. QED
  BY <1>1, <1>3, <1>4, <1>5 DEF GuardedNext, GuardNext, OfGuard

LEMMA FrontTypesHoldAtFirst == GuardedInit => FrontTypes
<1> SUFFICES ASSUME GuardedInit PROVE FrontTypes
  OBVIOUS
<1>1. /\ second = {} /\ rejected = <<>> /\ pooled = <<>> /\ entry = [r \in Requests |-> r]
      /\ guard = [r \in Requests |-> IF asked \notin Guarded THEN "passed"
                                    ELSE IF Kind(r) = "past" THEN "out" ELSE "asking"]
  BY DEF GuardedInit, Init, BudgetsInit, GuardInit
<1>2. \A r \in Requests : CarriesToken(r)
  BY <1>1 DEF CarriesToken, Recalled
<1>3. DOMAIN rejected = {}
  BY <1>1
<1>4. IsFiniteSet({}) /\ Cardinality({}) = 0 /\ RejectedMax \in Nat
  BY FS_EmptySet, GuardAssumption
<1>5. RefusalTable(rejected)
  BY <1>3, <1>4 DEF RefusalTable
<1>6. PoolTypes
  BY <1>1 DEF PoolTypes
<1>7. QED
  BY <1>1, <1>2, <1>5, <1>6 DEF FrontTypes

LEMMA FrontTypesHold == GuardedSpec => []FrontTypes
<1>1. GuardInv /\ FrontTypes /\ [GuardedNext]_allVars => FrontTypes'
  BY FrontTypesAreInductive
<1>2. QED
  BY <1>1, FrontTypesHoldAtFirst, GuardInvHolds, PTL DEF GuardedSpec

LEMMA TypesTogether ==
    ASSUME SlotInv, GuardInv, CacheInv, BudgetInv, FrontTypes
    PROVE  GuardTypeOK
<1>1. BudgetsTypeOK
  <2>1. /\ clock \in 0..MaxClock
        /\ DOMAIN failures \subseteq Addresses /\ DOMAIN distinct \subseteq Addresses
        /\ Cardinality(DOMAIN failures) <= MaxTracked
        /\ Cardinality(DOMAIN distinct) <= MaxTracked
        /\ \A a \in DOMAIN failures : failures[a] \in [count : Nat \ {0}, firstAt : 0..clock]
    BY DEF BudgetInv, BudgetTypes, FailureRecords, DistinctRecords, Tracked
  <2>2. \A a \in DOMAIN distinct :
          /\ Cardinality(distinct[a].digests) < DistinctLimit
          /\ distinct[a].step \in 0..Len(Ladder)
          /\ distinct[a].windowAt \in 0..clock /\ distinct[a].seenAt \in 0..clock
    BY DEF BudgetInv, BudgetTypes, DistinctRecords, DistinctRecord
  <2>3. /\ PoolTypes
        /\ door \in [Requests -> {"arriving", "passed", "failing", "charging", "admitted", "refused"}]
    BY DEF FrontTypes, GuardInv, GuardTypes, Doors
  <2>4. QED
    BY <2>1, <2>2, <2>3 DEF BudgetsTypeOK, PoolTypes
<1>2. TypeOK
  BY <1>1 DEF TypeOK, SlotInv, SlotTypes
<1>3. guard \in [Requests -> Stages] /\ second \subseteq Requests
  BY DEF GuardInv, GuardTypes, FrontTypes
<1>4. \A r \in Requests : identity[r] = NoIdentity \/ identity[r].since < identity[r].dies
  BY DEF CacheInv, ReadOK, Alive
<1>5. reading \in [Requests -> (0..MaxClock) \cup {Never}]
  <2>1. \A r \in Requests : reading[r] \in (0..clock) \cup {Never}
    BY DEF CacheInv, ReadOK
  <2>2. clock \in 0..MaxClock /\ MaxClock \in Nat /\ reading \in [Requests -> Int]
    BY BudgetsAssumption DEF CacheInv
  <2>3. \A r \in Requests : reading[r] \in (0..MaxClock) \cup {Never}
    BY <2>1, <2>2
  <2>4. QED
    BY <2>2, <2>3
<1>6. Cache!Held(cache) \subseteq Accepted
  BY DEF CacheInv
<1>7. /\ DOMAIN rejected \subseteq Tokens \ (Accepted \cap {t \in Tokens : DiesAt[t] = Endless})
      /\ Cardinality(DOMAIN rejected) <= RejectedMax
  BY DEF FrontTypes, RefusalTable, Refusable
<1>8. verifying \in 0..VerifySlots
  BY GuardAssumption DEF GuardInv, GuardTypes, VerificationsAreCounted
<1>9. QED
  BY <1>1, <1>2, <1>3, <1>4, <1>5, <1>6, <1>7, <1>8 DEF GuardTypeOK

(* Every variable of the guard, the gate and the budgets keeps its type; the
   tables and the cache keep to their capacities, and no refusal is remembered
   of a token that GitLab accepts for good (RejectedTokens, roomForNewKeyLocked). *)
THEOREM TypesBehindGuard == GuardedSpec => []GuardTypeOK
<1>1. SlotInv /\ GuardInv /\ CacheInv /\ BudgetInv /\ FrontTypes => GuardTypeOK
  BY TypesTogether
<1>2. QED
  BY <1>1, SlotInvBehindGuard, GuardInvHolds, CacheInvHolds, BudgetInvHolds, FrontTypesHold, PTL
===============================================================================
