------------------------------ MODULE TokenCache ------------------------------
(***************************************************************************)
(* The verified identities of an oauth deployment, internal/oauth: what     *)
(* each method of TokenCache makes of the cache while it holds the lock.    *)
(* A cache is a record: the entries, a function of the tokens held; their   *)
(* recency, the list as an order: which is nearer its front, or used more   *)
(* recently, than which; and soonest, before which nothing held can have    *)
(* expired, so that a full cache of live identities is not walked on every  *)
(* insert.  A token is known with the instance it is for.                   *)
(***************************************************************************)
EXTENDS Integers, Sequences, FiniteSets, Functions, FiniteSetsExt, TLC

CONSTANT Capacity    \* at least one

Zero == -1    \* time.Time{}

Empty == [entries |-> <<>>, recency |-> {}, soonest |-> Zero]

Held(c) == DOMAIN c.entries

(* The instant of a deadline counts as reached. *)
Expired(now, deadline) == now >= deadline

Fresh(c, k, now) == k \in Held(c) /\ ~Expired(now, c.entries[k].until)

Without(c, K) ==
    LET kept == Held(c) \ K IN
    [entries |-> Restrict(c.entries, kept),
     recency |-> c.recency \cap (kept \X kept),
     soonest |-> c.soonest]

(* The order of S with k, one of them or not, in front of the others. *)
ToFront(R, S, k) ==
    LET others == S \ {k} IN (R \cap (others \X others)) \cup ({k} \X others)

(* The least recently used, if anything is held. *)
Back(c) == {k \in Held(c) : \A j \in Held(c) \ {k} : <<j, k>> \in c.recency}

(* Get marks a live entry used, and lets go of an expired one. *)
Got(c, k, now) ==
    IF Fresh(c, k, now) THEN [c EXCEPT !.recency = ToFront(@, Held(c), k)]
    ELSE Without(c, {k})

(* Mutated form of Noted: noted by the first of them only. *)
NotedOnce(c, until) == IF c.soonest = Zero THEN [c EXCEPT !.soonest = until] ELSE c

(* noteExpiryLocked *)
Noted(c, until) ==
    IF c.soonest = Zero \/ until < c.soonest THEN [c EXCEPT !.soonest = until] ELSE c

(* sweepLocked: soonest becomes that of the entries left. *)
Swept(c, now) ==
    LET kept == Without(c, {k \in Held(c) : Expired(now, c.entries[k].until)})
        ends == {kept.entries[k].until : k \in Held(kept)}
    IN [kept EXCEPT !.soonest = IF ends = {} THEN Zero ELSE Min(ends)]

(* Mutated form of WithRoom: the instant of a deadline does not count. *)
WithRoomLater(c, now) ==
    LET swept == IF now > c.soonest THEN Swept(c, now) ELSE c IN
    IF Cardinality(Held(swept)) < Capacity THEN swept
    ELSE Without(swept, Back(swept))

(* makeRoomLocked: an expired identity goes before a live one. *)
WithRoom(c, now) ==
    LET swept == IF Expired(now, c.soonest) THEN Swept(c, now) ELSE c IN
    IF Cardinality(Held(swept)) < Capacity THEN swept
    ELSE Without(swept, Back(swept))

(* Put, with the clock it read before it took the lock. *)
Put(c, k, entry, now) ==
    LET room == IF k \in Held(c) \/ Cardinality(Held(c)) < Capacity THEN c ELSE WithRoom(c, now) IN
    Noted([entries |-> [j \in Held(room) \cup {k} |-> IF j = k THEN entry ELSE room.entries[j]],
           recency |-> ToFront(room.recency, Held(room), k),
           soonest |-> room.soonest], entry.until)

(* R says of any two members of S which is nearer the front. *)
Lists(R, S) ==
    /\ R \subseteq S \X S
    /\ \A j, k \in S : (<<j, k>> \in R) = (j # k /\ <<k, j>> \notin R)
    /\ \A i, j, k \in S : <<i, j>> \in R /\ <<j, k>> \in R => <<i, k>> \in R

(* At most Capacity entries, listed, and none that expires before soonest says
   one may.                                                                  *)
Sound(c) ==
    /\ Cardinality(Held(c)) <= Capacity
    /\ Lists(c.recency, Held(c))
    /\ \A k \in Held(c) : c.soonest # Zero /\ c.soonest <= c.entries[k].until
===============================================================================
