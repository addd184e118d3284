--------------------------- MODULE RequestGateProofs ---------------------------
(***************************************************************************)
(* The slots of RequestGate, for every number of requests, credentials and *)
(* calls and every value of the four ceilings: each count is the number of *)
(* those who hold a slot, no slot is lost or given back twice, and neither *)
(* a call nor a kept session escapes the ceilings.                         *)
(***************************************************************************)
EXTENDS RequestGate, FiniteSetTheorems, TLAPS

(* The types of what the gate and the middlewares behind it write. *)
SlotTypes ==
    /\ asked \in Workloads
    /\ held \in Nat /\ sessions \in Nat
    /\ listens \in [Requests -> Nat] /\ streams \in Nat
    /\ post \in [Requests -> {"outside", "sessions?", "sessions!", "stream?", "stream!", "held?",
                              "held!", "busy", "serving", "returned", "done"}]
    /\ saw \in [Requests \X (0..2) -> Nat]
    /\ slot \in [Requests -> {"none", "gate", "session", "given"}]
    /\ claimed \in [Requests -> BOOLEAN]
    /\ session \in [Requests -> {"none", "opening", "live", "ended"}]
    /\ call \in [Messages -> {"unsent", "counting", "swapping", "running", "added", "removing",
                              "retracting", "over"}]
    /\ gone \subseteq Requests /\ own \subseteq Messages

(* A POST takes the slots of its kind, on a count it saw below the limit, and a
   session whose client has not gone keeps them from its first message on.    *)
PostOK(r) ==
    /\ post[r] \in {"sessions?", "sessions!", "stream?", "stream!"} => Kind(r) = "open"
    /\ post[r] \in {"held?", "held!"} => Kind(r) = "call"
    /\ slot[r] # "none" => Kind(r) = "open"
    /\ slot[r] # "none" <=> session[r] # "none"
    /\ slot[r] # "none" => post[r] \in {"serving", "returned", "done"}
    /\ Kind(r) = "open" /\ post[r] \in {"serving", "returned", "done"} => slot[r] # "none"
    /\ slot[r] = "given" /\ post[r] # "done" => session[r] = "ended"
    /\ slot[r] = "gate" => post[r] # "done"
    /\ session[r] = "live" /\ r \notin gone => slot[r] = "session"
    /\ \A i \in {1, 2} :
         Kind(r) = "open" /\ r \notin gone /\ call[<<r, i>>] # "unsent" /\ session[r] # "ended"
           => slot[r] = "session"
    /\ post[r] \in {"stream!", "held!"} => saw[<<r, 0>>] < HeldLimit
    /\ post[r] = "sessions!" => saw[<<r, 0>>] < SessionLimit

(* A call that runs took a slot of its own or claimed that of its POST, which
   one call alone does and which is held until that call is over.             *)
MessageOK(m) ==
    /\ call[m] \in {"counting", "swapping"} => Kind(m[1]) \in {"call", "batch"}
    /\ call[m] \in {"added", "removing", "retracting"} => Kind(m[1]) = "listen"
    /\ m \in own => call[m] = "running" /\ Kind(m[1]) \in {"call", "batch"}
    /\ call[m] = "running" /\ Kind(m[1]) = "batch" => m \in own
    /\ call[m] = "running" /\ Kind(m[1]) = "call" /\ m \notin own
         => post[m[1]] = "serving" /\ claimed[m[1]]
    /\ call[m] = "swapping" => saw[m] < HeldLimit

OneClaims ==
    \A m, n \in Messages :
        /\ m[1] = n[1] /\ Kind(m[1]) = "call"
        /\ call[m] = "running" /\ m \notin own /\ call[n] = "running" /\ n \notin own
        => m = n

OfEntry(S, e) == {m \in Listening(S) : entry[m[1]] = e}

Ceilings ==
    /\ held <= HeldLimit /\ sessions <= SessionLimit
    /\ Cardinality(Listening({"running"})) <= ProcessListens
    /\ \A e \in Requests : Cardinality(OfEntry({"added", "running", "removing"}, e)) <= ListenLimit

(* What is sent came through the door, after the entry that serves it was found. *)
AtTheDoor ==
    /\ DOMAIN door = Requests /\ DOMAIN entry = Requests
    /\ \A m \in Messages : call[m] # "unsent" => door[m[1]] = "admitted"

SlotInv ==
    /\ SlotTypes
    /\ \A r \in Requests : PostOK(r)
    /\ \A m \in Messages : MessageOK(m)
    /\ OneClaims /\ AtTheDoor
    /\ SlotsAreHeld /\ Ceilings

-----------------------------------------------------------------------------
(* Counting the holders of a slot *)

In(b) == IF b THEN 1 ELSE 0

(* Two sets that differ in one member at most. *)
LEMMA OneChange ==
    ASSUME NEW S, NEW T, NEW x, IsFiniteSet(S), \A y : y # x => (y \in S <=> y \in T)
    PROVE  /\ IsFiniteSet(T) /\ Cardinality(S) \in Nat /\ Cardinality(T) \in Nat
           /\ Cardinality(T) = Cardinality(S) + In(x \in T) - In(x \in S)
<1>1. Cardinality(S) \in Nat
  BY FS_CardinalityType
<1>2. CASE x \in S /\ x \in T
  <2>1. \A y : y \in S <=> y \in T
    BY <1>2
  <2>2. T = S
    BY <2>1
  <2>3. QED
    BY <1>1, <1>2, <2>2 DEF In
<1>3. CASE x \notin S /\ x \notin T
  <2>1. \A y : y \in S <=> y \in T
    BY <1>3
  <2>2. T = S
    BY <2>1
  <2>3. QED
    BY <1>1, <1>3, <2>2 DEF In
<1>4. CASE x \notin S /\ x \in T
  <2>1. T = S \cup {x}
    BY <1>4
  <2>2. IsFiniteSet(S \cup {x}) /\ Cardinality(S \cup {x}) = Cardinality(S) + 1
    BY <1>4, FS_AddElement
  <2>3. QED
    BY <1>1, <1>4, <2>1, <2>2 DEF In
<1>5. CASE x \in S /\ x \notin T
  <2>1. T = S \ {x}
    BY <1>5
  <2>2. IsFiniteSet(S \ {x}) /\ Cardinality(S \ {x}) = Cardinality(S) - 1
    BY <1>5, FS_RemoveElement
  <2>3. Cardinality(T) \in Nat
    BY <2>1, <2>2, FS_CardinalityType
  <2>4. QED
    BY <1>1, <1>5, <2>1, <2>2, <2>3 DEF In
<1>6. QED
  BY <1>2, <1>3, <1>4, <1>5

LEMMA MessagesAreFinite == IsFiniteSet(Messages)
<1>1. IsFiniteSet({1, 2})
  <2>1. IsFiniteSet({1}) /\ IsFiniteSet({2}) /\ {1, 2} = {1} \cup {2}
    BY FS_Singleton
  <2>2. IsFiniteSet({1} \cup {2})
    BY <2>1, FS_Union
  <2>3. QED
    BY <2>1, <2>2
<1>2. QED
  BY <1>1, BudgetsFiniteAssumption, FS_Product DEF Messages

LEMMA HoldersAreFinite ==
    ASSUME SlotTypes
    PROVE  /\ IsFiniteSet(Keepers) /\ IsFiniteSet(Opening) /\ IsFiniteSet(GateHolders) /\ IsFiniteSet(own)
           /\ \A S : IsFiniteSet(Listening(S)) /\ \A e : IsFiniteSet(OfEntry(S, e))
<1>1. Keepers \subseteq Requests /\ Opening \subseteq Requests /\ GateHolders \subseteq Requests
  BY DEF Keepers, Opening, GateHolders
<1>2. own \subseteq Messages
  BY DEF SlotTypes
<1>3. ASSUME NEW S PROVE IsFiniteSet(Listening(S)) /\ \A e : IsFiniteSet(OfEntry(S, e))
  <2>1. Listening(S) \subseteq Messages /\ \A e : OfEntry(S, e) \subseteq Messages
    BY DEF Listening, OfEntry
  <2>2. QED
    BY <2>1, MessagesAreFinite, FS_Subset
<1>4. QED
  BY <1>1, <1>2, <1>3, MessagesAreFinite, BudgetsFiniteAssumption, FS_Subset

(* What a holder's move makes of the counts of its kind. *)
Keeping == {"gate", "session"}

LEMMA KeepersMove ==
    ASSUME SlotTypes, NEW r \in Requests, NEW s, slot' = [slot EXCEPT ![r] = s]
    PROVE  /\ Cardinality(Keepers) \in Nat /\ Cardinality(Keepers') \in Nat
           /\ Cardinality(Keepers') = Cardinality(Keepers) + In(s \in Keeping) - In(slot[r] \in Keeping)
<1>1. \A q \in Requests : slot'[q] = IF q = r THEN s ELSE slot[q]
  BY DEF SlotTypes
<1>2. \A y : y # r => (y \in Keepers <=> y \in Keepers')
  BY <1>1 DEF Keepers
<1>3. (r \in Keepers') = (s \in Keeping) /\ (r \in Keepers) = (slot[r] \in Keeping)
  BY <1>1 DEF Keepers, Keeping
<1>4. QED
  BY <1>2, <1>3, OneChange, HoldersAreFinite

LEMMA OpeningMove ==
    ASSUME SlotTypes, NEW r \in Requests, NEW p, post' = [post EXCEPT ![r] = p]
    PROVE  /\ Cardinality(Opening) \in Nat /\ Cardinality(Opening') \in Nat
           /\ Cardinality(Opening') = Cardinality(Opening)
                + In(p \in {"stream?", "stream!"}) - In(post[r] \in {"stream?", "stream!"})
<1>1. \A q \in Requests : post'[q] = IF q = r THEN p ELSE post[q]
  BY DEF SlotTypes
<1>2. \A y : y # r => (y \in Opening <=> y \in Opening')
  BY <1>1 DEF Opening
<1>3. /\ (r \in Opening') = (p \in {"stream?", "stream!"})
      /\ (r \in Opening) = (post[r] \in {"stream?", "stream!"})
  BY <1>1 DEF Opening
<1>4. QED
  BY <1>2, <1>3, OneChange, HoldersAreFinite

LEMMA GateHoldersMove ==
    ASSUME SlotTypes, asked' = asked, NEW r \in Requests, NEW p, post' = [post EXCEPT ![r] = p]
    PROVE  /\ Cardinality(GateHolders) \in Nat /\ Cardinality(GateHolders') \in Nat
           /\ Cardinality(GateHolders') = Cardinality(GateHolders)
                + In(Kind(r) = "call" /\ p \in {"serving", "returned"})
                - In(Kind(r) = "call" /\ post[r] \in {"serving", "returned"})
<1>1. \A q \in Requests : post'[q] = IF q = r THEN p ELSE post[q]
  BY DEF SlotTypes
<1>2. \A y : y # r => (y \in GateHolders <=> y \in GateHolders')
  BY <1>1 DEF GateHolders, Kind
<1>3. /\ (r \in GateHolders') = (Kind(r) = "call" /\ p \in {"serving", "returned"})
      /\ (r \in GateHolders) = (Kind(r) = "call" /\ post[r] \in {"serving", "returned"})
  BY <1>1 DEF GateHolders, Kind
<1>4. QED
  BY <1>2, <1>3, OneChange, HoldersAreFinite

LEMMA ListeningMove ==
    ASSUME SlotTypes, asked' = asked, NEW m \in Messages, NEW c, call' = [call EXCEPT ![m] = c], NEW S
    PROVE  /\ Cardinality(Listening(S)) \in Nat /\ Cardinality(Listening(S)') \in Nat
           /\ Cardinality(Listening(S)') = Cardinality(Listening(S))
                + In(Kind(m[1]) = "listen" /\ c \in S) - In(Kind(m[1]) = "listen" /\ call[m] \in S)
<1>1. \A n \in Messages : call'[n] = IF n = m THEN c ELSE call[n]
  BY DEF SlotTypes
<1>2. \A y : y # m => (y \in Listening(S) <=> y \in Listening(S)')
  BY <1>1 DEF Listening, Kind
<1>3. /\ (m \in Listening(S)') = (Kind(m[1]) = "listen" /\ c \in S)
      /\ (m \in Listening(S)) = (Kind(m[1]) = "listen" /\ call[m] \in S)
  BY <1>1 DEF Listening, Kind
<1>4. QED
  BY <1>2, <1>3, OneChange, HoldersAreFinite

EntryMoves(m, c, S, e) ==
    /\ Cardinality(OfEntry(S, e)) \in Nat /\ Cardinality(OfEntry(S, e)') \in Nat
    /\ Cardinality(OfEntry(S, e)') = Cardinality(OfEntry(S, e))
         + In(Kind(m[1]) = "listen" /\ c \in S /\ entry[m[1]] = e)
         - In(Kind(m[1]) = "listen" /\ call[m] \in S /\ entry[m[1]] = e)

LEMMA OfEntryMove ==
    ASSUME SlotTypes, UNCHANGED <<asked, entry>>, NEW m \in Messages, NEW c, call' = [call EXCEPT ![m] = c]
    PROVE  \A S, e : EntryMoves(m, c, S, e)
<1> TAKE S, e
<1>1. \A n \in Messages : call'[n] = IF n = m THEN c ELSE call[n]
  BY DEF SlotTypes
<1>2. \A y : y # m => (y \in OfEntry(S, e) <=> y \in OfEntry(S, e)')
  BY <1>1 DEF OfEntry, Listening, Kind
<1>3. /\ (m \in OfEntry(S, e)') = (Kind(m[1]) = "listen" /\ c \in S /\ entry[m[1]] = e)
      /\ (m \in OfEntry(S, e)) = (Kind(m[1]) = "listen" /\ call[m] \in S /\ entry[m[1]] = e)
  BY <1>1 DEF OfEntry, Listening, Kind
<1>4. IsFiniteSet(OfEntry(S, e))
  BY HoldersAreFinite
<1>5. PICK A : A = OfEntry(S, e)
  OBVIOUS
<1>6. PICK B : B = OfEntry(S, e)'
  OBVIOUS
<1>7. /\ Cardinality(A) \in Nat /\ Cardinality(B) \in Nat
      /\ Cardinality(B) = Cardinality(A) + In(m \in B) - In(m \in A)
  BY <1>2, <1>4, <1>5, <1>6, OneChange
<1>8. QED
  BY <1>3, <1>5, <1>6, <1>7 DEF EntryMoves

LEMMA OwnMove ==
    ASSUME SlotTypes, NEW m, \A n : n # m => (n \in own <=> n \in own')
    PROVE  /\ Cardinality(own) \in Nat /\ Cardinality(own') \in Nat
           /\ Cardinality(own') = Cardinality(own) + In(m \in own') - In(m \in own)
BY OneChange, HoldersAreFinite

-----------------------------------------------------------------------------
(* Who writes what *)

(* What a POST does, and what a message does. *)
OfPost(r) ==
    \/ Enter(r) \/ ReadSessions(r) \/ TakeSession(r) \/ ReadStream(r) \/ TakeStream(r)
    \/ ReadHeld(r) \/ TakeHeld(r) \/ Abandon(r) \/ Return(r) \/ Leave(r)
    \/ EndSession(r) \/ GiveBack(r)
OfMessage(m) ==
    \/ Keep(m) \/ Claim(m) \/ Count(m) \/ ReadForCall(m) \/ TakeForCall(m) \/ Finish(m)
    \/ Unattributed(m) \/ AddListen(m) \/ AddStream(m) \/ RemoveStream(m) \/ RemoveListen(m)

LEMMA KindsAreTyped ==
    ASSUME SlotTypes, NEW r \in Requests
    PROVE  Kind(r) \in {"past", "get", "call", "batch", "open", "listen"} /\ asked[r].calls \in 0..2
BY BudgetsAssumption DEF SlotTypes, Kind

LEMMA SawIsRead ==
    ASSUME SlotTypes
    PROVE  /\ \A r \in Requests : saw[<<r, 0>>] \in Nat
           /\ \A m \in Messages : m \in Requests \X (0..2) /\ saw[m] \in Nat
           /\ \A r \in Requests : \A m \in Messages : m # <<r, 0>>
           /\ \A m \in Messages : m[1] \in Requests /\ m[2] \in {1, 2} /\ m = <<m[1], m[2]>>
<1>1. \A r \in Requests : <<r, 0>> \in Requests \X (0..2)
  OBVIOUS
<1>2. \A m \in Messages : m \in Requests \X (0..2) /\ m[1] \in Requests /\ m[2] \in {1, 2} /\ m = <<m[1], m[2]>>
  BY DEF Messages
<1>3. \A r \in Requests : \A m \in Messages : m # <<r, 0>>
  BY <1>2
<1>4. QED
  BY <1>1, <1>2, <1>3 DEF SlotTypes

(* The types, but for the counts themselves. *)
OtherTypes ==
    /\ asked \in Workloads
    /\ post \in [Requests -> {"outside", "sessions?", "sessions!", "stream?", "stream!", "held?",
                              "held!", "busy", "serving", "returned", "done"}]
    /\ saw \in [Requests \X (0..2) -> Nat]
    /\ slot \in [Requests -> {"none", "gate", "session", "given"}]
    /\ claimed \in [Requests -> BOOLEAN]
    /\ session \in [Requests -> {"none", "opening", "live", "ended"}]
    /\ call \in [Messages -> {"unsent", "counting", "swapping", "running", "added", "removing",
                              "retracting", "over"}]
    /\ gone \subseteq Requests /\ own \subseteq Messages

LEMMA PostTyped ==
    ASSUME SlotTypes, asked' = asked, NEW r \in Requests, OfPost(r)
    PROVE  OtherTypes'
<1>1. UNCHANGED <<claimed, call, own>>
  BY DEF OfPost, Enter, ReadSessions, TakeSession, ReadStream, TakeStream, ReadHeld, TakeHeld,
         Abandon, Return, Leave, EndSession, GiveBack
<1>2. gone' \subseteq Requests
  BY DEF SlotTypes, OfPost, Enter, ReadSessions, TakeSession, ReadStream, TakeStream, ReadHeld,
         TakeHeld, Abandon, Return, Leave, EndSession, GiveBack
<1>3. post' \in [Requests -> {"outside", "sessions?", "sessions!", "stream?", "stream!", "held?",
                              "held!", "busy", "serving", "returned", "done"}]
  <2>1. \/ post' = post
        \/ \E p \in {"sessions?", "sessions!", "stream?", "stream!", "held?", "held!", "busy",
                     "serving", "returned", "done"} : post' = [post EXCEPT ![r] = p]
    BY DEF OfPost, Enter, ReadSessions, TakeSession, ReadStream, TakeStream, ReadHeld, TakeHeld,
           Abandon, Return, Leave, EndSession, GiveBack, Goes, Reads, Swaps
  <2>2. QED
    BY <2>1 DEF SlotTypes
<1>4. saw' \in [Requests \X (0..2) -> Nat]
  <2>1. \/ saw' = saw \/ \E n \in {0, held, sessions} : saw' = [saw EXCEPT ![<<r, 0>>] = n]
    BY DEF OfPost, Enter, ReadSessions, TakeSession, ReadStream, TakeStream, ReadHeld, TakeHeld,
           Abandon, Return, Leave, EndSession, GiveBack, Reads, Swaps
  <2>2. QED
    BY <2>1 DEF SlotTypes
<1>5. slot' \in [Requests -> {"none", "gate", "session", "given"}]
  <2>1. slot' = slot \/ \E s \in {"gate", "given"} : slot' = [slot EXCEPT ![r] = s]
    BY DEF OfPost, Enter, ReadSessions, TakeSession, ReadStream, TakeStream, ReadHeld, TakeHeld,
           Abandon, Return, Leave, EndSession, GiveBack
  <2>2. QED
    BY <2>1 DEF SlotTypes
<1>6. session' \in [Requests -> {"none", "opening", "live", "ended"}]
  <2>1. session' = session \/ \E s \in {"opening", "live", "ended", session[r]} : session' = [session EXCEPT ![r] = s]
    BY DEF OfPost, Enter, ReadSessions, TakeSession, ReadStream, TakeStream, ReadHeld, TakeHeld,
           Abandon, Return, Leave, EndSession, GiveBack
  <2>2. QED
    BY <2>1 DEF SlotTypes
<1>7. QED
  BY <1>1, <1>2, <1>3, <1>4, <1>5, <1>6 DEF SlotTypes, OtherTypes

LEMMA MessageTyped ==
    ASSUME SlotTypes, asked' = asked, NEW m \in Messages, OfMessage(m)
    PROVE  OtherTypes'
<1>1. UNCHANGED <<post, session, gone>>
  BY DEF OfMessage, Keep, Claim, Count, ReadForCall, TakeForCall, Finish, AddListen, AddStream,
         RemoveStream, RemoveListen, Unattributed
<1>2. own' \subseteq Messages
  BY DEF SlotTypes, OfMessage, Keep, Claim, Count, ReadForCall, TakeForCall, Finish, AddListen,
         AddStream, RemoveStream, RemoveListen, Unattributed
<1>3. call' \in [Messages -> {"unsent", "counting", "swapping", "running", "added", "removing",
                              "retracting", "over"}]
  <2>1. \E c \in {"counting", "swapping", "running", "added", "removing", "retracting", "over"} :
            call' = [call EXCEPT ![m] = c]
    BY DEF OfMessage, Keep, Claim, Count, ReadForCall, TakeForCall, Finish, AddListen, AddStream,
           RemoveStream, RemoveListen, Unattributed, CallGoes
  <2>2. QED
    BY <2>1 DEF SlotTypes
<1>4. saw' \in [Requests \X (0..2) -> Nat]
  <2>1. \/ saw' = saw \/ \E n \in {0, held} : saw' = [saw EXCEPT ![m] = n]
    BY DEF OfMessage, Keep, Claim, Count, ReadForCall, TakeForCall, Finish, AddListen, AddStream,
           RemoveStream, RemoveListen, Unattributed
  <2>2. QED
    BY <2>1 DEF SlotTypes
<1>5. slot' \in [Requests -> {"none", "gate", "session", "given"}]
  <2>1. slot' = slot \/ \E s \in {"session", slot[m[1]]} : slot' = [slot EXCEPT ![m[1]] = s]
    BY DEF OfMessage, Keep, Claim, Count, ReadForCall, TakeForCall, Finish, AddListen, AddStream,
           RemoveStream, RemoveListen, Unattributed
  <2>2. QED
    BY <2>1, SawIsRead DEF SlotTypes
<1>6. claimed' \in [Requests -> BOOLEAN]
  <2>1. claimed' = claimed \/ \E b \in BOOLEAN : claimed' = [claimed EXCEPT ![m[1]] = b]
    <3>1. CASE Claim(m)
      <4>1. PICK found \in Found(m[1]) : claimed' = [claimed EXCEPT ![m[1]] = claimed[m[1]] \/ found]
        BY <3>1 DEF Claim
      <4>2. QED
        BY <4>1
    <3>2. QED
      BY <3>1 DEF OfMessage, Keep, Count, ReadForCall, TakeForCall, Finish, AddListen, AddStream,
             RemoveStream, RemoveListen, Unattributed
  <2>2. QED
    BY <2>1, SawIsRead DEF SlotTypes
<1>7. QED
  BY <1>1, <1>2, <1>3, <1>4, <1>5, <1>6 DEF SlotTypes, OtherTypes

-----------------------------------------------------------------------------
(* What POSTs and calls have, and on which grounds *)

LEMMA PostBystanders ==
    ASSUME SlotTypes, asked' = asked, NEW r \in Requests, OfPost(r), NEW q \in Requests, q # r
    PROVE  /\ post'[q] = post[q] /\ slot'[q] = slot[q] /\ session'[q] = session[q]
           /\ saw'[<<q, 0>>] = saw[<<q, 0>>] /\ (q \in gone' <=> q \in gone)
<1>1. post' = post \/ \E p : post' = [post EXCEPT ![r] = p]
  BY DEF OfPost, Enter, ReadSessions, TakeSession, ReadStream, TakeStream, ReadHeld, TakeHeld,
         Abandon, Return, Leave, EndSession, GiveBack, Goes, Reads, Swaps
<1>2. slot' = slot \/ \E s : slot' = [slot EXCEPT ![r] = s]
  BY DEF OfPost, Enter, ReadSessions, TakeSession, ReadStream, TakeStream, ReadHeld, TakeHeld,
         Abandon, Return, Leave, EndSession, GiveBack
<1>3. session' = session \/ \E s : session' = [session EXCEPT ![r] = s]
  BY DEF OfPost, Enter, ReadSessions, TakeSession, ReadStream, TakeStream, ReadHeld, TakeHeld,
         Abandon, Return, Leave, EndSession, GiveBack
<1>4. saw' = saw \/ \E n : saw' = [saw EXCEPT ![<<r, 0>>] = n]
  BY DEF OfPost, Enter, ReadSessions, TakeSession, ReadStream, TakeStream, ReadHeld, TakeHeld,
         Abandon, Return, Leave, EndSession, GiveBack, Reads, Swaps
<1>5. gone' = gone \/ gone' = gone \cup {r}
  BY DEF OfPost, Enter, ReadSessions, TakeSession, ReadStream, TakeStream, ReadHeld, TakeHeld,
         Abandon, Return, Leave, EndSession, GiveBack
<1>6. /\ post \in [Requests -> {"outside", "sessions?", "sessions!", "stream?", "stream!", "held?",
                                "held!", "busy", "serving", "returned", "done"}]
      /\ slot \in [Requests -> {"none", "gate", "session", "given"}]
      /\ session \in [Requests -> {"none", "opening", "live", "ended"}]
      /\ saw \in [Requests \X (0..2) -> Nat]
  BY DEF SlotTypes
<1>7. post'[q] = post[q] /\ slot'[q] = slot[q] /\ session'[q] = session[q]
  BY <1>1, <1>2, <1>3, <1>6
<1>8. saw'[<<q, 0>>] = saw[<<q, 0>>]
  BY <1>4, <1>6
<1>9. QED
  BY <1>5, <1>7, <1>8

(* What a POST still is when nothing of it changes. *)
LEMMA PostsStay ==
    ASSUME NEW q \in Requests, PostOK(q), asked' = asked,
           post'[q] = post[q], slot'[q] = slot[q], session'[q] = session[q],
           saw'[<<q, 0>>] = saw[<<q, 0>>], q \in gone' <=> q \in gone,
           \A i \in {1, 2} : call'[<<q, i>>] = call[<<q, i>>]
    PROVE  PostOK(q)'
BY DEF PostOK, Kind

(* Who goes on after reading a count saw it below its limit. *)
LEMMA ReadBelow ==
    ASSUME SlotTypes, NEW r \in Requests, NEW from, NEW count \in Nat, NEW limit \in Nat,
           NEW full, NEW free, Reads(r, from, count, limit, full, free)
    PROVE  /\ post[r] = from
           /\ post'[r] = full \/ (post'[r] = free /\ saw'[<<r, 0>>] < limit)
<1>1. /\ \A p : post' = [post EXCEPT ![r] = p] => post'[r] = p
      /\ \A n : saw' = [saw EXCEPT ![<<r, 0>>] = n] => saw'[<<r, 0>>] = n
  BY DEF SlotTypes
<1>2. CASE count >= limit
  <2>1. post' = [post EXCEPT ![r] = full] /\ post[r] = from
    BY <1>2 DEF Reads, Taken
  <2>2. post'[r] = full
    BY <2>1 DEF SlotTypes
  <2>3. QED
    BY <2>1, <2>2
<1>3. CASE ~(count >= limit)
  <2>1. post' = [post EXCEPT ![r] = free] /\ saw' = [saw EXCEPT ![<<r, 0>>] = count] /\ post[r] = from
    BY <1>3 DEF Reads, Taken
  <2>2. post'[r] = free /\ saw'[<<r, 0>>] = count
    BY <1>1, <2>1
  <2>3. QED
    BY <1>3, <2>1, <2>2
<1>4. QED
  BY <1>2, <1>3

LEMMA ReadingKeeps ==
    ASSUME SlotTypes, asked' = asked, NEW r \in Requests, PostOK(r),
           Enter(r) \/ ReadSessions(r) \/ ReadStream(r) \/ ReadHeld(r)
    PROVE  PostOK(r)'
<1>1. /\ slot' = slot /\ session' = session /\ gone' = gone /\ call' = call
      /\ HeldLimit \in Nat /\ SessionLimit \in Nat /\ held \in Nat /\ sessions \in Nat
  BY GateAssumption DEF Enter, ReadSessions, ReadStream, ReadHeld, SlotTypes
<1>2. slot[r] = "none" /\ Kind(r)' = Kind(r)
  BY DEF Enter, ReadSessions, ReadStream, ReadHeld, Goes, Reads, PostOK, Kind
<1>3. \A p : post' = [post EXCEPT ![r] = p] => post'[r] = p
  BY DEF SlotTypes
<1>4. CASE Enter(r)
  <2>1. /\ post'[r] \in {"sessions?", "held?", "serving", "done"}
        /\ post'[r] = "sessions?" => Kind(r) = "open"
        /\ post'[r] = "held?" => Kind(r) = "call"
        /\ post'[r] \in {"serving", "done"} => Kind(r) # "open"
    BY <1>3, <1>4 DEF Enter, Goes
  <2>2. QED
    BY <1>1, <1>2, <2>1 DEF PostOK
<1>5. CASE ReadSessions(r)
  <2>1. /\ Kind(r) = "open"
        /\ \/ post'[r] = "busy"
           \/ post'[r] = "sessions!" /\ saw'[<<r, 0>>] < SessionLimit
    BY <1>1, <1>5, ReadBelow DEF ReadSessions, PostOK
  <2>2. QED
    BY <1>1, <1>2, <2>1 DEF PostOK
<1>6. CASE ReadStream(r)
  <2>1. /\ Kind(r) = "open"
        /\ \/ post'[r] = "busy"
           \/ post'[r] = "stream!" /\ saw'[<<r, 0>>] < HeldLimit
    BY <1>1, <1>6, ReadBelow DEF ReadStream, PostOK
  <2>2. QED
    BY <1>1, <1>2, <2>1 DEF PostOK
<1>7. CASE ReadHeld(r)
  <2>1. /\ Kind(r) = "call"
        /\ \/ post'[r] = "busy"
           \/ post'[r] = "held!" /\ saw'[<<r, 0>>] < HeldLimit
    BY <1>1, <1>7, ReadBelow DEF ReadHeld, PostOK
  <2>2. QED
    BY <1>1, <1>2, <2>1 DEF PostOK
<1>8. QED
  BY <1>4, <1>5, <1>6, <1>7

LEMMA TakingKeeps ==
    ASSUME SlotTypes, asked' = asked, NEW r \in Requests, PostOK(r),
           TakeSession(r) \/ TakeStream(r) \/ TakeHeld(r)
    PROVE  PostOK(r)'
<1>1. gone' = gone /\ call' = call /\ Kind(r)' = Kind(r)
  BY DEF TakeSession, TakeStream, TakeHeld, Kind
<1>2. \A p : post' = [post EXCEPT ![r] = p] => post'[r] = p
  BY DEF SlotTypes
<1>3. CASE TakeSession(r)
  <2>1. /\ Kind(r) = "open" /\ slot[r] = "none" /\ slot' = slot /\ session' = session
        /\ post'[r] \in {"sessions?", "stream?"}
    BY <1>2, <1>3 DEF TakeSession, Swaps, PostOK
  <2>2. QED
    BY <1>1, <2>1 DEF PostOK
<1>4. CASE TakeHeld(r)
  <2>1. /\ Kind(r) = "call" /\ slot[r] = "none" /\ slot' = slot /\ session' = session
        /\ post'[r] \in {"held?", "serving"}
    BY <1>2, <1>4 DEF TakeHeld, Swaps, PostOK
  <2>2. QED
    BY <1>1, <2>1 DEF PostOK
<1>5. CASE TakeStream(r)
  <2>1. Kind(r) = "open" /\ slot[r] = "none" /\ session[r] = "none" /\ post[r] = "stream!"
    BY <1>5 DEF TakeStream, Swaps, PostOK
  <2>2. CASE held = saw[<<r, 0>>]
    <3>1. /\ post' = [post EXCEPT ![r] = "serving"]
          /\ slot' = [slot EXCEPT ![r] = "gate"] /\ session' = [session EXCEPT ![r] = "opening"]
      BY <1>5, <2>2 DEF TakeStream, Swaps
    <3>2. post'[r] = "serving" /\ slot'[r] = "gate" /\ session'[r] = "opening"
      BY <3>1 DEF SlotTypes
    <3>3. \A i \in {1, 2} : r \notin gone => call[<<r, i>>] = "unsent"
      BY <2>1 DEF PostOK
    <3>4. QED
      BY <1>1, <2>1, <3>2, <3>3 DEF PostOK
  <2>3. CASE held # saw[<<r, 0>>]
    <3>1. post'[r] = "stream?" /\ slot' = slot /\ session' = session
      BY <1>2, <1>5, <2>3 DEF TakeStream, Swaps
    <3>2. QED
      BY <1>1, <2>1, <3>1 DEF PostOK
  <2>4. QED
    BY <2>2, <2>3
<1>6. QED
  BY <1>3, <1>4, <1>5

LEMMA EndingKeeps ==
    ASSUME SlotTypes, asked' = asked, NEW r \in Requests, PostOK(r),
           Abandon(r) \/ Return(r) \/ Leave(r) \/ EndSession(r) \/ GiveBack(r)
    PROVE  PostOK(r)'
<1>1. call' = call /\ Kind(r)' = Kind(r)
  BY DEF Abandon, Return, Leave, EndSession, GiveBack, Kind
<1>2. /\ \A p : post' = [post EXCEPT ![r] = p] => post'[r] = p
      /\ \A s : slot' = [slot EXCEPT ![r] = s] => slot'[r] = s
      /\ \A s : session' = [session EXCEPT ![r] = s] => session'[r] = s
  BY DEF SlotTypes
<1>3. CASE Abandon(r)
  <2>1. post' = post /\ slot' = slot /\ session' = session /\ saw' = saw /\ r \in gone'
    BY <1>3 DEF Abandon
  <2>2. QED
    BY <1>1, <2>1 DEF PostOK
<1>4. CASE Return(r)
  <2>1. /\ post[r] = "serving" /\ post'[r] = "returned" /\ slot' = slot /\ gone' = gone /\ saw' = saw
        /\ session'[r] = IF session[r] = "opening"
                         THEN IF call[<<r, 1>>] = "over" THEN "live" ELSE "ended" ELSE session[r]
    BY <1>2, <1>4 DEF Return, Goes
  <2>2. session[r] = "opening" /\ call[<<r, 1>>] = "over" /\ r \notin gone => slot[r] = "session"
    <3>1. session[r] # "none" => Kind(r) = "open"
      BY DEF PostOK
    <3>2. QED
      BY <3>1 DEF PostOK
  <2>3. session'[r] # "none" <=> session[r] # "none"
    BY <2>1
  <2>4. QED
    BY <1>1, <2>1, <2>2, <2>3 DEF PostOK
<1>5. CASE Leave(r)
  <2>1. /\ post[r] = "returned" /\ post'[r] = "done" /\ session' = session /\ gone' = gone /\ saw' = saw
        /\ slot'[r] = IF slot[r] = "gate" THEN "given" ELSE slot[r]
    BY <1>2, <1>5 DEF Leave, Goes
  <2>2. QED
    BY <1>1, <2>1 DEF PostOK
<1>6. CASE EndSession(r)
  <2>1. /\ session[r] \in {"opening", "live"} /\ session'[r] = "ended"
        /\ slot' = slot /\ post' = post /\ gone' = gone /\ saw' = saw
    BY <1>2, <1>6 DEF EndSession
  <2>2. QED
    BY <1>1, <2>1 DEF PostOK
<1>7. CASE GiveBack(r)
  <2>1. /\ session[r] = "ended" /\ slot[r] = "session" /\ slot'[r] = "given"
        /\ session' = session /\ post' = post /\ gone' = gone /\ saw' = saw
    BY <1>2, <1>7 DEF GiveBack
  <2>2. QED
    BY <1>1, <2>1 DEF PostOK
<1>8. QED
  BY <1>3, <1>4, <1>5, <1>6, <1>7

LEMMA PostKeepsPosts ==
    ASSUME SlotTypes, asked' = asked, \A q \in Requests : PostOK(q), NEW r \in Requests, OfPost(r)
    PROVE  \A q \in Requests : PostOK(q)'
<1>1. call' = call
  BY DEF OfPost, Enter, ReadSessions, TakeSession, ReadStream, TakeStream, ReadHeld, TakeHeld,
         Abandon, Return, Leave, EndSession, GiveBack
<1>2. ASSUME NEW q \in Requests, q # r PROVE PostOK(q)'
  BY <1>1, <1>2, PostBystanders, PostsStay
<1>3. PostOK(r)'
  BY ReadingKeeps, TakingKeeps, EndingKeeps DEF OfPost
<1>4. QED
  BY <1>2, <1>3

(* A POST whose call runs on its slot waits for that call. *)
LEMMA PostKeepsMessages ==
    ASSUME SlotTypes, asked' = asked, \A n \in Messages : MessageOK(n), OneClaims,
           NEW r \in Requests, OfPost(r)
    PROVE  (\A n \in Messages : MessageOK(n)') /\ OneClaims'
<1>1. UNCHANGED <<call, own, claimed>>
  BY DEF OfPost, Enter, ReadSessions, TakeSession, ReadStream, TakeStream, ReadHeld, TakeHeld,
         Abandon, Return, Leave, EndSession, GiveBack
<1>2. \A n \in Messages : saw'[n] = saw[n]
  <2>1. saw' = saw \/ \E x : saw' = [saw EXCEPT ![<<r, 0>>] = x]
    BY DEF OfPost, Enter, ReadSessions, TakeSession, ReadStream, TakeStream, ReadHeld, TakeHeld,
           Abandon, Return, Leave, EndSession, GiveBack, Reads, Swaps
  <2>2. QED
    BY <2>1, SawIsRead DEF SlotTypes
<1>3. ASSUME NEW n \in Messages, call[n] = "running", Kind(n[1]) = "call", post[n[1]] = "serving"
      PROVE  post'[n[1]] = "serving"
  <2>1. n[1] \in Requests /\ n[2] \in {1, 2} /\ n = <<n[1], n[2]>>
    BY SawIsRead
  <2>2. CASE n[1] = r
    <3>1. ~Return(r)
      BY <1>3, <2>1, <2>2 DEF Return
    <3>2. post' = post
      BY <1>3, <2>2, <3>1 DEF OfPost, Enter, ReadSessions, TakeSession, ReadStream, TakeStream,
         ReadHeld, TakeHeld, Abandon, Leave, EndSession, GiveBack, Goes, Reads, Swaps
    <3>3. QED
      BY <1>3, <3>2
  <2>3. CASE n[1] # r
    BY <1>3, <2>1, <2>3, PostBystanders
  <2>4. QED
    BY <2>2, <2>3
<1>4. ASSUME NEW n \in Messages PROVE MessageOK(n)'
  BY <1>1, <1>2, <1>3 DEF MessageOK, Kind
<1>5. OneClaims'
  BY <1>1 DEF OneClaims, Kind
<1>6. QED
  BY <1>4, <1>5

LEMMA MessageKeepsPosts ==
    ASSUME SlotTypes, asked' = asked, \A q \in Requests : PostOK(q), NEW m \in Messages,
           MessageOK(m), OfMessage(m)
    PROVE  \A q \in Requests : PostOK(q)'
<1>1. UNCHANGED <<post, session, gone>>
  BY DEF OfMessage, Keep, Claim, Count, ReadForCall, TakeForCall, Finish, AddListen, AddStream,
         RemoveStream, RemoveListen, Unattributed
<1>2. \A q \in Requests : saw'[<<q, 0>>] = saw[<<q, 0>>]
  <2>1. saw' = saw \/ \E x : saw' = [saw EXCEPT ![m] = x]
    BY DEF OfMessage, Keep, Claim, Count, ReadForCall, TakeForCall, Finish, AddListen, AddStream,
           RemoveStream, RemoveListen, Unattributed
  <2>2. \A q \in Requests : <<q, 0>> # m
    BY SawIsRead
  <2>3. \A q \in Requests : <<q, 0>> \in Requests \X (0..2)
    OBVIOUS
  <2>4. QED
    BY <2>1, <2>2, <2>3 DEF SlotTypes
<1>3. m[1] \in Requests /\ m[2] \in {1, 2} /\ m = <<m[1], m[2]>>
  BY SawIsRead
<1>4. PICK c : call' = [call EXCEPT ![m] = c]
  BY DEF OfMessage, Keep, Claim, Count, ReadForCall, TakeForCall, Finish, AddListen, AddStream,
         RemoveStream, RemoveListen, Unattributed, CallGoes
<1>5. \A q \in Requests : \A i \in {1, 2} : <<q, i>> # m => call'[<<q, i>>] = call[<<q, i>>]
  <2>1. \A q \in Requests : \A i \in {1, 2} : <<q, i>> \in Messages
    BY DEF Messages
  <2>2. QED
    BY <1>4, <2>1 DEF SlotTypes
<1>6. ASSUME NEW q \in Requests, q # m[1] PROVE PostOK(q)'
  <2>1. slot'[q] = slot[q]
    <3>1. slot' = slot \/ \E s : slot' = [slot EXCEPT ![m[1]] = s]
      BY DEF OfMessage, Keep, Claim, Count, ReadForCall, TakeForCall, Finish, AddListen, AddStream,
             RemoveStream, RemoveListen, Unattributed
    <3>2. QED
      BY <1>6, <3>1 DEF SlotTypes
  <2>2. \A i \in {1, 2} : call'[<<q, i>>] = call[<<q, i>>]
    <3>1. \A i \in {1, 2} : <<q, i>>[1] = q
      OBVIOUS
    <3>2. QED
      BY <1>5, <1>6, <3>1
  <2>3. QED
    BY <1>1, <1>2, <2>1, <2>2, PostsStay
<1>7. PICK r \in Requests : r = m[1]
  BY <1>3
<1>8. PostOK(r)'
  <2>1. CASE Keep(m)
    <3>1. PICK found \in Found(r) :
             slot' = [slot EXCEPT ![r] = IF slot[r] = "gate" /\ found THEN "session" ELSE slot[r]]
      BY <1>7, <2>1 DEF Keep
    <3>2. slot'[r] = IF slot[r] = "gate" /\ found THEN "session" ELSE slot[r]
      BY <3>1 DEF SlotTypes
    <3>3. r \notin gone => found = TRUE
      BY <3>1 DEF Found
    <3>4. /\ Kind(r) = "open" /\ PostOK(r) /\ slot[r] \in {"none", "gate", "session", "given"}
          /\ r \notin gone => post[r] = "serving"
      BY <1>7, <2>1 DEF Keep, Dispatchable, SlotTypes
    <3>5. session[r] # "ended" /\ r \notin gone => slot'[r] = "session"
      BY <3>2, <3>3, <3>4 DEF PostOK
    <3>6. Kind(r)' = Kind(r)
      BY DEF Kind
    <3>7. QED
      BY <1>1, <1>2, <3>2, <3>4, <3>5, <3>6 DEF PostOK
  <2>2. CASE ~Keep(m)
    <3>1. slot' = slot
      BY <2>2 DEF OfMessage, Claim, Count, ReadForCall, TakeForCall, Finish, AddListen, AddStream,
             RemoveStream, RemoveListen, Unattributed
    <3>2. Kind(r) # "open" \/ call[m] = "running"
      BY <1>7, <2>2 DEF OfMessage, Claim, Count, ReadForCall, TakeForCall, Finish, AddListen, AddStream,
             RemoveStream, RemoveListen, Unattributed, MessageOK, CallGoes
    <3>3. Kind(r)' = Kind(r) /\ PostOK(r)
      BY DEF Kind
    <3>4. ASSUME NEW i \in {1, 2}, Kind(r) = "open", r \notin gone, session[r] # "ended",
                 call'[<<r, i>>] # "unsent"
          PROVE  slot[r] = "session"
      <4>1. call[<<r, i>>] # "unsent"
        BY <1>5, <3>2, <3>4
      <4>2. QED
        BY <3>3, <3>4, <4>1 DEF PostOK
    <3>5. QED
      BY <1>1, <1>2, <3>1, <3>3, <3>4 DEF PostOK
  <2>3. QED
    BY <2>1, <2>2
<1>9. QED
  BY <1>6, <1>7, <1>8

LEMMA MessageBystanders ==
    ASSUME SlotTypes, asked' = asked, NEW m \in Messages, OfMessage(m), NEW n \in Messages, n # m
    PROVE  /\ call'[n] = call[n] /\ saw'[n] = saw[n] /\ (n \in own' <=> n \in own)
           /\ post' = post /\ Kind(n[1])' = Kind(n[1])
           /\ claimed[n[1]] => claimed'[n[1]]
<1>1. post' = post /\ Kind(n[1])' = Kind(n[1])
  BY DEF OfMessage, Keep, Claim, Count, ReadForCall, TakeForCall, Finish, AddListen, AddStream,
         RemoveStream, RemoveListen, Unattributed, Kind
<1>2. call'[n] = call[n]
  <2>1. \E c : call' = [call EXCEPT ![m] = c]
    BY DEF OfMessage, Keep, Claim, Count, ReadForCall, TakeForCall, Finish, AddListen, AddStream,
           RemoveStream, RemoveListen, Unattributed, CallGoes
  <2>2. QED
    BY <2>1 DEF SlotTypes
<1>3. saw'[n] = saw[n]
  <2>1. saw' = saw \/ \E x : saw' = [saw EXCEPT ![m] = x]
    BY DEF OfMessage, Keep, Claim, Count, ReadForCall, TakeForCall, Finish, AddListen, AddStream,
           RemoveStream, RemoveListen, Unattributed
  <2>2. n \in Requests \X (0..2)
    BY SawIsRead
  <2>3. QED
    BY <2>1, <2>2 DEF SlotTypes
<1>4. n \in own' <=> n \in own
  BY DEF OfMessage, Keep, Claim, Count, ReadForCall, TakeForCall, Finish, AddListen, AddStream,
         RemoveStream, RemoveListen, Unattributed
<1>5. claimed[n[1]] => claimed'[n[1]]
  <2>1. CASE Claim(m)
    <3>1. PICK found \in Found(m[1]) : claimed' = [claimed EXCEPT ![m[1]] = claimed[m[1]] \/ found]
      BY <2>1 DEF Claim
    <3>2. n[1] \in Requests
      BY SawIsRead
    <3>3. QED
      BY <3>1, <3>2 DEF SlotTypes
  <2>2. CASE ~Claim(m)
    BY <2>2 DEF OfMessage, Keep, Count, ReadForCall, TakeForCall, Finish, AddListen, AddStream,
           RemoveStream, RemoveListen, Unattributed
  <2>3. QED
    BY <2>1, <2>2
<1>6. QED
  BY <1>1, <1>2, <1>3, <1>4, <1>5

(* Who runs on the slot of its POST claimed it, where nobody had. *)
ClaimsNow(m) ==
    Claim(m) /\ post[m[1]] = "serving" /\ ~claimed[m[1]] /\ claimed'[m[1]]

LEMMA MessageGoes ==
    ASSUME SlotTypes, asked' = asked, NEW m \in Messages, MessageOK(m), OfMessage(m)
    PROVE  /\ MessageOK(m)'
           /\ call'[m] = "running" /\ Kind(m[1]) = "call" /\ m \notin own' => ClaimsNow(m)
<1> DEFINE Goal == /\ MessageOK(m)'
                   /\ call'[m] = "running" /\ Kind(m[1]) = "call" /\ m \notin own' => ClaimsNow(m)
<1>1. /\ \A c : call' = [call EXCEPT ![m] = c] => call'[m] = c
      /\ m[1] \in Requests /\ m \in Requests \X (0..2)
      /\ held \in Nat /\ HeldLimit \in Nat
  BY SawIsRead, GateAssumption DEF SlotTypes
<1>2. Kind(m[1])' = Kind(m[1]) /\ post' = post
  BY DEF OfMessage, Keep, Claim, Count, ReadForCall, TakeForCall, Finish, AddListen, AddStream,
         RemoveStream, RemoveListen, Unattributed, Kind
<1>3. CASE Keep(m)
  <2>1. call'[m] = "running" /\ Kind(m[1]) = "open" /\ own' = own /\ call[m] = "unsent"
    BY <1>1, <1>3 DEF Keep, CallGoes
  <2>2. QED
    BY <1>2, <2>1 DEF MessageOK
<1>4. CASE Claim(m)
  <2>1. Kind(m[1]) = "call" /\ own' = own /\ m \notin own /\ post[m[1]] = "serving"
    BY <1>4 DEF Claim, Dispatchable, CallGoes, MessageOK
  <2>2. PICK found \in Found(m[1]) :
           /\ call' = [call EXCEPT ![m] = IF found /\ ~claimed[m[1]] THEN "running" ELSE "counting"]
           /\ claimed' = [claimed EXCEPT ![m[1]] = claimed[m[1]] \/ found]
    BY <1>4 DEF Claim, CallGoes
  <2>3. claimed'[m[1]] = (claimed[m[1]] \/ found)
    BY <1>1, <2>2 DEF SlotTypes
  <2>4. CASE found /\ ~claimed[m[1]]
    <3>1. call'[m] = "running" /\ claimed'[m[1]]
      BY <1>1, <2>2, <2>3, <2>4
    <3>2. QED
      BY <1>2, <1>4, <2>1, <2>4, <3>1 DEF MessageOK, ClaimsNow
  <2>5. CASE ~(found /\ ~claimed[m[1]])
    <3>1. call'[m] = "counting"
      BY <1>1, <2>2, <2>5
    <3>2. QED
      BY <1>2, <2>1, <3>1 DEF MessageOK
  <2>6. QED
    BY <2>4, <2>5
<1>5. CASE Count(m)
  <2>1. call'[m] = "counting" /\ Kind(m[1]) = "batch" /\ own' = own /\ call[m] = "unsent"
    BY <1>1, <1>5 DEF Count, CallGoes
  <2>2. QED
    BY <1>2, <2>1 DEF MessageOK
<1>6. CASE ReadForCall(m)
  <2>1. Kind(m[1]) \in {"call", "batch"} /\ own' = own /\ m \notin own
    BY <1>6 DEF ReadForCall, CallGoes, MessageOK
  <2>2. CASE held >= HeldLimit
    <3>1. call'[m] = "over"
      BY <1>1, <1>6, <2>2 DEF ReadForCall, CallGoes, Taken
    <3>2. QED
      BY <1>2, <2>1, <3>1 DEF MessageOK
  <2>3. CASE ~(held >= HeldLimit)
    <3>1. call'[m] = "swapping" /\ saw' = [saw EXCEPT ![m] = held]
      BY <1>1, <1>6, <2>3 DEF ReadForCall, CallGoes, Taken
    <3>2. saw'[m] < HeldLimit
      BY <1>1, <2>3, <3>1 DEF SlotTypes
    <3>3. QED
      BY <1>2, <2>1, <3>1, <3>2 DEF MessageOK
  <2>4. QED
    BY <2>2, <2>3
<1>7. CASE TakeForCall(m)
  <2>1. /\ Kind(m[1]) \in {"call", "batch"} /\ m \notin own
        /\ \/ call'[m] = "running" /\ own' = own \cup {m}
           \/ call'[m] = "counting" /\ own' = own
    BY <1>1, <1>7 DEF TakeForCall, CallGoes, MessageOK
  <2>2. QED
    BY <1>2, <2>1 DEF MessageOK
<1>8. CASE Finish(m)
  <2>1. call'[m] = "over" /\ m \notin own'
    BY <1>1, <1>8 DEF Finish, CallGoes
  <2>2. QED
    BY <1>2, <2>1 DEF MessageOK
<1>9. CASE Unattributed(m) \/ AddListen(m) \/ AddStream(m) \/ RemoveStream(m) \/ RemoveListen(m)
  <2>1. Kind(m[1]) = "listen" /\ own' = own /\ m \notin own
    BY <1>9 DEF AddListen, AddStream, RemoveStream, RemoveListen, Unattributed, CallGoes, MessageOK
  <2>2. call'[m] \in {"added", "retracting", "removing", "running", "over"}
    BY <1>1, <1>9 DEF AddListen, AddStream, RemoveStream, RemoveListen, Unattributed, CallGoes
  <2>3. QED
    BY <1>2, <2>1, <2>2 DEF MessageOK
<1>10. QED
  BY <1>3, <1>4, <1>5, <1>6, <1>7, <1>8, <1>9 DEF OfMessage

LEMMA MessageKeepsMessages ==
    ASSUME SlotTypes, asked' = asked, \A n \in Messages : MessageOK(n), OneClaims,
           NEW m \in Messages, OfMessage(m)
    PROVE  (\A n \in Messages : MessageOK(n)') /\ OneClaims'
<1>1. ASSUME NEW n \in Messages, n # m PROVE MessageOK(n)'
  BY <1>1, MessageBystanders DEF MessageOK
<1>2. ASSUME NEW n \in Messages, n # m, n[1] = m[1], Kind(m[1]) = "call",
             call'[n] = "running", n \notin own', call'[m] = "running", m \notin own'
      PROVE  FALSE
  <2>1. ~claimed[m[1]]
    BY <1>2, MessageGoes DEF ClaimsNow
  <2>2. call[n] = "running" /\ n \notin own
    BY <1>2, MessageBystanders
  <2>3. QED
    BY <1>2, <2>1, <2>2 DEF MessageOK
<1>3. ASSUME NEW n1 \in Messages, NEW n2 \in Messages, n1[1] = n2[1], Kind(n1[1])' = "call",
             call'[n1] = "running", n1 \notin own', call'[n2] = "running", n2 \notin own'
      PROVE  n1 = n2
  <2>1. Kind(n1[1]) = "call"
    BY <1>3 DEF Kind
  <2>2. CASE n1 # m /\ n2 # m
    BY <1>3, <2>1, <2>2, MessageBystanders DEF OneClaims
  <2>3. CASE n1 = m \/ n2 = m
    BY <1>2, <1>3, <2>1, <2>3
  <2>4. QED
    BY <2>2, <2>3
<1>4. OneClaims'
  BY <1>3 DEF OneClaims
<1>5. QED
  BY <1>1, <1>4, MessageGoes

-----------------------------------------------------------------------------
(* The counts *)

Listed(e) == OfEntry({"added", "running", "removing", "retracting"}, e)

(* What SlotsAreHeld says of the counts of POSTs and calls, and of streams. *)
HeldIsCounted ==
    /\ sessions = Cardinality(Keepers) + Cardinality(Opening)
    /\ held = Cardinality(Keepers) + Cardinality(GateHolders) + Cardinality(own)
StreamsAreCounted ==
    /\ streams = Cardinality(Listening({"running", "removing"}))
    /\ \A e \in Requests : listens[e] = Cardinality(Listed(e))

LEMMA CountsSplit == SlotsAreHeld <=> HeldIsCounted /\ StreamsAreCounted
BY DEF SlotsAreHeld, HeldIsCounted, StreamsAreCounted, Listed, OfEntry

HeldCeilings == held <= HeldLimit /\ sessions <= SessionLimit
StreamCeilings ==
    /\ Cardinality(Listening({"running"})) <= ProcessListens
    /\ \A e \in Requests : Cardinality(OfEntry({"added", "running", "removing"}, e)) <= ListenLimit

LEMMA CeilingsSplit == Ceilings <=> HeldCeilings /\ StreamCeilings
BY DEF Ceilings, HeldCeilings, StreamCeilings

LEMMA CountsAreNat ==
    ASSUME SlotTypes
    PROVE  /\ Cardinality(Keepers) \in Nat /\ Cardinality(Opening) \in Nat
           /\ Cardinality(GateHolders) \in Nat /\ Cardinality(own) \in Nat
           /\ held \in Nat /\ sessions \in Nat /\ streams \in Nat
           /\ \A e \in Requests : listens[e] \in Nat
           /\ HeldLimit \in Nat /\ SessionLimit \in Nat /\ ProcessListens \in Nat /\ ListenLimit \in Nat
BY HoldersAreFinite, FS_CardinalityType, GateAssumption DEF SlotTypes

(* A step of a POST moves it to p and its slot to s; it makes k more keepers, o
   more that open a session and g more calls, and the counts move with them.  *)
MovesPost(r, p, s, k, o, g) ==
    /\ post' = [post EXCEPT ![r] = p]
    /\ slot' = [slot EXCEPT ![r] = s]
    /\ k \in Int /\ o \in Int /\ g \in Int
    /\ k = In(s \in Keeping) - In(slot[r] \in Keeping)
    /\ o = In(p \in {"stream?", "stream!"}) - In(post[r] \in {"stream?", "stream!"})
    /\ g = In(Kind(r) = "call" /\ p \in {"serving", "returned"})
             - In(Kind(r) = "call" /\ post[r] \in {"serving", "returned"})
    /\ sessions' = sessions + k + o
    /\ held' = held + k + g

LEMMA PostMoves ==
    ASSUME SlotTypes, HeldIsCounted, asked' = asked, own' = own,
           NEW r \in Requests, NEW p, NEW s, NEW k, NEW o, NEW g, MovesPost(r, p, s, k, o, g)
    PROVE  HeldIsCounted' /\ held' \in Nat /\ sessions' \in Nat
<1>1. /\ Cardinality(Keepers') \in Nat
      /\ Cardinality(Keepers') = Cardinality(Keepers) + In(s \in Keeping) - In(slot[r] \in Keeping)
  BY KeepersMove DEF MovesPost
<1>2. /\ Cardinality(Opening') \in Nat
      /\ Cardinality(Opening') = Cardinality(Opening)
           + In(p \in {"stream?", "stream!"}) - In(post[r] \in {"stream?", "stream!"})
  BY OpeningMove DEF MovesPost
<1>3. /\ Cardinality(GateHolders') \in Nat
      /\ Cardinality(GateHolders') = Cardinality(GateHolders)
           + In(Kind(r) = "call" /\ p \in {"serving", "returned"})
           - In(Kind(r) = "call" /\ post[r] \in {"serving", "returned"})
  BY GateHoldersMove DEF MovesPost
<1>4. \A b : In(b) \in Int
  BY DEF In
<1>5. /\ Cardinality(Keepers') = Cardinality(Keepers) + k
      /\ Cardinality(Opening') = Cardinality(Opening) + o
      /\ Cardinality(GateHolders') = Cardinality(GateHolders) + g
  BY <1>1, <1>2, <1>3, <1>4, CountsAreNat DEF MovesPost
<1>6. /\ k \in Int /\ o \in Int /\ g \in Int
      /\ sessions' = sessions + k + o /\ held' = held + k + g
  BY DEF MovesPost
<1>7. /\ sessions' = Cardinality(Keepers') + Cardinality(Opening')
      /\ held' = Cardinality(Keepers') + Cardinality(GateHolders') + Cardinality(own)
  BY <1>5, <1>6, CountsAreNat DEF HeldIsCounted
<1>8. Cardinality(own) \in Nat
  BY CountsAreNat
<1>9. QED
  BY <1>1, <1>2, <1>3, <1>7, <1>8 DEF HeldIsCounted

LEMMA PostKeepsCounts ==
    ASSUME SlotTypes, asked' = asked, HeldIsCounted, HeldCeilings,
           NEW r \in Requests, PostOK(r), OfPost(r)
    PROVE  HeldIsCounted' /\ held' \in Nat /\ sessions' \in Nat /\ HeldCeilings'
<1>1. own' = own
  BY DEF OfPost, Enter, ReadSessions, TakeSession, ReadStream, TakeStream, ReadHeld, TakeHeld,
         Abandon, Return, Leave, EndSession, GiveBack
<1>2. /\ slot' = slot => slot' = [slot EXCEPT ![r] = slot[r]]
      /\ post' = post => post' = [post EXCEPT ![r] = post[r]]
  BY DEF SlotTypes
<1>3. /\ held \in Nat /\ sessions \in Nat /\ HeldLimit \in Nat /\ SessionLimit \in Nat
      /\ held <= HeldLimit /\ sessions <= SessionLimit /\ saw[<<r, 0>>] \in Nat
  BY CountsAreNat, SawIsRead DEF HeldCeilings
<1>4. CASE Enter(r)
  <2>1. PICK p \in {"sessions?", "held?", "serving", "done"} :
           post' = [post EXCEPT ![r] = p] /\ (p = "serving" => Kind(r) # "call")
    BY <1>4 DEF Enter, Goes, counts
  <2>2. slot' = slot /\ held' = held /\ sessions' = sessions /\ post[r] = "outside"
    BY <1>4 DEF Enter, Goes, counts
  <2>3. HeldIsCounted' /\ held' \in Nat /\ sessions' \in Nat
    <3>1. MovesPost(r, p, slot[r], 0, 0, 0)
      BY <1>1, <1>2, <1>3, <2>1, <2>2 DEF MovesPost, In, Keeping
    <3>2. QED
      BY <1>1, <3>1, PostMoves
  <2>4. QED
    BY <1>3, <2>2, <2>3 DEF HeldCeilings
<1>5. CASE ReadSessions(r) \/ ReadHeld(r)
  <2>1. PICK p \in {"busy", "sessions!", "held!"} : post' = [post EXCEPT ![r] = p]
    BY <1>5 DEF ReadSessions, ReadHeld, Reads, counts
  <2>2. /\ slot' = slot /\ held' = held /\ sessions' = sessions
        /\ post[r] \in {"sessions?", "held?"}
    BY <1>5 DEF ReadSessions, ReadHeld, Reads, counts
  <2>3. HeldIsCounted' /\ held' \in Nat /\ sessions' \in Nat
    <3>1. MovesPost(r, p, slot[r], 0, 0, 0)
      BY <1>1, <1>2, <1>3, <2>1, <2>2 DEF MovesPost, In, Keeping
    <3>2. QED
      BY <1>1, <3>1, PostMoves
  <2>4. QED
    BY <1>3, <2>2, <2>3 DEF HeldCeilings
<1>6. CASE TakeSession(r)
  <2>1. slot' = slot /\ held' = held /\ post[r] = "sessions!" /\ saw[<<r, 0>>] < SessionLimit
    BY <1>6 DEF TakeSession, Swaps, PostOK
  <2>2. CASE sessions = saw[<<r, 0>>]
    <3>1. sessions' = sessions + 1 /\ post' = [post EXCEPT ![r] = "stream?"]
      BY <1>6, <2>2 DEF TakeSession, Swaps
    <3>2. HeldIsCounted' /\ held' \in Nat /\ sessions' \in Nat
      <4>1. MovesPost(r, "stream?", slot[r], 0, 1, 0)
        BY <1>1, <1>2, <1>3, <2>1, <3>1 DEF MovesPost, In, Keeping
      <4>2. QED
        BY <1>1, <4>1, PostMoves
    <3>3. QED
      BY <1>3, <2>1, <2>2, <3>1, <3>2 DEF HeldCeilings
  <2>3. CASE sessions # saw[<<r, 0>>]
    <3>1. sessions' = sessions /\ post' = [post EXCEPT ![r] = "sessions?"]
      BY <1>6, <2>3 DEF TakeSession, Swaps
    <3>2. HeldIsCounted' /\ held' \in Nat /\ sessions' \in Nat
      <4>1. MovesPost(r, "sessions?", slot[r], 0, 0, 0)
        BY <1>1, <1>2, <1>3, <2>1, <3>1 DEF MovesPost, In, Keeping
      <4>2. QED
        BY <1>1, <4>1, PostMoves
    <3>3. QED
      BY <1>3, <2>1, <3>1, <3>2 DEF HeldCeilings
  <2>4. QED
    BY <2>2, <2>3
<1>7. CASE ReadStream(r)
  <2>1. slot' = slot /\ held' = held /\ post[r] = "stream?"
    BY <1>7 DEF ReadStream, Reads
  <2>2. CASE Taken(held, HeldLimit)
    <3>1. sessions' = sessions - 1 /\ post' = [post EXCEPT ![r] = "busy"]
      BY <1>7, <2>2 DEF ReadStream, Reads
    <3>2. HeldIsCounted' /\ held' \in Nat /\ sessions' \in Nat
      <4>1. MovesPost(r, "busy", slot[r], 0, -1, 0)
        BY <1>1, <1>2, <1>3, <2>1, <3>1 DEF MovesPost, In, Keeping
      <4>2. QED
        BY <1>1, <4>1, PostMoves
    <3>3. QED
      BY <1>3, <2>1, <3>1, <3>2 DEF HeldCeilings
  <2>3. CASE ~Taken(held, HeldLimit)
    <3>1. sessions' = sessions /\ post' = [post EXCEPT ![r] = "stream!"]
      BY <1>7, <2>3 DEF ReadStream, Reads
    <3>2. HeldIsCounted' /\ held' \in Nat /\ sessions' \in Nat
      <4>1. MovesPost(r, "stream!", slot[r], 0, 0, 0)
        BY <1>1, <1>2, <1>3, <2>1, <3>1 DEF MovesPost, In, Keeping
      <4>2. QED
        BY <1>1, <4>1, PostMoves
    <3>3. QED
      BY <1>3, <2>1, <3>1, <3>2 DEF HeldCeilings
  <2>4. QED
    BY <2>2, <2>3
<1>8. CASE TakeStream(r)
  <2>1. /\ sessions' = sessions /\ post[r] = "stream!" /\ saw[<<r, 0>>] < HeldLimit
        /\ slot[r] = "none" /\ Kind(r) = "open"
    BY <1>8 DEF TakeStream, Swaps, PostOK
  <2>2. CASE held = saw[<<r, 0>>]
    <3>1. /\ held' = held + 1 /\ post' = [post EXCEPT ![r] = "serving"]
          /\ slot' = [slot EXCEPT ![r] = "gate"]
      BY <1>8, <2>2 DEF TakeStream, Swaps
    <3>2. HeldIsCounted' /\ held' \in Nat /\ sessions' \in Nat
      <4>1. MovesPost(r, "serving", "gate", 1, -1, 0)
        BY <1>1, <1>3, <2>1, <3>1 DEF MovesPost, In, Keeping
      <4>2. QED
        BY <1>1, <4>1, PostMoves
    <3>3. QED
      BY <1>3, <2>1, <2>2, <3>1, <3>2 DEF HeldCeilings
  <2>3. CASE held # saw[<<r, 0>>]
    <3>1. held' = held /\ slot' = slot /\ post' = [post EXCEPT ![r] = "stream?"]
      BY <1>8, <2>3 DEF TakeStream, Swaps
    <3>2. HeldIsCounted' /\ held' \in Nat /\ sessions' \in Nat
      <4>1. MovesPost(r, "stream?", slot[r], 0, 0, 0)
        BY <1>1, <1>2, <1>3, <2>1, <3>1 DEF MovesPost, In, Keeping
      <4>2. QED
        BY <1>1, <4>1, PostMoves
    <3>3. QED
      BY <1>3, <2>1, <3>1, <3>2 DEF HeldCeilings
  <2>4. QED
    BY <2>2, <2>3
<1>9. CASE TakeHeld(r)
  <2>1. /\ slot' = slot /\ sessions' = sessions /\ post[r] = "held!" /\ Kind(r) = "call"
        /\ saw[<<r, 0>>] < HeldLimit
    BY <1>9 DEF TakeHeld, Swaps, PostOK
  <2>2. CASE held = saw[<<r, 0>>]
    <3>1. held' = held + 1 /\ post' = [post EXCEPT ![r] = "serving"]
      BY <1>9, <2>2 DEF TakeHeld, Swaps
    <3>2. HeldIsCounted' /\ held' \in Nat /\ sessions' \in Nat
      <4>1. MovesPost(r, "serving", slot[r], 0, 0, 1)
        BY <1>1, <1>2, <1>3, <2>1, <3>1 DEF MovesPost, In, Keeping
      <4>2. QED
        BY <1>1, <4>1, PostMoves
    <3>3. QED
      BY <1>3, <2>1, <2>2, <3>1, <3>2 DEF HeldCeilings
  <2>3. CASE held # saw[<<r, 0>>]
    <3>1. held' = held /\ post' = [post EXCEPT ![r] = "held?"]
      BY <1>9, <2>3 DEF TakeHeld, Swaps
    <3>2. HeldIsCounted' /\ held' \in Nat /\ sessions' \in Nat
      <4>1. MovesPost(r, "held?", slot[r], 0, 0, 0)
        BY <1>1, <1>2, <1>3, <2>1, <3>1 DEF MovesPost, In, Keeping
      <4>2. QED
        BY <1>1, <4>1, PostMoves
    <3>3. QED
      BY <1>3, <2>1, <3>1, <3>2 DEF HeldCeilings
  <2>4. QED
    BY <2>2, <2>3
<1>10. CASE Abandon(r) \/ EndSession(r)
  <2>1. post' = post /\ slot' = slot /\ held' = held /\ sessions' = sessions
    BY <1>10 DEF Abandon, EndSession, counts
  <2>2. HeldIsCounted' /\ held' \in Nat /\ sessions' \in Nat
    <3>1. MovesPost(r, post[r], slot[r], 0, 0, 0)
      BY <1>1, <1>2, <1>3, <2>1 DEF MovesPost, In, Keeping
    <3>2. QED
      BY <1>1, <3>1, PostMoves
  <2>3. QED
    BY <1>3, <2>1, <2>2 DEF HeldCeilings
<1>11. CASE Return(r)
  <2>1. /\ post[r] = "serving" /\ post' = [post EXCEPT ![r] = "returned"]
        /\ slot' = slot /\ held' = held /\ sessions' = sessions
    BY <1>11 DEF Return, Goes, counts
  <2>2. HeldIsCounted' /\ held' \in Nat /\ sessions' \in Nat
    <3>1. MovesPost(r, "returned", slot[r], 0, 0, 0)
      BY <1>1, <1>2, <1>3, <2>1 DEF MovesPost, In, Keeping
    <3>2. QED
      BY <1>1, <3>1, PostMoves
  <2>3. QED
    BY <1>3, <2>1, <2>2 DEF HeldCeilings
<1>12. CASE Leave(r)
  <2>1. post[r] = "returned" /\ post' = [post EXCEPT ![r] = "done"]
    BY <1>12 DEF Leave, Goes
  <2>2. CASE slot[r] = "gate"
    <3>1. /\ held' = held - 1 /\ sessions' = sessions - 1
          /\ slot' = [slot EXCEPT ![r] = "given"] /\ Kind(r) = "open"
      BY <1>12, <2>2 DEF Leave, PostOK
    <3>2. HeldIsCounted' /\ held' \in Nat /\ sessions' \in Nat
      <4>1. MovesPost(r, "done", "given", -1, 0, 0)
        BY <1>1, <1>3, <2>1, <2>2, <3>1 DEF MovesPost, In, Keeping
      <4>2. QED
        BY <1>1, <4>1, PostMoves
    <3>3. QED
      BY <1>3, <3>1, <3>2 DEF HeldCeilings
  <2>3. CASE slot[r] # "gate"
    <3>1. slot' = slot /\ sessions' = sessions /\ held' = IF Kind(r) = "call" THEN held - 1 ELSE held
      BY <1>12, <2>3 DEF Leave
    <3>2. HeldIsCounted' /\ held' \in Nat /\ sessions' \in Nat
      <4>1. MovesPost(r, "done", slot[r], 0, 0, IF Kind(r) = "call" THEN -1 ELSE 0)
        BY <1>1, <1>2, <1>3, <2>1, <3>1 DEF MovesPost, In, Keeping
      <4>2. QED
        BY <1>1, <4>1, PostMoves
    <3>3. QED
      BY <1>3, <3>1, <3>2 DEF HeldCeilings
  <2>4. QED
    BY <2>2, <2>3
<1>13. CASE GiveBack(r)
  <2>1. /\ slot[r] = "session" /\ slot' = [slot EXCEPT ![r] = "given"] /\ post' = post
        /\ held' = held - 1 /\ sessions' = sessions - 1
    BY <1>13 DEF GiveBack
  <2>2. HeldIsCounted' /\ held' \in Nat /\ sessions' \in Nat
    <3>1. MovesPost(r, post[r], "given", -1, 0, 0)
      BY <1>1, <1>2, <1>3, <2>1 DEF MovesPost, In, Keeping
    <3>2. QED
      BY <1>1, <3>1, PostMoves
  <2>3. QED
    BY <1>3, <2>1, <2>2 DEF HeldCeilings
<1>14. QED
  BY <1>4, <1>5, <1>6, <1>7, <1>8, <1>9, <1>10, <1>11, <1>12, <1>13 DEF OfPost

LEMMA PostKeepsStreams ==
    ASSUME SlotTypes, UNCHANGED <<asked, entry>>, StreamsAreCounted, StreamCeilings, NEW r \in Requests, OfPost(r)
    PROVE  StreamsAreCounted' /\ StreamCeilings' /\ streams' = streams /\ listens' = listens
<1>1. call' = call /\ streams' = streams /\ listens' = listens
  BY DEF OfPost, Enter, ReadSessions, TakeSession, ReadStream, TakeStream, ReadHeld, TakeHeld,
         Abandon, Return, Leave, EndSession, GiveBack, counts
<1>2. \A S : Listening(S)' = Listening(S)
  BY <1>1 DEF Listening, Kind
<1>3. \A S : \A e : OfEntry(S, e)' = OfEntry(S, e)
  BY <1>2 DEF OfEntry
<1>4. QED
  BY <1>1, <1>2, <1>3 DEF StreamsAreCounted, StreamCeilings, Listed

LEMMA MessageKeepsHeld ==
    ASSUME SlotTypes, asked' = asked, HeldIsCounted, HeldCeilings,
           NEW m \in Messages, MessageOK(m), OfMessage(m)
    PROVE  HeldIsCounted' /\ held' \in Nat /\ sessions' \in Nat /\ HeldCeilings'
<1>1. sessions' = sessions /\ Opening' = Opening /\ GateHolders' = GateHolders
  <2>1. post' = post /\ sessions' = sessions
    BY DEF OfMessage, Keep, Claim, Count, ReadForCall, TakeForCall, Finish, AddListen, AddStream,
           RemoveStream, RemoveListen, Unattributed, counts
  <2>2. QED
    BY <2>1 DEF Opening, GateHolders, Kind
<1>2. Cardinality(Keepers') = Cardinality(Keepers)
  <2>1. CASE Keep(m)
    <3>1. m[1] \in Requests
      BY SawIsRead
    <3>2. PICK s \in {"session", slot[m[1]]} :
             slot' = [slot EXCEPT ![m[1]] = s] /\ (s \in Keeping <=> slot[m[1]] \in Keeping)
      BY <2>1 DEF Keep, Keeping
    <3>3. In(s \in Keeping) = In(slot[m[1]] \in Keeping) /\ In(s \in Keeping) \in Int
      BY <3>2 DEF In
    <3>4. /\ Cardinality(Keepers) \in Nat /\ Cardinality(Keepers') \in Nat
          /\ Cardinality(Keepers')
               = Cardinality(Keepers) + In(s \in Keeping) - In(slot[m[1]] \in Keeping)
      BY <3>1, <3>2, KeepersMove
    <3>5. QED
      BY <3>3, <3>4
  <2>2. CASE ~Keep(m)
    <3>1. slot' = slot
      BY <2>2 DEF OfMessage, Claim, Count, ReadForCall, TakeForCall, Finish, AddListen, AddStream,
             RemoveStream, RemoveListen, Unattributed
    <3>2. Keepers' = Keepers
      BY <3>1 DEF Keepers
    <3>3. QED
      BY <3>2
  <2>3. QED
    BY <2>1, <2>2
<1>3. /\ held \in Nat /\ sessions \in Nat /\ HeldLimit \in Nat /\ SessionLimit \in Nat
      /\ held <= HeldLimit /\ sessions <= SessionLimit /\ Cardinality(own) \in Nat
      /\ Cardinality(Keepers) \in Nat /\ Cardinality(Opening) \in Nat /\ Cardinality(GateHolders) \in Nat
  BY CountsAreNat DEF HeldCeilings
<1>4. \E d \in {-1, 0, 1} :
        /\ held' = held + d /\ held + d <= HeldLimit
        /\ Cardinality(own') = Cardinality(own) + d /\ Cardinality(own') \in Nat
  <2>1. CASE TakeForCall(m) /\ held = saw[m]
    <3>1. held' = held + 1 /\ own' = own \cup {m} /\ held < HeldLimit /\ m \notin own
      BY <2>1 DEF TakeForCall, CallGoes, MessageOK
    <3>2. IsFiniteSet(own)
      BY HoldersAreFinite
    <3>3. Cardinality(own \cup {m}) = Cardinality(own) + 1
      BY <3>1, <3>2, FS_AddElement
    <3>4. QED
      BY <1>3, <3>1, <3>3
  <2>2. CASE Finish(m) /\ m \in own
    <3>1. held' = held - 1 /\ own' = own \ {m}
      BY <2>2 DEF Finish
    <3>2. IsFiniteSet(own)
      BY HoldersAreFinite
    <3>3. IsFiniteSet(own \ {m}) /\ Cardinality(own \ {m}) = Cardinality(own) - 1
      BY <2>2, <3>2, FS_RemoveElement
    <3>4. Cardinality(own \ {m}) \in Nat
      BY <3>3, FS_CardinalityType
    <3>5. QED
      BY <1>3, <3>1, <3>3, <3>4
  <2>3. CASE ~(TakeForCall(m) /\ held = saw[m]) /\ ~(Finish(m) /\ m \in own)
    <3>1. CASE Finish(m)
      <4>1. held' = held /\ own' = own \ {m} /\ m \notin own
        BY <2>3, <3>1 DEF Finish
      <4>2. own' = own
        BY <4>1
      <4>3. QED
        BY <1>3, <4>1, <4>2
    <3>2. CASE ~Finish(m)
      <4>1. held' = held /\ own' = own
        BY <2>3, <3>2 DEF OfMessage, Keep, Claim, Count, ReadForCall, TakeForCall, AddListen, AddStream,
               RemoveStream, RemoveListen, Unattributed, counts
      <4>2. QED
        BY <1>3, <4>1
    <3>3. QED
      BY <3>1, <3>2
  <2>4. QED
    BY <2>1, <2>2, <2>3
<1>5. /\ sessions' = Cardinality(Keepers') + Cardinality(Opening')
      /\ held' = Cardinality(Keepers') + Cardinality(GateHolders') + Cardinality(own')
      /\ held' <= HeldLimit /\ held' \in Nat /\ sessions' \in Nat /\ sessions' <= SessionLimit
  BY <1>1, <1>2, <1>3, <1>4 DEF HeldIsCounted
<1>6. QED
  BY <1>5 DEF HeldIsCounted, HeldCeilings

(* A step of a message takes it to c; it makes k more streams and l more of its
   entry, and the counts move with them.                                 *)
StreamMoves(m, c, k, l) ==
    /\ call' = [call EXCEPT ![m] = c]
    /\ k \in Int /\ l \in Int
    /\ k = In(Kind(m[1]) = "listen" /\ c \in {"running", "removing"})
             - In(Kind(m[1]) = "listen" /\ call[m] \in {"running", "removing"})
    /\ l = In(Kind(m[1]) = "listen" /\ c \in {"added", "running", "removing", "retracting"})
             - In(Kind(m[1]) = "listen" /\ call[m] \in {"added", "running", "removing", "retracting"})
    /\ streams' = streams + k
    /\ listens' \in [Requests -> Int]
    /\ \A e \in Requests : listens'[e] = IF entry[m[1]] = e THEN listens[e] + l ELSE listens[e]

LEMMA MessageMoves ==
    ASSUME SlotTypes, StreamsAreCounted, UNCHANGED <<asked, entry>>, NEW m \in Messages, NEW c, NEW k, NEW l,
           StreamMoves(m, c, k, l)
    PROVE  StreamsAreCounted' /\ streams' \in Nat /\ listens' \in [Requests -> Nat]
<1>1. \A b : In(b) \in Int
  BY DEF In
<1>2. call' = [call EXCEPT ![m] = c]
  BY DEF StreamMoves
<1>3. streams' = Cardinality(Listening({"running", "removing"})') /\ streams' \in Nat
  <2>1. PICK S : S = {"running", "removing"}
    OBVIOUS
  <2>2. /\ Cardinality(Listening(S)) \in Nat /\ Cardinality(Listening(S)') \in Nat
        /\ Cardinality(Listening(S)') = Cardinality(Listening(S))
             + In(Kind(m[1]) = "listen" /\ c \in S) - In(Kind(m[1]) = "listen" /\ call[m] \in S)
    BY <1>2, ListeningMove
  <2>3. /\ streams' = streams + k /\ streams = Cardinality(Listening(S))
        /\ k = In(Kind(m[1]) = "listen" /\ c \in S) - In(Kind(m[1]) = "listen" /\ call[m] \in S)
    BY <2>1 DEF StreamMoves, StreamsAreCounted
  <2>4. streams' = Cardinality(Listening(S)') /\ streams' \in Nat
    BY <1>1, <2>2, <2>3
  <2>5. QED
    BY <2>1, <2>4
<1>4. ASSUME NEW e \in Requests
      PROVE  listens'[e] = Cardinality(Listed(e)') /\ listens'[e] \in Nat
  <2>1. PICK S : S = {"added", "running", "removing", "retracting"}
    OBVIOUS
  <2>2. /\ Cardinality(OfEntry(S, e)) \in Nat /\ Cardinality(OfEntry(S, e)') \in Nat
        /\ Cardinality(OfEntry(S, e)') = Cardinality(OfEntry(S, e))
             + In(Kind(m[1]) = "listen" /\ c \in S /\ entry[m[1]] = e)
             - In(Kind(m[1]) = "listen" /\ call[m] \in S /\ entry[m[1]] = e)
    <3>1. EntryMoves(m, c, S, e)
      BY <1>2, OfEntryMove
    <3>2. QED
      BY <3>1 DEF EntryMoves
  <2>3. /\ l = In(Kind(m[1]) = "listen" /\ c \in S) - In(Kind(m[1]) = "listen" /\ call[m] \in S)
        /\ listens'[e] = IF entry[m[1]] = e THEN listens[e] + l ELSE listens[e]
        /\ listens[e] = Cardinality(OfEntry(S, e))
    BY <2>1 DEF StreamMoves, StreamsAreCounted, Listed
  <2>4. listens'[e] = Cardinality(OfEntry(S, e)')
    <3>1. CASE entry[m[1]] = e
      <4>1. /\ In(Kind(m[1]) = "listen" /\ c \in S /\ entry[m[1]] = e) = In(Kind(m[1]) = "listen" /\ c \in S)
            /\ In(Kind(m[1]) = "listen" /\ call[m] \in S /\ entry[m[1]] = e)
                 = In(Kind(m[1]) = "listen" /\ call[m] \in S)
        BY <3>1 DEF In
      <4>2. QED
        BY <1>1, <2>2, <2>3, <3>1, <4>1
    <3>2. CASE entry[m[1]] # e
      <4>1. /\ In(Kind(m[1]) = "listen" /\ c \in S /\ entry[m[1]] = e) = 0
            /\ In(Kind(m[1]) = "listen" /\ call[m] \in S /\ entry[m[1]] = e) = 0
        BY <3>2 DEF In
      <4>2. QED
        BY <2>2, <2>3, <3>2, <4>1
    <3>3. QED
      BY <3>1, <3>2
  <2>5. Listed(e)' = OfEntry(S, e)'
    BY <2>1 DEF Listed
  <2>6. QED
    BY <2>2, <2>4, <2>5
<1>5. listens' \in [Requests -> Nat]
  BY <1>4 DEF StreamMoves
<1>6. QED
  BY <1>3, <1>4, <1>5 DEF StreamsAreCounted

(* Who is in one stage of a stream is in several. *)
LEMMA StagesNest ==
    ASSUME NEW S, NEW T, S \subseteq T
    PROVE  /\ Cardinality(Listening(S)') <= Cardinality(Listening(T)')
           /\ \A e : Cardinality(OfEntry(S, e)') <= Cardinality(OfEntry(T, e)')
<1>1. Listening(S)' \subseteq Listening(T)' /\ IsFiniteSet(Listening(T)')
  <2>1. Listening(S)' \subseteq Listening(T)' /\ Listening(T)' \subseteq Messages
    BY DEF Listening
  <2>2. QED
    BY <2>1, MessagesAreFinite, FS_Subset
<1>2. ASSUME NEW e PROVE Cardinality(OfEntry(S, e)') <= Cardinality(OfEntry(T, e)')
  <2>1. OfEntry(S, e)' \subseteq OfEntry(T, e)' /\ OfEntry(T, e)' \subseteq Messages
    BY DEF OfEntry, Listening
  <2>2. IsFiniteSet(OfEntry(T, e)')
    BY <2>1, MessagesAreFinite, FS_Subset
  <2>3. PICK A : A = OfEntry(S, e)'
    OBVIOUS
  <2>4. PICK B : B = OfEntry(T, e)'
    OBVIOUS
  <2>5. Cardinality(A) <= Cardinality(B)
    BY <2>1, <2>2, <2>3, <2>4, FS_Subset
  <2>6. QED
    BY <2>3, <2>4, <2>5
<1>3. Cardinality(Listening(S)') <= Cardinality(Listening(T)')
  <2>1. PICK A : A = Listening(S)'
    OBVIOUS
  <2>2. PICK B : B = Listening(T)'
    OBVIOUS
  <2>3. Cardinality(A) <= Cardinality(B)
    BY <1>1, <2>1, <2>2, FS_Subset
  <2>4. QED
    BY <2>1, <2>2, <2>3
<1>4. QED
  BY <1>2, <1>3

(* The stages in which a stream is open for its entry. *)
Open == {"added", "running", "removing"}

(* The ceilings hold if they do for the stage a message comes to. *)
LEMMA StaysBelow ==
    ASSUME SlotTypes, UNCHANGED <<asked, entry>>, StreamCeilings,
           NEW m \in Messages, NEW c, call' = [call EXCEPT ![m] = c],
           c = "running" => Cardinality(Listening({"running"})') <= ProcessListens,
           \A e \in Requests : c \in Open /\ call[m] \notin Open /\ entry[m[1]] = e
              => Cardinality(OfEntry(Open, e)') <= ListenLimit
    PROVE  StreamCeilings'
<1>1. \A b : In(b) \in {0, 1} /\ (~b => In(b) = 0) /\ (b => In(b) = 1)
  BY DEF In
<1>2. ProcessListens \in Nat /\ ListenLimit \in Nat
  BY GateAssumption
<1>3. ASSUME c # "running" PROVE Cardinality(Listening({"running"})') <= ProcessListens
  <2>1. PICK S : S = {"running"}
    OBVIOUS
  <2>2. /\ Cardinality(Listening(S)) \in Nat /\ Cardinality(Listening(S)') \in Nat
        /\ Cardinality(Listening(S)') = Cardinality(Listening(S))
             + In(Kind(m[1]) = "listen" /\ c \in S) - In(Kind(m[1]) = "listen" /\ call[m] \in S)
    BY ListeningMove
  <2>3. In(Kind(m[1]) = "listen" /\ c \in S) = 0
    BY <1>3, <2>1 DEF In
  <2>4. Cardinality(Listening(S)') <= Cardinality(Listening(S))
    BY <1>1, <2>2, <2>3
  <2>5. Cardinality(Listening(S)) <= ProcessListens
    BY <2>1 DEF StreamCeilings
  <2>6. Cardinality(Listening(S)') <= ProcessListens
    BY <1>2, <2>2, <2>4, <2>5
  <2>7. QED
    BY <2>1, <2>6
<1>4. Cardinality(Listening({"running"})') <= ProcessListens
  BY <1>3
<1>5. ASSUME NEW e \in Requests PROVE Cardinality(OfEntry(Open, e)') <= ListenLimit
  <2>1. CASE c \in Open /\ call[m] \notin Open /\ entry[m[1]] = e
    BY <2>1
  <2>2. CASE ~(c \in Open /\ call[m] \notin Open /\ entry[m[1]] = e)
    <3>1. PICK S : S = Open
      OBVIOUS
    <3>2. EntryMoves(m, c, S, e)
      BY OfEntryMove
    <3>3. \/ In(Kind(m[1]) = "listen" /\ c \in S /\ entry[m[1]] = e) = 0
          \/ In(Kind(m[1]) = "listen" /\ c \in S /\ entry[m[1]] = e)
               = In(Kind(m[1]) = "listen" /\ call[m] \in S /\ entry[m[1]] = e)
      BY <2>2, <3>1 DEF In
    <3>4. Cardinality(OfEntry(S, e)') <= Cardinality(OfEntry(S, e))
      BY <1>1, <3>2, <3>3 DEF EntryMoves
    <3>5. Cardinality(OfEntry(S, e)) <= ListenLimit
      BY <3>1 DEF StreamCeilings, Open
    <3>6. Cardinality(OfEntry(S, e)') <= ListenLimit
      BY <1>2, <3>2, <3>4, <3>5 DEF EntryMoves
    <3>7. QED
      BY <3>1, <3>6
  <2>3. QED
    BY <2>1, <2>2
<1>6. QED
  BY <1>4, <1>5 DEF StreamCeilings, Open

LEMMA ListenKeepsStreams ==
    ASSUME SlotTypes, UNCHANGED <<asked, entry>>, StreamsAreCounted, StreamCeilings, NEW m \in Messages,
           MessageOK(m),
           Unattributed(m) \/ AddListen(m) \/ AddStream(m) \/ RemoveStream(m) \/ RemoveListen(m)
    PROVE  StreamsAreCounted' /\ streams' \in Nat /\ listens' \in [Requests -> Nat] /\ StreamCeilings'
<1>1. Kind(m[1]) = "listen"
  BY DEF AddListen, AddStream, RemoveStream, RemoveListen, Unattributed, CallGoes, MessageOK
<1>2. /\ streams \in Nat /\ listens \in [Requests -> Nat] /\ ListenLimit \in Nat /\ ProcessListens \in Nat
      /\ m[1] \in Requests
  BY CountsAreNat, SawIsRead DEF SlotTypes
<1>3. CASE AddListen(m)
  <2>1. PICK c \in {"added", "retracting"} :
          /\ call' = [call EXCEPT ![m] = c]
          /\ c = "added" => ~(listens'[entry[m[1]]] > ListenLimit)
    BY <1>3 DEF AddListen, CallGoes
  <2>2. /\ call[m] = "unsent" /\ streams' = streams
        /\ listens' = [listens EXCEPT ![entry[m[1]]] = listens[entry[m[1]]] + 1]
    BY <1>3 DEF AddListen, CallGoes
  <2>3. /\ listens' \in [Requests -> Int]
        /\ \A e \in Requests : listens'[e] = IF entry[m[1]] = e THEN listens[e] + 1 ELSE listens[e]
    <3>1. \A e \in Requests : listens[e] \in Nat
      BY <1>2
    <3>2. DOMAIN listens' = Requests /\ listens' = [e \in Requests |-> listens'[e]]
      BY <1>2, <2>2
    <3>3. \A e \in Requests : listens'[e] = IF entry[m[1]] = e THEN listens[e] + 1 ELSE listens[e]
      BY <1>2, <2>2
    <3>4. \A e \in Requests : listens'[e] \in Int
      BY <3>1, <3>3
    <3>5. QED
      BY <3>2, <3>3, <3>4
  <2>4. StreamMoves(m, c, 0, 1)
    BY <1>1, <1>2, <2>1, <2>2, <2>3 DEF StreamMoves, In
  <2>5. StreamsAreCounted' /\ streams' \in Nat /\ listens' \in [Requests -> Nat]
    BY <2>4, MessageMoves
  <2>6. ASSUME NEW e \in Requests, c \in Open, entry[m[1]] = e
        PROVE  Cardinality(OfEntry(Open, e)') <= ListenLimit
    <3>1. listens'[e] <= ListenLimit /\ listens'[e] \in Nat
      BY <1>2, <2>1, <2>5, <2>6 DEF Open
    <3>2. listens'[e] = Cardinality(Listed(e)')
      BY <2>5 DEF StreamsAreCounted
    <3>3. Open \subseteq {"added", "running", "removing", "retracting"}
      BY DEF Open
    <3>4. PICK T : T = {"added", "running", "removing", "retracting"}
      OBVIOUS
    <3>5. Cardinality(OfEntry(Open, e)') <= Cardinality(OfEntry(T, e)')
      BY <3>3, <3>4, StagesNest
    <3>6. OfEntry(T, e)' = Listed(e)'
      BY <3>4 DEF Listed
    <3>7. EntryMoves(m, c, Open, e)
      BY <2>1, OfEntryMove
    <3>8. QED
      BY <1>2, <3>1, <3>2, <3>5, <3>6, <3>7 DEF EntryMoves
  <2>7. c # "running"
    BY <2>1
  <2>8. StreamCeilings'
    BY <2>1, <2>6, <2>7, StaysBelow
  <2>9. QED
    BY <2>5, <2>8
<1>4. CASE AddStream(m)
  <2>1. PICK c \in {"removing", "running"} :
          call' = [call EXCEPT ![m] = c] /\ (c = "running" => ~(streams' > ProcessListens))
    BY <1>4 DEF AddStream, CallGoes
  <2>2. call[m] = "added" /\ streams' = streams + 1 /\ listens' = listens
    BY <1>4 DEF AddStream, CallGoes
  <2>3. /\ listens' \in [Requests -> Int]
        /\ \A e \in Requests : listens'[e] = IF entry[m[1]] = e THEN listens[e] + 0 ELSE listens[e]
    BY <1>2, <2>2
  <2>4. StreamMoves(m, c, 1, 0)
    BY <1>1, <1>2, <2>1, <2>2, <2>3 DEF StreamMoves, In
  <2>5. StreamsAreCounted' /\ streams' \in Nat /\ listens' \in [Requests -> Nat]
    BY <2>4, MessageMoves
  <2>6. ASSUME c = "running" PROVE Cardinality(Listening({"running"})') <= ProcessListens
    <3>1. streams' <= ProcessListens
      BY <1>2, <2>1, <2>5, <2>6
    <3>2. PICK T : T = {"running", "removing"}
      OBVIOUS
    <3>3. PICK S : S = {"running"}
      OBVIOUS
    <3>4. Cardinality(Listening(S)') <= Cardinality(Listening(T)')
      BY <3>2, <3>3, StagesNest
    <3>5. streams' = Cardinality(Listening(T)')
      BY <2>5, <3>2 DEF StreamsAreCounted
    <3>6. Cardinality(Listening(S)') \in Nat
      BY <2>1, ListeningMove
    <3>7. Cardinality(Listening(S)') <= ProcessListens
      BY <1>2, <2>5, <3>1, <3>4, <3>5, <3>6
    <3>8. QED
      BY <3>3, <3>7
  <2>7. call[m] \in Open
    BY <2>2 DEF Open
  <2>8. StreamCeilings'
    BY <2>1, <2>6, <2>7, StaysBelow
  <2>9. QED
    BY <2>5, <2>8
<1>5. CASE RemoveStream(m)
  <2>1. /\ call[m] \in {"running", "removing"} /\ call' = [call EXCEPT ![m] = "retracting"]
        /\ streams' = streams + -1 /\ listens' = listens
    BY <1>2, <1>5 DEF RemoveStream
  <2>2. /\ listens' \in [Requests -> Int]
        /\ \A e \in Requests : listens'[e] = IF entry[m[1]] = e THEN listens[e] + 0 ELSE listens[e]
    BY <1>2, <2>1
  <2>3. StreamMoves(m, "retracting", -1, 0)
    BY <1>1, <1>2, <2>1, <2>2 DEF StreamMoves, In
  <2>4. StreamsAreCounted' /\ streams' \in Nat /\ listens' \in [Requests -> Nat]
    BY <2>3, MessageMoves
  <2>5. "retracting" # "running" /\ "retracting" \notin Open
    BY DEF Open
  <2>6. StreamCeilings'
    BY <2>1, <2>5, StaysBelow
  <2>7. QED
    BY <2>4, <2>6
<1>6. CASE RemoveListen(m)
  <2>1. /\ call[m] = "retracting" /\ call' = [call EXCEPT ![m] = "over"] /\ streams' = streams
        /\ listens' = [listens EXCEPT ![entry[m[1]]] = listens[entry[m[1]]] - 1]
    BY <1>6 DEF RemoveListen, CallGoes
  <2>2. /\ listens' \in [Requests -> Int]
        /\ \A e \in Requests : listens'[e] = IF entry[m[1]] = e THEN listens[e] + -1 ELSE listens[e]
    <3>1. \A e \in Requests : listens[e] \in Nat
      BY <1>2
    <3>2. DOMAIN listens' = Requests /\ listens' = [e \in Requests |-> listens'[e]]
      BY <1>2, <2>1
    <3>3. \A e \in Requests : listens'[e] = IF entry[m[1]] = e THEN listens[e] - 1 ELSE listens[e]
      BY <1>2, <2>1
    <3>4. \A e \in Requests : listens'[e] \in Int /\ listens[e] - 1 = listens[e] + -1
      BY <3>1, <3>3
    <3>5. QED
      BY <3>2, <3>3, <3>4
  <2>3. StreamMoves(m, "over", 0, -1)
    BY <1>1, <1>2, <2>1, <2>2 DEF StreamMoves, In
  <2>4. StreamsAreCounted' /\ streams' \in Nat /\ listens' \in [Requests -> Nat]
    BY <2>3, MessageMoves
  <2>5. "over" # "running" /\ "over" \notin Open
    BY DEF Open
  <2>6. StreamCeilings'
    BY <2>1, <2>5, StaysBelow
  <2>7. QED
    BY <2>4, <2>6
<1>7. CASE Unattributed(m)
  <2>1. /\ call[m] = "unsent" /\ call' = [call EXCEPT ![m] = "over"]
        /\ streams' = streams + 0 /\ listens' = listens
    BY <1>2, <1>7 DEF Unattributed, CallGoes, counts
  <2>2. /\ listens' \in [Requests -> Int]
        /\ \A e \in Requests : listens'[e] = IF entry[m[1]] = e THEN listens[e] + 0 ELSE listens[e]
    BY <1>2, <2>1
  <2>3. StreamMoves(m, "over", 0, 0)
    BY <1>1, <1>2, <2>1, <2>2 DEF StreamMoves, In
  <2>4. StreamsAreCounted' /\ streams' \in Nat /\ listens' \in [Requests -> Nat]
    BY <2>3, MessageMoves
  <2>5. "over" # "running" /\ "over" \notin Open
    BY DEF Open
  <2>6. StreamCeilings'
    BY <2>1, <2>5, StaysBelow
  <2>7. QED
    BY <2>4, <2>6
<1>8. QED
  BY <1>3, <1>4, <1>5, <1>6, <1>7

LEMMA MessageKeepsStreams ==
    ASSUME SlotTypes, UNCHANGED <<asked, entry>>, StreamsAreCounted, StreamCeilings, NEW m \in Messages,
           MessageOK(m), OfMessage(m)
    PROVE  StreamsAreCounted' /\ streams' \in Nat /\ listens' \in [Requests -> Nat] /\ StreamCeilings'
<1>1. CASE Unattributed(m) \/ AddListen(m) \/ AddStream(m) \/ RemoveStream(m) \/ RemoveListen(m)
  BY <1>1, ListenKeepsStreams
<1>2. CASE Keep(m) \/ Claim(m) \/ Count(m) \/ ReadForCall(m) \/ TakeForCall(m) \/ Finish(m)
  <2>1. Kind(m[1]) # "listen" /\ streams' = streams /\ listens' = listens
    BY <1>2 DEF Keep, Claim, Count, ReadForCall, TakeForCall, Finish, CallGoes, MessageOK, counts
  <2>2. \E c : call' = [call EXCEPT ![m] = c]
    BY <1>2 DEF Keep, Claim, Count, ReadForCall, TakeForCall, Finish, CallGoes
  <2>3. \A n \in Messages : n # m => call'[n] = call[n]
    BY <2>2 DEF SlotTypes
  <2>4. \A S : Listening(S)' = Listening(S)
    BY <2>1, <2>3 DEF Listening, Kind
  <2>5. \A S : \A e : OfEntry(S, e)' = OfEntry(S, e)
    BY <2>4 DEF OfEntry
  <2>6. QED
    BY <2>1, <2>4, <2>5 DEF StreamsAreCounted, StreamCeilings, Listed, SlotTypes
<1>3. QED
  BY <1>1, <1>2 DEF OfMessage

-----------------------------------------------------------------------------
(* The invariant *)

LEMMA SlotInvHoldsAtFirst == Init => SlotInv
<1> SUFFICES ASSUME Init PROVE SlotInv
  OBVIOUS
<1>1. SlotTypes
  <2>1. /\ asked \in Workloads /\ held = 0 /\ sessions = 0 /\ listens = [e \in Requests |-> 0] /\ streams = 0
        /\ gone = {} /\ own = {}
    BY DEF Init, SlotsInit, BudgetsInit
  <2>2. /\ post = [r \in Requests |-> "outside"] /\ slot = [r \in Requests |-> "none"]
        /\ claimed = [r \in Requests |-> FALSE] /\ session = [r \in Requests |-> "none"]
        /\ call = [m \in Messages |-> "unsent"] /\ saw = [a \in Requests \X (0..2) |-> 0]
    BY DEF Init, SlotsInit
  <2>3. /\ listens \in [Requests -> Nat] /\ gone \subseteq Requests /\ own \subseteq Messages
        /\ held \in Nat /\ sessions \in Nat /\ streams \in Nat
    BY <2>1
  <2>4. /\ post \in [Requests -> {"outside", "sessions?", "sessions!", "stream?", "stream!", "held?",
                                  "held!", "busy", "serving", "returned", "done"}]
        /\ slot \in [Requests -> {"none", "gate", "session", "given"}]
        /\ claimed \in [Requests -> BOOLEAN]
        /\ session \in [Requests -> {"none", "opening", "live", "ended"}]
    BY <2>2
  <2>5. /\ call \in [Messages -> {"unsent", "counting", "swapping", "running", "added", "removing",
                                  "retracting", "over"}]
        /\ saw \in [Requests \X (0..2) -> Nat]
    BY <2>2
  <2>6. QED
    BY <2>1, <2>3, <2>4, <2>5 DEF SlotTypes
<1>2. /\ \A r \in Requests : post[r] = "outside" /\ slot[r] = "none" /\ session[r] = "none"
      /\ \A m \in Messages : call[m] = "unsent"
      /\ own = {} /\ held = 0 /\ sessions = 0 /\ streams = 0 /\ \A e \in Requests : listens[e] = 0
  BY DEF Init, SlotsInit
<1>3. \A r \in Requests : PostOK(r)
  <2>1. \A r \in Requests : \A i \in {1, 2} : call[<<r, i>>] = "unsent"
    BY <1>2 DEF Messages
  <2>2. QED
    BY <1>2, <2>1 DEF PostOK
<1>4. \A m \in Messages : MessageOK(m)
  BY <1>2 DEF MessageOK
<1>5. OneClaims
  BY <1>2 DEF OneClaims
<1>6. /\ Keepers = {} /\ Opening = {} /\ GateHolders = {}
      /\ \A S : "unsent" \notin S => Listening(S) = {} /\ \A e : OfEntry(S, e) = {}
  BY <1>2 DEF Keepers, Opening, GateHolders, Listening, OfEntry
<1>7. Cardinality({}) = 0
  BY FS_EmptySet
<1>8. /\ Listening({"running", "removing"}) = {} /\ Listening({"running"}) = {}
      /\ \A e \in Requests : Listed(e) = {} /\ OfEntry({"added", "running", "removing"}, e) = {}
  BY <1>6 DEF Listed
<1>9. HeldIsCounted /\ StreamsAreCounted
  <2>1. /\ Cardinality(Keepers) = 0 /\ Cardinality(Opening) = 0
        /\ Cardinality(GateHolders) = 0 /\ Cardinality(own) = 0
    BY <1>2, <1>6, <1>7
  <2>2. HeldIsCounted
    BY <1>2, <2>1, SMT DEF HeldIsCounted
  <2>3. /\ Cardinality(Listening({"running", "removing"})) = 0
        /\ \A e \in Requests : Cardinality(Listed(e)) = 0
    BY <1>7, <1>8
  <2>4. StreamsAreCounted
    BY <1>2, <2>3 DEF StreamsAreCounted
  <2>5. QED
    BY <2>2, <2>4
<1>10. HeldCeilings /\ StreamCeilings
  <2>1. HeldLimit \in Nat /\ SessionLimit \in Nat /\ ProcessListens \in Nat /\ ListenLimit \in Nat
    BY GateAssumption
  <2>2. \A e \in Requests : Cardinality(OfEntry({"added", "running", "removing"}, e)) = 0
    BY <1>7, <1>8
  <2>3. Cardinality(Listening({"running"})) = 0
    BY <1>7, <1>8
  <2>4. HeldCeilings
    BY <1>2, <2>1 DEF HeldCeilings
  <2>5. StreamCeilings
    BY <2>1, <2>2, <2>3 DEF StreamCeilings
  <2>6. QED
    BY <2>4, <2>5
<1>11. AtTheDoor
  BY <1>2 DEF AtTheDoor, Init, BudgetsInit
<1>12. QED
  BY <1>1, <1>3, <1>4, <1>5, <1>9, <1>10, <1>11, CountsSplit, CeilingsSplit DEF SlotInv

(* Whom the gate has let through keeps his place and his entry. *)
PlacesKept ==
    /\ DOMAIN door' = DOMAIN door /\ DOMAIN entry' = DOMAIN entry
    /\ \A r \in Requests : door[r] = "admitted" => door'[r] = "admitted" /\ entry'[r] = entry[r]

(* Nothing the invariant speaks of moves with the budgets. *)
LEMMA SlotInvStays ==
    ASSUME SlotInv, asked' = asked, UNCHANGED slotVars, PlacesKept
    PROVE  SlotInv'
<1>1. UNCHANGED <<asked, held, sessions, listens, streams, post, saw, slot, claimed, session, gone, call, own>>
  BY DEF slotVars, counts
<1>2. SlotTypes'
  BY <1>1 DEF SlotInv, SlotTypes
<1>3. \A r \in Requests : PostOK(r)'
  BY <1>1 DEF SlotInv, PostOK, Kind
<1>4. (\A m \in Messages : MessageOK(m)') /\ OneClaims'
  BY <1>1 DEF SlotInv, MessageOK, OneClaims, Kind
<1>5. /\ Keepers' = Keepers /\ Opening' = Opening /\ GateHolders' = GateHolders
      /\ \A S : Listening(S)' = Listening(S)
  BY <1>1 DEF Keepers, Opening, GateHolders, Listening, Kind
<1>6. AtTheDoor' /\ \A m \in Messages : call[m] # "unsent" => entry'[m[1]] = entry[m[1]]
  BY <1>1, SawIsRead DEF SlotInv, AtTheDoor, PlacesKept
<1>7. ASSUME NEW S, "unsent" \notin S PROVE \A e : OfEntry(S, e)' = OfEntry(S, e)
  <2>1. \A m \in Listening(S) : entry'[m[1]] = entry[m[1]]
    BY <1>6, <1>7 DEF Listening
  <2>2. QED
    BY <1>5, <2>1 DEF OfEntry
<1>8. /\ \A e : OfEntry({"added", "running", "removing"}, e)' = OfEntry({"added", "running", "removing"}, e)
      /\ \A e : Listed(e)' = Listed(e)
  BY <1>7 DEF Listed
<1>9. HeldIsCounted /\ StreamsAreCounted /\ HeldCeilings /\ StreamCeilings
  BY CountsSplit, CeilingsSplit DEF SlotInv
<1>10. HeldIsCounted' /\ HeldCeilings'
  BY <1>1, <1>5, <1>9 DEF HeldIsCounted, HeldCeilings
<1>11. StreamsAreCounted' /\ StreamCeilings'
  BY <1>1, <1>5, <1>8, <1>9 DEF StreamsAreCounted, StreamCeilings
<1>12. SlotsAreHeld' /\ Ceilings'
  BY <1>10, <1>11, CountsSplit, CeilingsSplit, PTL
<1>13. QED
  BY <1>2, <1>3, <1>4, <1>6, <1>12 DEF SlotInv

LEMMA SlotsKeepSlotInv ==
    ASSUME SlotInv, UNCHANGED <<asked, door, entry>>, SlotsNext
    PROVE  SlotInv'
<1>1. /\ SlotTypes /\ (\A r \in Requests : PostOK(r)) /\ (\A m \in Messages : MessageOK(m)) /\ OneClaims
      /\ HeldIsCounted /\ StreamsAreCounted /\ HeldCeilings /\ StreamCeilings
  BY CountsSplit, CeilingsSplit DEF SlotInv
<1>2. ASSUME NEW r \in Requests, OfPost(r)
      PROVE  /\ OtherTypes' /\ held' \in Nat /\ sessions' \in Nat /\ streams' \in Nat
             /\ listens' \in [Requests -> Nat]
             /\ (\A q \in Requests : PostOK(q)') /\ (\A n \in Messages : MessageOK(n)') /\ OneClaims'
             /\ HeldIsCounted' /\ StreamsAreCounted' /\ HeldCeilings' /\ StreamCeilings'
  <2>1. OtherTypes'
    BY <1>1, <1>2, PostTyped
  <2>2. \A q \in Requests : PostOK(q)'
    BY <1>1, <1>2, PostKeepsPosts
  <2>3. (\A n \in Messages : MessageOK(n)') /\ OneClaims'
    BY <1>1, <1>2, PostKeepsMessages
  <2>4. HeldIsCounted' /\ held' \in Nat /\ sessions' \in Nat /\ HeldCeilings'
    BY <1>1, <1>2, PostKeepsCounts
  <2>5. StreamsAreCounted' /\ StreamCeilings' /\ streams' = streams /\ listens' = listens
    BY <1>1, <1>2, PostKeepsStreams
  <2>6. streams' \in Nat /\ listens' \in [Requests -> Nat]
    BY <1>1, <2>5 DEF SlotTypes
  <2>7. QED
    BY <2>1, <2>2, <2>3, <2>4, <2>5, <2>6
<1>3. ASSUME NEW m \in Messages, OfMessage(m)
      PROVE  /\ OtherTypes' /\ held' \in Nat /\ sessions' \in Nat /\ streams' \in Nat
             /\ listens' \in [Requests -> Nat]
             /\ (\A q \in Requests : PostOK(q)') /\ (\A n \in Messages : MessageOK(n)') /\ OneClaims'
             /\ HeldIsCounted' /\ StreamsAreCounted' /\ HeldCeilings' /\ StreamCeilings'
  <2>1. OtherTypes'
    BY <1>1, <1>3, MessageTyped
  <2>2. \A q \in Requests : PostOK(q)'
    BY <1>1, <1>3, MessageKeepsPosts
  <2>3. (\A n \in Messages : MessageOK(n)') /\ OneClaims'
    BY <1>1, <1>3, MessageKeepsMessages
  <2>4. HeldIsCounted' /\ held' \in Nat /\ sessions' \in Nat /\ HeldCeilings'
    BY <1>1, <1>3, MessageKeepsHeld
  <2>5. StreamsAreCounted' /\ streams' \in Nat /\ listens' \in [Requests -> Nat] /\ StreamCeilings'
    BY <1>1, <1>3, MessageKeepsStreams
  <2>6. QED
    BY <2>1, <2>2, <2>3, <2>4, <2>5
<1>4. (\E r \in Requests : OfPost(r)) \/ (\E m \in Messages : OfMessage(m))
  BY DEF SlotsNext, OfPost, OfMessage
<1>5. /\ OtherTypes' /\ held' \in Nat /\ sessions' \in Nat /\ streams' \in Nat /\ listens' \in [Requests -> Nat]
      /\ (\A q \in Requests : PostOK(q)') /\ (\A n \in Messages : MessageOK(n)') /\ OneClaims'
      /\ HeldIsCounted' /\ StreamsAreCounted' /\ HeldCeilings' /\ StreamCeilings'
  BY <1>2, <1>3, <1>4
<1>6. SlotTypes'
  BY <1>5 DEF OtherTypes, SlotTypes
<1>7. SlotsAreHeld' /\ Ceilings'
  BY <1>5, CountsSplit, CeilingsSplit, PTL
<1>8. AtTheDoor'
  <2>1. AtTheDoor
    BY DEF SlotInv
  <2>2. CASE \E r \in Requests : OfPost(r)
    <3>1. call' = call
      BY <2>2 DEF OfPost, Enter, ReadSessions, TakeSession, ReadStream, TakeStream, ReadHeld, TakeHeld,
             Abandon, Return, Leave, EndSession, GiveBack
    <3>2. QED
      BY <2>1, <3>1 DEF AtTheDoor
  <2>3. ASSUME NEW m \in Messages, door[m[1]] = "admitted", OfMessage(m)
        PROVE  AtTheDoor'
    <3>1. \A n \in Messages : n # m => call'[n] = call[n]
      BY <1>1, <2>3, MessageBystanders
    <3>2. QED
      BY <2>1, <2>3, <3>1 DEF AtTheDoor
  <2>4. QED
    BY <2>2, <2>3 DEF SlotsNext, OfPost, OfMessage
<1>9. QED
  BY <1>5, <1>6, <1>7, <1>8 DEF SlotInv

(* The budgets in front of the gate do not change what is asked of it, nor the
   place and the entry of those it let through.                              *)
LEMMA BudgetsKeepAsked == BudgetsNext => asked' = asked
BY DEF BudgetsNext, AskBudgets, Admit, Reject, TurnAway, ChargeFailure, ChargeDistinct,
       CleanupFailures, CleanupDistinct, Tick, Forget

LEMMA BudgetsKeepPlaces ==
    ASSUME BudgetsNext, DOMAIN door = Requests, DOMAIN entry = Requests
    PROVE  PlacesKept
<1>1. CASE \E r \in Requests : Admit(r)
  BY <1>1 DEF Admit, At, PlacesKept
<1>2. CASE \E r \in Requests : AskBudgets(r) \/ Reject(r) \/ TurnAway(r)
                                 \/ ChargeFailure(r) \/ ChargeDistinct(r)
  <2>1. entry' = entry
    BY <1>2 DEF AskBudgets, Reject, TurnAway, ChargeFailure, ChargeDistinct, pool
  <2>2. \E r \in Requests : \E d : door[r] # "admitted" /\ door' = [door EXCEPT ![r] = d]
    BY <1>2 DEF AskBudgets, Reject, TurnAway, ChargeFailure, ChargeDistinct, At
  <2>3. QED
    BY <2>1, <2>2 DEF PlacesKept
<1>3. CASE CleanupFailures \/ CleanupDistinct \/ Tick \/ \E t \in Tokens : Forget(t)
  <2>1. UNCHANGED <<asked, entry, door>>
    BY <1>3 DEF CleanupFailures, CleanupDistinct, Tick, Forget, pool
  <2>2. QED
    BY <2>1 DEF PlacesKept
<1>4. QED
  BY <1>1, <1>2, <1>3 DEF BudgetsNext

LEMMA SlotInvIsInductive ==
    ASSUME SlotInv, [Next]_vars
    PROVE  SlotInv'
<1>1. CASE BudgetsNext /\ UNCHANGED slotVars
  <2>1. DOMAIN door = Requests /\ DOMAIN entry = Requests
    BY DEF SlotInv, AtTheDoor
  <2>2. QED
    BY <1>1, <2>1, BudgetsKeepAsked, BudgetsKeepPlaces, SlotInvStays
<1>2. CASE SlotsNext /\ UNCHANGED budgetVars
  <2>1. UNCHANGED <<asked, door, entry>>
    BY <1>2 DEF budgetVars, pool
  <2>2. QED
    BY <1>2, <2>1, SlotsKeepSlotInv
<1>3. CASE UNCHANGED vars
  <2>1. UNCHANGED <<asked, door, entry>> /\ UNCHANGED slotVars
    BY <1>3 DEF vars, budgetVars, pool
  <2>2. PlacesKept
    BY <2>1 DEF PlacesKept
  <2>3. QED
    BY <2>1, <2>2, SlotInvStays
<1>4. QED
  BY <1>1, <1>2, <1>3 DEF Next

-----------------------------------------------------------------------------
(* Each call that runs has a slot of its own or that of its POST, and each
   session kept has the slots its POST took.                               *)
LEMMA HoldersCover ==
    ASSUME SlotInv
    PROVE  CallsAreCounted
<1> DEFINE Calls == {m \in Running : Kind(m[1]) \in {"call", "batch"}}
<1>1. /\ SlotTypes /\ (\A r \in Requests : PostOK(r)) /\ (\A m \in Messages : MessageOK(m)) /\ OneClaims
      /\ HeldIsCounted /\ HeldCeilings /\ StreamCeilings
  BY CountsSplit, CeilingsSplit DEF SlotInv
<1>2. IsFiniteSet(Calls) /\ own \subseteq Calls
  <2>1. Calls \subseteq Messages
    BY DEF Running
  <2>2. own \subseteq Calls
    BY <1>1 DEF SlotTypes, MessageOK, Running
  <2>3. QED
    BY <2>1, <2>2, MessagesAreFinite, FS_Subset
<1>3. Cardinality(Calls \ own) <= Cardinality(GateHolders)
  <2>1. \A m \in Calls \ own : m[1] \in GateHolders /\ m \in Messages /\ call[m] = "running" /\ Kind(m[1]) = "call"
    BY <1>1, SawIsRead DEF MessageOK, Running, GateHolders
  <2>2. \A m, n \in Calls \ own : m[1] = n[1] => m = n
    BY <1>1, <2>1 DEF OneClaims
  <2>3. PICK C : C = Calls \ own
    OBVIOUS
  <2>4. PICK f : f = [m \in C |-> m[1]]
    OBVIOUS
  <2>5. f \in Injection(C, GateHolders)
    BY <2>1, <2>2, <2>3, <2>4 DEF Injection, IsInjective
  <2>6. IsFiniteSet(GateHolders)
    BY <1>1, HoldersAreFinite
  <2>7. Cardinality(C) <= Cardinality(GateHolders)
    BY <2>5, <2>6, FS_Injection
  <2>8. QED
    BY <2>3, <2>7
<1>4. Cardinality(Calls) = Cardinality(own) + Cardinality(Calls \ own)
  <2>1. PICK C : C = Calls
    OBVIOUS
  <2>2. IsFiniteSet(C) /\ C \cap own = own
    BY <1>2, <2>1
  <2>3. Cardinality(C \ own) = Cardinality(C) - Cardinality(C \cap own)
    BY <2>2, FS_Difference
  <2>4. Cardinality(C) \in Nat /\ Cardinality(own) \in Nat
    BY <1>1, <2>2, FS_CardinalityType, CountsAreNat
  <2>5. Cardinality(C) = Cardinality(own) + Cardinality(C \ own)
    <3>1. Cardinality(C \ own) = Cardinality(C) - Cardinality(own)
      BY <2>2, <2>3
    <3>2. \A x, y \in Nat : \A z : z = x - y => x = y + z
      OBVIOUS
    <3>3. QED
      BY <2>4, <3>1, <3>2
  <2>6. QED
    BY <2>1, <2>5
<1>5. Cardinality(Live \ gone) <= Cardinality(Keepers) /\ Cardinality(Live \ gone) \in Nat
  <2>1. Live \ gone \subseteq Keepers
    BY <1>1 DEF Live, Keepers, PostOK
  <2>2. IsFiniteSet(Keepers)
    BY <1>1, HoldersAreFinite
  <2>3. QED
    BY <2>1, <2>2, FS_Subset, FS_CardinalityType
<1>6. Cardinality(Calls \ own) \in Nat
  <2>1. IsFiniteSet(Calls \ own)
    BY <1>2, FS_Difference
  <2>2. QED
    BY <2>1, FS_CardinalityType
<1>7. /\ Cardinality(Calls) + Cardinality(Live \ gone) <= held /\ held <= HeldLimit
      /\ Cardinality(Live \ gone) <= sessions /\ sessions <= SessionLimit
  BY <1>1, <1>3, <1>4, <1>5, <1>6, CountsAreNat DEF HeldIsCounted, HeldCeilings
<1>8. ASSUME NEW e \in Requests
      PROVE  Cardinality({m \in Listening({"running"}) : entry[m[1]] = e}) <= ListenLimit
  <2>1. PICK A : A = {m \in Listening({"running"}) : entry[m[1]] = e}
    OBVIOUS
  <2>2. PICK B : B = OfEntry({"added", "running", "removing"}, e)
    OBVIOUS
  <2>3. A \subseteq B
    BY <2>1, <2>2 DEF OfEntry, Listening
  <2>4. IsFiniteSet(B)
    BY <1>1, <2>2, HoldersAreFinite
  <2>5. Cardinality(A) <= Cardinality(B) /\ Cardinality(A) \in Nat /\ Cardinality(B) \in Nat
    BY <2>3, <2>4, FS_Subset, FS_CardinalityType
  <2>6. Cardinality(B) <= ListenLimit /\ ListenLimit \in Nat
    BY <1>1, <2>2, CountsAreNat DEF StreamCeilings
  <2>7. QED
    BY <2>1, <2>5, <2>6
<1>9. QED
  BY <1>1, <1>7, <1>8 DEF CallsAreCounted, StreamCeilings

-----------------------------------------------------------------------------

LEMMA SlotInvHolds == Spec => []SlotInv
<1>1. Init => SlotInv
  BY SlotInvHoldsAtFirst
<1>2. SlotInv /\ [Next]_vars => SlotInv'
  BY SlotInvIsInductive
<1>3. QED
  BY <1>1, <1>2, PTL DEF Spec

(* Every count of the gate and of the middlewares behind it is the number of
   those who hold a slot: however the compare and swaps of POSTs and calls
   interleave, and whoever gives a slot back, none is lost or given back twice
   (sessionSlot, gateHeldSlot, heldRequestsMiddleware, listenLimits).         *)
THEOREM NoSlotIsLost == Spec => []SlotsAreHeld
<1>1. SlotInv => SlotsAreHeld
  BY DEF SlotInv
<1>2. QED
  BY <1>1, SlotInvHolds, PTL

(* No call runs, no session is kept and no stream is open that the ceilings of
   the process do not count (claimGateSlot, claimSessionSlot, listenLimits).  *)
THEOREM CeilingsHold == Spec => []CallsAreCounted
<1>1. SlotInv => CallsAreCounted
  BY HoldersCover
<1>2. QED
  BY <1>1, SlotInvHolds, PTL
===============================================================================
