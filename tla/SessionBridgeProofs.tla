------------------------- MODULE SessionBridgeProofs -------------------------
(***************************************************************************)
(* The session bridge for every number of credentials, sessions, URIs and  *)
(* requests, on every transport: a stream the server ended says why, a     *)
(* session that is over is nobody's subscriber, a subscriber whose         *)
(* credential was evicted has had its session ended and, off stdio, an     *)
(* open stream is watched or about to be ended.  What it does to the       *)
(* managers underneath is what their WatchTable allows.                    *)
(***************************************************************************)
EXTENDS SessionBridge, TLAPS

(* A request names its session as it arrives; only a listen is armed and stays
   open, a stateful session sends none, and initialize subscribes nothing; what
   a request has joined is awaited from before it joined.                    *)
RequestOK(r) ==
    /\ pc[r] = "idle" <=> Ses(r) = None
    /\ Ses(r) # None => session[Ses(r)] # "none"
    /\ pc[r] \in {"recorded", "open"} => Listens(r)
    /\ pc[r] # "idle" /\ transport = "stateful" => ~Listens(r)
    /\ req[r].method = "initialize" => pc[r] \in {"idle", "bound", "done"}
    /\ pc[r] \in {"joining", "ready", "leaving"} => at[r].uri \in URIs
    /\ pc[r] \in {"joining", "ready"} => Ses(r) \in awaited

(* A stateless request is a session of its own. *)
AloneInSession ==
    transport = "stateless" =>
        \A r, q \in Requests : Ses(r) = Ses(q) /\ Ses(r) # None => r = q

(* A stream the server ends has its ending stored before its context ends, and
   one that unwinds acknowledged does so because its context has ended: what
   Finish stamps is there.                                                   *)
StreamOK(r) ==
    /\ pc[r] \in {"idle", "bound", "recorded"} => stage[r] = "out"
    /\ ctx[r] = "ended" => stage[r] = "ended"
    /\ result[r] # "none" => pc[r] \in {"open", "unwinding", "leaving", "done"}
    /\ Listens(r) /\ result[r] = "ok" /\ pc[r] \in {"unwinding", "leaving", "done"} => ctx[r] # "live"
    /\ Listens(r) /\ result[r] = "ok" /\ pc[r] = "done" /\ ctx[r] = "ended" => told[r] # "none"

(* Who subscribes or holds is awaited, or is leaving; who leaves is over. *)
SessionOK(s) ==
    /\ \A o \in Owners : \A u \in URIs :
          s \in subs[<<o, u>>] => o = OwnerOf[s] /\ s \in awaited \cup leaving
    /\ \A u \in URIs : holds[<<s, u>>] # {} => s \in awaited
    /\ s \in leaving => Over(s)

(* A stateful session is attributed to its credential, or was handed over when
   that was evicted, as long as it has a call in progress or a hold.         *)
Attributed(s) ==
    IF pool[OwnerOf[s]] = "live" THEN s \in recorded ELSE s \in orphans[OwnerOf[s]]

EvictionOK(s) ==
    transport = "stateful" =>
        /\ \A r \in Requests : Ses(r) = s /\ Active(r) /\ req[r].method # "initialize" => Attributed(s)
        /\ (\E u \in URIs : holds[<<s, u>>] # {}) => session[s] = "closing" \/ Attributed(s)
        /\ pool[OwnerOf[s]] = "gone" /\ s \in orphans[OwnerOf[s]] => session[s] = "closing"

(* A stream waits on the resources it asked for.  Off stdio, each of those that
   its request has subscribed is watched, or its end is being told; and the
   watch a call waits for has not begun.                                     *)
Kept(r, u) ==
    LET k == <<Owner(r), u>> IN
    (Ses(r) \in subs[k] /\ k \in started) \/ k \in due \/ closed[Owner(r)] # "open"

Subscribed(r) ==
    (live[r] \ todo[r]) \cup (IF pc[r] = "ready" THEN live[r] \cap {at[r].uri} ELSE {})

StreamShape(r) ==
    /\ live[r] \subseteq req[r].uris
    /\ pc[r] = "idle" => live[r] = {}
    /\ pc[r] = "recorded" => todo[r] = req[r].uris
    /\ pc[r] = "open" => todo[r] = {}

ReadAwaited(r) ==
    pc[r] = "joining" /\ closed[Owner(r)] = "open"
        => Ses(r) \in subs[Watch(r)] /\ Watch(r) \notin started

StreamKept(r) ==
    pc[r] \in {"subscribing", "joining", "ready", "open"} /\ stage[r] = "filed"
        => \A u \in Subscribed(r) : Kept(r, u)

WatchOK(r) == StreamShape(r) /\ (transport = "stateless" => ReadAwaited(r) /\ StreamKept(r))

StartedAreHeld == \A k \in started : subs[k] # {}

BridgeInv ==
    /\ TypeOK
    /\ \A r \in Requests : RequestOK(r) /\ StreamOK(r) /\ WatchOK(r)
    /\ \A s \in Sessions : SessionOK(s) /\ EvictionOK(s)
    /\ AloneInSession /\ StartedAreHeld


USE BridgeAssumption

-----------------------------------------------------------------------------
(* Types *)

TableTypes ==
    /\ closed \in [Owners -> {"open", "closing", "closed"}]
    /\ subs \in [Owners \X URIs -> SUBSET Sessions]
    /\ started \subseteq Owners \X URIs
    /\ due \subseteq Owners \X URIs
    /\ unwinding \subseteq Owners \X URIs

SessionTypes ==
    /\ session \in [Sessions -> {"none", "open", "closing"}]
    /\ recorded \subseteq Sessions
    /\ awaited \subseteq Sessions
    /\ leaving \subseteq Sessions
    /\ holds \in [Sessions \X URIs -> SUBSET (Requests \cup {Legacy})]

Asks == [session : Sessions \cup {None}, method : AllMethods, uris : SUBSET URIs, lists : BOOLEAN]
Points == [uri : URIs \cup {None}, how : {"began", "added", "already"}]

RequestTypes ==
    /\ req \in [Requests -> Asks]
    /\ pc \in [Requests -> Pc]
    /\ todo \in [Requests -> SUBSET URIs]
    /\ at \in [Requests -> Points]
    /\ result \in [Requests -> {"none", "ok", "error"}]
    /\ told \in [Requests -> {"none"} \cup Causes]

StreamTypes ==
    /\ ctx \in [Requests -> {"live", "left", "ended"}]
    /\ stage \in [Requests -> {"out", "filed", "taken", "stored", "ended"}]
    /\ why \in [Requests -> {"none"} \cup Causes]
    /\ live \in [Requests -> SUBSET URIs]
    /\ \A r \in Requests : stage[r] \in {"taken", "stored", "ended"} <=> why[r] # "none"

ProcessTypes ==
    /\ transport \in Transports
    /\ pool \in [Owners -> {"live", "dropped", "stopping", "ending", "gone"}]
    /\ orphans \in [Owners -> SUBSET Sessions]
    /\ down \in BOOLEAN
    /\ sealed \in BOOLEAN

LEMMA TypesSplit ==
    TypeOK <=> TableTypes /\ SessionTypes /\ RequestTypes /\ StreamTypes /\ ProcessTypes
BY DEF TypeOK, TableTypes, SessionTypes, RequestTypes, StreamTypes, ProcessTypes, Asks, Points

LEMMA TypesSplitNext ==
    TypeOK' <=> TableTypes' /\ SessionTypes' /\ RequestTypes' /\ StreamTypes' /\ ProcessTypes'
BY TypesSplit, PTL

(* A request in progress is that of a session. *)
LEMMA SessionIsKnown ==
    ASSUME RequestTypes, NEW r \in Requests, RequestOK(r), pc[r] # "idle"
    PROVE  Ses(r) \in Sessions /\ Owner(r) \in Owners
BY DEF RequestTypes, RequestOK, Ses, Owner, Asks

(* What the bridge does to the watches is what the table allows. *)
LEMMA TableIsRespected ==
    ASSUME TypeOK, \A r \in Requests : RequestOK(r), Next
    PROVE  Table!Next \/ UNCHANGED table
<1>1. ASSUME NEW r \in Requests, RequestStep(r)
      PROVE  Table!Next \/ UNCHANGED table
  <2>1. pc[r] # "idle" => Ses(r) \in Sessions
    BY SessionIsKnown, TypesSplit
  <2>2. ASSUME NEW u \in URIs, Join(r, u)
        PROVE  Table!Next
    BY <2>1, <2>2 DEF Join, Goes, Table!Next
  <2>3. CASE GiveUp(r) \/ Leave(r)
    <3>1. Ses(r) \in Sessions /\ at[r].uri \in URIs
      BY <2>1, <2>3 DEF GiveUp, Leave, Goes, RequestOK
    <3>2. Table!Leave(Ses(r), {at[r].uri}) \/ UNCHANGED table
      BY <2>3 DEF GiveUp, Leave
    <3>3. {at[r].uri} \in SUBSET URIs
      BY <3>1
    <3>4. QED
      BY <3>1, <3>2, <3>3 DEF Table!Next
  <2>4. QED
    BY <1>1, <2>2, <2>3 DEF RequestStep, Record, Arm, Refused, Release, Abandoned, Hold, Acknowledge,
                            Fail, Unwind, Finish
<1>2. ASSUME NEW s \in Sessions, SessionStep(s) \/ Disconnect(s)
      PROVE  Table!Next \/ UNCHANGED table
  <2>1. URIs \in SUBSET URIs
    OBVIOUS
  <2>2. QED
    BY <1>2, <2>1 DEF SessionStep, ReleaseSession, LeaveSession, ForgetSession, Disconnect, Table!Next
<1>3. ASSUME NEW k \in Owners \X URIs, Start(k) \/ End(k) \/ EndUnheld(k) \/ Announce(k)
      PROVE  Table!Next
  <2>1. k \in Table!Watches
    BY DEF Table!Watches
  <2>2. QED
    BY <1>3, <2>1 DEF Start, End, EndUnheld, Announce, Table!Next
<1>4. ASSUME NEW o \in Owners, Evict(o) \/ EvictionStep(o)
      PROVE  Table!Next \/ UNCHANGED table
  BY <1>4 DEF Evict, EvictionStep, CloseManager, ManagerCloses, CloseOwner, EndSessions, Table!Next
<1>5. ASSUME NEW r \in Requests, (\E s \in Sessions, method \in Methods : Arrive(r, s, method))
                                \/ ClientCancels(r) \/ EndStream(r)
      PROVE  UNCHANGED table
  BY <1>5 DEF Arrive, ClientCancels, EndStream
<1>6. CASE Shutdown \/ CloseAll
  BY <1>6 DEF Shutdown, CloseAll
<1>7. QED
  BY <1>1, <1>2, <1>3, <1>4, <1>5, <1>6 DEF Next

LEMMA TableKeepsTypes ==
    ASSUME TableTypes, Table!Next \/ UNCHANGED table
    PROVE  TableTypes'
<1>1. Table!Watches = Owners \X URIs
  BY DEF Table!Watches
<1>2. ASSUME NEW s \in Sessions, NEW u \in URIs, Table!Join(s, u)
      PROVE  TableTypes'
  BY <1>2 DEF TableTypes, Table!Join
<1>3. ASSUME NEW s \in Sessions, NEW u \in URIs, NEW v \in URIs, Table!JoinDisplacing(s, u, v)
      PROVE  TableTypes'
  <2>1. <<OwnerOf[s], v>> \in Owners \X URIs
    OBVIOUS
  <2>2. QED
    BY <1>3, <2>1 DEF TableTypes, Table!JoinDisplacing
<1>4. ASSUME NEW s \in Sessions, NEW U \in SUBSET URIs, Table!Leave(s, U)
      PROVE  TableTypes'
  <2>1. /\ closed' = closed /\ due' = due /\ started' \subseteq started
        /\ unwinding' \subseteq unwinding \cup started
    BY <1>4 DEF Table!Leave
  <2>2. subs' \in [Owners \X URIs -> SUBSET Sessions]
    BY <1>1, <1>4 DEF Table!Leave, TableTypes
  <2>3. QED
    BY <2>1, <2>2 DEF TableTypes
<1>5. ASSUME NEW k \in Owners \X URIs,
             Table!Start(k) \/ Table!End(k) \/ Table!EndUnheld(k) \/ Table!EndSilently(k) \/ Table!Announce(k)
      PROVE  TableTypes'
  BY <1>5 DEF TableTypes, Table!Start, Table!End, Table!EndUnheld, Table!EndSilently, Table!Announce, Table!Less
<1>6. ASSUME NEW o \in Owners, Table!Close(o)
      PROVE  TableTypes'
  <2>1. /\ closed' = [closed EXCEPT ![o] = "closing"] /\ due' = due /\ started' \subseteq started
        /\ unwinding' \subseteq unwinding \cup started
    BY <1>6 DEF Table!Close
  <2>2. subs' \in [Owners \X URIs -> SUBSET Sessions]
    BY <1>1, <1>6 DEF Table!Close, TableTypes
  <2>3. QED
    BY <2>1, <2>2 DEF TableTypes
<1>7. ASSUME NEW o \in Owners, Table!CloseReturns(o)
      PROVE  TableTypes'
  BY <1>7 DEF TableTypes, Table!CloseReturns
<1>8. CASE UNCHANGED table
  BY <1>8 DEF TableTypes, table
<1>9. QED
  BY <1>1, <1>2, <1>3, <1>4, <1>5, <1>6, <1>7, <1>8 DEF Table!Next

LEMMA SessionTypesKept ==
    ASSUME TypeOK, \A r \in Requests : RequestOK(r), [Next]_vars
    PROVE  SessionTypes'
<1>1. SessionTypes /\ RequestTypes
  BY TypesSplit
<1>2. CASE UNCHANGED sessions
  BY <1>1, <1>2 DEF SessionTypes, sessions
<1>3. ASSUME NEW r \in Requests, NEW s \in Sessions, NEW method \in Methods, Arrive(r, s, method)
      PROVE  SessionTypes'
  BY <1>1, <1>3 DEF SessionTypes, Arrive
<1>4. ASSUME NEW r \in Requests, RequestStep(r)
      PROVE  SessionTypes'
  <2>1. pc[r] # "idle" => Ses(r) \in Sessions
    BY <1>1, SessionIsKnown
  <2>2. CASE Record(r)
    BY <1>1, <2>1, <2>2 DEF SessionTypes, Record, Goes
  <2>3. ASSUME NEW u \in URIs, Join(r, u) \/ Refused(r, u)
        PROVE  SessionTypes'
    <3>1. pc[r] # "idle" /\ awaited' = awaited \cup {Ses(r)} /\ UNCHANGED <<session, recorded, leaving, holds>>
      BY <2>3 DEF Join, Refused, Joining, Goes
    <3>2. QED
      BY <1>1, <2>1, <3>1 DEF SessionTypes
  <2>4. CASE Hold(r)
    <3>1. Holder(r) \in Requests \cup {Legacy}
      BY DEF Holder
    <3>2. QED
      BY <1>1, <2>4, <3>1 DEF SessionTypes, Hold
  <2>5. ASSUME NEW u \in URIs, Release(r, u)
        PROVE  SessionTypes'
    BY <1>1, <2>5 DEF SessionTypes, Release
  <2>6. CASE Finish(r)
    BY <1>1, <2>6 DEF SessionTypes, Finish
  <2>7. QED
    BY <1>2, <1>4, <2>2, <2>3, <2>4, <2>5, <2>6
       DEF RequestStep, Arm, GiveUp, Abandoned, Acknowledge, Fail, Unwind, Leave, sessions
<1>5. ASSUME NEW s \in Sessions, SessionStep(s) \/ Disconnect(s)
      PROVE  SessionTypes'
  BY <1>1, <1>5 DEF SessionTypes, SessionStep, ReleaseSession, LeaveSession, ForgetSession, Disconnect
<1>6. ASSUME NEW o \in Owners, Evict(o) \/ EvictionStep(o)
      PROVE  SessionTypes'
  <2>1. CASE Evict(o) \/ EndSessions(o)
    BY <1>1, <2>1 DEF SessionTypes, Evict, EndSessions
  <2>2. QED
    BY <1>2, <1>6, <2>1 DEF EvictionStep, CloseManager, ManagerCloses, CloseOwner
<1>7. ASSUME NEW k \in Owners \X URIs, Start(k) \/ End(k) \/ EndUnheld(k) \/ Announce(k)
      PROVE  UNCHANGED sessions
  BY <1>7 DEF Start, End, EndUnheld, Announce
<1>8. ASSUME NEW r \in Requests, ClientCancels(r) \/ EndStream(r)
      PROVE  UNCHANGED sessions
  BY <1>8 DEF ClientCancels, EndStream
<1>9. CASE Shutdown \/ CloseAll \/ UNCHANGED vars
  BY <1>2, <1>9 DEF Shutdown, CloseAll, vars
<1>10. QED
  BY <1>2, <1>3, <1>4, <1>5, <1>6, <1>7, <1>8, <1>9 DEF Next

LEMMA RequestTypesKept ==
    ASSUME TypeOK, \A r \in Requests : RequestOK(r), [Next]_vars
    PROVE  RequestTypes'
<1>1. RequestTypes /\ StreamTypes
  BY TypesSplit
<1>2. CASE UNCHANGED requests
  BY <1>1, <1>2 DEF RequestTypes, requests
<1>3. ASSUME NEW r \in Requests, NEW s \in Sessions, NEW method \in Methods, Arrive(r, s, method)
      PROVE  RequestTypes'
  <2>1. PICK w \in Wanted(method) :
          req' = [req EXCEPT ![r] = [session |-> s, method |-> method, uris |-> w.uris, lists |-> w.lists]]
    BY <1>3 DEF Arrive
  <2>2. w.uris \in SUBSET URIs /\ w.lists \in BOOLEAN
    <3>1. CASE method = "listen"
      BY <3>1 DEF Wanted
    <3>2. CASE method # "listen"
      <4>1. {} \in SUBSET URIs /\ \A u \in URIs : {u} \in SUBSET URIs
        OBVIOUS
      <4>2. w = [uris |-> {}, lists |-> FALSE] \/ \E u \in URIs : w = [uris |-> {u}, lists |-> FALSE]
        BY <3>2 DEF Wanted
      <4>3. CASE w = [uris |-> {}, lists |-> FALSE]
        BY <4>1, <4>3
      <4>4. ASSUME NEW u \in URIs, w = [uris |-> {u}, lists |-> FALSE]
            PROVE  w.uris \in SUBSET URIs /\ w.lists \in BOOLEAN
        BY <4>1, <4>4
      <4>5. QED
        BY <4>2, <4>3, <4>4
    <3>3. QED
      BY <3>1, <3>2
  <2>3. method \in AllMethods
    OBVIOUS
  <2>4. req' \in [Requests -> Asks]
    BY <1>1, <2>1, <2>2, <2>3 DEF RequestTypes, Asks
  <2>5. pc' = [pc EXCEPT ![r] = "bound"] /\ UNCHANGED <<todo, at, result, told>>
    BY <1>3 DEF Arrive, Goes
  <2>6. QED
    BY <1>1, <2>4, <2>5 DEF RequestTypes, Pc
<1>4. ASSUME NEW r \in Requests, RequestStep(r)
      PROVE  RequestTypes'
  <2>1. req[r].uris \in SUBSET URIs /\ req[r].method \in AllMethods /\ todo[r] \in SUBSET URIs
    BY <1>1 DEF RequestTypes, Asks
  <2>2. Nowhere \in Points /\ \A u \in URIs : \A h \in {"began", "added", "already"} : [uri |-> u, how |-> h] \in Points
    BY DEF Nowhere, Points
  <2>3. CASE Record(r)
    BY <1>1, <2>1, <2>3 DEF RequestTypes, Record, Goes, Pc, AllMethods
  <2>4. CASE Arm(r) \/ GiveUp(r) \/ Abandoned(r)
    BY <1>1, <2>4 DEF RequestTypes, Arm, GiveUp, Abandoned, Goes, Pc
  <2>5. ASSUME NEW u \in URIs, Join(r, u) \/ Refused(r, u)
        PROVE  RequestTypes'
    <3>1. PICK h \in {"began", "added", "already"} : at' = [at EXCEPT ![r] = [uri |-> u, how |-> h]]
      BY <2>5 DEF Join, Refused, Joining
    <3>2. at' \in [Requests -> Points]
      BY <1>1, <2>2, <3>1 DEF RequestTypes
    <3>3. PICK p \in Pc : pc' = [pc EXCEPT ![r] = p]
      BY <2>5 DEF Join, Refused, Goes, Pc
    <3>4. UNCHANGED <<req, todo, result, told>>
      BY <2>5 DEF Join, Refused, Joining
    <3>5. QED
      BY <1>1, <3>2, <3>3, <3>4 DEF RequestTypes
  <2>6. ASSUME NEW u \in URIs, Release(r, u)
        PROVE  RequestTypes'
    <3>1. at' \in [Requests -> Points]
      BY <1>1, <2>2, <2>6 DEF RequestTypes, Release
    <3>2. QED
      BY <1>1, <2>6, <3>1 DEF RequestTypes, Release, Goes, Pc
  <2>7. CASE Hold(r) \/ Fail(r) \/ Leave(r)
    <3>1. at' \in [Requests -> Points]
      BY <1>1, <2>2, <2>7 DEF RequestTypes, Hold, Fail, Leave
    <3>2. QED
      BY <1>1, <2>1, <2>7, <3>1 DEF RequestTypes, Hold, Fail, Leave, Goes, Pc
  <2>8. CASE Acknowledge(r) \/ Unwind(r) \/ Finish(r)
    BY <1>1, <2>1, <2>8 DEF RequestTypes, StreamTypes, Acknowledge, Unwind, Finish, Goes, Pc
  <2>9. QED
    BY <1>4, <2>3, <2>4, <2>5, <2>6, <2>7, <2>8 DEF RequestStep
<1>5. ASSUME NEW k \in Owners \X URIs, Start(k) \/ End(k)
      PROVE  RequestTypes'
  BY <1>1, <1>5 DEF RequestTypes, Start, End, Pc
<1>6. ASSUME NEW k \in Owners \X URIs, EndUnheld(k) \/ Announce(k)
      PROVE  UNCHANGED requests
  BY <1>6 DEF EndUnheld, Announce, requests
<1>7. ASSUME NEW s \in Sessions, SessionStep(s) \/ Disconnect(s)
      PROVE  UNCHANGED requests
  BY <1>7 DEF SessionStep, ReleaseSession, LeaveSession, ForgetSession, Disconnect
<1>8. ASSUME NEW o \in Owners, Evict(o) \/ EvictionStep(o)
      PROVE  UNCHANGED requests
  BY <1>8 DEF Evict, EvictionStep, CloseManager, ManagerCloses, CloseOwner, EndSessions
<1>9. ASSUME NEW r \in Requests, ClientCancels(r) \/ EndStream(r)
      PROVE  UNCHANGED requests
  BY <1>9 DEF ClientCancels, EndStream
<1>10. CASE Shutdown \/ CloseAll \/ UNCHANGED vars
  BY <1>2, <1>10 DEF Shutdown, CloseAll, vars
<1>11. QED
  BY <1>2, <1>3, <1>4, <1>5, <1>6, <1>7, <1>8, <1>9, <1>10 DEF Next

LEMMA StreamTypesKept ==
    ASSUME TypeOK, \A r \in Requests : RequestOK(r) /\ StreamOK(r), [Next]_vars
    PROVE  StreamTypes'
<1>1. StreamTypes /\ RequestTypes
  BY TypesSplit
<1>2. CASE UNCHANGED streams
  BY <1>1, <1>2 DEF StreamTypes, streams
<1>3. ASSUME NEW R \in SUBSET Requests, NEW cause \in Causes, Take(R, cause), ctx' = ctx,
             live' \in [Requests -> SUBSET URIs]
      PROVE  StreamTypes'
  BY <1>1, <1>3 DEF StreamTypes, Take, Causes
<1>4. ASSUME NEW r \in Requests, RequestStep(r)
      PROVE  StreamTypes'
  <2>1. CASE Arm(r)
    <3>1. stage[r] = "out" /\ why[r] = "none" /\ req[r].uris \in SUBSET URIs
      BY <1>1, <2>1 DEF Arm, Goes, StreamOK, StreamTypes, RequestTypes, Asks
    <3>2. QED
      BY <1>1, <2>1, <3>1 DEF Arm, StreamTypes, Causes
  <2>2. CASE Finish(r)
    BY <1>1, <2>2 DEF Finish, StreamTypes
  <2>3. QED
    BY <1>2, <1>4, <2>1, <2>2 DEF RequestStep, Record, Join, Refused, Joining, Release, GiveUp, Abandoned,
                                  Hold, Acknowledge, Fail, Unwind, Leave, streams
<1>5. ASSUME NEW k \in Owners \X URIs, Announce(k)
      PROVE  StreamTypes'
  <2>1. live' \in [Requests -> SUBSET URIs]
    BY <1>1, <1>5 DEF StreamTypes, Announce
  <2>2. PICK R \in SUBSET Requests : Take(R, "stopped") /\ ctx' = ctx
    BY <1>5 DEF Announce
  <2>3. QED
    BY <1>3, <2>1, <2>2 DEF Causes
<1>6. ASSUME NEW o \in Owners, CloseOwner(o)
      PROVE  StreamTypes'
  <2>1. PICK R \in SUBSET Requests : Take(R, "evicted") /\ ctx' = ctx /\ live' = live
    BY <1>6 DEF CloseOwner
  <2>2. QED
    BY <1>1, <1>3, <2>1 DEF Causes, StreamTypes
<1>7. CASE CloseAll
  <2>1. PICK R \in SUBSET Requests : Take(R, "shutdown") /\ ctx' = ctx /\ live' = live
    BY <1>7 DEF CloseAll
  <2>2. QED
    BY <1>1, <1>3, <2>1 DEF Causes, StreamTypes
<1>8. ASSUME NEW r \in Requests, EndStream(r)
      PROVE  StreamTypes'
  BY <1>1, <1>8 DEF StreamTypes, EndStream, EndWith
<1>9. ASSUME NEW R, Left(R), UNCHANGED <<stage, why, live>>
      PROVE  StreamTypes'
  BY <1>1, <1>9 DEF StreamTypes, Left
<1>10. ASSUME NEW r \in Requests, ClientCancels(r)
       PROVE  StreamTypes'
  BY <1>9, <1>10 DEF ClientCancels
<1>11. ASSUME NEW s \in Sessions, SessionStep(s) \/ Disconnect(s)
       PROVE  StreamTypes'
  BY <1>2, <1>9, <1>11 DEF SessionStep, ReleaseSession, LeaveSession, ForgetSession, Disconnect
<1>12. ASSUME NEW k \in Owners \X URIs, Start(k) \/ End(k) \/ EndUnheld(k)
       PROVE  UNCHANGED streams
  BY <1>12 DEF Start, End, EndUnheld
<1>13. ASSUME NEW o \in Owners, Evict(o) \/ CloseManager(o) \/ ManagerCloses(o) \/ EndSessions(o)
       PROVE  UNCHANGED streams
  BY <1>13 DEF Evict, CloseManager, ManagerCloses, EndSessions
<1>14. ASSUME NEW r \in Requests, NEW s \in Sessions, NEW method \in Methods, Arrive(r, s, method)
       PROVE  UNCHANGED streams
  BY <1>14 DEF Arrive
<1>15. CASE Shutdown \/ UNCHANGED vars
  BY <1>2, <1>15 DEF Shutdown, vars
<1>16. QED
  BY <1>2, <1>4, <1>5, <1>6, <1>7, <1>8, <1>10, <1>11, <1>12, <1>13, <1>14, <1>15 DEF Next, EvictionStep

LEMMA TransportStays ==
    ASSUME [Next]_vars
    PROVE  transport' = transport
<1>1. ASSUME NEW r \in Requests, RequestStep(r)
      PROVE  transport' = transport
  BY <1>1 DEF RequestStep, Record, Arm, Join, Refused, Joining, Release, GiveUp, Abandoned,
              Hold, Acknowledge, Fail, Unwind, Leave, Finish
<1>2. ASSUME NEW r \in Requests, (\E s \in Sessions, method \in Methods : Arrive(r, s, method))
                                \/ ClientCancels(r) \/ EndStream(r)
      PROVE  transport' = transport
  BY <1>2 DEF Arrive, ClientCancels, EndStream
<1>3. ASSUME NEW s \in Sessions, SessionStep(s) \/ Disconnect(s)
      PROVE  transport' = transport
  BY <1>3 DEF SessionStep, ReleaseSession, LeaveSession, ForgetSession, Disconnect
<1>4. ASSUME NEW k \in Owners \X URIs, Start(k) \/ End(k) \/ EndUnheld(k) \/ Announce(k)
      PROVE  transport' = transport
  BY <1>4 DEF Start, End, EndUnheld, Announce
<1>5. ASSUME NEW o \in Owners, Evict(o) \/ EvictionStep(o)
      PROVE  transport' = transport
  BY <1>5 DEF Evict, EvictionStep, CloseManager, ManagerCloses, CloseOwner, EndSessions
<1>6. CASE Shutdown \/ CloseAll \/ UNCHANGED vars
  BY <1>6 DEF Shutdown, CloseAll, vars
<1>7. QED
  BY <1>1, <1>2, <1>3, <1>4, <1>5, <1>6 DEF Next

LEMMA ProcessTypesKept ==
    ASSUME TypeOK, [Next]_vars
    PROVE  ProcessTypes'
<1>1. ProcessTypes /\ SessionTypes
  BY TypesSplit
<1>2. CASE UNCHANGED <<transport, process>>
  BY <1>1, <1>2 DEF ProcessTypes, process
<1>3. ASSUME NEW o \in Owners, Evict(o) \/ CloseManager(o) \/ CloseOwner(o) \/ EndSessions(o)
      PROVE  ProcessTypes'
  BY <1>1, <1>3 DEF ProcessTypes, SessionTypes, Evict, CloseManager, CloseOwner, EndSessions
<1>4. CASE Shutdown \/ CloseAll
  BY <1>1, <1>4 DEF ProcessTypes, Shutdown, CloseAll
<1>5. ASSUME NEW r \in Requests, RequestStep(r)
      PROVE  UNCHANGED <<transport, process>>
  BY <1>5 DEF RequestStep, Record, Arm, Join, Refused, Joining, Release, GiveUp, Abandoned,
              Hold, Acknowledge, Fail, Unwind, Leave, Finish, streams
<1>6. ASSUME NEW k \in Owners \X URIs, Start(k) \/ End(k) \/ EndUnheld(k) \/ Announce(k)
      PROVE  UNCHANGED <<transport, process>>
  BY <1>6 DEF Start, End, EndUnheld, Announce
<1>7. ASSUME NEW s \in Sessions, SessionStep(s) \/ Disconnect(s)
      PROVE  UNCHANGED <<transport, process>>
  BY <1>7 DEF SessionStep, ReleaseSession, LeaveSession, ForgetSession, Disconnect
<1>8. ASSUME NEW r \in Requests, (\E s \in Sessions, method \in Methods : Arrive(r, s, method))
                                \/ ClientCancels(r) \/ EndStream(r)
      PROVE  UNCHANGED <<transport, process>>
  BY <1>8 DEF Arrive, ClientCancels, EndStream
<1>9. ASSUME NEW o \in Owners, ManagerCloses(o)
      PROVE  UNCHANGED <<transport, process>>
  BY <1>9 DEF ManagerCloses
<1>10. CASE UNCHANGED vars
  BY <1>2, <1>10 DEF vars
<1>11. QED
  BY <1>2, <1>3, <1>4, <1>5, <1>6, <1>7, <1>8, <1>9, <1>10 DEF Next, EvictionStep

-----------------------------------------------------------------------------
(* One request, and everything else *)

Arrives(q) == \E s \in Sessions, method \in Methods : Arrive(q, s, method)

(* What a step of something else may do to a request: release it from a first
   read, end its context for the client, take its stream or strike a resource
   off it.                                                                   *)
Nudged(q) ==
    /\ req'[q] = req[q] /\ todo'[q] = todo[q] /\ at'[q] = at[q]
    /\ result'[q] = result[q] /\ told'[q] = told[q]
    /\ \/ pc'[q] = pc[q]
       \/ /\ pc[q] = "joining" /\ Ses(q) \in subs[Watch(q)]
          /\ (pc'[q] = "ready" /\ Start(Watch(q))) \/ (pc'[q] = "failed" /\ End(Watch(q)))
    /\ ctx'[q] = ctx[q] \/ (ctx[q] = "live" /\ ctx'[q] = "left")
    /\ stage'[q] = stage[q] \/ (stage[q] = "filed" /\ stage'[q] = "taken")
    /\ live'[q] \subseteq live[q]

LEMMA UnchangedIsNudged ==
    ASSUME NEW q, UNCHANGED requests, UNCHANGED streams
    PROVE  Nudged(q)
BY DEF Nudged, requests, streams

(* What one request does touches another's variables no further. *)
LEMMA OthersAreNudged ==
    ASSUME TypeOK, NEW r \in Requests, NEW q \in Requests, q # r,
           RequestStep(r) \/ Arrives(r) \/ EndStream(r)
    PROVE  Nudged(q)
<1>1. RequestTypes /\ StreamTypes
  BY TypesSplit
<1>2. CASE Record(r) \/ GiveUp(r) \/ Abandoned(r) \/ Hold(r) \/ Acknowledge(r) \/ Fail(r) \/ Unwind(r) \/ Leave(r)
  BY <1>1, <1>2 DEF Record, GiveUp, Abandoned, Hold, Acknowledge, Fail, Unwind, Leave, Goes, Nudged,
                    RequestTypes, streams
<1>3. ASSUME NEW u, Join(r, u) \/ Refused(r, u) \/ Release(r, u)
      PROVE  Nudged(q)
  BY <1>1, <1>3 DEF Join, Refused, Joining, Release, Goes, Nudged, RequestTypes, streams
<1>4. CASE Arm(r) \/ Finish(r) \/ EndStream(r)
  BY <1>1, <1>4 DEF Arm, Finish, EndStream, EndWith, Goes, Nudged, RequestTypes, StreamTypes, requests
<1>5. CASE Arrives(r)
  BY <1>1, <1>5 DEF Arrives, Arrive, Goes, Nudged, RequestTypes, streams
<1>6. QED
  BY <1>2, <1>3, <1>4, <1>5 DEF RequestStep

(* For each request a step is its own, or a nudge. *)
LEMMA EachIsNudged ==
    ASSUME TypeOK, [Next]_vars, NEW q \in Requests
    PROVE  Nudged(q) \/ RequestStep(q) \/ Arrives(q) \/ EndStream(q)
<1>1. RequestTypes /\ StreamTypes
  BY TypesSplit
<1>2. ASSUME NEW r \in Requests, RequestStep(r) \/ Arrives(r) \/ EndStream(r)
      PROVE  Nudged(q) \/ RequestStep(q) \/ Arrives(q) \/ EndStream(q)
  BY <1>2, OthersAreNudged
<1>3. ASSUME NEW R, Left(R), UNCHANGED <<stage, live>>, UNCHANGED requests
      PROVE  Nudged(q)
  BY <1>1, <1>3 DEF Left, Nudged, StreamTypes, requests
<1>4. ASSUME NEW R, R \subseteq {r \in Requests : stage[r] = "filed"}, NEW cause, Take(R, cause),
             ctx' = ctx, UNCHANGED requests, live'[q] \subseteq live[q]
      PROVE  Nudged(q)
  BY <1>1, <1>4 DEF Take, Nudged, StreamTypes, requests
<1>5. ASSUME NEW r \in Requests, ClientCancels(r)
      PROVE  Nudged(q)
  BY <1>3, <1>5 DEF ClientCancels
<1>6. ASSUME NEW s \in Sessions, SessionStep(s) \/ Disconnect(s)
      PROVE  Nudged(q)
  <2>1. CASE Disconnect(s)
    BY <1>3, <2>1 DEF Disconnect
  <2>2. CASE SessionStep(s)
    BY <2>2, UnchangedIsNudged DEF SessionStep, ReleaseSession, LeaveSession, ForgetSession
  <2>3. QED
    BY <1>6, <2>1, <2>2
<1>7. ASSUME NEW k \in Owners \X URIs, Start(k) \/ End(k) \/ EndUnheld(k)
      PROVE  Nudged(q)
  <2>1. CASE Start(k) \/ End(k)
    <3>1. /\ pc'[q] # pc[q] => pc[q] = "joining" /\ Watch(q) = k /\ Ses(q) \in subs[k]
          /\ pc'[q] # pc[q] => (pc'[q] = "ready" /\ Start(k)) \/ (pc'[q] = "failed" /\ End(k))
          /\ UNCHANGED <<req, todo, at, result, told, streams>>
      <4>1. CASE Start(k)
        <5>1. /\ pc'[q] = IF pc[q] = "joining" /\ Watch(q) = k /\ Ses(q) \in subs[k] THEN "ready" ELSE pc[q]
              /\ UNCHANGED <<req, todo, at, result, told, streams>>
          BY <1>1, <4>1 DEF Start, RequestTypes
        <5>2. QED
          BY <4>1, <5>1
      <4>2. CASE End(k)
        <5>1. /\ pc'[q] = IF pc[q] = "joining" /\ Watch(q) = k /\ Ses(q) \in subs[k] THEN "failed" ELSE pc[q]
              /\ UNCHANGED <<req, todo, at, result, told, streams>>
          BY <1>1, <4>2 DEF End, RequestTypes
        <5>2. QED
          BY <4>2, <5>1
      <4>3. QED
        BY <2>1, <4>1, <4>2
    <3>2. QED
      BY <3>1 DEF Nudged, streams
  <2>2. CASE EndUnheld(k)
    BY <2>2, UnchangedIsNudged DEF EndUnheld
  <2>3. QED
    BY <1>7, <2>1, <2>2
<1>8. ASSUME NEW k \in Owners \X URIs, Announce(k)
      PROVE  Nudged(q)
  <2> DEFINE waiting == {r \in Requests : stage[r] = "filed" /\ Owner(r) = k[1] /\ k[2] \in live[r]}
             R == {r \in waiting : live[r] = {k[2]}}
  <2>1. /\ live' = [r \in Requests |-> IF r \in waiting THEN live[r] \ {k[2]} ELSE live[r]]
        /\ Take(R, "stopped") /\ ctx' = ctx /\ UNCHANGED requests
    BY <1>8 DEF Announce
  <2>2. live'[q] \subseteq live[q] /\ R \subseteq {r \in Requests : stage[r] = "filed"}
    BY <2>1
  <2>3. QED
    BY <1>4, <2>1, <2>2
<1>9. ASSUME NEW o \in Owners, Evict(o) \/ EvictionStep(o)
      PROVE  Nudged(q)
  <2>1. CASE CloseOwner(o)
    <3>1. PICK R : R = {r \in Requests : stage[r] = "filed" /\ Owner(r) = o}
      OBVIOUS
    <3>2. Take(R, "evicted") /\ ctx' = ctx /\ live' = live /\ UNCHANGED requests
      BY <2>1, <3>1 DEF CloseOwner
    <3>3. QED
      BY <1>4, <3>1, <3>2
  <2>2. CASE ~CloseOwner(o)
    BY <1>9, <2>2, UnchangedIsNudged DEF Evict, EvictionStep, CloseManager, ManagerCloses, EndSessions
  <2>3. QED
    BY <2>1, <2>2
<1>10. CASE CloseAll
  <2>1. PICK R : R = {r \in Requests : stage[r] = "filed"}
    OBVIOUS
  <2>2. Take(R, "shutdown") /\ ctx' = ctx /\ live' = live /\ UNCHANGED requests
    BY <1>10, <2>1 DEF CloseAll
  <2>3. QED
    BY <1>4, <2>1, <2>2
<1>11. CASE Shutdown \/ UNCHANGED vars
  BY <1>11, UnchangedIsNudged DEF Shutdown, vars
<1>12. QED
  BY <1>2, <1>5, <1>6, <1>7, <1>8, <1>9, <1>10, <1>11 DEF Next, Arrives

(* Sessions open once and close once, and what is awaited or attributed stays so
   while a request of the session is in progress.                            *)
LEMMA SessionsGoOn ==
    ASSUME TypeOK, [Next]_vars, NEW s \in Sessions
    PROVE  /\ transport' = transport
           /\ session[s] # "none" => session'[s] # "none"
           /\ session[s] = "closing" => session'[s] = "closing"
           /\ s \in awaited /\ ~Over(s) => s \in awaited'
<1>1. SessionTypes /\ RequestTypes
  BY TypesSplit
<1>2. CASE UNCHANGED <<transport, session, awaited>>
  BY <1>2
<1>3. ASSUME NEW r \in Requests, NEW t \in Sessions, NEW method \in Methods, Arrive(r, t, method)
      PROVE  transport' = transport /\ awaited' = awaited /\
             (session[s] # "none" => session'[s] # "none") /\ (session[s] = "closing" => session'[s] = "closing")
  <2>1. transport \in {"stdio", "stateless", "stateful"}
    BY DEF TypeOK
  <2>2. session[t] # "closing"
    BY <1>3, <2>1 DEF Arrive, Takes
  <2>3. QED
    BY <1>1, <1>3, <2>2 DEF Arrive, SessionTypes
<1>4. ASSUME NEW r \in Requests, RequestStep(r)
      PROVE  transport' = transport /\ awaited \subseteq awaited' /\
             (session[s] # "none" => session'[s] # "none") /\ (session[s] = "closing" => session'[s] = "closing")
  <2>1. CASE Finish(r)
    BY <1>1, <2>1 DEF Finish, SessionTypes
  <2>2. CASE ~Finish(r)
    BY <1>4, <2>2 DEF RequestStep, Record, Arm, Join, Refused, Joining, Release, GiveUp, Abandoned,
                      Hold, Acknowledge, Fail, Unwind, Leave, sessions
  <2>3. QED
    BY <2>1, <2>2
<1>5. ASSUME NEW t \in Sessions, SessionStep(t) \/ Disconnect(t)
      PROVE  /\ transport' = transport
             /\ (session[s] # "none" => session'[s] # "none") /\ (session[s] = "closing" => session'[s] = "closing")
             /\ s \in awaited /\ ~Over(s) => s \in awaited'
  BY <1>1, <1>5 DEF SessionStep, ReleaseSession, LeaveSession, ForgetSession, Disconnect, SessionTypes
<1>6. ASSUME NEW o \in Owners, Evict(o) \/ EvictionStep(o)
      PROVE  transport' = transport /\ awaited' = awaited /\
             (session[s] # "none" => session'[s] # "none") /\ (session[s] = "closing" => session'[s] = "closing")
  <2>1. CASE EndSessions(o)
    BY <1>1, <2>1 DEF EndSessions, SessionTypes
  <2>2. CASE ~EndSessions(o)
    BY <1>6, <2>2 DEF Evict, EvictionStep, CloseManager, ManagerCloses, CloseOwner, sessions
  <2>3. QED
    BY <2>1, <2>2
<1>7. ASSUME NEW k \in Owners \X URIs, Start(k) \/ End(k) \/ EndUnheld(k) \/ Announce(k)
      PROVE  UNCHANGED <<transport, session, awaited>>
  BY <1>7 DEF Start, End, EndUnheld, Announce, sessions
<1>8. ASSUME NEW r \in Requests, ClientCancels(r) \/ EndStream(r)
      PROVE  UNCHANGED <<transport, session, awaited>>
  BY <1>8 DEF ClientCancels, EndStream, sessions
<1>9. CASE Shutdown \/ CloseAll \/ UNCHANGED vars
  BY <1>9 DEF Shutdown, CloseAll, vars, sessions
<1>10. QED
  BY <1>2, <1>3, <1>4, <1>5, <1>6, <1>7, <1>8, <1>9 DEF Next

LEMMA ArrivalIsKnown ==
    ASSUME TypeOK, NEW r \in Requests, NEW s \in Sessions, NEW method \in Methods, Arrive(r, s, method)
    PROVE  /\ pc[r] = "idle" /\ pc'[r] = "bound" /\ Ses(r)' = s /\ session'[s] = "open"
           /\ req'[r].method = method
           /\ transport \in {"stdio", "stateless", "stateful"}
           /\ transport = "stateful" => method # "listen"
           /\ transport = "stateful" /\ method # "initialize" => s \in recorded /\ pool[OwnerOf[s]] = "live"
           /\ transport = "stateless" => session[s] = "none"
           /\ UNCHANGED <<transport, table, recorded, awaited, leaving, holds, todo, at, result, told, streams, process>>
<1>1. RequestTypes /\ SessionTypes /\ transport \in {"stdio", "stateless", "stateful"}
  BY TypesSplit DEF ProcessTypes
<1>2. PICK w \in Wanted(method) :
        req' = [req EXCEPT ![r] = [session |-> s, method |-> method, uris |-> w.uris, lists |-> w.lists]]
  BY DEF Arrive
<1>3. req'[r] = [session |-> s, method |-> method, uris |-> w.uris, lists |-> w.lists]
  BY <1>1, <1>2 DEF RequestTypes
<1>4. Ses(r)' = s /\ req'[r].method = method
  BY <1>3 DEF Ses
<1>5. pc[r] = "idle" /\ pc'[r] = "bound" /\ session'[s] = "open"
  BY <1>1 DEF Arrive, Goes, RequestTypes, SessionTypes
<1>6. /\ transport = "stateful" => method # "listen"
      /\ transport = "stateful" /\ method # "initialize" => s \in recorded
      /\ transport = "stateless" => session[s] = "none"
  BY <1>1 DEF Arrive, Takes
<1>7. pool[OwnerOf[s]] = "live"
  BY DEF Arrive
<1>8. QED
  BY <1>1, <1>4, <1>5, <1>6, <1>7 DEF Arrive

LEMMA RequestStaysOK ==
    ASSUME TypeOK, [Next]_vars, NEW q \in Requests, RequestOK(q)
    PROVE  RequestOK(q)'
<1>1. RequestTypes /\ SessionTypes
  BY TypesSplit
<1>2. /\ transport' = transport
      /\ Ses(q) # None => session'[Ses(q)] # "none"
      /\ pc[q] \in {"joining", "ready"} => Ses(q) \in awaited'
  <2>1. Ses(q) # None => Ses(q) \in Sessions
    BY <1>1 DEF RequestTypes, Ses, Asks
  <2>2. pc[q] \in {"joining", "ready"} => ~Over(Ses(q)) /\ Ses(q) # None
    BY DEF Over, Active, RequestOK
  <2>3. \A s \in Sessions : /\ session[s] # "none" => session'[s] # "none"
                            /\ s \in awaited /\ ~Over(s) => s \in awaited'
    BY SessionsGoOn
  <2>4. transport' = transport
    BY TransportStays
  <2>5. QED
    BY <2>1, <2>2, <2>3, <2>4 DEF RequestOK
<1>3. CASE Nudged(q) \/ EndStream(q)
  BY <1>2, <1>3 DEF Nudged, EndStream, requests, RequestOK, Ses, Listens
<1>4. CASE Arrives(q)
  <2>1. PICK s \in Sessions, method \in Methods : Arrive(q, s, method)
    BY <1>4 DEF Arrives
  <2>2. QED
    BY <1>2, <2>1, ArrivalIsKnown DEF RequestOK, Listens
<1>5. CASE RequestStep(q)
  <2>1. req' = req
    BY <1>5 DEF RequestStep, Record, Arm, Join, Joining, Refused, Release,
           GiveUp, Abandoned, Hold, Acknowledge, Fail, Unwind, Leave, Finish, requests
  <2>2. Ses(q)' = Ses(q) /\ Listens(q)' = Listens(q)
    BY <2>1 DEF Ses, Listens
  <2>3. CASE Record(q) \/ Arm(q) \/ GiveUp(q) \/ Abandoned(q) \/ Hold(q) \/ Acknowledge(q) \/ Fail(q)
             \/ Unwind(q) \/ Leave(q) \/ Finish(q)
    <3>1. /\ pc[q] # "idle" /\ pc'[q] \notin {"idle", "joining", "leaving"}
          /\ pc'[q] = "ready" => pc[q] = "joining" /\ at' = at
          /\ pc'[q] \in {"recorded", "open"} => Listens(q)
      BY <1>1, <2>3 DEF Record, Arm, GiveUp, Abandoned, Hold, Acknowledge, Fail, Unwind, Leave, Finish, Goes,
                        RequestTypes, Asks, AllMethods, Listens
    <3>2. req[q].method = "initialize" => pc'[q] = "done"
      <4>1. CASE Record(q)
        BY <1>1, <4>1 DEF Record, Goes, RequestTypes
      <4>2. CASE ~Record(q)
        BY <2>3, <4>2 DEF Arm, GiveUp, Abandoned, Hold, Acknowledge, Fail, Unwind, Leave, Finish, Goes, RequestOK
      <4>3. QED
        BY <4>1, <4>2
    <3>3. QED
      BY <1>2, <2>1, <2>2, <3>1, <3>2 DEF RequestOK
  <2>4. ASSUME NEW u \in URIs, Join(q, u) \/ Refused(q, u) \/ Release(q, u)
        PROVE  RequestOK(q)'
    <3>1. pc[q] # "idle" /\ pc'[q] \in {"joining", "ready", "failed", "leaving", "unwinding"} /\ at'[q].uri = u
      BY <1>1, <2>4 DEF Join, Refused, Joining, Release, Goes, RequestTypes
    <3>2. pc'[q] \in {"joining", "ready"} => Ses(q) \in awaited'
      BY <1>1, <2>4 DEF Join, Refused, Joining, Release, Goes, RequestTypes
    <3>3. req[q].method # "initialize"
      BY <2>4 DEF Join, Refused, Release, Goes, RequestOK
    <3>4. QED
      BY <1>2, <2>1, <2>2, <3>1, <3>2, <3>3 DEF RequestOK
  <2>5. QED
    BY <1>5, <2>3, <2>4 DEF RequestStep
<1>6. QED
  BY <1>3, <1>4, <1>5, EachIsNudged

(* Stateless requests go on in sessions of their own. *)
LEMMA RequestsStayAlone ==
    ASSUME TypeOK, [Next]_vars, \A r \in Requests : RequestOK(r), AloneInSession
    PROVE  AloneInSession'
<1> SUFFICES ASSUME transport' = "stateless", NEW r \in Requests, NEW q \in Requests,
                    Ses(r)' = Ses(q)', Ses(r)' # None
             PROVE  r = q
  BY DEF AloneInSession
<1>1. transport = "stateless"
  BY TransportStays
<1>2. ASSUME NEW x \in Requests, ~Arrives(x)
      PROVE  Ses(x)' = Ses(x)
  <2>1. req'[x] = req[x]
    BY <1>2, EachIsNudged DEF Nudged, RequestStep, Record, Arm, Join, Joining, Refused, Release,
           GiveUp, Abandoned, Hold, Acknowledge, Fail, Unwind, Leave, Finish, requests, EndStream
  <2>2. QED
    BY <2>1 DEF Ses
<1>3. ASSUME NEW x \in Requests, NEW y \in Requests, x # y, Arrives(x)
      PROVE  Ses(y)' # Ses(x)'
  <2>1. PICK s \in Sessions, method \in Methods : Arrive(x, s, method)
    BY <1>3 DEF Arrives
  <2>2. Ses(x)' = s /\ session[s] = "none"
    BY <1>1, <2>1, ArrivalIsKnown
  <2>3. Nudged(y)
    BY <1>3, OthersAreNudged
  <2>4. Ses(y)' = Ses(y)
    BY <2>3 DEF Nudged, Ses
  <2>5. QED
    BY <2>2, <2>4 DEF RequestOK
<1>4. QED
  BY <1>1, <1>2, <1>3 DEF AloneInSession

(* endWith stores the ending first; Finish reads it once the context has ended. *)
LEMMA StreamStaysOK ==
    ASSUME TypeOK, [Next]_vars, NEW q \in Requests, RequestOK(q), StreamOK(q)
    PROVE  StreamOK(q)'
<1>1. RequestTypes /\ StreamTypes
  BY TypesSplit
<1>2. CASE Nudged(q)
  BY <1>2 DEF Nudged, StreamOK, Listens
<1>3. CASE Arrives(q)
  <2>1. PICK s \in Sessions, method \in Methods : Arrive(q, s, method)
    BY <1>3 DEF Arrives
  <2>2. pc[q] = "idle" /\ pc'[q] = "bound" /\ UNCHANGED <<result, told, streams>>
    BY <2>1, ArrivalIsKnown
  <2>3. QED
    BY <2>2 DEF StreamOK, streams
<1>4. CASE EndStream(q)
  <2>1. UNCHANGED requests /\ stage[q] \in {"taken", "stored"}
    BY <1>4 DEF EndStream, EndWith
  <2>2. /\ stage'[q] # "out"
        /\ ctx'[q] = ctx[q] \/ (ctx[q] = "live" /\ ctx'[q] = "ended" /\ stage'[q] = "ended")
        /\ ctx[q] = "ended" => FALSE
    BY <1>1, <1>4, <2>1 DEF EndStream, EndWith, StreamTypes, StreamOK
  <2>3. QED
    BY <2>1, <2>2 DEF StreamOK, requests, Listens
<1>5. CASE RequestStep(q)
  <2>1. req' = req
    BY <1>5 DEF RequestStep, Record, Arm, Join, Joining, Refused, Release,
           GiveUp, Abandoned, Hold, Acknowledge, Fail, Unwind, Leave, Finish, requests
  <2>2. Listens(q)' = Listens(q)
    BY <2>1 DEF Listens
  <2>3. CASE Record(q)
    BY <1>1, <2>2, <2>3 DEF Record, Goes, StreamOK, RequestTypes, streams
  <2>4. CASE Arm(q)
    BY <1>1, <2>2, <2>4 DEF Arm, Goes, StreamOK, RequestTypes, StreamTypes
  <2>5. ASSUME NEW u \in URIs, Join(q, u) \/ Refused(q, u) \/ Release(q, u)
        PROVE  StreamOK(q)'
    <3>1. /\ pc[q] \in {"subscribing", "unwinding"}
          /\ pc'[q] \in {"ready", "joining", "failed", "leaving", "unwinding"}
          /\ pc[q] = "subscribing" <=> pc'[q] \in {"ready", "joining", "failed"}
          /\ UNCHANGED <<result, told, streams>>
      BY <1>1, <2>5 DEF Join, Refused, Joining, Release, Goes, RequestTypes
    <3>2. QED
      BY <2>2, <3>1 DEF StreamOK, streams
  <2>6. CASE GiveUp(q) \/ Abandoned(q) \/ Hold(q)
    <3>1. /\ pc[q] \in {"joining", "ready"} /\ pc'[q] \in {"failed", "ready", "subscribing"}
          /\ UNCHANGED <<result, told, streams>>
      BY <1>1, <2>6 DEF GiveUp, Abandoned, Hold, Goes, RequestTypes
    <3>2. QED
      BY <2>2, <3>1 DEF StreamOK, streams
  <2>7. CASE Acknowledge(q) \/ Fail(q)
    BY <1>1, <2>2, <2>7 DEF Acknowledge, Fail, Goes, StreamOK, RequestTypes, streams
  <2>8. CASE Unwind(q) \/ Leave(q)
    BY <1>1, <2>2, <2>8 DEF Unwind, Leave, Goes, StreamOK, RequestTypes, streams
  <2>9. CASE Finish(q)
    BY <1>1, <2>2, <2>9 DEF Finish, Goes, StreamOK, RequestTypes, StreamTypes
  <2>10. QED
    BY <1>5, <2>3, <2>4, <2>5, <2>6, <2>7, <2>8, <2>9 DEF RequestStep
<1>6. QED
  BY <1>2, <1>3, <1>4, <1>5, EachIsNudged

-----------------------------------------------------------------------------
(* Sessions: who subscribes, who holds, and who is over *)

(* A session that is over stays over: it takes no more requests. *)
LEMMA OverIsFinal ==
    ASSUME TypeOK, [Next]_vars, \A r \in Requests : RequestOK(r), NEW s \in Sessions, Over(s)
    PROVE  Over(s)'
<1>1. RequestTypes /\ SessionTypes
  BY TypesSplit
<1>2. session'[s] = "closing"
  BY SessionsGoOn DEF Over
<1>3. ASSUME NEW q \in Requests, Active(q)'
      PROVE  Ses(q)' # s
  <2>1. CASE Nudged(q) \/ EndStream(q)
    BY <1>3, <2>1 DEF Nudged, EndStream, requests, Active, Ses, Over
  <2>2. CASE Arrives(q)
    <3>1. PICK t \in Sessions, method \in Methods : Arrive(q, t, method)
      BY <2>2 DEF Arrives
    <3>2. Ses(q)' = t /\ session'[t] = "open"
      BY <3>1, ArrivalIsKnown
    <3>3. QED
      BY <1>2, <3>2
  <2>3. CASE RequestStep(q)
    <3>1. Active(q) /\ req' = req
      BY <2>3 DEF RequestStep, Record, Arm, Join, Joining, Refused, Release, GiveUp, Abandoned, Hold,
                  Acknowledge, Fail, Unwind, Leave, Finish, requests, Goes, Active
    <3>2. QED
      BY <3>1 DEF Over, Ses
  <2>4. QED
    BY <2>1, <2>2, <2>3, EachIsNudged
<1>4. QED
  BY <1>2, <1>3 DEF Over

(* Every step of the tables but a call of Subscribe leaves each watch to those
   who held it, or to fewer.                                                 *)
NobodyJoins == \A k \in Owners \X URIs : subs'[k] \subseteq subs[k]

LEMMA OnlySubscribeJoins ==
    ASSUME TypeOK, \A r \in Requests : RequestOK(r), [Next]_vars
    PROVE  NobodyJoins \/ \E r \in Requests, u \in URIs : Join(r, u)
<1>1. TableTypes /\ Table!Watches = Owners \X URIs
  BY TypesSplit DEF Table!Watches
<1>2. ASSUME UNCHANGED table
      PROVE  NobodyJoins
  BY <1>2 DEF table, NobodyJoins
<1>3. ASSUME NEW s, NEW U, Table!Leave(s, U)
      PROVE  NobodyJoins
  <2>1. PICK K : subs' = [k \in Table!Watches |-> IF k \in K THEN subs[k] \ {s} ELSE subs[k]]
    BY <1>3 DEF Table!Leave
  <2>2. QED
    BY <1>1, <2>1 DEF NobodyJoins
<1>4. ASSUME NEW o \in Owners, Table!Close(o)
      PROVE  NobodyJoins
  <2>1. subs' = [k \in Table!Watches |-> IF k \in {o} \X URIs THEN {} ELSE subs[k]]
    BY <1>4 DEF Table!Close
  <2>2. QED
    BY <1>1, <2>1 DEF NobodyJoins
<1>5. ASSUME NEW k, Table!End(k)
      PROVE  NobodyJoins
  BY <1>1, <1>5 DEF Table!End, NobodyJoins, TableTypes
<1>6. ASSUME NEW r \in Requests, RequestStep(r), \A u \in URIs : ~Join(r, u)
      PROVE  NobodyJoins
  <2>1. CASE GiveUp(r) \/ Leave(r)
    <3>1. UNCHANGED table \/ \E s, U : Table!Leave(s, U)
      BY <2>1 DEF GiveUp, Leave
    <3>2. QED
      BY <1>2, <1>3, <3>1
  <2>2. CASE ~GiveUp(r) /\ ~Leave(r)
    BY <1>2, <1>6, <2>2 DEF RequestStep, Record, Arm, Refused, Release, Abandoned, Hold, Acknowledge, Fail,
                            Unwind, Finish
  <2>3. QED
    BY <2>1, <2>2
<1>7. ASSUME NEW s \in Sessions, SessionStep(s) \/ Disconnect(s)
      PROVE  NobodyJoins
  BY <1>2, <1>3, <1>7 DEF SessionStep, ReleaseSession, LeaveSession, ForgetSession, Disconnect
<1>8. ASSUME NEW k \in Owners \X URIs, Start(k) \/ End(k) \/ EndUnheld(k) \/ Announce(k)
      PROVE  NobodyJoins
  <2>1. CASE End(k)
    BY <1>5, <2>1 DEF End
  <2>2. CASE ~End(k)
    BY <1>8, <2>2 DEF Start, EndUnheld, Announce, Table!Start, Table!EndUnheld, Table!EndSilently,
                      Table!Announce, NobodyJoins
  <2>3. QED
    BY <2>1, <2>2
<1>9. ASSUME NEW o \in Owners, Evict(o) \/ EvictionStep(o)
      PROVE  NobodyJoins
  <2>1. CASE CloseManager(o)
    BY <1>4, <2>1 DEF CloseManager
  <2>2. CASE ManagerCloses(o)
    BY <2>2 DEF ManagerCloses, Table!CloseReturns, NobodyJoins
  <2>3. CASE Evict(o) \/ CloseOwner(o) \/ EndSessions(o)
    BY <1>2, <2>3 DEF Evict, CloseOwner, EndSessions
  <2>4. QED
    BY <1>9, <2>1, <2>2, <2>3 DEF EvictionStep
<1>10. ASSUME NEW r \in Requests, Arrives(r) \/ ClientCancels(r) \/ EndStream(r)
       PROVE  NobodyJoins
  BY <1>2, <1>10 DEF Arrives, Arrive, ClientCancels, EndStream
<1>11. CASE Shutdown \/ CloseAll \/ UNCHANGED vars
  BY <1>2, <1>11 DEF Shutdown, CloseAll, vars
<1>12. QED
  BY <1>6, <1>7, <1>8, <1>9, <1>10, <1>11 DEF Next, Arrives

LEMMA SubscribeAwaits ==
    ASSUME TypeOK, NEW r \in Requests, RequestOK(r), NEW u \in URIs, Join(r, u)
    PROVE  /\ Ses(r) \in Sessions /\ Ses(r) \in awaited' /\ awaited \subseteq awaited'
           /\ UNCHANGED <<leaving, holds>>
           /\ \A k \in Owners \X URIs : k # <<Owner(r), u>> => subs'[k] \subseteq subs[k]
           /\ subs'[<<Owner(r), u>>] = subs[<<Owner(r), u>>] \cup {Ses(r)}
<1>1. TableTypes /\ RequestTypes
  BY TypesSplit
<1>2. Ses(r) \in Sessions /\ Owner(r) \in Owners
  BY <1>1, SessionIsKnown DEF Join, Goes
<1>3. Ses(r) \in awaited' /\ awaited \subseteq awaited' /\ UNCHANGED <<leaving, holds>>
  BY DEF Join, Joining
<1>4. <<Owner(r), u>> \in Owners \X URIs
  BY <1>2
<1>5. CASE Table!Join(Ses(r), u)
  BY <1>1, <1>2, <1>3, <1>4, <1>5 DEF Table!Join, TableTypes, Owner
<1>6. ASSUME NEW v \in URIs \ {u}, Table!JoinDisplacing(Ses(r), u, v)
      PROVE  /\ \A k \in Owners \X URIs : k # <<Owner(r), u>> => subs'[k] \subseteq subs[k]
             /\ subs'[<<Owner(r), u>>] = subs[<<Owner(r), u>>] \cup {Ses(r)}
  <2>1. /\ subs[<<Owner(r), u>>] = {}
        /\ subs' = [subs EXCEPT ![<<Owner(r), u>>] = {Ses(r)}, ![<<Owner(r), v>>] = {}]
    BY <1>6 DEF Table!JoinDisplacing, Owner
  <2>2. <<Owner(r), v>> \in Owners \X URIs /\ <<Owner(r), v>> # <<Owner(r), u>>
    BY <1>2
  <2>3. QED
    BY <1>1, <1>4, <2>1, <2>2 DEF TableTypes
<1>7. QED
  BY <1>2, <1>3, <1>5, <1>6 DEF Join

(* What a step that neither takes a hold for a session nor ends its stay does to
   it: it is awaited as before, leaving as before, and holds no more.          *)
Settled(s) ==
    /\ s \in awaited => s \in awaited'
    /\ s \in leaving' <=> s \in leaving
    /\ \A u \in URIs : holds'[<<s, u>>] \subseteq holds[<<s, u>>]

LEMMA MostAreSettled ==
    ASSUME TypeOK, \A r \in Requests : RequestOK(r), [Next]_vars, NEW s \in Sessions
    PROVE  \/ Settled(s) \/ ReleaseSession(s) \/ LeaveSession(s)
           \/ \E q \in Requests : Hold(q) /\ Ses(q) = s
<1>1. SessionTypes /\ RequestTypes
  BY TypesSplit
<1>2. ASSUME UNCHANGED <<awaited, leaving, holds>>
      PROVE  Settled(s)
  BY <1>2 DEF Settled
<1>3. ASSUME NEW r \in Requests, RequestStep(r)
      PROVE  Settled(s) \/ (Hold(r) /\ Ses(r) = s)
  <2>1. ASSUME NEW u \in URIs, Join(r, u) \/ Refused(r, u)
        PROVE  Settled(s)
    BY <2>1 DEF Join, Refused, Joining, Settled
  <2>2. ASSUME NEW u \in URIs, Release(r, u)
        PROVE  Settled(s)
    <3>1. holds' = [holds EXCEPT ![<<Ses(r), u>>] = holds[<<Ses(r), u>>] \ {Holder(r)}]
          /\ UNCHANGED <<awaited, leaving>>
      BY <2>2 DEF Release
    <3>2. \A v \in URIs : holds'[<<s, v>>] \subseteq holds[<<s, v>>]
      BY <1>1, <3>1 DEF SessionTypes
    <3>3. QED
      BY <3>1, <3>2 DEF Settled
  <2>3. CASE Hold(r) /\ Ses(r) # s
    <3>1. PICK H : holds' = [holds EXCEPT ![<<Ses(r), at[r].uri>>] = H]
      BY <2>3 DEF Hold
    <3>2. \A v \in URIs : <<s, v>> # <<Ses(r), at[r].uri>> /\ <<s, v>> \in Sessions \X URIs
      BY <2>3
    <3>3. \A v \in URIs : holds'[<<s, v>>] = holds[<<s, v>>]
      BY <1>1, <3>1, <3>2 DEF SessionTypes
    <3>4. UNCHANGED <<awaited, leaving>>
      BY <2>3 DEF Hold
    <3>5. QED
      BY <3>3, <3>4 DEF Settled
  <2>4. QED
    BY <1>2, <1>3, <2>1, <2>2, <2>3 DEF RequestStep, Record, Arm, GiveUp, Abandoned, Acknowledge, Fail,
                                        Unwind, Leave, Finish, sessions
<1>4. ASSUME NEW t \in Sessions, SessionStep(t) \/ Disconnect(t)
      PROVE  Settled(s) \/ (t = s /\ (ReleaseSession(s) \/ LeaveSession(s)))
  <2>1. CASE ReleaseSession(t) /\ t # s
    BY <1>1, <2>1 DEF ReleaseSession, Settled, SessionTypes
  <2>2. CASE LeaveSession(t) /\ t # s
    BY <2>2 DEF LeaveSession, Settled
  <2>3. CASE ForgetSession(t) \/ Disconnect(t)
    BY <1>2, <2>3 DEF ForgetSession, Disconnect
  <2>4. QED
    BY <1>4, <2>1, <2>2, <2>3 DEF SessionStep
<1>5. ASSUME NEW o \in Owners, Evict(o) \/ EvictionStep(o)
      PROVE  Settled(s)
  BY <1>2, <1>5 DEF Evict, EvictionStep, CloseManager, ManagerCloses, CloseOwner, EndSessions, sessions
<1>6. ASSUME NEW k \in Owners \X URIs, Start(k) \/ End(k) \/ EndUnheld(k) \/ Announce(k)
      PROVE  Settled(s)
  BY <1>2, <1>6 DEF Start, End, EndUnheld, Announce, sessions
<1>7. ASSUME NEW r \in Requests, Arrives(r) \/ ClientCancels(r) \/ EndStream(r)
      PROVE  Settled(s)
  BY <1>2, <1>7 DEF Arrives, Arrive, ClientCancels, EndStream, sessions
<1>8. CASE Shutdown \/ CloseAll \/ UNCHANGED vars
  BY <1>2, <1>8 DEF Shutdown, CloseAll, vars, sessions
<1>9. QED
  BY <1>3, <1>4, <1>5, <1>6, <1>7, <1>8 DEF Next, Arrives

LEMMA SessionStaysOK ==
    ASSUME TypeOK, \A r \in Requests : RequestOK(r), [Next]_vars, NEW s \in Sessions, SessionOK(s)
    PROVE  SessionOK(s)'
<1>1. TableTypes /\ SessionTypes /\ RequestTypes
  BY TypesSplit
<1>2. /\ s \in leaving => Over(s)
      /\ Over(s) => Over(s)'
  BY OverIsFinal DEF SessionOK
<1>3. CASE Settled(s)
  <2>1. \A u \in URIs : holds'[<<s, u>>] # {} => s \in awaited'
    BY <1>3 DEF Settled, SessionOK
  <2>2. s \in leaving' => Over(s)'
    BY <1>2, <1>3 DEF Settled
  <2>3. ASSUME NEW o \in Owners, NEW u \in URIs, s \in subs'[<<o, u>>]
        PROVE  o = OwnerOf[s] /\ s \in awaited' \cup leaving'
    <3>1. <<o, u>> \in Owners \X URIs
      OBVIOUS
    <3>2. CASE s \in subs[<<o, u>>]
      BY <1>3, <3>2 DEF SessionOK, Settled
    <3>3. CASE s \notin subs[<<o, u>>]
      <4>1. PICK q \in Requests, v \in URIs : Join(q, v)
        BY <2>3, <3>1, <3>3, OnlySubscribeJoins DEF NobodyJoins
      <4>2. /\ Ses(q) \in awaited'
            /\ <<o, u>> # <<Owner(q), v>> => subs'[<<o, u>>] \subseteq subs[<<o, u>>]
            /\ subs'[<<Owner(q), v>>] = subs[<<Owner(q), v>>] \cup {Ses(q)}
        BY <3>1, <4>1, SubscribeAwaits
      <4>3. s = Ses(q) /\ o = Owner(q)
        BY <2>3, <3>3, <4>2
      <4>4. QED
        BY <4>2, <4>3 DEF Owner
    <3>4. QED
      BY <3>2, <3>3
  <2>4. QED
    BY <2>1, <2>2, <2>3 DEF SessionOK
<1>4. CASE ReleaseSession(s)
  <2>1. /\ Over(s) /\ s \in leaving' /\ subs' = subs
        /\ \A u \in URIs : holds'[<<s, u>>] = {}
    BY <1>4 DEF ReleaseSession, table
  <2>2. QED
    BY <1>2, <2>1 DEF SessionOK
<1>5. CASE LeaveSession(s)
  <2>1. s \notin leaving' /\ awaited' = awaited /\ holds' = holds
    BY <1>5 DEF LeaveSession
  <2>2. ASSUME NEW o \in Owners, NEW u \in URIs
        PROVE  s \notin subs'[<<o, u>>]
    <3>1. PICK K : /\ K = {k \in {OwnerOf[s]} \X URIs : s \in subs[k]}
                   /\ subs' = [k \in Table!Watches |-> IF k \in K THEN subs[k] \ {s} ELSE subs[k]]
      BY <1>5 DEF LeaveSession, Table!Leave
    <3>2. <<o, u>> \in Table!Watches
      BY DEF Table!Watches
    <3>3. s \in subs[<<o, u>>] => <<o, u>> \in K
      BY <3>1 DEF SessionOK
    <3>4. QED
      BY <3>1, <3>2, <3>3
  <2>3. QED
    BY <2>1, <2>2 DEF SessionOK
<1>6. ASSUME NEW q \in Requests, Hold(q), Ses(q) = s
      PROVE  SessionOK(s)'
  <2>1. s \in awaited /\ UNCHANGED <<subs, awaited, leaving>>
    BY <1>6 DEF Hold, Goes, RequestOK, table
  <2>2. QED
    BY <1>2, <2>1 DEF SessionOK
<1>7. QED
  BY <1>3, <1>4, <1>5, <1>6, MostAreSettled

-----------------------------------------------------------------------------
(* Sessions of an evicted credential *)

(* A session attributed to its credential stays so until it is over and
   forgotten: an eviction hands it over.                                     *)
LEMMA AttributionStays ==
    ASSUME TypeOK, \A r \in Requests : RequestOK(r), [Next]_vars, transport = "stateful",
           NEW s \in Sessions, Attributed(s), ~ForgetSession(s)
    PROVE  Attributed(s)'
<1>1. SessionTypes /\ ProcessTypes /\ OwnerOf[s] \in Owners
  BY TypesSplit
<1>2. ASSUME UNCHANGED <<pool, orphans>>, recorded \subseteq recorded'
      PROVE  Attributed(s)'
  BY <1>2 DEF Attributed
<1>3. ASSUME NEW r \in Requests, RequestStep(r) \/ Arrives(r) \/ ClientCancels(r) \/ EndStream(r)
      PROVE  Attributed(s)'
  BY <1>2, <1>3 DEF Arrives, Arrive, ClientCancels, EndStream, RequestStep, Record, Arm, Join, Refused, Joining,
                    Release, GiveUp, Abandoned, Hold, Acknowledge, Fail, Unwind, Leave, Finish, sessions, process
<1>4. ASSUME NEW t \in Sessions, SessionStep(t) \/ Disconnect(t)
      PROVE  Attributed(s)'
  <2>1. CASE ForgetSession(t) /\ t # s
    BY <2>1 DEF ForgetSession, Attributed, process
  <2>2. QED
    BY <1>2, <1>4, <2>1 DEF SessionStep, ReleaseSession, LeaveSession, Disconnect, process
<1>5. ASSUME NEW k \in Owners \X URIs, Start(k) \/ End(k) \/ EndUnheld(k) \/ Announce(k)
      PROVE  Attributed(s)'
  BY <1>2, <1>5 DEF Start, End, EndUnheld, Announce, sessions, process
<1>6. ASSUME NEW o \in Owners, Evict(o)
      PROVE  Attributed(s)'
  BY <1>1, <1>6 DEF Evict, Attributed, ProcessTypes
<1>7. ASSUME NEW o \in Owners, EvictionStep(o)
      PROVE  Attributed(s)'
  <2>1. recorded' = recorded /\ orphans' = orphans
    BY <1>7 DEF EvictionStep, CloseManager, ManagerCloses, CloseOwner, EndSessions, sessions, process
  <2>2. pool'[OwnerOf[s]] = "live" <=> pool[OwnerOf[s]] = "live"
    BY <1>1, <1>7 DEF EvictionStep, CloseManager, ManagerCloses, CloseOwner, EndSessions, process, ProcessTypes
  <2>3. QED
    BY <2>1, <2>2 DEF Attributed
<1>8. CASE Shutdown \/ CloseAll \/ UNCHANGED vars
  BY <1>2, <1>8 DEF Shutdown, CloseAll, vars, sessions, process
<1>9. QED
  BY <1>3, <1>4, <1>5, <1>6, <1>7, <1>8 DEF Next, Arrives

(* The sessions handed over are fixed by the eviction, and are all ended before
   the eviction is done with them.                                            *)
LEMMA EvictionEndsSessions ==
    ASSUME TypeOK, [Next]_vars, transport = "stateful", NEW s \in Sessions,
           pool[OwnerOf[s]] = "gone" /\ s \in orphans[OwnerOf[s]] => session[s] = "closing",
           pool'[OwnerOf[s]] = "gone", s \in orphans'[OwnerOf[s]]
    PROVE  session'[s] = "closing"
<1>1. SessionTypes /\ ProcessTypes /\ OwnerOf[s] \in Owners
  BY TypesSplit
<1>2. session[s] = "closing" => session'[s] = "closing"
  BY SessionsGoOn
<1>3. ASSUME UNCHANGED <<pool, orphans>>
      PROVE  session'[s] = "closing"
  BY <1>2, <1>3
<1>4. ASSUME NEW r \in Requests, RequestStep(r) \/ Arrives(r) \/ ClientCancels(r) \/ EndStream(r)
      PROVE  session'[s] = "closing"
  BY <1>3, <1>4 DEF Arrives, Arrive, ClientCancels, EndStream, RequestStep, Record, Arm, Join, Refused, Joining,
                    Release, GiveUp, Abandoned, Hold, Acknowledge, Fail, Unwind, Leave, Finish, process
<1>5. ASSUME NEW t \in Sessions, SessionStep(t) \/ Disconnect(t)
      PROVE  session'[s] = "closing"
  BY <1>3, <1>5 DEF SessionStep, ReleaseSession, LeaveSession, ForgetSession, Disconnect, process
<1>6. ASSUME NEW k \in Owners \X URIs, Start(k) \/ End(k) \/ EndUnheld(k) \/ Announce(k)
      PROVE  session'[s] = "closing"
  BY <1>3, <1>6 DEF Start, End, EndUnheld, Announce, process
<1>7. ASSUME NEW o \in Owners, Evict(o)
      PROVE  session'[s] = "closing"
  <2>1. OwnerOf[s] # o /\ pool'[OwnerOf[s]] = pool[OwnerOf[s]] /\ orphans'[OwnerOf[s]] = orphans[OwnerOf[s]]
    BY <1>1, <1>7 DEF Evict, ProcessTypes
  <2>2. QED
    BY <1>2, <2>1
<1>8. ASSUME NEW o \in Owners, CloseManager(o) \/ ManagerCloses(o) \/ CloseOwner(o)
      PROVE  session'[s] = "closing"
  <2>1. orphans' = orphans /\ pool[OwnerOf[s]] = "gone"
    BY <1>1, <1>8 DEF CloseManager, ManagerCloses, CloseOwner, process, ProcessTypes
  <2>2. QED
    BY <1>2, <2>1
<1>9. ASSUME NEW o \in Owners, EndSessions(o)
      PROVE  session'[s] = "closing"
  <2>1. CASE OwnerOf[s] = o
    BY <1>9, <2>1 DEF EndSessions
  <2>2. CASE OwnerOf[s] # o
    BY <1>1, <1>2, <1>9, <2>2 DEF EndSessions, ProcessTypes
  <2>3. QED
    BY <2>1, <2>2
<1>10. CASE Shutdown \/ CloseAll \/ UNCHANGED vars
  BY <1>3, <1>10 DEF Shutdown, CloseAll, vars, process
<1>11. QED
  BY <1>4, <1>5, <1>6, <1>7, <1>8, <1>9, <1>10 DEF Next, EvictionStep, Arrives

LEMMA EvictionStaysOK ==
    ASSUME TypeOK, \A r \in Requests : RequestOK(r), [Next]_vars, NEW s \in Sessions, EvictionOK(s)
    PROVE  EvictionOK(s)'
<1> SUFFICES ASSUME transport' = "stateful"
             PROVE  EvictionOK(s)'
  BY DEF EvictionOK
<1>1. transport = "stateful" /\ RequestTypes /\ SessionTypes
  BY TransportStays, TypesSplit
<1>2. session[s] = "closing" => session'[s] = "closing"
  BY SessionsGoOn
<1>3. Attributed(s) => Attributed(s)' \/ Over(s)
  BY <1>1, AttributionStays DEF ForgetSession
<1>4. ASSUME NEW q \in Requests, Ses(q)' = s, Active(q)', req'[q].method # "initialize"
      PROVE  Attributed(s)'
  <2>1. CASE Arrives(q)
    <3>1. PICK t \in Sessions, method \in Methods : Arrive(q, t, method)
      BY <2>1 DEF Arrives
    <3>2. t = s /\ s \in recorded /\ pool[OwnerOf[s]] = "live" /\ UNCHANGED <<recorded, process>>
      BY <1>1, <1>4, <3>1, ArrivalIsKnown
    <3>3. QED
      BY <3>2 DEF Attributed, process
  <2>2. CASE ~Arrives(q)
    <3>1. Ses(q) = s /\ Active(q) /\ req[q].method # "initialize"
      <4>1. CASE Nudged(q) \/ EndStream(q)
        BY <1>4, <4>1 DEF Nudged, EndStream, requests, Active, Ses
      <4>2. CASE RequestStep(q)
        <5>1. Active(q) /\ req' = req
          BY <4>2 DEF RequestStep, Record, Arm, Join, Joining, Refused, Release, GiveUp, Abandoned, Hold,
                      Acknowledge, Fail, Unwind, Leave, Finish, requests, Goes, Active
        <5>2. QED
          BY <1>4, <5>1 DEF Ses
      <4>3. QED
        BY <2>2, <4>1, <4>2, EachIsNudged
    <3>2. Attributed(s) /\ ~Over(s)
      BY <1>1, <3>1 DEF EvictionOK, Over
    <3>3. QED
      BY <1>3, <3>2
  <2>3. QED
    BY <2>1, <2>2
<1>5. ASSUME NEW u \in URIs, holds'[<<s, u>>] # {}
      PROVE  session'[s] = "closing" \/ Attributed(s)'
  <2>1. CASE \E v \in URIs : holds[<<s, v>>] # {}
    <3>1. session[s] = "closing" \/ Attributed(s)
      BY <1>1, <2>1 DEF EvictionOK
    <3>2. QED
      BY <1>2, <1>3, <3>1 DEF Over
  <2>2. CASE \A v \in URIs : holds[<<s, v>>] = {}
    <3>1. ~Settled(s) /\ ~ReleaseSession(s) /\ ~LeaveSession(s)
      BY <1>5, <2>2 DEF Settled, ReleaseSession, LeaveSession
    <3>2. PICK q \in Requests : Hold(q) /\ Ses(q) = s
      BY <3>1, MostAreSettled
    <3>3. Active(q) /\ req[q].method # "initialize"
      BY <3>2 DEF Hold, Goes, Active, RequestOK
    <3>4. Attributed(s)
      BY <1>1, <3>2, <3>3 DEF EvictionOK
    <3>5. QED
      BY <1>2, <1>3, <3>4 DEF Over
  <2>3. QED
    BY <2>1, <2>2
<1>6. pool'[OwnerOf[s]] = "gone" /\ s \in orphans'[OwnerOf[s]] => session'[s] = "closing"
  BY <1>1, EvictionEndsSessions DEF EvictionOK
<1>7. QED
  BY <1>4, <1>5, <1>6 DEF EvictionOK

-----------------------------------------------------------------------------
(* Watches and the streams that wait on them *)

(* A watch that has begun has a subscriber. *)
LEMMA StartedStayHeld ==
    ASSUME TableTypes, StartedAreHeld, Table!Next \/ UNCHANGED table
    PROVE  StartedAreHeld'
<1>1. Table!Watches = Owners \X URIs /\ started \subseteq Owners \X URIs
  BY DEF Table!Watches, TableTypes
<1>2. ASSUME NEW s \in Sessions, NEW u \in URIs, Table!Join(s, u)
      PROVE  StartedAreHeld'
  BY <1>2 DEF TableTypes, Table!Join, StartedAreHeld
<1>3. ASSUME NEW s \in Sessions, NEW u \in URIs, NEW v \in URIs, Table!JoinDisplacing(s, u, v)
      PROVE  StartedAreHeld'
  <2>1. PICK k, d : k = <<OwnerOf[s], u>> /\ d = <<OwnerOf[s], v>>
    OBVIOUS
  <2>2. /\ subs' = [subs EXCEPT ![k] = {s}, ![d] = {}] /\ started' = started \ {d}
        /\ subs[k] = {} /\ d \in started
    BY <1>3, <2>1 DEF Table!JoinDisplacing
  <2>3. ASSUME NEW j \in started'
        PROVE  subs'[j] # {}
    <3>1. j \in started /\ j # d /\ j # k /\ j \in Owners \X URIs
      BY <1>1, <2>2 DEF StartedAreHeld
    <3>2. subs'[j] = subs[j]
      BY <2>2, <3>1 DEF TableTypes
    <3>3. QED
      BY <3>1, <3>2 DEF StartedAreHeld
  <2>4. QED
    BY <2>3 DEF StartedAreHeld
<1>4. ASSUME NEW s \in Sessions, NEW U \in SUBSET URIs, Table!Leave(s, U)
      PROVE  StartedAreHeld'
  <2>1. PICK K, ended :
          /\ K = {k \in {OwnerOf[s]} \X U : s \in subs[k]}
          /\ ended = {k \in K : subs[k] = {s}}
          /\ subs' = [k \in Table!Watches |-> IF k \in K THEN subs[k] \ {s} ELSE subs[k]]
          /\ started' = started \ ended
    BY <1>4 DEF Table!Leave
  <2>2. ASSUME NEW j \in started'
        PROVE  subs'[j] # {}
    <3>1. j \in started /\ j \notin ended /\ subs[j] # {} /\ j \in Table!Watches
      BY <1>1, <2>1 DEF StartedAreHeld
    <3>2. j \in K => subs[j] # {s}
      BY <2>1, <3>1
    <3>3. QED
      BY <2>1, <3>1, <3>2
  <2>3. QED
    BY <2>2 DEF StartedAreHeld
<1>5. ASSUME NEW k \in Owners \X URIs,
             Table!Start(k) \/ Table!End(k) \/ Table!EndUnheld(k) \/ Table!EndSilently(k) \/ Table!Announce(k)
      PROVE  StartedAreHeld'
  BY <1>5 DEF TableTypes, Table!Start, Table!End, Table!EndUnheld, Table!EndSilently, Table!Announce, StartedAreHeld
<1>6. ASSUME NEW o \in Owners, Table!Close(o)
      PROVE  StartedAreHeld'
  <2>1. /\ subs' = [k \in Table!Watches |-> IF k \in {o} \X URIs THEN {} ELSE subs[k]]
        /\ started' = started \ ({o} \X URIs)
    BY <1>6 DEF Table!Close
  <2>2. QED
    BY <1>1, <2>1 DEF StartedAreHeld
<1>7. ASSUME NEW o \in Owners, Table!CloseReturns(o)
      PROVE  StartedAreHeld'
  BY <1>7 DEF Table!CloseReturns, StartedAreHeld
<1>8. CASE UNCHANGED table
  BY <1>8 DEF table, StartedAreHeld
<1>9. QED
  BY <1>1, <1>2, <1>3, <1>4, <1>5, <1>6, <1>7, <1>8 DEF Table!Next

(* What others may do to a watch that session s is subscribed to: anything, but
   leave it for s or announce its end.                                       *)
Spares(s, k) ==
    \/ UNCHANGED table
    \/ \E t \in Sessions, u \in URIs : Table!Join(t, u)
    \/ \E t \in Sessions, u, v \in URIs : Table!JoinDisplacing(t, u, v)
    \/ \E t \in Sessions \ {s}, U \in SUBSET URIs : Table!Leave(t, U)
    \/ \E j \in Owners \X URIs :
          Start(j) \/ End(j) \/ EndUnheld(j) \/ (Announce(j) /\ j # k)
    \/ \E o \in Owners : Table!Close(o) \/ Table!CloseReturns(o)

(* A watch that a stream waits on ends with an announcement, or by Close. *)
KeptFor(s, u) ==
    LET k == <<OwnerOf[s], u>> IN
    (s \in subs[k] /\ k \in started) \/ k \in due \/ closed[OwnerOf[s]] # "open"

LEMMA WatchIsKept ==
    ASSUME TableTypes, StartedAreHeld, NEW s \in Sessions, NEW u \in URIs, KeptFor(s, u),
           Spares(s, <<OwnerOf[s], u>>)
    PROVE  KeptFor(s, u)'
<1>1. PICK k, o : k = <<OwnerOf[s], u>> /\ o = OwnerOf[s]
  OBVIOUS
<1>2. /\ k \in Owners \X URIs /\ o \in Owners /\ Table!Watches = Owners \X URIs
      /\ (s \in subs[k] /\ k \in started) \/ k \in due \/ closed[o] # "open"
  BY <1>1 DEF KeptFor, Table!Watches
<1>3. ASSUME (s \in subs'[k] /\ k \in started') \/ k \in due' \/ closed'[o] # "open"
      PROVE  KeptFor(s, u)'
  BY <1>1, <1>3 DEF KeptFor
<1>4. ASSUME NEW t \in Sessions, NEW v \in URIs, Table!Join(t, v)
      PROVE  KeptFor(s, u)'
  BY <1>2, <1>3, <1>4 DEF TableTypes, Table!Join
<1>5. ASSUME NEW t \in Sessions, NEW v \in URIs, NEW w \in URIs, Table!JoinDisplacing(t, v, w)
      PROVE  KeptFor(s, u)'
  <2>1. PICK j, d : j = <<OwnerOf[t], v>> /\ d = <<OwnerOf[t], w>>
    OBVIOUS
  <2>2. /\ subs' = [subs EXCEPT ![j] = {t}, ![d] = {}] /\ started' = started \ {d}
        /\ subs[j] = {} /\ due' = due \cup {d} /\ closed' = closed
    BY <1>5, <2>1 DEF Table!JoinDisplacing
  <2>3. CASE k = d \/ k = j \/ ~(s \in subs[k] /\ k \in started)
    BY <1>2, <1>3, <2>2, <2>3
  <2>4. CASE k # d /\ k # j /\ s \in subs[k] /\ k \in started
    <3>1. subs'[k] = subs[k]
      BY <1>2, <2>2, <2>4 DEF TableTypes
    <3>2. QED
      BY <1>3, <2>2, <2>4, <3>1
  <2>5. QED
    BY <2>3, <2>4
<1>6. ASSUME NEW t \in Sessions \ {s}, NEW U \in SUBSET URIs, Table!Leave(t, U)
      PROVE  KeptFor(s, u)'
  <2>1. PICK K, ended :
          /\ ended = {j \in K : subs[j] = {t}}
          /\ subs' = [j \in Table!Watches |-> IF j \in K THEN subs[j] \ {t} ELSE subs[j]]
          /\ started' = started \ ended /\ UNCHANGED <<closed, due>>
    BY <1>6 DEF Table!Leave
  <2>2. s \in subs[k] => s \in subs'[k] /\ k \notin ended
    BY <1>2, <2>1
  <2>3. QED
    BY <1>2, <1>3, <2>1, <2>2
<1>7. ASSUME NEW j \in Owners \X URIs, Start(j)
      PROVE  KeptFor(s, u)'
  BY <1>2, <1>3, <1>7 DEF Start, Table!Start
<1>8. ASSUME NEW j \in Owners \X URIs, End(j)
      PROVE  KeptFor(s, u)'
  BY <1>2, <1>3, <1>8 DEF End, Table!End, TableTypes
<1>9. ASSUME NEW j \in Owners \X URIs, EndUnheld(j)
      PROVE  KeptFor(s, u)'
  BY <1>2, <1>3, <1>9 DEF EndUnheld, Table!EndUnheld, Table!EndSilently
<1>10. ASSUME NEW j \in Owners \X URIs, Announce(j), j # k
       PROVE  KeptFor(s, u)'
  <2>1. Table!Announce(j)
    BY <1>10 DEF Announce
  <2>2. k \in due => k \in due'
    BY <1>10, <2>1 DEF Table!Announce, Table!Less
  <2>3. QED
    BY <1>2, <1>3, <2>1, <2>2 DEF Table!Announce
<1>11. ASSUME NEW m \in Owners, Table!Close(m)
       PROVE  KeptFor(s, u)'
  <2>1. /\ subs' = [j \in Table!Watches |-> IF j \in {m} \X URIs THEN {} ELSE subs[j]]
        /\ started' = started \ ({m} \X URIs) /\ due' = due
        /\ closed' = [closed EXCEPT ![m] = "closing"]
    BY <1>11 DEF Table!Close
  <2>2. CASE m = o
    BY <1>2, <1>3, <2>1, <2>2 DEF TableTypes
  <2>3. CASE m # o
    <3>1. k \notin {m} \X URIs /\ closed'[o] = closed[o]
      BY <1>1, <1>2, <2>1, <2>3 DEF TableTypes
    <3>2. subs'[k] = subs[k] /\ (k \in started' <=> k \in started)
      BY <1>2, <2>1, <3>1
    <3>3. QED
      BY <1>2, <1>3, <2>1, <3>1, <3>2
  <2>4. QED
    BY <2>2, <2>3
<1>12. ASSUME NEW m \in Owners, Table!CloseReturns(m)
       PROVE  KeptFor(s, u)'
  BY <1>2, <1>3, <1>12 DEF Table!CloseReturns, TableTypes
<1>13. CASE UNCHANGED table
  BY <1>2, <1>3, <1>13 DEF table
<1>14. QED
  BY <1>1, <1>4, <1>5, <1>6, <1>7, <1>8, <1>9, <1>10, <1>11, <1>12, <1>13 DEF Spares

(* A call that waits for a first read stays subscribed until the read is over
   or the manager closes.                                                    *)
Awaiting(s, k) == s \in subs[k] /\ k \notin started

LEMMA FirstReadIsAwaited ==
    ASSUME TableTypes, StartedAreHeld, NEW s \in Sessions, NEW k \in Owners \X URIs, Awaiting(s, k),
           Spares(s, k), ~Start(k), ~End(k), closed'[k[1]] = "open"
    PROVE  Awaiting(s, k)'
<1>1. Table!Watches = Owners \X URIs
  BY DEF Table!Watches
<1>2. ASSUME NEW t \in Sessions, NEW v \in URIs, Table!Join(t, v)
      PROVE  Awaiting(s, k)'
  BY <1>2 DEF TableTypes, Table!Join, Awaiting
<1>3. ASSUME NEW t \in Sessions, NEW v \in URIs, NEW w \in URIs, Table!JoinDisplacing(t, v, w)
      PROVE  Awaiting(s, k)'
  <2>1. PICK j, d : j = <<OwnerOf[t], v>> /\ d = <<OwnerOf[t], w>>
    OBVIOUS
  <2>2. /\ subs' = [subs EXCEPT ![j] = {t}, ![d] = {}] /\ started' = started \ {d}
        /\ subs[j] = {} /\ d \in started
    BY <1>3, <2>1 DEF Table!JoinDisplacing
  <2>3. k # d /\ k # j
    BY <2>2 DEF Awaiting
  <2>4. subs'[k] = subs[k]
    BY <2>2, <2>3 DEF TableTypes
  <2>5. QED
    BY <2>2, <2>4 DEF Awaiting
<1>4. ASSUME NEW t \in Sessions \ {s}, NEW U \in SUBSET URIs, Table!Leave(t, U)
      PROVE  Awaiting(s, k)'
  <2>1. PICK K : /\ subs' = [j \in Table!Watches |-> IF j \in K THEN subs[j] \ {t} ELSE subs[j]]
                 /\ started' \subseteq started
    BY <1>4 DEF Table!Leave
  <2>2. QED
    BY <1>1, <2>1 DEF Awaiting
<1>5. ASSUME NEW j \in Owners \X URIs, Start(j) \/ End(j) \/ EndUnheld(j) \/ Announce(j)
      PROVE  Awaiting(s, k)'
  <2>1. CASE Start(j)
    <3>1. j # k /\ Table!Start(j)
      <4>1. Table!Start(j)
        BY <2>1 DEF Start
      <4>2. QED
        BY <2>1, <4>1
    <3>2. QED
      BY <3>1 DEF Table!Start, Awaiting
  <2>2. CASE End(j)
    <3>1. Table!End(j)
      BY <2>2 DEF End
    <3>2. j # k
      BY <2>2
    <3>3. QED
      BY <3>1, <3>2 DEF Table!End, Awaiting, TableTypes
  <2>3. CASE EndUnheld(j) \/ Announce(j)
    BY <2>3 DEF EndUnheld, Announce, Table!EndUnheld, Table!EndSilently, Table!Announce, Awaiting
  <2>4. QED
    BY <1>5, <2>1, <2>2, <2>3
<1>6. ASSUME NEW m \in Owners, Table!Close(m)
      PROVE  Awaiting(s, k)'
  <2>1. /\ subs' = [j \in Table!Watches |-> IF j \in {m} \X URIs THEN {} ELSE subs[j]]
        /\ started' \subseteq started
        /\ closed' = [closed EXCEPT ![m] = "closing"]
    BY <1>6 DEF Table!Close
  <2>2. k[1] # m
    BY <2>1 DEF TableTypes
  <2>3. subs'[k] = subs[k]
    BY <1>1, <2>1, <2>2
  <2>4. QED
    BY <2>1, <2>3 DEF Awaiting
<1>7. CASE UNCHANGED table \/ \E m \in Owners : Table!CloseReturns(m)
  BY <1>7 DEF table, Table!CloseReturns, Awaiting
<1>8. QED
  BY <1>2, <1>3, <1>4, <1>5, <1>6, <1>7 DEF Spares

(* On stateless HTTP nobody but the request itself leaves for its session. *)
LEMMA OthersSpare ==
    ASSUME TypeOK, \A r \in Requests : RequestOK(r), \A s \in Sessions : SessionOK(s), AloneInSession,
           transport = "stateless", NEW q \in Requests, Active(q), [Next]_vars,
           ~GiveUp(q), ~Leave(q), NEW k \in Owners \X URIs, ~Announce(k)
    PROVE  Spares(Ses(q), k)
<1>1. /\ \A r \in Requests : pc[r] # "idle" => Ses(r) \in Sessions
      /\ pc[q] # "idle" /\ Ses(q) \in Sessions
  BY SessionIsKnown, TypesSplit DEF Active
<1>2. ASSUME UNCHANGED table
      PROVE  Spares(Ses(q), k)
  BY <1>2 DEF Spares
<1>3. ASSUME NEW r \in Requests, NEW u \in URIs, Join(r, u)
      PROVE  Spares(Ses(q), k)
  <2>1. Ses(r) \in Sessions
    BY <1>1, <1>3 DEF Join, Goes
  <2>2. QED
    BY <1>3, <2>1 DEF Join, Spares
<1>4. ASSUME NEW r \in Requests, GiveUp(r) \/ Leave(r)
      PROVE  Spares(Ses(q), k)
  <2>1. r # q /\ pc[r] # "idle" /\ at[r].uri \in URIs
    BY <1>4 DEF GiveUp, Leave, Goes, RequestOK
  <2>2. Ses(r) \in Sessions /\ Ses(r) # Ses(q)
    BY <1>1, <2>1 DEF AloneInSession
  <2>3. Table!Leave(Ses(r), {at[r].uri}) \/ UNCHANGED table
    BY <1>4 DEF GiveUp, Leave
  <2>4. {at[r].uri} \in SUBSET URIs
    BY <2>1
  <2>5. QED
    BY <2>2, <2>3, <2>4 DEF Spares
<1>5. ASSUME NEW r \in Requests, RequestStep(r)
      PROVE  Spares(Ses(q), k)
  BY <1>2, <1>3, <1>4, <1>5 DEF RequestStep, Record, Arm, Refused, Release, Abandoned, Hold, Acknowledge,
                                Fail, Unwind, Finish
<1>6. ASSUME NEW s \in Sessions, SessionStep(s) \/ Disconnect(s)
      PROVE  Spares(Ses(q), k)
  <2>1. CASE LeaveSession(s)
    <3>1. s # Ses(q) /\ Table!Leave(s, URIs) /\ URIs \in SUBSET URIs
      BY <2>1 DEF LeaveSession, SessionOK, Over
    <3>2. QED
      BY <3>1 DEF Spares
  <2>2. QED
    BY <1>2, <1>6, <2>1 DEF SessionStep, ReleaseSession, ForgetSession, Disconnect
<1>7. ASSUME NEW j \in Owners \X URIs, Start(j) \/ End(j) \/ EndUnheld(j) \/ Announce(j)
      PROVE  Spares(Ses(q), k)
  <2>1. Announce(j) => j # k
    OBVIOUS
  <2>2. QED
    BY <1>7, <2>1 DEF Spares
<1>8. ASSUME NEW o \in Owners, Evict(o) \/ EvictionStep(o)
      PROVE  Spares(Ses(q), k)
  BY <1>8 DEF Evict, EvictionStep, CloseManager, ManagerCloses, CloseOwner, EndSessions, Spares
<1>9. ASSUME NEW r \in Requests, Arrives(r) \/ ClientCancels(r) \/ EndStream(r)
      PROVE  Spares(Ses(q), k)
  BY <1>2, <1>9 DEF Arrives, Arrive, ClientCancels, EndStream
<1>10. CASE Shutdown \/ CloseAll \/ UNCHANGED vars
  BY <1>2, <1>10 DEF Shutdown, CloseAll, vars
<1>11. QED
  BY <1>5, <1>6, <1>7, <1>8, <1>9, <1>10 DEF Next, Arrives

(* A manager that is closing opens no more. *)
LEMMA ManagersStayClosed ==
    ASSUME TableTypes, Table!Next \/ UNCHANGED table, NEW o \in Owners, closed[o] # "open"
    PROVE  closed'[o] # "open"
<1>1. CASE UNCHANGED closed
  BY <1>1
<1>2. ASSUME NEW m \in Owners, Table!Close(m) \/ Table!CloseReturns(m)
      PROVE  closed'[o] # "open"
  BY <1>2 DEF Table!Close, Table!CloseReturns, TableTypes
<1>3. QED
  BY <1>1, <1>2 DEF Table!Next, Table!Join, Table!JoinDisplacing, Table!Leave, Table!Start, Table!End,
                    Table!EndUnheld, Table!EndSilently, Table!Announce, table

(* Which step takes a request to where it joins, is recorded or is open. *)
LEMMA WhereStepsGo ==
    ASSUME RequestTypes, NEW q \in Requests, RequestStep(q)
    PROVE  /\ pc'[q] = "joining" => \E u \in URIs : Join(q, u)
           /\ pc'[q] = "recorded" => Record(q)
           /\ pc'[q] = "open" => Acknowledge(q)
           /\ pc'[q] # "idle"
<1>1. ASSUME Record(q)
      PROVE  pc'[q] \notin {"joining", "open", "idle"}
  BY <1>1 DEF Record, Goes, RequestTypes, Asks, AllMethods
<1>2. ASSUME NEW u \in URIs, Join(q, u)
      PROVE  pc'[q] \notin {"recorded", "open", "idle"}
  BY <1>2 DEF Join, Goes, RequestTypes
<1>3. ASSUME NEW u \in URIs, Refused(q, u) \/ Release(q, u)
      PROVE  pc'[q] \notin {"joining", "recorded", "open", "idle"}
  BY <1>3 DEF Refused, Release, Goes, RequestTypes
<1>4. ASSUME Arm(q) \/ GiveUp(q) \/ Abandoned(q) \/ Hold(q)
      PROVE  pc'[q] \notin {"joining", "recorded", "open", "idle"}
  BY <1>4 DEF Arm, GiveUp, Abandoned, Hold, Goes, RequestTypes
<1>5. ASSUME Fail(q) \/ Unwind(q) \/ Leave(q) \/ Finish(q)
      PROVE  pc'[q] \notin {"joining", "recorded", "open", "idle"}
  BY <1>5 DEF Fail, Unwind, Leave, Finish, Goes, RequestTypes
<1>6. ASSUME Acknowledge(q)
      PROVE  pc'[q] \notin {"joining", "recorded", "idle"}
  BY <1>6 DEF Acknowledge, Goes, RequestTypes
<1>7. QED
  BY <1>1, <1>2, <1>3, <1>4, <1>5, <1>6 DEF RequestStep

(* A stream waits on no more than was asked, and once acknowledged has subscribed
   all of it.                                                                *)
LEMMA ShapeStays ==
    ASSUME TypeOK, [Next]_vars, NEW q \in Requests, RequestOK(q), StreamShape(q)
    PROVE  StreamShape(q)'
<1>1. RequestTypes /\ StreamTypes
  BY TypesSplit
<1>2. CASE Nudged(q)
  BY <1>2 DEF Nudged, StreamShape
<1>3. CASE EndStream(q)
  BY <1>3 DEF EndStream, requests, StreamShape
<1>4. CASE Arrives(q)
  <2>1. PICK s \in Sessions, method \in Methods : Arrive(q, s, method)
    BY <1>4 DEF Arrives
  <2>2. pc[q] = "idle" /\ pc'[q] = "bound" /\ live' = live
    BY <2>1, ArrivalIsKnown DEF streams
  <2>3. QED
    BY <2>2 DEF StreamShape
<1>5. CASE RequestStep(q)
  <2>1. req' = req /\ pc'[q] # "idle"
    <3>1. req' = req
      BY <1>5 DEF RequestStep, Record, Arm, Join, Joining, Refused, Release, GiveUp, Abandoned, Hold,
                  Acknowledge, Fail, Unwind, Leave, Finish, requests
    <3>2. QED
      BY <1>1, <1>5, <3>1, WhereStepsGo
  <2>2. live'[q] = live[q] \/ live'[q] = {} \/ live'[q] = req[q].uris
    BY <1>1, <1>5 DEF RequestStep, Record, Arm, Join, Joining, Refused, Release, GiveUp, Abandoned, Hold,
                Acknowledge, Fail, Unwind, Leave, Finish, streams, StreamTypes
  <2>3. pc'[q] = "recorded" => todo'[q] = req[q].uris
    BY <1>1, <1>5, WhereStepsGo DEF Record, RequestTypes
  <2>4. pc'[q] = "open" => todo'[q] = {}
    BY <1>1, <1>5, WhereStepsGo DEF Acknowledge, RequestTypes
  <2>5. QED
    BY <2>1, <2>2, <2>3, <2>4 DEF StreamShape
<1>6. QED
  BY <1>2, <1>3, <1>4, <1>5, EachIsNudged

(* What the two lemmas that follow, on stateless HTTP, are told of a request in
   progress.                                                                 *)
Steady ==
    /\ TypeOK
    /\ \A r \in Requests : RequestOK(r)
    /\ \A s \in Sessions : SessionOK(s)
    /\ AloneInSession /\ StartedAreHeld
    /\ transport = "stateless"

(* Who waits for a first read stays subscribed, until it ends or Close comes. *)
LEMMA ReadStaysAwaited ==
    ASSUME Steady, [Next]_vars, NEW q \in Requests, ReadAwaited(q)
    PROVE  ReadAwaited(q)'
<1>1. TableTypes /\ RequestTypes /\ StartedAreHeld
  BY TypesSplit DEF Steady
<1>2. SUFFICES ASSUME pc'[q] = "joining", closed'[Owner(q)'] = "open"
               PROVE  Ses(q)' \in subs'[Watch(q)'] /\ Watch(q)' \notin started'
  BY DEF ReadAwaited
<1>3. CASE Nudged(q) \/ EndStream(q)
  <2>1. /\ pc[q] = "joining" /\ req'[q] = req[q] /\ at'[q] = at[q]
        /\ ~RequestStep(q) \/ (~GiveUp(q) /\ ~Leave(q))
    <3>1. ASSUME GiveUp(q) \/ Leave(q)
          PROVE  pc'[q] # "joining"
      BY <1>1, <3>1 DEF GiveUp, Leave, Goes, RequestTypes
    <3>2. pc[q] = "joining" /\ req'[q] = req[q] /\ at'[q] = at[q]
      BY <1>2, <1>3 DEF Nudged, EndStream, requests
    <3>3. QED
      BY <1>2, <3>1, <3>2
  <2>2. ~GiveUp(q) /\ ~Leave(q)
    BY <1>1, <1>2 DEF GiveUp, Leave, Goes, RequestTypes
  <2>3. PICK s, k : s = Ses(q) /\ k = Watch(q)
    OBVIOUS
  <2>4. /\ s \in Sessions /\ k \in Owners \X URIs /\ k[1] = Owner(q) /\ Owner(q) \in Owners
        /\ Ses(q)' = s /\ Watch(q)' = k /\ Owner(q)' = Owner(q)
    <3>1. Ses(q) \in Sessions /\ Owner(q) \in Owners
      BY <1>1, <2>1, SessionIsKnown DEF Steady
    <3>2. at[q].uri \in URIs
      BY <2>1 DEF Steady, RequestOK
    <3>3. Ses(q)' = Ses(q) /\ Watch(q)' = Watch(q) /\ Owner(q)' = Owner(q)
      BY <2>1 DEF Ses, Watch, Owner
    <3>4. QED
      BY <2>3, <3>1, <3>2, <3>3 DEF Watch
  <2>5. closed[Owner(q)] = "open" /\ closed'[k[1]] = "open"
    <3>1. Table!Next \/ UNCHANGED table
      <4>1. Next => Table!Next \/ UNCHANGED table
        BY TableIsRespected DEF Steady
      <4>2. UNCHANGED vars => UNCHANGED table
        BY DEF vars
      <4>3. QED
        BY <4>1, <4>2
    <3>2. QED
      BY <1>1, <1>2, <2>4, <3>1, ManagersStayClosed
  <2>6. Awaiting(s, k)
    BY <2>1, <2>3, <2>5 DEF ReadAwaited, Awaiting
  <2>7. ~Start(k) /\ ~End(k)
    <3>1. ASSUME Start(k) \/ End(k)
          PROVE  pc'[q] # "joining"
      BY <1>1, <2>1, <2>3, <2>6, <3>1 DEF Start, End, RequestTypes, Awaiting
    <3>2. QED
      BY <1>2, <3>1
  <2>8. CASE Announce(k)
    <3>1. subs' = subs /\ started' = started
      BY <2>8 DEF Announce, Table!Announce
    <3>2. QED
      BY <2>4, <2>6, <3>1 DEF Awaiting
  <2>9. CASE ~Announce(k)
    <3>1. Active(q)
      BY <2>1 DEF Active
    <3>2. Spares(s, k)
      BY <2>2, <2>3, <2>4, <2>9, <3>1, OthersSpare DEF Steady
    <3>3. Awaiting(s, k)'
      BY <1>1, <2>4, <2>5, <2>6, <2>7, <3>2, FirstReadIsAwaited
    <3>4. QED
      BY <2>4, <3>3 DEF Awaiting
  <2>10. QED
    BY <2>8, <2>9
<1>4. CASE Arrives(q)
  <2>1. pc'[q] = "bound"
    BY <1>1, <1>4 DEF Arrives, Arrive, Goes, RequestTypes
  <2>2. QED
    BY <1>2, <2>1
<1>5. CASE RequestStep(q)
  <2>1. PICK u \in URIs : Join(q, u)
    BY <1>1, <1>2, <1>5, WhereStepsGo
  <2>2. RequestOK(q) /\ TypeOK
    BY DEF Steady
  <2>3. /\ Ses(q) \in Sessions
        /\ subs'[<<Owner(q), u>>] = subs[<<Owner(q), u>>] \cup {Ses(q)}
    BY <2>1, <2>2, SubscribeAwaits
  <2>4. req' = req /\ at'[q].uri = u
    BY <1>1, <2>1 DEF Join, Joining, RequestTypes
  <2>5. Ses(q)' = Ses(q) /\ Watch(q)' = <<Owner(q), u>>
    BY <2>4 DEF Ses, Watch, Owner
  <2>6. <<Owner(q), u>> \notin started
    BY <1>1, <1>2, <2>1 DEF Join, Goes, RequestTypes
  <2>7. started' \subseteq started
    BY <2>1 DEF Join, Table!Join, Table!JoinDisplacing
  <2>8. QED
    BY <2>3, <2>5, <2>6, <2>7
<1>6. QED
  BY <1>3, <1>4, <1>5, EachIsNudged DEF Steady

(* A watch a stream waits on is kept by every step but the request's own leaving
   and the announcement, which strikes the resource off the stream.          *)
LEMMA KeptStays ==
    ASSUME Steady, [Next]_vars, NEW q \in Requests, Active(q), ~GiveUp(q), ~Leave(q), req'[q] = req[q],
           NEW u \in URIs, ~Announce(<<Owner(q), u>>), Kept(q, u)
    PROVE  Kept(q, u)'
<1>1. TableTypes /\ RequestTypes /\ StartedAreHeld
  BY TypesSplit DEF Steady
<1>2. PICK s, k : s = Ses(q) /\ k = <<Owner(q), u>>
  OBVIOUS
<1>3. s \in Sessions /\ k \in Owners \X URIs /\ k = <<OwnerOf[s], u>> /\ Ses(q)' = s
  <2>1. Ses(q) \in Sessions /\ Owner(q) \in Owners
    BY <1>1, SessionIsKnown DEF Steady, Active
  <2>2. Ses(q)' = Ses(q)
    BY DEF Ses
  <2>3. QED
    BY <1>2, <2>1, <2>2 DEF Owner
<1>4. Spares(s, k)
  BY <1>2, <1>3, OthersSpare DEF Steady
<1>5. KeptFor(s, u)
  BY <1>2 DEF KeptFor, Kept, Owner
<1>6. KeptFor(s, u)'
  BY <1>1, <1>3, <1>4, <1>5, WatchIsKept
<1>7. QED
  BY <1>3, <1>6 DEF KeptFor, Kept, Owner

(* A hold is taken after the watch, and given up before it. *)
LEMMA StreamsStayKept ==
    ASSUME Steady, [Next]_vars, NEW q \in Requests, StreamOK(q), StreamShape(q), ReadAwaited(q), StreamKept(q)
    PROVE  StreamKept(q)'
<1>1. /\ TableTypes /\ RequestTypes /\ StreamTypes /\ StartedAreHeld
      /\ live[q] \subseteq URIs /\ RequestOK(q)
  <2>1. TableTypes /\ RequestTypes /\ StreamTypes /\ StartedAreHeld /\ RequestOK(q)
    BY TypesSplit DEF Steady
  <2>2. live[q] \subseteq URIs
    BY <2>1 DEF StreamTypes
  <2>3. QED
    BY <2>1, <2>2
<1>2. SUFFICES ASSUME pc'[q] \in {"subscribing", "joining", "ready", "open"}, stage'[q] = "filed",
                      NEW u, u \in Subscribed(q)'
               PROVE  Kept(q, u)'
  BY DEF StreamKept
<1>3. u \in live'[q] /\ (u \in todo'[q] => pc'[q] = "ready" /\ u = at'[q].uri)
  BY <1>2 DEF Subscribed
<1>4. CASE Arrives(q)
  <2>1. pc'[q] = "bound"
    BY <1>1, <1>4 DEF Arrives, Arrive, Goes, RequestTypes
  <2>2. QED
    BY <1>2, <2>1
<1>5. CASE EndStream(q)
  <2>1. stage'[q] # "filed"
    BY <1>1, <1>5 DEF EndStream, EndWith, StreamTypes
  <2>2. QED
    BY <1>2, <2>1
<1>6. CASE Nudged(q)
  <2>1. /\ req'[q] = req[q] /\ todo'[q] = todo[q] /\ at'[q] = at[q] /\ stage[q] = "filed" /\ u \in live[q]
        /\ u \in URIs
    BY <1>1, <1>2, <1>3, <1>6 DEF Nudged
  <2>2. Active(q) /\ pc[q] \in {"subscribing", "joining", "ready", "open"}
    BY <1>2, <1>6 DEF Nudged, Active
  <2>3. ~GiveUp(q) /\ ~Leave(q)
    BY <1>1, <1>2, <1>6 DEF GiveUp, Leave, Goes, RequestTypes, Nudged
  <2>4. CASE pc[q] = "joining" /\ pc'[q] = "ready" /\ u = at[q].uri
    <3>1. Ses(q) \in subs[Watch(q)] /\ Start(Watch(q))
      BY <1>6, <2>4 DEF Nudged
    <3>2. subs' = subs /\ Watch(q) \in started'
      BY <3>1 DEF Start, Table!Start
    <3>3. Ses(q)' = Ses(q) /\ Watch(q) = <<Owner(q), u>> /\ Owner(q)' = Owner(q)
      BY <2>1, <2>4 DEF Ses, Owner, Watch
    <3>4. QED
      BY <3>1, <3>2, <3>3 DEF Kept
  <2>5. CASE ~(pc[q] = "joining" /\ pc'[q] = "ready" /\ u = at[q].uri)
    <3>1. u \in Subscribed(q)
      BY <1>2, <1>3, <1>6, <2>1, <2>5 DEF Subscribed, Nudged
    <3>2. Kept(q, u)
      BY <2>1, <2>2, <3>1 DEF StreamKept
    <3>3. ~Announce(<<Owner(q), u>>)
      <4>1. SUFFICES ASSUME Announce(<<Owner(q), u>>)
                     PROVE  FALSE
        OBVIOUS
      <4>2. PICK k : k = <<Owner(q), u>>
        OBVIOUS
      <4>3. k[1] = Owner(q) /\ k[2] = u /\ Announce(k)
        BY <4>1, <4>2
      <4>4. live'[q] = IF stage[q] = "filed" /\ Owner(q) = k[1] /\ k[2] \in live[q]
                       THEN live[q] \ {k[2]} ELSE live[q]
        BY <4>3 DEF Announce
      <4>5. u \notin live'[q]
        BY <2>1, <4>3, <4>4
      <4>6. QED
        BY <1>3, <4>5
    <3>4. QED
      BY <2>1, <2>2, <2>3, <3>2, <3>3, KeptStays
  <2>6. QED
    BY <2>4, <2>5
<1>7. CASE RequestStep(q)
  <2>1. req' = req
    BY <1>7 DEF RequestStep, Record, Arm, Join, Joining, Refused, Release, GiveUp, Abandoned, Hold,
                Acknowledge, Fail, Unwind, Leave, Finish, requests
  <2>2. Ses(q)' = Ses(q) /\ Owner(q)' = Owner(q)
    BY <2>1 DEF Ses, Owner
  <2>3. CASE Arm(q)
    <3>1. pc'[q] = "subscribing" /\ todo'[q] = req[q].uris /\ live'[q] \subseteq req[q].uris
      BY <1>1, <2>3 DEF Arm, Goes, StreamShape, RequestTypes, StreamTypes
    <3>2. QED
      BY <1>3, <3>1
  <2>4. ASSUME NEW v \in URIs, Join(q, v)
        PROVE  Kept(q, u)'
    <3>1. /\ pc[q] = "subscribing" /\ v \in todo[q] /\ todo' = todo /\ live' = live /\ stage' = stage
          /\ at'[q].uri = v /\ u \in URIs
          /\ pc'[q] = IF <<Owner(q), v>> \in started THEN "ready" ELSE "joining"
      BY <1>1, <1>3, <2>4 DEF Join, Joining, Goes, streams, RequestTypes
    <3>2. CASE u = v
      <4>1. <<Owner(q), u>> \in started
        BY <1>3, <3>1, <3>2
      <4>2. subs[<<Owner(q), u>>] # {}
        BY <1>1, <4>1 DEF StartedAreHeld
      <4>3. Table!Join(Ses(q), v)
        BY <2>4, <3>2, <4>2 DEF Join, Table!JoinDisplacing, Owner
      <4>4. <<Owner(q), u>> \in started'
        BY <4>1, <4>3 DEF Table!Join
      <4>5. Ses(q) \in subs'[<<Owner(q), u>>]
        <5>1. TypeOK
          BY DEF Steady
        <5>2. subs'[<<Owner(q), v>>] = subs[<<Owner(q), v>>] \cup {Ses(q)}
          BY <1>1, <2>4, <5>1, SubscribeAwaits
        <5>3. QED
          BY <3>2, <5>2
      <4>6. QED
        BY <2>2, <4>4, <4>5 DEF Kept
    <3>3. CASE u # v
      <4>1. u \in Subscribed(q)
        BY <1>3, <3>1, <3>3 DEF Subscribed
      <4>2. Kept(q, u)
        BY <1>2, <3>1, <4>1 DEF StreamKept
      <4>3. pc'[q] # pc[q] /\ Active(q) /\ pc'[q] \in {"ready", "joining"}
        BY <3>1 DEF Active
      <4>4. ~Announce(<<Owner(q), u>>) /\ ~GiveUp(q) /\ ~Leave(q)
        BY <3>1, <4>3 DEF Announce, GiveUp, Leave, Goes, requests
      <4>5. QED
        BY <2>1, <3>1, <4>2, <4>3, <4>4, KeptStays
    <3>4. QED
      BY <3>2, <3>3
  <2>5. CASE Abandoned(q)
    <3>1. pc[q] = "joining" /\ closed[Owner(q)] # "open"
      BY <2>5 DEF Abandoned, ReadAwaited
    <3>2. pc'[q] = "failed"
      BY <1>1, <2>5, <3>1 DEF Abandoned, RequestTypes
    <3>3. QED
      BY <1>2, <3>2
  <2>6. CASE Hold(q) \/ Acknowledge(q)
    <3>1. UNCHANGED table /\ live' = live /\ stage' = stage /\ pc[q] \in {"ready", "subscribing"}
          /\ u \in Subscribed(q)
      BY <1>1, <1>3, <2>6 DEF Hold, Acknowledge, Goes, streams, Subscribed, RequestTypes
    <3>2. Kept(q, u)
      BY <1>2, <3>1 DEF StreamKept
    <3>3. QED
      BY <2>2, <3>1, <3>2 DEF Kept, table
  <2>7. ASSUME NEW v \in URIs, Refused(q, v) \/ Release(q, v)
        PROVE  FALSE
    BY <1>1, <1>2, <2>7 DEF Refused, Release, Goes, RequestTypes
  <2>8. CASE Record(q) \/ GiveUp(q) \/ Fail(q) \/ Unwind(q) \/ Leave(q) \/ Finish(q)
    <3>1. pc'[q] \notin {"subscribing", "joining", "ready", "open"} \/ Record(q)
      BY <1>1, <2>8 DEF GiveUp, Fail, Unwind, Leave, Finish, Goes, RequestTypes
    <3>2. Record(q) => stage'[q] # "filed"
      BY DEF Record, Goes, StreamOK, streams
    <3>3. QED
      BY <1>2, <3>1, <3>2
  <2>9. QED
    BY <1>7, <2>3, <2>4, <2>5, <2>6, <2>7, <2>8 DEF RequestStep
<1>8. QED
  BY <1>4, <1>5, <1>6, <1>7, EachIsNudged DEF Steady

-----------------------------------------------------------------------------
(* The invariant *)

LEMMA InvInit ==
    ASSUME Init
    PROVE  BridgeInv
<1>1. /\ transport \in Transports
      /\ closed = [o \in Owners |-> "open"] /\ subs = [k \in Owners \X URIs |-> {}]
      /\ started = {} /\ due = {} /\ unwinding = {}
  BY DEF Init, Table!Init, Table!Watches
<1>2. TypeOK
  <2>1. TableTypes
    BY <1>1 DEF TableTypes
  <2>2. SessionTypes
    BY DEF Init, SessionTypes
  <2>3. RequestTypes
    <3>1. [session |-> None, method |-> "listen", uris |-> {}, lists |-> FALSE] \in Asks
      BY DEF Asks, AllMethods
    <3>2. Nowhere \in Points
      BY DEF Nowhere, Points
    <3>3. QED
      BY <3>1, <3>2 DEF Init, RequestTypes, Pc
  <2>4. StreamTypes
    BY DEF Init, StreamTypes
  <2>5. ProcessTypes
    BY DEF Init, ProcessTypes
  <2>6. QED
    BY <2>1, <2>2, <2>3, <2>4, <2>5, TypesSplit
<1>3. ASSUME NEW r \in Requests
      PROVE  RequestOK(r) /\ StreamOK(r) /\ WatchOK(r)
  <2>1. /\ pc[r] = "idle" /\ req[r].session = None /\ req[r].method = "listen" /\ stage[r] = "out"
        /\ ctx[r] = "live" /\ result[r] = "none" /\ live[r] = {}
    BY DEF Init
  <2>2. RequestOK(r)
    BY <2>1 DEF RequestOK, Ses
  <2>3. StreamOK(r)
    BY <2>1 DEF StreamOK
  <2>4. WatchOK(r)
    BY <2>1 DEF WatchOK, StreamShape, ReadAwaited, StreamKept
  <2>5. QED
    BY <2>2, <2>3, <2>4
<1>4. ASSUME NEW s \in Sessions
      PROVE  SessionOK(s) /\ EvictionOK(s)
  <2>1. /\ \A u \in URIs : holds[<<s, u>>] = {}
        /\ \A o \in Owners : \A u \in URIs : subs[<<o, u>>] = {}
        /\ leaving = {} /\ pool[OwnerOf[s]] = "live"
        /\ \A r \in Requests : Ses(r) = None
    BY <1>1 DEF Init, Ses
  <2>2. QED
    BY <2>1 DEF SessionOK, EvictionOK
<1>5. AloneInSession /\ StartedAreHeld
  BY <1>1 DEF Init, AloneInSession, StartedAreHeld, Ses
<1>6. QED
  BY <1>2, <1>3, <1>4, <1>5 DEF BridgeInv

LEMMA InvStep ==
    ASSUME BridgeInv, [Next]_vars
    PROVE  BridgeInv'
<1>1. /\ TypeOK /\ \A r \in Requests : RequestOK(r) /\ StreamOK(r) /\ WatchOK(r)
      /\ \A s \in Sessions : SessionOK(s) /\ EvictionOK(s)
      /\ AloneInSession /\ StartedAreHeld
  BY DEF BridgeInv
<1>2. Table!Next \/ UNCHANGED table
  <2>1. Next => Table!Next \/ UNCHANGED table
    BY <1>1, TableIsRespected
  <2>2. UNCHANGED vars => UNCHANGED table
    BY DEF vars
  <2>3. QED
    BY <2>1, <2>2
<1>3. TypeOK'
  <2>1. TableTypes'
    BY <1>1, <1>2, TypesSplit, TableKeepsTypes
  <2>2. SessionTypes' /\ RequestTypes' /\ StreamTypes' /\ ProcessTypes'
    BY <1>1, SessionTypesKept, RequestTypesKept, StreamTypesKept, ProcessTypesKept
  <2>3. QED
    BY <2>1, <2>2, TypesSplitNext
<1>4. ASSUME NEW r \in Requests
      PROVE  RequestOK(r)' /\ StreamOK(r)' /\ WatchOK(r)'
  <2>1. RequestOK(r)' /\ StreamOK(r)'
    BY <1>1, RequestStaysOK, StreamStaysOK
  <2>2. StreamShape(r)'
    BY <1>1, ShapeStays DEF WatchOK
  <2>3. transport' = "stateless" => ReadAwaited(r)' /\ StreamKept(r)'
    <3>1. SUFFICES ASSUME transport = "stateless"
                   PROVE  ReadAwaited(r)' /\ StreamKept(r)'
      BY TransportStays
    <3>2. Steady /\ StreamShape(r) /\ ReadAwaited(r) /\ StreamKept(r) /\ StreamOK(r)
      BY <1>1, <3>1 DEF Steady, WatchOK
    <3>3. QED
      BY <3>2, ReadStaysAwaited, StreamsStayKept
  <2>4. QED
    BY <2>1, <2>2, <2>3 DEF WatchOK
<1>5. ASSUME NEW s \in Sessions
      PROVE  SessionOK(s)' /\ EvictionOK(s)'
  BY <1>1, SessionStaysOK, EvictionStaysOK
<1>6. AloneInSession'
  BY <1>1, RequestsStayAlone
<1>7. StartedAreHeld'
  BY <1>1, <1>2, TypesSplit, StartedStayHeld
<1>8. QED
  BY <1>3, <1>4, <1>5, <1>6, <1>7 DEF BridgeInv

(* The inductive invariant: sessions, requests, streams and watches are to one
   another what the properties below need.                                   *)
THEOREM BridgeIsInvariant == Spec => []BridgeInv
BY InvInit, InvStep, PTL DEF Spec

(* Every variable of the bridge keeps its type, on every transport. *)
THEOREM BridgeIsTyped == Spec => []TypeOK
<1>1. BridgeInv => TypeOK
  BY DEF BridgeInv
<1>2. QED
  BY <1>1, BridgeIsInvariant, PTL

(* A listen the server ended answers with the reason: endWith stores it before
   it cancels the context, and Finish reads it after.                        *)
THEOREM EndedListensSayWhy == Spec => []EndingsAreTold
<1>1. BridgeInv => EndingsAreTold
  BY DEF BridgeInv, StreamOK, EndingsAreTold
<1>2. QED
  BY <1>1, BridgeIsInvariant, PTL

(* A session that is over and whose awaitEnd has run holds nothing and is
   subscribed to nothing, in any credential's manager: whoever subscribes was
   awaited before it did, and no request follows the end.                    *)
THEOREM OverSessionsAreReleased == Spec => []OverMeansReleased
<1>1. BridgeInv => OverMeansReleased
  <2>1. SUFFICES ASSUME BridgeInv, NEW s \in Sessions, s \notin awaited \cup leaving
                 PROVE  /\ \A k \in Owners \X URIs : s \notin subs[k]
                        /\ \A u \in URIs : holds[<<s, u>>] = {}
    BY DEF OverMeansReleased
  <2>2. SessionOK(s)
    BY <2>1 DEF BridgeInv
  <2>3. \A o \in Owners : \A u \in URIs : s \notin subs[<<o, u>>]
    BY <2>1, <2>2 DEF SessionOK
  <2>4. \A k \in Owners \X URIs : k[1] \in Owners /\ k[2] \in URIs /\ k = <<k[1], k[2]>>
    OBVIOUS
  <2>5. QED
    BY <2>1, <2>2, <2>3, <2>4 DEF SessionOK
<1>2. QED
  BY <1>1, BridgeIsInvariant, PTL

(* A stateful subscriber whose credential is gone has had its session ended: a
   subscriber's session is attributed or handed over from before it holds
   anything, and the eviction ends all it was handed.                        *)
THEOREM EvictedSessionsAreEnded == Spec => []EvictedSubscribersAreEnded
<1>1. BridgeInv => EvictedSubscribersAreEnded
  <2>1. SUFFICES ASSUME BridgeInv, NEW s \in Sessions, NEW u \in URIs, transport = "stateful",
                        pool[OwnerOf[s]] = "gone", Legacy \in holds[<<s, u>>]
                 PROVE  session[s] = "closing"
    BY DEF EvictedSubscribersAreEnded
  <2>2. EvictionOK(s)
    BY <2>1 DEF BridgeInv
  <2>3. session[s] = "closing" \/ Attributed(s)
    BY <2>1, <2>2 DEF EvictionOK
  <2>4. QED
    BY <2>1, <2>2, <2>3 DEF EvictionOK, Attributed
<1>2. QED
  BY <1>1, BridgeIsInvariant, PTL

(* Off stdio, an open listen has a watch for each resource it waits on, or an
   ending on its way.  On stdio the statement is false: several requests share
   one session there, and run hold shows one of them taking the others' watch. *)
THEOREM HttpStreamsAreWatched == Spec => [](transport # "stdio" => OpenStreamsAreWatched)
<1>1. BridgeInv => (transport # "stdio" => OpenStreamsAreWatched)
  <2>1. SUFFICES ASSUME BridgeInv, transport # "stdio", NEW r \in Requests, pc[r] = "open",
                        stage[r] = "filed", NEW u \in live[r]
                 PROVE  LET k == <<Owner(r), u>> IN Ses(r) \in subs[k] \/ k \in due \/ closed[k[1]] # "open"
    BY DEF OpenStreamsAreWatched
  <2>2. TypeOK /\ RequestOK(r) /\ WatchOK(r)
    BY <2>1 DEF BridgeInv
  <2>3. transport = "stateless"
    <3>1. transport \in {"stdio", "stateless", "stateful"}
      BY <2>2 DEF TypeOK
    <3>2. QED
      BY <2>1, <2>2, <3>1 DEF RequestOK
  <2>4. u \in Subscribed(r)
    BY <2>1, <2>2 DEF WatchOK, StreamShape, Subscribed
  <2>5. Kept(r, u)
    BY <2>1, <2>2, <2>3, <2>4 DEF WatchOK, StreamKept
  <2>6. QED
    BY <2>5 DEF Kept
<1>2. QED
  BY <1>1, BridgeIsInvariant, PTL

(* The bridge leaves the watches of every manager to the table: whatever its
   sessions, streams and evictions do at once, their calls of Subscribe,
   Unsubscribe, UnsubscribeAll and Close, and the endings it is told of, are
   steps of WatchTable, which is what SubscriptionManager is shown to implement
   (WatchTableProofs): the two layers are proved against one interface.      *)
THEOREM BridgeUsesTable == Spec => Table!Spec
<1>1. Init => Table!Init
  BY DEF Init
<1>2. BridgeInv /\ [Next]_vars => [Table!Next]_(Table!vars)
  <2>1. BridgeInv /\ Next => Table!Next \/ UNCHANGED table
    BY TableIsRespected DEF BridgeInv
  <2>2. UNCHANGED vars => UNCHANGED table
    BY DEF vars
  <2>3. UNCHANGED table => UNCHANGED Table!vars
    BY DEF table, Table!vars
  <2>4. QED
    BY <2>1, <2>2, <2>3
<1>3. QED
  BY <1>1, <1>2, BridgeIsInvariant, PTL DEF Spec, Table!Spec
===============================================================================
