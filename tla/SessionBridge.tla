---------------------------- MODULE SessionBridge ----------------------------
(***************************************************************************)
(* The transport layer of the subscriptions, cmd/server: sessions and the  *)
(* credentials they were opened with, the listen requests a client leaves  *)
(* open, the holds they have on watches, and the four ways the server ends *)
(* them: a watch that stopped, a credential evicted, a shutdown, and a     *)
(* session that is over.  The subscription managers underneath are their   *)
(* WatchTable; the go-sdk around it is modelled from how it is used.       *)
(***************************************************************************)
CONSTANTS
    Owners,      \* pooled credentials: the owner of an entry is never reused
    Sessions,
    OwnerOf,     \* the credential a session's requests carry
    URIs,
    Requests,
    Transports,  \* those to check, of "stdio", "stateless" and "stateful"
    Methods,     \* what clients send, of AllMethods
    Wants,       \* what a listen may ask for: URIs, and whether list changes too
    Events,      \* what happens from outside: "cancel", "evict", "shutdown"
    Legacy,      \* legacyHold: the holder a resources/subscribe stands for
    None

AllMethods == {"listen", "subscribe", "unsubscribe", "initialize"}

ASSUME BridgeAssumption ==
    /\ OwnerOf \in [Sessions -> Owners]
    /\ Transports \subseteq {"stdio", "stateless", "stateful"}
    /\ Methods \subseteq AllMethods
    /\ Wants \subseteq [uris : SUBSET URIs, lists : BOOLEAN] \ {[uris |-> {}, lists |-> FALSE]}
    /\ Events \subseteq {"cancel", "evict", "shutdown"}
    /\ Legacy \notin Requests /\ None \notin Sessions \cup URIs

VARIABLES
    transport,
    (* the watch tables of the credentials *)
    closed, subs, started, due, unwinding,
    (* sessions *)
    session,     \* "none", "open", "closing": refuses requests, waits for those it has
    recorded,    \* sessionOwners: the sessions attributed to their credential
    awaited,     \* sessionBridge.awaited
    leaving,     \* sessions whose awaitEnd goroutine has yet to UnsubscribeAll
    holds,       \* sessionBridge.holds
    (* requests *)
    req, pc,
    todo,        \* URIs still to subscribe, or to unsubscribe
    at,          \* the URI being subscribed or unsubscribed, and how it was joined
    result,      \* what the SDK's handler returned
    told,        \* the ending stamped on that result
    (* listen streams *)
    ctx,         \* the context: live, left by the client, or ended by the server
    stage,       \* filed in the registry; taken out of it, its ending stored, canceled
    why,         \* the ending, for a stream that was taken
    live,        \* listenStream.live
    (* the process *)
    pool,        \* how far the eviction of each credential is
    orphans,     \* the sessions forgetOwner handed over
    down,        \* the process was told to stop
    sealed       \* listenStreams.closed

table    == <<closed, subs, started, due, unwinding>>
sessions == <<session, recorded, awaited, leaving, holds>>
requests == <<req, pc, todo, at, result, told>>
streams  == <<ctx, stage, why, live>>
process  == <<pool, orphans, down, sealed>>
vars     == <<transport, table, sessions, requests, streams, process>>

Table == INSTANCE WatchTable WITH Managers <- Owners, ManagerOf <- OwnerOf

Causes == {"stopped", "evicted", "shutdown"}
Pc == {"idle", "bound", "recorded", "subscribing", "joining", "ready", "failed", "open",
       "unwinding", "leaving", "done"}

TypeOK ==
    /\ transport \in Transports
    /\ closed \in [Owners -> {"open", "closing", "closed"}]
    /\ subs \in [Owners \X URIs -> SUBSET Sessions]
    /\ started \subseteq Owners \X URIs
    /\ due \subseteq Owners \X URIs
    /\ unwinding \subseteq Owners \X URIs
    /\ session \in [Sessions -> {"none", "open", "closing"}]
    /\ recorded \subseteq Sessions
    /\ awaited \subseteq Sessions
    /\ leaving \subseteq Sessions
    /\ holds \in [Sessions \X URIs -> SUBSET (Requests \cup {Legacy})]
    /\ req \in [Requests -> [session : Sessions \cup {None}, method : AllMethods,
                             uris : SUBSET URIs, lists : BOOLEAN]]
    /\ pc \in [Requests -> Pc]
    /\ todo \in [Requests -> SUBSET URIs]
    /\ at \in [Requests -> [uri : URIs \cup {None}, how : {"began", "added", "already"}]]
    /\ result \in [Requests -> {"none", "ok", "error"}]
    /\ told \in [Requests -> {"none"} \cup Causes]
    /\ ctx \in [Requests -> {"live", "left", "ended"}]
    /\ stage \in [Requests -> {"out", "filed", "taken", "stored", "ended"}]
    /\ why \in [Requests -> {"none"} \cup Causes]
    /\ live \in [Requests -> SUBSET URIs]
    /\ pool \in [Owners -> {"live", "dropped", "stopping", "ending", "gone"}]
    /\ orphans \in [Owners -> SUBSET Sessions]
    /\ down \in BOOLEAN
    /\ sealed \in BOOLEAN
    /\ \A r \in Requests : stage[r] \in {"taken", "stored", "ended"} <=> why[r] # "none"

-----------------------------------------------------------------------------
(* Helpers *)

Ses(r)     == req[r].session
Owner(r)   == OwnerOf[Ses(r)]
Listens(r) == req[r].method = "listen"
Active(r)  == pc[r] \notin {"idle", "done"}
Watch(r)   == <<Owner(r), at[r].uri>>
Holder(r)  == IF Listens(r) THEN r ELSE Legacy

(* session.Wait returns: no request of the session is in flight any more. *)
Over(s) == session[s] = "closing" /\ \A r \in Requests : Active(r) => Ses(r) # s

Goes(r, from, to) == pc[r] = from /\ pc' = [pc EXCEPT ![r] = to]

Nowhere == [uri |-> None, how |-> "began"]

(* Takes the streams of R out of the registry, to be ended for a cause. *)
Take(R, cause) ==
    /\ stage' = [r \in Requests |-> IF r \in R THEN "taken" ELSE stage[r]]
    /\ why' = [r \in Requests |-> IF r \in R THEN cause ELSE why[r]]

Init ==
    /\ transport \in Transports
    /\ Table!Init
    /\ session = [s \in Sessions |-> "none"]
    /\ recorded = {}
    /\ awaited = {}
    /\ leaving = {}
    /\ holds = [h \in Sessions \X URIs |-> {}]
    /\ req = [r \in Requests |-> [session |-> None, method |-> "listen", uris |-> {}, lists |-> FALSE]]
    /\ pc = [r \in Requests |-> "idle"]
    /\ todo = [r \in Requests |-> {}]
    /\ at = [r \in Requests |-> Nowhere]
    /\ result = [r \in Requests |-> "none"]
    /\ told = [r \in Requests |-> "none"]
    /\ ctx = [r \in Requests |-> "live"]
    /\ stage = [r \in Requests |-> "out"]
    /\ why = [r \in Requests |-> "none"]
    /\ live = [r \in Requests |-> {}]
    /\ pool = [o \in Owners |-> "live"]
    /\ orphans = [o \in Owners |-> {}]
    /\ down = FALSE
    /\ sealed = FALSE

-----------------------------------------------------------------------------
(* A request comes in *)

(* What the SDK takes on each transport: a stateless request is a session of
   its own and may only listen; a stateful session opens with initialize, is
   known by the gate afterwards, and cannot listen, as stateful HTTP refuses the
   revisions that have it; stdio is one session doing everything.            *)
Takes(s, method) ==
    CASE transport = "stateless" -> method = "listen" /\ session[s] = "none"
      [] transport = "stateful"  -> \/ method = "initialize" /\ session[s] = "none"
                                    \/ method \in {"subscribe", "unsubscribe"} /\ session[s] = "open"
                                       /\ s \in recorded
      [] transport = "stdio"     -> /\ method \in {"listen", "subscribe", "unsubscribe"}
                                    /\ session[s] # "closing"
                                    /\ \A t \in Sessions : session[t] # "none" => t = s

Wanted(method) ==
    CASE method = "listen"     -> Wants
      [] method = "initialize" -> {[uris |-> {}, lists |-> FALSE]}
      [] OTHER                 -> {[uris |-> {u}, lists |-> FALSE] : u \in URIs}

(* The gate has resolved the credential's pool entry, checked that the session
   is its own, and bound the request to its state.                            *)
Arrive(r, s, method) ==
    /\ Goes(r, "idle", "bound")
    /\ ~down /\ pool[OwnerOf[s]] = "live"
    /\ Takes(s, method)
    /\ \E w \in Wanted(method) :
         req' = [req EXCEPT ![r] = [session |-> s, method |-> method, uris |-> w.uris, lists |-> w.lists]]
    /\ session' = [session EXCEPT ![s] = "open"]
    /\ UNCHANGED <<transport, table, recorded, awaited, leaving, holds, todo, at, result, told, streams, process>>

(* recordingMiddleware: the session is attributed to the credential, even when
   that credential has been evicted since.  Kept for stateful HTTP only: stdio
   has no owner to record, and stateless HTTP reads it for notifications alone. *)
Record(r) ==
    /\ Goes(r, "bound", CASE req[r].method = "listen"      -> "recorded"
                          [] req[r].method = "initialize"  -> "done"
                          [] req[r].method = "subscribe"   -> "subscribing"
                          [] req[r].method = "unsubscribe" -> "unwinding")
    /\ recorded' = IF transport = "stateful" THEN recorded \cup {Ses(r)} ELSE recorded
    /\ todo' = [todo EXCEPT ![r] = req[r].uris]
    /\ UNCHANGED <<transport, table, session, awaited, leaving, holds, req, at, result, told, streams, process>>

(* Mutated form of Arm: a late stream is filed like any other. *)
ArmUnsealed(r) ==
    /\ Goes(r, "recorded", "subscribing")
    /\ live' = [live EXCEPT ![r] = IF req[r].lists THEN {} ELSE req[r].uris]
    /\ stage' = [stage EXCEPT ![r] = "filed"]
    /\ UNCHANGED <<transport, table, sessions, req, todo, at, result, told, ctx, why, process>>

(* listenStreams.arm: a stream that also listens to list changes waits on no
   URI; one that comes after closeAll is ended by the request itself.         *)
Arm(r) ==
    /\ Goes(r, "recorded", "subscribing")
    /\ live' = [live EXCEPT ![r] = IF req[r].lists THEN {} ELSE req[r].uris]
    /\ IF sealed
       THEN /\ stage' = [stage EXCEPT ![r] = "ended"]
            /\ why' = [why EXCEPT ![r] = "shutdown"]
            /\ ctx' = [ctx EXCEPT ![r] = IF @ = "live" THEN "ended" ELSE @]
       ELSE stage' = [stage EXCEPT ![r] = "filed"] /\ UNCHANGED <<why, ctx>>
    /\ UNCHANGED <<transport, table, sessions, req, todo, at, result, told, process>>

-----------------------------------------------------------------------------
(* sessionBridge.Subscribe, for each URI of the request *)

(* Mutated form of Joining: only streams are awaited. *)
JoiningListens(r, u) ==
    LET holders == subs[<<Owner(r), u>>] IN
    /\ u \in todo[r]
    /\ at' = [at EXCEPT ![r] = [uri |-> u, how |-> IF holders = {} THEN "began"
                                                   ELSE IF Ses(r) \in holders THEN "already" ELSE "added"]]
    /\ awaited' = IF Listens(r) THEN awaited \cup {Ses(r)} ELSE awaited
    /\ UNCHANGED <<transport, session, recorded, leaving, holds, req, todo, result, told, streams, process>>

Joining(r, u) ==
    LET holders == subs[<<Owner(r), u>>] IN
    /\ u \in todo[r]
    /\ at' = [at EXCEPT ![r] = [uri |-> u, how |-> IF holders = {} THEN "began"
                                                   ELSE IF Ses(r) \in holders THEN "already" ELSE "added"]]
    /\ awaited' = awaited \cup {Ses(r)}
    /\ UNCHANGED <<transport, session, recorded, leaving, holds, req, todo, result, told, streams, process>>

(* Manager.Subscribe joins or begins the watch; the caller waits for ready. *)
Join(r, u) ==
    /\ Goes(r, "subscribing", IF <<Owner(r), u>> \in started THEN "ready" ELSE "joining")
    /\ Joining(r, u)
    /\ \/ Table!Join(Ses(r), u)
       \/ \E v \in URIs \ {u} : Table!JoinDisplacing(Ses(r), u, v)

(* Closed, full, or not a subscribable URI. *)
Refused(r, u) ==
    /\ Goes(r, "subscribing", "failed")
    /\ Joining(r, u)
    /\ UNCHANGED table

(* The caller's context ended first: what this call added is taken back.  The
   caller that began the watch is reading, and its read fails instead.        *)
GiveUp(r) ==
    /\ pc[r] \in {"joining", "ready"} /\ pc' = [pc EXCEPT ![r] = "failed"]
    /\ ctx[r] # "live" /\ at[r].how # "began"
    /\ IF at[r].how = "added" THEN Table!Leave(Ses(r), {at[r].uri}) ELSE UNCHANGED table
    /\ UNCHANGED <<transport, sessions, req, todo, at, result, told, streams, process>>

(* The watch was taken away during its first read: by Close, which fails the
   call, or by its last subscriber leaving, which does not.                  *)
Abandoned(r) ==
    /\ pc[r] = "joining" /\ Ses(r) \notin subs[Watch(r)]
    /\ \E outcome \in IF closed[Owner(r)] = "open" THEN {"ready", "failed"} ELSE {"failed"} :
         pc' = [pc EXCEPT ![r] = outcome]
    /\ UNCHANGED <<transport, table, sessions, req, todo, at, result, told, streams, process>>

(* Manager.Subscribe has returned nil: only now is the hold taken. *)
Hold(r) ==
    /\ Goes(r, "ready", "subscribing")
    /\ holds' = [holds EXCEPT ![<<Ses(r), at[r].uri>>] = @ \cup {Holder(r)}]
    /\ todo' = [todo EXCEPT ![r] = @ \ {at[r].uri}]
    /\ at' = [at EXCEPT ![r] = Nowhere]
    /\ UNCHANGED <<transport, table, session, recorded, awaited, leaving, req, result, told, streams, process>>

(* Every URI is subscribed: a listen is acknowledged and stays open. *)
Acknowledge(r) ==
    /\ Goes(r, "subscribing", IF Listens(r) THEN "open" ELSE "done")
    /\ todo[r] = {}
    /\ result' = [result EXCEPT ![r] = "ok"]
    /\ UNCHANGED <<transport, table, sessions, req, todo, at, told, streams, process>>

(* A listen answers the first error without having been acknowledged, and
   unsubscribes what it had subscribed.                                     *)
Fail(r) ==
    /\ Goes(r, "failed", IF Listens(r) THEN "unwinding" ELSE "done")
    /\ result' = [result EXCEPT ![r] = "error"]
    /\ todo' = [todo EXCEPT ![r] = req[r].uris \ @]
    /\ at' = [at EXCEPT ![r] = Nowhere]
    /\ UNCHANGED <<transport, table, sessions, req, told, streams, process>>

-----------------------------------------------------------------------------
(* A request ends *)

Unwind(r) ==
    /\ Goes(r, "open", "unwinding")
    /\ ctx[r] # "live"
    /\ todo' = [todo EXCEPT ![r] = req[r].uris]
    /\ UNCHANGED <<transport, table, sessions, req, at, result, told, streams, process>>

(* sessionBridge.Unsubscribe: the hold is released, under the bridge's lock,
   and the watch given up after it when nobody else was holding it.           *)
Release(r, u) ==
    LET others == holds[<<Ses(r), u>>] \ {Holder(r)} IN
    /\ Goes(r, "unwinding", IF others = {} THEN "leaving" ELSE "unwinding")
    /\ u \in todo[r]
    /\ todo' = [todo EXCEPT ![r] = @ \ {u}]
    /\ holds' = [holds EXCEPT ![<<Ses(r), u>>] = others]
    /\ at' = [at EXCEPT ![r] = [uri |-> u, how |-> "began"]]
    /\ UNCHANGED <<transport, table, session, recorded, awaited, leaving, req, result, told, streams, process>>

Leave(r) ==
    /\ Goes(r, "leaving", "unwinding")
    /\ Table!Leave(Ses(r), {at[r].uri})
    /\ at' = [at EXCEPT ![r] = Nowhere]
    /\ UNCHANGED <<transport, sessions, req, todo, result, told, streams, process>>

(* Mutated form of Finish: unfiled even while something is ending it. *)
FinishTaken(r) ==
    /\ Goes(r, "unwinding", "done")
    /\ todo[r] = {}
    /\ told' = [told EXCEPT ![r] =
                    IF result[r] = "ok" /\ stage[r] \in {"stored", "ended"} THEN why[r] ELSE "none"]
    /\ stage' = [stage EXCEPT ![r] = IF @ \in {"filed", "taken"} THEN "out" ELSE @]
    /\ live' = [live EXCEPT ![r] = {}]
    /\ session' = IF transport = "stateless" THEN [session EXCEPT ![Ses(r)] = "closing"] ELSE session
    /\ UNCHANGED <<transport, table, recorded, awaited, leaving, holds, req, todo, at, result, ctx, why, process>>

(* The middleware stamps the ending on a result, not on an error, and takes
   the stream off the registry; a stateless session ends with its request.   *)
Finish(r) ==
    /\ Goes(r, "unwinding", "done")
    /\ todo[r] = {}
    /\ told' = [told EXCEPT ![r] =
                    IF result[r] = "ok" /\ stage[r] \in {"stored", "ended"} THEN why[r] ELSE "none"]
    /\ stage' = [stage EXCEPT ![r] = IF @ = "filed" THEN "out" ELSE @]
    /\ live' = [live EXCEPT ![r] = {}]
    /\ session' = IF transport = "stateless" THEN [session EXCEPT ![Ses(r)] = "closing"] ELSE session
    /\ UNCHANGED <<transport, table, recorded, awaited, leaving, holds, req, todo, at, result, ctx, why, process>>

(* The client cancels its request, or drops its connection. *)
Left(R) == ctx' = [r \in Requests |-> IF r \in R /\ ctx[r] = "live" THEN "left" ELSE ctx[r]]

ClientCancels(r) ==
    /\ "cancel" \in Events
    /\ Active(r) /\ ctx[r] = "live"
    /\ Left({r})
    /\ UNCHANGED <<transport, table, sessions, requests, stage, why, live, process>>

Disconnect(s) ==
    /\ "cancel" \in Events
    /\ transport # "stateless" /\ session[s] = "open"
    /\ session' = [session EXCEPT ![s] = "closing"]
    /\ Left({r \in Requests : Active(r) /\ Ses(r) = s})
    /\ UNCHANGED <<transport, table, recorded, awaited, leaving, holds, requests, stage, why, live, process>>

(* awaitEnd: a session that is over loses its holds, then its watches. *)
ReleaseSession(s) ==
    /\ Over(s) /\ s \in awaited
    /\ awaited' = awaited \ {s}
    /\ leaving' = leaving \cup {s}
    /\ holds' = [h \in Sessions \X URIs |-> IF h[1] = s THEN {} ELSE holds[h]]
    /\ UNCHANGED <<transport, table, session, recorded, requests, streams, process>>

LeaveSession(s) ==
    /\ s \in leaving
    /\ leaving' = leaving \ {s}
    /\ Table!Leave(s, URIs)
    /\ UNCHANGED <<transport, session, recorded, awaited, holds, requests, streams, process>>

(* sessionOwners.forget *)
ForgetSession(s) ==
    /\ Over(s) /\ s \in recorded
    /\ recorded' = recorded \ {s}
    /\ UNCHANGED <<transport, table, session, awaited, leaving, holds, requests, streams, process>>

-----------------------------------------------------------------------------
(* Watches begin and end by themselves *)

(* A first read succeeds, and those who wait for it are released. *)
Start(k) ==
    /\ Table!Start(k)
    /\ pc' = [r \in Requests |-> IF pc[r] = "joining" /\ Watch(r) = k /\ Ses(r) \in subs[k]
                                 THEN "ready" ELSE pc[r]]
    /\ UNCHANGED <<transport, sessions, req, todo, at, result, told, streams, process>>

(* A first read fails, or a watch retires. *)
End(k) ==
    /\ Table!End(k)
    /\ pc' = [r \in Requests |-> IF pc[r] = "joining" /\ Watch(r) = k /\ Ses(r) \in subs[k]
                                 THEN "failed" ELSE pc[r]]
    /\ UNCHANGED <<transport, sessions, req, todo, at, result, told, streams, process>>

EndUnheld(k) ==
    /\ Table!EndUnheld(k) \/ Table!EndSilently(k)
    /\ UNCHANGED <<transport, sessions, requests, streams, process>>

(* Mutated form of Announce: only acknowledged streams are looked at. *)
AnnounceToOpen(k) ==
    LET waiting == {r \in Requests : stage[r] = "filed" /\ pc[r] = "open" /\ Owner(r) = k[1] /\ k[2] \in live[r]} IN
    /\ Table!Announce(k)
    /\ live' = [r \in Requests |-> IF r \in waiting THEN live[r] \ {k[2]} ELSE live[r]]
    /\ Take({r \in waiting : live[r] = {k[2]}}, "stopped")
    /\ UNCHANGED <<transport, sessions, requests, ctx, process>>

(* OnStop, listenStreams.stoppedFor: the URI is struck off the streams of that
   credential, and a stream that was waiting on nothing else is ended.         *)
Announce(k) ==
    LET waiting == {r \in Requests : stage[r] = "filed" /\ Owner(r) = k[1] /\ k[2] \in live[r]} IN
    /\ Table!Announce(k)
    /\ live' = [r \in Requests |-> IF r \in waiting THEN live[r] \ {k[2]} ELSE live[r]]
    /\ Take({r \in waiting : live[r] = {k[2]}}, "stopped")
    /\ UNCHANGED <<transport, sessions, requests, ctx, process>>

(* Mutated form of EndWith. *)
EndWithCancelingFirst(r) ==
    /\ stage[r] = "taken"
    /\ \/ ctx[r] = "live" /\ ctx' = [ctx EXCEPT ![r] = "ended"] /\ stage' = stage
       \/ ctx[r] # "live" /\ stage' = [stage EXCEPT ![r] = "ended"] /\ ctx' = ctx

(* listenStream.endWith: the ending is stored, then the context canceled. *)
EndWith(r) ==
    \/ stage[r] = "taken" /\ stage' = [stage EXCEPT ![r] = "stored"] /\ ctx' = ctx
    \/ /\ stage[r] = "stored" /\ stage' = [stage EXCEPT ![r] = "ended"]
       /\ ctx' = [ctx EXCEPT ![r] = IF @ = "live" THEN "ended" ELSE @]

EndStream(r) ==
    /\ EndWith(r)
    /\ UNCHANGED <<transport, table, sessions, requests, why, live, process>>

-----------------------------------------------------------------------------
(* A credential is evicted: the pool drops the entry and forgets its sessions
   under its lock, and the rest happens on a goroutine of its own.            *)

Evict(o) ==
    /\ "evict" \in Events \/ down
    /\ transport # "stdio"
    /\ pool[o] = "live"
    /\ pool' = [pool EXCEPT ![o] = "dropped"]
    /\ orphans' = [orphans EXCEPT ![o] = {s \in recorded : OwnerOf[s] = o}]
    /\ recorded' = {s \in recorded : OwnerOf[s] # o}
    /\ UNCHANGED <<transport, table, session, awaited, leaving, holds, requests, streams, down, sealed>>

CloseManager(o) ==
    /\ pool[o] = "dropped" /\ pool' = [pool EXCEPT ![o] = "stopping"]
    /\ Table!Close(o)
    /\ UNCHANGED <<transport, sessions, requests, streams, orphans, down, sealed>>

ManagerCloses(o) ==
    /\ Table!CloseReturns(o)
    /\ UNCHANGED <<transport, sessions, requests, streams, process>>

CloseOwner(o) ==
    /\ pool[o] = "stopping" /\ pool' = [pool EXCEPT ![o] = "ending"]
    /\ closed[o] = "closed"
    /\ Take({r \in Requests : stage[r] = "filed" /\ Owner(r) = o}, "evicted")
    /\ UNCHANGED <<transport, table, sessions, requests, ctx, live, orphans, down, sealed>>

(* Mutated form of EndSessions: a session in use is spared. *)
EndSessionsIdle(o) ==
    /\ pool[o] = "ending" /\ pool' = [pool EXCEPT ![o] = "gone"]
    /\ \A r \in Requests : why[r] = "evicted" /\ Owner(r) = o => stage[r] = "ended"
    /\ session' = [s \in Sessions |->
            IF transport = "stateful" /\ s \in orphans[o] /\ \A r \in Requests : Active(r) => Ses(r) # s
            THEN "closing" ELSE session[s]]
    /\ UNCHANGED <<transport, table, recorded, awaited, leaving, holds, requests, streams, orphans, down, sealed>>

(* endSessionsWithoutStreams, once closeOwner has ended its streams.  Nothing
   on stateless HTTP, where a session ends with its request; on stateful HTTP
   all of them, since a session that cannot listen is never among those told. *)
EndSessions(o) ==
    /\ pool[o] = "ending" /\ pool' = [pool EXCEPT ![o] = "gone"]
    /\ \A r \in Requests : why[r] = "evicted" /\ Owner(r) = o => stage[r] = "ended"
    /\ session' = [s \in Sessions |-> IF transport = "stateful" /\ s \in orphans[o] THEN "closing" ELSE session[s]]
    /\ UNCHANGED <<transport, table, recorded, awaited, leaving, holds, requests, streams, orphans, down, sealed>>

(* SIGTERM: the registry is emptied and sealed.  The pool closes too, which
   evicts every credential.                                                 *)
Shutdown ==
    /\ "shutdown" \in Events
    /\ ~down /\ down' = TRUE
    /\ UNCHANGED <<transport, table, sessions, requests, streams, pool, orphans, sealed>>

CloseAll ==
    /\ down /\ ~sealed /\ sealed' = TRUE
    /\ Take({r \in Requests : stage[r] = "filed"}, "shutdown")
    /\ UNCHANGED <<transport, table, sessions, requests, ctx, live, pool, orphans, down>>

-----------------------------------------------------------------------------
RequestStep(r) ==
    \/ Record(r) \/ Arm(r)
    \/ \E u \in URIs : Join(r, u) \/ Refused(r, u) \/ Release(r, u)
    \/ GiveUp(r) \/ Abandoned(r) \/ Hold(r) \/ Acknowledge(r) \/ Fail(r)
    \/ Unwind(r) \/ Leave(r) \/ Finish(r)

SessionStep(s) == ReleaseSession(s) \/ LeaveSession(s) \/ ForgetSession(s)

EvictionStep(o) == CloseManager(o) \/ ManagerCloses(o) \/ CloseOwner(o) \/ EndSessions(o)

Next ==
    \/ \E r \in Requests :
         \/ \E s \in Sessions, method \in Methods : Arrive(r, s, method)
         \/ RequestStep(r) \/ ClientCancels(r) \/ EndStream(r)
    \/ \E s \in Sessions : Disconnect(s) \/ SessionStep(s)
    \/ \E k \in Owners \X URIs : Start(k) \/ End(k) \/ EndUnheld(k) \/ Announce(k)
    \/ \E o \in Owners : Evict(o) \/ EvictionStep(o)
    \/ Shutdown \/ CloseAll

Spec == Init /\ [][Next]_vars

-----------------------------------------------------------------------------
(* Safety *)

(* A listen that is open and waits on resources has, for each of them, a watch
   its session is subscribed to, or an ending on its way: it is not left
   acknowledged and silent (Subscribe takes the hold after the manager has
   returned, Unsubscribe gives the watch up after the hold was released).      *)
OpenStreamsAreWatched ==
    \A r \in Requests : pc[r] = "open" /\ ctx[r] = "live" /\ stage[r] = "filed" =>
        \A u \in live[r] :
            LET k == <<Owner(r), u>> IN Ses(r) \in subs[k] \/ k \in due \/ closed[k[1]] # "open"

(* A listen the server ended answers with the reason, whatever the client and
   other endings did at the same time (endWith stores before it cancels).     *)
EndingsAreTold ==
    \A r \in Requests :
        pc[r] = "done" /\ result[r] = "ok" /\ Listens(r) /\ ctx[r] = "ended" => told[r] # "none"

(* A session that is over, and whose awaitEnd has run, is nobody's subscriber
   and holds nothing, whichever of its calls failed or were abandoned.        *)
OverMeansReleased ==
    \A s \in Sessions : Over(s) /\ s \notin awaited \cup leaving =>
        /\ \A k \in Owners \X URIs : s \notin subs[k]
        /\ \A u \in URIs : holds[<<s, u>>] = {}

(* A stateful subscriber whose credential was evicted, and who has no stream
   to be told by, has had its session ended.                                *)
EvictedSubscribersAreEnded ==
    \A s \in Sessions, u \in URIs :
        transport = "stateful" /\ pool[OwnerOf[s]] = "gone" /\ Legacy \in holds[<<s, u>>] => session[s] = "closing"

-----------------------------------------------------------------------------
(* Liveness *)

(* Goroutines run, first reads are answered, and the watch goroutines a Close
   waits for end (SubscriptionManager!CloseFinishes).  Nothing is assumed of
   clients, evictions, shutdowns or of watches that are running.             *)
Fairness ==
    /\ \A r \in Requests : WF_vars(RequestStep(r)) /\ WF_vars(EndStream(r))
    /\ \A s \in Sessions : WF_vars(SessionStep(s))
    /\ \A o \in Owners : WF_vars(EvictionStep(o))
    /\ \A k \in Owners \X URIs :
         /\ WF_vars(k \notin started /\ (Start(k) \/ End(k)))
         /\ WF_vars(Announce(k))
         /\ WF_vars(Table!EndSilently(k) /\ EndUnheld(k))
    /\ WF_vars(CloseAll)

FairSpec == Spec /\ Fairness

(* Every listen ends at shutdown, one armed after closeAll included, and every
   listen on resources once its credential is evicted, those still being
   subscribed included (CloseOwner, CloseAll and Arm).                       *)
ListensEnd ==
    \A r \in Requests :
        Active(r) /\ Listens(r) /\ (down \/ (req[r].uris # {} /\ pool[Owner(r)] # "live")) ~> pc[r] = "done"
==============================================================================
