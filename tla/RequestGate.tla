----------------------------- MODULE RequestGate -----------------------------
(***************************************************************************)
(* A POST to the MCP endpoint of cmd/server, from the gate to its end: past *)
(* the authentication budgets (AuthBudgets) it takes the slots of what it   *)
(* will hold, is handed to the SDK, and the calls the SDK dispatches from   *)
(* it, each in a goroutine of its own, claim those slots or take their own. *)
(*                                                                          *)
(* Two ceilings of the process are counted by compare and swap: the calls   *)
(* it holds open and the stateful sessions it keeps, each of which reserves *)
(* the slot of a call for its stream.  Listen streams are counted by adding *)
(* first, for the entry that serves them and for the process.  What the SDK *)
(* does with a POST is modelled from how the code uses it.                  *)
(***************************************************************************)
EXTENDS AuthBudgets

CONSTANTS
    HeldLimit,        \* heldRequestsFor
    SessionLimit,     \* statefulSessionsFor
    ListenLimit,      \* listenLimits.perCredential
    ProcessListens    \* listenLimits.perProcess

ASSUME GateAssumption ==
    {HeldLimit, SessionLimit, ListenLimit, ProcessListens} \subseteq Nat \ {0}

Messages == Requests \X {1, 2}    \* a POST may carry two calls

VARIABLES
    held,         \* processHeldRequests.open
    sessions,     \* processStatefulSessions.open
    listens,      \* the listenCounter of each entry of the pool
    streams,      \* processListenStreams.open
    post,         \* how far each POST is behind the door
    saw,          \* the count a POST or a call has read and is to swap, or 0
    slot,         \* sessionSlot: whose it is
    claimed,      \* gateHeldSlot.claimed
    session,      \* the stateful session a POST opened
    gone,         \* the clients that abandoned their POST
    call,         \* how far each call of a POST is
    own           \* the calls that took a held slot of their own

counts   == <<held, sessions, listens, streams>>
slotVars == <<counts, post, saw, slot, claimed, session, gone, call, own>>
vars     == <<budgetVars, slotVars>>

Kind(r) == asked[r].kind

Running == {m \in Messages : call[m] = "running"}

-----------------------------------------------------------------------------
(* processSlots.acquire: read and compare, then swap, and again if the count
   has moved.  Each is one atomic operation of its actor.                   *)

Taken(count, limit) == count >= limit

(* A POST reads a count: full, it goes to one stage, and otherwise to another. *)
Reads(r, from, count, limit, full, free) ==
    /\ post[r] = from
    /\ post' = [post EXCEPT ![r] = IF Taken(count, limit) THEN full ELSE free]
    /\ saw' = IF Taken(count, limit) THEN saw ELSE [saw EXCEPT ![<<r, 0>>] = count]

(* It swaps, or reads again. *)
Swaps(r, from, count, again, next) ==
    /\ post[r] = from
    /\ post' = [post EXCEPT ![r] = IF count = saw[<<r, 0>>] THEN next ELSE again]
    /\ saw' = [saw EXCEPT ![<<r, 0>>] = 0]

-----------------------------------------------------------------------------
(* mcpServerGate.middleware, behind the door *)

SlotsInit ==
    /\ held = 0 /\ sessions = 0
    /\ listens = [e \in Requests |-> 0] /\ streams = 0
    /\ post = [r \in Requests |-> "outside"]
    /\ saw = [a \in Requests \X (0..2) |-> 0]
    /\ slot = [r \in Requests |-> "none"]
    /\ claimed = [r \in Requests |-> FALSE]
    /\ session = [r \in Requests |-> "none"]
    /\ gone = {}
    /\ call = [m \in Messages |-> "unsent"]
    /\ own = {}

Goes(r, from, to) == post[r] = from /\ post' = [post EXCEPT ![r] = to]

(* The pool still serves a request by the entry it was resolved to. *)
StillServed(r) == Token(r) \in DOMAIN pooled /\ pooled[Token(r)] = entry[r]

(* What a POST holds is decided by its kind; the SDK creates the session of one
   that opens it as the POST reaches it.  A listen whose entry has gone since is
   bound to no credential, and is answered by refuseUnattributed.            *)
Enter(r) ==
    /\ door[r] = "admitted"
    /\ Goes(r, "outside", CASE Kind(r) = "open" -> "sessions?"
                            [] Kind(r) = "call" -> "held?"
                            [] Kind(r) = "listen" /\ ~StillServed(r) -> "done"
                            [] OTHER -> "serving")
    /\ UNCHANGED <<counts, saw, slot, claimed, session, gone, call, own>>

(* takeSessionSlot, the session first: *)
ReadSessions(r) ==
    /\ Reads(r, "sessions?", sessions, SessionLimit, "busy", "sessions!")
    /\ UNCHANGED <<counts, slot, claimed, session, gone, call, own>>

TakeSession(r) ==
    /\ Swaps(r, "sessions!", sessions, "sessions?", "stream?")
    /\ sessions' = IF sessions = saw[<<r, 0>>] THEN sessions + 1 ELSE sessions
    /\ UNCHANGED <<held, listens, streams, slot, claimed, session, gone, call, own>>

(* then the held slot of its stream, or the session's is given back. *)
ReadStream(r) ==
    /\ Reads(r, "stream?", held, HeldLimit, "busy", "stream!")
    /\ sessions' = IF Taken(held, HeldLimit) THEN sessions - 1 ELSE sessions
    /\ UNCHANGED <<held, listens, streams, slot, claimed, session, gone, call, own>>

TakeStream(r) ==
    /\ Swaps(r, "stream!", held, "stream?", "serving")
    /\ IF held = saw[<<r, 0>>]
       THEN /\ held' = held + 1
            /\ slot' = [slot EXCEPT ![r] = "gate"]
            /\ session' = [session EXCEPT ![r] = "opening"]
       ELSE UNCHANGED <<held, slot, session>>
    /\ UNCHANGED <<sessions, listens, streams, claimed, gone, call, own>>

(* The slot of the one call the headers name. *)
ReadHeld(r) ==
    /\ Reads(r, "held?", held, HeldLimit, "busy", "held!")
    /\ UNCHANGED <<counts, slot, claimed, session, gone, call, own>>

TakeHeld(r) ==
    /\ Swaps(r, "held!", held, "held?", "serving")
    /\ held' = IF held = saw[<<r, 0>>] THEN held + 1 ELSE held
    /\ UNCHANGED <<sessions, listens, streams, slot, claimed, session, gone, call, own>>

(* The client gives up: the context of the POST ends, and its carrier token is
   forgotten soon after.                                                     *)
Abandon(r) ==
    /\ post[r] = "serving" /\ r \notin gone
    /\ gone' = gone \cup {r}
    /\ UNCHANGED <<counts, post, saw, slot, claimed, session, call, own>>

(* The SDK's handler returns: once the calls are answered or, where the client
   is gone, without waiting for them, except on --stateless, where closing the
   session of the POST waits.  A session whose initialize did not complete is
   closed with its POST.                                                     *)
Return(r) ==
    /\ Goes(r, "serving", "returned")
    /\ \/ r \in gone /\ Kind(r) # "call"
       \/ \A i \in {1, 2} : call[<<r, i>>] \in {"unsent", "over"}
    /\ session' = [session EXCEPT ![r] =
                    IF @ = "opening" THEN IF call[<<r, 1>>] = "over" THEN "live" ELSE "ended"
                    ELSE @]
    /\ UNCHANGED <<counts, saw, slot, claimed, gone, call, own>>

(* Mutated form of Leave: the slots are given back whoever has them. *)
LeaveAnyway(r) ==
    /\ Goes(r, "returned", "done")
    /\ IF Kind(r) = "open" /\ slot[r] # "given"
       THEN /\ sessions' = sessions - 1 /\ held' = held - 1
            /\ slot' = [slot EXCEPT ![r] = IF @ = "gate" THEN "given" ELSE @]
       ELSE /\ held' = IF Kind(r) = "call" THEN held - 1 ELSE held
            /\ UNCHANGED <<sessions, slot>>
    /\ UNCHANGED <<listens, streams, saw, claimed, session, gone, call, own>>

(* The gate returns, and gives back what it took: releaseUnkept, unless the
   session has kept it; the slot of the call.                                *)
Leave(r) ==
    /\ Goes(r, "returned", "done")
    /\ IF slot[r] = "gate"
       THEN sessions' = sessions - 1 /\ held' = held - 1 /\ slot' = [slot EXCEPT ![r] = "given"]
       ELSE /\ held' = IF Kind(r) = "call" THEN held - 1 ELSE held
            /\ UNCHANGED <<sessions, slot>>
    /\ UNCHANGED <<listens, streams, saw, claimed, session, gone, call, own>>

(* A session is deleted, evicted or idle for too long. *)
EndSession(r) ==
    /\ session[r] \in {"opening", "live"}
    /\ session' = [session EXCEPT ![r] = "ended"]
    /\ UNCHANGED <<counts, post, saw, slot, claimed, gone, call, own>>

(* session.Wait returns, once no call of the session is in flight, to the
   goroutine that gives back what the session kept.                          *)
GiveBack(r) ==
    /\ session[r] = "ended" /\ slot[r] = "session"
    /\ \A i \in {1, 2} : call[<<r, i>>] \in {"unsent", "over"}
    /\ slot' = [slot EXCEPT ![r] = "given"]
    /\ sessions' = sessions - 1 /\ held' = held - 1
    /\ UNCHANGED <<listens, streams, post, saw, claimed, session, gone, call, own>>

-----------------------------------------------------------------------------
(* What the SDK dispatches *)

CallGoes(m, from, to) == call[m] = from /\ call' = [call EXCEPT ![m] = to]

(* The SDK dispatches a message of a POST it is serving or, where the client is
   gone, of one that has returned, unless its session is over.               *)
Dispatchable(m) ==
    /\ m[2] <= asked[m[1]].calls
    /\ \/ post[m[1]] = "serving"
       \/ m[1] \in gone /\ Kind(m[1]) \in {"open", "batch"} /\ post[m[1]] \in {"returned", "done"}
    /\ ~(session[m[1]] = "ended" /\ slot[m[1]] = "given")

(* mcpCarriers.lookup: a POST whose client is gone is still found for a while. *)
Found(r) == IF r \in gone THEN BOOLEAN ELSE {TRUE}

(* statefulSessionsMiddleware: the first message of a session to come keeps its
   slots, unless the gate has given them back or the POST is not found.      *)
Keep(m) ==
    /\ Kind(m[1]) = "open" /\ Dispatchable(m)
    /\ CallGoes(m, "unsent", "running")
    /\ \E found \in Found(m[1]) :
        slot' = [slot EXCEPT ![m[1]] = IF @ = "gate" /\ found THEN "session" ELSE @]
    /\ UNCHANGED <<counts, post, saw, claimed, session, gone, own>>

(* Mutated form of Claim: every call of the POST is covered by its slot. *)
ClaimAlways(m) ==
    /\ Kind(m[1]) = "call" /\ Dispatchable(m)
    /\ CallGoes(m, "unsent", "running")
    /\ claimed' = [claimed EXCEPT ![m[1]] = TRUE]
    /\ UNCHANGED <<counts, post, saw, slot, session, gone, own>>

(* heldRequestsMiddleware: one call claims the slot the gate took for the POST,
   another counts itself, as does one whose POST is not found.               *)
Claim(m) ==
    /\ Kind(m[1]) = "call" /\ Dispatchable(m)
    /\ \E found \in Found(m[1]) :
        /\ CallGoes(m, "unsent", IF found /\ ~claimed[m[1]] THEN "running" ELSE "counting")
        /\ claimed' = [claimed EXCEPT ![m[1]] = @ \/ found]
    /\ UNCHANGED <<counts, post, saw, slot, session, gone, own>>

Count(m) ==
    /\ Kind(m[1]) = "batch" /\ Dispatchable(m)
    /\ CallGoes(m, "unsent", "counting")
    /\ UNCHANGED <<counts, post, saw, slot, claimed, session, gone, own>>

ReadForCall(m) ==
    /\ CallGoes(m, "counting", IF Taken(held, HeldLimit) THEN "over" ELSE "swapping")
    /\ saw' = IF Taken(held, HeldLimit) THEN saw ELSE [saw EXCEPT ![m] = held]
    /\ UNCHANGED <<counts, post, slot, claimed, session, gone, own>>

TakeForCall(m) ==
    /\ CallGoes(m, "swapping", IF held = saw[m] THEN "running" ELSE "counting")
    /\ IF held = saw[m] THEN held' = held + 1 /\ own' = own \cup {m}
                        ELSE UNCHANGED <<held, own>>
    /\ saw' = [saw EXCEPT ![m] = 0]
    /\ UNCHANGED <<sessions, listens, streams, post, slot, claimed, session, gone>>

(* The handler of a call returns; the slot it took is given back. *)
Finish(m) ==
    /\ Kind(m[1]) # "listen"
    /\ CallGoes(m, "running", "over")
    /\ held' = IF m \in own THEN held - 1 ELSE held
    /\ own' = own \ {m}
    /\ UNCHANGED <<sessions, listens, streams, post, saw, slot, claimed, session, gone>>

-----------------------------------------------------------------------------
(* listenLimits.middleware: the count of the entry, then that of the
   process.  listenCounter.acquire adds, compares, and takes back.           *)

(* A listen whose POST is not found belongs to nobody, and is refused. *)
Unattributed(m) ==
    /\ Kind(m[1]) = "listen" /\ m[2] = 1 /\ Dispatchable(m)
    /\ FALSE \in Found(m[1])
    /\ CallGoes(m, "unsent", "over")
    /\ UNCHANGED <<counts, post, saw, slot, claimed, session, gone, own>>

AddListen(m) ==
    LET e == entry[m[1]] IN
    /\ Kind(m[1]) = "listen" /\ m[2] = 1 /\ Dispatchable(m)
    /\ listens' = [listens EXCEPT ![e] = @ + 1]
    /\ CallGoes(m, "unsent", IF listens'[e] > ListenLimit THEN "retracting" ELSE "added")
    /\ UNCHANGED <<held, sessions, streams, post, saw, slot, claimed, session, gone, own>>

AddStream(m) ==
    /\ streams' = streams + 1
    /\ CallGoes(m, "added", IF streams' > ProcessListens THEN "removing" ELSE "running")
    /\ UNCHANGED <<held, sessions, listens, post, saw, slot, claimed, session, gone, own>>

(* The stream is over, or one more than the process may have. *)
RemoveStream(m) ==
    /\ Kind(m[1]) = "listen"
    /\ call[m] \in {"running", "removing"}
    /\ call' = [call EXCEPT ![m] = "retracting"]
    /\ streams' = streams - 1
    /\ UNCHANGED <<held, sessions, listens, post, saw, slot, claimed, session, gone, own>>

RemoveListen(m) ==
    /\ CallGoes(m, "retracting", "over")
    /\ listens' = [listens EXCEPT ![entry[m[1]]] = @ - 1]
    /\ UNCHANGED <<held, sessions, streams, post, saw, slot, claimed, session, gone, own>>

-----------------------------------------------------------------------------

Init == BudgetsInit /\ SlotsInit

SlotsNext ==
    \/ \E r \in Requests :
        /\ door[r] = "admitted"
        /\ \/ Enter(r) \/ ReadSessions(r) \/ TakeSession(r) \/ ReadStream(r) \/ TakeStream(r)
           \/ ReadHeld(r) \/ TakeHeld(r) \/ Abandon(r) \/ Return(r) \/ Leave(r)
           \/ EndSession(r) \/ GiveBack(r)
    \/ \E m \in Messages :
        /\ door[m[1]] = "admitted"
        /\ \/ Keep(m) \/ Claim(m) \/ Count(m) \/ ReadForCall(m) \/ TakeForCall(m) \/ Finish(m)
           \/ Unattributed(m) \/ AddListen(m) \/ AddStream(m) \/ RemoveStream(m) \/ RemoveListen(m)

Next ==
    \/ BudgetsNext /\ UNCHANGED slotVars
    \/ SlotsNext /\ UNCHANGED budgetVars

Spec == Init /\ [][Next]_vars

-----------------------------------------------------------------------------
(* Properties *)

TypeOK ==
    /\ BudgetsTypeOK
    /\ held \in Nat /\ sessions \in Nat
    /\ listens \in [Requests -> Nat] /\ streams \in Nat
    /\ post \in [Requests -> {"outside", "sessions?", "sessions!", "stream?", "stream!", "held?",
                              "held!", "busy", "serving", "returned", "done"}]
    /\ saw \in [Requests \X (0..2) -> Nat]
    /\ slot \in [Requests -> {"none", "gate", "session", "given"}]
    /\ claimed \in [Requests -> BOOLEAN]
    /\ session \in [Requests -> {"none", "opening", "live", "ended"}]
    /\ call \in [Messages -> {"unsent", "counting", "swapping", "running", "added", "removing",
                              "retracting", "over"}]
    /\ gone \subseteq Requests /\ own \subseteq Messages

(* Who holds what: the sessions and their streams, from the POST that opens one
   to the end of the session; the POST of a call; a call of its own.         *)
Keepers     == {r \in Requests : slot[r] \in {"gate", "session"}}
Opening     == {r \in Requests : post[r] \in {"stream?", "stream!"}}
GateHolders == {r \in Requests : Kind(r) = "call" /\ post[r] \in {"serving", "returned"}}
Live        == {r \in Requests : session[r] = "live"}
Listening(S) == {m \in Messages : Kind(m[1]) = "listen" /\ call[m] \in S}

(* Every slot counted is held by somebody and every holder is counted, whoever
   gives a slot back: the gate, the goroutine that waited for the session or
   the call (sessionSlot, gateHeldSlot, heldRequestsMiddleware, listenLimits).
   No slot is lost, and none is given back twice.                            *)
SlotsAreHeld ==
    /\ sessions = Cardinality(Keepers) + Cardinality(Opening)
    /\ held = Cardinality(Keepers) + Cardinality(GateHolders) + Cardinality(own)
    /\ streams = Cardinality(Listening({"running", "removing"}))
    /\ \A e \in Requests : listens[e] =
        Cardinality({m \in Listening({"added", "running", "removing", "retracting"}) : entry[m[1]] = e})

(* No call runs and no session is kept that the ceilings do not count: the held
   count never falls short of the calls the process holds open, each session's
   stream among them, nor goes over its limit even for a moment, and no more
   streams are open than listenLimits allow (claimGateSlot, claimSessionSlot).
   A session whose client was gone before its first message is the exception:
   its POST is not found, nothing keeps its slots, and the gate gives them back. *)
CallsAreCounted ==
    /\ Cardinality({m \in Running : Kind(m[1]) \in {"call", "batch"}})
         + Cardinality(Live \ gone) <= held
    /\ held <= HeldLimit
    /\ Cardinality(Live \ gone) <= sessions
    /\ sessions <= SessionLimit
    /\ Cardinality(Listening({"running"})) <= ProcessListens
    /\ \A e \in Requests : Cardinality({m \in Listening({"running"}) : entry[m[1]] = e}) <= ListenLimit
==============================================================================
