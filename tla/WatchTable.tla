----------------------------- MODULE WatchTable -----------------------------
(***************************************************************************)
(* What internal/subscriptions promises the transport layer: for each      *)
(* manager, who holds which watch, which endings Options.OnStop is still   *)
(* owed, and when Close has returned.  No first reads, poll loops, leases  *)
(* or slots: SubscriptionManager implements this table, and SessionBridge  *)
(* is built on it.                                                         *)
(***************************************************************************)
CONSTANTS
    Managers,    \* one per pooled credential
    Sessions,    \* the subscribers
    ManagerOf,   \* the manager answering for a session's credential
    URIs

VARIABLES
    closed,      \* of each manager: "open", "closing" (Close waits), "closed"
    subs,        \* who holds the watch of each URI; nobody: there is none
    started,     \* the watches whose first read succeeded
    due,         \* watches that ended under their subscribers, not yet announced
    unwinding    \* watches given up by their subscribers or closed, whose
                 \* goroutine has not ended

vars == <<closed, subs, started, due, unwinding>>

Watches == Managers \X URIs

Init ==
    /\ closed = [m \in Managers |-> "open"]
    /\ subs = [k \in Watches |-> {}]
    /\ started = {}
    /\ due = {}
    /\ unwinding = {}

(* Successive watches of one URI may unwind at once: what one of them does
   leaves the key in the set while another is there.                        *)
Less(K, k) == {K, K \ {k}}

(* A session joins a watch, or begins one. *)
Join(s, u) ==
    /\ closed[ManagerOf[s]] = "open"
    /\ subs' = [subs EXCEPT ![<<ManagerOf[s], u>>] = @ \cup {s}]
    /\ UNCHANGED <<closed, started, due, unwinding>>

(* The credential is at its ceiling: the new watch takes the place of one
   that has been running, in one step.                                     *)
JoinDisplacing(s, u, v) ==
    LET k == <<ManagerOf[s], u>>
        d == <<ManagerOf[s], v>>
    IN  /\ closed[ManagerOf[s]] = "open"
        /\ subs[k] = {} /\ d \in started
        /\ subs' = [subs EXCEPT ![k] = {s}, ![d] = {}]
        /\ started' = started \ {d}
        /\ due' = due \cup {d}
        /\ UNCHANGED <<closed, unwinding>>

Start(k) ==
    /\ subs[k] # {} /\ k \notin started
    /\ started' = started \cup {k}
    /\ UNCHANGED <<closed, subs, due, unwinding>>

(* The watch ends on its own, and for all its subscribers at once: its first
   read failed, which they are answered, or its loop retired, which they are
   owed an announcement of.                                                 *)
End(k) ==
    /\ subs[k] # {}
    /\ subs' = [subs EXCEPT ![k] = {}]
    /\ started' = started \ {k}
    /\ due' = due \cup (started \cap {k})
    /\ UNCHANGED <<closed, unwinding>>

(* A session gives up the watches of U; those it was the last to hold end. *)
Leave(s, U) ==
    LET K == {k \in {ManagerOf[s]} \X U : s \in subs[k]}
        ended == {k \in K : subs[k] = {s}}
    IN  /\ subs' = [k \in Watches |-> IF k \in K THEN subs[k] \ {s} ELSE subs[k]]
        /\ started' = started \ ended
        /\ unwinding' = unwinding \cup (started \cap ended)
        /\ UNCHANGED <<closed, due>>

(* A watch nobody holds any more had a read in flight that tells of an ending
   all the same, its resource gone or its lifetime over.                     *)
EndUnheld(k) ==
    /\ k \in unwinding
    /\ due' = due \cup {k}
    /\ unwinding' \in Less(unwinding, k)
    /\ UNCHANGED <<closed, subs, started>>

EndSilently(k) ==
    /\ k \in unwinding
    /\ unwinding' = unwinding \ {k}
    /\ UNCHANGED <<closed, subs, started, due>>

Announce(k) ==
    /\ k \in due
    /\ due' \in Less(due, k)
    /\ UNCHANGED <<closed, subs, started, unwinding>>

Close(m) ==
    LET K == {m} \X URIs IN
    /\ closed[m] = "open"
    /\ closed' = [closed EXCEPT ![m] = "closing"]
    /\ subs' = [k \in Watches |-> IF k \in K THEN {} ELSE subs[k]]
    /\ started' = started \ K
    /\ unwinding' = unwinding \cup (started \cap K)
    /\ UNCHANGED due

(* Close comes back once every watch it stopped has unwound: nothing is
   announced for this manager after that, and nothing begins.              *)
CloseReturns(m) ==
    /\ closed[m] = "closing"
    /\ (due \cup unwinding) \cap ({m} \X URIs) = {}
    /\ closed' = [closed EXCEPT ![m] = "closed"]
    /\ UNCHANGED <<subs, started, due, unwinding>>

Next ==
    \/ \E s \in Sessions :
         \/ \E u \in URIs : Join(s, u) \/ \E v \in URIs : JoinDisplacing(s, u, v)
         \/ \E U \in SUBSET URIs : Leave(s, U)
    \/ \E k \in Watches : Start(k) \/ End(k) \/ EndUnheld(k) \/ EndSilently(k) \/ Announce(k)
    \/ \E m \in Managers : Close(m) \/ CloseReturns(m)

Spec == Init /\ [][Next]_vars
==============================================================================
