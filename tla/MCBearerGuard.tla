---------------------------- MODULE MCBearerGuard ----------------------------
(* An instance of BearerGuard, and of the gate behind it, for TLC. *)
EXTENDS BearerGuard

CONSTANTS r1, r2, r3, a1, a2, t1, t2, t3, dying, narrow, foreign

(* escalationLadder, shortened: <<1, 10, 60>> in the code. *)
ShortLadder == <<2, 3>>

(* A token that lives for one tick, and others that live for ever. *)
MCDiesAt == [t \in Tokens |-> IF t = dying THEN 1 ELSE Endless]

Ask(a, t, k, n) == [address |-> a, token |-> t, kind |-> k, calls |-> n]
Get(t) == Ask(a1, t, "get", 1)
Post(a, t) == Ask(a, t, "batch", 1)
Past(t) == Ask(a1, t, "past", 1)

(* The workloads of three asks, each made by one request. *)
Of(asks) ==
    {[r \in Requests |-> asks[f[r]]] : f \in {g \in [Requests -> 1..3] : IsInjective(g)}}

(* To a deployment in oauth mode: a full cache, with one expired before the
   others; an address blocked that is that of a cached token; a token that
   requests bring together; refusals of all kinds; a POST behind the guard.  *)
MCGuarded ==
    Of(<<Get(dying), Get(t1), Past(t3)>>)
      \cup Of(<<Get(dying), Get(dying), Past(t3)>>)
      \cup Of(<<Get(t1), Get(t2), Past(t1)>>)
      \cup Of(<<Get(t1), Get(t1), Get(t1)>>)
      \cup Of(<<Get(foreign), Get(foreign), Get(t2)>>)
      \cup Of(<<Get(narrow), Get(narrow), Get(NoToken)>>)
      \cup Of(<<Ask(a1, t1, "call", 1), Get(t2), Past(t1)>>)

(* To one that is not: of two addresses, whose credential GitLab refuses or not,
   each a notification, which no ceiling counts;                             *)
Asks(w, t) == Cardinality({r \in Requests : w[r].token = t})
Notice(a, t) == Ask(a, t, "batch", 0)
Failing ==
    {w \in [Requests -> {Notice(a1, t2), Notice(a2, t2), Notice(a1, NoToken), Notice(a1, t1)}] :
        Asks(w, t2) >= 1 /\ Asks(w, t1) <= 1}

(* of a credential it accepts, to each kind of server: what contends for a
   ceiling, of two messages each where two requests do.                      *)
Serve(k, n) == Ask(a1, t1, k, n)
Serving ==
    Of(<<Serve("listen", 1), Serve("listen", 1), Serve("listen", 1)>>)
      \cup Of(<<Serve("call", 1), Serve("call", 1), Serve("call", 1)>>)
      \cup Of(<<Serve("call", 2), Serve("batch", 2), Past(t1)>>)
      \cup Of(<<Serve("open", 2), Serve("call", 2), Past(t1)>>)
      \cup Of(<<Serve("open", 2), Serve("open", 1), Past(t1)>>)

MCWorkloads == MCGuarded \cup Failing \cup Serving

Sym == Permutations(Requests)
==============================================================================
