------------------------ MODULE MCSubscriptionManager ------------------------
(* Instances of SubscriptionManager for TLC. *)
EXTENDS SubscriptionManager, TLC

CONSTANTS m1, m2, s1, s2, u1, u2, u3, c1, c2, c3

OneManager  == (s1 :> m1 @@ s2 :> m1)
OneManagerOneSession == (s1 :> m1)
TwoManagers == (s1 :> m1 @@ s2 :> m2)
Sym == Permutations(Calls)
==============================================================================
