---------------------------- MODULE MCServerPool -----------------------------
(* Instances of ServerPool for TLC. *)
EXTENDS ServerPool, TLC

CONSTANTS k1, k2, k3, sh1, r1, r2, r3

OneShape == [k \in Keys |-> sh1]
Sym == Permutations(Requests)
KeySym == Permutations(Requests) \cup Permutations(Keys)
==============================================================================
