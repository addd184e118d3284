--------------------------- MODULE MCSessionBridge ---------------------------
(* Instances of SessionBridge for TLC. *)
EXTENDS SessionBridge, TLC

CONSTANTS o1, s1, s2, u1, u2, r1, r2

OneOwner == [s \in Sessions |-> o1]

(* What clients listen to: one resource; either of two; one resource, list
   changes, or both at once.                                                *)
One == {[uris |-> {u1}, lists |-> FALSE]}
Either == {[uris |-> {u}, lists |-> FALSE] : u \in {u1, u2}}
Mixed == [uris : SUBSET {u1}, lists : BOOLEAN] \ {[uris |-> {}, lists |-> FALSE]}

Sym == Permutations(Requests) \cup Permutations(Sessions)
UriSym == Sym \cup Permutations(URIs)
==============================================================================
