----------------------------- MODULE ChartStoreMC -----------------------------
\* Two server processes, each of a session of its own, with one directory.
EXTENDS ChartStore, TLC

CONSTANTS p1, p2, s1, s2

MCHostOf == (s1 :> p1 @@ s2 :> p2)

\* Bound: an unlink or a stat fails for one file at a time, while one of the
\* processes is down.
FaultsAlone ==
  left \cup missed # {} =>
    /\ Cardinality(left \cup missed) = 1
    /\ \E p \in Server : alive[p] = "down"

\* The two processes are alike, each with its session, and so are the tokens.
Swap == (p1 :> p2 @@ p2 :> p1 @@ s1 :> s2 @@ s2 :> s1)

Symmetry ==
  {f @@ g : f \in Permutations(Token), g \in {Swap, [x \in DOMAIN Swap |-> x]}}
=============================================================================
