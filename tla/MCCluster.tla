----------------------------- MODULE MCCluster -----------------------------
(* Cluster on two and three nodes: who is configured with whom, and how     *)
(* much happens to them in one behaviour.                                  *)
EXTENDS Cluster

\* Everybody with everybody, and nobody with anybody (discovery only).
Everybody == [n \in Nodes |-> Nodes \ {n}]
NobodyYet == [n \in Nodes |-> {}]

\* A fault and a save meet, but not around every claim the bound allows.
OneByOne == faults = 0 \/ saves = 0 \/ claimed < MaxClaims

MCSpec == Init /\ [][Next /\ OneByOne']_vars /\ Fairness
=============================================================================
