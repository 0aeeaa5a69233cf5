---------------------------- MODULE ClusterProofs ----------------------------
(***************************************************************************)
(* TLAPS proofs about what an engine keeps up with others, composed as in  *)
(* MCClusterPeers: the election for any nodes, configurations, links and   *)
(* bounds, the pairing records and the hub.                                *)
(***************************************************************************)
EXTENDS MCClusterPeers, FiniteSetTheorems, TLAPS

-----------------------------------------------------------------------------
(* Types.                                                                  *)

\* A round only polls peers that are still listed: Save empties it.
TodoInv == \A n \in Nodes : todo[n] \subseteq peers[n]
TypeInv == TypeOK /\ TodoInv

LEMMA TypeInit == Init => TypeInv
BY ClusterAssumption DEF Init, Configured, TypeInv, TypeOK, TodoInv, Nobody, Pairs

LEMMA RoundTypes ==
    ASSUME TypeInv, NEW n \in Nodes, Round(n)
    PROVE  TypeInv'
<1> USE ClusterAssumption DEF TypeInv, TypeOK, TodoInv, network, member, term, round, Set, Nobody
<1>1. CASE Beat(n)
  BY <1>1 DEF Beat
<1>2. ASSUME NEW p \in Nodes, Poll(n, p)  PROVE TypeInv'
  <2>1. found' \in [Nodes -> [node : Nodes \union {None}, epoch : 0 .. MaxEpoch]]
    <3>1. [node |-> p, epoch |-> epoch[p]] \in [node : Nodes \union {None}, epoch : 0 .. MaxEpoch]
      OBVIOUS
    <3>2. \/ found' = found
          \/ found' = [found EXCEPT ![n] = [node |-> p, epoch |-> epoch[p]]]
      BY <1>2 DEF Poll
    <3>3. QED
      BY <3>1, <3>2
  <2>2. /\ online' \in [Nodes -> SUBSET Nodes]
        /\ \A m \in Nodes : online'[m] \subseteq peers[m]
    <3>1. p \in peers[n]
      BY <1>2 DEF Poll
    <3>2. \E seen \in SUBSET peers[n] : online' = [online EXCEPT ![n] = seen]
      <4>1. online[n] \union {p} \subseteq peers[n] /\ online[n] \ {p} \subseteq peers[n]
        BY <3>1
      <4>2. \/ online' = [online EXCEPT ![n] = online[n] \union {p}]
            \/ online' = [online EXCEPT ![n] = online[n] \ {p}]
        BY <1>2 DEF Poll
      <4>3. QED
        BY <4>1, <4>2
    <3>3. QED
      BY <3>2
  <2>3. todo' \in [Nodes -> SUBSET Nodes] /\ \A m \in Nodes : todo'[m] \subseteq peers[m]
    BY <1>2 DEF Poll
  <2>4. UNCHANGED <<network, mode, peers, term, beat, pc, claims, claimed, saves>>
    BY <1>2 DEF Poll
  <2>5. QED
    BY <2>1, <2>2, <2>3, <2>4
<1>3. CASE Settle(n)
  <2>1. found[n].node \in Nodes \union {None} /\ found[n].epoch \in 0 .. MaxEpoch
    OBVIOUS
  <2>2. Newer(n) \in 0 .. MaxEpoch
    BY <2>1 DEF Newer
  <2>3. found' \in [Nodes -> [node : Nodes \union {None}, epoch : 0 .. MaxEpoch]]
    BY <1>3 DEF Settle
  <2>4. /\ master' \in [Nodes -> Nodes \union {None, Me}] /\ stale' \in [Nodes -> BOOLEAN]
        /\ epoch' \in [Nodes -> 0 .. MaxEpoch]
    <3>1. CASE found[n] # Nobody
      <4>1. /\ master' = [master EXCEPT ![n] = found[n].node]
            /\ stale' = [stale EXCEPT ![n] = FALSE]
            /\ epoch' = [epoch EXCEPT ![n] = Newer(n)]
        BY <1>3, <3>1 DEF Settle, Follow
      <4>2. QED
        BY <2>1, <2>2, <4>1
    <3>2. CASE found[n] = Nobody
      BY <1>3, <3>2 DEF Settle, Follow
    <3>3. QED
      BY <3>1, <3>2
  <2>5. pc' \in [Nodes -> {"wait", "poll", "health", "promote"}]
    BY <1>3 DEF Settle
  <2>6. QED
    BY <1>3, <2>3, <2>4, <2>5 DEF Settle
<1>4. CASE CheckHealth(n)
  BY <1>4 DEF CheckHealth
<1>5. CASE Promote(n)
  <2>1. epoch[n] + 1 \in 1 .. MaxEpoch
    BY <1>5 DEF Promote
  <2>2. claims' \subseteq Claim
    BY <1>5, <2>1 DEF Promote, Claim
  <2>3. QED
    BY <1>5, <2>1, <2>2 DEF Promote
<1>6. CASE Refuse(n)
  BY <1>6 DEF Refuse
<1>7. QED
  BY <1>1, <1>2, <1>3, <1>4, <1>5, <1>6 DEF Round

LEMMA AcceptTypes ==
    ASSUME TypeInv, NEW n \in Nodes, NEW e \in 0 .. MaxEpoch, Accept(n, e),
           UNCHANGED <<network, member, beat, round, saves>>,
           claims' \subseteq Claim, claimed' \in 0 .. MaxClaims
    PROVE  TypeInv'
<1> USE DEF TypeInv, TypeOK, TodoInv, network, member, term, round, Set
<1>1. CASE e <= epoch[n]
  BY <1>1 DEF Accept
<1>2. CASE ~(e <= epoch[n])
  <2>1. /\ epoch' \in [Nodes -> 0 .. MaxEpoch] /\ role' \in [Nodes -> {"standalone", "slave", "master"}]
        /\ master' \in [Nodes -> Nodes \union {None, Me}] /\ stale' \in [Nodes -> BOOLEAN]
    <3>1. /\ epoch' = [epoch EXCEPT ![n] = e] /\ role' = [role EXCEPT ![n] = "slave"]
          /\ master' = [master EXCEPT ![n] = Me] /\ stale' = [stale EXCEPT ![n] = FALSE]
      BY <1>2 DEF Accept
    <3>2. QED
      BY <3>1
  <2>2. QED
    BY <2>1
<1>3. QED
  BY <1>1, <1>2

\* A set with an element put in or taken out.
LEMMA OneMoreOrLess ==
    ASSUME NEW Old, NEW All, NEW x \in All, NEW New, Old \subseteq All,
           New = Old \ {x} \/ New = Old \union {x}
    PROVE  New \subseteq All
OBVIOUS

LEMMA EnvironmentTypes ==
    ASSUME TypeInv, NEW n \in Nodes, Environment(n)
    PROVE  TypeInv'
<1> USE ClusterAssumption
<1>1. CASE Post(n)
  <2>1. epoch[n] + 1 \in 0 .. MaxEpoch
    BY <1>1 DEF Post, TypeInv, TypeOK
  <2>2. QED
    BY <1>1, <2>1, AcceptTypes DEF Post, TypeInv, TypeOK
<1> USE DEF TypeInv, TypeOK, TodoInv, network, member, term, round, Set, Nobody
<1>2. CASE Age(n)
  BY <1>2 DEF Age
<1>3. ASSUME NEW m \in Modes, Save(n, m)  PROVE TypeInv'
  <2>1. /\ m \in {"off", "manual", "auto"} /\ saves' \in 0 .. MaxSaves
    BY <1>3 DEF Save
  <2>2. /\ mode' \in [Nodes -> {"off", "manual", "auto"}]
        /\ role' \in [Nodes -> {"standalone", "slave", "master"}]
    BY <1>3, <2>1 DEF Save, Enters
  <2>3. /\ master' \in [Nodes -> Nodes \union {None, Me}]
        /\ beat' \in [Nodes -> {"run", "request", "dead"}]
        /\ peers' \in [Nodes -> SUBSET Nodes] /\ online' \in [Nodes -> SUBSET Nodes]
        /\ todo' \in [Nodes -> SUBSET Nodes]
    BY <1>3 DEF Save
  <2>4. \A k \in Nodes : k \notin peers'[k] /\ online'[k] \subseteq peers'[k]
                          /\ todo'[k] \subseteq peers'[k]
    BY <1>3 DEF Save
  <2>5. UNCHANGED <<network, epoch, stale, pc, found, claims, claimed>>
    BY <1>3 DEF Save
  <2>6. QED
    BY <2>1, <2>2, <2>3, <2>4, <2>5
<1>4. CASE RequestEnds(n)
  BY <1>4 DEF RequestEnds
<1>5. CASE Crash(n)
  BY <1>5 DEF Crash
<1>6. CASE Restart(n)
  BY <1>6 DEF Restart, Configured
<1>7. ASSUME NEW p \in Nodes, Discover(n, p)  PROVE TypeInv'
  BY <1>7 DEF Discover
<1>8. ASSUME NEW p \in Nodes, LinkChanges(n, p)  PROVE TypeInv'
  <2> DEFINE link == {n, p}
  <2>1. cut \subseteq Pairs /\ link \in Pairs
    BY DEF Pairs
  <2>2. cut' = cut \ {link} \/ cut' = cut \union {link}
    BY <1>8 DEF LinkChanges
  <2>3. cut' \subseteq Pairs
    <3> HIDE DEF link
    <3>1. QED
      BY <2>1, <2>2, OneMoreOrLess
  <2>4. faults' \in 0 .. MaxFaults
    <3>1. faults < MaxFaults /\ faults' = faults + 1 /\ faults \in 0 .. MaxFaults
      BY <1>8 DEF LinkChanges
    <3>2. QED
      BY <3>1
  <2>5. UNCHANGED <<up, member, term, beat, round, claims, claimed, saves>>
    BY <1>8 DEF LinkChanges
  <2>6. QED
    BY <2>3, <2>4, <2>5
<1>9. QED
  BY <1>1, <1>2, <1>3, <1>4, <1>5, <1>6, <1>7, <1>8 DEF Environment

LEMMA ClaimTypes ==
    ASSUME TypeInv, NEW c \in claims, Deliver(c) \/ Lose(c)
    PROVE  TypeInv'
<1>1. c.to \in Nodes /\ c.epoch \in 0 .. MaxEpoch /\ claims \ {c} \subseteq Claim
  BY ClusterAssumption DEF TypeInv, TypeOK, Claim
<1>2. CASE Deliver(c)
  BY <1>1, <1>2, AcceptTypes DEF Deliver, TypeInv, TypeOK
<1>3. CASE Lose(c)
  BY <1>1, <1>3 DEF Lose, TypeInv, TypeOK, TodoInv, network, member, term, round
<1>4. QED
  BY <1>2, <1>3

LEMMA TypeStep == TypeInv /\ [Next]_vars => TypeInv'
<1> SUFFICES ASSUME TypeInv, [Next]_vars  PROVE TypeInv'
  OBVIOUS
<1>1. CASE Next
  BY <1>1, RoundTypes, EnvironmentTypes, ClaimTypes DEF Next
<1>2. CASE UNCHANGED vars
  BY <1>2 DEF vars, network, member, term, round, TypeInv, TypeOK, TodoInv
<1>3. QED
  BY <1>1, <1>2

LEMMA TypeInvariant == Spec => []TypeInv
BY TypeInit, TypeStep, PTL DEF Spec

\* Every variable of the cluster manager keeps its type, for any nodes,
\* configurations and bounds.
THEOREM ClusterTypes == Spec => []TypeOK
<1>1. TypeInv => TypeOK
  BY DEF TypeInv
<1>2. QED
  BY <1>1, TypeInvariant, PTL

-----------------------------------------------------------------------------
(* Epochs.                                                                 *)

LEMMA RoundFences ==
    ASSUME TypeInv, NEW n \in Nodes, Round(n), NEW m \in Nodes
    PROVE  epoch'[m] >= epoch[m] /\ (role[m] = "master" => role'[m] = "master")
<1> USE DEF TypeInv, TypeOK, term, Set
<1>1. epoch[m] \in Nat /\ epoch[n] \in Nat /\ found[n].epoch \in Nat
  BY ClusterAssumption
<1>2. CASE Beat(n)
  BY <1>1, <1>2 DEF Beat
<1>3. ASSUME NEW p \in Nodes, Poll(n, p)
      PROVE  epoch'[m] >= epoch[m] /\ (role[m] = "master" => role'[m] = "master")
  BY <1>1, <1>3 DEF Poll
<1>4. CASE Settle(n)
  <2>1. Newer(n) \in Nat /\ Newer(n) >= epoch[n]
    BY <1>1 DEF Newer
  <2>2. role' = role /\ (epoch' = epoch \/ epoch' = [epoch EXCEPT ![n] = Newer(n)])
    BY <1>4 DEF Settle, Follow
  <2>3. DOMAIN epoch = Nodes
    OBVIOUS
  <2>4. epoch'[m] = epoch[m] \/ (m = n /\ epoch'[m] = Newer(n))
    BY <2>2, <2>3
  <2>5. QED
    BY <1>1, <2>1, <2>2, <2>4
<1>5. CASE CheckHealth(n)
  BY <1>1, <1>5 DEF CheckHealth
<1>6. CASE Promote(n)
  BY <1>1, <1>6 DEF Promote
<1>7. CASE Refuse(n)
  BY <1>1, <1>7 DEF Refuse
<1>8. QED
  BY <1>2, <1>3, <1>4, <1>5, <1>6, <1>7 DEF Round

LEMMA AcceptFences ==
    ASSUME TypeInv, NEW n \in Nodes, NEW e \in Nat, Accept(n, e), NEW m \in Nodes
    PROVE  /\ epoch'[m] >= epoch[m]
           /\ role[m] = "master" /\ role'[m] = "slave" => epoch'[m] > epoch[m]
<1>1. epoch[m] \in Nat /\ epoch[n] \in Nat
  BY ClusterAssumption DEF TypeInv, TypeOK
<1>2. CASE e <= epoch[n]
  BY <1>1, <1>2 DEF Accept, term
<1>3. CASE ~(e <= epoch[n])
  <2>1. epoch' = [epoch EXCEPT ![n] = e] /\ role' = [role EXCEPT ![n] = "slave"]
    BY <1>3 DEF Accept, Set
  <2>2. QED
    BY <1>1, <1>3, <2>1 DEF TypeInv, TypeOK
<1>4. QED
  BY <1>2, <1>3

LEMMA EnvironmentFences ==
    ASSUME TypeInv, NEW n \in Nodes, Environment(n), NEW m \in Nodes, m \in up, m \in up'
    PROVE  /\ epoch'[m] >= epoch[m]
           /\ role[m] = "master" /\ role'[m] = "slave" => epoch'[m] > epoch[m]
<1>1. epoch[m] \in Nat /\ epoch[n] \in Nat
  BY ClusterAssumption DEF TypeInv, TypeOK
<1>2. CASE Post(n)
  BY <1>1, <1>2, AcceptFences DEF Post
<1>3. CASE Restart(n)
  <2>1. n # m
    BY <1>3 DEF Restart
  <2>2. /\ epoch' = [epoch EXCEPT ![n] = 0]
        /\ \E r \in {"standalone", "slave"} : role' = [role EXCEPT ![n] = r]
    BY <1>3 DEF Restart, Set
  <2>3. QED
    BY <1>1, <2>1, <2>2 DEF TypeInv, TypeOK
<1>4. CASE UNCHANGED <<role, epoch>>
  BY <1>1, <1>4
<1>5. ASSUME NEW w0 \in Modes, Save(n, w0)
      PROVE  epoch'[m] >= epoch[m] /\ (role[m] = "master" => role'[m] # "slave")
  <2>1. /\ epoch' = epoch
        /\ \/ role' = [role EXCEPT ![n] = "standalone"] \/ role' = [role EXCEPT ![n] = role[n]]
           \/ role[n] = "standalone" /\ role' = [role EXCEPT ![n] = "slave"]
    BY <1>5 DEF Save, Enters, Set
  <2>2. QED
    BY <1>1, <2>1 DEF TypeInv, TypeOK
<1>6. QED
  BY <1>2, <1>3, <1>4, <1>5 DEF Environment, Age, RequestEnds, Crash, Discover, LinkChanges, term

\* Whatever order claims, pings, restarts and settings come in, a running
\* node's epoch never falls and only a newer epoch demotes a master
\* (cluster.go:144), for any nodes and links.
THEOREM EpochsFence == Spec => StaleClaimsAreFenced
<1>1. ASSUME TypeInv, [Next]_vars, NEW m \in Nodes, m \in up, m \in up'
      PROVE  /\ epoch'[m] >= epoch[m]
             /\ role[m] = "master" /\ role'[m] = "slave" => epoch'[m] > epoch[m]
  <2>1. epoch[m] \in Nat
    BY <1>1, ClusterAssumption DEF TypeInv, TypeOK
  <2>2. ASSUME NEW n \in Nodes, Round(n)
        PROVE  epoch'[m] >= epoch[m] /\ (role[m] = "master" => role'[m] # "slave")
    BY <1>1, <2>2, RoundFences
  <2>3. ASSUME NEW c \in claims, Deliver(c)
        PROVE  /\ epoch'[m] >= epoch[m]
               /\ role[m] = "master" /\ role'[m] = "slave" => epoch'[m] > epoch[m]
    <3>1. c.to \in Nodes /\ c.epoch \in Nat /\ Accept(c.to, c.epoch)
      BY <1>1, <2>3, ClusterAssumption DEF TypeInv, TypeOK, Claim, Deliver
    <3>2. QED
      BY <1>1, <3>1, AcceptFences
  <2>4. ASSUME NEW c \in claims, Lose(c)
        PROVE  epoch' = epoch /\ role' = role
    BY <2>4 DEF Lose, term
  <2>5. CASE UNCHANGED vars
    BY <2>1, <2>5 DEF vars, term
  <2>6. ASSUME NEW n \in Nodes, Environment(n)
        PROVE  /\ epoch'[m] >= epoch[m]
               /\ role[m] = "master" /\ role'[m] = "slave" => epoch'[m] > epoch[m]
    BY <1>1, <2>6, EnvironmentFences
  <2>7. QED
    BY <1>1, <2>1, <2>2, <2>3, <2>4, <2>5, <2>6 DEF Next
<1>2. TypeInv /\ [Next]_vars =>
        [\A n \in Nodes : n \in up /\ n \in up' =>
           /\ epoch'[n] >= epoch[n]
           /\ role[n] = "master" /\ role'[n] = "slave" => epoch'[n] > epoch[n]]_vars
  BY <1>1
<1>3. QED
  BY <1>2, TypeInvariant, PTL DEF Spec, StaleClaimsAreFenced

-----------------------------------------------------------------------------
(* The election.                                                           *)

\* Everybody lists everybody, and has seen nobody behind a cut link.
FullInv == \A n \in Nodes : peers[n] = Nodes \ {n}
SeenInv == \A n \in Nodes : \A p \in online[n] : {n, p} \notin cut
Reachable(n) == {n} \union {p \in Nodes : {n, p} \notin cut}
ElectionInv == TypeInv /\ FullInv /\ SeenInv /\ MajorityElects

\* A node that has its quorum reaches a majority.
LEMMA QuorumIsMajority ==
    ASSUME ElectionInv, NEW n \in Nodes, HasQuorum(n), ~(Cardinality(Nodes) < 3)
    PROVE  2 * Cardinality(Reachable(n)) > Cardinality(Nodes)
<1>1. /\ peers[n] = Nodes \ {n} /\ online[n] \subseteq peers[n]
      /\ \A p \in online[n] : {n, p} \notin cut
  BY DEF ElectionInv, TypeInv, TypeOK, FullInv, SeenInv
<1>2. /\ IsFiniteSet(Nodes) /\ Cardinality(Nodes) \in Nat
      /\ Cardinality(peers[n]) = Cardinality(Nodes) - 1
  BY <1>1, ClusterAssumption, FS_RemoveElement, FS_CardinalityType
<1>3. online[n] \union {n} \subseteq Reachable(n) /\ Reachable(n) \subseteq Nodes /\ n \notin online[n]
  BY <1>1 DEF Reachable
<1>4. IsFiniteSet(online[n]) /\ IsFiniteSet(Reachable(n))
  BY <1>1, <1>2, <1>3, FS_Subset
<1>5. /\ Cardinality(online[n] \union {n}) = Cardinality(online[n]) + 1
      /\ Cardinality(online[n]) \in Nat
  BY <1>3, <1>4, FS_AddElement, FS_CardinalityType
<1>6. 2 * (1 + Cardinality(online[n])) > Cardinality(Nodes)
  BY <1>2, <1>5 DEF HasQuorum
<1>7. /\ Cardinality(online[n] \union {n}) <= Cardinality(Reachable(n))
      /\ Cardinality(Reachable(n)) \in Nat
  BY <1>3, <1>4, FS_Subset, FS_CardinalityType
<1>8. QED
  BY <1>2, <1>5, <1>6, <1>7

LEMMA ElectionInit ==
    ASSUME \A n \in Nodes : Known[n] = Nodes \ {n}
    PROVE  Init => ElectionInv
BY TypeInit DEF Init, ElectionInv, FullInv, SeenInv, MajorityElects

\* While the links stay, only a promotion makes a master, and only a peer that
\* answers is marked.
LEMMA ElectionStep ==
    ASSUME \A n \in Nodes : Known[n] = Nodes \ {n}, ElectionInv, [Next]_vars, cut' = cut
    PROVE  ElectionInv'
<1>1. TypeInv /\ TypeInv' /\ FullInv /\ SeenInv /\ MajorityElects
  BY TypeStep DEF ElectionInv
<1>2. ASSUME NEW n \in Nodes, Round(n) \/ Environment(n)
      PROVE  FullInv'
  <2>1. CASE peers' = peers
    BY <1>1, <2>1 DEF FullInv
  <2>2. CASE peers' = [peers EXCEPT ![n] = Known[n]]
    BY <1>1, <2>2 DEF FullInv, TypeInv, TypeOK
  <2>3. ASSUME NEW p \in Nodes, Discover(n, p)  PROVE FALSE
    BY <1>1, <2>3 DEF Discover, FullInv
  <2>4. QED
    BY <1>2, <2>1, <2>2, <2>3 DEF Round, Environment, Beat, Poll, Settle, CheckHealth, Promote,
        Refuse, Post, Age, Save, RequestEnds, Crash, Restart, LinkChanges, member, Set
<1>3. ASSUME NEW n \in Nodes, Round(n) \/ Environment(n)
      PROVE  SeenInv'
  <2>1. CASE online' = online
    BY <1>1, <2>1 DEF SeenInv
  <2>2. ASSUME NEW p \in Nodes, Poll(n, p)  PROVE SeenInv'
    <3>1. \/ online' = [online EXCEPT ![n] = online[n] \union {p}] /\ {n, p} \notin cut
          \/ online' = [online EXCEPT ![n] = online[n] \ {p}]
      BY <2>2 DEF Poll, Reaches, Set
    <3>2. online \in [Nodes -> SUBSET Nodes]
      BY <1>1 DEF TypeInv, TypeOK
    <3>3. ASSUME NEW m \in Nodes, NEW q \in online'[m]  PROVE {m, q} \notin cut
      <4>1. CASE q \in online[m]
        BY <1>1, <4>1 DEF SeenInv
      <4>2. CASE q \notin online[m]
        <5>1. m = n /\ q = p /\ {n, p} \notin cut
          BY <3>1, <3>2, <3>3, <4>2
        <5>2. QED
          BY <5>1
      <4>3. QED
        BY <4>1, <4>2
    <3>4. QED
      BY <3>3 DEF SeenInv
  <2>3. CASE online' = [online EXCEPT ![n] = {}]
    BY <1>1, <2>3 DEF SeenInv, TypeInv, TypeOK
  <2>4. QED
    BY <1>3, <2>1, <2>2, <2>3 DEF Round, Environment, Beat, Settle, CheckHealth, Promote,
        Refuse, Post, Age, Save, RequestEnds, Crash, Restart, Discover, LinkChanges, member, Set
<1>4. ASSUME NEW n \in Nodes, Promote(n)
      PROVE  MajorityElects'
  <2>1. role' = [role EXCEPT ![n] = "master"] /\ HasQuorum(n)
    BY <1>4 DEF Promote, Set
  <2>2. Cardinality(Nodes) < 3 \/ 2 * Cardinality(Reachable(n)) > Cardinality(Nodes)
    BY <2>1, QuorumIsMajority
  <2>3. role \in [Nodes -> {"standalone", "slave", "master"}]
    BY <1>1 DEF TypeInv, TypeOK
  <2>4. ASSUME NEW m \in Nodes, role'[m] = "master"
        PROVE  Cardinality(Nodes) < 3 \/ 2 * Cardinality(Reachable(m)) > Cardinality(Nodes)
    <3>1. CASE m = n
      BY <2>2, <3>1
    <3>2. CASE m # n
      <4>1. role[m] = "master"
        BY <2>1, <2>3, <2>4, <3>2
      <4>2. QED
        BY <1>1, <4>1 DEF MajorityElects, Reachable
    <3>3. QED
      BY <3>1, <3>2
  <2>5. QED
    BY <2>4 DEF MajorityElects, Reachable
<1>5. ASSUME \A m \in Nodes : role'[m] = "master" => role[m] = "master"
      PROVE  MajorityElects'
  BY <1>1, <1>5 DEF MajorityElects
<1>6. ASSUME NEW n \in Nodes, NEW e, Accept(n, e)
      PROVE  MajorityElects'
  <2>1. role' = role \/ role' = [role EXCEPT ![n] = "slave"]
    BY <1>6 DEF Accept, term, Set
  <2>2. QED
    BY <1>1, <1>5, <2>1 DEF TypeInv, TypeOK
<1>7. ASSUME NEW n \in Nodes, Restart(n) \/ \E m \in Modes : Save(n, m)
      PROVE  MajorityElects'
  <2>1. \E r \in {"standalone", "slave", role[n]} : role' = [role EXCEPT ![n] = r]
    BY <1>7 DEF Restart, Save, Enters, Set
  <2>2. QED
    BY <1>1, <1>5, <2>1 DEF TypeInv, TypeOK
<1>8. ASSUME NEW n \in Nodes, Round(n) \/ Environment(n)
      PROVE  MajorityElects'
  <2>1. CASE role' = role
    BY <1>5, <2>1
  <2>2. CASE Post(n)
    BY <1>6, <2>2 DEF Post
  <2>3. QED
    BY <1>4, <1>7, <1>8, <2>1, <2>2 DEF Round, Environment, Beat, Poll, Settle, CheckHealth,
        Refuse, Age, RequestEnds, Crash, Discover, LinkChanges, term
<1>9. ASSUME NEW c \in claims, Deliver(c) \/ Lose(c)
      PROVE  ElectionInv'
  <2>1. UNCHANGED member
    BY <1>9 DEF Deliver, Lose
  <2>2. MajorityElects'
    <3>1. CASE Deliver(c)
      BY <1>1, <1>6, <3>1, ClusterAssumption DEF Deliver, TypeInv, TypeOK, Claim
    <3>2. CASE Lose(c)
      BY <1>5, <3>2 DEF Lose, term
    <3>3. QED
      BY <1>9, <3>1, <3>2
  <2>3. QED
    BY <1>1, <2>1, <2>2 DEF ElectionInv, FullInv, SeenInv, member
<1>10. CASE UNCHANGED vars
  BY <1>1, <1>10 DEF ElectionInv, FullInv, SeenInv, MajorityElects, vars, member, term, network
<1>11. QED
  BY <1>1, <1>2, <1>3, <1>8, <1>9, <1>10 DEF Next, ElectionInv

\* A node that can reach only a minority of a cluster of three or more never
\* becomes master (cluster.go:455): for any nodes that are all configured with
\* each other and any links, as long as the links stay as they are, whoever
\* crashes, restarts, saves its settings or posts claims meanwhile.
THEOREM MajorityAlwaysElects ==
    ASSUME \A n \in Nodes : Known[n] = Nodes \ {n}
    PROVE  Spec /\ [][cut' = cut]_vars => []MajorityElects
<1>1. Init => ElectionInv
  BY ElectionInit
<1>2. ElectionInv /\ [Next]_vars /\ [cut' = cut]_vars => ElectionInv'
  <2>1. UNCHANGED vars => cut' = cut
    BY DEF vars, network
  <2>2. QED
    BY <2>1, ElectionStep
<1>3. ElectionInv => MajorityElects
  BY DEF ElectionInv
<1>4. QED
  BY <1>1, <1>2, <1>3, PTL DEF Spec

-----------------------------------------------------------------------------
(* The pairing records.                                                    *)

\* A writer has a record that was enrolled before, and writes one whose time is
\* newer than what it saw.
GoodJob(job, t) ==
    /\ job \in S!Work /\ job.ver =< t
    /\ job.step # "idle" => job.node \in Engines
    /\ job.step = "write" => job.seen < job.time

\* A record carries its own time, and once written is what the file holds.
TrueJob(job) ==
    /\ job.ver = job.time
    /\ job.step = "stamp" => file[job.node] = job.ver

\* Every record, kept or on its way, carries its own time, except a file that is
\* being written.
Clean ==
    /\ \A w \in Writers : TrueJob(writer[w])
    /\ \A n \in Engines : TrueJob(puller[n])
    /\ \A push \in pushes : push.ver = push.time
    /\ \A n \in Engines : pull[n].step = "got" => pull[n].ver = pull[n].time
    /\ \A n \in Engines : S!Mid(n) \/ time[n] = file[n]

\* So it is until a write is disturbed; no version is there that was not enrolled.
RecordsInv ==
    /\ S!TypeOK
    /\ \A w \in Writers : GoodJob(writer[w], clock)
    /\ \A n \in Engines : GoodJob(puller[n], clock)
    /\ \A n \in Engines : puller[n].step # "idle" => puller[n].node = n
    /\ \A n \in Engines : pull[n].step = "read" => pull[n].from \in Engines
    /\ \A n \in Engines : file[n] =< clock /\ pull[n].ver =< clock
    /\ \A push \in pushes : push.ver =< clock
    /\ ~disturbed => Clean

\* A step does to the records what NewerIsKept says.
KeepsFiles == \A n \in Engines : file'[n] < file[n] => S!Overtaken(n)
KeepsJobs ==
    /\ \A w \in Writers : ~S!Dropped(writer[w], writer'[w])
    /\ \A n \in Engines : ~S!Dropped(puller[n], puller'[n])
Keeps == disturbed' \/ (KeepsFiles /\ (sFaults' = sFaults => KeepsJobs))

LEMMA IdleIsGood == ASSUME S!CertSyncAssumption, clock \in S!Times
                    PROVE  GoodJob(S!Idle, clock) /\ S!Idle \in S!Work /\ S!Idle.ver = S!Idle.time
                             /\ S!Idle.step = "idle"
<1>1. 0 \in S!Times
  BY DEF S!Times, S!CertSyncAssumption
<1>2. QED
  BY <1>1 DEF GoodJob, S!Idle, S!Work, S!Times

LEMMA GoodLater ==
    ASSUME NEW t \in S!Times, NEW u \in S!Times, t =< u, NEW job, GoodJob(job, t)
    PROVE  GoodJob(job, u)
BY DEF GoodJob, S!Work, S!Times

LEMMA MidIs ==
    ASSUME NEW n
    PROVE  S!Mid(n) <=> \/ \E w \in Writers : writer[w].step = "stamp" /\ writer[w].node = n
                        \/ \E m \in Engines : puller[m].step = "stamp" /\ puller[m].node = n
BY DEF S!Mid, S!Working

LEMMA MidNext ==
    ASSUME NEW n
    PROVE  S!Mid(n)' <=> \/ \E w \in Writers : writer'[w].step = "stamp" /\ writer'[w].node = n
                         \/ \E m \in Engines : puller'[m].step = "stamp" /\ puller'[m].node = n
BY DEF S!Mid, S!Working

LEMMA RecordsInit == S!CertSyncAssumption /\ S!Init => RecordsInv
<1> SUFFICES ASSUME S!CertSyncAssumption, S!Init PROVE RecordsInv
  OBVIOUS
<1>1. 0 \in S!Times /\ 0 \in 0 .. MaxLosses
  BY DEF S!CertSyncAssumption, S!Times
<1>2. /\ GoodJob(S!Idle, clock) /\ S!Idle \in S!Work
      /\ S!Idle.ver = S!Idle.time /\ S!Idle.step = "idle"
  BY <1>1, IdleIsGood DEF S!Init
<1>3. S!NoPull \in S!Pull /\ S!NoPull.step = "none" /\ S!NoPull.ver = 0
  BY <1>1 DEF S!NoPull, S!Pull
<1>4. S!TypeOK
  BY <1>1, <1>2, <1>3 DEF S!TypeOK, S!Init
<1>5. Clean
  BY <1>2, <1>3 DEF S!Init, Clean, TrueJob
<1>6. QED
  BY <1>2, <1>3, <1>4, <1>5 DEF S!Init, RecordsInv

\* What a step of one writer does: the files of the others' writes are left alone
\* unless they are disturbed, and so is a file unless it then has its own time or
\* waits for it.
JobDone(job, next) ==
    /\ TrueJob(job) => next.ver = next.time
    /\ next.step = "stamp" => file'[next.node] = next.ver
    /\ \A other \in S!Working : other.step = "stamp" => file'[other.node] = file[other.node]
    /\ \A n \in Engines : \/ time'[n] = file'[n]
                          \/ next.step = "stamp" /\ next.node = n
                          \/ /\ ~(job.step = "stamp" /\ job.node = n)
                             /\ file'[n] = file[n] /\ time'[n] = time[n]
    /\ \A n \in Engines : file'[n] < file[n] =>
          job.step = "write" /\ job.node = n /\ job.ver = file'[n] /\ job.seen # file[n]
    /\ ~S!Dropped(job, next)

LEMMA JobStep ==
    ASSUME S!CertSyncAssumption, RecordsInv, NEW job \in S!Working, GoodJob(job, clock),
           ~disturbed => TrueJob(job), job.step # "idle",
           NEW next \in S!Jobs(job), S!WriteLocalPlist(job, next)
    PROVE  /\ GoodJob(next, clock)
           /\ file' \in [Engines -> S!Times] /\ time' \in [Engines -> S!Times]
           /\ clock' \in S!Times /\ mark' \in [Engines -> S!Times] /\ disturbed' \in BOOLEAN
           /\ clock =< clock' /\ \A m \in Engines : file'[m] =< clock'
           /\ disturbed => disturbed'
           /\ next.step # "idle" => next.node = job.node
           /\ ~disturbed' => JobDone(job, next)
<1> DEFINE n == job.node
<1>1. /\ job \in S!Work /\ n \in Engines /\ job.ver \in S!Times /\ job.time \in S!Times
      /\ job.seen \in S!Times /\ clock \in S!Times /\ disturbed \in BOOLEAN
      /\ file \in [Engines -> S!Times] /\ time \in [Engines -> S!Times]
      /\ mark \in [Engines -> S!Times] /\ job.ver =< clock /\ clock =< clock
      /\ \A m \in Engines : file[m] =< clock
      /\ job.step = "write" => job.seen < job.time
      /\ ~disturbed => job.ver = job.time /\ (job.step = "stamp" => file[n] = job.ver)
      /\ ~disturbed => \A m \in Engines : S!Mid(m) \/ time[m] = file[m]
  BY DEF GoodJob, TrueJob, S!Work, S!Times, RecordsInv, Clean, S!TypeOK
<1>2. GoodJob(S!Idle, clock) /\ S!Idle.ver = S!Idle.time /\ S!Idle.step = "idle"
  BY <1>1, IdleIsGood
<1>3. /\ S!Times \subseteq Nat /\ file \in [Engines -> Nat] /\ time \in [Engines -> Nat]
      /\ \A m \in Engines : file[m] \in Nat /\ time[m] \in Nat /\ ~(file[m] < file[m])
      /\ job.ver \in Nat /\ job.time \in Nat /\ job.seen \in Nat /\ clock \in Nat
  <2>1. S!Times \subseteq Nat
    BY DEF S!Times
  <2>2. \A m \in Engines : file[m] \in Nat /\ time[m] \in Nat
    BY <1>1, <2>1
  <2>3. \A m \in Engines : ~(file[m] < file[m])
    BY <2>2
  <2>4. QED
    BY <1>1, <2>1, <2>2, <2>3
<1>4. CASE S!CheckLocal(job, next)
  <2>1. job.step = "check" /\ UNCHANGED <<file, time, clock, mark>>
        /\ disturbed' = (disturbed \/ S!Mid(n))
    BY <1>4 DEF S!CheckLocal
  <2>2. /\ disturbed' \in BOOLEAN /\ (disturbed => disturbed')
        /\ ~disturbed' => ~disturbed /\ ~S!Mid(n)
        /\ clock =< clock' /\ \A m \in Engines : file'[m] =< clock'
    BY <1>1, <2>1
  <2>3. CASE job.time > time[n]
    <3>1. next = [job EXCEPT !.step = "write", !.seen = time[n]]
      BY <1>4, <2>3 DEF S!CheckLocal, S!Newer
    <3>2. /\ next.step = "write" /\ next.node = n /\ next.ver = job.ver /\ next.time = job.time
          /\ next.seen = time[n] /\ next \in S!Work
      BY <1>1, <3>1 DEF S!Work
    <3>3. GoodJob(next, clock)
      BY <1>1, <1>3, <2>3, <3>2 DEF GoodJob
    <3>4. JobDone(job, next)
      BY <1>1, <1>3, <2>1, <3>2 DEF JobDone, TrueJob, S!Dropped
    <3>5. QED
      BY <1>1, <2>1, <2>2, <3>2, <3>3, <3>4
  <2>4. CASE ~(job.time > time[n])
    <3>1. next = S!Idle
      BY <1>4, <2>4 DEF S!CheckLocal, S!Newer
    <3>2. ~disturbed' => job.ver =< file[n]
      BY <1>1, <1>3, <2>2, <2>4
    <3>3. ~disturbed' => JobDone(job, next)
      BY <1>1, <1>2, <1>3, <2>1, <3>1, <3>2 DEF JobDone, S!Dropped
    <3>4. QED
      BY <1>1, <1>2, <2>1, <2>2, <3>1, <3>3
  <2>5. QED
    BY <2>3, <2>4
<1>5. CASE S!WriteLocal(job, next)
  <2>1. CASE S!WriteFile(n, job.ver) /\ next = [job EXCEPT !.step = "stamp"]
    <3>1. /\ clock < MaxTime /\ clock' = clock + 1 /\ job.step = "write" /\ mark' = mark
          /\ file' = [file EXCEPT ![n] = job.ver] /\ time' = [time EXCEPT ![n] = clock + 1]
          /\ disturbed' = (disturbed \/ S!Mid(n))
      BY <1>5, <2>1 DEF S!WriteLocal, S!WriteFile, S!Set
    <3>2. /\ clock + 1 \in S!Times /\ clock =< clock'
          /\ \A m \in Engines : file'[m] =< clock'
      BY <1>1, <1>3, <3>1 DEF S!Times, S!CertSyncAssumption
    <3>3. /\ next.step = "stamp" /\ next.node = n /\ next.ver = job.ver /\ next.time = job.time
          /\ next \in S!Work
      BY <1>1, <2>1 DEF S!Work
    <3>4. GoodJob(next, clock)
      BY <1>1, <3>3 DEF GoodJob
    <3>5. ~disturbed' => \A other \in S!Working :
                            other.step = "stamp" => file'[other.node] = file[other.node]
      <4>1. ~disturbed' => \A other \in S!Working : other.step = "stamp" => other.node # n
        BY <3>1 DEF S!Mid
      <4>2. QED
        BY <1>1, <3>1, <4>1
    <3>6. ~disturbed' => (file'[n] < file[n] => job.seen # file[n])
      BY <1>1, <1>3, <3>1
    <3>7. ~disturbed' => JobDone(job, next)
      <4> SUFFICES ASSUME ~disturbed' PROVE JobDone(job, next)
        OBVIOUS
      <4>1. file'[n] = job.ver /\ \A m \in Engines \ {n} : file'[m] = file[m] /\ time'[m] = time[m]
        BY <1>1, <3>1
      <4>2. \A m \in Engines : file'[m] < file[m] =>
              job.step = "write" /\ n = m /\ job.ver = file'[m] /\ job.seen # file[m]
        BY <1>1, <1>3, <3>1, <3>6, <4>1
      <4>3. ~S!Dropped(job, next)
        BY <3>1 DEF S!Dropped
      <4>4. QED
        BY <3>1, <3>3, <3>5, <4>1, <4>2, <4>3 DEF JobDone, TrueJob
    <3>8. /\ disturbed' \in BOOLEAN /\ (disturbed => disturbed')
          /\ file' \in [Engines -> S!Times] /\ time' \in [Engines -> S!Times]
      BY <1>1, <3>1, <3>2
    <3>9. QED
      BY <1>1, <3>1, <3>2, <3>3, <3>4, <3>7, <3>8
  <2>2. CASE next = S!Idle /\ UNCHANGED <<file, time, clock, disturbed>>
    <3>1. job.step = "write" /\ mark' = mark
      BY <1>5 DEF S!WriteLocal
    <3>2. JobDone(job, next)
      BY <1>1, <1>2, <1>3, <2>2, <3>1 DEF JobDone, S!Dropped
    <3>3. QED
      BY <1>1, <1>2, <2>2, <3>1, <3>2
  <2>3. QED
    BY <1>5, <2>1, <2>2 DEF S!WriteLocal, S!disk
<1>6. CASE S!StampLocal(job, next)
  <2>1. job.step = "stamp" /\ UNCHANGED <<file, clock, mark>>
        /\ next = [job EXCEPT !.step = "mark"]
    BY <1>6 DEF S!StampLocal
  <2>2. /\ next.step = "mark" /\ next.node = n /\ next.ver = job.ver /\ next.time = job.time
        /\ next \in S!Work
    BY <1>1, <2>1 DEF S!Work
  <2>3. GoodJob(next, clock)
    BY <1>1, <2>2 DEF GoodJob
  <2>4. CASE time' = [time EXCEPT ![n] = job.time] /\ disturbed' = disturbed
    <3>1. ~disturbed' => time'[n] = file'[n] /\ \A m \in Engines \ {n} : time'[m] = time[m]
      BY <1>1, <2>1, <2>4
    <3>2. ~disturbed' => JobDone(job, next)
      <4> SUFFICES ASSUME ~disturbed' PROVE JobDone(job, next)
        OBVIOUS
      <4>1. \A m \in Engines : ~(file'[m] < file[m])
        BY <1>1, <1>3, <2>1
      <4>2. ~S!Dropped(job, next)
        BY <2>1 DEF S!Dropped
      <4>3. QED
        BY <2>1, <2>2, <3>1, <4>1, <4>2 DEF JobDone, TrueJob
    <3>3. QED
      BY <1>1, <2>1, <2>3, <2>4, <3>2
  <2>5. CASE disturbed' = TRUE /\ time' = time
    BY <1>1, <2>1, <2>3, <2>5
  <2>6. QED
    BY <1>6, <2>4, <2>5 DEF S!StampLocal, S!Set
<1>7. CASE S!MarkLocal(job, next)
  <2>1. job.step = "mark" /\ UNCHANGED <<file, time, clock, disturbed>> /\ next = S!Idle
        /\ mark' = [mark EXCEPT ![n] = job.time]
    BY <1>7 DEF S!MarkLocal, S!Set, S!disk
  <2>2. JobDone(job, next)
    BY <1>1, <1>2, <1>3, <2>1 DEF JobDone, S!Dropped
  <2>3. QED
    BY <1>1, <1>2, <2>1, <2>2
<1>8. QED
  BY <1>4, <1>5, <1>6, <1>7 DEF S!WriteLocalPlist

LEMMA WriterStep ==
    ASSUME S!CertSyncAssumption, RecordsInv, NEW w \in Writers, S!Serve(w)
    PROVE  RecordsInv' /\ Keeps
<1>1. /\ S!TypeOK /\ GoodJob(writer[w], clock) /\ writer[w].step # "idle" /\ writer[w] \in S!Working
      /\ ~disturbed => TrueJob(writer[w])
  BY DEF RecordsInv, S!Serve, S!Working, Clean
<1>2. PICK next \in S!Jobs(writer[w]) :
        S!WriteLocalPlist(writer[w], next) /\ writer' = [writer EXCEPT ![w] = next]
  BY DEF S!Serve, S!Set
<1>3. UNCHANGED <<synced, sRole, follows, looked, pull, pushes, puller, sFaults>>
  BY DEF S!Serve, S!clusterVars
<1>4. /\ GoodJob(next, clock)
      /\ file' \in [Engines -> S!Times] /\ time' \in [Engines -> S!Times]
      /\ clock' \in S!Times /\ mark' \in [Engines -> S!Times] /\ disturbed' \in BOOLEAN
      /\ clock =< clock' /\ \A m \in Engines : file'[m] =< clock'
      /\ disturbed => disturbed'
      /\ next.step # "idle" => next.node = writer[w].node
      /\ ~disturbed' => JobDone(writer[w], next)
  BY <1>1, <1>2, JobStep
<1>5. writer'[w] = next /\ \A v \in Writers \ {w} : writer'[v] = writer[v]
  BY <1>1, <1>2 DEF S!TypeOK
<1>6. /\ \A v \in Writers : GoodJob(writer'[v], clock')
      /\ \A n \in Engines : GoodJob(puller[n], clock')
  <2>1. clock \in S!Times /\ clock' \in S!Times /\ clock =< clock'
    BY <1>1, <1>4 DEF S!TypeOK
  <2>2. \A v \in Writers : GoodJob(writer'[v], clock)
    BY <1>4, <1>5 DEF RecordsInv
  <2>3. \A v \in Writers : GoodJob(writer'[v], clock')
    BY <2>1, <2>2, GoodLater
  <2>4. \A n \in Engines : GoodJob(puller[n], clock)
    BY DEF RecordsInv
  <2>5. \A n \in Engines : GoodJob(puller[n], clock')
    BY <2>1, <2>4, GoodLater
  <2>6. QED
    BY <2>3, <2>5
<1>7. S!TypeOK'
  <2>1. next \in S!Work
    BY <1>4 DEF GoodJob
  <2>2. writer' \in [Writers -> S!Work]
    BY <1>1, <1>2, <2>1 DEF S!TypeOK
  <2>3. QED
    BY <1>1, <1>3, <1>4, <2>2 DEF S!TypeOK
<1>8. ~disturbed' => Clean'
  <2> SUFFICES ASSUME ~disturbed' PROVE Clean'
    OBVIOUS
  <2>1. Clean /\ JobDone(writer[w], next) /\ TrueJob(writer[w])
    BY <1>4 DEF RecordsInv, Clean
  <2>2. /\ \A v \in Writers : TrueJob(writer[v])'
        /\ \A n \in Engines : TrueJob(puller[n])'
    <3>1. TrueJob(writer[w])'
      BY <1>5, <2>1 DEF JobDone, TrueJob
    <3>2. ASSUME NEW v \in Writers \ {w} PROVE TrueJob(writer[v])'
      BY <1>5, <2>1 DEF JobDone, TrueJob, Clean, S!Working
    <3>3. ASSUME NEW n \in Engines PROVE TrueJob(puller[n])'
      BY <1>3, <2>1 DEF JobDone, TrueJob, Clean, S!Working
    <3>4. QED
      BY <3>1, <3>2, <3>3
  <2>3. ASSUME NEW n \in Engines PROVE S!Mid(n)' \/ time'[n] = file'[n]
    <3>1. CASE next.step = "stamp" /\ next.node = n
      BY <1>5, <3>1, MidNext
    <3>2. CASE /\ ~(writer[w].step = "stamp" /\ writer[w].node = n)
               /\ file'[n] = file[n] /\ time'[n] = time[n]
      <4>1. S!Mid(n) \/ time[n] = file[n]
        BY <2>1 DEF Clean
      <4>2. S!Mid(n) => S!Mid(n)'
        BY <1>3, <1>5, <3>2, MidIs, MidNext
      <4>3. QED
        BY <3>2, <4>1, <4>2
    <3>3. QED
      BY <2>1, <3>1, <3>2 DEF JobDone
  <2>4. /\ \A push \in pushes' : push.ver = push.time
        /\ \A n \in Engines : pull'[n].step = "got" => pull'[n].ver = pull'[n].time
    BY <1>3, <2>1 DEF Clean
  <2>5. QED
    BY <2>2, <2>3, <2>4 DEF Clean
<1>9. RecordsInv'
  <2>1. \A n \in Engines : pull'[n].ver =< clock'
    BY <1>1, <1>3, <1>4 DEF RecordsInv, S!TypeOK, S!Pull, S!Times
  <2>2. \A push \in pushes' : push.ver =< clock'
    BY <1>1, <1>3, <1>4 DEF RecordsInv, S!TypeOK, S!Times
  <2>3. QED
    BY <1>3, <1>4, <1>6, <1>7, <1>8, <2>1, <2>2 DEF RecordsInv
<1>10. ~disturbed' => KeepsFiles
  BY <1>1, <1>4 DEF JobDone, KeepsFiles, S!Overtaken
<1>11. ~disturbed' => KeepsJobs
  BY <1>1, <1>3, <1>4, <1>5 DEF JobDone, KeepsJobs, S!Dropped
<1>12. QED
  BY <1>9, <1>10, <1>11 DEF Keeps

LEMMA PullerStep ==
    ASSUME S!CertSyncAssumption, RecordsInv, NEW e \in Engines, S!PullWrites(e)
    PROVE  RecordsInv' /\ Keeps
<1>1. /\ S!TypeOK /\ GoodJob(puller[e], clock) /\ puller[e].step # "idle" /\ puller[e] \in S!Working
      /\ ~disturbed => TrueJob(puller[e])
  BY DEF RecordsInv, S!PullWrites, S!Working, Clean
<1>2. PICK next \in S!Jobs(puller[e]) :
        S!WriteLocalPlist(puller[e], next) /\ puller' = [puller EXCEPT ![e] = next]
  BY DEF S!PullWrites, S!Set
<1>3. UNCHANGED <<synced, sRole, follows, looked, pull, pushes, writer, sFaults>>
  BY DEF S!PullWrites, S!clusterVars
<1>4. /\ GoodJob(next, clock)
      /\ file' \in [Engines -> S!Times] /\ time' \in [Engines -> S!Times]
      /\ clock' \in S!Times /\ mark' \in [Engines -> S!Times] /\ disturbed' \in BOOLEAN
      /\ clock =< clock' /\ \A m \in Engines : file'[m] =< clock'
      /\ disturbed => disturbed'
      /\ next.step # "idle" => next.node = puller[e].node
      /\ ~disturbed' => JobDone(puller[e], next)
  BY <1>1, <1>2, JobStep
<1>5. puller'[e] = next /\ \A m \in Engines \ {e} : puller'[m] = puller[m]
  BY <1>1, <1>2 DEF S!TypeOK
<1>6. /\ \A v \in Writers : GoodJob(writer[v], clock')
      /\ \A n \in Engines : GoodJob(puller'[n], clock')
  <2>1. clock \in S!Times /\ clock' \in S!Times /\ clock =< clock'
    BY <1>1, <1>4 DEF S!TypeOK
  <2>2. \A n \in Engines : GoodJob(puller'[n], clock)
    BY <1>4, <1>5 DEF RecordsInv
  <2>3. \A n \in Engines : GoodJob(puller'[n], clock')
    BY <2>1, <2>2, GoodLater
  <2>4. \A v \in Writers : GoodJob(writer[v], clock)
    BY DEF RecordsInv
  <2>5. \A v \in Writers : GoodJob(writer[v], clock')
    BY <2>1, <2>4, GoodLater
  <2>6. QED
    BY <2>3, <2>5
<1>7. S!TypeOK'
  <2>1. next \in S!Work
    BY <1>4 DEF GoodJob
  <2>2. puller' \in [Engines -> S!Work]
    BY <1>1, <1>2, <2>1 DEF S!TypeOK
  <2>3. QED
    BY <1>1, <1>3, <1>4, <2>2 DEF S!TypeOK
<1>8. ~disturbed' => Clean'
  <2> SUFFICES ASSUME ~disturbed' PROVE Clean'
    OBVIOUS
  <2>1. Clean /\ JobDone(puller[e], next) /\ TrueJob(puller[e])
    BY <1>4 DEF RecordsInv, Clean
  <2>2. /\ \A v \in Writers : TrueJob(writer[v])'
        /\ \A n \in Engines : TrueJob(puller[n])'
    <3>1. TrueJob(puller[e])'
      BY <1>5, <2>1 DEF JobDone, TrueJob
    <3>2. ASSUME NEW m \in Engines \ {e} PROVE TrueJob(puller[m])'
      BY <1>5, <2>1 DEF JobDone, TrueJob, Clean, S!Working
    <3>3. ASSUME NEW v \in Writers PROVE TrueJob(writer[v])'
      BY <1>3, <2>1 DEF JobDone, TrueJob, Clean, S!Working
    <3>4. QED
      BY <3>1, <3>2, <3>3
  <2>3. ASSUME NEW n \in Engines PROVE S!Mid(n)' \/ time'[n] = file'[n]
    <3>1. CASE next.step = "stamp" /\ next.node = n
      BY <1>5, <3>1, MidNext
    <3>2. CASE /\ ~(puller[e].step = "stamp" /\ puller[e].node = n)
               /\ file'[n] = file[n] /\ time'[n] = time[n]
      <4>1. S!Mid(n) \/ time[n] = file[n]
        BY <2>1 DEF Clean
      <4>2. S!Mid(n) => S!Mid(n)'
        BY <1>3, <1>5, <3>2, MidIs, MidNext
      <4>3. QED
        BY <3>2, <4>1, <4>2
    <3>3. QED
      BY <2>1, <3>1, <3>2 DEF JobDone
  <2>4. /\ \A push \in pushes' : push.ver = push.time
        /\ \A n \in Engines : pull'[n].step = "got" => pull'[n].ver = pull'[n].time
    BY <1>3, <2>1 DEF Clean
  <2>5. QED
    BY <2>2, <2>3, <2>4 DEF Clean
<1>9. RecordsInv'
  <2>1. \A n \in Engines : pull'[n].ver =< clock'
    BY <1>1, <1>3, <1>4 DEF RecordsInv, S!TypeOK, S!Pull, S!Times
  <2>2. \A push \in pushes' : push.ver =< clock'
    BY <1>1, <1>3, <1>4 DEF RecordsInv, S!TypeOK, S!Times
  <2>3. \A n \in Engines : puller'[n].step # "idle" => puller'[n].node = n
    BY <1>1, <1>4, <1>5 DEF RecordsInv
  <2>4. QED
    BY <1>3, <1>4, <1>6, <1>7, <1>8, <2>1, <2>2, <2>3 DEF RecordsInv
<1>10. ~disturbed' => KeepsFiles
  BY <1>1, <1>4 DEF JobDone, KeepsFiles, S!Overtaken
<1>11. ~disturbed' => KeepsJobs
  BY <1>1, <1>3, <1>4, <1>5 DEF JobDone, KeepsJobs, S!Dropped
<1>12. QED
  BY <1>9, <1>10, <1>11 DEF Keeps

\* A step that writes no file and ends no writer's work.
LEMMA NoLoss ==
    ASSUME RecordsInv, UNCHANGED file,
           \A w \in Writers : writer[w].step = "idle" \/ writer'[w] = writer[w],
           \A n \in Engines : puller[n].step = "idle" \/ puller'[n] = puller[n]
    PROVE  Keeps
<1>1. KeepsFiles
  <2>1. S!Times \subseteq Nat /\ file \in [Engines -> S!Times]
    BY DEF S!Times, RecordsInv, S!TypeOK
  <2>2. \A n \in Engines : file[n] \in Nat
    BY <2>1
  <2>3. \A n \in Engines : ~(file[n] < file[n])
    BY <2>2
  <2>4. QED
    BY <2>3 DEF KeepsFiles
<1>2. KeepsJobs
  BY DEF KeepsJobs, S!Dropped
<1>3. QED
  BY <1>1, <1>2 DEF Keeps

\* Files and writers are left alone: only what is on its way changes.
LEMMA StillStep ==
    ASSUME RecordsInv, S!TypeOK', UNCHANGED <<file, time, clock, writer, puller>>,
           disturbed => disturbed',
           \A n \in Engines : pull'[n].ver =< clock, \A push \in pushes' : push.ver =< clock,
           \A n \in Engines : pull'[n].step = "read" => pull'[n].from \in Engines,
           ~disturbed' => /\ \A push \in pushes' : push.ver = push.time
                          /\ \A n \in Engines :
                                pull'[n].step = "got" => pull'[n].ver = pull'[n].time
    PROVE  RecordsInv' /\ Keeps
<1>1. ~disturbed' => Clean'
  <2> SUFFICES ASSUME ~disturbed' PROVE Clean'
    OBVIOUS
  <2>1. Clean
    BY DEF RecordsInv
  <2>2. \A n \in Engines : S!Mid(n)' <=> S!Mid(n)
    BY MidIs, MidNext
  <2>3. QED
    BY <2>1, <2>2 DEF Clean, TrueJob
<1>2. RecordsInv'
  BY <1>1 DEF RecordsInv
<1>3. QED
  BY <1>2, NoLoss

\* A change of master.
LEMMA MovesStep ==
    ASSUME RecordsInv, S!CertSyncAssumption, NEW n \in Engines,
           S!Promote(n) \/ S!ObeyClaim(n) \/ \E p \in Engines \ {n} : S!Follow(n, p)
    PROVE  RecordsInv' /\ Keeps
<1>1. UNCHANGED <<file, time, clock, disturbed, mark, looked, pull, pushes, writer, puller>>
  BY DEF S!Promote, S!ObeyClaim, S!Follow, S!writers, S!disk
<1>2. /\ sRole' \in [Engines -> {"master", "slave"}] /\ synced' \in [Engines -> BOOLEAN]
      /\ follows' \in [Engines -> Engines \union {None}] /\ sFaults' \in 0 .. MaxLosses
  <2>1. CASE S!Promote(n)
    BY <2>1 DEF RecordsInv, S!TypeOK, S!Promote, S!Set, S!CertSyncAssumption
  <2>2. CASE S!ObeyClaim(n)
    BY <2>2 DEF RecordsInv, S!TypeOK, S!ObeyClaim, S!Set, S!CertSyncAssumption
  <2>3. CASE \E p \in Engines \ {n} : S!Follow(n, p)
    BY <2>3 DEF RecordsInv, S!TypeOK, S!Follow, S!Set
  <2>4. QED
    BY <2>1, <2>2, <2>3
<1>3. S!TypeOK'
  BY <1>1, <1>2 DEF RecordsInv, S!TypeOK
<1>4. QED
  BY <1>1, <1>3, StillStep DEF RecordsInv, Clean

LEMMA EnrollStep ==
    ASSUME RecordsInv, S!CertSyncAssumption, NEW n \in Engines, S!Enroll(n)
    PROVE  RecordsInv' /\ Keeps
<1>1. /\ clock < MaxTime /\ clock' = clock + 1 /\ disturbed' = (disturbed \/ S!Mid(n))
      /\ file' = [file EXCEPT ![n] = clock + 1] /\ time' = [time EXCEPT ![n] = clock + 1]
      /\ UNCHANGED <<mark, synced, sRole, follows, looked, pull, pushes, writer, puller, sFaults>>
  BY DEF S!Enroll, S!WriteFile, S!Set, S!clusterVars, S!writers
<1>2. /\ S!TypeOK /\ clock \in S!Times /\ clock' \in S!Times /\ clock =< clock'
      /\ clock + 1 \in S!Times /\ clock' = clock + 1
  BY <1>1 DEF RecordsInv, S!TypeOK, S!CertSyncAssumption, S!Times
<1>3. S!TypeOK'
  <2>1. file' \in [Engines -> S!Times] /\ time' \in [Engines -> S!Times] /\ disturbed' \in BOOLEAN
    BY <1>1, <1>2 DEF S!TypeOK
  <2>2. QED
    BY <1>1, <1>2, <2>1 DEF S!TypeOK
<1>4. \A m \in Engines : file'[m] =< clock' /\ file[m] =< file'[m]
  BY <1>1, <1>2 DEF RecordsInv, S!TypeOK, S!Times
<1>5. \A m \in Engines : pull'[m].ver =< clock'
  BY <1>1, <1>2 DEF RecordsInv, S!TypeOK, S!Pull, S!Times
<1>6. \A push \in pushes' : push.ver =< clock'
  BY <1>1, <1>2 DEF RecordsInv, S!TypeOK, S!Times
<1>7. /\ \A w \in Writers : GoodJob(writer[w], clock')
      /\ \A m \in Engines : GoodJob(puller[m], clock')
  BY <1>2, GoodLater DEF RecordsInv
<1>8. ~disturbed' => Clean'
  <2> SUFFICES ASSUME ~disturbed' PROVE Clean'
    OBVIOUS
  <2>1. Clean /\ ~S!Mid(n)
    BY <1>1 DEF RecordsInv
  <2>2. file'[n] = time'[n] /\ \A m \in Engines \ {n} : file'[m] = file[m] /\ time'[m] = time[m]
    BY <1>1, <1>2 DEF S!TypeOK
  <2>3. /\ \A w \in Writers : writer[w].step = "stamp" => writer[w].node # n
        /\ \A m \in Engines : puller[m].step = "stamp" => puller[m].node # n
    BY <2>1, MidIs
  <2>4. /\ \A w \in Writers : writer[w].step = "stamp" => writer[w].node \in Engines
        /\ \A m \in Engines : puller[m].step = "stamp" => puller[m].node \in Engines
    BY DEF RecordsInv, GoodJob
  <2>5. \A w \in Writers : TrueJob(writer[w])'
    BY <1>1, <2>1, <2>2, <2>3, <2>4 DEF Clean, TrueJob
  <2>6. \A m \in Engines : TrueJob(puller[m])'
    BY <1>1, <2>1, <2>2, <2>3, <2>4 DEF Clean, TrueJob
  <2>7. \A m \in Engines : S!Mid(m)' \/ time'[m] = file'[m]
    <3> SUFFICES ASSUME NEW m \in Engines PROVE S!Mid(m)' \/ time'[m] = file'[m]
      OBVIOUS
    <3>1. S!Mid(m)' <=> S!Mid(m)
      BY <1>1, MidIs, MidNext
    <3>2. QED
      BY <2>1, <2>2, <3>1 DEF Clean
  <2>8. QED
    BY <1>1, <2>1, <2>5, <2>6, <2>7 DEF Clean
<1>9. RecordsInv'
  BY <1>1, <1>3, <1>4, <1>5, <1>6, <1>7, <1>8 DEF RecordsInv
<1>10. KeepsFiles
  BY <1>3, <1>4 DEF KeepsFiles, RecordsInv, S!TypeOK, S!Times
<1>11. KeepsJobs
  BY <1>1 DEF KeepsJobs, S!Dropped
<1>12. QED
  BY <1>9, <1>10, <1>11 DEF Keeps

LEMMA RestartStep ==
    ASSUME RecordsInv, S!CertSyncAssumption, NEW n \in Engines, S!Restart(n)
    PROVE  RecordsInv' /\ Keeps
<1>1. /\ UNCHANGED <<file, time, clock, pushes>> /\ disturbed' = (disturbed \/ S!Mid(n))
      /\ sFaults < MaxLosses /\ sFaults' = sFaults + 1
      /\ puller' = [puller EXCEPT ![n] = S!Idle]
      /\ writer' = [w \in Writers |-> IF writer[w].node = n THEN S!Idle ELSE writer[w]]
      /\ pull' = [m \in Engines |->
                   IF m = n \/ (pull[m].step = "read" /\ pull[m].from = n)
                   THEN S!NoPull ELSE pull[m]]
  BY DEF S!Restart, S!Set
<1>2. S!TypeOK /\ clock \in S!Times /\ 0 \in S!Times
  BY DEF RecordsInv, S!TypeOK, S!Times, S!CertSyncAssumption
<1>3. /\ GoodJob(S!Idle, clock) /\ S!Idle \in S!Work
      /\ S!Idle.ver = S!Idle.time /\ S!Idle.step = "idle"
  BY <1>2, IdleIsGood
<1>4. S!NoPull \in S!Pull /\ S!NoPull.step = "none" /\ S!NoPull.ver = 0 /\ 0 =< clock
  BY <1>2 DEF S!NoPull, S!Pull, S!Times
<1>5. /\ \A w \in Writers : writer'[w] = S!Idle \/ (writer'[w] = writer[w] /\ writer[w].node # n)
      /\ \A m \in Engines : puller'[m] = S!Idle \/ (puller'[m] = puller[m] /\ m # n)
      /\ \A m \in Engines : pull'[m] = S!NoPull \/ pull'[m] = pull[m]
  BY <1>1, <1>2 DEF S!TypeOK
<1>6. S!TypeOK'
  <2>1. mark' \in [Engines -> S!Times] /\ looked' \in [Engines -> S!Times]
        /\ synced' \in [Engines -> BOOLEAN]
    BY <1>2 DEF S!Restart, S!Set, S!TypeOK
  <2>2. /\ sRole' \in [Engines -> {"master", "slave"}]
        /\ follows' \in [Engines -> Engines \union {None}]
    BY <1>2 DEF S!Restart, S!Set, S!TypeOK
  <2>3. sFaults' \in 0 .. MaxLosses /\ disturbed' \in BOOLEAN
    BY <1>1, <1>2 DEF S!TypeOK, S!CertSyncAssumption
  <2>4. pull' \in [Engines -> S!Pull]
    BY <1>1, <1>2, <1>4 DEF S!TypeOK
  <2>5. puller' \in [Engines -> S!Work] /\ writer' \in [Writers -> S!Work]
    BY <1>1, <1>2, <1>3 DEF S!TypeOK
  <2>6. QED
    BY <1>1, <1>2, <2>1, <2>2, <2>3, <2>4, <2>5 DEF S!TypeOK
<1>7. ~disturbed' => Clean'
  <2> SUFFICES ASSUME ~disturbed' PROVE Clean'
    OBVIOUS
  <2>1. Clean /\ ~S!Mid(n)
    BY <1>1 DEF RecordsInv
  <2>2. \A w \in Writers : TrueJob(writer[w])'
    BY <1>1, <1>3, <1>5, <2>1 DEF Clean, TrueJob
  <2>3. \A m \in Engines : TrueJob(puller[m])'
    BY <1>1, <1>3, <1>5, <2>1 DEF Clean, TrueJob
  <2>4. ASSUME NEW m \in Engines PROVE S!Mid(m)' \/ time'[m] = file'[m]
    <3>1. CASE S!Mid(m)
      \* The restarted node's own pull wrote to no other node's file.
      <4>1. m # n
        BY <2>1, <3>1
      <4>2. CASE \E w \in Writers : writer[w].step = "stamp" /\ writer[w].node = m
        <5>1. PICK w \in Writers : writer[w].step = "stamp" /\ writer[w].node = m
          BY <4>2
        <5>2. writer'[w] = writer[w]
          BY <1>1, <4>1, <5>1
        <5>3. QED
          BY <5>1, <5>2, MidNext
      <4>3. CASE \E e \in Engines : puller[e].step = "stamp" /\ puller[e].node = m
        <5>1. PICK e \in Engines : puller[e].step = "stamp" /\ puller[e].node = m
          BY <4>3
        <5>2. e # n
          BY <4>1, <5>1 DEF RecordsInv
        <5>3. puller'[e] = puller[e]
          BY <1>1, <1>2, <5>2 DEF S!TypeOK
        <5>4. QED
          BY <5>1, <5>3, MidNext
      <4>4. QED
        BY <3>1, <4>2, <4>3, MidIs
    <3>2. CASE ~S!Mid(m)
      BY <1>1, <2>1, <3>2 DEF Clean
    <3>3. QED
      BY <3>1, <3>2
  <2>5. QED
    BY <1>1, <1>4, <1>5, <2>1, <2>2, <2>3, <2>4 DEF Clean
<1>8. RecordsInv'
  <2>1. /\ \A w \in Writers : GoodJob(writer'[w], clock)
        /\ \A m \in Engines : GoodJob(puller'[m], clock)
    BY <1>3, <1>5 DEF RecordsInv
  <2>2. \A m \in Engines : puller'[m].step # "idle" => puller'[m].node = m
    BY <1>3, <1>5 DEF RecordsInv
  <2>3. /\ \A m \in Engines : pull'[m].step = "read" => pull'[m].from \in Engines
        /\ \A m \in Engines : pull'[m].ver =< clock
    BY <1>4, <1>5 DEF RecordsInv
  <2>4. QED
    BY <1>1, <1>6, <1>7, <2>1, <2>2, <2>3 DEF RecordsInv
<1>9. KeepsFiles
  BY <1>1, <1>2 DEF KeepsFiles, S!TypeOK, S!Times
<1>10. sFaults' # sFaults
  BY <1>1, <1>2 DEF S!TypeOK
<1>11. QED
  BY <1>8, <1>9, <1>10 DEF Keeps

\* A pull's request, its answer and its end.
LEMMA PullStep ==
    ASSUME RecordsInv, S!CertSyncAssumption, NEW n \in Engines,
           S!PullCerts(n) \/ S!HandlePlists(n) \/ S!Pulled(n)
    PROVE  RecordsInv' /\ Keeps
<1>1. UNCHANGED <<file, time, clock, mark, sRole, follows, looked, pushes, writer>>
  BY DEF S!PullCerts, S!HandlePlists, S!Pulled, S!clusterVars, S!writers, S!disk
<1>2. S!TypeOK /\ pull[n] \in S!Pull /\ 0 \in S!Times /\ clock \in S!Times
  BY DEF RecordsInv, S!TypeOK, S!Times, S!CertSyncAssumption
<1>3. \A push \in pushes' : push.ver =< clock /\ (~disturbed => push.ver = push.time)
  BY <1>1 DEF RecordsInv, Clean
<1>4. CASE S!PullCerts(n)
  <2> DEFINE next == [step |-> "read", from |-> follows[n], ver |-> file[follows[n]], time |-> 0]
  <2>1. UNCHANGED <<synced, puller, disturbed>>
    BY <1>4 DEF S!PullCerts, S!writers, S!disk
  <2>2. follows[n] \in Engines /\ sFaults' \in 0 .. MaxLosses
    BY <1>2, <1>4 DEF S!PullCerts, S!TypeOK, S!CertSyncAssumption
  <2>3. next \in S!Pull /\ next.step = "read" /\ next.from \in Engines /\ next.ver =< clock
    BY <1>2, <2>2 DEF S!Pull, S!TypeOK, RecordsInv
  <2>4. pull' = pull \/ pull' = [pull EXCEPT ![n] = next]
    BY <1>4 DEF S!PullCerts, S!Set
  <2> HIDE DEF next
  <2>5. pull' \in [Engines -> S!Pull] /\ \A m \in Engines : pull'[m] = pull[m] \/ pull'[m] = next
    BY <1>2, <2>3, <2>4 DEF S!TypeOK
  <2>6. S!TypeOK'
    BY <1>1, <1>2, <2>1, <2>2, <2>5 DEF S!TypeOK
  <2>7. /\ \A m \in Engines : pull'[m].step = "read" => pull'[m].from \in Engines
        /\ \A m \in Engines : pull'[m].ver =< clock
        /\ ~disturbed => \A m \in Engines : pull'[m].step = "got" => pull'[m].ver = pull'[m].time
    BY <2>3, <2>5 DEF RecordsInv, Clean
  <2>8. QED
    BY <1>1, <1>3, <2>1, <2>6, <2>7, StillStep
<1>5. CASE S!HandlePlists(n)
  <2> DEFINE served == pull[n].from
             next == [pull[n] EXCEPT !.step = "got", !.time = time[served]]
  <2>1. /\ UNCHANGED <<synced, puller, sFaults>> /\ pull[n].step = "read"
        /\ pull' = [pull EXCEPT ![n] = next]
        /\ disturbed' = (disturbed \/ S!Mid(served) \/ file[served] # pull[n].ver)
    BY <1>5 DEF S!HandlePlists, S!Set, S!writers
  <2>2. served \in Engines /\ time[served] \in S!Times
    BY <1>2, <2>1 DEF RecordsInv, S!TypeOK
  <2>3. /\ next \in S!Pull /\ next.step = "got" /\ next.ver = pull[n].ver
        /\ next.time = time[served]
    BY <1>2, <2>2 DEF S!Pull
  <2>4. ~disturbed' => next.ver = next.time
    BY <2>1, <2>2, <2>3 DEF RecordsInv, Clean
  <2>5. disturbed' \in BOOLEAN /\ (disturbed => disturbed')
    BY <1>2, <2>1 DEF S!TypeOK
  <2> HIDE DEF next
  <2>6. pull' \in [Engines -> S!Pull] /\ \A m \in Engines : pull'[m] = pull[m] \/ pull'[m] = next
    BY <1>2, <2>1, <2>3 DEF S!TypeOK
  <2>7. S!TypeOK'
    BY <1>1, <1>2, <2>1, <2>5, <2>6 DEF S!TypeOK
  <2>8. /\ \A m \in Engines : pull'[m].step = "read" => pull'[m].from \in Engines
        /\ \A m \in Engines : pull'[m].ver =< clock
        /\ ~disturbed' => \A m \in Engines : pull'[m].step = "got" => pull'[m].ver = pull'[m].time
    BY <2>3, <2>4, <2>5, <2>6 DEF RecordsInv, Clean
  <2>9. QED
    BY <1>1, <1>3, <2>1, <2>5, <2>7, <2>8, StillStep
<1>6. CASE S!Pulled(n)
  <2> DEFINE job == S!Job(n, pull[n].ver, pull[n].time)
             over == [S!NoPull EXCEPT !.step = "over"]
  <2>1. sFaults' = sFaults /\ disturbed' = disturbed /\ synced' \in [Engines -> BOOLEAN]
        /\ puller[n].step = "idle"
    BY <1>2, <1>6 DEF S!Pulled, S!TypeOK, S!Set, S!disk
  <2>2. /\ over \in S!Pull /\ over.step = "over" /\ over.ver = 0
        /\ S!NoPull \in S!Pull /\ S!NoPull.step = "none" /\ S!NoPull.ver = 0 /\ 0 =< clock
    BY <1>2 DEF S!NoPull, S!Pull, S!Times
  <2>3. \/ pull' = [pull EXCEPT ![n] = over] \/ pull' = [pull EXCEPT ![n] = S!NoPull]
    BY <1>6 DEF S!Pulled, S!Set
  <2>4. \/ puller' = puller
        \/ puller' = [puller EXCEPT ![n] = job] /\ pull[n].step = "got"
    BY <1>6 DEF S!Pulled, S!Set
  <2>5. /\ GoodJob(job, clock) /\ job \in S!Work /\ job.node = n /\ job.step = "check"
        /\ ~disturbed /\ pull[n].step = "got" => job.ver = job.time
    BY <1>2 DEF RecordsInv, Clean, GoodJob, S!Job, S!Work, S!Pull
  <2> HIDE DEF job, over
  <2>6. /\ pull' \in [Engines -> S!Pull]
        /\ \A m \in Engines : pull'[m] = pull[m] \/ pull'[m] = over \/ pull'[m] = S!NoPull
    BY <1>2, <2>2, <2>3 DEF S!TypeOK
  <2>7. /\ puller' \in [Engines -> S!Work]
        /\ \A m \in Engines : \/ puller'[m] = puller[m]
                              \/ puller'[m] = job /\ m = n /\ pull[n].step = "got"
    BY <1>2, <2>4, <2>5 DEF S!TypeOK
  <2>8. S!TypeOK'
    BY <1>1, <1>2, <2>1, <2>6, <2>7 DEF S!TypeOK
  <2>9. ~disturbed' => Clean'
    <3> SUFFICES ASSUME ~disturbed' PROVE Clean'
      OBVIOUS
    <3>1. Clean
      BY <2>1 DEF RecordsInv
    <3>2. \A m \in Engines : TrueJob(puller[m])'
      BY <1>1, <2>1, <2>5, <2>7, <3>1 DEF Clean, TrueJob
    <3>3. \A w \in Writers : TrueJob(writer[w])'
      BY <1>1, <3>1 DEF Clean, TrueJob
    <3>4. \A m \in Engines : S!Mid(m) => S!Mid(m)'
      BY <1>1, <2>1, <2>7, MidIs, MidNext
    <3>5. \A m \in Engines : S!Mid(m)' \/ time'[m] = file'[m]
      BY <1>1, <3>1, <3>4 DEF Clean
    <3>6. \A m \in Engines : pull'[m].step = "got" => pull'[m].ver = pull'[m].time
      BY <2>2, <2>6, <3>1 DEF Clean
    <3>7. QED
      BY <1>1, <3>1, <3>2, <3>3, <3>5, <3>6 DEF Clean
  <2>10. RecordsInv'
    <3>1. \A m \in Engines : GoodJob(puller'[m], clock)
      BY <2>5, <2>7 DEF RecordsInv
    <3>2. \A m \in Engines : puller'[m].step # "idle" => puller'[m].node = m
      BY <2>5, <2>7 DEF RecordsInv
    <3>3. \A m \in Engines : pull'[m].ver =< clock
                          /\ (pull'[m].step = "read" => pull'[m].from \in Engines)
      BY <2>2, <2>6 DEF RecordsInv
    <3>4. QED
      BY <1>1, <1>3, <2>8, <2>9, <3>1, <3>2, <3>3 DEF RecordsInv
  <2>11. QED
    BY <1>1, <2>1, <2>4, <2>7, <2>10, NoLoss
<1>7. QED
  BY <1>4, <1>5, <1>6

\* A push: looked for, sent, lost, or taken up by a writer.
LEMMA PushStep ==
    ASSUME RecordsInv, S!CertSyncAssumption,
           \/ \E n \in Engines : S!LookChanged(n) \/ S!PushChanged(n)
           \/ \E push \in pushes : S!LosePush(push) \/ \E w \in Writers : S!ServePush(w, push)
    PROVE  RecordsInv' /\ Keeps
<1>1. UNCHANGED <<file, time, clock, synced, sRole, follows, pull, puller>>
  BY DEF S!LookChanged, S!PushChanged, S!LosePush, S!ServePush, S!clusterVars, S!writers, S!disk
<1>2. S!TypeOK /\ 0 \in S!Times
  BY DEF RecordsInv, S!TypeOK, S!Times, S!CertSyncAssumption
<1>3. /\ \A n \in Engines : pull'[n].step = "read" => pull'[n].from \in Engines
      /\ \A n \in Engines : pull'[n].ver =< clock
      /\ ~disturbed => \A n \in Engines : pull'[n].step = "got" => pull'[n].ver = pull'[n].time
      /\ \A push \in pushes : push.ver =< clock
      /\ ~disturbed => \A push \in pushes : push.ver = push.time
  BY <1>1 DEF RecordsInv, Clean
<1>4. ASSUME NEW n \in Engines, S!LookChanged(n) PROVE RecordsInv' /\ Keeps
  <2>1. /\ UNCHANGED <<writer, sFaults, disturbed, pushes, mark>>
        /\ looked' = [looked EXCEPT ![n] = time[n]]
    BY <1>4 DEF S!LookChanged, S!Set, S!writers, S!disk
  <2>2. looked' \in [Engines -> S!Times]
    BY <1>2, <2>1 DEF S!TypeOK
  <2>3. S!TypeOK'
    BY <1>1, <1>2, <2>1, <2>2 DEF S!TypeOK
  <2>4. QED
    BY <1>1, <1>3, <2>1, <2>3, StillStep
<1>5. ASSUME NEW n \in Engines, S!PushChanged(n) PROVE RecordsInv' /\ Keeps
  <2>1. /\ UNCHANGED <<writer, sFaults>>
        /\ looked' = [looked EXCEPT ![n] = 0] /\ mark' = [mark EXCEPT ![n] = looked[n]]
        /\ pushes' = pushes \union
              {[to |-> p, ver |-> file[n], time |-> looked[n]] : p \in Engines \ {n}}
        /\ disturbed' = (disturbed \/ S!Mid(n) \/ time[n] # looked[n])
    BY <1>5 DEF S!PushChanged, S!Set, S!writers
  <2>2. file[n] \in S!Times /\ looked[n] \in S!Times /\ file[n] =< clock
    BY <1>2 DEF RecordsInv, S!TypeOK
  <2>3. pushes' \subseteq [to : Engines, ver : S!Times, time : S!Times]
    BY <1>2, <2>1, <2>2 DEF S!TypeOK
  <2>4. ~disturbed' => file[n] = looked[n]
    BY <2>1 DEF RecordsInv, Clean
  <2>5. \A push \in pushes' : push \in pushes \/ (push.ver = file[n] /\ push.time = looked[n])
    BY <2>1
  <2>6. /\ mark' \in [Engines -> S!Times] /\ looked' \in [Engines -> S!Times]
        /\ disturbed' \in BOOLEAN /\ (disturbed => disturbed')
    BY <1>2, <2>1, <2>2 DEF S!TypeOK
  <2>7. S!TypeOK'
    BY <1>1, <1>2, <2>1, <2>3, <2>6 DEF S!TypeOK
  <2>8. /\ \A push \in pushes' : push.ver =< clock
        /\ ~disturbed' => \A push \in pushes' : push.ver = push.time
    BY <1>3, <2>2, <2>4, <2>5, <2>6
  <2>9. QED
    BY <1>1, <1>3, <2>1, <2>6, <2>7, <2>8, StillStep
<1>6. ASSUME NEW push \in pushes, S!LosePush(push) PROVE RecordsInv' /\ Keeps
  <2>1. UNCHANGED <<mark, looked, writer, disturbed>> /\ pushes' \subseteq pushes
        /\ sFaults' \in 0 .. MaxLosses
    BY <1>2, <1>6 DEF S!LosePush, S!TypeOK, S!writers, S!disk, S!CertSyncAssumption
  <2>2. S!TypeOK'
    BY <1>1, <1>2, <2>1 DEF S!TypeOK
  <2>3. QED
    BY <1>1, <1>3, <2>1, <2>2, StillStep
<1>7. ASSUME NEW push \in pushes, NEW w \in Writers, S!ServePush(w, push)
      PROVE  RecordsInv' /\ Keeps
  <2> DEFINE job == S!Job(push.to, push.ver, push.time)
  <2>1. UNCHANGED <<mark, looked, sFaults, disturbed>> /\ pushes' \subseteq pushes
        /\ writer[w].step = "idle" /\ writer' = [writer EXCEPT ![w] = job]
    BY <1>7 DEF S!ServePush, S!Set, S!disk
  <2>2. /\ job \in S!Work /\ GoodJob(job, clock) /\ job.step = "check"
        /\ ~disturbed => job.ver = job.time
    <3>1. push.to \in Engines /\ push.ver \in S!Times /\ push.time \in S!Times
      BY <1>2 DEF S!TypeOK
    <3>2. QED
      BY <1>2, <1>3, <3>1 DEF GoodJob, S!Job, S!Work
  <2> HIDE DEF job
  <2>3. /\ writer' \in [Writers -> S!Work] /\ writer'[w] = job
        /\ \A v \in Writers \ {w} : writer'[v] = writer[v]
    BY <1>2, <2>1, <2>2 DEF S!TypeOK
  <2>4. S!TypeOK'
    BY <1>1, <1>2, <2>1, <2>3 DEF S!TypeOK
  <2>5. ~disturbed' => Clean'
    <3> SUFFICES ASSUME ~disturbed' PROVE Clean'
      OBVIOUS
    <3>1. Clean
      BY <2>1 DEF RecordsInv
    <3>2. \A v \in Writers : TrueJob(writer[v])'
      BY <1>1, <2>1, <2>2, <2>3, <3>1 DEF Clean, TrueJob
    <3>3. \A m \in Engines : TrueJob(puller[m])'
      BY <1>1, <3>1 DEF Clean, TrueJob
    <3>4. \A m \in Engines : S!Mid(m) => S!Mid(m)'
      BY <1>1, <2>1, <2>3, MidIs, MidNext
    <3>5. \A m \in Engines : S!Mid(m)' \/ time'[m] = file'[m]
      BY <1>1, <3>1, <3>4 DEF Clean
    <3>6. QED
      BY <1>1, <2>1, <3>1, <3>2, <3>3, <3>5 DEF Clean
  <2>6. \A v \in Writers : GoodJob(writer'[v], clock)
    BY <2>2, <2>3 DEF RecordsInv
  <2>7. RecordsInv'
    BY <1>1, <1>3, <2>1, <2>4, <2>5, <2>6 DEF RecordsInv
  <2>8. QED
    BY <1>1, <2>1, <2>3, <2>7, NoLoss
<1>8. QED
  BY <1>4, <1>5, <1>6, <1>7

LEMMA RecordsStep ==
    S!CertSyncAssumption /\ RecordsInv /\ [S!Next]_(S!vars)
      => RecordsInv' /\ (Keeps \/ UNCHANGED S!vars)
<1> SUFFICES ASSUME S!CertSyncAssumption, RecordsInv, [S!Next]_(S!vars)
             PROVE  RecordsInv' /\ (Keeps \/ UNCHANGED S!vars)
  OBVIOUS
<1>1. CASE UNCHANGED S!vars
  <2>1. UNCHANGED <<file, time, clock, disturbed, mark, synced, sRole, follows, looked, pull,
                    pushes, writer, puller, sFaults>>
    BY <1>1 DEF S!vars, S!disk, S!clusterVars, S!writers
  <2>2. S!TypeOK'
    BY <2>1 DEF RecordsInv, S!TypeOK
  <2>3. RecordsInv'
    BY <2>1, <2>2, StillStep DEF RecordsInv, Clean
  <2>4. QED
    BY <1>1, <2>3
<1>2. CASE S!Next
  BY <1>2, MovesStep, EnrollStep, RestartStep, PullStep, PushStep, WriterStep, PullerStep
  DEF S!Next, S!Beat
<1>3. QED
  BY <1>1, <1>2

LEMMA PeersRunRecords == PeersSpec => S!Init /\ [][S!Next]_(S!vars)
<1>1. PeersInit => S!Init
  BY DEF PeersInit
<1>2. [PeersNext]_<<part, vars, sVars, hVars>> => [S!Next]_(S!vars)
  BY DEF PeersNext, sVars, S!vars, S!disk, S!clusterVars, S!writers
<1>3. QED
  BY <1>1, <1>2, PTL DEF PeersSpec

\* A record only goes back to an older version when its file changed between a
\* writer's look at it and its write, and a newer record that is offered is not
\* dropped (writeLocalPlist, cluster_certsync.go:178), until a write is disturbed
\* before its file has its time (cluster_certsync.go:194-204): for any engines and
\* writers, whatever is enrolled, pushed, pulled, lost or restarted, and however
\* often the master changes.
THEOREM NewerIsAlwaysKept == PeersSpec => NewerIsKept
<1>1. S!CertSyncAssumption
  BY PeersAssumption
<1>2. S!CertSyncAssumption /\ S!Init => RecordsInv
  BY RecordsInit
<1>3. S!CertSyncAssumption /\ RecordsInv /\ [S!Next]_(S!vars)
        => RecordsInv' /\ (Keeps \/ UNCHANGED S!vars)
  BY RecordsStep
<1>4. Keeps \/ UNCHANGED S!vars =>
        [\/ disturbed'
         \/ /\ \A n \in Engines : file'[n] < file[n] => S!Overtaken(n)
            /\ sFaults' = sFaults =>
                  /\ \A w \in Writers : ~S!Dropped(writer[w], writer'[w])
                  /\ \A n \in Engines : ~S!Dropped(puller[n], puller'[n])]_(S!vars)
  BY DEF Keeps, KeepsFiles, KeepsJobs
<1>5. QED
  BY <1>1, <1>2, <1>3, <1>4, PeersRunRecords, PTL DEF NewerIsKept, S!NewerIsKept

-----------------------------------------------------------------------------
(* The feed of events.                                                     *)

\* The events of a connection's queue are those of the log that follow the
\* first it was not given; atEnd: up to the last one.  place[i] counts the events
\* of the log that are the client's once it has read i messages of the queue.
Tracks(queue, log, first, atEnd) ==
    \E place \in [0 .. Len(queue) -> 0 .. Len(log)] :
        /\ place[0] = first
        /\ \A i \in 1 .. Len(queue) :
              IF queue[i].kind = "status"
              THEN place[i] = place[i - 1] + 1 /\ queue[i].ver = log[place[i]]
              ELSE place[i] = place[i - 1]
        /\ atEnd => place[Len(queue)] = Len(log)

\* Which steps a connection has taken.
StageInv(c) ==
    /\ jobs[c] =< asked[c]
    /\ reader[c] \in {"idle", "register"} => asked[c] = 0 /\ from[c] = -1 /\ send[c] = <<>>
    /\ reader[c] \in {"idle", "register", "status", "greet"} => pump[c] = "none"

\* What a connection still written to was given, and will be.
GivenInv(c) ==
    /\ from[c] = -1 => /\ c \notin clients /\ got[c] = <<>>
                       /\ \A i \in 1 .. Len(send[c]) : send[c][i].kind # "status"
    /\ from[c] # -1 /\ pump[c] # "done" =>
          Tracks(send[c], fanned, from[c] + Len(got[c]), c \in clients)

\* A status event has a version.
Queued == {msg \in H!Message : msg.kind = "status" => msg.ver \in H!Versions}

FeedInv ==
    /\ H!TypeOK
    /\ broadcastC \in Seq(Queued) /\ send \in [Conns -> Seq(Queued)]
    /\ \A c \in Conns : StageInv(c) /\ GivenInv(c)

\* How a queue that tracks a log goes on doing so.
LEMMA TracksNothing == ASSUME NEW V, NEW log \in Seq(V) PROVE Tracks(<<>>, log, Len(log), TRUE)
<1>1. Len(log) \in Nat /\ Len(<<>>) = 0 /\ 0 .. 0 = {0} /\ 1 .. 0 = {}
  OBVIOUS
<1> DEFINE place == [i \in 0 .. 0 |-> Len(log)]
<1>2. place \in [0 .. 0 -> 0 .. Len(log)] /\ place[0] = Len(log)
  BY <1>1
<1> HIDE DEF place
<1>3. QED
  BY <1>1, <1>2 DEF Tracks

LEMMA TracksLess ==
    ASSUME NEW queue, NEW log, NEW first, NEW atEnd \in BOOLEAN, NEW less \in BOOLEAN,
           Tracks(queue, log, first, atEnd), less => atEnd
    PROVE  Tracks(queue, log, first, less)
BY DEF Tracks

\* Something else than an event is queued.
LEMMA TracksOther ==
    ASSUME NEW M, NEW V, NEW queue \in Seq(M), NEW log \in Seq(V), NEW first,
           NEW atEnd \in BOOLEAN, Tracks(queue, log, first, atEnd),
           NEW msg \in M, msg.kind # "status"
    PROVE  Tracks(Append(queue, msg), log, first, atEnd)
<1> DEFINE n == Len(queue)
           longer == Append(queue, msg)
<1>1. PICK place \in [0 .. n -> 0 .. Len(log)] :
        /\ place[0] = first
        /\ \A i \in 1 .. n :
              IF queue[i].kind = "status"
              THEN place[i] = place[i - 1] + 1 /\ queue[i].ver = log[place[i]]
              ELSE place[i] = place[i - 1]
        /\ atEnd => place[n] = Len(log)
  BY DEF Tracks
<1> DEFINE further == [i \in 0 .. n + 1 |-> IF i = n + 1 THEN place[n] ELSE place[i]]
<1>2. n \in Nat /\ Len(log) \in Nat /\ Len(longer) = n + 1 /\ longer[n + 1] = msg
      /\ \A i \in 1 .. n : longer[i] = queue[i]
  OBVIOUS
<1> HIDE DEF n, longer
<1>3. further \in [0 .. n + 1 -> 0 .. Len(log)]
  BY <1>1, <1>2
<1>4. further[0] = first /\ (atEnd => further[n + 1] = Len(log))
  BY <1>1, <1>2
<1>5. ASSUME NEW i \in 1 .. n + 1
      PROVE  IF longer[i].kind = "status"
             THEN further[i] = further[i - 1] + 1 /\ longer[i].ver = log[further[i]]
             ELSE further[i] = further[i - 1]
  <2>1. CASE i = n + 1
    BY <1>2, <2>1
  <2>2. CASE i \in 1 .. n
    <3>1. further[i] = place[i] /\ further[i - 1] = place[i - 1]
      BY <1>2, <2>2
    <3>2. QED
      BY <1>1, <1>2, <2>2, <3>1
  <2>3. QED
    BY <1>2, <2>1, <2>2
<1> HIDE DEF further
<1>6. QED
  BY <1>2, <1>3, <1>4, <1>5 DEF Tracks, longer

\* The log grows, and the queue by the same event.
LEMMA TracksEvent ==
    ASSUME NEW M, NEW V, NEW queue \in Seq(M), NEW log \in Seq(V), NEW first,
           Tracks(queue, log, first, TRUE),
           NEW msg \in M, msg.kind = "status", msg.ver \in V
    PROVE  Tracks(Append(queue, msg), Append(log, msg.ver), first, TRUE)
<1> DEFINE n == Len(queue)
           longer == Append(queue, msg)
           grown == Append(log, msg.ver)
<1>1. PICK place \in [0 .. n -> 0 .. Len(log)] :
        /\ place[0] = first
        /\ \A i \in 1 .. n :
              IF queue[i].kind = "status"
              THEN place[i] = place[i - 1] + 1 /\ queue[i].ver = log[place[i]]
              ELSE place[i] = place[i - 1]
        /\ place[n] = Len(log)
  BY DEF Tracks
<1> DEFINE further == [i \in 0 .. n + 1 |-> IF i = n + 1 THEN Len(log) + 1 ELSE place[i]]
<1>2. /\ n \in Nat /\ Len(log) \in Nat /\ Len(longer) = n + 1 /\ longer[n + 1] = msg
      /\ \A i \in 1 .. n : longer[i] = queue[i]
      /\ Len(grown) = Len(log) + 1 /\ grown[Len(log) + 1] = msg.ver
      /\ \A i \in 1 .. Len(log) : grown[i] = log[i]
  OBVIOUS
<1> HIDE DEF n, longer, grown
<1>3. further \in [0 .. n + 1 -> 0 .. Len(grown)]
  BY <1>1, <1>2
<1>4. further[0] = first /\ further[n + 1] = Len(grown)
  BY <1>1, <1>2
<1>5. ASSUME NEW i \in 1 .. n + 1
      PROVE  IF longer[i].kind = "status"
             THEN further[i] = further[i - 1] + 1 /\ longer[i].ver = grown[further[i]]
             ELSE further[i] = further[i - 1]
  <2>1. CASE i = n + 1
    BY <1>1, <1>2, <2>1
  <2>2. CASE i \in 1 .. n
    <3>1. further[i] = place[i] /\ further[i - 1] = place[i - 1]
          /\ place[i] \in 0 .. Len(log) /\ place[i - 1] \in 0 .. Len(log)
      BY <1>1, <1>2, <2>2
    <3>2. CASE queue[i].kind = "status"
      <4>1. place[i] = place[i - 1] + 1 /\ queue[i].ver = log[place[i]]
        BY <1>1, <2>2, <3>2
      <4>2. place[i] \in 1 .. Len(log)
        BY <1>2, <3>1, <4>1
      <4>3. QED
        BY <1>2, <2>2, <3>1, <3>2, <4>1, <4>2
    <3>3. CASE queue[i].kind # "status"
      BY <1>1, <1>2, <2>2, <3>1, <3>3
    <3>4. QED
      BY <3>2, <3>3
  <2>3. QED
    BY <1>2, <2>1, <2>2
<1> HIDE DEF further
<1>6. QED
  BY <1>2, <1>3, <1>4, <1>5 DEF Tracks, longer, grown

\* The log grows without the queue.
LEMMA TracksOld ==
    ASSUME NEW V, NEW queue, Len(queue) \in Nat, NEW log \in Seq(V), NEW first,
           Tracks(queue, log, first, FALSE), NEW v \in V
    PROVE  Tracks(queue, Append(log, v), first, FALSE)
<1> DEFINE n == Len(queue)
           grown == Append(log, v)
<1>1. PICK place \in [0 .. n -> 0 .. Len(log)] :
        /\ place[0] = first
        /\ \A i \in 1 .. n :
              IF queue[i].kind = "status"
              THEN place[i] = place[i - 1] + 1 /\ queue[i].ver = log[place[i]]
              ELSE place[i] = place[i - 1]
  BY DEF Tracks
<1>2. /\ Len(log) \in Nat /\ Len(grown) = Len(log) + 1
      /\ \A i \in 1 .. Len(log) : grown[i] = log[i]
  OBVIOUS
<1> HIDE DEF n, grown
<1>3. place \in [0 .. n -> 0 .. Len(grown)] /\ n \in Nat
  BY <1>1, <1>2 DEF n
<1>4. ASSUME NEW i \in 1 .. n
      PROVE  IF queue[i].kind = "status"
             THEN place[i] = place[i - 1] + 1 /\ queue[i].ver = grown[place[i]]
             ELSE place[i] = place[i - 1]
  <2>1. place[i] \in 0 .. Len(log) /\ place[i - 1] \in 0 .. Len(log)
    BY <1>1, <1>3
  <2>2. QED
    BY <1>1, <1>2, <2>1
<1>5. QED
  BY <1>1, <1>3, <1>4 DEF Tracks, n, grown

\* The head of the queue is taken: an event is the next of the log.
LEMMA TracksTail ==
    ASSUME NEW M, NEW V, NEW queue \in Seq(M), queue # <<>>, NEW log \in Seq(V),
           NEW first, NEW atEnd \in BOOLEAN, Tracks(queue, log, first, atEnd)
    PROVE  /\ first \in 0 .. Len(log)
           /\ Head(queue).kind # "status" => Tracks(Tail(queue), log, first, atEnd)
           /\ Head(queue).kind = "status" =>
                /\ first < Len(log) /\ Head(queue).ver = log[first + 1]
                /\ Tracks(Tail(queue), log, first + 1, atEnd)
<1> DEFINE n == Len(queue)
           rest == Tail(queue)
<1>1. PICK place \in [0 .. n -> 0 .. Len(log)] :
        /\ place[0] = first
        /\ \A i \in 1 .. n :
              IF queue[i].kind = "status"
              THEN place[i] = place[i - 1] + 1 /\ queue[i].ver = log[place[i]]
              ELSE place[i] = place[i - 1]
        /\ atEnd => place[n] = Len(log)
  BY DEF Tracks
<1>2. /\ n \in Nat \ {0} /\ Len(log) \in Nat /\ Len(rest) = n - 1 /\ Head(queue) = queue[1]
      /\ \A i \in 1 .. n - 1 : rest[i] = queue[i + 1]
  OBVIOUS
<1> HIDE DEF n, rest
<1> DEFINE shifted == [i \in 0 .. n - 1 |-> place[i + 1]]
<1>3. /\ 1 \in 1 .. n /\ 0 \in 0 .. n /\ 1 \in 0 .. n
      /\ place[0] \in 0 .. Len(log) /\ place[1] \in 0 .. Len(log)
  BY <1>1, <1>2
<1>4. IF queue[1].kind = "status"
      THEN place[1] = place[1 - 1] + 1 /\ queue[1].ver = log[place[1]]
      ELSE place[1] = place[1 - 1]
  BY <1>1, <1>3
<1>5. Tracks(rest, log, place[1], atEnd)
  <2>1. shifted \in [0 .. Len(rest) -> 0 .. Len(log)]
    BY <1>1, <1>2
  <2>2. shifted[0] = place[1] /\ (atEnd => shifted[Len(rest)] = Len(log))
    BY <1>1, <1>2
  <2>3. ASSUME NEW i \in 1 .. Len(rest)
        PROVE  IF rest[i].kind = "status"
               THEN shifted[i] = shifted[i - 1] + 1 /\ rest[i].ver = log[shifted[i]]
               ELSE shifted[i] = shifted[i - 1]
    <3>1. shifted[i] = place[i + 1] /\ shifted[i - 1] = place[i] /\ rest[i] = queue[i + 1]
          /\ i + 1 \in 1 .. n /\ (i + 1) - 1 = i
      BY <1>2
    <3> HIDE DEF shifted
    <3>2. QED
      BY <1>1, <3>1
  <2> HIDE DEF shifted
  <2>4. QED
    BY <2>1, <2>2, <2>3 DEF Tracks
<1>6. QED
  BY <1>1, <1>2, <1>3, <1>4, <1>5 DEF rest

LEMMA FeedInit == H!HubAssumption /\ H!Init => FeedInv
<1> SUFFICES ASSUME H!HubAssumption, H!Init PROVE FeedInv
  OBVIOUS
<1>1. /\ SendCap \in Nat /\ BroadcastCap \in Nat /\ Burst \in Nat /\ MaxChanges \in Nat
      /\ MaxRequests \in Nat
  BY DEF H!HubAssumption
<1>2. H!TypeOK
  <2>1. /\ clients \subseteq Conns /\ hub \in {"running", "stopping", "done"}
        /\ crashed \in BOOLEAN /\ closed \in [Conns -> BOOLEAN]
        /\ conn \in [Conns -> {"none", "open", "closed"}] /\ peer \in [Conns -> BOOLEAN]
        /\ reader \in [Conns -> {"idle", "register", "status", "greet", "read", "reply",
                                 "limited", "unregister", "done"}]
        /\ pump \in [Conns -> {"none", "running", "done"}]
    BY DEF H!Init
  <2>2. /\ tokens \in [Conns -> 0 .. Burst] /\ asked \in [Conns -> 0 .. MaxRequests]
        /\ jobs \in [Conns -> 0 .. MaxRequests] /\ version \in 0 .. MaxChanges
        /\ snapshot \in [Emitters -> 0 .. MaxChanges] /\ greeting \in [Conns -> 0 .. MaxChanges]
        /\ from \in [Conns -> Int]
    BY <1>1 DEF H!Init
  <2>3. /\ broadcastC \in Seq(H!Message) /\ Len(broadcastC) <= BroadcastCap
        /\ fanned \in Seq(H!Versions)
    BY <1>1 DEF H!Init
  <2>4. /\ send \in [Conns -> Seq(H!Message)] /\ \A c \in Conns : Len(send[c]) <= SendCap
        /\ got \in [Conns -> Seq(H!Versions)]
    BY <1>1 DEF H!Init
  <2>5. QED
    BY <2>1, <2>2, <2>3, <2>4 DEF H!TypeOK
<1>3. broadcastC \in Seq(Queued) /\ send \in [Conns -> Seq(Queued)]
  BY DEF H!Init
<1>4. ASSUME NEW c \in Conns PROVE StageInv(c) /\ GivenInv(c)
  BY <1>4 DEF H!Init, StageInv, GivenInv
<1>5. QED
  BY <1>2, <1>3, <1>4 DEF FeedInv

LEMMA GivenStays ==
    ASSUME NEW c \in Conns, GivenInv(c), fanned' = fanned, c \in clients' => c \in clients,
           send'[c] = send[c], from'[c] = from[c], got'[c] = got[c],
           pump[c] = "done" => pump'[c] = "done"
    PROVE  GivenInv(c)'
<1>1. from[c] = -1 =>
         c \notin clients' /\ got'[c] = <<>>
           /\ \A i \in 1 .. Len(send'[c]) : send'[c][i].kind # "status"
  BY DEF GivenInv
<1>2. ASSUME from'[c] # -1, pump'[c] # "done"
      PROVE  Tracks(send'[c], fanned', from'[c] + Len(got'[c]), c \in clients')
  <2>1. Tracks(send[c], fanned, from[c] + Len(got[c]), c \in clients)
    BY <1>2 DEF GivenInv
  <2>2. QED
    BY <2>1 DEF Tracks
<1>3. QED
  BY <1>1, <1>2 DEF GivenInv

\* A step of one connection.
LEMMA OneConnection ==
    ASSUME FeedInv, NEW c \in Conns, fanned' = fanned, clients' \subseteq clients \union {c},
           \A d \in Conns \ {c} :
              /\ send'[d] = send[d] /\ from'[d] = from[d] /\ got'[d] = got[d]
              /\ pump'[d] = pump[d] /\ reader'[d] = reader[d]
              /\ asked'[d] = asked[d] /\ jobs'[d] = jobs[d],
           StageInv(c)', GivenInv(c)', H!TypeOK',
           broadcastC' \in Seq(Queued), send' \in [Conns -> Seq(Queued)]
    PROVE  FeedInv'
<1>1. ASSUME NEW d \in Conns PROVE StageInv(d)' /\ GivenInv(d)'
  <2>1. CASE d = c
    BY <2>1
  <2>2. CASE d # c
    <3>1. StageInv(d) /\ GivenInv(d) /\ (d \in clients' => d \in clients)
      BY <2>2 DEF FeedInv
    <3>2. StageInv(d)'
      BY <2>2, <3>1 DEF StageInv
    <3>3. GivenInv(d)'
      BY <2>2, <3>1, GivenStays
    <3>4. QED
      BY <3>2, <3>3
  <2>3. QED
    BY <2>1, <2>2
<1>2. QED
  BY <1>1 DEF FeedInv

\* The steps that are about no connection's queue or place.
LEMMA EngineStep ==
    ASSUME H!HubAssumption, FeedInv,
           \/ \E e \in Emitters : H!Change(e) \/ H!Emit(e)
           \/ H!Telemetry \/ H!Shutdown \/ H!HubReturns
           \/ \E c \in Conns : H!Refill(c) \/ H!PeerGoes(c)
    PROVE  FeedInv' /\ UNCHANGED <<fanned, from, got>>
<1>1. UNCHANGED <<clients, crashed, send, closed, conn, reader, pump, asked, jobs, greeting,
                  fanned, from, got>>
  BY DEF H!Change, H!Emit, H!Telemetry, H!Shutdown, H!HubReturns, H!Refill, H!PeerGoes,
    H!hubVars, H!queueVars, H!connVars, H!procVars, H!engineVars, H!history
<1>2. H!TypeOK
  BY DEF FeedInv
<1>3. /\ version' \in 0 .. MaxChanges /\ snapshot' \in [Emitters -> 0 .. MaxChanges]
      /\ hub' \in {"running", "stopping", "done"} /\ peer' \in [Conns -> BOOLEAN]
      /\ tokens' \in [Conns -> 0 .. Burst]
  <2>1. ASSUME NEW e \in Emitters, H!Change(e) \/ H!Emit(e)
        PROVE  version' \in 0 .. MaxChanges /\ snapshot' \in [Emitters -> 0 .. MaxChanges]
               /\ UNCHANGED <<hub, peer, tokens>>
    <3>1. UNCHANGED <<hub, peer, tokens>>
      BY <2>1 DEF H!Change, H!Emit, H!hubVars, H!connVars
    <3>2. CASE H!Change(e)
      <4>1. version < MaxChanges /\ version' = version + 1
            /\ snapshot' = [snapshot EXCEPT ![e] = version + 1]
        BY <3>2 DEF H!Change, H!Set
      <4>2. version' \in 0 .. MaxChanges
        BY <1>2, <4>1 DEF H!TypeOK, H!HubAssumption
      <4>3. QED
        BY <1>2, <3>1, <4>1, <4>2 DEF H!TypeOK
    <3>3. CASE H!Emit(e)
      <4>1. version' = version /\ snapshot' = [snapshot EXCEPT ![e] = 0] /\ 0 \in 0 .. MaxChanges
        BY <3>3 DEF H!Emit, H!Set, H!HubAssumption
      <4>2. QED
        BY <1>2, <3>1, <4>1 DEF H!TypeOK
    <3>4. QED
      BY <2>1, <3>2, <3>3
  <2>2. ASSUME NEW c \in Conns, H!Refill(c) \/ H!PeerGoes(c)
        PROVE  UNCHANGED <<version, snapshot, hub>> /\ peer' \in [Conns -> BOOLEAN]
               /\ tokens' \in [Conns -> 0 .. Burst]
    <3>1. UNCHANGED <<version, snapshot, hub>>
      BY <2>2 DEF H!Refill, H!PeerGoes, H!hubVars, H!engineVars
    <3>2. CASE H!Refill(c)
      <4>1. tokens' = [tokens EXCEPT ![c] = tokens[c] + 1] /\ tokens[c] < Burst /\ peer' = peer
        BY <3>2 DEF H!Refill, H!Set
      <4>2. tokens[c] + 1 \in 0 .. Burst
        <5>1. tokens[c] \in 0 .. Burst /\ Burst \in Nat
          BY <1>2 DEF H!TypeOK, H!HubAssumption
        <5>2. QED
          BY <4>1, <5>1
      <4>3. QED
        BY <1>2, <3>1, <4>1, <4>2 DEF H!TypeOK
    <3>3. CASE H!PeerGoes(c)
      BY <1>2, <3>1, <3>3 DEF H!PeerGoes, H!Set, H!TypeOK
    <3>4. QED
      BY <2>2, <3>2, <3>3
  <2>3. CASE H!Telemetry \/ H!Shutdown \/ H!HubReturns
    BY <1>2, <2>3 DEF H!TypeOK, H!Telemetry, H!Shutdown, H!HubReturns, H!engineVars, H!connVars
  <2>4. QED
    BY <1>2, <2>1, <2>2, <2>3 DEF H!TypeOK
<1>4. /\ broadcastC' \in Seq(Queued) /\ broadcastC' \in Seq(H!Message)
      /\ Len(broadcastC') <= BroadcastCap
  <2>1. ASSUME NEW msg \in Queued, H!Broadcast(msg)
        PROVE  /\ broadcastC' \in Seq(Queued) /\ broadcastC' \in Seq(H!Message)
               /\ Len(broadcastC') <= BroadcastCap
    <3>1. msg \in H!Message /\ BroadcastCap \in Nat /\ Len(broadcastC) \in Nat
      BY <1>2 DEF Queued, H!TypeOK, H!HubAssumption
    <3>2. broadcastC \in Seq(Queued) /\ broadcastC \in Seq(H!Message)
          /\ Len(broadcastC) <= BroadcastCap
      BY <1>2 DEF FeedInv, H!TypeOK
    <3>3. CASE Len(broadcastC) < BroadcastCap /\ broadcastC' = Append(broadcastC, msg)
      BY <3>1, <3>2, <3>3
    <3>4. CASE broadcastC' = broadcastC
      BY <3>2, <3>4
    <3>5. QED
      BY <2>1, <3>3, <3>4 DEF H!Broadcast
  <2>2. CASE H!Telemetry
    <3>1. H!Tick \in Queued
      BY DEF H!Tick, Queued, H!Message, H!HubAssumption
    <3>2. QED
      BY <2>1, <2>2, <3>1 DEF H!Telemetry
  <2>3. ASSUME NEW e \in Emitters, H!Emit(e)
        PROVE  /\ broadcastC' \in Seq(Queued) /\ broadcastC' \in Seq(H!Message)
               /\ Len(broadcastC') <= BroadcastCap
    <3>1. snapshot[e] \in H!Versions /\ snapshot[e] \in 0 .. MaxChanges
      BY <1>2, <2>3 DEF H!Emit, H!TypeOK, H!Versions, H!HubAssumption
    <3>2. H!Status(snapshot[e]) \in Queued
      BY <3>1 DEF H!Status, Queued, H!Message
    <3>3. QED
      BY <2>1, <2>3, <3>2 DEF H!Emit
  <2>4. CASE UNCHANGED broadcastC
    BY <1>2, <2>4 DEF FeedInv, H!TypeOK
  <2>5. QED
    BY <2>2, <2>3, <2>4 DEF H!Change, H!Shutdown, H!HubReturns, H!Refill, H!PeerGoes, H!hubVars
<1>5. H!TypeOK'
  BY <1>1, <1>2, <1>3, <1>4 DEF H!TypeOK
<1>6. ASSUME NEW c \in Conns PROVE StageInv(c)' /\ GivenInv(c)'
  BY <1>1, GivenStays DEF FeedInv, StageInv
<1>7. send' \in [Conns -> Seq(Queued)]
  BY <1>1 DEF FeedInv
<1>8. QED
  BY <1>1, <1>4, <1>5, <1>6, <1>7 DEF FeedInv

\* What the hub fans out, each client that stays gets.
LEMMA FanOutStep ==
    ASSUME H!HubAssumption, FeedInv, H!FanOut
    PROVE  FeedInv' /\ (\/ \E v \in H!Versions : fanned' = Append(fanned, v)
                        \/ fanned' = fanned) /\ UNCHANGED <<from, got>>
<1> DEFINE msg == Head(broadcastC)
           full == {c \in clients : Len(send[c]) = SendCap}
<1>1. UNCHANGED <<hub, crashed, conn, peer, tokens, reader, pump, asked, jobs, version,
                  snapshot, greeting, from, got>>
  BY DEF H!FanOut, H!connVars, H!procVars, H!engineVars
<1>2. H!TypeOK /\ broadcastC \in Seq(Queued) /\ send \in [Conns -> Seq(Queued)]
  BY DEF FeedInv
<1>3. broadcastC # <<>> /\ msg \in Queued /\ msg \in H!Message
      /\ broadcastC' = Tail(broadcastC)
  BY <1>2 DEF H!FanOut, Queued
<1>4. /\ send' = [c \in Conns |-> IF c \in clients \ full THEN Append(send[c], msg) ELSE send[c]]
      /\ clients' = clients \ full
      /\ closed' = [c \in Conns |-> closed[c] \/ c \in full]
      /\ fanned' = IF msg.kind = "status" THEN Append(fanned, msg.ver) ELSE fanned
  BY DEF H!FanOut
<1>5. \A c \in clients : c \notin full => Len(send[c]) # SendCap
  OBVIOUS
<1> HIDE DEF msg, full
<1>6. msg.kind = "status" => msg.ver \in H!Versions
  BY <1>3 DEF Queued
<1>7. /\ broadcastC' \in Seq(Queued) /\ broadcastC' \in Seq(H!Message)
      /\ Len(broadcastC') <= BroadcastCap
  <2>1. broadcastC \in Seq(H!Message) /\ Len(broadcastC) <= BroadcastCap /\ BroadcastCap \in Nat
    BY <1>2 DEF H!TypeOK, H!HubAssumption
  <2>2. QED
    BY <1>2, <1>3, <2>1
<1>8. /\ send' \in [Conns -> Seq(Queued)] /\ send' \in [Conns -> Seq(H!Message)]
      /\ \A c \in Conns : Len(send'[c]) <= SendCap
  <2>1. SendCap \in Nat /\ \A c \in Conns : send[c] \in Seq(H!Message) /\ Len(send[c]) <= SendCap
    BY <1>2 DEF H!TypeOK, H!HubAssumption
  <2>2. ASSUME NEW c \in Conns
        PROVE  send'[c] \in Seq(Queued) /\ send'[c] \in Seq(H!Message) /\ Len(send'[c]) <= SendCap
    <3>1. CASE c \in clients \ full
      <4>1. send'[c] = Append(send[c], msg) /\ Len(send[c]) # SendCap
        BY <1>4, <1>5, <3>1
      <4>2. QED
        BY <1>2, <1>3, <2>1, <4>1
    <3>2. CASE c \notin clients \ full
      BY <1>2, <1>4, <2>1, <3>2
    <3>3. QED
      BY <3>1, <3>2
  <2>3. QED
    BY <1>4, <2>2
<1>9. fanned' \in Seq(H!Versions)
  BY <1>2, <1>4, <1>6 DEF H!TypeOK
<1>10. H!TypeOK'
  <2>1. clients' \subseteq Conns /\ closed' \in [Conns -> BOOLEAN]
    BY <1>2, <1>4 DEF H!TypeOK
  <2>2. QED
    BY <1>1, <1>2, <1>7, <1>8, <1>9, <2>1 DEF H!TypeOK
<1>11. ASSUME NEW c \in Conns PROVE StageInv(c)' /\ GivenInv(c)'
  <2>1. StageInv(c) /\ GivenInv(c)
    BY DEF FeedInv
  <2>2. CASE from[c] = -1
    <3>1. c \notin clients /\ send'[c] = send[c] /\ c \notin clients'
      BY <1>4, <2>1, <2>2 DEF GivenInv
    <3>2. QED
      BY <1>1, <2>1, <2>2, <3>1 DEF StageInv, GivenInv
  <2>3. CASE from[c] # -1
    <3>1. StageInv(c)'
      BY <1>1, <2>1, <2>3 DEF StageInv
    <3>2. ASSUME pump[c] # "done"
          PROVE  Tracks(send'[c], fanned', from[c] + Len(got[c]), c \in clients')
      <4> DEFINE first == from[c] + Len(got[c])
      <4>1. Tracks(send[c], fanned, first, c \in clients)
        BY <2>1, <2>3, <3>2 DEF GivenInv
      <4>2. fanned \in Seq(H!Versions) /\ send[c] \in Seq(Queued) /\ Len(send[c]) \in Nat
        BY <1>2 DEF H!TypeOK
      <4> HIDE DEF first
      <4>3. CASE c \in clients \ full
        <5>1. send'[c] = Append(send[c], msg) /\ c \in clients' /\ c \in clients
          BY <1>4, <4>3
        <5>2. Tracks(send[c], fanned, first, TRUE)
          BY <4>1, <5>1
        <5>3. Tracks(send'[c], fanned', first, TRUE)
          <6>1. CASE msg.kind = "status"
            BY <1>3, <1>4, <1>6, <4>2, <5>1, <5>2, <6>1, TracksEvent
          <6>2. CASE msg.kind # "status"
            BY <1>3, <1>4, <4>2, <5>1, <5>2, <6>2, TracksOther
          <6>3. QED
            BY <6>1, <6>2
        <5>4. (c \in clients') = TRUE
          BY <5>1
        <5>5. Tracks(send'[c], fanned', first, c \in clients')
          BY <5>3, <5>4
        <5>6. QED
          BY <5>5 DEF first
      <4>4. CASE c \notin clients \ full
        <5>1. send'[c] = send[c] /\ c \notin clients'
          BY <1>4, <4>4
        <5>2. Tracks(send[c], fanned, first, FALSE)
          BY <4>1 DEF Tracks
        <5>3. Tracks(send[c], fanned', first, FALSE)
          BY <1>4, <1>6, <4>2, <5>2, TracksOld
        <5>4. (c \in clients') = FALSE
          BY <5>1
        <5>5. Tracks(send'[c], fanned', first, c \in clients')
          BY <5>1, <5>3, <5>4
        <5>6. QED
          BY <5>5 DEF first
      <4>5. QED
        BY <4>3, <4>4
    <3>3. QED
      BY <1>1, <2>3, <3>1, <3>2 DEF GivenInv
  <2>4. QED
    BY <2>2, <2>3
<1>12. QED
  BY <1>1, <1>4, <1>6, <1>7, <1>8, <1>10, <1>11 DEF FeedInv

\* An answer is queued.
LEMMA EnqueueStep ==
    ASSUME H!HubAssumption, FeedInv, NEW c \in Conns, NEW msg \in Queued, msg.kind # "status",
           H!Enqueue(c, msg), UNCHANGED <<clients, fanned, from, got>>,
           pump[c] = "done" => pump'[c] = "done"
    PROVE  /\ send' \in [Conns -> Seq(Queued)] /\ send' \in [Conns -> Seq(H!Message)]
           /\ \A d \in Conns : Len(send'[d]) <= SendCap
           /\ \A d \in Conns \ {c} : send'[d] = send[d]
           /\ GivenInv(c)'
<1>1. /\ send' = [send EXCEPT ![c] = Append(send[c], msg)] /\ Len(send[c]) < SendCap
      /\ send \in [Conns -> Seq(Queued)] /\ send \in [Conns -> Seq(H!Message)]
      /\ \A d \in Conns : Len(send[d]) <= SendCap
      /\ fanned \in Seq(H!Versions) /\ SendCap \in Nat /\ msg \in H!Message
  BY DEF H!Enqueue, H!Set, FeedInv, H!TypeOK, H!HubAssumption, Queued
<1>2. /\ send[c] \in Seq(Queued) /\ send[c] \in Seq(H!Message)
      /\ Append(send[c], msg) \in Seq(Queued) /\ Append(send[c], msg) \in Seq(H!Message)
      /\ Len(Append(send[c], msg)) <= SendCap
  BY <1>1
<1>3. send'[c] = Append(send[c], msg) /\ \A d \in Conns \ {c} : send'[d] = send[d]
  BY <1>1
<1>4. /\ send' \in [Conns -> Seq(Queued)] /\ send' \in [Conns -> Seq(H!Message)]
      /\ \A d \in Conns : Len(send'[d]) <= SendCap
  BY <1>1, <1>2
<1>5. GivenInv(c)
  BY DEF FeedInv
<1>6. ASSUME from[c] = -1, NEW i \in 1 .. Len(send'[c])  PROVE send'[c][i].kind # "status"
  <2>1. \A j \in 1 .. Len(send[c]) : send[c][j].kind # "status"
    BY <1>5, <1>6 DEF GivenInv
  <2>2. CASE i \in 1 .. Len(send[c])
    BY <1>2, <1>3, <2>1, <2>2
  <2>3. CASE i = Len(send[c]) + 1
    BY <1>2, <1>3, <2>3
  <2>4. QED
    BY <1>2, <1>3, <1>6, <2>2, <2>3
<1>7. ASSUME from[c] # -1, pump'[c] # "done"
      PROVE  Tracks(send'[c], fanned, from[c] + Len(got[c]), c \in clients)
  <2> DEFINE first == from[c] + Len(got[c])
             atEnd == c \in clients
  <2>1. Tracks(send[c], fanned, first, atEnd) /\ atEnd \in BOOLEAN
    BY <1>5, <1>7 DEF GivenInv
  <2> HIDE DEF first, atEnd
  <2>2. Tracks(Append(send[c], msg), fanned, first, atEnd)
    BY <1>1, <1>2, <2>1, TracksOther
  <2>3. QED
    BY <1>3, <2>2 DEF first, atEnd
<1>8. GivenInv(c)'
  BY <1>5, <1>6, <1>7 DEF GivenInv
<1>9. QED
  BY <1>3, <1>4, <1>8

\* A connection joins.
LEMMA RegisterStep ==
    ASSUME H!HubAssumption, FeedInv, NEW c \in Conns, H!Register(c)
    PROVE  /\ FeedInv' /\ UNCHANGED <<fanned, got>>
           /\ from' = from \/ (from[c] = -1 /\ from' = [from EXCEPT ![c] = Len(fanned)])
<1>1. /\ UNCHANGED <<broadcastC, hub, crashed, send, closed, conn, peer, tokens, pump, asked,
                     jobs, version, snapshot, greeting, fanned, got>>
      /\ reader[c] = "register" /\ reader' = [reader EXCEPT ![c] = "status"]
  BY DEF H!Register, H!Goto, H!Set, H!queueVars, H!connVars, H!engineVars
<1>2. H!TypeOK /\ StageInv(c) /\ GivenInv(c)
  BY DEF FeedInv
<1>3. from[c] = -1 /\ send[c] = <<>> /\ got[c] = <<>> /\ pump[c] = "none"
  BY <1>1, <1>2 DEF StageInv, GivenInv
<1>4. fanned \in Seq(H!Versions) /\ Len(fanned) \in Nat
  BY <1>2 DEF H!TypeOK
<1>5. \/ clients' = clients \union {c} /\ from' = [from EXCEPT ![c] = Len(fanned)]
      \/ clients' = clients /\ from' = from
  BY DEF H!Register, H!Set
<1>6. clients' \subseteq Conns /\ from' \in [Conns -> Int]
  <2>1. clients \subseteq Conns /\ from \in [Conns -> Int]
    BY <1>2 DEF H!TypeOK
  <2>2. QED
    BY <1>4, <1>5, <2>1
<1>7. reader' \in [Conns -> {"idle", "register", "status", "greet", "read", "reply",
                             "limited", "unregister", "done"}]
  BY <1>1, <1>2 DEF H!TypeOK
<1>8. H!TypeOK'
  BY <1>1, <1>2, <1>6, <1>7 DEF H!TypeOK
<1>9. reader'[c] = "status"
  BY <1>1, <1>2 DEF H!TypeOK
<1>10. StageInv(c)'
  BY <1>1, <1>2, <1>3, <1>9 DEF StageInv
<1>11. GivenInv(c)'
  <2>1. CASE clients' = clients \union {c} /\ from' = [from EXCEPT ![c] = Len(fanned)]
    <3>1. c \in clients' /\ from'[c] = Len(fanned) /\ from'[c] # -1
      BY <1>2, <1>4, <2>1 DEF H!TypeOK
    <3>2. Tracks(<<>>, fanned, Len(fanned), TRUE)
      BY <1>4, TracksNothing
    <3>3. from'[c] + Len(got'[c]) = Len(fanned)
      BY <1>1, <1>3, <1>4, <3>1
    <3>4. Tracks(send'[c], fanned', from'[c] + Len(got'[c]), c \in clients')
      BY <1>1, <1>3, <3>1, <3>2, <3>3 DEF Tracks
    <3>5. QED
      BY <3>1, <3>4 DEF GivenInv
  <2>2. CASE clients' = clients /\ from' = from
    BY <1>1, <1>2, <2>2 DEF GivenInv
  <2>3. QED
    BY <1>5, <2>1, <2>2
<1>12. ASSUME NEW d \in Conns \ {c} PROVE from'[d] = from[d] /\ reader'[d] = reader[d]
  BY <1>1, <1>2, <1>5 DEF H!TypeOK
<1>13. clients' \subseteq clients \union {c}
  BY <1>5
<1>14. broadcastC' \in Seq(Queued) /\ send' \in [Conns -> Seq(Queued)]
  BY <1>1 DEF FeedInv
<1>15. FeedInv'
  BY <1>1, <1>8, <1>10, <1>11, <1>12, <1>13, <1>14, OneConnection
<1>16. QED
  BY <1>1, <1>3, <1>5, <1>15

\* The other steps of a connection's handler and of what it started.
LEMMA HandlerStep ==
    ASSUME H!HubAssumption, FeedInv, NEW c \in Conns,
           \/ H!Upgrade(c) \/ H!ReadStatus(c) \/ H!Greet(c) \/ H!Read(c) \/ H!Answer(c)
           \/ H!ReadFails(c) \/ H!Unregister(c) \/ H!JobAnswers(c)
    PROVE  FeedInv' /\ UNCHANGED <<fanned, from, got>>
<1> DEFINE Steps == {"idle", "register", "status", "greet", "read", "reply", "limited",
                     "unregister", "done"}
<1> DEFINE Moves(step) == reader' = [reader EXCEPT ![c] = step]
<1>1. H!TypeOK /\ StageInv(c) /\ GivenInv(c)
  BY DEF FeedInv
<1>2. UNCHANGED <<broadcastC, hub, peer, version, snapshot, fanned, from, got>>
  BY DEF H!Upgrade, H!ReadStatus, H!Greet, H!Read, H!Answer, H!ReadFails, H!Unregister,
    H!JobAnswers, H!hubVars, H!connVars, H!engineVars, H!history
<1>3. H!Reply \in Queued /\ H!Reply.kind # "status"
  BY DEF H!Reply, Queued, H!Message, H!HubAssumption
<1>4. H!Greeting(greeting[c]) \in Queued /\ H!Greeting(greeting[c]).kind # "status"
  BY <1>1 DEF H!TypeOK, H!Greeting, Queued, H!Message
<1>5. /\ reader \in [Conns -> Steps] /\ clients \subseteq Conns /\ crashed \in BOOLEAN
      /\ closed \in [Conns -> BOOLEAN] /\ conn \in [Conns -> {"none", "open", "closed"}]
      /\ tokens \in [Conns -> 0 .. Burst] /\ asked \in [Conns -> 0 .. MaxRequests]
      /\ jobs \in [Conns -> 0 .. MaxRequests] /\ greeting \in [Conns -> 0 .. MaxChanges]
      /\ pump \in [Conns -> {"none", "running", "done"}] /\ version \in 0 .. MaxChanges
      /\ send \in [Conns -> Seq(H!Message)] /\ \A d \in Conns : Len(send[d]) <= SendCap
  BY <1>1 DEF H!TypeOK
\* The step's effect on what the hub shares with the connection, and on its queue.
<1> DEFINE Shares ==
             /\ clients' \subseteq clients /\ crashed' \in BOOLEAN
             /\ closed' \in [Conns -> BOOLEAN]
             /\ conn' \in [Conns -> {"none", "open", "closed"}]
             /\ tokens' \in [Conns -> 0 .. Burst] /\ greeting' \in [Conns -> 0 .. MaxChanges]
           Queues ==
             /\ send' \in [Conns -> Seq(Queued)] /\ send' \in [Conns -> Seq(H!Message)]
             /\ \A d \in Conns : Len(send'[d]) <= SendCap
             /\ \A d \in Conns \ {c} : send'[d] = send[d]
             /\ GivenInv(c)'
           Keeping == UNCHANGED send /\ clients' \subseteq clients
                        /\ (pump[c] = "done" => pump'[c] = "done")
           Counts == /\ asked' \in [Conns -> 0 .. MaxRequests]
                     /\ jobs' \in [Conns -> 0 .. MaxRequests]
                     /\ \A d \in Conns \ {c} : asked'[d] = asked[d] /\ jobs'[d] = jobs[d]
           Pumps == /\ pump' \in [Conns -> {"none", "running", "done"}]
                    /\ \A d \in Conns \ {c} : pump'[d] = pump[d]
<1>6. Keeping => Queues
  <2>1. SUFFICES ASSUME Keeping PROVE Queues
    OBVIOUS
  <2>2. GivenInv(c)'
    BY <1>1, <1>2, <2>1, GivenStays
  <2>3. QED
    BY <1>5, <2>1, <2>2 DEF FeedInv
<1>7. ASSUME NEW step \in Steps, Moves(step), Shares, Queues, Counts, Pumps, StageInv(c)'
      PROVE  FeedInv'
  <2>1. reader' \in [Conns -> Steps] /\ \A d \in Conns \ {c} : reader'[d] = reader[d]
    BY <1>5, <1>7
  <2>2. H!TypeOK'
    BY <1>1, <1>2, <1>7, <2>1 DEF H!TypeOK
  <2>3. broadcastC' \in Seq(Queued)
    BY <1>2 DEF FeedInv
  <2>4. QED
    BY <1>2, <1>7, <2>1, <2>2, <2>3, OneConnection
<1>8. ASSUME NEW step \in Steps, Moves(step)  PROVE reader'[c] = step
  BY <1>5, <1>8
<1>9. reader = [reader EXCEPT ![c] = reader[c]] /\ reader[c] \in Steps
  BY <1>5
<1>10. StageInv(c)' <=>
         /\ jobs'[c] =< asked'[c]
         /\ reader'[c] \in {"idle", "register"} =>
              asked'[c] = 0 /\ from'[c] = -1 /\ send'[c] = <<>>
         /\ reader'[c] \in {"idle", "register", "status", "greet"} => pump'[c] = "none"
  BY DEF StageInv
<1>11. /\ jobs[c] =< asked[c]
       /\ reader[c] \in {"idle", "register"} => asked[c] = 0 /\ from[c] = -1 /\ send[c] = <<>>
       /\ reader[c] \in {"idle", "register", "status", "greet"} => pump[c] = "none"
  BY <1>1 DEF StageInv
<1> HIDE DEF Queues
<1>12. CASE H!Upgrade(c)
  <2>1. /\ Moves("register") /\ reader[c] = "idle" /\ conn' = [conn EXCEPT ![c] = "open"]
        /\ UNCHANGED <<clients, crashed, send, closed, tokens, pump, asked, jobs, greeting>>
    BY <1>12 DEF H!Upgrade, H!Goto, H!Set, H!hubVars, H!queueVars
  <2>2. Shares /\ Counts /\ Pumps /\ Keeping
    BY <1>5, <2>1
  <2>3. reader'[c] = "register" /\ "register" \in Steps
    BY <1>8, <2>1
  <2>4. StageInv(c)'
    BY <1>2, <1>10, <1>11, <2>1, <2>3
  <2>5. QED
    BY <1>2, <1>6, <1>7, <2>1, <2>2, <2>3, <2>4
<1>13. CASE H!ReadStatus(c)
  <2>1. /\ Moves("greet") /\ reader[c] = "status" /\ greeting' = [greeting EXCEPT ![c] = version]
        /\ UNCHANGED <<clients, crashed, send, closed, conn, tokens, pump, asked, jobs>>
    BY <1>13 DEF H!ReadStatus, H!Goto, H!Set, H!hubVars, H!queueVars, H!connVars
  <2>2. Shares /\ Counts /\ Pumps /\ Keeping
    BY <1>5, <2>1
  <2>3. reader'[c] = "greet" /\ "greet" \in Steps
    BY <1>8, <2>1
  <2>4. StageInv(c)'
    BY <1>2, <1>10, <1>11, <2>1, <2>3
  <2>5. QED
    BY <1>2, <1>6, <1>7, <2>1, <2>2, <2>3, <2>4
<1>14. CASE H!Greet(c)
  <2>1. /\ reader[c] = "greet" /\ pump[c] = "none"
        /\ UNCHANGED <<clients, crashed, conn, tokens, asked, jobs, greeting>>
    BY <1>11, <1>14 DEF H!Greet, H!hubVars, H!connVars
  <2>2. CASE /\ H!Enqueue(c, H!Greeting(greeting[c]))
             /\ pump' = [pump EXCEPT ![c] = "running"] /\ Moves("read")
    <3>1. Queues
      BY <1>2, <1>4, <2>1, <2>2, EnqueueStep DEF Queues
    <3>2. Shares /\ Counts /\ Pumps
      BY <1>5, <2>1, <2>2 DEF H!Enqueue
    <3>3. reader'[c] = "read" /\ "read" \in Steps
      BY <1>8, <2>2
    <3>4. StageInv(c)'
      BY <1>10, <1>11, <2>1, <3>3
    <3>5. QED
      BY <1>2, <1>7, <2>2, <3>1, <3>2, <3>3, <3>4
  <2>3. CASE Moves("done") /\ UNCHANGED <<send, closed, pump>>
    <3>1. Shares /\ Counts /\ Pumps /\ Keeping
      BY <1>5, <2>1, <2>3
    <3>2. reader'[c] = "done" /\ "done" \in Steps
      BY <1>8, <2>3
    <3>3. StageInv(c)'
      BY <1>10, <1>11, <2>1, <3>2
    <3>4. QED
      BY <1>2, <1>6, <1>7, <2>3, <3>1, <3>2, <3>3
  <2>4. QED
    BY <1>14, <2>2, <2>3 DEF H!Greet, H!Goto, H!Set, H!queueVars
<1>15. CASE H!Read(c)
  <2>1. /\ reader[c] = "read" /\ asked[c] < MaxRequests
        /\ asked' = [asked EXCEPT ![c] = asked[c] + 1]
        /\ UNCHANGED <<clients, crashed, send, closed, conn, pump, greeting>>
    BY <1>15 DEF H!Read, H!Set, H!hubVars, H!queueVars
  <2>2. tokens' \in [Conns -> 0 .. Burst]
    <3>1. CASE tokens' = tokens
      BY <1>5, <3>1
    <3>2. CASE tokens[c] > 0 /\ tokens' = [tokens EXCEPT ![c] = tokens[c] - 1]
      <4>1. tokens[c] \in 0 .. Burst /\ Burst \in Nat
        BY <1>5 DEF H!HubAssumption
      <4>2. tokens[c] - 1 \in 0 .. Burst
        BY <3>2, <4>1
      <4>3. QED
        BY <1>5, <3>2, <4>2
    <3>3. QED
      BY <1>15, <3>1, <3>2 DEF H!Read, H!Set
  <2>3. jobs' = jobs \/ jobs' = [jobs EXCEPT ![c] = jobs[c] + 1]
    BY <1>15 DEF H!Read, H!Dispatch, H!Set
  <2>4. /\ asked[c] \in Nat /\ jobs[c] \in Nat /\ MaxRequests \in Nat
        /\ asked[c] + 1 \in 0 .. MaxRequests /\ jobs[c] + 1 \in 0 .. MaxRequests
        /\ asked'[c] = asked[c] + 1 /\ jobs'[c] \in {jobs[c], jobs[c] + 1}
    <3>1. asked[c] \in 0 .. MaxRequests /\ jobs[c] \in 0 .. MaxRequests /\ MaxRequests \in Nat
      BY <1>5 DEF H!HubAssumption
    <3>2. asked[c] + 1 \in 0 .. MaxRequests /\ jobs[c] + 1 \in 0 .. MaxRequests
      BY <1>11, <2>1, <3>1
    <3>3. QED
      BY <1>5, <2>1, <2>3, <3>1, <3>2
  <2>5. Counts
    BY <1>5, <2>1, <2>3, <2>4
  <2>6. Shares /\ Pumps /\ Keeping
    BY <1>5, <2>1, <2>2
  <2>7. PICK step \in {"reply", "limited", "read"} : Moves(step)
    <3>1. Moves("reply") \/ Moves("limited") \/ reader' = reader
      BY <1>15 DEF H!Read, H!Dispatch, H!Goto, H!Set
    <3>2. QED
      BY <1>9, <2>1, <3>1
  <2>8. reader'[c] = step /\ step \in Steps
    BY <1>8, <2>7
  <2>9. StageInv(c)'
    BY <1>10, <1>11, <2>1, <2>4, <2>7, <2>8
  <2>10. QED
    BY <1>2, <1>6, <1>7, <2>5, <2>6, <2>7, <2>8, <2>9
<1>16. CASE H!Answer(c)
  <2>1. /\ reader[c] \in {"reply", "limited"}
        /\ UNCHANGED <<clients, crashed, conn, tokens, pump, asked, jobs, greeting>>
    BY <1>16 DEF H!Answer, H!hubVars, H!connVars
  <2>2. PICK step \in {"read", "unregister"} : Moves(step)
    BY <1>16 DEF H!Answer, H!Goto, H!Set
  <2>3. Queues
    <3>1. CASE H!Enqueue(c, H!Reply)
      BY <1>2, <1>3, <2>1, <3>1, EnqueueStep DEF Queues
    <3>2. CASE UNCHANGED send
      BY <1>6, <2>1, <3>2
    <3>3. QED
      BY <1>16, <3>1, <3>2 DEF H!Answer, H!queueVars
  <2>4. closed' = closed
    BY <1>16 DEF H!Answer, H!Enqueue, H!queueVars
  <2>5. Shares /\ Counts /\ Pumps
    BY <1>5, <2>1, <2>4
  <2>6. reader'[c] = step /\ step \in Steps
    BY <1>8, <2>2
  <2>7. StageInv(c)'
    BY <1>10, <1>11, <2>1, <2>2, <2>6
  <2>8. QED
    BY <1>2, <1>7, <2>2, <2>3, <2>5, <2>6, <2>7
<1>17. CASE H!ReadFails(c)
  <2>1. /\ reader[c] = "read" /\ Moves("unregister")
        /\ UNCHANGED <<clients, crashed, send, closed, conn, tokens, pump, asked, jobs, greeting>>
    BY <1>17 DEF H!ReadFails, H!Goto, H!Set, H!hubVars, H!queueVars, H!connVars
  <2>2. Shares /\ Counts /\ Pumps /\ Keeping
    BY <1>5, <2>1
  <2>3. reader'[c] = "unregister" /\ "unregister" \in Steps
    BY <1>8, <2>1
  <2>4. StageInv(c)'
    BY <1>10, <1>11, <2>1, <2>3
  <2>5. QED
    BY <1>2, <1>6, <1>7, <2>1, <2>2, <2>3, <2>4
<1>18. CASE H!Unregister(c)
  <2>1. /\ reader[c] = "unregister" /\ Moves("done") /\ conn' = [conn EXCEPT ![c] = "closed"]
        /\ UNCHANGED <<crashed, send, tokens, pump, asked, jobs, greeting>>
    BY <1>18 DEF H!Unregister, H!Goto, H!Set
  <2>2. clients' \subseteq clients
        /\ (closed' = closed \/ closed' = [closed EXCEPT ![c] = closed[c] \/ c \in clients])
    BY <1>18 DEF H!Unregister, H!Set
  <2>3. closed' \in [Conns -> BOOLEAN]
    <3>1. (closed[c] \/ c \in clients) \in BOOLEAN
      OBVIOUS
    <3>2. QED
      BY <1>5, <2>2, <3>1
  <2>4. Shares /\ Counts /\ Pumps /\ Keeping
    BY <1>5, <2>1, <2>2, <2>3
  <2>5. reader'[c] = "done" /\ "done" \in Steps
    BY <1>8, <2>1
  <2>6. StageInv(c)'
    BY <1>10, <1>11, <2>1, <2>5
  <2>7. QED
    BY <1>2, <1>6, <1>7, <2>1, <2>4, <2>5, <2>6
<1>19. CASE H!JobAnswers(c)
  <2>1. /\ jobs[c] > 0 /\ jobs' = [jobs EXCEPT ![c] = jobs[c] - 1] /\ reader' = reader
        /\ UNCHANGED <<clients, conn, tokens, pump, asked, greeting>>
    BY <1>19 DEF H!JobAnswers, H!Set, H!connVars
  <2>2. closed' = closed /\ crashed' \in BOOLEAN
    BY <1>5, <1>19 DEF H!JobAnswers, H!Enqueue, H!queueVars
  <2>3. Queues
    <3>1. CASE H!Enqueue(c, H!Reply)
      BY <1>2, <1>3, <2>1, <3>1, EnqueueStep DEF Queues
    <3>2. CASE UNCHANGED send
      BY <1>6, <2>1, <3>2
    <3>3. QED
      BY <1>19, <3>1, <3>2 DEF H!JobAnswers, H!queueVars
  <2>4. jobs[c] \in 0 .. MaxRequests /\ MaxRequests \in Nat /\ asked[c] \in 0 .. MaxRequests
    BY <1>5 DEF H!HubAssumption
  <2>5. jobs[c] - 1 \in 0 .. MaxRequests /\ jobs'[c] = jobs[c] - 1
    BY <1>5, <2>1, <2>4
  <2>6. Shares /\ Counts /\ Pumps
    BY <1>5, <2>1, <2>2, <2>5
  <2>7. reader[c] \notin {"idle", "register"}
    BY <1>11, <2>1, <2>4
  <2>8. StageInv(c)'
    BY <1>10, <1>11, <2>1, <2>4, <2>5, <2>7
  <2>9. Moves(reader[c])
    BY <1>9, <2>1
  <2>10. QED
    BY <1>2, <1>7, <1>9, <2>3, <2>6, <2>8, <2>9
<1>20. QED
  BY <1>12, <1>13, <1>14, <1>15, <1>16, <1>17, <1>18, <1>19

\* What the pump takes from its queue, the peer receives, or it stops for ever.
LEMMA PumpStep ==
    ASSUME H!HubAssumption, FeedInv, NEW c \in Conns, H!Write(c) \/ H!WriterEnds(c)
    PROVE  /\ FeedInv' /\ UNCHANGED <<fanned, from>>
           /\ \/ got' = got
              \/ /\ from[c] # -1 /\ from[c] + Len(got[c]) < Len(fanned)
                 /\ got' = [got EXCEPT ![c] = Append(got[c], fanned[from[c] + Len(got[c]) + 1])]
<1>1. H!TypeOK /\ StageInv(c) /\ GivenInv(c)
  BY DEF FeedInv
<1>2. UNCHANGED <<clients, broadcastC, hub, crashed, closed, peer, tokens, reader, asked, jobs,
                  version, snapshot, greeting, fanned, from>>
  BY DEF H!Write, H!WriterEnds, H!hubVars, H!queueVars, H!engineVars, H!history
<1>3. /\ pump[c] = "running"
      /\ reader[c] \notin {"idle", "register", "status", "greet"}
  BY <1>1 DEF H!Write, H!WriterEnds, StageInv
<1>4. /\ send \in [Conns -> Seq(Queued)] /\ send \in [Conns -> Seq(H!Message)]
      /\ \A d \in Conns : Len(send[d]) <= SendCap
      /\ got \in [Conns -> Seq(H!Versions)] /\ fanned \in Seq(H!Versions)
      /\ conn \in [Conns -> {"none", "open", "closed"}]
      /\ pump \in [Conns -> {"none", "running", "done"}] /\ from \in [Conns -> Int]
  BY DEF FeedInv, H!TypeOK
\* What is left to show of a step.
<1>5. ASSUME \/ send' = send
             \/ send[c] # <<>> /\ send' = [send EXCEPT ![c] = Tail(send[c])],
             got' \in [Conns -> Seq(H!Versions)], \A d \in Conns \ {c} : got'[d] = got[d],
             conn' \in [Conns -> {"none", "open", "closed"}],
             pump' \in [Conns -> {"none", "running", "done"}],
             \A d \in Conns \ {c} : pump'[d] = pump[d],
             GivenInv(c)'
      PROVE  FeedInv'
  <2>1. /\ send' \in [Conns -> Seq(Queued)] /\ send' \in [Conns -> Seq(H!Message)]
        /\ \A d \in Conns : Len(send'[d]) <= SendCap
        /\ \A d \in Conns \ {c} : send'[d] = send[d]
    <3>1. CASE send' = send
      BY <1>4, <3>1
    <3>2. CASE send[c] # <<>> /\ send' = [send EXCEPT ![c] = Tail(send[c])]
      <4>1. /\ Tail(send[c]) \in Seq(Queued) /\ Tail(send[c]) \in Seq(H!Message)
            /\ Len(Tail(send[c])) <= SendCap
        <5>1. send[c] \in Seq(Queued) /\ send[c] \in Seq(H!Message) /\ Len(send[c]) <= SendCap
              /\ SendCap \in Nat
          BY <1>4 DEF H!HubAssumption
        <5>2. QED
          BY <3>2, <5>1
      <4>2. QED
        BY <1>4, <3>2, <4>1
    <3>3. QED
      BY <1>5, <3>1, <3>2
  <2>2. H!TypeOK'
    BY <1>1, <1>2, <1>5, <2>1 DEF H!TypeOK
  <2>3. StageInv(c)'
    BY <1>1, <1>2, <1>3 DEF StageInv
  <2>4. broadcastC' \in Seq(Queued)
    BY <1>2 DEF FeedInv
  <2>5. QED
    BY <1>2, <1>5, <2>1, <2>2, <2>3, <2>4, OneConnection
<1>6. ASSUME H!StopWriting(c)
      PROVE  /\ conn' \in [Conns -> {"none", "open", "closed"}]
             /\ pump' \in [Conns -> {"none", "running", "done"}] /\ pump'[c] = "done"
             /\ \A d \in Conns \ {c} : pump'[d] = pump[d]
  BY <1>4, <1>6 DEF H!StopWriting, H!Set
<1>7. CASE H!WriterEnds(c)
  <2>1. UNCHANGED <<send, got>> /\ H!StopWriting(c)
    BY <1>7 DEF H!WriterEnds, H!queueVars, H!history
  <2>2. GivenInv(c)'
    BY <1>1, <1>2, <1>6, <2>1, GivenStays
  <2>3. /\ send' = send
        /\ got' \in [Conns -> Seq(H!Versions)] /\ \A d \in Conns \ {c} : got'[d] = got[d]
    BY <1>4, <2>1
  <2>4. /\ conn' \in [Conns -> {"none", "open", "closed"}]
        /\ pump' \in [Conns -> {"none", "running", "done"}]
        /\ \A d \in Conns \ {c} : pump'[d] = pump[d]
    BY <1>6, <2>1
  <2>5. FeedInv'
    BY <1>5, <2>2, <2>3, <2>4
  <2>6. QED
    BY <1>2, <2>1, <2>5
<1>8. CASE H!Write(c)
  <2> DEFINE msg == Head(send[c])
             rest == Tail(send[c])
  <2>1. send[c] # <<>> /\ send' = [send EXCEPT ![c] = rest]
    BY <1>8 DEF H!Write, H!Set
  <2>2. /\ send[c] \in Seq(Queued) /\ rest \in Seq(Queued) /\ msg \in Queued
        /\ Len(send[c]) \in Nat \ {0} /\ Len(rest) = Len(send[c]) - 1 /\ msg = send[c][1]
        /\ \A i \in 1 .. Len(rest) : rest[i] = send[c][i + 1]
        /\ send'[c] = rest
    BY <1>4, <2>1
  <2>3. \/ /\ UNCHANGED <<conn, pump>>
           /\ got' = IF msg.kind = "status" THEN [got EXCEPT ![c] = Append(got[c], msg.ver)]
                     ELSE got
        \/ H!StopWriting(c) /\ got' = got
    BY <1>8 DEF H!Write, H!Set
  <2> HIDE DEF msg, rest
  <2>4. msg.kind = "status" => msg.ver \in H!Versions
    BY <2>2 DEF Queued
  <2>5. from[c] = -1 =>
          /\ msg.kind # "status" /\ c \notin clients' /\ got[c] = <<>>
          /\ \A i \in 1 .. Len(send'[c]) : send'[c][i].kind # "status"
    <3>1. SUFFICES ASSUME from[c] = -1
                   PROVE  /\ msg.kind # "status" /\ c \notin clients' /\ got[c] = <<>>
                          /\ \A i \in 1 .. Len(send'[c]) : send'[c][i].kind # "status"
      OBVIOUS
    <3>2. c \notin clients' /\ got[c] = <<>>
          /\ \A i \in 1 .. Len(send[c]) : send[c][i].kind # "status"
      BY <1>1, <1>2, <3>1 DEF GivenInv
    <3>3. 1 \in 1 .. Len(send[c])
      BY <2>2
    <3>4. ASSUME NEW i \in 1 .. Len(rest) PROVE rest[i].kind # "status"
      <4>1. i + 1 \in 1 .. Len(send[c]) /\ rest[i] = send[c][i + 1]
        BY <2>2
      <4>2. QED
        BY <3>2, <4>1
    <3>5. QED
      BY <2>2, <3>2, <3>3, <3>4
  <2>6. CASE H!StopWriting(c) /\ got' = got
    <3>1. GivenInv(c)'
      BY <1>2, <1>6, <2>5, <2>6 DEF GivenInv
    <3>2. QED
      BY <1>2, <1>4, <1>5, <1>6, <2>1, <2>6, <3>1 DEF rest
  <2>7. CASE /\ UNCHANGED <<conn, pump>>
             /\ got' = IF msg.kind = "status" THEN [got EXCEPT ![c] = Append(got[c], msg.ver)]
                       ELSE got
    <3> DEFINE first == from[c] + Len(got[c])
               atEnd == c \in clients
    <3>1. got[c] \in Seq(H!Versions) /\ first \in Int /\ Len(got[c]) \in Nat
      BY <1>4
    <3>2. from[c] # -1 =>
            /\ msg.kind # "status" => Tracks(rest, fanned, first, atEnd)
            /\ msg.kind = "status" =>
                 /\ first < Len(fanned) /\ msg.ver = fanned[first + 1]
                 /\ Tracks(rest, fanned, first + 1, atEnd)
      <4>1. SUFFICES ASSUME from[c] # -1
                     PROVE  /\ msg.kind # "status" => Tracks(rest, fanned, first, atEnd)
                            /\ msg.kind = "status" =>
                                 /\ first < Len(fanned) /\ msg.ver = fanned[first + 1]
                                 /\ Tracks(rest, fanned, first + 1, atEnd)
        OBVIOUS
      <4>2. Tracks(send[c], fanned, first, atEnd) /\ atEnd \in BOOLEAN
        BY <1>1, <1>3, <4>1 DEF GivenInv
      <4> HIDE DEF first, atEnd
      <4>3. send[c] \in Seq(Queued) /\ send[c] # <<>> /\ fanned \in Seq(H!Versions)
        BY <1>4, <2>1
      <4>4. /\ Head(send[c]).kind # "status" => Tracks(Tail(send[c]), fanned, first, atEnd)
            /\ Head(send[c]).kind = "status" =>
                 /\ first < Len(fanned) /\ Head(send[c]).ver = fanned[first + 1]
                 /\ Tracks(Tail(send[c]), fanned, first + 1, atEnd)
        BY <4>2, <4>3, TracksTail
      <4>5. QED
        BY <4>4 DEF msg, rest
    <3>3. CASE msg.kind # "status"
      <4>1. got' = got
        BY <2>7, <3>3
      <4>2. from[c] # -1 => Tracks(send'[c], fanned', from'[c] + Len(got'[c]), c \in clients')
        BY <1>2, <2>2, <3>2, <3>3, <4>1
      <4>3. GivenInv(c)'
        BY <1>2, <2>5, <4>1, <4>2 DEF GivenInv
      <4>4. QED
        BY <1>2, <1>4, <1>5, <2>1, <2>7, <4>1, <4>3 DEF rest
    <3>4. CASE msg.kind = "status"
      <4>1. got' = [got EXCEPT ![c] = Append(got[c], msg.ver)] /\ from[c] # -1
        BY <2>5, <2>7, <3>4
      <4>2. /\ Append(got[c], msg.ver) \in Seq(H!Versions)
            /\ Len(Append(got[c], msg.ver)) = Len(got[c]) + 1
        BY <2>4, <3>1, <3>4
      <4>3. /\ got' \in [Conns -> Seq(H!Versions)] /\ \A d \in Conns \ {c} : got'[d] = got[d]
            /\ Len(got'[c]) = Len(got[c]) + 1
        BY <1>4, <4>1, <4>2
      <4>4. from'[c] + Len(got'[c]) = first + 1
        BY <1>2, <1>4, <3>1, <4>3
      <4>5. Tracks(send'[c], fanned', from'[c] + Len(got'[c]), c \in clients')
        BY <1>2, <2>2, <3>2, <3>4, <4>1, <4>4
      <4>6. GivenInv(c)'
        BY <1>2, <4>1, <4>5 DEF GivenInv
      <4>7. FeedInv'
        BY <1>2, <1>4, <1>5, <2>1, <2>7, <4>3, <4>6 DEF rest
      <4>8. QED
        BY <1>2, <3>2, <3>4, <4>1, <4>7
    <3>5. QED
      BY <3>3, <3>4
  <2>8. QED
    BY <2>3, <2>6, <2>7
<1>9. QED
  BY <1>7, <1>8

LEMMA FeedStep ==
    H!HubAssumption /\ FeedInv /\ [H!Next]_(H!vars) => FeedInv' /\ [H!F!Next]_(H!F!vars)
<1> SUFFICES ASSUME H!HubAssumption, FeedInv, [H!Next]_(H!vars)
             PROVE  FeedInv' /\ [H!F!Next]_(H!F!vars)
  OBVIOUS
<1>1. CASE UNCHANGED H!vars
  <2>1. UNCHANGED <<clients, broadcastC, hub, crashed, send, closed, conn, peer, tokens, reader,
                    pump, asked, jobs, version, snapshot, greeting, fanned, from, got>>
    BY <1>1 DEF H!vars, H!hubVars, H!queueVars, H!connVars, H!procVars, H!engineVars, H!history
  <2>2. ASSUME NEW c \in Conns PROVE StageInv(c)' /\ GivenInv(c)'
    BY <2>1, GivenStays DEF FeedInv, StageInv
  <2>3. QED
    BY <2>1, <2>2 DEF FeedInv, H!TypeOK, H!F!vars
<1>2. ASSUME UNCHANGED <<fanned, from, got>> PROVE [H!F!Next]_(H!F!vars)
  BY <1>2 DEF H!F!vars
<1>3. CASE \/ \E e \in Emitters : H!Change(e) \/ H!Emit(e)
           \/ H!Telemetry \/ H!Shutdown \/ H!HubReturns
           \/ \E c \in Conns : H!Refill(c) \/ H!PeerGoes(c)
  BY <1>2, <1>3, EngineStep
<1>4. CASE H!FanOut
  BY <1>4, FanOutStep DEF H!F!Next, H!F!Publish, H!F!vars
<1>5. ASSUME NEW c \in Conns, H!Register(c) PROVE FeedInv' /\ [H!F!Next]_(H!F!vars)
  BY <1>5, RegisterStep DEF H!F!Next, H!F!Join, H!F!Unjoined, H!F!vars
<1>6. ASSUME NEW c \in Conns,
             \/ H!Upgrade(c) \/ H!ReadStatus(c) \/ H!Greet(c) \/ H!Read(c) \/ H!Answer(c)
             \/ H!ReadFails(c) \/ H!Unregister(c) \/ H!JobAnswers(c)
      PROVE  FeedInv' /\ [H!F!Next]_(H!F!vars)
  BY <1>2, <1>6, HandlerStep
<1>7. ASSUME NEW c \in Conns, H!Write(c) \/ H!WriterEnds(c)
      PROVE  FeedInv' /\ [H!F!Next]_(H!F!vars)
  BY <1>7, PumpStep DEF H!F!Next, H!F!Receive, H!F!Unjoined, H!F!vars
<1>8. QED
  BY <1>1, <1>3, <1>4, <1>5, <1>6, <1>7 DEF H!Next, H!Handler, H!Pump

LEMMA PeersRunHub == PeersSpec => H!Init /\ [][H!Next]_(H!vars)
<1>1. PeersInit => H!Init
  BY DEF PeersInit
<1>2. [PeersNext]_<<part, vars, sVars, hVars>> => [H!Next]_(H!vars)
  BY DEF PeersNext, hVars, H!vars, H!hubVars, H!queueVars, H!connVars, H!procVars,
    H!engineVars, H!history
<1>3. QED
  BY <1>1, <1>2, PTL DEF PeersSpec

\* The hub and its connections implement the feed (runHub, hub.go:94; writePump,
\* websocket.go): for any connections, emitters and sizes of the queues, a
\* client receives the events that follow its registration, in their order,
\* without a gap or a repeat, until it is cut off.
THEOREM HubImplementsFeed == PeersSpec => FeedIsGapless
<1>1. H!HubAssumption
  BY PeersAssumption
<1>2. H!HubAssumption /\ H!Init => FeedInv /\ H!F!Init
  BY FeedInit DEF H!Init, H!F!Init, H!F!Unjoined
<1>3. H!HubAssumption /\ FeedInv /\ [H!Next]_(H!vars) => FeedInv' /\ [H!F!Next]_(H!F!vars)
  BY FeedStep
<1>4. QED
  BY <1>1, <1>2, <1>3, PeersRunHub, PTL DEF FeedIsGapless, H!FeedIsGapless, H!F!Spec

PeersInv == TypeInv /\ RecordsInv /\ FeedInv /\ part \in {"election", "records", "hub"}

\* Every variable of the part that moves keeps its type.
THEOREM PeersTypes == PeersSpec => []PeersTypeOK
<1>1. S!CertSyncAssumption /\ H!HubAssumption
  BY PeersAssumption
<1>2. PeersInit => PeersInv
  BY <1>1, TypeInit, RecordsInit, FeedInit DEF PeersInit, PeersInv
<1>3. PeersInv /\ [PeersNext]_<<part, vars, sVars, hVars>> => PeersInv'
  <2>1. [PeersNext]_<<part, vars, sVars, hVars>>
          => [Next]_vars /\ [S!Next]_(S!vars) /\ [H!Next]_(H!vars) /\ part' = part
    BY DEF PeersNext, sVars, hVars, S!vars, S!disk, S!clusterVars, S!writers, H!vars,
      H!hubVars, H!queueVars, H!connVars, H!procVars, H!engineVars, H!history
  <2>2. QED
    BY <1>1, <2>1, TypeStep, RecordsStep, FeedStep DEF PeersInv
<1>4. PeersInv => PeersTypeOK
  BY DEF PeersInv, TypeInv, RecordsInv, FeedInv, PeersTypeOK
<1>5. QED
  BY <1>2, <1>3, <1>4, PTL DEF PeersSpec

=============================================================================
