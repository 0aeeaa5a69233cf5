------------------------------- MODULE Cluster -------------------------------
(***************************************************************************)
(* Master and slaves among the engines of one LAN: engine/internal/cluster.*)
(*                                                                         *)
(* Every node runs a heartbeat loop that polls its peers one by one, then  *)
(* settles on a master, then checks whether the master is dead, in three   *)
(* sections of m.mu and more.  A node that takes over tells its peers      *)
(* once, each from a goroutine of its own.  m.currentMaster is a peer, the *)
(* word "me" (Me), which is also what every claim carries, or empty.       *)
(*                                                                         *)
(* An operator MutX, above X, is X with a plausible bug: the properties    *)
(* tell the two apart.  Nothing else uses it.                              *)
(***************************************************************************)
EXTENDS Naturals, FiniteSets

CONSTANTS
    Nodes,
    AutoNodes,    \* nodes configured with mode "auto"; the others with "manual"
    Modes,        \* the modes saved: a subset of {"off", "manual", "auto"}
    Known,        \* per node: the peers it is configured with
    None, Me,     \* m.currentMaster empty, and "me"
    MaxEpoch,     \* bound: claims are posted, and nodes promoted, below it
    MaxClaims,    \* bound: claims posted by the operator
    MaxFaults,    \* bound: crashes, and links cut or restored
    MaxSaves      \* bound: settings saved

ASSUME ClusterAssumption ==
    /\ IsFiniteSet(Nodes) /\ AutoNodes \subseteq Nodes
    /\ Modes \subseteq {"off", "manual", "auto"}
    /\ Known \in [Nodes -> SUBSET Nodes] /\ \A n \in Nodes : n \notin Known[n]
    /\ None \notin Nodes /\ Me \notin Nodes /\ None # Me
    /\ MaxEpoch \in Nat /\ MaxClaims \in Nat /\ MaxFaults \in Nat /\ MaxSaves \in Nat

Pairs == {{n, p} : n \in Nodes, p \in Nodes}

VARIABLES
    up,           \* the nodes whose process runs
    cut,          \* the pairs of nodes that cannot reach each other
    mode,         \* per node: m.mode
    peers,        \* per node: the keys of m.peers
    online,       \* per node: the peers marked Online
    role,         \* per node: m.role
    epoch,        \* per node: m.epoch
    master,       \* per node: m.currentMaster
    stale,        \* per node: lastMasterSeen is more than masterDeadAfter ago
    beat,         \* per node: the context of its heartbeat loop
    pc,           \* per node: the step its heartbeat loop is about to take
    todo,         \* per node: the peers left to poll in this round
    found,        \* per node: masterFound and masterEpoch of this round
    claims,       \* takeover claims on their way
    claimed, faults, saves \* the bounded environment's counters

network == <<up, cut, faults>>
member == <<mode, peers, online>>
term == <<role, epoch, master, stale>>
round == <<pc, todo, found>>
vars == <<network, member, term, beat, round, claims, claimed, saves>>

Nobody == [node |-> None, epoch |-> 0]
Claim == [to : Nodes, from : Nodes, epoch : 1 .. MaxEpoch]

Configured(n) == IF n \in AutoNodes THEN "auto" ELSE "manual"

\* New; a restarted process is new.
Init ==
    /\ up = Nodes /\ cut \in SUBSET {e \in Pairs : Cardinality(e) = 2}
    /\ mode = [n \in Nodes |-> Configured(n)]
    /\ peers = Known /\ online = [n \in Nodes |-> {}]
    /\ role = [n \in Nodes |-> "slave"] /\ epoch = [n \in Nodes |-> 0]
    /\ master = [n \in Nodes |-> None] /\ stale = [n \in Nodes |-> TRUE]
    /\ beat = [n \in Nodes |-> "run"]
    /\ pc = [n \in Nodes |-> "wait"] /\ todo = [n \in Nodes |-> {}]
    /\ found = [n \in Nodes |-> Nobody]
    /\ claims = {} /\ claimed = 0 /\ faults = 0 /\ saves = 0

Reaches(n, p) == p \in up /\ {n, p} \notin cut
Set(f, n, v) == [f EXCEPT ![n] = v]

-----------------------------------------------------------------------------
(* The heartbeat loop.                                                     *)

Beat(n) ==
    /\ n \in up /\ pc[n] = "wait" /\ beat[n] # "dead"
    /\ pc' = Set(pc, n, "poll") /\ todo' = Set(todo, n, peers[n])
    /\ UNCHANGED <<network, member, term, beat, found, claims, claimed, saves>>

\* One peer's ping.  A peer that does not know us answers "forbidden", which
\* is an answer all the same: online, with no role.
Masters(n, p) == role[p] = "master" /\ n \in peers[p]

Poll(n, p) ==
    /\ n \in up /\ pc[n] = "poll" /\ p \in todo[n]
    /\ todo' = Set(todo, n, todo[n] \ {p})
    /\ IF Reaches(n, p) /\ beat[n] # "dead"
       THEN /\ online' = Set(online, n, online[n] \union {p})
            /\ found' = IF Masters(n, p) /\ epoch[p] >= found[n].epoch
                        THEN Set(found, n, [node |-> p, epoch |-> epoch[p]])
                        ELSE found
       ELSE /\ online' = Set(online, n, online[n] \ {p})
            /\ UNCHANGED found
    /\ UNCHANGED <<network, mode, peers, term, beat, pc, claims, claimed, saves>>

\* The last section of checkPeers.
Newer(n) == IF found[n].epoch > epoch[n] THEN found[n].epoch ELSE epoch[n]

MutFollow(n) ==
    IF found[n].epoch > epoch[n]
    THEN /\ master' = Set(master, n, found[n].node)
         /\ stale' = Set(stale, n, FALSE)
         /\ epoch' = Set(epoch, n, Newer(n))
    ELSE /\ master' = IF master[n] = Me THEN master ELSE Set(master, n, None)
         /\ UNCHANGED <<stale, epoch>>
Follow(n) ==
    IF found[n] # Nobody
    THEN /\ master' = Set(master, n, found[n].node)
         /\ stale' = Set(stale, n, FALSE)
         /\ epoch' = Set(epoch, n, Newer(n))
    ELSE /\ master' = IF master[n] = Me THEN master ELSE Set(master, n, None)
         /\ UNCHANGED <<stale, epoch>>

Settle(n) ==
    /\ n \in up /\ pc[n] = "poll" /\ todo[n] = {}
    /\ Follow(n)
    /\ found' = Set(found, n, Nobody) /\ pc' = Set(pc, n, "health")
    /\ UNCHANGED <<network, member, role, beat, todo, claims, claimed, saves>>

\* checkMasterHealth: the decision, and Takeover in a later section.
TakesOver(n) == mode[n] = "auto" /\ role[n] = "slave" /\ master[n] # None /\ stale[n]

CheckHealth(n) ==
    /\ n \in up /\ pc[n] = "health"
    /\ pc' = Set(pc, n, IF TakesOver(n) THEN "promote" ELSE "wait")
    /\ UNCHANGED <<network, member, term, beat, todo, found, claims, claimed, saves>>

MutHasQuorum(n) ==
    LET total == Cardinality(peers[n]) + 1 IN
    total <= 3 \/ (1 + Cardinality(online[n])) * 2 > total
HasQuorum(n) ==
    LET total == Cardinality(peers[n]) + 1 IN
    total < 3 \/ (1 + Cardinality(online[n])) * 2 > total

Promote(n) ==
    /\ n \in up /\ pc[n] = "promote" /\ HasQuorum(n) /\ epoch[n] < MaxEpoch
    /\ role' = Set(role, n, "master") /\ epoch' = Set(epoch, n, epoch[n] + 1)
    /\ master' = Set(master, n, Me) /\ stale' = Set(stale, n, FALSE)
    /\ claims' = claims \union
                     {[to |-> p, from |-> n, epoch |-> epoch[n] + 1] : p \in peers[n]}
    /\ pc' = Set(pc, n, "wait")
    /\ UNCHANGED <<network, member, beat, todo, found, claimed, saves>>

\* Takeover refused: no quorum (or the bound).
Refuse(n) ==
    /\ n \in up /\ pc[n] = "promote" /\ ~(HasQuorum(n) /\ epoch[n] < MaxEpoch)
    /\ pc' = Set(pc, n, "wait")
    /\ UNCHANGED <<network, member, term, beat, todo, found, claims, claimed, saves>>

Round(n) ==
    \/ Beat(n) \/ (\E p \in Nodes : Poll(n, p)) \/ Settle(n)
    \/ CheckHealth(n) \/ Promote(n) \/ Refuse(n)

-----------------------------------------------------------------------------
(* Claims.                                                                 *)

\* handleTakeover: a claim that is not newer is ignored.
MutAccept(n, e) ==
    /\ epoch' = Set(epoch, n, e) /\ role' = Set(role, n, "slave")
    /\ master' = Set(master, n, Me) /\ stale' = Set(stale, n, FALSE)
Accept(n, e) ==
    IF e <= epoch[n] THEN UNCHANGED term
    ELSE /\ epoch' = Set(epoch, n, e) /\ role' = Set(role, n, "slave")
         /\ master' = Set(master, n, Me) /\ stale' = Set(stale, n, FALSE)

\* requirePeer lets a peer through.
Deliver(c) ==
    /\ Reaches(c.from, c.to) /\ c.from \in peers[c.to]
    /\ Accept(c.to, c.epoch)
    /\ claims' = claims \ {c}
    /\ UNCHANGED <<network, member, beat, round, claimed, saves>>

\* The one request fails, or is forbidden; nothing sends it again.
Lose(c) ==
    /\ ~(Reaches(c.from, c.to) /\ c.from \in peers[c.to])
    /\ claims' = claims \ {c}
    /\ UNCHANGED <<network, member, term, beat, round, claimed, saves>>

\* The operator posts a claim from the node itself: requirePeer lets the
\* loopback address through.  A running program has no other first claim.
Post(n) ==
    /\ n \in up /\ epoch[n] < MaxEpoch
    /\ claimed < MaxClaims /\ claimed' = claimed + 1
    /\ Accept(n, epoch[n] + 1)
    /\ UNCHANGED <<network, member, beat, round, claims, saves>>

-----------------------------------------------------------------------------
(* Time, discovery, settings, crashes and the network.                     *)

\* Nothing relates masterDeadAfter to the time a claim or a poll takes: both
\* are settings, changed at run time (SetTuning).
Age(n) ==
    /\ ~stale[n] /\ stale' = Set(stale, n, TRUE)
    /\ UNCHANGED <<network, member, role, epoch, master, beat, round, claims, claimed, saves>>

\* handleDiscovered, while the browser's context lasts; our own
\* advertisement is skipped.
MutDiscover(n, p) ==
    /\ n \in up /\ mode[n] = "auto" /\ beat[n] # "dead"
    /\ Reaches(n, p) /\ p \notin peers[n]
    /\ peers' = Set(peers, n, peers[n] \union {p})
    /\ UNCHANGED <<network, mode, online, term, beat, round, claims, claimed, saves>>
Discover(n, p) ==
    /\ n \in up /\ mode[n] = "auto" /\ beat[n] # "dead"
    /\ Reaches(n, p) /\ p \notin peers[n] \union {n}
    /\ peers' = Set(peers, n, peers[n] \union {p})
    /\ UNCHANGED <<network, mode, online, term, beat, round, claims, claimed, saves>>

\* Mode "off" makes a node standalone, another mode a slave of what was that.
Enters(n, m) ==
    /\ mode' = Set(mode, n, m)
    /\ role' = Set(role, n, IF m = "off" THEN "standalone"
                            ELSE IF role[n] = "standalone" THEN "slave" ELSE role[n])

\* SaveSettings: UpdateConfig stops the loop and, unless the mode is "off",
\* starts one whose context is the request's.  A round under way settles: the
\* pings left in it fail, and would mark peers that are no longer listed.
Save(n, m) ==
    /\ n \in up /\ saves < MaxSaves /\ saves' = saves + 1
    /\ Enters(n, m)
    /\ master' = IF m = "off" THEN Set(master, n, None) ELSE master
    /\ beat' = Set(beat, n, IF m = "off" THEN "dead" ELSE "request")
    /\ peers' = Set(peers, n, Known[n]) /\ online' = Set(online, n, {})
    /\ todo' = Set(todo, n, {})
    /\ UNCHANGED <<network, epoch, stale, pc, found, claims, claimed>>

\* dispatch returns, which cancels that context.
RequestEnds(n) ==
    /\ beat[n] = "request" /\ beat' = Set(beat, n, "dead")
    /\ UNCHANGED <<network, member, term, round, claims, claimed, saves>>

\* The process ends.  On a graceful exit Release makes a master a slave, once
\* the server is shut down and nobody can see it.
Crash(n) ==
    /\ n \in up /\ faults < MaxFaults /\ faults' = faults + 1
    /\ up' = up \ {n}
    /\ UNCHANGED <<cut, member, term, beat, round, claims, claimed, saves>>

\* It starts again with the mode last saved, or with that of its command line.
Restart(n) ==
    /\ n \notin up /\ up' = up \union {n}
    /\ \E m \in {mode[n], Configured(n)} :
         /\ mode' = Set(mode, n, m)
         /\ role' = Set(role, n, IF m = "off" THEN "standalone" ELSE "slave")
         /\ beat' = Set(beat, n, IF m = "off" THEN "dead" ELSE "run")
    /\ peers' = Set(peers, n, Known[n]) /\ online' = Set(online, n, {})
    /\ epoch' = Set(epoch, n, 0)
    /\ master' = Set(master, n, None) /\ stale' = Set(stale, n, TRUE)
    /\ pc' = Set(pc, n, "wait")
    /\ todo' = Set(todo, n, {}) /\ found' = Set(found, n, Nobody)
    /\ UNCHANGED <<cut, faults, claims, claimed, saves>>

LinkChanges(n, p) ==
    /\ n # p /\ faults < MaxFaults /\ faults' = faults + 1
    /\ cut' = IF {n, p} \in cut THEN cut \ {{n, p}} ELSE cut \union {{n, p}}
    /\ UNCHANGED <<up, member, term, beat, round, claims, claimed, saves>>

Environment(n) ==
    \/ Post(n) \/ Age(n) \/ RequestEnds(n) \/ Crash(n) \/ Restart(n)
    \/ \E m \in Modes : Save(n, m)
    \/ \E p \in Nodes : Discover(n, p) \/ LinkChanges(n, p)

Next ==
    \/ \E n \in Nodes : Round(n) \/ Environment(n)
    \/ \E c \in claims : Deliver(c) \/ Lose(c)

Spec == Init /\ [][Next]_vars

\* Heartbeats go on, requests end, time passes, requests in flight end.
Fairness ==
    /\ \A n \in Nodes : WF_vars(Round(n)) /\ WF_vars(Age(n)) /\ WF_vars(RequestEnds(n))
    /\ \A c \in Claim : WF_vars(Deliver(c)) /\ WF_vars(Lose(c))

FairSpec == Spec /\ Fairness
-----------------------------------------------------------------------------
(* Properties.                                                             *)

\* Every variable keeps the values the manager gives it.
TypeOK ==
    /\ up \subseteq Nodes /\ cut \subseteq Pairs
    /\ peers \in [Nodes -> SUBSET Nodes] /\ online \in [Nodes -> SUBSET Nodes]
    /\ \A n \in Nodes : n \notin peers[n] /\ online[n] \subseteq peers[n]
    /\ role \in [Nodes -> {"standalone", "slave", "master"}]
    /\ mode \in [Nodes -> {"off", "manual", "auto"}]
    /\ epoch \in [Nodes -> 0 .. MaxEpoch]
    /\ master \in [Nodes -> Nodes \union {None, Me}]
    /\ stale \in [Nodes -> BOOLEAN]
    /\ beat \in [Nodes -> {"run", "request", "dead"}]
    /\ pc \in [Nodes -> {"wait", "poll", "health", "promote"}]
    /\ todo \in [Nodes -> SUBSET Nodes]
    /\ found \in [Nodes -> [node : Nodes \union {None}, epoch : 0 .. MaxEpoch]]
    /\ claims \subseteq Claim
    /\ claimed \in 0 .. MaxClaims /\ faults \in 0 .. MaxFaults /\ saves \in 0 .. MaxSaves

\* "It fences stale takeover claims after a network partition heals"
\* (cluster.go:144): whatever order claims, pings and restarts come in, a
\* running node's epoch never falls and only a newer epoch demotes a master.
StaleClaimsAreFenced ==
    [][\A n \in Nodes : n \in up /\ n \in up' =>
           /\ epoch'[n] >= epoch[n]
           /\ role[n] = "master" /\ role'[n] = "slave" => epoch'[n] > epoch[n]]_vars

\* hasQuorumLocked: a node that can reach only a minority of a cluster of
\* three or more never becomes master (cluster.go:455), as long as the links
\* stay as they are.
MajorityElects ==
    \A n \in Nodes : role[n] = "master" =>
        \/ Cardinality(Nodes) < 3
        \/ 2 * Cardinality({n} \union {p \in Nodes : {n, p} \notin cut}) > Cardinality(Nodes)

\* Once one node is master for good and its peers reach it, every one of them
\* ends up following it, at its epoch: a lost claim and a peer that was away
\* when the claim was made are caught up by the heartbeat.
Leads(m) ==
    /\ up = Nodes /\ cut = {}
    /\ \A n \in Nodes : role[n] = "master" <=> n = m
    /\ \A n \in Nodes : beat[n] = "run" /\ peers[n] = Nodes \ {n}

SlavesFollow ==
    \A m \in Nodes : <>[]Leads(m) =>
        <>[](\A n \in Nodes \ {m} : master[n] = m /\ epoch[n] >= epoch[m])

\* What the sources say and the code contradicts.

\* Quorum is there "to avoid two halves of a network partition both electing
\* themselves master at once" (cluster.go:454): nobody wins an epoch that a
\* running master holds.
OneWinnerPerEpoch ==
    [][\A n \in Nodes : role[n] = "slave" /\ role'[n] = "master" =>
           \A p \in up \ {n} : ~(role[p] = "master" /\ epoch[p] = epoch'[n])]_vars

\* A former master "must not be able to re-assert itself with its outdated
\* epoch-1 claim" (cluster.go:146): a master never takes an epoch it did not
\* win.
MastersKeepTheirEpoch ==
    [][\A n \in Nodes : role[n] = "master" /\ role'[n] = "master" => epoch'[n] = epoch[n]]_vars

\* "Manager owns cluster membership, heartbeating and master election"
\* (cluster.go:133): nodes that reach each other elect somebody.
AMasterIsElected == <>(\E n \in Nodes : role[n] = "master")

\* "Master unreachable, taking over" (cluster.go:448): when the master a node
\* follows is gone for good, somebody becomes master.
FailoverHappens ==
    \A n \in Nodes : \A m \in Nodes \ {n} :
        master[n] = m /\ m \notin up
            ~> m \in up \/ n \notin up \/ \E p \in up : role[p] = "master"

\* UpdateConfig restarts the "heartbeat/discovery as needed" (cluster.go:325):
\* a running node of a cluster has a heartbeat loop.
SavingKeepsTheHeartbeat == \A n \in up : mode[n] = "off" \/ beat[n] # "dead"
=============================================================================
