--------------------------- MODULE MCClusterPeers ---------------------------
(* What an engine keeps up with others, each part run by itself: the first  *)
(* state picks the one that moves.  The election among engines (module      *)
(* MCCluster, extended), as S the pairing records two of them sync, and as  *)
(* H the clients its hub serves.                                            *)
EXTENDS MCCluster, Integers, Sequences

CONSTANTS
    Engines, Writers, MaxTime, MaxLosses,                                      \* S
    Conns, Emitters, SendCap, BroadcastCap, Burst, MaxChanges, MaxRequests     \* H

VARIABLES
    part,
    \* S
    file, time, clock, disturbed, mark, synced, sRole, follows, looked, pull, pushes, writer,
    puller, sFaults,
    \* H
    clients, broadcastC, hub, crashed, send, closed, conn, peer, tokens, reader, pump,
    asked, jobs, version, snapshot, greeting, fanned, from, got

S == INSTANCE CertSync WITH
    Nodes <- Engines, MaxFaults <- MaxLosses, role <- sRole, faults <- sFaults
H == INSTANCE Hub WITH writer <- pump

ASSUME PeersAssumption == S!CertSyncAssumption /\ H!HubAssumption

sVars == <<file, time, clock, disturbed, mark, synced, sRole, follows, looked, pull, pushes,
           writer, puller, sFaults>>
hVars == <<clients, broadcastC, hub, crashed, send, closed, conn, peer, tokens, reader, pump,
           asked, jobs, version, snapshot, greeting, fanned, from, got>>

PeersInit ==
    /\ part \in {"election", "records", "hub"}
    /\ Init /\ S!Init /\ H!Init
    /\ part # "election" => cut = {}

PeersNext ==
    \/ part = "election" /\ Next /\ UNCHANGED <<part, sVars, hVars>>
    \/ part = "records" /\ S!Next /\ UNCHANGED <<part, vars, hVars>>
    \/ part = "hub" /\ H!Next /\ UNCHANGED <<part, vars, sVars>>

\* CertSync's fairness and Hub's, for the behaviours in which they move.
Records(A) == part = "records" /\ A
Serving(A) == part = "hub" /\ ~crashed /\ A
PeersSpec ==
    /\ PeersInit /\ [][PeersNext]_<<part, vars, sVars, hVars>>
    /\ \A n \in Engines :
        /\ WF_sVars(Records(S!Beat(n))) /\ WF_sVars(Records(S!HandlePlists(n)))
    /\ WF_hVars(Serving(H!Telemetry)) /\ WF_hVars(Serving(H!FanOut))
    /\ \A c \in Conns : WF_hVars(Serving(H!Handler(c))) /\ WF_hVars(Serving(H!Pump(c)))

\* What is still is as it began: only the part that moves is looked at.
PeersTypeOK ==
    CASE part = "election" -> TypeOK
      [] part = "records" -> S!TypeOK
      [] part = "hub" -> H!TypeOK

NewerIsKept == S!NewerIsKept
SlavesPull == S!SlavesPull
FeedIsGapless == H!FeedIsGapless
GoneClientsLeave == H!GoneClientsLeave
=============================================================================
