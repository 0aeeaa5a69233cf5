-------------------------------- MODULE Feed --------------------------------
(***************************************************************************)
(* What a WebSocket client may rely on: from the moment it joins, the      *)
(* status events it receives are those the engine published, in the order  *)
(* they were published, without a gap and without a repeat.  A client may  *)
(* be cut off at any time and then simply receives no more.                *)
(*                                                                         *)
(* Module Hub implements this specification.                               *)
(***************************************************************************)
EXTENDS Integers, Sequences

CONSTANTS Clients, Versions

VARIABLES
    log,   \* the events published so far
    start, \* per client: how many of them were published when it joined
    got    \* per client: the events it received

vars == <<log, start, got>>

Unjoined == -1

TypeOK ==
    /\ log \in Seq(Versions)
    /\ start \in [Clients -> Nat \union {Unjoined}]
    /\ got \in [Clients -> Seq(Versions)]

Init ==
    /\ log = <<>>
    /\ start = [c \in Clients |-> Unjoined]
    /\ got = [c \in Clients |-> <<>>]

Publish(v) == log' = Append(log, v) /\ UNCHANGED <<start, got>>

Join(c) ==
    /\ start[c] = Unjoined
    /\ start' = [start EXCEPT ![c] = Len(log)]
    /\ UNCHANGED <<log, got>>

\* The next event, and no other.
Receive(c) ==
    /\ start[c] # Unjoined
    /\ start[c] + Len(got[c]) < Len(log)
    /\ got' = [got EXCEPT ![c] = Append(@, log[start[c] + Len(@) + 1])]
    /\ UNCHANGED <<log, start>>

Next ==
    \/ \E v \in Versions : Publish(v)
    \/ \E c \in Clients : Join(c) \/ Receive(c)

Spec == Init /\ [][Next]_vars
=============================================================================
