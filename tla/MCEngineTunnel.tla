--------------------------- MODULE MCEngineTunnel ---------------------------
(* EngineTunnel on small sets of clients, named in each .cfg.              *)
EXTENDS EngineTunnel

CONSTANTS s2, m1   \* the second switch and the restart, where a .cfg has them

\* Those of the two that have begun.
Companions ==
    {p \in Clients : \/ p = s2 /\ p \in Switchers /\ pc[p] # "begin"
                     \/ p = m1 /\ p \in Maintainers /\ pc[p] \notin FirstSteps(p)}

\* What the first switch, boot and the watchdog meet in one behaviour: a second
\* switch, a restart (which may kill daemons), or a fault and a shutdown.
OneCompanion ==
    /\ Cardinality(Companions) <= 1
    /\ Companions # {} => faults = 0 /\ phase = "run"
=============================================================================
