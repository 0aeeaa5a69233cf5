------------------------- MODULE MCEngineSimulation -------------------------
(***************************************************************************)
(* EngineSimulation as TLC checks it.  Beside a client that calls whatever *)
(* it likes there is a guest, who only controls, whatever the tunnel does; *)
(* or, in a duet, plays patrols while the client plays routes, pauses and  *)
(* stops and nothing else happens to the engine before the last call.      *)
(***************************************************************************)
EXTENDS EngineSimulation

CONSTANT guest
VARIABLE duet

\* The steps a client may come to in a duet.
Duet(c) == IF c = guest THEN {"idle", "patrol"}
           ELSE {"idle", "route", "clear", "showpause", "showresume"}

MCInit == Init /\ duet \in BOOLEAN
MCNext ==
    /\ Next
    /\ UNCHANGED duet
    /\ IF duet THEN /\ \A c \in Clients : pc'[c] \in Duet(c)
                    /\ Environment => ClientInjects /\ calls = MaxCalls
       ELSE pc'[guest] \notin {"route", "patrol", "unreadable"}
mcVars == <<vars, duet>>

MCSpec == MCInit /\ [][MCNext]_mcVars /\ Fairness
=============================================================================
