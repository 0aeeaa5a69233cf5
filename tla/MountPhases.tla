---------------------------- MODULE MountPhases -----------------------------
(***************************************************************************)
(* What the engine may assume of one driver's tunnel mount: the life of a  *)
(* tunnel as its callers see it.  A tunnel goes up through a launch, can   *)
(* be lost, and once it is lost nothing but a stop clears it: no call      *)
(* turns a lost tunnel into a live one.                                    *)
(*                                                                         *)
(* Module TunnelMount implements this specification, and it is the mount   *)
(* that module EngineTunnel runs its goroutines against.                   *)
(***************************************************************************)
VARIABLE phase

vars == <<phase>>

Phases == {"off", "launching", "on", "lost", "blind"}

TypeOK == phase \in Phases

Init == phase = "off"

Move(from, to) == phase = from /\ phase' = to

Launch == Move("off", "launching")
Abandon == Move("launching", "off")
Publish == Move("launching", "on") \/ Move("off", "on")
\* The daemon died just before the start published its tunnel: the mount sees
\* it later, or never does, if it was reaped before the mount was up.
PublishDead == Move("off", "lost") \/ Move("off", "blind")
Lose == Move("on", "lost")
Stop == Move("on", "off") \/ Move("lost", "off") \/ Move("blind", "off")

Next == Launch \/ Abandon \/ Publish \/ PublishDead \/ Lose \/ Stop

Spec == Init /\ [][Next]_vars
=============================================================================
