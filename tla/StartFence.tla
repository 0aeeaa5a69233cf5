----------------------------- MODULE StartFence -----------------------------
(***************************************************************************)
(* What StartTunnel and SwitchDriver promise each other (engine.go:41-49): *)
(* at most one start is under way, it keeps the driver it began with, and  *)
(* that driver is not replaced before it ends.  A switch that begins       *)
(* fences off whatever start is under way: the start is outdated, its      *)
(* context is done, and it stays so until it ends.  "starting" is never    *)
(* left behind with neither a start nor a switch to end it.                *)
(*                                                                         *)
(* Module EngineTunnel implements this specification.                      *)
(***************************************************************************)
CONSTANTS Goroutines, Switches, Drivers

VARIABLES
    current, \* the driver in use
    under,   \* the start under way, as a set of at most one: <<goroutine, driver>>
    fenced,  \* the goroutines whose start is outdated and cancelled
    waiting, \* the switches that have begun and not yet replaced the driver
    starting \* whether clients are told "starting"

vars == <<current, under, fenced, waiting, starting>>

Init ==
    /\ current \in Drivers /\ under = {} /\ fenced = {} /\ waiting = {}
    /\ starting = FALSE

Begin(p) ==
    /\ under = {} /\ under' = {<<p, current>>}
    /\ starting' \in BOOLEAN /\ (starting => starting')
    /\ UNCHANGED <<current, fenced, waiting>>

\* It published its tunnel or gave up, or an injection got through.
Settle == starting' = FALSE /\ UNCHANGED <<current, under, fenced, waiting>>

End ==
    /\ under # {} /\ (starting => waiting # {})
    /\ under' = {} /\ fenced' = {}
    /\ UNCHANGED <<current, waiting, starting>>

Fence(s) ==
    /\ s \notin waiting /\ waiting' = waiting \union {s}
    /\ fenced' = {x[1] : x \in under}
    /\ UNCHANGED <<current, under, starting>>

\* The driver is replaced, or kept because its replacement could not be built.
Replace(s) ==
    /\ s \in waiting /\ under = {} /\ waiting' = waiting \ {s}
    /\ current' \in Drivers /\ starting' = FALSE
    /\ UNCHANGED <<under, fenced>>

Next ==
    \/ \E p \in Goroutines : Begin(p)
    \/ \E s \in Switches : Fence(s) \/ Replace(s)
    \/ Settle \/ End

Spec == Init /\ [][Next]_vars
=============================================================================
