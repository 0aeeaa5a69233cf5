-------------------------- MODULE EngineSimulation --------------------------
(***************************************************************************)
(* Route and patrol simulations of engine/internal/engine: the clients     *)
(* that play, pause, resume and stop them (engine_routes.go), and the      *)
(* goroutine each of them is (simulation.go).                              *)
(*                                                                         *)
(* e.simMu guards which simulation is current and whether it is paused,    *)
(* e.mu guards the status; no operation holds both, so every call is two   *)
(* steps or more.  Simulations are numbered in the order they are started. *)
(* Positions are left out: a point of a plan is its index.                 *)
(*                                                                         *)
(* An operator MutX, above X, is X with a plausible bug: the properties    *)
(* tell the two apart.  Nothing else uses it.                              *)
(***************************************************************************)
EXTENDS Naturals, FiniteSets

CONSTANTS
    Players,      \* clients that may start simulations
    Controllers,  \* clients that only stop, pause, resume or switch driver
    Calls,        \* what clients ask for: a subset of AllCalls
    Length,       \* number of points of a route's plan
    MaxCalls      \* bound: calls the clients make altogether

Starters == {"play", "badplay", "patrol"}
AllCalls == Starters \union {"unpatrol", "stop", "pause", "resume", "switch"}
Clients == Players \union Controllers

ASSUME CallsAssumption == Calls \subseteq AllCalls /\ IsFiniteSet(Players)
ASSUME SimBoundsAssumption == Length \in Nat \ {0} /\ MaxCalls \in Nat

Sims == 1 .. MaxCalls
NoSim == 0
NoNav == "none"

VARIABLES
    cancelSim,    \* whose context e.cancelSim cancels, NoSim when nil
    simPaused,    \* e.simPaused
    made,         \* simulations started so far
    kind,         \* per simulation: "route", "loop" (looping) or "patrol"
    done,         \* per simulation: its context is cancelled
    at,           \* per simulation: the step its goroutine is about to take
    index,        \* per route: the next point to inject
    raced,        \* history: the simulations installed while another call planned
    state,        \* e.st.State
    active,       \* e.st.TunnelActive
    nav,          \* e.st.Navigation.Status.State, NoNav when nil
    progress,     \* whether e.st.Navigation.Progress is set
    preview,      \* the route whose preview is shown, NoSim when nil
    pc,           \* per client: the step of the call it is in
    calls         \* calls made so far

control == <<cancelSim, simPaused>>
sims == <<made, kind, done, at, index, raced>>
shown == <<nav, progress, preview>>
vars == <<control, sims, state, active, shown, pc, calls>>

Init ==
    /\ cancelSim = NoSim /\ simPaused = FALSE
    /\ made = 0
    /\ kind = [i \in Sims |-> "route"]
    /\ done = [i \in Sims |-> FALSE]
    /\ at = [i \in Sims |-> "unborn"]
    /\ index = [i \in Sims |-> 0]
    /\ raced = {}
    /\ state = "idle" /\ active = FALSE
    /\ nav = NoNav /\ progress = FALSE /\ preview = NoSim
    /\ pc = [c \in Clients |-> "idle"]
    /\ calls = 0

-----------------------------------------------------------------------------
(* The clients.                                                            *)

\* stopActiveSimulation, one section of simMu.
MutStopActive ==
    /\ done' = [i \in Sims |-> done[i] \/ i = cancelSim]
    /\ cancelSim' = NoSim
    /\ UNCHANGED simPaused
StopActive ==
    /\ done' = [i \in Sims |-> done[i] \/ i = cancelSim]
    /\ cancelSim' = NoSim
    /\ simPaused' = FALSE

Goto(c, step) == pc' = [pc EXCEPT ![c] = step]

\* Client c makes one more call, of the given kind, and comes to a step.
Enter(c, call, step) ==
    /\ pc[c] = "idle" /\ call \in Calls
    /\ call \in Starters => c \in Players
    /\ calls < MaxCalls /\ calls' = calls + 1
    /\ Goto(c, step)

\* Every call but pause and resume begins by cancelling what is running.
NextStep(call) == CASE call = "play" -> "route"
                    [] call = "badplay" -> "unreadable"
                    [] call = "patrol" -> "patrol"
                    [] call = "unpatrol" -> "idle"
                    [] call = "stop" -> "clear"
                    [] call = "switch" -> "swap"

Begin(c) ==
    /\ \E call \in AllCalls \ {"pause", "resume"} : Enter(c, call, NextStep(call))
    /\ StopActive
    /\ UNCHANGED <<made, kind, at, index, raced, state, active, shown>>

\* The calls between their stop and the installation of their cancel function.
Planning == {c \in Clients : pc[c] \in {"route", "patrol"}}
Race(c) == raced' = IF Planning \subseteq {c} THEN raced ELSE raced \union {made + 1}

\* The plan is made (by a routing provider, or from the GPX): install the
\* cancel function and start the goroutine.
MutInstall(c) ==
    /\ c \in Planning
    /\ made' = made + 1 /\ Race(c)
    /\ UNCHANGED cancelSim
    /\ kind' = [kind EXCEPT ![made + 1] = "route"]
    /\ at' = [at EXCEPT ![made + 1] = "first"]
    /\ Goto(c, "idle")
    /\ UNCHANGED <<simPaused, done, index, state, active, shown, calls>>
Install(c) ==
    /\ c \in Planning
    /\ made' = made + 1 /\ Race(c)
    /\ cancelSim' = made + 1
    /\ \E k \in IF pc[c] = "patrol" THEN {"patrol"} ELSE {"route", "loop"} :
         kind' = [kind EXCEPT ![made + 1] = k]
    /\ at' = [at EXCEPT ![made + 1] = "first"]
    /\ Goto(c, "idle")
    /\ UNCHANGED <<simPaused, done, index, state, active, shown, calls>>

\* No usable points: the error return, which restores nothing.
Reject(c) ==
    /\ pc[c] = "unreadable"
    /\ Goto(c, "idle")
    /\ UNCHANGED <<control, sims, state, active, shown, calls>>

\* StopRoute's section of e.mu.
Clear(c) ==
    /\ pc[c] = "clear"
    /\ state' = "ready"
    /\ nav' = NoNav /\ progress' = FALSE /\ preview' = NoSim
    /\ Goto(c, "idle")
    /\ UNCHANGED <<control, sims, active, calls>>

\* PauseRoute and ResumeRoute: the flag under simMu, then the status.
Flag(c) ==
    /\ cancelSim # NoSim
    /\ \/ Enter(c, "pause", "showpause") /\ simPaused' = TRUE
       \/ Enter(c, "resume", "showresume") /\ simPaused' = FALSE
    /\ UNCHANGED <<cancelSim, sims, state, active, shown>>

Show(c) ==
    /\ \/ /\ pc[c] = "showpause" /\ state' = "paused"
          /\ nav' = IF nav = NoNav THEN NoNav ELSE "paused"
       \/ /\ pc[c] = "showresume" /\ state' = "moving"
          /\ nav' = IF nav = NoNav THEN NoNav ELSE "running"
    /\ Goto(c, "idle")
    /\ UNCHANGED <<control, sims, active, progress, preview, calls>>

\* SwitchDriver installed the new driver; the tunnel comes back later.
Swap(c) ==
    /\ pc[c] = "swap"
    /\ active' = FALSE /\ state' = "idle"
    /\ Goto(c, "idle")
    /\ UNCHANGED <<control, sims, shown, calls>>

Client(c) == Install(c) \/ Reject(c) \/ Clear(c) \/ Show(c) \/ Swap(c)

-----------------------------------------------------------------------------
(* The goroutine of simulation i.                                          *)

IsRoute(i) == kind[i] \in {"route", "loop"}
Walk(i, step) == at' = [at EXCEPT ![i] = step]

\* The first write, refused if the context is done already: the check and
\* the write share one section of e.mu with StopRoute's.
MutFirst(i) ==
    /\ at[i] = "first"
    /\ state' = "moving"
    /\ IF IsRoute(i) THEN nav' = "running" /\ preview' = i
                     ELSE UNCHANGED <<nav, preview>>
    /\ Walk(i, "tick")
    /\ UNCHANGED <<control, made, kind, done, index, raced, active, progress, pc, calls>>
First(i) ==
    /\ at[i] = "first" /\ ~done[i]
    /\ state' = "moving"
    /\ IF IsRoute(i) THEN nav' = "running" /\ preview' = i
                     ELSE UNCHANGED <<nav, preview>>
    /\ Walk(i, "tick")
    /\ UNCHANGED <<control, made, kind, done, index, raced, active, progress, pc, calls>>

StillBorn(i) ==
    /\ at[i] = "first" /\ done[i]
    /\ Walk(i, "ended")
    /\ UNCHANGED <<control, made, kind, done, index, raced, state, active, shown, pc, calls>>

\* The select: a tick and a cancelled context may both be ready, in which
\* case either is taken.  A patrol that quits writes "ready".
MutQuit(i) ==
    /\ at[i] = "tick" /\ done[i] /\ ~IsRoute(i)
    /\ state' = "ready"
    /\ Walk(i, "ended")
    /\ UNCHANGED <<control, made, kind, done, index, raced, active, shown, pc, calls>>
Quit(i) ==
    /\ at[i] = "tick" /\ done[i]
    /\ state' = IF IsRoute(i) THEN state ELSE "ready"
    /\ Walk(i, "ended")
    /\ UNCHANGED <<control, made, kind, done, index, raced, active, shown, pc, calls>>

\* A tick that finds the simulation paused does nothing.
Tick(i) ==
    /\ at[i] = "tick" /\ ~simPaused
    /\ Walk(i, "step")
    /\ UNCHANGED <<control, made, kind, done, index, raced, state, active, shown, pc, calls>>

\* A route at its end: it finishes, without touching cancelSim.
Finish(i) ==
    /\ at[i] = "step" /\ kind[i] = "route" /\ index[i] >= Length
    /\ state' = "ready"
    /\ nav' = "stopped" /\ progress' = FALSE /\ preview' = NoSim
    /\ Walk(i, "ended")
    /\ UNCHANGED <<control, made, kind, done, index, raced, active, pc, calls>>

AfterInjection(i) == IF IsRoute(i) THEN "progress" ELSE "tick"

\* The next point, from the first one again in a looping route.
\* simSetLocation is refused outright while the tunnel is starting.
MutAim(i) ==
    /\ at[i] = "step" /\ ~(kind[i] = "route" /\ index[i] >= Length)
    /\ UNCHANGED index
    /\ Walk(i, IF state = "starting" /\ ~active THEN AfterInjection(i) ELSE "inject")
    /\ UNCHANGED <<control, made, kind, done, raced, state, active, shown, pc, calls>>
Aim(i) ==
    /\ at[i] = "step" /\ ~(kind[i] = "route" /\ index[i] >= Length)
    /\ index' = [index EXCEPT ![i] = IF @ >= Length THEN 0 ELSE @]
    /\ Walk(i, IF state = "starting" /\ ~active THEN AfterInjection(i) ELSE "inject")
    /\ UNCHANGED <<control, made, kind, done, raced, state, active, shown, pc, calls>>

\* The driver call fails, or succeeds and makes the state "running".
Inject(i) ==
    /\ at[i] = "inject"
    /\ state' \in {state, "running"}
    /\ Walk(i, AfterInjection(i))
    /\ UNCHANGED <<control, made, kind, done, index, raced, active, shown, pc, calls>>

\* Progress is written whatever came of the injection; the status index is
\* written only if StopRoute has not dropped the status meanwhile.
MutProgress(i) ==
    /\ at[i] = "progress"
    /\ progress' = TRUE
    /\ UNCHANGED index
    /\ Walk(i, "tick")
    /\ UNCHANGED <<control, made, kind, done, raced, state, active, nav, preview, pc, calls>>
Progress(i) ==
    /\ at[i] = "progress"
    /\ progress' = TRUE
    /\ index' = [index EXCEPT ![i] = @ + 1]
    /\ Walk(i, "tick")
    /\ UNCHANGED <<control, made, kind, done, raced, state, active, nav, preview, pc, calls>>

Simulation(i) ==
    \/ First(i) \/ StillBorn(i) \/ Quit(i) \/ Tick(i)
    \/ Finish(i) \/ Aim(i) \/ Inject(i) \/ Progress(i)

-----------------------------------------------------------------------------
(* The rest of the engine, as far as the state field shows it: the tunnel  *)
(* (module EngineTunnel) and the positions clients set and clear.          *)

TunnelStarting ==
    /\ ~active /\ state = "idle" /\ state' = "starting"
    /\ UNCHANGED <<control, sims, active, shown, pc, calls>>

TunnelUp ==
    /\ ~active /\ active' = TRUE
    /\ state' = IF state \in {"idle", "starting"} THEN "ready" ELSE state
    /\ UNCHANGED <<control, sims, shown, pc, calls>>

TunnelFailed ==
    /\ state = "starting" /\ state' = "idle"
    /\ UNCHANGED <<control, sims, active, shown, pc, calls>>

TunnelLost ==
    /\ active /\ active' = FALSE
    /\ state' = IF state \in {"ready", "running"} THEN "idle" ELSE state
    /\ UNCHANGED <<control, sims, shown, pc, calls>>

ClientInjects ==
    /\ state' = "running"
    /\ UNCHANGED <<control, sims, active, shown, pc, calls>>

ClientClears ==
    /\ state' = IF active THEN "ready" ELSE "idle"
    /\ UNCHANGED <<control, sims, active, shown, pc, calls>>

Environment ==
    \/ TunnelStarting \/ TunnelUp \/ TunnelFailed \/ TunnelLost
    \/ ClientInjects \/ ClientClears

Next ==
    \/ \E c \in Clients : Begin(c) \/ Flag(c) \/ Client(c)
    \/ \E i \in Sims : Simulation(i)
    \/ Environment

Spec == Init /\ [][Next]_vars

\* Calls return, tickers fire, and select, which picks among ready cases at
\* random, does not pass over the cancelled context for ever.
Fairness ==
    /\ \A c \in Clients : WF_vars(Client(c))
    /\ \A i \in Sims : WF_vars(Simulation(i)) /\ SF_vars(Quit(i))

FairSpec == Spec /\ Fairness
-----------------------------------------------------------------------------
(* Properties.                                                             *)

Born(i) == at[i] # "unborn"
Alive(i) == Born(i) /\ at[i] # "ended"

\* Every variable keeps the values the engine gives it; a route's index never
\* runs past its plan by more than the step that ends or restarts it.
TypeOK ==
    /\ cancelSim \in Sims \union {NoSim} /\ simPaused \in BOOLEAN
    /\ made \in 0 .. MaxCalls /\ calls \in 0 .. MaxCalls
    /\ kind \in [Sims -> {"route", "loop", "patrol"}]
    /\ done \in [Sims -> BOOLEAN]
    /\ at \in [Sims -> {"unborn", "first", "tick", "step", "inject", "progress", "ended"}]
    /\ index \in [Sims -> 0 .. Length]
    /\ raced \subseteq Sims
    /\ state \in {"idle", "starting", "ready", "running", "moving", "paused"}
    /\ active \in BOOLEAN
    /\ nav \in {NoNav, "running", "paused", "stopped"}
    /\ progress \in BOOLEAN
    /\ preview \in Sims \union {NoSim}
    /\ pc \in [Clients -> {"idle", "route", "unreadable", "patrol", "clear",
                           "swap", "showpause", "showresume"}]

\* A simulation whose context is not done is the one cancelSim cancels, so the
\* next stop reaches it, but for those installed while another call was between
\* its stop and its own installation, which may replace their cancel function
\* (engine_routes.go:93 and 131): nothing else makes a simulation run away.
NoRunaway ==
    \A i \in Sims : Born(i) /\ ~done[i] => cancelSim = i \/ i \in raced

\* A simulation is never born paused by a pause meant for an earlier one
\* (engine_routes_test.go:139), although installing it does not reset the flag,
\* unless the one that was paused raced with it.
BornUnpaused == [][made' # made /\ simPaused' => cancelSim \in raced]_vars

\* "Checking inside the same critical section StopRoute uses makes stop win
\* in either interleaving" (simulation.go:43): a route that was cancelled, by
\* whatever call, never comes on show afterwards, however late its goroutine.
StopWins == [][\A i \in Sims : done[i] /\ preview # i => preview' # i]_vars

\* No simulation goroutine outlives its use: StopRoute, and the replacement of
\* one simulation by the next, leave none behind, and a route that does not
\* loop reaches its last point although injections fail, unless it is paused.
Ends(i) == Born(i) /\ (done[i] \/ (at[i] = "tick" /\ kind[i] = "route"))
SimsEnd == \A i \in Sims : Ends(i) ~> at[i] = "ended" \/ (simPaused /\ ~done[i])

\* What the sources say and the code contradicts.

\* stopActiveSimulation "terminates any running routing/navigation or patrol
\* goroutines" (engine_routes.go:12): not one that another call replaced.
StopReachesAll == \A i \in Sims : Born(i) /\ ~done[i] => cancelSim = i

\* "simulationActive reports whether a route/patrol simulation goroutine is
\* currently running (so the idle keepalive stands down)" (engine_health.go:85).
SimulationActiveIsRunning == cancelSim # NoSim => Alive(cancelSim)

\* "PauseRoute freezes the active simulation in place: the goroutine keeps
\* running" (engine_routes.go:38): a paused engine has a simulation to resume.
PausedHasASimulation ==
    state = "paused" => \E i \in Sims : Alive(i) /\ ~done[i]

\* "The UI was then stuck on moving with a stale preview"
\* (engine_routes_test.go:271): the state says moving only while something
\* moves or a call is under way.
MovingHasASimulation ==
    state = "moving" =>
        \/ \E i \in Sims : Alive(i)
        \/ \E c \in Clients : pc[c] # "idle"

\* "NavigationProgress is the live progress of an active route"
\* (domain/types.go:111): StopRoute drops the status and the progress together.
ProgressHasAStatus == progress => nav # NoNav
=============================================================================
