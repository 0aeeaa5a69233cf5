---------------------------- MODULE EngineTunnel ----------------------------
(***************************************************************************)
(* The tunnel lifecycle of engine/internal/engine: every goroutine that    *)
(* brings the device tunnel up, takes it down or reports on it.            *)
(*                                                                         *)
(*   boot        cmd/headless starts one tunnel at boot                    *)
(*   health      the watchdog loop (engine_health.go)                      *)
(*   Switchers   clients inside SwitchDriver                               *)
(*   Maintainers clients inside RestartTunnel or RestartServices           *)
(*                                                                         *)
(* A step is what one goroutine does inside one section of e.mu, or one    *)
(* call to the driver, so every window in which the code has let go of     *)
(* e.mu is a state of the model.  A driver instance is a natural number:   *)
(* driver 1 is built at boot, and each SwitchDriver that succeeds builds   *)
(* the next one.                                                           *)
(*                                                                         *)
(* An operator MutX, above X, is X with a plausible bug: the properties    *)
(* tell the two apart.  Nothing else uses it.                              *)
(***************************************************************************)
EXTENDS Integers, FiniteSets

CONSTANTS
    Switchers,    \* clients that call SwitchDriver, once each
    Maintainers,  \* clients that call RestartTunnel or RestartServices, once each
    boot, health, \* the two goroutines run.go starts
    None,         \* "no goroutine", a nil pointer or an empty address
    InjectFailureThreshold, \* failures at which injection is stalled (3)
    MaxFaults,    \* bound: daemon deaths and failed injections
    MaxMoves,     \* bound: times the device changes transport
    CanShutdown   \* whether the run may receive SIGTERM

Clients == Switchers \union Maintainers
Procs == Clients \union {boot, health}

ASSUME ProcsAssumption ==
    /\ IsFiniteSet(Switchers)
    /\ boot \notin Clients /\ health \notin Clients /\ boot # health
    /\ Switchers \intersect Maintainers = {}
    /\ None \notin Procs
ASSUME BoundsAssumption ==
    /\ InjectFailureThreshold \in Nat \ {0}
    /\ MaxFaults \in Nat /\ MaxMoves \in Nat /\ CanShutdown \in BOOLEAN

Drivers == 1 .. (Cardinality(Switchers) + 1)
Transports == {"usb", "wifi"}

VARIABLES
    drv,          \* e.drv: the current driver instance
    built,        \* how many driver instances exist
    gen,          \* e.driverGeneration
    tunnelMu,     \* holder of e.tunnelMu, or None
    startCancel,  \* whose start e.activeStartCancel would cancel, or None
    cancelled,    \* goroutines whose start context is done
    state,        \* e.st.State
    active,       \* e.st.TunnelActive
    rsd,          \* e.st.RSDAddress: [drv, ep] or None
    th,           \* e.st.TunnelHealth: [est, fails] or None
    overlooked,   \* history: drivers replaced by a switch that had captured another
    mount,        \* per driver: "off", "launching", "on", "lost" or "blind" (lost,
                  \* and the mount does not know)
    ep,           \* per driver: transport of the endpoint its mount caches
    device,       \* where the phone is: "usb", "wifi" or "away"
    pc,           \* per goroutine: the step it is about to take
    sdrv,         \* per goroutine: the driver it captured
    sgen,         \* per goroutine: the generation it captured
    ti,           \* per goroutine: the endpoint a driver call gave it
    phase,        \* "run", "stopping" (SIGTERM), "stopped"
    faults, moves \* the bounded environment's counters

engine == <<drv, built, gen, startCancel, overlooked>>
status == <<state, active, rsd, th>>
tunnels == <<mount, ep>>
locals == <<sdrv, sgen, ti>>
env == <<device, faults, moves>>
vars == <<engine, tunnelMu, cancelled, status, tunnels, env, pc, locals, phase>>

\* Steps inside StartTunnel, from the moment it holds tunnelMu.
StartSteps == {"call", "wait", "set", "okcheck", "publish", "stale",
               "errcheck", "errset", "end", "errend"}

\* The steps each kind of goroutine has of its own, outside StartTunnel.
HealthSteps == {"tick", "pick", "check", "rtt", "reresolve", "apply",
                "search", "hmark", "hstop"}
SwitchSteps == {"begin", "swstop", "swap"}
RestartSteps == {"rmark", "rpick", "rstop"}
ServiceSteps == {"vpick", "vmark", "vstop", "vkill"}

NewHealth == [est |-> FALSE, fails |-> 0]

\* The health block updateTunnelHealthLocked starts from: a nil block is
\* read as a zero one, so the update brings it back into existence.
Block == IF th = None THEN NewHealth ELSE th

At(p, step) == pc[p] = step
Goto(p, step) == pc' = [pc EXCEPT ![p] = step]

\* The endpoint a driver call gave is a local nobody reads again.
Forget(p) == ti' = [ti EXCEPT ![p] = None]

\* The starts whose context derives from the one SIGTERM ends.
MutOwnStarters == {boot}
OwnStarters == {boot, health}

FirstSteps(p) == CASE p = boot -> {"start"}
                   [] p = health -> {"tick"}
                   [] p \in Switchers -> {"begin"}
                   [] p \in Maintainers -> {"rmark", "vpick"}

\* Where StartTunnel returns to: the watchdog loops, the others are done.
AfterStart(p, outcome) == IF p = health THEN "tick" ELSE outcome

Init ==
    /\ drv = 1 /\ built = 1 /\ gen = 0
    /\ tunnelMu = None /\ startCancel = None /\ cancelled = {}
    /\ state = "idle" /\ active = FALSE /\ rsd = None /\ th = None
    /\ overlooked = {}
    /\ mount = [d \in Drivers |-> "off"]
    /\ ep = [d \in Drivers |-> "usb"]
    /\ device \in {"usb", "away"}
    /\ pc \in [Procs -> {"start", "tick", "begin", "rmark", "vpick"}]
    /\ \A p \in Procs : pc[p] \in FirstSteps(p)
    /\ sdrv = [p \in Procs |-> 1]
    /\ sgen = [p \in Procs |-> 0]
    /\ ti = [p \in Procs |-> None]
    /\ phase = "run" /\ faults = 0 /\ moves = 0

-----------------------------------------------------------------------------
(* Engine.StartTunnel                                                      *)

MutLockTunnelMu(p) == tunnelMu' = p
LockTunnelMu(p) == tunnelMu = None /\ tunnelMu' = p

MutSetActiveStart(p) == UNCHANGED startCancel
SetActiveStart(p) == startCancel' = p

\* tunnelMu is free and the tunnel is already up: StartTunnel returns nil.
StartNoop(p) ==
    /\ At(p, "start") /\ tunnelMu = None /\ active
    /\ Goto(p, AfterStart(p, "done"))
    /\ UNCHANGED <<engine, tunnelMu, cancelled, status, tunnels, env, locals, phase>>

\* Takes tunnelMu and captures driver and generation in one section of e.mu.
\* The start context is a fresh child: done already only if its parent is.
StartCapture(p) ==
    /\ At(p, "start") /\ ~active
    /\ LockTunnelMu(p)
    /\ sdrv' = [sdrv EXCEPT ![p] = drv]
    /\ sgen' = [sgen EXCEPT ![p] = gen]
    /\ SetActiveStart(p)
    /\ cancelled' = IF phase # "run" /\ p \in OwnStarters
                    THEN cancelled \union {p} ELSE cancelled \ {p}
    /\ state' = IF state = "idle" THEN "starting" ELSE state
    /\ Goto(p, "call")
    /\ UNCHANGED <<drv, built, gen, overlooked, active, rsd, th, tunnels, env, ti, phase>>

\* A mount with an endpoint, whether or not its daemon lives.
Up == {"on", "lost", "blind"}

\* TunnelMount.Start returns the cached endpoint of a mount that is on (even
\* when its daemon has died since); otherwise it launches the daemon.
DriverStart(p) ==
    /\ At(p, "call")
    /\ LET d == sdrv[p] IN
         \/ /\ mount[d] \in Up
            /\ ti' = [ti EXCEPT ![p] = ep[d]]
            /\ Goto(p, "okcheck")
            /\ UNCHANGED mount
         \/ /\ mount[d] \notin Up
            /\ mount' = [mount EXCEPT ![d] = "launching"]
            /\ Goto(p, "wait")
            /\ UNCHANGED ti
    /\ UNCHANGED <<engine, tunnelMu, cancelled, status, ep, env, sdrv, sgen, phase>>

MutDevicePresent == TRUE
DevicePresent == device # "away"

\* A poll that finds the tunnel the daemon has published for the device.
DriverFound(p) ==
    /\ At(p, "wait") /\ DevicePresent
    /\ mount[sdrv[p]] = "launching"
    /\ ti' = [ti EXCEPT ![p] = device]
    /\ Goto(p, "set")
    /\ UNCHANGED <<engine, tunnelMu, cancelled, status, tunnels, env, sdrv, sgen, phase>>

\* What set makes of the mount.  A daemon that ended since the poll is still
\* noticed if its reaper comes after set, and never if it came before: the
\* reaper marks a mount only once the mount has its command.
SetMount(m) == IF m = "launching" THEN {"on"} ELSE {"lost", "blind"}

\* TunnelMount.set, in a section of m.mu of its own: the mount is up.
DriverUp(p) ==
    LET d == sdrv[p] IN
    /\ At(p, "set")
    /\ \E m \in SetMount(mount[d]) : mount' = [mount EXCEPT ![d] = m]
    /\ ep' = [ep EXCEPT ![d] = ti[p]]
    /\ Goto(p, "okcheck")
    /\ UNCHANGED <<engine, tunnelMu, cancelled, status, env, locals, phase>>

MutGivesUp(p) == mount[sdrv[p]] = "off"
GivesUp(p) == p \in cancelled \/ device = "away" \/ mount[sdrv[p]] = "off"

\* The start gives up: its context is done, no device showed up before the
\* deadline, or the daemon exited.  Whatever was launched is killed and reaped.
DriverFail(p) ==
    /\ At(p, "wait") /\ GivesUp(p)
    /\ mount' = [mount EXCEPT ![sdrv[p]] = "off"]
    /\ Goto(p, "errcheck")
    /\ UNCHANGED <<engine, tunnelMu, cancelled, status, ep, env, locals, phase>>

IsCurrent(p) == sgen[p] = gen /\ sdrv[p] = drv

\* isCurrentDriverGeneration, in a section of e.mu of its own.
StartOkCheck(p) ==
    /\ At(p, "okcheck")
    /\ Goto(p, IF IsCurrent(p) THEN "publish" ELSE "stale")
    /\ UNCHANGED <<engine, tunnelMu, cancelled, status, tunnels, env, locals, phase>>

MutStopMount(d) == UNCHANGED mount
StopMount(d) == mount' = [mount EXCEPT ![d] = IF @ = "launching" THEN @ ELSE "off"]

\* A start that outlived its driver stops the tunnel it brought up.
StartStale(p) ==
    /\ At(p, "stale")
    /\ StopMount(sdrv[p])
    /\ Forget(p) /\ Goto(p, "end")
    /\ UNCHANGED <<engine, tunnelMu, cancelled, status, ep, env, sdrv, sgen, phase>>

MutSetEndpoint(p) ==
    rsd' = IF rsd = None THEN [drv |-> sdrv[p], ep |-> ti[p]] ELSE rsd
SetEndpoint(p) == rsd' = [drv |-> sdrv[p], ep |-> ti[p]]

StartPublish(p) ==
    /\ At(p, "publish")
    /\ active' = TRUE
    /\ SetEndpoint(p)
    /\ state' = IF state \in {"idle", "starting"} THEN "ready" ELSE state
    /\ th' = [est |-> TRUE, fails |-> 0]
    /\ Forget(p) /\ Goto(p, "end")
    /\ UNCHANGED <<engine, tunnelMu, cancelled, tunnels, env, sdrv, sgen, phase>>

StartErrCheck(p) ==
    /\ At(p, "errcheck")
    /\ Goto(p, IF IsCurrent(p) THEN "errset" ELSE "end")
    /\ UNCHANGED <<engine, tunnelMu, cancelled, status, tunnels, env, locals, phase>>

MutLeaveStarting(p) == UNCHANGED state
LeaveStarting(p) ==
    state' = IF IsCurrent(p) /\ state = "starting" THEN "idle" ELSE state

\* After the pairing hint (a driver call), the state is reset only if the
\* start is still current.
StartErrSet(p) ==
    /\ At(p, "errset")
    /\ LeaveStarting(p)
    /\ Goto(p, "errend")
    /\ UNCHANGED <<engine, tunnelMu, cancelled, active, rsd, th, tunnels, env, locals, phase>>

\* The deferred calls: clearActiveStart, then tunnelMu.Unlock.
StartEnd(p) ==
    /\ pc[p] \in {"end", "errend"}
    /\ startCancel' = IF gen = sgen[p] THEN None ELSE startCancel
    /\ tunnelMu' = None
    /\ Goto(p, AfterStart(p, IF pc[p] = "end" THEN "done" ELSE "failed"))
    /\ UNCHANGED <<drv, built, gen, overlooked, cancelled, status, tunnels, env, locals, phase>>

StartTunnel(p) ==
    \/ StartNoop(p) \/ StartCapture(p)
    \/ DriverStart(p) \/ DriverFound(p) \/ DriverUp(p) \/ DriverFail(p)
    \/ StartOkCheck(p) \/ StartStale(p) \/ StartPublish(p)
    \/ StartErrCheck(p) \/ StartErrSet(p) \/ StartEnd(p)

-----------------------------------------------------------------------------
(* Engine.SwitchDriver                                                     *)

MutAbortActiveStart == UNCHANGED cancelled
AbortActiveStart ==
    cancelled' = IF startCancel = None THEN cancelled
                 ELSE cancelled \union {startCancel}

\* First section of e.mu, before tunnelMu: fence off and abort any start.
SwitchBegin(s) ==
    /\ At(s, "begin")
    /\ sdrv' = [sdrv EXCEPT ![s] = drv]
    /\ gen' = gen + 1
    /\ AbortActiveStart
    /\ Goto(s, "swstop")
    /\ UNCHANGED <<drv, built, startCancel, overlooked, tunnelMu, status, tunnels, env, sgen, ti,
                   phase>>

\* Takes tunnelMu and stops the driver captured before it was taken.
SwitchStop(s) ==
    /\ At(s, "swstop")
    /\ LockTunnelMu(s)
    /\ StopMount(sdrv[s])
    /\ Goto(s, "swap")
    /\ UNCHANGED <<engine, cancelled, status, ep, env, locals, phase>>

\* driver.New built the replacement: install it, then unlock tunnelMu.  The
\* driver it replaces need not be the one it stopped.
SwitchSwap(s) ==
    /\ At(s, "swap")
    /\ built' = built + 1
    /\ drv' = built + 1
    /\ overlooked' = IF sdrv[s] = drv THEN overlooked ELSE overlooked \union {drv}
    /\ active' = FALSE /\ rsd' = None /\ state' = "idle"
    /\ tunnelMu' = None
    /\ Goto(s, "start")
    /\ UNCHANGED <<gen, startCancel, cancelled, th, tunnels, env, locals, phase>>

\* driver.New failed: the old driver stays installed, its tunnel stopped.
SwitchFail(s) ==
    /\ At(s, "swap")
    /\ startCancel' = None
    /\ state' = IF state = "starting" THEN "idle" ELSE state
    /\ tunnelMu' = None
    /\ Goto(s, "failed")
    /\ UNCHANGED <<drv, built, gen, overlooked, cancelled, active, rsd, th, tunnels, env, locals,
                   phase>>

SwitchDriver(s) == SwitchBegin(s) \/ SwitchStop(s) \/ SwitchSwap(s) \/ SwitchFail(s)

-----------------------------------------------------------------------------
(* The watchdog: Engine.healthLoop, one tick at a time.                    *)

\* No tunnel: retry a start (the backoff only decides how soon).
\* A tunnel: go on to pick the driver.  The context ends the loop.
HealthTick ==
    /\ At(health, "tick") /\ phase = "run"
    /\ Goto(health, IF active THEN "pick" ELSE "start")
    /\ UNCHANGED <<engine, tunnelMu, cancelled, status, tunnels, env, locals, phase>>

HealthPick ==
    /\ At(health, "pick")
    /\ sdrv' = [sdrv EXCEPT ![health] = drv]
    /\ Goto(health, "check")
    /\ UNCHANGED <<engine, tunnelMu, cancelled, status, tunnels, env, sgen, ti, phase>>

Reachable(d) == mount[d] = "on" /\ device = ep[d]
Stalled == th # None /\ Block.fails >= InjectFailureThreshold

HealthCheck ==
    /\ At(health, "check")
    /\ Goto(health, IF Reachable(sdrv[health]) /\ ~Stalled THEN "rtt" ELSE "reresolve")
    /\ UNCHANGED <<engine, tunnelMu, cancelled, status, tunnels, env, locals, phase>>

\* recordHealthRTT and setTunnelSearching touch fields the model leaves out,
\* but bring a dropped health block back into existence.
TouchHealth ==
    /\ pc[health] \in {"rtt", "search"}
    /\ th' = Block
    /\ Goto(health, "tick")
    /\ UNCHANGED <<engine, tunnelMu, cancelled, state, active, rsd, tunnels, env, locals, phase>>

\* ReresolveTunnel: ask the daemon where the device is now.  A launching
\* daemon may answer already; its mount has no endpoint to update yet.
ReresolveFound ==
    LET d == sdrv[health] IN
    /\ At(health, "reresolve") /\ DevicePresent
    /\ mount[d] \in {"on", "launching"}
    /\ ep' = IF mount[d] = "on" THEN [ep EXCEPT ![d] = device] ELSE ep
    /\ ti' = [ti EXCEPT ![health] = device]
    /\ Goto(health, "apply")
    /\ UNCHANGED <<engine, tunnelMu, cancelled, status, mount, env, sdrv, sgen, phase>>

\* What TunnelMount.DaemonRunning answers: whether a daemon that died did so
\* under the mount's eyes.
DaemonRunning(d) == mount[d] \in {"on", "blind"}

\* Nothing found: search on while the daemon is believed to run, restart it
\* otherwise.
ReresolveMissed ==
    LET d == sdrv[health] IN
    /\ At(health, "reresolve")
    /\ mount[d] = "on" => device = "away"
    /\ Goto(health, IF DaemonRunning(d) THEN "search" ELSE "hmark")
    /\ UNCHANGED <<engine, tunnelMu, cancelled, status, tunnels, env, locals, phase>>

\* applyTunnelUpdate: unconditional.
HealthApply ==
    /\ At(health, "apply")
    /\ active' = TRUE
    /\ SetEndpoint(health)
    /\ th' = Block
    /\ Forget(health) /\ Goto(health, "tick")
    /\ UNCHANGED <<engine, tunnelMu, cancelled, state, tunnels, env, sdrv, sgen, phase>>

MutMarkTunnelLost == UNCHANGED status
MarkTunnelLost ==
    IF active
    THEN /\ active' = FALSE /\ rsd' = None /\ th' = None
         /\ state' = IF state \in {"ready", "running"} THEN "idle" ELSE state
    ELSE UNCHANGED status

HealthMark ==
    /\ At(health, "hmark")
    /\ MarkTunnelLost
    /\ Goto(health, "hstop")
    /\ UNCHANGED <<engine, tunnelMu, cancelled, tunnels, env, locals, phase>>

HealthStop ==
    /\ At(health, "hstop")
    /\ StopMount(sdrv[health])
    /\ Goto(health, "start")
    /\ UNCHANGED <<engine, tunnelMu, cancelled, status, ep, env, locals, phase>>

HealthLoop ==
    \/ HealthTick \/ HealthPick \/ HealthCheck \/ TouchHealth
    \/ ReresolveFound \/ ReresolveMissed \/ HealthApply \/ HealthMark \/ HealthStop

-----------------------------------------------------------------------------
(* Engine.RestartTunnel and Engine.RestartServices: neither holds tunnelMu *)
(* until its last call, StartTunnel.                                       *)

RestartMark(p) ==
    /\ \/ At(p, "rmark") /\ Goto(p, "rpick")
       \/ At(p, "vmark") /\ Goto(p, "vstop")
    /\ MarkTunnelLost
    /\ UNCHANGED <<engine, tunnelMu, cancelled, tunnels, env, locals, phase>>

RestartPick(p) ==
    /\ \/ At(p, "rpick") /\ Goto(p, "rstop")
       \/ At(p, "vpick") /\ Goto(p, "vmark")
    /\ sdrv' = [sdrv EXCEPT ![p] = drv]
    /\ UNCHANGED <<engine, tunnelMu, cancelled, status, tunnels, env, sgen, ti, phase>>

RestartStop(p) ==
    /\ \/ At(p, "rstop") /\ Goto(p, "start")
       \/ At(p, "vstop") /\ Goto(p, "vkill")
    /\ StopMount(sdrv[p])
    /\ UNCHANGED <<engine, tunnelMu, cancelled, status, ep, env, locals, phase>>

Killed(m) == CASE m = "on" -> "lost" [] m = "launching" -> "off" [] OTHER -> m

\* KillProcessesMatching("pymobiledevice3"): every daemon on the machine.
ServiceKill(p) ==
    /\ At(p, "vkill")
    /\ mount' = [d \in Drivers |-> Killed(mount[d])]
    /\ Goto(p, "start")
    /\ UNCHANGED <<engine, tunnelMu, cancelled, status, ep, env, locals, phase>>

Restart(p) == RestartMark(p) \/ RestartPick(p) \/ RestartStop(p) \/ ServiceKill(p)

-----------------------------------------------------------------------------
(* Injections, as the health block and the state see them.  The driver     *)
(* that answers may be one captured earlier, so either outcome is possible *)
(* whatever the mount says now; the guard on "starting" was read before    *)
(* the call, so the answer may also land while a start is under way.       *)

InjectionFails ==
    /\ Block.fails < InjectFailureThreshold
    /\ faults < MaxFaults /\ faults' = faults + 1
    /\ th' = [Block EXCEPT !.fails = @ + 1]
    /\ UNCHANGED <<engine, tunnelMu, cancelled, state, active, rsd, tunnels, device, moves, pc,
                   locals, phase>>

InjectionSucceeds ==
    /\ \E d \in Drivers : mount[d] = "on"
    /\ th' = [Block EXCEPT !.fails = 0]
    /\ state' = "running"
    /\ UNCHANGED <<engine, tunnelMu, cancelled, active, rsd, tunnels, env, pc, locals, phase>>

-----------------------------------------------------------------------------
(* The environment.                                                        *)

DaemonDies(d) ==
    /\ faults < MaxFaults
    /\ mount[d] \in {"on", "launching"}
    /\ mount' = [mount EXCEPT ![d] = Killed(@)]
    /\ faults' = faults + 1
    /\ UNCHANGED <<engine, tunnelMu, cancelled, status, ep, device, moves, pc, locals, phase>>

\* The user plugs the phone in, unplugs it, or walks out of range.
DeviceMoves ==
    /\ moves < MaxMoves
    /\ device' \in (Transports \union {"away"}) \ {device}
    /\ moves' = moves + 1
    /\ UNCHANGED <<engine, tunnelMu, cancelled, status, tunnels, faults, pc, locals, phase>>

\* run.go: SIGTERM ends the run context, from which the boot and watchdog
\* starts derive theirs.
Terminate ==
    /\ CanShutdown /\ phase = "run"
    /\ phase' = "stopping"
    /\ cancelled' = cancelled \union OwnStarters
    /\ UNCHANGED <<engine, tunnelMu, status, tunnels, env, pc, locals>>

\* run.go then stops the driver it built at boot, shuts the server down and
\* returns.  The process is gone then, whatever its goroutines were doing:
\* the behaviour stops, as it may at any point.
StopBootDriver ==
    /\ phase = "stopping"
    /\ StopMount(1)
    /\ phase' = "stopped"
    /\ UNCHANGED <<engine, tunnelMu, cancelled, status, ep, env, pc, locals>>

Goroutine(p) == StartTunnel(p) \/ SwitchDriver(p) \/ Restart(p)

Next ==
    \/ \E p \in Procs : Goroutine(p)
    \/ HealthLoop
    \/ InjectionFails \/ InjectionSucceeds
    \/ \E d \in Drivers : DaemonDies(d)
    \/ DeviceMoves \/ Terminate \/ StopBootDriver

Spec == Init /\ [][Next]_vars

\* Goroutines are scheduled, calls to the daemons return (they carry
\* deadlines), and a Go mutex is starvation free: a waiter that keeps
\* finding it free now and then gets it.
Fairness ==
    /\ \A p \in Procs : WF_vars(Goroutine(p))
    /\ \A p \in Procs : SF_vars(StartCapture(p) \/ StartNoop(p))
    /\ \A s \in Switchers : SF_vars(SwitchStop(s))
    /\ WF_vars(HealthLoop)

FairSpec == Spec /\ Fairness
-----------------------------------------------------------------------------
(* Properties.                                                             *)

Outcomes == {"done", "failed"}
Steps == {"start"} \union StartSteps \union HealthSteps \union SwitchSteps
         \union RestartSteps \union ServiceSteps \union Outcomes

\* Every variable keeps the values the engine gives it.
TypeOK ==
    /\ drv \in Drivers /\ built \in Drivers /\ gen \in 0 .. Cardinality(Switchers)
    /\ tunnelMu \in Procs \union {None}
    /\ startCancel \in Procs \union {None}
    /\ cancelled \subseteq Procs
    /\ state \in {"idle", "starting", "ready", "running"}
    /\ active \in BOOLEAN
    /\ rsd \in [drv : Drivers, ep : Transports \union {None}] \union {None}
    /\ th \in [est : BOOLEAN, fails : 0 .. InjectFailureThreshold] \union {None}
    /\ overlooked \subseteq Drivers
    /\ mount \in [Drivers -> {"off", "launching"} \union Up]
    /\ ep \in [Drivers -> Transports]
    /\ device \in Transports \union {"away"}
    /\ pc \in [Procs -> Steps]
    /\ sdrv \in [Procs -> Drivers]
    /\ sgen \in [Procs -> 0 .. Cardinality(Switchers)]
    /\ ti \in [Procs -> Transports \union {None}]
    /\ phase \in {"run", "stopping", "stopped"}
    /\ faults \in 0 .. MaxFaults /\ moves \in 0 .. MaxMoves

InStart(p) == pc[p] \in StartSteps
InMutex(p) == InStart(p) \/ pc[p] = "swap"

\* A switch that has raised the generation and not yet dealt with the state.
SwitchPending == \E s \in Switchers : pc[s] \in {"swstop", "swap"}

\* StartTunnel runs alone: two `tunnel start` daemons never race for the
\* info port, and no driver is swapped under a start (tunnelMu's comment).
StartsSerialised == \A p, q \in Procs : InMutex(p) /\ InMutex(q) => p = q

\* A start that reaches its publish section publishes the current driver's
\* endpoint: the generation check and the publication are two sections of
\* e.mu, and a switch may begin in between, but none can replace the driver.
PublishesCurrentDriver == \A p \in Procs : pc[p] = "publish" => sdrv[p] = drv

\* activeStartCancel always belongs to the start that holds tunnelMu, so
\* SwitchDriver never cancels a start other than the one it waits for.
CancelIsHolders == \A p \in Procs : InStart(p) => startCancel = p

\* A start whose generation a switch has outdated has had its context
\* cancelled: it cannot hold the switch up for its whole budget.
FencedStartsAreCancelled ==
    \A p \in Procs : InStart(p) /\ sgen[p] # gen => p \in cancelled

\* "starting" (which makes every injection fail) always has somebody who
\* will end it: a start still under way and current, or a pending switch.
StartingIsOwned ==
    state = "starting" =>
        \/ SwitchPending
        \/ \E p \in Procs : /\ pc[p] \in StartSteps \ {"stale", "end", "errend"}
                            /\ IsCurrent(p)

\* A driver that was replaced never owns a daemon again, whatever starts,
\* restarts and watchdog ticks are in flight, but for one: the driver a switch
\* replaced while it had stopped another, for a switch that overlapped it had
\* installed that driver in between (engine_tunnel.go:51 and 66).
OnlyCurrentDaemon ==
    \A d \in Drivers : mount[d] # "off" => d = drv \/ d \in overlooked

\* The starts the engine makes of its own accord end with the run: after
\* SIGTERM neither boot nor the watchdog is inside a start that could go on.
OwnStartsEndWithTheRun ==
    phase # "run" => \A p \in {boot, health} : InStart(p) => p \in cancelled

\* A start, a switch and the state they share, as their callers rely on them.
Under == {<<p, sdrv[p]>> : p \in {q \in Procs : InStart(q)}}
Fenced == {p \in Procs : InStart(p) /\ sgen[p] # gen /\ p \in cancelled}
Waiting == {s \in Switchers : pc[s] \in {"swstop", "swap"}}
F == INSTANCE StartFence
     WITH Goroutines <- Procs, Switches <- Switchers, current <- drv, under <- Under,
          fenced <- Fenced, waiting <- Waiting, starting <- (state = "starting")

\* Whoever starts, switches, restarts and cancels at once, what StartTunnel and
\* SwitchDriver promise each other holds (engine.go:41-49).
StartsAreFenced == F!Spec

\* If the phone stays within reach, the current driver ends up with a live
\* tunnel to it for good, and the engine knows: what the watchdog promises,
\* through any switch, restart, daemon death or transport change, unless the
\* mount is left holding a daemon whose death it did not notice.
Connected == active /\ mount[drv] = "on" /\ device = ep[drv]
TunnelHeals ==
    <>[](device # "away" /\ mount[drv] # "blind") => <>[]Connected

\* The status ends up showing the endpoint the phone is reached through.
StatusHeals ==
    <>[](device # "away") => <>[](rsd = [drv |-> drv, ep |-> device])

\* A switch never waits for ever, even with the phone away.
SwitchesComplete == \A s \in Switchers : pc[s] = "swstop" ~> pc[s] \in Outcomes

\* What the sources say and concurrent steps contradict.  StatusHeals is
\* one of them once a switch runs (engine_test.go:853).

\* "Only when the daemon itself is gone does it tear down and restart the
\* tunnel" (engine_health.go:97): it does not when the mount missed the end.
DaemonDeathIsRepaired == <>[](device # "away") => <>[]Connected

\* "Abort a doomed old-driver start immediately" (engine.go:46): while a
\* switch waits for tunnelMu, the start that holds it has been cancelled.
DoomedStartsAreAborted ==
    \A s \in Switchers, p \in Procs :
        pc[s] = "swstop" /\ pc[p] \in {"call", "wait"} => p \in cancelled

\* "Drop the health block so the UI doesn't show a stale uptime for a
\* tunnel that no longer exists" (engine_tunnel.go:271).
NoUptimeWithoutTunnel == ~active => th = None \/ ~th.est

\* "A failed restart must surface the error, not report a tunnel that isn't
\* there" (engine_maintenance_test.go:60).
RestartDelivers ==
    [][\A r \in Maintainers :
        pc[r] # "done" /\ pc'[r] = "done" => mount'[drv'] = "on"]_vars

\* "Without this, SIGTERM leaves the daemon and its child processes running
\* as orphans" (run.go:182): the shutdown stops the tunnel that is mounted.
ShutdownStopsTheTunnel ==
    [][phase = "stopping" /\ phase' = "stopped"
        => \A d \in Drivers : mount'[d] # "on"]_vars
=============================================================================
