---------------------------- MODULE TunnelMount -----------------------------
(***************************************************************************)
(* The tunnel mount the go-ios and pymobiledevice3 drivers share           *)
(* (driver/tunnel_mount.go), the StartTunnel that tries it twice           *)
(* (driver/goios/tunnel.go, driver/pmd3/tunnel.go), the watchdog's         *)
(* re-resolution (driver/endpoint.go) and the developer-image gate         *)
(* (driver/mountgate.go).                                                  *)
(*                                                                         *)
(* Each launch makes a daemon process of its own, a number from 1.  The    *)
(* owner holds the engine's tunnelMu: its starts and stops follow one      *)
(* another.  Stoppers stop the mount without it (RestartTunnel, Shutdown). *)
(* An endpoint is the daemon that answered for it.                         *)
(***************************************************************************)
EXTENDS Integers

CONSTANTS
    owner,      \* the goroutine that holds e.tunnelMu
    Stoppers,   \* goroutines that stop the mount without it
    MaxDaemons, \* bound: daemons launched
    MaxStops    \* bound: stops of a tunnel that is up

VARIABLES
    m,        \* the mount: on, cmd (0: none), info, exited (whose), lost
    proc,     \* per daemon: "none", "alive", "killed", "exited" or "reaped"
    step,     \* per goroutine: the step it is at
    held,     \* per goroutine: the daemon its call is about (0: none)
    answer,   \* the daemon whose endpoint the owner's start resolved
    attempt,  \* the owner's start: 1 kernel tunnel, 2 userspace tunnel
    ctxDone,  \* the owner's start is cancelled
    manual,   \* the driver was configured with a manual address
    image,    \* whether the device has the developer image mounted
    gate,     \* MountGate: whether it remembers so
    dog,      \* ReresolveActiveTunnel: "idle", "list" or "update"
    found,    \* the daemon whose endpoint it was listed
    stops     \* bound: stops so far

startVars == <<answer, attempt, ctxDone>>
imageVars == <<image, gate>>
dogVars == <<dog, found>>
vars == <<m, proc, step, held, startVars, manual, imageVars, dogVars, stops>>

Procs == Stoppers \union {owner}
Daemons == 1 .. MaxDaemons

MountAssumption ==
    owner \notin Stoppers /\ MaxDaemons \in Nat \ {0} /\ MaxStops \in Nat

TypeOK ==
    /\ m \in [on : BOOLEAN, cmd : 0 .. MaxDaemons, info : 0 .. MaxDaemons,
              lost : BOOLEAN, exited : 0 .. MaxDaemons]
    /\ proc \in [Daemons -> {"none", "alive", "killed", "exited", "reaped"}]
    /\ step \in [Procs -> {"idle", "image", "start", "poll", "set", "reap", "failed",
                           "kill", "stopping"}]
    /\ held \in [Procs -> 0 .. MaxDaemons]
    /\ answer \in 0 .. MaxDaemons /\ attempt \in {1, 2} /\ ctxDone \in BOOLEAN
    /\ manual \in BOOLEAN /\ image \in BOOLEAN /\ gate \in BOOLEAN
    /\ dog \in {"idle", "list", "update"} /\ found \in 0 .. MaxDaemons
    /\ stops \in 0 .. MaxStops

Init ==
    /\ m = [on |-> FALSE, cmd |-> 0, info |-> 0, lost |-> FALSE, exited |-> 0]
    /\ proc = [d \in Daemons |-> "none"]
    /\ step = [p \in Procs |-> "idle"] /\ held = [p \in Procs |-> 0]
    /\ answer = 0 /\ attempt = 1 /\ ctxDone = FALSE
    /\ manual \in BOOLEAN /\ image \in BOOLEAN /\ gate = FALSE
    /\ dog = "idle" /\ found = 0 /\ stops = 0

At(p, s) == step[p] = s
Goto(p, s) == step' = [step EXCEPT ![p] = s]

Running(d) == proc[d] \in {"alive", "killed"}

\* killProcess: the process group is told to end, and ends when it does.
Kill(d) == proc' = [proc EXCEPT ![d] = IF @ = "alive" THEN "killed" ELSE @]

\* What may answer on the port the daemon was told to serve: itself, or one
\* that has not ended yet.
Resolve == {d \in Daemons : Running(d)}

\* m.set: only StartTunnel calls it.
Set(cmd, info) ==
    m' = [m EXCEPT !.on = TRUE, !.cmd = cmd, !.info = info, !.lost = FALSE]

-----------------------------------------------------------------------------
(* StartTunnel.                                                            *)

StartTunnel ==
    /\ At(owner, "idle")
    /\ attempt' = 1 /\ ctxDone' = FALSE
    /\ Goto(owner, "image")
    /\ UNCHANGED <<m, proc, held, answer, manual, imageVars, dogVars, stops>>

\* mountDeveloperImage: nothing to do behind the gate; else the device is asked,
\* then the image is mounted if it can be.  Only what was observed is remembered.
MountImage ==
    /\ At(owner, "image")
    /\ \/ gate /\ UNCHANGED imageVars
       \/ ~gate /\ image /\ gate' = TRUE /\ UNCHANGED image
       \/ ~gate /\ ~image /\ image' = TRUE /\ gate' = TRUE
       \/ ~gate /\ UNCHANGED imageVars
    /\ Goto(owner, "start")
    /\ UNCHANGED <<m, proc, held, startVars, manual, dogVars, stops>>

\* The mount is up, or believed to be: its cached endpoint is returned.
\* (The bug: only a mount whose daemon lives is returned.)
MutUp == m.on /\ ~m.lost
Up == m.on
StartCached ==
    /\ At(owner, "start") /\ Up
    /\ Goto(owner, "idle")
    /\ UNCHANGED <<m, proc, held, startVars, manual, imageVars, dogVars, stops>>

\* A manual address: no daemon, unless the address does not parse.
StartManual ==
    /\ At(owner, "start") /\ ~Up /\ manual
    /\ \/ Set(0, 0) /\ Goto(owner, "idle")
       \/ Goto(owner, "failed") /\ UNCHANGED m
    /\ UNCHANGED <<proc, held, startVars, manual, imageVars, dogVars, stops>>

\* A leftover agent is told to go, and the daemon is launched, if it can be.
\* Nobody but the owner turns the mount on, so it is still off.
Launch ==
    /\ At(owner, "start") /\ ~Up /\ ~manual
    /\ \/ \E d \in Daemons :
             /\ proc[d] = "none" /\ \A e \in Daemons : e < d => proc[e] # "none"
             /\ proc' = [proc EXCEPT ![d] = "alive"]
             /\ held' = [held EXCEPT ![owner] = d]
             /\ m' = [m EXCEPT !.exited = d]
             /\ Goto(owner, "poll")
       \/ Goto(owner, "failed") /\ UNCHANGED <<m, proc, held>>
    /\ UNCHANGED <<startVars, manual, imageVars, dogVars, stops>>

\* One poll that finds a tunnel; the mount is set in a section of its own.
Resolved ==
    /\ At(owner, "poll")
    /\ answer' \in Resolve
    /\ Goto(owner, "set")
    /\ UNCHANGED <<m, proc, held, attempt, ctxDone, manual, imageVars, dogVars, stops>>

Publish ==
    /\ At(owner, "set")
    /\ Set(held[owner], answer)
    /\ held' = [held EXCEPT ![owner] = 0] /\ Goto(owner, "idle")
    /\ UNCHANGED <<proc, startVars, manual, imageVars, dogVars, stops>>

DaemonEnded ==
    /\ At(owner, "poll") /\ proc[held[owner]] = "reaped"
    /\ held' = [held EXCEPT ![owner] = 0] /\ Goto(owner, "failed")
    /\ UNCHANGED <<m, proc, startVars, manual, imageVars, dogVars, stops>>

\* The deadline, or the end of the caller's context.
MutGiveUp ==
    /\ At(owner, "poll")
    /\ UNCHANGED proc
    /\ held' = [held EXCEPT ![owner] = 0] /\ Goto(owner, "failed")
    /\ UNCHANGED <<m, startVars, manual, imageVars, dogVars, stops>>
GiveUp ==
    /\ At(owner, "poll")
    /\ Kill(held[owner])
    /\ Goto(owner, "reap")
    /\ UNCHANGED <<m, held, startVars, manual, imageVars, dogVars, stops>>

\* select on the reaper and on stopReapTimeout: p no longer waits.
Awaited(p, next) ==
    /\ held' = [held EXCEPT ![p] = 0] /\ Goto(p, next)
    /\ UNCHANGED <<m, proc, startVars, manual, imageVars, dogVars, stops>>

StartReaps == At(owner, "reap") /\ Awaited(owner, "failed")

\* A userspace tunnel is tried after a kernel one, except behind a manual
\* address or once the context has ended.
StartFails ==
    /\ At(owner, "failed")
    /\ IF attempt = 1 /\ ~manual /\ ~ctxDone
       THEN attempt' = 2 /\ Goto(owner, "start")
       ELSE Goto(owner, "idle") /\ UNCHANGED attempt
    /\ UNCHANGED <<m, proc, held, answer, ctxDone, manual, imageVars, dogVars, stops>>

CancelStart ==
    /\ step[owner] \in {"image", "start", "poll", "reap"} /\ ~ctxDone
    /\ ctxDone' = TRUE
    /\ UNCHANGED <<m, proc, step, held, answer, attempt, manual, imageVars, dogVars, stops>>

-----------------------------------------------------------------------------
(* Stop.                                                                   *)

\* Takes everything in one section and forgets it.
Stop(p) ==
    /\ At(p, "idle") /\ m.on /\ stops < MaxStops
    /\ m' = [m EXCEPT !.on = FALSE, !.cmd = 0, !.info = 0, !.lost = FALSE]
    /\ IF m.cmd = 0
       THEN UNCHANGED <<step, held>>
       ELSE held' = [held EXCEPT ![p] = m.cmd] /\ Goto(p, "kill")
    /\ stops' = stops + 1
    /\ UNCHANGED <<proc, startVars, manual, imageVars, dogVars>>

StopKills(p) ==
    /\ At(p, "kill")
    /\ Kill(held[p])
    /\ Goto(p, "stopping")
    /\ UNCHANGED <<m, held, startVars, manual, imageVars, dogVars, stops>>

StopWaits(p) == At(p, "stopping") /\ Awaited(p, "idle")

-----------------------------------------------------------------------------
(* The daemons and the phone.                                              *)

DaemonExits(d) ==
    /\ Running(d)
    /\ proc' = [proc EXCEPT ![d] = "exited"]
    /\ UNCHANGED <<m, step, held, startVars, manual, imageVars, dogVars, stops>>

\* The reaper goroutine: onDaemonExit, then close(reaped).
\* (The bug: any daemon's end marks the mount.)
MutReap(d) ==
    /\ proc[d] = "exited"
    /\ proc' = [proc EXCEPT ![d] = "reaped"]
    /\ m' = [m EXCEPT !.lost = TRUE]
    /\ UNCHANGED <<step, held, startVars, manual, imageVars, dogVars, stops>>
Reap(d) ==
    /\ proc[d] = "exited"
    /\ proc' = [proc EXCEPT ![d] = "reaped"]
    /\ m' = [m EXCEPT !.lost = @ \/ m.cmd = d]
    /\ UNCHANGED <<step, held, startVars, manual, imageVars, dogVars, stops>>

\* MountGateTTL passes; a device that was wiped has lost its image.
GateExpires ==
    /\ gate /\ gate' = FALSE /\ image' \in BOOLEAN
    /\ UNCHANGED <<m, proc, step, held, startVars, manual, dogVars, stops>>

-----------------------------------------------------------------------------
(* ReresolveActiveTunnel, for the watchdog.                                *)

IsManual == m.on /\ m.cmd = 0
DaemonRunning == m.on /\ m.cmd # 0 /\ ~m.lost

\* A manual mount is left alone.
Reresolve ==
    /\ dog = "idle" /\ m.on /\ ~IsManual
    /\ dog' = "list"
    /\ UNCHANGED <<m, proc, step, held, startVars, manual, imageVars, found, stops>>

\* Nothing listed, or the first endpoint of the mount's device.
Listed ==
    /\ dog = "list"
    /\ \/ dog' = "idle" /\ UNCHANGED found
       \/ found' \in Resolve /\ dog' = "update"
    /\ UNCHANGED <<m, proc, step, held, startVars, manual, imageVars, stops>>

\* UpdateInfo: the endpoint only, and only of a mount that is on.
UpdateInfo ==
    /\ dog = "update"
    /\ m' = IF m.on THEN [m EXCEPT !.info = found] ELSE m
    /\ dog' = "idle" /\ found' = 0
    /\ UNCHANGED <<proc, step, held, startVars, manual, imageVars, stops>>

-----------------------------------------------------------------------------
Next ==
    \/ StartTunnel \/ MountImage \/ StartCached \/ StartManual \/ Launch
    \/ Resolved \/ Publish \/ DaemonEnded \/ GiveUp \/ StartReaps \/ StartFails
    \/ CancelStart \/ GateExpires
    \/ \E p \in Procs : Stop(p) \/ StopKills(p) \/ StopWaits(p)
    \/ \E d \in Daemons : DaemonExits(d) \/ Reap(d)
    \/ Reresolve \/ Listed \/ UpdateInfo

Spec == Init /\ [][Next]_vars

-----------------------------------------------------------------------------
(* Properties.                                                             *)

\* Its daemon was reaped before set(): the mount never hears of it.
Blind == proc[m.cmd] = "reaped" /\ ~m.lost

\* The mount as its callers see it.
Phase ==
    IF m.on THEN IF m.cmd = 0 \/ Running(m.cmd) THEN "on"
                 ELSE IF Blind THEN "blind" ELSE "lost"
    ELSE IF step[owner] \in {"poll", "set"} /\ Running(held[owner]) THEN "launching"
    ELSE "off"

P == INSTANCE MountPhases WITH phase <- Phase

\* Whatever overlaps a start, the mount goes through the phases its callers
\* assume: a lost tunnel is never revived without a stop (tunnel_mount.go:88).
MountIsPhased == P!Spec

\* No daemon is orphaned: one that runs and was not told to end is the mount's,
\* or the one a start is waiting for, or about to be killed by a stop.
EveryDaemonIsHeld ==
    \A d \in Daemons : proc[d] = "alive" =>
        \/ m.on /\ m.cmd = d
        \/ step[owner] \in {"poll", "set"} /\ held[owner] = d
        \/ \E p \in Procs : step[p] = "kill" /\ held[p] = d

\* When the mount says its daemon is dead, it is: the watchdog restarts no
\* tunnel because an older daemon ended late (tunnel_mount.go:303-312).
LostIsTrue == m.on /\ m.lost => m.cmd # 0 /\ proc[m.cmd] = "reaped"

\* What the mount says of the daemons, and what it must not lose of them, are
\* both true, whoever starts, stops, re-resolves and reaps at once.
MountIsTrue == EveryDaemonIsHeld /\ LostIsTrue

-----------------------------------------------------------------------------
(* What the sources say, and the code does not do.                         *)

\* The health monitor can tell a dead daemon from one still searching
\* (tunnel_mount.go:49-53): not one that ended between the poll that found
\* its tunnel and set().
DeathIsNoticed ==
    m.on /\ m.cmd # 0 /\ proc[m.cmd] = "reaped" => m.lost

\* The endpoint is that of the mount's daemon (tunnel_mount.go:329).
EndpointIsOwn == m.on /\ m.cmd # 0 => m.info = m.cmd
=============================================================================
