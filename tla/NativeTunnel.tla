---------------------------- MODULE NativeTunnel ----------------------------
(***************************************************************************)
(* The in-process go-ios driver (driver/goiosnative): a tunnel manager and *)
(* its update loop instead of a daemon, and a cached device handle instead *)
(* of a process per injected point.                                        *)
(*                                                                         *)
(* Each attempt builds a manager of its own, a number from 1.  As in       *)
(* TunnelMount the owner holds the engine's tunnelMu and Stoppers stop the *)
(* tunnel without it; one goroutine at a time injects (e.injectMu).  An    *)
(* endpoint is the manager that built the tunnel and the transport it runs *)
(* over.  Handles are numbered in the order they are built.                *)
(***************************************************************************)
EXTENDS Integers

CONSTANTS
    owner,       \* the goroutine that holds e.tunnelMu
    Stoppers,    \* goroutines that stop the tunnel without it
    MaxManagers, \* bound: managers built
    MaxHandles,  \* bound: device handles built
    MaxStops     \* bound: stops of a manager

VARIABLES
    d,       \* the driver: manager (0: nil), on, info
    handle,  \* d.device, d.bound and d.hasDev: [id, ep], id 0 if there is none
    loop,    \* per manager: its update loop: "none", "running", "cancelled", "done"
    tunnel,  \* per manager: the transport of the tunnel it holds, or "none"
    step,    \* per goroutine: the step it is at
    held,    \* per goroutine: the manager it captured
    seen,    \* the owner: the endpoint its poll found
    attempt, \* the owner's start: 1 kernel tunnel, 2 userspace tunnel, 0 none
    ctxDone, \* the owner's start is cancelled
    manual,  \* a manual address is configured
    dog,     \* ReresolveTunnel: "idle", "find" or "set"
    dogMgr,  \* the manager it captured
    dogEp,   \* the endpoint it found
    inj,     \* the injection: "idle", "lookup", "build" or "use"
    injEp,   \* the endpoint it read
    using,   \* the handle it uses
    made,    \* handles built
    stops,   \* bound: stops so far
    failed   \* history: handles a command failed on

ownerVars == <<seen, attempt, ctxDone>>
dogVars == <<dog, dogMgr, dogEp>>
injVars == <<inj, injEp, using, made>>
vars == <<d, handle, loop, tunnel, step, held, ownerVars, manual, dogVars, injVars, stops,
          failed>>

NativeAssumption == MaxManagers \in Nat /\ MaxHandles \in Nat /\ MaxStops \in Nat

Procs == Stoppers \union {owner}
Managers == 1 .. MaxManagers
Transports == {"usb", "wifi"}
NoEp == [mgr |-> 0, via |-> "usb"]
NoHandle == [id |-> 0, ep |-> NoEp]
Tunnels == [mgr : 0 .. MaxManagers, via : Transports]

TypeOK ==
    /\ d \in [manager : 0 .. MaxManagers, on : BOOLEAN, info : Tunnels]
    /\ handle \in [id : 0 .. MaxHandles, ep : Tunnels]
    /\ loop \in [Managers -> {"none", "running", "cancelled", "done"}]
    /\ tunnel \in [Managers -> Transports \union {"none"}]
    /\ step \in [Procs -> {"idle", "start", "mode", "await", "set", "teardown", "waiting"}]
    /\ held \in [Procs -> 0 .. MaxManagers]
    /\ seen \in Tunnels /\ attempt \in 0 .. 2 /\ ctxDone \in BOOLEAN
    /\ manual \in BOOLEAN
    /\ dog \in {"idle", "find", "set"} /\ dogMgr \in 0 .. MaxManagers /\ dogEp \in Tunnels
    /\ inj \in {"idle", "lookup", "build", "use"} /\ injEp \in Tunnels
    /\ using \in 0 .. MaxHandles /\ made \in 0 .. MaxHandles
    /\ stops \in 0 .. MaxStops /\ failed \subseteq 1 .. MaxHandles

Init ==
    /\ d = [manager |-> 0, on |-> FALSE, info |-> NoEp]
    /\ handle = NoHandle
    /\ loop = [k \in Managers |-> "none"] /\ tunnel = [k \in Managers |-> "none"]
    /\ step = [p \in Procs |-> "idle"] /\ held = [p \in Procs |-> 0]
    /\ seen = NoEp /\ attempt = 0 /\ ctxDone = FALSE /\ manual \in BOOLEAN
    /\ dog = "idle" /\ dogMgr = 0 /\ dogEp = NoEp
    /\ inj = "idle" /\ injEp = NoEp /\ using = 0 /\ made = 0
    /\ stops = 0 /\ failed = {}

At(p, s) == step[p] = s
Goto(p, s) == step' = [step EXCEPT ![p] = s]

\* setTunnel: no condition on what happened since ep was found.
SetTunnel(ep) == d' = [d EXCEPT !.on = TRUE, !.info = ep]

\* findTunnel: what the manager holds.  A closed one holds nothing.
Found(k) == {[mgr |-> k, via |-> t] : t \in {tunnel[k]} \ {"none"}}

-----------------------------------------------------------------------------
(* StartTunnel, startMode and awaitTunnel.                                 *)

\* A tunnel that is up is returned as it is; a manual address is set, if it
\* parses.
StartTunnel ==
    /\ At(owner, "idle")
    /\ ctxDone' = FALSE
    /\ ~d.on
    /\ \/ manual /\ SetTunnel(NoEp) /\ UNCHANGED <<step, attempt>>
       \/ ~manual /\ attempt' = 1 /\ Goto(owner, "mode") /\ UNCHANGED d
    /\ UNCHANGED <<handle, loop, tunnel, held, seen, manual, dogVars, injVars, stops, failed>>

\* A manager and its update loop; or no pair records to build one from.
StartMode ==
    /\ At(owner, "mode")
    /\ \/ \E k \in Managers :
             /\ loop[k] = "none" /\ \A j \in Managers : j < k => loop[j] # "none"
             /\ d' = [d EXCEPT !.manager = k]
             /\ loop' = [loop EXCEPT ![k] = "running"]
             /\ held' = [held EXCEPT ![owner] = k]
             /\ Goto(owner, "await") /\ UNCHANGED attempt
       \/ /\ IF attempt = 1 /\ ~ctxDone
             THEN attempt' = 2 /\ UNCHANGED step
             ELSE attempt' = 0 /\ Goto(owner, "idle")
          /\ UNCHANGED <<d, loop, held>>
    /\ UNCHANGED <<handle, tunnel, seen, ctxDone, manual, dogVars, injVars, stops, failed>>

PollFinds ==
    /\ At(owner, "await")
    /\ seen' \in Found(held[owner])
    /\ Goto(owner, "set")
    /\ UNCHANGED <<d, handle, loop, tunnel, held, attempt, ctxDone, manual, dogVars, injVars,
                   stops, failed>>

Publish ==
    /\ At(owner, "set")
    /\ SetTunnel(seen)
    /\ held' = [held EXCEPT ![owner] = 0] /\ Goto(owner, "idle")
    /\ attempt' = 0 /\ seen' = NoEp
    /\ UNCHANGED <<handle, loop, tunnel, ctxDone, manual, dogVars, injVars, stops, failed>>

\* The deadline, or the end of the caller's context.
GiveUp ==
    /\ At(owner, "await")
    /\ Goto(owner, "teardown")
    /\ UNCHANGED <<d, handle, loop, tunnel, held, ownerVars, manual, dogVars, injVars, stops,
                   failed>>

CancelStart ==
    /\ step[owner] \in {"mode", "await", "teardown"} /\ ~ctxDone
    /\ ctxDone' = TRUE
    /\ UNCHANGED <<d, handle, loop, tunnel, step, held, seen, attempt, manual, dogVars, injVars,
                   stops, failed>>

-----------------------------------------------------------------------------
(* teardown, called by StopTunnel and by an attempt that failed.           *)

StopTunnel(p) ==
    /\ At(p, "idle") /\ (d.on \/ d.manager # 0) /\ stops < MaxStops
    /\ stops' = stops + 1
    /\ Goto(p, "teardown")
    /\ UNCHANGED <<d, handle, loop, tunnel, held, ownerVars, manual, dogVars, injVars, failed>>

\* Everything is taken in one section, then the loop is cancelled.
\* (The bug: the manager is only cancelled by the attempt that built it.)
MutTeardown(p) ==
    /\ At(p, "teardown")
    /\ d' = [manager |-> 0, on |-> FALSE, info |-> NoEp]
    /\ handle' = NoHandle
    /\ held' = [held EXCEPT ![p] = d.manager]
    /\ loop' = [k \in Managers |-> IF k = held[p] /\ loop[k] = "running" THEN "cancelled"
                                   ELSE loop[k]]
    /\ Goto(p, "waiting")
    /\ UNCHANGED <<tunnel, ownerVars, manual, dogVars, injVars, stops, failed>>
Teardown(p) ==
    /\ At(p, "teardown")
    /\ d' = [manager |-> 0, on |-> FALSE, info |-> NoEp]
    /\ handle' = NoHandle
    /\ held' = [held EXCEPT ![p] = d.manager]
    /\ loop' = [k \in Managers |-> IF k = d.manager /\ loop[k] = "running" THEN "cancelled"
                                   ELSE loop[k]]
    /\ Goto(p, "waiting")
    /\ UNCHANGED <<tunnel, ownerVars, manual, dogVars, injVars, stops, failed>>

\* The loop has returned, or five seconds have passed; the manager is closed.
\* A failed kernel attempt is followed by the userspace one.
TornDown(p) ==
    /\ At(p, "waiting")
    /\ tunnel' = [k \in Managers |-> IF k = held[p] THEN "none" ELSE tunnel[k]]
    /\ held' = [held EXCEPT ![p] = 0]
    /\ IF p = owner /\ attempt = 1 /\ ~ctxDone
       THEN attempt' = 2 /\ Goto(p, "mode")
       ELSE Goto(p, "idle") /\ attempt' = IF p = owner THEN 0 ELSE attempt
    /\ UNCHANGED <<d, handle, loop, seen, ctxDone, manual, dogVars, injVars, stops, failed>>

-----------------------------------------------------------------------------
(* The update loop, and the phone moving between transports.               *)

UpdateTunnels(k) ==
    /\ loop[k] = "running"
    /\ \E t \in Transports \union {"none"} :
          t # tunnel[k] /\ tunnel' = [tunnel EXCEPT ![k] = t]
    /\ UNCHANGED <<d, handle, loop, step, held, ownerVars, manual, dogVars, injVars, stops,
                   failed>>

LoopReturns(k) ==
    /\ loop[k] = "cancelled"
    /\ loop' = [loop EXCEPT ![k] = "done"]
    /\ UNCHANGED <<d, handle, tunnel, step, held, ownerVars, manual, dogVars, injVars, stops,
                   failed>>

-----------------------------------------------------------------------------
(* ReresolveTunnel, for the watchdog.                                      *)

Reresolve ==
    /\ dog = "idle" /\ ~manual /\ d.manager # 0
    /\ dogMgr' = d.manager /\ dog' = "find"
    /\ UNCHANGED <<d, handle, loop, tunnel, step, held, ownerVars, manual, dogEp, injVars,
                   stops, failed>>

Refind ==
    /\ dog = "find"
    /\ \/ dogEp' \in Found(dogMgr) /\ dog' = "set" /\ UNCHANGED dogMgr
       \/ Found(dogMgr) = {} /\ dog' = "idle" /\ dogMgr' = 0 /\ UNCHANGED dogEp
    /\ UNCHANGED <<d, handle, loop, tunnel, step, held, ownerVars, manual, injVars, stops, failed>>

Reset ==
    /\ dog = "set"
    /\ SetTunnel(dogEp)
    /\ dog' = "idle" /\ dogMgr' = 0 /\ dogEp' = NoEp
    /\ UNCHANGED <<handle, loop, tunnel, step, held, ownerVars, manual, injVars, stops, failed>>

-----------------------------------------------------------------------------
(* SetLocation and ClearLocation: deviceHandle, then the command.          *)

Inject ==
    /\ inj = "idle" /\ d.on
    /\ inj' = "lookup" /\ injEp' = d.info
    /\ UNCHANGED <<d, handle, loop, tunnel, step, held, ownerVars, manual, dogVars, using, made,
                   stops, failed>>

\* The cached handle, if it is bound to the endpoint that was read.
Lookup ==
    /\ inj = "lookup"
    /\ IF handle.id # 0 /\ handle.ep = injEp
       THEN inj' = "use" /\ using' = handle.id /\ injEp' = NoEp
       ELSE inj' = "build" /\ UNCHANGED <<using, injEp>>
    /\ UNCHANGED <<d, handle, loop, tunnel, step, held, ownerVars, manual, dogVars, made, stops,
                   failed>>

\* buildDevice, outside the lock, then the store: whatever happened meanwhile.
BuildDevice ==
    /\ inj = "build"
    /\ \/ /\ made < MaxHandles
          /\ made' = made + 1 /\ using' = made + 1
          /\ handle' = [id |-> made + 1, ep |-> injEp] /\ inj' = "use"
       \/ inj' = "idle" /\ UNCHANGED <<made, using, handle>>
    /\ injEp' = NoEp
    /\ UNCHANGED <<d, loop, tunnel, step, held, ownerVars, manual, dogVars, stops, failed>>

MutInvalidateDevice == UNCHANGED handle
InvalidateDevice == handle' = NoHandle

Command ==
    /\ inj = "use" /\ inj' = "idle" /\ using' = 0
    /\ \/ UNCHANGED <<handle, failed>>
       \/ InvalidateDevice /\ failed' = failed \union {using}
    /\ UNCHANGED <<d, loop, tunnel, step, held, ownerVars, manual, dogVars, injEp, made, stops>>

-----------------------------------------------------------------------------
Next ==
    \/ StartTunnel \/ StartMode \/ PollFinds \/ Publish \/ GiveUp \/ CancelStart
    \/ \E p \in Procs : StopTunnel(p) \/ Teardown(p) \/ TornDown(p)
    \/ \E k \in Managers : UpdateTunnels(k) \/ LoopReturns(k)
    \/ Reresolve \/ Refind \/ Reset
    \/ Inject \/ Lookup \/ BuildDevice \/ Command

Spec == Init /\ [][Next]_vars

-----------------------------------------------------------------------------
(* Properties.                                                             *)

\* No update loop is left behind: one that runs is the manager's of the driver,
\* so that a later stop ends it, whoever stops and whenever (tunnel.go:163-190).
LoopsAreHeld == \A k \in Managers : loop[k] = "running" => d.manager = k

\* A handle a command failed on is never used again: the next injection makes a
\* fresh handshake instead of retrying on a dead one (location.go:112-116).
HandlesAreFresh == inj = "use" => using \notin failed

\* What the driver holds in its mutex is what there is: its loop and its handle.
NativeIsTrue == LoopsAreHeld /\ HandlesAreFresh

-----------------------------------------------------------------------------
(* What the sources say, and the code does not do.                         *)

\* StopTunnel forgets the tunnel (tunnel.go:160): a re-resolution, or a start,
\* that had already found it sets it again after the stop.
StoppedIsOff == d.on /\ ~manual => d.manager # 0
=============================================================================
