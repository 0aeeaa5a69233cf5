------------------------- MODULE EngineTunnelProofs -------------------------
(***************************************************************************)
(* TLAPS proofs about EngineTunnel, for any number of clients and any      *)
(* bounds.  Safety only: the liveness properties stay with TLC.            *)
(***************************************************************************)
EXTENDS EngineTunnel, FiniteSetTheorems, TLAPS

-----------------------------------------------------------------------------
(* The inductive invariant.                                                *)

\* Each switch raises the generation once and builds at most one driver.
Begun == {s \in Switchers : pc[s] # "begin"}
Finished == {s \in Switchers : pc[s] \notin SwitchSteps}
Counting ==
    /\ gen = Cardinality(Begun)
    /\ built \in Nat /\ built <= 1 + Cardinality(Finished)
    /\ drv \in 1 .. built

\* Only a switcher is at a step of SwitchDriver.
Kinds == \A p \in Procs : pc[p] \in SwitchSteps => p \in Switchers

TypeInv == TypeOK /\ Counting /\ Kinds

\* Whoever is inside StartTunnel, or swapping the driver, holds tunnelMu.
LockInv == \A p \in Procs : InMutex(p) => tunnelMu = p

\* Nobody replaces the driver under a start.
CapturedInv == \A p \in Procs : InStart(p) => sdrv[p] = drv

\* The switch that outdated a start is still waiting for it.
FencePending == \A p \in Procs : InStart(p) /\ sgen[p] # gen => SwitchPending

SafeInv == /\ LockInv /\ CapturedInv /\ CancelIsHolders
           /\ FencedStartsAreCancelled /\ FencePending /\ StartingIsOwned

\* A start about to set the mount has an endpoint for it, and the mount is not
\* up: only that start could have turned it on.
SetInv ==
    \A p \in Procs : pc[p] = "set" =>
        ti[p] \in Transports /\ mount[sdrv[p]] \in {"off", "launching"}

Inv == TypeInv /\ SafeInv /\ SetInv

-----------------------------------------------------------------------------
(* Types and counts.                                                       *)

\* Sets of switchers can be counted.
LEMMA SwitchersFinite ==
    /\ IsFiniteSet(Switchers) /\ Cardinality(Switchers) \in Nat
    /\ \A S \in SUBSET Switchers :
          IsFiniteSet(S) /\ Cardinality(S) \in Nat /\ Cardinality(S) <= Cardinality(Switchers)
BY ProcsAssumption, FS_CardinalityType, FS_Subset

\* The initial state is well typed, with no switch begun.
LEMMA InitType == Init => TypeInv
<1> SUFFICES ASSUME Init PROVE TypeInv
  OBVIOUS
<1> USE ProcsAssumption, BoundsAssumption
<1>1. Cardinality(Switchers) \in Nat
  BY SwitchersFinite
<1>2. \A p \in Procs : /\ pc[p] \in FirstSteps(p) /\ FirstSteps(p) \subseteq Steps
                       /\ (pc[p] \in SwitchSteps <=> p \in Switchers)
                       /\ (p \in Switchers => FirstSteps(p) = {"begin"})
  BY DEF Init, FirstSteps, Steps, StartSteps, HealthSteps, SwitchSteps,
         RestartSteps, ServiceSteps, Procs, Clients, Outcomes
<1>3. pc \in [Procs -> Steps]
  BY <1>2 DEF Init
<1>4. TypeOK
  <2>1. 1 \in Drivers /\ 0 \in 0 .. Cardinality(Switchers)
    BY <1>1 DEF Drivers
  <2>2. 0 \in 0 .. MaxFaults /\ 0 \in 0 .. MaxMoves
    OBVIOUS
  <2>3. mount \in [Drivers -> {"off", "launching"} \union Up] /\ ep \in [Drivers -> Transports]
    BY DEF Init, Transports
  <2>4. /\ sdrv \in [Procs -> Drivers]
        /\ sgen \in [Procs -> 0 .. Cardinality(Switchers)]
        /\ ti \in [Procs -> Transports \union {None}]
    BY <2>1 DEF Init
  <2>5. QED
    BY <1>3, <2>1, <2>2, <2>3, <2>4 DEF Init, TypeOK, Transports
<1>5. Begun = {} /\ Finished = {}
  BY <1>2 DEF Begun, Finished, Procs, Clients
<1>6. Counting
  BY <1>5, FS_EmptySet DEF Counting, Init
<1>7. QED
  BY <1>2, <1>4, <1>6 DEF TypeInv, Kinds

\* Every step but those of SwitchDriver leaves both counts alone: nobody
\* comes to, or leaves, a step of SwitchDriver.
LEMMA Elsewhere ==
    ASSUME TypeInv, UNCHANGED <<gen, built, drv>>,
           NEW p \in Procs, NEW step \in Steps \ SwitchSteps,
           pc[p] \notin SwitchSteps, Goto(p, step)
    PROVE  Counting' /\ Kinds' /\ pc' \in [Procs -> Steps]
<1>1. pc \in [Procs -> Steps] /\ Switchers \subseteq Procs
  BY DEF TypeInv, TypeOK, Procs, Clients
<1>2. \A q \in Procs : pc'[q] = IF q = p THEN step ELSE pc[q]
  BY <1>1 DEF Goto
<1>3. Begun' = Begun
  BY <1>1, <1>2 DEF Begun, SwitchSteps
<1>4. Finished' = Finished
  BY <1>1, <1>2 DEF Finished
<1>5. QED
  BY <1>1, <1>2, <1>3, <1>4 DEF TypeInv, Counting, Kinds, Goto

\* A step that moves no goroutine keeps the counts.
LEMMA Nowhere ==
    ASSUME TypeInv, UNCHANGED <<gen, built, drv, pc>>
    PROVE  Counting' /\ Kinds' /\ pc' \in [Procs -> Steps]
BY DEF TypeInv, TypeOK, Counting, Kinds, Begun, Finished

\* How the sets of step names lie with each other.
LEMMA StepNames ==
    /\ StartSteps \union {"start", "tick", "done", "failed"} \subseteq Steps \ SwitchSteps
    /\ HealthSteps \union RestartSteps \union ServiceSteps \subseteq Steps \ SwitchSteps
    /\ SwitchSteps \subseteq Steps
BY DEF Steps, StartSteps, HealthSteps, SwitchSteps, RestartSteps, ServiceSteps, Outcomes

\* StartTunnel keeps the types and the counts.
LEMMA StartType ==
    ASSUME TypeInv, SetInv, NEW p \in Procs, StartTunnel(p) PROVE TypeInv'
<1> USE DEF engine, status, tunnels, locals, env, At
<1> USE StepNames, Elsewhere DEF StartSteps, SwitchSteps
<1>1. CASE StartNoop(p)
  <2>1. AfterStart(p, "done") \in Steps \ SwitchSteps
    BY DEF AfterStart
  <2>2. QED
    BY <1>1, <2>1 DEF StartNoop, TypeInv, TypeOK
<1>2. CASE StartCapture(p)
  BY <1>2 DEF StartCapture, LockTunnelMu, SetActiveStart, TypeInv, TypeOK
<1>3. CASE DriverStart(p)
  BY <1>3 DEF DriverStart, TypeInv, TypeOK
<1>4. CASE DriverFound(p) \/ DriverUp(p)
  <2>1. CASE DriverFound(p)
    <3>1. device \in Transports /\ ti' \in [Procs -> Transports \union {None}]
      BY <2>1 DEF DriverFound, DevicePresent, TypeInv, TypeOK
    <3>2. QED
      BY <2>1, <3>1 DEF DriverFound, TypeInv, TypeOK
  <2>2. CASE DriverUp(p)
    <3>1. ep' \in [Drivers -> Transports]
      BY <2>2 DEF DriverUp, SetInv, TypeInv, TypeOK
    <3>2. QED
      BY <2>2, <3>1 DEF DriverUp, SetMount, Up, TypeInv, TypeOK
  <2>3. QED
    BY <1>4, <2>1, <2>2
<1>5. CASE DriverFail(p)
  BY <1>5 DEF DriverFail, TypeInv, TypeOK
<1>6. CASE StartOkCheck(p)
  BY <1>6 DEF StartOkCheck, TypeInv, TypeOK
<1>7. CASE StartStale(p)
  BY <1>7 DEF StartStale, Forget, StopMount, TypeInv, TypeOK
<1>8. CASE StartPublish(p)
  BY <1>8, BoundsAssumption DEF StartPublish, Forget, SetEndpoint, TypeInv, TypeOK
<1>9. CASE StartErrCheck(p)
  BY <1>9 DEF StartErrCheck, TypeInv, TypeOK
<1>10. CASE StartErrSet(p)
  BY <1>10 DEF StartErrSet, LeaveStarting, TypeInv, TypeOK
<1>11. CASE StartEnd(p)
  <2>1. \A o \in {"done", "failed"} : AfterStart(p, o) \in Steps \ SwitchSteps
    BY DEF AfterStart
  <2>2. QED
    BY <1>11, <2>1 DEF StartEnd, TypeInv, TypeOK
<1>12. QED
  BY <1>1, <1>2, <1>3, <1>4, <1>5, <1>6, <1>7, <1>8, <1>9, <1>10, <1>11 DEF StartTunnel

\* SwitchDriver keeps the types: it raises the generation and builds once.
LEMMA SwitchType ==
    ASSUME TypeInv, NEW s \in Procs, SwitchDriver(s) PROVE TypeInv'
<1> USE DEF engine, status, tunnels, locals, env, At
<1>0. /\ pc \in [Procs -> Steps] /\ Switchers \subseteq Procs /\ s \in Switchers
      /\ "begin" \in SwitchSteps
  BY DEF TypeInv, TypeOK, Kinds, SwitchDriver, SwitchBegin, SwitchStop, SwitchSwap,
         SwitchFail, Procs, Clients, SwitchSteps
<1>1. CASE SwitchBegin(s)
  <2>1. Begun' = Begun \union {s} /\ s \notin Begun /\ Finished' = Finished
    BY <1>0, <1>1 DEF SwitchBegin, Goto, Begun, Finished, SwitchSteps
  <2>2. Cardinality(Begun') = Cardinality(Begun) + 1
    BY <2>1, SwitchersFinite, FS_AddElement DEF Begun
  <2>3. Cardinality(Begun') \in 0 .. Cardinality(Switchers)
    BY SwitchersFinite, <2>2, Begun' \subseteq Switchers DEF Begun
  <2>4. Counting' /\ gen' \in 0 .. Cardinality(Switchers)
    BY <1>1, <2>1, <2>2, <2>3 DEF SwitchBegin, Counting, TypeInv
  <2>5. Kinds' /\ pc' \in [Procs -> Steps]
    BY <1>0, <1>1, StepNames DEF SwitchBegin, Goto, Kinds, TypeInv, TypeOK, SwitchSteps
  <2>6. QED
    <3>1. cancelled' \subseteq Procs /\ sdrv' \in [Procs -> Drivers]
      BY <1>1 DEF SwitchBegin, AbortActiveStart, TypeInv, TypeOK
    <3>2. QED
      BY <1>1, <2>4, <2>5, <3>1 DEF SwitchBegin, TypeInv, TypeOK
<1>2. CASE SwitchStop(s)
  <2>1. Begun' = Begun /\ Finished' = Finished
    BY <1>0, <1>2 DEF SwitchStop, Goto, Begun, Finished, SwitchSteps
  <2>2. Counting' /\ Kinds' /\ pc' \in [Procs -> Steps]
    BY <1>0, <1>2, <2>1, StepNames
    DEF SwitchStop, Goto, Counting, Kinds, TypeInv, TypeOK, SwitchSteps
  <2>3. QED
    BY <1>2, <2>2 DEF SwitchStop, LockTunnelMu, StopMount, TypeInv, TypeOK
<1>3. CASE SwitchSwap(s)
  <2>1. Begun' = Begun /\ Finished' = Finished \union {s} /\ s \notin Finished
    BY <1>0, <1>3, StepNames DEF SwitchSwap, Goto, Begun, Finished, SwitchSteps
  <2>2. Cardinality(Finished') = Cardinality(Finished) + 1
    BY <2>1, SwitchersFinite, FS_AddElement DEF Finished
  <2>3. Cardinality(Finished') <= Cardinality(Switchers) /\ Cardinality(Finished) \in Nat
    BY SwitchersFinite, Finished' \subseteq Switchers, Finished \subseteq Switchers DEF Finished
  <2>4. Counting' /\ built' \in Drivers /\ drv' \in Drivers
    BY <1>3, <2>1, <2>2, <2>3, SwitchersFinite DEF SwitchSwap, Counting, TypeInv, Drivers
  <2>5. Kinds' /\ pc' \in [Procs -> Steps]
    BY <1>0, <1>3, StepNames DEF SwitchSwap, Goto, Kinds, TypeInv, TypeOK, SwitchSteps
  <2>6. QED
    BY <1>3, <2>4, <2>5 DEF SwitchSwap, TypeInv, TypeOK
<1>4. CASE SwitchFail(s)
  <2>1. Begun' = Begun /\ Finished' = Finished \union {s} /\ s \notin Finished
    BY <1>0, <1>4, StepNames DEF SwitchFail, Goto, Begun, Finished, SwitchSteps
  <2>2. Cardinality(Finished') = Cardinality(Finished) + 1 /\ Cardinality(Finished) \in Nat
    BY <2>1, SwitchersFinite, FS_AddElement, Finished \subseteq Switchers DEF Finished
  <2>3. Counting'
    BY <1>4, <2>1, <2>2 DEF SwitchFail, Counting, TypeInv
  <2>4. Kinds' /\ pc' \in [Procs -> Steps]
    BY <1>0, <1>4, StepNames DEF SwitchFail, Goto, Kinds, TypeInv, TypeOK, SwitchSteps
  <2>5. QED
    BY <1>4, <2>3, <2>4 DEF SwitchFail, TypeInv, TypeOK
<1>5. QED
  BY <1>1, <1>2, <1>3, <1>4 DEF SwitchDriver

\* The watchdog keeps the types and the counts.
LEMMA HealthType == ASSUME TypeInv, HealthLoop PROVE TypeInv'
<1> USE StepNames, Elsewhere, BoundsAssumption
    DEF engine, status, tunnels, locals, env, At, HealthSteps, SwitchSteps
<1>0. health \in Procs
  BY DEF Procs
<1>1. CASE HealthTick
  BY <1>0, <1>1 DEF HealthTick, TypeInv, TypeOK
<1>2. CASE HealthPick
  BY <1>0, <1>2 DEF HealthPick, TypeInv, TypeOK
<1>3. CASE HealthCheck
  BY <1>0, <1>3 DEF HealthCheck, TypeInv, TypeOK
<1>4. CASE TouchHealth
  BY <1>0, <1>4 DEF TouchHealth, Block, NewHealth, TypeInv, TypeOK
<1>5. CASE ReresolveFound
  BY <1>0, <1>5 DEF ReresolveFound, DevicePresent, TypeInv, TypeOK
<1>6. CASE ReresolveMissed
  BY <1>0, <1>6 DEF ReresolveMissed, TypeInv, TypeOK
<1>7. CASE HealthApply
  BY <1>0, <1>7 DEF HealthApply, Forget, SetEndpoint, Block, NewHealth, TypeInv, TypeOK
<1>8. CASE HealthMark
  BY <1>0, <1>8 DEF HealthMark, MarkTunnelLost, TypeInv, TypeOK
<1>9. CASE HealthStop
  BY <1>0, <1>9 DEF HealthStop, StopMount, TypeInv, TypeOK
<1>10. QED
  BY <1>1, <1>2, <1>3, <1>4, <1>5, <1>6, <1>7, <1>8, <1>9 DEF HealthLoop

\* RestartTunnel and RestartServices keep the types and the counts.
LEMMA RestartType ==
    ASSUME TypeInv, NEW p \in Procs, Restart(p) PROVE TypeInv'
<1> USE StepNames, Elsewhere
    DEF engine, status, tunnels, locals, env, At,
        RestartSteps, ServiceSteps, SwitchSteps
<1>1. CASE RestartMark(p)
  <2>1. Counting' /\ Kinds' /\ pc' \in [Procs -> Steps]
    BY <1>1 DEF RestartMark
  <2>2. UNCHANGED <<drv, built, gen, startCancel, overlooked, tunnelMu, cancelled, mount, ep,
                    device, locals, phase, faults, moves>>
    BY <1>1 DEF RestartMark
  <2>3. /\ state' \in {"idle", "starting", "ready", "running"} /\ active' \in BOOLEAN
        /\ rsd' \in {rsd, None} /\ th' \in {th, None}
    BY <1>1 DEF RestartMark, MarkTunnelLost, TypeInv, TypeOK
  <2>4. QED
    BY <2>1, <2>2, <2>3 DEF TypeInv, TypeOK
<1>2. CASE RestartPick(p)
  BY <1>2 DEF RestartPick, TypeInv, TypeOK
<1>3. CASE RestartStop(p)
  BY <1>3 DEF RestartStop, StopMount, TypeInv, TypeOK
<1>4. CASE ServiceKill(p)
  BY <1>4 DEF ServiceKill, Killed, Up, TypeInv, TypeOK
<1>5. QED
  BY <1>1, <1>2, <1>3, <1>4 DEF Restart

\* Injections, the environment and the shutdown: no goroutine moves.
Outside ==
    \/ InjectionFails \/ InjectionSucceeds
    \/ \E d \in Drivers : DaemonDies(d)
    \/ DeviceMoves \/ Terminate \/ StopBootDriver

\* Faults, moves, injections and the shutdown keep the types and the counts.
LEMMA OutsideType == ASSUME TypeInv, Outside PROVE TypeInv'
<1> USE Nowhere, BoundsAssumption DEF engine, status, tunnels, locals, env
<1>0. Block \in [est : BOOLEAN, fails : 0 .. InjectFailureThreshold]
  BY DEF Block, NewHealth, TypeInv, TypeOK
<1>1. CASE InjectionFails
  <2>1. th' \in [est : BOOLEAN, fails : 0 .. InjectFailureThreshold]
    BY <1>0, <1>1 DEF InjectionFails
  <2>2. faults' \in 0 .. MaxFaults
    BY <1>1 DEF InjectionFails, TypeInv, TypeOK
  <2>3. QED
    BY <1>1, <2>1, <2>2 DEF InjectionFails, TypeInv, TypeOK
<1>2. CASE InjectionSucceeds
  <2>1. th' \in [est : BOOLEAN, fails : 0 .. InjectFailureThreshold]
    BY <1>0, <1>2 DEF InjectionSucceeds
  <2>2. QED
    BY <1>2, <2>1 DEF InjectionSucceeds, TypeInv, TypeOK
<1>3. ASSUME NEW d \in Drivers, DaemonDies(d) PROVE TypeInv'
  BY <1>3 DEF DaemonDies, Killed, Up, TypeInv, TypeOK
<1>4. CASE DeviceMoves
  BY <1>4 DEF DeviceMoves, TypeInv, TypeOK
<1>5. CASE Terminate
  BY <1>5 DEF Terminate, OwnStarters, Procs, TypeInv, TypeOK
<1>6. CASE StopBootDriver
  <2>1. mount' \in [Drivers -> {"off", "launching"} \union Up]
    BY <1>6 DEF StopBootDriver, StopMount, TypeInv, TypeOK
  <2>2. QED
    BY <1>6, <2>1 DEF StopBootDriver, TypeInv, TypeOK
<1>7. QED
  BY <1>1, <1>2, <1>3, <1>4, <1>5, <1>6 DEF Outside

\* Next, by who takes the step.
LEMMA NextCases ==
    Next => \/ \E p \in Procs : StartTunnel(p) \/ SwitchDriver(p) \/ Restart(p)
            \/ HealthLoop \/ Outside
BY DEF Next, Goroutine, Outside

\* A stuttering step keeps the types and the counts.
LEMMA StutterType == ASSUME TypeInv, UNCHANGED vars PROVE TypeInv'
BY Nowhere DEF vars, engine, status, tunnels, locals, env, TypeInv, TypeOK

-----------------------------------------------------------------------------
(* Mutual exclusion, the generation fence and the "starting" state.        *)

\* A goroutine that is and stays outside the mutex and SwitchDriver, and
\* only touches its own captures, disturbs nothing.
LEMMA Bystander ==
    ASSUME Inv, NEW p \in Procs, NEW step, Goto(p, step),
           pc[p] \notin StartSteps \union SwitchSteps,
           step \notin StartSteps \union SwitchSteps,
           UNCHANGED <<drv, gen, startCancel, tunnelMu, sgen>>,
           cancelled \subseteq cancelled',
           \A q \in Procs \ {p} : sdrv'[q] = sdrv[q],
           state' = "starting" => state = "starting"
    PROVE  SafeInv'
<1>1. /\ pc \in [Procs -> Steps] /\ Switchers \subseteq Procs
      /\ \A q \in Procs : pc'[q] = IF q = p THEN step ELSE pc[q]
  BY DEF Inv, TypeInv, TypeOK, Procs, Clients, Goto
<1>2. \A q \in Procs : InStart(q)' <=> InStart(q)
  BY <1>1 DEF InStart
<1>3. \A q \in Procs : InMutex(q)' <=> InMutex(q)
  BY <1>1, <1>2 DEF InMutex, SwitchSteps
<1>4. SwitchPending' <=> SwitchPending
  BY <1>1 DEF SwitchPending, SwitchSteps
<1>5. \A q \in Procs : InStart(q) => q # p
  BY DEF InStart
<1>6. StartingIsOwned'
  BY <1>1, <1>4 DEF Inv, SafeInv, StartingIsOwned, IsCurrent
<1>7. QED
  BY <1>2, <1>3, <1>4, <1>5, <1>6
  DEF Inv, SafeInv, LockInv, CapturedInv, CancelIsHolders, FencedStartsAreCancelled, FencePending

\* A step that moves no goroutine and starts nothing keeps SafeInv.
LEMMA StillGoroutines ==
    ASSUME Inv, UNCHANGED <<pc, drv, gen, startCancel, tunnelMu, sgen, sdrv>>,
           cancelled \subseteq cancelled',
           state' = "starting" => state = "starting"
    PROVE  SafeInv'
BY DEF Inv, SafeInv, LockInv, CapturedInv, CancelIsHolders, FencedStartsAreCancelled,
       FencePending, StartingIsOwned, InMutex, InStart, SwitchPending, IsCurrent

\* Whoever holds tunnelMu is alone in the mutex.
LEMMA Alone ==
    ASSUME Inv, NEW p \in Procs, InMutex(p)
    PROVE  \A q \in Procs \ {p} : ~InMutex(q) /\ ~InStart(q)
BY DEF Inv, SafeInv, LockInv, InMutex

\* A start moves on to another of its steps: the state it owns stays owned
\* unless it has just found itself outdated, and then a switch is pending.
LEMMA StartMoves ==
    ASSUME Inv, NEW p \in Procs, NEW step \in StartSteps, Goto(p, step), InStart(p),
           UNCHANGED <<drv, gen, startCancel, tunnelMu, sgen, sdrv, cancelled>>,
           state' = "starting" => state = "starting",
           state' = "starting" /\ step \in {"stale", "end", "errend"} =>
                pc[p] \in {"stale", "end", "errend"} \/ ~IsCurrent(p)
    PROVE  SafeInv'
<1>1. /\ pc \in [Procs -> Steps] /\ Switchers \subseteq Procs
      /\ \A q \in Procs : pc'[q] = IF q = p THEN step ELSE pc[q]
  BY DEF Inv, TypeInv, TypeOK, Procs, Clients, Goto
<1>2. \A q \in Procs : (InStart(q)' <=> InStart(q)) /\ (InMutex(q)' <=> InMutex(q))
  BY <1>1 DEF InStart, InMutex, StartSteps
<1>3. SwitchPending' <=> SwitchPending
  BY <1>1 DEF SwitchPending, InStart, StartSteps
<1>4. \A q \in Procs \ {p} : ~InStart(q)
  BY Alone DEF InMutex
<1>5. ~IsCurrent(p) => SwitchPending
  BY DEF Inv, SafeInv, CapturedInv, FencePending, IsCurrent
<1>6. StartingIsOwned'
  BY <1>1, <1>3, <1>4, <1>5 DEF Inv, SafeInv, StartingIsOwned, IsCurrent, InStart
<1>7. QED
  BY <1>2, <1>3, <1>6
  DEF Inv, SafeInv, LockInv, CapturedInv, CancelIsHolders, FencedStartsAreCancelled, FencePending

\* StartTunnel keeps the safety invariant.
LEMMA StartSafe ==
    ASSUME Inv, NEW p \in Procs, StartTunnel(p) PROVE SafeInv'
<1> USE DEF engine, status, tunnels, locals, env, At
<1>1. CASE StartNoop(p)
  BY <1>1, Bystander DEF StartNoop, AfterStart, StartSteps, SwitchSteps
<1>2. CASE StartCapture(p)
  <2>1. /\ pc \in [Procs -> Steps] /\ Switchers \subseteq Procs
        /\ sdrv \in [Procs -> Drivers] /\ sgen \in [Procs -> 0 .. Cardinality(Switchers)]
        /\ \A q \in Procs : pc'[q] = IF q = p THEN "call" ELSE pc[q]
        /\ None \notin Procs /\ tunnelMu = None
    BY <1>2, ProcsAssumption
    DEF StartCapture, LockTunnelMu, Inv, TypeInv, TypeOK, Procs, Clients, Goto
  <2>2. \A q \in Procs : ~InMutex(q) /\ ~InStart(q)
    BY <2>1 DEF Inv, SafeInv, LockInv, InMutex
  <2>3. \A q \in Procs : (InStart(q)' <=> q = p) /\ (InMutex(q)' <=> q = p)
    BY <2>1, <2>2 DEF InStart, InMutex, StartSteps
  <2>4. IsCurrent(p)' /\ sgen'[p] = gen' /\ sdrv'[p] = drv' /\ tunnelMu' = p /\ startCancel' = p
    BY <1>2, <2>1 DEF StartCapture, LockTunnelMu, SetActiveStart, IsCurrent
  <2>5. StartingIsOwned'
    BY <2>1, <2>4 DEF StartingIsOwned, StartSteps
  <2>6. QED
    BY <2>3, <2>4, <2>5
    DEF SafeInv, LockInv, CapturedInv, CancelIsHolders, FencedStartsAreCancelled, FencePending
<1>3. CASE DriverStart(p)
  BY <1>3, StartMoves DEF DriverStart, InStart, StartSteps
<1>4. CASE DriverFound(p) \/ DriverUp(p)
  BY <1>4, StartMoves DEF DriverFound, DriverUp, InStart, StartSteps
<1>5. CASE DriverFail(p)
  BY <1>5, StartMoves DEF DriverFail, InStart, StartSteps
<1>6. CASE StartOkCheck(p)
  BY <1>6, StartMoves DEF StartOkCheck, InStart, StartSteps
<1>7. CASE StartStale(p)
  BY <1>7, StartMoves DEF StartStale, InStart, StartSteps
<1>8. CASE StartPublish(p)
  BY <1>8, StartMoves DEF StartPublish, InStart, StartSteps
<1>9. CASE StartErrCheck(p)
  BY <1>9, StartMoves DEF StartErrCheck, InStart, StartSteps
<1>10. CASE StartErrSet(p)
  BY <1>10, StartMoves DEF StartErrSet, LeaveStarting, InStart, StartSteps
<1>11. CASE StartEnd(p)
  <2>1. PICK step \in {"tick", "done", "failed"} : Goto(p, step)
    BY <1>11 DEF StartEnd, AfterStart
  <2>2. /\ pc \in [Procs -> Steps] /\ Switchers \subseteq Procs
        /\ \A q \in Procs : pc'[q] = IF q = p THEN step ELSE pc[q]
    BY <2>1 DEF Inv, TypeInv, TypeOK, Procs, Clients, Goto
  <2>3. InMutex(p) /\ pc[p] \in {"end", "errend"}
    BY <1>11 DEF StartEnd, InMutex, InStart, StartSteps
  <2>4. \A q \in Procs : ~InStart(q)' /\ ~InMutex(q)'
    BY <2>2, <2>3, Alone DEF InStart, InMutex, StartSteps
  <2>5. SwitchPending' <=> SwitchPending
    BY <2>2, <2>3 DEF SwitchPending
  <2>6. StartingIsOwned'
    BY <1>11, <2>2, <2>3, <2>5, Alone
    DEF StartEnd, Inv, SafeInv, StartingIsOwned, IsCurrent, InStart, StartSteps
  <2>7. QED
    BY <2>4, <2>6
    DEF SafeInv, LockInv, CapturedInv, CancelIsHolders, FencedStartsAreCancelled, FencePending
<1>12. QED
  BY <1>1, <1>2, <1>3, <1>4, <1>5, <1>6, <1>7, <1>8, <1>9, <1>10, <1>11 DEF StartTunnel

\* SwitchDriver keeps the safety invariant.
LEMMA SwitchSafe ==
    ASSUME Inv, NEW s \in Procs, SwitchDriver(s) PROVE SafeInv'
<1> USE DEF engine, status, tunnels, locals, env, At
<1>0. /\ pc \in [Procs -> Steps] /\ Switchers \subseteq Procs /\ s \in Switchers
      /\ sdrv \in [Procs -> Drivers] /\ None \notin Procs
  BY ProcsAssumption DEF Inv, TypeInv, TypeOK, Kinds, SwitchDriver, SwitchBegin,
     SwitchStop, SwitchSwap, SwitchFail, Procs, Clients, SwitchSteps
<1>1. CASE SwitchBegin(s)
  <2>1. \A q \in Procs : pc'[q] = IF q = s THEN "swstop" ELSE pc[q]
    BY <1>0, <1>1 DEF SwitchBegin, Goto
  <2>2. \A q \in Procs : (InStart(q)' <=> InStart(q)) /\ (InMutex(q)' <=> InMutex(q))
    BY <1>1, <2>1 DEF SwitchBegin, InStart, InMutex, StartSteps
  <2>3. SwitchPending'
    BY <1>0, <2>1 DEF SwitchPending
  <2>4. \A q \in Procs : InStart(q) => q # s /\ q \in cancelled'
    BY <1>0, <1>1 DEF SwitchBegin, AbortActiveStart, InStart, StartSteps, Inv, SafeInv,
        CancelIsHolders
  <2>5. QED
    BY <1>0, <1>1, <2>2, <2>3, <2>4
    DEF SwitchBegin, Inv, SafeInv, LockInv, CapturedInv, CancelIsHolders,
        FencedStartsAreCancelled, FencePending, StartingIsOwned
<1>2. CASE SwitchStop(s)
  <2>1. \A q \in Procs : pc'[q] = IF q = s THEN "swap" ELSE pc[q]
    BY <1>0, <1>2 DEF SwitchStop, Goto
  <2>2. \A q \in Procs : ~InMutex(q)
    BY <1>0, <1>2 DEF SwitchStop, LockTunnelMu, Inv, SafeInv, LockInv
  <2>3. \A q \in Procs : ~InStart(q)' /\ (InMutex(q)' => q = s)
    BY <2>1, <2>2 DEF InStart, InMutex, StartSteps
  <2>4. SwitchPending' /\ tunnelMu' = s
    BY <1>0, <1>2, <2>1 DEF SwitchStop, LockTunnelMu, SwitchPending
  <2>5. QED
    BY <2>3, <2>4 DEF SafeInv, LockInv, CapturedInv, CancelIsHolders,
        FencedStartsAreCancelled, FencePending, StartingIsOwned
<1>3. CASE SwitchSwap(s) \/ SwitchFail(s)
  <2>1. PICK step \in {"start", "failed"} : \A q \in Procs : pc'[q] = IF q = s THEN step ELSE pc[q]
    BY <1>0, <1>3 DEF SwitchSwap, SwitchFail, Goto
  <2>2. InMutex(s)
    BY <1>3 DEF SwitchSwap, SwitchFail, InMutex
  <2>3. \A q \in Procs : ~InStart(q)' /\ ~InMutex(q)'
    BY <2>1, <2>2, Alone DEF InStart, InMutex, StartSteps
  <2>4. state' # "starting"
    BY <1>3 DEF SwitchSwap, SwitchFail
  <2>5. QED
    BY <2>3, <2>4 DEF SafeInv, LockInv, CapturedInv, CancelIsHolders,
        FencedStartsAreCancelled, FencePending, StartingIsOwned
<1>4. QED
  BY <1>1, <1>2, <1>3 DEF SwitchDriver

\* The watchdog keeps the safety invariant.
LEMMA HealthSafe == ASSUME Inv, HealthLoop PROVE SafeInv'
<1> USE Bystander
    DEF engine, status, tunnels, locals, env, At, StartSteps, SwitchSteps
<1>0. health \in Procs /\ sdrv \in [Procs -> Drivers]
  BY DEF Procs, Inv, TypeInv, TypeOK
<1>1. CASE HealthTick \/ HealthCheck \/ TouchHealth \/ ReresolveMissed \/ HealthStop
  BY <1>0, <1>1 DEF HealthTick, HealthCheck, TouchHealth, ReresolveMissed, HealthStop
<1>2. CASE HealthPick
  BY <1>0, <1>2 DEF HealthPick
<1>3. CASE ReresolveFound \/ HealthApply
  BY <1>0, <1>3 DEF ReresolveFound, HealthApply
<1>4. CASE HealthMark
  BY <1>0, <1>4 DEF HealthMark, MarkTunnelLost
<1>5. QED
  BY <1>1, <1>2, <1>3, <1>4 DEF HealthLoop

\* RestartTunnel and RestartServices keep the safety invariant.
LEMMA RestartSafe ==
    ASSUME Inv, NEW p \in Procs, Restart(p) PROVE SafeInv'
<1> USE Bystander
    DEF engine, status, tunnels, locals, env, At, StartSteps, SwitchSteps
<1>0. sdrv \in [Procs -> Drivers]
  BY DEF Inv, TypeInv, TypeOK
<1>1. CASE RestartMark(p)
  BY <1>1 DEF RestartMark, MarkTunnelLost
<1>2. CASE RestartPick(p)
  BY <1>0, <1>2 DEF RestartPick
<1>3. CASE RestartStop(p) \/ ServiceKill(p)
  BY <1>3 DEF RestartStop, ServiceKill
<1>4. QED
  BY <1>1, <1>2, <1>3 DEF Restart

\* Steps of no goroutine keep the safety invariant.
LEMMA OutsideSafe == ASSUME Inv, Outside \/ UNCHANGED vars PROVE SafeInv'
BY StillGoroutines
DEF Outside, vars, engine, status, tunnels, locals, env, InjectionFails, InjectionSucceeds,
    DaemonDies, DeviceMoves, Terminate, StopBootDriver

\* Initially nobody is inside StartTunnel.
LEMMA InitSafe == Init => SafeInv
BY DEF Init, SafeInv, LockInv, CapturedInv, CancelIsHolders, FencedStartsAreCancelled,
       FencePending, StartingIsOwned, InMutex, InStart, FirstSteps, StartSteps

\* A step that brings nobody to "set" and turns no mount on keeps SetInv.
LEMMA SetKept ==
    ASSUME Inv,
           \A q \in Procs : pc'[q] = "set" =>
               pc[q] = "set" /\ sdrv'[q] = sdrv[q] /\ ti'[q] = ti[q],
           \A d \in Drivers : mount[d] \in {"off", "launching"} => mount'[d] \in {mount[d], "off"}
    PROVE  SetInv'
BY DEF Inv, TypeInv, TypeOK, SetInv

\* StartTunnel keeps it: the start that finds the tunnel is alone in the mutex.
LEMMA StartSet == ASSUME Inv, NEW p \in Procs, StartTunnel(p) PROVE SetInv'
<1> USE DEF engine, status, tunnels, locals, env, At
<1>0. /\ pc \in [Procs -> Steps] /\ mount \in [Drivers -> {"off", "launching"} \union Up]
      /\ sdrv \in [Procs -> Drivers] /\ ti \in [Procs -> Transports \union {None}]
  BY DEF Inv, TypeInv, TypeOK
<1>1. CASE DriverStart(p) \/ DriverUp(p) \/ DriverFail(p)
  <2>1. InMutex(p) /\ \A q \in Procs \ {p} : pc'[q] = pc[q]
    BY <1>0, <1>1 DEF DriverStart, DriverUp, DriverFail, Goto, InMutex, InStart, StartSteps
  <2>2. pc'[p] # "set"
    BY <1>0, <1>1 DEF DriverStart, DriverUp, DriverFail, Goto
  <2>3. QED
    BY <2>1, <2>2, Alone DEF SetInv, InStart, StartSteps
<1>2. CASE DriverFound(p)
  <2>1. InMutex(p) /\ \A q \in Procs \ {p} : pc'[q] = pc[q]
    BY <1>0, <1>2 DEF DriverFound, Goto, InMutex, InStart, StartSteps
  <2>2. ti'[p] \in Transports /\ UNCHANGED <<mount, sdrv>> /\ mount[sdrv[p]] = "launching"
    BY <1>0, <1>2 DEF DriverFound, DevicePresent, Inv, TypeInv, TypeOK
  <2>3. QED
    BY <2>1, <2>2, Alone DEF SetInv, InStart, StartSteps
<1>3. CASE StartNoop(p) \/ StartCapture(p)
  BY <1>0, <1>3, SetKept DEF StartNoop, StartCapture, AfterStart, Goto
<1>4. CASE StartOkCheck(p) \/ StartErrCheck(p) \/ StartErrSet(p) \/ StartEnd(p)
  BY <1>0, <1>4, SetKept DEF StartOkCheck, StartErrCheck, StartErrSet, StartEnd, AfterStart, Goto
<1>5. CASE StartStale(p) \/ StartPublish(p)
  BY <1>0, <1>5, SetKept DEF StartStale, StartPublish, StopMount, Forget, Goto
<1>6. QED
  BY <1>1, <1>2, <1>3, <1>4, <1>5 DEF StartTunnel

\* Nobody else turns a mount on or comes to "set".
LEMMA OthersSet ==
    ASSUME Inv, \/ \E p \in Procs : SwitchDriver(p) \/ Restart(p)
                \/ HealthLoop \/ Outside \/ UNCHANGED vars
    PROVE  SetInv'
<1> USE SetKept DEF engine, status, tunnels, locals, env, At
<1>0. /\ pc \in [Procs -> Steps] /\ mount \in [Drivers -> {"off", "launching"} \union Up]
      /\ sdrv \in [Procs -> Drivers] /\ ti \in [Procs -> Transports \union {None}]
  BY DEF Inv, TypeInv, TypeOK
<1>1. ASSUME NEW s \in Procs, SwitchDriver(s) PROVE SetInv'
  BY <1>0, <1>1 DEF SwitchDriver, SwitchBegin, SwitchStop, SwitchSwap, SwitchFail, StopMount, Goto
<1>2. ASSUME NEW p \in Procs, Restart(p) PROVE SetInv'
  BY <1>0, <1>2 DEF Restart, RestartMark, RestartPick, RestartStop, ServiceKill, StopMount,
     Killed, Goto
<1>3. CASE HealthLoop
  BY <1>0, <1>3 DEF HealthLoop, HealthTick, HealthPick, HealthCheck, TouchHealth, ReresolveFound,
     ReresolveMissed, HealthApply, HealthMark, HealthStop, StopMount, Forget, Goto
<1>4. CASE Outside \/ UNCHANGED vars
  BY <1>0, <1>4 DEF Outside, vars, InjectionFails, InjectionSucceeds, DaemonDies, DeviceMoves,
     Terminate, StopBootDriver, StopMount, Killed
<1>5. QED
  BY <1>1, <1>2, <1>3, <1>4

\* Inv holds in every reachable state.
LEMMA Invariance == Spec => []Inv
<1>1. Init => Inv
  <2>1. Init => SetInv
    BY DEF Init, SetInv, FirstSteps
  <2>2. QED
    BY <2>1, InitType, InitSafe DEF Inv
<1>2. Inv /\ [Next]_vars => Inv'
  BY NextCases, StartType, SwitchType, RestartType, HealthType, OutsideType, StutterType,
     StartSafe, SwitchSafe, RestartSafe, HealthSafe, OutsideSafe, StartSet, OthersSet DEF Inv
<1>3. QED
  BY <1>1, <1>2, PTL DEF Spec

\* Every variable keeps its type: TypeOK is part of the invariant.
THEOREM TypeCorrect == Spec => []TypeOK
<1>1. Inv => TypeOK
  BY DEF Inv, TypeInv
<1>2. QED
  BY <1>1, Invariance, PTL

\* tunnelMu: no two goroutines are inside StartTunnel or swapping the driver.
THEOREM MutualExclusion == Spec => []StartsSerialised
<1>1. Inv => StartsSerialised
  BY DEF Inv, SafeInv, LockInv, StartsSerialised
<1>2. QED
  BY <1>1, Invariance, PTL

\* A start publishes the endpoint of the current driver, although the
\* generation it checked may already be outdated again.
THEOREM PublicationIsCurrent == Spec => []PublishesCurrentDriver
<1>1. Inv => PublishesCurrentDriver
  BY DEF Inv, SafeInv, CapturedInv, PublishesCurrentDriver, InStart, StartSteps
<1>2. QED
  BY <1>1, Invariance, PTL

\* activeStartCancel belongs to the start in progress, and raising the
\* generation cancels that start.
THEOREM FenceCancels == Spec => [](CancelIsHolders /\ FencedStartsAreCancelled)
<1>1. Inv => CancelIsHolders /\ FencedStartsAreCancelled
  BY DEF Inv, SafeInv
<1>2. QED
  BY <1>1, Invariance, PTL

\* "starting" always has a current start or a pending switch to end it.
THEOREM StartingHasOwner == Spec => []StartingIsOwned
<1>1. Inv => StartingIsOwned
  BY DEF Inv, SafeInv
<1>2. QED
  BY <1>1, Invariance, PTL

-----------------------------------------------------------------------------
(* Only the current driver owns a daemon, but for those a switch overlooked. *)

\* A launching daemon has a start waiting for it, so it cannot outlive the
\* mutex unnoticed by StopTunnel, which leaves a launching mount alone.
LaunchesAwaited ==
    \A d \in Drivers : mount[d] = "launching" =>
        \E p \in Procs : pc[p] \in {"wait", "set"} /\ sdrv[p] = d

\* The driver a switch captured stays stopped until the swap.
SwapsStopped == \A s \in Switchers : pc[s] = "swap" => mount[sdrv[s]] = "off"

DaemonInv == LaunchesAwaited /\ SwapsStopped /\ OnlyCurrentDaemon

\* Steps that stop or kill daemons and launch none, taken by a goroutine
\* that neither awaits a launch nor switches, keep all of it.
LEMMA OnlyStops ==
    ASSUME Inv, DaemonInv, UNCHANGED <<drv, overlooked>>,
           NEW p \in Procs, NEW step, Goto(p, step),
           pc[p] \notin {"wait", "set"}, step \notin {"wait", "set", "swap"},
           \A q \in Procs \ {p} : sdrv'[q] = sdrv[q],
           \A d \in Drivers : \/ mount'[d] \in {mount[d], "off"}
                              \/ mount[d] = "on" /\ mount'[d] = "lost"
    PROVE  DaemonInv'
<1>1. /\ pc \in [Procs -> Steps] /\ Switchers \subseteq Procs
      /\ \A q \in Procs : pc'[q] = IF q = p THEN step ELSE pc[q]
  BY DEF Inv, TypeInv, TypeOK, Procs, Clients, Goto
<1>0. sdrv \in [Procs -> Drivers]
  BY DEF Inv, TypeInv, TypeOK
<1>2. LaunchesAwaited'
  BY <1>1 DEF DaemonInv, LaunchesAwaited
<1>3. SwapsStopped'
  BY <1>0, <1>1 DEF DaemonInv, SwapsStopped
<1>4. OnlyCurrentDaemon'
  BY DEF DaemonInv, OnlyCurrentDaemon
<1>5. QED
  BY <1>2, <1>3, <1>4 DEF DaemonInv

\* A step outside the goroutines that only stops or loses daemons keeps DaemonInv.
LEMMA OutsideStops ==
    ASSUME Inv, DaemonInv, UNCHANGED <<drv, overlooked, pc, sdrv>>,
           \A d \in Drivers : \/ mount'[d] \in {mount[d], "off"}
                              \/ mount[d] = "on" /\ mount'[d] = "lost"
    PROVE  DaemonInv'
<1>1. sdrv \in [Procs -> Drivers] /\ Switchers \subseteq Procs
  BY DEF Inv, TypeInv, TypeOK, Procs, Clients
<1>2. QED
  BY <1>1 DEF DaemonInv, LaunchesAwaited, SwapsStopped, OnlyCurrentDaemon

\* StartTunnel keeps DaemonInv: it launches only the current driver.
LEMMA StartDaemon ==
    ASSUME Inv, DaemonInv, NEW p \in Procs, StartTunnel(p) PROVE DaemonInv'
<1> USE DEF engine, status, tunnels, locals, env, At
<1>0. /\ pc \in [Procs -> Steps] /\ mount \in [Drivers -> {"off", "launching", "on", "lost", "blind"}]
      /\ sdrv \in [Procs -> Drivers] /\ Switchers \subseteq Procs
  BY DEF Inv, TypeInv, TypeOK, Up, Procs, Clients
<1>1. CASE StartNoop(p) \/ StartCapture(p) \/ StartOkCheck(p) \/ StartStale(p)
           \/ StartPublish(p) \/ StartErrCheck(p) \/ StartErrSet(p) \/ StartEnd(p)
  <2>1. PICK step \in {"start", "call", "publish", "stale", "end", "errset", "errend",
                       "tick", "done", "failed"} : Goto(p, step)
    BY <1>1 DEF StartNoop, StartCapture, StartOkCheck, StartStale, StartPublish,
       StartErrCheck, StartErrSet, StartEnd, AfterStart
  <2>2. UNCHANGED <<drv, overlooked>> /\ pc[p] \notin {"wait", "set"}
        /\ \A q \in Procs \ {p} : sdrv'[q] = sdrv[q]
    BY <1>0, <1>1 DEF StartNoop, StartCapture, StartOkCheck, StartStale, StartPublish,
       StartErrCheck, StartErrSet, StartEnd, SetActiveStart
  <2>3. \A d \in Drivers : mount'[d] \in {mount[d], "off"}
    BY <1>0, <1>1 DEF StartNoop, StartCapture, StartOkCheck, StartStale, StartPublish,
       StartErrCheck, StartErrSet, StartEnd, StopMount
  <2>4. QED
    BY <2>1, <2>2, <2>3, OnlyStops
<1>2. CASE DriverStart(p) \/ DriverFound(p) \/ DriverUp(p) \/ DriverFail(p)
  <2>1. InStart(p) /\ InMutex(p)
    BY <1>2 DEF DriverStart, DriverFound, DriverUp, DriverFail, InStart, InMutex, StartSteps
  <2>2. PICK step \in {"wait", "set", "okcheck", "errcheck"} :
            \A q \in Procs : pc'[q] = IF q = p THEN step ELSE pc[q]
    BY <1>0, <1>2 DEF DriverStart, DriverFound, DriverUp, DriverFail, Goto
  <2>3. \A q \in Procs \ {p} : pc[q] \notin {"wait", "set", "swap"}
    BY <2>1, Alone DEF InStart, InMutex, StartSteps
  <2>4. sdrv[p] = drv /\ UNCHANGED <<sdrv, drv, overlooked>>
    BY <1>2, <2>1 DEF DriverStart, DriverFound, DriverUp, DriverFail, Inv, SafeInv, CapturedInv
  <2>5. \A d \in Drivers \ {drv} : mount'[d] = mount[d]
    BY <1>0, <1>2, <2>4 DEF DriverStart, DriverFound, DriverUp, DriverFail
  <2>6. mount'[drv] = "launching" => pc'[p] \in {"wait", "set"}
    <3>1. drv \in Drivers
      BY DEF Inv, TypeInv, TypeOK
    <3>2. CASE DriverStart(p)
      BY <1>0, <2>4, <3>1, <3>2 DEF DriverStart, Goto, Up
    <3>3. CASE DriverFound(p)
      BY <1>0, <3>3 DEF DriverFound, Goto
    <3>4. CASE DriverUp(p) \/ DriverFail(p)
      BY <1>0, <2>4, <3>1, <3>4 DEF DriverUp, SetMount, DriverFail
    <3>5. QED
      BY <1>2, <3>2, <3>3, <3>4
  <2>7. LaunchesAwaited'
    BY <2>2, <2>3, <2>4, <2>5, <2>6 DEF DaemonInv, LaunchesAwaited
  <2>8. SwapsStopped'
    BY <1>0, <2>2, <2>3 DEF SwapsStopped
  <2>9. OnlyCurrentDaemon'
    BY <2>4, <2>5 DEF DaemonInv, OnlyCurrentDaemon
  <2>10. QED
    BY <2>7, <2>8, <2>9 DEF DaemonInv
<1>3. QED
  BY <1>1, <1>2 DEF StartTunnel

\* A switch keeps DaemonInv: it has stopped the driver it replaces, or
\* overlooked it.
LEMMA SwitchDaemon ==
    ASSUME Inv, DaemonInv, NEW s \in Procs, SwitchDriver(s) PROVE DaemonInv'
<1> USE DEF engine, status, tunnels, locals, env, At
<1>0. /\ pc \in [Procs -> Steps] /\ mount \in [Drivers -> {"off", "launching", "on", "lost", "blind"}]
      /\ sdrv \in [Procs -> Drivers] /\ Switchers \subseteq Procs /\ s \in Switchers
  BY DEF Inv, TypeInv, TypeOK, Up, Kinds, SwitchDriver, SwitchBegin, SwitchStop,
     SwitchSwap, SwitchFail, Procs, Clients, SwitchSteps
<1>1. CASE SwitchBegin(s)
  <2>1. /\ \A q \in Procs : pc'[q] = IF q = s THEN "swstop" ELSE pc[q]
        /\ \A q \in Procs : sdrv'[q] = IF q = s THEN drv ELSE sdrv[q]
        /\ pc[s] = "begin" /\ UNCHANGED <<drv, overlooked, mount>>
    BY <1>0, <1>1 DEF SwitchBegin, Goto
  <2>2. QED
    BY <1>0, <2>1 DEF DaemonInv, LaunchesAwaited, SwapsStopped, OnlyCurrentDaemon
<1>2. CASE SwitchStop(s)
  <2>1. /\ \A q \in Procs : pc'[q] = IF q = s THEN "swap" ELSE pc[q]
        /\ pc[s] = "swstop" /\ UNCHANGED <<drv, overlooked, sdrv>>
    BY <1>0, <1>2 DEF SwitchStop, Goto
  <2>2. \A q \in Procs : ~InMutex(q)
    BY <1>2, ProcsAssumption DEF SwitchStop, LockTunnelMu, Inv, SafeInv, LockInv
  <2>3. \A d \in Drivers : mount[d] # "launching"
    BY <2>2 DEF DaemonInv, LaunchesAwaited, InMutex, InStart, StartSteps
  <2>4. mount'[sdrv[s]] = "off" /\ \A d \in Drivers : mount'[d] \in {mount[d], "off"}
    BY <1>0, <1>2, <2>3 DEF SwitchStop, StopMount
  <2>5. \A t \in Switchers : pc'[t] = "swap" => t = s
    BY <1>0, <2>1, <2>2 DEF InMutex
  <2>6. QED
    BY <1>0, <2>1, <2>3, <2>4, <2>5 DEF DaemonInv, LaunchesAwaited, SwapsStopped, OnlyCurrentDaemon
<1>3. CASE SwitchSwap(s) \/ SwitchFail(s)
  <2>1. PICK step \in {"start", "failed"} : \A q \in Procs : pc'[q] = IF q = s THEN step ELSE pc[q]
    BY <1>0, <1>3 DEF SwitchSwap, SwitchFail, Goto
  <2>2. pc[s] = "swap" /\ UNCHANGED <<mount, sdrv>> /\ mount[sdrv[s]] = "off"
    BY <1>0, <1>3 DEF SwitchSwap, SwitchFail, DaemonInv, SwapsStopped
  <2>3. \/ UNCHANGED <<drv, overlooked>>
        \/ overlooked \subseteq overlooked' /\ (drv = sdrv[s] \/ drv \in overlooked')
    BY <1>3 DEF SwitchSwap, SwitchFail
  <2>4. LaunchesAwaited' /\ SwapsStopped'
    BY <1>0, <2>1, <2>2 DEF DaemonInv, LaunchesAwaited, SwapsStopped
  <2>5. OnlyCurrentDaemon'
    BY <2>2, <2>3 DEF DaemonInv, OnlyCurrentDaemon
  <2>6. QED
    BY <2>4, <2>5 DEF DaemonInv
<1>4. QED
  BY <1>1, <1>2, <1>3 DEF SwitchDriver

\* The watchdog keeps DaemonInv.
LEMMA HealthDaemon == ASSUME Inv, DaemonInv, HealthLoop PROVE DaemonInv'
<1> USE OnlyStops DEF engine, status, tunnels, locals, env, At
<1>0. health \in Procs /\ sdrv \in [Procs -> Drivers]
      /\ mount \in [Drivers -> {"off", "launching", "on", "lost", "blind"}]
  BY DEF Procs, Inv, TypeInv, TypeOK, Up
<1>1. CASE HealthTick \/ HealthCheck \/ TouchHealth \/ ReresolveMissed \/ ReresolveFound
           \/ HealthApply \/ HealthMark
  BY <1>0, <1>1 DEF HealthTick, HealthCheck, TouchHealth, ReresolveMissed, ReresolveFound,
     HealthApply, HealthMark
<1>2. CASE HealthPick
  BY <1>0, <1>2 DEF HealthPick
<1>3. CASE HealthStop
  BY <1>0, <1>3 DEF HealthStop, StopMount
<1>4. QED
  BY <1>1, <1>2, <1>3 DEF HealthLoop

\* Restarts keep DaemonInv: they only stop daemons.
LEMMA RestartDaemon ==
    ASSUME Inv, DaemonInv, NEW p \in Procs, Restart(p) PROVE DaemonInv'
<1> USE OnlyStops DEF engine, status, tunnels, locals, env, At
<1>0. /\ sdrv \in [Procs -> Drivers]
      /\ mount \in [Drivers -> {"off", "launching", "on", "lost", "blind"}]
  BY DEF Inv, TypeInv, TypeOK, Up
<1>1. CASE RestartMark(p) \/ RestartPick(p)
  BY <1>0, <1>1 DEF RestartMark, RestartPick
<1>2. CASE RestartStop(p)
  BY <1>0, <1>2 DEF RestartStop, StopMount
<1>3. CASE ServiceKill(p)
  <2>1. \A d \in Drivers : \/ mount'[d] \in {mount[d], "off"}
                           \/ mount[d] = "on" /\ mount'[d] = "lost"
    BY <1>0, <1>3 DEF ServiceKill, Killed
  <2>2. QED
    BY <1>0, <1>3, <2>1 DEF ServiceKill
<1>4. QED
  BY <1>1, <1>2, <1>3 DEF Restart

\* Steps of no goroutine keep DaemonInv.
LEMMA OutsideDaemon == ASSUME Inv, DaemonInv, Outside \/ UNCHANGED vars PROVE DaemonInv'
<1> USE OutsideStops DEF engine, status, tunnels, locals, env
<1>0. mount \in [Drivers -> {"off", "launching", "on", "lost", "blind"}]
  BY DEF Inv, TypeInv, TypeOK, Up
<1>1. ASSUME NEW d \in Drivers, DaemonDies(d) PROVE DaemonInv'
  BY <1>0, <1>1 DEF DaemonDies, Killed
<1>2. CASE StopBootDriver
  BY <1>0, <1>2 DEF StopBootDriver, StopMount
<1>3. CASE InjectionFails \/ InjectionSucceeds \/ DeviceMoves \/ Terminate \/ UNCHANGED vars
  BY <1>3 DEF InjectionFails, InjectionSucceeds, DeviceMoves, Terminate, vars
<1>4. QED
  BY <1>1, <1>2, <1>3 DEF Outside

\* However many switches overlap, with starts, restarts and watchdog ticks in
\* flight: a driver that was replaced owns a daemon only if the switch that
\* replaced it had stopped another (engine_tunnel.go:51 against 66).
THEOREM ReplacedDriversAreStopped == Spec => []OnlyCurrentDaemon
<1>1. Init => DaemonInv
  <2>1. Init => \A s \in Switchers : pc[s] # "swap"
    <3>1. \A s \in Switchers : s \in Procs /\ FirstSteps(s) = {"begin"}
      BY ProcsAssumption DEF FirstSteps, Procs, Clients
    <3>2. QED
      BY <3>1 DEF Init
  <2>2. QED
    BY <2>1 DEF Init, DaemonInv, LaunchesAwaited, SwapsStopped, OnlyCurrentDaemon
<1>2. Inv /\ DaemonInv /\ [Next]_vars => DaemonInv'
  BY NextCases, StartDaemon, SwitchDaemon, RestartDaemon, HealthDaemon, OutsideDaemon
<1>3. DaemonInv => OnlyCurrentDaemon
  BY DEF DaemonInv
<1>4. QED
  BY <1>1, <1>2, <1>3, Invariance, PTL DEF Spec

-----------------------------------------------------------------------------
(* Shutdown.                                                               *)

\* No step lets boot or the watchdog into a start that outlives the run.
LEMMA OwnStartsStep ==
    ASSUME Inv, OwnStartsEndWithTheRun, [Next]_vars PROVE OwnStartsEndWithTheRun'
<1> USE DEF engine, status, tunnels, locals, env, At, OwnStartsEndWithTheRun
<1>0. pc \in [Procs -> Steps] /\ boot \in Procs /\ health \in Procs
  BY DEF Inv, TypeInv, TypeOK, Procs
<1>1. ASSUME NEW p \in Procs, StartTunnel(p) PROVE OwnStartsEndWithTheRun'
  <2>1. CASE StartCapture(p)
    BY <1>0, <2>1 DEF StartCapture, OwnStarters, Goto, InStart
  <2>2. CASE ~StartCapture(p)
    <3>1. cancelled' = cancelled /\ phase' = phase
      BY <1>1, <2>2 DEF StartTunnel, StartNoop, DriverStart, DriverFound, DriverUp, DriverFail,
          StartOkCheck,
         StartStale, StartPublish, StartErrCheck, StartErrSet, StartEnd
    <3>2. \A q \in Procs : InStart(q)' => InStart(q)
      BY <1>0, <1>1, <2>2 DEF StartTunnel, StartNoop, DriverStart, DriverFound, DriverUp,
          DriverFail,
         StartOkCheck, StartStale, StartPublish, StartErrCheck, StartErrSet, StartEnd,
         AfterStart, Goto, InStart, StartSteps
    <3>3. QED
      BY <1>0, <3>1, <3>2
  <2>3. QED
    BY <2>1, <2>2
<1>2. ASSUME NEW s \in Procs, SwitchDriver(s) PROVE OwnStartsEndWithTheRun'
  <2>1. cancelled \subseteq cancelled' /\ phase' = phase
    BY <1>2 DEF SwitchDriver, SwitchBegin, SwitchStop, SwitchSwap, SwitchFail, AbortActiveStart
  <2>2. \A q \in Procs : InStart(q)' => InStart(q)
    BY <1>0, <1>2 DEF SwitchDriver, SwitchBegin, SwitchStop, SwitchSwap, SwitchFail,
       Goto, InStart, StartSteps
  <2>3. QED
    BY <1>0, <2>1, <2>2
<1>3. ASSUME NEW p \in Procs, Restart(p) PROVE OwnStartsEndWithTheRun'
  BY <1>0, <1>3 DEF Restart, RestartMark, RestartPick, RestartStop, ServiceKill,
     Goto, InStart, StartSteps
<1>4. CASE HealthLoop
  BY <1>0, <1>4 DEF HealthLoop, HealthTick, HealthPick, HealthCheck, TouchHealth, ReresolveFound,
     ReresolveMissed, HealthApply, HealthMark, HealthStop, Goto, InStart, StartSteps
<1>5. CASE Outside \/ UNCHANGED vars
  BY <1>5 DEF Outside, vars, InjectionFails, InjectionSucceeds, DaemonDies, DeviceMoves,
     Terminate, StopBootDriver, OwnStarters, InStart
<1>6. QED
  BY <1>1, <1>2, <1>3, <1>4, <1>5, NextCases

\* Once SIGTERM has come, neither boot nor the watchdog is inside a start
\* whose context still lives.
THEOREM OwnStartsEnd == Spec => []OwnStartsEndWithTheRun
<1>1. Init => OwnStartsEndWithTheRun
  BY DEF Init, OwnStartsEndWithTheRun
<1>2. Inv /\ OwnStartsEndWithTheRun /\ [Next]_vars => OwnStartsEndWithTheRun'
  BY OwnStartsStep
<1>3. QED
  BY <1>1, <1>2, Invariance, PTL DEF Spec

-----------------------------------------------------------------------------
(* What StartTunnel and SwitchDriver promise each other.                   *)

\* A generation captured is not ahead of the one in force.
GenInv == \A p \in Procs : sgen[p] =< gen

LEMMA GenStep == ASSUME Inv, GenInv, [Next]_vars PROVE GenInv'
<1> USE DEF engine, status, tunnels, locals, env, At
<1>0. gen \in Nat /\ sgen \in [Procs -> 0 .. Cardinality(Switchers)] /\ Cardinality(Switchers) \in Nat
  BY SwitchersFinite DEF Inv, TypeInv, TypeOK
<1>1. ASSUME NEW p \in Procs, StartTunnel(p) PROVE GenInv'
  <2>1. CASE StartCapture(p)
    BY <1>0, <2>1 DEF StartCapture, GenInv
  <2>2. CASE ~StartCapture(p)
    BY <1>1, <2>2 DEF StartTunnel, StartNoop, DriverStart, DriverFound, DriverUp, DriverFail,
        StartOkCheck,
       StartStale, StartPublish, StartErrCheck, StartErrSet, StartEnd, GenInv
  <2>3. QED
    BY <2>1, <2>2
<1>2. ASSUME NEW s \in Procs, SwitchDriver(s) PROVE GenInv'
  <2>1. sgen' = sgen /\ gen' \in {gen, gen + 1}
    BY <1>2 DEF SwitchDriver, SwitchBegin, SwitchStop, SwitchSwap, SwitchFail
  <2>2. QED
    BY <1>0, <2>1 DEF GenInv
<1>3. ASSUME NEW p \in Procs, Restart(p) PROVE GenInv'
  BY <1>3 DEF Restart, RestartMark, RestartPick, RestartStop, ServiceKill, GenInv
<1>4. CASE HealthLoop
  BY <1>4 DEF HealthLoop, HealthTick, HealthPick, HealthCheck, TouchHealth, ReresolveFound,
     ReresolveMissed, HealthApply, HealthMark, HealthStop, GenInv
<1>5. CASE Outside \/ UNCHANGED vars
  BY <1>5 DEF Outside, vars, InjectionFails, InjectionSucceeds, DaemonDies, DeviceMoves,
     Terminate, StopBootDriver, GenInv
<1>6. QED
  BY <1>1, <1>2, <1>3, <1>4, <1>5, NextCases

\* Nobody begins or ends a start, no switch begins or goes on, and "starting"
\* stays or ends: at most the state settles.
LEMMA Settles ==
    ASSUME Inv, UNCHANGED <<drv, gen, sgen>>, cancelled \subseteq cancelled',
           \A q \in Procs : InStart(q)' <=> InStart(q),
           \A q \in Procs : InStart(q) => sdrv'[q] = sdrv[q],
           Waiting' = Waiting, state' = "starting" => state = "starting"
    PROVE  [F!Next]_(F!vars)
<1>1. Under' = Under
  BY DEF Under
<1>2. \A q \in Procs : InStart(q) /\ sgen[q] # gen => q \in cancelled
  BY DEF Inv, SafeInv, FencedStartsAreCancelled
<1>3. Fenced' = Fenced
  BY <1>2 DEF Fenced
<1>4. CASE (state = "starting") <=> (state = "starting")'
  BY <1>1, <1>3, <1>4 DEF F!vars
<1>5. CASE ~(state = "starting")'
  BY <1>1, <1>3, <1>5 DEF F!Next, F!Settle
<1>6. QED
  BY <1>4, <1>5

\* So it is when one goroutine goes on, inside its start or outside.
LEMMA GoesOn ==
    ASSUME Inv, NEW p \in Procs, NEW step, Goto(p, step),
           InStart(p) <=> step \in StartSteps,
           pc[p] \notin {"swstop", "swap"}, step \notin {"swstop", "swap"},
           UNCHANGED <<drv, gen, sgen>>, cancelled \subseteq cancelled',
           \A q \in Procs : q # p \/ InStart(q) => sdrv'[q] = sdrv[q],
           state' = "starting" => state = "starting"
    PROVE  [F!Next]_(F!vars)
<1>1. /\ pc \in [Procs -> Steps] /\ Switchers \subseteq Procs
      /\ \A q \in Procs : pc'[q] = IF q = p THEN step ELSE pc[q]
  BY DEF Inv, TypeInv, TypeOK, Procs, Clients, Goto
<1>2. \A q \in Procs : InStart(q)' <=> InStart(q)
  BY <1>1 DEF InStart
<1>3. Waiting' = Waiting
  BY <1>1 DEF Waiting
<1>4. QED
  BY <1>2, <1>3, Settles

\* A start begins, goes on and ends as StartFence says.
LEMMA StartIsFenced ==
    ASSUME Inv, NEW p \in Procs, StartTunnel(p) PROVE [F!Next]_(F!vars)
<1> USE DEF engine, status, tunnels, locals, env, At
<1>0. /\ pc \in [Procs -> Steps] /\ Switchers \subseteq Procs
      /\ sdrv \in [Procs -> Drivers] /\ sgen \in [Procs -> 0 .. Cardinality(Switchers)]
  BY DEF Inv, TypeInv, TypeOK, Procs, Clients
<1>1. CASE StartNoop(p)
  BY <1>1, GoesOn DEF StartNoop, AfterStart, InStart, StartSteps
<1>2. CASE StartCapture(p)
  <2>1. /\ \A q \in Procs : pc'[q] = IF q = p THEN "call" ELSE pc[q]
        /\ None \notin Procs /\ tunnelMu = None /\ pc[p] = "start"
    BY <1>0, <1>2, ProcsAssumption DEF StartCapture, LockTunnelMu, Goto
  <2>2. \A q \in Procs : ~InStart(q)
    BY <2>1 DEF Inv, SafeInv, LockInv, InMutex
  <2>3. \A q \in Procs : InStart(q)' <=> q = p
    BY <2>1, <2>2 DEF InStart, StartSteps
  <2>4. sdrv'[p] = drv /\ sgen'[p] = gen /\ UNCHANGED <<drv, gen>>
    BY <1>0, <1>2 DEF StartCapture
  <2>5. Under = {} /\ Under' = {<<p, drv>>}
    BY <2>2, <2>3, <2>4 DEF Under
  <2>6. Fenced = {} /\ Fenced' = {}
    BY <2>2, <2>3, <2>4 DEF Fenced
  <2>7. Waiting' = Waiting
    BY <1>0, <2>1 DEF Waiting
  <2>8. (state = "starting") => (state' = "starting")
    BY <1>2 DEF StartCapture
  <2>9. F!Begin(p)
    BY <2>4, <2>5, <2>6, <2>7, <2>8 DEF F!Begin
  <2>10. QED
    BY <2>9 DEF F!Next
<1>3. CASE DriverStart(p) \/ DriverFound(p) \/ DriverUp(p) \/ DriverFail(p)
  BY <1>3, GoesOn DEF DriverStart, DriverFound, DriverUp, DriverFail, InStart, StartSteps
<1>4. CASE StartOkCheck(p) \/ StartStale(p) \/ StartErrCheck(p)
  BY <1>4, GoesOn DEF StartOkCheck, StartStale, StartErrCheck, InStart, StartSteps
<1>5. CASE StartPublish(p) \/ StartErrSet(p)
  BY <1>5, GoesOn DEF StartPublish, StartErrSet, LeaveStarting, InStart, StartSteps
<1>6. CASE StartEnd(p)
  <2>1. PICK step \in {"tick", "done", "failed"} : \A q \in Procs : pc'[q] = IF q = p THEN step ELSE pc[q]
    BY <1>0, <1>6 DEF StartEnd, AfterStart, Goto
  <2>2. InStart(p) /\ pc[p] \in {"end", "errend"}
    BY <1>6 DEF StartEnd, InStart, StartSteps
  <2>3. \A q \in Procs \ {p} : ~InStart(q)
    BY <2>2, Alone DEF InMutex
  <2>4. \A q \in Procs : ~InStart(q)'
    BY <2>1, <2>3 DEF InStart, StartSteps
  <2>5. Under # {} /\ Under' = {} /\ Fenced' = {}
    BY <2>2, <2>4 DEF Under, Fenced
  <2>6. Waiting' = Waiting
    BY <1>0, <2>1, <2>2 DEF Waiting
  <2>7. state = "starting" => Waiting # {}
    BY <2>2, <2>3 DEF Inv, SafeInv, StartingIsOwned, SwitchPending, Waiting, InStart
  <2>8. F!End
    BY <1>6, <2>5, <2>6, <2>7 DEF F!End, StartEnd
  <2>9. QED
    BY <2>8 DEF F!Next
<1>7. QED
  BY <1>1, <1>2, <1>3, <1>4, <1>5, <1>6 DEF StartTunnel

\* A switch fences off the start under way and replaces the driver after it.
LEMMA SwitchIsFenced ==
    ASSUME Inv, GenInv, NEW s \in Procs, SwitchDriver(s) PROVE [F!Next]_(F!vars)
<1> USE DEF engine, status, tunnels, locals, env, At
<1>0. /\ pc \in [Procs -> Steps] /\ Switchers \subseteq Procs /\ s \in Switchers
      /\ sdrv \in [Procs -> Drivers] /\ gen \in Nat
      /\ sgen \in [Procs -> 0 .. Cardinality(Switchers)]
  BY DEF Inv, TypeInv, TypeOK, Kinds, SwitchDriver, SwitchBegin, SwitchStop, SwitchSwap,
     SwitchFail, Procs, Clients, SwitchSteps
<1>1. CASE SwitchBegin(s)
  <2>1. pc[s] = "begin" /\ \A q \in Procs : pc'[q] = IF q = s THEN "swstop" ELSE pc[q]
    BY <1>0, <1>1 DEF SwitchBegin, Goto
  <2>2. \A q \in Procs : InStart(q)' <=> InStart(q)
    BY <2>1 DEF InStart, StartSteps
  <2>3. \A q \in Procs : InStart(q) => q # s /\ q \in cancelled' /\ sgen'[q] # gen' /\ sdrv'[q] = sdrv[q]
    <3>1. \A q \in Procs : InStart(q) => q # s
      BY <2>1 DEF InStart, StartSteps
    <3>2. \A q \in Procs : InStart(q) => q \in cancelled'
      <4>1. None \notin Procs /\ \A q \in Procs : InStart(q) => startCancel = q
        BY ProcsAssumption DEF Inv, SafeInv, CancelIsHolders
      <4>2. QED
        BY <1>1, <4>1 DEF SwitchBegin, AbortActiveStart
    <3>3. \A q \in Procs : sgen'[q] # gen'
      BY <1>0, <1>1 DEF SwitchBegin, GenInv
    <3>4. QED
      BY <1>0, <1>1, <3>1, <3>2, <3>3 DEF SwitchBegin
  <2>4. Under' = Under
    BY <2>2, <2>3 DEF Under
  <2>5. Fenced' = {q \in Procs : InStart(q)}
    BY <2>2, <2>3 DEF Fenced
  <2>6. {x[1] : x \in Under} = {q \in Procs : InStart(q)}
    <3>1. ASSUME NEW q \in Procs, InStart(q)  PROVE q \in {x[1] : x \in Under}
      <4>1. <<q, sdrv[q]>> \in Under /\ q = <<q, sdrv[q]>>[1]
        BY <3>1 DEF Under
      <4> HIDE DEF Under
      <4>2. QED
        BY <4>1
    <3>2. ASSUME NEW x \in Under  PROVE x[1] \in Procs /\ InStart(x[1])
      BY <3>2 DEF Under
    <3> HIDE DEF Under
    <3>3. QED
      BY <3>1, <3>2
  <2>7. s \notin Waiting /\ Waiting' = Waiting \union {s}
    BY <1>0, <2>1 DEF Waiting
  <2>8. F!Fence(s)
    BY <1>1, <2>4, <2>5, <2>6, <2>7 DEF F!Fence, SwitchBegin
  <2>9. QED
    BY <1>0, <2>8 DEF F!Next
<1>2. CASE SwitchStop(s)
  <2>1. pc[s] = "swstop" /\ \A q \in Procs : pc'[q] = IF q = s THEN "swap" ELSE pc[q]
    BY <1>0, <1>2 DEF SwitchStop, Goto
  <2>2. \A q \in Procs : InStart(q)' <=> InStart(q)
    BY <2>1 DEF InStart, StartSteps
  <2>3. Waiting' = Waiting
    BY <1>0, <2>1 DEF Waiting
  <2>4. QED
    BY <1>2, <2>2, <2>3, Settles DEF SwitchStop
<1>3. CASE SwitchSwap(s) \/ SwitchFail(s)
  <2>1. /\ pc[s] = "swap"
        /\ \E step \in {"start", "failed"} : \A q \in Procs : pc'[q] = IF q = s THEN step ELSE pc[q]
    BY <1>0, <1>3 DEF SwitchSwap, SwitchFail, Goto
  <2>2. \A q \in Procs : ~InStart(q)
    BY <2>1, Alone DEF InMutex, InStart, StartSteps
  <2>3. \A q \in Procs : ~InStart(q)'
    BY <2>1, <2>2 DEF InStart, StartSteps
  <2>4. Under = {} /\ Under' = {} /\ Fenced = {} /\ Fenced' = {}
    BY <2>2, <2>3 DEF Under, Fenced
  <2>5. s \in Waiting /\ Waiting' = Waiting \ {s}
    BY <1>0, <2>1 DEF Waiting
  <2>6. state' # "starting"
    BY <1>3 DEF SwitchSwap, SwitchFail
  <2>7. drv' \in Drivers
    BY <1>0, <1>3, SwitchType DEF Inv, TypeInv, TypeOK, SwitchDriver
  <2>8. F!Replace(s)
    BY <2>4, <2>5, <2>6, <2>7 DEF F!Replace
  <2>9. QED
    BY <1>0, <2>8 DEF F!Next
<1>4. QED
  BY <1>1, <1>2, <1>3 DEF SwitchDriver

\* Nothing else begins or ends a start, or replaces the driver.
LEMMA OthersAreFenced ==
    ASSUME Inv, HealthLoop \/ (\E p \in Procs : Restart(p)) \/ Outside \/ UNCHANGED vars
    PROVE  [F!Next]_(F!vars)
<1> USE DEF engine, status, tunnels, locals, env, At
<1>0. health \in Procs /\ sdrv \in [Procs -> Drivers]
  BY DEF Procs, Inv, TypeInv, TypeOK
<1>1. CASE HealthLoop
  <2> USE GoesOn DEF InStart, StartSteps
  <2>1. CASE HealthTick \/ HealthCheck \/ TouchHealth \/ ReresolveMissed \/ HealthStop
    BY <1>0, <2>1 DEF HealthTick, HealthCheck, TouchHealth, ReresolveMissed, HealthStop
  <2>2. CASE HealthPick
    BY <1>0, <2>2 DEF HealthPick
  <2>3. CASE ReresolveFound \/ HealthApply
    BY <1>0, <2>3 DEF ReresolveFound, HealthApply
  <2>4. CASE HealthMark
    BY <1>0, <2>4 DEF HealthMark, MarkTunnelLost
  <2>5. QED
    BY <1>1, <2>1, <2>2, <2>3, <2>4 DEF HealthLoop
<1>2. ASSUME NEW p \in Procs, Restart(p) PROVE [F!Next]_(F!vars)
  <2> USE GoesOn DEF InStart, StartSteps
  <2>1. CASE RestartMark(p)
    BY <2>1 DEF RestartMark, MarkTunnelLost
  <2>2. CASE RestartPick(p)
    BY <1>0, <2>2 DEF RestartPick
  <2>3. CASE RestartStop(p) \/ ServiceKill(p)
    BY <2>3 DEF RestartStop, ServiceKill
  <2>4. QED
    BY <1>2, <2>1, <2>2, <2>3 DEF Restart
<1>3. CASE Outside \/ UNCHANGED vars
  <2>1. /\ UNCHANGED <<drv, gen, sgen, sdrv, pc>> /\ cancelled \subseteq cancelled'
        /\ (state' = "starting" => state = "starting")
    BY <1>3 DEF Outside, vars, InjectionFails, InjectionSucceeds, DaemonDies, DeviceMoves,
       Terminate, StopBootDriver
  <2>2. Waiting' = Waiting /\ \A q \in Procs : InStart(q)' <=> InStart(q)
    BY <2>1 DEF Waiting, InStart
  <2>3. QED
    BY <2>1, <2>2, Settles
<1>4. QED
  BY <1>1, <1>2, <1>3

\* engine.go:41-49: tunnelMu, the generation and activeStartCancel together make
\* StartTunnel and SwitchDriver implement StartFence: a start keeps its driver to
\* its end, a switch that begins outdates and cancels it at once, and "starting"
\* is never left behind.
THEOREM StartsAreAlwaysFenced == Spec => StartsAreFenced
<1>1. Init => GenInv /\ F!Init
  <2>1. ASSUME Init PROVE GenInv
    BY <2>1 DEF Init, GenInv
  <2>2. ASSUME Init PROVE F!Init
    <3>1. TypeInv /\ \A q \in Procs : ~InStart(q)
      BY <2>2, InitType, InitSafe, ProcsAssumption DEF SafeInv, LockInv, InMutex, Init
    <3>2. Under = {} /\ Fenced = {}
      BY <3>1 DEF Under, Fenced
    <3>3. Waiting = {}
      BY <2>2 DEF Init, Waiting, FirstSteps, Procs, Clients
    <3>4. drv \in Drivers /\ state # "starting"
      BY <2>2, <3>1 DEF TypeInv, TypeOK, Init
    <3>5. QED
      BY <3>2, <3>3, <3>4 DEF F!Init
  <2>3. QED
    BY <2>1, <2>2
<1>2. Inv /\ GenInv /\ [Next]_vars => GenInv' /\ [F!Next]_(F!vars)
  BY GenStep, NextCases, StartIsFenced, SwitchIsFenced, OthersAreFenced
<1>3. QED
  BY <1>1, <1>2, Invariance, PTL DEF Spec, StartsAreFenced, F!Spec

-----------------------------------------------------------------------------
(* The mounts are those that module TunnelMount provides.                  *)

\* A driver's mount, as the abstract specification sees it.
Mount(d) == INSTANCE MountPhases WITH phase <- mount[d]

\* What a step may do to the mount of d.
Moved(d) == \/ mount'[d] = mount[d]
            \/ mount'[d] = "off"
            \/ mount[d] = "off" /\ mount'[d] = "launching"
            \/ mount[d] = "launching" /\ mount'[d] = "on"
            \/ mount[d] = "off" /\ mount'[d] \in {"lost", "blind"}
            \/ mount[d] = "on" /\ mount'[d] = "lost"

\* Each of these is a move between phases, or a stutter.
LEMMA MovesArePhases ==
    ASSUME TypeOK, NEW d \in Drivers, Moved(d)
    PROVE  [Mount(d)!Next]_(Mount(d)!vars)
<1>1. mount[d] \in {"off", "launching", "on", "lost", "blind"}
  BY DEF TypeOK, Up
<1>2. QED
  BY <1>1 DEF Moved, Mount!Next, Mount!vars, Mount!Move, Mount!Launch, Mount!Abandon,
     Mount!Publish, Mount!PublishDead, Mount!Lose, Mount!Stop

\* Whichever goroutine moves.
LEMMA MountStep ==
    ASSUME Inv, [Next]_vars, NEW d \in Drivers PROVE Moved(d)
<1> USE DEF engine, status, tunnels, locals, env, At, Moved
<1>0. mount \in [Drivers -> {"off", "launching", "on", "lost", "blind"}]
  BY DEF Inv, TypeInv, TypeOK, Up
<1>1. ASSUME NEW p \in Procs, StartTunnel(p) PROVE Moved(d)
  <2>1. CASE DriverStart(p)
    BY <1>0, <2>1 DEF DriverStart, Up
  <2>2. CASE DriverFound(p) \/ DriverUp(p) \/ DriverFail(p)
    BY <1>0, <2>2 DEF DriverFound, DriverUp, SetMount, DriverFail, Inv, SetInv
  <2>3. CASE StartStale(p)
    BY <1>0, <2>3 DEF StartStale, StopMount
  <2>4. CASE StartNoop(p) \/ StartCapture(p) \/ StartOkCheck(p) \/ StartPublish(p)
    BY <2>4 DEF StartNoop, StartCapture, StartOkCheck, StartPublish
  <2>5. CASE StartErrCheck(p) \/ StartErrSet(p) \/ StartEnd(p)
    BY <2>5 DEF StartErrCheck, StartErrSet, StartEnd
  <2>6. QED
    BY <1>1, <2>1, <2>2, <2>3, <2>4, <2>5 DEF StartTunnel
<1>2. ASSUME NEW s \in Procs, SwitchDriver(s) PROVE Moved(d)
  BY <1>0, <1>2 DEF SwitchDriver, SwitchBegin, SwitchStop, SwitchSwap, SwitchFail, StopMount
<1>3. ASSUME NEW p \in Procs, Restart(p) PROVE Moved(d)
  BY <1>0, <1>3 DEF Restart, RestartMark, RestartPick, RestartStop, ServiceKill, StopMount, Killed
<1>4. CASE HealthLoop
  BY <1>0, <1>4 DEF HealthLoop, HealthTick, HealthPick, HealthCheck, TouchHealth, ReresolveFound,
     ReresolveMissed, HealthApply, HealthMark, HealthStop, StopMount
<1>5. CASE Outside \/ UNCHANGED vars
  BY <1>0, <1>5 DEF Outside, vars, InjectionFails, InjectionSucceeds, DaemonDies, DeviceMoves,
     Terminate, StopBootDriver, StopMount, Killed
<1>6. QED
  BY <1>1, <1>2, <1>3, <1>4, <1>5, NextCases

\* tunnel_mount.go:88 and 231-247, from the engine's side: whatever starts,
\* switches, restarts and watchdog ticks do to a driver's mount, it goes through
\* the phases that module TunnelMount implements; a tunnel that was lost is never
\* live again without having been stopped.
THEOREM MountsKeepPhases == ASSUME NEW d \in Drivers PROVE Spec => Mount(d)!Spec
<1>1. Init => Mount(d)!Init
  BY DEF Init, Mount!Init
<1>2. Inv /\ [Next]_vars => [Mount(d)!Next]_(Mount(d)!vars)
  BY MountStep, MovesArePhases DEF Inv, TypeInv
<1>3. QED
  BY <1>1, <1>2, Invariance, PTL DEF Spec, Mount!Spec
=============================================================================
