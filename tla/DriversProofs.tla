---------------------------- MODULE DriversProofs ---------------------------
(***************************************************************************)
(* TLAPS proofs about the drivers, composed as in MCDrivers, for any       *)
(* stoppers and bounds: what the mount says of its daemons is true and it  *)
(* implements MountPhases, and the in-process driver holds every update    *)
(* loop that runs and uses no handle a command failed on.                  *)
(***************************************************************************)
EXTENDS MCDrivers, Pmd3LocationProofs, Integers, TLAPS

-----------------------------------------------------------------------------
(* The mount: what it says of its daemons.                                 *)

\* Whoever waits for a daemon, or ends one, has one that was launched.
DaemonInv ==
    /\ step[owner] \in {"poll", "set", "reap"} =>
          held[owner] \in T!Daemons /\ proc[held[owner]] # "none"
    /\ \A p \in T!Procs : step[p] \in {"kill", "stopping"} => held[p] \in T!Daemons
    /\ m.cmd # 0 => proc[m.cmd] # "none"

\* Only the owner turns the mount on, at the end of a start that found it off:
\* nothing is overwritten.
OffInv ==
    /\ ~m.on => m.cmd = 0 /\ ~m.lost
    /\ step[owner] \in {"poll", "set", "reap"} => ~m.on

MountInv == T!TypeOK /\ DaemonInv /\ OffInv /\ T!EveryDaemonIsHeld /\ T!LostIsTrue

MountRefines == T!P!Next \/ UNCHANGED T!P!vars

LEMMA MountInit == T!MountAssumption /\ T!Init => MountInv /\ T!P!Init
<1> SUFFICES ASSUME T!MountAssumption, T!Init PROVE MountInv /\ T!P!Init
  OBVIOUS
<1>1. owner \in T!Procs /\ 0 \in 0 .. MaxDaemons /\ 0 \in 0 .. MaxStops
  BY DEF T!MountAssumption, T!Procs
<1>2. T!TypeOK
  BY <1>1 DEF T!Init, T!TypeOK
<1>3. DaemonInv /\ OffInv /\ T!EveryDaemonIsHeld /\ T!LostIsTrue
  BY <1>1 DEF T!Init, DaemonInv, OffInv, T!EveryDaemonIsHeld, T!LostIsTrue
<1>4. T!P!Init
  BY <1>1 DEF T!Init, T!P!Init, T!Phase
<1>5. QED
  BY <1>2, <1>3, <1>4 DEF MountInv

-----------------------------------------------------------------------------
(* The mount, one lemma per kind of step.                                  *)

\* The owner's steps that touch neither the mount nor a daemon, and leave none
\* that runs behind.
LEMMA QuietSteps ==
    ASSUME T!MountAssumption, MountInv,
           T!StartTunnel \/ T!MountImage \/ T!StartCached \/ T!StartFails \/ T!CancelStart
           \/ T!GateExpires
           \/ T!Resolved \/ T!DaemonEnded \/ T!Reresolve \/ T!Listed
    PROVE  MountInv' /\ MountRefines
<1>1. /\ T!TypeOK /\ DaemonInv /\ OffInv /\ T!EveryDaemonIsHeld /\ T!LostIsTrue
      /\ owner \in T!Procs
      /\ 0 \in 0 .. MaxDaemons
  BY DEF MountInv, T!MountAssumption, T!Procs
<1>2. UNCHANGED <<m, proc>>
  BY DEF T!StartTunnel, T!MountImage, T!StartCached, T!StartFails, T!CancelStart, T!GateExpires,
      T!Resolved, T!DaemonEnded, T!Reresolve, T!Listed
<1>3. \/ UNCHANGED <<step, held>>
      \/ /\ step[owner] \in {"idle", "image", "start", "failed"} /\ UNCHANGED held
         /\ \E s \in {"idle", "image", "start", "failed"} : T!Goto(owner, s)
      \/ T!At(owner, "poll") /\ T!Goto(owner, "set") /\ UNCHANGED held
      \/ /\ T!At(owner, "poll") /\ T!Goto(owner, "failed") /\ proc[held[owner]] = "reaped"
         /\ held' = [held EXCEPT ![owner] = 0]
  BY DEF T!StartTunnel, T!MountImage, T!StartCached, T!StartFails, T!CancelStart, T!GateExpires,
      T!Resolved, T!DaemonEnded, T!Reresolve, T!Listed, T!At
<1>4. T!TypeOK'
  <2>1. T!Resolve \subseteq 0 .. MaxDaemons
    BY DEF T!Resolve, T!Daemons
  <2>2. step' \in [T!Procs -> {"idle", "image", "start", "poll", "set", "reap", "failed",
                             "kill", "stopping"}]
    BY <1>1, <1>3 DEF T!TypeOK, T!Goto
  <2>3. held' \in [T!Procs -> 0 .. MaxDaemons]
    BY <1>1, <1>3 DEF T!TypeOK
  <2>4. UNCHANGED <<manual, stops>> /\ answer' \in 0 .. MaxDaemons /\ attempt' \in {1, 2}
        /\ ctxDone' \in BOOLEAN
    BY <1>1, <2>1 DEF T!TypeOK, T!StartTunnel, T!MountImage, T!StartCached, T!StartFails,
        T!CancelStart, T!GateExpires, T!Resolved, T!DaemonEnded, T!Reresolve, T!Listed,
        T!startVars
  <2>5. image' \in BOOLEAN /\ gate' \in BOOLEAN
    BY <1>1 DEF T!TypeOK, T!StartTunnel, T!MountImage, T!StartCached, T!StartFails,
        T!CancelStart, T!GateExpires, T!Resolved, T!DaemonEnded, T!Reresolve, T!Listed,
        T!imageVars
  <2>6. dog' \in {"idle", "list", "update"} /\ found' \in 0 .. MaxDaemons
    BY <1>1, <2>1 DEF T!TypeOK, T!StartTunnel, T!MountImage, T!StartCached, T!StartFails,
        T!CancelStart, T!GateExpires, T!Resolved, T!DaemonEnded, T!Reresolve, T!Listed,
        T!dogVars
  <2>7. QED
    BY <1>1, <1>2, <2>2, <2>3, <2>4, <2>5, <2>6 DEF T!TypeOK
<1>5. DaemonInv' /\ OffInv' /\ T!LostIsTrue'
  BY <1>1, <1>2, <1>3 DEF T!TypeOK, DaemonInv, OffInv, T!LostIsTrue, T!Goto, T!At
<1>6. T!EveryDaemonIsHeld'
  BY <1>1, <1>2, <1>3 DEF T!TypeOK, T!EveryDaemonIsHeld, T!Goto, T!At
<1>7. T!Phase' = T!Phase
  BY <1>1, <1>2, <1>3 DEF T!TypeOK, T!Phase, T!Blind, T!Running, T!Goto, T!At
<1>8. QED
  BY <1>4, <1>5, <1>6, <1>7 DEF MountInv, MountRefines, T!P!vars

LEMMA LaunchSteps ==
    ASSUME T!MountAssumption, MountInv, T!StartManual \/ T!Launch \/ T!Publish
    PROVE  MountInv' /\ MountRefines
<1>1. /\ T!TypeOK /\ DaemonInv /\ OffInv /\ T!EveryDaemonIsHeld /\ T!LostIsTrue
      /\ owner \in T!Procs
      /\ 0 \in 0 .. MaxDaemons
  BY DEF MountInv, T!MountAssumption, T!Procs
<1>2. CASE T!StartManual
  <2>1. T!TypeOK'
    BY <1>1, <1>2 DEF T!StartManual, T!Set, T!Goto, T!TypeOK, T!startVars, T!imageVars,
        T!dogVars
  <2>2. DaemonInv' /\ OffInv' /\ T!LostIsTrue' /\ T!EveryDaemonIsHeld'
    <3>1. /\ UNCHANGED <<proc, held>> /\ T!At(owner, "start") /\ ~m.on /\ m.cmd = 0
          /\ \E s \in {"idle", "failed"} : T!Goto(owner, s)
          /\ m'.cmd = 0 /\ (~m'.on => ~m'.lost) /\ ~m'.lost
      BY <1>1, <1>2 DEF T!StartManual, T!Set, T!Up, T!TypeOK, OffInv
    <3>2. /\ step'[owner] \in {"idle", "failed"}
          /\ \A q \in T!Procs : step'[q] \in {"kill", "stopping"} => step'[q] = step[q]
          /\ \A q \in T!Procs : step[q] = "kill" => step'[q] = "kill"
      BY <1>1, <3>1 DEF T!Goto, T!At, T!TypeOK
    <3>3. DaemonInv' /\ OffInv' /\ T!LostIsTrue'
      BY <1>1, <3>1, <3>2 DEF DaemonInv, OffInv, T!LostIsTrue
    <3>4. T!EveryDaemonIsHeld'
      BY <1>1, <3>1, <3>2 DEF T!EveryDaemonIsHeld, T!At, T!Daemons
    <3>5. QED
      BY <3>3, <3>4
  <2>3. MountRefines
    BY <1>1, <1>2 DEF T!StartManual, T!Set, T!Goto, T!At, T!Up, T!TypeOK, MountRefines,
        T!P!Next, T!P!vars, T!P!Publish, T!P!Move, T!Phase
  <2>4. QED
    BY <2>1, <2>2, <2>3 DEF MountInv
<1>3. CASE T!Launch
  <2>1. CASE T!Goto(owner, "failed") /\ UNCHANGED <<m, proc, held>>
    <3>1. T!TypeOK'
      BY <1>1, <1>3, <2>1 DEF T!Launch, T!Goto, T!TypeOK, T!startVars, T!imageVars, T!dogVars
    <3>2. DaemonInv' /\ OffInv' /\ T!LostIsTrue' /\ T!EveryDaemonIsHeld' /\ T!Phase' = T!Phase
      BY <1>1, <1>3, <2>1 DEF T!Launch, T!Goto, T!At, T!TypeOK, DaemonInv, OffInv, T!LostIsTrue,
          T!EveryDaemonIsHeld, T!Phase, T!Blind, T!Running
    <3>3. QED
      BY <3>1, <3>2 DEF MountInv, MountRefines, T!P!vars
  <2>2. ASSUME NEW dm \in T!Daemons, proc[dm] = "none", proc' = [proc EXCEPT ![dm] = "alive"],
               held' = [held EXCEPT ![owner] = dm], m' = [m EXCEPT !.exited = dm],
               T!Goto(owner, "poll")
        PROVE  MountInv' /\ MountRefines
    <3>1. dm \in 0 .. MaxDaemons /\ T!At(owner, "start") /\ ~m.on
      BY <1>3 DEF T!Daemons, T!Launch, T!Up
    <3>2. T!TypeOK'
      BY <1>1, <1>3, <2>2, <3>1 DEF T!Launch, T!Goto, T!TypeOK, T!startVars, T!imageVars,
          T!dogVars
    <3>3. DaemonInv' /\ OffInv' /\ T!LostIsTrue'
      BY <1>1, <2>2, <3>1 DEF T!Goto, T!At, T!TypeOK, DaemonInv, OffInv, T!LostIsTrue
    <3>4. T!EveryDaemonIsHeld'
      BY <1>1, <2>2, <3>1 DEF T!Goto, T!At, T!TypeOK, T!EveryDaemonIsHeld
    <3>5. T!Phase = "off" /\ T!Phase' = "launching"
      BY <1>1, <2>2, <3>1 DEF T!Goto, T!At, T!TypeOK, T!Phase, T!Blind, T!Running
    <3>6. QED
      BY <3>2, <3>3, <3>4, <3>5 DEF MountInv, MountRefines, T!P!Next, T!P!Launch, T!P!Move
  <2>3. QED
    BY <1>3, <2>1, <2>2 DEF T!Launch
<1>4. CASE T!Publish
  <2>1. /\ T!At(owner, "set") /\ ~m.on /\ held[owner] \in T!Daemons /\ held[owner] # 0
        /\ proc[held[owner]] # "none"
    BY <1>1, <1>4 DEF T!Publish, T!At, DaemonInv, OffInv, T!Daemons
  <2>2. T!TypeOK'
    BY <1>1, <1>4 DEF T!Publish, T!Set, T!Goto, T!TypeOK, T!startVars, T!imageVars, T!dogVars
  <2>3. DaemonInv' /\ OffInv' /\ T!LostIsTrue'
    BY <1>1, <1>4, <2>1 DEF T!Publish, T!Set, T!Goto, T!At, T!TypeOK, DaemonInv, OffInv,
        T!LostIsTrue
  <2>4. T!EveryDaemonIsHeld'
    BY <1>1, <1>4, <2>1 DEF T!Publish, T!Set, T!Goto, T!At, T!TypeOK, OffInv,
        T!EveryDaemonIsHeld, T!Daemons
  <2>5. /\ T!Phase = IF T!Running(held[owner]) THEN "launching" ELSE "off"
        /\ T!Phase' = IF T!Running(held[owner]) THEN "on"
                      ELSE IF proc[held[owner]] = "reaped" THEN "blind" ELSE "lost"
    BY <1>1, <1>4, <2>1 DEF T!Publish, T!Set, T!Goto, T!At, T!TypeOK, T!Phase, T!Blind, T!Running
  <2>6. QED
    BY <2>2, <2>3, <2>4, <2>5 DEF MountInv, MountRefines, T!P!Next, T!P!Publish,
        T!P!PublishDead, T!P!Move
<1>5. QED
  BY <1>2, <1>3, <1>4

LEMMA EndingSteps ==
    ASSUME T!MountAssumption, MountInv, T!GiveUp \/ T!StartReaps \/ T!UpdateInfo
    PROVE  MountInv' /\ MountRefines
<1>1. /\ T!TypeOK /\ DaemonInv /\ OffInv /\ T!EveryDaemonIsHeld /\ T!LostIsTrue
      /\ owner \in T!Procs
      /\ 0 \in 0 .. MaxDaemons
  BY DEF MountInv, T!MountAssumption, T!Procs
<1>2. CASE T!GiveUp
  <2>1. T!TypeOK'
    BY <1>1, <1>2 DEF T!GiveUp, T!Kill, T!Goto, T!TypeOK, T!startVars, T!imageVars, T!dogVars
  <2>2. DaemonInv' /\ OffInv' /\ T!LostIsTrue' /\ T!EveryDaemonIsHeld'
    BY <1>1, <1>2 DEF T!GiveUp, T!Kill, T!Goto, T!At, T!TypeOK, DaemonInv, OffInv, T!LostIsTrue,
        T!EveryDaemonIsHeld, T!Daemons
  <2>3. ~m.on /\ ~m'.on /\ T!Phase' = "off" /\ T!Phase \in {"launching", "off"}
    BY <1>1, <1>2 DEF T!GiveUp, T!Goto, T!At, T!TypeOK, OffInv, T!Phase
  <2>4. QED
    BY <2>1, <2>2, <2>3 DEF MountInv, MountRefines, T!P!Next, T!P!vars, T!P!Abandon, T!P!Move
<1>3. CASE T!StartReaps
  <2>1. T!TypeOK'
    BY <1>1, <1>3 DEF T!StartReaps, T!Awaited, T!Goto, T!TypeOK, T!startVars, T!imageVars,
        T!dogVars
  <2>2. DaemonInv' /\ OffInv' /\ T!LostIsTrue' /\ T!EveryDaemonIsHeld' /\ T!Phase' = T!Phase
    BY <1>1, <1>3 DEF T!StartReaps, T!Awaited, T!Goto, T!At, T!TypeOK, DaemonInv, OffInv,
        T!LostIsTrue, T!EveryDaemonIsHeld, T!Phase, T!Blind, T!Running
  <2>3. QED
    BY <2>1, <2>2 DEF MountInv, MountRefines, T!P!vars
<1>4. CASE T!UpdateInfo
  <2>1. T!TypeOK'
    BY <1>1, <1>4 DEF T!UpdateInfo, T!TypeOK, T!startVars, T!imageVars
  <2>2. UNCHANGED <<proc, step, held>> /\ m'.on = m.on /\ m'.cmd = m.cmd /\ m'.lost = m.lost
    BY <1>1, <1>4 DEF T!UpdateInfo, T!TypeOK
  <2>3. DaemonInv' /\ OffInv' /\ T!LostIsTrue' /\ T!EveryDaemonIsHeld' /\ T!Phase' = T!Phase
    BY <1>1, <2>2 DEF DaemonInv, OffInv, T!LostIsTrue, T!EveryDaemonIsHeld, T!Phase, T!Blind,
        T!Running
  <2>4. QED
    BY <2>1, <2>3 DEF MountInv, MountRefines, T!P!vars
<1>5. QED
  BY <1>2, <1>3, <1>4

LEMMA MountStopSteps ==
    ASSUME T!MountAssumption, MountInv, NEW p \in T!Procs,
           T!Stop(p) \/ T!StopKills(p) \/ T!StopWaits(p)
    PROVE  MountInv' /\ MountRefines
<1>1. /\ T!TypeOK /\ DaemonInv /\ OffInv /\ T!EveryDaemonIsHeld /\ T!LostIsTrue
      /\ owner \in T!Procs
      /\ 0 \in 0 .. MaxDaemons
  BY DEF MountInv, T!MountAssumption, T!Procs
<1>2. CASE T!Stop(p)
  <2>1. /\ T!At(p, "idle") /\ m.on /\ step[owner] \notin {"poll", "set", "reap"}
        /\ m' = [m EXCEPT !.on = FALSE, !.cmd = 0, !.info = 0, !.lost = FALSE]
        /\ UNCHANGED proc
        /\ IF m.cmd = 0 THEN UNCHANGED <<step, held>>
           ELSE held' = [held EXCEPT ![p] = m.cmd] /\ T!Goto(p, "kill")
    BY <1>1, <1>2 DEF T!Stop, OffInv
  <2>2. stops' \in 0 .. MaxStops
    BY <1>1, <1>2 DEF T!Stop, T!TypeOK, T!MountAssumption
  <2>3. T!TypeOK'
    BY <1>1, <1>2, <2>1, <2>2 DEF T!Stop, T!Goto, T!TypeOK, T!startVars, T!imageVars, T!dogVars
  <2>4. DaemonInv' /\ OffInv' /\ T!LostIsTrue'
    BY <1>1, <2>1 DEF T!Goto, T!At, T!TypeOK, DaemonInv, OffInv, T!LostIsTrue, T!Daemons
  <2>5. T!EveryDaemonIsHeld'
    <3>1. \A q \in T!Procs \ {p} : step'[q] = step[q] /\ held'[q] = held[q]
      BY <1>1, <2>1 DEF T!Goto, T!TypeOK
    <3>2. \A q \in T!Procs : step[q] = "kill" => q # p
      BY <2>1 DEF T!At
    <3>3. m.cmd # 0 => step'[p] = "kill" /\ held'[p] = m.cmd
      BY <1>1, <2>1 DEF T!Goto, T!TypeOK
    <3> SUFFICES ASSUME NEW dm \in T!Daemons, proc[dm] = "alive"
                 PROVE  \E q \in T!Procs : step'[q] = "kill" /\ held'[q] = dm
      BY <2>1 DEF T!EveryDaemonIsHeld
    <3>4. m.cmd = dm \/ \E q \in T!Procs : step[q] = "kill" /\ held[q] = dm
      BY <1>1, <2>1 DEF T!EveryDaemonIsHeld
    <3>5. QED
      BY <3>1, <3>2, <3>3, <3>4 DEF T!Daemons
  <2>6. T!Phase \in {"on", "lost", "blind"} /\ T!Phase' = "off"
    BY <1>1, <2>1 DEF T!Goto, T!At, T!TypeOK, T!Phase
  <2>7. QED
    BY <2>3, <2>4, <2>5, <2>6 DEF MountInv, MountRefines, T!P!Next, T!P!Stop, T!P!Move
<1>3. CASE T!StopKills(p)
  <2>1. T!TypeOK'
    BY <1>1, <1>3 DEF T!StopKills, T!Kill, T!Goto, T!TypeOK, T!startVars, T!imageVars, T!dogVars
  <2>2. DaemonInv' /\ OffInv' /\ T!LostIsTrue'
    BY <1>1, <1>3 DEF T!StopKills, T!Kill, T!Goto, T!At, T!TypeOK, DaemonInv, OffInv,
        T!LostIsTrue, T!Daemons
  <2>3. T!EveryDaemonIsHeld'
    BY <1>1, <1>3 DEF T!StopKills, T!Kill, T!Goto, T!At, T!TypeOK, DaemonInv,
        T!EveryDaemonIsHeld
  <2>4. /\ UNCHANGED <<m, held>> /\ \A dm \in T!Daemons : T!Running(dm)' = T!Running(dm)
        /\ \A dm \in T!Daemons : (proc'[dm] = "reaped") <=> (proc[dm] = "reaped")
        /\ step'[owner] \in {"poll", "set"} <=> step[owner] \in {"poll", "set"}
    BY <1>1, <1>3 DEF T!StopKills, T!Kill, T!Goto, T!At, T!TypeOK, T!Running
  <2>5. T!Phase' = T!Phase
    <3>1. m.cmd # 0 => m.cmd \in T!Daemons
      BY <1>1 DEF T!TypeOK, T!Daemons
    <3>2. step[owner] \in {"poll", "set"} => held[owner] \in T!Daemons
      BY <1>1 DEF DaemonInv
    <3>3. QED
      BY <2>4, <3>1, <3>2 DEF T!Phase, T!Blind
  <2>6. QED
    BY <2>1, <2>2, <2>3, <2>5 DEF MountInv, MountRefines, T!P!vars
<1>4. CASE T!StopWaits(p)
  <2>1. T!TypeOK'
    BY <1>1, <1>4 DEF T!StopWaits, T!Awaited, T!Goto, T!TypeOK, T!startVars, T!imageVars,
        T!dogVars
  <2>2. DaemonInv' /\ OffInv' /\ T!LostIsTrue' /\ T!EveryDaemonIsHeld' /\ T!Phase' = T!Phase
    BY <1>1, <1>4 DEF T!StopWaits, T!Awaited, T!Goto, T!At, T!TypeOK, DaemonInv, OffInv,
        T!LostIsTrue, T!EveryDaemonIsHeld, T!Phase, T!Blind, T!Running
  <2>3. QED
    BY <2>1, <2>2 DEF MountInv, MountRefines, T!P!vars
<1>5. QED
  BY <1>2, <1>3, <1>4

LEMMA DaemonSteps ==
    ASSUME T!MountAssumption, MountInv, NEW dm \in T!Daemons, T!DaemonExits(dm) \/ T!Reap(dm)
    PROVE  MountInv' /\ MountRefines
<1>1. /\ T!TypeOK /\ DaemonInv /\ OffInv /\ T!EveryDaemonIsHeld /\ T!LostIsTrue
      /\ owner \in T!Procs
  BY DEF MountInv, T!MountAssumption, T!Procs
<1>2. CASE T!DaemonExits(dm)
  <2>1. /\ UNCHANGED <<m, step, held>> /\ T!Running(dm)
        /\ proc' = [proc EXCEPT ![dm] = "exited"]
    BY <1>2 DEF T!DaemonExits
  <2>2. T!TypeOK'
    BY <1>1, <1>2 DEF T!DaemonExits, T!TypeOK, T!startVars, T!imageVars, T!dogVars
  <2>3. DaemonInv' /\ OffInv' /\ T!LostIsTrue' /\ T!EveryDaemonIsHeld'
    BY <1>1, <2>1 DEF T!TypeOK, DaemonInv, OffInv, T!LostIsTrue, T!EveryDaemonIsHeld, T!Running,
        T!Daemons
  <2>4. /\ \A e \in T!Daemons \ {dm} : T!Running(e)' = T!Running(e)
        /\ ~T!Running(dm)' /\ proc'[dm] = "exited"
        /\ \A e \in T!Daemons \ {dm} : proc'[e] = proc[e]
    BY <1>1, <2>1 DEF T!TypeOK, T!Running
  <2>5. \/ T!Phase' = T!Phase
        \/ T!Phase = "on" /\ T!Phase' = "lost"
        \/ T!Phase = "launching" /\ T!Phase' = "off"
    <3>1. m.cmd # 0 => m.cmd \in T!Daemons
      BY <1>1 DEF T!TypeOK, T!Daemons
    <3>2. step[owner] \in {"poll", "set"} => held[owner] \in T!Daemons
      BY <1>1 DEF DaemonInv
    <3>3. QED
      BY <2>1, <2>4, <3>1, <3>2 DEF T!Phase, T!Blind
  <2>6. MountRefines
    BY <2>5 DEF MountRefines, T!P!Next, T!P!vars, T!P!Lose, T!P!Abandon, T!P!Move
  <2>7. QED
    BY <2>2, <2>3, <2>6 DEF MountInv
<1>3. CASE T!Reap(dm)
  <2>1. /\ UNCHANGED <<step, held>> /\ proc[dm] = "exited"
        /\ proc' = [proc EXCEPT ![dm] = "reaped"]
        /\ m' = [m EXCEPT !.lost = m.lost \/ m.cmd = dm]
    BY <1>3 DEF T!Reap
  <2>2. /\ m'.on = m.on /\ m'.cmd = m.cmd /\ m'.info = m.info /\ m'.exited = m.exited
        /\ m'.lost <=> m.lost \/ m.cmd = dm
    BY <1>1, <2>1 DEF T!TypeOK
  <2>3. T!TypeOK'
    <3>1. (m.lost \/ m.cmd = dm) \in BOOLEAN
      OBVIOUS
    <3>2. m' \in [on : BOOLEAN, cmd : 0 .. MaxDaemons, info : 0 .. MaxDaemons,
                  lost : BOOLEAN, exited : 0 .. MaxDaemons]
      BY <1>1, <2>1, <3>1 DEF T!TypeOK
    <3>3. QED
      BY <1>1, <1>3, <2>1, <3>2 DEF T!Reap, T!TypeOK, T!startVars, T!imageVars, T!dogVars
  <2>4. DaemonInv' /\ OffInv' /\ T!LostIsTrue' /\ T!EveryDaemonIsHeld'
    BY <1>1, <2>1, <2>2 DEF T!TypeOK, DaemonInv, OffInv, T!LostIsTrue, T!EveryDaemonIsHeld,
        T!Daemons
  <2>5. \A e \in T!Daemons : T!Running(e)' = T!Running(e)
    BY <1>1, <2>1 DEF T!TypeOK, T!Running
  <2>6. T!Phase' = T!Phase
    <3>1. m.cmd # 0 => m.cmd \in T!Daemons
      BY <1>1 DEF T!TypeOK, T!Daemons
    <3>2. step[owner] \in {"poll", "set"} => held[owner] \in T!Daemons
      BY <1>1 DEF DaemonInv
    <3>3. CASE m.cmd = dm
      BY <1>1, <2>1, <2>2, <2>5, <3>3 DEF T!Phase, T!Blind, T!TypeOK, T!Running, OffInv
    <3>4. CASE m.cmd # dm
      <4>1. m.cmd # 0 => proc'[m.cmd] = proc[m.cmd]
        BY <1>1, <2>1, <3>1, <3>4 DEF T!TypeOK
      <4>2. m'.lost = m.lost
        BY <1>1, <2>1, <3>4 DEF T!TypeOK
      <4>3. QED
        BY <2>1, <2>2, <2>5, <3>1, <3>2, <4>1, <4>2 DEF T!Phase, T!Blind
    <3>5. QED
      BY <3>3, <3>4
  <2>7. QED
    BY <2>3, <2>4, <2>6 DEF MountInv, MountRefines, T!P!vars
<1>4. QED
  BY <1>2, <1>3

LEMMA MountStep == T!MountAssumption /\ MountInv /\ [T!Next]_(T!vars)
    => MountInv' /\ MountRefines
<1> SUFFICES ASSUME T!MountAssumption, MountInv,
    [T!Next]_(T!vars) PROVE MountInv' /\ MountRefines
  OBVIOUS
<1>1. CASE UNCHANGED T!vars
  BY <1>1 DEF MountInv, T!TypeOK, DaemonInv, OffInv, T!EveryDaemonIsHeld, T!LostIsTrue,
      MountRefines, T!P!vars, T!Phase, T!Blind, T!Running, T!vars, T!startVars, T!imageVars, T!dogVars
<1>2. QED
  BY <1>1, QuietSteps, LaunchSteps, EndingSteps, MountStopSteps, DaemonSteps DEF T!Next

-----------------------------------------------------------------------------
(* The in-process driver: what a manager and an endpoint are.              *)

LEMMA NativeConstants ==
    ASSUME N!NativeAssumption
    PROVE  /\ 0 \in 0 .. MaxManagers /\ 0 \in 0 .. MaxHandles /\ 0 \in 0 .. MaxNativeStops
           /\ N!Managers \subseteq 0 .. MaxManagers
           /\ N!NoEp \in N!Tunnels
           /\ N!NoHandle \in [id : 0 .. MaxHandles, ep : N!Tunnels]
<1>1. 0 \in 0 .. MaxManagers /\ 0 \in 0 .. MaxHandles /\ 0 \in 0 .. MaxNativeStops
  BY DEF N!NativeAssumption
<1>2. N!NoEp \in N!Tunnels
  BY <1>1 DEF N!NoEp, N!Tunnels, N!Transports
<1>3. QED
  BY <1>1, <1>2 DEF N!Managers, N!NoHandle

\* What findTunnel returns is an endpoint.
LEMMA FoundType ==
    ASSUME N!NativeAssumption, N!TypeOK, NEW k \in 0 .. MaxManagers, NEW ep \in N!Found(k),
           k \in N!Managers
    PROVE  ep \in N!Tunnels
<1>1. nTunnel[k] \in N!Transports \union {"none"}
  BY DEF N!TypeOK
<1>2. PICK t \in {nTunnel[k]} \ {"none"} : ep = [mgr |-> k, via |-> t]
  BY DEF N!Found
<1>3. QED
  BY <1>1, <1>2 DEF N!Tunnels

-----------------------------------------------------------------------------
(* The in-process driver: its loops and its handle.                        *)

\* Whoever polls or re-resolves has a manager.
AskedInv ==
    /\ nStep[owner] = "await" => nHeld[owner] \in N!Managers
    /\ nDog = "find" => dogMgr \in N!Managers

\* The owner builds a manager only when the driver has none.
LoopInv ==
    /\ N!LoopsAreHeld
    /\ nStep[owner] = "idle" /\ d.manager # 0 => d.on
    /\ nStep[owner] \in {"mode", "waiting"} => d.manager = 0

\* The cached handle, and the one in use, were built and have not failed.
HandleInv ==
    /\ handle.id =< handles /\ (handle.id # 0 => handle.id \notin failed)
    /\ \A h \in failed : h =< handles
    /\ inj = "use" => using # 0 /\ using =< handles
    /\ N!HandlesAreFresh

NativeInv == N!TypeOK /\ AskedInv /\ LoopInv /\ HandleInv

LEMMA NativeInit == N!NativeAssumption /\ N!Init => NativeInv
<1> SUFFICES ASSUME N!NativeAssumption, N!Init PROVE NativeInv
  OBVIOUS
<1>1. N!TypeOK
  <2>1. /\ d \in [manager : 0 .. MaxManagers, on : BOOLEAN, info : N!Tunnels]
        /\ handle \in [id : 0 .. MaxHandles, ep : N!Tunnels]
    BY NativeConstants DEF N!Init
  <2>2. /\ loop \in [N!Managers -> {"none", "running", "cancelled", "done"}]
        /\ nTunnel \in [N!Managers -> N!Transports \union {"none"}]
        /\ nStep \in [N!Procs -> {"idle", "start", "mode", "await", "set", "teardown",
           "waiting"}]
        /\ nHeld \in [N!Procs -> 0 .. MaxManagers]
    BY NativeConstants DEF N!Init
  <2>3. seen \in N!Tunnels /\ nAttempt \in 0 .. 2
    BY NativeConstants DEF N!Init
  <2>4. nCtxDone \in BOOLEAN /\ nManual \in BOOLEAN
    BY DEF N!Init
  <2>5. /\ nDog \in {"idle", "find", "set"} /\ dogMgr \in 0 .. MaxManagers
        /\ dogEp \in N!Tunnels /\ inj \in {"idle", "lookup", "build", "use"}
        /\ injEp \in N!Tunnels
    BY NativeConstants DEF N!Init
  <2>6. /\ using \in 0 .. MaxHandles /\ handles \in 0 .. MaxHandles
        /\ nStops \in 0 .. MaxNativeStops /\ failed \subseteq 1 .. MaxHandles
    BY NativeConstants DEF N!Init
  <2>7. QED
    BY <2>1, <2>2, <2>3, <2>4, <2>5, <2>6 DEF N!TypeOK
<1>2. AskedInv /\ LoopInv /\ HandleInv
  BY DEF N!Init, N!Procs, AskedInv, LoopInv, N!LoopsAreHeld, HandleInv, N!HandlesAreFresh,
      N!NoHandle
<1>3. QED
  BY <1>1, <1>2 DEF NativeInv

LEMMA NativeOwnerSteps ==
    ASSUME N!NativeAssumption, NativeInv,
           N!StartTunnel \/ N!StartMode \/ N!PollFinds \/ N!Publish \/ N!GiveUp \/ N!CancelStart
    PROVE  NativeInv'
<1>1. /\ N!TypeOK /\ AskedInv /\ LoopInv /\ HandleInv /\ owner \in N!Procs
      /\ 0 \in 0 .. MaxManagers /\ N!Managers \subseteq 0 .. MaxManagers /\ N!NoEp \in N!Tunnels
  BY NativeConstants DEF NativeInv, N!Procs
<1>2. UNCHANGED <<handle, nTunnel, nManual, N!dogVars, N!injVars, nStops, failed>>
  BY DEF N!StartTunnel, N!StartMode, N!PollFinds, N!Publish, N!GiveUp, N!CancelStart
<1>3. HandleInv'
  BY <1>1, <1>2 DEF HandleInv, N!HandlesAreFresh, N!injVars
<1>4. ASSUME /\ d' \in [manager : 0 .. MaxManagers, on : BOOLEAN, info : N!Tunnels]
             /\ loop' \in [N!Managers -> {"none", "running", "cancelled", "done"}]
             /\ nStep' \in [N!Procs -> {"idle", "start", "mode", "await", "set", "teardown",
                                     "waiting"}]
             /\ nHeld' \in [N!Procs -> 0 .. MaxManagers]
             /\ seen' \in N!Tunnels /\ nAttempt' \in 0 .. 2 /\ nCtxDone' \in BOOLEAN
      PROVE  N!TypeOK'
  BY <1>1, <1>2, <1>4 DEF N!TypeOK, N!dogVars, N!injVars
<1>5. CASE N!StartTunnel
  <2>1. /\ UNCHANGED <<loop, nHeld, seen>> /\ d'.manager = d.manager
        /\ d' \in [manager : 0 .. MaxManagers, on : BOOLEAN, info : N!Tunnels]
    BY <1>1, <1>5 DEF N!StartTunnel, N!SetTunnel, N!TypeOK
  <2>2. N!TypeOK'
    <3>1. /\ loop' \in [N!Managers -> {"none", "running", "cancelled", "done"}]
          /\ nHeld' \in [N!Procs -> 0 .. MaxManagers] /\ seen' \in N!Tunnels
      BY <1>1, <2>1 DEF N!TypeOK
    <3>2. nStep' \in [N!Procs -> {"idle", "start", "mode", "await", "set", "teardown",
        "waiting"}]
      BY <1>1, <1>5 DEF N!StartTunnel, N!Goto, N!TypeOK
    <3>3. nCtxDone' \in BOOLEAN
      BY <1>5 DEF N!StartTunnel
    <3>4. nAttempt' \in 0 .. 2
      BY <1>1, <1>5 DEF N!StartTunnel, N!TypeOK
    <3>5. QED
      BY <1>4, <2>1, <3>1, <3>2, <3>3, <3>4
  <2>3. AskedInv' /\ LoopInv'
    BY <1>1, <1>2, <1>5, <2>1 DEF N!StartTunnel, N!SetTunnel, N!Goto, N!At, N!TypeOK, AskedInv,
        LoopInv, N!LoopsAreHeld, N!dogVars
  <2>4. QED
    BY <1>3, <2>2, <2>3 DEF NativeInv
<1>6. CASE N!StartMode
  <2>1. ASSUME NEW k \in N!Managers, loop[k] = "none", d' = [d EXCEPT !.manager = k],
               loop' = [loop EXCEPT ![k] = "running"], nHeld' = [nHeld EXCEPT ![owner] = k],
               N!Goto(owner, "await"), UNCHANGED nAttempt
        PROVE  NativeInv'
    <3>1. N!At(owner, "mode") /\ d.manager = 0 /\ UNCHANGED <<seen, nCtxDone>>
      BY <1>1, <1>6 DEF N!StartMode, N!At, LoopInv
    <3>2. k \in 0 .. MaxManagers /\ k # 0
      BY <1>1 DEF N!Managers
    <3>3. N!TypeOK'
      BY <1>1, <1>4, <2>1, <3>1, <3>2 DEF N!TypeOK, N!Goto
    <3>4. \A j \in N!Managers : loop[j] # "running"
      BY <1>1, <3>1 DEF LoopInv, N!LoopsAreHeld, N!Managers
    <3>5. AskedInv' /\ LoopInv'
      BY <1>1, <1>2, <2>1, <3>1, <3>2, <3>4 DEF N!TypeOK, N!Goto, AskedInv, LoopInv,
          N!LoopsAreHeld, N!dogVars
    <3>6. QED
      BY <1>3, <3>3, <3>5 DEF NativeInv
  <2>2. CASE /\ IF nAttempt = 1 /\ ~nCtxDone THEN nAttempt' = 2 /\ UNCHANGED nStep
                ELSE nAttempt' = 0 /\ N!Goto(owner, "idle")
             /\ UNCHANGED <<d, loop, nHeld>>
    <3>1. UNCHANGED <<seen, nCtxDone>> /\ N!At(owner, "mode")
      BY <1>6 DEF N!StartMode
    <3>2. N!TypeOK'
      BY <1>1, <1>4, <2>2, <3>1 DEF N!TypeOK, N!Goto
    <3>3. AskedInv' /\ LoopInv'
      BY <1>1, <1>2, <2>2, <3>1 DEF N!TypeOK, N!Goto, N!At, AskedInv, LoopInv, N!LoopsAreHeld,
          N!dogVars
    <3>4. QED
      BY <1>3, <3>2, <3>3 DEF NativeInv
  <2>3. QED
    BY <1>6, <2>1, <2>2 DEF N!StartMode
<1>7. CASE N!PollFinds
  <2>1. seen' \in N!Tunnels
    BY <1>1, <1>7, FoundType DEF N!PollFinds, N!At, AskedInv
  <2>2. N!TypeOK'
    BY <1>1, <1>4, <1>7, <2>1 DEF N!PollFinds, N!Goto, N!TypeOK
  <2>3. AskedInv' /\ LoopInv'
    BY <1>1, <1>2, <1>7 DEF N!PollFinds, N!Goto, N!At, N!TypeOK, AskedInv, LoopInv,
        N!LoopsAreHeld, N!dogVars
  <2>4. QED
    BY <1>3, <2>2, <2>3 DEF NativeInv
<1>8. CASE N!Publish
  <2>1. N!TypeOK'
    <3>1. d' \in [manager : 0 .. MaxManagers, on : BOOLEAN, info : N!Tunnels]
      BY <1>1, <1>8 DEF N!Publish, N!SetTunnel, N!TypeOK
    <3>2. /\ loop' \in [N!Managers -> {"none", "running", "cancelled", "done"}]
          /\ seen' \in N!Tunnels /\ nAttempt' \in 0 .. 2 /\ nCtxDone' \in BOOLEAN
      BY <1>1, <1>8 DEF N!Publish, N!TypeOK
    <3>3. /\ nStep' \in [N!Procs -> {"idle", "start", "mode", "await", "set", "teardown",
                                  "waiting"}]
          /\ nHeld' \in [N!Procs -> 0 .. MaxManagers]
      BY <1>1, <1>8 DEF N!Publish, N!Goto, N!TypeOK
    <3>4. QED
      BY <1>4, <3>1, <3>2, <3>3
  <2>2. AskedInv' /\ LoopInv'
    BY <1>1, <1>2, <1>8 DEF N!Publish, N!SetTunnel, N!Goto, N!At, N!TypeOK, AskedInv, LoopInv,
        N!LoopsAreHeld, N!dogVars
  <2>3. QED
    BY <1>3, <2>1, <2>2 DEF NativeInv
<1>9. CASE N!GiveUp \/ N!CancelStart
  <2>1. N!TypeOK'
    BY <1>1, <1>4, <1>9 DEF N!GiveUp, N!CancelStart, N!Goto, N!TypeOK, N!ownerVars
  <2>2. AskedInv' /\ LoopInv'
    BY <1>1, <1>2, <1>9 DEF N!GiveUp, N!CancelStart, N!Goto, N!At, N!TypeOK, AskedInv, LoopInv,
        N!LoopsAreHeld, N!dogVars
  <2>3. QED
    BY <1>3, <2>1, <2>2 DEF NativeInv
<1>10. QED
  BY <1>5, <1>6, <1>7, <1>8, <1>9

LEMMA NativeStopSteps ==
    ASSUME N!NativeAssumption, NativeInv, NEW p \in N!Procs,
           N!StopTunnel(p) \/ N!Teardown(p) \/ N!TornDown(p)
    PROVE  NativeInv'
<1>1. /\ N!TypeOK /\ AskedInv /\ LoopInv /\ HandleInv /\ owner \in N!Procs
      /\ 0 \in 0 .. MaxManagers /\ 0 \in 0 .. MaxHandles /\ N!NoEp \in N!Tunnels
      /\ N!NoHandle \in [id : 0 .. MaxHandles, ep : N!Tunnels]
  BY NativeConstants DEF NativeInv, N!Procs
<1>2. UNCHANGED <<nManual, N!dogVars, N!injVars, failed, seen, nCtxDone>>
  BY DEF N!StopTunnel, N!Teardown, N!TornDown, N!ownerVars
<1>3. CASE N!StopTunnel(p)
  <2>1. nStops' \in 0 .. MaxNativeStops
    BY <1>1, <1>3 DEF N!StopTunnel, N!TypeOK, N!NativeAssumption
  <2>2. N!TypeOK'
    BY <1>1, <1>2, <1>3, <2>1 DEF N!StopTunnel, N!Goto, N!TypeOK, N!ownerVars, N!dogVars,
        N!injVars
  <2>3. AskedInv' /\ LoopInv' /\ HandleInv'
    BY <1>1, <1>2, <1>3 DEF N!StopTunnel, N!Goto, N!At, N!TypeOK, AskedInv, LoopInv,
        N!LoopsAreHeld, HandleInv, N!HandlesAreFresh, N!dogVars, N!injVars
  <2>4. QED
    BY <2>2, <2>3 DEF NativeInv
<1>4. CASE N!Teardown(p)
  <2>1. /\ d' = [manager |-> 0, on |-> FALSE, info |-> N!NoEp] /\ handle' = N!NoHandle
        /\ nHeld' = [nHeld EXCEPT ![p] = d.manager] /\ N!Goto(p, "waiting") /\ N!At(p,
           "teardown")
        /\ UNCHANGED <<nTunnel, nAttempt, nStops>>
        /\ loop' = [k \in N!Managers |-> IF k = d.manager
           /\ loop[k] = "running" THEN "cancelled"
                                       ELSE loop[k]]
    BY <1>4 DEF N!Teardown, N!ownerVars
  <2>2. loop' \in [N!Managers -> {"none", "running", "cancelled", "done"}]
    BY <1>1, <2>1 DEF N!TypeOK
  <2>3. N!TypeOK'
    BY <1>1, <1>2, <2>1, <2>2 DEF N!TypeOK, N!Goto, N!dogVars, N!injVars
  <2>4. \A k \in N!Managers : loop'[k] # "running"
    BY <1>1, <2>1 DEF LoopInv, N!LoopsAreHeld
  <2>5. AskedInv' /\ LoopInv' /\ HandleInv'
    BY <1>1, <1>2, <2>1, <2>4 DEF N!Goto, N!At, N!TypeOK, AskedInv, LoopInv, N!LoopsAreHeld,
        HandleInv, N!HandlesAreFresh, N!NoHandle, N!dogVars, N!injVars
  <2>6. QED
    BY <2>3, <2>5 DEF NativeInv
<1>5. CASE N!TornDown(p)
  <2>1. /\ UNCHANGED <<d, handle, loop, nStops>> /\ N!At(p, "waiting")
        /\ nTunnel' = [k \in N!Managers |-> IF k = nHeld[p] THEN "none" ELSE nTunnel[k]]
        /\ nHeld' = [nHeld EXCEPT ![p] = 0]
        /\ nAttempt' \in 0 .. 2
        /\ \/ N!Goto(p, "idle")
           \/ p = owner /\ N!Goto(p, "mode")
    BY <1>1, <1>5 DEF N!TornDown, N!TypeOK
  <2>2. nTunnel' \in [N!Managers -> N!Transports \union {"none"}]
    BY <1>1, <2>1 DEF N!TypeOK
  <2>3. N!TypeOK'
    BY <1>1, <1>2, <2>1, <2>2 DEF N!TypeOK, N!Goto, N!dogVars, N!injVars
  <2>4. AskedInv' /\ LoopInv' /\ HandleInv'
    BY <1>1, <1>2, <2>1 DEF N!Goto, N!At, N!TypeOK, AskedInv, LoopInv, N!LoopsAreHeld,
        HandleInv, N!HandlesAreFresh, N!dogVars, N!injVars
  <2>5. QED
    BY <2>3, <2>4 DEF NativeInv
<1>6. QED
  BY <1>3, <1>4, <1>5

LEMMA LoopSteps ==
    ASSUME N!NativeAssumption, NativeInv, NEW k \in N!Managers,
           N!UpdateTunnels(k) \/ N!LoopReturns(k)
    PROVE  NativeInv'
<1>1. /\ UNCHANGED <<d, handle, nStep, nHeld, N!ownerVars, nManual, N!dogVars, N!injVars,
                     nStops, failed>>
      /\ N!TypeOK /\ AskedInv /\ LoopInv /\ HandleInv
  BY DEF N!UpdateTunnels, N!LoopReturns, NativeInv
<1>2. /\ nTunnel' \in [N!Managers -> N!Transports \union {"none"}]
      /\ loop' \in [N!Managers -> {"none", "running", "cancelled", "done"}]
      /\ \A j \in N!Managers : loop'[j] = "running" => loop[j] = "running"
  BY <1>1 DEF N!UpdateTunnels, N!LoopReturns, N!TypeOK
<1>3. N!TypeOK'
  BY <1>1, <1>2 DEF N!TypeOK, N!ownerVars, N!dogVars, N!injVars
<1>4. AskedInv' /\ LoopInv' /\ HandleInv'
  BY <1>1, <1>2 DEF AskedInv, LoopInv, N!LoopsAreHeld, HandleInv, N!HandlesAreFresh, N!dogVars,
      N!injVars
<1>5. QED
  BY <1>3, <1>4 DEF NativeInv

LEMMA WatchdogSteps ==
    ASSUME N!NativeAssumption, NativeInv, N!Reresolve \/ N!Refind \/ N!Reset
    PROVE  NativeInv'
<1>1. /\ UNCHANGED <<handle, loop, nTunnel, nStep, nHeld, N!ownerVars, nManual, N!injVars,
                     nStops, failed>>
      /\ N!TypeOK /\ AskedInv /\ LoopInv /\ HandleInv
      /\ 0 \in 0 .. MaxManagers /\ N!NoEp \in N!Tunnels
  BY NativeConstants DEF N!Reresolve, N!Refind, N!Reset, NativeInv
<1>2. /\ d' \in [manager : 0 .. MaxManagers, on : BOOLEAN, info : N!Tunnels]
      /\ d'.manager = d.manager /\ (d.on => d'.on)
  BY <1>1 DEF N!Reresolve, N!Refind, N!Reset, N!SetTunnel, N!TypeOK
<1>3. dogEp' \in N!Tunnels
  BY <1>1, FoundType DEF N!Reresolve, N!Refind, N!Reset, AskedInv, N!TypeOK
<1>4. nDog' \in {"idle", "find", "set"} /\ dogMgr' \in 0 .. MaxManagers
  BY <1>1 DEF N!Reresolve, N!Refind, N!Reset, N!TypeOK
<1>5. nDog' = "find" => dogMgr' \in N!Managers
  BY <1>1 DEF N!Reresolve, N!Refind, N!Reset, N!TypeOK, N!Managers
<1>6. N!TypeOK'
  BY <1>1, <1>2, <1>3, <1>4 DEF N!TypeOK, N!ownerVars, N!injVars
<1>7. AskedInv' /\ LoopInv' /\ HandleInv'
  BY <1>1, <1>2, <1>5 DEF AskedInv, LoopInv, N!LoopsAreHeld, HandleInv, N!HandlesAreFresh,
      N!injVars
<1>8. QED
  BY <1>6, <1>7 DEF NativeInv

LEMMA InjectionSteps ==
    ASSUME N!NativeAssumption, NativeInv, N!Inject \/ N!Lookup \/ N!BuildDevice \/ N!Command
    PROVE  NativeInv'
<1>1. /\ UNCHANGED <<d, loop, nTunnel, nStep, nHeld, N!ownerVars, nManual, N!dogVars, nStops>>
      /\ N!TypeOK /\ AskedInv /\ LoopInv /\ HandleInv
      /\ N!NoEp \in N!Tunnels /\ N!NoHandle \in [id : 0 .. MaxHandles, ep : N!Tunnels]
      /\ 0 \in 0 .. MaxHandles
  BY NativeConstants DEF N!Inject, N!Lookup, N!BuildDevice, N!Command, NativeInv
<1>2. ASSUME /\ handle' \in [id : 0 .. MaxHandles, ep : N!Tunnels]
             /\ inj' \in {"idle", "lookup", "build", "use"} /\ injEp' \in N!Tunnels
             /\ using' \in 0 .. MaxHandles /\ handles' \in 0 .. MaxHandles
             /\ failed' \subseteq 1 .. MaxHandles
             /\ HandleInv'
      PROVE  NativeInv'
  <2>1. N!TypeOK'
    BY <1>1, <1>2 DEF N!TypeOK, N!ownerVars, N!dogVars
  <2>2. AskedInv' /\ LoopInv'
    BY <1>1 DEF AskedInv, LoopInv, N!LoopsAreHeld, N!dogVars
  <2>3. QED
    BY <1>2, <2>1, <2>2 DEF NativeInv
<1>3. CASE N!Inject
  <2>1. HandleInv'
    BY <1>1, <1>3 DEF N!Inject, HandleInv, N!HandlesAreFresh
  <2>2. QED
    BY <1>1, <1>2, <1>3, <2>1 DEF N!Inject, N!TypeOK
<1>4. CASE N!Lookup
  <2>1. HandleInv'
    BY <1>1, <1>4 DEF N!Lookup, HandleInv, N!HandlesAreFresh
  <2>2. QED
    BY <1>1, <1>2, <1>4, <2>1 DEF N!Lookup, N!TypeOK
<1>5. CASE N!BuildDevice
  <2>1. CASE /\ handles < MaxHandles
             /\ handles' = handles + 1 /\ using' = handles + 1
             /\ handle' = [id |-> handles + 1, ep |-> injEp] /\ inj' = "use"
    <3>1. handles + 1 \in 0 .. MaxHandles /\ handles \in Nat /\ failed' = failed
        /\ injEp' = N!NoEp
      BY <1>1, <1>5, <2>1 DEF N!BuildDevice, N!TypeOK, N!NativeAssumption
    <3>2. \A h \in failed : h \in Int /\ h =< handles
      BY <1>1 DEF N!TypeOK, HandleInv
    <3>3. handles + 1 \notin failed /\ \A h \in failed : h =< handles + 1
      BY <3>1, <3>2
    <3>4. HandleInv'
      BY <2>1, <3>1, <3>3 DEF HandleInv, N!HandlesAreFresh
    <3>5. QED
      BY <1>1, <1>2, <2>1, <3>1, <3>4 DEF N!TypeOK
  <2>2. CASE inj' = "idle" /\ UNCHANGED <<handles, using, handle>>
    <3>1. HandleInv' /\ failed' = failed /\ injEp' = N!NoEp
      BY <1>1, <1>5, <2>2 DEF N!BuildDevice, HandleInv, N!HandlesAreFresh
    <3>2. QED
      BY <1>1, <1>2, <2>2, <3>1 DEF N!TypeOK
  <2>3. QED
    BY <1>5, <2>1, <2>2 DEF N!BuildDevice
<1>6. CASE N!Command
  <2>1. /\ inj = "use" /\ inj' = "idle" /\ using' = 0 /\ UNCHANGED <<injEp, handles>>
        /\ \/ UNCHANGED <<handle, failed>>
           \/ handle' = N!NoHandle /\ failed' = failed \union {using}
    BY <1>6 DEF N!Command, N!InvalidateDevice
  <2>2. CASE UNCHANGED <<handle, failed>>
    <3>1. HandleInv'
      BY <1>1, <2>1, <2>2 DEF HandleInv, N!HandlesAreFresh
    <3>2. QED
      BY <1>1, <1>2, <2>1, <2>2, <3>1 DEF N!TypeOK
  <2>3. CASE handle' = N!NoHandle /\ failed' = failed \union {using}
    <3>1. using \in 1 .. MaxHandles /\ using =< handles /\ 0 =< handles
      BY <1>1, <2>1 DEF N!TypeOK, HandleInv
    <3>2. HandleInv'
      BY <1>1, <2>1, <2>3, <3>1 DEF HandleInv, N!HandlesAreFresh, N!NoHandle
    <3>3. QED
      BY <1>1, <1>2, <2>1, <2>3, <3>1, <3>2 DEF N!TypeOK
  <2>4. QED
    BY <2>1, <2>2, <2>3
<1>7. QED
  BY <1>3, <1>4, <1>5, <1>6

LEMMA NativeStep == N!NativeAssumption /\ NativeInv /\ [N!Next]_(N!vars) => NativeInv'
<1> SUFFICES ASSUME N!NativeAssumption, NativeInv, [N!Next]_(N!vars) PROVE NativeInv'
  OBVIOUS
<1>1. CASE UNCHANGED N!vars
  BY <1>1 DEF NativeInv, N!TypeOK, AskedInv, LoopInv, N!LoopsAreHeld, HandleInv,
      N!HandlesAreFresh, N!vars, N!ownerVars, N!dogVars, N!injVars
<1>2. QED
  BY <1>1, NativeOwnerSteps, NativeStopSteps, LoopSteps, WatchdogSteps, InjectionSteps DEF
      N!Next

-----------------------------------------------------------------------------
(* The drivers together.                                                   *)

DriversInv == MountInv /\ NativeInv

LEMMA Assumptions == T!MountAssumption /\ N!NativeAssumption
BY DriversAssumption DEF DriversAssumption

LEMMA DriversStart == DriversInit => DriversInv /\ T!P!Init
BY Assumptions, MountInit, NativeInit DEF DriversInit, DriversInv

\* A part that stands still keeps what is true of it.
LEMMA DriversStep == DriversInv /\ [DriversNext]_allVars => DriversInv' /\ MountRefines
<1> SUFFICES ASSUME DriversInv, [DriversNext]_allVars PROVE DriversInv' /\ MountRefines
  OBVIOUS
<1>1. [T!Next]_(T!vars) /\ [N!Next]_(N!vars)
  BY DEF DriversNext, allVars, tVars, nVars, T!vars, T!startVars, T!imageVars, T!dogVars,
      N!vars, N!ownerVars, N!dogVars, N!injVars
<1>2. QED
  BY <1>1, Assumptions, MountStep, NativeStep DEF DriversInv

LEMMA DriversInvariant == DriversSpec => []DriversInv
BY DriversStart, DriversStep, PTL DEF DriversSpec

\* tunnel_mount.go: no daemon that runs is forgotten by the mount, its starts and
\* its stops, and the mount believes its daemon dead only when it is.
THEOREM MountIsAlwaysTrue == DriversSpec => []MountIsTrue
<1>1. DriversInv => MountIsTrue
  BY DEF DriversInv, MountInv, MountIsTrue, T!MountIsTrue
<1>2. QED
  BY <1>1, DriversInvariant, PTL

\* tunnel_mount.go: every step of starts, stops, daemons and the watchdog is a
\* step of the phases callers assume, or none: a lost tunnel only a stop clears.
THEOREM MountImplementsPhases == DriversSpec => MountIsPhased
<1>1. DriversInv /\ [DriversNext]_allVars => [T!P!Next]_(T!P!vars)
  BY DriversStep DEF MountRefines
<1>2. QED
  BY <1>1, DriversStart, DriversInvariant, PTL DEF DriversSpec, MountIsPhased, T!MountIsPhased,
      T!P!Spec

\* goiosnative/tunnel.go and location.go: an update loop that runs belongs to the
\* manager a later stop will take, and a handle a command failed on is never used
\* again.
THEOREM NativeIsAlwaysTrue == DriversSpec => []NativeIsTrue
<1>1. DriversInv => NativeIsTrue
  BY DEF DriversInv, NativeInv, LoopInv, HandleInv, NativeIsTrue, N!NativeIsTrue
<1>2. QED
  BY <1>1, DriversInvariant, PTL

\* The worker's driver is one of the parts: what is proved of it holds here.
LEMMA DriversRunPmd3 == DriversSpec => Spec
<1>1. [DriversNext]_allVars => [Next]_vars
  BY DEF DriversNext, allVars
<1>2. QED
  BY <1>1, PTL DEF DriversSpec, DriversInit, Spec

\* Whichever part moves, its fields keep to their types.
THEOREM DriversTypes == DriversSpec => []DriversTypeOK
<1>1. DriversSpec => [](part \in {"pmd3", "mount", "native"})
  <2>1. /\ part \in {"pmd3", "mount", "native"} /\ [DriversNext]_allVars
        => (part \in {"pmd3", "mount", "native"})'
    BY DEF DriversNext, allVars
  <2>2. QED
    BY <2>1, PTL DEF DriversSpec, DriversInit
<1>2. part \in {"pmd3", "mount", "native"} /\ DriversInv /\ TypeOK => DriversTypeOK
  BY DEF DriversInv, MountInv, NativeInv, DriversTypeOK
<1>3. QED
  BY <1>1, <1>2, DriversInvariant, DriversRunPmd3, Pmd3Types, PTL
=============================================================================
