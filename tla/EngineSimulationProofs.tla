----------------------- MODULE EngineSimulationProofs -----------------------
(***************************************************************************)
(* TLAPS proofs about EngineSimulation, for any clients, any plan length   *)
(* and any number of calls.                                                *)
(***************************************************************************)
EXTENDS EngineSimulation, FiniteSetTheorems, TLAPS

-----------------------------------------------------------------------------
(* The inductive invariant.                                                *)

\* Clients between stopActiveSimulation and the start of the goroutine.
Starting == {"route", "patrol"}
Playing == {c \in Clients : pc[c] \in Starting}

\* Only players start simulations, each costs a call, so the numbering of
\* the simulations never runs out.
Budget ==
    /\ Playing \subseteq Players
    /\ made + Cardinality(Playing) <= calls

\* A route about to inject a point has one.
IndexInv == \A i \in Sims : at[i] \in {"inject", "progress"} => index[i] < Length

TypeInv == TypeOK /\ Budget /\ IndexInv

\* Simulations are born in order, and the current one has been born.
BornInv ==
    /\ \A i \in Sims : Born(i) <=> i <= made
    /\ cancelSim <= made

\* Between a call's stop and its installation, whatever another call has
\* installed raced with it.
RacedWhilePlaying == Playing # {} => cancelSim = NoSim \/ cancelSim \in raced

PauseInv == simPaused => cancelSim # NoSim

SingleInv == BornInv /\ NoRunaway /\ RacedWhilePlaying /\ PauseInv

-----------------------------------------------------------------------------
(* The budget.                                                             *)

\* Sets of players can be counted.
LEMMA PlayersFinite ==
    \A S \in SUBSET Players : IsFiniteSet(S) /\ Cardinality(S) \in Nat
BY CallsAssumption, FS_Subset, FS_CardinalityType

\* A step that moves client c alone, to a step outside Starting.
LEMMA Leaves ==
    ASSUME TypeOK, Budget, NEW c \in Clients, NEW step,
           step \notin Starting, pc' = [pc EXCEPT ![c] = step]
    PROVE  /\ Playing' \subseteq Players
           /\ Cardinality(Playing') \in Nat
           /\ Cardinality(Playing') =
                IF pc[c] \in Starting THEN Cardinality(Playing) - 1 ELSE Cardinality(Playing)
<1>1. Playing' = Playing \ {c}
  BY DEF TypeOK, Playing
<1>2. c \in Playing <=> pc[c] \in Starting
  BY DEF Playing
<1>3. IsFiniteSet(Playing) /\ Playing' \in SUBSET Players
  BY PlayersFinite, <1>1 DEF Budget
<1>4. Cardinality(Playing') \in Nat
  BY PlayersFinite, <1>3
<1>5. QED
  BY <1>1, <1>2, <1>3, <1>4, FS_RemoveElement

\* An idle client that comes to any step.
LEMMA Enters ==
    ASSUME TypeOK, Budget, NEW c \in Clients, NEW step, pc[c] = "idle",
           pc' = [pc EXCEPT ![c] = step], step \in Starting => c \in Players
    PROVE  /\ Playing' \subseteq Players
           /\ Cardinality(Playing') \in Nat
           /\ Cardinality(Playing') <= Cardinality(Playing) + 1
<1>1. Playing' = IF step \in Starting THEN Playing \union {c} ELSE Playing
  BY DEF TypeOK, Playing, Starting
<1>2. IsFiniteSet(Playing) /\ Cardinality(Playing) \in Nat
  BY PlayersFinite DEF Budget
<1>3. Playing' \in SUBSET Players
  BY <1>1 DEF Budget
<1>4. Cardinality(Playing \union {c}) \in {Cardinality(Playing), Cardinality(Playing) + 1}
  BY <1>2, FS_AddElement
<1>5. QED
  BY <1>1, <1>2, <1>3, <1>4

\* A step that leaves the clients alone.
LEMMA Stays ==
    ASSUME TypeOK, Budget, UNCHANGED <<pc, made, calls>> PROVE Budget'
BY DEF Budget, Playing

-----------------------------------------------------------------------------
(* Types.                                                                  *)

\* The initial state is well typed, with nobody playing.
LEMMA InitType == Init => TypeInv
<1> SUFFICES ASSUME Init PROVE TypeInv
  OBVIOUS
<1>1. TypeOK
  <2>1. 0 \in 0 .. MaxCalls /\ 0 \in 0 .. Length
    BY SimBoundsAssumption
  <2>2. /\ kind \in [Sims -> {"route", "loop", "patrol"}] /\ done \in [Sims -> BOOLEAN]
        /\ at \in [Sims -> {"unborn", "first", "tick", "step", "inject", "progress", "ended"}]
        /\ index \in [Sims -> 0 .. Length]
        /\ pc \in [Clients -> {"idle", "route", "unreadable", "patrol", "clear",
                               "swap", "showpause", "showresume"}]
    BY <2>1 DEF Init
  <2>3. QED
    BY <2>1, <2>2 DEF Init, TypeOK
<1>2. Playing = {}
  BY DEF Init, Playing, Starting
<1>3. Budget
  BY <1>2, FS_EmptySet DEF Budget, Init
<1>4. IndexInv
  BY DEF IndexInv, Init
<1>5. QED
  BY <1>1, <1>3, <1>4 DEF TypeInv

\* What clients do keeps the types.
LEMMA ClientsType ==
    ASSUME TypeInv, NEW c \in Clients, Begin(c) \/ Flag(c) \/ Client(c)
    PROVE  TypeInv'
<1> USE SimBoundsAssumption
<1>0. TypeOK /\ Budget /\ IndexInv
  BY DEF TypeInv
<1>1. Cardinality(Playing) \in Nat
  BY <1>0, PlayersFinite DEF Budget
<1>2. CASE Begin(c)
  <2>1. PICK call \in AllCalls \ {"pause", "resume"} : Enter(c, call, NextStep(call))
    BY <1>2 DEF Begin
  <2>2. /\ NextStep(call) \in {"idle", "route", "unreadable", "patrol", "clear", "swap"}
        /\ NextStep(call) \in Starting => call \in Starters
    BY <2>1 DEF NextStep, AllCalls, Starters, Starting
  <2>3. /\ Playing' \subseteq Players /\ Cardinality(Playing') \in Nat
        /\ Cardinality(Playing') <= Cardinality(Playing) + 1
    BY <1>0, <2>1, <2>2, Enters DEF Enter, Goto
  <2>4. Budget'
    BY <1>0, <1>1, <1>2, <2>1, <2>3 DEF Begin, Enter, Budget, TypeOK
  <2>5. TypeOK'
    <3>1. pc' \in [Clients -> {"idle", "route", "unreadable", "patrol", "clear",
                               "swap", "showpause", "showresume"}]
      BY <1>0, <2>1, <2>2 DEF Enter, Goto, TypeOK
    <3>2. calls' \in 0 .. MaxCalls
      BY <1>0, <2>1 DEF Enter, TypeOK
    <3>3. done' \in [Sims -> BOOLEAN] /\ cancelSim' = NoSim /\ simPaused' = FALSE
      BY <1>0, <1>2 DEF Begin, StopActive, TypeOK
    <3>4. QED
      BY <1>0, <1>2, <3>1, <3>2, <3>3 DEF Begin, TypeOK, shown
  <2>6. IndexInv'
    BY <1>0, <1>2 DEF Begin, IndexInv
  <2>7. QED
    BY <2>4, <2>5, <2>6 DEF TypeInv
<1>3. CASE Flag(c)
  <2>1. PICK step \in {"showpause", "showresume"} :
           pc[c] = "idle" /\ Goto(c, step) /\ calls < MaxCalls /\ calls' = calls + 1
    BY <1>3 DEF Flag, Enter
  <2>2. /\ Playing' \subseteq Players /\ Cardinality(Playing') \in Nat
        /\ Cardinality(Playing') <= Cardinality(Playing) + 1
    BY <1>0, <2>1, Enters DEF Goto, Starting
  <2>3. Budget'
    BY <1>0, <1>1, <1>3, <2>1, <2>2 DEF Flag, Budget, TypeOK, sims
  <2>4. TypeOK'
    <3>1. pc' \in [Clients -> {"idle", "route", "unreadable", "patrol", "clear",
                               "swap", "showpause", "showresume"}]
      BY <1>0, <2>1 DEF Goto, TypeOK
    <3>2. calls' \in 0 .. MaxCalls
      BY <1>0, <2>1 DEF TypeOK
    <3>3. simPaused' \in BOOLEAN /\ UNCHANGED <<cancelSim, sims, state, active, shown>>
      BY <1>3 DEF Flag
    <3>4. QED
      BY <1>0, <3>1, <3>2, <3>3 DEF TypeOK, shown, sims
  <2>5. IndexInv'
    BY <1>0, <1>3 DEF Flag, IndexInv, sims
  <2>6. QED
    BY <2>3, <2>4, <2>5 DEF TypeInv
<1>4. CASE Client(c)
  <2>1. Goto(c, "idle") /\ calls' = calls
    BY <1>4 DEF Client, Install, Reject, Clear, Show, Swap
  <2>2. /\ Playing' \subseteq Players /\ Cardinality(Playing') \in Nat
        /\ Cardinality(Playing') =
             IF pc[c] \in Starting THEN Cardinality(Playing) - 1 ELSE Cardinality(Playing)
    BY <1>0, <2>1, Leaves DEF Goto, Starting
  <2>3. made' = IF pc[c] \in Starting THEN made + 1 ELSE made
    BY <1>4 DEF Client, Install, Reject, Clear, Show, Swap, sims, Planning, Starting
  <2>4. Budget'
    BY <1>0, <1>1, <2>1, <2>2, <2>3 DEF Budget, TypeOK
  <2>5. pc[c] \in Starting => made + 1 \in Sims
    BY <1>0, <1>1, <2>2 DEF Budget, TypeOK, Sims
  <2>6. TypeOK'
    <3>1. CASE Install(c)
      BY <1>0, <2>5, <3>1 DEF Install, Race, Planning, Goto, TypeOK, Starting, Sims, shown
    <3>2. CASE Reject(c) \/ Clear(c) \/ Show(c) \/ Swap(c)
      BY <1>0, <3>2 DEF Reject, Clear, Show, Swap, Goto, TypeOK, control, sims, shown
    <3>3. QED
      BY <1>4, <3>1, <3>2 DEF Client
  <2>7. IndexInv'
    BY <1>0, <1>4 DEF Client, Install, Reject, Clear, Show, Swap, IndexInv, TypeOK, sims
  <2>8. QED
    BY <2>4, <2>6, <2>7 DEF TypeInv
<1>5. QED
  BY <1>2, <1>3, <1>4

\* What a simulation's goroutine does keeps the types.
LEMMA SimulationType ==
    ASSUME TypeInv, NEW i \in Sims, Simulation(i) PROVE TypeInv'
<1> USE SimBoundsAssumption
<1>0. TypeOK /\ Budget /\ IndexInv
  BY DEF TypeInv
<1>1. UNCHANGED <<control, made, kind, done, raced, active, pc, calls>>
  BY DEF Simulation, First, StillBorn, Quit, Tick, Finish, Aim, Inject, Progress
<1>2. Budget'
  BY <1>0, <1>1, Stays
<1>3. TypeOK' /\ IndexInv'
  <2>1. CASE First(i)
    BY <1>0, <1>1, <2>1 DEF First, Walk, TypeOK, IndexInv, control, Sims
  <2>2. CASE StillBorn(i) \/ Quit(i) \/ Tick(i)
    BY <1>0, <1>1, <2>2 DEF StillBorn, Quit, Tick, Walk, TypeOK, IndexInv, control, shown
  <2>3. CASE Finish(i)
    BY <1>0, <1>1, <2>3 DEF Finish, Walk, TypeOK, IndexInv, control
  <2>4. CASE Aim(i)
    <3>1. index' \in [Sims -> 0 .. Length] /\ index'[i] < Length
      BY <1>0, <2>4 DEF Aim, TypeOK
    <3>2. QED
      BY <1>0, <1>1, <2>4, <3>1 DEF Aim, AfterInjection, Walk, TypeOK, IndexInv, control, shown
  <2>5. CASE Inject(i)
    BY <1>0, <1>1, <2>5 DEF Inject, AfterInjection, Walk, TypeOK, IndexInv, control, shown
  <2>6. CASE Progress(i)
    <3>1. index[i] \in 0 .. Length - 1
      BY <1>0, <2>6 DEF Progress, IndexInv, TypeOK
    <3>2. QED
      BY <1>0, <1>1, <2>6, <3>1 DEF Progress, Walk, TypeOK, IndexInv, control
  <2>7. QED
    BY <2>1, <2>2, <2>3, <2>4, <2>5, <2>6 DEF Simulation
<1>4. QED
  BY <1>2, <1>3 DEF TypeInv

\* The rest of the engine only writes the state and the tunnel flag.
LEMMA EnvironmentType == ASSUME TypeInv, Environment PROVE TypeInv'
<1>0. TypeOK /\ Budget /\ IndexInv
  BY DEF TypeInv
<1>1. UNCHANGED <<control, sims, shown, pc, calls>>
  BY DEF Environment, TunnelStarting, TunnelUp, TunnelFailed, TunnelLost, ClientInjects,
      ClientClears
<1>2. active' \in BOOLEAN /\ state' \in {"idle", "starting", "ready", "running", "moving", "paused"}
  BY <1>0 DEF Environment, TunnelStarting, TunnelUp, TunnelFailed, TunnelLost,
              ClientInjects, ClientClears, TypeOK
<1>3. QED
  BY <1>0, <1>1, <1>2, Stays DEF TypeInv, TypeOK, IndexInv, control, sims, shown

\* TypeInv is inductive.
LEMMA NextType == TypeInv /\ [Next]_vars => TypeInv'
<1> SUFFICES ASSUME TypeInv, [Next]_vars PROVE TypeInv'
  OBVIOUS
<1>1. CASE UNCHANGED vars
  BY <1>1, Stays DEF TypeInv, TypeOK, IndexInv, vars, control, sims, shown
<1>2. QED
  BY <1>1, ClientsType, SimulationType, EnvironmentType DEF Next

\* Every variable keeps its type, whatever the clients do: in particular no
\* simulation runs past its plan, and there is one simulation per start.
THEOREM TypeCorrect == Spec => []TypeOK
<1>1. TypeInv => TypeOK
  BY DEF TypeInv
<1>2. QED
  BY InitType, NextType, <1>1, PTL DEF Spec

-----------------------------------------------------------------------------
(* Every simulation can be stopped, but for those that raced.              *)

\* Initially there is no simulation.
LEMMA InitSingle == Init => SingleInv
BY SimBoundsAssumption DEF Init, SingleInv, BornInv, NoRunaway, Born, RacedWhilePlaying,
   Playing, Starting, PauseInv, NoSim, Sims

\* Simulations are neither born nor cancelled by their own goroutines, or by
\* the rest of the engine.
LEMMA SingleUndisturbed ==
    ASSUME TypeInv, SingleInv, UNCHANGED <<control, made, done, raced, pc>>,
           \A i \in Sims : Born(i)' <=> Born(i)
    PROVE  SingleInv'
BY DEF SingleInv, BornInv, NoRunaway, RacedWhilePlaying, Playing, PauseInv, control

\* A simulation's own steps, its end included, leave cancelSim alone.
LEMMA SimulationSingle ==
    ASSUME TypeInv, SingleInv, NEW i \in Sims, Simulation(i) PROVE SingleInv'
<1>1. UNCHANGED <<control, made, done, raced, pc>>
  BY DEF Simulation, First, StillBorn, Quit, Tick, Finish, Aim, Inject, Progress
<1>2. \A j \in Sims : Born(j)' <=> Born(j)
  BY DEF Simulation, First, StillBorn, Quit, Tick, Finish, Aim, Inject, Progress,
         Walk, AfterInjection, Born, TypeInv, TypeOK
<1>3. QED
  BY <1>1, <1>2, SingleUndisturbed

\* A start installs its cancel function over nothing, or over a simulation that
\* raced with it.
LEMMA ClientsSingle ==
    ASSUME TypeInv, SingleInv, NEW c \in Clients,
           Begin(c) \/ Flag(c) \/ Client(c)
    PROVE  SingleInv'
<1>0. TypeOK /\ Playing \subseteq Players /\ IndexInv
  BY DEF TypeInv, Budget
<1>1. CASE Begin(c)
  <2>1. \A i \in Sims : Born(i)' <=> Born(i)
    BY <1>1 DEF Begin, Born
  <2>2. cancelSim' = NoSim /\ simPaused' = FALSE /\ made' = made
    BY <1>1 DEF Begin, StopActive
  <2>3. NoRunaway'
    BY <1>0, <1>1, <2>1 DEF Begin, StopActive, SingleInv, NoRunaway, TypeOK
  <2>4. QED
    BY <1>0, <2>1, <2>2, <2>3 DEF SingleInv, BornInv, RacedWhilePlaying, PauseInv, TypeOK, NoSim
<1>2. CASE Flag(c)
  <2>1. Playing' = Playing
    BY <1>0, <1>2 DEF Flag, Enter, Goto, Playing, Starting, TypeOK
  <2>2. QED
    BY <1>2, <2>1 DEF Flag, SingleInv, BornInv, NoRunaway, Born, RacedWhilePlaying, PauseInv, sims
<1>3. CASE Install(c)
  <2>1. c \in Playing /\ (cancelSim = NoSim \/ cancelSim \in raced)
    BY <1>3 DEF Install, Planning, Playing, Starting, SingleInv, RacedWhilePlaying
  <2>2. Playing' # {} => made + 1 \in raced'
    BY <1>0, <1>3 DEF Install, Race, Planning, Goto, Playing, Starting, TypeOK
  <2>8. raced \subseteq raced'
    BY <1>3 DEF Install, Race
  <2>3. made \in Nat /\ made' = made + 1 /\ cancelSim' = made + 1
    BY <1>0, <1>3 DEF Install, TypeOK
  <2>4. \A i \in Sims : Born(i)' <=> Born(i) \/ i = made + 1
    BY <1>0, <1>3 DEF Install, Born, TypeOK
  <2>5. BornInv'
    BY <2>3, <2>4 DEF BornInv, SingleInv, Sims
  <2>6. NoRunaway'
    BY <1>3, <2>1, <2>3, <2>4, <2>8 DEF NoRunaway, SingleInv, Install, NoSim, Sims
  <2>7. QED
    BY <1>3, <2>2, <2>3, <2>5, <2>6 DEF SingleInv, RacedWhilePlaying, PauseInv, NoSim
<1>4. CASE Reject(c) \/ Clear(c) \/ Show(c) \/ Swap(c)
  <2>1. UNCHANGED <<control, sims>> /\ Goto(c, "idle")
    BY <1>4 DEF Reject, Clear, Show, Swap
  <2>2. Playing' \subseteq Playing
    BY <1>0, <2>1 DEF Goto, Playing, Starting, TypeOK
  <2>3. QED
    BY <2>1, <2>2 DEF SingleInv, BornInv, NoRunaway, Born, RacedWhilePlaying, PauseInv, control,
        sims
<1>5. QED
  BY <1>1, <1>2, <1>3, <1>4 DEF Client

\* SingleInv is preserved by every step.
LEMMA NextSingle == TypeInv /\ SingleInv /\ [Next]_vars => SingleInv'
<1> SUFFICES ASSUME TypeInv, SingleInv, [Next]_vars PROVE SingleInv'
  OBVIOUS
<1>1. CASE UNCHANGED vars \/ Environment
  <2>1. UNCHANGED <<control, sims, pc>>
    BY <1>1 DEF vars, Environment, TunnelStarting, TunnelUp, TunnelFailed, TunnelLost,
                ClientInjects, ClientClears
  <2>2. QED
    BY <2>1, SingleUndisturbed DEF Born, sims
<1>2. QED
  BY <1>1, ClientsSingle, SimulationSingle DEF Next

\* SingleInv holds in every reachable state.
LEMMA SingleInvariant == Spec => [](TypeInv /\ SingleInv)
<1>1. TypeInv /\ SingleInv /\ [Next]_vars => (TypeInv /\ SingleInv)'
  BY NextType, NextSingle
<1>2. QED
  BY InitType, InitSingle, <1>1, PTL DEF Spec

\* Whoever plays, stops, pauses, resumes and switches drivers at once,
\* stopActiveSimulation reaches every simulation whose context is not done, but
\* for those installed while another call was between stop and installation.
THEOREM EverySimulationCanBeStopped == Spec => []NoRunaway
<1>1. SingleInv => NoRunaway
  BY DEF SingleInv
<1>2. QED
  BY SingleInvariant, <1>1, PTL

\* No simulation starts paused by an earlier pause, unless it replaces one that
\* raced with it and was paused meanwhile.
THEOREM SimulationsStartUnpaused == Spec => BornUnpaused
<1>1. TypeInv /\ SingleInv /\ [Next]_vars
          => [made' # made /\ simPaused' => cancelSim \in raced]_vars
  <2> SUFFICES ASSUME TypeInv, SingleInv, Next, made' # made, simPaused'
               PROVE  cancelSim \in raced
    BY DEF vars, sims
  <2>1. PICK c \in Clients : Install(c)
    BY DEF Next, Begin, Flag, Client, Reject, Clear, Show, Swap, Simulation, First, StillBorn,
           Quit, Tick, Finish, Aim, Inject, Progress, Environment, TunnelStarting, TunnelUp,
           TunnelFailed, TunnelLost, ClientInjects, ClientClears, sims
  <2>2. cancelSim = NoSim \/ cancelSim \in raced
    BY <2>1 DEF Install, Planning, SingleInv, RacedWhilePlaying, Playing, Starting
  <2>3. simPaused
    BY <2>1 DEF Install
  <2>4. QED
    BY <2>2, <2>3 DEF SingleInv, PauseInv
<1>2. QED
  BY SingleInvariant, <1>1, PTL DEF Spec, BornUnpaused

-----------------------------------------------------------------------------
(* A simulation that was cancelled.                                        *)

\* A cancelled context stays cancelled, and its simulation, unless it is the
\* one on show, is not put there.
LEMMA CancelledStep ==
    [Next]_vars => \A i \in Sims : done[i] /\ preview # i => done'[i] /\ preview' # i
<1> SUFFICES ASSUME [Next]_vars, NEW i \in Sims, done[i], preview # i
             PROVE  done'[i] /\ preview' # i
  OBVIOUS
<1>1. ASSUME NEW c \in Clients, Begin(c) PROVE done'[i] /\ preview' # i
  BY <1>1 DEF Begin, StopActive, shown
<1>2. ASSUME NEW c \in Clients, Clear(c) PROVE done'[i] /\ preview' # i
  BY <1>2 DEF Clear, sims, NoSim, Sims
<1>3. ASSUME NEW j \in Sims, First(j) PROVE done'[i] /\ preview' # i
  BY <1>3 DEF First
<1>4. ASSUME NEW j \in Sims, Finish(j) PROVE done'[i] /\ preview' # i
  BY <1>4 DEF Finish, NoSim, Sims
<1>5. CASE UNCHANGED <<done, preview>>
  BY <1>5
<1>6. CASE UNCHANGED vars \/ Environment
  BY <1>5, <1>6 DEF vars, sims, shown, Environment, TunnelStarting, TunnelUp, TunnelFailed,
     TunnelLost, ClientInjects, ClientClears
<1>7. ASSUME NEW c \in Clients, Flag(c) \/ Install(c) \/ Reject(c) \/ Show(c) \/ Swap(c)
      PROVE  done'[i] /\ preview' # i
  BY <1>5, <1>7 DEF Flag, Install, Reject, Show, Swap, sims, shown
<1>8. ASSUME NEW j \in Sims,
             StillBorn(j) \/ Quit(j) \/ Tick(j) \/ Aim(j) \/ Inject(j) \/ Progress(j)
      PROVE  done'[i] /\ preview' # i
  BY <1>5, <1>8 DEF StillBorn, Quit, Tick, Aim, Inject, Progress, shown
<1>9. QED
  BY <1>1, <1>2, <1>3, <1>4, <1>6, <1>7, <1>8 DEF Next, Client, Simulation

\* A stop wins against the first write of the goroutine it cancels, in either
\* order (simulation.go:43): for any number of players and controllers.
THEOREM StopAlwaysWins == Spec => StopWins
<1>1. [Next]_vars => [\A i \in Sims : done[i] /\ preview # i => preview' # i]_vars
  BY CancelledStep
<1>2. QED
  BY <1>1, PTL DEF Spec, StopWins

\* So a route that was cancelled and is not on show is never shown again: what
\* a client stopped does not come back (simulation.go:43), whoever plays meanwhile.
THEOREM StoppedForGood ==
    ASSUME NEW i \in Sims
    PROVE  Spec => [](done[i] /\ preview # i => [](preview # i))
<1> DEFINE Over == done[i] /\ preview # i
<1>1. Over /\ [Next]_vars => Over'
  BY CancelledStep
<1>2. Over => preview # i
  OBVIOUS
<1> HIDE DEF Over
<1>3. Spec => [](Over => [](preview # i))
  BY <1>1, <1>2, PTL DEF Spec
<1>4. QED
  BY <1>3 DEF Over
=============================================================================
