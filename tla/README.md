# A TLA+ development of maps-main

maps-main simulates the position of an iPhone. A Go engine (`src/engine`) brings
a tunnel to the phone up through one of several drivers, injects positions
through it, plays routes and patrols, holds a position against iOS dropping it,
and may form a small cluster with other engines on the LAN. Its clients are a
desktop app (`src/tauri-app`) and an iPhone companion (`src/ios-app`), both over
one WebSocket.

This directory models the concurrent core of the engine and the services around
it, checks them with TLC on small instances and proves their main safety
properties with TLAPS. Everything is
translated from the Go sources; the documents under `src/docs` were only used to
learn what is promised.

## 1. Inventory

| Part | State it keeps | Operations | Interacts with |
|---|---|---|---|
| Tunnel lifecycle (`engine_tunnel.go`, `engine_health.go`, `engine_maintenance.go`, `cmd/headless/run.go`) | driver, driver generation, `tunnelMu`, cancel function of the active start, status (`State`, `TunnelActive`, endpoint, health block) | `StartTunnel`, `SwitchDriver`, watchdog, `RestartTunnel`, `RestartServices`, shutdown | drivers (calls), clients (goroutines of dispatch), simulations (cancelled by a switch) |
| Tunnel mount (`driver/tunnel_mount.go`, `endpoint.go`, `mountgate.go`) | daemon process, lost mark, cached endpoint, image gate | `Start`, `Stop`, `CheckHealth`, re-resolve, reaper goroutine | the operating system, the daemon's HTTP port |
| Simulations (`engine_routes.go`, `simulation.go`) | `cancelSim`, `simPaused` under `simMu`; navigation, progress and preview under `mu` | play (route, sequence, GPX), patrol, pause, resume, stop; one goroutine per simulation | injection, the status, routing providers |
| Held position (`engine.go`, `engine_health.go`) | last injected and last verified position, history, drift counter, cooldown | `SetLocation`, `ClearLocation`, `Relance`, keepalive, `ReportRealLocation` | driver, companion app, tunnel state |
| Cluster (`internal/cluster`) | peers, role, epoch, current master, last time it was seen | heartbeat, poll, takeover, claims, discovery, `UpdateConfig`, pairing-record sync | other engines (HTTP, mDNS), settings |
| pymobiledevice3 driver (`driver/pmd3`) | location session (a Python worker with pending requests), userspace mode, tunnel mount | set, clear, start, stop; reader goroutine | worker process, tunneld |
| go-ios command-line driver (`driver/goios`) | the same mount | the same driver interface | go-ios processes |
| go-ios in-process driver (`driver/goiosnative`) | tunnel manager, its update loop, cached device handle | start (two modes), stop, re-resolve, inject | the go-ios library |
| Settings, favourites, persistence (`engine_settings.go`, `engine_favorites.go`, `engine_persistence.go`) | status fields, a file, a credential store | save, add, rename, remove, boot | disk, cluster, routing |
| Routing (`internal/routing`) | configuration and provider registry | normalise, route, decode | HTTP services |
| Server and hub (`internal/server`) | clients and their queues, rate limiters | accept, dispatch, broadcast, telemetry, shutdown | the engine |
| Pairing and authentication (`server/pair*.go`, `auth.go`, `internal/auth`) | buckets per address, device rows, the seed | pair, revoke, check a request | SQL rows, the clock |
| mDNS wake (`discovery/wake.go`) | cancel function and `done` of the browses, their shared health | `Start`, `Stop`, browse loops | operating-system tools |
| Diagnostics, logging, metrics | reports | queries | — |
| Desktop and iPhone apps, enrollers, packaging | — | user interface, one-shot tools | the engine's API |

`PROJECT.json` lists them all under `components`, and what is hard to test in
them, each at its line, under `hazards`.

What is hard here is concurrency. The engine has one status mutex (`e.mu`), one
tunnel mutex (`e.tunnelMu`) and one simulation mutex (`e.simMu`); most operations
take `e.mu` several times with driver calls of many seconds in between. Calls of
one connection are dispatched one after the other (`websocket.go:92`), except
driver switches and restarts, which run in goroutines of their own
(`dispatch.go:199`, `301`, `321`); several connections are concurrent. WebSocket
actions carry a deadline (`dispatch.go:44`); simulation ticks carry none.

What makes each part correct:

* tunnel: one start at a time; a start that a switch outdated publishes nothing
  and leaves no daemon, unless two switches overlap; "starting" ends; the watchdog brings the tunnel back;
  shutting down leaves no daemon;
* simulations: `StopRoute` reaches whatever runs, unless two clients were starting
  at once; a stopped one stays stopped; pausing one does not freeze the next;
* held position: jitter does not move the anchor; a confirmed drift is not
  forgotten; phone and status never part for good;
* cluster: epochs fence stale claims; a minority elects nobody; peers follow the
  master; a dead master is replaced;
* location worker: answers match requests; no worker is lost but by a clear; every call returns;
* mount and in-process driver: no daemon and no update loop outlives the driver's
  knowledge of it; a tunnel that was lost is never revived without a stop;
* hub: a client misses no event or is cut off; silent peers leave no goroutine;
* pairing: guesses are bounded in time; nobody passes without a right to;
* mDNS wake: starting again replaces the previous browses;
* settings: once the commands are over, a crash loses nothing of what the newest
  snapshot held;
* routing: a route fails only when every available provider was asked;
* pairing-record sync: a newer record is not replaced by an older one while writes
  are left undisturbed.

## 2. Modules

| Module | Models | An action is |
|---|---|---|
| `EngineTunnel` | tunnel lifecycle over the drivers' mounts | what one goroutine does in one section of `e.mu`, or one driver call |
| `StartFence` | abstract: what starts and switches promise each other | a start beginning, settling or ending, a switch fencing it off or replacing the driver |
| `EngineTunnelProofs` | theorems about it, the refinement of `StartFence` among them | |
| `EngineSimulation` | route and patrol calls and goroutines | one section of `e.simMu` or `e.mu`, or one injection |
| `EngineSimulationProofs` | theorems about it | |
| `EngineLocation` | injections, history, keepalive, anti-drift shield | one section of `e.mu`, or one driver call |
| `EngineLocationProofs` | theorems about it | |
| `Cluster` | membership and election of several nodes | one ping, one section of `m.mu`, or the delivery of one claim |
| `Pmd3Location` | the pmd3 driver and its Python workers | one section of `d.locMu`, one write, one answer, one wait |
| `Pmd3LocationProofs` | theorems about it | |
| `TunnelMount` | one mount: launches, the two attempts of a start, stops, reapers, re-resolution, image gate | one section of `m.mu`, one system call, one wait |
| `MountPhases` | abstract: a tunnel is off, launching, on, lost or blind (dead, and nobody will notice) | a change of phase |
| `NativeTunnel` | the in-process driver | one section of `d.mu`, one poll, one command |
| `DriversProofs` | theorems about the two, the refinement of `MountPhases` among them | |
| `CertSync` | pairing-record sync of several nodes | one look at a file, one write of its content, of its time or of its mark, one request |
| `Hub` | hub, pumps, dispatch's answers, telemetry, shutdown | one operation on a channel or a connection |
| `Feed` | abstract: what a client may rely on | an event published, a client joining, an event received |
| `ClusterProofs` | theorems about `Cluster`, `CertSync` and `Hub`, the refinement of `Feed` among them | |
| `Pairing` | pairing, throttle, revocation, `checkAuth` | one section of the throttle's mutex, one SQL statement |
| `PairingProofs` | theorems about it | |
| `MdnsWaker` | `MDNSWaker` and its browse loops | one section of `w.mu` or `health.mu`, one browse, one message |
| `SingleRun` | abstract: at most one run of browses, which replaces the one before | a run beginning or ending |
| `Settings` | memory, snapshots, saves, boot | one section of `e.mu`, one save |
| `Routing` | configuration, order, fallback, decoding | one configuration, one provider asked |
| `ServicesProofs` | theorems about the waker, the settings and routing, the refinement of `SingleRun` among them | |
| `MC*` | instances for TLC | |

How they compose: `EngineTunnel` runs its goroutines against mounts of five
phases (`MountPhases`). Both sides are proved: `TunnelMount` implements the phases
(`MountImplementsPhases`), and every step of `EngineTunnel` moves a driver's mount as
they allow (`MountsKeepPhases`). `Cluster`
decides who is master, and `CertSync` takes any such decision as given. Likewise
`Hub` leaves to the engine's modules what an action does, and
`EngineSimulation` takes the tunnel as `Environment`.

`MCDrivers`, `MCServices` and `MCClusterPeers` are packs: each extends one module
(`Pmd3Location`, `Pairing`, `MCCluster`) and instantiates those of other
components that share no state with it (the mount and the in-process driver; waker,
settings and routing; record sync and hub). A variable `part`, chosen in the first
state and never changed, says which of them moves. A pack's state space is the sum
of its components', each explored in full; its type invariant and its properties
speak of the part that moves, and the theorems about an instantiated component are
theorems of its pack.

In each module an operator `MutX` stands above `X`: it is `X` with a plausible
bug and is used nowhere. It documents which slip a property would catch.

Correspondence, beyond the table `map` of `PROJECT.json`:

* **EngineTunnel.** Each goroutine has a `pc`; `sdrv[p]`, `sgen[p]`, `ti[p]` are
  the locals of the Go functions (captured driver, captured generation, endpoint
  returned). Driver instances are numbers in the order they are built. A mount is
  `off`, `launching`, `on`, `lost` (published, daemon gone, not yet noticed) or
  `blind` (published by a `set` that came after the daemon was reaped: the mount says
  that it runs, and so `ReresolveMissed` goes on searching). `overlooked` is history:
  the drivers a switch replaced after it had stopped another one.
  `startCancel` names the start `activeStartCancel` would cancel, `cancelled` the
  starts whose context is done. Deferred calls are in `StartEnd`.
* **EngineSimulation.** Simulations are numbers in the order they start; `done[i]`
  is its context. `raced` is history: the simulations installed while another call was
  between its stop and its own installation. The tunnel and the clients' own injections appear as
  `Environment`, exactly as far as they write `state` and `active`; module
  EngineTunnel has the details.
* **EngineLocation.** A fix is a place and an offset: the offset is the keepalive
  jitter, far below the drift threshold; two places are always further apart than
  it. `spoof` is what iOS applies. `Measure` separates what the companion measured
  from the moment its report is handled.
* **Cluster.** `m.currentMaster` holds a peer's address, the word "me", or
  nothing. `handleTakeover` stores what the claim carries, which is always "me":
  so does the model. Time is `Age`: `lastMasterSeen` grows old whenever it likes,
  since `masterDeadAfter` is set at run time (`SetTuning`) and bears no relation to
  the time a poll takes. A save may change the mode, `Modes` says to which: when "off" the
  node is standalone and its loop does not run, though it still answers pings and obeys claims. `Release` is not an action:
  run.go defers it past the shutdown of the HTTP server and the end of the loops, so
  that nobody sees the role it clears before the process is gone (`Crash`).
* **Pmd3Location.** A request is an id, its caller and an action; `box[p]` is what
  the caller's channel holds. The health check's ping and manual tunnel addresses
  are left out: neither changes the session. `dropped` is history: the sessions a clear
  took with its second, unconditional take.
* **TunnelMount.** Each launch is a number, `proc` its process: alive, killed,
  exited or reaped; `m` is what `m.mu` guards. `Stoppers` are the callers of `Stop`
  that do not hold `tunnelMu`. An endpoint is the daemon that answered for it, so a
  poll that reaches an older daemon on the same port is visible.
* **NativeTunnel.** `loop[k]` is the goroutine of the k-th manager's update loop;
  `handle.ep` is the tunnel `d.bound` names. `failed` is history.
* **CertSync.** One file, with a content and a modification time: a record enrolled
  at an instant has both, and a write sets the content (and the time of now) before it
  sets the time. Pulls and pushes read the two one after the other as well. `disturbed`
  is history: somebody looked at, read or wrote a file between those two steps of
  another, or they were not both made.
* **Hub.** `reader`, `writer` are the two goroutines of a connection; `fanned`,
  `from` are history, and map to `log` and `start` of `Feed`.
* **Pairing.** Time is counted in refill intervals. `spent`, `first` and `drawn`
  are history: attempts that paired nobody, when an address first tried, devices
  ever paired.
* **MdnsWaker.** A run is a context, a browse loop per service and one health
  record; `ended` is the set of contexts that are done. A caller is the boot goroutine,
  once, or that of a `RESTART_MDNS`. `overlapped` is history: the runs made while another
  caller was between its `Stop` and its own run.
* **Settings.** A favourite is a place with a name counted by renamings; the
  other options are one counter. The companion port is a field of its own: `SaveSettings`
  changes it, no snapshot has it, a boot does not read it and a tunnel that comes up or
  goes sets it to its own. `newest` and `unsaved` are history: whose snapshot is the newest,
  and that it failed to be saved or that an older one was saved after it.
* **Routing.** Degrees are whole numbers of 1e-5; a polyline is its characters
  less 63, and `Encoded` (what the providers do, external) is the reference the
  decoder is checked against.

## 3. Runs

Twelve runs; nine must pass and three show a disagreement between code and sources.

| Run | Instance | Shows |
|---|---|---|
| `tunnel_safety` | boot, watchdog, a switch; a second switch, or one restart of either kind, or SIGTERM with one daemon death or failed injection (1.4 million states) | starts and switches implement `StartFence`; a publication is of the current driver; an outdated start is cancelled; "starting" has an owner; a replaced driver owns no daemon, unless a second switch overlooked it; own starts end with the run |
| `tunnel_heals` | boot, watchdog, one switch that may fail, one daemon death or failed injection, the phone moving once, fair | the tunnel comes back, unless its daemon died unseen; the switch returns |
| `tunnel_shutdown` | one switch, SIGTERM | **violated**: the shutdown stops the boot driver only |
| `tunnel_blind` | boot, watchdog, one daemon death, fair | **violated**: a daemon that dies between the poll that found its tunnel and `set` is never replaced |
| `sim_players` | a client that calls everything with a guest that stops, pauses, resumes, switches; or two clients that play at once; three calls; routes of one point (280 thousand states) | the cancel function reaches whatever runs, but for simulations two players raced; a stopped route never shows again; nobody is born paused; simulations end |
| `location_holds` | one client, two places, jitter, keepalive and companion together, every saved history of one place, one dropped spoof, fair | the anchor never moves; a confirmed drift is not forgotten; phone and status never part for good |
| `cluster_safety` | two nodes found by discovery, two claims, one crash or link change, one save that may leave the cluster or join it, fair (280 thousand states) | epochs never fall; only a newer one demotes; slaves follow a lasting master |
| `cluster_peers` | pack: three nodes under every set of cut links, one claim; two nodes that sync a record, three writes and two moves, losses or restarts; a hub with one connection, fair (700 thousand states) | a node that reaches no majority is never master; a newer record is kept until a write is disturbed; slaves pull; the hub implements `Feed` and lets go of silent peers |
| `cluster_failover` | two nodes, a crash, fair | **violated**: nobody takes over from a dead master |
| `drivers` | pack: pmd3 with two callers (one without deadline) that set and clear, starts, stops, two endpoints, three workers, three calls, one fault; a mount with one stopper, three daemons, two stops; the in-process driver with two managers, one handle, one stop (2.0 million states) | no worker is lost but by a clear; daemons and update loops are held; the mount implements `MountPhases` |
| `pmd3_returns` | two callers, sets, clears, starts, stops, two endpoints, two workers, one fault, fair | every call returns unless a garbled line stops a reader; answers match their requests |
| `services` | pack of pairing, mDNS wake, settings and routing (1.9 million states) | the waker implements `SingleRun`, but for runs that overlapping callers made; attempts are bounded; only the entitled pass; the newest snapshot is stored; fallback is complete; paths are decoded |

### Bounds and why they are enough

* *Clients.* Each property relates at most a start, the switch that outdates it
  and one more actor; boot and watchdog are always there, so one switch and one
  companion give four concurrent goroutines. `tunnel_safety` takes as the companion
  a second switch, a restart, or a fault with a shutdown (the constraint `OneCompanion` of
  `MCEngineTunnel`): all three at once are too many states for one run. `sim_players`
  likewise has a guest who either controls in every way while the tunnel comes and goes, or
  plays patrols against the client's routes, pauses and stops, on a tunnel that stays
  (`duet`). The theorems about both modules remove these bounds.
* *InjectFailureThreshold = 1* (3 in the code): the counter only matters at the
  threshold. *driftConfirmFailures = 2* is the code's value.
* *maxHistoryEntries* is 1 (20 in the code): the cap already meets repeats.
* *Length = 1*: the first point is also the last; the boundary is what matters.
* *MaxCalls, MaxFaults, MaxDrops, MaxMoves, MaxClaims, MaxSaves* bound the
  environment only. A guard names each. In fair runs none of them bounds the
  program, except `MaxEpoch` (promotions) and `MaxSessions` (workers), at which
  the program's own refusal is taken.
* `cluster_safety`. A fault and a save meet in one behaviour, but not together with every
  claim of the bound (`OneByOne` of `MCCluster`): the conjunct stops only claims posted
  by hand, faults and saves, steps of the environment that no fairness covers, so no step
  of the program itself is ever held back by it.
* *Deadlock* is checked where the system goes on for ever, and switched off in the
  runs in which the process exits or all calls have been made.
* `cluster_peers`. *Election*: three nodes without changes of links: with links
  that change, online marks may be old, and the property as the code states it ("can
  currently see") is about what a node sees. `AutoNodes` leaves one node in manual mode
  to keep the instance small; the one claim posted by hand is what starts any election
  (`AMasterIsElected`, section 5). *CertSync*: three writes of the file, so that two
  enrolments and the write of the older one race; two faults, such as a promotion and the
  claim that answers it, a lost push or a restart. *Hub*: one
  connection with a queue of one place, a broadcast channel of one, one token, one
  emitter, two changes and two requests: answers, events, the greeting and the departure compete for the one place,
  and each limit (`SendCap`, `BroadcastCap`, `Burst`) is met. Connections share only
  the hub's loop, which takes them one at a time; that `Feed` is implemented is proved
  for any number of them and any capacities.
* `drivers`. Three calls are the least with which a clear drops the session another
  call opened (section 5) while a third uses one. Its fault,
  like that of `pmd3_returns`, is a worker that dies, a line that is garbled or an
  endpoint that moves; what holds of safety is proved for any number of them. Three
  daemons are the two attempts of one start and one of a later start, so that a
  late reaper meets a newer daemon.
* `services`. *Pairing*: two callers, two
  addresses, one device, a burst of one and a time to live of one interval: pruning,
  refills and late refunds all meet within three instants; the theorems remove these
  bounds. *MdnsWaker*: two callers, one service, delays of 1 and 2, a threshold of
  one, two runs. *Settings*: two clients, one favourite, two changes, two saves that
  fail or restarts. *Routing*: every configuration of names of two, paths of up to two points
  with values of either sign and both one and several characters long.

### Fairness and why the code justifies it

* Goroutines are scheduled (weak fairness per goroutine).
* Go's `sync.Mutex` is starvation free: a goroutine that keeps asking gets it.
  That is strong fairness of the actions that take a mutex (`StartCapture`,
  `SwitchStop`, `Locks`, `Install`).
* Driver calls return: `TunnelMount.Start` has a deadline
  (`tunnel_mount.go:175`), `Stop` a bounded reap, the worker handshake
  `workerStartTimeout`, and the worker answers each request within
  `ACTION_TIMEOUT_SECONDS` (`location_worker.py`).
* `select` chooses at random among ready cases, so a cancelled context is not
  passed over for ever: strong fairness of `Quit` in EngineSimulation.
* The keepalive ticks, the companion reports and reports are handled; heartbeats go
  on, requests end. The keepalive and the shield run together, and can undo each other
  for ever (`HoldSettles`, section 5): what `HoldHeals` says is that phone and status agree
  again and again, so that neither disagreement lasts.
* The hub's loop, the pumps and the handlers go on (`Telemetry`, `FanOut`, `Handler`
  and `Pump` of Hub, in `PeersSpec`): a ping is sent every `pingPeriod` and a peer that
  does not answer is found out by `pongWait` (`websocket.go`, `hub.go:13-18`), so a pump
  does not wait for ever on a dead connection. A full queue still blocks who sends on it.
* A heartbeat pulls and pushes and a master answers (CertSync's `Beat` and
  `HandlePlists`, in `PeersSpec`);
  that a slave keeps reaching its master is in the formula: it pulls, or stops following.

No fairness is assumed of clients, faults or the phone, and none at all in `drivers`
and `services`, whose properties are of safety. `TunnelHeals` and
`HoldHeals` assume, in the formula, that the phone stays in reach from some point;
`TunnelHeals` moreover that the current driver's mount is not blind for ever, which
`tunnel_blind` shows it may be.

## 4. Proofs

`EngineTunnelProofs` (any number of clients, any bounds; assumptions
`ProcsAssumption`, `BoundsAssumption`):

* `TypeCorrect`. Types alone are not inductive: the number of drivers built must
  stay within `Drivers`. `Counting` relates generation and drivers built to the
  switches begun and finished, `Kinds` says who can be inside a switch.
* `MutualExclusion`, `PublicationIsCurrent`, `FenceCancels`, `StartingHasOwner`
  from `SafeInv`. The heart is a pair: whoever is in a start or swapping the driver
  holds `tunnelMu` (`LockInv`), therefore nobody replaces the driver under a start
  (`CapturedInv`). So although the generation check and the publication are separate
  sections of `e.mu`, the driver published is current. `FencePending` carries the
  other half: a start outdated by a switch has that switch still waiting, which is
  what ends "starting" when the start itself may no longer.
* `StartsAreAlwaysFenced`: the module implements `StartFence`. The start under way is
  the goroutine in it with the driver it captured; it is fenced when its generation is
  outdated and its context done. That a switch fences it at once needs both that
  `activeStartCancel` is its own (`CancelIsHolders`) and that no generation captured is
  ahead of the one in force (`GenInv`); that no driver is replaced under it needs
  `LockInv`; that it may end while "starting" is shown needs `StartingIsOwned`.
* `MountsKeepPhases`: a step of the engine moves a driver's mount as `MountPhases`
  allows, or not at all.
* `ReplacedDriversAreStopped`, for any number of switches and restarts at once. The
  swap is the only step that makes a driver a former one, and what it replaces is the
  driver it stopped (`SwapsStopped`) or is overlooked from then on.
* `OwnStartsEnd`: the contexts of boot and watchdog derive from the run's at every
  capture.

`EngineSimulationProofs` (any clients, plan length and calls; `CallsAssumption`,
`SimBoundsAssumption`): `TypeCorrect` with a budget that relates simulations made
and about to be made to the calls; `EverySimulationCanBeStopped` (`NoRunaway`,
for any number of players) from the invariant that whatever is installed between
another player's stop and its own installation has raced with it
(`RacedWhilePlaying`), so that an installation overwrites no other cancel function;
`SimulationsStartUnpaused` from the same. `StopAlwaysWins` (`StopWins`) holds for any
number of players: a step puts a simulation on show only while its context is not done,
and no context is ever made undone; hence `StoppedForGood`, the temporal form: a
simulation that is cancelled and not on show is never shown again.

`EngineLocationProofs` (any clients, places, thresholds, cap and number of calls;
`LocationAssumption`, which also says that nil is neither a place nor a fix):

* `TypeCorrect`, from `HeldInv`: whoever is inside an injection has a fix to record.
* `AnchorStays` (`NoRandomWalk`). The status alone is not inductive: a process
  carries a copy of the held position from its read to its write, and `AnchorInv`
  says of the copies what the property says of the status.
* `HistoryStaysTidy`. The work is in the lemma `PushKeepsTidy`: a place in front of
  a tidy history with the tail cut off is tidy, at every cap.
* `DriftStaysConfirmed`, an action property: at the threshold the counter leaves it
  only through a report in tolerance or the confirmation of a re-injection.

The component modules of the packs are mostly instantiated, so they make no
ASSUME: their assumptions are definitions (`PairingAssumption`, `WakerAssumption`,
`MountAssumption`, `NativeAssumption`, `CertSyncAssumption`, `HubAssumption`), which the
packs assume of their constants (`ServicesAssumption`, `DriversAssumption`,
`PeersAssumption`) and TLC evaluates. They say of what kind the constants are, and
nothing of what the operators compute.

`PairingProofs` (any callers, addresses, devices, burst, time to live and clock;
`PairingAssumption`, which asks for finitely many callers and a burst within the time
to live):

* `ThrottleAlwaysHolds`. The bound on attempts is not inductive: the invariant
  relates, per address, what was spent and what the bucket holds to the time since
  the first attempt, and says that an attempt not yet decided is counted as spent
  until its refund. Pruning forgets tokens and never makes any, for a bucket old
  enough to be pruned would be full.
* `RefundsAreCovered`. What an address spent is at least the number of its requests
  that may still be refunded. The lemmas count those requests as sets: a step adds one
  that was just paid for, or takes one away with its refund.
* `OnlyTheEntitledEverPass`. A request carries what it read from its row to its
  answer; the invariant says of the request what the property says of the answer.

`ServicesProofs` (theorems of `MCServices`):

* `WakerTypes` and `WakerImplementsSingleRun` (any callers, services, runs and
  delays). The invariant: of the runs not set aside only the current one can be live, and
  none is while any caller stands between its `Stop` and its own run, for a run that
  another makes meanwhile is set aside.
* `ServicesTypes` (`ServicesTypeOK`), the type invariant of whichever part moves. It
  says more than types: no place is a favourite twice, however they are added and
  removed (`AddedOnce`, `RemovedOnce`), and a configuration in use names each
  provider once.
* `OrderIsAlwaysRight`: whatever names clients send, the order of providers names each
  once and the first of them that is available is the one announced. `Distinct` chooses
  an order by first places; `DistinctFacts` shows that there is one and what it is.
* `PathIsAlwaysKept` (any paths, differences of any size): `PolylineIsKept` says that
  the decoder inverts the encoding. Three inductions: values end where their characters
  do and carry the value (`CharsAdd`), the code of the first points begins the code
  (`EncodingBegins`), and after it exactly those points have been read
  (`PointsSoFar`); `Iterated` shows that the functions the model defines by recursion
  exist.
* `QuietIsAlwaysStored` (any clients, places and changes, commands that overlap and saves
  that fail included). That quiet settings are on disk is not inductive: once nobody has
  yet to take a snapshot, the newest one holds the memory, and it is about to be saved,
  or on disk, or `unsaved` says why not (`RowInv`). Settings and keys are two snapshots
  and two saves (`KeyInv`).
* `FallbackIsAlwaysComplete` (any configurations, updates during the route included).
  `RouteInv` relates what was tried to how far the route has come in the order it took
  when it began; that nothing is tried twice follows from the order having no repeats.

`DriversProofs` (theorems of `MCDrivers`):

* `MountIsAlwaysTrue` from the fact
  that a daemon belongs to one place at a time, the mount, the start that waits for it
  or the stop about to kill it; `MountImplementsPhases`, a step simulation that maps
  each action to a move between phases or a stutter. It needs the same invariant: a
  poll is answered for a daemon that was launched.
* `NativeIsAlwaysTrue`. The
  owner builds a manager only when the driver has none: an idle driver that holds one
  reports its tunnel up, and the attempt that failed took its manager down before the
  next. Handles are numbered, and one that failed is neither cached nor in use.
* `DriversTypes`, the type invariant of whichever driver moves.

`Pmd3LocationProofs` (any callers, workers, calls and faults; `Pmd3Assumption`):

* `AnswersAlwaysMatch`. Whoever is registered with a session waits on it for its latest
  request, which nobody has answered (`WaitInv`), and an id names one request, those to
  come being greater than any used (`IdInv`). That a call which uses a session has one
  (`HandsInv`) is an invariant of its own.
* `Pmd3Types`, which rests on the same: an answer in a box is typed by who waits for it.
* `NoWorkerIsOrphaned`, for every set of calls. Who takes a session from the driver
  keeps it until it is seen to end, the manager as well as a clear (`KeptInv`), except
  by the second take of a clear, which remembers nothing (`dropped`). A start installs its worker over
  an empty slot: while the tunnel is down nobody else opens one (`BootInv`).

`ClusterProofs` (theorems of `Cluster`, extended, and of `MCClusterPeers`):

* `ClusterTypes` and `EpochsFence` (`StaleClaimsAreFenced`), for any nodes,
  configurations, links, claims, crashes and saves. Types need that a round polls only
  listed peers, for a save empties the list.
* `MajorityAlwaysElects`, for any number of nodes, under what the property is about:
  everyone is configured with everyone (`Known`), and links stay as they are
  (`[][cut' = cut]_vars`, while nodes crash, restart, save and post claims). Nobody
  then has an online mark for a node behind a cut link (`SeenInv`), everybody goes on
  listing everybody (`FullInv`), and a quorum of marks is a majority of the nodes that
  can be reached (`QuorumIsMajority`).
* `NewerIsAlwaysKept` (any engines, writers, enrolments, losses and moves). `RecordsInv`
  says that until a write is disturbed every record, kept or on its way, carries its own
  time, except a file between its two writes (`Clean`), and that a job about to write saw
  an older time; so an older record replaces a newer one only if the file changed between a
  writer's look and its write, which is what `NewerIsKept` allows.
* `HubImplementsFeed` (any connections, emitters and capacities): every step of the hub
  is a step of `Feed` or a stutter. The invariant `FeedInv` is that what a client
  received, followed by what its queue holds, is exactly what was fanned out since it
  joined (operator `Tracks`, with a function that gives every event its place);
  the lemmas say how `Tracks` changes when an event is fanned out, sent
  or dropped with its connection. TLC checked `FeedInv` first.
* `PeersTypes`, the type invariant of whichever part moves.

Only model-checked:

* liveness (`TunnelHeals`, `SwitchesComplete`, `SimsEnd`, `HoldHeals`, `SlavesFollow`,
  `SlavesPull`, `GoneClientsLeave`, `EveryCallReturns`): fairness and ENABLED are
  beyond the prover. Every other property of a run is a theorem.

Where a proof needs induction over data (a path, a code, a list of favourites), it is
made of sets: a set of numbers has a least member (`LeastMember`, from the
well-foundedness of the natural numbers), so a set that has 0 and every successor has
all (`Upwards`), and the least counterexample to a statement about smaller numbers
cannot be. The library's induction theorems, whose parameter is an operator, are not
needed for that; operators declared RECURSIVE are not used in these modules.

## 5. Disagreements between the code and what its sources say

Three are runs (`tunnel_shutdown`, `tunnel_blind`, `cluster_failover`; see `findings`). The modules state further ones as definitions, under "What the
sources say". Each was found false by TLC on the instance given, with the cfg of
the run named as a base; they document the code and are not part of the runs.

| Property (module) | Instance | What happens |
|---|---|---|
| `overlooked = {}` (EngineTunnel) | safety | The second switch captured the first one's old driver (`engine_tunnel.go:51`) and stops that; the middle driver's daemon stays. |
| `StatusHeals` (EngineTunnel) | heals | A watchdog tick or a start publishes an endpoint it read before the switch or the move (`engine_health.go:250`, `engine_tunnel.go:239`); `engine_test.go:853` expects the new one. |
| `DoomedStartsAreAborted` (EngineTunnel) | one switch | A start that begins after the abort and before the switch takes `tunnelMu` is not cancelled (`engine_tunnel.go:53`). |
| `NoUptimeWithoutTunnel` (EngineTunnel) | one switch | `SwitchDriver` keeps the health block (`engine_tunnel.go:115`; `271` says why it must go). |
| `RestartDelivers` (EngineTunnel) | one `RestartTunnel` | The restart's start finds the tunnel marked active by the watchdog and reports success (`engine_maintenance.go:81`). |
| `StopReachesAll` (EngineSimulation) | sim_players | Each cancelled nothing; the second cancel function replaces the first, whose simulation no call can stop (`engine_routes.go:131`; `12` says otherwise). |
| `SimulationActiveIsRunning` (EngineSimulation) | one play | A route that finished stays in `cancelSim`: the keepalive stands down (`simulation.go:84`). |
| `PausedHasASimulation` (EngineSimulation) | pause and stop | "paused" is written after the stop (`engine_routes.go:44`). |
| `MovingHasASimulation` (EngineSimulation) | play, then an unusable GPX | The route is cancelled, the parse fails, the state stays "moving" (`engine_routes.go:206`). |
| `ProgressHasAStatus` (EngineSimulation) | play and stop | The tick under way writes a progress after the stop (`simulation.go:125`). |
| `HoldHeals` (EngineLocation) | `Monitors = {keepalive}` | A lost tunnel makes the state "idle" and the keepalive asks for "running" (`engine_health.go:73`). |
| `HoldSettles` (EngineLocation) | location_holds | The keepalive read the position before the shield re-injected another, and sends the old one; the next report drifts again (`engine.go:443`, `347`). |
| `ShieldDefendsTheSpoof` (EngineLocation) | set, clear, companion | The shield falls back on the last verified position and re-injects it (`engine.go:333`). |
| `KeepaliveKeepsPosition` (EngineLocation) | two sets, keepalive | The keepalive resends a position replaced meanwhile (`engine.go:443`). |
| `OneWinnerPerEpoch` (Cluster) | two nodes, one claim | Two nodes promote themselves to the same epoch (`cluster.go:447`). |
| `MastersKeepTheirEpoch` (Cluster) | three nodes, cut link | A master adopts a newer master's epoch and stays master (`cluster.go:432`). |
| `AMasterIsElected` (Cluster) | two nodes, no claim, fair | Nobody is promoted without a previous master (`cluster.go:447`). |
| `SavingKeepsTheHeartbeat` (Cluster) | one save | The heartbeat runs under the request's context (`engine_settings.go:116`) and ends with it. |
| `NoWorkerIsDropped` (Pmd3Location) | drivers | A clear's second take drops a session another caller opened, and its worker goes on (`location.go:57`). |
| `CallsReturn` (Pmd3Location) | pmd3_returns | A line that is not JSON stops the reader, not the worker; a tick waits for ever (`location_session.go:175`). |
| `FreshSessionOpens` (Pmd3Location) | userspace, a clear | The only session is gone and the next set is refused (`location.go:79`). |
| `UserspaceIsRemembered` (Pmd3Location) | start on a live userspace tunnel | `StartTunnel` clears the mode first (`tunnel.go:26`). |
| `DeathIsNoticed` (TunnelMount) | as in drivers | A daemon that ends between the poll that found its tunnel and `set` is reaped before the mount knows it (`tunnel_mount.go:49`). |
| `EndpointIsOwn` (TunnelMount) | as in drivers | A re-resolution that began before a restart publishes the older daemon's endpoint (`tunnel_mount.go:336`). |
| `StoppedIsOff` (NativeTunnel) | as in drivers | A re-resolution, or a start, that had found the tunnel sets it after the stop (`goiosnative/tunnel.go:173`). |
| `PushesArrive` (CertSync) | as in cluster_peers | A record is marked pushed first; a lost push is not repeated (`cluster_certsync.go:131`). |
| `NewerIsNeverLost`, `TimesAreTrue` (CertSync) | as in cluster_peers | Between `os.WriteFile` and `os.Chtimes` the old record has the time of now: a newer push is skipped, or the master pushes the old record as the newest (`cluster_certsync.go:194`, `202`). |
| `TakeoverIsFollowedByPull` (CertSync) | as in cluster_peers | A pull from the old master that ends after the claim marks the slave synced (`cluster_http.go:99`). |
| `GreetingIsCurrent` (Hub) | as in cluster_peers | An event slips in between the reading of the status and the greeting that carries it (`websocket.go:45`). |
| `ResultsAreHarmless` (Hub) | as in cluster_peers | A background action sends its result on a queue the hub has closed; the process panics (`dispatch.go:315`, `330`, `345`). |
| `DroppedConnectionsClose` (Hub) | as in cluster_peers, fair | A client dropped before its greeting keeps its connection (`hub.go:68`). |
| `RestartKeepsBrowsing` (MdnsWaker) | one restart | The browses run under the request's context and end with it (`engine_maintenance.go:103`). |
| `NoRunIsOverwritten` (MdnsWaker) | services | Two callers find nothing to stop; two runs live, one of them without a cancel function (`wake.go:95`; `58` says that a start replaces). |
| `LastMessageIsTrue` (MdnsWaker) | two services | Warning and recovery are sent outside the mutex and may change places (`wake.go:176`). |
| `OverlapIsStored` (Settings) | two clients | The older of two snapshots may be saved last (`engine_persistence.go:93`). |
| `PortIsStored` (Settings) | one save | `SaveSettings` sets the companion port (`engine_settings.go:18`) and `exportSettingsLocked` has no such field. |
| `ClusterIsStored` (Settings) | one save | The snapshot precedes the cluster's new configuration, which a goroutine applies (`engine_settings.go:116`). |
| `HistoryIsStored` (Settings) | one entry | Adding to the history saves nothing. |

Four more were met while reading and have no definition. The comment at
`pair_throttle.go:16-18` says that only failures consume and that a success refunds
the whole bucket: the code refunds one attempt, and an unreadable body or a failed
insert consumes one too; `Pairing` follows the code. A connection that is open when
its device is revoked stays open. `exportSettingsLocked` leaves out the
server name. `RESTART_TUNNEL` and `RESTART_MDNS` are counted twice in
the metrics, as dispatched and as done (`dispatch.go:49`).

## 6. Not modelled, and why

Diagnostics, logging, metrics, message types and embedded files carry no protocol;
the mDNS query and the HTTP handlers read and answer. The desktop app, the iPhone app
and the enrollers are user interfaces over the engine's API; what they do to the
engine is an action of a client in the modules. Distances, speeds, GPX and great
circles are floating-point and text. Durations are not modelled: where the order of
two timers matters, either order is possible (Pairing, whose properties are about
time, counts intervals). Of a write of one file's content, or of one row, the failure half-way is left out.

## 7. Plan

1. Larger instances where a run allows it: two connections on one hub, two
   services of the waker.
2. The supervision of the engine process by the desktop app (`engine_process.rs`).
3. The shutdown of a switched driver and the takeover of a dead master, once the
   code does what its comments say (section 5): both properties become theorems.
