---------------------------- MODULE Pmd3Location ----------------------------
(***************************************************************************)
(* The location worker of the pymobiledevice3 driver                       *)
(* (engine/internal/driver/pmd3): the Go calls that set and clear the      *)
(* position and start and stop the tunnel (location.go, tunnel.go,         *)
(* userspace.go), and the session with the Python worker, whose replies    *)
(* carry the id of their request (location_session.go).                    *)
(*                                                                         *)
(* d.locMu guards d.location and is held while a worker starts; a round    *)
(* trip holds no lock.  Coordinates are left out, and so are the health    *)
(* check's ping, which only reads, and manual tunnel addresses.            *)
(*                                                                         *)
(* An operator MutX, above X, is X with a plausible bug: the properties    *)
(* tell the two apart.  Nothing else uses it.                              *)
(***************************************************************************)
EXTENDS Naturals, Sequences, FiniteSets

CONSTANTS
    Injectors,    \* goroutines that call SetLocation and ClearLocation
    Patient,      \* those whose context has no deadline: simulation ticks
    manager,      \* the goroutine that starts and stops the tunnel
    Ops,          \* the calls made: a subset of {"set", "clear", "start", "stop"}
    Endpoints,    \* endpoints tunneld publishes
    InProcess,    \* userspaceEndpoint, the marker of a tunnel inside a worker
    None,         \* no tunnel, no lock holder, no call
    outcomes,     \* what starting tunneld may come to: a subset of {"up", "fails"}
    garbles,      \* whether a worker may print a line that is not JSON
    MaxSessions,  \* bound: workers started
    MaxCalls,     \* bound: calls made altogether
    MaxFaults     \* bound: workers that die or garble, endpoints that move

Procs == Injectors \union {manager}

ASSUME Pmd3Assumption ==
    /\ Ops \subseteq {"set", "clear", "start", "stop"}
    /\ manager \notin Injectors /\ Patient \subseteq Injectors
    /\ InProcess \notin Endpoints /\ None \notin Endpoints \union {InProcess}
    /\ None \notin Procs \union {"set", "clear", "start", "stop"}
    /\ outcomes \subseteq {"up", "fails"} /\ garbles \in BOOLEAN
    /\ MaxSessions \in Nat /\ MaxCalls \in Nat /\ MaxFaults \in Nat

Sessions == 1 .. MaxSessions
NoSession == 0
NoAnswer == [kind |-> "none", id |-> 0, by |-> None, ok |-> FALSE]

VARIABLES
    endpoint,     \* d.Tunnel(): an endpoint or None
    userspace,    \* d.userspace
    location,     \* d.location: a session or NoSession
    locMu,        \* who holds d.locMu across a worker's start, or None
    dropped,      \* history: sessions a clear took from the driver without looking
    made,         \* sessions created so far
    bound,        \* per session: the endpoint it is bound to
    worker,       \* per session: its process
    reading,      \* per session: readLoop runs
    nextID,       \* per session: s.nextID
    pending,      \* per session: who waits for which id
    stdin,        \* per session: requests the worker has not answered
    pc, op,       \* per process: the step it is about to take, its call
    sess, id, ti, \* per process: its session, request id and endpoint read
    box,          \* per process: what its channel holds
    calls, faults \* the bounded environment's counters

tunnel == <<endpoint, userspace>>
driver == <<location, locMu, dropped>>
session == <<bound, worker, reading, nextID, pending, stdin>>
local == <<op, sess, id, ti, box>>
count == <<calls, faults>>
vars == <<tunnel, driver, made, session, pc, local, count>>

Init ==
    /\ endpoint = None /\ userspace = FALSE
    /\ location = NoSession /\ locMu = None /\ dropped = {} /\ made = 0
    /\ bound = [s \in Sessions |-> None]
    /\ worker = [s \in Sessions |-> "none"]
    /\ reading = [s \in Sessions |-> FALSE]
    /\ nextID = [s \in Sessions |-> 0]
    /\ pending = [s \in Sessions |-> {}]
    /\ stdin = [s \in Sessions |-> <<>>]
    /\ pc = [p \in Procs |-> "idle"] /\ op = [p \in Procs |-> None]
    /\ sess = [p \in Procs |-> NoSession] /\ id = [p \in Procs |-> 0]
    /\ ti = [p \in Procs |-> None] /\ box = [p \in Procs |-> NoAnswer]
    /\ calls = 0 /\ faults = 0

Set(f, x, v) == [f EXCEPT ![x] = v]
Goto(p, step) == pc' = Set(pc, p, step)

\* A call that returns forgets its locals.
Return(p) ==
    /\ Goto(p, "idle")
    /\ op' = Set(op, p, None) /\ sess' = Set(sess, p, NoSession)
    /\ id' = Set(id, p, 0) /\ ti' = Set(ti, p, None) /\ box' = Set(box, p, NoAnswer)

-----------------------------------------------------------------------------
(* Workers.                                                                *)

\* The reader stops: whoever waits on the session has its channel closed.
MutFailPending(s) ==
    /\ reading' = Set(reading, s, FALSE) /\ UNCHANGED <<pending, box>>
FailPending(s) ==
    /\ reading' = Set(reading, s, FALSE)
    /\ pending' = Set(pending, s, {})
    /\ box' = [q \in Procs |-> IF \E w \in pending[s] : w.by = q
                               THEN [NoAnswer EXCEPT !.kind = "closed"] ELSE box[q]]

\* The process is gone: the reader, if it still runs, meets the end of its pipe.
Kill(s) ==
    /\ worker' = Set(worker, s, "dead")
    /\ stdin' = Set(stdin, s, <<>>)
    /\ IF reading[s] THEN FailPending(s) ELSE UNCHANGED <<reading, pending, box>>
    /\ UNCHANGED <<bound, nextID>>

\* An answer goes to whoever waits for its id, if anybody does.
MutDeliver(s, request, ok) ==
    /\ pending' = Set(pending, s, {})
    /\ box' = [q \in Procs |-> IF \E w \in pending[s] : w.by = q
         THEN [kind |-> "answer", id |-> request.id, by |-> request.by, ok |-> ok] ELSE box[q]]
Deliver(s, request, ok) ==
    /\ pending' = Set(pending, s, {w \in pending[s] : w.id # request.id})
    /\ box' = [q \in Procs |-> IF [id |-> request.id, by |-> q] \in pending[s]
         THEN [kind |-> "answer", id |-> request.id, by |-> request.by, ok |-> ok] ELSE box[q]]

\* The worker answers its requests in order, well or badly.  After "stop",
\* which cannot fail, it reads no more and exits.
Answer(s) ==
    /\ worker[s] \in {"running", "closing"} /\ reading[s] /\ stdin[s] # <<>>
    /\ LET request == Head(stdin[s]) IN
         /\ \E ok \in IF request.act = "stop" THEN {TRUE} ELSE BOOLEAN :
              Deliver(s, request, ok)
         /\ stdin' = Set(stdin, s, IF request.act = "stop" THEN <<>> ELSE Tail(stdin[s]))
         /\ worker' = IF request.act = "stop" THEN Set(worker, s, "closing") ELSE worker
    /\ UNCHANGED <<tunnel, driver, made, bound, reading, nextID, pc, op, sess, id, ti, count>>

\* Its stdin closed, or its stdout with a request to answer, the worker ends.
Exit(s) ==
    /\ \/ worker[s] = "closing" /\ stdin[s] = <<>>
       \/ worker[s] \in {"running", "closing"} /\ ~reading[s] /\ stdin[s] # <<>>
    /\ Kill(s)
    /\ UNCHANGED <<tunnel, driver, made, pc, op, sess, id, ti, count>>

Dies(s) ==
    /\ worker[s] = "running" /\ faults < MaxFaults /\ faults' = faults + 1
    /\ Kill(s)
    /\ UNCHANGED <<tunnel, driver, made, pc, op, sess, id, ti, calls>>

\* A line that is not JSON stops the reader, not the worker.
Garbage(s) ==
    /\ garbles /\ worker[s] = "running" /\ reading[s]
    /\ faults < MaxFaults /\ faults' = faults + 1
    /\ FailPending(s)
    /\ UNCHANGED <<tunnel, driver, made, bound, worker, nextID, stdin, pc, op, sess, id, ti, calls>>

\* The device moves between USB and WiFi, and the endpoint with it.
EndpointMoves ==
    /\ ~userspace /\ endpoint \in Endpoints
    /\ faults < MaxFaults /\ faults' = faults + 1
    /\ endpoint' \in Endpoints \ {endpoint}
    /\ UNCHANGED <<userspace, driver, made, session, pc, local, calls>>

-----------------------------------------------------------------------------
(* Calls.                                                                  *)

Call(p, what, step) ==
    /\ what \in Ops /\ pc[p] = "idle" /\ calls < MaxCalls /\ calls' = calls + 1
    /\ op' = Set(op, p, what) /\ Goto(p, step)
    /\ UNCHANGED <<endpoint, driver, made, session, sess, id, ti, box, faults>>

SetLocation(p) == Call(p, "set", "tunnel") /\ UNCHANGED userspace
ClearLocation(p) == Call(p, "clear", "take") /\ UNCHANGED userspace
StopTunnel == Call(manager, "stop", "take") /\ UNCHANGED userspace
StartTunnel == Call(manager, "start", "tunneld") /\ userspace' = FALSE

\* A tunnel is up already (the engine's status can be behind), tunneld comes
\* up, or it does not, for want of administrator rights or of a device.
Tunneld ==
    /\ pc[manager] = "tunneld"
    /\ \/ endpoint # None /\ Return(manager) /\ UNCHANGED endpoint
       \/ endpoint = None /\ "up" \in outcomes /\ Return(manager) /\ endpoint' \in Endpoints
       \/ endpoint = None /\ "fails" \in outcomes /\ Goto(manager, "take")
          /\ UNCHANGED <<endpoint, local>>
    /\ UNCHANGED <<userspace, driver, made, session, count>>

\* takeLocationSession, and what each of its callers does with the answer.
AfterTake(what, s) ==
    CASE what = "clear" -> IF s = NoSession THEN "tunnel" ELSE "send"
      [] what = "stop"  -> IF s = NoSession THEN "forget" ELSE "sendstop"
      [] what = "start" -> IF s = NoSession THEN "boot" ELSE "kill"

Take(p) ==
    /\ pc[p] = "take" /\ locMu = None
    /\ sess' = Set(sess, p, location) /\ location' = NoSession
    /\ Goto(p, AfterTake(op[p], location))
    /\ UNCHANGED <<tunnel, locMu, dropped, made, session, op, id, ti, box, count>>

\* A clear that opened a session for itself takes it from the driver; what it
\* takes is not looked at.
Untake(p) ==
    /\ pc[p] = "untake" /\ locMu = None
    /\ location' = NoSession /\ dropped' = dropped \union ({location} \ {sess[p], NoSession})
    /\ Goto(p, "send")
    /\ UNCHANGED <<tunnel, locMu, made, session, local, count>>

-----------------------------------------------------------------------------
(* Opening a session: locationSession and newLocationSession.              *)

\* d.Tunnel() is read before locMu is taken.
ReadTunnel(p) ==
    /\ pc[p] = "tunnel"
    /\ ti' = Set(ti, p, endpoint)
    /\ Goto(p, IF endpoint = None THEN "return" ELSE "session")
    /\ UNCHANGED <<tunnel, driver, made, session, op, sess, id, box, count>>

Opened(p) == Goto(p, IF op[p] = "clear" THEN "untake" ELSE "send")
Usable(p) == location # NoSession /\ (userspace \/ bound[location] = ti[p])

UseSession(p) ==
    /\ pc[p] = "session" /\ locMu = None /\ Usable(p)
    /\ sess' = Set(sess, p, location) /\ Opened(p)
    /\ UNCHANGED <<tunnel, driver, made, session, op, id, ti, box, count>>

RefuseUserspace(p) ==
    /\ pc[p] = "session" /\ locMu = None /\ userspace /\ location = NoSession
    /\ Goto(p, "return")
    /\ UNCHANGED <<tunnel, driver, made, session, local, count>>

\* A session bound to an endpoint the tunnel has left is killed first.
MutDrop == UNCHANGED <<session, box>>
Drop == IF location = NoSession THEN UNCHANGED <<session, box>> ELSE Kill(location)

Discard(p) ==
    /\ pc[p] = "session" /\ locMu = None /\ ~userspace /\ ~Usable(p)
    /\ Drop /\ location' = NoSession /\ locMu' = p
    /\ Goto(p, "spawn")
    /\ UNCHANGED <<tunnel, dropped, made, op, sess, id, ti, count>>

\* The worker starts: under locMu for a kernel tunnel, under no lock ("boot")
\* when it is to be the tunnel itself.
Spawn(p) ==
    /\ pc[p] \in {"spawn", "boot"} /\ made < MaxSessions
    /\ made' = made + 1
    /\ sess' = Set(sess, p, made')
    /\ bound' = Set(bound, made', IF pc[p] = "boot" THEN InProcess ELSE ti[p])
    /\ worker' = Set(worker, made', "starting")
    /\ Goto(p, "starting")
    /\ UNCHANGED <<tunnel, driver, reading, nextID, pending, stdin, op, id, ti, box, count>>

\* Its first line arrives; a worker that is not the tunnel needs one to connect
\* to.  A session opened under locMu is published at once.
Handshake(p) ==
    /\ pc[p] = "starting" /\ (op[p] = "start" \/ {ti[p], endpoint} \subseteq Endpoints)
    /\ worker' = Set(worker, sess[p], "running") /\ reading' = Set(reading, sess[p], TRUE)
    /\ IF op[p] = "start" THEN Goto(p, "install") /\ UNCHANGED driver
       ELSE location' = sess[p] /\ locMu' = None /\ Opened(p) /\ UNCHANGED dropped
    /\ UNCHANGED <<tunnel, made, bound, nextID, pending, stdin, local, count>>

\* It exits, says no, or says nothing for workerStartTimeout and is killed;
\* or the bound on workers is reached.
MutNoHandshake(p) ==
    /\ pc[p] = "starting"
    /\ worker' = Set(worker, sess[p], "dead") /\ Goto(p, "return")
    /\ UNCHANGED <<tunnel, driver, made, bound, reading, nextID, pending, stdin, local, count>>
NoHandshake(p) ==
    /\ \/ pc[p] = "starting" /\ worker' = Set(worker, sess[p], "dead")
       \/ pc[p] \in {"spawn", "boot"} /\ made = MaxSessions /\ UNCHANGED worker
    /\ locMu' = IF locMu = p THEN None ELSE locMu
    /\ Goto(p, "return")
    /\ UNCHANGED <<tunnel, location, dropped, made, bound, reading, nextID, pending, stdin, local,
                   count>>

\* startUserspaceTunnel registers its worker, marks the mode, sets the mount.
Install ==
    /\ pc[manager] = "install" /\ locMu = None
    /\ location' = sess[manager] /\ Goto(manager, "mark")
    /\ UNCHANGED <<tunnel, locMu, dropped, made, session, local, count>>

Mark ==
    /\ pc[manager] = "mark" /\ userspace' = TRUE /\ Goto(manager, "activate")
    /\ UNCHANGED <<endpoint, driver, made, session, local, count>>

Activate ==
    /\ pc[manager] = "activate" /\ endpoint' = InProcess /\ Goto(manager, "return")
    /\ UNCHANGED <<userspace, driver, made, session, local, count>>

-----------------------------------------------------------------------------
(* A round trip on a session: roundTrip and await.                         *)

\* A request written once the worker reads no more counts as not written.
Send(p) ==
    /\ pc[p] \in {"send", "sendstop"} /\ worker[sess[p]] = "running"
    /\ LET s == sess[p]
           i == nextID[s] + 1
           act == IF pc[p] = "sendstop" THEN "stop" ELSE op[p] IN
         /\ nextID' = Set(nextID, s, i)
         /\ pending' = Set(pending, s, pending[s] \union {[id |-> i, by |-> p]})
         /\ stdin' = Set(stdin, s, Append(stdin[s], [id |-> i, by |-> p, act |-> act]))
         /\ id' = Set(id, p, i)
    /\ box' = Set(box, p, NoAnswer)
    /\ Goto(p, IF pc[p] = "send" THEN "await" ELSE "awaitstop")
    /\ UNCHANGED <<tunnel, driver, made, bound, worker, reading, op, sess, ti, count>>

SendFails(p) ==
    /\ pc[p] \in {"send", "sendstop"} /\ worker[sess[p]] # "running"
    /\ Goto(p, IF pc[p] = "send" THEN "failed" ELSE "reap")
    /\ UNCHANGED <<tunnel, driver, made, session, local, count>>

\* A clear that worked goes on to stop its worker.
Answered(p) ==
    /\ pc[p] = "await" /\ box[p].kind # "none"
    /\ Goto(p, CASE ~box[p].ok -> "failed"
                 [] box[p].ok /\ op[p] = "set" -> "return"
                 [] OTHER -> "sendstop")
    /\ UNCHANGED <<tunnel, driver, made, session, local, count>>

\* stop closes stdin whatever came of its request.
CloseStdin(s) ==
    worker' = IF worker[s] = "dead" THEN worker ELSE Set(worker, s, "closing")

AnsweredStop(p) ==
    /\ pc[p] = "awaitstop" /\ box[p].kind # "none"
    /\ CloseStdin(sess[p]) /\ Goto(p, "reap")
    /\ UNCHANGED <<tunnel, driver, made, bound, reading, nextID, pending, stdin, local, count>>

\* The caller's deadline; StopTunnel has one of its own.  The answer may be
\* there as well: select takes either.  A set leaves its session as it is.
HasDeadline(p) == p \notin Patient

Timeout(p) ==
    /\ HasDeadline(p) /\ pc[p] \in {"await", "awaitstop"}
    /\ pending' = Set(pending, sess[p], {w \in pending[sess[p]] : w.by # p})
    /\ IF pc[p] = "awaitstop" THEN CloseStdin(sess[p]) ELSE UNCHANGED worker
    /\ Goto(p, CASE pc[p] = "awaitstop" -> "reap"
                 [] pc[p] = "await" /\ op[p] = "set" -> "return"
                 [] OTHER -> "failed")
    /\ UNCHANGED <<tunnel, driver, made, bound, reading, nextID, stdin, local, count>>

\* A set that failed kills its session, if it is still the driver's; locMu is
\* held meanwhile.  A clear that failed kills the session it took.
Invalidate(p) ==
    /\ pc[p] = "failed" /\ op[p] = "set" /\ locMu = None
    /\ IF location = sess[p] THEN Kill(sess[p]) /\ location' = NoSession
       ELSE UNCHANGED <<session, box, location>>
    /\ Goto(p, "return")
    /\ UNCHANGED <<tunnel, locMu, dropped, made, op, sess, id, ti, count>>

ForceKill(p) ==
    /\ \/ pc[p] = "failed" /\ op[p] = "clear" /\ Goto(p, "return")
       \/ pc[p] = "kill" /\ Goto(p, "boot")
    /\ Kill(sess[p])
    /\ UNCHANGED <<tunnel, driver, made, op, sess, id, ti, count>>

\* stop waits for the process, or kills it at the deadline.
AfterStop(p) == Goto(p, IF op[p] = "stop" THEN "forget" ELSE "return")
Reap(p) ==
    /\ pc[p] = "reap" /\ AfterStop(p)
    /\ \/ worker[sess[p]] = "dead" /\ UNCHANGED <<session, box>>
       \/ worker[sess[p]] # "dead" /\ HasDeadline(p) /\ Kill(sess[p])
    /\ UNCHANGED <<tunnel, driver, made, op, sess, id, ti, count>>

\* StopTunnel leaves the userspace mode, then the mount.
Forget ==
    /\ pc[manager] = "forget" /\ userspace' = FALSE /\ Goto(manager, "unmount")
    /\ UNCHANGED <<endpoint, driver, made, session, local, count>>

Unmount ==
    /\ pc[manager] = "unmount" /\ endpoint' = None /\ Goto(manager, "return")
    /\ UNCHANGED <<userspace, driver, made, session, local, count>>

Returns(p) ==
    /\ pc[p] = "return" /\ Return(p)
    /\ UNCHANGED <<tunnel, driver, made, session, count>>

-----------------------------------------------------------------------------
Step(p) ==
    \/ Take(p) \/ Untake(p)
    \/ ReadTunnel(p) \/ UseSession(p) \/ RefuseUserspace(p) \/ Discard(p)
    \/ Spawn(p) \/ Handshake(p) \/ NoHandshake(p)
    \/ Send(p) \/ SendFails(p) \/ Answered(p) \/ AnsweredStop(p) \/ Timeout(p)
    \/ Invalidate(p) \/ ForceKill(p) \/ Reap(p) \/ Returns(p)

Manage == Tunneld \/ Install \/ Mark \/ Activate \/ Forget \/ Unmount

Next ==
    \/ \E p \in Injectors : SetLocation(p) \/ ClearLocation(p)
    \/ StartTunnel \/ StopTunnel \/ Manage
    \/ \E p \in Procs : Step(p)
    \/ \E s \in Sessions : Answer(s) \/ Exit(s) \/ Dies(s) \/ Garbage(s)
    \/ EndpointMoves

Spec == Init /\ [][Next]_vars

\* A mutex is given to every goroutine that keeps asking for it; a worker
\* answers within ACTION_TIMEOUT_SECONDS (location_worker.py) and ends when
\* its input does.
Locks(p) == Take(p) \/ Untake(p) \/ UseSession(p) \/ RefuseUserspace(p) \/ Discard(p)
            \/ Invalidate(p)

Fairness ==
    /\ \A p \in Procs : WF_vars(Step(p)) /\ SF_vars(Locks(p))
    /\ WF_vars(Manage) /\ SF_vars(Install)
    /\ \A s \in Sessions : WF_vars(Answer(s)) /\ WF_vars(Exit(s))

FairSpec == Spec /\ Fairness

-----------------------------------------------------------------------------
(* Properties.                                                             *)

Calling(p) == pc[p] # "idle"

\* Types, with the lock's holder and its session where the code has them.
TypeOK ==
    /\ endpoint \in Endpoints \union {InProcess, None} /\ userspace \in BOOLEAN
    /\ location \in 0 .. made /\ locMu \in Procs \union {None} /\ dropped \subseteq Sessions
    /\ made \in 0 .. MaxSessions
    /\ \A s \in Sessions :
         /\ bound[s] \in Endpoints \union {InProcess, None} /\ nextID[s] \in Nat
         /\ worker[s] \in {"none", "starting", "running", "closing", "dead"}
         /\ reading[s] => worker[s] \in {"running", "closing"}
         /\ pending[s] \subseteq [id : 1 .. nextID[s], by : Procs]
         /\ worker[s] = "none" <=> s > made
    /\ \A p \in Procs :
         /\ op[p] \in Ops \union {None} /\ ti[p] \in Endpoints \union {InProcess, None}
         /\ sess[p] \in 0 .. made /\ id[p] \in Nat
         /\ pc[p] \in {"spawn", "starting"} /\ op[p] # "start" => locMu = p
    /\ locMu # None => pc[locMu] \in {"spawn", "starting"}

\* location_session.go:156-159 "a response is always matched to the request
\* that asked for it": whatever was abandoned on the way, the answer a caller
\* reads was made for its own latest request.
AnswersMatch ==
    \A p \in Procs : box[p].kind = "answer" => box[p].by = p /\ box[p].id = id[p]

\* location.go:46 "closes the persistent DVT worker", userspace.go:51 "the two
\* never hold a userspace tunnel at the same time": whoever sets, clears, starts and
\* stops meanwhile, a worker that runs is the driver's, or in the hands of a call
\* that has not returned, or a clear that opened another one took it without looking.
NoOrphanWorkers ==
    \A s \in Sessions : worker[s] = "running" =>
        \/ s = location \/ s \in dropped
        \/ \E p \in Procs : Calling(p) /\ sess[p] = s

\* False: the worker a clear takes without looking goes on (location.go:57), and
\* with it the position that clear was to remove.
NoWorkerIsDropped ==
    \A s \in dropped : worker[s] = "running" => \E p \in Procs : Calling(p) /\ sess[p] = s

\* Whatever a worker prints: false, see EveryCallReturns.
CallsReturn == \A p \in Procs : Calling(p) ~> ~Calling(p)

\* location_session.go:209 "failPending wakes every waiter": every call into
\* the driver returns, whichever goroutine starts a worker under locMu and
\* whatever becomes of the workers, as long as no reader gives up on a worker
\* that lives.
EveryCallReturns ==
    [](\A s \in Sessions : worker[s] = "running" => reading[s]) => CallsReturn

\* location.go:29 "so the next call opens a fresh DVT connection": while the
\* driver reports a tunnel, a set is not refused for want of a session.
FreshSessionOpens ==
    [][\A p \in Procs : RefuseUserspace(p) => endpoint = None]_vars

\* pmd3.go:47 "userspace is set once StartTunnel has fallen back": between
\* calls, a tunnel inside a worker is known to be one.
UserspaceIsRemembered ==
    endpoint = InProcess /\ ~Calling(manager) => userspace
=============================================================================
