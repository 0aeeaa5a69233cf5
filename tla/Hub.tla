-------------------------------- MODULE Hub ---------------------------------
(***************************************************************************)
(* The WebSocket side of the engine's server (engine/internal/server):     *)
(* the hub that fans events out (hub.go), the two goroutines of every      *)
(* connection (websocket.go), what dispatch sends back (dispatch.go), the  *)
(* telemetry loop and the shutdown (server.go).                            *)
(*                                                                         *)
(* A connection is used once.  Its queue c.send has SendCap places; the    *)
(* hub closes it when the connection leaves, and in Go a send on a closed  *)
(* queue panics: in the handler's goroutine net/http recovers, in any      *)
(* other the process dies.  What the engine does with a request is left to *)
(* the other modules: here it answers, works in the background, or is      *)
(* silent.  Byte and drop counters, which only feed figures, are left out. *)
(***************************************************************************)
EXTENDS Integers, Sequences, FiniteSets

CONSTANTS
    Conns,        \* connections
    Emitters,     \* goroutines of the engine that change the status and emit
    SendCap,      \* places in c.send (16)
    BroadcastCap, \* places in hub.broadcastC (64)
    Burst,        \* tokens of a connection's rate limiter (20)
    MaxChanges,   \* bound: status changes
    MaxRequests   \* bound: messages a connection's peer sends

HubAssumption ==
    /\ SendCap \in Nat \ {0} /\ BroadcastCap \in Nat \ {0} /\ Burst \in Nat \ {0}
    /\ MaxChanges \in Nat /\ MaxRequests \in Nat
    /\ IsFiniteSet(Conns)

VARIABLES
    clients,    \* hub.clients
    broadcastC, \* hub.broadcastC
    hub,        \* "running", "stopping": Shutdown was called, "done"
    crashed,    \* the process died of a panic
    send,       \* per connection: what c.send holds
    closed,     \* per connection: c.send is closed
    conn,       \* per connection: "none", "open" or "closed"
    peer,       \* per connection: whether the other side still answers
    tokens,     \* per connection: c.limiter
    reader,     \* per connection: the step its handler (handleWS, readPump) is at
    writer,     \* per connection: writePump: "none", "running" or "done"
    asked,      \* per connection: messages read
    jobs,       \* per connection: background actions that will answer it
    version,    \* the engine's status: how often it changed
    snapshot,   \* per emitter: the version it is about to broadcast, or 0
    greeting,   \* per connection: the version eng.Status() returned
    fanned,     \* history: versions fanned out
    from,       \* history, per connection: Len(fanned) when it registered
    got         \* history, per connection: versions its peer received as events

hubVars == <<clients, broadcastC, hub, crashed>>
queueVars == <<send, closed>>
connVars == <<conn, peer, tokens>>
procVars == <<reader, writer, asked, jobs>>
engineVars == <<version, snapshot>>
history == <<fanned, from, got>>
vars == <<hubVars, queueVars, connVars, procVars, engineVars, greeting, history>>

Versions == 1 .. MaxChanges
Status(v) == [kind |-> "status", ver |-> v]
Greeting(v) == [kind |-> "greeting", ver |-> v]
Tick == [kind |-> "telemetry", ver |-> 0]
Reply == [kind |-> "reply", ver |-> 0]
Message == [kind : {"status", "greeting", "telemetry", "reply"}, ver : 0 .. MaxChanges]

TypeOK ==
    /\ clients \subseteq Conns
    /\ broadcastC \in Seq(Message) /\ Len(broadcastC) <= BroadcastCap
    /\ hub \in {"running", "stopping", "done"} /\ crashed \in BOOLEAN
    /\ send \in [Conns -> Seq(Message)] /\ \A c \in Conns : Len(send[c]) <= SendCap
    /\ closed \in [Conns -> BOOLEAN]
    /\ conn \in [Conns -> {"none", "open", "closed"}] /\ peer \in [Conns -> BOOLEAN]
    /\ tokens \in [Conns -> 0 .. Burst]
    /\ reader \in [Conns -> {"idle", "register", "status", "greet", "read", "reply",
                             "limited", "unregister", "done"}]
    /\ writer \in [Conns -> {"none", "running", "done"}]
    /\ asked \in [Conns -> 0 .. MaxRequests] /\ jobs \in [Conns -> 0 .. MaxRequests]
    /\ version \in 0 .. MaxChanges /\ snapshot \in [Emitters -> 0 .. MaxChanges]
    /\ greeting \in [Conns -> 0 .. MaxChanges]
    /\ fanned \in Seq(Versions) /\ from \in [Conns -> Int]
    /\ got \in [Conns -> Seq(Versions)]

Init ==
    /\ clients = {} /\ broadcastC = <<>> /\ hub = "running" /\ crashed = FALSE
    /\ send = [c \in Conns |-> <<>>] /\ closed = [c \in Conns |-> FALSE]
    /\ conn = [c \in Conns |-> "none"] /\ peer = [c \in Conns |-> TRUE]
    /\ tokens = [c \in Conns |-> Burst]
    /\ reader = [c \in Conns |-> "idle"] /\ writer = [c \in Conns |-> "none"]
    /\ asked = [c \in Conns |-> 0] /\ jobs = [c \in Conns |-> 0]
    /\ version = 0 /\ snapshot = [e \in Emitters |-> 0]
    /\ greeting = [c \in Conns |-> 0]
    /\ fanned = <<>> /\ from = [c \in Conns |-> -1]
    /\ got = [c \in Conns |-> <<>>]

Set(f, x, v) == [f EXCEPT ![x] = v]
Goto(c, step) == reader' = Set(reader, c, step)

-----------------------------------------------------------------------------
(* The engine: emitStatusLocked takes its snapshot under e.mu, unlocks and *)
(* then broadcasts; the broadcast blocks while the hub's queue is full.    *)

Change(e) ==
    /\ snapshot[e] = 0 /\ version < MaxChanges
    /\ version' = version + 1
    /\ snapshot' = Set(snapshot, e, version + 1)
    /\ UNCHANGED <<hubVars, queueVars, connVars, procVars, greeting, history>>

\* hub.broadcast: into the queue, or nowhere once the hub has returned.
Broadcast(msg) ==
    \/ Len(broadcastC) < BroadcastCap /\ broadcastC' = Append(broadcastC, msg)
    \/ hub = "done" /\ UNCHANGED broadcastC

Emit(e) ==
    /\ snapshot[e] # 0
    /\ Broadcast(Status(snapshot[e]))
    /\ snapshot' = Set(snapshot, e, 0)
    /\ UNCHANGED <<clients, hub, crashed, queueVars, connVars, procVars, version,
                   greeting, history>>

\* runTelemetry broadcasts at every tick until the server shuts down.
Telemetry ==
    /\ hub = "running" /\ Broadcast(Tick)
    /\ UNCHANGED <<clients, hub, crashed, queueVars, connVars, procVars, engineVars,
                   greeting, history>>

-----------------------------------------------------------------------------
(* The hub.                                                                *)

\* Each client gets the message; one whose queue is full is dropped instead.
\* (The bug: it is merely passed over.)
MutFanOut ==
    /\ hub # "done" /\ broadcastC # <<>>
    /\ LET msg == Head(broadcastC)
           full == {c \in clients : Len(send[c]) = SendCap} IN
         /\ send' = [c \in Conns |-> IF c \in clients \ full THEN Append(send[c], msg)
                                     ELSE send[c]]
         /\ fanned' = IF msg.kind = "status" THEN Append(fanned, msg.ver) ELSE fanned
         /\ UNCHANGED <<clients, closed>>
    /\ broadcastC' = Tail(broadcastC)
    /\ UNCHANGED <<hub, crashed, connVars, procVars, engineVars, greeting, from, got>>
FanOut ==
    /\ hub # "done" /\ broadcastC # <<>>
    /\ LET msg == Head(broadcastC)
           full == {c \in clients : Len(send[c]) = SendCap} IN
         /\ send' = [c \in Conns |-> IF c \in clients \ full THEN Append(send[c], msg)
                                     ELSE send[c]]
         /\ clients' = clients \ full
         /\ closed' = [c \in Conns |-> closed[c] \/ c \in full]
         /\ fanned' = IF msg.kind = "status" THEN Append(fanned, msg.ver) ELSE fanned
    /\ broadcastC' = Tail(broadcastC)
    /\ UNCHANGED <<hub, crashed, connVars, procVars, engineVars, greeting, from, got>>

\* Shutdown cancels the hub's context; the HTTP server's own shutdown leaves
\* upgraded connections alone, and so does the hub.
Shutdown ==
    /\ hub = "running" /\ hub' = "stopping"
    /\ UNCHANGED <<clients, broadcastC, crashed, queueVars, connVars, procVars,
                   engineVars, greeting, history>>
HubReturns ==
    /\ hub = "stopping" /\ hub' = "done"
    /\ UNCHANGED <<clients, broadcastC, crashed, queueVars, connVars, procVars,
                   engineVars, greeting, history>>

-----------------------------------------------------------------------------
(* handleWS: upgrade, register, read the status, greet, start the pumps.   *)

Upgrade(c) ==
    /\ reader[c] = "idle"
    /\ conn' = Set(conn, c, "open") /\ Goto(c, "register")
    /\ UNCHANGED <<hubVars, queueVars, peer, tokens, writer, asked, jobs, engineVars,
                   greeting, history>>

\* registerClient: the hub takes the connection, or has returned.
Register(c) ==
    /\ reader[c] = "register"
    /\ \/ /\ hub # "done" /\ clients' = clients \union {c}
          /\ from' = Set(from, c, Len(fanned))
       \/ hub = "done" /\ UNCHANGED <<clients, from>>
    /\ Goto(c, "status")
    /\ UNCHANGED <<broadcastC, hub, crashed, queueVars, connVars, writer, asked, jobs,
                   engineVars, greeting, fanned, got>>

\* The status is read after the registration, so that what changes later is
\* an event the connection gets.
ReadStatus(c) ==
    /\ reader[c] = "status"
    /\ greeting' = Set(greeting, c, version)
    /\ Goto(c, "greet")
    /\ UNCHANGED <<hubVars, queueVars, connVars, writer, asked, jobs, engineVars, history>>

\* c.send <- msg, by the handler: it blocks on a full queue and panics on a
\* closed one.
Enqueue(c, msg) ==
    /\ ~closed[c] /\ Len(send[c]) < SendCap
    /\ send' = Set(send, c, Append(send[c], msg)) /\ UNCHANGED closed

Greet(c) ==
    /\ reader[c] = "greet"
    /\ \/ /\ Enqueue(c, Greeting(greeting[c]))
          /\ writer' = Set(writer, c, "running") /\ Goto(c, "read")
       \* Recovered by net/http.  No deferred call closes the connection yet.
       \/ closed[c] /\ Goto(c, "done") /\ UNCHANGED <<queueVars, writer>>
    /\ UNCHANGED <<hubVars, connVars, asked, jobs, engineVars, greeting, history>>

-----------------------------------------------------------------------------
(* readPump and dispatch.                                                  *)

Refill(c) ==
    /\ conn[c] = "open" /\ tokens[c] < Burst
    /\ tokens' = Set(tokens, c, tokens[c] + 1)
    /\ UNCHANGED <<hubVars, queueVars, conn, peer, procVars, engineVars, greeting, history>>

\* One message: over the rate, or dispatched to something that answers, that
\* works in the background and answers later, or that answers nothing.
Dispatch(c) ==
    \/ Goto(c, "reply") /\ UNCHANGED jobs
    \/ jobs' = Set(jobs, c, jobs[c] + 1) /\ UNCHANGED reader
    \/ UNCHANGED <<reader, jobs>>

Read(c) ==
    /\ reader[c] = "read" /\ conn[c] = "open" /\ peer[c] /\ asked[c] < MaxRequests
    /\ asked' = Set(asked, c, asked[c] + 1)
    /\ IF tokens[c] > 0
       THEN tokens' = Set(tokens, c, tokens[c] - 1) /\ Dispatch(c)
       ELSE Goto(c, "limited") /\ UNCHANGED <<tokens, jobs>>
    /\ UNCHANGED <<hubVars, queueVars, conn, peer, writer, engineVars, greeting, history>>

\* The answer of dispatch, or the notice that the limit was exceeded.  A panic
\* here runs readPump's deferred calls, like a return.
Answer(c) ==
    /\ reader[c] \in {"reply", "limited"}
    /\ \/ Enqueue(c, Reply) /\ Goto(c, IF reader[c] = "reply" THEN "read" ELSE "unregister")
       \/ closed[c] /\ Goto(c, "unregister") /\ UNCHANGED queueVars
    /\ UNCHANGED <<hubVars, connVars, writer, asked, jobs, engineVars, greeting, history>>

\* A closed connection, or a peer silent for pongWait, ends ReadMessage.
ReadFails(c) ==
    /\ reader[c] = "read" /\ (conn[c] = "closed" \/ ~peer[c])
    /\ Goto(c, "unregister")
    /\ UNCHANGED <<hubVars, queueVars, connVars, writer, asked, jobs, engineVars,
                   greeting, history>>

\* The deferred calls of readPump: unregisterClient, unless the hub has
\* returned, and conn.Close.
Unregister(c) ==
    /\ reader[c] = "unregister"
    /\ \/ /\ hub # "done" /\ clients' = clients \ {c}
          /\ closed' = Set(closed, c, closed[c] \/ c \in clients)
       \/ hub = "done" /\ UNCHANGED <<clients, closed>>
    /\ conn' = Set(conn, c, "closed") /\ Goto(c, "done")
    /\ UNCHANGED <<broadcastC, hub, crashed, send, peer, tokens, writer, asked, jobs,
                   engineVars, greeting, history>>

\* dispatchRestartServices, -Tunnel, -Mdns: the result goes to the queue of the
\* connection that asked, whatever became of it.
JobAnswers(c) ==
    /\ jobs[c] > 0
    /\ \/ Enqueue(c, Reply) /\ UNCHANGED crashed
       \/ closed[c] /\ crashed' = TRUE /\ UNCHANGED queueVars
    /\ jobs' = Set(jobs, c, jobs[c] - 1)
    /\ UNCHANGED <<clients, broadcastC, hub, connVars, reader, writer, asked, engineVars,
                   greeting, history>>

-----------------------------------------------------------------------------
(* writePump, the only writer of the connection.                           *)

StopWriting(c) == writer' = Set(writer, c, "done") /\ conn' = Set(conn, c, "closed")

\* What was queued before the queue was closed is still written.
Write(c) ==
    /\ writer[c] = "running" /\ send[c] # <<>>
    /\ LET msg == Head(send[c]) IN
         /\ send' = Set(send, c, Tail(send[c]))
         /\ \/ /\ conn[c] = "open" /\ peer[c]
               /\ got' = IF msg.kind = "status" THEN Set(got, c, Append(got[c], msg.ver)) ELSE got
               /\ UNCHANGED <<conn, writer>>
            \/ /\ conn[c] = "closed" \/ ~peer[c]
               /\ StopWriting(c) /\ UNCHANGED got
    /\ UNCHANGED <<hubVars, closed, peer, tokens, reader, asked, jobs, engineVars, greeting,
                   fanned, from>>

\* The end of a closed queue, or a ping that fails.
WriterEnds(c) ==
    /\ writer[c] = "running"
    /\ \/ closed[c] /\ send[c] = <<>>
       \/ conn[c] = "closed" \/ ~peer[c]
    /\ StopWriting(c)
    /\ UNCHANGED <<hubVars, queueVars, peer, tokens, reader, asked, jobs, engineVars,
                   greeting, history>>

\* A laptop that sleeps, a network that drops.
PeerGoes(c) ==
    /\ conn[c] = "open" /\ peer[c]
    /\ peer' = Set(peer, c, FALSE)
    /\ UNCHANGED <<hubVars, queueVars, conn, tokens, procVars, engineVars, greeting, history>>

-----------------------------------------------------------------------------
Handler(c) ==
    \/ Register(c) \/ ReadStatus(c) \/ Greet(c) \/ Answer(c) \/ ReadFails(c) \/ Unregister(c)
Pump(c) == Write(c) \/ WriterEnds(c)

Next ==
    /\ ~crashed
    /\ \/ \E e \in Emitters : Change(e) \/ Emit(e)
       \/ Telemetry \/ FanOut \/ Shutdown \/ HubReturns
       \/ \E c \in Conns : \/ Upgrade(c) \/ Refill(c) \/ Read(c) \/ PeerGoes(c)
                           \/ Handler(c) \/ JobAnswers(c) \/ Pump(c)

Spec == Init /\ [][Next]_vars

\* Goroutines are scheduled, ticks come, and the hub serves its channels.
Fairness ==
    /\ WF_vars(~crashed /\ Telemetry) /\ WF_vars(~crashed /\ FanOut)
    /\ \A c \in Conns : WF_vars(~crashed /\ Handler(c)) /\ WF_vars(~crashed /\ Pump(c))

FairSpec == Spec /\ Fairness

-----------------------------------------------------------------------------
(* Properties.                                                             *)

F == INSTANCE Feed WITH
    Clients <- Conns, log <- fanned, start <- from

\* While it is connected, a client misses no status event, gets none twice and
\* none out of order: a slow one is cut off rather than passed over (hub.go:180).
FeedIsGapless == F!Spec

\* A peer that is silently gone leaves no registration and no goroutine behind,
\* whatever its handler was doing (hub.go:13-18), while the server runs.
GoneClientsLeave ==
    \A c \in Conns :
        (conn[c] # "none" /\ ~peer[c])
            ~> \/ c \notin clients /\ reader[c] = "done" /\ writer[c] # "running"
               \/ hub # "running" \/ crashed

-----------------------------------------------------------------------------
(* What the sources say, and the code does not do.                         *)

\* A new client is greeted with the current status (websocket.go:47): an event
\* may slip into its queue between the reading of the status and the greeting,
\* and the older greeting is then what it shows.
GreetingIsCurrent ==
    \A c \in Conns : \A i, j \in 1 .. Len(send[c]) :
        i < j /\ send[c][i].kind = "status" /\ send[c][j].kind = "greeting"
            => send[c][i].ver <= send[c][j].ver

\* A background action reports its outcome once done (dispatch.go:298): the
\* queue it reports to may be closed by then, and the process dies.
ResultsAreHarmless == ~crashed

\* A client the hub drops has its connection closed (hub.go:68-70): not one
\* that is dropped before it was greeted.
DroppedConnectionsClose ==
    \A c \in Conns : closed[c] ~> conn[c] = "closed" \/ crashed
=============================================================================
