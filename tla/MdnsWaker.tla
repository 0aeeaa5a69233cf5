------------------------------ MODULE MdnsWaker -----------------------------
(***************************************************************************)
(* The passive mDNS browses that keep an iPhone discoverable               *)
(* (engine/internal/discovery/wake.go) and the two ways to start them:     *)
(* once at boot under the engine's context, and from RestartMdns under the *)
(* context of a request, which dispatch cancels when the call returns      *)
(* (engine/mdns_wake.go, engine_maintenance.go, server/dispatch.go).       *)
(*                                                                         *)
(* Every Start that finds the browse tool makes a run: a context, one      *)
(* browse loop per service and a health record they share.                 *)
(***************************************************************************)
EXTENDS Naturals, FiniteSets

CONSTANTS
    Callers,   \* goroutines that may call Start at the same time
    Services,  \* AppleMDNSServices
    DelayMin,  \* browseRestartDelay (2 s)
    DelayMax,  \* browseRestartMax (60 s)
    Threshold, \* failuresBeforeWarning (3)
    MaxRuns    \* bound: runs made

WakerAssumption ==
    /\ DelayMin \in Nat \ {0} /\ DelayMax \in Nat /\ DelayMin <= DelayMax
    /\ Threshold \in Nat \ {0} /\ MaxRuns \in Nat

Runs == 1 .. MaxRuns
NoRun == 0

VARIABLES
    current,  \* w.cancel and w.done: the run they belong to, or NoRun
    made,     \* runs made so far
    ended,    \* the runs whose context is done
    loop,     \* per run and service: the step of its browse loop
    delay,    \* per run and service: the pause after the next failure
    failures, \* per run: health.failures, counted up to Threshold
    warned,   \* per run: health.warned
    told,     \* per run: the last message its logger got, or "none"
    pc,       \* per caller: the step of Start or Stop it is at
    kind,     \* per caller: "boot" or "restart"
    over,     \* per caller: the context it passes is done
    stopping, \* per caller: the run Stop took and waits for
    mine,     \* per caller: the run its Start made
    overlapped \* history: the runs made between another caller's Stop and its new run

runVars == <<loop, delay, failures, warned, told>>
callVars == <<pc, kind, over, stopping, mine>>
vars == <<current, made, ended, runVars, callVars, overlapped>>

LoopSteps == {"unborn", "check", "browsing", "warn", "recover", "pause", "done"}

TypeOK ==
    /\ current \in Runs \union {NoRun} /\ made \in 0 .. MaxRuns /\ ended \subseteq Runs
    /\ loop \in [Runs -> [Services -> LoopSteps]]
    /\ delay \in [Runs -> [Services -> DelayMin .. DelayMax]]
    /\ failures \in [Runs -> 0 .. Threshold] /\ warned \in [Runs -> BOOLEAN]
    /\ told \in [Runs -> {"none", "failing", "recovered"}]
    /\ pc \in [Callers -> {"idle", "stop", "wait", "begin", "return"}]
    /\ kind \in [Callers -> {"boot", "restart"}] /\ over \in [Callers -> BOOLEAN]
    /\ stopping \in [Callers -> Runs \union {NoRun}]
    /\ mine \in [Callers -> Runs \union {NoRun}] /\ overlapped \subseteq Runs

Init ==
    /\ current = NoRun /\ made = 0 /\ ended = {}
    /\ loop = [r \in Runs |-> [s \in Services |-> "unborn"]]
    /\ delay = [r \in Runs |-> [s \in Services |-> DelayMin]]
    /\ failures = [r \in Runs |-> 0] /\ warned = [r \in Runs |-> FALSE]
    /\ told = [r \in Runs |-> "none"]
    /\ pc = [p \in Callers |-> "idle"] /\ kind = [p \in Callers |-> "restart"]
    /\ over = [p \in Callers |-> FALSE]
    /\ stopping = [p \in Callers |-> NoRun] /\ mine = [p \in Callers |-> NoRun]
    /\ overlapped = {}

Goto(p, step) == pc' = [pc EXCEPT ![p] = step]
Step(r, s, step) == loop' = [loop EXCEPT ![r][s] = step]

-----------------------------------------------------------------------------
(* Start and Stop.                                                         *)

\* run.go calls StartMdnsWake once, when the server already listens; RestartMdns, in
\* a goroutine of its own, calls it after it restarted the operating system's
\* responder, however that went.
Call(p) ==
    /\ pc[p] = "idle" /\ kind[p] = "restart"
    /\ \E k \in {"boot", "restart"} :
         /\ k = "boot" => \A q \in Callers : kind[q] = "restart"
         /\ kind' = [kind EXCEPT ![p] = k]
    /\ over' = [over EXCEPT ![p] = FALSE]
    /\ mine' = [mine EXCEPT ![p] = NoRun]
    /\ Goto(p, "stop")
    /\ UNCHANGED <<current, made, ended, runVars, stopping, overlapped>>

\* Stop takes the cancel function and the done channel, and cancels.
MutStop(p) ==
    /\ pc[p] = "stop"
    /\ stopping' = [stopping EXCEPT ![p] = NoRun]
    /\ UNCHANGED <<current, ended>>
    /\ Goto(p, "begin")
    /\ UNCHANGED <<made, runVars, kind, over, mine, overlapped>>
Stop(p) ==
    /\ pc[p] = "stop"
    /\ current' = NoRun
    /\ stopping' = [stopping EXCEPT ![p] = current]
    /\ ended' = IF current = NoRun THEN ended ELSE ended \union {current}
    /\ Goto(p, IF current = NoRun THEN "begin" ELSE "wait")
    /\ UNCHANGED <<made, runVars, kind, over, mine, overlapped>>

Drained(r) == \A s \in Services : loop[r][s] = "done"

\* It waits for the loops of that run, for five seconds at most.
Wait(p) ==
    /\ pc[p] = "wait" /\ Drained(stopping[p])
    /\ Goto(p, "begin") /\ stopping' = [stopping EXCEPT ![p] = NoRun]
    /\ UNCHANGED <<current, made, ended, runVars, kind, over, mine, overlapped>>
WaitTimesOut(p) ==
    /\ pc[p] = "wait" /\ ~Drained(stopping[p])
    /\ Goto(p, "begin") /\ stopping' = [stopping EXCEPT ![p] = NoRun]
    /\ UNCHANGED <<current, made, ended, runVars, kind, over, mine, overlapped>>

\* No browse tool on this machine.
ToolMissing(p) ==
    /\ pc[p] = "begin" /\ Goto(p, "return")
    /\ UNCHANGED <<current, made, ended, runVars, kind, over, stopping, mine, overlapped>>

\* A caller that has stopped the previous run and has not made its own.
Replacing(q) == pc[q] \in {"wait", "begin"}

\* The new run replaces whatever w.cancel and w.done hold by now.
Begin(p) ==
    /\ pc[p] = "begin" /\ made < MaxRuns
    /\ LET r == made + 1 IN
         /\ made' = r /\ current' = r
         /\ mine' = [mine EXCEPT ![p] = r]
         /\ ended' = IF over[p] THEN ended \union {r} ELSE ended
         /\ loop' = [loop EXCEPT ![r] = [s \in Services |-> "check"]]
         /\ overlapped' = IF \E q \in Callers \ {p} : Replacing(q)
                          THEN overlapped \union {r} ELSE overlapped
    /\ Goto(p, "return")
    /\ UNCHANGED <<delay, failures, warned, told, kind, over, stopping>>

EndMine(p) == ended' = IF mine[p] = NoRun THEN ended ELSE ended \union {mine[p]}

\* dispatchRestartMdns cancels the context it made; boot's is the engine's.
Return(p) ==
    /\ pc[p] = "return"
    /\ IF kind[p] = "restart" THEN EndMine(p) ELSE UNCHANGED ended
    /\ Goto(p, "idle")
    /\ UNCHANGED <<current, made, runVars, kind, over, stopping, mine, overlapped>>

\* The request's deadline, or the end of the engine.
ContextEnds(p) ==
    /\ pc[p] # "idle" \/ (kind[p] = "boot" /\ mine[p] # NoRun)
    /\ ~over[p] /\ over' = [over EXCEPT ![p] = TRUE]
    /\ EndMine(p)
    /\ UNCHANGED <<current, made, runVars, pc, kind, stopping, mine, overlapped>>

-----------------------------------------------------------------------------
(* browseLoop, one per run and service.                                    *)

Spawn(r, s) ==
    /\ loop[r][s] = "check" /\ r \notin ended
    /\ Step(r, s, "browsing")
    /\ UNCHANGED <<current, made, ended, delay, failures, warned, told, callVars, overlapped>>

\* The context is looked at before a browse, after it, and while pausing; the
\* end of the context kills a browse under way.
Leave(r, s) ==
    /\ r \in ended /\ loop[r][s] \in {"check", "browsing", "pause"}
    /\ Step(r, s, "done") /\ delay' = [delay EXCEPT ![r][s] = DelayMin]
    /\ UNCHANGED <<current, made, ended, failures, warned, told, callVars, overlapped>>

\* A browse that lasted: the next pause is short, and the outage is over.
RecordSuccess(r, s) ==
    /\ loop[r][s] = "browsing" /\ r \notin ended
    /\ delay' = [delay EXCEPT ![r][s] = DelayMin]
    /\ failures' = [failures EXCEPT ![r] = 0]
    /\ warned' = [warned EXCEPT ![r] = FALSE]
    /\ Step(r, s, IF warned[r] THEN "recover" ELSE "pause")
    /\ UNCHANGED <<current, made, ended, told, callVars, overlapped>>

\* delay *= 2, up to browseRestartMax.
MutBackoff(n) == IF n > DelayMax THEN DelayMax ELSE 2 * n
Backoff(n) == IF 2 * n > DelayMax THEN DelayMax ELSE 2 * n

\* One that ended at once: longer pauses, and one warning per outage.
RecordFailure(r, s) ==
    /\ loop[r][s] = "browsing" /\ r \notin ended
    /\ LET n == IF failures[r] < Threshold THEN failures[r] + 1 ELSE Threshold
           shouldWarn == n >= Threshold /\ ~warned[r] IN
         /\ failures' = [failures EXCEPT ![r] = n]
         /\ warned' = [warned EXCEPT ![r] = warned[r] \/ shouldWarn]
         /\ delay' = [delay EXCEPT ![r][s] = Backoff(@)]
         /\ Step(r, s, IF shouldWarn THEN "warn" ELSE "pause")
    /\ UNCHANGED <<current, made, ended, told, callVars, overlapped>>

\* The logger is called after the health record's mutex was released.
Tell(r, s) ==
    /\ loop[r][s] \in {"warn", "recover"}
    /\ told' = [told EXCEPT ![r] = IF loop[r][s] = "warn" THEN "failing" ELSE "recovered"]
    /\ Step(r, s, "pause")
    /\ UNCHANGED <<current, made, ended, delay, failures, warned, callVars, overlapped>>

PauseEnds(r, s) ==
    /\ loop[r][s] = "pause"
    /\ Step(r, s, "check")
    /\ UNCHANGED <<current, made, ended, delay, failures, warned, told, callVars, overlapped>>

-----------------------------------------------------------------------------
Caller(p) ==
    \/ Stop(p) \/ Wait(p) \/ WaitTimesOut(p) \/ ToolMissing(p) \/ Begin(p) \/ Return(p)
Loop(r, s) ==
    \/ Spawn(r, s) \/ Leave(r, s) \/ RecordSuccess(r, s) \/ RecordFailure(r, s)
    \/ Tell(r, s) \/ PauseEnds(r, s)

Next ==
    \/ \E p \in Callers : Call(p) \/ Caller(p) \/ ContextEnds(p)
    \/ \E r \in Runs, s \in Services : Loop(r, s)

Spec == Init /\ [][Next]_vars

-----------------------------------------------------------------------------
(* Properties.                                                             *)

Live == {r \in Runs : r <= made /\ r \notin ended}
Past == {r \in Runs : r <= made /\ r \in ended}

R == INSTANCE SingleRun WITH live <- Live \ overlapped, past <- Past \ overlapped

\* Starting again replaces the previous run (wake.go:57-60), whatever became of the
\* contexts in between and however many callers start: every run is over by the
\* time the next one begins.  Set aside is a run made while another caller stood
\* between its Stop, which could not take that run, and its own.
StartReplaces == R!Spec

-----------------------------------------------------------------------------
(* What the sources say, and the code does not do.                         *)

\* Starting again "replaces the previous run rather than adding to it"
\* (wake.go:58): of two callers that overlap, the second to begin overwrites the
\* cancel function of the first, and no Stop can end that run any more.
NoRunIsOverwritten == \A r \in Live : r = current

\* RestartMdns "triggers mDNS wake" (engine_maintenance.go:93): the run it
\* started has ended by the time its result is sent.
RestartKeepsBrowsing ==
    \A p \in Callers :
        kind[p] = "restart" /\ pc[p] = "idle" /\ mine[p] # NoRun /\ mine[p] = current /\ ~over[p]
            => mine[p] \in Live

\* "Exactly one warning and exactly one recovery message" per outage
\* (wake.go:176-177): sent outside the mutex, they may arrive in the other order.
LastMessageIsTrue ==
    \A r \in Live :
        (\A s \in Services : loop[r][s] \notin {"warn", "recover"})
            => ((told[r] = "failing") <=> warned[r])
=============================================================================
