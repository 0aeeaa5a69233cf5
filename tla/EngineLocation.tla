--------------------------- MODULE EngineLocation ---------------------------
(***************************************************************************)
(* The position the engine holds on the phone: who injects it, what the    *)
(* status remembers of it, and the two mechanisms that re-assert it, the   *)
(* idle keepalive (engine_health.go) and the anti-drift shield             *)
(* (engine.go).                                                            *)
(*                                                                         *)
(* Every injection is a read of the status, a driver call and a write of   *)
(* the status, with nothing locked in between; those are its steps here.   *)
(* A fix is a place, and whether the keep-alive jitter has moved it (off). *)
(*                                                                         *)
(* An operator MutX, above X, is X with a plausible bug: the properties    *)
(* tell the two apart.  Nothing else uses it.                              *)
(***************************************************************************)
EXTENDS Integers, Sequences

CONSTANTS
    Clients,      \* clients that set, clear or relance the position
    Ops,          \* what they ask for: a subset of AllOps
    keepalive,    \* the goroutine of StartKeepaliveMonitor
    companion,    \* the phone's app, which reports REAL_LOCATION
    Monitors,     \* which of those two are running
    Places,       \* places clients ask for, more than the threshold apart
    Home,         \* where the phone really is, far from all of them
    None,         \* a nil pointer
    Jitter,       \* e.st.JitterEnabled
    driftConfirmFailures, \* drift readings that confirm a drift (2)
    maxHistoryEntries,    \* length the history is cut to (20)
    MaxCalls,     \* bound: calls the clients make altogether
    MaxDrops      \* bound: times iOS drops the spoof

AllOps == {"set", "clear", "relance", "forget"}
Procs == Clients \union Monitors
Fix == [at : Places, off : 0 .. 1]

ASSUME LocationAssumption ==
    /\ Ops \subseteq AllOps /\ Monitors \subseteq {keepalive, companion}
    /\ keepalive \notin Clients /\ companion \notin Clients /\ keepalive # companion
    /\ None \notin Places \union Fix /\ Home \notin Places
    /\ Jitter \in BOOLEAN
    /\ driftConfirmFailures \in Nat \ {0} /\ maxHistoryEntries \in Nat \ {0}
    /\ MaxCalls \in Nat /\ MaxDrops \in Nat

Exactly(p) == [at |-> p, off |-> 0]
Offsets == IF Jitter THEN 0 .. 1 ELSE {0}

VARIABLES
    last,         \* e.st.LastInjectedLocation: a fix or None
    verified,     \* e.st.LastVerifiedLocation: a fix or None
    history,      \* e.st.RecentHistory: places, newest first
    state,        \* e.st.State
    active,       \* e.st.TunnelActive
    driftFailures, \* e.driftFailures, counted up to the threshold
    cooling,      \* less than the cooldown has passed since lastReinjection
    spoof,        \* the fix iOS is applying, None when it has dropped it
    up,           \* the driver reaches the phone
    reading,      \* the place the companion measured, None before any
    pc,           \* per process: the step it is about to take
    anchor,       \* per process: the fix it will record
    aim,          \* per process: the fix it will send
    calls, drops  \* the bounded environment's counters

record == <<last, verified, history>>
shield == <<driftFailures, cooling>>
phone == <<spoof, up, drops>>
local == <<anchor, aim>>
vars == <<record, state, active, shield, phone, reading, pc, local, calls>>

\* What an earlier run may have saved: capped, no place twice in a row.
SavedHistories ==
    {<<>>} \union {h \in UNION {[1 .. n -> Places] : n \in 1 .. maxHistoryEntries} :
                      \A k \in 1 .. Len(h) - 1 : h[k] # h[k + 1]}

Init ==
    /\ last = None /\ verified = None
    /\ history \in SavedHistories
    /\ state = "idle" /\ active = FALSE
    /\ driftFailures = 0 /\ cooling = FALSE
    /\ spoof = None /\ up = TRUE /\ reading = None
    /\ pc = [p \in Procs |-> "idle"]
    /\ anchor = [p \in Procs |-> None]
    /\ aim = [p \in Procs |-> None]
    /\ calls = 0 /\ drops = 0

Goto(p, step) == pc' = [pc EXCEPT ![p] = step]

\* What a call carried is gone with it.
Forget(p) ==
    /\ anchor' = [anchor EXCEPT ![p] = None]
    /\ aim' = [aim EXCEPT ![p] = None]

-----------------------------------------------------------------------------
(* One injection: guard, driver call, record.                              *)

\* SetLocation(anchor) from here on: "guard" reads the state.
WillSet(p, fix) ==
    /\ anchor' = [anchor EXCEPT ![p] = fix]
    /\ aim' = [aim EXCEPT ![p] = fix]
    /\ Goto(p, "guard")

\* injectLocation refuses while the tunnel is starting.
Guard(p) ==
    /\ pc[p] = "guard"
    /\ IF state = "starting" /\ ~active
       THEN Forget(p) /\ Goto(p, "idle")
       ELSE UNCHANGED local /\ Goto(p, "send")
    /\ UNCHANGED <<record, state, active, shield, phone, reading, calls>>

\* The driver call, for SetLocation and for a jittered relance.
Send(p) ==
    /\ pc[p] \in {"send", "resend"}
    /\ IF up
       THEN /\ spoof' = aim[p]
            /\ Goto(p, IF pc[p] = "send" THEN "record" ELSE "rerecord")
            /\ UNCHANGED local
       ELSE /\ UNCHANGED spoof
            /\ Forget(p) /\ Goto(p, "idle")
    /\ UNCHANGED <<record, state, active, shield, up, drops, reading, calls>>

\* pushHistory: newest first, a place not repeated, the oldest cut off.
MutPushHistory(place) ==
    history' = SubSeq(<<place>> \o history, 1,
                  IF Len(history) < maxHistoryEntries THEN Len(history) + 1
                  ELSE maxHistoryEntries)
PushHistory(place) ==
    history' = IF history # <<>> /\ Head(history) = place THEN history
               ELSE SubSeq(<<place>> \o history, 1,
                       IF Len(history) < maxHistoryEntries THEN Len(history) + 1
                       ELSE maxHistoryEntries)

\* injectLocation's second section of e.mu.
Record(p) ==
    /\ pc[p] = "record"
    /\ last' = anchor[p]
    /\ PushHistory(anchor[p].at)
    /\ state' = "running"
    /\ Forget(p) /\ Goto(p, IF p = companion THEN "confirm" ELSE "idle")
    /\ UNCHANGED <<verified, active, shield, phone, reading, calls>>

\* reinjectAnchor remembers the anchor, not the jittered fix it sent.
MutRerecord(p) ==
    /\ pc[p] = "rerecord"
    /\ last' = aim[p] /\ state' = "running"
    /\ Forget(p) /\ Goto(p, "idle")
    /\ UNCHANGED <<verified, history, active, shield, phone, reading, calls>>
Rerecord(p) ==
    /\ pc[p] = "rerecord"
    /\ last' = anchor[p] /\ state' = "running"
    /\ Forget(p) /\ Goto(p, "idle")
    /\ UNCHANGED <<verified, history, active, shield, phone, reading, calls>>

\* Relance reads the held fix: it sends it exactly, through SetLocation, or
\* jittered around the anchor, and then without the guard on "starting".
Relance(p) ==
    \/ ~Jitter /\ last # None /\ WillSet(p, last)
    \/ /\ Jitter /\ last # None
       /\ anchor' = [anchor EXCEPT ![p] = last]
       /\ \E o \in Offsets : aim' = [aim EXCEPT ![p] = [last EXCEPT !.off = o]]
       /\ Goto(p, "resend")
    \/ last = None /\ Goto(p, "idle") /\ UNCHANGED local

-----------------------------------------------------------------------------
(* What clients ask for.                                                   *)

Ask(c, op) ==
    /\ pc[c] = "idle" /\ op \in Ops
    /\ calls < MaxCalls /\ calls' = calls + 1

SetLocation(c) ==
    /\ Ask(c, "set")
    /\ \E p \in Places : WillSet(c, Exactly(p))
    /\ UNCHANGED <<record, state, active, shield, phone, reading>>

RelanceCall(c) ==
    /\ Ask(c, "relance")
    /\ Relance(c)
    /\ UNCHANGED <<record, state, active, shield, phone, reading>>

\* ClearLocation: the driver call first, the status only if it succeeded.
ClearLocation(c) ==
    /\ Ask(c, "clear")
    /\ Goto(c, "unsend")
    /\ UNCHANGED <<record, state, active, shield, phone, reading, local>>

Unsend(c) ==
    /\ pc[c] = "unsend"
    /\ IF up THEN spoof' = None /\ Goto(c, "unrecord")
             ELSE UNCHANGED spoof /\ Goto(c, "idle")
    /\ UNCHANGED <<record, state, active, shield, up, drops, reading, local, calls>>

Unrecord(c) ==
    /\ pc[c] = "unrecord"
    /\ last' = None
    /\ state' = IF active THEN "ready" ELSE "idle"
    /\ Goto(c, "idle")
    /\ UNCHANGED <<verified, history, active, shield, phone, reading, local, calls>>

ClearHistory(c) ==
    /\ Ask(c, "forget")
    /\ history' = <<>>
    /\ UNCHANGED <<last, verified, state, active, shield, phone, reading, pc, local>>

Client(c) == SetLocation(c) \/ RelanceCall(c) \/ ClearLocation(c) \/ ClearHistory(c)
Injecting(p) == Guard(p) \/ Send(p) \/ Record(p) \/ Rerecord(p) \/ Unsend(p) \/ Unrecord(p)

-----------------------------------------------------------------------------
(* The idle keepalive: a tick decides whether a position is held, then     *)
(* calls Relance, which reads it again.                                    *)

Holding == active /\ last # None /\ state = "running"

KeepaliveTick ==
    /\ keepalive \in Monitors /\ pc[keepalive] = "idle" /\ Holding
    /\ Goto(keepalive, "relance")
    /\ UNCHANGED <<record, state, active, shield, phone, reading, local, calls>>

KeepaliveRelance ==
    /\ keepalive \in Monitors /\ pc[keepalive] = "relance"
    /\ Relance(keepalive)
    /\ UNCHANGED <<record, state, active, shield, phone, reading, calls>>

-----------------------------------------------------------------------------
(* The anti-drift shield.  What the phone measured may be old by the time  *)
(* the report is handled.                                                  *)

Measure ==
    /\ companion \in Monitors
    /\ reading' = IF spoof = None THEN Home ELSE spoof.at
    /\ UNCHANGED <<record, state, active, shield, phone, pc, local, calls>>

Target == IF last # None THEN last ELSE verified

MutMayReinject(failures) == failures >= driftConfirmFailures /\ cooling
MayReinject(failures) == failures >= driftConfirmFailures /\ ~cooling

\* One more drift reading: the counter only matters up to the threshold.
MutOneMore(reinject) == IF reinject THEN 0
                        ELSE IF driftFailures < driftConfirmFailures
                        THEN driftFailures + 1 ELSE driftFailures
OneMore(reinject) == IF driftFailures < driftConfirmFailures THEN driftFailures + 1
                     ELSE driftFailures

\* A reading within the threshold: no drift, and the position is verified.
MutInTolerance == driftFailures' = driftFailures - 1 /\ verified' = Target
InTolerance == driftFailures' = 0 /\ verified' = Target

ReportRealLocation ==
    /\ companion \in Monitors /\ pc[companion] = "idle"
    /\ reading # None /\ Target # None
    /\ IF reading # Target.at
       THEN LET reinject == MayReinject(driftFailures + 1) IN
            /\ driftFailures' = OneMore(reinject)
            /\ IF reinject THEN cooling' = TRUE /\ WillSet(companion, Target)
               ELSE UNCHANGED <<cooling, local, pc>>
            /\ UNCHANGED verified
       ELSE /\ InTolerance
            /\ UNCHANGED <<cooling, local, pc>>
    /\ UNCHANGED <<last, history, state, active, phone, reading, calls>>

\* The forced re-injection landed: only now is the drift forgotten.
Confirm ==
    /\ companion \in Monitors /\ pc[companion] = "confirm"
    /\ driftFailures' = 0
    /\ Goto(companion, "idle")
    /\ UNCHANGED <<record, state, active, cooling, phone, reading, local, calls>>

CooldownEnds ==
    /\ cooling /\ cooling' = FALSE
    /\ UNCHANGED <<record, state, active, driftFailures, phone, reading, pc, local, calls>>

-----------------------------------------------------------------------------
(* The phone and the tunnel (module EngineTunnel).                         *)

IosDropsSpoof ==
    /\ spoof # None /\ drops < MaxDrops
    /\ spoof' = None /\ drops' = drops + 1
    /\ UNCHANGED <<record, state, active, shield, up, reading, pc, local, calls>>

DriverReach ==
    /\ up' = ~up
    /\ UNCHANGED <<record, state, active, shield, spoof, drops, reading, pc, local, calls>>

TunnelStarting ==
    /\ ~active /\ state = "idle" /\ state' = "starting"
    /\ UNCHANGED <<record, active, shield, phone, reading, pc, local, calls>>

TunnelUp ==
    /\ ~active /\ active' = TRUE
    /\ state' = IF state \in {"idle", "starting"} THEN "ready" ELSE state
    /\ UNCHANGED <<record, shield, phone, reading, pc, local, calls>>

TunnelLost ==
    /\ active /\ active' = FALSE
    /\ state' = IF state \in {"ready", "running"} THEN "idle" ELSE state
    /\ UNCHANGED <<record, shield, phone, reading, pc, local, calls>>

Environment ==
    \/ IosDropsSpoof \/ DriverReach \/ TunnelStarting \/ TunnelUp \/ TunnelLost

Next ==
    \/ \E c \in Clients : Client(c)
    \/ \E p \in Procs : Injecting(p)
    \/ KeepaliveTick \/ KeepaliveRelance
    \/ Measure \/ ReportRealLocation \/ Confirm \/ CooldownEnds
    \/ Environment

Spec == Init /\ [][Next]_vars

\* Calls return, the keepalive ticks, the companion keeps measuring and its
\* reports are handled, the cooldown passes.
Fairness ==
    /\ \A p \in Procs : WF_vars(Injecting(p))
    /\ WF_vars(KeepaliveTick) /\ WF_vars(KeepaliveRelance)
    /\ WF_vars(Measure) /\ SF_vars(ReportRealLocation)
    /\ WF_vars(Confirm) /\ WF_vars(CooldownEnds)

FairSpec == Spec /\ Fairness
-----------------------------------------------------------------------------
(* Properties.                                                             *)

\* Every variable keeps the values the engine gives it.
TypeOK ==
    /\ last \in Fix \union {None} /\ verified \in Fix \union {None}
    /\ history \in Seq(Places)
    /\ state \in {"idle", "starting", "ready", "running"}
    /\ active \in BOOLEAN /\ cooling \in BOOLEAN /\ up \in BOOLEAN
    /\ driftFailures \in 0 .. driftConfirmFailures
    /\ spoof \in Fix \union {None}
    /\ reading \in Places \union {Home, None}
    /\ pc \in [Procs -> {"idle", "guard", "send", "record", "resend", "rerecord",
                         "unsend", "unrecord", "relance", "confirm"}]
    /\ anchor \in [Procs -> Fix \union {None}]
    /\ aim \in [Procs -> Fix \union {None}]
    /\ calls \in 0 .. MaxCalls /\ drops \in 0 .. MaxDrops

\* "The held position can't random-walk away over a long idle session"
\* (engine.go:457): however many jittered relances overlap with sets, what
\* the engine holds and verifies is a place somebody asked for, exactly.
NoRandomWalk ==
    /\ last # None => last.off = 0
    /\ verified # None => verified.off = 0

\* The history is newest first, "skipping consecutive duplicates and capping
\* the list" (engine.go:266), whoever injects and in whatever order.
HistoryIsTidy ==
    /\ Len(history) <= maxHistoryEntries
    /\ \A k \in 1 .. Len(history) - 1 : history[k] # history[k + 1]

\* "driftFailures is only cleared once we know the re-injection worked"
\* (engine.go:353): a confirmed drift is forgotten only when the phone has
\* been sent the held position since, or measured there.
DriftIsNotForgotten ==
    [][driftFailures = driftConfirmFailures /\ driftFailures' = 0
        => pc[companion] = "confirm" \/ reading = Target.at]_vars

\* Once the tunnel is up for good, the phone and the status never part for
\* good: overlapping injections recorded in another order than they were sent,
\* a spoof iOS drops and a failed driver call are each put right, by the shield
\* or by the keepalive, which run together (run.go:146) and may undo each other.
HoldHeals ==
    <>[](up /\ active) => []<>(last # None => spoof # None /\ spoof.at = last.at)

\* What the sources say and the code contradicts.

\* "Once the tunnel is back, the relance/anti-drift paths re-assert the held
\* position on their own" (engine_tunnel.go:260): without a companion, and
\* so without the shield, the keepalive alone must.  This is HoldHeals.

\* With both, it asks that they settle: the keepalive never again sends a
\* position that a re-injection has just replaced.
HoldSettles ==
    <>[](up /\ active) => <>[](last # None => spoof # None /\ spoof.at = last.at)

\* The shield acts when the phone "has drifted too far from the spoofed
\* position" (engine.go:326): never when no position is spoofed.
ShieldDefendsTheSpoof ==
    [][pc[companion] = "idle" /\ pc'[companion] = "guard" => last # None]_vars

\* "Relance re-sends the held anchor" (engine_health.go:78): the keepalive
\* never moves the phone off the position held at that moment.
KeepaliveKeepsPosition ==
    [][pc[keepalive] \in {"send", "resend"} /\ spoof' \notin {spoof, None}
        => last # None /\ spoof'.at = last.at]_vars
=============================================================================
