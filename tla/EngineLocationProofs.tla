------------------------ MODULE EngineLocationProofs ------------------------
(***************************************************************************)
(* TLAPS proofs about EngineLocation, for any clients, any places, any     *)
(* thresholds and any number of calls and dropped spoofs.                  *)
(***************************************************************************)
EXTENDS EngineLocation, SequenceTheorems, TLAPS

-----------------------------------------------------------------------------
(* The inductive invariant.                                                *)

\* Steps at which a process is inside an injection.
Inside == {"guard", "send", "record", "resend", "rerecord"}

\* Whoever is inside an injection has a fix to record.
HeldInv ==
    \A p \in Procs : pc[p] \in Inside => anchor[p] # None

\* What is going to be recorded is a place, exactly: what NoRandomWalk says
\* of the status has to hold of the copies on their way into it.
AnchorInv ==
    \A p \in Procs : anchor[p] # None => anchor[p].off = 0

LocInv == TypeOK /\ HeldInv

-----------------------------------------------------------------------------
(* The history.                                                            *)

\* A place put in front of a tidy history, and the tail cut off, leave a
\* tidy history, whatever the cap is.
LEMMA PushKeepsTidy ==
    ASSUME history \in Seq(Places), NEW place \in Places, PushHistory(place)
    PROVE  /\ history' \in Seq(Places)
           /\ HistoryIsTidy => HistoryIsTidy'
<1> DEFINE longer == <<place>> \o history
           cut == IF Len(history) < maxHistoryEntries THEN Len(history) + 1
                  ELSE maxHistoryEntries
<1>1. CASE history # <<>> /\ Head(history) = place
  BY <1>1 DEF PushHistory, HistoryIsTidy
<1>2. CASE ~(history # <<>> /\ Head(history) = place)
  <2>1. history' = SubSeq(longer, 1, cut)
    BY <1>2 DEF PushHistory
  <2>2. Len(history) \in Nat /\ cut \in Nat \ {0} /\ maxHistoryEntries \in Nat
    BY LenProperties, LocationAssumption
  <2>3. cut <= Len(history) + 1 /\ cut <= maxHistoryEntries
    BY <2>2
  <2>4. /\ longer \in Seq(Places) /\ Len(longer) = Len(history) + 1
        /\ longer[1] = place
        /\ \A k \in 1 .. Len(history) : longer[k + 1] = history[k]
    <3>1. <<place>> \in Seq(Places) /\ Len(<<place>>) = 1 /\ <<place>>[1] = place
      OBVIOUS
    <3>2. /\ longer \in Seq(Places) /\ Len(longer) = 1 + Len(history)
          /\ \A k \in 1 .. 1 + Len(history) :
                longer[k] = IF k <= 1 THEN <<place>>[k] ELSE history[k - 1]
      BY <3>1, ConcatProperties
    <3> HIDE DEF longer
    <3>3. QED
      BY <3>1, <3>2, <2>2
  <2> HIDE DEF longer, cut
  <2>5. \A k \in 1 .. cut : longer[k] \in Places
    BY <2>2, <2>3, <2>4, ElementOfSeq
  <2>6. /\ history' \in Seq(Places) /\ Len(history') = cut
        /\ \A k \in 1 .. cut : history'[k] = longer[k]
    BY <2>1, <2>2, <2>5, SubSeqProperties
  <2>7. ASSUME HistoryIsTidy, NEW k \in 1 .. cut - 1
        PROVE  longer[k] # longer[k + 1]
    <3>1. k \in 1 .. Len(history)
      BY <2>2, <2>3
    <3>2. CASE k = 1
      <4>1. history # <<>> /\ Head(history) = history[1]
        BY <3>1
      <4>2. QED
        BY <4>1, <3>1, <3>2, <2>4, <1>2
    <3>3. CASE k # 1
      <4>1. k - 1 \in 1 .. Len(history) - 1 /\ k - 1 \in 1 .. Len(history)
        BY <3>1, <3>3, <2>2
      <4>2. history[k - 1] # history[(k - 1) + 1]
        BY <4>1, <2>7 DEF HistoryIsTidy
      <4>3. longer[(k - 1) + 1] = history[k - 1] /\ longer[k + 1] = history[k]
        BY <4>1, <3>1, <2>4
      <4>4. QED
        BY <4>2, <4>3, <2>2
    <3>4. QED
      BY <3>2, <3>3
  <2>8. ASSUME HistoryIsTidy PROVE HistoryIsTidy'
    <3>1. Len(history') <= maxHistoryEntries
      BY <2>3, <2>6
    <3>2. ASSUME NEW k \in 1 .. cut - 1 PROVE history'[k] # history'[k + 1]
      <4>1. k \in 1 .. cut /\ k + 1 \in 1 .. cut
        BY <2>2
      <4>2. QED
        BY <4>1, <2>6, <2>7, <2>8
    <3>3. QED
      BY <3>1, <3>2, <2>6 DEF HistoryIsTidy
  <2>9. QED
    BY <2>6, <2>8
<1>3. QED
  BY <1>1, <1>2

-----------------------------------------------------------------------------
(* Types, and nobody inside an injection without a fix.                    *)

\* A relance that reads a position has something to record.
LEMMA RelanceTakesAFix ==
    ASSUME LocInv, NEW p \in Procs, Relance(p)
    PROVE  /\ pc' \in [Procs -> {"idle", "guard", "send", "record", "resend", "rerecord",
                                "unsend", "unrecord", "relance", "confirm"}]
           /\ anchor' \in [Procs -> Fix \union {None}]
           /\ aim' \in [Procs -> Fix \union {None}]
           /\ HeldInv'
<1>1. CASE ~Jitter /\ last # None /\ WillSet(p, last)
  BY <1>1 DEF LocInv, TypeOK, HeldInv, WillSet, Goto, Inside
<1>2. CASE Jitter /\ last # None /\ Goto(p, "resend")
           /\ anchor' = [anchor EXCEPT ![p] = last]
           /\ \E o \in Offsets : aim' = [aim EXCEPT ![p] = [last EXCEPT !.off = o]]
  <2>1. PICK o \in Offsets : aim' = [aim EXCEPT ![p] = [last EXCEPT !.off = o]]
    BY <1>2
  <2>2. o \in 0 .. 1 /\ last \in Fix
    BY <1>2 DEF Offsets, LocInv, TypeOK
  <2>3. [last EXCEPT !.off = o] \in Fix
    BY <2>2 DEF Fix
  <2>4. QED
    BY <1>2, <2>1, <2>2, <2>3 DEF LocInv, TypeOK, HeldInv, Goto, Inside
<1>3. CASE last = None /\ Goto(p, "idle") /\ UNCHANGED local
  BY <1>3 DEF LocInv, TypeOK, HeldInv, Goto, Inside, local
<1>4. QED
  BY <1>1, <1>2, <1>3 DEF Relance

\* Types and HeldInv are inductive together.
LEMMA InitLoc == Init => LocInv
<1> SUFFICES ASSUME Init PROVE LocInv
  OBVIOUS
<1>1. history \in Seq(Places)
  <2>1. CASE history = <<>>
    BY <2>1
  <2>2. CASE history \in UNION {[1 .. n -> Places] : n \in 1 .. maxHistoryEntries}
    BY <2>2, SeqDef, LocationAssumption
  <2>3. QED
    BY <2>1, <2>2 DEF Init, SavedHistories
<1>2. TypeOK
  <2>1. driftFailures \in 0 .. driftConfirmFailures /\ calls \in 0 .. MaxCalls /\ drops \in 0 .. MaxDrops
    BY LocationAssumption DEF Init
  <2>2. QED
    BY <1>1, <2>1, Zenon DEF Init, TypeOK
<1>3. HeldInv
  BY DEF Init, HeldInv, Inside
<1>4. QED
  BY <1>2, <1>3 DEF LocInv

LEMMA StepLoc == LocInv /\ [Next]_vars => LocInv'
<1> SUFFICES ASSUME LocInv, [Next]_vars PROVE LocInv'
  OBVIOUS
<1> USE LocationAssumption DEF LocInv
<1>1. ASSUME NEW c \in Clients, SetLocation(c) PROVE LocInv'
  <2>1. PICK p \in Places : WillSet(c, Exactly(p))
    BY <1>1 DEF SetLocation
  <2>2. Exactly(p) \in Fix /\ Exactly(p) # None
    BY DEF Exactly, Fix
  <2>3. QED
    BY <1>1, <2>1, <2>2 DEF SetLocation, Ask, WillSet, Goto, TypeOK, HeldInv, Inside, record,
        shield, phone, Procs
<1>2. ASSUME NEW c \in Clients, RelanceCall(c) PROVE LocInv'
  <2>1. calls' \in 0 .. MaxCalls /\ Relance(c) /\ c \in Procs
    BY <1>2 DEF RelanceCall, Ask, TypeOK, Procs
  <2>2. QED
    BY <1>2, <2>1, RelanceTakesAFix DEF RelanceCall, TypeOK, record, shield, phone
<1>3. ASSUME NEW c \in Clients, ClearLocation(c) PROVE LocInv'
  BY <1>3 DEF ClearLocation, Procs, Ask, Goto, TypeOK, HeldInv, Inside, record, shield, phone, local
<1>4. ASSUME NEW c \in Clients, ClearHistory(c) PROVE LocInv'
  BY <1>4 DEF ClearHistory, Ask, TypeOK, HeldInv, Inside, shield, phone, local
<1>5. ASSUME NEW p \in Procs, Guard(p) PROVE LocInv'
  BY <1>5 DEF Guard, Forget, Goto, TypeOK, HeldInv, Inside, record, shield, phone, local
<1>6. ASSUME NEW p \in Procs, Send(p) PROVE LocInv'
  BY <1>6 DEF Send, Forget, Goto, TypeOK, HeldInv, Inside, record, shield, local
<1>7. ASSUME NEW p \in Procs, Record(p) PROVE LocInv'
  <2>1. anchor[p] \in Fix /\ anchor[p].at \in Places
    BY <1>7 DEF Record, TypeOK, HeldInv, Inside, Fix
  <2>2. history' \in Seq(Places)
    BY <1>7, <2>1, PushKeepsTidy DEF Record, TypeOK
  <2>3. QED
    BY <1>7, <2>1, <2>2 DEF Record, Forget, Goto, TypeOK, HeldInv, Inside, shield, phone, local
<1>8. ASSUME NEW p \in Procs, Rerecord(p) PROVE LocInv'
  BY <1>8 DEF Rerecord, Forget, Goto, TypeOK, HeldInv, Inside, shield, phone, local
<1>9. ASSUME NEW p \in Procs, Unsend(p) PROVE LocInv'
  BY <1>9 DEF Unsend, Goto, TypeOK, HeldInv, Inside, record, shield, local
<1>10. ASSUME NEW p \in Procs, Unrecord(p) PROVE LocInv'
  BY <1>10 DEF Unrecord, Goto, TypeOK, HeldInv, Inside, shield, phone, local
<1>11. CASE KeepaliveTick
  BY <1>11 DEF KeepaliveTick, Goto, TypeOK, HeldInv, Inside, record, shield, phone, local
<1>12. CASE KeepaliveRelance
  <2>1. keepalive \in Procs /\ Relance(keepalive)
    BY <1>12 DEF KeepaliveRelance, Procs
  <2>2. QED
    BY <1>12, <2>1, RelanceTakesAFix DEF KeepaliveRelance, TypeOK, record, shield, phone
<1>13. CASE Measure
  BY <1>13 DEF Measure, TypeOK, HeldInv, Inside, record, shield, phone, local, Fix
<1>14. CASE ReportRealLocation
  <2>1. Target \in Fix /\ Target # None /\ companion \in Procs
    BY <1>14 DEF ReportRealLocation, Target, TypeOK, Procs
  <2>2. CASE reading # Target.at
    <3>1. driftFailures' \in 0 .. driftConfirmFailures
      BY <1>14, <2>2 DEF ReportRealLocation, OneMore, TypeOK
    <3>2. CASE MayReinject(driftFailures + 1)
      BY <1>14, <2>1, <2>2, <3>1, <3>2 DEF ReportRealLocation, WillSet, Goto, TypeOK, HeldInv,
          Inside, phone
    <3>3. CASE ~MayReinject(driftFailures + 1)
      BY <1>14, <2>2, <3>1, <3>3 DEF ReportRealLocation, TypeOK, HeldInv, Inside, phone, local
    <3>4. QED
      BY <3>2, <3>3
  <2>3. CASE reading = Target.at
    BY <1>14, <2>1, <2>3 DEF ReportRealLocation, InTolerance, TypeOK, HeldInv, Inside, phone, local
  <2>4. QED
    BY <2>2, <2>3
<1>15. CASE Confirm
  BY <1>15 DEF Confirm, shield, Procs, Goto, TypeOK, HeldInv, Inside, record, phone, local
<1>16. CASE CooldownEnds
  BY <1>16 DEF CooldownEnds, shield, TypeOK, HeldInv, Inside, record, phone, local
<1>17. CASE Environment
  <2>1. CASE IosDropsSpoof
    BY <2>1 DEF IosDropsSpoof, TypeOK, HeldInv, Inside, record, shield, local
  <2>2. CASE DriverReach
    BY <2>2 DEF DriverReach, TypeOK, HeldInv, Inside, record, shield, local
  <2>3. CASE TunnelStarting
    BY <2>3 DEF TunnelStarting, TypeOK, HeldInv, Inside, record, shield, phone, local
  <2>4. CASE TunnelUp
    BY <2>4 DEF TunnelUp, TypeOK, HeldInv, Inside, record, shield, phone, local
  <2>5. CASE TunnelLost
    BY <2>5 DEF TunnelLost, TypeOK, HeldInv, Inside, record, shield, phone, local
  <2>6. QED
    BY <1>17, <2>1, <2>2, <2>3, <2>4, <2>5 DEF Environment
<1>18. CASE UNCHANGED vars
  BY <1>18 DEF vars, TypeOK, HeldInv, Inside, record, shield, phone, local
<1>19. QED
  BY <1>1, <1>2, <1>3, <1>4, <1>5, <1>6, <1>7, <1>8, <1>9, <1>10, <1>11, <1>12, <1>13,
     <1>14, <1>15, <1>16, <1>17, <1>18 DEF Next, Client, Injecting

\* Every variable of the held position keeps its type, for any clients and
\* thresholds.
THEOREM TypeCorrect == Spec => []TypeOK
<1>1. LocInv => TypeOK
  BY DEF LocInv
<1>2. QED
  BY <1>1, InitLoc, StepLoc, PTL DEF Spec

-----------------------------------------------------------------------------
(* The anchor.                                                             *)

WalkInv == LocInv /\ AnchorInv /\ NoRandomWalk

\* The anchor a relance takes is the position held, whatever it sends.
LEMMA RelanceTakesTheAnchor ==
    ASSUME WalkInv, NEW p \in Procs, Relance(p)
    PROVE  AnchorInv'
<1>1. anchor' = anchor \/ (anchor' = [anchor EXCEPT ![p] = last] /\ last # None)
  <2>1. CASE last = None
    BY <2>1 DEF Relance, local
  <2>2. CASE last # None
    BY <2>2, Zenon DEF Relance, WillSet
  <2>3. QED
    BY <2>1, <2>2
<1>2. QED
  BY <1>1 DEF WalkInv, LocInv, TypeOK, AnchorInv, NoRandomWalk

LEMMA StepWalk == WalkInv /\ [Next]_vars => WalkInv'
<1> SUFFICES ASSUME WalkInv, [Next]_vars PROVE AnchorInv' /\ NoRandomWalk'
  BY StepLoc DEF WalkInv
<1> USE DEF WalkInv
<1>1. ASSUME NEW c \in Clients, SetLocation(c) PROVE AnchorInv' /\ NoRandomWalk'
  <2>1. PICK p \in Places : anchor' = [anchor EXCEPT ![c] = Exactly(p)]
    BY <1>1 DEF SetLocation, WillSet
  <2>2. Exactly(p).off = 0
    BY DEF Exactly
  <2>3. last' = last /\ verified' = verified
    BY <1>1 DEF SetLocation, record
  <2>4. QED
    BY <2>1, <2>2, <2>3 DEF LocInv, TypeOK, AnchorInv, NoRandomWalk
<1>2. ASSUME NEW c \in Clients, RelanceCall(c) PROVE AnchorInv' /\ NoRandomWalk'
  BY <1>2, RelanceTakesTheAnchor DEF RelanceCall, NoRandomWalk, record, Procs
<1>3. ASSUME NEW p \in Procs, Record(p) PROVE AnchorInv' /\ NoRandomWalk'
  BY <1>3 DEF Record, Forget, AnchorInv, NoRandomWalk, local
<1>4. ASSUME NEW p \in Procs, Rerecord(p) PROVE AnchorInv' /\ NoRandomWalk'
  BY <1>4 DEF Rerecord, Forget, AnchorInv, NoRandomWalk, local
<1>5. CASE KeepaliveRelance
  BY <1>5, RelanceTakesTheAnchor DEF KeepaliveRelance, NoRandomWalk, record, Procs
<1>6. CASE ReportRealLocation
  <2>1. Target # None /\ Target.off = 0
    BY <1>6 DEF ReportRealLocation, Target, NoRandomWalk
  <2>2. last' = last /\ (verified' = verified \/ verified' = Target)
    BY <1>6 DEF ReportRealLocation, InTolerance
  <2>3. anchor' = anchor \/ anchor' = [anchor EXCEPT ![companion] = Target]
    BY <1>6 DEF ReportRealLocation, WillSet, local
  <2>4. QED
    BY <2>1, <2>2, <2>3 DEF LocInv, TypeOK, AnchorInv, NoRandomWalk
<1>7. ASSUME NEW p \in Procs, Unrecord(p) PROVE AnchorInv' /\ NoRandomWalk'
  BY <1>7 DEF Unrecord, AnchorInv, NoRandomWalk, local
<1>8. ASSUME UNCHANGED <<last, verified, anchor>> PROVE AnchorInv' /\ NoRandomWalk'
  BY <1>8 DEF AnchorInv, NoRandomWalk
<1>9. ASSUME NEW c \in Clients, ClearLocation(c) \/ ClearHistory(c)
      PROVE  UNCHANGED <<last, verified, anchor>>
  BY <1>9 DEF ClearLocation, ClearHistory, record, local
<1>10. ASSUME NEW p \in Procs, Guard(p) \/ Send(p) \/ Unsend(p)
       PROVE  AnchorInv' /\ NoRandomWalk'
  <2>1. last' = last /\ verified' = verified
    BY <1>10 DEF Guard, Send, Unsend, record
  <2>2. anchor' = anchor \/ anchor' = [anchor EXCEPT ![p] = None]
    BY <1>10 DEF Guard, Forget, Send, Unsend, local
  <2>3. QED
    BY <2>1, <2>2 DEF LocInv, TypeOK, AnchorInv, NoRandomWalk
<1>11. CASE KeepaliveTick \/ Measure \/ Confirm \/ CooldownEnds \/ Environment \/ UNCHANGED vars
  <2>1. UNCHANGED <<record, local>>
    BY <1>11 DEF KeepaliveTick, Measure, Confirm, CooldownEnds, Environment, IosDropsSpoof,
                 DriverReach, TunnelStarting, TunnelUp, TunnelLost, vars
  <2>2. QED
    BY <2>1, <1>8 DEF record, local
<1>12. QED
  BY <1>1, <1>2, <1>3, <1>4, <1>5, <1>6, <1>7, <1>8, <1>9, <1>10, <1>11
     DEF Next, Client, Injecting

\* What the engine holds or has verified is a place somebody asked for,
\* exactly, whoever injects, relances and reports in whatever order.
THEOREM AnchorStays == Spec => []NoRandomWalk
<1>1. Init => WalkInv
  BY InitLoc DEF Init, WalkInv, AnchorInv, NoRandomWalk
<1>2. WalkInv => NoRandomWalk
  BY DEF WalkInv
<1>3. QED
  BY <1>1, <1>2, StepWalk, PTL DEF Spec

-----------------------------------------------------------------------------
(* The history and the shield.                                             *)

\* Only Record and ClearHistory write the history.
LEMMA StepTidy == LocInv /\ HistoryIsTidy /\ [Next]_vars => HistoryIsTidy'
<1> SUFFICES ASSUME LocInv, HistoryIsTidy, [Next]_vars PROVE HistoryIsTidy'
  OBVIOUS
<1>1. ASSUME NEW p \in Procs, Record(p) PROVE HistoryIsTidy'
  <2>1. anchor[p].at \in Places /\ history \in Seq(Places)
    BY <1>1 DEF Record, LocInv, TypeOK, HeldInv, Inside, Fix
  <2>2. QED
    BY <1>1, <2>1, PushKeepsTidy DEF Record
<1>2. ASSUME NEW c \in Clients, ClearHistory(c) PROVE HistoryIsTidy'
  <2>1. history' = <<>> /\ Len(history') = 0
    BY <1>2 DEF ClearHistory
  <2>2. QED
    BY <2>1, LocationAssumption DEF HistoryIsTidy
<1>3. CASE UNCHANGED history
  BY <1>3 DEF HistoryIsTidy
<1>4. ASSUME NEW c \in Clients, SetLocation(c) \/ RelanceCall(c) \/ ClearLocation(c)
      PROVE  UNCHANGED history
  BY <1>4 DEF SetLocation, RelanceCall, ClearLocation, record
<1>5. ASSUME NEW p \in Procs, Guard(p) \/ Send(p) \/ Rerecord(p) \/ Unsend(p) \/ Unrecord(p)
      PROVE  UNCHANGED history
  BY <1>5 DEF Guard, Send, Rerecord, Unsend, Unrecord, record
<1>6. CASE \/ KeepaliveTick \/ KeepaliveRelance \/ Measure \/ ReportRealLocation
           \/ Confirm \/ CooldownEnds \/ Environment \/ UNCHANGED vars
  BY <1>3, <1>6 DEF KeepaliveTick, KeepaliveRelance, Measure, ReportRealLocation, Confirm,
     CooldownEnds, Environment, IosDropsSpoof, DriverReach, TunnelStarting, TunnelUp,
     TunnelLost, vars, record
<1>7. QED
  BY <1>1, <1>2, <1>3, <1>4, <1>5, <1>6 DEF Next, Client, Injecting

\* The history never exceeds its cap and never repeats a place, for any cap,
\* any number of clients and any tidy history saved by an earlier run.
THEOREM HistoryStaysTidy == Spec => []HistoryIsTidy
<1>1. Init => HistoryIsTidy
  <2>1. ASSUME history \in SavedHistories PROVE HistoryIsTidy
    <3>1. CASE history = <<>>
      BY <3>1, LocationAssumption DEF HistoryIsTidy
    <3>2. CASE \E n \in 1 .. maxHistoryEntries : history \in [1 .. n -> Places]
      <4>1. PICK n \in 1 .. maxHistoryEntries : history \in [1 .. n -> Places]
        BY <3>2
      <4>2. n \in Nat /\ history \in Seq(Places)
        BY <4>1, SeqDef, LocationAssumption
      <4>3. Len(history) = n
        BY <4>1, <4>2, LenProperties
      <4>4. CASE \A k \in 1 .. Len(history) - 1 : history[k] # history[k + 1]
        BY <4>1, <4>3, <4>4, LocationAssumption DEF HistoryIsTidy
      <4>5. CASE history = <<>>
        BY <4>5, <3>1
      <4>6. QED
        BY <2>1, <4>4, <4>5 DEF SavedHistories
    <3>3. QED
      BY <2>1, <3>1, <3>2 DEF SavedHistories
  <2>2. QED
    BY <2>1 DEF Init
<1>2. QED
  BY <1>1, InitLoc, StepLoc, StepTidy, PTL DEF Spec

\* Only a report within the threshold and a landed re-injection forget a
\* confirmed drift: a report beyond it leaves the counter at the threshold.
LEMMA StepDrift ==
    ASSUME [Next]_vars, driftFailures = driftConfirmFailures, driftFailures' = 0
    PROVE  pc[companion] = "confirm" \/ reading = Target.at
<1>1. driftFailures' # driftFailures
  BY LocationAssumption
<1>2. CASE Confirm
  BY <1>2 DEF Confirm
<1>3. CASE ReportRealLocation
  <2>1. OneMore(MayReinject(driftFailures + 1)) = driftConfirmFailures
    BY LocationAssumption DEF OneMore
  <2>2. QED
    BY <1>1, <1>3, <2>1 DEF ReportRealLocation
<1>4. ASSUME NEW c \in Clients, Client(c) PROVE UNCHANGED driftFailures
  BY <1>4 DEF Client, SetLocation, RelanceCall, ClearLocation, ClearHistory, shield
<1>5. ASSUME NEW p \in Procs, Injecting(p) PROVE UNCHANGED driftFailures
  BY <1>5 DEF Injecting, Guard, Send, Record, Rerecord, Unsend, Unrecord, shield
<1>6. ASSUME \/ KeepaliveTick \/ KeepaliveRelance \/ Measure \/ CooldownEnds
             \/ Environment \/ UNCHANGED vars
      PROVE  UNCHANGED driftFailures
  BY <1>6 DEF KeepaliveTick, KeepaliveRelance, Measure, CooldownEnds, Environment,
     IosDropsSpoof, DriverReach, TunnelStarting, TunnelUp, TunnelLost, vars, shield
<1>7. QED
  BY <1>1, <1>2, <1>3, <1>4, <1>5, <1>6 DEF Next

\* A confirmed drift is forgotten only when the phone was sent the held
\* position or measured there, for any threshold and any number of drops.
THEOREM DriftStaysConfirmed == Spec => DriftIsNotForgotten
<1>1. [Next]_vars =>
        [driftFailures = driftConfirmFailures /\ driftFailures' = 0
          => pc[companion] = "confirm" \/ reading = Target.at]_vars
  BY StepDrift
<1>2. QED
  BY <1>1, PTL DEF Spec, DriftIsNotForgotten

=============================================================================
