--------------------------- MODULE ServicesProofs ---------------------------
(***************************************************************************)
(* TLAPS proofs about the services, composed as in MCServices, for any     *)
(* callers, clients, places, paths, delays and bounds: the mDNS waker      *)
(* implements SingleRun, quiet settings are stored, providers are tried in *)
(* the right order, a route's fallback is complete and the path it plays   *)
(* is the one the provider sent.                                           *)
(***************************************************************************)
EXTENDS MCServices, PairingProofs, WellFoundedInduction, SequenceTheorems, TLAPS

-----------------------------------------------------------------------------
(* Sets of numbers and sequences.                                         *)

\* A set of natural numbers has a least member.
LEMMA LeastMember ==
    ASSUME NEW T, T \subseteq Nat, T # {}
    PROVE  R!Min(T) \in T /\ (\A n \in T : R!Min(T) =< n) /\ S!Min(T) = R!Min(T)
<1>1. PICK m \in T : \A n \in T : ~ (<<n, m>> \in OpToRel(<, Nat))
  BY NatLessThanWellFounded, WFMin
<1>2. \A n \in T : m =< n
  <2>1. SUFFICES ASSUME NEW n \in T  PROVE m =< n
    OBVIOUS
  <2>2. m \in Nat /\ n \in Nat /\ ~ (<<n, m>> \in {ss \in Nat \X Nat : ss[1] < ss[2]})
    BY <1>1 DEF OpToRel
  <2>3. QED
    BY <2>2
<1>3. QED
  BY <1>2 DEF R!Min, S!Min

\* What stands where in a concatenation.
LEMMA Joined ==
    ASSUME NEW E, NEW a \in Seq(E), NEW b \in Seq(E), NEW c, c = a \o b
    PROVE  /\ c \in Seq(E) /\ Len(c) = Len(a) + Len(b)
           /\ \A i \in 1 .. Len(a) : c[i] = a[i]
           /\ \A i \in 1 .. Len(b) : c[Len(a) + i] = b[i]
<1> DEFINE ab == a \o b
<1>1. /\ ab \in Seq(E) /\ Len(ab) = Len(a) + Len(b) /\ c = ab
      /\ \A i \in 1 .. Len(a) + Len(b) : ab[i] = IF i <= Len(a) THEN a[i] ELSE b[i - Len(a)]
  BY ConcatProperties
<1>2. Len(a) \in Nat /\ Len(b) \in Nat
  OBVIOUS
<1> HIDE DEF ab
<1>3. \A i \in 1 .. Len(a) : c[i] = a[i]
  <2>1. \A i \in 1 .. Len(a) : i \in 1 .. Len(a) + Len(b) /\ i <= Len(a)
    BY <1>2
  <2>2. QED
    BY <1>1, <2>1
<1>4. ASSUME NEW i \in 1 .. Len(b)  PROVE c[Len(a) + i] = b[i]
  <2>1. /\ Len(a) + i \in 1 .. Len(a) + Len(b) /\ ~ (Len(a) + i <= Len(a))
        /\ Len(a) + i - Len(a) = i
    BY <1>2
  <2>2. QED
    BY <1>1, <2>1
<1>5. QED
  BY <1>1, <1>3, <1>4

\* Induction over the numbers up to n, for a set T of them.
LEMMA Upwards ==
    ASSUME NEW n \in Nat, NEW T, 0 \in T, \A m \in 0 .. n : m < n /\ m \in T => m + 1 \in T
    PROVE  0 .. n \subseteq T
<1> DEFINE U == {m \in 0 .. n : m \notin T}
<1> SUFFICES ASSUME U # {}  PROVE FALSE
  OBVIOUS
<1>1. U \subseteq Nat
  OBVIOUS
<1>2. R!Min(U) \in U /\ \A m \in U : R!Min(U) =< m
  <2> HIDE DEF U
  <2>1. QED
    BY <1>1, LeastMember
<1>3. R!Min(U) - 1 \in 0 .. n /\ R!Min(U) - 1 \notin U
  BY <1>2
<1>4. QED
  BY <1>2, <1>3

\* f is defined by recursion from base.
Iterates(f, n, base, go) ==
    f = [k \in 0 .. n |-> IF k = 0 THEN base ELSE go[<<k, f[k - 1]>>]]

\* There is such a function.
LEMMA Iterated ==
    ASSUME NEW n \in Nat, NEW E, NEW base \in E, NEW go \in [(1 .. n) \X E -> E]
    PROVE  \E f \in [0 .. n -> E] : Iterates(f, n, base, go)
<1> DEFINE Fits(f, m) == /\ f \in [0 .. m -> E] /\ f[0] = base
                         /\ \A k \in 1 .. m : f[k] = go[<<k, f[k - 1]>>]
           T == {m \in 0 .. n : \E f : Fits(f, m)}
<1>1. 0 \in T
  <2> DEFINE f == [k \in 0 .. 0 |-> base]
  <2>1. Fits(f, 0)
    OBVIOUS
  <2> HIDE DEF Fits, f
  <2>2. QED
    BY <2>1
<1>2. ASSUME NEW m \in 0 .. n, m < n, m \in T  PROVE m + 1 \in T
  <2>1. PICK f : Fits(f, m)
    BY <1>2
  <2>2. m + 1 \in 1 .. n /\ m + 1 \in 0 .. n /\ f[m] \in E
    BY <1>2, <2>1
  <2> DEFINE v == go[<<m + 1, f[m]>>]
             g == [k \in 0 .. (m + 1) |-> IF k = m + 1 THEN v ELSE f[k]]
  <2>3. v \in E
    BY <2>2
  <2>4. g[m + 1] = v /\ \A j \in 0 .. m : g[j] = f[j]
    OBVIOUS
  <2>5. g \in [0 .. (m + 1) -> E]
    <3> HIDE DEF v
    <3>1. QED
      BY <2>1, <2>3
  <2> HIDE DEF g
  <2>6. ASSUME NEW k \in 1 .. (m + 1)  PROVE g[k] = go[<<k, g[k - 1]>>]
    <3>1. CASE k = m + 1
      BY <2>4, <3>1
    <3>2. CASE k \in 1 .. m
      BY <2>1, <2>4, <3>2
    <3>3. QED
      BY <3>1, <3>2
  <2>7. Fits(g, m + 1)
    BY <2>1, <2>4, <2>5, <2>6
  <2> HIDE DEF Fits
  <2>8. QED
    BY <2>2, <2>7
<1>3. n \in T
  <2> HIDE DEF T
  <2>1. QED
    BY <1>1, <1>2, Upwards
<1>4. PICK f : Fits(f, n)
  <2> HIDE DEF Fits
  <2>1. QED
    BY <1>3
<1>5. f \in [0 .. n -> E] /\ Iterates(f, n, base, go)
  BY <1>4 DEF Iterates
<1>6. QED
  BY <1>5

-----------------------------------------------------------------------------
(* Types.                                                                  *)

LEMMA BackoffStays ==
    ASSUME W!WakerAssumption, NEW n \in DelayMin .. DelayMax
    PROVE  W!Backoff(n) \in DelayMin .. DelayMax /\ DelayMin \in DelayMin .. DelayMax
BY DEF W!WakerAssumption, W!Backoff

\* A step of one browse loop.
LEMMA BrowseStep ==
    ASSUME W!TypeOK, NEW r \in W!Runs, NEW s \in Services,
           NEW next \in W!LoopSteps, W!Step(r, s, next)
    PROVE  loop' \in [W!Runs -> [Services -> W!LoopSteps]]
BY DEF W!TypeOK, W!Step

LEMMA LoopTypes ==
    ASSUME W!WakerAssumption, W!TypeOK, NEW r \in W!Runs, NEW s \in Services, W!Loop(r, s)
    PROVE  W!TypeOK' /\ UNCHANGED <<current, made, ended, W!callVars, overlapped>>
<1>1. delay[r][s] \in DelayMin .. DelayMax
  BY DEF W!TypeOK
<1>2. CASE W!Spawn(r, s)
  BY <1>2, BrowseStep DEF W!Spawn, W!TypeOK, W!callVars, W!LoopSteps
<1>3. CASE W!Leave(r, s)
  <2>1. delay' \in [W!Runs -> [Services -> DelayMin .. DelayMax]]
    BY <1>1, <1>3, BackoffStays DEF W!Leave, W!TypeOK
  <2>2. QED
    BY <1>3, <2>1, BrowseStep DEF W!Leave, W!TypeOK, W!callVars, W!LoopSteps
<1>4. CASE W!RecordSuccess(r, s)
  <2>1. delay' \in [W!Runs -> [Services -> DelayMin .. DelayMax]]
    BY <1>1, <1>4, BackoffStays DEF W!RecordSuccess, W!TypeOK
  <2>2. loop' \in [W!Runs -> [Services -> W!LoopSteps]]
    BY <1>4, BrowseStep DEF W!RecordSuccess, W!LoopSteps
  <2>3. failures' \in [W!Runs -> 0 .. Threshold]
    BY <1>4 DEF W!RecordSuccess, W!TypeOK, W!WakerAssumption
  <2>4. QED
    BY <1>4, <2>1, <2>2, <2>3 DEF W!RecordSuccess, W!TypeOK, W!callVars
<1>5. CASE W!RecordFailure(r, s)
  <2> DEFINE n == IF failures[r] < Threshold THEN failures[r] + 1 ELSE Threshold
             shouldWarn == n >= Threshold /\ ~warned[r]
  <2>1. delay' \in [W!Runs -> [Services -> DelayMin .. DelayMax]]
    <3>1. delay' = [delay EXCEPT ![r][s] = W!Backoff(delay[r][s])]
      BY <1>5 DEF W!RecordFailure
    <3>2. W!Backoff(delay[r][s]) \in DelayMin .. DelayMax
      BY <1>1, BackoffStays
    <3>3. QED
      BY <3>1, <3>2 DEF W!TypeOK
  <2>2. loop' \in [W!Runs -> [Services -> W!LoopSteps]]
    <3>1. W!Step(r, s, IF shouldWarn THEN "warn" ELSE "pause")
      BY <1>5 DEF W!RecordFailure
    <3>2. (IF shouldWarn THEN "warn" ELSE "pause") \in W!LoopSteps
      BY DEF W!LoopSteps
    <3>3. QED
      BY <3>1, <3>2, BrowseStep
  <2>3. n \in 0 .. Threshold
    BY DEF W!TypeOK, W!WakerAssumption
  <2>4. failures' \in [W!Runs -> 0 .. Threshold] /\ warned' \in [W!Runs -> BOOLEAN]
    <3>1. failures' = [failures EXCEPT ![r] = n]
          /\ warned' = [warned EXCEPT ![r] = warned[r] \/ shouldWarn]
      BY <1>5 DEF W!RecordFailure
    <3>2. (warned[r] \/ shouldWarn) \in BOOLEAN
      OBVIOUS
    <3> HIDE DEF n, shouldWarn
    <3>3. QED
      BY <2>3, <3>1, <3>2 DEF W!TypeOK
  <2>5. QED
    BY <1>5, <2>1, <2>2, <2>4 DEF W!RecordFailure, W!TypeOK, W!callVars
<1>6. CASE W!Tell(r, s)
  <2>1. told' \in [W!Runs -> {"none", "failing", "recovered"}]
    BY <1>6 DEF W!Tell, W!TypeOK
  <2>2. QED
    BY <1>6, <2>1, BrowseStep DEF W!Tell, W!TypeOK, W!callVars, W!LoopSteps
<1>7. CASE W!PauseEnds(r, s)
  BY <1>7, BrowseStep DEF W!PauseEnds, W!TypeOK, W!callVars, W!LoopSteps
<1>8. QED
  BY <1>2, <1>3, <1>4, <1>5, <1>6, <1>7 DEF W!Loop

LEMMA CallerTypes ==
    ASSUME W!WakerAssumption, W!TypeOK, NEW p \in Restarters,
           W!Call(p) \/ W!Caller(p) \/ W!ContextEnds(p)
    PROVE  W!TypeOK'
<1>1. CASE W!Call(p)
  BY <1>1 DEF W!Call, W!Goto, W!TypeOK, W!runVars
<1>2. CASE W!Stop(p)
  BY <1>2 DEF W!Stop, W!Goto, W!TypeOK, W!runVars
<1>3. CASE W!Wait(p) \/ W!WaitTimesOut(p) \/ W!ToolMissing(p)
  BY <1>3 DEF W!Wait, W!WaitTimesOut, W!ToolMissing, W!Goto, W!TypeOK, W!runVars
<1>4. CASE W!Begin(p)
  <2>1. made + 1 \in W!Runs /\ made + 1 \in 0 .. MaxRuns
    BY <1>4 DEF W!Begin, W!TypeOK, W!Runs, W!WakerAssumption
  <2>2. loop' \in [W!Runs -> [Services -> W!LoopSteps]]
    BY <1>4, <2>1 DEF W!Begin, W!TypeOK, W!LoopSteps
  <2>3. ended' \subseteq W!Runs
    BY <1>4, <2>1 DEF W!Begin, W!TypeOK
  <2>4. overlapped' \subseteq W!Runs
    BY <1>4, <2>1 DEF W!Begin, W!TypeOK
  <2>5. QED
    BY <1>4, <2>1, <2>2, <2>3, <2>4 DEF W!Begin, W!Goto, W!TypeOK
<1>5. CASE W!Return(p)
  BY <1>5 DEF W!Return, W!EndMine, W!Goto, W!TypeOK, W!runVars
<1>6. CASE W!ContextEnds(p)
  BY <1>6 DEF W!ContextEnds, W!EndMine, W!TypeOK, W!runVars
<1>7. QED
  BY <1>1, <1>2, <1>3, <1>4, <1>5, <1>6 DEF W!Caller

LEMMA WakerInitType == W!WakerAssumption /\ W!Init => W!TypeOK
<1> SUFFICES ASSUME W!WakerAssumption, W!Init PROVE W!TypeOK
  OBVIOUS
<1>1. DelayMin \in DelayMin .. DelayMax /\ 0 \in 0 .. Threshold /\ 0 \in 0 .. MaxRuns
  BY DEF W!WakerAssumption
<1>2. QED
  BY <1>1 DEF W!Init, W!TypeOK, W!LoopSteps

LEMMA WakerNextType == W!WakerAssumption /\ W!TypeOK /\ [W!Next]_(W!vars) => W!TypeOK'
<1> SUFFICES ASSUME W!WakerAssumption, W!TypeOK, [W!Next]_(W!vars) PROVE W!TypeOK'
  OBVIOUS
<1>1. CASE UNCHANGED W!vars
  BY <1>1 DEF W!TypeOK, W!vars, W!runVars, W!callVars
<1>2. QED
  BY <1>1, LoopTypes, CallerTypes DEF W!Next

-----------------------------------------------------------------------------
(* The waker implements SingleRun, runs of overlapping callers set aside.  *)

\* Only runs that were made end, belong to a caller, are set aside or are the
\* current one; a run that is live and not set aside is the current one; and
\* between Stop and the new run there is none.
Counted == W!Live \ overlapped

RunInv ==
    /\ \A r \in ended \union overlapped : r <= made
    /\ \A p \in Restarters : mine[p] <= made
    /\ current <= made
    /\ Counted \subseteq {current}
    /\ (\E p \in Restarters : W!Replacing(p)) => Counted = {}

WakerInv == W!TypeOK /\ RunInv

\* The run that ends, if it was live and counted, is the only one: what ends it
\* is a step of the abstract specification.
LEMMA EndingRefines ==
    ASSUME WakerInv, NEW x \in W!Runs, x <= made, ended' = ended \union {x},
           made' = made, overlapped' = overlapped
    PROVE  /\ W!R!Next \/ UNCHANGED W!R!vars
           /\ Counted' = Counted \ {x}
           /\ \A r \in ended' \union overlapped' : r <= made'
<1>1. ended \subseteq W!Runs /\ Counted \subseteq {current}
  BY DEF WakerInv, W!TypeOK, RunInv
<1>2. /\ Counted' = Counted \ {x}
      /\ (W!Past \ overlapped)' = IF x \in overlapped THEN W!Past \ overlapped
                                  ELSE (W!Past \ overlapped) \union {x}
  BY <1>1 DEF Counted, W!Live, W!Past
<1>3. CASE x \in Counted
  <2>1. Counted = {x} /\ Counted' = {} /\ x \notin overlapped
    BY <1>1, <1>2, <1>3 DEF Counted
  <2>2. W!R!End(x)
    BY <1>2, <2>1 DEF W!R!End, Counted
  <2>3. W!R!Next
    BY <2>2 DEF W!R!Next
  <2>4. QED
    BY <1>2, <2>3 DEF WakerInv, RunInv
<1>4. CASE x \notin Counted
  <2>1. Counted' = Counted /\ (W!Past \ overlapped)' = W!Past \ overlapped
    BY <1>2, <1>4 DEF Counted, W!Live, W!Past
  <2>2. QED
    BY <1>2, <2>1 DEF WakerInv, RunInv, W!R!vars, Counted
<1>5. QED
  BY <1>3, <1>4

\* The end of the context of p's run.
LEMMA EndingMine ==
    ASSUME WakerInv, NEW p \in Restarters, W!EndMine(p), made' = made,
           overlapped' = overlapped
    PROVE  /\ W!R!Next \/ UNCHANGED W!R!vars
           /\ Counted' \subseteq Counted
           /\ \A r \in ended' \union overlapped' : r <= made'
<1>1. mine[p] \in W!Runs \union {W!NoRun} /\ mine[p] <= made
  BY DEF WakerInv, W!TypeOK, RunInv
<1>2. CASE mine[p] = W!NoRun
  <2>1. ended' = ended
    BY <1>2 DEF W!EndMine
  <2>2. QED
    BY <2>1 DEF WakerInv, RunInv, Counted, W!Live, W!Past, W!R!vars
<1>3. CASE mine[p] # W!NoRun
  <2>1. ended' = ended \union {mine[p]} /\ mine[p] \in W!Runs
    BY <1>1, <1>3 DEF W!EndMine
  <2>2. QED
    BY <1>1, <2>1, EndingRefines
<1>4. QED
  BY <1>2, <1>3

LEMMA WakerStep ==
    ASSUME W!WakerAssumption, WakerInv, [W!Next]_(W!vars)
    PROVE  WakerInv' /\ (W!R!Next \/ UNCHANGED W!R!vars)
<1>1. W!TypeOK /\ RunInv /\ W!TypeOK'
  BY WakerNextType DEF WakerInv
<1>2. ASSUME UNCHANGED <<current, made, ended, overlapped>>,
             \A q \in Restarters : mine'[q] \in {mine[q], W!NoRun},
             \A q \in Restarters : pc'[q] \in {"wait", "begin"} => Counted = {}
      PROVE  WakerInv' /\ (W!R!Next \/ UNCHANGED W!R!vars)
  <2>1. W!Live' = W!Live /\ W!Past' = W!Past /\ Counted' = Counted
    BY <1>2 DEF W!Live, W!Past, Counted
  <2>2. \A q \in Restarters : mine'[q] <= made'
    <3>1. made' = made /\ made \in Nat /\ W!NoRun <= made
      BY <1>1, <1>2 DEF W!TypeOK, W!NoRun
    <3>2. \A q \in Restarters : mine[q] <= made
      BY <1>1 DEF RunInv
    <3>3. QED
      BY <1>2, <3>1, <3>2
  <2>3. (\E q \in Restarters : W!Replacing(q)') => Counted' = {}
    BY <1>2, <2>1 DEF W!Replacing
  <2>4. RunInv'
    BY <1>1, <1>2, <2>1, <2>2, <2>3 DEF RunInv
  <2>5. QED
    BY <1>1, <1>2, <2>1, <2>4 DEF WakerInv, W!R!vars
<1>3. ASSUME NEW p \in Restarters, W!Call(p) PROVE WakerInv' /\ (W!R!Next \/ UNCHANGED W!R!vars)
  BY <1>1, <1>2, <1>3 DEF W!Call, W!Goto, W!TypeOK, RunInv, W!Replacing
<1>4. ASSUME NEW p \in Restarters, W!Stop(p) PROVE WakerInv' /\ (W!R!Next \/ UNCHANGED W!R!vars)
  <2>1. UNCHANGED <<made, mine, overlapped>> /\ current' = W!NoRun
    BY <1>4 DEF W!Stop
  <2>2. current \in W!Runs \union {W!NoRun} /\ current <= made /\ Counted \subseteq {current}
        /\ made \in Nat
    BY <1>1 DEF W!TypeOK, RunInv
  <2>3. CASE current = W!NoRun
    <3>1. Counted = {} /\ ended' = ended
      BY <1>1, <1>4, <2>3 DEF W!Stop, RunInv, Counted, W!Live, W!Runs, W!NoRun
    <3>2. QED
      BY <1>1, <1>2, <1>4, <2>1, <2>3, <3>1 DEF W!Stop
  <2>4. CASE current # W!NoRun
    <3>1. ended' = ended \union {current} /\ current \in W!Runs
      BY <1>4, <2>2, <2>4 DEF W!Stop
    <3>2. /\ W!R!Next \/ UNCHANGED W!R!vars
          /\ Counted' = Counted \ {current}
          /\ \A r \in ended' \union overlapped' : r <= made'
      BY <2>1, <2>2, <3>1, EndingRefines
    <3>3. Counted' = {} /\ current' <= made'
      BY <2>1, <2>2, <3>2 DEF W!NoRun
    <3>4. RunInv'
      BY <1>1, <2>1, <3>2, <3>3 DEF RunInv
    <3>5. QED
      BY <1>1, <3>2, <3>4 DEF WakerInv
  <2>5. QED
    BY <2>3, <2>4
<1>5. ASSUME NEW p \in Restarters, W!Wait(p) \/ W!WaitTimesOut(p) \/ W!ToolMissing(p)
      PROVE  WakerInv' /\ (W!R!Next \/ UNCHANGED W!R!vars)
  <2>1. Counted = {}
    BY <1>1, <1>5 DEF W!Wait, W!WaitTimesOut, W!ToolMissing, RunInv, W!Replacing
  <2>2. QED
    BY <1>2, <1>5, <2>1 DEF W!Wait, W!WaitTimesOut, W!ToolMissing
<1>6. ASSUME NEW p \in Restarters, W!Begin(p) PROVE WakerInv' /\ (W!R!Next \/ UNCHANGED W!R!vars)
  <2> DEFINE r == made + 1
             raced == \E q \in Restarters \ {p} : W!Replacing(q)
  <2>1. /\ made' = r /\ current' = r /\ pc' = [pc EXCEPT ![p] = "return"]
        /\ mine' = [mine EXCEPT ![p] = r]
        /\ ended' = IF over[p] THEN ended \union {r} ELSE ended
        /\ overlapped' = IF raced THEN overlapped \union {r} ELSE overlapped
    BY <1>6 DEF W!Begin, W!Goto
  <2>2. /\ r \in W!Runs /\ made \in Nat /\ ended \subseteq W!Runs /\ overlapped \subseteq W!Runs
        /\ r \notin ended /\ r \notin overlapped
        /\ \A x \in W!Runs : x <= r <=> x <= made \/ x = r
    BY <1>1, <1>6 DEF W!Begin, W!TypeOK, RunInv, W!Runs, W!WakerAssumption
  <2>3. Counted = {}
    BY <1>1, <1>6 DEF W!Begin, RunInv, W!Replacing
  <2>4. (\E q \in Restarters : W!Replacing(q)') => raced
    BY <1>1, <2>1 DEF W!TypeOK, W!Replacing
  <2>5. /\ \A x \in ended' \union overlapped' : x <= made'
        /\ \A q \in Restarters : mine'[q] <= made'
        /\ current' <= made'
    <3>1. \A x \in ended' \union overlapped' : x \in W!Runs /\ (x <= made \/ x = r)
      BY <1>1, <2>1, <2>2 DEF RunInv
    <3>2. \A q \in Restarters : mine'[q] \in {mine[q], r}
      BY <1>1, <2>1 DEF W!TypeOK
    <3>3. \A q \in Restarters : mine[q] \in W!Runs \union {W!NoRun} /\ mine[q] <= made
      BY <1>1 DEF W!TypeOK, RunInv
    <3>4. r <= r /\ W!NoRun <= r
      BY <2>2 DEF W!NoRun
    <3> HIDE DEF r
    <3>5. QED
      BY <2>1, <2>2, <3>1, <3>2, <3>3, <3>4
  <2>6. r \notin W!Live \union W!Past /\ r \notin overlapped
    BY <2>2 DEF W!Live, W!Past
  <2>7. /\ Counted' = IF raced \/ over[p] THEN {} ELSE {r}
        /\ (W!Past \ overlapped)' = IF over[p] /\ ~raced THEN (W!Past \ overlapped) \union {r}
                                    ELSE W!Past \ overlapped
    <3>1. W!Live' = IF over[p] THEN W!Live ELSE W!Live \union {r}
      BY <2>1, <2>2 DEF W!Live
    <3>2. W!Past' = IF over[p] THEN W!Past \union {r} ELSE W!Past
      BY <2>1, <2>2 DEF W!Past
    <3> HIDE DEF r, raced
    <3>3. QED
      BY <2>1, <2>3, <2>6, <3>1, <3>2 DEF Counted
  <2>8. RunInv'
    <3>1. Counted' \subseteq {current'}
      BY <2>1, <2>7
    <3>2. (\E q \in Restarters : W!Replacing(q)') => Counted' = {}
      BY <2>4, <2>7
    <3>3. QED
      BY <2>5, <3>1, <3>2 DEF RunInv
  <2>9. W!R!Next \/ UNCHANGED W!R!vars
    <3> HIDE DEF raced
    <3>1. CASE raced
      BY <2>3, <2>7, <3>1 DEF W!R!vars, Counted
    <3>2. CASE ~raced /\ over[p]
      <4>1. W!R!Stillborn(r)
        BY <2>3, <2>6, <2>7, <3>2 DEF W!R!Stillborn, Counted
      <4>2. QED
        BY <2>2, <4>1 DEF W!R!Next
    <3>3. CASE ~raced /\ ~over[p]
      <4>1. W!R!Begin(r)
        BY <2>3, <2>6, <2>7, <3>3 DEF W!R!Begin, Counted
      <4>2. QED
        BY <2>2, <4>1 DEF W!R!Next
    <3>4. QED
      BY <3>1, <3>2, <3>3
  <2>10. QED
    BY <1>1, <2>8, <2>9 DEF WakerInv
<1>7. ASSUME NEW p \in Restarters, W!Return(p) PROVE WakerInv' /\ (W!R!Next \/ UNCHANGED W!R!vars)
  <2>1. UNCHANGED <<current, made, mine, overlapped>> /\ pc' = [pc EXCEPT ![p] = "idle"]
    BY <1>7 DEF W!Return, W!Goto
  <2>2. \A q \in Restarters : W!Replacing(q)' => W!Replacing(q)
    BY <1>1, <2>1 DEF W!TypeOK, W!Replacing
  <2>3. CASE kind[p] = "restart"
    <3>1. W!EndMine(p)
      BY <1>7, <2>3 DEF W!Return
    <3>2. /\ W!R!Next \/ UNCHANGED W!R!vars
          /\ Counted' \subseteq Counted /\ \A x \in ended' \union overlapped' : x <= made'
      BY <1>1, <2>1, <3>1, EndingMine DEF WakerInv
    <3>3. RunInv'
      BY <1>1, <2>1, <2>2, <3>2 DEF RunInv
    <3>4. QED
      BY <1>1, <3>2, <3>3 DEF WakerInv
  <2>4. CASE kind[p] # "restart"
    <3>1. UNCHANGED ended
      BY <1>7, <2>4 DEF W!Return
    <3>2. \A q \in Restarters : pc'[q] \in {"wait", "begin"} => Counted = {}
      BY <1>1, <2>2 DEF RunInv, W!Replacing
    <3>3. QED
      BY <1>2, <2>1, <3>1, <3>2
  <2>5. QED
    BY <2>3, <2>4
<1>8. ASSUME NEW p \in Restarters, W!ContextEnds(p)
      PROVE  WakerInv' /\ (W!R!Next \/ UNCHANGED W!R!vars)
  <2>1. UNCHANGED <<current, made, mine, pc, overlapped>> /\ W!EndMine(p)
    BY <1>8 DEF W!ContextEnds
  <2>2. /\ W!R!Next \/ UNCHANGED W!R!vars
        /\ Counted' \subseteq Counted /\ \A x \in ended' \union overlapped' : x <= made'
    BY <1>1, <2>1, EndingMine DEF WakerInv
  <2>3. RunInv'
    BY <1>1, <2>1, <2>2 DEF RunInv, W!Replacing
  <2>4. QED
    BY <1>1, <2>2, <2>3 DEF WakerInv
<1>9. ASSUME NEW r \in W!Runs, NEW s \in Services, W!Loop(r, s)
      PROVE  WakerInv' /\ (W!R!Next \/ UNCHANGED W!R!vars)
  <2>1. UNCHANGED <<current, made, ended, W!callVars, overlapped>>
    BY <1>1, <1>9, LoopTypes
  <2>2. QED
    BY <1>1, <1>2, <2>1 DEF W!callVars, RunInv, W!Replacing
<1>10. CASE UNCHANGED W!vars
  BY <1>1, <1>2, <1>10 DEF W!vars, W!callVars, RunInv, W!Replacing
<1>11. QED
  BY <1>3, <1>4, <1>5, <1>6, <1>7, <1>8, <1>9, <1>10 DEF W!Next, W!Caller

LEMMA WakerInit == W!WakerAssumption /\ W!Init => WakerInv /\ W!R!Init
<1> SUFFICES ASSUME W!WakerAssumption, W!Init PROVE WakerInv /\ W!R!Init
  OBVIOUS
<1>1. W!Live = {} /\ W!Past = {} /\ Counted = {}
  BY DEF W!Init, W!Live, W!Past, W!Runs, Counted
<1>2. RunInv
  BY <1>1 DEF W!Init, RunInv, W!NoRun
<1>3. QED
  BY <1>1, <1>2, WakerInitType DEF WakerInv, W!R!Init, Counted

-----------------------------------------------------------------------------
(* The settings: types.                                                    *)

\* A favourite removed: what is left, each place once.
LEMMA RemovedOnce ==
    ASSUME NEW E, NEW s \in Seq(E), S!IsInjective(s), NEW e
    PROVE  S!RemoveFirst(s, e) \in Seq(E) /\ S!IsInjective(S!RemoveFirst(s, e))
<1>1. CASE ~ \E i \in 1 .. Len(s) : s[i] = e
  BY <1>1 DEF S!RemoveFirst
<1>2. CASE \E i \in 1 .. Len(s) : s[i] = e
  <2> DEFINE T == {i \in 1 .. Len(s) : s[i] = e}
  <2>1. T \subseteq Nat /\ T # {}
    BY <1>2
  <2>2. S!Min(T) \in T
    <3> HIDE DEF T
    <3>1. QED
      BY <2>1, LeastMember
  <2>3. PICK i \in 1 .. Len(s) : S!RemoveFirst(s, e) = S!RemoveAt(s, i)
    <3>1. S!SelectInSeq(s, LAMBDA v : v = e) = S!Min(T)
      BY <2>1 DEF S!SelectInSeq
    <3>2. S!RemoveFirst(s, e) = S!RemoveAt(s, S!Min(T))
      BY <1>2, <3>1 DEF S!RemoveFirst
    <3>3. QED
      BY <2>2, <3>2
  <2> DEFINE a == SubSeq(s, 1, i - 1)
             b == SubSeq(s, i + 1, Len(s))
             r == a \o b
  <2>4. S!RemoveFirst(s, e) = r
    BY <2>3 DEF S!RemoveAt
  <2>5. Len(s) \in Nat /\ i \in Nat \ {0} /\ i =< Len(s) /\ DOMAIN s = 1 .. Len(s)
    OBVIOUS
  <2>6. /\ a \in Seq(E) /\ Len(a) = i - 1 /\ \A j \in 1 .. Len(a) : a[j] = s[j]
    OBVIOUS
  <2>7. /\ b \in Seq(E) /\ Len(b) = Len(s) - i /\ \A j \in 1 .. Len(b) : b[j] = s[i + j]
    OBVIOUS
  <2>8. /\ r \in Seq(E) /\ Len(r) = Len(a) + Len(b)
        /\ \A j \in 1 .. Len(a) : r[j] = a[j]
        /\ \A j \in 1 .. Len(b) : r[Len(a) + j] = b[j]
    <3>1. a \in Seq(E) /\ b \in Seq(E)
      BY <2>6, <2>7
    <3>2. r = a \o b
      OBVIOUS
    <3> HIDE DEF a, b, r
    <3>3. QED
      BY <3>1, <3>2, Joined
  <2> HIDE DEF a, b, r
  <2>9. ASSUME NEW j \in 1 .. Len(r)
        PROVE  LET k == IF j < i THEN j ELSE j + 1 IN k \in 1 .. Len(s) /\ r[j] = s[k]
    <3>1. CASE j < i
      <4>1. j \in 1 .. Len(a) /\ j \in 1 .. Len(s)
        BY <2>5, <2>6, <3>1
      <4>2. QED
        BY <2>6, <2>8, <3>1, <4>1
    <3>2. CASE ~ (j < i)
      <4>1. j - (i - 1) \in 1 .. Len(b) /\ Len(a) + (j - (i - 1)) = j /\ i + (j - (i - 1)) = j + 1
            /\ j + 1 \in 1 .. Len(s)
        BY <2>5, <2>6, <2>7, <2>8, <3>2
      <4>2. r[j] = b[j - (i - 1)] /\ b[j - (i - 1)] = s[j + 1]
        BY <2>7, <2>8, <4>1
      <4>3. QED
        BY <3>2, <4>1, <4>2
    <3>3. QED
      BY <3>1, <3>2
  <2>10. ASSUME NEW j \in 1 .. Len(r), NEW l \in 1 .. Len(r), r[j] = r[l]  PROVE j = l
    <3> DEFINE jj == IF j < i THEN j ELSE j + 1
               ll == IF l < i THEN l ELSE l + 1
    <3>1. jj \in 1 .. Len(s) /\ ll \in 1 .. Len(s) /\ s[jj] = s[ll]
      BY <2>9, <2>10
    <3>2. jj = ll
      <4> HIDE DEF jj, ll
      <4>1. QED
        BY <2>5, <3>1 DEF S!IsInjective
    <3>3. QED
      BY <2>5, <3>2
  <2>11. DOMAIN r = 1 .. Len(r)
    BY <2>8
  <2>12. QED
    BY <2>4, <2>8, <2>10, <2>11 DEF S!IsInjective
<1>3. QED
  BY <1>1, <1>2

\* A favourite added, that was none.
LEMMA AddedOnce ==
    ASSUME NEW E, NEW s \in Seq(E), S!IsInjective(s), NEW e \in E,
           \A i \in 1 .. Len(s) : s[i] # e
    PROVE  Append(s, e) \in Seq(E) /\ S!IsInjective(Append(s, e))
<1> DEFINE r == Append(s, e)
<1>1. /\ r \in Seq(E) /\ Len(r) = Len(s) + 1 /\ Len(s) \in Nat /\ DOMAIN r = 1 .. Len(r)
      /\ \A j \in 1 .. Len(s) : r[j] = s[j]
      /\ r[Len(s) + 1] = e /\ DOMAIN s = 1 .. Len(s)
  OBVIOUS
<1> HIDE DEF r
<1>2. \A j \in 1 .. Len(r) : j \in 1 .. Len(s) \/ j = Len(s) + 1
  BY <1>1
<1>3. \A j, l \in 1 .. Len(r) : r[j] = r[l] => j = l
  BY <1>1, <1>2 DEF S!IsInjective
<1>4. QED
  BY <1>1, <1>3 DEF S!IsInjective, r

LEMMA SettingsInitType == S!SettingsAssumption /\ S!Init => S!TypeOK
<1> SUFFICES ASSUME S!SettingsAssumption, S!Init  PROVE S!TypeOK
  OBVIOUS
<1>1. 0 \in S!Counter /\ 0 \in 0 .. MaxFaults
  BY DEF S!SettingsAssumption, S!Counter
<1>2. <<>> \in S!Favorites
  BY DEF S!Favorites, S!IsInjective
<1>3. S!DefaultRow \in S!Row /\ S!Seed(S!DefaultRow, 0) \in S!Memory
  BY <1>1, <1>2 DEF S!DefaultRow, S!Row, S!Seed, S!Memory
<1>4. S!NoSnap \in [row : S!Row, key : S!Counter]
  BY <1>1, <1>3 DEF S!NoSnap
<1>5. QED
  BY <1>1, <1>3, <1>4 DEF S!Init, S!TypeOK

\* What a command does to the memory, that goes on to persist.
LEMMA BeginType ==
    ASSUME S!SettingsAssumption, S!TypeOK, NEW c \in Clients, S!Begin(c),
           mem' \in S!Memory, keyed' \in [Clients -> BOOLEAN],
           pendingUpdates' \subseteq S!Counter, cluster' = cluster
    PROVE  S!TypeOK'
<1>1. /\ step' = [step EXCEPT ![c] = "persist"] /\ changes' = changes + 1 /\ changes < MaxChanges
      /\ UNCHANGED <<disk, secrets, snap, faults, newest, newestKeys, unsaved, unsavedKeys>>
  BY DEF S!Begin, S!Goto, S!Set, S!Count, S!history
<1>2. changes' \in S!Counter
  BY <1>1 DEF S!SettingsAssumption, S!TypeOK, S!Counter
<1>3. step' \in [Clients -> {"idle", "persist", "save", "keys", "savekeys"}]
  BY <1>1 DEF S!TypeOK
<1>4. QED
  BY <1>1, <1>2, <1>3 DEF S!TypeOK

\* A change to some fields of the memory.
LEMMA MemoryTypes ==
    ASSUME NEW m \in S!Memory, NEW f \in S!Favorites, NEW n \in [Places -> S!Counter],
           NEW o \in S!Counter, NEW q \in S!Counter, NEW h \in S!Counter, NEW k \in S!Counter
    PROVE  /\ m.favs \in S!Favorites /\ m.name \in [Places -> S!Counter]
           /\ m.opt \in S!Counter /\ m.hist \in S!Counter /\ m.key \in S!Counter
           /\ m.port \in S!Counter /\ [m EXCEPT !.port = q] \in S!Memory
           /\ [m EXCEPT !.favs = f, !.name = n] \in S!Memory
           /\ [m EXCEPT !.favs = f] \in S!Memory /\ [m EXCEPT !.name = n] \in S!Memory
           /\ [m EXCEPT !.opt = o, !.port = q, !.key = k] \in S!Memory
           /\ [m EXCEPT !.hist = h] \in S!Memory
BY DEF S!Memory

LEMMA SettingsNextType ==
    ASSUME S!SettingsAssumption, S!TypeOK, [S!Next]_(S!vars)  PROVE S!TypeOK'
<1>0. /\ mem \in S!Memory /\ mem.favs \in S!Favorites /\ mem.name \in [Places -> S!Counter]
      /\ mem.opt \in S!Counter /\ mem.hist \in S!Counter /\ mem.key \in S!Counter
      /\ mem.port \in S!Counter /\ keyed \in [Clients -> BOOLEAN] /\ pendingUpdates \subseteq S!Counter
      /\ 0 \in S!Counter /\ disk \in S!Row /\ secrets \in S!Counter /\ cluster \in S!Counter
  BY DEF S!TypeOK, S!Memory, S!SettingsAssumption, S!Counter
<1>1. S!Count => changes + 1 \in S!Counter
  BY DEF S!Count, S!SettingsAssumption, S!TypeOK, S!Counter
<1>2. ASSUME NEW c \in Clients, NEW p \in Places, S!AddFavorite(c, p)  PROVE S!TypeOK'
  <2>1. /\ ~S!Has(p) /\ S!Begin(c) /\ S!Count /\ UNCHANGED <<cluster, pendingUpdates, keyed>>
        /\ mem' = [mem EXCEPT !.favs = Append(@, p), !.name[p] = changes + 1]
    BY <1>2 DEF S!AddFavorite, S!Begin
  <2> DEFINE f == Append(mem.favs, p)
             n == [mem.name EXCEPT ![p] = changes + 1]
  <2>2. mem' = [mem EXCEPT !.favs = f, !.name = n]
    BY <2>1
  <2>3. f \in S!Favorites
    BY <1>0, <2>1, AddedOnce DEF S!Favorites, S!Has
  <2>4. n \in [Places -> S!Counter]
    BY <1>0, <1>1, <2>1
  <2> HIDE DEF f, n
  <2>5. mem' \in S!Memory
    BY <1>0, <2>2, <2>3, <2>4, MemoryTypes
  <2>6. QED
    BY <1>0, <2>1, <2>5, BeginType
<1>3. ASSUME NEW c \in Clients, NEW p \in Places, S!RemoveFavorite(c, p)  PROVE S!TypeOK'
  <2> DEFINE f == S!RemoveFirst(mem.favs, p)
  <2>1. S!Begin(c) /\ UNCHANGED <<cluster, pendingUpdates, keyed>> /\ mem' = [mem EXCEPT !.favs = f]
    BY <1>3 DEF S!RemoveFavorite
  <2>2. f \in S!Favorites
    BY <1>0, RemovedOnce DEF S!Favorites
  <2> HIDE DEF f
  <2>3. mem' \in S!Memory
    BY <1>0, <2>1, <2>2, MemoryTypes
  <2>4. QED
    BY <1>0, <2>1, <2>3, BeginType
<1>4. ASSUME NEW c \in Clients, NEW p \in Places, S!RenameFavorite(c, p)  PROVE S!TypeOK'
  <2> DEFINE n == [mem.name EXCEPT ![p] = changes + 1]
  <2>1. /\ S!Begin(c) /\ S!Count /\ UNCHANGED <<cluster, pendingUpdates, keyed>>
        /\ mem' = [mem EXCEPT !.name = n] \/ mem' = mem
    BY <1>4 DEF S!RenameFavorite, S!Begin
  <2>2. n \in [Places -> S!Counter]
    BY <1>0, <1>1, <2>1
  <2> HIDE DEF n
  <2>3. mem' \in S!Memory
    <3>1. [mem EXCEPT !.name = n] \in S!Memory
      BY <1>0, <2>2, MemoryTypes
    <3>2. QED
      BY <1>0, <2>1, <3>1
  <2>4. QED
    BY <1>0, <2>1, <2>3, BeginType
<1>5. ASSUME NEW c \in Clients, S!ClearHistory(c)  PROVE S!TypeOK'
  <2>1. S!Begin(c) /\ UNCHANGED <<cluster, pendingUpdates, keyed>> /\ mem' = [mem EXCEPT !.hist = 0]
    BY <1>5 DEF S!ClearHistory
  <2>2. mem' \in S!Memory
    BY <1>0, <2>1, MemoryTypes
  <2>3. QED
    BY <1>0, <2>1, <2>2, BeginType
<1>6. ASSUME NEW c \in Clients, S!SaveSettings(c)  PROVE S!TypeOK'
  <2>1. PICK port \in BOOLEAN, key \in BOOLEAN, member \in BOOLEAN :
          /\ mem' = [mem EXCEPT !.opt = changes + 1,
                                !.port = IF port THEN changes + 1 ELSE @,
                                !.key = IF key THEN changes + 1 ELSE @]
          /\ keyed' = [keyed EXCEPT ![c] = key]
          /\ pendingUpdates' = IF member THEN pendingUpdates \union {changes + 1} ELSE pendingUpdates
    BY <1>6 DEF S!SaveSettings, S!Set
  <2>2. S!Begin(c) /\ S!Count /\ cluster' = cluster
    BY <1>6 DEF S!SaveSettings, S!Begin
  <2> DEFINE q == IF port THEN changes + 1 ELSE mem.port
             k == IF key THEN changes + 1 ELSE mem.key
  <2>3. q \in S!Counter /\ k \in S!Counter /\ changes + 1 \in S!Counter
    BY <1>0, <1>1, <2>2
  <2>4. mem' = [mem EXCEPT !.opt = changes + 1, !.port = q, !.key = k]
    BY <2>1
  <2> HIDE DEF q, k
  <2>5. mem' \in S!Memory
    BY <1>0, <2>3, <2>4, MemoryTypes
  <2>6. keyed' \in [Clients -> BOOLEAN] /\ pendingUpdates' \subseteq S!Counter
    BY <1>0, <2>1, <2>3
  <2>7. QED
    BY <2>2, <2>5, <2>6, BeginType
<1>7. ASSUME NEW c \in Clients, S!Persist(c)  PROVE S!TypeOK'
  <2> DEFINE sn == [row |-> S!Export, key |-> 0]
  <2>1. /\ snap' = [snap EXCEPT ![c] = sn] /\ step' = [step EXCEPT ![c] = "save"]
        /\ newest' = {c}
        /\ UNCHANGED <<mem, cluster, pendingUpdates, disk, secrets, keyed, changes, faults,
                       newestKeys, unsaved, unsavedKeys>>
    BY <1>7 DEF S!Persist, S!Goto, S!Set, S!bounds
  <2>2. sn \in [row : S!Row, key : S!Counter]
    BY <1>0 DEF S!Export, S!DefaultRow, S!Row
  <2> HIDE DEF sn
  <2>3. QED
    BY <2>1, <2>2 DEF S!TypeOK
<1>8. S!NoSnap \in [row : S!Row, key : S!Counter]
  <2>1. S!DefaultRow \in S!Row
    BY <1>0 DEF S!DefaultRow, S!Row, S!Favorites, S!IsInjective
  <2>2. QED
    BY <1>0, <2>1 DEF S!NoSnap
<1>9. ASSUME NEW c \in Clients, S!Save(c)  PROVE S!TypeOK'
  <2>1. /\ snap' = [snap EXCEPT ![c] = S!NoSnap] /\ step' = [step EXCEPT ![c] = S!AfterSave(c)]
        /\ UNCHANGED <<mem, cluster, pendingUpdates, secrets, keyed, changes, newest, newestKeys,
                       unsavedKeys>>
        /\ unsaved' \in BOOLEAN
        /\ disk' \in S!Encoded(snap[c].row) \/ disk' = disk
        /\ faults' = faults \/ (faults < MaxFaults /\ faults' = faults + 1)
    <3>1. (c \notin newest) \in BOOLEAN /\ (unsaved \/ c \in newest) \in BOOLEAN
      OBVIOUS
    <3>2. QED
      BY <1>9, <3>1 DEF S!Save, S!Goto, S!Set
  <2>2. S!AfterSave(c) \in {"idle", "keys"}
    BY DEF S!AfterSave
  <2>3. faults' \in 0 .. MaxFaults
    BY <2>1 DEF S!SettingsAssumption, S!TypeOK
  <2>4. disk' \in S!Row
    <3>1. CASE disk' \in S!Encoded(snap[c].row)
      <4> DEFINE row == snap[c].row
      <4>1. row \in S!Row /\ row.name \in [Places -> S!Counter]
        BY DEF S!TypeOK, S!Row
      <4>2. PICK new \in SUBSET Places :
              disk' = [row EXCEPT !.name = [p \in Places |-> IF p \in new THEN mem.name[p] ELSE @[p]]]
        BY <3>1 DEF S!Encoded
      <4> DEFINE n == [p \in Places |-> IF p \in new THEN mem.name[p] ELSE row.name[p]]
      <4>3. n \in [Places -> S!Counter]
        BY <1>0, <4>1
      <4>4. disk' = [row EXCEPT !.name = n]
        BY <4>2
      <4> HIDE DEF row, n
      <4>5. QED
        BY <4>1, <4>3, <4>4 DEF S!Row
    <3>2. QED
      BY <1>0, <2>1, <3>1
  <2>5. QED
    BY <1>8, <2>1, <2>2, <2>3, <2>4 DEF S!TypeOK
<1>10. ASSUME NEW c \in Clients, S!PersistSecrets(c)  PROVE S!TypeOK'
  <2> DEFINE sn == [row |-> S!DefaultRow, key |-> mem.key]
  <2>1. /\ snap' = [snap EXCEPT ![c] = sn] /\ step' = [step EXCEPT ![c] = "savekeys"]
        /\ newestKeys' = {c}
        /\ UNCHANGED <<mem, cluster, pendingUpdates, disk, secrets, keyed, changes, faults,
                       newest, unsaved, unsavedKeys>>
    BY <1>10 DEF S!PersistSecrets, S!Goto, S!Set, S!bounds
  <2>2. sn \in [row : S!Row, key : S!Counter]
    BY <1>0, <1>8 DEF S!NoSnap
  <2> HIDE DEF sn
  <2>3. QED
    BY <2>1, <2>2 DEF S!TypeOK
<1>11. ASSUME NEW c \in Clients, S!SaveSecrets(c)  PROVE S!TypeOK'
  <2>1. /\ snap' = [snap EXCEPT ![c] = S!NoSnap] /\ step' = [step EXCEPT ![c] = "idle"]
        /\ keyed' = [keyed EXCEPT ![c] = FALSE]
        /\ UNCHANGED <<mem, cluster, pendingUpdates, disk, changes, newest, newestKeys, unsaved>>
        /\ unsavedKeys' \in BOOLEAN
        /\ secrets' = secrets \/ secrets' = snap[c].key
        /\ faults' = faults \/ (faults < MaxFaults /\ faults' = faults + 1)
    <3>1. (c \notin newestKeys) \in BOOLEAN /\ (unsavedKeys \/ c \in newestKeys) \in BOOLEAN
      OBVIOUS
    <3>2. QED
      BY <1>11, <3>1 DEF S!SaveSecrets, S!Goto, S!Set
  <2>2. faults' \in 0 .. MaxFaults
    BY <2>1 DEF S!SettingsAssumption, S!TypeOK
  <2>3. secrets' \in S!Counter
    BY <1>0, <2>1 DEF S!TypeOK
  <2>4. QED
    BY <1>8, <2>1, <2>2, <2>3 DEF S!TypeOK
<1>12. ASSUME NEW v \in pendingUpdates, S!UpdateCluster(v)  PROVE S!TypeOK'
  BY <1>0, <1>12 DEF S!UpdateCluster, S!TypeOK, S!bounds, S!history
<1>13. CASE S!RecordHistory
  <2>1. /\ S!Count /\ changes' = changes + 1 /\ mem' = [mem EXCEPT !.hist = changes + 1]
        /\ UNCHANGED <<cluster, pendingUpdates, disk, secrets, step, keyed, snap, faults, newest,
                       newestKeys, unsaved, unsavedKeys>>
    BY <1>13 DEF S!RecordHistory, S!Count, S!history
  <2>2. mem' \in S!Memory
    BY <1>0, <1>1, <2>1, MemoryTypes
  <2>3. QED
    BY <1>1, <2>1, <2>2 DEF S!TypeOK
<1>14. CASE S!Restart
  <2>1. mem' \in S!Memory /\ cluster' \in S!Counter
    BY <1>0, <1>14 DEF S!Restart, S!Seed, S!Row, S!Memory
  <2>2. faults' \in 0 .. MaxFaults
    BY <1>14 DEF S!Restart, S!SettingsAssumption, S!TypeOK
  <2>3. QED
    BY <1>8, <1>14, <2>1, <2>2 DEF S!Restart, S!TypeOK
<1>15. CASE S!PublishPort
  <2>1. mem' \in S!Memory
    BY <1>0, <1>15, MemoryTypes DEF S!PublishPort
  <2>2. QED
    BY <1>15, <2>1 DEF S!PublishPort, S!TypeOK, S!bounds, S!history
<1>16. CASE UNCHANGED S!vars
  BY <1>16 DEF S!vars, S!bounds, S!history, S!TypeOK
<1>17. QED
  BY <1>2, <1>3, <1>4, <1>5, <1>6, <1>7, <1>9, <1>10, <1>11, <1>12, <1>13, <1>14, <1>15, <1>16
     DEF S!Next

-----------------------------------------------------------------------------
(* The settings: what is stored once the commands are done.                *)

\* What the argument needs of types.
IsRow(row) ==
    row = [favs |-> row.favs, name |-> [p \in Places |-> row.name[p]], opt |-> row.opt,
           port |-> row.port, hist |-> row.hist, cluster |-> row.cluster]
MemoryShape ==
    mem = [favs |-> mem.favs, name |-> [p \in Places |-> mem.name[p]], opt |-> mem.opt,
           port |-> mem.port, hist |-> mem.hist, key |-> mem.key]
SettingsShape ==
    /\ MemoryShape
    /\ step \in [Clients -> {"idle", "persist", "save", "keys", "savekeys"}]
    /\ keyed \in [Clients -> BOOLEAN]
    /\ DOMAIN snap = Clients
    /\ \A c \in Clients : step[c] = "save" => IsRow(snap[c].row)
    /\ IsRow(disk)
    /\ newest \subseteq Clients /\ newestKeys \subseteq Clients
    /\ \A c \in Clients : keyed[c] => step[c] # "idle"

\* A row holds what a restart needs of the memory.
Holds(row) ==
    /\ row.favs = mem.favs /\ row.opt = mem.opt
    /\ \A p \in Places : S!Has(p) => row.name[p] = mem.name[p]

\* Unless a client has yet to take its snapshot, the newest one holds the memory:
\* it is about to be saved, or it was saved last, or it is unsaved.
RowInv ==
    /\ \A a, b \in newest : a = b
    /\ (\A c \in Clients : step[c] # "persist") =>
          IF \E c \in newest : step[c] = "save"
          THEN \A c \in newest : Holds(snap[c].row)
          ELSE unsaved \/ Holds(disk)

\* The keys are read later than the rest.
KeyDue(c) == keyed[c] /\ step[c] \in {"persist", "save", "keys"}
KeyInv ==
    /\ \A a, b \in newestKeys : a = b
    /\ (\A c \in Clients : ~KeyDue(c)) =>
          IF \E c \in newestKeys : step[c] = "savekeys"
          THEN \A c \in newestKeys : snap[c].key = mem.key
          ELSE unsavedKeys \/ secrets = mem.key

SettingsInv == SettingsShape /\ RowInv /\ KeyInv

LEMMA SettingsInit == S!Init => SettingsInv
<1> SUFFICES ASSUME S!Init PROVE SettingsInv
  OBVIOUS
<1>1. mem = [favs |-> <<>>, name |-> [p \in Places |-> 0], opt |-> 0, port |-> 0, hist |-> 0,
             key |-> 0]
  BY DEF S!Init, S!Seed, S!DefaultRow
<1>2. disk = [favs |-> <<>>, name |-> [p \in Places |-> 0], opt |-> 0, port |-> 0, hist |-> 0,
              cluster |-> 0]
  BY DEF S!Init, S!DefaultRow
<1>3. SettingsShape
  <2>1. MemoryShape /\ IsRow(disk)
    BY <1>1, <1>2 DEF IsRow, MemoryShape
  <2>2. /\ step \in [Clients -> {"idle", "persist", "save", "keys", "savekeys"}]
        /\ keyed \in [Clients -> BOOLEAN] /\ DOMAIN snap = Clients
        /\ \A c \in Clients : step[c] # "save" /\ keyed[c] = FALSE
        /\ newest \subseteq Clients /\ newestKeys \subseteq Clients
    BY DEF S!Init
  <2>3. QED
    BY <2>1, <2>2 DEF SettingsShape
<1>4. Holds(disk) /\ secrets = mem.key
  BY <1>1, <1>2 DEF S!Init, Holds
<1>5. QED
  BY <1>3, <1>4 DEF S!Init, SettingsInv, RowInv, KeyInv

\* A change of the memory: c has it all to save.
LEMMA Begins ==
    ASSUME SettingsInv, NEW c \in Clients, S!Begin(c), MemoryShape', NEW key \in BOOLEAN,
           keyed' = [keyed EXCEPT ![c] = key], key \/ mem'.key = mem.key
    PROVE  SettingsInv'
<1>1. /\ step[c] = "idle" /\ step' = [step EXCEPT ![c] = "persist"]
      /\ UNCHANGED <<disk, secrets, snap, newest, newestKeys, unsaved, unsavedKeys>>
  BY DEF S!Begin, S!Goto, S!Set, S!history
<1>2. /\ step' \in [Clients -> {"idle", "persist", "save", "keys", "savekeys"}]
      /\ step'[c] = "persist" /\ \A o \in Clients \ {c} : step'[o] = step[o]
      /\ keyed' \in [Clients -> BOOLEAN]
      /\ keyed'[c] = key /\ \A o \in Clients \ {c} : keyed'[o] = keyed[o]
  BY <1>1 DEF SettingsInv, SettingsShape
<1>3. SettingsShape'
  BY <1>1, <1>2 DEF SettingsInv, SettingsShape, MemoryShape, IsRow
<1>4. RowInv'
  BY <1>1, <1>2 DEF SettingsInv, RowInv
<1>5. KeyInv'
  <2>1. ASSUME \A o \in Clients : ~KeyDue(o)'
        PROVE  ~key /\ \A o \in Clients : ~KeyDue(o)
    BY <1>1, <1>2, <2>1 DEF KeyDue
  <2>2. newestKeys \subseteq Clients
    BY DEF SettingsInv, SettingsShape
  <2>3. \A o \in newestKeys : step'[o] = "savekeys" <=> step[o] = "savekeys"
    BY <1>1, <1>2, <2>2
  <2>4. QED
    BY <1>1, <2>1, <2>3 DEF SettingsInv, KeyInv
<1>6. QED
  BY <1>3, <1>4, <1>5 DEF SettingsInv

\* c goes on, while the memory stays.
LEMMA ShapeStays ==
    ASSUME SettingsInv, NEW c \in Clients, NEW next, NEW sn, NEW key \in BOOLEAN,
           UNCHANGED mem, step[c] # "idle",
           step' = [step EXCEPT ![c] = next], snap' = [snap EXCEPT ![c] = sn],
           next \in {"idle", "save", "keys", "savekeys"},
           keyed' = [keyed EXCEPT ![c] = key],
           next = "save" => IsRow(sn.row), key => next # "idle", IsRow(disk'),
           newest' \subseteq Clients, newestKeys' \subseteq Clients
    PROVE  /\ SettingsShape'
           /\ step'[c] = next /\ \A o \in Clients \ {c} : step'[o] = step[o]
           /\ keyed'[c] = key /\ \A o \in Clients \ {c} : keyed'[o] = keyed[o]
           /\ snap'[c] = sn /\ \A o \in Clients \ {c} : snap'[o] = snap[o]
           /\ newest \subseteq Clients /\ newestKeys \subseteq Clients
           /\ \A row : Holds(row) <=>
                 /\ row.favs = mem'.favs /\ row.opt = mem'.opt
                 /\ \A p \in Places : S!Has(p)' => row.name[p] = mem'.name[p]
<1>1. /\ step' \in [Clients -> {"idle", "persist", "save", "keys", "savekeys"}]
      /\ step'[c] = next /\ \A o \in Clients \ {c} : step'[o] = step[o]
      /\ keyed' \in [Clients -> BOOLEAN]
      /\ keyed'[c] = key /\ \A o \in Clients \ {c} : keyed'[o] = keyed[o]
      /\ DOMAIN snap' = Clients
      /\ snap'[c] = sn /\ \A o \in Clients \ {c} : snap'[o] = snap[o]
  BY DEF SettingsInv, SettingsShape
<1>2. SettingsShape'
  <2>1. MemoryShape'
    BY DEF SettingsInv, SettingsShape, MemoryShape
  <2>2. ASSUME NEW o \in Clients, step'[o] = "save"  PROVE IsRow(snap'[o].row)
    <3>1. CASE o = c
      BY <1>1, <2>2, <3>1
    <3>2. CASE o # c
      BY <1>1, <2>2, <3>2 DEF SettingsInv, SettingsShape
    <3>3. QED
      BY <3>1, <3>2
  <2>3. \A o \in Clients : step'[o] = "save" => IsRow(snap[o].row)'
    BY <2>2 DEF IsRow
  <2>4. IsRow(disk)'
    BY DEF IsRow
  <2>5. \A o \in Clients : keyed'[o] => step'[o] # "idle"
    BY <1>1 DEF SettingsInv, SettingsShape
  <2>6. QED
    BY <1>1, <2>1, <2>3, <2>4, <2>5 DEF SettingsShape
<1>3. newest \subseteq Clients /\ newestKeys \subseteq Clients
  BY DEF SettingsInv, SettingsShape
<1>4. \A row : Holds(row) <=> /\ row.favs = mem'.favs /\ row.opt = mem'.opt
                             /\ \A p \in Places : S!Has(p)' => row.name[p] = mem'.name[p]
  BY DEF Holds, S!Has
<1>5. QED
  BY <1>1, <1>2, <1>3, <1>4

\* The settings row is no concern of a client that saves its keys.
LEMMA RowStays ==
    ASSUME SettingsInv, NEW c \in Clients, UNCHANGED <<mem, disk, newest, unsaved>>,
           step[c] \in {"keys", "savekeys"}, step'[c] \in {"savekeys", "idle"},
           \A o \in Clients \ {c} : step'[o] = step[o],
           \A o \in Clients \ {c} : snap'[o] = snap[o]
    PROVE  RowInv'
<1>1. newest \subseteq Clients /\ RowInv
  BY DEF SettingsInv, SettingsShape
<1>2. /\ \A o \in newest : step'[o] = "save" <=> step[o] = "save"
      /\ (\A o \in Clients : step'[o] # "persist") => \A o \in Clients : step[o] # "persist"
  BY <1>1
<1>3. \A row : Holds(row) <=> /\ row.favs = mem'.favs /\ row.opt = mem'.opt
                             /\ \A p \in Places : S!Has(p)' => row.name[p] = mem'.name[p]
  BY DEF Holds, S!Has
<1>4. CASE \E o \in newest : step[o] = "save"
  <2>1. \A o \in newest : o # c
    BY <1>1, <1>4 DEF RowInv
  <2>2. \A o \in newest : snap'[o] = snap[o]
    BY <1>1, <2>1
  <2>3. QED
    BY <1>1, <1>2, <1>3, <1>4, <2>2 DEF RowInv, Holds
<1>5. CASE ~ \E o \in newest : step[o] = "save"
  BY <1>1, <1>2, <1>3, <1>5 DEF RowInv, Holds
<1>6. QED
  BY <1>4, <1>5

\* Nor are the keys of one that saves the row.
LEMMA KeysStay ==
    ASSUME SettingsInv, NEW c \in Clients,
           UNCHANGED <<mem, secrets, keyed, newestKeys, unsavedKeys>>,
           step[c] \in {"persist", "save"}, step'[c] \in {"save", "keys", "idle"},
           step'[c] = "idle" => ~keyed[c],
           \A o \in Clients \ {c} : step'[o] = step[o],
           \A o \in Clients \ {c} : snap'[o] = snap[o]
    PROVE  KeyInv'
<1>1. newestKeys \subseteq Clients /\ KeyInv
  BY DEF SettingsInv, SettingsShape
<1>2. \A o \in newestKeys : step'[o] = "savekeys" <=> step[o] = "savekeys"
  BY <1>1
<1>3. (\A o \in Clients : ~KeyDue(o)') => \A o \in Clients : ~KeyDue(o)
  <2>1. \A o \in Clients \ {c} : KeyDue(o)' <=> KeyDue(o)
    BY DEF KeyDue
  <2>2. KeyDue(c) => KeyDue(c)'
    BY DEF KeyDue
  <2>3. QED
    BY <2>1, <2>2
<1>4. CASE \E o \in newestKeys : step[o] = "savekeys"
  <2>1. \A o \in newestKeys : o # c
    BY <1>1, <1>4 DEF KeyInv
  <2>2. \A o \in newestKeys : snap'[o] = snap[o]
    BY <1>1, <2>1
  <2>3. QED
    BY <1>1, <1>2, <1>3, <1>4, <2>2 DEF KeyInv
<1>5. CASE ~ \E o \in newestKeys : step[o] = "savekeys"
  BY <1>1, <1>2, <1>3, <1>5 DEF KeyInv
<1>6. QED
  BY <1>4, <1>5

\* The snapshot.
LEMMA PersistStep == ASSUME SettingsInv, NEW c \in Clients, S!Persist(c)  PROVE SettingsInv'
<1>0. /\ MemoryShape /\ IsRow(disk) /\ keyed[c] \in BOOLEAN
      /\ keyed = [keyed EXCEPT ![c] = keyed[c]]
      /\ newestKeys \subseteq Clients
  BY DEF SettingsInv, SettingsShape
<1> DEFINE sn == [row |-> S!Export, key |-> 0]
<1>1. /\ step[c] = "persist" /\ step' = [step EXCEPT ![c] = "save"]
      /\ snap' = [snap EXCEPT ![c] = sn] /\ keyed' = [keyed EXCEPT ![c] = keyed[c]]
      /\ UNCHANGED <<mem, disk, unsaved, secrets, keyed, newestKeys, unsavedKeys>>
      /\ newest' = {c}
  BY <1>0 DEF S!Persist, S!Goto, S!Set, S!bounds
<1>2. IsRow(sn.row) /\ Holds(sn.row)
  <2>1. S!Export = [favs |-> mem.favs, name |-> [p \in Places |-> mem.name[p]],
                    opt |-> mem.opt, port |-> 0, hist |-> mem.hist, cluster |-> cluster]
    <3> DEFINE n == [p \in Places |-> mem.name[p]]
               zero == [p \in Places |-> 0]
    <3>1. mem.name = n
      BY <1>0 DEF MemoryShape
    <3>2. S!DefaultRow = [favs |-> <<>>, name |-> zero, opt |-> 0, port |-> 0, hist |-> 0,
                          cluster |-> 0]
      BY DEF S!DefaultRow
    <3>3. S!Export = [S!DefaultRow EXCEPT !.favs = mem.favs, !.name = n, !.opt = mem.opt,
                                          !.hist = mem.hist, !.cluster = cluster]
      BY <3>1 DEF S!Export
    <3> HIDE DEF n, zero
    <3>4. S!Export = [favs |-> mem.favs, name |-> n, opt |-> mem.opt, port |-> 0,
                      hist |-> mem.hist, cluster |-> cluster]
      BY <3>2, <3>3
    <3>5. QED
      BY <3>4 DEF n
  <2>2. QED
    BY <2>1 DEF IsRow, Holds
<1> HIDE DEF sn
<1>3. IsRow(disk') /\ newest' \subseteq Clients /\ newestKeys' \subseteq Clients
  BY <1>0, <1>1
<1>4. /\ SettingsShape'
      /\ step'[c] = "save" /\ \A o \in Clients \ {c} : step'[o] = step[o]
      /\ snap'[c] = sn /\ \A o \in Clients \ {c} : snap'[o] = snap[o]
      /\ \A row : Holds(row) <=>
            /\ row.favs = mem'.favs /\ row.opt = mem'.opt
            /\ \A p \in Places : S!Has(p)' => row.name[p] = mem'.name[p]
  BY <1>0, <1>1, <1>2, <1>3, ShapeStays
<1>5. RowInv'
  BY <1>1, <1>2, <1>4 DEF RowInv, Holds
<1>6. KeyInv'
  BY <1>1, <1>4, KeysStay
<1>7. QED
  BY <1>4, <1>5, <1>6 DEF SettingsInv

\* The save, of the newest snapshot or of an older one.
LEMMA SaveStep == ASSUME SettingsInv, NEW c \in Clients, S!Save(c)  PROVE SettingsInv'
<1>0. /\ MemoryShape /\ IsRow(disk) /\ keyed[c] \in BOOLEAN
      /\ keyed = [keyed EXCEPT ![c] = keyed[c]]
      /\ newest \subseteq Clients /\ newestKeys \subseteq Clients /\ RowInv
  BY DEF SettingsInv, SettingsShape
<1>1. /\ step[c] = "save" /\ step' = [step EXCEPT ![c] = S!AfterSave(c)]
      /\ snap' = [snap EXCEPT ![c] = S!NoSnap] /\ keyed' = [keyed EXCEPT ![c] = keyed[c]]
      /\ UNCHANGED <<mem, secrets, keyed, newest, newestKeys, unsavedKeys>>
      /\ \/ disk' \in S!Encoded(snap[c].row) /\ unsaved' = (c \notin newest)
         \/ disk' = disk /\ unsaved' = (unsaved \/ c \in newest)
  BY <1>0 DEF S!Save, S!Goto, S!Set
<1>2. S!AfterSave(c) \in {"idle", "keys"} /\ (S!AfterSave(c) = "idle" <=> ~keyed[c])
  BY DEF S!AfterSave
<1>3. /\ IsRow(disk')
      /\ disk' \in S!Encoded(snap[c].row) => (Holds(snap[c].row) => Holds(disk'))
  <2>1. CASE disk' \in S!Encoded(snap[c].row)
    <3>1. IsRow(snap[c].row)
      BY <1>1 DEF SettingsInv, SettingsShape
    <3>2. PICK new \in SUBSET Places :
            disk' = [snap[c].row EXCEPT
                        !.name = [p \in Places |-> IF p \in new THEN mem.name[p] ELSE @[p]]]
      BY <2>1 DEF S!Encoded
    <3>3. IsRow(disk')
      BY <3>1, <3>2 DEF IsRow
    <3>4. Holds(snap[c].row) => Holds(disk')
      BY <3>1, <3>2 DEF IsRow, Holds
    <3>5. QED
      BY <3>3, <3>4
  <2>2. QED
    BY <1>0, <1>1, <2>1
<1>4. newest' \subseteq Clients /\ newestKeys' \subseteq Clients
  BY <1>0, <1>1
<1>5. /\ SettingsShape'
      /\ step'[c] = S!AfterSave(c) /\ \A o \in Clients \ {c} : step'[o] = step[o]
      /\ snap'[c] = S!NoSnap /\ \A o \in Clients \ {c} : snap'[o] = snap[o]
      /\ \A row : Holds(row) <=>
            /\ row.favs = mem'.favs /\ row.opt = mem'.opt
            /\ \A p \in Places : S!Has(p)' => row.name[p] = mem'.name[p]
  BY <1>0, <1>1, <1>2, <1>3, <1>4, ShapeStays
<1>6. RowInv'
  <2>1. (\A o \in Clients : step'[o] # "persist") => \A o \in Clients : step[o] # "persist"
    BY <1>1, <1>5
  <2>2. SUFFICES ASSUME \A o \in Clients : step[o] # "persist"
                 PROVE  IF \E o \in newest : step'[o] = "save"
                        THEN \A o \in newest : Holds(snap'[o].row)
                        ELSE unsaved' \/ Holds(disk')
    BY <1>0, <1>1, <1>5, <2>1 DEF RowInv, Holds
  <2>3. CASE c \in newest
    <3>1. \A o \in newest : o = c
      BY <1>0, <2>3 DEF RowInv
    <3>2. Holds(snap[c].row)
      BY <1>0, <1>1, <2>2, <2>3 DEF RowInv
    <3>3. unsaved' = TRUE \/ Holds(disk')
      BY <1>1, <1>3, <2>3, <3>2
    <3>4. \A o \in newest : step'[o] # "save"
      BY <1>2, <1>5, <3>1
    <3>5. QED
      BY <3>3, <3>4
  <2>4. CASE c \notin newest
    <3>1. \A o \in newest : step'[o] = step[o] /\ snap'[o] = snap[o]
      BY <1>0, <1>5, <2>4
    <3>2. CASE \E o \in newest : step[o] = "save"
      BY <1>0, <2>2, <3>1, <3>2 DEF RowInv
    <3>3. CASE ~ \E o \in newest : step[o] = "save"
      <4>1. unsaved \/ Holds(disk)
        BY <1>0, <2>2, <3>3 DEF RowInv
      <4>2. unsaved' = TRUE \/ (disk' = disk /\ unsaved' = (unsaved \/ FALSE))
        BY <1>1, <2>4
      <4>3. QED
        BY <3>1, <3>3, <4>1, <4>2
    <3>4. QED
      BY <3>2, <3>3
  <2>5. QED
    BY <2>3, <2>4
<1>7. KeyInv'
  BY <1>1, <1>2, <1>5, KeysStay
<1>8. QED
  BY <1>5, <1>6, <1>7 DEF SettingsInv

\* The snapshot of the keys.
LEMMA PersistSecretsStep ==
    ASSUME SettingsInv, NEW c \in Clients, S!PersistSecrets(c)  PROVE SettingsInv'
<1>0. /\ IsRow(disk) /\ keyed[c] \in BOOLEAN /\ keyed = [keyed EXCEPT ![c] = keyed[c]]
      /\ newest \subseteq Clients
  BY DEF SettingsInv, SettingsShape
<1> DEFINE sn == [row |-> S!DefaultRow, key |-> mem.key]
<1>1. /\ step[c] = "keys" /\ step' = [step EXCEPT ![c] = "savekeys"]
      /\ snap' = [snap EXCEPT ![c] = sn] /\ keyed' = [keyed EXCEPT ![c] = keyed[c]]
      /\ UNCHANGED <<mem, disk, newest, unsaved>>
      /\ newestKeys' = {c}
  BY <1>0 DEF S!PersistSecrets, S!Goto, S!Set, S!bounds
<1>2. sn.key = mem.key
  OBVIOUS
<1> HIDE DEF sn
<1>3. IsRow(disk') /\ newest' \subseteq Clients /\ newestKeys' \subseteq Clients
  BY <1>0, <1>1
<1>4. /\ SettingsShape'
      /\ step'[c] = "savekeys" /\ \A o \in Clients \ {c} : step'[o] = step[o]
      /\ snap'[c] = sn /\ \A o \in Clients \ {c} : snap'[o] = snap[o]
  BY <1>0, <1>1, <1>3, ShapeStays
<1>5. RowInv'
  BY <1>1, <1>4, RowStays
<1>6. KeyInv'
  BY <1>1, <1>2, <1>4 DEF KeyInv
<1>7. QED
  BY <1>4, <1>5, <1>6 DEF SettingsInv

\* And their save.
LEMMA SaveSecretsStep ==
    ASSUME SettingsInv, NEW c \in Clients, S!SaveSecrets(c)  PROVE SettingsInv'
<1>0. IsRow(disk) /\ newest \subseteq Clients /\ newestKeys \subseteq Clients /\ KeyInv
  BY DEF SettingsInv, SettingsShape
<1>1. /\ step[c] = "savekeys" /\ step' = [step EXCEPT ![c] = "idle"]
      /\ snap' = [snap EXCEPT ![c] = S!NoSnap] /\ keyed' = [keyed EXCEPT ![c] = FALSE]
      /\ UNCHANGED <<mem, disk, newest, newestKeys, unsaved>>
      /\ \/ secrets' = snap[c].key /\ unsavedKeys' = (c \notin newestKeys)
         \/ secrets' = secrets /\ unsavedKeys' = (unsavedKeys \/ c \in newestKeys)
  BY DEF S!SaveSecrets, S!Goto, S!Set
<1>2. IsRow(disk') /\ newest' \subseteq Clients /\ newestKeys' \subseteq Clients
  BY <1>0, <1>1
<1>3. /\ SettingsShape'
      /\ step'[c] = "idle" /\ \A o \in Clients \ {c} : step'[o] = step[o]
      /\ keyed'[c] = FALSE /\ \A o \in Clients \ {c} : keyed'[o] = keyed[o]
      /\ snap'[c] = S!NoSnap /\ \A o \in Clients \ {c} : snap'[o] = snap[o]
  BY <1>1, <1>2, ShapeStays
<1>4. RowInv'
  BY <1>1, <1>3, RowStays
<1>5. KeyInv'
  <2>1. (\A o \in Clients : ~KeyDue(o)') => \A o \in Clients : ~KeyDue(o)
    <3>1. \A o \in Clients \ {c} : KeyDue(o)' <=> KeyDue(o)
      BY <1>3 DEF KeyDue
    <3>2. ~KeyDue(c)
      BY <1>1 DEF KeyDue
    <3>3. QED
      BY <3>1, <3>2
  <2>2. SUFFICES ASSUME \A o \in Clients : ~KeyDue(o)
                 PROVE  IF \E o \in newestKeys : step'[o] = "savekeys"
                        THEN \A o \in newestKeys : snap'[o].key = mem.key
                        ELSE unsavedKeys' \/ secrets' = mem.key
    BY <1>0, <1>1, <2>1 DEF KeyInv
  <2>3. CASE c \in newestKeys
    <3>1. \A o \in newestKeys : o = c
      BY <1>0, <2>3 DEF KeyInv
    <3>2. snap[c].key = mem.key
      BY <1>0, <1>1, <2>2, <2>3 DEF KeyInv
    <3>3. unsavedKeys' = TRUE \/ secrets' = mem.key
      BY <1>1, <2>3, <3>2
    <3>4. QED
      BY <1>3, <3>1, <3>3
  <2>4. CASE c \notin newestKeys
    <3>1. \A o \in newestKeys : step'[o] = step[o] /\ snap'[o] = snap[o]
      BY <1>0, <1>3, <2>4
    <3>2. CASE \E o \in newestKeys : step[o] = "savekeys"
      BY <1>0, <2>2, <3>1, <3>2 DEF KeyInv
    <3>3. CASE ~ \E o \in newestKeys : step[o] = "savekeys"
      <4>1. unsavedKeys \/ secrets = mem.key
        BY <1>0, <2>2, <3>3 DEF KeyInv
      <4>2. unsavedKeys' = TRUE \/ (secrets' = secrets /\ unsavedKeys' = (unsavedKeys \/ FALSE))
        BY <1>1, <2>4
      <4>3. QED
        BY <3>1, <3>3, <4>1, <4>2
    <3>4. QED
      BY <3>2, <3>3
  <2>5. QED
    BY <2>3, <2>4
<1>6. QED
  BY <1>3, <1>4, <1>5 DEF SettingsInv

\* What is saved does not depend on the history and the port.
LEMMA OthersStep ==
    ASSUME SettingsInv, S!RecordHistory \/ S!PublishPort \/ \E v \in pendingUpdates : S!UpdateCluster(v)
    PROVE  SettingsInv'
<1>1. /\ UNCHANGED <<disk, secrets, step, keyed, snap, newest, newestKeys, unsaved, unsavedKeys>>
      /\ \/ mem' = [mem EXCEPT !.hist = changes + 1]
         \/ mem' = [mem EXCEPT !.port = 0]
         \/ mem' = mem
  BY DEF S!RecordHistory, S!PublishPort, S!UpdateCluster, S!history
<1>2. /\ MemoryShape' /\ mem'.key = mem.key /\ mem'.favs = mem.favs /\ mem'.opt = mem.opt
      /\ mem'.name = mem.name
  BY <1>1 DEF SettingsInv, SettingsShape, MemoryShape
<1>3. SettingsShape'
  BY <1>1, <1>2 DEF SettingsInv, SettingsShape, IsRow
<1>4. RowInv'
  BY <1>1, <1>2 DEF SettingsInv, RowInv, Holds, S!Has
<1>5. KeyInv'
  BY <1>1, <1>2 DEF SettingsInv, KeyInv, KeyDue
<1>6. QED
  BY <1>3, <1>4, <1>5 DEF SettingsInv

\* What a restart reads is what is stored.
LEMMA RestartStep == ASSUME SettingsInv, S!Restart  PROVE SettingsInv'
<1>1. /\ mem' = S!Seed(disk, secrets) /\ UNCHANGED <<disk, secrets>>
      /\ step' = [c \in Clients |-> "idle"] /\ keyed' = [c \in Clients |-> FALSE]
      /\ snap' = [c \in Clients |-> S!NoSnap] /\ newest' = {} /\ newestKeys' = {}
  BY DEF S!Restart
<1>2. mem' = [favs |-> disk.favs, name |-> [p \in Places |-> disk.name[p]],
              opt |-> disk.opt, port |-> 0, hist |-> disk.hist, key |-> secrets]
  <2>1. disk.name = [p \in Places |-> disk.name[p]]
    BY DEF SettingsInv, SettingsShape, IsRow
  <2>2. QED
    BY <1>1, <2>1 DEF S!Seed
<1>3. MemoryShape' /\ Holds(disk)' /\ secrets' = mem'.key
  BY <1>1, <1>2 DEF MemoryShape, Holds
<1>4. /\ step' \in [Clients -> {"idle", "persist", "save", "keys", "savekeys"}]
      /\ keyed' \in [Clients -> BOOLEAN] /\ DOMAIN snap' = Clients
      /\ \A c \in Clients : step'[c] = "idle" /\ keyed'[c] = FALSE
  BY <1>1
<1>5. SettingsShape' /\ RowInv' /\ KeyInv'
  BY <1>1, <1>3, <1>4 DEF SettingsInv, SettingsShape, RowInv, KeyInv, IsRow
<1>6. QED
  BY <1>5 DEF SettingsInv

LEMMA SettingsStep == SettingsInv /\ [S!Next]_(S!vars) => SettingsInv'
<1> SUFFICES ASSUME SettingsInv, [S!Next]_(S!vars) PROVE SettingsInv'
  OBVIOUS
<1>0. /\ MemoryShape
      /\ \A c \in Clients : keyed[c] \in BOOLEAN /\ keyed = [keyed EXCEPT ![c] = keyed[c]]
  BY DEF SettingsInv, SettingsShape
<1>1. ASSUME NEW c \in Clients, NEW p \in Places,
             S!AddFavorite(c, p) \/ S!RemoveFavorite(c, p) \/ S!RenameFavorite(c, p)
      PROVE  SettingsInv'
  <2>1. S!Begin(c) /\ keyed' = [keyed EXCEPT ![c] = keyed[c]]
    BY <1>0, <1>1 DEF S!AddFavorite, S!RemoveFavorite, S!RenameFavorite
  <2>2. CASE S!AddFavorite(c, p)
    <3>1. mem' = [mem EXCEPT !.favs = Append(@, p), !.name[p] = changes + 1]
      BY <2>2 DEF S!AddFavorite
    <3>2. mem' = [favs |-> Append(mem.favs, p), name |-> [mem.name EXCEPT ![p] = changes + 1],
                  opt |-> mem.opt, port |-> mem.port, hist |-> mem.hist, key |-> mem.key]
      <4> DEFINE n == mem.name
      <4>1. mem = [favs |-> mem.favs, name |-> n, opt |-> mem.opt, port |-> mem.port,
                   hist |-> mem.hist, key |-> mem.key]
        BY <1>0 DEF MemoryShape
      <4>2. QED
        BY <3>1, <4>1
    <3>3. mem.name = [q \in Places |-> mem.name[q]]
      BY <1>0 DEF MemoryShape
    <3>4. MemoryShape' /\ mem'.key = mem.key
      BY <3>2, <3>3 DEF MemoryShape
    <3>5. QED
      BY <1>0, <2>1, <3>4, Begins
  <2>3. CASE S!RemoveFavorite(c, p)
    <3>1. \E favs : mem' = [mem EXCEPT !.favs = favs]
      BY <2>3 DEF S!RemoveFavorite
    <3>2. MemoryShape' /\ mem'.key = mem.key
      BY <1>0, <3>1 DEF MemoryShape
    <3>3. QED
      BY <1>0, <2>1, <3>2, Begins
  <2>4. CASE S!RenameFavorite(c, p)
    <3>1. mem' = [mem EXCEPT !.name[p] = changes + 1] \/ mem' = mem
      BY <2>4 DEF S!RenameFavorite
    <3>2. MemoryShape' /\ mem'.key = mem.key
      BY <1>0, <3>1 DEF MemoryShape
    <3>3. QED
      BY <1>0, <2>1, <3>2, Begins
  <2>5. QED
    BY <1>1, <2>2, <2>3, <2>4
<1>2. ASSUME NEW c \in Clients, S!ClearHistory(c)
      PROVE  SettingsInv'
  <2>1. S!Begin(c) /\ keyed' = [keyed EXCEPT ![c] = keyed[c]] /\ mem' = [mem EXCEPT !.hist = 0]
    BY <1>0, <1>2 DEF S!ClearHistory
  <2>2. MemoryShape' /\ mem'.key = mem.key
    BY <1>0, <2>1 DEF MemoryShape
  <2>3. QED
    BY <1>0, <2>1, <2>2, Begins
<1>3. ASSUME NEW c \in Clients, S!SaveSettings(c)
      PROVE  SettingsInv'
  <2>1. PICK port \in BOOLEAN, key \in BOOLEAN :
          /\ mem' = [mem EXCEPT !.opt = changes + 1,
                                !.port = IF port THEN changes + 1 ELSE @,
                                !.key = IF key THEN changes + 1 ELSE @]
          /\ keyed' = [keyed EXCEPT ![c] = key]
    BY <1>3 DEF S!SaveSettings, S!Set
  <2>2. MemoryShape' /\ (key \/ mem'.key = mem.key)
    <3> DEFINE n == [p \in Places |-> mem.name[p]]
               q == IF port THEN changes + 1 ELSE mem.port
               k == IF key THEN changes + 1 ELSE mem.key
    <3>1. mem = [favs |-> mem.favs, name |-> n, opt |-> mem.opt, port |-> mem.port,
                 hist |-> mem.hist, key |-> mem.key]
      BY <1>0 DEF MemoryShape
    <3>2. mem' = [mem EXCEPT !.opt = changes + 1, !.port = q, !.key = k]
      BY <2>1
    <3>3. n = [p \in Places |-> n[p]] /\ (~key => k = mem.key)
      OBVIOUS
    <3> HIDE DEF n, q, k
    <3>4. ASSUME NEW f, NEW o, NEW l, NEW h, NEW j, NEW v,
                 mem = [favs |-> f, name |-> n, opt |-> o, port |-> l, hist |-> h, key |-> j],
                 mem' = [mem EXCEPT !.opt = v, !.port = q, !.key = k]
          PROVE  mem' = [favs |-> f, name |-> n, opt |-> v, port |-> q, hist |-> h, key |-> k]
      BY <3>4
    <3>5. mem' = [favs |-> mem.favs, name |-> n, opt |-> changes + 1, port |-> q,
                  hist |-> mem.hist, key |-> k]
      BY <3>1, <3>2, <3>4
    <3>6. mem'.name = n /\ mem'.key = k
      BY <3>5
    <3>7. QED
      BY <3>3, <3>5, <3>6 DEF MemoryShape
  <2>3. QED
    BY <1>3, <2>1, <2>2, Begins DEF S!SaveSettings
<1>4. CASE UNCHANGED S!vars
  BY <1>4 DEF S!vars, S!bounds, S!history, SettingsInv, SettingsShape, MemoryShape, RowInv,
      KeyInv, KeyDue, Holds, S!Has, IsRow
<1>5. QED
  BY <1>1, <1>2, <1>3, <1>4, PersistStep, SaveStep, PersistSecretsStep, SaveSecretsStep,
     OthersStep, RestartStep DEF S!Next

LEMMA SettingsStored == SettingsInv => S!QuietIsStored
<1> SUFFICES ASSUME SettingsInv, S!Quiet  PROVE S!QuietIsStored
  BY DEF S!QuietIsStored
<1>1. newest \subseteq Clients /\ newestKeys \subseteq Clients
  BY DEF SettingsInv, SettingsShape
<1>2. \A c \in Clients : step[c] = "idle"
  BY DEF S!Quiet
<1>3. unsaved \/ Holds(disk)
  BY <1>1, <1>2 DEF SettingsInv, RowInv
<1>4. unsavedKeys \/ secrets = mem.key
  BY <1>1, <1>2 DEF SettingsInv, KeyInv, KeyDue
<1>5. QED
  BY <1>3, <1>4 DEF S!QuietIsStored, S!Seed, Holds

-----------------------------------------------------------------------------
(* The routing: the order of the providers.                                *)

\* The order names no provider twice, and the one announced is the first in it
\* that is available.
Announced(order, available, best) ==
    /\ \A i, j \in 1 .. Len(order) : order[i] = order[j] => i = j
    /\ \E i \in 1 .. Len(order) :
         /\ order[i] = best /\ order[i] \in available
         /\ \A j \in 1 .. (i - 1) : order[j] \notin available

\* In a sequence that names every provider: where each is named first.
LEMMA FirstFacts ==
    ASSUME NEW s \in Seq(R!Providers), NEW i \in 1 .. Len(s)
    PROVE  /\ R!First(s, s[i]) \in 1 .. Len(s) /\ s[R!First(s, s[i])] = s[i]
           /\ R!First(s, s[i]) =< i
<1> DEFINE T == {k \in DOMAIN s : s[k] = s[i]}
<1>1. T \subseteq Nat /\ i \in T
  OBVIOUS
<1>2. R!First(s, s[i]) = R!Min(T)
  BY DEF R!First
<1>3. R!Min(T) \in T /\ \A n \in T : R!Min(T) =< n
  <2> HIDE DEF T
  <2>1. QED
    BY <1>1, LeastMember
<1>4. QED
  BY <1>1, <1>2, <1>3

LEMMA ThreeProviders == R!Providers = {"google", "mapbox", "osrm"} /\ DOMAIN R!DefaultPriority = 1 .. 3
BY DEF R!Providers, R!DefaultPriority, R!ToSet

\* s names every provider.
Names(s) == s \in Seq(R!Providers) /\ \A id \in R!Providers : \E i \in 1 .. Len(s) : s[i] = id

LEMMA DistinctFacts ==
    ASSUME NEW s, Names(s)
    PROVE  /\ R!Distinct(s) \in [1 .. 3 -> R!Providers]
           /\ \A i, j \in 1 .. 3 : i < j =>
                 R!First(s, R!Distinct(s)[i]) < R!First(s, R!Distinct(s)[j])
           /\ \A id \in R!Providers : \E i \in 1 .. 3 : R!Distinct(s)[i] = id
<1> DEFINE F(id) == R!First(s, id)
           Sorted(order) == \A i, j \in 1 .. 3 : i < j => F(order[i]) < F(order[j])
<1>1. \A id \in R!Providers : F(id) \in 1 .. Len(s) /\ s[F(id)] = id
  BY FirstFacts DEF Names
<1>2. \A id, other \in R!Providers : id # other => F(id) < F(other) \/ F(other) < F(id)
  <2>1. \A id, other \in R!Providers : id # other => F(id) # F(other)
    BY <1>1
  <2> HIDE DEF F
  <2>2. QED
    BY <1>1, <2>1
<1> HIDE DEF F
<1>3. \E a, b, c \in R!Providers : F(a) < F(b) /\ F(b) < F(c) /\ F(a) < F(c)
  <2> DEFINE g == F("google")
             m == F("mapbox")
             o == F("osrm")
  <2>1. {"google", "mapbox", "osrm"} = R!Providers
    BY ThreeProviders
  <2>2. g \in Nat /\ m \in Nat /\ o \in Nat /\ g # m /\ g # o /\ m # o
    BY <1>1, <1>2, <2>1
  <2>3. CASE g < m /\ m < o
    BY <2>1, <2>2, <2>3
  <2>4. CASE g < o /\ o < m
    BY <2>1, <2>2, <2>4
  <2>5. CASE m < g /\ g < o
    BY <2>1, <2>2, <2>5
  <2>6. CASE m < o /\ o < g
    BY <2>1, <2>2, <2>6
  <2>7. CASE o < g /\ g < m
    BY <2>1, <2>2, <2>7
  <2>8. CASE o < m /\ m < g
    BY <2>1, <2>2, <2>8
  <2> HIDE DEF g, m, o
  <2>9. QED
    BY <2>2, <2>3, <2>4, <2>5, <2>6, <2>7, <2>8
<1>4. \E order \in [1 .. 3 -> R!Providers] : Sorted(order)
  <2>1. PICK a \in R!Providers, b \in R!Providers, c \in R!Providers :
              F(a) < F(b) /\ F(b) < F(c) /\ F(a) < F(c)
    BY <1>3
  <2> DEFINE order == [i \in 1 .. 3 |-> IF i = 1 THEN a ELSE IF i = 2 THEN b ELSE c]
  <2>2. order \in [1 .. 3 -> R!Providers]
    OBVIOUS
  <2>3. order[1] = a /\ order[2] = b /\ order[3] = c
    OBVIOUS
  <2> HIDE DEF order
  <2>4. \A i, j \in 1 .. 3 : i < j => (i = 1 /\ j = 2) \/ (i = 1 /\ j = 3) \/ (i = 2 /\ j = 3)
    OBVIOUS
  <2>5. Sorted(order)
    BY <2>1, <2>3, <2>4
  <2>6. QED
    BY <2>2, <2>5
<1>5. R!Distinct(s) \in [1 .. 3 -> R!Providers] /\ Sorted(R!Distinct(s))
  <2>1. R!Distinct(s) = CHOOSE order \in [1 .. 3 -> R!Providers] :
           \A i, j \in DOMAIN order : i < j => R!First(s, order[i]) < R!First(s, order[j])
    BY ThreeProviders DEF R!Distinct
  <2>2. \A order \in [1 .. 3 -> R!Providers] :
           Sorted(order) <=>
             \A i, j \in DOMAIN order : i < j => R!First(s, order[i]) < R!First(s, order[j])
    BY DEF F
  <2>3. QED
    BY <1>4, <2>1, <2>2
<1>6. \A id \in R!Providers : \E i \in 1 .. 3 : R!Distinct(s)[i] = id
  <2> DEFINE order == R!Distinct(s)
  <2>1. order[1] # order[2] /\ order[1] # order[3] /\ order[2] # order[3]
    <3>1. /\ F(order[1]) < F(order[2]) /\ F(order[1]) < F(order[3]) /\ F(order[2]) < F(order[3])
          /\ order[1] \in R!Providers /\ order[2] \in R!Providers /\ order[3] \in R!Providers
      BY <1>5
    <3>2. F(order[1]) \in Nat /\ F(order[2]) \in Nat /\ F(order[3]) \in Nat
      BY <1>1, <3>1
    <3> HIDE DEF order
    <3>3. QED
      BY <3>1, <3>2
  <2>2. order[1] \in R!Providers /\ order[2] \in R!Providers /\ order[3] \in R!Providers
    BY <1>5
  <2> HIDE DEF order
  <2>3. \A id \in R!Providers : id = order[1] \/ id = order[2] \/ id = order[3]
    BY <2>1, <2>2, ThreeProviders
  <2>4. QED
    BY <2>3 DEF order
<1>7. QED
  BY <1>5, <1>6 DEF F

\* An order of the providers: each once.
Orders(o) == o \in [1 .. 3 -> R!Providers] /\ \A id \in R!Providers : \E i \in 1 .. 3 : o[i] = id

LEMMA OrdersAreSequences ==
    ASSUME NEW o, Orders(o)
    PROVE  /\ o \in Seq(R!Providers) /\ Len(o) = 3 /\ DOMAIN o = 1 .. 3
           /\ \A i, j \in 1 .. 3 : o[i] = o[j] => i = j
           /\ \A i \in 1 .. 3 : R!First(o, o[i]) = i
<1>1. o \in Seq(R!Providers) /\ Len(o) = 3 /\ DOMAIN o = 1 .. 3
  <2>1. DOMAIN o = 1 .. 3 /\ \A i \in 1 .. 3 : o[i] \in R!Providers
    BY DEF Orders
  <2>2. o = [i \in 1 .. 3 |-> o[i]]
    BY DEF Orders
  <2>3. o \in Seq(R!Providers)
    BY <2>1, <2>2, IsASeq
  <2>4. QED
    BY <2>1, <2>3
<1>2. \A i, j \in 1 .. 3 : o[i] = o[j] => i = j
  <2>1. \A i \in 1 .. 3 : i = 1 \/ i = 2 \/ i = 3
    OBVIOUS
  <2>2. \A id \in R!Providers : o[1] = id \/ o[2] = id \/ o[3] = id
    BY <2>1 DEF Orders
  <2>3. o[1] # o[2] /\ o[1] # o[3] /\ o[2] # o[3]
    BY <2>2, ThreeProviders
  <2>4. QED
    BY <2>1, <2>3
<1>3. ASSUME NEW i \in 1 .. 3  PROVE R!First(o, o[i]) = i
  <2>1. i \in 1 .. Len(o)
    BY <1>1
  <2>2. R!First(o, o[i]) \in 1 .. 3 /\ o[R!First(o, o[i])] = o[i]
    BY <1>1, <2>1, FirstFacts
  <2>3. QED
    BY <1>2, <2>2
<1>4. QED
  BY <1>1, <1>2, <1>3

LEMMA DistinctOrders == ASSUME NEW s, Names(s)  PROVE Orders(R!Distinct(s))
BY DistinctFacts DEF Orders

LEMMA PriorityOrders ==
    ASSUME NEW E, NEW names \in Seq(E)  PROVE Orders(R!NormalizePriority(names))
<1> DEFINE ids == [i \in 1 .. Len(names) |-> R!NormalizeProviderID(names[i])]
<1>1. \A id : R!NormalizeProviderID(id) \in R!Providers
  BY ThreeProviders DEF R!NormalizeProviderID
<1>2. ids \in Seq(R!Providers)
  BY <1>1
<1>3. /\ R!DefaultPriority \in Seq(R!Providers) /\ Len(R!DefaultPriority) = 3
      /\ R!DefaultPriority[1] = "google" /\ R!DefaultPriority[2] = "mapbox"
      /\ R!DefaultPriority[3] = "osrm"
  BY ThreeProviders DEF R!DefaultPriority
<1> DEFINE s == ids \o R!DefaultPriority
<1> HIDE DEF ids
<1>4. /\ s \in Seq(R!Providers) /\ Len(s) = Len(ids) + 3 /\ Len(ids) \in Nat
      /\ s[Len(ids) + 1] = "google" /\ s[Len(ids) + 2] = "mapbox"
      /\ s[Len(ids) + 3] = "osrm"
  <2>1. /\ s \in Seq(R!Providers) /\ Len(s) = Len(ids) + Len(R!DefaultPriority)
        /\ \A i \in 1 .. Len(ids) : s[i] = ids[i]
        /\ \A i \in 1 .. Len(R!DefaultPriority) : s[Len(ids) + i] = R!DefaultPriority[i]
    <3>1. s = ids \o R!DefaultPriority
      OBVIOUS
    <3> HIDE DEF s
    <3>2. ids \in Seq(R!Providers) /\ R!DefaultPriority \in Seq(R!Providers)
      BY <1>2, <1>3
    <3>3. QED
      BY <3>1, <3>2, Joined
  <2> HIDE DEF s
  <2>2. QED
    BY <1>2, <1>3, <2>1
<1> HIDE DEF s
<1>5. Names(s)
  <2>1. /\ Len(ids) + 1 \in 1 .. Len(s) /\ Len(ids) + 2 \in 1 .. Len(s)
        /\ Len(ids) + 3 \in 1 .. Len(s)
    BY <1>4
  <2>2. QED
    BY <1>4, <2>1, ThreeProviders DEF Names
<1>6. QED
  BY <1>5, DistinctOrders DEF R!NormalizePriority, s, ids

\* What every configuration in use looks like.
LEMMA ConfigFacts ==
    ASSUME NEW c \in R!Configs
    PROVE  /\ c \in [mode : R!Modes, provider : R!Providers, keys : SUBSET {"google", "mapbox"},
                     priority : [1 .. 3 -> R!Providers]]
           /\ Orders(c.priority)
<1>1. PICK mode \in R!Modes, provider \in Raw, names \in R!SeqOf(Raw, MaxRaw),
           keys \in SUBSET {"google", "mapbox"} :
        c = R!NormalizeConfig(mode, provider, names, keys)
  BY DEF R!Configs
<1>2. names \in Seq(Raw)
  BY DEF R!SeqOf
<1>3. Orders(R!NormalizePriority(names))
  BY <1>2, PriorityOrders
<1>4. R!NormalizeProviderID(provider) \in R!Providers
  BY ThreeProviders DEF R!NormalizeProviderID
<1>5. c = [mode |-> mode, provider |-> R!NormalizeProviderID(provider),
           priority |-> R!NormalizePriority(names), keys |-> keys]
  BY <1>1 DEF R!NormalizeConfig, R!Modes
<1>6. QED
  BY <1>3, <1>4, <1>5 DEF Orders

\* buildInfo and providerOrder agree: of an order and of the same order behind
\* the provider forced by hand.
LEMMA FirstAvailable ==
    ASSUME NEW n, Orders(n), NEW A, A \subseteq R!Providers, "osrm" \in A,
           NEW forced \in R!Providers, NEW manual \in BOOLEAN
    PROVE  LET s == (IF manual THEN <<forced>> ELSE <<>>) \o n
               available == {i \in DOMAIN n : n[i] \in A}
               best == IF manual /\ forced \in A THEN forced
                       ELSE IF available = {} THEN "osrm" ELSE n[R!Min(available)]
           IN  Orders(R!Distinct(s)) /\ Announced(R!Distinct(s), A, best)
<1> DEFINE s == (IF manual THEN <<forced>> ELSE <<>>) \o n
           available == {i \in DOMAIN n : n[i] \in A}
           best == IF manual /\ forced \in A THEN forced
                   ELSE IF available = {} THEN "osrm" ELSE n[R!Min(available)]
           k == IF manual THEN 1 ELSE 0
           order == R!Distinct(s)
<1>1. /\ n \in Seq(R!Providers) /\ Len(n) = 3 /\ DOMAIN n = 1 .. 3
      /\ \A i, j \in 1 .. 3 : n[i] = n[j] => i = j
      /\ \A id \in R!Providers : \E i \in 1 .. 3 : n[i] = id
  BY OrdersAreSequences DEF Orders
<1>2. /\ s \in Seq(R!Providers) /\ Len(s) = 3 + k /\ k \in {0, 1}
      /\ \A i \in 1 .. 3 : s[k + i] = n[i]
      /\ manual => s[1] = forced /\ k = 1
      /\ ~manual => k = 0
  <2> DEFINE prefix == IF manual THEN <<forced>> ELSE <<>>
  <2>1. /\ prefix \in Seq(R!Providers) /\ Len(prefix) = k
        /\ manual => prefix[1] = forced
    OBVIOUS
  <2> HIDE DEF prefix
  <2>2. /\ s \in Seq(R!Providers) /\ Len(s) = Len(prefix) + Len(n)
        /\ \A i \in 1 .. Len(prefix) : s[i] = prefix[i]
        /\ \A i \in 1 .. Len(n) : s[Len(prefix) + i] = n[i]
    <3>1. s = prefix \o n
      BY DEF prefix
    <3> HIDE DEF s
    <3>2. prefix \in Seq(R!Providers) /\ n \in Seq(R!Providers)
      BY <1>1, <2>1
    <3>3. QED
      BY <3>1, <3>2, Joined
  <2> HIDE DEF s
  <2>3. QED
    BY <1>1, <2>1, <2>2
<1> HIDE DEF s, k
<1>3. Names(s)
  <2>1. \A i \in 1 .. 3 : k + i \in 1 .. Len(s)
    BY <1>2
  <2>2. QED
    BY <1>1, <1>2, <2>1 DEF Names
<1>4. /\ Orders(order)
      /\ \A i, j \in 1 .. 3 : i < j => R!First(s, order[i]) < R!First(s, order[j])
  BY <1>3, DistinctFacts, DistinctOrders
<1>5. \A i \in 1 .. 3 : order[i] \in R!Providers
  BY <1>4 DEF Orders
<1> HIDE DEF order
<1>6. Len(order) = 3 /\ \A i, j \in 1 .. 3 : order[i] = order[j] => i = j
  BY <1>4, OrdersAreSequences
\* Where a provider is first: at the head, or behind it.
<1>7. \A id \in R!Providers : R!First(s, id) \in 1 .. Len(s) /\ s[R!First(s, id)] = id
  <2>1. SUFFICES ASSUME NEW id \in R!Providers
                 PROVE  R!First(s, id) \in 1 .. Len(s) /\ s[R!First(s, id)] = id
    OBVIOUS
  <2>2. PICK i \in 1 .. Len(s) : s[i] = id
    BY <1>3 DEF Names
  <2>3. QED
    BY <1>2, <2>2, FirstFacts
<1>8. \A i \in 1 .. 3 : R!First(s, n[i]) =< k + i
  <2>1. SUFFICES ASSUME NEW i \in 1 .. 3  PROVE R!First(s, n[i]) =< k + i
    OBVIOUS
  <2>2. k + i \in 1 .. Len(s) /\ s[k + i] = n[i]
    BY <1>2
  <2>3. QED
    BY <1>2, <2>2, FirstFacts
<1>9. manual => R!First(s, forced) = 1
  <2>1. SUFFICES ASSUME manual  PROVE R!First(s, forced) = 1
    OBVIOUS
  <2>2. 1 \in 1 .. Len(s) /\ s[1] = forced
    BY <1>2, <2>1
  <2>3. R!First(s, forced) \in 1 .. Len(s) /\ R!First(s, forced) =< 1
    BY <1>2, <2>2, FirstFacts
  <2>4. QED
    BY <1>2, <2>3
<1>10. \E m \in 1 .. 3 : n[m] \in A
  <2>1. "osrm" \in R!Providers
    BY ThreeProviders
  <2>2. PICK m \in 1 .. 3 : n[m] = "osrm"
    BY <1>1, <2>1
  <2>3. QED
    BY <2>2
<1>11. best \in A /\ \A id \in A : R!First(s, best) =< R!First(s, id)
  <2>1. CASE manual /\ forced \in A
    <3>1. best = forced /\ R!First(s, best) = 1
      BY <1>9, <2>1
    <3>2. \A id \in A : R!First(s, id) >= 1
      BY <1>2, <1>7
    <3>3. QED
      BY <2>1, <3>1, <3>2
  <2>2. CASE ~ (manual /\ forced \in A)
    <3>1. available \subseteq Nat /\ available # {}
      BY <1>1, <1>10
    <3>2. R!Min(available) \in available /\ \A i \in available : R!Min(available) =< i
      <4> HIDE DEF available
      <4>1. QED
        BY <3>1, LeastMember
    <3> DEFINE m == R!Min(available)
    <3>3. m \in 1 .. 3 /\ best = n[m] /\ n[m] \in A
      BY <1>1, <2>2, <3>1, <3>2
    <3>4. \A i \in 1 .. 3 : n[i] \in A => m =< i
      BY <1>1, <3>2
    <3> HIDE DEF m, available, best
    <3>5. ASSUME NEW id \in A  PROVE R!First(s, best) =< R!First(s, id)
      <4> DEFINE f == R!First(s, id)
      <4>1. f \in 1 .. Len(s) /\ s[f] = id
        BY <1>7
      <4>2. R!First(s, best) =< k + m /\ R!First(s, best) \in 1 .. Len(s)
        BY <1>5, <1>7, <1>8, <3>3
      <4>3. f = k + (f - k) /\ f - k \in 1 .. 3
        <5>1. ~ (manual /\ f = 1)
          BY <1>2, <2>2, <4>1
        <5>2. QED
          BY <1>2, <4>1, <5>1
      <4>4. n[f - k] = id
        BY <1>2, <4>1, <4>3
      <4>5. m =< f - k
        BY <3>4, <4>3, <4>4
      <4> HIDE DEF f
      <4>6. R!First(s, best) =< f
        BY <1>2, <3>3, <4>1, <4>2, <4>3, <4>5
      <4>7. QED
        BY <4>6 DEF f
    <3>6. QED
      BY <3>3, <3>5
  <2>3. QED
    BY <2>1, <2>2
<1> HIDE DEF best
<1>12. Announced(order, A, best)
  <2>1. PICK i \in 1 .. 3 : order[i] = best
    BY <1>4, <1>11 DEF Orders
  <2>2. ASSUME NEW j \in 1 .. (i - 1)  PROVE order[j] \notin A
    <3>1. j \in 1 .. 3 /\ j < i
      BY <2>1, <2>2
    <3>2. R!First(s, order[j]) < R!First(s, best)
      BY <1>4, <2>1, <3>1
    <3>3. R!First(s, order[j]) \in Nat /\ R!First(s, best) \in Nat
      BY <1>5, <1>7, <1>11, <3>1
    <3>4. QED
      BY <1>11, <3>2, <3>3
  <2>3. QED
    BY <1>6, <1>11, <2>1, <2>2 DEF Announced
<1>13. QED
  BY <1>4, <1>12 DEF order, s, best

LEMMA OrderFacts ==
    ASSUME NEW c \in R!Configs
    PROVE  /\ Orders(R!ProviderOrder(c)) /\ R!Available(c) \subseteq R!Providers
           /\ Announced(R!ProviderOrder(c), R!Available(c), R!ActiveProvider(c))
<1>1. /\ c.priority \in [1 .. 3 -> R!Providers] /\ c.provider \in R!Providers
      /\ c.keys \subseteq {"google", "mapbox"} /\ Orders(c.priority)
  BY ConfigFacts
<1> DEFINE n == R!NormalizePriority(c.priority)
           manual == c.mode = "manual"
           A == R!Available(c)
<1>2. Orders(n)
  <2>1. c.priority \in Seq(R!Providers)
    BY <1>1, OrdersAreSequences
  <2>2. QED
    BY <2>1, PriorityOrders
<1>3. A \subseteq R!Providers /\ "osrm" \in A
  BY <1>1, ThreeProviders DEF R!Available
<1>4. manual \in BOOLEAN
  OBVIOUS
<1> DEFINE s == (IF manual THEN <<c.provider>> ELSE <<>>) \o n
           available == {i \in DOMAIN n : n[i] \in A}
           best == IF manual /\ c.provider \in A THEN c.provider
                   ELSE IF available = {} THEN "osrm" ELSE n[R!Min(available)]
<1>5. R!ProviderOrder(c) = R!Distinct(s) /\ R!ActiveProvider(c) = best
  BY DEF R!ProviderOrder, R!ActiveProvider
<1>6. Orders(R!Distinct(s)) /\ Announced(R!Distinct(s), A, best)
  <2> HIDE DEF n, manual, A
  <2>1. QED
    BY <1>1, <1>2, <1>3, <1>4, FirstAvailable
<1>7. QED
  BY <1>3, <1>5, <1>6

\* registry.go:86-138: whatever providers a client named, and with whichever of
\* them configured, a route tries each provider once, and the one clients are
\* told is active is the first of them that is available.
THEOREM OrderIsAlwaysRight == \A c \in R!Configs : R!OrderIsRight(c)
<1> SUFFICES ASSUME NEW c \in R!Configs  PROVE R!OrderIsRight(c)
  OBVIOUS
<1> DEFINE order == R!ProviderOrder(c)
<1>1. Orders(order) /\ Announced(order, R!Available(c), R!ActiveProvider(c))
  BY OrderFacts
<1> HIDE DEF order
<1>2. order \in Seq(R!Providers) /\ Len(order) = 3 /\ DOMAIN order = 1 .. 3
      /\ \A i, j \in 1 .. 3 : order[i] = order[j] => i = j
  BY <1>1, OrdersAreSequences
<1>3. R!IsInjective(order) /\ R!ToSet(order) = R!Providers
  BY <1>1, <1>2 DEF R!IsInjective, R!ToSet, Orders
<1>4. QED
  BY <1>1, <1>2, <1>3 DEF R!OrderIsRight, Announced, order

-----------------------------------------------------------------------------
(* The routing: what a route has tried.                                    *)

\* Of an order of providers l is left, and t is what was available of the rest.
Come(order, l) == Len(order) - Len(l)
Walks(order, available, l, t) ==
    /\ Len(l) =< Len(order)
    /\ \A i \in 1 .. Len(l) : l[i] = order[Come(order, l) + i]
    /\ \A j \in 1 .. Len(t) : t[j] \in available /\ \E i \in 1 .. Come(order, l) : t[j] = order[i]
    /\ \A i \in 1 .. Come(order, l) : order[i] \in available => \E j \in 1 .. Len(t) : t[j] = order[i]
    /\ \A i, j \in 1 .. Len(t) : t[i] = t[j] => i = j

RouteInv ==
    /\ cfg \in R!Configs /\ taken \in R!Configs
    /\ left \in Seq(R!Providers) /\ tried \in Seq(R!Providers)
    /\ route = "none" => tried = <<>>
    /\ route # "none" => Walks(R!ProviderOrder(taken), R!Available(taken), left, tried)
    /\ route = "failed" => left = <<>>
    /\ tried # <<>> => tried[1] = R!ActiveProvider(taken)

LEMMA RouteConfigs ==
    ASSUME NEW c \in R!Configs
    PROVE  /\ \A k \in {"google", "mapbox"} :
                [c EXCEPT !.keys = IF k \in @ THEN @ \ {k} ELSE @ \union {k}] \in R!Configs
           /\ \A mode \in R!Modes : [c EXCEPT !.mode = mode] \in R!Configs
<1>1. PICK mode \in R!Modes, provider \in Raw, names \in R!SeqOf(Raw, MaxRaw),
           keys \in SUBSET {"google", "mapbox"} :
        c = R!NormalizeConfig(mode, provider, names, keys)
  BY DEF R!Configs
<1>2. \A m \in R!Modes, ks \in SUBSET {"google", "mapbox"} :
        R!NormalizeConfig(m, provider, names, ks) =
          [mode |-> m, provider |-> c.provider, priority |-> c.priority, keys |-> ks]
  BY <1>1 DEF R!NormalizeConfig, R!Modes
<1>3. c = [mode |-> mode, provider |-> c.provider, priority |-> c.priority, keys |-> keys]
  BY <1>1, <1>2
<1>4. \A m \in R!Modes, ks \in SUBSET {"google", "mapbox"} :
        [mode |-> m, provider |-> c.provider, priority |-> c.priority, keys |-> ks] \in R!Configs
  BY <1>1, <1>2 DEF R!Configs
<1>5. ASSUME NEW k \in {"google", "mapbox"}
      PROVE  [c EXCEPT !.keys = IF k \in @ THEN @ \ {k} ELSE @ \union {k}] \in R!Configs
  <2> DEFINE ks == IF k \in keys THEN keys \ {k} ELSE keys \union {k}
  <2>1. ks \in SUBSET {"google", "mapbox"}
    BY <1>1
  <2>2. c.keys = keys
    BY <1>3
  <2>3. [c EXCEPT !.keys = ks] =
          [mode |-> mode, provider |-> c.provider, priority |-> c.priority, keys |-> ks]
    <3>1. ASSUME NEW v, NEW q, c = [mode |-> mode, provider |-> v, priority |-> q, keys |-> keys]
          PROVE  [c EXCEPT !.keys = ks] = [mode |-> mode, provider |-> v, priority |-> q, keys |-> ks]
      BY <3>1
    <3>2. QED
      BY <1>3, <3>1
  <2>4. QED
    BY <1>4, <2>1, <2>2, <2>3
<1>6. ASSUME NEW m \in R!Modes  PROVE [c EXCEPT !.mode = m] \in R!Configs
  <2>1. ASSUME NEW v, NEW q, c = [mode |-> mode, provider |-> v, priority |-> q, keys |-> keys]
        PROVE  [c EXCEPT !.mode = m] = [mode |-> m, provider |-> v, priority |-> q, keys |-> keys]
    BY <2>1
  <2>2. QED
    BY <1>3, <1>4, <2>1
<1>7. QED
  BY <1>5, <1>6

LEMMA RouteInit == R!Init => RouteInv
BY DEF R!Init, RouteInv

\* One step along the order.
LEMMA WalkGoesOn ==
    ASSUME NEW P, NEW available, NEW best, NEW order \in Seq(P), NEW l \in Seq(P),
           NEW t \in Seq(P), NEW u, l # <<>>, Walks(order, available, l, t),
           Announced(order, available, best), t # <<>> => t[1] = best,
           \/ Head(l) \notin available /\ u = t
           \/ Head(l) \in available /\ u = Append(t, Head(l))
    PROVE  /\ u \in Seq(P) /\ Walks(order, available, Tail(l), u)
           /\ u # <<>> => u[1] = best
<1> DEFINE n == Come(order, l)
<1>1. /\ Len(order) \in Nat /\ Len(t) \in Nat /\ Len(l) \in Nat \ {0}
      /\ Len(Tail(l)) = Len(l) - 1 /\ Head(l) = l[1] /\ l[1] \in P
      /\ \A i \in 1 .. Len(Tail(l)) : Tail(l)[i] = l[i + 1]
  OBVIOUS
<1>2. /\ n \in Nat /\ n + 1 \in 1 .. Len(order) /\ Head(l) = order[n + 1]
      /\ Come(order, Tail(l)) = n + 1
  BY <1>1 DEF Walks, Come
<1>3. \A i \in 1 .. Len(Tail(l)) : Tail(l)[i] = order[n + 1 + i]
  <2>1. SUFFICES ASSUME NEW i \in 1 .. Len(Tail(l))  PROVE Tail(l)[i] = order[n + 1 + i]
    OBVIOUS
  <2>2. i + 1 \in 1 .. Len(l) /\ n + 1 + i = n + (i + 1) /\ n \in Nat
    BY <1>1, <1>2
  <2>3. QED
    BY <1>1, <2>2 DEF Walks
<1> HIDE DEF n
<1>4. /\ \A j \in 1 .. Len(t) : t[j] \in available /\ \E i \in 1 .. n : t[j] = order[i]
      /\ \A i \in 1 .. n : order[i] \in available => \E j \in 1 .. Len(t) : t[j] = order[i]
      /\ \A i, j \in 1 .. Len(t) : t[i] = t[j] => i = j
  BY DEF Walks, n
<1>5. \A i \in 1 .. (n + 1) : i \in 1 .. n \/ i = n + 1
  BY <1>2
<1>6. 1 .. n \subseteq 1 .. (n + 1) /\ n + 1 \in 1 .. (n + 1)
  BY <1>2
<1>7. Len(Tail(l)) =< Len(order)
  BY <1>1 DEF Walks
<1>8. CASE Head(l) \notin available /\ u = t
  <2>1. \A j \in 1 .. Len(t) : t[j] \in available /\ \E i \in 1 .. (n + 1) : t[j] = order[i]
    BY <1>4, <1>6
  <2>2. \A i \in 1 .. (n + 1) : order[i] \in available => \E j \in 1 .. Len(t) : t[j] = order[i]
    BY <1>2, <1>4, <1>5, <1>8
  <2>3. Walks(order, available, Tail(l), t)
    BY <1>2, <1>3, <1>4, <1>7, <2>1, <2>2 DEF Walks
  <2>4. QED
    BY <1>8, <2>3
<1>9. CASE Head(l) \in available /\ u = Append(t, Head(l))
  <2>1. /\ u \in Seq(P) /\ Len(u) = Len(t) + 1 /\ u[Len(t) + 1] = order[n + 1]
        /\ \A j \in 1 .. Len(t) : u[j] = t[j]
    BY <1>1, <1>2, <1>9
  <2>2. \A j \in 1 .. Len(u) : j \in 1 .. Len(t) \/ j = Len(t) + 1
    BY <1>1, <2>1
  <2>3. 1 .. Len(t) \subseteq 1 .. Len(u) /\ Len(t) + 1 \in 1 .. Len(u)
    BY <1>1, <2>1
  <2>4. \A j \in 1 .. Len(u) : u[j] \in available /\ \E i \in 1 .. (n + 1) : u[j] = order[i]
    BY <1>2, <1>4, <1>6, <1>9, <2>1, <2>2
  <2>5. \A i \in 1 .. (n + 1) : order[i] \in available => \E j \in 1 .. Len(u) : u[j] = order[i]
    <3>1. SUFFICES ASSUME NEW i \in 1 .. (n + 1), order[i] \in available
                   PROVE  \E j \in 1 .. Len(u) : u[j] = order[i]
      OBVIOUS
    <3>2. CASE i = n + 1
      BY <2>1, <2>3, <3>2
    <3>3. CASE i \in 1 .. n
      <4>1. PICK j \in 1 .. Len(t) : t[j] = order[i]
        BY <1>4, <3>1, <3>3
      <4>2. u[j] = order[i] /\ j \in 1 .. Len(u)
        BY <2>1, <2>3, <4>1
      <4>3. QED
        BY <4>2
    <3>4. QED
      BY <1>5, <3>2, <3>3
  <2>6. \A j \in 1 .. Len(t) : u[j] # order[n + 1]
    <3>1. \A i \in 1 .. n : i \in 1 .. Len(order) /\ i # n + 1
      BY <1>1, <1>2
    <3>2. \A i \in 1 .. n : order[i] # order[n + 1]
      BY <1>2, <3>1 DEF Announced
    <3>3. QED
      BY <1>4, <2>1, <3>2
  <2>7. \A i, j \in 1 .. Len(u) : u[i] = u[j] => i = j
    BY <1>4, <2>1, <2>2, <2>6
  <2>8. Walks(order, available, Tail(l), u)
    BY <1>2, <1>3, <1>7, <2>4, <2>5, <2>7 DEF Walks
  <2>9. u[1] = best
    <3>1. CASE t # <<>>
      BY <1>1, <2>1, <3>1
    <3>2. CASE t = <<>>
      <4>1. \A i \in 1 .. n : order[i] \notin available
        BY <1>4, <3>2
      <4>2. PICK i \in 1 .. Len(order) : /\ order[i] = best /\ order[i] \in available
                                         /\ \A j \in 1 .. (i - 1) : order[j] \notin available
        BY DEF Announced
      <4>3. i = n + 1
        <5>1. ~(i \in 1 .. n)
          BY <4>1, <4>2
        <5>2. ~(n + 1 \in 1 .. (i - 1))
          BY <1>2, <1>9, <4>2
        <5>3. QED
          BY <1>1, <1>2, <5>1, <5>2
      <4>4. u[1] = order[n + 1]
        BY <2>1, <3>2
      <4>5. QED
        BY <4>2, <4>3, <4>4
    <3>3. QED
      BY <3>1, <3>2
  <2>10. QED
    BY <2>1, <2>8, <2>9
<1>10. QED
  BY <1>8, <1>9

LEMMA RouteStep == RouteInv /\ [R!Next]_(R!vars) => RouteInv'
<1> SUFFICES ASSUME RouteInv, [R!Next]_(R!vars) PROVE RouteInv'
  OBVIOUS
<1>1. CASE R!UpdateConfig
  <2>1. cfg' \in R!Configs
    <3>1. cfg \in R!Configs
      BY DEF RouteInv
    <3>2. QED
      BY <1>1, <3>1, RouteConfigs DEF R!UpdateConfig
  <2>2. QED
    BY <1>1, <2>1 DEF R!UpdateConfig, RouteInv
<1>2. CASE R!Route
  <2>1. /\ route = "none" /\ route' = "trying" /\ taken' = cfg /\ left' = R!ProviderOrder(cfg)
        /\ cfg' = cfg /\ tried' = tried /\ tried = <<>> /\ cfg \in R!Configs
    BY <1>2 DEF R!Route, R!registry, RouteInv
  <2>2. R!ProviderOrder(cfg) \in Seq(R!Providers)
    BY <2>1, OrderFacts, OrdersAreSequences
  <2>3. Walks(R!ProviderOrder(cfg), R!Available(cfg), R!ProviderOrder(cfg), <<>>)
    BY <2>2 DEF Walks, Come
  <2>4. QED
    BY <2>1, <2>2, <2>3 DEF RouteInv
<1>3. CASE R!Skip \/ R!Try
  <2>1. /\ route = "trying" /\ left # <<>> /\ left' = Tail(left) /\ taken' = taken /\ cfg' = cfg
        /\ route' \in {"trying", "found"}
        /\ \/ Head(left) \notin R!Available(taken) /\ tried' = tried
           \/ Head(left) \in R!Available(taken) /\ tried' = Append(tried, Head(left))
    BY <1>3 DEF R!Skip, R!Try, R!registry
  <2>2. /\ taken \in R!Configs /\ left \in Seq(R!Providers) /\ tried \in Seq(R!Providers)
        /\ Walks(R!ProviderOrder(taken), R!Available(taken), left, tried)
        /\ tried # <<>> => tried[1] = R!ActiveProvider(taken)
        /\ cfg' \in R!Configs
    BY <2>1 DEF RouteInv
  <2>3. /\ tried' \in Seq(R!Providers)
        /\ Walks(R!ProviderOrder(taken), R!Available(taken), Tail(left), tried')
        /\ tried' # <<>> => tried'[1] = R!ActiveProvider(taken)
    <3> DEFINE order == R!ProviderOrder(taken)
               available == R!Available(taken)
               best == R!ActiveProvider(taken)
               t == tried'
    <3>1. order \in Seq(R!Providers) /\ Announced(order, available, best)
      BY <2>2, OrderFacts, OrdersAreSequences
    <3>2. /\ Walks(order, available, left, tried) /\ (tried # <<>> => tried[1] = best)
          /\ \/ Head(left) \notin available /\ t = tried
             \/ Head(left) \in available /\ t = Append(tried, Head(left))
      BY <2>1, <2>2
    <3> HIDE DEF order, available, best, t
    <3>3. /\ t \in Seq(R!Providers) /\ Walks(order, available, Tail(left), t)
          /\ t # <<>> => t[1] = best
      BY <2>1, <2>2, <3>1, <3>2, WalkGoesOn
    <3>4. QED
      BY <3>3 DEF order, available, best, t
  <2>4. Tail(left) \in Seq(R!Providers)
    BY <2>1, <2>2
  <2>5. QED
    BY <2>1, <2>2, <2>3, <2>4 DEF RouteInv
<1>4. CASE R!Fail
  BY <1>4 DEF R!Fail, R!registry, RouteInv
<1>5. CASE UNCHANGED R!vars
  BY <1>5 DEF R!vars, R!registry, RouteInv
<1>6. QED
  BY <1>1, <1>2, <1>3, <1>4, <1>5 DEF R!Next

LEMMA RouteComplete == RouteInv => R!FallbackIsComplete
<1> SUFFICES ASSUME RouteInv PROVE R!FallbackIsComplete
  OBVIOUS
<1> DEFINE order == R!ProviderOrder(taken)
<1>1. DOMAIN tried = 1 .. Len(tried) /\ taken \in R!Configs
  BY DEF RouteInv
<1>2. R!IsInjective(tried)
  <2>1. CASE route = "none"
    <3>1. 1 .. Len(tried) = {}
      BY <2>1 DEF RouteInv
    <3>2. QED
      BY <1>1, <3>1 DEF R!IsInjective
  <2>2. CASE route # "none"
    BY <1>1, <2>2 DEF RouteInv, Walks, R!IsInjective
  <2>3. QED
    BY <2>1, <2>2
<1>3. ASSUME route = "failed"  PROVE R!ToSet(tried) = R!Available(taken)
  <2>1. Walks(order, R!Available(taken), <<>>, tried)
    BY <1>3 DEF RouteInv
  <2>2. Come(order, <<>>) = Len(order)
    BY <1>1, OrderFacts, OrdersAreSequences DEF Come
  <2>3. \A p \in R!Available(taken) : \E i \in 1 .. Len(order) : p = order[i]
    BY <1>1, OrderFacts, OrdersAreSequences DEF Orders
  <2> HIDE DEF order
  <2>4. QED
    BY <1>1, <2>1, <2>2, <2>3 DEF Walks, R!ToSet
<1>4. QED
  BY <1>2, <1>3 DEF RouteInv, R!FallbackIsComplete

\* The types of the rest.
RouteTypes ==
    /\ updates \in 0 .. MaxUpdates
    /\ route \in {"none", "trying", "found", "failed"}
    /\ Len(left) =< 3
    /\ path \in Paths \union {<<>>}

LEMMA RouteTypesStep ==
    ASSUME R!RoutingAssumption, RouteInv, RouteTypes, [R!Next]_(R!vars)
    PROVE  RouteTypes'
<1>1. CASE R!UpdateConfig
  BY <1>1 DEF R!UpdateConfig, RouteTypes, R!RoutingAssumption
<1>2. CASE R!Route
  <2>1. cfg \in R!Configs /\ left' = R!ProviderOrder(cfg)
    BY <1>2 DEF R!Route, RouteInv
  <2>2. Len(R!ProviderOrder(cfg)) = 3
    BY <2>1, OrderFacts, OrdersAreSequences
  <2>3. QED
    BY <1>2, <2>1, <2>2 DEF R!Route, R!registry, RouteTypes
<1>3. CASE R!Skip \/ R!Try
  <2>1. left \in Seq(R!Providers) /\ left # <<>> /\ left' = Tail(left)
    BY <1>3 DEF R!Skip, R!Try, RouteInv
  <2>2. Len(left') =< 3
    BY <2>1 DEF RouteTypes
  <2>3. route' \in {"trying", "found"} /\ updates' = updates /\ (path' \in Paths \/ path' = path)
    BY <1>3 DEF R!Skip, R!Try, R!registry
  <2>4. QED
    BY <2>2, <2>3 DEF RouteTypes
<1>4. CASE R!Fail
  BY <1>4 DEF R!Fail, R!registry, RouteTypes
<1>5. CASE UNCHANGED R!vars
  BY <1>5 DEF R!vars, R!registry, RouteTypes
<1>6. QED
  BY <1>1, <1>2, <1>3, <1>4, <1>5 DEF R!Next

\* What a configuration in use looks like.
LEMMA ConfigsAreNormalized == ASSUME NEW c \in R!Configs  PROVE c \in R!Normalized
<1>1. /\ c \in [mode : R!Modes, provider : R!Providers, keys : SUBSET {"google", "mapbox"},
                priority : [1 .. 3 -> R!Providers]]
      /\ Orders(c.priority)
  BY ConfigFacts
<1>2. c.priority \in R!SeqOf(R!Providers, 3)
  BY <1>1 DEF R!SeqOf
<1>3. R!ToSet(c.priority) = R!Providers
  BY <1>1 DEF Orders, R!ToSet
<1>4. QED
  BY <1>1, <1>2, <1>3 DEF R!Normalized

\* No provider is tried twice, so at most three are.
LEMMA AtMostThreeTried == RouteInv => Len(tried) =< 3
<1> SUFFICES ASSUME RouteInv, Len(tried) > 3 PROVE FALSE
  BY DEF RouteInv
<1>1. tried \in Seq(R!Providers) /\ DOMAIN tried = 1 .. Len(tried) /\ R!IsInjective(tried)
  BY RouteComplete DEF RouteInv, R!FallbackIsComplete
<1>2. 1 \in DOMAIN tried /\ 2 \in DOMAIN tried /\ 3 \in DOMAIN tried /\ 4 \in DOMAIN tried
  BY <1>1
<1>3. tried[1] # tried[2] /\ tried[1] # tried[3] /\ tried[1] # tried[4]
      /\ tried[2] # tried[3] /\ tried[2] # tried[4] /\ tried[3] # tried[4]
  BY <1>1, <1>2 DEF R!IsInjective
<1>4. \A i \in DOMAIN tried : tried[i] \in {"google", "mapbox", "osrm"}
  BY <1>1, ThreeProviders
<1>5. QED
  BY <1>2, <1>3, <1>4

LEMMA RouteTypeOK == ASSUME RouteInv, RouteTypes  PROVE R!TypeOK
<1>1. cfg \in R!Normalized /\ taken \in R!Normalized
  BY ConfigsAreNormalized DEF RouteInv
<1>2. \A q \in Seq(R!Providers) : Len(q) =< 3 => q \in R!SeqOf(R!Providers, 3)
  <2>1. SUFFICES ASSUME NEW q \in Seq(R!Providers), Len(q) =< 3
                 PROVE  q \in R!SeqOf(R!Providers, 3)
    OBVIOUS
  <2>2. q \in [1 .. Len(q) -> R!Providers] /\ Len(q) \in Nat
    BY LenProperties
  <2>3. QED
    BY <2>1, <2>2 DEF R!SeqOf
<1>3. left \in R!SeqOf(R!Providers, 3) /\ tried \in R!SeqOf(R!Providers, 3)
  BY <1>2, AtMostThreeTried DEF RouteInv, RouteTypes
<1>4. QED
  BY <1>1, <1>3 DEF RouteTypes, R!TypeOK

-----------------------------------------------------------------------------
(* The routing: geometry.                                                 *)

\* What a decoder holds while it reads.
Point == [lat : Int, lon : Int]
States == [bits : Int, weight : Int, half : Seq(Int), points : Seq(Point)]

\* One character keeps the types.
LEMMA ReadStays == ASSUME NEW s \in States, NEW b \in Int  PROVE R!Read(s, b) \in States
<1>1. s.bits \in Int /\ s.weight \in Int /\ s.half \in Seq(Int) /\ s.points \in Seq(Point)
  BY DEF States
<1> DEFINE bits == s.bits + (b % 32) * s.weight
           v == R!Unzigzag(bits)
           last == IF s.points = <<>> THEN [lat |-> 0, lon |-> 0] ELSE s.points[Len(s.points)]
           next == Append(s.points, [lat |-> last.lat + s.half[1], lon |-> last.lon + v])
<1>2. bits \in Int
  BY <1>1
<1>3. v \in Int
  BY <1>2 DEF R!Unzigzag
<1>4. last \in Point
  <2>1. CASE s.points = <<>>
    BY <2>1 DEF Point
  <2>2. CASE s.points # <<>>
    <3>1. Len(s.points) \in 1 .. Len(s.points)
      BY <1>1, <2>2
    <3>2. QED
      BY <1>1, <2>2, <3>1
  <2>3. QED
    BY <2>1, <2>2
<1>5. s.half # <<>> => next \in Seq(Point)
  <2> HIDE DEF v, last
  <2>1. QED
    BY <1>1, <1>3, <1>4 DEF Point
<1>6. R!Read(s, b) = IF b >= 32 THEN [s EXCEPT !.bits = bits, !.weight = 32 * @]
                     ELSE IF s.half = <<>> THEN [R!Begun EXCEPT !.half = <<v>>, !.points = s.points]
                     ELSE [R!Begun EXCEPT !.points = next]
  BY DEF R!Read
<1> HIDE DEF bits, v, last, next
<1>7. R!Begun = [bits |-> 0, weight |-> 1, half |-> <<>>, points |-> <<>>]
  BY DEF R!Begun
<1>8. CASE b >= 32
  <2>1. R!Read(s, b) = [s EXCEPT !.bits = bits, !.weight = 32 * s.weight]
    BY <1>6, <1>8
  <2>2. \A w \in Int : [s EXCEPT !.bits = bits, !.weight = w] \in States
    BY <1>2 DEF States
  <2>3. 32 * s.weight \in Int
    BY <1>1
  <2>4. QED
    BY <2>1, <2>2, <2>3
<1>9. CASE ~ (b >= 32) /\ s.half = <<>>
  <2>1. R!Read(s, b) = [bits |-> 0, weight |-> 1, half |-> <<v>>, points |-> s.points]
    BY <1>6, <1>7, <1>9
  <2>2. QED
    BY <1>1, <1>3, <2>1 DEF States
<1>10. CASE ~ (b >= 32) /\ s.half # <<>>
  <2>1. R!Read(s, b) = [bits |-> 0, weight |-> 1, half |-> <<>>, points |-> next]
    BY <1>6, <1>7, <1>10
  <2>2. QED
    BY <1>5, <1>10, <2>1 DEF States
<1>11. QED
  BY <1>8, <1>9, <1>10

\* Reading is what its definition says: such a function exists.
LEMMA ReadingFacts ==
    ASSUME NEW code \in Seq(Int)
    PROVE  /\ R!Reading(code)[0] = R!Begun
           /\ \A k \in 1 .. Len(code) : R!Reading(code)[k] = R!Read(R!Reading(code)[k - 1], code[k])
<1> DEFINE n == Len(code)
           go == [e \in (1 .. n) \X States |-> R!Read(e[2], code[e[1]])]
<1>1. n \in Nat /\ \A k \in 1 .. n : code[k] \in Int
  OBVIOUS
<1>2. go \in [(1 .. n) \X States -> States]
  <2> HIDE DEF n
  <2>1. QED
    BY <1>1, ReadStays
<1>3. R!Begun \in States
  BY DEF R!Begun, States
<1>4. \A k \in 1 .. n, s \in States : go[<<k, s>>] = R!Read(s, code[k])
  OBVIOUS
<1> HIDE DEF n, go
<1>5. PICK f \in [0 .. n -> States] : Iterates(f, n, R!Begun, go)
  <2> HIDE DEF States
  <2>1. QED
    BY <1>1, <1>2, <1>3, Iterated
<1>6. f = [k \in 0 .. n |-> IF k = 0 THEN R!Begun ELSE R!Read(f[k - 1], code[k])]
  <2>1. ASSUME NEW k \in 0 .. n, k # 0  PROVE go[<<k, f[k - 1]>>] = R!Read(f[k - 1], code[k])
    BY <1>1, <1>4, <2>1
  <2>2. QED
    BY <1>5, <2>1 DEF Iterates
<1>7. R!Reading(code) =
        [k \in 0 .. n |-> IF k = 0 THEN R!Begun ELSE R!Read(R!Reading(code)[k - 1], code[k])]
  BY <1>6 DEF R!Reading, n
<1>8. QED
  BY <1>1, <1>7 DEF n

\* Likewise for the characters of a value, each of which drops five bits.
LEMMA CharsFacts ==
    ASSUME NEW z \in Nat, NEW x \in 0 .. z
    PROVE  /\ x < 32 => R!Chars(z)[x] = <<x>>
           /\ x >= 32 => R!Chars(z)[x] = <<(x % 32) + 32>> \o R!Chars(z)[x \div 32]
<1> DEFINE Fits(f, m) == f = [y \in 0 .. m |-> IF y < 32 THEN <<y>>
                                           ELSE <<(y % 32) + 32>> \o f[y \div 32]]
           T == {m \in 0 .. z : \E f : Fits(f, m)}
<1>1. 0 \in T
  <2> DEFINE f == [y \in 0 .. 0 |-> <<y>>]
  <2>1. f[0] = <<0>> /\ \A y \in 0 .. 0 : y < 32 /\ f[y] = <<y>>
    OBVIOUS
  <2>2. Fits(f, 0)
    BY <2>1
  <2> HIDE DEF Fits, f
  <2>3. QED
    BY <2>2
<1>2. ASSUME NEW m \in 0 .. z, m < z, m \in T  PROVE m + 1 \in T
  <2>1. PICK f : Fits(f, m)
    BY <1>2
  <2> DEFINE g == [y \in 0 .. (m + 1) |-> IF y = m + 1
                     THEN IF y < 32 THEN <<y>> ELSE <<(y % 32) + 32>> \o f[y \div 32]
                     ELSE f[y]]
  <2>2. ASSUME NEW y \in 0 .. (m + 1)
        PROVE  g[y] = IF y < 32 THEN <<y>> ELSE <<(y % 32) + 32>> \o g[y \div 32]
    <3>1. y >= 32 => y \div 32 \in 0 .. m
      BY <1>2
    <3>2. \A j \in 0 .. m : g[j] = f[j]
      OBVIOUS
    <3>3. y = m + 1 => g[y] = IF y < 32 THEN <<y>> ELSE <<(y % 32) + 32>> \o f[y \div 32]
      OBVIOUS
    <3> HIDE DEF g
    <3>4. CASE y = m + 1
      BY <3>1, <3>2, <3>3, <3>4
    <3>5. CASE y \in 0 .. m
      <4>1. f[y] = IF y < 32 THEN <<y>> ELSE <<(y % 32) + 32>> \o f[y \div 32]
        BY <2>1, <3>5
      <4>2. QED
        BY <3>1, <3>2, <3>5, <4>1
    <3>6. QED
      BY <3>4, <3>5
  <2>3. Fits(g, m + 1)
    BY <2>2
  <2>4. m + 1 \in 0 .. z
    BY <1>2
  <2> HIDE DEF Fits, g
  <2>5. QED
    BY <2>3, <2>4
<1>3. PICK f : Fits(f, z)
  <2> HIDE DEF T
  <2>1. z \in T
    BY <1>1, <1>2, Upwards
  <2> HIDE DEF Fits
  <2>2. QED
    BY <2>1 DEF T
<1>4. Fits(R!Chars(z), z)
  BY <1>3 DEF R!Chars
<1> DEFINE c == R!Chars(z)
<1>5. c[x] = IF x < 32 THEN <<x>> ELSE <<(x % 32) + 32>> \o c[x \div 32]
  <2> HIDE DEF c
  <2>1. Fits(c, z)
    BY <1>4 DEF c
  <2>2. QED
    BY <2>1
<1>6. QED
  BY <1>5

\* The characters of z: a sequence, not empty.
LEMMA CharsSequences ==
    ASSUME NEW z \in Nat, NEW x \in 0 .. z
    PROVE  R!Chars(z)[x] \in Seq(Int) /\ Len(R!Chars(z)[x]) > 0
<1> DEFINE Good(y) == R!Chars(z)[y] \in Seq(Int) /\ Len(R!Chars(z)[y]) > 0
           U == {y \in 0 .. z : ~Good(y)}
<1> SUFFICES ASSUME U # {}  PROVE FALSE
  OBVIOUS
<1> HIDE DEF Good
<1>1. U \subseteq Nat
  OBVIOUS
<1>2. PICK y \in U : \A m \in U : y =< m
  <2> HIDE DEF U
  <2>1. QED
    BY <1>1, LeastMember
<1>3. y \in 0 .. z /\ ~Good(y) /\ \A m \in 0 .. z : m < y => Good(m)
  BY <1>2
<1>4. CASE y < 32
  <2>1. R!Chars(z)[y] = <<y>>
    BY <1>3, <1>4, CharsFacts
  <2>2. y \in Int
    BY <1>3
  <2>3. QED
    BY <1>3, <2>1, <2>2 DEF Good
<1>5. CASE y >= 32
  <2>1. y \div 32 \in 0 .. z /\ y \div 32 < y /\ (y % 32) + 32 \in Int
    BY <1>3, <1>5
  <2> DEFINE d == R!Chars(z)[y \div 32]
             a == <<(y % 32) + 32>>
             e == R!Chars(z)[y]
  <2>2. d \in Seq(Int) /\ Len(d) > 0
    BY <1>3, <2>1 DEF Good
  <2>3. e = a \o d
    BY <1>3, <1>5, CharsFacts
  <2>4. a \in Seq(Int) /\ Len(a) = 1
    BY <2>1
  <2> HIDE DEF a, d, e
  <2>5. d \in Seq(Int) /\ a \in Seq(Int)
    BY <2>2, <2>4
  <2>6. e \in Seq(Int) /\ Len(e) = Len(a) + Len(d)
    BY <2>3, <2>5, Joined
  <2>7. Len(e) > 0
    BY <2>2, <2>4, <2>6
  <2>8. QED
    BY <1>3, <2>6, <2>7 DEF Good, e
<1>6. QED
  BY <1>3, <1>4, <1>5

\* The sign comes back from the lowest bit.
LEMMA ZigzagIsANumber == ASSUME NEW v \in Int  PROVE R!Zigzag(v) \in Nat /\ R!Unzigzag(R!Zigzag(v)) = v
BY DEF R!Zigzag, R!Unzigzag

\* What a decoder holds between two characters, and what it holds after the last
\* character of a value.
Holding(bits, weight, half, out) ==
    [bits |-> bits, weight |-> weight, half |-> half, points |-> out]
Ended(half, q, v) ==
    LET last == IF q = <<>> THEN [lat |-> 0, lon |-> 0] ELSE q[Len(q)] IN
    IF half = <<>> THEN Holding(0, 1, <<v>>, q)
    ELSE Holding(0, 1, <<>>, Append(q, [lat |-> last.lat + half[1], lon |-> last.lon + v]))

\* After i the code reads e.
Reads(code, i, e) == i + Len(e) =< Len(code) /\ \A j \in 1 .. Len(e) : code[i + j] = e[j]

\* The characters e add x times the weight, and end a value.
Adds(code, e, x) ==
    \A i \in Nat, bits \in Int, weight \in Int : \A half, q :
        Reads(code, i, e) /\ R!Reading(code)[i] = Holding(bits, weight, half, q) =>
        R!Reading(code)[i + Len(e)] = Ended(half, q, R!Unzigzag(bits + (x * weight)))

\* One below 32 ends its value; one from 32 adds its five bits and goes on.
LEMMA LastCharacter ==
    ASSUME NEW b \in 0 .. 31, NEW bits \in Int, NEW weight \in Int, NEW half, NEW q
    PROVE  R!Read(Holding(bits, weight, half, q), b) = Ended(half, q, R!Unzigzag(bits + b * weight))
<1>1. b % 32 = b /\ ~ (b >= 32)
  OBVIOUS
<1> DEFINE v == R!Unzigzag(bits + b * weight)
           last == IF q = <<>> THEN [lat |-> 0, lon |-> 0] ELSE q[Len(q)]
<1>2. R!Read(Holding(bits, weight, half, q), b) =
        IF half = <<>> THEN [R!Begun EXCEPT !.half = <<v>>, !.points = q]
        ELSE [R!Begun EXCEPT !.points = Append(q, [lat |-> last.lat + half[1], lon |-> last.lon + v])]
  BY <1>1 DEF R!Read, Holding
<1>3. Ended(half, q, v) =
        IF half = <<>> THEN Holding(0, 1, <<v>>, q)
        ELSE Holding(0, 1, <<>>, Append(q, [lat |-> last.lat + half[1], lon |-> last.lon + v]))
  BY DEF Ended
<1> HIDE DEF v, last
<1>4. R!Begun = Holding(0, 1, <<>>, <<>>)
  BY DEF R!Begun, Holding
<1>5. QED
  BY <1>2, <1>3, <1>4 DEF Holding, v

LEMMA EarlierCharacter ==
    ASSUME NEW b \in Int, b >= 32, NEW bits \in Int, NEW weight \in Int, NEW half, NEW q
    PROVE  R!Read(Holding(bits, weight, half, q), b) =
             Holding(bits + (b % 32) * weight, 32 * weight, half, q)
BY DEF R!Read, Holding

\* Whatever the number of characters.
LEMMA CharsAdd ==
    ASSUME NEW code \in Seq(Int), NEW z \in Nat, NEW x \in 0 .. z
    PROVE  Adds(code, R!Chars(z)[x], x)
<1> DEFINE U == {y \in 0 .. z : ~Adds(code, R!Chars(z)[y], y)}
<1> SUFFICES ASSUME U # {}  PROVE FALSE
  OBVIOUS
<1>1. U \subseteq Nat
  OBVIOUS
<1>2. PICK y \in U : \A m \in U : y =< m
  <2> HIDE DEF U
  <2>1. QED
    BY <1>1, LeastMember
<1>3. /\ y \in 0 .. z /\ ~Adds(code, R!Chars(z)[y], y)
      /\ \A m \in 0 .. z : m < y => Adds(code, R!Chars(z)[m], m)
  BY <1>2
<1> HIDE DEF U
<1> DEFINE e == R!Chars(z)[y]
           st == R!Reading(code)
<1>4. e \in Seq(Int) /\ Len(e) > 0
  BY <1>3, CharsSequences
<1>5. ASSUME NEW i \in Nat, NEW bits \in Int, NEW weight \in Int, NEW half, NEW q,
             Reads(code, i, e), st[i] = Holding(bits, weight, half, q)
      PROVE  st[i + Len(e)] = Ended(half, q, R!Unzigzag(bits + y * weight))
  <2>1. i + 1 \in 1 .. Len(code) /\ st[i + 1] = R!Read(st[i], code[i + 1]) /\ code[i + 1] = e[1]
    <3>1. i + 1 \in 1 .. Len(code) /\ 1 \in 1 .. Len(e) /\ (i + 1) - 1 = i
      BY <1>4, <1>5 DEF Reads
    <3>2. \A k \in 1 .. Len(code) : st[k] = R!Read(st[k - 1], code[k])
      BY ReadingFacts
    <3> HIDE DEF e, st
    <3>3. st[i + 1] = R!Read(st[i], code[i + 1])
      BY <3>1, <3>2
    <3>4. QED
      BY <1>5, <3>1, <3>3 DEF Reads
  <2>2. CASE y < 32
    <3>1. e = <<y>>
      BY <1>3, <2>2, CharsFacts
    <3> HIDE DEF e, st
    <3>2. Len(e) = 1 /\ e[1] = y
      BY <3>1
    <3>3. y \in 0 .. 31
      BY <1>3, <2>2
    <3>4. R!Read(Holding(bits, weight, half, q), y) =
            Ended(half, q, R!Unzigzag(bits + y * weight))
      BY <3>3, LastCharacter
    <3>5. QED
      BY <1>5, <2>1, <3>2, <3>4
  <2>3. CASE y >= 32
    <3> DEFINE k == y \div 32
               r == y % 32
               d == R!Chars(z)[k]
               a == <<r + 32>>
    <3>1. k \in 0 .. z /\ k < y /\ r \in 0 .. 31 /\ y = (32 * k) + r /\ (r + 32) % 32 = r
      BY <1>3, <2>3
    <3>2. e = a \o d
      BY <1>3, <2>3, CharsFacts
    <3> HIDE DEF k, r
    <3>3. d \in Seq(Int) /\ Adds(code, d, k)
      BY <1>3, <3>1, CharsSequences
    <3>4. a \in Seq(Int) /\ Len(a) = 1 /\ a[1] = r + 32
      BY <3>1
    <3> HIDE DEF e, st, d, a
    <3>5. /\ Len(e) = Len(a) + Len(d)
          /\ \A j \in 1 .. Len(a) : e[j] = a[j]
          /\ \A j \in 1 .. Len(d) : e[Len(a) + j] = d[j]
      <4>1. a \in Seq(Int) /\ d \in Seq(Int)
        BY <3>3, <3>4
      <4>2. QED
        BY <3>2, <4>1, Joined
    <3>6. Len(e) = 1 + Len(d) /\ Len(d) \in Nat /\ 1 \in 1 .. Len(a)
      BY <3>3, <3>4, <3>5
    <3>7. e[1] = r + 32
      BY <3>4, <3>5, <3>6
    <3>8. \A j \in 1 .. Len(d) : code[(i + 1) + j] = d[j]
      <4> SUFFICES ASSUME NEW j \in 1 .. Len(d)  PROVE code[(i + 1) + j] = d[j]
        OBVIOUS
      <4>1. 1 + j \in 1 .. Len(e) /\ i + (1 + j) = (i + 1) + j
        BY <3>6
      <4>2. e[1 + j] = d[j]
        BY <3>4, <3>5
      <4>3. QED
        BY <1>5, <4>1, <4>2 DEF Reads
    <3> DEFINE bitsRead == bits + (r * weight)
               weightNow == 32 * weight
    <3>9. st[i + 1] = Holding(bitsRead, weightNow, half, q)
      <4>1. r + 32 \in Int /\ r + 32 >= 32 /\ (r + 32) % 32 = r
        BY <3>1
      <4> DEFINE b == r + 32
      <4> HIDE DEF b
      <4>2. R!Read(Holding(bits, weight, half, q), b) =
              Holding(bits + (b % 32) * weight, 32 * weight, half, q)
        BY <4>1, EarlierCharacter DEF b
      <4>3. b % 32 = r
        BY <4>1 DEF b
      <4>4. QED
        BY <1>5, <2>1, <3>7, <4>2, <4>3 DEF b
    <3>10. r * weight \in Int
      BY <3>1
    <3>11. bitsRead \in Int /\ weightNow \in Int
      BY <3>10
    <3>12. i + 1 \in Nat /\ (i + 1) + Len(d) =< Len(code) /\ (i + 1) + Len(d) = i + Len(e)
      BY <1>5, <3>6 DEF Reads
    <3>13. bitsRead + (k * weightNow) = bits + (y * weight)
      <4>1. ASSUME NEW x1 \in Int, NEW x2 \in Int, NEW w \in Int
            PROVE  (bits + (x1 * w)) + (x2 * (32 * w)) = bits + (((32 * x2) + x1) * w)
        OBVIOUS
      <4>2. QED
        BY <3>1, <4>1
    <3> HIDE DEF bitsRead, weightNow
    <3>14. Reads(code, i + 1, d)
      BY <3>8, <3>12 DEF Reads
    <3>15. st[(i + 1) + Len(d)] = Ended(half, q, R!Unzigzag(bitsRead + (k * weightNow)))
      <4> DEFINE ii == i + 1
      <4> HIDE DEF ii
      <4>1. Reads(code, ii, d) /\ R!Reading(code)[ii] = Holding(bitsRead, weightNow, half, q)
        BY <3>9, <3>14 DEF ii, st
      <4>2. R!Reading(code)[ii + Len(d)] = Ended(half, q, R!Unzigzag(bitsRead + (k * weightNow)))
        BY <3>3, <3>11, <3>12, <4>1 DEF Adds, ii
      <4>3. QED
        BY <4>2 DEF ii, st
    <3>16. QED
      BY <3>12, <3>13, <3>15
  <2>4. QED
    BY <1>3, <2>2, <2>3
<1>6. QED
  <2> HIDE DEF e
  <2>1. Adds(code, e, y)
    BY <1>5 DEF Adds
  <2>2. QED
    BY <1>3, <2>1 DEF e

\* The encoder.
LEMMA ValuesAdd ==
    ASSUME NEW v \in Int
    PROVE  /\ R!EncodeValue(v) \in Seq(Int)
           /\ \A code \in Seq(Int) : Adds(code, R!EncodeValue(v), R!Zigzag(v))
<1> DEFINE z == R!Zigzag(v)
<1>1. z \in Nat
  BY ZigzagIsANumber
<1>2. R!EncodeValue(v) = R!Chars(z)[z]
  BY DEF R!EncodeValue
<1> HIDE DEF z
<1>3. z \in 0 .. z
  BY <1>1
<1>4. R!Chars(z)[z] \in Seq(Int) /\ \A code \in Seq(Int) : Adds(code, R!Chars(z)[z], z)
  BY <1>1, <1>3, CharsSequences, CharsAdd
<1>5. QED
  BY <1>2, <1>4 DEF z

\* The differences of the k-th point from the one before.
LatDiff(p, k) == p[k].lat - R!From(p, k).lat
LonDiff(p, k) == p[k].lon - R!From(p, k).lon

\* They are whole numbers, and lead from one point to the next.
LEMMA Differences ==
    ASSUME NEW p \in Seq(Point), NEW k \in 1 .. Len(p)
    PROVE  /\ LatDiff(p, k) \in Int /\ LonDiff(p, k) \in Int
           /\ R!From(p, k).lat + LatDiff(p, k) = p[k].lat
           /\ R!From(p, k).lon + LonDiff(p, k) = p[k].lon
<1>1. \A j \in 1 .. Len(p) : p[j].lat \in Int /\ p[j].lon \in Int
  <2>1. SUFFICES ASSUME NEW j \in 1 .. Len(p)  PROVE p[j].lat \in Int /\ p[j].lon \in Int
    OBVIOUS
  <2>2. p[j] \in Point
    OBVIOUS
  <2>3. QED
    BY <2>2 DEF Point
<1>2. R!From(p, k).lat \in Int /\ R!From(p, k).lon \in Int
  <2>1. CASE k = 1
    BY <2>1 DEF R!From
  <2>2. CASE k # 1
    <3>1. k - 1 \in 1 .. Len(p)
      BY <2>2
    <3>2. QED
      BY <1>1, <2>2, <3>1 DEF R!From
  <2>3. QED
    BY <2>1, <2>2
<1> HIDE DEF Point
<1>3. QED
  BY <1>1, <1>2 DEF LatDiff, LonDiff

\* Likewise for the code of a path.
LEMMA EncodingFacts ==
    ASSUME NEW p \in Seq(Point)
    PROVE  /\ R!Encoding(p)[0] = <<>>
           /\ \A k \in 1 .. Len(p) :
                R!Encoding(p)[k] = R!Encoding(p)[k - 1] \o R!EncodeValue(LatDiff(p, k))
                                                        \o R!EncodeValue(LonDiff(p, k))
<1> DEFINE n == Len(p)
           Longer(c, k) == c \o R!EncodeValue(LatDiff(p, k)) \o R!EncodeValue(LonDiff(p, k))
           go == [e \in (1 .. n) \X Seq(Int) |-> Longer(e[2], e[1])]
<1>1. n \in Nat
  OBVIOUS
<1>2. \A c \in Seq(Int), k \in 1 .. n : Longer(c, k) \in Seq(Int)
  <2>1. \A k \in 1 .. n : R!EncodeValue(LatDiff(p, k)) \in Seq(Int)
                          /\ R!EncodeValue(LonDiff(p, k)) \in Seq(Int)
    BY Differences, ValuesAdd
  <2>2. QED
    BY <2>1
<1> HIDE DEF Longer
<1>3. go \in [(1 .. n) \X Seq(Int) -> Seq(Int)]
  <2> HIDE DEF n
  <2>1. QED
    BY <1>2
<1>4. \A k \in 1 .. n, c \in Seq(Int) : go[<<k, c>>] = Longer(c, k)
  OBVIOUS
<1> HIDE DEF n, go
<1>5. PICK f \in [0 .. n -> Seq(Int)] : Iterates(f, n, <<>>, go)
  <2>1. <<>> \in Seq(Int)
    OBVIOUS
  <2>2. QED
    BY <1>1, <1>3, <2>1, Iterated
<1>6. f = [k \in 0 .. n |-> IF k = 0 THEN <<>> ELSE Longer(f[k - 1], k)]
  <2>1. ASSUME NEW k \in 0 .. n, k # 0  PROVE go[<<k, f[k - 1]>>] = Longer(f[k - 1], k)
    <3>1. k \in 1 .. n /\ k - 1 \in 0 .. n
      BY <1>1, <2>1
    <3>2. QED
      BY <1>4, <3>1
  <2>2. QED
    BY <1>5, <2>1 DEF Iterates
<1>7. R!Encoding(p) = [k \in 0 .. n |-> IF k = 0 THEN <<>> ELSE Longer(R!Encoding(p)[k - 1], k)]
  BY <1>6 DEF R!Encoding, n, Longer, LatDiff, LonDiff
<1>8. R!Encoding(p)[0] = <<>>
  BY <1>1, <1>7
<1>9. \A k \in 1 .. n : R!Encoding(p)[k] = Longer(R!Encoding(p)[k - 1], k)
  BY <1>1, <1>7
<1>10. QED
  BY <1>8, <1>9 DEF n, Longer

\* c begins d.
Starts(c, d) == Len(c) =< Len(d) /\ \A j \in 1 .. Len(c) : c[j] = d[j]

\* What has been encoded is the beginning of the code.
LEMMA EncodingGrows ==
    ASSUME NEW p \in Seq(Point), NEW k \in 1 .. Len(p)
    PROVE  LET c == R!Encoding(p)[k - 1]  d == R!Encoding(p)[k]
               a == R!EncodeValue(LatDiff(p, k))  b == R!EncodeValue(LonDiff(p, k))
           IN  c \in Seq(Int) =>
                 /\ d \in Seq(Int) /\ Starts(c, d) /\ Len(d) = Len(c) + Len(a) + Len(b)
                 /\ Reads(d, Len(c), a) /\ Reads(d, Len(c) + Len(a), b)
<1> DEFINE c == R!Encoding(p)[k - 1]
           d == R!Encoding(p)[k]
           a == R!EncodeValue(LatDiff(p, k))
           b == R!EncodeValue(LonDiff(p, k))
           ca == c \o a
<1>1. d = ca \o b
  BY EncodingFacts
<1>2. a \in Seq(Int) /\ b \in Seq(Int)
  BY Differences, ValuesAdd
<1>3. ca = c \o a
  OBVIOUS
<1> HIDE DEF a, b, c, d, ca
<1>4. SUFFICES ASSUME c \in Seq(Int)
               PROVE  /\ d \in Seq(Int) /\ Starts(c, d) /\ Len(d) = Len(c) + Len(a) + Len(b)
                      /\ Reads(d, Len(c), a) /\ Reads(d, Len(c) + Len(a), b)
  BY DEF a, b, c, d
<1>5. /\ ca \in Seq(Int) /\ Len(ca) = Len(c) + Len(a)
      /\ \A i \in 1 .. Len(c) : ca[i] = c[i]
      /\ \A i \in 1 .. Len(a) : ca[Len(c) + i] = a[i]
  BY <1>2, <1>3, <1>4, Joined
<1>6. /\ d \in Seq(Int) /\ Len(d) = Len(ca) + Len(b)
      /\ \A i \in 1 .. Len(ca) : d[i] = ca[i]
      /\ \A i \in 1 .. Len(b) : d[Len(ca) + i] = b[i]
  <2>1. ca \in Seq(Int) /\ b \in Seq(Int)
    BY <1>2, <1>5
  <2>2. QED
    BY <1>1, <2>1, Joined
<1>7. Len(a) \in Nat /\ Len(b) \in Nat /\ Len(c) \in Nat
  BY <1>2, <1>4
<1>8. /\ \A i \in 1 .. Len(c) : i \in 1 .. Len(ca)
      /\ \A i \in 1 .. Len(a) : Len(c) + i \in 1 .. Len(ca)
  BY <1>5, <1>7
<1>9. Starts(c, d)
  BY <1>5, <1>6, <1>7, <1>8 DEF Starts
<1>10. Reads(d, Len(c), a)
  <2>1. Len(c) + Len(a) =< Len(d)
    BY <1>5, <1>6, <1>7
  <2>2. \A i \in 1 .. Len(a) : d[Len(c) + i] = a[i]
    BY <1>5, <1>6, <1>8
  <2>3. QED
    BY <2>1, <2>2 DEF Reads
<1>11. Reads(d, Len(c) + Len(a), b)
  BY <1>5, <1>6, <1>7 DEF Reads
<1>12. QED
  BY <1>5, <1>6, <1>9, <1>10, <1>11

\* So what has been encoded after k points begins the code of the path.
LEMMA EncodingBegins ==
    ASSUME NEW p \in Seq(Point)
    PROVE  \A k \in 0 .. Len(p) :
             R!Encoding(p)[k] \in Seq(Int) /\ Starts(R!Encoding(p)[k], R!Encoded(p))
<1> DEFINE c(k) == R!Encoding(p)[k]
           n == Len(p)
           T == {m \in 0 .. n : c(m) \in Seq(Int) /\ \A k \in 0 .. m : Starts(c(k), c(m))}
<1>1. n \in Nat
  OBVIOUS
<1>2. \A k \in 1 .. n : c(k - 1) \in Seq(Int) => c(k) \in Seq(Int) /\ Starts(c(k - 1), c(k))
  BY EncodingGrows
<1>3. c(0) = <<>>
  BY EncodingFacts
<1> HIDE DEF c, n
<1>4. \A s \in Seq(Int) : Starts(s, s)
  BY DEF Starts
<1>6. 0 \in T
  <2>1. <<>> \in Seq(Int)
    OBVIOUS
  <2>2. \A k \in 0 .. 0 : Starts(c(k), c(0))
    <3>1. Starts(c(0), c(0))
      BY <1>3, <1>4, <2>1
    <3>2. \A k \in 0 .. 0 : k = 0
      OBVIOUS
    <3>3. QED
      BY <3>1, <3>2
  <2>3. 0 \in 0 .. n
    BY <1>1
  <2>4. QED
    BY <1>3, <2>1, <2>2, <2>3
<1>7. ASSUME NEW m \in 0 .. n, m < n, m \in T  PROVE m + 1 \in T
  <2>1. m + 1 \in 1 .. n /\ m + 1 \in 0 .. n /\ (m + 1) - 1 = m
    BY <1>1, <1>7
  <2>2. c(m) \in Seq(Int) /\ \A k \in 0 .. m : Starts(c(k), c(m))
    BY <1>7
  <2>3. c(m + 1) \in Seq(Int) /\ Starts(c(m), c(m + 1))
    BY <1>2, <2>1, <2>2
  <2>4. ASSUME NEW k \in 0 .. (m + 1)  PROVE Starts(c(k), c(m + 1))
    <3>1. CASE k = m + 1
      BY <1>4, <2>3, <3>1
    <3>2. CASE k \in 0 .. m
      BY <2>2, <2>3, <3>2 DEF Starts
    <3>3. QED
      BY <3>1, <3>2
  <2>5. QED
    BY <2>1, <2>3, <2>4
<1>8. 0 .. n \subseteq T
  <2> HIDE DEF T
  <2>1. QED
    BY <1>1, <1>6, <1>7, Upwards
<1>9. c(n) = R!Encoded(p)
  BY DEF R!Encoded, c, n
<1>10. n \in 0 .. n
  BY <1>1
<1>11. \A k \in 0 .. n : c(k) \in Seq(Int) /\ Starts(c(k), c(n))
  BY <1>8, <1>10
<1>12. QED
  BY <1>9, <1>11 DEF c, n

\* After k points: those points.
LEMMA PointsSoFar ==
    ASSUME NEW p \in Seq(Point), NEW k \in 0 .. Len(p)
    PROVE  R!Reading(R!Encoded(p))[Len(R!Encoding(p)[k])] = Holding(0, 1, <<>>, SubSeq(p, 1, k))
<1> DEFINE n == Len(p)
           code == R!Encoded(p)
           c(m) == R!Encoding(p)[m]
           st == R!Reading(code)
           Good(m) == st[Len(c(m))] = Holding(0, 1, <<>>, SubSeq(p, 1, m))
           T == {m \in 0 .. n : Good(m)}
<1>1. n \in Nat
  OBVIOUS
<1>2. \A m \in 0 .. n : c(m) \in Seq(Int) /\ Starts(c(m), code)
  BY EncodingBegins
<1>3. code \in Seq(Int)
  <2>1. c(n) = code
    BY DEF R!Encoded
  <2>2. n \in 0 .. n
    BY <1>1
  <2> HIDE DEF code, c, n
  <2>3. QED
    BY <1>2, <2>1, <2>2
<1>4. 0 \in T
  <2>1. Len(c(0)) = 0
    BY EncodingFacts
  <2>2. st[0] = R!Begun
    <3> HIDE DEF code
    <3>1. QED
      BY <1>3, ReadingFacts
  <2>3. SubSeq(p, 1, 0) = <<>>
    OBVIOUS
  <2>4. R!Begun = Holding(0, 1, <<>>, <<>>)
    BY DEF R!Begun, Holding
  <2>5. 0 \in 0 .. n
    BY <1>1
  <2> HIDE DEF st, c, n
  <2>6. QED
    BY <2>1, <2>2, <2>3, <2>4, <2>5
<1>5. ASSUME NEW m \in 0 .. n, m < n, Good(m)  PROVE Good(m + 1)
  <2> DEFINE q == SubSeq(p, 1, m)
             la == LatDiff(p, m + 1)
             lo == LonDiff(p, m + 1)
             a == R!EncodeValue(la)
             b == R!EncodeValue(lo)
             i == Len(c(m))
             d == c(m + 1)
  <2>1. m + 1 \in 1 .. n /\ m + 1 \in 0 .. n /\ (m + 1) - 1 = m
    BY <1>1, <1>5
  <2>2. la \in Int /\ lo \in Int
    BY <2>1, Differences
  <2>3. c(m) \in Seq(Int) /\ d \in Seq(Int) /\ Starts(d, code)
    <3> HIDE DEF code, c
    <3>1. QED
      BY <1>2, <2>1
  <2>4. Len(d) = (i + Len(a)) + Len(b) /\ Reads(d, i, a) /\ Reads(d, i + Len(a), b)
    BY <2>1, <2>3, EncodingGrows
  <2>5. a \in Seq(Int) /\ b \in Seq(Int) /\ i \in Nat
    <3>1. i \in Nat
      BY <2>3
    <3> HIDE DEF i, la, lo
    <3>2. QED
      BY <2>2, <3>1, ValuesAdd
  <2>6. Adds(code, a, R!Zigzag(la)) /\ Adds(code, b, R!Zigzag(lo))
    <3> HIDE DEF code
    <3>1. QED
      BY <1>3, <2>2, ValuesAdd
  <2>7. /\ R!Zigzag(la) \in Int /\ R!Unzigzag(R!Zigzag(la)) = la
        /\ R!Zigzag(lo) \in Int /\ R!Unzigzag(R!Zigzag(lo)) = lo
    BY <2>2, ZigzagIsANumber
  <2> DEFINE za == R!Zigzag(la)
             zb == R!Zigzag(lo)
  <2> HIDE DEF la, lo, a, b, i, d, code, za, zb
  <2>8. Reads(code, i, a) /\ Reads(code, i + Len(a), b)
    <3>1. Len(d) =< Len(code) /\ \A j \in 1 .. Len(d) : d[j] = code[j]
      BY <2>3 DEF Starts
    <3>2. Len(a) \in Nat /\ Len(b) \in Nat /\ Len(d) \in Nat /\ Len(code) \in Nat
      BY <1>3, <2>3, <2>5
    <3>3. Reads(code, i, a)
      <4>1. \A j \in 1 .. Len(a) : i + j \in 1 .. Len(d) /\ d[i + j] = a[j]
        BY <2>4, <2>5, <3>2 DEF Reads
      <4>2. \A j \in 1 .. Len(a) : code[i + j] = a[j]
        BY <3>1, <4>1
      <4>3. i + Len(a) =< Len(code)
        BY <2>4, <2>5, <3>1, <3>2
      <4>4. QED
        BY <4>2, <4>3 DEF Reads
    <3>4. Reads(code, i + Len(a), b)
      <4>1. \A j \in 1 .. Len(b) : (i + Len(a)) + j \in 1 .. Len(d) /\ d[(i + Len(a)) + j] = b[j]
        BY <2>4, <2>5, <3>2 DEF Reads
      <4>2. \A j \in 1 .. Len(b) : code[(i + Len(a)) + j] = b[j]
        BY <3>1, <4>1
      <4>3. (i + Len(a)) + Len(b) =< Len(code)
        BY <2>4, <3>1
      <4>4. QED
        BY <4>2, <4>3 DEF Reads
    <3>5. QED
      BY <3>3, <3>4
  <2>9. R!Reading(code)[i] = Holding(0, 1, <<>>, q)
    BY <1>5 DEF i
  <2> HIDE DEF q, c
  <2>10. R!Reading(code)[i + Len(a)] = Ended(<<>>, q, R!Unzigzag(0 + (za * 1)))
    BY <2>5, <2>6, <2>7, <2>8, <2>9 DEF Adds, za
  <2>11. 0 + (za * 1) = za /\ 0 + (zb * 1) = zb
    BY <2>7 DEF za, zb
  <2>12. R!Reading(code)[i + Len(a)] = Holding(0, 1, <<la>>, q)
    BY <2>7, <2>10, <2>11 DEF Ended, za
  <2> DEFINE ii == i + Len(a)
  <2>13. ii \in Nat
    BY <2>5
  <2> HIDE DEF ii
  <2>14. R!Reading(code)[ii + Len(b)] = Ended(<<la>>, q, R!Unzigzag(0 + (zb * 1)))
    <3>1. R!Reading(code)[ii] = Holding(0, 1, <<la>>, q) /\ Reads(code, ii, b)
      BY <2>8, <2>12 DEF ii
    <3>2. QED
      BY <2>6, <2>7, <2>13, <3>1 DEF Adds, zb
  <2> DEFINE last == IF q = <<>> THEN [lat |-> 0, lon |-> 0] ELSE q[Len(q)]
  <2>15. R!Reading(code)[ii + Len(b)] =
           Holding(0, 1, <<>>, Append(q, [lat |-> last.lat + la, lon |-> last.lon + lo]))
    <3>1. <<la>> # <<>> /\ <<la>>[1] = la
      OBVIOUS
    <3>2. R!Unzigzag(0 + (zb * 1)) = lo
      BY <2>7, <2>11 DEF zb
    <3>3. QED
      BY <2>14, <3>1, <3>2 DEF Ended
  <2>16. last = R!From(p, m + 1)
    <3>1. CASE m = 0
      <4>1. q = <<>>
        BY <3>1 DEF q
      <4>2. QED
        BY <3>1, <4>1 DEF R!From
    <3>2. CASE m # 0
      <4>1. q # <<>> /\ q[Len(q)] = p[m]
        BY <1>1, <1>5, <3>2 DEF q
      <4>2. QED
        BY <1>1, <2>1, <3>2, <4>1 DEF R!From
    <3>3. QED
      BY <3>1, <3>2
  <2> HIDE DEF last
  <2>17. [lat |-> last.lat + la, lon |-> last.lon + lo] = p[m + 1]
    <3>1. last.lat + la = p[m + 1].lat /\ last.lon + lo = p[m + 1].lon
      BY <2>1, <2>16, Differences DEF la, lo
    <3>2. p[m + 1] \in Point
      BY <2>1
    <3>3. QED
      BY <3>1, <3>2 DEF Point
  <2>18. Append(q, p[m + 1]) = SubSeq(p, 1, m + 1)
    BY <1>1, <2>1 DEF q
  <2>19. Len(c(m + 1)) = ii + Len(b)
    BY <2>4 DEF d, ii
  <2>20. QED
    BY <2>15, <2>17, <2>18, <2>19
<1>6. 0 .. n \subseteq T
  <2>1. ASSUME NEW m \in 0 .. n, m < n, m \in T  PROVE m + 1 \in T
    <3> HIDE DEF Good
    <3>1. Good(m) /\ m + 1 \in 0 .. n
      BY <1>1, <2>1
    <3>2. QED
      BY <1>5, <2>1, <3>1
  <2> HIDE DEF T
  <2>2. QED
    BY <1>1, <1>4, <2>1, Upwards
<1>7. QED
  BY <1>6

\* geometry.go:23-65: whatever points the path has, and however long the code of
\* a difference is.
LEMMA PolylineIsKept == ASSUME NEW p \in Seq(Point)  PROVE R!DecodePolyline(R!Encoded(p)) = p
<1> DEFINE code == R!Encoded(p)
           n == Len(p)
<1>1. n \in Nat /\ n \in 0 .. n
  OBVIOUS
<1>2. code = R!Encoding(p)[n]
  BY DEF R!Encoded
<1>3. R!Reading(code)[Len(code)] = Holding(0, 1, <<>>, SubSeq(p, 1, n))
  <2>1. R!Reading(code)[Len(R!Encoding(p)[n])] = Holding(0, 1, <<>>, SubSeq(p, 1, n))
    BY <1>1, PointsSoFar
  <2> HIDE DEF code, n
  <2>2. QED
    BY <1>2, <2>1
<1>4. SubSeq(p, 1, n) = p
  OBVIOUS
<1> HIDE DEF code, n
<1>5. R!DecodePolyline(code) = p
  BY <1>3, <1>4 DEF R!DecodePolyline, Holding
<1>6. QED
  BY <1>5 DEF code

\* Likewise for GeoJSON.
LEMMA GeoJSONIsKept ==
    ASSUME NEW p \in Seq(Point)  PROVE R!LatLonFromGeoJSON(R!GeoJSON(p)) = p
<1> DEFINE n == Len(p)
           g == R!GeoJSON(p)
           f == [k \in 0 .. n |-> SubSeq(p, 1, k)]
           Fits(h) == h = [k \in 0 .. n |-> IF k = 0 THEN <<>>
                             ELSE IF Len(g[k]) < 2 THEN h[k - 1]
                             ELSE Append(h[k - 1], [lat |-> g[k][2], lon |-> g[k][1]])]
<1>1. n \in Nat /\ Len(g) = n /\ \A k \in 1 .. n : g[k] = <<p[k].lon, p[k].lat>>
  BY DEF R!GeoJSON
<1>2. ASSUME NEW k \in 1 .. n
      PROVE  Len(g[k]) = 2 /\ [lat |-> g[k][2], lon |-> g[k][1]] = p[k]
  <2>1. p[k] \in Point
    OBVIOUS
  <2>2. p[k] = [lat |-> p[k].lat, lon |-> p[k].lon]
    BY <2>1 DEF Point
  <2>3. g[k] = <<p[k].lon, p[k].lat>>
    BY <1>1
  <2> HIDE DEF g
  <2>4. Len(g[k]) = 2 /\ g[k][1] = p[k].lon /\ g[k][2] = p[k].lat
    BY <2>3
  <2>5. QED
    BY <2>2, <2>4
<1> HIDE DEF g
<1>3. ASSUME NEW h, Fits(h)  PROVE h[n] = p
  <2> DEFINE T == {m \in 0 .. n : h[m] = SubSeq(p, 1, m)}
  <2>0. h[0] = <<>>
    <3>1. 0 \in 0 .. n
      BY <1>1
    <3>2. QED
      BY <1>3, <3>1
  <2>1. ASSUME NEW k \in 1 .. n  PROVE h[k] = Append(h[k - 1], p[k])
    <3>1. k \in 0 .. n /\ k # 0
      BY <1>1
    <3>2. h[k] = IF k = 0 THEN <<>>
                 ELSE IF Len(g[k]) < 2 THEN h[k - 1]
                 ELSE Append(h[k - 1], [lat |-> g[k][2], lon |-> g[k][1]])
      BY <1>3, <3>1
    <3>3. ~(Len(g[k]) < 2) /\ [lat |-> g[k][2], lon |-> g[k][1]] = p[k]
      BY <1>2
    <3> HIDE DEF Fits, f, n
    <3>4. QED
      BY <3>1, <3>2, <3>3
  <2>2. 0 \in T
    <3>1. 0 \in 0 .. n /\ SubSeq(p, 1, 0) = <<>>
      BY <1>1
    <3>2. QED
      BY <2>0, <3>1
  <2>3. ASSUME NEW m \in 0 .. n, m < n, m \in T  PROVE m + 1 \in T
    <3>1. m + 1 \in 1 .. n /\ m + 1 \in 0 .. n /\ (m + 1) - 1 = m
      BY <1>1, <2>3
    <3>2. h[m + 1] = Append(SubSeq(p, 1, m), p[m + 1])
      BY <2>1, <2>3, <3>1
    <3>3. Append(SubSeq(p, 1, m), p[m + 1]) = SubSeq(p, 1, m + 1)
      BY <1>1, <3>1
    <3>4. QED
      BY <3>1, <3>2, <3>3
  <2>4. 0 .. n \subseteq T
    <3> HIDE DEF T, Fits
    <3>1. QED
      BY <1>1, <2>2, <2>3, Upwards
  <2>5. n \in 0 .. n /\ SubSeq(p, 1, n) = p
    BY <1>1
  <2>6. QED
    BY <2>4, <2>5
<1>4. Fits(f)
  <2>1. \A k \in 1 .. n : Append(SubSeq(p, 1, k - 1), p[k]) = SubSeq(p, 1, k)
    BY <1>1
  <2>2. SubSeq(p, 1, 0) = <<>>
    OBVIOUS
  <2>3. ASSUME NEW k \in 0 .. n
        PROVE  f[k] = IF k = 0 THEN <<>>
                      ELSE IF Len(g[k]) < 2 THEN f[k - 1]
                      ELSE Append(f[k - 1], [lat |-> g[k][2], lon |-> g[k][1]])
    <3>1. CASE k = 0
      BY <1>1, <2>2, <3>1
    <3>2. CASE k # 0
      <4>1. k \in 1 .. n /\ k - 1 \in 0 .. n
        BY <1>1, <3>2
      <4>2. f[k] = SubSeq(p, 1, k) /\ f[k - 1] = SubSeq(p, 1, k - 1)
        BY <4>1
      <4> HIDE DEF f
      <4>3. QED
        BY <1>2, <2>1, <3>2, <4>1, <4>2
    <3>3. QED
      BY <3>1, <3>2
  <2>4. QED
    BY <2>3
<1>5. Fits(R!Taking(g))
  BY <1>1, <1>4 DEF R!Taking
<1>6. R!Taking(g)[n] = p
  <2> HIDE DEF Fits
  <2>1. QED
    BY <1>3, <1>5
<1>7. QED
  BY <1>1, <1>6 DEF R!LatLonFromGeoJSON, g

\* So what a route plays is what the provider answered with.
LEMMA DecodedIsKept ==
    ASSUME R!RoutingAssumption, NEW provider, NEW p \in Paths
    PROVE  R!Decoded(provider, p) = p
<1>1. p \in Seq(Point)
  BY DEF R!RoutingAssumption, Point
<1>2. QED
  BY <1>1, PolylineIsKept, GeoJSONIsKept DEF R!Decoded

-----------------------------------------------------------------------------
(* The services together.                                                  *)

\* A part that stands still keeps what is true of it.
LEMMA ServicesSteps ==
    [ServicesNext]_allVars =>
        /\ [Next]_vars /\ [W!Next]_(W!vars) /\ [S!Next]_(S!vars) /\ [R!Next]_(R!vars)
BY DEF ServicesNext, allVars, wVars, sVars, rVars, W!vars, W!runVars, W!callVars, S!vars,
    S!bounds, S!history, R!vars, R!registry

\* The pause between browses stays between browseRestartDelay and browseRestartMax
\* (wake.go), failures are counted up to the warning only, and everything else
\* keeps its type.
THEOREM WakerTypes == ServicesSpec => []W!TypeOK
<1>1. W!WakerAssumption
  BY ServicesAssumption DEF ServicesAssumption
<1>2. ServicesInit => W!TypeOK
  BY <1>1, WakerInitType DEF ServicesInit
<1>3. W!TypeOK /\ [ServicesNext]_allVars => W!TypeOK'
  BY <1>1, WakerNextType, ServicesSteps
<1>4. QED
  BY <1>2, <1>3, PTL DEF ServicesSpec

\* Whichever part moves keeps its types: a pause stays between its bounds, no
\* attempt is refunded that was not spent, no place is a favourite twice, and
\* every configuration in use names each provider once (wake.go, pair.go:118,
\* engine_favorites.go:38, registry.go:170).
ServicesInv ==
    /\ part \in {"pairing", "waker", "settings", "routing"}
    /\ PairingInv /\ W!TypeOK /\ S!TypeOK /\ RouteInv /\ RouteTypes

THEOREM ServicesTypes == ServicesSpec => []ServicesTypeOK
<1>1. PairingAssumption /\ W!WakerAssumption /\ S!SettingsAssumption /\ R!RoutingAssumption
  BY ServicesAssumption DEF ServicesAssumption
<1>2. ServicesInit => ServicesInv
  <2>1. R!RoutingAssumption /\ R!Init => RouteTypes
    BY DEF R!RoutingAssumption, R!Init, RouteTypes
  <2>2. QED
    BY <1>1, <2>1, PairingInit, WakerInitType, SettingsInitType, RouteInit
       DEF ServicesInit, ServicesInv
<1>3. ServicesInv /\ [ServicesNext]_allVars => ServicesInv'
  <2>1. SUFFICES ASSUME ServicesInv, [ServicesNext]_allVars  PROVE ServicesInv'
    OBVIOUS
  <2>2. [Next]_vars /\ [W!Next]_(W!vars) /\ [S!Next]_(S!vars) /\ [R!Next]_(R!vars)
    BY <2>1, ServicesSteps
  <2>3. PairingInv' /\ W!TypeOK'
    BY <1>1, <2>1, <2>2, PairingStep, WakerNextType DEF ServicesInv
  <2>4. S!TypeOK' /\ RouteInv' /\ RouteTypes'
    BY <1>1, <2>1, <2>2, SettingsNextType, RouteStep, RouteTypesStep DEF ServicesInv
  <2>5. part' = part
    BY <2>1 DEF ServicesNext, allVars
  <2>6. QED
    BY <2>1, <2>3, <2>4, <2>5 DEF ServicesInv
<1>4. ServicesInv => ServicesTypeOK
  BY <1>1, PairingTypeOK, RouteTypeOK DEF ServicesInv, ServicesTypeOK
<1>5. QED
  BY <1>2, <1>3, <1>4, PTL DEF ServicesSpec

\* wake.go:57: however many callers start the browses, and whatever becomes of
\* their contexts, every run is over by the time the next one begins, and one that
\* ended never comes back.  (A run made while another caller stood between its Stop
\* and its own run is set aside: that one is overwritten, not replaced.)
THEOREM WakerImplementsSingleRun == ServicesSpec => StartReplaces
<1>1. W!WakerAssumption
  BY ServicesAssumption DEF ServicesAssumption
<1>2. ServicesInit => WakerInv /\ W!R!Init
  BY <1>1, WakerInit DEF ServicesInit
<1>3. WakerInv /\ [ServicesNext]_allVars => WakerInv' /\ [W!R!Next]_(W!R!vars)
  BY <1>1, WakerStep, ServicesSteps
<1>4. QED
  BY <1>2, <1>3, PTL DEF ServicesSpec, StartReplaces, W!StartReplaces, W!R!Spec

\* engine_persistence.go:84: once the commands are done, what a restart reads is what
\* they left in memory, unless the save of the newest snapshot failed or that of an
\* older one came after it.
THEOREM QuietIsAlwaysStored == ServicesSpec => []QuietIsStored
<1>1. ServicesInit => SettingsInv
  BY SettingsInit DEF ServicesInit
<1>2. SettingsInv /\ [ServicesNext]_allVars => SettingsInv'
  BY SettingsStep, ServicesSteps
<1>3. SettingsInv => QuietIsStored
  BY SettingsStored DEF QuietIsStored
<1>4. QED
  BY <1>1, <1>2, <1>3, PTL DEF ServicesSpec

\* registry.go:45-119: however the configuration changes meanwhile, a route asks
\* the provider that was announced first, none twice, and fails only once it has
\* asked every one that was available when it began.
THEOREM FallbackIsAlwaysComplete == ServicesSpec => []FallbackIsComplete
<1>1. ServicesInit => RouteInv
  BY RouteInit DEF ServicesInit
<1>2. RouteInv /\ [ServicesNext]_allVars => RouteInv'
  BY RouteStep, ServicesSteps
<1>3. RouteInv => FallbackIsComplete
  BY RouteComplete DEF FallbackIsComplete
<1>4. QED
  BY <1>1, <1>2, <1>3, PTL DEF ServicesSpec

\* geometry.go:9-65: the points a route plays are those of the path the provider
\* sent, however many, whatever their signs and however far apart.  It is inductive
\* by itself: a route ends with what Try decoded.
THEOREM PathIsAlwaysKept == ServicesSpec => []PathIsKept
<1>1. ServicesInit => PathIsKept
  BY DEF ServicesInit, R!Init, PathIsKept, R!PathIsKept
<1>2. ASSUME PathIsKept, [ServicesNext]_allVars  PROVE PathIsKept'
  <2>1. SUFFICES ASSUME part' = "routing", route' = "found"  PROVE points' = path'
    BY DEF PathIsKept, R!PathIsKept
  <2>2. ASSUME part' = part, UNCHANGED <<route, path, points>>  PROVE points' = path'
    BY <1>2, <2>1, <2>2 DEF PathIsKept, R!PathIsKept
  <2>3. CASE UNCHANGED allVars
    BY <2>2, <2>3 DEF allVars, rVars
  <2>4. CASE UNCHANGED <<part, rVars>>
    BY <2>2, <2>4 DEF rVars
  <2>5. CASE part = "routing" /\ R!Next /\ UNCHANGED part
    <3>1. CASE R!UpdateConfig \/ R!Skip
      BY <2>2, <2>5, <3>1 DEF R!UpdateConfig, R!Skip
    <3>2. CASE R!Route \/ R!Fail
      BY <2>1, <3>2 DEF R!Route, R!Fail
    <3>3. CASE R!Try
      <4>1. CASE UNCHANGED <<route, path, points>>
        BY <2>2, <2>5, <4>1
      <4>2. ASSUME NEW p \in Paths, path' = p, points' = R!Decoded(Head(left), p)
            PROVE  points' = path'
        BY <4>2, ServicesAssumption, DecodedIsKept DEF ServicesAssumption
      <4>3. QED
        BY <3>3, <4>1, <4>2 DEF R!Try
    <3>4. QED
      BY <2>5, <3>1, <3>2, <3>3 DEF R!Next
  <2>6. QED
    BY <1>2, <2>3, <2>4, <2>5 DEF ServicesNext
<1>3. QED
  BY <1>1, <1>2, PTL DEF ServicesSpec
=============================================================================
