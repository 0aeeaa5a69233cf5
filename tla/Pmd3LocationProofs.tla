------------------------- MODULE Pmd3LocationProofs ------------------------
(***************************************************************************)
(* TLAPS proofs about Pmd3Location, for any goroutines, endpoints, calls   *)
(* and bounds: an answer of the worker reaches the call it was made for    *)
(* and no worker that lives is lost, but to the second take of a clear.    *)
(***************************************************************************)
EXTENDS Pmd3Location, TLAPS

-----------------------------------------------------------------------------
(* The inductive invariant.                                                *)

Waits == [id : Nat \ {0}, by : Procs]
Requests == [id : Nat, by : Procs, act : Ops \union {"stop", None}]

\* What the proof needs of types: domains, and what travels to a worker.
Shape ==
    /\ DOMAIN pc = Procs /\ DOMAIN sess = Procs /\ DOMAIN id = Procs /\ DOMAIN box = Procs
    /\ op \in [Procs -> Ops \union {None}]
    /\ nextID \in [Sessions -> Nat]
    /\ pending \in [Sessions -> SUBSET Waits]
    /\ stdin \in [Sessions -> Seq(Requests)]

\* Whoever is registered with a session waits on it, for its latest request,
\* which nobody has answered.
WaitInv ==
    \A s \in Sessions : \A w \in pending[s] :
        /\ pc[w.by] \in {"await", "awaitstop"} /\ sess[w.by] = s
        /\ w.id = id[w.by] /\ box[w.by].kind = "none" /\ w.id =< nextID[s]

\* An id is that of one request: those of the future are greater than any used.
IdInv ==
    \A s \in Sessions : \A k \in 1 .. Len(stdin[s]) :
        /\ stdin[s][k].id =< nextID[s]
        /\ \A w \in pending[s] : w.id = stdin[s][k].id => w.by = stdin[s][k].by

\* A call that is on its way with a session has one.
WithSession == {"send", "sendstop", "await", "awaitstop", "failed", "kill", "reap", "untake",
                "starting", "install"}
HandsInv ==
    /\ location \in Sessions \union {NoSession} /\ made \in Nat
    /\ \A p \in Procs :
         /\ pc[p] \in WithSession => sess[p] \in Sessions
         /\ pc[p] = "take" => op[p] \in {"clear", "stop", "start"}
         /\ pc[p] = "tunneld" => op[p] = "start"

Inv == Shape /\ HandsInv /\ WaitInv /\ IdInv /\ AnswersMatch

Registered(p) == \E s \in Sessions : \E w \in pending[s] : w.by = p

LEMMA InitInv == Init => Inv
<1> SUFFICES ASSUME Init PROVE Inv
  OBVIOUS
<1>1. Shape
  BY DEF Init, Shape
<1>2. HandsInv /\ WaitInv /\ IdInv /\ AnswersMatch
  BY DEF Init, HandsInv, WithSession, WaitInv, IdInv, AnswersMatch, NoAnswer
<1>3. QED
  BY <1>1, <1>2 DEF Inv

-----------------------------------------------------------------------------
(* Calls keep hold of their sessions.                                      *)

LEMMA HandsStep ==
    ASSUME Shape, HandsInv, Next
    PROVE  HandsInv'
<1>1. /\ manager \in Procs /\ Injectors \subseteq Procs /\ NoSession \notin Sessions
      /\ MaxSessions \in Nat
  BY Pmd3Assumption DEF Procs, Sessions, NoSession
\* One goroutine p moves on; its new step says what it has.
<1>2. ASSUME NEW p \in Procs, location' \in Sessions \union {NoSession}, made' \in Nat,
             DOMAIN pc' = Procs,
             \A q \in Procs \ {p} : pc'[q] = pc[q] /\ sess'[q] = sess[q] /\ op'[q] = op[q],
             pc'[p] \in WithSession => sess'[p] \in Sessions,
             pc'[p] = "take" => op'[p] \in {"clear", "stop", "start"},
             pc'[p] = "tunneld" => op'[p] = "start"
      PROVE  HandsInv'
  BY <1>2 DEF HandsInv
<1>3. ASSUME NEW p \in Procs, Return(p), UNCHANGED <<location, made>>
      PROVE  HandsInv'
  BY <1>2, <1>3 DEF Return, Goto, Set, Shape, HandsInv, WithSession
<1>4. ASSUME NEW p \in Injectors, SetLocation(p) \/ ClearLocation(p)
      PROVE  HandsInv'
  BY <1>1, <1>2, <1>4 DEF SetLocation, ClearLocation, Call, Goto, Set, Shape, HandsInv,
      WithSession, driver
<1>5. CASE StartTunnel \/ StopTunnel
  BY <1>1, <1>2, <1>5 DEF StartTunnel, StopTunnel, Call, Goto, Set, Shape, HandsInv,
      WithSession, driver
<1>6. CASE Tunneld
  <2>1. CASE Return(manager)
    BY <1>1, <1>3, <1>6, <2>1 DEF Tunneld, driver
  <2>2. CASE Goto(manager, "take") /\ UNCHANGED local
    BY <1>1, <1>2, <1>6, <2>2 DEF Tunneld, Goto, Set, Shape, HandsInv, WithSession, driver,
        local
  <2>3. QED
    BY <1>6, <2>1, <2>2 DEF Tunneld
<1>7. CASE Install \/ Mark \/ Activate \/ Forget \/ Unmount
  BY <1>1, <1>2, <1>7 DEF Install, Mark, Activate, Forget, Unmount, Goto, Set, Shape, HandsInv,
      WithSession, driver, local
<1>8. ASSUME NEW p \in Procs, Step(p)
      PROVE  HandsInv'
  <2>1. CASE Take(p)
    <3>1. sess'[p] = location /\ pc'[p] = AfterTake(op[p], location)
      BY <2>1 DEF Take, Set, Goto, Shape
    <3>2. op[p] \in {"clear", "stop", "start"}
      BY <2>1 DEF Take, HandsInv
    <3>3. /\ pc'[p] \in WithSession => location \in Sessions
          /\ pc'[p] # "take" /\ pc'[p] # "tunneld"
      BY <3>1, <3>2 DEF AfterTake, WithSession, HandsInv
    <3>4. QED
      BY <1>1, <1>2, <2>1, <3>1, <3>3 DEF Take, Set, Goto, Shape, HandsInv
  <2>2. CASE Untake(p) \/ ReadTunnel(p) \/ RefuseUserspace(p) \/ UseSession(p)
    BY <1>1, <1>2, <2>2 DEF Untake, ReadTunnel, RefuseUserspace, UseSession, Usable, Opened,
        Goto, Set, Shape, HandsInv, WithSession, driver, local
  <2>3. CASE Discard(p) \/ Spawn(p)
    <3>1. CASE Discard(p)
      BY <1>1, <1>2, <3>1 DEF Discard, Goto, Set, Shape, HandsInv, WithSession
    <3>2. CASE Spawn(p)
      <4>1. made' \in Sessions /\ made' \in Nat
        BY <1>1, <3>2 DEF Spawn, HandsInv, Sessions
      <4>2. QED
        BY <1>2, <3>2, <4>1 DEF Spawn, Goto, Set, Shape, HandsInv, driver
    <3>3. QED
      BY <2>3, <3>1, <3>2
  <2>4. CASE Handshake(p) \/ NoHandshake(p)
    BY <1>1, <1>2, <2>4 DEF Handshake, NoHandshake, Opened, Goto, Set, Shape, HandsInv,
        WithSession, driver, local
  <2>5. CASE Send(p) \/ SendFails(p) \/ AnsweredStop(p)
    BY <1>1, <1>2, <2>5 DEF Send, SendFails, AnsweredStop, Goto, Set, Shape, HandsInv,
        WithSession, driver, local
  <2>6. CASE Answered(p) \/ Timeout(p)
    <3>1. pc[p] \in WithSession /\ UNCHANGED <<location, made, op, sess>>
      BY <2>6 DEF Answered, Timeout, WithSession, driver, local
    <3>2. \E step \in {"failed", "return", "sendstop", "reap"} : Goto(p, step)
      <4>1. CASE Answered(p)
        BY <4>1 DEF Answered
      <4>2. CASE Timeout(p)
        BY <4>2 DEF Timeout
      <4>3. QED
        BY <2>6, <4>1, <4>2
    <3>3. QED
      BY <1>2, <3>1, <3>2 DEF Goto, Set, Shape, HandsInv
  <2>7. CASE Invalidate(p) \/ ForceKill(p) \/ Reap(p)
    BY <1>1, <1>2, <2>7 DEF Invalidate, ForceKill, Reap, AfterStop, Goto, Set, Shape, HandsInv,
        WithSession, driver, local
  <2>8. CASE Returns(p)
    BY <1>3, <2>8 DEF Returns, driver
  <2>9. QED
    BY <1>8, <2>1, <2>2, <2>3, <2>4, <2>5, <2>6, <2>7, <2>8 DEF Step
<1>9. ASSUME NEW s \in Sessions, Answer(s) \/ Exit(s) \/ Dies(s) \/ Garbage(s)
      PROVE  HandsInv'
  BY <1>9 DEF Answer, Exit, Dies, Garbage, HandsInv, driver
<1>10. CASE EndpointMoves
  BY <1>10 DEF EndpointMoves, HandsInv, driver, local
<1>11. Manage => HandsInv'
  BY <1>6, <1>7 DEF Manage
<1>12. QED
  BY <1>4, <1>5, <1>8, <1>9, <1>10, <1>11 DEF Next

-----------------------------------------------------------------------------
(* Steps of two kinds.                                                      *)

\* Only what waits is registered.
LEMMA Unregistered ==
    ASSUME Inv, NEW p \in Procs, pc[p] \notin {"await", "awaitstop"} \/ box[p].kind # "none"
    PROVE  ~Registered(p)
BY DEF Inv, WaitInv, Registered

\* A goroutine that is not registered moves on; nothing else changes but what it
\* remembers of its call.
LEMMA GoesOn ==
    ASSUME Inv, HandsInv', NEW p \in Procs, ~Registered(p), UNCHANGED <<nextID, pending, stdin>>,
           DOMAIN pc' = Procs, DOMAIN sess' = Procs, DOMAIN id' = Procs, DOMAIN box' = Procs,
           op' \in [Procs -> Ops \union {None}],
           \A q \in Procs \ {p} : pc'[q] = pc[q] /\ sess'[q] = sess[q] /\ id'[q] = id[q]
                                  /\ box'[q] = box[q],
           box'[p].kind = "answer" => box'[p] = box[p] /\ id'[p] = id[p]
    PROVE  Inv'
<1>1. Shape /\ WaitInv /\ IdInv /\ AnswersMatch
  BY DEF Inv
<1>2. Shape' /\ IdInv'
  BY <1>1 DEF Shape, IdInv
<1>3. WaitInv'
  <2>1. SUFFICES ASSUME NEW s \in Sessions, NEW w \in pending[s]
                 PROVE  /\ pc'[w.by] \in {"await", "awaitstop"} /\ sess'[w.by] = s
                        /\ w.id = id'[w.by] /\ box'[w.by].kind = "none" /\ w.id =< nextID[s]
    BY DEF WaitInv
  <2>2. w.by \in Procs \ {p}
    BY <1>1, <2>1 DEF Registered, Shape, Waits
  <2>3. QED
    BY <1>1, <2>1, <2>2 DEF WaitInv
<1>4. AnswersMatch'
  BY <1>1 DEF AnswersMatch
<1>5. QED
  BY <1>2, <1>3, <1>4 DEF Inv

\* A reader stops: those registered with its session find their channel closed.
LEMMA ReaderStops ==
    ASSUME Inv, HandsInv', NEW s \in Sessions, UNCHANGED <<nextID, sess, id, op>>,
           DOMAIN pc' = Procs, \A p \in Procs : Registered(p) => pc'[p] = pc[p],
           \/ Kill(s)
           \/ FailPending(s) /\ UNCHANGED stdin
    PROVE  Inv'
<1>1. Shape /\ WaitInv /\ IdInv /\ AnswersMatch
  BY DEF Inv
<1>2. \/ UNCHANGED <<pending, box>>
      \/ /\ pending' = [pending EXCEPT ![s] = {}]
         /\ box' = [p \in Procs |-> IF \E w \in pending[s] : w.by = p
                                    THEN [NoAnswer EXCEPT !.kind = "closed"] ELSE box[p]]
  BY DEF Kill, FailPending, Set
<1>3. stdin' = stdin \/ stdin' = [stdin EXCEPT ![s] = <<>>]
  BY DEF Kill, Set
<1>4. Shape'
  <2>1. DOMAIN box' = Procs
    BY <1>1, <1>2 DEF Shape
  <2>2. pending' \in [Sessions -> SUBSET Waits]
    BY <1>1, <1>2 DEF Shape
  <2>3. stdin' \in [Sessions -> Seq(Requests)]
    <3>1. <<>> \in Seq(Requests)
      OBVIOUS
    <3>2. QED
      BY <1>1, <1>3, <3>1 DEF Shape
  <2>4. QED
    BY <1>1, <2>1, <2>2, <2>3 DEF Shape
<1>5. \A t \in Sessions : \A w \in pending'[t] : w \in pending[t] /\ box'[w.by] = box[w.by]
  <2>1. CASE UNCHANGED <<pending, box>>
    BY <2>1
  <2>2. CASE /\ pending' = [pending EXCEPT ![s] = {}]
             /\ box' = [p \in Procs |-> IF \E w \in pending[s] : w.by = p
                                        THEN [NoAnswer EXCEPT !.kind = "closed"] ELSE box[p]]
    <3>1. SUFFICES ASSUME NEW t \in Sessions, NEW w \in pending'[t]
                   PROVE  w \in pending[t] /\ box'[w.by] = box[w.by]
      OBVIOUS
    <3>2. t # s /\ w \in pending[t] /\ w.by \in Procs
      BY <1>1, <2>2, <3>1 DEF Shape, Waits
    <3>3. \A v \in pending[s] : v.by # w.by
      BY <1>1, <3>2 DEF WaitInv
    <3>4. QED
      BY <1>1, <2>2, <3>2, <3>3 DEF Shape
  <2>3. QED
    BY <1>2, <2>1, <2>2
<1>6. WaitInv'
  <2>1. SUFFICES ASSUME NEW t \in Sessions, NEW w \in pending'[t]
                 PROVE  /\ pc'[w.by] \in {"await", "awaitstop"} /\ sess[w.by] = t
                        /\ w.id = id[w.by] /\ box'[w.by].kind = "none" /\ w.id =< nextID[t]
    BY DEF WaitInv
  <2>2. w \in pending[t] /\ box'[w.by] = box[w.by]
    BY <1>5, <2>1
  <2>3. w.by \in Procs /\ Registered(w.by)
    BY <1>1, <2>2 DEF Registered, Shape, Waits
  <2>4. QED
    BY <1>1, <2>2, <2>3 DEF WaitInv
<1>7. IdInv'
  <2>1. \A t \in Sessions : stdin'[t] = stdin[t] \/ stdin'[t] = <<>>
    BY <1>1, <1>3 DEF Shape
  <2>2. QED
    BY <1>1, <1>5, <2>1 DEF IdInv
<1>8. AnswersMatch'
  BY <1>1, <1>2 DEF AnswersMatch, NoAnswer
<1>9. QED
  BY <1>4, <1>6, <1>7, <1>8 DEF Inv

-----------------------------------------------------------------------------
(* The three steps that touch who waits for what.                          *)

\* The worker answers the first request it holds: it goes to whoever made it.
LEMMA AnswerStep ==
    ASSUME Inv, HandsInv', NEW s \in Sessions, Answer(s)
    PROVE  Inv'
<1>1. Shape /\ WaitInv /\ IdInv /\ AnswersMatch
  BY DEF Inv
<1> DEFINE r == Head(stdin[s])
<1>2. /\ stdin[s] \in Seq(Requests) /\ stdin[s] # <<>> /\ Len(stdin[s]) \in Nat
      /\ r = stdin[s][1] /\ 1 \in 1 .. Len(stdin[s]) /\ r \in Requests
  BY <1>1 DEF Answer, Shape
<1>3. /\ UNCHANGED <<nextID, pc, op, sess, id>>
      /\ pending' = [pending EXCEPT ![s] = {w \in pending[s] : w.id # r.id}]
      /\ stdin' = [stdin EXCEPT ![s] = IF r.act = "stop" THEN <<>> ELSE Tail(stdin[s])]
  BY DEF Answer, Deliver, Set
<1>4. PICK ok \in BOOLEAN :
         box' = [q \in Procs |-> IF [id |-> r.id, by |-> q] \in pending[s]
                   THEN [kind |-> "answer", id |-> r.id, by |-> r.by, ok |-> ok] ELSE box[q]]
  BY DEF Answer, Deliver
<1>5. \A w \in pending[s] : w.id = r.id => w.by = r.by
  BY <1>1, <1>2 DEF IdInv
<1>6. Shape'
  <2>1. <<>> \in Seq(Requests) /\ Tail(stdin[s]) \in Seq(Requests)
    BY <1>2
  <2>2. stdin' \in [Sessions -> Seq(Requests)]
    BY <1>1, <1>3, <2>1 DEF Shape
  <2>3. pending' \in [Sessions -> SUBSET Waits]
    BY <1>1, <1>3 DEF Shape
  <2>4. DOMAIN box' = Procs
    BY <1>4
  <2>5. QED
    BY <1>1, <1>3, <2>2, <2>3, <2>4 DEF Shape
<1>7. WaitInv'
  <2>1. SUFFICES ASSUME NEW t \in Sessions, NEW w \in pending'[t]
                 PROVE  /\ pc[w.by] \in {"await", "awaitstop"} /\ sess[w.by] = t
                        /\ w.id = id[w.by] /\ box'[w.by].kind = "none" /\ w.id =< nextID[t]
    BY <1>3 DEF WaitInv
  <2>2. w \in pending[t] /\ w.by \in Procs /\ (t = s => w.id # r.id)
    BY <1>1, <1>3, <2>1 DEF Shape, Waits
  <2>3. [id |-> r.id, by |-> w.by] \notin pending[s]
    <3>1. SUFFICES ASSUME [id |-> r.id, by |-> w.by] \in pending[s] PROVE FALSE
      OBVIOUS
    <3>2. sess[w.by] = s /\ r.id = id[w.by]
      BY <1>1, <3>1 DEF WaitInv
    <3>3. QED
      BY <1>1, <2>2, <3>2 DEF WaitInv
  <2>4. box'[w.by] = box[w.by]
    BY <1>4, <2>2, <2>3
  <2>5. QED
    BY <1>1, <2>2, <2>4 DEF WaitInv
<1>8. IdInv'
  <2>1. SUFFICES ASSUME NEW t \in Sessions, NEW k \in 1 .. Len(stdin'[t])
                 PROVE  /\ stdin'[t][k].id =< nextID[t]
                        /\ \A w \in pending'[t] : w.id = stdin'[t][k].id => w.by = stdin'[t][k].by
    BY <1>3 DEF IdInv
  <2>2. pending'[t] \subseteq pending[t]
    BY <1>1, <1>3 DEF Shape
  <2>3. \E j \in 1 .. Len(stdin[t]) : stdin'[t][k] = stdin[t][j]
    <3>1. CASE t # s
      BY <1>1, <1>3, <2>1, <3>1 DEF Shape
    <3>2. CASE t = s
      <4>1. stdin'[s] = Tail(stdin[s])
        BY <1>1, <1>3, <2>1, <3>2 DEF Shape
      <4>2. k + 1 \in 1 .. Len(stdin[s]) /\ stdin'[s][k] = stdin[s][k + 1]
        BY <1>2, <2>1, <3>2, <4>1
      <4>3. QED
        BY <3>2, <4>2
    <3>3. QED
      BY <3>1, <3>2
  <2>4. QED
    BY <1>1, <2>2, <2>3 DEF IdInv
<1>9. AnswersMatch'
  <2>1. SUFFICES ASSUME NEW q \in Procs, box'[q].kind = "answer"
                 PROVE  box'[q].by = q /\ box'[q].id = id[q]
    BY <1>3 DEF AnswersMatch
  <2>2. CASE [id |-> r.id, by |-> q] \in pending[s]
    <3>1. q = r.by /\ r.id = id[q]
      BY <1>1, <1>5, <2>2 DEF WaitInv
    <3>2. QED
      BY <1>4, <2>2, <3>1
  <2>3. CASE [id |-> r.id, by |-> q] \notin pending[s]
    BY <1>1, <1>4, <2>1, <2>3 DEF AnswersMatch
  <2>4. QED
    BY <2>2, <2>3
<1>10. QED
  BY <1>6, <1>7, <1>8, <1>9 DEF Inv

\* A request takes an id greater than any the session has seen.
LEMMA SendStep ==
    ASSUME Inv, HandsInv', NEW p \in Procs, Send(p)
    PROVE  Inv'
<1>1. Shape /\ HandsInv /\ WaitInv /\ IdInv /\ AnswersMatch /\ ~Registered(p)
  BY Unregistered DEF Inv, Send
<1> DEFINE s == sess[p]
           i == nextID[s] + 1
           r == [id |-> i, by |-> p, act |-> IF pc[p] = "sendstop" THEN "stop" ELSE op[p]]
<1>2. s \in Sessions /\ nextID[s] \in Nat /\ i \in Nat \ {0}
  BY <1>1 DEF Send, HandsInv, WithSession, Shape
<1>3. /\ nextID' = [nextID EXCEPT ![s] = i]
      /\ pending' = [pending EXCEPT ![s] = pending[s] \union {[id |-> i, by |-> p]}]
      /\ stdin' = [stdin EXCEPT ![s] = Append(stdin[s], r)]
      /\ id' = [id EXCEPT ![p] = i] /\ box' = [box EXCEPT ![p] = NoAnswer]
      /\ pc' = [pc EXCEPT ![p] = IF pc[p] = "send" THEN "await" ELSE "awaitstop"]
      /\ UNCHANGED <<op, sess>>
  BY DEF Send, Set, Goto
<1>4. r \in Requests /\ stdin[s] \in Seq(Requests) /\ [id |-> i, by |-> p] \in Waits
  BY <1>1, <1>2 DEF Requests, Waits, Shape
<1>5. Shape'
  <2>1. Append(stdin[s], r) \in Seq(Requests)
    BY <1>4
  <2>2. stdin' \in [Sessions -> Seq(Requests)]
    BY <1>1, <1>3, <2>1 DEF Shape
  <2>3. pending' \in [Sessions -> SUBSET Waits]
    BY <1>1, <1>3, <1>4 DEF Shape
  <2>4. nextID' \in [Sessions -> Nat]
    BY <1>1, <1>2, <1>3 DEF Shape
  <2>5. QED
    BY <1>1, <1>3, <2>2, <2>3, <2>4 DEF Shape
<1>6. \A t \in Sessions : nextID[t] \in Nat /\ nextID'[t] >= nextID[t]
  BY <1>1, <1>2, <1>3 DEF Shape
<1>7. \A t \in Sessions : \A w \in pending'[t] :
         \/ w \in pending[t] /\ w.by \in Procs \ {p} /\ w.id \in Nat /\ w.id =< nextID[t]
         \/ t = s /\ w = [id |-> i, by |-> p]
  BY <1>1, <1>3 DEF Shape, Waits, Registered, WaitInv
<1>8. WaitInv'
  <2>1. SUFFICES ASSUME NEW t \in Sessions, NEW w \in pending'[t]
                 PROVE  /\ pc'[w.by] \in {"await", "awaitstop"} /\ sess[w.by] = t
                        /\ w.id = id'[w.by] /\ box'[w.by].kind = "none" /\ w.id =< nextID'[t]
    BY <1>3 DEF WaitInv
  <2>2. CASE w \in pending[t] /\ w.by \in Procs \ {p} /\ w.id \in Nat /\ w.id =< nextID[t]
    <3>1. /\ pc'[w.by] = pc[w.by] /\ id'[w.by] = id[w.by] /\ box'[w.by] = box[w.by]
          /\ w.id =< nextID'[t]
      BY <1>1, <1>3, <1>6, <1>5, <2>2 DEF Shape
    <3>2. QED
      BY <1>1, <2>2, <3>1 DEF WaitInv
  <2>3. CASE t = s /\ w = [id |-> i, by |-> p]
    BY <1>1, <1>2, <1>3, <2>3 DEF Shape, NoAnswer
  <2>4. QED
    BY <1>7, <2>1, <2>2, <2>3
<1>9. IdInv'
  <2>1. SUFFICES ASSUME NEW t \in Sessions, NEW k \in 1 .. Len(stdin'[t])
                 PROVE  /\ stdin'[t][k].id =< nextID'[t]
                        /\ \A w \in pending'[t] : w.id = stdin'[t][k].id => w.by = stdin'[t][k].by
    BY DEF IdInv
  <2>2. \/ k \in 1 .. Len(stdin[t]) /\ stdin'[t][k] = stdin[t][k]
        \/ t = s /\ stdin'[t][k] = r
    <3>1. CASE t = s
      BY <1>1, <1>3, <1>4, <2>1, <3>1 DEF Shape
    <3>2. CASE t # s
      BY <1>1, <1>3, <2>1, <3>2 DEF Shape
    <3>3. QED
      BY <3>1, <3>2
  <2>3. CASE k \in 1 .. Len(stdin[t]) /\ stdin'[t][k] = stdin[t][k]
    <3>1. stdin[t][k].id \in Nat /\ stdin[t][k].id =< nextID[t]
      <4>1. stdin[t] \in Seq(Requests)
        BY <1>1 DEF Shape
      <4>2. stdin[t][k] \in Requests
        BY <2>3, <4>1
      <4>3. QED
        BY <1>1, <2>3, <4>2 DEF IdInv, Requests
    <3>2. stdin'[t][k].id =< nextID'[t]
      BY <1>5, <1>6, <2>3, <3>1 DEF Shape
    <3>3. \A w \in pending'[t] : w.id = stdin[t][k].id => w \in pending[t]
      BY <1>2, <1>7, <3>1
    <3>4. QED
      BY <1>1, <2>3, <3>2, <3>3 DEF IdInv
  <2>4. CASE t = s /\ stdin'[t][k] = r
    <3>1. r.id = i /\ r.by = p /\ nextID'[t] = i
      BY <1>1, <1>2, <1>3, <2>4 DEF Shape
    <3>2. \A w \in pending'[t] : w.id = i => w.by = p
      BY <1>2, <1>7, <2>4
    <3>3. QED
      BY <1>2, <2>4, <3>1, <3>2
  <2>5. QED
    BY <2>2, <2>3, <2>4
<1>10. AnswersMatch'
  BY <1>1, <1>3 DEF AnswersMatch, Shape, NoAnswer
<1>11. QED
  BY <1>5, <1>8, <1>9, <1>10 DEF Inv

\* Who gives up takes its own registration back.
LEMMA TimeoutStep ==
    ASSUME Inv, HandsInv', NEW p \in Procs, Timeout(p)
    PROVE  Inv'
<1>1. Shape /\ HandsInv /\ WaitInv /\ IdInv /\ AnswersMatch
  BY DEF Inv
<1>2. /\ UNCHANGED <<nextID, stdin, op, sess, id, box>> /\ sess[p] \in Sessions
      /\ pending' = [pending EXCEPT ![sess[p]] = {w \in pending[sess[p]] : w.by # p}]
  BY <1>1 DEF Timeout, Set, local, HandsInv, WithSession
<1>3. DOMAIN pc' = Procs /\ \A q \in Procs \ {p} : pc'[q] = pc[q]
  BY <1>1 DEF Timeout, Goto, Set, Shape
<1>4. Shape'
  <2>1. pending' \in [Sessions -> SUBSET Waits]
    BY <1>1, <1>2 DEF Shape
  <2>2. QED
    BY <1>1, <1>2, <1>3, <2>1 DEF Shape
<1>5. \A t \in Sessions : \A w \in pending'[t] : w \in pending[t] /\ w.by \in Procs \ {p}
  BY <1>1, <1>2 DEF Shape, Waits, WaitInv
<1>6. WaitInv' /\ IdInv'
  BY <1>1, <1>2, <1>3, <1>5 DEF WaitInv, IdInv
<1>7. AnswersMatch'
  BY <1>1, <1>2 DEF AnswersMatch
<1>8. QED
  BY <1>4, <1>6, <1>7 DEF Inv

-----------------------------------------------------------------------------
(* Every step, and the theorem.                                            *)

\* A call that returns, or a call made.
LEMMA CallSteps ==
    ASSUME Inv, HandsInv',
           \/ \E p \in Injectors : SetLocation(p) \/ ClearLocation(p)
           \/ StartTunnel \/ StopTunnel \/ Manage
           \/ \E p \in Procs : Returns(p)
    PROVE  Inv'
<1>1. Shape /\ manager \in Procs /\ Injectors \subseteq Procs
  BY DEF Inv, Procs
<1>2. ASSUME NEW p \in Procs, Return(p), pc[p] \in {"return", "tunneld"}, UNCHANGED session
      PROVE  Inv'
  <2>1. ~Registered(p)
    BY <1>2, Unregistered
  <2>2. box'[p].kind # "answer"
    BY <1>1, <1>2 DEF Return, Set, Shape, NoAnswer
  <2>3. QED
    BY <1>1, <1>2, <2>1, <2>2, GoesOn DEF Return, Goto, Set, Shape, session
<1>3. ASSUME NEW p \in Procs, NEW what, NEW step, Call(p, what, step)
      PROVE  Inv'
  <2>1. ~Registered(p)
    BY <1>3, Unregistered DEF Call
  <2>2. QED
    BY <1>1, <1>3, <2>1, GoesOn DEF Call, Goto, Set, Shape, session
<1>4. ASSUME NEW p \in Procs, NEW step, pc[p] \notin {"await", "awaitstop"}, Goto(p, step),
             UNCHANGED <<session, local>>
      PROVE  Inv'
  <2>1. ~Registered(p)
    BY <1>4, Unregistered
  <2>2. QED
    BY <1>1, <1>4, <2>1, GoesOn DEF Goto, Set, Shape, session, local
<1>5. CASE Tunneld
  BY <1>1, <1>2, <1>4, <1>5 DEF Tunneld
<1>6. CASE Install \/ Mark \/ Activate \/ Forget \/ Unmount
  BY <1>1, <1>4, <1>6 DEF Install, Mark, Activate, Forget, Unmount
<1>7. CASE \E p \in Procs : Returns(p)
  BY <1>2, <1>7 DEF Returns
<1>8. QED
  BY <1>1, <1>3, <1>5, <1>6, <1>7 DEF SetLocation, ClearLocation, StartTunnel, StopTunnel,
      Manage

\* A call goes on: it opens a session, or leaves one.
LEMMA GoingOnSteps ==
    ASSUME Inv, HandsInv', NEW p \in Procs,
           \/ Take(p) \/ Untake(p) \/ ReadTunnel(p) \/ UseSession(p) \/ RefuseUserspace(p)
           \/ Spawn(p) \/ Handshake(p) \/ NoHandshake(p)
           \/ SendFails(p) \/ Answered(p) \/ AnsweredStop(p)
    PROVE  Inv'
<1>1. Shape
  BY DEF Inv
<1>2. ~Registered(p)
  BY Unregistered DEF Take, Untake, ReadTunnel, UseSession, RefuseUserspace, Spawn, Handshake,
      NoHandshake, SendFails, Answered, AnsweredStop
<1>3. UNCHANGED <<nextID, pending, stdin, op, id, box>>
  BY DEF Take, Untake, ReadTunnel, UseSession, RefuseUserspace, Spawn, Handshake, NoHandshake,
      SendFails, Answered, AnsweredStop, session, local
<1>4. /\ DOMAIN pc' = Procs /\ DOMAIN sess' = Procs
      /\ \A q \in Procs \ {p} : pc'[q] = pc[q] /\ sess'[q] = sess[q]
  BY <1>1 DEF Take, Untake, ReadTunnel, UseSession, RefuseUserspace, Spawn, Handshake,
      NoHandshake, SendFails, Answered, AnsweredStop, Opened, Goto, Set, Shape, session, local
<1>5. QED
  BY <1>1, <1>2, <1>3, <1>4, GoesOn DEF Shape

\* A call kills a worker, or finds nothing to kill.
LEMMA KillingSteps ==
    ASSUME Inv, HandsInv', NEW p \in Procs,
           Discard(p) \/ Invalidate(p) \/ ForceKill(p) \/ Reap(p)
    PROVE  Inv'
<1>1. Shape /\ HandsInv /\ ~Registered(p)
  BY Unregistered DEF Inv, Discard, Invalidate, ForceKill, Reap
<1>2. /\ UNCHANGED <<op, sess, id>> /\ DOMAIN pc' = Procs
      /\ \A q \in Procs \ {p} : pc'[q] = pc[q]
  BY <1>1 DEF Discard, Invalidate, ForceKill, Reap, AfterStop, Goto, Set, Shape
<1>3. ASSUME NEW s \in Sessions, Kill(s)
      PROVE  Inv'
  BY <1>1, <1>2, <1>3, ReaderStops DEF Kill
<1>4. CASE UNCHANGED <<session, box>>
  BY <1>1, <1>2, <1>4, GoesOn DEF session, Shape
<1>5. \/ UNCHANGED <<session, box>>
      \/ \E s \in Sessions : Kill(s)
  BY <1>1 DEF Discard, Drop, Invalidate, ForceKill, Reap, HandsInv, WithSession
<1>6. QED
  BY <1>3, <1>4, <1>5

\* A worker answers, ends, dies, or prints what its reader cannot parse.
LEMMA WorkerSteps ==
    ASSUME Inv, HandsInv', NEW s \in Sessions, Answer(s) \/ Exit(s) \/ Dies(s) \/ Garbage(s)
    PROVE  Inv'
<1>1. CASE Answer(s)
  BY <1>1, AnswerStep
<1>2. CASE Exit(s) \/ Dies(s) \/ Garbage(s)
  <2>1. UNCHANGED <<pc, op, sess, id, nextID>>
    BY <1>2 DEF Exit, Dies, Garbage, Kill
  <2>2. Kill(s) \/ (FailPending(s) /\ UNCHANGED stdin)
    BY <1>2 DEF Exit, Dies, Garbage
  <2>3. QED
    BY <2>1, <2>2, ReaderStops DEF Inv, Shape
<1>3. QED
  BY <1>1, <1>2

LEMMA StepInv == Inv /\ [Next]_vars => Inv'
<1> SUFFICES ASSUME Inv, [Next]_vars PROVE Inv'
  OBVIOUS
<1>1. CASE UNCHANGED vars
  BY <1>1 DEF Inv, Shape, HandsInv, WaitInv, IdInv, AnswersMatch, vars, driver, session, local
<1>2. CASE Next
  <2>1. HandsInv'
    BY <1>2, HandsStep DEF Inv
  <2>2. CASE EndpointMoves
    BY <2>1, <2>2 DEF Inv, Shape, WaitInv, IdInv, AnswersMatch, EndpointMoves, session, local
  <2>3. ASSUME NEW p \in Procs, Step(p)
        PROVE  Inv'
    BY <2>1, <2>3, CallSteps, GoingOnSteps, KillingSteps, SendStep, TimeoutStep DEF Step
  <2>4. QED
    BY <1>2, <2>1, <2>2, <2>3, CallSteps, WorkerSteps DEF Next
<1>3. QED
  BY <1>1, <1>2

-----------------------------------------------------------------------------
(* Types, and what each step of a call has in hand.                        *)

\* The steps of each call, and who makes it.
OnItsWay(p) ==
    \/ op[p] = None /\ pc[p] = "idle"
    \/ op[p] = "set" /\ p \in Injectors
       /\ pc[p] \in {"tunnel", "session", "spawn", "starting", "send", "await", "failed", "return"}
    \/ op[p] = "clear" /\ p \in Injectors
       /\ pc[p] \in {"take", "tunnel", "session", "spawn", "starting", "untake", "send", "await",
                     "failed", "sendstop", "awaitstop", "reap", "return"}
    \/ op[p] = "start" /\ p = manager
       /\ pc[p] \in {"tunneld", "take", "kill", "boot", "starting", "install", "mark", "activate",
                     "return"}
    \/ op[p] = "stop" /\ p = manager
       /\ pc[p] \in {"take", "sendstop", "awaitstop", "reap", "forget", "unmount", "return"}
CallInv ==
    /\ DOMAIN pc = Procs /\ op \in [Procs -> Ops \union {None}]
    /\ \A p \in Procs : OnItsWay(p)

Places == Endpoints \union {InProcess, None}
ValueInv ==
    /\ endpoint \in Places /\ userspace \in BOOLEAN /\ made \in 0 .. MaxSessions
    /\ bound \in [Sessions -> Places]
    /\ id \in [Procs -> Nat] /\ ti \in [Procs -> Places]

\* Whoever starts a worker that is not the tunnel holds locMu, and nobody else.
LockInv ==
    /\ locMu \in Procs \union {None}
    /\ \A p \in Procs : locMu = p <=> pc[p] \in {"spawn", "starting"} /\ op[p] # "start"
    /\ locMu # None => location = NoSession

\* A worker was started by one call, and answered before anybody else used it.
HasWorker == {"send", "sendstop", "await", "awaitstop", "failed", "kill", "reap", "untake",
              "install"}
Started == {"running", "closing", "dead"}
WorkerInv ==
    /\ worker \in [Sessions -> Started \union {"none", "starting"}]
    /\ reading \in [Sessions -> BOOLEAN] /\ sess \in [Procs -> 0 .. MaxSessions]
    /\ location \in 0 .. MaxSessions
    /\ \A s \in Sessions :
         /\ worker[s] = "none" <=> s > made
         /\ reading[s] => worker[s] \in {"running", "closing"}
    /\ location # NoSession => worker[location] \in Started
    /\ \A p \in Procs :
         /\ sess[p] =< made
         /\ pc[p] \in HasWorker => sess[p] # NoSession /\ worker[sess[p]] \in Started
         /\ pc[p] = "starting" =>
              /\ sess[p] # NoSession /\ worker[sess[p]] = "starting"
              /\ \A q \in Procs : pc[q] = "starting" /\ sess[q] = sess[p] => q = p

LEMMA CallStep ==
    ASSUME CallInv, Next
    PROVE  CallInv'
<1>1. /\ manager \in Procs /\ Injectors \subseteq Procs /\ manager \notin Injectors
      /\ None \notin {"set", "clear", "start", "stop"}
  BY Pmd3Assumption DEF Procs
\* One goroutine p moves on.
<1>2. ASSUME NEW p \in Procs, DOMAIN pc' = Procs, op' \in [Procs -> Ops \union {None}],
             \A q \in Procs \ {p} : pc'[q] = pc[q] /\ op'[q] = op[q], OnItsWay(p)'
      PROVE  CallInv'
  BY <1>2 DEF CallInv, OnItsWay
<1>3. ASSUME NEW p \in Procs, NEW step, Goto(p, step), op' = op,
             op[p] = "set" => step \in {"session", "spawn", "starting", "send", "await",
                                       "failed", "return"},
             op[p] = "clear" => step \in {"tunnel", "session", "spawn", "starting", "untake",
                                         "send", "await", "failed", "sendstop", "awaitstop",
                                         "reap", "return"},
             op[p] = "start" => step \in {"take", "kill", "boot", "starting", "install", "mark",
                                         "activate", "return"},
             op[p] = "stop" => step \in {"sendstop", "awaitstop", "reap", "forget", "unmount",
                                        "return"},
             op[p] # None
      PROVE  CallInv'
  <2>1. DOMAIN pc' = Procs /\ pc'[p] = step /\ \A q \in Procs \ {p} : pc'[q] = pc[q]
    BY <1>3 DEF Goto, Set, CallInv
  <2>2. OnItsWay(p)'
    BY <1>3, <2>1 DEF CallInv, OnItsWay
  <2>3. QED
    BY <1>2, <1>3, <2>1, <2>2 DEF CallInv
<1>4. ASSUME NEW p \in Procs, Return(p)
      PROVE  CallInv'
  BY <1>2, <1>4 DEF Return, Goto, Set, CallInv, OnItsWay
<1>5. ASSUME NEW p \in Injectors, SetLocation(p) \/ ClearLocation(p)
      PROVE  CallInv'
  BY <1>1, <1>2, <1>5 DEF SetLocation, ClearLocation, Call, Goto, Set, CallInv, OnItsWay
<1>6. CASE StartTunnel \/ StopTunnel
  BY <1>1, <1>2, <1>6 DEF StartTunnel, StopTunnel, Call, Goto, Set, CallInv, OnItsWay
<1>7. CASE Manage
  <2>1. OnItsWay(manager)
    BY <1>1 DEF CallInv
  <2>2. CASE Tunneld
    BY <1>1, <1>3, <1>4, <2>1, <2>2 DEF Tunneld, OnItsWay, local
  <2>3. CASE Install \/ Mark \/ Activate \/ Forget \/ Unmount
    BY <1>1, <1>3, <2>1, <2>3 DEF Install, Mark, Activate, Forget, Unmount, OnItsWay, local
  <2>4. QED
    BY <1>7, <2>2, <2>3 DEF Manage
<1>8. ASSUME NEW p \in Procs, Step(p)
      PROVE  CallInv'
  <2>1. OnItsWay(p)
    BY DEF CallInv
  <2>2. CASE Take(p)
    BY <1>1, <1>3, <2>1, <2>2 DEF Take, AfterTake, OnItsWay
  <2>3. CASE Untake(p) \/ ReadTunnel(p) \/ UseSession(p) \/ RefuseUserspace(p) \/ Discard(p)
    BY <1>1, <1>3, <2>1, <2>3 DEF Untake, ReadTunnel, UseSession, RefuseUserspace, Discard,
        Opened, OnItsWay, local
  <2>4. CASE Spawn(p) \/ Handshake(p) \/ NoHandshake(p)
    BY <1>1, <1>3, <2>1, <2>4 DEF Spawn, Handshake, NoHandshake, Opened, OnItsWay, local
  <2>5. CASE Send(p) \/ SendFails(p) \/ AnsweredStop(p)
    BY <1>1, <1>3, <2>1, <2>5 DEF Send, SendFails, AnsweredStop, OnItsWay, local
  <2>6. CASE Answered(p)
    BY <1>1, <1>3, <2>1, <2>6 DEF Answered, OnItsWay, local
  <2>7. CASE Timeout(p)
    BY <1>1, <1>3, <2>1, <2>7 DEF Timeout, OnItsWay, local
  <2>8. CASE Invalidate(p) \/ ForceKill(p) \/ Reap(p)
    BY <1>1, <1>3, <2>1, <2>8 DEF Invalidate, ForceKill, Reap, AfterStop, OnItsWay
  <2>9. CASE Returns(p)
    BY <1>4, <2>9 DEF Returns
  <2>10. QED
    BY <1>8, <2>2, <2>3, <2>4, <2>5, <2>6, <2>7, <2>8, <2>9 DEF Step
<1>9. CASE UNCHANGED <<pc, op>>
  BY <1>9 DEF CallInv, OnItsWay
<1>10. QED
  BY <1>5, <1>6, <1>7, <1>8, <1>9 DEF Next, Answer, Exit, Dies, Garbage, EndpointMoves, local

\* What a call has in hand, whichever call it is.
LEMMA InHand ==
    ASSUME CallInv, NEW p \in Procs
    PROVE  /\ pc[p] = "boot" => op[p] = "start"
           /\ pc[p] \in {"tunnel", "session", "spawn", "untake"} => op[p] # "start"
           /\ pc[p] = "install" => op[p] = "start"
           /\ op[p] = "start" => p = manager
<1>1. OnItsWay(p)
  BY DEF CallInv
<1>2. QED
  BY <1>1, Pmd3Assumption DEF OnItsWay, Procs

LEMMA LockStep ==
    ASSUME CallInv, LockInv, Next
    PROVE  LockInv'
<1>1. /\ manager \in Procs /\ Injectors \subseteq Procs /\ None \notin Procs
      /\ None \notin {"set", "clear", "start", "stop"}
  BY Pmd3Assumption DEF Procs
<1>2. DOMAIN pc = Procs /\ op \in [Procs -> Ops \union {None}]
  BY DEF CallInv
\* One goroutine moves on, out of locMu or by its side.
<1>3. ASSUME NEW p \in Procs, UNCHANGED locMu,
             \A q \in Procs \ {p} : pc'[q] = pc[q] /\ op'[q] = op[q],
             pc[p] \in {"spawn", "starting"} /\ op[p] # "start"
                <=> pc'[p] \in {"spawn", "starting"} /\ op'[p] # "start",
             location' = location \/ locMu = None
      PROVE  LockInv'
  BY <1>3 DEF LockInv
<1>4. ASSUME NEW p \in Procs, Return(p), pc[p] \notin {"spawn", "starting"}, UNCHANGED driver
      PROVE  LockInv'
  BY <1>2, <1>3, <1>4 DEF Return, Goto, Set, driver
<1>5. ASSUME NEW p \in Procs, NEW what, NEW step, Call(p, what, step),
             step \in {"tunnel", "take", "tunneld"}
      PROVE  LockInv'
  BY <1>2, <1>3, <1>5 DEF Call, Goto, Set, driver
<1>6. CASE Manage
  BY <1>1, <1>2, <1>3, <1>4, <1>6 DEF Manage, Tunneld, Install, Mark, Activate, Forget, Unmount,
      Goto, Set, driver, local
<1>7. ASSUME NEW p \in Procs, Step(p)
      PROVE  LockInv'
  <2>1. CASE Take(p)
    <3>1. pc' = [pc EXCEPT ![p] = AfterTake(op[p], location)] /\ op' = op
          /\ op[p] \in {"clear", "stop", "start"} /\ pc[p] = "take" /\ locMu = None /\ locMu' = locMu
      <4>1. OnItsWay(p)
        BY DEF CallInv
      <4>2. QED
        BY <1>1, <2>1, <4>1 DEF Take, Goto, Set, OnItsWay
    <3>2. AfterTake(op[p], location) \notin {"spawn", "starting"}
      BY <3>1 DEF AfterTake
    <3>3. QED
      BY <1>2, <1>3, <3>1, <3>2
  <2>2. CASE Untake(p) \/ ReadTunnel(p) \/ RefuseUserspace(p) \/ UseSession(p)
    BY <1>2, <1>3, <2>2 DEF Untake, ReadTunnel, RefuseUserspace, UseSession, Opened, Goto, Set,
        driver, local
  <2>3. CASE Discard(p)
    <3>1. op[p] # "start"
      BY <2>3, InHand DEF Discard
    <3>2. /\ locMu = None /\ locMu' = p /\ location' = NoSession /\ op' = op
          /\ pc' = [pc EXCEPT ![p] = "spawn"]
      BY <2>3 DEF Discard, Goto, Set
    <3>3. QED
      BY <1>1, <1>2, <3>1, <3>2 DEF LockInv
  <2>4. CASE Spawn(p)
    BY <1>2, <1>3, <2>4, InHand DEF Spawn, Goto, Set, driver
  <2>5. CASE Handshake(p)
    <3>1. CASE op[p] = "start"
      BY <1>2, <1>3, <2>5, <3>1 DEF Handshake, Goto, Set, driver, local
    <3>2. CASE op[p] # "start"
      <4>1. /\ pc[p] = "starting" /\ locMu = p /\ locMu' = None /\ op' = op
            /\ pc' = [pc EXCEPT ![p] = IF op[p] = "clear" THEN "untake" ELSE "send"]
        BY <2>5, <3>2 DEF Handshake, Opened, Goto, Set, local, LockInv
      <4>2. QED
        BY <1>1, <1>2, <4>1 DEF LockInv
    <3>3. QED
      BY <3>1, <3>2
  <2>6. CASE NoHandshake(p)
    <3>1. /\ pc' = [pc EXCEPT ![p] = "return"] /\ op' = op /\ location' = location
          /\ locMu' = IF locMu = p THEN None ELSE locMu
      BY <2>6 DEF NoHandshake, Goto, Set, local
    <3>2. QED
      BY <1>1, <1>2, <3>1 DEF LockInv
  <2>7. CASE Send(p) \/ SendFails(p) \/ AnsweredStop(p)
    BY <1>2, <1>3, <2>7 DEF Send, SendFails, AnsweredStop, Goto, Set, driver, local
  <2>8. CASE Answered(p) \/ Timeout(p)
    <3>1. PICK step \in {"failed", "return", "sendstop", "reap"} : Goto(p, step)
      <4>1. CASE Answered(p)
        BY <4>1 DEF Answered
      <4>2. CASE Timeout(p)
        BY <4>2 DEF Timeout
      <4>3. QED
        BY <2>8, <4>1, <4>2
    <3>2. pc[p] \in {"await", "awaitstop"} /\ op' = op /\ UNCHANGED driver
      BY <2>8 DEF Answered, Timeout, local
    <3>3. QED
      BY <1>2, <1>3, <3>1, <3>2 DEF Goto, Set, driver
  <2>9. CASE Invalidate(p) \/ ForceKill(p) \/ Reap(p)
    BY <1>2, <1>3, <2>9 DEF Invalidate, ForceKill, Reap, AfterStop, Goto, Set, driver
  <2>10. CASE Returns(p)
    BY <1>4, <2>10 DEF Returns
  <2>11. QED
    BY <1>7, <2>1, <2>2, <2>3, <2>4, <2>5, <2>6, <2>7, <2>8, <2>9, <2>10 DEF Step
<1>8. CASE UNCHANGED <<pc, op, location, locMu>>
  BY <1>8 DEF LockInv
<1>9. QED
  BY <1>1, <1>5, <1>6, <1>7, <1>8 DEF Next, SetLocation, ClearLocation, StartTunnel, StopTunnel,
      Answer, Exit, Dies, Garbage, EndpointMoves, driver, local

LEMMA ValueStep ==
    ASSUME ValueInv, WorkerInv, Shape, Next
    PROVE  ValueInv'
<1>1. manager \in Procs /\ None \in Places /\ InProcess \in Places /\ Endpoints \subseteq Places
  BY DEF Procs, Places
<1>2. CASE UNCHANGED <<endpoint, userspace, made, bound, id, ti>>
  BY <1>2 DEF ValueInv
<1>3. ASSUME NEW p \in Procs, Return(p), UNCHANGED <<userspace, made, bound>>, endpoint' \in Places
      PROVE  ValueInv'
  BY <1>1, <1>3 DEF Return, Set, ValueInv
<1>4. CASE StartTunnel \/ Manage \/ EndpointMoves
  BY <1>1, <1>3, <1>4 DEF StartTunnel, Call, Manage, Tunneld, Install, Mark, Activate, Forget,
      Unmount, EndpointMoves, ValueInv, session, tunnel, local
<1>5. ASSUME NEW p \in Procs, Step(p)
      PROVE  ValueInv'
  <2>1. CASE ReadTunnel(p)
    BY <2>1 DEF ReadTunnel, Set, ValueInv, tunnel, session
  <2>2. CASE Spawn(p)
    <3>1. /\ made' = made + 1 /\ made < MaxSessions /\ UNCHANGED <<endpoint, userspace, id, ti>>
          /\ bound' = [bound EXCEPT ![made'] = IF pc[p] = "boot" THEN InProcess ELSE ti[p]]
      BY <2>2 DEF Spawn, Set, tunnel
    <3>2. made' \in 0 .. MaxSessions
      BY <3>1, Pmd3Assumption DEF ValueInv
    <3>3. QED
      BY <1>1, <3>1, <3>2 DEF ValueInv
  <2>3. CASE Send(p)
    <3>1. /\ id' = [id EXCEPT ![p] = nextID[sess[p]] + 1]
          /\ UNCHANGED <<endpoint, userspace, made, bound, ti>>
      BY <2>3 DEF Send, Set, tunnel
    <3>2. nextID[sess[p]] \in Nat
      <4>1. sess[p] \in Sessions
        BY <2>3, Pmd3Assumption DEF Send, WorkerInv, HasWorker, Sessions, NoSession
      <4>2. QED
        BY <4>1 DEF Shape
    <3>3. QED
      BY <3>1, <3>2 DEF ValueInv
  <2>4. CASE Returns(p)
    BY <1>3, <2>4 DEF Returns, tunnel, session, ValueInv
  <2>5. QED
    BY <1>2, <1>5, <2>1, <2>2, <2>3, <2>4 DEF Step, Take, Untake, UseSession, RefuseUserspace,
        Discard, Drop, Kill, Handshake, NoHandshake, SendFails, Answered, AnsweredStop, Timeout,
        Invalidate, ForceKill, Reap, tunnel, session, local
<1>6. QED
  BY <1>2, <1>4, <1>5 DEF Next, SetLocation, ClearLocation, StopTunnel, Call, Answer, Exit,
      Dies, Garbage, Kill, tunnel, session, local

\* Nothing starts a worker: those that are used stay started, and the one that
\* somebody waits for stays his.
LEMMA WorkersGoOn ==
    ASSUME WorkerInv, NEW p, DOMAIN pc' = Procs,
           \A q \in Procs \ {p} : pc'[q] = pc[q] /\ sess'[q] = sess[q],
           sess' \in [Procs -> 0 .. MaxSessions], made' = made, made \in 0 .. MaxSessions,
           worker' \in [Sessions -> Started \union {"none", "starting"}],
           reading' \in [Sessions -> BOOLEAN],
           location' \in 0 .. MaxSessions,
           location' # NoSession => worker'[location'] \in Started,
           \A s \in Sessions :
               /\ worker[s] \in Started => worker'[s] \in Started
               /\ reading'[s] => worker'[s] \in {"running", "closing"}
               /\ worker[s] \in {"none", "starting"} =>
                     \/ worker'[s] = worker[s]
                     \/ /\ p \in Procs /\ pc[p] = "starting" /\ s = sess[p]
                        /\ worker'[s] \in Started,
           p \in Procs =>
               /\ sess'[p] =< made /\ pc'[p] # "starting"
               /\ pc'[p] \in HasWorker => sess'[p] # NoSession /\ worker'[sess'[p]] \in Started
    PROVE  WorkerInv'
<1>1. MaxSessions \in Nat /\ \A q \in Procs : sess[q] # NoSession => sess[q] \in Sessions
  BY Pmd3Assumption DEF WorkerInv, Sessions, NoSession
<1>2. ASSUME NEW s \in Sessions  PROVE worker'[s] = "none" <=> s > made
  <2>1. worker[s] = "none" <=> worker'[s] = "none"
    BY DEF WorkerInv, Started
  <2>2. QED
    BY <2>1 DEF WorkerInv
<1>3. ASSUME NEW q \in Procs, q # p
      PROVE  /\ sess'[q] =< made
             /\ pc'[q] \in HasWorker => sess'[q] # NoSession /\ worker'[sess'[q]] \in Started
             /\ pc'[q] = "starting" =>
                  /\ sess'[q] # NoSession /\ worker'[sess'[q]] = "starting"
                  /\ \A r \in Procs : pc'[r] = "starting" /\ sess'[r] = sess'[q] => r = q
  <2>1. pc'[q] = pc[q] /\ sess'[q] = sess[q] /\ sess[q] =< made
    BY <1>3 DEF WorkerInv
  <2>2. pc[q] \in HasWorker => sess[q] # NoSession /\ worker'[sess[q]] \in Started
    BY <1>1 DEF WorkerInv
  <2>3. ASSUME pc[q] = "starting"
        PROVE  /\ sess[q] # NoSession /\ worker'[sess[q]] = "starting"
               /\ \A r \in Procs : pc'[r] = "starting" /\ sess'[r] = sess[q] => r = q
    <3>1. sess[q] # NoSession /\ sess[q] \in Sessions /\ worker[sess[q]] = "starting"
      BY <1>1, <2>3 DEF WorkerInv
    <3>2. worker'[sess[q]] = "starting"
      BY <1>3, <2>3, <3>1 DEF WorkerInv
    <3>3. \A r \in Procs : pc'[r] = "starting" => r # p /\ pc[r] = "starting" /\ sess'[r] = sess[r]
      OBVIOUS
    <3>4. QED
      BY <2>3, <3>1, <3>2, <3>3 DEF WorkerInv
  <2>4. QED
    BY <2>1, <2>2, <2>3
<1>4. QED
  BY <1>2, <1>3 DEF WorkerInv

\* Workers end, or a reader does: no worker starts.
Ending ==
    /\ worker' \in [Sessions -> Started \union {"none", "starting"}]
    /\ reading' \in [Sessions -> BOOLEAN]
    /\ \A s \in Sessions :
         /\ worker[s] \in Started => worker'[s] \in Started
         /\ worker[s] \in {"none", "starting"} => worker'[s] = worker[s]
         /\ reading'[s] => worker'[s] \in {"running", "closing"}
         /\ worker'[s] = "running" => worker[s] = "running"

LEMMA Unchanged == ASSUME WorkerInv, UNCHANGED <<worker, reading>>  PROVE Ending
BY DEF WorkerInv, Ending

LEMMA Killed ==
    ASSUME WorkerInv, NEW s \in Sessions, worker[s] \in Started, Kill(s)
    PROVE  Ending /\ worker'[s] = "dead"
<1>1. worker' = [worker EXCEPT ![s] = "dead"]
  BY DEF Kill, Set
<1>2. reading' = [reading EXCEPT ![s] = FALSE]
  <2>1. CASE reading[s]
    BY <2>1 DEF Kill, FailPending, Set
  <2>2. CASE ~reading[s]
    <3>1. reading' = reading /\ reading[s] = FALSE
      BY <2>2 DEF Kill, WorkerInv
    <3>2. QED
      BY <3>1 DEF WorkerInv
  <2>3. QED
    BY <2>1, <2>2
<1>3. QED
  BY <1>1, <1>2 DEF WorkerInv, Ending, Started

LEMMA StdinClosed ==
    ASSUME WorkerInv, NEW s \in Sessions, worker[s] \in Started, CloseStdin(s), UNCHANGED reading
    PROVE  Ending /\ worker'[s] # "running"
<1>1. CASE worker[s] = "dead"
  BY <1>1, Unchanged DEF CloseStdin
<1>2. CASE worker[s] # "dead"
  <2>1. worker' = [worker EXCEPT ![s] = "closing"]
    BY <1>2 DEF CloseStdin, Set
  <2>2. QED
    BY <2>1 DEF WorkerInv, Ending, Started
<1>3. QED
  BY <1>1, <1>2

LEMMA WorkerEnds ==
    ASSUME WorkerInv, NEW s \in Sessions, Answer(s) \/ Exit(s) \/ Dies(s) \/ Garbage(s)
    PROVE  Ending
<1>1. CASE Answer(s)
  <2>1. reading' = reading /\ (worker' = worker \/ worker' = [worker EXCEPT ![s] = "closing"])
        /\ worker[s] \in {"running", "closing"}
    BY <1>1 DEF Answer, Set
  <2>2. QED
    BY <2>1, Unchanged DEF WorkerInv, Ending, Started
<1>2. CASE Exit(s) \/ Dies(s)
  BY <1>2, Killed DEF Exit, Dies, Started
<1>3. CASE Garbage(s)
  <2>1. worker' = worker /\ reading' = [reading EXCEPT ![s] = FALSE]
    BY <1>3 DEF Garbage, FailPending, Set
  <2>2. QED
    BY <2>1 DEF WorkerInv, Ending, Started
<1>4. QED
  BY <1>1, <1>2, <1>3

\* A call that opens no session.
LEMMA WorkerStep ==
    ASSUME CallInv, ValueInv, LockInv, WorkerInv, Next
    PROVE  WorkerInv'
<1>1. /\ manager \in Procs /\ Injectors \subseteq Procs /\ MaxSessions \in Nat
      /\ Sessions = 1 .. MaxSessions /\ NoSession = 0 /\ made \in 0 .. MaxSessions
      /\ DOMAIN pc = Procs
  BY Pmd3Assumption DEF Procs, Sessions, NoSession, ValueInv, CallInv
<1>2. \A p \in Procs : pc[p] \in HasWorker => sess[p] \in Sessions /\ worker[sess[p]] \in Started
  BY <1>1 DEF WorkerInv
<1>3. location # NoSession => location \in Sessions /\ worker[location] \in Started
  BY <1>1 DEF WorkerInv
<1>4. CASE UNCHANGED <<worker, reading, made, location, sess, pc>>
  BY <1>4 DEF WorkerInv
\* One goroutine goes to a step that needs no worker, or has one.
<1>5. ASSUME NEW p \in Procs, NEW step, Goto(p, step), step \notin HasWorker \union {"starting"},
             Ending, made' = made, location' \in {location, NoSession},
             \/ sess' = sess
             \/ sess' = [sess EXCEPT ![p] = NoSession]
      PROVE  WorkerInv'
  <2>1. DOMAIN pc' = Procs /\ pc'[p] = step /\ \A q \in Procs \ {p} : pc'[q] = pc[q]
    BY <1>1, <1>5 DEF Goto, Set
  <2>2. /\ sess' \in [Procs -> 0 .. MaxSessions] /\ sess'[p] =< made
        /\ \A q \in Procs \ {p} : sess'[q] = sess[q]
    BY <1>1, <1>5 DEF WorkerInv
  <2>3. location' \in 0 .. MaxSessions /\ (location' # NoSession => worker'[location'] \in Started)
    BY <1>1, <1>3, <1>5 DEF WorkerInv, Ending
  <2>4. QED
    BY <1>1, <1>5, <2>1, <2>2, <2>3, WorkersGoOn DEF Ending
<1>6. ASSUME NEW p \in Procs, NEW step, Goto(p, step), step # "starting",
             Ending, made' = made, location' \in {location, NoSession},
             \/ sess' = sess /\ pc[p] \in HasWorker
             \/ sess' = [sess EXCEPT ![p] = location] /\ (step \in HasWorker => location # NoSession)
      PROVE  WorkerInv'
  <2>1. DOMAIN pc' = Procs /\ pc'[p] = step /\ \A q \in Procs \ {p} : pc'[q] = pc[q]
    BY <1>1, <1>6 DEF Goto, Set
  <2>2. location =< made
    <3>1. CASE location = NoSession
      BY <1>1, <3>1
    <3>2. CASE location # NoSession
      <4>1. location \in Sessions /\ worker[location] # "none"
        BY <1>3, <3>2 DEF Started
      <4>2. QED
        BY <1>1, <4>1 DEF WorkerInv
    <3>3. QED
      BY <3>1, <3>2
  <2>3. /\ sess' \in [Procs -> 0 .. MaxSessions] /\ sess'[p] =< made
        /\ \A q \in Procs \ {p} : sess'[q] = sess[q]
        /\ step \in HasWorker => sess'[p] # NoSession /\ worker'[sess'[p]] \in Started
    <3>1. CASE sess' = sess /\ pc[p] \in HasWorker
      <4>1. sess[p] \in Sessions /\ worker'[sess[p]] \in Started
        BY <1>2, <1>6, <3>1 DEF Ending
      <4>2. QED
        BY <1>1, <3>1, <4>1 DEF WorkerInv
    <3>2. CASE /\ sess' = [sess EXCEPT ![p] = location]
               /\ step \in HasWorker => location # NoSession
      <4>1. location # NoSession => worker'[location] \in Started
        BY <1>3, <1>6 DEF Ending
      <4>2. QED
        BY <1>1, <2>2, <3>2, <4>1 DEF WorkerInv
    <3>3. QED
      BY <1>6, <3>1, <3>2
  <2>4. location' \in 0 .. MaxSessions /\ (location' # NoSession => worker'[location'] \in Started)
    BY <1>1, <1>3, <1>6 DEF WorkerInv, Ending
  <2>5. QED
    BY <1>1, <1>6, <2>1, <2>3, <2>4, WorkersGoOn DEF Ending
<1>7. ASSUME NEW p \in Procs, Return(p), UNCHANGED <<worker, reading, made, location>>
      PROVE  WorkerInv'
  BY <1>5, <1>7, Unchanged DEF Return, Set, HasWorker
<1>8. ASSUME NEW p \in Procs, NEW what, NEW step, Call(p, what, step),
             step \in {"tunnel", "take", "tunneld"}
      PROVE  WorkerInv'
  BY <1>5, <1>8, Unchanged DEF Call, HasWorker, driver, session
<1>9. CASE Manage
  <2>1. CASE Tunneld
    BY <1>1, <1>5, <1>7, <2>1, Unchanged DEF Tunneld, HasWorker, driver, session, local
  <2>2. CASE Install
    <3>1. /\ Goto(manager, "mark") /\ location' = sess[manager] /\ pc[manager] = "install"
          /\ UNCHANGED <<sess, made, worker, reading>>
      BY <2>2 DEF Install, session, local
    <3>2. DOMAIN pc' = Procs /\ pc'[manager] = "mark" /\ \A q \in Procs \ {manager} : pc'[q] = pc[q]
      BY <1>1, <3>1 DEF Goto, Set
    <3>3. sess[manager] \in Sessions /\ worker[sess[manager]] \in Started /\ sess[manager] =< made
          /\ sess \in [Procs -> 0 .. MaxSessions]
      BY <1>1, <1>2, <3>1 DEF HasWorker, WorkerInv
    <3>4. QED
      BY <1>1, <3>1, <3>2, <3>3, WorkersGoOn, Unchanged DEF Ending, HasWorker
  <2>3. CASE Mark \/ Activate \/ Forget \/ Unmount
    BY <1>1, <1>5, <2>3, Unchanged DEF Mark, Activate, Forget, Unmount, HasWorker, driver,
        session, local
  <2>4. QED
    BY <1>9, <2>1, <2>2, <2>3 DEF Manage
<1>10. ASSUME NEW p \in Procs, Step(p)
       PROVE  WorkerInv'
  <2>1. CASE Take(p)
    <3>1. op[p] \in {"clear", "stop", "start"}
      <4>1. OnItsWay(p)
        BY DEF CallInv
      <4>2. QED
        BY <2>1, <4>1, Pmd3Assumption DEF Take, OnItsWay, Procs
    <3>2. /\ AfterTake(op[p], location) # "starting"
          /\ AfterTake(op[p], location) \in HasWorker => location # NoSession
      BY <3>1 DEF AfterTake, HasWorker
    <3>3. /\ Goto(p, AfterTake(op[p], location)) /\ sess' = [sess EXCEPT ![p] = location]
          /\ location' = NoSession /\ made' = made /\ Ending
      BY <2>1, Unchanged DEF Take, Set, session
    <3>4. QED
      BY <1>6, <3>2, <3>3
  <2>2. CASE Untake(p)
    BY <1>6, <2>2, Unchanged DEF Untake, HasWorker, session, local
  <2>3. CASE ReadTunnel(p)
    BY <1>5, <2>3, Unchanged DEF ReadTunnel, HasWorker, session, driver
  <2>4. CASE RefuseUserspace(p)
    BY <1>5, <2>4, Unchanged DEF RefuseUserspace, HasWorker, session, driver, local
  <2>5. CASE UseSession(p)
    <3>1. location # NoSession /\ sess' = [sess EXCEPT ![p] = location] /\ made' = made
          /\ location' = location /\ Ending
      BY <2>5, Unchanged DEF UseSession, Usable, Set, driver, session
    <3>2. Goto(p, "untake") \/ Goto(p, "send")
      BY <2>5 DEF UseSession, Opened
    <3>3. QED
      BY <1>6, <3>1, <3>2
  <2>6. CASE Discard(p)
    <3>1. Ending
      BY <1>3, <2>6, Killed, Unchanged DEF Discard, Drop, session
    <3>2. QED
      BY <1>5, <2>6, <3>1 DEF Discard, HasWorker
  <2>7. CASE Spawn(p)
    <3>1. /\ made' = made + 1 /\ made < MaxSessions /\ UNCHANGED <<location, reading>>
          /\ sess' = [sess EXCEPT ![p] = made'] /\ worker' = [worker EXCEPT ![made'] = "starting"]
          /\ pc' = [pc EXCEPT ![p] = "starting"]
      BY <2>7 DEF Spawn, Goto, Set, driver
    <3>2. made' \in Sessions /\ made' \in 0 .. MaxSessions
      BY <1>1, <3>1
    <3>3. worker[made'] = "none"
      BY <1>1, <3>1, <3>2 DEF WorkerInv
    <3>4. /\ worker' \in [Sessions -> Started \union {"none", "starting"}]
          /\ sess' \in [Procs -> 0 .. MaxSessions]
      BY <3>1, <3>2 DEF WorkerInv
    <3>5. \A s \in Sessions :
             /\ worker'[s] = "none" <=> s > made'
             /\ reading'[s] => worker'[s] \in {"running", "closing"}
      <4>1. SUFFICES ASSUME NEW s \in Sessions
                     PROVE  /\ worker'[s] = "none" <=> s > made'
                            /\ reading[s] => worker'[s] \in {"running", "closing"}
        BY <3>1
      <4>2. (worker[s] = "none" <=> s > made) /\ (reading[s] => worker[s] \in {"running", "closing"})
        BY DEF WorkerInv
      <4>3. CASE s = made'
        <5>1. worker'[s] = "starting" /\ ~(s > made')
          BY <1>1, <3>1, <3>2, <4>3 DEF WorkerInv
        <5>2. QED
          BY <3>3, <4>2, <4>3, <5>1
      <4>4. CASE s # made'
        <5>1. worker'[s] = worker[s]
          BY <3>1, <4>4 DEF WorkerInv
        <5>2. s > made' <=> s > made
          BY <1>1, <3>1, <4>4
        <5>3. QED
          BY <4>2, <5>1, <5>2
      <4>5. QED
        BY <4>3, <4>4
    <3>6. location' # NoSession => worker'[location'] \in Started
      BY <1>3, <3>1, <3>2, <3>3 DEF WorkerInv, Started
    <3>7. ASSUME NEW q \in Procs, q # p
          PROVE  /\ sess'[q] = sess[q] /\ sess[q] < made' /\ pc'[q] = pc[q]
                 /\ sess[q] \in Sessions => worker'[sess[q]] = worker[sess[q]]
      <4>1. sess'[q] = sess[q] /\ pc'[q] = pc[q] /\ sess[q] =< made /\ sess[q] \in 0 .. MaxSessions
        BY <1>1, <3>1, <3>7 DEF WorkerInv
      <4>2. sess[q] < made' /\ sess[q] # made'
        BY <1>1, <3>1, <4>1
      <4>3. QED
        BY <3>1, <4>1, <4>2 DEF WorkerInv
    <3>8. sess'[p] = made' /\ pc'[p] = "starting" /\ worker'[made'] = "starting" /\ made' # NoSession
      BY <1>1, <3>1, <3>2 DEF WorkerInv
    <3>9. ASSUME NEW q \in Procs
          PROVE  /\ sess'[q] =< made'
                 /\ pc'[q] \in HasWorker => sess'[q] # NoSession /\ worker'[sess'[q]] \in Started
                 /\ pc'[q] = "starting" =>
                      /\ sess'[q] # NoSession /\ worker'[sess'[q]] = "starting"
                      /\ \A r \in Procs : pc'[r] = "starting" /\ sess'[r] = sess'[q] => r = q
      <4>1. CASE q = p
        <5>1. \A r \in Procs : r # p => sess'[r] # made'
          BY <3>7, <1>1, <3>2 DEF WorkerInv
        <5>2. QED
          BY <3>2, <3>8, <4>1, <5>1 DEF HasWorker
      <4>2. CASE q # p
        <5>1. /\ sess'[q] = sess[q] /\ sess[q] =< made' /\ sess[q] # made' /\ pc'[q] = pc[q]
              /\ sess[q] # NoSession => worker'[sess[q]] = worker[sess[q]]
          BY <1>1, <3>2, <3>7, <4>2 DEF WorkerInv
        <5>2. pc[q] = "starting" =>
                 \A r \in Procs : pc'[r] = "starting" /\ sess'[r] = sess[q] => r = q
          BY <3>7, <3>8, <5>1 DEF WorkerInv
        <5>3. QED
          BY <5>1, <5>2 DEF WorkerInv
      <4>3. QED
        BY <4>1, <4>2
    <3>10. QED
      BY <3>1, <3>4, <3>5, <3>6, <3>9 DEF WorkerInv
  <2>8. CASE pc[p] = "starting" /\ (Handshake(p) \/ NoHandshake(p))
    <3>1. sess[p] \in Sessions /\ worker[sess[p]] = "starting" /\ sess[p] =< made
      BY <1>1, <2>8 DEF WorkerInv
    <3>2. ~reading[sess[p]]
      BY <3>1 DEF WorkerInv
    <3>3. /\ \/ /\ worker' = [worker EXCEPT ![sess[p]] = "running"]
                /\ reading' = [reading EXCEPT ![sess[p]] = TRUE]
             \/ worker' = [worker EXCEPT ![sess[p]] = "dead"] /\ reading' = reading
          /\ UNCHANGED <<made, sess>> /\ location' \in {location, sess[p]}
          /\ \E step \in HasWorker \union {"return"} : Goto(p, step)
      <4>1. CASE Handshake(p)
        BY <4>1 DEF Handshake, Opened, Set, local, driver, HasWorker
      <4>2. CASE NoHandshake(p)
        BY <2>8, <4>2 DEF NoHandshake, Set, local
      <4>3. QED
        BY <2>8, <4>1, <4>2
    <3>4. /\ worker' \in [Sessions -> Started \union {"none", "starting"}]
          /\ worker'[sess[p]] \in Started
          /\ \A s \in Sessions : s # sess[p] => worker'[s] = worker[s]
      BY <3>1, <3>3 DEF WorkerInv, Started
    <3>5. /\ reading' \in [Sessions -> BOOLEAN]
          /\ \A s \in Sessions : reading'[s] => worker'[s] \in {"running", "closing"}
      <4>1. CASE /\ worker' = [worker EXCEPT ![sess[p]] = "running"]
                 /\ reading' = [reading EXCEPT ![sess[p]] = TRUE]
        BY <3>1, <4>1 DEF WorkerInv
      <4>2. CASE worker' = [worker EXCEPT ![sess[p]] = "dead"] /\ reading' = reading
        BY <3>1, <3>2, <4>2 DEF WorkerInv
      <4>3. QED
        BY <3>3, <4>1, <4>2
    <3>6. /\ location' \in 0 .. MaxSessions
          /\ location' # NoSession => worker'[location'] \in Started
      BY <1>1, <1>3, <3>1, <3>3, <3>4 DEF WorkerInv
    <3>7. /\ DOMAIN pc' = Procs /\ pc'[p] # "starting" /\ \A q \in Procs \ {p} : pc'[q] = pc[q]
      BY <1>1, <3>3 DEF Goto, Set, HasWorker
    <3>8. QED
      BY <1>1, <2>8, <3>1, <3>3, <3>4, <3>5, <3>6, <3>7, WorkersGoOn DEF WorkerInv
  <2>9. CASE NoHandshake(p) /\ pc[p] # "starting"
    BY <1>5, <2>9, Unchanged DEF NoHandshake, HasWorker, local
  <2>10. CASE Send(p) \/ SendFails(p)
    BY <1>6, <2>10, Unchanged DEF Send, SendFails, HasWorker, driver, session, local
  <2>11. CASE Answered(p)
    <3>1. PICK step \in {"failed", "return", "sendstop"} : Goto(p, step)
      BY <2>11 DEF Answered
    <3>2. QED
      BY <1>6, <2>11, <3>1, Unchanged DEF Answered, HasWorker, driver, session, local
  <2>12. CASE AnsweredStop(p)
    BY <1>2, <1>6, <2>12, StdinClosed DEF AnsweredStop, HasWorker, driver, local
  <2>13. CASE Timeout(p)
    <3>1. PICK step \in {"failed", "return", "reap"} : Goto(p, step)
      BY <2>13 DEF Timeout
    <3>2. Ending
      BY <1>2, <2>13, StdinClosed, Unchanged DEF Timeout, HasWorker
    <3>3. QED
      BY <1>6, <2>13, <3>1, <3>2 DEF Timeout, HasWorker, driver, local
  <2>14. CASE Invalidate(p) \/ ForceKill(p) \/ Reap(p)
    <3>1. Ending
      BY <1>2, <2>14, Killed, Unchanged DEF Invalidate, ForceKill, Reap, HasWorker, session
    <3>2. PICK step \in {"return", "boot", "forget"} : Goto(p, step)
      BY <2>14 DEF Invalidate, ForceKill, Reap, AfterStop
    <3>3. QED
      BY <1>5, <2>14, <3>1, <3>2 DEF Invalidate, ForceKill, Reap, HasWorker, driver
  <2>15. CASE Returns(p)
    BY <1>7, <2>15 DEF Returns, driver, session
  <2>16. QED
    BY <1>10, <2>1, <2>2, <2>3, <2>4, <2>5, <2>6, <2>7, <2>8, <2>9, <2>10, <2>11, <2>12, <2>13,
       <2>14, <2>15 DEF Step, Handshake
<1>11. ASSUME NEW s \in Sessions, Answer(s) \/ Exit(s) \/ Dies(s) \/ Garbage(s)
       PROVE  WorkerInv'
  <2>1. Ending /\ UNCHANGED <<pc, sess, location, made>>
    BY <1>11, WorkerEnds DEF Answer, Exit, Dies, Garbage, driver
  <2>2. None \notin Procs
    BY Pmd3Assumption
  <2>3. /\ sess' \in [Procs -> 0 .. MaxSessions] /\ location' \in 0 .. MaxSessions
        /\ location' # NoSession => worker'[location'] \in Started
    BY <1>3, <2>1 DEF Ending, WorkerInv
  <2>4. /\ DOMAIN pc' = Procs
        /\ \A q \in Procs \ {None} : pc'[q] = pc[q] /\ sess'[q] = sess[q]
    BY <1>1, <2>1
  <2>5. QED
    BY <1>1, <2>1, <2>2, <2>3, <2>4, WorkersGoOn DEF Ending
<1>12. CASE (\E p \in Injectors : SetLocation(p) \/ ClearLocation(p)) \/ StartTunnel \/ StopTunnel
  BY <1>1, <1>8, <1>12 DEF SetLocation, ClearLocation, StartTunnel, StopTunnel
<1>13. CASE EndpointMoves
  BY <1>4, <1>13 DEF EndpointMoves, driver, session, local
<1>14. QED
  BY <1>9, <1>10, <1>11, <1>12, <1>13 DEF Next

\* What a clear drops was a session.
DroppedInv == dropped \subseteq Sessions

LEMMA DroppedStep ==
    ASSUME WorkerInv, DroppedInv, Next
    PROVE  DroppedInv'
<1>1. location \in Sessions \union {NoSession}
  BY Pmd3Assumption DEF WorkerInv, Sessions, NoSession
<1>2. dropped' = dropped \/ dropped' \subseteq dropped \union ({location} \ {NoSession})
  <2>1. ASSUME NEW p \in Procs, Step(p)
        PROVE  dropped' = dropped \/ dropped' \subseteq dropped \union ({location} \ {NoSession})
    <3>1. CASE Untake(p)
      BY <3>1 DEF Untake
    <3>2. CASE ~Untake(p)
      BY <2>1, <3>2 DEF Step, Take, ReadTunnel, UseSession, RefuseUserspace, Discard, Spawn,
         Handshake, NoHandshake, Send, SendFails, Answered, AnsweredStop, Timeout, Invalidate,
         ForceKill, Reap, Returns, driver
    <3>3. QED
      BY <3>1, <3>2
  <2>2. CASE ~\E p \in Procs : Step(p)
    BY <2>2 DEF Next, Manage, SetLocation, ClearLocation, StartTunnel, StopTunnel, Call, Tunneld,
       Install, Mark, Activate, Forget, Unmount, Answer, Exit, Dies, Garbage, EndpointMoves, driver
  <2>3. QED
    BY <2>1, <2>2
<1>3. QED
  BY <1>1, <1>2 DEF DroppedInv

CallsInv == Inv /\ CallInv /\ ValueInv /\ LockInv /\ WorkerInv /\ DroppedInv

LEMMA CallsInit == Init => CallsInv
<1> SUFFICES ASSUME Init PROVE CallsInv
  OBVIOUS
<1> USE Pmd3Assumption DEF Init
<1>1. CallInv
  BY DEF CallInv, OnItsWay
<1>2. ValueInv
  <2>1. 0 \in 0 .. MaxSessions /\ 0 \in Nat /\ FALSE \in BOOLEAN /\ None \in Places
    BY DEF Places
  <2>2. bound = [s \in Sessions |-> None] /\ id = [p \in Procs |-> 0] /\ ti = [p \in Procs |-> None]
    OBVIOUS
  <2>3. QED
    BY <2>1, <2>2 DEF ValueInv
<1>3. LockInv
  BY DEF LockInv
<1>4. WorkerInv
  BY DEF WorkerInv, Sessions, NoSession, HasWorker
<1>5. QED
  BY <1>1, <1>2, <1>3, <1>4, InitInv DEF CallsInv, DroppedInv

LEMMA CallsStep == CallsInv /\ [Next]_vars => CallsInv'
<1> SUFFICES ASSUME CallsInv, [Next]_vars PROVE CallsInv'
  OBVIOUS
<1>1. Inv'
  BY StepInv DEF CallsInv
<1>2. CASE Next
  BY <1>1, <1>2, CallStep, ValueStep, LockStep, WorkerStep, DroppedStep
     DEF CallsInv, Inv
<1>3. CASE UNCHANGED vars
  BY <1>1, <1>3 DEF CallsInv, CallInv, OnItsWay, ValueInv, LockInv, WorkerInv, DroppedInv,
     vars, tunnel, driver, session, local
<1>4. QED
  BY <1>2, <1>3

LEMMA CallsInvariant == Spec => []CallsInv
BY CallsInit, CallsStep, PTL DEF Spec

LEMMA CallsType == CallsInv => TypeOK
<1> SUFFICES ASSUME CallsInv PROVE TypeOK
  OBVIOUS
<1> USE DEF CallsInv
<1>1. location \in 0 .. made
  <2>1. made \in Nat /\ MaxSessions \in Nat /\ location \in 0 .. MaxSessions
    BY Pmd3Assumption DEF ValueInv, WorkerInv
  <2>2. location # 0 => location =< made
    BY <2>1 DEF WorkerInv, Started, Sessions, NoSession
  <2>3. QED
    BY <2>1, <2>2
<1>2. ASSUME NEW s \in Sessions
      PROVE  pending[s] \subseteq [id : 1 .. nextID[s], by : Procs]
  <2>1. ASSUME NEW w \in pending[s]  PROVE w \in [id : 1 .. nextID[s], by : Procs]
    <3>1. w \in Waits /\ w.id =< nextID[s] /\ nextID[s] \in Nat
      BY <2>1 DEF Inv, Shape, WaitInv
    <3>2. w = [id |-> w.id, by |-> w.by] /\ w.id \in 1 .. nextID[s] /\ w.by \in Procs
      BY <3>1 DEF Waits
    <3>3. QED
      BY <3>2
  <2>2. QED
    BY <2>1
<1>3. ASSUME NEW p \in Procs  PROVE sess[p] \in 0 .. made
  BY DEF WorkerInv, ValueInv
<1>4. /\ \A p \in Procs : pc[p] \in {"spawn", "starting"} /\ op[p] # "start" => locMu = p
      /\ locMu # None => pc[locMu] \in {"spawn", "starting"}
  BY DEF LockInv
<1>5. \A s \in Sessions :
         /\ bound[s] \in Endpoints \union {InProcess, None} /\ nextID[s] \in Nat
         /\ worker[s] \in {"none", "starting", "running", "closing", "dead"}
         /\ reading[s] => worker[s] \in {"running", "closing"}
         /\ worker[s] = "none" <=> s > made
  BY DEF ValueInv, Places, Inv, Shape, WorkerInv, Started
<1>6. /\ endpoint \in Endpoints \union {InProcess, None} /\ userspace \in BOOLEAN
      /\ locMu \in Procs \union {None} /\ made \in 0 .. MaxSessions
  BY DEF ValueInv, Places, LockInv
<1>7. \A p \in Procs :
         op[p] \in Ops \union {None} /\ ti[p] \in Endpoints \union {InProcess, None} /\ id[p] \in Nat
  BY DEF CallInv, ValueInv, Places
<1>8. QED
  BY <1>1, <1>2, <1>3, <1>4, <1>5, <1>6, <1>7 DEF TypeOK, DroppedInv

-----------------------------------------------------------------------------
(* No worker is left behind.                                               *)

\* While a start goes on, the tunnel is down and the driver has no session.
BootInv ==
    op[manager] = "start" =>
        /\ pc[manager] \in {"take", "kill", "boot", "starting", "install"} => endpoint = None
        /\ pc[manager] \in {"kill", "boot", "starting", "install"} => location = NoSession

\* Who takes a session from the driver, or makes one to be the tunnel, keeps it
\* until it is seen to end, or is the driver's.
Keeping(p) ==
    \/ pc[p] \in {"kill", "install", "sendstop", "awaitstop"}
    \/ op[p] = "clear" /\ pc[p] \in {"send", "await", "failed"}

KeptInv ==
    \A s \in Sessions : worker[s] = "running" =>
        \/ s = location \/ s \in dropped
        \/ \E p \in Procs : sess[p] = s /\ Keeping(p)

\* What the manager does, and nobody else.
LEMMA ManagerTakes ==
    ASSUME CallInv, NEW p \in Procs
    PROVE  /\ pc[p] \in {"kill", "boot", "install", "tunneld", "mark", "activate", "forget",
                         "unmount"} => p = manager
           /\ pc[manager] \notin {"untake", "tunnel", "session", "spawn", "send", "await", "failed"}
           /\ op[manager] \in {None, "start", "stop"}
           /\ p # manager => op[p] # "start"
<1>1. OnItsWay(p) /\ OnItsWay(manager) /\ manager \in Procs /\ manager \notin Injectors
  BY Pmd3Assumption DEF CallInv, Procs
<1>2. QED
  BY <1>1, Pmd3Assumption DEF OnItsWay

\* A goroutine's step leaves the others where they are.
LEMMA OthersRest ==
    ASSUME CallInv, WorkerInv, NEW p \in Procs, Step(p)
    PROVE  \A q \in Procs \ {p} : pc'[q] = pc[q] /\ op'[q] = op[q] /\ sess'[q] = sess[q]
<1>1. /\ DOMAIN pc = Procs /\ op \in [Procs -> Ops \union {None}]
      /\ sess \in [Procs -> 0 .. MaxSessions]
  BY DEF CallInv, WorkerInv
<1>2. CASE Take(p) \/ Untake(p) \/ ReadTunnel(p) \/ UseSession(p) \/ RefuseUserspace(p)
  BY <1>1, <1>2 DEF Take, Untake, ReadTunnel, UseSession, RefuseUserspace, Opened, Goto, Set,
      local
<1>3. CASE Discard(p) \/ Spawn(p) \/ Handshake(p) \/ NoHandshake(p)
  BY <1>1, <1>3 DEF Discard, Spawn, Handshake, NoHandshake, Opened, Goto, Set, local
<1>4. CASE Send(p) \/ SendFails(p) \/ Answered(p) \/ AnsweredStop(p) \/ Timeout(p)
  BY <1>1, <1>4 DEF Send, SendFails, Answered, AnsweredStop, Timeout, Goto, Set, local
<1>5. CASE Invalidate(p) \/ ForceKill(p) \/ Reap(p) \/ Returns(p)
  BY <1>1, <1>5 DEF Invalidate, ForceKill, Reap, AfterStop, Returns, Return, Goto, Set
<1>6. QED
  BY <1>2, <1>3, <1>4, <1>5 DEF Step

\* What another goroutine's step leaves alone.
LEMMA OthersStep ==
    ASSUME CallInv, WorkerInv, NEW p \in Procs, p # manager, Step(p)
    PROVE  /\ pc'[manager] = pc[manager] /\ op'[manager] = op[manager]
           /\ endpoint' = endpoint
           /\ \/ Handshake(p) /\ op[p] # "start"
              \/ location' \in {location, NoSession}
<1>1. /\ pc'[manager] = pc[manager] /\ op'[manager] = op[manager]
      /\ op[p] # "start"
  BY OthersRest, ManagerTakes DEF Procs
<1>2. endpoint' = endpoint
  BY DEF Step, Take, Untake, ReadTunnel, UseSession, RefuseUserspace, Discard, Spawn, Handshake,
      NoHandshake, Send, SendFails, Answered, AnsweredStop, Timeout, Invalidate, ForceKill, Reap,
      Returns, tunnel
<1>3. Handshake(p) \/ location' \in {location, NoSession}
  BY DEF Step, Take, Untake, ReadTunnel, UseSession, RefuseUserspace, Discard, Spawn,
      NoHandshake, Send, SendFails, Answered, AnsweredStop, Timeout, Invalidate, ForceKill, Reap,
      Returns, driver
<1>4. QED
  BY <1>1, <1>2, <1>3

LEMMA BootStep ==
    ASSUME CallInv, WorkerInv, BootInv, Next
    PROVE  BootInv'
<1>1. /\ manager \in Procs /\ Injectors \subseteq Procs /\ manager \notin Injectors
      /\ None \notin Endpoints /\ None \notin {"set", "clear", "start", "stop"}
      /\ DOMAIN pc = Procs /\ op \in [Procs -> Ops \union {None}]
  BY Pmd3Assumption DEF Procs, CallInv
\* The manager rests.
<1>2. ASSUME pc'[manager] = pc[manager], op'[manager] = op[manager],
             (endpoint' = endpoint /\ location' \in {location, NoSession}) \/ endpoint # None
      PROVE  BootInv'
  BY <1>2 DEF BootInv
\* The manager goes to a step that needs nothing, or where what it needs holds.
<1>3. ASSUME NEW step, Goto(manager, step),
             \/ step \notin {"take", "kill", "boot", "starting", "install"}
             \/ /\ op'[manager] = "start" => endpoint' = None
                /\ op'[manager] = "start" /\ step # "take" => location' = NoSession
      PROVE  BootInv'
  <2>1. pc'[manager] = step
    BY <1>1, <1>3 DEF Goto, Set
  <2>2. QED
    BY <1>3, <2>1 DEF BootInv
<1>4. ASSUME NEW p \in Procs, p # manager, Step(p)
      PROVE  BootInv'
  <2>1. /\ pc'[manager] = pc[manager] /\ op'[manager] = op[manager]
        /\ endpoint' = endpoint
    BY <1>4, OthersStep
  <2>2. location' \in {location, NoSession} \/ endpoint # None
    BY <1>1, <1>4, OthersStep DEF Handshake
  <2>3. QED
    BY <1>2, <2>1, <2>2
<1>5. CASE Step(manager)
  <2>1. OnItsWay(manager)
    BY <1>1 DEF CallInv
  <2>2. CASE Take(manager) \/ Spawn(manager) \/ ForceKill(manager)
    BY <1>1, <1>3, <2>1, <2>2 DEF Take, Spawn, ForceKill, BootInv, AfterTake, OnItsWay, tunnel,
        driver
  <2>3. CASE Handshake(manager) \/ NoHandshake(manager)
    BY <1>1, <1>3, <2>1, <2>3 DEF Handshake, NoHandshake, BootInv, OnItsWay, tunnel, driver,
        local
  <2>4. CASE Send(manager) \/ SendFails(manager) \/ AnsweredStop(manager)
    BY <1>1, <1>3, <2>1, <2>4 DEF Send, SendFails, AnsweredStop
  <2>5. CASE Timeout(manager) \/ Reap(manager)
    BY <1>1, <1>3, <2>1, <2>5 DEF Timeout, Reap, AfterStop, OnItsWay
  <2>6. CASE Returns(manager)
    BY <1>3, <2>6 DEF Returns, Return
  <2>7. QED
    BY <1>1, <1>5, <2>2, <2>3, <2>4, <2>5, <2>6, ManagerTakes DEF Step, Untake, ReadTunnel,
        UseSession, RefuseUserspace, Discard, Answered, Invalidate
<1>6. CASE Manage
  <2>1. CASE Tunneld
    BY <1>1, <1>3, <2>1 DEF Tunneld, Return
  <2>2. CASE Install \/ Mark \/ Activate \/ Forget \/ Unmount
    BY <1>3, <2>2 DEF Install, Mark, Activate, Forget, Unmount
  <2>3. QED
    BY <1>6, <2>1, <2>2 DEF Manage
<1>7. CASE StartTunnel \/ StopTunnel
  <2>1. CASE StartTunnel
    BY <1>3, <2>1 DEF StartTunnel, Call
  <2>2. CASE StopTunnel
    <3>1. Goto(manager, "take") /\ op'[manager] = "stop"
      BY <1>1, <2>2 DEF StopTunnel, Call, Set
    <3>2. QED
      BY <1>3, <3>1
  <2>3. QED
    BY <1>7, <2>1, <2>2
<1>8. ASSUME NEW p \in Injectors, SetLocation(p) \/ ClearLocation(p)
      PROVE  BootInv'
  BY <1>1, <1>2, <1>8 DEF SetLocation, ClearLocation, Call, Goto, Set, driver
<1>9. ASSUME NEW s \in Sessions, Answer(s) \/ Exit(s) \/ Dies(s) \/ Garbage(s)
      PROVE  BootInv'
  BY <1>2, <1>9 DEF Answer, Exit, Dies, Garbage, tunnel, driver
<1>10. CASE EndpointMoves
  BY <1>1, <1>2, <1>10 DEF EndpointMoves, driver, local
<1>11. QED
  BY <1>4, <1>5, <1>6, <1>7, <1>8, <1>9, <1>10 DEF Next

\* p moves: no other worker comes to run, and what p kept, or took from the driver,
\* it keeps, or ends, or gives to the driver, or is set aside.
LEMMA KeepsOn ==
    ASSUME KeptInv, NEW p \in Procs,
           \A q \in Procs \ {p} : pc'[q] = pc[q] /\ op'[q] = op[q] /\ sess'[q] = sess[q],
           \A s \in Sessions : worker'[s] = "running" =>
               worker[s] = "running" \/ s = location' \/ (sess'[p] = s /\ Keeping(p)'),
           dropped \subseteq dropped',
           \/ location' = location
           \/ location = NoSession
           \/ /\ location' = NoSession
              /\ \/ worker'[location] # "running"
                 \/ location \in dropped'
                 \/ sess'[p] = location /\ Keeping(p)',
           \/ ~Keeping(p)
           \/ worker'[sess[p]] # "running"
           \/ sess[p] = location'
           \/ sess'[p] = sess[p] /\ Keeping(p)'
    PROVE  KeptInv'
<1>1. \A q \in Procs \ {p} : Keeping(q)' <=> Keeping(q)
  BY DEF Keeping
<1>2. SUFFICES ASSUME NEW s \in Sessions, worker'[s] = "running"
               PROVE  \/ s = location' \/ s \in dropped'
                      \/ \E q \in Procs : sess'[q] = s /\ Keeping(q)'
  BY DEF KeptInv
<1>3. CASE worker[s] # "running"
  BY <1>2, <1>3
<1>4. CASE worker[s] = "running" /\ s = location
  <2>1. location # NoSession
    BY <1>4, Pmd3Assumption DEF Sessions, NoSession
  <2>2. QED
    BY <1>2, <1>4, <2>1
<1>5. CASE s \in dropped
  BY <1>5
<1>6. ASSUME NEW q \in Procs, sess[q] = s, Keeping(q)
      PROVE  \/ s = location' \/ s \in dropped'
             \/ \E o \in Procs : sess'[o] = s /\ Keeping(o)'
  <2>1. CASE q = p
    BY <1>2, <1>6, <2>1
  <2>2. CASE q # p
    BY <1>1, <1>6, <2>2
  <2>3. QED
    BY <2>1, <2>2
<1>7. QED
  BY <1>3, <1>4, <1>5, <1>6 DEF KeptInv

LEMMA KeptStep ==
    ASSUME CallInv, ValueInv, LockInv, WorkerInv, BootInv, KeptInv, Next
    PROVE  KeptInv'
<1>1. /\ manager \in Procs /\ Injectors \subseteq Procs
      /\ None \notin Procs /\ None \notin {"set", "clear", "start", "stop"}
      /\ DOMAIN pc = Procs /\ op \in [Procs -> Ops \union {None}]
      /\ sess \in [Procs -> 0 .. MaxSessions]
      /\ Sessions = 1 .. MaxSessions /\ MaxSessions \in Nat /\ NoSession = 0
      /\ made \in 0 .. MaxSessions
  BY Pmd3Assumption DEF Procs, CallInv, WorkerInv, ValueInv, Sessions, NoSession
<1>2. \A p \in Procs : pc[p] \in HasWorker => sess[p] \in Sessions /\ worker[sess[p]] \in Started
  BY <1>1 DEF WorkerInv
<1>3. location # NoSession => location \in Sessions /\ worker[location] \in Started
  BY <1>1 DEF WorkerInv
<1>4. ASSUME NEW p \in Procs, Step(p)
      PROVE  KeptInv'
  <2>0. /\ \A q \in Procs \ {p} : pc'[q] = pc[q] /\ op'[q] = op[q] /\ sess'[q] = sess[q]
        /\ OnItsWay(p)
        /\ \A step : Goto(p, step) => pc'[p] = step
    BY <1>1, <1>4, OthersRest DEF CallInv, Goto, Set
  <2>1. CASE Take(p)
    <3>1. /\ pc[p] = "take" /\ sess'[p] = location /\ location' = NoSession
          /\ pc'[p] = AfterTake(op[p], location) /\ worker' = worker /\ op' = op
          /\ dropped' = dropped
      BY <1>1, <2>0, <2>1 DEF Take, Set, session
    <3>2. location # NoSession => Keeping(p)'
      BY <1>1, <2>0, <3>1 DEF AfterTake, OnItsWay, Keeping
    <3>3. QED
      BY <2>0, <3>1, <3>2, KeepsOn DEF Keeping
  <2>2. CASE Untake(p)
    <3>1. /\ pc[p] = "untake" /\ location' = NoSession /\ UNCHANGED <<worker, op, sess>>
          /\ dropped' = dropped \union ({location} \ {sess[p], NoSession}) /\ pc'[p] = "send"
      BY <2>0, <2>2 DEF Untake, session, local
    <3>2. op[p] = "clear"
      BY <1>1, <2>0, <3>1 DEF OnItsWay
    <3>3. Keeping(p)'
      BY <3>1, <3>2 DEF Keeping
    <3>4. location = NoSession \/ location \in dropped' \/ sess'[p] = location
      BY <3>1
    <3>5. QED
      BY <2>0, <3>1, <3>3, <3>4, KeepsOn
  <2>3. CASE ReadTunnel(p) \/ UseSession(p) \/ RefuseUserspace(p)
    <3>1. /\ pc[p] \in {"tunnel", "session"} /\ UNCHANGED <<worker, location, dropped>>
      BY <2>3 DEF ReadTunnel, UseSession, RefuseUserspace, driver, session
    <3>2. QED
      BY <2>0, <3>1, KeepsOn DEF Keeping
  <2>4. CASE Discard(p)
    <3>1. pc[p] = "session" /\ location' = NoSession /\ dropped' = dropped
      BY <2>4 DEF Discard
    <3>2. CASE location = NoSession
      <4>1. worker' = worker
        BY <2>4, <3>2 DEF Discard, Drop, session
      <4>2. QED
        BY <2>0, <3>1, <3>2, <4>1, KeepsOn DEF Keeping
    <3>3. CASE location # NoSession
      <4>1. Ending /\ worker'[location] = "dead"
        BY <1>3, <2>4, <3>3, Killed DEF Discard, Drop
      <4>2. QED
        BY <2>0, <3>1, <4>1, KeepsOn DEF Keeping, Ending
    <3>4. QED
      BY <3>2, <3>3
  <2>5. CASE Spawn(p)
    <3>1. /\ pc[p] \in {"spawn", "boot"} /\ made < MaxSessions /\ made' = made + 1
          /\ worker' = [worker EXCEPT ![made'] = "starting"]
          /\ UNCHANGED <<location, dropped>>
      BY <1>1, <2>5 DEF Spawn, Set, driver
    <3>2. \A s \in Sessions : worker'[s] = "running" => worker[s] = "running"
      BY <1>1, <3>1 DEF WorkerInv
    <3>3. QED
      BY <2>0, <3>1, <3>2, KeepsOn DEF Keeping
  <2>6. CASE Handshake(p)
    <3>1. /\ pc[p] = "starting" /\ worker' = [worker EXCEPT ![sess[p]] = "running"]
          /\ sess' = sess /\ dropped' = dropped
          /\ \/ op[p] = "start" /\ pc'[p] = "install" /\ location' = location
             \/ op[p] # "start" /\ location' = sess[p]
      BY <2>0, <2>6 DEF Handshake, Set, driver, local
    <3>2. \A s \in Sessions : s # sess[p] => worker'[s] = worker[s]
      BY <3>1 DEF WorkerInv
    <3>3. op[p] # "start" => location = NoSession
      BY <1>1, <3>1 DEF LockInv
    <3>4. op[p] = "start" => Keeping(p)'
      BY <3>1 DEF Keeping
    <3>5. QED
      BY <2>0, <3>1, <3>2, <3>3, <3>4, KeepsOn DEF Keeping
  <2>7. CASE NoHandshake(p)
    <3>1. /\ pc[p] \in {"starting", "spawn", "boot"} /\ UNCHANGED <<location, dropped>>
          /\ worker' = worker \/ worker' = [worker EXCEPT ![sess[p]] = "dead"]
      BY <2>7 DEF NoHandshake, Set
    <3>2. \A s \in Sessions : worker'[s] = "running" => worker[s] = "running"
      BY <3>1 DEF WorkerInv
    <3>3. QED
      BY <2>0, <3>1, <3>2, KeepsOn DEF Keeping
  <2>8. CASE Send(p)
    <3>1. /\ UNCHANGED <<worker, location, dropped, op, sess>>
          /\ \/ pc[p] = "send" /\ pc'[p] = "await"
             \/ pc[p] = "sendstop" /\ pc'[p] = "awaitstop"
      BY <2>0, <2>8 DEF Send, driver
    <3>2. Keeping(p) => Keeping(p)'
      BY <3>1 DEF Keeping
    <3>3. QED
      BY <2>0, <3>1, <3>2, KeepsOn
  <2>9. CASE SendFails(p)
    <3>1. UNCHANGED <<worker, location, dropped>> /\ worker[sess[p]] # "running"
      BY <2>9 DEF SendFails, driver, session
    <3>2. QED
      BY <2>0, <3>1, KeepsOn
  <2>10. CASE Answered(p)
    <3>1. /\ UNCHANGED <<worker, location, dropped, op, sess>> /\ pc[p] = "await"
          /\ op[p] = "clear" => pc'[p] \in {"failed", "sendstop"}
      BY <2>0, <2>10 DEF Answered, driver, session, local
    <3>2. Keeping(p) => Keeping(p)'
      BY <3>1 DEF Keeping
    <3>3. QED
      BY <2>0, <3>1, <3>2, KeepsOn
  <2>11. CASE AnsweredStop(p) \/ (Timeout(p) /\ pc[p] = "awaitstop")
    <3>1. /\ pc[p] = "awaitstop" /\ CloseStdin(sess[p])
          /\ reading' = reading /\ UNCHANGED <<location, dropped>>
      BY <2>11 DEF AnsweredStop, Timeout, driver
    <3>2. sess[p] \in Sessions /\ worker[sess[p]] \in Started
      BY <1>2, <3>1 DEF HasWorker
    <3>3. Ending /\ worker'[sess[p]] # "running"
      BY <3>1, <3>2, StdinClosed
    <3>4. QED
      BY <2>0, <3>1, <3>3, KeepsOn DEF Ending
  <2>12. CASE Timeout(p) /\ pc[p] # "awaitstop"
    <3>1. /\ UNCHANGED <<worker, location, dropped, op, sess>> /\ pc[p] = "await"
          /\ op[p] = "clear" => pc'[p] = "failed"
      BY <2>0, <2>12 DEF Timeout, driver, local
    <3>2. Keeping(p) => Keeping(p)'
      BY <3>1 DEF Keeping
    <3>3. QED
      BY <2>0, <3>1, <3>2, KeepsOn
  <2>13. CASE Invalidate(p)
    <3>1. /\ pc[p] = "failed" /\ op[p] = "set" /\ dropped' = dropped
          /\ \/ location = sess[p] /\ Kill(sess[p]) /\ location' = NoSession
             \/ location' = location /\ worker' = worker
      BY <2>13 DEF Invalidate, session
    <3>2. CASE location' = location /\ worker' = worker
      BY <2>0, <3>1, <3>2, KeepsOn DEF Keeping
    <3>3. CASE location = sess[p] /\ Kill(sess[p]) /\ location' = NoSession
      <4>1. location \in Sessions /\ worker[location] \in Started
        BY <1>2, <3>1, <3>3 DEF HasWorker
      <4>2. Ending /\ worker'[location] = "dead"
        BY <3>3, <4>1, Killed
      <4>3. QED
        BY <2>0, <3>1, <3>3, <4>2, KeepsOn DEF Keeping, Ending
    <3>4. QED
      BY <3>1, <3>2, <3>3
  <2>14. CASE ForceKill(p)
    <3>1. /\ Kill(sess[p]) /\ UNCHANGED <<location, dropped>> /\ pc[p] \in {"failed", "kill"}
      BY <2>14 DEF ForceKill, driver
    <3>2. sess[p] \in Sessions /\ worker[sess[p]] \in Started
      BY <1>2, <3>1 DEF HasWorker
    <3>3. Ending /\ worker'[sess[p]] = "dead"
      BY <3>1, <3>2, Killed
    <3>4. QED
      BY <2>0, <3>1, <3>3, KeepsOn DEF Ending
  <2>15. CASE Reap(p)
    <3>1. UNCHANGED <<location, dropped>> /\ pc[p] = "reap"
      BY <2>15 DEF Reap, driver
    <3>2. sess[p] \in Sessions /\ worker[sess[p]] \in Started
      BY <1>2, <3>1 DEF HasWorker
    <3>3. \A s \in Sessions : worker'[s] = "running" => worker[s] = "running"
      BY <2>15, <3>2, Killed DEF Reap, Ending, session
    <3>4. QED
      BY <2>0, <3>1, <3>3, KeepsOn DEF Keeping
  <2>16. CASE Returns(p)
    <3>1. UNCHANGED <<location, dropped, worker>> /\ pc[p] = "return"
      BY <2>16 DEF Returns, driver, session
    <3>2. QED
      BY <2>0, <3>1, KeepsOn DEF Keeping
  <2>17. QED
    BY <1>4, <2>1, <2>2, <2>3, <2>4, <2>5, <2>6, <2>7, <2>8, <2>9, <2>10, <2>11, <2>12, <2>13,
       <2>14, <2>15, <2>16 DEF Step
<1>5. CASE Manage
  <2>0. /\ \A step : Goto(manager, step) => \A q \in Procs \ {manager} : pc'[q] = pc[q]
    BY <1>1 DEF Goto, Set
  <2>1. CASE Install
    <3>1. /\ pc[manager] = "install" /\ location' = sess[manager]
          /\ UNCHANGED <<worker, dropped, op, sess>>
          /\ \A q \in Procs \ {manager} : pc'[q] = pc[q]
      BY <2>0, <2>1 DEF Install, session, local
    <3>2. op[manager] = "start"
      BY <1>1, <3>1, InHand
    <3>3. location = NoSession
      BY <3>1, <3>2 DEF BootInv
    <3>4. QED
      BY <1>1, <3>1, <3>3, KeepsOn
  <2>2. CASE Tunneld \/ Mark \/ Activate \/ Forget \/ Unmount
    <3>1. /\ pc[manager] \in {"tunneld", "mark", "activate", "forget", "unmount"}
          /\ UNCHANGED <<worker, location, dropped>>
      BY <2>2 DEF Tunneld, Mark, Activate, Forget, Unmount, driver, session
    <3>2. \A q \in Procs \ {manager} : pc'[q] = pc[q] /\ op'[q] = op[q] /\ sess'[q] = sess[q]
      BY <1>1, <2>0, <2>2 DEF Tunneld, Mark, Activate, Forget, Unmount, Return, Set, local
    <3>3. QED
      BY <1>1, <3>1, <3>2, KeepsOn DEF Keeping
  <2>3. QED
    BY <1>5, <2>1, <2>2 DEF Manage
<1>6. ASSUME NEW p \in Procs, NEW what, NEW step, Call(p, what, step)
      PROVE  KeptInv'
  <2>1. /\ pc[p] = "idle" /\ UNCHANGED <<worker, location, dropped, sess>>
        /\ \A q \in Procs \ {p} : pc'[q] = pc[q] /\ op'[q] = op[q]
    BY <1>1, <1>6 DEF Call, Goto, Set, driver, session
  <2>2. QED
    BY <2>1, KeepsOn DEF Keeping
<1>7. CASE StartTunnel \/ StopTunnel
  BY <1>1, <1>6, <1>7 DEF StartTunnel, StopTunnel
<1>8. ASSUME NEW p \in Injectors, SetLocation(p) \/ ClearLocation(p)
      PROVE  KeptInv'
  BY <1>1, <1>6, <1>8 DEF SetLocation, ClearLocation
\* Whoever else moves.
<1>9. ASSUME Ending, UNCHANGED <<pc, op, sess, location, dropped>>
      PROVE  KeptInv'
  <2>1. Keeping(manager)' <=> Keeping(manager)
    BY <1>9 DEF Keeping
  <2>2. QED
    BY <1>1, <1>9, <2>1, KeepsOn DEF Ending
<1>10. ASSUME NEW s \in Sessions, Answer(s) \/ Exit(s) \/ Dies(s) \/ Garbage(s)
       PROVE  KeptInv'
  BY <1>9, <1>10, WorkerEnds DEF Answer, Exit, Dies, Garbage, driver
<1>11. CASE EndpointMoves
  BY <1>9, <1>11, Unchanged DEF EndpointMoves, driver, session, local
<1>12. QED
  BY <1>4, <1>5, <1>7, <1>8, <1>10, <1>11 DEF Next

\* Every field keeps to its type, and the driver's lock is held by whoever starts
\* a worker for a kernel tunnel (location.go:72-118), and by nobody else.
THEOREM Pmd3Types == Spec => []TypeOK
BY CallsInvariant, CallsType, PTL

\* location.go:46 "closes the persistent DVT worker", userspace.go:51: a worker that
\* runs is the driver's, or in the hands of a call that has not returned, or a clear
\* that opened another one took it without looking (location.go:57).
THEOREM NoWorkerIsOrphaned == Spec => []NoOrphanWorkers
<1>1. Init => CallsInv /\ BootInv /\ KeptInv
  <2>1. ASSUME Init  PROVE BootInv
    BY <2>1, Pmd3Assumption DEF Init, BootInv, Procs
  <2>2. ASSUME Init  PROVE KeptInv
    BY <2>2 DEF Init, KeptInv
  <2>3. QED
    BY <2>1, <2>2, CallsInit
<1>2. CallsInv /\ BootInv /\ KeptInv /\ [Next]_vars => BootInv' /\ KeptInv'
  <2>1. SUFFICES ASSUME CallsInv, BootInv, KeptInv, [Next]_vars  PROVE BootInv' /\ KeptInv'
    OBVIOUS
  <2>2. CASE Next
    BY <2>1, <2>2, BootStep, KeptStep DEF CallsInv
  <2>3. CASE UNCHANGED vars
    BY <2>1, <2>3 DEF BootInv, KeptInv, Keeping, vars, tunnel, driver, session, local
  <2>4. QED
    BY <2>1, <2>2, <2>3
<1>3. CallsInv /\ KeptInv => NoOrphanWorkers
  <2>1. SUFFICES ASSUME CallsInv, KeptInv  PROVE NoOrphanWorkers
    OBVIOUS
  <2>2. \A p \in Procs : Keeping(p) => Calling(p)
    BY DEF Keeping, Calling
  <2>3. QED
    BY <2>1, <2>2 DEF KeptInv, NoOrphanWorkers
<1>4. QED
  BY <1>1, <1>2, <1>3, CallsStep, PTL DEF Spec

\* location_session.go:156-221: whatever callers gave up on, and whenever workers
\* die or garble, the answer a caller reads was made for its own latest request.
THEOREM AnswersAlwaysMatch == Spec => []AnswersMatch
<1>1. CallsInv => AnswersMatch
  BY DEF CallsInv, Inv
<1>2. QED
  BY <1>1, CallsInvariant, PTL
=============================================================================
