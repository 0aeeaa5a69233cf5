--------------------------- MODULE PairingProofs ---------------------------
(***************************************************************************)
(* TLAPS proofs about Pairing, for any requests, addresses, devices, burst *)
(* and clock.  What PairingAssumption says of the constants is a           *)
(* hypothesis of every theorem; the constants of the code (a burst of 5,   *)
(* entries kept 10 minutes) satisfy it.                                    *)
(***************************************************************************)
EXTENDS Pairing, FiniteSetTheorems, TLAPS

\* The types the arguments below use; the balance of an account is a whole
\* number (that it is never negative takes counting requests, at the end).
TypeInv ==
    /\ now \in 0 .. MaxTime
    /\ known \subseteq Peers
    /\ tokens \in [Peers -> 0 .. Burst] /\ seen \in [Peers -> 0 .. MaxTime]
    /\ paired \subseteq drawn
    /\ req \in [Callers -> Requests]
    /\ first \in [Peers -> 0 .. MaxTime] /\ spent \in [Peers -> Int]

-----------------------------------------------------------------------------
(* The throttle.                                                           *)

\* An address with an entry: what it has left and what it spent are covered
\* by the burst and the time up to its last attempt.  One without: what it
\* spent is covered by the time alone, so a new full bucket is.
Balanced(ip) ==
    /\ first[ip] =< now /\ seen[ip] =< now
    /\ IF ip \in known THEN tokens[ip] + spent[ip] =< Burst + (seen[ip] - first[ip])
                       ELSE spent[ip] =< now - first[ip]

Balance == TypeInv /\ \A ip \in Peers : Balanced(ip)

\* Pruning an entry leaves the address covered: it was idle long enough to
\* have earned a full bucket.
LEMMA PruningIsCovered ==
    ASSUME PairingAssumption, Balance, NEW ip \in known \ Kept
    PROVE  spent[ip] =< now - first[ip]
<1>1. ip \in Peers /\ Balanced(ip) /\ ~(now - seen[ip] =< EntryTTL)
  BY DEF Balance, TypeInv, Kept
<1>2. /\ now \in Nat /\ seen[ip] \in Nat /\ first[ip] \in Nat /\ spent[ip] \in Int
      /\ tokens[ip] \in Nat /\ Burst \in Nat /\ EntryTTL \in Nat /\ Burst =< EntryTTL
  BY <1>1 DEF Balance, TypeInv, PairingAssumption
<1>3. tokens[ip] + spent[ip] =< Burst + (seen[ip] - first[ip])
  BY <1>1 DEF Balanced
<1>4. QED
  BY <1>1, <1>2, <1>3

\* allow keeps the buckets in their range and never credits more than time.
LEMMA AllowCredits ==
    ASSUME PairingAssumption, Balance, NEW ip \in Peers
    PROVE  /\ Earned(ip) \in 0 .. Burst
           /\ Earned(ip) + spent[ip] =< Burst + (now - first[ip])
           /\ ip \notin known => Earned(ip) = Burst
<1>1. /\ now \in Nat /\ seen[ip] \in Nat /\ first[ip] \in Nat /\ spent[ip] \in Int
      /\ tokens[ip] \in 0 .. Burst /\ Burst \in Nat
      /\ seen[ip] =< now /\ first[ip] =< now
  BY DEF Balance, Balanced, TypeInv, PairingAssumption
<1>2. CASE ip \in Kept
  <2>1. tokens[ip] + spent[ip] =< Burst + (seen[ip] - first[ip]) /\ ip \in known
    BY <1>2 DEF Balance, Balanced, Kept
  <2>2. Earned(ip) = Least(tokens[ip] + (now - seen[ip]), Burst)
    BY <1>2 DEF Earned
  <2>3. QED
    BY <1>1, <2>1, <2>2 DEF Least
<1>3. CASE ip \in known \ Kept
  <2>1. spent[ip] =< now - first[ip]
    BY <1>3, PruningIsCovered
  <2>2. Earned(ip) = Burst
    BY <1>3 DEF Earned
  <2>3. QED
    BY <1>1, <1>3, <2>1, <2>2
<1>4. CASE ip \notin known
  <2>1. spent[ip] =< now - first[ip]
    BY <1>4 DEF Balance, Balanced
  <2>2. Earned(ip) = Burst
    BY <1>4 DEF Earned, Kept
  <2>3. QED
    BY <1>1, <2>1, <2>2
<1>5. QED
  BY <1>2, <1>3, <1>4

\* The requests an Attempt, and every other step of a request, can leave.
LEMMA IdleIsARequest == Idle \in Requests
BY DEF Idle, Requests, Steps, Tokens

LEMMA AttemptBalances ==
    ASSUME PairingAssumption, Balance, NEW c \in Callers, NEW ip \in Peers, NEW o \in Origins,
           Attempt(c, ip, o)
    PROVE  Balance'
<1>1. PICK lets \in BOOLEAN :
        /\ Allow(ip, lets)
        /\ IF lets
           THEN /\ req' = [req EXCEPT ![c] = [Idle EXCEPT !.step = "decode", !.peer = ip]]
                /\ spent' = [spent EXCEPT ![ip] = @ + 1]
                /\ first' = IF spent[ip] = 0 /\ ip \notin known
                            THEN [first EXCEPT ![ip] = now] ELSE first
           ELSE UNCHANGED <<req, accounts>>
  BY DEF Attempt
<1>2. UNCHANGED <<now, paired, drawn>>
  BY DEF Attempt, rows
<1>3. /\ now \in Nat /\ now \in 0 .. MaxTime /\ Burst \in Nat \ {0}
      /\ known \subseteq Peers /\ Kept \subseteq known
      /\ seen \in [Peers -> 0 .. MaxTime] /\ tokens \in [Peers -> 0 .. Burst]
      /\ first \in [Peers -> 0 .. MaxTime] /\ spent \in [Peers -> Int]
  BY DEF Balance, TypeInv, PairingAssumption, Kept
<1>4. Earned(ip) \in 0 .. Burst /\ Earned(ip) + spent[ip] =< Burst + (now - first[ip])
  BY AllowCredits
<1>5. /\ lets = (Earned(ip) >= 1)
      /\ known' = Kept \cup {ip}
      /\ tokens' = [Pruned(tokens) EXCEPT ![ip] = IF lets THEN Earned(ip) - 1 ELSE Earned(ip)]
      /\ seen' = [Pruned(seen) EXCEPT ![ip] = now]
  BY <1>1 DEF Allow
<1>6. /\ tokens' \in [Peers -> 0 .. Burst] /\ seen' \in [Peers -> 0 .. MaxTime]
      /\ tokens'[ip] = IF lets THEN Earned(ip) - 1 ELSE Earned(ip)
      /\ seen'[ip] = now
      /\ \A x \in Peers \ {ip} :
            /\ tokens'[x] = IF x \in Kept THEN tokens[x] ELSE 0
            /\ seen'[x] = IF x \in Kept THEN seen[x] ELSE 0
  <2> DEFINE left == IF lets THEN Earned(ip) - 1 ELSE Earned(ip)
  <2>1. left \in 0 .. Burst
    <3>1. lets => Earned(ip) >= 1
      BY <1>5
    <3>2. QED
      BY <1>3, <1>4, <3>1
  <2>2. /\ Pruned(tokens) \in [Peers -> 0 .. Burst] /\ Pruned(seen) \in [Peers -> 0 .. MaxTime]
        /\ \A x \in Peers : /\ Pruned(tokens)[x] = IF x \in Kept THEN tokens[x] ELSE 0
                            /\ Pruned(seen)[x] = IF x \in Kept THEN seen[x] ELSE 0
    <3>1. 0 \in 0 .. Burst /\ 0 \in 0 .. MaxTime
      BY <1>3 DEF PairingAssumption
    <3>2. \A x \in Peers : tokens[x] \in 0 .. Burst /\ seen[x] \in 0 .. MaxTime
      BY <1>3
    <3>3. /\ Pruned(tokens) = [x \in Peers |-> IF x \in Kept THEN tokens[x] ELSE 0]
          /\ Pruned(seen) = [x \in Peers |-> IF x \in Kept THEN seen[x] ELSE 0]
      BY DEF Pruned
    <3>4. QED
      BY <3>1, <3>2, <3>3
  <2>3. tokens' = [Pruned(tokens) EXCEPT ![ip] = left] /\ seen' = [Pruned(seen) EXCEPT ![ip] = now]
    BY <1>5
  <2> HIDE DEF left
  <2>4. tokens'[ip] = left /\ seen'[ip] = now
    BY <2>2, <2>3
  <2>5. tokens' \in [Peers -> 0 .. Burst] /\ seen' \in [Peers -> 0 .. MaxTime]
    BY <1>3, <2>1, <2>2, <2>3
  <2>6. QED
    BY <2>2, <2>3, <2>4, <2>5 DEF left
<1>7. [Idle EXCEPT !.step = "decode", !.peer = ip] \in Requests
  BY DEF Idle, Requests, Steps, Tokens
<1>8. req' \in [Callers -> Requests]
  BY <1>1, <1>7 DEF Balance, TypeInv, accounts
<1>9. /\ first' \in [Peers -> 0 .. MaxTime] /\ spent' \in [Peers -> Int]
      /\ \A x \in Peers \ {ip} : first'[x] = first[x] /\ spent'[x] = spent[x]
      /\ spent'[ip] = IF lets THEN spent[ip] + 1 ELSE spent[ip]
      /\ first'[ip] = IF lets /\ spent[ip] = 0 /\ ip \notin known THEN now ELSE first[ip]
  BY <1>1, <1>3 DEF accounts
<1>10. TypeInv'
  BY <1>2, <1>3, <1>5, <1>6, <1>8, <1>9 DEF Balance, TypeInv
<1>11. ASSUME NEW x \in Peers \ {ip}
       PROVE  Balanced(x)'
  <2>1. Balanced(x) /\ (x \in known' <=> x \in Kept)
    BY <1>5 DEF Balance
  <2>2. first'[x] = first[x] /\ spent'[x] = spent[x] /\ now' = now
    BY <1>2, <1>9
  <2>3. CASE x \in Kept
    BY <1>3, <1>6, <2>1, <2>2, <2>3 DEF Balanced
  <2>4. CASE x \in known \ Kept
    BY <1>3, <1>6, <2>1, <2>2, <2>4, PruningIsCovered DEF Balanced
  <2>5. CASE x \notin known
    BY <1>3, <1>6, <2>1, <2>2, <2>5 DEF Balanced
  <2>6. QED
    BY <2>3, <2>4, <2>5
<1>12. Balanced(ip)'
  <2>1. ip \in known' /\ now' = now /\ seen'[ip] = now /\ first[ip] =< now
    BY <1>2, <1>5, <1>6 DEF Balance, Balanced
  <2>2. first[ip] \in Nat /\ spent[ip] \in Int
    BY <1>3
  <2>3. QED
    BY <1>3, <1>4, <1>6, <1>9, <2>1, <2>2 DEF Balanced
<1>13. QED
  BY <1>10, <1>11, <1>12 DEF Balance

LEMMA RefundBalances ==
    ASSUME PairingAssumption, Balance, NEW c \in Callers, Refund(c), req[c].peer \in Peers
    PROVE  Balance'
<1> DEFINE ip == req[c].peer
<1>1. /\ UNCHANGED <<now, known, seen, paired, drawn, first>>
      /\ req' = [req EXCEPT ![c] = Idle]
      /\ tokens' = IF ip \in known THEN [tokens EXCEPT ![ip] = Least(@ + 1, Burst)] ELSE tokens
      /\ spent' = [spent EXCEPT ![ip] = @ - 1]
  BY DEF Refund, Ends, rows
<1>2. Burst \in Nat /\ now \in Nat
  BY DEF PairingAssumption, Balance, TypeInv
<1>3. req' \in [Callers -> Requests]
  BY <1>1, IdleIsARequest DEF Balance, TypeInv
<1>4. tokens' \in [Peers -> 0 .. Burst] /\ spent' \in [Peers -> Int]
  BY <1>1, <1>2 DEF Balance, TypeInv, Least
<1>5. TypeInv'
  BY <1>1, <1>3, <1>4 DEF Balance, TypeInv
<1>6. ASSUME NEW x \in Peers
      PROVE  Balanced(x)'
  <2>1. Balanced(x) /\ seen[x] \in Nat /\ first[x] \in Nat /\ spent[x] \in Int
        /\ tokens[x] \in 0 .. Burst
    BY DEF Balance, TypeInv
  <2>2. spent'[x] = IF x = ip THEN spent[x] - 1 ELSE spent[x]
    BY <1>1 DEF Balance, TypeInv
  <2>3. tokens'[x] = IF x = ip /\ x \in known THEN Least(tokens[x] + 1, Burst) ELSE tokens[x]
    BY <1>1 DEF Balance, TypeInv
  <2>4. QED
    BY <1>1, <1>2, <2>1, <2>2, <2>3 DEF Balanced, Least
<1>7. QED
  BY <1>5, <1>6 DEF Balance

-----------------------------------------------------------------------------
(* Who passes.                                                             *)

\* A request paying for its attempt knows its address; a device that was
\* revoked before the request has no row, then or later; a device found in the
\* table was not.
Entitled(c) ==
    /\ req[c].step \in {"decode", "verify", "pair", "refund"} => req[c].peer \in Peers
    /\ req[c].dead => req[c].token \in drawn \ paired
    /\ req[c].step \in {"touch", "device"} => req[c].token \in drawn /\ ~req[c].dead
    /\ At(c, "key") => keyMode /\ req[c].token = ApiKey
    /\ At(c, "loopback") => ~keyMode /\ req[c].peer \in Local

Entitlement == TypeInv /\ \A c \in Callers : Entitled(c)

\* A step that moves one request and leaves the rest of the state alone.
LEMMA OneRequestMoves ==
    ASSUME PairingAssumption, Balance, Entitlement, NEW c \in Callers, NEW r \in Requests,
           req' = [req EXCEPT ![c] = r], UNCHANGED <<now, keyMode, throttle, rows, accounts>>
    PROVE  /\ Balance'
           /\ \A x \in Callers \ {c} : Entitled(x)'
           /\ req'[c] = r
<1>1. TypeInv'
  BY DEF Balance, TypeInv, throttle, rows, accounts
<1>2. ASSUME NEW x \in Peers PROVE Balanced(x)'
  BY DEF Balance, Balanced, throttle, accounts
<1>3. ASSUME NEW x \in Callers \ {c} PROVE Entitled(x)'
  BY DEF Entitlement, Entitled, TypeInv, At, rows
<1>4. QED
  BY <1>1, <1>2, <1>3 DEF Balance, TypeInv

-----------------------------------------------------------------------------
(* The inductive invariant.                                                *)

Inv == Balance /\ Entitlement

LEMMA InitInv == PairingAssumption /\ Init => Inv
<1> SUFFICES ASSUME PairingAssumption, Init PROVE Inv
  OBVIOUS
<1>1. Burst \in Nat /\ MaxTime \in Nat
  BY DEF PairingAssumption
<1>2. 0 \in 0 .. Burst /\ 0 \in 0 .. MaxTime
  BY <1>1
<1>3. TypeInv
  BY <1>2, IdleIsARequest DEF Init, TypeInv
<1>4. ASSUME NEW ip \in Peers PROVE Balanced(ip)
  BY <1>1 DEF Init, Balanced
<1>5. ASSUME NEW c \in Callers PROVE Entitled(c)
  BY DEF Init, Entitled, At, Idle
<1>6. QED
  BY <1>3, <1>4, <1>5 DEF Inv, Balance, Entitlement

\* A request that goes on with another step, or ends.
LEMMA GoesOn ==
    ASSUME Inv, NEW c \in Callers, NEW s \in Steps
    PROVE  /\ [req[c] EXCEPT !.step = s] \in Requests
           /\ [req[c] EXCEPT !.step = s].step = s
           /\ [req[c] EXCEPT !.step = s].peer = req[c].peer
           /\ [req[c] EXCEPT !.step = s].token = req[c].token
           /\ [req[c] EXCEPT !.step = s].dead = req[c].dead
<1>1. req[c] \in Requests
  BY DEF Inv, Balance, TypeInv
<1>2. QED
  BY <1>1 DEF Requests

LEMMA StepInv == ASSUME PairingAssumption, Inv, [Next]_vars PROVE Inv'
<1>0. TypeInv /\ Balance /\ Entitlement /\ \A c \in Callers : Entitled(c)
  BY DEF Inv, Balance, Entitlement
<1>1. ASSUME NEW c \in Callers, NEW ip \in Peers, NEW o \in Origins, Attempt(c, ip, o)
      PROVE  Inv'
  <2>1. Balance'
    BY <1>1, <1>0, AttemptBalances
  <2>2. UNCHANGED <<keyMode, paired, drawn>>
        /\ (\/ req' = req
            \/ req' = [req EXCEPT ![c] = [Idle EXCEPT !.step = "decode", !.peer = ip]])
    BY <1>1 DEF Attempt, rows
  <2>3. ASSUME NEW x \in Callers PROVE Entitled(x)'
    <3>1. x # c => req'[x] = req[x]
      BY <1>0, <2>2 DEF TypeInv
    <3>2. \/ req'[c] = req[c]
          \/ req'[c].step = "decode" /\ req'[c].peer = ip /\ ~req'[c].dead
      BY <1>0, <2>2 DEF TypeInv, Idle
    <3>3. Entitled(x)
      BY <1>0
    <3>4. QED
      BY <2>2, <3>1, <3>2, <3>3 DEF Entitled, At
  <2>4. QED
    BY <2>1, <2>3 DEF Inv, Entitlement, Balance
<1>2. ASSUME NEW c \in Callers, Refund(c) PROVE Inv'
  <2>1. req[c].peer \in Peers
    BY <1>0, <1>2 DEF Refund, At, Entitled
  <2>2. Balance'
    BY <1>0, <1>2, <2>1, RefundBalances
  <2>3. UNCHANGED <<keyMode, paired, drawn>> /\ req' = [req EXCEPT ![c] = Idle]
    BY <1>2 DEF Refund, Ends, rows
  <2>4. ASSUME NEW x \in Callers PROVE Entitled(x)'
    BY <1>0, <2>3 DEF Entitled, TypeInv, Idle, At
  <2>5. QED
    BY <2>2, <2>4 DEF Inv, Entitlement, Balance
<1>3. ASSUME NEW c \in Callers,
             Ends(c), UNCHANGED <<now, keyMode, throttle, rows, accounts>>
      PROVE  Inv'
  <2>1. Balance' /\ (\A x \in Callers \ {c} : Entitled(x)') /\ req'[c] = Idle
    BY <1>0, <1>3, IdleIsARequest, OneRequestMoves DEF Ends
  <2>2. Entitled(c)'
    BY <2>1 DEF Entitled, Idle, At
  <2>3. QED
    BY <2>1, <2>2 DEF Inv, Entitlement, Balance
<1>4. ASSUME NEW c \in Callers, NEW s \in Steps,
             Goes(c, s), UNCHANGED <<now, keyMode, throttle, rows, accounts>>,
             s \in {"verify", "pair"} => req[c].peer \in Peers, s \notin {"decode", "refund"},
             s \in {"touch", "device"} => req[c].token \in drawn /\ ~req[c].dead,
             s = "key" => keyMode /\ req[c].token = ApiKey,
             s = "loopback" => ~keyMode /\ req[c].peer \in Local
      PROVE  Inv'
  <2> DEFINE r == [req[c] EXCEPT !.step = s]
  <2>1. /\ r \in Requests /\ r.step = s /\ r.peer = req[c].peer
        /\ r.token = req[c].token /\ r.dead = req[c].dead
    BY GoesOn
  <2>2. req' = [req EXCEPT ![c] = r]
    BY <1>4 DEF Goes
  <2> HIDE DEF r
  <2>3. Balance' /\ (\A x \in Callers \ {c} : Entitled(x)') /\ req'[c] = r
    BY <1>0, <1>4, <2>1, <2>2, OneRequestMoves
  <2>4. UNCHANGED <<keyMode, paired, drawn>>
    BY <1>4 DEF rows
  <2>5. Entitled(c)'
    BY <1>0, <1>4, <2>1, <2>3, <2>4 DEF Entitled, At
  <2>6. QED
    BY <2>3, <2>5 DEF Inv, Entitlement, Balance
<1>5. ASSUME NEW c \in Callers, Decode(c) PROVE Inv'
  BY <1>0, <1>3, <1>4, <1>5 DEF Decode, At, Steps, Entitled
<1>6. ASSUME NEW c \in Callers, NEW code \in -1 .. MaxTime, Verify(c, code) PROVE Inv'
  BY <1>0, <1>3, <1>4, <1>6 DEF Verify, At, Steps, Entitled
<1>7. ASSUME NEW c \in Callers, NEW d \in Devices, Pair(c, d) PROVE Inv'
  <2>1. /\ At(c, "pair") /\ d \notin drawn /\ UNCHANGED <<now, keyMode, throttle, accounts>>
        /\ paired' = paired \cup {d} /\ drawn' = drawn \cup {d}
        /\ req' = [req EXCEPT ![c] = [req[c] EXCEPT !.step = "refund"]]
    BY <1>7 DEF Pair, Goes
  <2>2. [req[c] EXCEPT !.step = "refund"] \in Requests
    BY GoesOn DEF Steps
  <2>3. TypeInv'
    BY <1>0, <2>1, <2>2 DEF TypeInv, throttle, accounts
  <2>4. ASSUME NEW x \in Peers PROVE Balanced(x)'
    BY <1>0, <2>1 DEF Balance, Balanced, throttle, accounts
  <2>5. ASSUME NEW x \in Callers PROVE Entitled(x)'
    <3>1. x # c => req'[x] = req[x]
      BY <1>0, <2>1 DEF TypeInv
    <3>2. /\ req'[c].step = "refund" /\ req'[c].peer = req[c].peer
          /\ req'[c].token = req[c].token /\ req'[c].dead = req[c].dead
      BY <1>0, <2>1, GoesOn DEF TypeInv, Steps
    <3>3. Entitled(x)
      BY <1>0
    <3>4. CASE x = c
      BY <2>1, <3>2, <3>3, <3>4 DEF Entitled, At
    <3>5. CASE x # c
      BY <2>1, <3>1, <3>3, <3>5 DEF Entitled, At
    <3>6. QED
      BY <3>4, <3>5
  <2>6. QED
    BY <2>3, <2>4, <2>5 DEF Inv, Balance, Entitlement
<1>8. ASSUME NEW c \in Callers, PairFails(c) PROVE Inv'
  BY <1>3, <1>8 DEF PairFails
<1>9. ASSUME NEW c \in Callers, NEW ip \in Peers, NEW o \in Origins, NEW t \in Tokens,
             Ask(c, ip, o, t)
      PROVE  Inv'
  <2> DEFINE r == [step |-> IF t = Nothing THEN "rules" ELSE "row", peer |-> ip, token |-> t,
                   dead |-> t \in drawn \ paired]
  <2>1. r \in Requests
    BY DEF Requests, Steps
  <2>2. req' = [req EXCEPT ![c] = r] /\ UNCHANGED <<now, keyMode, throttle, rows, accounts>>
    BY <1>9 DEF Ask
  <2>3. Balance' /\ (\A x \in Callers \ {c} : Entitled(x)') /\ req'[c] = r
    BY <1>0, <2>1, <2>2, OneRequestMoves
  <2>4. Entitled(c)'
    <3>1. req'[c].step \in {"rules", "row"} /\ req'[c].token = t
      BY <2>3
    <3>2. req'[c].dead = (t \in drawn \ paired)
      BY <2>3
    <3>3. req'[c].dead => t \in drawn \ paired
      BY <3>2
    <3>4. QED
      BY <2>2, <3>1, <3>3 DEF Entitled, At, rows
  <2>5. QED
    BY <2>3, <2>4 DEF Inv, Entitlement, Balance
<1>10. ASSUME NEW c \in Callers, ReadRow(c) PROVE Inv'
  <2>1. req[c].token \in paired => req[c].token \in drawn /\ ~req[c].dead
    BY <1>0 DEF TypeInv, Entitled
  <2>2. QED
    BY <1>4, <1>10, <2>1 DEF ReadRow, Steps
<1>11. ASSUME NEW c \in Callers, Touch(c) PROVE Inv'
  BY <1>0, <1>4, <1>11 DEF Touch, At, Steps, Entitled
<1>12. ASSUME NEW c \in Callers, Rules(c) PROVE Inv'
  BY <1>3, <1>4, <1>12 DEF Rules, Steps
<1>13. ASSUME NEW c \in Callers, Answer(c) PROVE Inv'
  BY <1>3, <1>13 DEF Answer
<1>14. ASSUME NEW ip \in Peers, NEW d \in Devices, Revoke(ip, d) PROVE Inv'
  <2>1. paired' = paired \ {d} /\ UNCHANGED <<now, keyMode, throttle, req, drawn, accounts>>
    BY <1>14 DEF Revoke
  <2>2. TypeInv'
    BY <1>0, <2>1 DEF TypeInv, throttle, accounts
  <2>3. ASSUME NEW x \in Peers PROVE Balanced(x)'
    BY <1>0, <2>1 DEF Balance, Balanced, throttle, accounts
  <2>4. ASSUME NEW x \in Callers PROVE Entitled(x)'
    BY <1>0, <2>1 DEF Entitled, At
  <2>5. QED
    BY <2>2, <2>3, <2>4 DEF Inv, Balance, Entitlement
<1>15. CASE Tick
  <2>1. now' = now + 1 /\ now < MaxTime /\ UNCHANGED <<keyMode, throttle, rows, req, accounts>>
    BY <1>15 DEF Tick
  <2>2. TypeInv'
    BY <1>0, <2>1 DEF TypeInv, throttle, rows, accounts, PairingAssumption
  <2>3. ASSUME NEW x \in Peers PROVE Balanced(x)'
    BY <1>0, <2>1 DEF TypeInv, Balance, Balanced, throttle, accounts
  <2>4. ASSUME NEW x \in Callers PROVE Entitled(x)'
    BY <1>0, <2>1 DEF Entitled, At, rows
  <2>5. QED
    BY <2>2, <2>3, <2>4 DEF Inv, Balance, Entitlement
<1>16. CASE UNCHANGED vars
  BY <1>0, <1>16 DEF Inv, Balance, Balanced, Entitlement, Entitled, TypeInv, At, vars, throttle,
                     rows, accounts
<1>17. QED
  BY <1>1, <1>2, <1>5, <1>6, <1>7, <1>8, <1>9, <1>10, <1>11, <1>12, <1>13, <1>14, <1>15, <1>16
     DEF Next

-----------------------------------------------------------------------------
(* What an address spent covers its requests that may still be refunded.   *)

\* The requests of ip that are past the throttle, and not answered yet.
Owing(ip) ==
    {c \in Callers : req[c].step \in {"decode", "verify", "pair", "refund"} /\ req[c].peer = ip}

Covered ==
    /\ keyMode \in BOOLEAN /\ drawn \subseteq Devices
    /\ \A ip \in Peers : Cardinality(Owing(ip)) =< spent[ip]

PairingInv == Inv /\ Covered

LEMMA OwingIsFinite ==
    ASSUME PairingAssumption, NEW ip
    PROVE  IsFiniteSet(Owing(ip)) /\ Cardinality(Owing(ip)) \in Nat
<1>1. IsFiniteSet(Callers) /\ Owing(ip) \subseteq Callers
  BY DEF PairingAssumption, Owing
<1>2. QED
  BY <1>1, FS_Subset, FS_CardinalityType

\* A step after which no address has another request to cover.
LEMMA NoneIsOwed ==
    ASSUME PairingAssumption, PairingInv, UNCHANGED spent,
           \A ip \in Peers : Owing(ip)' \subseteq Owing(ip)
    PROVE  \A ip \in Peers : Cardinality(Owing(ip))' =< spent'[ip]
<1> SUFFICES ASSUME NEW ip \in Peers  PROVE Cardinality(Owing(ip)') =< spent[ip]
  OBVIOUS
<1>1. IsFiniteSet(Owing(ip)) /\ Owing(ip)' \subseteq Owing(ip) /\ Cardinality(Owing(ip)) \in Nat
  BY OwingIsFinite
<1>2. Cardinality(Owing(ip)') =< Cardinality(Owing(ip)) /\ IsFiniteSet(Owing(ip)')
  BY <1>1, FS_Subset
<1>3. Cardinality(Owing(ip)') \in Nat
  BY <1>2, FS_CardinalityType
<1>4. spent[ip] \in Int /\ Cardinality(Owing(ip)) =< spent[ip]
  BY DEF PairingInv, Covered, Inv, Balance, TypeInv
<1>5. QED
  BY <1>1, <1>2, <1>3, <1>4

LEMMA AttemptIsCovered ==
    ASSUME PairingAssumption, PairingInv, NEW c \in Callers, NEW ip \in Peers, NEW o \in Origins,
           Attempt(c, ip, o)
    PROVE  \A x \in Peers : Cardinality(Owing(x))' =< spent'[x]
<1>1. PICK lets \in BOOLEAN :
        IF lets
        THEN /\ req' = [req EXCEPT ![c] = [Idle EXCEPT !.step = "decode", !.peer = ip]]
             /\ spent' = [spent EXCEPT ![ip] = @ + 1]
        ELSE UNCHANGED <<req, accounts>>
  BY DEF Attempt
<1>2. /\ req \in [Callers -> Requests] /\ spent \in [Peers -> Int] /\ req[c].step = "idle"
      /\ \A x \in Peers : Cardinality(Owing(x)) =< spent[x]
  BY DEF PairingInv, Covered, Inv, Balance, TypeInv, Attempt, At
<1>3. CASE ~lets
  <2>1. \A x \in Peers : Owing(x)' = Owing(x)
    BY <1>1, <1>3 DEF Owing, accounts
  <2>2. QED
    BY <1>1, <1>3, <2>1, NoneIsOwed DEF accounts
<1>4. CASE lets
  <2>1. /\ req'[c].step = "decode" /\ req'[c].peer = ip
        /\ \A x \in Callers \ {c} : req'[x] = req[x]
        /\ \A x \in Peers : spent'[x] = IF x = ip THEN spent[x] + 1 ELSE spent[x]
    BY <1>1, <1>2, <1>4 DEF Idle
  <2>2. Owing(ip)' = Owing(ip) \cup {c} /\ c \notin Owing(ip)
    BY <1>2, <2>1 DEF Owing
  <2>3. \A x \in Peers \ {ip} : Owing(x)' = Owing(x)
    BY <1>2, <2>1 DEF Owing
  <2>4. Cardinality(Owing(ip)') = Cardinality(Owing(ip)) + 1
    BY <2>2, OwingIsFinite, FS_AddElement
  <2>5. Cardinality(Owing(ip)) \in Nat /\ spent[ip] \in Int
    BY <1>2, OwingIsFinite
  <2>6. Cardinality(Owing(ip)') =< spent'[ip]
    BY <1>2, <2>1, <2>4, <2>5
  <2>7. \A x \in Peers \ {ip} : Cardinality(Owing(x)') =< spent'[x]
    BY <1>2, <2>1, <2>3
  <2>8. QED
    BY <2>6, <2>7
<1>5. QED
  BY <1>3, <1>4

LEMMA RefundIsCovered ==
    ASSUME PairingAssumption, PairingInv, NEW c \in Callers, Refund(c)
    PROVE  \A x \in Peers : Cardinality(Owing(x))' =< spent'[x]
<1>0. PICK ip \in Peers : ip = req[c].peer
  BY DEF Refund, At, PairingInv, Inv, Entitlement, Entitled
<1>1. /\ req' = [req EXCEPT ![c] = Idle] /\ spent' = [spent EXCEPT ![ip] = @ - 1]
      /\ req[c].step = "refund" /\ req[c].peer = ip
  BY <1>0 DEF Refund, Ends, At
<1>2. /\ req \in [Callers -> Requests] /\ spent \in [Peers -> Int]
      /\ \A x \in Peers : Cardinality(Owing(x)) =< spent[x]
  BY DEF PairingInv, Covered, Inv, Balance, TypeInv
<1>3. /\ req'[c].step = "idle" /\ \A x \in Callers \ {c} : req'[x] = req[x]
      /\ \A x \in Peers : spent'[x] = IF x = ip THEN spent[x] - 1 ELSE spent[x]
  BY <1>1, <1>2 DEF Idle
<1>4. Owing(ip)' = Owing(ip) \ {c} /\ c \in Owing(ip)
  BY <1>1, <1>2, <1>3 DEF Owing
<1>5. \A x \in Peers \ {ip} : Owing(x)' = Owing(x)
  BY <1>1, <1>2, <1>3 DEF Owing
<1>6. Cardinality(Owing(ip)') = Cardinality(Owing(ip)) - 1
  BY <1>4, OwingIsFinite, FS_RemoveElement
<1>7. Cardinality(Owing(ip)) \in Nat /\ spent[ip] \in Int
  BY <1>2, OwingIsFinite
<1>8. Cardinality(Owing(ip)') =< spent'[ip]
  BY <1>2, <1>3, <1>6, <1>7
<1>9. \A x \in Peers \ {ip} : Cardinality(Owing(x)') =< spent'[x]
  BY <1>2, <1>3, <1>5
<1>10. QED
  BY <1>8, <1>9

LEMMA PairingInit == PairingAssumption /\ Init => PairingInv
<1> SUFFICES ASSUME PairingAssumption, Init  PROVE PairingInv
  OBVIOUS
<1>1. \A ip \in Peers : Owing(ip) = {} /\ spent[ip] = 0
  BY DEF Init, Owing, Idle
<1>2. \A ip \in Peers : Cardinality(Owing(ip)) =< spent[ip]
  BY <1>1, FS_EmptySet
<1>3. QED
  BY <1>2, InitInv DEF PairingInv, Covered, Init

LEMMA PairingStep == ASSUME PairingAssumption, PairingInv, [Next]_vars  PROVE PairingInv'
<1>0. Inv /\ Inv' /\ req \in [Callers -> Requests]
  BY StepInv DEF PairingInv, Inv, Balance, TypeInv
<1>1. keyMode' \in BOOLEAN /\ drawn' \subseteq Devices
  BY DEF PairingInv, Covered, Next, Attempt, Decode, Verify, Pair, PairFails, Refund, Ask, ReadRow,
      Touch, Rules, Answer, Revoke, Tick, vars, rows
<1>2. ASSUME NEW c \in Callers, NEW r, req' = [req EXCEPT ![c] = r], UNCHANGED spent,
             r.step \in {"decode", "verify", "pair", "refund"} =>
                /\ req[c].step \in {"decode", "verify", "pair", "refund"}
                /\ r.peer = req[c].peer
      PROVE  \A ip \in Peers : Cardinality(Owing(ip))' =< spent'[ip]
  <2>1. \A x \in Callers : req'[x] = IF x = c THEN r ELSE req[x]
    BY <1>0, <1>2
  <2>2. \A ip \in Peers : Owing(ip)' \subseteq Owing(ip)
    BY <1>2, <2>1 DEF Owing
  <2>3. QED
    BY <1>2, <2>2, NoneIsOwed
<1>3. ASSUME NEW c \in Callers, Ends(c), UNCHANGED spent
      PROVE  \A ip \in Peers : Cardinality(Owing(ip))' =< spent'[ip]
  BY <1>2, <1>3 DEF Ends, Idle
<1>4. ASSUME NEW c \in Callers, NEW s \in Steps, Goes(c, s), UNCHANGED spent,
             s \in {"decode", "verify", "pair", "refund"} =>
                req[c].step \in {"decode", "verify", "pair", "refund"}
      PROVE  \A ip \in Peers : Cardinality(Owing(ip))' =< spent'[ip]
  <2> DEFINE r == [req[c] EXCEPT !.step = s]
  <2>1. r.step = s /\ r.peer = req[c].peer /\ req' = [req EXCEPT ![c] = r]
    BY <1>0, <1>4, GoesOn DEF Goes
  <2> HIDE DEF r
  <2>2. QED
    BY <1>2, <1>4, <2>1
<1>5. ASSUME NEW c \in Callers,
             Decode(c) \/ (\E code \in -1 .. MaxTime : Verify(c, code)) \/ PairFails(c)
               \/ (\E d \in Devices : Pair(c, d)) \/ ReadRow(c) \/ Touch(c) \/ Rules(c) \/ Answer(c)
      PROVE  \A ip \in Peers : Cardinality(Owing(ip))' =< spent'[ip]
  BY <1>3, <1>4, <1>5 DEF Decode, Verify, PairFails, Pair, ReadRow, Touch, Rules, Answer, At, Steps,
      accounts
<1>6. ASSUME NEW c \in Callers, NEW ip \in Peers, NEW o \in Origins, NEW t \in Tokens,
             Ask(c, ip, o, t)
      PROVE  \A x \in Peers : Cardinality(Owing(x))' =< spent'[x]
  <2>1. UNCHANGED spent
    BY <1>6 DEF Ask, accounts
  <2>2. PICK r : req' = [req EXCEPT ![c] = r] /\ r.step \in {"rules", "row"}
    <3> DEFINE r == [step |-> IF t = Nothing THEN "rules" ELSE "row", peer |-> ip, token |-> t,
                     dead |-> t \in drawn \ paired]
    <3>1. req' = [req EXCEPT ![c] = r] /\ r.step \in {"rules", "row"}
      BY <1>6 DEF Ask
    <3> HIDE DEF r
    <3>2. QED
      BY <3>1
  <2>3. QED
    BY <1>2, <2>1, <2>2
<1>7. ASSUME UNCHANGED <<req, spent>>
      PROVE  \A ip \in Peers : Cardinality(Owing(ip))' =< spent'[ip]
  <2>1. \A ip \in Peers : Owing(ip)' = Owing(ip)
    BY <1>7 DEF Owing
  <2>2. QED
    BY <1>7, <2>1, NoneIsOwed
<1>8. \A ip \in Peers : Cardinality(Owing(ip))' =< spent'[ip]
  <2>1. CASE \E ip \in Peers, d \in Devices : Revoke(ip, d)
    BY <1>7, <2>1 DEF Revoke, accounts
  <2>2. CASE Tick \/ UNCHANGED vars
    BY <1>7, <2>2 DEF Tick, vars, accounts
  <2>3. CASE \E c \in Callers, ip \in Peers, o \in Origins : Attempt(c, ip, o)
    BY <2>3, AttemptIsCovered
  <2>4. CASE \E c \in Callers : Refund(c)
    BY <2>4, RefundIsCovered
  <2>5. QED
    BY <1>5, <1>6, <2>1, <2>2, <2>3, <2>4 DEF Next
<1>9. QED
  BY <1>0, <1>1, <1>8 DEF PairingInv, Covered

\* So no account is negative, and everything else has its type.
LEMMA PairingTypeOK == ASSUME PairingAssumption, PairingInv  PROVE TypeOK
<1>1. \A ip \in Peers : spent[ip] \in Nat
  <2>1. SUFFICES ASSUME NEW ip \in Peers  PROVE spent[ip] \in Nat
    OBVIOUS
  <2>2. Cardinality(Owing(ip)) \in Nat /\ Cardinality(Owing(ip)) =< spent[ip] /\ spent[ip] \in Int
    BY OwingIsFinite DEF PairingInv, Covered, Inv, Balance, TypeInv
  <2>3. QED
    BY <2>2
<1>2. QED
  BY <1>1 DEF PairingInv, Covered, Inv, Balance, TypeInv, TypeOK

LEMMA SpecInv == ASSUME PairingAssumption PROVE Spec => []Inv
<1>1. Init => Inv
  BY InitInv
<1>2. Inv /\ [Next]_vars => Inv'
  BY StepInv
<1>3. QED
  BY <1>1, <1>2, PTL DEF Spec

-----------------------------------------------------------------------------
(* The theorems.                                                           *)

\* pair.go: a refund gives back an attempt that was spent, to the address that
\* spent it: what an address spent covers its requests that may still be
\* refunded, so no account is ever negative.
THEOREM RefundsAreCovered == ASSUME PairingAssumption PROVE Spec => []Covered
<1>1. Init => PairingInv
  BY PairingInit
<1>2. PairingInv /\ [Next]_vars => PairingInv'
  BY PairingStep
<1>3. PairingInv => Covered
  BY DEF PairingInv
<1>4. QED
  BY <1>1, <1>2, <1>3, PTL DEF Spec

\* pair_throttle.go: whatever pruning, refusals and late refunds do in between,
\* the attempts of an address that did not end in a pairing never exceed the
\* burst plus one per interval elapsed since its first.
THEOREM ThrottleAlwaysHolds == ASSUME PairingAssumption PROVE Spec => []ThrottleHolds
<1>1. Inv => ThrottleHolds
  <2> SUFFICES ASSUME Inv, NEW ip \in Peers
               PROVE  spent[ip] =< Burst + (now - first[ip])
    BY DEF ThrottleHolds
  <2>1. /\ Balanced(ip) /\ now \in Nat /\ seen[ip] \in Nat /\ first[ip] \in Nat
        /\ spent[ip] \in Int /\ tokens[ip] \in Nat /\ Burst \in Nat
    BY DEF Inv, Balance, TypeInv, PairingAssumption
  <2>2. QED
    BY <2>1 DEF Balanced
<1>2. QED
  BY <1>1, SpecInv, PTL

\* auth.go: what checkAuth lets through as a device was paired, and not revoked
\* before the request began; the key and the loopback each count in their mode
\* only.
THEOREM OnlyTheEntitledEverPass == ASSUME PairingAssumption PROVE Spec => []OnlyTheEntitledPass
<1>1. Inv => OnlyTheEntitledPass
  BY DEF Inv, Entitlement, Entitled, OnlyTheEntitledPass, At
<1>2. QED
  BY <1>1, SpecInv, PTL
=============================================================================
