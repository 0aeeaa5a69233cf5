------------------------------ MODULE Pairing ------------------------------
(***************************************************************************)
(* Remote access: pairing a client with the rotating code (server/pair.go, *)
(* auth/totp.go), the per-address throttle (pair_throttle.go), the paired  *)
(* devices (auth/store.go) and the check every other request passes        *)
(* (server/auth.go, origin.go).                                            *)
(*                                                                         *)
(* A request is a process: the throttle is one mutex, the database another *)
(* one per statement, and everything else interleaves.  Time is counted in *)
(* refill intervals (pairRefillInterval, 10 s); a code is the number of    *)
(* the TOTP step it belongs to; a device's token is the device, for the    *)
(* secret that goes with it is drawn once and only its hash is compared.   *)
(* A credential store is attached, as cmd/headless does.  A restart, which *)
(* empties the buckets and keeps the rows, begins a new behaviour.         *)
(***************************************************************************)
EXTENDS Integers, FiniteSets

CONSTANTS
    Callers,    \* requests in flight
    Peers,      \* client addresses
    Local,      \* the loopback ones among them
    Devices,    \* the ids uuid.NewString may draw
    Burst,      \* pairBurst
    EntryTTL,   \* pairEntryTTL, in refill intervals
    StepLen,    \* totpStep, in refill intervals
    MaxTime     \* bound: the clock

PairingAssumption ==
    /\ Local \subseteq Peers
    /\ Burst \in Nat \ {0} /\ EntryTTL \in Nat /\ StepLen \in Nat \ {0}
    /\ Burst =< EntryTTL
    /\ MaxTime \in Nat /\ IsFiniteSet(Callers)

ApiKey == "api key"
Nothing == "nothing"
Tokens == Devices \cup {ApiKey, Nothing}
\* What an Origin header may name: nothing, "null", a webview's own scheme,
\* this server, a page of this machine, an origin the operator listed, or
\* anything else.
Origins == {"none", "null", "native", "own", "loopback", "listed", "foreign"}

VARIABLES
    now,      \* the clock
    keyMode,  \* GPSMOCK_API_KEY is set
    known,    \* the addresses pairThrottle.buckets has an entry for
    tokens,   \* per address: pairBucket.tokens
    seen,     \* per address: pairBucket.lastSeen
    paired,   \* the rows of paired_devices
    req,      \* per caller: what its handler does next, for which address,
              \* with which credential and (history) whether that device was
              \* revoked before the request
    drawn,    \* history: devices ever paired
    first,    \* history, per address: when its first attempt was let through
    spent     \* history, per address: attempts let through and not refunded

throttle == <<known, tokens, seen>>
accounts == <<first, spent>>
rows == <<paired, drawn>>
vars == <<now, keyMode, throttle, rows, req, accounts>>

\* The last three: checkAuth let the request through, as a device, with the
\* key or from the loopback.
Steps == {"idle", "decode", "verify", "pair", "refund", "row", "touch", "rules",
          "device", "key", "loopback"}
Requests == [step : Steps, peer : Peers \cup {Nothing}, token : Tokens, dead : BOOLEAN]
Idle == [step |-> "idle", peer |-> Nothing, token |-> Nothing, dead |-> FALSE]

TypeOK ==
    /\ now \in 0 .. MaxTime /\ keyMode \in BOOLEAN
    /\ known \subseteq Peers
    /\ tokens \in [Peers -> 0 .. Burst] /\ seen \in [Peers -> 0 .. MaxTime]
    /\ paired \subseteq drawn /\ drawn \subseteq Devices
    /\ req \in [Callers -> Requests]
    /\ first \in [Peers -> 0 .. MaxTime] /\ spent \in [Peers -> Nat]

---------------------------------------------------------------------------
\* The smaller of two numbers.
Least(a, b) == IF a < b THEN a ELSE b

At(c, s) == req[c].step = s
\* The handler goes on with step s, or answers when there is none.
Goes(c, s) == req' = [req EXCEPT ![c].step = s]
Ends(c) == req' = [req EXCEPT ![c] = Idle]

\* pruneLocked: entries nobody touched for pairEntryTTL go, with what they held.
Kept == {ip \in known : now - seen[ip] =< EntryTTL}
Pruned(f) == [ip \in Peers |-> IF ip \in Kept THEN f[ip] ELSE 0]

\* allow's bucket after pruning: a new one is full, an old one has earned one
\* attempt per interval, up to the burst.
Earned(ip) == IF ip \in Kept THEN Least(tokens[ip] + (now - seen[ip]), Burst) ELSE Burst

\* allow: prune, credit and stamp the bucket, then spend one attempt or refuse.
MutAllow(ip, lets) ==
    /\ lets = (Earned(ip) >= 1)
    /\ known' = Kept \cup {ip}
    /\ tokens' = [Pruned(tokens) EXCEPT ![ip] = IF lets THEN Earned(ip) - 1 ELSE Earned(ip)]
    /\ seen' = IF ip \in Kept THEN Pruned(seen) ELSE [Pruned(seen) EXCEPT ![ip] = now]
Allow(ip, lets) ==
    /\ lets = (Earned(ip) >= 1)
    /\ known' = Kept \cup {ip}
    /\ tokens' = [Pruned(tokens) EXCEPT ![ip] = IF lets THEN Earned(ip) - 1 ELSE Earned(ip)]
    /\ seen' = [Pruned(seen) EXCEPT ![ip] = now]

CheckOrigin(origin) == origin \notin {"null", "foreign"}

\* handlePair up to the throttle: a foreign origin is refused before it, an
\* address without an attempt left by it (429).
Attempt(c, ip, origin) ==
    /\ At(c, "idle") /\ CheckOrigin(origin)
    /\ \E lets \in BOOLEAN :
        /\ Allow(ip, lets)
        /\ IF lets
           THEN /\ req' = [req EXCEPT ![c] = [Idle EXCEPT !.step = "decode", !.peer = ip]]
                /\ spent' = [spent EXCEPT ![ip] = @ + 1]
                /\ first' = IF spent[ip] = 0 /\ ip \notin known
                            THEN [first EXCEPT ![ip] = now] ELSE first
           ELSE UNCHANGED <<req, accounts>>
    /\ UNCHANGED <<now, keyMode, rows>>

\* The body may be unreadable or too long: the attempt stays spent (400).
Decode(c) ==
    /\ At(c, "decode")
    /\ Goes(c, "verify") \/ Ends(c)
    /\ UNCHANGED <<now, keyMode, throttle, rows, accounts>>

\* VerifyCode: the code of this TOTP step, the one before or the one after is
\* right.  A wrong code, or a seed that cannot be read, leaves the attempt
\* spent (401).
Verify(c, code) ==
    /\ At(c, "verify")
    /\ \/ code \in (now \div StepLen) - 1 .. (now \div StepLen) + 1 /\ Goes(c, "pair")
       \/ Ends(c)
    /\ UNCHANGED <<now, keyMode, throttle, rows, accounts>>

\* Pair: insert a device never drawn before.
Pair(c, d) ==
    /\ At(c, "pair") /\ d \notin drawn
    /\ paired' = paired \cup {d} /\ drawn' = drawn \cup {d}
    /\ Goes(c, "refund")
    /\ UNCHANGED <<now, keyMode, throttle, accounts>>

\* The insert fails: the attempt stays spent (500).
PairFails(c) ==
    /\ At(c, "pair") /\ Ends(c)
    /\ UNCHANGED <<now, keyMode, throttle, rows, accounts>>

\* refund: one attempt back, if the address still has an entry.
Refund(c) ==
    /\ At(c, "refund") /\ Ends(c)
    /\ LET ip == req[c].peer
       IN /\ tokens' = IF ip \in known
                       THEN [tokens EXCEPT ![ip] = Least(@ + 1, Burst)] ELSE tokens
          /\ spent' = [spent EXCEPT ![ip] = @ - 1]
    /\ UNCHANGED <<now, keyMode, known, seen, rows, first>>

---------------------------------------------------------------------------
\* checkAuth: a foreign origin is refused at once, whatever it presents.
Ask(c, ip, origin, t) ==
    /\ At(c, "idle") /\ CheckOrigin(origin)
    /\ t \in drawn \cup {ApiKey, Nothing}
    /\ req' = [req EXCEPT ![c] = [step |-> IF t = Nothing THEN "rules" ELSE "row",
                                 peer |-> ip, token |-> t,
                                 dead |-> t \in drawn \ paired]]
    /\ UNCHANGED <<now, keyMode, throttle, rows, accounts>>

\* VerifyToken's SELECT and comparison; the key is no device's token.
ReadRow(c) ==
    /\ At(c, "row") /\ Goes(c, IF req[c].token \in paired THEN "touch" ELSE "rules")
    /\ UNCHANGED <<now, keyMode, throttle, rows, accounts>>

\* VerifyToken's UPDATE of last_seen: it touches the row if it is still there.
MutTouch(c) ==
    /\ At(c, "touch") /\ Goes(c, "device")
    /\ paired' = paired \cup {req[c].token} /\ UNCHANGED drawn
    /\ UNCHANGED <<now, keyMode, throttle, accounts>>
Touch(c) ==
    /\ At(c, "touch") /\ Goes(c, "device")
    /\ UNCHANGED <<now, keyMode, throttle, rows, accounts>>

\* checkAuth's two modes: the key when one is set, the loopback otherwise.
MutRules(c) ==
    /\ At(c, "rules")
    /\ \/ keyMode /\ req[c].token = ApiKey /\ Goes(c, "key")
       \/ req[c].peer \in Local /\ Goes(c, "loopback")
       \/ ~(keyMode /\ req[c].token = ApiKey) /\ req[c].peer \notin Local /\ Ends(c)
    /\ UNCHANGED <<now, keyMode, throttle, rows, accounts>>
Rules(c) ==
    /\ At(c, "rules")
    /\ IF keyMode
       THEN IF req[c].token = ApiKey THEN Goes(c, "key") ELSE Ends(c)
       ELSE IF req[c].peer \in Local THEN Goes(c, "loopback") ELSE Ends(c)
    /\ UNCHANGED <<now, keyMode, throttle, rows, accounts>>

\* The handler behind checkAuth answers.
Answer(c) ==
    /\ req[c].step \in {"device", "key", "loopback"} /\ Ends(c)
    /\ UNCHANGED <<now, keyMode, throttle, rows, accounts>>

\* handleRevokeDevice and REVOKE_PAIRED_DEVICE, from the loopback only: the row
\* goes; an unknown device is a 404, or the list again.
Revoke(ip, d) ==
    /\ ip \in Local /\ d \in paired
    /\ paired' = paired \ {d}
    /\ UNCHANGED <<now, keyMode, throttle, req, drawn, accounts>>

Tick ==
    /\ now < MaxTime /\ now' = now + 1
    /\ UNCHANGED <<keyMode, throttle, rows, req, accounts>>

Init ==
    /\ now = 0 /\ keyMode \in BOOLEAN
    /\ known = {}
    /\ tokens = [ip \in Peers |-> 0] /\ seen = [ip \in Peers |-> 0]
    /\ paired = {} /\ drawn = {}
    /\ req = [c \in Callers |-> Idle]
    /\ first = [ip \in Peers |-> 0] /\ spent = [ip \in Peers |-> 0]

Next ==
    \/ \E c \in Callers :
        \/ \E ip \in Peers, o \in Origins : Attempt(c, ip, o)
        \/ Decode(c)
        \/ \E code \in -1 .. MaxTime : Verify(c, code)
        \/ \E d \in Devices : Pair(c, d)
        \/ PairFails(c)
        \/ Refund(c)
        \/ \E ip \in Peers, o \in Origins, t \in Tokens : Ask(c, ip, o, t)
        \/ ReadRow(c)
        \/ Touch(c)
        \/ Rules(c)
        \/ Answer(c)
    \/ \E ip \in Peers, d \in Devices : Revoke(ip, d)
    \/ Tick

Spec == Init /\ [][Next]_vars

---------------------------------------------------------------------------
(***************************************************************************)
(* pair_throttle.go:8-16: an address gets a small burst of attempts, then  *)
(* one per interval.  Over the life of a process the attempts that did not *)
(* end in a pairing never exceed the burst plus one per elapsed interval,  *)
(* whatever pruning, refusals and late refunds do in between.              *)
(***************************************************************************)
ThrottleHolds ==
    \A ip \in Peers : spent[ip] =< Burst + (now - first[ip])

(***************************************************************************)
(* auth.go:11-27 and store.go:206: what checkAuth lets through.  A device  *)
(* only if it was still paired when the request began, also when a         *)
(* revocation crosses another request's refresh of last_seen; nobody by    *)
(* the loopback while a key is set.                                        *)
(***************************************************************************)
OnlyTheEntitledPass ==
    \A c \in Callers :
        /\ At(c, "device") => req[c].token \in drawn /\ ~req[c].dead
        /\ At(c, "key") => keyMode /\ req[c].token = ApiKey
        /\ At(c, "loopback") => ~keyMode /\ req[c].peer \in Local

=============================================================================
