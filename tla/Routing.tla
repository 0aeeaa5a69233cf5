------------------------------ MODULE Routing -------------------------------
(***************************************************************************)
(* The routing providers (engine/internal/routing): how a configuration is *)
(* normalised, which provider is announced as active, in which order a     *)
(* route tries them while the configuration may change, and what becomes   *)
(* of the geometry a provider answers with.                                *)
(*                                                                         *)
(* Coordinates are whole numbers of 1e-5 degrees.  A polyline is the       *)
(* sequence of its characters, each less 63.                               *)
(***************************************************************************)
EXTENDS Integers, Sequences, SequencesExt

CONSTANTS
    Raw,       \* provider names a client may send
    MaxRaw,    \* bound: names in the priority list a client sends
    Paths,     \* what a provider may answer with: sequences of [lat, lon]
    MaxUpdates \* bound: changes of configuration

RoutingAssumption ==
    MaxRaw \in Nat /\ MaxUpdates \in Nat /\ Paths \subseteq Seq([lat : Int, lon : Int])

VARIABLES
    cfg,     \* the registry: mode, provider, priority, keys (those configured)
    updates, \* bound: changes so far
    req,     \* the route in progress: "none", "trying", "found" or "failed"
    taken,   \* the configuration it works with
    left,    \* the providers it has not come to
    tried,   \* those it asked
    path,    \* history: the path the provider answered with
    points   \* the points it got

registry == <<cfg, updates>>
vars == <<registry, req, taken, left, tried, path, points>>

DefaultPriority == <<"google", "mapbox", "osrm">>
Providers == ToSet(DefaultPriority)
Modes == {"auto", "manual"}

-----------------------------------------------------------------------------
(* Normalisation and order.                                                *)

\* An unknown provider is osrm, which needs no key.
NormalizeProviderID(id) == IF id \in Providers THEN id ELSE "osrm"

\* The providers in the order in which s, which names each of them, first does.
First(s, id) == Min({i \in DOMAIN s : s[i] = id})
Distinct(s) ==
    CHOOSE order \in [DOMAIN DefaultPriority -> Providers] :
        \A i, j \in DOMAIN order : i < j => First(s, order[i]) < First(s, order[j])

NormalizePriority(names) ==
    Distinct([i \in 1 .. Len(names) |-> NormalizeProviderID(names[i])] \o DefaultPriority)

NormalizeConfig(mode, provider, names, keys) ==
    [mode |-> IF mode = "manual" THEN "manual" ELSE "auto",
     provider |-> NormalizeProviderID(provider),
     priority |-> NormalizePriority(names), keys |-> keys]

ProviderOrder(c) ==
    Distinct((IF c.mode = "manual" THEN <<c.provider>> ELSE <<>>) \o NormalizePriority(c.priority))

Available(c) == {"osrm"} \union c.keys

\* buildInfo: the provider clients are told a route would use.
ActiveProvider(c) ==
    IF c.mode = "manual" /\ c.provider \in Available(c) THEN c.provider
    ELSE LET order == NormalizePriority(c.priority)
             available == {i \in DOMAIN order : order[i] \in Available(c)}
         IN  IF available = {} THEN "osrm" ELSE order[Min(available)]

Configs ==
    {NormalizeConfig(mode, provider, names, keys) :
        mode \in Modes, provider \in Raw, names \in SeqOf(Raw, MaxRaw),
        keys \in SUBSET {"google", "mapbox"}}

\* Whatever names a client sent: the order names every provider once, and the
\* one announced is the first in it that is available.
OrderIsRight(c) ==
    LET order == ProviderOrder(c) IN
    /\ order \in Seq(Providers) /\ IsInjective(order) /\ ToSet(order) = Providers
    /\ \E i \in DOMAIN order :
         /\ order[i] = ActiveProvider(c) /\ order[i] \in Available(c)
         /\ \A j \in 1 .. (i - 1) : order[j] \notin Available(c)

\* What every configuration in use looks like.
Normalized ==
    [mode : Modes, provider : Providers, keys : SUBSET {"google", "mapbox"},
     priority : {s \in SeqOf(Providers, 3) : ToSet(s) = Providers}]

-----------------------------------------------------------------------------
(* Geometry.                                                               *)

\* decodePolylineValue: the lowest bit is the sign.  (The bug: the negative
\* differences are one off.)
MutUnzigzag(bits) == IF bits % 2 = 1 THEN -(bits \div 2) ELSE bits \div 2
Unzigzag(bits) == IF bits % 2 = 1 THEN -(bits \div 2) - 1 ELSE bits \div 2

\* One character: five bits of a value, least first; below 32 it is the last of
\* its value.  The values are differences, of latitude and longitude in turn.
Begun == [bits |-> 0, weight |-> 1, half |-> <<>>, points |-> <<>>]
Read(s, b) ==
    LET bits == s.bits + (b % 32) * s.weight
        v == Unzigzag(bits)
        last == IF s.points = <<>> THEN [lat |-> 0, lon |-> 0] ELSE s.points[Len(s.points)]
    IN  IF b >= 32 THEN [s EXCEPT !.bits = bits, !.weight = 32 * @]
        ELSE IF s.half = <<>> THEN [Begun EXCEPT !.half = <<v>>, !.points = s.points]
        ELSE [Begun EXCEPT !.points =
                 Append(s.points, [lat |-> last.lat + s.half[1], lon |-> last.lon + v])]

\* decodeEncodedPolyline: what has been read after each character; nothing if the
\* code ends within a value or between latitude and longitude.
Reading(code) ==
    LET read[k \in 0 .. Len(code)] == IF k = 0 THEN Begun ELSE Read(read[k - 1], code[k])
    IN  read
DecodePolyline(code) ==
    LET end == Reading(code)[Len(code)]
    IN  IF end.weight = 1 /\ end.half = <<>> THEN end.points ELSE <<>>

\* latLonFromGeoJSON: longitude first; a coordinate of less than two is skipped.
Taking(coords) ==
    LET sofar[k \in 0 .. Len(coords)] ==
            IF k = 0 THEN <<>>
            ELSE IF Len(coords[k]) < 2 THEN sofar[k - 1]
            ELSE Append(sofar[k - 1], [lat |-> coords[k][2], lon |-> coords[k][1]])
    IN  sofar
LatLonFromGeoJSON(coords) == Taking(coords)[Len(coords)]

\* The encoder at the other end: Google's published format, and GeoJSON.
Zigzag(v) == IF v < 0 THEN -2 * v - 1 ELSE 2 * v
Chars(z) ==
    LET chars[x \in 0 .. z] ==
            IF x < 32 THEN <<x>> ELSE <<(x % 32) + 32>> \o chars[x \div 32]
    IN  chars
EncodeValue(v) == Chars(Zigzag(v))[Zigzag(v)]
From(p, k) == IF k = 1 THEN [lat |-> 0, lon |-> 0] ELSE p[k - 1]
Encoding(p) ==
    LET code[k \in 0 .. Len(p)] ==
            IF k = 0 THEN <<>>
            ELSE code[k - 1] \o EncodeValue(p[k].lat - From(p, k).lat)
                             \o EncodeValue(p[k].lon - From(p, k).lon)
    IN  code
Encoded(p) == Encoding(p)[Len(p)]
GeoJSON(p) == [i \in 1 .. Len(p) |-> <<p[i].lon, p[i].lat>>]

Decoded(provider, p) ==
    IF provider = "google" THEN DecodePolyline(Encoded(p)) ELSE LatLonFromGeoJSON(GeoJSON(p))

-----------------------------------------------------------------------------
(* The registry.                                                           *)

TypeOK ==
    /\ cfg \in Normalized /\ taken \in Normalized
    /\ updates \in 0 .. MaxUpdates
    /\ req \in {"none", "trying", "found", "failed"}
    /\ left \in SeqOf(Providers, 3) /\ tried \in SeqOf(Providers, 3)
    /\ path \in Paths \union {<<>>}

Init ==
    /\ cfg \in Configs /\ taken = cfg /\ updates = 0
    /\ req = "none" /\ left = <<>> /\ tried = <<>> /\ path = <<>> /\ points = <<>>

\* SaveSettings: a key given or taken away, or another mode.
UpdateConfig ==
    /\ updates < MaxUpdates /\ updates' = updates + 1
    /\ \/ \E k \in {"google", "mapbox"} :
             cfg' = [cfg EXCEPT !.keys = IF k \in @ THEN @ \ {k} ELSE @ \union {k}]
       \/ \E mode \in Modes : mode # cfg.mode /\ cfg' = [cfg EXCEPT !.mode = mode]
    /\ UNCHANGED <<req, taken, left, tried, path, points>>

\* Route works on a copy of configuration and providers.  (The bug: a provider
\* forced by hand has no fallback.)
MutRoute ==
    /\ req = "none"
    /\ req' = "trying" /\ taken' = cfg
    /\ left' = IF cfg.mode = "manual" THEN <<ActiveProvider(cfg)>> ELSE ProviderOrder(cfg)
    /\ UNCHANGED <<registry, tried, path, points>>
Route ==
    /\ req = "none"
    /\ req' = "trying" /\ taken' = cfg /\ left' = ProviderOrder(cfg)
    /\ UNCHANGED <<registry, tried, path, points>>

Skip ==
    /\ req = "trying" /\ left # <<>> /\ Head(left) \notin Available(taken)
    /\ left' = Tail(left)
    /\ UNCHANGED <<registry, req, taken, tried, path, points>>

\* A request that fails, or answers with no geometry, leaves it to the next.
Try ==
    /\ req = "trying" /\ left # <<>> /\ Head(left) \in Available(taken)
    /\ left' = Tail(left) /\ tried' = Append(tried, Head(left))
    /\ \/ \E p \in Paths :
             /\ path' = p /\ points' = Decoded(Head(left), p)
             /\ req' = IF points' = <<>> THEN "trying" ELSE "found"
       \/ UNCHANGED <<req, path, points>>
    /\ UNCHANGED <<registry, taken>>

\* The engine then plays the straight line.
Fail ==
    /\ req = "trying" /\ left = <<>>
    /\ req' = "failed"
    /\ UNCHANGED <<registry, taken, left, tried, path, points>>

Next == UpdateConfig \/ Route \/ Skip \/ Try \/ Fail

Spec == Init /\ [][Next]_vars

-----------------------------------------------------------------------------
(* Properties.                                                             *)

\* A route fails only once every provider that was available when it began was
\* asked, and it asks the one announced as active first (registry.go:45-74,
\* 86-119): what clients are told agrees with what a route does.
FallbackIsComplete ==
    /\ req = "failed" => ToSet(tried) = Available(taken)
    /\ tried # <<>> => tried[1] = ActiveProvider(taken)
    /\ IsInjective(tried)

\* The points played are those of the path the provider sent, whatever its
\* signs and sizes (geometry.go).
PathIsKept == req = "found" => points = path
=============================================================================
