----------------------------- MODULE MCServices -----------------------------
(* Four parts of the engine that do not interact, each run by itself: the   *)
(* first state picks the part that moves, the others stay as they began.    *)
(* W is the mDNS waker, S the settings and R the routing; module Pairing is *)
(* extended.                                                                *)
EXTENDS Pairing, SequencesExt

CONSTANTS
    Restarters, Services, DelayMin, DelayMax, Threshold, MaxRuns, \* W
    Clients, Places, MaxChanges, MaxFaults,                       \* S
    Raw, MaxRaw, Paths, MaxUpdates                                \* R

VARIABLES
    part,
    \* W
    current, made, ended, loop, delay, failures, warned, told, pc, kind, over, stopping, mine,
    overlapped,
    \* S
    mem, cluster, pendingUpdates, disk, secrets, step, keyed, snap, changes, faults, newest,
    newestKeys, unsaved, unsavedKeys,
    \* R
    cfg, updates, route, taken, left, tried, path, points

W == INSTANCE MdnsWaker WITH Callers <- Restarters
S == INSTANCE Settings WITH updates <- pendingUpdates
R == INSTANCE Routing WITH req <- route

ASSUME ServicesAssumption ==
    PairingAssumption /\ W!WakerAssumption /\ S!SettingsAssumption /\ R!RoutingAssumption

\* Paths of one or two points, with a negative, a zero and a large coordinate.
Coord == {-17, 0, 600}
ShortPaths == SeqOf([lat : Coord, lon : Coord], 2) \ {<<>>}

wVars == <<current, made, ended, loop, delay, failures, warned, told, pc, kind, over,
           stopping, mine, overlapped>>
sVars == <<mem, cluster, pendingUpdates, disk, secrets, step, keyed, snap, changes, faults,
           newest, newestKeys, unsaved, unsavedKeys>>
rVars == <<cfg, updates, route, taken, left, tried, path, points>>
allVars == <<part, vars, wVars, sVars, rVars>>

ServicesInit ==
    /\ part \in {"pairing", "waker", "settings", "routing"}
    /\ Init /\ W!Init /\ S!Init /\ R!Init
    /\ part # "pairing" => ~keyMode
    /\ part # "routing" => cfg = R!NormalizeConfig("auto", "osrm", <<>>, {})

ServicesNext ==
    \/ part = "pairing" /\ Next /\ UNCHANGED <<part, wVars, sVars, rVars>>
    \/ part = "waker" /\ W!Next /\ UNCHANGED <<part, vars, sVars, rVars>>
    \/ part = "settings" /\ S!Next /\ UNCHANGED <<part, vars, wVars, rVars>>
    \/ part = "routing" /\ R!Next /\ UNCHANGED <<part, vars, wVars, sVars>>

ServicesSpec == ServicesInit /\ [][ServicesNext]_allVars

\* What is still is as it began: only the part that moves is looked at.
ServicesTypeOK ==
    CASE part = "pairing" -> TypeOK
      [] part = "waker" -> W!TypeOK
      [] part = "settings" -> S!TypeOK
      [] part = "routing" -> R!TypeOK

StartReplaces == W!StartReplaces
QuietIsStored == part = "settings" => S!QuietIsStored
FallbackIsComplete == part = "routing" => R!FallbackIsComplete
PathIsKept == part = "routing" => R!PathIsKept
=============================================================================
