----------------------------- MODULE MCDrivers ------------------------------
(* The three ways a driver is built, each run by itself: the first state    *)
(* picks the part that moves, the others stay as they began.  The           *)
(* pymobiledevice3 driver's worker is extended; T is the tunnel mount       *)
(* shared by the drivers that launch a daemon, N the driver that has its    *)
(* tunnel in the process.                                                   *)
EXTENDS Pmd3Location

CONSTANTS owner, Stoppers, MaxDaemons, MaxStops, MaxManagers, MaxHandles, MaxNativeStops

VARIABLES
    part,
    \* T
    m, proc, step, held, answer, attempt, ctxDone, manual, image, gate, dog, found, stops,
    \* N
    d, handle, loop, nTunnel, nStep, nHeld, seen, nAttempt, nCtxDone, nManual, nDog, dogMgr,
    dogEp, inj, injEp, using, handles, nStops, failed

T == INSTANCE TunnelMount
N == INSTANCE NativeTunnel WITH
    MaxStops <- MaxNativeStops,
    tunnel <- nTunnel, step <- nStep, held <- nHeld, attempt <- nAttempt,
    ctxDone <- nCtxDone, manual <- nManual, dog <- nDog, stops <- nStops, made <- handles

ASSUME DriversAssumption == T!MountAssumption /\ N!NativeAssumption

tVars == <<m, proc, step, held, answer, attempt, ctxDone, manual, image, gate, dog, found, stops>>
nVars == <<d, handle, loop, nTunnel, nStep, nHeld, seen, nAttempt, nCtxDone, nManual, nDog,
           dogMgr, dogEp, inj, injEp, using, handles, nStops, failed>>
allVars == <<part, vars, tVars, nVars>>

DriversInit ==
    /\ part \in {"pmd3", "mount", "native"}
    /\ Init /\ T!Init /\ N!Init
    /\ part # "mount" => ~manual /\ ~image
    /\ part # "native" => ~nManual

DriversNext ==
    \/ part = "pmd3" /\ Next /\ UNCHANGED <<part, tVars, nVars>>
    \/ part = "mount" /\ T!Next /\ UNCHANGED <<part, vars, nVars>>
    \/ part = "native" /\ N!Next /\ UNCHANGED <<part, vars, tVars>>

DriversSpec == DriversInit /\ [][DriversNext]_allVars

\* What is still is as it began: only the part that moves is looked at.
DriversTypeOK ==
    CASE part = "pmd3" -> TypeOK [] part = "mount" -> T!TypeOK [] part = "native" -> N!TypeOK
MountIsTrue == part = "mount" => T!MountIsTrue
MountIsPhased == T!MountIsPhased
NativeIsTrue == part = "native" => N!NativeIsTrue
=============================================================================
