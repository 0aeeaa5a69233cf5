------------------------------ MODULE SingleRun -----------------------------
(***************************************************************************)
(* What starting the passive browses again promises: it "replaces the      *)
(* previous run rather than adding to it" (discovery/wake.go:58).  At most *)
(* one run is live, the next one begins only after it has ended, and a run *)
(* that has ended is never live again.                                     *)
(*                                                                         *)
(* Module MdnsWaker implements this specification, the runs of callers     *)
(* that overlap set aside.                                                 *)
(***************************************************************************)
CONSTANT Runs

VARIABLES
    live, \* the live run, as a set of at most one
    past  \* the runs that have ended

vars == <<live, past>>

Init == live = {} /\ past = {}

Begin(r) == live = {} /\ r \notin past /\ live' = {r} /\ UNCHANGED past

End(r) == r \in live /\ live' = {} /\ past' = past \union {r}

\* A run whose context is already over when it begins.
Stillborn(r) == r \notin live \union past /\ past' = past \union {r} /\ UNCHANGED live

Next == \E r \in Runs : Begin(r) \/ End(r) \/ Stillborn(r)

Spec == Init /\ [][Next]_vars
=============================================================================
