------------------------------ MODULE CertSync ------------------------------
(***************************************************************************)
(* The opt-in sync of pairing records between the engines of a cluster     *)
(* (cluster_certsync.go, the handlers of cluster_http.go) and the record   *)
(* an enroller adds (enroller.go).  One record file is followed, by what it *)
(* holds (`file`) and by its modification time (`time`).  A version of the *)
(* record is the moment it was enrolled, 0 while there is no file, and its *)
(* own time is that moment.                                                *)
(*                                                                         *)
(* Who is master is the business of module Cluster: here a node is         *)
(* promoted, obeys the claim of another, or finds it by its heartbeat.     *)
(* Requests are served each by a goroutine of its own, so that several     *)
(* writers may be at work on one node.  A write sets the content of the    *)
(* file, which takes the time of that moment, and then the time it was     *)
(* sent with; what is sent is read in two steps as well.                   *)
(***************************************************************************)
EXTENDS Integers, FiniteSets

CONSTANTS
    Nodes,
    None,        \* currentMaster empty, or "me"
    Writers,     \* goroutines that serve a pushed record
    MaxTime,     \* bound: moments at which a file is written
    MaxFaults    \* bound: changes of master, requests lost, and restarts

CertSyncAssumption ==
    /\ None \notin Nodes
    /\ MaxTime \in Nat /\ MaxFaults \in Nat

VARIABLES
    file,      \* per node: the version in its Lockdown folder
    time,      \* per node: the modification time of that file
    clock,     \* the last moment a file was written; the nodes' clocks agree
    mark,      \* per node: m.certMtimes
    synced,    \* per node: m.initialSynced
    role,      \* per node: "master" or "slave"
    follows,   \* per node: m.currentMaster
    looked,    \* per node: the time its push in progress saw, 0 when it has none
    pull,      \* per node: its pull in progress, [step, from, ver, time]
    pushes,    \* pushes on their way: [to, ver, time]
    writer,    \* per writer: [step, node, ver, time, seen]; seen: what its look saw
    puller,    \* per node: the same for its own pull
    disturbed, \* history: see NewerIsKept
    faults     \* the bounded environment's counter

disk == <<file, time, clock, disturbed>>
clusterVars == <<role, follows>>
writers == <<writer, puller>>
vars == <<disk, mark, synced, clusterVars, looked, pull, pushes, writers, faults>>

Times == 0 .. MaxTime
Idle == [step |-> "idle", node |-> None, ver |-> 0, time |-> 0, seen |-> 0]
NoPull == [step |-> "none", from |-> None, ver |-> 0, time |-> 0]
Work == [step : {"idle", "check", "write", "stamp", "mark"}, node : Nodes \union {None},
         ver : Times, time : Times, seen : Times]
Pull == [step : {"none", "read", "got", "over"}, from : Nodes \union {None},
         ver : Times, time : Times]
Set(f, x, v) == [f EXCEPT ![x] = v]
Job(n, ver, t) == [step |-> "check", node |-> n, ver |-> ver, time |-> t, seen |-> 0]

Working == {writer[w] : w \in Writers} \union {puller[n] : n \in Nodes}
\* Some writer has set the content of n's file and not yet its time.
Mid(n) == \E job \in Working : job.step = "stamp" /\ job.node = n

TypeOK ==
    /\ file \in [Nodes -> Times] /\ time \in [Nodes -> Times] /\ clock \in Times
    /\ mark \in [Nodes -> Times] /\ looked \in [Nodes -> Times]
    /\ synced \in [Nodes -> BOOLEAN] /\ disturbed \in BOOLEAN
    /\ role \in [Nodes -> {"master", "slave"}]
    /\ follows \in [Nodes -> Nodes \union {None}]
    /\ pull \in [Nodes -> Pull]
    /\ pushes \subseteq [to : Nodes, ver : Times, time : Times]
    /\ writer \in [Writers -> Work] /\ puller \in [Nodes -> Work]
    /\ faults \in 0 .. MaxFaults

Init ==
    /\ file = [n \in Nodes |-> 0] /\ time = [n \in Nodes |-> 0] /\ clock = 0
    /\ mark = [n \in Nodes |-> 0] /\ looked = [n \in Nodes |-> 0]
    /\ synced = [n \in Nodes |-> FALSE] /\ disturbed = FALSE
    /\ role = [n \in Nodes |-> "slave"] /\ follows = [n \in Nodes |-> None]
    /\ pull = [n \in Nodes |-> NoPull] /\ pushes = {}
    /\ writer = [w \in Writers |-> Idle] /\ puller = [n \in Nodes |-> Idle]
    /\ faults = 0

-----------------------------------------------------------------------------
(* The cluster around it, and the enroller.                                *)

\* Wins the election; its claims may or may not arrive.
Promote(n) ==
    /\ role[n] = "slave" /\ faults < MaxFaults /\ faults' = faults + 1
    /\ role' = Set(role, n, "master") /\ follows' = Set(follows, n, None)
    /\ UNCHANGED <<disk, mark, synced, looked, pull, pushes, writers>>

\* handleTakeover: the claim says "me"; the next heartbeat finds who that is.
ObeyClaim(n) ==
    /\ \E p \in Nodes \ {n} : role[p] = "master"
    /\ faults < MaxFaults /\ faults' = faults + 1
    /\ role' = Set(role, n, "slave") /\ follows' = Set(follows, n, None)
    /\ synced' = Set(synced, n, FALSE)
    /\ UNCHANGED <<disk, mark, looked, pull, pushes, writers>>

\* checkPeers, which leaves initialSynced as it is.
Follow(n, p) ==
    /\ role[n] = "slave" /\ role[p] = "master" /\ follows[n] # p
    /\ follows' = Set(follows, n, p)
    /\ UNCHANGED <<disk, mark, synced, role, looked, pull, pushes, writers, faults>>

\* n's file is written: with this content, and with the time of this moment.
WriteFile(n, ver) ==
    /\ clock < MaxTime /\ clock' = clock + 1
    /\ file' = Set(file, n, ver) /\ time' = Set(time, n, clock + 1)
    /\ disturbed' = (disturbed \/ Mid(n))

\* enroller.Enroll writes the record of a newly paired phone.
Enroll(n) ==
    /\ WriteFile(n, clock + 1)
    /\ UNCHANGED <<mark, synced, clusterVars, looked, pull, pushes, writers, faults>>

Restart(n) ==
    /\ faults < MaxFaults /\ faults' = faults + 1
    /\ disturbed' = (disturbed \/ Mid(n))
    /\ mark' = Set(mark, n, 0) /\ synced' = Set(synced, n, FALSE)
    /\ role' = Set(role, n, "slave") /\ follows' = Set(follows, n, None)
    /\ looked' = Set(looked, n, 0)
    /\ pull' = [m \in Nodes |->
                  IF m = n \/ (pull[m].step = "read" /\ pull[m].from = n) THEN NoPull ELSE pull[m]]
    /\ puller' = Set(puller, n, Idle)
    /\ writer' = [w \in Writers |-> IF writer[w].node = n THEN Idle ELSE writer[w]]
    /\ UNCHANGED <<file, time, clock, pushes>>

-----------------------------------------------------------------------------
(* runCertSync, from the heartbeat loop of n, which does one thing at once. *)

Busy(n) == pull[n].step # "none" \/ puller[n].step # "idle" \/ looked[n] # 0

\* A slave that has not synced asks its master for the folder.  The request may
\* fail; the next beat asks again.
PullCerts(n) ==
    /\ role[n] = "slave" /\ follows[n] # None /\ ~synced[n] /\ ~Busy(n)
    /\ \/ /\ pull' = Set(pull, n, [step |-> "read", from |-> follows[n],
                                   ver |-> file[follows[n]], time |-> 0])
          /\ UNCHANGED faults
       \/ faults < MaxFaults /\ faults' = faults + 1 /\ UNCHANGED pull
    /\ UNCHANGED <<disk, mark, synced, clusterVars, looked, pushes, writers>>

\* handlePlists of the master reads a file's content, and then its time.
HandlePlists(n) ==
    LET from == pull[n].from IN
    /\ pull[n].step = "read"
    /\ pull' = Set(pull, n, [pull[n] EXCEPT !.step = "got", !.time = time[from]])
    /\ disturbed' = (disturbed \/ Mid(from) \/ file[from] # pull[n].ver)
    /\ UNCHANGED <<file, time, clock, mark, synced, clusterVars, looked, pushes, writers, faults>>

\* Each file received is written; then the pull is over, whatever the node
\* has been told since.  (The bug: nothing records that it was.)
MutPulled(n) ==
    /\ pull[n].step = "got" /\ puller[n].step = "idle"
    /\ pull' = Set(pull, n, NoPull)
    /\ UNCHANGED <<disk, mark, synced, clusterVars, looked, pushes, writers, faults>>
Pulled(n) ==
    /\ pull[n].step \in {"got", "over"} /\ puller[n].step = "idle"
    /\ IF pull[n].step = "got" /\ pull[n].ver > 0
       THEN /\ puller' = Set(puller, n, Job(n, pull[n].ver, pull[n].time))
            /\ pull' = Set(pull, n, [NoPull EXCEPT !.step = "over"]) /\ UNCHANGED synced
       ELSE /\ pull' = Set(pull, n, NoPull) /\ synced' = Set(synced, n, TRUE)
            /\ UNCHANGED puller
    /\ UNCHANGED <<disk, mark, clusterVars, looked, pushes, writer, faults>>

\* A master looks for a file that changed since it last pushed it,
LookChanged(n) ==
    /\ role[n] = "master" /\ time[n] > mark[n] /\ ~Busy(n)
    /\ looked' = Set(looked, n, time[n])
    /\ UNCHANGED <<disk, mark, synced, clusterVars, pull, pushes, writers, faults>>

\* reads it, marks it, and pushes it once to every peer.
PushChanged(n) ==
    /\ looked[n] # 0 /\ looked' = Set(looked, n, 0)
    /\ mark' = Set(mark, n, looked[n])
    /\ pushes' = pushes \union {[to |-> p, ver |-> file[n], time |-> looked[n]] : p \in Nodes \ {n}}
    /\ disturbed' = (disturbed \/ Mid(n) \/ time[n] # looked[n])
    /\ UNCHANGED <<file, time, clock, synced, clusterVars, pull, writers, faults>>

LosePush(push) ==
    /\ push \in pushes /\ faults < MaxFaults
    /\ pushes' = pushes \ {push} /\ faults' = faults + 1
    /\ UNCHANGED <<disk, mark, synced, clusterVars, looked, pull, writers>>

\* handleSyncPlist.
ServePush(w, push) ==
    /\ push \in pushes /\ writer[w].step = "idle"
    /\ pushes' = pushes \ {push}
    /\ writer' = Set(writer, w, Job(push.to, push.ver, push.time))
    /\ UNCHANGED <<disk, mark, synced, clusterVars, looked, pull, puller, faults>>

-----------------------------------------------------------------------------
(* writeLocalPlist.  job is the writer's state and next what it becomes.   *)

MutNewer(n, t) == TRUE
Newer(n, t) == t > time[n]

\* The time of the file on disk is looked at; a newer or equal one is kept.
CheckLocal(job, next) ==
    /\ job.step = "check"
    /\ next = IF Newer(job.node, job.time)
              THEN [job EXCEPT !.step = "write", !.seen = time[job.node]] ELSE Idle
    /\ disturbed' = (disturbed \/ Mid(job.node))
    /\ UNCHANGED <<file, time, clock, mark>>

\* os.WriteFile.  The folder may be unwritable.
WriteLocal(job, next) ==
    /\ job.step = "write"
    /\ \/ WriteFile(job.node, job.ver) /\ next = [job EXCEPT !.step = "stamp"]
       \/ next = Idle /\ UNCHANGED disk
    /\ UNCHANGED mark

\* os.Chtimes.  That it fails is logged, no more.
StampLocal(job, next) ==
    /\ job.step = "stamp" /\ next = [job EXCEPT !.step = "mark"]
    /\ \/ time' = Set(time, job.node, job.time) /\ UNCHANGED disturbed
       \/ disturbed' = TRUE /\ UNCHANGED time
    /\ UNCHANGED <<file, clock, mark>>

\* "so we don't immediately push this back"
MarkLocal(job, next) ==
    /\ job.step = "mark"
    /\ mark' = Set(mark, job.node, job.time) /\ next = Idle
    /\ UNCHANGED disk

WriteLocalPlist(job, next) ==
    CheckLocal(job, next) \/ WriteLocal(job, next) \/ StampLocal(job, next) \/ MarkLocal(job, next)

Jobs(job) == {Idle, [job EXCEPT !.step = "write", !.seen = time[job.node]],
              [job EXCEPT !.step = "stamp"], [job EXCEPT !.step = "mark"]}

Serve(w) ==
    /\ writer[w].step # "idle"
    /\ \E next \in Jobs(writer[w]) :
          WriteLocalPlist(writer[w], next) /\ writer' = Set(writer, w, next)
    /\ UNCHANGED <<synced, clusterVars, looked, pull, pushes, puller, faults>>
PullWrites(n) ==
    /\ puller[n].step # "idle"
    /\ \E next \in Jobs(puller[n]) :
          WriteLocalPlist(puller[n], next) /\ puller' = Set(puller, n, next)
    /\ UNCHANGED <<synced, clusterVars, looked, pull, pushes, writer, faults>>

-----------------------------------------------------------------------------
Beat(n) == PullCerts(n) \/ Pulled(n) \/ PullWrites(n) \/ LookChanged(n) \/ PushChanged(n)

Next ==
    \/ \E n \in Nodes : \/ Promote(n) \/ ObeyClaim(n) \/ Enroll(n) \/ Restart(n)
                        \/ \E p \in Nodes \ {n} : Follow(n, p)
                        \/ Beat(n) \/ HandlePlists(n)
    \/ \E push \in pushes : LosePush(push) \/ \E w \in Writers : ServePush(w, push)
    \/ \E w \in Writers : Serve(w)

Spec == Init /\ [][Next]_vars

\* The heartbeat of every node goes on, and requests are served.
Fairness == \A n \in Nodes : WF_vars(Beat(n)) /\ WF_vars(HandlePlists(n))

FairSpec == Spec /\ Fairness

-----------------------------------------------------------------------------
(* Properties.                                                             *)

\* A write over a newer version whose look at the file is out of date.
Overtaken(n) ==
    \E job \in Working :
        job.step = "write" /\ job.node = n /\ job.ver = file'[n] /\ job.seen # file[n]

\* The job goes no further though the record it was sent is newer than the file.
Dropped(job, next) ==
    job.step = "check" /\ next.step = "idle" /\ job.ver > file[job.node]

\* A record only goes back to an older version when the file changed between a
\* writer's look at it and its write (cluster_certsync.go:178-192), and a newer
\* one that is offered is not dropped.  This is so until a write is disturbed,
\* which `disturbed` remembers: the time of a file could not be set after its
\* content, or between the two (cluster_certsync.go:194-204) the node restarted
\* or the file was looked at, read or written by another goroutine; or the file
\* changed between the reads of its content and of its time
\* (cluster_certsync.go:106-128, cluster_http.go:126-133).
NewerIsKept ==
    [][\/ disturbed'
       \/ /\ \A n \in Nodes : file'[n] < file[n] => Overtaken(n)
          /\ faults' = faults =>
                /\ \A w \in Writers : ~Dropped(writer[w], writer'[w])
                /\ \A n \in Nodes : ~Dropped(puller[n], puller'[n])]_vars

\* A slave that keeps following a master has pulled its records in the end:
\* a pull that fails is tried again at the next beat (cluster_certsync.go:37).
SlavesPull ==
    \A n \in Nodes :
        (role[n] = "slave" /\ follows[n] # None)
            ~> (synced[n] \/ role[n] = "master" \/ follows[n] = None)

-----------------------------------------------------------------------------
(* What the sources say, and the code does not do.                         *)

Quiet == pushes = {} /\ \A job \in Working : job.step = "idle"

\* "a master pushes any file that changed since the last tick to every peer"
\* (cluster_certsync.go:27): a push that is lost is never tried again, so a
\* slave may lack for ever what its master believes it pushed.
PushesArrive ==
    \A n, p \in Nodes :
        role[n] = "master" /\ role[p] = "slave" /\ follows[p] = n /\ synced[p]
            /\ mark[n] = time[n] /\ Quiet => file[p] >= file[n]

\* After a takeover the slave pulls from its new master (cluster_http.go:99):
\* not if the pull from the old one ends after the claim came.
TakeoverIsFollowedByPull ==
    [][\A n \in Nodes : ~synced[n] /\ synced'[n] => follows[n] # None]_vars

\* "If the local file is newer or equal, skip writing." (cluster_certsync.go:181):
\* not when it becomes so after the look, nor when one of the two records does
\* not carry its own time.
NewerIsNeverLost == [][\A n \in Nodes : file'[n] >= file[n]]_vars

\* "Apply the sender's ModTime to the local file to keep it synced."
\* (cluster_certsync.go:199): between the write and this step a master pushes the
\* old record as the newest, and a newer one that arrives is skipped.
TimesAreTrue == \A n \in Nodes : Quiet => time[n] = file[n]
=============================================================================
