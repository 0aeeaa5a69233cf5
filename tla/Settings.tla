------------------------------ MODULE Settings ------------------------------
(***************************************************************************)
(* The engine's settings, favourites and history: what is in memory        *)
(* (engine_settings.go, engine_favorites.go, e.st), what persist writes    *)
(* (engine_persistence.go, settings/store.go) and what a restart reads     *)
(* back (engine.go, cmd/headless/main.go, config.go).                      *)
(*                                                                         *)
(* Every client changes the memory in one section of e.mu, emits, takes a  *)
(* snapshot in a second section, and saves it outside any.  A favourite is *)
(* a place; its name is a number that grows with each renaming.  The other *)
(* settings are a number that grows with each change, and so are the       *)
(* history, the routing keys, the cluster manager's configuration and the  *)
(* companion port, which a client's change leaves in the tunnel's place.   *)
(***************************************************************************)
EXTENDS Integers, Sequences, SequencesExt

CONSTANTS
    Clients,    \* goroutines that serve a client's command
    Places,     \* where a favourite may be
    MaxChanges, \* bound: changes
    MaxFaults   \* bound: saves that fail, and crashes

SettingsAssumption == MaxChanges \in Nat /\ MaxFaults \in Nat

VARIABLES
    mem,      \* e.st and the routing registry: favs, name, opt, port, hist, key
    cluster,  \* the cluster manager's configuration
    updates,  \* goroutines that will call clusterMgr.UpdateConfig, by value
    disk,     \* the settings row
    secrets,  \* the secrets rows
    step,     \* per client: "idle", "persist", "save", "keys" or "savekeys"
    keyed,    \* per client: its command changed a key
    snap,     \* per client: the snapshot it is about to save
    changes, faults, \* the bounded environment's counters
    newest,      \* history: the client that took the newest snapshot, in a set
    newestKeys,  \* history: the same for the keys
    unsaved,     \* history: the newest snapshot's save failed, or an older one's followed
    unsavedKeys  \* history: the same for the keys

bounds == <<changes, faults>>
history == <<newest, newestKeys, unsaved, unsavedKeys>>
vars == <<mem, cluster, updates, disk, secrets, step, keyed, snap, bounds, history>>

Counter == 0 .. MaxChanges
Favorites == {s \in Seq(Places) : IsInjective(s)}
Memory == [favs : Favorites, name : [Places -> Counter], opt : Counter, port : Counter,
           hist : Counter, key : Counter]
Row == [favs : Favorites, name : [Places -> Counter], opt : Counter, port : Counter,
        hist : Counter, cluster : Counter]

TypeOK ==
    /\ mem \in Memory
    /\ cluster \in Counter /\ updates \subseteq Counter
    /\ disk \in Row /\ secrets \in Counter
    /\ step \in [Clients -> {"idle", "persist", "save", "keys", "savekeys"}]
    /\ keyed \in [Clients -> BOOLEAN]
    /\ snap \in [Clients -> [row : Row, key : Counter]]
    /\ changes \in Counter /\ faults \in 0 .. MaxFaults
    /\ newest \subseteq Clients /\ newestKeys \subseteq Clients
    /\ unsaved \in BOOLEAN /\ unsavedKeys \in BOOLEAN

\* settings.Default, and no secret.
DefaultRow == [favs |-> <<>>, name |-> [p \in Places |-> 0], opt |-> 0, port |-> 0,
               hist |-> 0, cluster |-> 0]
NoSnap == [row |-> DefaultRow, key |-> 0]

\* NewWithSecrets, from what the stores hold; the port is no tunnel's yet.
Seed(row, key) == [favs |-> row.favs, name |-> row.name, opt |-> row.opt, port |-> 0,
                   hist |-> row.hist, key |-> key]

Init ==
    /\ disk = DefaultRow /\ secrets = 0
    /\ mem = Seed(DefaultRow, 0) /\ cluster = 0 /\ updates = {}
    /\ step = [c \in Clients |-> "idle"] /\ keyed = [c \in Clients |-> FALSE]
    /\ snap = [c \in Clients |-> NoSnap]
    /\ changes = 0 /\ faults = 0
    /\ newest = {} /\ newestKeys = {} /\ unsaved = FALSE /\ unsavedKeys = FALSE

Set(f, x, v) == [f EXCEPT ![x] = v]
Goto(c, s) == step' = Set(step, c, s)
Count == changes < MaxChanges /\ changes' = changes + 1

-----------------------------------------------------------------------------
(* The commands: each changes the memory, then persists.                   *)

Has(p) == \E i \in 1 .. Len(mem.favs) : mem.favs[i] = p

\* What the commands share: c goes on to persist.
Begin(c) ==
    /\ step[c] = "idle" /\ Count
    /\ Goto(c, "persist")
    /\ UNCHANGED <<disk, secrets, snap, faults, history>>

\* A place that is a favourite already: nothing changes and nothing is saved.
AddFavorite(c, p) ==
    /\ ~Has(p)
    /\ Begin(c)
    /\ mem' = [mem EXCEPT !.favs = Append(@, p), !.name[p] = changes + 1]
    /\ UNCHANGED <<cluster, updates, keyed>>

\* (No place is a favourite twice: the first removed is the only one.)
RemoveFavorite(c, p) ==
    /\ Begin(c)
    /\ mem' = [mem EXCEPT !.favs = RemoveFirst(@, p)]
    /\ UNCHANGED <<cluster, updates, keyed>>

RenameFavorite(c, p) ==
    /\ Begin(c)
    /\ mem' = IF Has(p) THEN [mem EXCEPT !.name[p] = changes + 1] ELSE mem
    /\ UNCHANGED <<cluster, updates, keyed>>

ClearHistory(c) ==
    /\ Begin(c)
    /\ mem' = [mem EXCEPT !.hist = 0]
    /\ UNCHANGED <<cluster, updates, keyed>>

\* SaveSettings: options, the companion port, a routing key, the cluster's
\* configuration, which a goroutine of its own applies; SwitchDriver: options alone.
SaveSettings(c) ==
    /\ Begin(c)
    /\ \E port, key, member \in BOOLEAN :
         /\ mem' = [mem EXCEPT !.opt = changes + 1, !.port = IF port THEN changes + 1 ELSE @,
                               !.key = IF key THEN changes + 1 ELSE @]
         /\ keyed' = Set(keyed, c, key)
         /\ updates' = IF member THEN updates \union {changes + 1} ELSE updates
    /\ UNCHANGED cluster

UpdateCluster(v) ==
    /\ v \in updates
    /\ cluster' = v /\ updates' = updates \ {v}
    /\ UNCHANGED <<mem, disk, secrets, step, keyed, snap, bounds, history>>

\* injectLocation adds to the history, and leaves it to the next save.
RecordHistory ==
    /\ Count
    /\ mem' = [mem EXCEPT !.hist = changes + 1]
    /\ UNCHANGED <<cluster, updates, disk, secrets, step, keyed, snap, faults, history>>

\* A tunnel that comes up, moves or goes sets the port to its own.
PublishPort ==
    /\ mem.port # 0 /\ mem' = [mem EXCEPT !.port = 0]
    /\ UNCHANGED <<cluster, updates, disk, secrets, step, keyed, snap, bounds, history>>

-----------------------------------------------------------------------------
(* persist and persistSecrets.                                             *)

\* exportSettingsLocked: the port is the default one.  (The bug: the favourites
\* are left out too.)
MutExport == [DefaultRow EXCEPT !.opt = mem.opt, !.hist = mem.hist, !.cluster = cluster]
Export == [DefaultRow EXCEPT !.favs = mem.favs, !.name = mem.name, !.opt = mem.opt,
                             !.hist = mem.hist, !.cluster = cluster]

Persist(c) ==
    /\ step[c] = "persist"
    /\ snap' = Set(snap, c, [row |-> Export, key |-> 0])
    /\ newest' = {c} /\ Goto(c, "save")
    /\ UNCHANGED <<mem, cluster, updates, disk, secrets, keyed, bounds, newestKeys, unsaved,
                   unsavedKeys>>

\* The snapshot shares its favourites with the memory, and a renaming changes
\* them in place: either name may be the one that is encoded.
Encoded(row) ==
    {[row EXCEPT !.name = [p \in Places |-> IF p \in new THEN mem.name[p] ELSE @[p]]] :
        new \in SUBSET {p \in Places : mem.name[p] # row.name[p]}}

AfterSave(c) == IF keyed[c] THEN "keys" ELSE "idle"

Save(c) ==
    /\ step[c] = "save"
    /\ \/ /\ disk' \in Encoded(snap[c].row)
          /\ unsaved' = (c \notin newest) /\ UNCHANGED faults
       \/ /\ faults < MaxFaults /\ faults' = faults + 1 /\ UNCHANGED disk
          /\ unsaved' = (unsaved \/ c \in newest)
    /\ snap' = Set(snap, c, NoSnap) /\ Goto(c, AfterSave(c))
    /\ UNCHANGED <<mem, cluster, updates, secrets, keyed, changes, newest, newestKeys, unsavedKeys>>

PersistSecrets(c) ==
    /\ step[c] = "keys"
    /\ snap' = Set(snap, c, [row |-> DefaultRow, key |-> mem.key])
    /\ newestKeys' = {c} /\ Goto(c, "savekeys")
    /\ UNCHANGED <<mem, cluster, updates, disk, secrets, keyed, bounds, newest, unsaved,
                   unsavedKeys>>

\* One transaction for the two keys.
SaveSecrets(c) ==
    /\ step[c] = "savekeys"
    /\ \/ /\ secrets' = snap[c].key
          /\ unsavedKeys' = (c \notin newestKeys) /\ UNCHANGED faults
       \/ /\ faults < MaxFaults /\ faults' = faults + 1 /\ UNCHANGED secrets
          /\ unsavedKeys' = (unsavedKeys \/ c \in newestKeys)
    /\ snap' = Set(snap, c, NoSnap) /\ keyed' = Set(keyed, c, FALSE) /\ Goto(c, "idle")
    /\ UNCHANGED <<mem, cluster, updates, disk, changes, newest, newestKeys, unsaved>>

\* A crash, and the start that follows it.
Restart ==
    /\ faults < MaxFaults /\ faults' = faults + 1
    /\ mem' = Seed(disk, secrets) /\ cluster' = disk.cluster /\ updates' = {}
    /\ step' = [c \in Clients |-> "idle"] /\ keyed' = [c \in Clients |-> FALSE]
    /\ snap' = [c \in Clients |-> NoSnap]
    /\ newest' = {} /\ newestKeys' = {} /\ unsaved' = FALSE /\ unsavedKeys' = FALSE
    /\ UNCHANGED <<disk, secrets, changes>>

-----------------------------------------------------------------------------
Next ==
    \/ \E c \in Clients :
          \/ \E p \in Places : AddFavorite(c, p) \/ RemoveFavorite(c, p) \/ RenameFavorite(c, p)
          \/ ClearHistory(c) \/ SaveSettings(c)
          \/ Persist(c) \/ Save(c) \/ PersistSecrets(c) \/ SaveSecrets(c)
    \/ \E v \in updates : UpdateCluster(v)
    \/ RecordHistory \/ PublishPort \/ Restart

Spec == Init /\ [][Next]_vars

-----------------------------------------------------------------------------
(* Properties.                                                             *)

Quiet == updates = {} /\ \A c \in Clients : step[c] = "idle"

\* Once the commands are done, whatever their order, a restart reads back what they
\* left in memory: favourites, their names, the options and the keys.  It is so
\* unless the save of the newest snapshot failed, or that of an older one came
\* after it: a snapshot is saved outside e.mu (engine_persistence.go:92-95).
QuietIsStored ==
    Quiet =>
        LET kept == Seed(disk, secrets) IN
        /\ unsaved \/ /\ kept.favs = mem.favs /\ kept.opt = mem.opt
                      /\ \A p \in Places : Has(p) => kept.name[p] = mem.name[p]
        /\ unsavedKeys \/ kept.key = mem.key

-----------------------------------------------------------------------------
(* What the sources say, and the code does not do.                         *)

\* persist saves "the current settings snapshot" (engine_persistence.go:84):
\* of two commands that overlap, the older snapshot may be saved last.
OverlapIsStored == Quiet /\ faults = 0 => disk.favs = mem.favs /\ disk.opt = mem.opt

\* "SaveSettings saves and applies configuration settings" (engine_settings.go:14):
\* the companion port is kept as the tunnel's, which the snapshot leaves out.
PortIsStored == Quiet /\ ~unsaved => disk.port = mem.port

\* The cluster's configuration is part of it: SaveSettings persists while the
\* goroutine it started has not applied the new one yet.
ClusterIsStored == Quiet /\ ~unsaved => disk.cluster = cluster

\* So is the recent history: adding to it saves nothing.
HistoryIsStored == Quiet /\ ~unsaved => disk.hist = mem.hist
=============================================================================
