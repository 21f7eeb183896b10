----------------------------- MODULE Snapshots -----------------------------
(***************************************************************************)
(* The snapshots of a volume: one snapshot identifier, the transactions it *)
(* is attempted with (volume/snapshot_operations.rs), the volume cloned    *)
(* from it (volume/clone_operations.rs), and the two garbage collectors,   *)
(* of snapshot specs and of the replica snapshots the nodes report.        *)
(*                                                                         *)
(* A replica snapshot is named <<incarnation, transaction, replica>>: on   *)
(* the pool its name is <snapshot id>/<transaction>, and the incarnation   *)
(* stands for the SnapshotId drawn anew for every replica snapshot.  A     *)
(* transaction without replica snapshots is one which is not recorded.     *)
(* Store writes succeed here (GuardedOps has their failures) and each      *)
(* replica is on a node of its own.                                        *)
(***************************************************************************)
EXTENDS Naturals, FiniteSets

CONSTANTS Reps,       \* the replicas of the source volume
          TxnLimit,   \* SNAPSHOT_MAX_TRANSACTION_LIMIT
          MaxTxn,     \* bound: attempts to create one incarnation
          MaxIncs,    \* bound: times the identifier is used
          MaxReqs,    \* bound: requests of the user
          MaxFaults,  \* bound: failed and late RPCs, nodes going down
          MaxCrashes  \* bound: restarts of the core agent

VARIABLES
  vol,      \* status of the source volume
  vsnaps,   \* its runtime list holds the snapshot
  mem,      \* the VolumeSnapshot in the registry
  store,    \* the VolumeSnapshot in the persistent store
  req,      \* incarnation a create request waits for the guard of, 0: none
  act,      \* the operation which holds the snapshot's guard
  disk,     \* replica snapshots on the pools
  late,     \* create RPCs given up by the core agent, still to be executed
  born,     \* replica snapshots created that late
  alive,    \* replicas whose node answers
  clone,    \* status of the volume restored from the snapshot
  cheld,    \* its guard is held by a destroy request
  restores, \* the snapshot's runtime list holds it
  incs, sreqs, sfaults, crashes

snapVars == <<vol, vsnaps, mem, store, req, act, disk, late, born, alive,
              clone, cheld, restores, incs, sreqs, sfaults, crashes>>

Txns == 1..MaxTxn
NoTxns == [t \in Txns |-> {}]
NoSnap == [inc |-> 0, st |-> "none", txn |-> 0, txns |-> NoTxns]
NoAct == [kind |-> "idle", pc |-> "idle", todo |-> {}, gone |-> {}]

TypeOK ==
  /\ vol \in {"Created", "Deleting", "gone"} /\ vsnaps \in BOOLEAN
  /\ {mem, store} \subseteq
       [inc : 0..MaxIncs, st : {"none", "Creating", "Created", "Deleting"},
        txn : 0..MaxTxn, txns : [Txns -> SUBSET Reps]]
  /\ act.todo \cup act.gone \subseteq Txns \X Reps
  /\ disk \cup late \cup born \subseteq (1..MaxIncs) \X Txns \X Reps
  /\ clone \in {"none", "Creating", "Created", "Deleting"}
  /\ alive \subseteq Reps /\ cheld \in BOOLEAN /\ restores \in BOOLEAN

Init ==
  /\ vol = "Created" /\ vsnaps = FALSE /\ mem = NoSnap /\ store = NoSnap
  /\ req = 0 /\ act = NoAct /\ disk = {} /\ late = {} /\ born = {} /\ alive = Reps
  /\ clone = "none" /\ cheld = FALSE /\ restores = FALSE
  /\ incs = 0 /\ sreqs = 0 /\ sfaults = 0 /\ crashes = 0

-----------------------------------------------------------------------------
(* The transactions of a snapshot                                          *)

Recorded(s) == {t \in Txns : s.txns[t] # {}}
MutStale(s) == Recorded(s)
Stale(s) == Recorded(s) \ {s.txn}
SnapsOf(s, ts) == {<<t, r>> \in ts \X Reps : r \in s.txns[t]}
OnDisk(s, x) == <<s.inc, x[1], x[2]>>
Without(s, gone) == [s EXCEPT !.txns = [t \in Txns |-> {r \in @[t] : <<t, r>> \notin gone}]]

\* prune is allowed while Creating with a transaction, or Created with more
\* than one, when the node of a stale replica snapshot is online.
Prunable(s) ==
  /\ s.st \in {"Creating", "Created"}
  /\ Cardinality(Recorded(s)) > (IF s.st = "Created" THEN 1 ELSE 0)
  /\ \E x \in SnapsOf(s, Stale(s)) : x[2] \in alive

\* take(max_prune_limit): so many of the stale transactions, in the arbitrary
\* order of the hash map.
PruneChoices(s, limit) ==
  {ts \in SUBSET Stale(s) :
     Cardinality(ts) = IF limit < Cardinality(Stale(s)) THEN limit ELSE Cardinality(Stale(s))}

\* SNAPSHOT_TRANSACTION_PRUNE_LIMIT: ten, more than the transactions here.
GcPruneLimit == 10

\* The volume's guard is held while the snapshot is created or destroyed
\* through its volume.
VolumeHeld == req # 0 \/ act.kind \in {"create", "destroy", "voldel"}

\* operation_guard_mode_wait: whether the guard was had.  Five attempts are made
\* while it is held, then the caller gets a Conflict.
GuardWait(free) == {free}

SweepAct(kind, pc, s, ts) == [NoAct EXCEPT !.kind = kind, !.pc = pc, !.todo = SnapsOf(s, ts)]

-----------------------------------------------------------------------------
(* Creating a snapshot                                                     *)

\* create_snap up to get_or_create_snapshot: every replica is healthy, the
\* spec is put in the registry before its guard is taken.
CreateRequest ==
  /\ sreqs < MaxReqs /\ vol = "Created" /\ ~VolumeHeld
  /\ alive = Reps /\ mem.txn < MaxTxn
  /\ IF mem.st = "none"
     THEN /\ incs < MaxIncs /\ incs' = incs + 1
          /\ mem' = [NoSnap EXCEPT !.inc = incs + 1, !.st = "Creating"]
     ELSE UNCHANGED <<incs, mem>>
  /\ req' = mem'.inc /\ sreqs' = sreqs + 1
  /\ UNCHANGED <<vol, vsnaps, store, act, disk, late, born, alive, clone, cheld,
                 restores, sfaults, crashes>>

\* The guard is taken.  The spec may have been deleted meanwhile: then, and when
\* it is not Creating or has too many transactions, the request fails.
CreateLock ==
  /\ req # 0 /\ TRUE \in GuardWait(act = NoAct) /\ req' = 0
  /\ IF mem.inc # req \/ mem.st # "Creating" \/ Cardinality(Recorded(mem)) > TxnLimit
     THEN UNCHANGED act
     ELSE IF Prunable(mem)
     THEN \E ts \in PruneChoices(mem, 1) : act' = SweepAct("create", "prune", mem, ts)
     ELSE act' = [NoAct EXCEPT !.kind = "create", !.pc = "log"]
  /\ UNCHANGED <<vol, vsnaps, mem, store, disk, late, born, alive, clone, cheld,
                 restores, incs, sreqs, sfaults, crashes>>

\* The guard is not had and the request refused.
CreateGiveUp ==
  /\ req # 0 /\ FALSE \in GuardWait(act = NoAct) /\ req' = 0
  /\ UNCHANGED <<vol, vsnaps, mem, store, act, disk, late, born, alive, clone, cheld,
                 restores, incs, sreqs, sfaults, crashes>>

\* start_create_update: the new transaction and its replica snapshots are
\* logged before any of them is created.
CreateLog ==
  /\ act.kind = "create" /\ act.pc = "log"
  /\ mem' = [mem EXCEPT !.txn = @ + 1, !.txns[mem.txn + 1] = Reps]
  /\ store' = mem'
  /\ \E path \in {"nexus", "replica"} :
       act' = [act EXCEPT !.pc = path, !.todo = {mem.txn + 1} \X Reps]
  /\ UNCHANGED <<vol, vsnaps, req, disk, late, born, alive, clone, cheld,
                 restores, incs, sreqs, sfaults, crashes>>

\* Any error leads to undo_transaction.
Undo == SweepAct("create", "undo", mem, {mem.txn})
Taken == [NoAct EXCEPT !.kind = "create", !.pc = "done"]

Fault == sfaults < MaxFaults /\ sfaults' = sfaults + 1

\* snapshot_nexus: one request for all the replicas.  A replica skipped or
\* failed, a lost answer and a failed fetch are all errors.
TakeNexus ==
  /\ act.pc = "nexus"
  /\ \/ /\ alive = Reps /\ act' = Taken
        /\ disk' = disk \cup {OnDisk(mem, x) : x \in act.todo}
        /\ UNCHANGED <<late, sfaults>>
     \/ \E done, later \in SUBSET {x \in act.todo : x[2] \in alive} :
          /\ Fault /\ done \cap later = {} /\ act' = Undo
          /\ disk' = disk \cup {OnDisk(mem, x) : x \in done}
          /\ late' = late \cup {OnDisk(mem, x) : x \in later}
     \/ alive # Reps /\ act' = Undo /\ UNCHANGED <<disk, late, sfaults>>
  /\ UNCHANGED <<vol, vsnaps, mem, store, req, born, alive, clone, cheld,
                 restores, incs, sreqs, crashes>>

\* snapshot_replica: one request per replica, the first error ends it.
TakeReplica ==
  /\ act.pc = "replica"
  /\ \E x \in act.todo :
       \/ /\ x[2] \in alive /\ disk' = disk \cup {OnDisk(mem, x)}
          /\ act' = IF act.todo = {x} THEN Taken ELSE [act EXCEPT !.todo = @ \ {x}]
          /\ UNCHANGED <<late, sfaults>>
       \/ /\ x[2] \in alive /\ Fault /\ act' = Undo
          /\ \/ disk' = disk \cup {OnDisk(mem, x)} /\ UNCHANGED late
             \/ late' = late \cup {OnDisk(mem, x)} /\ UNCHANGED disk
       \/ x[2] \notin alive /\ act' = Undo /\ UNCHANGED <<disk, late, sfaults>>
  /\ UNCHANGED <<vol, vsnaps, mem, store, req, born, alive, clone, cheld,
                 restores, incs, sreqs, crashes>>

\* complete_create of a success, then complete_update of the volume.
CreateDone ==
  /\ act.pc = "done" /\ act' = NoAct
  /\ mem' = [mem EXCEPT !.st = "Created"] /\ store' = mem' /\ vsnaps' = TRUE
  /\ UNCHANGED <<vol, req, disk, late, born, alive, clone, cheld,
                 restores, incs, sreqs, sfaults, crashes>>

-----------------------------------------------------------------------------
(* Destroying replica snapshots: prune, undo and destroy                   *)

\* destroy_replica_snapshot: an answer or NotFound is a success, anything else
\* keeps the replica snapshot recorded.
Sweep(x) ==
  /\ act.pc \in {"prune", "undo", "sweep"} /\ x \in act.todo
  /\ \/ /\ x[2] \in alive /\ disk' = disk \ {OnDisk(mem, x)}
        /\ act' = [act EXCEPT !.todo = @ \ {x}, !.gone = @ \cup {x}]
        /\ UNCHANGED sfaults
     \/ /\ x[2] \in alive /\ Fault /\ disk' \in {disk, disk \ {OnDisk(mem, x)}}
        /\ act' = [act EXCEPT !.todo = @ \ {x}]
     \/ /\ x[2] \notin alive /\ act' = [act EXCEPT !.todo = @ \ {x}]
        /\ UNCHANGED <<disk, sfaults>>
  /\ UNCHANGED <<vol, vsnaps, mem, store, req, late, born, alive, clone, cheld,
                 restores, incs, sreqs, crashes>>

\* undo_transaction and complete_create of a failure (LeaveAsIs): clear_op drops
\* the transaction, or keeps what could not be destroyed.
UndoDone ==
  /\ act.pc = "undo" /\ act.todo = {} /\ act' = NoAct
  /\ mem' = Without(mem, act.gone) /\ store' = mem'
  /\ UNCHANGED <<vol, vsnaps, req, disk, late, born, alive, clone, cheld,
                 restores, incs, sreqs, sfaults, crashes>>

\* start_destroy
Deleting(s) == [s EXCEPT !.st = "Deleting"]

\* prune's end: set_stale_transactions.  A create goes on; the garbage collector
\* then destroys a Creating snapshot which has no transactions.
PruneDone ==
  /\ act.pc = "prune" /\ act.todo = {}
  /\ LET s == Without(mem, act.gone) IN
     IF act.kind = "create"
     THEN mem' = s /\ act' = [NoAct EXCEPT !.kind = "create", !.pc = "log"]
     ELSE IF s.st = "Creating" /\ Recorded(s) = {}
     THEN mem' = Deleting(s) /\ act' = [NoAct EXCEPT !.kind = "gc", !.pc = "sweep"]
     ELSE mem' = s /\ act' = NoAct
  /\ store' = mem'
  /\ UNCHANGED <<vol, vsnaps, req, disk, late, born, alive, clone, cheld,
                 restores, incs, sreqs, sfaults, crashes>>

\* The end of destroy: the spec is deleted, or keeps what is left.  Only the
\* request of a user goes through the volume and updates its list.
DestroyDone ==
  /\ act.pc = "sweep" /\ act.todo = {} /\ act' = NoAct
  /\ IF Recorded(Without(mem, act.gone)) = {}
     THEN /\ mem' = NoSnap /\ store' = NoSnap /\ restores' = FALSE
          /\ vsnaps' = (act.kind # "destroy" /\ vsnaps)
     ELSE /\ mem' = Without(mem, act.gone) /\ store' = mem'
          /\ UNCHANGED <<restores, vsnaps>>
  /\ UNCHANGED <<vol, req, disk, late, born, alive, clone, cheld,
                 incs, sreqs, sfaults, crashes>>

StartDestroy(kind) ==
  /\ act = NoAct /\ mem.st # "none"
  /\ mem' = Deleting(mem) /\ store' = mem'
  /\ act' = SweepAct(kind, "sweep", mem, Recorded(mem))

\* destroy_snapshot of the service: through the volume, or without it when the
\* volume is gone.
DestroyRequest ==
  /\ sreqs < MaxReqs /\ sreqs' = sreqs + 1
  /\ vol # "Deleting" /\ ~VolumeHeld /\ StartDestroy("destroy")
  /\ UNCHANGED <<vol, vsnaps, req, disk, late, born, alive, clone, cheld,
                 restores, incs, sfaults, crashes>>

-----------------------------------------------------------------------------
(* The end of the source volume                                            *)

\* destroy of the volume, which is first marked Deleting.
DestroyVolume ==
  /\ sreqs < MaxReqs /\ vol = "Created" /\ ~VolumeHeld
  /\ vol' = "Deleting" /\ sreqs' = sreqs + 1
  /\ UNCHANGED <<vsnaps, mem, store, req, act, disk, late, born, alive, clone, cheld,
                 restores, incs, sfaults, crashes>>

\* It destroys its snapshot which is still being created.
DestroyCreating ==
  /\ vol = "Deleting" /\ mem.st = "Creating" /\ StartDestroy("voldel")
  /\ UNCHANGED <<vol, vsnaps, req, disk, late, born, alive, clone, cheld,
                 restores, incs, sreqs, sfaults, crashes>>

\* Then it is deleted, also when the snapshot's guard was not to be had.
VolumeDeleted ==
  /\ vol = "Deleting" /\ act.kind # "voldel"
  /\ mem.st # "Creating" \/ act # NoAct
  /\ vol' = "gone" /\ vsnaps' = FALSE
  /\ UNCHANGED <<mem, store, req, act, disk, late, born, alive, clone, cheld,
                 restores, incs, sreqs, sfaults, crashes>>

-----------------------------------------------------------------------------
(* The garbage collectors                                                  *)

\* garbage_collect of a snapshot: a Deleting one, and a Creating one whose volume
\* is gone or which has no transactions, is destroyed; else it is pruned.
GcSnapshot ==
  /\ \/ /\ mem.st = "Deleting" \/ (mem.st = "Creating" /\ vol = "gone")
        /\ StartDestroy("gc")
     \/ /\ act = NoAct /\ mem.st \in {"Creating", "Created"} /\ Prunable(mem)
        /\ ~(mem.st = "Creating" /\ vol = "gone")
        /\ \E ts \in PruneChoices(mem, GcPruneLimit) : act' = SweepAct("gc", "prune", mem, ts)
        /\ UNCHANGED <<mem, store>>
     \/ /\ mem.st = "Creating" /\ vol # "gone" /\ Recorded(mem) = {}
        /\ StartDestroy("gc")
  /\ UNCHANGED <<vol, vsnaps, req, disk, late, born, alive, clone, cheld,
                 restores, incs, sreqs, sfaults, crashes>>

\* delete_unknown_volume_snapshot_reconciler: a reported replica snapshot whose
\* transaction the snapshot does not record, or whose snapshot is not known.
MutUnknown(x) == mem.st = "none" \/ (act = NoAct /\ mem.txn # x[2] /\ mem.st # "Creating")
Unknown(x) == mem.st = "none" \/ (act = NoAct /\ x[2] \notin Recorded(mem))
GcNode(x) ==
  /\ x \in disk /\ x[3] \in alive /\ Unknown(x) /\ disk' = disk \ {x}
  /\ UNCHANGED <<vol, vsnaps, mem, store, req, act, late, born, alive, clone, cheld,
                 restores, incs, sreqs, sfaults, crashes>>

-----------------------------------------------------------------------------
(* Clones                                                                  *)

\* create_clone: the snapshot's guard is taken first, then that of the new volume.
CloneRequest ==
  /\ sreqs < MaxReqs /\ sreqs' = sreqs + 1
  /\ act = NoAct /\ mem.st = "Created" /\ act' = [NoAct EXCEPT !.kind = "clone", !.pc = "guard"]
  /\ UNCHANGED <<vol, vsnaps, mem, store, req, disk, late, born, alive, clone, cheld,
                 restores, incs, sfaults, crashes>>

\* create_ext: it fails when the volume's guard stays taken or the volume exists.
CloneGuard ==
  /\ act.pc = "guard"
  /\ \E got \in GuardWait(~cheld) :
     IF got /\ clone = "none"
     THEN clone' = "Creating" /\ act' = [act EXCEPT !.pc = "replicas"]
     ELSE act' = NoAct /\ UNCHANGED clone
  /\ UNCHANGED <<vol, vsnaps, mem, store, req, disk, late, born, alive, cheld,
                 restores, incs, sreqs, sfaults, crashes>>

\* One clone per replica snapshot whose node answers, else the new volume is
\* deleted; its replicas are left to the replica garbage collector.
CloneDone ==
  /\ act.pc = "replicas" /\ act' = NoAct
  /\ \/ /\ Reps \subseteq alive /\ clone' = "Created" /\ restores' = TRUE
        /\ UNCHANGED sfaults
     \/ /\ IF Reps \subseteq alive THEN Fault ELSE UNCHANGED sfaults
        /\ clone' = "none" /\ UNCHANGED restores
  /\ UNCHANGED <<vol, vsnaps, mem, store, req, disk, late, born, alive, cheld,
                 incs, sreqs, crashes>>

\* destroy_volume of a clone: the volume's guard is taken first.
UncloneRequest ==
  /\ sreqs < MaxReqs /\ sreqs' = sreqs + 1
  /\ clone = "Created" /\ ~cheld /\ cheld' = TRUE
  /\ UNCHANGED <<vol, vsnaps, mem, store, req, act, disk, late, born, alive, clone,
                 restores, incs, sfaults, crashes>>

\* Then the snapshot's, if there is one.  A snapshot which is not Created, or
\* whose guard stays taken, fails the request.
UncloneGuard ==
  /\ cheld /\ act.kind # "unclone"
  /\ IF mem.st = "none"
     THEN clone' = "none" /\ cheld' = FALSE /\ UNCHANGED act
     ELSE \E got \in GuardWait(act = NoAct) :
       IF got /\ mem.st = "Created"
       THEN /\ act' = [NoAct EXCEPT !.kind = "unclone", !.pc = "volume"]
            /\ clone' = "Deleting" /\ UNCHANGED cheld
       ELSE cheld' = FALSE /\ UNCHANGED <<act, clone>>
  /\ UNCHANGED <<vol, vsnaps, mem, store, req, disk, late, born, alive,
                 restores, incs, sreqs, sfaults, crashes>>

UncloneDone ==
  /\ act.kind = "unclone" /\ act' = NoAct
  /\ clone' = "none" /\ cheld' = FALSE /\ restores' = FALSE
  /\ UNCHANGED <<vol, vsnaps, mem, store, req, disk, late, born, alive,
                 incs, sreqs, sfaults, crashes>>

\* The volume garbage collector, after a restart, does not go through the snapshot.
GcClone ==
  /\ clone = "Deleting" /\ ~cheld /\ clone' = "none"
  /\ UNCHANGED <<vol, vsnaps, mem, store, req, act, disk, late, born, alive, cheld,
                 restores, incs, sreqs, sfaults, crashes>>

-----------------------------------------------------------------------------
(* Faults                                                                  *)

\* A restart: the specs are loaded, incomplete operations are cleared, and the
\* runtime lists built from the specs there are.
Crash ==
  /\ crashes < MaxCrashes /\ crashes' = crashes + 1
  /\ mem' = store /\ act' = NoAct /\ req' = 0 /\ cheld' = FALSE
  /\ vsnaps' = (store.st # "none" /\ vol # "gone")
  /\ clone' = IF clone = "Creating" THEN "Deleting" ELSE clone
  /\ restores' = (clone # "none" /\ store.st # "none")
  /\ UNCHANGED <<vol, store, disk, late, born, alive, incs, sreqs, sfaults>>

\* A create RPC which the core agent gave up on is executed after all, or not.
LateCreate(x) ==
  /\ x \in late /\ late' = late \ {x}
  /\ \/ disk' = disk \cup {x} /\ born' = born \cup {x}
     \/ UNCHANGED <<disk, born>>
  /\ UNCHANGED <<vol, vsnaps, mem, store, req, act, alive, clone, cheld,
                 restores, incs, sreqs, sfaults, crashes>>

Down(r) ==
  /\ r \in alive /\ Fault /\ alive' = alive \ {r}
  /\ UNCHANGED <<vol, vsnaps, mem, store, req, act, disk, late, born, clone, cheld,
                 restores, incs, sreqs, crashes>>

Up(r) ==
  /\ r \notin alive /\ alive' = alive \cup {r}
  /\ UNCHANGED <<vol, vsnaps, mem, store, req, act, disk, late, born, clone, cheld,
                 restores, incs, sreqs, sfaults, crashes>>

CreateStep == CreateLock \/ CreateGiveUp \/ CreateLog \/ TakeNexus \/ TakeReplica \/ CreateDone
SweepStep == (\E x \in act.todo : Sweep(x)) \/ UndoDone \/ PruneDone \/ DestroyDone
VolumeStep == DestroyCreating \/ VolumeDeleted
CloneStep == CloneGuard \/ CloneDone \/ UncloneGuard \/ UncloneDone \/ GcClone
Collect == GcSnapshot \/ \E x \in disk : GcNode(x)

Next ==
  \/ CreateRequest \/ CreateStep \/ SweepStep
  \/ DestroyRequest \/ DestroyVolume \/ VolumeStep \/ Collect
  \/ CloneRequest \/ UncloneRequest \/ CloneStep
  \/ Crash \/ (\E x \in late : LateCreate(x)) \/ \E r \in Reps : Down(r) \/ Up(r)

Spec == Init /\ [][Next]_snapVars

\* The tasks of the core agent run, its reconcilers poll, nodes come back and
\* an RPC is executed or dropped in the end.
Fairness ==
  /\ WF_snapVars(CreateStep) /\ WF_snapVars(SweepStep) /\ WF_snapVars(VolumeStep)
  /\ WF_snapVars(CloneStep)
  /\ SF_snapVars(GcSnapshot)
  /\ \A x \in (1..MaxIncs) \X Txns \X Reps : SF_snapVars(GcNode(x)) /\ WF_snapVars(LateCreate(x))
  /\ \A r \in Reps : WF_snapVars(Up(r))

FairSpec == Spec /\ Fairness

-----------------------------------------------------------------------------
(* Properties                                                              *)

\* The replica snapshots of a snapshot which has been created exist, all of
\* them and of the transaction it was created with, whatever prune, an undo,
\* the node garbage collector and a restart did (snapshot_operations.rs,
\* reconciler/node/snapshot.rs).
CreatedIsWhole ==
  store.st = "Created" => \A r \in Reps : <<store.inc, store.txn, r>> \in disk

\* A replica snapshot on a pool is recorded in the persistent store, in a
\* transaction of its snapshot, unless the io-engine created it after the core
\* agent had given up on the request: create logs the transaction first, undo,
\* prune and destroy forget only what is destroyed.
RecordedFirst ==
  \A x \in disk \ born : x[1] = store.inc /\ x[3] \in store.txns[x[2]]

\* Whatever is no longer recorded is reclaimed in the end, a late replica
\* snapshot included, and no snapshot stays Deleting.
SnapsReclaimed ==
  <>[](/\ mem.st # "Deleting"
       /\ \A x \in disk : mem.st # "none" /\ x[2] \in Recorded(mem))

\* Operations which take the guards of a snapshot and of its clone, in either
\* order, end and give them back (operation_guard_wait is bounded).
GuardsReleased == []<>(act = NoAct /\ ~cheld)

\* Not so: SNAPSHOT_MAX_TRANSACTION_LIMIT, the "Maximum number of snapshot
\* transactions allowed", is exceeded by one (the test is > where >= is meant).
TransactionsLimited == Cardinality(Recorded(mem)) <= TxnLimit

\* Not so: the volume's runtime list keeps a snapshot whose destruction the
\* garbage collector finished without the volume's guard, until a restart.
ListIsExact == (act = NoAct /\ vsnaps) => mem.st # "none"

\* Not so: the same for a clone which a restart left to the garbage collector.
RestoresAreExact == (act = NoAct /\ restores) => clone # "none"
=============================================================================
