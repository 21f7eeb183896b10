---------------------------- MODULE VolumeTarget ----------------------------
(***************************************************************************)
(* One volume, its nexuses (targets) and the data behind them: publish,    *)
(* unpublish and republish of volume/operations.rs, the nexus operations   *)
(* they call, the reconcilers which recreate, re-shutdown and collect      *)
(* nexuses, and the persisted NexusInfo through which the control plane    *)
(* and a possibly partitioned io-engine agree on which replicas hold the   *)
(* acknowledged data.                                                      *)
(*                                                                         *)
(* A replica's content is the number of the last write it holds.  The code  *)
(* draws a new NexusId for every target; the model reuses an id once no    *)
(* trace of it is left.  The io-engine, the kernel initiator and the       *)
(* network are external, modelled from how the control plane uses them.    *)
(***************************************************************************)
EXTENDS Naturals

CONSTANTS Nodes,      \* io-engine nodes
          Replicas,   \* the replicas of the volume
          Home,       \* the node of each replica's pool
          MaxNexus,   \* bound: nexuses of the volume at any one time
          MaxWrites,  \* bound: writes of the frontend
          MaxFaults,  \* bound: node and link faults, restarts of the core agent
          MaxOps      \* bound: publish, republish and unpublish requests

VARIABLES
  vol,     \* VolumeSpec: target_config (0: none), active?, operation left pending?
  nspec,   \* NexusSpec per nexus: status, node, children, NexusStatusInfo
  op,      \* the volume operation holding the volume's operation guard
  info,    \* NexusInfo in etcd: exists?, revised since read?, healthy children, flags
  engine,  \* the nexus inside the io-engine: healthy and rebuilding children, the
           \* replicas it holds the NVMe reservation of, the write in flight
  data,    \* the last write each replica holds
  acked,   \* the last write acknowledged to the frontend
  paths,   \* nexuses the frontend is connected to
  up,      \* nodes running
  link,    \* nodes the control plane can reach
  seen,    \* nodes which are Online in the registry
  faults, ops

vars == <<vol, nspec, op, info, engine, data, acked, paths,
          up, link, seen, faults, ops>>

Ids == 1..MaxNexus
Idle == [kind |-> "idle"]
NoSpec == [st |-> "none", node |-> "none", kids |-> {},
           failed |-> FALSE, again |-> FALSE]
NoInfo == [has |-> FALSE, rev |-> FALSE, ok |-> {}, clean |-> FALSE, stop |-> FALSE]
Absent == [run |-> "absent", kids |-> {}, reb |-> {}, res |-> {}, infl |-> 0]

\* The operations on the volume: a request for a new target, or to let the target go.
Publishing == {"publish", "republish"}
PublishOps ==
  [kind : Publishing,
   pc : {"shutdown", "read", "pick", "create", "cas", "share", "drop", "complete", "forget"},
   nx : Ids, node : Nodes, old : 0..MaxNexus, has : BOOLEAN, confirm : BOOLEAN]
UnpublishOps ==
  [kind : {"unpublish"}, pc : {"destroy"}, old : Ids, nx : Ids, confirm : BOOLEAN]

NexusSpecs == [st : {"none", "Creating", "Created", "Shutdown", "Deleting"},
               node : Nodes \cup {"none"}, kids : SUBSET Replicas,
               failed : BOOLEAN, again : BOOLEAN]
NexusInfos == [has : BOOLEAN, rev : BOOLEAN, ok : SUBSET Replicas, clean : BOOLEAN, stop : BOOLEAN]
Engines == [run : {"absent", "open", "shared", "down"}, kids : SUBSET Replicas,
            reb : SUBSET Replicas, res : SUBSET Replicas, infl : 0..MaxWrites]

TypeOK ==
  /\ vol \in [target : 0..MaxNexus, active : BOOLEAN, pend : BOOLEAN]
  /\ nspec \in [Ids -> NexusSpecs] /\ info \in [Ids -> NexusInfos] /\ engine \in [Ids -> Engines]
  /\ op \in {Idle} \cup PublishOps \cup UnpublishOps
  /\ acked \in 0..MaxWrites
  /\ data \in [Replicas -> 0..MaxWrites]
  /\ paths \subseteq Ids /\ up \subseteq Nodes /\ link \subseteq Nodes /\ seen \subseteq Nodes

Init ==
  /\ vol = [target |-> 0, active |-> FALSE, pend |-> FALSE]
  /\ nspec = [i \in Ids |-> NoSpec] /\ op = Idle
  /\ info = [i \in Ids |-> NoInfo] /\ engine = [i \in Ids |-> Absent]
  /\ data = [r \in Replicas |-> 0]
  /\ acked = 0 /\ paths = {} /\ up = Nodes /\ link = Nodes /\ seen = Nodes
  /\ faults = 0 /\ ops = 0

-----------------------------------------------------------------------------
(* The io-engine's side of the RPCs                                        *)

Reach(n) == n \in up \cap link

\* A request to a reachable node is executed; its answer may be lost.
Outcomes(n) == IF Reach(n) THEN {"ok", "lost"} ELSE {"fail"}

\* A nexus which takes children reserves the remote ones, preempting the
\* holder; a replica local to it was unshared, which cuts every other nexus off.
Taken(i, kids, n, e) ==
  [j \in Ids |-> IF j = i THEN [e[i] EXCEPT !.res = @ \cup {r \in kids : Home[r] # n}]
                 ELSE [e[j] EXCEPT !.res = @ \ kids]]

\* A nexus which opens records all its children as healthy in its NexusInfo.
Opened(i, kids, n, e) ==
  Taken(i, kids, n, [e EXCEPT ![i] = [Absent EXCEPT !.run = "open", !.kids = kids]])
OpenedInfo(kids) == [has |-> TRUE, rev |-> TRUE, ok |-> kids, clean |-> FALSE, stop |-> FALSE]

\* A nexus which stops in order records the clean shutdown, if it has a record.
Cleanly(i) == [info[i] EXCEPT !.clean = @ \/ (info[i].has /\ engine[i].run \in {"open", "shared"}),
                              !.rev = TRUE]

\* Once the spec is gone its NexusInfo is only ever read as the health of the
\* volume; another one is garbage in etcd, which the model drops.
Ended(i) == IF i = vol.target THEN Cleanly(i) ELSE NoInfo

\* The nexus of the volume already on that node, if any: the io-engine refuses
\* two nexuses with one name.
Existing(i) == {j \in Ids \ {i} : engine[j].run # "absent" /\ nspec[j].node = nspec[i].node}

\* A child can be written through a nexus if its node runs and it is either
\* local or reserved by that very nexus.
Writable(i, r) ==
  Home[r] \in up /\ (Home[r] = nspec[i].node \/ r \in engine[i].res)

-----------------------------------------------------------------------------
(* Selecting the children of a target                                      *)

\* ReplicaFilters::reservable: a replica local to a nexus whose shutdown failed
\* cannot be fenced.  volume_failed_shutdown_nexuses picks those nexuses.
MutReservable(r) == TRUE
Reservable(r) ==
  ~ \E i \in Ids : /\ nspec[i].st = "Shutdown" /\ nspec[i].failed /\ ~nspec[i].again
                   /\ nspec[i].node = Home[r] /\ r \in nspec[i].kids

\* ChildInfoFilters::healthy, ReplicaFilters::online and ::reservable; h is the
\* nexus whose NexusInfo tells the health (0: never published).
Candidates(h) ==
  {r \in Replicas : /\ h = 0 \/ ~info[h].has \/ r \in info[h].ok
                    /\ Home[r] \in seen
                    /\ Reservable(r)}

\* make_replica_accessible needs the replica's node to answer.
Accessible(h) == {r \in Candidates(h) : Reach(Home[r])}

\* HealthyChildItems: after an unclean shutdown only one child, the local one
\* preferred (sort_by_locality), otherwise all.
ChildChoices(h, n) ==
  LET all   == Accessible(h)
      local == {r \in all : Home[r] = n}
  IN IF h # 0 /\ info[h].has /\ ~info[h].clean
       THEN {{r} : r \in IF local = {} THEN all ELSE local}
       ELSE {all} \ {{}}

\* make_replica_accessible unshares a replica local to the nexus, which cuts
\* off any nexus using it remotely, and shares a remote one.
MakeAccessible(kids, n) ==
  [j \in Ids |-> [engine[j] EXCEPT !.res = @ \ {r \in kids : Home[r] = n}]]

-----------------------------------------------------------------------------
(* publish, republish and unpublish: the operation holds the volume guard  *)

\* The operation ends without committing (validate_update_step, complete_update
\* with an error): the volume keeps its configuration.
Undo == op' = Idle /\ UNCHANGED vol

\* next_target_config draws a new NexusId.
Fresh == {i \in Ids : nspec[i].st = "none" /\ i # vol.target /\ i \notin paths}
NewId == CHOOSE i \in Fresh : TRUE

\* publish: next_target_node refuses a published volume and an offline node.
PublishStart(n) ==
  /\ ops < MaxOps /\ ops' = ops + 1
  /\ op = Idle /\ ~vol.pend /\ ~vol.active /\ n \in seen
  /\ Fresh # {}
  /\ op' = [kind |-> "publish", pc |-> "pick", nx |-> NewId, node |-> n,
              old |-> vol.target, has |-> FALSE, confirm |-> FALSE]
  /\ UNCHANGED <<vol, nspec, info, engine, data, acked, paths, up, link, seen, faults>>

\* republish: only a published volume whose nexus spec exists.  The health of
\* the replicas may be unreadable (confirm), which is fatal unless the older
\* nexus is already shut down.
RepublishStart(n, confirm) ==
  /\ ops < MaxOps /\ ops' = ops + 1
  /\ op = Idle /\ ~vol.pend /\ vol.active /\ n \in seen
  /\ nspec[vol.target].st \in {"Created", "Shutdown", "Deleting"}
  /\ confirm => nspec[vol.target].st = "Shutdown"
  /\ Fresh # {}
  /\ op' = [kind |-> "republish", pc |-> "shutdown", nx |-> NewId, node |-> n,
              old |-> vol.target, has |-> FALSE, confirm |-> confirm]
  /\ UNCHANGED <<vol, nspec, info, engine, data, acked, paths, up, link, seen, faults>>

\* The nexus shutdown request itself: a missing nexus is not a failure, an
\* unreachable node or a lost answer is; the spec becomes Shutdown regardless.
ShutdownNexus(i) ==
  LET n == nspec[i].node IN
  \E res \in Outcomes(n), persist \in BOOLEAN :
    /\ engine[i].infl = 0 \/ res = "fail"
    /\ nspec' = [nspec EXCEPT ![i].st = "Shutdown", ![i].again = FALSE,
                              ![i].failed = res # "ok"]
    /\ IF res = "fail" \/ engine[i].run = "absent"
         THEN UNCHANGED <<engine, info>>
         ELSE /\ engine' = [engine EXCEPT ![i] = [Absent EXCEPT !.run = "down"]]
              /\ info' = IF persist THEN [info EXCEPT ![i] = Cleanly(i)] ELSE info

\* shutdown: a nexus already shut down is left alone (noting that the engine
\* confirms it) unless its state is unknown and we must confirm.  A nexus which
\* is being deleted refuses the update and the republish is undone.
RepublishShutdown ==
  LET i == op.old IN
  /\ op.kind = "republish" /\ op.pc = "shutdown"
  /\ CASE nspec[i].st = "Deleting" -> Undo /\ UNCHANGED <<nspec, engine, info>>
       [] /\ nspec[i].st = "Shutdown"
          /\ engine[i].run # "absent" \/ ~op.confirm ->
            /\ nspec' = [nspec EXCEPT ![i].again = @ \/ engine[i].run = "down"]
            /\ op' = [op EXCEPT !.pc = "read"] /\ UNCHANGED <<vol, engine, info>>
       [] OTHER ->
            /\ ShutdownNexus(i)
            /\ op' = [op EXCEPT !.pc = "read"] /\ UNCHANGED vol
  /\ UNCHANGED <<data, acked, paths, up, link, seen, faults, ops>>

\* The NexusInfo of the older nexus and its mod_revision are read before the
\* new nexus is created; a store error undoes the operation.
RepublishReadInfo ==
  /\ op.kind = "republish" /\ op.pc = "read"
  /\ \/ /\ op' = [op EXCEPT !.pc = "pick", !.has = info[op.old].has]
        /\ info' = [info EXCEPT ![op.old].rev = FALSE]
        /\ UNCHANGED vol
     \/ Undo /\ UNCHANGED info
  /\ UNCHANGED <<nspec, engine, data, acked, paths, up, link, seen, faults, ops>>

\* create_nexus, first half: pick the children, make them accessible and
\* persist the Creating spec.
CreatePick ==
  /\ op.kind \in {"publish", "republish"} /\ op.pc = "pick"
  /\ \/ /\ ChildChoices(vol.target, op.node) = {} /\ Undo /\ UNCHANGED <<nspec, engine>>
     \/ \E kids \in ChildChoices(vol.target, op.node) :
          /\ engine' = MakeAccessible(kids, op.node)
          /\ nspec' = [nspec EXCEPT ![op.nx] = [NoSpec EXCEPT !.st = "Creating",
                                                 !.node = op.node, !.kids = kids]]
          /\ op' = [op EXCEPT !.pc = "create"] /\ UNCHANGED vol
  /\ UNCHANGED <<info, data, acked, paths, up, link, seen, faults, ops>>

\* The create request.  If the volume has another nexus on that node it is
\* destroyed first, but only when its spec is being deleted.
\* A failure leaves the spec Deleting (OnCreateFail::SetDeleting).
CreateRpc ==
  LET i == op.nx
      blockers == Existing(i)
      removable == \A j \in blockers : nspec[j].st = "Deleting" /\ engine[j].infl = 0
      possible == Reach(op.node) /\ removable /\ \A r \in nspec[i].kids : Home[r] \in up
  IN
  /\ op.kind \in {"publish", "republish"} /\ op.pc = "create"
  /\ \/ \E res \in {"ok", "lost"} :
          /\ possible
          /\ LET kids == nspec[i].kids IN
             /\ engine' = Opened(i, kids, op.node, [j \in Ids |-> IF j \in blockers THEN Absent
                                                                  ELSE engine[j]])
             /\ info' = [j \in Ids |-> IF j = i THEN OpenedInfo(kids)
                                       ELSE IF j \in blockers THEN Ended(j) ELSE info[j]]
          /\ nspec' = [j \in Ids |->
                         IF j = i THEN [nspec[i] EXCEPT !.st = IF res = "ok" THEN "Created" ELSE "Deleting"]
                         ELSE IF j \in blockers THEN NoSpec ELSE nspec[j]]
          /\ IF res = "lost" THEN Undo
             ELSE /\ op' = [op EXCEPT !.pc = IF op.kind = "republish" THEN "cas" ELSE "share"]
                  /\ UNCHANGED vol
     \/ /\ ~possible /\ Undo
        /\ nspec' = [nspec EXCEPT ![i].st = "Deleting"]
        /\ UNCHANGED <<engine, info>>
  /\ UNCHANGED <<data, acked, paths, up, link, seen, faults, ops>>

\* store_obj_cas stores only over the revision which was read.
MutUnrevised(i) == info[i].has
Unrevised(i) == info[i].has /\ ~info[i].rev

\* If the older nexus could not be shut down, its NexusInfo is
\* marked do_self_shutdown, provided it has not changed since it was read.
\* A failure (also a write whose answer is lost) destroys the new nexus.
RepublishCas ==
  LET i == op.old
      marked == [info EXCEPT ![i].stop = TRUE, ![i].rev = TRUE]
  IN
  /\ op.kind = "republish" /\ op.pc = "cas"
  /\ \/ /\ ~(nspec[i].failed /\ op.has)
        /\ op' = [op EXCEPT !.pc = "share"] /\ UNCHANGED info
     \/ /\ nspec[i].failed /\ op.has /\ Unrevised(i)
        /\ \E next \in {"share", "drop"} : op' = [op EXCEPT !.pc = next]
        /\ info' = marked
     \/ /\ nspec[i].failed /\ op.has /\ ~Unrevised(i)
        /\ op' = [op EXCEPT !.pc = "drop"] /\ UNCHANGED info
  /\ UNCHANGED <<vol, nspec, engine, data, acked, paths, up, link, seen, faults, ops>>

\* share: the new nexus becomes reachable to the frontend, or is dropped.
ShareNexus ==
  /\ op.kind \in {"publish", "republish"} /\ op.pc = "share"
  /\ \E res \in Outcomes(op.node) :
       /\ engine' = IF res = "fail" \/ engine[op.nx].run = "absent" THEN engine
                    ELSE [engine EXCEPT ![op.nx].run = "shared"]
       /\ op' = [op EXCEPT !.pc = IF res = "ok" /\ engine[op.nx].run # "absent"
                                    THEN "complete" ELSE "drop"]
  /\ UNCHANGED <<vol, nspec, info, data, acked, paths, up, link, seen, faults, ops>>

\* The destroy request of a nexus: its spec goes away when the io-engine
\* confirms, and otherwise stays Deleting for the garbage collector.
DestroyNexus(i) ==
  \E res \in Outcomes(nspec[i].node) :
    /\ engine[i].infl = 0 \/ res = "fail"
    /\ nspec' = [nspec EXCEPT ![i] = IF res = "ok" THEN NoSpec ELSE [@ EXCEPT !.st = "Deleting"]]
    /\ engine' = IF res = "fail" THEN engine ELSE [engine EXCEPT ![i] = Absent]
    /\ info' = CASE res = "fail" -> info
                 [] res = "lost" -> [info EXCEPT ![i] = Cleanly(i)]
                 [] OTHER -> [info EXCEPT ![i] = Ended(i)]

\* The new target is destroyed, whatever comes of it, and the operation undone.
DropNew ==
  /\ op.kind \in {"publish", "republish"} /\ op.pc = "drop"
  /\ DestroyNexus(op.nx) /\ Undo
  /\ UNCHANGED <<data, acked, paths, up, link, seen, faults, ops>>

\* complete_update commits the new target; publish then deletes the NexusInfo
\* of the previous one.
PublishComplete ==
  /\ op.kind \in {"publish", "republish"} /\ op.pc = "complete"
  /\ vol' = [vol EXCEPT !.target = op.nx, !.active = TRUE]
  /\ op' = IF op.kind = "publish" /\ op.old # 0 THEN [op EXCEPT !.pc = "forget"] ELSE Idle
  /\ UNCHANGED <<nspec, info, engine, data, acked, paths, up, link, seen, faults, ops>>

PublishForget ==
  /\ op.kind = "publish" /\ op.pc = "forget"
  /\ info' = [info EXCEPT ![op.old] = NoInfo]
  /\ op' = Idle
  /\ UNCHANGED <<vol, nspec, engine, data, acked, paths, up, link, seen, faults, ops>>

\* unpublish is asked for when the frontend no longer uses the volume.
UnpublishStart(force) ==
  /\ ops < MaxOps /\ ops' = ops + 1
  /\ op = Idle /\ ~vol.pend /\ vol.active /\ paths = {}
  /\ op' = [kind |-> "unpublish", pc |-> "destroy", old |-> vol.target, nx |-> vol.target,
            confirm |-> force]
  /\ UNCHANGED <<vol, nspec, info, engine, data, acked, paths, up, link, seen, faults>>

\* The target is destroyed.  Failing to lock the nexus returns early and leaves
\* the operation pending on the spec.  A failed destroy undoes the unpublish
\* unless it is forced and the node does not answer a probe.
UnpublishDestroy ==
  LET i == op.old IN
  /\ op.kind = "unpublish"
  /\ \/ /\ op' = Idle /\ vol' = [vol EXCEPT !.pend = TRUE] /\ UNCHANGED <<nspec, engine, info>>
     \/ /\ nspec[i].st = "none"
        /\ op' = Idle /\ vol' = [vol EXCEPT !.active = FALSE] /\ UNCHANGED <<nspec, engine, info>>
     \/ /\ nspec[i].st # "none"
        /\ DestroyNexus(i)
        /\ op' = Idle
        /\ vol' = [vol EXCEPT !.active =
                     ~ \/ nspec'[i].st = "none"
                       \/ op.confirm /\ (nspec[i].node \notin seen \/ ~Reach(nspec[i].node))]
  /\ UNCHANGED <<data, acked, paths, up, link, seen, faults, ops>>

\* reconcile_dirty_volumes: an operation without a recorded result is cleared.
ReconcileDirty ==
  /\ op = Idle /\ vol.pend
  /\ vol' = [vol EXCEPT !.pend = FALSE]
  /\ UNCHANGED <<nspec, op, info, engine, data, acked, paths, up, link, seen, faults, ops>>

-----------------------------------------------------------------------------
(* The reconcilers                                                         *)

\* missing_nexus_recreate, by the volume's nexus reconciler or by a republish
\* which may reuse the target: from the nexus's own children and NexusInfo.
RecreateTarget ==
  LET i == vol.target
      n == nspec[i].node
  IN
  /\ op = Idle /\ vol.active /\ nspec[i].st = "Created"
  /\ engine[i].run = "absent" /\ n \in seen /\ Reach(n) /\ Existing(i) = {}
  /\ \E kids \in ChildChoices(i, n) :
       /\ kids \subseteq nspec[i].kids
       /\ engine' = Opened(i, kids, n, engine)
       /\ info' = [info EXCEPT ![i] = OpenedInfo(kids)]
  /\ UNCHANGED <<vol, nspec, op, data, acked, paths, up, link, seen, faults, ops>>

\* fixup_nexus_protocol shares a recreated target again.
FixupProtocol ==
  LET i == vol.target IN
  /\ op = Idle /\ vol.active /\ nspec[i].st = "Created"
  /\ engine[i].run = "open" /\ Reach(nspec[i].node)
  /\ engine' = [engine EXCEPT ![i].run = "shared"]
  /\ UNCHANGED <<vol, nspec, op, info, data, acked, paths, up, link, seen, faults, ops>>

\* attach_replicas_to_nexus: a replica which is online and reservable is added
\* to the target, which rebuilds it.
AttachReplica(r) ==
  LET i == vol.target
      n == nspec[i].node
  IN
  /\ op = Idle /\ vol.active /\ nspec[i].st = "Created"
  /\ engine[i].run = "shared" /\ Reach(n)
  /\ r \notin engine[i].kids \cup engine[i].reb
  /\ Home[r] \in seen /\ Reach(Home[r]) /\ Reservable(r)
  /\ engine' = Taken(i, {r}, n, [engine EXCEPT ![i].reb = @ \cup {r}])
  /\ nspec' = [nspec EXCEPT ![i].kids = @ \cup {r}]
  /\ UNCHANGED <<vol, op, info, data, acked, paths, up, link, seen, faults, ops>>

\* The ReShutdown poller, on NodeStateChangeOnline.
ReShutdown(i) ==
  /\ op = Idle /\ nspec[i].st = "Shutdown" /\ nspec[i].failed /\ ~nspec[i].again
  /\ Reach(nspec[i].node) /\ engine[i].infl = 0
  /\ engine[i].run = "down" \/ nspec[i].node \in seen
  /\ engine[i].run # "absent"
  /\ nspec' = [nspec EXCEPT ![i].again = TRUE]
  /\ engine' = [engine EXCEPT ![i] = [Absent EXCEPT !.run = "down"]]
  /\ info' = [info EXCEPT ![i] = Cleanly(i)]
  /\ UNCHANGED <<vol, op, data, acked, paths, up, link, seen, faults, ops>>

\* The nexus garbage collector: nexuses being deleted, and those the volume's
\* collector disowned (disown_unused_nexuses: not the target, and not shut down
\* while the volume has a target).
GarbageCollect(i) ==
  /\ i \notin (IF op = Idle THEN {} ELSE {op.nx, op.old})
  /\ nspec[i].node \in seen
  /\ \/ nspec[i].st = "Deleting"
     \/ /\ op = Idle /\ nspec[i].st \in {"Created", "Shutdown"}
        /\ IF vol.active THEN i # vol.target /\ nspec[i].st # "Shutdown" ELSE TRUE
  /\ DestroyNexus(i)
  /\ UNCHANGED <<vol, op, data, acked, paths, up, link, seen, faults, ops>>

\* remove_shutdown_targets, for the cluster agent once the frontend left the
\* old path: the NexusInfo goes too unless it still tells the volume's health.
RemoveShutdownTarget(i) ==
  /\ op = Idle /\ nspec[i].st = "Shutdown" /\ i \notin paths
  /\ ~(vol.active /\ vol.target = i)
  /\ DestroyNexus(i)
  /\ UNCHANGED <<vol, op, data, acked, paths, up, link, seen, faults, ops>>

\* The core agent restarts: the operation in progress is forgotten, a nexus
\* being created becomes Deleting, reshutdown is not persisted.
CoreRestart ==
  /\ faults < MaxFaults /\ faults' = faults + 1
  /\ op' = Idle
  /\ nspec' = [i \in Ids |-> [nspec[i] EXCEPT !.again = FALSE,
                                !.st = IF @ = "Creating" THEN "Deleting" ELSE @]]
  /\ UNCHANGED <<vol, info, engine, data, acked, paths, up, link, seen, ops>>

-----------------------------------------------------------------------------
(* The frontend's writes through a nexus (io-engine, external)             *)

\* The frontend connects to the published target.
Connect ==
  /\ vol.active /\ engine[vol.target].run = "shared" /\ vol.target \notin paths
  /\ op.kind # "unpublish"
  /\ paths' = paths \cup {vol.target}
  /\ UNCHANGED <<vol, nspec, op, info, engine, data, acked, up, link, seen, faults, ops>>

Disconnect(i) ==
  /\ i \in paths /\ engine[i].infl = 0 /\ paths' = paths \ {i}
  /\ UNCHANGED <<vol, nspec, op, info, engine, data, acked, up, link, seen, faults, ops>>

\* A write is sent to the nexus and reaches some of its children.
BeginWrite(i) ==
  /\ i \in paths /\ engine[i].run = "shared" /\ engine[i].infl = 0 /\ acked < MaxWrites
  /\ nspec[i].node \in up
  /\ \E some \in SUBSET {r \in engine[i].kids : Writable(i, r)} :
       data' = [r \in Replicas |-> IF r \in some THEN acked + 1 ELSE data[r]]
  /\ engine' = [engine EXCEPT ![i].infl = acked + 1]
  /\ UNCHANGED <<vol, nspec, op, info, acked, paths, up, link, seen, faults, ops>>

\* The write reaches the other children.  A child which fails is recorded as
\* unhealthy before the write is acknowledged; if that cannot be recorded, or
\* the record says do_self_shutdown, the nexus shuts itself down.
EndWrite(i) ==
  LET v == engine[i].infl IN
  /\ v # 0 /\ nspec[i].node \in up
  /\ \E ok \in {{r \in engine[i].kids : Writable(i, r)},
                {r \in engine[i].kids : Writable(i, r) /\ Home[r] = nspec[i].node}} :
     \E persist \in BOOLEAN :
       LET stored == ok # {} /\ (ok = engine[i].kids \/ (persist /\ ~info[i].stop)) IN
       /\ data' = [r \in Replicas |-> IF r \in ok THEN v ELSE data[r]]
       /\ IF stored
            THEN /\ acked' = IF i \in paths /\ v > acked THEN v ELSE acked
                 /\ engine' = [engine EXCEPT ![i].infl = 0, ![i].kids = ok]
                 /\ info' = IF ok = engine[i].kids THEN info
                            ELSE [info EXCEPT ![i].ok = @ \cap ok, ![i].rev = TRUE]
            ELSE /\ engine' = [engine EXCEPT ![i] = [Absent EXCEPT !.run = "down"]]
                 /\ UNCHANGED <<acked, info>>
  /\ UNCHANGED <<vol, nspec, op, paths, up, link, seen, faults, ops>>

\* A rebuild completes: the child holds what the others hold and is healthy.
RebuildDone(i, r) ==
  /\ r \in engine[i].reb /\ engine[i].run = "shared" /\ engine[i].infl = 0
  /\ nspec[i].node \in up /\ Writable(i, r) /\ ~info[i].stop
  /\ \E src \in engine[i].kids : data' = [data EXCEPT ![r] = data[src]]
  /\ engine' = [engine EXCEPT ![i].reb = @ \ {r}, ![i].kids = @ \cup {r}]
  /\ info' = [info EXCEPT ![i].ok = @ \cup {r}, ![i].rev = TRUE]
  /\ UNCHANGED <<vol, nspec, op, acked, paths, up, link, seen, faults, ops>>

-----------------------------------------------------------------------------
(* Faults                                                                  *)

NodeDown(n) ==
  /\ faults < MaxFaults /\ n \in up
  /\ faults' = faults + 1 /\ up' = up \ {n}
  /\ engine' = [i \in Ids |-> IF nspec[i].node = n THEN Absent ELSE engine[i]]
  /\ UNCHANGED <<vol, nspec, op, info, data, acked, paths, link, seen, ops>>

NodeUp(n) ==
  /\ n \notin up /\ up' = up \cup {n}
  /\ UNCHANGED <<vol, nspec, op, info, engine, data, acked, paths, link, seen, faults, ops>>

LinkDown(n) ==
  /\ faults < MaxFaults /\ n \in link
  /\ faults' = faults + 1 /\ link' = link \ {n}
  /\ UNCHANGED <<vol, nspec, op, info, engine, data, acked, paths, up, seen, ops>>

LinkUp(n) ==
  /\ n \notin link /\ link' = link \cup {n}
  /\ UNCHANGED <<vol, nspec, op, info, engine, data, acked, paths, up, seen, faults, ops>>

\* The registry's poll of a node: see the module NodeLiveness for its detail.
Poll(n) ==
  /\ (n \in seen) # Reach(n)
  /\ seen' = IF Reach(n) THEN seen \cup {n} ELSE seen \ {n}
  /\ UNCHANGED <<vol, nspec, op, info, engine, data, acked, paths, up, link, faults, ops>>

Next ==
  \/ \E n \in Nodes : \/ PublishStart(n) \/ NodeDown(n) \/ NodeUp(n)
                      \/ LinkDown(n) \/ LinkUp(n) \/ Poll(n)
                      \/ \E c \in BOOLEAN : RepublishStart(n, c)
  \/ RepublishShutdown \/ RepublishReadInfo \/ CreatePick \/ CreateRpc
  \/ RepublishCas \/ ShareNexus \/ DropNew \/ PublishComplete \/ PublishForget
  \/ \E f \in BOOLEAN : UnpublishStart(f)
  \/ UnpublishDestroy \/ ReconcileDirty
  \/ RecreateTarget \/ FixupProtocol \/ CoreRestart \/ Connect
  \/ \E r \in Replicas : AttachReplica(r)
  \/ \E i \in Ids : \/ ReShutdown(i) \/ GarbageCollect(i) \/ RemoveShutdownTarget(i)
                    \/ Disconnect(i) \/ BeginWrite(i) \/ EndWrite(i)
                    \/ \E r \in Replicas : RebuildDone(i, r)

Spec == Init /\ [][Next]_vars

-----------------------------------------------------------------------------
(* Properties                                                              *)

\* The replicas which the persisted health information lets a next target use
\* (ChildInfoFilters::healthy) all hold every acknowledged write: no publish,
\* switchover, recreation or late write of a fenced nexus can lose one.
AckedIsKept ==
  LET h == vol.target
      usable == IF h = 0 \/ ~info[h].has THEN Replicas ELSE info[h].ok
  IN \A r \in usable : data[r] >= acked

\* Two nexuses the frontend is connected to never both write one replica: the
\* older one was shut down, or the reservation, the unshare of a local replica
\* or the exclusion of unreservable replicas keeps it out.
OneWriter ==
  \A i, j \in paths : \A r \in Replicas :
    (/\ engine[i].run = "shared" /\ engine[j].run = "shared"
     /\ r \in engine[i].kids \cap engine[j].kids /\ Writable(i, r) /\ Writable(j, r))
      => i = j

\* The healthy children of the published target hold the same data when no
\* write is in flight: after an unclean shutdown only one child is reused and
\* the others are rebuilt (HealthyChildItems::One).
ChildrenAgree ==
  LET t == vol.target IN
  (vol.active /\ engine[t].run = "shared" /\ engine[t].infl = 0)
    => \A r, q \in engine[t].kids : data[r] = data[q]

\* What a next target may use holds every acknowledged write, and the children of the
\* published one agree (publish, republish, HealthyChildItems::One).
WritesAreKept == TypeOK /\ AckedIsKept /\ ChildrenAgree

-----------------------------------------------------------------------------
(* Why there is one writer: the inductive invariant                        *)

\* A nexus which takes writes, or will when it is shared.
Open(i) == engine[i].run \in {"open", "shared"}

\* A nexus the frontend is or may yet be connected to: the published target, one the
\* frontend has not left yet, and the new one of a publish or republish.
Live(i) ==
  \/ i \in paths
  \/ vol.active /\ i = vol.target
  \/ op.kind \in Publishing /\ op.pc \in {"cas", "share", "complete"} /\ i = op.nx

\* Replica r is a child of nexus i on their common node, where no reservation binds it.
LocalChild(i, r) == r \in engine[i].kids \cup engine[i].reb /\ Home[r] = nspec[i].node

\* Only a published volume has a frontend, and an older target which the
\* frontend has not left is Shutdown.
PathInv ==
  /\ vol.active => vol.target \in Ids
  /\ ~vol.active \/ op.kind = "unpublish" => paths = {}
  /\ \A i \in paths : i # vol.target => nspec[i].st = "Shutdown"

\* What an operation knows of the volume and of the nexuses it works on.
OpInv ==
  /\ op.kind \in Publishing /\ op.pc # "forget" =>
       /\ op.nx # vol.target /\ op.nx \notin paths
       /\ op.pc \in {"shutdown", "read", "pick"} => nspec[op.nx].st = "none"
       /\ op.pc = "create" => nspec[op.nx].st = "Creating"
       /\ op.pc \in {"cas", "share", "complete", "drop"} => nspec[op.nx].st = "Created"
       /\ op.pc \in {"create", "cas", "share", "complete", "drop"} => nspec[op.nx].node = op.node
  /\ op.kind = "publish" => op.pc \notin {"shutdown", "read", "cas"}
  /\ op.kind = "publish" /\ op.pc # "forget" => ~vol.active
  /\ op.kind = "republish" =>
       /\ vol.active /\ op.old = vol.target /\ op.pc # "forget"
       /\ op.pc # "shutdown" => nspec[op.old].st = "Shutdown"
  /\ op.kind = "unpublish" => vol.active /\ op.old = vol.target

\* What the specification of a nexus says of the nexus in the io-engine.
EngineInv ==
  \A i \in Ids :
    /\ nspec[i].st \in {"none", "Creating"} => engine[i].run = "absent"
    /\ nspec[i].st = "Shutdown" /\ Open(i) => nspec[i].failed /\ ~nspec[i].again
    /\ engine[i].kids \cup engine[i].reb \subseteq nspec[i].kids
    /\ ~Open(i) => engine[i].kids = {} /\ engine[i].reb = {}
    /\ engine[i].infl # 0 => engine[i].run = "shared"

\* A node has one nexus of the volume, and a replica is reserved by one nexus.
ExclusiveInv ==
  \A i, j \in Ids :
    /\ engine[i].run # "absent" /\ engine[j].run # "absent" /\ nspec[i].node = nspec[j].node => i = j
    /\ engine[i].res \cap engine[j].res # {} => i = j

\* No nexus has the reservation of a replica that is a local child of another
\* one in use, and none is about to take it.
LocalInv ==
  \A i \in Ids : Live(i) /\ Open(i) =>
    /\ \A j \in Ids, r \in Replicas : LocalChild(i, r) /\ r \in engine[j].res => i = j
    /\ op.kind \in Publishing /\ op.pc = "create" => \A r \in nspec[op.nx].kids : ~LocalChild(i, r)

WInv == TypeOK /\ PathInv /\ OpInv /\ EngineInv /\ ExclusiveInv /\ LocalInv
=============================================================================
