--------------------------- MODULE VolumeReplicas ---------------------------
(***************************************************************************)
(* The replicas of one published volume: set_replica, move_replica and     *)
(* destroy of volume/operations.rs, the hot spare and garbage collection   *)
(* reconcilers, and the ownership which decides who may destroy a replica. *)
(*                                                                         *)
(* A replica is named after its pool, one pool per node.  The code draws a *)
(* new ReplicaId every time; the model reuses a name once the nexus has    *)
(* dropped the former replica.  The io-engine (children, rebuilds and the  *)
(* healthy children it persists in NexusInfo) is external.                 *)
(***************************************************************************)
EXTENDS Naturals, FiniteSets

CONSTANTS Pools,      \* pools, each on a node of its own
          First,      \* the pools of the volume's first replicas
          MaxReqs,    \* bound: requests of the user
          MaxFaults   \* bound: faults of nodes, children and RPCs, restarts

ASSUME FirstAssumption == First \subseteq Pools

VARIABLES
  num,     \* VolumeSpec.num_replicas
  vst,     \* status of the VolumeSpec
  nst,     \* status of the target's NexusSpec
  rep,     \* ReplicaSpec: status, owned by the volume?, by the nexus?
  dev,     \* replicas which exist on their pool
  kids,    \* NexusSpec.children
  child,   \* the children of the running nexus and their state
  ok,      \* NexusInfo: the healthy children
  cur,     \* replicas which hold all the volume's data
  up,      \* pools whose node answers
  op,      \* the operation or reconcile pass holding the volume's guard
  faults, reqs

repVars == <<num, vst, nst, rep, dev, kids, child, ok, cur, up, op, faults, reqs>>

NoRep == [st |-> "none", vol |-> FALSE, nx |-> FALSE]
None == "none"
Idle == [kind |-> "idle", pc |-> "idle", r |-> None, n |-> 0,
         todo |-> {}, un |-> {}, he |-> {}]

Statuses == {"none", "Creating", "Created", "Deleting"}
ReplicaSpecs == [st : Statuses, vol : BOOLEAN, nx : BOOLEAN]

TypeOK ==
  /\ num \in 1..Cardinality(Pools)
  /\ vst \in {"Created", "Deleting", "gone"} /\ nst \in {"Created", "Deleting", "gone"}
  /\ rep \in [Pools -> ReplicaSpecs]
  /\ child \in [Pools -> {"none", "Online", "Degraded", "Faulted"}]
  /\ {dev, kids, ok, cur, up, op.todo, op.un, op.he} \subseteq SUBSET Pools
  /\ op.r \in Pools \cup {None} /\ op.n \in 0..Cardinality(Pools)

Init ==
  /\ num = Cardinality(First) /\ vst = "Created" /\ nst = "Created"
  /\ rep = [r \in Pools |-> IF r \in First THEN [st |-> "Created", vol |-> TRUE, nx |-> TRUE]
                            ELSE NoRep]
  /\ dev = First /\ kids = First /\ ok = First /\ cur = First /\ up = Pools
  /\ child = [r \in Pools |-> IF r \in First THEN "Online" ELSE "none"]
  /\ op = Idle /\ faults = 0 /\ reqs = 0

-----------------------------------------------------------------------------
(* What the registry and the schedulers see                                *)

VolReplicas == {r \in Pools : rep[r].vol}
Owned(r) == rep[r].vol \/ rep[r].nx
Children == {r \in Pools : child[r] # "none"}
OnlineChildren == {r \in Pools : child[r] = "Online"}
Listed == dev \cap up         \* replicas found in the registry's state

\* volume_state: the nexus status, or Degraded when the number of its
\* children is not the volume's replica count.
VolStatus ==
  IF Children = OnlineChildren /\ Cardinality(Children) = num THEN "Online" ELSE "Degraded"

\* ReplicaRemovalCandidates: unhealthy replicas go first; a healthy one only
\* when more than `count` healthy replicas are online.
RemovalChoices(un, he, count) ==
  IF un # {} THEN un
  ELSE IF Cardinality(he \cap Listed) > count THEN he ELSE {}

\* volume_replica_candidates: a pool which is online and whose node has no
\* replica of the volume.
PoolCandidates == {r \in up \ VolReplicas : rep[r].st = "none" /\ child[r] = "none"}

\* start_update_op of RemoveUnusedReplica: neither the last replica, nor a
\* child of the target, nor the last healthy one.
MutInUse(r) == VolReplicas # {r} /\ ~(r \in ok /\ ok = {r})
MutLastHealthy(r) == VolReplicas # {r}
MayRemoveUnused(r) ==
  /\ VolReplicas # {r}
  /\ r \notin kids
  /\ ~(r \in ok /\ ok = {r})

\* An RPC is executed by a node which answers; it may fail, or its answer may
\* be lost.
Rpc(alive, res) ==
  /\ res \in IF alive THEN {"ok", "lost", "fail"} ELSE {"fail"}
  /\ IF alive /\ res # "ok" THEN faults < MaxFaults /\ faults' = faults + 1
     ELSE UNCHANGED faults

\* ResourceLifecycle::destroy of a replica which has been disowned.
DestroyReplica(r) ==
  \E res \in {"ok", "lost", "fail"} :
    /\ Rpc(r \in up, res)
    /\ dev' = IF res = "fail" THEN dev ELSE dev \ {r}
    /\ cur' = IF res = "fail" THEN cur ELSE cur \ {r}
    /\ rep' = [rep EXCEPT ![r] = IF res = "ok" THEN NoRep
                                 ELSE [NoRep EXCEPT !.st = "Deleting"]]

\* The nexus's remove child request.  The io-engine refuses to remove the last
\* child with a device online; a removed child is no longer recorded as healthy.
RemoveChildRpc(r, res) ==
  /\ Rpc(OnlineChildren \cap dev # {r}, res)
  /\ IF res = "fail" THEN UNCHANGED <<child, ok>>
     ELSE child' = [child EXCEPT ![r] = "none"] /\ ok' = ok \ {r}
  /\ kids' = IF res = "ok" THEN kids \ {r} ELSE kids

-----------------------------------------------------------------------------
(* set_replica and move_replica                                            *)

\* set_replica with one replica more: only of an Online volume.
IncreaseStart ==
  /\ reqs < MaxReqs /\ reqs' = reqs + 1 /\ op = Idle /\ vst = "Created"
  /\ VolStatus = "Online" /\ num < Cardinality(Pools)
  /\ op' = [Idle EXCEPT !.kind = "increase", !.pc = "create"]
  /\ UNCHANGED <<num, vst, nst, rep, dev, kids, child, ok, cur, up, faults>>

\* set_replica with one less: the most suitable replica is picked, if any.
DecreaseStart ==
  /\ reqs < MaxReqs /\ reqs' = reqs + 1 /\ op = Idle /\ vst = "Created" /\ num > 1
  /\ LET choices == RemovalChoices(VolReplicas \ ok, VolReplicas \cap ok, num - 1) IN
     \/ /\ choices = {} /\ num' = num - 1 /\ UNCHANGED op
     \/ \E r \in choices :
          /\ op' = [Idle EXCEPT !.kind = "decrease", !.r = r,
                                !.pc = IF r \in kids THEN "child" ELSE "destroy"]
          /\ UNCHANGED num
  /\ UNCHANGED <<vst, nst, rep, dev, kids, child, ok, cur, up, faults>>

\* move_largest_replica: a replica out of space is moved to another pool.
MoveStart(r) ==
  /\ reqs < MaxReqs /\ reqs' = reqs + 1 /\ op = Idle /\ vst = "Created"
  /\ r \in VolReplicas \cap Listed /\ child[r] = "Faulted"
  /\ op' = [Idle EXCEPT !.kind = "move", !.pc = "create", !.todo = {r}]
  /\ UNCHANGED <<num, vst, nst, rep, dev, kids, child, ok, cur, up, faults>>

\* ReplicaSpec create: the spec is stored as Creating, owned by the volume,
\* then the request is sent; a failure makes it Deleting, which keeps its owner.
CreateLog ==
  /\ op.pc = "create"
  /\ \/ /\ PoolCandidates = {} /\ op' = Idle /\ UNCHANGED rep
     \/ \E r \in PoolCandidates :
          /\ rep' = [rep EXCEPT ![r] = [st |-> "Creating", vol |-> TRUE, nx |-> FALSE]]
          /\ op' = [op EXCEPT !.r = r, !.pc = "creating"]
  /\ UNCHANGED <<num, vst, nst, dev, kids, child, ok, cur, up, faults, reqs>>

CreateRpc ==
  LET r == op.r IN
  /\ op.pc = "creating"
  /\ \E res \in {"ok", "lost", "fail"} :
       /\ Rpc(r \in up, res)
       /\ dev' = IF res = "fail" THEN dev ELSE dev \cup {r}
       /\ rep' = [rep EXCEPT ![r].st = IF res = "ok" THEN "Created" ELSE "Deleting"]
       /\ op' = CASE res # "ok" \/ op.kind = "hot" -> Idle
                  [] OTHER -> [op EXCEPT !.pc = "attach"]
  /\ UNCHANGED <<num, vst, nst, kids, child, ok, cur, up, reqs>>

\* attach_replica: the replica is made accessible, which one being deleted
\* refuses; the nexus becomes its owner, in memory and whatever follows; the
\* child is then added and rebuilt.
Attach(r, res) ==
  LET accessible == r \in up /\ rep[r].st = "Created" IN
  /\ Rpc(accessible, res)
  /\ rep' = [rep EXCEPT ![r].nx = @ \/ accessible]
  /\ child' = IF res = "fail" THEN child ELSE [child EXCEPT ![r] = "Degraded"]
  /\ kids' = IF res = "ok" THEN kids \cup {r} ELSE kids

AttachNew ==
  LET r == op.r IN
  /\ op.pc = "attach"
  /\ \E res \in {"ok", "lost", "fail"} :
       /\ Attach(r, res)
       /\ IF op.kind = "increase"
            THEN num' = (IF res = "ok" THEN num + 1 ELSE num) /\ op' = Idle
            ELSE /\ UNCHANGED num
                 /\ op' = IF res = "ok" THEN [op EXCEPT !.pc = "check", !.r = None] ELSE Idle
  /\ UNCHANGED <<vst, nst, dev, ok, cur, up, reqs>>

\* remove_child_replica: another child must be online in the nexus and healthy
\* in the NexusInfo; ReplicaSpec::fault then removes the child.
MoveCheck ==
  LET r == CHOOSE x \in op.todo : TRUE IN
  /\ op.pc = "check"
  /\ op' = IF r \in kids /\ (OnlineChildren \cap kids \cap ok) \ {r} # {}
             THEN [op EXCEPT !.pc = "fault", !.r = r, !.todo = {}] ELSE Idle
  /\ UNCHANGED <<num, vst, nst, rep, dev, kids, child, ok, cur, up, faults, reqs>>

MoveFault ==
  /\ op.pc = "fault"
  /\ \E res \in {"ok", "lost", "fail"} :
       /\ RemoveChildRpc(op.r, res)
       /\ op' = IF res = "ok" /\ op.r \in Listed THEN [op EXCEPT !.pc = "destroy"] ELSE Idle
  /\ UNCHANGED <<num, vst, nst, rep, dev, cur, up, reqs>>

\* decrease_volume_replica: first out of the nexus, which disowns it, ...
DecreaseChild ==
  /\ op.kind = "decrease" /\ op.pc = "child"
  /\ \E res \in {"ok", "lost", "fail"} :
       /\ RemoveChildRpc(op.r, res)
       /\ rep' = [rep EXCEPT ![op.r].nx = @ /\ res # "ok"]
       /\ op' = IF res = "ok" THEN [op EXCEPT !.pc = "destroy"] ELSE Idle
  /\ UNCHANGED <<num, vst, nst, dev, cur, up, reqs>>

\* ... then destroyed.  start_destroy_by takes the volume's ownership away and
\* refuses if the nexus still owns the replica; move destroys regardless.
FinishDestroy ==
  LET r == op.r IN
  /\ op.kind \in {"decrease", "move"} /\ op.pc = "destroy" /\ op' = Idle
  /\ IF op.kind = "decrease" /\ rep[r].nx
       THEN /\ rep' = [rep EXCEPT ![r].vol = FALSE]
            /\ UNCHANGED <<num, dev, cur, faults>>
       ELSE /\ DestroyReplica(r)
            /\ num' = IF op.kind = "decrease" /\ rep'[r].st = "none" THEN num - 1 ELSE num
  /\ UNCHANGED <<vst, nst, kids, child, ok, up, reqs>>

-----------------------------------------------------------------------------
(* The hot spare reconciler: one pass holds the volume guard               *)

\* An Online volume has only its replica count checked, a Degraded one is
\* looked at child by child.
HotSpare ==
  /\ op = Idle /\ vst = "Created"
  /\ op' = [Idle EXCEPT !.kind = "hot",
                        !.pc = IF VolStatus = "Online" THEN "count" ELSE "faulted",
                        !.todo = IF VolStatus = "Online" THEN {}
                                 ELSE {r \in Pools : child[r] = "Faulted"}]
  /\ VolStatus # "Online" \/ Cardinality(VolReplicas) # num
  /\ UNCHANGED <<num, vst, nst, rep, dev, kids, child, ok, cur, up, faults, reqs>>

\* handle_faulted_child: a child whose replica is back is brought online again
\* (a partial rebuild) unless there is no log of the missed writes; otherwise
\* it is removed, for an absent replica once its wait is over.
OnlineFaulted(r) ==
  /\ op.kind = "hot" /\ op.pc = "faulted" /\ r \in op.todo
  /\ op' = [op EXCEPT !.todo = @ \ {r}]
  /\ \/ /\ r \in Listed \cap kids /\ child[r] = "Faulted"
        /\ child' = [child EXCEPT ![r] = "Degraded"]
     \/ r \notin Listed /\ UNCHANGED child
  /\ UNCHANGED <<num, vst, nst, rep, dev, kids, ok, cur, up, faults, reqs>>

\* remove_vol_child_by_uri of a faulted, unknown or missing child: out of the
\* nexus, and a child of the spec then out of the volume.
RemoveFaulted(r) ==
  /\ op.kind = "hot" /\ op.pc \in {"faulted", "unknown", "missing"} /\ r \in op.todo
  /\ op.pc = "faulted" => Cardinality(Children) > 1
  /\ \E res \in {"ok", "lost", "fail"} :
       /\ RemoveChildRpc(r, res)
       /\ rep' = [rep EXCEPT ![r].nx = @ /\ (res # "ok" \/ r \notin kids)]
       /\ op' = [op EXCEPT !.todo = @ \ {r},
                           !.r = IF res = "ok" /\ r \in kids /\ op.pc # "unknown" THEN r ELSE None]
  /\ op.r = None
  /\ UNCHANGED <<num, vst, nst, dev, cur, up, reqs>>

\* remove_unused_volume_replica after the child left the nexus.
RemoveUnusedChild ==
  LET r == op.r IN
  /\ op.kind = "hot" /\ op.pc \in {"faulted", "missing"} /\ r # None
  /\ op' = [op EXCEPT !.r = None]
  /\ IF MayRemoveUnused(r) THEN DestroyReplica(r)
     ELSE UNCHANGED <<rep, dev, cur, faults>>
  /\ UNCHANGED <<num, vst, nst, kids, child, ok, up, reqs>>

\* The next part of the pass: unknown children, missing children, the number
\* of replicas and the number of children.
HotSpareNext ==
  /\ op.kind = "hot" /\ op.todo = {} /\ op.r = None
  /\ op' = CASE op.pc = "faulted" -> [op EXCEPT !.pc = "unknown", !.todo = Children \ kids]
             [] op.pc = "unknown" -> [op EXCEPT !.pc = "missing", !.todo = kids \ Children]
             [] op.pc = "missing" -> [op EXCEPT !.pc = "count"]
             [] OTHER -> op
  /\ op.pc \in {"faulted", "unknown", "missing"}
  /\ UNCHANGED <<num, vst, nst, rep, dev, kids, child, ok, cur, up, faults, reqs>>

\* volume_replica_count_reconciler: creates one replica, or goes on to remove
\* the excess of unused ones.
MutCountReplicas ==
  LET have == Cardinality(VolReplicas) IN
  /\ op.kind = "hot" /\ op.pc = "count"
  /\ op' = CASE have < num - 1 /\ PoolCandidates # {} -> [op EXCEPT !.pc = "create"]
             [] have > num -> [op EXCEPT !.pc = "excess", !.n = have - num,
                                         !.un = VolReplicas \ ok, !.he = VolReplicas \cap ok]
             [] OTHER -> [op EXCEPT !.pc = "children"]
  /\ UNCHANGED <<num, vst, nst, rep, dev, kids, child, ok, cur, up, faults, reqs>>
CountReplicas ==
  LET have == Cardinality(VolReplicas) IN
  /\ op.kind = "hot" /\ op.pc = "count"
  /\ op' = CASE have < num /\ PoolCandidates # {} -> [op EXCEPT !.pc = "create"]
             [] have > num -> [op EXCEPT !.pc = "excess", !.n = have - num,
                                         !.un = VolReplicas \ ok, !.he = VolReplicas \cap ok]
             [] OTHER -> [op EXCEPT !.pc = "children"]
  /\ UNCHANGED <<num, vst, nst, rep, dev, kids, child, ok, cur, up, faults, reqs>>

\* remove_unused_volume_replicas: candidates which may not be removed are
\* passed over.
RemoveExcess ==
  LET choices == IF op.n = 0 THEN {} ELSE RemovalChoices(op.un, op.he, num) IN
  /\ op.kind = "hot" /\ op.pc = "excess"
  /\ \/ /\ choices = {}
        /\ op' = [Idle EXCEPT !.kind = "hot", !.pc = "children"]
        /\ UNCHANGED <<rep, dev, cur, faults>>
     \/ \E r \in choices :
          /\ op' = [op EXCEPT !.un = @ \ {r}, !.he = @ \ {r},
                              !.n = IF MayRemoveUnused(r) THEN @ - 1 ELSE @]
          /\ IF MayRemoveUnused(r) THEN DestroyReplica(r)
             ELSE UNCHANGED <<rep, dev, cur, faults>>
  /\ UNCHANGED <<num, vst, nst, kids, child, ok, up, reqs>>

\* nexus_replica_count_reconciler: attach replicas which are online, up to the
\* volume's count, or remove children in excess.
CountChildren ==
  LET specd == {r \in kids : rep[r].st # "none"}
      wanted == IF Cardinality(VolReplicas) < num THEN Cardinality(VolReplicas) ELSE num
      spare == (VolReplicas \cap Listed) \ (kids \cup Children)
      excess == RemovalChoices((VolReplicas \cap kids) \ ok, VolReplicas \cap kids \cap ok, num)
  IN
  /\ op.kind = "hot" /\ op.pc = "children"
  /\ \/ /\ Cardinality(specd) < num /\ Cardinality(kids) < wanted
        /\ \E r \in spare : \E res \in {"ok", "lost", "fail"} : Attach(r, res)
        /\ UNCHANGED ok
     \/ /\ Cardinality(specd) > num
        /\ \E r \in excess \cap Children : \E res \in {"ok", "lost", "fail"} :
             /\ RemoveChildRpc(r, res)
             /\ rep' = [rep EXCEPT ![r].nx = @ /\ res # "ok"]
     \/ /\ ~(Cardinality(specd) < num /\ Cardinality(kids) < wanted /\ spare # {})
        /\ ~(Cardinality(specd) > num /\ excess \cap Children # {})
        /\ UNCHANGED <<rep, kids, child, ok, faults>>
  /\ op' = Idle
  /\ UNCHANGED <<num, vst, nst, dev, cur, up, reqs>>

-----------------------------------------------------------------------------
(* The garbage collectors                                                  *)

\* disown_unused_replicas: neither online, nor healthy, nor used by a nexus.
DisownUnused(r) ==
  /\ op = Idle /\ vst = "Created"
  /\ rep[r].st = "Created" /\ rep[r].vol /\ ~rep[r].nx
  /\ r \notin Listed \cup kids \cup ok
  /\ rep' = [rep EXCEPT ![r].vol = FALSE]
  /\ UNCHANGED <<num, vst, nst, dev, kids, child, ok, cur, up, op, faults, reqs>>

\* The replica reconciler: owners which no longer exist are removed, a replica
\* being deleted or without owners is destroyed.
CollectReplica(r) ==
  LET nx == rep[r].nx /\ nst # "gone"
      vol == rep[r].vol /\ vst # "gone"
  IN
  /\ op.r # r /\ rep[r].st \in {"Created", "Deleting"}
  /\ \/ /\ rep[r].st = "Deleting" \/ ~(nx \/ vol)
        /\ DestroyReplica(r)
     \/ /\ rep[r].st = "Created" /\ (nx \/ vol) /\ <<vol, nx>> # <<rep[r].vol, rep[r].nx>>
        /\ rep' = [rep EXCEPT ![r] = [st |-> rep[r].st, vol |-> vol, nx |-> nx]]
        /\ UNCHANGED <<dev, cur, faults>>
  /\ UNCHANGED <<num, vst, nst, kids, child, ok, up, op, reqs>>

-----------------------------------------------------------------------------
(* Destroying the volume                                                   *)

\* The target is destroyed lazily: a failure leaves it to the collector.
DestroyNexus(res) ==
  /\ Rpc(TRUE, res)
  /\ nst' = IF res = "ok" THEN "gone" ELSE "Deleting"
  /\ child' = IF res = "fail" THEN child ELSE [r \in Pools |-> "none"]
  /\ kids' = IF res = "ok" THEN {} ELSE kids
  /\ rep' = [r \in Pools |-> [rep[r] EXCEPT !.nx = @ /\ ~(res = "ok" /\ r \in kids)]]

DestroyStart ==
  /\ reqs < MaxReqs /\ reqs' = reqs + 1 /\ op = Idle /\ vst = "Created"
  /\ vst' = "Deleting"
  /\ \E res \in {"ok", "lost", "fail"} : DestroyNexus(res)
  /\ ok' = {}
  /\ op' = [Idle EXCEPT !.kind = "destroy", !.pc = "replicas", !.todo = VolReplicas]
  /\ UNCHANGED <<num, dev, cur, up>>

\* Every replica is destroyed, or only disowned if its pool is not known.
DestroyOne(r) ==
  /\ op.kind = "destroy" /\ r \in op.todo
  /\ op' = [op EXCEPT !.todo = @ \ {r}]
  /\ \/ rep[r].st = "none" /\ UNCHANGED <<rep, dev, cur, faults>>
     \/ rep[r].st # "none" /\ DestroyReplica(r)
     \/ /\ r \notin up /\ rep' = [rep EXCEPT ![r].vol = FALSE]
        /\ UNCHANGED <<dev, cur, faults>>
  /\ UNCHANGED <<num, vst, nst, kids, child, ok, up, reqs>>

DestroyDone ==
  /\ op.kind = "destroy" /\ op.todo = {} /\ vst' = "gone" /\ op' = Idle
  /\ UNCHANGED <<num, nst, rep, dev, kids, child, ok, cur, up, faults, reqs>>

\* The volume collector destroys a volume left in Deleting, the nexus collector
\* a nexus left in Deleting.
DestroyAgain ==
  /\ op = Idle /\ vst = "Deleting"
  /\ op' = [Idle EXCEPT !.kind = "destroy", !.pc = "replicas", !.todo = VolReplicas]
  /\ UNCHANGED <<num, vst, nst, rep, dev, kids, child, ok, cur, up, faults, reqs>>

CollectNexus ==
  /\ nst = "Deleting"
  /\ \E res \in {"ok", "lost", "fail"} : DestroyNexus(res)
  /\ UNCHANGED <<num, vst, dev, ok, cur, up, op, reqs>>

-----------------------------------------------------------------------------
(* The core agent restarts: the operation is forgotten, a replica being     *)
(* created is to be deleted, ownership by nexuses is rebuilt from the specs *)

CoreRestart ==
  /\ faults < MaxFaults /\ faults' = faults + 1 /\ op' = Idle
  /\ rep' = [r \in Pools |->
               [st |-> IF rep[r].st = "Creating" THEN "Deleting" ELSE rep[r].st,
                vol |-> rep[r].vol, nx |-> r \in kids /\ rep[r].st # "none"]]
  /\ UNCHANGED <<num, vst, nst, dev, kids, child, ok, cur, up, reqs>>

-----------------------------------------------------------------------------
(* The io-engine and the nodes (external)                                  *)

\* A child which fails is recorded as unhealthy before a write it missed is
\* acknowledged; the last online child is never faulted.
FaultChild(r) ==
  /\ child[r] \in {"Online", "Degraded"} /\ (OnlineChildren \cap Listed) \ {r} # {}
  /\ IF r \in Listed THEN faults < MaxFaults /\ faults' = faults + 1 ELSE UNCHANGED faults
  /\ child' = [child EXCEPT ![r] = "Faulted"] /\ ok' = ok \ {r} /\ cur' = cur \ {r}
  /\ UNCHANGED <<num, vst, nst, rep, dev, kids, up, op, reqs>>

RebuildDone(r) ==
  /\ child[r] = "Degraded" /\ r \in Listed /\ OnlineChildren \cap Listed # {}
  /\ child' = [child EXCEPT ![r] = "Online"] /\ ok' = ok \cup {r} /\ cur' = cur \cup {r}
  /\ UNCHANGED <<num, vst, nst, rep, dev, kids, up, op, faults, reqs>>

NodeDown(r) ==
  /\ r \in up /\ faults < MaxFaults /\ faults' = faults + 1 /\ up' = up \ {r}
  /\ UNCHANGED <<num, vst, nst, rep, dev, kids, child, ok, cur, op, reqs>>

NodeUp(r) ==
  /\ r \notin up /\ up' = up \cup {r}
  /\ UNCHANGED <<num, vst, nst, rep, dev, kids, child, ok, cur, op, faults, reqs>>

Pass ==
  \/ HotSpare \/ HotSpareNext \/ RemoveUnusedChild \/ CountReplicas
  \/ RemoveExcess \/ CountChildren
  \/ \E r \in Pools : OnlineFaulted(r) \/ RemoveFaulted(r)

Operation ==
  \/ CreateLog \/ CreateRpc \/ AttachNew \/ MoveCheck \/ MoveFault
  \/ DecreaseChild \/ FinishDestroy \/ DestroyDone
  \/ \E r \in Pools : DestroyOne(r)

Collect ==
  \/ DestroyAgain \/ CollectNexus
  \/ \E r \in Pools : DisownUnused(r) \/ CollectReplica(r)

Next ==
  \/ IncreaseStart \/ DecreaseStart \/ DestroyStart \/ CoreRestart
  \/ Pass \/ Operation \/ Collect
  \/ \E r \in Pools : MoveStart(r) \/ FaultChild(r) \/ RebuildDone(r) \/ NodeDown(r) \/ NodeUp(r)

Spec == Init /\ [][Next]_repVars

\* The reconcilers poll forever, an operation runs to its end, the io-engine
\* rebuilds and a node which is down comes back.
Fairness ==
  /\ WF_repVars(Pass) /\ WF_repVars(Operation)
  /\ WF_repVars(DestroyAgain) /\ WF_repVars(CollectNexus)
  /\ \A r \in Pools : /\ WF_repVars(DisownUnused(r)) /\ WF_repVars(CollectReplica(r))
                      /\ WF_repVars(RebuildDone(r)) /\ WF_repVars(NodeUp(r))
FairSpec == Spec /\ Fairness

-----------------------------------------------------------------------------
(* Properties                                                              *)

\* Whatever is removed, moved, disowned or collected, some replica holds all of
\* the data of a volume which is not being destroyed, and the NexusInfo says so:
\* "make sure we're not removing the last healthy replica of the volume which
\* would cause data loss" (remove_child_replica, RemoveUnusedReplica).  It takes
\* four faults to lose it: a replica whose addition to the nexus was not
\* acknowledged is no child to the agent, which may destroy it once it is the
\* last healthy one.
DataIsKept ==
  vst = "Created" => dev \cap cur \cap ok # {}

\* No replica which the target's spec lists is destroyed under the nexus: it is
\* owned until the child has left the nexus (start_destroy_by, InUse).
UsedIsOwned ==
  (vst = "Created" /\ nst = "Created") =>
    \A r \in kids : rep[r].st = "Created" /\ rep[r].nx /\ r \in dev

\* The hot spare reconciler brings a volume back to as many online children as
\* it should have replicas, once faults and requests stop.
Restored == <>[](vst = "Created" => VolStatus = "Online")

\* "Volume destruction will succeed even if the nexus or replicas cannot be
\* destroyed": all of a destroyed volume's storage is reclaimed later.
Reclaimed ==
  vst = "Deleting" ~> (vst = "gone" /\ nst = "gone" /\ dev = {} /\ \A r \in Pools : rep[r] = NoRep)

\* Not so: "the number of created volume replicas should eventually match the
\* required number of replicas".  If the answer to the removal of an excess child
\* is lost the child stays in the nexus's spec alone; the volume is Online, so
\* missing_children_remover is not run, and the replica counts as in use.
CountMatches == <>[](vst = "Created" => Cardinality(VolReplicas) = num)

\* Not so: a failed attach leaves the nexus an owner, and a replica removed from
\* the volume then is refused (InUse) after the volume has already let it go.
NoneStranded == [](\A r \in Pools : rep[r].nx => (rep[r].vol \/ r \in kids))

-----------------------------------------------------------------------------
(* Why what the target uses is not destroyed: the inductive invariant      *)

\* A replica which was created exists on its pool until it is destroyed.
CreatedInv ==
  /\ rep \in [Pools -> ReplicaSpecs]
  /\ kids \subseteq Pools /\ up \subseteq Pools
  /\ \A r \in Pools : rep[r].st = "Created" => r \in dev

\* The replica an operation is creating is its own, the one it is about to destroy is
\* not one of the target's, and a volume is destroyed only when it is Deleting.
IsOp(o) ==
  o = [kind |-> o.kind, pc |-> o.pc, r |-> o.r, n |-> o.n,
       todo |-> o.todo, un |-> o.un, he |-> o.he]

OpInv ==
  /\ IsOp(op)
  /\ op.pc = "creating" => op.r \in Pools /\ rep[op.r].st = "Creating"
  /\ op.pc = "attach" => op.r \in Pools
  /\ op.kind \in {"decrease", "move"} /\ op.pc = "destroy" => op.r \notin kids
  /\ op.kind = "destroy" => vst # "Created" /\ op.pc = "replicas"

UseInv == CreatedInv /\ OpInv /\ (vst = "Created" => nst = "Created") /\ UsedIsOwned
=============================================================================
