----------------------------- MODULE Placement -----------------------------
(***************************************************************************)
(* Where the replicas of volumes are placed: creation of a volume          *)
(* (volume/operations.rs create_ext, create, create_spread), one replica   *)
(* more (increase_volume_replica), resize, and the scheduling policies of  *)
(* controller/scheduling which filter and order the pools.                 *)
(*                                                                         *)
(* The volumes share the pools and may share an affinity group, whose      *)
(* guard is held from the choice of the candidates until the replicas      *)
(* exist.  A replica is [v, p, k]: its volume, its pool and a number which *)
(* keeps apart a new replica and one left over from an earlier attempt.    *)
(* Pools are online or not: a Degraded pool and the soft preference for    *)
(* encrypted pools are left out; the labels, the encryption and the        *)
(* cluster size which a request asks of a pool are its set fit.            *)
(***************************************************************************)
EXTENDS Naturals, FiniteSets, FiniteSetsExt, SequencesExt

CONSTANTS Vols, Nodes, Pools,
          NodeOf, Zone,        \* the node of a pool, the spread label of a node
          Capacity,            \* of a pool
          Requests,            \* what the users ask for: a set of [Vols -> request]
          FirstSize, MaxSize,  \* sizes of volumes
          PoolCommit, VolCommit, InitCommit, Watermark,  \* ThinArgs and the free space watermark
          Slots,               \* bound: replicas of one volume on one pool
          MaxEvents            \* bound: requests, failed calls, cordons, lost pools, restarts

VARIABLES
  req,      \* the request of each volume: num, thin, ag, spread, allowed, fit
  vst,      \* status of the VolumeSpec
  num,      \* VolumeSpec.num_replicas
  size,     \* VolumeSpec.size
  reps,     \* ReplicaSpecs, with the replica on the pool: dev, size and used
  op,       \* the operation which holds the volume's guard
  members,  \* AffinityGroupSpec.volumes
  holder,   \* the volume which holds the guard of the affinity group
  cordon,   \* cordoned nodes
  up,       \* pools which are online, on an online node
  overlap,  \* history: pools were chosen while another operation was using its choice
  rough,    \* history: volumes given a second replica, or created over their own leftovers
  events

placeVars == <<req, vst, num, size, reps, op, members, holder, cordon, up, overlap, rough, events>>

Event(n) == events + n <= MaxEvents /\ events' = events + n
None == "none"
Idle == [pc |-> "idle", kind |-> None, list |-> <<>>, sets |-> <<>>, made |-> {}, failed |-> {}, keep |-> {}]

Owned(v) == {r \in reps : r.v = v /\ r.own}
Placed(v) == {r \in Owned(v) : r.st = "Created"}
On(p) == {r \in reps : r.p = p /\ r.dev}
Listed(r) == r.dev /\ r.p \in up
NodesOf(ps) == {NodeOf[p] : p \in ps}
PoolsOf(rs) == {r.p : r \in rs}

TypeOK ==
  /\ req \in Requests /\ overlap \in BOOLEAN
  /\ vst \in [Vols -> {"none", "Creating", "Created"}]
  /\ size \in [Vols -> FirstSize..MaxSize] /\ num \in [Vols -> 1..Cardinality(Nodes)]
  /\ \A r \in reps : /\ r.v \in Vols /\ r.p \in Pools /\ r.k \in Slots /\ r.used <= r.size
                     /\ r.st \in {"Created", "Deleting"}
  /\ \A v \in Vols : op[v].keep \subseteq op[v].made /\ op[v].made \cup op[v].failed \subseteq Range(op[v].list)
  /\ members \subseteq Vols /\ holder \in Vols \cup {None}
  /\ cordon \subseteq Nodes /\ up \subseteq Pools

Init ==
  /\ req \in Requests
  /\ vst = [v \in Vols |-> "none"] /\ num = [v \in Vols |-> req[v].num]
  /\ size = [v \in Vols |-> FirstSize] /\ reps = {} /\ op = [v \in Vols |-> Idle]
  /\ members = {} /\ holder = None /\ cordon = {} /\ up = Pools
  /\ overlap = FALSE /\ rough = {} /\ events = 0

-----------------------------------------------------------------------------
(* The pools as the policies see them                                      *)

Committed(p) == MapThenSumSet(LAMBDA r : r.size, On(p))
Free(p) == Capacity[p] - MapThenSumSet(LAMBDA r : r.used, On(p))
OverCommitment(p) == IF Committed(p) > Capacity[p] THEN Committed(p) - Capacity[p] ELSE 0
AgCount(p) == Cardinality({r \in reps : r.own /\ r.p = p /\ r.v \in members})

\* Value::dual_grade: the share in percent of one of two values.
Grade(a, b, higher) ==
  IF a + b = 0 THEN 50 ELSE ((IF higher THEN a ELSE b) * 100) \div (a + b)

\* The criteria of SimplePolicy and of ThickPolicy; the group's own count of
\* replicas matters to its volumes of several replicas.
Item(p) == [ag |-> AgCount(p), total |-> Cardinality(On(p)), free |-> Free(p),
            over |-> OverCommitment(p)]
Weight(f, w, higher) == [f |-> f, w |-> w, higher |-> higher]
Criteria(v, grouped) ==
  IF req[v].thin
  THEN {Weight("free", 40, TRUE), Weight("over", 35, FALSE)} \cup
       IF grouped THEN {Weight("ag", 10, FALSE), Weight("total", 15, FALSE)}
       ELSE {Weight("total", 25, FALSE)}
  ELSE {Weight("free", 60, TRUE)} \cup
       IF grouped THEN {Weight("ag", 15, FALSE), Weight("total", 25, FALSE)}
       ELSE {Weight("total", 40, FALSE)}
Score(criteria, a, b) ==
  MapThenSumSet(LAMBDA c : c.w * Grade(a[c.f], b[c.f], c.higher), criteria) \div 100

\* sort_by_weights of two items: the better score comes first.
Precedes(v, a, b) ==
  LET criteria == Criteria(v, req[v].ag /\ num[v] > 1 /\ a.ag + b.ag > 0) IN
  Score(criteria, a, b) > Score(criteria, b, a)

\* sort_unstable_by.  Scores of pairs are not transitive: pools which no order
\* sorts may come in any order.
Sorted(v, ps) ==
  LET all == SetToSeqs(ps)
      item == [p \in ps |-> Item(p)]
      before == {x \in ps \X ps : Precedes(v, item[x[1]], item[x[2]])}
      sorted == {s \in all : \A i, j \in DOMAIN s : i < j => <<s[j], s[i]>> \notin before}
  IN  IF sorted = {} THEN all ELSE sorted

-----------------------------------------------------------------------------
(* The filters of AddVolumeReplica                                         *)

\* NodeFilters: not cordoned, online, allowed, without a replica of the
\* volume, and with a spread label that no replica of the volume uses.
UsedZones(v) == {Zone[n] : n \in NodesOf(PoolsOf(Owned(v)))} \ {None}
NodeFits(v, n) ==
  /\ n \notin cordon
  /\ req[v].allowed # {} => n \in req[v].allowed
  /\ n \notin NodesOf(PoolsOf(Owned(v)))
  /\ req[v].spread => Zone[n] # None /\ Zone[n] \notin UsedZones(v)

\* get_restricted_nodes: the nodes of the group's other volumes, for a volume
\* of one replica which is not being given its second.
Restricted(v) ==
  IF req[v].ag /\ num[v] = 1 /\ op[v].kind # "grow"
  THEN NodesOf(PoolsOf({r \in reps : r.own /\ r.v \in members \ {v}})) ELSE {}

\* SimplePolicy::min_free_space_util, for `required` more of a thin volume.
\* allocated_bytes is not known when none of the volume's replicas is listed.
SlackFor(v, required) ==
  LET listed == {r \in Owned(v) : Listed(r)}
      used == IF listed = {} THEN 0 ELSE Max({r.used : r \in listed})
      slack == ((IF used = 0 THEN InitCommit ELSE VolCommit) * required) \div 100
  IN  IF listed = {} /\ Owned(v) # {} THEN required ELSE Min({used + slack, required})

\* PoolBaseFilters::overcommit.
Commits(p, more) == (more + Committed(p)) * 100 < PoolCommit * Capacity[p]

HasSpace(v, p, more) ==
  IF req[v].thin
  THEN Free(p) > Watermark /\ Free(p) > SlackFor(v, more) /\ Commits(p, more)
  ELSE Free(p) > more

Suitable(v) ==
  {p \in up \cap req[v].fit :
     /\ NodeFits(v, NodeOf[p]) /\ NodeOf[p] \notin Restricted(v)
     /\ Capacity[p] > size[v] /\ HasSpace(v, p, size[v])}

-----------------------------------------------------------------------------
(* Creating and destroying one replica                                     *)

\* A call to the io-engine of a pool: what it can do, and a fault otherwise.
Outcome(possible, res) ==
  IF possible
  THEN IF res = "ok" THEN UNCHANGED events ELSE Event(1)
  ELSE res = "fail" /\ UNCHANGED events

\* ReplicaSpec create: refused on a cordoned node; a failed creation leaves a
\* spec to be deleted, a lost answer also the replica; invalid arguments leave
\* nothing.  A thick replica takes its space at once.
NewReplica(v, p, st, dev) ==
  LET free == {k \in Slots : ~\E r \in reps : r.v = v /\ r.p = p /\ r.k = k}
      used == IF req[v].thin THEN 0 ELSE size[v]
  IN  [v |-> v, p |-> p, k |-> Min(free), st |-> st, own |-> TRUE, dev |-> dev,
       spec |-> size[v], size |-> size[v], used |-> used]
HasSlot(v, p) == \E k \in Slots : ~\E r \in reps : r.v = v /\ r.p = p /\ r.k = k
CreateReplica(v, p, res) ==
  /\ HasSlot(v, p)
  /\ IF NodeOf[p] \in cordon THEN res = "invalid" /\ UNCHANGED events
     ELSE Outcome(p \in up /\ (req[v].thin \/ Free(p) >= size[v]), res)
  /\ reps' = CASE res = "ok" -> reps \cup {NewReplica(v, p, "Created", TRUE)}
               [] res = "lost" -> reps \cup {NewReplica(v, p, "Deleting", TRUE)}
               [] res = "fail" -> reps \cup {NewReplica(v, p, "Deleting", FALSE)}
               [] res = "invalid" -> reps

\* ReplicaSpec destroy of several replicas, all owners removed: `gone` are
\* destroyed, the others are left to the garbage collector.
Leftover(r) == [r EXCEPT !.st = "Deleting", !.own = FALSE]
DestroyReplicas(rs, gone) ==
  /\ gone \subseteq {r \in rs : r.p \in up}
  /\ LET failed == Cardinality({r \in rs \ gone : r.p \in up}) IN
     Event(failed)
  /\ reps' = (reps \ rs) \cup {Leftover(r) : r \in rs \ gone}

-----------------------------------------------------------------------------
(* Creation of a volume                                                    *)

Release(v) == holder' = IF holder = v THEN None ELSE holder
Choosing(v) == overlap' = (overlap \/ \E w \in Vols \ {v} : op[w].pc \in {"create", "resize"})

\* create_ext: a new volume, or one a restart left Creating.
CreateStart(v) ==
  /\ Event(1) /\ op[v] = Idle /\ vst[v] \in {"none", "Creating"}
  /\ req[v].allowed = {} \/ Cardinality(req[v].allowed) >= req[v].num
  /\ vst' = [vst EXCEPT ![v] = "Creating"]
  /\ members' = IF req[v].ag THEN members \cup {v} ELSE members
  /\ rough' = IF vst[v] = "none" /\ Owned(v) # {} THEN rough \cup {v} ELSE rough
  /\ op' = [op EXCEPT ![v] = [Idle EXCEPT !.kind = "create",
                                          !.pc = IF req[v].spread THEN "clean" ELSE "choose"]]
  /\ UNCHANGED <<req, num, size, reps, holder, cordon, up, overlap>>

\* undo_previous: the replicas of an earlier attempt are destroyed or disowned.
UndoPrevious(v) ==
  /\ op[v].pc = "clean" /\ op' = [op EXCEPT ![v].pc = "choose"]
  /\ \E gone \in SUBSET Owned(v) : DestroyReplicas(Owned(v), gone)
  /\ UNCHANGED <<req, vst, num, size, members, holder, cordon, up, overlap, rough>>

\* The volume is not created: OnCreateFail::Delete, and it leaves its group.
Forget(v) ==
  /\ vst' = [vst EXCEPT ![v] = "none"] /\ op' = [op EXCEPT ![v] = Idle]
  /\ num' = [num EXCEPT ![v] = req[v].num] /\ size' = [size EXCEPT ![v] = FirstSize]
  /\ members' = members \ {v}

\* node_spread_combinations: on nodes of their own, with spread labels of
\* their own, in the order of the candidates.
Apart(ps) ==
  \A p, q \in ps :
    p # q => /\ NodeOf[p] # NodeOf[q]
             /\ Zone[NodeOf[p]] # None => Zone[NodeOf[p]] # Zone[NodeOf[q]]
Combinations(v, list) ==
  LET sets == {c \in kSubset(num[v], DOMAIN list) : Apart({list[i] : i \in c})}
      earlier(c, d) == Min((c \ d) \cup (d \ c)) \in c
      ordered == SetToSortSeq(sets, earlier)
      pools(c) == LET s == SetToSortSeq(c, LAMBDA i, j : i < j) IN [k \in DOMAIN s |-> list[s[k]]]
  IN  [k \in DOMAIN ordered |-> pools(ordered[k])]

\* create_volume_replicas (specs.rs): the affinity group's guard, then the
\* candidates.
MutGuardFree(v) == TRUE
GuardFree(v) == req[v].ag => holder = None
Choose(v) ==
  /\ op[v].pc = "choose" /\ op[v].kind = "create" /\ GuardFree(v)
  /\ LET ps == Suitable(v) IN
     IF Cardinality(ps) < Max({1, num[v]})
     THEN Forget(v) /\ UNCHANGED <<holder, overlap>>
     ELSE /\ holder' = IF req[v].ag THEN v ELSE holder
          /\ \E s \in Sorted(v, ps) :
               op' = [op EXCEPT ![v].pc = "create", ![v].list = s,
                                ![v].sets = IF req[v].spread THEN Combinations(v, s) ELSE <<>>]
          /\ Choosing(v) /\ UNCHANGED <<vst, num, size, members>>
  /\ UNCHANGED <<req, reps, cordon, up, rough, events>>

\* create_spread gives up a combination at its first replica which already
\* failed; the replicas before it have been created by then.
Hopeful(o, c) ==
  LET rest == SelectSeq(c, LAMBDA p : p \notin o.made) IN rest = <<>> \/ Head(rest) \notin o.failed
Combination(o) ==
  LET i == SelectInSeq(o.sets, LAMBDA c : Hopeful(o, c)) IN IF i = 0 THEN {} ELSE Range(o.sets[i])

FirstOf(list, ps) == Head(SelectSeq(list, LAMBDA p : p \in ps))

\* The pools tried next, one at most: by create the first on a node without a
\* replica of this attempt, by create_spread the rest of a combination, by
\* create_volume_replica_with the first.
Untried(v, o) ==
  CASE o.kind = "grow" -> IF o.made # {} THEN {} ELSE Range(o.list) \ o.failed
    [] o.kind = "create" /\ req[v].spread -> Combination(o) \ o.made
    [] o.kind = "create" /\ ~req[v].spread ->
         IF Cardinality(o.made) >= num[v] THEN {}
         ELSE {p \in Range(o.list) \ (o.made \cup o.failed) : NodeOf[p] \notin NodesOf(o.made)}

\* One replica is tried, for a new volume or for one replica more.
TryReplica(v) ==
  /\ op[v].pc = "create"
  /\ LET untried == Untried(v, op[v])
         p == FirstOf(op[v].list, untried)
     IN
     \E res \in {"ok", "lost", "fail", "invalid"} :
       /\ untried # {} /\ CreateReplica(v, p, res)
       /\ op' = IF res = "ok" THEN [op EXCEPT ![v].made = @ \cup {p}]
                ELSE [op EXCEPT ![v].failed = @ \cup {p}]
  /\ UNCHANGED <<req, vst, num, size, members, holder, cordon, up, overlap, rough>>

\* The candidates, and with them the guard of the group, are dropped.
Kept(v, o) ==
  IF req[v].spread THEN Combination(o)
  ELSE IF Cardinality(o.made) >= num[v] THEN o.made ELSE {}
CreateTried(v) ==
  /\ op[v].pc = "create" /\ op[v].kind = "create" /\ Untried(v, op[v]) = {}
  /\ op' = [op EXCEPT ![v].pc = "undo", ![v].keep = Kept(v, op[v])]
  /\ Release(v)
  /\ UNCHANGED <<req, vst, num, size, reps, members, cordon, up, overlap, rough, events>>

\* undo of the replicas which are not used, then complete_create.
CreateDone(v) ==
  /\ op[v].pc = "undo"
  /\ LET rs == {r \in Owned(v) : r.st = "Created" /\ r.p \in op[v].made \ op[v].keep} IN
     \E gone \in SUBSET rs : DestroyReplicas(rs, gone)
  /\ IF op[v].keep = {} THEN Forget(v)
     ELSE /\ vst' = [vst EXCEPT ![v] = "Created"] /\ op' = [op EXCEPT ![v] = Idle]
          /\ UNCHANGED <<num, size, members>>
  /\ UNCHANGED <<req, holder, cordon, up, overlap, rough>>

-----------------------------------------------------------------------------
(* One replica more, resize, destruction                                   *)

\* set_replica of an Online volume: increase_volume_replica.
GrowStart(v) ==
  /\ Event(1) /\ op[v] = Idle /\ vst[v] = "Created"
  /\ num[v] < Cardinality(Nodes) /\ Cardinality(Owned(v)) = num[v]
  /\ \A r \in Owned(v) : r.st = "Created" /\ Listed(r)
  /\ op' = [op EXCEPT ![v] = [Idle EXCEPT !.kind = "grow", !.pc = "choose"]]
  /\ rough' = rough \cup {v}
  /\ UNCHANGED <<req, vst, num, size, reps, members, holder, cordon, up, overlap>>
GrowChoose(v) ==
  /\ op[v].pc = "choose" /\ op[v].kind = "grow" /\ GuardFree(v)
  /\ LET ps == Suitable(v) IN
     IF ps = {} THEN op' = [op EXCEPT ![v] = Idle] /\ UNCHANGED <<holder, overlap>>
     ELSE /\ holder' = IF req[v].ag THEN v ELSE holder
          /\ \E s \in Sorted(v, ps) : op' = [op EXCEPT ![v].pc = "create", ![v].list = s]
          /\ Choosing(v)
  /\ UNCHANGED <<req, vst, num, size, reps, members, cordon, up, rough, events>>
GrowDone(v) ==
  /\ op[v].pc = "create" /\ op[v].kind = "grow"
  /\ Untried(v, op[v]) = {}
  /\ num' = IF op[v].made # {} THEN [num EXCEPT ![v] = @ + 1] ELSE num
  /\ op' = [op EXCEPT ![v] = Idle] /\ Release(v)
  /\ UNCHANGED <<req, vst, size, reps, members, cordon, up, overlap, rough, events>>

Resizable(v) ==
  LET rs == {r \in Owned(v) : Listed(r) /\ HasSpace(v, r.p, 1)} IN Cardinality(rs) = num[v]
ResizeStart(v) ==
  /\ Event(1) /\ op[v] = Idle /\ vst[v] = "Created"
  /\ size[v] < MaxSize /\ Resizable(v)
  /\ LET rs == {r \in Owned(v) : Listed(r) /\ HasSpace(v, r.p, 1)} IN
     op' = [op EXCEPT ![v] = [Idle EXCEPT !.kind = "resize", !.pc = "resize",
                                          !.list = SetToSeq(PoolsOf(rs))]]
  /\ Choosing(v)
  /\ UNCHANGED <<req, vst, num, size, reps, members, holder, cordon, up, rough>>
\* resize_volume_replicas: one after the other, until one fails, as one does
\* which is being deleted.
Resized(r, to) == [r EXCEPT !.size = to, !.used = IF req[r.v].thin THEN Min({@, to}) ELSE to]
ResizeReplica(v) ==
  /\ op[v].pc = "resize" /\ op[v].made # Range(op[v].list)
  /\ LET p == FirstOf(op[v].list, Range(op[v].list) \ op[v].made)
         rs == {r \in Owned(v) : r.p = p /\ Listed(r)}
         new == {Resized(r, size[v] + 1) : r \in rs}
     IN
     \E res \in {"ok", "lost", "fail"} :
       /\ Outcome((\E r \in rs : r.st = "Created") /\ (req[v].thin \/ Free(p) > 0), res)
       /\ reps' = CASE res = "ok" -> (reps \ rs) \cup {[r EXCEPT !.spec = r.size] : r \in new}
                    [] res = "lost" -> (reps \ rs) \cup new
                    [] res = "fail" -> reps
       /\ op' = IF res = "ok" THEN [op EXCEPT ![v].made = @ \cup {p}] ELSE [op EXCEPT ![v] = Idle]
  /\ UNCHANGED <<req, vst, num, size, members, holder, cordon, up, overlap, rough>>
ResizeDone(v) ==
  /\ op[v].pc = "resize" /\ op[v].made = Range(op[v].list)
  /\ size' = [size EXCEPT ![v] = @ + 1] /\ op' = [op EXCEPT ![v] = Idle]
  /\ UNCHANGED <<req, vst, num, reps, members, holder, cordon, up, overlap, rough, events>>

\* revert_expanded_replicas: a replica larger than its unpublished volume
\* shrinks back.
Reclaim(r) ==
  /\ op[r.v] = Idle /\ vst[r.v] = "Created" /\ r.own /\ Listed(r) /\ r.spec > size[r.v]
  /\ \E res \in {"ok", "lost"} :
       /\ Outcome(TRUE, res)
       /\ LET new == Resized(r, size[r.v]) IN
          reps' = (reps \ {r}) \cup {IF res = "ok" THEN [new EXCEPT !.spec = new.size] ELSE new}
  /\ UNCHANGED <<req, vst, num, size, op, members, holder, cordon, up, overlap, rough>>

\* destroy of a volume: what cannot be destroyed is left to the collector.
Destroy(v) ==
  /\ Event(1) /\ op[v] = Idle /\ vst[v] # "none"
  /\ \E gone \in SUBSET Owned(v) : DestroyReplicas(Owned(v), gone)
  /\ Forget(v)
  /\ UNCHANGED <<req, holder, cordon, up, overlap, rough>>

\* The replica reconciler: a replica whose volume is gone, or being deleted.
Collect(r) ==
  /\ r.st = "Deleting" \/ ~r.own \/ vst[r.v] = "none"
  /\ \E gone \in SUBSET {r} : DestroyReplicas({r}, gone) /\ (gone # {} \/ r # Leftover(r))
  /\ UNCHANGED <<req, vst, num, size, op, members, holder, cordon, up, overlap, rough>>

-----------------------------------------------------------------------------
(* The application, the nodes and the core agent                           *)

\* All of a volume is written: thin replicas take their space, if there is any.
Write(v) ==
  /\ Event(1) /\ vst[v] = "Created" /\ op[v] = Idle
  /\ \A r \in Placed(v) : /\ Listed(r) /\ r.size >= size[v]
                          /\ Free(r.p) + r.used >= size[v]
  /\ reps' = (reps \ Placed(v)) \cup {[r EXCEPT !.used = size[v]] : r \in Placed(v)}
  /\ reps' # reps
  /\ UNCHANGED <<req, vst, num, size, op, members, holder, cordon, up, overlap, rough>>

Cordon(n) ==
  /\ Event(1) /\ n \notin cordon /\ cordon' = cordon \cup {n}
  /\ UNCHANGED <<req, vst, num, size, reps, op, members, holder, up, overlap, rough>>
PoolDown(p) ==
  /\ Event(1) /\ p \in up /\ up' = up \ {p}
  /\ UNCHANGED <<req, vst, num, size, reps, op, members, holder, cordon, overlap, rough>>
PoolUp(p) ==
  /\ p \in Pools \ up /\ up' = up \cup {p}
  /\ UNCHANGED <<req, vst, num, size, reps, op, members, holder, cordon, overlap, rough, events>>

\* The core agent restarts: operations and guards are forgotten, the affinity
\* group is rebuilt from the persisted volumes.
Restart ==
  /\ Event(1) /\ op' = [v \in Vols |-> Idle] /\ op' # op /\ holder' = None
  /\ members' = {v \in Vols : req[v].ag /\ vst[v] # "none"}
  /\ UNCHANGED <<req, vst, num, size, reps, cordon, up, overlap, rough>>

Next ==
  \/ \E v \in Vols :
       \/ CreateStart(v) \/ UndoPrevious(v) \/ Choose(v) \/ TryReplica(v) \/ CreateTried(v)
       \/ CreateDone(v) \/ GrowStart(v) \/ GrowChoose(v) \/ GrowDone(v)
       \/ ResizeStart(v) \/ ResizeReplica(v) \/ ResizeDone(v) \/ Destroy(v) \/ Write(v)
  \/ \E r \in reps : Reclaim(r) \/ Collect(r)
  \/ \E n \in Nodes : Cordon(n)
  \/ \E p \in Pools : PoolDown(p) \/ PoolUp(p)
  \/ Restart

Spec == Init /\ [][Next]_placeVars

-----------------------------------------------------------------------------
(* Properties                                                              *)

Settled(v) == vst[v] = "Created"

\* The replicas of a volume are on different nodes, and with a spread topology
\* on nodes with different labels, after failed attempts, restarts and growth
\* (NodeFilters::unused and topology, create, node_spread_combinations,
\* undo_previous).
ReplicasApart ==
  \A v \in Vols : Settled(v) =>
    \A r, s \in Placed(v) :
      r # s => /\ NodeOf[r.p] # NodeOf[s.p]
               /\ req[v].spread => Zone[NodeOf[r.p]] # Zone[NodeOf[s.p]]

\* Two volumes of one affinity group which have always had one replica do not
\* share a node, though they are created at the same time: "this policy is
\* strict" (SingleReplicaPolicy), by the group's guard.  A volume created over
\* the replicas an earlier volume of that name left behind is excepted.
AffinityApart ==
  \A v, w \in Vols :
    v # w /\ Settled(v) /\ Settled(w) /\ req[v].ag /\ req[w].ag
    /\ req[v].num = 1 /\ req[w].num = 1 /\ rough \cap {v, w} = {} =>
      NodesOf(PoolsOf(Placed(v))) \cap NodesOf(PoolsOf(Placed(w))) = {}

\* A volume's creation gives up only when the candidates which did not fail
\* cannot hold the replicas (create tries on, create_spread tries the next set).
GivesUpLast ==
  \A v \in Vols : op[v].pc = "undo" /\ op[v].keep = {} =>
    ~\E c \in kSubset(num[v], Range(op[v].list) \ op[v].failed) :
        IF req[v].spread THEN Apart(c) ELSE Cardinality(NodesOf(c)) = num[v]

\* While pools are chosen by one operation at a time, pools of thin replicas
\* only are never committed beyond the pool_commitment of ThinArgs.
CommitmentKept ==
  \A p \in Pools :
    ~overlap /\ On(p) # {} /\ (\A r \in On(p) : req[r.v].thin) =>
      Committed(p) * 100 < PoolCommit * Capacity[p]

\* Every replica of a volume is as large as the volume, whichever replicas were
\* resized before a resize failed and shrank back later (resizeable_replicas,
\* revert_expanded_replicas).  A volume with more replicas than it asks for is
\* excepted: resize wants as many replicas online as the volume has to have, not
\* all of them.
LargeEnough ==
  \A v \in Vols : Settled(v) /\ Cardinality(Placed(v)) <= num[v] =>
    \A r \in Placed(v) : r.size >= size[v]

\* When pools are chosen, one which is as good as another by every criterion is
\* not ordered after it (sort_by_weights, DualValWeightedScore).
BetterFirst ==
  LET item == [p \in Pools |-> Item(p)]
      asGood(a, b) == a.free >= b.free /\ a.ag <= b.ag /\ a.total <= b.total /\ a.over <= b.over
  IN
  \A v \in Vols : op[v].pc = "choose" =>
    \A p, q \in Pools : asGood(item[p], item[q]) => ~Precedes(v, item[q], item[p])
============================================================================
