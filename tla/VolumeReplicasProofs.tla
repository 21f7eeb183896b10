------------------------ MODULE VolumeReplicasProofs ------------------------
(***************************************************************************)
(* The replicas a volume target uses are never destroyed under it: TLAPS    *)
(* proof of UsedIsOwned, for any pools, any number of requests and faults.  *)
(***************************************************************************)
EXTENDS VolumeReplicas, TLAPS

\* The leaves are first-order; the ones that need more name SMT.
USE Zenon

\* The fields of a replica's specification.
LEMMA RepFields ==
    ASSUME rep \in [Pools -> ReplicaSpecs], NEW q \in Pools
    PROVE  /\ rep[q].st \in Statuses
           /\ rep[q].vol \in BOOLEAN /\ rep[q].nx \in BOOLEAN
           /\ rep[q] = [st |-> rep[q].st, vol |-> rep[q].vol, nx |-> rep[q].nx]
  BY DEF ReplicaSpecs

\* A specification with these fields.
LEMMA IsSpec ==
    ASSUME NEW s \in Statuses,
           NEW v \in BOOLEAN, NEW n \in BOOLEAN
    PROVE  [st |-> s, vol |-> v, nx |-> n] \in ReplicaSpecs
  BY DEF ReplicaSpecs

\* The ownership by the nexus is set in a specification.
LEMMA FieldSet ==
    ASSUME NEW x, NEW a, NEW b, NEW c, x = [st |-> a, vol |-> b, nx |-> c], NEW v
    PROVE  [x EXCEPT !.nx = v] = [st |-> a, vol |-> b, nx |-> v]
  BY SMT

\* One specification is replaced.
LEMMA Replaced ==
    ASSUME rep \in [Pools -> ReplicaSpecs], NEW r, NEW x \in ReplicaSpecs,
           rep' = [rep EXCEPT ![r] = x]
    PROVE  /\ rep' \in [Pools -> ReplicaSpecs]
           /\ \A q \in Pools : rep'[q] = IF q = r THEN x ELSE rep[q]
  OBVIOUS

\* The nexus gains or loses the ownership of one replica.
LEMMA OwnedByNexus ==
    ASSUME rep \in [Pools -> ReplicaSpecs], NEW r, NEW v \in BOOLEAN,
           rep' = [rep EXCEPT ![r].nx = v]
    PROVE  /\ rep' \in [Pools -> ReplicaSpecs]
           /\ \A q \in Pools : /\ rep'[q].st = rep[q].st
                               /\ rep'[q].nx = IF q = r THEN v ELSE rep[q].nx
<1>0. rep' = [q \in Pools |-> IF q = r THEN [rep[r] EXCEPT !.nx = v] ELSE rep[q]]
  OBVIOUS
<1>1. ASSUME NEW q \in Pools
      PROVE  rep'[q] = IF q = r THEN [st |-> rep[q].st, vol |-> rep[q].vol, nx |-> v]
                                ELSE rep[q]
  <2>1. CASE q # r
    BY <1>0, <2>1
  <2>2. CASE q = r
    <3>1. rep'[q] = [rep[q] EXCEPT !.nx = v]
      BY <1>0, <2>2
    <3>2. PICK a, b, c : rep[q] = [st |-> a, vol |-> b, nx |-> c]
      BY RepFields
    <3> QED
      BY <2>2, <3>1, <3>2
  <2> QED
    BY <2>1, <2>2
<1>2. ASSUME NEW q \in Pools PROVE rep'[q] \in ReplicaSpecs
  <2>1. CASE q # r
    BY <1>1, <2>1
  <2>2. CASE q = r
    <3>1. rep[q].st \in Statuses
          /\ rep[q].vol \in BOOLEAN /\ rep[q].nx \in BOOLEAN
      BY RepFields
    <3>2. [st |-> rep[q].st, vol |-> rep[q].vol, nx |-> v] \in ReplicaSpecs
      BY <3>1, IsSpec
    <3> QED
      BY <1>1, <2>2, <3>2
  <2> QED
    BY <2>1, <2>2
<1>3. rep' = [q \in Pools |-> rep'[q]]
  BY <1>0
<1>4. rep' \in [Pools -> ReplicaSpecs]
  BY <1>2, <1>3
<1>5. ASSUME NEW q \in Pools PROVE rep'[q].st = rep[q].st /\ rep'[q].nx = IF q = r THEN v ELSE rep[q].nx
  BY <1>1
<1> QED
  BY <1>4, <1>5

\* The volume gains or loses the ownership of one replica.
LEMMA OwnedByVolume ==
    ASSUME rep \in [Pools -> ReplicaSpecs], NEW r, NEW v \in BOOLEAN,
           rep' = [rep EXCEPT ![r].vol = v]
    PROVE  /\ rep' \in [Pools -> ReplicaSpecs]
           /\ \A q \in Pools : rep'[q].st = rep[q].st /\ rep'[q].nx = rep[q].nx
<1>0. rep' = [q \in Pools |-> IF q = r THEN [rep[r] EXCEPT !.vol = v] ELSE rep[q]]
  OBVIOUS
<1>1. ASSUME NEW q \in Pools
      PROVE  rep'[q] = IF q = r THEN [st |-> rep[q].st, vol |-> v, nx |-> rep[q].nx]
                                ELSE rep[q]
  <2>1. CASE q # r
    BY <1>0, <2>1
  <2>2. CASE q = r
    <3>1. rep'[q] = [rep[q] EXCEPT !.vol = v]
      BY <1>0, <2>2
    <3>2. PICK a, b, c : rep[q] = [st |-> a, vol |-> b, nx |-> c]
      BY RepFields
    <3> QED
      BY <2>2, <3>1, <3>2
  <2> QED
    BY <2>1, <2>2
<1>2. ASSUME NEW q \in Pools PROVE rep'[q] \in ReplicaSpecs
  <2>1. CASE q # r
    BY <1>1, <2>1
  <2>2. CASE q = r
    <3>1. rep[q].st \in Statuses
          /\ rep[q].vol \in BOOLEAN /\ rep[q].nx \in BOOLEAN
      BY RepFields
    <3>2. [st |-> rep[q].st, vol |-> v, nx |-> rep[q].nx] \in ReplicaSpecs
      BY <3>1, IsSpec
    <3> QED
      BY <1>1, <2>2, <3>2
  <2> QED
    BY <2>1, <2>2
<1>3. rep' = [q \in Pools |-> rep'[q]]
  BY <1>0
<1>4. rep' \in [Pools -> ReplicaSpecs]
  BY <1>2, <1>3
<1>5. ASSUME NEW q \in Pools PROVE rep'[q].st = rep[q].st /\ rep'[q].nx = rep[q].nx
  BY <1>1
<1> QED
  BY <1>4, <1>5

\* The status of one replica is set.
LEMMA StatusSet ==
    ASSUME rep \in [Pools -> ReplicaSpecs], NEW r, NEW v \in Statuses,
           rep' = [rep EXCEPT ![r].st = v]
    PROVE  /\ rep' \in [Pools -> ReplicaSpecs]
           /\ \A q \in Pools : /\ rep'[q].st = IF q = r THEN v ELSE rep[q].st
                               /\ rep'[q].nx = rep[q].nx
<1>0. rep' = [q \in Pools |-> IF q = r THEN [rep[r] EXCEPT !.st = v] ELSE rep[q]]
  OBVIOUS
<1>1. ASSUME NEW q \in Pools
      PROVE  rep'[q] = IF q = r THEN [st |-> v, vol |-> rep[q].vol, nx |-> rep[q].nx]
                                ELSE rep[q]
  <2>1. CASE q # r
    BY <1>0, <2>1
  <2>2. CASE q = r
    <3>1. rep'[q] = [rep[q] EXCEPT !.st = v]
      BY <1>0, <2>2
    <3>2. PICK a, b, c : rep[q] = [st |-> a, vol |-> b, nx |-> c]
      BY RepFields
    <3> QED
      BY <2>2, <3>1, <3>2
  <2> QED
    BY <2>1, <2>2
<1>2. ASSUME NEW q \in Pools PROVE rep'[q] \in ReplicaSpecs
  <2>1. CASE q # r
    BY <1>1, <2>1
  <2>2. CASE q = r
    <3>1. rep[q].st \in Statuses
          /\ rep[q].vol \in BOOLEAN /\ rep[q].nx \in BOOLEAN
      BY RepFields
    <3>2. [st |-> v, vol |-> rep[q].vol, nx |-> rep[q].nx] \in ReplicaSpecs
      BY <3>1, IsSpec
    <3> QED
      BY <1>1, <2>2, <3>2
  <2> QED
    BY <2>1, <2>2
<1>3. rep' = [q \in Pools |-> rep'[q]]
  BY <1>0
<1>4. rep' \in [Pools -> ReplicaSpecs]
  BY <1>2, <1>3
<1>5. ASSUME NEW q \in Pools PROVE rep'[q].st = (IF q = r THEN v ELSE rep[q].st) /\ rep'[q].nx = rep[q].nx
  BY <1>1
<1> QED
  BY <1>4, <1>5

\* What UseInv says of a volume which is not being destroyed.
LEMMA InUse ==
    ASSUME UseInv, vst = "Created", NEW r \in kids
    PROVE  r \in Pools /\ rep[r].st = "Created" /\ rep[r].nx /\ r \in dev
  BY DEF UseInv, CreatedInv, UsedIsOwned

\* A step which keeps the volume's status: what is left to show of the replicas.
LEMMA ReplicasStep ==
    ASSUME UseInv, vst' = vst, nst' = nst,
           rep' \in [Pools -> ReplicaSpecs], kids' \subseteq Pools, up' \subseteq Pools,
           \A q \in Pools : rep'[q].st = "Created" => q \in dev',
           vst = "Created" => \A q \in kids' : rep'[q].st = "Created" /\ rep'[q].nx
    PROVE  CreatedInv' /\ UsedIsOwned' /\ (vst' = "Created" => nst' = "Created")
  BY DEF UseInv, CreatedInv, UsedIsOwned

\* A step which changes the status of no replica and no owner of a child.
LEMMA StatusesKept ==
    ASSUME UseInv, vst' = vst, nst' = nst, dev' = dev, up' \subseteq Pools,
           rep' \in [Pools -> ReplicaSpecs], kids' \subseteq kids,
           \A q \in Pools : rep'[q].st = rep[q].st /\ (q \in kids' => rep'[q].nx = rep[q].nx)
    PROVE  CreatedInv' /\ UsedIsOwned' /\ (vst' = "Created" => nst' = "Created")
<1>1. \A q \in Pools : rep'[q].st = "Created" => q \in dev'
  BY DEF UseInv, CreatedInv
<1>2. vst = "Created" => \A q \in kids' : rep'[q].st = "Created" /\ rep'[q].nx
  BY InUse
<1>3. kids' \subseteq Pools
  BY DEF UseInv, CreatedInv
<1> QED
  BY <1>1, <1>2, <1>3, ReplicasStep

\* A step which leaves replicas and target alone.
LEMMA Quiet ==
    ASSUME UseInv, vst' = vst, nst' = nst, rep' = rep, dev' = dev, kids' = kids,
           up' \subseteq Pools
    PROVE  CreatedInv' /\ UsedIsOwned' /\ (vst' = "Created" => nst' = "Created")
  BY StatusesKept DEF UseInv, CreatedInv

\* A replica which is no child of the target may be destroyed.
LEMMA Destroyed ==
    ASSUME UseInv, vst' = vst, nst' = nst, kids' = kids, up' = up,
           NEW r, DestroyReplica(r), vst = "Created" => r \notin kids
    PROVE  /\ CreatedInv' /\ UsedIsOwned' /\ (vst' = "Created" => nst' = "Created")
           /\ \A q \in Pools : q # r => rep'[q] = rep[q]
<1>1. PICK res \in {"ok", "lost", "fail"} :
        /\ dev' = IF res = "fail" THEN dev ELSE dev \ {r}
        /\ rep' = [rep EXCEPT ![r] = IF res = "ok" THEN NoRep
                                     ELSE [NoRep EXCEPT !.st = "Deleting"]]
  BY DEF DestroyReplica
<1>2. PICK x : x = IF res = "ok" THEN NoRep ELSE [NoRep EXCEPT !.st = "Deleting"]
  OBVIOUS
<1>3. x \in ReplicaSpecs /\ x.st # "Created"
  <2>1. PICK f \in BOOLEAN : NoRep = [st |-> "none", vol |-> f, nx |-> f]
    BY DEF NoRep
  <2>2. [NoRep EXCEPT !.st = "Deleting"] = [st |-> "Deleting", vol |-> f, nx |-> f]
    BY <2>1, SMT
  <2>3. PICK s \in {"none", "Deleting"} : x = [st |-> s, vol |-> f, nx |-> f]
    BY <1>2, <2>1, <2>2
  <2>4. x \in ReplicaSpecs
    BY <2>3, IsSpec DEF Statuses
  <2>5. x.st \in {"none", "Deleting"}
    BY <2>3
  <2> QED
    BY <2>4, <2>5
<1>4. rep \in [Pools -> ReplicaSpecs]
  BY DEF UseInv, CreatedInv
<1>5. /\ rep' \in [Pools -> ReplicaSpecs]
      /\ \A q \in Pools : rep'[q] = IF q = r THEN x ELSE rep[q]
  BY <1>1, <1>2, <1>3, <1>4, Replaced
<1>6. \A q \in Pools : rep'[q].st = "Created" => q \in dev'
  BY <1>1, <1>3, <1>5 DEF UseInv, CreatedInv
<1>7. vst = "Created" => \A q \in kids' : rep'[q].st = "Created" /\ rep'[q].nx
  BY <1>5, InUse
<1>8. kids' \subseteq Pools /\ up' \subseteq Pools
  BY DEF UseInv, CreatedInv
<1> QED
  BY <1>5, <1>6, <1>7, <1>8, ReplicasStep

\* A replica which is attached is one that was created, and the nexus owns it.
LEMMA Attached ==
    ASSUME UseInv, vst' = vst, nst' = nst, dev' = dev, up' = up,
           NEW r \in Pools, NEW res, Attach(r, res)
    PROVE  CreatedInv' /\ UsedIsOwned' /\ (vst' = "Created" => nst' = "Created")
<1>1. PICK acc \in BOOLEAN : acc = (r \in up /\ rep[r].st = "Created")
  OBVIOUS
<1>2. PICK v \in BOOLEAN : v = (rep[r].nx \/ acc)
  OBVIOUS
<1>3. rep' = [rep EXCEPT ![r].nx = v]
  BY <1>1, <1>2 DEF Attach
<1>4. rep \in [Pools -> ReplicaSpecs]
  BY DEF UseInv, CreatedInv
<1>5. /\ rep' \in [Pools -> ReplicaSpecs]
      /\ \A q \in Pools : /\ rep'[q].st = rep[q].st
                          /\ rep'[q].nx = IF q = r THEN v ELSE rep[q].nx
  BY <1>3, <1>4, OwnedByNexus
<1>6. kids' = kids \/ (kids' = kids \cup {r} /\ acc)
  BY <1>1 DEF Attach, Rpc
<1>7. \A q \in Pools : rep'[q].st = "Created" => q \in dev'
  BY <1>5 DEF UseInv, CreatedInv
<1>8. ASSUME vst = "Created", NEW q \in kids' PROVE rep'[q].st = "Created" /\ rep'[q].nx
  <2>1. CASE q \in kids
    BY <2>1, <1>2, <1>5, <1>8, InUse
  <2>2. CASE q = r /\ acc
    BY <2>2, <1>1, <1>2, <1>5
  <2> QED
    BY <2>1, <2>2, <1>6, <1>8
<1>9. kids' \subseteq Pools /\ up' \subseteq Pools
  BY <1>6 DEF UseInv, CreatedInv
<1> QED
  BY <1>5, <1>7, <1>8, <1>9, ReplicasStep

\* A child leaves the specification of the nexus only when the nexus has removed it.
LEMMA ChildRemoved ==
    ASSUME NEW r, NEW res, RemoveChildRpc(r, res)
    PROVE  /\ kids' \subseteq kids
           /\ res = "ok" => r \notin kids'
           /\ res # "ok" => kids' = kids
  BY DEF RemoveChildRpc

\* A replica which the nexus disowns has left it.
LEMMA Disowned ==
    ASSUME UseInv, vst' = vst, nst' = nst, dev' = dev, up' = up,
           NEW r, NEW res, RemoveChildRpc(r, res), NEW v \in BOOLEAN,
           rep' = [rep EXCEPT ![r].nx = v], r \in kids' => v = rep[r].nx
    PROVE  CreatedInv' /\ UsedIsOwned' /\ (vst' = "Created" => nst' = "Created")
<1>1. rep \in [Pools -> ReplicaSpecs] /\ up' \subseteq Pools
  BY DEF UseInv, CreatedInv
<1>2. /\ rep' \in [Pools -> ReplicaSpecs]
      /\ \A q \in Pools : /\ rep'[q].st = rep[q].st
                          /\ rep'[q].nx = IF q = r THEN v ELSE rep[q].nx
  <2>1. rep' = [rep EXCEPT ![r].nx = v]
    OBVIOUS
  <2> QED
    BY ONLY <1>1, <2>1, v \in BOOLEAN, OwnedByNexus, Zenon
<1>3. kids' \subseteq kids
  BY ChildRemoved
<1> QED
  BY <1>1, <1>2, <1>3, StatusesKept


\* No operation holds the guard.
LEMMA IdleOp == op' = Idle => OpInv'
<1> SUFFICES ASSUME op' = Idle PROVE OpInv'
  OBVIOUS
<1>1. IsOp(op') /\ op'.pc = "idle" /\ op'.kind = "idle"
  BY SMT DEF IsOp, Idle
<1> QED
  BY <1>1 DEF OpInv, IsOp

\* The operation goes on, and neither creates nor attaches a replica next.
LEMMA NewOp ==
    ASSUME IsOp(op)', op'.pc \notin {"creating", "attach"},
           op'.kind \in {"decrease", "move"} /\ op'.pc = "destroy" => op'.r \notin kids',
           op'.kind = "destroy" => vst' # "Created" /\ op'.pc = "replicas"
    PROVE  OpInv'
  BY DEF OpInv

\* A step of others leaves the operation as it is.
LEMMA SameOp ==
    ASSUME UseInv, op' = op, vst' = vst, kids' \subseteq kids,
           \A q \in Pools : q = op.r => rep'[q].st = rep[q].st
    PROVE  OpInv'
  BY DEF UseInv, OpInv, IsOp

\* The parts of the invariant of the next state.
LEMMA AllOf ==
    ASSUME CreatedInv', OpInv', UsedIsOwned', vst' = "Created" => nst' = "Created"
    PROVE  UseInv'
  BY DEF UseInv

\* The io-engine and the nodes change nothing of the specifications.
LEMMA EngineKeeps ==
    ASSUME UseInv, NEW r \in Pools,
           FaultChild(r) \/ RebuildDone(r) \/ NodeDown(r) \/ NodeUp(r)
    PROVE  UseInv'
<1>1. /\ UNCHANGED <<vst, nst, rep, dev, kids, op>>
      /\ up' \subseteq Pools
  BY DEF FaultChild, RebuildDone, NodeDown, NodeUp, UseInv, CreatedInv
<1>2. OpInv'
  BY <1>1, SameOp
<1> QED
  BY <1>1, <1>2, Quiet, AllOf

\* The start of a request of the user, and MoveCheck.
LEMMA StartsKeep ==
    ASSUME UseInv,
           IncreaseStart \/ DecreaseStart \/ MoveCheck \/ \E r \in Pools : MoveStart(r)
    PROVE  UseInv'
<1>1. UNCHANGED <<vst, nst, rep, dev, kids, up>> /\ up' \subseteq Pools
  BY DEF IncreaseStart, DecreaseStart, MoveCheck, MoveStart, UseInv, CreatedInv
<1>2. OpInv'
  <2>1. CASE IncreaseStart
    <3>1. IsOp(op') /\ op'.kind = "increase" /\ op'.pc = "create"
      BY <2>1 DEF IncreaseStart, Idle, IsOp
    <3> QED
      BY <3>1, NewOp, SMT DEF IsOp
  <2>2. CASE DecreaseStart
    <3>1. CASE op' = op
      BY <3>1, <1>1, SameOp
    <3>2. ASSUME NEW r,
                 op' = [Idle EXCEPT !.kind = "decrease", !.r = r,
                                    !.pc = IF r \in kids THEN "child" ELSE "destroy"]
          PROVE  OpInv'
      <4>1. /\ IsOp(op') /\ op'.kind = "decrease" /\ op'.r = r
            /\ op'.pc = IF r \in kids THEN "child" ELSE "destroy"
        BY <3>2 DEF Idle, IsOp
      <4> QED
        BY <4>1, <1>1, NewOp, SMT DEF IsOp
    <3> QED
      BY <2>2, <3>1, <3>2 DEF DecreaseStart
  <2>3. CASE MoveCheck
    <3>1. CASE op' = Idle
      BY <3>1, IdleOp
    <3>2. ASSUME NEW r, op' = [op EXCEPT !.pc = "fault", !.r = r, !.todo = {}] PROVE OpInv'
      <4>1. IsOp(op') /\ op'.kind = op.kind /\ op'.pc = "fault"
        BY <3>2 DEF UseInv, OpInv, IsOp
      <4>2. op.kind # "destroy"
        BY <2>3 DEF MoveCheck, UseInv, OpInv
      <4> QED
        BY <4>1, <4>2, <1>1, NewOp, SMT DEF IsOp
    <3> QED
      BY <2>3, <3>1, <3>2 DEF MoveCheck
  <2>4. ASSUME NEW r \in Pools, MoveStart(r) PROVE OpInv'
    <3>1. IsOp(op') /\ op'.kind = "move" /\ op'.pc = "create"
      BY <2>4 DEF MoveStart, Idle, IsOp
    <3> QED
      BY <3>1, NewOp, SMT DEF IsOp
  <2> QED
    BY <2>1, <2>2, <2>3, <2>4
<1> QED
  BY <1>1, <1>2, Quiet, AllOf

\* A replica is recorded on a pool without one, then created; the target does not use it.
LEMMA CreateKeeps ==
    ASSUME UseInv, CreateLog \/ CreateRpc
    PROVE  UseInv'
<1>1. rep \in [Pools -> ReplicaSpecs] /\ up \subseteq Pools /\ kids \subseteq Pools
  BY DEF UseInv, CreatedInv
<1>2. CASE CreateLog
  <2>1. UNCHANGED <<vst, nst, dev, kids, up>>
    BY <1>2 DEF CreateLog
  <2>2. CASE op' = Idle /\ rep' = rep
    BY <2>1, <2>2, <1>1, IdleOp, Quiet, AllOf
  <2>3. ASSUME NEW r \in PoolCandidates,
               rep' = [rep EXCEPT ![r] = [st |-> "Creating", vol |-> TRUE, nx |-> FALSE]],
               op' = [op EXCEPT !.r = r, !.pc = "creating"]
        PROVE  UseInv'
    <3>1. r \in Pools /\ rep[r].st = "none"
      BY <1>1 DEF PoolCandidates
    <3>2. PICK x : x = [st |-> "Creating", vol |-> TRUE, nx |-> FALSE]
      OBVIOUS
    <3>3. x.st = "Creating" /\ x \in ReplicaSpecs
      BY <3>2 DEF ReplicaSpecs, Statuses
    <3>4. /\ rep' \in [Pools -> ReplicaSpecs]
          /\ \A q \in Pools : rep'[q] = IF q = r THEN x ELSE rep[q]
      BY <1>1, <2>3, <3>2, <3>3, Replaced
    <3>5. vst = "Created" => r \notin kids
      BY <3>1, InUse
    <3>6. \A q \in Pools : rep'[q].st = "Created" => q \in dev'
      BY <2>1, <3>3, <3>4 DEF UseInv, CreatedInv
    <3>7. vst = "Created" => \A q \in kids' : rep'[q].st = "Created" /\ rep'[q].nx
      BY <2>1, <3>4, <3>5, InUse
    <3>8. CreatedInv' /\ UsedIsOwned' /\ (vst' = "Created" => nst' = "Created")
      BY <1>1, <2>1, <3>4, <3>6, <3>7, ReplicasStep
    <3>9. IsOp(op)' /\ op'.r = r /\ op'.pc = "creating" /\ op'.kind = op.kind
      BY <2>3 DEF UseInv, OpInv, IsOp
    <3>10. rep'[r].st = "Creating"
      BY <3>1, <3>3, <3>4
    <3>11. op.kind # "destroy"
      BY <1>2 DEF CreateLog, UseInv, OpInv
    <3>12. OpInv'
      BY <2>1, <3>1, <3>9, <3>10, <3>11 DEF OpInv
    <3> QED
      BY <3>8, <3>12, AllOf
  <2> QED
    BY <1>2, <2>2, <2>3 DEF CreateLog
<1>3. CASE CreateRpc
  <2>1. UNCHANGED <<vst, nst, kids, up>> /\ op.pc = "creating"
    BY <1>3 DEF CreateRpc
  <2>2. PICK res \in {"ok", "lost", "fail"} :
          /\ dev' = IF res = "fail" THEN dev ELSE dev \cup {op.r}
          /\ rep' = [rep EXCEPT ![op.r].st = IF res = "ok" THEN "Created" ELSE "Deleting"]
          /\ op' = CASE res # "ok" \/ op.kind = "hot" -> Idle
                     [] OTHER -> [op EXCEPT !.pc = "attach"]
    BY <1>3 DEF CreateRpc
  <2>3. PICK r : r = op.r
    OBVIOUS
  <2>4. r \in Pools /\ rep[r].st = "Creating"
    BY <2>1, <2>3 DEF UseInv, OpInv
  <2>5. PICK s : s = IF res = "ok" THEN "Created" ELSE "Deleting"
    OBVIOUS
  <2>6. s \in Statuses /\ (s = "Created" => r \in dev')
    BY <2>2, <2>3, <2>5 DEF Statuses
  <2>7. /\ rep' \in [Pools -> ReplicaSpecs]
        /\ \A q \in Pools : /\ rep'[q].st = IF q = r THEN s ELSE rep[q].st
                            /\ rep'[q].nx = rep[q].nx
    <3>1. rep' = [rep EXCEPT ![r].st = s]
      BY <2>2, <2>3, <2>5
    <3>2. s \in Statuses
      BY <2>6
    <3> QED
      BY <1>1, <3>1, <3>2, StatusSet
  <2>8. vst = "Created" => r \notin kids
    BY <2>4, InUse
  <2>9. \A q \in Pools : rep'[q].st = "Created" => q \in dev'
    BY <2>2, <2>6, <2>7 DEF UseInv, CreatedInv
  <2>10. vst = "Created" => \A q \in kids' : rep'[q].st = "Created" /\ rep'[q].nx
    BY <2>1, <2>7, <2>8, InUse
  <2>11. CreatedInv' /\ UsedIsOwned' /\ (vst' = "Created" => nst' = "Created")
    BY <1>1, <2>1, <2>7, <2>9, <2>10, ReplicasStep
  <2>12. OpInv'
    <3>1. CASE op' = Idle
      BY <3>1, IdleOp
    <3>2. CASE op' = [op EXCEPT !.pc = "attach"]
      <4>1. IsOp(op)' /\ op'.r = r /\ op'.pc = "attach" /\ op'.kind = op.kind
        BY <2>3, <3>2 DEF UseInv, OpInv, IsOp
      <4>2. op.kind # "destroy"
        BY <2>1 DEF UseInv, OpInv
      <4> QED
        BY <2>1, <2>4, <4>1, <4>2 DEF OpInv
    <3> QED
      BY <2>2, <3>1, <3>2
  <2> QED
    BY <2>11, <2>12, AllOf
<1> QED
  BY <1>2, <1>3

\* The new replica is attached.
LEMMA AttachKeeps == ASSUME UseInv, AttachNew PROVE UseInv'
<1>1. UNCHANGED <<vst, nst, dev, up>> /\ op.pc = "attach"
  BY DEF AttachNew
<1>2. PICK res : Attach(op.r, res)
  BY DEF AttachNew
<1>3. PICK r : r = op.r
  OBVIOUS
<1>4. r \in Pools /\ Attach(r, res)
  BY <1>1, <1>2, <1>3 DEF UseInv, OpInv
<1>5. CreatedInv' /\ UsedIsOwned' /\ (vst' = "Created" => nst' = "Created")
  BY <1>1, <1>4, Attached
<1>6. OpInv'
  <2>1. CASE op' = Idle
    BY <2>1, IdleOp
  <2>2. CASE op' = [op EXCEPT !.pc = "check", !.r = None]
    <3>1. IsOp(op)' /\ op'.pc = "check" /\ op'.kind = op.kind
      BY <2>2 DEF UseInv, OpInv, IsOp
    <3>2. op.kind # "destroy"
      BY <1>1 DEF UseInv, OpInv
    <3> QED
      BY <1>1, <3>1, <3>2, NewOp
  <2> QED
    BY <2>1, <2>2 DEF AttachNew
<1> QED
  BY <1>5, <1>6, AllOf

\* A move removes the child before it destroys the replica.
LEMMA MoveFaultKeeps == ASSUME UseInv, MoveFault PROVE UseInv'
<1>1. UNCHANGED <<vst, nst, rep, dev, up>> /\ up' \subseteq Pools
  BY DEF MoveFault, UseInv, CreatedInv
<1>2. PICK res : /\ RemoveChildRpc(op.r, res)
                 /\ op' = IF res = "ok" /\ op.r \in Listed THEN [op EXCEPT !.pc = "destroy"]
                          ELSE Idle
  BY DEF MoveFault
<1>3. kids' \subseteq kids /\ (res = "ok" => op.r \notin kids')
  BY <1>2, ChildRemoved
<1>4. rep' \in [Pools -> ReplicaSpecs]
  BY <1>1 DEF UseInv, CreatedInv
<1>5. CreatedInv' /\ UsedIsOwned' /\ (vst' = "Created" => nst' = "Created")
  BY <1>1, <1>3, <1>4, StatusesKept
<1>6. OpInv'
  <2>1. CASE op' = Idle
    BY <2>1, IdleOp
  <2>2. CASE res = "ok" /\ op' = [op EXCEPT !.pc = "destroy"]
    <3>1. IsOp(op)' /\ op'.pc = "destroy" /\ op'.kind = op.kind /\ op'.r = op.r
      BY <2>2 DEF UseInv, OpInv, IsOp
    <3>2. op.kind # "destroy"
      BY DEF MoveFault, UseInv, OpInv
    <3> QED
      BY <1>1, <1>3, <2>2, <3>1, <3>2, NewOp
  <2> QED
    BY <1>2, <2>1, <2>2
<1> QED
  BY <1>5, <1>6, AllOf

\* A decrease takes the replica out of the nexus first; only then is it destroyed.
LEMMA DecreaseChildKeeps == ASSUME UseInv, DecreaseChild PROVE UseInv'
<1>1. UNCHANGED <<vst, nst, dev, up>> /\ op.kind = "decrease"
  BY DEF DecreaseChild
<1>2. PICK res : /\ RemoveChildRpc(op.r, res)
                 /\ rep' = [rep EXCEPT ![op.r].nx = @ /\ res # "ok"]
                 /\ op' = IF res = "ok" THEN [op EXCEPT !.pc = "destroy"] ELSE Idle
  BY DEF DecreaseChild
<1>3. kids' \subseteq kids /\ (res = "ok" => op.r \notin kids')
  BY <1>2, ChildRemoved
<1>4. PICK r : r = op.r
  OBVIOUS
<1>5. PICK v \in BOOLEAN : v = (rep[r].nx /\ res # "ok")
  OBVIOUS
<1>6. rep' = [rep EXCEPT ![r].nx = v]
  BY <1>2, <1>4, <1>5
<1>7. r \in kids' => v = rep[r].nx
  <2> SUFFICES ASSUME r \in kids' PROVE v = rep[r].nx
    OBVIOUS
  <2>1. r \in Pools /\ rep \in [Pools -> ReplicaSpecs]
    BY <1>3 DEF UseInv, CreatedInv
  <2>2. rep[r].nx \in BOOLEAN
    BY <2>1, RepFields
  <2> QED
    BY <1>3, <1>4, <1>5, <2>2
<1>8. CreatedInv' /\ UsedIsOwned' /\ (vst' = "Created" => nst' = "Created")
  BY <1>1, <1>2, <1>4, <1>6, <1>7, Disowned
<1>9. OpInv'
  <2>1. CASE op' = Idle
    BY <2>1, IdleOp
  <2>2. CASE res = "ok" /\ op' = [op EXCEPT !.pc = "destroy"]
    <3>1. IsOp(op)' /\ op'.pc = "destroy" /\ op'.kind = op.kind /\ op'.r = op.r
      BY <2>2 DEF UseInv, OpInv, IsOp
    <3> QED
      BY <1>1, <1>3, <2>2, <3>1, NewOp
  <2> QED
    BY <1>2, <2>1, <2>2
<1> QED
  BY <1>8, <1>9, AllOf

\* The replica which is destroyed last has left the target.
LEMMA FinishDestroyKeeps == ASSUME UseInv, FinishDestroy PROVE UseInv'
<1>1. /\ UNCHANGED <<vst, nst, kids, up>> /\ op' = Idle
      /\ op.kind \in {"decrease", "move"} /\ op.pc = "destroy"
  BY DEF FinishDestroy
<1>2. PICK r : r = op.r
  OBVIOUS
<1>3. r \notin kids
  BY <1>1, <1>2 DEF UseInv, OpInv
<1>4. CASE rep' = [rep EXCEPT ![r].vol = FALSE] /\ dev' = dev
  <2>1. rep \in [Pools -> ReplicaSpecs] /\ up' \subseteq Pools
    BY <1>1 DEF UseInv, CreatedInv
  <2>2. PICK v \in BOOLEAN : v = FALSE
    OBVIOUS
  <2>3. /\ rep' \in [Pools -> ReplicaSpecs]
        /\ \A q \in Pools : rep'[q].st = rep[q].st /\ rep'[q].nx = rep[q].nx
    BY <1>4, <2>1, <2>2, OwnedByVolume
  <2> QED
    BY <1>1, <1>4, <2>1, <2>3, StatusesKept, IdleOp, AllOf
<1>5. CASE DestroyReplica(r)
  BY <1>1, <1>3, <1>5, Destroyed, IdleOp, AllOf
<1> QED
  BY <1>2, <1>4, <1>5 DEF FinishDestroy

\* The volume is being destroyed, and its replicas with it.
LEMMA DestroyKeeps ==
    ASSUME UseInv, DestroyDone \/ DestroyAgain \/ \E r \in Pools : DestroyOne(r)
    PROVE  UseInv'
<1>1. up \subseteq Pools /\ rep \in [Pools -> ReplicaSpecs]
  BY DEF UseInv, CreatedInv
<1>2. CASE DestroyDone
  <2>1. UNCHANGED <<nst, rep, dev, kids, up>> /\ vst' = "gone" /\ op' = Idle
    BY <1>2 DEF DestroyDone
  <2>2. vst' # "Created"
    BY <2>1, SMT
  <2>3. CreatedInv' /\ UsedIsOwned'
    BY <2>1, <2>2 DEF UseInv, CreatedInv, UsedIsOwned
  <2> QED
    BY <2>1, <2>2, <2>3, IdleOp, AllOf
<1>3. CASE DestroyAgain
  <2>1. UNCHANGED <<vst, nst, rep, dev, kids, up>> /\ vst = "Deleting" /\ up' \subseteq Pools
    BY <1>1, <1>3 DEF DestroyAgain
  <2>2. IsOp(op)' /\ op'.kind = "destroy" /\ op'.pc = "replicas"
    BY <1>3 DEF DestroyAgain, Idle, IsOp
  <2>3. OpInv'
    BY <2>1, <2>2, NewOp
  <2> QED
    BY <2>1, <2>3, Quiet, AllOf
<1>4. ASSUME NEW r \in Pools, DestroyOne(r) PROVE UseInv'
  <2>1. UNCHANGED <<vst, nst, kids, up>> /\ op.kind = "destroy" /\ up' \subseteq Pools
    BY <1>1, <1>4 DEF DestroyOne
  <2>2. vst # "Created"
    BY <2>1 DEF UseInv, OpInv
  <2>3. op' = [op EXCEPT !.todo = op.todo \ {r}]
    BY <1>4 DEF DestroyOne
  <2>4. IsOp(op)' /\ op'.kind = op.kind /\ op'.pc = op.pc /\ op'.r = op.r
    BY <2>3 DEF UseInv, OpInv, IsOp
  <2>5. OpInv'
    <3>1. op'.pc = "replicas"
      BY <2>1, <2>4 DEF UseInv, OpInv
    <3> QED
      BY <2>1, <2>2, <2>4, <3>1, NewOp
  <2>6. CASE rep' = rep /\ dev' = dev
    BY <2>1, <2>5, <2>6, Quiet, AllOf
  <2>7. CASE DestroyReplica(r)
    BY <2>1, <2>2, <2>5, <2>7, Destroyed, AllOf
  <2>8. CASE rep' = [rep EXCEPT ![r].vol = FALSE] /\ dev' = dev
    <3>1. PICK v \in BOOLEAN : v = FALSE
      OBVIOUS
    <3>2. /\ rep' \in [Pools -> ReplicaSpecs]
          /\ \A q \in Pools : rep'[q].st = rep[q].st /\ rep'[q].nx = rep[q].nx
      BY <1>1, <2>8, <3>1, OwnedByVolume
    <3> QED
      BY <2>1, <2>5, <2>8, <3>2, StatusesKept, AllOf
  <2> QED
    BY <1>4, <2>6, <2>7, <2>8 DEF DestroyOne
<1> QED
  BY <1>2, <1>3, <1>4

\* The target of a volume being destroyed is destroyed, at once or by its collector.
LEMMA NexusGone ==
    ASSUME UseInv, NEW res, DestroyNexus(res), dev' = dev, up' = up, vst' # "Created"
    PROVE  /\ CreatedInv' /\ UsedIsOwned' /\ kids' \subseteq kids
           /\ \A q \in Pools : rep'[q].st = rep[q].st
<1>1. rep \in [Pools -> ReplicaSpecs] /\ up \subseteq Pools /\ kids \subseteq Pools
  BY DEF UseInv, CreatedInv
<1>2. rep' = [r \in Pools |-> [rep[r] EXCEPT !.nx = rep[r].nx /\ ~(res = "ok" /\ r \in kids)]]
  BY DEF DestroyNexus
<1>3. ASSUME NEW q \in Pools PROVE rep'[q] \in ReplicaSpecs /\ rep'[q].st = rep[q].st
  <2>1. PICK v \in BOOLEAN : v = (rep[q].nx /\ ~(res = "ok" /\ q \in kids))
    OBVIOUS
  <2>2. rep'[q] = [rep[q] EXCEPT !.nx = v]
    BY <1>2, <2>1
  <2>3. /\ rep[q].st \in Statuses /\ rep[q].vol \in BOOLEAN
        /\ rep[q] = [st |-> rep[q].st, vol |-> rep[q].vol, nx |-> rep[q].nx]
    BY <1>1, RepFields
  <2>4. rep'[q] = [st |-> rep[q].st, vol |-> rep[q].vol, nx |-> v]
    BY <2>2, <2>3, FieldSet
  <2>5. rep'[q] \in ReplicaSpecs
    BY <2>3, <2>4, IsSpec
  <2>6. rep'[q].st = rep[q].st
    BY <2>4, SMT
  <2> QED
    BY <2>5, <2>6
<1>4. rep' \in [Pools -> ReplicaSpecs]
  BY <1>2, <1>3
<1>5. kids' \subseteq kids
  BY DEF DestroyNexus
<1>6. CreatedInv'
  BY <1>1, <1>3, <1>4, <1>5 DEF UseInv, CreatedInv
<1> QED
  BY <1>3, <1>5, <1>6 DEF UsedIsOwned

\* The destruction of the volume starts with its status.
LEMMA DestroyStartKeeps == ASSUME UseInv, DestroyStart PROVE UseInv'
<1>1. dev' = dev /\ up' = up /\ vst' = "Deleting"
  BY DEF DestroyStart
<1>2. PICK res : DestroyNexus(res)
  BY DEF DestroyStart
<1>3. vst' # "Created"
  BY <1>1, SMT
<1>4. CreatedInv' /\ UsedIsOwned'
  BY <1>1, <1>2, <1>3, NexusGone
<1>5. IsOp(op)' /\ op'.kind = "destroy" /\ op'.pc = "replicas"
  BY DEF DestroyStart, Idle, IsOp
<1>6. OpInv'
  BY <1>3, <1>5, NewOp
<1> QED
  BY <1>3, <1>4, <1>6, AllOf

\* The collector of nexuses finds only the target of a volume being destroyed.
LEMMA CollectNexusKeeps == ASSUME UseInv, CollectNexus PROVE UseInv'
<1>1. dev' = dev /\ up' = up /\ vst' = vst /\ op' = op /\ nst = "Deleting"
  BY DEF CollectNexus
<1>2. PICK res : DestroyNexus(res)
  BY DEF CollectNexus
<1>3. vst' # "Created"
  BY <1>1 DEF UseInv
<1>4. /\ CreatedInv' /\ UsedIsOwned' /\ kids' \subseteq kids
      /\ \A q \in Pools : rep'[q].st = rep[q].st
  BY <1>1, <1>2, <1>3, NexusGone
<1>5. OpInv'
  BY <1>1, <1>4, SameOp
<1> QED
  BY <1>3, <1>4, <1>5, AllOf

\* A replica which is disowned or collected is no child of the target.
LEMMA CollectKeeps ==
    ASSUME UseInv, NEW r \in Pools, DisownUnused(r) \/ CollectReplica(r)
    PROVE  UseInv'
<1>1. rep \in [Pools -> ReplicaSpecs] /\ up \subseteq Pools /\ kids \subseteq Pools
  BY DEF UseInv, CreatedInv
<1>2. UNCHANGED <<vst, nst, kids, up, op>> /\ up' \subseteq Pools
  BY <1>1 DEF DisownUnused, CollectReplica
<1>3. CASE DisownUnused(r)
  <2>1. PICK v \in BOOLEAN : v = FALSE
    OBVIOUS
  <2>2. rep' = [rep EXCEPT ![r].vol = v] /\ dev' = dev
    BY <1>3, <2>1 DEF DisownUnused
  <2>3. /\ rep' \in [Pools -> ReplicaSpecs]
        /\ \A q \in Pools : rep'[q].st = rep[q].st /\ rep'[q].nx = rep[q].nx
    BY <1>1, <2>2, OwnedByVolume
  <2>4. OpInv'
    BY <1>2, <2>3, SameOp
  <2> QED
    BY <1>2, <2>2, <2>3, <2>4, StatusesKept, AllOf
<1>4. CASE CollectReplica(r)
  <2>1. op.r # r
    BY <1>4 DEF CollectReplica
  <2>2. CASE DestroyReplica(r) /\ (rep[r].st = "Deleting" \/ ~(rep[r].nx /\ nst # "gone"))
    <3>1. vst = "Created" => r \notin kids
      <4> SUFFICES ASSUME vst = "Created", r \in kids PROVE FALSE
        OBVIOUS
      <4>1. rep[r].st = "Created" /\ rep[r].nx
        BY InUse
      <4>2. nst = "Created"
        BY DEF UseInv
      <4> QED
        BY <2>2, <4>1, <4>2
    <3>2. /\ CreatedInv' /\ UsedIsOwned' /\ (vst' = "Created" => nst' = "Created")
          /\ \A q \in Pools : q # r => rep'[q] = rep[q]
      <4>1. DestroyReplica(r) /\ vst' = vst /\ nst' = nst /\ kids' = kids /\ up' = up
        BY <1>2, <2>2
      <4> QED
        BY <3>1, <4>1, Destroyed, SMT
    <3>3. OpInv'
      BY <1>2, <2>1, <3>2, SameOp
    <3> QED
      BY <3>2, <3>3, AllOf
  <2>3. CASE /\ rep' = [rep EXCEPT ![r] = [st |-> rep[r].st,
                                          vol |-> rep[r].vol /\ vst # "gone",
                                          nx |-> rep[r].nx /\ nst # "gone"]]
             /\ dev' = dev
    <3>1. PICK v \in BOOLEAN : v = (rep[r].vol /\ vst # "gone")
      OBVIOUS
    <3>2. PICK n \in BOOLEAN : n = (rep[r].nx /\ nst # "gone")
      OBVIOUS
    <3>3. rep[r].st \in Statuses
      BY <1>1, RepFields
    <3>4. PICK x : x = [st |-> rep[r].st, vol |-> v, nx |-> n]
      OBVIOUS
    <3>5. x \in ReplicaSpecs
      BY <3>3, <3>4, IsSpec
    <3>6. rep' = [rep EXCEPT ![r] = x]
      BY <2>3, <3>1, <3>2, <3>4
    <3>7. /\ rep' \in [Pools -> ReplicaSpecs]
          /\ \A q \in Pools : rep'[q] = IF q = r THEN x ELSE rep[q]
      BY <1>1, <3>5, <3>6, Replaced
    <3>8. x.st = rep[r].st /\ x.nx = n
      BY <3>4, SMT
    <3>9. \A q \in Pools : rep'[q].st = "Created" => q \in dev'
      BY <2>3, <3>7, <3>8 DEF UseInv, CreatedInv
    <3>10. vst = "Created" => \A q \in kids' : rep'[q].st = "Created" /\ rep'[q].nx
      <4> SUFFICES ASSUME vst = "Created", NEW q \in kids
                   PROVE  rep'[q].st = "Created" /\ rep'[q].nx
        BY <1>2
      <4>1. q \in Pools /\ rep[q].st = "Created" /\ rep[q].nx /\ nst = "Created"
        BY InUse DEF UseInv
      <4> QED
        BY <3>2, <3>7, <3>8, <4>1
    <3>11. kids' \subseteq Pools
      BY <1>1, <1>2
    <3>12. OpInv'
      BY <1>2, <2>1, <3>7, SameOp
    <3> QED
      BY <1>2, <3>7, <3>9, <3>10, <3>11, <3>12, ReplicasStep, AllOf
  <2> QED
    BY <1>4, <2>2, <2>3 DEF CollectReplica
<1> QED
  BY <1>3, <1>4

\* The specifications of the children say again that the nexus owns them.
LEMMA RestartKeeps == ASSUME UseInv, CoreRestart PROVE UseInv'
<1>1. rep \in [Pools -> ReplicaSpecs] /\ up \subseteq Pools /\ kids \subseteq Pools
  BY DEF UseInv, CreatedInv
<1>2. UNCHANGED <<vst, nst, dev, kids, up>> /\ op' = Idle
  BY DEF CoreRestart
<1>3. rep' = [r \in Pools |->
                [st |-> IF rep[r].st = "Creating" THEN "Deleting" ELSE rep[r].st,
                 vol |-> rep[r].vol, nx |-> r \in kids /\ rep[r].st # "none"]]
  BY DEF CoreRestart
<1>4. ASSUME NEW q \in Pools
      PROVE  /\ rep'[q] \in ReplicaSpecs
             /\ rep'[q].st = IF rep[q].st = "Creating" THEN "Deleting" ELSE rep[q].st
             /\ rep'[q].nx = (q \in kids /\ rep[q].st # "none")
  <2>1. PICK n \in BOOLEAN : n = (q \in kids /\ rep[q].st # "none")
    OBVIOUS
  <2>2. PICK s : s = IF rep[q].st = "Creating" THEN "Deleting" ELSE rep[q].st
    OBVIOUS
  <2>4. rep[q].st \in Statuses /\ rep[q].vol \in BOOLEAN
    BY <1>1, RepFields
  <2>5. rep'[q] = [st |-> s, vol |-> rep[q].vol, nx |-> n]
    BY <1>3, <2>1, <2>2
  <2>6. s \in Statuses
    BY <2>2, <2>4 DEF Statuses
  <2>7. rep'[q] \in ReplicaSpecs
    BY <2>4, <2>5, <2>6, IsSpec
  <2>8. rep'[q].st = s /\ rep'[q].nx = n
    BY <2>5, SMT
  <2> QED
    BY <2>1, <2>2, <2>7, <2>8
<1>5. rep' \in [Pools -> ReplicaSpecs]
  BY <1>3, <1>4
<1>6. \A q \in Pools : rep'[q].st = "Created" => q \in dev'
  BY <1>2, <1>4 DEF UseInv, CreatedInv
<1>7. vst = "Created" => \A q \in kids' : rep'[q].st = "Created" /\ rep'[q].nx
  <2> SUFFICES ASSUME vst = "Created", NEW q \in kids
               PROVE  rep'[q].st = "Created" /\ rep'[q].nx
    BY <1>2
  <2>1. q \in Pools /\ rep[q].st = "Created"
    BY InUse
  <2> QED
    BY <1>4, <2>1
<1> QED
  BY <1>1, <1>2, <1>5, <1>6, <1>7, ReplicasStep, IdleOp, AllOf

\* A pass of the hot spare reconciler goes on.
LEMMA PassStepKeeps ==
    ASSUME UseInv,
           HotSpare \/ HotSpareNext \/ CountReplicas \/ \E r \in Pools : OnlineFaulted(r)
    PROVE  UseInv'
<1>1. UNCHANGED <<vst, nst, rep, dev, kids, up>> /\ up' \subseteq Pools
  BY DEF HotSpare, HotSpareNext, CountReplicas, OnlineFaulted, UseInv, CreatedInv
<1>2. IsOp(op)
  BY DEF UseInv, OpInv
<1>3. OpInv'
  <2>1. CASE HotSpare
    <3>1. ASSUME NEW pc \in {"count", "faulted"}, NEW todo,
                 op' = [Idle EXCEPT !.kind = "hot", !.pc = pc, !.todo = todo]
          PROVE  OpInv'
      <4>1. IsOp(op)' /\ op'.kind = "hot" /\ op'.pc = pc
        BY <3>1 DEF Idle, IsOp
      <4> QED
        BY <3>1, <4>1, NewOp, SMT
    <3>2. CASE VolStatus = "Online"
      BY <2>1, <3>1, <3>2 DEF HotSpare
    <3>3. CASE VolStatus # "Online"
      BY <2>1, <3>1, <3>3 DEF HotSpare
    <3> QED
      BY <3>2, <3>3
  <2>2. CASE HotSpareNext
    <3>1. ASSUME NEW pc \in {"unknown", "missing", "count"}, NEW todo,
                 op' = [op EXCEPT !.pc = pc, !.todo = todo] \/ op' = [op EXCEPT !.pc = pc]
          PROVE  OpInv'
      <4>1. IsOp(op)' /\ op'.kind = op.kind /\ op'.pc = pc
        BY <1>2, <3>1 DEF IsOp
      <4>2. op.kind = "hot"
        BY <2>2 DEF HotSpareNext
      <4> QED
        BY <3>1, <4>1, <4>2, NewOp, SMT
    <3>2. CASE op.pc = "faulted"
      BY <2>2, <3>1, <3>2 DEF HotSpareNext
    <3>3. CASE op.pc = "unknown"
      BY <2>2, <3>1, <3>3 DEF HotSpareNext
    <3>4. CASE op.pc = "missing"
      BY <2>2, <3>1, <3>4 DEF HotSpareNext
    <3> QED
      BY <2>2, <3>2, <3>3, <3>4 DEF HotSpareNext
  <2>3. CASE CountReplicas
    <3>1. \/ op' = [op EXCEPT !.pc = "create"]
          \/ op' = [op EXCEPT !.pc = "excess", !.n = Cardinality(VolReplicas) - num,
                              !.un = VolReplicas \ ok, !.he = VolReplicas \cap ok]
          \/ op' = [op EXCEPT !.pc = "children"]
      BY <2>3, SMT DEF CountReplicas
    <3>2. IsOp(op)' /\ op'.kind = op.kind /\ op'.pc \in {"create", "excess", "children"}
      <4>1. CASE op' = [op EXCEPT !.pc = "create"]
        BY <1>2, <4>1 DEF IsOp
      <4>2. CASE op' = [op EXCEPT !.pc = "excess", !.n = Cardinality(VolReplicas) - num,
                                  !.un = VolReplicas \ ok, !.he = VolReplicas \cap ok]
        BY <1>2, <4>2 DEF IsOp
      <4>3. CASE op' = [op EXCEPT !.pc = "children"]
        BY <1>2, <4>3 DEF IsOp
      <4> QED
        BY <3>1, <4>1, <4>2, <4>3
    <3>3. op.kind = "hot"
      BY <2>3 DEF CountReplicas
    <3> QED
      BY <3>1, <3>2, <3>3, NewOp, SMT
  <2>4. ASSUME NEW r \in Pools, OnlineFaulted(r) PROVE OpInv'
    <3>1. op' = [op EXCEPT !.todo = op.todo \ {r}] /\ op.kind = "hot" /\ op.pc = "faulted"
      BY <2>4 DEF OnlineFaulted
    <3>2. IsOp(op)' /\ op'.kind = op.kind /\ op'.pc = op.pc
      BY <1>2, <3>1 DEF IsOp
    <3> QED
      BY <3>1, <3>2, NewOp, SMT
  <2> QED
    BY <2>1, <2>2, <2>3, <2>4
<1> QED
  BY <1>1, <1>3, Quiet, AllOf

\* A faulted, unknown or missing child leaves the nexus, which then disowns it.
LEMMA RemoveFaultedKeeps ==
    ASSUME UseInv, NEW r \in Pools, RemoveFaulted(r)
    PROVE  UseInv'
<1>1. /\ UNCHANGED <<vst, nst, dev, up>>
      /\ op.kind = "hot" /\ op.pc \in {"faulted", "unknown", "missing"}
  BY DEF RemoveFaulted
<1>2. PICK res \in {"ok", "lost", "fail"} :
        /\ RemoveChildRpc(r, res)
        /\ rep' = [rep EXCEPT ![r].nx = rep[r].nx /\ (res # "ok" \/ r \notin kids)]
  BY DEF RemoveFaulted
<1>3. kids' \subseteq kids /\ (res = "ok" => r \notin kids')
  BY <1>2, ChildRemoved
<1>4. PICK v \in BOOLEAN : v = (rep[r].nx /\ (res # "ok" \/ r \notin kids))
  OBVIOUS
<1>5. rep' = [rep EXCEPT ![r].nx = v]
  BY <1>2, <1>4
<1>6. r \in kids' => v = rep[r].nx
  <2>1. rep[r].nx \in BOOLEAN
    BY RepFields DEF UseInv, CreatedInv
  <2> QED
    BY <1>3, <1>4, <2>1
<1>7. CreatedInv' /\ UsedIsOwned' /\ (vst' = "Created" => nst' = "Created")
  BY <1>1, <1>2, <1>5, <1>6, Disowned
<1>8. PICK todo, x : op' = [op EXCEPT !.todo = todo, !.r = x]
  BY DEF RemoveFaulted
<1>9. IsOp(op)' /\ op'.kind = op.kind /\ op'.pc = op.pc
  BY <1>8 DEF UseInv, OpInv, IsOp
<1>10. OpInv'
  BY <1>1, <1>9, NewOp, SMT
<1> QED
  BY <1>7, <1>10, AllOf

\* A replica is removed as unused only if it is no child of the target.
LEMMA RemoveUnusedKeeps ==
    ASSUME UseInv, RemoveUnusedChild \/ RemoveExcess
    PROVE  UseInv'
<1>1. /\ UNCHANGED <<vst, nst, kids, up>> /\ op.kind = "hot"
      /\ op.pc \in {"faulted", "missing", "excess"} /\ up' \subseteq Pools
  BY DEF RemoveUnusedChild, RemoveExcess, UseInv, CreatedInv
<1>2. \/ rep' = rep /\ dev' = dev
      \/ \E r : MayRemoveUnused(r) /\ DestroyReplica(r)
  BY DEF RemoveUnusedChild, RemoveExcess
<1>3. CreatedInv' /\ UsedIsOwned' /\ (vst' = "Created" => nst' = "Created")
  <2>1. CASE rep' = rep /\ dev' = dev
    BY <1>1, <2>1, Quiet
  <2>2. ASSUME NEW r, MayRemoveUnused(r), DestroyReplica(r)
        PROVE  CreatedInv' /\ UsedIsOwned' /\ (vst' = "Created" => nst' = "Created")
    <3>1. r \notin kids
      BY <2>2 DEF MayRemoveUnused
    <3> QED
      BY <1>1, <2>2, <3>1, Destroyed, SMT
  <2> QED
    BY <1>2, <2>1, <2>2
<1>4. IsOp(op)' /\ op'.kind = "hot" /\ op'.pc \in {"faulted", "missing", "children", "excess"}
  <2>1. CASE RemoveUnusedChild
    <3>1. op' = [op EXCEPT !.r = None] /\ op.pc \in {"faulted", "missing"}
      BY <2>1 DEF RemoveUnusedChild
    <3>2. IsOp(op)' /\ op'.kind = op.kind /\ op'.pc = op.pc
      BY <3>1 DEF UseInv, OpInv, IsOp
    <3> QED
      BY <1>1, <3>1, <3>2
  <2>2. CASE RemoveExcess
    <3>1. CASE op' = [Idle EXCEPT !.kind = "hot", !.pc = "children"]
      BY <3>1 DEF Idle, IsOp
    <3>2. CASE \E r : op' = [op EXCEPT !.un = op.un \ {r}, !.he = op.he \ {r},
                                       !.n = IF MayRemoveUnused(r) THEN op.n - 1 ELSE op.n]
      <4>1. PICK r : op' = [op EXCEPT !.un = op.un \ {r}, !.he = op.he \ {r},
                                      !.n = IF MayRemoveUnused(r) THEN op.n - 1 ELSE op.n]
        BY <3>2
      <4>2. IsOp(op)' /\ op'.kind = op.kind /\ op'.pc = op.pc
        BY <4>1 DEF UseInv, OpInv, IsOp
      <4>3. op.pc = "excess"
        BY <2>2 DEF RemoveExcess
      <4> QED
        BY <1>1, <4>2, <4>3
    <3> QED
      BY <2>2, <3>1, <3>2 DEF RemoveExcess
  <2> QED
    BY <2>1, <2>2
<1>5. OpInv'
  BY <1>4, NewOp, SMT
<1> QED
  BY <1>3, <1>5, AllOf

\* Children are attached or removed up to the volume's number of replicas.
LEMMA CountChildrenKeeps == ASSUME UseInv, CountChildren PROVE UseInv'
<1>1. /\ UNCHANGED <<vst, nst, dev, up>> /\ op' = Idle
      /\ up' \subseteq Pools
  BY DEF CountChildren, UseInv, CreatedInv
<1>2. \/ \E r \in Pools : \E res : Attach(r, res)
      \/ \E r, res : /\ RemoveChildRpc(r, res)
                     /\ rep' = [rep EXCEPT ![r].nx = rep[r].nx /\ res # "ok"]
      \/ rep' = rep /\ kids' = kids
  BY DEF CountChildren, VolReplicas
<1>3. ASSUME NEW r \in Pools, NEW res, Attach(r, res)
      PROVE  CreatedInv' /\ UsedIsOwned' /\ (vst' = "Created" => nst' = "Created")
  BY <1>1, <1>3, Attached
<1>4. ASSUME NEW r, NEW res, RemoveChildRpc(r, res),
             rep' = [rep EXCEPT ![r].nx = rep[r].nx /\ res # "ok"]
      PROVE  CreatedInv' /\ UsedIsOwned' /\ (vst' = "Created" => nst' = "Created")
  <2>1. kids' \subseteq kids /\ (res = "ok" => r \notin kids')
    BY <1>4, ChildRemoved
  <2>2. PICK v \in BOOLEAN : v = (rep[r].nx /\ res # "ok")
    OBVIOUS
  <2>3. rep' = [rep EXCEPT ![r].nx = v]
    BY <1>4, <2>2
  <2>4. r \in kids' => v = rep[r].nx
    <3> SUFFICES ASSUME r \in kids' PROVE v = rep[r].nx
      OBVIOUS
    <3>1. r \in Pools /\ rep \in [Pools -> ReplicaSpecs]
      BY <2>1 DEF UseInv, CreatedInv
    <3>2. rep[r].nx \in BOOLEAN
      BY <3>1, RepFields
    <3> QED
      BY <2>1, <2>2, <3>2
  <2> QED
    BY <1>1, <1>4, <2>3, <2>4, Disowned
<1>5. CreatedInv' /\ UsedIsOwned' /\ (vst' = "Created" => nst' = "Created")
  BY <1>1, <1>2, <1>3, <1>4, Quiet
<1> QED
  BY <1>1, <1>5, IdleOp, AllOf

\* The first replicas are created, and owned by the volume and its target.
LEMMA InitUse == Init => UseInv
<1> SUFFICES ASSUME Init PROVE UseInv
  OBVIOUS
<1>1. /\ dev = First /\ kids = First /\ up = Pools /\ op = Idle
      /\ vst = "Created" /\ nst = "Created"
      /\ rep = [r \in Pools |-> IF r \in First
                                THEN [st |-> "Created", vol |-> TRUE, nx |-> TRUE] ELSE NoRep]
  BY DEF Init
<1>2. ASSUME NEW q \in Pools
      PROVE  /\ rep[q] \in ReplicaSpecs
             /\ q \in First => rep[q].st = "Created" /\ rep[q].nx
             /\ rep[q].st = "Created" => q \in First
  <2>1. CASE q \in First
    BY <1>1, <2>1 DEF ReplicaSpecs, Statuses
  <2>2. CASE q \notin First
    <3>1. rep[q] = [st |-> "none", vol |-> FALSE, nx |-> FALSE]
      BY <1>1, <2>2 DEF NoRep
    <3>2. rep[q].st = "none"
      BY <3>1, SMT
    <3>3. FALSE \in BOOLEAN /\ "none" \in Statuses
      BY DEF Statuses
    <3>4. rep[q] \in ReplicaSpecs
      BY <3>1, <3>3, IsSpec
    <3> QED
      BY <2>2, <3>2, <3>4
  <2> QED
    BY <2>1, <2>2
<1>3. rep \in [Pools -> ReplicaSpecs]
  BY <1>1, <1>2
<1>4. CreatedInv
  BY <1>1, <1>2, <1>3, FirstAssumption DEF CreatedInv
<1>5. IsOp(op) /\ op.pc = "idle" /\ op.kind = "idle"
  BY <1>1 DEF IsOp, Idle
<1>6. OpInv
  BY <1>5 DEF OpInv
<1>7. UsedIsOwned
  BY <1>1, <1>2, FirstAssumption DEF UsedIsOwned
<1> QED
  BY <1>1, <1>4, <1>6, <1>7 DEF UseInv

\* Every step keeps the invariant.
LEMMA NextUse == UseInv /\ [Next]_repVars => UseInv'
<1> SUFFICES ASSUME UseInv, [Next]_repVars PROVE UseInv'
  OBVIOUS
<1>1. CASE UNCHANGED repVars
  BY <1>1 DEF repVars, UseInv, CreatedInv, OpInv, UsedIsOwned, IsOp
<1>2. CASE Pass
  BY <1>2, PassStepKeeps, RemoveFaultedKeeps, RemoveUnusedKeeps, CountChildrenKeeps DEF Pass
<1>3. CASE Operation
  BY <1>3, CreateKeeps, AttachKeeps, StartsKeep, MoveFaultKeeps, DecreaseChildKeeps,
     FinishDestroyKeeps, DestroyKeeps DEF Operation
<1>4. CASE Collect
  BY <1>4, DestroyKeeps, CollectNexusKeeps, CollectKeeps DEF Collect
<1>5. CASE IncreaseStart \/ DecreaseStart \/ \E r \in Pools : MoveStart(r)
  BY <1>5, StartsKeep
<1>6. CASE DestroyStart \/ CoreRestart
  BY <1>6, DestroyStartKeeps, RestartKeeps
<1>7. CASE \E r \in Pools : FaultChild(r) \/ RebuildDone(r) \/ NodeDown(r) \/ NodeUp(r)
  BY <1>7, EngineKeeps
<1> QED
  BY <1>1, <1>2, <1>3, <1>4, <1>5, <1>6, <1>7 DEF Next

\* No replica which the specification of the volume's target lists is destroyed or
\* disowned, whatever is scaled, moved, spared, collected and restarted at once.
THEOREM ReplicasInUseAreKept == Spec => []UsedIsOwned
<1>1. UseInv => UsedIsOwned
  BY DEF UseInv
<1> QED
  BY <1>1, InitUse, NextUse, PTL DEF Spec

=============================================================================
