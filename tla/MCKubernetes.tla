---------------------------- MODULE MCKubernetes ----------------------------
(***************************************************************************)
(* Small instances of the modules about the parts that Kubernetes calls:   *)
(* the CSI plugins and the disk pool operator.  A behaviour is about one   *)
(* of them, which the variable part names; the variables of the others     *)
(* keep their initial values.                                              *)
(***************************************************************************)
EXTENDS Naturals

CONSTANTS Ids,   \* the nodes, the snapshots or the claims
          First,  \* the node the workload starts on: they are interchangeable
          NoNode, Clones, NoThin

VARIABLES part, faults,
  target, gens, sub, dev, stg, pub, task, late, ctl, att, kub, want, conns, moves, cancels,
  sctl, node, frozen, live, snap, quiet, co, timeouts, breaks,
  pvc, pv, vol, pend, call, seen, gc,
  fs, clone, disk, uuid, dirty, data, lost, mnt, pc, ok, probes, cycles,
  cr, known, news, due, rec, inv, pool, used, made, dropped, crs, errs, patches

Volume    == INSTANCE CsiVolume
  WITH Nodes <- Ids, MaxGen <- 4, MaxMoves <- 2, MaxFaults <- 1, MaxCancels <- 1
Snapshot  == INSTANCE CsiSnapshot
  WITH Snaps <- Ids, ctl <- sctl, MaxFaults <- 2, MaxTimeouts <- 1, MaxBreaks <- 1
Provision == INSTANCE CsiProvision WITH Claims <- Ids, Permits <- 1, MaxFaults <- 2
Stage     == INSTANCE CsiStage WITH MaxFaults <- 3, MaxProbes <- 1, MaxCycles <- 2
Pool      == INSTANCE PoolOperator
  WITH seen <- known, MaxCrs <- 1, MaxFaults <- 2, MaxErrs <- 1, MaxPatches <- 1

volVars   == <<target, gens, sub, dev, stg, pub, task, late, ctl, att, kub, want, conns, moves, cancels>>
snapVars  == <<sctl, node, frozen, live, snap, quiet, co, timeouts, breaks>>
provVars  == <<pvc, pv, vol, pend, call, seen, gc>>
stageVars == <<fs, clone, disk, uuid, dirty, data, lost, mnt, pc, ok, probes, cycles>>
poolVars  == <<cr, known, news, due, rec, inv, pool, used, made, dropped, crs, errs, patches>>
vars      == <<part, faults, volVars, snapVars, provVars, stageVars, poolVars>>

InVolume    == part = "volume"
InSnapshot  == part = "snapshot"
InProvision == part = "provision"
InStage     == part = "stage"
InPool      == part = "pool"

\* What is staged matters to the behaviours about staging only.
Init ==
  /\ part \in {"volume", "snapshot", "provision", "stage", "pool"}
  /\ Volume!Init /\ Snapshot!Init /\ Provision!Init /\ Stage!Init /\ Pool!Init
  /\ want = IF InVolume THEN First ELSE NoNode
  /\ ~InStage => fs = "ext4" /\ ~clone

\* A step of each part.
VolumeStep    == InVolume /\ UNCHANGED <<part, snapVars, provVars, stageVars, poolVars>>
SnapshotStep  == InSnapshot /\ UNCHANGED <<part, volVars, provVars, stageVars, poolVars>>
ProvisionStep == InProvision /\ UNCHANGED <<part, volVars, snapVars, stageVars, poolVars>>
StageStep     == InStage /\ UNCHANGED <<part, volVars, snapVars, provVars, poolVars>>
PoolStep      == InPool /\ UNCHANGED <<part, volVars, snapVars, provVars, stageVars>>

Next ==
  \/ VolumeStep /\ Volume!Next
  \/ SnapshotStep /\ Snapshot!Next
  \/ ProvisionStep /\ Provision!Next
  \/ StageStep /\ Stage!Next
  \/ PoolStep /\ Pool!Next

\* The fairness of the modules, each for its part.
VolumeFair ==
  /\ WF_<<faults, volVars>>(InVolume /\ Volume!ControllerStep)
  /\ WF_<<faults, volVars>>(InVolume /\ Volume!SwitchOver)
  /\ \A n \in Ids :
       /\ WF_<<faults, volVars>>(InVolume /\ Volume!NodeStep(n))
       /\ WF_<<faults, volVars>>(InVolume /\ Volume!NodeCall(n))
       /\ WF_<<faults, volVars>>(InVolume /\ Volume!DevAppears(n))
       /\ WF_<<faults, volVars>>(InVolume /\ Volume!Lose(n))
       /\ WF_<<faults, volVars>>(InVolume /\ \E x \in late[n] : Volume!LateCall(n, x))

SnapshotFair ==
  /\ WF_<<faults, snapVars>>(InSnapshot /\ Snapshot!ControllerStep)
  /\ WF_<<faults, snapVars>>(InSnapshot /\ Snapshot!NodeStep)
  /\ WF_<<faults, snapVars>>(InSnapshot /\ Snapshot!Mend)

ProvisionFair ==
  /\ WF_<<faults, provVars>>(InProvision /\ Provision!Gc)
  /\ \A c \in Ids :
       /\ WF_<<faults, provVars>>(InProvision /\ Provision!Handler(c))
       /\ WF_<<faults, provVars>>(InProvision /\ Provision!DeleteCall(c))
       /\ WF_<<faults, provVars>>(InProvision /\ Provision!LateCreate(c))
       /\ WF_<<faults, provVars>>(InProvision /\ Provision!ProcessObject(c))

StageFair ==
  /\ WF_<<faults, stageVars>>(InStage /\ Stage!Handler)
  /\ WF_<<faults, stageVars>>(InStage /\ Stage!Call)

PoolFair ==
  /\ WF_<<faults, poolVars>>(InPool /\ Pool!Operator)
  /\ WF_<<faults, poolVars>>(InPool /\ Pool!Watch)
  /\ WF_<<faults, poolVars>>(InPool /\ Pool!NodeBack)
  /\ WF_<<faults, poolVars>>(InPool /\ Pool!Unuse)

\* As a behaviour is about one part only, strong fairness of one action of
\* each is strong fairness of each of them.
CallsFair ==
  \A i \in Ids :
    SF_vars(\/ VolumeStep /\ Volume!ControllerCall(i)
            \/ SnapshotStep /\ Snapshot!Call(i)
            \/ ProvisionStep /\ Provision!CreateCall(i))

FairSpec ==
  /\ Init /\ [][Next]_vars
  /\ VolumeFair /\ SnapshotFair /\ ProvisionFair /\ StageFair /\ PoolFair /\ CallsFair
-----------------------------------------------------------------------------

\* A resource is not gone while its pool is left (pool/context.rs finalizer).
GoneWithPool == InPool => Pool!TypeOK /\ Pool!GoneWithPool

\* A workload never gets the host's own disk, what is reported as staged is mounted with
\* the right id, and data is not formatted away (publish_fs_volume, stage_fs_volume,
\* prepare_device).
MountsAreRight ==
  /\ InVolume => Volume!TypeOK /\ Volume!BindIsVolume
  /\ InStage => Stage!TypeOK /\ Stage!StagedAsAsked /\ Stage!DataIsPreserved

\* A call never takes what belongs to somebody else: a volume is published for a node
\* without leftovers, detaching a node leaves another one's target, a snapshot is reported
\* when the filesystem is thawed, a volume with a claim is not deleted, and a pool deleted
\* by others is not created again (controller.rs, pvwatcher.rs, pool/context.rs).
CallsKeepApart ==
  [][/\ InVolume => Volume!PublishedFreshStep /\ Volume!DetachesOwnStep
     /\ InSnapshot => Snapshot!SuccessIsThawedStep
     /\ InProvision => Provision!ClaimedIsKeptStep
     /\ InPool => Pool!NotRecreatedStep]_vars

\* A claim that stays gets its volume, repeated calls get it staged, and a workload that
\* stays on a node gets it there; retried snapshots leave it thawed (controller.rs,
\* stage_fs_volume).
WorkloadsServed ==
  Provision!Provisioned /\ []<>(InStage => Stage!Staged) /\ Volume!Runs /\ Snapshot!RetriesThaw

\* Volumes nobody claims are collected; the pool of a resource comes up, and goes away with
\* it (pvwatcher.rs delete_orphan_volumes, pool/context.rs reconcile).
ResourcesFollow == Provision!OrphansCollected /\ Pool!PoolComesUp /\ Pool!Deletes
=============================================================================
