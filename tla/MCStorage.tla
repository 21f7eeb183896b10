----------------------------- MODULE MCStorage -----------------------------
(***************************************************************************)
(* Small instances of the modules about what is kept for a volume: its     *)
(* replicas, of the module as it is extended, its snapshots, or what the   *)
(* reconcilers finish of the operations on any resource.  The variable     *)
(* part says which a behaviour is about; the variables of the others keep  *)
(* their initial values.                                                   *)
(***************************************************************************)
EXTENDS VolumeReplicas

CONSTANTS Reps, TxnLimit, MaxTxn, MaxIncs, SnapReqs, SnapFaults, MaxCrashes,
          Poller, t1, a1, a2, v0, v1, NoTask, NoArc, NoVal, NoRec, Gone, OpsFaults

VARIABLES part,
  vol, vsnaps, mem, store, req, act, disk, late, born, alive, clone, cheld,
  restores, incs, sreqs, sfaults, crashes,
  reg, specs, guard, pstor, dp, pc, kind, arc, arg, mode, copy, reply, oreqs, ofaults,
  ocrashes, base, orphaned

SN == INSTANCE Snapshots WITH MaxReqs <- SnapReqs, MaxFaults <- SnapFaults
GO == INSTANCE GuardedOps
  WITH Tasks <- {t1}, Arcs <- {a1, a2}, Vals <- {v0, v1}, InitVal <- v0,
       OnFail <- {"LeaveAsIs", "SetDeleting"}, LogModes <- {"TT", "FT", "FF"},
       MaxReqs <- 2, MaxFaults <- OpsFaults, MaxCrashes <- 1,
       mem <- specs, clone <- copy, reqs <- oreqs, faults <- ofaults, crashes <- ocrashes

InReplicas == part = "replicas"
InSnapshots == part = "snapshots"
InOps == part = "ops"

snapVars == <<vol, vsnaps, mem, store, req, act, disk, late, born, alive, clone, cheld,
              restores, incs, sreqs, sfaults, crashes>>
opsVars == <<reg, specs, guard, pstor, dp, pc, kind, arc, arg, mode, copy, reply, oreqs,
             ofaults, ocrashes, base, orphaned>>
allVars == <<part, repVars, snapVars, opsVars>>

InitAll == part \in {"replicas", "snapshots", "ops"} /\ Init /\ SN!Init /\ GO!Init

NextAll ==
  \/ InReplicas /\ Next /\ UNCHANGED <<part, snapVars, opsVars>>
  \/ InSnapshots /\ SN!Next /\ UNCHANGED <<part, repVars, opsVars>>
  \/ InOps /\ GO!Next /\ UNCHANGED <<part, repVars, snapVars>>

FairnessAll ==
  /\ WF_repVars(InReplicas /\ Pass) /\ WF_repVars(InReplicas /\ Operation)
  /\ WF_repVars(InReplicas /\ DestroyAgain) /\ WF_repVars(InReplicas /\ CollectNexus)
  /\ \A r \in Pools : /\ WF_repVars(InReplicas /\ DisownUnused(r))
                      /\ WF_repVars(InReplicas /\ CollectReplica(r))
                      /\ WF_repVars(InReplicas /\ RebuildDone(r))
                      /\ WF_repVars(InReplicas /\ NodeUp(r))
  /\ WF_snapVars(InSnapshots /\ SN!CreateStep) /\ WF_snapVars(InSnapshots /\ SN!SweepStep)
  /\ WF_snapVars(InSnapshots /\ SN!VolumeStep) /\ WF_snapVars(InSnapshots /\ SN!CloneStep)
  /\ SF_snapVars(InSnapshots /\ SN!GcSnapshot)
  /\ \A x \in (1..MaxIncs) \X (1..MaxTxn) \X Reps :
       SF_snapVars(InSnapshots /\ SN!GcNode(x)) /\ WF_snapVars(InSnapshots /\ SN!LateCreate(x))
  /\ \A r \in Reps : WF_snapVars(InSnapshots /\ SN!Up(r))
  /\ WF_opsVars(InOps /\ (GO!TaskStep(t1) \/ GO!ProcStep(t1)))
  /\ WF_opsVars(InOps /\ (GO!Poll \/ GO!HandleIncompleteOps \/ GO!ProcStep(Poller)))

FairSpecAll == InitAll /\ [][NextAll]_allVars /\ FairnessAll

\* The hot spare reconciler restores the number of online replicas, and all of a destroyed
\* volume's storage is reclaimed (hot_spare.rs, volume/operations.rs destroy).
VolumeSettles == InReplicas => Restored /\ Reclaimed

\* A dirty specification is flushed, and one that is Deleting is removed, by the
\* reconcilers (handle_incomplete_ops, the garbage collectors).
OperationsFinish == GO!DirtyIsFlushed /\ GO!DeletingIsRemoved

\* A created snapshot has all of its replica snapshots, which are recorded before they
\* exist and until they do not (snapshot_operations.rs).
SnapshotsWhole == TypeOK /\ SN!TypeOK /\ SN!CreatedIsWhole /\ SN!RecordedFirst

\* Replica snapshots nobody records and Deleting snapshots are reclaimed, and the guards of
\* a snapshot and its clone are always given back.
SnapshotsSettle == InSnapshots => SN!SnapsReclaimed /\ SN!GuardsReleased
=============================================================================
