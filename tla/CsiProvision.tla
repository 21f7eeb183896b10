---------------------------- MODULE CsiProvision ----------------------------
(***************************************************************************)
(* Creating, deleting and garbage collecting volumes in the CSI controller *)
(* (controller.rs create_volume and delete_volume, pvwatcher.rs).  A claim *)
(* stands for the volume that its uid names.  Kubernetes with its          *)
(* provisioner, and the control plane behind REST, are external.           *)
(*                                                                         *)
(* The handlers and the garbage collector run in one process and share the *)
(* VolumeOpGuard of the volume; a call that finds it taken does nothing.   *)
(***************************************************************************)
EXTENDS Naturals, FiniteSets

CONSTANTS Claims,     \* claims, each for one volume
          Clones,     \* the claims whose volume is restored from a snapshot
          NoThin,     \* the claims whose class does not have the thin parameter
          Permits,    \* create_volume_limit
          MaxFaults   \* failed, lost and late calls

VARIABLES pvc,    \* the claim object: "no" before, "yes", "gone"
          pv,     \* the volume object: "no" before, "bound", "released", "gone"
          vol,    \* the volume in the control plane: "no", or thin or thick
          pend,   \* creations the control plane is still working on
          call,   \* call[c]: the handler that holds the guard of the volume
          seen,   \* volume objects whose deletion the watcher was told of
          gc,     \* the collector of orphans
          faults

vars == <<pvc, pv, vol, pend, call, seen, gc, faults>>

NoGc == [pc |-> "idle", vols |-> {}, pvcs |-> {}, orphans |-> {}]

TypeOK ==
  /\ pvc \in [Claims -> {"no", "yes", "gone"}]
  /\ pv \in [Claims -> {"no", "bound", "released", "gone"}]
  /\ vol \in [Claims -> {"no", "thin", "thick"}]
  /\ pend \subseteq Claims /\ seen \subseteq Claims
  /\ call \in [Claims -> {"none", "get", "create", "delete"}]
  /\ gc \in [pc : {"idle", "pvcs", "check", "sleep", "delete"},
             vols : SUBSET Claims, pvcs : SUBSET Claims, orphans : SUBSET Claims]
  /\ faults \in 0..MaxFaults
  /\ Cardinality({c \in Claims : call[c] \in {"get", "create"}}) <= Permits

Init ==
  /\ pvc = [c \in Claims |-> "no"] /\ pv = [c \in Claims |-> "no"]
  /\ vol = [c \in Claims |-> "no"] /\ pend = {} /\ seen = {}
  /\ call = [c \in Claims |-> "none"] /\ gc = NoGc /\ faults = 0

Fault == faults < MaxFaults /\ faults' = faults + 1
NoFault == UNCHANGED faults
Goto(c, pc) == call' = [call EXCEPT ![c] = pc]
-----------------------------------------------------------------------------
\* Kubernetes (external).

Claim(c) ==
  /\ pvc[c] = "no" /\ pvc' = [pvc EXCEPT ![c] = "yes"]
  /\ UNCHANGED <<pv, vol, pend, call, seen, gc, faults>>

\* The volume object of a claim that is deleted is released.
Unclaim(c) ==
  /\ pvc[c] = "yes" /\ pvc' = [pvc EXCEPT ![c] = "gone"]
  /\ pv' = [pv EXCEPT ![c] = IF @ = "bound" THEN "released" ELSE @]
  /\ UNCHANGED <<vol, pend, call, seen, gc, faults>>

\* A volume object that is deleted together with its claim may vanish
\* without a call to delete the volume; the watcher may miss it.
Vanish(c) ==
  /\ pvc[c] = "gone" /\ pv[c] = "released" /\ call[c] = "none"
  /\ pv' = [pv EXCEPT ![c] = "gone"]
  /\ \/ seen' = seen \cup {c} /\ NoFault
     \/ Fault /\ UNCHANGED seen
  /\ UNCHANGED <<pvc, vol, pend, call, gc>>
-----------------------------------------------------------------------------
\* create_volume_permit and VolumeOpGuard, then the handler's requests.
CreateCall(c) ==
  /\ pvc[c] = "yes" /\ pv[c] = "no" /\ call[c] = "none"
  /\ Cardinality({d \in Claims : call[d] \in {"get", "create"}}) < Permits
  /\ Goto(c, "get")
  /\ UNCHANGED <<pvc, pv, vol, pend, seen, gc, faults>>

\* The thin parameter, as it is compared with an existing volume ...
ThinGiven(c) == IF c \in NoThin THEN "thick" ELSE "thin"

\* ... and as a volume is created with: a clone is thin by default.
ThinAsked(c) == IF c \in NoThin /\ c \notin Clones THEN "thick" ELSE "thin"

CheckExistingVolume(c) == vol[c] = ThinGiven(c)

\* The provisioner creates the volume object for the answer.
Created(c) == pv' = [pv EXCEPT ![c] = IF pvc[c] = "yes" THEN "bound" ELSE "released"]

CreateGet(c) ==
  /\ call[c] = "get"
  /\ \/ /\ vol[c] # "no" /\ Goto(c, "none") /\ NoFault
        /\ IF CheckExistingVolume(c) THEN Created(c) ELSE UNCHANGED pv
     \/ vol[c] = "no" /\ Goto(c, "create") /\ UNCHANGED pv /\ NoFault
     \/ Fault /\ Goto(c, "none") /\ UNCHANGED pv
  /\ UNCHANGED <<pvc, vol, pend, seen, gc>>

\* PUT /volumes/{id}: answered, or timed out and done, refused or still to
\* be done.
CreateRest(c) ==
  /\ call[c] = "create" /\ Goto(c, "none")
  /\ \/ vol' = [vol EXCEPT ![c] = ThinAsked(c)] /\ Created(c) /\ NoFault /\ UNCHANGED pend
     \/ vol' = [vol EXCEPT ![c] = ThinAsked(c)] /\ Fault /\ UNCHANGED <<pv, pend>>
     \/ pend' = pend \cup {c} /\ Fault /\ UNCHANGED <<vol, pv>>
     \/ Fault /\ UNCHANGED <<vol, pv, pend>>
  /\ UNCHANGED <<pvc, seen, gc>>

LateCreate(c) ==
  /\ c \in pend /\ pend' = pend \ {c}
  /\ vol' = [vol EXCEPT ![c] = IF @ = "no" THEN ThinAsked(c) ELSE @]
  /\ UNCHANGED <<pvc, pv, call, seen, gc, faults>>

DeleteCall(c) ==
  /\ pv[c] = "released" /\ call[c] = "none" /\ Goto(c, "delete")
  /\ UNCHANGED <<pvc, pv, vol, pend, seen, gc, faults>>

\* DELETE /volumes/{id}: a volume that does not exist is deleted.
DeleteRest(c) ==
  /\ call[c] = "delete" /\ Goto(c, "none")
  /\ \/ vol' = [vol EXCEPT ![c] = "no"] /\ pv' = [pv EXCEPT ![c] = "gone"] /\ NoFault
     \/ vol' = [vol EXCEPT ![c] = "no"] /\ Fault /\ UNCHANGED pv
     \/ Fault /\ UNCHANGED <<vol, pv>>
  /\ UNCHANGED <<pvc, pend, seen, gc>>
-----------------------------------------------------------------------------
\* delete_volume of the garbage collector, which holds the guard for it.
Collect(c) ==
  \/ call[c] = "none" /\ vol' = [vol EXCEPT ![c] = "no"] /\ NoFault
  \/ call[c] # "none" /\ UNCHANGED vol /\ NoFault
  \/ Fault /\ UNCHANGED vol

\* process_object: the watcher was told that the volume object is deleted.
ProcessObject(c) ==
  /\ c \in seen /\ seen' = seen \ {c}
  /\ Collect(c)
  /\ UNCHANGED <<pvc, pv, pend, call, gc>>

\* delete_orphan_volumes lists the volumes first and the claims after them,
\* so every volume it has in hand had its claim before.
CollectVolumeIds ==
  /\ gc.pc = "idle"
  /\ gc' = [gc EXCEPT !.pc = "pvcs", !.vols = {c \in Claims : vol[c] # "no"}]
  /\ gc'.vols # {}
  /\ UNCHANGED <<pvc, pv, vol, pend, call, seen, faults>>

CollectPvcIds ==
  /\ gc.pc = "pvcs"
  /\ \/ gc' = [gc EXCEPT !.pc = "check", !.pvcs = {c \in Claims : pvc[c] = "yes"}] /\ NoFault
     \/ gc' = NoGc /\ Fault
  /\ UNCHANGED <<pvc, pv, vol, pend, call, seen>>

\* A volume without a claim in the list and without a volume object now.
IsVolOrphan(c) == c \notin gc.pvcs /\ pv[c] \in {"no", "gone"}

CheckOrphans ==
  /\ gc.pc = "check"
  /\ gc' = [gc EXCEPT !.pc = "sleep", !.orphans = {c \in gc.vols : IsVolOrphan(c)}]
  /\ UNCHANGED <<pvc, pv, vol, pend, call, seen, faults>>

\* A mistake: the second look finds nothing.
MutRecheck ==
  /\ gc.pc = "sleep"
  /\ gc' = NoGc
  /\ UNCHANGED <<pvc, pv, vol, pend, call, seen, faults>>

\* After a minute each candidate is looked at again; a lookup may fail.
Recheck ==
  /\ gc.pc = "sleep"
  /\ \/ \E c \in gc.orphans :
          \/ /\ IsVolOrphan(c)
             /\ gc' = [gc EXCEPT !.pc = "delete", !.orphans = {c}, !.vols = gc.orphans \ {c}] /\ NoFault
          \/ ~IsVolOrphan(c) /\ gc' = [gc EXCEPT !.orphans = @ \ {c}] /\ NoFault
          \/ gc' = [gc EXCEPT !.orphans = @ \ {c}] /\ Fault
     \/ gc.orphans = {} /\ gc' = NoGc /\ NoFault
  /\ UNCHANGED <<pvc, pv, vol, pend, call, seen>>

DeleteOrphan ==
  /\ gc.pc = "delete"
  /\ \A c \in gc.orphans : Collect(c)
  /\ gc' = [gc EXCEPT !.pc = "sleep", !.orphans = gc.vols]
  /\ UNCHANGED <<pvc, pv, pend, call, seen>>
-----------------------------------------------------------------------------
Gc == CollectVolumeIds \/ CollectPvcIds \/ CheckOrphans \/ Recheck \/ DeleteOrphan
Handler(c) == CreateGet(c) \/ CreateRest(c) \/ DeleteRest(c)

Next ==
  \/ Gc
  \/ \E c \in Claims :
       \/ Claim(c) \/ Unclaim(c) \/ Vanish(c)
       \/ CreateCall(c) \/ DeleteCall(c) \/ Handler(c) \/ LateCreate(c) \/ ProcessObject(c)

\* Handlers run on, the provisioner calls again and the collector is periodic.
Fairness ==
  /\ WF_vars(Gc)
  /\ \A c \in Claims : /\ WF_vars(Handler(c)) /\ WF_vars(LateCreate(c)) /\ WF_vars(ProcessObject(c))
                       /\ WF_vars(DeleteCall(c)) /\ SF_vars(CreateCall(c))

Spec == Init /\ [][Next]_vars
FairSpec == Spec /\ Fairness
-----------------------------------------------------------------------------
\* pvwatcher.rs delete_orphan_volumes: no volume is ever deleted while its
\* claim exists, though the list of claims is a minute old when it is used.
ClaimedIsKeptStep ==
  \A c \in Claims : vol[c] # "no" /\ vol'[c] = "no" => pvc[c] = "gone"

\* pvwatcher.rs "Deletes orphaned volumes": a volume that has neither claim
\* nor volume object goes away, whatever call was lost or came late.
OrphansCollected ==
  \A c \in Claims : []<>(pvc[c] = "gone" /\ pv[c] \in {"no", "gone"} => vol[c] = "no")

\* controller.rs create_volume: a claim that stays gets its volume, though
\* earlier calls may have created it.  Not so for a clone of a class without
\* the thin parameter: it is created thin and compared with thick.
Provisioned ==
  \A c \in Claims \ (Clones \cap NoThin) : []<>(pvc[c] = "yes" => pv[c] = "bound")
=============================================================================
