---------------------------- MODULE PoolOperator ----------------------------
(***************************************************************************)
(* The disk pool operator (k8s/operators/src/pool): it reconciles one      *)
(* DiskPool resource (CR) of Kubernetes with the pool of that name in the  *)
(* control plane.  Kubernetes, its watch and work queue, and the control   *)
(* plane behind REST are external.                                         *)
(*                                                                         *)
(* The work queue runs one reconcile of the resource at a time, with the   *)
(* object as the watch has delivered it last: it may be stale, and a patch *)
(* of the status overwrites what is there.                                 *)
(***************************************************************************)
EXTENDS Naturals

CONSTANTS MaxCrs,     \* how often the user creates the resource
          MaxFaults,  \* requests to the control plane that fail, lost answers, restarts
          MaxErrs,    \* answers of the control plane that are neither of the expected errors
          MaxPatches  \* patches of the resource that fail

VARIABLES cr,      \* the resource
          seen,    \* the resource as the watch delivered it
          news,    \* the watch has something to deliver
          due,     \* a reconcile is queued
          rec,     \* the reconcile that runs, with its copy of the resource
          inv,     \* the resource is in the operator's inventory
          pool,    \* the pool: "none", "on", or "off" while its node is away
          used,    \* the pool has replicas and cannot be deleted
          made,    \* the pool was created for a resource that was not being deleted
          dropped, \* the pool was deleted behind an operator that knew of it
          crs, faults, errs, patches

k8sVars == <<cr, seen, news, due>>
cpVars == <<pool, used, made, dropped>>
vars == <<k8sVars, rec, inv, cpVars, crs, faults, errs, patches>>

NoCr == [there |-> FALSE, del |-> FALSE, fin |-> FALSE, ann |-> FALSE, st |-> "none", ps |-> "none"]
NewCr == [NoCr EXCEPT !.there = TRUE]
NoRec == [pc |-> "idle", o |-> NoCr]

TypeOK ==
  /\ \A c \in {cr, seen, rec.o} :
       /\ c \in [there : BOOLEAN, del : BOOLEAN, fin : BOOLEAN, ann : BOOLEAN,
                 st : {"none", "creating", "created", "terminating"},
                 ps : {"none", "unknown", "online"}]
  /\ rec.pc \in {"idle", "finalize", "cleanup", "delete", "remove", "main", "create", "pooled",
                 "expand", "check", "missing", "panic"}
  /\ pool \in {"none", "on", "off"} /\ used \in BOOLEAN /\ made \in BOOLEAN /\ dropped \in BOOLEAN
  /\ news \in BOOLEAN /\ due \in BOOLEAN /\ inv \in BOOLEAN
  /\ crs \in 0..MaxCrs /\ faults \in 0..MaxFaults /\ errs \in 0..MaxErrs /\ patches \in 0..MaxPatches

Init ==
  /\ cr = NoCr /\ seen = NoCr /\ news = FALSE /\ due = FALSE
  /\ rec = NoRec /\ inv = FALSE
  /\ pool = "none" /\ used = FALSE /\ made = FALSE /\ dropped = FALSE
  /\ crs = 0 /\ faults = 0 /\ errs = 0 /\ patches = 0

Fault == faults < MaxFaults /\ faults' = faults + 1 /\ UNCHANGED <<errs, patches>>
Err == errs < MaxErrs /\ errs' = errs + 1 /\ UNCHANGED <<faults, patches>>
PatchFault == patches < MaxPatches /\ patches' = patches + 1 /\ UNCHANGED <<faults, errs>>
NoFault == UNCHANGED <<faults, errs, patches>>
-----------------------------------------------------------------------------
\* The user, and the watch (external).

UserCreate ==
  /\ ~cr.there /\ crs < MaxCrs /\ crs' = crs + 1
  /\ cr' = NewCr /\ news' = TRUE /\ dropped' = FALSE
  /\ UNCHANGED <<seen, due, rec, inv, pool, used, made, faults, errs, patches>>

UserDelete ==
  /\ cr.there /\ ~cr.del /\ news' = TRUE
  /\ cr' = IF cr.fin THEN [cr EXCEPT !.del = TRUE] ELSE NoCr
  /\ UNCHANGED <<seen, due, rec, inv, cpVars, crs, faults, errs, patches>>

UserExpand ==
  /\ cr.there /\ cr.st = "created" /\ ~cr.ann /\ Fault
  /\ cr' = [cr EXCEPT !.ann = TRUE] /\ news' = TRUE
  /\ UNCHANGED <<seen, due, rec, inv, cpVars, crs>>

Watch ==
  /\ news /\ news' = FALSE /\ seen' = cr /\ due' = cr.there
  /\ UNCHANGED <<cr, rec, inv, cpVars, crs, faults, errs, patches>>

\* The control plane (external): the pool's node goes and comes back, the
\* pool gets and loses replicas, somebody deletes the pool.
NodeAway ==
  /\ pool = "on" /\ Fault /\ pool' = "off"
  /\ UNCHANGED <<k8sVars, rec, inv, used, made, dropped, crs>>
NodeBack ==
  /\ pool = "off" /\ pool' = "on"
  /\ UNCHANGED <<k8sVars, rec, inv, used, made, dropped, crs, faults, errs, patches>>
Use ==
  /\ pool = "on" /\ ~used /\ Fault /\ used' = TRUE
  /\ UNCHANGED <<k8sVars, rec, inv, pool, made, dropped, crs>>
Unuse ==
  /\ used /\ used' = FALSE
  /\ UNCHANGED <<k8sVars, rec, inv, pool, made, dropped, crs, faults, errs, patches>>
ExternalDelete ==
  /\ pool # "none" /\ ~used /\ Fault /\ pool' = "none" /\ made' = FALSE
  /\ dropped' = (cr.there /\ {cr.st, seen.st} = {"created"} /\ (rec = NoRec \/ rec.o.st = "created"))
  /\ UNCHANGED <<k8sVars, rec, inv, used, crs>>
-----------------------------------------------------------------------------
\* The reconcile.

Goto(pc) == rec' = [rec EXCEPT !.pc = pc]
End == rec' = NoRec
Requeue == due' = TRUE
AwaitChange == UNCHANGED due
Unpatched == UNCHANGED <<cr, news>>

\* patch_status: a merge into whatever the resource is now.
PatchStatus(st, ps) ==
  /\ cr.there
  /\ cr' = [cr EXCEPT !.st = st, !.ps = ps]
  /\ news' = (news \/ cr' # cr)

\* The end of a reconcile that patches the status: a patch that fails, or
\* finds no resource, is an error, and error_policy queues it again.
Patched(st, ps, then) ==
  \/ PatchStatus(st, ps) /\ then /\ End /\ NoFault
  \/ ~cr.there /\ Unpatched /\ Requeue /\ End /\ NoFault
  \/ PatchFault /\ Unpatched /\ Requeue /\ End

\* upsert puts the resource into the inventory.
Start ==
  /\ due /\ rec = NoRec /\ seen.there
  /\ due' = FALSE /\ inv' = TRUE
  /\ rec' = [pc |-> "finalize", o |-> seen]
  /\ UNCHANGED <<cr, seen, news, cpVars, crs, faults, errs, patches>>

\* finalizer: its errors are logged, and the reconcile goes on.
Finalize ==
  /\ rec.pc = "finalize"
  /\ \/ rec.o.del /\ rec.o.fin /\ Goto("cleanup") /\ Unpatched /\ NoFault
     \/ (rec.o.del # rec.o.fin) /\ ~(rec.o.del /\ rec.o.fin) /\ Goto("main") /\ Unpatched /\ NoFault
     \/ /\ ~rec.o.del /\ ~rec.o.fin /\ Goto("main")
        /\ \/ /\ cr.there /\ ~cr.del /\ cr' = [cr EXCEPT !.fin = TRUE] /\ news' = TRUE /\ NoFault
           \/ ~cr.there /\ Unpatched /\ NoFault
           \/ PatchFault /\ Unpatched
  /\ UNCHANGED <<seen, due, inv, cpVars, crs>>

\* The finalizer's cleanup of a resource without a status and with a pool
\* panics (dsp.status.as_ref().unwrap()).
Cleanup ==
  /\ rec.pc = "cleanup"
  /\ \/ /\ pool # "none" /\ rec.o.st # "none"
        /\ IF rec.o.st = "terminating" THEN Unpatched /\ Goto("delete") /\ NoFault
           ELSE \/ PatchStatus("terminating", IF pool = "on" THEN "online" ELSE "unknown")
                   /\ Goto("delete") /\ NoFault
                \/ PatchFault /\ Unpatched /\ Goto("main")
     \/ pool # "none" /\ rec.o.st = "none" /\ Goto("panic") /\ Unpatched /\ NoFault
     \/ pool = "none" /\ Goto("remove") /\ Unpatched /\ NoFault
     \/ Fault /\ Goto("main") /\ Unpatched
  /\ UNCHANGED <<seen, due, inv, cpVars, crs>>

\* A mistake: the finalizer goes whether or not the pool was deleted.
MutDeletePool ==
  /\ rec.pc = "delete"
  /\ \/ /\ (pool = "on" /\ ~used) \/ pool = "none"
        /\ pool' = "none" /\ made' = FALSE /\ Goto("remove") /\ NoFault
     \/ (pool = "off" \/ used) /\ Goto("remove") /\ UNCHANGED <<pool, made>> /\ NoFault
     \/ Fault /\ Goto("main") /\ UNCHANGED <<pool, made>>
  /\ UNCHANGED <<k8sVars, inv, used, dropped, crs>>

\* delete_pool: a pool that is not found is deleted; the pool of a node that
\* is away, or one in use, is not.
DeletePool ==
  /\ rec.pc = "delete"
  /\ \/ /\ (pool = "on" /\ ~used) \/ pool = "none"
        /\ pool' = "none" /\ made' = FALSE /\ Goto("remove") /\ NoFault
     \/ (pool = "off" \/ used) /\ Goto("main") /\ UNCHANGED <<pool, made>> /\ NoFault
     \/ Fault /\ Goto("main") /\ UNCHANGED <<pool, made>>
  /\ UNCHANGED <<k8sVars, inv, used, dropped, crs>>

\* The resource leaves the inventory, and Kubernetes removes it with its last
\* finalizer.
Remove ==
  /\ rec.pc = "remove" /\ inv' = FALSE /\ Goto("main")
  /\ \/ cr' = NoCr /\ news' = TRUE /\ NoFault
     \/ PatchFault /\ Unpatched
  /\ UNCHANGED <<seen, due, cpVars, crs>>

\* reconcile: what happens next depends on the copy's status.
Dispatch ==
  /\ rec.pc = "main"
  /\ \/ ~inv /\ End /\ AwaitChange /\ Unpatched /\ NoFault
     \/ inv /\ rec.o.st = "none" /\ Patched("creating", "none", AwaitChange)
     \/ inv /\ rec.o.st = "creating" /\ Goto("create") /\ UNCHANGED <<due>> /\ Unpatched /\ NoFault
     \/ /\ inv /\ rec.o.st \in {"created", "terminating"}
        /\ Goto(IF rec.o.ann THEN "expand" ELSE "check") /\ UNCHANGED <<due>> /\ Unpatched /\ NoFault
  /\ UNCHANGED <<seen, inv, cpVars, crs>>

\* create_or_import: a pool that exists is marked, the state comes later.
CreateOrImport ==
  /\ rec.pc = "create"
  /\ \/ /\ pool = "none" /\ pool' = "on" /\ made' = ~rec.o.del
        /\ \/ Goto("pooled") /\ UNCHANGED due /\ NoFault
           \/ End /\ Requeue /\ Fault
        /\ Unpatched
     \/ pool # "none" /\ Patched("created", "unknown", Requeue) /\ UNCHANGED <<pool, made>>
     \/ Fault /\ End /\ Requeue /\ Unpatched /\ UNCHANGED <<pool, made>>
  /\ UNCHANGED <<seen, inv, used, dropped, crs>>

PoolCreated ==
  /\ rec.pc = "pooled"
  /\ \/ pool = "on" /\ Patched("created", "online", AwaitChange)
     \/ pool # "on" /\ End /\ Requeue /\ Unpatched /\ NoFault
     \/ Fault /\ End /\ Requeue /\ Unpatched
  /\ UNCHANGED <<seen, inv, cpVars, crs>>

\* pool_check with the annotation to expand the pool: done, or refused for
\* good, it is removed; else it stays for the next time.
Expand ==
  /\ rec.pc = "expand" /\ Goto("check")
  /\ \/ cr' = [cr EXCEPT !.ann = FALSE] /\ news' = TRUE /\ NoFault
     \/ Unpatched /\ Fault
  /\ UNCHANGED <<seen, due, inv, cpVars, crs>>

\* pool_check: the answers of the control plane, and what they make of the
\* status.  A pool that is not found stays away; other errors than the
\* control plane being unreachable set the status back to creating.
NotFoundStatus == rec.o.st

PoolCheck ==
  LET st == IF rec.o.del THEN "terminating" ELSE "created" IN
  /\ rec.pc = "check"
  /\ \/ pool = "on" /\ rec.o.st = st /\ rec.o.ps = "online"
        /\ End /\ Requeue /\ Unpatched /\ NoFault
     \/ pool = "on" /\ ~(rec.o.st = st /\ rec.o.ps = "online")
        /\ \/ (PatchStatus(st, "online") \/ (~cr.there /\ Unpatched)) /\ NoFault
           \/ Unpatched /\ PatchFault
        /\ End /\ Requeue
     \/ pool = "off" /\ Patched(st, "unknown", Requeue)
     \/ pool = "none" /\ rec.o.del /\ End /\ AwaitChange /\ Unpatched /\ NoFault
     \/ pool = "none" /\ ~rec.o.del /\ Patched(NotFoundStatus, "none", Requeue)
     \/ Fault /\ End /\ Requeue /\ (PatchStatus(rec.o.st, "none") \/ (~cr.there /\ Unpatched))
     \/ Err /\ End /\ (PatchStatus("creating", "none") \/ (~cr.there /\ Unpatched)) /\ AwaitChange
  /\ UNCHANGED <<seen, inv, cpVars, crs>>

\* The operator restarts: what is in the cluster is listed again, and pools
\* without a resource get one (create_missing_cr).
Restart ==
  /\ Fault \/ (rec.pc = "panic" /\ NoFault)
  /\ rec' = [NoRec EXCEPT !.pc = "missing"] /\ inv' = FALSE /\ due' = FALSE
  /\ UNCHANGED <<cr, seen, news, cpVars, crs>>

CreateMissingCr ==
  /\ rec.pc = "missing" /\ End
  /\ cr' = IF pool # "none" /\ ~cr.there THEN NewCr ELSE cr
  /\ seen' = cr' /\ due' = cr'.there /\ news' = FALSE
  /\ UNCHANGED <<inv, cpVars, crs, faults, errs, patches>>
-----------------------------------------------------------------------------
Operator ==
  \/ Start \/ Finalize \/ Cleanup \/ DeletePool \/ Remove \/ Dispatch \/ CreateOrImport
  \/ PoolCreated \/ Expand \/ PoolCheck \/ CreateMissingCr
  \/ rec.pc = "panic" /\ Restart

Next ==
  \/ UserCreate \/ UserDelete \/ UserExpand \/ Watch
  \/ NodeAway \/ NodeBack \/ Use \/ Unuse \/ ExternalDelete
  \/ Operator \/ Restart

\* The operator and its watch run on, nodes return and pools are vacated.
Fairness == WF_vars(Operator) /\ WF_vars(Watch) /\ WF_vars(NodeBack) /\ WF_vars(Unuse)

Spec == Init /\ [][Next]_vars
FairSpec == Spec /\ Fairness
-----------------------------------------------------------------------------
\* context.rs finalizer: a resource is never gone while the pool created for
\* it is left, as long as no patch of the finalizer failed (its error is
\* ignored, and the pool created without it).  Not so for a pool that a stale
\* reconcile of a deleted resource creates: after a failed lookup the cleanup
\* is given up and create_or_import runs without a look at the deletion.
GoneWithPool == patches = 0 /\ ~cr.there /\ made => pool = "none"

\* pool_check "deleted by external event NOT recreating": a pool that was
\* deleted behind its resource stays away, unless an unexpected error of the
\* control plane sets the resource back to creating.
NotRecreatedStep == errs = 0 /\ dropped /\ dropped' /\ pool = "none" => pool' = "none"

\* reconcile: a resource that is there, and stays, gets its pool online or
\* learns that it was deleted.
PoolComesUp ==
  <>[](cr.there /\ ~cr.del) => []<>(cr.ps = "online" \/ (pool = "none" /\ cr.st = "created"))

\* reconcile: the pool of a resource that is deleted goes away.  Not so for
\* the resource itself: when the patch that removes the finalizer fails it has
\* left the inventory, and when the cleanup's lookup fails and the check after
\* it finds no pool ("deleted stopping checker") nothing is queued any more.
Deletes == []<>(cr.del => pool = "none" \/ patches > 0)
=============================================================================
