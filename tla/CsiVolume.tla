----------------------------- MODULE CsiVolume -----------------------------
(***************************************************************************)
(* One filesystem volume as the CSI controller and the CSI node plugins    *)
(* attach, stage and mount it on application nodes                         *)
(* (csi-driver/src/bin/controller/controller.rs, bin/node/node.rs).  The   *)
(* container orchestrator, the control plane behind REST, the io-engine    *)
(* and the kernel are external.                                            *)
(*                                                                         *)
(* A handler holds the volume's VolumeOpGuard from its first to its last   *)
(* step, so ctl is the one handler the controller runs for the volume and  *)
(* task[n] the one node n runs; a call that finds the guard taken is       *)
(* aborted and changes nothing.  A handler whose caller gives up is        *)
(* dropped at its next await: the guard is free but the system call that a *)
(* blocking thread executes is not stopped (late[n]).                      *)
(***************************************************************************)
EXTENDS Naturals, FiniteSets

CONSTANTS Nodes,       \* application nodes
          NoNode,      \* no node
          MaxGen,      \* how many targets the volume has in all
          MaxMoves,    \* how often the workload moves
          MaxFaults,   \* failed and lost calls, reboots, failed targets
          MaxCancels   \* calls the caller gives up on

VARIABLES target,  \* the volume's target: its number, its frontend node, whether it is online
          gens,    \* targets so far
          sub,     \* sub[n]: the targets that node n's NVMe subsystem has a controller for
          dev,     \* dev[n]: the block device is there, with a controller
          stg,     \* stg[n]: what is mounted on the staging path
          pub,     \* pub[n]: what is mounted on the target path
          task, late, ctl,
          att,     \* the orchestrator's attachment of the volume to each node
          kub,     \* how far the kubelet of a node got
          want,    \* where the workload is to run
          conns,   \* NvmeConnect requests of the HA node agent on their way
          moves, faults, cancels

kernelVars == <<sub, dev, stg, pub>>
coVars == <<att, kub, want, moves>>
vars == <<target, gens, kernelVars, task, late, ctl, coVars, conns, faults, cancels>>

Idle == [op |-> "idle", pc |-> "idle", gen |-> 0]
IdleCtl == [op |-> "idle", pc |-> "idle", node |-> NoNode]
NoTarget == [gen |-> 0, for |-> NoNode, on |-> FALSE]
Blocking == {"connect", "mount", "umount", "bind", "unbind", "disconnect"}
Mounts == {"no", "cur", "old", "dir"}

TypeOK ==
  /\ target \in [gen : 0..MaxGen, for : Nodes \cup {NoNode}, on : BOOLEAN] /\ gens \in 0..MaxGen
  /\ sub \in [Nodes -> SUBSET (1..MaxGen)] /\ dev \in [Nodes -> BOOLEAN]
  /\ stg \in [Nodes -> {"no", "cur", "old"}] /\ pub \in [Nodes -> Mounts]
  /\ \A n \in Nodes :
       /\ task[n].op \in {"idle", "stage", "publish", "unpublish", "unstage", "force", "attach"}
       /\ task[n].gen \in 0..MaxGen
       /\ late[n] \subseteq [k : Blocking, gen : 0..MaxGen]
       /\ dev[n] => sub[n] # {}
  /\ ctl.op \in {"idle", "publish", "unpublish"} /\ ctl.node \in Nodes \cup {NoNode}
  /\ att \in [Nodes -> {"no", "trying", "yes", "leaving"}] /\ want \in Nodes \cup {NoNode}
  /\ kub \in [Nodes -> {"none", "staging", "staged", "publishing", "published"}]
  /\ conns \subseteq (Nodes \X (1..MaxGen))
  /\ moves \in 0..MaxMoves /\ faults \in 0..MaxFaults /\ cancels \in 0..MaxCancels

Init ==
  /\ target = NoTarget /\ gens = 0
  /\ sub = [n \in Nodes |-> {}] /\ dev = [n \in Nodes |-> FALSE]
  /\ stg = [n \in Nodes |-> "no"] /\ pub = [n \in Nodes |-> "no"]
  /\ task = [n \in Nodes |-> Idle] /\ late = [n \in Nodes |-> {}] /\ ctl = IdleCtl
  /\ att = [n \in Nodes |-> "no"] /\ kub = [n \in Nodes |-> "none"] /\ want \in Nodes \cup {NoNode}
  /\ conns = {} /\ moves = 0 /\ faults = 0 /\ cancels = 0

Fault == faults < MaxFaults /\ faults' = faults + 1

NoFault == UNCHANGED faults
-----------------------------------------------------------------------------
\* The kernel (external).

\* The mounts of a device that is lost stay, with a source nobody finds.
Lost(m) == IF m = "cur" THEN "old" ELSE m

\* nvme connect: the target answers its own frontend node only.
Connects(n, g) == target.gen = g /\ target.on /\ target.for = n

Connect(n, g) ==
  /\ sub' = [sub EXCEPT ![n] = @ \cup {g}]
  /\ UNCHANGED <<dev, stg, pub>>

Disconnect(n) ==
  /\ sub' = [sub EXCEPT ![n] = {}]
  /\ dev' = [dev EXCEPT ![n] = FALSE]
  /\ stg' = [stg EXCEPT ![n] = Lost(@)]
  /\ pub' = [pub EXCEPT ![n] = Lost(@)]

\* A device shows up once a controller reaches the target.
DevAppears(n) ==
  /\ ~dev[n] /\ target.on /\ target.gen \in sub[n]
  /\ dev' = [dev EXCEPT ![n] = TRUE]
  /\ UNCHANGED <<target, gens, sub, stg, pub, task, late, ctl, coVars, conns, faults, cancels>>

\* ctrl_loss_tmo: the controllers of targets that are gone are removed.
Lose(n) ==
  LET dead == {g \in sub[n] : ~(g = target.gen /\ target.on)} IN
  /\ dead # {}
  /\ \/ dead # sub[n] /\ sub' = [sub EXCEPT ![n] = @ \ dead] /\ UNCHANGED <<dev, stg, pub>>
     \/ dead = sub[n] /\ Disconnect(n)
  /\ UNCHANGED <<target, gens, task, late, ctl, coVars, conns, faults, cancels>>

Reboot(n) ==
  /\ Fault
  /\ sub' = [sub EXCEPT ![n] = {}] /\ dev' = [dev EXCEPT ![n] = FALSE]
  /\ stg' = [stg EXCEPT ![n] = "no"] /\ pub' = [pub EXCEPT ![n] = "no"]
  /\ task' = [task EXCEPT ![n] = Idle] /\ late' = [late EXCEPT ![n] = {}]
  /\ kub' = [kub EXCEPT ![n] = "none"]
  /\ ctl' = IF task[n].op = "force" THEN IdleCtl ELSE ctl
  /\ UNCHANGED <<target, gens, att, want, moves, conns, cancels>>
-----------------------------------------------------------------------------
\* The control plane behind REST (external; VolumeTarget models it).

TargetFails ==
  /\ target.on /\ Fault /\ target' = [target EXCEPT !.on = FALSE]
  /\ UNCHANGED <<gens, kernelVars, task, late, ctl, coVars, conns, cancels>>

\* The cluster agent moves a failed target, and the node agent asks the CSI
\* node plugin to connect to it.
SwitchOver ==
  /\ target.gen # 0 /\ ~target.on /\ gens < MaxGen
  /\ gens' = gens + 1
  /\ target' = [target EXCEPT !.gen = gens + 1, !.on = TRUE]
  /\ conns' = conns \cup {<<target.for, gens + 1>>}
  /\ UNCHANGED <<kernelVars, task, late, ctl, coVars, faults, cancels>>
-----------------------------------------------------------------------------
\* The controller plugin.

\* The orchestrator attaches a volume to one node at a time.
PublishCall(n) ==
  /\ want = n /\ att[n] \in {"no", "trying"} /\ \A m \in Nodes \ {n} : att[m] = "no"
  /\ ctl = IdleCtl
  /\ ctl' = [op |-> "publish", pc |-> "get", node |-> n]
  /\ att' = [att EXCEPT ![n] = "trying"]
  /\ UNCHANGED <<target, gens, kernelVars, task, late, kub, want, moves, conns, faults, cancels>>

FrontendNodesAllowed(n) == target.for = n

\* A volume that is published is published already, or not for this node;
\* one that is not is first cleaned up on the node.
PublishGet ==
  /\ ctl.op = "publish" /\ ctl.pc = "get"
  /\ \/ /\ target.gen # 0
        /\ ctl' = IdleCtl
        /\ att' = IF FrontendNodesAllowed(ctl.node) /\ target.on THEN [att EXCEPT ![ctl.node] = "yes"] ELSE att
     \/ target.gen = 0 /\ ctl' = [ctl EXCEPT !.pc = "unstage"] /\ UNCHANGED att
  /\ UNCHANGED <<target, gens, kernelVars, task, late, kub, want, moves, conns, faults, cancels>>

\* The call reaches the node plugin, unless that is busy with the volume.
ForceUnstage ==
  /\ ctl.op = "publish" /\ ctl.pc = "unstage"
  /\ \/ /\ task[ctl.node] = Idle
        /\ task' = [task EXCEPT ![ctl.node] = [op |-> "force", pc |-> "subs", gen |-> 0]]
        /\ ctl' = [ctl EXCEPT !.pc = "wait"] /\ NoFault
     \/ task[ctl.node] # Idle /\ ctl' = IdleCtl /\ UNCHANGED task /\ NoFault
     \/ Fault /\ ctl' = IdleCtl /\ UNCHANGED task
  /\ UNCHANGED <<target, gens, kernelVars, late, coVars, conns, cancels>>

\* PUT /volumes/{id}/target; its answer may be lost.
PublishRest ==
  /\ ctl.op = "publish" /\ ctl.pc = "rest"
  /\ ctl' = IdleCtl
  /\ \/ /\ target.gen = 0 /\ gens < MaxGen
        /\ gens' = gens + 1
        /\ target' = [gen |-> gens + 1, for |-> ctl.node, on |-> TRUE]
        /\ \/ att' = [att EXCEPT ![ctl.node] = "yes"] /\ NoFault
           \/ Fault /\ UNCHANGED att
     \/ Fault /\ UNCHANGED <<target, gens, att>>
  /\ UNCHANGED <<kernelVars, task, late, kub, want, moves, conns, cancels>>

\* The orchestrator detaches once the node has unstaged, or by force, and does
\* not stop half-way.
UnpublishCall(n) ==
  /\ ctl = IdleCtl /\ att[n] # "no" /\ (want # n \/ att[n] = "leaving")
  /\ \/ kub[n] = "none" /\ NoFault
     \/ kub[n] # "none" /\ att[n] # "leaving" /\ Fault
     \/ kub[n] # "none" /\ att[n] = "leaving" /\ NoFault
  /\ att' = [att EXCEPT ![n] = "leaving"]
  /\ ctl' = [op |-> "unpublish", pc |-> "get", node |-> n]
  /\ UNCHANGED <<target, gens, kernelVars, task, late, kub, want, moves, conns, cancels>>

UnpublishGet ==
  /\ ctl.op = "unpublish" /\ ctl.pc = "get"
  /\ \/ target.gen = 0 /\ ctl' = IdleCtl /\ att' = [att EXCEPT ![ctl.node] = "no"]
     \/ target.gen # 0 /\ ctl' = [ctl EXCEPT !.pc = "rest"] /\ UNCHANGED att
  /\ UNCHANGED <<target, gens, kernelVars, task, late, kub, want, moves, conns, faults, cancels>>

MutUnpublished(n) == NoTarget

\* DELETE /volumes/{id}/target for this frontend node: refused for another
\* one's target, which counts as done.
Unpublished(n) == IF target.for = n THEN NoTarget ELSE target

UnpublishRest ==
  /\ ctl.op = "unpublish" /\ ctl.pc = "rest"
  /\ ctl' = IdleCtl
  /\ \/ /\ target' = Unpublished(ctl.node)
        /\ \/ att' = [att EXCEPT ![ctl.node] = "no"] /\ NoFault
           \/ Fault /\ UNCHANGED att
     \/ Fault /\ UNCHANGED <<target, att>>
  /\ UNCHANGED <<gens, kernelVars, task, late, kub, want, moves, conns, cancels>>

\* An orchestrator that lost its state detaches a node a second time, late.
UnpublishAgain(n) ==
  /\ want # n /\ att[n] = "no" /\ kub[n] = "none" /\ ctl = IdleCtl /\ Fault
  /\ ctl' = [op |-> "unpublish", pc |-> "get", node |-> n]
  /\ UNCHANGED <<target, gens, kernelVars, task, late, coVars, conns, cancels>>
-----------------------------------------------------------------------------
\* The node plugin.

Start(n, op, pc, gen) == task' = [task EXCEPT ![n] = [op |-> op, pc |-> pc, gen |-> gen]]
Goto(n, pc) == task' = [task EXCEPT ![n].pc = pc]
Done(n) == task' = [task EXCEPT ![n] = Idle]
At(n, op, pc) == task[n].op = op /\ task[n].pc = pc

NodeUnchanged == UNCHANGED <<target, gens, late, ctl, att, want, moves, conns, cancels>>

\* Mounts of the device that is attached now: find_src_mounts.
Mounted(n) == stg[n] = "cur" \/ pub[n] = "cur"

StageCall(n) ==
  /\ want = n /\ att[n] = "yes" /\ kub[n] \in {"none", "staging"} /\ task[n] = Idle
  /\ Start(n, "stage", "uri", 0) /\ kub' = [kub EXCEPT ![n] = "staging"]
  /\ UNCHANGED kernelVars /\ NoFault /\ NodeUnchanged

\* volume_uri: the URI comes from the control plane, the context's may be old.
StageUri(n) ==
  /\ At(n, "stage", "uri")
  /\ \/ target.on /\ Start(n, "stage", "find", target.gen)
     \/ ~target.on /\ Done(n)
  /\ UNCHANGED <<kernelVars, kub>> /\ NoFault /\ NodeUnchanged

StageFind(n) ==
  /\ At(n, "stage", "find")
  /\ Goto(n, IF dev[n] THEN "mount" ELSE "connect")
  /\ UNCHANGED <<kernelVars, kub>> /\ NoFault /\ NodeUnchanged

\* device.attach: nothing to do when the subsystem has this controller.
Attach(n, pc) ==
  LET g == task[n].gen IN
  \/ g \in sub[n] /\ Goto(n, pc) /\ UNCHANGED kernelVars
  \/ g \notin sub[n] /\ Connects(n, g) /\ Connect(n, g) /\ Goto(n, pc)
  \/ g \notin sub[n] /\ ~Connects(n, g) /\ Done(n) /\ UNCHANGED kernelVars

StageConnect(n) ==
  /\ At(n, "stage", "connect") /\ Attach(n, "wait")
  /\ UNCHANGED kub /\ NoFault /\ NodeUnchanged

\* wait_for_device gives up after ATTACH_RETRIES.
StageWait(n) ==
  /\ At(n, "stage", "wait")
  /\ \/ dev[n] /\ Goto(n, "mount") /\ NoFault
     \/ ~dev[n] /\ target.gen \notin sub[n] /\ Done(n) /\ NoFault
     \/ ~dev[n] /\ Done(n) /\ Fault
  /\ UNCHANGED <<kernelVars, kub>> /\ NodeUnchanged

\* stage_fs_volume: mounted already; mounted elsewhere, or another device is
\* on the path; or mounted now.  A failure detaches a device without mounts.
StageMount(n) ==
  /\ At(n, "stage", "mount")
  /\ \/ /\ dev[n] /\ stg[n] \in {"no", "cur"} /\ (stg[n] = "no" => pub[n] # "cur")
        /\ stg' = [stg EXCEPT ![n] = "cur"]
        /\ Done(n) /\ kub' = [kub EXCEPT ![n] = "staged"] /\ NoFault
     \/ /\ \/ stg[n] = "old" /\ NoFault
           \/ stg[n] = "no" /\ pub[n] = "cur" /\ NoFault
           \/ ~dev[n] /\ stg[n] = "no" /\ NoFault
           \/ stg[n] = "no" /\ Fault
        /\ IF Mounted(n) THEN Done(n) ELSE Goto(n, "disconnect")
        /\ UNCHANGED <<stg, kub>>
  /\ UNCHANGED <<sub, dev, pub>> /\ NodeUnchanged

\* detach: a device that is still mounted stays.
Detach(n, ok) ==
  \/ ~dev[n] /\ ok /\ UNCHANGED kernelVars
  \/ dev[n] /\ ~Mounted(n) /\ Disconnect(n) /\ ok
  \/ dev[n] /\ Mounted(n) /\ UNCHANGED <<kernelVars, kub>>

StageDetach(n) ==
  /\ At(n, "stage", "disconnect")
  /\ Detach(n, UNCHANGED kub) /\ Done(n)
  /\ NoFault /\ NodeUnchanged

NodePublishCall(n) ==
  /\ want = n /\ kub[n] \in {"staged", "publishing"} /\ task[n] = Idle
  /\ Start(n, "publish", "check", 0) /\ kub' = [kub EXCEPT ![n] = "publishing"]
  /\ UNCHANGED kernelVars /\ NoFault /\ NodeUnchanged

MutPublishCheck(n) ==
  /\ At(n, "publish", "check")
  /\ \/ pub[n] = "no" /\ Goto(n, "bind") /\ UNCHANGED kub
     \/ pub[n] = stg[n] /\ Done(n) /\ kub' = [kub EXCEPT ![n] = "published"]
     \/ pub[n] \notin {"no", stg[n]} /\ Done(n) /\ UNCHANGED kub
  /\ UNCHANGED kernelVars /\ NoFault /\ NodeUnchanged

\* publish_fs_volume: the staging path has to be a mount, the target path
\* free or a mount of the same source.
PublishCheck(n) ==
  /\ At(n, "publish", "check")
  /\ \/ stg[n] # "no" /\ pub[n] = "no" /\ Goto(n, "bind") /\ UNCHANGED kub
     \/ stg[n] # "no" /\ pub[n] = stg[n] /\ Done(n) /\ kub' = [kub EXCEPT ![n] = "published"]
     \/ (stg[n] = "no" \/ pub[n] \notin {"no", stg[n]}) /\ Done(n) /\ UNCHANGED kub
  /\ UNCHANGED kernelVars /\ NoFault /\ NodeUnchanged

\* A bind mount shows what is mounted on the staging path, or that directory
\* of the host's own filesystem when nothing is.
Bound(n) == IF stg[n] = "no" THEN "dir" ELSE stg[n]

PublishBind(n) ==
  /\ At(n, "publish", "bind") /\ Done(n)
  /\ \/ pub' = [pub EXCEPT ![n] = Bound(n)] /\ kub' = [kub EXCEPT ![n] = "published"] /\ NoFault
     \/ Fault /\ UNCHANGED <<pub, kub>>
  /\ UNCHANGED <<sub, dev, stg>> /\ NodeUnchanged

UnpublishNode(n) ==
  /\ want # n /\ kub[n] \in {"publishing", "published"} /\ task[n] = Idle
  /\ Start(n, "unpublish", "unbind", 0)
  /\ UNCHANGED <<kernelVars, kub>> /\ NoFault /\ NodeUnchanged

UnpublishUnbind(n) ==
  /\ At(n, "unpublish", "unbind") /\ Done(n)
  /\ pub' = [pub EXCEPT ![n] = "no"] /\ kub' = [kub EXCEPT ![n] = "staged"]
  /\ UNCHANGED <<sub, dev, stg>> /\ NoFault /\ NodeUnchanged

UnstageCall(n) ==
  /\ want # n /\ kub[n] \in {"staging", "staged"} /\ task[n] = Idle
  /\ Start(n, "unstage", "umount", 0)
  /\ UNCHANGED <<kernelVars, kub>> /\ NoFault /\ NodeUnchanged

\* unstage_fs_volume: nothing may be mounted from the device elsewhere.
UnstageUmount(n) ==
  /\ At(n, "unstage", "umount")
  /\ IF stg[n] # "no" /\ pub[n] = stg[n]
       THEN Done(n) /\ UNCHANGED stg
       ELSE Goto(n, "disconnect") /\ stg' = [stg EXCEPT ![n] = "no"]
  /\ UNCHANGED <<sub, dev, pub, kub>> /\ NoFault /\ NodeUnchanged

UnstageDetach(n) ==
  /\ At(n, "unstage", "disconnect")
  /\ Detach(n, kub' = [kub EXCEPT ![n] = "none"]) /\ Done(n)
  /\ NoFault /\ NodeUnchanged

MutForceSubs(n) ==
  /\ At(n, "force", "subs")
  /\ Disconnect(n) /\ Done(n) /\ ctl' = IdleCtl
  /\ UNCHANGED <<target, gens, late, coVars, conns, faults, cancels>>

\* force_unstage_volume: every path is disconnected, and the caller has to
\* ask again; only without a path are the mounts removed.
ForceSubs(n) ==
  /\ At(n, "force", "subs")
  /\ \/ sub[n] # {} /\ Disconnect(n) /\ Done(n) /\ ctl' = IdleCtl
     \/ sub[n] = {} /\ Goto(n, "umount") /\ UNCHANGED <<kernelVars, ctl>>
  /\ UNCHANGED <<target, gens, late, coVars, conns, faults, cancels>>

ForceUmount(n) ==
  /\ At(n, "force", "umount") /\ Done(n)
  /\ ctl' = [ctl EXCEPT !.pc = "rest"]
  /\ stg' = [stg EXCEPT ![n] = "no"]
  /\ pub' = [pub EXCEPT ![n] = IF @ = "dir" THEN @ ELSE "no"]
  /\ UNCHANGED <<target, gens, sub, dev, late, coVars, conns, faults, cancels>>

\* nvme_connect, for the HA node agent: guarded, but at any later time.
ConnectCall(n, g) ==
  /\ <<n, g>> \in conns /\ task[n] = Idle
  /\ conns' = conns \ {<<n, g>>} /\ Start(n, "attach", "connect", g)
  /\ UNCHANGED <<target, gens, kernelVars, late, ctl, coVars, faults, cancels>>

ConnectStep(n) ==
  /\ At(n, "attach", "connect") /\ Attach(n, "end")
  /\ UNCHANGED kub /\ NoFault /\ NodeUnchanged

ConnectEnd(n) ==
  /\ At(n, "attach", "end") /\ Done(n)
  /\ UNCHANGED <<kernelVars, kub>> /\ NoFault /\ NodeUnchanged
-----------------------------------------------------------------------------
\* The caller gives up: the handler is dropped, what it has started is not.
Cancel(n) ==
  /\ task[n] # Idle /\ cancels < MaxCancels
  /\ cancels' = cancels + 1 /\ Done(n)
  /\ ctl' = IF task[n].op = "force" THEN IdleCtl ELSE ctl
  /\ late' = IF task[n].pc \in Blocking
               THEN [late EXCEPT ![n] = @ \cup {[k |-> task[n].pc, gen |-> task[n].gen]}]
               ELSE late
  /\ UNCHANGED <<target, gens, kernelVars, coVars, conns, faults>>

LateCall(n, x) ==
  /\ x \in late[n] /\ late' = [late EXCEPT ![n] = @ \ {x}]
  /\ CASE x.k = "connect" /\ Connects(n, x.gen) -> Connect(n, x.gen)
       [] x.k = "disconnect" /\ dev[n] -> Disconnect(n)
       [] x.k = "mount" /\ dev[n] /\ stg[n] = "no" ->
            stg' = [stg EXCEPT ![n] = "cur"] /\ UNCHANGED <<sub, dev, pub>>
       [] x.k = "umount" -> stg' = [stg EXCEPT ![n] = "no"] /\ UNCHANGED <<sub, dev, pub>>
       [] x.k = "bind" /\ pub[n] = "no" ->
            pub' = [pub EXCEPT ![n] = Bound(n)] /\ UNCHANGED <<sub, dev, stg>>
       [] x.k = "unbind" -> pub' = [pub EXCEPT ![n] = "no"] /\ UNCHANGED <<sub, dev, stg>>
       [] OTHER -> UNCHANGED kernelVars
  /\ UNCHANGED <<target, gens, task, ctl, coVars, conns, faults, cancels>>

\* The workload moves (external).
Move(n) ==
  /\ moves < MaxMoves /\ n # want /\ want' = n /\ moves' = moves + 1
  /\ UNCHANGED <<target, gens, kernelVars, task, late, ctl, att, kub, conns, faults, cancels>>
-----------------------------------------------------------------------------
ControllerStep ==
  \/ PublishGet \/ ForceUnstage \/ PublishRest
  \/ UnpublishGet \/ UnpublishRest

NodeStep(n) ==
  \/ StageUri(n) \/ StageFind(n) \/ StageConnect(n) \/ StageWait(n) \/ StageMount(n) \/ StageDetach(n)
  \/ PublishCheck(n) \/ PublishBind(n) \/ UnpublishUnbind(n)
  \/ UnstageUmount(n) \/ UnstageDetach(n) \/ ForceSubs(n) \/ ForceUmount(n)
  \/ ConnectStep(n) \/ ConnectEnd(n)

\* The orchestrator's calls, which it repeats until they succeed.
ControllerCall(n) == PublishCall(n) \/ ((kub[n] = "none" \/ att[n] = "leaving") /\ UnpublishCall(n))
NodeCall(n) == StageCall(n) \/ NodePublishCall(n) \/ UnpublishNode(n) \/ UnstageCall(n)

Next ==
  \/ ControllerStep
  \/ TargetFails \/ SwitchOver
  \/ \E n \in Nodes :
       \/ NodeStep(n) \/ NodeCall(n) \/ PublishCall(n) \/ UnpublishCall(n) \/ UnpublishAgain(n)
       \/ DevAppears(n) \/ Lose(n) \/ Reboot(n) \/ Cancel(n)
       \/ \E g \in 1..MaxGen : ConnectCall(n, g)
       \/ \E x \in late[n] : LateCall(n, x)
  \/ \E n \in Nodes \cup {NoNode} : Move(n)

\* Handlers run to their end, the kernel completes what it was asked for and
\* the orchestrator tries again.
Fairness ==
  /\ WF_vars(ControllerStep) /\ WF_vars(SwitchOver)
  /\ \A n \in Nodes : /\ WF_vars(NodeStep(n)) /\ WF_vars(NodeCall(n)) /\ SF_vars(ControllerCall(n))
                      /\ WF_vars(DevAppears(n)) /\ WF_vars(Lose(n))
                      /\ WF_vars(\E x \in late[n] : LateCall(n, x))

Spec == Init /\ [][Next]_vars
FairSpec == Spec /\ Fairness
-----------------------------------------------------------------------------
\* controller.rs controller_publish_volume "ensure the subsystem doesn't have
\* any path present before publishing": a volume is published for a node only
\* when that has neither a path nor a mount left of an earlier target.
PublishedFreshStep ==
  target.gen = 0 /\ target'.gen # 0 =>
    LET n == target'.for IN sub[n] = {} /\ stg[n] = "no" /\ pub[n] \in {"no", "dir"}

\* controller.rs controller_unpublish_volume: detaching a node, however late,
\* never takes away the target of another one.
DetachesOwnStep ==
  target.gen # 0 /\ target'.gen = 0 => target.for = ctl.node

\* filesystem_vol.rs publish_fs_volume: the workload never gets a directory of
\* the host's own disk for its volume, when no call was given up on.
BindIsVolume == cancels = 0 => \A n \in Nodes : pub[n] # "dir"

\* Once the workload stays on a node, the volume gets published there: the
\* retries get through the guards and the forced cleanups, unless the staging
\* mount was lost, or removed by a forced cleanup, behind the kubelet's back,
\* or a call was given up on.
MountKnown(n) == stg[n] # "old" /\ (kub[n] \in {"staged", "publishing"} => stg[n] = "cur")

Runs ==
  \A n \in Nodes :
    <>[](want = n) /\ []<>(cancels = 0 /\ MountKnown(n)) => []<>(kub[n] = "published")
=============================================================================
