------------------------------ MODULE NodeDrain ------------------------------
(***************************************************************************)
(* Cordon, drain and registration of one io-engine node.                   *)
(*                                                                         *)
(* The node specification holds cordon labels and drain labels.  A node    *)
(* with any label takes no new target from the scheduler.  A node with a   *)
(* drain label is Draining: the drain reconciler republishes the volumes   *)
(* whose target is on it, remembers them until their old (shutdown) target *)
(* is gone or 120 seconds have passed, and then sets the node to Drained.  *)
(*                                                                         *)
(* Requests and the reconciler change the specification under the node's   *)
(* operation guard: the operation is recorded in memory, a copy with the   *)
(* operation applied is written to the store, then memory is updated.  A   *)
(* registration of the node changes the specification without the guard.   *)
(***************************************************************************)
EXTENDS Naturals

CONSTANTS
  Labels,       \* names used to cordon and drain
  Values,       \* values of the one topology label of the node
  Volumes,      \* the volumes of the cluster
  Local,        \* single-replica volumes whose replica is on this node
  MaxEvents,    \* bound on requests, registrations, faults and restarts
  MaxPublish    \* bound on publishing volumes

VARIABLES
  mem,      \* the node specification in memory
  store,    \* the node specification in the store
  ts,       \* age of the draining timestamp: "none", "now" or "late" (past 120 s)
  task,     \* the holder of the node's guard and where it is
  pass,     \* the reconciler's locals in a pass
  reg,      \* the copy a registration is writing
  vol,      \* the volumes
  owed,     \* volumes moved by the drain whose shutdown target it must await
  raced,    \* a registration has overwritten the store with an older copy
  events, published  \* what is used up of the bounds

nodevars == <<mem, store, ts, task, pass, reg, vol, owed, raced, events, published>>

NoOp == [kind |-> "none", arg |-> {}]
NoPass == [left |-> {}, moved |-> {}, failed |-> FALSE]
Free == [who |-> "none", pc |-> "idle"]

Op(kind, arg) == [kind |-> kind, arg |-> arg]

NodeSpec ==
  [st : {"None", "Cordoned", "Draining", "Drained"},
   cl : SUBSET Labels, dl : SUBSET Labels, dv : SUBSET Volumes,
   tl : SUBSET Values,
   op : [kind : {"none", "Cordon", "Uncordon", "Drain", "Label", "Unlabel",
                 "AddDraining", "RemoveDraining", "RemoveAll", "SetDrained"},
         arg : SUBSET (Labels \cup Values \cup Volumes)]]

NewNode == [st |-> "None", cl |-> {}, dl |-> {}, dv |-> {}, tl |-> {},
            op |-> NoOp]

-----------------------------------------------------------------------------
(* The specification and its operations (store/node.rs).                   *)

Cordoned(n) == n.st # "None"
HasCordonLabel(n, l) == l \in n.cl \cup n.dl
IsDraining(n) == n.st = "Draining"
Dirty(n) == n.op.kind # "none"

(* The state follows from the labels that are left, and a node that is not *)
(* draining awaits no volumes.                                             *)
Resolve(n) ==
  LET st == IF n.st \in {"Draining", "Drained"} /\ n.dl # {} THEN n.st
            ELSE IF n.st # "None" /\ n.cl # {} THEN "Cordoned"
            ELSE "None"
  IN  [n EXCEPT !.st = st, !.dv = IF st = "Draining" THEN @ ELSE {}]

Cordon(n, l) ==
  Resolve([n EXCEPT !.cl = @ \cup l,
                    !.st = IF @ = "None" THEN "Cordoned" ELSE @])

Uncordon(n, l) == Resolve([n EXCEPT !.cl = @ \ l, !.dl = @ \ l])

(* A drained node that gets one more drain label stays drained.            *)
SetDrain(n, l) ==
  Resolve([n EXCEPT !.dl = @ \cup l,
                    !.st = IF @ = "Drained" THEN @ ELSE "Draining"])

SetDrained(n) ==
  Resolve([n EXCEPT !.st = IF @ = "Draining" THEN "Drained" ELSE @])

(* Applying the recorded operation and clearing it.                        *)
CommitOp(n) ==
  LET a == n.op.arg
      r == CASE n.op.kind = "Cordon"         -> Cordon(n, a)
             [] n.op.kind = "Drain"          -> SetDrain(n, a)
             [] n.op.kind = "Uncordon"       -> Uncordon(n, a)
             [] n.op.kind = "Label"          -> [n EXCEPT !.tl = a]
             [] n.op.kind = "Unlabel"        -> [n EXCEPT !.tl = {}]
             [] n.op.kind = "AddDraining"    -> [n EXCEPT !.dv = @ \cup a]
             [] n.op.kind = "RemoveDraining" -> [n EXCEPT !.dv = @ \ a]
             [] n.op.kind = "RemoveAll"      -> [n EXCEPT !.dv = {}]
             [] n.op.kind = "SetDrained"     -> SetDrained(n)
             [] OTHER                        -> n
  IN  [r EXCEPT !.op = NoOp]

(* The timestamp, which is not stored, after the operation of n.           *)
CommitTime(n) ==
  CASE n.op.kind = "AddDraining" /\ n.op.arg # {}        -> "now"
    [] n.op.kind \in {"RemoveDraining", "RemoveAll"} /\ CommitOp(n).dv = {}
                                                         -> "none"
    [] n.op.kind \in {"Cordon", "Uncordon", "Drain", "SetDrained"}
         /\ ~IsDraining(CommitOp(n))                     -> "none"
    [] OTHER                                             -> ts

(* start_update_op: a label may be applied once, only a label that is      *)
(* there can be removed, a topology label is replaced only on request.     *)
Accepts(n, op, overwrite) ==
  CASE op.kind \in {"Cordon", "Drain"} -> \A l \in op.arg : ~HasCordonLabel(n, l)
    [] op.kind = "Uncordon"            -> \A l \in op.arg : HasCordonLabel(n, l)
    [] op.kind = "Label"               -> overwrite \/ n.tl = {}
    [] op.kind = "Unlabel"             -> n.tl # {}
    [] OTHER                           -> TRUE

-----------------------------------------------------------------------------
Init ==
  /\ mem = NewNode /\ store = NewNode
  /\ ts = "none" /\ task = Free /\ pass = NoPass
  /\ reg = {}
  /\ vol = [v \in Volumes |-> [tgt |-> "none", sched |-> FALSE,
                               shut |-> FALSE, busy |-> "no"]]
  /\ owed = {} /\ raced = FALSE /\ events = 0 /\ published = 0

(* start_update: a dirty specification accepts nothing; otherwise the      *)
(* operation is recorded, to be written with a copy of the specification.  *)
Begin(op, who, pc) ==
  /\ mem' = [mem EXCEPT !.op = op]
  /\ task' = [who |-> who, pc |-> pc]

(* A request of the node service: it takes the guard, is validated and     *)
(* starts its operation.  A request that is rejected changes nothing.      *)
Requests ==
  {Op(k, {l}) : k \in {"Cordon", "Uncordon", "Drain"}, l \in Labels}
    \cup {Op("Label", {x}) : x \in Values} \cup {Op("Unlabel", {})}

Request(op) ==
  /\ task = Free /\ events < MaxEvents
  /\ ~Dirty(mem)
  /\ \E overwrite \in BOOLEAN : Accepts(mem, op, overwrite)
  /\ Begin(op, "req", "store")
  /\ events' = events + 1
  /\ UNCHANGED <<store, ts, pass, reg, vol, owed, raced, published>>

(* Where the holder of the guard continues after its operation.            *)
After(kind) ==
  CASE kind = "AddDraining" /\ ~pass.failed            -> [who |-> "pass", pc |-> "find"]
    [] kind \in {"RemoveDraining", "RemoveAll"}        -> [who |-> "pass", pc |-> "check"]
    [] OTHER                                           -> Free

(* The volumes that are still to be awaited once the node is n.            *)
Awaited(n, kind) == IF IsDraining(n) /\ kind # "RemoveAll" THEN owed ELSE {}

(* complete_update: the copy with the operation applied is stored, then    *)
(* the operation is applied in memory.                                     *)
OpStored ==
  /\ task.pc = "store"
  /\ store' = CommitOp(mem)
  /\ mem' = CommitOp(mem)
  /\ ts' = CommitTime(mem)
  /\ task' = After(mem.op.kind)
  /\ pass' = IF task' = Free THEN NoPass ELSE pass
  /\ owed' = Awaited(mem', mem.op.kind)
  /\ UNCHANGED <<reg, vol, raced, events, published>>

(* The write fails, whether or not it reached the store: the operation     *)
(* stays recorded in memory with its result.                               *)
OpNotStored ==
  /\ task.pc = "store" /\ events < MaxEvents
  /\ store' \in {store, CommitOp(mem)}
  /\ task' = Free /\ pass' = NoPass
  /\ events' = events + 1
  /\ UNCHANGED <<mem, ts, reg, vol, owed, raced, published>>

-----------------------------------------------------------------------------
(* The drain reconciler.                                                   *)

PassStart ==
  /\ task = Free /\ IsDraining(mem)
  /\ ts' = IF ts = "none" THEN "now" ELSE ts
  /\ task' = [who |-> "pass", pc |-> "scan"]
  /\ pass' = [NoPass EXCEPT !.left = Volumes]
  /\ UNCHANGED <<mem, store, reg, vol, owed, raced, events, published>>

(* select_drain_target_node: targets elsewhere stay, and so does the       *)
(* target of a single-replica volume that is next to its replica.          *)
ToMove(v) == vol[v].tgt = "here" /\ v \notin Local

(* A volume whose guard is taken is left for the next pass, unseen.        *)
MutScanBusy(v) ==
  /\ task.pc = "scan" /\ v \in pass.left /\ vol[v].busy # "no"
  /\ pass' = [pass EXCEPT !.left = @ \ {v}]
  /\ UNCHANGED <<mem, store, ts, task, reg, vol, owed, raced, events, published>>

ScanBusy(v) ==
  /\ task.pc = "scan" /\ v \in pass.left /\ vol[v].busy # "no"
  /\ pass' = [pass EXCEPT !.left = @ \ {v}, !.failed = TRUE]
  /\ UNCHANGED <<mem, store, ts, task, reg, vol, owed, raced, events, published>>

ScanNothing(v) ==
  /\ task.pc = "scan" /\ v \in pass.left /\ vol[v].busy = "no" /\ ~ToMove(v)
  /\ pass' = [pass EXCEPT !.left = @ \ {v}]
  /\ UNCHANGED <<mem, store, ts, task, reg, vol, owed, raced, events, published>>

(* Republish: the old target is shut down and the scheduler, which skips   *)
(* cordoned nodes and the current one, places a new one elsewhere.         *)
ScanMove(v) ==
  /\ task.pc = "scan" /\ v \in pass.left /\ vol[v].busy = "no" /\ ToMove(v)
  /\ vol' = [vol EXCEPT ![v].tgt = "away", ![v].shut = TRUE]
  /\ pass' = [pass EXCEPT !.left = @ \ {v}, !.moved = @ \cup {v}]
  /\ owed' = owed \cup {v}
  /\ UNCHANGED <<mem, store, ts, task, reg, raced, events, published>>

ScanMoveFails(v) ==
  /\ task.pc = "scan" /\ v \in pass.left /\ vol[v].busy = "no" /\ ToMove(v)
  /\ events < MaxEvents
  /\ pass' = [pass EXCEPT !.left = @ \ {v}, !.failed = TRUE]
  /\ events' = events + 1
  /\ UNCHANGED <<mem, store, ts, task, reg, vol, owed, raced, published>>

(* An update of the reconciler: rejected, which ends the pass, or started. *)
PassUpdate(op) ==
  /\ IF Dirty(mem)
     THEN task' = Free /\ pass' = NoPass /\ UNCHANGED mem
     ELSE Begin(op, "pass", "store") /\ UNCHANGED pass
  /\ UNCHANGED <<store, ts, reg, vol, owed, raced, events, published>>

PassAdd ==
  /\ task.pc = "scan" /\ pass.left = {}
  /\ PassUpdate(Op("AddDraining", pass.moved))

(* Waits for the shutdown targets however long it takes.                   *)
MutPassFind ==
  /\ task.pc = "find"
  /\ PassUpdate(Op("RemoveDraining", {v \in mem.dv : ~vol[v].shut}))

(* find_shutdown_volumes: volumes without a shutdown target are struck     *)
(* off; after 120 seconds all of them are.                                 *)
PassFind ==
  /\ task.pc = "find"
  /\ PassUpdate(IF ts = "now"
                THEN Op("RemoveDraining", {v \in mem.dv : ~vol[v].shut})
                ELSE Op("RemoveAll", {}))

(* Forgets to wait for the volumes that still have shutdown targets.       *)
MutPassCheck ==
  /\ task.pc = "check"
  /\ PassUpdate(Op("SetDrained", {}))

PassCheck ==
  /\ task.pc = "check"
  /\ \/ mem.dv = {} /\ PassUpdate(Op("SetDrained", {}))
     \/ /\ mem.dv # {} /\ task' = Free /\ pass' = NoPass
        /\ UNCHANGED <<mem, store, ts, reg, vol, owed, raced, events, published>>

(* 120 seconds pass.                                                       *)
TimeOut ==
  /\ ts = "now"
  /\ ts' = "late"
  /\ UNCHANGED <<mem, store, task, pass, reg, vol, owed, raced, events, published>>

-----------------------------------------------------------------------------
(* Registration: the node comes back with another endpoint or version.     *)
(* The specification is changed under its lock but without the guard, and  *)
(* the copy taken there is stored afterwards.  What changes (endpoint,     *)
(* host NQN, features, version) is left out; what is copied along is not.  *)
Register ==
  /\ reg = {} /\ events < MaxEvents
  /\ reg' = {mem}
  /\ events' = events + 1
  /\ UNCHANGED <<mem, store, ts, task, pass, vol, owed, raced, published>>

RegisterStored ==
  /\ \E n \in reg :
       /\ store' = n
       /\ raced' = (raced \/ Dirty(n) \/ n # mem)
  /\ reg' = {}
  /\ UNCHANGED <<mem, ts, task, pass, vol, owed, events, published>>

RegisterNotStored ==
  /\ reg # {} /\ events < MaxEvents
  /\ reg' = {} /\ events' = events + 1
  /\ UNCHANGED <<mem, store, ts, task, pass, vol, owed, raced, published>>

-----------------------------------------------------------------------------
(* The volumes' own operations, each under the guard of its volume.        *)

(* next_target_node: a node the caller names only has to be online; the    *)
(* scheduler skips cordoned nodes.                                         *)
Placed(how) == how = "sched" => ~Cordoned(mem)

PublishStart(v, how) ==
  /\ vol[v].busy = "no" /\ vol[v].tgt = "none" /\ published < MaxPublish
  /\ Placed(how)
  /\ vol' = [vol EXCEPT ![v].busy = how]
  /\ published' = published + 1
  /\ UNCHANGED <<mem, store, ts, task, pass, reg, owed, raced, events>>

PublishDone(v) ==
  /\ vol[v].busy \in {"sched", "named"}
  /\ vol' = [vol EXCEPT ![v] = [@ EXCEPT !.busy = "no", !.tgt = "here",
                                         !.sched = vol[v].busy = "sched"]]
  /\ UNCHANGED <<mem, store, ts, task, pass, reg, owed, raced, events, published>>

Unpublish(v) ==
  /\ vol[v].busy = "no" /\ vol[v].tgt # "none"
  /\ vol' = [vol EXCEPT ![v].tgt = "none"]
  /\ UNCHANGED <<mem, store, ts, task, pass, reg, owed, raced, events, published>>

(* The shutdown target of a moved volume is destroyed: by the cluster      *)
(* agent once the path is replaced, or by the garbage collector.           *)
ShutdownGone(v) ==
  /\ vol[v].shut /\ vol[v].busy = "no"
  /\ vol' = [vol EXCEPT ![v].shut = FALSE]
  /\ UNCHANGED <<mem, store, ts, task, pass, reg, owed, raced, events, published>>

-----------------------------------------------------------------------------
(* The agent stops and loads the specifications again.  A write on its way *)
(* may still arrive.  The timestamp is not stored.                         *)
Crash ==
  /\ events < MaxEvents
  /\ store' \in {store} \cup reg
                  \cup (IF task.pc = "store" THEN {CommitOp(mem)} ELSE {})
  /\ raced' = (raced \/ (store' \in reg /\ store' # store))
  /\ mem' = store'
  /\ ts' = "none" /\ task' = Free /\ pass' = NoPass /\ reg' = {}
  /\ \E done \in SUBSET {v \in Volumes : vol[v].busy # "no"} :
       vol' = [v \in Volumes |->
                 IF v \in done
                 THEN [vol[v] EXCEPT !.busy = "no", !.tgt = "here",
                                     !.sched = vol[v].busy = "sched"]
                 ELSE [vol[v] EXCEPT !.busy = "no"]]
  /\ owed' = mem'.dv
  /\ events' = events + 1 /\ UNCHANGED published

Reconcile ==
  \/ PassStart \/ PassAdd \/ PassFind \/ PassCheck \/ OpStored
  \/ \E v \in Volumes : ScanBusy(v) \/ ScanNothing(v) \/ ScanMove(v)

VolumeStep ==
  \E v \in Volumes :
    \/ \E how \in {"sched", "named"} : PublishStart(v, how)
    \/ PublishDone(v) \/ Unpublish(v) \/ ShutdownGone(v)

Next ==
  \/ Reconcile
  \/ \E op \in Requests : Request(op)
  \/ OpNotStored
  \/ \E v \in Volumes : ScanMoveFails(v)
  \/ TimeOut
  \/ Register \/ RegisterStored \/ RegisterNotStored
  \/ VolumeStep
  \/ Crash

(* The reconciler polls for ever, an operation on a volume ends, and time  *)
(* passes.                                                                 *)
Fairness ==
  /\ WF_nodevars(Reconcile)
  /\ WF_nodevars(TimeOut)
  /\ WF_nodevars(\E v \in Volumes : PublishDone(v))

Spec == Init /\ [][Next]_nodevars /\ Fairness

-----------------------------------------------------------------------------
TypeOK ==
  /\ mem \in NodeSpec /\ store \in NodeSpec
  /\ reg \subseteq NodeSpec /\ \A m, n \in reg : m = n
  /\ ts \in {"none", "now", "late"}
  /\ task \in {Free, [who |-> "req", pc |-> "store"]}
              \cup [who : {"pass"}, pc : {"scan", "store", "find", "check"}]
  /\ pass \in [left : SUBSET Volumes, moved : SUBSET Volumes, failed : BOOLEAN]
  /\ vol \in [Volumes -> [tgt : {"none", "here", "away"}, sched : BOOLEAN,
                          shut : BOOLEAN, busy : {"no", "sched", "named"}]]
  /\ owed \subseteq Volumes /\ raced \in BOOLEAN

(* The state of a node and its labels agree, in memory and in the store,   *)
(* whatever the order of cordon, drain and uncordon requests, passes,      *)
(* failed writes and restarts (NodeSpec::resolve): a node is cordoned      *)
(* exactly while it has a label, draining or drained exactly while it has  *)
(* a drain label, and awaits volumes only while it is draining.            *)
Agrees(n) ==
  /\ (n.st # "None") <=> (n.cl \cup n.dl # {})
  /\ (n.st \in {"Draining", "Drained"}) <=> (n.dl # {})
  /\ n.dv # {} => n.st = "Draining"

LabelsAgree == \A n \in {mem, store} : Agrees(n)

(* A drained node serves no target that the scheduler placed there, nor is *)
(* one being placed: the reconciler does not pass over a volume it could   *)
(* not look at, and the cordon was in place before it looked.  Targets     *)
(* that a caller put on the node by name are not covered, nor is a node    *)
(* whose record was overwritten by a registration.                         *)
Clear(v) == ~(vol[v].tgt = "here" /\ vol[v].sched) /\ vol[v].busy # "sched"

DrainedIsClear ==
  ~raced /\ mem.st = "Drained" => \A v \in Volumes \ Local : Clear(v)

(* What was acknowledged survives a restart: with no operation open and no *)
(* write on its way, the stored labels and state are those in memory,      *)
(* unless a registration wrote an older copy over them.                    *)
NodeIsPersisted ==
  ~raced /\ task = Free /\ reg = {} /\ ~Dirty(mem) => store = mem

(* What the agent knows of the node, and has stored of it, is true.        *)
NodeSpecIsTrue == LabelsAgree /\ DrainedIsClear /\ NodeIsPersisted

(* A drain ends only when every volume it moved away has lost its shutdown *)
(* target, unless 120 seconds passed since the last one was moved          *)
(* (find_shutdown_volumes).                                                *)
DrainWaitsStep ==
  OpStored /\ mem.op.kind = "SetDrained" => \A v \in owed : ~vol[v].shut
DrainWaits == [][DrainWaitsStep]_nodevars

(* A draining node does not drain for ever: it is drained or uncordoned,   *)
(* unless a failed write of its specification left it dirty, which no      *)
(* reconciler repairs.                                                     *)
DrainCompletes == []<>(~IsDraining(mem) \/ (Dirty(mem) /\ task.pc # "store"))

-----------------------------------------------------------------------------
(* The inductive invariant behind NodeSpecIsTrue and DrainWaits.           *)

(* A pending operation fits the specification it is recorded in.           *)
OpFits(n) ==
  /\ n.op.kind = "none" => n.op.arg = {}
  /\ n.op.kind \in {"Cordon", "Uncordon", "Drain"} => n.op.arg \subseteq Labels
  /\ n.op.kind = "Label" => n.op.arg \subseteq Values
  /\ n.op.kind = "AddDraining" => n.op.arg \subseteq Volumes
  /\ n.op.kind \in {"AddDraining", "RemoveDraining", "RemoveAll", "SetDrained"}
       => IsDraining(n)

(* True of memory, the store and a copy a registration took.               *)
Sound(n) == n \in NodeSpec /\ Agrees(n) /\ OpFits(n)
SoundInv == \A n \in {mem, store} \cup reg : Sound(n)

(* What the holder of the guard knows where it stands: a pass sees the node *)
(* draining throughout, has left no volume it looked at on the node, and    *)
(* strikes off no volume whose shutdown target is still there.              *)
PassInv ==
  /\ task.pc = "store" => Dirty(mem)
  /\ task.who = "req" => mem.op.kind \in {"Cordon", "Uncordon", "Drain", "Label", "Unlabel"}
  /\ task.who = "pass" =>
       /\ IsDraining(mem)
       /\ ~pass.failed => \A v \in Volumes \ (Local \cup pass.left) : Clear(v)
       /\ task.pc # "scan" => pass.left = {}
       /\ task.pc \in {"find", "check"} => ~pass.failed
       /\ task.pc = "store" =>
            /\ mem.op.kind \in {"AddDraining", "RemoveDraining", "RemoveAll", "SetDrained"}
            /\ mem.op.kind # "AddDraining" => ~pass.failed
            /\ mem.op.kind = "AddDraining" => mem.op.arg = pass.moved
            /\ mem.op.kind = "RemoveDraining" => \A v \in mem.op.arg \cap Volumes : ~vol[v].shut
            /\ mem.op.kind = "SetDrained" => mem.dv = {}

(* The store has what memory has, or also the operation whose write failed. *)
StoreInv ==
  ~raced =>
    /\ store = [mem EXCEPT !.op = NoOp] \/ (Dirty(mem) /\ store = CommitOp(mem))
    /\ mem.st = "Drained" \/ mem.op.kind = "SetDrained" => \A v \in Volumes \ Local : Clear(v)

(* A volume whose shutdown target the drain must await is among those the   *)
(* specification remembers, or is about to be added to them.                *)
Remembered(v) ==
  \/ v \in mem.dv
  \/ /\ v \in pass.moved
     /\ task.pc = "scan" \/ (task.pc = "store" /\ mem.op.kind = "AddDraining")

OwedInv ==
  ~Dirty(mem) \/ task.pc = "store" => \A v \in owed : vol[v].shut => Remembered(v)

IInv == TypeOK /\ SoundInv /\ PassInv /\ StoreInv /\ OwedInv
=============================================================================
