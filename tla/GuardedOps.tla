----------------------------- MODULE GuardedOps -----------------------------
(***************************************************************************)
(* The operation transaction protocol which the core agent runs on every   *)
(* resource specification (volume, nexus, replica, pool, snapshot, node):   *)
(* GuardedOperationsHelper in controller/resources/operations_helper.rs,    *)
(* over the operation sequencer of stor-port's store/mod.rs.                *)
(*                                                                         *)
(* One resource identifier is modelled.  Its specification lives behind an  *)
(* Arc<Mutex<..>> which the registry maps the identifier to; a task clones  *)
(* that Arc, waits for its exclusive operation guard and then runs          *)
(*     start (log the operation in the store) ; execute ; complete.         *)
(* An Arc which was cloned before remove_spec took it out of the registry   *)
(* stays usable, which is why Arcs are part of the state.                   *)
(*                                                                         *)
(* The store is etcd: a write that returns an error may have been applied.  *)
(* A crash of the agent loses the registry and every task; a restart reads  *)
(* the store.                                                              *)
(***************************************************************************)
EXTENDS Naturals

CONSTANTS
    Tasks,       \* tasks serving front-end requests
    Poller,      \* the reconciler task
    Arcs,        \* Arc allocations of the specification
    Vals,        \* values of the updatable part of the specification
    InitVal,     \* the value which a create request asks for
    OnFail,      \* OnCreateFail policies applied to a retriable failure
    LogModes,    \* log_op results of the update operations
    NoTask, NoArc, NoVal, NoRec, Gone,
    MaxReqs,     \* bound: front-end requests in a behaviour
    MaxFaults,   \* bound: failed store writes and failed data-plane calls
    MaxCrashes   \* bound: crashes of the agent

Procs == Tasks \cup {Poller}

ASSUME ConstAssumption ==
    /\ InitVal \in Vals /\ NoVal \notin Vals /\ Gone \notin Vals
    /\ Poller \notin Tasks /\ NoTask \notin Procs
    /\ NoArc \notin Arcs
    /\ OnFail \subseteq {"LeaveAsIs", "SetDeleting"} /\ OnFail # {}
    /\ LogModes \subseteq {"TT", "FT", "FF"}
    /\ MaxReqs \in Nat /\ MaxFaults \in Nat /\ MaxCrashes \in Nat

VARIABLES
    reg,      \* the Arc which the registry holds for the identifier, or NoArc
    mem,      \* the specification behind each Arc
    guard,    \* the task which holds the exclusive guard of each Arc
    pstor,    \* the record in the persistent store, or NoRec
    dp,       \* does the resource exist on the data plane
    pc, kind, arc, arg, mode, clone, reply,    \* the state of each task
    reqs, faults, crashes,                     \* what the bounds count
    base,     \* history: outcomes which the replies so far allow
    orphaned  \* history: an operation started on a removed specification

task   == <<pc, kind, arc, arg, mode, clone, reply>>
bounds == <<reqs, faults, crashes>>
ghosts == <<base, orphaned>>
vars   == <<reg, mem, guard, pstor, dp, task, bounds, ghosts>>

-----------------------------------------------------------------------------
\* The specification and the SpecTransaction operations on it.

Status == {"Creating", "Created", "Deleting", "Deleted"}
Ops    == {"None", "Create", "Destroy", "Update"}

SpecRec == {s \in [status : Status, op : Ops, arg : Vals \cup {NoVal},
                   result : {"None", "True", "False"}, val : Vals] :
              s.op = "Update" => s.arg \in Vals}

ASSUME NoRecAssumption == NoRec \notin SpecRec

NewSpec == [status |-> "Creating", op |-> "None", arg |-> NoVal,
            result |-> "None", val |-> InitVal]

StartOp(s, o, v) == [s EXCEPT !.op = o, !.arg = v, !.result = "None"]
ClearOp(s) == [s EXCEPT !.op = "None", !.arg = NoVal, !.result = "None"]
SetStatus(s, st) == [s EXCEPT !.status = st]

SetOpResult(s, r) == IF s.op = "None" THEN s ELSE [s EXCEPT !.result = r]

\* Mutant: an update is committed without its effect.
CommitOpLost(s) ==
    CASE s.op = "Create"  -> SetStatus(ClearOp(s), "Created")
      [] s.op = "Destroy" -> SetStatus(ClearOp(s), "Deleted")
      [] OTHER            -> ClearOp(s)

CommitOp(s) ==
    CASE s.op = "Create"  -> SetStatus(ClearOp(s), "Created")
      [] s.op = "Destroy" -> SetStatus(ClearOp(s), "Deleted")
      [] s.op = "Update"  -> [ClearOp(s) EXCEPT !.val = s.arg]
      [] s.op = "None"    -> s

FailCreatingToDeleting(s) == ClearOp(SetStatus(s, "Deleting"))

\* Mutant: an operation that a crash left without a result does not count.
DirtyWithResult(s) == s.op # "None" /\ s.result # "None"

\* busy(): the specification still waits to be flushed to the store.
Dirty(s) == s.op # "None"

-----------------------------------------------------------------------------
\* Control state of the tasks.

StorePcs == {"log", "commit", "undo", "setdel", "purge", "delspec"}
Pcs      == {"idle", "guard", "exec"} \cup StorePcs

Init ==
    /\ reg = NoArc
    /\ mem = [a \in Arcs |-> NewSpec]
    /\ guard = [a \in Arcs |-> NoTask]
    /\ pstor = NoRec
    /\ dp = FALSE
    /\ pc = [p \in Procs |-> "idle"]
    /\ kind = [p \in Procs |-> IF p = Poller THEN "gc" ELSE "create"]
    /\ arc = [p \in Procs |-> NoArc]
    /\ arg = [p \in Procs |-> NoVal]
    /\ mode = [p \in Procs |-> "TT"]
    /\ clone = [p \in Procs |-> NewSpec]
    /\ reply = [p \in Procs |-> "none"]
    /\ reqs = 0 /\ faults = 0 /\ crashes = 0
    /\ base = {Gone}
    /\ orphaned = FALSE

Goto(p, l) == pc' = [pc EXCEPT ![p] = l]

\* Issue a store call: the task awaits its reply at l, c is what it writes.
Await(p, l, c) ==
    /\ Goto(p, l)
    /\ clone' = [clone EXCEPT ![p] = c]
    /\ reply' = [reply EXCEPT ![p] = "none"]
    /\ UNCHANGED <<kind, arc, arg, mode>>

\* The task returns: the guard is dropped and so are its locals.  An Arc which
\* nothing refers to any more is freed, m being the specifications otherwise.
Finish(p, m, r) ==
    /\ pc' = [pc EXCEPT ![p] = "idle"]
    /\ arc' = [arc EXCEPT ![p] = NoArc]
    /\ arg' = [arg EXCEPT ![p] = NoVal]
    /\ mode' = [mode EXCEPT ![p] = "TT"]
    /\ clone' = [clone EXCEPT ![p] = NewSpec]
    /\ reply' = [reply EXCEPT ![p] = "none"]
    /\ kind' = [kind EXCEPT ![p] = IF p = Poller THEN @ ELSE "create"]
    /\ guard' = [a \in Arcs |-> IF a = arc[p] /\ guard[a] = p THEN NoTask ELSE guard[a]]
    /\ reg' = r
    /\ mem' = [a \in Arcs |->
                 IF a # r /\ a = arc[p] /\ \A q \in Procs \ {p} : arc[q] # a
                 THEN NewSpec ELSE m[a]]

\* What the resource is for a client if the operation of task t takes effect.
Outcome(t) == IF kind[t] = "create"  THEN InitVal
              ELSE IF kind[t] = "update" THEN arg[t] ELSE Gone

RepliedOk(p)  == base' = IF p \in Tasks THEN {Outcome(p)} ELSE base
RepliedErr(p) == base' = IF p \in Tasks THEN base \cup {Outcome(p)} ELSE base

-----------------------------------------------------------------------------
\* Requests: a task gets hold of the Arc, and still has to get its guard.

FreeArcs == {a \in Arcs : a # reg /\ \A p \in Procs : arc[p] # a}

Begin(p, k, a) ==
    /\ pc' = [pc EXCEPT ![p] = "guard"]
    /\ kind' = [kind EXCEPT ![p] = k]
    /\ arc' = [arc EXCEPT ![p] = a]
    /\ UNCHANGED <<clone, reply>>

\* get_or_create_volume/pool/replica/nexus/snapshot ahead of the guard.
ReqCreate(t) ==
    /\ pc[t] = "idle" /\ reqs < MaxReqs
    /\ reqs' = reqs + 1
    /\ \/ reg # NoArc /\ Begin(t, "create", reg) /\ UNCHANGED <<reg, mem>>
       \/ /\ reg = NoArc
          /\ \E a \in FreeArcs :
                /\ Begin(t, "create", a)
                /\ reg' = a
                /\ mem' = [mem EXCEPT ![a] = NewSpec]
    /\ UNCHANGED <<guard, pstor, dp, arg, mode, faults, crashes, ghosts>>

ReqDestroy(t) ==
    /\ pc[t] = "idle" /\ reqs < MaxReqs /\ reg # NoArc
    /\ reqs' = reqs + 1
    /\ Begin(t, "destroy", reg)
    /\ UNCHANGED <<reg, mem, guard, pstor, dp, arg, mode, faults, crashes, ghosts>>

ReqUpdate(t) ==
    /\ pc[t] = "idle" /\ reqs < MaxReqs /\ reg # NoArc
    /\ reqs' = reqs + 1
    /\ Begin(t, "update", reg)
    /\ \E v \in Vals, m \in LogModes :
          arg' = [arg EXCEPT ![t] = v] /\ mode' = [mode EXCEPT ![t] = m]
    /\ UNCHANGED <<reg, mem, guard, pstor, dp, faults, crashes, ghosts>>

\* The reconciler collects the registered Arcs, for its dirty-spec pass and its
\* garbage-collection pass in turn, and then visits them one by one.
Poll ==
    /\ pc[Poller] = "idle" /\ reg # NoArc
    /\ Begin(Poller, IF kind[Poller] = "gc" THEN "dirty" ELSE "gc", reg)
    /\ UNCHANGED <<reg, mem, guard, pstor, dp, arg, mode, bounds, ghosts>>

\* operation_guard / operation_guard_wait gives up: SvcError::Conflict.
Conflict(p) ==
    /\ pc[p] = "guard" /\ guard[arc[p]] # NoTask
    /\ Finish(p, mem, reg)
    /\ UNCHANGED <<pstor, dp, bounds, ghosts>>

-----------------------------------------------------------------------------
\* start_*: the guard is taken, the request is validated, the operation noted.

\* Mutant: the operation sequencer is not consulted.
CanStartUnguarded(p, k) == pc[p] = "guard" /\ kind[p] = k

CanStart(p, k) == pc[p] = "guard" /\ kind[p] = k /\ guard[arc[p]] = NoTask

TakeGuard(p) ==
    /\ guard' = [guard EXCEPT ![arc[p]] = p]
    /\ orphaned' = (orphaned \/ arc[p] # reg)

\* A validation error: nothing changed and the guard is dropped again.
Reject(p) ==
    Finish(p, mem, reg) /\ UNCHANGED <<pstor, dp, bounds, ghosts>>

StartCreate(t) ==
    /\ CanStart(t, "create")
    /\ LET a == arc[t]
           s == StartOp(mem[a], "Create", NoVal)
       IN \/ /\ Dirty(mem[a]) \/ mem[a].status # "Creating"
             /\ Reject(t)
          \/ /\ ~Dirty(mem[a]) /\ mem[a].status = "Creating"
             /\ TakeGuard(t)
             /\ mem' = [mem EXCEPT ![a] = s]
             /\ Await(t, "log", s)
             /\ UNCHANGED <<reg, pstor, dp, bounds, base>>

\* An operation with log_op FF persists nothing: it leaves val alone.
StartUpdate(t) ==
    /\ CanStart(t, "update")
    /\ LET a == arc[t]
           v == IF mode[t] = "FF" THEN mem[a].val ELSE arg[t]
           s == StartOp(mem[a], "Update", v)
       IN \/ /\ Dirty(mem[a]) \/ mem[a].status # "Created"
             /\ Reject(t)
          \/ /\ ~Dirty(mem[a]) /\ mem[a].status = "Created"
             /\ TakeGuard(t)
             /\ mem' = [mem EXCEPT ![a] = s]
             /\ Goto(t, IF mode[t] = "TT" THEN "log" ELSE "exec")
             /\ clone' = [clone EXCEPT ![t] = s]
             /\ reply' = [reply EXCEPT ![t] = "none"]
             /\ arg' = [arg EXCEPT ![t] = v]
             /\ UNCHANGED <<reg, pstor, dp, kind, arc, mode, bounds, base>>

\* The garbage collector only destroys what is already Deleting.
Collectable(s) == s.status = "Deleting"

\* start_destroy, for a front-end task or for the garbage collector.  A Deleted
\* specification (another task removed it meanwhile) is reported as success.
StartDestroy(p) ==
    /\ CanStart(p, IF p = Poller THEN "gc" ELSE "destroy")
    /\ LET a == arc[p]
           s == StartOp(SetStatus(mem[a], "Deleting"), "Destroy", NoVal)
       IN \/ /\ Dirty(mem[a]) \/ (p = Poller /\ ~Collectable(mem[a]))
             /\ Reject(p)
          \/ /\ ~Dirty(mem[a]) /\ p \in Tasks /\ mem[a].status = "Deleted"
             /\ TakeGuard(p)
             /\ Await(p, "exec", mem[a])
             /\ UNCHANGED <<reg, mem, pstor, dp, bounds, base>>
          \/ /\ ~Dirty(mem[a]) /\ mem[a].status # "Deleted"
             /\ p = Poller => Collectable(mem[a])
             /\ TakeGuard(p)
             /\ mem' = [mem EXCEPT ![a] = s]
             /\ Await(p, "log", s)
             /\ UNCHANGED <<reg, pstor, dp, bounds, base>>

-----------------------------------------------------------------------------
\* The persistent store.

Written(p) == IF pc[p] \in {"purge", "delspec"} THEN NoRec ELSE clone[p]

\* Registry::store_obj and delete_kv; an error does not tell what etcd did.
Store(p) ==
    /\ pc[p] \in StorePcs /\ reply[p] = "none"
    /\ \/ /\ pstor' = Written(p)
          /\ reply' = [reply EXCEPT ![p] = "ok"]
          /\ UNCHANGED faults
       \/ /\ faults < MaxFaults
          /\ faults' = faults + 1
          /\ pstor' \in {pstor, Written(p)}
          /\ reply' = [reply EXCEPT ![p] = "err"]
    /\ UNCHANGED <<reg, mem, guard, dp, pc, kind, arc, arg, mode, clone, reqs, crashes, ghosts>>

-----------------------------------------------------------------------------
\* What a task does with the reply to each store call.

Put(p, s) == [mem EXCEPT ![arc[p]] = s]

\* store_operation_log.  A create that cannot be logged deletes the spec.
LogReply(p) ==
    /\ pc[p] = "log" /\ reply[p] # "none"
    /\ LET s == mem[arc[p]] IN
       \/ /\ reply[p] = "ok"
          /\ Goto(p, "exec")
          /\ reply' = [reply EXCEPT ![p] = "none"]
          /\ UNCHANGED <<reg, mem, guard, kind, arc, arg, mode, clone, base>>
       \/ /\ reply[p] = "err" /\ kind[p] = "create"
          /\ mem' = Put(p, ClearOp(s))
          /\ Await(p, "delspec", clone[p])
          /\ UNCHANGED <<reg, guard, base>>
       \/ /\ reply[p] = "err" /\ kind[p] # "create"
          /\ Finish(p, Put(p, ClearOp(s)), reg)
          /\ RepliedErr(p)
    /\ UNCHANGED <<pstor, dp, bounds, orphaned>>

\* complete_create and complete_update after success on the data plane, and
\* handle_incomplete_updates for an operation whose result is known to be true.
CommitReply(p) ==
    /\ pc[p] = "commit" /\ reply[p] # "none"
    /\ LET s == mem[arc[p]] IN
       \/ /\ reply[p] = "ok"
          /\ Finish(p, Put(p, CommitOp(s)), reg)
          /\ RepliedOk(p)
       \/ /\ reply[p] = "err"
          /\ Finish(p, Put(p, SetOpResult(s, "True")), reg)
          /\ RepliedErr(p)
    /\ UNCHANGED <<pstor, dp, bounds, orphaned>>

\* Mutant: the reconciler flushes the record but forgets the copy in memory.
AfterUndoKept(p, s) ==
    IF kind[p] = "dirty" THEN s
    ELSE IF reply[p] = "ok" THEN ClearOp(s) ELSE SetOpResult(s, "False")

AfterUndo(p, s) ==
    IF reply[p] = "ok" THEN ClearOp(s)
    ELSE IF kind[p] = "dirty" THEN s ELSE SetOpResult(s, "False")

\* The operation failed: its log is removed from the store, then from memory.
UndoReply(p) ==
    /\ pc[p] = "undo" /\ reply[p] # "none"
    /\ Finish(p, Put(p, AfterUndo(p, mem[arc[p]])), reg)
    /\ RepliedErr(p)
    /\ UNCHANGED <<pstor, dp, bounds, orphaned>>

\* handle_create_failed, SetDeleting: the result of the write is ignored.
SetDeletingReply(p) ==
    /\ pc[p] = "setdel" /\ reply[p] # "none"
    /\ Finish(p, mem, reg)
    /\ RepliedErr(p)
    /\ UNCHANGED <<pstor, dp, bounds, orphaned>>

\* complete_destroy after success on the data plane.
PurgeReply(p) ==
    /\ pc[p] = "purge" /\ reply[p] # "none"
    /\ LET s == mem[arc[p]] IN
       \/ /\ reply[p] = "ok"
          /\ Finish(p, Put(p, CommitOp(s)), NoArc)
          /\ RepliedOk(p)
       \/ /\ reply[p] = "err"
          /\ Finish(p, Put(p, SetOpResult(s, "True")), reg)
          /\ RepliedErr(p)
    /\ UNCHANGED <<pstor, dp, bounds, orphaned>>

\* delete_spec: remove_spec takes out whatever the identifier maps to.
DeleteSpecReply(p) ==
    /\ pc[p] = "delspec" /\ reply[p] # "none"
    /\ \/ /\ reply[p] = "ok"
          /\ Finish(p, mem, NoArc)
       \/ /\ reply[p] = "err"
          /\ Finish(p, Put(p, SetOpResult(mem[arc[p]], "False")), reg)
    /\ RepliedErr(p)
    /\ UNCHANGED <<pstor, dp, bounds, orphaned>>

-----------------------------------------------------------------------------
\* The data-plane call between start and complete.  A call that fails may have
\* been executed, unless the data plane refused the arguments.

Fault == faults < MaxFaults /\ faults' = faults + 1 /\ UNCHANGED <<reqs, crashes>>

\* handle_create_failed for the policy of the error.
CreateFailed(t, policy) ==
    LET s == mem[arc[t]] IN
    \/ /\ policy = "LeaveAsIs"
       /\ Await(t, "undo", ClearOp(s))
       /\ UNCHANGED mem
    \/ /\ policy = "SetDeleting"
       /\ mem' = Put(t, FailCreatingToDeleting(s))
       /\ Await(t, "setdel", FailCreatingToDeleting(s))
    \/ /\ policy = "Delete"
       /\ Await(t, "delspec", s)
       /\ UNCHANGED mem

ExecCreate(t) ==
    /\ pc[t] = "exec" /\ kind[t] = "create"
    /\ \/ /\ dp' = TRUE
          /\ Await(t, "commit", CommitOp(mem[arc[t]]))
          /\ UNCHANGED <<mem, bounds>>
       \/ /\ Fault
          /\ \/ dp' \in {dp, TRUE} /\ \E f \in OnFail : CreateFailed(t, f)
             \/ dp = FALSE /\ dp' = FALSE /\ CreateFailed(t, "Delete")
    /\ UNCHANGED <<reg, guard, pstor, ghosts>>

\* complete_update.  Without flush nothing is written to the store.
ExecUpdate(t) ==
    /\ pc[t] = "exec" /\ kind[t] = "update"
    /\ \/ /\ mode[t] # "FF"
          /\ \/ Await(t, "commit", CommitOp(clone[t])) /\ UNCHANGED bounds
             \/ Fault /\ Await(t, "undo", ClearOp(clone[t]))
          /\ UNCHANGED <<reg, mem, guard, base>>
       \/ /\ mode[t] = "FF"
          /\ \/ /\ Finish(t, Put(t, CommitOp(mem[arc[t]])), reg)
                /\ RepliedOk(t)
                /\ UNCHANGED bounds
             \/ /\ Finish(t, Put(t, ClearOp(mem[arc[t]])), reg)
                /\ RepliedErr(t)
                /\ Fault
    /\ UNCHANGED <<pstor, dp, orphaned>>

\* Mutant: a destroy that fails puts the specification back to Created.
ExecDestroyRestores(p) ==
    /\ pc[p] = "exec" /\ kind[p] \in {"destroy", "gc"}
    /\ \/ dp' = FALSE /\ Await(p, "purge", clone[p]) /\ UNCHANGED bounds
       \/ Fault /\ dp' \in {dp, FALSE} /\ Await(p, "undo", SetStatus(ClearOp(mem[arc[p]]), "Created"))
    /\ UNCHANGED <<reg, mem, guard, pstor, ghosts>>

ExecDestroy(p) ==
    /\ pc[p] = "exec" /\ kind[p] \in {"destroy", "gc"}
    /\ \/ dp' = FALSE /\ Await(p, "purge", clone[p]) /\ UNCHANGED bounds
       \/ Fault /\ dp' \in {dp, FALSE} /\ Await(p, "undo", ClearOp(mem[arc[p]]))
    /\ UNCHANGED <<reg, mem, guard, pstor, ghosts>>

-----------------------------------------------------------------------------
\* handle_incomplete_ops(_ext): the dirty-spec pass of the reconciler.
HandleIncompleteOps ==
    /\ CanStart(Poller, "dirty")
    /\ LET a == arc[Poller]
           s == mem[a]
           Updates ==
              \/ /\ ~Dirty(s)
                 /\ Reject(Poller)
              \/ /\ Dirty(s)
                 /\ TakeGuard(Poller)
                 /\ IF s.result = "True" THEN Await(Poller, "commit", CommitOp(s))
                                         ELSE Await(Poller, "undo", ClearOp(s))
                 /\ UNCHANGED <<reg, mem, pstor, dp, bounds, base>>
       IN \/ /\ s.status = "Creating" /\ "SetDeleting" \in OnFail
             /\ Finish(Poller, Put(Poller, SetStatus(s, "Deleting")), reg)
             /\ UNCHANGED <<pstor, dp, bounds, ghosts>>
          \/ s.status = "Creating" /\ "LeaveAsIs" \in OnFail /\ Updates
          \/ s.status \in {"Created", "Deleting"} /\ Updates
          \/ /\ s.status = "Deleted"
             /\ TakeGuard(Poller)
             /\ Await(Poller, "delspec", s)
             /\ UNCHANGED <<reg, mem, pstor, dp, bounds, base>>

-----------------------------------------------------------------------------
\* The agent crashes; it restarts with what the store holds (ResourceSpecs init).
Crash ==
    /\ crashes < MaxCrashes
    /\ crashes' = crashes + 1
    /\ \/ pstor = NoRec /\ reg' = NoArc /\ mem' = [a \in Arcs |-> NewSpec]
       \/ /\ pstor # NoRec
          /\ \E a \in Arcs : /\ reg' = a
                             /\ mem' = [b \in Arcs |-> IF b = a THEN pstor ELSE NewSpec]
    /\ guard' = [a \in Arcs |-> NoTask]
    /\ pc' = [p \in Procs |-> "idle"]
    /\ kind' = [p \in Procs |-> IF p = Poller THEN "gc" ELSE "create"]
    /\ arc' = [p \in Procs |-> NoArc]
    /\ arg' = [p \in Procs |-> NoVal]
    /\ mode' = [p \in Procs |-> "TT"]
    /\ clone' = [p \in Procs |-> NewSpec]
    /\ reply' = [p \in Procs |-> "none"]
    /\ base' = base \cup {Outcome(t) : t \in {u \in Tasks : pc[u] \notin {"idle", "guard"}}}
    /\ UNCHANGED <<pstor, dp, reqs, faults, orphaned>>

-----------------------------------------------------------------------------
TaskStep(t) ==
    \/ StartCreate(t) \/ StartUpdate(t)
    \/ ExecCreate(t) \/ ExecUpdate(t)

ProcStep(p) ==
    \/ Conflict(p)
    \/ StartDestroy(p) \/ ExecDestroy(p)
    \/ Store(p)
    \/ LogReply(p) \/ CommitReply(p) \/ UndoReply(p)
    \/ SetDeletingReply(p) \/ PurgeReply(p) \/ DeleteSpecReply(p)

Request(t) == ReqCreate(t) \/ ReqUpdate(t) \/ ReqDestroy(t)

Next ==
    \/ \E t \in Tasks : Request(t) \/ TaskStep(t)
    \/ \E p \in Procs : ProcStep(p)
    \/ Poll \/ HandleIncompleteOps
    \/ Crash

\* Tokio keeps running a task that can run, and the poller keeps polling.
Fairness ==
    /\ \A t \in Tasks : WF_vars(TaskStep(t) \/ ProcStep(t))
    /\ WF_vars(Poll \/ HandleIncompleteOps \/ ProcStep(Poller))

Spec == Init /\ [][Next]_vars
FairSpec == Spec /\ Fairness
-----------------------------------------------------------------------------
InOp(p) == pc[p] \notin {"idle", "guard"}

\* Type correctness of the registry, the store and the locals of the tasks.
TypeOK ==
    /\ reg \in Arcs \cup {NoArc}
    /\ mem \in [Arcs -> SpecRec]
    /\ guard \in [Arcs -> Procs \cup {NoTask}]
    /\ pstor \in SpecRec \cup {NoRec}
    /\ dp \in BOOLEAN
    /\ pc \in [Procs -> Pcs]
    /\ kind \in [Procs -> {"create", "update", "destroy", "dirty", "gc"}]
    /\ arc \in [Procs -> Arcs \cup {NoArc}]
    /\ arg \in [Procs -> Vals \cup {NoVal}]
    /\ mode \in [Procs -> {"TT", "FT", "FF"}]
    /\ clone \in [Procs -> SpecRec]
    /\ reply \in [Procs -> {"none", "ok", "err"}]
    /\ reqs \in 0..MaxReqs /\ faults \in 0..MaxFaults /\ crashes \in 0..MaxCrashes
    /\ base \subseteq Vals \cup {Gone}
    /\ orphaned \in BOOLEAN

\* "Exclusive operations must be performed one at a time" (store/mod.rs): no two
\* tasks are between the start and the completion of an operation on the resource.
OneAtATime == \A p, q \in Procs : InOp(p) /\ InOp(q) => p = q

\* The guard serialises the operations on the resource, as long as none of them
\* started on a specification which remove_spec had already taken out.
ExclusiveOperations == ~orphaned => OneAtATime

\* Outcomes a client must expect: the replies so far and the operations under way.
Legal == base \cup {Outcome(t) : t \in {u \in Tasks : InOp(u)}}

\* What the store would bring back after a restart.
Brings(s) == IF s.status = "Created" THEN s.val ELSE Gone
Durable == IF pstor = NoRec THEN Gone ELSE Brings(pstor)

\* A successful reply is durable: whatever the store holds at any moment, and so
\* whatever a crash at that moment leaves, is an outcome the replies allow.  An
\* acknowledged create is not lost, an acknowledged update not reverted and an
\* acknowledged destroy not undone, and the garbage collector only destroys what
\* was never acknowledged or was asked to go.
AckedIsDurable == ~orphaned => Durable \in Legal

Persisted(s) == pstor # NoRec /\ pstor.status = "Created" /\ pstor.val = s.val

\* What the agent serves from memory is what the store has: a Created, flushed
\* specification is persisted as Created with the same value.
MemoryIsPersisted ==
    (~orphaned /\ reg # NoArc) =>
        LET s == mem[reg] IN
        (guard[reg] = NoTask /\ s.status = "Created" /\ ~Dirty(s)) => Persisted(s)

\* Every record in the store has a registered specification, which is what the
\* reconcilers walk: no record is left for the next restart to discover.
RecordIsRegistered == (~orphaned /\ pstor # NoRec) => reg # NoArc

\* The store, memory and the acknowledged requests agree, through failed writes that were
\* applied or not, the repairs of the reconciler and restarts (store_obj, complete_update,
\* handle_incomplete_ops).
StoreIsTrue == AckedIsDurable /\ MemoryIsPersisted /\ RecordIsRegistered

\* Write-ahead: a resource exists on the data plane only while the store knows of
\* it, so that no crash and no failed write can leak it.
NoLeak == (~orphaned /\ dp) => pstor # NoRec

\* "If the persistent store is unavailable the spec is marked as dirty and the dirty
\* spec reconciler will attempt to update the store" (delete_spec): a specification
\* whose deletion failed has a pending operation.
FailedDeleteIsDirty ==
    [][\A p \in Procs : DeleteSpecReply(p) /\ reply[p] = "err" /\ arc[p] = reg
                            => Dirty(mem'[reg])]_vars

\* "In case of error, the log is undone" (start_destroy): when the store does not
\* have the log, memory is what it was, with the status which the store still has.
DestroyLogIsUndone ==
    [][\A t \in Tasks :
          /\ LogReply(t) /\ reply[t] = "err" /\ kind[t] = "destroy" /\ arc[t] = reg
          /\ pstor # NoRec /\ ~Dirty(pstor)
          => mem'[reg].status = pstor.status]_vars

\* "In case of error, the log is undone" (start_create): the undo removes no more
\* than the log; the record of a resource which an earlier attempt, left Creating
\* for a retry, put on the data plane stays in the store.
CreateLogIsUndone ==
    [][\A t \in Tasks : pc[t] = "delspec" /\ kind[t] = "create" /\ dp => pstor' # NoRec]_vars

\* A dirty specification is flushed by the reconciler once the store is back.
DirtyIsFlushed ==
    (reg # NoArc /\ Dirty(mem[reg]) /\ guard[reg] = NoTask)
        ~> (reg = NoArc \/ ~Dirty(mem[reg]))

\* Once the store holds a specification as Deleting, the garbage collector eventually
\* takes it out of the registry, across failed destroys, failed writes and restarts of the
\* agent, unless an operation runs on a removed specification (see OneAtATime) and writes
\* an older one back.
DeletingIsRemoved ==
    (pstor # NoRec /\ pstor.status \in {"Deleting", "Deleted"}) ~> (reg = NoArc \/ orphaned)
-----------------------------------------------------------------------------
\* The inductive invariant behind ExclusiveOperations and NoLeak.

\* Where an operation of each kind can stand.
PcsOf(k) ==
    CASE k = "create"  -> {"idle", "guard", "log", "exec", "commit", "undo", "setdel", "delspec"}
      [] k = "update"  -> {"idle", "guard", "log", "exec", "commit", "undo"}
      [] k = "destroy" -> {"idle", "guard", "log", "exec", "purge", "undo"}
      [] k = "gc"      -> {"idle", "guard", "log", "exec", "purge", "undo"}
      [] k = "dirty"   -> {"idle", "guard", "commit", "undo", "delspec"}

\* A task in an operation holds the guard of its Arc, and only such a task does.
GuardInv ==
    /\ \A p \in Procs : pc[p] # "idle" => arc[p] \in Arcs
    /\ \A p \in Procs : pc[p] \in PcsOf(kind[p])
    /\ \A p \in Procs : InOp(p) => guard[arc[p]] = p
    /\ \A a \in Arcs : guard[a] # NoTask => InOp(guard[a]) /\ arc[guard[a]] = a
    /\ kind[Poller] \in {"dirty", "gc"}
    /\ \A t \in Tasks : kind[t] \in {"create", "update", "destroy"}
    /\ \A t \in Tasks : kind[t] = "update" => arg[t] \in Vals

\* Before anything goes wrong, an operation runs on the registered Arc.
RegInv == ~orphaned => \A p \in Procs : InOp(p) => arc[p] = reg

\* Where a task stands tells what it knows of memory, store and data plane.
Stage(p) ==
    LET s == mem[reg] IN
    /\ pc[p] = "log" =>
           clone[p] = s /\ s.result = "None" /\ (reply[p] = "ok" => pstor = s)
    /\ kind[p] = "create" =>
           /\ pc[p] \in {"log", "exec", "commit"} => s.status = "Creating" /\ s.op = "Create"
           /\ pc[p] = "log" => ~dp
           /\ pc[p] = "exec" => pstor = s /\ s.result = "None"
           /\ pc[p] = "setdel" => s.status = "Deleting" /\ s.op = "None"
           /\ pc[p] # "undo"
    /\ kind[p] = "update" =>
           /\ InOp(p) => s.status = "Created" /\ s.op = "Update"
           /\ pc[p] = "exec" => clone[p] = s /\ s.result = "None"
    /\ kind[p] \in {"destroy", "gc"} =>
           /\ InOp(p) => s.status \in {"Deleting", "Deleted"}
           /\ pc[p] = "log" => s.status = "Deleting"
    /\ kind[p] = "dirty" =>
           /\ pc[p] \in {"commit", "undo"} => s.status \in {"Created", "Deleting"}
           /\ pc[p] = "commit" => s.result = "True"
    /\ pc[p] \in {"purge", "delspec"} => ~dp
    /\ pc[p] \in {"commit", "undo", "setdel"} =>
           clone[p].result = "None" /\ (dp => clone[p].status \notin {"Creating", "Deleted"})

StageInv == ~orphaned => \A p \in Procs : InOp(p) => Stage(p)

\* No retry, no reconciler pass and no restart takes s for never created.
Kept(s) == (s.status = "Creating" => s.op = "Create") /\ s.status # "Deleted"

\* A resource on the data plane is recorded as such in memory and in the store.
LeakInv ==
    ~orphaned =>
        /\ pstor # NoRec /\ Dirty(pstor) => pstor.result = "None"
        /\ dp => /\ reg # NoArc /\ pstor # NoRec
                 /\ Kept(mem[reg]) /\ Kept(pstor)
                 /\ ~(mem[reg].op = "Destroy" /\ mem[reg].result = "True")

\* What serialises the operations, whatever the create-failure policy ...
GInv == TypeOK /\ GuardInv /\ RegInv

\* ... and what keeps the store ahead of the data plane.
IInv == GInv /\ StageInv /\ LeakInv

-----------------------------------------------------------------------------
\* The inductive invariant behind StoreIsTrue, whatever the create-failure policy.

\* A resource is created with the value its create asked for, before anything else.
Initial(s) ==
    /\ s.status = "Creating" => s.op \in {"None", "Create"}
    /\ s.status = "Creating" \/ s.op = "Create" => s.val = InitVal

\* What a task in an operation has written, or is about to, follows from memory.
Writes(p) ==
    LET s == mem[reg] IN
    /\ pc[p] = "log"    => clone[p] = s /\ s.result = "None"
    /\ pc[p] = "commit" => clone[p] = CommitOp(s)
    /\ pc[p] = "undo"   => clone[p] = ClearOp(s)
    /\ pc[p] = "setdel" => clone[p] = s /\ s.op = "None"
    /\ pc[p] \in StorePcs /\ reply[p] = "ok" => pstor = Written(p)
    /\ kind[p] = "create" =>
           /\ pc[p] # "setdel" => s.status = "Creating"
           /\ pc[p] \in {"log", "exec", "commit"} => s.op = "Create"
           /\ pc[p] = "setdel" => s.status = "Deleting"
    /\ kind[p] = "update" =>
           /\ s.status = "Created" /\ s.op = "Update" /\ s.arg = arg[p]
           /\ pc[p] = "exec" => clone[p] = s
           /\ pc[p] \in {"log", "exec"} => Persisted(s)
           /\ mode[p] = "FF" => s.arg = s.val
    /\ kind[p] \in {"destroy", "gc"} =>
           s.status \in {"Deleting", "Deleted"} /\ s.op \in {"Destroy", "None"}
    /\ kind[p] = "dirty" =>
           /\ pc[p] = "commit" => s.op # "None" /\ s.result = "True"
           /\ pc[p] = "undo" => s.op # "None"
           /\ pc[p] = "delspec" => s.status = "Deleted"

WritesInv == ~orphaned => \A p \in Procs : InOp(p) => Writes(p)

\* Memory, and what the reconciler would make of it, is an outcome the replies allow.
MemInv ==
    ~orphaned /\ reg # NoArc =>
        LET s == mem[reg] IN
        /\ Brings(s) \in Legal /\ Initial(s)
        /\ s.op # "None" /\ s.result = "True" => Brings(CommitOp(s)) \in Legal

\* The record is such an outcome, and never holds the result of an operation.
RecordInv ==
    ~orphaned =>
        /\ Durable \in Legal
        /\ pstor # NoRec => /\ reg # NoArc /\ Initial(pstor)
                            /\ pstor.op # "None" => pstor.result = "None"

StoreInv == WritesInv /\ MemInv /\ RecordInv /\ MemoryIsPersisted
SInv == GInv /\ StoreInv

-----------------------------------------------------------------------------
\* The stored record follows ResourceLifecycle.

\* A record marked Deleted is as good as none.
Stored == pstor # NoRec /\ pstor.status # "Deleted"
Life   == IF Stored THEN pstor.status ELSE "absent"

Lifecycle == INSTANCE ResourceLifecycle WITH
  life <- IF orphaned THEN "void" ELSE Life,
  val <- IF ~orphaned /\ Life = "Created" THEN pstor.val ELSE NoVal

\* The stored record of a resource goes through the states of its life in their
\* order, however its operations fail, are tried again, are finished by the
\* reconcilers or are cut off by a restart (GuardedOperationsHelper).
FollowsLifecycle == Lifecycle!Spec

\* The inductive invariant behind it, next to SInv.

\* A create was announced, and may have been committed.
Begun == Life = "Creating" \/ (Life = "Created" /\ pstor.val = InitVal)

\* The status and the operation of a specification fit together.
OpFits(s) ==
    /\ s.op = "Update" => s.status = "Created"
    /\ s.status = "Created" => s.op \in {"None", "Update"}
    /\ s.status = "Deleted" => s.op = "None"

\* How far the record is behind or ahead of the operation under way.
LifeStage(p) ==
    /\ kind[p] = "create" =>
           /\ mem[reg].result # "True"
           /\ pc[p] \in {"log", "undo", "delspec"} => Life \in {"absent", "Creating"}
           /\ pc[p] = "exec" => Life = "Creating"
           /\ pc[p] = "commit" => Begun
    /\ kind[p] \in {"destroy", "gc"} /\ pc[p] \in {"exec", "purge"} =>
           Life \in {"absent", "Deleting"}
    /\ kind[p] = "dirty" /\ pc[p] = "undo" =>
           /\ mem[reg].result # "True"
           /\ mem[reg].status = "Creating" => Life \in {"absent", "Creating"}

\* How far it is behind or ahead of memory.
LifeMem(s) ==
    /\ OpFits(s)
    /\ s.status = "Created" => Life = "Created"
    /\ s.status = "Deleted" => Life = "absent"
    /\ s.op = "Create" /\ s.result = "True" => Begun
    /\ s.op = "Destroy" /\ s.result = "True" => Life \in {"absent", "Deleting"}
    /\ guard[reg] = NoTask /\ s.status = "Creating" /\ ~(s.op = "Create" /\ s.result = "True")
           => Life \in {"absent", "Creating"}

LifeInv ==
    ~orphaned =>
        /\ \A p \in Procs : InOp(p) => LifeStage(p)
        /\ reg # NoArc => LifeMem(mem[reg])
        /\ pstor # NoRec => OpFits(pstor)
=============================================================================
