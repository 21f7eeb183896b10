-------------------------- MODULE GuardedOpsProofs --------------------------
(***************************************************************************)
(* TLAPS proofs about GuardedOps, for every set of tasks and Arcs and every *)
(* bound.                                                                  *)
(***************************************************************************)
EXTENDS GuardedOps, TLAPS

\* The leaves are first-order; the ones that need more name SMT.
USE Zenon

\* The SpecTransaction operations keep a specification well formed.
LEMMA SpecOpsType ==
    ASSUME NEW s \in SpecRec
    PROVE  /\ ClearOp(s) \in SpecRec
           /\ CommitOp(s) \in SpecRec
           /\ FailCreatingToDeleting(s) \in SpecRec
           /\ \A st \in Status : SetStatus(s, st) \in SpecRec
           /\ \A r \in {"True", "False"} : SetOpResult(s, r) \in SpecRec
           /\ \A o \in Ops \ {"Update"} : StartOp(s, o, NoVal) \in SpecRec
           /\ \A v \in Vals : StartOp(s, "Update", v) \in SpecRec
<1>1. ClearOp(s) \in SpecRec
  BY DEF ClearOp, SpecRec, Ops, Status
<1>2. CommitOp(s) \in SpecRec
  BY <1>1 DEF CommitOp, ClearOp, SetStatus, SpecRec, Ops, Status
<1>3. \A st \in Status : SetStatus(s, st) \in SpecRec
  BY DEF SetStatus, SpecRec, Ops, Status
<1>4. FailCreatingToDeleting(s) \in SpecRec
  BY DEF FailCreatingToDeleting, SetStatus, ClearOp, SpecRec, Ops, Status
<1>5. \A r \in {"True", "False"} : SetOpResult(s, r) \in SpecRec
  BY DEF SetOpResult, SpecRec, Ops, Status
<1>6. \A o \in Ops \ {"Update"} : StartOp(s, o, NoVal) \in SpecRec
  BY DEF StartOp, SpecRec, Ops, Status
<1>7. \A v \in Vals : StartOp(s, "Update", v) \in SpecRec
  BY DEF StartOp, SpecRec, Ops, Status
<1> QED
  BY <1>1, <1>2, <1>3, <1>4, <1>5, <1>6, <1>7

\* A freshly allocated specification is well formed.
LEMMA NewSpecType == NewSpec \in SpecRec
BY ConstAssumption DEF NewSpec, SpecRec, Ops, Status

\* Where an operation of each kind can stand, spelled out.
LEMMA PcsOfKind ==
    /\ PcsOf("create") = {"idle", "guard", "log", "exec", "commit", "undo", "setdel", "delspec"}
    /\ PcsOf("update") = {"idle", "guard", "log", "exec", "commit", "undo"}
    /\ PcsOf("destroy") = {"idle", "guard", "log", "exec", "purge", "undo"}
    /\ PcsOf("gc") = {"idle", "guard", "log", "exec", "purge", "undo"}
    /\ PcsOf("dirty") = {"idle", "guard", "commit", "undo", "delspec"}
BY DEF PcsOf

-----------------------------------------------------------------------------
\* How the task-local parts of the state change, shared by all the actions.

\* Issuing a store call keeps the types.
LEMMA AwaitType ==
    ASSUME TypeOK, NEW p \in Procs, NEW l \in Pcs, NEW c \in SpecRec, Await(p, l, c)
    PROVE  /\ pc' \in [Procs -> Pcs] /\ clone' \in [Procs -> SpecRec]
           /\ reply' \in [Procs -> {"none", "ok", "err"}]
           /\ UNCHANGED <<kind, arc, arg, mode>>
BY DEF Await, Goto, TypeOK

\* Returning from an operation keeps the types.
LEMMA FinishType ==
    ASSUME TypeOK, NEW p \in Procs, NEW m \in [Arcs -> SpecRec],
           NEW r \in Arcs \cup {NoArc}, Finish(p, m, r)
    PROVE  /\ pc' \in [Procs -> Pcs] /\ clone' \in [Procs -> SpecRec]
           /\ reply' \in [Procs -> {"none", "ok", "err"}]
           /\ kind' \in [Procs -> {"create", "update", "destroy", "dirty", "gc"}]
           /\ arc' \in [Procs -> Arcs \cup {NoArc}]
           /\ arg' \in [Procs -> Vals \cup {NoVal}]
           /\ mode' \in [Procs -> {"TT", "FT", "FF"}]
           /\ guard' \in [Arcs -> Procs \cup {NoTask}]
           /\ mem' \in [Arcs -> SpecRec] /\ reg' \in Arcs \cup {NoArc}
BY NewSpecType DEF Finish, TypeOK, Pcs

\* Returning from an operation, or giving up on the guard, keeps GuardInv.
LEMMA FinishGuard ==
    ASSUME TypeOK, GuardInv, NEW p \in Procs, pc[p] # "idle", NEW m, NEW r, Finish(p, m, r)
    PROVE  GuardInv'
<1>1. \A q \in Procs : q # p => /\ pc'[q] = pc[q] /\ arc'[q] = arc[q]
                                /\ kind'[q] = kind[q] /\ arg'[q] = arg[q]
  BY DEF Finish, TypeOK
<1>2. /\ pc'[p] = "idle" /\ arc'[p] = NoArc /\ arg'[p] = NoVal
      /\ kind'[p] = IF p = Poller THEN kind[p] ELSE "create"
  BY DEF Finish, TypeOK
<1>3. \A a \in Arcs : guard'[a] = IF a = arc[p] /\ guard[a] = p THEN NoTask ELSE guard[a]
  BY DEF Finish
<1>4. \A q \in Procs : pc'[q] # "idle" => arc'[q] \in Arcs
  BY <1>1, <1>2 DEF GuardInv
<1>5. \A q \in Procs : pc'[q] \in PcsOf(kind'[q])
  BY SMT, <1>1, <1>2, ConstAssumption DEF GuardInv, PcsOf, Procs
<1>6. \A q \in Procs : pc'[q] \notin {"idle", "guard"} => guard'[arc'[q]] = q
  BY SMT, <1>1, <1>2, <1>3 DEF GuardInv, InOp
<1>7. \A a \in Arcs : guard'[a] # NoTask => pc'[guard'[a]] \notin {"idle", "guard"} /\ arc'[guard'[a]] = a
  BY SMT, <1>1, <1>2, <1>3 DEF GuardInv, InOp, TypeOK
<1>8. /\ kind'[Poller] \in {"dirty", "gc"}
      /\ \A t \in Tasks : kind'[t] \in {"create", "update", "destroy"}
      /\ \A t \in Tasks : kind'[t] = "update" => arg'[t] \in Vals
  BY <1>1, <1>2, ConstAssumption DEF GuardInv, Procs
<1> QED
  BY <1>4, <1>5, <1>6, <1>7, <1>8 DEF GuardInv, InOp

\* Entering an operation with its guard, or going on in one, keeps GuardInv.
LEMMA AdvanceGuard ==
    ASSUME TypeOK, GuardInv, NEW p \in Procs, NEW l \in PcsOf(kind[p]) \ {"idle", "guard"},
           arc[p] \in Arcs, guard[arc[p]] \in {NoTask, p},
           pc' = [pc EXCEPT ![p] = l], guard' = [guard EXCEPT ![arc[p]] = p],
           UNCHANGED <<kind, arc>>,
           \A t \in Tasks : kind[t] = "update" => arg'[t] \in Vals
    PROVE  GuardInv'
<1>1. \A q \in Procs : pc'[q] = IF q = p THEN l ELSE pc[q]
  BY DEF TypeOK
<1>2. \A a \in Arcs : guard'[a] = IF a = arc[p] THEN p ELSE guard[a]
  BY DEF TypeOK
<1>3. \A q \in Procs : pc'[q] # "idle" => arc'[q] \in Arcs
  BY <1>1 DEF GuardInv
<1>4. \A q \in Procs : pc'[q] \in PcsOf(kind'[q])
  BY SMT, <1>1 DEF GuardInv
<1>5. \A q \in Procs : pc'[q] \notin {"idle", "guard"} => guard'[arc'[q]] = q
  BY SMT, <1>1, <1>2, ConstAssumption DEF GuardInv, InOp
<1>6. \A a \in Arcs : guard'[a] # NoTask => pc'[guard'[a]] \notin {"idle", "guard"} /\ arc'[guard'[a]] = a
  BY SMT, <1>1, <1>2 DEF GuardInv, InOp, TypeOK
<1>7. /\ kind'[Poller] \in {"dirty", "gc"}
      /\ \A t \in Tasks : kind'[t] \in {"create", "update", "destroy"}
  BY DEF GuardInv
<1> QED
  BY <1>3, <1>4, <1>5, <1>6, <1>7 DEF GuardInv, InOp

\* Getting hold of an Arc keeps GuardInv.
LEMMA BeginGuard ==
    ASSUME TypeOK, GuardInv, NEW p \in Procs, pc[p] = "idle", NEW k, NEW a \in Arcs,
           Begin(p, k, a), k \in {"create", "update", "destroy", "gc", "dirty"},
           IF p = Poller THEN k \in {"dirty", "gc"} ELSE k \in {"create", "update", "destroy"},
           \A q \in Tasks : kind'[q] = "update" => arg'[q] \in Vals,
           guard' = guard
    PROVE  GuardInv'
<1>1. \A q \in Procs : q # p => pc'[q] = pc[q] /\ arc'[q] = arc[q] /\ kind'[q] = kind[q]
  BY DEF Begin, TypeOK
<1>2. pc'[p] = "guard" /\ arc'[p] = a /\ kind'[p] = k
  BY DEF Begin, TypeOK
<1>3. \A q \in Procs : pc'[q] # "idle" => arc'[q] \in Arcs
  BY <1>1, <1>2 DEF GuardInv
<1>4. \A q \in Procs : pc'[q] \in PcsOf(kind'[q])
  BY SMT, <1>1, <1>2, PcsOfKind DEF GuardInv
<1>5. \A q \in Procs : pc'[q] \notin {"idle", "guard"} => guard'[arc'[q]] = q
  BY <1>1, <1>2 DEF GuardInv, InOp
<1>6. \A b \in Arcs : guard'[b] # NoTask => pc'[guard'[b]] \notin {"idle", "guard"} /\ arc'[guard'[b]] = b
  BY SMT, <1>1, <1>2 DEF GuardInv, InOp, TypeOK
<1>7. /\ kind'[Poller] \in {"dirty", "gc"}
      /\ \A t \in Tasks : kind'[t] \in {"create", "update", "destroy"}
  BY <1>1, <1>2, ConstAssumption DEF GuardInv, Procs
<1> QED
  BY <1>3, <1>4, <1>5, <1>6, <1>7 DEF GuardInv, InOp

\* The registered Arc has one guard, so at most one operation runs on it.
LEMMA OneInOp ==
    ASSUME GuardInv, RegInv, ~orphaned,
           NEW p \in Procs, NEW q \in Procs, InOp(p), InOp(q)
    PROVE  p = q
BY SMT DEF GuardInv, RegInv

\* Returning from an operation keeps RegInv, also when it removes the spec.
LEMMA FinishReg ==
    ASSUME TypeOK, GuardInv, RegInv, NEW p \in Procs, NEW m, NEW r, Finish(p, m, r),
           r = reg \/ InOp(p), orphaned' = orphaned
    PROVE  RegInv'
<1> SUFFICES ASSUME ~orphaned', NEW q \in Procs, InOp(q)' PROVE arc'[q] = reg'
  BY DEF RegInv
<1>1. pc'[p] = "idle" /\ (q # p => pc'[q] = pc[q] /\ arc'[q] = arc[q]) /\ reg' = r
  BY DEF Finish, TypeOK
<1>2. q # p /\ InOp(q)
  BY <1>1 DEF InOp
<1>3. arc[q] = reg
  BY <1>2 DEF RegInv
<1>4. r = reg
  BY <1>2, OneInOp
<1> QED
  BY <1>1, <1>2, <1>3, <1>4

\* Entering an operation, or going on in one, keeps RegInv.
LEMMA AdvanceReg ==
    ASSUME TypeOK, RegInv, NEW p \in Procs, NEW l, pc' = [pc EXCEPT ![p] = l],
           UNCHANGED <<arc, reg>>,
           \/ InOp(p) /\ orphaned' = orphaned
           \/ orphaned' = (orphaned \/ arc[p] # reg)
    PROVE  RegInv'
<1> SUFFICES ASSUME ~orphaned', NEW q \in Procs, InOp(q)' PROVE arc[q] = reg
  BY DEF RegInv
<1>1. ~orphaned
  OBVIOUS
<1>2. CASE q = p
  BY <1>1, <1>2 DEF RegInv
<1>3. CASE q # p
  <2>1. InOp(q)
    BY <1>3 DEF InOp, TypeOK
  <2> QED
    BY <1>1, <2>1 DEF RegInv
<1> QED
  BY <1>2, <1>3

-----------------------------------------------------------------------------
\* Each action keeps the types, the guards and the registered Arc in order.

\* A front-end request that gets hold of the Arc (get_or_create, or a lookup).
LEMMA ReqGInv ==
    ASSUME GInv, NEW t \in Tasks, Request(t)
    PROVE  GInv'
<1> USE DEF GInv
<1>0. t \in Procs /\ t # Poller
  BY ConstAssumption DEF Procs
<1>1. CASE ReqCreate(t)
  <2>1. TypeOK'
    BY SMT, <1>0, <1>1, NewSpecType, ConstAssumption
    DEF ReqCreate, Begin, TypeOK, Pcs, ghosts, FreeArcs
  <2>2. PICK a \in Arcs : Begin(t, "create", a)
    BY <1>1 DEF ReqCreate, FreeArcs, TypeOK
  <2>3. pc[t] = "idle" /\ UNCHANGED <<guard, arg, orphaned>>
    BY <1>1 DEF ReqCreate, ghosts
  <2>4. \A q \in Tasks : kind'[q] = "update" => arg'[q] \in Vals
    BY <1>0, <2>2, <2>3 DEF Begin, GuardInv, TypeOK, Procs
  <2>5. GuardInv'
    BY <1>0, <2>2, <2>3, <2>4, BeginGuard
  <2>6. RegInv'
    BY SMT, <1>0, <1>1, <2>2, <2>3, ConstAssumption
    DEF RegInv, GuardInv, InOp, Begin, ReqCreate, FreeArcs, TypeOK
  <2> QED
    BY <2>1, <2>5, <2>6
<1>2. CASE ReqDestroy(t)
  <2>1. TypeOK'
    BY SMT, <1>0, <1>2, ConstAssumption DEF ReqDestroy, Begin, TypeOK, Pcs, ghosts
  <2>2. pc[t] = "idle" /\ reg \in Arcs /\ Begin(t, "destroy", reg)
        /\ UNCHANGED <<guard, arg, reg, orphaned>>
    BY <1>2 DEF ReqDestroy, TypeOK, ghosts
  <2>3. \A q \in Tasks : kind'[q] = "update" => arg'[q] \in Vals
    BY <1>0, <2>2 DEF Begin, GuardInv, TypeOK, Procs
  <2>4. GuardInv'
    BY <1>0, <2>2, <2>3, BeginGuard
  <2>5. RegInv'
    BY <1>0, <2>2 DEF RegInv, InOp, Begin, TypeOK
  <2> QED
    BY <2>1, <2>4, <2>5
<1>3. CASE ReqUpdate(t)
  <2>1. TypeOK'
    BY SMT, <1>0, <1>3, ConstAssumption DEF ReqUpdate, Begin, TypeOK, Pcs, ghosts
  <2>2. pc[t] = "idle" /\ reg \in Arcs /\ Begin(t, "update", reg)
        /\ UNCHANGED <<guard, reg, orphaned>>
    BY <1>3 DEF ReqUpdate, TypeOK, ghosts
  <2>3. \A q \in Tasks : kind'[q] = "update" => arg'[q] \in Vals
    BY SMT, <1>0, <1>3, <2>2 DEF Begin, GuardInv, TypeOK, Procs, ReqUpdate
  <2>4. GuardInv'
    BY <1>0, <2>2, <2>3, BeginGuard
  <2>5. RegInv'
    BY <1>0, <2>2 DEF RegInv, InOp, Begin, TypeOK
  <2> QED
    BY <2>1, <2>4, <2>5
<1> QED
  BY <1>1, <1>2, <1>3 DEF Request

\* The reconciler collecting the registered Arc.
LEMMA PollGInv ==
    ASSUME GInv, Poll
    PROVE  GInv'
<1> USE DEF GInv
<1>0. Poller \in Procs /\ Poller \notin Tasks
  BY ConstAssumption DEF Procs
<1>1. PICK k \in {"dirty", "gc"} : Begin(Poller, k, reg)
  BY DEF Poll
<1>2. pc[Poller] = "idle" /\ reg \in Arcs /\ UNCHANGED <<guard, arg, mode, reg, orphaned>>
  BY DEF Poll, TypeOK, ghosts
<1>3. TypeOK'
  BY SMT, <1>0, <1>1, <1>2, ConstAssumption DEF Poll, Begin, TypeOK, Pcs, ghosts, bounds
<1>4. \A q \in Tasks : kind'[q] = "update" => arg'[q] \in Vals
  BY <1>0, <1>1, <1>2 DEF Begin, GuardInv, TypeOK, Procs
<1>5. GuardInv'
  BY <1>0, <1>1, <1>2, <1>4, BeginGuard
<1>6. RegInv'
  BY <1>0, <1>1, <1>2 DEF RegInv, InOp, Begin, TypeOK
<1> QED
  BY <1>3, <1>5, <1>6

\* The rest of the state has its types after the step.
Frame ==
    /\ pstor' \in SpecRec \cup {NoRec} /\ dp' \in BOOLEAN
    /\ reqs' \in 0..MaxReqs /\ faults' \in 0..MaxFaults /\ crashes' \in 0..MaxCrashes
    /\ base' \subseteq Vals \cup {Gone}

\* Returning from an operation, or giving up on it, keeps GInv.
LEMMA FinishGInv ==
    ASSUME GInv, NEW p \in Procs, pc[p] # "idle", NEW m \in [Arcs -> SpecRec], NEW r,
           r = reg \/ (r = NoArc /\ InOp(p)), Finish(p, m, r), orphaned' = orphaned, Frame
    PROVE  GInv'
<1> USE DEF GInv
<1>1. TypeOK'
  <2>1. r \in Arcs \cup {NoArc}
    BY DEF TypeOK
  <2> QED
    BY <2>1, FinishType DEF TypeOK, Frame
<1>2. GuardInv'
  BY FinishGuard
<1>3. RegInv'
  BY FinishReg
<1> QED
  BY <1>1, <1>2, <1>3

\* Taking the guard and starting an operation keeps GInv.
LEMMA EnterGInv ==
    ASSUME GInv, NEW p \in Procs, NEW l \in PcsOf(kind[p]) \ {"idle", "guard"},
           pc[p] = "guard", guard[arc[p]] = NoTask,
           pc' = [pc EXCEPT ![p] = l], TakeGuard(p),
           clone' \in [Procs -> SpecRec], reply' \in [Procs -> {"none", "ok", "err"}],
           mem' \in [Arcs -> SpecRec], UNCHANGED <<reg, kind, arc, mode>>,
           arg' \in [Procs -> Vals \cup {NoVal}],
           \A t \in Tasks : kind[t] = "update" => arg'[t] \in Vals,
           Frame
    PROVE  GInv'
<1> USE DEF GInv
<1>1. l \in Pcs /\ arc[p] \in Arcs
  BY SMT, PcsOfKind DEF TypeOK, GuardInv, Pcs, StorePcs
<1>2. TypeOK'
  BY <1>1 DEF TypeOK, Frame, TakeGuard
<1>3. GuardInv'
  BY <1>1, AdvanceGuard DEF TakeGuard
<1>4. RegInv'
  BY AdvanceReg DEF TakeGuard
<1> QED
  BY <1>2, <1>3, <1>4

\* Going on in an operation under its guard keeps GInv.
LEMMA AdvanceGInv ==
    ASSUME GInv, NEW p \in Procs, NEW l \in PcsOf(kind[p]) \ {"idle", "guard"}, InOp(p),
           pc' = [pc EXCEPT ![p] = l],
           clone' \in [Procs -> SpecRec], reply' \in [Procs -> {"none", "ok", "err"}],
           mem' \in [Arcs -> SpecRec], UNCHANGED <<reg, guard, kind, arc, arg, mode, orphaned>>,
           Frame
    PROVE  GInv'
<1> USE DEF GInv
<1>1. l \in Pcs /\ arc[p] \in Arcs /\ guard[arc[p]] = p
  BY SMT, PcsOfKind DEF TypeOK, GuardInv, Pcs, StorePcs, InOp
<1>2. TypeOK'
  BY <1>1 DEF TypeOK, Frame
<1>3. guard' = [guard EXCEPT ![arc[p]] = p]
  BY <1>1 DEF TypeOK
<1>4. \A t \in Tasks : kind[t] = "update" => arg'[t] \in Vals
  BY DEF GuardInv
<1>5. GuardInv'
  BY <1>1, <1>3, <1>4, AdvanceGuard
<1>6. RegInv'
  BY AdvanceReg
<1> QED
  BY <1>2, <1>5, <1>6

\* The history of replies has its type after a reply.
LEMMA ReplyType ==
    ASSUME GInv, NEW p \in Procs, RepliedOk(p) \/ RepliedErr(p)
    PROVE  base' \subseteq Vals \cup {Gone}
BY SMT, ConstAssumption DEF GInv, GuardInv, TypeOK, RepliedOk, RepliedErr, Outcome

\* Replacing the specification of the task's own Arc keeps the types.
LEMMA PutType ==
    ASSUME GInv, NEW p \in Procs, NEW s \in SpecRec
    PROVE  Put(p, s) \in [Arcs -> SpecRec]
BY DEF GInv, TypeOK, Put

\* An untouched store, data plane and history keep the frame.
LEMMA SameFrame ==
    ASSUME GInv, UNCHANGED <<pstor, dp, reqs, faults, crashes, base>>
    PROVE  Frame
BY DEF GInv, TypeOK, Frame

\* What the guarded part of the state looks like for a task in an operation.
LEMMA ArcOf ==
    ASSUME GInv, NEW p \in Procs, pc[p] # "idle"
    PROVE  arc[p] \in Arcs /\ mem[arc[p]] \in SpecRec /\ clone[p] \in SpecRec
BY DEF GInv, TypeOK, GuardInv

\* A rejected request leaves everything in order.
LEMMA RejectGInv ==
    ASSUME GInv, NEW p \in Procs, pc[p] = "guard", Reject(p)
    PROVE  GInv'
<1>1. mem \in [Arcs -> SpecRec]
  BY DEF GInv, TypeOK
<1>2. Frame
  BY SameFrame DEF Reject, bounds, ghosts
<1> QED
  BY <1>1, <1>2, FinishGInv DEF Reject, ghosts

\* Starting an operation, or being refused, keeps GInv.
LEMMA StartGInv ==
    ASSUME GInv, NEW p \in Procs,
           \/ p \in Tasks /\ (StartCreate(p) \/ StartUpdate(p))
           \/ StartDestroy(p)
    PROVE  GInv'
<1>0. pc[p] = "guard" /\ guard[arc[p]] = NoTask
  BY DEF StartCreate, StartUpdate, StartDestroy, CanStart
<1>1. arc[p] \in Arcs /\ mem[arc[p]] \in SpecRec /\ clone[p] \in SpecRec
  BY <1>0, ArcOf
<1>2. CASE p \in Tasks /\ StartCreate(p) /\ ~Reject(p)
  <2> DEFINE s == StartOp(mem[arc[p]], "Create", NoVal)
  <2>1. s \in SpecRec
    BY <1>1, SpecOpsType DEF Ops
  <2>2. kind[p] = "create" /\ TakeGuard(p) /\ mem' = [mem EXCEPT ![arc[p]] = s]
        /\ Await(p, "log", s) /\ UNCHANGED <<reg, pstor, dp, bounds, base>>
    BY <1>2 DEF StartCreate, CanStart
  <2> HIDE DEF s
  <2>3. "log" \in PcsOf(kind[p]) \ {"idle", "guard"}
    BY <2>2, PcsOfKind
  <2>4. Frame
    BY <2>2, SameFrame DEF bounds
  <2>5. mem' \in [Arcs -> SpecRec]
    BY <1>1, <2>1, <2>2 DEF GInv, TypeOK
  <2>6. /\ clone' \in [Procs -> SpecRec] /\ reply' \in [Procs -> {"none", "ok", "err"}]
        /\ UNCHANGED <<kind, arc, arg, mode>> /\ pc' = [pc EXCEPT ![p] = "log"]
    BY <2>1, <2>2 DEF GInv, TypeOK, Await, Goto
  <2>7. /\ arg' \in [Procs -> Vals \cup {NoVal}]
        /\ \A t \in Tasks : kind[t] = "update" => arg'[t] \in Vals
    BY <2>6 DEF GInv, TypeOK, GuardInv
  <2> QED
    BY <1>0, <2>2, <2>3, <2>4, <2>5, <2>6, <2>7, EnterGInv
<1>3. CASE p \in Tasks /\ StartUpdate(p) /\ ~Reject(p)
  <2> DEFINE v == IF mode[p] = "FF" THEN mem[arc[p]].val ELSE arg[p]
             s == StartOp(mem[arc[p]], "Update", v)
             l == IF mode[p] = "TT" THEN "log" ELSE "exec"
  <2>1. kind[p] = "update"
    BY <1>3 DEF StartUpdate, CanStart
  <2>2. v \in Vals
    <3>1. arg[p] \in Vals
      BY <1>3, <2>1 DEF GInv, GuardInv
    <3>2. mem[arc[p]].val \in Vals
      BY <1>1 DEF SpecRec
    <3> QED
      BY <3>1, <3>2
  <2>3. s \in SpecRec
    BY <1>1, <2>2, SpecOpsType
  <2>4. /\ TakeGuard(p) /\ mem' = [mem EXCEPT ![arc[p]] = s]
        /\ pc' = [pc EXCEPT ![p] = l] /\ clone' = [clone EXCEPT ![p] = s]
        /\ reply' = [reply EXCEPT ![p] = "none"] /\ arg' = [arg EXCEPT ![p] = v]
        /\ UNCHANGED <<reg, pstor, dp, kind, arc, mode, bounds, base>>
    BY <1>3 DEF StartUpdate, Goto
  <2>5. l \in PcsOf(kind[p]) \ {"idle", "guard"}
    BY <2>1, PcsOfKind
  <2> HIDE DEF v, s, l
  <2>6. Frame
    BY <2>4, SameFrame DEF bounds
  <2>7. /\ mem' \in [Arcs -> SpecRec] /\ clone' \in [Procs -> SpecRec]
        /\ reply' \in [Procs -> {"none", "ok", "err"}]
        /\ arg' \in [Procs -> Vals \cup {NoVal}]
        /\ \A t \in Tasks : kind[t] = "update" => arg'[t] \in Vals
    BY <1>1, <2>2, <2>3, <2>4 DEF GInv, TypeOK, GuardInv, Procs
  <2> QED
    BY <1>0, <2>4, <2>5, <2>6, <2>7, EnterGInv
<1>4. CASE StartDestroy(p) /\ ~Reject(p)
  <2> DEFINE s == StartOp(SetStatus(mem[arc[p]], "Deleting"), "Destroy", NoVal)
  <2>1. s \in SpecRec
    BY <1>1, SpecOpsType DEF Ops, Status
  <2>2. kind[p] \in {"destroy", "gc"}
    BY <1>4 DEF StartDestroy, CanStart
  <2>3. PICK l \in {"log", "exec"}, c \in SpecRec :
           /\ TakeGuard(p) /\ Await(p, l, c)
           /\ mem' = mem \/ mem' = [mem EXCEPT ![arc[p]] = s]
           /\ UNCHANGED <<reg, pstor, dp, bounds, base>>
    BY <1>1, <1>4, <2>1 DEF StartDestroy
  <2> HIDE DEF s
  <2>4. l \in PcsOf(kind[p]) \ {"idle", "guard"}
    BY <2>2, PcsOfKind
  <2>5. Frame
    BY <2>3, SameFrame DEF bounds
  <2>6. mem' \in [Arcs -> SpecRec]
    BY SMT, <1>1, <2>1, <2>3 DEF GInv, TypeOK
  <2>7. /\ clone' \in [Procs -> SpecRec] /\ reply' \in [Procs -> {"none", "ok", "err"}]
        /\ UNCHANGED <<kind, arc, arg, mode>> /\ pc' = [pc EXCEPT ![p] = l]
    BY <2>3 DEF GInv, TypeOK, Await, Goto
  <2>8. /\ arg' \in [Procs -> Vals \cup {NoVal}]
        /\ \A t \in Tasks : kind[t] = "update" => arg'[t] \in Vals
    BY <2>7 DEF GInv, TypeOK, GuardInv
  <2> QED
    BY <1>0, <2>3, <2>4, <2>5, <2>6, <2>7, <2>8, EnterGInv
<1>5. CASE Reject(p)
  BY <1>0, <1>5, RejectGInv
<1> QED
  BY <1>2, <1>3, <1>4, <1>5

\* A store call, applied or not, keeps GInv.
LEMMA StoreGInv ==
    ASSUME GInv, NEW p \in Procs, Store(p)
    PROVE  GInv'
<1>1. Frame
  BY SMT, ConstAssumption DEF GInv, TypeOK, Store, Written, Frame, ghosts
<1>2. UNCHANGED <<reg, mem, guard, pc, kind, arc, arg, mode, clone, orphaned>>
  BY DEF Store, ghosts
<1>3. reply' \in [Procs -> {"none", "ok", "err"}]
  BY DEF GInv, TypeOK, Store
<1>4. TypeOK'
  BY <1>1, <1>2, <1>3 DEF GInv, TypeOK, Frame
<1>5. GuardInv'
  BY <1>2 DEF GInv, GuardInv, InOp
<1>6. RegInv'
  BY <1>2 DEF GInv, RegInv, InOp
<1> QED
  BY <1>4, <1>5, <1>6 DEF GInv

\* What a task does with a reply of the store keeps GInv.
LEMMA ReplyGInv ==
    ASSUME GInv, NEW p \in Procs,
           \/ LogReply(p) \/ CommitReply(p) \/ UndoReply(p)
           \/ SetDeletingReply(p) \/ PurgeReply(p) \/ DeleteSpecReply(p)
    PROVE  GInv'
<1>0. pc[p] \in StorePcs /\ InOp(p) /\ UNCHANGED <<pstor, dp, reqs, faults, crashes, orphaned>>
  BY DEF LogReply, CommitReply, UndoReply, SetDeletingReply, PurgeReply, DeleteSpecReply,
         StorePcs, InOp, bounds
<1>1. arc[p] \in Arcs /\ mem[arc[p]] \in SpecRec /\ clone[p] \in SpecRec
  BY <1>0, ArcOf DEF InOp
<1>2. mem \in [Arcs -> SpecRec]
  BY DEF GInv, TypeOK
<1>3. CASE LogReply(p) /\ reply[p] = "ok"
  <2>1. pc' = [pc EXCEPT ![p] = "exec"] /\ reply' = [reply EXCEPT ![p] = "none"]
        /\ UNCHANGED <<reg, mem, guard, kind, arc, arg, mode, clone, base>>
    BY <1>3 DEF LogReply, Goto
  <2>2. pc[p] = "log" /\ pc[p] \in PcsOf(kind[p])
        /\ kind[p] \in {"create", "update", "destroy", "gc", "dirty"}
    BY <1>3 DEF LogReply, GInv, GuardInv, TypeOK
  <2>3. "exec" \in PcsOf(kind[p]) \ {"idle", "guard"}
    BY <2>2, PcsOfKind
  <2>4. Frame
    BY <1>0, <2>1, SameFrame
  <2>5. reply' \in [Procs -> {"none", "ok", "err"}] /\ clone' \in [Procs -> SpecRec]
    BY <2>1 DEF GInv, TypeOK
  <2> QED
    BY <1>0, <1>2, <2>1, <2>3, <2>4, <2>5, AdvanceGInv
<1>4. CASE LogReply(p) /\ reply[p] = "err" /\ kind[p] = "create"
  <2>1. mem' = Put(p, ClearOp(mem[arc[p]])) /\ Await(p, "delspec", clone[p])
        /\ UNCHANGED <<reg, guard, base>>
    BY <1>4 DEF LogReply
  <2>2. mem' \in [Arcs -> SpecRec]
    BY <1>1, <2>1, SpecOpsType, PutType
  <2>3. "delspec" \in PcsOf(kind[p]) \ {"idle", "guard"}
    BY <1>4, PcsOfKind
  <2>4. Frame
    BY <1>0, <2>1, SameFrame
  <2>5. /\ clone' \in [Procs -> SpecRec] /\ reply' \in [Procs -> {"none", "ok", "err"}]
        /\ UNCHANGED <<kind, arc, arg, mode>> /\ pc' = [pc EXCEPT ![p] = "delspec"]
    BY <1>1, <2>1 DEF GInv, TypeOK, Await, Goto
  <2> QED
    BY <1>0, <2>1, <2>2, <2>3, <2>4, <2>5, AdvanceGInv
<1>5. CASE ~(LogReply(p) /\ (reply[p] = "ok" \/ (reply[p] = "err" /\ kind[p] = "create")))
  <2>1. RepliedOk(p) \/ RepliedErr(p)
    BY <1>5 DEF LogReply, CommitReply, UndoReply, SetDeletingReply, PurgeReply, DeleteSpecReply
  <2>2. Frame
    BY <1>0, <2>1, ReplyType DEF Frame, GInv, TypeOK
  <2>3. PICK s \in SpecRec, r \in {reg, NoArc} : Finish(p, mem, r) \/ Finish(p, Put(p, s), r)
    <3> DEFINE s0 == mem[arc[p]]
    <3>1. /\ ClearOp(s0) \in SpecRec /\ CommitOp(s0) \in SpecRec /\ s0 \in SpecRec
          /\ SetOpResult(s0, "True") \in SpecRec /\ SetOpResult(s0, "False") \in SpecRec
      BY <1>1, SpecOpsType
    <3>2. CASE LogReply(p)
      BY <1>5, <3>1, <3>2 DEF LogReply
    <3>3. CASE CommitReply(p)
      BY <3>1, <3>3 DEF CommitReply
    <3>4. CASE UndoReply(p)
      BY <3>1, <3>4 DEF UndoReply, AfterUndo
    <3>5. CASE SetDeletingReply(p)
      BY <3>1, <3>5 DEF SetDeletingReply
    <3>6. CASE PurgeReply(p)
      BY <3>1, <3>6 DEF PurgeReply
    <3>7. CASE DeleteSpecReply(p)
      BY <3>1, <3>7 DEF DeleteSpecReply
    <3> QED
      BY <3>2, <3>3, <3>4, <3>5, <3>6, <3>7
  <2>4. Put(p, s) \in [Arcs -> SpecRec]
    BY PutType
  <2>5. pc[p] # "idle"
    BY <1>0 DEF InOp
  <2> QED
    BY <1>0, <1>2, <2>2, <2>3, <2>4, <2>5, FinishGInv
<1> QED
  BY <1>3, <1>4, <1>5

\* The bounded counters have their types after a fault.
LEMMA FaultType ==
    ASSUME GInv, Fault \/ UNCHANGED bounds
    PROVE  reqs' \in 0..MaxReqs /\ faults' \in 0..MaxFaults /\ crashes' \in 0..MaxCrashes
BY SMT, ConstAssumption DEF GInv, TypeOK, Fault, bounds

\* A data-plane call and the store call that follows it keep GInv.
LEMMA ExecGInv ==
    ASSUME GInv, NEW p \in Procs,
           \/ p \in Tasks /\ (ExecCreate(p) \/ ExecUpdate(p))
           \/ ExecDestroy(p)
    PROVE  GInv'
<1>0. pc[p] = "exec" /\ InOp(p) /\ orphaned' = orphaned
  BY DEF ExecCreate, ExecUpdate, ExecDestroy, InOp, ghosts
<1>1. arc[p] \in Arcs /\ mem[arc[p]] \in SpecRec /\ clone[p] \in SpecRec
      /\ mem \in [Arcs -> SpecRec]
  BY <1>0, ArcOf DEF GInv, TypeOK
<1> DEFINE s0 == mem[arc[p]]
<1>2. /\ ClearOp(s0) \in SpecRec /\ CommitOp(s0) \in SpecRec /\ s0 \in SpecRec
      /\ ClearOp(clone[p]) \in SpecRec /\ CommitOp(clone[p]) \in SpecRec
      /\ FailCreatingToDeleting(s0) \in SpecRec
  BY <1>1, SpecOpsType
<1>3. Fault \/ UNCHANGED bounds
  BY DEF ExecCreate, ExecUpdate, ExecDestroy
<1>4. reqs' \in 0..MaxReqs /\ faults' \in 0..MaxFaults /\ crashes' \in 0..MaxCrashes
  BY <1>3, FaultType
<1>5. dp' \in BOOLEAN /\ pstor' = pstor
  BY DEF ExecCreate, ExecUpdate, ExecDestroy, GInv, TypeOK
<1>6. ASSUME NEW l \in PcsOf(kind[p]) \ {"idle", "guard"}, NEW c \in SpecRec, Await(p, l, c),
             mem' \in [Arcs -> SpecRec], UNCHANGED <<reg, guard, base>>
      PROVE  GInv'
  <2>1. Frame
    BY <1>4, <1>5, <1>6 DEF Frame, GInv, TypeOK
  <2>2. /\ clone' \in [Procs -> SpecRec] /\ reply' \in [Procs -> {"none", "ok", "err"}]
        /\ UNCHANGED <<kind, arc, arg, mode>> /\ pc' = [pc EXCEPT ![p] = l]
    BY <1>6 DEF GInv, TypeOK, Await, Goto
  <2> QED
    BY <1>0, <1>6, <2>1, <2>2, AdvanceGInv
<1>7. CASE p \in Tasks /\ ExecCreate(p)
  <2>1. /\ "commit" \in PcsOf(kind[p]) /\ "undo" \in PcsOf(kind[p])
        /\ "setdel" \in PcsOf(kind[p]) /\ "delspec" \in PcsOf(kind[p])
    BY <1>7, PcsOfKind DEF ExecCreate
  <2>2. /\ UNCHANGED <<reg, guard, base>>
        /\ \/ Await(p, "commit", CommitOp(s0)) /\ mem' = mem
           \/ Await(p, "undo", ClearOp(s0)) /\ mem' = mem
           \/ Await(p, "setdel", FailCreatingToDeleting(s0))
              /\ mem' = Put(p, FailCreatingToDeleting(s0))
           \/ Await(p, "delspec", s0) /\ mem' = mem
    BY <1>7 DEF ExecCreate, CreateFailed, ghosts
  <2>3. mem' \in [Arcs -> SpecRec]
    BY <1>1, <1>2, <2>2, PutType
  <2> QED
    BY <1>2, <1>6, <2>1, <2>2, <2>3
<1>8. CASE p \in Tasks /\ ExecUpdate(p) /\ mode[p] # "FF"
  <2>1. "commit" \in PcsOf(kind[p]) /\ "undo" \in PcsOf(kind[p])
    BY <1>8, PcsOfKind DEF ExecUpdate
  <2>2. /\ UNCHANGED <<reg, guard, base, mem>>
        /\ \/ Await(p, "commit", CommitOp(clone[p]))
           \/ Await(p, "undo", ClearOp(clone[p]))
    BY <1>8 DEF ExecUpdate
  <2> QED
    BY <1>1, <1>2, <1>6, <2>1, <2>2
<1>9. CASE p \in Tasks /\ ExecUpdate(p) /\ mode[p] = "FF"
  <2>1. PICK s \in SpecRec : Finish(p, Put(p, s), reg)
    BY <1>2, <1>9 DEF ExecUpdate
  <2>2. RepliedOk(p) \/ RepliedErr(p)
    BY <1>9 DEF ExecUpdate
  <2>3. Frame
    BY <1>4, <1>5, <2>2, ReplyType DEF Frame, GInv, TypeOK
  <2>4. Put(p, s) \in [Arcs -> SpecRec]
    BY PutType
  <2> QED
    BY <1>0, <2>1, <2>3, <2>4, FinishGInv
<1>10. CASE ExecDestroy(p)
  <2>1. "purge" \in PcsOf(kind[p]) /\ "undo" \in PcsOf(kind[p])
    BY <1>10, PcsOfKind DEF ExecDestroy
  <2>2. /\ UNCHANGED <<reg, guard, base, mem>>
        /\ Await(p, "purge", clone[p]) \/ Await(p, "undo", ClearOp(s0))
    BY <1>10 DEF ExecDestroy, ghosts
  <2> QED
    BY <1>1, <1>2, <1>6, <2>1, <2>2
<1> QED
  BY <1>7, <1>8, <1>9, <1>10

\* The dirty-spec pass keeps GInv.
LEMMA DirtyGInv ==
    ASSUME GInv, HandleIncompleteOps
    PROVE  GInv'
<1>0. Poller \in Procs /\ pc[Poller] = "guard" /\ guard[arc[Poller]] = NoTask
      /\ kind[Poller] = "dirty"
  BY DEF HandleIncompleteOps, CanStart, Procs
<1>1. arc[Poller] \in Arcs /\ mem[arc[Poller]] \in SpecRec /\ mem \in [Arcs -> SpecRec]
  BY <1>0, ArcOf DEF GInv, TypeOK
<1> DEFINE s == mem[arc[Poller]]
<1>2. /\ ClearOp(s) \in SpecRec /\ CommitOp(s) \in SpecRec /\ s \in SpecRec
      /\ SetStatus(s, "Deleting") \in SpecRec
  BY <1>1, SpecOpsType DEF Status
<1>3. UNCHANGED <<pstor, dp, reqs, faults, crashes, base>>
  BY DEF HandleIncompleteOps, Reject, bounds, ghosts
<1>4. Frame
  BY <1>3, SameFrame
<1>5. \/ Reject(Poller)
      \/ /\ Finish(Poller, Put(Poller, SetStatus(s, "Deleting")), reg)
         /\ orphaned' = orphaned
      \/ \E l \in {"commit", "undo", "delspec"}, c \in SpecRec :
            TakeGuard(Poller) /\ Await(Poller, l, c) /\ UNCHANGED <<reg, mem>>
  BY <1>2 DEF HandleIncompleteOps, ghosts
<1>6. CASE Reject(Poller)
  BY <1>0, <1>6, RejectGInv
<1>7. CASE /\ Finish(Poller, Put(Poller, SetStatus(s, "Deleting")), reg)
           /\ orphaned' = orphaned
  <2>1. Put(Poller, SetStatus(s, "Deleting")) \in [Arcs -> SpecRec]
    BY <1>0, <1>2, PutType
  <2> QED
    BY <1>0, <1>4, <1>7, <2>1, FinishGInv
<1>8. CASE \E l \in {"commit", "undo", "delspec"}, c \in SpecRec :
              TakeGuard(Poller) /\ Await(Poller, l, c) /\ UNCHANGED <<reg, mem>>
  <2>1. PICK l \in {"commit", "undo", "delspec"}, c \in SpecRec :
              TakeGuard(Poller) /\ Await(Poller, l, c) /\ UNCHANGED <<reg, mem>>
    BY <1>8
  <2>2. l \in PcsOf(kind[Poller]) \ {"idle", "guard"}
    BY <1>0, PcsOfKind
  <2>3. /\ clone' \in [Procs -> SpecRec] /\ reply' \in [Procs -> {"none", "ok", "err"}]
        /\ UNCHANGED <<kind, arc, arg, mode>> /\ pc' = [pc EXCEPT ![Poller] = l]
    BY <1>0, <2>1 DEF GInv, TypeOK, Await, Goto
  <2>4. /\ arg' \in [Procs -> Vals \cup {NoVal}]
        /\ \A t \in Tasks : kind[t] = "update" => arg'[t] \in Vals
    BY <2>3 DEF GInv, TypeOK, GuardInv
  <2> QED
    BY <1>0, <1>1, <1>4, <2>1, <2>2, <2>3, <2>4, EnterGInv
<1> QED
  BY <1>5, <1>6, <1>7, <1>8

\* A restart from the store establishes GInv afresh.
LEMMA CrashGInv ==
    ASSUME GInv, Crash
    PROVE  GInv'
<1>1. \A t \in Tasks : Outcome(t) \in Vals \cup {Gone}
  BY ConstAssumption DEF GInv, GuardInv, Outcome
<1>2. Frame
  BY SMT, <1>1, ConstAssumption DEF Crash, Frame, GInv, TypeOK
<1>3. TypeOK'
  <2>1. reg' \in Arcs \cup {NoArc} /\ mem' \in [Arcs -> SpecRec]
    BY NewSpecType DEF Crash, GInv, TypeOK
  <2> QED
    BY <1>2, <2>1, NewSpecType DEF Crash, Frame, GInv, TypeOK, Pcs
<1>4. GuardInv'
  <2>1. \A p \in Procs : pc'[p] = "idle" /\ kind'[p] = IF p = Poller THEN "gc" ELSE "create"
    BY DEF Crash
  <2>2. \A a \in Arcs : guard'[a] = NoTask
    BY DEF Crash
  <2>3. Poller \in Procs /\ \A t \in Tasks : t \in Procs /\ t # Poller
    BY ConstAssumption DEF Procs
  <2> QED
    BY <2>1, <2>2, <2>3, PcsOfKind DEF GuardInv, InOp
<1>5. RegInv'
  BY DEF Crash, RegInv, InOp
<1> QED
  BY <1>3, <1>4, <1>5 DEF GInv

\* The initial state satisfies GInv.
LEMMA InitGInv == Init => GInv
<1> SUFFICES ASSUME Init PROVE GInv
  OBVIOUS
<1>1. TypeOK
  <2>1. /\ reg \in Arcs \cup {NoArc} /\ pstor \in SpecRec \cup {NoRec}
        /\ base \subseteq Vals \cup {Gone}
    BY DEF Init
  <2>2. dp \in BOOLEAN /\ orphaned \in BOOLEAN
    BY DEF Init
  <2>3. reqs \in 0..MaxReqs /\ faults \in 0..MaxFaults /\ crashes \in 0..MaxCrashes
    BY SMT, ConstAssumption DEF Init
  <2>4. /\ mem \in [Arcs -> SpecRec] /\ clone \in [Procs -> SpecRec]
        /\ guard \in [Arcs -> Procs \cup {NoTask}]
    BY NewSpecType DEF Init
  <2>5. /\ pc \in [Procs -> Pcs]
        /\ kind \in [Procs -> {"create", "update", "destroy", "dirty", "gc"}]
        /\ arc \in [Procs -> Arcs \cup {NoArc}]
        /\ arg \in [Procs -> Vals \cup {NoVal}]
        /\ mode \in [Procs -> {"TT", "FT", "FF"}]
        /\ reply \in [Procs -> {"none", "ok", "err"}]
    BY DEF Init, Pcs
  <2> QED
    BY <2>1, <2>2, <2>3, <2>4, <2>5 DEF TypeOK
<1>2. GuardInv
  <2>1. Poller \in Procs /\ \A t \in Tasks : t \in Procs /\ t # Poller
    BY ConstAssumption DEF Procs
  <2> QED
    BY <2>1, PcsOfKind DEF Init, GuardInv, InOp
<1>3. RegInv
  BY DEF Init, RegInv, InOp
<1> QED
  BY <1>1, <1>2, <1>3 DEF GInv

\* Every step keeps GInv.
LEMMA NextGInv == GInv /\ [Next]_vars => GInv'
<1> SUFFICES ASSUME GInv, [Next]_vars PROVE GInv'
  OBVIOUS
<1>1. ASSUME NEW t \in Tasks, Request(t) PROVE GInv'
  BY <1>1, ReqGInv
<1>2. ASSUME NEW t \in Tasks, TaskStep(t) PROVE GInv'
  <2>1. t \in Procs
    BY DEF Procs
  <2> QED
    BY <1>2, <2>1, StartGInv, ExecGInv DEF TaskStep
<1>3. ASSUME NEW p \in Procs, ProcStep(p) PROVE GInv'
  <2>1. CASE Conflict(p)
    BY <2>1, RejectGInv DEF Conflict, Reject
  <2>2. CASE StartDestroy(p)
    BY <2>2, StartGInv
  <2>3. CASE ExecDestroy(p)
    BY <2>3, ExecGInv
  <2>4. CASE Store(p)
    BY <2>4, StoreGInv
  <2>5. CASE \/ LogReply(p) \/ CommitReply(p) \/ UndoReply(p)
             \/ SetDeletingReply(p) \/ PurgeReply(p) \/ DeleteSpecReply(p)
    BY <2>5, ReplyGInv
  <2> QED
    BY <1>3, <2>1, <2>2, <2>3, <2>4, <2>5 DEF ProcStep
<1>4. CASE Poll
  BY <1>4, PollGInv
<1>5. CASE HandleIncompleteOps
  BY <1>5, DirtyGInv
<1>6. CASE Crash
  BY <1>6, CrashGInv
<1>7. CASE UNCHANGED vars
  BY <1>7 DEF vars, task, bounds, ghosts, GInv, TypeOK, GuardInv, RegInv, InOp
<1> QED
  BY <1>1, <1>2, <1>3, <1>4, <1>5, <1>6, <1>7 DEF Next

-----------------------------------------------------------------------------
\* Type correctness of the registry, the guards, the store and the tasks, in
\* every state of the transaction protocol of operations_helper.rs.
THEOREM TypeCorrect == Spec => []TypeOK
<1>1. GInv => TypeOK
  BY DEF GInv
<1> QED
  BY <1>1, InitGInv, NextGInv, PTL DEF Spec

\* The exclusive operation guard serialises the operations on a resource for any
\* number of tasks and whatever fails, provided that no task starts an operation
\* on an Arc which remove_spec had taken out of the registry while it waited.
THEOREM OperationsAreExclusive == Spec => []ExclusiveOperations
<1>1. GInv => ExclusiveOperations
  BY OneInOp DEF GInv, ExclusiveOperations, OneAtATime
<1> QED
  BY <1>1, InitGInv, NextGInv, PTL DEF Spec

-----------------------------------------------------------------------------
(* The store stays ahead of the data plane: NoLeak for the resources whose *)
(* failed creates are set Deleting (volumes, nexuses, replicas, snapshots). *)

\* What the SpecTransaction operations do to status, operation and result.
LEMMA Fields ==
    ASSUME NEW s \in SpecRec
    PROVE  /\ ClearOp(s).status = s.status /\ ClearOp(s).op = "None" /\ ClearOp(s).result = "None"
           /\ \A st : /\ SetStatus(s, st).status = st
                      /\ SetStatus(s, st).op = s.op /\ SetStatus(s, st).result = s.result
           /\ \A r : /\ SetOpResult(s, r).status = s.status /\ SetOpResult(s, r).op = s.op
                     /\ SetOpResult(s, r).result \in {s.result, r}
           /\ \A o, v : /\ StartOp(s, o, v).status = s.status
                        /\ StartOp(s, o, v).op = o /\ StartOp(s, o, v).result = "None"
<1>1. ClearOp(s).status = s.status /\ ClearOp(s).op = "None" /\ ClearOp(s).result = "None"
  BY DEF ClearOp, SpecRec
<1>2. \A st : /\ SetStatus(s, st).status = st
              /\ SetStatus(s, st).op = s.op /\ SetStatus(s, st).result = s.result
  BY DEF SetStatus, SpecRec
<1>3. \A r : /\ SetOpResult(s, r).status = s.status /\ SetOpResult(s, r).op = s.op
             /\ SetOpResult(s, r).result \in {s.result, r}
  BY DEF SetOpResult, SpecRec
<1>4. \A o, v : /\ StartOp(s, o, v).status = s.status
                /\ StartOp(s, o, v).op = o /\ StartOp(s, o, v).result = "None"
  BY DEF StartOp, SpecRec
<1> QED
  BY <1>1, <1>2, <1>3, <1>4

\* What commit_op does to status, operation and result.
LEMMA CommitFields ==
    ASSUME NEW s \in SpecRec
    PROVE  /\ s.op = "None" => CommitOp(s) = s
           /\ s.op # "None" => CommitOp(s).op = "None" /\ CommitOp(s).result = "None"
           /\ s.op = "Create" => CommitOp(s).status = "Created"
           /\ s.op = "Destroy" => CommitOp(s).status = "Deleted"
           /\ s.op = "Update" => CommitOp(s).status = s.status
<1>1. s.op \in {"None", "Create", "Destroy", "Update"}
  BY DEF SpecRec, Ops
<1>2. CASE s.op = "None"
  BY <1>2 DEF CommitOp
<1>3. CASE s.op = "Create"
  <2>1. CommitOp(s) = SetStatus(ClearOp(s), "Created")
    BY <1>3 DEF CommitOp
  <2>2. ClearOp(s) \in SpecRec
    BY SpecOpsType
  <2>3. ClearOp(s).op = "None" /\ ClearOp(s).result = "None"
    BY Fields
  <2> QED
    BY SMT, <1>3, <2>1, <2>2, <2>3, Fields
<1>4. CASE s.op = "Destroy"
  <2>1. CommitOp(s) = SetStatus(ClearOp(s), "Deleted")
    BY <1>4 DEF CommitOp
  <2>2. ClearOp(s) \in SpecRec
    BY SpecOpsType
  <2>3. ClearOp(s).op = "None" /\ ClearOp(s).result = "None"
    BY Fields
  <2> QED
    BY SMT, <1>4, <2>1, <2>2, <2>3, Fields
<1>5. CASE s.op = "Update"
  BY <1>5 DEF CommitOp, ClearOp, SpecRec
<1> QED
  BY <1>1, <1>2, <1>3, <1>4, <1>5

\* fail_creating_to_deleting leaves a clean specification that is Deleting.
LEMMA FailFields ==
    ASSUME NEW s \in SpecRec
    PROVE  /\ FailCreatingToDeleting(s).status = "Deleting"
           /\ FailCreatingToDeleting(s).op = "None"
           /\ FailCreatingToDeleting(s).result = "None"
BY DEF FailCreatingToDeleting, SetStatus, ClearOp, SpecRec

-----------------------------------------------------------------------------
\* The task may change the specification: it is in the operation on the registered
\* Arc, or it is about to start one there.
Holds(p) == InOp(p) \/ (pc[p] = "guard" /\ arc[p] = reg /\ guard[arc[p]] = NoTask)

\* While a task holds the specification no other task is in an operation.
LEMMA Alone ==
    ASSUME GInv, ~orphaned, NEW p \in Procs, Holds(p), NEW q \in Procs, q # p
    PROVE  ~InOp(q)
<1>1. CASE InOp(p)
  BY <1>1, OneInOp DEF GInv
<1>2. CASE ~InOp(p)
  BY SMT, <1>2, ConstAssumption DEF Holds, GInv, RegInv, GuardInv
<1> QED
  BY <1>1, <1>2

\* A step of the task which holds the specification has to keep its own Stage only.
LEMMA OwnStage ==
    ASSUME GInv, ~orphaned, NEW p \in Procs, Holds(p),
           \A q \in Procs \ {p} : pc'[q] = pc[q],
           InOp(p)' => Stage(p)'
    PROVE  StageInv'
<1> SUFFICES ASSUME NEW q \in Procs, InOp(q)' PROVE Stage(q)'
  BY DEF StageInv
<1>1. q = p
  <2>1. SUFFICES ASSUME q # p PROVE FALSE
    OBVIOUS
  <2>2. ~InOp(q)
    BY <2>1, Alone
  <2> QED
    BY <2>1, <2>2 DEF InOp
<1> QED
  BY <1>1

\* A step that leaves the specification, the store and the running operations alone.
LEMMA Quiet ==
    ASSUME GInv, StageInv, LeakInv, UNCHANGED <<reg, pstor, dp, orphaned>>,
           reg # NoArc => mem'[reg] = mem[reg],
           \A q \in Procs : InOp(q)' => /\ pc'[q] = pc[q] /\ kind'[q] = kind[q]
                                       /\ clone'[q] = clone[q] /\ reply'[q] = reply[q]
    PROVE  StageInv' /\ LeakInv'
<1>1. LeakInv'
  BY DEF LeakInv
<1>2. StageInv'
  <2> SUFFICES ASSUME ~orphaned', NEW q \in Procs, InOp(q)' PROVE Stage(q)'
    BY DEF StageInv
  <2>1. InOp(q)
    BY DEF InOp
  <2>2. reg # NoArc
    BY SMT, <2>1, ConstAssumption DEF GInv, RegInv, GuardInv, InOp
  <2>3. Stage(q)
    BY <2>1 DEF StageInv
  <2>4. InOp(q)' <=> InOp(q)
    BY <2>1
  <2> QED
    BY <2>2, <2>3, <2>4 DEF Stage
<1> QED
  BY <1>1, <1>2

\* A task returns from its operation with specification m[reg] behind the Arc.
LEMMA Leave ==
    ASSUME GInv, StageInv, LeakInv, NEW p \in Procs, Holds(p), NEW m, Finish(p, m, reg),
           UNCHANGED <<pstor, dp, orphaned>>,
           ~orphaned /\ dp => /\ Kept(m[reg])
                              /\ ~(m[reg].op = "Destroy" /\ m[reg].result = "True")
    PROVE  StageInv' /\ LeakInv'
<1>1. CASE orphaned
  BY <1>1 DEF StageInv, LeakInv
<1>2. CASE ~orphaned
  <2>1. pc'[p] = "idle" /\ reg' = reg /\ \A q \in Procs \ {p} : pc'[q] = pc[q]
    BY DEF Finish, GInv, TypeOK
  <2>2. StageInv'
    BY <1>2, <2>1, OwnStage DEF InOp
  <2>3. dp => reg \in Arcs /\ mem'[reg] = m[reg]
    BY <1>2, ConstAssumption DEF LeakInv, GInv, TypeOK, Finish
  <2>4. LeakInv'
    BY <1>2, <2>1, <2>3 DEF LeakInv
  <2> QED
    BY <2>2, <2>4
<1> QED
  BY <1>1, <1>2

\* The resource is not on the data plane when a task returns.
LEMMA LeaveGone ==
    ASSUME GInv, StageInv, LeakInv, NEW p \in Procs, InOp(p), NEW m, NEW r, Finish(p, m, r),
           UNCHANGED <<pstor, dp, orphaned>>, ~orphaned => ~dp
    PROVE  StageInv' /\ LeakInv'
<1>1. CASE orphaned
  BY <1>1 DEF StageInv, LeakInv
<1>2. CASE ~orphaned
  <2>1. pc'[p] = "idle" /\ \A q \in Procs \ {p} : pc'[q] = pc[q]
    BY DEF Finish, GInv, TypeOK
  <2>2. StageInv'
    BY <1>2, <2>1, OwnStage DEF InOp, Holds
  <2> QED
    BY <1>2, <2>2 DEF LeakInv
<1> QED
  BY <1>1, <1>2

-----------------------------------------------------------------------------
\* Each action keeps StageInv and LeakInv.

\* A request that only gets hold of an Arc; get_or_create allocates one when the
\* registry has none, and then nothing is on the data plane.
LEMMA RequestLeak ==
    ASSUME GInv, StageInv, LeakInv, NEW t \in Tasks, Request(t)
    PROVE  StageInv' /\ LeakInv'
<1>0. t \in Procs
  BY DEF Procs
<1>1. PICK k, a : Begin(t, k, a)
  BY DEF Request, ReqCreate, ReqUpdate, ReqDestroy
<1>2. UNCHANGED <<pstor, dp, orphaned>>
  BY DEF Request, ReqCreate, ReqUpdate, ReqDestroy, ghosts
<1>3. \A q \in Procs : InOp(q)' => /\ q # t /\ pc'[q] = pc[q] /\ kind'[q] = kind[q]
                                    /\ clone'[q] = clone[q] /\ reply'[q] = reply[q]
  BY <1>0, <1>1 DEF Begin, InOp, GInv, TypeOK
<1>4. CASE UNCHANGED <<reg, mem>>
  BY <1>2, <1>3, <1>4, Quiet
<1>5. CASE ~UNCHANGED <<reg, mem>>
  <2>1. reg = NoArc
    BY <1>5 DEF Request, ReqCreate, ReqUpdate, ReqDestroy
  <2>2. ~orphaned => \A q \in Procs : ~InOp(q)
    BY SMT, <2>1, ConstAssumption DEF GInv, RegInv, GuardInv, InOp
  <2>3. StageInv'
    BY <1>2, <1>3, <2>2 DEF StageInv, InOp
  <2>4. LeakInv'
    BY <1>2, <2>1 DEF LeakInv
  <2> QED
    BY <2>3, <2>4
<1> QED
  BY <1>4, <1>5

\* The reconciler getting hold of the Arc.
LEMMA PollLeak ==
    ASSUME GInv, StageInv, LeakInv, Poll
    PROVE  StageInv' /\ LeakInv'
<1>1. PICK k, a : Begin(Poller, k, a)
  BY DEF Poll
<1>2. UNCHANGED <<pstor, dp, orphaned, reg, mem>>
  BY DEF Poll, ghosts
<1>3. \A q \in Procs : InOp(q)' => /\ pc'[q] = pc[q] /\ kind'[q] = kind[q]
                                    /\ clone'[q] = clone[q] /\ reply'[q] = reply[q]
  BY <1>1 DEF Begin, InOp, GInv, TypeOK
<1> QED
  BY <1>2, <1>3, Quiet

\* A task which is refused, or which does not get the guard, changes nothing.
LEMMA RejectLeak ==
    ASSUME GInv, StageInv, LeakInv, NEW p \in Procs, pc[p] = "guard", Reject(p)
    PROVE  StageInv' /\ LeakInv'
<1>1. UNCHANGED <<pstor, dp, orphaned, reg>>
  BY DEF Reject, Finish, ghosts
<1>2. reg # NoArc => mem'[reg] = mem[reg]
  BY <1>1 DEF Reject, Finish, GInv, TypeOK
<1>3. \A q \in Procs : InOp(q)' => /\ pc'[q] = pc[q] /\ kind'[q] = kind[q]
                                    /\ clone'[q] = clone[q] /\ reply'[q] = reply[q]
  BY DEF Reject, Finish, InOp, GInv, TypeOK
<1> QED
  BY <1>1, <1>2, <1>3, Quiet

\* Starting an operation: a create starts only on a specification that was never on
\* the data plane, and a destroy leaves it Deleting.
LEMMA StartLeak ==
    ASSUME GInv, StageInv, LeakInv, NEW p \in Procs,
           \/ p \in Tasks /\ (StartCreate(p) \/ StartUpdate(p))
           \/ StartDestroy(p)
    PROVE  StageInv' /\ LeakInv'
<1>0. pc[p] = "guard" /\ guard[arc[p]] = NoTask
  BY DEF StartCreate, StartUpdate, StartDestroy, CanStart
<1>1. arc[p] \in Arcs /\ mem[arc[p]] \in SpecRec
  BY <1>0, ArcOf
<1>2. CASE Reject(p)
  BY <1>0, <1>2, RejectLeak
<1>3. CASE ~Reject(p)
  <2>1. TakeGuard(p) /\ UNCHANGED <<reg, pstor, dp, kind>>
    BY <1>3 DEF StartCreate, StartUpdate, StartDestroy, Await
  <2>2. CASE orphaned'
    BY <2>2 DEF StageInv, LeakInv
  <2>3. CASE ~orphaned'
    <3>1. ~orphaned /\ arc[p] = reg /\ Holds(p) /\ reg \in Arcs
      BY <1>0, <1>1, <2>1, <2>3 DEF TakeGuard, Holds
    <3>2. \A q \in Procs \ {p} : pc'[q] = pc[q]
      BY <1>3 DEF StartCreate, StartUpdate, StartDestroy, Await, Goto, GInv, TypeOK
    <3> DEFINE s0 == mem[reg]
               s1 == mem'[reg]
    <3>3. CASE p \in Tasks /\ StartCreate(p)
      <4>1. s1 = StartOp(s0, "Create", NoVal) /\ s0.status = "Creating" /\ s0.op = "None"
        BY <1>3, <3>1, <3>3 DEF StartCreate, Dirty, GInv, TypeOK
      <4>2. /\ pc'[p] = "log" /\ clone'[p] = s1 /\ reply'[p] = "none" /\ kind'[p] = "create"
        BY <1>3, <2>1, <3>1, <3>3, <4>1 DEF StartCreate, CanStart, Await, Goto, GInv, TypeOK
      <4>3. s1.status = "Creating" /\ s1.op = "Create" /\ s1.result = "None"
        BY SMT, <1>1, <3>1, <4>1, Fields
      <4>4. ~dp
        BY <3>1, <4>1 DEF LeakInv, Kept
      <4>5. Stage(p)'
        BY <2>1, <4>2, <4>3, <4>4 DEF Stage
      <4>6. LeakInv'
        BY <2>1, <3>1, <4>4 DEF LeakInv
      <4> QED
        BY <3>1, <3>2, <4>5, <4>6, OwnStage
    <3>4. CASE p \in Tasks /\ StartUpdate(p)
      <4>1. PICK v : s1 = StartOp(s0, "Update", v) /\ clone'[p] = s1
        BY SMT, <1>3, <3>1, <3>4 DEF StartUpdate, GInv, TypeOK
      <4>2. /\ pc'[p] \in {"log", "exec"} /\ reply'[p] = "none" /\ kind'[p] = "update"
            /\ s0.status = "Created"
        BY <1>3, <2>1, <3>1, <3>4 DEF StartUpdate, CanStart, Goto, GInv, TypeOK
      <4>3. s1.status = "Created" /\ s1.op = "Update" /\ s1.result = "None"
        BY SMT, <1>1, <3>1, <4>1, <4>2, Fields
      <4>5. Stage(p)'
        BY <2>1, <4>1, <4>2, <4>3 DEF Stage
      <4>6. LeakInv'
        BY <2>1, <3>1, <4>3 DEF LeakInv, Kept
      <4> QED
        BY <3>1, <3>2, <4>5, <4>6, OwnStage
    <3>5. CASE StartDestroy(p)
      <4>0. kind'[p] \in {"destroy", "gc"}
        BY <2>1, <3>5 DEF StartDestroy, CanStart
      <4>1. CASE mem' = mem /\ pc'[p] = "exec" /\ s0.status = "Deleted"
        <5>1. Stage(p)'
          BY <2>1, <4>0, <4>1 DEF Stage, InOp
        <5>2. LeakInv'
          BY <2>1, <3>1, <4>1 DEF LeakInv
        <5> QED
          BY <3>1, <3>2, <5>1, <5>2, OwnStage
      <4>2. CASE /\ s1 = StartOp(SetStatus(s0, "Deleting"), "Destroy", NoVal)
                 /\ pc'[p] = "log" /\ clone'[p] = s1 /\ reply'[p] = "none"
        <5>1. SetStatus(s0, "Deleting") \in SpecRec
          BY <1>1, <3>1, SpecOpsType DEF Status
        <5>2. s1.status = "Deleting" /\ s1.op = "Destroy" /\ s1.result = "None"
          BY SMT, <1>1, <3>1, <4>2, <5>1, Fields
        <5>3. Stage(p)'
          BY <2>1, <4>0, <4>2, <5>2 DEF Stage, InOp
        <5>4. LeakInv'
          BY <2>1, <3>1, <5>2 DEF LeakInv, Kept
        <5> QED
          BY <3>1, <3>2, <5>3, <5>4, OwnStage
      <4>3. \/ mem' = mem /\ pc'[p] = "exec" /\ s0.status = "Deleted"
            \/ /\ s1 = StartOp(SetStatus(s0, "Deleting"), "Destroy", NoVal)
               /\ pc'[p] = "log" /\ clone'[p] = s1 /\ reply'[p] = "none"
        BY SMT, <1>3, <3>1, <3>5 DEF StartDestroy, Await, Goto, GInv, TypeOK
      <4> QED
        BY <4>1, <4>2, <4>3
    <3> QED
      BY <3>3, <3>4, <3>5
  <2> QED
    BY <2>2, <2>3
<1> QED
  BY <1>2, <1>3

\* A store call, applied or not: what a task writes records the resource, and what
\* it deletes is not on the data plane.
LEMMA StoreLeak ==
    ASSUME GInv, StageInv, LeakInv, NEW p \in Procs, Store(p)
    PROVE  StageInv' /\ LeakInv'
<1>0. pc[p] \in StorePcs /\ InOp(p) /\ Holds(p)
  BY DEF Store, StorePcs, InOp, Holds
<1>1. UNCHANGED <<reg, mem, dp, pc, kind, clone, orphaned>>
  BY DEF Store, ghosts
<1>2. pstor' \in {pstor, Written(p)} /\ (reply'[p] = "ok" => pstor' = Written(p))
  BY DEF Store, GInv, TypeOK
<1>3. CASE orphaned
  BY <1>1, <1>3 DEF StageInv, LeakInv
<1>4. CASE ~orphaned
  <2>1. Stage(p) /\ clone[p] \in SpecRec
    BY <1>0, <1>4, ArcOf DEF StageInv, InOp
  <2>2. Stage(p)'
    <3>1. pc[p] # "exec"
      BY <1>0 DEF StorePcs
    <3>2. pc[p] = "log" => Written(p) = clone[p]
      BY DEF Written
    <3> QED
      BY <1>1, <1>2, <2>1, <3>1, <3>2 DEF Stage, InOp
  <2>3. LeakInv'
    <3>1. CASE pstor' = pstor
      BY <1>1, <3>1 DEF LeakInv
    <3>2. CASE pc[p] \in {"purge", "delspec"}
      BY <1>1, <1>2, <2>1, <3>2 DEF LeakInv, Stage, Written
    <3>3. CASE pc[p] = "log" /\ pstor' = Written(p)
      BY <1>1, <1>4, <2>1, <3>3, NoRecAssumption DEF LeakInv, Stage, Written, Kept, Dirty
    <3>4. CASE pc[p] \in {"commit", "undo", "setdel"} /\ pstor' = Written(p)
      BY <1>1, <1>4, <2>1, <3>4, NoRecAssumption DEF LeakInv, Stage, Written, Kept, Dirty
    <3> QED
      BY <1>0, <1>2, <3>1, <3>2, <3>3, <3>4 DEF StorePcs
  <2>4. \A q \in Procs \ {p} : pc'[q] = pc[q]
    BY <1>1
  <2> QED
    BY <1>0, <1>4, <2>2, <2>3, <2>4, OwnStage
<1> QED
  BY <1>3, <1>4

\* What a task does with a reply of the store.
LEMMA ReplyLeak ==
    ASSUME GInv, StageInv, LeakInv, NEW p \in Procs,
           \/ LogReply(p) \/ CommitReply(p) \/ UndoReply(p)
           \/ SetDeletingReply(p) \/ PurgeReply(p) \/ DeleteSpecReply(p)
    PROVE  StageInv' /\ LeakInv'
<1>0. InOp(p) /\ Holds(p) /\ UNCHANGED <<pstor, dp, orphaned>>
  BY DEF LogReply, CommitReply, UndoReply, SetDeletingReply, PurgeReply, DeleteSpecReply,
         InOp, Holds
<1>1. CASE orphaned
  BY <1>0, <1>1 DEF StageInv, LeakInv
<1>2. CASE ~orphaned
  <2>1. Stage(p) /\ arc[p] = reg /\ reg \in Arcs /\ mem[reg] \in SpecRec
        /\ mem \in [Arcs -> SpecRec] /\ reg # NoArc
    BY SMT, <1>0, <1>2, ArcOf, ConstAssumption DEF StageInv, InOp, GInv, RegInv, TypeOK
  <2> DEFINE s == mem[reg]
  <2>2. \A x : Put(p, x)[reg] = x
    BY <2>1 DEF Put
  <2>3. /\ kind[p] \in {"create", "update", "destroy", "gc", "dirty"}
        /\ pc[p] \in PcsOf(kind[p])
    BY SMT DEF GInv, TypeOK, GuardInv
  <2>4. CASE LogReply(p) /\ reply[p] = "ok"
    <3>1. /\ pc[p] = "log" /\ pc'[p] = "exec" /\ \A q \in Procs \ {p} : pc'[q] = pc[q]
          /\ UNCHANGED <<reg, mem, kind, clone>>
      BY <2>4 DEF LogReply, Goto, GInv, TypeOK
    <3>2. Stage(p)'
      BY <1>0, <2>1, <2>4, <3>1 DEF Stage, InOp
    <3>3. LeakInv'
      BY <1>0, <3>1 DEF LeakInv
    <3> QED
      BY <1>0, <1>2, <3>1, <3>2, <3>3, OwnStage
  <2>5. CASE LogReply(p) /\ reply[p] = "err" /\ kind[p] = "create"
    <3>1. /\ pc[p] = "log" /\ pc'[p] = "delspec" /\ \A q \in Procs \ {p} : pc'[q] = pc[q]
          /\ UNCHANGED <<reg, kind>>
      BY <2>5 DEF LogReply, Await, Goto, GInv, TypeOK
    <3>2. ~dp
      BY <2>1, <2>5, <3>1 DEF Stage
    <3>3. Stage(p)'
      BY <1>0, <2>5, <3>1, <3>2 DEF Stage
    <3>4. LeakInv'
      BY <1>0, <3>2 DEF LeakInv
    <3> QED
      BY <1>0, <1>2, <3>1, <3>3, <3>4, OwnStage
  <2>6. CASE LogReply(p) /\ reply[p] = "err" /\ kind[p] # "create"
    <3>1. pc[p] = "log" /\ Finish(p, Put(p, ClearOp(s)), reg)
      BY <2>1, <2>6 DEF LogReply
    <3>2. s.status \in {"Created", "Deleting"}
      BY <1>0, <2>1, <2>3, <2>6, <3>1, PcsOfKind DEF Stage
    <3>3. Kept(ClearOp(s)) /\ ClearOp(s).op = "None"
      BY <2>1, <3>2, Fields DEF Kept
    <3> QED
      BY <1>0, <2>2, <3>1, <3>3, Leave
  <2>7. CASE CommitReply(p)
    <3>1. pc[p] = "commit"
      BY <2>7 DEF CommitReply
    <3>2. kind[p] \in {"create", "update", "dirty"}
      BY <2>3, <3>1, PcsOfKind
    <3>3. dp => s.status # "Deleted" /\ ~(s.op = "Destroy" /\ s.result = "True")
      BY <1>2 DEF LeakInv, Kept
    <3>4. dp => s.op # "Destroy"
      BY <1>0, <2>1, <3>1, <3>2, <3>3 DEF Stage
    <3>5. s.status = "Creating" => s.op = "Create"
      BY <1>0, <2>1, <3>1, <3>2 DEF Stage
    <3>6. CASE reply[p] = "ok"
      <4>1. Finish(p, Put(p, CommitOp(s)), reg)
        BY <2>1, <2>7, <3>6 DEF CommitReply
      <4>2. dp => Kept(CommitOp(s)) /\ CommitOp(s).op # "Destroy"
        BY <2>1, <3>3, <3>4, <3>5, CommitFields DEF Kept, SpecRec, Ops
      <4> QED
        BY <1>0, <2>2, <4>1, <4>2, Leave
    <3>7. CASE reply[p] = "err"
      <4>1. Finish(p, Put(p, SetOpResult(s, "True")), reg)
        BY <2>1, <2>7, <3>7 DEF CommitReply
      <4>2. dp => Kept(SetOpResult(s, "True")) /\ SetOpResult(s, "True").op # "Destroy"
        BY SMT, <2>1, <3>3, <3>4, <3>5, Fields DEF Kept
      <4> QED
        BY <1>0, <2>2, <4>1, <4>2, Leave
    <3> QED
      BY <2>7, <3>6, <3>7 DEF CommitReply, GInv, TypeOK
  <2>8. CASE UndoReply(p)
    <3>1. pc[p] = "undo" /\ Finish(p, Put(p, AfterUndo(p, s)), reg)
      BY <2>1, <2>8 DEF UndoReply
    <3>2. kind[p] \in {"update", "destroy", "gc", "dirty"}
      BY <2>1, <2>3, <3>1, PcsOfKind DEF Stage
    <3>3. s.status # "Creating"
      BY <1>0, <2>1, <3>1, <3>2 DEF Stage
    <3>4. dp => s.status # "Deleted" /\ ~(s.op = "Destroy" /\ s.result = "True")
      BY <1>2 DEF LeakInv, Kept
    <3>5. /\ AfterUndo(p, s).status = s.status
          /\ \/ AfterUndo(p, s).op = "None"
             \/ AfterUndo(p, s).op = s.op /\ AfterUndo(p, s).result \in {s.result, "False"}
      <4>1. AfterUndo(p, s) \in {ClearOp(s), s, SetOpResult(s, "False")}
        BY DEF AfterUndo
      <4>2. CASE AfterUndo(p, s) = ClearOp(s)
        BY SMT, <2>1, <4>2, Fields
      <4>3. CASE AfterUndo(p, s) = s
        BY <4>3
      <4>4. CASE AfterUndo(p, s) = SetOpResult(s, "False")
        BY SMT, <2>1, <4>4, Fields
      <4> QED
        BY <4>1, <4>2, <4>3, <4>4
    <3>6. dp => /\ Kept(AfterUndo(p, s))
                /\ ~(AfterUndo(p, s).op = "Destroy" /\ AfterUndo(p, s).result = "True")
      BY <3>3, <3>4, <3>5 DEF Kept
    <3> QED
      BY <1>0, <2>2, <3>1, <3>6, Leave
  <2>9. CASE SetDeletingReply(p)
    <3>1. Finish(p, mem, reg)
      BY <2>9 DEF SetDeletingReply
    <3> QED
      BY <1>0, <3>1, Leave DEF LeakInv
  <2>10. CASE PurgeReply(p) \/ DeleteSpecReply(p)
    <3>1. ~dp
      BY <2>1, <2>10 DEF PurgeReply, DeleteSpecReply, Stage
    <3>2. PICK m, r : Finish(p, m, r)
      BY <2>10 DEF PurgeReply, DeleteSpecReply
    <3> QED
      BY <1>0, <3>1, <3>2, LeaveGone
  <2> QED
    BY <2>4, <2>5, <2>6, <2>7, <2>8, <2>9, <2>10 DEF LogReply
<1> QED
  BY <1>1, <1>2

\* The data-plane calls.  A create runs with its log in the store; when it fails the
\* resource may exist, and the specification is then Deleting.
LEMMA ExecLeak ==
    ASSUME GInv, StageInv, LeakInv, OnFail = {"SetDeleting"}, NEW p \in Procs,
           \/ p \in Tasks /\ (ExecCreate(p) \/ ExecUpdate(p))
           \/ ExecDestroy(p)
    PROVE  StageInv' /\ LeakInv'
<1>0. pc[p] = "exec" /\ InOp(p) /\ Holds(p) /\ UNCHANGED <<pstor, orphaned>>
  BY DEF ExecCreate, ExecUpdate, ExecDestroy, InOp, Holds, ghosts
<1>1. CASE orphaned
  BY <1>0, <1>1 DEF StageInv, LeakInv
<1>2. CASE ~orphaned
  <2>1. Stage(p) /\ arc[p] = reg /\ reg \in Arcs /\ mem[reg] \in SpecRec
        /\ mem \in [Arcs -> SpecRec] /\ reg # NoArc
    BY SMT, <1>0, <1>2, ArcOf, ConstAssumption DEF StageInv, InOp, GInv, RegInv, TypeOK
  <2> DEFINE s == mem[reg]
  <2>2. \A x : Put(p, x)[reg] = x
    BY <2>1 DEF Put
  <2>3. CASE p \in Tasks /\ ExecCreate(p)
    <3>1. /\ kind[p] = "create" /\ s.status = "Creating" /\ s.op = "Create"
          /\ s.result = "None" /\ pstor = s /\ pstor # NoRec
      BY <1>0, <2>1, <2>3, NoRecAssumption DEF ExecCreate, Stage
    <3>2. /\ \/ /\ Await(p, "commit", CommitOp(s)) /\ mem' = mem
             \/ /\ Await(p, "setdel", FailCreatingToDeleting(s))
                /\ mem' = Put(p, FailCreatingToDeleting(s))
             \/ /\ Await(p, "delspec", s) /\ mem' = mem /\ dp' = FALSE
          /\ reg' = reg
      BY <2>1, <2>3 DEF ExecCreate, CreateFailed
    <3>3. UNCHANGED kind /\ \A q \in Procs \ {p} : pc'[q] = pc[q]
      BY <3>2 DEF Await, Goto, GInv, TypeOK
    <3>4. CASE Await(p, "commit", CommitOp(s)) /\ mem' = mem
      <4>1. pc'[p] = "commit" /\ clone'[p] = CommitOp(s)
        BY <3>4 DEF Await, Goto, GInv, TypeOK
      <4>2. CommitOp(s).status = "Created" /\ CommitOp(s).result = "None"
        BY <2>1, <3>1, CommitFields
      <4>3. Stage(p)'
        BY <3>1, <3>2, <3>3, <3>4, <4>1, <4>2 DEF Stage
      <4>4. LeakInv'
        BY <1>0, <2>1, <3>1, <3>2, <3>4 DEF LeakInv, Kept, Dirty
      <4> QED
        BY <1>0, <1>2, <3>3, <4>3, <4>4, OwnStage
    <3>5. CASE Await(p, "setdel", FailCreatingToDeleting(s))
               /\ mem' = Put(p, FailCreatingToDeleting(s))
      <4>1. /\ pc'[p] = "setdel" /\ clone'[p] = FailCreatingToDeleting(s)
            /\ mem'[reg] = FailCreatingToDeleting(s)
        BY <2>2, <3>5 DEF Await, Goto, GInv, TypeOK
      <4>2. /\ FailCreatingToDeleting(s).status = "Deleting"
            /\ FailCreatingToDeleting(s).op = "None"
            /\ FailCreatingToDeleting(s).result = "None"
        BY <2>1, FailFields
      <4>3. Stage(p)'
        BY <3>1, <3>2, <3>3, <4>1, <4>2 DEF Stage
      <4>4. LeakInv'
        BY <1>0, <2>1, <3>1, <3>2, <4>1, <4>2 DEF LeakInv, Kept, Dirty
      <4> QED
        BY <1>0, <1>2, <3>3, <4>3, <4>4, OwnStage
    <3>6. CASE Await(p, "delspec", s) /\ mem' = mem /\ dp' = FALSE
      <4>1. pc'[p] = "delspec"
        BY <3>6 DEF Await, Goto, GInv, TypeOK
      <4>2. Stage(p)'
        BY <3>1, <3>3, <3>6, <4>1 DEF Stage
      <4>3. LeakInv'
        BY <1>0, <1>2, <3>6 DEF LeakInv
      <4> QED
        BY <1>0, <1>2, <3>3, <4>2, <4>3, OwnStage
    <3> QED
      BY <3>2, <3>4, <3>5, <3>6
  <2>4. CASE p \in Tasks /\ ExecUpdate(p)
    <3>1. /\ kind[p] = "update" /\ s.status = "Created" /\ s.op = "Update"
          /\ s.result = "None" /\ clone[p] = s /\ dp' = dp
      BY <1>0, <2>1, <2>4 DEF ExecUpdate, Stage
    <3>2. /\ ClearOp(s).status = "Created" /\ ClearOp(s).op = "None" /\ ClearOp(s).result = "None"
          /\ CommitOp(s).status = "Created" /\ CommitOp(s).op = "None" /\ CommitOp(s).result = "None"
      BY <2>1, <3>1, Fields, CommitFields
    <3>3. CASE mode[p] = "FF"
      <4>1. PICK x \in {ClearOp(s), CommitOp(s)} : Finish(p, Put(p, x), reg)
        BY <2>1, <2>4, <3>3 DEF ExecUpdate
      <4>2. Kept(x) /\ x.op = "None"
        BY <3>2 DEF Kept
      <4> QED
        BY <1>0, <2>2, <3>1, <4>1, <4>2, Leave
    <3>4. CASE mode[p] # "FF"
      <4>1. PICK l \in {"commit", "undo"}, x \in {ClearOp(s), CommitOp(s)} : Await(p, l, x)
        BY <2>4, <3>1, <3>4 DEF ExecUpdate
      <4>2. UNCHANGED <<reg, mem>>
        BY <2>4, <3>4 DEF ExecUpdate
      <4>3. /\ pc'[p] = l /\ clone'[p] = x /\ UNCHANGED kind
            /\ \A q \in Procs \ {p} : pc'[q] = pc[q]
        BY <4>1 DEF Await, Goto, GInv, TypeOK
      <4>4. Stage(p)'
        BY <1>0, <3>1, <3>2, <4>1, <4>2, <4>3 DEF Stage, InOp
      <4>5. LeakInv'
        BY <1>0, <3>1, <4>2 DEF LeakInv
      <4> QED
        BY <1>0, <1>2, <4>3, <4>4, <4>5, OwnStage
    <3> QED
      BY <3>3, <3>4
  <2>5. CASE ExecDestroy(p)
    <3>1. kind[p] \in {"destroy", "gc"} /\ s.status \in {"Deleting", "Deleted"}
          /\ UNCHANGED <<reg, mem>>
      BY <1>0, <2>1, <2>5 DEF ExecDestroy, Stage
    <3>0. PICK l \in {"purge", "undo"} : \E x :
             /\ Await(p, l, x)
             /\ l = "purge" => dp' = FALSE
             /\ l = "undo" => dp' \in {dp, FALSE} /\ x = ClearOp(s)
      BY <2>1, <2>5 DEF ExecDestroy
    <3>2. PICK x :
             /\ Await(p, l, x)
             /\ l = "purge" => dp' = FALSE
             /\ l = "undo" => dp' \in {dp, FALSE} /\ x = ClearOp(s)
      BY <3>0
    <3>3. /\ pc'[p] = l /\ UNCHANGED kind /\ \A q \in Procs \ {p} : pc'[q] = pc[q]
          /\ clone'[p] = x
      BY <3>2 DEF Await, Goto, GInv, TypeOK
    <3>4. dp' => dp /\ l = "undo"
      BY <3>2
    <3>5. LeakInv'
      BY <1>0, <1>2, <3>1, <3>4 DEF LeakInv
    <3>6. dp => s.status # "Deleted"
      BY <1>2 DEF LeakInv, Kept
    <3>7. l = "undo" => x.result = "None" /\ (dp' => x.status = "Deleting")
      BY ZenonT(40), <2>1, <3>1, <3>2, <3>4, <3>6, Fields
    <3>8. Stage(p)'
      BY <3>1, <3>2, <3>3, <3>4, <3>7 DEF Stage, InOp
    <3> QED
      BY <1>0, <1>2, <3>3, <3>5, <3>8, OwnStage
  <2> QED
    BY <2>3, <2>4, <2>5
<1> QED
  BY <1>1, <1>2

\* The dirty-spec pass of the reconciler: a Creating specification becomes Deleting,
\* and an operation without a result is taken as failed.
LEMMA DirtyLeak ==
    ASSUME GInv, StageInv, LeakInv, OnFail = {"SetDeleting"}, HandleIncompleteOps
    PROVE  StageInv' /\ LeakInv'
<1>0. Poller \in Procs /\ pc[Poller] = "guard" /\ guard[arc[Poller]] = NoTask
      /\ kind[Poller] = "dirty" /\ UNCHANGED <<pstor, dp>>
  BY DEF HandleIncompleteOps, CanStart, Procs, Reject
<1>1. arc[Poller] \in Arcs /\ mem[arc[Poller]] \in SpecRec /\ mem \in [Arcs -> SpecRec]
  BY <1>0, ArcOf DEF GInv, TypeOK
<1> DEFINE s == mem[arc[Poller]]
<1>2. CASE Reject(Poller)
  BY <1>0, <1>2, RejectLeak
<1>3. CASE /\ s.status = "Creating" /\ orphaned' = orphaned
           /\ Finish(Poller, Put(Poller, SetStatus(s, "Deleting")), reg)
  <2>1. CASE arc[Poller] = reg
    <3>1. Put(Poller, SetStatus(s, "Deleting"))[reg] = SetStatus(s, "Deleting")
      BY <1>1, <2>1 DEF Put
    <3>2. SetStatus(s, "Deleting").status = "Deleting" /\ SetStatus(s, "Deleting").op = s.op
      BY ZenonT(40), <1>1, Fields
    <3>3. ~orphaned /\ dp => s.op = "Create"
      BY <1>3, <2>1 DEF LeakInv, Kept
    <3>4. Holds(Poller)
      BY <1>0, <2>1 DEF Holds
    <3>5. ~orphaned /\ dp => Kept(SetStatus(s, "Deleting")) /\ SetStatus(s, "Deleting").op # "Destroy"
      BY <3>2, <3>3 DEF Kept
    <3> QED
      BY <1>0, <1>3, <3>1, <3>4, <3>5, Leave
  <2>2. CASE arc[Poller] # reg
    <3>1. reg' = reg /\ (reg # NoArc => mem'[reg] = mem[reg])
      BY <1>1, <1>3, <2>2 DEF Finish, Put, GInv, TypeOK
    <3>2. \A q \in Procs : InOp(q)' => /\ pc'[q] = pc[q] /\ kind'[q] = kind[q]
                                       /\ clone'[q] = clone[q] /\ reply'[q] = reply[q]
      BY <1>3 DEF Finish, InOp, GInv, TypeOK
    <3> QED
      BY <1>0, <1>3, <3>1, <3>2, Quiet
  <2> QED
    BY <2>1, <2>2
<1>4. CASE /\ TakeGuard(Poller) /\ UNCHANGED <<reg, mem>>
           /\ \/ /\ s.status \in {"Created", "Deleting"} /\ s.op # "None" /\ s.result = "True"
                 /\ Await(Poller, "commit", CommitOp(s))
              \/ /\ s.status \in {"Created", "Deleting"}
                 /\ Await(Poller, "undo", ClearOp(s))
              \/ /\ s.status = "Deleted"
                 /\ Await(Poller, "delspec", s)
  <2>1. CASE orphaned'
    BY <2>1 DEF StageInv, LeakInv
  <2>2. CASE ~orphaned'
    <3>1. ~orphaned /\ arc[Poller] = reg /\ Holds(Poller)
      BY <1>0, <1>4, <2>2 DEF TakeGuard, Holds
    <3>2. LeakInv'
      BY <1>0, <1>4, <3>1 DEF LeakInv
    <3>3. UNCHANGED kind /\ \A q \in Procs \ {Poller} : pc'[q] = pc[q]
      BY <1>4 DEF Await, Goto, GInv, TypeOK
    <3>4. dp => s.status # "Deleted" /\ ~(s.op = "Destroy" /\ s.result = "True")
      BY <3>1 DEF LeakInv, Kept
    <3>5. Stage(Poller)'
      <4>1. CASE /\ s.status \in {"Created", "Deleting"} /\ s.op # "None" /\ s.result = "True"
                 /\ Await(Poller, "commit", CommitOp(s))
        <5>1. pc'[Poller] = "commit" /\ clone'[Poller] = CommitOp(s)
          BY <1>0, <4>1 DEF Await, Goto, GInv, TypeOK
        <5>2. /\ CommitOp(s).result = "None"
              /\ dp => CommitOp(s).status \notin {"Creating", "Deleted"}
          BY <1>1, <3>4, <4>1, CommitFields DEF SpecRec, Ops
        <5> QED
          BY <1>0, <1>4, <3>1, <3>3, <4>1, <5>1, <5>2 DEF Stage
      <4>2. CASE s.status \in {"Created", "Deleting"} /\ Await(Poller, "undo", ClearOp(s))
        <5>1. pc'[Poller] = "undo" /\ clone'[Poller] = ClearOp(s)
          BY <1>0, <4>2 DEF Await, Goto, GInv, TypeOK
        <5>2. ClearOp(s).result = "None" /\ ClearOp(s).status = s.status
          BY <1>1, Fields
        <5> QED
          BY <1>0, <1>4, <3>1, <3>3, <4>2, <5>1, <5>2 DEF Stage
      <4>3. CASE s.status = "Deleted" /\ Await(Poller, "delspec", s)
        <5>1. pc'[Poller] = "delspec"
          BY <1>0, <4>3 DEF Await, Goto, GInv, TypeOK
        <5> QED
          BY <1>0, <1>4, <3>1, <3>3, <3>4, <4>3, <5>1 DEF Stage
      <4> QED
        BY <1>4, <4>1, <4>2, <4>3
    <3> QED
      BY <1>0, <3>1, <3>2, <3>3, <3>5, OwnStage
  <2> QED
    BY <2>1, <2>2
<1> QED
  BY <1>2, <1>3, <1>4 DEF HandleIncompleteOps, Dirty, ghosts

\* A restart: the registry is what the store holds, no operation is running.
LEMMA CrashLeak ==
    ASSUME GInv, StageInv, LeakInv, Crash
    PROVE  StageInv' /\ LeakInv'
<1>1. \A p \in Procs : pc'[p] = "idle"
  BY DEF Crash
<1>2. StageInv'
  BY <1>1 DEF StageInv, InOp
<1>3. UNCHANGED <<pstor, dp, orphaned>>
  BY DEF Crash
<1>4. ~orphaned /\ dp => reg' \in Arcs /\ mem'[reg'] = pstor
  BY DEF Crash, LeakInv
<1>5. LeakInv'
  BY <1>3, <1>4, ConstAssumption DEF LeakInv, Kept, Dirty
<1> QED
  BY <1>2, <1>5

\* Every step keeps the whole inductive invariant.
LEMMA NextIInv ==
    ASSUME OnFail = {"SetDeleting"}
    PROVE  IInv /\ [Next]_vars => IInv'
<1> SUFFICES ASSUME GInv, StageInv, LeakInv, [Next]_vars PROVE IInv'
  BY DEF IInv
<1>0. GInv'
  BY NextGInv
<1> SUFFICES StageInv' /\ LeakInv'
  BY <1>0 DEF IInv
<1>1. ASSUME NEW t \in Tasks, Request(t) PROVE StageInv' /\ LeakInv'
  BY <1>1, RequestLeak
<1>2. ASSUME NEW t \in Tasks, TaskStep(t) PROVE StageInv' /\ LeakInv'
  <2>1. t \in Procs
    BY DEF Procs
  <2> QED
    BY <1>2, <2>1, StartLeak, ExecLeak DEF TaskStep
<1>3. ASSUME NEW p \in Procs, ProcStep(p) PROVE StageInv' /\ LeakInv'
  <2>1. CASE Conflict(p)
    BY <2>1, RejectLeak DEF Conflict, Reject
  <2>2. CASE StartDestroy(p)
    BY <2>2, StartLeak
  <2>3. CASE ExecDestroy(p)
    BY <2>3, ExecLeak
  <2>4. CASE Store(p)
    BY <2>4, StoreLeak
  <2>5. CASE \/ LogReply(p) \/ CommitReply(p) \/ UndoReply(p)
             \/ SetDeletingReply(p) \/ PurgeReply(p) \/ DeleteSpecReply(p)
    BY <2>5, ReplyLeak
  <2> QED
    BY <1>3, <2>1, <2>2, <2>3, <2>4, <2>5 DEF ProcStep
<1>4. CASE Poll
  BY <1>4, PollLeak
<1>5. CASE HandleIncompleteOps
  BY <1>5, DirtyLeak
<1>6. CASE Crash
  BY <1>6, CrashLeak
<1>7. CASE UNCHANGED vars
  <2>1. UNCHANGED <<reg, mem, pstor, dp, pc, kind, clone, reply, orphaned>>
    BY <1>7 DEF vars, task, ghosts
  <2> QED
    BY <2>1, Quiet
<1> QED
  BY <1>1, <1>2, <1>3, <1>4, <1>5, <1>6, <1>7 DEF Next

\* Write-ahead, for every resource whose failed creates are set Deleting: whatever
\* fails and whenever the agent crashes, a resource that exists on the data plane has
\* a record in the store, so it is never leaked.
THEOREM NothingLeaks ==
    ASSUME OnFail = {"SetDeleting"}
    PROVE  Spec => []NoLeak
<1>1. Init => IInv
  <2>1. Init => StageInv /\ LeakInv
    BY DEF Init, StageInv, LeakInv, InOp
  <2> QED
    BY <2>1, InitGInv DEF IInv
<1>2. IInv /\ [Next]_vars => IInv'
  BY NextIInv
<1>3. IInv => NoLeak
  BY DEF IInv, LeakInv, NoLeak
<1> QED
  BY <1>1, <1>2, <1>3, PTL DEF Spec
=============================================================================
