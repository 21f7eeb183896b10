--------------------------- MODULE GuardedOpsStore --------------------------
(***************************************************************************)
(* The store, memory and the acknowledged requests agree, and the stored    *)
(* record follows the life of a resource: TLAPS proofs of StoreIsTrue and   *)
(* that GuardedOps implements ResourceLifecycle, for every create-failure   *)
(* policy, on top of the invariant of GuardedOpsProofs.                     *)
(***************************************************************************)
EXTENDS GuardedOpsProofs

\* The leaves are first-order; the ones that need more name SMT.
USE Zenon

\* What the SpecTransaction operations do to the value and to the pending argument.
LEMMA ValFields ==
    ASSUME NEW s \in SpecRec
    PROVE  /\ ClearOp(s).val = s.val
           /\ \A st : SetStatus(s, st).val = s.val
           /\ \A r : SetOpResult(s, r).val = s.val /\ SetOpResult(s, r).arg = s.arg
           /\ \A o, v : StartOp(s, o, v).val = s.val /\ StartOp(s, o, v).arg = v
           /\ FailCreatingToDeleting(s).val = s.val
<1>1. ClearOp(s).val = s.val
  BY DEF ClearOp, SpecRec
<1>2. \A st : SetStatus(s, st).val = s.val
  BY DEF SetStatus, SpecRec
<1>3. \A r : SetOpResult(s, r).val = s.val /\ SetOpResult(s, r).arg = s.arg
  BY DEF SetOpResult, SpecRec
<1>4. \A o, v : StartOp(s, o, v).val = s.val /\ StartOp(s, o, v).arg = v
  BY DEF StartOp, SpecRec
<1>5. FailCreatingToDeleting(s).val = s.val
  BY DEF FailCreatingToDeleting, SetStatus, ClearOp, SpecRec
<1> QED
  BY <1>1, <1>2, <1>3, <1>4, <1>5

\* What commit_op makes of the value: an update takes effect.
LEMMA CommitVal ==
    ASSUME NEW s \in SpecRec
    PROVE  CommitOp(s).val = IF s.op = "Update" THEN s.arg ELSE s.val
<1>1. s.op \in {"None", "Create", "Destroy", "Update"}
  BY DEF SpecRec, Ops
<1>2. CASE s.op = "None"
  BY <1>2 DEF CommitOp
<1>3. CASE s.op = "Create"
  <2>1. CommitOp(s) = SetStatus(ClearOp(s), "Created")
    BY <1>3 DEF CommitOp
  <2>2. ClearOp(s) \in SpecRec /\ ClearOp(s).val = s.val
    BY SpecOpsType, ValFields
  <2>3. CommitOp(s).val = s.val
    BY SMT, <2>1, <2>2, ValFields
  <2> QED
    BY <1>3, <2>3
<1>4. CASE s.op = "Destroy"
  <2>1. CommitOp(s) = SetStatus(ClearOp(s), "Deleted")
    BY <1>4 DEF CommitOp
  <2>2. ClearOp(s) \in SpecRec /\ ClearOp(s).val = s.val
    BY SpecOpsType, ValFields
  <2>3. CommitOp(s).val = s.val
    BY SMT, <2>1, <2>2, ValFields
  <2> QED
    BY <1>4, <2>3
<1>5. CASE s.op = "Update"
  BY <1>5 DEF CommitOp, ClearOp, SpecRec
<1> QED
  BY <1>1, <1>2, <1>3, <1>4, <1>5

\* What a specification brings back once its operation is committed.
LEMMA CommitBrings ==
    ASSUME NEW s \in SpecRec
    PROVE  /\ s.op = "Create" => Brings(CommitOp(s)) = s.val
           /\ s.op = "Destroy" => Brings(CommitOp(s)) = Gone
           /\ s.op = "Update" => Brings(CommitOp(s)) = IF s.status = "Created" THEN s.arg ELSE Gone
           /\ s.op = "None" => Brings(CommitOp(s)) = Brings(s)
BY CommitFields, CommitVal DEF Brings

\* A recorded result changes nothing of what a commit brings.
LEMMA ResultBrings ==
    ASSUME NEW s \in SpecRec, NEW r \in {"True", "False"}
    PROVE  /\ Brings(SetOpResult(s, r)) = Brings(s)
           /\ Brings(CommitOp(SetOpResult(s, r))) = Brings(CommitOp(s))
           /\ Initial(s) => Initial(SetOpResult(s, r))
<1> DEFINE n == SetOpResult(s, r)
<1>1. n \in SpecRec /\ n.val = s.val /\ n.arg = s.arg /\ n.status = s.status /\ n.op = s.op
  BY SpecOpsType, Fields, ValFields
<1>2. s.op \in {"None", "Create", "Destroy", "Update"}
  BY DEF SpecRec, Ops
<1> HIDE DEF n
<1>3. Brings(n) = Brings(s) /\ (Initial(s) => Initial(n))
  BY <1>1 DEF Brings, Initial
<1>4. Brings(CommitOp(n)) = Brings(CommitOp(s))
  BY <1>1, <1>2, <1>3, CommitBrings
<1> QED
  BY <1>3, <1>4 DEF n

-----------------------------------------------------------------------------
\* The outcomes which the replies allow.

\* As long as no reply is sent, they only grow.
LEMMA LegalGrows ==
    ASSUME base' = base,
           \A t \in Tasks : InOp(t) => InOp(t)' /\ Outcome(t)' = Outcome(t)
    PROVE  Legal \subseteq Legal'
BY DEF Legal

\* An error reply keeps all of them.
LEMMA LegalAfterErr ==
    ASSUME GInv, ~orphaned, NEW p \in Procs, InOp(p), RepliedErr(p)
    PROVE  Legal \subseteq Legal'
<1>1. \A t \in Tasks : InOp(t) => t = p
  BY Alone DEF Holds, Procs
<1> QED
  BY <1>1 DEF Legal, RepliedErr

\* A successful reply keeps its own outcome, and the reconciler's work keeps them all.
LEMMA LegalAfterOk ==
    ASSUME GInv, ~orphaned, NEW p \in Procs, InOp(p), RepliedOk(p)
    PROVE  IF p \in Tasks THEN Outcome(p) \in Legal' ELSE Legal \subseteq Legal'
<1>1. \A t \in Tasks : InOp(t) => t = p
  BY Alone DEF Holds, Procs
<1> QED
  BY <1>1 DEF Legal, RepliedOk

-----------------------------------------------------------------------------
\* How the actions change the specification and the store.

\* A step that leaves the specification, the store and the running operations alone.
LEMMA QuietStore ==
    ASSUME GInv, StoreInv, UNCHANGED <<reg, pstor, orphaned, base>>,
           reg # NoArc => /\ mem'[reg] = mem[reg]
                          /\ guard'[reg] = NoTask => guard[reg] = NoTask,
           \A q \in Procs : InOp(q)' <=> InOp(q),
           \A q \in Procs : InOp(q) => /\ pc'[q] = pc[q] /\ kind'[q] = kind[q]
                                       /\ clone'[q] = clone[q] /\ reply'[q] = reply[q]
                                       /\ arg'[q] = arg[q] /\ mode'[q] = mode[q]
    PROVE  StoreInv'
<1>1. Legal \subseteq Legal'
  BY LegalGrows DEF Outcome, Procs
<1>2. MemInv'
  BY <1>1 DEF StoreInv, MemInv
<1>3. RecordInv'
  BY <1>1 DEF StoreInv, RecordInv, Durable
<1>4. MemoryIsPersisted'
  BY DEF StoreInv, MemoryIsPersisted, Persisted
<1>5. WritesInv'
  <2> SUFFICES ASSUME ~orphaned', NEW q \in Procs, InOp(q)' PROVE Writes(q)'
    BY DEF WritesInv
  <2>1. InOp(q) /\ Writes(q)
    BY DEF StoreInv, WritesInv
  <2>2. reg # NoArc
    BY SMT, <2>1, ConstAssumption DEF GInv, RegInv, GuardInv, InOp
  <2> QED
    BY ZenonT(40), <2>1, <2>2 DEF Writes, Written, Persisted
<1> QED
  BY <1>2, <1>3, <1>4, <1>5 DEF StoreInv

\* The conditions on the specification that a task leaves behind, for outcomes L.
Fits(s, L) ==
    /\ Brings(s) \in L /\ Initial(s)
    /\ s.op # "None" /\ s.result = "True" => Brings(CommitOp(s)) \in L

\* A task in an operation goes on with specification s in memory.
LEMMA GoOn ==
    ASSUME GInv, StoreInv, ~orphaned, NEW p \in Procs, Holds(p), NEW s, reg \in Arcs,
           ~orphaned' => /\ mem'[reg] = s /\ guard'[reg] # NoTask
                         /\ Fits(s, Legal') /\ Legal \subseteq Legal' /\ Writes(p)',
           UNCHANGED <<reg, pstor>>, \A q \in Procs \ {p} : pc'[q] = pc[q]
    PROVE  StoreInv'
<1> SUFFICES ASSUME ~orphaned' PROVE StoreInv'
  BY DEF StoreInv, WritesInv, MemInv, RecordInv, MemoryIsPersisted
<1>1. MemInv'
  BY DEF MemInv, Fits
<1>2. RecordInv'
  BY DEF StoreInv, RecordInv, Durable
<1>3. MemoryIsPersisted'
  BY DEF MemoryIsPersisted
<1>4. WritesInv'
  <2> SUFFICES ASSUME NEW q \in Procs, InOp(q)', q # p PROVE FALSE
    BY DEF WritesInv
  <2>1. ~InOp(q)
    BY Alone
  <2> QED
    BY <2>1 DEF InOp
<1> QED
  BY <1>1, <1>2, <1>3, <1>4 DEF StoreInv

\* A task returns from its operation with specification s behind the Arc.
LEMMA LeaveStore ==
    ASSUME GInv, StoreInv, ~orphaned, NEW p \in Procs, Holds(p), arc[p] = reg, reg \in Arcs,
           NEW s, NEW m, m[reg] = s, Finish(p, m, reg), UNCHANGED <<pstor, orphaned>>,
           Fits(s, Legal'), Durable \in Legal',
           s.status = "Created" /\ s.op = "None" => Persisted(s)
    PROVE  StoreInv'
<1>1. /\ reg' = reg /\ mem'[reg] = s /\ pc'[p] = "idle"
      /\ \A q \in Procs \ {p} : pc'[q] = pc[q]
  BY DEF Finish, GInv, TypeOK
<1>2. MemInv'
  BY <1>1 DEF MemInv, Fits
<1>3. RecordInv'
  BY <1>1 DEF StoreInv, RecordInv, Durable
<1>4. MemoryIsPersisted'
  BY <1>1 DEF MemoryIsPersisted, Persisted, Dirty
<1>5. WritesInv'
  <2> SUFFICES ASSUME NEW q \in Procs, InOp(q)' PROVE FALSE
    BY DEF WritesInv
  <2>1. q # p
    BY <1>1 DEF InOp
  <2>2. ~InOp(q)
    BY <2>1, Alone
  <2> QED
    BY <1>1, <2>1, <2>2 DEF InOp
<1> QED
  BY <1>2, <1>3, <1>4, <1>5 DEF StoreInv

\* A task returns after it has taken the specification out of the registry.
LEMMA RemoveStore ==
    ASSUME GInv, StoreInv, ~orphaned, NEW p \in Procs, Holds(p), NEW m, Finish(p, m, NoArc),
           UNCHANGED <<pstor, orphaned>>, pstor = NoRec, Gone \in Legal'
    PROVE  StoreInv'
<1>1. reg' = NoArc /\ pc'[p] = "idle" /\ \A q \in Procs \ {p} : pc'[q] = pc[q]
  BY DEF Finish, GInv, TypeOK
<1>2. MemInv' /\ MemoryIsPersisted'
  BY <1>1 DEF MemInv, MemoryIsPersisted
<1>3. RecordInv'
  BY <1>1 DEF RecordInv, Durable
<1>5. WritesInv'
  <2> SUFFICES ASSUME NEW q \in Procs, InOp(q)' PROVE FALSE
    BY DEF WritesInv
  <2>1. q # p
    BY <1>1 DEF InOp
  <2>2. ~InOp(q)
    BY <2>1, Alone
  <2> QED
    BY <1>1, <2>1, <2>2 DEF InOp
<1> QED
  BY <1>2, <1>3, <1>5 DEF StoreInv

-----------------------------------------------------------------------------
\* Each action keeps StoreInv.

\* A request that only gets hold of an Arc; get_or_create allocates one when the
\* registry has none, and then the store has no record either.
LEMMA RequestStore ==
    ASSUME GInv, StoreInv, NEW t \in Tasks, Request(t)
    PROVE  StoreInv'
<1>0. t \in Procs
  BY DEF Procs
<1>1. PICK k, a : Begin(t, k, a)
  BY DEF Request, ReqCreate, ReqUpdate, ReqDestroy
<1>2. UNCHANGED <<pstor, orphaned, base, guard>> /\ pc[t] = "idle"
  BY DEF Request, ReqCreate, ReqUpdate, ReqDestroy, ghosts
<1>3. \A q \in Procs : InOp(q)' <=> InOp(q)
  BY <1>0, <1>1, <1>2 DEF Begin, InOp, GInv, TypeOK
<1>4. \A q \in Procs : q # t => /\ pc'[q] = pc[q] /\ kind'[q] = kind[q]
                                /\ clone'[q] = clone[q] /\ reply'[q] = reply[q]
                                /\ arg'[q] = arg[q] /\ mode'[q] = mode[q]
  BY <1>0, <1>1 DEF Request, ReqCreate, ReqUpdate, ReqDestroy, Begin, GInv, TypeOK
<1>5. ~InOp(t)
  BY <1>2 DEF InOp
<1>6. CASE UNCHANGED <<reg, mem>>
  BY <1>2, <1>3, <1>4, <1>5, <1>6, QuietStore
<1>7. CASE ~UNCHANGED <<reg, mem>>
  <2>1. reg = NoArc /\ reg' \in Arcs /\ mem'[reg'] = NewSpec
    BY <1>7 DEF Request, ReqCreate, ReqUpdate, ReqDestroy, FreeArcs, GInv, TypeOK
  <2>2. ~orphaned => \A q \in Procs : ~InOp(q)
    BY SMT, <2>1, ConstAssumption DEF GInv, RegInv, GuardInv, InOp
  <2>3. WritesInv'
    BY <1>2, <1>3, <2>2 DEF WritesInv
  <2>4. ~orphaned => Legal \subseteq Legal'
    BY <1>2, <2>2, LegalGrows DEF Procs
  <2>5. ~orphaned => pstor = NoRec /\ Gone \in Legal
    BY <2>1 DEF StoreInv, RecordInv, Durable
  <2>6. RecordInv'
    BY <1>2, <2>4, <2>5 DEF RecordInv, Durable
  <2>7. MemInv' /\ MemoryIsPersisted'
    BY SMT, <1>2, <2>1, <2>4, <2>5 DEF MemInv, MemoryIsPersisted, NewSpec, Brings, Initial
  <2> QED
    BY <2>3, <2>6, <2>7 DEF StoreInv
<1> QED
  BY <1>6, <1>7

\* The reconciler getting hold of the Arc.
LEMMA PollStore ==
    ASSUME GInv, StoreInv, Poll
    PROVE  StoreInv'
<1>0. Poller \in Procs
  BY DEF Procs
<1>1. PICK k, a : Begin(Poller, k, a)
  BY DEF Poll
<1>2. UNCHANGED <<pstor, orphaned, base, guard, reg, mem, arg, mode>> /\ pc[Poller] = "idle"
  BY DEF Poll, ghosts
<1>3. \A q \in Procs : InOp(q)' <=> InOp(q)
  BY <1>0, <1>1, <1>2 DEF Begin, InOp, GInv, TypeOK
<1>4. \A q \in Procs : q # Poller => /\ pc'[q] = pc[q] /\ kind'[q] = kind[q]
                                     /\ clone'[q] = clone[q] /\ reply'[q] = reply[q]
  BY <1>0, <1>1 DEF Begin, GInv, TypeOK
<1>5. ~InOp(Poller)
  BY <1>2 DEF InOp
<1> QED
  BY <1>2, <1>3, <1>4, <1>5, QuietStore

\* A task which is refused, or which does not get the guard, changes nothing.
LEMMA RejectStore ==
    ASSUME GInv, StoreInv, NEW p \in Procs, pc[p] = "guard", Reject(p)
    PROVE  StoreInv'
<1>1. UNCHANGED <<pstor, orphaned, base, reg>>
  BY DEF Reject, Finish, ghosts
<1>2. reg # NoArc => mem'[reg] = mem[reg]
  BY <1>1 DEF Reject, Finish, GInv, TypeOK
<1>3. \A a \in Arcs : guard[a] # p
  BY SMT, ConstAssumption DEF GInv, GuardInv, InOp
<1>4. guard' = guard
  BY <1>3 DEF Reject, Finish, GInv, TypeOK
<1>5. \A q \in Procs : InOp(q)' <=> InOp(q)
  BY DEF Reject, Finish, InOp, GInv, TypeOK
<1>6. \A q \in Procs : InOp(q) => /\ pc'[q] = pc[q] /\ kind'[q] = kind[q]
                                  /\ clone'[q] = clone[q] /\ reply'[q] = reply[q]
                                  /\ arg'[q] = arg[q] /\ mode'[q] = mode[q]
  BY DEF Reject, Finish, InOp, GInv, TypeOK
<1> QED
  BY <1>1, <1>2, <1>4, <1>5, <1>6, QuietStore

\* A task that takes the guard of the registered Arc.
LEMMA Entered ==
    ASSUME GInv, NEW p \in Procs, pc[p] = "guard", guard[arc[p]] = NoTask, TakeGuard(p),
           ~orphaned'
    PROVE  /\ ~orphaned /\ arc[p] = reg /\ Holds(p) /\ reg \in Arcs /\ mem[reg] \in SpecRec
           /\ guard'[reg] = p /\ p # NoTask /\ guard[reg] = NoTask /\ ~InOp(p) /\ reg # NoArc
<1>1. arc[p] \in Arcs /\ mem[arc[p]] \in SpecRec
  BY ArcOf
<1> QED
  BY <1>1, ConstAssumption DEF TakeGuard, Holds, InOp, GInv, TypeOK

\* Entering an operation adds its outcome to the ones the replies allow.
LEMMA LegalAfterStart ==
    ASSUME GInv, NEW p \in Procs, ~InOp(p), InOp(p)', base' = base, kind' = kind,
           \A q \in Procs \ {p} : pc'[q] = pc[q] /\ arg'[q] = arg[q]
    PROVE  /\ Legal \subseteq Legal'
           /\ p \in Tasks => Outcome(p)' \in Legal'
<1>1. \A t \in Tasks : InOp(t) => InOp(t)' /\ Outcome(t)' = Outcome(t)
  BY DEF InOp, Outcome, Procs
<1> QED
  BY <1>1, LegalGrows DEF Legal

\* start_create: the resource is logged as being created.
LEMMA StartCreateStore ==
    ASSUME GInv, StoreInv, NEW p \in Tasks, StartCreate(p)
    PROVE  StoreInv'
<1>0. p \in Procs /\ pc[p] = "guard" /\ guard[arc[p]] = NoTask /\ kind[p] = "create"
  BY DEF StartCreate, CanStart, Procs
<1>1. CASE Reject(p)
  BY <1>0, <1>1, RejectStore
<1>2. CASE ~Reject(p)
  <2>1. TakeGuard(p) /\ UNCHANGED <<reg, pstor, base, kind, arg, mode, arc>>
    BY <1>2 DEF StartCreate, Await
  <2>2. CASE orphaned'
    BY <2>2 DEF StoreInv, WritesInv, MemInv, RecordInv, MemoryIsPersisted
  <2>3. CASE ~orphaned'
    <3> DEFINE s0 == mem[reg]
               s1 == StartOp(s0, "Create", NoVal)
    <3>1. /\ ~orphaned /\ arc[p] = reg /\ Holds(p) /\ reg \in Arcs /\ s0 \in SpecRec
          /\ guard'[reg] = p /\ p # NoTask /\ ~InOp(p) /\ reg # NoArc
      BY <1>0, <2>1, <2>3, Entered
    <3>2. mem'[reg] = s1 /\ s0.status = "Creating" /\ s0.op = "None"
      BY <1>2, <3>1 DEF StartCreate, Dirty, GInv, TypeOK
    <3>3. pc'[p] = "log" /\ clone'[p] = s1 /\ reply'[p] = "none"
      BY <1>0, <1>2, <3>1 DEF StartCreate, Await, Goto, GInv, TypeOK
    <3>4. s1.status = "Creating" /\ s1.op = "Create" /\ s1.result = "None" /\ s1.val = s0.val
      BY SMT, <3>1, <3>2, Fields, ValFields
    <3>5. \A q \in Procs \ {p} : pc'[q] = pc[q]
      BY <1>2 DEF StartCreate, Await, Goto, GInv, TypeOK
    <3>6. Legal \subseteq Legal'
      BY <1>0, <2>1, <3>1, <3>3, <3>5, LegalAfterStart DEF InOp
    <3> HIDE DEF s1
    <3>7. Writes(p)'
      BY <1>0, <2>1, <3>2, <3>3, <3>4 DEF Writes
    <3>8. Fits(s1, Legal')
      BY <3>1, <3>2, <3>4, <3>6 DEF Fits, StoreInv, MemInv, Brings, Initial
    <3> QED
      BY <1>0, <2>1, <3>1, <3>2, <3>5, <3>6, <3>7, <3>8, GoOn
  <2> QED
    BY <2>2, <2>3
<1> QED
  BY <1>1, <1>2

\* start_update: the operation is noted on a specification which the store has.
LEMMA StartUpdateStore ==
    ASSUME GInv, StoreInv, NEW p \in Tasks, StartUpdate(p)
    PROVE  StoreInv'
<1>0. p \in Procs /\ pc[p] = "guard" /\ guard[arc[p]] = NoTask /\ kind[p] = "update"
  BY DEF StartUpdate, CanStart, Procs
<1>1. CASE Reject(p)
  BY <1>0, <1>1, RejectStore
<1>2. CASE ~Reject(p)
  <2>1. TakeGuard(p) /\ UNCHANGED <<reg, pstor, base, kind, mode, arc>>
    BY <1>2 DEF StartUpdate, Await
  <2>2. CASE orphaned'
    BY <2>2 DEF StoreInv, WritesInv, MemInv, RecordInv, MemoryIsPersisted
  <2>3. CASE ~orphaned'
    <3> DEFINE s0 == mem[reg]
               v == IF mode[p] = "FF" THEN s0.val ELSE arg[p]
               s1 == StartOp(s0, "Update", v)
    <3>1. /\ ~orphaned /\ arc[p] = reg /\ Holds(p) /\ reg \in Arcs /\ s0 \in SpecRec
          /\ guard'[reg] = p /\ p # NoTask /\ guard[reg] = NoTask /\ ~InOp(p) /\ reg # NoArc
      BY <1>0, <2>1, <2>3, Entered
    <3>2. mem'[reg] = s1 /\ s0.status = "Created" /\ s0.op = "None"
      BY <1>2, <3>1 DEF StartUpdate, Dirty, GInv, TypeOK
    <3>3. pc'[p] \in {"log", "exec"} /\ clone'[p] = s1 /\ reply'[p] = "none" /\ arg'[p] = v
      BY ZenonT(40), <1>0, <1>2, <3>1 DEF StartUpdate, Goto, GInv, TypeOK
    <3>4. /\ s1.status = "Created" /\ s1.op = "Update" /\ s1.result = "None"
          /\ s1.val = s0.val /\ s1.arg = v
      BY SMT, <3>1, <3>2, Fields, ValFields
    <3>5. \A q \in Procs \ {p} : pc'[q] = pc[q] /\ arg'[q] = arg[q]
      BY <1>2 DEF StartUpdate, Goto, GInv, TypeOK
    <3>6. Legal \subseteq Legal'
      BY <1>0, <2>1, <3>1, <3>3, <3>5, LegalAfterStart DEF InOp
    <3>7. Persisted(s0)
      BY <3>1, <3>2 DEF StoreInv, MemoryIsPersisted, Dirty
    <3>8. mode[p] = "FF" => v = s0.val
      OBVIOUS
    <3> HIDE DEF s1, v
    <3>9. Writes(p)'
      BY <1>0, <2>1, <3>2, <3>3, <3>4, <3>7, <3>8 DEF Writes, Persisted, StorePcs
    <3>10. Fits(s1, Legal')
      BY <3>1, <3>2, <3>4, <3>6 DEF Fits, StoreInv, MemInv, Brings, Initial
    <3> QED
      BY <1>0, <2>1, <3>1, <3>2, <3>5, <3>6, <3>9, <3>10, GoOn
  <2> QED
    BY <2>2, <2>3
<1> QED
  BY <1>1, <1>2

\* start_destroy: the specification becomes Deleting, which its caller asked for or
\* which it already was.
LEMMA StartDestroyStore ==
    ASSUME GInv, StoreInv, NEW p \in Procs, StartDestroy(p)
    PROVE  StoreInv'
<1>0. /\ pc[p] = "guard" /\ guard[arc[p]] = NoTask
      /\ kind[p] = IF p = Poller THEN "gc" ELSE "destroy"
  BY DEF StartDestroy, CanStart
<1>1. CASE Reject(p)
  BY <1>0, <1>1, RejectStore
<1>2. CASE ~Reject(p)
  <2>1. TakeGuard(p) /\ UNCHANGED <<reg, pstor, base, kind, arg, mode, arc>>
    BY <1>2 DEF StartDestroy, Await
  <2>2. CASE orphaned'
    BY <2>2 DEF StoreInv, WritesInv, MemInv, RecordInv, MemoryIsPersisted
  <2>3. CASE ~orphaned'
    <3> DEFINE s0 == mem[reg]
               d == SetStatus(s0, "Deleting")
               s1 == StartOp(d, "Destroy", NoVal)
    <3>1. /\ ~orphaned /\ arc[p] = reg /\ Holds(p) /\ reg \in Arcs /\ s0 \in SpecRec
          /\ guard'[reg] = p /\ p # NoTask /\ ~InOp(p) /\ reg # NoArc
      BY <1>0, <2>1, <2>3, Entered
    <3>2. s0.op = "None" /\ reply'[p] = "none" /\ pc'[p] \in {"log", "exec"}
      BY <1>0, <1>2, <3>1 DEF StartDestroy, Dirty, Await, Goto, GInv, TypeOK
    <3>3. \A q \in Procs \ {p} : pc'[q] = pc[q]
      BY <1>2 DEF StartDestroy, Await, Goto, GInv, TypeOK
    <3>4. Legal \subseteq Legal' /\ (p \in Tasks => Gone \in Legal')
      <4>1. Legal \subseteq Legal' /\ (p \in Tasks => Outcome(p)' \in Legal')
        BY <1>0, <2>1, <3>1, <3>2, <3>3, LegalAfterStart DEF InOp
      <4>2. p \in Tasks => Outcome(p)' = Gone
        BY <1>0, <2>1, ConstAssumption DEF Outcome
      <4> QED
        BY <4>1, <4>2
    <3>5. CASE mem'[reg] = s0 /\ pc'[p] = "exec" /\ s0.status = "Deleted"
      <4>1. Writes(p)'
        BY <1>0, <2>1, <3>2, <3>5 DEF Writes, StorePcs
      <4>2. Fits(s0, Legal')
        BY <3>1, <3>2, <3>4 DEF Fits, StoreInv, MemInv
      <4> QED
        BY <1>0, <2>1, <3>1, <3>3, <3>4, <3>5, <4>1, <4>2, GoOn
    <3>6. CASE /\ mem'[reg] = s1 /\ pc'[p] = "log" /\ clone'[p] = s1
               /\ p = Poller => s0.status = "Deleting"
      <4>1. d \in SpecRec /\ d.status = "Deleting"
        BY <3>1, SpecOpsType, Fields DEF Status
      <4>2. s1.status = "Deleting" /\ s1.op = "Destroy" /\ s1.result = "None"
        BY SMT, <4>1, Fields
      <4> HIDE DEF s1, d
      <4>3. Writes(p)'
        BY <1>0, <2>1, <3>2, <3>6, <4>2 DEF Writes, StorePcs
      <4>4. Gone \in Legal'
        BY <3>1, <3>4, <3>6 DEF StoreInv, MemInv, Brings, Procs
      <4>5. Fits(s1, Legal')
        BY <4>2, <4>4 DEF Fits, Brings, Initial
      <4> QED
        BY <1>0, <2>1, <3>1, <3>3, <3>4, <3>6, <4>3, <4>5, GoOn
    <3>7. \/ mem'[reg] = s0 /\ pc'[p] = "exec" /\ s0.status = "Deleted"
          \/ /\ mem'[reg] = s1 /\ pc'[p] = "log" /\ clone'[p] = s1
             /\ p = Poller => s0.status = "Deleting"
      BY <1>2, <3>1 DEF StartDestroy, Await, Goto, Collectable, GInv, TypeOK
    <3> QED
      BY <3>5, <3>6, <3>7
  <2> QED
    BY <2>2, <2>3
<1> QED
  BY <1>1, <1>2

\* What is known of a task in an operation.
LEMMA Running ==
    ASSUME GInv, StoreInv, ~orphaned, NEW p \in Procs, InOp(p)
    PROVE  /\ Holds(p) /\ arc[p] = reg /\ reg \in Arcs /\ reg # NoArc
           /\ mem[reg] \in SpecRec /\ clone[p] \in SpecRec
           /\ guard[reg] = p /\ p # NoTask /\ pc[p] \in PcsOf(kind[p])
           /\ Writes(p) /\ Fits(mem[reg], Legal) /\ Durable \in Legal
           /\ p \in Tasks => Outcome(p) \in Legal
           /\ kind[p] \in {"create", "update", "destroy"} <=> p \in Tasks
<1>1. pc[p] # "idle" /\ arc[p] = reg /\ guard[arc[p]] = p /\ pc[p] \in PcsOf(kind[p])
  BY DEF GInv, GuardInv, RegInv, InOp
<1>2. arc[p] \in Arcs /\ mem[arc[p]] \in SpecRec /\ clone[p] \in SpecRec
  BY <1>1, ArcOf
<1>3. reg # NoArc /\ p # NoTask
  BY <1>1, <1>2, ConstAssumption
<1>4. Writes(p) /\ Fits(mem[reg], Legal) /\ Durable \in Legal
  BY <1>3 DEF StoreInv, WritesInv, MemInv, RecordInv, Fits
<1>5. p \in Tasks => Outcome(p) \in Legal
  BY DEF Legal
<1>6. kind[p] \in {"create", "update", "destroy"} <=> p \in Tasks
  BY DEF GInv, GuardInv, Procs
<1> QED
  BY <1>1, <1>2, <1>3, <1>4, <1>5, <1>6 DEF Holds

\* What a task commits is an outcome the replies allow.
LEMMA CommitLegal ==
    ASSUME GInv, StoreInv, ~orphaned, NEW p \in Procs, InOp(p), pc[p] = "commit"
    PROVE  /\ Brings(CommitOp(mem[reg])) \in Legal
           /\ p \in Tasks => Brings(CommitOp(mem[reg])) = Outcome(p)
           /\ mem[reg].op # "None" /\ CommitOp(mem[reg]).op = "None"
           /\ CommitOp(mem[reg]).status # "Creating"
<1> DEFINE s == mem[reg]
<1>1. /\ s \in SpecRec /\ Writes(p) /\ Fits(s, Legal) /\ pc[p] \in PcsOf(kind[p])
      /\ p \in Tasks => Outcome(p) \in Legal
      /\ kind[p] \in {"create", "update", "destroy"} <=> p \in Tasks
  BY Running
<1>2. s.op \in {"None", "Create", "Destroy", "Update"}
  BY <1>1 DEF SpecRec, Ops
<1>3. kind[p] \in {"create", "update", "destroy", "dirty", "gc"}
  BY DEF GInv, TypeOK
<1>4. kind[p] \in {"create", "update", "dirty"}
  BY <1>1, <1>3, PcsOfKind
<1>5. CASE kind[p] = "create"
  <2>1. s.op = "Create" /\ s.val = InitVal
    BY <1>1, <1>5 DEF Writes, Fits, Initial
  <2> QED
    BY <1>1, <1>5, <2>1, CommitBrings, CommitFields DEF Outcome
<1>6. CASE kind[p] = "update"
  <2>1. s.op = "Update" /\ s.status = "Created" /\ s.arg = arg[p]
    BY <1>1, <1>6 DEF Writes
  <2> QED
    BY <1>1, <1>6, <2>1, CommitBrings, CommitFields DEF Outcome
<1>7. CASE kind[p] = "dirty"
  <2>1. s.op # "None" /\ s.result = "True" /\ p \notin Tasks
    BY <1>1, <1>7 DEF Writes
  <2>2. s.status = "Creating" => s.op = "Create"
    BY <1>1, <2>1 DEF Fits, Initial
  <2> QED
    BY <1>1, <1>2, <2>1, <2>2, CommitFields DEF Fits
<1> QED
  BY <1>4, <1>5, <1>6, <1>7

\* What a task writes or deletes leaves the store with an outcome the replies allow.
LEMMA WriteLegal ==
    ASSUME GInv, StoreInv, ~orphaned, NEW p \in Procs, InOp(p), pc[p] \in StorePcs
    PROVE  IF Written(p) = NoRec THEN Gone \in Legal
           ELSE /\ Brings(Written(p)) \in Legal /\ Initial(Written(p))
                /\ Written(p).op # "None" => Written(p).result = "None"
<1> DEFINE s == mem[reg]
<1>1. /\ s \in SpecRec /\ Writes(p) /\ Fits(s, Legal) /\ pc[p] \in PcsOf(kind[p])
      /\ clone[p] \in SpecRec
  BY Running
<1>2. kind[p] \in {"create", "update", "destroy", "dirty", "gc"}
  BY DEF GInv, TypeOK
<1>3. CASE pc[p] \in {"purge", "delspec"}
  <2>1. Written(p) = NoRec
    BY <1>3 DEF Written
  <2>2. s.status # "Created"
    BY <1>1, <1>2, <1>3, PcsOfKind DEF Writes
  <2> QED
    BY <1>1, <2>1, <2>2 DEF Fits, Brings
<1>4. CASE pc[p] \notin {"purge", "delspec"}
  <2>1. Written(p) = clone[p] /\ clone[p] # NoRec
    BY <1>1, <1>4, NoRecAssumption DEF Written
  <2>2. CASE pc[p] \in {"log", "setdel"}
    BY <1>1, <2>1, <2>2 DEF Writes, Fits
  <2>3. CASE pc[p] = "undo"
    <3>1. /\ clone[p].status = s.status /\ clone[p].op = "None" /\ clone[p].val = s.val
      BY SMT, <1>1, <2>3, Fields, ValFields DEF Writes
    <3> QED
      BY <1>1, <2>1, <3>1 DEF Fits, Initial, Brings
  <2>4. CASE pc[p] = "commit"
    <3>1. clone[p] = CommitOp(s)
      BY <1>1, <2>4 DEF Writes
    <3>2. /\ Brings(CommitOp(s)) \in Legal
          /\ CommitOp(s).op = "None" /\ CommitOp(s).status # "Creating"
      BY <2>4, CommitLegal
    <3> QED
      BY <2>1, <3>1, <3>2 DEF Initial
  <2> QED
    BY <1>4, <2>2, <2>3, <2>4 DEF StorePcs
<1> QED
  BY <1>3, <1>4

\* A store call, applied or not.
LEMMA StoreStore ==
    ASSUME GInv, StoreInv, NEW p \in Procs, Store(p)
    PROVE  StoreInv'
<1>0. pc[p] \in StorePcs /\ InOp(p)
  BY DEF Store, StorePcs, InOp
<1>1. UNCHANGED <<reg, mem, guard, pc, kind, arc, arg, mode, clone, base, orphaned>>
  BY DEF Store, ghosts
<1>2. CASE orphaned
  BY <1>1, <1>2 DEF StoreInv, WritesInv, MemInv, RecordInv, MemoryIsPersisted
<1>3. CASE ~orphaned
  <2>1. /\ Holds(p) /\ reg # NoArc /\ guard[reg] # NoTask /\ Writes(p)
        /\ mem[reg] \in SpecRec /\ clone[p] \in SpecRec
    BY <1>0, <1>3, Running
  <2>2. Legal' = Legal
    BY <1>1 DEF Legal, InOp, Outcome
  <2>3. \/ pstor' = pstor /\ reply'[p] # "ok"
        \/ pstor' = Written(p)
    BY DEF Store, GInv, TypeOK
  <2>4. RecordInv'
    <3>1. CASE pstor' = pstor
      BY <1>1, <2>2, <3>1 DEF StoreInv, RecordInv, Durable
    <3>2. CASE pstor' = Written(p)
      BY <1>0, <1>1, <1>3, <2>1, <2>2, <3>2, WriteLegal DEF RecordInv, Durable
    <3> QED
      BY <2>3, <3>1, <3>2
  <2>5. MemInv' /\ MemoryIsPersisted'
    BY <1>1, <2>1, <2>2 DEF StoreInv, MemInv, MemoryIsPersisted
  <2>6. WritesInv'
    <3> SUFFICES ASSUME NEW q \in Procs, InOp(q)' PROVE Writes(q)'
      BY DEF WritesInv
    <3>1. q = p
      BY <1>1, <1>3, <2>1, Alone DEF InOp
    <3>2. Written(p)' = Written(p)
      BY <1>1 DEF Written
    <3>3. reply'[p] = "ok" => pstor' = Written(p)'
      BY <2>3, <3>2
    <3>4. pc[p] = "log" /\ kind[p] = "update" => Persisted(mem[reg])'
      <4>1. SUFFICES ASSUME pc[p] = "log", kind[p] = "update", pstor' = Written(p)
                     PROVE  Persisted(mem[reg])'
        BY <1>1, <2>1, <2>3 DEF Writes, Persisted
      <4>2. Written(p) = mem[reg] /\ mem[reg].status = "Created"
        BY <2>1, <4>1 DEF Writes, Written
      <4> QED
        BY <1>1, <2>1, <4>1, <4>2, NoRecAssumption DEF Persisted
    <3>5. pc[p] # "exec"
      BY <1>0 DEF StorePcs
    <3> QED
      BY <1>1, <2>1, <3>1, <3>3, <3>4, <3>5 DEF Writes
  <2> QED
    BY <2>4, <2>5, <2>6 DEF StoreInv
<1> QED
  BY <1>2, <1>3

-----------------------------------------------------------------------------
\* What a task does with the replies.

\* When an operation has gone wrong before, everything is allowed.
LEMMA Orphaned ==
    ASSUME orphaned'
    PROVE  StoreInv'
BY DEF StoreInv, WritesInv, MemInv, RecordInv, MemoryIsPersisted

\* More outcomes, a cleared operation or a noted result: the specification still fits.
LEMMA FitsStill ==
    ASSUME NEW s \in SpecRec, NEW L, NEW M, L \subseteq M, Fits(s, L)
    PROVE  /\ Fits(s, M) /\ Fits(ClearOp(s), M)
           /\ \A r \in {"True", "False"} :
                 (r = "True" => s.op = "None" \/ Brings(CommitOp(s)) \in L)
                     => Fits(SetOpResult(s, r), M)
<1>1. Fits(s, M)
  BY DEF Fits
<1>2. Fits(ClearOp(s), M)
  BY Fields, ValFields DEF Fits, Brings, Initial
<1>3. ASSUME NEW r \in {"True", "False"}, r = "True" => s.op = "None" \/ Brings(CommitOp(s)) \in L
      PROVE  Fits(SetOpResult(s, r), M)
  <2>1. /\ Brings(SetOpResult(s, r)) = Brings(s) /\ Initial(SetOpResult(s, r))
        /\ Brings(CommitOp(SetOpResult(s, r))) = Brings(CommitOp(s))
    BY ResultBrings DEF Fits
  <2>2. SetOpResult(s, r).op = s.op /\ SetOpResult(s, r).result \in {s.result, r}
    BY Fields
  <2> QED
    BY <1>3, <2>1, <2>2 DEF Fits
<1> QED
  BY <1>1, <1>2, <1>3

\* store_operation_log.
LEMMA LogReplyStore ==
    ASSUME GInv, StoreInv, NEW p \in Procs, LogReply(p)
    PROVE  StoreInv'
<1>0. pc[p] = "log" /\ InOp(p) /\ orphaned' = orphaned /\ pstor' = pstor
  BY DEF LogReply, InOp
<1> SUFFICES ASSUME ~orphaned PROVE StoreInv'
  BY <1>0, Orphaned
<1> DEFINE s == mem[reg]
<1>1. /\ Holds(p) /\ arc[p] = reg /\ reg \in Arcs /\ s \in SpecRec /\ guard[reg] = p /\ p # NoTask
      /\ Writes(p) /\ Fits(s, Legal) /\ Durable \in Legal /\ pc[p] \in PcsOf(kind[p])
  BY <1>0, Running
<1>2. CASE reply[p] = "ok"
  <2>1. /\ pc'[p] = "exec" /\ reply'[p] = "none" /\ \A q \in Procs \ {p} : pc'[q] = pc[q]
        /\ UNCHANGED <<reg, mem, guard, kind, arg, mode, clone, base>>
    BY <1>2 DEF LogReply, Goto, GInv, TypeOK
  <2>2. Legal \subseteq Legal'
    BY <1>0, <2>1, LegalGrows DEF InOp, Outcome, Procs
  <2>3. Writes(p)'
    BY <1>0, <1>1, <2>1 DEF Writes, Persisted, StorePcs
  <2>4. Fits(s, Legal')
    BY <1>1, <2>2, FitsStill
  <2> QED
    BY <1>0, <1>1, <2>1, <2>2, <2>3, <2>4, GoOn
<1>3. CASE reply[p] = "err" /\ kind[p] = "create"
  <2>1. /\ pc'[p] = "delspec" /\ reply'[p] = "none" /\ \A q \in Procs \ {p} : pc'[q] = pc[q]
        /\ UNCHANGED <<reg, guard, kind, arg, base>> /\ mem'[reg] = ClearOp(s)
    BY <1>1, <1>3 DEF LogReply, Await, Goto, Put, GInv, TypeOK
  <2>2. Legal \subseteq Legal'
    BY <1>0, <2>1, LegalGrows DEF InOp, Outcome, Procs
  <2>3. ClearOp(s).status = "Creating"
    BY <1>0, <1>1, <1>3, Fields DEF Writes
  <2>4. Writes(p)'
    BY <1>3, <2>1, <2>3 DEF Writes
  <2>5. Fits(ClearOp(s), Legal')
    BY <1>1, <2>2, FitsStill
  <2> QED
    BY <1>0, <1>1, <2>1, <2>2, <2>4, <2>5, GoOn
<1>4. CASE reply[p] = "err" /\ kind[p] # "create"
  <2>1. Finish(p, Put(p, ClearOp(s)), reg) /\ RepliedErr(p)
    BY <1>1, <1>4 DEF LogReply
  <2>2. Legal \subseteq Legal'
    BY <1>0, <2>1, LegalAfterErr
  <2>3. Put(p, ClearOp(s))[reg] = ClearOp(s)
    BY <1>1 DEF Put, GInv, TypeOK
  <2>4. Fits(ClearOp(s), Legal') /\ Durable \in Legal'
    BY <1>1, <2>2, FitsStill
  <2>5. ClearOp(s).status = "Created" => Persisted(ClearOp(s))
    <3>1. ClearOp(s).status = s.status /\ ClearOp(s).val = s.val
      BY <1>1, Fields, ValFields
    <3>2. kind[p] \in {"update", "destroy", "gc"}
      BY <1>0, <1>1, <1>4, PcsOfKind DEF GInv, TypeOK
    <3> QED
      BY <1>0, <1>1, <3>1, <3>2 DEF Writes, Persisted
  <2> QED
    BY <1>0, <1>1, <2>1, <2>3, <2>4, <2>5, LeaveStore
<1> QED
  BY <1>2, <1>3, <1>4 DEF LogReply

\* complete_create, complete_update and the reconciler's flush.
LEMMA CommitReplyStore ==
    ASSUME GInv, StoreInv, NEW p \in Procs, CommitReply(p)
    PROVE  StoreInv'
<1>0. pc[p] = "commit" /\ InOp(p) /\ orphaned' = orphaned /\ pstor' = pstor
  BY DEF CommitReply, InOp
<1> SUFFICES ASSUME ~orphaned PROVE StoreInv'
  BY <1>0, Orphaned
<1> DEFINE s == mem[reg]
<1>1. /\ Holds(p) /\ arc[p] = reg /\ reg \in Arcs /\ s \in SpecRec /\ clone[p] \in SpecRec
      /\ Writes(p) /\ Fits(s, Legal) /\ Durable \in Legal
  BY <1>0, Running
<1>2. /\ Brings(CommitOp(s)) \in Legal
      /\ p \in Tasks => Brings(CommitOp(s)) = Outcome(p)
      /\ s.op # "None" /\ CommitOp(s).op = "None" /\ CommitOp(s).status # "Creating"
  BY <1>0, CommitLegal
<1>3. CASE reply[p] = "ok"
  <2>1. Finish(p, Put(p, CommitOp(s)), reg) /\ RepliedOk(p)
    BY <1>1, <1>3 DEF CommitReply
  <2>2. Brings(CommitOp(s)) \in Legal'
    BY <1>0, <1>2, <2>1, LegalAfterOk
  <2>3. Put(p, CommitOp(s))[reg] = CommitOp(s)
    BY <1>1 DEF Put, GInv, TypeOK
  <2>4. pstor = CommitOp(s) /\ pstor # NoRec
    BY <1>0, <1>1, <1>3, NoRecAssumption DEF Writes, Written, StorePcs
  <2>5. Fits(CommitOp(s), Legal') /\ Durable \in Legal'
    BY <1>2, <2>2, <2>4 DEF Fits, Initial, Durable
  <2>6. CommitOp(s).status = "Created" => Persisted(CommitOp(s))
    BY <2>4 DEF Persisted
  <2> QED
    BY <1>0, <1>1, <2>1, <2>3, <2>5, <2>6, LeaveStore
<1>4. CASE reply[p] = "err"
  <2>1. Finish(p, Put(p, SetOpResult(s, "True")), reg) /\ RepliedErr(p)
    BY <1>1, <1>4 DEF CommitReply
  <2>2. Legal \subseteq Legal'
    BY <1>0, <2>1, LegalAfterErr
  <2>3. Put(p, SetOpResult(s, "True"))[reg] = SetOpResult(s, "True")
    BY <1>1 DEF Put, GInv, TypeOK
  <2>4. Fits(SetOpResult(s, "True"), Legal') /\ Durable \in Legal'
    BY <1>1, <1>2, <2>2, FitsStill
  <2>5. SetOpResult(s, "True").op # "None"
    <3>1. s \in SpecRec /\ s.op # "None"
      BY <1>1, <1>2
    <3> HIDE DEF s
    <3>2. SetOpResult(s, "True").op = s.op
      BY <3>1, Fields
    <3> QED
      BY <3>1, <3>2
  <2> QED
    BY <1>0, <1>1, <2>1, <2>3, <2>4, <2>5, LeaveStore
<1> QED
  BY <1>3, <1>4 DEF CommitReply

\* The log of a failed operation is removed.
LEMMA UndoReplyStore ==
    ASSUME GInv, StoreInv, NEW p \in Procs, UndoReply(p)
    PROVE  StoreInv'
<1>0. pc[p] = "undo" /\ InOp(p) /\ orphaned' = orphaned /\ pstor' = pstor
  BY DEF UndoReply, InOp
<1> SUFFICES ASSUME ~orphaned PROVE StoreInv'
  BY <1>0, Orphaned
<1> DEFINE s == mem[reg]
           n == AfterUndo(p, s)
<1>1. /\ Holds(p) /\ arc[p] = reg /\ reg \in Arcs /\ s \in SpecRec /\ clone[p] \in SpecRec
      /\ Writes(p) /\ Fits(s, Legal) /\ Durable \in Legal /\ pc[p] \in PcsOf(kind[p])
  BY <1>0, Running
<1>2. Finish(p, Put(p, n), reg) /\ RepliedErr(p)
  BY <1>1 DEF UndoReply
<1>3. Legal \subseteq Legal'
  BY <1>0, <1>2, LegalAfterErr
<1>4. Put(p, n)[reg] = n
  BY <1>1 DEF Put, GInv, TypeOK
<1>5. n \in {s, ClearOp(s), SetOpResult(s, "False")}
  BY DEF AfterUndo
<1>6. Fits(n, Legal') /\ Durable \in Legal'
  <2>1. Fits(s, Legal') /\ Fits(ClearOp(s), Legal') /\ Fits(SetOpResult(s, "False"), Legal')
    BY <1>1, <1>3, FitsStill
  <2> QED
    BY <1>1, <1>3, <1>5, <2>1
<1>7. n.status = "Created" /\ n.op = "None" => Persisted(n)
  <2>1. CASE reply[p] = "ok"
    <3>1. n = ClearOp(s) /\ pstor = ClearOp(s) /\ pstor # NoRec
      BY <1>0, <1>1, <2>1, NoRecAssumption DEF Writes, Written, StorePcs, AfterUndo
    <3> QED
      BY <3>1 DEF Persisted
  <2>2. CASE reply[p] # "ok"
    <3>1. n.status = s.status /\ n.op = s.op
      BY SMT, <1>1, <2>2, Fields DEF AfterUndo
    <3>2. kind[p] \in {"create", "update", "destroy", "gc", "dirty"}
      BY DEF GInv, TypeOK
    <3> QED
      BY <1>0, <1>1, <3>1, <3>2 DEF Writes
  <2> QED
    BY <2>1, <2>2
<1> HIDE DEF n
<1> QED
  BY <1>0, <1>1, <1>2, <1>4, <1>6, <1>7, LeaveStore

\* handle_create_failed after its write, whose result it ignores.
LEMMA SetDeletingReplyStore ==
    ASSUME GInv, StoreInv, NEW p \in Procs, SetDeletingReply(p)
    PROVE  StoreInv'
<1>0. /\ pc[p] = "setdel" /\ InOp(p) /\ orphaned' = orphaned /\ pstor' = pstor
      /\ Finish(p, mem, reg) /\ RepliedErr(p)
  BY DEF SetDeletingReply, InOp
<1> SUFFICES ASSUME ~orphaned PROVE StoreInv'
  BY <1>0, Orphaned
<1>1. /\ Holds(p) /\ arc[p] = reg /\ reg \in Arcs /\ mem[reg] \in SpecRec
      /\ Writes(p) /\ Fits(mem[reg], Legal) /\ Durable \in Legal /\ pc[p] \in PcsOf(kind[p])
  BY <1>0, Running
<1>2. Legal \subseteq Legal'
  BY <1>0, LegalAfterErr
<1>3. Fits(mem[reg], Legal') /\ Durable \in Legal'
  BY <1>1, <1>2, FitsStill
<1>4. mem[reg].status = "Deleting"
  <2>1. kind[p] = "create"
    BY <1>0, <1>1, PcsOfKind DEF GInv, TypeOK
  <2> QED
    BY <1>0, <1>1, <2>1 DEF Writes
<1> QED
  BY <1>0, <1>1, <1>3, <1>4, LeaveStore

\* complete_destroy: the record and the specification are gone, as asked.
LEMMA PurgeReplyStore ==
    ASSUME GInv, StoreInv, NEW p \in Procs, PurgeReply(p)
    PROVE  StoreInv'
<1>0. pc[p] = "purge" /\ InOp(p) /\ orphaned' = orphaned /\ pstor' = pstor
  BY DEF PurgeReply, InOp
<1> SUFFICES ASSUME ~orphaned PROVE StoreInv'
  BY <1>0, Orphaned
<1> DEFINE s == mem[reg]
<1>1. /\ Holds(p) /\ arc[p] = reg /\ reg \in Arcs /\ s \in SpecRec
      /\ Writes(p) /\ Fits(s, Legal) /\ Durable \in Legal /\ pc[p] \in PcsOf(kind[p])
      /\ kind[p] \in {"create", "update", "destroy"} <=> p \in Tasks
  BY <1>0, Running
<1>2. kind[p] \in {"destroy", "gc"}
  BY <1>0, <1>1, PcsOfKind DEF GInv, TypeOK
<1>3. s.status \in {"Deleting", "Deleted"} /\ s.op \in {"Destroy", "None"} /\ Gone \in Legal
  BY <1>1, <1>2 DEF Writes, Fits, Brings
<1>4. CASE reply[p] = "ok"
  <2>1. Finish(p, Put(p, CommitOp(s)), NoArc) /\ RepliedOk(p)
    BY <1>1, <1>4 DEF PurgeReply
  <2>2. p \in Tasks => Outcome(p) = Gone
    BY <1>1, <1>2, ConstAssumption DEF Outcome
  <2>3. Gone \in Legal'
    BY <1>0, <1>3, <2>1, <2>2, LegalAfterOk
  <2>4. pstor = NoRec
    BY <1>0, <1>1, <1>4 DEF Writes, Written, StorePcs
  <2> QED
    BY <1>0, <1>1, <2>1, <2>3, <2>4, RemoveStore
<1>5. CASE reply[p] = "err"
  <2>1. Finish(p, Put(p, SetOpResult(s, "True")), reg) /\ RepliedErr(p)
    BY <1>1, <1>5 DEF PurgeReply
  <2>2. Legal \subseteq Legal'
    BY <1>0, <2>1, LegalAfterErr
  <2>3. Put(p, SetOpResult(s, "True"))[reg] = SetOpResult(s, "True")
    BY <1>1 DEF Put, GInv, TypeOK
  <2>4. s.op = "None" \/ Brings(CommitOp(s)) \in Legal
    BY <1>1, <1>3, CommitBrings
  <2>5. Fits(SetOpResult(s, "True"), Legal') /\ Durable \in Legal'
    BY <1>1, <2>2, <2>4, FitsStill
  <2>6. SetOpResult(s, "True").status # "Created"
    BY SMT, <1>1, <1>3, Fields
  <2> QED
    BY <1>0, <1>1, <2>1, <2>3, <2>5, <2>6, LeaveStore
<1> QED
  BY <1>4, <1>5 DEF PurgeReply

\* delete_spec: only a resource that never was, or no longer is, loses its record.
LEMMA DeleteSpecReplyStore ==
    ASSUME GInv, StoreInv, NEW p \in Procs, DeleteSpecReply(p)
    PROVE  StoreInv'
<1>0. pc[p] = "delspec" /\ InOp(p) /\ orphaned' = orphaned /\ pstor' = pstor /\ RepliedErr(p)
  BY DEF DeleteSpecReply, InOp
<1> SUFFICES ASSUME ~orphaned PROVE StoreInv'
  BY <1>0, Orphaned
<1> DEFINE s == mem[reg]
<1>1. /\ Holds(p) /\ arc[p] = reg /\ reg \in Arcs /\ s \in SpecRec
      /\ Writes(p) /\ Fits(s, Legal) /\ Durable \in Legal /\ pc[p] \in PcsOf(kind[p])
  BY <1>0, Running
<1>2. kind[p] \in {"create", "dirty"}
  BY <1>0, <1>1, PcsOfKind DEF GInv, TypeOK
<1>3. s.status # "Created" /\ Gone \in Legal
  BY <1>0, <1>1, <1>2 DEF Writes, Fits, Brings
<1>4. Legal \subseteq Legal'
  BY <1>0, LegalAfterErr
<1>5. CASE reply[p] = "ok"
  <2>1. Finish(p, mem, NoArc)
    BY <1>5 DEF DeleteSpecReply
  <2>2. pstor = NoRec
    BY <1>0, <1>1, <1>5 DEF Writes, Written, StorePcs
  <2> QED
    BY <1>0, <1>1, <1>3, <1>4, <2>1, <2>2, RemoveStore
<1>6. CASE reply[p] = "err"
  <2>1. Finish(p, Put(p, SetOpResult(s, "False")), reg)
    BY <1>1, <1>6 DEF DeleteSpecReply
  <2>2. Put(p, SetOpResult(s, "False"))[reg] = SetOpResult(s, "False")
    BY <1>1 DEF Put, GInv, TypeOK
  <2>3. Fits(SetOpResult(s, "False"), Legal') /\ Durable \in Legal'
    BY <1>1, <1>4, FitsStill
  <2>4. SetOpResult(s, "False").status # "Created"
    BY SMT, <1>1, <1>3, Fields
  <2> QED
    BY <1>0, <1>1, <2>1, <2>2, <2>3, <2>4, LeaveStore
<1> QED
  BY <1>5, <1>6 DEF DeleteSpecReply

-----------------------------------------------------------------------------
\* The data-plane calls, the reconciler and the crash.

\* A create on the data plane, and the policies for its failure.
LEMMA ExecCreateStore ==
    ASSUME GInv, StoreInv, NEW p \in Tasks, ExecCreate(p)
    PROVE  StoreInv'
<1>0. /\ p \in Procs /\ pc[p] = "exec" /\ kind[p] = "create" /\ InOp(p)
      /\ UNCHANGED <<reg, guard, pstor, base, orphaned>>
  BY DEF ExecCreate, InOp, Procs, ghosts
<1> SUFFICES ASSUME ~orphaned PROVE StoreInv'
  BY <1>0, Orphaned
<1> DEFINE s == mem[reg]
           f == FailCreatingToDeleting(s)
<1>1. /\ Holds(p) /\ arc[p] = reg /\ reg \in Arcs /\ s \in SpecRec /\ guard[reg] = p /\ p # NoTask
      /\ Writes(p) /\ Fits(s, Legal)
  BY <1>0, Running
<1>2. s.status = "Creating" /\ s.op = "Create"
  BY <1>0, <1>1 DEF Writes
<1>4. PICK l, c : Await(p, l, c) /\ \/ mem' = mem /\ l = "commit" /\ c = CommitOp(s)
                                    \/ mem' = mem /\ l = "undo" /\ c = ClearOp(s)
                                    \/ mem' = mem /\ l = "delspec"
                                    \/ mem' = Put(p, f) /\ l = "setdel" /\ c = f
  BY <1>1 DEF ExecCreate, CreateFailed
<1>5. /\ pc'[p] = l /\ clone'[p] = c /\ reply'[p] = "none" /\ UNCHANGED <<kind, arg, mode>>
      /\ \A q \in Procs \ {p} : pc'[q] = pc[q]
  BY <1>0, <1>4 DEF Await, Goto, GInv, TypeOK
<1>6. Legal \subseteq Legal'
  BY <1>0, <1>4, <1>5, LegalGrows DEF InOp, Outcome, Procs
<1>7. CASE mem' = mem /\ l # "setdel"
  <2>1. Writes(p)'
    BY <1>0, <1>2, <1>4, <1>5, <1>7 DEF Writes
  <2>2. Fits(s, Legal')
    BY <1>1, <1>6, FitsStill
  <2> QED
    BY <1>0, <1>1, <1>5, <1>6, <1>7, <2>1, <2>2, GoOn
<1>8. CASE mem' = Put(p, f) /\ l = "setdel" /\ c = f
  <2>1. mem'[reg] = f
    BY <1>1, <1>8 DEF Put, GInv, TypeOK
  <2>2. f.status = "Deleting" /\ f.op = "None"
    BY <1>1, FailFields
  <2> HIDE DEF f
  <2>3. Writes(p)'
    BY <1>0, <1>5, <1>8, <2>1, <2>2 DEF Writes
  <2>4. Fits(f, Legal')
    BY <1>1, <1>2, <1>6, <2>2 DEF Fits, Brings, Initial
  <2> QED
    BY <1>0, <1>1, <1>5, <1>6, <2>1, <2>3, <2>4, GoOn
<1> QED
  BY <1>4, <1>7, <1>8

\* complete_update; without a log the specification keeps its value.
LEMMA ExecUpdateStore ==
    ASSUME GInv, StoreInv, NEW p \in Tasks, ExecUpdate(p)
    PROVE  StoreInv'
<1>0. /\ p \in Procs /\ pc[p] = "exec" /\ kind[p] = "update" /\ InOp(p)
      /\ UNCHANGED <<pstor, orphaned>>
  BY DEF ExecUpdate, InOp, Procs
<1> SUFFICES ASSUME ~orphaned PROVE StoreInv'
  BY <1>0, Orphaned
<1> DEFINE s == mem[reg]
<1>1. /\ Holds(p) /\ arc[p] = reg /\ reg \in Arcs /\ s \in SpecRec /\ guard[reg] = p /\ p # NoTask
      /\ Writes(p) /\ Fits(s, Legal) /\ Durable \in Legal
  BY <1>0, Running
<1>2. /\ s.status = "Created" /\ s.op = "Update" /\ s.arg = arg[p] /\ clone[p] = s
      /\ Persisted(s) /\ (mode[p] = "FF" => s.arg = s.val)
  BY <1>0, <1>1 DEF Writes
<1>3. CASE mode[p] # "FF"
  <2>1. PICK l, c : Await(p, l, c) /\ \/ l = "commit" /\ c = CommitOp(s)
                                      \/ l = "undo" /\ c = ClearOp(s)
    BY <1>2, <1>3 DEF ExecUpdate
  <2>2. UNCHANGED <<reg, mem, guard, base>>
    BY <1>3 DEF ExecUpdate
  <2>3. /\ pc'[p] = l /\ clone'[p] = c /\ reply'[p] = "none" /\ UNCHANGED <<kind, arg, mode>>
        /\ \A q \in Procs \ {p} : pc'[q] = pc[q]
    BY <1>0, <2>1 DEF Await, Goto, GInv, TypeOK
  <2>4. Legal \subseteq Legal'
    BY <1>0, <2>1, <2>2, <2>3, LegalGrows DEF InOp, Outcome, Procs
  <2>5. Writes(p)'
    BY <1>0, <1>2, <2>1, <2>2, <2>3 DEF Writes
  <2>6. Fits(s, Legal')
    BY <1>1, <2>4, FitsStill
  <2> QED
    BY <1>0, <1>1, <2>2, <2>3, <2>4, <2>5, <2>6, GoOn
<1>4. CASE mode[p] = "FF"
  <2>1. CASE Finish(p, Put(p, CommitOp(s)), reg) /\ RepliedOk(p)
    <3>1. CommitOp(s).op = "None" /\ CommitOp(s).status = "Created" /\ CommitOp(s).val = s.val
      BY <1>1, <1>2, <1>4, CommitFields, CommitVal
    <3>2. Outcome(p) = s.val
      BY <1>0, <1>2, <1>4 DEF Outcome
    <3>3. s.val \in Legal'
      BY <1>0, <2>1, <3>2, LegalAfterOk
    <3>4. Put(p, CommitOp(s))[reg] = CommitOp(s)
      BY <1>1 DEF Put, GInv, TypeOK
    <3>5. Fits(CommitOp(s), Legal') /\ Durable \in Legal' /\ Persisted(CommitOp(s))
      BY <1>2, <3>1, <3>3 DEF Fits, Initial, Brings, Durable, Persisted
    <3> QED
      BY <1>0, <1>1, <2>1, <3>4, <3>5, LeaveStore
  <2>2. CASE Finish(p, Put(p, ClearOp(s)), reg) /\ RepliedErr(p)
    <3>1. Legal \subseteq Legal'
      BY <1>0, <2>2, LegalAfterErr
    <3>2. Fits(ClearOp(s), Legal') /\ Durable \in Legal'
      BY <1>1, <3>1, FitsStill
    <3>3. Put(p, ClearOp(s))[reg] = ClearOp(s)
      BY <1>1 DEF Put, GInv, TypeOK
    <3>4. Persisted(ClearOp(s))
      BY <1>1, <1>2, ValFields DEF Persisted
    <3> QED
      BY <1>0, <1>1, <2>2, <3>2, <3>3, <3>4, LeaveStore
  <2> QED
    BY <1>1, <1>4, <2>1, <2>2 DEF ExecUpdate
<1> QED
  BY <1>3, <1>4

\* A destroy on the data plane.
LEMMA ExecDestroyStore ==
    ASSUME GInv, StoreInv, NEW p \in Procs, ExecDestroy(p)
    PROVE  StoreInv'
<1>0. /\ pc[p] = "exec" /\ kind[p] \in {"destroy", "gc"} /\ InOp(p)
      /\ UNCHANGED <<reg, mem, guard, pstor, base, orphaned>>
  BY DEF ExecDestroy, InOp, ghosts
<1> SUFFICES ASSUME ~orphaned PROVE StoreInv'
  BY <1>0, Orphaned
<1> DEFINE s == mem[reg]
<1>1. /\ Holds(p) /\ arc[p] = reg /\ reg \in Arcs /\ s \in SpecRec /\ guard[reg] = p /\ p # NoTask
      /\ Writes(p) /\ Fits(s, Legal)
  BY <1>0, Running
<1>2. PICK l, c : Await(p, l, c) /\ (l = "purge" \/ (l = "undo" /\ c = ClearOp(s)))
  BY <1>1 DEF ExecDestroy
<1>3. /\ pc'[p] = l /\ clone'[p] = c /\ reply'[p] = "none" /\ UNCHANGED <<kind, arg, mode>>
      /\ \A q \in Procs \ {p} : pc'[q] = pc[q]
  BY <1>0, <1>2 DEF Await, Goto, GInv, TypeOK
<1>4. Legal \subseteq Legal'
  BY <1>0, <1>2, <1>3, LegalGrows DEF InOp, Outcome, Procs
<1>5. Writes(p)'
  BY <1>0, <1>1, <1>2, <1>3 DEF Writes
<1>6. Fits(s, Legal')
  BY <1>1, <1>4, FitsStill
<1> QED
  BY <1>0, <1>1, <1>3, <1>4, <1>5, <1>6, GoOn

\* The reconciler gives up a create that never finished.
LEMMA GiveUpStore ==
    ASSUME GInv, StoreInv, CanStart(Poller, "dirty"), mem[arc[Poller]].status = "Creating",
           Finish(Poller, Put(Poller, SetStatus(mem[arc[Poller]], "Deleting")), reg),
           UNCHANGED <<pstor, ghosts>>
    PROVE  StoreInv'
<1>0. /\ Poller \in Procs /\ Poller \notin Tasks /\ pc[Poller] = "guard"
      /\ guard[arc[Poller]] = NoTask /\ UNCHANGED <<base, orphaned, reg>>
  BY ConstAssumption DEF CanStart, Procs, ghosts, Finish
<1>1. /\ ~InOp(Poller) /\ ~InOp(Poller)'
      /\ \A q \in Procs \ {Poller} : /\ pc'[q] = pc[q] /\ kind'[q] = kind[q]
                                     /\ clone'[q] = clone[q] /\ reply'[q] = reply[q]
                                     /\ arg'[q] = arg[q] /\ mode'[q] = mode[q]
  BY <1>0 DEF Finish, InOp, GInv, TypeOK
<1>2. arc[Poller] \in Arcs /\ mem[arc[Poller]] \in SpecRec
  BY <1>0, ArcOf
<1>3. CASE arc[Poller] # reg
  <2>1. \A q \in Procs : InOp(q)' <=> InOp(q)
    BY <1>1 DEF InOp
  <2>2. reg # NoArc => mem'[reg] = mem[reg] /\ guard'[reg] = guard[reg]
    BY <1>0, <1>3 DEF Finish, Put, GInv, TypeOK
  <2> QED
    BY <1>0, <1>1, <2>1, <2>2, QuietStore
<1>4. CASE arc[Poller] = reg /\ ~orphaned
  <2> DEFINE s == mem[reg]
             d == SetStatus(s, "Deleting")
  <2>1. Legal \subseteq Legal'
    BY <1>0, <1>1, LegalGrows DEF InOp, Outcome, Procs
  <2>2. /\ d \in SpecRec /\ d.status = "Deleting" /\ d.op = s.op /\ d.result = s.result
        /\ d.val = s.val
    <3>1. s \in SpecRec
      BY <1>2, <1>4
    <3>2. d \in SpecRec
      BY <3>1, SpecOpsType DEF Status
    <3> QED
      BY SMT, <3>1, <3>2, Fields, ValFields
  <2>3. reg \in Arcs /\ reg # NoArc /\ s \in SpecRec /\ Holds(Poller)
    BY <1>0, <1>2, <1>4, ConstAssumption DEF Holds
  <2>4. Fits(s, Legal) /\ Durable \in Legal
    BY <1>4, <2>3 DEF StoreInv, MemInv, RecordInv, Fits
  <2>5. s.op \in {"None", "Create"} /\ s.val = InitVal /\ Gone \in Legal
    BY <1>4, <2>4 DEF Fits, Initial, Brings
  <2>6. Put(Poller, d)[reg] = d
    BY <1>2, <1>4 DEF Put, GInv, TypeOK
  <2> HIDE DEF d
  <2>7. s.op = "Create" => Brings(CommitOp(d)) = Brings(CommitOp(s))
    BY <2>2, <2>3, CommitBrings
  <2>8. Fits(d, Legal')
    BY <2>1, <2>2, <2>4, <2>5, <2>7 DEF Fits, Brings, Initial
  <2> QED
    BY <1>0, <1>4, <2>1, <2>2, <2>3, <2>4, <2>6, <2>8, LeaveStore DEF d
<1> QED
  BY <1>0, <1>3, <1>4, Orphaned

\* handle_incomplete_ops: the reconciler commits what is known to have succeeded, and
\* removes the log of the rest.
LEMMA DirtyStore ==
    ASSUME GInv, StoreInv, HandleIncompleteOps
    PROVE  StoreInv'
<1> DEFINE a == arc[Poller]
<1>0. /\ Poller \in Procs /\ Poller \notin Tasks /\ pc[Poller] = "guard"
      /\ guard[a] = NoTask /\ kind[Poller] = "dirty"
  BY ConstAssumption DEF HandleIncompleteOps, CanStart, Procs
<1>1. CASE Reject(Poller)
  BY <1>0, <1>1, RejectStore
<1>2. CASE /\ mem[a].status = "Creating"
           /\ Finish(Poller, Put(Poller, SetStatus(mem[a], "Deleting")), reg)
           /\ UNCHANGED <<pstor, ghosts>>
  BY <1>2, GiveUpStore DEF HandleIncompleteOps
<1>3. CASE /\ TakeGuard(Poller) /\ UNCHANGED <<reg, mem, pstor, base>>
           /\ \E l, c : /\ Await(Poller, l, c)
                        /\ \/ l = "commit" /\ c = CommitOp(mem[a]) /\ mem[a].op # "None"
                              /\ mem[a].result = "True"
                           \/ l = "undo" /\ c = ClearOp(mem[a]) /\ mem[a].op # "None"
                           \/ l = "delspec" /\ mem[a].status = "Deleted"
  <2> SUFFICES ASSUME ~orphaned' PROVE StoreInv'
    BY Orphaned
  <2> DEFINE s == mem[reg]
  <2>1. /\ ~orphaned /\ a = reg /\ Holds(Poller) /\ reg \in Arcs /\ s \in SpecRec
        /\ guard'[reg] = Poller /\ Poller # NoTask /\ ~InOp(Poller) /\ reg # NoArc
    BY <1>0, <1>3, Entered
  <2>2. PICK l, c : /\ Await(Poller, l, c)
                    /\ \/ l = "commit" /\ c = CommitOp(s) /\ s.op # "None" /\ s.result = "True"
                       \/ l = "undo" /\ c = ClearOp(s) /\ s.op # "None"
                       \/ l = "delspec" /\ s.status = "Deleted"
    BY <1>3, <2>1
  <2>3. /\ pc'[Poller] = l /\ clone'[Poller] = c /\ reply'[Poller] = "none"
        /\ UNCHANGED <<kind, arg, mode>> /\ \A q \in Procs \ {Poller} : pc'[q] = pc[q]
    BY <1>0, <2>2 DEF Await, Goto, GInv, TypeOK
  <2>4. Legal \subseteq Legal'
    BY <1>0, <1>3, <2>3, LegalGrows DEF InOp, Outcome, Procs
  <2>5. Writes(Poller)'
    BY <1>0, <1>3, <2>2, <2>3 DEF Writes
  <2>6. Fits(s, Legal')
    BY <2>1, <2>4 DEF StoreInv, MemInv, Fits
  <2> QED
    BY <1>0, <1>3, <2>1, <2>3, <2>4, <2>5, <2>6, GoOn
<1> QED
  BY <1>1, <1>2, <1>3 DEF HandleIncompleteOps, Dirty

\* A crash: the agent comes back with what the store holds.
LEMMA CrashStore ==
    ASSUME GInv, StoreInv, Crash
    PROVE  StoreInv'
<1>0. pstor' = pstor /\ orphaned' = orphaned
  BY DEF Crash
<1> SUFFICES ASSUME ~orphaned PROVE StoreInv'
  BY <1>0, Orphaned
<1>1. \A p \in Procs : ~InOp(p)'
  BY DEF Crash, InOp
<1>2. Legal \subseteq Legal'
  BY DEF Crash, Legal, InOp
<1>3. WritesInv'
  BY <1>1 DEF WritesInv
<1>4. \/ pstor = NoRec /\ reg' = NoArc
      \/ pstor # NoRec /\ reg' \in Arcs /\ mem'[reg'] = pstor
  BY DEF Crash
<1>5. Durable \in Legal' /\ (pstor # NoRec => Initial(pstor) /\ (pstor.op # "None" => pstor.result = "None"))
  BY <1>2 DEF StoreInv, RecordInv
<1>6. RecordInv'
  BY <1>0, <1>4, <1>5, ConstAssumption DEF RecordInv, Durable
<1>7. MemInv'
  BY <1>4, <1>5 DEF MemInv, Durable
<1>8. MemoryIsPersisted'
  BY <1>0, <1>4 DEF MemoryIsPersisted, Persisted
<1> QED
  BY <1>3, <1>6, <1>7, <1>8 DEF StoreInv

\* Every step keeps the inductive invariant.
LEMMA NextSInv == SInv /\ [Next]_vars => SInv'
<1> SUFFICES ASSUME GInv, StoreInv, [Next]_vars PROVE SInv'
  BY DEF SInv
<1>0. GInv'
  BY NextGInv
<1> SUFFICES StoreInv'
  BY <1>0 DEF SInv
<1>1. ASSUME NEW t \in Tasks, Request(t) PROVE StoreInv'
  BY <1>1, RequestStore
<1>2. ASSUME NEW t \in Tasks, TaskStep(t) PROVE StoreInv'
  BY <1>2, StartCreateStore, StartUpdateStore, ExecCreateStore, ExecUpdateStore DEF TaskStep
<1>3. ASSUME NEW p \in Procs, ProcStep(p) PROVE StoreInv'
  <2>1. CASE Conflict(p)
    BY <2>1, RejectStore DEF Conflict, Reject
  <2>2. CASE StartDestroy(p) \/ ExecDestroy(p) \/ Store(p)
    BY <2>2, StartDestroyStore, ExecDestroyStore, StoreStore
  <2>3. CASE LogReply(p) \/ CommitReply(p) \/ UndoReply(p)
    BY <2>3, LogReplyStore, CommitReplyStore, UndoReplyStore
  <2>4. CASE SetDeletingReply(p) \/ PurgeReply(p) \/ DeleteSpecReply(p)
    BY <2>4, SetDeletingReplyStore, PurgeReplyStore, DeleteSpecReplyStore
  <2> QED
    BY <1>3, <2>1, <2>2, <2>3, <2>4 DEF ProcStep
<1>4. CASE Poll
  BY <1>4, PollStore
<1>5. CASE HandleIncompleteOps
  BY <1>5, DirtyStore
<1>6. CASE Crash
  BY <1>6, CrashStore
<1>7. CASE UNCHANGED vars
  <2>1. UNCHANGED <<reg, mem, guard, pstor, pc, kind, clone, reply, arg, mode, orphaned, base>>
    BY <1>7 DEF vars, task, ghosts
  <2> QED
    BY <2>1, QuietStore DEF InOp
<1> QED
  BY <1>1, <1>2, <1>3, <1>4, <1>5, <1>6, <1>7 DEF Next

\* The store, memory and the replies agree at every moment, whatever write fails, applied
\* or not, whatever the reconcilers repair and whenever the agent restarts: an acknowledged
\* request is durable, a clean Created specification is persisted with its value, and no
\* record is without a registered specification (store_obj, complete_*, delete_spec).
THEOREM StoreHolds == Spec => []StoreIsTrue
<1>1. Init => SInv
  <2>1. Init => WritesInv /\ MemInv /\ MemoryIsPersisted
    BY DEF Init, WritesInv, MemInv, MemoryIsPersisted, InOp
  <2>2. Init => RecordInv
    BY DEF Init, RecordInv, Durable, Legal
  <2> QED
    BY <2>1, <2>2, InitGInv DEF SInv, StoreInv
<1>2. SInv /\ [Next]_vars => SInv'
  BY NextSInv
<1>3. SInv => StoreIsTrue
  BY DEF SInv, StoreInv, RecordInv, StoreIsTrue, AckedIsDurable, RecordIsRegistered
<1> QED
  BY <1>1, <1>2, <1>3, PTL DEF Spec

-----------------------------------------------------------------------------
(* The stored record follows the life of a resource                        *)

\* What a stored record w shows.
LifeOf(w) == IF w # NoRec /\ w.status # "Deleted" THEN w.status ELSE "absent"

\* The life is one of the statuses, or none at all.
LEMMA LifeIs ==
    ASSUME TypeOK
    PROVE  /\ Life = LifeOf(pstor)
           /\ Life \in {"absent", "Creating", "Created", "Deleting"}
           /\ Life = "Created" => pstor.val \in Vals
BY DEF Life, LifeOf, Stored, TypeOK, SpecRec, Status

\* A step that leaves the specification, the store and the running operations alone.
LEMMA QuietLife ==
    ASSUME GInv, LifeInv, UNCHANGED <<reg, pstor, orphaned>>,
           reg # NoArc => /\ mem'[reg] = mem[reg]
                          /\ guard'[reg] = NoTask => guard[reg] = NoTask,
           \A q \in Procs : InOp(q)' => InOp(q) /\ pc'[q] = pc[q] /\ kind'[q] = kind[q]
    PROVE  LifeInv'
<1> SUFFICES ASSUME ~orphaned PROVE LifeInv'
  BY DEF LifeInv
<1>1. Life' = Life /\ Begun' = Begun
  BY DEF Life, Stored, Begun
<1>2. reg' # NoArc' => LifeMem(mem[reg])'
  BY <1>1 DEF LifeInv, LifeMem, OpFits
<1>3. ASSUME NEW q \in Procs, InOp(q)' PROVE LifeStage(q)'
  <2>1. InOp(q) /\ LifeStage(q) /\ pc'[q] = pc[q] /\ kind'[q] = kind[q]
    BY <1>3 DEF LifeInv
  <2>2. reg # NoArc
    BY SMT, <2>1, ConstAssumption DEF GInv, RegInv, GuardInv, InOp
  <2> QED
    BY <1>1, <2>1, <2>2 DEF LifeStage
<1> QED
  BY <1>2, <1>3 DEF LifeInv, OpFits

\* A step of the task which holds the specification, that leaves the store alone.
LEMMA OwnLife ==
    ASSUME GInv, LifeInv, ~orphaned, NEW p \in Procs, Holds(p), UNCHANGED <<pstor, orphaned>>,
           \A q \in Procs \ {p} : pc'[q] = pc[q],
           reg' # NoArc => LifeMem(mem[reg])',
           InOp(p)' => LifeStage(p)'
    PROVE  LifeInv'
<1>1. ASSUME NEW q \in Procs, InOp(q)' PROVE LifeStage(q)'
  <2>1. q # p => ~InOp(q)
    BY Alone
  <2> QED
    BY <1>1, <2>1 DEF InOp
<1> QED
  BY <1>1 DEF LifeInv, OpFits

\* A task that returns, with specification m[reg] behind the Arc.
LEMMA LeaveLife ==
    ASSUME GInv, LifeInv, ~orphaned, NEW p \in Procs, Holds(p), NEW m, NEW r, Finish(p, m, r),
           UNCHANGED <<pstor, orphaned>>,
           r # NoArc => r = reg /\ reg \in Arcs
                        /\ LifeMem(m[reg])
                        /\ (m[reg].status = "Creating" /\ ~(m[reg].op = "Create" /\ m[reg].result = "True")
                               => Life \in {"absent", "Creating"})
    PROVE  LifeInv'
<1>1. /\ pc'[p] = "idle" /\ reg' = r /\ \A q \in Procs \ {p} : pc'[q] = pc[q]
  BY DEF Finish, GInv, TypeOK
<1>2. Life' = Life /\ Begun' = Begun
  BY DEF Life, Stored, Begun
<1>3. r # NoArc => mem'[reg] = m[reg]
  BY DEF Finish
<1>4. r # NoArc => LifeMem(mem[reg])'
  BY <1>1, <1>2, <1>3 DEF LifeMem, OpFits
<1> QED
  BY <1>1, <1>4, OwnLife DEF InOp

-----------------------------------------------------------------------------
\* A write to the store.

\* Where a write takes the record: a step of its life, or none.
LEMMA WriteMoves ==
    ASSUME SInv, LifeInv, ~orphaned, NEW p \in Procs, InOp(p), pc[p] \in StorePcs
    PROVE  LET w == Written(p)
               l == LifeOf(w)
               s == mem[reg]
           IN /\ \/ l = Life /\ (Life = "Created" => w.val = pstor.val)
                 \/ Life = "absent" /\ l = "Creating"
                 \/ Life = "Creating" /\ l = "Created" /\ w.val = InitVal
                 \/ Life = "Created" /\ l = "Created" /\ w.val \in Vals
                 \/ l = "Deleting"
                 \/ Life \in {"Creating", "Deleting"} /\ l = "absent"
              /\ w # NoRec => OpFits(w)
              /\ kind[p] = "create" =>
                    /\ pc[p] \in {"log", "undo"} => l = "Creating"
                    /\ pc[p] = "commit" => l = "Created" /\ w.val = InitVal
                    /\ pc[p] = "delspec" => l = "absent"
              /\ pc[p] = "purge" => l = "absent"
              /\ pc[p] = "undo" /\ s.status = "Creating" => l = "Creating"
              /\ s.status = "Created" => l = "Created"
              /\ s.status = "Deleted" => l = "absent"
              /\ s.op = "Create" /\ s.result = "True" => l = "Created" /\ w.val = InitVal
              /\ s.op = "Destroy" /\ s.result = "True" => l \in {"absent", "Deleting"}
<1> DEFINE s == mem[reg]
           w == Written(p)
           l == LifeOf(w)
<1>1. /\ s \in SpecRec /\ clone[p] \in SpecRec /\ reg # NoArc
      /\ Writes(p) /\ Fits(s, Legal) /\ pc[p] \in PcsOf(kind[p])
  BY Running DEF SInv
<1>2. LifeStage(p) /\ LifeMem(s) /\ kind[p] \in {"create", "update", "destroy", "dirty", "gc"}
  BY <1>1 DEF LifeInv, SInv, GInv, TypeOK
<1>3. s.op \in {"None", "Create", "Destroy", "Update"} /\ s.val \in Vals
      /\ s.status \in {"Creating", "Created", "Deleting", "Deleted"}
      /\ (s.op = "Update" => s.arg \in Vals)
  BY <1>1 DEF SpecRec, Ops, Status
<1>4. /\ Life \in {"absent", "Creating", "Created", "Deleting"}
      /\ Life = "Created" => pstor.val \in Vals
  BY LifeIs DEF SInv, GInv
<1>5. Initial(s)
  BY <1>1 DEF Fits
<1>6. CASE pc[p] \in {"purge", "delspec"}
  <2>1. l = "absent" /\ w = NoRec
    BY <1>6 DEF LifeOf, Written
  <2>2. CASE pc[p] = "purge"
    <3>1. kind[p] \in {"destroy", "gc"}
      BY <1>1, <1>2, <2>2, PcsOfKind
    <3>2. s.status \in {"Deleting", "Deleted"} /\ s.op \in {"Destroy", "None"}
          /\ Life \in {"absent", "Deleting"}
      BY <1>1, <1>2, <2>2, <3>1 DEF Writes, LifeStage
    <3> HIDE DEF l, w
    <3> QED
      BY <2>1, <2>2, <3>1, <3>2 DEF l, w
  <2>3. CASE pc[p] = "delspec" /\ kind[p] = "create"
    <3>1. s.status = "Creating" /\ s.result # "True" /\ Life \in {"absent", "Creating"}
      BY <1>1, <1>2, <2>3 DEF Writes, LifeStage
    <3> QED
      BY <2>1, <2>3, <3>1
  <2>4. CASE pc[p] = "delspec" /\ kind[p] = "dirty"
    <3>1. s.status = "Deleted" /\ s.op = "None" /\ Life = "absent"
      BY <1>1, <1>2, <2>4 DEF Writes, LifeMem, OpFits
    <3> QED
      BY <2>1, <2>4, <3>1
  <2> QED
    BY <1>1, <1>2, <1>6, <2>2, <2>3, <2>4, PcsOfKind
<1>7. CASE pc[p] \in {"log", "setdel", "undo", "commit"}
  <2>1. w = clone[p] /\ w # NoRec /\ w \in SpecRec
    BY <1>1, <1>7, NoRecAssumption DEF Written
  <2>2. l = IF w.status # "Deleted" THEN w.status ELSE "absent"
    BY <2>1 DEF LifeOf
  <2> HIDE DEF l, w
  <2>3. CASE pc[p] = "log"
    <3>1. w = s /\ s.result = "None" /\ OpFits(s)
      BY <1>1, <1>2, <2>1, <2>3 DEF Writes, LifeMem
    <3>2. kind[p] \in {"create", "update", "destroy", "gc"}
      BY <1>1, <1>2, <2>3, PcsOfKind
    <3>3. CASE kind[p] = "create"
      <4>1. s.status = "Creating" /\ Life \in {"absent", "Creating"}
        BY <1>1, <1>2, <2>3, <3>3 DEF Writes, LifeStage
      <4> QED
        BY <2>2, <2>3, <3>1, <3>3, <4>1 DEF l, w
    <3>4. CASE kind[p] = "update"
      <4>1. s.status = "Created" /\ Persisted(s) /\ Life = "Created"
        BY <1>1, <1>2, <2>3, <3>4 DEF Writes, LifeMem
      <4> QED
        BY <2>2, <2>3, <3>1, <3>4, <4>1 DEF Persisted, l, w
    <3>5. CASE kind[p] \in {"destroy", "gc"}
      <4>1. s.status \in {"Deleting", "Deleted"} /\ (s.status = "Deleted" => Life = "absent")
        BY <1>1, <1>2, <3>5 DEF Writes, LifeMem
      <4> QED
        BY <2>2, <2>3, <3>1, <3>5, <4>1 DEF l, w
    <3> QED
      BY <3>2, <3>3, <3>4, <3>5
  <2>4. CASE pc[p] = "setdel"
    <3>1. kind[p] = "create"
      BY <1>1, <1>2, <2>4, PcsOfKind
    <3>2. w = s /\ s.status = "Deleting" /\ s.op = "None"
      BY <1>1, <2>1, <2>4, <3>1 DEF Writes
    <3> QED
      BY <2>2, <2>4, <3>1, <3>2 DEF OpFits, l, w
  <2>5. CASE pc[p] = "undo"
    <3>1. w.status = s.status /\ w.op = "None" /\ w.val = s.val
      BY SMT, <1>1, <2>1, <2>5, Fields, ValFields DEF Writes
    <3>2. kind[p] \in {"create", "update", "destroy", "dirty", "gc"}
      BY <1>2
    <3>3. /\ s.status = "Creating" => Life \in {"absent", "Creating"}
          /\ s.status = "Created" => Life = "Created"
          /\ s.status = "Deleted" => Life = "absent"
          /\ kind[p] = "create" => s.status = "Creating"
      BY <1>1, <1>2, <2>5, <3>2 DEF Writes, LifeStage, LifeMem
    <3>4. ~(s.op = "Create" /\ s.result = "True")
      BY <1>1, <1>2, <2>5, <3>2 DEF Writes, LifeStage
    <3>5. s.op = "Destroy" => s.status \in {"Deleting", "Deleted"}
      BY <1>2, <1>3, <1>5 DEF LifeMem, OpFits, Initial
    <3> QED
      BY <1>3, <2>2, <2>5, <3>1, <3>3, <3>4, <3>5 DEF OpFits, l, w
  <2>6. CASE pc[p] = "commit"
    <3>1. w = CommitOp(s)
      BY <1>1, <2>1, <2>6 DEF Writes
    <3>2. kind[p] \in {"create", "update", "dirty"}
      BY <1>1, <1>2, <2>6, PcsOfKind
    <3>3. s.op # "None" /\ w.op = "None"
      BY <2>6, <3>1, CommitLegal DEF SInv
    <3>4. CASE s.op = "Create"
      <4>1. w.status = "Created" /\ w.val = s.val
        BY <1>1, <3>1, <3>4, CommitFields, CommitVal
      <4>2. s.val = InitVal /\ s.status \notin {"Created", "Deleted"} /\ Begun
        BY <1>1, <1>2, <1>5, <2>6, <3>2, <3>4 DEF Initial, Writes, LifeStage, LifeMem, OpFits
      <4>3. s.status = "Created" \/ s.op = "Create"
        BY <3>4
      <4> QED
        BY <2>2, <2>6, <3>3, <3>4, <4>1, <4>2 DEF OpFits, Begun, l, w
    <3>5. CASE s.op = "Update"
      <4>1. s.status = "Created" /\ Life = "Created" /\ kind[p] # "create"
        BY <1>1, <1>2, <2>6, <3>5 DEF LifeMem, OpFits, Writes
      <4>2. w.status = "Created" /\ w.val = s.arg
        BY <1>1, <3>1, <3>5, <4>1, CommitFields, CommitVal
      <4> QED
        BY <1>3, <2>2, <2>6, <3>3, <3>5, <4>1, <4>2 DEF OpFits, l, w
    <3>6. CASE s.op = "Destroy"
      <4>1. s.result = "True" /\ kind[p] = "dirty"
        BY <1>1, <2>6, <3>2, <3>6 DEF Writes
      <4>2. Life \in {"absent", "Deleting"} /\ s.status \notin {"Created"}
        BY <1>2, <3>6, <4>1 DEF LifeMem, OpFits
      <4>3. w.status = "Deleted"
        BY <1>1, <3>1, <3>6, CommitFields
      <4> QED
        BY <2>2, <2>6, <3>3, <3>6, <4>1, <4>2, <4>3 DEF OpFits, l, w
    <3> QED
      BY <1>3, <3>3, <3>4, <3>5, <3>6
  <2> QED
    BY <1>7, <2>3, <2>4, <2>5, <2>6
<1> QED
  BY <1>6, <1>7 DEF StorePcs

\* A store call, applied or not, keeps LifeInv and is a step of the life or none.
LEMMA StoreLife ==
    ASSUME SInv, LifeInv, ~orphaned, NEW p \in Procs, Store(p)
    PROVE  LifeInv' /\ (Lifecycle!Next \/ UNCHANGED Lifecycle!vars)
<1>0. pc[p] \in StorePcs /\ InOp(p)
  BY DEF Store, StorePcs, InOp
<1>1. UNCHANGED <<reg, mem, guard, pc, kind, arc, clone, orphaned>>
  BY DEF Store, ghosts
<1>2. CASE pstor' = pstor
  <2>1. LifeInv'
    BY <1>1, <1>2, QuietLife DEF SInv, InOp
  <2> QED
    BY <1>1, <1>2, <2>1 DEF Lifecycle!vars, Life, Stored
<1>3. CASE pstor' = Written(p)
  <2> DEFINE s == mem[reg]
             w == Written(p)
             l == LifeOf(w)
  <2>1. /\ \/ l = Life /\ (Life = "Created" => w.val = pstor.val)
           \/ Life = "absent" /\ l = "Creating"
           \/ Life = "Creating" /\ l = "Created" /\ w.val = InitVal
           \/ Life = "Created" /\ l = "Created" /\ w.val \in Vals
           \/ l = "Deleting"
           \/ Life \in {"Creating", "Deleting"} /\ l = "absent"
        /\ w # NoRec => OpFits(w)
        /\ kind[p] = "create" =>
              /\ pc[p] \in {"log", "undo"} => l = "Creating"
              /\ pc[p] = "commit" => l = "Created" /\ w.val = InitVal
              /\ pc[p] = "delspec" => l = "absent"
        /\ pc[p] = "purge" => l = "absent"
        /\ pc[p] = "undo" /\ s.status = "Creating" => l = "Creating"
        /\ s.status = "Created" => l = "Created"
        /\ s.status = "Deleted" => l = "absent"
        /\ s.op = "Create" /\ s.result = "True" => l = "Created" /\ w.val = InitVal
        /\ s.op = "Destroy" /\ s.result = "True" => l \in {"absent", "Deleting"}
    BY <1>0, WriteMoves
  <2>2. Life' = l /\ pstor' = w
    BY <1>3 DEF Life, Stored, LifeOf
  <2>3. /\ Holds(p) /\ guard[reg] # NoTask /\ reg # NoArc /\ p # NoTask
        /\ LifeStage(p) /\ LifeMem(s)
    BY <1>0, Running DEF SInv, LifeInv
  <2>4. Life \in {"absent", "Creating", "Created", "Deleting"}
    BY LifeIs DEF SInv, GInv
  <2> HIDE DEF l, w
  <2>5. LifeMem(mem[reg])'
    BY <1>1, <2>1, <2>2, <2>3 DEF LifeMem, Begun
  <2>6. LifeStage(p)'
    BY <1>0, <1>1, <2>1, <2>2, <2>3 DEF LifeStage, Begun, StorePcs
  <2>7. LifeInv'
    <3>1. ASSUME NEW q \in Procs, InOp(q)' PROVE LifeStage(q)'
      <4>1. q # p => ~InOp(q)
        BY <2>3, Alone DEF SInv
      <4> QED
        BY <1>1, <2>6, <3>1, <4>1 DEF InOp
    <3>2. pstor' # NoRec => OpFits(pstor)'
      BY <2>1, <2>2 DEF OpFits
    <3> QED
      BY <2>5, <3>1, <3>2 DEF LifeInv
  <2>8. Lifecycle!Next \/ UNCHANGED Lifecycle!vars
    BY <1>1, <2>1, <2>2, <2>4
    DEF Lifecycle!Next, Lifecycle!vars, Lifecycle!Announce, Lifecycle!Establish,
        Lifecycle!Update, Lifecycle!Condemn, Lifecycle!Delete
  <2> QED
    BY <2>7, <2>8
<1> QED
  BY <1>2, <1>3 DEF Store

-----------------------------------------------------------------------------
\* The other steps keep LifeInv.

\* A request that only gets hold of an Arc, newly allocated when there is none.
LEMMA RequestLife ==
    ASSUME SInv, LifeInv, NEW t \in Tasks, Request(t)
    PROVE  LifeInv'
<1>0. t \in Procs /\ GInv
  BY DEF Procs, SInv
<1>1. PICK k, a : Begin(t, k, a)
  BY DEF Request, ReqCreate, ReqUpdate, ReqDestroy
<1>2. UNCHANGED <<pstor, orphaned, guard>> /\ pc[t] = "idle"
  BY DEF Request, ReqCreate, ReqUpdate, ReqDestroy, ghosts
<1>3. \A q \in Procs : InOp(q)' => InOp(q) /\ pc'[q] = pc[q] /\ kind'[q] = kind[q]
  BY <1>0, <1>1 DEF Begin, InOp, GInv, TypeOK
<1>4. CASE UNCHANGED <<reg, mem>>
  BY <1>0, <1>2, <1>3, <1>4, QuietLife
<1>5. CASE ~UNCHANGED <<reg, mem>>
  <2>1. reg = NoArc /\ reg' \in Arcs /\ mem'[reg'] = NewSpec
    BY <1>0, <1>5 DEF Request, ReqCreate, ReqUpdate, ReqDestroy, FreeArcs, GInv, TypeOK
  <2>2. ~orphaned => \A q \in Procs : ~InOp(q)
    BY SMT, <1>0, <2>1, ConstAssumption DEF GInv, RegInv, GuardInv, InOp
  <2>3. ~orphaned => pstor = NoRec
    BY <2>1 DEF SInv, StoreInv, RecordInv
  <2>4. ~orphaned => Life' = "absent"
    BY <1>2, <2>3 DEF Life, Stored
  <2>5. ~orphaned => LifeMem(mem[reg])'
    BY SMT, <2>1, <2>4 DEF LifeMem, OpFits, NewSpec
  <2> QED
    BY <1>2, <1>3, <2>2, <2>3, <2>5 DEF LifeInv
<1> QED
  BY <1>4, <1>5

\* The reconciler getting hold of the Arc.
LEMMA PollLife ==
    ASSUME SInv, LifeInv, Poll
    PROVE  LifeInv'
<1>1. PICK k, a : Begin(Poller, k, a)
  BY DEF Poll
<1>2. UNCHANGED <<pstor, orphaned, guard, reg, mem>> /\ Poller \in Procs /\ GInv
  BY DEF Poll, ghosts, Procs, SInv
<1>3. \A q \in Procs : InOp(q)' => InOp(q) /\ pc'[q] = pc[q] /\ kind'[q] = kind[q]
  BY <1>1, <1>2 DEF Begin, InOp, GInv, TypeOK
<1> QED
  BY <1>2, <1>3, QuietLife

\* A task which is refused, or which does not get the guard, changes nothing.
LEMMA RejectLife ==
    ASSUME SInv, LifeInv, NEW p \in Procs, pc[p] = "guard", Reject(p)
    PROVE  LifeInv'
<1>0. GInv
  BY DEF SInv
<1>1. UNCHANGED <<pstor, orphaned, reg>>
  BY DEF Reject, Finish, ghosts
<1>2. reg # NoArc => mem'[reg] = mem[reg]
  BY <1>0, <1>1 DEF Reject, Finish, GInv, TypeOK
<1>3. \A a \in Arcs : guard[a] # p
  BY SMT, <1>0, ConstAssumption DEF GInv, GuardInv, InOp
<1>4. guard' = guard
  BY <1>0, <1>3 DEF Reject, Finish, GInv, TypeOK
<1>5. \A q \in Procs : InOp(q)' => InOp(q) /\ pc'[q] = pc[q] /\ kind'[q] = kind[q]
  BY <1>0 DEF Reject, Finish, InOp, GInv, TypeOK
<1> QED
  BY <1>0, <1>1, <1>2, <1>4, <1>5, QuietLife

\* Starting an operation on the registered specification.
LEMMA StartLife ==
    ASSUME SInv, LifeInv, NEW p \in Procs,
           \/ p \in Tasks /\ (StartCreate(p) \/ StartUpdate(p))
           \/ StartDestroy(p)
    PROVE  LifeInv'
<1>0. pc[p] = "guard" /\ guard[arc[p]] = NoTask /\ GInv
  BY DEF StartCreate, StartUpdate, StartDestroy, CanStart, SInv
<1>1. CASE Reject(p)
  BY <1>0, <1>1, RejectLife
<1>2. CASE ~Reject(p)
  <2>1. TakeGuard(p) /\ UNCHANGED <<reg, pstor, kind>>
    BY <1>2 DEF StartCreate, StartUpdate, StartDestroy, Await
  <2> SUFFICES ASSUME ~orphaned' PROVE LifeInv'
    BY DEF LifeInv
  <2> DEFINE s0 == mem[reg]
             s1 == mem'[reg]
  <2>2. /\ ~orphaned /\ arc[p] = reg /\ Holds(p) /\ reg \in Arcs /\ s0 \in SpecRec
        /\ guard'[reg] = p /\ p # NoTask /\ guard[reg] = NoTask /\ ~InOp(p) /\ reg # NoArc
    BY <1>0, <2>1, Entered
  <2>3. \A q \in Procs \ {p} : pc'[q] = pc[q]
    BY <1>0, <1>2 DEF StartCreate, StartUpdate, StartDestroy, Await, Goto, GInv, TypeOK
  <2>4. Life' = Life /\ Begun' = Begun
    BY <2>1 DEF Life, Stored, Begun
  <2>5. LifeMem(s0) /\ s0.op = "None" /\ orphaned' = orphaned
    <3>1. LifeMem(s0)
      BY <2>2 DEF LifeInv
    <3>2. s0.op = "None"
      BY <1>2, <2>2 DEF StartCreate, StartUpdate, StartDestroy, Dirty
    <3>3. orphaned' = orphaned
      BY <1>0, <2>1, <2>2 DEF TakeGuard, GInv, TypeOK
    <3> QED
      BY <3>1, <3>2, <3>3
  <2>6. CASE p \in Tasks /\ StartCreate(p)
    <3>1. s1 = StartOp(s0, "Create", NoVal) /\ s0.status = "Creating"
      BY <1>0, <1>2, <2>2, <2>6 DEF StartCreate, GInv, TypeOK
    <3>2. pc'[p] = "log" /\ kind'[p] = "create"
      BY <1>0, <1>2, <2>1, <2>6 DEF StartCreate, CanStart, Await, Goto, GInv, TypeOK
    <3>3. s1.status = "Creating" /\ s1.op = "Create" /\ s1.result = "None"
      BY SMT, <2>2, <3>1, Fields
    <3>4. Life \in {"absent", "Creating"}
      BY <2>2, <2>5, <3>1 DEF LifeMem
    <3>5. LifeMem(mem[reg])' /\ LifeStage(p)'
      BY <2>1, <2>2, <2>4, <3>2, <3>3, <3>4 DEF LifeMem, OpFits, LifeStage
    <3> QED
      BY <1>0, <2>1, <2>2, <2>3, <2>5, <3>5, OwnLife
  <2>7. CASE p \in Tasks /\ StartUpdate(p)
    <3>1. PICK v : s1 = StartOp(s0, "Update", v)
      BY SMT, <1>0, <1>2, <2>2, <2>7 DEF StartUpdate, GInv, TypeOK
    <3>2. kind'[p] = "update" /\ s0.status = "Created"
      BY <1>0, <1>2, <2>1, <2>2, <2>7 DEF StartUpdate, CanStart
    <3>3. s1.status = "Created" /\ s1.op = "Update" /\ s1.result = "None"
      BY SMT, <2>2, <3>1, <3>2, Fields
    <3>4. LifeMem(mem[reg])' /\ LifeStage(p)'
      BY <2>1, <2>2, <2>4, <2>5, <3>2, <3>3 DEF LifeMem, OpFits, LifeStage
    <3> QED
      BY <1>0, <2>1, <2>2, <2>3, <2>5, <3>4, OwnLife
  <2>8. CASE StartDestroy(p)
    <3>1. kind'[p] \in {"destroy", "gc"}
      BY <2>1, <2>8 DEF StartDestroy, CanStart
    <3>2. CASE s1 = s0 /\ s0.status = "Deleted"
      <4>1. LifeMem(mem[reg])' /\ LifeStage(p)'
        BY <2>1, <2>2, <2>4, <2>5, <3>1, <3>2 DEF LifeMem, OpFits, LifeStage
      <4> QED
        BY <1>0, <2>1, <2>2, <2>3, <2>5, <4>1, OwnLife
    <3>3. CASE s1 = StartOp(SetStatus(s0, "Deleting"), "Destroy", NoVal) /\ pc'[p] = "log"
      <4>1. SetStatus(s0, "Deleting") \in SpecRec /\ SetStatus(s0, "Deleting").status = "Deleting"
        BY <2>2, SpecOpsType, Fields DEF Status
      <4>2. s1.status = "Deleting" /\ s1.op = "Destroy" /\ s1.result = "None"
        BY SMT, <3>3, <4>1, Fields
      <4>3. LifeMem(mem[reg])' /\ LifeStage(p)'
        BY <2>1, <2>2, <2>4, <3>1, <3>3, <4>2 DEF LifeMem, OpFits, LifeStage
      <4> QED
        BY <1>0, <2>1, <2>2, <2>3, <2>5, <4>3, OwnLife
    <3>4. \/ s1 = s0 /\ s0.status = "Deleted"
          \/ s1 = StartOp(SetStatus(s0, "Deleting"), "Destroy", NoVal) /\ pc'[p] = "log"
      BY <1>0, <1>2, <2>2, <2>8 DEF StartDestroy, Await, Goto, GInv, TypeOK
    <3> QED
      BY <3>2, <3>3, <3>4
  <2> QED
    BY <2>6, <2>7, <2>8
<1> QED
  BY <1>1, <1>2

\* A cleared operation or a noted failure takes nothing from what the record is known for.
LEMMA ClearLife ==
    ASSUME NEW s \in SpecRec, LifeMem(s)
    PROVE  /\ LifeMem(ClearOp(s)) \/ (s.status = "Creating" /\ Life \notin {"absent", "Creating"})
           /\ LifeMem(SetOpResult(s, "False"))
              \/ (s.status = "Creating" /\ Life \notin {"absent", "Creating"})
<1>1. /\ ClearOp(s).status = s.status /\ ClearOp(s).op = "None" /\ ClearOp(s).result = "None"
      /\ SetOpResult(s, "False").status = s.status /\ SetOpResult(s, "False").op = s.op
      /\ SetOpResult(s, "False").result \in {s.result, "False"}
  BY Fields
<1> HIDE DEF ClearOp, SetOpResult
<1> QED
  BY <1>1 DEF LifeMem, OpFits

\* What a task does with the reply to a store call.
LEMMA ReplyLife ==
    ASSUME SInv, LifeInv, NEW p \in Procs,
           \/ LogReply(p) \/ CommitReply(p) \/ UndoReply(p)
           \/ SetDeletingReply(p) \/ PurgeReply(p) \/ DeleteSpecReply(p)
    PROVE  LifeInv'
<1>0. pc[p] \in StorePcs /\ InOp(p) /\ orphaned' = orphaned /\ pstor' = pstor /\ GInv /\ StoreInv
  BY DEF LogReply, CommitReply, UndoReply, SetDeletingReply, PurgeReply, DeleteSpecReply,
         InOp, StorePcs, SInv
<1> SUFFICES ASSUME ~orphaned PROVE LifeInv'
  BY <1>0 DEF LifeInv
<1> DEFINE s == mem[reg]
<1>1. /\ Holds(p) /\ arc[p] = reg /\ reg \in Arcs /\ s \in SpecRec /\ guard[reg] = p /\ p # NoTask
      /\ Writes(p) /\ Fits(s, Legal) /\ pc[p] \in PcsOf(kind[p]) /\ reg # NoArc
      /\ clone[p] \in SpecRec
  BY <1>0, Running
<1>2. LifeStage(p) /\ LifeMem(s) /\ kind[p] \in {"create", "update", "destroy", "dirty", "gc"}
  BY <1>0, <1>1 DEF LifeInv, GInv, TypeOK
<1>3. Life' = Life /\ Begun' = Begun
  BY <1>0 DEF Life, Stored, Begun
<1>4. \A n : Put(p, n)[reg] = n
  BY <1>0, <1>1 DEF Put, GInv, TypeOK
<1>5. ASSUME NEW n, Finish(p, Put(p, n), reg), LifeMem(n),
             n.status = "Creating" /\ ~(n.op = "Create" /\ n.result = "True")
                 => Life \in {"absent", "Creating"}
      PROVE  LifeInv'
  BY ZenonT(40), <1>0, <1>1, <1>4, <1>5, LeaveLife
<1>6. /\ ClearOp(s).status = s.status /\ ClearOp(s).op = "None" /\ ClearOp(s).result = "None"
      /\ \A r : /\ SetOpResult(s, r).status = s.status /\ SetOpResult(s, r).op = s.op
                /\ SetOpResult(s, r).result \in {s.result, r}
  BY <1>1, Fields
<1>7. CASE LogReply(p)
  <2>0. pc[p] = "log" /\ reply[p] \in {"ok", "err"} /\ s.result = "None"
    BY <1>0, <1>1, <1>7 DEF LogReply, Writes, GInv, TypeOK
  <2>1. CASE reply[p] = "ok"
    <3>1. /\ pc'[p] = "exec" /\ UNCHANGED <<reg, mem, guard, kind>>
          /\ \A q \in Procs \ {p} : pc'[q] = pc[q]
      BY <1>0, <1>7, <2>1 DEF LogReply, Goto, GInv, TypeOK
    <3>2. pstor = s /\ pstor # NoRec
      BY <1>0, <1>1, <2>0, <2>1, NoRecAssumption DEF Writes, Written
    <3>3. Life = IF s.status = "Deleted" THEN "absent" ELSE s.status
      BY <3>2 DEF Life, Stored
    <3>4. kind[p] \in {"create", "update", "destroy", "gc"}
      BY <1>1, <1>2, <2>0, PcsOfKind
    <3>5. LifeStage(p)'
      BY <1>1, <1>3, <2>0, <3>1, <3>3, <3>4 DEF LifeStage, Writes
    <3>6. LifeMem(mem[reg])'
      BY <1>2, <1>3, <3>1 DEF LifeMem
    <3> QED
      BY <1>0, <1>1, <3>1, <3>5, <3>6, OwnLife
  <2>2. CASE reply[p] = "err" /\ kind[p] = "create"
    <3>1. /\ pc'[p] = "delspec" /\ UNCHANGED <<reg, guard, kind>> /\ mem'[reg] = ClearOp(s)
          /\ \A q \in Procs \ {p} : pc'[q] = pc[q]
      BY <1>0, <1>1, <1>7, <2>2, <1>4 DEF LogReply, Await, Goto, GInv, TypeOK
    <3>2. s.status = "Creating" /\ Life \in {"absent", "Creating"}
      BY <1>1, <1>2, <2>0, <2>2 DEF Writes, LifeStage
    <3>3. LifeStage(p)' /\ LifeMem(mem[reg])'
      BY <1>3, <1>6, <2>2, <3>1, <3>2 DEF LifeStage, LifeMem, OpFits
    <3> QED
      BY <1>0, <1>1, <3>1, <3>3, OwnLife
  <2>3. CASE reply[p] = "err" /\ kind[p] # "create"
    <3>1. Finish(p, Put(p, ClearOp(s)), reg)
      BY <1>1, <1>7, <2>3 DEF LogReply
    <3>2. kind[p] \in {"update", "destroy", "gc"}
      BY <1>1, <1>2, <2>0, <2>3, PcsOfKind
    <3>3. s.status # "Creating"
      BY <1>1, <3>2 DEF Writes
    <3>4. LifeMem(ClearOp(s))
      BY <1>1, <1>2, <3>3, ClearLife
    <3> QED
      BY <1>5, <1>6, <3>1, <3>3, <3>4
  <2> QED
    BY <2>0, <2>1, <2>2, <2>3
<1>8. CASE CommitReply(p)
  <2>0. pc[p] = "commit"
    BY <1>8 DEF CommitReply
  <2>1. kind[p] \in {"create", "update", "dirty"}
    BY <1>1, <1>2, <2>0, PcsOfKind
  <2>2. s.op # "None" /\ CommitOp(s).op = "None" /\ CommitOp(s).status # "Creating"
    BY <1>0, <2>0, CommitLegal
  <2>3. CASE reply[p] = "ok"
    <3>1. Finish(p, Put(p, CommitOp(s)), reg)
      BY <1>1, <1>8, <2>3 DEF CommitReply
    <3>2. pstor = CommitOp(s) /\ pstor # NoRec
      BY <1>0, <1>1, <2>0, <2>3, NoRecAssumption DEF Writes, Written
    <3>3. Life = IF CommitOp(s).status = "Deleted" THEN "absent" ELSE CommitOp(s).status
      BY <3>2 DEF Life, Stored
    <3>4. LifeMem(CommitOp(s))
      BY <2>2, <3>3 DEF LifeMem, OpFits
    <3> QED
      BY <1>5, <2>2, <3>1, <3>4
  <2>4. CASE reply[p] = "err"
    <3>1. Finish(p, Put(p, SetOpResult(s, "True")), reg)
      BY <1>1, <1>8, <2>4 DEF CommitReply
    <3>2. s.op = "Create" => Begun
      BY <1>1, <1>2, <2>0, <2>1 DEF Writes, LifeStage, LifeMem
    <3>3. s.op = "Destroy" => Life \in {"absent", "Deleting"}
      BY <1>1, <1>2, <2>0, <2>1 DEF Writes, LifeMem
    <3>4. s.status = "Creating" => s.op = "Create"
      BY <1>1, <2>2 DEF Fits, Initial
    <3>5. SetOpResult(s, "True").result = "True"
      BY <1>1, <2>2 DEF SetOpResult, SpecRec
    <3> DEFINE n == SetOpResult(s, "True")
    <3>6. n.status = s.status /\ n.op = s.op /\ n.result = "True"
      BY <1>6, <3>5
    <3> HIDE DEF n
    <3>7. LifeMem(n)
      BY <1>2, <3>2, <3>3, <3>4, <3>6 DEF LifeMem, OpFits
    <3> QED
      BY <1>5, <3>1, <3>4, <3>6, <3>7 DEF n
  <2> QED
    BY <1>8, <2>3, <2>4 DEF CommitReply
<1>9. CASE UndoReply(p)
  <2>0. pc[p] = "undo" /\ Finish(p, Put(p, AfterUndo(p, s)), reg)
    BY <1>1, <1>9 DEF UndoReply
  <2>1. s.status = "Creating" => Life \in {"absent", "Creating"}
    BY <1>1, <1>2, <2>0 DEF Writes, LifeStage
  <2>2. LifeMem(ClearOp(s)) /\ LifeMem(SetOpResult(s, "False"))
    BY <1>1, <1>2, <2>1, ClearLife
  <2>3. AfterUndo(p, s) \in {s, ClearOp(s), SetOpResult(s, "False")}
    BY DEF AfterUndo
  <2> DEFINE n == AfterUndo(p, s)
  <2>4. n.status = s.status /\ LifeMem(n)
    BY <1>2, <1>6, <2>2, <2>3
  <2> HIDE DEF n
  <2> QED
    BY <1>5, <2>0, <2>1, <2>4 DEF n
<1>10. CASE SetDeletingReply(p)
  <2>0. pc[p] = "setdel" /\ Finish(p, mem, reg)
    BY <1>10 DEF SetDeletingReply
  <2>1. s.status = "Deleting"
    BY <1>1, <1>2, <2>0, PcsOfKind DEF Writes
  <2> QED
    BY <1>0, <1>1, <1>2, <2>0, <2>1, LeaveLife
<1>11. CASE PurgeReply(p)
  <2>0. pc[p] = "purge" /\ reply[p] \in {"ok", "err"}
    BY <1>11 DEF PurgeReply
  <2>1. kind[p] \in {"destroy", "gc"}
    BY <1>1, <1>2, <2>0, PcsOfKind
  <2>2. CASE reply[p] = "ok"
    <3>1. Finish(p, Put(p, CommitOp(s)), NoArc)
      BY <1>1, <1>11, <2>2 DEF PurgeReply
    <3> QED
      BY <1>0, <1>1, <3>1, LeaveLife
  <2>3. CASE reply[p] = "err"
    <3>1. Finish(p, Put(p, SetOpResult(s, "True")), reg)
      BY <1>1, <1>11, <2>3 DEF PurgeReply
    <3>2. /\ s.status \in {"Deleting", "Deleted"} /\ s.op \in {"Destroy", "None"}
          /\ Life \in {"absent", "Deleting"}
      BY <1>1, <1>2, <2>0, <2>1 DEF Writes, LifeStage
    <3> DEFINE n == SetOpResult(s, "True")
    <3>3. n.status = s.status /\ n.op = s.op
      BY <1>6
    <3> HIDE DEF n
    <3>4. LifeMem(n)
      BY <1>2, <3>2, <3>3 DEF LifeMem, OpFits
    <3> QED
      BY <1>5, <3>1, <3>2, <3>3, <3>4 DEF n
  <2> QED
    BY <2>0, <2>2, <2>3
<1>12. CASE DeleteSpecReply(p)
  <2>0. pc[p] = "delspec" /\ reply[p] \in {"ok", "err"}
    BY <1>12 DEF DeleteSpecReply
  <2>1. kind[p] \in {"create", "dirty"}
    BY <1>1, <1>2, <2>0, PcsOfKind
  <2>2. CASE reply[p] = "ok"
    <3>1. Finish(p, mem, NoArc)
      BY <1>12, <2>2 DEF DeleteSpecReply
    <3> QED
      BY <1>0, <1>1, <3>1, LeaveLife
  <2>3. CASE reply[p] = "err"
    <3>1. Finish(p, Put(p, SetOpResult(s, "False")), reg)
      BY <1>1, <1>12, <2>3 DEF DeleteSpecReply
    <3>2. s.status = "Creating" => Life \in {"absent", "Creating"}
      BY <1>1, <1>2, <2>0, <2>1 DEF Writes, LifeStage
    <3>3. LifeMem(SetOpResult(s, "False")) /\ SetOpResult(s, "False").status = s.status
      BY <1>1, <1>2, <1>6, <3>2, ClearLife
    <3> QED
      BY <1>5, <3>1, <3>2, <3>3
  <2> QED
    BY <2>0, <2>2, <2>3
<1> QED
  BY <1>7, <1>8, <1>9, <1>10, <1>11, <1>12

\* The data-plane calls.
LEMMA ExecLife ==
    ASSUME SInv, LifeInv, NEW p \in Procs,
           \/ p \in Tasks /\ (ExecCreate(p) \/ ExecUpdate(p))
           \/ ExecDestroy(p)
    PROVE  LifeInv'
<1>0. pc[p] = "exec" /\ InOp(p) /\ orphaned' = orphaned /\ pstor' = pstor /\ GInv /\ StoreInv
  BY DEF ExecCreate, ExecUpdate, ExecDestroy, InOp, SInv, ghosts
<1> SUFFICES ASSUME ~orphaned PROVE LifeInv'
  BY <1>0 DEF LifeInv
<1> DEFINE s == mem[reg]
           f == FailCreatingToDeleting(s)
<1>1. /\ Holds(p) /\ arc[p] = reg /\ reg \in Arcs /\ s \in SpecRec /\ guard[reg] = p /\ p # NoTask
      /\ Writes(p) /\ Fits(s, Legal) /\ reg # NoArc
  BY <1>0, Running
<1>2. LifeStage(p) /\ LifeMem(s)
  BY <1>0, <1>1 DEF LifeInv
<1>3. Life' = Life /\ Begun' = Begun
  BY <1>0 DEF Life, Stored, Begun
<1>4. CASE p \in Tasks /\ ExecCreate(p)
  <2>0. /\ UNCHANGED <<reg, guard>> /\ kind[p] = "create" /\ Life = "Creating"
        /\ s.status = "Creating" /\ s.op = "Create" /\ s.result # "True"
    BY <1>0, <1>1, <1>2, <1>4 DEF ExecCreate, Writes, LifeStage
  <2>1. PICK l, c : Await(p, l, c) /\ \/ mem' = mem /\ l \in {"commit", "undo", "delspec"}
                                      \/ mem' = Put(p, f) /\ l = "setdel"
    BY <1>1, <1>4 DEF ExecCreate, CreateFailed
  <2>2. pc'[p] = l /\ kind' = kind /\ \A q \in Procs \ {p} : pc'[q] = pc[q]
    BY <1>0, <2>1 DEF Await, Goto, GInv, TypeOK
  <2>3. CASE mem' = mem /\ l \in {"commit", "undo", "delspec"}
    <3>1. LifeStage(p)' /\ LifeMem(mem[reg])'
      BY <1>2, <1>3, <2>0, <2>2, <2>3 DEF LifeStage, LifeMem, OpFits, Begun
    <3> QED
      BY <1>0, <1>1, <2>0, <2>2, <3>1, OwnLife
  <2>4. CASE mem' = Put(p, f) /\ l = "setdel"
    <3>1. mem'[reg] = f
      BY <1>0, <1>1, <2>4 DEF Put, GInv, TypeOK
    <3>2. f.status = "Deleting" /\ f.op = "None" /\ f.result = "None"
      BY <1>1, FailFields
    <3> HIDE DEF f
    <3>3. LifeStage(p)' /\ LifeMem(mem[reg])'
      BY <2>0, <2>2, <2>4, <3>1, <3>2 DEF LifeStage, LifeMem, OpFits
    <3> QED
      BY <1>0, <1>1, <2>0, <2>2, <3>3, OwnLife
  <2> QED
    BY <2>1, <2>3, <2>4
<1>5. CASE p \in Tasks /\ ExecUpdate(p)
  <2>0. kind[p] = "update" /\ s.status = "Created" /\ s.op = "Update" /\ Life = "Created"
    BY <1>0, <1>1, <1>2, <1>5 DEF ExecUpdate, Writes, LifeMem
  <2>1. CASE mode[p] # "FF"
    <3>1. UNCHANGED <<reg, mem, guard>> /\ \E l, c : Await(p, l, c)
      BY <1>5, <2>1 DEF ExecUpdate
    <3>2. kind' = kind /\ \A q \in Procs \ {p} : pc'[q] = pc[q]
      BY <1>0, <3>1 DEF Await, Goto, GInv, TypeOK
    <3>3. LifeStage(p)' /\ LifeMem(mem[reg])'
      BY <1>2, <1>3, <2>0, <3>1, <3>2 DEF LifeStage, LifeMem, OpFits
    <3> QED
      BY <1>0, <1>1, <3>1, <3>2, <3>3, OwnLife
  <2>2. CASE mode[p] = "FF"
    <3>1. PICK n \in {CommitOp(s), ClearOp(s)} : Finish(p, Put(p, n), reg)
      BY <1>1, <1>5, <2>2 DEF ExecUpdate
    <3>2. n.status = "Created" /\ n.op = "None"
      BY SMT, <1>1, <2>0, <3>1, CommitFields, Fields
    <3>3. LifeMem(n) /\ Put(p, n)[reg] = n
      BY <1>0, <1>1, <2>0, <3>2 DEF LifeMem, OpFits, Put, GInv, TypeOK
    <3> QED
      BY <1>0, <1>1, <3>1, <3>2, <3>3, LeaveLife
  <2> QED
    BY <2>1, <2>2
<1>6. CASE ExecDestroy(p)
  <2>0. /\ UNCHANGED <<reg, mem, guard>> /\ kind[p] \in {"destroy", "gc"}
        /\ Life \in {"absent", "Deleting"}
    BY <1>0, <1>2, <1>6 DEF ExecDestroy, LifeStage
  <2>1. PICK l, c : Await(p, l, c)
    BY <1>6 DEF ExecDestroy
  <2>2. kind' = kind /\ \A q \in Procs \ {p} : pc'[q] = pc[q]
    BY <1>0, <2>1 DEF Await, Goto, GInv, TypeOK
  <2>3. LifeStage(p)' /\ LifeMem(mem[reg])'
    BY <1>2, <1>3, <2>0, <2>2 DEF LifeStage, LifeMem, OpFits
  <2> QED
    BY <1>0, <1>1, <2>0, <2>2, <2>3, OwnLife
<1> QED
  BY <1>4, <1>5, <1>6

\* handle_incomplete_ops.
LEMMA DirtyLife ==
    ASSUME SInv, LifeInv, HandleIncompleteOps
    PROVE  LifeInv'
<1> DEFINE a == arc[Poller]
<1>0. /\ Poller \in Procs /\ Poller \notin Tasks /\ pc[Poller] = "guard"
      /\ guard[a] = NoTask /\ kind[Poller] = "dirty" /\ GInv /\ StoreInv
  BY ConstAssumption DEF HandleIncompleteOps, CanStart, Procs, SInv
<1>1. CASE Reject(Poller)
  BY <1>0, <1>1, RejectLife
<1>2. CASE /\ mem[a].status = "Creating"
           /\ Finish(Poller, Put(Poller, SetStatus(mem[a], "Deleting")), reg)
           /\ UNCHANGED <<pstor, ghosts>>
  <2>0. a \in Arcs /\ mem[a] \in SpecRec /\ UNCHANGED <<pstor, orphaned, reg>>
    BY <1>0, <1>2, ArcOf DEF ghosts, Finish
  <2>1. CASE a # reg
    <3>1. reg # NoArc => mem'[reg] = mem[reg] /\ guard'[reg] = guard[reg]
      BY <1>0, <1>2, <2>1 DEF Finish, Put, GInv, TypeOK
    <3>2. \A q \in Procs : InOp(q)' => InOp(q) /\ pc'[q] = pc[q] /\ kind'[q] = kind[q]
      BY <1>0, <1>2 DEF Finish, InOp, GInv, TypeOK
    <3> QED
      BY <1>0, <2>0, <3>1, <3>2, QuietLife
  <2>2. CASE a = reg /\ ~orphaned
    <3> DEFINE s == mem[reg]
               d == SetStatus(s, "Deleting")
    <3>1. s \in SpecRec /\ reg # NoArc /\ Holds(Poller) /\ LifeMem(s)
      BY <1>0, <2>0, <2>2, ConstAssumption DEF Holds, LifeInv
    <3>2. d.status = "Deleting" /\ d.op = s.op /\ d.result = s.result
      BY ZenonT(40), <3>1, Fields
    <3>3. Put(Poller, d)[reg] = d
      BY <1>0, <2>0, <2>2 DEF Put, GInv, TypeOK
    <3>4. s.op # "Update" /\ s.op # "Destroy"
      <4>1. Initial(s)
        BY <2>2, <3>1 DEF SInv, StoreInv, MemInv
      <4> QED
        BY <1>2, <2>2, <4>1 DEF Initial
    <3> HIDE DEF d
    <3>5. LifeMem(d)
      BY <3>1, <3>2, <3>4 DEF LifeMem, OpFits
    <3> QED
      BY <1>0, <1>2, <2>0, <2>2, <3>1, <3>2, <3>3, <3>5, LeaveLife DEF d
  <2> QED
    BY <2>0, <2>1, <2>2 DEF LifeInv
<1>3. CASE /\ TakeGuard(Poller) /\ UNCHANGED <<reg, mem, pstor>>
           /\ \E l, c : Await(Poller, l, c) /\ (l = "undo" => mem[a].result # "True")
  <2> SUFFICES ASSUME ~orphaned' PROVE LifeInv'
    BY DEF LifeInv
  <2> DEFINE s == mem[reg]
  <2>1. /\ ~orphaned /\ a = reg /\ Holds(Poller) /\ reg \in Arcs /\ s \in SpecRec
        /\ guard'[reg] = Poller /\ Poller # NoTask /\ guard[reg] = NoTask /\ reg # NoArc
    BY <1>0, <1>3, Entered
  <2>2. PICK l, c : Await(Poller, l, c) /\ (l = "undo" => s.result # "True")
    BY <1>3, <2>1
  <2>3. /\ pc'[Poller] = l /\ kind' = kind /\ \A q \in Procs \ {Poller} : pc'[q] = pc[q]
    BY <1>0, <2>2 DEF Await, Goto, GInv, TypeOK
  <2>4. Life' = Life /\ Begun' = Begun /\ LifeMem(s)
    BY <1>3, <2>1 DEF Life, Stored, Begun, LifeInv
  <2>5. LifeStage(Poller)' /\ LifeMem(mem[reg])'
    BY <1>0, <1>3, <2>1, <2>2, <2>3, <2>4 DEF LifeStage, LifeMem
  <2>6. orphaned' = orphaned
    BY <1>0, <1>3, <2>1 DEF TakeGuard, GInv, TypeOK
  <2> QED
    BY <1>0, <1>3, <2>1, <2>3, <2>5, <2>6, OwnLife
<1> QED
  BY SMT, <1>1, <1>2, <1>3 DEF HandleIncompleteOps

\* A crash: memory is the record again.
LEMMA CrashLife ==
    ASSUME SInv, LifeInv, Crash
    PROVE  LifeInv'
<1>0. pstor' = pstor /\ orphaned' = orphaned
  BY DEF Crash
<1> SUFFICES ASSUME ~orphaned PROVE LifeInv'
  BY <1>0 DEF LifeInv
<1>1. \A p \in Procs : ~InOp(p)'
  BY DEF Crash, InOp
<1>2. \/ pstor = NoRec /\ reg' = NoArc
      \/ pstor # NoRec /\ reg' \in Arcs /\ mem'[reg'] = pstor
  BY DEF Crash
<1>3. pstor # NoRec => OpFits(pstor) /\ (pstor.op # "None" => pstor.result = "None")
  BY DEF SInv, StoreInv, RecordInv, LifeInv
<1>4. reg' # NoArc => LifeMem(mem[reg])'
  BY <1>0, <1>2, <1>3 DEF LifeMem, OpFits, Life, Stored
<1> QED
  BY <1>0, <1>1, <1>3, <1>4 DEF LifeInv, OpFits

-----------------------------------------------------------------------------
\* A step that does not write the record is no step of its life, unless an operation
\* starts on a specification that was removed.
LEMMA NoMove ==
    ASSUME GInv, pstor' = pstor, orphaned' \in BOOLEAN, orphaned => orphaned'
    PROVE  Lifecycle!Next \/ UNCHANGED Lifecycle!vars
<1>1. Life' = Life
  BY DEF Life, Stored
<1>2. CASE orphaned' = orphaned
  BY <1>1, <1>2 DEF Lifecycle!vars
<1>3. CASE orphaned' # orphaned
  <2>1. orphaned'
    BY <1>3 DEF GInv, TypeOK
  <2> QED
    BY <2>1 DEF Lifecycle!Next, Lifecycle!Void
<1> QED
  BY <1>2, <1>3

\* Every step keeps LifeInv and is a step of the life or none.
LEMMA NextLife ==
    ASSUME SInv, LifeInv, [Next]_vars, TypeOK'
    PROVE  LifeInv' /\ (Lifecycle!Next \/ UNCHANGED Lifecycle!vars)
<1>0. GInv /\ orphaned' \in BOOLEAN
  BY DEF SInv, TypeOK
<1>1. CASE \E p \in Procs : Store(p)
  <2>1. CASE ~orphaned
    BY <1>1, <2>1, StoreLife
  <2>2. CASE orphaned
    <3>1. orphaned'
      BY <1>1, <2>2 DEF Store, ghosts
    <3> QED
      BY <2>2, <3>1 DEF LifeInv, Lifecycle!vars
  <2> QED
    BY <2>1, <2>2
<1>2. CASE ~\E p \in Procs : Store(p)
  <2>1. LifeInv'
    <3>1. ASSUME NEW t \in Tasks, Request(t) PROVE LifeInv'
      BY <3>1, RequestLife
    <3>2. ASSUME NEW t \in Tasks, TaskStep(t) PROVE LifeInv'
      <4>1. t \in Procs
        BY DEF Procs
      <4> QED
        BY <3>2, <4>1, StartLife, ExecLife DEF TaskStep
    <3>3. ASSUME NEW p \in Procs, ProcStep(p) PROVE LifeInv'
      <4>1. CASE Conflict(p)
        BY <4>1, RejectLife DEF Conflict, Reject
      <4>2. CASE StartDestroy(p)
        BY <4>2, StartLife
      <4>3. CASE ExecDestroy(p)
        BY <4>3, ExecLife
      <4>4. CASE \/ LogReply(p) \/ CommitReply(p) \/ UndoReply(p)
                 \/ SetDeletingReply(p) \/ PurgeReply(p) \/ DeleteSpecReply(p)
        BY <4>4, ReplyLife
      <4> QED
        BY <1>2, <3>3, <4>1, <4>2, <4>3, <4>4 DEF ProcStep
    <3>4. CASE UNCHANGED vars
      <4>1. UNCHANGED <<reg, mem, guard, pstor, pc, kind, orphaned>>
        BY <3>4 DEF vars, task, ghosts
      <4> QED
        BY <1>0, <4>1, QuietLife DEF InOp
    <3> QED
      BY <3>1, <3>2, <3>3, <3>4, PollLife, DirtyLife, CrashLife DEF Next
  <2>2. pstor' = pstor /\ (orphaned => orphaned')
    <3>1. ASSUME NEW t \in Tasks, Request(t) PROVE pstor' = pstor /\ (orphaned => orphaned')
      BY SMT, <3>1 DEF Request, ReqCreate, ReqUpdate, ReqDestroy, ghosts
    <3>0. \A p \in Procs : /\ TakeGuard(p) => (orphaned => orphaned')
                           /\ Reject(p) => pstor' = pstor /\ orphaned' = orphaned
      BY DEF TakeGuard, Reject, ghosts
    <3>2. ASSUME NEW t \in Tasks, TaskStep(t) PROVE pstor' = pstor /\ (orphaned => orphaned')
      <4>0. t \in Procs
        BY DEF Procs
      <4>1. CASE StartCreate(t) \/ StartUpdate(t)
        <5>1. Reject(t) \/ (TakeGuard(t) /\ pstor' = pstor)
          BY <4>1 DEF StartCreate, StartUpdate
        <5> QED
          BY <3>0, <4>0, <5>1
      <4>2. CASE ExecCreate(t)
        <5>1. UNCHANGED <<pstor, orphaned>>
          BY <4>2 DEF ExecCreate, ghosts
        <5> QED
          BY <5>1
      <4>3. CASE ExecUpdate(t)
        <5>1. UNCHANGED <<pstor, orphaned>>
          BY <4>3 DEF ExecUpdate, ghosts
        <5> QED
          BY <5>1
      <4> QED
        BY <3>2, <4>1, <4>2, <4>3 DEF TaskStep
    <3>3. ASSUME NEW p \in Procs, ProcStep(p) PROVE pstor' = pstor /\ (orphaned => orphaned')
      <4>1. CASE StartDestroy(p)
        <5>1. Reject(p) \/ (TakeGuard(p) /\ pstor' = pstor)
          BY <4>1 DEF StartDestroy
        <5> QED
          BY <3>0, <5>1
      <4>2. CASE Conflict(p) \/ ExecDestroy(p)
        <5>1. Conflict(p) => UNCHANGED <<pstor, orphaned>>
          BY DEF Conflict, ghosts
        <5>2. ExecDestroy(p) => UNCHANGED <<pstor, orphaned>>
          BY DEF ExecDestroy, ghosts
        <5> QED
          BY SMT, <4>2, <5>1, <5>2
      <4>3. CASE \/ LogReply(p) \/ CommitReply(p) \/ UndoReply(p)
                 \/ SetDeletingReply(p) \/ PurgeReply(p) \/ DeleteSpecReply(p)
        <5>1. LogReply(p) => pstor' = pstor /\ (orphaned => orphaned')
          BY SMT DEF LogReply, ghosts
        <5>2. CommitReply(p) => pstor' = pstor /\ (orphaned => orphaned')
          BY SMT DEF CommitReply, ghosts
        <5>3. UndoReply(p) => pstor' = pstor /\ (orphaned => orphaned')
          BY SMT DEF UndoReply, ghosts
        <5>4. SetDeletingReply(p) => pstor' = pstor /\ (orphaned => orphaned')
          BY SMT DEF SetDeletingReply, ghosts
        <5>5. PurgeReply(p) => pstor' = pstor /\ (orphaned => orphaned')
          BY SMT DEF PurgeReply, ghosts
        <5>6. DeleteSpecReply(p) => pstor' = pstor /\ (orphaned => orphaned')
          BY SMT DEF DeleteSpecReply, ghosts
        <5> QED
          BY <4>3, <5>1, <5>2, <5>3, <5>4, <5>5, <5>6
      <4> QED
        BY <1>2, <3>3, <4>1, <4>2, <4>3 DEF ProcStep
    <3>4. CASE Poll \/ Crash \/ UNCHANGED vars
      <4>1. UNCHANGED <<pstor, orphaned>>
        BY <3>4 DEF Poll, Crash, vars, ghosts
      <4> QED
        BY <4>1
    <3>5. CASE HandleIncompleteOps
      <4>1. \/ Reject(Poller) \/ (TakeGuard(Poller) /\ pstor' = pstor)
            \/ UNCHANGED <<pstor, ghosts>>
        BY <3>5 DEF HandleIncompleteOps
      <4> QED
        BY SMT, <3>0, <4>1 DEF Procs, ghosts
    <3> QED
      BY <3>1, <3>2, <3>3, <3>4, <3>5 DEF Next
  <2> QED
    BY <1>0, <2>1, <2>2, NoMove
<1> QED
  BY <1>1, <1>2

\* Every behaviour of the guarded operations is a behaviour of ResourceLifecycle: however
\* its operations fail, are tried again, are finished by the reconcilers or are cut off by a
\* restart, the stored record is announced, created with the value asked for, updated,
\* condemned and deleted in that order (GuardedOperationsHelper).
THEOREM LifecycleIsFollowed == Spec => FollowsLifecycle
<1>1. Init => SInv /\ LifeInv /\ Lifecycle!Init
  <2>1. Init => SInv
    <3>1. Init => WritesInv /\ MemInv /\ MemoryIsPersisted
      BY DEF Init, WritesInv, MemInv, MemoryIsPersisted, InOp
    <3>2. Init => RecordInv
      BY DEF Init, RecordInv, Durable, Legal
    <3> QED
      BY <3>1, <3>2, InitGInv DEF SInv, StoreInv
  <2>2. Init => LifeInv
    BY DEF Init, LifeInv, InOp
  <2>3. Init => Lifecycle!Init
    BY DEF Init, Lifecycle!Init, Life, Stored
  <2> QED
    BY <2>1, <2>2, <2>3
<1>2. SInv /\ LifeInv /\ [Next]_vars => SInv' /\ LifeInv' /\ [Lifecycle!Next]_(Lifecycle!vars)
  <2> SUFFICES ASSUME SInv, LifeInv, [Next]_vars
               PROVE  SInv' /\ LifeInv' /\ [Lifecycle!Next]_(Lifecycle!vars)
    OBVIOUS
  <2>1. SInv'
    BY NextSInv
  <2>2. TypeOK'
    BY <2>1 DEF SInv, GInv
  <2> QED
    BY <2>1, <2>2, NextLife
<1> QED
  BY <1>1, <1>2, PTL DEF Spec, FollowsLifecycle, Lifecycle!Spec

=============================================================================
