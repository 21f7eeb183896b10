--------------------------- MODULE NodeDrainProofs ---------------------------
(***************************************************************************)
(* TLAPS proofs about NodeDrain: what the agent knows and has stored of a  *)
(* node is true, and a drain waits for the shutdown targets it caused, for *)
(* any sets of labels and volumes and any bounds.                          *)
(***************************************************************************)
EXTENDS NodeDrain, TLAPS

\* The leaves are first-order; the ones that need more name SMT.
USE Zenon

PassKinds == {"AddDraining", "RemoveDraining", "RemoveAll"}

\* Nothing but the labels and the state decides what resolve() makes of them.
LEMMA ResolveAgrees ==
  ASSUME NEW n \in NodeSpec,
         n.cl # {} \/ n.dl # {} => n.st # "None",
         n.dl # {} => n.st \in {"Draining", "Drained"}
  PROVE  /\ Resolve(n) \in NodeSpec /\ Agrees(Resolve(n))
         /\ Resolve(n).op = n.op
         /\ Resolve(n).st = "Drained" => n.st = "Drained"
         /\ Resolve(n).st = "Draining" => Resolve(n).dv = n.dv
<1> DEFINE st == IF n.st \in {"Draining", "Drained"} /\ n.dl # {} THEN n.st
                 ELSE IF n.st # "None" /\ n.cl # {} THEN "Cordoned"
                 ELSE "None"
<1>1. Resolve(n) = [n EXCEPT !.st = st, !.dv = IF st = "Draining" THEN @ ELSE {}]
  BY DEF Resolve
<1>2. st \in {"None", "Cordoned", "Draining", "Drained"}
  BY DEF NodeSpec
<1>3. /\ Resolve(n).st = st /\ Resolve(n).cl = n.cl /\ Resolve(n).dl = n.dl
      /\ Resolve(n).op = n.op /\ Resolve(n).dv = IF st = "Draining" THEN n.dv ELSE {}
  BY <1>1 DEF NodeSpec
<1>4. Resolve(n) \in NodeSpec
  BY <1>1, <1>2 DEF NodeSpec
<1> QED
  BY <1>2, <1>3, <1>4 DEF Agrees

\* Every operation keeps the specification sound and leaves none pending; a node
\* becomes drained by SetDrained only, and only the drain reconciler's operations
\* change the volumes a draining node awaits (commit_op).
LEMMA CommitSound ==
  ASSUME NEW n, Sound(n)
  PROVE  /\ Sound(CommitOp(n)) /\ CommitOp(n).op = NoOp
         /\ CommitOp(n).st = "Drained" => n.st = "Drained" \/ n.op.kind = "SetDrained"
         /\ CommitOp(n).st = "Draining" /\ n.op.kind \notin PassKinds => CommitOp(n).dv = n.dv
         /\ n.op.kind \in PassKinds => CommitOp(n).st = n.st
         /\ n.op.kind = "AddDraining" => CommitOp(n).dv = n.dv \cup n.op.arg
         /\ n.op.kind = "RemoveDraining" => CommitOp(n).dv = n.dv \ n.op.arg
<1> DEFINE a == n.op.arg
           k == n.op.kind
           Good(r) == /\ r \in NodeSpec /\ Agrees(r)
                      /\ r.st = "Drained" => n.st = "Drained" \/ k = "SetDrained"
                      /\ r.st = "Draining" /\ k \notin PassKinds => r.dv = n.dv
                      /\ k \in PassKinds => r.st = n.st
                      /\ k = "AddDraining" => r.dv = n.dv \cup a
                      /\ k = "RemoveDraining" => r.dv = n.dv \ a
<1>0. n \in NodeSpec /\ Agrees(n) /\ OpFits(n)
  BY DEF Sound
<1>1. SUFFICES \E r : CommitOp(n) = [r EXCEPT !.op = NoOp] /\ Good(r)
  <2>1. PICK r : CommitOp(n) = [r EXCEPT !.op = NoOp] /\ Good(r)
    BY <1>1
  <2>2. CommitOp(n) \in NodeSpec /\ CommitOp(n).op = NoOp
    BY SMT, <2>1 DEF NodeSpec, NoOp
  <2>3. /\ CommitOp(n).st = r.st /\ CommitOp(n).cl = r.cl
        /\ CommitOp(n).dl = r.dl /\ CommitOp(n).dv = r.dv
    BY <2>1 DEF NodeSpec
  <2>4. Sound(CommitOp(n))
    BY SMT, <2>1, <2>2, <2>3 DEF Sound, Agrees, OpFits, NoOp
  <2> HIDE DEF PassKinds
  <2> QED BY <2>1, <2>2, <2>3, <2>4
<1>2. CASE k = "Cordon"
  <2> DEFINE m == [n EXCEPT !.cl = @ \cup a, !.st = IF @ = "None" THEN "Cordoned" ELSE @]
  <2>1. /\ m \in NodeSpec /\ m.cl = n.cl \cup a /\ m.dl = n.dl /\ m.dv = n.dv
        /\ m.st = IF n.st = "None" THEN "Cordoned" ELSE n.st
    BY <1>0, <1>2 DEF NodeSpec, OpFits
  <2>2. m.st # "None" /\ (m.dl # {} => m.st \in {"Draining", "Drained"})
    BY SMT, <1>0, <2>1 DEF Agrees
  <2>3. Good(Resolve(m))
    <3> HIDE DEF m
    <3> QED BY <1>2, <2>1, <2>2, ResolveAgrees DEF PassKinds
  <2> QED BY <1>2, <2>3 DEF CommitOp, Cordon
<1>3. CASE k = "Drain"
  <2> DEFINE m == [n EXCEPT !.dl = @ \cup a, !.st = IF @ = "Drained" THEN @ ELSE "Draining"]
  <2>1. /\ m \in NodeSpec /\ m.dv = n.dv
        /\ m.st = IF n.st = "Drained" THEN n.st ELSE "Draining"
    BY <1>0, <1>3 DEF NodeSpec, OpFits
  <2>2. Good(Resolve(m))
    <3> HIDE DEF m
    <3> QED BY <1>3, <2>1, ResolveAgrees DEF PassKinds
  <2> QED BY <1>3, <2>2 DEF CommitOp, SetDrain
<1>4. CASE k = "Uncordon"
  <2> DEFINE m == [n EXCEPT !.cl = @ \ a, !.dl = @ \ a]
  <2>1. /\ m \in NodeSpec /\ m.cl = n.cl \ a /\ m.dl = n.dl \ a /\ m.dv = n.dv
        /\ m.st = n.st
    BY <1>0, <1>4 DEF NodeSpec
  <2>2. /\ m.cl # {} \/ m.dl # {} => m.st # "None"
        /\ m.dl # {} => m.st \in {"Draining", "Drained"}
    BY <1>0, <2>1 DEF Agrees
  <2>3. Good(Resolve(m))
    <3> HIDE DEF m
    <3> QED BY <1>4, <2>1, <2>2, ResolveAgrees DEF PassKinds
  <2> QED BY <1>4, <2>3 DEF CommitOp, Uncordon
<1>5. CASE k = "SetDrained"
  <2> DEFINE m == [n EXCEPT !.st = IF @ = "Draining" THEN "Drained" ELSE @]
  <2>1. /\ m \in NodeSpec /\ m.cl = n.cl /\ m.dl = n.dl /\ m.dv = n.dv
        /\ m.st = IF n.st = "Draining" THEN "Drained" ELSE n.st
    BY <1>0 DEF NodeSpec
  <2>2. /\ m.cl # {} \/ m.dl # {} => m.st # "None"
        /\ m.dl # {} => m.st \in {"Draining", "Drained"}
    BY SMT, <1>0, <2>1 DEF Agrees
  <2>3. Good(Resolve(m))
    <3> HIDE DEF m
    <3> QED BY <1>5, <2>1, <2>2, ResolveAgrees DEF PassKinds
  <2> QED BY <1>5, <2>3 DEF CommitOp, SetDrained
<1>6. CASE k \in {"Label", "Unlabel"}
  <2> DEFINE m == [n EXCEPT !.tl = IF k = "Label" THEN a ELSE {}]
  <2>1. /\ m \in NodeSpec /\ m.cl = n.cl /\ m.dl = n.dl /\ m.dv = n.dv /\ m.st = n.st
    BY <1>0, <1>6 DEF NodeSpec, OpFits
  <2>2. Good(m)
    BY <1>0, <1>6, <2>1 DEF Agrees, PassKinds
  <2>3. CommitOp(n) = [m EXCEPT !.op = NoOp]
    <3>1. CASE k = "Label"
      BY <3>1 DEF CommitOp
    <3>2. CASE k = "Unlabel"
      BY <3>2 DEF CommitOp
    <3> QED BY <1>6, <3>1, <3>2
  <2> HIDE DEF m, Good
  <2> QED BY <2>2, <2>3
<1>7. CASE k \in PassKinds
  <2> DEFINE m == [n EXCEPT !.dv = IF k = "AddDraining" THEN n.dv \cup a
                                   ELSE IF k = "RemoveDraining" THEN n.dv \ a ELSE {}]
  <2>1. /\ m \in NodeSpec /\ m.cl = n.cl /\ m.dl = n.dl /\ m.st = n.st
        /\ m.dv = IF k = "AddDraining" THEN n.dv \cup a
                   ELSE IF k = "RemoveDraining" THEN n.dv \ a ELSE {}
    BY <1>0, <1>7 DEF NodeSpec, OpFits, PassKinds
  <2>2. n.st = "Draining"
    BY <1>0, <1>7 DEF OpFits, PassKinds, IsDraining
  <2>3. Good(m)
    BY <1>0, <1>7, <2>1, <2>2 DEF Agrees
  <2> QED BY <1>7, <2>3 DEF CommitOp, PassKinds
<1>8. CASE k = "none"
  <2>1. Good(n)
    BY <1>0, <1>8 DEF PassKinds
  <2> QED BY <1>8, <2>1 DEF CommitOp
<1>9. k \in {"none", "Cordon", "Uncordon", "Drain", "Label", "Unlabel",
            "AddDraining", "RemoveDraining", "RemoveAll", "SetDrained"}
  BY <1>0 DEF NodeSpec
<1> QED
  BY <1>2, <1>3, <1>4, <1>5, <1>6, <1>7, <1>8, <1>9 DEF PassKinds

\* A specification without a pending operation is its own clean copy.
LEMMA NoPending ==
  ASSUME NEW n \in NodeSpec
  PROVE  /\ n.op = NoOp => [n EXCEPT !.op = NoOp] = n
         /\ \A o : [[n EXCEPT !.op = o] EXCEPT !.op = NoOp] = [n EXCEPT !.op = NoOp]
BY DEF NodeSpec

\* The initial state.
LEMMA InitInv == Init => IInv
<1> SUFFICES ASSUME Init PROVE IInv
  OBVIOUS
<1> USE DEF Init, NewNode, NoOp
<1>1. TypeOK
  BY DEF TypeOK, NodeSpec, Free, NoPass
<1>2. SoundInv
  BY SMT DEF SoundInv, Sound, NodeSpec, Agrees, OpFits
<1>3. PassInv
  BY DEF PassInv, Free, Dirty
<1>4. StoreInv
  <2>1. mem \in NodeSpec /\ mem.op = NoOp /\ store = mem
    BY <1>1 DEF TypeOK
  <2>2. store = [mem EXCEPT !.op = NoOp]
    BY <2>1, NoPending
  <2> QED BY <2>2 DEF StoreInv
<1>5. OwedInv
  BY DEF OwedInv
<1> QED
  BY <1>1, <1>2, <1>3, <1>4, <1>5 DEF IInv

-----------------------------------------------------------------------------
(* The volumes' own operations.                                            *)

\* A volume that is clear stays so while the node is cordoned: the scheduler
\* places no target on it (next_target_node).
LEMMA VolumeSteps == IInv /\ VolumeStep => IInv'
<1> SUFFICES ASSUME IInv, VolumeStep PROVE IInv'
  OBVIOUS
<1> USE DEF IInv
<1>1. PICK v \in Volumes :
        \/ \E how \in {"sched", "named"} : PublishStart(v, how)
        \/ PublishDone(v) \/ Unpublish(v) \/ ShutdownGone(v)
  BY DEF VolumeStep
<1>2. UNCHANGED <<mem, store, ts, task, pass, reg, owed, raced>>
  BY <1>1 DEF PublishStart, PublishDone, Unpublish, ShutdownGone
<1>3. /\ TypeOK'
      /\ \A w \in Volumes : Cordoned(mem) /\ Clear(w) => Clear(w)'
      /\ \A w \in Volumes : vol'[w].shut => vol[w].shut
  <2> USE DEF TypeOK, Clear, Cordoned
  <2>1. ASSUME NEW how \in {"sched", "named"}, PublishStart(v, how)
        PROVE  /\ TypeOK'
               /\ \A w \in Volumes : Cordoned(mem) /\ Clear(w) => Clear(w)'
               /\ \A w \in Volumes : vol'[w].shut => vol[w].shut
    BY ZenonT(40), <1>2, <2>1 DEF PublishStart, Placed
  <2>2. CASE PublishDone(v)
    <3>1. /\ vol'[v] = [vol[v] EXCEPT !.busy = "no", !.tgt = "here",
                                     !.sched = vol[v].busy = "sched"]
          /\ \A w \in Volumes \ {v} : vol'[w] = vol[w]
          /\ DOMAIN vol' = Volumes
      BY <2>2 DEF PublishDone
    <3>2. /\ vol'[v].busy = "no" /\ vol'[v].shut = vol[v].shut
          /\ vol'[v].sched = (vol[v].busy = "sched")
      BY SMT, <3>1
    <3>3. vol'[v] \in [tgt : {"none", "here", "away"}, sched : BOOLEAN,
                      shut : BOOLEAN, busy : {"no", "sched", "named"}]
      BY <3>1
    <3>5. vol' \in [Volumes -> [tgt : {"none", "here", "away"}, sched : BOOLEAN,
                               shut : BOOLEAN, busy : {"no", "sched", "named"}]]
      BY <2>2, <3>1, <3>3 DEF PublishDone
    <3>4. \A w \in Volumes : Clear(w) => Clear(w)'
      BY <3>1, <3>2
    <3> QED BY <1>2, <3>1, <3>2, <3>5, <3>4
  <2>3. CASE Unpublish(v)
    BY ZenonT(40), <1>2, <2>3 DEF Unpublish
  <2>4. CASE ShutdownGone(v)
    BY ZenonT(40), <1>2, <2>4 DEF ShutdownGone
  <2> QED BY <1>1, <2>1, <2>2, <2>3, <2>4
<1>6. SoundInv'
  BY <1>2 DEF SoundInv
<1>7. PassInv'
  BY <1>2, <1>3 DEF PassInv, IsDraining, Cordoned, Dirty
<1>8. StoreInv'
  <2>1. mem.op.kind = "SetDrained" => Cordoned(mem)
    BY DEF SoundInv, Sound, OpFits, IsDraining, Cordoned
  <2> QED BY <1>2, <1>3, <2>1 DEF StoreInv, Cordoned, Dirty
<1>9. OwedInv'
  BY <1>2, <1>3 DEF OwedInv, Remembered, Dirty, TypeOK
<1> QED
  BY <1>3, <1>6, <1>7, <1>8, <1>9

-----------------------------------------------------------------------------
(* Operations on the specification.                                        *)

OpSet == [kind : {"none", "Cordon", "Uncordon", "Drain", "Label", "Unlabel",
                  "AddDraining", "RemoveDraining", "RemoveAll", "SetDrained"},
          arg : SUBSET (Labels \cup Values \cup Volumes)]

\* Starting an operation records it and nothing else (start_update).
LEMMA Begins ==
  ASSUME IInv, ~Dirty(mem), NEW op \in OpSet, mem' = [mem EXCEPT !.op = op],
         op.kind # "none",
         op.kind \in {"Cordon", "Uncordon", "Drain"} => op.arg \subseteq Labels,
         op.kind = "Label" => op.arg \subseteq Values,
         op.kind = "AddDraining" => op.arg \subseteq Volumes,
         op.kind \in PassKinds \cup {"SetDrained"} => IsDraining(mem)
  PROVE  /\ Sound(mem') /\ Dirty(mem') /\ mem'.op = op
         /\ mem'.st = mem.st /\ mem'.dv = mem.dv
         /\ ~raced => store = [mem' EXCEPT !.op = NoOp]
<1>1. mem \in NodeSpec /\ Agrees(mem)
  BY DEF IInv, SoundInv, Sound
<1>2. /\ mem' \in NodeSpec /\ mem'.op = op /\ mem'.st = mem.st /\ mem'.dv = mem.dv
      /\ mem'.cl = mem.cl /\ mem'.dl = mem.dl
  BY <1>1 DEF NodeSpec, OpSet
<1>3. Sound(mem') /\ Dirty(mem')
  BY <1>1, <1>2 DEF Sound, Agrees, OpFits, PassKinds, IsDraining, Dirty
<1>4. ~raced => store = [mem' EXCEPT !.op = NoOp]
  BY <1>1, NoPending DEF IInv, StoreInv
<1> QED
  BY <1>2, <1>3, <1>4

\* A request which is accepted (start_update_op of the node specification).
LEMMA RequestStep ==
  ASSUME IInv, NEW op \in Requests, Request(op)
  PROVE  IInv'
<1> USE DEF IInv
<1>1. /\ op \in OpSet /\ op.kind \in {"Cordon", "Uncordon", "Drain", "Label", "Unlabel"}
      /\ op.kind \in {"Cordon", "Uncordon", "Drain"} => op.arg \subseteq Labels
      /\ op.kind = "Label" => op.arg \subseteq Values
  BY SMT DEF Requests, Op, OpSet
<1>2. /\ task = Free /\ ~Dirty(mem) /\ mem' = [mem EXCEPT !.op = op]
      /\ task' = [who |-> "req", pc |-> "store"]
      /\ UNCHANGED <<store, ts, pass, reg, vol, owed, raced>>
  BY DEF Request, Begin
<1>3. /\ Sound(mem') /\ Dirty(mem') /\ mem'.op = op
      /\ mem'.st = mem.st /\ mem'.dv = mem.dv
      /\ ~raced => store = [mem' EXCEPT !.op = NoOp]
  BY <1>1, <1>2, Begins DEF PassKinds
<1>4. TypeOK'
  BY <1>2, <1>3 DEF TypeOK, Sound
<1>5. SoundInv'
  BY <1>2, <1>3 DEF SoundInv
<1>6. PassInv'
  BY <1>1, <1>2, <1>3 DEF PassInv
<1>7. StoreInv'
  BY <1>1, <1>2, <1>3 DEF StoreInv, Clear
<1>8. OwedInv'
  BY <1>2, <1>3 DEF OwedInv, Remembered, Free
<1> QED
  BY <1>4, <1>5, <1>6, <1>7, <1>8

\* complete_update: the operation is in the store and in memory.
LEMMA OpStoredStep ==
  ASSUME IInv, OpStored
  PROVE  IInv'
<1> USE DEF IInv
<1> DEFINE k == mem.op.kind
<1>1. /\ task.pc = "store" /\ store' = CommitOp(mem) /\ mem' = CommitOp(mem)
      /\ task' = After(k) /\ pass' = (IF task' = Free THEN NoPass ELSE pass)
      /\ owed' = Awaited(mem', k) /\ UNCHANGED <<reg, vol, raced>>
  BY DEF OpStored
<1>2. ts' \in {"none", "now", "late"}
  BY DEF OpStored, CommitTime, TypeOK
<1>3. /\ Sound(mem') /\ mem'.op = NoOp
      /\ mem'.st = "Drained" => mem.st = "Drained" \/ k = "SetDrained"
      /\ mem'.st = "Draining" /\ k \notin PassKinds => mem'.dv = mem.dv
      /\ k \in PassKinds => mem'.st = mem.st
      /\ k = "AddDraining" => mem'.dv = mem.dv \cup mem.op.arg
      /\ k = "RemoveDraining" => mem'.dv = mem.dv \ mem.op.arg
  BY <1>1, CommitSound DEF SoundInv
<1>4. task' \in {Free, [who |-> "pass", pc |-> "find"], [who |-> "pass", pc |-> "check"]}
  BY <1>1 DEF After
<1>5. TypeOK'
  <2>1. pass' \in [left : SUBSET Volumes, moved : SUBSET Volumes, failed : BOOLEAN]
    BY <1>1 DEF TypeOK, NoPass
  <2>2. owed' \subseteq Volumes
    BY <1>1 DEF TypeOK, Awaited
  <2>3. task' \in {Free, [who |-> "req", pc |-> "store"]}
                   \cup [who : {"pass"}, pc : {"scan", "store", "find", "check"}]
    BY SMT, <1>4
  <2> QED BY <1>1, <1>2, <1>3, <2>1, <2>2, <2>3 DEF TypeOK, Sound
<1>6. SoundInv'
  BY <1>1, <1>3 DEF SoundInv
<1>7. PassInv'
  <2>1. CASE task' = Free
    BY SMT, <1>1, <2>1 DEF PassInv, Free
  <2>2. CASE task' # Free
    <3>1. /\ k \in PassKinds /\ (k = "AddDraining" => ~pass.failed)
          /\ task' \in {[who |-> "pass", pc |-> "find"], [who |-> "pass", pc |-> "check"]}
          /\ pass' = pass
      BY <1>1, <1>4, <2>2 DEF After, PassKinds
    <3>2. task.who = "pass"
      BY SMT, <1>1, <3>1 DEF TypeOK, PassInv, PassKinds, Free
    <3>3. /\ IsDraining(mem) /\ ~pass.failed /\ pass.left = {}
          /\ \A v \in Volumes \ Local : Clear(v)
      BY <1>1, <3>1, <3>2 DEF PassInv, PassKinds
    <3>4. IsDraining(mem')
      BY <1>3, <3>1, <3>3 DEF IsDraining
    <3> QED BY SMT, <1>1, <3>1, <3>3, <3>4 DEF PassInv, Clear
  <2> QED BY <2>1, <2>2
<1>8. StoreInv'
  <2>1. store' = [mem' EXCEPT !.op = NoOp]
    BY <1>1, <1>3, NoPending DEF Sound
  <2>2. mem'.op.kind # "SetDrained"
    BY SMT, <1>3 DEF NoOp
  <2> QED BY <1>1, <1>3, <2>1, <2>2 DEF StoreInv, Clear
<1>9. OwedInv'
  <2> SUFFICES ASSUME NEW v \in owed', vol[v].shut PROVE v \in mem'.dv
    BY <1>1 DEF OwedInv, Remembered
  <2>1. v \in owed /\ IsDraining(mem') /\ k # "RemoveAll"
    BY <1>1 DEF Awaited
  <2>2. v \in mem.dv \/ (v \in pass.moved /\ k = "AddDraining")
    BY <1>1, <2>1 DEF OwedInv, Remembered
  <2>3. CASE k \in PassKinds
    <3>1. task.who = "pass"
      BY SMT, <1>1, <2>3 DEF TypeOK, PassInv, PassKinds, Free
    <3>2. /\ k = "AddDraining" => mem.op.arg = pass.moved
          /\ k = "RemoveDraining" => v \notin mem.op.arg
      BY <1>1, <2>1, <3>1 DEF PassInv, TypeOK
    <3> QED BY <1>3, <2>1, <2>2, <2>3, <3>2 DEF PassKinds
  <2>4. CASE k \notin PassKinds
    BY <1>3, <2>1, <2>2, <2>4 DEF PassKinds, IsDraining
  <2> QED BY <2>3, <2>4
<1> QED
  BY <1>5, <1>6, <1>7, <1>8, <1>9

\* The write of an operation fails, applied or not: it stays pending in memory.
LEMMA OpNotStoredStep ==
  ASSUME IInv, OpNotStored
  PROVE  IInv'
<1> USE DEF IInv
<1>1. /\ task.pc = "store" /\ store' \in {store, CommitOp(mem)}
      /\ task' = Free /\ pass' = NoPass
      /\ UNCHANGED <<mem, ts, reg, vol, owed, raced>>
  BY DEF OpNotStored
<1>2. Dirty(mem) /\ Sound(CommitOp(mem))
  BY <1>1, CommitSound DEF PassInv, SoundInv
<1>3. TypeOK'
  BY <1>1, <1>2 DEF TypeOK, NoPass, Sound
<1>4. SoundInv'
  BY <1>1, <1>2 DEF SoundInv
<1>5. PassInv'
  BY <1>1 DEF PassInv, Free
<1>6. StoreInv'
  BY <1>1, <1>2 DEF StoreInv, Clear, Dirty
<1>7. OwedInv'
  BY <1>1, <1>2 DEF OwedInv, Free, Dirty
<1> QED
  BY <1>3, <1>4, <1>5, <1>6, <1>7

-----------------------------------------------------------------------------
(* The drain reconciler.                                                   *)

\* A pass starts on a draining node and has looked at no volume.
LEMMA PassStartStep ==
  ASSUME IInv, PassStart
  PROVE  IInv'
<1> USE DEF IInv
<1>1. /\ task = Free /\ IsDraining(mem) /\ ts' \in {"none", "now", "late"}
      /\ task' = [who |-> "pass", pc |-> "scan"]
      /\ pass' = [left |-> Volumes, moved |-> {}, failed |-> FALSE]
      /\ UNCHANGED <<mem, store, reg, vol, owed, raced>>
  BY DEF PassStart, NoPass, TypeOK
<1>2. TypeOK'
  BY <1>1 DEF TypeOK
<1>3. SoundInv'
  BY <1>1 DEF SoundInv
<1>4. PassInv'
  BY <1>1 DEF PassInv, IsDraining
<1>5. StoreInv'
  BY <1>1 DEF StoreInv, Clear, Dirty
<1>6. OwedInv'
  BY <1>1 DEF OwedInv, Remembered, Free, Dirty
<1> QED
  BY <1>2, <1>3, <1>4, <1>5, <1>6

\* A volume is looked at: it is moved away, found elsewhere, or the pass fails.
LEMMA ScanStep ==
  ASSUME IInv, NEW v \in Volumes,
         ScanBusy(v) \/ ScanNothing(v) \/ ScanMove(v) \/ ScanMoveFails(v)
  PROVE  IInv'
<1> USE DEF IInv
<1>1. /\ task.pc = "scan" /\ task.who = "pass" /\ IsDraining(mem)
      /\ UNCHANGED <<mem, store, ts, task, reg, raced>>
  BY SMT DEF ScanBusy, ScanNothing, ScanMove, ScanMoveFails, TypeOK, PassInv, Free
<1>2. /\ pass' \in [left : SUBSET Volumes, moved : SUBSET Volumes, failed : BOOLEAN]
      /\ pass'.left = pass.left \ {v}
      /\ pass.moved \subseteq pass'.moved
      /\ pass.failed => pass'.failed
  <2> USE DEF TypeOK
  <2>1. CASE ScanBusy(v)
    BY <2>1 DEF ScanBusy
  <2>2. CASE ScanNothing(v)
    BY <2>2 DEF ScanNothing
  <2>3. CASE ScanMove(v)
    BY <2>3 DEF ScanMove
  <2>4. CASE ScanMoveFails(v)
    BY <2>4 DEF ScanMoveFails
  <2> QED BY <2>1, <2>2, <2>3, <2>4
<1>3. \/ UNCHANGED <<vol, owed>>
      \/ /\ ToMove(v) /\ owed' = owed \cup {v} /\ v \in pass'.moved /\ vol[v].busy = "no"
         /\ vol' = [vol EXCEPT ![v].tgt = "away", ![v].shut = TRUE]
  <2> USE DEF TypeOK
  <2>1. CASE ScanBusy(v)
    BY <2>1 DEF ScanBusy
  <2>2. CASE ScanNothing(v)
    BY <2>2 DEF ScanNothing
  <2>3. CASE ScanMove(v)
    BY <2>3 DEF ScanMove
  <2>4. CASE ScanMoveFails(v)
    BY <2>4 DEF ScanMoveFails
  <2> QED BY <2>1, <2>2, <2>3, <2>4
<1>4. TypeOK'
  <2>1. vol' \in [Volumes -> [tgt : {"none", "here", "away"}, sched : BOOLEAN,
                             shut : BOOLEAN, busy : {"no", "sched", "named"}]]
    BY SMT, <1>3 DEF TypeOK
  <2> QED BY <1>1, <1>2, <1>3, <2>1 DEF TypeOK
<1>5. \A w \in Volumes : Clear(w) => Clear(w)'
  BY SMT, <1>3 DEF TypeOK, Clear
<1>6. ~pass'.failed /\ v \notin Local => Clear(v)'
  <2> USE DEF TypeOK, Clear, ToMove
  <2>1. CASE ScanBusy(v)
    BY <2>1 DEF ScanBusy
  <2>2. CASE ScanNothing(v)
    BY <2>2 DEF ScanNothing
  <2>3. CASE ScanMove(v)
    BY <2>3 DEF ScanMove
  <2>4. CASE ScanMoveFails(v)
    BY <2>4 DEF ScanMoveFails
  <2> QED BY <2>1, <2>2, <2>3, <2>4
<1>7. SoundInv'
  BY <1>1 DEF SoundInv
<1>8. PassInv'
  <2>1. ~pass'.failed => \A w \in Volumes \ (Local \cup pass'.left) : Clear(w)'
    BY <1>1, <1>2, <1>5, <1>6 DEF PassInv
  <2> QED BY <1>1, <2>1 DEF PassInv, IsDraining
<1>9. StoreInv'
  BY <1>1, <1>5 DEF StoreInv, Dirty
<1>10. OwedInv'
  BY SMT, <1>1, <1>2, <1>3 DEF OwedInv, Remembered, Dirty, TypeOK
<1> QED
  BY <1>4, <1>7, <1>8, <1>9, <1>10

\* The pass starts an operation of its own, or ends because another one is pending.
LEMMA PassUpdateStep ==
  ASSUME IInv, task.who = "pass", task.pc \in {"scan", "find", "check"},
         NEW op \in OpSet, PassUpdate(op),
         op.kind \in PassKinds \cup {"SetDrained"}, pass.left = {},
         op.kind # "AddDraining" => ~pass.failed /\ task.pc # "scan",
         op.kind = "AddDraining" => op.arg = pass.moved,
         op.kind = "RemoveDraining" => \A v \in op.arg \cap Volumes : ~vol[v].shut,
         op.kind = "SetDrained" => mem.dv = {}
  PROVE  IInv'
<1> USE DEF IInv
<1>1. UNCHANGED <<store, ts, reg, vol, owed, raced>>
  BY DEF PassUpdate
<1>2. CASE Dirty(mem)
  <2>1. UNCHANGED mem /\ task' = Free /\ pass' = NoPass
    BY <1>2 DEF PassUpdate
  <2>2. TypeOK'
    BY <1>1, <2>1 DEF TypeOK, NoPass
  <2>3. SoundInv' /\ StoreInv'
    BY <1>1, <2>1 DEF SoundInv, StoreInv, Clear, Dirty
  <2>4. PassInv' /\ OwedInv'
    BY <1>2, <2>1 DEF PassInv, OwedInv, Free, Dirty
  <2> QED BY <2>2, <2>3, <2>4
<1>3. CASE ~Dirty(mem)
  <2>1. /\ mem' = [mem EXCEPT !.op = op] /\ task' = [who |-> "pass", pc |-> "store"]
        /\ UNCHANGED pass
    BY <1>3 DEF PassUpdate, Begin
  <2>2. IsDraining(mem)
    BY DEF PassInv
  <2>3. /\ Sound(mem') /\ Dirty(mem') /\ mem'.op = op
        /\ mem'.st = mem.st /\ mem'.dv = mem.dv
        /\ ~raced => store = [mem' EXCEPT !.op = NoOp]
    BY <1>3, <2>1, <2>2, Begins DEF PassKinds, TypeOK
  <2>4. TypeOK'
    BY <1>1, <2>1, <2>3 DEF TypeOK, Sound
  <2>5. SoundInv'
    BY <1>1, <2>3 DEF SoundInv
  <2>6. ~pass.failed => \A v \in Volumes \ Local : Clear(v)'
    BY <1>1 DEF PassInv, Clear
  <2>7. PassInv'
    BY <1>1, <2>1, <2>2, <2>3, <2>6 DEF PassInv, PassKinds, IsDraining
  <2>8. StoreInv'
    BY <1>1, <2>2, <2>3, <2>6 DEF StoreInv, IsDraining
  <2>9. OwedInv'
    BY <1>1, <1>3, <2>1, <2>3 DEF OwedInv, Remembered
  <2> QED BY <2>4, <2>5, <2>7, <2>8, <2>9
<1> QED
  BY <1>2, <1>3

\* add_draining_volumes, find_shutdown_volumes and set_drained.
LEMMA PassSteps ==
  ASSUME IInv, PassAdd \/ PassFind \/ PassCheck
  PROVE  IInv'
<1> USE DEF IInv
<1>1. task.who = "pass"
  BY SMT DEF PassAdd, PassFind, PassCheck, TypeOK, Free
<1>2. CASE PassAdd
  <2>1. Op("AddDraining", pass.moved) \in OpSet
    BY DEF Op, OpSet, TypeOK
  <2> QED BY <1>1, <1>2, <2>1, PassUpdateStep DEF PassAdd, Op, PassKinds
<1>3. CASE PassFind
  <2>1. task.pc = "find" /\ pass.left = {} /\ ~pass.failed
    BY <1>1, <1>3 DEF PassFind, PassInv
  <2>2. CASE ts = "now"
    <3> DEFINE op == Op("RemoveDraining", {v \in mem.dv : ~vol[v].shut})
    <3>1. op \in OpSet
      BY DEF Op, OpSet, TypeOK, NodeSpec
    <3> QED BY <1>1, <1>3, <2>1, <2>2, <3>1, PassUpdateStep DEF PassFind, Op, PassKinds
  <2>3. CASE ts # "now"
    <3>1. Op("RemoveAll", {}) \in OpSet
      BY DEF Op, OpSet
    <3> QED BY <1>1, <1>3, <2>1, <2>3, <3>1, PassUpdateStep DEF PassFind, Op, PassKinds
  <2> QED BY <2>2, <2>3
<1>4. CASE PassCheck
  <2>1. task.pc = "check" /\ pass.left = {} /\ ~pass.failed
    BY <1>1, <1>4 DEF PassCheck, PassInv
  <2>2. CASE mem.dv = {} /\ PassUpdate(Op("SetDrained", {}))
    <3>1. Op("SetDrained", {}) \in OpSet
      BY DEF Op, OpSet
    <3> QED BY <1>1, <2>1, <2>2, <3>1, PassUpdateStep DEF Op, PassKinds
  <2>3. CASE /\ mem.dv # {} /\ task' = Free /\ pass' = NoPass
             /\ UNCHANGED <<mem, store, ts, reg, vol, owed, raced, events, published>>
    <3>1. TypeOK'
      BY <2>3 DEF TypeOK, NoPass
    <3>2. SoundInv' /\ StoreInv'
      BY <2>3 DEF SoundInv, StoreInv, Clear, Dirty
    <3>3. PassInv' /\ OwedInv'
      BY <2>1, <2>3 DEF PassInv, OwedInv, Remembered, Free, Dirty
    <3> QED BY <3>1, <3>2, <3>3
  <2> QED BY <1>4, <2>2, <2>3 DEF PassCheck
<1> QED
  BY <1>2, <1>3, <1>4

-----------------------------------------------------------------------------
(* Registration, time and restarts.                                        *)

\* A registration copies what is in memory, and may write it to the store later.
LEMMA RegisterSteps ==
  ASSUME IInv, Register \/ RegisterStored \/ RegisterNotStored \/ TimeOut
  PROVE  IInv'
<1> USE DEF IInv
<1>1. /\ UNCHANGED <<mem, task, pass, vol, owed>> /\ ts' \in {"none", "now", "late"}
      /\ reg' \in {reg, {mem}, {}}
  BY DEF Register, RegisterStored, RegisterNotStored, TimeOut, TypeOK
<1>2. \/ UNCHANGED <<store, raced>>
      \/ \E n \in reg : store' = n /\ raced' = (raced \/ Dirty(n) \/ n # mem)
  BY DEF Register, RegisterStored, RegisterNotStored, TimeOut
<1>3. TypeOK'
  <2>1. raced' \in BOOLEAN /\ store' \in NodeSpec
    BY <1>2 DEF TypeOK
  <2>2. reg' \subseteq NodeSpec /\ \A m, n \in reg' : m = n
    BY <1>1 DEF TypeOK
  <2> QED BY <1>1, <2>1, <2>2 DEF TypeOK
<1>4. SoundInv'
  BY <1>1, <1>2 DEF SoundInv
<1>5. PassInv' /\ OwedInv'
  BY <1>1 DEF PassInv, OwedInv, Remembered, Clear, IsDraining, Dirty
<1>6. StoreInv'
  <2>1. CASE UNCHANGED <<store, raced>>
    BY <1>1, <2>1 DEF StoreInv, Clear, Dirty
  <2>2. ASSUME NEW n \in reg, store' = n, raced' = (raced \/ Dirty(n) \/ n # mem)
        PROVE  StoreInv'
    <3> SUFFICES ASSUME ~raced' PROVE StoreInv'
      BY DEF StoreInv
    <3>1. ~raced /\ store' = mem /\ mem.op.kind = "none"
      BY <2>2 DEF Dirty
    <3>2. mem \in NodeSpec /\ mem.op = NoOp
      <4>1. mem \in NodeSpec /\ mem.op \in OpSet /\ mem.op.arg = {}
        BY <3>1 DEF SoundInv, Sound, OpFits, NodeSpec, OpSet
      <4> QED BY <3>1, <4>1 DEF OpSet, NoOp
    <3>3. store' = [mem EXCEPT !.op = NoOp]
      BY <3>1, <3>2, NoPending
    <3> QED BY <1>1, <3>1, <3>3 DEF StoreInv, Clear
  <2> QED BY <1>2, <2>1, <2>2
<1> QED
  BY <1>3, <1>4, <1>5, <1>6

\* A restart brings back what the store has, which a write on its way may still change.
LEMMA CrashStep ==
  ASSUME IInv, Crash
  PROVE  IInv'
<1> USE DEF IInv
<1>1. /\ store' \in {store} \cup reg \cup (IF task.pc = "store" THEN {CommitOp(mem)} ELSE {})
      /\ raced' = (raced \/ (store' \in reg /\ store' # store))
      /\ mem' = store' /\ ts' = "none" /\ task' = Free /\ pass' = NoPass /\ reg' = {}
      /\ owed' = mem'.dv
  BY DEF Crash
<1>2. PICK done \in SUBSET {v \in Volumes : vol[v].busy # "no"} :
        vol' = [v \in Volumes |->
                  IF v \in done
                  THEN [vol[v] EXCEPT !.busy = "no", !.tgt = "here",
                                      !.sched = vol[v].busy = "sched"]
                  ELSE [vol[v] EXCEPT !.busy = "no"]]
  BY DEF Crash
<1>3. Sound(store')
  BY <1>1, CommitSound DEF SoundInv
<1>4. ASSUME NEW v \in Volumes
      PROVE  /\ vol'[v] \in [tgt : {"none", "here", "away"}, sched : BOOLEAN,
                             shut : BOOLEAN, busy : {"no", "sched", "named"}]
             /\ Clear(v) => Clear(v)'
  <2>1. CASE v \in done
    <3>1. vol'[v] = [vol[v] EXCEPT !.busy = "no", !.tgt = "here",
                                   !.sched = vol[v].busy = "sched"]
      BY <1>2, <2>1
    <3>2. vol'[v].busy = "no" /\ vol'[v].sched = (vol[v].busy = "sched")
      BY SMT, <3>1 DEF TypeOK
    <3> QED BY <3>1, <3>2 DEF TypeOK, Clear
  <2>2. CASE v \notin done
    <3>1. vol'[v] = [vol[v] EXCEPT !.busy = "no"]
      BY <1>2, <2>2
    <3> QED BY SMT, <3>1 DEF TypeOK, Clear
  <2> QED BY <2>1, <2>2
<1>5. TypeOK'
  <2>1. vol' \in [Volumes -> [tgt : {"none", "here", "away"}, sched : BOOLEAN,
                             shut : BOOLEAN, busy : {"no", "sched", "named"}]]
    <3>1. DOMAIN vol' = Volumes /\ vol' = [v \in Volumes |-> vol'[v]]
      BY <1>2
    <3> QED BY <1>4, <3>1
  <2>2. owed' \subseteq Volumes
    BY <1>1, <1>3 DEF Sound, NodeSpec
  <2>3. raced' \in BOOLEAN
    BY <1>1 DEF TypeOK
  <2> QED BY <1>1, <1>3, <2>1, <2>2, <2>3 DEF TypeOK, Sound, NoPass
<1>6. SoundInv'
  BY <1>1, <1>3 DEF SoundInv
<1>7. PassInv'
  BY <1>1 DEF PassInv, Free
<1>8. StoreInv'
  <2> SUFFICES ASSUME ~raced' PROVE StoreInv'
    BY DEF StoreInv
  <2>1. ~raced /\ store' \in {store, CommitOp(mem)}
    BY <1>1
  <2>2. mem \in NodeSpec /\ Sound(mem)
    BY DEF SoundInv, Sound
  <2>3. /\ store'.op = NoOp
        /\ store'.st = "Drained" => mem.st = "Drained" \/ mem.op.kind = "SetDrained"
    <3>1. CASE store' = CommitOp(mem)
      BY <2>2, <3>1, CommitSound
    <3>2. CASE store' = [mem EXCEPT !.op = NoOp]
      BY <2>2, <3>2 DEF NodeSpec
    <3> QED BY <2>1, <3>1, <3>2 DEF StoreInv
  <2>4. store' = [mem' EXCEPT !.op = NoOp]
    BY <1>1, <1>3, <2>3, NoPending DEF Sound
  <2>5. mem'.op.kind # "SetDrained"
    BY SMT, <1>1, <2>3 DEF NoOp
  <2> QED BY <1>1, <1>4, <2>1, <2>3, <2>4, <2>5 DEF StoreInv
<1>9. OwedInv'
  BY <1>1 DEF OwedInv, Remembered
<1> QED
  BY <1>5, <1>6, <1>7, <1>8, <1>9

-----------------------------------------------------------------------------
\* IInv holds of every state of every behaviour.
LEMMA Invariant == Spec => []IInv
<1>1. IInv /\ [Next]_nodevars => IInv'
  <2> SUFFICES ASSUME IInv, [Next]_nodevars PROVE IInv'
    OBVIOUS
  <2>1. CASE Next
    BY <2>1, VolumeSteps, RequestStep, OpStoredStep, OpNotStoredStep, PassStartStep, ScanStep,
       PassSteps, RegisterSteps, CrashStep DEF Next, Reconcile
  <2>2. CASE UNCHANGED nodevars
    BY SMT, <2>2 DEF nodevars, IInv, TypeOK, SoundInv, PassInv, StoreInv, OwedInv, Remembered,
       Clear, Dirty, IsDraining
  <2> QED BY <2>1, <2>2
<1> QED
  BY <1>1, InitInv, PTL DEF Spec

\* What the agent knows of a node, and has stored of it, is true: the state and
\* the labels agree, a drained node serves no target the scheduler placed there
\* and an acknowledged change survives a restart, for any labels and volumes and
\* any number of requests, failed writes, registrations and restarts.
THEOREM NodeSpecHolds == Spec => []NodeSpecIsTrue
<1>1. IInv => NodeSpecIsTrue
  <2> SUFFICES ASSUME IInv PROVE NodeSpecIsTrue
    OBVIOUS
  <2>1. LabelsAgree
    BY DEF IInv, SoundInv, Sound, LabelsAgree
  <2>2. DrainedIsClear
    BY DEF IInv, StoreInv, DrainedIsClear
  <2>3. NodeIsPersisted
    <3> SUFFICES ASSUME ~raced, mem.op.kind = "none" PROVE store = mem
      BY DEF NodeIsPersisted, Dirty
    <3>1. mem \in NodeSpec /\ mem.op = NoOp
      <4>1. mem \in NodeSpec /\ mem.op \in OpSet /\ mem.op.arg = {}
        BY DEF IInv, SoundInv, Sound, OpFits, NodeSpec, OpSet
      <4> QED BY <4>1 DEF OpSet, NoOp
    <3> QED BY <3>1, NoPending DEF IInv, StoreInv, Dirty
  <2> QED BY <2>1, <2>2, <2>3 DEF NodeSpecIsTrue
<1> QED
  BY <1>1, Invariant, PTL

\* A drain ends only when every volume it moved away has lost its shutdown target
\* or 120 seconds have passed, however the moves, the passes and the restarts
\* interleave (find_shutdown_volumes).
THEOREM DrainsWait == Spec => DrainWaits
<1>1. IInv /\ [Next]_nodevars => [DrainWaitsStep]_nodevars
  <2> SUFFICES ASSUME IInv, OpStored, mem.op.kind = "SetDrained", NEW v \in owed
               PROVE  ~vol[v].shut
    BY DEF DrainWaitsStep
  <2>1. task.pc = "store" /\ task.who = "pass"
    BY SMT DEF IInv, TypeOK, OpStored, PassInv, Free
  <2>2. mem.dv = {}
    BY <2>1 DEF IInv, PassInv
  <2> QED BY <2>1, <2>2 DEF IInv, OwedInv, Remembered
<1> QED
  BY <1>1, Invariant, PTL DEF Spec, DrainWaits
=============================================================================
