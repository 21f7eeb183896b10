------------------------- MODULE VolumeTargetProofs -------------------------
(***************************************************************************)
(* TLAPS proofs about VolumeTarget: two nexuses the frontend is connected  *)
(* to never write one replica, for any nodes, replicas and bounds.         *)
(***************************************************************************)
EXTENDS VolumeTarget, TLAPS

\* The leaves are first-order; the ones that need more name SMT.
USE Zenon

-----------------------------------------------------------------------------
(* Steps that take no replica                                              *)

\* The nexus i ends the step with no more children and reservations than it had,
\* and what its specification says of it is still true.
Well(i) ==
  /\ engine'[i].run # "absent" =>
       /\ engine[i].run # "absent" /\ nspec'[i].st \notin {"none", "Creating"}
       /\ nspec'[i].node = nspec[i].node /\ nspec'[i].kids = nspec[i].kids
  /\ ~Open(i)' => engine'[i].kids = {} /\ engine'[i].reb = {}
  /\ engine'[i].kids \cup engine'[i].reb \subseteq engine[i].kids \cup engine[i].reb
  /\ engine'[i].res \subseteq engine[i].res
  /\ engine'[i].infl # 0 => engine'[i].run = "shared"
  /\ nspec'[i].st = "Shutdown" /\ Open(i)' => nspec'[i].failed /\ ~nspec'[i].again

\* A nexus the step leaves alone.
LEMMA SameIsWell ==
  ASSUME EngineInv, NEW i \in Ids, nspec'[i] = nspec[i], engine'[i] = engine[i]
  PROVE  Well(i)
  BY DEF EngineInv, Well, Open

\* A nexus of which only a reservation is lost.
LEMMA PreemptedIsWell ==
  ASSUME EngineInv, NEW i \in Ids, nspec'[i] = nspec[i], engine'[i].run = engine[i].run,
         engine'[i].kids = engine[i].kids, engine'[i].reb = engine[i].reb,
         engine'[i].infl = engine[i].infl, engine'[i].res \subseteq engine[i].res
  PROVE  Well(i)
  BY DEF EngineInv, Well, Open

\* A nexus which stopped, or is gone, whatever became of its specification.
LEMMA StoppedIsWell ==
  ASSUME EngineInv, NEW i \in Ids, NEW run \in {"absent", "down"},
         engine'[i] = [Absent EXCEPT !.run = run],
         run = "down" => /\ engine[i].run # "absent" /\ nspec'[i].st \notin {"none", "Creating"}
                         /\ nspec'[i].node = nspec[i].node /\ nspec'[i].kids = nspec[i].kids
  PROVE  Well(i)
<1>1. /\ engine'[i].run = run /\ engine'[i].kids = {} /\ engine'[i].reb = {}
      /\ engine'[i].res = {} /\ engine'[i].infl = 0
  BY SMT DEF Absent
<1>2. ~Open(i)'
  BY <1>1 DEF Open
<1> QED
  BY <1>1, <1>2 DEF Well

\* A nexus whose specification alone changes, other than to the state it has
\* before the io-engine has created it.
LEMMA RespecifiedIsWell ==
  ASSUME EngineInv, NEW i \in Ids, engine'[i] = engine[i],
         nspec'[i].node = nspec[i].node, nspec'[i].kids = nspec[i].kids,
         engine[i].run # "absent" => nspec'[i].st \notin {"none", "Creating"},
         nspec'[i].st = "Shutdown" /\ Open(i) => nspec'[i].failed /\ ~nspec'[i].again
  PROVE  Well(i)
  BY DEF EngineInv, Well, Open

\* No step that takes no replica can break what keeps the writers apart.
LEMMA WellKeeps ==
  ASSUME WInv, \A i \in Ids : Well(i), \A i \in Ids : Live(i)' => Live(i),
         (op.kind \in Publishing /\ op.pc = "create")' =>
           \A i \in Ids : Live(i) /\ Open(i) => \A r \in nspec'[op'.nx].kids : ~LocalChild(i, r)
  PROVE  EngineInv' /\ ExclusiveInv' /\ LocalInv'
<1> USE DEF WInv
<1>1. EngineInv'
  <2> SUFFICES ASSUME NEW i \in Ids
               PROVE  (/\ nspec[i].st \in {"none", "Creating"} => engine[i].run = "absent"
                       /\ nspec[i].st = "Shutdown" /\ Open(i) => nspec[i].failed /\ ~nspec[i].again
                       /\ engine[i].kids \cup engine[i].reb \subseteq nspec[i].kids
                       /\ ~Open(i) => engine[i].kids = {} /\ engine[i].reb = {}
                       /\ engine[i].infl # 0 => engine[i].run = "shared")'
    BY DEF EngineInv, Ids
  <2>1. Well(i)
    OBVIOUS
  <2>2. (engine[i].kids \cup engine[i].reb \subseteq nspec[i].kids)'
    <3>1. CASE Open(i)'
      BY <2>1, <3>1 DEF Well, EngineInv, Open
    <3>2. CASE ~Open(i)'
      BY <2>1, <3>2 DEF Well
    <3> QED BY <3>1, <3>2
  <2> QED
    BY <2>1, <2>2 DEF Well
<1>2. ExclusiveInv'
  <2> SUFFICES ASSUME NEW i \in Ids, NEW j \in Ids
               PROVE  (/\ engine[i].run # "absent" /\ engine[j].run # "absent"
                          /\ nspec[i].node = nspec[j].node => i = j
                       /\ engine[i].res \cap engine[j].res # {} => i = j)'
    BY DEF ExclusiveInv, Ids
  <2>1. Well(i) /\ Well(j)
    OBVIOUS
  <2>2. (engine[i].run # "absent" /\ engine[j].run # "absent" /\ nspec[i].node = nspec[j].node)' => i = j
    <3>1. engine[i].run # "absent" /\ engine[j].run # "absent" /\ nspec[i].node = nspec[j].node => i = j
      BY DEF ExclusiveInv
    <3>2. engine'[i].run # "absent" => engine[i].run # "absent" /\ nspec'[i].node = nspec[i].node
      BY <2>1 DEF Well
    <3>3. engine'[j].run # "absent" => engine[j].run # "absent" /\ nspec'[j].node = nspec[j].node
      BY <2>1 DEF Well
    <3> QED
      BY <3>1, <3>2, <3>3
  <2>3. engine'[i].res \subseteq engine[i].res /\ engine'[j].res \subseteq engine[j].res
    BY <2>1 DEF Well
  <2>4. (engine[i].res \cap engine[j].res # {})' => i = j
    BY <2>3 DEF ExclusiveInv
  <2> QED
    BY <2>2, <2>4
<1>3. ASSUME NEW i \in Ids, NEW r, Open(i)', LocalChild(i, r)'
      PROVE  Open(i) /\ LocalChild(i, r)
  <2>1. Well(i)
    OBVIOUS
  <2>2. nspec'[i].node = nspec[i].node
    BY <2>1, <1>3 DEF Well, Open
  <2>3. LocalChild(i, r)
    BY <2>1, <2>2, <1>3 DEF Well, LocalChild
  <2> QED
    BY <2>3 DEF EngineInv, LocalChild
<1>4. LocalInv'
  <2> SUFFICES ASSUME NEW i \in Ids, Live(i)', Open(i)'
               PROVE  (/\ \A j \in Ids, r \in Replicas : LocalChild(i, r) /\ r \in engine[j].res => i = j
                       /\ op.kind \in Publishing /\ op.pc = "create" =>
                            \A r \in nspec[op.nx].kids : ~LocalChild(i, r))'
    BY DEF LocalInv, Ids
  <2>1. Live(i)
    OBVIOUS
  <2>2. ASSUME NEW j \in Ids, NEW r \in Replicas, LocalChild(i, r)', r \in engine'[j].res
        PROVE  i = j
    <3>1. LocalChild(i, r) /\ Open(i)
      BY <1>3, <2>2
    <3>2. r \in engine[j].res
      BY <2>2 DEF Well
    <3> QED
      BY <2>1, <3>1, <3>2 DEF LocalInv
  <2>3. (op.kind \in Publishing /\ op.pc = "create")' => \A r \in nspec'[op'.nx].kids : ~LocalChild(i, r)'
    BY <1>3, <2>1
  <2> QED
    BY <2>2, <2>3 DEF Ids
<1> QED
  BY <1>1, <1>2, <1>4

-----------------------------------------------------------------------------
(* Steps by which a nexus takes replicas                                   *)

\* What the specification of nexus i says of it in the io-engine: EngineInv for i.
Said(i) ==
  /\ nspec[i].st \in {"none", "Creating"} => engine[i].run = "absent"
  /\ nspec[i].st = "Shutdown" /\ Open(i) => nspec[i].failed /\ ~nspec[i].again
  /\ engine[i].kids \cup engine[i].reb \subseteq nspec[i].kids
  /\ ~Open(i) => engine[i].kids = {} /\ engine[i].reb = {}
  /\ engine[i].infl # 0 => engine[i].run = "shared"

\* A nexus in use may take replicas, if it takes their reservations from all
\* others and none of them is a local child of another nexus in use.
LEMMA TakingKeeps ==
  ASSUME WInv, NEW i \in Ids, NEW kids \in SUBSET Replicas,
         \A j \in Ids \ {i} : Well(j) /\ engine'[j].res \cap kids = {},
         Said(i)', nspec'[i].node = nspec[i].node, Open(i) => Live(i),
         engine'[i].res \subseteq engine[i].res \cup kids,
         engine'[i].kids \cup engine'[i].reb \subseteq engine[i].kids \cup engine[i].reb \cup kids,
         \A j \in Ids \ {i} : engine'[j].run # "absent" => nspec'[j].node # nspec'[i].node,
         \A j \in Ids \ {i} : Live(j)' => Live(j),
         \A j \in Ids \ {i} : \A r \in kids : Live(j) /\ Open(j) => ~LocalChild(j, r),
         ~(op.kind \in Publishing /\ op.pc = "create")'
  PROVE  EngineInv' /\ ExclusiveInv' /\ LocalInv'
<1> USE DEF WInv
<1>1. EngineInv'
  <2> SUFFICES ASSUME NEW j \in Ids PROVE Said(j)'
    BY DEF EngineInv, Said, Ids
  <2>1. CASE j = i
    BY <2>1
  <2>2. CASE j # i
    <3>1. Well(j)
      BY <2>2
    <3>2. (engine[j].kids \cup engine[j].reb \subseteq nspec[j].kids)'
      <4>1. CASE Open(j)'
        BY <3>1, <4>1 DEF Well, EngineInv, Open
      <4>2. CASE ~Open(j)'
        BY <3>1, <4>2 DEF Well
      <4> QED BY <4>1, <4>2
    <3> QED
      BY <3>1, <3>2 DEF Well, Said
  <2> QED BY <2>1, <2>2
<1>2. ExclusiveInv'
  <2> SUFFICES ASSUME NEW j \in Ids, NEW k \in Ids, j # k
               PROVE  (/\ ~(engine[j].run # "absent" /\ engine[k].run # "absent"
                            /\ nspec[j].node = nspec[k].node)
                       /\ engine[j].res \cap engine[k].res = {})'
    BY DEF ExclusiveInv, Ids
  <2>1. engine[j].res \cap engine[k].res = {}
    BY DEF ExclusiveInv
  <2>2. CASE j = i
    <3>1. Well(k) /\ engine'[k].res \cap kids = {}
      BY <2>2
    <3> QED
      BY <2>1, <2>2, <3>1 DEF Well
  <2>3. CASE k = i
    <3>1. Well(j) /\ engine'[j].res \cap kids = {}
      BY <2>3
    <3> QED
      BY <2>1, <2>3, <3>1 DEF Well
  <2>4. CASE j # i /\ k # i
    <3>1. Well(j) /\ Well(k)
      BY <2>4
    <3>2. ~(engine[j].run # "absent" /\ engine[k].run # "absent" /\ nspec[j].node = nspec[k].node)'
      <4>1. ~(engine[j].run # "absent" /\ engine[k].run # "absent" /\ nspec[j].node = nspec[k].node)
        BY DEF ExclusiveInv
      <4>2. engine'[j].run # "absent" => engine[j].run # "absent" /\ nspec'[j].node = nspec[j].node
        BY <3>1 DEF Well
      <4>3. engine'[k].run # "absent" => engine[k].run # "absent" /\ nspec'[k].node = nspec[k].node
        BY <3>1 DEF Well
      <4> QED
        BY <4>1, <4>2, <4>3
    <3>3. engine'[j].res \subseteq engine[j].res /\ engine'[k].res \subseteq engine[k].res
      BY <3>1 DEF Well
    <3> QED
      BY <2>1, <3>2, <3>3
  <2> QED BY <2>2, <2>3, <2>4
<1>3. LocalInv'
  <2> SUFFICES ASSUME NEW j \in Ids, Live(j)', Open(j)', NEW k \in Ids, NEW r \in Replicas,
                      LocalChild(j, r)', r \in engine'[k].res, j # k
               PROVE  FALSE
    BY DEF LocalInv, Ids
  <2>1. CASE j = i
    <3>1. Well(k) /\ r \notin kids
      BY <2>1
    <3>2. r \in engine[k].res
      BY <3>1 DEF Well
    <3>3. LocalChild(i, r)
      BY <2>1, <3>1 DEF LocalChild
    <3>4. Open(i)
      BY <3>3 DEF EngineInv, LocalChild
    <3> QED
      BY <2>1, <3>2, <3>3, <3>4 DEF LocalInv
  <2>2. CASE j # i
    <3>1. Well(j) /\ Live(j)
      BY <2>2
    <3>2. LocalChild(j, r) /\ Open(j)
      <4>1. LocalChild(j, r)
        BY <3>1 DEF Well, LocalChild, Open
      <4> QED BY <4>1 DEF EngineInv, LocalChild
    <3>3. r \notin kids
      BY <2>2, <3>1, <3>2
    <3>4. r \in engine[k].res
      <4>1. CASE k = i
        BY <3>3, <4>1
      <4>2. CASE k # i
        BY <4>2 DEF Well
      <4> QED BY <4>1, <4>2
    <3> QED
      BY <3>1, <3>2, <3>4 DEF LocalInv
  <2> QED BY <2>1, <2>2
<1> QED
  BY <1>1, <1>2, <1>3

\* A replica local to a nexus whose shutdown failed is not reservable.
LEMMA Fenced ==
  ASSUME EngineInv, NEW j \in Ids, nspec[j].st = "Shutdown", Open(j),
         NEW r, LocalChild(j, r)
  PROVE  ~Reservable(r)
  BY DEF EngineInv, LocalChild, Reservable

-----------------------------------------------------------------------------
(* The operators the actions are built from                                *)

\* What Taken changes: only the reservations.
LEMMA TakenFields ==
  ASSUME NEW e \in [Ids -> Engines], NEW i \in Ids, NEW kids \in SUBSET Replicas, NEW n
  PROVE  /\ Taken(i, kids, n, e) \in [Ids -> Engines]
         /\ \A j \in Ids : /\ Taken(i, kids, n, e)[j].run = e[j].run
                           /\ Taken(i, kids, n, e)[j].kids = e[j].kids
                           /\ Taken(i, kids, n, e)[j].reb = e[j].reb
                           /\ Taken(i, kids, n, e)[j].infl = e[j].infl
                           /\ j # i => Taken(i, kids, n, e)[j].res = e[j].res \ kids
         /\ Taken(i, kids, n, e)[i].res \subseteq e[i].res \cup kids
<1> DEFINE t == Taken(i, kids, n, e)
           more == e[i].res \cup {r \in kids : Home[r] # n}
<1>1. ASSUME NEW j \in Ids, j # i
      PROVE  /\ t[j] \in Engines /\ t[j].run = e[j].run /\ t[j].kids = e[j].kids
             /\ t[j].reb = e[j].reb /\ t[j].infl = e[j].infl /\ t[j].res = e[j].res \ kids
  <2>1. t[j] = [e[j] EXCEPT !.res = e[j].res \ kids]
    BY <1>1 DEF Taken
  <2>2. e[j] \in Engines
    OBVIOUS
  <2> HIDE DEF t
  <2> QED BY SMT, <2>1, <2>2 DEF Engines
<1>2. /\ t[i] \in Engines /\ t[i].run = e[i].run /\ t[i].kids = e[i].kids
      /\ t[i].reb = e[i].reb /\ t[i].infl = e[i].infl /\ t[i].res = more
  <2>1. t[i] = [e[i] EXCEPT !.res = more]
    BY DEF Taken
  <2>2. e[i] \in Engines /\ more \in SUBSET Replicas
    <3>1. e[i] \in Engines
      OBVIOUS
    <3> QED BY SMT, <3>1 DEF Engines
  <2> HIDE DEF t, more
  <2> QED BY SMT, <2>1, <2>2 DEF Engines
<1>3. t = [j \in Ids |-> t[j]]
  BY DEF Taken
<1>4. more \subseteq e[i].res \cup kids
  OBVIOUS
<1> HIDE DEF t, more
<1>5. t \in [Ids -> Engines]
  BY <1>1, <1>2, <1>3
<1>6. \A j \in Ids : /\ t[j].run = e[j].run /\ t[j].kids = e[j].kids /\ t[j].reb = e[j].reb
                     /\ t[j].infl = e[j].infl /\ (j # i => t[j].res = e[j].res \ kids)
  BY <1>1, <1>2
<1> QED
  BY <1>2, <1>4, <1>5, <1>6 DEF t

\* What MakeAccessible changes: reservations are lost.
LEMMA AccessibleFields ==
  ASSUME engine \in [Ids -> Engines], NEW kids, NEW n
  PROVE  /\ MakeAccessible(kids, n) \in [Ids -> Engines]
         /\ \A j \in Ids : /\ MakeAccessible(kids, n)[j].run = engine[j].run
                           /\ MakeAccessible(kids, n)[j].kids = engine[j].kids
                           /\ MakeAccessible(kids, n)[j].reb = engine[j].reb
                           /\ MakeAccessible(kids, n)[j].infl = engine[j].infl
                           /\ MakeAccessible(kids, n)[j].res \subseteq engine[j].res
<1> DEFINE m == MakeAccessible(kids, n)
           cut == {r \in kids : Home[r] = n}
<1>1. m = [j \in Ids |-> [engine[j] EXCEPT !.res = engine[j].res \ cut]]
  BY DEF MakeAccessible
<1> HIDE DEF m, cut
<1>2. ASSUME NEW j \in Ids
      PROVE  /\ m[j] \in Engines /\ m[j].run = engine[j].run /\ m[j].kids = engine[j].kids
             /\ m[j].reb = engine[j].reb /\ m[j].infl = engine[j].infl /\ m[j].res \subseteq engine[j].res
  <2>1. m[j] = [engine[j] EXCEPT !.res = engine[j].res \ cut] /\ engine[j] \in Engines
    BY <1>1
  <2> QED BY SMT, <2>1 DEF Engines
<1>3. m \in [Ids -> Engines]
  BY <1>1, <1>2
<1> QED
  BY <1>2, <1>3 DEF m

\* The nexuses t are the nexuses e in which nexus i has opened.
OpensInto(i, kids, e, t) ==
  /\ t \in [Ids -> Engines]
  /\ \A j \in Ids \ {i} : /\ t[j].run = e[j].run /\ t[j].kids = e[j].kids
                          /\ t[j].reb = e[j].reb /\ t[j].infl = e[j].infl
                          /\ t[j].res = e[j].res \ kids
  /\ t[i].run = "open" /\ t[i].kids = kids /\ t[i].reb = {} /\ t[i].infl = 0
  /\ t[i].res \subseteq kids

\* A nexus that opens has the children it was asked for, and no reservation but theirs.
LEMMA OpenedFields ==
  ASSUME NEW e \in [Ids -> Engines], NEW i \in Ids, NEW kids \in SUBSET Replicas, NEW n, MaxWrites \in Nat
  PROVE  OpensInto(i, kids, e, Opened(i, kids, n, e))
<1> DEFINE new == [Absent EXCEPT !.run = "open", !.kids = kids]
           d == [e EXCEPT ![i] = new]
           t == Taken(i, kids, n, d)
<1>1. /\ new.run = "open" /\ new.kids = kids /\ new.reb = {} /\ new.infl = 0 /\ new.res = {}
      /\ new \in Engines
  <2> DEFINE run == [Absent EXCEPT !.run = "open"]
  <2>1. /\ run.run = "open" /\ run.kids = {} /\ run.reb = {} /\ run.infl = 0 /\ run.res = {}
        /\ run \in Engines
    BY SMT DEF Absent, Engines
  <2>2. new = [run EXCEPT !.kids = kids]
    OBVIOUS
  <2> HIDE DEF new, run
  <2> QED BY SMT, <2>1, <2>2 DEF Engines
<1> HIDE DEF new
<1>2. d \in [Ids -> Engines] /\ d[i] = new /\ \A j \in Ids \ {i} : d[j] = e[j]
  BY <1>1
<1> HIDE DEF d
<1>3. /\ t \in [Ids -> Engines]
      /\ \A j \in Ids : /\ t[j].run = d[j].run /\ t[j].kids = d[j].kids
                        /\ t[j].reb = d[j].reb /\ t[j].infl = d[j].infl
                        /\ j # i => t[j].res = d[j].res \ kids
      /\ t[i].res \subseteq d[i].res \cup kids
  <2>1. d \in [Ids -> Engines]
    BY <1>2
  <2> HIDE DEF t
  <2>2. /\ t \in [Ids -> Engines]
        /\ \A j \in Ids : /\ t[j].run = d[j].run
                          /\ t[j].kids = d[j].kids
                          /\ t[j].reb = d[j].reb
                          /\ t[j].infl = d[j].infl
                          /\ j # i => t[j].res = d[j].res \ kids
        /\ t[i].res \subseteq d[i].res \cup kids
    BY <2>1, TakenFields DEF t
  <2> QED BY <2>2
<1> HIDE DEF t
<1>4. /\ t \in [Ids -> Engines]
      /\ \A j \in Ids \ {i} : /\ t[j].run = e[j].run /\ t[j].kids = e[j].kids
                              /\ t[j].reb = e[j].reb /\ t[j].infl = e[j].infl
                              /\ t[j].res = e[j].res \ kids
      /\ t[i].run = "open" /\ t[i].kids = kids /\ t[i].reb = {} /\ t[i].infl = 0
      /\ t[i].res \subseteq kids
  BY <1>1, <1>2, <1>3
<1>5. Opened(i, kids, n, e) = t
  BY DEF Opened, t, d, new
<1> QED
  BY <1>4, <1>5 DEF OpensInto

-----------------------------------------------------------------------------
(* Types                                                                   *)

\* The kind of an operation tells its fields.
LEMMA OpKinds ==
  ASSUME TypeOK
  PROVE  /\ op.kind \in Publishing => op \in PublishOps
         /\ op.kind = "unpublish" => op \in UnpublishOps
         /\ op \in PublishOps => op.nx \in Ids /\ op.node \in Nodes
         /\ op \in UnpublishOps => op.old \in Ids
<1>1. op.kind \in Publishing => op \in PublishOps
  BY SMT DEF TypeOK, Publishing, Idle, UnpublishOps
<1>2. op.kind = "unpublish" => op \in UnpublishOps
  BY SMT DEF TypeOK, Publishing, Idle, PublishOps
<1>3. /\ op \in PublishOps => op.nx \in Ids /\ op.node \in Nodes
      /\ op \in UnpublishOps => op.old \in Ids
  BY SMT DEF PublishOps, UnpublishOps
<1> QED BY <1>1, <1>2, <1>3

\* An operation that moves on keeps all but its program counter.
LEMMA OpMoves ==
  ASSUME op \in PublishOps,
         NEW p \in {"shutdown", "read", "pick", "create", "cas", "share", "drop", "complete", "forget"}
  PROVE  LET o == [op EXCEPT !.pc = p] IN
         /\ o \in PublishOps /\ o.pc = p
         /\ o.kind = op.kind /\ o.nx = op.nx /\ o.node = op.node /\ o.old = op.old
  BY SMT DEF PublishOps

\* The records of a nexus that stopped in order, or that the store forgets.
LEMMA InfoTypes ==
  ASSUME TypeOK, NEW i \in Ids
  PROVE  Cleanly(i) \in NexusInfos /\ NoInfo \in NexusInfos /\ Ended(i) \in NexusInfos
<1>1. NoInfo \in NexusInfos
  BY SMT DEF NoInfo, NexusInfos
<1>2. Cleanly(i) \in NexusInfos
  <2>1. info[i] \in NexusInfos
    BY DEF TypeOK
  <2> DEFINE c == info[i].clean \/ (info[i].has /\ engine[i].run \in {"open", "shared"})
  <2>2. c \in BOOLEAN
    OBVIOUS
  <2>3. Cleanly(i) = [info[i] EXCEPT !.clean = c, !.rev = TRUE]
    BY DEF Cleanly
  <2> HIDE DEF c
  <2> QED BY <2>1, <2>2, <2>3 DEF NexusInfos
<1> QED BY <1>1, <1>2 DEF Ended

LEMMA RecordTypes ==
  ASSUME MaxWrites \in Nat
  PROVE  /\ NoSpec \in NexusSpecs /\ Absent \in Engines /\ [Absent EXCEPT !.run = "down"] \in Engines
         /\ \A kids \in SUBSET Replicas : OpenedInfo(kids) \in NexusInfos
         /\ Absent = [Absent EXCEPT !.run = "absent"]
<1>1. NoSpec \in NexusSpecs
  BY SMT DEF NoSpec, NexusSpecs
<1>2. Absent \in Engines
  BY SMT DEF Absent, Engines
<1>3. [Absent EXCEPT !.run = "down"] \in Engines
  BY SMT, <1>2 DEF Engines
<1>4. \A kids \in SUBSET Replicas : OpenedInfo(kids) \in NexusInfos
  BY SMT DEF OpenedInfo, NexusInfos
<1>5. Absent = [Absent EXCEPT !.run = "absent"]
  BY SMT DEF Absent
<1> QED BY <1>1, <1>2, <1>3, <1>4, <1>5

\* Requests to shut down and to destroy a nexus.
LEMMA ShutdownTypes ==
  ASSUME TypeOK, MaxWrites \in Nat, NEW i \in Ids, ShutdownNexus(i)
  PROVE  /\ nspec' \in [Ids -> NexusSpecs] /\ engine' \in [Ids -> Engines] /\ info' \in [Ids -> NexusInfos]
         /\ \A j \in Ids \ {i} : nspec'[j] = nspec[j] /\ engine'[j] = engine[j]
         /\ nspec'[i].st = "Shutdown" /\ nspec'[i].node = nspec[i].node /\ nspec'[i].kids = nspec[i].kids
         /\ \/ engine[i].run # "absent" /\ engine'[i] = [Absent EXCEPT !.run = "down"]
            \/ engine'[i] = engine[i] /\ (engine[i].run # "absent" => nspec'[i].failed /\ ~nspec'[i].again)
<1>1. PICK res \in Outcomes(nspec[i].node), persist \in BOOLEAN :
         /\ nspec' = [nspec EXCEPT ![i].st = "Shutdown", ![i].again = FALSE, ![i].failed = res # "ok"]
         /\ IF res = "fail" \/ engine[i].run = "absent"
              THEN UNCHANGED <<engine, info>>
              ELSE /\ engine' = [engine EXCEPT ![i] = [Absent EXCEPT !.run = "down"]]
                   /\ info' = IF persist THEN [info EXCEPT ![i] = Cleanly(i)] ELSE info
  BY DEF ShutdownNexus
<1>2. nspec[i] \in NexusSpecs /\ (res # "ok") \in BOOLEAN
  BY DEF TypeOK
<1>3. /\ nspec' \in [Ids -> NexusSpecs] /\ \A j \in Ids \ {i} : nspec'[j] = nspec[j]
      /\ nspec'[i].st = "Shutdown" /\ nspec'[i].node = nspec[i].node /\ nspec'[i].kids = nspec[i].kids
      /\ nspec'[i].failed = (res # "ok") /\ ~nspec'[i].again
  <2> DEFINE s == [nspec[i] EXCEPT !.st = "Shutdown", !.again = FALSE, !.failed = res # "ok"]
  <2>1. /\ s \in NexusSpecs /\ s.st = "Shutdown" /\ s.node = nspec[i].node /\ s.kids = nspec[i].kids
        /\ s.failed = (res # "ok") /\ ~s.again
    BY <1>2 DEF NexusSpecs
  <2>2. nspec' = [nspec EXCEPT ![i] = s]
    BY <1>1 DEF TypeOK
  <2> HIDE DEF s
  <2> QED BY <2>1, <2>2 DEF TypeOK
<1>4. CASE res = "fail" \/ engine[i].run = "absent"
  BY <1>1, <1>3, <1>4 DEF TypeOK
<1>5. CASE ~(res = "fail" \/ engine[i].run = "absent")
  <2>1. /\ engine' = [engine EXCEPT ![i] = [Absent EXCEPT !.run = "down"]]
        /\ info' = IF persist THEN [info EXCEPT ![i] = Cleanly(i)] ELSE info
    BY <1>1, <1>5
  <2>2. engine' \in [Ids -> Engines] /\ engine'[i] = [Absent EXCEPT !.run = "down"]
        /\ \A j \in Ids \ {i} : engine'[j] = engine[j]
    BY <2>1, RecordTypes DEF TypeOK
  <2>3. info' \in [Ids -> NexusInfos]
    BY <2>1, InfoTypes DEF TypeOK
  <2> QED BY <1>3, <1>5, <2>2, <2>3
<1> QED BY <1>4, <1>5

LEMMA DestroyTypes ==
  ASSUME TypeOK, MaxWrites \in Nat, NEW i \in Ids, DestroyNexus(i)
  PROVE  /\ nspec' \in [Ids -> NexusSpecs] /\ engine' \in [Ids -> Engines] /\ info' \in [Ids -> NexusInfos]
         /\ \A j \in Ids \ {i} : nspec'[j] = nspec[j] /\ engine'[j] = engine[j]
         /\ \/ engine'[i] = Absent
            \/ /\ engine'[i] = engine[i] /\ nspec'[i].st = "Deleting"
               /\ nspec'[i].node = nspec[i].node /\ nspec'[i].kids = nspec[i].kids
<1>1. PICK res \in Outcomes(nspec[i].node) :
         /\ nspec' = [nspec EXCEPT ![i] = IF res = "ok" THEN NoSpec ELSE [nspec[i] EXCEPT !.st = "Deleting"]]
         /\ engine' = IF res = "fail" THEN engine ELSE [engine EXCEPT ![i] = Absent]
         /\ info' = CASE res = "fail" -> info
                      [] res = "lost" -> [info EXCEPT ![i] = Cleanly(i)]
                      [] OTHER -> [info EXCEPT ![i] = Ended(i)]
  BY DEF DestroyNexus
<1>2. res \in {"ok", "lost", "fail"}
  BY DEF Outcomes
<1> DEFINE gone == [nspec[i] EXCEPT !.st = "Deleting"]
<1>3. nspec[i] \in NexusSpecs
  BY DEF TypeOK
<1>4. gone \in NexusSpecs /\ gone.st = "Deleting" /\ gone.node = nspec[i].node /\ gone.kids = nspec[i].kids
  BY SMT, <1>3 DEF NexusSpecs
<1>5. nspec' \in [Ids -> NexusSpecs] /\ (\A j \in Ids \ {i} : nspec'[j] = nspec[j])
      /\ (res # "ok" => nspec'[i] = gone)
  <2> HIDE DEF gone
  <2>1. nspec' = [nspec EXCEPT ![i] = IF res = "ok" THEN NoSpec ELSE gone]
    BY <1>1 DEF gone
  <2> QED BY <2>1, <1>4, RecordTypes DEF TypeOK
<1>6. engine' \in [Ids -> Engines] /\ (\A j \in Ids \ {i} : engine'[j] = engine[j])
      /\ (engine'[i] = Absent \/ (res = "fail" /\ engine'[i] = engine[i]))
  <2>1. CASE res = "fail"
    BY <1>1, <2>1 DEF TypeOK
  <2>2. CASE res # "fail"
    <3>1. engine' = [engine EXCEPT ![i] = Absent]
      BY <1>1, <2>2
    <3>2. Absent \in Engines
      BY RecordTypes
    <3> QED BY <3>1, <3>2 DEF TypeOK
  <2> QED BY <2>1, <2>2
<1>7. info' \in [Ids -> NexusInfos]
  <2>1. \/ info' = info \/ info' = [info EXCEPT ![i] = Cleanly(i)]
        \/ info' = [info EXCEPT ![i] = Ended(i)]
    BY <1>1, <1>2
  <2> QED BY <2>1, InfoTypes DEF TypeOK
<1> QED BY <1>4, <1>5, <1>6, <1>7

-----------------------------------------------------------------------------
(* Every step keeps the invariant: steps that leave the nexuses alone      *)

\* Only the nexuses in use and the operation can have changed.
LEMMA NexusesSame ==
  ASSUME WInv, UNCHANGED <<nspec, engine>>, \A i \in Ids : Live(i)' => Live(i),
         (op.kind \in Publishing /\ op.pc = "create")' => op' = op
  PROVE  EngineInv' /\ ExclusiveInv' /\ LocalInv'
<1>1. \A i \in Ids : Well(i)
  BY SameIsWell DEF WInv
<1>2. (op.kind \in Publishing /\ op.pc = "create")' =>
        \A i \in Ids : Live(i) /\ Open(i) => \A r \in nspec'[op'.nx].kids : ~LocalChild(i, r)
  BY DEF WInv, LocalInv
<1> QED BY <1>1, <1>2, WellKeeps

\* An operation that ends leaves nothing to say of it.
LEMMA IdleFacts == Idle.kind = "idle" /\ Idle.kind \notin Publishing /\ Idle.kind # "unpublish"
  BY DEF Idle, Publishing

LEMMA EndsOp ==
  ASSUME op' = Idle
  PROVE  /\ OpInv' /\ ~(op.kind \in Publishing)' /\ op'.kind # "unpublish"
         /\ \A i : Live(i)' <=> (i \in paths' \/ (vol'.active /\ i = vol'.target))
  BY IdleFacts DEF OpInv, Publishing, Live

\* Node and link faults, and the registry's poll, change nothing the invariant speaks of.
LEMMA Quiet ==
  ASSUME WInv, UNCHANGED <<vol, nspec, op, engine, paths>>, TypeOK'
  PROVE  WInv'
<1>1. PathInv' /\ OpInv'
  BY DEF WInv, PathInv, OpInv
<1>2. \A i \in Ids : Live(i)' => Live(i)
  BY DEF Live
<1> QED BY <1>1, <1>2, NexusesSame DEF WInv

LEMMA PollKeeps ==
  ASSUME WInv, NEW n \in Nodes, NodeUp(n) \/ LinkDown(n) \/ LinkUp(n) \/ Poll(n)
  PROVE  WInv'
<1>1. UNCHANGED <<vol, nspec, op, engine, paths>>
  BY DEF NodeUp, LinkDown, LinkUp, Poll
<1>2. UNCHANGED <<info, acked, data>> /\ up' \subseteq Nodes /\ link' \subseteq Nodes /\ seen' \subseteq Nodes
  BY DEF NodeUp, LinkDown, LinkUp, Poll, WInv, TypeOK
<1>3. TypeOK'
  BY <1>1, <1>2 DEF WInv, TypeOK, Ids, NexusSpecs, NexusInfos, Engines, PublishOps, UnpublishOps
<1> QED BY <1>1, <1>3, Quiet

\* publish and republish draw a nexus that nothing refers to.
LEMMA StartKeeps ==
  ASSUME WInv, NEW n \in Nodes, PublishStart(n) \/ \E c \in BOOLEAN : RepublishStart(n, c)
  PROVE  WInv'
<1>0. PICK o \in PublishOps :
        /\ op' = o /\ o.nx = NewId /\ o.old = vol.target
        /\ \/ o.kind = "publish" /\ o.pc = "pick" /\ ~vol.active
           \/ o.kind = "republish" /\ o.pc = "shutdown" /\ vol.active
        /\ op = Idle /\ Fresh # {} /\ NewId \in Ids
  <2>1. Fresh # {} /\ op = Idle
    BY DEF PublishStart, RepublishStart
  <2>2. NewId \in Ids
    BY <2>1 DEF NewId, Fresh
  <2>3. vol.target \in 0..MaxNexus
    BY DEF WInv, TypeOK
  <2>4. CASE PublishStart(n)
    <3> DEFINE o == [kind |-> "publish", pc |-> "pick", nx |-> NewId, node |-> n,
                     old |-> vol.target, has |-> FALSE, confirm |-> FALSE]
    <3>1. op' = o /\ ~vol.active
      BY <2>4 DEF PublishStart
    <3>2. o \in PublishOps
      BY <2>2, <2>3 DEF PublishOps, Publishing
    <3> QED BY <2>1, <2>2, <3>1, <3>2
  <2>5. ASSUME NEW c \in BOOLEAN, RepublishStart(n, c)
        PROVE  \E o \in PublishOps :
                 /\ op' = o /\ o.nx = NewId /\ o.old = vol.target
                 /\ o.kind = "republish" /\ o.pc = "shutdown" /\ vol.active
    <3> DEFINE o == [kind |-> "republish", pc |-> "shutdown", nx |-> NewId, node |-> n,
                     old |-> vol.target, has |-> FALSE, confirm |-> c]
    <3>1. op' = o /\ vol.active
      BY <2>5 DEF RepublishStart
    <3>2. o \in PublishOps
      BY <2>2, <2>3 DEF PublishOps, Publishing
    <3> QED BY <3>1, <3>2
  <2> QED BY <2>1, <2>2, <2>4, <2>5
<1>1. UNCHANGED <<vol, nspec, info, engine, data, acked, paths, up, link, seen>>
  BY DEF PublishStart, RepublishStart
<1>2. nspec[NewId].st = "none" /\ NewId # vol.target /\ NewId \notin paths
  BY <1>0 DEF NewId, Fresh
<1>3. TypeOK'
  BY <1>0, <1>1 DEF WInv, TypeOK, Ids, NexusSpecs, NexusInfos, Engines, PublishOps, UnpublishOps
<1>4. PathInv'
  BY <1>0, <1>1 DEF WInv, PathInv, Publishing, Ids
<1>5. OpInv'
  BY <1>0, <1>1, <1>2 DEF OpInv, Publishing
<1>6. \A i \in Ids : Live(i)' => Live(i)
  BY <1>0, <1>1 DEF Live
<1>7. (op.kind \in Publishing /\ op.pc = "create")' => op' = op
  BY <1>0
<1> QED BY <1>1, <1>3, <1>4, <1>5, <1>6, <1>7, NexusesSame DEF WInv

\* What an operation of a republish is about.
LEMMA Republishes ==
  ASSUME WInv, op.kind = "republish"
  PROVE  /\ op \in PublishOps /\ op.kind \in Publishing /\ op.old = vol.target /\ op.old \in Ids
         /\ vol.active /\ op.nx \in Ids /\ op.node \in Nodes
  BY OpKinds DEF WInv, OpInv, PathInv, Publishing

\* An operation that is undone, with the nexuses as they were.
LEMMA UndoKeeps ==
  ASSUME WInv, Undo, UNCHANGED <<nspec, info, engine, data, acked, paths, up, link, seen>>
  PROVE  WInv'
<1>1. op' = Idle /\ UNCHANGED vol
  BY DEF Undo
<1>2. TypeOK'
  BY <1>1 DEF WInv, TypeOK, Ids, NexusSpecs, NexusInfos, Engines, PublishOps, UnpublishOps
<1>3. OpInv' /\ ~(op.kind \in Publishing)' /\ op'.kind # "unpublish"
  BY <1>1, EndsOp
<1>4. PathInv'
  BY <1>1, <1>3 DEF WInv, PathInv, Ids
<1>5. \A i \in Ids : Live(i)' => Live(i)
  BY <1>1, EndsOp DEF Live
<1> QED BY <1>2, <1>3, <1>4, <1>5, NexusesSame DEF WInv

\* The NexusInfo of the older nexus is read.
LEMMA ReadInfoKeeps ==
  ASSUME WInv, RepublishReadInfo
  PROVE  WInv'
<1>0. /\ op.kind = "republish" /\ op.pc = "read"
      /\ UNCHANGED <<nspec, engine, data, acked, paths, up, link, seen>>
      /\ \/ /\ op' = [op EXCEPT !.pc = "pick", !.has = info[op.old].has]
            /\ info' = [info EXCEPT ![op.old].rev = FALSE]
            /\ UNCHANGED vol
         \/ Undo /\ UNCHANGED info
  BY DEF RepublishReadInfo
<1>1. CASE Undo /\ UNCHANGED info
  BY <1>0, <1>1, UndoKeeps
<1>2. CASE /\ op' = [op EXCEPT !.pc = "pick", !.has = info[op.old].has]
           /\ info' = [info EXCEPT ![op.old].rev = FALSE]
           /\ UNCHANGED vol
  <2>1. op \in PublishOps /\ op.old \in Ids /\ op.kind \in Publishing
    BY <1>0, Republishes
  <2>2. info[op.old] \in NexusInfos
    BY <2>1 DEF WInv, TypeOK
  <2>3. info[op.old].has \in BOOLEAN /\ [info[op.old] EXCEPT !.rev = FALSE] \in NexusInfos
    BY <2>2 DEF NexusInfos
  <2>4. /\ op' \in PublishOps /\ op'.pc = "pick" /\ op'.kind = op.kind /\ op'.nx = op.nx
        /\ op'.node = op.node /\ op'.old = op.old
    BY <1>2, <2>1, <2>3 DEF PublishOps
  <2>5. info' \in [Ids -> NexusInfos]
    BY <1>2, <2>1, <2>3 DEF WInv, TypeOK
  <2>6. TypeOK'
    BY <1>0, <1>2, <2>4, <2>5 DEF WInv, TypeOK, Ids, NexusSpecs, NexusInfos, Engines, PublishOps, UnpublishOps
  <2>7. PathInv'
    BY <1>0, <1>2, <2>4 DEF WInv, PathInv, Ids
  <2>8. OpInv'
    BY SMT, <1>0, <1>2, <2>1, <2>4 DEF WInv, OpInv, Publishing
  <2>9. \A i \in Ids : Live(i)' => Live(i)
    BY <1>0, <1>2, <2>4 DEF Live
  <2>10. (op.kind \in Publishing /\ op.pc = "create")' => op' = op
    BY <2>4
  <2> QED BY <1>0, <2>6, <2>7, <2>8, <2>9, <2>10, NexusesSame DEF WInv
<1> QED BY <1>0, <1>1, <1>2

\* The older nexus is told to shut itself down, or the republish fails.
LEMMA CasKeeps ==
  ASSUME WInv, RepublishCas
  PROVE  WInv'
<1>0. /\ op.kind = "republish" /\ op.pc = "cas"
      /\ UNCHANGED <<vol, nspec, engine, data, acked, paths, up, link, seen>>
      /\ \E p \in {"share", "drop"} : op' = [op EXCEPT !.pc = p]
      /\ info' = info \/ info' = [info EXCEPT ![op.old].stop = TRUE, ![op.old].rev = TRUE]
  BY DEF RepublishCas
<1>1. op \in PublishOps /\ op.old \in Ids /\ op.kind \in Publishing
  BY <1>0, Republishes
<1>2. /\ op' \in PublishOps /\ op'.pc \in {"share", "drop"} /\ op'.kind = op.kind /\ op'.nx = op.nx
      /\ op'.node = op.node /\ op'.old = op.old
  <2>1. PICK p \in {"share", "drop"} : op' = [op EXCEPT !.pc = p]
    BY <1>0
  <2> QED BY <1>1, <2>1 DEF PublishOps
<1>3. info' \in [Ids -> NexusInfos]
  <2>1. info[op.old] \in NexusInfos
    BY <1>1 DEF WInv, TypeOK
  <2>2. [info[op.old] EXCEPT !.stop = TRUE, !.rev = TRUE] \in NexusInfos
    BY <2>1 DEF NexusInfos
  <2>3. info' = info \/ info' = [info EXCEPT ![op.old] = [info[op.old] EXCEPT !.stop = TRUE, !.rev = TRUE]]
    BY <1>0, <1>1 DEF WInv, TypeOK
  <2> QED BY <1>1, <2>2, <2>3 DEF WInv, TypeOK
<1>4. TypeOK'
  BY <1>0, <1>2, <1>3 DEF WInv, TypeOK, Ids, NexusSpecs, NexusInfos, Engines, PublishOps, UnpublishOps
<1>5. PathInv'
  BY <1>0, <1>2 DEF WInv, PathInv, Ids
<1>6. OpInv'
  BY <1>0, <1>1, <1>2 DEF WInv, OpInv, Publishing
<1>7. \A i \in Ids : Live(i)' => Live(i)
  BY <1>0, <1>1, <1>2 DEF Live
<1>8. (op.kind \in Publishing /\ op.pc = "create")' => op' = op
  BY <1>2
<1> QED BY <1>0, <1>4, <1>5, <1>6, <1>7, <1>8, NexusesSame DEF WInv

\* complete_update: the new nexus was in use already, and the target it replaces is Shutdown.
LEMMA CompleteKeeps ==
  ASSUME WInv, PublishComplete
  PROVE  WInv'
<1>0. /\ op.kind \in Publishing /\ op.pc = "complete"
      /\ vol' = [vol EXCEPT !.target = op.nx, !.active = TRUE]
      /\ op' = IF op.kind = "publish" /\ op.old # 0 THEN [op EXCEPT !.pc = "forget"] ELSE Idle
      /\ UNCHANGED <<nspec, info, engine, data, acked, paths, up, link, seen>>
  BY DEF PublishComplete, Publishing
<1>1. op \in PublishOps /\ op.nx \in Ids
  BY <1>0, OpKinds DEF WInv
<1>2. /\ op' = Idle \/ (op' \in PublishOps /\ op'.kind = "publish" /\ op'.pc = "forget")
      /\ op'.kind # "unpublish"
  <2>1. CASE op.kind = "publish" /\ op.old # 0
    <3>1. op' = [op EXCEPT !.pc = "forget"]
      BY <1>0, <2>1
    <3> QED BY <1>1, <2>1, <3>1 DEF PublishOps
  <2>2. CASE ~(op.kind = "publish" /\ op.old # 0)
    <3>1. op' = Idle
      BY <1>0, <2>2
    <3> QED BY <3>1, IdleFacts
  <2> QED BY <2>1, <2>2
<1>3. op.nx \in 0..MaxNexus
  BY SMT, <1>1 DEF Ids
<1>4. /\ vol' \in [target : 0..MaxNexus, active : BOOLEAN, pend : BOOLEAN]
      /\ vol'.target = op.nx /\ vol'.active
  BY <1>0, <1>3 DEF WInv, TypeOK
<1>5. TypeOK'
  BY <1>0, <1>2, <1>4 DEF WInv, TypeOK, Ids, NexusSpecs, NexusInfos, Engines, PublishOps, UnpublishOps
<1>6. PathInv'
  <2>1. ASSUME NEW i \in paths, i # op.nx PROVE nspec[i].st = "Shutdown"
    <3>1. CASE op.kind = "publish"
      BY <1>0, <3>1 DEF WInv, PathInv, OpInv
    <3>2. CASE op.kind = "republish"
      BY <1>0, <2>1, <3>2 DEF WInv, PathInv, OpInv
    <3> QED BY <1>0, <3>1, <3>2 DEF Publishing
  <2> QED BY <1>0, <1>1, <1>2, <1>4, <2>1 DEF PathInv, Ids
<1>7. OpInv'
  BY <1>2, IdleFacts DEF OpInv
<1>8. \A i \in Ids : Live(i)' => Live(i)
  BY <1>0, <1>2, <1>4, IdleFacts DEF Live
<1>9. (op.kind \in Publishing /\ op.pc = "create")' => op' = op
  BY <1>2, IdleFacts
<1> QED BY <1>0, <1>5, <1>6, <1>7, <1>8, <1>9, NexusesSame DEF WInv

\* publish deletes the NexusInfo of the previous target.
LEMMA ForgetKeeps ==
  ASSUME WInv, PublishForget
  PROVE  WInv'
<1>0. /\ op' = Idle /\ info' = [info EXCEPT ![op.old] = NoInfo] /\ op.kind = "publish"
      /\ UNCHANGED <<vol, nspec, engine, data, acked, paths, up, link, seen>>
  BY DEF PublishForget
<1>1. NoInfo \in NexusInfos
  BY DEF NoInfo, NexusInfos
<1>2. info' \in [Ids -> NexusInfos]
  BY <1>0, <1>1 DEF WInv, TypeOK
<1>3. TypeOK'
  BY <1>0, <1>2 DEF WInv, TypeOK, Ids, NexusSpecs, NexusInfos, Engines, PublishOps, UnpublishOps
<1>4. OpInv' /\ ~(op.kind \in Publishing)' /\ op'.kind # "unpublish"
  BY <1>0, EndsOp
<1>5. PathInv'
  BY <1>0, <1>4 DEF WInv, PathInv, Ids
<1>6. \A i \in Ids : Live(i)' => Live(i)
  BY <1>0, EndsOp DEF Live
<1> QED BY <1>0, <1>3, <1>4, <1>5, <1>6, NexusesSame DEF WInv

\* unpublish starts, or its dirty volume is cleared.
LEMMA UnpublishKeeps ==
  ASSUME WInv, ReconcileDirty \/ \E f \in BOOLEAN : UnpublishStart(f)
  PROVE  WInv'
<1>1. CASE ReconcileDirty
  <2>1. op = Idle /\ vol' = [vol EXCEPT !.pend = FALSE]
        /\ UNCHANGED <<nspec, op, info, engine, data, acked, paths, up, link, seen>>
    BY <1>1 DEF ReconcileDirty
  <2>2. /\ vol' \in [target : 0..MaxNexus, active : BOOLEAN, pend : BOOLEAN]
        /\ vol'.target = vol.target /\ vol'.active = vol.active
    BY <2>1 DEF WInv, TypeOK
  <2>3. TypeOK'
    BY <2>1, <2>2 DEF WInv, TypeOK, Ids, NexusSpecs, NexusInfos, Engines, PublishOps, UnpublishOps
  <2>4. OpInv' /\ ~(op.kind \in Publishing)' /\ op'.kind # "unpublish"
    BY <2>1, EndsOp
  <2>5. PathInv'
    BY <2>1, <2>2, <2>4 DEF WInv, PathInv, Ids
  <2>6. \A i \in Ids : Live(i)' => Live(i)
    BY <2>1, <2>2 DEF Live
  <2> QED BY <2>1, <2>3, <2>4, <2>5, <2>6, NexusesSame DEF WInv
<1>2. ASSUME NEW f \in BOOLEAN, UnpublishStart(f)
      PROVE  WInv'
  <2>1. /\ op = Idle /\ vol.active /\ paths = {}
        /\ op' = [kind |-> "unpublish", pc |-> "destroy", old |-> vol.target, nx |-> vol.target,
                  confirm |-> f]
        /\ UNCHANGED <<vol, nspec, info, engine, data, acked, paths, up, link, seen>>
    BY <1>2 DEF UnpublishStart
  <2>2. vol.target \in Ids
    BY <2>1 DEF WInv, PathInv
  <2>3. op' \in UnpublishOps /\ op'.kind = "unpublish" /\ op'.old = vol.target
    BY <2>1, <2>2 DEF UnpublishOps
  <2>4. TypeOK'
    BY <2>1, <2>3 DEF WInv, TypeOK, Ids, NexusSpecs, NexusInfos, Engines, PublishOps, UnpublishOps
  <2>5. OpInv' /\ ~(op.kind \in Publishing)'
    BY <2>1, <2>3 DEF OpInv, Publishing
  <2>6. PathInv'
    BY <2>1, <2>2 DEF PathInv, Ids
  <2>7. \A i \in Ids : Live(i)' => Live(i)
    BY <2>1, <2>5 DEF Live
  <2> QED BY <2>1, <2>4, <2>5, <2>6, <2>7, NexusesSame DEF WInv
<1> QED BY <1>1, <1>2

\* The frontend connects to the target, or leaves a nexus.
LEMMA FrontendKeeps ==
  ASSUME WInv, Connect \/ \E i \in Ids : Disconnect(i)
  PROVE  WInv'
<1>1. /\ UNCHANGED <<vol, nspec, op, info, engine, data, acked, up, link, seen>>
      /\ \/ paths' \subseteq paths
         \/ paths' = paths \cup {vol.target} /\ vol.active /\ op.kind # "unpublish"
  BY DEF Connect, Disconnect
<1>2. vol.active => vol.target \in Ids
  BY DEF WInv, PathInv
<1>3. paths' \subseteq Ids
  BY <1>1, <1>2 DEF WInv, TypeOK
<1>4. TypeOK'
  BY <1>1, <1>3 DEF WInv, TypeOK, Ids, NexusSpecs, NexusInfos, Engines, PublishOps, UnpublishOps
<1>5. PathInv'
  BY <1>1 DEF WInv, PathInv, Ids
<1>6. OpInv'
  BY <1>1 DEF WInv, OpInv
<1>7. \A i \in Ids : Live(i)' => Live(i)
  BY <1>1 DEF Live
<1> QED BY <1>1, <1>4, <1>5, <1>6, <1>7, NexusesSame DEF WInv

-----------------------------------------------------------------------------
(* Steps of nexuses that take no replica                                   *)

\* Such a step keeps the invariant if the nexuses of the operation and of the
\* frontend's paths stay what they are known to be.
LEMMA NexusKeeps ==
  ASSUME WInv, TypeOK', UNCHANGED <<vol, op, paths>>, \A i \in Ids : Well(i),
         \A i \in paths : i # vol.target => nspec'[i].st = "Shutdown",
         op.kind \in Publishing => nspec'[op.nx] = nspec[op.nx],
         op.kind = "republish" => nspec'[op.old].st = nspec[op.old].st
  PROVE  WInv'
<1>1. PathInv'
  BY DEF WInv, PathInv, Ids
<1>2. OpInv'
  BY SMT DEF WInv, OpInv, Publishing
<1>3. \A i \in Ids : Live(i)' => Live(i)
  BY DEF Live
<1>4. (op.kind \in Publishing /\ op.pc = "create")' =>
        \A i \in Ids : Live(i) /\ Open(i) => \A r \in nspec'[op'.nx].kids : ~LocalChild(i, r)
  BY DEF WInv, LocalInv
<1> QED BY <1>1, <1>2, <1>3, <1>4, WellKeeps DEF WInv

LEMMA EngineKeeps ==
  ASSUME WInv, TypeOK', UNCHANGED <<vol, op, paths, nspec>>, \A i \in Ids : Well(i)
  PROVE  WInv'
<1>1. \A i \in paths : i # vol.target => nspec'[i].st = "Shutdown"
  BY DEF WInv, PathInv
<1> QED BY <1>1, NexusKeeps

\* A nexus of which only the share or the write in flight changes.
LEMMA RunIsWell ==
  ASSUME EngineInv, NEW i \in Ids, nspec'[i] = nspec[i], engine[i].run # "absent", engine'[i].run = "shared",
         nspec[i].st # "Shutdown" \/ engine[i].run = "shared",
         engine'[i].kids \cup engine'[i].reb \subseteq engine[i].kids \cup engine[i].reb,
         engine'[i].res = engine[i].res
  PROVE  Well(i)
  BY DEF EngineInv, Well, Open

\* share makes the new nexus, and fixup_nexus_protocol a recreated target, reachable.
LEMMA ShareKeeps ==
  ASSUME WInv, ShareNexus
  PROVE  WInv'
<1>i. PICK i : i = op.nx
  OBVIOUS
<1>0. /\ op.kind \in Publishing /\ op.pc = "share"
      /\ \E p \in {"complete", "drop"} : op' = [op EXCEPT !.pc = p]
      /\ \/ engine' = engine
         \/ engine[i].run # "absent" /\ engine' = [engine EXCEPT ![i].run = "shared"]
      /\ UNCHANGED <<vol, nspec, info, data, acked, paths, up, link, seen>>
  BY <1>i DEF ShareNexus, Publishing
<1>1. op \in PublishOps /\ i \in Ids
  BY <1>i, <1>0, OpKinds DEF WInv
<1>2. /\ op' \in PublishOps /\ op'.pc \in {"complete", "drop"} /\ op'.kind = op.kind /\ op'.nx = op.nx
      /\ op'.node = op.node /\ op'.old = op.old
  <2>1. PICK p \in {"complete", "drop"} : op' = [op EXCEPT !.pc = p]
    BY <1>0
  <2> QED BY <1>1, <2>1 DEF PublishOps
<1>3. nspec[i].st = "Created"
  BY <1>i, <1>0 DEF WInv, OpInv
<1>4. engine' \in [Ids -> Engines] /\ \A j \in Ids : Well(j)
  <2>1. CASE engine' = engine
    BY <1>0, <2>1, SameIsWell DEF WInv, TypeOK
  <2>2. CASE engine[i].run # "absent" /\ engine' = [engine EXCEPT ![i].run = "shared"]
    <3> DEFINE e == [engine[i] EXCEPT !.run = "shared"]
    <3>1. engine[i] \in Engines
      BY <1>1 DEF WInv, TypeOK
    <3>2. e \in Engines /\ e.run = "shared" /\ e.kids = engine[i].kids /\ e.reb = engine[i].reb
          /\ e.res = engine[i].res
      BY <3>1 DEF Engines
    <3>3. engine' = [engine EXCEPT ![i] = e]
      BY <2>2 DEF WInv, TypeOK
    <3> HIDE DEF e
    <3>4. engine' \in [Ids -> Engines] /\ engine'[i] = e /\ \A j \in Ids \ {i} : engine'[j] = engine[j]
      BY <1>1, <3>2, <3>3 DEF WInv, TypeOK
    <3>5. Well(i)
      BY <1>0, <1>1, <1>3, <2>2, <3>2, <3>4, RunIsWell DEF WInv
    <3> QED BY <1>0, <3>4, <3>5, SameIsWell DEF WInv
  <2> QED BY <1>0, <2>1, <2>2
<1>5. TypeOK'
  BY <1>0, <1>2, <1>4 DEF WInv, TypeOK, Ids, NexusSpecs, NexusInfos, Engines, PublishOps, UnpublishOps
<1>6. PathInv'
  BY <1>0, <1>2 DEF WInv, PathInv, Ids
<1>7. OpInv'
  BY SMT, <1>i, <1>0, <1>1, <1>2, <1>3 DEF WInv, OpInv, Publishing
<1>8. \A j \in Ids : Live(j)' => Live(j)
  BY <1>0, <1>1, <1>2 DEF Live
<1>9. ~(op.kind \in Publishing /\ op.pc = "create")'
  BY <1>2
<1> QED BY <1>4, <1>5, <1>6, <1>7, <1>8, <1>9, WellKeeps DEF WInv

LEMMA FixupKeeps ==
  ASSUME WInv, FixupProtocol
  PROVE  WInv'
<1>i. PICK i : i = vol.target
  OBVIOUS
<1> DEFINE e == [engine[i] EXCEPT !.run = "shared"]
<1>0. /\ vol.active /\ nspec[i].st = "Created" /\ engine[i].run = "open"
      /\ engine' = [engine EXCEPT ![i].run = "shared"]
      /\ UNCHANGED <<vol, nspec, op, info, data, acked, paths, up, link, seen>>
  BY <1>i DEF FixupProtocol
<1>1. i \in Ids /\ engine[i] \in Engines
  BY <1>i, <1>0 DEF WInv, TypeOK, PathInv
<1>2. e \in Engines /\ e.run = "shared" /\ e.kids = engine[i].kids /\ e.reb = engine[i].reb /\ e.res = engine[i].res
  BY <1>1 DEF Engines
<1>3. engine' = [engine EXCEPT ![i] = e]
  BY <1>0 DEF WInv, TypeOK
<1> HIDE DEF e
<1>4. engine' \in [Ids -> Engines] /\ engine'[i] = e /\ \A j \in Ids \ {i} : engine'[j] = engine[j]
  BY <1>1, <1>2, <1>3 DEF WInv, TypeOK
<1>5. Well(i)
  BY <1>0, <1>1, <1>2, <1>4, RunIsWell DEF WInv
<1>6. \A j \in Ids : Well(j)
  BY <1>0, <1>4, <1>5, SameIsWell DEF WInv
<1>7. TypeOK'
  BY <1>0, <1>4 DEF WInv, TypeOK, Ids, NexusSpecs, NexusInfos, Engines, PublishOps, UnpublishOps
<1> QED BY <1>0, <1>6, <1>7, EngineKeeps

\* A write is sent to a nexus and reaches some of its children.
LEMMA BeginWriteKeeps ==
  ASSUME WInv, MaxWrites \in Nat, NEW i \in Ids, BeginWrite(i)
  PROVE  WInv'
<1> DEFINE e == [engine[i] EXCEPT !.infl = acked + 1]
<1>0. /\ engine[i].run = "shared" /\ acked < MaxWrites
      /\ engine' = [engine EXCEPT ![i].infl = acked + 1]
      /\ UNCHANGED <<vol, nspec, op, info, acked, paths, up, link, seen>>
      /\ \E some \in SUBSET {r \in engine[i].kids : Writable(i, r)} :
           data' = [r \in Replicas |-> IF r \in some THEN acked + 1 ELSE data[r]]
  BY DEF BeginWrite
<1>1. acked + 1 \in 0..MaxWrites
  BY SMT, <1>0 DEF WInv, TypeOK
<1>2. engine[i] \in Engines
  BY DEF WInv, TypeOK
<1>3. e \in Engines /\ e.run = engine[i].run /\ e.kids = engine[i].kids /\ e.reb = engine[i].reb /\ e.res = engine[i].res
  BY <1>1, <1>2 DEF Engines
<1>4. engine' = [engine EXCEPT ![i] = e]
  BY <1>0 DEF WInv, TypeOK
<1> HIDE DEF e
<1>5. engine' \in [Ids -> Engines] /\ engine'[i] = e /\ \A j \in Ids \ {i} : engine'[j] = engine[j]
  BY <1>3, <1>4 DEF WInv, TypeOK
<1>6. Well(i)
  BY <1>0, <1>3, <1>5, RunIsWell DEF WInv
<1>7. \A j \in Ids : Well(j)
  BY <1>0, <1>5, <1>6, SameIsWell DEF WInv
<1>8. data' \in [Replicas -> 0..MaxWrites]
  BY <1>0, <1>1 DEF WInv, TypeOK
<1>9. TypeOK'
  BY <1>0, <1>5, <1>8 DEF WInv, TypeOK, Ids, NexusSpecs, NexusInfos, Engines, PublishOps, UnpublishOps
<1> QED BY <1>0, <1>7, <1>9, EngineKeeps

\* The write ends: the nexus keeps the children that took it, or shuts itself down.
LEMMA EndWriteKeeps ==
  ASSUME WInv, MaxWrites \in Nat, NEW i \in Ids, EndWrite(i)
  PROVE  WInv'
<1> DEFINE v == engine[i].infl
<1>0. PICK ok \in {{r \in engine[i].kids : Writable(i, r)},
                   {r \in engine[i].kids : Writable(i, r) /\ Home[r] = nspec[i].node}} :
        /\ data' = [r \in Replicas |-> IF r \in ok THEN v ELSE data[r]]
        /\ \/ /\ acked' = IF i \in paths /\ v > acked THEN v ELSE acked
              /\ engine' = [engine EXCEPT ![i].infl = 0, ![i].kids = ok]
              /\ info' = IF ok = engine[i].kids THEN info
                         ELSE [info EXCEPT ![i].ok = @ \cap ok, ![i].rev = TRUE]
           \/ /\ engine' = [engine EXCEPT ![i] = [Absent EXCEPT !.run = "down"]]
              /\ UNCHANGED <<acked, info>>
  BY DEF EndWrite
<1>1. v # 0 /\ UNCHANGED <<vol, nspec, op, paths, up, link, seen>>
  BY DEF EndWrite
<1>2. engine[i] \in Engines /\ info[i] \in NexusInfos
  BY DEF WInv, TypeOK
<1>3. v \in 0..MaxWrites /\ engine[i].kids \subseteq Replicas
  BY <1>2 DEF Engines
<1>4. engine[i].run = "shared"
  BY <1>1 DEF WInv, EngineInv
<1>5. ok \subseteq engine[i].kids
  OBVIOUS
<1> HIDE DEF v
<1>6. data' \in [Replicas -> 0..MaxWrites]
  BY <1>0, <1>3 DEF WInv, TypeOK
<1>7. engine' \in [Ids -> Engines] /\ acked' \in 0..MaxWrites /\ info' \in [Ids -> NexusInfos]
      /\ \A j \in Ids : Well(j)
  <2>1. CASE /\ engine' = [engine EXCEPT ![i] = [Absent EXCEPT !.run = "down"]]
             /\ UNCHANGED <<acked, info>>
    <3>1. [Absent EXCEPT !.run = "down"] \in Engines
      BY RecordTypes
    <3>2. engine' \in [Ids -> Engines] /\ engine'[i] = [Absent EXCEPT !.run = "down"]
          /\ \A j \in Ids \ {i} : engine'[j] = engine[j]
      BY <2>1, <3>1 DEF WInv, TypeOK
    <3>3. Well(i)
      <4>1. nspec[i].st \notin {"none", "Creating"}
        BY <1>4 DEF WInv, EngineInv
      <4>2. engine[i].run # "absent"
        BY <1>4
      <4> QED BY <1>1, <3>2, <4>1, <4>2, StoppedIsWell DEF WInv
    <3>4. acked' \in 0..MaxWrites /\ info' \in [Ids -> NexusInfos]
      BY <2>1 DEF WInv, TypeOK
    <3> QED BY <1>1, <3>2, <3>3, <3>4, SameIsWell DEF WInv
  <2>2. CASE /\ acked' = IF i \in paths /\ v > acked THEN v ELSE acked
             /\ engine' = [engine EXCEPT ![i].infl = 0, ![i].kids = ok]
             /\ info' = IF ok = engine[i].kids THEN info
                        ELSE [info EXCEPT ![i].ok = @ \cap ok, ![i].rev = TRUE]
    <3> DEFINE e == [engine[i] EXCEPT !.infl = 0, !.kids = ok]
               f == [info[i] EXCEPT !.ok = info[i].ok \cap ok, !.rev = TRUE]
    <3>0. 0 \in 0..MaxWrites
      BY SMT
    <3>1. e \in Engines /\ e.run = engine[i].run /\ e.kids = ok /\ e.reb = engine[i].reb /\ e.res = engine[i].res
      BY <1>2, <1>3, <1>5, <3>0 DEF Engines
    <3>2. engine' = [engine EXCEPT ![i] = e]
      BY <2>2 DEF WInv, TypeOK
    <3> HIDE DEF e
    <3>3. engine' \in [Ids -> Engines] /\ engine'[i] = e /\ \A j \in Ids \ {i} : engine'[j] = engine[j]
      BY <3>1, <3>2 DEF WInv, TypeOK
    <3>4. Well(i)
      <4>1. e.kids \cup e.reb \subseteq engine[i].kids \cup engine[i].reb
        BY <1>5, <3>1
      <4> QED BY <1>1, <1>4, <3>1, <3>3, <4>1, RunIsWell DEF WInv
    <3>5. info[i].ok \in SUBSET Replicas
      BY <1>2 DEF NexusInfos
    <3>6. f \in NexusInfos
      BY <1>2, <3>5 DEF NexusInfos
    <3>7. info' = info \/ info' = [info EXCEPT ![i] = f]
      BY <2>2 DEF WInv, TypeOK
    <3> HIDE DEF f
    <3>8. info' \in [Ids -> NexusInfos]
      BY <3>6, <3>7 DEF WInv, TypeOK
    <3>9. acked' \in 0..MaxWrites
      BY <1>3, <2>2 DEF WInv, TypeOK
    <3> QED BY <1>1, <3>3, <3>4, <3>8, <3>9, SameIsWell DEF WInv
  <2> QED BY <1>0, <2>1, <2>2
<1>8. TypeOK'
  BY <1>1, <1>6, <1>7 DEF WInv, TypeOK, Ids, NexusSpecs, NexusInfos, Engines, PublishOps, UnpublishOps
<1> QED BY <1>1, <1>7, <1>8, EngineKeeps

\* A rebuild completes: the child was taken when it was attached.
LEMMA RebuildKeeps ==
  ASSUME WInv, NEW i \in Ids, NEW r \in Replicas, RebuildDone(i, r)
  PROVE  WInv'
<1> DEFINE e == [engine[i] EXCEPT !.reb = engine[i].reb \ {r}, !.kids = engine[i].kids \cup {r}]
           f == [info[i] EXCEPT !.ok = info[i].ok \cup {r}, !.rev = TRUE]
<1>0. /\ r \in engine[i].reb /\ engine[i].run = "shared"
      /\ engine' = [engine EXCEPT ![i].reb = @ \ {r}, ![i].kids = @ \cup {r}]
      /\ info' = [info EXCEPT ![i].ok = @ \cup {r}, ![i].rev = TRUE]
      /\ UNCHANGED <<vol, nspec, op, acked, paths, up, link, seen>>
      /\ \E src \in engine[i].kids : data' = [data EXCEPT ![r] = data[src]]
  BY DEF RebuildDone
<1>1. engine[i] \in Engines /\ info[i] \in NexusInfos
  BY DEF WInv, TypeOK
<1>2. engine[i].kids \subseteq Replicas /\ engine[i].reb \subseteq Replicas /\ info[i].ok \subseteq Replicas
  BY <1>1 DEF Engines, NexusInfos
<1>3. /\ e \in Engines /\ e.run = engine[i].run /\ e.kids = engine[i].kids \cup {r}
      /\ e.reb = engine[i].reb \ {r} /\ e.res = engine[i].res
  BY <1>1, <1>2 DEF Engines
<1>4. f \in NexusInfos
  BY <1>1, <1>2 DEF NexusInfos
<1>5. engine' = [engine EXCEPT ![i] = e]
  BY <1>0 DEF WInv, TypeOK
<1>6. info' = [info EXCEPT ![i] = f]
  BY <1>0 DEF WInv, TypeOK
<1> HIDE DEF e, f
<1>7. engine' \in [Ids -> Engines] /\ engine'[i] = e /\ \A j \in Ids \ {i} : engine'[j] = engine[j]
  BY <1>3, <1>5 DEF WInv, TypeOK
<1>8. info' \in [Ids -> NexusInfos]
  BY <1>4, <1>6 DEF WInv, TypeOK
<1>9. data' \in [Replicas -> 0..MaxWrites]
  BY <1>0, <1>2 DEF WInv, TypeOK
<1>10. Well(i)
  <2>1. e.kids \cup e.reb \subseteq engine[i].kids \cup engine[i].reb
    BY <1>0, <1>3
  <2> QED BY <1>0, <1>3, <1>7, <2>1, RunIsWell DEF WInv
<1>11. \A j \in Ids : Well(j)
  BY <1>0, <1>7, <1>10, SameIsWell DEF WInv
<1>12. TypeOK'
  BY <1>0, <1>7, <1>8, <1>9 DEF WInv, TypeOK, Ids, NexusSpecs, NexusInfos, Engines, PublishOps, UnpublishOps
<1> QED BY <1>0, <1>11, <1>12, EngineKeeps

\* A node that goes down takes its nexuses with it.
LEMMA NodeDownKeeps ==
  ASSUME WInv, MaxWrites \in Nat, NEW n \in Nodes, NodeDown(n)
  PROVE  WInv'
<1>0. /\ engine' = [i \in Ids |-> IF nspec[i].node = n THEN Absent ELSE engine[i]]
      /\ up' = up \ {n}
      /\ UNCHANGED <<vol, nspec, op, info, data, acked, paths, link, seen>>
  BY DEF NodeDown
<1>1. Absent \in Engines /\ Absent = [Absent EXCEPT !.run = "absent"]
  BY RecordTypes
<1>2. engine' \in [Ids -> Engines]
  BY <1>0, <1>1 DEF WInv, TypeOK
<1>3. ASSUME NEW i \in Ids PROVE Well(i)
  <2>1. CASE nspec[i].node = n
    <3>1. engine'[i] = [Absent EXCEPT !.run = "absent"]
      BY <1>0, <1>1, <2>1
    <3> QED BY <3>1, StoppedIsWell DEF WInv
  <2>2. CASE nspec[i].node # n
    BY <1>0, <2>2, SameIsWell DEF WInv
  <2> QED BY <2>1, <2>2
<1>4. TypeOK'
  BY <1>0, <1>2 DEF WInv, TypeOK, Ids, NexusSpecs, NexusInfos, Engines, PublishOps, UnpublishOps
<1> QED BY <1>0, <1>3, <1>4, EngineKeeps

\* A destroy request leaves the nexus with what it had, or with nothing.
LEMMA DestroyIsWell ==
  ASSUME WInv, MaxWrites \in Nat, NEW i \in Ids, DestroyNexus(i)
  PROVE  \A j \in Ids : Well(j)
<1>1. Well(i)
  <2>1. CASE engine'[i] = Absent
    <3>1. engine'[i] = [Absent EXCEPT !.run = "absent"]
      BY <2>1, RecordTypes
    <3> QED BY <3>1, StoppedIsWell DEF WInv
  <2>2. CASE /\ engine'[i] = engine[i] /\ nspec'[i].st = "Deleting"
             /\ nspec'[i].node = nspec[i].node /\ nspec'[i].kids = nspec[i].kids
    BY <2>2, RespecifiedIsWell DEF WInv
  <2> QED BY <2>1, <2>2, DestroyTypes DEF WInv
<1>2. ASSUME NEW j \in Ids \ {i} PROVE Well(j)
  BY DestroyTypes, SameIsWell DEF WInv
<1> QED BY <1>1, <1>2

\* The garbage collector, and the removal of a shut down target.
LEMMA CollectKeeps ==
  ASSUME WInv, MaxWrites \in Nat, NEW i \in Ids, GarbageCollect(i) \/ RemoveShutdownTarget(i)
  PROVE  WInv'
<1>0. DestroyNexus(i) /\ UNCHANGED <<vol, op, data, acked, paths, up, link, seen>>
  BY DEF GarbageCollect, RemoveShutdownTarget
<1>1. \A j \in Ids : Well(j)
  BY <1>0, DestroyIsWell
<1>2. /\ nspec' \in [Ids -> NexusSpecs] /\ engine' \in [Ids -> Engines] /\ info' \in [Ids -> NexusInfos]
      /\ \A j \in Ids \ {i} : nspec'[j] = nspec[j]
  BY <1>0, DestroyTypes DEF WInv
<1>3. TypeOK'
  BY <1>0, <1>2 DEF WInv, TypeOK, Ids, NexusSpecs, NexusInfos, Engines, PublishOps, UnpublishOps
<1>4. i \notin paths \/ i = vol.target
  <2>1. CASE RemoveShutdownTarget(i)
    BY <2>1 DEF RemoveShutdownTarget
  <2>2. CASE GarbageCollect(i)
    <3> SUFFICES ASSUME i \in paths, i # vol.target PROVE FALSE
      OBVIOUS
    <3>1. nspec[i].st = "Shutdown" /\ vol.active
      BY DEF WInv, PathInv
    <3> QED BY <2>2, <3>1 DEF GarbageCollect
  <2> QED BY <2>1, <2>2
<1>5. \A j \in paths : j # vol.target => nspec'[j].st = "Shutdown"
  BY <1>2, <1>4 DEF WInv, PathInv, TypeOK
<1>6. op # Idle => i # op.nx /\ i # op.old
  BY DEF GarbageCollect, RemoveShutdownTarget
<1>7. op.kind \in Publishing => op # Idle /\ op.nx \in Ids
  BY OpKinds, IdleFacts DEF WInv
<1>8. op.kind \in Publishing => nspec'[op.nx] = nspec[op.nx]
  BY <1>2, <1>6, <1>7
<1>9. op.kind = "republish" => nspec'[op.old].st = nspec[op.old].st
  BY <1>2, <1>6, <1>7, Republishes
<1> QED BY <1>0, <1>1, <1>3, <1>5, <1>8, <1>9, NexusKeeps

\* An operation that ends by a destroy of the nexus it was about.
LEMMA DropKeeps ==
  ASSUME WInv, MaxWrites \in Nat, DropNew
  PROVE  WInv'
<1>i. PICK i : i = op.nx
  OBVIOUS
<1>0. /\ op.kind \in Publishing /\ op.pc = "drop" /\ DestroyNexus(i) /\ op' = Idle
      /\ UNCHANGED <<vol, data, acked, paths, up, link, seen>>
  BY <1>i DEF DropNew, Undo, Publishing
<1>1. i \in Ids
  BY <1>i, <1>0, OpKinds DEF WInv
<1>2. i # vol.target /\ i \notin paths
  BY <1>i, <1>0 DEF WInv, OpInv
<1>3. \A j \in Ids : Well(j)
  BY <1>0, <1>1, DestroyIsWell
<1>4. /\ nspec' \in [Ids -> NexusSpecs] /\ engine' \in [Ids -> Engines] /\ info' \in [Ids -> NexusInfos]
      /\ \A j \in Ids \ {i} : nspec'[j] = nspec[j]
  BY <1>0, <1>1, DestroyTypes DEF WInv
<1>5. TypeOK'
  BY <1>0, <1>4 DEF WInv, TypeOK, Ids, NexusSpecs, NexusInfos, Engines, PublishOps, UnpublishOps
<1>6. OpInv' /\ ~(op.kind \in Publishing)' /\ op'.kind # "unpublish"
  BY <1>0, EndsOp
<1>7. PathInv'
  BY ZenonT(40), <1>0, <1>2, <1>4, <1>6 DEF WInv, PathInv, TypeOK, Ids
<1>8. \A j \in Ids : Live(j)' => Live(j)
  BY <1>0, EndsOp DEF Live
<1> QED BY <1>3, <1>5, <1>6, <1>7, <1>8, WellKeeps DEF WInv

LEMMA UnpublishDestroyKeeps ==
  ASSUME WInv, MaxWrites \in Nat, UnpublishDestroy
  PROVE  WInv'
<1>i. PICK i : i = op.old
  OBVIOUS
<1>0. /\ op.kind = "unpublish" /\ op' = Idle
      /\ \/ UNCHANGED <<nspec, engine, info>>
         \/ DestroyNexus(i)
      /\ \/ vol' = [vol EXCEPT !.pend = TRUE]
         \/ \E b \in BOOLEAN : vol' = [vol EXCEPT !.active = b]
      /\ UNCHANGED <<data, acked, paths, up, link, seen>>
  BY <1>i DEF UnpublishDestroy
<1>1. i \in Ids /\ vol.active /\ vol.target \in Ids /\ paths = {}
  BY <1>i, <1>0, OpKinds DEF WInv, OpInv, PathInv
<1>2. vol' \in [target : 0..MaxNexus, active : BOOLEAN, pend : BOOLEAN] /\ vol'.target = vol.target
  <2>1. CASE vol' = [vol EXCEPT !.pend = TRUE]
    BY <2>1 DEF WInv, TypeOK
  <2>2. ASSUME NEW b \in BOOLEAN, vol' = [vol EXCEPT !.active = b]
        PROVE  vol' \in [target : 0..MaxNexus, active : BOOLEAN, pend : BOOLEAN] /\ vol'.target = vol.target
    BY <2>2 DEF WInv, TypeOK
  <2> QED BY <1>0, <2>1, <2>2
<1>3. /\ nspec' \in [Ids -> NexusSpecs] /\ engine' \in [Ids -> Engines] /\ info' \in [Ids -> NexusInfos]
      /\ \A j \in Ids : Well(j)
  <2>1. CASE UNCHANGED <<nspec, engine, info>>
    BY <2>1, SameIsWell DEF WInv, TypeOK
  <2>2. CASE DestroyNexus(i)
    BY <1>1, <2>2, DestroyTypes, DestroyIsWell DEF WInv
  <2> QED BY <1>0, <2>1, <2>2
<1>4. TypeOK'
  BY <1>0, <1>2, <1>3 DEF WInv, TypeOK, Ids, NexusSpecs, NexusInfos, Engines, PublishOps, UnpublishOps
<1>5. OpInv' /\ ~(op.kind \in Publishing)' /\ op'.kind # "unpublish"
  BY <1>0, EndsOp
<1>6. PathInv'
  BY <1>0, <1>1, <1>2 DEF PathInv, Ids
<1>7. \A j \in Ids : Live(j)' => Live(j)
  BY <1>0, <1>1, <1>2, EndsOp DEF Live
<1> QED BY <1>3, <1>4, <1>5, <1>6, <1>7, WellKeeps DEF WInv

\* republish shuts the older nexus down, or notes that it is.
LEMMA ShutdownKeeps ==
  ASSUME WInv, MaxWrites \in Nat, RepublishShutdown
  PROVE  WInv'
<1>i. PICK i : i = op.old
  OBVIOUS
<1> DEFINE noted == [nspec[i] EXCEPT !.again = nspec[i].again \/ engine[i].run = "down"]
<1>0. /\ op.kind = "republish" /\ op.pc = "shutdown"
      /\ UNCHANGED <<data, acked, paths, up, link, seen>>
      /\ \/ Undo /\ UNCHANGED <<nspec, engine, info>>
         \/ /\ nspec[i].st = "Shutdown" /\ nspec' = [nspec EXCEPT ![i].again = @ \/ engine[i].run = "down"]
            /\ op' = [op EXCEPT !.pc = "read"] /\ UNCHANGED <<vol, engine, info>>
         \/ ShutdownNexus(i) /\ op' = [op EXCEPT !.pc = "read"] /\ UNCHANGED vol
  BY <1>i DEF RepublishShutdown
<1>1. CASE Undo /\ UNCHANGED <<nspec, engine, info>>
  BY <1>0, <1>1, UndoKeeps
<1>2. i \in Ids /\ op \in PublishOps /\ op.kind \in Publishing /\ i = vol.target /\ op.nx \in Ids
  BY <1>i, <1>0, Republishes
<1>3. ASSUME op' = [op EXCEPT !.pc = "read"], UNCHANGED vol,
             nspec' \in [Ids -> NexusSpecs], engine' \in [Ids -> Engines], info' \in [Ids -> NexusInfos],
             \A j \in Ids \ {i} : nspec'[j] = nspec[j] /\ engine'[j] = engine[j],
             nspec'[i].st = "Shutdown", Well(i)
      PROVE  WInv'
  <2>1. /\ op' \in PublishOps /\ op'.pc = "read" /\ op'.kind = op.kind /\ op'.nx = op.nx
        /\ op'.node = op.node /\ op'.old = op.old
    BY <1>2, <1>3 DEF PublishOps
  <2>2. TypeOK'
    BY <1>0, <1>3, <2>1 DEF WInv, TypeOK, Ids, NexusSpecs, NexusInfos, Engines, PublishOps, UnpublishOps
  <2>3. \A j \in Ids : Well(j)
    BY <1>3, SameIsWell DEF WInv
  <2>4. PathInv'
    BY ZenonT(40), <1>0, <1>2, <1>3, <2>1 DEF WInv, PathInv, TypeOK, Ids
  <2>5. op.nx # i /\ op.nx # vol.target /\ op.nx \notin paths /\ nspec[op.nx].st = "none" /\ vol.active
    BY <1>i, <1>0, <1>2 DEF WInv, OpInv
  <2>6. nspec'[op.nx].st = "none"
    BY <1>2, <1>3, <2>5
  <2>7. OpInv'
    BY SMT, <1>i, <1>0, <1>2, <1>3, <2>1, <2>5, <2>6 DEF OpInv
  <2>8. \A j \in Ids : Live(j)' => Live(j)
    BY <1>0, <1>3, <2>1 DEF Live
  <2> QED BY <2>1, <2>2, <2>3, <2>4, <2>7, <2>8, WellKeeps DEF WInv
<1>4. CASE /\ nspec[i].st = "Shutdown" /\ nspec' = [nspec EXCEPT ![i].again = @ \/ engine[i].run = "down"]
           /\ op' = [op EXCEPT !.pc = "read"] /\ UNCHANGED <<vol, engine, info>>
  <2>1. nspec[i] \in NexusSpecs
    BY <1>2 DEF WInv, TypeOK
  <2>2. /\ noted \in NexusSpecs /\ noted.st = nspec[i].st /\ noted.node = nspec[i].node
        /\ noted.kids = nspec[i].kids /\ noted.failed = nspec[i].failed
        /\ noted.again => nspec[i].again \/ engine[i].run = "down"
    BY <2>1 DEF NexusSpecs
  <2>3. nspec' = [nspec EXCEPT ![i] = noted]
    BY <1>4 DEF WInv, TypeOK
  <2> HIDE DEF noted
  <2>4. nspec' \in [Ids -> NexusSpecs] /\ nspec'[i] = noted /\ \A j \in Ids \ {i} : nspec'[j] = nspec[j]
    BY <1>2, <2>2, <2>3 DEF WInv, TypeOK
  <2>5. Well(i)
    <3>1. nspec[i].st = "Shutdown" /\ Open(i) => nspec[i].failed /\ ~nspec[i].again
      BY <1>2 DEF WInv, EngineInv
    <3>2. Open(i) => engine[i].run # "down"
      BY DEF Open
    <3> QED BY <1>2, <1>4, <2>2, <2>4, <3>1, <3>2, RespecifiedIsWell DEF WInv
  <2>6. engine' \in [Ids -> Engines] /\ info' \in [Ids -> NexusInfos]
    BY <1>4 DEF WInv, TypeOK
  <2> QED BY <1>3, <1>4, <2>2, <2>4, <2>5, <2>6
<1>5. CASE ShutdownNexus(i) /\ op' = [op EXCEPT !.pc = "read"] /\ UNCHANGED vol
  <2>1. /\ nspec' \in [Ids -> NexusSpecs] /\ engine' \in [Ids -> Engines] /\ info' \in [Ids -> NexusInfos]
        /\ \A j \in Ids \ {i} : nspec'[j] = nspec[j] /\ engine'[j] = engine[j]
        /\ nspec'[i].st = "Shutdown" /\ nspec'[i].node = nspec[i].node /\ nspec'[i].kids = nspec[i].kids
        /\ \/ engine[i].run # "absent" /\ engine'[i] = [Absent EXCEPT !.run = "down"]
           \/ engine'[i] = engine[i] /\ (engine[i].run # "absent" => nspec'[i].failed /\ ~nspec'[i].again)
    BY <1>2, <1>5, ShutdownTypes DEF WInv
  <2>2. CASE engine[i].run # "absent" /\ engine'[i] = [Absent EXCEPT !.run = "down"]
    <3>1. Well(i)
      BY <1>2, <2>1, <2>2, StoppedIsWell DEF WInv
    <3> QED BY <1>3, <1>5, <2>1, <3>1
  <2>3. CASE engine'[i] = engine[i] /\ (engine[i].run # "absent" => nspec'[i].failed /\ ~nspec'[i].again)
    <3>1. Open(i) => engine[i].run # "absent"
      BY DEF Open
    <3>2. Well(i)
      BY <1>2, <2>1, <2>3, <3>1, RespecifiedIsWell DEF WInv
    <3> QED BY <1>3, <1>5, <2>1, <3>2
  <2> QED BY <2>1, <2>2, <2>3
<1> QED BY <1>0, <1>1, <1>4, <1>5

\* The ReShutdown poller shuts a nexus down which could not be.
LEMMA ReShutdownKeeps ==
  ASSUME WInv, MaxWrites \in Nat, NEW i \in Ids, ReShutdown(i)
  PROVE  WInv'
<1> DEFINE noted == [nspec[i] EXCEPT !.again = TRUE]
<1>0. /\ op = Idle /\ nspec[i].st = "Shutdown" /\ engine[i].run # "absent"
      /\ nspec' = [nspec EXCEPT ![i].again = TRUE]
      /\ engine' = [engine EXCEPT ![i] = [Absent EXCEPT !.run = "down"]]
      /\ info' = [info EXCEPT ![i] = Cleanly(i)]
      /\ UNCHANGED <<vol, op, data, acked, paths, up, link, seen>>
  BY DEF ReShutdown
<1>1. nspec[i] \in NexusSpecs
  BY DEF WInv, TypeOK
<1>2. /\ noted \in NexusSpecs /\ noted.st = nspec[i].st /\ noted.node = nspec[i].node /\ noted.kids = nspec[i].kids
  BY <1>1 DEF NexusSpecs
<1>3. nspec' = [nspec EXCEPT ![i] = noted]
  BY <1>0 DEF WInv, TypeOK
<1> HIDE DEF noted
<1>4. nspec' \in [Ids -> NexusSpecs] /\ nspec'[i] = noted /\ \A j \in Ids \ {i} : nspec'[j] = nspec[j]
  BY <1>2, <1>3 DEF WInv, TypeOK
<1>5. [Absent EXCEPT !.run = "down"] \in Engines
  BY RecordTypes
<1>6. engine' \in [Ids -> Engines] /\ engine'[i] = [Absent EXCEPT !.run = "down"]
      /\ \A j \in Ids \ {i} : engine'[j] = engine[j]
  BY <1>0, <1>5 DEF WInv, TypeOK
<1>7. info' \in [Ids -> NexusInfos]
  BY <1>0, InfoTypes DEF WInv, TypeOK
<1>8. Well(i)
  BY <1>0, <1>2, <1>4, <1>6, StoppedIsWell DEF WInv
<1>9. \A j \in Ids : Well(j)
  BY <1>4, <1>6, <1>8, SameIsWell DEF WInv
<1>10. TypeOK'
  BY <1>0, <1>4, <1>6, <1>7 DEF WInv, TypeOK, Ids, NexusSpecs, NexusInfos, Engines, PublishOps, UnpublishOps
<1>11. \A j \in paths : j # vol.target => nspec'[j].st = "Shutdown"
  BY <1>0, <1>2, <1>4 DEF WInv, PathInv, TypeOK
<1>12. op.kind \notin Publishing /\ op.kind # "republish"
  BY <1>0, IdleFacts DEF Publishing
<1> QED BY <1>0, <1>9, <1>10, <1>11, <1>12, NexusKeeps

\* The core agent restarts.
LEMMA RestartKeeps ==
  ASSUME WInv, CoreRestart
  PROVE  WInv'
<1> DEFINE s(i) == [nspec[i] EXCEPT !.again = FALSE,
                                    !.st = IF nspec[i].st = "Creating" THEN "Deleting" ELSE nspec[i].st]
<1>0. /\ op' = Idle /\ nspec' = [i \in Ids |-> s(i)]
      /\ UNCHANGED <<vol, info, engine, data, acked, paths, up, link, seen>>
  BY DEF CoreRestart
<1>1. ASSUME NEW i \in Ids
      PROVE  /\ nspec'[i] \in NexusSpecs /\ nspec'[i].node = nspec[i].node /\ nspec'[i].kids = nspec[i].kids
             /\ nspec'[i].st = IF nspec[i].st = "Creating" THEN "Deleting" ELSE nspec[i].st
             /\ nspec'[i].failed = nspec[i].failed /\ ~nspec'[i].again
  <2>1. nspec'[i] = s(i) /\ nspec[i] \in NexusSpecs
    BY <1>0 DEF WInv, TypeOK
  <2>2. /\ s(i) \in NexusSpecs /\ s(i).node = nspec[i].node /\ s(i).kids = nspec[i].kids
        /\ s(i).st = IF nspec[i].st = "Creating" THEN "Deleting" ELSE nspec[i].st
        /\ s(i).failed = nspec[i].failed /\ ~s(i).again
    BY <2>1 DEF NexusSpecs
  <2> QED BY <2>1, <2>2
<1>2. nspec' \in [Ids -> NexusSpecs]
  BY <1>0, <1>1
<1> HIDE DEF s
<1>3. ASSUME NEW i \in Ids PROVE Well(i)
  <2>1. engine'[i] = engine[i]
    BY <1>0
  <2>2. engine[i].run # "absent" => nspec'[i].st \notin {"none", "Creating"}
    BY <1>1 DEF WInv, EngineInv
  <2>3. nspec'[i].st = "Shutdown" /\ Open(i) => nspec'[i].failed /\ ~nspec'[i].again
    BY <1>1 DEF WInv, EngineInv
  <2> QED BY <1>1, <2>1, <2>2, <2>3, RespecifiedIsWell DEF WInv
<1>4. TypeOK'
  BY <1>0, <1>2 DEF WInv, TypeOK, Ids, NexusSpecs, NexusInfos, Engines, PublishOps, UnpublishOps
<1>5. OpInv' /\ ~(op.kind \in Publishing)' /\ op'.kind # "unpublish"
  BY <1>0, EndsOp
<1>6. PathInv'
  <2>1. \A i \in paths : nspec[i].st = "Shutdown" => nspec'[i].st = "Shutdown"
    BY <1>1 DEF WInv, TypeOK
  <2> QED BY <1>0, <1>5, <2>1 DEF WInv, PathInv, Ids
<1>7. \A i \in Ids : Live(i)' => Live(i)
  BY <1>0, EndsOp DEF Live
<1> QED BY <1>3, <1>4, <1>5, <1>6, <1>7, WellKeeps DEF WInv

-----------------------------------------------------------------------------
(* Steps by which a target takes replicas                                  *)

\* The children of a target are replicas which can be reserved.
LEMMA ChoicesAreReservable ==
  ASSUME NEW h, NEW n, NEW kids \in ChildChoices(h, n)
  PROVE  kids \in SUBSET Replicas /\ \A r \in kids : Reservable(r)
<1>1. Accessible(h) \subseteq Replicas /\ \A r \in Accessible(h) : Reservable(r)
  BY DEF Accessible, Candidates
<1>2. kids \subseteq Accessible(h)
  BY DEF ChildChoices
<1> QED BY <1>1, <1>2

\* create_nexus, first half: none of the children chosen is local to another nexus in use.
LEMMA PickKeeps ==
  ASSUME WInv, CreatePick
  PROVE  WInv'
<1>0. /\ op.kind \in Publishing /\ op.pc = "pick"
      /\ UNCHANGED <<info, data, acked, paths, up, link, seen>>
      /\ \/ Undo /\ UNCHANGED <<nspec, engine>>
         \/ \E kids \in ChildChoices(vol.target, op.node) :
              /\ engine' = MakeAccessible(kids, op.node)
              /\ nspec' = [nspec EXCEPT ![op.nx] = [NoSpec EXCEPT !.st = "Creating",
                                                     !.node = op.node, !.kids = kids]]
              /\ op' = [op EXCEPT !.pc = "create"] /\ UNCHANGED vol
  BY DEF CreatePick, Publishing
<1>1. CASE Undo /\ UNCHANGED <<nspec, engine>>
  BY <1>0, <1>1, UndoKeeps
<1>2. ASSUME NEW kids \in ChildChoices(vol.target, op.node),
             engine' = MakeAccessible(kids, op.node),
             nspec' = [nspec EXCEPT ![op.nx] = [NoSpec EXCEPT !.st = "Creating",
                                                 !.node = op.node, !.kids = kids]],
             op' = [op EXCEPT !.pc = "create"], UNCHANGED vol
      PROVE  WInv'
  <2> DEFINE s == [NoSpec EXCEPT !.st = "Creating", !.node = op.node, !.kids = kids]
  <2>1. op \in PublishOps /\ op.nx \in Ids /\ op.node \in Nodes
    BY <1>0, OpKinds DEF WInv
  <2>2. kids \in SUBSET Replicas /\ \A r \in kids : Reservable(r)
    BY ChoicesAreReservable
  <2>3. s \in NexusSpecs /\ s.st = "Creating" /\ s.node = op.node /\ s.kids = kids
    <3>1. NoSpec \in NexusSpecs
      BY DEF NoSpec, NexusSpecs
    <3> QED BY <2>1, <2>2, <3>1 DEF NexusSpecs
  <2>4. nspec' = [nspec EXCEPT ![op.nx] = s]
    BY <1>2
  <2> HIDE DEF s
  <2>5. nspec' \in [Ids -> NexusSpecs] /\ nspec'[op.nx] = s /\ \A j \in Ids \ {op.nx} : nspec'[j] = nspec[j]
    BY <2>1, <2>3, <2>4 DEF WInv, TypeOK
  <2>6. /\ engine' \in [Ids -> Engines]
        /\ \A j \in Ids : /\ engine'[j].run = engine[j].run
                          /\ engine'[j].kids = engine[j].kids
                          /\ engine'[j].reb = engine[j].reb
                          /\ engine'[j].infl = engine[j].infl
                          /\ engine'[j].res \subseteq engine[j].res
    <3>1. engine \in [Ids -> Engines]
      BY DEF WInv, TypeOK
    <3> DEFINE m == MakeAccessible(kids, op.node)
    <3>2. /\ m \in [Ids -> Engines]
          /\ \A j \in Ids : /\ m[j].run = engine[j].run
                            /\ m[j].kids = engine[j].kids
                            /\ m[j].reb = engine[j].reb
                            /\ m[j].infl = engine[j].infl
                            /\ m[j].res \subseteq engine[j].res
      BY <3>1, AccessibleFields
    <3>3. engine' = m
      BY <1>2
    <3> HIDE DEF m
    <3> QED BY <3>2, <3>3
  <2>7. /\ op' \in PublishOps /\ op'.pc = "create" /\ op'.kind = op.kind /\ op'.nx = op.nx
        /\ op'.node = op.node /\ op'.old = op.old
    BY <1>2, <2>1 DEF PublishOps
  <2>8. TypeOK'
    BY <1>0, <1>2, <2>5, <2>6, <2>7 DEF WInv, TypeOK, Ids, NexusSpecs, NexusInfos, Engines, PublishOps, UnpublishOps
  <2>9. /\ op.nx # vol.target /\ op.nx \notin paths /\ nspec[op.nx].st = "none"
        /\ op.kind = "publish" => ~vol.active
        /\ op.kind = "republish" => vol.active /\ op.old = vol.target /\ nspec[op.old].st = "Shutdown"
    BY <1>0 DEF WInv, OpInv
  <2>10. ASSUME NEW j \in Ids PROVE Well(j)
    <3>1. CASE j = op.nx
      <4>1. engine[j].run = "absent" /\ ~Open(j)
        BY <2>9, <3>1 DEF WInv, EngineInv, Open
      <4>2. engine[j].kids = {} /\ engine[j].reb = {} /\ engine[j].infl = 0
        BY <4>1 DEF WInv, EngineInv
      <4> QED BY <2>6, <4>1, <4>2 DEF Well, Open
    <3>2. CASE j # op.nx
      BY <2>5, <2>6, <3>2, PreemptedIsWell DEF WInv
    <3> QED BY <3>1, <3>2
  <2>11. PathInv'
    BY <1>0, <1>2, <2>5, <2>7, <2>9 DEF WInv, PathInv, TypeOK, Ids
  <2>12. OpInv'
    <3>1. nspec'[op.nx].st = "Creating" /\ nspec'[op.nx].node = op.node
      BY <2>3, <2>5
    <3>2. op.kind = "republish" => nspec'[op.old].st = "Shutdown"
      BY <1>0, <2>5, <2>9, Republishes
    <3>3. UNCHANGED <<vol, paths>>
      BY <1>0, <1>2
    <3> QED BY <1>0, <2>7, <2>9, <3>1, <3>2, <3>3 DEF OpInv, Publishing
  <2>13. \A j \in Ids : Live(j)' => Live(j)
    BY <1>0, <1>2, <2>7 DEF Live
  <2>14. ASSUME NEW j \in Ids, Live(j), Open(j), NEW r \in kids
         PROVE  ~LocalChild(j, r)
    <3>1. nspec[j].st = "Shutdown"
      <4>1. j \in paths \/ (vol.active /\ j = vol.target)
        BY <1>0, <2>14 DEF Live
      <4>2. vol.active
        BY <4>1 DEF WInv, PathInv
      <4>3. op.kind = "republish"
        BY <1>0, <2>9, <4>2 DEF Publishing
      <4> QED BY <2>9, <4>1, <4>3 DEF WInv, PathInv
    <3> QED BY <2>2, <2>14, <3>1, Fenced DEF WInv
  <2>15. (op.kind \in Publishing /\ op.pc = "create")' =>
           \A j \in Ids : Live(j) /\ Open(j) => \A r \in nspec'[op'.nx].kids : ~LocalChild(j, r)
    BY <2>3, <2>5, <2>7, <2>14
  <2> QED BY <2>8, <2>10, <2>11, <2>12, <2>13, <2>15, WellKeeps DEF WInv
<1> QED BY <1>0, <1>1, <1>2

\* missing_nexus_recreate: the target opens again with children that can be reserved.
LEMMA RecreateKeeps ==
  ASSUME WInv, MaxWrites \in Nat, RecreateTarget
  PROVE  WInv'
<1>i. PICK i : i = vol.target
  OBVIOUS
<1> DEFINE n == nspec[i].node
<1>0. /\ op = Idle /\ vol.active /\ nspec[i].st = "Created" /\ engine[i].run = "absent" /\ Existing(i) = {}
      /\ UNCHANGED <<vol, nspec, op, data, acked, paths, up, link, seen>>
  BY <1>i DEF RecreateTarget
<1>1. PICK kids \in ChildChoices(i, n) :
        /\ kids \subseteq nspec[i].kids
        /\ engine' = Opened(i, kids, n, engine)
        /\ info' = [info EXCEPT ![i] = OpenedInfo(kids)]
  BY <1>i DEF RecreateTarget
<1>2. i \in Ids
  BY <1>i, <1>0 DEF WInv, PathInv
<1>3. kids \in SUBSET Replicas /\ \A r \in kids : Reservable(r)
  BY ChoicesAreReservable
<1> HIDE DEF n
<1>4. /\ engine' \in [Ids -> Engines]
      /\ \A j \in Ids \ {i} : /\ engine'[j].run = engine[j].run /\ engine'[j].kids = engine[j].kids
                              /\ engine'[j].reb = engine[j].reb /\ engine'[j].infl = engine[j].infl
                              /\ engine'[j].res = engine[j].res \ kids
      /\ engine'[i].run = "open" /\ engine'[i].kids = kids /\ engine'[i].reb = {} /\ engine'[i].infl = 0
      /\ engine'[i].res \subseteq kids
  <2>1. engine \in [Ids -> Engines]
    BY DEF WInv, TypeOK
  <2> DEFINE t == Opened(i, kids, n, engine)
  <2>2. OpensInto(i, kids, engine, t)
    BY <1>2, <1>3, <2>1, OpenedFields
  <2>3. engine' = t
    BY <1>1
  <2> HIDE DEF t
  <2> QED BY <2>2, <2>3 DEF OpensInto
<1>5. info' \in [Ids -> NexusInfos]
  <2>1. OpenedInfo(kids) \in NexusInfos
    BY <1>3, RecordTypes
  <2> QED BY <1>1, <2>1 DEF WInv, TypeOK
<1>6. TypeOK'
  BY <1>0, <1>4, <1>5 DEF WInv, TypeOK, Ids, NexusSpecs, NexusInfos, Engines, PublishOps, UnpublishOps
<1>7. ASSUME NEW j \in Ids \ {i} PROVE Well(j) /\ engine'[j].res \cap kids = {}
  <2>1. /\ engine'[j].run = engine[j].run /\ engine'[j].kids = engine[j].kids
        /\ engine'[j].reb = engine[j].reb /\ engine'[j].infl = engine[j].infl
        /\ engine'[j].res = engine[j].res \ kids /\ nspec'[j] = nspec[j]
    BY <1>0, <1>4
  <2>2. engine'[j].res \subseteq engine[j].res /\ engine'[j].res \cap kids = {}
    BY <2>1
  <2> QED BY <2>1, <2>2, PreemptedIsWell DEF WInv
<1>8. Said(i)'
  <2>1. nspec'[i].st = "Created" /\ nspec'[i].kids = nspec[i].kids
    BY <1>0
  <2>2. engine'[i].kids \cup engine'[i].reb \subseteq nspec'[i].kids
    BY <1>1, <1>4, <2>1
  <2>3. Open(i)'
    BY <1>4 DEF Open
  <2>4. engine'[i].infl = 0
    BY <1>4
  <2> QED BY <2>1, <2>2, <2>3, <2>4 DEF Said
<1>9. \A j \in Ids \ {i} : engine'[j].run # "absent" => nspec'[j].node # nspec'[i].node
  BY <1>0, <1>4 DEF Existing
<1>10. \A j \in Ids \ {i} : Live(j)' => Live(j)
  BY <1>0 DEF Live
<1>11. ASSUME NEW j \in Ids \ {i}, NEW r \in kids, Live(j), Open(j)
       PROVE  ~LocalChild(j, r)
  <2>1. j \in paths
    BY <1>i, <1>0, <1>11, IdleFacts DEF Live
  <2>2. nspec[j].st = "Shutdown"
    BY <1>i, <2>1 DEF WInv, PathInv
  <2> QED BY <1>3, <1>11, <2>2, Fenced DEF WInv
<1>12. ~(op.kind \in Publishing)'
  BY <1>0, IdleFacts
<1>13. ~Open(i)
  BY <1>0 DEF Open
<1>14. EngineInv' /\ ExclusiveInv' /\ LocalInv'
  <2>1. engine'[i].res \subseteq engine[i].res \cup kids
    BY <1>4
  <2>2. engine'[i].kids \cup engine'[i].reb \subseteq engine[i].kids \cup engine[i].reb \cup kids
    BY <1>4
  <2>3. nspec'[i].node = nspec[i].node
    BY <1>0
  <2>4. \A j \in Ids \ {i} : \A r \in kids : Live(j) /\ Open(j) => ~LocalChild(j, r)
    BY <1>11
  <2>5. \A j \in Ids \ {i} : Well(j) /\ engine'[j].res \cap kids = {}
    BY <1>7
  <2> QED BY <1>2, <1>3, <1>8, <1>9, <1>10, <1>12, <1>13, <2>1, <2>2, <2>3, <2>4, <2>5, TakingKeeps
<1>15. PathInv' /\ OpInv'
  BY <1>0 DEF WInv, PathInv, OpInv, Ids
<1> QED BY <1>6, <1>14, <1>15 DEF WInv

\* attach_replicas_to_nexus: the replica can be reserved.
LEMMA AttachKeeps ==
  ASSUME WInv, NEW q \in Replicas, AttachReplica(q)
  PROVE  WInv'
<1>i. PICK i : i = vol.target
  OBVIOUS
<1> DEFINE n == nspec[i].node
           e == [engine[i] EXCEPT !.reb = engine[i].reb \cup {q}]
           d == [engine EXCEPT ![i] = e]
           s == [nspec[i] EXCEPT !.kids = nspec[i].kids \cup {q}]
<1>0. /\ op = Idle /\ vol.active /\ nspec[i].st = "Created" /\ engine[i].run = "shared" /\ Reservable(q)
      /\ engine' = Taken(i, {q}, n, [engine EXCEPT ![i].reb = @ \cup {q}])
      /\ nspec' = [nspec EXCEPT ![i].kids = @ \cup {q}]
      /\ UNCHANGED <<vol, op, info, data, acked, paths, up, link, seen>>
  BY <1>i DEF AttachReplica
<1>1. i \in Ids /\ engine[i] \in Engines /\ nspec[i] \in NexusSpecs
  BY <1>i, <1>0 DEF WInv, PathInv, TypeOK
<1>2. /\ e \in Engines /\ e.run = engine[i].run /\ e.kids = engine[i].kids
      /\ e.reb = engine[i].reb \cup {q} /\ e.res = engine[i].res /\ e.infl = engine[i].infl
  <2>1. engine[i].reb \cup {q} \in SUBSET Replicas
    BY <1>1 DEF Engines
  <2> QED BY <1>1, <2>1 DEF Engines
<1>3. /\ s \in NexusSpecs /\ s.st = nspec[i].st /\ s.node = nspec[i].node /\ s.kids = nspec[i].kids \cup {q}
  <2>1. nspec[i].kids \cup {q} \in SUBSET Replicas
    BY <1>1 DEF NexusSpecs
  <2> QED BY <1>1, <2>1 DEF NexusSpecs
<1>4. nspec' = [nspec EXCEPT ![i] = s] /\ [engine EXCEPT ![i].reb = @ \cup {q}] = d
  BY <1>0 DEF WInv, TypeOK
<1> HIDE DEF e, s
<1>5. d \in [Ids -> Engines] /\ d[i] = e /\ \A j \in Ids \ {i} : d[j] = engine[j]
  BY <1>1, <1>2 DEF WInv, TypeOK
<1>6. nspec' \in [Ids -> NexusSpecs] /\ nspec'[i] = s /\ \A j \in Ids \ {i} : nspec'[j] = nspec[j]
  BY <1>1, <1>3, <1>4 DEF WInv, TypeOK
<1> HIDE DEF d
<1>7. /\ engine' \in [Ids -> Engines]
      /\ \A j \in Ids : /\ engine'[j].run = d[j].run /\ engine'[j].kids = d[j].kids
                        /\ engine'[j].reb = d[j].reb /\ engine'[j].infl = d[j].infl
                        /\ (j # i => engine'[j].res = d[j].res \ {q})
      /\ engine'[i].res \subseteq d[i].res \cup {q}
  <2> DEFINE t == Taken(i, {q}, n, d)
  <2>1. d \in [Ids -> Engines] /\ {q} \in SUBSET Replicas
    BY <1>5
  <2>2. /\ t \in [Ids -> Engines]
        /\ \A j \in Ids : /\ t[j].run = d[j].run
                          /\ t[j].kids = d[j].kids
                          /\ t[j].reb = d[j].reb
                          /\ t[j].infl = d[j].infl
                          /\ j # i => t[j].res = d[j].res \ {q}
        /\ t[i].res \subseteq d[i].res \cup {q}
    BY <1>1, <2>1, TakenFields
  <2>3. engine' = t
    BY <1>0, <1>4
  <2> HIDE DEF t
  <2> QED BY <2>2, <2>3
<1>8. /\ engine'[i].run = "shared" /\ engine'[i].kids = engine[i].kids
      /\ engine'[i].reb = engine[i].reb \cup {q} /\ engine'[i].res \subseteq engine[i].res \cup {q}
  BY <1>0, <1>1, <1>2, <1>5, <1>7
<1>9. ASSUME NEW j \in Ids \ {i} PROVE Well(j) /\ engine'[j].res \cap {q} = {} /\ engine'[j].run = engine[j].run
  <2>1. /\ engine'[j].run = engine[j].run /\ engine'[j].kids = engine[j].kids
        /\ engine'[j].reb = engine[j].reb /\ engine'[j].infl = engine[j].infl
        /\ engine'[j].res = engine[j].res \ {q} /\ nspec'[j] = nspec[j]
    BY <1>5, <1>6, <1>7
  <2>2. engine'[j].res \subseteq engine[j].res /\ engine'[j].res \cap {q} = {}
    BY <2>1
  <2> QED BY <2>1, <2>2, PreemptedIsWell DEF WInv
<1>10. TypeOK'
  BY <1>0, <1>6, <1>7 DEF WInv, TypeOK, Ids, NexusSpecs, NexusInfos, Engines, PublishOps, UnpublishOps
<1>11. Said(i)'
  <2>1. nspec'[i].st = "Created" /\ nspec'[i].kids = nspec[i].kids \cup {q}
    BY <1>0, <1>3, <1>6
  <2>2. engine[i].kids \cup engine[i].reb \subseteq nspec[i].kids
    BY <1>1 DEF WInv, EngineInv
  <2>3. engine'[i].kids \cup engine'[i].reb \subseteq nspec'[i].kids
    BY <1>8, <2>1, <2>2
  <2>4. Open(i)'
    BY <1>8 DEF Open
  <2> QED BY <1>8, <2>1, <2>3, <2>4 DEF Said
<1>12. Live(i)
  BY <1>i, <1>0 DEF Live
<1>13. \A j \in Ids \ {i} : engine'[j].run # "absent" => nspec'[j].node # nspec'[i].node
  <2> SUFFICES ASSUME NEW j \in Ids \ {i}, engine'[j].run # "absent" PROVE nspec'[j].node # nspec'[i].node
    OBVIOUS
  <2>1. engine[j].run # "absent" /\ engine[i].run # "absent"
    BY <1>0, <1>9
  <2>2. nspec[j].node # nspec[i].node
    BY <1>1, <2>1 DEF WInv, ExclusiveInv
  <2> QED BY <1>3, <1>6, <2>2
<1>14. \A j \in Ids \ {i} : Live(j)' => Live(j)
  BY <1>0 DEF Live
<1>15. ASSUME NEW j \in Ids \ {i}, NEW r \in {q}, Live(j), Open(j)
       PROVE  ~LocalChild(j, r)
  <2>1. j \in paths
    BY <1>i, <1>0, <1>15, IdleFacts DEF Live
  <2>2. nspec[j].st = "Shutdown"
    BY <1>i, <2>1 DEF WInv, PathInv
  <2> QED BY <1>0, <1>15, <2>2, Fenced DEF WInv
<1>16. ~(op.kind \in Publishing)'
  BY <1>0, IdleFacts
<1>17. EngineInv' /\ ExclusiveInv' /\ LocalInv'
  <2>1. engine'[i].kids \cup engine'[i].reb \subseteq engine[i].kids \cup engine[i].reb \cup {q}
    BY <1>8
  <2>2. nspec'[i].node = nspec[i].node
    BY <1>3, <1>6
  <2>3. \A j \in Ids \ {i} : \A r \in {q} : Live(j) /\ Open(j) => ~LocalChild(j, r)
    BY <1>15
  <2>4. \A j \in Ids \ {i} : Well(j) /\ engine'[j].res \cap {q} = {}
    BY <1>9
  <2>5. {q} \in SUBSET Replicas /\ engine'[i].res \subseteq engine[i].res \cup {q}
    BY <1>8
  <2> QED BY <1>1, <1>11, <1>12, <1>13, <1>14, <1>16, <2>1, <2>2, <2>3, <2>4, <2>5, TakingKeeps
<1>18. PathInv'
  BY <1>i, <1>0, <1>6, IdleFacts DEF WInv, PathInv, TypeOK, Ids
<1>19. OpInv'
  BY <1>0, EndsOp
<1> QED BY <1>10, <1>17, <1>18, <1>19 DEF WInv

\* The create request that fails leaves nothing in the io-engine.
LEMMA CreateFails ==
  ASSUME WInv, NEW i, i = op.nx, op.kind \in Publishing, op.pc = "create", Undo,
         nspec' = [nspec EXCEPT ![i].st = "Deleting"],
         UNCHANGED <<engine, info, data, acked, paths, up, link, seen>>
  PROVE  WInv'
<1> DEFINE s == [nspec[i] EXCEPT !.st = "Deleting"]
<1>0. op' = Idle /\ UNCHANGED vol
  BY DEF Undo
<1>1. i \in Ids /\ nspec[i] \in NexusSpecs
  BY OpKinds DEF WInv, TypeOK
<1>2. s \in NexusSpecs /\ s.st = "Deleting" /\ s.node = nspec[i].node /\ s.kids = nspec[i].kids
  BY <1>1 DEF NexusSpecs
<1>3. nspec' = [nspec EXCEPT ![i] = s]
  BY DEF WInv, TypeOK
<1> HIDE DEF s
<1>4. nspec' \in [Ids -> NexusSpecs] /\ nspec'[i] = s /\ \A j \in Ids \ {i} : nspec'[j] = nspec[j]
  BY ZenonT(40), <1>1, <1>2, <1>3 DEF WInv, TypeOK
<1>5. i # vol.target /\ i \notin paths
  BY DEF WInv, OpInv
<1>6. Well(i)
  BY <1>1, <1>2, <1>4, RespecifiedIsWell DEF WInv
<1>7. \A j \in Ids : Well(j)
  BY <1>4, <1>6, SameIsWell DEF WInv
<1>8. TypeOK'
  BY <1>0, <1>4 DEF WInv, TypeOK, Ids, NexusSpecs, NexusInfos, Engines, PublishOps, UnpublishOps
<1>9. OpInv' /\ ~(op.kind \in Publishing)' /\ op'.kind # "unpublish"
  BY <1>0, EndsOp
<1>10. PathInv'
  BY <1>0, <1>4, <1>5, <1>9 DEF WInv, PathInv, TypeOK, Ids
<1>11. \A j \in Ids : Live(j)' => Live(j)
  BY <1>0, EndsOp DEF Live
<1> QED BY <1>7, <1>8, <1>9, <1>10, <1>11, WellKeeps DEF WInv

\* What the io-engine, the store and the core agent do for a create request that
\* is executed, and whose answer arrives (st "Created") or is lost.
Creates(i, st, p) ==
  /\ \A j \in Existing(i) : nspec[j].st = "Deleting"
  /\ engine' = Opened(i, nspec[i].kids, op.node, [j \in Ids |-> IF j \in Existing(i) THEN Absent ELSE engine[j]])
  /\ info' = [j \in Ids |-> IF j = i THEN OpenedInfo(nspec[i].kids)
                            ELSE IF j \in Existing(i) THEN Ended(j) ELSE info[j]]
  /\ nspec' = [j \in Ids |-> IF j = i THEN [nspec[i] EXCEPT !.st = st]
                             ELSE IF j \in Existing(i) THEN NoSpec ELSE nspec[j]]
  /\ IF st = "Created" THEN op' = [op EXCEPT !.pc = p] ELSE op' = Idle

\* The nexus that was on the node is being deleted, and goes; the new one takes
\* the children chosen before.
LEMMA CreateOpens ==
  ASSUME WInv, MaxWrites \in Nat, NEW i, i = op.nx, op.kind \in Publishing, op.pc = "create",
         NEW st \in {"Created", "Deleting"}, NEW p \in {"cas", "share"},
         p = "cas" => op.kind = "republish", Creates(i, st, p),
         UNCHANGED <<vol, data, acked, paths, up, link, seen>>
  PROVE  WInv'
<1> DEFINE kids == nspec[i].kids
           n == op.node
           d == [j \in Ids |-> IF j \in Existing(i) THEN Absent ELSE engine[j]]
           s == [nspec[i] EXCEPT !.st = st]
<1>1. i \in Ids /\ nspec[i] \in NexusSpecs /\ op \in PublishOps
  BY OpKinds DEF WInv, TypeOK
<1>2. /\ i # vol.target /\ i \notin paths /\ nspec[i].st = "Creating" /\ nspec[i].node = n
      /\ op.kind = "publish" => ~vol.active
      /\ op.kind = "republish" => vol.active /\ op.old = vol.target /\ nspec[op.old].st = "Shutdown"
  BY DEF WInv, OpInv
<1>3. engine[i].run = "absent" /\ ~Open(i)
  BY <1>1, <1>2 DEF WInv, EngineInv, Open
<1>4. kids \in SUBSET Replicas
  BY <1>1 DEF NexusSpecs
<1>5. s \in NexusSpecs /\ s.st = st /\ s.node = nspec[i].node /\ s.kids = kids
  BY <1>1 DEF NexusSpecs
<1>6. Absent \in Engines /\ NoSpec \in NexusSpecs /\ OpenedInfo(kids) \in NexusInfos
  BY <1>4, RecordTypes
<1>7. d \in [Ids -> Engines]
  BY <1>6 DEF WInv, TypeOK
<1>8. /\ nspec' \in [Ids -> NexusSpecs] /\ nspec'[i] = s
      /\ \A j \in Ids \ {i} : nspec'[j] = IF j \in Existing(i) THEN NoSpec ELSE nspec[j]
  <2> HIDE DEF s
  <2>1. nspec' = [j \in Ids |-> IF j = i THEN s ELSE IF j \in Existing(i) THEN NoSpec ELSE nspec[j]]
    BY DEF s, Creates
  <2>2. nspec'[i] = s /\ \A j \in Ids \ {i} : nspec'[j] = IF j \in Existing(i) THEN NoSpec ELSE nspec[j]
    BY <1>1, <2>1
  <2>3. \A j \in Ids : nspec'[j] \in NexusSpecs
    BY <1>5, <1>6, <2>2 DEF WInv, TypeOK
  <2>4. nspec' \in [Ids -> NexusSpecs]
    BY <2>1, <2>3
  <2> QED BY <2>2, <2>4
<1>9. info' \in [Ids -> NexusInfos]
  BY <1>6, InfoTypes DEF WInv, TypeOK, Creates
<1>10. /\ engine' \in [Ids -> Engines]
       /\ \A j \in Ids \ {i} : /\ engine'[j].run = d[j].run /\ engine'[j].kids = d[j].kids
                               /\ engine'[j].reb = d[j].reb /\ engine'[j].infl = d[j].infl
                               /\ engine'[j].res = d[j].res \ kids
       /\ engine'[i].run = "open" /\ engine'[i].kids = kids /\ engine'[i].reb = {} /\ engine'[i].infl = 0
       /\ engine'[i].res \subseteq kids
  <2> DEFINE t == Opened(i, kids, n, d)
  <2>1. engine' = t
    BY DEF Creates
  <2> HIDE DEF d, kids, n
  <2>2. i \in Ids /\ kids \in SUBSET Replicas /\ d \in [Ids -> Engines]
    BY <1>1, <1>4, <1>7
  <2>3. OpensInto(i, kids, d, t)
    BY <2>2, OpenedFields
  <2> HIDE DEF t
  <2> QED BY <2>1, <2>3 DEF OpensInto
<1>11. ASSUME NEW j \in Ids \ {i}
       PROVE  /\ Well(j) /\ engine'[j].res \cap kids = {}
              /\ engine'[j].run # "absent" => nspec'[j].node # nspec[i].node
  <2>1. /\ engine'[j].run = d[j].run /\ engine'[j].kids = d[j].kids /\ engine'[j].reb = d[j].reb
        /\ engine'[j].infl = d[j].infl /\ engine'[j].res = d[j].res \ kids
    BY <1>10
  <2>2. CASE j \in Existing(i)
    <3>1. d[j] = Absent
      BY <2>2
    <3>2. /\ Absent.run = "absent" /\ Absent.kids = {} /\ Absent.reb = {} /\ Absent.infl = 0 /\ Absent.res = {}
      BY DEF Absent
    <3> HIDE DEF d
    <3>3. /\ engine'[j].run = "absent" /\ engine'[j].kids = {} /\ engine'[j].reb = {}
          /\ engine'[j].infl = 0 /\ engine'[j].res = {}
      BY <2>1, <3>1, <3>2
    <3> QED BY <3>3 DEF Well, Open
  <2>3. CASE j \notin Existing(i)
    <3>1. d[j] = engine[j] /\ nspec'[j] = nspec[j]
      BY <1>8, <2>3
    <3> HIDE DEF d
    <3>2. engine'[j].res \subseteq engine[j].res /\ engine'[j].res \cap kids = {}
      BY <2>1, <3>1
    <3>3. Well(j)
      BY <2>1, <3>1, <3>2, PreemptedIsWell DEF WInv
    <3>4. engine'[j].run # "absent" => nspec'[j].node # nspec[i].node
      BY <2>1, <2>3, <3>1 DEF Existing
    <3> QED BY <3>2, <3>3, <3>4
  <2> QED BY <2>2, <2>3
<1> HIDE DEF d, s
<1>12. /\ op' \in PublishOps \cup {Idle} /\ op'.kind # "unpublish"
       /\ op'.kind \in Publishing => /\ op'.pc = p /\ op'.kind = op.kind /\ op'.nx = op.nx
                                     /\ op'.node = op.node /\ op'.old = op.old /\ st = "Created"
  <2>1. CASE st = "Created"
    <3>1. op' = [op EXCEPT !.pc = p]
      BY <2>1 DEF Creates
    <3>2. /\ op' \in PublishOps /\ op'.pc = p /\ op'.kind = op.kind /\ op'.nx = op.nx
          /\ op'.node = op.node /\ op'.old = op.old
      BY <1>1, <3>1 DEF PublishOps
    <3> QED BY <2>1, <3>2 DEF Publishing
  <2>2. CASE st # "Created"
    <3>1. op' = Idle
      BY <2>2 DEF Creates
    <3> QED BY <3>1, IdleFacts
  <2> QED BY <2>1, <2>2
<1>13. TypeOK'
  BY <1>8, <1>9, <1>10, <1>12 DEF WInv, TypeOK, Ids, NexusSpecs, NexusInfos, Engines, PublishOps, UnpublishOps
<1>14. Said(i)'
  <2>1. nspec'[i].st \in {"Created", "Deleting"} /\ nspec'[i].kids = kids
    BY <1>5, <1>8
  <2>2. Open(i)'
    BY <1>10 DEF Open
  <2>3. engine'[i].kids \cup engine'[i].reb \subseteq nspec'[i].kids
    BY <1>10, <2>1
  <2> QED BY <1>10, <2>1, <2>2, <2>3 DEF Said
<1>15. EngineInv' /\ ExclusiveInv' /\ LocalInv'
  <2>1. engine'[i].kids \cup engine'[i].reb \subseteq engine[i].kids \cup engine[i].reb \cup kids
    BY <1>10
  <2>2. nspec'[i].node = nspec[i].node
    BY <1>5, <1>8
  <2>3. \A j \in Ids \ {i} : \A r \in kids : Live(j) /\ Open(j) => ~LocalChild(j, r)
    BY DEF WInv, LocalInv
  <2>4. \A j \in Ids \ {i} : Well(j) /\ engine'[j].res \cap kids = {}
    BY <1>11
  <2>5. \A j \in Ids \ {i} : engine'[j].run # "absent" => nspec'[j].node # nspec'[i].node
    BY <1>11, <2>2
  <2>6. \A j \in Ids \ {i} : Live(j)' => Live(j)
    BY <1>12 DEF Live
  <2>7. ~(op.kind \in Publishing /\ op.pc = "create")'
    BY <1>12
  <2>8. engine'[i].res \subseteq engine[i].res \cup kids
    BY <1>10
  <2> HIDE DEF kids
  <2> QED BY <1>1, <1>3, <1>4, <1>14, <2>1, <2>2, <2>3, <2>4, <2>5, <2>6, <2>7, <2>8, TakingKeeps
<1>16. \A j \in Ids : nspec[j].st = "Shutdown" => nspec'[j].st = "Shutdown"
  BY <1>2, <1>8 DEF Creates
<1>17. PathInv'
  BY <1>12, <1>16 DEF WInv, PathInv, TypeOK, Ids
<1>18. OpInv'
  <2>1. op'.kind \in Publishing => nspec'[op'.nx].st = "Created" /\ nspec'[op'.nx].node = op'.node
    <3>1. nspec'[i].st = st /\ nspec'[i].node = op.node
      BY <1>2, <1>5, <1>8
    <3> QED BY <1>12, <3>1
  <2>2. op.kind = "republish" => nspec'[op.old].st = "Shutdown"
    BY <1>2, <1>16, Republishes
  <2> QED BY SMT, <1>2, <1>12, <2>1, <2>2 DEF OpInv, Publishing
<1> QED BY <1>13, <1>15, <1>17, <1>18 DEF WInv

LEMMA CreateKeeps ==
  ASSUME WInv, MaxWrites \in Nat, CreateRpc
  PROVE  WInv'
<1>i. PICK i : i = op.nx
  OBVIOUS
<1>0. /\ op.kind \in Publishing /\ op.pc = "create"
      /\ UNCHANGED <<data, acked, paths, up, link, seen>>
  BY DEF CreateRpc, Publishing
<1>1. CASE Undo /\ nspec' = [nspec EXCEPT ![i].st = "Deleting"] /\ UNCHANGED <<engine, info>>
  BY <1>i, <1>0, <1>1, CreateFails
<1>2. CASE \E res \in {"ok", "lost"} :
             /\ \A j \in Existing(i) : nspec[j].st = "Deleting"
             /\ engine' = Opened(i, nspec[i].kids, op.node,
                                 [j \in Ids |-> IF j \in Existing(i) THEN Absent ELSE engine[j]])
             /\ info' = [j \in Ids |-> IF j = i THEN OpenedInfo(nspec[i].kids)
                                       ELSE IF j \in Existing(i) THEN Ended(j) ELSE info[j]]
             /\ nspec' = [j \in Ids |->
                            IF j = i THEN [nspec[i] EXCEPT !.st = IF res = "ok" THEN "Created" ELSE "Deleting"]
                            ELSE IF j \in Existing(i) THEN NoSpec ELSE nspec[j]]
             /\ IF res = "lost" THEN Undo
                ELSE /\ op' = [op EXCEPT !.pc = IF op.kind = "republish" THEN "cas" ELSE "share"]
                     /\ UNCHANGED vol
  <2>1. PICK res \in {"ok", "lost"} :
             /\ \A j \in Existing(i) : nspec[j].st = "Deleting"
             /\ engine' = Opened(i, nspec[i].kids, op.node,
                                 [j \in Ids |-> IF j \in Existing(i) THEN Absent ELSE engine[j]])
             /\ info' = [j \in Ids |-> IF j = i THEN OpenedInfo(nspec[i].kids)
                                       ELSE IF j \in Existing(i) THEN Ended(j) ELSE info[j]]
             /\ nspec' = [j \in Ids |->
                            IF j = i THEN [nspec[i] EXCEPT !.st = IF res = "ok" THEN "Created" ELSE "Deleting"]
                            ELSE IF j \in Existing(i) THEN NoSpec ELSE nspec[j]]
             /\ IF res = "lost" THEN Undo
                ELSE /\ op' = [op EXCEPT !.pc = IF op.kind = "republish" THEN "cas" ELSE "share"]
                     /\ UNCHANGED vol
    BY <1>2
  <2>2. PICK st \in {"Created", "Deleting"}, p \in {"cas", "share"} :
          /\ st = IF res = "ok" THEN "Created" ELSE "Deleting"
          /\ p = IF op.kind = "republish" THEN "cas" ELSE "share"
    OBVIOUS
  <2>3. (IF st = "Created" THEN op' = [op EXCEPT !.pc = p] ELSE op' = Idle) /\ UNCHANGED vol
    BY <2>1, <2>2 DEF Undo
  <2>4. Creates(i, st, p)
    BY <2>1, <2>2, <2>3 DEF Creates
  <2> QED BY <1>i, <1>0, <2>2, <2>3, <2>4, CreateOpens
<1> QED BY ZenonT(40), <1>i, <1>1, <1>2 DEF CreateRpc

-----------------------------------------------------------------------------
(* The theorem                                                             *)

LEMMA InitWInv ==
  ASSUME MaxWrites \in Nat, MaxNexus \in Nat, Init
  PROVE  WInv
<1>1. NoSpec \in NexusSpecs /\ Absent \in Engines /\ NoInfo \in NexusInfos
  BY RecordTypes DEF NoInfo, NexusInfos
<1>2. /\ Absent.run = "absent" /\ Absent.kids = {} /\ Absent.reb = {} /\ Absent.res = {} /\ Absent.infl = 0
      /\ NoSpec.st = "none"
  BY DEF Absent, NoSpec
<1>3. 0 \in 0..MaxWrites /\ 0 \in 0..MaxNexus
  BY SMT
<1>4. nspec \in [Ids -> NexusSpecs] /\ info \in [Ids -> NexusInfos] /\ engine \in [Ids -> Engines]
  BY <1>1 DEF Init
<1>5. /\ vol = [target |-> 0, active |-> FALSE, pend |-> FALSE] /\ op = Idle
      /\ data = [r \in Replicas |-> 0] /\ acked = 0 /\ paths = {} /\ up = Nodes /\ link = Nodes /\ seen = Nodes
  BY DEF Init
<1>6. vol \in [target : 0..MaxNexus, active : BOOLEAN, pend : BOOLEAN] /\ ~vol.active
  BY <1>3, <1>5
<1>7. TypeOK
  BY <1>3, <1>4, <1>5, <1>6 DEF TypeOK
<1>8. op.kind \notin Publishing /\ op.kind # "unpublish" /\ OpInv
  BY <1>5, IdleFacts DEF OpInv, Publishing
<1>9. PathInv
  BY <1>5, <1>6 DEF PathInv
<1>10. \A i \in Ids : nspec[i] = NoSpec /\ engine[i] = Absent
  BY DEF Init
<1>11. EngineInv
  BY <1>2, <1>10 DEF EngineInv, Open
<1>12. ExclusiveInv
  BY <1>2, <1>10 DEF ExclusiveInv
<1>13. LocalInv
  BY <1>2, <1>10 DEF LocalInv, Open
<1> QED BY <1>7, <1>8, <1>9, <1>11, <1>12, <1>13 DEF WInv

LEMMA NextWInv ==
  ASSUME MaxWrites \in Nat, WInv, [Next]_vars
  PROVE  WInv'
<1>1. CASE UNCHANGED vars
  <2>1. UNCHANGED <<vol, nspec, op, info, engine, data, acked, paths, up, link, seen>>
    BY <1>1 DEF vars
  <2>2. TypeOK'
    BY <2>1 DEF WInv, TypeOK, Ids, NexusSpecs, NexusInfos, Engines, PublishOps, UnpublishOps
  <2> QED BY <2>1, <2>2, Quiet
<1>2. ASSUME NEW n \in Nodes,
             \/ PublishStart(n) \/ NodeDown(n) \/ NodeUp(n) \/ LinkDown(n) \/ LinkUp(n) \/ Poll(n)
             \/ \E c \in BOOLEAN : RepublishStart(n, c)
      PROVE  WInv'
  BY <1>2, StartKeeps, NodeDownKeeps, PollKeeps
<1>3. CASE RepublishShutdown \/ RepublishReadInfo \/ CreatePick \/ CreateRpc
  BY <1>3, ShutdownKeeps, ReadInfoKeeps, PickKeeps, CreateKeeps
<1>4. CASE RepublishCas \/ ShareNexus \/ DropNew \/ PublishComplete \/ PublishForget
  BY <1>4, CasKeeps, ShareKeeps, DropKeeps, CompleteKeeps, ForgetKeeps
<1>5. CASE (\E f \in BOOLEAN : UnpublishStart(f)) \/ UnpublishDestroy \/ ReconcileDirty
  BY <1>5, UnpublishKeeps, UnpublishDestroyKeeps
<1>6. CASE RecreateTarget \/ FixupProtocol \/ CoreRestart \/ Connect
  BY <1>6, RecreateKeeps, FixupKeeps, RestartKeeps, FrontendKeeps
<1>7. CASE \E r \in Replicas : AttachReplica(r)
  BY <1>7, AttachKeeps
<1>8. ASSUME NEW i \in Ids,
             \/ ReShutdown(i) \/ GarbageCollect(i) \/ RemoveShutdownTarget(i)
             \/ Disconnect(i) \/ BeginWrite(i) \/ EndWrite(i)
             \/ \E r \in Replicas : RebuildDone(i, r)
      PROVE  WInv'
  BY <1>8, ReShutdownKeeps, CollectKeeps, FrontendKeeps, BeginWriteKeeps, EndWriteKeeps, RebuildKeeps
<1> QED
  BY <1>1, <1>2, <1>3, <1>4, <1>5, <1>6, <1>7, <1>8 DEF Next

\* Two nexuses that could write one replica both have its reservation, or are
\* both on its node, or one is and the other has the reservation.
LEMMA WInvImpliesOneWriter ==
  ASSUME WInv
  PROVE  OneWriter
<1> SUFFICES ASSUME NEW i \in paths, NEW j \in paths, NEW r \in Replicas,
                    engine[i].run = "shared", engine[j].run = "shared",
                    r \in engine[i].kids, r \in engine[j].kids, Writable(i, r), Writable(j, r)
             PROVE  i = j
  BY DEF OneWriter
<1>1. i \in Ids /\ j \in Ids /\ Live(i) /\ Live(j) /\ Open(i) /\ Open(j)
  BY DEF WInv, TypeOK, Live, Open
<1>2. CASE Home[r] = nspec[i].node /\ Home[r] = nspec[j].node
  BY <1>1, <1>2 DEF WInv, ExclusiveInv
<1>3. CASE Home[r] = nspec[i].node /\ Home[r] # nspec[j].node
  <2>1. LocalChild(i, r) /\ r \in engine[j].res
    BY <1>3 DEF LocalChild, Writable
  <2> QED BY <1>1, <2>1 DEF WInv, LocalInv
<1>4. CASE Home[r] # nspec[i].node /\ Home[r] = nspec[j].node
  <2>1. LocalChild(j, r) /\ r \in engine[i].res
    BY <1>4 DEF LocalChild, Writable
  <2>2. j = i
    BY <1>1, <2>1 DEF WInv, LocalInv
  <2> QED BY <2>2
<1>5. CASE Home[r] # nspec[i].node /\ Home[r] # nspec[j].node
  <2>1. r \in engine[i].res /\ r \in engine[j].res
    BY <1>5 DEF Writable
  <2> QED BY <1>1, <2>1 DEF WInv, ExclusiveInv
<1> QED BY <1>2, <1>3, <1>4, <1>5

\* Whatever is published, switched over, recreated, collected or partitioned, two
\* nexuses the frontend is connected to never both write one replica: for any
\* nodes, replicas and bounds.
THEOREM WritersAreExclusive ==
  ASSUME MaxWrites \in Nat, MaxNexus \in Nat
  PROVE  Spec => []OneWriter
<1>1. Init => WInv
  BY InitWInv
<1>2. WInv /\ [Next]_vars => WInv'
  BY NextWInv
<1>3. WInv => OneWriter
  BY WInvImpliesOneWriter
<1> QED
  BY <1>1, <1>2, <1>3, PTL DEF Spec
=============================================================================
