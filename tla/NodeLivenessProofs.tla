------------------------- MODULE NodeLivenessProofs -------------------------
(***************************************************************************)
(* An online node shows what was answered: TLAPS proof of AckedIsCached,    *)
(* for any number of registrations, operations, watchdogs, nexuses, faults  *)
(* and restarts of the node.                                                *)
(***************************************************************************)
EXTENDS NodeLiveness, TLAPS

\* The leaves are first-order; the ones that need more name SMT.
USE Zenon

\* Goto changes the job of its task only.
LEMMA JobStep ==
    ASSUME job = [q \in Tasks |-> job[q]], NEW p \in Tasks, NEW j, Goto(p, j)
    PROVE  /\ job' = [q \in Tasks |-> job'[q]]
           /\ job'[p] = j
           /\ \A q \in Tasks : q # p => job'[q] = job[q]
<1>1. job' = [job EXCEPT ![p] = j]
  BY DEF Goto
<1>2. job' = [q \in Tasks |-> IF q = p THEN j ELSE job[q]]
  BY <1>1
<1> QED
  BY <1>2

\* An updater is no operation.
LEMMA Kinds ==
    /\ Updaters \subseteq Tasks /\ Ops \subseteq Tasks /\ Regs \subseteq Updaters
    /\ Poller \in Updaters
    /\ \A p \in Updaters : p \notin Ops
    /\ \A p \in Tasks : p \in Updaters \/ p \in Ops
    /\ \A p \in Tasks : p # None
  BY ConstAssumption DEF Updaters, Tasks

\* No nexus is shown on an empty node, and nothing was answered of one.
LEMMA Nothing == NoNexuses \in NexusStates /\ (acked = {} /\ freed = {} => \A s : Shows(s))
  BY DEF NoNexuses, NexusStates, Shows

\* The first state.
LEMMA InitCache == Init => CacheInv
<1> SUFFICES ASSUME Init PROVE CacheInv
  OBVIOUS
<1>1. job = [p \in Tasks |-> Idle]
  BY DEF Init
<1>2. \A p \in Tasks : job[p].at = "idle"
  BY <1>1 DEF Idle
<1>3. job = [p \in Tasks |-> job[p]]
  BY <1>1
<1>4. NodeInv
  BY <1>3, Nothing DEF Init, NodeInv
<1>5. LockInv
  BY <1>2 DEF LockInv
<1>6. FetchInv
  BY <1>2, Kinds DEF FetchInv
<1>7. OpInv
  BY <1>2, Kinds DEF OpInv
<1>8. AckedIsCached
  BY DEF Init, AckedIsCached, Online
<1> QED
  BY <1>4, <1>5, <1>6, <1>7, <1>8 DEF CacheInv

-----------------------------------------------------------------------------
\* What CacheInv says of one task.
JobInv(p) ==
    /\ job[p].at \in {"store", "apply", "refetch", "storeall"} => grpc = p
    /\ p \in Updaters =>
         /\ job[p].at \in {"idle", "register", "insert", "pet", "lock", "store"}
         /\ job[p].at = "insert" => job[p].got \in NexusStates
         /\ job[p].at = "store" /\ job[p].res = "ok" => job[p].got \in NexusStates /\ Shows(job[p].got)
    /\ p \in Ops =>
         /\ job[p].at \in {"idle", "lock", "apply", "refetch", "storeall"}
         /\ job[p].at # "idle" => reg /\ job[p].nexus \in Nexuses
         /\ job[p].at = "lock" => job[p].op \in {"create", "rebuild", "destroy"}
         /\ job[p].at = "apply" => IF job[p].op = "destroy"
                                    THEN job[p].got = "none" /\ job[p].nexus \notin acked
                                    ELSE job[p].got \in {"idle", "rebuilding"} /\ job[p].nexus \notin freed
         /\ job[p].at = "storeall" => job[p].got \in NexusStates /\ Shows(job[p].got)

\* The invariant is about the node, the cache and each task by itself.
LEMMA TaskByTask == CacheInv <=> NodeInv /\ AckedIsCached /\ \A p \in Tasks : JobInv(p)
  BY Kinds DEF CacheInv, LockInv, FetchInv, OpInv, JobInv

\* So it is in the next state.
LEMMA NextByTask == CacheInv' <=> NodeInv' /\ AckedIsCached' /\ \A p \in Tasks : JobInv(p)'
  BY Kinds DEF CacheInv, LockInv, FetchInv, OpInv, JobInv

\* A task which does nothing is not disturbed by another one, who either takes
\* nothing away from what was answered, or has the gRPC lock.
LEMMA KeepJob ==
    ASSUME NEW q \in Tasks, JobInv(q), job'[q] = job[q], reg => reg',
           \/ grpc' = grpc /\ acked' \subseteq acked /\ freed' \subseteq freed
           \/ grpc # q
    PROVE  JobInv(q)'
<1>1. CASE grpc' = grpc /\ acked' \subseteq acked /\ freed' \subseteq freed
  <2>1. \A s : Shows(s) => Shows(s)'
    BY <1>1 DEF Shows
  <2>2. PICK j : j = job[q]
    OBVIOUS
  <2>3. Shows(j.got) => Shows(j.got)'
    BY <2>1
  <2>4. Shows(job[q].got) => Shows(job[q].got)'
    BY <2>2, <2>3
  <2> QED
    BY <1>1, <2>4 DEF JobInv
<1>2. CASE grpc # q
  BY <1>2 DEF JobInv
<1> QED
  BY <1>1, <1>2

\* A step of task p, which keeps what the invariant says of the node and of p.
LEMMA TaskStep ==
    ASSUME CacheInv, NEW p \in Tasks, NEW j, Goto(p, j), reg => reg',
           \/ grpc' = grpc /\ acked' \subseteq acked /\ freed' \subseteq freed
           \/ grpc \in {p, None},
           (job' = [q \in Tasks |-> job'[q]]) => NodeInv',
           AckedIsCached',
           job'[p] = j => JobInv(p)'
    PROVE  CacheInv'
<1>1. job = [q \in Tasks |-> job[q]]
  BY DEF CacheInv, NodeInv
<1>2. job' = [q \in Tasks |-> job'[q]] /\ job'[p] = j /\ \A q \in Tasks : q # p => job'[q] = job[q]
  BY <1>1, JobStep
<1>3. ASSUME NEW q \in Tasks, q # p PROVE JobInv(q)'
  <2>1. JobInv(q) /\ job'[q] = job[q]
    BY <1>2, <1>3, TaskByTask
  <2>2. q # None
    BY Kinds
  <2> QED
    BY <1>3, <2>1, <2>2, KeepJob
<1>4. \A q \in Tasks : JobInv(q)'
  BY <1>2, <1>3
<1> QED
  BY <1>2, <1>4, NextByTask

-----------------------------------------------------------------------------
(* The steps *)

\* A step which leaves the node's nexuses, the cache and the tasks alone.
LEMMA QuietStep ==
    ASSUME CacheInv, UNCHANGED <<dp, reg, status, cache, grpc, job, acked, freed>>
    PROVE  CacheInv'
<1>1. \A q \in Tasks : JobInv(q)
  BY TaskByTask
<1>2. \A q \in Tasks : JobInv(q)'
  BY <1>1 DEF JobInv, Shows
<1>3. NodeInv'
  BY DEF CacheInv, NodeInv, Shows
<1>4. AckedIsCached'
  BY DEF CacheInv, AckedIsCached, Online, Shows
<1> QED
  BY <1>2, <1>3, <1>4, NextByTask

\* A step which takes the node offline, or changes what is shown of it then.
LEMMA OfflineStep ==
    ASSUME CacheInv, UNCHANGED <<dp, reg, grpc, job, acked, freed>>,
           cache' \in NexusStates, ~Online'
    PROVE  CacheInv'
<1>1. \A q \in Tasks : JobInv(q)
  BY TaskByTask
<1>2. \A q \in Tasks : JobInv(q)'
  BY <1>1 DEF JobInv, Shows
<1>3. NodeInv'
  BY DEF CacheInv, NodeInv, Shows
<1>4. AckedIsCached'
  BY DEF AckedIsCached
<1> QED
  BY <1>2, <1>3, <1>4, NextByTask

\* set_status drops the states of a node which is not online.
LEMMA StatusStep ==
    ASSUME NEW next \in {"Offline", "Unknown"}, SetStatus(next, cache)
    PROVE  cache' \in NexusStates /\ ~Online'
  BY Nothing DEF SetStatus, Online

\* The steps of a watchdog task.
LEMMA DogKeeps == ASSUME CacheInv, NEW d \in Dogs, DogStep(d) PROVE CacheInv'
<1>1. CASE DogTimeout(d)
  BY <1>1, QuietStep DEF DogTimeout, node, wrapper, ghosts
<1>2. CASE DogRecv(d)
  BY <1>2, QuietStep DEF DogRecv, node, wrapper, ghosts
<1>3. CASE OnTimeout(d)
  BY <1>3, QuietStep DEF OnTimeout, node, wrapper, ghosts
<1>4. CASE Probe(d)
  <2>1. CASE UNCHANGED <<status, cache>>
    BY <1>4, <2>1, QuietStep DEF Probe, node, ghosts
  <2>2. CASE SetStatus("Offline", cache)
    BY <1>4, <2>2, StatusStep, OfflineStep DEF Probe, node, ghosts
  <2> QED
    BY <1>4, <2>1, <2>2 DEF Probe
<1>5. CASE PetSelf(d)
  BY <1>5, QuietStep DEF PetSelf, node, ghosts
<1> QED
  BY <1>1, <1>2, <1>3, <1>4, <1>5 DEF DogStep

\* deregister.
LEMMA DeregisterKeeps == ASSUME CacheInv, Deregister PROVE CacheInv'
<1>1. CASE reg
  BY <1>1, StatusStep, OfflineStep DEF Deregister, ghosts
<1>2. CASE ~reg
  BY <1>2, QuietStep DEF Deregister, ghosts
<1> QED
  BY <1>1, <1>2

\* Nothing is asked of an idle task.
LEMMA IdleJob == ASSUME NEW p \in Tasks, job'[p] = Idle PROVE JobInv(p)'
<1>1. job'[p].at = "idle"
  BY SMT DEF Idle
<1> QED
  BY <1>1 DEF JobInv

\* A task gets a job for which it needs neither lock nor states, while nothing
\* else changes that the invariant is about.
LEMMA BenignStep ==
    ASSUME CacheInv, NEW p \in Updaters, NEW j, Goto(p, j),
           j.at \in {"idle", "register", "pet", "lock"},
           UNCHANGED <<dp, reg, status, cache, grpc, acked, freed>>
    PROVE  CacheInv'
<1>1. p \in Tasks /\ p \notin Ops
  BY Kinds
<1>2. (job' = [q \in Tasks |-> job'[q]]) => NodeInv'
  BY DEF CacheInv, NodeInv, Shows
<1>3. AckedIsCached'
  BY DEF CacheInv, AckedIsCached, Online, Shows
<1>4. job'[p] = j => JobInv(p)'
  BY <1>1 DEF JobInv
<1> QED
  BY <1>1, <1>2, <1>3, <1>4, TaskStep

\* The steps of a registration before and after the node is known.
LEMMA RegKeeps == ASSUME CacheInv, NEW r \in Regs, Heartbeat(r) \/ RegStep(r) PROVE CacheInv'
<1>0. r \in Updaters /\ r \in Tasks /\ r \notin Ops
  BY Kinds
<1>1. CASE Heartbeat(r)
  <2>1. [at |-> "register", inst |-> inst].at = "register"
    OBVIOUS
  <2> QED
    BY <1>0, <1>1, <2>1, BenignStep DEF Heartbeat, node, wrapper, ghosts
<1>2. CASE RegisterLoad(r)
  <2>1. CASE Return(r)
    <3>1. Idle.at = "idle" /\ Goto(r, Idle)
      BY <2>1 DEF Idle, Return
    <3> QED
      BY <1>0, <1>2, <3>1, BenignStep DEF RegisterLoad, node, wrapper, ghosts
  <2>2. CASE Goto(r, [at |-> "insert", inst |-> inst, got |-> dp])
    <3>1. (job' = [q \in Tasks |-> job'[q]]) => NodeInv'
      BY <1>2 DEF RegisterLoad, node, wrapper, ghosts, CacheInv, NodeInv, Shows
    <3>2. AckedIsCached'
      BY <1>2 DEF RegisterLoad, node, wrapper, ghosts, CacheInv, AckedIsCached, Online, Shows
    <3>3. dp \in NexusStates
      BY DEF CacheInv, NodeInv
    <3>4. ASSUME job'[r] = [at |-> "insert", inst |-> inst, got |-> dp] PROVE JobInv(r)'
      <4>1. job'[r].at = "insert" /\ job'[r].got = dp
        BY <3>4, SMT
      <4> QED
        BY <1>0, <3>3, <4>1 DEF JobInv
    <3> QED
      BY <1>0, <1>2, <2>2, <3>1, <3>2, <3>4, TaskStep DEF RegisterLoad, wrapper, ghosts
  <2> QED
    BY <1>2, <2>1, <2>2 DEF RegisterLoad
<1>3. CASE RegisterInsert(r)
  <2>1. CASE reg
    <3>1. Idle.at = "idle" /\ Goto(r, Idle)
      BY <1>3 DEF Idle, Return, RegisterInsert
    <3> QED
      BY <1>0, <1>3, <2>1, <3>1, BenignStep DEF RegisterInsert, node, wrapper, ghosts
  <2>2. CASE ~reg
    <3>1. Goto(r, Idle) /\ cache' = job[r].got /\ UNCHANGED <<dp, grpc, acked, freed>> /\ reg'
      BY <1>3, <2>2 DEF Return, RegisterInsert, node, ghosts
    <3>2. acked' = {} /\ freed' = {}
      BY <2>2, <3>1 DEF CacheInv, NodeInv
    <3>3. job[r].got \in NexusStates
      BY <1>0, <1>3 DEF CacheInv, FetchInv, RegisterInsert, At
    <3>4. (job' = [q \in Tasks |-> job'[q]]) => NodeInv'
      BY <3>1, <3>2, <3>3 DEF CacheInv, NodeInv, Shows
    <3>5. AckedIsCached'
      BY <3>2 DEF AckedIsCached, Shows
    <3>6. job'[r] = Idle => JobInv(r)'
      BY <1>0, IdleJob
    <3> QED
      BY <1>0, <3>1, <3>4, <3>5, <3>6, TaskStep
  <2> QED
    BY <2>1, <2>2
<1>4. ASSUME NEW c, AfterPet(r, c)
      PROVE  \E j : Goto(r, j) /\ j.at \in {"idle", "register", "pet", "lock"}
  <2>1. Idle.at = "idle" /\ [at |-> "lock", online |-> status # "Online"].at = "lock"
    BY DEF Idle
  <2> QED
    BY <1>4, <2>1 DEF AfterPet, Return
<1>5. CASE OnRegister(r)
  <2>1. \E j : Goto(r, j) /\ j.at \in {"idle", "register", "pet", "lock"}
    <3>1. [at |-> "pet", changed |-> known # job[r].inst].at = "pet"
      OBVIOUS
    <3> QED
      BY <1>4, <1>5, <3>1 DEF OnRegister
  <2> QED
    BY <1>0, <1>5, <2>1, BenignStep DEF OnRegister, node, ghosts
<1>6. CASE PetDone(r)
  <2>1. \E j : Goto(r, j) /\ j.at \in {"idle", "register", "pet", "lock"}
    BY <1>4, <1>6 DEF PetDone
  <2> QED
    BY <1>0, <1>6, <2>1, BenignStep DEF PetDone, node, ghosts
<1> QED
  BY <1>1, <1>2, <1>3, <1>5, <1>6 DEF RegStep

\* poll_node.
LEMMA PollKeeps == ASSUME CacheInv, PollNode PROVE CacheInv'
<1>1. [at |-> "lock", online |-> FALSE].at = "lock"
  OBVIOUS
<1> QED
  BY <1>1, Kinds, BenignStep DEF PollNode, node, wrapper, ghosts

\* update_all: the fetch is made, and its result is stored, under the gRPC lock.
LEMMA UpdateKeeps == ASSUME CacheInv, NEW p \in Updaters, Update(p) PROVE CacheInv'
<1>0. p \in Tasks /\ p \notin Ops
  BY Kinds
<1>1. CASE UpdateFetch(p)
  <2>1. grpc = None /\ grpc' = p /\ UNCHANGED <<dp, reg, status, cache, acked, freed>>
    BY <1>1 DEF UpdateFetch, node, wrapper, ghosts
  <2>2. (job' = [q \in Tasks |-> job'[q]]) => NodeInv'
    BY <2>1 DEF CacheInv, NodeInv, Shows
  <2>3. AckedIsCached'
    BY <2>1 DEF CacheInv, AckedIsCached, Online, Shows
  <2>4. ASSUME NEW j, Goto(p, j), j.at = "store",
               j.res = "ok" => j.got \in NexusStates /\ Shows(j.got)'
        PROVE  CacheInv'
    <3>1. job'[p] = j => JobInv(p)'
      BY <1>0, <2>1, <2>4 DEF JobInv, Shows
    <3> QED
      BY <1>0, <2>1, <2>2, <2>3, <2>4, <3>1, TaskStep
  <2>5. CASE Goto(p, [at |-> "store", online |-> job[p].online, res |-> "ok", got |-> dp])
    <3>1. PICK j : j = [at |-> "store", online |-> job[p].online, res |-> "ok", got |-> dp]
      OBVIOUS
    <3>2. j.at = "store" /\ j.got = dp
      BY <3>1
    <3>3. j.got \in NexusStates /\ Shows(j.got)'
      BY <2>1, <3>2 DEF CacheInv, NodeInv, Shows
    <3> QED
      BY <2>4, <2>5, <3>1, <3>2, <3>3
  <2>6. ASSUME NEW e \in {"lost", "err"},
               Goto(p, [at |-> "store", online |-> job[p].online, res |-> e])
        PROVE  CacheInv'
    <3>1. PICK j : j = [at |-> "store", online |-> job[p].online, res |-> e]
      OBVIOUS
    <3>2. j.at = "store" /\ j.res # "ok"
      BY <2>6, <3>1
    <3> QED
      BY <2>4, <2>6, <3>1, <3>2
  <2> QED
    BY <1>1, <2>5, <2>6 DEF UpdateFetch, Fetch
<1>2. CASE UpdateStore(p)
  <2>1. JobInv(p) /\ job[p].at = "store"
    BY <1>0, <1>2, TaskByTask DEF UpdateStore, At
  <2>2. grpc = p /\ Goto(p, Idle) /\ UNCHANGED <<dp, reg, acked, freed>>
    BY <1>2, <2>1 DEF JobInv, UpdateStore, Return, node, ghosts
  <2>3. cache' \in NexusStates /\ AckedIsCached'
    <3>1. CASE SetStatus("Unknown", cache)
      BY <3>1, StatusStep DEF AckedIsCached
    <3>2. CASE cache' = NoNexuses /\ UNCHANGED status /\ ~Online
      BY <2>2, <3>2, Nothing DEF AckedIsCached, Online
    <3>3. CASE job[p].res = "ok" /\ SetStatus("Online", job[p].got)
      <4>1. cache' = job[p].got
        BY <3>3 DEF SetStatus
      <4>2. job[p].got \in NexusStates /\ Shows(job[p].got)
        BY <2>1, <3>3 DEF JobInv
      <4> QED
        BY <2>2, <4>1, <4>2 DEF AckedIsCached, Shows
    <3> QED
      BY <1>2, <3>1, <3>2, <3>3 DEF UpdateStore
  <2>4. (job' = [q \in Tasks |-> job'[q]]) => NodeInv'
    BY <2>2, <2>3 DEF CacheInv, NodeInv, Shows
  <2>5. job'[p] = Idle => JobInv(p)'
    BY <1>0, IdleJob
  <2> QED
    BY <1>0, <2>2, <2>3, <2>4, <2>5, TaskStep
<1> QED
  BY <1>1, <1>2 DEF Update

\* What an operation makes of its nexus.
LEMMA Outcomes ==
    ASSUME NEW k \in {"create", "rebuild", "destroy"}, NEW was \in {"none", "idle", "rebuilding"}
    PROVE  /\ Outcome(k, was) \in {"none", "idle", "rebuilding"}
           /\ k = "destroy" => Outcome(k, was) = "none"
           /\ k # "destroy" /\ ~(k = "rebuild" /\ was = "none") => Outcome(k, was) \in {"idle", "rebuilding"}
           /\ k = "rebuild" => (Outcome(k, was) = "none" <=> was = "none")
  BY DEF Outcome

\* A node which does as it is told is as it was answered to be.
LEMMA ExecuteKeeps ==
    ASSUME NodeInv, NEW k \in {"create", "rebuild", "destroy"}, NEW n \in Nexuses, Execute(k, n)
    PROVE  /\ dp' \in NexusStates /\ Shows(dp)'
           /\ acked' \subseteq acked /\ freed' \subseteq freed
           /\ k = "destroy" => n \notin acked'
           /\ k = "create" => n \notin freed'
<1> DEFINE out == Outcome(k, dp[n])
<1>1. dp \in [Nexuses -> {"none", "idle", "rebuilding"}]
  BY DEF NodeInv, NexusStates
<1>2. dp[n] \in {"none", "idle", "rebuilding"}
  BY <1>1
<1>3. /\ out \in {"none", "idle", "rebuilding"}
      /\ k = "destroy" => out = "none"
      /\ k = "create" => out # "none"
      /\ k = "rebuild" => (out = "none" <=> dp[n] = "none")
  BY <1>2, Outcomes
<1>4. dp' = [dp EXCEPT ![n] = out]
  BY DEF Execute
<1> HIDE DEF out
<1>5. dp' \in NexusStates
  BY <1>1, <1>3, <1>4 DEF NexusStates
<1>6. dp'[n] = out /\ \A m \in Nexuses : m # n => dp'[m] = dp[m]
  BY <1>1, <1>4
<1>7. /\ acked' \subseteq acked /\ freed' \subseteq freed
      /\ k = "destroy" => n \notin acked'
      /\ k = "create" => n \notin freed'
  BY DEF Execute
<1>8. ASSUME NEW m \in Nexuses
      PROVE  (m \in acked' => dp'[m] # "none") /\ (m \in freed' => dp'[m] = "none")
  <2>1. (m \in acked => dp[m] # "none") /\ (m \in freed => dp[m] = "none")
    BY DEF NodeInv, Shows
  <2>2. CASE m # n
    BY <1>6, <1>7, <2>1, <2>2
  <2>3. CASE m = n
    BY <1>3, <1>6, <1>7, <2>1, <2>3
  <2> QED
    BY <2>2, <2>3
<1>9. Shows(dp)'
  BY <1>8 DEF Shows
<1> QED
  BY <1>5, <1>7, <1>9

\* An operation starts on a node which is online.
LEMMA OpStartKeeps == ASSUME CacheInv, NEW o \in Ops, OpStart(o) PROVE CacheInv'
<1>0. o \in Tasks /\ o \notin Updaters
  BY Kinds
<1>1. PICK k \in {"create", "rebuild", "destroy"}, n \in Nexuses :
        Goto(o, [at |-> "lock", op |-> k, nexus |-> n])
  BY DEF OpStart
<1>2. PICK j : j = [at |-> "lock", op |-> k, nexus |-> n]
  OBVIOUS
<1>3. j.at = "lock" /\ j.op = k /\ j.nexus = n
  BY <1>2
<1>4. reg /\ UNCHANGED <<dp, reg, status, cache, grpc, acked, freed>>
  BY DEF OpStart, Online, node, wrapper, ghosts
<1>5. (job' = [q \in Tasks |-> job'[q]]) => NodeInv'
  BY <1>4 DEF CacheInv, NodeInv, Shows
<1>6. AckedIsCached'
  BY <1>4 DEF CacheInv, AckedIsCached, Online, Shows
<1>7. job'[o] = j => JobInv(o)'
  BY <1>0, <1>3, <1>4 DEF JobInv
<1> QED
  BY <1>0, <1>1, <1>2, <1>4, <1>5, <1>6, <1>7, TaskStep

\* The call of an operation to the node.
LEMMA OpCallKeeps == ASSUME CacheInv, NEW o \in Ops, OpCall(o) PROVE CacheInv'
<1>0. o \in Tasks /\ o \notin Updaters
  BY Kinds
<1>1. PICK k, n : k = job[o].op /\ n = job[o].nexus
  OBVIOUS
<1>2. k \in {"create", "rebuild", "destroy"} /\ n \in Nexuses /\ reg
  BY <1>1 DEF CacheInv, OpInv, OpCall, At
<1>3. grpc = None /\ UNCHANGED <<reg, status, cache>>
  BY DEF OpCall, wrapper
<1>4. NodeInv /\ AckedIsCached
  BY DEF CacheInv
<1>5. CASE Execute(k, n) \/ UNCHANGED <<dp, ghosts>>
  <2>1. /\ dp' \in NexusStates /\ Shows(dp)'
        /\ acked' \subseteq acked /\ freed' \subseteq freed
    <3>1. CASE Execute(k, n)
      BY <1>2, <1>4, <3>1, ExecuteKeeps
    <3>2. CASE UNCHANGED <<dp, ghosts>>
      BY <1>4, <3>2 DEF NodeInv, Shows, ghosts
    <3> QED
      BY <1>5, <3>1, <3>2
  <2>2. (job' = [q \in Tasks |-> job'[q]]) => NodeInv'
    BY <1>2, <1>3, <1>4, <2>1 DEF NodeInv
  <2>3. AckedIsCached'
    BY <1>3, <1>4, <2>1 DEF AckedIsCached, Online, Shows
  <2>4. CASE Goto(o, Idle)
    BY <1>0, <1>3, <2>2, <2>3, <2>4, IdleJob, TaskStep
  <2>5. CASE Goto(o, [at |-> "refetch", nexus |-> n]) /\ grpc' = o
    <3>1. PICK j : j = [at |-> "refetch", nexus |-> n]
      OBVIOUS
    <3>2. j.at = "refetch" /\ j.nexus = n
      BY <3>1
    <3>3. job'[o] = j => JobInv(o)'
      BY <1>0, <1>2, <1>3, <2>5, <3>2 DEF JobInv
    <3> QED
      BY <1>0, <1>3, <2>2, <2>3, <2>5, <3>1, <3>3, TaskStep
  <2>6. CASE /\ Goto(o, [at |-> "apply", op |-> k, nexus |-> n, got |-> Outcome(k, dp[n])])
             /\ grpc' = o /\ Execute(k, n) /\ ~(k = "rebuild" /\ dp[n] = "none")
    <3>1. PICK j : j = [at |-> "apply", op |-> k, nexus |-> n, got |-> Outcome(k, dp[n])]
      OBVIOUS
    <3>2. j.at = "apply" /\ j.op = k /\ j.nexus = n /\ j.got = Outcome(k, dp[n])
      BY <3>1
    <3>3. dp[n] \in {"none", "idle", "rebuilding"}
      BY <1>2, <1>4 DEF NodeInv, NexusStates
    <3>4. /\ k = "destroy" => j.got = "none" /\ n \notin acked'
          /\ k # "destroy" => j.got \in {"idle", "rebuilding"}
      BY <1>2, <1>4, <2>6, <3>2, <3>3, Outcomes, ExecuteKeeps
    <3>5. k # "destroy" => n \notin freed'
      <4>1. CASE k = "create"
        BY <1>2, <1>4, <2>6, <4>1, ExecuteKeeps
      <4>2. CASE k = "rebuild"
        <5>1. n \notin freed
          BY <1>2, <1>4, <2>6, <4>2 DEF NodeInv, Shows
        <5> QED
          BY <2>1, <5>1
      <4> QED
        BY <1>2, <4>1, <4>2
    <3>6. job'[o] = j => JobInv(o)'
      BY <1>0, <1>2, <1>3, <2>6, <3>2, <3>4, <3>5 DEF JobInv
    <3> QED
      BY <1>0, <1>3, <2>2, <2>3, <2>6, <3>1, <3>6, TaskStep
  <2> QED
    BY <1>1, <2>4, <2>5, <2>6 DEF OpCall, Return
<1> QED
  BY <1>1, <1>5 DEF OpCall

\* An operation asks for all states after its create failed.
LEMMA OpRefetchKeeps == ASSUME CacheInv, NEW o \in Ops, OpRefetch(o) PROVE CacheInv'
<1>0. o \in Tasks /\ o \notin Updaters
  BY Kinds
<1>1. job[o].at = "refetch" /\ JobInv(o)
  BY <1>0, TaskByTask DEF OpRefetch, At
<1>2. grpc = o /\ reg /\ job[o].nexus \in Nexuses
  BY <1>0, <1>1 DEF JobInv
<1>3. UNCHANGED <<dp, reg, status, cache, acked, freed>>
  BY DEF OpRefetch, node, wrapper, ghosts
<1>4. (job' = [q \in Tasks |-> job'[q]]) => NodeInv'
  BY <1>3 DEF CacheInv, NodeInv, Shows
<1>5. AckedIsCached'
  BY <1>3 DEF CacheInv, AckedIsCached, Online, Shows
<1>6. CASE Goto(o, Idle)
  BY <1>0, <1>2, <1>3, <1>4, <1>5, <1>6, IdleJob, TaskStep
<1>7. CASE UNCHANGED grpc /\ Goto(o, [at |-> "storeall", nexus |-> job[o].nexus, got |-> dp])
  <2>1. PICK j : j = [at |-> "storeall", nexus |-> job[o].nexus, got |-> dp]
    OBVIOUS
  <2>2. j.at = "storeall" /\ j.nexus = job[o].nexus /\ j.got = dp
    BY <2>1
  <2>3. j.got \in NexusStates /\ Shows(j.got)'
    BY <1>3, <2>2 DEF CacheInv, NodeInv, Shows
  <2>4. job'[o] = j => JobInv(o)'
    BY <1>0, <1>2, <1>3, <1>7, <2>2, <2>3 DEF JobInv, Shows
  <2> QED
    BY <1>0, <1>2, <1>3, <1>4, <1>5, <1>7, <2>1, <2>4, TaskStep
<1> QED
  BY <1>6, <1>7 DEF OpRefetch, Return

\* An answer is about the nexus as the node has it.
LEMMA AnswerKeeps ==
    ASSUME NEW n \in Nexuses, NEW there \in BOOLEAN, Shows(dp), UNCHANGED dp, Answer(n, there)
    PROVE  /\ Shows(dp)'
           /\ \A m \in Nexuses : m # n => (m \in acked' <=> m \in acked) /\ (m \in freed' <=> m \in freed)
           /\ there => freed' = freed
           /\ ~there => acked' = acked
<1>1. CASE there
  BY <1>1 DEF Answer, Shows
<1>2. CASE ~there
  BY <1>2 DEF Answer, Shows
<1> QED
  BY <1>1, <1>2

\* The state of the nexus is stored and the operation answered.
LEMMA OpApplyKeeps == ASSUME CacheInv, NEW o \in Ops, OpApply(o) PROVE CacheInv'
<1>0. o \in Tasks /\ o \notin Updaters
  BY Kinds
<1>1. job[o].at = "apply" /\ JobInv(o)
  BY <1>0, TaskByTask DEF OpApply, At
<1>2. PICK n, g : n = job[o].nexus /\ g = job[o].got
  OBVIOUS
<1>3. PICK there \in BOOLEAN : there = (job[o].op # "destroy")
  OBVIOUS
<1>4. /\ grpc = o /\ reg /\ n \in Nexuses
      /\ there => g \in {"idle", "rebuilding"} /\ n \notin freed
      /\ ~there => g = "none" /\ n \notin acked
  BY <1>0, <1>1, <1>2, <1>3 DEF JobInv
<1>5. cache' = [cache EXCEPT ![n] = g] /\ Answer(n, there) /\ Goto(o, Idle)
  BY <1>2, <1>3 DEF OpApply, Return
<1>6. UNCHANGED <<dp, reg, status>>
  BY DEF OpApply, node
<1>7. cache \in NexusStates /\ Shows(dp) /\ dp \in NexusStates /\ AckedIsCached
  BY DEF CacheInv, NodeInv
<1>8. /\ Shows(dp)'
      /\ \A m \in Nexuses : m # n => (m \in acked' <=> m \in acked) /\ (m \in freed' <=> m \in freed)
      /\ there => freed' = freed
      /\ ~there => acked' = acked
  BY <1>4, <1>5, <1>6, <1>7, AnswerKeeps
<1>9. cache' \in NexusStates /\ cache'[n] = g /\ \A m \in Nexuses : m # n => cache'[m] = cache[m]
  BY <1>4, <1>5, <1>7 DEF NexusStates
<1>10. AckedIsCached'
  <2>1. SUFFICES ASSUME Online, NEW m \in Nexuses
                 PROVE  (m \in acked' => cache'[m] # "none") /\ (m \in freed' => cache'[m] = "none")
    BY <1>6 DEF AckedIsCached, Shows, Online
  <2>2. CASE m = n
    BY <1>4, <1>8, <1>9, <2>2
  <2>3. CASE m # n
    BY <1>7, <1>8, <1>9, <2>1, <2>3 DEF AckedIsCached, Shows
  <2> QED
    BY <2>2, <2>3
<1>11. (job' = [q \in Tasks |-> job'[q]]) => NodeInv'
  BY <1>4, <1>6, <1>7, <1>8, <1>9 DEF NodeInv
<1> QED
  BY <1>0, <1>4, <1>5, <1>6, <1>10, <1>11, IdleJob, TaskStep

\* All states are stored after a failed create, which is answered Ok if the nexus is there.
LEMMA OpStoreAllKeeps == ASSUME CacheInv, NEW o \in Ops, OpStoreAll(o) PROVE CacheInv'
<1>0. o \in Tasks /\ o \notin Updaters
  BY Kinds
<1>1. job[o].at = "storeall" /\ JobInv(o)
  BY <1>0, TaskByTask DEF OpStoreAll, At
<1>2. PICK n, g : n = job[o].nexus /\ g = job[o].got
  OBVIOUS
<1>3. grpc = o /\ reg /\ n \in Nexuses /\ g \in NexusStates /\ Shows(g)
  BY <1>0, <1>1, <1>2 DEF JobInv
<1>4. /\ cache' = g /\ Goto(o, Idle)
      /\ IF g[n] # "none" THEN Answer(n, TRUE) ELSE UNCHANGED ghosts
  BY <1>2 DEF OpStoreAll, Return
<1>5. UNCHANGED <<dp, reg, status>>
  BY DEF OpStoreAll, node
<1>6. Shows(dp) /\ dp \in NexusStates
  BY DEF CacheInv, NodeInv
<1>7. Shows(dp)' /\ Shows(g)'
  <2>1. CASE g[n] # "none"
    <3>1. /\ Shows(dp)' /\ freed' = freed
          /\ \A m \in Nexuses : m # n => (m \in acked' <=> m \in acked)
      BY <1>3, <1>4, <1>5, <1>6, <2>1, AnswerKeeps
    <3>2. n \notin freed
      BY <1>3, <2>1 DEF Shows
    <3> QED
      BY <1>3, <2>1, <3>1, <3>2 DEF Shows
  <2>2. CASE g[n] = "none"
    BY <1>3, <1>4, <1>5, <1>6, <2>2 DEF Shows, ghosts
  <2> QED
    BY <2>1, <2>2
<1>8. AckedIsCached'
  BY <1>4, <1>7 DEF AckedIsCached, Shows
<1>9. (job' = [q \in Tasks |-> job'[q]]) => NodeInv'
  BY <1>3, <1>4, <1>5, <1>6, <1>7 DEF NodeInv
<1> QED
  BY <1>0, <1>3, <1>4, <1>5, <1>8, <1>9, IdleJob, TaskStep

\* The node stops, with its nexuses or only for the agent.
LEMMA StopKeeps == ASSUME CacheInv, Stop PROVE CacheInv'
<1>1. CASE UNCHANGED <<dp, ghosts>>
  BY <1>1, QuietStep DEF Stop, wrapper, ghosts
<1>2. CASE dp' = NoNexuses /\ acked' = {} /\ freed' = {}
  <2>1. UNCHANGED <<reg, status, cache, grpc, job>>
    BY DEF Stop, wrapper
  <2>2. NodeInv' /\ AckedIsCached'
    BY <1>2, <2>1, Nothing DEF CacheInv, NodeInv, AckedIsCached, Shows
  <2>3. \A q \in Tasks : JobInv(q)
    BY TaskByTask
  <2>4. \A q \in Tasks : JobInv(q)'
    BY <1>2, <2>1, <2>3 DEF JobInv, Shows
  <2> QED
    BY <2>2, <2>4, NextByTask
<1> QED
  BY <1>1, <1>2 DEF Stop

\* A rebuild ends.
LEMMA RebuildDoneKeeps == ASSUME CacheInv, NEW n \in Nexuses, RebuildDone(n) PROVE CacheInv'
<1>1. UNCHANGED <<reg, status, cache, grpc, job, acked, freed>>
  BY DEF RebuildDone, wrapper, ghosts
<1>2. dp \in [Nexuses -> {"none", "idle", "rebuilding"}] /\ Shows(dp)
  BY DEF CacheInv, NodeInv, NexusStates
<1>3. dp[n] = "rebuilding" /\ dp' = [dp EXCEPT ![n] = "idle"]
  BY DEF RebuildDone
<1>4. dp' \in NexusStates /\ dp'[n] = "idle" /\ \A m \in Nexuses : m # n => dp'[m] = dp[m]
  BY <1>2, <1>3 DEF NexusStates
<1>5. Shows(dp)'
  <2>1. SUFFICES ASSUME NEW m \in Nexuses
                 PROVE  (m \in acked => dp'[m] # "none") /\ (m \in freed => dp'[m] = "none")
    BY <1>1 DEF Shows
  <2>2. CASE m = n
    BY <1>2, <1>3, <1>4, <2>2 DEF Shows
  <2>3. CASE m # n
    BY <1>2, <1>4, <2>3 DEF Shows
  <2> QED
    BY <2>2, <2>3
<1>6. NodeInv'
  BY <1>1, <1>4, <1>5 DEF CacheInv, NodeInv
<1>7. AckedIsCached'
  BY <1>1 DEF CacheInv, AckedIsCached, Online, Shows
<1>8. \A q \in Tasks : JobInv(q)
  BY TaskByTask
<1>9. \A q \in Tasks : JobInv(q)'
  BY <1>1, <1>8 DEF JobInv, Shows
<1> QED
  BY <1>6, <1>7, <1>9, NextByTask

\* Every step keeps the invariant.
LEMMA NextCache == CacheInv /\ [Next]_vars => CacheInv'
<1> SUFFICES ASSUME CacheInv, [Next]_vars PROVE CacheInv'
  OBVIOUS
<1>1. CASE Expire
  BY <1>1, QuietStep DEF Expire, node, ghosts
<1>2. CASE \E d \in Dogs : DogStep(d)
  BY <1>2, DogKeeps
<1>3. CASE \E r \in Regs : Heartbeat(r) \/ RegStep(r)
  BY <1>3, RegKeeps
<1>4. CASE Deregister
  BY <1>4, DeregisterKeeps
<1>5. CASE PollNode
  BY <1>5, PollKeeps
<1>6. CASE \E p \in Updaters : Update(p)
  BY <1>6, UpdateKeeps
<1>7. CASE \E o \in Ops : OpStart(o) \/ OpStep(o)
  BY <1>7, OpStartKeeps, OpCallKeeps, OpRefetchKeeps, OpApplyKeeps, OpStoreAllKeeps DEF OpStep
<1>8. CASE Stop
  BY <1>8, StopKeeps
<1>9. CASE Start
  BY <1>9, QuietStep DEF Start, wrapper, ghosts
<1>10. CASE \E n \in Nexuses : RebuildDone(n)
  BY <1>10, RebuildDoneKeeps
<1>11. CASE UNCHANGED vars
  BY <1>11, QuietStep DEF vars, node, wrapper, ghosts
<1> QED
  BY <1>1, <1>2, <1>3, <1>4, <1>5, <1>6, <1>7, <1>8, <1>9, <1>10, <1>11 DEF Next

\* An online node shows every nexus whose creation was answered Ok and none whose
\* destruction was, however registrations, polls, watchdogs, operations and restarts
\* of the node interleave (the gRPC lock of GrpcContext, NodeWrapper::update).
THEOREM AnswersAreCached == Spec => []AckedIsCached
<1>1. CacheInv => AckedIsCached
  BY DEF CacheInv
<1> QED
  BY <1>1, InitCache, NextCache, PTL DEF Spec
=============================================================================
