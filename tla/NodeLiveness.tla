---------------------------- MODULE NodeLiveness ----------------------------
(***************************************************************************)
(* What the core agent knows of one io-engine node: its status, its         *)
(* watchdog and the cached states of its nexuses (node/service.rs,          *)
(* node/wrapper.rs, node/watchdog.rs, Registry::poller).                    *)
(*                                                                         *)
(* The NodeWrapper is behind an RwLock.  Most sections under its write lock *)
(* have no await and are one step; the two that have one are the wait for   *)
(* room in the channel of the watchdog (pet) and the liveness probe of the  *)
(* watchdog task.  A second lock (grpc) serialises the calls to the node    *)
(* which change something, and the fetching of all its states.              *)
(***************************************************************************)
EXTENDS Integers, FiniteSets

CONSTANTS
    Regs,         \* tasks serving registrations (heartbeats) of the node
    Ops,          \* tasks serving operations on the node's nexuses
    Poller,       \* the poller of the registry
    Dogs,         \* watchdog tasks
    Nexuses,
    None,
    Prompt,       \* does every task get to run within the watchdog's deadline
    MaxRebuilds,  \* max_rebuilds
    MaxStops,     \* bound: times the node is stopped or cut off
    MaxFaults,    \* bound: failed calls to a node that is up
    MaxOps        \* bound: operations

ASSUME ConstAssumption ==
    /\ Prompt \in BOOLEAN
    /\ MaxRebuilds \in Nat /\ MaxStops \in Nat /\ MaxFaults \in Nat /\ MaxOps \in Nat
    /\ None \notin Regs \cup Ops \cup {Poller} \cup Dogs
    /\ Ops \cap (Regs \cup {Poller}) = {}

Updaters == Regs \cup {Poller}
Tasks == Updaters \cup Ops

VARIABLES
    up,       \* the node can be reached and answers
    inst,     \* its instance_uuid
    dp,       \* its nexuses
    bye,      \* a Deregister of the node is on its way
    \* The NodeWrapper
    reg,      \* it exists
    status,   \* NodeStatus
    known,    \* instance_uuid of the last registration
    cache,    \* the cached nexus states
    num,      \* num_rebuilds
    expired,  \* registration_expired
    chan,     \* the watchdog whose channel it holds: pet_chan
    \* The watchdog tasks and the message in the channel of each
    dog, buf,
    \* The two locks
    holder, grpc,
    \* What each task is at, with its local variables
    job,
    stops, faults, made,
    acked, freed  \* nexuses whose creation, whose destruction was answered Ok

node    == <<up, inst, dp, bye>>
wrapper == <<reg, status, known, cache, num, expired, chan>>
dogs    == <<dog, buf>>
bounds  == <<stops, faults, made>>
ghosts  == <<acked, freed>>
vars == <<node, wrapper, dogs, holder, grpc, job, bounds, ghosts>>

NexusStates == [Nexuses -> {"none", "idle", "rebuilding"}]
NoNexuses == [n \in Nexuses |-> "none"]
Idle == [at |-> "idle"]
Rebuilding(s) == {n \in Nexuses : s[n] = "rebuilding"}

Init ==
    /\ up = TRUE /\ inst = 0 /\ dp = NoNexuses /\ bye = FALSE
    /\ reg = FALSE /\ status = "Unknown" /\ known = 0 /\ cache = NoNexuses /\ num = 0
    /\ expired = FALSE /\ chan = None
    /\ dog = [d \in Dogs |-> "gone"] /\ buf = [d \in Dogs |-> FALSE]
    /\ holder = None /\ grpc = None
    /\ job = [p \in Tasks |-> Idle]
    /\ stops = 0 /\ faults = 0 /\ made = 0
    /\ acked = {} /\ freed = {}

At(p, l) == job[p].at = l
Goto(p, j) == job' = [job EXCEPT ![p] = j]
Return(p) == Goto(p, Idle)

\* A call to a node that is up fails, or is not answered in time.
Fault == up /\ faults < MaxFaults /\ faults' = faults + 1 /\ UNCHANGED <<stops, made>>
Unanswered == (~up /\ UNCHANGED bounds) \/ Fault

Online == reg /\ status = "Online"

-----------------------------------------------------------------------------
(* The wrapper, under its write lock *)

\* set_status: only the change to Unknown disarms the watchdog, and a node
\* which is not online has no states.
SetStatus(next, states) ==
    /\ status' = next
    /\ chan' = IF next = "Unknown" /\ status # "Unknown" THEN None ELSE chan
    /\ cache' = IF next = "Online" THEN states ELSE NoNexuses

\* arm: a new channel and a new task.  A task which is gone makes room.
Arm == \E d \in Dogs :
    /\ dog[d] = "gone"
    /\ dog' = [dog EXCEPT ![d] = "recv"]
    /\ chan' = d

\* pet has room for its message.
Room == chan # None => ~buf[chan]

\* pet, when there is room: a stopped watchdog is armed again.
Pet == IF chan = None THEN Arm /\ UNCHANGED buf
                      ELSE buf' = [buf EXCEPT ![chan] = TRUE] /\ UNCHANGED <<dog, chan>>

\* Every watchdog task has taken its messages and waits for another.
Settled == holder = None /\ \A d \in Dogs : dog[d] \in {"gone", "recv"} /\ ~buf[d]

\* The deadline passes without a registration.
Expire ==
    /\ reg /\ ~expired
    /\ Prompt => Settled
    /\ expired' = TRUE
    /\ UNCHANGED <<node, reg, status, known, cache, num, chan, dogs, holder, grpc, job, bounds, ghosts>>

-----------------------------------------------------------------------------
(* Watchdog::arm: the watchdog task *)

\* The deadline passes while the task waits for a message.
DogTimeout(d) ==
    /\ dog[d] = "recv" /\ ~buf[d] /\ chan = d /\ expired
    /\ dog' = [dog EXCEPT ![d] = "fired"]
    /\ UNCHANGED <<node, wrapper, buf, holder, grpc, job, bounds, ghosts>>

\* A message, or the end of a task whose channel was dropped.
DogRecv(d) ==
    /\ dog[d] = "recv"
    /\ \/ buf[d] /\ buf' = [buf EXCEPT ![d] = FALSE] /\ UNCHANGED dog
       \/ ~buf[d] /\ chan # d /\ dog' = [dog EXCEPT ![d] = "gone"] /\ UNCHANGED buf
    /\ UNCHANGED <<node, wrapper, holder, grpc, job, bounds, ghosts>>

\* on_timeout and update_liveness take the lock and look at the node.
OnTimeout(d) ==
    /\ dog[d] = "fired" /\ holder = None
    /\ IF Online /\ expired THEN dog' = [dog EXCEPT ![d] = "probe"] /\ holder' = d
                            ELSE dog' = [dog EXCEPT ![d] = "recv"] /\ UNCHANGED holder
    /\ UNCHANGED <<node, wrapper, buf, grpc, job, bounds, ghosts>>

\* update_liveness: probe the node; pet takes the time before it sends.
Probe(d) ==
    /\ dog[d] = "probe"
    /\ \/ /\ up
          /\ dog' = [dog EXCEPT ![d] = "pet"]
          /\ expired' = FALSE
          /\ UNCHANGED <<holder, status, cache, chan, bounds>>
       \/ /\ Unanswered
          /\ SetStatus("Offline", cache)
          /\ dog' = [dog EXCEPT ![d] = "recv"]
          /\ holder' = None
          /\ UNCHANGED expired
    /\ UNCHANGED <<node, reg, known, num, buf, grpc, job, ghosts>>

\* ... and so the watchdog pets itself.
PetSelf(d) ==
    /\ dog[d] = "pet" /\ Room
    /\ holder' = None
    /\ IF chan = None
         THEN \E e \in Dogs :
                /\ dog[e] = "gone"
                /\ dog' = [dog EXCEPT ![e] = "recv", ![d] = "recv"]
                /\ chan' = e /\ UNCHANGED buf
         ELSE /\ buf' = [buf EXCEPT ![chan] = TRUE]
              /\ dog' = [dog EXCEPT ![d] = "recv"]
              /\ UNCHANGED chan
    /\ UNCHANGED <<node, reg, status, known, cache, num, expired, grpc, job, bounds, ghosts>>

-----------------------------------------------------------------------------
(* Registration *)

\* A heartbeat of the node reaches the agent, which spawns a task for it.
Heartbeat(r) ==
    /\ up /\ At(r, "idle")
    /\ Prompt => Settled
    /\ Goto(r, [at |-> "register", inst |-> inst])
    /\ UNCHANGED <<node, wrapper, dogs, holder, grpc, bounds, ghosts>>

\* register_state of an unknown node: probe it and load its states ...
RegisterLoad(r) ==
    /\ At(r, "register") /\ ~reg
    /\ \/ up /\ Goto(r, [at |-> "insert", inst |-> inst, got |-> dp]) /\ UNCHANGED bounds
       \/ Unanswered /\ Return(r)
    /\ UNCHANGED <<node, wrapper, dogs, holder, grpc, ghosts>>

\* ... and add it, unless another registration was faster.
RegisterInsert(r) ==
    /\ At(r, "insert")
    /\ Return(r)
    /\ IF reg THEN UNCHANGED <<wrapper, dogs>>
       ELSE /\ reg' = TRUE /\ status' = "Online" /\ known' = job[r].inst
            /\ cache' = job[r].got /\ num' = num /\ expired' = FALSE
            /\ Arm /\ UNCHANGED buf
    /\ UNCHANGED <<node, holder, grpc, bounds, ghosts>>

\* on_register, after the pet: get the states of a node that was not online, or
\* which has changed.
AfterPetOffline(r, changed) ==
    IF status # "Online" \/ changed THEN Goto(r, [at |-> "lock", online |-> FALSE])
                                    ELSE Return(r)
AfterPet(r, changed) ==
    IF status # "Online" \/ changed THEN Goto(r, [at |-> "lock", online |-> status # "Online"])
                                    ELSE Return(r)

\* on_register: set_state and pet under the lock, which stays taken while the
\* channel of the watchdog is full.
OnRegister(r) ==
    /\ At(r, "register") /\ reg /\ holder = None
    /\ known' = job[r].inst /\ expired' = FALSE
    /\ LET changed == known # job[r].inst IN
       IF Room THEN Pet /\ AfterPet(r, changed) /\ UNCHANGED holder
       ELSE /\ holder' = r /\ Goto(r, [at |-> "pet", changed |-> changed])
            /\ UNCHANGED <<dogs, chan>>
    /\ UNCHANGED <<node, reg, status, cache, num, grpc, bounds, ghosts>>

PetDone(r) ==
    /\ At(r, "pet") /\ Room
    /\ Pet /\ AfterPet(r, job[r].changed)
    /\ holder' = None
    /\ UNCHANGED <<node, reg, status, known, cache, num, expired, grpc, bounds, ghosts>>

\* deregister, sent by a node which stops
Deregister ==
    /\ bye /\ bye' = FALSE
    /\ IF reg THEN holder = None /\ SetStatus("Unknown", cache)
              ELSE UNCHANGED <<status, cache, chan>>
    /\ UNCHANGED <<up, inst, dp, reg, known, num, expired, dogs, holder, grpc, job, bounds, ghosts>>

-----------------------------------------------------------------------------
(* update_all *)

\* poll_node, of a node that is online
PollNode ==
    /\ At(Poller, "idle") /\ Online /\ holder = None
    /\ Goto(Poller, [at |-> "lock", online |-> FALSE])
    /\ UNCHANGED <<node, wrapper, dogs, holder, grpc, bounds, ghosts>>

\* Connect, and fetch all states.
Fetch(p) ==
    \/ up /\ Goto(p, [at |-> "store", online |-> job[p].online, res |-> "ok", got |-> dp])
          /\ UNCHANGED bounds
    \/ \E e \in {"lost", "err"} :
         Unanswered /\ Goto(p, [at |-> "store", online |-> job[p].online, res |-> e])

\* update_all takes the gRPC lock.
UpdateFetchUnlocked(p) ==
    /\ At(p, "lock") /\ holder = None
    /\ UNCHANGED grpc /\ Fetch(p)
    /\ UNCHANGED <<node, wrapper, dogs, holder, ghosts>>
UpdateFetch(p) ==
    /\ At(p, "lock") /\ grpc = None /\ holder = None
    /\ grpc' = p /\ Fetch(p)
    /\ UNCHANGED <<node, wrapper, dogs, holder, ghosts>>

\* update: store the states of a node which is, or now becomes, online.
UpdateStore(p) ==
    LET res == job[p].res
        online == Online \/ job[p].online
    IN
    /\ At(p, "store") /\ holder = None
    /\ \/ /\ res = "lost" \/ (res = "err" /\ online)
          /\ SetStatus("Unknown", cache) /\ UNCHANGED num
       \/ /\ res # "lost" /\ ~online
          /\ cache' = NoNexuses /\ UNCHANGED <<status, chan, num>>
       \/ /\ res = "ok" /\ online
          /\ SetStatus("Online", job[p].got)
          /\ num' = Cardinality(Rebuilding(job[p].got))
    /\ Return(p) /\ grpc' = IF grpc = p THEN None ELSE grpc
    /\ UNCHANGED <<node, reg, known, expired, dogs, holder, bounds, ghosts>>

-----------------------------------------------------------------------------
(* Operations on the nexuses: NexusApi and NexusChildApi *)

\* grpc_client_locked checks the status, then waits for the gRPC lock; what
\* starts a rebuild first asks rebuild_allowed.
OpStart(o) == \E k \in {"create", "rebuild", "destroy"}, n \in Nexuses :
    /\ At(o, "idle") /\ made < MaxOps /\ made' = made + 1
    /\ Online /\ holder = None
    /\ k = "rebuild" => num < MaxRebuilds
    /\ Goto(o, [at |-> "lock", op |-> k, nexus |-> n])
    /\ UNCHANGED <<node, wrapper, dogs, holder, grpc, stops, faults, ghosts>>

\* What an operation makes of its nexus: a rebuild needs one.
Outcome(k, was) == CASE k = "create" /\ was = "none" -> "idle"
                     [] k = "rebuild" /\ was # "none" -> "rebuilding"
                     [] k = "destroy" -> "none"
                     [] OTHER -> was

\* The node does as it is told.
Execute(k, n) ==
    /\ dp' = [dp EXCEPT ![n] = Outcome(k, dp[n])]
    /\ acked' = IF k = "destroy" THEN acked \ {n} ELSE acked
    /\ freed' = IF k = "create" THEN freed \ {n} ELSE freed

\* The call: answered with the nexus, or failed, executed or not.  A create which
\* failed then fetches the nexuses of the node, if it can still be reached.
OpCall(o) ==
    LET k == job[o].op
        n == job[o].nexus
        failing == k = "rebuild" /\ dp[n] = "none"
    IN
    /\ At(o, "lock") /\ grpc = None
    /\ \/ /\ up /\ ~failing /\ Execute(k, n) /\ UNCHANGED bounds
          /\ Goto(o, [at |-> "apply", op |-> k, nexus |-> n, got |-> Outcome(k, dp[n])])
          /\ grpc' = o
       \/ /\ \/ (~up \/ failing) /\ UNCHANGED <<dp, ghosts, bounds>>
             \/ Fault /\ (Execute(k, n) \/ UNCHANGED <<dp, ghosts>>)
          /\ IF k = "create" /\ up
               THEN Goto(o, [at |-> "refetch", nexus |-> n]) /\ grpc' = o
               ELSE Return(o) /\ UNCHANGED grpc
    /\ UNCHANGED <<up, inst, bye, wrapper, dogs, holder>>

OpRefetch(o) ==
    /\ At(o, "refetch") /\ holder = None
    /\ \/ /\ up /\ Goto(o, [at |-> "storeall", nexus |-> job[o].nexus, got |-> dp])
          /\ UNCHANGED <<grpc, bounds>>
       \/ Unanswered /\ Return(o) /\ grpc' = None
    /\ UNCHANGED <<node, wrapper, dogs, holder, ghosts>>

\* The answer is Ok; the node may have been restarted since.
Answer(n, there) ==
    /\ acked' = IF there /\ dp[n] # "none" THEN acked \cup {n} ELSE acked
    /\ freed' = IF ~there /\ dp[n] = "none" THEN freed \cup {n} ELSE freed

\* update_nexus_state: the one nexus, whatever the status; num_rebuilds stays.
OpApply(o) ==
    /\ At(o, "apply") /\ holder = None
    /\ cache' = [cache EXCEPT ![job[o].nexus] = job[o].got]
    /\ Answer(job[o].nexus, job[o].op # "destroy")
    /\ Return(o) /\ grpc' = None
    /\ UNCHANGED <<node, reg, status, known, num, expired, chan, dogs, holder, bounds>>

\* update_nexus_states after a failed create: Ok if the nexus is there.
OpStoreAll(o) ==
    LET got == job[o].got
        n == job[o].nexus
    IN
    /\ At(o, "storeall") /\ holder = None
    /\ cache' = got /\ num' = Cardinality(Rebuilding(got))
    /\ IF got[n] # "none" THEN Answer(n, TRUE) ELSE UNCHANGED ghosts
    /\ Return(o) /\ grpc' = None
    /\ UNCHANGED <<node, reg, status, known, expired, chan, dogs, holder, bounds>>

-----------------------------------------------------------------------------
(* The node *)

\* The node stops, with or without a Deregister, or it is cut off.
Stop ==
    /\ up /\ stops < MaxStops /\ stops' = stops + 1
    /\ up' = FALSE
    /\ \/ /\ inst' = inst + 1 /\ dp' = NoNexuses /\ bye' \in {bye, TRUE}
          /\ acked' = {} /\ freed' = {}
       \/ UNCHANGED <<inst, dp, bye, ghosts>>
    /\ UNCHANGED <<wrapper, dogs, holder, grpc, job, faults, made>>

Start ==
    /\ ~up /\ up' = TRUE
    /\ UNCHANGED <<inst, dp, bye, wrapper, dogs, holder, grpc, job, bounds, ghosts>>

RebuildDone(n) ==
    /\ dp[n] = "rebuilding" /\ dp' = [dp EXCEPT ![n] = "idle"]
    /\ UNCHANGED <<up, inst, bye, wrapper, dogs, holder, grpc, job, bounds, ghosts>>

-----------------------------------------------------------------------------
DogStep(d) == DogTimeout(d) \/ DogRecv(d) \/ OnTimeout(d) \/ Probe(d) \/ PetSelf(d)
RegStep(r) == RegisterLoad(r) \/ RegisterInsert(r) \/ OnRegister(r) \/ PetDone(r)
Update(p)  == UpdateFetch(p) \/ UpdateStore(p)
OpStep(o)  == OpCall(o) \/ OpRefetch(o) \/ OpApply(o) \/ OpStoreAll(o)

Next ==
    \/ Expire
    \/ \E d \in Dogs : DogStep(d)
    \/ \E r \in Regs : Heartbeat(r) \/ RegStep(r)
    \/ Deregister
    \/ PollNode
    \/ \E p \in Updaters : Update(p)
    \/ \E o \in Ops : OpStart(o) \/ OpStep(o)
    \/ Stop \/ Start
    \/ \E n \in Nexuses : RebuildDone(n)

Spec == Init /\ [][Next]_vars

\* Every task runs on, the poller polls, and a node that is up sends heartbeats.
FairSpec ==
    /\ Spec
    /\ WF_vars(Expire)
    /\ \A d \in Dogs : WF_vars(DogStep(d))
    /\ \A r \in Regs : SF_vars(Heartbeat(r)) /\ WF_vars(RegStep(r))
    /\ WF_vars(Deregister) /\ WF_vars(PollNode)
    /\ \A p \in Updaters : WF_vars(Update(p))
    /\ \A o \in Ops : WF_vars(OpStep(o))

-----------------------------------------------------------------------------
(* Properties *)

\* The state variables keep their types; the channel of a watchdog is held only
\* while its task is there to receive from it.
TypeOK ==
    /\ up \in BOOLEAN /\ inst \in 0..MaxStops /\ dp \in NexusStates /\ bye \in BOOLEAN
    /\ reg \in BOOLEAN /\ status \in {"Unknown", "Online", "Offline"}
    /\ known \in 0..MaxStops /\ cache \in NexusStates /\ num \in 0..Cardinality(Nexuses)
    /\ expired \in BOOLEAN /\ chan \in Dogs \cup {None}
    /\ dog \in [Dogs -> {"gone", "recv", "fired", "probe", "pet"}] /\ buf \in [Dogs -> BOOLEAN]
    /\ holder \in Regs \cup Dogs \cup {None} /\ grpc \in Tasks \cup {None}
    /\ \A p \in Tasks : job[p].at \in {"idle", "register", "insert", "pet", "lock", "store",
                                      "apply", "refetch", "storeall"}
    /\ acked \subseteq Nexuses /\ freed \subseteq Nexuses
    /\ chan # None => dog[chan] # "gone"

\* An online node shows every nexus whose creation was answered Ok, and none
\* whose destruction was: no fetch of its states which is stored late undoes an
\* operation (the gRPC lock is held from the call to the update of the states).
Shows(s) == \A n \in Nexuses : /\ n \in acked => s[n] # "none"
                               /\ n \in freed => s[n] = "none"
AckedIsCached == Online => Shows(cache)

\* "If the node is still responding to gRPC then consider it as online and reset
\* the watchdog": a node which stays up is eventually online for good.
AliveIsOnline == <>[]up => <>[]Online

\* A node which stays down does not stay online: its watchdog or the poller
\* notice, in whichever order deregistrations and heartbeats come.
DeadIsNoticed == <>[]~up => <>[]~Online

\* "We take the approach that no information is better than inconsistent
\* information": a node which is not online has no states.
NoStaleInformation == reg /\ status # "Online" => cache = NoNexuses

\* "Constrain the number of system-wide rebuilds to the maximum specified."
RebuildLimit == Cardinality(Rebuilding(dp)) <= MaxRebuilds

-----------------------------------------------------------------------------
(* Why an online node shows what was answered: the inductive invariant     *)

\* The node itself is as it was answered to be, and operations need a node
\* which is registered.
NodeInv ==
    /\ dp \in NexusStates /\ cache \in NexusStates /\ Shows(dp)
    /\ reg \in BOOLEAN /\ (~reg => acked = {} /\ freed = {})
    /\ job = [p \in Tasks |-> job[p]]

\* Who has fetched states or called the node has the gRPC lock until the states
\* are stored.
LockInv ==
    \A p \in Tasks : job[p].at \in {"store", "apply", "refetch", "storeall"} => grpc = p

\* The states which update_all is about to store show what was answered.
FetchInv ==
    \A p \in Updaters :
      /\ job[p].at \in {"idle", "register", "insert", "pet", "lock", "store"}
      /\ job[p].at = "insert" => job[p].got \in NexusStates
      /\ job[p].at = "store" /\ job[p].res = "ok" => job[p].got \in NexusStates /\ Shows(job[p].got)

\* What an operation is about to store: the state of its nexus, about which
\* nothing to the contrary has been answered, or all states.
OpInv ==
    \A o \in Ops :
      /\ job[o].at \in {"idle", "lock", "apply", "refetch", "storeall"}
      /\ job[o].at # "idle" => reg /\ job[o].nexus \in Nexuses
      /\ job[o].at = "lock" => job[o].op \in {"create", "rebuild", "destroy"}
      /\ job[o].at = "apply" => IF job[o].op = "destroy"
                                 THEN job[o].got = "none" /\ job[o].nexus \notin acked
                                 ELSE job[o].got \in {"idle", "rebuilding"} /\ job[o].nexus \notin freed
      /\ job[o].at = "storeall" => job[o].got \in NexusStates /\ Shows(job[o].got)

CacheInv == NodeInv /\ LockInv /\ FetchInv /\ OpInv /\ AckedIsCached
=============================================================================
