---------------------------- MODULE EngineCalls ----------------------------
(***************************************************************************)
(* The calls by which the core agent changes one io-engine, node/wrapper.rs *)
(* over controller/io_engine, and what their callers make of the answers.  *)
(*                                                                         *)
(* The calls of a node hold its grpc lock, so one is in flight at a time.  *)
(* What it returns is not what the engine said: an answer may be lost, an  *)
(* old engine answers NotFound (v1) or Ok (v0) for a replica whose pool it *)
(* has not loaded, and an error may mean that an earlier call had already  *)
(* done the work.  After most answers the wrapper therefore reads back the *)
(* state of the engine into its cache and decides by it.                   *)
(*                                                                         *)
(* A call the agent gave up on may still be served later, the engine may   *)
(* restart (its pools are unloaded, its nexuses gone), and the disk of the *)
(* pool may come and go.                                                   *)
(***************************************************************************)
EXTENDS Naturals, Sequences

CONSTANTS
  Apis,        \* "v0", "v1" and "gtm", a v1 engine which marks its NotFound
  Kinds,       \* which objects a behaviour is about: "pool", "nexus"
  MaxFaults    \* bound on losses, restarts and other events

VARIABLES
  api,         \* the engine's version
  kind,
  engine,      \* the engine and its disk
  cache,       \* the wrapper's copy of the engine's state
  call,        \* the call which holds the lock
  flow,        \* the destruction of the pool, of several calls
  late,        \* calls given up on which the engine may still serve
  calm,        \* what happened to the engine during the call
  faults

vars == <<api, kind, engine, cache, call, flow, late, calm, faults>>

-----------------------------------------------------------------------------
(* The calls and how the clients of the two versions make them             *)

PoolV1 == [create_pool |-> "create_pool", destroy_pool |-> "destroy_pool",
           import_pool |-> "import_pool", expand_pool |-> "grow_pool_v2"]
PoolV0 == [create_pool |-> "create_pool", destroy_pool |-> "destroy_pool",
           import_pool |-> "none", expand_pool |-> "none"]

ReplicaV1 == [create_replica |-> "create_replica", destroy_replica |-> "destroy_replica",
              resize_replica |-> "resize_replica", share_replica |-> "share_replica",
              unshare_replica |-> "unshare_replica",
              set_replica_entity_id |-> "set_replica_entity_id"]
\* Unsharing is sharing with the protocol off.
ReplicaV0 == [create_replica |-> "create_replica_v2", destroy_replica |-> "destroy_replica",
              resize_replica |-> "none", share_replica |-> "share_replica",
              unshare_replica |-> "share_replica", set_replica_entity_id |-> "none"]

SnapshotV1 == [create_repl_snapshot |-> "create_replica_snapshot",
               destroy_repl_snapshot |-> "destroy_snapshot",
               create_snapshot_clone |-> "create_snapshot_clone"]
SnapshotV0 == [op \in DOMAIN SnapshotV1 |-> "none"]

NexusV1 == [create_nexus |-> "create_nexus", destroy_nexus |-> "destroy_nexus",
            resize_nexus |-> "resize_nexus", shutdown_nexus |-> "shutdown_nexus"]
NexusV0 == [create_nexus |-> "create_nexus_v2", destroy_nexus |-> "destroy_nexus",
            resize_nexus |-> "none", shutdown_nexus |-> "shutdown_nexus"]

ShareV1 == [share_nexus |-> "publish_nexus", unshare_nexus |-> "unpublish_nexus"]
ShareV0 == [share_nexus |-> "publish_nexus", unshare_nexus |-> "unpublish_nexus"]

ChildV1 == [add_child |-> "add_child_nexus", remove_child |-> "remove_child_nexus",
            fault_child |-> "fault_nexus_child", child_action |-> "child_operation"]
ChildV0 == [add_child |-> "add_child_nexus", remove_child |-> "remove_child_nexus",
            fault_child |-> "fault_nexus_child", child_action |-> "none"]

PoolOps    == DOMAIN PoolV1
ReplicaOps == DOMAIN ReplicaV1 \cup DOMAIN SnapshotV1
NexusOps   == DOMAIN NexusV1 \cup DOMAIN ShareV1 \cup DOMAIN ChildV1

\* The rpc of a call; "none" answers Unimplemented without one.
Rpc(op) ==
  LET Pick(old, new) == IF api = "v0" THEN old[op] ELSE new[op]
  IN  CASE op \in DOMAIN PoolV1     -> Pick(PoolV0, PoolV1)
        [] op \in DOMAIN ReplicaV1  -> Pick(ReplicaV0, ReplicaV1)
        [] op \in DOMAIN SnapshotV1 -> Pick(SnapshotV0, SnapshotV1)
        [] op \in DOMAIN NexusV1    -> Pick(NexusV0, NexusV1)
        [] op \in DOMAIN ShareV1    -> Pick(ShareV0, ShareV1)
        [] op \in DOMAIN ChildV1    -> Pick(ChildV0, ChildV1)

-----------------------------------------------------------------------------
(* The engine                                                              *)

\* A replica is "old" or "new": not shared or shared, of the first size or
\* resized, without or with its entity id.  So is a nexus (attr).
NoNexus == [nex |-> "none", attr |-> "old", kid |-> "out"]
NewNexus == [nex |-> "open", attr |-> "old", kid |-> "out"]
Loaded(e) == e.pool = "loaded"

\* <<engine, code>> after an rpc for the pool.
ServePool(e, op) ==
  CASE op = "create_pool" /\ Loaded(e)  -> {<<e, "AlreadyExists">>}
    [] op = "create_pool" /\ ~Loaded(e) ->
         IF e.disk THEN {<<[e EXCEPT !.pool = "loaded"], "Ok">>} ELSE {<<e, "Internal">>}
    [] op = "import_pool" ->
         IF Loaded(e) THEN {<<e, "AlreadyExists">>}
         ELSE IF ~e.disk THEN {<<e, "NotFound">>}
         ELSE IF e.pool = "none" THEN {<<e, "InvalidArgument">>}
         ELSE {<<[e EXCEPT !.pool = "loaded"], "Ok">>}
    [] op = "destroy_pool" ->
         IF Loaded(e)
         THEN {<<[e EXCEPT !.pool = "none", !.rep = "none", !.snap = FALSE], "Ok">>}
         ELSE {<<e, "NotFound">>}
    [] op = "expand_pool" ->
         IF Loaded(e) THEN {<<e, "Ok">>, <<e, "OutOfRange">>, <<e, "FailedPrecondition">>}
         ELSE {<<e, "NotFound">>}

\* ... for the replica and its snapshot.
ServeReplica(e, op) ==
  LET Has     == Loaded(e) /\ e.rep # "none"
      To(val) == IF Has THEN {<<[e EXCEPT !.rep = val], "Ok">>} ELSE {<<e, "NotFound">>}
  IN  CASE op = "create_replica" ->
             IF ~Loaded(e) THEN {<<e, "NotFound">>}
             ELSE IF Has THEN {<<e, "AlreadyExists">>}
             ELSE {<<[e EXCEPT !.rep = "old"], "Ok">>, <<e, "InvalidArgument">>}
        [] op = "destroy_replica" ->
             IF Has THEN {<<[e EXCEPT !.rep = "none"], "Ok">>}
             ELSE {<<e, IF api = "v0" THEN "Ok"
                        ELSE IF api = "gtm" /\ Loaded(e) THEN "ReplicaNotFound"
                        ELSE "NotFound">>}
        [] op \in {"share_replica", "resize_replica"} -> To("new")
        [] op = "set_replica_entity_id" -> To("new") \cup (IF Has THEN {<<e, "DataLoss">>} ELSE {})
        [] op = "unshare_replica" -> To("old")
        [] op = "create_repl_snapshot" ->
             IF ~Has THEN {<<e, "NotFound">>}
             ELSE IF e.snap THEN {<<e, "AlreadyExists">>}
             ELSE {<<[e EXCEPT !.snap = TRUE], "Ok">>}
        [] op = "destroy_repl_snapshot" ->
             IF Loaded(e) /\ e.snap THEN {<<[e EXCEPT !.snap = FALSE], "Ok">>}
             ELSE {<<e, "NotFound">>}
        [] op = "create_snapshot_clone" ->
             IF ~Loaded(e) \/ ~e.snap THEN {<<e, "NotFound">>}
             ELSE IF Has THEN {<<e, "AlreadyExists">>}
             ELSE {<<[e EXCEPT !.rep = "old"], "Ok">>}

\* ... for the nexus.
ServeNexus(e, op) ==
  LET n       == e.nexus
      With(x) == {<<[e EXCEPT !.nexus = x], "Ok">>}
      Absent  == {<<e, "NotFound">>}
  IN  CASE op = "create_nexus" ->
             IF n.nex = "none" THEN With(NewNexus) ELSE {<<e, "AlreadyExists">>}
        [] op = "destroy_nexus" ->
             IF n.nex # "none" \/ api = "v0" THEN With(NoNexus) ELSE Absent
        [] op = "shutdown_nexus" ->
             IF n.nex # "none" THEN With([n EXCEPT !.nex = "shut"]) ELSE Absent
        [] op \in {"resize_nexus", "share_nexus", "child_action"} ->
             IF n.nex = "open" THEN With([n EXCEPT !.attr = "new"]) ELSE Absent
        [] op = "unshare_nexus" ->
             IF n.nex = "open" THEN With([n EXCEPT !.attr = "old"]) ELSE Absent
        [] op = "add_child" ->
             IF n.nex # "open" THEN Absent
             ELSE IF n.kid = "out" THEN With([n EXCEPT !.kid = "in"]) ELSE {<<e, "AlreadyExists">>}
        [] op = "remove_child" ->
             IF n.nex = "open" /\ n.kid # "out" THEN With([n EXCEPT !.kid = "out"]) ELSE Absent
        [] op = "fault_child" ->
             IF n.nex = "open" /\ n.kid = "in" THEN With([n EXCEPT !.kid = "faulted"])
             ELSE IF n.nex = "open" /\ n.kid = "faulted" THEN {<<e, "FailedPrecondition">>}
             ELSE Absent

Serve(e, op) ==
  IF op \in PoolOps THEN ServePool(e, op)
  ELSE IF op \in ReplicaOps THEN ServeReplica(e, op) ELSE ServeNexus(e, op)

\* What the lists of the engine show: nothing of a pool which is not loaded.
ListedReplica == IF Loaded(engine) THEN engine.rep ELSE "none"
ListedSnapshot == Loaded(engine) /\ engine.snap

-----------------------------------------------------------------------------
(* Steps common to the calls                                               *)

\* got is what an answer or a list has shown and the wrapper has not stored yet.
Nothing == [pool |-> FALSE, nexus |-> NoNexus]
Idle == [op |-> "none", pc |-> "idle", code |-> "none", res |-> "none",
         todo |-> <<>>, got |-> Nothing]
NoFlow == [step |-> "none", allow |-> FALSE]

Init ==
  /\ api \in Apis
  /\ kind \in Kinds
  /\ engine = [pool |-> "none", disk |-> TRUE, rep |-> "none", snap |-> FALSE, nexus |-> NoNexus]
  /\ cache = [pool |-> FALSE, rep |-> "none", snap |-> FALSE, nexus |-> NoNexus]
  /\ call = Idle
  /\ flow = NoFlow
  /\ late = {}
  /\ calm = "quiet"
  /\ faults = 0

Codes == {"Ok", "AlreadyExists", "NotFound", "ReplicaNotFound", "PoolNotFound", "InvalidArgument",
          "Internal", "FailedPrecondition", "OutOfRange", "DataLoss", "Unknown",
          "Unimplemented", "Unclear"}

\* What the clients make of a code before the wrapper sees it: a disk that
\* cannot be opened is not found, a nexus which is not there is destroyed, and
\* of a resize without a clear answer nothing is known.
Translate(op, code) ==
  CASE op = "create_pool" /\ code = "Internal"                   -> "NotFound"
    [] op = "expand_pool" /\ code \in {"OutOfRange", "FailedPrecondition"} -> "Internal"
    [] op = "destroy_nexus" /\ code = "NotFound" /\ api # "v0"   -> "Ok"
    [] op = "resize_nexus" /\ code \in {"Unclear", "Internal"}   -> "Unknown"
    [] OTHER                                                     -> code

\* While a pool is destroyed its guard keeps other operations on it out.
FlowOp == [none |-> "destroy_pool", first |-> "destroy_pool", import |-> "import_pool",
           again |-> "destroy_pool"]

\* grpc_client_locked
Start(op) ==
  /\ call.pc = "idle"
  /\ IF kind = "pool" THEN op \in PoolOps \cup ReplicaOps ELSE op \in NexusOps
  /\ op \in PoolOps => flow.step = "none" \/ op = FlowOp[flow.step]
  /\ op = "create_pool" => engine.rep = "none"    \* it has a created record otherwise
  /\ call' = [Idle EXCEPT !.op = op, !.pc = "sent"]
  /\ IF op = "destroy_pool" /\ flow.step = "none"
     THEN \E allow \in BOOLEAN :
            /\ allow => engine.rep = "none"
            /\ flow' = [step |-> "first", allow |-> allow]
     ELSE flow' = flow
  /\ UNCHANGED <<api, kind, engine, cache, late, calm, faults>>

Reply(code, got) ==
  call' = [call EXCEPT !.pc = "reply", !.code = Translate(call.op, code), !.got = got]

\* The engine serves the call and its answer arrives.
Served ==
  /\ call.pc = "sent"
  /\ Rpc(call.op) # "none"
  /\ \E r \in Serve(engine, call.op) :
       /\ engine' = r[1]
       /\ Reply(r[2], [Nothing EXCEPT !.nexus = r[1].nexus])
  /\ UNCHANGED <<api, kind, cache, flow, late, calm, faults>>

Unimplemented ==
  /\ call.pc = "sent"
  /\ Rpc(call.op) = "none"
  /\ Reply("Unimplemented", Nothing)
  /\ UNCHANGED <<api, kind, engine, cache, flow, late, calm, faults>>

\* The engine serves the call but the agent does not get the answer in time.
AnswerLost ==
  /\ call.pc = "sent" /\ faults < MaxFaults
  /\ Rpc(call.op) # "none"
  /\ \E r \in Serve(engine, call.op) : engine' = r[1]
  /\ Reply("Unclear", Nothing)
  /\ faults' = faults + 1
  /\ UNCHANGED <<api, kind, cache, flow, late, calm>>

\* The agent cannot connect, or gives up before the engine serves the call.
GiveUp ==
  /\ call.pc = "sent" /\ faults < MaxFaults
  /\ Reply("Unclear", Nothing)
  /\ late' \in {late, late \cup (IF Rpc(call.op) = "none" THEN {} ELSE {call.op})}
  /\ faults' = faults + 1
  /\ UNCHANGED <<api, kind, engine, cache, flow, calm>>

Go(todo)    == call' = [call EXCEPT !.pc = IF todo = <<>> THEN "end" ELSE "fetch", !.todo = todo]
Answer(res) == call' = [call EXCEPT !.pc = "done", !.res = res, !.code = "none", !.todo = <<>>,
                                     !.got = Nothing]
At(op, pc)  == call.op = op /\ call.pc = pc

-----------------------------------------------------------------------------
(* Reading back the engine's state                                         *)

Reading(what) == call.pc = "fetch" /\ Head(call.todo) = what
Fetched       == call' = [call EXCEPT !.pc = IF Len(call.todo) = 1 THEN "end" ELSE "fetch",
                                      !.todo = Tail(@)]

\* update_pool_states; the wrapper ignores that "try_pools" fails.
FetchPools ==
  /\ Reading("pools") \/ Reading("try_pools")
  /\ cache' = [cache EXCEPT !.pool = Loaded(engine)]
  /\ Fetched

\* update_replica_states
FetchReplicas ==
  /\ Reading("replicas")
  /\ cache' = [cache EXCEPT !.rep = ListedReplica]
  /\ Fetched

\* update_pool_replica_states reads both lists before it stores them.
FetchBoth ==
  \/ Reading("both") /\ call' = [call EXCEPT !.todo = <<"stored">>, !.got.pool = Loaded(engine)]
                     /\ UNCHANGED cache
  \/ Reading("stored") /\ cache' = [cache EXCEPT !.pool = call.got.pool, !.rep = ListedReplica]
                       /\ Fetched

\* update_nexus_states
FetchNexuses ==
  /\ Reading("nexuses")
  /\ cache' = [cache EXCEPT !.nexus = engine.nexus]
  /\ Fetched

\* get_replica, which only refreshes a replica that is there.
FetchReplica ==
  /\ Reading("try_replica")
  /\ cache' = IF ListedReplica = "none" THEN cache ELSE [cache EXCEPT !.rep = ListedReplica]
  /\ Fetched

\* fetch_nexus of the clients
FetchNexus ==
  /\ Reading("nexus")
  /\ UNCHANGED cache
  /\ IF engine.nexus.nex = "none" THEN Answer("NotFound")
     ELSE call' = [call EXCEPT !.pc = "end", !.todo = <<>>, !.got.nexus = engine.nexus]

FetchFails ==
  /\ call.pc = "fetch" /\ faults < MaxFaults
  /\ faults' = faults + 1
  /\ \/ Head(call.todo) # "try_pools" /\ Answer("Unclear")
     \/ Head(call.todo) \in {"try_pools", "try_replica"} /\ Go(<<>>)
  /\ UNCHANGED <<api, kind, engine, cache, flow, late, calm>>

Fetch ==
  /\ FetchPools \/ FetchReplicas \/ FetchBoth \/ FetchNexuses \/ FetchReplica \/ FetchNexus
  /\ UNCHANGED <<api, kind, engine, flow, late, calm, faults>>

-----------------------------------------------------------------------------
(* The calls on pools                                                      *)

Ok == call.code = "Ok"
Keep == UNCHANGED cache

CreatePool ==
  \/ At("create_pool", "reply") /\ Ok
       /\ cache' = [cache EXCEPT !.pool = TRUE] /\ Go(<<"replicas">>)
  \/ At("create_pool", "reply") /\ ~Ok /\ Keep /\ Go(<<"both">>)
  \/ At("create_pool", "end") /\ Keep
       /\ Answer(IF call.code = "AlreadyExists" /\ cache.pool THEN "Ok" ELSE call.code)

DestroyPool ==
  \/ At("destroy_pool", "reply") /\ call.code = "NotFound"
       /\ cache' = [cache EXCEPT !.pool = FALSE] /\ Answer("PoolNotFound")
  \/ At("destroy_pool", "reply") /\ Ok
       /\ cache' = [cache EXCEPT !.pool = FALSE] /\ Answer("Ok")
  \/ At("destroy_pool", "reply") /\ call.code \notin {"Ok", "NotFound"} /\ Keep /\ Answer(call.code)

ImportPool ==
  \/ At("import_pool", "reply") /\ ~Ok /\ Keep /\ Answer(call.code)
  \/ At("import_pool", "reply") /\ Ok /\ Keep /\ Go(<<"both">>)
  \/ At("import_pool", "end") /\ Keep /\ Answer("Ok")

\* The state in the answer is returned but not cached.
ExpandPool == At("expand_pool", "reply") /\ Keep /\ Answer(call.code)

-----------------------------------------------------------------------------
(* The calls on replicas and their snapshots                               *)

CreateReplica ==
  \/ At("create_replica", "reply") /\ Ok
       /\ cache' = [cache EXCEPT !.rep = "old"] /\ Go(<<"pools">>)
  \/ At("create_replica", "reply") /\ ~Ok /\ Keep /\ Go(<<"both">>)
  \/ At("create_replica", "end") /\ Keep
       /\ Answer(IF cache.rep # "none" THEN "Ok" ELSE call.code)

\* Mutant: NotFound is returned without checking that the pool was loaded.
MutDestroyedOrNot ==
  CASE Ok /\ api = "v0" ->
         IF ~cache.pool THEN "FailedPrecondition" ELSE IF cache.rep # "none" THEN "Internal" ELSE "Ok"
    [] OTHER -> call.code

\* What destroy_replica answers once it has read the two lists back, for an Ok
\* of v0 and for a NotFound, neither of which says that the pool was loaded.
DestroyedOrNot ==
  CASE Ok /\ api = "v0" ->
         IF ~cache.pool THEN "FailedPrecondition" ELSE IF cache.rep # "none" THEN "Internal" ELSE "Ok"
    [] call.code = "NotFound" ->
         IF cache.rep # "none" \/ ~cache.pool THEN "FailedPrecondition" ELSE "NotFound"
    [] OTHER -> call.code

DestroyReplica ==
  LET Vague == (Ok /\ api = "v0") \/ call.code = "NotFound"
      Clear == (Ok /\ api # "v0") \/ call.code = "ReplicaNotFound"
  IN  \/ At("destroy_replica", "reply") /\ Vague /\ Keep /\ Go(<<"replicas", "pools">>)
      \/ At("destroy_replica", "reply") /\ Clear
           /\ cache' = [cache EXCEPT !.rep = "none"] /\ Go(<<"try_pools">>)
      \/ At("destroy_replica", "reply") /\ ~Vague /\ ~Clear /\ Keep /\ Answer(call.code)
      \/ At("destroy_replica", "end") /\ Keep /\ Answer(DestroyedOrNot)

ResizeReplica ==
  /\ At("resize_replica", "reply")
  /\ cache' = IF Ok THEN [cache EXCEPT !.rep = "new"] ELSE cache
  /\ Answer(call.code)

SetReplicaEntityId ==
  /\ At("set_replica_entity_id", "reply")
  /\ cache' = IF Ok THEN [cache EXCEPT !.rep = "new"] ELSE cache
  /\ Answer(call.code)

ShareReplica ==
  /\ call.op \in {"share_replica", "unshare_replica"}
  /\ Keep
  /\ \/ call.pc = "reply" /\ ~Ok /\ Answer(call.code)
     \/ call.pc = "reply" /\ Ok /\ Go(<<"replicas">>)
     \/ call.pc = "end" /\ Answer("Ok")

CreateReplSnapshot ==
  \/ At("create_repl_snapshot", "reply") /\ ~Ok /\ Keep /\ Answer(call.code)
  \/ At("create_repl_snapshot", "reply") /\ Ok
       /\ cache' = [cache EXCEPT !.snap = TRUE] /\ Go(<<"try_replica">>)
  \/ At("create_repl_snapshot", "end") /\ Keep /\ Answer("Ok")

DestroyReplSnapshot ==
  /\ At("destroy_repl_snapshot", "reply")
  /\ cache' = IF Ok THEN [cache EXCEPT !.snap = FALSE] ELSE cache
  /\ Answer(call.code)

CreateSnapshotClone ==
  /\ At("create_snapshot_clone", "reply")
  /\ cache' = IF Ok THEN [cache EXCEPT !.rep = "old"] ELSE cache
  /\ Answer(call.code)

-----------------------------------------------------------------------------
(* The calls on nexuses                                                    *)

\* The nexus of the answer, or the one read after it, is cached.
Returned == cache' = [cache EXCEPT !.nexus = call.got.nexus]
\* Do the clients read the nexus after an answer?  Where not, v1 gets it with the
\* answer.
ReadsV0(op, code) == op \in {"add_child", "remove_child"} \/ (op \in DOMAIN ShareV0 /\ code = "Ok")
ReadsV1(op, code) == (op = "add_child" /\ code = "AlreadyExists") \/ (op = "remove_child" /\ code # "Ok")
Reads == IF api = "v0" THEN ReadsV0(call.op, call.code) ELSE ReadsV1(call.op, call.code)
HasChild == call.got.nexus.kid # "out"

CreateNexus ==
  \/ At("create_nexus", "reply") /\ Ok /\ Returned /\ Answer("Ok")
  \/ At("create_nexus", "reply") /\ ~Ok /\ Keep /\ Go(<<"nexuses">>)
  \/ At("create_nexus", "end") /\ Keep
       /\ Answer(IF cache.nexus.nex # "none" THEN "Ok" ELSE call.code)

DestroyNexus ==
  /\ At("destroy_nexus", "reply")
  /\ cache' = IF Ok THEN [cache EXCEPT !.nexus = NoNexus] ELSE cache
  /\ Answer(call.code)

\* The states are read back whatever the engine answered.
ShutdownNexus ==
  /\ Keep
  /\ \/ At("shutdown_nexus", "reply") /\ Go(<<"nexuses">>)
     \/ At("shutdown_nexus", "end") /\ Answer(call.code)

ResizeNexus ==
  /\ At("resize_nexus", "reply")
  /\ IF Ok THEN Returned ELSE Keep
  /\ Answer(call.code)

ChildAction ==
  /\ At("child_action", "reply")
  /\ IF Ok THEN Returned ELSE Keep
  /\ Answer(call.code)

ShareNexus ==
  /\ call.op \in {"share_nexus", "unshare_nexus"}
  /\ \/ call.pc = "reply" /\ Reads /\ Keep /\ Go(<<"nexus">>)
     \/ call.pc = "reply" /\ ~Reads /\ ~Ok /\ Keep /\ Answer(call.code)
     \/ (call.pc = "end" \/ (call.pc = "reply" /\ ~Reads /\ Ok)) /\ Returned /\ Answer("Ok")

\* An error is no error if the child is there.
AddChild ==
  \/ At("add_child", "reply") /\ Reads /\ Keep /\ Go(<<"nexus">>)
  \/ At("add_child", "reply") /\ ~Reads /\ ~Ok /\ Keep /\ Answer(call.code)
  \/ At("add_child", "end") /\ ~Ok /\ ~HasChild /\ Keep /\ Answer(call.code)
  \/ /\ \/ At("add_child", "end") /\ (Ok \/ HasChild)
        \/ At("add_child", "reply") /\ ~Reads /\ Ok
     /\ Returned
     /\ Answer(IF HasChild THEN "Ok" ELSE "NotFound")

\* ... if it is not.
RemoveChild ==
  \/ At("remove_child", "reply") /\ Reads /\ Keep /\ Go(<<"nexus">>)
  \/ At("remove_child", "end") /\ ~Ok /\ HasChild /\ Keep /\ Answer(call.code)
  \/ /\ \/ At("remove_child", "end") /\ (Ok \/ ~HasChild)
        \/ At("remove_child", "reply") /\ ~Reads
     /\ Returned
     /\ Answer(IF HasChild THEN "NotFound" ELSE "Ok")

\* A child which is faulted anyway will do.
FaultChild ==
  /\ Keep
  /\ \/ At("fault_child", "reply") /\ Go(<<"nexuses">>)
     \/ At("fault_child", "end")
          /\ Answer(IF Ok \/ cache.nexus.kid = "faulted" THEN "Ok" ELSE call.code)

Handle ==
  /\ \/ CreatePool \/ DestroyPool \/ ImportPool \/ ExpandPool
     \/ CreateReplica \/ DestroyReplica \/ ResizeReplica \/ SetReplicaEntityId \/ ShareReplica
     \/ CreateReplSnapshot \/ DestroyReplSnapshot \/ CreateSnapshotClone
     \/ CreateNexus \/ DestroyNexus \/ ShutdownNexus \/ ResizeNexus \/ ShareNexus
     \/ AddChild \/ RemoveChild \/ FaultChild \/ ChildAction
  /\ UNCHANGED <<api, kind, engine, flow, late, calm, faults>>

-----------------------------------------------------------------------------
(* The callers                                                             *)

\* What the destruction of the pool does next: a pool the engine does not know
\* is imported and destroyed again, unless there is nothing to import.
Verdict ==
  CASE flow.step = "first" ->
         IF call.res = "Ok" THEN "drop" ELSE IF call.res = "PoolNotFound" THEN "import" ELSE "keep"
    [] flow.step = "import" ->
         IF call.res = "Ok" THEN "again"
         ELSE IF (call.res = "NotFound" /\ flow.allow) \/ call.res = "InvalidArgument" THEN "drop"
         ELSE "keep"
    [] flow.step = "again" -> IF call.res = "Ok" THEN "drop" ELSE "keep"

\* The pool, replica, snapshot and nexus operations take their answer.
Return ==
  /\ call.pc = "done"
  /\ call' = Idle
  /\ flow' = IF call.op \notin PoolOps \/ flow.step = "none" THEN flow
             ELSE IF Verdict \in {"import", "again"} THEN [flow EXCEPT !.step = Verdict]
             ELSE NoFlow
  /\ calm' = IF flow'.step = "none" THEN "quiet" ELSE calm
  /\ UNCHANGED <<api, kind, engine, cache, late, faults>>

-----------------------------------------------------------------------------
(* What happens to the engine                                              *)

\* No call and no destruction of the pool is under way.
Free == call.pc = "idle" /\ flow.step = "none"

Event(now, what) ==
  /\ faults < MaxFaults
  /\ faults' = faults + 1
  /\ engine' = now
  /\ calm' = IF calm = "changed" \/ Free THEN calm ELSE what
  /\ UNCHANGED <<api, kind, cache, call, flow, late>>

EngineRestart ==
  Event([engine EXCEPT !.pool = IF Loaded(engine) THEN "unloaded" ELSE @, !.nexus = NoNexus],
        "restarted")

ChildFaults ==
  /\ engine.nexus.kid = "in"
  /\ Event([engine EXCEPT !.nexus.kid = "faulted"], "restarted")

DiskChanges == kind = "pool" /\ Event([engine EXCEPT !.disk = ~@], "restarted")

LateServed ==
  /\ \E op \in late : \E r \in Serve(engine, op) : engine' = r[1] /\ late' = late \ {op}
  /\ calm' = IF Free THEN calm ELSE "changed"
  /\ UNCHANGED <<api, kind, cache, call, flow, faults>>

Next ==
  \/ \E op \in PoolOps \cup ReplicaOps \cup NexusOps : Start(op)
  \/ Served \/ Unimplemented \/ AnswerLost \/ GiveUp \/ Fetch \/ FetchFails \/ Handle \/ Return
  \/ EngineRestart \/ ChildFaults \/ DiskChanges \/ LateServed

Spec == Init /\ [][Next]_vars

-----------------------------------------------------------------------------
(* Properties                                                              *)

\* The variables have the values of their types.
TypeOK ==
  /\ api \in Apis /\ kind \in Kinds
  /\ engine.pool \in {"none", "unloaded", "loaded"} /\ engine.rep \in {"none", "old", "new"}
  /\ engine.pool = "none" => engine.rep = "none" /\ ~engine.snap
  /\ cache.pool \in BOOLEAN /\ cache.snap \in BOOLEAN /\ cache.rep \in {"none", "old", "new"}
  /\ \A n \in {engine.nexus, cache.nexus} :
       n.nex \in {"none", "open", "shut"} /\ n.kid \in {"out", "in", "faulted"}
  /\ call.code \in Codes \cup {"none"} /\ call.res \in Codes \cup {"none"}
  /\ late \subseteq PoolOps \cup ReplicaOps \cup NexusOps
  /\ faults \in 0..MaxFaults

\* The agent forgets an object, or takes it for gone, on the strength of an answer
\* only if the engine does not have it, be it that its pool is just not loaded:
\* DestroyReplica and the NotFound check of its caller (replica_operations.rs), the
\* destruction of a pool (pool_operations.rs), DestroyNexus and ShutdownNexus.  A
\* call served late, after the agent gave up on it, is not accounted for.
ForgottenIsGone ==
  call.pc = "done" /\ calm # "changed" =>
    /\ call.op = "destroy_replica" /\ call.res \in {"Ok", "NotFound", "ReplicaNotFound"}
         => engine.rep = "none"
    /\ call.op \in PoolOps /\ flow.step # "none" /\ Verdict = "drop"
         => engine.pool = "none" \/ (flow.allow /\ engine.rep = "none")
    /\ call.op = "destroy_nexus" /\ call.res = "Ok" => engine.nexus.nex = "none"
    /\ call.op = "shutdown_nexus" /\ call.res \in {"Ok", "NotFound"} => engine.nexus.nex # "open"

\* What a call claims to have done.
Done(e, op) ==
  CASE op \in {"create_pool", "import_pool", "expand_pool"}        -> Loaded(e)
    [] op = "destroy_pool"                                         -> e.pool = "none"
    [] op \in {"create_replica", "create_snapshot_clone"}          -> e.rep # "none"
    [] op \in {"share_replica", "resize_replica", "set_replica_entity_id"} -> e.rep = "new"
    [] op = "unshare_replica"                                      -> e.rep = "old"
    [] op = "destroy_replica"                                      -> e.rep = "none"
    [] op = "create_repl_snapshot"                                 -> e.snap
    [] op = "destroy_repl_snapshot"                                -> ~e.snap
    [] op = "create_nexus"                                         -> e.nexus.nex # "none"
    [] op = "destroy_nexus"                                        -> e.nexus.nex = "none"
    [] op = "shutdown_nexus"                                       -> e.nexus.nex = "shut"
    [] op \in {"resize_nexus", "share_nexus", "child_action"}      -> e.nexus.attr = "new"
    [] op = "unshare_nexus"                                        -> e.nexus.attr = "old"
    [] op = "add_child"                                            -> e.nexus.kid # "out"
    [] op = "remove_child"                                         -> e.nexus.kid = "out"
    [] op = "fault_child"                                          -> e.nexus.kid = "faulted"

\* A call answers Ok only if the engine is as the call asked, also when it turned an
\* error of the engine into an Ok because the work was already done (the error arms
\* of node/wrapper.rs and of the add_child and remove_child clients).
OkIsReal ==
  call.pc = "done" /\ call.res = "Ok" /\ calm = "quiet" => Done(engine, call.op)

\* After an Ok the cache shows the object as the engine has it, so the next
\* decision on it is not taken on the state before the call.  A created nexus
\* found by its error arm and the states of a v0 destroy are read back.
OkIsShown ==
  call.pc = "done" /\ call.res = "Ok" /\ calm = "quiet" =>
    /\ call.op \in PoolOps \ {"expand_pool"} => cache.pool = Loaded(engine)
    /\ call.op \in DOMAIN ReplicaV1 \cup {"create_snapshot_clone"} => cache.rep = ListedReplica
    /\ call.op \in {"create_repl_snapshot", "destroy_repl_snapshot"} => cache.snap = ListedSnapshot
    /\ call.op \in NexusOps => cache.nexus = engine.nexus
=============================================================================
