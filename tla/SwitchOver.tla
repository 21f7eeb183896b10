----------------------------- MODULE SwitchOver -----------------------------
(***************************************************************************)
(* The switchover engine of the HA cluster agent                           *)
(* (control-plane/agents/src/bin/ha/cluster) for one volume, which has one  *)
(* NQN, one entry in the failed-path list and one key in etcd, however many *)
(* switchover requests are made for it.                                     *)
(*                                                                         *)
(* A node agent reports its failed path until the report is accepted.  The  *)
(* report makes a request, which a worker drives stage by stage:            *)
(*   Init, RepublishVolume, ReplacePath, DeleteTarget, Successful | Errored *)
(* Each stage is start_op (store the request), the call of the stage, and   *)
(* complete_op (store the request with the next stage).  A stage that fails *)
(* is put back on the queue.  A restarted agent reads the stored request.   *)
(*                                                                         *)
(* The core agent and the node agent are modelled by the replies which the  *)
(* engine tells apart, and by what those do to the volume's targets and to  *)
(* the path of the front-end node.                                          *)
(***************************************************************************)
EXTENDS Integers, FiniteSets

CONSTANTS
    WorkerNum,        \* number of worker tasks (WORKER_NUM)
    DeadlineRetries,  \* REPLACE_PATH_DEADLINE_RETRIES
    StoreFaults,      \* may a store operation of the agent fail
    MaxReqs,          \* bound: switchover requests made
    MaxTargets,       \* bound: volume targets created
    MaxFails,         \* bound: failures of a path which was good
    MaxFaults,        \* bound: failed calls and failed store operations
    MaxCrashes        \* bound: crashes of the cluster agent

ASSUME BoundsAssumption == DeadlineRetries \in Nat /\ MaxReqs \in Nat /\ MaxTargets \in Nat \ {0}

Reqs    == 1..MaxReqs
NoReq   == 0
Targets == 1..MaxTargets
NoPath  == 0

VARIABLES
    req,       \* the SwitchOverRequest objects
    at,        \* where the worker that handles each request is
    rec,       \* the request whose stage the failed-path entry shares, or NoReq
    etcd,      \* the stored SwitchOverSpec; its req is NoReq if there is none
    up,        \* is the cluster agent running
    made,      \* requests made so far
    target,    \* core agent: the volume's current target
    shutdown,  \* core agent: targets shut down and not destroyed yet
    path,      \* node agent: the target which the front-end is connected to
    failed,    \* node agent: is that path broken
    report,    \* node agent: is a failed path still being reported
    fails, faults, crashes,  \* what the bounds count
    replaced   \* history: requests whose path replacement has succeeded

engine == <<req, at, rec, etcd, up, made>>
core   == <<target, shutdown>>
node   == <<path, failed, report>>
bounds == <<fails, faults, crashes>>
vars   == <<engine, core, node, bounds, replaced>>

-----------------------------------------------------------------------------
(* Requests and the records stored for them *)

\* Stage, in the order in which the enum derives it.
Stage == <<"Init", "RepublishVolume", "ReplacePath", "DeleteTarget",
           "Successful", "Errored">>

Stages == {Stage[i] : i \in DOMAIN Stage}

Rank(s) == CHOOSE i \in DOMAIN Stage : Stage[i] = s

Request == [stage : Stages, path : Targets \cup {NoPath},
            retry : 0..DeadlineRetries, reuse : BOOLEAN]

NewRequest == [stage |-> "Init", path |-> NoPath, retry |-> 0, reuse |-> TRUE]

\* update_next_stage, which is also commit_op of the stored operation.
NextStage(s) == IF s \in {"Successful", "Errored"} THEN s ELSE Stage[Rank(s) + 1]

Spec(r, q) == [req |-> r, spec |-> q]
NoSpec     == Spec(NoReq, NewRequest)

At == {"none", "queued", "start", "call", "unlist", "complete", "delete",
       "forget", "done"}

Live(r)    == at[r] \notin {"none", "done"}
Working    == {r \in Reqs : Live(r) /\ at[r] # "queued"}

Init ==
    /\ req = [r \in Reqs |-> NewRequest]
    /\ at = [r \in Reqs |-> "none"]
    /\ rec = NoReq /\ etcd = NoSpec /\ up = TRUE /\ made = 0
    /\ target = 1 /\ shutdown = {}
    /\ path = 1 /\ failed = FALSE /\ report = FALSE
    /\ fails = 0 /\ faults = 0 /\ crashes = 0
    /\ replaced = {}

-----------------------------------------------------------------------------
(* Helpers of the actions *)

Goto(r, l) == at' = [at EXCEPT ![r] = l]

Fault == faults < MaxFaults /\ faults' = faults + 1

RequeueDropped(r, q) ==
    /\ req' = [req EXCEPT ![r] = q]
    /\ Goto(r, "done")

\* work_request on Err: count the attempt and put the request back on the
\* queue.  Only retry counts below DeadlineRetries are told apart.
Requeue(r, q) ==
    /\ req' = [req EXCEPT ![r] =
                 [q EXCEPT !.retry = IF @ < DeadlineRetries THEN @ + 1 ELSE @]]
    /\ Goto(r, "queued")

\* A store operation which reports an error may have been applied.
StoreError(new) ==
    /\ StoreFaults /\ Fault
    /\ etcd' \in {etcd, new}

-----------------------------------------------------------------------------
(* Reports of the node agent *)

\* report_failed_path.  The failed-path list stays locked from the lookup to
\* the insertion, so that the report is one step.  A reply which is lost, or
\* one that is neither Ok nor AlreadyExists, is followed by a retransmission.
Replied == \/ report' = FALSE /\ UNCHANGED faults
           \/ report' = TRUE /\ Fault

ReportAnyPath ==
    /\ up /\ report /\ made < MaxReqs
    /\ made' = made + 1
    /\ LET r == made + 1 IN
       \/ /\ etcd' = Spec(r, req[r])
          /\ rec' = r
          /\ Goto(r, "queued")
          /\ Replied
       \/ /\ StoreError(Spec(r, req[r]))
          /\ UNCHANGED <<at, rec, report>>
    /\ UNCHANGED <<req, up, core, path, failed, fails, crashes, replaced>>

ReportFailedPath ==
    /\ up /\ report
    /\ \/ /\ rec # NoReq /\ req[rec].stage \in {"Init", "RepublishVolume"}
          /\ Replied
          /\ UNCHANGED engine
       \/ /\ rec = NoReq /\ made < MaxReqs
          /\ made' = made + 1
          /\ LET r == made + 1 IN
             \/ /\ etcd' = Spec(r, req[r])
                /\ rec' = r
                /\ Goto(r, "queued")
                /\ Replied
             \/ /\ StoreError(Spec(r, req[r]))
                /\ UNCHANGED <<at, rec, report>>
          /\ UNCHANGED <<req, up>>
    /\ UNCHANGED <<core, path, failed, fails, crashes, replaced>>

-----------------------------------------------------------------------------
(* The stages of a request *)

\* worker: take a request off the channel.
PickUp(r) ==
    /\ up /\ at[r] = "queued"
    /\ Cardinality(Working) < WorkerNum
    /\ Goto(r, "start")
    /\ UNCHANGED <<req, rec, etcd, up, made, core, node, bounds, replaced>>

\* start_op, with which every stage begins.  Init has no call of its own, and
\* a Successful request goes on to delete its record.
AfterStart(s) == CASE s = "Init" -> "complete"
                   [] s = "Successful" -> "delete"
                   [] OTHER -> "call"

StartOp(r) ==
    /\ up /\ at[r] = "start"
    /\ \/ /\ etcd' = Spec(r, req[r])
          /\ Goto(r, AfterStart(req[r].stage))
          /\ UNCHANGED <<req, faults>>
       \/ /\ StoreError(Spec(r, req[r]))
          /\ Requeue(r, req[r])
    /\ UNCHANGED <<rec, up, made, core, node, fails, crashes, replaced>>

CompleteOpEager(r) ==
    /\ up /\ at[r] = "complete"
    /\ LET next == [req[r] EXCEPT !.stage = NextStage(@)] IN
       \/ /\ etcd' = Spec(r, next)
          /\ req' = [req EXCEPT ![r] = [next EXCEPT !.retry = 0]]
          /\ Goto(r, "start")
          /\ UNCHANGED faults
       \/ /\ StoreError(Spec(r, next))
          /\ Requeue(r, next)
    /\ UNCHANGED <<rec, up, made, core, node, fails, crashes, replaced>>

\* complete_op(true): store the request with its next stage, then move on.
CompleteOp(r) ==
    /\ up /\ at[r] = "complete"
    /\ LET next == [req[r] EXCEPT !.stage = NextStage(@)] IN
       \/ /\ etcd' = Spec(r, next)
          /\ req' = [req EXCEPT ![r] = [next EXCEPT !.retry = 0]]
          /\ Goto(r, "start")
          /\ UNCHANGED faults
       \/ /\ StoreError(Spec(r, next))
          /\ Requeue(r, req[r])
    /\ UNCHANGED <<rec, up, made, core, node, fails, crashes, replaced>>

\* The core agent's republish: the current target, or a new one after which
\* the previous target is shut down and its path is broken.
Republish(targets, old) ==
    \E t \in targets \cap Targets :
      /\ target' = t
      /\ shutdown' = IF t = target THEN old ELSE old \cup {target}
      /\ failed' = (failed \/ path # t)
      /\ report' = (report \/ (~failed /\ path # t))
      /\ UNCHANGED path

\* destroy_shutdown, which needs a path to ask the node agent about: destroy
\* the shut down targets which the node is not connected to.  Its errors are
\* ignored.
Cleaned(r) == IF req[r].path = NoPath THEN {shutdown}
              ELSE {shutdown, shutdown \cap {path}}

Cancel(r) == Requeue(r, [req[r] EXCEPT !.stage = "Errored"])

\* republish_volume
RepublishVolume(r) ==
    /\ up /\ at[r] = "call" /\ req[r].stage = "RepublishVolume"
    /\ LET reused == IF req[r].reuse THEN {target, target + 1} ELSE {target + 1} IN
       \/ /\ Republish(reused, shutdown)                \* Ok
          /\ req' = [req EXCEPT ![r].path = target']
          /\ Goto(r, "complete")
          /\ UNCHANGED faults
       \/ /\ IF reused \cap Targets = {}                \* ResourceExhausted, then
               THEN UNCHANGED faults ELSE Fault         \* Ok with the fallback
          /\ \E old \in Cleaned(r) :
               Republish({target, target + 1}, old)
          /\ req' = [req EXCEPT ![r].path = target']
          /\ Goto(r, "complete")
       \/ /\ Fault                                      \* ResourceExhausted twice
          /\ shutdown' \in Cleaned(r)
          /\ Requeue(r, req[r])
          /\ UNCHANGED <<target, node>>
       \/ /\ Fault                                      \* PermissionDenied,
          /\ Cancel(r)                                  \* NotPublished, NotFound
          /\ UNCHANGED <<core, node>>
       \/ /\ Fault                                      \* a lost reply
          /\ Republish(reused, shutdown)
          /\ Requeue(r, req[r])
       \/ /\ Fault                                      \* no device uri
          /\ Requeue(r, [req[r] EXCEPT !.path = NoPath])
          /\ UNCHANGED <<core, node>>
    /\ UNCHANGED <<rec, etcd, up, made, fails, crashes, replaced>>

\* The node agent connects the new path and drops the broken one.
ConnectPath(t) == path' = t /\ failed' = FALSE /\ UNCHANGED report

\* replace_path up to the reply of the node agent
ReplacePath(r) ==
    /\ up /\ at[r] = "call" /\ req[r].stage = "ReplacePath"
    /\ LET q == req[r]
           other == [q EXCEPT !.reuse = ~@]
           fallback == [other EXCEPT !.stage = "RepublishVolume"]
       IN
       \/ /\ q.path = target /\ failed                  \* Ok
          /\ ConnectPath(q.path)
          /\ Goto(r, "unlist")
          /\ replaced' = replaced \cup {r}
          /\ UNCHANGED <<req, faults>>
       \/ /\ q.path # NoPath /\ ~failed /\ q.reuse      \* FailedPrecondition:
          /\ Goto(r, "unlist")                          \* it has reconnected
          /\ replaced' = replaced \cup {r}
          /\ UNCHANGED <<req, node, faults>>
       \/ /\ q.path # NoPath /\ ~failed /\ ~q.reuse     \* FailedPrecondition:
          /\ Cancel(r)                                  \* give up
          /\ UNCHANGED <<node, faults, replaced>>
       \/ /\ q.path # NoPath                            \* Timeout, Aborted,
          /\ \/ /\ q.path = target /\ Fault              \* DeadlineExceeded
                /\ ConnectPath(q.path) \/ UNCHANGED node
             \/ /\ q.path # target /\ failed
                /\ UNCHANGED <<node, faults>>
          /\ Requeue(r, IF q.retry < DeadlineRetries THEN q ELSE fallback)
          /\ UNCHANGED replaced
       \/ /\ q.path # NoPath /\ Fault                   \* NotFound
          /\ Requeue(r, fallback)
          /\ UNCHANGED <<node, replaced>>
       \/ /\ Fault                                      \* another error
          /\ Requeue(r, q)
          /\ UNCHANGED <<node, replaced>>
    /\ UNCHANGED <<rec, etcd, up, made, core, fails, crashes>>

\* remove_failed_path, between the reply of the node agent and complete_op
RemoveFailedPath(r) ==
    /\ up /\ at[r] = "unlist"
    /\ rec' = NoReq
    /\ Goto(r, "complete")
    /\ UNCHANGED <<req, etcd, up, made, core, node, bounds, replaced>>


\* destroy_all_shutdown_targets, of delete_target and errored_switchover
DestroyTargets(r) ==
    /\ up /\ at[r] = "call" /\ req[r].stage \in {"DeleteTarget", "Errored"}
    /\ \/ /\ shutdown' = {}
          /\ Goto(r, IF req[r].stage = "Errored" THEN "delete" ELSE "complete")
          /\ UNCHANGED <<req, faults>>
       \/ /\ Fault
          /\ shutdown' \in {{}, shutdown}
          /\ Requeue(r, req[r])
    /\ UNCHANGED <<rec, etcd, up, made, target, node, fails, crashes, replaced>>

\* delete_request, of delete_switchover and errored_switchover.  The record
\* is deleted by its key, the volume, whichever request stored it.
DeleteRequest(r) ==
    /\ up /\ at[r] = "delete"
    /\ \/ /\ etcd' = NoSpec
          /\ Goto(r, IF req[r].stage = "Errored" THEN "forget" ELSE "done")
          /\ UNCHANGED <<req, faults>>
       \/ /\ StoreError(NoSpec)
          /\ Requeue(r, req[r])
    /\ UNCHANGED <<rec, up, made, core, node, fails, crashes, replaced>>

\* remove_failed_path, the end of errored_switchover
ForgetErrored(r) ==
    /\ up /\ at[r] = "forget"
    /\ rec' = NoReq
    /\ Goto(r, "done")
    /\ UNCHANGED <<req, etcd, up, made, core, node, bounds, replaced>>

-----------------------------------------------------------------------------
(* The agent's process and its environment *)

\* The process dies with its queue, its workers and its failed-path list.
Crash ==
    /\ up /\ crashes < MaxCrashes
    /\ crashes' = crashes + 1
    /\ up' = FALSE
    /\ at' = [r \in Reqs |-> IF Live(r) THEN "done" ELSE at[r]]
    /\ rec' = NoReq
    /\ UNCHANGED <<req, etcd, made, core, node, fails, faults, replaced>>

\* main: fetch_incomplete_requests, then send_switchover_req.
Restart ==
    /\ ~up /\ up' = TRUE
    /\ LET r == etcd.req
           q == [etcd.spec EXCEPT !.reuse = TRUE]
       IN IF r = NoReq
            THEN UNCHANGED <<req, at, rec, etcd>>
            ELSE /\ req' = [req EXCEPT ![r] = q]
                 /\ rec' = r
                 /\ etcd' = Spec(r, q)
                 /\ Goto(r, "queued")
    /\ UNCHANGED <<made, core, node, bounds, replaced>>

\* The path of the front-end node breaks: its detector calls the reporter.
PathFails ==
    /\ ~failed /\ fails < MaxFails
    /\ failed' = TRUE /\ report' = TRUE /\ fails' = fails + 1
    /\ UNCHANGED <<engine, core, path, faults, crashes, replaced>>

\* The broken path comes back by itself, if its target is still the volume's.
PathRecovers ==
    /\ failed /\ path = target /\ failed' = FALSE
    /\ UNCHANGED <<engine, core, path, report, bounds, replaced>>

RequestStep(r) ==
    \/ PickUp(r) \/ StartOp(r) \/ CompleteOp(r)
    \/ RepublishVolume(r) \/ ReplacePath(r) \/ RemoveFailedPath(r)
    \/ DestroyTargets(r) \/ DeleteRequest(r) \/ ForgetErrored(r)

Next ==
    \/ ReportFailedPath
    \/ \E r \in Reqs : RequestStep(r)
    \/ Crash \/ Restart
    \/ PathFails \/ PathRecovers

SafetySpec == Init /\ [][Next]_vars

\* Every worker runs on and the reporter retransmits; the process is restarted.
Fairness ==
    /\ WF_vars(ReportFailedPath)
    /\ WF_vars(Restart)
    /\ \A r \in Reqs : WF_vars(RequestStep(r))

FairSpec == SafetySpec /\ Fairness

-----------------------------------------------------------------------------
(* Properties *)

\* The state variables keep their types; in particular the stage of a request
\* in memory and in etcd is always one of the six.
TypeOK ==
    /\ req \in [Reqs -> Request]
    /\ at \in [Reqs -> At]
    /\ rec \in Reqs \cup {NoReq}
    /\ etcd \in [req : Reqs \cup {NoReq}, spec : Request]
    /\ up \in BOOLEAN /\ made \in 0..MaxReqs
    /\ target \in Targets /\ shutdown \subseteq Targets
    /\ path \in Targets /\ failed \in BOOLEAN /\ report \in BOOLEAN
    /\ fails \in 0..MaxFails /\ faults \in 0..MaxFaults
    /\ crashes \in 0..MaxCrashes
    /\ replaced \subseteq Reqs

\* A request which still has work to do is the one in etcd, so that a crash
\* cannot lose it: "Start_op will store the request" (switchover.rs).
AcceptedIsPersisted ==
    \A r \in Reqs :
      Live(r) /\ req[r].stage \notin {"Successful", "Errored"} => etcd.req = r

\* The stage in etcd has been reached: a request stored beyond ReplacePath has
\* replaced its path, and one stored at ReplacePath has a path to send
\* (complete_op runs after the call of the stage, never before it).
StoredStageIsReached ==
    etcd.req # NoReq =>
      /\ etcd.spec.stage \in {"DeleteTarget", "Successful"} => etcd.req \in replaced
      /\ etcd.spec.stage = "ReplacePath" => etcd.spec.path # NoPath

\* A crash repeats the stage it interrupts, never one that had been completed:
\* the stored stage is not behind the one in memory (update_next_stage runs
\* only after complete_op has stored the next stage).
CompletedStagesStay ==
    \A r \in Reqs :
      Live(r) /\ etcd.req = r /\ req[r].stage # "Errored" =>
        Rank(etcd.spec.stage) >= Rank(req[r].stage)

\* The record in etcd is that of the request at work, at a stage that was reached and
\* not behind it (start_op, complete_op, delete).
RecordIsTrue == AcceptedIsPersisted /\ StoredStageIsReached /\ CompletedStagesStay


\* The target which the front-end is connected to is not destroyed before its
\* path has been replaced, unless the switchover was cancelled: DeleteTarget
\* comes after ReplacePath, and destroy_shutdown spares registered targets.
ConnectedTargetKeptStep ==
    (path \in shutdown \ shutdown') => (\E r \in Reqs : req[r].stage = "Errored")
ConnectedTargetKept == [][ConnectedTargetKeptStep]_vars

\* A path is reported for one switchover at a time: two requests never
\* republish the same volume (report_failed_path rejects "Path is already
\* reported for switchover").
OneSwitchover ==
    Cardinality({r \in Reqs : Live(r) /\ req[r].stage \in {"Init", "RepublishVolume"}}) <= 1

\* Every accepted request is driven to its end, across a restart as well: it is
\* taken again after each failed stage until its record is deleted, if the
\* failures come to an end (work_request, enqueue, send_switchover_req).
RequestsComplete ==
    \A r \in Reqs : (Live(r) \/ etcd.req = r) ~> (~Live(r) /\ etcd.req # r)

\* A failed path which the node agent keeps reporting is accepted at last
\* (process_batch: "continue till transmission succeeds").
ReportsAccepted == report ~> ~report

-----------------------------------------------------------------------------
(* Why two requests never republish: the inductive invariant *)

\* What a step of the store may not do: fail to record that a path has been
\* replaced, after the path has been taken off the list of failed paths.
ReplacementStoredStep ==
    \A r \in Reqs :
      at[r] = "complete" /\ req[r].stage = "ReplacePath" => at'[r] # "queued"
ReplacementStored == [][ReplacementStoredStep]_vars

EngineOK ==
    /\ req \in [Reqs -> Request]
    /\ at \in [Reqs -> At]
    /\ rec \in Reqs \cup {NoReq}
    /\ etcd \in [req : 0..made, spec : Request]
    /\ up \in BOOLEAN /\ made \in 0..MaxReqs /\ target \in Targets

\* The calls a request makes are those of its stage.
StageFits(s, l) ==
    /\ l = "unlist" => s = "ReplacePath"
    /\ l = "complete" => s \notin {"Successful", "Errored"}
    /\ l = "forget" => s = "Errored"

\* A request at this stage and place may still republish the volume.
MayRepublish(s, l) ==
    \/ s \in {"Init", "RepublishVolume", "Errored"}
    \/ s = "ReplacePath" /\ l # "complete"

\* Every request that may still republish has the entry in the list of failed
\* paths, which keeps report_failed_path from making another; there are no
\* requests in a process which is down, and none before they are made.
SwitchInv ==
    /\ EngineOK
    /\ \A r \in Reqs : StageFits(req[r].stage, at[r])
    /\ \A r \in Reqs : Live(r) /\ MayRepublish(req[r].stage, at[r]) => rec = r
    /\ \A r \in Reqs : r > made => at[r] = "none"
    /\ ~up => \A r \in Reqs : ~Live(r)

-----------------------------------------------------------------------------
(* Why the stored stage is reached and not behind: the inductive invariant *)

\* What a request q of r at its stage has done.
StageReached(r, q) ==
    /\ q.stage \in {"DeleteTarget", "Successful"} => r \in replaced
    /\ q.stage = "ReplacePath" => q.path # NoPath

\* What it has done when the call of the stage is over.
CallReached(r, q, l) ==
    /\ l = "unlist" => q.stage = "ReplacePath" /\ r \in replaced
    /\ l = "complete" => /\ q.stage \notin {"Successful", "Errored"}
                         /\ q.stage = "ReplacePath" => r \in replaced
                         /\ q.stage = "RepublishVolume" => q.path # NoPath

\* The stages in memory and in the store have been reached, the stored one is not
\* behind that in memory, and a request in memory has been made.
StoredInv ==
    /\ EngineOK
    /\ \A r \in Reqs : StageReached(r, req[r]) /\ CallReached(r, req[r], at[r])
    /\ etcd.req # NoReq => StageReached(etcd.req, etcd.spec)
    /\ CompletedStagesStay
    /\ \A r \in Reqs : r > made => at[r] = "none"
    /\ ~up => \A r \in Reqs : ~Live(r)
=============================================================================
