-------------------------- MODULE SwitchOverProofs --------------------------
(***************************************************************************)
(* Two requests never republish the volume: TLAPS proof of OneSwitchover,  *)
(* for any number of requests, targets, workers, faults and crashes.       *)
(***************************************************************************)
EXTENDS SwitchOver, FiniteSetTheorems, TLAPS

\* The order of the stages, as the enum of the code lists them.
LEMMA Ranks ==
    /\ Rank("Init") = 1 /\ Rank("RepublishVolume") = 2 /\ Rank("ReplacePath") = 3
    /\ Rank("DeleteTarget") = 4 /\ Rank("Successful") = 5
<1>1. DOMAIN Stage = 1..6
  BY DEF Stage
<1>2. /\ Stage[1] = "Init" /\ Stage[2] = "RepublishVolume" /\ Stage[3] = "ReplacePath"
      /\ Stage[4] = "DeleteTarget" /\ Stage[5] = "Successful" /\ Stage[6] = "Errored"
  BY DEF Stage
<1>3. Rank("Init") = 1
  BY <1>1, <1>2 DEF Rank
<1>4. Rank("RepublishVolume") = 2
  BY <1>1, <1>2 DEF Rank
<1>5. Rank("ReplacePath") = 3
  BY <1>1, <1>2 DEF Rank
<1>6. Rank("DeleteTarget") = 4
  BY <1>1, <1>2 DEF Rank
<1>7. Rank("Successful") = 5
  BY <1>1, <1>2 DEF Rank
<1> QED
  BY <1>3, <1>4, <1>5, <1>6, <1>7

\* Every stage has its place in the order.
LEMMA RanksAreNumbers == \A s \in Stages : Rank(s) \in 1..6
<1>1. DOMAIN Stage = 1..6
  BY DEF Stage
<1> QED
  BY <1>1 DEF Rank, Stages

\* The stage after each of the first four (update_next_stage).
LEMMA StageOrder ==
    /\ NextStage("Init") = "RepublishVolume"
    /\ NextStage("RepublishVolume") = "ReplacePath"
    /\ NextStage("ReplacePath") = "DeleteTarget"
    /\ NextStage("DeleteTarget") = "Successful"
<1>1. /\ Stage[2] = "RepublishVolume" /\ Stage[3] = "ReplacePath"
      /\ Stage[4] = "DeleteTarget" /\ Stage[5] = "Successful"
  BY DEF Stage
<1> QED
  BY <1>1, Ranks DEF NextStage

\* The stages by name.
LEMMA StageNames ==
    Stages = {"Init", "RepublishVolume", "ReplacePath", "DeleteTarget", "Successful", "Errored"}
<1>1. DOMAIN Stage = 1..6
  BY DEF Stage
<1>2. /\ Stage[1] = "Init" /\ Stage[2] = "RepublishVolume" /\ Stage[3] = "ReplacePath"
      /\ Stage[4] = "DeleteTarget" /\ Stage[5] = "Successful" /\ Stage[6] = "Errored"
  BY DEF Stage
<1> QED
  BY <1>1, <1>2 DEF Stages

\* A request whose counter, stage or path is changed is one, with the stage meant.
LEMMA RequestFields ==
    ASSUME NEW q \in Request
    PROVE  /\ \A s \in Stages : [q EXCEPT !.stage = s] \in Request /\ [q EXCEPT !.stage = s].stage = s
           /\ \A n \in 0..DeadlineRetries :
                [q EXCEPT !.retry = n] \in Request /\ [q EXCEPT !.retry = n].stage = q.stage
           /\ \A t \in Targets \cup {NoPath} :
                [q EXCEPT !.path = t] \in Request /\ [q EXCEPT !.path = t].stage = q.stage
           /\ [q EXCEPT !.reuse = TRUE] \in Request /\ [q EXCEPT !.reuse = TRUE].stage = q.stage
           /\ [q EXCEPT !.reuse = ~@] \in Request
           /\ q.stage \in Stages /\ q.retry \in 0..DeadlineRetries
  BY Zenon DEF Request

\* A request sent to a stage.
LEMMA WithStage ==
    ASSUME NEW q \in Request, NEW s \in Stages
    PROVE  [q EXCEPT !.stage = s] \in Request /\ [q EXCEPT !.stage = s].stage = s
  BY DEF Request

\* A request given a path.
LEMMA WithPath ==
    ASSUME NEW q \in Request, NEW t \in Targets \cup {NoPath}
    PROVE  /\ [q EXCEPT !.path = t] \in Request
           /\ [q EXCEPT !.path = t].stage = q.stage /\ [q EXCEPT !.path = t].path = t
  BY DEF Request

\* The counter of attempts stays within its bound (work_request).
LEMMA RetryRequest ==
    ASSUME NEW q \in Request
    PROVE  /\ [q EXCEPT !.retry = IF @ < DeadlineRetries THEN @ + 1 ELSE @] \in Request
           /\ [q EXCEPT !.retry = IF @ < DeadlineRetries THEN @ + 1 ELSE @].stage = q.stage
  BY BoundsAssumption DEF Request

\* A step of one request keeps the invariant if the request keeps the entry of
\* the list of failed paths as long as it may republish.
LEMMA RequestMoves ==
    ASSUME SwitchInv, up, NEW r \in Reqs, Live(r),
           NEW q \in Request, NEW l \in At, l # "none", StageFits(q.stage, l),
           req' = [req EXCEPT ![r] = q], at' = [at EXCEPT ![r] = l],
           rec' = rec \/ (rec = r /\ rec' = NoReq),
           l # "done" /\ MayRepublish(q.stage, l) => rec' = r,
           etcd' \in [req : 0..made, spec : Request],
           up' = up, made' = made, target' \in Targets
    PROVE  SwitchInv'
<1>1. EngineOK'
  BY DEF SwitchInv, EngineOK
<1>2. /\ req'[r] = q /\ at'[r] = l
      /\ \A s \in Reqs \ {r} : req'[s] = req[s] /\ at'[s] = at[s]
  BY DEF SwitchInv, EngineOK
<1>3. \A s \in Reqs : StageFits(req'[s].stage, at'[s])
  BY <1>2 DEF SwitchInv
<1>4. \A s \in Reqs : Live(s)' /\ MayRepublish(req'[s].stage, at'[s]) => rec' = s
  BY <1>2 DEF SwitchInv, Live
<1>5. \A s \in Reqs : s > made' => at'[s] = "none"
  BY <1>2 DEF SwitchInv, Live
<1> QED
  BY <1>1, <1>3, <1>4, <1>5 DEF SwitchInv, Live

\* The records of the store.
LEMMA Records ==
    ASSUME NEW n \in Nat
    PROVE  /\ \A r \in Reqs, q \in Request :
                r <= n => Spec(r, q) \in [req : 0..n, spec : Request]
           /\ NewRequest \in Request
           /\ NoSpec \in [req : 0..n, spec : Request]
<1>1. NewRequest \in Request
  BY StageNames, BoundsAssumption DEF NewRequest, Request
<1>2. \A r \in Reqs : r <= n => r \in 0..n
  BY BoundsAssumption DEF Reqs
<1> QED
  BY <1>1, <1>2 DEF Spec, NoSpec, NoReq

\* The parts of a record.
LEMMA SpecFields ==
    /\ \A r, q : Spec(r, q).req = r /\ Spec(r, q).spec = q
    /\ NoSpec.req = NoReq
  BY DEF Spec, NoSpec

\* A store operation leaves a record in the store, whether or not it succeeds.
LEMMA StoreTyped ==
    ASSUME SwitchInv, NEW new \in [req : 0..made, spec : Request],
           etcd' = new \/ StoreError(new)
    PROVE  etcd' \in [req : 0..made, spec : Request]
  BY DEF SwitchInv, EngineOK, StoreError

\* What is put back on the queue is the request, with its stage.
LEMMA RequeueMoves ==
    ASSUME SwitchInv, up, NEW r \in Reqs, Live(r), NEW q \in Request, Requeue(r, q),
           MayRepublish(q.stage, "queued") => rec = r,
           etcd' \in [req : 0..made, spec : Request],
           rec' = rec, up' = up, made' = made, target' \in Targets
    PROVE  SwitchInv'
<1>1. PICK p \in Request :
        /\ p = [q EXCEPT !.retry = IF @ < DeadlineRetries THEN @ + 1 ELSE @]
        /\ p.stage = q.stage
  BY RetryRequest, Zenon
<1>2. req' = [req EXCEPT ![r] = p] /\ at' = [at EXCEPT ![r] = "queued"]
  BY <1>1 DEF Requeue, Goto
<1>3. StageFits(p.stage, "queued")
  BY DEF StageFits
<1> QED
  BY <1>1, <1>2, <1>3, RequestMoves, Zenon DEF At

\* A step which leaves the request as it is.
LEMMA PlaceMoves ==
    ASSUME SwitchInv, up, NEW r \in Reqs, Live(r), NEW l \in At, l # "none",
           StageFits(req[r].stage, l), req' = req, Goto(r, l),
           rec' = rec \/ (rec = r /\ rec' = NoReq),
           l # "done" /\ MayRepublish(req[r].stage, l) => rec' = r,
           etcd' \in [req : 0..made, spec : Request],
           up' = up, made' = made, target' \in Targets
    PROVE  SwitchInv'
<1>1. req[r] \in Request /\ req' = [req EXCEPT ![r] = req[r]]
  BY DEF SwitchInv, EngineOK
<1> QED
  BY <1>1, RequestMoves, Zenon DEF Goto

\* What the invariant says of a request.
LEMMA RequestFacts ==
    ASSUME SwitchInv, NEW r \in Reqs
    PROVE  /\ req[r] \in Request /\ req[r].stage \in Stages
           /\ StageFits(req[r].stage, at[r])
           /\ Live(r) /\ MayRepublish(req[r].stage, at[r]) => rec = r
           /\ target \in Targets /\ rec \in Reqs \cup {NoReq}
           /\ etcd \in [req : 0..made, spec : Request]
           /\ Live(r) => r <= made
           /\ made \in Nat
<1>1. Live(r) => r <= made
  BY BoundsAssumption DEF SwitchInv, EngineOK, Live, Reqs
<1>2. made \in Nat
  BY BoundsAssumption DEF SwitchInv, EngineOK
<1>3. req[r] \in Request
  BY DEF SwitchInv, EngineOK
<1>4. req[r].stage \in Stages
  BY <1>3, RequestFields, Zenon
<1> QED
  BY <1>1, <1>2, <1>3, <1>4 DEF SwitchInv, EngineOK

-----------------------------------------------------------------------------
(* The steps of a request                                                  *)

\* worker: taking a request off the channel changes nothing of it.
LEMMA PickUpKeeps == ASSUME SwitchInv, NEW r \in Reqs, PickUp(r) PROVE SwitchInv'
<1>1. /\ up /\ Live(r) /\ at[r] = "queued" /\ Goto(r, "start")
      /\ req' = req /\ rec' = rec /\ etcd' = etcd /\ up' = up /\ made' = made /\ target' = target
  BY DEF PickUp, Live, core
<1>2. StageFits(req[r].stage, "start") /\ "start" \in At
  BY DEF StageFits, At
<1>3. MayRepublish(req[r].stage, "start") => rec = r
  BY <1>1, RequestFacts DEF MayRepublish
<1> QED
  BY <1>1, <1>2, <1>3, RequestFacts, PlaceMoves

\* start_op stores the request before the call of its stage.
LEMMA StartOpKeeps == ASSUME SwitchInv, NEW r \in Reqs, StartOp(r) PROVE SwitchInv'
<1>1. /\ up /\ Live(r) /\ at[r] = "start"
      /\ rec' = rec /\ up' = up /\ made' = made /\ target' = target
  BY DEF StartOp, Live, core
<1>2. etcd' \in [req : 0..made, spec : Request]
  BY <1>1, RequestFacts, Records, StoreTyped DEF StartOp
<1>3. MayRepublish(req[r].stage, "queued") => rec = r
  BY <1>1, RequestFacts DEF MayRepublish
<1>4. CASE Goto(r, AfterStart(req[r].stage)) /\ req' = req
  <2>1. PICK l \in At : /\ l = AfterStart(req[r].stage) /\ l # "none"
                        /\ StageFits(req[r].stage, l)
                        /\ MayRepublish(req[r].stage, l) => rec = r
    BY <1>1, RequestFacts DEF AfterStart, At, StageFits, MayRepublish
  <2> QED
    BY <1>1, <1>2, <1>4, <2>1, RequestFacts, PlaceMoves
<1>5. CASE Requeue(r, req[r])
  BY <1>1, <1>2, <1>3, <1>5, RequestFacts, RequeueMoves
<1> QED
  BY <1>4, <1>5 DEF StartOp

\* complete_op moves the request on once its next stage is stored.
LEMMA CompleteOpKeeps ==
    ASSUME SwitchInv, NEW r \in Reqs, CompleteOp(r), ReplacementStoredStep
    PROVE  SwitchInv'
<1>1. /\ up /\ Live(r) /\ at[r] = "complete"
      /\ rec' = rec /\ up' = up /\ made' = made /\ target' = target
  BY DEF CompleteOp, Live, core
<1>2. req[r].stage \in {"Init", "RepublishVolume", "ReplacePath", "DeleteTarget"}
  BY <1>1, RequestFacts, StageNames DEF StageFits
<1>3. PICK s \in Stages : s = NextStage(req[r].stage)
  BY <1>2, StageOrder, StageNames
<1>4. PICK p \in Request : p = [req[r] EXCEPT !.stage = NextStage(@)] /\ p.stage = s
  <2>1. PICK q \in Request : q = req[r]
    BY RequestFacts
  <2>2. [q EXCEPT !.stage = s] \in Request /\ [q EXCEPT !.stage = s].stage = s
    BY RequestFields, Zenon
  <2> QED
    BY <1>3, <2>1, <2>2, Zenon
<1>5. etcd' \in [req : 0..made, spec : Request]
  BY <1>1, <1>4, RequestFacts, Records, StoreTyped DEF CompleteOp
<1>6. CASE Goto(r, "start") /\ req' = [req EXCEPT ![r] = [p EXCEPT !.retry = 0]]
  <2>1. PICK z \in Request : z = [p EXCEPT !.retry = 0] /\ z.stage = s
    <3>1. 0 \in 0..DeadlineRetries
      BY BoundsAssumption
    <3>2. [p EXCEPT !.retry = 0] \in Request /\ [p EXCEPT !.retry = 0].stage = p.stage
      BY <3>1, RequestFields, Zenon
    <3> QED
      BY <1>4, <3>2, Zenon
  <2>2. StageFits(s, "start") /\ "start" \in At
    BY DEF StageFits, At
  <2>3. MayRepublish(s, "start") => rec = r
    BY <1>1, <1>2, <1>3, StageOrder, RequestFacts DEF MayRepublish
  <2> QED
    BY <1>1, <1>5, <1>6, <2>1, <2>2, <2>3, RequestFacts, RequestMoves, Zenon DEF Goto
<1>7. CASE Requeue(r, req[r])
  <2>1. at'[r] = "queued"
    BY <1>7 DEF Requeue, Goto, SwitchInv, EngineOK
  <2>2. req[r].stage # "ReplacePath"
    BY <1>1, <2>1 DEF ReplacementStoredStep
  <2>3. MayRepublish(req[r].stage, "queued") => rec = r
    BY <1>1, <2>2, RequestFacts DEF MayRepublish
  <2> QED
    BY <1>1, <1>5, <1>7, <2>3, RequestFacts, RequeueMoves
<1> QED
  BY <1>4, <1>6, <1>7 DEF CompleteOp

\* republish_volume goes on, is repeated, or is given up; it touches neither
\* the list of failed paths nor the store.
LEMMA RepublishVolumeKeeps ==
    ASSUME SwitchInv, NEW r \in Reqs, RepublishVolume(r) PROVE SwitchInv'
<1>1. /\ up /\ Live(r) /\ at[r] = "call" /\ req[r].stage = "RepublishVolume"
      /\ rec' = rec /\ etcd' = etcd /\ up' = up /\ made' = made
  BY DEF RepublishVolume, Live
<1>2. rec = r
  BY <1>1, RequestFacts DEF MayRepublish
<1>3. target' \in Targets
  BY RequestFacts DEF RepublishVolume, Republish, core
<1>4. PICK q \in Request : q = req[r] /\ q.stage = "RepublishVolume"
  BY <1>1, RequestFacts
<1>5. CASE req' = [req EXCEPT ![r].path = target'] /\ Goto(r, "complete")
  <2>1. PICK t \in Targets : t = target'
    BY <1>3
  <2>2. PICK p \in Request : p = [q EXCEPT !.path = t] /\ p.stage = q.stage
    BY RequestFields, Zenon
  <2>3. req' = [req EXCEPT ![r] = p]
    BY <1>4, <1>5, <2>1, <2>2
  <2>4. StageFits(p.stage, "complete") /\ "complete" \in At
    BY <1>4, <2>2 DEF StageFits, At
  <2> QED
    BY <1>1, <1>2, <1>3, <1>5, <2>3, <2>4, RequestFacts, RequestMoves, Zenon DEF Goto
<1>6. ASSUME NEW p \in Request, Requeue(r, p) PROVE SwitchInv'
  BY <1>1, <1>2, <1>3, <1>6, RequestFacts, RequeueMoves
<1>7. [q EXCEPT !.stage = "Errored"] \in Request /\ [q EXCEPT !.path = NoPath] \in Request
  BY RequestFields, StageNames, Zenon
<1> QED
  BY <1>4, <1>5, <1>6, <1>7 DEF RepublishVolume, Cancel

\* replace_path goes on to remove_failed_path, is repeated, goes back to
\* RepublishVolume or is given up; the request keeps its entry.
LEMMA ReplacePathKeeps ==
    ASSUME SwitchInv, NEW r \in Reqs, ReplacePath(r) PROVE SwitchInv'
<1>1. /\ up /\ Live(r) /\ at[r] = "call" /\ req[r].stage = "ReplacePath"
      /\ rec' = rec /\ etcd' = etcd /\ up' = up /\ made' = made /\ target' = target
  BY DEF ReplacePath, Live, core
<1>2. rec = r
  BY <1>1, RequestFacts DEF MayRepublish
<1>3. PICK q \in Request : q = req[r]
  BY RequestFacts
<1>4. CASE Goto(r, "unlist") /\ req' = req
  <2>1. StageFits(req[r].stage, "unlist") /\ "unlist" \in At
    BY <1>1 DEF StageFits, At
  <2> QED
    BY <1>1, <1>2, <1>4, <2>1, RequestFacts, PlaceMoves
<1>5. ASSUME NEW p \in Request, Requeue(r, p) PROVE SwitchInv'
  BY <1>1, <1>2, <1>5, RequestFacts, RequeueMoves
<1>6. PICK p \in Request : p = [q EXCEPT !.reuse = ~@]
  BY RequestFields, Zenon
<1>7. [q EXCEPT !.stage = "Errored"] \in Request /\ [p EXCEPT !.stage = "RepublishVolume"] \in Request
  BY RequestFields, StageNames, Zenon
<1> QED
  BY <1>3, <1>4, <1>5, <1>6, <1>7 DEF ReplacePath, Cancel

\* remove_failed_path takes the entry of this very request off the list.
LEMMA RemoveFailedPathKeeps ==
    ASSUME SwitchInv, NEW r \in Reqs, RemoveFailedPath(r) PROVE SwitchInv'
<1>1. /\ up /\ Live(r) /\ at[r] = "unlist" /\ Goto(r, "complete") /\ rec' = NoReq
      /\ req' = req /\ etcd' = etcd /\ up' = up /\ made' = made /\ target' = target
  BY DEF RemoveFailedPath, Live, core
<1>2. req[r].stage = "ReplacePath" /\ rec = r
  BY <1>1, RequestFacts DEF StageFits, MayRepublish
<1>3. StageFits(req[r].stage, "complete") /\ "complete" \in At /\ ~MayRepublish(req[r].stage, "complete")
  BY <1>2 DEF StageFits, MayRepublish, At
<1> QED
  BY <1>1, <1>2, <1>3, RequestFacts, PlaceMoves

\* The shut down targets are destroyed in DeleteTarget and in Errored.
LEMMA DestroyTargetsKeeps ==
    ASSUME SwitchInv, NEW r \in Reqs, DestroyTargets(r) PROVE SwitchInv'
<1>1. /\ up /\ Live(r) /\ at[r] = "call" /\ req[r].stage \in {"DeleteTarget", "Errored"}
      /\ rec' = rec /\ etcd' = etcd /\ up' = up /\ made' = made /\ target' = target
  BY DEF DestroyTargets, Live
<1>2. \A l \in At : MayRepublish(req[r].stage, l) => rec = r
  BY <1>1, RequestFacts DEF MayRepublish
<1>3. CASE Goto(r, IF req[r].stage = "Errored" THEN "delete" ELSE "complete") /\ req' = req
  <2>1. PICK l \in At : /\ l = (IF req[r].stage = "Errored" THEN "delete" ELSE "complete")
                        /\ l # "none" /\ StageFits(req[r].stage, l)
    BY <1>1 DEF At, StageFits
  <2> QED
    BY <1>1, <1>2, <1>3, <2>1, RequestFacts, PlaceMoves
<1>4. CASE Requeue(r, req[r])
  <2>1. "queued" \in At
    BY DEF At
  <2> QED
    BY <1>1, <1>2, <1>4, <2>1, RequestFacts, RequeueMoves
<1> QED
  BY <1>3, <1>4 DEF DestroyTargets

\* The record is deleted at the end of a request, which keeps its entry if it
\* was given up.
LEMMA DeleteRequestKeeps ==
    ASSUME SwitchInv, NEW r \in Reqs, DeleteRequest(r) PROVE SwitchInv'
<1>1. /\ up /\ Live(r) /\ at[r] = "delete"
      /\ rec' = rec /\ up' = up /\ made' = made /\ target' = target
  BY DEF DeleteRequest, Live, core
<1>2. etcd' \in [req : 0..made, spec : Request]
  BY RequestFacts, Records, StoreTyped DEF DeleteRequest
<1>3. \A l \in At : MayRepublish(req[r].stage, l) => rec = r
  BY <1>1, RequestFacts DEF MayRepublish
<1>4. CASE Goto(r, IF req[r].stage = "Errored" THEN "forget" ELSE "done") /\ req' = req
  <2>1. PICK l \in At : /\ l = (IF req[r].stage = "Errored" THEN "forget" ELSE "done")
                        /\ l # "none" /\ StageFits(req[r].stage, l)
    BY DEF At, StageFits
  <2> QED
    BY <1>1, <1>2, <1>3, <1>4, <2>1, RequestFacts, PlaceMoves
<1>5. CASE Requeue(r, req[r])
  <2>1. "queued" \in At
    BY DEF At
  <2> QED
    BY <1>1, <1>2, <1>3, <1>5, <2>1, RequestFacts, RequeueMoves
<1> QED
  BY <1>4, <1>5 DEF DeleteRequest

\* remove_failed_path of a request that was given up takes its own entry.
LEMMA ForgetErroredKeeps ==
    ASSUME SwitchInv, NEW r \in Reqs, ForgetErrored(r) PROVE SwitchInv'
<1>1. /\ up /\ Live(r) /\ at[r] = "forget" /\ Goto(r, "done") /\ rec' = NoReq
      /\ req' = req /\ etcd' = etcd /\ up' = up /\ made' = made /\ target' = target
  BY DEF ForgetErrored, Live, core
<1>2. rec = r
  BY <1>1, RequestFacts DEF StageFits, MayRepublish
<1>3. StageFits(req[r].stage, "done") /\ "done" \in At
  BY DEF StageFits, At
<1> QED
  BY <1>1, <1>2, <1>3, RequestFacts, PlaceMoves

-----------------------------------------------------------------------------
(* The steps of the agent and of its environment                           *)

\* A report makes a request only while no request has the entry.
LEMMA ReportKeeps == ASSUME SwitchInv, ReportFailedPath PROVE SwitchInv'
<1>1. up /\ up' = up /\ req' = req /\ target' = target
  BY Zenon DEF ReportFailedPath, engine, core
<1>2. CASE UNCHANGED engine
  BY <1>1, <1>2 DEF SwitchInv, EngineOK, Live, engine
<1>3. CASE rec = NoReq /\ made < MaxReqs /\ made' = made + 1
  <2>1. made + 1 \in Reqs /\ made' \in 0..MaxReqs /\ made \in 0..MaxReqs
    BY <1>3, BoundsAssumption DEF SwitchInv, EngineOK, Reqs
  <2>2. PICK r \in Reqs : r = made + 1
    BY <2>1
  <2>3. req[r] \in Request /\ at[r] = "none"
    BY <2>1, <2>2 DEF SwitchInv, EngineOK
  <2>a. Spec(r, req[r]) \in [req : 0..made', spec : Request]
    <3>1. made' \in Nat /\ r <= made'
      BY <1>3, <2>1, <2>2 DEF Reqs
    <3> QED
      BY <2>3, <3>1, Records
  <2>b. etcd \in [req : 0..made', spec : Request]
    <3>1. etcd \in [req : 0..made, spec : Request] /\ 0..made \subseteq 0..made'
      BY <1>3, <2>1 DEF SwitchInv, EngineOK
    <3> QED
      BY <3>1
  <2>4. \A s \in Reqs : ~(Live(s) /\ MayRepublish(req[s].stage, at[s]))
    BY <1>3, BoundsAssumption DEF SwitchInv, NoReq, Reqs
  <2>5. CASE etcd' = Spec(r, req[r]) /\ rec' = r /\ Goto(r, "queued")
    <3>1. at'[r] = "queued" /\ \A s \in Reqs \ {r} : at'[s] = at[s]
      BY <2>5 DEF Goto, SwitchInv, EngineOK
    <3>2. EngineOK'
      BY <1>1, <2>1, <2>a, <2>5 DEF SwitchInv, EngineOK, Goto, At
    <3>3. \A s \in Reqs : StageFits(req'[s].stage, at'[s])
      BY <1>1, <3>1 DEF SwitchInv, StageFits
    <3>4. \A s \in Reqs : Live(s)' /\ MayRepublish(req'[s].stage, at'[s]) => rec' = s
      BY <1>1, <2>4, <2>5, <3>1 DEF Live
    <3>5. \A s \in Reqs : s > made' => at'[s] = "none"
      BY <1>3, <2>1, <2>2, <3>1 DEF SwitchInv, Reqs
    <3> QED
      BY <1>1, <3>2, <3>3, <3>4, <3>5 DEF SwitchInv
  <2>6. CASE StoreError(Spec(r, req[r])) /\ UNCHANGED <<at, rec>>
    <3>1. EngineOK'
      BY <1>1, <2>1, <2>a, <2>b, <2>6 DEF SwitchInv, EngineOK, StoreError
    <3>2. \A s \in Reqs : s > made' => at'[s] = "none"
      BY <1>3, <2>1, <2>6 DEF SwitchInv, Reqs
    <3> QED
      BY <1>1, <2>6, <3>1, <3>2 DEF SwitchInv, Live
  <2> QED
    BY <1>3, <2>2, <2>5, <2>6, Zenon DEF ReportFailedPath, engine
<1> QED
  BY <1>2, <1>3, Zenon DEF ReportFailedPath

\* No request survives the process.
LEMMA CrashKeeps == ASSUME SwitchInv, Crash PROVE SwitchInv'
<1>1. /\ req' = req /\ etcd' = etcd /\ made' = made /\ target' = target
      /\ rec' = NoReq /\ up' = FALSE
      /\ at' = [r \in Reqs |-> IF Live(r) THEN "done" ELSE at[r]]
  BY DEF Crash, core
<1>2. \A r \in Reqs : at'[r] = (IF Live(r) THEN "done" ELSE at[r])
  BY <1>1
<1>3. \A r \in Reqs : at'[r] \in {"none", "done"}
  BY <1>2 DEF Live
<1>4. EngineOK'
  BY <1>1, <1>3, Zenon DEF SwitchInv, EngineOK, At
<1>5. \A r \in Reqs : StageFits(req'[r].stage, at'[r])
  BY <1>3 DEF StageFits
<1>6. \A r \in Reqs : r > made' => at'[r] = "none"
  BY <1>1, <1>2 DEF SwitchInv, Live
<1> QED
  BY <1>3, <1>4, <1>5, <1>6 DEF SwitchInv, Live

\* The restarted agent drives the stored request alone, and lists its path.
LEMMA RestartKeeps == ASSUME SwitchInv, Restart PROVE SwitchInv'
<1>1. ~up /\ up' = TRUE /\ made' = made /\ target' = target
  BY DEF Restart, core
<1>2. \A s \in Reqs : ~Live(s)
  BY <1>1 DEF SwitchInv
<1>3. CASE etcd.req = NoReq
  <2>1. UNCHANGED <<req, at, rec, etcd>>
    BY <1>3 DEF Restart
  <2> QED
    BY <1>1, <1>2, <2>1 DEF SwitchInv, EngineOK, Live
<1>4. CASE etcd.req # NoReq
  <2>1. etcd.req \in 1..made /\ etcd.spec \in Request /\ made \in 0..MaxReqs
    BY <1>4 DEF SwitchInv, EngineOK, NoReq
  <2>2. PICK r \in Reqs : r = etcd.req /\ r <= made
    BY <2>1, BoundsAssumption DEF Reqs
  <2>3. PICK s \in Request : s = etcd.spec
    BY <2>1
  <2>4. PICK q \in Request : q = [s EXCEPT !.reuse = TRUE]
    BY RequestFields, Zenon
  <2>5. /\ req' = [req EXCEPT ![r] = q] /\ rec' = r /\ etcd' = Spec(r, q)
        /\ at' = [at EXCEPT ![r] = "queued"]
    BY <1>4, <2>2, <2>3, <2>4 DEF Restart, Goto
  <2>6. Spec(r, q) \in [req : 0..made, spec : Request]
    BY <2>1, <2>2, Records
  <2>7. EngineOK'
    BY <1>1, <2>5, <2>6 DEF SwitchInv, EngineOK, At
  <2>8. at'[r] = "queued" /\ \A t \in Reqs \ {r} : at'[t] = at[t] /\ req'[t] = req[t]
    BY <2>5 DEF SwitchInv, EngineOK
  <2>9. \A t \in Reqs : StageFits(req'[t].stage, at'[t])
    BY <2>8 DEF SwitchInv, StageFits
  <2>10. \A t \in Reqs : Live(t)' => rec' = t
    BY <1>2, <2>5, <2>8 DEF Live
  <2>11. \A t \in Reqs : t > made' => at'[t] = "none"
    BY <1>1, <2>1, <2>2, <2>8 DEF SwitchInv, Reqs
  <2> QED
    BY <1>1, <2>7, <2>9, <2>10, <2>11 DEF SwitchInv
<1> QED
  BY <1>3, <1>4

-----------------------------------------------------------------------------
(* The theorems                                                            *)

\* The agent starts without requests.
LEMMA InitHolds == ASSUME Init PROVE SwitchInv
<1>1. EngineOK
  BY BoundsAssumption, Records DEF Init, EngineOK, At, NoSpec, Targets
<1> QED
  BY <1>1 DEF Init, SwitchInv, StageFits, Live

\* Every step keeps the invariant, if it is not the failed one.
LEMMA NextHolds ==
    ASSUME SwitchInv, [Next]_vars, ReplacementStoredStep \/ UNCHANGED vars
    PROVE  SwitchInv'
<1>1. CASE UNCHANGED vars
  BY <1>1 DEF vars, engine, core, SwitchInv, EngineOK, Live
<1>2. CASE ReportFailedPath
  BY <1>2, ReportKeeps
<1>3. ASSUME NEW r \in Reqs, RequestStep(r), ReplacementStoredStep PROVE SwitchInv'
  BY <1>3, PickUpKeeps, StartOpKeeps, CompleteOpKeeps, RepublishVolumeKeeps, ReplacePathKeeps,
     RemoveFailedPathKeeps, DestroyTargetsKeeps, DeleteRequestKeeps, ForgetErroredKeeps DEF RequestStep
<1>4. CASE Crash
  BY <1>4, CrashKeeps
<1>5. CASE Restart
  BY <1>5, RestartKeeps
<1>6. CASE PathFails \/ PathRecovers
  BY <1>6 DEF PathFails, PathRecovers, engine, core, SwitchInv, EngineOK, Live
<1> QED
  BY <1>1, <1>2, <1>3, <1>4, <1>5, <1>6 DEF Next

\* At most the request with the entry republishes.
LEMMA InvMeansOne == ASSUME SwitchInv PROVE OneSwitchover
<1> DEFINE S == {r \in Reqs : Live(r) /\ req[r].stage \in {"Init", "RepublishVolume"}}
<1>1. S \subseteq {rec}
  BY DEF SwitchInv, MayRepublish
<1>2. IsFiniteSet({rec}) /\ Cardinality({rec}) = 1
  BY FS_Singleton
<1>3. Cardinality(S) <= Cardinality({rec}) /\ Cardinality(S) \in Nat
  BY <1>1, <1>2, FS_Subset, FS_CardinalityType
<1> QED
  BY <1>2, <1>3 DEF OneSwitchover

\* Two requests never republish the same volume, however store operations fail,
\* processes crash and replies are lost, as long as the store does not fail to
\* record a replaced path: the path is taken off the list before complete_op
\* (remove_failed_path in replace_path), and that failure alone lets the request
\* go back to RepublishVolume beside the next one.
THEOREM SwitchoversAreExclusive ==
    SafetySpec /\ ReplacementStored => []OneSwitchover
<1>1. SafetySpec /\ ReplacementStored => []SwitchInv
  BY InitHolds, NextHolds, PTL DEF SafetySpec, ReplacementStored
<1> QED
  BY <1>1, InvMeansOne, PTL

\* A store which does not fail records every replaced path: a request at
\* complete_op is put back on the queue by a failed complete_op only.
LEMMA StoreStores ==
    ASSUME ~StoreFaults, SwitchInv, [Next]_vars
    PROVE  ReplacementStoredStep
<1> SUFFICES ASSUME NEW r \in Reqs, at[r] = "complete", at'[r] = "queued" PROVE FALSE
  BY DEF ReplacementStoredStep
<1>1. at \in [Reqs -> At]
  BY DEF SwitchInv, EngineOK
<1>2. ASSUME NEW s \in Reqs, NEW l \in At, Goto(s, l) PROVE s = r /\ l = "queued"
  BY <1>1, <1>2 DEF Goto
<1>3. at' # at
  OBVIOUS
<1>4. up
  BY DEF SwitchInv, Live
<1>5. Next
  BY <1>3 DEF vars, engine
<1>6. CASE ReportFailedPath
  <2>1. made < MaxReqs /\ Goto(made + 1, "queued")
    BY <1>3, <1>6, Zenon DEF ReportFailedPath, engine
  <2>2. made + 1 \in Reqs /\ made + 1 > made
    BY <2>1, BoundsAssumption DEF SwitchInv, EngineOK, Reqs
  <2>3. at[made + 1] = "none" /\ made + 1 = r
    BY <1>2, <2>1, <2>2 DEF SwitchInv, At
  <2> QED
    BY <2>3
<1>7. ASSUME NEW s \in Reqs, RequestStep(s) PROVE FALSE
  <2>1. \A q : ~Requeue(s, q) \/ at[s] = "complete"
    BY <1>2 DEF Requeue, At
  <2>2. CASE CompleteOp(s)
    BY <1>2, <2>2 DEF CompleteOp, StoreError, At
  <2>3. CASE PickUp(s)
    BY <1>2, <2>3 DEF PickUp, At
  <2>4. CASE StartOp(s)
    BY <1>2, <2>1, <2>4 DEF StartOp, StoreError, AfterStart, At
  <2>5. CASE RepublishVolume(s)
    BY <1>2, <2>1, <2>5 DEF RepublishVolume, Cancel, At
  <2>6. CASE ReplacePath(s)
    BY <1>2, <2>1, <2>6 DEF ReplacePath, Cancel, At
  <2>7. CASE RemoveFailedPath(s) \/ ForgetErrored(s)
    BY <1>2, <2>7 DEF RemoveFailedPath, ForgetErrored, At
  <2>8. CASE DestroyTargets(s) \/ DeleteRequest(s)
    BY <1>2, <2>1, <2>8 DEF DestroyTargets, DeleteRequest, At
  <2> QED
    BY <1>7, <2>2, <2>3, <2>4, <2>5, <2>6, <2>7, <2>8 DEF RequestStep
<1>8. CASE Crash
  BY <1>8 DEF Crash, Live
<1>9. ~Restart
  BY <1>4 DEF Restart
<1>10. ~PathFails /\ ~PathRecovers
  BY <1>3 DEF PathFails, PathRecovers, engine
<1> QED
  BY <1>5, <1>6, <1>7, <1>8, <1>9, <1>10 DEF Next

\* An agent whose store does not fail never republishes a volume for two
\* requests at once (report_failed_path: "Path is already reported").
THEOREM OneSwitchoverHolds ==
    ASSUME ~StoreFaults
    PROVE  SafetySpec => []OneSwitchover
<1>1. ASSUME SwitchInv, [Next]_vars PROVE SwitchInv'
  BY <1>1, StoreStores, NextHolds
<1> QED
  BY <1>1, InitHolds, InvMeansOne, PTL DEF SafetySpec

-----------------------------------------------------------------------------
(* The stored stage has been reached, and is not behind the one in memory  *)

\* A step of one request keeps the invariant if the request has reached its
\* stage, and what the step stores is not behind it.
LEMMA StoredMoves ==
    ASSUME StoredInv, up, NEW r \in Reqs, Live(r),
           NEW q \in Request, NEW l \in At, l # "none",
           StageReached(r, q)', CallReached(r, q, l)',
           req' = [req EXCEPT ![r] = q], at' = [at EXCEPT ![r] = l],
           NEW e \in [req : 0..made, spec : Request], etcd' = e,
           e = etcd \/ (e.req = r /\ StageReached(r, e.spec)') \/ e.req = NoReq,
           e.req = r /\ q.stage # "Errored" => Rank(e.spec.stage) >= Rank(q.stage),
           rec' \in Reqs \cup {NoReq}, replaced \subseteq replaced',
           up' = up, made' = made, target' \in Targets
    PROVE  StoredInv'
<1>1. EngineOK'
  BY DEF StoredInv, EngineOK
<1>2. /\ req'[r] = q /\ at'[r] = l
      /\ \A s \in Reqs \ {r} : req'[s] = req[s] /\ at'[s] = at[s]
  BY DEF StoredInv, EngineOK
<1>3. \A s \in Reqs : StageReached(s, req[s])' /\ CallReached(s, req[s], at[s])'
  <2>1. \A s \in Reqs : StageReached(s, req[s]) /\ CallReached(s, req[s], at[s])
    BY DEF StoredInv
  <2> QED
    BY <1>2, <2>1 DEF StageReached, CallReached
<1>4. (etcd.req # NoReq => StageReached(etcd.req, etcd.spec))'
  BY DEF StoredInv, StageReached
<1>5. CompletedStagesStay'
  <2> SUFFICES ASSUME NEW s \in Reqs, Live(s)', e.req = s, req'[s].stage # "Errored"
               PROVE  Rank(e.spec.stage) >= Rank(req'[s].stage)
    BY DEF CompletedStagesStay, Live
  <2>1. CASE s = r
    BY <1>2, <2>1
  <2>2. CASE s # r
    <3>1. e = etcd /\ Live(s) /\ req'[s] = req[s]
      BY <1>2, <2>2, BoundsAssumption DEF Live, NoReq, Reqs
    <3> QED
      BY <3>1 DEF StoredInv, CompletedStagesStay
  <2> QED
    BY <2>1, <2>2
<1>6. \A s \in Reqs : s > made' => at'[s] = "none"
  BY <1>2 DEF StoredInv, Live
<1> QED
  BY <1>1, <1>3, <1>4, <1>5, <1>6 DEF StoredInv

\* What the invariant says of a request.
LEMMA StoredFacts ==
    ASSUME StoredInv, NEW r \in Reqs
    PROVE  /\ req[r] \in Request /\ req[r].stage \in Stages
           /\ StageReached(r, req[r]) /\ CallReached(r, req[r], at[r])
           /\ Live(r) /\ etcd.req = r /\ req[r].stage # "Errored" =>
                Rank(etcd.spec.stage) >= Rank(req[r].stage)
           /\ target \in Targets /\ rec \in Reqs \cup {NoReq}
           /\ etcd \in [req : 0..made, spec : Request]
           /\ Live(r) => r <= made
           /\ made \in Nat
<1>1. Live(r) => r <= made
  BY BoundsAssumption DEF StoredInv, EngineOK, Live, Reqs
<1>2. made \in Nat
  BY BoundsAssumption DEF StoredInv, EngineOK
<1>3. req[r] \in Request
  BY DEF StoredInv, EngineOK
<1>4. req[r].stage \in Stages
  BY <1>3, RequestFields, Zenon
<1> QED
  BY <1>1, <1>2, <1>3, <1>4 DEF StoredInv, EngineOK, CompletedStagesStay

\* A step which changes only the place and the list of failed paths.
LEMMA StoredPlaceMoves ==
    ASSUME StoredInv, up, NEW r \in Reqs, Live(r), NEW l \in At, l # "none",
           req' = req, Goto(r, l), etcd' = etcd \/ etcd' = NoSpec \/ etcd' = Spec(r, req[r]),
           replaced \subseteq replaced', CallReached(r, req[r], l)',
           rec' \in Reqs \cup {NoReq}, up' = up, made' = made, target' \in Targets
    PROVE  StoredInv'
<1>1. PICK q \in Request : q = req[r] /\ q.stage \in Stages
  BY StoredFacts
<1>2. req' = [req EXCEPT ![r] = q] /\ at' = [at EXCEPT ![r] = l]
  BY <1>1 DEF Goto, StoredInv, EngineOK
<1>3. StageReached(r, q)'
  BY <1>1, StoredFacts DEF StageReached
<1>4. CallReached(r, q, l)'
  BY <1>1 DEF CallReached
<1>5. PICK e \in [req : 0..made, spec : Request] : e = etcd'
  BY StoredFacts, Records
<1>6. e = etcd \/ (e.req = r /\ e.spec = q) \/ e.req = NoReq
  BY <1>1, <1>5, SpecFields
<1>7. Rank(q.stage) >= Rank(q.stage)
  BY <1>1, RanksAreNumbers
<1>8. e.req = r /\ q.stage # "Errored" => Rank(e.spec.stage) >= Rank(q.stage)
  <2>1. etcd.req = r /\ q.stage # "Errored" => Rank(etcd.spec.stage) >= Rank(q.stage)
    BY <1>1, StoredFacts
  <2>2. r # NoReq
    BY BoundsAssumption DEF NoReq, Reqs
  <2> QED
    BY <1>6, <1>7, <2>1, <2>2
<1>9. e = etcd \/ (e.req = r /\ StageReached(r, e.spec)') \/ e.req = NoReq
  BY <1>3, <1>6 DEF StageReached
<1> QED
  BY <1>2, <1>3, <1>4, <1>5, <1>8, <1>9, StoredMoves, Zenon

\* A request which is put back on the queue.
LEMMA StoredRequeue ==
    ASSUME StoredInv, up, NEW r \in Reqs, Live(r), NEW q \in Request, Requeue(r, q),
           StageReached(r, q), replaced' = replaced,
           NEW e \in [req : 0..made, spec : Request], etcd' = e,
           e = etcd \/ (e.req = r /\ StageReached(r, e.spec)) \/ e.req = NoReq,
           e.req = r /\ q.stage # "Errored" => Rank(e.spec.stage) >= Rank(q.stage),
           rec' = rec, up' = up, made' = made, target' \in Targets
    PROVE  StoredInv'
<1>1. PICK p \in Request :
        /\ p = [q EXCEPT !.retry = IF @ < DeadlineRetries THEN @ + 1 ELSE @]
        /\ p.stage = q.stage /\ p.path = q.path
  BY RetryRequest, Zenon DEF Request
<1>2. req' = [req EXCEPT ![r] = p] /\ at' = [at EXCEPT ![r] = "queued"]
  BY <1>1 DEF Requeue, Goto
<1>3. StageReached(r, p)' /\ CallReached(r, p, "queued")' /\ "queued" \in At
  BY <1>1 DEF StageReached, CallReached, At
<1>4. e = etcd \/ (e.req = r /\ StageReached(r, e.spec)') \/ e.req = NoReq
  BY DEF StageReached
<1>5. rec' \in Reqs \cup {NoReq}
  BY StoredFacts
<1>6. e.req = r /\ p.stage # "Errored" => Rank(e.spec.stage) >= Rank(p.stage)
  BY <1>1
<1> QED
  BY <1>2, <1>3, <1>4, <1>5, <1>6, StoredMoves, Zenon

\* A failed start_op or delete_request repeats the stage.
LEMMA StoredRepeats ==
    ASSUME StoredInv, up, NEW r \in Reqs, Live(r), Requeue(r, req[r]),
           etcd' = etcd \/ etcd' = NoSpec \/ etcd' = Spec(r, req[r]),
           replaced' = replaced, rec' = rec, up' = up, made' = made, target' \in Targets
    PROVE  StoredInv'
<1>1. PICK q \in Request : q = req[r] /\ q.stage \in Stages
  BY StoredFacts
<1>2. PICK e \in [req : 0..made, spec : Request] : e = etcd'
  BY StoredFacts, Records
<1>3. e = etcd \/ (e.req = r /\ e.spec = q) \/ e.req = NoReq
  BY <1>1, <1>2, SpecFields
<1>4. Rank(q.stage) >= Rank(q.stage)
  BY <1>1, RanksAreNumbers
<1>5. e.req = r /\ q.stage # "Errored" => Rank(e.spec.stage) >= Rank(q.stage)
  <2>1. etcd.req = r /\ q.stage # "Errored" => Rank(etcd.spec.stage) >= Rank(q.stage)
    BY <1>1, StoredFacts
  <2>2. r # NoReq
    BY BoundsAssumption DEF NoReq, Reqs
  <2> QED
    BY <1>3, <1>4, <2>1, <2>2
<1>6. StageReached(r, q) /\ (e.req = r /\ e.spec = q => StageReached(r, e.spec))
  BY <1>1, StoredFacts
<1> QED
  BY <1>1, <1>2, <1>3, <1>5, <1>6, StoredRequeue

\* start_op stores the stage which the request is at.
LEMMA StartOpStores == ASSUME StoredInv, NEW r \in Reqs, StartOp(r) PROVE StoredInv'
<1>1. /\ up /\ Live(r) /\ at[r] = "start"
      /\ rec' = rec /\ up' = up /\ made' = made /\ target' = target /\ replaced' = replaced
  BY DEF StartOp, Live, core
<1>2. etcd' = etcd \/ etcd' = Spec(r, req[r])
  BY DEF StartOp, StoreError
<1>3. CASE Goto(r, AfterStart(req[r].stage)) /\ req' = req
  <2>1. PICK l \in At : l = AfterStart(req[r].stage) /\ l # "none"
                        /\ CallReached(r, req[r], l)
    BY StoredFacts DEF AfterStart, At, CallReached
  <2>2. CallReached(r, req[r], l)'
    BY <1>1, <1>3, <2>1 DEF CallReached
  <2> QED
    BY <1>1, <1>2, <1>3, <2>1, <2>2, StoredFacts, StoredPlaceMoves
<1>4. CASE Requeue(r, req[r])
  BY <1>1, <1>2, <1>4, StoredFacts, StoredRepeats, Zenon
<1> QED
  BY <1>3, <1>4 DEF StartOp

\* complete_op stores the next stage once the call of this one is over, and the
\* request moves on only if it was stored.
LEMMA CompleteOpStores == ASSUME StoredInv, NEW r \in Reqs, CompleteOp(r) PROVE StoredInv'
<1>1. /\ up /\ Live(r) /\ at[r] = "complete"
      /\ rec' = rec /\ up' = up /\ made' = made /\ target' = target /\ replaced' = replaced
  BY DEF CompleteOp, Live, core
<1>2. PICK q \in Request :
        /\ q = req[r] /\ StageReached(r, q) /\ CallReached(r, q, "complete")
        /\ q.stage \in {"Init", "RepublishVolume", "ReplacePath", "DeleteTarget"}
  BY <1>1, StoredFacts, StageNames DEF CallReached
<1>3. PICK s \in Stages : s = NextStage(q.stage)
  BY <1>2, StageOrder, StageNames
<1>4. PICK p \in Request : p = [q EXCEPT !.stage = s] /\ p.stage = s /\ p.path = q.path
  BY RequestFields, Zenon DEF Request
<1>5. StageReached(r, p)
  BY <1>2, <1>3, <1>4, StageOrder DEF StageReached, CallReached
<1>6. Rank(s) >= Rank(s) /\ Rank(s) >= Rank(q.stage) /\ s # "Errored" /\ q.stage # "Errored"
  <2>1. \/ q.stage = "Init" /\ s = "RepublishVolume"
        \/ q.stage = "RepublishVolume" /\ s = "ReplacePath"
        \/ q.stage = "ReplacePath" /\ s = "DeleteTarget"
        \/ q.stage = "DeleteTarget" /\ s = "Successful"
    BY <1>2, <1>3, StageOrder
  <2>2. Rank(s) >= Rank(s) /\ Rank(s) >= Rank(q.stage)
    BY <2>1, Ranks
  <2> QED
    BY <2>1, <2>2
<1>7. PICK n \in [req : 0..made, spec : Request] : n = Spec(r, p) /\ n.req = r /\ n.spec = p
  <2>1. made \in Nat /\ r <= made
    BY <1>1, StoredFacts
  <2>2. Spec(r, p) \in [req : 0..made, spec : Request]
    BY <2>1, Records
  <2>3. Spec(r, p).req = r /\ Spec(r, p).spec = p
    BY DEF Spec
  <2> QED
    BY <2>2, <2>3
<1>8. CASE etcd' = n /\ req' = [req EXCEPT ![r] = [p EXCEPT !.retry = 0]] /\ Goto(r, "start")
  <2>1. 0 \in 0..DeadlineRetries
    BY BoundsAssumption
  <2>2. PICK z \in Request : z = [p EXCEPT !.retry = 0] /\ z.stage = s /\ z.path = p.path
    <3>1. [p EXCEPT !.retry = 0] \in Request /\ [p EXCEPT !.retry = 0].stage = p.stage
      BY <2>1, RequestFields, Zenon
    <3>2. [p EXCEPT !.retry = 0].path = p.path
      BY DEF Request
    <3> QED
      BY <1>4, <3>1, <3>2, Zenon
  <2>3. StageReached(r, z)' /\ CallReached(r, z, "start")' /\ StageReached(r, n.spec)' /\ "start" \in At
    BY <1>1, <1>4, <1>5, <1>7, <2>2, Zenon DEF StageReached, CallReached, At
  <2> QED
    <3>1. req' = [req EXCEPT ![r] = z] /\ at' = [at EXCEPT ![r] = "start"] /\ etcd' = n
      BY <1>8, <2>2 DEF Goto
    <3>2. Rank(n.spec.stage) >= Rank(z.stage)
      BY <1>4, <1>6, <1>7, <2>2, Zenon
    <3> QED
      BY <1>1, <1>7, <2>3, <3>1, <3>2, StoredFacts, StoredMoves, Zenon
<1>9. CASE etcd' = etcd /\ Requeue(r, q)
  BY <1>1, <1>2, <1>9, StoredFacts, StoredRepeats
<1>10. CASE etcd' = n /\ Requeue(r, q)
  <2>1. StageReached(r, n.spec) /\ Rank(n.spec.stage) >= Rank(q.stage)
    BY <1>4, <1>5, <1>6, <1>7, Zenon
  <2> QED
    BY <1>1, <1>2, <1>7, <1>10, <2>1, StoredFacts, StoredRequeue
<1>11. p = [req[r] EXCEPT !.stage = NextStage(@)]
  BY <1>2, <1>3, <1>4
<1> QED
  BY <1>2, <1>7, <1>8, <1>9, <1>10, <1>11 DEF CompleteOp, StoreError

\* republish_volume completes with a path, or stays at its stage.
LEMMA RepublishVolumeStores ==
    ASSUME StoredInv, NEW r \in Reqs, RepublishVolume(r) PROVE StoredInv'
<1>1. /\ up /\ Live(r) /\ at[r] = "call" /\ req[r].stage = "RepublishVolume"
      /\ rec' = rec /\ etcd' = etcd /\ up' = up /\ made' = made /\ replaced' = replaced
  BY DEF RepublishVolume, Live
<1>2. target' \in Targets
  BY StoredFacts DEF RepublishVolume, Republish, core
<1>3. PICK q \in Request : q = req[r] /\ q.stage = "RepublishVolume"
  BY <1>1, StoredFacts
<1>4. etcd.req = r => Rank(etcd.spec.stage) >= Rank("RepublishVolume")
  BY <1>1, StoredFacts
<1>5. PICK e \in [req : 0..made, spec : Request] : e = etcd
  BY StoredFacts
<1>6. CASE req' = [req EXCEPT ![r].path = target'] /\ Goto(r, "complete")
  <2>1. PICK t \in Targets : t = target' /\ t # NoPath
    BY <1>2 DEF Targets, NoPath
  <2>2. PICK p \in Request : p = [q EXCEPT !.path = t] /\ p.stage = q.stage /\ p.path = t
    BY WithPath, Zenon
  <2>3. req' = [req EXCEPT ![r] = p]
    BY <1>3, <1>6, <2>1, <2>2
  <2>4. StageReached(r, p)' /\ CallReached(r, p, "complete")' /\ "complete" \in At
    BY <1>3, <2>1, <2>2 DEF StageReached, CallReached, At
  <2> QED
    <3>1. at' = [at EXCEPT ![r] = "complete"] /\ etcd' = e
      BY <1>1, <1>5, <1>6 DEF Goto
    <3>2. e.req = r => Rank(e.spec.stage) >= Rank(p.stage)
      BY <1>3, <1>4, <1>5, <2>2
    <3>3. rec' \in Reqs \cup {NoReq}
      BY <1>1, StoredFacts
    <3> QED
      BY <1>1, <1>2, <1>5, <2>3, <2>4, <3>1, <3>2, <3>3, StoredMoves, Zenon
<1>7. ASSUME NEW p \in Request, Requeue(r, p), p.stage \in {"RepublishVolume", "Errored"}
      PROVE  StoredInv'
  <2>1. StageReached(r, p)
    BY <1>7 DEF StageReached
  <2> QED
    BY <1>1, <1>2, <1>4, <1>5, <1>7, <2>1, StoredRequeue
<1>8. [q EXCEPT !.stage = "Errored"] \in Request /\ [q EXCEPT !.stage = "Errored"].stage = "Errored"
  BY WithStage, StageNames, Zenon
<1>9. [q EXCEPT !.path = NoPath] \in Request /\ [q EXCEPT !.path = NoPath].stage = q.stage
  BY WithPath
<1> QED
  BY <1>3, <1>6, <1>7, <1>8, <1>9, Zenon DEF RepublishVolume, Cancel

\* replace_path goes on once the path is replaced, or to an earlier stage.
LEMMA ReplacePathStores ==
    ASSUME StoredInv, NEW r \in Reqs, ReplacePath(r) PROVE StoredInv'
<1>1. /\ up /\ Live(r) /\ at[r] = "call" /\ req[r].stage = "ReplacePath"
      /\ rec' = rec /\ etcd' = etcd /\ up' = up /\ made' = made /\ target' = target
  BY DEF ReplacePath, Live, core
<1>2. PICK q \in Request : q = req[r] /\ q.stage = "ReplacePath" /\ q.path # NoPath
  BY <1>1, StoredFacts DEF StageReached
<1>3. etcd.req = r => Rank(etcd.spec.stage) >= 3
  BY <1>1, StoredFacts, Ranks
<1>4. PICK e \in [req : 0..made, spec : Request] : e = etcd
  BY StoredFacts
<1>5. CASE Goto(r, "unlist") /\ req' = req /\ replaced' = replaced \cup {r}
  <2>1. CallReached(r, req[r], "unlist")' /\ "unlist" \in At
    BY <1>1, <1>5 DEF CallReached, At
  <2> QED
    BY <1>1, <1>5, <2>1, StoredFacts, StoredPlaceMoves
<1>6. ASSUME NEW p \in Request, Requeue(r, p), replaced' = replaced,
             \/ p.stage \in {"RepublishVolume", "Errored"}
             \/ p.stage = "ReplacePath" /\ p.path # NoPath
      PROVE  StoredInv'
  <2>1. StageReached(r, p)
    BY <1>6 DEF StageReached
  <2>2. e.req = r /\ p.stage # "Errored" => Rank(e.spec.stage) >= Rank(p.stage)
    <3>1. CASE p.stage = "Errored"
      BY <3>1
    <3>2. CASE p.stage = "ReplacePath"
      BY <1>3, <1>4, <3>2, Ranks
    <3>3. CASE p.stage = "RepublishVolume"
      <4>1. e.spec.stage \in Stages
        BY RequestFields, Zenon
      <4> QED
        BY <1>3, <1>4, <3>3, <4>1, RanksAreNumbers, Ranks
    <3> QED
      BY <1>6, <3>1, <3>2, <3>3
  <2> QED
    BY <1>1, <1>4, <1>6, <2>1, <2>2, StoredFacts, StoredRequeue
<1>7. PICK p \in Request : p = [q EXCEPT !.reuse = ~@]
  BY RequestFields, Zenon
<1>8. /\ [q EXCEPT !.stage = "Errored"] \in Request /\ [p EXCEPT !.stage = "RepublishVolume"] \in Request
      /\ [q EXCEPT !.stage = "Errored"].stage = "Errored"
      /\ [p EXCEPT !.stage = "RepublishVolume"].stage = "RepublishVolume"
  BY WithStage, StageNames, Zenon
<1> QED
  BY <1>2, <1>5, <1>6, <1>7, <1>8, Zenon DEF ReplacePath, Cancel

\* The steps which store nothing.
LEMMA OtherStepsStore ==
    ASSUME StoredInv, NEW r \in Reqs, PickUp(r) \/ RemoveFailedPath(r) \/ ForgetErrored(r)
    PROVE  StoredInv'
<1>1. /\ up /\ Live(r) /\ req' = req /\ etcd' = etcd /\ up' = up /\ made' = made
      /\ target' = target /\ replaced' = replaced
  BY DEF PickUp, RemoveFailedPath, ForgetErrored, Live, core
<1>2. rec' \in Reqs \cup {NoReq}
  BY StoredFacts DEF PickUp, RemoveFailedPath, ForgetErrored
<1>3. PICK l \in At : l # "none" /\ Goto(r, l) /\ CallReached(r, req[r], l)
  BY StoredFacts DEF PickUp, RemoveFailedPath, ForgetErrored, CallReached, At
<1>4. CallReached(r, req[r], l)'
  BY <1>1, <1>3 DEF CallReached
<1> QED
  BY <1>1, <1>2, <1>3, <1>4, StoredFacts, StoredPlaceMoves

\* The targets and the record are deleted after the path was replaced, or in Errored.
LEMMA DeletionsStore ==
    ASSUME StoredInv, NEW r \in Reqs, DestroyTargets(r) \/ DeleteRequest(r)
    PROVE  StoredInv'
<1>1. /\ up /\ Live(r) /\ rec' = rec /\ up' = up /\ made' = made
      /\ target' = target /\ replaced' = replaced /\ (etcd' = etcd \/ etcd' = NoSpec)
  BY DEF DestroyTargets, DeleteRequest, StoreError, Live, core
<1>2. CASE Requeue(r, req[r])
  BY <1>1, <1>2, StoredFacts, StoredRepeats
<1>3. CASE ~Requeue(r, req[r])
  <2>1. req' = req
    BY <1>3, Zenon DEF DestroyTargets, DeleteRequest
  <2>2. PICK l \in At : l # "none" /\ Goto(r, l) /\ CallReached(r, req[r], l)
    BY <1>3, Zenon DEF DestroyTargets, DeleteRequest, CallReached, At
  <2>3. CallReached(r, req[r], l)'
    BY <1>1, <2>1, <2>2 DEF CallReached
  <2> QED
    BY <1>1, <2>1, <2>2, <2>3, StoredFacts, StoredPlaceMoves
<1> QED
  BY <1>2, <1>3

\* A step which leaves the engine as it is.
LEMMA EngineUnchanged ==
    ASSUME StoredInv, UNCHANGED engine, target' = target, replaced' = replaced
    PROVE  StoredInv'
<1>1. req' = req /\ at' = at /\ rec' = rec /\ etcd' = etcd /\ up' = up /\ made' = made
  BY DEF engine
<1>2. EngineOK'
  BY <1>1 DEF StoredInv, EngineOK
<1>3. \A s \in Reqs : StageReached(s, req[s])' /\ CallReached(s, req[s], at[s])'
  <2>1. \A s \in Reqs : StageReached(s, req[s]) /\ CallReached(s, req[s], at[s])
    BY Zenon DEF StoredInv
  <2> QED
    BY <1>1, <2>1 DEF StageReached, CallReached
<1>4. (etcd.req # NoReq => StageReached(etcd.req, etcd.spec))'
  <2>1. etcd.req # NoReq => StageReached(etcd.req, etcd.spec)
    BY Zenon DEF StoredInv
  <2> QED
    BY <1>1, <2>1 DEF StageReached
<1>5. CompletedStagesStay'
  <2>1. CompletedStagesStay
    BY Zenon DEF StoredInv
  <2> QED
    BY <1>1, <2>1 DEF CompletedStagesStay, Live
<1> QED
  BY <1>1, <1>2, <1>3, <1>4, <1>5, Zenon DEF StoredInv, Live

\* A report stores the request as it is made.
LEMMA ReportStores == ASSUME StoredInv, ReportFailedPath PROVE StoredInv'
<1>1. up /\ up' = up /\ req' = req /\ target' = target /\ replaced' = replaced
  BY Zenon DEF ReportFailedPath, engine, core
<1>2. CASE UNCHANGED engine
  BY <1>1, <1>2, EngineUnchanged
<1>3. CASE made < MaxReqs /\ made' = made + 1
  <2>1. made + 1 \in Reqs /\ made' \in 0..MaxReqs /\ made \in 0..MaxReqs
    BY <1>3, BoundsAssumption DEF StoredInv, EngineOK, Reqs
  <2>2. PICK r \in Reqs : r = made + 1
    BY <2>1
  <2>3. req[r] \in Request /\ StageReached(r, req[r]) /\ req[r].stage \in Stages
    BY StoredFacts
  <2>4. PICK n \in [req : 0..made', spec : Request] : n = Spec(r, req[r]) /\ n.req = r /\ n.spec = req[r]
    <3>1. made' \in Nat /\ r <= made'
      BY <1>3, <2>1, <2>2 DEF Reqs
    <3>2. Spec(r, req[r]) \in [req : 0..made', spec : Request]
      BY <2>3, <3>1, Records
    <3> QED
      BY <3>2, Zenon DEF Spec
  <2>5. etcd \in [req : 0..made', spec : Request]
    <3>1. etcd \in [req : 0..made, spec : Request] /\ 0..made \subseteq 0..made'
      BY <1>3, <2>1 DEF StoredInv, EngineOK
    <3> QED
      BY <3>1
  <2>6. /\ etcd' = n \/ etcd' = etcd
        /\ \/ at' = at /\ rec' = rec
           \/ at' = [at EXCEPT ![r] = "queued"] /\ rec' = r /\ etcd' = n
    BY <1>3, <2>2, <2>4, Zenon DEF ReportFailedPath, StoreError, Goto, engine
  <2>7. /\ \A s \in Reqs \ {r} : at'[s] = at[s]
        /\ at'[r] = at[r] \/ (at'[r] = "queued" /\ etcd' = n)
        /\ at' \in [Reqs -> At]
    BY <2>6 DEF StoredInv, EngineOK, At
  <2>8. EngineOK'
    BY <1>1, <2>1, <2>4, <2>5, <2>6, <2>7 DEF StoredInv, EngineOK
  <2>9. \A s \in Reqs : StageReached(s, req[s])' /\ CallReached(s, req[s], at[s])'
    BY <1>1, <2>7, StoredFacts DEF StageReached, CallReached
  <2>10. (etcd.req # NoReq => StageReached(etcd.req, etcd.spec))'
    BY <1>1, <2>3, <2>4, <2>6 DEF StoredInv, StageReached
  <2>11. CompletedStagesStay'
    <3> SUFFICES ASSUME NEW s \in Reqs, Live(s)', etcd'.req = s, req[s].stage # "Errored"
                 PROVE  Rank(etcd'.spec.stage) >= Rank(req[s].stage)
      BY <1>1 DEF CompletedStagesStay, Live
    <3>1. CASE etcd' = n
      BY <2>3, <2>4, <3>1, RanksAreNumbers
    <3>2. CASE etcd' # n
      <4>1. etcd' = etcd /\ Live(s)
        BY <2>6, <2>7, <3>2 DEF Live
      <4> QED
        BY <4>1, StoredFacts
    <3> QED
      BY <3>1, <3>2
  <2>12. \A s \in Reqs : s > made' => at'[s] = "none"
    BY <1>3, <2>1, <2>2, <2>7 DEF StoredInv, Reqs
  <2> QED
    BY <1>1, <2>8, <2>9, <2>10, <2>11, <2>12, Zenon DEF StoredInv
<1> QED
  BY <1>2, <1>3, Zenon DEF ReportFailedPath

\* A crash leaves the store as it is.
LEMMA CrashStores == ASSUME StoredInv, Crash PROVE StoredInv'
<1>1. /\ req' = req /\ etcd' = etcd /\ made' = made /\ target' = target /\ replaced' = replaced
      /\ rec' = NoReq /\ up' = FALSE
      /\ at' = [r \in Reqs |-> IF Live(r) THEN "done" ELSE at[r]]
  BY DEF Crash, core
<1>2. \A r \in Reqs : at'[r] = (IF Live(r) THEN "done" ELSE at[r])
  BY <1>1
<1>3. \A r \in Reqs : at'[r] \in {"none", "done"}
  BY <1>2 DEF Live
<1>4. EngineOK'
  BY <1>1, <1>3, Zenon DEF StoredInv, EngineOK, At
<1>5. \A r \in Reqs : StageReached(r, req[r])' /\ CallReached(r, req[r], at[r])'
  BY <1>1, <1>3, StoredFacts DEF StageReached, CallReached
<1>6. \A r \in Reqs : r > made' => at'[r] = "none"
  BY <1>1, <1>2 DEF StoredInv, Live
<1>7. (etcd.req # NoReq => StageReached(etcd.req, etcd.spec))'
  BY <1>1 DEF StoredInv, StageReached
<1> QED
  BY <1>3, <1>4, <1>5, <1>6, <1>7 DEF StoredInv, CompletedStagesStay, Live

\* The restarted agent takes the request at the stage that is stored.
LEMMA RestartStores == ASSUME StoredInv, Restart PROVE StoredInv'
<1>1. ~up /\ up' = TRUE /\ made' = made /\ target' = target /\ replaced' = replaced
  BY DEF Restart, core
<1>2. \A s \in Reqs : ~Live(s)
  BY <1>1 DEF StoredInv
<1>3. CASE etcd.req = NoReq
  <2>1. UNCHANGED <<req, at, rec, etcd>>
    BY <1>3 DEF Restart
  <2> QED
    BY <1>1, <1>2, <2>1 DEF StoredInv, EngineOK, CompletedStagesStay, StageReached, CallReached, Live
<1>4. CASE etcd.req # NoReq
  <2>1. etcd.req \in 1..made /\ etcd.spec \in Request /\ made \in 0..MaxReqs
    BY <1>4 DEF StoredInv, EngineOK, NoReq
  <2>2. PICK r \in Reqs : r = etcd.req /\ r <= made
    BY <2>1, BoundsAssumption DEF Reqs
  <2>3. PICK s \in Request : s = etcd.spec /\ StageReached(r, s)
    BY <1>4, <2>1, <2>2 DEF StoredInv
  <2>4. PICK q \in Request : /\ q = [s EXCEPT !.reuse = TRUE] /\ q.stage = s.stage
                             /\ q.path = s.path /\ q.stage \in Stages
    <3>1. [s EXCEPT !.reuse = TRUE] \in Request /\ [s EXCEPT !.reuse = TRUE].stage = s.stage
      BY RequestFields, Zenon
    <3>2. [s EXCEPT !.reuse = TRUE].path = s.path /\ s.stage \in Stages
      BY DEF Request
    <3> QED
      BY <3>1, <3>2, Zenon
  <2>5. /\ req' = [req EXCEPT ![r] = q] /\ rec' = r /\ etcd' = Spec(r, q)
        /\ at' = [at EXCEPT ![r] = "queued"]
    BY <1>4, <2>2, <2>3, <2>4 DEF Restart, Goto
  <2>6. Spec(r, q) \in [req : 0..made, spec : Request] /\ etcd'.req = r /\ etcd'.spec = q
    <3>1. made \in Nat
      BY <2>1, BoundsAssumption
    <3>2. Spec(r, q) \in [req : 0..made, spec : Request]
      BY <2>2, <3>1, Records
    <3> QED
      BY <2>5, <3>2, SpecFields
  <2>7. EngineOK'
    BY <1>1, <2>5, <2>6 DEF StoredInv, EngineOK, At
  <2>8. /\ at'[r] = "queued" /\ req'[r] = q
        /\ \A t \in Reqs \ {r} : at'[t] = at[t] /\ req'[t] = req[t]
    BY <2>5 DEF StoredInv, EngineOK
  <2>9. \A t \in Reqs : StageReached(t, req[t])' /\ CallReached(t, req[t], at[t])'
    <3>1. StageReached(r, q)'
      BY <1>1, <2>3, <2>4 DEF StageReached
    <3>2. \A t \in Reqs : StageReached(t, req[t]) /\ CallReached(t, req[t], at[t])
      BY DEF StoredInv
    <3>3. \A t \in Reqs \ {r} : StageReached(t, req[t])' /\ CallReached(t, req[t], at[t])'
      BY <1>1, <2>8, <3>2 DEF StageReached, CallReached
    <3>4. StageReached(r, req[r])' /\ CallReached(r, req[r], at[r])'
      BY <2>8, <3>1 DEF StageReached, CallReached
    <3> QED
      BY <3>3, <3>4
  <2>10. (etcd.req # NoReq => StageReached(etcd.req, etcd.spec))'
    BY <1>1, <2>3, <2>4, <2>6 DEF StageReached
  <2>11. CompletedStagesStay'
    <3>1. Rank(q.stage) >= Rank(q.stage)
      BY <2>4, RanksAreNumbers
    <3>2. \A t \in Reqs : etcd'.req = t => req'[t] = q /\ etcd'.spec = q
      BY <2>6, <2>8
    <3> QED
      BY <3>1, <3>2 DEF CompletedStagesStay
  <2>12. \A t \in Reqs : t > made' => at'[t] = "none"
    BY <1>1, <2>1, <2>2, <2>8 DEF StoredInv, Reqs
  <2> QED
    BY <1>1, <2>7, <2>9, <2>10, <2>11, <2>12, Zenon DEF StoredInv
<1> QED
  BY <1>3, <1>4

\* What a crash can find in the store is a stage which the request has reached
\* and not one behind it: a request stored beyond ReplacePath has replaced its
\* path, one stored at ReplacePath has a path to send, and a restarted agent
\* repeats the stage that was interrupted, never one that had been completed
\* (start_op, complete_op), for any number of requests and of failures of the store.
THEOREM StoredStagesHold == SafetySpec => [](StoredStageIsReached /\ CompletedStagesStay)
<1>1. ASSUME Init PROVE StoredInv
  <2>1. EngineOK
    BY <1>1, InitHolds DEF SwitchInv
  <2> QED
    BY <1>1, <2>1 DEF Init, StoredInv, CompletedStagesStay, StageReached, CallReached, Live,
                      NewRequest, NoSpec, Spec
<1>2. ASSUME StoredInv, [Next]_vars PROVE StoredInv'
  <2>1. CASE UNCHANGED vars
    BY <1>2, <2>1, EngineUnchanged, Zenon DEF vars, core
  <2>2. CASE \E r \in Reqs : RequestStep(r)
    BY <1>2, <2>2, OtherStepsStore, StartOpStores, CompleteOpStores, RepublishVolumeStores,
       ReplacePathStores, DeletionsStore DEF RequestStep
  <2>3. CASE PathFails \/ PathRecovers
    BY <1>2, <2>3, EngineUnchanged, Zenon DEF PathFails, PathRecovers, core
  <2> QED
    BY <1>2, <2>1, <2>2, <2>3, ReportStores, CrashStores, RestartStores DEF Next
<1>3. ASSUME StoredInv PROVE StoredStageIsReached /\ CompletedStagesStay
  BY <1>3, Zenon DEF StoredInv, StoredStageIsReached, StageReached
<1> QED
  BY <1>1, <1>2, <1>3, PTL DEF SafetySpec
=============================================================================
