------------------------------ MODULE Watches ------------------------------
(***************************************************************************)
(* The watches a client of the control plane sets on a resource            *)
(* (core/watch): a worker per watch listens for changes of the resource's  *)
(* key in the persistent store and calls the client back.                  *)
(*                                                                         *)
(* There is one resource; its values are numbered, 0 is no value.  The     *)
(* client is called back without a value and reads the resource itself.    *)
(* Requests are served one at a time, under the lock of StoreWatch.        *)
(***************************************************************************)
EXTENDS Naturals, Sequences, FiniteSets

CONSTANTS Workers,   \* bound: watches created, one worker each (1..n)
          Callbacks, \* callback URIs
          MaxValue,  \* bound: changes of the resource
          MaxFaults  \* bound: lost connections, failed calls, restarts

VARIABLES
  value,   \* of the resource in the store
  version, \* the last value given
  online,  \* the store answers
  watches, \* WatchCfg::watches, the workers of the watches
  worker,  \* the tasks
  req,     \* the create request being served
  told,    \* the value when the client last read the resource
  late,    \* calls to the client after its watch was deleted
  faults

watchVars == <<value, version, online, watches, worker, req, told, late, faults>>

\* The value last seen by a worker which has seen none.
NoneSeen == MaxValue + 1

NoWorker == [is |-> "none", uri |-> "none", lost |-> FALSE, events |-> <<>>,
             last_seen |-> NoneSeen, cancelled |-> FALSE]
NoReq == [is |-> "idle", uri |-> "none", worker |-> 0]

TypeOK ==
  /\ {value, version} \subseteq 0..MaxValue /\ online \in BOOLEAN
  /\ watches \subseteq Workers /\ told \in [Workers -> 0..MaxValue] /\ late \in [Workers -> Nat]
  /\ \A w \in Workers :
       /\ worker[w].is \in {"none", "listen", "notify", "call", "reconnect", "read", "ended"}
       /\ worker[w].uri \in Callbacks \cup {"none"}
       /\ worker[w].events \in Seq(0..MaxValue) /\ worker[w].last_seen \in 0..NoneSeen
       /\ worker[w].lost \in BOOLEAN /\ worker[w].cancelled \in BOOLEAN
  /\ req.is \in {"idle", "watch", "record"} /\ req.uri \in Callbacks \cup {"none"}
  /\ req.worker \in Workers \cup {0}
  /\ \A v, w \in watches : worker[v].uri = worker[w].uri => v = w

Init ==
  /\ value = 1 /\ version = 1 /\ online = TRUE /\ watches = {} /\ req = NoReq
  /\ worker = [w \in Workers |-> NoWorker] /\ told = [w \in Workers |-> 0]
  /\ late = [w \in Workers |-> 0] /\ faults = 0

Set(w, field, v) == worker' = [worker EXCEPT ![w][field] = v]
Goes(w, step) == Set(w, "is", step)

(***************************************************************************)
(* The requests.                                                           *)
(***************************************************************************)
\* add: the watch is new and the resource exists.
CreateWatch(u) ==
  /\ req = NoReq /\ \A w \in watches : worker[w].uri # u
  /\ online /\ value # 0
  /\ \E w \in Workers :
       /\ {v \in Workers : worker[v].is = "none"} = {v \in Workers : v >= w}
       /\ req' = [is |-> "watch", uri |-> u, worker |-> w]
  /\ UNCHANGED <<value, version, online, watches, worker, told, late, faults>>

\* watch: the worker is started before the watch is recorded.
StartWorker ==
  /\ req.is = "watch"
  /\ IF online
       THEN /\ worker' = [worker EXCEPT ![req.worker] = [NoWorker EXCEPT !.is = "listen", !.uri = req.uri]]
            /\ req' = [req EXCEPT !.is = "record"]
       ELSE req' = NoReq /\ UNCHANGED worker
  /\ UNCHANGED <<value, version, online, watches, told, late, faults>>

\* The watch is recorded, and the client told that it has it.
Record ==
  /\ req.is = "record" /\ online
  /\ watches' = watches \cup {req.worker} /\ told' = [told EXCEPT ![req.worker] = value]
  /\ req' = NoReq
  /\ UNCHANGED <<value, version, online, worker, late, faults>>

\* put_obj fails: the handle of the worker is dropped.
RecordFails ==
  /\ req.is = "record" /\ (~online \/ faults < MaxFaults)
  /\ faults' = IF online THEN faults + 1 ELSE faults
  /\ Set(req.worker, "cancelled", TRUE)
  /\ req' = NoReq
  /\ UNCHANGED <<value, version, online, watches, told, late>>

\* del: the handle is dropped.
DeleteWatch(w) ==
  /\ req = NoReq /\ w \in watches
  /\ watches' = watches \ {w} /\ Set(w, "cancelled", TRUE)
  /\ UNCHANGED <<value, version, online, req, told, late, faults>>

(***************************************************************************)
(* A worker.                                                               *)
(***************************************************************************)
\* watch_worker: the select takes the cancellation or an event, if both are there.
Cancelled(w) ==
  /\ worker[w].is = "listen" /\ worker[w].cancelled
  /\ Goes(w, "ended")
  /\ UNCHANGED <<value, version, online, watches, req, told, late, faults>>

Event(w) ==
  /\ worker[w].is = "listen" /\ worker[w].events # <<>>
  /\ LET v == Head(worker[w].events)
     IN worker' = [worker EXCEPT ![w].events = Tail(@),
                                 ![w].last_seen = IF v = 0 THEN @ ELSE v,
                                 ![w].is = IF v = 0 THEN "ended" ELSE "notify"]
  /\ UNCHANGED <<value, version, online, watches, req, told, late, faults>>

StreamEnds(w) ==
  /\ worker[w].is = "listen" /\ worker[w].events = <<>> /\ worker[w].lost
  /\ Goes(w, "reconnect")
  /\ UNCHANGED <<value, version, online, watches, req, told, late, faults>>

\* notify: a cancelled watch is not called back, but a call is not interrupted.
MutNotify(w) ==
  /\ worker[w].is = "notify"
  /\ Goes(w, "call")
  /\ UNCHANGED <<value, version, online, watches, req, told, late, faults>>

Notify(w) ==
  /\ worker[w].is = "notify"
  /\ Goes(w, IF worker[w].cancelled THEN "listen" ELSE "call")
  /\ UNCHANGED <<value, version, online, watches, req, told, late, faults>>

Called(w) ==
  /\ worker[w].is = "call"
  /\ Goes(w, "listen") /\ told' = [told EXCEPT ![w] = value]
  /\ late' = [late EXCEPT ![w] = IF worker[w].cancelled THEN @ + 1 ELSE @]
  /\ UNCHANGED <<value, version, online, watches, req, faults>>

NotCalled(w) ==
  /\ worker[w].is = "call" /\ faults < MaxFaults
  /\ Goes(w, "notify") /\ faults' = faults + 1
  /\ UNCHANGED <<value, version, online, watches, req, told, late>>

\* reconnect_watch: when the store is back the watch is issued again.
Rewatch(w) ==
  /\ worker[w].is = "reconnect" /\ ~worker[w].cancelled /\ online
  /\ worker' = [worker EXCEPT ![w].is = "read", ![w].lost = FALSE, ![w].events = <<>>]
  /\ UNCHANGED <<value, version, online, watches, req, told, late, faults>>

\* The watch cannot be issued, or was cancelled: the worker ends.
RewatchFails(w) ==
  /\ worker[w].is = "reconnect"
  /\ \/ worker[w].cancelled /\ UNCHANGED faults
     \/ ~worker[w].cancelled /\ online /\ faults < MaxFaults /\ faults' = faults + 1
  /\ Goes(w, "ended")
  /\ UNCHANGED <<value, version, online, watches, req, told, late>>

\* "we can't know if we missed any event so just compare the latest with last seen"
Missed(w, v) == v # worker[w].last_seen

\* The value is read after the watch was issued; a read which fails counts as
\* the value 0.
Read(w) ==
  /\ worker[w].is = "read"
  /\ LET v == IF online THEN value ELSE 0
     IN IF online /\ v = 0 THEN Goes(w, "ended")
        ELSE worker' = [worker EXCEPT ![w].last_seen = v,
                                      ![w].is = IF Missed(w, v) THEN "notify" ELSE "listen"]
  /\ UNCHANGED <<value, version, online, watches, req, told, late, faults>>

(***************************************************************************)
(* The store.                                                              *)
(***************************************************************************)
Listening(w) ==
  worker[w].is \in {"listen", "notify", "call", "read"} /\ ~worker[w].lost

\* The resource is written or removed.
Change(v) ==
  /\ version < MaxValue
  /\ value' = v /\ version' = version + 1
  /\ worker' = [w \in Workers |-> IF Listening(w)
                                    THEN [worker[w] EXCEPT !.events = Append(@, v)] ELSE worker[w]]
  /\ UNCHANGED <<online, watches, req, told, late, faults>>

\* etcd's streams end when the connection is lost.
Disconnect ==
  /\ online /\ faults < MaxFaults
  /\ online' = FALSE /\ faults' = faults + 1
  /\ worker' = [w \in Workers |-> IF Listening(w) THEN [worker[w] EXCEPT !.lost = TRUE] ELSE worker[w]]
  /\ UNCHANGED <<value, version, watches, req, told, late>>

Reconnect ==
  /\ ~online /\ online' = TRUE
  /\ UNCHANGED <<value, version, watches, worker, req, told, late, faults>>

\* The agent starts again: StoreWatch::new has no watches.
Restart ==
  /\ faults < MaxFaults /\ faults' = faults + 1
  /\ watches' = {} /\ req' = NoReq
  /\ worker' = [w \in Workers |-> IF worker[w].is = "none" THEN NoWorker
                                  ELSE [NoWorker EXCEPT !.is = "ended"]]
  /\ UNCHANGED <<value, version, online, told, late>>

WorkerStep(w) ==
  \/ Cancelled(w) \/ Event(w) \/ StreamEnds(w) \/ Notify(w) \/ Called(w)
  \/ Rewatch(w) \/ (worker[w].cancelled /\ RewatchFails(w)) \/ Read(w)

RequestStep == StartWorker \/ Record \/ RecordFails

Next ==
  \/ \E u \in Callbacks : CreateWatch(u)
  \/ RequestStep
  \/ \E w \in Workers : WorkerStep(w) \/ DeleteWatch(w) \/ NotCalled(w) \/ RewatchFails(w)
  \/ Change(version + 1) \/ (value # 0 /\ Change(0))
  \/ Disconnect \/ Reconnect \/ Restart

Spec == Init /\ [][Next]_watchVars

(***************************************************************************)
(* Properties.                                                             *)
(***************************************************************************)
\* After its watch is deleted a client is called at most once more, by the call
\* which was under way, however many events were left (notify).
CalledOnceMore == \A w \in Workers : late[w] <= 1

\* A client whose watch has a worker has eventually read the latest value,
\* whatever changes were made while the store's stream was lost
\* (reconnect_watch, rewatch).
LatestIsRead ==
  \A w \in Workers : []<>(w \notin watches \/ worker[w].is = "ended" \/ value \in {0, told[w]})

\* A worker whose watch was deleted, or never recorded, ends (WatchHandle).
WorkersEnd ==
  \A w \in Workers : []<>(w \in watches \/ worker[w].is \in {"none", "ended"} \/ req.worker = w)

\* Tasks run on and the connection comes back.
Fairness ==
  /\ WF_watchVars(RequestStep) /\ WF_watchVars(Reconnect)
  /\ \A w \in Workers : WF_watchVars(WorkerStep(w))
=============================================================================
