---------------------------- MODULE HealthWatch ----------------------------
(***************************************************************************)
(* The health information of volume targets, which the core agent shows    *)
(* from memory: VolumeHealthWatcher holds a copy of each NexusInfo, read   *)
(* once at the start (Registry::init_health) and then kept up to date by   *)
(* the etcd watcher (etcd_watcher.rs), a task which reconnects its watch   *)
(* stream and resumes it after the last revision it was told of.           *)
(*                                                                         *)
(* One key prefix is watched, as in the agent.  The persistent store is    *)
(* its log of changes: the revision is the length of the log and a value   *)
(* is named by the revision which wrote it, 0 is no value.  The requests   *)
(* to unwatch and to close, which the agent never sends, are left out, as  *)
(* is the compaction of the log while a watch which needs it is open.      *)
(***************************************************************************)
EXTENDS Integers, Sequences, FiniteSetsExt

CONSTANTS Targets,     \* the nexuses whose information is stored
          Other,       \* any other key of the store
          MaxRevision, \* bound: changes of the store
          MaxBreaks    \* bound: lost or stalled connections

VARIABLES
  log,       \* the changes of the store, the first at revision 1
  compacted, \* etcd has forgotten the changes before this revision
  owned,     \* the targets the volumes refer to (health_info_id)
  start,     \* init_health: its step and the values it has read
  health,    \* VolumeHealthWatcher::health
  request,   \* the watch request is in the channel of the runner
  state,     \* WatchState
  rev,       \* WatchConfig::rev, 0: None
  stream,    \* the watch as etcd has it
  gap,       \* a change may have been missed in a way described at Missed...
  breaks

healthVars == <<log, compacted, owned, start, health, request, state, rev, stream, gap, breaks>>

Revision == Len(log)
NoValues == [t \in Targets |-> 0]
Change == [key : Targets \cup {Other}, put : BOOLEAN]

\* The value of a target in the store.
Stored(t) ==
  LET at == {r \in 1..Revision : log[r].key = t}
  IN IF at = {} \/ ~log[Max(at)].put THEN 0 ELSE Max(at)

Closed == [is |-> "closed", next |-> 0, header |-> 0]

TypeOK ==
  /\ log \in Seq(Change) /\ Revision \in 1..MaxRevision /\ compacted \in 0..MaxRevision
  /\ owned \subseteq Targets
  /\ start.is \in {"watch", "list", "insert", "done"} /\ start.list \in [Targets -> 0..MaxRevision]
  /\ health \in [Targets -> 0..MaxRevision]
  /\ request \in BOOLEAN /\ gap \in BOOLEAN
  /\ state \in {"Idle", "Connecting", "Watching", "Reconnecting"}
  /\ rev \in 0..MaxRevision /\ breaks \in 0..MaxBreaks
  /\ stream.is \in {"closed", "asked", "accepted", "open", "stalled", "checked", "dead"}
  /\ stream.next \in 0..MaxRevision + 1 /\ stream.header \in 0..MaxRevision
  /\ state # "Watching" <=> stream.is = "closed"

Init ==
  /\ \E t \in Targets : log = <<[key |-> t, put |-> TRUE]>>
  /\ compacted = 0 /\ owned = Targets /\ start = [is |-> "watch", list |-> NoValues]
  /\ health = NoValues /\ request = FALSE /\ state = "Idle" /\ rev = 0
  /\ stream = Closed /\ gap = FALSE /\ breaks = 0

(***************************************************************************)
(* The start of the agent.                                                 *)
(***************************************************************************)
\* init: the request is sent, nothing waits for the watch.
StartWatch ==
  /\ start.is = "watch"
  /\ start' = [start EXCEPT !.is = "list"] /\ request' = TRUE
  /\ UNCHANGED <<log, compacted, owned, health, state, rev, stream, gap, breaks>>

\* PStorCache::new reads all values.
StartList ==
  /\ start.is = "list"
  /\ start' = [is |-> "insert", list |-> [t \in Targets |-> Stored(t)]]
  /\ UNCHANGED <<log, compacted, owned, health, request, state, rev, stream, gap, breaks>>

MutIfEmptyInsert(t) == health' = [health EXCEPT ![t] = start.list[t]]

IfEmptyInsert(t) ==
  health' = [health EXCEPT ![t] = IF health[t] = 0 THEN start.list[t] ELSE health[t]]

StartInsert ==
  /\ start.is = "insert"
  /\ \E t \in Targets :
       /\ start.list[t] # 0
       /\ IfEmptyInsert(t)
       /\ start' = [start EXCEPT !.list[t] = 0]
  /\ UNCHANGED <<log, compacted, owned, request, state, rev, stream, gap, breaks>>

StartDone ==
  /\ start.is = "insert" /\ start.list = NoValues
  /\ start' = [start EXCEPT !.is = "done"]
  /\ UNCHANGED <<log, compacted, owned, health, request, state, rev, stream, gap, breaks>>

(***************************************************************************)
(* The runner of the watch.                                                *)
(***************************************************************************)
\* The first request.
HandleRequestIdle ==
  /\ state = "Idle" /\ request
  /\ request' = FALSE /\ state' = "Connecting"
  /\ UNCHANGED <<log, compacted, owned, start, health, rev, stream, gap, breaks>>


ResumeFrom == IF rev # 0 THEN rev + 1 ELSE 0

\* A stream is set up and the prefix is requested on it.
HandleConnecting ==
  /\ state \in {"Connecting", "Reconnecting"}
  /\ state' = "Watching" /\ stream' = [is |-> "asked", next |-> ResumeFrom, header |-> 0]
  /\ UNCHANGED <<log, compacted, owned, start, health, request, rev, gap, breaks>>

\* A response tells that changes up to its header's revision are on their way;
\* those not received when the stream ends are not asked for again.
MissedByHeader == \E r \in stream.next..rev : log[r].key \in owned

HandleError ==
  /\ state' = "Reconnecting" /\ stream' = Closed
  /\ gap' = (gap \/ (stream.is \in {"open", "stalled", "checked"} /\ MissedByHeader))

\* The setup fails, the stream ends, or etcd refuses the watch.
Break ==
  /\ state \in {"Connecting", "Reconnecting", "Watching"} /\ breaks < MaxBreaks
  /\ HandleError /\ breaks' = breaks + 1
  /\ UNCHANGED <<log, compacted, owned, start, health, request, rev>>

\* The connection is blocked and no error is reported.
Stall ==
  /\ stream.is = "open" /\ breaks < MaxBreaks
  /\ stream' = [stream EXCEPT !.is = "stalled"] /\ breaks' = breaks + 1
  /\ UNCHANGED <<log, compacted, owned, start, health, request, state, rev, gap>>

\* health_check: a watch which is not accepted in time is a fault of etcd; when
\* no progress is reported it is requested, once.
NotAccepted ==
  /\ stream.is \in {"asked", "accepted"} /\ breaks < MaxBreaks
  /\ HandleError /\ breaks' = breaks + 1
  /\ UNCHANGED <<log, compacted, owned, start, health, request, rev>>

RequestProgress ==
  /\ stream.is = "stalled" /\ stream' = [stream EXCEPT !.is = "checked"]
  /\ UNCHANGED <<log, compacted, owned, start, health, request, state, rev, gap, breaks>>

NoProgress ==
  /\ stream.is = "checked" /\ HandleError
  /\ UNCHANGED <<log, compacted, owned, start, health, request, rev, breaks>>

\* The response which says that the watch is created.
Created ==
  /\ stream.is = "accepted"
  /\ stream' = [stream EXCEPT !.is = "open"] /\ rev' = stream.header
  /\ UNCHANGED <<log, compacted, owned, start, health, request, state, gap, breaks>>

\* The callback of VolumeHealthWatcher, for the changes of one response.
Updated(upto) ==
  [t \in Targets |->
     LET at == {r \in stream.next..upto : log[r].key = t}
     IN IF at = {} THEN health[t] ELSE IF log[Max(at)].put THEN Max(at) ELSE 0]

\* The first changes etcd sends are all those up to its revision then.
NotifyEvents ==
  /\ stream.is = "open"
  /\ \E upto \in Max({stream.next, stream.header})..Revision :
       /\ health' = Updated(upto) /\ rev' = upto
       /\ stream' = [stream EXCEPT !.next = upto + 1]
  /\ UNCHANGED <<log, compacted, owned, start, request, state, gap, breaks>>

\* A progress notification, sent when there is nothing else to send.
Progress ==
  /\ stream.is = "open" /\ stream.next > Revision /\ rev # Revision
  /\ rev' = Revision
  /\ UNCHANGED <<log, compacted, owned, start, health, request, state, stream, gap, breaks>>

(***************************************************************************)
(* etcd, the io-engine and the other operations of the agent.              *)
(***************************************************************************)
\* The first watch starts where the store is: what changed since the values
\* were read is not sent.
MissedBeforeWatch ==
  /\ rev = 0 /\ start.is \in {"insert", "done"}
  /\ \E t \in owned : Stored(t) > Max({health[t], start.list[t]})

Accept ==
  /\ stream.is = "asked"
  /\ IF stream.next = 0 \/ stream.next >= compacted
       THEN stream' = [is |-> "accepted", header |-> Revision,
                       next |-> IF stream.next = 0 THEN Revision + 1 ELSE stream.next]
       ELSE stream' = [stream EXCEPT !.is = "dead"]
  \* A watch from a compacted revision is cancelled, which goes unnoticed.
  /\ gap' = (gap \/ MissedBeforeWatch \/ stream'.is = "dead")
  /\ UNCHANGED <<log, compacted, owned, start, health, request, state, rev, breaks>>

Compact ==
  /\ state = "Reconnecting" /\ compacted < Revision /\ breaks < MaxBreaks
  /\ compacted' = Revision /\ breaks' = breaks + 1
  /\ UNCHANGED <<log, owned, start, health, request, state, rev, stream, gap>>

\* A target stores its information; another key changes; the information of a
\* target no volume refers to is deleted.
Put(k) ==
  /\ Revision < MaxRevision
  /\ log' = Append(log, [key |-> k, put |-> TRUE])
  /\ UNCHANGED <<compacted, owned, start, health, request, state, rev, stream, gap, breaks>>

Delete(t) ==
  /\ Revision < MaxRevision /\ t \notin owned /\ Stored(t) # 0
  /\ log' = Append(log, [key |-> t, put |-> FALSE])
  /\ UNCHANGED <<compacted, owned, start, health, request, state, rev, stream, gap, breaks>>

\* The volume gets another target or is destroyed (prune_health, remove_health).
Retire(t) ==
  /\ start.is = "done" /\ t \in owned
  /\ owned' = owned \ {t} /\ health' = [health EXCEPT ![t] = 0]
  /\ UNCHANGED <<log, compacted, start, request, state, rev, stream, gap, breaks>>

RunnerStep ==
  \/ HandleRequestIdle \/ HandleConnecting \/ RequestProgress \/ NoProgress
  \/ Created \/ NotifyEvents

StartStep == StartWatch \/ StartList \/ StartInsert \/ StartDone

Next ==
  \/ StartStep \/ RunnerStep \/ Break \/ NotAccepted \/ Stall \/ Progress \/ Accept \/ Compact
  \/ \E k \in owned \cup {Other} : Put(k)
  \/ \E t \in Targets : Delete(t) \/ Retire(t)

Spec == Init /\ [][Next]_healthVars

(***************************************************************************)
(* Properties.                                                             *)
(***************************************************************************)
\* Information the watch has passed on is never replaced by older, though the
\* values read at the start are inserted at any time (if_empty_insert, the
\* watcher's callback).
HealthForwardStep ==
  \A t \in Targets :
    0 < health[t] /\ health[t] < stream.next /\ health'[t] # 0 => health'[t] >= health[t]
HealthForward == [][HealthForwardStep]_healthVars

\* The information of a target is the latest, is not shown, or may be missed.
Fresh(t) == gap \/ t \notin owned \/ health[t] = Stored(t)

\* However the stream is lost and set up again, the agent ends up with the
\* latest information of every target in use, unless a change fell into one of
\* three windows: before the first watch, behind the header of the last
\* response, or into a compacted part of the log (watch_key_prefixes).
HealthCatchesUp == \A t \in Targets : []<>Fresh(t)

\* The tasks of the agent run on and etcd answers.
Fairness == WF_healthVars(StartStep) /\ WF_healthVars(RunnerStep) /\ WF_healthVars(Accept)
=============================================================================
