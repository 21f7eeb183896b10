----------------------------- MODULE NodeAgent -----------------------------
(***************************************************************************)
(* The high-availability node agent, for one NVMe subsystem (one volume):   *)
(* the udev-driven path cache (path_provider.rs), the path failure detector *)
(* (detector.rs), the reporter (reporter.rs) and the replace_path call of   *)
(* the gRPC server (server.rs), all of agents/src/bin/ha/node.              *)
(*                                                                         *)
(* A path is a controller of the kernel.  It goes by a sysfs name, which    *)
(* the kernel gives to another controller once it is free, and connects to  *)
(* the address of one target.  The kernel is external.                      *)
(***************************************************************************)
EXTENDS Naturals, SequencesExt

CONSTANTS
    Names,      \* sysfs names of controllers
    First,      \* the controller which the volume was attached with ...
    FirstAddr,  \* ... and the address it connects to
    Addrs,      \* addresses of targets of the volume
    Calls,      \* replace_path calls of the cluster agent
    TargetOf,   \* the new path which each call asks for
    AnaEnabled, \* ana_enabled: the kernel supports multipathing
    CacheBatch, \* CACHE_EVENTS_BATCH_SIZE
    MaxBreaks,  \* bound: times a live controller loses its target
    MaxLosses,  \* bound: controllers which the kernel or a user removes
    MaxFaults   \* bound: failed connections and lost replies

ASSUME ConstAssumption ==
    /\ First \in Names /\ FirstAddr \in Addrs
    /\ TargetOf \in [Calls -> Addrs]
    /\ AnaEnabled \in BOOLEAN
    /\ CacheBatch \in Nat \ {0}
    /\ MaxBreaks \in Nat /\ MaxLosses \in Nat /\ MaxFaults \in Nat

VARIABLES
    ctl,      \* kernel: state, address and identity of the controller of each name
    connects, \* kernel: controllers made so far
    udev,     \* CachedNvmePathProvider.udev_queue
    cache,    \* NvmePathNameCollection.entries
    recs,     \* PathFailureDetector.suspected_paths of the subsystem
    chan,     \* failures on their way to the aggregator
    batches,  \* batches which process_batch tasks keep sending
    heard,    \* failures which the cluster agent has accepted
    pc, ctrlrs, new, pre, drain, reply,   \* the state of each call
    closing,  \* names which a spawned task is about to disconnect
    breaks, losses, faults,
    last      \* history: the names which the last scan found connecting

kernel   == <<ctl, connects>>
detector == <<cache, recs, chan, last>>
reporter == <<batches, heard>>
call     == <<pc, ctrlrs, new, pre, drain, reply>>
bounds   == <<breaks, losses, faults>>
vars     == <<kernel, udev, detector, reporter, call, closing, bounds>>

\* "new" is a controller whose attributes are not readable yet.
CtlStates == {"absent", "new", "connecting", "live", "deleting"}

PathStates == {"Good", "Suspected", "Failed", "Removing"}

Exists(n) == ctl[n].st # "absent"

\* get_nvme_path_entry finds a controller of this product under the name.
Readable(n) == ctl[n].st \notin {"absent", "new"}

At(a) == {n \in Names : Exists(n) /\ ctl[n].addr = a}

\* The volume is attached with one live path, and the agent starts.
Init ==
    /\ ctl = [n \in Names |-> [st |-> IF n = First THEN "live" ELSE "absent",
                               addr |-> FirstAddr, id |-> 1]]
    /\ connects = 1
    /\ udev = <<[op |-> "Invalidate", name |-> First]>>
    /\ cache = {} /\ recs = <<>> /\ chan = {} /\ last = {}
    /\ batches = {} /\ heard = {}
    /\ pc = [c \in Calls |-> "idle"]
    /\ ctrlrs = [c \in Calls |-> {}]
    /\ new = [c \in Calls |-> First]
    /\ pre = [c \in Calls |-> FALSE]
    /\ drain = [c \in Calls |-> {}]
    /\ reply = [c \in Calls |-> "none"]
    /\ closing = {}
    /\ breaks = 0 /\ losses = 0 /\ faults = 0

Fault == faults < MaxFaults /\ faults' = faults + 1 /\ UNCHANGED <<breaks, losses>>

-----------------------------------------------------------------------------
(* The kernel *)

SetSt(n, s) == ctl' = [ctl EXCEPT ![n].st = s]

Event(o, n) == udev' = Append(udev, [op |-> o, name |-> n])

\* The attributes of a new controller become readable.
Ready(n) ==
    /\ ctl[n].st = "new"
    /\ SetSt(n, "connecting") /\ Event("Change", n)
    /\ UNCHANGED <<connects, detector, reporter, call, closing, bounds>>

Live(n) ==
    /\ ctl[n].st = "connecting"
    /\ SetSt(n, "live")
    /\ UNCHANGED <<connects, udev, detector, reporter, call, closing, bounds>>

Break(n) ==
    /\ ctl[n].st = "live" /\ breaks < MaxBreaks
    /\ SetSt(n, "connecting")
    /\ breaks' = breaks + 1
    /\ UNCHANGED <<connects, udev, detector, reporter, call, closing, losses, faults>>

\* ctrl_loss_tmo passes, or a user removes the controller.
Lose(n) ==
    /\ ctl[n].st \in {"connecting", "live"} /\ losses < MaxLosses
    /\ SetSt(n, "deleting")
    /\ losses' = losses + 1
    /\ UNCHANGED <<connects, udev, detector, reporter, call, closing, breaks, faults>>

Removed(n) ==
    /\ ctl[n].st = "deleting"
    /\ SetSt(n, "absent") /\ Event("Remove", n)
    /\ UNCHANGED <<connects, detector, reporter, call, closing, bounds>>

-----------------------------------------------------------------------------
(* The path provider and the detector *)

\* update_cache for one event, which looks at the controller as it is by then.
UpdateCache(entries, e) ==
    CASE e.op = "Invalidate"        -> {n \in Names : Readable(n)}
      [] e.op \in {"Add", "Change"} -> entries \cup {n \in {e.name} : Readable(n)}
      [] e.op = "Remove"            -> entries \ {e.name}

GetEntries(k) == FoldLeft(UpdateCache, cache, SubSeq(udev, 1, k))

StateOf(n) == IF n \in DOMAIN recs THEN recs[n] ELSE "Good"

\* report_connecting, report_live, report_deleting
Transition(s, st) ==
    CASE st = "live"       -> "Good"
      [] st = "deleting"   -> "Removing"
      [] st = "connecting" -> CASE s = "Good"      -> "Suspected"
                                [] s = "Suspected" -> "Failed"
                                [] OTHER           -> s

\* What is left of the records after a scan: those which it touched, or none
\* once every path is good.
Retain(touched) ==
    IF \E n \in DOMAIN touched : touched[n] # "Good" THEN touched ELSE <<>>

\* rescan_paths.  Entries come in hash order: those which are not connecting
\* count only after a record of the subsystem exists.
RescanPaths ==
    LET k          == IF Len(udev) <= CacheBatch THEN Len(udev) ELSE CacheBatch
        entries    == {n \in GetEntries(k) : Readable(n)}
        connecting == {n \in entries : ctl[n].st = "connecting"}
        others     == entries \ connecting
    IN
    /\ cache' = GetEntries(k)
    /\ udev' = SubSeq(udev, k + 1, Len(udev))
    /\ \E counted \in SUBSET others :
         /\ DOMAIN recs # {} => counted = others
         /\ (DOMAIN recs = {} /\ connecting = {}) => counted = {}
         /\ recs' = Retain([n \in connecting \cup counted |->
                               Transition(StateOf(n), ctl[n].st)])
    /\ last' = connecting
    /\ chan' = chan \cup {ctl[n].id : n \in
                 {m \in connecting : StateOf(m) = "Suspected" /\ AnaEnabled}}
    /\ UNCHANGED <<kernel, reporter, call, closing, bounds>>

-----------------------------------------------------------------------------
(* The reporter *)

\* The aggregation period ends.
Aggregate ==
    /\ chan # {}
    /\ batches' = batches \cup {chan} /\ chan' = {}
    /\ UNCHANGED <<kernel, udev, cache, recs, last, heard, call, closing, bounds>>


\* process_batch: the cluster agent accepts the report; a lost reply makes the
\* task send it again.
Send(b) ==
    /\ b \in batches
    /\ heard' = heard \cup b
    /\ \/ batches' = batches \ {b} /\ UNCHANGED bounds
       \/ Fault /\ UNCHANGED batches
    /\ UNCHANGED <<kernel, udev, detector, call, closing>>

-----------------------------------------------------------------------------
(* replace_path *)

Goto(c, l) == pc' = [pc EXCEPT ![c] = l]

Answer(c, r) == Goto(c, "done") /\ reply' = [reply EXCEPT ![c] = r]

\* lookup_controllers: ask the detector for the paths it has on record.
Lookup(c) ==
    /\ pc[c] = "idle"
    /\ \/ recs = <<>> /\ Answer(c, "FailedPrecondition") /\ UNCHANGED ctrlrs
       \/ /\ recs # <<>>
          /\ ctrlrs' = [ctrlrs EXCEPT ![c] = DOMAIN recs]
          /\ Goto(c, "check") /\ UNCHANGED reply
    /\ UNCHANGED <<kernel, udev, detector, reporter, new, pre, drain, closing, bounds>>

\* connect_controller up to nvme_connect: is there anything to replace, and is
\* the new path there already.
Check(c) ==
    /\ pc[c] = "check"
    /\ \/ ~(\E n \in Names : Readable(n)) /\ Answer(c, "NqnNotFound") /\ UNCHANGED pre
       \/ /\ \E n \in Names : Readable(n)
          /\ pre' = [pre EXCEPT ![c] = At(TargetOf[c]) # {}]
          /\ Goto(c, "connect") /\ UNCHANGED reply
    /\ UNCHANGED <<kernel, udev, detector, reporter, ctrlrs, new, drain, closing, bounds>>

\* nvme_connect of csi-node, which keeps a controller it finds at the address.
Connect(c) ==
    /\ pc[c] = "connect"
    /\ \/ /\ \E n \in At(TargetOf[c]) : new' = [new EXCEPT ![c] = n]
          /\ Goto(c, "wait")
          /\ UNCHANGED <<kernel, udev, reply, bounds>>
       \/ /\ At(TargetOf[c]) = {}
          /\ \E n \in {m \in Names : ~Exists(m)} :
               /\ ctl' = [ctl EXCEPT ![n] =
                            [st |-> "new", addr |-> TargetOf[c], id |-> connects + 1]]
               /\ connects' = connects + 1
               /\ Event("Add", n)
               /\ new' = [new EXCEPT ![c] = n]
          /\ Goto(c, "wait")
          /\ UNCHANGED <<reply, bounds>>
       \/ /\ Fault /\ Answer(c, "Aborted")
          /\ UNCHANGED <<kernel, udev, new>>
    /\ UNCHANGED <<detector, reporter, ctrlrs, pre, drain, closing>>

\* Poll the new controller.  One that is gone ends the wait like a live one.
Wait(c) ==
    /\ pc[c] = "wait"
    /\ \/ ctl[new[c]].st \in {"live", "absent"} /\ Goto(c, "disconnect") /\ UNCHANGED reply
       \/ ctl[new[c]].st = "deleting" /\ Answer(c, "Internal")
    /\ UNCHANGED <<kernel, udev, detector, reporter, ctrlrs, new, pre, drain, closing, bounds>>

\* path_connection_timeout: the new path is removed, unless it was there before.
WaitTimeout(c) ==
    /\ pc[c] = "wait" /\ ctl[new[c]].st \in {"new", "connecting"}
    /\ IF pre[c] THEN UNCHANGED ctl
       ELSE ctl' = [n \in Names |-> IF n \in At(TargetOf[c])
                                    THEN [ctl[n] EXCEPT !.st = "deleting"] ELSE ctl[n]]
    /\ Answer(c, "Aborted")
    /\ UNCHANGED <<connects, udev, detector, reporter, ctrlrs, new, pre, drain, closing, bounds>>


\* The controllers of the lookup which is_same_controller does not take for the
\* new path.
OldPaths(c) == {n \in ctrlrs[c] : Readable(n) /\ ctl[n].addr # TargetOf[c]}

\* disconnect_controller for each controller of the lookup; each disconnection
\* is a task of its own.
Disconnect(c) ==
    /\ pc[c] = "disconnect"
    /\ closing' = closing \cup OldPaths(c)
    /\ \/ /\ \E n \in ctrlrs[c] : ~Readable(n)
          /\ Answer(c, "NotFound") /\ UNCHANGED drain
       \/ /\ \A n \in ctrlrs[c] : Readable(n)
          /\ drain' = [drain EXCEPT ![c] = OldPaths(c)]
          /\ Goto(c, "drain") /\ UNCHANGED reply
    /\ UNCHANGED <<kernel, udev, detector, reporter, ctrlrs, new, pre, bounds>>

\* The spawned disconnection, by name.
Close(n) ==
    /\ n \in closing
    /\ closing' = closing \ {n}
    /\ IF Exists(n) THEN SetSt(n, "deleting") ELSE UNCHANGED ctl
    /\ UNCHANGED <<connects, udev, detector, reporter, call, bounds>>

Drained(c) == \A n \in drain[c] : ctl[n].st \in {"deleting", "absent"}

\* Wait for the old paths to go, up to the deadline.
Drain(c) ==
    /\ pc[c] = "drain"
    /\ \/ Drained(c) /\ Answer(c, "Ok")
       \/ ~Drained(c) /\ Answer(c, "DeadlineExceeded")
    /\ UNCHANGED <<kernel, udev, detector, reporter, ctrlrs, new, pre, drain, closing, bounds>>

-----------------------------------------------------------------------------
Kernel  == \E n \in Names : Ready(n) \/ Live(n) \/ Break(n) \/ Lose(n) \/ Removed(n)
CallStep(c) ==
    \/ Lookup(c) \/ Check(c) \/ Connect(c) \/ Wait(c) \/ WaitTimeout(c)
    \/ Disconnect(c) \/ Drain(c)

Next ==
    \/ Kernel
    \/ RescanPaths
    \/ Aggregate \/ \E b \in batches : Send(b)
    \/ \E c \in Calls : CallStep(c)
    \/ \E n \in Names : Close(n)

Spec == Init /\ [][Next]_vars

\* The detection loop, the reporter and the calls keep running, and the cluster
\* agent sooner or later takes a report which is sent again and again.
FairSpec ==
    /\ Spec
    /\ WF_vars(RescanPaths) /\ WF_vars(Aggregate) /\ WF_vars(\E b \in batches : Send(b))
    /\ \A c \in Calls : WF_vars(CallStep(c))
    /\ \A n \in Names : WF_vars(Close(n))

-----------------------------------------------------------------------------
(* Properties *)

\* The state variables keep their types.
TypeOK ==
    /\ ctl \in [Names -> [st : CtlStates, addr : Addrs, id : 1..connects]]
    /\ \A i \in DOMAIN udev :
         udev[i] \in [op : {"Invalidate", "Add", "Change", "Remove"}, name : Names]
    /\ cache \subseteq Names /\ last \subseteq Names
    /\ DOMAIN recs \subseteq Names /\ \A n \in DOMAIN recs : recs[n] \in PathStates
    /\ chan \subseteq 1..connects /\ heard \subseteq 1..connects
    /\ \A b \in batches : b \subseteq 1..connects
    /\ pc \in [Calls -> {"idle", "check", "connect", "wait", "disconnect", "drain", "done"}]
    /\ ctrlrs \in [Calls -> SUBSET Names] /\ drain \in [Calls -> SUBSET Names]
    /\ new \in [Calls -> Names] /\ pre \in [Calls -> BOOLEAN]
    /\ closing \subseteq Names

\* "from this point the cache will always be in sync": once its events have been
\* handled, the path cache has every controller which may fail and none which is
\* gone, however late the events were and however often a name was used again.
CacheInSync ==
    udev = <<>> => /\ \A n \in Names : ctl[n].st \in {"connecting", "live"} => n \in cache
                   /\ \A n \in cache : Exists(n)

\* "Failed - path has experienced connectivity problems two times in a row": a
\* path is reported only if this scan and the one before it found it connecting.
TwoInARowStep ==
    \A i \in chan' \ chan :
      \E n \in last : ctl[n].id = i /\ ctl[n].st = "connecting"
TwoInARow == [][TwoInARowStep]_vars

\* "disconnect broken path to leave the only new healthy path": replace_path
\* never disconnects the last path of the volume.
PathRemainsStep ==
    \A n \in Names : (n \in closing \ closing' /\ Readable(n)) =>
      \E m \in Names \ {n} : ctl[m].st \in {"connecting", "live"}
PathRemains == [][PathRemainsStep]_vars

\* "Waits until the controller is fully connected": a call disconnects the old
\* paths only after its new path has become live.
ConnectedFirst ==
    [][\A c \in Calls : (pc[c] = "wait" /\ pc'[c] = "disconnect")
         => ctl[new[c]].st = "live"]_vars

\* "errors under disconnection are not critical ... proceed as if the call has
\* completed successfully": a call which got to disconnecting is not failed by it.
DisconnectErrorsIgnored == \A c \in Calls : pc[c] = "done" => reply[c] # "NotFound"

\* "Once a path is classified as Failed, it's reported to PathReporter and gets
\* sent to HA Cluster agent": a controller which has lost its target for good is
\* eventually heard of by the cluster agent.
BrokenIsHeard ==
    \A n \in Names, i \in 1..(1 + Cardinality(Calls)) :
      <>[](ctl[n].st = "connecting" /\ ctl[n].id = i) => <>(i \in heard)
=============================================================================
