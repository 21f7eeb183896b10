--------------------------- MODULE ReconcileLoop ---------------------------
(***************************************************************************)
(* The loop which runs the reconcilers of the core agent                   *)
(* (reconciler/poller.rs, task_poller.rs): it waits for an event of        *)
(* another component or for a period, and then polls its targets one       *)
(* after the other.  A target polls itself when it takes the event or when *)
(* its timer is due, and then polls its own targets.                       *)
(*                                                                         *)
(* What a poll does is the subject of other modules; here it only has a    *)
(* result.  The shutdown signal, which no code of the agent sends, is left *)
(* out.                                                                    *)
(***************************************************************************)
EXTENDS Naturals, Sequences

CONSTANTS Capacity,  \* of the event channel, 14 in the agent
          MaxEvents, \* bound: events sent
          MaxFaults  \* bound: polls which fail or are busy

VARIABLES
  queue,  \* the event channel
  pass,   \* the pass over the targets
  timer,  \* PollTimer::timer of the targets which have one
  wait,   \* the period the loop waits, "none" while it polls
  owed,   \* targets to be polled for an event sent since their last poll
  since,  \* timed passes since the last poll of a target
  raised, \* a poll of this pass has failed
  events, faults

loopVars == <<queue, pass, timer, wait, owed, since, raised, events, faults>>

\* The targets in the order they are polled in, each before its own targets.
Order == <<"store", "pool", "nexus", "nexus_gc", "re_shutdown", "volume", "hot_spare",
           "volume_gc", "volume_nexus", "replica", "node", "drain", "node_snapshots",
           "snapshot", "snapshot_gc">>
Targets == {Order[i] : i \in 1..Len(Order)}
Outer == {"store", "pool", "nexus", "volume", "replica", "node", "snapshot"}

Collectors == {"nexus_gc", "volume_gc", "replica", "node_snapshots", "snapshot_gc"}

\* The timed passes from one poll to the next, 0: not polled by time.
Period == [t \in Targets |->
             IF t \in Collectors THEN 5 ELSE IF t = "re_shutdown" THEN 0 ELSE 1]

Events == {"NodeStateChangeOnline", "VolumeDegraded", "ResourceCreatingToDeleting", "NodeDrain"}
Starts == {"Start", "SimulStart"}

\* poll_event of the targets which have their own.
OwnEvents ==
  [store |-> Events \cup Starts,
   nexus_gc |-> {"Start", "ResourceCreatingToDeleting"},
   re_shutdown |-> {"Start", "NodeStateChangeOnline", "NodeDrain"},
   volume_gc |-> {"Start", "VolumeDegraded", "ResourceCreatingToDeleting"},
   replica |-> {"Start"},
   drain |-> {"NodeDrain"}]


\* poll_event
Takes(t) == IF t \in DOMAIN OwnEvents THEN OwnEvents[t] ELSE Events \cup {"Start"}

NoPass == [event |-> "none", at |-> 1, relays |-> FALSE, inner |-> {}, outer |-> {}]
Results == {"Idle", "Busy", "Err"}

TypeOK ==
  /\ queue \in Seq(Events) /\ Len(queue) <= Capacity
  /\ pass.event \in Events \cup Starts \cup {"TimedRun", "none"}
  /\ pass.at \in 1..Len(Order) + 1 /\ pass.inner \cup pass.outer \subseteq Results
  /\ timer \in [Targets -> 0..5]
  /\ wait \in {"none", "short", "long"} /\ raised \in BOOLEAN
  /\ owed \subseteq Targets /\ since \in [Targets -> 0..5]

Init ==
  /\ queue = <<>> /\ pass = NoPass /\ timer = Period /\ wait = "none" /\ owed = {}
  /\ since = [t \in Targets |-> 0] /\ raised = FALSE /\ events = 0 /\ faults = 0

\* notify: an event is dropped when the channel is full, and then only the
\* timers remain.
Notify(e) ==
  /\ events < MaxEvents /\ events' = events + 1
  /\ IF Len(queue) < Capacity
       THEN queue' = Append(queue, e) /\ owed' = owed \cup {t \in Targets : e \in Takes(t)}
       ELSE /\ owed' = owed \cup {t \in Targets : e \in Takes(t) /\ Period[t] > 0}
            /\ UNCHANGED queue
  /\ UNCHANGED <<pass, timer, wait, since, raised, faults>>

PassFor(e) == [NoPass EXCEPT !.event = e]

\* The worker is started, which is the first event.
Start(e) ==
  /\ pass = NoPass /\ wait = "none"
  /\ pass' = PassFor(e)
  /\ UNCHANGED <<queue, timer, wait, owed, since, raised, events, faults>>

Receive ==
  /\ wait # "none" /\ queue # <<>>
  /\ pass' = PassFor(Head(queue)) /\ queue' = Tail(queue) /\ wait' = "none" /\ raised' = FALSE
  /\ UNCHANGED <<timer, owed, since, events, faults>>

\* An event which is there when the loop starts to wait is taken first.
Elapse ==
  /\ wait # "none" /\ queue = <<>>
  /\ pass' = PassFor("TimedRun") /\ wait' = "none" /\ raised' = FALSE
  /\ UNCHANGED <<queue, timer, owed, since, events, faults>>

\* PollTimer::ready
Due(t) == timer[t] <= 1

Ready(t) ==
  IF pass.event # "TimedRun" THEN pass.event \in Takes(t)
  ELSE Period[t] > 0 /\ Due(t)

\* PollTimer::poll
Ticked(t) ==
  [timer EXCEPT ![t] = IF Due(t) THEN Period[t] ELSE timer[t] - 1]

\* squash_results: the search for an error has consumed the results when none is
\* found, and the search for a busy one finds nothing.
Squash(results) == IF "Err" \in results THEN "Err" ELSE "Idle"

Result ==
  {[is |-> "Idle", cost |-> 0]} \cup
  {[is |-> r, cost |-> 1] : r \in IF faults < MaxFaults THEN {"Busy", "Err"} ELSE {}}

\* try_poll of the next target; the targets of one which is not polled are
\* passed over.
TryPoll ==
  /\ pass.event # "none" /\ pass.at <= Len(Order)
  /\ LET t == Order[pass.at]
         asked == t \in Outer \/ pass.relays
         polled == asked /\ Ready(t)
     IN /\ timer' = IF asked /\ pass.event = "TimedRun" /\ Period[t] > 0 THEN Ticked(t) ELSE timer
        /\ \E r \in IF polled THEN Result ELSE {[is |-> "Idle", cost |-> 0]} :
             /\ faults' = faults + r.cost
             /\ raised' = (raised \/ r.is = "Err")
             /\ pass' = [pass EXCEPT !.at = @ + 1,
                           !.relays = IF t \in Outer THEN polled ELSE @,
                           !.inner = IF t \in Outer THEN {r.is} ELSE @ \cup {r.is},
                           !.outer = IF t \in Outer THEN @ \cup {Squash(pass.inner)} ELSE @]
        /\ owed' = IF polled THEN owed \ {t} ELSE owed
        /\ since' = [since EXCEPT ![t] =
                       IF polled THEN 0
                       ELSE IF pass.event = "TimedRun" /\ Period[t] > 0 THEN @ + 1 ELSE @]
  /\ UNCHANGED <<queue, wait, events>>

\* poller: how long to wait before the next timed pass.
EndPass ==
  /\ pass.at > Len(Order)
  /\ wait' = IF Squash(pass.outer \cup {Squash(pass.inner)}) = "Idle" THEN "long" ELSE "short"
  /\ pass' = NoPass
  /\ UNCHANGED <<queue, timer, owed, since, raised, events, faults>>

LoopStep == (\E e \in Starts : Start(e)) \/ Receive \/ Elapse \/ TryPoll \/ EndPass

Next == LoopStep \/ \E e \in Events : Notify(e)

Spec == Init /\ [][Next]_loopVars

(***************************************************************************)
(* Properties.                                                             *)
(***************************************************************************)
\* No target with a timer is passed over by as many timed passes as its period,
\* whatever events are handled in between (PollTimer).
TimersKept == \A t \in Targets : Period[t] > 0 => since[t] < Period[t]

\* A pass in which any poll failed, of a target or of a target's target, is
\* repeated after the short period (squash_results, poller).
ErrorsRetriedSoon == wait # "none" => (wait = "short" <=> raised)


\* The worker runs on and its periods elapse.
Fairness == WF_loopVars(LoopStep)
=============================================================================
