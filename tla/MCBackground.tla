---------------------------- MODULE MCBackground ----------------------------
(***************************************************************************)
(* Small instances of the modules about the background tasks of the core   *)
(* agent: the keeper of the lock of the service, the loop which polls the  *)
(* reconcilers, the watcher of the volume targets' health and the workers  *)
(* of the watch service.  A behaviour is about one of them: the variable part says      *)
(* which, the variables of the others keep their initial values.           *)
(***************************************************************************)
EXTENDS SingletonLock

CONSTANTS t1, t2, other, MaxRevision, MaxBreaks, LoopEvents, LoopFaults, WatchFaults

VARIABLES part,
  queue, pass, timer, wait, owed, since, raised, events, errors,
  log, compacted, owned, start, health, request, wstate, wrev, stream, gap, breaks,
  value, version, online, watches, worker, req, told, late, mishaps

RL == INSTANCE ReconcileLoop
  WITH Capacity <- 1, MaxEvents <- LoopEvents, MaxFaults <- LoopFaults, faults <- errors
Watched == {t1, t2}
HW == INSTANCE HealthWatch
  WITH Targets <- Watched, Other <- other, state <- wstate, rev <- wrev
Clients == {"u"}
Workers == {1, 2}
WA == INSTANCE Watches
  WITH Callbacks <- Clients, MaxValue <- 3, MaxFaults <- WatchFaults, faults <- mishaps

loopVars == <<queue, pass, timer, wait, owed, since, raised, events, errors>>
healthVars == <<log, compacted, owned, start, health, request, wstate, wrev, stream, gap, breaks>>
watchVars == <<value, version, online, watches, worker, req, told, late, mishaps>>
allVars == <<part, vars, loopVars, healthVars, watchVars>>

InLock == part = "lock"
InLoop == part = "loop"
InHealth == part = "health"
InWatch == part = "watch"

InitAll ==
  /\ part \in {"lock", "loop", "health", "watch"}
  /\ Init /\ RL!Init /\ WA!Init
  /\ HW!Init /\ (InHealth \/ log = <<[key |-> t1, put |-> TRUE]>>)

NextAll ==
  \/ InLock /\ Next /\ UNCHANGED <<part, loopVars, healthVars, watchVars>>
  \/ InLoop /\ RL!Next /\ UNCHANGED <<part, vars, healthVars, watchVars>>
  \/ InHealth /\ HW!Next /\ UNCHANGED <<part, vars, loopVars, watchVars>>
  \/ InWatch /\ WA!Next /\ UNCHANGED <<part, vars, loopVars, healthVars>>

\* The tasks of the agent run on, a lease nobody keeps alive expires, and etcd answers
\* and comes back.
FairSpecAll ==
  /\ InitAll
  /\ [][NextAll]_allVars
  /\ \A i \in Instances : WF_vars(InLock /\ Clock(i)) /\ WF_vars(InLock /\ ~Running(i) /\ Expire(i))
  /\ WF_loopVars(InLoop /\ RL!LoopStep)
  /\ WF_healthVars(InHealth /\ HW!StartStep) /\ WF_healthVars(InHealth /\ HW!RunnerStep)
  /\ WF_healthVars(InHealth /\ HW!Accept)
  /\ WF_watchVars(InWatch /\ WA!RequestStep) /\ WF_watchVars(InWatch /\ WA!Reconnect)
  /\ \A w \in Workers : WF_watchVars(InWatch /\ WA!WorkerStep(w))


\* A deleted watch is called at most once more (notify).
CalledOnceMore == InWatch => WA!CalledOnceMore

\* The health information shown does not go back (if_empty_insert).
HealthForward == [][InHealth => HW!HealthForwardStep]_allVars

=============================================================================
