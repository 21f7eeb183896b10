------------------------------ MODULE MCNodes ------------------------------
(***************************************************************************)
(* Small instances of the modules about one io-engine node: its cordons    *)
(* and drains, of the module as it is extended, or whether it is alive.    *)
(* The variable part says which a behaviour is about; the variables of the *)
(* other keep their initial values.                                        *)
(***************************************************************************)
EXTENDS NodeDrain

CONSTANTS r1, poller, d1, d2, d3, n1, None, LiveFaults

VARIABLES part, up, inst, dp, bye, registered, status, known, cache, num, expired, chan,
          dog, buf, holder, grpc, job, stops, faults, made, acked, freed

NL == INSTANCE NodeLiveness
  WITH Regs <- {r1}, Ops <- {}, Poller <- poller, Dogs <- {d1, d2, d3}, Nexuses <- {n1},
       Prompt <- TRUE, MaxRebuilds <- 1, MaxStops <- 2, MaxFaults <- LiveFaults, MaxOps <- 0,
       reg <- registered

liveVars == <<up, inst, dp, bye, registered, status, known, cache, num, expired, chan,
              dog, buf, holder, grpc, job, stops, faults, made, acked, freed>>
allVars == <<part, nodevars, liveVars>>

InLive == part = "live"
InDrain == part = "drain"

InitAll == part \in {"live", "drain"} /\ Init /\ NL!Init

NextAll ==
  \/ InLive /\ NL!Next /\ UNCHANGED <<part, nodevars>>
  \/ InDrain /\ Next /\ UNCHANGED <<part, liveVars>>

\* The tasks of the agent run on, a node that is up registers again and again,
\* the drain reconciler polls, volume operations end and time passes.
FairSpecAll ==
  /\ InitAll
  /\ [][NextAll]_allVars
  /\ WF_liveVars(InLive /\ NL!Expire)
  /\ \A d \in {d1, d2, d3} : WF_liveVars(InLive /\ NL!DogStep(d))
  /\ SF_liveVars(InLive /\ NL!Heartbeat(r1)) /\ WF_liveVars(InLive /\ NL!RegStep(r1))
  /\ WF_liveVars(InLive /\ NL!Deregister) /\ WF_liveVars(InLive /\ NL!PollNode)
  /\ \A p \in {r1, poller} : WF_liveVars(InLive /\ NL!Update(p))
  /\ WF_nodevars(InDrain /\ Reconcile) /\ WF_nodevars(InDrain /\ TimeOut)
  /\ WF_nodevars(InDrain /\ \E v \in Volumes : PublishDone(v))

\* A node that stays up ends up online, one that stays down does not stay so (the watchdog,
\* the poller).
StatusFollows == InLive => NL!AliveIsOnline /\ NL!DeadIsNoticed
=============================================================================
