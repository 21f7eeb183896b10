------------------------- MODULE MCHighAvailability -------------------------
(***************************************************************************)
(* The two high-availability agents with fairness: switchover requests, of *)
(* the module as it is extended, or the reports of a node agent.  The      *)
(* variable part says which a behaviour is about; the variables of the     *)
(* other agent keep their initial values.                                  *)
(***************************************************************************)
EXTENDS SwitchOver

CONSTANTS n1, n2, a0, a1, a2, c1

VARIABLES part, ctl, connects, udev, cache, recs, chan, batches, heard, pc, ctrlrs, new,
          pre, drain, reply, closing, breaks, losses, last

\* One call, and no controller is removed by others.
OneTarget == [c \in {c1} |-> a1]
Heard == INSTANCE NodeAgent
  WITH Names <- {n1, n2}, First <- n1, FirstAddr <- a0, Addrs <- {a0, a1, a2},
       Calls <- {c1}, TargetOf <- OneTarget, AnaEnabled <- TRUE, CacheBatch <- 2,
       MaxBreaks <- 2, MaxLosses <- 0

switchVars == <<engine, core, node, fails, crashes, replaced>>
agentVars  == <<ctl, connects, udev, cache, recs, chan, batches, heard, pc, ctrlrs, new,
                pre, drain, reply, closing, breaks, losses, last>>
allVars    == <<part, faults, switchVars, agentVars>>

InMany  == part = "many"
InHeard == part = "heard"

InitAll == part \in {"many", "heard"} /\ Init /\ Heard!Init

NextAll ==
  \/ InMany /\ Next /\ UNCHANGED <<part, agentVars>>
  \/ InHeard /\ Heard!Next /\ UNCHANGED <<part, switchVars>>

\* The fairness of both modules, each for its part.
LiveSpec ==
  /\ InitAll
  /\ [][NextAll]_allVars
  /\ WF_<<faults, agentVars>>(InHeard /\ Heard!RescanPaths)
  /\ WF_<<faults, agentVars>>(InHeard /\ Heard!Aggregate)
  /\ WF_<<faults, agentVars>>(InHeard /\ \E b \in batches : Heard!Send(b))
  /\ WF_<<faults, agentVars>>(InHeard /\ Heard!CallStep(c1))
  /\ \A n \in {n1, n2} : WF_<<faults, agentVars>>(InHeard /\ Heard!Close(n))
  /\ WF_vars(InMany /\ ReportFailedPath)
  /\ WF_vars(InMany /\ Restart)
  /\ \A r \in Reqs : WF_vars(InMany /\ RequestStep(r))

-----------------------------------------------------------------------------
(* Properties                                                              *)

=============================================================================
