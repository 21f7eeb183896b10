---------------------------- MODULE MCNodeCalls ----------------------------
(***************************************************************************)
(* What the core agent knows of a node: the bounded instance of            *)
(* NodeLiveness, or the calls of the wrapper of a node to its io-engine.   *)
(* The variable part says which a behaviour is about; the variables of the *)
(* other keep their initial values.                                        *)
(***************************************************************************)
EXTENDS NodeLiveness, TLC

VARIABLES part, api, kind, engine, states, rpc, flow, late, calm, lost

EC == INSTANCE EngineCalls
  WITH Apis <- {"v0", "v1", "gtm"}, Kinds <- {"pool", "nexus"}, MaxFaults <- 2,
       cache <- states, call <- rpc, faults <- lost

\* The tasks of one kind do the same.
TaskSymmetry == Permutations(Regs) \cup Permutations(Ops) \cup Permutations(Dogs)

callVars == <<api, kind, engine, states, rpc, flow, late, calm, lost>>
InCalls  == part = "calls"

\* The calls for a nexus do not tell the two forms of v1 apart.
InitAll ==
  /\ part \in {"live", "calls"}
  /\ Init /\ EC!Init
  /\ IF InCalls THEN kind = "nexus" => api # "gtm" ELSE api = "v1" /\ kind = "pool"

NextAll ==
  \/ ~InCalls /\ Next /\ UNCHANGED <<part, callVars>>
  \/ InCalls /\ EC!Next /\ UNCHANGED <<part, vars>>

SpecAll == InitAll /\ [][NextAll]_<<part, vars, callVars>>

-----------------------------------------------------------------------------
(* Properties                                                              *)

\* The agent takes an object for gone only if the engine does not have it; a call answers
\* Ok only if the engine is as it asked, and the cache then shows it (wrapper.rs).
EngineIsKnown == InCalls => EC!TypeOK /\ EC!ForgottenIsGone /\ EC!OkIsReal /\ EC!OkIsShown
=============================================================================
