------------------------------ MODULE MCAgents ------------------------------
(***************************************************************************)
(* The two high-availability agents and the placement of replicas without  *)
(* fairness.  The variable part says which of four instances a behaviour   *)
(* is about; the variables of the others keep their initial values.        *)
(***************************************************************************)
EXTENDS NodeAgent

CONSTANTS n1, n2, n3, a0, a1, a2, c1, c2

VARIABLES part,
  req, at, rec, etcd, up, made, target, shutdown, path, failed, report, fails, crashes, replaced,
  asked, vst, num, size, reps, op, members, holder, cordon, online, overlap, rough, events

\* The new path of each call.
OneTarget  == [c \in {c1} |-> a1]
TwoTargets == (c1 :> a1) @@ (c2 :> a2)

\* "detect" is the module as it is extended; in "replace" two calls meet.
Replace == INSTANCE NodeAgent
  WITH Names <- {n1, n2, n3}, Calls <- {c1, c2}, TargetOf <- TwoTargets,
       AnaEnabled <- FALSE, MaxBreaks <- 1, MaxLosses <- 0

\* One switchover request, and all of the faults.
One == INSTANCE SwitchOver
  WITH WorkerNum <- 2, DeadlineRetries <- 3, StoreFaults <- TRUE, MaxReqs <- 1,
       MaxTargets <- 3, MaxFails <- 2, MaxFaults <- 5, MaxCrashes <- 1

\* Two volumes, of one affinity group; or a thick one spread over two labels
\* and a thin one of two replicas restricted to two nodes.  The capacities
\* differ, and hold two or three replicas.
Asks(n, thin, ag, spread, allowed, fit) ==
  [num |-> n, thin |-> thin, ag |-> ag, spread |-> spread, allowed |-> allowed, fit |-> fit]
SomePools == {"a1", "a2", "b1", "c1"}
SomeNodes == [a1 |-> "A", a2 |-> "A", b1 |-> "B", c1 |-> "C"]
SomeZones == [A |-> "x", B |-> "x", C |-> "y"]
SomeCapacity == [a1 |-> 6, a2 |-> 5, b1 |-> 4, c1 |-> 4]
SomeRequests ==
  {[v |-> Asks(1, TRUE, TRUE, FALSE, {}, SomePools),
    w |-> Asks(1, TRUE, TRUE, FALSE, {}, SomePools)],
   [v |-> Asks(2, FALSE, FALSE, TRUE, {}, SomePools),
    w |-> Asks(2, TRUE, FALSE, FALSE, {"A", "B"}, SomePools \ {"a1"})]}
PL == INSTANCE Placement
  WITH Vols <- {"v", "w"}, Nodes <- {"A", "B", "C"}, Pools <- SomePools, NodeOf <- SomeNodes,
       Zone <- SomeZones, Capacity <- SomeCapacity, Requests <- SomeRequests,
       FirstSize <- 2, MaxSize <- 3, PoolCommit <- 100, VolCommit <- 50, InitCommit <- 50,
       Watermark <- 0, Slots <- {1, 2}, MaxEvents <- 4, req <- asked, up <- online

agentVars  == <<kernel, udev, detector, reporter, call, closing, breaks, losses>>
switchVars == <<req, at, rec, etcd, up, made, target, shutdown, path, failed, report,
                fails, crashes, replaced>>
placeVars  == <<asked, vst, num, size, reps, op, members, holder, cordon, online, overlap,
                rough, events>>
allVars    == <<part, faults, agentVars, switchVars, placeVars>>

InDetect  == part = "detect"
InReplace == part = "replace"
InOne     == part = "one"
InPlace   == part = "place"

InitAll ==
  /\ part \in {"detect", "replace", "one", "place"}
  /\ IF InReplace THEN Replace!Init ELSE Init
  /\ One!Init
  /\ PL!Init /\ (~InPlace => asked["v"].ag)

NextAll ==
  \/ InDetect /\ Next /\ UNCHANGED <<part, switchVars, placeVars>>
  \/ InReplace /\ Replace!Next /\ UNCHANGED <<part, switchVars, placeVars>>
  \/ InOne /\ One!Next /\ UNCHANGED <<part, agentVars, placeVars>>
  \/ InPlace /\ PL!Next /\ UNCHANGED <<part, faults, agentVars, switchVars>>

SpecAll == InitAll /\ [][NextAll]_allVars

-----------------------------------------------------------------------------
(* Properties                                                              *)


\* A request in memory which is not over is the one in etcd, whose stage has been reached
\* and is not repeated after a crash (nodes.rs, etcd.rs, switchover.rs complete_op), and the
\* path cache catches up with its events (path_provider.rs).
RecordIsTrue ==
  /\ InOne => One!TypeOK /\ One!RecordIsTrue
  /\ InDetect => TypeOK /\ CacheInSync


\* The replicas of a volume are on different nodes and spread labels, and the volumes of
\* one replica of one affinity group do not share a node (scheduling, SingleReplicaPolicy).
PlacedApart == InPlace => PL!TypeOK /\ PL!ReplicasApart /\ PL!AffinityApart

=============================================================================
