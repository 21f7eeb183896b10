---------------------------- MODULE CsiSnapshot ----------------------------
(***************************************************************************)
(* Snapshots of one published filesystem volume as the CSI controller      *)
(* takes them (controller.rs create_snapshot): the filesystem is frozen on *)
(* the application node, the control plane takes the snapshot, and the     *)
(* filesystem is thawed again.                                             *)
(*                                                                         *)
(* The controller's VolumeOpGuard admits one handler at a time (ctl).  The *)
(* node plugin runs a freeze or a thaw in a task of its own which holds    *)
(* the node's guard to its end, even when nobody waits for it any more     *)
(* (node).  The orchestrator, REST and the kernel are external.            *)
(***************************************************************************)
EXTENDS Naturals

CONSTANTS Snaps,      \* snapshots asked for
          MaxFaults,  \* lost, failed and abandoned calls
          MaxTimeouts, \* calls of the node that take longer than the controller waits
          MaxBreaks   \* how often the device loses its paths

VARIABLES ctl,     \* the handler of the controller
          node,    \* what the node plugin does
          frozen,  \* the filesystem is frozen
          live,    \* every path of the device is live
          snap,    \* the snapshots that exist
          quiet,   \* those taken of a frozen filesystem
          co,      \* what the orchestrator has of each snapshot
          faults, timeouts, breaks

vars == <<ctl, node, frozen, live, snap, quiet, co, faults, timeouts, breaks>>

NoCall == [pc |-> "idle", ok |-> FALSE]

TypeOK ==
  /\ ctl.pc \in {"idle", "get", "freeze", "freezing", "create", "unfreeze", "thawing"}
  /\ ctl.pc # "idle" => ctl.s \in Snaps
  /\ node \in {"idle", "freeze", "thaw"} /\ frozen \in BOOLEAN /\ live \in BOOLEAN
  /\ quiet \subseteq snap /\ snap \subseteq Snaps
  /\ co \in [Snaps -> {"asking", "done", "gone"}]
  /\ faults \in 0..MaxFaults /\ timeouts \in 0..MaxTimeouts /\ breaks \in 0..MaxBreaks

Init ==
  /\ ctl = NoCall /\ node = "idle" /\ frozen = FALSE /\ live = TRUE
  /\ snap = {} /\ quiet = {} /\ co = [s \in Snaps |-> "asking"]
  /\ faults = 0 /\ timeouts = 0 /\ breaks = 0

Fault == faults < MaxFaults /\ faults' = faults + 1
NoFault == UNCHANGED faults

At(pc) == ctl.pc = pc
Goto(pc) == ctl' = [ctl EXCEPT !.pc = pc]
-----------------------------------------------------------------------------
Call(s) ==
  /\ ctl = NoCall /\ co[s] = "asking"
  /\ ctl' = [pc |-> "get", s |-> s, ok |-> FALSE]
  /\ UNCHANGED <<node, frozen, live, snap, quiet, co, faults, timeouts, breaks>>

\* A snapshot of a previous attempt is not taken again, but the filesystem
\* is thawed for all answers of the control plane.
Get ==
  /\ At("get")
  /\ \/ ctl.s \in snap /\ ctl' = [ctl EXCEPT !.pc = "unfreeze", !.ok = TRUE] /\ NoFault
     \/ ctl.s \notin snap /\ Goto("freeze") /\ NoFault
     \/ Goto("unfreeze") /\ Fault
  /\ UNCHANGED <<node, frozen, live, snap, quiet, co, timeouts, breaks>>

\* issue_fs_freeze: the node plugin refuses while its guard is taken, and the
\* handler returns with any error of the freeze.
FreezeSend ==
  /\ At("freeze")
  /\ \/ node = "idle" /\ node' = "freeze" /\ Goto("freezing") /\ NoFault
     \/ node # "idle" /\ ctl' = NoCall /\ UNCHANGED node /\ NoFault
     \/ ctl' = NoCall /\ UNCHANGED node /\ Fault
  /\ UNCHANGED <<frozen, live, snap, quiet, co, timeouts, breaks>>


\* fsfreeze on the node: only with every path live.
FreezeRuns ==
  /\ node = "freeze" /\ node' = "idle"
  /\ frozen' = (frozen \/ live)
  /\ ctl' = IF ~At("freezing") THEN ctl
            ELSE IF live THEN [ctl EXCEPT !.pc = "create"] ELSE NoCall
  /\ UNCHANGED <<live, snap, quiet, co, faults, timeouts, breaks>>

\* The control plane takes the snapshot (external); its answer may be lost.
Create ==
  /\ At("create")
  /\ \/ /\ snap' = snap \cup {ctl.s}
        /\ quiet' = IF frozen THEN quiet \cup {ctl.s} ELSE quiet
        /\ \/ ctl' = [ctl EXCEPT !.pc = "unfreeze", !.ok = TRUE] /\ NoFault
           \/ Goto("unfreeze") /\ Fault
     \/ Goto("unfreeze") /\ Fault /\ UNCHANGED <<snap, quiet>>
  /\ UNCHANGED <<node, frozen, live, co, timeouts, breaks>>

UnfreezeSend ==
  /\ At("unfreeze")
  /\ \/ node = "idle" /\ node' = "thaw" /\ Goto("thawing") /\ NoFault
     \/ node # "idle" /\ ctl' = NoCall /\ UNCHANGED node /\ NoFault
     \/ ctl' = NoCall /\ UNCHANGED node /\ Fault
  /\ UNCHANGED <<frozen, live, snap, quiet, co, timeouts, breaks>>

\* The thaw on the node, and the answer to the orchestrator: an unfreeze that
\* failed fails the whole call.
ThawRuns ==
  /\ node = "thaw" /\ node' = "idle"
  /\ frozen' = (frozen /\ ~live)
  /\ ctl' = IF At("thawing") THEN NoCall ELSE ctl
  /\ co' = IF At("thawing") /\ live /\ ctl.ok THEN [co EXCEPT ![ctl.s] = "done"] ELSE co
  /\ UNCHANGED <<live, snap, quiet, faults, timeouts, breaks>>

\* tonic_endpoint: the handler waits 30 seconds for the node, and returns.
Timeout ==
  /\ ctl.pc \in {"freezing", "thawing"} /\ timeouts < MaxTimeouts
  /\ timeouts' = timeouts + 1 /\ ctl' = NoCall
  /\ UNCHANGED <<node, frozen, live, snap, quiet, co, faults, breaks>>

\* The caller gives up on the handler (external).
Abandon ==
  /\ ctl # NoCall /\ Fault /\ ctl' = NoCall
  /\ UNCHANGED <<node, frozen, live, snap, quiet, co, timeouts, breaks>>

\* The device's paths (external).
Break ==
  /\ live /\ breaks < MaxBreaks /\ live' = FALSE /\ breaks' = breaks + 1
  /\ UNCHANGED <<ctl, node, frozen, snap, quiet, co, faults, timeouts>>

Mend ==
  /\ ~live /\ live' = TRUE
  /\ UNCHANGED <<ctl, node, frozen, snap, quiet, co, faults, timeouts, breaks>>

\* The snapshot is no longer wanted (external).
GiveUp(s) ==
  /\ co[s] = "asking" /\ co' = [co EXCEPT ![s] = "gone"]
  /\ UNCHANGED <<ctl, node, frozen, live, snap, quiet, faults, timeouts, breaks>>

ControllerStep == Get \/ FreezeSend \/ Create \/ UnfreezeSend
NodeStep == FreezeRuns \/ ThawRuns

Next ==
  \/ ControllerStep \/ NodeStep \/ Timeout \/ Abandon \/ Break \/ Mend
  \/ \E s \in Snaps : Call(s) \/ GiveUp(s)

\* Handlers run on, paths come back and a snapshot that is wanted is asked
\* for again.
Fairness ==
  /\ WF_vars(ControllerStep) /\ WF_vars(NodeStep) /\ WF_vars(Mend)
  /\ \A s \in Snaps : SF_vars(Call(s))

Spec == Init /\ [][Next]_vars
FairSpec == Spec /\ Fairness
-----------------------------------------------------------------------------

\* create_snapshot: the orchestrator is told of a snapshot only when the
\* filesystem is thawed and no freeze of an earlier attempt can follow.
SuccessIsThawedStep ==
  \A s \in Snaps : co[s] # "done" /\ co'[s] = "done" => ~frozen' /\ node' # "freeze"

\* create_snapshot "Always unfreeze the filesystem if quiesce was requested,
\* as the retry mechanism can leave filesystem frozen": with an orchestrator
\* that repeats its calls the filesystem ends up thawed.
RetriesThaw == []<>(\A s \in Snaps : co[s] # "gone") => <>[]~frozen

\* The same without retries: what is frozen is thawed.  Not so: a handler
\* that times out waiting for the freeze returns without the unfreeze, and
\* the freeze takes place.
AlwaysUnfrozen == frozen ~> ~frozen
=============================================================================
