---------------------------- MODULE ServiceLock ----------------------------
(***************************************************************************)
(* What the lock of utils/pstor/src/etcd_keep_alive.rs promises to a        *)
(* service of which only one instance should run: somebody has to let go of *)
(* the lock before another instance gets it, and only who has it is         *)
(* recorded as the owner.  SingletonLock implements it.                     *)
(***************************************************************************)
CONSTANTS Instances, NoOwner

VARIABLES holder, owner

Init == holder = NoOwner /\ owner = NoOwner

Acquire(i) == holder = NoOwner /\ holder' = i /\ UNCHANGED owner

\* The holder gives the lock up, or loses it with its lease.
Release == holder # NoOwner /\ holder' = NoOwner /\ UNCHANGED owner

Record == holder # NoOwner /\ owner' = holder /\ UNCHANGED holder

Next == (\E i \in Instances : Acquire(i)) \/ Release \/ Record

Spec == Init /\ [][Next]_<<holder, owner>>
=============================================================================
