------------------------ MODULE SingletonLockProofs ------------------------
(***************************************************************************)
(* Type correctness of SingletonLock and the mutual exclusion of the        *)
(* instances that keep its lock, for any set of instances and any bounds.   *)
(***************************************************************************)
EXTENDS SingletonLock, TLAPS

\* The leaves are first-order; the ones that need more name SMT.
USE Zenon

USE DEF HasKey, Goto, Fault, etcdKeys, bounds, Running, IsReplaced

\* Every step of an instance and of etcd keeps the types (all actions).
LEMMA NextType == TypeOK /\ [Next]_vars => TypeOK'
<1> SUFFICES ASSUME TypeOK, [Next]_vars PROVE TypeOK'
  OBVIOUS
<1> USE ConstAssumption DEF TypeOK, States, Starting, Keeping
<1>1. CASE UNCHANGED vars
  BY <1>1 DEF vars
<1>2. ASSUME NEW i \in Instances,
             StartGrant(i) \/ StartLock(i) \/ StartWait(i) \/ StartOwn(i)
      PROVE TypeOK'
  <2>1. CASE StartGrant(i)
    BY <2>1 DEF StartGrant
  <2>2. CASE StartLock(i)
    BY SMT, <2>2 DEF StartLock, CreateKey
  <2>3. CASE StartWait(i)
    BY SMT, <2>3 DEF StartWait, DropKey
  <2>4. CASE StartOwn(i)
    <3>1. retired' \subseteq Instances /\ owner' \in Instances \cup {NoOwner}
      BY <2>4 DEF StartOwn, PutOwner
    <3>2. faults' \in 0..MaxFaults
      BY SMT, <2>4 DEF StartOwn, OwnerRefused
    <3>3. state' \in [Instances -> States] /\ info' \in [Instances -> BOOLEAN]
      BY <2>4 DEF StartOwn
    <3> QED BY <2>4, <3>1, <3>2, <3>3 DEF StartOwn
  <2> QED BY <1>2, <2>1, <2>2, <2>3, <2>4
<1>3. ASSUME NEW i \in Instances,
             Reconnect(i) \/ LeaseExpired(i) \/ LeaseGrant(i) \/ Locking(i)
      PROVE TypeOK'
  <2>1. CASE Reconnect(i)
    BY <2>1 DEF Reconnect
  <2>2. CASE LeaseExpired(i)
    BY SMT, <2>2 DEF LeaseExpired
  <2>3. CASE LeaseGrant(i)
    BY SMT, <2>3 DEF LeaseGrant, Disconnected
  <2>4. CASE Locking(i)
    BY SMT, <2>4 DEF Locking, Disconnected
  <2> QED BY <1>3, <2>1, <2>2, <2>3, <2>4
<1>4. ASSUME NEW i \in Instances,
             LockCall(i) \/ LockWait(i) \/ SetOwner(i) \/ Locked(i) \/ KeepAlive(i)
      PROVE TypeOK'
  <2>1. CASE LockCall(i)
    BY SMT, <2>1 DEF LockCall, CreateKey
  <2>2. CASE LockWait(i)
    BY SMT, <2>2 DEF LockWait, DropKey
  <2>3. CASE SetOwner(i)
    BY SMT, <2>3 DEF SetOwner, PutOwner, OwnerRefused
  <2>4. CASE Locked(i)
    BY SMT, <2>4 DEF Locked, Disconnected
  <2>5. CASE KeepAlive(i)
    BY SMT, <2>5 DEF KeepAlive, Disconnected
  <2> QED BY <1>4, <2>1, <2>2, <2>3, <2>4, <2>5
<1>5. ASSUME NEW i \in Instances,
             Expire(i) \/ SendWrite(i) \/ ApplyWrite(i) \/ Revoke(i) \/ Kill(i)
      PROVE TypeOK'
  BY SMT, <1>5 DEF Expire, DropKey, SendWrite, ApplyWrite, Revoke, Kill
<1> QED
  BY <1>1, <1>2, <1>3, <1>4, <1>5 DEF Next, Clock

\* Every step keeps the lock keys of etcd in order (lock, lease expiry, unlock).
LEMMA NextKeys == TypeOK /\ KeysOK /\ [Next]_vars => KeysOK'
<1> SUFFICES ASSUME TypeOK, KeysOK, [Next]_vars PROVE KeysOK'
  OBVIOUS
<1> USE DEF TypeOK, KeysOK
<1>1. CASE UNCHANGED <<key, rev>> /\ lease \subseteq lease'
  BY <1>1
<1>2. ASSUME NEW i \in Instances, i \in lease, CreateKey(i), UNCHANGED lease
      PROVE KeysOK'
  BY SMT, <1>2 DEF CreateKey
<1>3. ASSUME NEW i \in Instances, DropKey(i), UNCHANGED rev, lease \ {i} \subseteq lease'
      PROVE KeysOK'
  BY SMT, <1>3 DEF DropKey
<1>4. CASE UNCHANGED vars
  BY <1>1, <1>4 DEF vars
<1>5. ASSUME NEW i \in Instances, Clock(i)
      PROVE KeysOK'
  BY <1>1, <1>2, <1>3, <1>5
  DEF Clock, StartGrant, StartLock, StartWait, StartOwn, Reconnect, LeaseExpired,
      LeaseGrant, Locking, LockCall, LockWait, SetOwner, Locked, KeepAlive, Disconnected
<1>6. ASSUME NEW i \in Instances,
             Expire(i) \/ SendWrite(i) \/ ApplyWrite(i) \/ Revoke(i) \/ Kill(i)
      PROVE KeysOK'
  BY <1>1, <1>3, <1>6 DEF Expire, SendWrite, ApplyWrite, Revoke, Kill
<1> QED
  BY <1>4, <1>5, <1>6 DEF Next

\* Every step keeps the oldest lock key with the instance that believes it has
\* the lock: nobody gets an older key, and it loses its own only with its lease.
LEMMA NextHold == LockInv /\ [Next]_vars => KeepersHold'
<1> SUFFICES ASSUME LockInv, [Next]_vars, NEW k \in Instances, Keeper(k)'
             PROVE Holds(k)'
  BY DEF KeepersHold
<1> USE DEF LockInv, TypeOK, KeysOK, KeepersHold, Keeper, Holds
<1>1. ASSUME UNCHANGED key, Holds(k)
      PROVE Holds(k)'
  BY <1>1
<1>2. ASSUME NEW i \in Instances, CreateKey(i), Holds(k)
      PROVE Holds(k)'
  BY SMT, <1>2 DEF CreateKey
<1>3. ASSUME NEW i \in Instances, DropKey(i), i # k, Holds(k)
      PROVE Holds(k)'
  BY <1>3 DEF DropKey
<1>4. CASE UNCHANGED vars
  BY <1>1, <1>4 DEF vars
<1>5. ASSUME NEW i \in Instances, Clock(i), i # k
      PROVE Holds(k)'
  <2>1. Keeper(k)
    BY <1>5
    DEF Clock, StartGrant, StartLock, StartWait, StartOwn, Reconnect, LeaseExpired,
        LeaseGrant, Locking, LockCall, LockWait, SetOwner, Locked, KeepAlive, Disconnected
  <2>2. UNCHANGED key \/ CreateKey(i) \/ DropKey(i)
    BY <1>5
    DEF Clock, StartGrant, StartLock, StartWait, StartOwn, Reconnect, LeaseExpired,
        LeaseGrant, Locking, LockCall, LockWait, SetOwner, Locked, KeepAlive, Disconnected
  <2> QED BY <1>1, <1>2, <1>3, <1>5, <2>1, <2>2
<1>6. ASSUME Clock(k)
      PROVE Holds(k)'
  <2>1. UNCHANGED key /\ (Keeper(k) \/ Holds(k))
    BY <1>6
    DEF Clock, StartGrant, StartLock, StartWait, StartOwn, Reconnect, LeaseExpired,
        LeaseGrant, Locking, LockCall, LockWait, SetOwner, Locked, KeepAlive, Disconnected,
        PutOwner
  <2> QED BY <1>1, <2>1
<1>7. ASSUME NEW i \in Instances,
             Expire(i) \/ SendWrite(i) \/ ApplyWrite(i) \/ Revoke(i) \/ Kill(i)
      PROVE Holds(k)'
  <2>1. Keeper(k) /\ (UNCHANGED key \/ (DropKey(i) /\ i # k))
    BY <1>7 DEF Expire, SendWrite, ApplyWrite, Revoke, Kill
  <2> QED BY <1>1, <1>3, <2>1
<1> QED
  BY <1>4, <1>5, <1>6, <1>7 DEF Next

\* LockInv holds of every state of every behaviour.
LEMMA LockInvariant == Spec => []LockInv
<1>1. Init => LockInv
  BY SMT, ConstAssumption
  DEF Init, LockInv, TypeOK, KeysOK, KeepersHold, Keeper, Holds, States, Starting
<1>2. LockInv /\ [Next]_vars => LockInv'
  BY NextType, NextKeys, NextHold DEF LockInv
<1> QED
  BY <1>1, <1>2, PTL DEF Spec

\* The variables keep their types for any set of instances and any bounds.
THEOREM TypeCorrect == Spec => []TypeOK
<1>1. LockInv => TypeOK
  BY DEF LockInv
<1> QED
  BY <1>1, LockInvariant, PTL

\* At most one instance whose lease is alive believes it has the lock of its
\* service, for any number of instances, expiries and failed calls.
THEOREM KeepersAreExclusive == Spec => []OneKeeper
<1>1. LockInv => OneKeeper
  BY SMT DEF LockInv, TypeOK, KeysOK, KeepersHold, OneKeeper, Holds
<1> QED
  BY <1>1, LockInvariant, PTL

\* The owner key is only ever written by the holder of the lock: start and
\* Locking write it after the lock was granted, compared with their lock key.
THEOREM OwnersHoldLock == Spec => OwnerHoldsLock
<1>1. LockInv /\ [Next]_vars => (owner' # owner => Holds(owner'))
  <2> SUFFICES ASSUME LockInv, [Next]_vars, owner' # owner PROVE Holds(owner')
    OBVIOUS
  <2>1. PICK i \in Instances : (StartOwn(i) \/ SetOwner(i)) /\ PutOwner(i)
    BY DEF Next, vars, Clock, StartGrant, StartLock, StartWait, StartOwn, Reconnect,
        LeaseExpired, LeaseGrant, Locking, LockCall, LockWait, SetOwner, Locked, KeepAlive,
        Disconnected, Expire, SendWrite, ApplyWrite, Revoke, Kill
  <2>2. Keeper(i)
    BY <2>1 DEF StartOwn, SetOwner, PutOwner, Keeper, LockInv, KeysOK
  <2> QED BY <2>1, <2>2 DEF PutOwner, LockInv, KeepersHold
<1> QED
  BY <1>1, LockInvariant, PTL DEF Spec, OwnerHoldsLock

-----------------------------------------------------------------------------
(* The lock implements ServiceLock: a step changes what one instance        *)
(* believes at most.                                                        *)

\* What an instance does leaves what the others believe alone, and only a
\* keeper becomes the owner (all actions of SingletonLock).
LEMMA StepOfOne ==
  ASSUME LockInv, Next
  PROVE  \E i \in Instances :
           /\ \A j \in Instances \ {i} : Keeper(j)' <=> Keeper(j)
           /\ UNCHANGED owner \/ (owner' = i /\ Keeper(i) /\ Keeper(i)')
<1> USE DEF LockInv, TypeOK, KeysOK, Keeper
<1>1. PICK i \in Instances :
        Clock(i) \/ Expire(i) \/ SendWrite(i) \/ ApplyWrite(i) \/ Revoke(i) \/ Kill(i)
  BY DEF Next
<1>2. \A j \in Instances \ {i} : Keeper(j)' <=> Keeper(j)
  <2> SUFFICES ASSUME NEW j \in Instances \ {i}
               PROVE  state'[j] = state[j] /\ (j \in lease' <=> j \in lease)
    OBVIOUS
  <2>1. CASE Clock(i)
    BY <2>1
    DEF Clock, StartGrant, StartLock, StartWait, StartOwn, Reconnect, LeaseExpired,
        LeaseGrant, Locking, LockCall, LockWait, SetOwner, Locked, KeepAlive, Disconnected
  <2>2. CASE Expire(i) \/ SendWrite(i) \/ ApplyWrite(i) \/ Revoke(i) \/ Kill(i)
    BY <2>2 DEF Expire, SendWrite, ApplyWrite, Revoke, Kill
  <2> QED BY <1>1, <2>1, <2>2
<1>3. UNCHANGED owner \/ (owner' = i /\ Keeper(i) /\ Keeper(i)')
  <2>1. CASE StartOwn(i) \/ SetOwner(i)
    BY <2>1 DEF StartOwn, SetOwner, PutOwner
  <2>2. CASE Clock(i) /\ ~(StartOwn(i) \/ SetOwner(i))
    BY <2>2
    DEF Clock, StartGrant, StartLock, StartWait, Reconnect, LeaseExpired,
        LeaseGrant, Locking, LockCall, LockWait, Locked, KeepAlive, Disconnected
  <2>3. CASE Expire(i) \/ SendWrite(i) \/ ApplyWrite(i) \/ Revoke(i) \/ Kill(i)
    BY <2>3 DEF Expire, SendWrite, ApplyWrite, Revoke, Kill
  <2> QED BY <1>1, <2>1, <2>2, <2>3
<1> QED BY <1>2, <1>3

\* Who believes to have the lock is its holder, and there is one only then.
HolderOK ==
  /\ \A i \in Instances : Keeper(i) => Holder = i
  /\ (\A i \in Instances : ~Keeper(i)) => Holder = NoOwner

\* There is one keeper at most (start and Locking of etcd_keep_alive.rs), so
\* that Holder is well defined.
LEMMA HolderIsKeeper == LockInv => HolderOK
<1>1. LockInv => OneKeeper
  BY SMT DEF LockInv, TypeOK, KeysOK, KeepersHold, OneKeeper, Holds
<1> QED BY <1>1 DEF OneKeeper, Holder, HolderOK

\* The keepers of etcd_keep_alive.rs, their leases and lock keys implement a
\* lock which is let go before another instance gets it and whose holder alone
\* is recorded as the owner, for any number of instances, expiries and faults.
THEOREM LockIsImplemented == Spec => ImplementsLock
<1>1. Init => Promise!Init
  BY DEF Init, Promise!Init, Holder, Keeper
<1>2. LockInv /\ HolderOK /\ HolderOK' /\ [Next]_vars => [Promise!Next]_<<Holder, owner>>
  <2> SUFFICES ASSUME LockInv, HolderOK, HolderOK', [Next]_vars
               PROVE  [Promise!Next]_<<Holder, owner>>
    OBVIOUS
  <2>1. CASE UNCHANGED vars
    <3>1. UNCHANGED <<state, lease, owner>>
      BY <2>1 DEF vars
    <3> QED BY <3>1 DEF Holder, Keeper
  <2>2. CASE Next
    <3>1. PICK i \in Instances :
            /\ \A j \in Instances \ {i} : Keeper(j)' <=> Keeper(j)
            /\ UNCHANGED owner \/ (owner' = i /\ Keeper(i) /\ Keeper(i)')
      BY <2>2, StepOfOne
    <3>2. CASE Keeper(i) /\ Keeper(i)'
      BY <3>1, <3>2, ConstAssumption DEF HolderOK, Promise!Next, Promise!Record
    <3>3. CASE ~Keeper(i) /\ Keeper(i)'
      BY <3>1, <3>3, ConstAssumption DEF HolderOK, Promise!Next, Promise!Acquire
    <3>4. CASE Keeper(i) /\ ~Keeper(i)'
      BY <3>1, <3>4, ConstAssumption DEF HolderOK, Promise!Next, Promise!Release
    <3>5. CASE ~Keeper(i) /\ ~Keeper(i)'
      BY <3>1, <3>5 DEF HolderOK
    <3> QED BY <3>2, <3>3, <3>4, <3>5
  <2> QED BY <2>1, <2>2
<1> QED
  BY <1>1, <1>2, LockInvariant, HolderIsKeeper, PTL DEF Spec, ImplementsLock, Promise!Spec
=============================================================================
