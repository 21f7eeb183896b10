--------------------------- MODULE SingletonLock ---------------------------
(***************************************************************************)
(* The etcd lease lock which lets one instance of a control-plane service   *)
(* write to the persistent store: EtcdSingletonLock in                      *)
(* utils/pstor/src/etcd_keep_alive.rs and the guarded writes of etcd.rs.    *)
(*                                                                         *)
(* An instance gets a lease, takes the etcd lock with it, records its lease *)
(* as the owner and keeps the lease alive.  Every write is an etcd          *)
(* transaction which compares the lease attached to the instance's lock key.*)
(*                                                                         *)
(* The etcd lock is external: a lock request creates the key of the         *)
(* instance, attached to its lease, and is answered once no older key is    *)
(* left; a key lives as long as its lease.  A lease may expire at any time, *)
(* which stands for any delay of its instance or of the network.            *)
(***************************************************************************)
EXTENDS Naturals

CONSTANTS
    Instances,   \* instances of the service; each start of it is a new one
    NoOwner,     \* the owner key does not exist
    MaxExpiries, \* bound: leases which expire while their instance runs
    MaxFaults    \* bound: failed calls and time-outs

ASSUME ConstAssumption ==
    NoOwner \notin Instances /\ MaxExpiries \in Nat /\ MaxFaults \in Nat

VARIABLES
    state,    \* where the keeper of each instance is
    info,     \* LeaseLockInfo: is the lease there for writes to use
    lease,    \* etcd: the leases that are alive
    key,      \* etcd: the create revision of each lock key, 0 if there is none
    rev,      \* etcd: the last revision
    owner,    \* etcd: StoreLeaseOwner
    txn,      \* instances with a write on its way to etcd
    expiries, faults,
    retired   \* history: instances which were owner and lost that to another

vars == <<state, info, lease, key, rev, owner, txn, expiries, faults, retired>>

\* start() goes through Start.., the others are the states of LeaseKeeperState
\* (Locking in the three steps between its awaits).
Starting == {"StartGrant", "StartLock", "StartWait", "StartOwn"}
Keeping  == {"LeaseExpired", "LeaseGrant", "Locking", "LockCall", "LockWait",
             "SetOwner", "Locked", "KeepAlive", "Reconnect"}
States   == Starting \cup Keeping \cup {"Exited"}

Running(i) == state[i] # "Exited"

Init ==
    /\ state = [i \in Instances |-> "StartGrant"]
    /\ info = [i \in Instances |-> FALSE]
    /\ lease = {}
    /\ key = [i \in Instances |-> 0] /\ rev = 0
    /\ owner = NoOwner
    /\ txn = {}
    /\ expiries = 0 /\ faults = 0
    /\ retired = {}

-----------------------------------------------------------------------------
(* etcd *)

HasKey(i) == key[i] # 0

\* The lock is held by the oldest key.
Holds(i) == HasKey(i) /\ \A j \in Instances : HasKey(j) => key[i] <= key[j]

\* lock: create the key, unless the lease already has it.
CreateKey(i) ==
    IF HasKey(i) THEN UNCHANGED <<key, rev>>
    ELSE rev' = rev + 1 /\ key' = [key EXCEPT ![i] = rev + 1]

DropKey(i) == key' = [key EXCEPT ![i] = 0]

\* The TTL of a lease passes; its key goes with it.  That of a running
\* instance only expires if its keep alives are late.
Expire(i) ==
    /\ i \in lease
    /\ IF Running(i) THEN expiries < MaxExpiries /\ expiries' = expiries + 1
       ELSE UNCHANGED expiries
    /\ lease' = lease \ {i}
    /\ DropKey(i)
    /\ UNCHANGED <<state, info, rev, owner, txn, faults, retired>>

-----------------------------------------------------------------------------
(* Helpers *)

Goto(i, s) == state' = [state EXCEPT ![i] = s]

\* A call to etcd fails or times out.
Fault == faults < MaxFaults /\ faults' = faults + 1

etcdKeys == <<lease, key, rev>>
bounds   == <<expiries, faults>>

\* check_replaced: another lease is recorded as the owner.
IsReplaced(i) == owner \notin {i, NoOwner}

\* set_owner_lease: a guarded write of the owner key.
PutOwner(i) ==
    /\ HasKey(i)
    /\ owner' = i
    /\ retired' = retired \cup ({owner} \ {i, NoOwner})

OwnerRefused(i) == (~HasKey(i) /\ UNCHANGED faults) \/ Fault

-----------------------------------------------------------------------------
(* start *)

StartGrant(i) ==
    /\ state[i] = "StartGrant"
    /\ lease' = lease \cup {i}
    /\ Goto(i, "StartLock")
    /\ UNCHANGED <<info, key, rev, owner, txn, bounds, retired>>

\* The lock request reaches etcd; it fails if the lease is gone.
StartLock(i) ==
    /\ state[i] = "StartLock"
    /\ IF i \in lease
         THEN CreateKey(i) /\ Goto(i, "StartWait")
         ELSE UNCHANGED <<key, rev>> /\ Goto(i, "Exited")
    /\ UNCHANGED <<info, lease, owner, txn, bounds, retired>>

\* The lock is granted, or start gives up after lease_ttl.
StartWait(i) ==
    /\ state[i] = "StartWait"
    /\ \/ Holds(i) /\ Goto(i, "StartOwn") /\ UNCHANGED <<key, faults>>
       \/ ~HasKey(i) /\ Goto(i, "Exited") /\ UNCHANGED <<key, faults>>
       \/ Fault /\ DropKey(i) /\ Goto(i, "Exited")
    /\ UNCHANGED <<info, lease, rev, owner, txn, expiries, retired>>

\* Record the owner and hand the lease to the store client.
StartOwn(i) ==
    /\ state[i] = "StartOwn"
    /\ \/ /\ PutOwner(i)
          /\ Goto(i, "Locked")
          /\ info' = [info EXCEPT ![i] = TRUE]
          /\ UNCHANGED faults
       \/ /\ OwnerRefused(i)
          /\ Goto(i, "Exited")
          /\ UNCHANGED <<info, owner, retired>>
    /\ UNCHANGED <<etcdKeys, txn, expiries>>

-----------------------------------------------------------------------------
(* The clock of each state of the keeper *)

Reconnect(i) ==
    /\ state[i] = "Reconnect"
    /\ Goto(i, "LeaseExpired")
    /\ UNCHANGED <<info, etcdKeys, owner, txn, bounds, retired>>

\* Disconnected: the call failed, so try to connect again.
Disconnected(i) == Fault /\ Goto(i, "Reconnect")

LeaseExpired(i) ==
    /\ state[i] = "LeaseExpired"
    /\ info' = [info EXCEPT ![i] = FALSE]
    /\ \/ IsReplaced(i) /\ Goto(i, "Exited") /\ UNCHANGED faults
       \/ ~IsReplaced(i) /\ Goto(i, "LeaseGrant") /\ UNCHANGED faults
       \/ Fault /\ state' \in {[state EXCEPT ![i] = s] : s \in {"LeaseGrant", "Reconnect"}}
    /\ UNCHANGED <<etcdKeys, owner, txn, expiries, retired>>

LeaseGrant(i) ==
    /\ state[i] = "LeaseGrant"
    /\ \/ lease' = lease \cup {i} /\ Goto(i, "Locking") /\ UNCHANGED faults
       \/ Disconnected(i) /\ UNCHANGED lease
    /\ UNCHANGED <<info, key, rev, owner, txn, expiries, retired>>

\* Locking, up to the answer of check_replaced
Locking(i) ==
    /\ state[i] = "Locking"
    /\ \/ IsReplaced(i) /\ Goto(i, "Exited") /\ UNCHANGED faults
       \/ ~IsReplaced(i) /\ Goto(i, "LockCall") /\ UNCHANGED faults
       \/ Disconnected(i)
    /\ UNCHANGED <<info, etcdKeys, owner, txn, expiries, retired>>

\* Locking: the lock request reaches etcd; it fails if the lease is gone.
LockCall(i) ==
    /\ state[i] = "LockCall"
    /\ IF i \in lease
         THEN CreateKey(i) /\ Goto(i, "LockWait")
         ELSE UNCHANGED <<key, rev>> /\ Goto(i, "LeaseExpired")
    /\ UNCHANGED <<info, lease, owner, txn, bounds, retired>>

LockWaitBarges(i) ==
    /\ state[i] = "LockWait"
    /\ HasKey(i) /\ Goto(i, "SetOwner")
    /\ UNCHANGED <<info, etcdKeys, owner, txn, bounds, retired>>

\* Locking: the lock is granted; it failed with the lease or timed out; or it
\* timed out and etcd drops the key of the cancelled request.
LockWait(i) ==
    /\ state[i] = "LockWait"
    /\ \/ Holds(i) /\ Goto(i, "SetOwner") /\ UNCHANGED <<key, faults>>
       \/ ~Holds(i) /\ Goto(i, "LeaseExpired") /\ UNCHANGED <<key, faults>>
       \/ Fault /\ DropKey(i) /\ Goto(i, "LeaseExpired")
    /\ UNCHANGED <<info, lease, rev, owner, txn, expiries, retired>>

SetOwnerAnyway(i) ==
    /\ state[i] = "SetOwner"
    /\ owner' = i /\ Goto(i, "Locked")
    /\ UNCHANGED <<info, etcdKeys, txn, bounds, retired>>

\* Locking: record the owner.
SetOwner(i) ==
    /\ state[i] = "SetOwner"
    /\ \/ PutOwner(i) /\ Goto(i, "Locked") /\ UNCHANGED faults
       \/ /\ OwnerRefused(i)
          /\ Goto(i, "Reconnect")
          /\ UNCHANGED <<owner, retired>>
    /\ UNCHANGED <<info, etcdKeys, txn, expiries>>

Locked(i) ==
    /\ state[i] = "Locked"
    /\ info' = [info EXCEPT ![i] = TRUE]
    /\ \/ Goto(i, "KeepAlive") /\ UNCHANGED faults
       \/ Disconnected(i)
    /\ UNCHANGED <<etcdKeys, owner, txn, expiries, retired>>

KeepAliveDeaf(i) ==
    /\ state[i] = "KeepAlive"
    /\ Disconnected(i)
    /\ UNCHANGED <<info, etcdKeys, owner, txn, expiries, retired>>

\* A keep alive is answered with the remaining TTL.  That of a live lease
\* changes nothing but the time of its expiry.
KeepAlive(i) ==
    /\ state[i] = "KeepAlive"
    /\ \/ i \notin lease /\ Goto(i, "LeaseGrant") /\ UNCHANGED faults
       \/ Disconnected(i)
    /\ UNCHANGED <<info, etcdKeys, owner, txn, expiries, retired>>

-----------------------------------------------------------------------------
(* Writes, and the end of an instance *)

\* put_kv, put_obj, delete_kv: read the lease and send the transaction.
SendWrite(i) ==
    /\ Running(i) /\ info[i] /\ i \notin txn
    /\ txn' = txn \cup {i}
    /\ UNCHANGED <<state, info, etcdKeys, owner, bounds, retired>>

\* etcd compares the lease of the lock key: the write is applied if HasKey(i).
ApplyWrite(i) ==
    /\ i \in txn
    /\ txn' = txn \ {i}
    /\ UNCHANGED <<state, info, etcdKeys, owner, bounds, retired>>

\* revoke: give the lease and the lock back, and exit.
Revoke(i) ==
    /\ state[i] \in {"Locked", "KeepAlive"}
    /\ lease' = lease \ {i}
    /\ DropKey(i)
    /\ Goto(i, "Exited")
    /\ UNCHANGED <<info, rev, owner, txn, bounds, retired>>

\* The process is killed.
Kill(i) ==
    /\ Running(i)
    /\ Goto(i, "Exited")
    /\ UNCHANGED <<info, etcdKeys, owner, txn, bounds, retired>>

Clock(i) ==
    \/ StartGrant(i) \/ StartLock(i) \/ StartWait(i) \/ StartOwn(i)
    \/ Reconnect(i) \/ LeaseExpired(i) \/ LeaseGrant(i)
    \/ Locking(i) \/ LockCall(i) \/ LockWait(i) \/ SetOwner(i)
    \/ Locked(i) \/ KeepAlive(i)

Next == \E i \in Instances :
    Clock(i) \/ Expire(i) \/ SendWrite(i) \/ ApplyWrite(i) \/ Revoke(i) \/ Kill(i)

Spec == Init /\ [][Next]_vars

\* The keepers run on, and a lease nobody keeps alive expires.
FairSpec ==
    /\ Spec
    /\ \A i \in Instances : WF_vars(Clock(i))
    /\ \A i \in Instances : WF_vars(~Running(i) /\ Expire(i))

-----------------------------------------------------------------------------
(* Properties *)

\* The state variables keep their types.
TypeOK ==
    /\ state \in [Instances -> States]
    /\ info \in [Instances -> BOOLEAN]
    /\ lease \subseteq Instances
    /\ rev \in Nat /\ key \in [Instances -> Nat]
    /\ owner \in Instances \cup {NoOwner}
    /\ txn \subseteq Instances
    /\ expiries \in 0..MaxExpiries /\ faults \in 0..MaxFaults
    /\ retired \subseteq Instances

\* The instances which have locked the service and whose lease is alive.
Keeper(i) == state[i] \in {"StartOwn", "SetOwner", "Locked", "KeepAlive"} /\ i \in lease

\* "Only one instance of `service_kind` should run at a time!": of the
\* instances whose lease is alive at most one believes it has the lock, however
\* leases expire and lock requests time out.
OneKeeper == \A i, j \in Instances : Keeper(i) /\ Keeper(j) => i = j

\* The instance which has the lock, as its clients see it.
Holder == IF \E i \in Instances : Keeper(i) THEN CHOOSE i \in Instances : Keeper(i) ELSE NoOwner

Promise == INSTANCE ServiceLock WITH holder <- Holder

\* The keepers, their leases and the queue of lock keys implement a lock which
\* is let go before another instance gets it, and whose holder alone is recorded
\* as the owner (start, clock and set_owner_lease of etcd_keep_alive.rs).
ImplementsLock == Promise!Spec

\* The owner key is only ever written by the holder of the lock: the write of
\* set_owner_lease compares the lease of its lock key.
OwnerHoldsLock == [][owner' # owner => Holds(owner')]_vars

\* An instance which finds that another has become the owner stops, or becomes
\* the owner again ("When another instance of `service_kind` appears and take
\* over the lock we shall *panic*").
ReplacedStops ==
    \A i \in Instances :
      (state[i] \in Keeping /\ IsReplaced(i)) ~> (~Running(i) \/ ~IsReplaced(i))

\* An instance which another has replaced as the owner never writes again:
\* "we're not intending to keep the previous owner running".
ReplacedNeverWrites ==
    [][\A i \in Instances : i \in txn \ txn' /\ i \in retired => ~HasKey(i)]_vars

\* The lease is taken out of LeaseLockInfo while it has to be established again
\* ("It removes the lease from `LeaseLockInfo` when it expires").
ExpiredIsRemoved ==
    \A i \in Instances :
      state[i] \in {"LeaseGrant", "Locking", "LockCall", "LockWait", "SetOwner"} => ~info[i]

-----------------------------------------------------------------------------
(* The inductive invariant behind OneKeeper *)

\* Lock keys have distinct revisions, none newer than the last one of etcd, and
\* live on a lease.
KeysOK ==
    /\ \A i \in Instances : key[i] <= rev
    /\ \A i, j \in Instances : HasKey(i) /\ key[i] = key[j] => i = j
    /\ \A i \in Instances : HasKey(i) => i \in lease

\* Who has locked the service and keeps the lease has the oldest lock key.
KeepersHold == \A i \in Instances : Keeper(i) => Holds(i)

LockInv == TypeOK /\ KeysOK /\ KeepersHold
=============================================================================
