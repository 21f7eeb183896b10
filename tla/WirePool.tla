------------------------------ MODULE WirePool ------------------------------
(***************************************************************************)
(* Pools and replicas on their way between the REST API, the core agent    *)
(* and the persistent store.                                               *)
(***************************************************************************)
EXTENDS WireTables

PoolRequests ==
  [DestroyPool |-> Plain({"node", "id"}),
   ExpandPool |-> Plain({"id"}),
   PoolStatus |-> Same({"Unknown", "Online", "Degraded", "Faulted"}),
   PoolSpecStatus |-> Same({"Creating", "Created", "Deleting", "Deleted"})]

RestPoolStatus == Same({"Unknown", "Online", "Degraded", "Faulted"})

-----------------------------------------------------------------------------
(* Requests.                                                               *)

\* models::CreatePoolBody and the path's arguments to CreatePool.
CreatePoolBody ==
  Plain({"node", "id", "disks"}) @@ Opt({"labels", "encryption", "cluster_size", "max_expansion"})

CreatePoolMessages ==
  [ValidatedCreatePool |->
      As("node", "node_id", "plain") @@ As("id", "pool_id", "plain") @@ Plain({"disks"})
        @@ Opt({"labels", "encryption", "cluster_size", "max_expansion"}),
   CreatePoolRequest |->
      As("node_id", "node", "plain") @@ As("pool_id", "id", "plain") @@ Plain({"disks"})
        @@ Opt({"labels", "encryption", "cluster_size", "max_expansion"})]


\* PoolSpec::from(&CreatePool).
SpecOfCreatePool ==
  Plain({"node", "id", "disks"}) @@ Opt({"labels", "encryption", "max_expansion"}) @@ Default({"cluster_size"})
    @@ Set("status", "Creating") @@ Absent({"operation", "creat_tsc", "cordon_drain"})

\* The creation is tried again, and the pool imported, from its spec.
CreatePoolOfSpec ==
  Plain({"node", "id", "disks", "cluster_size"}) @@ Opt({"labels", "encryption", "max_expansion"})
ImportPoolOfSpec == Plain({"node", "id", "disks"}) @@ Opt({"encryption"}) @@ Absent({"uuid"})

PutPoolLabel == Plain({"pool_id", "labels"}) @@ Default({"overwrite"})
PoolLabelRequests ==
  [LabelPool |-> Plain({"pool_id", "labels", "overwrite"}),
   UnlabelPool |-> Plain({"pool_id", "label_key"}),
   EncryptionSecret |-> Plain({"name"})]

PoolBodies ==
  [DelPoolLabel |-> Plain({"pool_id", "label_key"}),
   PutPoolCordon |->
      Plain({"pool_id", "replicas", "snapshots", "restores", "import"}) @@ Absent({"node_id"}),
   DelPoolCordon |->
      Plain({"pool_id", "replicas", "snapshots", "restores", "import"}) @@ Absent({"node_id"})]

PoolCordonRequest == Opt({"node_id"}) @@ Plain({"pool_id", "replicas", "snapshots", "restores", "import"})

\* A pool has a spec, a state or both, and each of them must parse.
\* One of a volume, a node, a node's pool and a pool; only the volume's
\* identifier must parse.
PoolMessages ==
  [FromPool |-> OptParse({"definition", "state"}),
   ToPoolDefinition |->
      As("node_id", "node", "plain") @@ As("pool_id", "id", "plain") @@ Plain({"disks", "cluster_size"})
        @@ Opt({"labels", "cordon_drain"}) @@ As("secret", "encryption", "opt")
        @@ Enum("spec_status", "status", PoolRequests.PoolSpecStatus, "Creating"),
   ToPoolState |->
      As("node_id", "node", "plain") @@ As("pool_id", "id", "plain") @@ As("disks_uri", "disks", "plain")
        @@ Plain({"capacity", "used", "encrypted", "cluster_size"})
        @@ Enum("status", "status", PoolRequests.PoolStatus, "Unknown") @@ Opt({"committed", "disk_capacity", "max_expandable_size"}),
   ToPool |-> Opt({"definition", "state"}),
   Pools |-> ParseAll({"pools"}),
   PoolFilter |-> ParsePlain({"volume_id"}) @@ Plain({"node_id", "pool_id"})]

-----------------------------------------------------------------------------
(* The pool as the core agent reports it.                                  *)

StoredPoolSpec ==
  Need({"node", "id", "disks"}) @@ Enum("status", "status", PoolRequests.PoolSpecStatus, "missing_argument")
    @@ Opt({"labels", "operation", "encryption", "cordon_drain", "max_expansion"})
    @@ Default({"cluster_size"}) @@ Absent({"creat_tsc"})

\* The message has no place for the maximum expansion.
FromPoolDefinition ==
  As("node", "node_id", "plain") @@ As("id", "pool_id", "plain") @@ Plain({"disks"})
    @@ Opt({"labels", "cordon_drain"}) @@ As("encryption", "secret", "opt") @@ Default({"cluster_size"})
    @@ Enum("status", "spec_status", PoolRequests.PoolSpecStatus, "Creating")
    @@ Absent({"operation", "creat_tsc", "max_expansion"})

RestPoolSpec ==
  Plain({"disks", "id", "node", "cluster_size"}) @@ Opt({"labels", "encryption", "cordon_drain", "max_expansion"})
    @@ Enum("status", "status", PoolRequests.PoolSpecStatus, "Creating")

FromPoolState ==
  As("node", "node_id", "plain") @@ As("id", "pool_id", "plain") @@ As("disks", "disks_uri", "plain")
    @@ Plain({"capacity", "used"}) @@ Default({"encrypted", "cluster_size"})
    @@ Enum("status", "status", PoolRequests.PoolStatus, "Unknown") @@ Opt({"committed", "disk_capacity", "max_expandable_size"})
RestPoolState ==
  Plain({"capacity", "disks", "id", "node", "used", "encrypted", "cluster_size"})
    @@ Opt({"committed", "disk_capacity", "max_expandable_size"})
    @@ Enum("status", "status", RestPoolStatus, "Unknown")

RestEncryption == Plain({"name"})

-----------------------------------------------------------------------------
(* The paths.                                                              *)

ShownPoolSpec == <<Own(PoolMessages.ToPoolDefinition), Grpc(FromPoolDefinition), Own(RestPoolSpec)>>

PoolPaths ==
  [put_node_pool |->
     [Path(<<Own(CreatePoolBody), Own(CreatePoolMessages.CreatePoolRequest), Grpc(CreatePoolMessages.ValidatedCreatePool), Own(SpecOfCreatePool),
             Grpc(StoredPoolSpec)>> \o ShownPoolSpec)
        EXCEPT !.lost = {"status", "cordon_drain", "max_expansion"}, !.dropped = {"max_expansion"}],
   pool_retry |-> Path(<<Own(CreatePoolBody), Own(CreatePoolMessages.CreatePoolRequest), Grpc(CreatePoolMessages.ValidatedCreatePool),
                         Own(SpecOfCreatePool), Grpc(StoredPoolSpec), Own(CreatePoolOfSpec)>>),
   pool_import |-> [Path(<<Grpc(StoredPoolSpec), Own(ImportPoolOfSpec)>>)
                      EXCEPT !.lost = {"uuid"},
                             !.dropped = {"status", "labels", "operation", "cordon_drain", "max_expansion",
                                          "cluster_size"}],
   pool_spec |-> [Path(<<Grpc(StoredPoolSpec)>> \o ShownPoolSpec)
                    EXCEPT !.lost = {"max_expansion"}, !.dropped = {"operation", "max_expansion"}],
   pool_state |-> Path(<<Own(PoolMessages.ToPoolState), Grpc(FromPoolState), Own(RestPoolState)>>),
   pool |-> Path(<<Own(PoolMessages.ToPool), Grpc(PoolMessages.FromPool)>>),
   pools |-> Path(<<Grpc(PoolMessages.Pools)>>),
   del_node_pool |-> Path(<<Grpc(PoolRequests.DestroyPool)>>),
   put_pool_expand |-> Path(<<Grpc(PoolRequests.ExpandPool)>>),
   put_pool_label |-> Path(<<Own(PutPoolLabel), Grpc(PoolLabelRequests.LabelPool)>>),
   del_pool_label |-> Path(<<Own(PoolBodies.DelPoolLabel), Grpc(PoolLabelRequests.UnlabelPool)>>),
   put_pool_cordon |-> [Path(<<Own(PoolBodies.PutPoolCordon), Grpc(PoolCordonRequest)>>) EXCEPT !.lost = {"node_id"}],
   del_pool_cordon |-> [Path(<<Own(PoolBodies.DelPoolCordon), Grpc(PoolCordonRequest)>>) EXCEPT !.lost = {"node_id"}],
   get_pools |-> Path(<<Grpc(PoolMessages.PoolFilter)>>),
   pool_encryption |-> Path(<<Own(RestEncryption), Grpc(PoolLabelRequests.EncryptionSecret), Own(RestEncryption)>>)]
-----------------------------------------------------------------------------
(* Replicas.                                                               *)

RestReplicaState == Same({"Unknown", "Online", "Degraded", "Faulted"})
ReplicaKinds ==
  [ReplicaKind |-> Same({"Regular", "Snapshot", "SnapshotClone"}),
   ToSpaceUsage |->
      Plain({"capacity_bytes", "allocated_bytes", "allocated_bytes_snapshots", "allocated_bytes_all_snapshots",
        "cluster_size", "clusters", "allocated_clusters", "allocated_clusters_snapshots"})]

RestReplicaKind == Same({"Regular", "Snapshot", "SnapshotClone"})
\* disown_all stays behind.
ReplicaSpecParts ==
  [ReplicaShareProtocol |-> Same({"Nvmf"}),
   ReplicaSpecStatus |-> Same({"Creating", "Created", "Deleting", "Deleted"}),
   ReplicaOwners |-> OptParse({"volume"}) @@ ParseAll({"nexuses"})]

ReplicaOperation == Same({"Create", "Destroy", "Share", "Unshare", "OwnerUpdate", "Resize"})

-----------------------------------------------------------------------------
(* Requests.                                                               *)

\* The message has no name; the receiver takes the identifier for it.
ReplicaShareRequests ==
  [ShareReplicaRequest |->
      Plain({"node", "pool_id", "uuid", "allowed_hosts"}) @@ Opt({"name", "pool_uuid"})
        @@ Enum("protocol", "protocol", ReplicaSpecParts.ReplicaShareProtocol, "Nvmf"),
   UnshareReplicaRequest |-> Plain({"node", "pool_id", "uuid"}) @@ Opt({"name", "pool_uuid"}),
   ResizeReplicaRequest |-> Plain({"node", "pool_id", "uuid", "requested_size"}),
   Protocol |-> Same({"None", "Nvmf", "Iscsi", "Nbd"}),
   ReplicaStatus |-> Same({"Unknown", "Online", "Degraded", "Faulted"})]

\* models::CreateReplicaBody to CreateReplicaBody, and on to CreateReplica.
CreateReplicaBody ==
  Plain({"node", "pool_id", "uuid", "size", "thin", "encrypted"}) @@ ParseAll({"allowed_hosts"})
    @@ DefaultEnum("share", "share", [Nvmf |-> "Nvmf"], "None")
ToCreateReplica ==
  Plain({"node", "pool_id", "uuid", "size", "thin", "allowed_hosts", "encrypted"})
    @@ Enum("share", "share", ReplicaShareRequests.Protocol, "None") @@ Fixed({"managed", "owners"})
    @@ Absent({"name", "entity_id", "pool_uuid", "kind"})

ReplicaRequests ==
  [ResizeReplica |->
      Plain({"node", "pool_id", "requested_size"}) @@ ParsePlain({"uuid"}) @@ As("name", "uuid", "plain"),
   CreateReplicaRequest |->
      Plain({"node", "pool_id", "uuid", "size", "thin", "managed", "owners", "allowed_hosts"})
        @@ Opt({"name", "entity_id", "pool_uuid", "encrypted"}) @@ Enum("share", "share", ReplicaShareRequests.Protocol, "None"),
   DestroyReplicaRequest |->
      Plain({"node", "pool_id", "uuid", "disowners"}) @@ Opt({"name", "pool_uuid"})]

ValidatedCreateReplica ==
  Plain({"node", "pool_id", "size", "thin", "managed"}) @@ Parse({"uuid"}) @@ Need({"owners"})
    @@ ParseAll({"allowed_hosts"}) @@ Opt({"name", "encrypted"}) @@ OptParse({"entity_id", "pool_uuid"})
    @@ Enum("share", "share", ReplicaShareRequests.Protocol, "None") @@ Absent({"kind"})

\* ReplicaSpec::from(&CreateReplica); the node is the pool's.
SpecOfCreateReplica ==
  Plain({"uuid", "size", "thin", "managed", "owners", "allowed_hosts"}) @@ As("pool", "pool_id", "plain")
    @@ Enum("share", "share", ReplicaShareRequests.Protocol, "None") @@ Default({"name", "encrypted"})
    @@ Opt({"pool_uuid", "kind"}) @@ Set("status", "Creating") @@ Absent({"operation"})

ReplicaBodies ==
  [DestroyReplicaBody |->
      Plain({"node", "pool_id", "uuid"}) @@ Fixed({"disowners"}) @@ Absent({"pool_uuid", "name"}),
   ShareReplicaBody |->
      Plain({"node", "pool_id", "uuid"}) @@ ParseAll({"allowed_hosts"})
        @@ Set("protocol", "Nvmf") @@ Absent({"pool_uuid", "name"}),
   UnshareReplicaBody |-> Plain({"node", "pool_id", "uuid"}) @@ Absent({"pool_uuid", "name"})]

DestroyReplica == Plain({"node", "pool_id"}) @@ Opt({"name"}) @@ OptParse({"pool_uuid"})
                    @@ Parse({"uuid"}) @@ Need({"disowners"})
ShareReplica == Plain({"node", "pool_id"}) @@ Opt({"name"}) @@ OptParse({"pool_uuid"}) @@ Parse({"uuid"})
                  @@ ParseAll({"allowed_hosts"}) @@ Enum("protocol", "protocol", ReplicaSpecParts.ReplicaShareProtocol, "Nvmf")

UnshareReplica == Plain({"node", "pool_id"}) @@ Opt({"name"}) @@ OptParse({"pool_uuid"}) @@ Parse({"uuid"})

\* The identifiers in a filter.
ReplicaListings ==
  [ReplicaFilter |->
      Plain({"node_id", "pool_id"}) @@ ParsePlain({"replica_id", "volume_id"}),
   Replicas |-> ParseAll({"replicas"})]

-----------------------------------------------------------------------------
(* The replica as the core agent reports it.                               *)

ToReplica ==
  Plain({"node", "name", "uuid", "pool_id", "thin", "size", "uri"})
    @@ Opt({"entity_id", "pool_uuid", "space", "encrypted"}) @@ Enum("share", "share", ReplicaShareRequests.Protocol, "None")
    @@ Enum("status", "status", ReplicaShareRequests.ReplicaStatus, "Unknown") @@ Enum("kind", "kind", ReplicaKinds.ReplicaKind, "Regular")
RestReplica ==
  Plain({"node", "pool_id", "size", "thin", "uri", "uuid"}) @@ Opt({"pool_uuid", "space", "encrypted"})
    @@ Enum("share", "share", ReplicaShareRequests.Protocol, "None") @@ Enum("state", "status", RestReplicaState, "Unknown")
    @@ Enum("kind", "kind", RestReplicaKind, "Regular") @@ Absent({"allowed_hosts"})

\* The hosts that may connect are not in the message; an unknown kind is a
\* regular one.
ReplicaReplies ==
  [FromReplica |->
      Plain({"node", "name", "pool_id", "thin", "size", "uri"}) @@ Parse({"uuid"})
        @@ OptParse({"entity_id", "pool_uuid"}) @@ Opt({"space", "encrypted"})
        @@ Enum("share", "share", ReplicaShareRequests.Protocol, "None") @@ Enum("status", "status", ReplicaShareRequests.ReplicaStatus, "Unknown")
        @@ LaxEnum("kind", "kind", ReplicaKinds.ReplicaKind, "Regular") @@ Fixed({"allowed_hosts"}),
   FromSpaceUsage |-> ReplicaKinds.ToSpaceUsage]

RestSpaceUsage ==
  Plain({"capacity_bytes", "allocated_bytes", "allocated_bytes_snapshots", "allocated_bytes_all_snapshots",
         "cluster_size", "clusters", "allocated_clusters"})

RestReplicaOwners == Opt({"volume"}) @@ Plain({"nexuses"})

StoredReplicaSpec ==
  Need({"name", "uuid", "size", "pool", "thin", "managed", "owners"})
    @@ Enum("share", "share", ReplicaShareRequests.Protocol, "missing_argument")
    @@ Enum("status", "status", ReplicaSpecParts.ReplicaSpecStatus, "missing_argument")
    @@ Opt({"pool_uuid"}) @@ OptEnum("operation", "operation", ReplicaOperation)
    @@ OptEnum("kind", "kind", ReplicaKinds.ReplicaKind)
    @@ Default({"allowed_hosts", "encrypted"})

\* Every pending operation is read back as a creation.
ReplicaSpecs ==
  [FromReplicaSpec |->
      Plain({"name", "size", "pool", "thin", "managed"}) @@ Parse({"uuid"}) @@ Need({"owners"})
        @@ OptParse({"pool_uuid"}) @@ Enum("share", "share", ReplicaShareRequests.Protocol, "None")
        @@ Enum("status", "status", ReplicaSpecParts.ReplicaSpecStatus, "Creating")
        @@ OptLaxEnum("operation", "operation", [pending |-> "Create"], "Create") @@ OptLaxEnum("kind", "kind", ReplicaKinds.ReplicaKind, "Regular")
        @@ Default({"encrypted"}) @@ Fixed({"allowed_hosts"}),
   ToReplicaSpec |->
      Plain({"name", "uuid", "size", "pool", "thin", "managed", "owners", "encrypted"})
        @@ Opt({"pool_uuid"}) @@ Enum("share", "share", ReplicaShareRequests.Protocol, "None")
        @@ OptEnum("operation", "operation", [op \in DOMAIN ReplicaOperation |-> "pending"])
        @@ Enum("status", "status", ReplicaSpecParts.ReplicaSpecStatus, "Creating") @@ OptEnum("kind", "kind", ReplicaKinds.ReplicaKind)]

RestReplicaSpec ==
  Plain({"managed", "owners", "pool", "size", "thin", "uuid", "encrypted"}) @@ Opt({"pool_uuid"})
    @@ Enum("share", "share", ReplicaShareRequests.Protocol, "None") @@ Enum("status", "status", ReplicaSpecParts.ReplicaSpecStatus, "Creating")
    @@ OptEnum("kind", "kind", RestReplicaKind) @@ Absent({"operation"})

-----------------------------------------------------------------------------
(* The paths.                                                              *)

ShownReplicaSpec == <<Own(ReplicaSpecs.ToReplicaSpec), Grpc(ReplicaSpecs.FromReplicaSpec), Own(RestReplicaSpec)>>

ReplicaPaths ==
  [put_replica |->
     [Path(<<Own(CreateReplicaBody), Own(ToCreateReplica), Own(ReplicaRequests.CreateReplicaRequest), Grpc(ValidatedCreateReplica),
             Own(SpecOfCreateReplica), Grpc(StoredReplicaSpec)>> \o ShownReplicaSpec)
        EXCEPT !.renamed = [pool |-> "pool_id"],
               !.lost = {"managed", "owners", "pool_uuid", "kind", "operation", "status"},
               !.dropped = {"node", "allowed_hosts"}, !.merged = [share |-> [none |-> "None"]]],
   create_replica |->
     [Path(<<Own(ReplicaRequests.CreateReplicaRequest), Grpc(ValidatedCreateReplica)>>) EXCEPT !.lost = {"kind"}],
   destroy_replica |->
     [Path(<<Own(ReplicaBodies.DestroyReplicaBody), Own(ReplicaRequests.DestroyReplicaRequest), Grpc(DestroyReplica)>>)
        EXCEPT !.lost = {"disowners", "pool_uuid", "name"}],
   share_replica |->
     [Path(<<Own(ReplicaBodies.ShareReplicaBody), Own(ReplicaShareRequests.ShareReplicaRequest), Grpc(ShareReplica)>>)
        EXCEPT !.lost = {"protocol", "pool_uuid", "name"}],
   unshare_replica |->
     [Path(<<Own(ReplicaBodies.UnshareReplicaBody), Own(ReplicaShareRequests.UnshareReplicaRequest), Grpc(UnshareReplica)>>)
        EXCEPT !.lost = {"pool_uuid", "name"}],
   resize_replica |-> [Path(<<Own(ReplicaShareRequests.ResizeReplicaRequest), Grpc(ReplicaRequests.ResizeReplica)>>) EXCEPT !.renamed = [name |-> "uuid"]],
   get_replicas |-> Path(<<Grpc(ReplicaListings.ReplicaFilter)>>),
   replica |->
     [Path(<<Own(ToReplica), Grpc(ReplicaReplies.FromReplica), Own(RestReplica)>>)
        EXCEPT !.renamed = [state |-> "status"], !.lost = {"allowed_hosts"}, !.dropped = {"name", "entity_id"},
               !.lax = {"Regular"}],
   space_usage |-> [Path(<<Own(ReplicaKinds.ToSpaceUsage), Grpc(ReplicaReplies.FromSpaceUsage), Own(RestSpaceUsage)>>)
                      EXCEPT !.dropped = {"allocated_clusters_snapshots"}],
   replicas |-> Path(<<Grpc(ReplicaListings.Replicas)>>),
   replica_owners |-> Path(<<Grpc(ReplicaSpecParts.ReplicaOwners), Own(RestReplicaOwners)>>),
   replica_spec |->
     [Path(<<Grpc(StoredReplicaSpec)>> \o ShownReplicaSpec)
        EXCEPT !.lost = {"operation"}, !.dropped = {"operation", "name", "allowed_hosts"}, !.lax = {"Regular"}]]
=============================================================================
