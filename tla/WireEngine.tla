----------------------------- MODULE WireEngine -----------------------------
(***************************************************************************)
(* The messages between the core agent and the io-engine, in the two       *)
(* versions of its API, as the rest of a path: what a request becomes      *)
(* after the core agent accepted it, and what the state that an io-engine  *)
(* reports becomes until the REST API shows it.                            *)
(***************************************************************************)
EXTENDS WireNexus

-----------------------------------------------------------------------------
(* Requests to the io-engine.                                              *)

\* A replica without a name is named by its identifier.
ReplicaRequestsV1 ==
  [StatusOfErrno |-> [zero |-> "none", errno |-> "errno"],
   ReplicaSnapshotReplyV1 |-> Need({"snapshot"}),
   SnapshotInfoV1 |->
      Plain({"num_clones", "entity_id", "txn_id", "ready_as_source"})
        @@ As("snap_name", "snapshot_name", "plain") @@ As("allocated_size", "snapshot_size", "plain")
        @@ As("pool_id", "pool_name", "plain") @@ As("replica_size", "source_size", "plain")
        @@ As("valid", "valid_snapshot", "plain") @@ As("predecessor_alloc_size", "referenced_bytes", "plain")
        @@ As("discarded", "discarded_snapshot", "plain") @@ As("snap_time", "timestamp", "default")
        @@ As("snap_uuid", "snapshot_uuid", "parseplain") @@ ParsePlain({"pool_uuid"})
        @@ As("replica_uuid", "source_uuid", "parseall"),
   CreateReplicaV1 |->
      Plain({"uuid", "thin", "size", "allowed_hosts"}) @@ Opt({"entity_id"}) @@ Either("name", "name", "uuid")
        @@ Either("pooluuid", "pool_uuid", "pool_id") @@ Enum("share", "share", ReplicaShareRequests.Protocol, "None"),
   ShareReplicaV1 |->
      Plain({"uuid", "allowed_hosts"}) @@ Enum("share", "protocol", ReplicaSpecParts.ReplicaShareProtocol, "Nvmf"),
   UnshareReplicaV1 |-> Plain({"uuid"}),
   DestroyReplicaV1 |-> Plain({"uuid"}) @@ Either("pool", "pool_uuid", "pool_id"),
   ResizeReplicaV1 |-> Plain({"uuid", "requested_size"}),
   SetReplicaEntityIdV1 |-> Plain({"uuid", "entity_id"})]

\* No committed bytes in a pool that is in use means that the io-engine does
\* not count them.
PoolRequestsV1 ==
  [CommittedOf |-> [counted |-> "counted", uncounted |-> "none"],
   CreatePoolV1 |->
      As("name", "id", "plain") @@ Plain({"disks"}) @@ Opt({"cluster_size", "max_expansion", "encryption"})
        @@ Fixed({"pooltype"}) @@ Absent({"uuid", "md_resv_ratio"}),
   DestroyPoolV1 |-> As("name", "id", "plain") @@ Absent({"uuid"}),
   ExpandPoolV1 |-> As("name", "id", "plain") @@ Absent({"uuid"}),
   ImportPoolV1 |->
      As("name", "id", "plain") @@ Plain({"disks"}) @@ Opt({"encryption"})
        @@ Fixed({"pooltype"}) @@ Absent({"uuid"}),
   GetRebuildRecordV1 |-> As("uuid", "nexus", "plain"),
   ListRebuildRecordV1 |-> Opt({"count"}) @@ As("since_end_time", "since_time", "opt"),
   RebuildHistoryV1 |-> Plain({"name"}) @@ ParsePlain({"uuid"}) @@ ParseAll({"records"})]

\* The members of the nvmf configuration travel one by one; without one the
\* defaults without reservations are used.
CreateNexusV1 == Plain({"uuid", "size", "children"}) @@ As("name", "uuid", "plain")
                   @@ As("nexus_info_key", "uuid", "plain") @@ Default({"config"})
DestroyNexusV1 == Plain({"uuid"})
ResizeNexusV1 == Plain({"uuid", "requested_size"})
ShareNexusV1 == Plain({"uuid", "allowed_hosts"}) @@ Default({"key"}) @@ Enum("share", "protocol", NexusShareProtocol, "Nvmf")
UnshareNexusV1 == Plain({"uuid"})
\* Discarded snapshots are never asked for.
SnapshotRequestsV1 ==
  [ChildActionKind |->
      [Offline |-> "Offline", Online |-> "Online", Retire |-> "FaultIoError"],
   CreateNexusSnapshotV1 |->
      As("nexus_uuid", "nexus", "plain") @@ As("entity_id", "entity", "plain")
        @@ Plain({"txn_id"}) @@ As("snapshot_name", "name", "plain")
        @@ As("replicas", "replica_desc", "plain"),
   SnapReplicaDescrV1 |->
      As("replica_uuid", "replica", "plain") @@ As("snapshot_uuid", "snap_uuid", "opt") @@ Fixed({"skip"}),
   CreateReplicaSnapshotV1 |->
      As("replica_uuid", "replica", "plain") @@ As("snapshot_uuid", "uuid", "plain")
        @@ As("snapshot_name", "name", "plain") @@ As("entity_id", "entity", "plain")
        @@ Plain({"txn_id"}),
   ListReplicaSnapshotsV1 |->
      As("source_uuid", "replica", "opt") @@ As("snapshot_uuid", "snapshot", "opt")
        @@ Set("discarded", "no") @@ Absent({"invalid"}),
   ShutdownNexusV1 |-> Plain({"uuid"})]

Negated == [yes |-> "no", no |-> "yes"]
AddNexusChildV1 == As("uuid", "nexus", "plain") @@ Plain({"uri"}) @@ Enum("norebuild", "auto_rebuild", Negated, "yes")
RemoveNexusChildV1 == As("uuid", "nexus", "plain") @@ Plain({"uri"})
FaultNexusChildV1 == As("uuid", "nexus", "plain") @@ Plain({"uri"})
ChildRequestsV0 ==
  [AddNexusChildV0 |-> AddNexusChildV1,
   RemoveNexusChildV0 |-> RemoveNexusChildV1,
   FaultNexusChildV0 |-> FaultNexusChildV1,
   ShutdownNexusV0 |-> Plain({"uuid"})]

NexusChildActionV1 == As("nexus_uuid", "nexus", "plain") @@ Plain({"uri"}) @@ Enum("action", "action", SnapshotRequestsV1.ChildActionKind, "Offline")

CloneRequestsV1 ==
  [CreateSnapshotCloneV1 |->
      Plain({"snapshot_uuid"}) @@ As("clone_name", "name", "plain") @@ As("clone_uuid", "uuid", "plain"),
   ListSnapshotClonesV1 |-> As("snapshot_uuid", "uuid", "opt"),
   SnapshotRebuildV1 |->
      Plain({"snapshot_uri", "replica_uri", "total", "rebuilt", "remaining", "persisted_checkpoint", "status"})
        @@ ParsePlain({"uuid", "replica_uuid", "snapshot_uuid"}) @@ Opt({"start_timestamp", "end_timestamp"})]

-----------------------------------------------------------------------------
(* State that the io-engine reports.                                       *)

\* Protocol::from(i32) does not know NBD, and takes every other number for
\* "not shared".
ShareOfNumber == [None |-> "None", Nvmf |-> "Nvmf", Iscsi |-> "Iscsi", Nbd |-> "None"]
PoolStatusOfNumber == Same({"Unknown", "Online", "Degraded", "Faulted"})

\* The scheme of the device URI, empty when the nexus is not shared.
ShareOfUri == [empty |-> "None", nvmf |-> "Nvmf", iscsi |-> "Iscsi", nbd |-> "Nbd"]

\* is_snapshot and is_clone.
KindOfFlags == [neither |-> "Regular", snapshot |-> "Snapshot", clone |-> "SnapshotClone", both |-> "Snapshot"]

\* Of several mount points the first is kept.
\* The snapshots of a clone are counted from the clone when it says so.
StatesV1 ==
  [PartitionV1 |-> Plain({"parent", "number", "name", "scheme", "typeid", "uuid"}),
   FilesystemV1 |->
      Plain({"fstype", "label", "uuid"}) @@ As("mountpoint", "mountpoints", "default"),
   BlockDeviceV1 |->
      Plain({"devname", "devtype", "devmajor", "devminor", "model", "devpath", "devlinks", "size",
        "available", "connection_type"}) @@ Opt({"partition", "filesystem", "is_rotational"}),
   ReplicaV1 |->
      Plain({"name", "thin", "size", "uri"}) @@ ParsePlain({"uuid"}) @@ LaxParse({"entity_id"})
        @@ As("pool_id", "poolname", "plain") @@ As("pool_uuid", "pooluuid", "parseplain") @@ As("space", "usage", "opt")
        @@ LaxEnum("share", "share", ShareOfNumber, "None") @@ MarkInvalid({"allowed_hosts"})
        @@ Enum("kind", "flags", KindOfFlags, "Regular") @@ Opt({"encrypted"}) @@ Set("status", "Online") @@ Fixed({"node"}),
   SpaceUsageV1 |->
      Plain({"capacity_bytes", "allocated_bytes", "cluster_size"})
        @@ Either("allocated_bytes_snapshots", "allocated_bytes_snapshot_from_clone", "allocated_bytes_snapshots")
        @@ As("allocated_bytes_all_snapshots", "allocated_bytes_snapshots", "plain")
        @@ As("clusters", "num_clusters", "plain") @@ As("allocated_clusters", "num_allocated_clusters", "plain")
        @@ As("allocated_clusters_snapshots", "num_allocated_clusters_snapshots", "plain")]

NexusEnumsV1 ==
  [NexusStateV1 |->
      [NexusUnknown |-> "Unknown", NexusOnline |-> "Online", NexusDegraded |-> "Degraded",
        NexusFaulted |-> "Faulted", NexusShuttingDown |-> "ShuttingDown", NexusShutdown |-> "Shutdown"],
   ChildStateV1 |-> Same({"Unknown", "Online", "Degraded", "Faulted"}),
   ChildReasonV1 |-> FromChildStateReason]

NexusEnumsV0 ==
  [NexusStateV0 |-> NexusEnumsV1.NexusStateV1,
   ChildStateV0 |-> NexusEnums.FromChildState,
   ChildReasonV0 |-> FromChildStateReason]

NexusV1 ==
  Plain({"name", "size", "children", "device_uri", "rebuilds"}) @@ ParsePlain({"uuid"})
    @@ LaxEnum("status", "state", NexusEnumsV1.NexusStateV1, "Unknown") @@ LaxEnum("share", "scheme", ShareOfUri, "None")
    @@ MarkInvalid({"allowed_hosts"}) @@ Fixed({"node"})
StatesV0 ==
  [PartitionV0 |-> Plain({"parent", "number", "name", "scheme", "typeid", "uuid"}),
   FilesystemV0 |-> Plain({"fstype", "label", "uuid", "mountpoint"}),
   BlockDeviceV0 |->
      Plain({"devname", "devtype", "devmajor", "devminor", "model", "devpath", "devlinks", "size",
        "available"}) @@ Opt({"partition", "filesystem"}) @@ Absent({"is_rotational"})
        @@ Fixed({"connection_type"}),
   PoolV0 |->
      As("id", "name", "plain") @@ Plain({"disks", "capacity", "used"})
        @@ LaxEnum("status", "state", PoolStatusOfNumber, "Unknown") @@ Fixed({"node", "encrypted", "cluster_size"})
        @@ Absent({"committed", "disk_capacity", "max_expandable_size"}),
   ReplicaV0 |->
      Plain({"name", "thin", "size", "uri"}) @@ ParsePlain({"uuid"}) @@ As("pool_id", "pool", "plain")
        @@ LaxEnum("share", "share", ShareOfNumber, "None") @@ MarkInvalid({"allowed_hosts"})
        @@ Set("kind", "Regular") @@ Set("status", "Online") @@ Fixed({"node"})
        @@ Absent({"entity_id", "pool_uuid", "space", "encrypted"}),
   NexusV2OfV0 |-> NexusV1]

\* The reply to a creation; its uuid is patched up by the caller.
NexusV0 ==
  Plain({"size", "children", "device_uri", "rebuilds", "uuid"}) @@ As("name", "uuid", "plain")
    @@ LaxEnum("status", "state", NexusEnumsV0.NexusStateV0, "Unknown") @@ LaxEnum("share", "scheme", ShareOfUri, "None")
    @@ MarkInvalid({"allowed_hosts"}) @@ Fixed({"node"})

ChildV1 == Plain({"uri", "has_io_log"}) @@ LaxEnum("state", "state", NexusEnumsV1.ChildStateV1, "Unknown")
             @@ As("rebuild_progress", "rebuild_progress", "laxparse") @@ As("faulted_at", "fault_timestamp", "laxparse")
             @@ LaxEnum("state_reason", "state_reason", NexusEnumsV1.ChildReasonV1, "Unknown")
\* The first version of the API knows a replica by its name.
RequestsV0 ==
  [ChildV0 |->
      Plain({"uri"}) @@ LaxEnum("state", "state", NexusEnumsV0.ChildStateV0, "Unknown") @@ LaxParse({"rebuild_progress"})
        @@ LaxEnum("state_reason", "reason", NexusEnumsV0.ChildReasonV0, "Unknown") @@ Absent({"faulted_at", "has_io_log"}),
   CreateReplicaV0 |->
      Plain({"uuid", "thin", "size", "allowed_hosts"}) @@ Either("name", "name", "uuid") @@ As("pool", "pool_id", "plain")
        @@ Enum("share", "share", ReplicaShareRequests.Protocol, "None"),
   ShareReplicaV0 |->
      Either("uuid", "name", "uuid") @@ Plain({"allowed_hosts"})
        @@ Enum("share", "protocol", ReplicaSpecParts.ReplicaShareProtocol, "Nvmf"),
   UnshareReplicaV0 |->
      Either("uuid", "name", "uuid") @@ Set("share", "None") @@ Fixed({"allowed_hosts"}),
   CreatePoolV0 |-> As("name", "id", "plain") @@ Plain({"disks"}),
   DestroyReplicaV0 |-> Either("uuid", "name", "uuid"),
   DestroyPoolV0 |-> As("name", "id", "plain"),
   CreateNexusV0 |-> CreateNexusV1,
   ShareNexusV0 |-> ShareNexusV1,
   UnshareNexusV0 |-> Plain({"uuid"}),
   DestroyNexusV0 |-> Plain({"uuid"})]

PoolV1 ==
  As("id", "name", "plain") @@ Plain({"disks", "capacity", "used", "cluster_size", "disk_capacity"})
    @@ Enum("committed", "committed", PoolRequestsV1.CommittedOf, "none") @@ Default({"encrypted"}) @@ Opt({"max_expandable_size"})
    @@ LaxEnum("status", "state", PoolStatusOfNumber, "Unknown") @@ Fixed({"node"})
\* Without a time a snapshot was taken at the epoch.
NexusSnapshotReplyV1 == Need({"nexus"}) @@ As("snap_time", "snapshot_timestamp", "default")
                          @@ As("replicas_status", "replicas_done", "parseall") @@ As("skipped", "replicas_skipped", "parseall")
SnapshotReplicaStatusV1 == ParsePlain({"replica_uuid"}) @@ OptEnum("error", "status_code", ReplicaRequestsV1.StatusOfErrno)
RebuildStateV1 == Same({"Init", "Rebuilding", "Stopped", "Paused", "Failed", "Completed"})
RebuildRecordV1 == RebuildCounts @@ Plain({"blocks_per_task"}) @@ ParsePlain({"start_time", "end_time"})
                     @@ LaxEnum("state", "state", RebuildStateV1, "Init")

-----------------------------------------------------------------------------
(* The paths: requests from the core agent's API to the io-engine ...      *)

\* The validated CreateReplica names what the API of the core agent named.
AskedReplica == <<Own(ReplicaRequests.CreateReplicaRequest), Grpc(ValidatedCreateReplica)>>
AskedNexus == <<Own(NexusRequests.CreateNexusRequest), Grpc(NexusConfigs.ValidatedCreateNexus)>>
AskedPool == <<Own(CreatePoolBody), Own(CreatePoolMessages.CreatePoolRequest), Grpc(CreatePoolMessages.ValidatedCreatePool)>>

EngineRequestPaths ==
  [create_replica_v1 |->
     [Path(AskedReplica \o <<Own(ReplicaRequestsV1.CreateReplicaV1)>>)
        EXCEPT !.renamed = [pooluuid |-> "pool_uuid"], !.merged = [name |-> [none |-> "uuid"], pooluuid |-> [none |-> "pool_id"]],
               !.dropped = {"node", "pool_id", "managed", "owners", "encrypted"}],
   create_replica_v0 |->
     [Path(AskedReplica \o <<Own(RequestsV0.CreateReplicaV0)>>)
        EXCEPT !.renamed = [pool |-> "pool_id"], !.merged = [name |-> [none |-> "uuid"]],
               !.dropped = {"node", "entity_id", "pool_uuid", "managed", "owners", "encrypted"}],
   share_replica_v1 |->
     [Path(<<Own(ReplicaShareRequests.ShareReplicaRequest), Grpc(ShareReplica), Own(ReplicaRequestsV1.ShareReplicaV1)>>)
        EXCEPT !.renamed = [share |-> "protocol"], !.dropped = {"node", "pool_id", "name", "pool_uuid"}],
   share_replica_v0 |->
     [Path(<<Own(ReplicaShareRequests.ShareReplicaRequest), Grpc(ShareReplica), Own(RequestsV0.ShareReplicaV0)>>)
        EXCEPT !.renamed = [share |-> "protocol", uuid |-> "name"], !.merged = [uuid |-> [none |-> "uuid"]],
               !.dropped = {"node", "pool_id", "uuid", "pool_uuid"}],
   unshare_replica_v1 |->
     [Path(<<Own(ReplicaShareRequests.UnshareReplicaRequest), Grpc(UnshareReplica), Own(ReplicaRequestsV1.UnshareReplicaV1)>>)
        EXCEPT !.dropped = {"node", "pool_id", "name", "pool_uuid"}],
   unshare_replica_v0 |->
     [Path(<<Own(ReplicaShareRequests.UnshareReplicaRequest), Grpc(UnshareReplica), Own(RequestsV0.UnshareReplicaV0)>>)
        EXCEPT !.renamed = [uuid |-> "name"], !.merged = [uuid |-> [none |-> "uuid"]],
               !.lost = {"share", "allowed_hosts"}, !.dropped = {"node", "pool_id", "uuid", "pool_uuid"}],
   destroy_replica_v1 |->
     [Path(<<Own(ReplicaRequests.DestroyReplicaRequest), Grpc(DestroyReplica), Own(ReplicaRequestsV1.DestroyReplicaV1)>>)
        EXCEPT !.renamed = [pool |-> "pool_uuid"], !.merged = [pool |-> [none |-> "pool_id"]],
               !.dropped = {"node", "pool_id", "name", "disowners"}],
   destroy_replica_v0 |->
     [Path(<<Own(ReplicaRequests.DestroyReplicaRequest), Grpc(DestroyReplica), Own(RequestsV0.DestroyReplicaV0)>>)
        EXCEPT !.renamed = [uuid |-> "name"], !.merged = [uuid |-> [none |-> "uuid"]],
               !.dropped = {"node", "pool_id", "uuid", "pool_uuid", "disowners"}],
   resize_replica_v1 |->
     [Path(<<Own(ReplicaShareRequests.ResizeReplicaRequest), Grpc(ReplicaRequests.ResizeReplica), Own(ReplicaRequestsV1.ResizeReplicaV1)>>)
        EXCEPT !.dropped = {"node", "pool_id"}],
   set_entity_id_v1 |-> Path(<<Own(ReplicaRequestsV1.SetReplicaEntityIdV1)>>),
   create_pool_v1 |->
     [Path(AskedPool \o <<Own(PoolRequestsV1.CreatePoolV1)>>)
        EXCEPT !.renamed = [name |-> "id"], !.lost = {"pooltype", "uuid", "md_resv_ratio"},
               !.dropped = {"node", "labels"}],
   create_pool_v0 |->
     [Path(AskedPool \o <<Own(RequestsV0.CreatePoolV0)>>)
        EXCEPT !.renamed = [name |-> "id"],
               !.dropped = {"node", "labels", "encryption", "cluster_size", "max_expansion"}],
   import_pool_v1 |->
     [Path(<<Grpc(StoredPoolSpec), Own(ImportPoolOfSpec), Own(PoolRequestsV1.ImportPoolV1)>>)
        EXCEPT !.renamed = [name |-> "id"], !.lost = {"pooltype", "uuid"},
               !.dropped = {"node", "status", "labels", "operation", "cordon_drain", "max_expansion", "cluster_size"}],
   destroy_pool_v1 |-> [Path(<<Grpc(PoolRequests.DestroyPool), Own(PoolRequestsV1.DestroyPoolV1)>>)
                          EXCEPT !.renamed = [name |-> "id"], !.lost = {"uuid"}, !.dropped = {"node"}],
   destroy_pool_v0 |-> [Path(<<Grpc(PoolRequests.DestroyPool), Own(RequestsV0.DestroyPoolV0)>>)
                          EXCEPT !.renamed = [name |-> "id"], !.dropped = {"node"}],
   expand_pool_v1 |-> [Path(<<Grpc(PoolRequests.ExpandPool), Own(PoolRequestsV1.ExpandPoolV1)>>)
                         EXCEPT !.renamed = [name |-> "id"], !.lost = {"uuid"}],
   create_nexus_v1 |->
     [Path(AskedNexus \o <<Own(CreateNexusV1)>>)
        EXCEPT !.renamed = [name |-> "uuid", nexus_info_key |-> "uuid"], !.dropped = {"node", "managed", "owner"}],
   create_nexus_v0 |->
     [Path(AskedNexus \o <<Own(RequestsV0.CreateNexusV0)>>)
        EXCEPT !.renamed = [name |-> "uuid", nexus_info_key |-> "uuid"], !.dropped = {"node", "managed", "owner"}],
   recreate_nexus_v1 |->
     [Path(<<Grpc(StoredNexusSpec), Own(CreateNexusOfSpec), Own(CreateNexusV1)>>)
        EXCEPT !.renamed = [name |-> "uuid", nexus_info_key |-> "uuid", config |-> "nvmf_config"],
               !.dropped = {"node", "managed", "owner", "name", "status", "share", "operation", "status_info",
                            "allowed_hosts"}],
   destroy_nexus_v1 |-> [Path(<<Own(DestroyNexusBody), Grpc(NexusRequests.DestroyNexus), Own(DestroyNexusV1)>>) EXCEPT !.dropped = {"node"}],
   destroy_nexus_v0 |-> [Path(<<Own(DestroyNexusBody), Grpc(NexusRequests.DestroyNexus), Own(RequestsV0.DestroyNexusV0)>>) EXCEPT !.dropped = {"node"}],
   resize_nexus_v1 |-> Path(<<Own(ResizeNexusV1)>>),
   share_nexus_v1 |-> [Path(<<Own(NexusShareRequests.ShareNexusRequest), Grpc(ShareNexus), Own(ShareNexusV1)>>)
                         EXCEPT !.renamed = [share |-> "protocol"], !.dropped = {"node"}],
   share_nexus_v0 |-> [Path(<<Own(NexusShareRequests.ShareNexusRequest), Grpc(ShareNexus), Own(RequestsV0.ShareNexusV0)>>)
                         EXCEPT !.renamed = [share |-> "protocol"], !.dropped = {"node"}],
   unshare_nexus_v1 |-> [Path(<<Own(UnshareNexusBody), Grpc(NexusShareRequests.UnshareNexus), Own(UnshareNexusV1)>>) EXCEPT !.dropped = {"node"}],
   unshare_nexus_v0 |-> [Path(<<Own(UnshareNexusBody), Grpc(NexusShareRequests.UnshareNexus), Own(RequestsV0.UnshareNexusV0)>>) EXCEPT !.dropped = {"node"}],
   shutdown_nexus_v1 |-> Path(<<Own(SnapshotRequestsV1.ShutdownNexusV1)>>),
   shutdown_nexus_v0 |-> Path(<<Own(ChildRequestsV0.ShutdownNexusV0)>>),
   add_child_v1 |-> [Path(<<Own(AddNexusChildV1)>>)
                       EXCEPT !.renamed = [uuid |-> "nexus", norebuild |-> "auto_rebuild"], !.merged = [norebuild |-> Negated]],
   add_child_v0 |-> [Path(<<Own(ChildRequestsV0.AddNexusChildV0)>>)
                       EXCEPT !.renamed = [uuid |-> "nexus", norebuild |-> "auto_rebuild"], !.merged = [norebuild |-> Negated]],
   remove_child_v1 |-> [Path(<<Own(RemoveNexusChildV1)>>) EXCEPT !.renamed = [uuid |-> "nexus"]],
   remove_child_v0 |-> [Path(<<Own(ChildRequestsV0.RemoveNexusChildV0)>>) EXCEPT !.renamed = [uuid |-> "nexus"]],
   fault_child_v1 |-> [Path(<<Own(FaultNexusChildV1)>>) EXCEPT !.renamed = [uuid |-> "nexus"]],
   fault_child_v0 |-> [Path(<<Own(ChildRequestsV0.FaultNexusChildV0)>>) EXCEPT !.renamed = [uuid |-> "nexus"]],
   child_action_v1 |-> [Path(<<Own(NexusChildActionV1)>>)
                          EXCEPT !.renamed = [nexus_uuid |-> "nexus"], !.merged = [action |-> [Retire |-> "FaultIoError"]]],
   nexus_snapshot_v1 |->
     [Path(<<Own(SnapshotRequestsV1.CreateNexusSnapshotV1)>>)
        EXCEPT !.renamed = [nexus_uuid |-> "nexus", entity_id |-> "entity", snapshot_name |-> "name", replicas |-> "replica_desc"]],
   snap_replica_v1 |-> [Path(<<Own(SnapshotRequestsV1.SnapReplicaDescrV1)>>)
                          EXCEPT !.renamed = [replica_uuid |-> "replica", snapshot_uuid |-> "snap_uuid"], !.lost = {"skip"}],
   replica_snapshot_v1 |->
     [Path(<<Own(SnapshotRequestsV1.CreateReplicaSnapshotV1)>>)
        EXCEPT !.renamed = [replica_uuid |-> "replica", snapshot_uuid |-> "uuid", snapshot_name |-> "name", entity_id |-> "entity"]],
   list_snapshots_v1 |-> [Path(<<Own(SnapshotRequestsV1.ListReplicaSnapshotsV1)>>)
                            EXCEPT !.renamed = [source_uuid |-> "replica", snapshot_uuid |-> "snapshot"],
                                   !.lost = {"discarded", "invalid"}],
   clone_v1 |-> [Path(<<Own(CloneRequestsV1.CreateSnapshotCloneV1)>>) EXCEPT !.renamed = [clone_name |-> "name", clone_uuid |-> "uuid"]],
   list_clones_v1 |-> [Path(<<Own(CloneRequestsV1.ListSnapshotClonesV1)>>) EXCEPT !.renamed = [snapshot_uuid |-> "uuid"]],
   rebuild_record_v1 |-> [Path(<<Own(PoolRequestsV1.GetRebuildRecordV1)>>) EXCEPT !.renamed = [uuid |-> "nexus"]],
   rebuild_records_v1 |-> [Path(<<Own(PoolRequestsV1.ListRebuildRecordV1)>>) EXCEPT !.renamed = [since_end_time |-> "since_time"]]]

(* ... and what the io-engine reports, on its way to the REST API.         *)

ShownReplica == <<Own(ToReplica), Grpc(ReplicaReplies.FromReplica), Own(RestReplica)>>
ShownNexus == <<Own(NexusMessages.ToNexus), Grpc(NexusMessages.FromNexus), Own(RestNexus)>>
ShownChild == <<Own(ToChild), Grpc(RebuildMessages.FromChild), Own(RestChild)>>
ShownPoolState == <<Own(PoolMessages.ToPoolState), Grpc(FromPoolState), Own(RestPoolState)>>

\* A share that the number does not name, and a child without a known state.
LaxShare == {"None", "Init"}
NexusNames == [state |-> "state", share |-> "scheme"]
ShownReason(reasons) == [r \in DOMAIN reasons |-> RestChildStateReason[reasons[r]]]

EngineReplyPaths ==
  [replica_v1 |->
     [Path(<<Grpc(StatesV1.ReplicaV1)>> \o ShownReplica)
        EXCEPT !.renamed = [pool_id |-> "poolname", pool_uuid |-> "pooluuid", space |-> "usage", kind |-> "flags"],
               !.lost = {"node", "state", "allowed_hosts"}, !.dropped = {"name", "entity_id", "allowed_hosts"},
               !.merged = [share |-> ShareOfNumber, kind |-> KindOfFlags], !.lax = {"None", "Regular"}],
   replica_v0 |->
     [Path(<<Grpc(StatesV0.ReplicaV0)>> \o ShownReplica)
        EXCEPT !.renamed = [pool_id |-> "pool"], !.dropped = {"name", "allowed_hosts"},
               !.lost = {"node", "state", "allowed_hosts", "pool_uuid", "space", "kind", "encrypted"},
               !.merged = [share |-> ShareOfNumber], !.lax = {"None", "Regular"}],
   space_v1 |->
     [Path(<<Grpc(StatesV1.SpaceUsageV1), Own(ReplicaKinds.ToSpaceUsage), Grpc(ReplicaReplies.FromSpaceUsage), Own(RestSpaceUsage)>>)
        EXCEPT !.renamed = [allocated_bytes_snapshots |-> "allocated_bytes_snapshot_from_clone",
                            allocated_bytes_all_snapshots |-> "allocated_bytes_snapshots",
                            clusters |-> "num_clusters", allocated_clusters |-> "num_allocated_clusters"],
               !.merged = [allocated_bytes_snapshots |-> [none |-> "allocated_bytes_snapshots"]],
               !.dropped = {"num_allocated_clusters_snapshots"}],
   nexus_v1 |->
     [Path(<<Grpc(NexusV1)>> \o ShownNexus)
        EXCEPT !.renamed = NexusNames, !.lost = {"node"}, !.dropped = {"name", "allowed_hosts"},
               !.merged = [state |-> NexusEnumsV1.NexusStateV1, share |-> ShareOfUri], !.lax = LaxShare],
   nexus_v2_of_v0 |->
     [Path(<<Grpc(StatesV0.NexusV2OfV0)>> \o ShownNexus)
        EXCEPT !.renamed = NexusNames, !.lost = {"node"}, !.dropped = {"name", "allowed_hosts"},
               !.merged = [state |-> NexusEnumsV1.NexusStateV1, share |-> ShareOfUri], !.lax = LaxShare],
   nexus_v0 |->
     [Path(<<Grpc(NexusV0)>> \o ShownNexus)
        EXCEPT !.renamed = NexusNames, !.lost = {"node"}, !.dropped = {"allowed_hosts"},
               !.merged = [state |-> NexusEnumsV0.NexusStateV0, share |-> ShareOfUri], !.lax = LaxShare],
   child_v1 |->
     [Path(<<Grpc(ChildV1)>> \o ShownChild)
        EXCEPT !.merged = [state_reason |-> ShownReason(NexusEnumsV1.ChildReasonV1)], !.dropped = {"has_io_log", "fault_timestamp"}],
   child_v0 |->
     [Path(<<Grpc(RequestsV0.ChildV0)>> \o ShownChild)
        EXCEPT !.renamed = [state_reason |-> "reason"],
               !.merged = [state |-> NexusEnumsV0.ChildStateV0, state_reason |-> ShownReason(NexusEnumsV0.ChildReasonV0)]],
   pool_v1 |->
     [Path(<<Grpc(PoolV1)>> \o ShownPoolState)
        EXCEPT !.renamed = [id |-> "name", status |-> "state"], !.lost = {"node"}, !.merged = [committed |-> PoolRequestsV1.CommittedOf]],
   pool_v0 |->
     [Path(<<Grpc(StatesV0.PoolV0)>> \o ShownPoolState)
        EXCEPT !.renamed = [id |-> "name", status |-> "state"],
               !.lost = {"node", "encrypted", "cluster_size", "committed", "disk_capacity", "max_expandable_size"}],
   nexus_snapshot_reply_v1 |->
     [Path(<<Grpc(NexusSnapshotReplyV1)>>)
        EXCEPT !.renamed = [snap_time |-> "snapshot_timestamp", replicas_status |-> "replicas_done", skipped |-> "replicas_skipped"]],
   snapshot_status_v1 |-> [Path(<<Grpc(SnapshotReplicaStatusV1)>>)
                             EXCEPT !.renamed = [error |-> "status_code"], !.merged = [error |-> ReplicaRequestsV1.StatusOfErrno]],
   replica_snapshot_reply_v1 |-> Path(<<Grpc(ReplicaRequestsV1.ReplicaSnapshotReplyV1)>>),
   snapshot_rebuild_v1 |-> Path(<<Grpc(CloneRequestsV1.SnapshotRebuildV1)>>),
   rebuild_history_v1 |-> [Path(<<Grpc(PoolRequestsV1.RebuildHistoryV1), Own(RebuildMessages.ToRebuildHistory), Grpc(FromRebuildHistory), Own(RestRebuildHistory)>>)
                             EXCEPT !.dropped = {"name"}],
   rebuild_record_reply_v1 |->
     [Path(<<Grpc(RebuildRecordV1), Own(RebuildMessages.ToRebuildRecord), Grpc(FromRebuildRecord), Own(RestRebuildRecord)>>)
        EXCEPT !.dropped = {"blocks_per_task"}, !.lax = LaxShare]]
=============================================================================
