---------------------------- MODULE WireSnapshot ----------------------------
(***************************************************************************)
(* The conversions of volume snapshots: the requests of the REST API, the  *)
(* spec in the persistent store with the replica snapshots of its          *)
(* transactions, and the snapshots that an io-engine reports.              *)
(***************************************************************************)
EXTENDS WireEngine

-----------------------------------------------------------------------------
(* Requests.                                                               *)

\* Every snapshot, those of a volume, one snapshot, or one of a volume.
\* The number of replica snapshots is counted from the transactions.
\* Whether it is ready is taken from its replica snapshots.
SnapshotBodies ==
  [GetVolumesSnapshots |-> Opt({"volume_id", "snapshot_id"}),
   PutVolumeSnapshot |->
      As("source_id", "volume_id", "plain") @@ As("snap_id", "snapshot_id", "plain"),
   RestVolumeSnapshot |->
      Plain({"source_id", "snap_id", "size", "spec_size", "total_allocated_size", "txn_id", "transactions", "num_restores"})
        @@ Enum("status", "status", SpecStatus, "Creating") @@ Opt({"timestamp"}) @@ Fixed({"num_snapshot_replicas"}),
   RestVolumeSnapshotState |->
      Default({"allocated_size"}) @@ Opt({"timestamp"}) @@ Plain({"replicas"}) @@ Fixed({"ready_as_source"}),
   RestReplicaSnapshot |->
      Plain({"uuid", "source_id"}) @@ Enum("status", "status", SpecStatus, "Creating"),
   RestOnlineSnapshot |->
      Plain({"pool_id", "pool_uuid", "allocated_size", "predecessor_alloc_size"})
        @@ As("uuid", "snap_uuid", "plain") @@ As("source_id", "replica_uuid", "plain")
        @@ As("timestamp", "snap_time", "plain") @@ As("size", "replica_size", "plain"),
   RestOfflineSnapshot |->
      Plain({"uuid", "pool_id", "pool_uuid"}) @@ As("source_id", "replica_id", "plain")]

\* The parts of the message that must be there.
SnapshotRequests ==
  [CreateSnapshotRequest |->
      As("volume_id", "source_id", "plain") @@ As("snapshot_id", "snap_id", "plain"),
   DestroySnapshotRequest |->
      As("volume_id", "source_id", "opt") @@ As("snapshot_id", "snap_id", "plain"),
   VolumeSnapshots |-> ParseAll({"snapshots"}) @@ Opt({"next_token"}),
   FromVolumeSnapshot |->
      Plain({"size", "spec_size", "total_allocated_size", "txn_id", "num_restores"}) @@ ParseAll({"transactions"})
        @@ As("source_id", "volume_id", "parseplain") @@ As("snap_id", "snapshot_id", "parseplain")
        @@ LaxEnum("status", "spec_status", SpecStatus, "Creating") @@ Opt({"timestamp"}),
   VolumeSnapshotParts |-> Need({"spec", "meta", "state"}),
   FromVolumeSnapshotState |->
      Plain({"allocated_size"}) @@ Opt({"timestamp"}) @@ ParseAll({"replicas"})]

ValidatedCreateSnapshot == As("source_id", "volume_id", "parseplain") @@ As("snap_id", "snapshot_id", "parseplain")

\* With and without the volume.
DelVolumeSnapshot == As("source_id", "volume_id", "opt") @@ As("snap_id", "snapshot_id", "plain")
DestroyOfSnapshot == Plain({"source_id", "snap_id"})
ValidatedDestroySnapshot == As("source_id", "volume_id", "optparse") @@ As("snap_id", "snapshot_id", "parseplain")

SnapshotFilter == OptParse({"volume_id", "snapshot_id"})

-----------------------------------------------------------------------------
(* The spec and its metadata.                                              *)

StoredVolumeSnapshot ==
  Need({"source_id", "uuid", "spec_size", "size", "total_allocated_size", "txn_id", "transactions"})
    @@ Enum("status", "status", SpecStatus, "missing_argument") @@ Opt({"timestamp"}) @@ Fixed({"num_restores"})

SnapshotParts ==
  [VolumeSnapshotDef |->
      Plain({"source_id", "size", "spec_size", "total_allocated_size", "txn_id", "transactions", "num_restores"})
        @@ As("snap_id", "uuid", "plain") @@ Enum("status", "status", SpecStatus, "Creating") @@ Opt({"timestamp"}),
   TransactionSnapshot |->
      Plain({"uuid", "source_id"}) @@ Enum("spec_status", "status", SpecStatus, "Creating") @@ Opt({"timestamp"})
        @@ Default({"txn_id"})]

SnapshotReplies ==
  [FromOnlineSnapshot |->
      Plain({"pool_id", "entity_id", "replica_size", "allocated_size", "num_clones", "txn_id", "valid",
        "ready_as_source", "predecessor_alloc_size", "discarded"})
        @@ ParsePlain({"pool_uuid"}) @@ As("snap_uuid", "uuid", "parseplain") @@ As("snap_name", "name", "plain")
        @@ As("replica_uuid", "replica_id", "parseplain") @@ As("snap_time", "timestamp", "default"),
   FromOfflineSnapshot |-> ParsePlain({"uuid", "replica_id", "pool_uuid"}) @@ Plain({"pool_id"}),
   FromSnapshotVariant |-> Expect({"state"}),
   FromTransactionSnapshot |->
      ParsePlain({"uuid", "source_id"}) @@ LaxEnum("status", "spec_status", SpecStatus, "Creating") @@ Opt({"timestamp"})
        @@ Plain({"txn_id"}),
   ToVolumeSnapshot |->
      Plain({"size", "spec_size", "total_allocated_size", "txn_id", "transactions", "num_restores"})
        @@ As("volume_id", "source_id", "plain") @@ As("snapshot_id", "snap_id", "plain")
        @@ Enum("spec_status", "status", SpecStatus, "Creating") @@ Opt({"timestamp"})]

\* A replica snapshot of a transaction.
StoredReplicaSnapshot ==
  Need({"uuid", "source_id"}) @@ Enum("status", "status", SpecStatus, "missing_argument") @@ Opt({"timestamp", "txn_id"})

-----------------------------------------------------------------------------
(* The state of a snapshot and of its replica snapshots.                   *)

\* A replica snapshot is online, or known only by its spec.
SnapshotStates ==
  [SnapshotVariant |-> Same({"Online", "Offline"}),
   OfflineOfSpec |->
      Plain({"pool_uuid", "pool_id", "replica_id"}) @@ As("uuid", "uuid", "plain"),
   VolumeSnapshotState |->
      Default({"allocated_size"}) @@ Opt({"timestamp"}) @@ Plain({"replicas"})]

ToSnapshotVariant == Enum("state", "state", SnapshotStates.SnapshotVariant, "Offline")
ToOnlineSnapshot ==
  Plain({"pool_uuid", "pool_id", "entity_id", "replica_size", "allocated_size", "num_clones", "txn_id", "valid",
         "ready_as_source", "predecessor_alloc_size", "discarded"})
    @@ As("uuid", "snap_uuid", "plain") @@ As("name", "snap_name", "plain")
    @@ As("replica_id", "replica_uuid", "plain") @@ As("timestamp", "snap_time", "opt")

-----------------------------------------------------------------------------

SnapshotIds == [source_id |-> "volume_id", snap_id |-> "snapshot_id"]

SnapshotPaths ==
  [create_snapshot |->
     [Path(<<Own(SnapshotBodies.PutVolumeSnapshot), Own(SnapshotRequests.CreateSnapshotRequest), Grpc(ValidatedCreateSnapshot)>>)
        EXCEPT !.renamed = SnapshotIds],
   destroy_snapshot |->
     [Path(<<Own(DelVolumeSnapshot), Own(SnapshotRequests.DestroySnapshotRequest), Grpc(ValidatedDestroySnapshot)>>)
        EXCEPT !.renamed = SnapshotIds],
   collect_snapshot |-> Path(<<Own(DestroyOfSnapshot), Own(SnapshotRequests.DestroySnapshotRequest), Grpc(ValidatedDestroySnapshot)>>),
   get_snapshots |-> Path(<<Own(SnapshotBodies.GetVolumesSnapshots), Grpc(SnapshotFilter)>>),
   snapshot_parts |-> Path(<<Grpc(SnapshotRequests.VolumeSnapshotParts)>>),
   snapshots |-> Path(<<Grpc(SnapshotRequests.VolumeSnapshots)>>),
   snapshot |->
     [Path(<<Grpc(StoredVolumeSnapshot), Own(SnapshotParts.VolumeSnapshotDef), Own(SnapshotReplies.ToVolumeSnapshot), Grpc(SnapshotRequests.FromVolumeSnapshot),
             Own(SnapshotBodies.RestVolumeSnapshot)>>)
        EXCEPT !.renamed = [snap_id |-> "uuid"], !.lost = {"num_restores", "num_snapshot_replicas"}, !.lax = {"Creating"}],
   transaction_snapshot |->
     [Path(<<Grpc(StoredReplicaSnapshot), Own(SnapshotParts.TransactionSnapshot), Grpc(SnapshotReplies.FromTransactionSnapshot), Own(SnapshotBodies.RestReplicaSnapshot)>>)
        EXCEPT !.dropped = {"timestamp", "txn_id"}, !.lax = {"Creating"}],
   snapshot_state |->
     [Path(<<Own(SnapshotStates.VolumeSnapshotState), Grpc(SnapshotRequests.FromVolumeSnapshotState), Own(SnapshotBodies.RestVolumeSnapshotState)>>)
        EXCEPT !.lost = {"ready_as_source"}],
   snapshot_variant |-> Path(<<Own(ToSnapshotVariant), Grpc(SnapshotReplies.FromSnapshotVariant)>>),
   snapshot_online |->
     [Path(<<Grpc(ReplicaRequestsV1.SnapshotInfoV1), Own(ToOnlineSnapshot), Grpc(SnapshotReplies.FromOnlineSnapshot), Own(SnapshotBodies.RestOnlineSnapshot)>>)
        EXCEPT !.renamed = [uuid |-> "snapshot_uuid", source_id |-> "source_uuid", size |-> "source_size",
                            allocated_size |-> "snapshot_size", pool_id |-> "pool_name",
                            predecessor_alloc_size |-> "referenced_bytes"],
               !.dropped = {"snapshot_name", "num_clones", "entity_id", "txn_id", "valid_snapshot",
                            "ready_as_source", "discarded_snapshot"}],
   snapshot_offline |-> [Path(<<Own(SnapshotStates.OfflineOfSpec), Grpc(SnapshotReplies.FromOfflineSnapshot), Own(SnapshotBodies.RestOfflineSnapshot)>>)
                           EXCEPT !.renamed = [source_id |-> "replica_id"]]]
=============================================================================
