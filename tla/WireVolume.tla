----------------------------- MODULE WireVolume -----------------------------
(***************************************************************************)
(* Volumes on their way between the REST API, the core agent and the       *)
(* persistent store.                                                       *)
(***************************************************************************)
EXTENDS WireTables

-----------------------------------------------------------------------------
(* Enumerations.                                                           *)

\* The status of a spec; what Created carries is not on the wire.
SpecStatus == Same({"Creating", "Created", "Deleting", "Deleted"})

NexusEnums ==
  [NexusStatus |->
      Same({"Unknown", "Online", "Degraded", "Faulted", "ShuttingDown", "Shutdown"}),
   FromChildState |->
      [ChildUnknown |-> "Unknown", ChildOnline |-> "Online",
        ChildDegraded |-> "Degraded", ChildFaulted |-> "Faulted"],
   ToChildState |->
      [Unknown |-> "ChildUnknown", Online |-> "ChildOnline",
        Degraded |-> "ChildDegraded", Faulted |-> "ChildFaulted"],
   SameReasons |->
      Same({"Init", "Closed", "ConfigInvalid", "RebuildFailed", "ByClient", "OutOfSync",
        "NoSpace", "TimedOut"})]

\* The REST API does not know of volumes that shut down.
RestVolumeStatus ==
  [v \in DOMAIN NexusEnums.NexusStatus |-> IF v \in {"ShuttingDown", "Shutdown"} THEN "Unknown" ELSE v]

FromChildStateReason ==
  NexusEnums.SameReasons @@ [None |-> "Unknown", CannotOpen |-> "CantOpen", IoFailure |-> "IoError",
                  AdminFailed |-> "AdminCommandFailed"]
ToChildStateReason ==
  NexusEnums.SameReasons @@ [Unknown |-> "None", CantOpen |-> "CannotOpen", IoError |-> "IoFailure",
                  AdminCommandFailed |-> "AdminFailed"]

\* The one reason that the REST API shows.
RestChildStateReason ==
  [r \in DOMAIN ToChildStateReason |-> IF r = "NoSpace" THEN "OutOfSpace" ELSE "none"]

FrontendMessages ==
  [FrontendConfig |-> Plain({"name", "nqn"}),
   VolumeShareProtocol |-> Same({"Nvmf", "Iscsi"}),
   VolumeFilter |-> ParsePlain({"volume_id"}),
   CreateSnapshotVolume |-> Parse({"source_snapshot"}) @@ Need({"volume"})]

RestShareProtocol == Same({"Nvmf", "Iscsi"})

\* Read by number, with every other number unknown.
ReplicaStatusOfNumber == Same({"Unknown", "Online", "Degraded", "Faulted"})

-----------------------------------------------------------------------------
(* Requests: the REST handler's arguments and body, the request message    *)
(* with its validation, and the spec that is made of it.                   *)

\* models::CreateVolumeBody to CreateVolumeBody, and on to CreateVolume.
CreateVolumeBody ==
  Plain({"uuid", "size", "replicas", "policy", "thin"}) @@ As("encryption", "encrypted", "plain")
    @@ Opt({"topology", "labels", "affinity_group", "max_snapshots", "cluster_size"})
ToCreateVolume ==
  Plain({"uuid", "size", "replicas", "policy", "thin"}) @@ As("encrypted", "encryption", "plain")
    @@ Opt({"topology", "labels", "affinity_group", "max_snapshots", "cluster_size"})
    @@ Absent({"cluster_capacity_limit"})

CreateVolumeRequests ==
  [CreateVolumeRequest |->
      Plain({"uuid", "size", "replicas", "policy", "thin", "encrypted"})
        @@ Opt({"topology", "labels", "affinity_group", "cluster_capacity_limit", "max_snapshots", "cluster_size"}),
   CreateSnapshotVolumeRequest |-> Plain({"source_snapshot", "volume"}),
   DestroyVolume |-> Parse({"uuid"})]

ValidatedCreateVolume ==
  Parse({"uuid"}) @@ Plain({"size", "replicas", "thin"})
    @@ Default({"policy", "encrypted"}) @@ OptParse({"topology"})
    @@ Opt({"labels", "affinity_group", "cluster_capacity_limit", "max_snapshots", "cluster_size"})

\* VolumeSpec::from(&CreateVolume).
SpecOfCreateVolume ==
  Plain({"uuid", "size", "policy", "thin", "encrypted"}) @@ As("num_replicas", "replicas", "plain")
    @@ Opt({"labels", "topology", "affinity_group", "max_snapshots"}) @@ Default({"cluster_size"})
    @@ Set("status", "Creating") @@ Fixed({"num_snapshots"})
    @@ Absent({"last_nexus_id", "operation", "target_config", "publish_context", "content_source", "as_thin"})

\* ... and with it, which keeps the publish context that the volume has.
\* put_volume_target without `republish` ...
VolumeBodies ==
  [PutVolumeShare |->
      Plain({"uuid"}) @@ Enum("share", "protocol", RestShareProtocol, "Nvmf")
        @@ As("frontend_hosts", "frontend_host", "opt"),
   PutVolumeSize |->
      Plain({"uuid"}) @@ As("requested_size", "size", "plain") @@ Absent({"cluster_capacity_limit"}),
   RepublishBody |->
      Plain({"uuid"}) @@ As("target_node", "node", "opt")
        @@ Enum("share", "protocol", RestShareProtocol, "Nvmf")
        @@ Default({"reuse_existing", "frontend_node"}) @@ Fixed({"reuse_existing_fallback"}),
   PutVolumeTarget |->
      Plain({"uuid", "publish_context"}) @@ As("target_node", "node", "opt")
        @@ Enum("share", "protocol", RestShareProtocol, "Nvmf")
        @@ As("frontend_nodes", "frontend_node", "opt")]

ResizeVolume == ParsePlain({"uuid"}) @@ Plain({"requested_size"}) @@ Opt({"cluster_capacity_limit"})

ShareRequests ==
  [ShareVolume |->
      Parse({"uuid"}) @@ Enum("share", "share", FrontendMessages.VolumeShareProtocol, "Nvmf")
        @@ Opt({"frontend_hosts"}),
   UnshareVolume |-> Parse({"uuid"})]

PublishVolume == Parse({"uuid"}) @@ Opt({"target_node", "frontend_nodes"}) @@ Plain({"publish_context"})
                   @@ OptEnum("share", "share", FrontendMessages.VolumeShareProtocol)

RepublishVolume == Parse({"uuid"}) @@ Opt({"target_node"})
                     @@ Plain({"frontend_node", "reuse_existing", "reuse_existing_fallback"})
                     @@ Enum("share", "share", FrontendMessages.VolumeShareProtocol, "Nvmf")

DelVolumeTarget == Plain({"uuid"}) @@ Default({"force"}) @@ As("frontend_nodes", "frontend_host", "opt")
TargetRequests ==
  [UnpublishVolume |-> Parse({"uuid"}) @@ Plain({"force"}) @@ Opt({"frontend_nodes"}),
   SetVolumeReplica |-> Parse({"uuid"}) @@ Plain({"replicas"})]

PutVolumeReplicaCount == Plain({"uuid"}) @@ As("replicas", "replica_count", "plain")
\* The property is one of the maximum of snapshots and the encryption.
SetVolumePropertyBody == Plain({"property"}) @@ Plain({"uuid"})
\* The map of the replicas, by their identifiers.
PropertyRequests ==
  [SetVolumeProperty |-> ParsePlain({"uuid"}) @@ Need({"property"}),
   ReplicaTopologyMaps |-> ParsePlain({"id"}) @@ Need({"topology"})]

DelShutdownTargets == Plain({"uuid"}) @@ Absent({"registered_targets"})
GroupMessages ==
  [DestroyShutdownTargets |-> Parse({"uuid"}) @@ Opt({"registered_targets"}),
   AffinityGroup |-> Plain({"id"}),
   AffinityGroupSpec |-> Plain({"id"}) @@ ParseAll({"volumes"}),
   VolumeContentSource |-> Parse({"snapshot", "volume"})]

-----------------------------------------------------------------------------
(* The volume as the core agent reports it.                                *)

\* A target configuration is kept when its target is gone, and is then not
\* shown as the volume's target.
StoredTargetConfig == Same({"active", "inactive"})
ActiveConfig == [active |-> "active", inactive |-> "none"]

\* What comes back from the store; an older release has written less.
VolumeRecords ==
  [RestNodeAccessInfo |-> Plain({"name", "nqn"}),
   RestVolumeTarget |->
      Plain({"node"}) @@ OptEnum("protocol", "protocol", RestShareProtocol) @@ Opt({"frontend"}),
   StoredVolumeSpec |->
      Need({"uuid", "size", "num_replicas", "policy"}) @@ Enum("status", "status", SpecStatus, "missing_argument")
        @@ Opt({"labels", "topology", "last_nexus_id", "operation", "content_source", "publish_context",
        "affinity_group", "as_thin", "max_snapshots"})
        @@ OptEnum("target_config", "target_config", StoredTargetConfig)
        @@ Default({"thin", "encrypted", "cluster_size"}) @@ Fixed({"num_snapshots"})]

\* A host NQN that does not parse is kept as an invalid one.
VolumeMessages ==
  [ToVolumeDefinition |->
      Plain({"uuid", "size", "num_replicas", "policy", "thin", "num_snapshots", "encrypted", "cluster_size"})
        @@ Enum("status", "status", SpecStatus, "Creating")
        @@ OptEnum("target_config", "target_config", ActiveConfig)
        @@ Opt({"labels", "topology", "last_nexus_id", "affinity_group", "content_source", "max_snapshots",
        "publish_context", "as_thin"}),
   ToVolume |->
      Plain({"definition", "uuid", "size", "replica_topology"}) @@ Opt({"target", "usage", "health"})
        @@ Enum("status", "status", NexusEnums.NexusStatus, "Unknown"),
   VolumeHealth |->
      Plain({"clean_shutdown", "healthy_replicas", "clean_replicas", "online_healthy_replicas",
        "online_clean_replicas", "live_healthy_replicas"}),
   VolumeUsage |->
      Plain({"capacity", "allocated", "allocated_replica", "allocated_snapshots",
        "allocated_all_snapshots", "total_allocated", "total_allocated_replicas",
        "total_allocated_snapshots"}),
   FrontendNode |-> Plain({"name"}) @@ MarkInvalid({"nqn"})]

FromVolumeDefinition ==
  Parse({"uuid"}) @@ Plain({"size", "num_replicas", "thin", "num_snapshots"}) @@ Need({"policy"})
    @@ Enum("status", "status", SpecStatus, "Creating")
    @@ OptParse({"target_config", "topology", "last_nexus_id", "content_source"})
    @@ Opt({"labels", "affinity_group", "max_snapshots", "publish_context", "as_thin"})
    @@ Default({"encrypted", "cluster_size"}) @@ Absent({"operation"})

\* VolumeSpec to models::VolumeSpec.
RestVolumeSpec ==
  Plain({"uuid", "size", "num_replicas", "policy", "thin", "num_snapshots", "encrypted"})
    @@ Enum("status", "status", SpecStatus, "Creating") @@ As("target", "target_config", "opt")
    @@ Opt({"labels", "operation", "topology", "as_thin", "affinity_group", "content_source", "max_snapshots"})

RestVolumeState == Plain({"definition", "uuid", "size", "replica_topology"}) @@ Opt({"target", "usage", "health"})
                     @@ Enum("status", "status", RestVolumeStatus, "Unknown")

RestVolumeHealth == VolumeMessages.VolumeHealth

NewVolumeUsage == VolumeMessages.VolumeUsage
RestVolumeUsage == VolumeMessages.VolumeUsage

\* The alternatives of a oneof; one that a later release added is not decoded.
TopologyMessages ==
  [ToReplicaTopology |->
      Opt({"node", "pool", "usage", "rebuild_progress", "healthy", "encrypted"})
        @@ Enum("status", "status", ReplicaStatusOfNumber, "Unknown")
        @@ OptEnum("child_status", "child_status", NexusEnums.ToChildState)
        @@ OptEnum("child_status_reason", "child_status_reason", ToChildStateReason),
   ToReplicaUsage |->
      Plain({"capacity", "allocated", "allocated_snaps", "allocated_all_snaps"}),
   TopologyMessage |-> OptParse({"node", "pool"}),
   NodeTopology |-> Parse({"kind"}),
   PoolTopology |-> Parse({"kind"})]

RestReplicaTopology ==
  Opt({"node", "pool", "usage", "rebuild_progress", "healthy", "encrypted"})
    @@ Enum("status", "status", ReplicaStatusOfNumber, "Unknown")
    @@ OptEnum("child_status", "child_status", Same(DOMAIN NexusEnums.ToChildState))
    @@ OptEnum("child_status_reason", "child_status_reason", RestChildStateReason)

\* A list is refused as a whole when one of its elements is.
VolumeReplies ==
  [FromVolume |->
      Need({"definition"}) @@ Parse({"uuid"}) @@ Plain({"size"}) @@ OptParse({"target"})
        @@ ParseAll({"replica_topology"}) @@ Opt({"usage", "health"})
        @@ Enum("status", "status", NexusEnums.NexusStatus, "Unknown"),
   Volumes |-> ParseAll({"entries"}) @@ Opt({"next_token"}),
   FromReplicaTopology |->
      Opt({"node", "pool", "usage", "rebuild_progress", "healthy", "encrypted"})
        @@ LaxEnum("status", "status", ReplicaStatusOfNumber, "Unknown")
        @@ LaxEnum("child_status", "child_status", NexusEnums.FromChildState, "none")
        @@ LaxEnum("child_status_reason", "child_status_reason", FromChildStateReason, "none"),
   FromReplicaUsage |-> TopologyMessages.ToReplicaUsage]

RestReplicaUsage == TopologyMessages.ToReplicaUsage

\* The frontend nodes of a target configuration are sent and not read back.
VolumeAttributes ==
  [LabelledTopology |->
      Default({"exclusion", "inclusion"}) @@ Fixed({"creation_affinity_keys"}),
   ExplicitNodeTopology |-> Plain({"allowed_nodes", "preferred_nodes"}),
   VolumePolicy |-> Plain({"self_heal"}),
   VolumeTargetMessage |->
      Plain({"node"}) @@ Parse({"nexus_id"}) @@ OptEnum("protocol", "protocol", FrontendMessages.VolumeShareProtocol),
   TargetConfig |-> Need({"target", "config"}) @@ Fixed({"frontend"})]

-----------------------------------------------------------------------------
(* Placement, policy and origin of a volume.                               *)

FromRestTopology == As("node", "node_topology", "opt") @@ As("pool", "pool_topology", "opt")
ToRestTopology == As("node_topology", "node", "opt") @@ As("pool_topology", "pool", "opt")

RestNodeTopology == Plain({"kind"})
RestPoolTopology == Plain({"kind"})

\* The affinity keys are not in the message.
FromRestLabelled == Plain({"exclusion", "inclusion"}) @@ As("creation_affinity_keys", "affinity_key", "opt")
ToRestLabelled == Plain({"exclusion", "inclusion"})

RestExplicitTopology == VolumeAttributes.ExplicitNodeTopology

RestVolumePolicy == VolumeAttributes.VolumePolicy

RestContentSource == Plain({"snapshot", "volume"})

-----------------------------------------------------------------------------
(* The paths.                                                              *)

ShownSpec == <<Grpc(VolumeRecords.StoredVolumeSpec), Own(VolumeMessages.ToVolumeDefinition), Grpc(FromVolumeDefinition), Own(RestVolumeSpec)>>

VolumeRequestPaths ==
  [put_volume |->
     [Path(<<Own(CreateVolumeBody), Own(ToCreateVolume), Own(CreateVolumeRequests.CreateVolumeRequest), Grpc(ValidatedCreateVolume),
             Own(SpecOfCreateVolume)>> \o ShownSpec)
        EXCEPT !.renamed = [num_replicas |-> "replicas"],
               !.lost = {"operation", "status", "target", "as_thin", "content_source", "num_snapshots"},
               !.dropped = {"cluster_size"}],
   put_snapshot_volume |-> Path(<<Own(CreateVolumeRequests.CreateSnapshotVolumeRequest), Grpc(FrontendMessages.CreateSnapshotVolume)>>),
   del_volume |-> Path(<<Grpc(CreateVolumeRequests.DestroyVolume)>>),
   put_volume_size |-> [Path(<<Own(VolumeBodies.PutVolumeSize), Grpc(ResizeVolume)>>)
                          EXCEPT !.renamed = [requested_size |-> "size"], !.lost = {"cluster_capacity_limit"}],
   put_volume_share |-> [Path(<<Own(VolumeBodies.PutVolumeShare), Grpc(ShareRequests.ShareVolume)>>)
                           EXCEPT !.renamed = [share |-> "protocol", frontend_hosts |-> "frontend_host"]],
   del_share |-> Path(<<Grpc(ShareRequests.UnshareVolume)>>),
   put_volume_target |-> [Path(<<Own(VolumeBodies.PutVolumeTarget), Grpc(PublishVolume)>>)
                            EXCEPT !.renamed = [share |-> "protocol", target_node |-> "node",
                                                frontend_nodes |-> "frontend_node"]],
   republish |-> [Path(<<Own(VolumeBodies.RepublishBody), Grpc(RepublishVolume)>>)
                    EXCEPT !.renamed = [share |-> "protocol", target_node |-> "node"],
                           !.lost = {"reuse_existing_fallback"}],
   del_volume_target |-> [Path(<<Own(DelVolumeTarget), Grpc(TargetRequests.UnpublishVolume)>>)
                            EXCEPT !.renamed = [frontend_nodes |-> "frontend_host"]],
   put_volume_replica_count |-> [Path(<<Own(PutVolumeReplicaCount), Grpc(TargetRequests.SetVolumeReplica)>>)
                                   EXCEPT !.renamed = [replicas |-> "replica_count"]],
   put_volume_property |-> Path(<<Own(SetVolumePropertyBody), Grpc(PropertyRequests.SetVolumeProperty)>>),
   del_volume_shutdown_targets |-> [Path(<<Own(DelShutdownTargets), Grpc(GroupMessages.DestroyShutdownTargets)>>)
                                      EXCEPT !.lost = {"registered_targets"}],
   get_volume |-> Path(<<Grpc(FrontendMessages.VolumeFilter)>>)]

VolumeReplyPaths ==
  [volume_spec |->
     [Path(ShownSpec) EXCEPT !.renamed = [target |-> "target_config"],
                             !.lost = {"operation", "num_snapshots"},
                             !.dropped = {"operation", "last_nexus_id", "publish_context", "cluster_size"},
                             !.merged = [target |-> [inactive |-> "none"]]],
   volume_state |-> [Path(<<Own(VolumeMessages.ToVolume), Grpc(VolumeReplies.FromVolume), Own(RestVolumeState)>>)
                       EXCEPT !.merged = [status |-> [ShuttingDown |-> "Unknown", Shutdown |-> "Unknown"]]],
   volumes |-> Path(<<Grpc(VolumeReplies.Volumes)>>),
   volume_health |-> Path(<<Own(VolumeMessages.VolumeHealth), Grpc(VolumeMessages.VolumeHealth), Own(RestVolumeHealth)>>),
   volume_usage |-> Path(<<Own(NewVolumeUsage), Grpc(VolumeMessages.VolumeUsage), Own(RestVolumeUsage)>>),
   frontend |-> Path(<<Own(FrontendMessages.FrontendConfig), Grpc(VolumeMessages.FrontendNode), Own(VolumeRecords.RestNodeAccessInfo)>>),
   replica_topology |->
     [Path(<<Own(TopologyMessages.ToReplicaTopology), Grpc(VolumeReplies.FromReplicaTopology), Own(RestReplicaTopology)>>)
        EXCEPT !.merged = [child_status_reason |->
                              "NoSpace" :> "OutOfSpace" @@ [r \in DOMAIN ToChildStateReason |-> "none"]]],
   replica_topologies |-> Path(<<Grpc(PropertyRequests.ReplicaTopologyMaps)>>),
   replica_usage |-> Path(<<Own(TopologyMessages.ToReplicaUsage), Grpc(VolumeReplies.FromReplicaUsage), Own(RestReplicaUsage)>>),
   volume_target |-> [Path(<<Grpc(VolumeAttributes.VolumeTargetMessage), Own(VolumeRecords.RestVolumeTarget)>>)
                        EXCEPT !.lost = {"frontend"}, !.dropped = {"nexus_id"}],
   target_config |-> [Path(<<Grpc(VolumeAttributes.TargetConfig)>>) EXCEPT !.lost = {"frontend"}],
   topology |-> Path(<<Own(FromRestTopology), Grpc(TopologyMessages.TopologyMessage), Grpc(TopologyMessages.TopologyMessage), Own(ToRestTopology)>>),
   node_topology |-> Path(<<Own(RestNodeTopology), Grpc(TopologyMessages.NodeTopology), Own(RestNodeTopology)>>),
   pool_topology |-> Path(<<Own(RestPoolTopology), Grpc(TopologyMessages.PoolTopology), Own(RestPoolTopology)>>),
   labelled_topology |-> [Path(<<Own(FromRestLabelled), Grpc(VolumeAttributes.LabelledTopology), Own(ToRestLabelled)>>)
                            EXCEPT !.dropped = {"affinity_key"}],
   explicit_topology |-> Path(<<Own(RestExplicitTopology), Grpc(VolumeAttributes.ExplicitNodeTopology), Own(RestExplicitTopology)>>),
   volume_policy |-> Path(<<Own(RestVolumePolicy), Grpc(VolumeAttributes.VolumePolicy), Own(RestVolumePolicy)>>),
   affinity_group |-> Path(<<Grpc(GroupMessages.AffinityGroup)>>),
   affinity_group_spec |-> Path(<<Grpc(GroupMessages.AffinityGroupSpec)>>),
   content_source |-> Path(<<Own(RestContentSource), Grpc(GroupMessages.VolumeContentSource), Own(RestContentSource)>>)]

VolumePaths == VolumeRequestPaths @@ VolumeReplyPaths
=============================================================================
