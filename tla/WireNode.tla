------------------------------ MODULE WireNode ------------------------------
(***************************************************************************)
(* The conversions of nodes: registration of io-engines and applications,  *)
(* cordons and labels, block devices, the agents of the switch-over, the   *)
(* listings of the registry, watches and the errors themselves.            *)
(***************************************************************************)
EXTENDS WireSnapshot

-----------------------------------------------------------------------------
(* Registration of an io-engine: the message, the node's state, its spec.  *)

ApiVersion == Same({"V0", "V1"})
\* A feature that the io-engine does not mention is not known to be there.
Registrations ==
  [RegisterV1 |->
      Plain({"id", "grpc_endpoint"}) @@ OptLaxEnum("api_versions", "api_version", ApiVersion, "V0")
        @@ LaxParse({"instance_uuid"}) @@ As("node_nqn", "hostnqn", "laxparse") @@ Opt({"features", "bugfixes", "version"}),
   Features |->
      Plain({"asymmetric_namespace_access"})
        @@ Opt({"logical_volume_manager", "snapshot_rebuild", "rdma_capable_io_engine", "diskpool_encryption"}),
   BugFixes |-> Plain({"nexus_rebuild_replica_ancestry"}),
   RegisterV1Alpha |->
      Plain({"id", "grpc_endpoint"}) @@ Set("api_versions", "V0")
        @@ Absent({"instance_uuid", "node_nqn", "features", "bugfixes", "version"}),
   Deregister |-> Plain({"id"}),
   Register |->
      Plain({"id"}) @@ ParsePlain({"grpc_endpoint"}) @@ OptEnum("api_versions", "api_versions", ApiVersion)
        @@ Opt({"instance_uuid", "node_nqn", "features", "bugfixes", "version"})]

StateOfRegister ==
  Plain({"id", "grpc_endpoint"}) @@ Set("status", "Online") @@ OptEnum("api_versions", "api_versions", ApiVersion)
    @@ Opt({"instance_uuid", "node_nqn", "features", "bugfixes", "version"})

-----------------------------------------------------------------------------
(* A node on its way to the REST API.                                      *)

FromNodeStatus == Same({"Unknown", "Online", "Offline"})
ToNodeStatus == Same({"Unknown", "Online", "Offline"})
RestNodeStatus == Same({"Unknown", "Online", "Offline"})

CordonDrain == Same({"Cordoned", "Draining", "Drained"})
RestCordonDrain == Same({"Cordoned", "Draining", "Drained"})
CordonLabels == As("cordon_labels", "cordonlabels", "plain") @@ As("drain_labels", "drainlabels", "plain")
FromCordonLabels == As("cordonlabels", "cordon_labels", "plain") @@ As("drainlabels", "drain_labels", "plain")

StoredNodeSpec ==
  Need({"id", "endpoint"}) @@ Default({"labels", "draining_volumes"}) @@ OptEnum("cordon_drain_state", "cordon_drain_state", CordonDrain)
    @@ Opt({"node_nqn", "operation", "features", "bugfixes", "version"}) @@ Absent({"draining_timestamp"})

NodeMessages ==
  [FromNodeState |->
      As("id", "node_id", "plain") @@ As("grpc_endpoint", "endpoint", "parseplain") @@ Enum("status", "status", FromNodeStatus, "Unknown")
        @@ OptParse({"node_nqn"}) @@ Opt({"version"}) @@ Absent({"api_versions", "instance_uuid", "features", "bugfixes"}),
   NodeParts |-> Plain({"node_id"}) @@ OptParse({"spec", "state"}),
   ToNode |->
      As("node_id", "id", "plain") @@ Plain({"endpoint", "labels"}) @@ OptEnum("cordon_drain_state", "cordon_drain_state", CordonDrain)
        @@ Opt({"node_nqn", "version"}),
   ToNodeState |->
      As("node_id", "id", "plain") @@ As("endpoint", "grpc_endpoint", "plain") @@ Enum("status", "status", ToNodeStatus, "Unknown")
        @@ Opt({"node_nqn", "version"}),
   Nodes |-> ParseAll({"nodes"}),
   NodeFilter |-> Opt({"node_id"})]

FromNode ==
  As("id", "node_id", "plain") @@ ParsePlain({"endpoint"}) @@ Default({"labels"})
    @@ OptLaxEnum("cordon_drain_state", "cordon_drain_state", CordonDrain, "none") @@ OptParse({"node_nqn"})
    @@ Opt({"version"}) @@ Absent({"features", "bugfixes"})
RestNodeSpec ==
  Plain({"endpoint", "id"}) @@ Default({"labels"}) @@ OptEnum("cordon_drain_state", "cordon_drain_state", RestCordonDrain)
    @@ Opt({"node_nqn", "version"})

RestNodeState ==
  Plain({"grpc_endpoint", "id"}) @@ Enum("status", "status", RestNodeStatus, "Unknown") @@ Opt({"node_nqn", "version"})

RestNode == As("id", "node_id", "plain") @@ Opt({"spec", "state"})
GetNodes == Opt({"node_id"})
NodeRequests ==
  [CordonNode |-> As("node_id", "id", "plain") @@ Plain({"label"}),
   UncordonNode |-> As("node_id", "id", "plain") @@ Plain({"label"}),
   DrainNode |-> As("node_id", "id", "plain") @@ Plain({"label"}),
   LabelNode |-> As("node_id", "id", "plain") @@ Plain({"label", "overwrite"}),
   UnlabelNode |-> As("node_id", "id", "plain") @@ Plain({"label_key"})]

PutNodeLabel == Plain({"id", "label"}) @@ Default({"overwrite"})
NodeRequestsReceived ==
  [OfCordonNode |-> As("id", "node_id", "plain") @@ Plain({"label"}),
   OfUncordonNode |-> As("id", "node_id", "plain") @@ Plain({"label"}),
   OfDrainNode |-> As("id", "node_id", "plain") @@ Plain({"label"}),
   OfLabelNode |->
      As("id", "node_id", "plain") @@ Enum("label", "label", Same({"label"}), "invalid_argument") @@ Plain({"overwrite"}),
   OfUnlabelNode |-> As("id", "node_id", "plain") @@ Plain({"label_key"})]

-----------------------------------------------------------------------------
(* Block devices.                                                          *)

DeviceMembers == {"devname", "devtype", "devmajor", "devminor", "model", "devpath", "devlinks", "size", "available", "connection_type"}
GetNodeBlockDevices == Plain({"node"}) @@ Default({"all"})
GetBlockDevicesRequest == As("node_id", "node", "plain") @@ Plain({"all"})
GetBlockDevices == As("node", "node_id", "plain") @@ Plain({"all"})
ToBlockDevice == Plain(DeviceMembers) @@ Opt({"partition", "filesystem", "is_rotational"})
FromBlockDevice == Plain(DeviceMembers) @@ Opt({"partition", "filesystem", "is_rotational"})
RestBlockDevice == Plain(DeviceMembers) @@ Opt({"partition", "filesystem", "is_rotational"})
RestPartition == Plain({"parent", "number", "name", "scheme", "typeid", "uuid"})
RestFilesystem == Plain({"fstype", "mountpoint", "label", "uuid"})
BlockDevices == ParseAll({"blockdevices"})

-----------------------------------------------------------------------------
(* Application nodes.                                                      *)

RegisterAppNodeBody == Plain({"id"}) @@ ParsePlain({"endpoint"}) @@ Opt({"labels"})
AppNodeRequests ==
  [ValidatedRegisterAppNode |-> Plain({"id"}) @@ ParsePlain({"grpc_endpoint"}) @@ Opt({"labels"}),
   DeregisterAppNode |-> Plain({"id"}),
   RegisterAppNodeRequest |->
      Plain({"id"}) @@ As("grpc_endpoint", "endpoint", "plain") @@ Opt({"labels"}),
   RegisterAppNode |->
      Plain({"id"}) @@ As("endpoint", "grpc_endpoint", "plain") @@ Opt({"labels"}),
   FromAppNodeSpec |->
      Plain({"id"}) @@ As("endpoint", "grpc_endpoint", "parseplain") @@ Opt({"labels"}),
   ToAppNodeSpec |->
      Plain({"id"}) @@ As("grpc_endpoint", "endpoint", "plain") @@ Opt({"labels"}),
   AppNodeStatus |-> Same({"Online", "Offline"})]

RestAppNodeStatus == Same({"Online", "Offline"})
StoredAppNode == Need({"id", "endpoint"}) @@ Opt({"labels"})
RestAppNodeSpec == Plain({"id", "endpoint"}) @@ Opt({"labels"})
StateOfAppNode == Plain({"id", "endpoint"}) @@ Set("status", "Online")
AppNodeMessages ==
  [FromAppNodeState |->
      Plain({"id"}) @@ As("endpoint", "grpc_endpoint", "parseplain") @@ Enum("status", "status", AppNodeRequests.AppNodeStatus, "Offline"),
   ToAppNodeState |->
      Plain({"id"}) @@ As("grpc_endpoint", "endpoint", "plain") @@ Enum("status", "status", AppNodeRequests.AppNodeStatus, "Offline"),
   AppNode |-> Plain({"id"}) @@ Need({"spec"}) @@ OptParse({"state"}),
   AppNodes |-> ParseAll({"entries"}) @@ Opt({"next_token"}),
   AppNodeFilter |-> Plain({"app_node_id"})]

RestAppNodeState == Plain({"id", "endpoint"}) @@ Enum("status", "status", RestAppNodeStatus, "Offline")
RestAppNode == Plain({"id", "spec"}) @@ Opt({"state"})

-----------------------------------------------------------------------------
(* The agents of the switch-over.                                          *)

NodeAgentInfo == As("nodename", "node_name", "plain") @@ Plain({"endpoint"})
NodeInfoConv == As("node", "nodename", "plain") @@ ParsePlain({"endpoint"})
\* Of the codes of gRPC, those that the switch-over tells apart.
PathCode == Same({"Ok", "Internal", "AlreadyExists", "Unknown"})
\* The endpoint of a report is unwrapped.
FailedPathMessages ==
  [ReportFailedPaths |-> As("nodename", "node", "plain") @@ Plain({"endpoint", "failed_paths"}),
   FailedPathsInfo |->
      As("node", "nodename", "plain") @@ Expect({"endpoint"}) @@ Plain({"failed_paths"}),
   FailedNvmePathResponse |->
      Plain({"failed_nqn"}) @@ LaxEnum("status_code", "status_code", PathCode, "Unknown"),
   FailedPathResponse |->
      Plain({"failed_nqn"}) @@ Enum("status_code", "status_code", PathCode, "Ok"),
   FailedPathsResponse |-> Plain({"failed_paths"})]

PathMessages ==
  [GetController |-> Plain({"nvme_path"}),
   NvmeControllers |-> As("target_address", "address", "plain"),
   NvmeSubsystems |-> As("address", "target_address", "plain"),
   ReplacePathInfo |-> Plain({"target_nqn", "new_path"}) @@ Opt({"publish_context"}),
   ReplacePath |-> Plain({"target_nqn", "new_path"}) @@ Opt({"publish_context"})]

-----------------------------------------------------------------------------
(* The registry's listings, JSON calls and watches.                        *)

RegistryListings ==
  [FromSpecs |->
      ParseAll({"volumes", "nexuses", "pools", "replicas", "affinity_groups"}),
   ToSpecs |-> Plain({"volumes", "nexuses", "pools", "replicas", "affinity_groups"}),
   FromStates |-> ParseAll({"nexuses", "pools", "replicas"}),
   ToStates |-> Plain({"pools", "nexuses", "replicas"})]

RestSpecs == Plain({"nexuses", "pools", "replicas", "volumes"})
PutNodeJsonGrpc == Plain({"node", "method", "params"})
ToJsonGrpc == As("node_id", "node", "plain") @@ As("json_grpc_method", "method", "plain") @@ As("json_grpc_params", "params", "plain")
FromJsonGrpc == As("node", "node_id", "plain") @@ As("method", "json_grpc_method", "plain") @@ As("params", "json_grpc_params", "plain")

\* The resource of a watch; what is sent as the state of a replica is read
\* as its spec, and the other way round.
WatchedAsIs == {"Node", "Pool", "Replica", "Nexus", "Volume"}
ToWatchResource == Same(WatchedAsIs) @@ [ReplicaState |-> "ReplicaStateId", ReplicaSpec |-> "ReplicaSpecId"]
FromWatchResource == Same(WatchedAsIs) @@ [ReplicaStateId |-> "ReplicaSpec", ReplicaSpecId |-> "ReplicaState"]
WatchType == Same({"Desired", "Actual", "All"})
FromWatchType == Same({"Desired", "Actual", "All"})

\* The identifier within the resource is that of a volume, the only resource
\* that the REST API watches.
VolumeWatch == Set("resource", "Volume") @@ Plain({"id", "callback"}) @@ Set("watch_type", "Actual")
WatchMessages ==
  [ToWatch |->
      Enum("resource", "resource", ToWatchResource, "invalid_argument") @@ Plain({"id", "callback"})
        @@ Enum("watch_type", "watch_type", WatchType, "Desired"),
   FromWatch |->
      Enum("resource", "resource", FromWatchResource, "invalid_argument") @@ ParsePlain({"id"})
        @@ Enum("callback", "callback", Same({"callback"}), "invalid_argument")
        @@ Enum("watch_type", "watch_type", FromWatchType, "Desired"),
   Watches |-> ParseAll({"watches"})]

ValidatedWatch == Enum("resource", "resource", FromWatchResource, "invalid_argument") @@ ParsePlain({"id"})
                    @@ Enum("callback", "callback", Same({"callback"}), "invalid_argument")
                    @@ Enum("watch_type", "watch_type", FromWatchType, "Desired")
GetWatchVolume == Set("resource", "Volume") @@ Plain({"id"})
ToGetWatches == Enum("resource", "resource", ToWatchResource, "invalid_argument") @@ Plain({"id"})
ValidatedGetWatches == Enum("resource", "resource", FromWatchResource, "invalid_argument") @@ ParsePlain({"id"})
RestWatch == Enum("resource", "resource", Same(DOMAIN ToWatchResource), "Node") @@ Plain({"id", "callback"})

-----------------------------------------------------------------------------
(* Errors between the services.                                            *)

ResourceKind ==
  Same({"Unknown", "Node", "Pool", "Replica", "ReplicaState", "ReplicaSpec", "Nexus", "Child", "Volume", "JsonGrpc",
        "Block", "Watch", "Spec", "State", "NvmeSubsystem", "NvmePath", "AffinityGroup", "VolumeSnapshot",
        "ReplicaSnapshot", "VolumeSnapshotClone", "ReplicaSnapshotClone", "AppNode"})
FromResourceKind == ResourceKind

SameErrorKinds ==
  {"WithMessage", "DeserializeReq", "Internal", "Timeout", "InvalidArgument", "DeadlineExceeded", "NotFound",
   "AlreadyExists", "PermissionDenied", "ResourceExhausted", "FailedPrecondition", "Aborted", "OutOfRange",
   "Unimplemented", "Unavailable", "Unauthenticated", "Unauthorized", "Conflict", "FailedPersist", "NotShared",
   "AlreadyShared", "NotPublished", "AlreadyPublished", "ReplicaCountAchieved", "ReplicaChangeCount",
   "ReplicaIncrease", "ReplicaCreateNumber", "VolumeNoReplicas", "InUse", "CapacityLimitExceeded", "NotAcceptable",
   "Cancelled", "DiskNotExtended", "DiskRescanFailed"}
ReplyErrorKind == Same(SameErrorKinds) @@ [Deleting |-> "IsDeleting"]
FromReplyErrorKind == Same(SameErrorKinds) @@ [IsDeleting |-> "Deleting"]

ToReplyError == Enum("kind", "kind", ReplyErrorKind, "WithMessage") @@ Enum("resource", "resource", ResourceKind, "Unknown")
                  @@ Plain({"source", "extra"})
FromReplyError == LaxEnum("kind", "kind", FromReplyErrorKind, "Aborted")
                    @@ LaxEnum("resource", "resource", FromResourceKind, "Unknown") @@ Plain({"source", "extra"})

-----------------------------------------------------------------------------

NodeRequestPaths ==
  [register |->
     [Path(<<Grpc(Registrations.RegisterV1), Own(Registrations.Register), Own(StateOfRegister)>>)
        EXCEPT !.renamed = [api_versions |-> "api_version", node_nqn |-> "hostnqn"], !.lost = {"status"}, !.lax = {"V0"}],
   register_v1alpha |->
     [Path(<<Grpc(Registrations.RegisterV1Alpha), Own(Registrations.Register), Own(StateOfRegister)>>)
        EXCEPT !.lost = {"api_versions", "instance_uuid", "node_nqn", "features", "bugfixes", "version", "status"}],
   deregister |-> Path(<<Grpc(Registrations.Deregister)>>),
   features |-> Path(<<Grpc(Registrations.Features)>>),
   bugfixes |-> Path(<<Grpc(Registrations.BugFixes)>>),
   get_nodes |-> Path(<<Own(GetNodes), Grpc(NodeMessages.NodeFilter)>>),
   cordon_node |-> Path(<<Own(NodeRequests.CordonNode), Grpc(NodeRequestsReceived.OfCordonNode)>>),
   uncordon_node |-> Path(<<Own(NodeRequests.UncordonNode), Grpc(NodeRequestsReceived.OfUncordonNode)>>),
   drain_node |-> Path(<<Own(NodeRequests.DrainNode), Grpc(NodeRequestsReceived.OfDrainNode)>>),
   label_node |-> Path(<<Own(PutNodeLabel), Own(NodeRequests.LabelNode), Grpc(NodeRequestsReceived.OfLabelNode)>>),
   unlabel_node |-> Path(<<Own(NodeRequests.UnlabelNode), Grpc(NodeRequestsReceived.OfUnlabelNode)>>),
   get_block_devices |-> Path(<<Own(GetNodeBlockDevices), Own(GetBlockDevicesRequest), Grpc(GetBlockDevices)>>),
   register_app_node |->
     Path(<<Own(RegisterAppNodeBody), Own(AppNodeRequests.RegisterAppNodeRequest), Grpc(AppNodeRequests.ValidatedRegisterAppNode), Own(AppNodeRequests.RegisterAppNode)>>),
   deregister_app_node |-> Path(<<Own(AppNodeRequests.DeregisterAppNode), Grpc(AppNodeRequests.DeregisterAppNode)>>),
   get_app_node |-> Path(<<Own(AppNodeMessages.AppNodeFilter), Grpc(AppNodeMessages.AppNodeFilter)>>),
   node_agent |-> [Path(<<Own(NodeAgentInfo), Grpc(NodeInfoConv)>>) EXCEPT !.renamed = [node |-> "node_name"]],
   failed_paths |-> Path(<<Own(FailedPathMessages.ReportFailedPaths), Grpc(FailedPathMessages.FailedPathsInfo)>>),
   replace_path |-> Path(<<Own(PathMessages.ReplacePath), Grpc(PathMessages.ReplacePathInfo)>>),
   get_controller |-> Path(<<Own(PathMessages.GetController), Grpc(PathMessages.GetController)>>),
   json_grpc |-> Path(<<Own(PutNodeJsonGrpc), Own(ToJsonGrpc), Grpc(FromJsonGrpc)>>),
   watch_volume |-> [Path(<<Own(VolumeWatch), Own(WatchMessages.ToWatch), Grpc(ValidatedWatch)>>)
                       EXCEPT !.lost = {"resource", "watch_type"}],
   get_watch_volume |-> [Path(<<Own(GetWatchVolume), Own(ToGetWatches), Grpc(ValidatedGetWatches)>>) EXCEPT !.lost = {"resource"}]]

NodeReplyPaths ==
  [node |->
     [Path(<<Grpc(StoredNodeSpec), Own(NodeMessages.ToNode), Grpc(FromNode), Own(RestNodeSpec)>>)
        EXCEPT !.dropped = {"operation", "features", "bugfixes", "draining_volumes"}],
   node_state |-> Path(<<Own(NodeMessages.ToNodeState), Grpc(NodeMessages.FromNodeState), Own(RestNodeState)>>),
   node_parts |-> [Path(<<Grpc(NodeMessages.NodeParts), Own(RestNode)>>) EXCEPT !.renamed = [id |-> "node_id"]],
   cordon_labels |-> Path(<<Own(CordonLabels), Grpc(FromCordonLabels)>>),
   nodes |-> Path(<<Grpc(NodeMessages.Nodes)>>),
   block_device |-> Path(<<Grpc(StatesV1.BlockDeviceV1), Own(ToBlockDevice), Grpc(FromBlockDevice), Own(RestBlockDevice)>>),
   block_device_v0 |-> [Path(<<Grpc(StatesV0.BlockDeviceV0), Own(ToBlockDevice), Grpc(FromBlockDevice), Own(RestBlockDevice)>>)
                          EXCEPT !.lost = {"connection_type", "is_rotational"}],
   partition |-> Path(<<Grpc(StatesV1.PartitionV1), Grpc(RestPartition)>>),
   partition_v0 |-> Path(<<Grpc(StatesV0.PartitionV0), Grpc(RestPartition)>>),
   filesystem |-> [Path(<<Grpc(StatesV1.FilesystemV1), Grpc(RestFilesystem)>>) EXCEPT !.renamed = [mountpoint |-> "mountpoints"]],
   filesystem_v0 |-> Path(<<Grpc(StatesV0.FilesystemV0), Grpc(RestFilesystem)>>),
   block_devices |-> Path(<<Grpc(BlockDevices)>>),
   app_node |-> Path(<<Grpc(StoredAppNode), Own(AppNodeRequests.ToAppNodeSpec), Grpc(AppNodeRequests.FromAppNodeSpec), Own(RestAppNodeSpec)>>),
   app_node_state |-> [Path(<<Own(StateOfAppNode), Own(AppNodeMessages.ToAppNodeState), Grpc(AppNodeMessages.FromAppNodeState), Own(RestAppNodeState)>>)
                         EXCEPT !.lost = {"status"}],
   app_node_status |-> Path(<<Own(AppNodeMessages.ToAppNodeState), Grpc(AppNodeMessages.FromAppNodeState), Own(RestAppNodeState)>>),
   app_node_parts |-> Path(<<Grpc(AppNodeMessages.AppNode), Own(RestAppNode)>>),
   app_nodes |-> Path(<<Grpc(AppNodeMessages.AppNodes)>>),
   failed_path |-> Path(<<Own(FailedPathMessages.FailedPathResponse), Grpc(FailedPathMessages.FailedNvmePathResponse)>>),
   failed_paths_reply |-> Path(<<Own(FailedPathMessages.FailedPathsResponse), Grpc(FailedPathMessages.FailedPathsResponse)>>),
   nvme_controllers |-> Path(<<Own(PathMessages.NvmeControllers), Grpc(PathMessages.NvmeSubsystems)>>),
   specs |-> [Path(<<Own(RegistryListings.ToSpecs), Grpc(RegistryListings.FromSpecs), Own(RestSpecs)>>) EXCEPT !.dropped = {"affinity_groups"}],
   states |-> Path(<<Own(RegistryListings.ToStates), Grpc(RegistryListings.FromStates)>>),
   watches |-> Path(<<Grpc(WatchMessages.Watches)>>),
   watch |-> [Path(<<Own(WatchMessages.ToWatch), Grpc(WatchMessages.FromWatch), Own(RestWatch)>>)
                EXCEPT !.merged = [resource |-> [ReplicaState |-> "ReplicaSpec", ReplicaSpec |-> "ReplicaState"]],
                       !.dropped = {"watch_type"}],
   reply_error |-> [Path(<<Own(ToReplyError), Grpc(FromReplyError)>>) EXCEPT !.lax = {"Aborted"}]]

NodePaths == NodeRequestPaths @@ NodeReplyPaths
=============================================================================
