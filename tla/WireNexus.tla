----------------------------- MODULE WireNexus ------------------------------
(***************************************************************************)
(* Volume targets (nexuses) and their children on their way between the    *)
(* REST API, the core agent and the persistent store.                      *)
(***************************************************************************)
EXTENDS WireVolume, WirePool

NexusShareProtocol == Same({"Nvmf", "Iscsi"})
RestNexusStatus == Same({"Unknown", "Online", "Degraded", "Faulted", "ShuttingDown", "Shutdown"})
RestChildState == Same({"Unknown", "Online", "Degraded", "Faulted"})
RebuildJobState == Same({"Init", "Rebuilding", "Stopped", "Paused", "Failed", "Completed"})
RestRebuildState == Same({"Init", "Rebuilding", "Stopped", "Paused", "Failed", "Completed"})
NexusOperation == Same({"Create", "Destroy", "Share", "Unshare", "AddChild", "RemoveChild", "Shutdown",
                        "OwnerUpdate", "Resize"})
NvmeReservation == Same({"Reserved", "WriteExclusive", "ExclusiveAccess", "WriteExclusiveRegsOnly",
                         "ExclusiveAccessRegsOnly", "WriteExclusiveAllRegs", "ExclusiveAccessAllRegs"})

\* The policy number together with the key that ArgKey may carry.
NexusNvmePreemption == Same({"ArgKey", "ArgKeyNone", "Holder"})

-----------------------------------------------------------------------------
(* Requests.                                                               *)

CreateNexusBody == Plain({"node", "uuid", "size", "children"})
                     @@ Fixed({"managed"}) @@ Absent({"owner", "config"})
NexusRequests ==
  [CreateNexusRequest |->
      Plain({"node", "uuid", "size", "children", "managed"}) @@ Opt({"owner", "config"}),
   NexusFilter |-> Plain({"node_id"}) @@ ParsePlain({"nexus_id"}),
   DestroyNexus |-> Plain({"node"}) @@ Parse({"uuid"})]

NexusConfigs ==
  [ToNexusNvmfConfig |->
      Plain({"controller_id_range", "reservation_key"})
        @@ Enum("reservation_type", "reservation_type", NvmeReservation, "Reserved")
        @@ Enum("preempt_policy", "preempt_policy", NexusNvmePreemption, "ArgKey"),
   ValidatedCreateNexus |->
      Plain({"node", "size", "managed"}) @@ Parse({"uuid"}) @@ ParseAll({"children"})
        @@ OptParse({"owner", "config"})]

SpecOfCreateNexus ==
  Plain({"uuid", "node", "children", "size", "managed"}) @@ Opt({"owner"}) @@ As("nvmf_config", "config", "opt")
    @@ As("name", "uuid", "plain") @@ Set("status", "Creating") @@ Set("share", "None")
    @@ Absent({"operation"}) @@ Fixed({"status_info", "allowed_hosts"})

\* A target that has to be created again is created and shared from its spec.
CreateNexusOfSpec == Plain({"node", "uuid", "size", "children", "managed"}) @@ Opt({"owner"})
                       @@ As("config", "nvmf_config", "opt")
ShareNexusOfSpec == Plain({"node", "uuid", "allowed_hosts"}) @@ Absent({"key"})
                      @@ LaxEnum("protocol", "share", NexusShareProtocol, "Nvmf")

\* del_nexus looks the node up; either way the request names both.
DestroyNexusBody == Plain({"node", "uuid"})
ShareNexusBody == Plain({"node", "uuid"}) @@ Enum("protocol", "protocol", NexusShareProtocol, "Nvmf")
                    @@ Absent({"key"}) @@ Fixed({"allowed_hosts"})
NexusShareRequests ==
  [ShareNexusRequest |->
      Plain({"node", "uuid", "allowed_hosts"}) @@ Opt({"key"})
        @@ Enum("protocol", "protocol", NexusShareProtocol, "Nvmf"),
   UnshareNexus |-> Plain({"node"}) @@ Parse({"uuid"})]

ShareNexus == Plain({"node"}) @@ Parse({"uuid"}) @@ Opt({"key"}) @@ ParseAll({"allowed_hosts"})
                @@ Enum("protocol", "protocol", NexusShareProtocol, "Nvmf")

UnshareNexusBody == Plain({"node", "uuid"})
\* build_child_uri: text that is not a URL names an AIO device.
ChildUri == [url |-> "url", path |-> "aio"]
\* add_child_filtered and delete_child_filtered take the node and the nexus
\* from the nexus they look up.
NexusChildBodies ==
  [SameUri |-> Same({"url", "aio"}),
   AddNexusChildBody |->
      Plain({"node", "nexus"}) @@ Enum("uri", "child_id", ChildUri, "aio") @@ Fixed({"auto_rebuild"}),
   RemoveNexusChildBody |-> Plain({"node", "nexus"}) @@ Enum("uri", "child_id", ChildUri, "aio")]

AddNexusChild == Plain({"node", "auto_rebuild"}) @@ Parse({"nexus"}) @@ Enum("uri", "uri", NexusChildBodies.SameUri, "default")
NexusChildRequests ==
  [RemoveNexusChild |->
      Plain({"node"}) @@ Parse({"nexus"}) @@ Enum("uri", "uri", NexusChildBodies.SameUri, "default"),
   GetRebuildRecord |-> ParsePlain({"uuid"})]

-----------------------------------------------------------------------------
(* The nexus as the core agent reports it.                                 *)

\* The hosts that may connect are not in the message.
NexusMessages ==
  [FromNexus |->
      Plain({"node", "name", "size", "device_uri", "rebuilds"}) @@ Parse({"uuid"}) @@ ParseAll({"children"})
        @@ Enum("status", "status", NexusEnums.NexusStatus, "Unknown") @@ Enum("share", "share", ReplicaShareRequests.Protocol, "None")
        @@ Fixed({"allowed_hosts"}),
   ToNexus |->
      Plain({"node", "name", "uuid", "size", "children", "device_uri", "rebuilds"})
        @@ Enum("status", "status", NexusEnums.NexusStatus, "Unknown") @@ Enum("share", "share", ReplicaShareRequests.Protocol, "None"),
   Nexuses |-> ParseAll({"nexuses"})]

RestNexus == Plain({"children", "device_uri", "node", "rebuilds", "size", "uuid"})
               @@ Enum("share", "share", ReplicaShareRequests.Protocol, "None") @@ Enum("state", "status", RestNexusStatus, "Unknown")

ToChild == Plain({"uri"}) @@ Opt({"rebuild_progress"}) @@ Enum("state", "state", NexusEnums.ToChildState, "ChildUnknown")
             @@ Enum("reason", "state_reason", ToChildStateReason, "None")
RestChild == Plain({"uri"}) @@ Opt({"rebuild_progress"}) @@ Enum("state", "state", RestChildState, "Unknown")
               @@ OptEnum("state_reason", "state_reason", RestChildStateReason)

\* A child of a spec: a replica with its identifier, or a bare URI.
NexusSpecParts ==
  [NexusChild |->
      Enum("child", "child", Same({"Replica", "Uri"}), "invalid_argument")
        @@ Plain({"child_uri"}) @@ Parse({"replica_id"}),
   NexusNvmfConfig |->
      Plain({"reservation_key"}) @@ ParsePlain({"controller_id_range"})
        @@ Enum("reservation_type", "reservation_type", NvmeReservation, "invalid_argument")
        @@ Enum("preempt_policy", "preempt_policy", NexusNvmePreemption, "ArgKey")]

StoredNexusSpec ==
  Need({"uuid", "name", "node", "children", "size", "managed"}) @@ Opt({"owner"})
    @@ Enum("status", "status", SpecStatus, "missing_argument") @@ Enum("share", "share", ReplicaShareRequests.Protocol, "missing_argument")
    @@ OptEnum("operation", "operation", NexusOperation)
    @@ Opt({"nvmf_config"}) @@ Default({"status_info", "allowed_hosts"})
\* Every pending operation is read back as a creation.
NexusSpecs ==
  [FromNexusSpec |->
      Plain({"name", "node", "size", "managed"}) @@ Parse({"uuid"}) @@ ParseAll({"children", "allowed_hosts"})
        @@ OptParse({"owner", "nvmf_config"}) @@ Enum("status", "status", SpecStatus, "Created")
        @@ Enum("share", "share", ReplicaShareRequests.Protocol, "None")
        @@ OptLaxEnum("operation", "operation", [pending |-> "Create"], "Create") @@ Fixed({"status_info"}),
   ToNexusSpec |->
      Plain({"uuid", "name", "node", "children", "size", "managed", "allowed_hosts"}) @@ Opt({"owner", "nvmf_config"})
        @@ Enum("status", "status", SpecStatus, "Created") @@ Enum("share", "share", ReplicaShareRequests.Protocol, "None")
        @@ OptEnum("operation", "operation", [op \in DOMAIN NexusOperation |-> "pending"])]

RestNexusSpec ==
  Plain({"children", "managed", "node", "size", "uuid"}) @@ Enum("share", "share", ReplicaShareRequests.Protocol, "None")
    @@ Enum("status", "status", SpecStatus, "Created")

FromRebuildHistory == Plain({"name"}) @@ ParsePlain({"uuid"}) @@ ParseAll({"records"})
RestRebuildHistory == Plain({"uuid", "records"})

RebuildCounts == Plain({"child_uri", "src_uri", "blocks_total", "blocks_recovered", "blocks_transferred",
                        "blocks_remaining", "block_size", "is_partial"})
\* When a child faulted and whether it has an I/O log stay behind.
RebuildMessages ==
  [FromChild |->
      Plain({"uri"}) @@ Opt({"rebuild_progress"}) @@ Enum("state", "state", NexusEnums.FromChildState, "Unknown")
        @@ LaxEnum("state_reason", "reason", FromChildStateReason, "Unknown")
        @@ Absent({"faulted_at", "has_io_log"}),
   ToRebuildHistory |-> Plain({"uuid", "name", "records"}),
   ToRebuildRecord |->
      RebuildCounts @@ Plain({"blocks_per_task", "start_time", "end_time"})
        @@ Enum("state", "state", RebuildJobState, "Init")]

FromRebuildRecord == RebuildCounts @@ Plain({"blocks_per_task"}) @@ ParsePlain({"start_time", "end_time"})
                       @@ Enum("state", "state", RebuildJobState, "Init")
RestRebuildRecord == RebuildCounts @@ Plain({"start_time", "end_time"})
                       @@ Enum("state", "state", RestRebuildState, "Init")

-----------------------------------------------------------------------------
(* The paths.                                                              *)

ShownNexusSpec == <<Own(NexusSpecs.ToNexusSpec), Grpc(NexusSpecs.FromNexusSpec), Own(RestNexusSpec)>>
AskedChild == [uri |-> "child_id"]
AioChild == [uri |-> [path |-> "aio"]]

NexusPaths ==
  [put_nexus |->
     [Path(<<Own(CreateNexusBody), Own(NexusRequests.CreateNexusRequest), Grpc(NexusConfigs.ValidatedCreateNexus), Own(SpecOfCreateNexus),
             Grpc(StoredNexusSpec)>> \o ShownNexusSpec)
        EXCEPT !.lost = {"managed", "share", "status"}],
   create_nexus |-> Path(<<Own(NexusRequests.CreateNexusRequest), Grpc(NexusConfigs.ValidatedCreateNexus)>>),
   recreate_nexus |->
     [Path(<<Own(SpecOfCreateNexus), Grpc(StoredNexusSpec), Own(CreateNexusOfSpec)>>) EXCEPT !.lost = {}],
   reshare_nexus |->
     [Path(<<Grpc(StoredNexusSpec), Own(ShareNexusOfSpec)>>)
        EXCEPT !.lost = {"key"}, !.renamed = [protocol |-> "share"],
               !.merged = [protocol |-> [None |-> "Nvmf", Nbd |-> "Nvmf"]],
               !.dropped = {"name", "children", "size", "managed", "owner", "status", "operation", "nvmf_config",
                            "status_info"}],
   destroy_nexus |-> Path(<<Own(DestroyNexusBody), Grpc(NexusRequests.DestroyNexus)>>),
   share_nexus |-> [Path(<<Own(ShareNexusBody), Own(NexusShareRequests.ShareNexusRequest), Grpc(ShareNexus)>>)
                      EXCEPT !.lost = {"key", "allowed_hosts"}],
   unshare_nexus |-> Path(<<Own(UnshareNexusBody), Grpc(NexusShareRequests.UnshareNexus)>>),
   add_nexus_child |-> [Path(<<Own(NexusChildBodies.AddNexusChildBody), Grpc(AddNexusChild)>>)
                          EXCEPT !.renamed = AskedChild, !.merged = AioChild, !.lost = {"auto_rebuild"}],
   remove_nexus_child |-> [Path(<<Own(NexusChildBodies.RemoveNexusChildBody), Grpc(NexusChildRequests.RemoveNexusChild)>>)
                             EXCEPT !.renamed = AskedChild, !.merged = AioChild],
   get_rebuild_history |-> Path(<<Grpc(NexusChildRequests.GetRebuildRecord)>>),
   get_nexuses |-> Path(<<Grpc(NexusRequests.NexusFilter)>>),
   nexus |-> [Path(<<Own(NexusMessages.ToNexus), Grpc(NexusMessages.FromNexus), Own(RestNexus)>>)
                EXCEPT !.renamed = [state |-> "status"], !.dropped = {"name"}],
   nexuses |-> Path(<<Grpc(NexusMessages.Nexuses)>>),
   child |-> [Path(<<Own(ToChild), Grpc(RebuildMessages.FromChild), Own(RestChild)>>)
                EXCEPT !.merged = [state_reason |-> RestChildStateReason]],
   nexus_child |-> Path(<<Grpc(NexusSpecParts.NexusChild)>>),
   nvmf_config |-> Path(<<Own(NexusConfigs.ToNexusNvmfConfig), Grpc(NexusSpecParts.NexusNvmfConfig)>>),
   nexus_spec |->
     [Path(<<Grpc(StoredNexusSpec)>> \o ShownNexusSpec)
        EXCEPT !.dropped = {"name", "owner", "operation", "nvmf_config", "status_info", "allowed_hosts"}],
   rebuild_history |-> [Path(<<Own(RebuildMessages.ToRebuildHistory), Grpc(FromRebuildHistory), Own(RestRebuildHistory)>>)
                          EXCEPT !.dropped = {"name"}],
   rebuild_record |-> [Path(<<Own(RebuildMessages.ToRebuildRecord), Grpc(FromRebuildRecord), Own(RestRebuildRecord)>>)
                         EXCEPT !.dropped = {"blocks_per_task"}]]
=============================================================================
