------------------------------ MODULE CsiStage ------------------------------
(***************************************************************************)
(* Staging a filesystem volume on one node: what stage_fs_volume           *)
(* (csi-driver/src/bin/node/filesystem_vol.rs), prepare_device (format.rs) *)
(* and the filesystem operations (filesystem_ops.rs) do to the device, for *)
(* a new volume or for a clone whose filesystem id is to be changed, with  *)
(* failures and restarts between the steps.  The tools (mkfs, tune2fs,     *)
(* xfs_admin, e2fsck, mount) and the kernel are external.                  *)
(***************************************************************************)
EXTENDS Naturals

CONSTANTS MaxFaults,  \* failed tools, lost answers, restarts
          MaxProbes,  \* probes that fail though there is a filesystem
          MaxCycles   \* how often the volume is unstaged

VARIABLES fs,      \* the filesystem type of the volume
          clone,   \* restored from a snapshot, with an id of its own asked for
          disk,    \* "blank", "partial" (an interrupted mkfs) or "fs"
          uuid,    \* the filesystem's id: the source's, the volume's own, or some
          dirty,   \* the log has to be replayed before the id can be changed
          data,    \* there is data on it
          lost,    \* data was formatted away
          mnt,     \* mounted on the staging path
          pc,      \* the handler
          ok,      \* the orchestrator was told that the volume is staged
          faults, probes, cycles

vars == <<fs, clone, disk, uuid, dirty, data, lost, mnt, pc, ok, faults, probes, cycles>>
fixed == <<fs, clone>>

TypeOK ==
  /\ fs \in {"ext4", "xfs", "btrfs"} /\ clone \in BOOLEAN
  /\ disk \in {"blank", "partial", "fs"} /\ uuid \in {"none", "src", "own", "some"}
  /\ dirty \in BOOLEAN /\ data \in BOOLEAN /\ lost \in BOOLEAN /\ mnt \in BOOLEAN /\ ok \in BOOLEAN
  /\ pc \in {"idle", "look", "probe", "format", "setid", "repair", "umount", "again", "mount"}
  /\ faults \in 0..MaxFaults /\ probes \in 0..MaxProbes /\ cycles \in 0..MaxCycles

\* A snapshot of a filesystem in use has a log to replay.
Init ==
  /\ fs \in {"ext4", "xfs", "btrfs"} /\ clone \in BOOLEAN
  /\ disk = IF clone THEN "fs" ELSE "blank"
  /\ uuid = IF clone THEN "src" ELSE "none"
  /\ dirty = (clone /\ fs # "btrfs")
  /\ data = clone /\ lost = FALSE /\ mnt = FALSE /\ pc = "idle" /\ ok = FALSE
  /\ faults = 0 /\ probes = 0 /\ cycles = 0

Fault == faults < MaxFaults /\ faults' = faults + 1
NoFault == UNCHANGED faults
-----------------------------------------------------------------------------
Call ==
  /\ pc = "idle" /\ ~ok /\ pc' = "look"
  /\ UNCHANGED <<fixed, disk, uuid, dirty, data, lost, mnt, ok, faults, probes, cycles>>

\* unmount_on_fs_id_diff: not for ext4.
StaysMounted == fs = "ext4" \/ uuid = "own"

ContinueStage == clone /\ fs = "xfs"

\* A device mounted on the staging path is staged, unless an earlier attempt
\* left it there before the id was changed; one that stays mounted then is
\* "already mounted elsewhere".
Look ==
  /\ pc = "look"
  /\ mnt' = (mnt /\ (clone => StaysMounted))
  /\ pc' = IF (mnt /\ ~ContinueStage) \/ mnt' THEN "idle" ELSE "probe"
  /\ ok' = (mnt /\ ~ContinueStage)
  /\ UNCHANGED <<fixed, disk, uuid, dirty, data, lost, faults, probes, cycles>>

\* prepare_device: a device without a filesystem that can be read is formatted.
Probe ==
  /\ pc = "probe"
  /\ \/ disk = "fs" /\ pc' = (IF clone THEN "setid" ELSE "mount") /\ UNCHANGED probes
     \/ disk # "fs" /\ pc' = "format" /\ UNCHANGED probes
     \/ disk = "fs" /\ probes < MaxProbes /\ probes' = probes + 1 /\ pc' = "format"
  /\ UNCHANGED <<fixed, disk, uuid, dirty, data, lost, mnt, ok, faults, cycles>>

\* mkfs.xfs and mkfs.btrfs refuse a device that has a filesystem.
Format ==
  /\ pc = "format"
  /\ \/ /\ disk = "fs" /\ fs # "ext4" /\ pc' = "idle"
        /\ UNCHANGED <<disk, uuid, data, lost>> /\ NoFault
     \/ /\ disk # "fs" \/ fs = "ext4"
        /\ disk' = "fs" /\ uuid' = "some" /\ data' = FALSE /\ lost' = (lost \/ data)
        /\ pc' = "mount" /\ NoFault
     \/ /\ disk # "fs" \/ fs = "ext4"
        /\ disk' = "partial" /\ data' = FALSE /\ lost' = (lost \/ data)
        /\ pc' = "idle" /\ UNCHANGED uuid /\ Fault
  /\ UNCHANGED <<fixed, dirty, mnt, ok, probes, cycles>>

\* set_uuid: nothing to do when the id is right already; the tools refuse a
\* filesystem whose log is dirty.
SetUuid ==
  /\ pc = "setid"
  /\ \/ uuid = "own" /\ pc' = "mount" /\ UNCHANGED uuid /\ NoFault
     \/ uuid # "own" /\ ~dirty /\ uuid' = "own" /\ pc' = "mount" /\ NoFault
     \/ uuid # "own" /\ dirty /\ pc' = "repair" /\ UNCHANGED uuid /\ NoFault
     \/ uuid # "own" /\ pc' = "repair" /\ UNCHANGED uuid /\ Fault
  /\ UNCHANGED <<fixed, disk, dirty, data, lost, mnt, ok, probes, cycles>>

\* repair: e2fsck, a read-only check, or, for xfs, a mount and an unmount.
Repair ==
  /\ pc = "repair"
  /\ \/ fs = "ext4" /\ dirty' = FALSE /\ pc' = "again" /\ UNCHANGED mnt /\ NoFault
     \/ fs = "btrfs" /\ pc' = "again" /\ UNCHANGED <<dirty, mnt>> /\ NoFault
     \/ fs = "xfs" /\ mnt' = TRUE /\ pc' = "umount" /\ UNCHANGED dirty /\ NoFault
     \/ pc' = "idle" /\ UNCHANGED <<dirty, mnt>> /\ Fault
  /\ UNCHANGED <<fixed, disk, uuid, data, lost, ok, probes, cycles>>

RepairUmount ==
  /\ pc = "umount"
  /\ \/ mnt' = FALSE /\ dirty' = FALSE /\ pc' = "again" /\ NoFault
     \/ pc' = "idle" /\ UNCHANGED <<mnt, dirty>> /\ Fault
  /\ UNCHANGED <<fixed, disk, uuid, data, lost, ok, probes, cycles>>

SetUuidAgain ==
  /\ pc = "again"
  /\ \/ ~dirty /\ uuid' = "own" /\ pc' = "mount" /\ NoFault
     \/ pc' = "idle" /\ UNCHANGED uuid /\ Fault
  /\ UNCHANGED <<fixed, disk, dirty, data, lost, mnt, ok, probes, cycles>>

\* filesystem_mount, and the answer, which may be lost.
Mount ==
  /\ pc = "mount" /\ pc' = "idle"
  /\ \/ disk = "fs" /\ mnt' = TRUE /\ ok' = TRUE /\ NoFault
     \/ disk = "fs" /\ mnt' = TRUE /\ UNCHANGED ok /\ Fault
     \/ UNCHANGED <<mnt, ok>> /\ Fault
     \/ disk # "fs" /\ UNCHANGED <<mnt, ok>> /\ NoFault
  /\ UNCHANGED <<fixed, disk, uuid, dirty, data, lost, probes, cycles>>
-----------------------------------------------------------------------------
\* The workload writes; the volume is unstaged; the plugin restarts, alone or
\* with its node (external).
Write ==
  /\ ok /\ ~data /\ data' = TRUE
  /\ UNCHANGED <<fixed, disk, uuid, dirty, lost, mnt, pc, ok, faults, probes, cycles>>

Unstage ==
  /\ ok /\ cycles < MaxCycles /\ cycles' = cycles + 1
  /\ mnt' = FALSE /\ ok' = FALSE
  /\ UNCHANGED <<fixed, disk, uuid, dirty, data, lost, pc, faults, probes>>

Restart ==
  /\ pc # "idle" /\ Fault /\ pc' = "idle"
  /\ UNCHANGED <<fixed, disk, uuid, dirty, data, lost, mnt, ok, probes, cycles>>

Reboot ==
  /\ Fault /\ pc' = "idle" /\ mnt' = FALSE /\ ok' = FALSE
  /\ dirty' = (dirty \/ (mnt /\ fs # "btrfs"))
  /\ UNCHANGED <<fixed, disk, uuid, data, lost, probes, cycles>>

Handler ==
  \/ Look \/ Probe \/ Format \/ SetUuid \/ Repair \/ RepairUmount \/ SetUuidAgain \/ Mount

Next == Call \/ Handler \/ Write \/ Unstage \/ Restart \/ Reboot

\* The handler runs on and the orchestrator calls again.
Fairness == WF_vars(Handler) /\ WF_vars(Call)

Spec == Init /\ [][Next]_vars
FairSpec == Spec /\ Fairness
-----------------------------------------------------------------------------
\* stage_fs_volume: a volume reported as staged is mounted, and the filesystem
\* of a clone has its own id, though attempts before may have stopped between
\* a repair's mount and unmount.
StagedAsAsked == ok => mnt /\ disk = "fs" /\ (clone /\ probes = 0 => uuid = "own")

\* format.rs prepare_device: data is never formatted away, unless the probe of
\* the device failed (prepare_device takes every failure for "no filesystem").
DataIsPreserved == probes = 0 => ~lost

\* stage_fs_volume: repeated calls get the volume staged.  Not so for a clone
\* on xfs that is mounted with the right id: it is "already mounted elsewhere".
Staged == ok \/ (mnt /\ clone /\ fs = "xfs")
StageConverges == []<>Staged
=============================================================================
