---------------------------- MODULE Operations ----------------------------
(***************************************************************************)
(* The generated contract of the protocol: its operations, the error tags   *)
(* each one declares, and the libzfs code every tag stands for.             *)
(* packages/effect-zfs/src/generated: operations.generated.ts,              *)
(* errors.generated.ts.  Codes are written without their prefix EZFS_.      *)
(***************************************************************************)
EXTENDS TLC

OnObject == {"DatasetNotFound", "InvalidName", "PermissionDenied"}
OnPool   == OnObject \cup {"PoolUnavailable"}

(* OperationErrorTags, in the order of the source.                         *)
DatasetAndSnapshotTags ==
       "Dataset.List" :> {"InvalidName", "PermissionDenied",
           "PoolUnavailable"}
    @@ "Dataset.Get" :> (OnPool \cup {"InvalidProperty"})
    @@ "Dataset.Set" :> (OnPool \cup {"InvalidProperty", "PropertyReadOnly",
           "PropertyNotApplicable", "OutOfSpace"})
    @@ "Dataset.Inherit" :> (OnObject \cup {"InvalidProperty",
           "PropertyNotInheritable"})
    @@ "Dataset.CreateFilesystem" :> (OnPool \cup {"DatasetAlreadyExists",
           "InvalidProperty", "EncryptionFailure", "OutOfSpace"})
    @@ "Dataset.CreateVolume" :> (OnPool \cup {"DatasetAlreadyExists",
           "InvalidProperty", "EncryptionFailure", "OutOfSpace", "VolumeTooBig"})
    @@ [op \in {"Dataset.Destroy", "Snapshot.Rollback"} |-> OnPool \cup
           {"DatasetBusy"}]
    @@ "Snapshot.Create" :> (OnObject \cup {"DatasetAlreadyExists",
           "OutOfSpace"})
    @@ "Snapshot.Destroy" :> (OnObject \cup {"DatasetBusy"})
    @@ "Snapshot.Clone" :> (OnObject \cup {"DatasetAlreadyExists",
           "CrossTarget", "InvalidProperty", "OutOfSpace"})
    @@ "Snapshot.List" :> OnPool
    @@ "Snapshot.Promote" :> (OnObject \cup {"DatasetAlreadyExists",
           "DatasetBusy", "CrossTarget"})
    @@ [op \in {"Snapshot.Rename", "Dataset.Rename"} |-> OnPool \cup
           {"DatasetAlreadyExists", "DatasetBusy", "CrossTarget"}]

PoolTags ==
       "Pool.List" :> {"PermissionDenied", "PoolUnavailable"}
    @@ "Pool.Get" :> (OnPool \cup {"InvalidProperty"})
    @@ "Pool.Set" :> (OnPool \cup {"InvalidProperty", "PropertyReadOnly"})
    @@ [op \in {"Pool.Status", "Pool.Clear", "Pool.Sync"} |-> OnPool]
    @@ "Pool.Create" :> {"DatasetAlreadyExists", "InvalidName",
           "InvalidProperty", "PermissionDenied", "OutOfSpace",
           "PoolUnavailable"}
    @@ [op \in {"Pool.Destroy", "Pool.Trim", "Pool.Reopen"} |-> OnPool \cup
           {"DatasetBusy"}]
    @@ "Pool.Initialize" :> (OnPool \cup {"OutOfSpace", "DatasetBusy"})
    @@ [op \in {"Pool.Scrub", "Pool.Resilver"} |-> OnPool \cup
           {"DatasetBusy", "Resilvering"}]

TransferHoldMountTags ==
       [op \in {"Replication.Send", "Replication.SendSpace",
           "Replication.SendProgress"} |-> OnPool \cup {"InvalidBackupStream"}]
    @@ "Replication.Receive" :> (OnPool \cup {"DatasetAlreadyExists",
           "InvalidProperty", "InvalidBackupStream", "BadRestore", "CrossTarget",
           "OutOfSpace"})
    @@ "Replication.AbortReceive" :> (OnPool \cup {"DatasetBusy",
           "BadRestore"})
    @@ "Snapshot.Hold" :> (OnObject \cup {"HoldTagExists", "HoldTagTooLong"})
    @@ "Snapshot.Holds" :> OnObject
    @@ "Snapshot.Release" :> (OnObject \cup {"HoldTagNotFound",
           "HoldTagTooLong"})
    @@ "Mount.Mount" :> (OnPool \cup {"DatasetBusy", "MountFailed",
           "EncryptionFailure"})
    @@ "Mount.Unmount" :> (OnPool \cup {"DatasetBusy", "UnmountFailed",
           "EncryptionFailure"})
    @@ "Mount.Share" :> (OnPool \cup {"DatasetBusy", "ShareFailed",
           "EncryptionFailure"})
    @@ "Mount.Unshare" :> (OnPool \cup {"DatasetBusy", "ShareFailed"})
    @@ "Bookmark.Create" :> (OnObject \cup {"DatasetAlreadyExists",
           "OutOfSpace"})
    @@ "Bookmark.Destroy" :> (OnObject \cup {"DatasetBusy"})
    @@ "Bookmark.List" :> {"InvalidName", "PermissionDenied",
           "PoolUnavailable"}
    @@ "Bookmark.Get" :> (OnPool \cup {"InvalidProperty"})

KeyAndUpkeepTags ==
       "Crypto.LoadKey" :> (OnPool \cup {"EncryptionFailure"})
    @@ "Crypto.UnloadKey" :> (OnPool \cup {"DatasetBusy",
           "EncryptionFailure"})
    @@ "Crypto.ChangeKey" :> (OnPool \cup {"InvalidProperty",
           "EncryptionFailure"})
    @@ [op \in {"Pool.Events", "Pool.Iostat", "Pool.Wait", "Pool.History",
           "Pool.Prefetch", "Pool.Upgrade"} |-> OnPool]
    @@ [op \in {"Pool.EventsClear", "Pool.EventsSeek"} |->
           {"PermissionDenied"}]
    @@ "Pool.Import" :> (OnPool \cup {"DatasetAlreadyExists", "DatasetBusy",
           "InvalidProperty", "PropertyReadOnly", "PoolActive"})
    @@ [op \in {"Pool.Export", "Pool.Reguid"} |-> OnPool \cup
           {"DatasetBusy"}]
    @@ "Pool.LabelClear" :> {"DatasetBusy", "InvalidName", "BadPath",
           "PermissionDenied"}
    @@ "Pool.Checkpoint" :> (OnPool \cup {"DatasetBusy", "CheckpointExists",
           "CheckpointDiscarding", "NoCheckpoint"})

DelegationAndQuotaTags ==
       [op \in {"Dataset.Allow", "Dataset.Unallow"} |-> OnPool \cup
           {"InvalidWho", "InvalidPermission", "InvalidPermissionSet",
           "DelegationDisabled"}]
    @@ "Dataset.ListAllow" :> (OnPool \cup {"DelegationDisabled"})
    @@ [op \in {"Dataset.Userspace", "Dataset.Groupspace",
           "Dataset.Projectspace", "Dataset.Wait", "Pool.GetBootenv",
           "Pool.DdtPrune", "Pool.Condense"} |-> OnPool]
    @@ [op \in {"Dataset.Project", "Dataset.Diff", "Dataset.Zone",
           "Dataset.Unzone"} |-> OnObject]
    @@ [op \in {"Pool.Program", "Pool.SetBootenv"} |-> OnPool \cup
           {"OutOfSpace"}]
    @@ "Snapshot.Redact" :> (OnPool \cup {"DatasetAlreadyExists",
           "OutOfSpace"})
    @@ "Zfs.Version" :> {"PermissionDenied"}

VdevTags ==
       "Pool.Add" :> (OnPool \cup {"InvalidProperty", "InvalidDevice",
           "BadPath", "DeviceOverflow", "InvalidVdevConfig", "VdevNotSupported",
           "DeviceOpenFailed", "DeviceIsSpare", "DatasetBusy", "OutOfSpace"})
    @@ "Pool.Remove" :> (OnPool \cup {"NoSuchDevice", "NoReplicas",
           "InvalidVdevConfig", "PoolNotSupported", "PoolInvalidArgument",
           "DatasetBusy"})
    @@ [op \in {"Pool.Attach", "Pool.Replace"} |-> OnPool \cup
           {"InvalidProperty", "NoSuchDevice", "BadAttachTarget",
           "InvalidDevice", "BadPath", "DeviceIsSpare", "DeviceIsCache",
           "Resilvering", "InvalidVdevConfig", "DeviceOpenFailed", "OutOfSpace"}]
    @@ "Pool.Detach" :> (OnPool \cup {"NoSuchDevice", "BadAttachTarget",
           "NoReplicas", "DeviceIsSpare"})
    @@ "Pool.Split" :> (OnPool \cup {"DatasetAlreadyExists",
           "InvalidProperty", "NoSuchDevice", "InvalidVdevConfig", "BadPath"})
    @@ "Pool.Online" :> (OnPool \cup {"NoSuchDevice", "PostSplitOnline",
           "DeviceOpenFailed"})
    @@ "Pool.Offline" :> (OnPool \cup {"NoSuchDevice", "NoReplicas",
           "DatasetBusy"})

LateTags ==
       [op \in {"Dataset.Upgrade", "Pool.Freeze", "Pool.Remap",
           "Pool.ErrorLog", "Dataset.DsobjToName", "Dataset.NextObj",
           "Dataset.ObjToStats"} |-> OnPool]
    @@ [op \in {"Dataset.Exists", "Pool.ClearFault"} |-> {"InvalidName",
           "PermissionDenied", "PoolUnavailable"}]
    @@ "Pool.GetVdev" :> (OnPool \cup {"InvalidProperty", "NoSuchDevice"})
    @@ "Pool.SetVdev" :> (OnPool \cup {"InvalidProperty", "PropertyReadOnly",
           "NoSuchDevice"})
    @@ "Replication.SnaprangeSpace" :> (OnPool \cup {"InvalidBackupStream"})
    @@ [op \in {"Dataset.Rewrite", "Dataset.ObjToPath", "Mount.SmbAcl"} |->
           OnPool \cup {"BadPath"}]
    @@ [op \in {"Pool.SetVdevPath", "Pool.SetVdevFru", "Pool.InjectFault"}
           |-> OnPool \cup {"NoSuchDevice"}]
    @@ "Pool.ListFaults" :> {"PermissionDenied", "PoolUnavailable"}

OperationErrorTags ==
    DatasetAndSnapshotTags @@ PoolTags @@ TransferHoldMountTags @@ KeyAndUpkeepTags
    @@ DelegationAndQuotaTags @@ VdevTags @@ LateTags

ProtocolOperations == DOMAIN OperationErrorTags

(* What an operation's type lets it fail with: its tags and the two every   *)
(* operation shares.                                                        *)
OperationError(op) ==
    OperationErrorTags[op] \cup {"UnknownZfsError", "ZfsTransportError"}

errorCodeToTag ==
    "BADPROP" :> "InvalidProperty" @@ "PROPREADONLY" :> "PropertyReadOnly" @@
    "PROPTYPE" :> "PropertyNotApplicable" @@ "PROPNONINHERIT" :>
    "PropertyNotInheritable" @@ "BUSY" :> "DatasetBusy" @@ "EXISTS" :>
    "DatasetAlreadyExists" @@ "NOENT" :> "DatasetNotFound" @@ "BADSTREAM" :>
    "InvalidBackupStream" @@ "VOLTOOBIG" :> "VolumeTooBig" @@ "INVALIDNAME" :>
    "InvalidName" @@ "BADRESTORE" :> "BadRestore" @@ "BADTARGET" :>
    "BadAttachTarget" @@ "NODEVICE" :> "NoSuchDevice" @@ "BADDEV" :>
    "InvalidDevice" @@ "NOREPLICAS" :> "NoReplicas" @@ "RESILVERING" :>
    "Resilvering" @@ "POOLUNAVAIL" :> "PoolUnavailable" @@ "DEVOVERFLOW" :>
    "DeviceOverflow" @@ "BADPATH" :> "BadPath" @@ "CROSSTARGET" :> "CrossTarget"
    @@ "MOUNTFAILED" :> "MountFailed" @@ "UMOUNTFAILED" :> "UnmountFailed" @@
    "PERM" :> "PermissionDenied" @@ "NOSPC" :> "OutOfSpace" @@ "ISSPARE" :>
    "DeviceIsSpare" @@ "INVALCONFIG" :> "InvalidVdevConfig" @@ "POOL_NOTSUP" :>
    "PoolNotSupported" @@ "POOL_INVALARG" :> "PoolInvalidArgument" @@
    "OPENFAILED" :> "DeviceOpenFailed" @@ "BADWHO" :> "InvalidWho" @@ "BADPERM"
    :> "InvalidPermission" @@ "BADPERMSET" :> "InvalidPermissionSet" @@
    "NODELEGATION" :> "DelegationDisabled" @@ "ISL2CACHE" :> "DeviceIsCache" @@
    "VDEVNOTSUP" :> "VdevNotSupported" @@ "REFTAG_RELE" :> "HoldTagNotFound" @@
    "REFTAG_HOLD" :> "HoldTagExists" @@ "TAGTOOLONG" :> "HoldTagTooLong" @@
    "POSTSPLIT_ONLINE" :> "PostSplitOnline" @@ "ACTIVE_POOL" :> "PoolActive" @@
    "CRYPTOFAILED" :> "EncryptionFailure" @@ "CHECKPOINT_EXISTS" :>
    "CheckpointExists" @@ "DISCARDING_CHECKPOINT" :> "CheckpointDiscarding" @@
    "NO_CHECKPOINT" :> "NoCheckpoint" @@ "SHAREFAILED" :> "ShareFailed"

Codes == DOMAIN errorCodeToTag
=============================================================================
