----------------------------- MODULE HandleCalls -----------------------------
(***************************************************************************)
(* Which C handles the methods of packages rados, striper and rbd pass to  *)
(* the C libraries, and what they ask of their objects before.             *)
(*                                                                         *)
(* A method is a sequence of uses, one per object whose handle it passes,  *)
(* in the order it asks.  The tables hold the methods that change nothing  *)
(* else in Go: what they do is one C call.  A method of Snapshot uses the  *)
(* Image the Snapshot points to.                                           *)
(***************************************************************************)
EXTENDS Sequences, Functions

Class == {"conn", "ioctx", "iter", "striper", "image", "options"}

(* What is asked: "ready" (a Conn is connected, an Image has a name),      *)
(* "from" (an Image has an IOContext), "handle" and "noHandle".            *)
Ask == {"ready", "from", "handle", "noHandle"}

(* The handle passed: the object's own, or that of its IOContext.          *)
Use == [class : Class, asks : SUBSET Ask, passes : {"own", "from"}]

Own(class, asks) == [class |-> class, asks |-> asks, passes |-> "own"]

Cluster   == Own("conn", {})            \* c.cluster as it is
Connected == Own("conn", {"ready"})     \* after ensureConnected
Ioctx     == Own("ioctx", {})           \* ioctx.ioctx, or cephIoctx(ioctx)
Valid     == Own("ioctx", {"handle"})   \* after IOContext.validate
IterCtx   == Own("iter", {})
Layouter  == Own("striper", {})
Options   == Own("options", {})
Opened    == Own("image", {"handle"})   \* after validate(imageIsOpen)
OfImage(asks) == [class |-> "image", asks |-> asks, passes |-> "from"]

----------------------------------------------------------------------------
(* rados/conn.go, rados_getaddrs.go, command.go                            *)

ConnConfigCalls ==
    [PingMonitor |-> <<Cluster>>, ReadConfigFile |-> <<Cluster>>,
     ReadDefaultConfigFile |-> <<Cluster>>, ListPools |-> <<Cluster>>,
     SetConfigOption |-> <<Cluster>>, GetConfigOption |-> <<Cluster>>,
     WaitForLatestOSDMap |-> <<Cluster>>]

ConnCalls ==
    [GetClusterStats |-> <<Connected>>,
     ParseConfigArgv |-> <<Own("conn", {"handle"})>>,
     ParseCmdLineArgs |-> <<Own("conn", {"handle"})>>,
     ParseDefaultConfigEnv |-> <<Cluster>>, GetFSID |-> <<Cluster>>,
     GetInstanceID |-> <<Cluster>>, MakePool |-> <<Cluster>>,
     DeletePool |-> <<Connected>>,
     GetPoolByName |-> <<Connected>>, GetPoolByID |-> <<Connected>>]

AddrsCalls == [GetAddrs |-> <<Cluster>>]

CommandCalls ==
    [MonCommand |-> <<Cluster>>, MonCommandWithInputBuffer |-> <<Cluster>>,
     PGCommand |-> <<Cluster>>, PGCommandWithInputBuffer |-> <<Cluster>>,
     MgrCommand |-> <<Cluster>>, MgrCommandWithInputBuffer |-> <<Cluster>>]

TargetCommandCalls ==
    [OsdCommand |-> <<Cluster>>, OsdCommandWithInputBuffer |-> <<Cluster>>,
     MonCommandTarget |-> <<Cluster>>, MonCommandTargetWithInputBuffer |-> <<Cluster>>]

----------------------------------------------------------------------------
(* rados/ioctx*.go, rados_set_locator.go, snapshot.go                      *)

ObjectCalls ==
    [SetNamespace |-> <<Ioctx>>, Create |-> <<Ioctx>>, Write |-> <<Ioctx>>,
     WriteFull |-> <<Ioctx>>, Append |-> <<Ioctx>>, Read |-> <<Ioctx>>,
     Delete |-> <<Ioctx>>, Truncate |-> <<Ioctx>>]

PoolCalls ==
    [GetPoolStats |-> <<Ioctx>>, GetPoolID |-> <<Ioctx>>, GetPoolName |-> <<Ioctx>>,
     ListObjects |-> <<Ioctx>>, Stat |-> <<Ioctx>>]

XattrCalls ==
    [GetXattr |-> <<Ioctx>>, SetXattr |-> <<Ioctx>>, ListXattrs |-> <<Ioctx>>,
     RmXattr |-> <<Ioctx>>]

LockCalls ==
    [LockExclusive |-> <<Ioctx>>, LockShared |-> <<Ioctx>>, Unlock |-> <<Ioctx>>]

LockerCalls ==
    [ListLockers |-> <<Ioctx>>, BreakLock |-> <<Ioctx>>,
     GetLastVersion |-> <<Valid>>, GetNamespace |-> <<Valid>>]

FullTryNautilus == [SetPoolFullTry |-> <<Valid>>, UnsetPoolFullTry |-> <<Valid>>]
FullTryOctopus  == [SetPoolFullTry |-> <<Valid>>, UnsetPoolFullTry |-> <<Valid>>]
AlignmentCalls  == [Alignment |-> <<Ioctx>>]
RequiresAlignmentCalls == [RequiresAlignment |-> <<Ioctx>>]
AllocHintCalls  == [SetAllocationHint |-> <<Ioctx>>]
LocatorCalls    == [SetLocator |-> <<Ioctx>>]

PoolSnapCalls ==
    [CreateSnap |-> <<Valid>>, RemoveSnap |-> <<Valid>>, LookupSnap |-> <<Valid>>,
     GetSnapName |-> <<Valid>>]

PoolSnapStateCalls ==
    [GetSnapStamp |-> <<Valid>>, ListSnaps |-> <<Valid>>,
     RollbackSnap |-> <<Valid>>, SetReadSnap |-> <<Valid>>]

(* Value, Namespace and Err pass nothing.                                  *)
IterCalls == [Token |-> <<IterCtx>>, Seek |-> <<IterCtx>>, Next |-> <<IterCtx>>]

----------------------------------------------------------------------------
(* rados/striper                                                           *)

LayoutCalls ==
    [SetObjectLayoutStripeUnit |-> <<Layouter>>,
     SetObjectLayoutStripeCount |-> <<Layouter>>,
     SetObjectLayoutObjectSize |-> <<Layouter>>]
StriperRead  == [Read |-> <<Layouter>>]
StriperStat  == [Stat |-> <<Layouter>>]
StriperStat2 == [Stat |-> <<Layouter>>]
StriperWrite ==
    [Write |-> <<Layouter>>, WriteFull |-> <<Layouter>>, Append |-> <<Layouter>>,
     Remove |-> <<Layouter>>, Truncate |-> <<Layouter>>]
StriperXattr ==
    [GetXattr |-> <<Layouter>>, SetXattr |-> <<Layouter>>, RmXattr |-> <<Layouter>>,
     ListXattrs |-> <<Layouter>>]

----------------------------------------------------------------------------
(* rbd/rbd.go.  The functions of the package take IOContexts.              *)

NewImageCalls ==
    [Create |-> <<Ioctx>>, Create2 |-> <<Ioctx>>, Create3 |-> <<Ioctx>>]

NamedImageCalls ==
    [Clone  |-> <<OfImage({"from"}), Ioctx>>,
     Remove |-> <<OfImage({"from", "ready", "noHandle"})>>,
     Trash  |-> <<OfImage({"from", "ready"})>>,
     Rename |-> <<OfImage({"from", "ready"})>>]

StatCalls ==
    [Resize |-> <<Opened>>, Stat |-> <<Opened>>, IsOldFormat |-> <<Opened>>,
     GetSize |-> <<Opened>>, GetStripeUnit |-> <<Opened>>,
     GetStripeCount |-> <<Opened>>, GetOverlap |-> <<Opened>>]

(* Mutated: Copy2 does not ask the image it copies to.                     *)
CopyCallsUnasked ==
    [Copy |-> <<Opened, Ioctx>>, Copy2 |-> <<Opened, Own("image", {})>>,
     DeepCopy |-> <<Opened, Ioctx, Options>>, Flatten |-> <<Opened>>]

CopyCalls ==
    [Copy |-> <<Opened, Ioctx>>, Copy2 |-> <<Opened, Opened>>,
     DeepCopy |-> <<Opened, Ioctx, Options>>, Flatten |-> <<Opened>>]

ImageLockCalls ==
    [ListLockers |-> <<Opened>>, LockExclusive |-> <<Opened>>,
     LockShared |-> <<Opened>>, Unlock |-> <<Opened>>, BreakLock |-> <<Opened>>]

(* Seek asks librbd only for the size, through Stat.                       *)
ImageIOCalls ==
    [Read |-> <<Opened>>, Write |-> <<Opened>>, Seek |-> <<Opened>>,
     Discard |-> <<Opened>>]

ImageIOAtCalls ==
    [ReadAt |-> <<Opened>>, WriteAt |-> <<Opened>>, WriteSame |-> <<Opened>>,
     Flush |-> <<Opened>>]

ImageNameCalls ==
    [GetSnapshotNames |-> <<Opened>>, GetId |-> <<Opened>>, SetSnapshot |-> <<Opened>>]

TrashCalls ==
    [GetTrashList |-> <<Ioctx>>, TrashRemove |-> <<Ioctx>>, TrashRestore |-> <<Ioctx>>]

ByNameCalls ==
    [CreateImage |-> <<Ioctx, Options>>, RemoveImage |-> <<Ioctx>>,
     CloneImage |-> <<Ioctx, Ioctx, Options>>,
     CloneFromImage |-> <<OfImage({"from"}), Ioctx, Options>>]

CloneByIDCalls == [CloneImageByID |-> <<Ioctx, Ioctx, Options>>]

----------------------------------------------------------------------------
(* The other files of rbd.                                                 *)

DataPoolCalls    == [GetDataPoolID |-> <<Opened>>]
DiffCalls        == [DiffIterate |-> <<Opened>>]
DiffByIDCalls    == [DiffIterateByID |-> <<Opened>>]
EncryptionCalls  == [EncryptionFormat |-> <<Opened>>, EncryptionLoad |-> <<Opened>>]
Encryption2Calls == [EncryptionLoad2 |-> <<Opened>>]
FeatureCalls     == [GetFeatures |-> <<Opened>>, UpdateFeatures |-> <<Opened>>]
SparsifyCalls    == [SparsifyWithProgress |-> <<Opened>>]
Resize2Calls     == [Resize2 |-> <<Opened>>]
WatchCalls       == [ListWatchers |-> <<Opened>>]

OwnerLockCalls ==
    [LockAcquire |-> <<Opened>>, LockBreak |-> <<Opened>>, LockGetOwners |-> <<Opened>>,
     LockIsExclusiveOwner |-> <<Opened>>, LockRelease |-> <<Opened>>]

MetadataCalls ==
    [GetMetadata |-> <<Opened>>, SetMetadata |-> <<Opened>>,
     RemoveMetadata |-> <<Opened>>, ListMetadata |-> <<Opened>>]

TimestampCalls ==
    [GetImageNames |-> <<Ioctx>>, GetCreateTimestamp |-> <<Opened>>,
     GetAccessTimestamp |-> <<Opened>>, GetModifyTimestamp |-> <<Opened>>,
     Sparsify |-> <<Opened>>]

GroupCalls ==
    [GroupCreate |-> <<Ioctx>>, GroupRemove |-> <<Ioctx>>, GroupRename |-> <<Ioctx>>,
     GroupList |-> <<Ioctx>>, GroupImageAdd |-> <<Ioctx, Ioctx>>,
     GroupImageRemove |-> <<Ioctx, Ioctx>>]

GroupImageCalls ==
    [GroupImageRemoveByID |-> <<Ioctx, Ioctx>>, GroupImageList |-> <<Ioctx>>,
     GetGroup |-> <<Opened>>]

GroupSnapCalls ==
    [GroupSnapCreate |-> <<Ioctx>>, GroupSnapRemove |-> <<Ioctx>>,
     GroupSnapRename |-> <<Ioctx>>, GroupSnapList |-> <<Ioctx>>]

GroupRollbackCalls ==
    [GroupSnapRollback |-> <<Ioctx>>, GroupSnapRollbackWithProgress |-> <<Ioctx>>]

GroupSnapInfoCalls == [GroupSnapGetInfo |-> <<Ioctx>>]

MigrationCalls ==
    [MigrationPrepare |-> <<Ioctx, Ioctx, Options>>,
     MigrationPrepareImport |-> <<Ioctx, Options>>, MigrationExecute |-> <<Ioctx>>]

MigrationEndCalls ==
    [MigrationCommit |-> <<Ioctx>>, MigrationAbort |-> <<Ioctx>>,
     MigrationStatus |-> <<Ioctx>>]

NamespaceCalls ==
    [NamespaceCreate |-> <<Ioctx>>, NamespaceRemove |-> <<Ioctx>>,
     NamespaceExists |-> <<Ioctx>>, NamespaceList |-> <<Ioctx>>]

PoolMetadataCalls ==
    [GetPoolMetadata |-> <<Ioctx>>, SetPoolMetadata |-> <<Ioctx>>,
     RemovePoolMetadata |-> <<Ioctx>>, PoolInit |-> <<Ioctx>>]

PoolStatsCalls == [GetAllPoolStats |-> <<Ioctx>>]

(* Destroy, the remaining method, is an action of Handles.                 *)
OptionsCalls ==
    [SetString |-> <<Options>>, GetString |-> <<Options>>, SetUint64 |-> <<Options>>,
     GetUint64 |-> <<Options>>, IsSet |-> <<Options>>, Unset |-> <<Options>>,
     Clear |-> <<Options>>, IsEmpty |-> <<Options>>]

----------------------------------------------------------------------------
(* Snapshots of images.                                                    *)

SnapshotCalls ==
    [CreateSnapshot |-> <<Opened>>, Remove |-> <<Opened>>, Rollback |-> <<Opened>>,
     Protect |-> <<Opened>>, Unprotect |-> <<Opened>>, IsProtected |-> <<Opened>>]

SnapshotSetCalls == [Set |-> <<Opened>>, GetSnapTimestamp |-> <<Opened>>]

SnapNamespaceCalls ==
    [GetSnapNamespaceType |-> <<Opened>>, GetSnapTrashNamespace |-> <<Opened>>]

SnapGroupNamespaceCalls == [GetSnapGroupNamespace |-> <<Opened>>]

ParentCalls ==
    [GetParentInfo |-> <<Opened>>, GetParent |-> <<Opened>>]

ChildrenCalls ==
    [ListChildren |-> <<Opened>>, ListChildrenAttributes |-> <<Opened>>,
     SetSnapByID |-> <<Opened>>]

SnapIDCalls == [GetSnapID |-> <<Opened>>, GetSnapByID |-> <<Opened>>]

RemoveSnapByIDCalls == [RemoveSnapByID |-> <<Opened>>]

SnapRenameCalls == [Rename |-> <<Own("image", {"ready", "from", "handle"})>>]

----------------------------------------------------------------------------
(* Mirroring.  CreateMirrorSnapshot, which asks nothing, is an action of   *)
(* Handles.                                                                *)

MirrorPoolCalls ==
    [GetMirrorUUID |-> <<Ioctx>>, SetMirrorMode |-> <<Ioctx>>, GetMirrorMode |-> <<Ioctx>>]

MirrorImageCalls ==
    [MirrorEnable |-> <<Opened>>, MirrorDisable |-> <<Opened>>,
     MirrorPromote |-> <<Opened>>, MirrorDemote |-> <<Opened>>,
     MirrorResync |-> <<Opened>>, MirrorInstanceID |-> <<Opened>>]

MirrorInfoCalls ==
    [GetMirrorImageInfo |-> <<Opened>>, GetImageMirrorMode |-> <<Opened>>]

MirrorStatusCalls == [GetGlobalMirrorStatus |-> <<Opened>>]

MirrorSiteCalls ==
    [MirrorImageStatusSummary |-> <<Ioctx>>, SetMirrorSiteName |-> <<Cluster>>,
     GetMirrorSiteName |-> <<Cluster>>, CreateMirrorPeerBootstrapToken |-> <<Ioctx>>]

MirrorImportCalls == [ImportMirrorPeerBootstrapToken |-> <<Ioctx>>]

MirrorNautilusPoolCalls ==
    [MirrorModeGet |-> <<Ioctx>>, MirrorModeSet |-> <<Ioctx>>, MirrorPeerAdd |-> <<Ioctx>>,
     MirrorPeerRemove |-> <<Ioctx>>, MirrorPeerList |-> <<Ioctx>>]

MirrorGetCalls == [MirrorGetImage |-> <<Opened>>]

MirrorNautilusImageCalls ==
    [MirrorEnable |-> <<Opened>>, MirrorDisable |-> <<Opened>>,
     MirrorPromote |-> <<Opened>>, MirrorDemote |-> <<Opened>>,
     MirrorResync |-> <<Opened>>]

PeerSiteCalls ==
    [AddMirrorPeerSite |-> <<Ioctx>>, RemoveMirrorPeerSite |-> <<Ioctx>>,
     GetAttributesMirrorPeerSite |-> <<Ioctx>>, SetAttributesMirrorPeerSite |-> <<Ioctx>>]

PeerSiteNameCalls ==
    [ListMirrorPeerSite |-> <<Ioctx>>, SetMirrorPeerSiteClientName |-> <<Ioctx>>,
     SetMirrorPeerSiteDirection |-> <<Ioctx>>, SetMirrorPeerSiteName |-> <<Ioctx>>]

----------------------------------------------------------------------------
(* Calls that make a handle, when they fail.                               *)

FailedOpens ==
    [OpenIOContext |-> <<Cluster>>, Iter |-> <<Ioctx>>, New |-> <<Ioctx>>,
     OpenImage |-> <<Ioctx>>, Open |-> <<OfImage({"from", "ready"})>>]

Methods == UNION {
    Range(ConnConfigCalls), Range(ConnCalls), Range(AddrsCalls),
    Range(CommandCalls), Range(TargetCommandCalls), Range(ObjectCalls),
    Range(PoolCalls), Range(XattrCalls), Range(LockCalls), Range(LockerCalls),
    Range(FullTryNautilus), Range(FullTryOctopus), Range(AlignmentCalls),
    Range(RequiresAlignmentCalls), Range(AllocHintCalls), Range(LocatorCalls),
    Range(PoolSnapCalls), Range(PoolSnapStateCalls), Range(IterCalls),
    Range(LayoutCalls), Range(StriperRead), Range(StriperStat),
    Range(StriperStat2), Range(StriperWrite), Range(StriperXattr),
    Range(NewImageCalls), Range(NamedImageCalls), Range(StatCalls),
    Range(CopyCalls), Range(ImageLockCalls), Range(ImageIOCalls),
    Range(ImageIOAtCalls), Range(ImageNameCalls), Range(TrashCalls),
    Range(ByNameCalls), Range(CloneByIDCalls), Range(DataPoolCalls),
    Range(DiffCalls), Range(DiffByIDCalls), Range(EncryptionCalls),
    Range(Encryption2Calls), Range(FeatureCalls), Range(SparsifyCalls),
    Range(Resize2Calls), Range(WatchCalls), Range(OwnerLockCalls),
    Range(MetadataCalls), Range(TimestampCalls), Range(GroupCalls),
    Range(GroupImageCalls), Range(GroupSnapCalls), Range(GroupRollbackCalls),
    Range(GroupSnapInfoCalls), Range(MigrationCalls), Range(MigrationEndCalls),
    Range(NamespaceCalls), Range(PoolMetadataCalls), Range(PoolStatsCalls),
    Range(OptionsCalls), Range(SnapshotCalls), Range(SnapshotSetCalls),
    Range(SnapNamespaceCalls), Range(SnapGroupNamespaceCalls),
    Range(ParentCalls), Range(ChildrenCalls), Range(SnapIDCalls),
    Range(RemoveSnapByIDCalls), Range(SnapRenameCalls), Range(MirrorPoolCalls),
    Range(MirrorImageCalls), Range(MirrorInfoCalls), Range(MirrorStatusCalls),
    Range(MirrorSiteCalls), Range(MirrorImportCalls),
    Range(MirrorNautilusPoolCalls), Range(MirrorGetCalls),
    Range(MirrorNautilusImageCalls),
    Range(PeerSiteCalls), Range(PeerSiteNameCalls), Range(FailedOpens)}
=============================================================================
