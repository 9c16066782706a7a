------------------------------ MODULE AdminCalls ------------------------------
(***************************************************************************)
(* What the admin packages make of the reply to a command: the pipeline of *)
(* internal/commands/response.go, the ways it is put together, and which   *)
(* command uses which.  The commands differ else only in the fields they   *)
(* send.                                                                   *)
(*                                                                         *)
(* A reply is an error of the connection, a status text and a body.        *)
(***************************************************************************)
EXTENDS Sequences, Functions

(* "einval" is an error whose code is -22.                                 *)
ReplyErr == {"nil", "einval", "other"}

(* "missing" begins with "No handler found", "deprecated" ends with the    *)
(* deprecation text, "dumped" begins with "dumped fsmap epoch" and         *)
(* "unprotected" ends with "is not protected".                             *)
Status == {"", "missing", "deprecated", "dumped", "unprotected", "text"}

(* "object" and "list" are JSON of what is asked for, "{}" and "[]" are    *)
(* empty, "failure" is an object whose success is false; "deleted" begins  *)
(* with the text of delSucc, "ceph" with "ceph".                           *)
Body == {"", "{}", "[]", "object", "failure", "list", "deleted", "ceph", "text"}

Reply == [err : ReplyErr, status : Status, body : Body]

OwnErr == {"ErrStatusNotEmpty", "ErrBodyNotEmpty", "json"}
Response == [err : ReplyErr \union OwnErr \union {"ErrNotConnected", "marshal"},
             status : Status, body : Body]

----------------------------------------------------------------------------
(* The steps of a pipeline.                                                *)

Ok(r) == r.err = "nil"

NoStatus(r) ==
    IF Ok(r) /\ r.status # "" THEN [r EXCEPT !.err = "ErrStatusNotEmpty"] ELSE r

NoBody(r) ==
    IF Ok(r) /\ r.body # "" THEN [r EXCEPT !.err = "ErrBodyNotEmpty"] ELSE r

EmptyBody(r) ==
    IF ~Ok(r) \/ r.body \in {"", "{}"} THEN r
    ELSE [r EXCEPT !.err = IF r.body \in {"object", "failure"} THEN "ErrBodyNotEmpty"
                                                               ELSE "json"]

(* Mutated: the body is not looked at.                                     *)
NoDataStatusOnly(r) == NoStatus(r)

NoData(r) == NoBody(NoStatus(r))

(* FilterPrefix, FilterSuffix                                              *)
FilterStatus(r, status) ==
    IF Ok(r) /\ r.status = status THEN [r EXCEPT !.status = ""] ELSE r

FilterDeprecated(r) == FilterStatus(r, "deprecated")

FilterBodyPrefix(r, body) ==
    IF Ok(r) /\ r.body = body THEN [r EXCEPT !.body = ""] ELSE r

(* Mutated: a response that has an error is parsed too.                    *)
UnmarshalAlways(r, bodies) ==
    IF r.body \notin bodies THEN [err |-> "json", status |-> "", body |-> r.body] ELSE r

(* The status goes when the body does not parse.                           *)
Unmarshal(r, bodies) ==
    IF Ok(r) /\ r.body \notin bodies
    THEN [err |-> "json", status |-> "", body |-> r.body] ELSE r

Objects == {"{}", "object", "failure"}
Lists   == {"[]", "list"}

End(r) == IF r.err = "einval" /\ r.status = "missing" THEN "NotImplementedError" ELSE r.err

----------------------------------------------------------------------------
(* Pipelines, by name: the error of the command for response r.            *)

(* parsePathResponse ends the response as it was before NoStatus.          *)
PathResponse(r) == IF Ok(NoStatus(r)) THEN "nil" ELSE End(r)

CloneResponse(r) ==
    IF r.status = "unprotected" THEN "NotProtectedError" ELSE End(NoData(r))

VolumeStatusResponse(r) ==
    LET read == Unmarshal(NoStatus(r), Objects) IN
    IF Ok(NoStatus(r)) /\ ~Ok(read) /\ r.body = "ceph" THEN "NotImplementedError"
    ELSE End(read)

DumpResponse(r) ==
    End(Unmarshal(NoStatus(FilterStatus(r, "dumped")), Objects))

ExportInfoResponse(r) ==
    IF Ok(EmptyBody(NoStatus(r))) THEN "errNoExportInfo"
    ELSE End(Unmarshal(NoStatus(r), Objects))

(* The status is not looked at; no body is an empty list.                  *)
BlocklistResponse(r) ==
    IF Ok(r) THEN (IF r.body \in Lists \union {""} THEN "nil" ELSE "json") ELSE End(r)

(* result[0] of an empty list.                                             *)
ResizeResponse(r) ==
    LET read == Unmarshal(NoStatus(r), Lists) IN
    IF Ok(read) /\ r.body = "[]" THEN "panic" ELSE End(read)

(* errorPick                                                               *)
PickResponse(r) ==
    LET read == Unmarshal(NoStatus(r), Objects) IN
    IF Ok(read) /\ r.body \in {"failure", "{}"} THEN "ResultGroup" ELSE End(read)

Outcome(pipeline, r) ==
    CASE pipeline = "noData"       -> End(NoData(r))
      [] pipeline = "emptyBody"    -> End(EmptyBody(NoStatus(r)))
      [] pipeline \in {"object", "apply"} -> End(Unmarshal(NoStatus(r), Objects))
      [] pipeline = "list"         -> End(Unmarshal(NoStatus(r), Lists))
      [] pipeline = "deprecated"   -> End(NoData(FilterDeprecated(r)))
      [] pipeline = "deleted"      -> End(NoData(FilterBodyPrefix(r, "deleted")))
      [] pipeline = "path"         -> PathResponse(r)
      [] pipeline = "clone"        -> CloneResponse(r)
      [] pipeline = "volumeStatus" -> VolumeStatusResponse(r)
      [] pipeline = "dump"         -> DumpResponse(r)
      [] pipeline = "exportInfo"   -> ExportInfoResponse(r)
      [] pipeline = "blocklist"    -> BlocklistResponse(r)
      [] pipeline = "resize"       -> ResizeResponse(r)
      [] pipeline = "pick"         -> PickResponse(r)
      [] pipeline = "end"          -> End(r)

----------------------------------------------------------------------------
(* cephfs/admin                                                            *)

All(commands, pipeline) == [c \in commands |-> pipeline]

SubVolumeCalls ==
    All({"CreateSubVolume", "RemoveSubVolume", "ForceRemoveSubVolume",
         "RemoveSubVolumeWithFlags"}, "noData")
SubVolumeListCalls == [ListSubVolumes |-> "list"]
ResizeCalls == [ResizeSubVolume |-> "resize"]
SubVolumePathCalls == [SubVolumePath |-> "path"]
SubVolumeInfoCalls == [SubVolumeInfo |-> "object"]
SnapshotCalls ==
    All({"CreateSubVolumeSnapshot", "RemoveSubVolumeSnapshot",
         "ForceRemoveSubVolumeSnapshot"}, "noData")
SnapshotListCalls == [ListSubVolumeSnapshots |-> "list"]
SnapshotInfoCalls == [SubVolumeSnapshotInfo |-> "object"]
ProtectCalls ==
    All({"ProtectSubVolumeSnapshot", "UnprotectSubVolumeSnapshot"}, "deprecated")
SnapshotPathCalls == [SubVolumeSnapshotPath |-> "path"]
GroupCalls ==
    [CreateSubVolumeGroup |-> "noData", ListSubVolumeGroups |-> "list",
     RemoveSubVolumeGroup |-> "noData", ForceRemoveSubVolumeGroup |-> "noData",
     SubVolumeGroupPath |-> "path"]
CloneCalls == [CloneSubVolumeSnapshot |-> "clone"]
CloneStatusCalls == [CloneStatus |-> "object", CancelClone |-> "noData"]
MetadataCalls ==
    [GetMetadata |-> "path", SetMetadata |-> "noData", RemoveMetadata |-> "noData",
     ForceRemoveMetadata |-> "noData", ListMetadata |-> "object"]
SnapshotMetadataCalls ==
    [GetSnapshotMetadata |-> "path", SetSnapshotMetadata |-> "noData",
     RemoveSnapshotMetadata |-> "noData", ForceRemoveSnapshotMetadata |-> "noData",
     ListSnapshotMetadata |-> "object"]
PinCalls == All({"PinSubVolume", "PinSubVolumeGroup"}, "path")
QuiesceCalls == [FSQuiesce |-> "object"]
SnapshotMirrorCalls == All({"Enable", "Disable", "Add", "Remove"}, "emptyBody")
PeerTokenCalls ==
    [CreatePeerBootstrapToken |-> "object", ImportPeerBoostrapToken |-> "emptyBody"]
DaemonStatusCalls == [DaemonStatus |-> "list"]
PeerListCalls == [PeerList |-> "object"]
VolumeListCalls == [ListVolumes |-> "list", ListFileSystems |-> "list"]
EnumerateCalls == [EnumerateVolumes |-> "dump"]
VolumeStatusCalls == [VolumeStatus |-> "volumeStatus"]
VolumeInfoCalls == [FetchVolumeInfo |-> "object"]

----------------------------------------------------------------------------
(* common/admin and rbd/admin.                                             *)

ModuleCalls ==
    [EnableModule |-> "noData", DisableModule |-> "noData", ListModules |-> "object"]
ExportCalls ==
    [CreateCephFSExport |-> "object", RemoveExport |-> "deleted",
     ListDetailedExports |-> "list", ExportInfo |-> "exportInfo"]
GatewayCalls ==
    [CreateGateway |-> "noData", DeleteGateway |-> "noData", ShowGateways |-> "object"]
BlocklistCalls == [OSDBlocklist |-> "blocklist"]
BlocklistOpCalls == [OSDBlocklistAdd |-> "end", OSDBlocklistRemove |-> "end"]
SmbCalls == [Show |-> "object", Apply |-> "apply"]
SmbRemoveCalls ==
    All({"RemoveCluster", "RemoveShare", "RemoveJoinAuth", "RemoveUsersAndGroups"}, "pick")
ScheduleCalls ==
    [Add |-> "noData", List |-> "object", Remove |-> "noData", Status |-> "object"]
TaskCalls ==
    [AddFlatten |-> "object", AddRemove |-> "object", AddTrashRemove |-> "object",
     List |-> "list", GetTaskByID |-> "object", Cancel |-> "object"]

Pipelines == UNION
    {Range(SubVolumeCalls), Range(SubVolumeListCalls), Range(ResizeCalls),
     Range(SubVolumePathCalls), Range(SubVolumeInfoCalls), Range(SnapshotCalls),
     Range(SnapshotListCalls), Range(SnapshotInfoCalls), Range(ProtectCalls),
     Range(SnapshotPathCalls), Range(GroupCalls), Range(CloneCalls),
     Range(CloneStatusCalls), Range(MetadataCalls), Range(SnapshotMetadataCalls),
     Range(PinCalls), Range(QuiesceCalls), Range(SnapshotMirrorCalls),
     Range(PeerTokenCalls), Range(DaemonStatusCalls), Range(PeerListCalls),
     Range(VolumeListCalls), Range(EnumerateCalls), Range(VolumeStatusCalls),
     Range(VolumeInfoCalls), Range(ModuleCalls), Range(ExportCalls),
     Range(GatewayCalls), Range(BlocklistCalls), Range(BlocklistOpCalls),
     Range(SmbCalls), Range(SmbRemoveCalls), Range(ScheduleCalls),
     Range(TaskCalls)}
=============================================================================
