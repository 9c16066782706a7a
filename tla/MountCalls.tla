------------------------------ MODULE MountCalls ------------------------------
(***************************************************************************)
(* The methods of package cephfs that change nothing in Go, on success or  *)
(* on failure: whose they are and what they ask before they pass their     *)
(* handles to libcephfs.  An operation that opens something stands here    *)
(* for the case that libcephfs refuses.                                    *)
(***************************************************************************)
EXTENDS Sequences, Functions

(* What a method asks: "mount", that the MountInfo has its handle, and     *)
(* "handle", that the object has its own.                                  *)
Ask == {"mount", "handle"}

Call == [class : {"mount", "file", "dir", "diff"}, asks : SUBSET Ask]

Unchecked == [class |-> "mount", asks |-> {}]
Validated == [class |-> "mount", asks |-> {"mount"}]
OfFile    == [class |-> "file", asks |-> {}]      \* File.validate asks for less
ViaMount  == [class |-> "file", asks |-> {"mount"}]
OfDir     == [class |-> "dir", asks |-> {"handle"}]
OfDiff    == [class |-> "diff", asks |-> {"handle"}]

All(methods, call) == [m \in methods |-> call]

----------------------------------------------------------------------------
(* cephfs.go, command.go, conn_nautilus.go, select_fs.go, permissions.go   *)

ConfigFileCalls ==
    All({"ReadDefaultConfigFile", "ReadConfigFile"}, Unchecked)

ParseCalls ==
    All({"ParseConfigArgv", "ParseDefaultConfigEnv"}, Validated)

ConfigOptionCalls ==
    All({"SetConfigOption", "GetConfigOption"}, Unchecked)

MountingCalls ==
    All({"Init", "Mount", "MountWithRoot", "Unmount"}, Unchecked)

SyncCalls == All({"SyncFs", "IsMounted"}, Unchecked)

MdsCalls == All({"MdsCommand", "MdsCommandWithInputBuffer"}, Unchecked)

FsCidCalls == All({"GetFsCid"}, Unchecked)

SelectCalls == All({"SelectFilesystem"}, Unchecked)

PermissionCalls == All({"Chmod", "Chown", "Lchown"}, Unchecked)

----------------------------------------------------------------------------
(* path.go, path_xattr.go, makedirs.go, statfs.go, file_ops.go             *)

PathCalls ==
    All({"CurrentDir", "ChangeDir", "MakeDir", "RemoveDir", "Unlink", "Link",
         "Symlink", "Readlink", "Statx", "Rename", "Truncate"}, Validated)

PathXattrCalls ==
    All({"SetXattr", "GetXattr", "ListXattr", "RemoveXattr"}, Validated)

LinkXattrCalls ==
    All({"LsetXattr", "LgetXattr", "LlistXattr", "LremoveXattr"}, Validated)

MakeDirsCalls == All({"MakeDirs"}, Validated)

StatFSCalls == All({"StatFS"}, Validated)

FdTimeCalls == All({"Mknod", "Futime", "Futimens", "Futimes"}, Validated)

----------------------------------------------------------------------------
(* file.go, file_xattr.go, file_futime.go                                  *)

ReadCalls == All({"Read", "ReadAt", "Preadv"}, OfFile)

WriteCalls == All({"Write", "WriteAt", "Pwritev", "Seek"}, OfFile)

FileAttrCalls == All({"Fchmod", "Fchown", "Fstatx"}, OfFile)

FileSpaceCalls == All({"Fallocate", "Flock"}, OfFile)

FileSyncCalls == All({"Fsync", "Sync", "Truncate"}, OfFile)

FileXattrCalls ==
    All({"SetXattr", "GetXattr", "ListXattr", "RemoveXattr"}, OfFile)

(* They go through the methods of MountInfo of the same names.             *)
FileTimeCalls == All({"Futime", "Futimens", "Futimes"}, ViaMount)

----------------------------------------------------------------------------
(* directory.go, block_diff.go, snap_diff.go                               *)

OpenCalls == [Open |-> Validated, OpenDir |-> Unchecked]

OpenDiffCalls == All({"FileBlockDiffInit", "OpenSnapDiff"}, Unchecked)

DirCalls == All({"ReadDir", "ReadDirPlus", "RewindDir", "list"}, OfDir)

BlockDiffCalls == All({"Read"}, OfDiff)

SnapDiffCalls == All({"Readdir"}, OfDiff)

Calls == UNION
    {Range(ConfigFileCalls), Range(ParseCalls), Range(ConfigOptionCalls),
     Range(MountingCalls), Range(SyncCalls), Range(MdsCalls), Range(FsCidCalls),
     Range(SelectCalls), Range(PermissionCalls), Range(PathCalls),
     Range(PathXattrCalls), Range(LinkXattrCalls), Range(MakeDirsCalls),
     Range(StatFSCalls), Range(FdTimeCalls), Range(ReadCalls), Range(WriteCalls),
     Range(FileAttrCalls), Range(FileSpaceCalls), Range(FileSyncCalls),
     Range(FileXattrCalls), Range(FileTimeCalls), Range(OpenCalls),
     Range(OpenDiffCalls), Range(DirCalls), Range(BlockDiffCalls),
     Range(SnapDiffCalls)}
=============================================================================
