------------------------------- MODULE Mounts -------------------------------
(***************************************************************************)
(* The handles of package cephfs: mounts, and the files, directories and   *)
(* difference streams opened on them, credentials, and the wrappers of     *)
(* fscompat.go, which hold a File or a Directory and pass its calls on.    *)
(*                                                                         *)
(* libcephfs numbers the open files of a mount and gives a number out      *)
(* again once it is free.  Its other handles are never given out again     *)
(* here.  Releasing a mount frees what is open on it; what Unmount frees   *)
(* is left to libcephfs.  A call that passes a handle which is not open is *)
(* recorded, and taken to return an error.                                 *)
(***************************************************************************)
EXTENDS MountCalls
CONSTANTS
    Obj,        \* places for Go objects
    Res,        \* C handles
    Fd,         \* numbers of open files
    Nil

ASSUME NilAssumption == Nil \notin Obj \union Res \union Fd

VARIABLES
    obj,        \* the objects: class, the MountInfo pointed to, the handle or
                \* number, and the mount handle a difference stream copies
    res,        \* C handles (external)
    file,       \* the File each number of a mount was given to (external)
    last        \* the handles the last step has passed to libcephfs

vars == <<obj, res, file, last>>

Free == [class |-> "none", on |-> Nil, h |-> Nil, copy |-> Nil]

Status(h) == IF h = Nil THEN "nil" ELSE res[h]

(* The mount handle that object o passes.                                  *)
MountOf(o) ==
    CASE obj[o].class = "mount" -> obj[o].h
      [] obj[o].class = "diff"  -> obj[o].copy
      [] OTHER                  -> obj[obj[o].on].h

FdStatus(o) ==
    IF obj[o].h = Nil THEN "nil"
    ELSE IF MountOf(o) = Nil THEN "gone"
    ELSE IF file[MountOf(o)][obj[o].h] = o THEN "open" ELSE "notOurs"

(* What a method of o passes: the mount handle and its own.                *)
Passing(o) ==
    {<<obj[o].class, "mount", Status(MountOf(o))>>} \union
    CASE obj[o].class = "mount" -> {}
      [] obj[o].class = "file"  -> {<<"file", "own", FdStatus(o)>>}
      [] OTHER                  -> {<<obj[o].class, "own", Status(obj[o].h)>>}

Mounted(m) == obj[m].class = "mount" /\ Status(obj[m].h) = "open"

Init ==
    /\ obj = [o \in Obj |-> Free]
    /\ res = [r \in Res |-> "unused"]
    /\ file = [r \in Res |-> [n \in Fd |-> Nil]]
    /\ last = {}

Make(o, new, r) ==
    /\ obj[o] = Free /\ res[r] = "unused"
    /\ obj' = [obj EXCEPT ![o] = new]
    /\ res' = [res EXCEPT ![r] = "open"]
    /\ UNCHANGED file

----------------------------------------------------------------------------
(* CreateMount, CreateMountWithId, CreateFromRados                         *)
CreateMount(o, r) ==
    /\ Make(o, [class |-> "mount", on |-> Nil, h |-> r, copy |-> Nil], r)
    /\ last' = {}

(* libcephfs frees mount handle r, the directories and the streams on it.  *)
On(r) ==
    {r} \union {obj[o].h : o \in {d \in Obj : obj[d].class \in {"dir", "diff"}
                                            /\ MountOf(d) = r}}
Freed(r) == [x \in Res |-> IF x \in On(r) THEN "closed" ELSE res[x]]

(* Mutated: Release keeps the handle.                                      *)
ReleaseKeeps(o) ==
    /\ obj[o].class = "mount" /\ obj[o].h # Nil
    /\ last' = Passing(o)
    /\ \/ res' = Freed(obj[o].h)
       \/ UNCHANGED res
    /\ UNCHANGED <<obj, file>>

(* libcephfs may refuse, and the handle is kept then.                      *)
Release(o) ==
    /\ obj[o].class = "mount" /\ obj[o].h # Nil
    /\ last' = Passing(o)
    /\ \/ /\ res' = Freed(obj[o].h)
          /\ obj' = [obj EXCEPT ![o].h = Nil]
       \/ UNCHANGED <<obj, res>>
    /\ UNCHANGED file

----------------------------------------------------------------------------
(* Files.  The number -1 of a closed File is Nil.                          *)

Open(o, m, n) ==
    /\ obj[o] = Free /\ Mounted(m)
    /\ file[obj[m].h][n] = Nil
    /\ obj' = [obj EXCEPT ![o] = [class |-> "file", on |-> m, h |-> n, copy |-> Nil]]
    /\ file' = [file EXCEPT ![obj[m].h][n] = o]
    /\ last' = Passing(m)
    /\ UNCHANGED res

(* Mutated: the number is not reset.                                       *)
FileCloseKeeps(o) ==
    /\ obj[o].class = "file" /\ obj[o].h # Nil
    /\ last' = Passing(o)
    /\ \/ /\ Mounted(obj[o].on)
          /\ file' = [file EXCEPT ![MountOf(o)][obj[o].h] = Nil]
       \/ UNCHANGED file
    /\ UNCHANGED <<obj, res>>

(* A failed ceph_close is taken to leave the file open, as the code does   *)
(* by keeping its number.                                                  *)
FileClose(o) ==
    /\ obj[o].class = "file" /\ obj[o].h # Nil
    /\ last' = Passing(o)
    /\ \/ /\ Mounted(obj[o].on)
          /\ file' = [file EXCEPT ![MountOf(o)][obj[o].h] = Nil]
          /\ obj' = [obj EXCEPT ![o].h = Nil]
       \/ UNCHANGED <<obj, file>>
    /\ UNCHANGED res

----------------------------------------------------------------------------
(* Directories and difference streams.                                     *)

(* Mutated: the Directory does not get the MountInfo.                      *)
OpenDirBare(o, m, r) ==
    /\ Mounted(m)
    /\ Make(o, [class |-> "dir", on |-> Nil, h |-> r, copy |-> Nil], r)
    /\ last' = Passing(m)

OpenDir(o, m, r) ==
    /\ Mounted(m)
    /\ Make(o, [class |-> "dir", on |-> m, h |-> r, copy |-> Nil], r)
    /\ last' = Passing(m)

DirClose(o) ==
    /\ obj[o].class = "dir" /\ obj[o].h # Nil
    /\ last' = Passing(o)
    /\ \/ /\ Mounted(obj[o].on)
          /\ res' = [res EXCEPT ![obj[o].h] = "closed"]
          /\ obj' = [obj EXCEPT ![o].h = Nil]
       \/ UNCHANGED <<obj, res>>
    /\ UNCHANGED file

(* FileBlockDiffInit, OpenSnapDiff: a MountInfo of their own, made of the  *)
(* handle of m.                                                            *)
OpenDiff(o, m, r) ==
    /\ Mounted(m)
    /\ Make(o, [class |-> "diff", on |-> Nil, h |-> r, copy |-> obj[m].h], r)
    /\ last' = Passing(m)

(* Nothing is forgotten, so that Close can be called again.                *)
DiffClose(o) ==
    /\ obj[o].class = "diff"
    /\ last' = Passing(o)
    /\ \/ /\ Status(obj[o].copy) = "open"
          /\ res' = [res EXCEPT ![obj[o].h] = "closed"]
       \/ UNCHANGED res
    /\ UNCHANGED <<obj, file>>

----------------------------------------------------------------------------
(* Credentials.  Only they have a finalizer.                               *)

NewUserPerm(o, r) ==
    /\ Make(o, [class |-> "perm", on |-> Nil, h |-> r, copy |-> Nil], r)
    /\ last' = {}

UserPermDestroy(o) ==
    /\ obj[o].class = "perm" /\ obj[o].h # Nil
    /\ last' = {<<"perm", "own", Status(obj[o].h)>>}
    /\ res' = [res EXCEPT ![obj[o].h] = "closed"]
    /\ obj' = [obj EXCEPT ![o].h = Nil]
    /\ UNCHANGED file

(* The collector takes a UserPerm that nobody refers to.                   *)
Finalize(o) ==
    /\ obj[o].class = "perm"
    /\ obj' = [obj EXCEPT ![o] = Free]
    /\ IF obj[o].h # Nil
       THEN /\ last' = {<<"perm", "own", Status(obj[o].h)>>}
            /\ res' = [res EXCEPT ![obj[o].h] = "closed"]
       ELSE last' = {} /\ UNCHANGED res
    /\ UNCHANGED file

SetMountPerms(m, p) ==
    /\ obj[m].class = "mount" /\ obj[p].class = "perm"
    /\ last' = Passing(m) \union {<<"perm", "own", Status(obj[p].h)>>}
    /\ UNCHANGED <<obj, res, file>>

----------------------------------------------------------------------------
(* Every other method.                                                     *)

Answers(o, c) ==
    /\ "mount" \in c.asks => MountOf(o) # Nil
    /\ "handle" \in c.asks => obj[o].h # Nil

Use(o, c) ==
    /\ obj[o].class = c.class /\ Answers(o, c)
    /\ last' = Passing(o)
    /\ UNCHANGED <<obj, res, file>>

Next == \E o \in Obj :
    \/ Release(o) \/ FileClose(o) \/ DirClose(o) \/ DiffClose(o)
    \/ UserPermDestroy(o) \/ Finalize(o)
    \/ \E r \in Res : CreateMount(o, r) \/ NewUserPerm(o, r)
    \/ \E m \in Obj :
          \/ SetMountPerms(m, o)
          \/ \E r \in Res : OpenDir(o, m, r) \/ OpenDiff(o, m, r)
          \/ \E n \in Fd : Open(o, m, n)
    \/ \E c \in Calls : Use(o, c)

Spec == Init /\ [][Next]_vars

----------------------------------------------------------------------------
Known == {"open", "closed"}

TypeOK ==
    /\ obj \in [Obj -> [class : {"none", "mount", "file", "dir", "diff", "perm"},
                        on : Obj \union {Nil}, h : Res \union Fd \union {Nil},
                        copy : Res \union {Nil}]]
    /\ res \in [Res -> {"unused"} \union Known]
    /\ file \in [Res -> [Fd -> Obj \union {Nil}]]
    /\ last \subseteq {"mount", "file", "dir", "diff", "perm"} \X {"mount", "own"}
                      \X ({"nil", "gone", "notOurs"} \union Known)
    /\ \A o \in Obj :
          /\ obj[o].class = "file" => obj[o].h \in Fd \union {Nil}
          /\ obj[o].class # "file" => obj[o].h \in Res \union {Nil}
          /\ obj[o].class \in {"file", "dir"} =>
                obj[o].on # Nil /\ obj[obj[o].on].class = "mount"
          /\ obj[o].class = "diff" => obj[o].h # Nil /\ obj[o].copy # Nil

(* In whatever order a program releases the mount, closes what it has      *)
(* opened on it, and goes on to use all of it, a handle that libcephfs has *)
(* freed comes back to it only from a difference stream, or from a         *)
(* Directory together with the nil handle of its released mount, which     *)
(* libcephfs can notice.                                                   *)
StaleOnlyInStreams ==
    \A u \in last : u[3] = "closed" =>
        \/ u[1] = "diff"
        \/ u[1] = "dir" /\ u[2] = "own" /\ <<"dir", "mount", "nil">> \in last

(* No File reads, writes or closes the file of another: a number that the  *)
(* mount has given out again is known to its new File only, and after      *)
(* Release to none.                                                        *)
FilesStayApart ==
    /\ \A u \in last : u[3] # "notOurs"
    /\ \A r \in Res, n \in Fd :
          res[r] = "open" /\ file[r][n] # Nil =>
             LET o == file[r][n] IN obj[o].class = "file" /\ obj[o].h = n /\ MountOf(o) = r
=============================================================================
