---------------------------- MODULE MountsProofs ----------------------------
(***************************************************************************)
(* Safety of Mounts for any number of objects, handles and file numbers.   *)
(***************************************************************************)
EXTENDS Mounts, TLAPS

(* The types of all but last.                                              *)
Typed ==
    /\ obj \in [Obj -> [class : {"none", "mount", "file", "dir", "diff", "perm"},
                        on : Obj \union {Nil}, h : Res \union Fd \union {Nil},
                        copy : Res \union {Nil}]]
    /\ res \in [Res -> {"unused"} \union Known]
    /\ file \in [Res -> [Fd -> Obj \union {Nil}]]
    /\ \A o \in Obj :
          /\ obj[o].class = "file" => obj[o].h \in Fd \union {Nil}
          /\ obj[o].class # "file" => obj[o].h \in Res \union {Nil}
          /\ obj[o].class \in {"file", "dir"} =>
                obj[o].on # Nil /\ obj[obj[o].on].class = "mount"
          /\ obj[o].class = "diff" => obj[o].h # Nil /\ obj[o].copy # Nil

(* A handle that has never been given out is known to nobody.              *)
UnusedIsUnknown ==
    /\ \A o \in Obj :
          /\ obj[o].class # "file" /\ obj[o].h # Nil => res[obj[o].h] # "unused"
          /\ obj[o].copy # Nil => res[obj[o].copy] # "unused"
    /\ \A r \in Res, n \in Fd : res[r] = "unused" => file[r][n] = Nil

(* No two objects have one handle.                                         *)
OneOwner ==
    \A o, p \in Obj :
        obj[o].class # "file" /\ obj[p].class # "file"
        /\ obj[o].h # Nil /\ obj[o].h = obj[p].h => o = p

(* What a MountInfo or a UserPerm has is open, and what a Directory has is  *)
(* as long as its MountInfo has a handle.                                  *)
OwnOpen ==
    \A o \in Obj : obj[o].h # Nil =>
        /\ obj[o].class \in {"mount", "perm"} => res[obj[o].h] = "open"
        /\ obj[o].class = "dir" /\ obj[obj[o].on].h # Nil => res[obj[o].h] = "open"

(* A File and its mount agree on its number.                               *)
Numbers ==
    /\ \A o \in Obj :
          obj[o].class = "file" /\ obj[o].h # Nil /\ obj[obj[o].on].h # Nil
              => file[obj[obj[o].on].h][obj[o].h] = o
    /\ \A r \in Res, n \in Fd :
          res[r] = "open" /\ file[r][n] # Nil =>
             LET o == file[r][n] IN
             obj[o].class = "file" /\ obj[o].h = n /\ obj[obj[o].on].h = r

IInv == Typed /\ UnusedIsUnknown /\ OneOwner /\ OwnOpen /\ Numbers

(* What is said of last: the two properties, and that anything else which  *)
(* is not open comes with the nil handle of a mount, or is the number of a *)
(* closed File or the handle of destroyed credentials.                     *)
LastOK(passed) ==
    /\ passed \subseteq {"mount", "file", "dir", "diff", "perm"} \X {"mount", "own"}
                        \X ({"nil", "gone", "notOurs"} \union Known)
    /\ \A u \in passed :
          /\ u[3] # "notOurs"
          /\ u[3] = "closed" =>
                \/ u[1] = "diff"
                \/ u[1] = "dir" /\ u[2] = "own" /\ <<"dir", "mount", "nil">> \in passed
          /\ u[3] # "open" =>
                \/ u[1] = "diff" \/ <<u[1], "mount", "nil">> \in passed
                \/ u \in {<<"file", "own", "nil">>, <<"perm", "own", "nil">>}

----------------------------------------------------------------------------
(* What the objects pass.                                                  *)

(* What MountOf is for each class.                                         *)
LEMMA MountOfIs ==
    ASSUME NEW o
    PROVE  /\ obj[o].class = "mount" => MountOf(o) = obj[o].h
           /\ obj[o].class = "diff" => MountOf(o) = obj[o].copy
           /\ obj[o].class \in {"file", "dir"} => MountOf(o) = obj[obj[o].on].h
BY Zenon DEF MountOf

(* What Passing is for each class.                                         *)
LEMMA PassingIs ==
    ASSUME NEW o
    PROVE  /\ obj[o].class = "mount" =>
                Passing(o) = {<<"mount", "mount", Status(MountOf(o))>>}
           /\ obj[o].class = "file" =>
                Passing(o) = {<<"file", "mount", Status(MountOf(o))>>,
                              <<"file", "own", FdStatus(o)>>}
           /\ obj[o].class \in {"dir", "diff"} =>
                Passing(o) = {<<obj[o].class, "mount", Status(MountOf(o))>>,
                              <<obj[o].class, "own", Status(obj[o].h)>>}
<1>. DEFINE mine == {<<obj[o].class, "mount", Status(MountOf(o))>>}
<1>1. obj[o].class = "mount" => Passing(o) = mine \union {}
  BY Zenon DEF Passing
<1>2. obj[o].class = "file" => Passing(o) = mine \union {<<"file", "own", FdStatus(o)>>}
  BY Zenon DEF Passing
<1>3. obj[o].class \in {"dir", "diff"} =>
          Passing(o) = mine \union {<<obj[o].class, "own", Status(obj[o].h)>>}
  BY Zenon DEF Passing
<1>. QED  BY <1>1, <1>2, <1>3

(* What FdStatus can be.                                                   *)
LEMMA FdStatusIs ==
    ASSUME NEW o, obj[o].h # Nil => MountOf(o) = Nil \/ file[MountOf(o)][obj[o].h] = o
    PROVE  /\ FdStatus(o) \in {"nil", "gone", "open"}
           /\ FdStatus(o) = "gone" => MountOf(o) = Nil
BY Zenon DEF FdStatus

(* What a MountInfo passes.                                                *)
LEMMA MountPasses ==
    ASSUME IInv, NEW o \in Obj, obj[o].class = "mount"
    PROVE  \E s \in {"nil", "open"} : Passing(o) = {<<"mount", "mount", s>>}
<1>1. Status(obj[o].h) \in {"nil", "open"}
  BY DEF IInv, OwnOpen, Status
<1>2. Passing(o) = {<<"mount", "mount", Status(obj[o].h)>>}
  BY MountOfIs, PassingIs
<1>. QED  BY <1>1, <1>2

(* What a File passes.                                                     *)
LEMMA FilePasses ==
    ASSUME IInv, NEW o \in Obj, obj[o].class = "file"
    PROVE  \E s \in {"nil", "open"}, t \in {"nil", "gone", "open"} :
               /\ Passing(o) = {<<"file", "mount", s>>, <<"file", "own", t>>}
               /\ t = "gone" => s = "nil"
<1>1. /\ obj[o].on \in Obj /\ obj[obj[o].on].class = "mount"
      /\ MountOf(o) = obj[obj[o].on].h
  BY MountOfIs DEF IInv, Typed
<1>2. Status(MountOf(o)) \in {"nil", "open"}
  BY <1>1 DEF IInv, OwnOpen, Status
<1>3. /\ FdStatus(o) \in {"nil", "gone", "open"}
      /\ FdStatus(o) = "gone" => Status(MountOf(o)) = "nil"
  BY <1>1, FdStatusIs DEF IInv, Numbers, Status
<1>4. Passing(o) = {<<"file", "mount", Status(MountOf(o))>>, <<"file", "own", FdStatus(o)>>}
  BY PassingIs
<1>. QED  BY <1>2, <1>3, <1>4

(* What a Directory passes.                                                *)
LEMMA DirPasses ==
    ASSUME IInv, NEW o \in Obj, obj[o].class = "dir"
    PROVE  \E s, t \in {"nil", "open", "closed"} :
               /\ Passing(o) = {<<"dir", "mount", s>>, <<"dir", "own", t>>}
               /\ s # "closed" /\ (t = "closed" => s = "nil")
               /\ obj[o].h # Nil => t # "nil"
<1>1. /\ obj[o].on \in Obj /\ obj[obj[o].on].class = "mount"
      /\ MountOf(o) = obj[obj[o].on].h
      /\ obj[o].h \in Res \union {Nil}
  BY MountOfIs DEF IInv, Typed
<1>2. Status(MountOf(o)) \in {"nil", "open"}
  BY <1>1 DEF IInv, OwnOpen, Status
<1>3. Status(obj[o].h) \in {"nil", "open", "closed"}
  BY <1>1 DEF IInv, Typed, UnusedIsUnknown, Status, Known
<1>4. /\ Status(obj[o].h) = "closed" => Status(MountOf(o)) = "nil"
      /\ obj[o].h # Nil => Status(obj[o].h) # "nil"
  BY <1>1 DEF IInv, Typed, OwnOpen, Status, Known
<1>5. Passing(o) = {<<"dir", "mount", Status(MountOf(o))>>, <<"dir", "own", Status(obj[o].h)>>}
  BY PassingIs
<1>. QED  BY <1>2, <1>3, <1>4, <1>5

(* What a stream of differences passes.                                    *)
LEMMA DiffPasses ==
    ASSUME IInv, NEW o \in Obj, obj[o].class = "diff"
    PROVE  \E s, t \in {"open", "closed"} :
               Passing(o) = {<<"diff", "mount", s>>, <<"diff", "own", t>>}
<1>1. obj[o].h \in Res /\ obj[o].copy \in Res /\ MountOf(o) = obj[o].copy
  BY MountOfIs DEF IInv, Typed
<1>2. Status(MountOf(o)) \in {"open", "closed"} /\ Status(obj[o].h) \in {"open", "closed"}
  BY <1>1, NilAssumption DEF IInv, Typed, UnusedIsUnknown, Status, Known
<1>3. Passing(o) = {<<"diff", "mount", Status(MountOf(o))>>, <<"diff", "own", Status(obj[o].h)>>}
  BY PassingIs
<1>. QED  BY <1>2, <1>3

(* A UserPerm passes an open handle or nil.                                *)
LEMMA PermPasses ==
    ASSUME IInv, NEW o \in Obj, obj[o].class = "perm"
    PROVE  Status(obj[o].h) \in {"nil", "open"}
BY DEF IInv, OwnOpen, Status

(* What any object passes satisfies LastOK, a Directory that is open.      *)
LEMMA PassingOK ==
    ASSUME IInv, NEW o \in Obj, obj[o].class \in {"mount", "file", "dir", "diff"},
           obj[o].class = "dir" => obj[o].h # Nil
    PROVE  LastOK(Passing(o))
<1>1. CASE obj[o].class = "mount"
  BY <1>1, MountPasses DEF LastOK, Known
<1>2. CASE obj[o].class = "file"
  BY <1>2, FilePasses DEF LastOK, Known
<1>3. CASE obj[o].class = "dir"
  BY <1>3, DirPasses DEF LastOK, Known
<1>4. CASE obj[o].class = "diff"
  BY <1>4, DiffPasses DEF LastOK, Known
<1>. QED  BY <1>1, <1>2, <1>3, <1>4

(* Every method of the tables belongs to an object that passes a mount, and *)
(* those of a Directory or a stream ask for its handle.                    *)
LEMMA CallClasses ==
    \A c \in Calls : /\ c.class \in {"mount", "file", "dir", "diff"}
                     /\ c.class \in {"dir", "diff"} => "handle" \in c.asks
<1>. DEFINE Kinds == {Unchecked, Validated, OfFile, ViaMount, OfDir, OfDiff}
<1>1. \A k \in Kinds : /\ k.class \in {"mount", "file", "dir", "diff"}
                       /\ k.class \in {"dir", "diff"} => "handle" \in k.asks
  BY DEF Unchecked, Validated, OfFile, ViaMount, OfDir, OfDiff
<1>2. Range(OpenCalls) \subseteq Kinds
  BY DEF OpenCalls, Range
<1>3. \A m : /\ Range(All(m, Unchecked)) \subseteq Kinds
             /\ Range(All(m, Validated)) \subseteq Kinds
             /\ Range(All(m, OfFile)) \subseteq Kinds
             /\ Range(All(m, ViaMount)) \subseteq Kinds
             /\ Range(All(m, OfDir)) \subseteq Kinds
             /\ Range(All(m, OfDiff)) \subseteq Kinds
  BY DEF Range, All
<1>. HIDE DEF Kinds
<1>4. /\ Range(ConfigFileCalls) \subseteq Kinds /\ Range(ParseCalls) \subseteq Kinds
      /\ Range(ConfigOptionCalls) \subseteq Kinds /\ Range(MountingCalls) \subseteq Kinds
      /\ Range(SyncCalls) \subseteq Kinds /\ Range(MdsCalls) \subseteq Kinds
      /\ Range(FsCidCalls) \subseteq Kinds /\ Range(SelectCalls) \subseteq Kinds
      /\ Range(PermissionCalls) \subseteq Kinds /\ Range(PathCalls) \subseteq Kinds
      /\ Range(PathXattrCalls) \subseteq Kinds /\ Range(LinkXattrCalls) \subseteq Kinds
      /\ Range(MakeDirsCalls) \subseteq Kinds /\ Range(StatFSCalls) \subseteq Kinds
      /\ Range(FdTimeCalls) \subseteq Kinds
  BY <1>3, Zenon
     DEF ConfigFileCalls, ParseCalls, ConfigOptionCalls, MountingCalls, SyncCalls,
         MdsCalls, FsCidCalls, SelectCalls, PermissionCalls, PathCalls, PathXattrCalls,
         LinkXattrCalls, MakeDirsCalls, StatFSCalls, FdTimeCalls
<1>5. /\ Range(ReadCalls) \subseteq Kinds /\ Range(WriteCalls) \subseteq Kinds
      /\ Range(FileAttrCalls) \subseteq Kinds /\ Range(FileSpaceCalls) \subseteq Kinds
      /\ Range(FileSyncCalls) \subseteq Kinds /\ Range(FileXattrCalls) \subseteq Kinds
      /\ Range(FileTimeCalls) \subseteq Kinds /\ Range(OpenDiffCalls) \subseteq Kinds
      /\ Range(DirCalls) \subseteq Kinds /\ Range(BlockDiffCalls) \subseteq Kinds
      /\ Range(SnapDiffCalls) \subseteq Kinds
  BY <1>3, Zenon
     DEF ReadCalls, WriteCalls, FileAttrCalls, FileSpaceCalls, FileSyncCalls,
         FileXattrCalls, FileTimeCalls, OpenDiffCalls, DirCalls, BlockDiffCalls,
         SnapDiffCalls
<1>6. Calls \subseteq Kinds
  BY <1>2, <1>4, <1>5 DEF Calls
<1>. QED  BY <1>1, <1>6 DEF Kinds

----------------------------------------------------------------------------
(* The invariant holds at the start.                                       *)
LEMMA InitIInv == Init => IInv /\ LastOK(last)
BY DEF Init, IInv, Typed, UnusedIsUnknown, OneOwner, OwnOpen, Numbers, Free, Known, LastOK

(* A step that only passes something.                                      *)
LEMMA SameObjects == ASSUME IInv, UNCHANGED <<obj, res, file>> PROVE IInv'
BY DEF IInv, Typed, UnusedIsUnknown, OneOwner, OwnOpen, Numbers

(* A new object with a handle of its own.                                  *)
LEMMA MakeKeeps ==
    ASSUME IInv, NEW o \in Obj, NEW class \in {"mount", "dir", "diff", "perm"},
           NEW m \in Obj \union {Nil}, NEW r \in Res, NEW copy \in Res \union {Nil},
           Make(o, [class |-> class, on |-> m, h |-> r, copy |-> copy], r),
           class = "dir" => m # Nil /\ obj[m].class = "mount",
           class = "diff" => copy # Nil,
           copy # Nil => res[copy] = "open"
    PROVE  IInv'
<1>1. /\ obj[o] = Free /\ res[r] = "unused"
      /\ obj' = [obj EXCEPT ![o] = [class |-> class, on |-> m, h |-> r, copy |-> copy]]
      /\ res' = [res EXCEPT ![r] = "open"]
      /\ file' = file
  BY DEF Make
<1>2. /\ obj'[o] = [class |-> class, on |-> m, h |-> r, copy |-> copy]
      /\ \A p \in Obj : p # o => obj'[p] = obj[p]
      /\ \A p \in Obj : obj[p].class # "file" => obj[p].h # r
      /\ res'[r] = "open" /\ \A x \in Res : x # r => res'[x] = res[x]
      /\ obj[o].class = "none" /\ obj[o].h = Nil
  BY <1>1, NilAssumption DEF IInv, Typed, UnusedIsUnknown, Free
<1>3. \A p \in Obj : obj[p].class \in {"file", "dir"} => obj[p].on \in Obj /\ obj[p].on # o
  BY <1>2 DEF IInv, Typed
<1>4. Typed'
  <2>1. obj' \in [Obj -> [class : {"none", "mount", "file", "dir", "diff", "perm"},
                          on : Obj \union {Nil}, h : Res \union Fd \union {Nil},
                          copy : Res \union {Nil}]]
    BY <1>1 DEF IInv, Typed
  <2>2. res' \in [Res -> {"unused"} \union Known]
        /\ file' \in [Res -> [Fd -> Obj \union {Nil}]]
    BY <1>1 DEF IInv, Typed, Known
  <2>3. class = "dir" => m \in Obj /\ m # o
    BY <1>2
  <2>4. ASSUME NEW p \in Obj
        PROVE  /\ obj'[p].class = "file" => obj'[p].h \in Fd \union {Nil}
               /\ obj'[p].class # "file" => obj'[p].h \in Res \union {Nil}
               /\ obj'[p].class \in {"file", "dir"} =>
                      obj'[p].on # Nil /\ obj'[obj'[p].on].class = "mount"
               /\ obj'[p].class = "diff" => obj'[p].h # Nil /\ obj'[p].copy # Nil
    <3>1. CASE p = o
      BY <3>1, <2>3, <1>2, NilAssumption
    <3>2. CASE p # o
      BY <3>2, <1>2, <1>3 DEF IInv, Typed
    <3>. QED  BY <3>1, <3>2
  <2>. QED  BY <2>1, <2>2, <2>4 DEF Typed
<1>5. UnusedIsUnknown'
  <2>1. ASSUME NEW p \in Obj
        PROVE  /\ obj'[p].class # "file" /\ obj'[p].h # Nil => res'[obj'[p].h] # "unused"
               /\ obj'[p].copy # Nil => res'[obj'[p].copy] # "unused"
    <3>1. CASE p = o
      BY <3>1, <1>2
    <3>2. CASE p # o
      BY <3>2, <1>1, <1>2 DEF IInv, Typed, UnusedIsUnknown
    <3>. QED  BY <3>1, <3>2
  <2>2. \A x \in Res, n \in Fd : res'[x] = "unused" => file'[x][n] = Nil
    BY <1>1, <1>2 DEF IInv, UnusedIsUnknown
  <2>. QED  BY <2>1, <2>2 DEF UnusedIsUnknown
<1>6. OneOwner'
  BY <1>2 DEF IInv, OneOwner
<1>7. OwnOpen'
  <2>. SUFFICES ASSUME NEW p \in Obj, obj'[p].h # Nil
                PROVE  /\ obj'[p].class \in {"mount", "perm"} => res'[obj'[p].h] = "open"
                       /\ obj'[p].class = "dir" /\ obj'[obj'[p].on].h # Nil
                              => res'[obj'[p].h] = "open"
    BY DEF OwnOpen
  <2>1. CASE p = o
    BY <2>1, <1>2
  <2>2. CASE p # o
    BY <2>2, <1>2, <1>3 DEF IInv, Typed, OwnOpen
  <2>. QED  BY <2>1, <2>2
<1>8. Numbers'
  <2>1. ASSUME NEW p \in Obj, obj'[p].class = "file", obj'[p].h # Nil,
               obj'[obj'[p].on].h # Nil
        PROVE  file'[obj'[obj'[p].on].h][obj'[p].h] = p
    BY <2>1, <1>1, <1>2, <1>3 DEF IInv, Numbers
  <2>2. ASSUME NEW x \in Res, NEW n \in Fd, res'[x] = "open", file'[x][n] # Nil
        PROVE  LET p == file'[x][n] IN
               obj'[p].class = "file" /\ obj'[p].h = n /\ obj'[obj'[p].on].h = x
    <3>1. x # r
      BY <2>2, <1>1 DEF IInv, UnusedIsUnknown
    <3>2. res[x] = "open" /\ file[x][n] # Nil /\ file[x][n] \in Obj
      BY <2>2, <3>1, <1>1, <1>2 DEF IInv, Typed
    <3>3. LET p == file[x][n] IN
          obj[p].class = "file" /\ obj[p].h = n /\ obj[obj[p].on].h = x
      BY <3>2 DEF IInv, Numbers
    <3>. QED  BY <3>2, <3>3, <1>1, <1>2, <1>3
  <2>. QED  BY <2>1, <2>2 DEF Numbers
<1>. QED  BY <1>4, <1>5, <1>6, <1>7, <1>8 DEF IInv

(* A Directory, a stream or credentials are closed or freed.               *)
LEMMA CloseKeeps ==
    ASSUME IInv, NEW o \in Obj, obj[o].class \in {"dir", "diff", "perm"}, obj[o].h # Nil,
           res' = [res EXCEPT ![obj[o].h] = "closed"], file' = file,
           \/ obj[o].class # "diff" /\ obj' = [obj EXCEPT ![o].h = Nil]
           \/ obj[o].class = "perm" /\ obj' = [obj EXCEPT ![o] = Free]
           \/ obj[o].class = "diff" /\ obj' = obj
    PROVE  IInv'
<1>1. /\ \A p \in Obj : p # o => obj'[p] = obj[p]
      /\ obj'[o].class \in {obj[o].class, "none"}
      /\ obj'[o].h = Nil \/ (obj[o].class = "diff" /\ obj'[o] = obj[o])
      /\ obj'[o].copy \in {obj[o].copy, Nil} /\ obj'[o].on \in {obj[o].on, Nil}
      /\ obj[o].class = "dir" => obj'[o].on = obj[o].on
      /\ obj[o].h \in Res
  BY DEF IInv, Typed, Free
<1>2. /\ \A x \in Res : x # obj[o].h => res'[x] = res[x]
      /\ \A x \in Res : res'[x] = "open" => res[x] = "open"
      /\ \A x \in Res : res'[x] = "unused" <=> res[x] = "unused"
  BY <1>1 DEF IInv, Typed, UnusedIsUnknown
<1>3. \A p \in Obj : obj[p].class \in {"file", "dir"} =>
                          obj[p].on \in Obj /\ obj[p].on # o
  BY DEF IInv, Typed
<1>4. Typed'
  <2>1. obj' \in [Obj -> [class : {"none", "mount", "file", "dir", "diff", "perm"},
                          on : Obj \union {Nil}, h : Res \union Fd \union {Nil},
                          copy : Res \union {Nil}]]
    BY DEF IInv, Typed, Free
  <2>2. res' \in [Res -> {"unused"} \union Known]
        /\ file' \in [Res -> [Fd -> Obj \union {Nil}]]
    BY DEF IInv, Typed, Known
  <2>3. ASSUME NEW p \in Obj
        PROVE  /\ obj'[p].class = "file" => obj'[p].h \in Fd \union {Nil}
               /\ obj'[p].class # "file" => obj'[p].h \in Res \union {Nil}
               /\ obj'[p].class \in {"file", "dir"} =>
                      obj'[p].on # Nil /\ obj'[obj'[p].on].class = "mount"
               /\ obj'[p].class = "diff" => obj'[p].h # Nil /\ obj'[p].copy # Nil
    <3>1. CASE p = o
      BY <3>1, <1>1, <1>3 DEF IInv, Typed, Free
    <3>2. CASE p # o
      BY <3>2, <1>1, <1>3 DEF IInv, Typed
    <3>. QED  BY <3>1, <3>2
  <2>. QED  BY <2>1, <2>2, <2>3 DEF Typed
<1>5. UnusedIsUnknown'
  BY <1>1, <1>2 DEF IInv, Typed, UnusedIsUnknown
<1>6. OneOwner'
  BY <1>1 DEF IInv, OneOwner
<1>7. OwnOpen'
  <2>. SUFFICES ASSUME NEW p \in Obj, obj'[p].h # Nil
                PROVE  /\ obj'[p].class \in {"mount", "perm"} => res'[obj'[p].h] = "open"
                       /\ obj'[p].class = "dir" /\ obj'[obj'[p].on].h # Nil
                              => res'[obj'[p].h] = "open"
    BY DEF OwnOpen
  <2>1. CASE p = o
    BY <2>1, <1>1
  <2>2. CASE p # o
    <3>1. obj[p].class # "file" => obj[p].h \in Res /\ obj[p].h # obj[o].h
      BY <2>2, <1>1 DEF IInv, Typed, OneOwner
    <3>. QED  BY <2>2, <3>1, <1>1, <1>2, <1>3 DEF IInv, OwnOpen
  <2>. QED  BY <2>1, <2>2
<1>8. Numbers'
  <2>1. ASSUME NEW p \in Obj, obj'[p].class = "file", obj'[p].h # Nil,
               obj'[obj'[p].on].h # Nil
        PROVE  file'[obj'[obj'[p].on].h][obj'[p].h] = p
    BY <2>1, <1>1, <1>3 DEF IInv, Numbers
  <2>2. ASSUME NEW x \in Res, NEW n \in Fd, res'[x] = "open", file'[x][n] # Nil
        PROVE  LET p == file'[x][n] IN
               obj'[p].class = "file" /\ obj'[p].h = n /\ obj'[obj'[p].on].h = x
    <3>1. file[x][n] \in Obj
      BY <2>2 DEF IInv, Typed
    <3>2. LET p == file[x][n] IN
          obj[p].class = "file" /\ obj[p].h = n /\ obj[obj[p].on].h = x
      BY <2>2, <1>2 DEF IInv, Numbers
    <3>. QED  BY <3>1, <3>2, <1>1, <1>3
  <2>. QED  BY <2>1, <2>2 DEF Numbers
<1>. QED  BY <1>4, <1>5, <1>6, <1>7, <1>8 DEF IInv

(* Credentials without a handle are collected.                             *)
LEMMA CollectKeeps ==
    ASSUME IInv, NEW o \in Obj, obj[o].class = "perm", obj[o].h = Nil,
           obj' = [obj EXCEPT ![o] = Free], UNCHANGED <<res, file>>
    PROVE  IInv'
<1>1. /\ \A p \in Obj : p # o => obj'[p] = obj[p]
      /\ obj'[o] = Free
      /\ \A p \in Obj : obj[p].class \in {"file", "dir"} =>
                            obj[p].on \in Obj /\ obj[p].on # o
  BY DEF IInv, Typed
<1>2. Typed'
  BY <1>1 DEF IInv, Typed, Free
<1>3. UnusedIsUnknown' /\ OneOwner'
  BY <1>1 DEF IInv, UnusedIsUnknown, OneOwner, Free
<1>4. OwnOpen'
  BY <1>1 DEF IInv, OwnOpen, Free
<1>5. Numbers'
  <2>1. ASSUME NEW x \in Res, NEW n \in Fd, res[x] = "open", file[x][n] # Nil
        PROVE  LET p == file[x][n] IN
               obj'[p].class = "file" /\ obj'[p].h = n /\ obj'[obj'[p].on].h = x
    <3>1. file[x][n] \in Obj
      BY <2>1 DEF IInv, Typed
    <3>. QED  BY <2>1, <3>1, <1>1 DEF IInv, Numbers
  <2>. QED  BY <2>1, <1>1 DEF IInv, Numbers, Free
<1>. QED  BY <1>2, <1>3, <1>4, <1>5 DEF IInv

(* A mount is released, and what is open on it.                            *)
LEMMA ReleasedKeeps ==
    ASSUME IInv, NEW o \in Obj, obj[o].class = "mount", obj[o].h # Nil,
           res' = Freed(obj[o].h), obj' = [obj EXCEPT ![o].h = Nil], file' = file
    PROVE  IInv'
<1>. DEFINE r == obj[o].h
<1>1. /\ \A p \in Obj : p # o => obj'[p] = obj[p]
      /\ obj'[o].class = "mount" /\ obj'[o].h = Nil
      /\ obj'[o].on = obj[o].on /\ obj'[o].copy = obj[o].copy
      /\ r \in Res
  BY DEF IInv, Typed
<1>2. \A x \in Res : res'[x] = IF x \in On(r) THEN "closed" ELSE res[x]
  BY DEF Freed
<1>3. r \in On(r)
  BY DEF On
<1>4. \A x \in Res : /\ res'[x] = "open" => res[x] = "open" /\ x # r
                     /\ res[x] # "unused" => res'[x] # "unused"
                     /\ res'[x] = "unused" => res[x] = "unused"
  BY <1>2, <1>3
<1>5. ASSUME NEW p \in Obj, p # o, obj[p].class \in {"mount", "perm"}, obj[p].h # Nil
      PROVE  obj[p].h \notin On(r)
  BY <1>5 DEF IInv, OneOwner, On
<1>6. ASSUME NEW p \in Obj, obj[p].class = "dir", obj[p].h # Nil, obj[p].on # o,
             obj[obj[p].on].h # Nil
      PROVE  obj[p].h \notin On(r)
  <2>1. obj[p].on \in Obj /\ obj[obj[p].on].class = "mount"
    BY <1>6 DEF IInv, Typed
  <2>2. MountOf(p) # r
    BY <2>1, <1>6, MountOfIs DEF IInv, OneOwner
  <2>3. p # o
    BY <1>6
  <2>. QED  BY <1>6, <2>2, <2>3 DEF IInv, OneOwner, On
<1>7. Typed'
  <2>1. obj' \in [Obj -> [class : {"none", "mount", "file", "dir", "diff", "perm"},
                          on : Obj \union {Nil}, h : Res \union Fd \union {Nil},
                          copy : Res \union {Nil}]]
    BY DEF IInv, Typed
  <2>2. res' \in [Res -> {"unused"} \union Known]
        /\ file' \in [Res -> [Fd -> Obj \union {Nil}]]
    BY DEF IInv, Typed, Known, Freed
  <2>3. ASSUME NEW p \in Obj
        PROVE  /\ obj'[p].class = "file" => obj'[p].h \in Fd \union {Nil}
               /\ obj'[p].class # "file" => obj'[p].h \in Res \union {Nil}
               /\ obj'[p].class \in {"file", "dir"} =>
                      obj'[p].on # Nil /\ obj'[obj'[p].on].class = "mount"
               /\ obj'[p].class = "diff" => obj'[p].h # Nil /\ obj'[p].copy # Nil
    BY <1>1 DEF IInv, Typed
  <2>. QED  BY <2>1, <2>2, <2>3 DEF Typed
<1>8. UnusedIsUnknown'
  <2>1. ASSUME NEW p \in Obj
        PROVE  /\ obj'[p].class # "file" /\ obj'[p].h # Nil => res'[obj'[p].h] # "unused"
               /\ obj'[p].copy # Nil => res'[obj'[p].copy] # "unused"
    <3>1. /\ obj'[p].class = obj[p].class /\ obj'[p].copy = obj[p].copy
          /\ obj'[p].h # Nil => obj'[p].h = obj[p].h
      BY <1>1
    <3>2. obj[p].copy \in Res \union {Nil} /\ (obj[p].class # "file" => obj[p].h \in Res \union {Nil})
      BY DEF IInv, Typed
    <3>3. /\ obj[p].class # "file" /\ obj[p].h # Nil => res[obj[p].h] # "unused"
          /\ obj[p].copy # Nil => res[obj[p].copy] # "unused"
      BY DEF IInv, UnusedIsUnknown
    <3>4. \A x \in Res : res[x] # "unused" => res'[x] # "unused"
      BY <1>4, Zenon
    <3>. QED  BY <3>1, <3>2, <3>3, <3>4, Zenon
  <2>2. \A x \in Res, n \in Fd : res'[x] = "unused" => file'[x][n] = Nil
    BY <1>4, Zenon DEF IInv, UnusedIsUnknown
  <2>. QED  BY <2>1, <2>2 DEF UnusedIsUnknown
<1>9. OneOwner'
  BY <1>1 DEF IInv, OneOwner
<1>10. OwnOpen'
  <2>. SUFFICES ASSUME NEW p \in Obj, obj'[p].h # Nil
                PROVE  /\ obj'[p].class \in {"mount", "perm"} => res'[obj'[p].h] = "open"
                       /\ obj'[p].class = "dir" /\ obj'[obj'[p].on].h # Nil
                              => res'[obj'[p].h] = "open"
    BY DEF OwnOpen
  <2>1. p # o /\ obj'[p] = obj[p]
    BY <1>1
  <2>2. ASSUME obj[p].class \in {"mount", "perm"}
        PROVE  res'[obj[p].h] = "open"
    <3>1. obj[p].h \in Res /\ res[obj[p].h] = "open"
      BY <2>1, <2>2 DEF IInv, Typed, OwnOpen
    <3>. QED  BY <3>1, <2>1, <2>2, <1>2, <1>5
  <2>3. ASSUME obj[p].class = "dir", obj'[obj[p].on].h # Nil
        PROVE  res'[obj[p].h] = "open"
    <3>1. obj[p].on \in Obj /\ obj[p].on # o /\ obj[obj[p].on].h # Nil
      BY <2>3, <1>1 DEF IInv, Typed
    <3>2. obj[p].h \in Res /\ res[obj[p].h] = "open"
      BY <3>1, <2>1, <2>3 DEF IInv, Typed, OwnOpen
    <3>. QED  BY <3>1, <3>2, <2>1, <2>3, <1>2, <1>6
  <2>. QED  BY <2>1, <2>2, <2>3
<1>11. Numbers'
  <2>1. ASSUME NEW p \in Obj, obj'[p].class = "file", obj'[p].h # Nil,
               obj'[obj'[p].on].h # Nil
        PROVE  file'[obj'[obj'[p].on].h][obj'[p].h] = p
    <3>1. p # o /\ obj'[p] = obj[p]
      BY <2>1, <1>1
    <3>2. obj[p].on \in Obj /\ obj[p].on # o
      BY <2>1, <3>1, <1>1 DEF IInv, Typed
    <3>. QED  BY <2>1, <3>1, <3>2, <1>1 DEF IInv, Numbers
  <2>2. ASSUME NEW x \in Res, NEW n \in Fd, res'[x] = "open", file'[x][n] # Nil
        PROVE  LET p == file'[x][n] IN
               obj'[p].class = "file" /\ obj'[p].h = n /\ obj'[obj'[p].on].h = x
    <3>1. file[x][n] \in Obj /\ res[x] = "open" /\ x # r
      <4>1. file' = file /\ file[x][n] \in Obj
        BY <2>2 DEF IInv, Typed
      <4>. QED  BY <4>1, <2>2, <1>4, Zenon
    <3>2. LET p == file[x][n] IN
          /\ obj[p].class = "file" /\ obj[p].h = n /\ obj[obj[p].on].h = x
          /\ obj[p].on \in Obj /\ obj[p].on # o /\ p # o
      BY <2>2, <3>1 DEF IInv, Numbers, Typed
    <3>. QED  BY <3>1, <3>2, <1>1
  <2>. QED  BY <2>1, <2>2 DEF Numbers
<1>. QED  BY <1>7, <1>8, <1>9, <1>10, <1>11 DEF IInv

(* A File gets a number that its mount has not given out.                  *)
LEMMA OpenKeeps ==
    ASSUME IInv, NEW o \in Obj, NEW m \in Obj, NEW n \in Fd, Open(o, m, n)
    PROVE  IInv'
<1>. DEFINE r == obj[m].h
            new == [class |-> "file", on |-> m, h |-> n, copy |-> Nil]
<1>1. /\ obj[o] = Free /\ obj[m].class = "mount" /\ r \in Res /\ res[r] = "open"
      /\ file[r][n] = Nil /\ obj' = [obj EXCEPT ![o] = new]
      /\ file' = [file EXCEPT ![r][n] = o] /\ res' = res
      /\ m # o /\ r # Nil
  BY NilAssumption DEF Open, Mounted, Status, IInv, Typed, Free
<1>2. /\ obj'[o] = new /\ \A p \in Obj : p # o => obj'[p] = obj[p]
      /\ file'[r][n] = o
      /\ \A x \in Res, k \in Fd : x # r \/ k # n => file'[x][k] = file[x][k]
  BY <1>1 DEF IInv, Typed
<1>3. \A p \in Obj : obj[p].class \in {"file", "dir"} =>
                        obj[p].on \in Obj /\ obj[p].on # o /\ p # o
  BY <1>1 DEF IInv, Typed, Free
<1>4. Typed'
  <2>1. obj' \in [Obj -> [class : {"none", "mount", "file", "dir", "diff", "perm"},
                          on : Obj \union {Nil}, h : Res \union Fd \union {Nil},
                          copy : Res \union {Nil}]]
    BY <1>1 DEF IInv, Typed
  <2>2. res' \in [Res -> {"unused"} \union Known]
        /\ file' \in [Res -> [Fd -> Obj \union {Nil}]]
    BY <1>1 DEF IInv, Typed
  <2>3. ASSUME NEW p \in Obj
        PROVE  /\ obj'[p].class = "file" => obj'[p].h \in Fd \union {Nil}
               /\ obj'[p].class # "file" => obj'[p].h \in Res \union {Nil}
               /\ obj'[p].class \in {"file", "dir"} =>
                      obj'[p].on # Nil /\ obj'[obj'[p].on].class = "mount"
               /\ obj'[p].class = "diff" => obj'[p].h # Nil /\ obj'[p].copy # Nil
    <3>1. CASE p = o
      BY <3>1, <1>1, <1>2, NilAssumption
    <3>2. CASE p # o
      BY <3>2, <1>2, <1>3 DEF IInv, Typed
    <3>. QED  BY <3>1, <3>2
  <2>. QED  BY <2>1, <2>2, <2>3 DEF Typed
<1>5. UnusedIsUnknown'
  BY <1>1, <1>2 DEF IInv, UnusedIsUnknown
<1>6. OneOwner'
  BY <1>2 DEF IInv, OneOwner
<1>7. OwnOpen'
  BY <1>1, <1>2, <1>3 DEF IInv, OwnOpen
<1>8. Numbers'
  <2>1. ASSUME NEW p \in Obj, obj'[p].class = "file", obj'[p].h # Nil,
               obj'[obj'[p].on].h # Nil
        PROVE  file'[obj'[obj'[p].on].h][obj'[p].h] = p
    <3>1. CASE p = o
      BY <3>1, <1>1, <1>2
    <3>2. CASE p # o
      <4>1. /\ obj'[p] = obj[p] /\ obj[p].h \in Fd /\ obj[p].on \in Obj /\ obj[p].on # o
            /\ obj'[obj[p].on].h = obj[obj[p].on].h
        BY <3>2, <2>1, <1>2, <1>3 DEF IInv, Typed
      <4>2. obj[obj[p].on].h \in Res
        BY <4>1, <2>1 DEF IInv, Typed
      <4>3. file[obj[obj[p].on].h][obj[p].h] = p
        BY <4>1, <2>1 DEF IInv, Numbers
      <4>4. p # Nil
        BY NilAssumption
      <4>. QED  BY <4>1, <4>2, <4>3, <4>4, <1>1, <1>2
    <3>. QED  BY <3>1, <3>2
  <2>2. ASSUME NEW x \in Res, NEW k \in Fd, res'[x] = "open", file'[x][k] # Nil
        PROVE  LET p == file'[x][k] IN
               obj'[p].class = "file" /\ obj'[p].h = k /\ obj'[obj'[p].on].h = x
    <3>1. CASE x = r /\ k = n
      BY <3>1, <1>1, <1>2
    <3>2. CASE x # r \/ k # n
      <4>1. file'[x][k] = file[x][k] /\ file[x][k] \in Obj
        BY <3>2, <2>2, <1>2 DEF IInv, Typed
      <4>2. LET p == file[x][k] IN
            obj[p].class = "file" /\ obj[p].h = k /\ obj[obj[p].on].h = x
        BY <4>1, <2>2, <1>1 DEF IInv, Numbers
      <4>. QED  BY <4>1, <4>2, <1>2, <1>3
    <3>. QED  BY <3>1, <3>2
  <2>. QED  BY <2>1, <2>2 DEF Numbers
<1>. QED  BY <1>4, <1>5, <1>6, <1>7, <1>8 DEF IInv

(* A File gives its number back.                                           *)
LEMMA FileCloseKeepsInv ==
    ASSUME IInv, NEW o \in Obj, FileClose(o)
    PROVE  IInv'
<1>. DEFINE r == obj[obj[o].on].h
            n == obj[o].h
<1>1. CASE UNCHANGED <<obj, file>>
  BY <1>1, SameObjects DEF FileClose
<1>2. CASE /\ Mounted(obj[o].on)
           /\ file' = [file EXCEPT ![MountOf(o)][obj[o].h] = Nil]
           /\ obj' = [obj EXCEPT ![o].h = Nil]
  <2>1. /\ obj[o].class = "file" /\ n \in Fd /\ r \in Res /\ obj[o].on \in Obj
        /\ obj[o].on # o /\ file' = [file EXCEPT ![r][n] = Nil] /\ res' = res
    BY <1>2, MountOfIs, NilAssumption DEF FileClose, Mounted, Status, IInv, Typed
  <2>2. file[r][n] = o
    BY <2>1, NilAssumption DEF IInv, Numbers, Typed
  <2>3. /\ obj'[o].class = "file" /\ obj'[o].h = Nil
        /\ obj'[o].on = obj[o].on /\ obj'[o].copy = obj[o].copy
        /\ \A p \in Obj : p # o => obj'[p] = obj[p]
        /\ \A x \in Res, k \in Fd : x # r \/ k # n => file'[x][k] = file[x][k]
        /\ file'[r][n] = Nil
    BY <1>2, <2>1 DEF IInv, Typed
  <2>4. \A p \in Obj : obj[p].class \in {"file", "dir"} => obj[p].on \in Obj /\ obj[p].on # o
    BY <2>1 DEF IInv, Typed
  <2>5. Typed'
    <3>1. obj' \in [Obj -> [class : {"none", "mount", "file", "dir", "diff", "perm"},
                            on : Obj \union {Nil}, h : Res \union Fd \union {Nil},
                            copy : Res \union {Nil}]]
      BY <1>2 DEF IInv, Typed
    <3>2. res' \in [Res -> {"unused"} \union Known]
          /\ file' \in [Res -> [Fd -> Obj \union {Nil}]]
      BY <2>1 DEF IInv, Typed
    <3>3. ASSUME NEW p \in Obj
          PROVE  /\ obj'[p].class = "file" => obj'[p].h \in Fd \union {Nil}
                 /\ obj'[p].class # "file" => obj'[p].h \in Res \union {Nil}
                 /\ obj'[p].class \in {"file", "dir"} =>
                        obj'[p].on # Nil /\ obj'[obj'[p].on].class = "mount"
                 /\ obj'[p].class = "diff" => obj'[p].h # Nil /\ obj'[p].copy # Nil
      BY <2>1, <2>3, <2>4 DEF IInv, Typed
    <3>. QED  BY <3>1, <3>2, <3>3 DEF Typed
  <2>6. UnusedIsUnknown'
    BY <2>1, <2>3 DEF IInv, UnusedIsUnknown
  <2>7. OneOwner'
    BY <2>3 DEF IInv, OneOwner
  <2>8. OwnOpen'
    BY <2>1, <2>3, <2>4 DEF IInv, OwnOpen
  <2>9. Numbers'
    <3>1. ASSUME NEW p \in Obj, obj'[p].class = "file", obj'[p].h # Nil,
                 obj'[obj'[p].on].h # Nil
          PROVE  file'[obj'[obj'[p].on].h][obj'[p].h] = p
      <4>1. p # o /\ obj'[p] = obj[p]
        BY <3>1, <2>3
      <4>2. /\ obj[p].h \in Fd /\ obj[p].on \in Obj /\ obj[p].on # o
            /\ obj'[obj[p].on].h = obj[obj[p].on].h
        BY <4>1, <3>1, <2>3, <2>4 DEF IInv, Typed
      <4>3. obj[obj[p].on].h \in Res
        BY <4>1, <4>2, <3>1 DEF IInv, Typed
      <4>4. file[obj[obj[p].on].h][obj[p].h] = p
        BY <4>1, <4>2, <3>1 DEF IInv, Numbers
      <4>. QED  BY <4>1, <4>2, <4>3, <4>4, <2>2, <2>3
    <3>2. ASSUME NEW x \in Res, NEW k \in Fd, res'[x] = "open", file'[x][k] # Nil
          PROVE  LET p == file'[x][k] IN
                 obj'[p].class = "file" /\ obj'[p].h = k /\ obj'[obj'[p].on].h = x
      <4>1. (x # r \/ k # n) /\ file'[x][k] = file[x][k] /\ file[x][k] \in Obj
        BY <3>2, <2>3 DEF IInv, Typed
      <4>2. LET p == file[x][k] IN
            obj[p].class = "file" /\ obj[p].h = k /\ obj[obj[p].on].h = x
        BY <4>1, <3>2, <2>1 DEF IInv, Numbers
      <4>3. file[x][k] # o
        BY <4>1, <4>2
      <4>. QED  BY <4>1, <4>2, <4>3, <2>3, <2>4
    <3>. QED  BY <3>1, <3>2 DEF Numbers
  <2>. QED  BY <2>5, <2>6, <2>7, <2>8, <2>9 DEF IInv
<1>. QED  BY <1>1, <1>2 DEF FileClose

(* Every step keeps the invariant: one step of the proof per action.       *)
LEMMA NextIInv == IInv /\ [Next]_vars => IInv'
<1>. SUFFICES ASSUME IInv, [Next]_vars PROVE IInv'
  OBVIOUS
<1>1. ASSUME NEW o \in Obj, NEW r \in Res, CreateMount(o, r) \/ NewUserPerm(o, r)
      PROVE  IInv'
  BY <1>1, MakeKeeps DEF CreateMount, NewUserPerm
<1>2. ASSUME NEW o \in Obj, NEW m \in Obj, NEW r \in Res, OpenDir(o, m, r)
      PROVE  IInv'
  <2>1. m # Nil /\ obj[m].class = "mount"
    BY <1>2, NilAssumption DEF OpenDir, Mounted
  <2>. QED  BY <1>2, <2>1, MakeKeeps DEF OpenDir
<1>3. ASSUME NEW o \in Obj, NEW m \in Obj, NEW r \in Res, OpenDiff(o, m, r)
      PROVE  IInv'
  <2>1. obj[m].h \in Res /\ obj[m].h # Nil /\ res[obj[m].h] = "open"
    BY <1>3 DEF OpenDiff, Mounted, Status, IInv, Typed
  <2>. QED  BY <1>3, <2>1, MakeKeeps DEF OpenDiff
<1>4. ASSUME NEW o \in Obj, NEW m \in Obj, NEW n \in Fd, Open(o, m, n)
      PROVE  IInv'
  BY <1>4, OpenKeeps
<1>5. ASSUME NEW o \in Obj, FileClose(o)
      PROVE  IInv'
  BY <1>5, FileCloseKeepsInv
<1>6. ASSUME NEW o \in Obj, Release(o)
      PROVE  IInv'
  BY <1>6, ReleasedKeeps, SameObjects DEF Release
<1>7. ASSUME NEW o \in Obj, DirClose(o)
      PROVE  IInv'
  BY <1>7, CloseKeeps, SameObjects DEF DirClose
<1>8. ASSUME NEW o \in Obj, DiffClose(o)
      PROVE  IInv'
  <2>1. obj[o].class = "diff" /\ obj[o].h # Nil
    BY <1>8 DEF DiffClose, IInv, Typed
  <2>. QED  BY <1>8, <2>1, CloseKeeps, SameObjects DEF DiffClose
<1>9. ASSUME NEW o \in Obj, UserPermDestroy(o)
      PROVE  IInv'
  BY <1>9, CloseKeeps DEF UserPermDestroy
<1>10. ASSUME NEW o \in Obj, Finalize(o)
       PROVE  IInv'
  <2>1. CASE obj[o].h # Nil
    BY <1>10, <2>1, CloseKeeps DEF Finalize
  <2>2. CASE obj[o].h = Nil
    BY <1>10, <2>2, CollectKeeps DEF Finalize
  <2>. QED  BY <2>1, <2>2
<1>11. ASSUME \/ \E o \in Obj, c \in Calls : Use(o, c)
              \/ \E o, m \in Obj : SetMountPerms(m, o)
              \/ UNCHANGED vars
       PROVE  IInv'
  BY <1>11, SameObjects DEF Use, SetMountPerms, vars
<1>. QED
  BY <1>1, <1>2, <1>3, <1>4, <1>5, <1>6, <1>7, <1>8, <1>9, <1>10, <1>11 DEF Next

(* What a step passes to libcephfs.                                        *)
LEMMA NextLast == IInv /\ LastOK(last) /\ [Next]_vars => LastOK(last')
<1>. SUFFICES ASSUME IInv, LastOK(last), [Next]_vars PROVE LastOK(last')
  OBVIOUS
<1>1. LastOK({})
  BY DEF LastOK
<1>2. ASSUME NEW o \in Obj, obj[o].class = "perm"
      PROVE  LastOK({<<"perm", "own", Status(obj[o].h)>>})
  BY <1>2, PermPasses DEF LastOK, Known
<1>3. ASSUME NEW o \in Obj, Release(o) \/ FileClose(o) \/ DirClose(o) \/ DiffClose(o)
      PROVE  LastOK(last')
  BY <1>3, PassingOK DEF Release, FileClose, DirClose, DiffClose
<1>4. ASSUME NEW o \in Obj, UserPermDestroy(o) \/ Finalize(o)
      PROVE  LastOK(last')
  BY <1>4, <1>1, <1>2 DEF UserPermDestroy, Finalize
<1>5. ASSUME NEW o \in Obj, NEW r \in Res, CreateMount(o, r) \/ NewUserPerm(o, r)
      PROVE  LastOK(last')
  BY <1>5, <1>1 DEF CreateMount, NewUserPerm
<1>6. ASSUME NEW o \in Obj, NEW m \in Obj,
             \/ \E r \in Res : OpenDir(o, m, r) \/ OpenDiff(o, m, r)
             \/ \E n \in Fd : Open(o, m, n)
      PROVE  LastOK(last')
  BY <1>6, PassingOK DEF OpenDir, OpenDiff, Open, Mounted
<1>7. ASSUME NEW o \in Obj, NEW m \in Obj, SetMountPerms(m, o)
      PROVE  LastOK(last')
  <2>1. /\ obj[m].class = "mount" /\ obj[o].class = "perm"
        /\ last' = Passing(m) \union {<<"perm", "own", Status(obj[o].h)>>}
    BY <1>7 DEF SetMountPerms
  <2>2. LastOK(Passing(m)) /\ LastOK({<<"perm", "own", Status(obj[o].h)>>})
    BY <2>1, <1>2, PassingOK
  <2>. QED  BY <2>1, <2>2 DEF LastOK
<1>8. ASSUME NEW o \in Obj, NEW c \in Calls, Use(o, c)
      PROVE  LastOK(last')
  BY <1>8, CallClasses, PassingOK DEF Use, Answers
<1>9. CASE UNCHANGED vars
  BY <1>9 DEF vars
<1>. QED  BY <1>3, <1>4, <1>5, <1>6, <1>7, <1>8, <1>9 DEF Next

----------------------------------------------------------------------------
(* The invariant is one.                                                   *)
LEMMA Invariance == Spec => [](IInv /\ LastOK(last))
<1>1. IInv /\ LastOK(last) /\ [Next]_vars => IInv' /\ LastOK(last)'
  BY NextIInv, NextLast DEF LastOK
<1>. QED  BY InitIInv, <1>1, PTL DEF Spec

(* Every state is well typed.                                              *)
THEOREM TypeCorrect == Spec => []TypeOK
<1>1. IInv /\ LastOK(last) => TypeOK
  BY DEF IInv, Typed, LastOK, TypeOK
<1>. QED  BY Invariance, <1>1, PTL

(* A handle that libcephfs has freed comes back to it only from a stream,   *)
(* or from a Directory of a released mount.                                *)
THEOREM StaleComesFromStreams == Spec => []StaleOnlyInStreams
<1>1. LastOK(last) => StaleOnlyInStreams
  BY DEF LastOK, StaleOnlyInStreams
<1>. QED  BY Invariance, <1>1, PTL

(* No File uses the number of another one, however often numbers are given  *)
(* out again.                                                              *)
THEOREM NumbersAreApart == Spec => []FilesStayApart
<1>1. ASSUME IInv, LastOK(last) PROVE FilesStayApart
  <2>1. \A u \in last : u[3] # "notOurs"
    BY <1>1 DEF LastOK
  <2>2. ASSUME NEW r \in Res, NEW n \in Fd, res[r] = "open", file[r][n] # Nil
        PROVE  LET o == file[r][n] IN
               obj[o].class = "file" /\ obj[o].h = n /\ MountOf(o) = r
    <3>1. LET o == file[r][n] IN
          obj[o].class = "file" /\ obj[o].h = n /\ obj[obj[o].on].h = r
      BY <1>1, <2>2 DEF IInv, Numbers
    <3>. QED  BY <3>1, MountOfIs
  <2>. QED  BY <2>1, <2>2 DEF FilesStayApart
<1>. QED  BY Invariance, <1>1, PTL

(* In whatever order a program closes what it has, libcephfs is told when a *)
(* call comes too late: what it is passed is open, or comes with the nil    *)
(* handle of the released mount, or is the number -1 of a closed File or    *)
(* the nil of destroyed credentials.  Only a stream of differences passes   *)
(* handles that look as good as ever.                                      *)
THEOREM OnlyStreamsHide ==
    Spec => [](\A u \in last : u[3] # "open" =>
                  \/ u[1] = "diff" \/ <<u[1], "mount", "nil">> \in last
                  \/ u \in {<<"file", "own", "nil">>, <<"perm", "own", "nil">>})
<1>. DEFINE Shown == \A u \in last : u[3] # "open" =>
                        \/ u[1] = "diff" \/ <<u[1], "mount", "nil">> \in last
                        \/ u \in {<<"file", "own", "nil">>, <<"perm", "own", "nil">>}
<1>1. LastOK(last) => Shown
  BY DEF LastOK
<1>. QED  BY Invariance, <1>1, PTL

----------------------------------------------------------------------------
(* What is open is in somebody's hands.                                    *)

(* Object o has the C handle r.                                            *)
Has(o, r) == obj[o].class \in {"mount", "dir", "diff", "perm"} /\ obj[o].h = r

Held == \A r \in Res : res[r] = "open" => \E o \in Obj : Has(o, r)

(* A step that changes one object keeps it, when what the object had is no  *)
(* longer open and what is opened is what it has got.                      *)
LEMMA OneChangeKeepsHeld ==
    ASSUME Held, NEW o \in Obj, \A p \in Obj : p # o => obj'[p] = obj[p],
           \A r \in Res : res'[r] = "open" => \/ res[r] = "open" /\ ~Has(o, r)
                                              \/ Has(o, r)'
    PROVE  Held'
BY DEF Held, Has

(* Every step keeps it.                                                    *)
LEMMA NextHeld == IInv /\ Held /\ [Next]_vars => Held'
<1>. SUFFICES ASSUME IInv, Held, [Next]_vars PROVE Held'
  OBVIOUS
<1>1. \A o \in Obj : \A new : obj' = [obj EXCEPT ![o] = new] =>
          obj'[o] = new /\ \A p \in Obj : p # o => obj'[p] = obj[p]
  BY DEF IInv, Typed
<1>2. \A o \in Obj : \A x : obj' = [obj EXCEPT ![o].h = x] =>
          \A p \in Obj : p # o => obj'[p] = obj[p]
  BY DEF IInv, Typed
<1>3. ASSUME NEW o \in Obj, NEW r \in Res,
             NEW class \in {"mount", "dir", "diff", "perm"}, NEW on, NEW copy,
             Make(o, [class |-> class, on |-> on, h |-> r, copy |-> copy], r)
      PROVE  Held'
  <2>1. /\ obj[o].class = "none" /\ obj' = [obj EXCEPT ![o] =
               [class |-> class, on |-> on, h |-> r, copy |-> copy]]
        /\ \A x \in Res : x # r => res'[x] = res[x]
    BY <1>3 DEF Make, Free, IInv, Typed
  <2>2. /\ obj'[o] = [class |-> class, on |-> on, h |-> r, copy |-> copy]
        /\ \A p \in Obj : p # o => obj'[p] = obj[p]
    BY <1>1, <2>1
  <2>3. Has(o, r)'
    BY <2>2 DEF Has
  <2>4. \A x : ~Has(o, x)
    BY <2>1 DEF Has
  <2>. QED  BY <2>1, <2>2, <2>3, <2>4, OneChangeKeepsHeld
<1>4. ASSUME NEW o \in Obj, NEW m \in Obj, NEW n \in Fd, Open(o, m, n)
      PROVE  Held'
  <2>1. /\ obj[o].class = "none" /\ obj' = [obj EXCEPT ![o] =
               [class |-> "file", on |-> m, h |-> n, copy |-> Nil]]
        /\ res' = res
    BY <1>4 DEF Open, Free
  <2>. QED  BY <1>1, <2>1, OneChangeKeepsHeld DEF Has
<1>5. ASSUME NEW o \in Obj, FileClose(o)
      PROVE  Held'
  <2>1. /\ obj[o].class = "file" /\ res' = res
        /\ obj' = obj \/ obj' = [obj EXCEPT ![o].h = Nil]
    BY <1>5 DEF FileClose
  <2>. QED  BY <1>2, <2>1, OneChangeKeepsHeld DEF Has
<1>6. ASSUME NEW o \in Obj, Release(o)
      PROVE  Held'
  <2>1. CASE UNCHANGED <<obj, res>>
    BY <2>1 DEF Held, Has
  <2>2. CASE res' = Freed(obj[o].h) /\ obj' = [obj EXCEPT ![o].h = Nil]
    <3>1. \A x \in Res : res'[x] = "open" => res[x] = "open" /\ x # obj[o].h
      BY <2>2 DEF Freed, On
    <3>. QED  BY <1>2, <2>2, <3>1, OneChangeKeepsHeld DEF Has
  <2>. QED  BY <1>6, <2>1, <2>2 DEF Release
<1>7. ASSUME NEW o \in Obj, res' = [res EXCEPT ![obj[o].h] = "closed"],
             \A p \in Obj : p # o => obj'[p] = obj[p]
      PROVE  Held'
  <2>1. \A x \in Res : res'[x] = "open" => res[x] = "open" /\ x # obj[o].h
    BY <1>7 DEF IInv, Typed
  <2>. QED  BY <1>7, <2>1, OneChangeKeepsHeld DEF Has
<1>8. ASSUME NEW o \in Obj, DirClose(o) \/ DiffClose(o) \/ UserPermDestroy(o) \/ Finalize(o)
      PROVE  Held'
  <2>1. /\ \/ obj' = obj \/ obj' = [obj EXCEPT ![o].h = Nil]
           \/ obj' = [obj EXCEPT ![o] = Free]
        /\ \/ res' = [res EXCEPT ![obj[o].h] = "closed"]
           \/ obj' = obj /\ res' = res
           \/ obj[o].h = Nil /\ res' = res
    BY <1>8 DEF DirClose, DiffClose, UserPermDestroy, Finalize
  <2>2. \A p \in Obj : p # o => obj'[p] = obj[p]
    BY <1>1, <1>2, <2>1
  <2>3. CASE obj[o].h = Nil /\ res' = res
    BY <2>2, <2>3, NilAssumption, OneChangeKeepsHeld DEF Has
  <2>4. CASE obj' = obj /\ res' = res
    BY <2>4 DEF Held, Has
  <2>. QED  BY <1>7, <2>1, <2>2, <2>3, <2>4
<1>9. ASSUME UNCHANGED <<obj, res>>
      PROVE  Held'
  BY <1>9 DEF Held, Has
<1>10. ASSUME NEW o \in Obj, NEW r \in Res,
              \/ CreateMount(o, r) \/ NewUserPerm(o, r)
              \/ \E m \in Obj : OpenDir(o, m, r) \/ OpenDiff(o, m, r)
       PROVE  Held'
  BY <1>3, <1>10 DEF CreateMount, NewUserPerm, OpenDir, OpenDiff
<1>11. ASSUME \/ \E o \in Obj, c \in Calls : Use(o, c)
              \/ \E o, m \in Obj : SetMountPerms(m, o)
              \/ UNCHANGED vars
       PROVE  Held'
  BY <1>9, <1>11 DEF Use, SetMountPerms, vars
<1>. QED  BY <1>4, <1>5, <1>6, <1>8, <1>10, <1>11 DEF Next

(* No C handle is lost while it is open: each mount, directory, stream and  *)
(* credential that libcephfs has open is in one object, and in one only,   *)
(* from which the program can give it back.                                *)
THEOREM NothingIsLost ==
    Spec => [](\A r \in Res : res[r] = "open" =>
                  \E o \in Obj : Has(o, r) /\ \A p \in Obj : Has(p, r) => p = o)
<1>. DEFINE One == \A r \in Res : res[r] = "open" =>
                      \E o \in Obj : Has(o, r) /\ \A p \in Obj : Has(p, r) => p = o
<1>1. Init => Held
  BY DEF Init, Held
<1>2. ASSUME IInv, Held PROVE One
  <2>1. \A o, p \in Obj, r \in Res : Has(o, r) /\ Has(p, r) => p = o
    BY <1>2, NilAssumption DEF Has, IInv, OneOwner
  <2>. QED  BY <1>2, <2>1 DEF Held
<1>3. IInv /\ Held /\ [Next]_vars => Held'
  BY NextHeld
<1>. QED  BY <1>1, <1>2, <1>3, Invariance, PTL DEF Spec
=============================================================================
