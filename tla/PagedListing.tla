----------------------------- MODULE PagedListing -----------------------------
(***************************************************************************)
(* The operations that list something with several calls of C while other  *)
(* clients add and remove: each call goes on after the last key of the one *)
(* before, and each kind of listing tells the end in a way of its own.     *)
(*                                                                         *)
(*   omap      IOContext.GetAllOmapValues                                  *)
(*   mirror    MirrorImageGlobalStatusList, MirrorImageInfoList,           *)
(*             MirrorImageInstanceIDList, MirrorImageList                  *)
(*   iter      MirrorImageInfoIter, MirrorImageInstanceIDIter              *)
(*   status    MirrorImageGlobalStatusIter                                 *)
(*   objects   IOContext.ListObjects                                       *)
(*   nobjects  Iter of package rados                                       *)
(*   dir       Directory.list                                              *)
(*   fs        dirWrapper.ReadDir of fscompat.go, of a whole directory     *)
(*                                                                         *)
(* Keys are numbered in the order of the listing; what they stand for,     *)
(* which is never looked at, is left out.                                  *)
(***************************************************************************)
EXTENDS Naturals, FiniteSets
CONSTANTS
    Kinds,          \* the kinds of listing looked at
    KeyCount,       \* how many keys there can be
    Match,          \* keys with filterPrefix or of modeFilter's mode; in a
                    \* directory, all but "." and ".."
    StartAfter,     \* startAfter or start of the caller; 0 is the empty string
    PageSize,       \* iteratorSize, iterBufSize, cMaxIter, pageResults,
                    \* defaultDirReadCount
    MaxErrors       \* bound: calls of C that fail

Key == 1 .. KeyCount

ASSUME KindsAssumption ==
    Kinds \subseteq {"omap", "mirror", "iter", "status", "objects", "nobjects", "dir", "fs"}
ASSUME KeyCountAssumption == KeyCount \in Nat
ASSUME MatchAssumption == Match \subseteq Key
ASSUME StartAssumption == StartAfter \in 0 .. KeyCount
(* A page of no keys would look like the end.                              *)
ASSUME SizeAssumption == PageSize \in Nat \ {0}
ASSUME ErrorsAssumption == MaxErrors \in Nat

VARIABLES
    kind,
    store,      \* what there is (external)
    pc,         \* "read", "check" for the end, "ok" or "failed"
    after,      \* the key the next call goes on after
    result,     \* what the listing has returned or handed out
    size,       \* omap: result at the last check; fs: entries of this group
    got,        \* length of the last page
    buf,        \* iter, status: what has been read and not handed out
    err,        \* the error of the last call of C
    errors,     \* how many calls have failed
    always,     \* wanted keys in store ever since the call
    ever        \* wanted keys in store at some time since the call

vars == <<kind, store, pc, after, result, size, got, buf, err, errors, always, ever>>
world == <<kind, store, always, ever>>

Filtered == kind \in {"omap", "iter", "mirror", "fs"}
Start == IF kind \in {"omap", "mirror"} THEN StartAfter ELSE 0
Wanted(keys) == {k \in keys : k > Start /\ (Filtered => k \in Match)}

(* What one call of C returns: the first keys after a given one.  Only the *)
(* last page is taken to be shorter.                                       *)
Rest(k) == {j \in Wanted(store) : j > k}
Page(k) == {j \in Rest(k) : Cardinality({i \in Rest(k) : i <= j}) <= PageSize}

Last(keys, default) ==
    IF keys = {} THEN default ELSE CHOOSE k \in keys : \A j \in keys : j <= k
First(keys) == CHOOSE k \in keys : \A j \in keys : k <= j

Init ==
    /\ kind \in Kinds /\ store \in SUBSET Key
    /\ pc = "read" /\ after = Start
    /\ result = {} /\ size = 0 /\ got = 0 /\ buf = {}
    /\ err = "nil" /\ errors = 0
    /\ always = Wanted(store) /\ ever = Wanted(store)

(* Other clients.                                                          *)
Write ==
    /\ store' \in SUBSET Key
    /\ always' = always \intersect store'
    /\ ever' = ever \union Wanted(store')
    /\ UNCHANGED <<kind, pc, after, result, size, got, buf, err, errors>>

----------------------------------------------------------------------------
(* Listings that read a page at a time.                                    *)

(* Mutated: the next page begins where the caller's did.                   *)
ReadPageAgain ==
    /\ kind \in {"omap", "mirror", "objects"} /\ pc = "read"
    /\ result' = result \union Page(after)
    /\ got' = Cardinality(Page(after))
    /\ pc' = "check"
    /\ UNCHANGED <<after, size, buf, err, errors>> /\ UNCHANGED world

(* Mutated: the next page skips a key.                                     *)
ReadPageSkips ==
    /\ kind \in {"omap", "mirror", "objects"} /\ pc = "read"
    /\ result' = result \union Page(after)
    /\ after' = Last(Page(after), after) + 1
    /\ got' = Cardinality(Page(after))
    /\ pc' = "check"
    /\ UNCHANGED <<size, buf, err, errors>> /\ UNCHANGED world

ReadPage ==
    /\ kind \in {"omap", "mirror", "objects"} /\ pc = "read"
    /\ result' = result \union Page(after)
    /\ after' = Last(Page(after), after)
    /\ got' = Cardinality(Page(after))
    /\ pc' = "check"
    /\ UNCHANGED <<size, buf, err, errors>> /\ UNCHANGED world

(* A page that has added nothing to the result.                            *)
OmapEnds == Cardinality(result) = size

(* fetchAll: a page that is not full.                                      *)
MirrorEnds == got < PageSize

(* The cursor is at the end after a page that is not full, and may be      *)
(* there after a full one.                                                 *)
ObjectsEnd(atEnd) == got < PageSize \/ (atEnd /\ Rest(after) = {})

(* Mutated: neither a page that is not full ends the loop, nor an empty one. *)
CheckNever(atEnd) ==
    /\ pc = "check"
    /\ pc' = "read"
    /\ size' = IF kind = "omap" THEN Cardinality(result) ELSE size
    /\ UNCHANGED <<after, result, got, buf, err, errors>> /\ UNCHANGED world

Check(atEnd) ==
    /\ pc = "check"
    /\ pc' = IF CASE kind = "omap"   -> OmapEnds
                  [] kind = "mirror" -> MirrorEnds
                  [] OTHER           -> ObjectsEnd(atEnd)
             THEN "ok" ELSE "read"
    /\ size' = IF kind = "omap" THEN Cardinality(result) ELSE size
    /\ UNCHANGED <<after, result, got, buf, err, errors>> /\ UNCHANGED world

----------------------------------------------------------------------------
(* The iterators of mirroring: Next hands out one item, from a buffer that *)
(* is read again when it is empty.                                         *)

(* lastID is set here, or by Next, item by item.                           *)
Fetch ==
    /\ kind \in {"iter", "status"} /\ pc = "read" /\ buf = {}
    /\ buf' = Page(after)
    /\ after' = IF kind = "iter" THEN Last(Page(after), after) ELSE after
    /\ pc' = IF Page(after) = {} THEN "ok" ELSE "read"
    /\ err' = "nil"
    /\ UNCHANGED <<result, size, got, errors>> /\ UNCHANGED world

HandOut ==
    /\ kind \in {"iter", "status"} /\ pc = "read" /\ buf # {}
    /\ result' = result \union {First(buf)}
    /\ after' = IF kind = "status" THEN First(buf) ELSE after
    /\ buf' = buf \ {First(buf)}
    /\ UNCHANGED <<pc, size, got, err, errors>> /\ UNCHANGED world

----------------------------------------------------------------------------
(* Listings that read an entry at a time.                                  *)

NextEntry == First({k \in store : k > after})

(* Value returns "" once err is set, and nothing resets it.                *)
Value(k) == IF kind = "nobjects" /\ err # "nil" THEN {} ELSE {k}

(* readDirSome skips "." and "..", and returns a group that is full; what  *)
(* it has got is returned in every case, and stands in result at once.     *)
ReadEntry ==
    /\ kind \in {"nobjects", "dir", "fs"} /\ pc = "read"
    /\ \E k \in store : k > after
    /\ after' = NextEntry
    /\ IF Wanted({NextEntry}) = {}
       THEN UNCHANGED <<result, size>>
       ELSE /\ result' = result \union Value(NextEntry)
            /\ size' = IF kind = "fs" THEN (size + 1) % PageSize ELSE size
    /\ UNCHANGED <<pc, got, buf, err, errors>> /\ UNCHANGED world

(* readDirSome makes an io.EOF of an empty group only, so that after a     *)
(* group that is not full readDirAll reads on.                             *)
EndOfEntries ==
    /\ kind \in {"nobjects", "dir", "fs"} /\ pc = "read"
    /\ \A k \in store : k <= after
    /\ pc' = IF kind = "fs" /\ size > 0 THEN "read" ELSE "ok"
    /\ size' = 0
    /\ err' = IF kind = "nobjects" THEN "ErrNotFound" ELSE "nil"
    /\ UNCHANGED <<after, result, got, buf, errors>> /\ UNCHANGED world

----------------------------------------------------------------------------
(* A call of C fails.  Next of an iterator can be called again, or not;    *)
(* readDirSome makes an io.EOF of an error too, on the first entry of a    *)
(* group.                                                                  *)
ReadFails ==
    /\ pc = "read" /\ buf = {} /\ errors < MaxErrors
    /\ errors' = errors + 1 /\ err' = "error"
    /\ CASE kind \in {"iter", "status"} -> pc' \in {"failed", "read"}
         [] kind = "fs" /\ size = 0     -> pc' = "ok"
         [] OTHER                       -> pc' = "failed"
    /\ UNCHANGED <<after, result, size, got, buf>> /\ UNCHANGED world

Step ==
    \/ ReadPage \/ (\E atEnd \in BOOLEAN : Check(atEnd))
    \/ Fetch \/ HandOut \/ ReadEntry \/ EndOfEntries \/ ReadFails

Next == Write \/ Step

Spec == Init /\ [][Next]_vars
FairSpec == Spec /\ WF_vars(Step)

(* Iter.Seek to a position that Iter.Token has returned, here of any key;   *)
(* what is handed out is looked at from there on.                          *)
Seek(token) ==
    /\ kind = "nobjects"
    /\ after' = token /\ pc' = "read" /\ result' = {}
    /\ UNCHANGED <<size, got, buf, err, errors>> /\ UNCHANGED world

SeekNext == Next \/ \E token \in 0 .. KeyCount : Seek(token)
SeekSpec == Init /\ [][SeekNext]_vars

----------------------------------------------------------------------------
TypeOK ==
    /\ kind \in Kinds /\ store \subseteq Key
    /\ pc \in {"read", "check", "ok", "failed"}
    /\ after \in 0 .. KeyCount
    /\ result \subseteq Key /\ buf \subseteq Key
    /\ size \in 0 .. KeyCount + PageSize /\ got \in 0 .. KeyCount
    /\ err \in {"nil", "ErrNotFound", "error"} /\ errors \in 0 .. MaxErrors
    /\ always \subseteq Key /\ ever \subseteq Key

(* What was there all the time, up to the key that the next call goes on   *)
(* after, has been handed out or is about to be: no page, buffer, group or *)
(* failed call leaves a gap behind it, however others write.               *)
NoGap == \A k \in always : k <= after => k \in result \union buf

(* A listing that ends well is complete, though each kind tells the end in *)
(* another way, and while others write.  (An error that readDirAll loses   *)
(* counts as one here.)                                                    *)
Contract == INSTANCE Listing WITH
    store <- Wanted(store),
    phase <- IF pc = "ok" /\ err = "error" THEN "failed"
             ELSE IF pc = "check" THEN "read" ELSE pc

ImplementsListing == Contract!Spec

(* The listing ends, even while others keep adding.                        *)
Terminates == <>(pc \in {"ok", "failed"})

(* dirWrapper "Implements https://pkg.go.dev/io/fs#ReadDirFile"            *)
(* (cephfs/fscompat.go), where ReadDir returns the error that ends it      *)
(* before the end of the directory: a listing of kind fs that returns no   *)
(* error is complete.                                                      *)
OkIsComplete == pc = "ok" => always \subseteq result

(* "Upon a successful invocation (return value of true), the Value method  *)
(* should be used to obtain the name of the retrieved object name"         *)
(* (rados/object_iter.go): when Next returns true, the object it has       *)
(* stopped at is handed out.                                               *)
ValueIsEntry == [][kind = "nobjects" /\ ReadEntry => after' \in result']_vars
=============================================================================
