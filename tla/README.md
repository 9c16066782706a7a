# Verification of go-ceph

go-ceph wraps the C libraries of Ceph (librados, librbd, libcephfs) for Go.
Most of its methods check a handle, make one C call and turn the result into a
Go value.  Its own logic is where the two worlds meet over time: handles that
must not be used before or after their time, callbacks that C threads make into
Go, Go values that C refers to by number, buffers whose size has to be guessed,
listings that take several calls, and replies of a server that may mean success
in one field and failure in another.  This directory models that logic in TLA+,
checks it with TLC on small instances, and proves the central safety properties
with TLAPS for every instance.

## 1. The system

| Part | State it keeps | Operations | What is hard, and what makes it correct | Module |
|---|---|---|---|---|
| rados watchers (`rados/watcher.go`) | global map `watchers` behind `watchersMtx`; per watcher the channels `events`, `errors`, `done` | `Watch`, `Delete`, `Ack`, `WatcherFlush`, the callbacks `watchNotifyCb` and `watchErrorCb`, loops over the channels | callbacks on librados threads race `Watch` and `Delete`; unbuffered sends block them. Channels closed once and in the right order, no notification lost before `Delete`, nobody blocked after it | Watcher |
| callback tracker (`internal/callbacks`) | map from numbers to values, counter `lastID`, mutex | `Add`, `Remove`, `Lookup` | a wrapping counter; a number in use must never be given out again | Callbacks |
| rbd image watches (`rbd/watchers.go`) | handle of the image, fields of the `Watch`, tracker entry | `OpenImage`/`Open`, `Close`, `UpdateWatch`, `Unwatch`, `imageWatchCallback` | three places have to agree on which watches exist; every callback must find its entry | ImageWatch |
| resize loops (`internal/retry`) | size of the attempt | `WithSizes` | what is listed changes between attempts; it must end, and give up only at the maximum | Retry |
| rados operations (`rados/operation.go`, `read_op*.go`, `write_op*.go`) | steps, C memory of each step | add steps, `Operate`, `Release`, finalizers | results read only after a successful operation, memory freed once | Operation |
| rados connection (`rados/conn.go`, `command.go`, ...) | cluster handle, `connected` | `NewConn`, `Connect`, `Shutdown`, `OpenIOContext`, the finalizer, calls | finalizer against explicit `Shutdown`; no call on a dead handle | Handles |
| rados I/O context, objects, snapshots, striper | `ioctx`, striper handle, cursors | object and xattr calls, locks, snapshots, `ListObjects`, `Iter` | cursor over a changing pool; the connection must outlive the context | Handles, PagedListing |
| rados omap (`rados/omap.go`) | start key, result, its size | `GetAllOmapValues`, `ListOmapValues`, `SetOmap`, ... | several reads against concurrent writers; complete and finite | PagedListing |
| rbd images | handle, `ioctx`, `name`, `offset` | open, close, and everything asked of an open or closed image | `Open` on an open image, failing `Close`, methods before and after | Handles |
| rbd callbacks of synchronous calls (`rbd/diff_iterate.go`, `sparsify.go`, ...) | an entry of the tracker during one call | `DiffIterate`, `SparsifyWithProgress`, ... | the entry must live as long as the C call | Callbacks, Handles |
| rbd mirroring (`rbd/mirror*.go`) | iterator: last ID, buffer | lists, `Mirror*Iter.Next`/`Close`, pass-through calls | pages over a changing set, four ways to tell the end | PagedListing, Handles |
| rbd groups, snapshots, migration, trash, settings | none, or C option objects | pass-through calls, lists by resize loops | option life cycle | Handles |
| cephfs mounts, files, directories, streams of differences, credentials (`cephfs/`) | mount handle, number of a file, directory and diff handles | open, close, read, release, the wrappers of `fscompat.go` | libcephfs numbers files anew; release of a mount under what is open on it; errors in the middle of a directory | Mounts, PagedListing |
| command responses (`internal/commands`) | one response | chain of filters | the first error must survive the chain | Admin |
| admin APIs (`cephfs/admin`, `rbd/admin`, `common/admin`) | a connection | one command each, and the pipeline its reply goes through | a reply that is success in one field and not in another | Admin |
| rgw admin API (`rgw/admin`) | client settings | one signed HTTP request each | no state | – |
| cgo helpers (`internal/cutil`) | memory shared with C | `PtrGuard`, buffers, iovec | hand-over between goroutines, release exactly once | – |
| small helpers, source checker (`internal/*`, `contrib`) | none | conversions; development tools | – | – |

How they interact: `rbd` packages use the callback tracker to pass Go functions
through C by number; `rados` watchers use a map of their own keyed by the
`WatcherID` librados hands out; rbd images and stripers hold the I/O context
they were opened on, and that its connection, so that the collector cannot take
it; files, directories and streams of cephfs use the handle of their mount,
which the application must keep; lists in `rados`, `rbd` and `cephfs` go through
`retry.WithSizes` or page by page; the admin packages send their commands
through a connection or a mount.

The code has hardly any goroutines of its own: the concurrency is that of the
application's goroutines, of the C libraries' callback threads, of the garbage
collector and of other clients of the same cluster.  These are the processes of
the models.  Nothing is persisted by go-ceph itself, so there is no crash
recovery to model.

## 2. Modules

    Watcher        -- refines -->  WatchService    WatcherProofs
    Callbacks      -- refines -->  CallbackMap     CallbacksProofs
    ImageWatch     -- uses ----->  CallbackMap     ImageWatchProofs
    PagedListing   -- refines -->  Listing         ListingProofs
    Retry                                          InternalProofs
    Operation                                      OperationProofs
    Handles        -- extends -->  HandleCalls     HandlesProofs
    Mounts         -- extends -->  MountCalls      MountsProofs
    Admin          -- extends -->  AdminCalls      InternalProofs

`MC*.tla` and `MC*.cfg` are the instances for TLC.  Operators introduced with
"Mutated:" are plausible mistakes kept beside the action they distort; no
specification uses them.  Each property is known to fail when one of them
replaces its original.

**Watcher** (`rados/watcher.go`).  The write lock `mtx` is modelled where it
is held across a C call (`Watch`); a critical section without one (the first
half of `Delete`, the lookups under the read lock) is one step.  `Watch` is
`WatchLock`, `RadosWatch3` or `RadosWatch3Fails`, `Register`; from the C call
on, librados may call back.  `Delete` is `DeleteEntry` (or `DeleteGone` when
the entry is missing, which returns nil at once), the C call, and then the three
closes one by one, without the lock.  A callback is looked up (`CbLookup`),
enters its select (`CbUnblocked`, `CbSend`, `CbSendOnClosed`: any ready case may
be taken), or blocks (`CbBlock`).  A blocked callback leaves with a send or with
the close of `done`.  A second close and a send on a closed channel set
`panic`, after which the process makes no further step.  `consumer` are the
loops over `Events()` and `Errors()`; the handler of an event may call `Ack`,
which looks the watcher up and then uses its I/O context without the lock.

**WatchService** says what this is for: a notification offered for a watcher
stays in hand until it is delivered to that watcher's handler; it may be dropped
only after the application called `Delete`.

**Callbacks** (`internal/callbacks/callbacks.go`).  `getID` is one step per
round of its loop (the lock is held meanwhile), on a counter of `IdCount`
values that wraps around.  **CallbackMap** is the same with atomic operations;
`Callbacks` implements it with the counter as it was when the lock was taken.

**ImageWatch** (`rbd/watchers.go`, `Open` and `Close` of `rbd/rbd.go`) uses
CallbackMap as its tracker.  `UpdateWatch` and `Unwatch` are each one step up to
the C call and one after it; `Unwatch` also a third, as the entry is removed
after the C call.  Here an application opens an `Image` only while it is not
open; what happens otherwise is part of Handles.

**Retry** (`internal/retry/sizer.go`).  One step for the call, one for
evaluating its hint.  Callers give four kinds of hint (`Kind`): `DoubleSize`, the
size the C library asks for, that of the keys when it may be the values that do
not fit, and the size just tried after any error.  What is to be returned may change at any time.

**Operation** (`rados/operation.go`, `read_op*.go`, `write_op*.go`, the step of
`omap.go`).  One action per constructor of a step around the common `Add`; the
kinds differ in whether they own an iterator or a buffer, where librados stores
their result, whether `update` can fail and whether they have a finalizer.  A
result in memory from `malloc` has any value until librados stores one (`Reply`);
one inside the Go object is zero, which reads as success.  `Operate` is the C
call and `update` of every step, whatever the call returned.  `Release` frees
the C operation and every step.  A finalizer runs when its object is unreachable.
`NextPair` and `Bytes`, with `CopyReturn`, are a method that reads C memory: while
it does, nothing but the application keeps its step reachable.  The constant
`LastUse` says whether the application may have dropped the step by then, and
`ReleaseAgain` whether it calls `Release` a second time.

**PagedListing** has the eight ways in which the code lists something by several
calls (its header names them).  They share the state and differ in what a call
returns (a page or an entry), where the next call goes on (the last key of the
page, the last item handed out, a cursor), and how they tell the end: a result
that has not grown (`OmapEnds`), a page that is not full (`MirrorEnds`), the
cursor at the end (`ObjectsEnd`), an empty page (`Fetch`), or no further entry
(`EndOfEntries`).  `Write` of other clients comes between any two steps, and any
call can fail (`ReadFails`).  `Seek`, of the object iterator only, is a separate
specification.  **Listing** is the contract of them all: complete with respect
to what was there all the time, sound with respect to what was ever there.

**Handles** (`rados`, `rados/striper`, `rbd`).  The state is which Go objects
there are, which C handle each has, which object each keeps reachable, and what
has become of every handle.  The operations that make, keep or free a handle are
actions of their own.  Every other method is a sequence of uses in a table of
**HandleCalls**: for each object it passes, what it asks of it (`ensureConnected`,
`validate`, a nil check) and whose handle it passes; `Call` performs any of
them.  `last` holds what the last step has passed to C.  `Forget` and `Collect`
are the program and the garbage collector, with the finalizer of `Conn`.

**Mounts** and **MountCalls** do the same for `cephfs`.  Numbers of open files are
given out again, releasing a mount frees what is open on it, and streams of
differences carry a mount handle of their own that nobody resets.

**AdminCalls** has the steps of `internal/commands/response.go` as operators on a
response (an error, a status and a body, each of a few kinds), the pipelines the
admin packages put together from them, and a table of which command uses which.
**Admin** sends one command through the connection, lets the server do and
answer what it likes, and parses.  A command json.Marshal refuses (`MarshalFails`)
is not sent; its error goes through the pipeline as that of a reply would.

### What is assumed of code outside the repository

- librados: a `WatcherID` is never handed out twice; `rados_unwatch2` does not
  wait for callbacks in progress (the comments "unblock blocked callbacks" in
  `Delete` would have no object otherwise), `rados_watch_flush` does; after a
  failed `rados_unwatch2` the watch may or may not exist.
- librbd: `rbd_update_unwatch` and `rbd_close` wait for the callbacks of the
  watches they end; handles of watches are unique within an open image, and may
  be the same on another one or when it is opened again.
- C handles, which are addresses, are not given out again in Handles and Mounts;
  a program that uses a stale one is thus always told apart from one that uses a
  new one.  Only the numbers of open files are reused, because libcephfs
  promises to do so.  A call that passes a stale handle returns an error.
- A failing `rbd_close`, `ceph_close` or `ceph_closedir` leaves open what it was
  to close, as the code assumes by keeping the handle.  `ceph_release` of a mount
  frees the directories and streams on it.
- A page holds the first keys after the given one that match, in order, is read
  atomically, and only the last page is short.
- An operation: librados sets the iterator of an omap step when the step is
  added; one that succeeded has stored every result, and then only decoding the
  output of a step can have failed by itself.
- A server that answers a command without an error has carried it out; one that
  answers with an error may have.
- Go: unbuffered channels are rendezvous, a select takes any ready case,
  and `sync.RWMutex` excludes as documented.  An object is reachable during a
  call of its methods, except where `LastUse` says otherwise.
- Applications: in Watcher they do not use an I/O context they have destroyed,
  and destroy it only after deleting its watchers (`watcher.go:90`).  In Handles
  and Mounts they may do anything, but use an object from one goroutine at a
  time, as its methods take no lock, so that a call is one step.  One goroutine
  uses an `Image` in ImageWatch, and one builds and releases an operation, which
  is performed once (`operation.go:75`).

`WatcherFlush` asks the connection whether it is connected; a `Conn` with an
I/O context is, so the early return does not occur in Watcher.

## 3. Runs

| Run | Instance | Properties |
|---|---|---|
| `watcher` | 1 watcher, 2 callback threads, 2 goroutines, fair | `TypeOK`, `RegisteredIsLive`, `NoDoubleClose`, `NoNewSelectAfterClose`; the refinement `ImplementsService`; `DeleteEndsLoops`, `CallbackReturns`, `BlockedIsServed`, `FlushReturns` |
| `callbacks` | 4 numbers, 4 goroutines, fair | `TypeOK`, `OwnEntry`, `NoStrayEntry`; the refinement `ImplementsMap`; `AddReturns` |
| `image_watch` | 2 images, 3 C images, 3 watches, 2 handles, 1 thread, 4 numbers, symmetric | `TypeOK`, `RegisteredHasEntry`, `CallbackFindsItsWatch`, `LeaksOnlyOnMisuse` |
| `retry` | sizes 1 to 11, up to 13 to return, fair | `TypeOK`, `GivesUpOnlyAtMax`, `ExactHintTwice`, `Terminates` |
| `operation` | 3 steps of any kinds, fair | `TypeOK`, `NilMeansResults`, `NoFault`, `Reclaimed` |
| `listing` | 8 kinds, 5 keys of which 4 match, start after 1, pages of 2, 1 failing call, fair | `TypeOK`, `NoGap`; the refinement `ImplementsListing`; `Terminates` |
| `handles` | 4 objects, 4 handles, symmetric | `TypeOK`, `ClosedStaysAway`, `FinalizerSparesUsers`, `NilIsCaught`, `HandlesAreKept` |
| `mounts` | 4 objects, 4 handles, 2 numbers of files, symmetric | `TypeOK`, `StaleOnlyInStreams`, `FilesStayApart` |
| `admin` | every pipeline with every reply | `NilMeansDone`, `RefusalsAreTold` |
| `watcher_panic` | 1 of each | `UnblockedWhenDeleted` fails, section 6 |
| `dir_listing` | `ReadDir` of fscompat, 4 keys, pages of 2, 1 failing call | `OkIsComplete` fails, section 6 |
| `object_iter` | `Iter` with `Seek`, 4 keys | `ValueIsEntry` fails, section 6 |

What they show, beyond what the names say:

- `listing`: each of the eight ways to go on and to tell the end is right for as
  long as pages are in order, and an error is told, but for the one that
  `dir_listing` is about.
- `handles`: two properties say exactly how much the code promises.  A freed
  handle of a `Conn` or `Image` never reaches C, while an `IOContext`, `Iter`,
  `Striper` or `ImageOptions` keeps its handle and passes it on.  A nil reaches C
  in two ways only: `NilIsCaught` names them, and `MCHandlesShutdown.cfg` and
  `MCHandlesMirror.cfg` show that each happens against what a comment says.
- `mounts`: the same for cephfs, where a stale number would be another file.
- `admin`: a nil error means that the command was carried out without an error.
  Most commands also look at what the server has said beside it; the exceptions
  are named in `NilMeansDone`: the commands of the blocklist pass over a status,
  those that change it over a body too, and `parsePathResponse` over a status it
  has found (`MCAdminPath.cfg`).  A server that does not know a command is told from
  one that refuses it.
- `retry`: the loop ends for each kind of hint the callers give, also for one that
  is no larger than the size, and for the caller that repeats after any error
  (`AddMirrorPeerSite`, kind `always`).

Why the bounds are enough.  Watchers share only the lock and a goroutine's
attention, so one watcher with everybody on it is the crowded case: two
goroutines give concurrent and repeated `Delete`s and a `Delete` during a
flush, two callbacks compete for one channel or sit on both.  Four numbers for
four goroutines make the counter wrap all the time, the map get full but for
one number, and the free one be any.  Three watches on two images are enough
for two handles that are equal on different images, for a `Watch` outliving the
opening it was made in, and for an entry left behind next to a live one; four
numbers are one more than watches, so numbers do not come round inside a run
(uniqueness under wrap-around is the subject of `Callbacks`).  From 1 to 11 the
doubling misses the maximum (8, 16), and 13 is longer than it.  Steps of an
operation meet only in `update`, where one failed step decides the outcome of
all: with three there is a failed one, a successful one and one librados did not
get to.  Four matching keys in pages of two, with a key that does not match
between them, give full, partial and empty pages before and after a change; one
failure can hit any call.  The longest chain of objects is connection, context
and image or striper; a fourth is the second of any class (an image opened twice,
two connections, two files on a mount).  Four handles serve such a chain and a
reopening.  Two numbers of files let one be given out again while the other is
open.

Deadlock is checked only in `callbacks`.  In the other models everybody may
rightly stop: all watchers deleted and the context destroyed, the process
panicked, all watches or handles used up, the loop or listing at its end, the
operation released, the command answered.

`Terminates` of `listing` depends on keys being finite in number, as they are for
an object, a pool or a directory: each call goes on after the last key of the one
before, and no bound on the writes of others is needed.

## 4. Fairness

Safety runs use none.  `FairSpec` says that a goroutine or C thread that can
take its next step in code does so (weak fairness), and that a C call returns.
No call of an application, no offer of a callback and no write of another
client is ever obliged to happen.  In PagedListing the fair step is that of the
caller, who asks an iterator for the next item until it ends.  Two steps of
`Watcher` are strongly fair:

- `CbSend`: a Go channel queues its blocked senders first come first served, so
  a sender that finds a receiver again and again is served;
- `CbLookup`: `sync.RWMutex` lets the readers in that were waiting when a
  writer unlocks, so repeated `Watch` calls do not starve a lookup.

In `Operation` the collector is weakly fair: Go collects at least every two
minutes, and the program goes on.

A loop over a channel is taken to come back from its handler.  The liveness
properties of `Watcher` except the state `Stopped`, the panic of section 6.

## 5. Proofs

| Theorem | Property | Argument |
|---|---|---|
| `WatcherProofs!TypeCorrect` | `TypeOK` | part of `IInv` |
| `WatcherProofs!MapIsLive` | `RegisteredIsLive` | part of `IInv` |
| `WatcherProofs!CloseOnce` | `NoDoubleClose` | part of `IInv` |
| `WatcherProofs!BlockedAreSafe` | `BlockedIsOpen` (no run) | part of `IInv` |
| `WatcherProofs!SelectOnlyOpen` | `NoNewSelectAfterClose` | from `IInv` |
| `WatcherProofs!Implementation` | `ImplementsService` | from `IInv` and `RInv` |
| `WatcherProofs!OnlyThatPanic` | – | from `IInv` |
| `WatcherProofs!NoLockCycle` | – | from `IInv` |
| `WatcherProofs!OnlyOvertakenCallsAreLate` | – | from `IInv` and `ContextInv` |
| `CallbacksProofs!TypeCorrect` | `TypeOK` | part of its `IInv` |
| `CallbacksProofs!EntriesAreKept` | `OwnEntry` | part of its `IInv` |
| `CallbacksProofs!EntriesAreOwned` | `NoStrayEntry` | part of its `IInv` |
| `CallbacksProofs!NumbersAreUnique` | – | from `OwnEntry` |
| `CallbacksProofs!Implementation` | `ImplementsMap` | from `IInv` and `WalkInv` |
| `CallbacksProofs!LoopEnds` | – (for `AddReturns`) | counting |
| `ImageWatchProofs!TypeCorrect` | `TypeOK` | part of its `IInv` |
| `ImageWatchProofs!EntriesAreThere` | `RegisteredHasEntry` | part of its `IInv` (`RegInv`) |
| `ImageWatchProofs!CallbacksFind` | `CallbackFindsItsWatch` | part of its `IInv` |
| `ImageWatchProofs!LeaksAreMisuse` | `LeaksOnlyOnMisuse` | from its `IInv` |
| `InternalProofs!TypeCorrect` | `TypeOK` | part of its `IInv` |
| `InternalProofs!LastTryIsMax` | `GivesUpOnlyAtMax` | part of its `IInv` |
| `InternalProofs!Growth` | `RetriesGrow` (no run) | from its `IInv` |
| `InternalProofs!ExactHints` | `ExactHintTwice` | `ExactInv` on top |
| `InternalProofs!NilIsDone` | `NilMeansDone` | from `CommandInv` |
| `InternalProofs!RefusalsGoThrough` | `RefusalsAreTold` | from `CommandInv` |
| `InternalProofs!PanicsAreKnown` | – | from `CommandInv` |
| `OperationProofs!TypeCorrect` | `TypeOK` | part of its `IInv` |
| `OperationProofs!NilIsTrue` | `NilMeansResults` | part of its `IInv` |
| `OperationProofs!ReleaseIsComplete` | `ReleasedIsFree` (no run) | part of its `IInv` |
| `OperationProofs!NoFaultOnceReleased` | `NoFault` | `CopyInv` on top, when `ReleaseAgain` and `LastUse` are false |
| `OperationProofs!FaultsHaveCauses` | – | from its `IInv`, with `CopyInv` when `LastUse` is false |
| `OperationProofs!UnreachableForGood` | – (for `Reclaimed`) | from its `IInv` |
| `HandlesProofs!TypeCorrect` | `TypeOK` | from its `IInv` and `LastOK` |
| `HandlesProofs!ClosedHandlesStayAway` | `ClosedStaysAway` | from `LastOK` |
| `HandlesProofs!FinalizerWaits` | `FinalizerSparesUsers` | from its `IInv` |
| `HandlesProofs!OpenHandlesAreKept` | `HandlesAreKept` | from its `IInv` |
| `HandlesProofs!NilHandlesAreCaught` | `NilIsCaught` | `NilInv` on top |
| `MountsProofs!TypeCorrect` | `TypeOK` | from its `IInv` and `LastOK` |
| `MountsProofs!StaleComesFromStreams` | `StaleOnlyInStreams` | from `LastOK` |
| `MountsProofs!NumbersAreApart` | `FilesStayApart` | from its `IInv` and `LastOK` |
| `MountsProofs!OnlyStreamsHide` | – | from `LastOK` |
| `MountsProofs!NothingIsLost` | – | from its `IInv` and `Held` |
| `ListingProofs!TypeCorrect` | `TypeOK` | part of its `IInv` |
| `ListingProofs!NothingIsSkipped` | `NoGap` | part of its `IInv` |
| `ListingProofs!Implementation` | `ImplementsListing` | from its `IInv` |
| `ListingProofs!OnlyDirectoriesAreShort` | `OkIsComplete` but for one case | from its `IInv` and `ErrorInv` |
| `ListingProofs!UnsoughtValuesAreEntries` | `ValueIsEntry` without `Seek` | from its `IInv` |
| `ListingProofs!StepsRunOut` | – (for `Terminates`) | a measure, from its `IInv` and `BufferAhead` |

They hold for all values of the constants that satisfy the assumptions next to
their declaration: that the marker values (`NoThread`, `NoWatcher`, `None`,
`NoClient`, `NoStep`, `Nil`) are not members of the sets they mark the absence
of, that a counter has at least one value, that a first size is at least one and
at most the maximum, that a page has room for a key, that there are finitely
many keys, and that a process makes fewer image watches than a `uintptr` has
values (`WatchAssumption`).  Two theorems have a hypothesis of their own:
`NoFaultOnceReleased` is about an application that releases once and keeps a step
until its methods have returned, `LoopEnds` about no more clients than numbers.

*Watcher.*  None of the safety properties is inductive.  That nobody closes
twice needs to know that a goroutine inside `Delete` is the only one there for
its watcher, that the watcher is not in the map, and how far the closes are
(`DeleteInv`); that a new watcher is not yet in anybody's hands needs the lock
around `Watch` (`WatchInv`); and that a parked callback meets no closed channel
needs that `done` is always the first to go (`CallbackInv`).  `IInv` is their
conjunction, with one proof step per action and below it one per conjunct.

*Watcher implements WatchService.*  The life of a watcher is defined by the map,
the closed channels and who is inside `Delete`; each step of `Watcher` is a step
of the service or leaves its state alone.  That a notification never arrives for
a watcher the service does not know takes `KnownInv` (librados calls back only
for a watcher already returned, or about to be put in the map under the lock);
that none is offered once channels are closed takes `ForgottenInv`.  Together
they are `RInv`.

*What can stop the watchers.*  `panic` is set by a send on a closed channel or by a
second close; `DeleteInv` excludes the second and `CallbackInv` a parked sender, so
that the callback which is late for its select is all that is left
(`OnlyThatPanic`).  `NoLockCycle` is what the liveness properties rest on: the
holder of the lock never waits for a callback, and a callback of a watcher that is
being closed never waits for a reader.

*Watchers and their I/O context.*  `ContextInv` relates the map, the watchers the
application has been given and those whose `Delete` has returned nil: the context
is destroyed only when all of the second are among the third.
`OnlyOvertakenCallsAreLate` says what can still use it then: an `Ack` with its
lookup behind it, and a `rados_unwatch2` (items 10 and 16 of section 6).

*Callbacks.*  The goroutine that holds the lock is the only one in the loop of
`getID`, and when it comes to store its number the number is free: nobody else
can have taken it as every `Add` needs the lock.  For the refinement `WalkInv`
adds that the loop has met only taken numbers between the counter it started
from and where it is; having been all the way around, it is where it started.  `LoopEnds` counts: the
numbers in use belong to different clients (`OwnEntry`), and the one in the loop
has none, so that of as many numbers as clients one is free (`SomeFree`), and the
counter meets every number within one round (`Reaches`).

*ImageWatch.*  `RegisteredHasEntry` relates three tables, and each of the steps of
`UpdateWatch` and `Unwatch` can be taken long after the one before, on an image
that was closed and opened again.  `RegInv` says that a registration, the entry of
its number and the fields of its watch agree, and that its image still has the
`rbd_image_t` it was registered on; this needs that no two images have the same
one (`ImageInv`), that a number is in use by one watch (`EntryInv`), and that the
next number is a fresh one (`CounterInv`, where the lemma `RoomForOne` counts the
watches made).  `PcInv` has what is known between the steps: when `Unwatch` comes
to remove its entry, its own watch is not registered.  A callback always has its
registration (`CbInv`), as librbd ends none before its callbacks.  That nothing
but the three causes leaves an entry behind follows step by step from the same
invariant.

*Retry.*  A hint was given because the size just tried was too small, but for the
caller that repeats after any error (`LoopInv`), and the number of attempts is bounded by the size because each retry is at least one larger.
`ExactInv` follows an exact hint: while the list stays as it is, what was seen at
the first attempt is its length, and the second attempt has room for it or is the
one with the maximum.

*Operation.*  Only an iterating or an exec step owns memory, and memory is
dangling only for the iterator of a `GetOmapValuesByKeys` step after `Release`,
when the step can no longer be iterated (`MemInv`).  What a method reads is held
because the application holds the step (`CopyInv`).  `FaultsHaveCauses` is the
other side of `NoFaultOnceReleased`: whatever the application does, items 5 and 12
of section 6 are the only ways to a fault.  `UnreachableForGood` says that a
finalizer which finds its step unreachable is right for good.

*Handles.*  The handle of a `Conn` or `Image` is nil or open (`OwnOpen`) because
no two objects have the same one (`OneOwner`).  That the finalizer waits needs
that the cluster of a context is that of the connection it points to
(`FromConn`), and the cluster of an image or striper that of its context
(`FromIoctx`).  What a step passes to C is then known from the state before it
(`LastOK`).  `NilHandlesAreCaught` puts two things together: in the tables every
method that passes the handle of an `Image` asks whether there is one (`UseOK`,
checked table by table in `MethodsGuarded`), and any other object lacks its handle
only when it is a `Conn` that has been connected (`NilInv`).

*Mounts.*  A handle not given out yet is in no table (`UnusedIsUnknown`), no two
objects have the same one (`OneOwner`), what is open on a mount that was not
released is open (`OwnOpen`), and the number a `File` has is assigned to that
very `File` by the mount it was opened on (`Numbers`).  `OnlyStreamsHide` goes on
from the same invariant: every other object that is used too late shows it by a nil
handle.  `NothingIsLost` has an invariant of its own, `Held`, since `IInv` says what
an object may have and not that there is one for what is open; a second `Close`, a
failed `Release` and the finalizer are the steps where it could break.

*Listing.*  `NoGap` needs that the buffer of an iterator has no gap either
(`BufferInv`), and that what was there all the time is there (`Sound`).  That
every way to tell the end is right is `EndInv`; it rests on the lemmas `PageIs`
(a page is the beginning of what is left, and all of it when it is not full) and
`NextPage` (what that means for the keys that were there all the time).

`StepsRunOut` is about the end of a listing: the calls that may still fail, the keys
it has not gone past, what an iterator has to do before the next key, and the way
around the loop, in this order, are numbers between bounds that become smaller
with every step of the listing and that no other client changes.  An empty page
adds nothing, which is why a listing of an omap ends at it (`EndInv`).

`OnlyDirectoriesAreShort` and `UnsoughtValuesAreEntries` are the other side of the
two failing runs of a listing.  The first says that `readDirSome` is the only way to
take an error for the end: `ErrorInv` follows the error of each kind to where it is
returned.  The second is `ValueIsEntry` as long as nobody seeks.

*Admin.*  `CommandInv` says that what is parsed is a response the server, or the
lack of a connection, or a command that cannot be encoded, can have produced
(`Told`).  What a pipeline of calls does to
such a response is a matter of the tables: errors go through every pipeline but that
of a clone (`ErrorsGoThrough`, `EndIs`), nil is returned only for what was read, but for the pipelines `NilMeansDone`
names (`NilIsRead`), and one body makes one pipeline panic (`PanicIs`).  `InternalProofs`
extends both `Retry` and `Admin`, which is why the specification of the latter is
`CmdSpec`; the two share no variable.

Only model-checked is liveness under fairness, which is out of the prover's reach.
What it rests on beside fairness is proved where it takes an argument: `LoopEnds` for
`AddReturns`, `UnreachableForGood` for `Reclaimed`, `StepsRunOut` and `Growth` for the
two `Terminates`, and `OnlyThatPanic`, `NoLockCycle` and `BlockedAreSafe` for the
liveness of `Watcher`.  Six of the properties that fail in section 6 have theorems
that say how far the failure goes: `OnlyThatPanic` for `UnblockedWhenDeleted`,
`OnlyDirectoriesAreShort` for `OkIsComplete`, `UnsoughtValuesAreEntries` for
`ValueIsEntry`, `FaultsHaveCauses` for `FreeIsIdempotent`, and
`NilHandlesAreCaught` for `ShutdownIsNoticed` and `ClosedImageIsTold`.

## 6. Where code and comments part, and what to know

Shown by a run that fails:

1. **A callback can panic** (`watcher_panic`).  It looks its watcher up before
   `Delete`, and reaches the select when `done` and `events` are both closed.
   Both cases are ready; a send on a closed channel panics.  The comment says it
   is unblocked.  Everybody else is safe from this (`BlockedAreSafe`,
   `NoNewSelectAfterClose`).
2. **A listing of a directory that is short looks complete** (`dir_listing`).
   `readDirSome` (`cephfs/fscompat.go:233`) returns `io.EOF` whenever its group is
   empty, also when that is due to an error; `readDirAll` takes it for the end.
3. **An object iterator that is sought back hands out empty names**
   (`object_iter`).  The error of the last `Next` is never reset
   (`rados/object_iter.go:66`), and `Value` returns "" while there is one.

Shown by a configuration of one small instance that is not among the runs; each
checks one property, which says what a comment says, and which TLC finds violated
at once (`tlc -config MCWatcherDelete.cfg MCWatcher` for the first):

4. **A repeated `Delete` returns nil with the channels open**
   (`DeletedIsClosed`, `MCWatcherDelete.cfg`) when `rados_unwatch2` failed the
   first time: the map entry is gone and with it the only way to close them.
   (`DeleteEndsLoops` is about a `Delete` whose unwatch succeeded.)
5. **A second `Release` ends an iterator twice** (`FreeIsIdempotent`,
   `MCOperationAgain.cfg`): `ReadOpOmapGetValsByKeysStep.free` does not forget
   the iterator it ends, though `operation.go:79` asks for it;
   `GetOmapStep.free` does.
6. **A step that was not performed can be read** (`OnlyPerformedIsRead`,
   `MCOperationFailed.cfg`). When the operation fails before librados gets to a
   step, by a timeout for one, `update` reads the result the step was made with:
   in memory from `malloc`, or a zero in the Go object. `Operate` does return
   the error of the operation (`NilMeansResults`).
7. **`Shutdown` leaves `connected` set** (`rados/conn.go:77`,
   `ShutdownIsNoticed`, `MCHandlesShutdown.cfg`): later calls pass
   `ensureConnected` and hand a nil cluster to librados.
8. **`CreateMirrorSnapshot` does not ask whether its image is open**
   (`rbd/mirror.go:471`, `ClosedImageIsTold`, `MCHandlesMirror.cfg`), as the
   only method of `Image` that passes the handle.
9. **`parsePathResponse` can return "" and no error**
   (`cephfs/admin/fsadmin.go:89`, `StatusOfPathIsTold`, `MCAdminPath.cfg`): it
   ends the response as it was before `NoStatus` looked at it.

Shown by the models otherwise, or by an exception a property names:

10. **`Ack` can use a destroyed I/O context** although the application deleted all
    its watchers first: it looks the watcher up before (state `ack` of `consumer`,
    then `DestroyIOContext`).
11. **Entries of image watches can stay in the tracker for good**
    (`LeaksOnlyOnMisuse`), for three causes: a failed `UpdateWatch`, a `Close`
    before `Unwatch`, and an `Unwatch` with a handle from before the image was
    opened again, which may be the handle of another `Watch` now and ends that
    one's registration.
12. **`Bytes` can copy from a freed buffer.**  When it is the last use of the step,
    and the operation is gone, the finalizer may free the buffer while `C.GoBytes`
    copies it.  The same goes for `Next` of a `GetOmapStep`.  With `LastUse` =
    `TRUE` TLC finds `NoFault` violated.
13. **`Open` of an open `Image` loses its handle** (`rbd/rbd.go:373`,
    `HandlesAreKept`).  `NewWithLayout` of the striper does not destroy the striper
    it has made when a size is refused (`NewWithLayoutFails`).
14. **Streams of differences keep their handles** after `Close`, and their mount
    after `Release` (`StaleOnlyInStreams`).
15. **`ResizeSubVolume` can panic**: it takes the first element of a list that may
    be empty (`ResizeResponse`), as the only command that can (`PanicsAreKnown`).
16. **Of two `Delete`s the one that returns first need not be the one that unwatches.**
    The second finds the map entry gone and returns nil while the first is between the
    lock and `rados_unwatch2` (`rados/watcher.go:179`).  An application that then
    destroys the I/O context does so under that call
    (`OnlyOvertakenCallsAreLate`; TLC reaches the state).

Beside the models, seen while reading: `CloneSubVolumeSnapshot` sends the group of
the source as `target_group_name` in place of `o.TargetGroup`
(`cephfs/admin/clone.go:46`).

## 7. Plan

In order of importance:

1. `ImageIO`: the offset of `Read`, `Write` and `Seek`, which `Close` leaves as it
   was; `ImageSnapshots`: the two calls of `GetSnapshotNames`, which need not see
   the same list.
2. `Notify`: the replies of the clients that answer a notification and of those
   that time out (`decodeNotifyResponse`).
3. Operations that are performed twice, and the actions without a step.
4. The hand-over of memory between goroutines in `internal/cutil`.

## 8. Not modelled

- **rgw admin API**: every call checks its parameters, signs and sends one HTTP
  request, and decodes the answer.  It keeps no state and starts nothing that goes
  on after it.
- **cgo helpers**: their contract is with the Go runtime (what it may move, what it
  may collect), which has no description to check them against beyond the code
  itself.
- **Small helpers and the source checker**: conversions of addresses, times,
  versions and error numbers; logging; a tool for developers.
- In modelled parts: what a call does to an image, file or object inside the C
  library; the fields of requests and results of admin commands; values of omap
  keys, contents of notifications and of callbacks' data, modes and times of files:
  no property tells them apart.  `Check` of a watcher changes nothing.  Timeouts of
  `WatchWithTimeout` and `Notify` are handled inside librados.
- Several goroutines on one `Image`, `File` or `MountInfo`: the methods take no
  lock, and nothing says they may be shared.
- Build tags: the model has every method of every version of Ceph.
