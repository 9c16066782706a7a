------------------------------- MODULE Watcher -------------------------------
(***************************************************************************)
(* The watch/notify half of package rados (rados/watcher.go): the global   *)
(* map of watchers behind watchersMtx, the calls Watch, Delete, Ack and    *)
(* WatcherFlush made by application goroutines, the callbacks librados     *)
(* runs on threads of its own, and the goroutines that range over the      *)
(* Events() and Errors() channels.                                         *)
(*                                                                         *)
(* Channels are unbuffered Go channels: a send and a receive meet in one   *)
(* step, a select with several ready cases takes any of them, and a send   *)
(* on a closed channel or a second close panics and stops the process.     *)
(***************************************************************************)
CONSTANTS
    W,          \* watchers: WatcherIDs, which librados never gives out twice
    CB,         \* librados threads that run watch callbacks
    App,        \* application goroutines that call Watch, Delete, WatcherFlush
    NoThread,   \* nobody holds the write lock of watchersMtx
    NoWatcher   \* a goroutine or callback is not working on any watcher

ASSUME NoThreadAssumption == NoThread \notin App
ASSUME NoWatcherAssumption == NoWatcher \notin W

VARIABLES
    mtx,        \* holder of the write lock of watchersMtx
    watchers,   \* keys of the global map
    rados,      \* watches registered with librados (external)
    returned,   \* watchers a Watch call has returned to the application
    deleted,    \* watchers for which some Delete call has returned nil
    closed,     \* channels of each watcher that have been closed
    cb,         \* callback threads
    consumer,   \* goroutines ranging over Events() and Errors()
    app,        \* application goroutines
    ioctx,      \* the IOContext of the watchers has not been destroyed
    panic       \* the runtime panic that stopped the process, if any

vars == <<mtx, watchers, rados, returned, deleted, closed, cb, consumer, app,
          ioctx, panic>>

Stream == {"events", "errors"}          \* the channels callbacks send on
Channel == Stream \union {"done"}

Deleting == {"unwatch", "closeDone", "closeEvents", "closeErrors"}

AppIdle == [pc |-> "idle", w |-> NoWatcher]
CBIdle == [pc |-> "idle", w |-> NoWatcher, ch |-> "events"]

AppState == [pc : {"idle", "watch", "flush"}, w : {NoWatcher}]
            \union [pc : Deleting \union {"register"}, w : W]
CBState == {CBIdle}
           \union [pc : {"lookup", "select", "blocked"}, w : W, ch : Stream]
ConsumerState == {"none", "recv", "handle", "ack", "ended"}

Init ==
    /\ mtx = NoThread
    /\ watchers = {} /\ rados = {} /\ returned = {} /\ deleted = {}
    /\ closed = [w \in W |-> {}]
    /\ cb = [c \in CB |-> CBIdle]
    /\ consumer = [w \in W |-> [ch \in Stream |-> "none"]]
    /\ app = [a \in App |-> AppIdle]
    /\ ioctx = TRUE
    /\ panic = "none"

Unlocked == mtx = NoThread
InFlight(c) == cb[c].pc # "idle"

----------------------------------------------------------------------------
(* WatchWithTimeout: the write lock is held from before the C call until   *)
(* the new watcher is in the map.                                          *)

WatchLock(a) ==
    /\ app[a].pc = "idle" /\ ioctx
    /\ Unlocked
    /\ mtx' = a
    /\ app' = [app EXCEPT ![a].pc = "watch"]
    /\ UNCHANGED <<watchers, rados, returned, deleted, closed, cb, consumer,
                   ioctx, panic>>

(* Mutated: the lock is given up before the map knows the new watcher.     *)
RadosWatch3Unlocks(a) ==
    /\ app[a].pc = "watch"
    /\ \E w \in W \ (rados \union returned) :
          /\ rados' = rados \union {w}
          /\ app' = [app EXCEPT ![a] = [pc |-> "register", w |-> w]]
    /\ mtx' = NoThread
    /\ UNCHANGED <<watchers, returned, deleted, closed, cb, consumer, ioctx,
                   panic>>

RadosWatch3(a) ==
    /\ app[a].pc = "watch"
    /\ \E w \in W \ (rados \union returned) :
          /\ rados' = rados \union {w}
          /\ app' = [app EXCEPT ![a] = [pc |-> "register", w |-> w]]
    /\ UNCHANGED <<mtx, watchers, returned, deleted, closed, cb, consumer,
                   ioctx, panic>>

RadosWatch3Fails(a) ==
    /\ app[a].pc = "watch"
    /\ mtx' = NoThread
    /\ app' = [app EXCEPT ![a] = AppIdle]
    /\ UNCHANGED <<watchers, rados, returned, deleted, closed, cb, consumer,
                   ioctx, panic>>

Register(a) ==
    /\ app[a].pc = "register"
    /\ watchers' = watchers \union {app[a].w}
    /\ returned' = returned \union {app[a].w}
    /\ mtx' = NoThread
    /\ app' = [app EXCEPT ![a] = AppIdle]
    /\ UNCHANGED <<rados, deleted, closed, cb, consumer, ioctx, panic>>

----------------------------------------------------------------------------
(* Delete: the map entry goes first, under the lock; the C call and the    *)
(* three closes follow without it.                                         *)

(* Mutated: the map is not asked whether the watcher is still there.       *)
DeleteEntryUnchecked(a, w) ==
    /\ app[a].pc = "idle" /\ w \in returned
    /\ Unlocked
    /\ watchers' = watchers \ {w}
    /\ app' = [app EXCEPT ![a] = [pc |-> "unwatch", w |-> w]]
    /\ UNCHANGED <<mtx, rados, returned, deleted, closed, cb, consumer, ioctx,
                   panic>>

(* Mutated: the entry is left in the map.                                  *)
DeleteEntryKept(a, w) ==
    /\ app[a].pc = "idle" /\ w \in returned
    /\ Unlocked
    /\ w \in watchers
    /\ app' = [app EXCEPT ![a] = [pc |-> "unwatch", w |-> w]]
    /\ UNCHANGED <<mtx, watchers, rados, returned, deleted, closed, cb,
                   consumer, ioctx, panic>>

DeleteEntry(a, w) ==
    /\ app[a].pc = "idle" /\ w \in returned
    /\ Unlocked
    /\ w \in watchers
    /\ watchers' = watchers \ {w}
    /\ app' = [app EXCEPT ![a] = [pc |-> "unwatch", w |-> w]]
    /\ UNCHANGED <<mtx, rados, returned, deleted, closed, cb, consumer, ioctx,
                   panic>>

DeleteGone(a, w) ==
    /\ app[a].pc = "idle" /\ w \in returned
    /\ Unlocked
    /\ w \notin watchers
    /\ deleted' = deleted \union {w}
    /\ UNCHANGED <<mtx, watchers, rados, returned, closed, cb, consumer, app,
                   ioctx, panic>>

RadosUnwatch2(a) ==
    /\ app[a].pc = "unwatch"
    /\ rados' = rados \ {app[a].w}
    /\ app' = [app EXCEPT ![a].pc = "closeDone"]
    /\ UNCHANGED <<mtx, watchers, returned, deleted, closed, cb, consumer,
                   ioctx, panic>>

(* The error is returned at once; whether librados has dropped the watch is *)
(* not known to the caller.                                                 *)
RadosUnwatch2Fails(a) ==
    /\ app[a].pc = "unwatch"
    /\ rados' \in {rados, rados \ {app[a].w}}
    /\ app' = [app EXCEPT ![a] = AppIdle]
    /\ UNCHANGED <<mtx, watchers, returned, deleted, closed, cb, consumer,
                   ioctx, panic>>

(* A close of channel ch of watcher w: a second close panics, as does every *)
(* sender blocked on the channel.                                           *)
Close(w, ch) ==
    /\ closed' = [closed EXCEPT ![w] = @ \union {ch}]
    /\ panic' = IF ch \in closed[w] THEN "close"
                ELSE IF \E c \in CB : /\ cb[c].pc = "blocked"
                                      /\ cb[c].w = w /\ cb[c].ch = ch
                THEN "send" ELSE panic

(* Mutated: w.done is never closed.                                        *)
CloseDoneForgotten(a) ==
    /\ app[a].pc = "closeDone"
    /\ app' = [app EXCEPT ![a].pc = "closeEvents"]
    /\ UNCHANGED <<mtx, watchers, rados, returned, deleted, closed, cb,
                   consumer, ioctx, panic>>

(* close(w.done) releases every callback blocked in a select on w.done.    *)
CloseDone(a) ==
    LET w == app[a].w IN
    /\ app[a].pc = "closeDone"
    /\ Close(w, "done")
    /\ cb' = [c \in CB |-> IF cb[c].pc = "blocked" /\ cb[c].w = w
                           THEN CBIdle ELSE cb[c]]
    /\ app' = [app EXCEPT ![a].pc = "closeEvents"]
    /\ UNCHANGED <<mtx, watchers, rados, returned, deleted, consumer, ioctx>>

(* Mutated: w.events is never closed.                                      *)
CloseEventsForgotten(a) ==
    /\ app[a].pc = "closeEvents"
    /\ app' = [app EXCEPT ![a].pc = "closeErrors"]
    /\ UNCHANGED <<mtx, watchers, rados, returned, deleted, closed, cb,
                   consumer, ioctx, panic>>

CloseEvents(a) ==
    /\ app[a].pc = "closeEvents"
    /\ Close(app[a].w, "events")
    /\ app' = [app EXCEPT ![a].pc = "closeErrors"]
    /\ UNCHANGED <<mtx, watchers, rados, returned, deleted, cb, consumer, ioctx>>

CloseErrors(a) ==
    /\ app[a].pc = "closeErrors"
    /\ Close(app[a].w, "errors")
    /\ deleted' = deleted \union {app[a].w}
    /\ app' = [app EXCEPT ![a] = AppIdle]
    /\ UNCHANGED <<mtx, watchers, rados, returned, cb, consumer, ioctx>>

----------------------------------------------------------------------------
(* WatcherFlush returns once librados has no callback left to run. The     *)
(* IOContext is destroyed by an application that keeps to the rule in the  *)
(* comment of Watch: after every watcher has been deleted.                 *)

FlushCall(a) ==
    /\ app[a].pc = "idle"
    /\ app' = [app EXCEPT ![a].pc = "flush"]
    /\ UNCHANGED <<mtx, watchers, rados, returned, deleted, closed, cb,
                   consumer, ioctx, panic>>

FlushReturn(a) ==
    /\ app[a].pc = "flush"
    /\ \A c \in CB : ~InFlight(c)
    /\ app' = [app EXCEPT ![a] = AppIdle]
    /\ UNCHANGED <<mtx, watchers, rados, returned, deleted, closed, cb,
                   consumer, ioctx, panic>>

DestroyIOContext(a) ==
    /\ app[a].pc = "idle" /\ ioctx
    /\ \A b \in App : app[b].pc \notin {"watch", "register"}
    /\ returned \subseteq deleted
    /\ ioctx' = FALSE
    /\ UNCHANGED <<mtx, watchers, rados, returned, deleted, closed, cb,
                   consumer, app, panic>>

----------------------------------------------------------------------------
(* watchNotifyCb (ch = "events") and watchErrorCb (ch = "errors"): looked  *)
(* up under the read lock, used after it has been released.                *)

RadosCallback(c, w, ch) ==
    /\ ~InFlight(c)
    /\ w \in rados
    /\ cb' = [cb EXCEPT ![c] = [pc |-> "lookup", w |-> w, ch |-> ch]]
    /\ UNCHANGED <<mtx, watchers, rados, returned, deleted, closed, consumer,
                   app, ioctx, panic>>

(* Mutated: the nil pointer of a failed lookup is used.                    *)
CbLookupUnchecked(c) ==
    /\ cb[c].pc = "lookup"
    /\ Unlocked
    /\ cb' = [cb EXCEPT ![c] = [@ EXCEPT !.pc = "select",
                   !.w = IF @ \in watchers THEN @ ELSE NoWatcher]]
    /\ UNCHANGED <<mtx, watchers, rados, returned, deleted, closed, consumer,
                   app, ioctx, panic>>

CbLookup(c) ==
    /\ cb[c].pc = "lookup"
    /\ Unlocked
    /\ cb' = [cb EXCEPT ![c] = IF cb[c].w \in watchers
                               THEN [@ EXCEPT !.pc = "select"] ELSE CBIdle]
    /\ UNCHANGED <<mtx, watchers, rados, returned, deleted, closed, consumer,
                   app, ioctx, panic>>

CbUnblocked(c) ==
    /\ cb[c].pc = "select"
    /\ "done" \in closed[cb[c].w]
    /\ cb' = [cb EXCEPT ![c] = CBIdle]
    /\ UNCHANGED <<mtx, watchers, rados, returned, deleted, closed, consumer,
                   app, ioctx, panic>>

CbSend(c) ==
    LET w == cb[c].w
        ch == cb[c].ch IN
    /\ cb[c].pc \in {"select", "blocked"}
    /\ ch \notin closed[w]
    /\ consumer[w][ch] = "recv"
    /\ consumer' = [consumer EXCEPT ![w][ch] = "handle"]
    /\ cb' = [cb EXCEPT ![c] = CBIdle]
    /\ UNCHANGED <<mtx, watchers, rados, returned, deleted, closed, app, ioctx,
                   panic>>

CbSendOnClosed(c) ==
    /\ cb[c].pc = "select"
    /\ cb[c].ch \in closed[cb[c].w]
    /\ panic' = "send"
    /\ UNCHANGED <<mtx, watchers, rados, returned, deleted, closed, cb,
                   consumer, app, ioctx>>

CbBlock(c) ==
    /\ cb[c].pc = "select"
    /\ closed[cb[c].w] \intersect {"done", cb[c].ch} = {}
    /\ cb' = [cb EXCEPT ![c].pc = "blocked"]
    /\ UNCHANGED <<mtx, watchers, rados, returned, deleted, closed, consumer,
                   app, ioctx, panic>>

----------------------------------------------------------------------------
(* The goroutines of the application that range over the channels, and     *)
(* NotifyEvent.Ack as called from the handler of an event.                 *)

Consume(w, ch, from, to) ==
    /\ consumer[w][ch] = from
    /\ consumer' = [consumer EXCEPT ![w][ch] = to]
    /\ UNCHANGED <<mtx, watchers, rados, returned, deleted, closed, cb, app,
                   ioctx, panic>>

StartConsumer(w, ch) == w \in returned /\ Consume(w, ch, "none", "recv")
RangeEnds(w, ch) == ch \in closed[w] /\ Consume(w, ch, "recv", "ended")
Handled(w, ch) == Consume(w, ch, "handle", "recv")

AckLookup(w) ==
    /\ Unlocked
    /\ Consume(w, "events", "handle",
               IF w \in watchers THEN "ack" ELSE "recv")

RadosNotifyAck(w) == Consume(w, "events", "ack", "recv")

----------------------------------------------------------------------------
AppStep(a) ==
    \/ RadosWatch3(a) \/ RadosWatch3Fails(a) \/ Register(a)
    \/ RadosUnwatch2(a) \/ RadosUnwatch2Fails(a)
    \/ CloseDone(a) \/ CloseEvents(a) \/ CloseErrors(a)
    \/ FlushReturn(a)

AppCall(a) ==
    \/ WatchLock(a) \/ FlushCall(a) \/ DestroyIOContext(a)
    \/ \E w \in W : DeleteEntry(a, w) \/ DeleteGone(a, w)

CbStep(c) ==
    \/ CbLookup(c) \/ CbUnblocked(c) \/ CbSend(c) \/ CbSendOnClosed(c)
    \/ CbBlock(c)

ConsumerStep(w, ch) ==
    \/ RangeEnds(w, ch) \/ Handled(w, ch)
    \/ ch = "events" /\ (AckLookup(w) \/ RadosNotifyAck(w))

Next ==
    /\ panic = "none"
    /\ \/ \E a \in App : AppStep(a) \/ AppCall(a)
       \/ \E c \in CB : \/ CbStep(c)
                        \/ \E w \in W, ch \in Stream : RadosCallback(c, w, ch)
       \/ \E w \in W, ch \in Stream :
             StartConsumer(w, ch) \/ ConsumerStep(w, ch)

Spec == Init /\ [][Next]_vars

(* Goroutines and librados threads that can run do run, a call into        *)
(* librados returns, and a started handler comes back to its range loop.   *)
(* CbSend is strongly fair because a Go channel serves its blocked senders *)
(* first come, first served, and CbLookup because a sync.RWMutex lets the  *)
(* waiting readers in when a writer unlocks. Nothing obliges an application to make calls  *)
(* or librados to have something to report.                                *)
Fairness ==
    /\ \A a \in App : WF_vars(panic = "none" /\ AppStep(a))
    /\ \A c \in CB : /\ WF_vars(panic = "none" /\ CbStep(c))
                     /\ SF_vars(panic = "none" /\ CbLookup(c))
                     /\ SF_vars(panic = "none" /\ CbSend(c))
    /\ \A w \in W, ch \in Stream : WF_vars(panic = "none" /\ ConsumerStep(w, ch))

FairSpec == Spec /\ Fairness

----------------------------------------------------------------------------
(* Safety *)

(* Every variable has its type: a goroutine inside Watch or Delete and a    *)
(* callback past its map lookup hold a watcher, never a nil pointer.        *)
TypeOK ==
    /\ mtx \in App \union {NoThread}
    /\ watchers \subseteq W /\ rados \subseteq W
    /\ returned \subseteq W /\ deleted \subseteq W
    /\ closed \in [W -> SUBSET Channel]
    /\ cb \in [CB -> CBState]
    /\ consumer \in [W -> [Stream -> ConsumerState]]
    /\ app \in [App -> AppState]
    /\ ioctx \in BOOLEAN
    /\ panic \in {"none", "send", "close"}

(* A watcher in the global map is one librados still knows, one Watch has   *)
(* returned, and none of its channels is closed: whoever finds it under the *)
(* read lock found a watcher that was usable at that moment.                *)
RegisteredIsLive ==
    /\ watchers \subseteq rados \intersect returned
    /\ \A w \in watchers : closed[w] = {}

(* Deletes of one watcher by several goroutines, in any order and however   *)
(* often they are repeated, never close a channel twice.                    *)
NoDoubleClose == panic # "close"

(* Delete closes w.done before the channels a callback sends on, so a       *)
(* callback parked in its select is always woken by w.done and never by the *)
(* panic of a send on a closed channel.                                     *)
BlockedIsOpen ==
    \A c \in CB : cb[c].pc = "blocked" => closed[cb[c].w] = {}

(* Once Delete has closed a channel of a watcher no further callback gets   *)
(* as far as the select on that watcher.                                    *)
NoNewSelectAfterClose ==
    [][\A c \in CB : cb[c].pc # "select" /\ cb'[c].pc = "select"
                      => closed[cb'[c].w] = {}]_vars

(* The promise of module WatchService.                                      *)
Life(w) ==
    IF w \notin returned THEN "none"
    ELSE IF w \in watchers THEN "open"
    ELSE IF Stream \subseteq closed[w] THEN "closed" ELSE "deleting"

Note(c) == IF InFlight(c) THEN <<cb[c].w, cb[c].ch>> ELSE NoWatcher

Service == INSTANCE WatchService WITH
    NoNote <- NoWatcher,
    life <- [w \in W |-> Life(w)],
    note <- [c \in CB |-> Note(c)],
    handling <- [w \in W |-> [ch \in Stream |->
                                 consumer[w][ch] \in {"handle", "ack"}]]

(* Every notification is delivered to its watcher's handler unless Delete   *)
(* has been called for the watcher: the write lock Watch holds across the C *)
(* call is what keeps an early callback from finding no entry in the map.   *)
ImplementsService == Service!Spec

----------------------------------------------------------------------------
(* Liveness, under FairSpec *)

(* The one way the code has of stopping the process: a callback that looked *)
(* its watcher up before Delete and chose the send in its select after it.  *)
Stopped ==
    /\ panic = "send"
    /\ \E c \in CB : cb[c].pc = "select" /\ cb[c].ch \in closed[cb[c].w]

(* A Delete whose rados_unwatch2 succeeded goes on to close both streams,   *)
(* and the loops over Events() and Errors() then end.                       *)
DeleteEndsLoops ==
    \A a \in App, w \in W :
        app[a] = [pc |-> "closeDone", w |-> w]
        ~> \/ Stopped
           \/ \A ch \in Stream : /\ ch \in closed[w]
                                /\ consumer[w][ch] \in {"none", "ended"}

(* A callback that is blocked when Delete comes to close the channels       *)
(* returns to librados, whether or not anybody still reads the watcher.     *)
CallbackReturns ==
    \A a \in App, c \in CB, w \in W :
        (app[a] = [pc |-> "closeDone", w |-> w] /\ cb[c].pc = "blocked" /\ cb[c].w = w)
        ~> (Stopped \/ ~InFlight(c))

(* A callback blocked on a channel somebody ranges over gets rid of its     *)
(* notification: two callbacks on one channel cannot starve each other.     *)
BlockedIsServed ==
    \A c \in CB, w \in W, ch \in Stream :
        (cb[c] = [pc |-> "blocked", w |-> w, ch |-> ch] /\ consumer[w][ch] # "none")
        ~> (Stopped \/ ~InFlight(c))

(* WatcherFlush comes back once every watch is gone from librados and every *)
(* watcher is closed: no callback stays behind to keep it waiting.          *)
FlushReturns ==
    \A a \in App :
        (/\ app[a].pc = "flush" /\ rados = {}
         /\ \A w \in returned : "errors" \in closed[w])
        ~> (Stopped \/ app[a].pc # "flush" \/ rados # {})

----------------------------------------------------------------------------
(* What comments of rados/watcher.go say and the code does not do *)

(* "unblock when deleted" (watcher.go:356,372): a callback whose watcher is *)
(* deleted under it leaves its select through w.done.                       *)
UnblockedWhenDeleted == panic # "send"

(* "This closes both the event and error channel" (watcher.go:173): when a  *)
(* Delete has returned nil and none is at work on the watcher, its streams  *)
(* are closed and the loops over them end.  After a rados_unwatch2 that     *)
(* failed the next Delete finds no map entry, and returns nil.              *)
DeletedIsClosed ==
    \A w \in deleted :
        \/ Stream \subseteq closed[w]
        \/ \E a \in App : app[a].pc \in Deleting /\ app[a].w = w
=============================================================================
