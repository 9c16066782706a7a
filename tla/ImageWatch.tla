------------------------------ MODULE ImageWatch ------------------------------
(***************************************************************************)
(* Watches on the metadata of rbd images: the handle of an Image           *)
(* (rbd/rbd.go), UpdateWatch and Unwatch (rbd/watchers.go), and the global *)
(* tracker watchCallbacks through which librbd's threads find the Go       *)
(* callback of a watch (internal/callbacks, here as CallbackMap).          *)
(*                                                                         *)
(* An Image is used by one goroutine, as its methods take no lock; images  *)
(* share the tracker.  librbd is external: rbd_update_unwatch and          *)
(* rbd_close wait for the callbacks of the watches they end.               *)
(***************************************************************************)
EXTENDS Naturals, FiniteSets
CONSTANTS
    Image,      \* Image objects, each with the goroutine that uses it
    CImage,     \* values of rbd_image_t
    Watch,      \* Watch objects; UpdateWatch makes a new one at every call
    Handle,     \* watch handles librbd gives out for one image
    CbThread,   \* librbd threads that run watch callbacks
    IdCount,    \* values of a uintptr
    Nil

ASSUME NilAssumption == Nil \notin Image \union CImage \union Watch \union Handle
ASSUME IdAssumption == IdCount \in Nat \ {0} /\ Nil \notin Nat

(* A process makes fewer watches than there are numbers: with a uintptr the *)
(* counter does not come round.                                            *)
ASSUME WatchAssumption == IsFiniteSet(Watch) /\ Cardinality(Watch) < IdCount

VARIABLES
    cmap, lastID,   \* watchCallbacks
    image,      \* Image.image: the rbd_image_t of an Image, nil when not open
    open,       \* images librbd has open (external)
    reg,        \* update watches registered with librbd (external)
    watch,      \* the fields of the Watch objects
    pc,         \* where the goroutine of each Image is
    cb,         \* callback threads
    called      \* the outcome of the last callback: the Watch it ran for

vars == <<cmap, lastID, image, open, reg, watch, pc, cb, called>>

Tracker == INSTANCE CallbackMap WITH Value <- Watch, None <- Nil

Id == Tracker!Id
NewWatch == [image |-> Nil, handle |-> Nil, cbIndex |-> Nil]
Registration == [c : CImage, handle : Handle, arg : Id, watch : Watch]
Idle == [at |-> "idle", w |-> Nil]
CbIdle == [arg |-> Nil, watch |-> Nil]

Init ==
    /\ Tracker!Init
    /\ image = [i \in Image |-> Nil]
    /\ open = {} /\ reg = {}
    /\ watch = [w \in Watch |-> NewWatch]
    /\ pc = [i \in Image |-> Idle]
    /\ cb = [t \in CbThread |-> CbIdle]
    /\ called = Nil

(* No callback of registration r is between librbd and the Go callback.    *)
Quiet(r) == \A t \in CbThread : cb[t] # [arg |-> r.arg, watch |-> r.watch]

----------------------------------------------------------------------------
(* Open and Close.  Open does not ask whether the Image is open already,    *)
(* and would overwrite its handle; the application is taken not to do that. *)

Open(i) ==
    /\ pc[i] = Idle
    /\ image[i] = Nil
    /\ \E c \in CImage \ open :
          /\ open' = open \union {c}
          /\ image' = [image EXCEPT ![i] = c]
    /\ UNCHANGED <<cmap, lastID, reg, watch, pc, cb, called>>

(* rbd_close ends the watches of the image; their entries in the tracker   *)
(* are left alone.  A failed rbd_close changes nothing.                    *)
Close(i) ==
    LET ended == {r \in reg : r.c = image[i]} IN
    /\ pc[i] = Idle /\ image[i] # Nil
    /\ \A r \in ended : Quiet(r)
    /\ open' = open \ {image[i]}
    /\ reg' = reg \ ended
    /\ image' = [image EXCEPT ![i] = Nil]
    /\ UNCHANGED <<cmap, lastID, watch, pc, cb, called>>

----------------------------------------------------------------------------
(* UpdateWatch: the entry is made before librbd can call back.             *)

(* Mutated: the Image is not asked whether it is open.                     *)
UpdateWatchUnchecked(i, w) ==
    /\ pc[i] = Idle
    /\ watch[w] = NewWatch
    /\ \E n \in Id :
          /\ Tracker!Add(n, w)
          /\ watch' = [watch EXCEPT ![w] = [image |-> i, handle |-> Nil, cbIndex |-> n]]
    /\ pc' = [pc EXCEPT ![i] = [at |-> "watch", w |-> w]]
    /\ UNCHANGED <<image, open, reg, cb, called>>

UpdateWatch(i, w) ==
    /\ pc[i] = Idle /\ image[i] # Nil
    /\ watch[w] = NewWatch
    /\ \E n \in Id :
          /\ Tracker!Add(n, w)
          /\ watch' = [watch EXCEPT ![w] = [image |-> i, handle |-> Nil, cbIndex |-> n]]
    /\ pc' = [pc EXCEPT ![i] = [at |-> "watch", w |-> w]]
    /\ UNCHANGED <<image, open, reg, cb, called>>

RbdUpdateWatch(i) ==
    LET w == pc[i].w IN
    /\ pc[i].at = "watch"
    /\ \E h \in Handle :
          /\ \A r \in reg : r.c = image[i] => r.handle # h
          /\ reg' = reg \union {[c |-> image[i], handle |-> h,
                                 arg |-> watch[w].cbIndex, watch |-> w]}
          /\ watch' = [watch EXCEPT ![w].handle = h]
    /\ pc' = [pc EXCEPT ![i] = Idle]
    /\ UNCHANGED <<cmap, lastID, image, open, cb, called>>

(* The error is returned without taking the entry out of the tracker; the  *)
(* caller gets no Watch to unwatch.                                        *)
RbdUpdateWatchFails(i) ==
    /\ pc[i].at = "watch"
    /\ pc' = [pc EXCEPT ![i] = Idle]
    /\ UNCHANGED <<cmap, lastID, image, open, reg, watch, cb, called>>

----------------------------------------------------------------------------
(* Unwatch: with the present handle of the Image, whichever it is; the     *)
(* entry goes after the C call, whatever that has returned.                *)

(* Mutated: the entry goes before the C call.                              *)
UnwatchRemovesFirst(i, w) ==
    /\ pc[i] = Idle
    /\ watch[w].image = i /\ watch[w].handle # Nil
    /\ image[i] # Nil
    /\ Tracker!Remove(watch[w].cbIndex)
    /\ pc' = [pc EXCEPT ![i] = [at |-> "unwatch", w |-> w]]
    /\ UNCHANGED <<image, open, reg, watch, cb, called>>

(* The call itself: an Image that is not open refuses it.                  *)
Unwatch(i, w) ==
    /\ pc[i] = Idle
    /\ watch[w].image = i /\ watch[w].handle # Nil
    /\ image[i] # Nil
    /\ pc' = [pc EXCEPT ![i] = [at |-> "unwatch", w |-> w]]
    /\ UNCHANGED <<cmap, lastID, image, open, reg, watch, cb, called>>

(* librbd ends the registration with this handle on the image, if any.     *)
RbdUpdateUnwatch(i) ==
    LET ended == {r \in reg : /\ r.c = image[i]
                              /\ r.handle = watch[pc[i].w].handle} IN
    /\ pc[i].at = "unwatch"
    /\ \A r \in ended : Quiet(r)
    /\ reg' = reg \ ended
    /\ pc' = [pc EXCEPT ![i].at = "remove"]
    /\ UNCHANGED <<cmap, lastID, image, open, watch, cb, called>>

(* Mutated: a failed C call ends Unwatch with its entry still there.        *)
RemoveCallbackUnlessFailed(i) ==
    /\ pc[i].at = "remove"
    /\ \/ Tracker!Remove(watch[pc[i].w].cbIndex)
       \/ UNCHANGED <<cmap, lastID>>
    /\ pc' = [pc EXCEPT ![i] = Idle]
    /\ UNCHANGED <<image, open, reg, watch, cb, called>>

RemoveCallback(i) ==
    /\ pc[i].at = "remove"
    /\ Tracker!Remove(watch[pc[i].w].cbIndex)
    /\ pc' = [pc EXCEPT ![i] = Idle]
    /\ UNCHANGED <<image, open, reg, watch, cb, called>>

----------------------------------------------------------------------------
(* librbd runs the callback of a registration with the number it was given; *)
(* imageWatchCallback looks the number up and calls what it finds.  A nil   *)
(* fails the type assertion there.                                          *)

RbdNotify(t) ==
    /\ cb[t] = CbIdle
    /\ \E r \in reg : cb' = [cb EXCEPT ![t] = [arg |-> r.arg, watch |-> r.watch]]
    /\ called' = Nil
    /\ UNCHANGED <<cmap, lastID, image, open, reg, watch, pc>>

ImageWatchCallback(t) ==
    /\ cb[t] # CbIdle
    /\ called' = [by |-> cb[t].watch, got |-> Tracker!Lookup(cb[t].arg)]
    /\ cb' = [cb EXCEPT ![t] = CbIdle]
    /\ UNCHANGED <<cmap, lastID, image, open, reg, watch, pc>>

Next ==
    \/ \E i \in Image :
          \/ Open(i) \/ Close(i)
          \/ RbdUpdateWatch(i) \/ RbdUpdateWatchFails(i)
          \/ RbdUpdateUnwatch(i) \/ RemoveCallback(i)
          \/ \E w \in Watch : UpdateWatch(i, w) \/ Unwatch(i, w)
    \/ \E t \in CbThread : RbdNotify(t) \/ ImageWatchCallback(t)

Spec == Init /\ [][Next]_vars

----------------------------------------------------------------------------
TypeOK ==
    /\ cmap \in [Id -> Watch \union {Nil}] /\ lastID \in Id
    /\ image \in [Image -> CImage \union {Nil}]
    /\ open \subseteq CImage
    /\ reg \subseteq Registration
    /\ watch \in [Watch -> {NewWatch} \union
                           [image : Image, handle : Handle \union {Nil}, cbIndex : Id]]
    /\ pc \in [Image -> {Idle} \union [at : {"watch", "unwatch", "remove"}, w : Watch]]
    /\ cb \in [CbThread -> {CbIdle} \union [arg : Id, watch : Watch]]
    /\ called \in {Nil} \union [by : Watch, got : Watch \union {Nil}]

(* Every watch librbd may call back for has its own entry in the tracker:   *)
(* its number is neither missing nor another watch's, whatever has been     *)
(* unwatched twice or after its image was closed and opened again, or has   *)
(* failed, as long as the counter has not been around.                      *)
RegisteredHasEntry == \A r \in reg : cmap[r.arg] = r.watch

(* imageWatchCallback calls the Go function of the watch librbd ran it for, *)
(* and its type assertion never meets a nil.                                *)
CallbackFindsItsWatch == called # Nil => called.got = called.by

(* Entries of the tracker that nothing will remove: their watch is neither  *)
(* registered nor in the hands of an UpdateWatch or Unwatch.                *)
Leaked == {n \in Id : /\ cmap[n] # Nil
                      /\ \A r \in reg : r.watch # cmap[n]
                      /\ \A i \in Image : pc[i].w # cmap[n]}

(* "watchCallbacks tracks the active callbacks for rbd watches"             *)
(* (rbd/watchers.go:72) holds but for three causes: rbd_update_watch fails, *)
(* the image is closed before Unwatch, or Unwatch with a handle from before *)
(* the image was reopened ends the registration of another Watch.  No       *)
(* Unwatch that is called in time leaves its own entry behind, not even one *)
(* whose C call fails.                                                      *)
LeaksOnlyOnMisuse ==
    [][\A n \in Leaked' \ Leaked : \E i \in Image :
          \/ pc[i].at = "watch"
          \/ image[i] # Nil /\ image'[i] = Nil
          \/ pc[i].at = "unwatch" /\ pc[i].w # cmap[n]]_vars
=============================================================================
