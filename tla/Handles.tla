------------------------------- MODULE Handles -------------------------------
(***************************************************************************)
(* The life of the C handles behind the Go objects of packages rados,      *)
(* striper and rbd: who holds which handle, which calls pass it, who frees *)
(* it, and what the garbage collector may do to it.                        *)
(*                                                                         *)
(* A program uses the objects in any order, also after it has closed them, *)
(* and forgets them when it likes.  An object is taken to stay reachable   *)
(* during a call on it, so that a call is one step.  A handle is never     *)
(* given out again; a call that passes one which is not open is recorded,  *)
(* and taken to return an error.                                           *)
(***************************************************************************)
EXTENDS HandleCalls, FiniteSets
CONSTANTS
    Obj,        \* places for Go objects
    Res,        \* C handles
    Nil

ASSUME NilAssumption == Nil \notin Obj \union Res

VARIABLES
    obj,        \* the objects: class, object pointed to, handle, and
                \* whether a Conn is connected or an Image has a name
    held,       \* objects the program refers to
    res,        \* C handles (external)
    of,         \* the cluster handle a C handle belongs to (external)
    last        \* the handles the last step has passed to C

vars == <<obj, held, res, of, last>>

Free == [class |-> "none", from |-> Nil, h |-> Nil, ready |-> FALSE]

Status(h) == IF h = Nil THEN "nil" ELSE res[h]
Passing(objs) == {<<obj[x].class, Status(obj[x].h)>> : x \in objs}
Is(o, class) == o \in held /\ obj[o].class = class

Init ==
    /\ obj = [o \in Obj |-> Free] /\ held = {}
    /\ res = [r \in Res |-> "unused"] /\ of = [r \in Res |-> Nil]
    /\ last = {}

(* Mutated: an IOContext has no field conn.                                *)
HoldsNoConn(o) ==
    IF obj[o].class \in {"striper", "image"} THEN {obj[o].from} ELSE {}

(* The object that object o keeps reachable.  An Iter keeps none.          *)
Holds(o) ==
    IF obj[o].class \in {"ioctx", "striper", "image"} THEN {obj[o].from} ELSE {}

(* A new object o with a new handle r in the cluster of handle c.          *)
Make(o, class, from, r, c, ready) ==
    /\ obj[o] = Free /\ res[r] = "unused"
    /\ obj' = [obj EXCEPT ![o] = [class |-> class, from |-> from, h |-> r, ready |-> ready]]
    /\ held' = held \union {o}
    /\ res' = [res EXCEPT ![r] = "open"]
    /\ of' = [of EXCEPT ![r] = c]

----------------------------------------------------------------------------
(* Connections.                                                            *)

NewConn(o, r) == Make(o, "conn", Nil, r, Nil, FALSE) /\ last' = {}

Connect(o) ==
    /\ Is(o, "conn")
    /\ last' = Passing({o})
    /\ Status(obj[o].h) = "open"
    /\ obj' = [obj EXCEPT ![o].ready = TRUE]
    /\ UNCHANGED <<held, res, of>>

(* Mutated: the handle is kept.                                            *)
FreeConnKeeps(o, how) ==
    /\ last' = Passing({o})
    /\ res' = [res EXCEPT ![obj[o].h] = how]
    /\ obj' = obj

(* freeConn, of a Conn that has its handle yet.                            *)
FreeConn(o, how) ==
    /\ last' = Passing({o})
    /\ res' = [res EXCEPT ![obj[o].h] = how]
    /\ obj' = [obj EXCEPT ![o].h = Nil]

(* connected stays set, so that a second Shutdown gets as far as freeConn.  *)
Shutdown(o) ==
    /\ Is(o, "conn") /\ obj[o].ready
    /\ obj[o].h # Nil
    /\ FreeConn(o, "closed")
    /\ UNCHANGED <<held, of>>

----------------------------------------------------------------------------
(* What is got from a connection.                                          *)

OpenIOContext(o, c, r) ==
    /\ Is(c, "conn") /\ Status(obj[c].h) = "open"
    /\ Make(o, "ioctx", c, r, obj[c].h, FALSE)
    /\ last' = Passing({c})

(* IOContext.Iter                                                          *)
NewIter(o, x, r) ==
    /\ Is(x, "ioctx") /\ Status(obj[x].h) = "open"
    /\ Make(o, "iter", Nil, r, of[obj[x].h], FALSE)
    /\ last' = Passing({x})

NewStriper(o, x, r) ==
    /\ Is(x, "ioctx") /\ Status(obj[x].h) = "open"
    /\ Make(o, "striper", x, r, of[obj[x].h], FALSE)
    /\ last' = Passing({x})

(* NewWithLayout returns no Striper when librados refuses a size, and does  *)
(* not destroy the one it has made.                                        *)
NewWithLayoutFails(x, r) ==
    /\ Is(x, "ioctx") /\ Status(obj[x].h) = "open"
    /\ res[r] = "unused"
    /\ res' = [res EXCEPT ![r] = "open"]
    /\ of' = [of EXCEPT ![r] = of[obj[x].h]]
    /\ last' = Passing({x}) \union {<<"striper", "open">>}
    /\ UNCHANGED <<obj, held>>

NewRbdImageOptions(o, r) == Make(o, "options", Nil, r, Nil, FALSE) /\ last' = {}

(* Destroy of IOContext, Striper and ImageOptions, Close of Iter: none of   *)
(* them forgets its handle.                                                *)
Destroy(o) ==
    /\ o \in held /\ obj[o].class \in {"ioctx", "striper", "options", "iter"}
    /\ last' = Passing({o})
    /\ res' = [res EXCEPT ![obj[o].h] = "closed"]
    /\ UNCHANGED <<obj, held, of>>

----------------------------------------------------------------------------
(* Images.                                                                 *)

(* The reference to an image that is not open, of an IOContext or nil;     *)
(* Create and Clone return such an Image too.                              *)
GetImage(o, x) ==
    /\ obj[o] = Free
    /\ x # Nil => Is(x, "ioctx")
    /\ obj' = [obj EXCEPT ![o] = [class |-> "image", from |-> x, h |-> Nil, ready |-> TRUE]]
    /\ held' = held \union {o}
    /\ last' = {}
    /\ UNCHANGED <<res, of>>

(* Mutated: the Image does not get the IOContext.                          *)
OpenImageBare(o, x, r) ==
    /\ Is(x, "ioctx") /\ Status(obj[x].h) = "open"
    /\ Make(o, "image", Nil, r, of[obj[x].h], TRUE)
    /\ last' = Passing({x})

OpenImage(o, x, r) ==
    /\ Is(x, "ioctx") /\ Status(obj[x].h) = "open"
    /\ Make(o, "image", x, r, of[obj[x].h], TRUE)
    /\ last' = Passing({x})

(* Opened by its ID an Image has no name.                                  *)
OpenImageById(o, x, r) ==
    /\ Is(x, "ioctx") /\ Status(obj[x].h) = "open"
    /\ Make(o, "image", x, r, of[obj[x].h], FALSE)
    /\ last' = Passing({x})

(* Open does not ask whether the Image is open already.                    *)
Open(o, r) ==
    LET x == obj[o].from IN
    /\ Is(o, "image") /\ obj[o].ready /\ x # Nil
    /\ Status(obj[x].h) = "open" /\ res[r] = "unused"
    /\ obj' = [obj EXCEPT ![o].h = r]
    /\ res' = [res EXCEPT ![r] = "open"]
    /\ of' = [of EXCEPT ![r] = of[obj[x].h]]
    /\ last' = Passing({x})
    /\ UNCHANGED held

(* Mutated: the handle is forgotten before rbd_close has succeeded.        *)
CloseForgets(o) ==
    /\ Is(o, "image") /\ obj[o].h # Nil
    /\ last' = Passing({o})
    /\ obj' = [obj EXCEPT ![o].h = Nil]
    /\ \/ res' = [res EXCEPT ![obj[o].h] = "closed"]
       \/ res' = res
    /\ UNCHANGED <<held, of>>

(* A failed rbd_close is taken to leave the image open, as the code does   *)
(* by keeping its handle.                                                  *)
Close(o) ==
    /\ Is(o, "image") /\ obj[o].h # Nil
    /\ last' = Passing({o})
    /\ \/ /\ res' = [res EXCEPT ![obj[o].h] = "closed"]
          /\ obj' = [obj EXCEPT ![o].h = Nil]
       \/ UNCHANGED <<obj, res>>
    /\ UNCHANGED <<held, of>>

(* The only method of Image that asks nothing.                             *)
CreateMirrorSnapshot(o) ==
    /\ Is(o, "image")
    /\ last' = Passing({o})
    /\ UNCHANGED <<obj, held, res, of>>

----------------------------------------------------------------------------
(* All the other methods: objects of the right classes are asked one after *)
(* the other, and the handles passed when none refuses.                    *)

Answers(o, use) ==
    /\ "ready" \in use.asks => obj[o].ready
    /\ "handle" \in use.asks => obj[o].h # Nil
    /\ "noHandle" \in use.asks => obj[o].h = Nil
    /\ ("from" \in use.asks \/ use.passes # "own") => obj[o].from # Nil

Passed(o, use) == IF use.passes = "own" THEN o ELSE obj[o].from

Call(m) == \E arg \in [DOMAIN m -> held] :
    /\ \A k \in DOMAIN m : Is(arg[k], m[k].class) /\ Answers(arg[k], m[k])
    /\ last' = Passing({Passed(arg[k], m[k]) : k \in DOMAIN m})
    /\ UNCHANGED <<obj, held, res, of>>

----------------------------------------------------------------------------
(* The program forgets an object; the collector takes one that nobody      *)
(* refers to and runs the finalizer of a Conn.  Whoever held it has gone   *)
(* before.                                                                 *)

Forget(o) ==
    /\ o \in held
    /\ held' = held \ {o} /\ last' = {}
    /\ UNCHANGED <<obj, res, of>>

Collect(o) ==
    /\ obj[o].class # "none" /\ o \notin held
    /\ \A p \in Obj : o \notin Holds(p)
    /\ obj' = [obj EXCEPT ![o] = Free]
    /\ IF obj[o].class = "conn" /\ obj[o].h # Nil
       THEN /\ last' = Passing({o})
            /\ res' = [res EXCEPT ![obj[o].h] = "collected"]
       ELSE last' = {} /\ res' = res
    /\ UNCHANGED <<held, of>>

Next ==
    \/ \E o \in Obj :
          \/ Connect(o) \/ Shutdown(o) \/ Destroy(o) \/ Close(o)
          \/ CreateMirrorSnapshot(o) \/ Forget(o) \/ Collect(o)
          \/ \E r \in Res : NewConn(o, r) \/ NewRbdImageOptions(o, r)
                            \/ Open(o, r) \/ NewWithLayoutFails(o, r)
          \/ \E x \in held \union {Nil} : GetImage(o, x)
          \/ \E x \in held, r \in Res :
                \/ OpenIOContext(o, x, r) \/ NewIter(o, x, r) \/ NewStriper(o, x, r)
                \/ OpenImage(o, x, r) \/ OpenImageById(o, x, r)
    \/ \E m \in Methods : Call(m)

Spec == Init /\ [][Next]_vars

----------------------------------------------------------------------------
Known == {"open", "closed", "collected"}

TypeOK ==
    /\ obj \in [Obj -> [class : Class \union {"none"}, from : Obj \union {Nil},
                        h : Res \union {Nil}, ready : BOOLEAN]]
    /\ held \subseteq {o \in Obj : obj[o].class # "none"}
    /\ res \in [Res -> {"unused"} \union Known]
    /\ of \in [Res -> Res \union {Nil}]
    /\ last \subseteq Class \X ({"nil"} \union Known)
    /\ \A o \in Obj :
          /\ obj[o].h # Nil => res[obj[o].h] # "unused"
          /\ obj[o].class \in {"ioctx", "striper"} => obj[o].from # Nil
          /\ obj[o].class \in {"none", "conn", "iter", "options"} => obj[o].from = Nil
          /\ obj[o].class = "image" /\ obj[o].h # Nil => obj[o].from # Nil

(* No method, finalizer or repeated Shutdown or Close passes the handle of  *)
(* a Conn or an Image that has been freed, in whatever order a program     *)
(* calls them and however Close fails.  (IOContext, Iter, Striper and      *)
(* ImageOptions keep theirs, and promise nothing.)                         *)
ClosedStaysAway ==
    \A class \in {"conn", "image"}, was \in {"closed", "collected"} :
        <<class, was>> \notin last

(* The collector never shuts a cluster down under an IOContext, a Striper   *)
(* or an open Image that exists yet: "so that Go's GC doesn't trigger the  *)
(* Conn's finalizer before this IOContext is destroyed" (rados/ioctx.go).   *)
(* An Iter keeps nothing and is not protected.                             *)
FinalizerSparesUsers ==
    \A o \in Obj :
        obj[o].class \in {"ioctx", "striper", "image"} /\ obj[o].h # Nil
            => Status(of[obj[o].h]) # "collected"

(* A nil handle reaches C only as that of a Conn that was connected and    *)
(* shut down, which ensureConnected does not notice, or through            *)
(* CreateMirrorSnapshot.                                                   *)
NilIsCaught == [][
    \A class \in Class : <<class, "nil">> \in last' =>
        \/ class = "conn" /\ \E o \in Obj : Is(o, "conn") /\ obj[o].ready /\ obj[o].h = Nil
        \/ class = "image" /\ \E o \in Obj : CreateMirrorSnapshot(o) ]_vars

(* An object gives up an open handle only for another one, when an Image is *)
(* opened that is open, or with itself, when it is collected; a Conn not   *)
(* even then.  A failed Close can be repeated.                             *)
HandlesAreKept == [][
    \A o \in Obj :
        obj[o].h # Nil /\ Status(obj[o].h) = "open"
        /\ obj'[o].h # obj[o].h /\ res'[obj[o].h] = "open"
            => \/ obj[o].class = "image" /\ obj'[o].h # Nil
               \/ obj[o].class # "conn" /\ obj'[o] = Free ]_vars

----------------------------------------------------------------------------
(* What comments of packages rados and rbd say and the code does not do    *)

(* "ErrNotConnected is returned when functions are called without a RADOS   *)
(* connection" (rados/errors.go:17): a method that asks ensureConnected     *)
(* never gets past it with a Conn that has been shut down.                  *)
ShutdownIsNoticed == [][
    \A m \in Methods : Connected \in Range(m) /\ Call(m)
        => <<"conn", "nil">> \notin last' ]_vars

(* "ErrImageNotOpen may be returned if an api call requires an open image   *)
(* handle and one is not provided" (rbd/errors.go:47): librbd never gets    *)
(* the handle of an Image that is not open.                                 *)
ClosedImageIsTold == <<"image", "nil">> \notin last
=============================================================================
