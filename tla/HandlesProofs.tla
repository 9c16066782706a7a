---------------------------- MODULE HandlesProofs ----------------------------
(***************************************************************************)
(* Safety of Handles for any number of objects and handles.                *)
(***************************************************************************)
EXTENDS Handles, TLAPS

(* The types of all but last.                                              *)
Typed ==
    /\ obj \in [Obj -> [class : Class \union {"none"}, from : Obj \union {Nil},
                        h : Res \union {Nil}, ready : BOOLEAN]]
    /\ held \subseteq {o \in Obj : obj[o].class # "none"}
    /\ res \in [Res -> {"unused"} \union Known]
    /\ of \in [Res -> Res \union {Nil}]
    /\ \A o \in Obj :
          /\ obj[o].h # Nil => res[obj[o].h] # "unused"
          /\ obj[o].class \in {"ioctx", "striper"} => obj[o].from # Nil
          /\ obj[o].class \in {"none", "conn", "iter", "options"} => obj[o].from = Nil

(* A Conn or an Image has no handle that is not open.                      *)
OwnOpen ==
    \A o \in Obj :
        obj[o].class \in {"conn", "image"} /\ obj[o].h # Nil => res[obj[o].h] = "open"

(* No two objects have one handle.                                         *)
OneOwner ==
    \A o, p \in Obj : obj[o].h # Nil /\ obj[o].h = obj[p].h => o = p

(* The Conn of an IOContext exists, with the cluster handle the IOContext   *)
(* belongs to until Shutdown closes that.                                  *)
FromConn ==
    \A o \in Obj : obj[o].class = "ioctx" =>
        /\ obj[o].h # Nil /\ of[obj[o].h] # Nil
        /\ obj[o].from \in Obj /\ obj[obj[o].from].class = "conn"
        /\ \/ obj[obj[o].from].h = of[obj[o].h]
           \/ res[of[obj[o].h]] = "closed"

(* The IOContext of a Striper or an open Image exists, in the same cluster. *)
FromIoctx ==
    \A o \in Obj : obj[o].class \in {"striper", "image"} =>
        /\ obj[o].from # Nil => obj[obj[o].from].class = "ioctx"
        /\ obj[o].h # Nil => /\ obj[o].from # Nil
                             /\ of[obj[o].h] = of[obj[obj[o].from].h]

IInv == Typed /\ OwnOpen /\ OneOwner /\ FromConn /\ FromIoctx

(* What objects that exist pass is typed, and what a Conn or an Image      *)
(* passes is open or nil.                                                  *)
LastOK(passed) ==
    /\ passed \subseteq Class \X ({"nil"} \union Known)
    /\ \A class \in {"conn", "image"}, was \in {"closed", "collected"} :
          <<class, was>> \notin passed

(* What any object passes satisfies LastOK.                                *)
LEMMA PassingOK ==
    ASSUME IInv, NEW objs \in SUBSET Obj, \A x \in objs : obj[x].class # "none"
    PROVE  LastOK(Passing(objs))
<1>1. ASSUME NEW x \in objs
      PROVE  /\ obj[x].class \in Class
             /\ Status(obj[x].h) \in {"nil"} \union Known
             /\ obj[x].class \in {"conn", "image"} => Status(obj[x].h) \in {"nil", "open"}
  BY NilAssumption DEF IInv, Typed, OwnOpen, Status, Known
<1>. QED
  BY <1>1 DEF Passing, LastOK, Known

----------------------------------------------------------------------------
(* The invariant holds at the start.                                       *)
LEMMA InitIInv == Init => IInv /\ LastOK(last)
BY DEF Init, IInv, Typed, OwnOpen, OneOwner, FromConn, FromIoctx, Free, Known, LastOK

(* A step that only changes what is held and passed.                       *)
LEMMA SameObjects ==
    ASSUME IInv, UNCHANGED <<obj, res, of>>, held' \subseteq held
    PROVE  IInv'
BY DEF IInv, Typed, OwnOpen, OneOwner, FromConn, FromIoctx

(* A new object of the right kind.                                         *)
LEMMA MakeKeeps ==
    ASSUME IInv, NEW o \in Obj, NEW class \in Class, NEW from \in Obj \union {Nil},
           NEW r \in Res, NEW c \in Res \union {Nil}, NEW ready \in BOOLEAN,
           Make(o, class, from, r, c, ready),
           class = "ioctx" => from # Nil /\ obj[from].class = "conn" /\ c # Nil
                              /\ c = obj[from].h,
           class \in {"striper", "image"} =>
                from # Nil /\ obj[from].class = "ioctx" /\ c = of[obj[from].h],
           class \in {"conn", "iter", "options"} => from = Nil
    PROVE  IInv'
<1>1. /\ obj[o] = Free /\ res[r] = "unused"
      /\ obj' = [obj EXCEPT ![o] = [class |-> class, from |-> from, h |-> r, ready |-> ready]]
      /\ held' = held \union {o}
      /\ res' = [res EXCEPT ![r] = "open"]
      /\ of' = [of EXCEPT ![r] = c]
  BY DEF Make
<1>2. \A p \in Obj : obj[p].h # r /\ (p # o => obj'[p] = obj[p])
  BY <1>1, NilAssumption DEF IInv, Typed
<1>3. obj'[o] = [class |-> class, from |-> from, h |-> r, ready |-> ready]
  BY <1>1 DEF IInv, Typed
<1>4. Typed'
  <2>1. class # "none"
    BY DEF Class
  <2>2. obj' \in [Obj -> [class : Class \union {"none"}, from : Obj \union {Nil},
                          h : Res \union {Nil}, ready : BOOLEAN]]
    BY <1>1 DEF IInv, Typed
  <2>3. held' \subseteq {p \in Obj : obj'[p].class # "none"}
    BY <1>1, <1>2, <1>3, <2>1 DEF IInv, Typed
  <2>4. res' \in [Res -> {"unused"} \union Known] /\ of' \in [Res -> Res \union {Nil}]
    BY <1>1 DEF IInv, Typed, Known
  <2>5. \A p \in Obj : /\ obj'[p].h # Nil => res'[obj'[p].h] # "unused"
                       /\ obj'[p].class \in {"ioctx", "striper"} => obj'[p].from # Nil
                       /\ obj'[p].class \in {"none", "conn", "iter", "options"} => obj'[p].from = Nil
    BY <1>1, <1>2, <1>3, <2>1, NilAssumption DEF IInv, Typed
  <2>. QED  BY <2>2, <2>3, <2>4, <2>5 DEF Typed
<1>5. OwnOpen' /\ OneOwner'
  BY <1>1, <1>2, <1>3, NilAssumption DEF IInv, Typed, OwnOpen, OneOwner
<1>6. \A p \in Obj : p # o => obj[p].from # o \/ obj[p].class \notin {"ioctx", "striper", "image"}
  BY <1>1, NilAssumption DEF IInv, FromConn, FromIoctx, Free, Typed
<1>7. \A q \in Obj : obj[q].class = "ioctx" => of[obj[q].h] # r /\ obj[q].h \in Res
  BY <1>1, <1>2 DEF IInv, Typed, FromConn
<1>8. FromConn'
  <2>. SUFFICES ASSUME NEW p \in Obj, obj'[p].class = "ioctx"
                PROVE  /\ obj'[p].h # Nil /\ of'[obj'[p].h] # Nil
                       /\ obj'[p].from \in Obj /\ obj'[obj'[p].from].class = "conn"
                       /\ \/ obj'[obj'[p].from].h = of'[obj'[p].h]
                          \/ res'[of'[obj'[p].h]] = "closed"
    BY DEF FromConn
  <2>1. CASE p = o
    <3>1. from \in Obj /\ from # o
      BY <2>1, <1>1, <1>3 DEF Free
    <3>. QED  BY <2>1, <3>1, <1>1, <1>2, <1>3, NilAssumption DEF IInv, Typed
  <2>2. CASE p # o
    BY <2>2, <1>1, <1>2, <1>6, <1>7, NilAssumption DEF IInv, Typed, FromConn
  <2>. QED  BY <2>1, <2>2
<1>9. FromIoctx'
  <2>. SUFFICES ASSUME NEW p \in Obj, obj'[p].class \in {"striper", "image"}
                PROVE  /\ obj'[p].from # Nil => obj'[obj'[p].from].class = "ioctx"
                       /\ obj'[p].h # Nil =>
                             /\ obj'[p].from # Nil
                             /\ of'[obj'[p].h] = of'[obj'[obj'[p].from].h]
    BY DEF FromIoctx
  <2>1. CASE p = o
    <3>1. from \in Obj /\ from # o
      BY <2>1, <1>1, <1>3 DEF Free
    <3>. QED  BY <2>1, <3>1, <1>1, <1>2, <1>3, <1>7, NilAssumption DEF IInv, Typed
  <2>2. CASE p # o
    <3>1. obj'[p] = obj[p]
      BY <2>2, <1>2
    <3>2. obj[p].from # Nil => obj[p].from \in Obj /\ obj[p].from # o
      BY <3>1, <2>2, <1>6 DEF IInv, Typed
    <3>. QED
      BY <3>1, <3>2, <1>1, <1>2, <1>7, NilAssumption DEF IInv, Typed, FromIoctx
  <2>. QED  BY <2>1, <2>2
<1>. QED  BY <1>4, <1>5, <1>8, <1>9 DEF IInv

----------------------------------------------------------------------------
(* Every step keeps the invariant: one step of the proof per action.       *)
LEMMA NextIInv == IInv /\ [Next]_vars => IInv'
<1>. SUFFICES ASSUME IInv, [Next]_vars PROVE IInv'
  OBVIOUS
<1>1. ASSUME NEW o \in Obj, NEW r \in Res, NewConn(o, r)
      PROVE  IInv'
  BY <1>1, MakeKeeps, Zenon DEF NewConn, Class
<1>2. ASSUME NEW o \in Obj, NEW r \in Res, NewRbdImageOptions(o, r)
      PROVE  IInv'
  BY <1>2, MakeKeeps DEF NewRbdImageOptions, Class
<1>3. ASSUME NEW o \in Obj, NEW x \in held, NEW r \in Res, OpenIOContext(o, x, r)
      PROVE  IInv'
  <2>1. /\ x \in Obj /\ obj[x].class = "conn" /\ obj[x].h \in Res /\ x # Nil /\ obj[x].h # Nil
        /\ Make(o, "ioctx", x, r, obj[x].h, FALSE)
    BY <1>3, NilAssumption DEF OpenIOContext, Is, Status, IInv, Typed
  <2>. QED  BY <2>1, MakeKeeps DEF Class
<1>4. ASSUME NEW o \in Obj, NEW x \in held, NEW r \in Res, NewIter(o, x, r)
      PROVE  IInv'
  <2>1. x \in Obj /\ obj[x].h \in Res /\ Make(o, "iter", Nil, r, of[obj[x].h], FALSE)
    BY <1>4, NilAssumption DEF NewIter, Is, Status, IInv, Typed
  <2>2. of[obj[x].h] \in Res \union {Nil}
    BY <2>1 DEF IInv, Typed
  <2>. QED  BY <2>1, <2>2, MakeKeeps DEF Class
<1>5. ASSUME NEW o \in Obj, NEW x \in held, NEW r \in Res,
             NewStriper(o, x, r) \/ OpenImage(o, x, r) \/ OpenImageById(o, x, r)
      PROVE  IInv'
  <2>1. /\ x \in Obj /\ x # Nil /\ obj[x].class = "ioctx" /\ obj[x].h \in Res
        /\ \/ Make(o, "striper", x, r, of[obj[x].h], FALSE)
           \/ Make(o, "image", x, r, of[obj[x].h], TRUE)
           \/ Make(o, "image", x, r, of[obj[x].h], FALSE)
    BY <1>5, NilAssumption
       DEF NewStriper, OpenImage, OpenImageById, Is, Status, IInv, Typed
  <2>2. of[obj[x].h] \in Res \union {Nil}
    BY <2>1 DEF IInv, Typed
  <2>. QED  BY <2>1, <2>2, MakeKeeps DEF Class
<1>6. ASSUME NEW o \in Obj, Connect(o)
      PROVE  IInv'
  <2>1. /\ obj' = [obj EXCEPT ![o].ready = TRUE] /\ UNCHANGED <<held, res, of>>
    BY <1>6 DEF Connect
  <2>2. \A p \in Obj : /\ obj'[p].class = obj[p].class /\ obj'[p].h = obj[p].h
                       /\ obj'[p].from = obj[p].from
    BY <2>1 DEF IInv, Typed
  <2>3. Typed'
    BY <2>1, <2>2 DEF IInv, Typed
  <2>4. OwnOpen' /\ OneOwner' /\ FromConn'
    BY <2>1, <2>2 DEF IInv, OwnOpen, OneOwner, FromConn
  <2>5. FromIoctx'
    <3>1. \A p \in Obj : obj[p].from # Nil => obj[p].from \in Obj
      BY DEF IInv, Typed
    <3>. QED  BY <2>1, <2>2, <3>1 DEF IInv, FromIoctx
  <2>. QED  BY <2>3, <2>4, <2>5 DEF IInv
<1>7. ASSUME NEW o \in Obj, Shutdown(o)
      PROVE  IInv'
  <2>1. /\ o \in held /\ obj[o].class = "conn" /\ obj[o].h # Nil /\ obj[o].h \in Res
        /\ res' = [res EXCEPT ![obj[o].h] = "closed"]
        /\ obj' = [obj EXCEPT ![o].h = Nil]
        /\ UNCHANGED <<held, of>>
    BY <1>7, NilAssumption DEF Shutdown, Is, FreeConn, IInv, Typed
  <2>2. \A p \in Obj : /\ obj'[p].class = obj[p].class /\ obj'[p].from = obj[p].from
                       /\ p # o => obj'[p].h = obj[p].h /\ obj[p].h # obj[o].h
                       /\ p = o => obj'[p].h = Nil
    BY <2>1 DEF IInv, Typed, OneOwner
  <2>3. Typed'
    BY <2>1, <2>2 DEF IInv, Typed, Known
  <2>4. OwnOpen' /\ OneOwner'
    BY <2>1, <2>2 DEF IInv, Typed, OwnOpen, OneOwner
  <2>5. FromConn'
    BY <2>1, <2>2 DEF IInv, Typed, FromConn
  <2>6. FromIoctx'
    <3>1. \A p \in Obj : obj[p].from # Nil => obj[p].from \in Obj
      BY DEF IInv, Typed
    <3>. QED  BY <2>1, <2>2, <3>1 DEF IInv, FromIoctx
  <2>. QED  BY <2>3, <2>4, <2>5, <2>6 DEF IInv
<1>8. ASSUME NEW o \in Obj, Destroy(o)
      PROVE  IInv'
  <2>1. /\ obj[o].class \notin {"conn", "image"}
        /\ res' = [res EXCEPT ![obj[o].h] = "closed"]
        /\ UNCHANGED <<obj, held, of>>
    BY <1>8 DEF Destroy
  <2>2. \A p \in Obj : p # o /\ obj[p].h # Nil => obj[p].h # obj[o].h
    BY DEF IInv, OneOwner
  <2>3. Typed'
    BY <2>1 DEF IInv, Typed, Known
  <2>4. OwnOpen' /\ OneOwner'
    BY <2>1, <2>2 DEF IInv, Typed, OwnOpen, OneOwner
  <2>5. FromConn'
    BY <2>1, <2>2 DEF IInv, Typed, FromConn
  <2>6. FromIoctx'
    BY <2>1 DEF IInv, FromIoctx
  <2>. QED  BY <2>3, <2>4, <2>5, <2>6 DEF IInv
<1>9. ASSUME NEW o \in Obj, Close(o)
      PROVE  IInv'
  <2>1. CASE UNCHANGED <<obj, res>>
    BY <1>9, <2>1, SameObjects DEF Close
  <2>2. CASE /\ res' = [res EXCEPT ![obj[o].h] = "closed"]
             /\ obj' = [obj EXCEPT ![o].h = Nil]
    <3>1. /\ obj[o].class = "image" /\ obj[o].h # Nil /\ UNCHANGED <<held, of>>
      BY <1>9 DEF Close, Is
    <3>2. \A p \in Obj : /\ obj'[p].class = obj[p].class /\ obj'[p].from = obj[p].from
                         /\ p # o => obj'[p].h = obj[p].h /\ obj[p].h # obj[o].h
                         /\ p = o => obj'[p].h = Nil
      BY <2>2, <3>1 DEF IInv, Typed, OneOwner
    <3>3. Typed'
      BY <2>2, <3>1, <3>2 DEF IInv, Typed, Known
    <3>4. OwnOpen' /\ OneOwner'
      BY <2>2, <3>1, <3>2 DEF IInv, Typed, OwnOpen, OneOwner
    <3>5. FromConn'
      BY <2>2, <3>1, <3>2 DEF IInv, Typed, FromConn
    <3>6. FromIoctx'
      <4>1. \A p \in Obj : obj[p].from # Nil => obj[p].from \in Obj
        BY DEF IInv, Typed
      <4>. QED  BY <2>2, <3>1, <3>2, <4>1 DEF IInv, FromIoctx
    <3>. QED  BY <3>3, <3>4, <3>5, <3>6 DEF IInv
  <2>. QED  BY <1>9, <2>1, <2>2 DEF Close
<1>10. ASSUME NEW o \in Obj, NEW r \in Res, Open(o, r)
       PROVE  IInv'
  <2>1. /\ obj[o].class = "image" /\ obj[o].from # Nil /\ res[r] = "unused"
        /\ obj' = [obj EXCEPT ![o].h = r]
        /\ res' = [res EXCEPT ![r] = "open"]
        /\ of' = [of EXCEPT ![r] = of[obj[obj[o].from].h]]
        /\ UNCHANGED held
    BY <1>10 DEF Open, Is
  <2>2. /\ obj[o].from \in Obj /\ obj[obj[o].from].class = "ioctx"
        /\ obj[obj[o].from].h \in Res /\ obj[o].from # o
    BY <2>1, NilAssumption DEF IInv, Typed, FromIoctx, FromConn
  <2>3. \A p \in Obj : /\ obj'[p].class = obj[p].class /\ obj'[p].from = obj[p].from
                       /\ obj[p].h # r
                       /\ p # o => obj'[p].h = obj[p].h
                       /\ p = o => obj'[p].h = r
    BY <2>1, NilAssumption DEF IInv, Typed
  <2>4. of[obj[obj[o].from].h] \in Res \union {Nil}
    BY <2>2 DEF IInv, Typed
  <2>5. Typed'
    <3>1. obj' \in [Obj -> [class : Class \union {"none"}, from : Obj \union {Nil},
                           h : Res \union {Nil}, ready : BOOLEAN]]
      BY <2>1 DEF IInv, Typed
    <3>2. res' \in [Res -> {"unused"} \union Known] /\ of' \in [Res -> Res \union {Nil}]
      BY <2>1, <2>4 DEF IInv, Typed, Known
    <3>. QED  BY <2>1, <2>3, <3>1, <3>2, NilAssumption DEF IInv, Typed
  <2>6. OwnOpen' /\ OneOwner'
    BY <2>1, <2>3, NilAssumption DEF IInv, Typed, OwnOpen, OneOwner
  <2>7. \A q \in Obj : obj[q].class = "ioctx" => of[obj[q].h] # r /\ obj[q].h \in Res
    BY <2>1, <2>3 DEF IInv, Typed, FromConn
  <2>8. FromConn'
    BY <2>1, <2>3, <2>7 DEF IInv, Typed, FromConn
  <2>9. FromIoctx'
    <3>. SUFFICES ASSUME NEW p \in Obj, obj[p].class \in {"striper", "image"}
                  PROVE  /\ obj[p].from # Nil => obj'[obj[p].from].class = "ioctx"
                         /\ obj'[p].h # Nil =>
                               /\ obj[p].from # Nil
                               /\ of'[obj'[p].h] = of'[obj'[obj[p].from].h]
      BY <2>3 DEF FromIoctx
    <3>1. obj[p].from # Nil => /\ obj[p].from \in Obj /\ obj[obj[p].from].class = "ioctx"
                               /\ obj[p].from # o /\ obj[obj[p].from].h \in Res
      BY <2>1, <2>7 DEF IInv, Typed, FromIoctx
    <3>2. CASE p = o
      BY <3>1, <3>2, <2>1, <2>3 DEF IInv, Typed
    <3>3. CASE p # o
      BY <3>1, <3>3, <2>1, <2>3 DEF IInv, Typed, FromIoctx
    <3>. QED  BY <3>2, <3>3
  <2>. QED  BY <2>5, <2>6, <2>8, <2>9 DEF IInv
<1>11. ASSUME NEW o \in Obj, NEW r \in Res, NewWithLayoutFails(o, r)
       PROVE  IInv'
  <2>1. /\ o \in Obj /\ res[r] = "unused" /\ obj[o].h \in Res
        /\ res' = [res EXCEPT ![r] = "open"]
        /\ of' = [of EXCEPT ![r] = of[obj[o].h]]
        /\ UNCHANGED <<obj, held>>
    BY <1>11 DEF NewWithLayoutFails, Is, Status, IInv, Typed
  <2>2. \A p \in Obj : obj[p].h # r
    BY <2>1, NilAssumption DEF IInv, Typed
  <2>3. of[obj[o].h] \in Res \union {Nil}
    BY <2>1 DEF IInv, Typed
  <2>4. Typed' /\ OwnOpen' /\ OneOwner'
    BY <2>1, <2>2, <2>3 DEF IInv, Typed, OwnOpen, OneOwner, Known
  <2>5. \A q \in Obj : obj[q].class = "ioctx" => of[obj[q].h] # r /\ obj[q].h \in Res
    BY <2>1, <2>2 DEF IInv, Typed, FromConn
  <2>6. FromConn'
    BY <2>1, <2>2, <2>5 DEF IInv, Typed, FromConn
  <2>7. FromIoctx'
    <3>1. \A p \in Obj : /\ obj[p].from # Nil => obj[p].from \in Obj
                         /\ obj[p].h # Nil => obj[p].h \in Res
      BY DEF IInv, Typed
    <3>. QED  BY <2>1, <2>2, <3>1, <2>5 DEF IInv, Typed, FromIoctx
  <2>. QED  BY <2>4, <2>6, <2>7 DEF IInv
<1>12. ASSUME NEW o \in Obj, NEW x \in held \union {Nil}, GetImage(o, x)
       PROVE  IInv'
  <2>1. /\ obj[o] = Free /\ (x # Nil => x \in Obj /\ obj[x].class = "ioctx")
        /\ obj' = [obj EXCEPT ![o] = [class |-> "image", from |-> x, h |-> Nil, ready |-> TRUE]]
        /\ held' = held \union {o} /\ UNCHANGED <<res, of>>
    BY <1>12 DEF GetImage, Is, IInv, Typed
  <2>2. /\ obj'[o] = [class |-> "image", from |-> x, h |-> Nil, ready |-> TRUE]
        /\ \A p \in Obj : p # o => obj'[p] = obj[p]
    BY <2>1 DEF IInv, Typed
  <2>3. obj' \in [Obj -> [class : Class \union {"none"}, from : Obj \union {Nil},
                         h : Res \union {Nil}, ready : BOOLEAN]]
    BY <2>1 DEF IInv, Typed, Class
  <2>4. Typed'
    BY <2>1, <2>2, <2>3 DEF IInv, Typed
  <2>5. OwnOpen' /\ OneOwner'
    BY <2>1, <2>2 DEF IInv, OwnOpen, OneOwner
  <2>6. \A p \in Obj : /\ obj[p].from # Nil => obj[p].from \in Obj
                       /\ obj[p].from = o => obj[p].class \notin {"ioctx", "striper", "image"}
    BY <2>1, NilAssumption DEF IInv, FromConn, FromIoctx, Free, Typed
  <2>7. FromConn'
    BY <2>1, <2>2, <2>6 DEF IInv, FromConn
  <2>8. FromIoctx'
    <3>. SUFFICES ASSUME NEW p \in Obj, obj'[p].class \in {"striper", "image"}
                  PROVE  /\ obj'[p].from # Nil => obj'[obj'[p].from].class = "ioctx"
                         /\ obj'[p].h # Nil =>
                               /\ obj'[p].from # Nil
                               /\ of'[obj'[p].h] = of'[obj'[obj'[p].from].h]
      BY DEF FromIoctx
    <3>1. CASE p = o
      BY <3>1, <2>1, <2>2 DEF Free
    <3>2. CASE p # o
      BY <3>2, <2>1, <2>2, <2>6 DEF IInv, FromIoctx
    <3>. QED  BY <3>1, <3>2
  <2>. QED  BY <2>4, <2>5, <2>7, <2>8 DEF IInv
<1>13. ASSUME NEW o \in Obj, Forget(o)
       PROVE  IInv'
  BY <1>13, SameObjects DEF Forget
<1>14. ASSUME NEW o \in Obj, Collect(o)
       PROVE  IInv'
  <2>1. /\ obj' = [obj EXCEPT ![o] = Free] /\ UNCHANGED <<held, of>>
        /\ o \notin held /\ \A p \in Obj : o \notin Holds(p)
        /\ \/ res' = res
           \/ /\ obj[o].class = "conn" /\ obj[o].h # Nil
              /\ res' = [res EXCEPT ![obj[o].h] = "collected"]
    BY <1>14 DEF Collect
  <2>2. obj'[o] = Free /\ \A p \in Obj : p # o => obj'[p] = obj[p]
    BY <2>1 DEF IInv, Typed
  <2>3. \A p \in Obj : obj[p].class \in {"ioctx", "striper", "image"} => obj[p].from # o
    BY <2>1 DEF Holds
  <2>4. \A p \in Obj : p # o /\ obj[p].h # Nil => obj[p].h # obj[o].h /\ res'[obj[p].h] = res[obj[p].h]
    BY <2>1 DEF IInv, Typed, OneOwner
  <2>5. obj' \in [Obj -> [class : Class \union {"none"}, from : Obj \union {Nil},
                         h : Res \union {Nil}, ready : BOOLEAN]]
    BY <2>1 DEF IInv, Typed, Free
  <2>6. Typed'
    BY <2>1, <2>2, <2>4, <2>5 DEF IInv, Typed, Free, Known
  <2>7. OwnOpen' /\ OneOwner'
    BY <2>1, <2>2, <2>4 DEF IInv, OwnOpen, OneOwner, Free
  <2>8. FromConn'
    <3>. SUFFICES ASSUME NEW p \in Obj, p # o, obj[p].class = "ioctx"
                  PROVE  /\ obj[p].h # Nil /\ of[obj[p].h] # Nil
                         /\ obj[p].from \in Obj /\ obj'[obj[p].from].class = "conn"
                         /\ \/ obj'[obj[p].from].h = of[obj[p].h]
                            \/ res'[of[obj[p].h]] = "closed"
      BY <2>1, <2>2 DEF FromConn, Free
    <3>1. obj[p].from # o
      BY <2>3
    <3>2. CASE obj[obj[p].from].h = of[obj[p].h]
      BY <3>1, <3>2, <2>2 DEF IInv, FromConn
    <3>3. CASE res[of[obj[p].h]] = "closed"
      <4>1. obj[o].class = "conn" /\ obj[o].h # Nil => obj[o].h # of[obj[p].h]
        BY <3>3 DEF IInv, OwnOpen
      <4>2. of[obj[p].h] \in Res
        BY DEF IInv, Typed, FromConn
      <4>. QED  BY <3>1, <3>3, <4>1, <4>2, <2>1, <2>2 DEF IInv, FromConn, Typed
    <3>. QED  BY <3>2, <3>3 DEF IInv, FromConn
  <2>9. FromIoctx'
    BY <2>1, <2>2, <2>3 DEF IInv, FromIoctx, Typed, Free
  <2>. QED  BY <2>6, <2>7, <2>8, <2>9 DEF IInv
<1>15. ASSUME \/ \E o \in Obj : CreateMirrorSnapshot(o)
              \/ \E m \in Methods : Call(m)
       PROVE  IInv'
  BY <1>15, SameObjects DEF CreateMirrorSnapshot, Call
<1>16. CASE UNCHANGED vars
  BY <1>16, SameObjects DEF vars
<1>. QED
  BY <1>1, <1>2, <1>3, <1>4, <1>5, <1>6, <1>7, <1>8, <1>9, <1>10, <1>11, <1>12,
     <1>13, <1>14, <1>15, <1>16 DEF Next

----------------------------------------------------------------------------
(* The object an existing one points to exists.                            *)
LEMMA FromExists ==
    ASSUME IInv, NEW o \in Obj, obj[o].class # "none", obj[o].from # Nil
    PROVE  obj[o].from \in Obj /\ obj[obj[o].from].class # "none"
BY DEF IInv, Typed, Class, FromConn, FromIoctx

(* What a step passes to C: nothing, or the handles of objects that exist. *)
LEMMA NextLast == IInv /\ LastOK(last) /\ [Next]_vars => LastOK(last')
<1>. SUFFICES ASSUME IInv, LastOK(last), [Next]_vars PROVE LastOK(last')
  OBVIOUS
<1>. DEFINE Some == \E objs \in SUBSET Obj :
                       (\A x \in objs : obj[x].class # "none") /\ last' = Passing(objs)
<1>1. Some => LastOK(last')
  BY PassingOK
<1>2. ASSUME NEW x \in Obj, obj[x].class # "none", last' = Passing({x})
      PROVE  Some
  BY <1>2
<1>3. ASSUME NEW m \in Methods, Call(m)
      PROVE  Some
  <2>1. PICK arg \in [DOMAIN m -> held] :
          /\ \A k \in DOMAIN m : Is(arg[k], m[k].class) /\ Answers(arg[k], m[k])
          /\ last' = Passing({Passed(arg[k], m[k]) : k \in DOMAIN m})
    BY <1>3 DEF Call
  <2>2. ASSUME NEW k \in DOMAIN m
        PROVE  Passed(arg[k], m[k]) \in Obj /\ obj[Passed(arg[k], m[k])].class # "none"
    <3>1. arg[k] \in Obj /\ obj[arg[k]].class # "none" /\ Answers(arg[k], m[k])
      BY <2>1 DEF Is, IInv, Typed
    <3>2. CASE m[k].passes = "own"
      BY <3>1, <3>2 DEF Passed
    <3>3. CASE m[k].passes # "own"
      BY <3>1, <3>3, FromExists DEF Answers, Passed
    <3>. QED  BY <3>2, <3>3
  <2>. QED  BY <2>1, <2>2
<1>4. ASSUME NEW x \in Obj, NEW r \in Res, NewWithLayoutFails(x, r)
      PROVE  LastOK(last')
  <2>1. obj[x].class # "none" /\ last' = Passing({x}) \union {<<"striper", "open">>}
    BY <1>4 DEF NewWithLayoutFails, Is
  <2>2. LastOK(Passing({x}))
    BY <2>1, PassingOK
  <2>. QED  BY <2>1, <2>2 DEF LastOK, Class, Known
<1>5. LastOK({})
  BY DEF LastOK
<1>6. \A x \in held : x \in Obj /\ obj[x].class # "none"
  BY DEF IInv, Typed
<1>7. ASSUME NEW o \in Obj, Connect(o) \/ Shutdown(o) \/ Destroy(o) \/ Close(o)
                             \/ CreateMirrorSnapshot(o)
      PROVE  LastOK(last')
  BY <1>1, <1>2, <1>6, <1>7
     DEF Connect, Shutdown, FreeConn, Destroy, Close, CreateMirrorSnapshot, Is
<1>8. ASSUME NEW o \in Obj, NEW x \in held, NEW r \in Res,
             \/ OpenIOContext(o, x, r) \/ NewIter(o, x, r) \/ NewStriper(o, x, r)
             \/ OpenImage(o, x, r) \/ OpenImageById(o, x, r)
      PROVE  LastOK(last')
  BY <1>1, <1>2, <1>6, <1>8
     DEF OpenIOContext, NewIter, NewStriper, OpenImage, OpenImageById
<1>9. ASSUME NEW o \in Obj, NEW r \in Res, Open(o, r)
      PROVE  LastOK(last')
  <2>1. /\ obj[o].class # "none" /\ obj[o].from # Nil /\ last' = Passing({obj[o].from})
    BY <1>9 DEF Open, Is
  <2>. QED  BY <1>1, <1>2, <2>1, FromExists
<1>10. ASSUME NEW o \in Obj, Collect(o)
       PROVE  LastOK(last')
  BY <1>1, <1>2, <1>5, <1>10 DEF Collect
<1>11. ASSUME \/ \E o \in Obj : \/ Forget(o) \/ \E x : GetImage(o, x)
                                \/ \E r : NewConn(o, r) \/ NewRbdImageOptions(o, r)
              \/ UNCHANGED vars
       PROVE  LastOK(last')
  BY <1>5, <1>11 DEF Forget, GetImage, NewConn, NewRbdImageOptions, vars
<1>. QED
  BY <1>1, <1>3, <1>4, <1>7, <1>8, <1>9, <1>10, <1>11 DEF Next

----------------------------------------------------------------------------
(* The invariant is one.                                                   *)
LEMMA Invariance == Spec => [](IInv /\ LastOK(last))
<1>1. IInv /\ LastOK(last) /\ [Next]_vars => IInv' /\ LastOK(last)'
  BY NextIInv, NextLast DEF LastOK
<1>. QED  BY InitIInv, <1>1, PTL DEF Spec

(* Every state is well typed.                                              *)
THEOREM TypeCorrect == Spec => []TypeOK
<1>1. IInv /\ LastOK(last) => TypeOK
  BY DEF IInv, Typed, FromIoctx, LastOK, TypeOK
<1>. QED  BY Invariance, <1>1, PTL

(* No freed handle of a Conn or an Image is passed to C.                   *)
THEOREM ClosedHandlesStayAway == Spec => []ClosedStaysAway
<1>1. IInv /\ LastOK(last) => ClosedStaysAway
  BY DEF LastOK, ClosedStaysAway
<1>. QED  BY Invariance, <1>1, PTL

(* The finalizer of a Conn runs after all who need its cluster have gone.   *)
THEOREM FinalizerWaits == Spec => []FinalizerSparesUsers
<1>1. IInv => FinalizerSparesUsers
  <2>. SUFFICES ASSUME IInv, NEW o \in Obj, obj[o].h # Nil,
                       obj[o].class \in {"ioctx", "striper", "image"}
                PROVE  Status(of[obj[o].h]) # "collected"
    BY DEF FinalizerSparesUsers
  <2>1. ASSUME NEW x \in Obj, obj[x].class = "ioctx"
        PROVE  Status(of[obj[x].h]) # "collected"
    <3>1. CASE res[of[obj[x].h]] = "closed"
      BY <2>1, <3>1 DEF IInv, FromConn, Status
    <3>2. CASE obj[obj[x].from].h = of[obj[x].h]
      BY <2>1, <3>2 DEF IInv, FromConn, OwnOpen, Status
    <3>. QED  BY <2>1, <3>1, <3>2 DEF IInv, FromConn
  <2>2. CASE obj[o].class = "ioctx"
    BY <2>1, <2>2
  <2>3. CASE obj[o].class # "ioctx"
    <3>1. /\ obj[o].from \in Obj /\ obj[obj[o].from].class = "ioctx"
          /\ of[obj[o].h] = of[obj[obj[o].from].h]
      BY <2>3 DEF IInv, Typed, FromIoctx
    <3>. QED  BY <2>1, <3>1
  <2>. QED  BY <2>2, <2>3
<1>. QED  BY Invariance, <1>1, PTL

(* No step but Open of an open Image takes an open handle from an object    *)
(* that stays, and no open handle of a Conn is ever dropped.               *)
THEOREM OpenHandlesAreKept == Spec => HandlesAreKept
<1>1. ASSUME IInv, [Next]_vars, NEW o \in Obj,
             obj[o].h # Nil, Status(obj[o].h) = "open",
             obj'[o].h # obj[o].h, res'[obj[o].h] = "open"
      PROVE  \/ obj[o].class = "image" /\ obj'[o].h # Nil
             \/ obj[o].class # "conn" /\ obj'[o] = Free
  <2>1. CASE UNCHANGED obj
    BY <1>1, <2>1
  <2>2. CASE \E p \in Obj : Connect(p) \/ \E x : GetImage(p, x)
    BY <1>1, <2>2 DEF Connect, GetImage, IInv, Typed, Free
  <2>3. CASE \E p \in Obj : Shutdown(p) \/ Close(p)
    BY <1>1, <2>3 DEF Shutdown, FreeConn, Close, Is, IInv, Typed
  <2>4. CASE \E p \in Obj, r \in Res : Open(p, r)
    <3>. PICK p \in Obj, r \in Res : Open(p, r)
      BY <2>4
    <3>1. obj[p].class = "image" /\ obj' = [obj EXCEPT ![p].h = r]
      BY DEF Open, Is
    <3>2. p = o
      BY <1>1, <3>1 DEF IInv, Typed
    <3>. QED  BY <1>1, <3>1, <3>2, NilAssumption DEF IInv, Typed
  <2>5. CASE \E p \in Obj : Collect(p)
    <3>. PICK p \in Obj : Collect(p)
      BY <2>5
    <3>1. obj' = [obj EXCEPT ![p] = Free]
      BY DEF Collect
    <3>2. p = o /\ obj'[o] = Free
      BY <1>1, <3>1 DEF IInv, Typed
    <3>3. obj[o].class # "conn"
      BY <1>1, <3>2 DEF Collect, IInv, Typed
    <3>. QED  BY <3>2, <3>3
  <2>6. CASE \/ \E p \in Obj : \/ Destroy(p) \/ CreateMirrorSnapshot(p) \/ Forget(p)
                                \/ \E r : NewWithLayoutFails(p, r)
             \/ \E m \in Methods : Call(m)
             \/ UNCHANGED vars
    BY <2>6, <2>1 DEF Destroy, CreateMirrorSnapshot, Forget, NewWithLayoutFails, Call, vars
  <2>7. CASE \E p \in Obj, r \in Res :
                \/ NewConn(p, r) \/ NewRbdImageOptions(p, r)
                \/ \E x \in held :
                      \/ OpenIOContext(p, x, r) \/ NewIter(p, x, r) \/ NewStriper(p, x, r)
                      \/ OpenImage(p, x, r) \/ OpenImageById(p, x, r)
    <3>1. ASSUME NEW p \in Obj, NEW r \in Res, NewConn(p, r) \/ NewRbdImageOptions(p, r)
          PROVE  obj'[o] = obj[o]
      BY <1>1, <3>1 DEF NewConn, NewRbdImageOptions, Make, Free, IInv, Typed
    <3>2. ASSUME NEW p \in Obj, NEW x \in held, NEW r \in Res,
                 OpenIOContext(p, x, r) \/ NewIter(p, x, r) \/ NewStriper(p, x, r)
          PROVE  obj'[o] = obj[o]
      BY <1>1, <3>2 DEF OpenIOContext, NewIter, NewStriper, Make, Free, IInv, Typed
    <3>3. ASSUME NEW p \in Obj, NEW x \in held, NEW r \in Res,
                 OpenImage(p, x, r) \/ OpenImageById(p, x, r)
          PROVE  obj'[o] = obj[o]
      BY <1>1, <3>3 DEF OpenImage, OpenImageById, Make, Free, IInv, Typed
    <3>. QED  BY <1>1, <2>7, <3>1, <3>2, <3>3
  <2>. QED  BY <1>1, <2>2, <2>3, <2>4, <2>5, <2>6, <2>7 DEF Next
<1>2. IInv /\ [Next]_vars =>
        [\A o \in Obj :
          obj[o].h # Nil /\ Status(obj[o].h) = "open"
          /\ obj'[o].h # obj[o].h /\ res'[obj[o].h] = "open"
              => \/ obj[o].class = "image" /\ obj'[o].h # Nil
                 \/ obj[o].class # "conn" /\ obj'[o] = Free]_vars
  BY <1>1
<1>. QED  BY Invariance, <1>2, PTL DEF Spec, HandlesAreKept
----------------------------------------------------------------------------
(* The methods of the tables.                                              *)

(* A method that passes the handle of an Image itself asks for it, and only *)
(* methods of Image pass another object's.                                 *)
UseOK(use) ==
    /\ use.passes # "own" => use.class = "image"
    /\ use.class = "image" /\ use.passes = "own" => "handle" \in use.asks

Guarded(methods) == \A m \in methods : \A k \in DOMAIN m : UseOK(m[k])

(* Every method of the tables does.                                        *)
LEMMA MethodsGuarded == Guarded(Methods)
<1>1. /\ UseOK(Cluster) /\ UseOK(Connected) /\ UseOK(Ioctx) /\ UseOK(Valid)
      /\ UseOK(IterCtx) /\ UseOK(Layouter) /\ UseOK(Options) /\ UseOK(Opened)
      /\ UseOK(Own("conn", {"handle"})) /\ UseOK(Own("image", {"ready", "from", "handle"}))
      /\ UseOK(OfImage({"from"})) /\ UseOK(OfImage({"from", "ready"}))
      /\ UseOK(OfImage({"from", "ready", "noHandle"}))
  BY DEF UseOK, Own, OfImage, Cluster, Connected, Ioctx, Valid, IterCtx, Layouter,
         Options, Opened
<1>2. /\ Guarded(Range(ConnConfigCalls)) /\ Guarded(Range(ConnCalls))
     /\ Guarded(Range(AddrsCalls)) /\ Guarded(Range(CommandCalls))
     /\ Guarded(Range(TargetCommandCalls)) /\ Guarded(Range(ObjectCalls))
     /\ Guarded(Range(PoolCalls)) /\ Guarded(Range(XattrCalls))
     /\ Guarded(Range(LockCalls))
  BY <1>1 DEF Guarded, Range, ConnConfigCalls, ConnCalls, AddrsCalls,
     CommandCalls, TargetCommandCalls, ObjectCalls, PoolCalls, XattrCalls,
     LockCalls
<1>3. /\ Guarded(Range(LockerCalls)) /\ Guarded(Range(FullTryNautilus))
     /\ Guarded(Range(FullTryOctopus)) /\ Guarded(Range(AlignmentCalls))
     /\ Guarded(Range(RequiresAlignmentCalls))
     /\ Guarded(Range(AllocHintCalls)) /\ Guarded(Range(LocatorCalls))
     /\ Guarded(Range(PoolSnapCalls)) /\ Guarded(Range(PoolSnapStateCalls))
  BY <1>1 DEF Guarded, Range, LockerCalls, FullTryNautilus, FullTryOctopus,
     AlignmentCalls, RequiresAlignmentCalls, AllocHintCalls, LocatorCalls,
     PoolSnapCalls, PoolSnapStateCalls
<1>4. /\ Guarded(Range(IterCalls)) /\ Guarded(Range(LayoutCalls))
     /\ Guarded(Range(StriperRead)) /\ Guarded(Range(StriperStat))
     /\ Guarded(Range(StriperStat2)) /\ Guarded(Range(StriperWrite))
     /\ Guarded(Range(StriperXattr)) /\ Guarded(Range(NewImageCalls))
     /\ Guarded(Range(NamedImageCalls))
  BY <1>1 DEF Guarded, Range, IterCalls, LayoutCalls, StriperRead,
     StriperStat, StriperStat2, StriperWrite, StriperXattr, NewImageCalls,
     NamedImageCalls
<1>5. /\ Guarded(Range(StatCalls)) /\ Guarded(Range(CopyCalls))
     /\ Guarded(Range(ImageLockCalls)) /\ Guarded(Range(ImageIOCalls))
     /\ Guarded(Range(ImageIOAtCalls)) /\ Guarded(Range(ImageNameCalls))
     /\ Guarded(Range(TrashCalls)) /\ Guarded(Range(ByNameCalls))
     /\ Guarded(Range(CloneByIDCalls))
  BY <1>1 DEF Guarded, Range, StatCalls, CopyCalls, ImageLockCalls,
     ImageIOCalls, ImageIOAtCalls, ImageNameCalls, TrashCalls, ByNameCalls,
     CloneByIDCalls
<1>6. /\ Guarded(Range(DataPoolCalls)) /\ Guarded(Range(DiffCalls))
     /\ Guarded(Range(DiffByIDCalls)) /\ Guarded(Range(EncryptionCalls))
     /\ Guarded(Range(Encryption2Calls)) /\ Guarded(Range(FeatureCalls))
     /\ Guarded(Range(SparsifyCalls)) /\ Guarded(Range(Resize2Calls))
     /\ Guarded(Range(WatchCalls))
  BY <1>1 DEF Guarded, Range, DataPoolCalls, DiffCalls, DiffByIDCalls,
     EncryptionCalls, Encryption2Calls, FeatureCalls, SparsifyCalls,
     Resize2Calls, WatchCalls
<1>7. /\ Guarded(Range(OwnerLockCalls)) /\ Guarded(Range(MetadataCalls))
     /\ Guarded(Range(TimestampCalls)) /\ Guarded(Range(GroupCalls))
     /\ Guarded(Range(GroupImageCalls)) /\ Guarded(Range(GroupSnapCalls))
     /\ Guarded(Range(GroupRollbackCalls))
     /\ Guarded(Range(GroupSnapInfoCalls)) /\ Guarded(Range(MigrationCalls))
  BY <1>1 DEF Guarded, Range, OwnerLockCalls, MetadataCalls, TimestampCalls,
     GroupCalls, GroupImageCalls, GroupSnapCalls, GroupRollbackCalls,
     GroupSnapInfoCalls, MigrationCalls
<1>8. /\ Guarded(Range(MigrationEndCalls)) /\ Guarded(Range(NamespaceCalls))
     /\ Guarded(Range(PoolMetadataCalls)) /\ Guarded(Range(PoolStatsCalls))
     /\ Guarded(Range(OptionsCalls)) /\ Guarded(Range(SnapshotCalls))
     /\ Guarded(Range(SnapshotSetCalls))
     /\ Guarded(Range(SnapNamespaceCalls))
     /\ Guarded(Range(SnapGroupNamespaceCalls))
  BY <1>1 DEF Guarded, Range, MigrationEndCalls, NamespaceCalls,
     PoolMetadataCalls, PoolStatsCalls, OptionsCalls, SnapshotCalls,
     SnapshotSetCalls, SnapNamespaceCalls, SnapGroupNamespaceCalls
<1>9. /\ Guarded(Range(ParentCalls)) /\ Guarded(Range(ChildrenCalls))
     /\ Guarded(Range(SnapIDCalls)) /\ Guarded(Range(RemoveSnapByIDCalls))
     /\ Guarded(Range(SnapRenameCalls)) /\ Guarded(Range(MirrorPoolCalls))
     /\ Guarded(Range(MirrorImageCalls)) /\ Guarded(Range(MirrorInfoCalls))
     /\ Guarded(Range(MirrorStatusCalls))
  BY <1>1 DEF Guarded, Range, ParentCalls, ChildrenCalls, SnapIDCalls,
     RemoveSnapByIDCalls, SnapRenameCalls, MirrorPoolCalls, MirrorImageCalls,
     MirrorInfoCalls, MirrorStatusCalls
<1>10. /\ Guarded(Range(MirrorSiteCalls)) /\ Guarded(Range(MirrorImportCalls))
     /\ Guarded(Range(MirrorNautilusPoolCalls))
     /\ Guarded(Range(MirrorGetCalls))
     /\ Guarded(Range(MirrorNautilusImageCalls))
     /\ Guarded(Range(PeerSiteCalls)) /\ Guarded(Range(PeerSiteNameCalls))
     /\ Guarded(Range(FailedOpens))
  BY <1>1 DEF Guarded, Range, MirrorSiteCalls, MirrorImportCalls,
     MirrorNautilusPoolCalls, MirrorGetCalls, MirrorNautilusImageCalls,
     PeerSiteCalls, PeerSiteNameCalls, FailedOpens
<1>. QED
  BY <1>2, <1>3, <1>4, <1>5, <1>6, <1>7, <1>8, <1>9, <1>10 DEF Guarded, Methods

----------------------------------------------------------------------------
(* Only an Image, and a Conn that was connected, can be without its handle. *)
NilInv == \A o \in Obj : obj[o].h = Nil =>
    \/ obj[o].class \in {"none", "image"}
    \/ obj[o].class = "conn" /\ obj[o].ready

(* A new object does not change that.                                      *)
LEMMA MakeKeepsNilInv ==
    ASSUME IInv, NilInv, NEW o \in Obj, NEW class, NEW from, NEW r \in Res, NEW c,
           NEW ready, Make(o, class, from, r, c, ready)
    PROVE  NilInv'
BY NilAssumption DEF Make, IInv, Typed, NilInv

(* NilInv is kept by every step.                                           *)
LEMMA NextNilInv == IInv /\ NilInv /\ [Next]_vars => NilInv'
<1>. SUFFICES ASSUME IInv, NilInv, [Next]_vars PROVE NilInv'
  OBVIOUS
<1>1. ASSUME NEW o \in Obj, NEW r \in Res, NewConn(o, r) \/ NewRbdImageOptions(o, r)
      PROVE  NilInv'
  BY <1>1, MakeKeepsNilInv DEF NewConn, NewRbdImageOptions
<1>2. ASSUME NEW o \in Obj, NEW x \in held, NEW r \in Res,
             \/ OpenIOContext(o, x, r) \/ NewIter(o, x, r) \/ NewStriper(o, x, r)
             \/ OpenImage(o, x, r) \/ OpenImageById(o, x, r)
      PROVE  NilInv'
  BY <1>2, MakeKeepsNilInv DEF OpenIOContext, NewIter, NewStriper, OpenImage, OpenImageById
<1>3. ASSUME NEW o \in Obj, NEW r \in Res, Open(o, r)
      PROVE  NilInv'
  BY <1>3 DEF Open, Is, IInv, Typed, NilInv
<1>4. ASSUME NEW o \in Obj, Connect(o) \/ Shutdown(o) \/ Close(o)
      PROVE  NilInv'
  BY <1>4 DEF Connect, Shutdown, FreeConn, Close, Is, IInv, Typed, NilInv
<1>5. ASSUME NEW o \in Obj, NEW x, GetImage(o, x)
      PROVE  NilInv'
  BY <1>5 DEF GetImage, IInv, Typed, NilInv
<1>6. ASSUME NEW o \in Obj, Collect(o)
      PROVE  NilInv'
  BY <1>6 DEF Collect, Free, IInv, Typed, NilInv
<1>7. ASSUME UNCHANGED obj
      PROVE  NilInv'
  BY <1>7 DEF NilInv
<1>8. ASSUME \/ \E o \in Obj : \/ Destroy(o) \/ CreateMirrorSnapshot(o) \/ Forget(o)
                               \/ \E r \in Res : NewWithLayoutFails(o, r)
             \/ \E m \in Methods : Call(m)
             \/ UNCHANGED vars
      PROVE  NilInv'
  BY <1>7, <1>8 DEF Destroy, CreateMirrorSnapshot, Forget, NewWithLayoutFails, Call, vars
<1>. QED  BY <1>1, <1>2, <1>3, <1>4, <1>5, <1>6, <1>8 DEF Next

(* What passes a nil handle to C: an object without one, and a step that   *)
(* does not ask it.                                                        *)
NilOf(class) ==
    \/ class = "conn" /\ \E o \in Obj : Is(o, "conn") /\ obj[o].ready /\ obj[o].h = Nil
    \/ class = "image" /\ \E o \in Obj : CreateMirrorSnapshot(o)

(* An object that passes nil has none.                                     *)
LEMMA PassesNil ==
    ASSUME IInv, NEW objs \in SUBSET Obj, NEW class, <<class, "nil">> \in Passing(objs)
    PROVE  \E o \in objs : obj[o].class = class /\ obj[o].h = Nil
<1>1. PICK o \in objs : obj[o].class = class /\ Status(obj[o].h) = "nil"
  BY DEF Passing
<1>2. obj[o].h # Nil => res[obj[o].h] \in {"unused"} \union Known
  BY DEF IInv, Typed
<1>. QED  BY <1>1, <1>2 DEF Status, Known

(* No method lets a nil handle through, but for the Conn that has been      *)
(* connected and shut down and CreateMirrorSnapshot: what the tables ask   *)
(* is enough, as the other objects have their handles as long as they live. *)
THEOREM NilHandlesAreCaught == Spec => NilIsCaught
<1>1. ASSUME IInv, NilInv, Next, NEW class \in Class, <<class, "nil">> \in last'
      PROVE  NilOf(class)
  <2>1. ASSUME NEW o \in Obj, Connect(o) \/ Shutdown(o) \/ Destroy(o) \/ Close(o)
        PROVE  FALSE
    <3>1. last' = Passing({o})
      BY <2>1 DEF Connect, Shutdown, FreeConn, Destroy, Close
    <3>2. obj[o].h = Nil
      BY <1>1, <3>1, PassesNil
    <3>. QED  BY <1>1, <2>1, <3>2 DEF Connect, Shutdown, Destroy, Close, Status, NilInv
  <2>2. ASSUME NEW o \in Obj, CreateMirrorSnapshot(o)
        PROVE  NilOf(class)
    <3>1. last' = Passing({o}) /\ obj[o].class = "image"
      BY <2>2 DEF CreateMirrorSnapshot, Is
    <3>2. class = "image"
      BY <1>1, <3>1, PassesNil
    <3>. QED  BY <2>2, <3>2 DEF NilOf
  <2>3. ASSUME NEW x \in Obj, Status(obj[x].h) = "open", last' = Passing({x})
        PROVE  FALSE
    BY <1>1, <2>3, PassesNil DEF Status
  <2>4. ASSUME NEW x \in Obj, NEW r \in Res, NewWithLayoutFails(x, r)
        PROVE  FALSE
    <3>1. /\ Status(obj[x].h) = "open" /\ x \in Obj
          /\ last' = Passing({x}) \union {<<"striper", "open">>}
      BY <2>4 DEF NewWithLayoutFails
    <3>2. <<class, "nil">> \in Passing({x})
      BY <1>1, <3>1
    <3>. QED  BY <1>1, <3>1, <3>2, PassesNil DEF Status
  <2>5. ASSUME NEW o \in Obj, NEW x \in held, NEW r \in Res,
               \/ OpenIOContext(o, x, r) \/ NewIter(o, x, r) \/ NewStriper(o, x, r)
               \/ OpenImage(o, x, r) \/ OpenImageById(o, x, r)
        PROVE  FALSE
    <3>1. x \in Obj
      BY <1>1 DEF IInv, Typed
    <3>. QED  BY <2>3, <2>5, <3>1 DEF OpenIOContext, NewIter, NewStriper, OpenImage, OpenImageById
  <2>6. ASSUME NEW o \in Obj, NEW r \in Res, Open(o, r)
        PROVE  FALSE
    <3>1. obj[o].from \in Obj
      BY <1>1, <2>6 DEF Open, IInv, Typed
    <3>. QED  BY <2>3, <2>6, <3>1 DEF Open
  <2>7. ASSUME NEW o \in Obj, Collect(o)
        PROVE  FALSE
    <3>1. last' = Passing({o}) /\ obj[o].h # Nil
      BY <1>1, <2>7 DEF Collect
    <3>. QED  BY <1>1, <3>1, PassesNil
  <2>8. ASSUME \E o \in Obj : \/ Forget(o) \/ \E x : GetImage(o, x)
                              \/ \E r : NewConn(o, r) \/ NewRbdImageOptions(o, r)
        PROVE  FALSE
    BY <1>1, <2>8 DEF Forget, GetImage, NewConn, NewRbdImageOptions
  <2>9. ASSUME NEW m \in Methods, Call(m)
        PROVE  NilOf(class)
    <3>1. PICK arg \in [DOMAIN m -> held] :
            /\ \A k \in DOMAIN m : Is(arg[k], m[k].class) /\ Answers(arg[k], m[k])
            /\ last' = Passing({Passed(arg[k], m[k]) : k \in DOMAIN m})
      BY <2>9 DEF Call
    <3>2. ASSUME NEW k \in DOMAIN m, m[k].passes # "own"
          PROVE  /\ Passed(arg[k], m[k]) \in Obj
                 /\ obj[Passed(arg[k], m[k])].class = "ioctx"
                 /\ obj[Passed(arg[k], m[k])].h # Nil
      <4>1. obj[arg[k]].class = "image" /\ arg[k] \in Obj /\ obj[arg[k]].from # Nil
        BY <1>1, <3>1, <3>2, MethodsGuarded DEF Guarded, UseOK, Is, Answers, IInv, Typed
      <4>. QED  BY <1>1, <3>2, <4>1 DEF Passed, IInv, Typed, FromIoctx, FromConn
    <3>3. ASSUME NEW k \in DOMAIN m, m[k].passes = "own"
          PROVE  Passed(arg[k], m[k]) = arg[k] /\ arg[k] \in Obj
      BY <1>1, <3>1, <3>3 DEF Passed, IInv, Typed
    <3>4. {Passed(arg[k], m[k]) : k \in DOMAIN m} \in SUBSET Obj
      BY <3>2, <3>3
    <3>5. PICK k \in DOMAIN m : /\ obj[Passed(arg[k], m[k])].class = class
                                /\ obj[Passed(arg[k], m[k])].h = Nil
      BY <1>1, <3>1, <3>4, PassesNil
    <3>6. m[k].passes = "own" /\ Passed(arg[k], m[k]) = arg[k]
      BY <3>2, <3>3, <3>5
    <3>7. /\ Is(arg[k], class) /\ class = m[k].class
          /\ class = "image" => obj[arg[k]].h # Nil
      BY <3>1, <3>5, <3>6, MethodsGuarded DEF Guarded, UseOK, Is, Answers
    <3>8. class = "conn" /\ obj[arg[k]].ready
      BY <1>1, <3>3, <3>5, <3>6, <3>7 DEF NilInv, Class
    <3>. QED  BY <3>3, <3>5, <3>6, <3>7, <3>8 DEF NilOf
  <2>. QED  BY <1>1, <2>1, <2>2, <2>4, <2>5, <2>6, <2>7, <2>8, <2>9 DEF Next
<1>2. Init => NilInv
  BY DEF Init, Free, NilInv
<1>3. IInv /\ NilInv /\ [Next]_vars =>
        [\A class \in Class : <<class, "nil">> \in last' =>
            \/ class = "conn" /\ \E o \in Obj : Is(o, "conn") /\ obj[o].ready /\ obj[o].h = Nil
            \/ class = "image" /\ \E o \in Obj : CreateMirrorSnapshot(o)]_vars
  BY <1>1 DEF NilOf
<1>. QED  BY Invariance, NextNilInv, <1>2, <1>3, PTL DEF Spec, NilIsCaught
=============================================================================
