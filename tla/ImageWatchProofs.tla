--------------------------- MODULE ImageWatchProofs ---------------------------
(***************************************************************************)
(* Watches of rbd images, for any number of images, watches, handles and   *)
(* librbd threads: image, registration and tracker agree on what is being  *)
(* watched.                                                                *)
(***************************************************************************)
EXTENDS ImageWatch, FiniteSetTheorems, TLAPS

(* Watches that UpdateWatch has made.                                      *)
Made == {w \in Watch : watch[w] # NewWatch}

(* The counter has counted the watches and is not back at any number it    *)
(* has given out.                                                          *)
CounterInv ==
    /\ lastID = Cardinality(Made)
    /\ \A w \in Made : watch[w].cbIndex \in 1 .. lastID
    /\ \A v, w \in Made : watch[v].cbIndex = watch[w].cbIndex => v = w
    /\ \A n \in Id : n > lastID => cmap[n] = Nil

(* An entry of the tracker is that of a watch with its number.             *)
EntryInv == \A n \in Id : cmap[n] # Nil => watch[cmap[n]].cbIndex = n

(* No two Images have one rbd_image_t.                                     *)
ImageInv ==
    /\ \A i \in Image : image[i] # Nil => image[i] \in open
    /\ \A i, j \in Image : image[i] # Nil /\ image[i] = image[j] => i = j

(* A registration is on the image its watch was made for, as long as that  *)
(* has the rbd_image_t of then, and with the handle the watch has.         *)
RegInv == \A r \in reg :
    /\ watch[r.watch].cbIndex = r.arg /\ cmap[r.arg] = r.watch
    /\ watch[r.watch].handle = r.handle
    /\ watch[r.watch].image \in Image /\ image[watch[r.watch].image] = r.c

(* What each step of UpdateWatch and Unwatch finds.  When Unwatch goes on   *)
(* to the tracker, the registration has gone, this one's or none.          *)
PcInv == \A i \in Image : LET w == pc[i].w IN
    /\ pc[i].at = "watch" =>
          /\ image[i] # Nil
          /\ watch[w].image = i /\ watch[w].handle = Nil
          /\ watch[w].cbIndex \in Id /\ cmap[watch[w].cbIndex] = w
    /\ pc[i].at \in {"unwatch", "remove"} =>
          watch[w].image = i /\ watch[w].handle # Nil
    /\ pc[i].at = "remove" => \A r \in reg : r.watch # w

(* librbd ends no registration before its callbacks.                       *)
CbInv == \A t \in CbThread : cb[t] # CbIdle =>
            \E r \in reg : cb[t] = [arg |-> r.arg, watch |-> r.watch]

(* The inductive invariant.                                                *)
IInv == /\ TypeOK /\ CounterInv /\ EntryInv /\ ImageInv /\ RegInv /\ PcInv /\ CbInv
        /\ CallbackFindsItsWatch

----------------------------------------------------------------------------
(* The next number.                                                        *)

(* A watch that is not made yet leaves room in the counter.                *)
LEMMA RoomForOne ==
    ASSUME IInv, NEW w \in Watch, watch[w] = NewWatch
    PROVE  lastID + 1 \in Id /\ lastID \in Nat
<1>1. Made \subseteq Watch /\ w \notin Made
  BY DEF Made
<1>2. IsFiniteSet(Made) /\ Cardinality(Made) <= Cardinality(Watch)
      /\ (Cardinality(Watch) = Cardinality(Made) => Watch = Made)
  BY <1>1, WatchAssumption, FS_Subset
<1>3. Cardinality(Made) \in Nat /\ Cardinality(Watch) \in Nat
  BY <1>2, WatchAssumption, FS_CardinalityType
<1>4. Cardinality(Made) # Cardinality(Watch)
  BY <1>1, <1>2
<1>. QED  BY <1>2, <1>3, <1>4, WatchAssumption, IdAssumption DEF IInv, CounterInv, Id, Tracker!Id

(* Add hands out the number after the last one.                            *)
LEMMA NextNumber ==
    ASSUME IInv, NEW w \in Watch, watch[w] = NewWatch, NEW n \in Id, Tracker!IsNext(n)
    PROVE  n = lastID + 1 /\ cmap[n] = Nil
<1>1. lastID + 1 \in 0 .. IdCount - 1 /\ lastID \in Nat
  BY RoomForOne DEF Id, Tracker!Id
<1>2. (lastID + 1) % IdCount = lastID + 1
  BY <1>1, IdAssumption
<1>3. cmap[lastID + 1] = Nil
  BY <1>1 DEF IInv, CounterInv, Id, Tracker!Id
<1>4. PICK k \in 1 .. IdCount : /\ n = (lastID + k) % IdCount
                                /\ \A j \in 1 .. k - 1 : cmap[(lastID + j) % IdCount] # Nil
  BY DEF Tracker!IsNext
<1>5. k = 1
  <2>. SUFFICES ASSUME k # 1 PROVE FALSE
    OBVIOUS
  <2>1. 1 \in 1 .. k - 1
    BY IdAssumption
  <2>. QED  BY <1>2, <1>3, <1>4, <2>1
<1>. QED  BY <1>2, <1>4, <1>5 DEF Tracker!IsNext

----------------------------------------------------------------------------
(* The invariant holds at the start.                                       *)
LEMMA InitIInv == Init => IInv
<1>. SUFFICES ASSUME Init PROVE IInv
  OBVIOUS
<1>1. cmap = [n \in Id |-> Nil] /\ lastID = 0
  BY DEF Init, Tracker!Init, Id, Tracker!Id
<1>2. 0 \in Id
  BY IdAssumption DEF Id, Tracker!Id
<1>3. Made = {} /\ Cardinality({}) = 0
  BY FS_EmptySet DEF Made, Init
<1>4. TypeOK
  BY <1>1, <1>2 DEF Init, TypeOK
<1>5. CounterInv
  BY <1>1, <1>3 DEF CounterInv
<1>6. EntryInv
  BY <1>1 DEF EntryInv
<1>7. ImageInv /\ RegInv /\ CbInv /\ CallbackFindsItsWatch
  BY DEF Init, ImageInv, RegInv, CbInv, CallbackFindsItsWatch
<1>8. PcInv
  BY DEF Init, PcInv, Idle
<1>. QED  BY <1>4, <1>5, <1>6, <1>7, <1>8 DEF IInv

(* What a step leaves alone stays true.                                    *)
LEMMA SameCounter == ASSUME IInv, UNCHANGED <<cmap, lastID, watch>>
                     PROVE  CounterInv' /\ EntryInv'
BY DEF IInv, CounterInv, EntryInv, Made

(* Ending registrations that have no callback running.                     *)
LEMMA Ending ==
    ASSUME IInv, NEW ended \in SUBSET reg, \A r \in ended : Quiet(r),
           reg' = reg \ ended, UNCHANGED cb
    PROVE  CbInv'
<1>. SUFFICES ASSUME NEW t \in CbThread, cb[t] # CbIdle
              PROVE  \E r \in reg' : cb[t] = [arg |-> r.arg, watch |-> r.watch]
  BY DEF CbInv
<1>1. PICK r \in reg : cb[t] = [arg |-> r.arg, watch |-> r.watch]
  BY DEF IInv, CbInv
<1>2. r \notin ended
  BY <1>1 DEF Quiet
<1>. QED  BY <1>1, <1>2

(* Every step keeps the invariant.                                         *)
LEMMA NextIInv == IInv /\ [Next]_vars => IInv'
<1>. SUFFICES ASSUME IInv, [Next]_vars PROVE IInv'
  OBVIOUS
<1>1. ASSUME NEW i \in Image, Open(i)
      PROVE  IInv'
  <2>1. PICK c \in CImage \ open :
          /\ image[i] = Nil /\ pc[i] = Idle
          /\ open' = open \union {c} /\ image' = [image EXCEPT ![i] = c]
          /\ UNCHANGED <<cmap, lastID, reg, watch, pc, cb, called>>
    BY <1>1 DEF Open
  <2>2. TypeOK'
    BY <2>1 DEF IInv, TypeOK
  <2>3. CounterInv' /\ EntryInv'
    BY <2>1, SameCounter
  <2>4. ImageInv'
    BY <2>1 DEF IInv, TypeOK, ImageInv
  <2>5. RegInv'
    <3>1. ASSUME NEW r \in reg PROVE image'[watch[r.watch].image] = r.c
      <4>1. r.c # Nil /\ watch[r.watch].image \in Image /\ image[watch[r.watch].image] = r.c
        BY NilAssumption DEF IInv, TypeOK, Registration, RegInv
      <4>. QED  BY <2>1, <4>1 DEF IInv, TypeOK
    <3>. QED  BY <2>1, <3>1 DEF IInv, RegInv
  <2>6. PcInv'
    BY <2>1, NilAssumption DEF IInv, TypeOK, PcInv, Idle
  <2>7. CbInv' /\ CallbackFindsItsWatch'
    BY <2>1 DEF IInv, CbInv, CallbackFindsItsWatch
  <2>. QED  BY <2>2, <2>3, <2>4, <2>5, <2>6, <2>7 DEF IInv
<1>2. ASSUME NEW i \in Image, Close(i)
      PROVE  IInv'
  <2>. DEFINE ended == {r \in reg : r.c = image[i]}
  <2>1. /\ pc[i] = Idle /\ image[i] # Nil /\ \A r \in ended : Quiet(r)
        /\ open' = open \ {image[i]} /\ reg' = reg \ ended
        /\ image' = [image EXCEPT ![i] = Nil]
        /\ UNCHANGED <<cmap, lastID, watch, pc, cb, called>>
    BY <1>2 DEF Close
  <2>2. TypeOK'
    BY <2>1 DEF IInv, TypeOK
  <2>3. CounterInv' /\ EntryInv'
    BY <2>1, SameCounter
  <2>4. ImageInv'
    BY <2>1 DEF IInv, TypeOK, ImageInv
  <2>5. RegInv'
    <3>1. ASSUME NEW r \in reg \ ended PROVE image'[watch[r.watch].image] = r.c
      BY <2>1 DEF IInv, TypeOK, RegInv
    <3>. QED  BY <2>1, <3>1 DEF IInv, RegInv
  <2>6. PcInv'
    BY <2>1 DEF IInv, TypeOK, PcInv, Idle
  <2>7. CbInv'
    BY <2>1, Ending
  <2>8. CallbackFindsItsWatch'
    BY <2>1 DEF IInv, CallbackFindsItsWatch
  <2>. QED  BY <2>2, <2>3, <2>4, <2>5, <2>6, <2>7, <2>8 DEF IInv
<1>3. ASSUME NEW i \in Image, NEW w \in Watch, UpdateWatch(i, w)
      PROVE  IInv'
  <2>1. PICK n \in Id :
          /\ pc[i] = Idle /\ image[i] # Nil /\ watch[w] = NewWatch
          /\ Tracker!IsNext(n) /\ cmap' = [cmap EXCEPT ![n] = w] /\ lastID' = n
          /\ watch' = [watch EXCEPT ![w] = [image |-> i, handle |-> Nil, cbIndex |-> n]]
          /\ pc' = [pc EXCEPT ![i] = [at |-> "watch", w |-> w]]
          /\ UNCHANGED <<image, open, reg, cb, called>>
    BY <1>3 DEF UpdateWatch, Tracker!Add
  <2>2. n = lastID + 1 /\ cmap[n] = Nil /\ lastID \in Nat
    BY <2>1, NextNumber, RoomForOne
  <2>3. watch'[w] # NewWatch /\ \A v \in Watch : v # w => watch'[v] = watch[v]
    BY <2>1, NilAssumption, IdAssumption DEF IInv, TypeOK, NewWatch
  <2>4. w \notin Made /\ Made' = Made \union {w}
    BY <2>1, <2>3 DEF Made
  <2>5. TypeOK'
    BY <2>1 DEF IInv, TypeOK
  <2>6. CounterInv'
    <3>1. Cardinality(Made') = Cardinality(Made) + 1
      <4>1. IsFiniteSet(Made)
        BY WatchAssumption, FS_Subset DEF Made
      <4>. QED  BY <2>4, <4>1, FS_AddElement
    <3>2. watch'[w].cbIndex = n
      BY <2>1 DEF IInv, TypeOK
    <3>3. \A v \in Made : watch'[v].cbIndex = watch[v].cbIndex /\ watch[v].cbIndex \in 1 .. lastID
      BY <2>3, <2>4 DEF IInv, CounterInv, Made
    <3>4. \A v \in Made' : watch'[v].cbIndex \in 1 .. lastID'
      BY <2>1, <2>2, <2>4, <3>2, <3>3
    <3>5. \A u, v \in Made' : watch'[u].cbIndex = watch'[v].cbIndex => u = v
      BY <2>2, <2>4, <3>2, <3>3 DEF IInv, CounterInv
    <3>6. \A m \in Id : m > lastID' => cmap'[m] = Nil
      BY <2>1, <2>2 DEF IInv, TypeOK, CounterInv, Id, Tracker!Id
    <3>. QED  BY <2>1, <2>2, <3>1, <3>4, <3>5, <3>6 DEF IInv, CounterInv
  <2>7. \A m \in Id : m # n => cmap'[m] = cmap[m] /\ (cmap[m] # Nil => cmap[m] \in Watch \ {w})
    BY <2>1, NilAssumption, IdAssumption DEF IInv, TypeOK, EntryInv, NewWatch, Id, Tracker!Id
  <2>8. EntryInv'
    BY <2>1, <2>3, <2>7 DEF IInv, TypeOK, EntryInv
  <2>9. ImageInv' /\ CbInv' /\ CallbackFindsItsWatch'
    BY <2>1 DEF IInv, ImageInv, CbInv, CallbackFindsItsWatch
  <2>10. \A r \in reg : r.watch \in Watch \ {w} /\ r.arg \in Id \ {n}
    BY <2>1, <2>2, NilAssumption DEF IInv, TypeOK, Registration, RegInv, NewWatch
  <2>11. RegInv'
    BY <2>1, <2>3, <2>7, <2>10 DEF IInv, RegInv
  <2>12. PcInv'
    <3>1. ASSUME NEW j \in Image, j # i
          PROVE  pc'[j] = pc[j] /\ (pc[j] # Idle => pc[j].w \in Watch \ {w})
      BY <2>1, <3>1, NilAssumption DEF IInv, TypeOK, PcInv, NewWatch, Idle
    <3>2. ASSUME NEW j \in Image, j # i, pc[j].at = "watch"
          PROVE  watch[pc[j].w].cbIndex \in Id \ {n}
      BY <3>2, <2>2, <3>1, NilAssumption DEF IInv, TypeOK, PcInv, Idle
    <3>3. pc'[i] = [at |-> "watch", w |-> w]
      BY <2>1 DEF IInv, TypeOK
    <3>4. watch'[w] = [image |-> i, handle |-> Nil, cbIndex |-> n] /\ cmap'[n] = w
      BY <2>1 DEF IInv, TypeOK
    <3>5. ASSUME NEW j \in Image, j # i
          PROVE  LET v == pc'[j].w IN
                 /\ pc'[j].at = "watch" =>
                       /\ image'[j] # Nil
                       /\ watch'[v].image = j /\ watch'[v].handle = Nil
                       /\ watch'[v].cbIndex \in Id /\ cmap'[watch'[v].cbIndex] = v
                 /\ pc'[j].at \in {"unwatch", "remove"} =>
                       watch'[v].image = j /\ watch'[v].handle # Nil
                 /\ pc'[j].at = "remove" => \A r \in reg' : r.watch # v
      BY <2>1, <2>3, <2>7, <3>1, <3>2, <3>5 DEF IInv, PcInv, Idle
    <3>. QED  BY <2>1, <3>3, <3>4, <3>5 DEF PcInv
  <2>. QED  BY <2>5, <2>6, <2>8, <2>9, <2>11, <2>12 DEF IInv
<1>4. ASSUME NEW i \in Image, RbdUpdateWatch(i)
      PROVE  IInv'
  <2>. DEFINE w == pc[i].w
  <2>1. PICK h \in Handle :
          /\ pc[i].at = "watch"
          /\ \A r \in reg : r.c = image[i] => r.handle # h
          /\ reg' = reg \union {[c |-> image[i], handle |-> h, arg |-> watch[w].cbIndex, watch |-> w]}
          /\ watch' = [watch EXCEPT ![w].handle = h]
          /\ pc' = [pc EXCEPT ![i] = Idle]
          /\ UNCHANGED <<cmap, lastID, image, open, cb, called>>
    BY <1>4 DEF RbdUpdateWatch
  <2>2. /\ w \in Watch /\ image[i] \in CImage
        /\ watch[w].image = i /\ watch[w].handle = Nil
        /\ watch[w].cbIndex \in Id /\ cmap[watch[w].cbIndex] = w
    BY <2>1 DEF IInv, TypeOK, PcInv, Idle
  <2>3. watch[w] \in [image : Image, handle : Handle \union {Nil}, cbIndex : Id]
    BY <2>2, NilAssumption, IdAssumption DEF IInv, TypeOK, NewWatch, Id, Tracker!Id
  <2>4. /\ watch'[w] = [watch[w] EXCEPT !.handle = h]
        /\ \A v \in Watch : v # w => watch'[v] = watch[v]
    BY <2>1, <2>2 DEF IInv, TypeOK
  <2>5. \A v \in Watch : /\ watch'[v].cbIndex = watch[v].cbIndex
                         /\ watch'[v].image = watch[v].image
    BY <2>3, <2>4
  <2>6. watch'[w].handle = h /\ h # Nil
    BY <2>3, <2>4, NilAssumption
  <2>7. Made' = Made
    <3>1. watch[w] # NewWatch /\ watch'[w] # NewWatch
      BY <2>2, <2>5, NilAssumption, IdAssumption DEF NewWatch, Id, Tracker!Id
    <3>. QED  BY <2>4, <3>1 DEF Made
  <2>8. TypeOK'
    <3>1. watch' \in [Watch -> {NewWatch} \union [image : Image, handle : Handle \union {Nil}, cbIndex : Id]]
      BY <2>1, <2>2, <2>3, <2>4 DEF IInv, TypeOK
    <3>2. reg' \subseteq Registration
      BY <2>1, <2>2 DEF IInv, TypeOK, Registration
    <3>3. pc' \in [Image -> {Idle} \union [at : {"watch", "unwatch", "remove"}, w : Watch]]
      BY <2>1 DEF IInv, TypeOK
    <3>. QED  BY <2>1, <3>1, <3>2, <3>3 DEF IInv, TypeOK
  <2>9. CounterInv'
    BY <2>1, <2>5, <2>7 DEF IInv, CounterInv, Made
  <2>10. EntryInv'
    BY <2>1, <2>5 DEF IInv, TypeOK, EntryInv
  <2>11. ImageInv' /\ CbInv' /\ CallbackFindsItsWatch'
    BY <2>1 DEF IInv, ImageInv, CbInv, CallbackFindsItsWatch
  <2>12. \A r \in reg : r.watch \in Watch /\ r.watch # w
    BY <2>2, NilAssumption DEF IInv, TypeOK, Registration, RegInv
  <2>13. RegInv'
    <3>1. ASSUME NEW r \in reg
          PROVE  /\ watch'[r.watch].cbIndex = r.arg /\ cmap'[r.arg] = r.watch
                 /\ watch'[r.watch].handle = r.handle
                 /\ watch'[r.watch].image \in Image /\ image'[watch'[r.watch].image] = r.c
      BY <2>1, <2>4, <2>12 DEF IInv, RegInv
    <3>. QED  BY <2>1, <2>2, <2>5, <2>6, <3>1 DEF RegInv
  <2>14. PcInv'
    <3>1. pc'[i] = Idle /\ \A j \in Image : j # i => pc'[j] = pc[j]
      BY <2>1 DEF IInv, TypeOK
    <3>2. ASSUME NEW j \in Image, j # i, pc[j] # Idle
          PROVE  pc[j].w \in Watch /\ pc[j].w # w
      BY <2>2, <3>2 DEF IInv, TypeOK, PcInv
    <3>3. ASSUME NEW j \in Image, j # i, pc[j] # Idle
          PROVE  LET v == pc'[j].w IN
                 /\ pc'[j].at = "watch" =>
                       /\ image'[j] # Nil
                       /\ watch'[v].image = j /\ watch'[v].handle = Nil
                       /\ watch'[v].cbIndex \in Id /\ cmap'[watch'[v].cbIndex] = v
                 /\ pc'[j].at \in {"unwatch", "remove"} =>
                       watch'[v].image = j /\ watch'[v].handle # Nil
                 /\ pc'[j].at = "remove" => \A r \in reg' : r.watch # v
      BY <2>1, <2>4, <3>1, <3>2, <3>3 DEF IInv, PcInv
    <3>. QED  BY <3>1, <3>3 DEF PcInv, Idle
  <2>. QED  BY <2>8, <2>9, <2>10, <2>11, <2>13, <2>14 DEF IInv
<1>5. ASSUME NEW i \in Image,
             RbdUpdateWatchFails(i) \/ \E w \in Watch : Unwatch(i, w)
      PROVE  IInv'
  <2>1. /\ UNCHANGED <<cmap, lastID, image, open, reg, watch, cb, called>>
        /\ \/ pc' = [pc EXCEPT ![i] = Idle]
           \/ \E w \in Watch : /\ watch[w].image = i /\ watch[w].handle # Nil
                               /\ pc' = [pc EXCEPT ![i] = [at |-> "unwatch", w |-> w]]
    BY <1>5 DEF RbdUpdateWatchFails, Unwatch
  <2>2. TypeOK'
    BY <2>1 DEF IInv, TypeOK
  <2>3. CounterInv' /\ EntryInv'
    BY <2>1, SameCounter
  <2>4. ImageInv' /\ RegInv' /\ CbInv' /\ CallbackFindsItsWatch'
    BY <2>1 DEF IInv, ImageInv, RegInv, CbInv, CallbackFindsItsWatch
  <2>5. PcInv'
    BY <2>1 DEF IInv, TypeOK, PcInv, Idle
  <2>. QED  BY <2>2, <2>3, <2>4, <2>5 DEF IInv
<1>6. ASSUME NEW i \in Image, RbdUpdateUnwatch(i)
      PROVE  IInv'
  <2>. DEFINE w == pc[i].w
  <2>. DEFINE ended == {r \in reg : r.c = image[i] /\ r.handle = watch[w].handle}
  <2>1. /\ pc[i].at = "unwatch" /\ \A r \in ended : Quiet(r)
        /\ reg' = reg \ ended
        /\ pc' = [pc EXCEPT ![i].at = "remove"]
        /\ UNCHANGED <<cmap, lastID, image, open, watch, cb, called>>
    BY <1>6 DEF RbdUpdateUnwatch
  <2>2. pc[i] \in [at : {"watch", "unwatch", "remove"}, w : Watch]
    BY <2>1 DEF IInv, TypeOK, Idle
  <2>3. /\ pc'[i] = [at |-> "remove", w |-> w] /\ w \in Watch
        /\ \A j \in Image : j # i => pc'[j] = pc[j]
    BY <2>1, <2>2 DEF IInv, TypeOK
  <2>4. TypeOK'
    BY <2>1, <2>3 DEF IInv, TypeOK
  <2>5. CounterInv' /\ EntryInv'
    BY <2>1, SameCounter
  <2>6. ImageInv' /\ RegInv' /\ CallbackFindsItsWatch'
    BY <2>1 DEF IInv, ImageInv, RegInv, CallbackFindsItsWatch
  <2>7. CbInv'
    BY <2>1, Ending
  <2>8. watch[w].image = i /\ watch[w].handle # Nil
    BY <2>1 DEF IInv, PcInv
  <2>9. \A r \in reg' : r.watch # w
    BY <2>1, <2>8 DEF IInv, RegInv
  <2>10. PcInv'
    BY <2>1, <2>3, <2>8, <2>9 DEF IInv, PcInv
  <2>. QED  BY <2>4, <2>5, <2>6, <2>7, <2>10 DEF IInv
<1>7. ASSUME NEW i \in Image, RemoveCallback(i)
      PROVE  IInv'
  <2>. DEFINE w == pc[i].w
  <2>. DEFINE n == watch[w].cbIndex
  <2>1. /\ pc[i].at = "remove"
        /\ cmap' = [cmap EXCEPT ![n] = Nil]
        /\ pc' = [pc EXCEPT ![i] = Idle]
        /\ UNCHANGED <<lastID, image, open, reg, watch, cb, called>>
    BY <1>7 DEF RemoveCallback, Tracker!Remove
  <2>2. /\ w \in Watch /\ watch[w].image = i /\ watch[w].handle # Nil
        /\ \A r \in reg : r.watch # w
    BY <2>1 DEF IInv, TypeOK, PcInv, Idle
  <2>3. w \in Made /\ n \in Id
    BY <2>2, NilAssumption DEF IInv, TypeOK, NewWatch, Made
  <2>4. TypeOK'
    BY <2>1 DEF IInv, TypeOK
  <2>5. cmap'[n] = Nil /\ \A m \in Id : m # n => cmap'[m] = cmap[m]
    BY <2>1, <2>3 DEF IInv, TypeOK
  <2>6. CounterInv' /\ EntryInv'
    BY <2>1, <2>5 DEF IInv, CounterInv, EntryInv, Made
  <2>7. ImageInv' /\ CbInv' /\ CallbackFindsItsWatch'
    BY <2>1 DEF IInv, ImageInv, CbInv, CallbackFindsItsWatch
  <2>8. \A r \in reg : r.arg \in Id /\ r.arg # n
    <3>. SUFFICES ASSUME NEW r \in reg PROVE r.arg \in Id /\ r.arg # n
      OBVIOUS
    <3>1. r.watch \in Watch /\ r.arg \in Id /\ watch[r.watch].handle = r.handle /\ r.handle \in Handle
          /\ watch[r.watch].cbIndex = r.arg
      BY DEF IInv, TypeOK, Registration, RegInv
    <3>2. r.watch \in Made
      BY <3>1, NilAssumption DEF Made, NewWatch
    <3>. QED  BY <2>2, <2>3, <3>1, <3>2 DEF IInv, CounterInv
  <2>9. RegInv'
    BY <2>1, <2>5, <2>8 DEF IInv, RegInv
  <2>10. PcInv'
    <3>1. pc'[i] = Idle /\ \A j \in Image : j # i => pc'[j] = pc[j]
      BY <2>1 DEF IInv, TypeOK
    <3>2. ASSUME NEW j \in Image, j # i, pc[j].at = "watch"
          PROVE  watch[pc[j].w].cbIndex \in Id /\ watch[pc[j].w].cbIndex # n
      <4>1. /\ pc[j].w \in Watch /\ watch[pc[j].w].image = j
            /\ watch[pc[j].w].cbIndex \in Id
        BY <3>2 DEF IInv, TypeOK, PcInv, Idle
      <4>2. pc[j].w \in Made
        BY <4>1, NilAssumption DEF Made, NewWatch
      <4>. QED  BY <2>2, <2>3, <3>2, <4>1, <4>2 DEF IInv, CounterInv
    <3>3. ASSUME NEW j \in Image, j # i
          PROVE  LET v == pc[j].w IN
                 /\ pc[j].at = "watch" =>
                       /\ image'[j] # Nil
                       /\ watch'[v].image = j /\ watch'[v].handle = Nil
                       /\ watch'[v].cbIndex \in Id /\ cmap'[watch'[v].cbIndex] = v
                 /\ pc[j].at \in {"unwatch", "remove"} =>
                       watch'[v].image = j /\ watch'[v].handle # Nil
                 /\ pc[j].at = "remove" => \A r \in reg' : r.watch # v
      BY <2>1, <2>5, <3>2, <3>3 DEF IInv, PcInv
    <3>. QED  BY <3>1, <3>3 DEF PcInv, Idle
  <2>. QED  BY <2>4, <2>6, <2>7, <2>9, <2>10 DEF IInv
<1>8. ASSUME NEW t \in CbThread, RbdNotify(t)
      PROVE  IInv'
  <2>1. PICK r \in reg :
          /\ cb' = [cb EXCEPT ![t] = [arg |-> r.arg, watch |-> r.watch]]
          /\ called' = Nil
          /\ UNCHANGED <<cmap, lastID, image, open, reg, watch, pc>>
    BY <1>8 DEF RbdNotify
  <2>2. TypeOK'
    BY <2>1 DEF IInv, TypeOK, Registration
  <2>3. CounterInv' /\ EntryInv'
    BY <2>1, SameCounter
  <2>4. ImageInv' /\ RegInv' /\ PcInv' /\ CallbackFindsItsWatch'
    BY <2>1 DEF IInv, ImageInv, RegInv, PcInv, CallbackFindsItsWatch
  <2>5. CbInv'
    BY <2>1 DEF IInv, TypeOK, CbInv
  <2>. QED  BY <2>2, <2>3, <2>4, <2>5 DEF IInv
<1>9. ASSUME NEW t \in CbThread, ImageWatchCallback(t)
      PROVE  IInv'
  <2>1. /\ cb[t] # CbIdle
        /\ called' = [by |-> cb[t].watch, got |-> cmap[cb[t].arg]]
        /\ cb' = [cb EXCEPT ![t] = CbIdle]
        /\ UNCHANGED <<cmap, lastID, image, open, reg, watch, pc>>
    BY <1>9 DEF ImageWatchCallback, Tracker!Lookup
  <2>2. cmap[cb[t].arg] = cb[t].watch /\ cb[t].watch \in Watch
    BY <2>1 DEF IInv, TypeOK, CbInv, RegInv, Registration
  <2>3. TypeOK'
    BY <2>1, <2>2 DEF IInv, TypeOK
  <2>4. CounterInv' /\ EntryInv'
    BY <2>1, SameCounter
  <2>5. ImageInv' /\ RegInv' /\ PcInv'
    BY <2>1 DEF IInv, ImageInv, RegInv, PcInv
  <2>6. CbInv'
    BY <2>1 DEF IInv, TypeOK, CbInv
  <2>7. CallbackFindsItsWatch'
    BY <2>1, <2>2 DEF CallbackFindsItsWatch
  <2>. QED  BY <2>3, <2>4, <2>5, <2>6, <2>7 DEF IInv
<1>10. CASE UNCHANGED vars
  <2>1. TypeOK' /\ CounterInv' /\ EntryInv'
    BY <1>10, SameCounter DEF vars, IInv, TypeOK
  <2>2. ImageInv' /\ RegInv' /\ PcInv' /\ CbInv' /\ CallbackFindsItsWatch'
    BY <1>10 DEF vars, IInv, ImageInv, RegInv, PcInv, CbInv, CallbackFindsItsWatch
  <2>. QED  BY <2>1, <2>2 DEF IInv
<1>. QED  BY <1>1, <1>2, <1>3, <1>4, <1>5, <1>6, <1>7, <1>8, <1>9, <1>10 DEF Next

(* The inductive invariant holds in every behaviour.                       *)
LEMMA Invariance == Spec => []IInv
BY InitIInv, NextIInv, PTL DEF Spec

----------------------------------------------------------------------------
(* Every variable keeps its type: UpdateWatch and Unwatch are where their   *)
(* watch and handle say, whatever is done with the image in between.       *)
THEOREM TypeCorrect == Spec => []TypeOK
<1>1. IInv => TypeOK
  BY DEF IInv
<1>. QED  BY <1>1, Invariance, PTL

(* No Close, failed or repeated Unwatch, nor an Unwatch with a handle from  *)
(* before the image was opened again, takes the entry of a watch librbd     *)
(* still calls back for out of the tracker.                                 *)
THEOREM EntriesAreThere == Spec => []RegisteredHasEntry
<1>1. IInv => RegisteredHasEntry
  BY DEF IInv, RegInv, RegisteredHasEntry
<1>. QED  BY <1>1, Invariance, PTL

(* imageWatchCallback finds the watch it is run for, never nil.            *)
THEOREM CallbacksFind == Spec => []CallbackFindsItsWatch
<1>1. IInv => CallbackFindsItsWatch
  BY DEF IInv
<1>. QED  BY <1>1, Invariance, PTL

(* The entries a step leaves behind have one of the three causes: an        *)
(* UpdateWatch that librbd refused, a Close before Unwatch, or the Unwatch  *)
(* of an older watch on a reopened image.  Unwatch itself removes the very  *)
(* entry its watch has, as an entry is that of the watch with its number.  *)
THEOREM LeaksAreMisuse == Spec => LeaksOnlyOnMisuse
<1>. DEFINE Cause(n) == \E i \in Image :
               \/ pc[i].at = "watch"
               \/ image[i] # Nil /\ image'[i] = Nil
               \/ pc[i].at = "unwatch" /\ pc[i].w # cmap[n]
<1>. DEFINE OnlyOnMisuse == \A n \in Leaked' \ Leaked : Cause(n)
<1>1. IInv /\ [Next]_vars => [OnlyOnMisuse]_vars
  <2>. SUFFICES ASSUME IInv, Next, NEW n \in Leaked', n \notin Leaked
                PROVE  Cause(n)
    OBVIOUS
  <2>1. /\ n \in Id /\ cmap'[n] # Nil
        /\ \A r \in reg' : r.watch # cmap'[n]
        /\ \A j \in Image : pc'[j].w # cmap'[n]
    BY DEF Leaked, Id, Tracker!Id
  <2>2. cmap[n] # Nil => \/ \E r \in reg : r.watch = cmap[n]
                         \/ \E j \in Image : pc[j].w = cmap[n]
    BY <2>1 DEF Leaked
  <2>3. ASSUME UNCHANGED <<cmap, reg, pc>>
        PROVE  FALSE
    BY <2>1, <2>2, <2>3
  <2>4. ASSUME NEW i \in Image, NEW w \in Watch, UpdateWatch(i, w)
        PROVE  FALSE
    <3>1. PICK m \in Id : /\ cmap' = [cmap EXCEPT ![m] = w]
                          /\ pc[i] = Idle /\ pc' = [pc EXCEPT ![i] = [at |-> "watch", w |-> w]]
                          /\ reg' = reg
      BY <2>4 DEF UpdateWatch, Tracker!Add
    <3>2. cmap'[m] = w /\ pc'[i].w = w /\ \A j \in Image : j # i => pc'[j] = pc[j]
      BY <3>1 DEF IInv, TypeOK
    <3>3. n # m /\ cmap'[n] = cmap[n]
      BY <2>1, <3>1, <3>2 DEF IInv, TypeOK
    <3>. QED  BY <2>1, <2>2, <3>1, <3>2, <3>3 DEF Idle
  <2>5. ASSUME NEW i \in Image, NEW w \in Watch, Unwatch(i, w)
        PROVE  FALSE
    <3>1. /\ pc[i] = Idle /\ UNCHANGED <<cmap, reg>>
          /\ \A j \in Image : j # i => pc'[j] = pc[j]
      BY <2>5 DEF Unwatch, IInv, TypeOK
    <3>. QED  BY <2>1, <2>2, <3>1 DEF Idle
  <2>6. ASSUME NEW i \in Image, RbdUpdateUnwatch(i)
        PROVE  Cause(n)
    <3>1. pc[i].at = "unwatch" /\ cmap' = cmap /\ pc'[i].w = pc[i].w
      BY <2>6 DEF RbdUpdateUnwatch, IInv, TypeOK, Idle
    <3>. QED  BY <2>1, <3>1
  <2>7. ASSUME NEW i \in Image, RemoveCallback(i)
        PROVE  FALSE
    <3>1. /\ cmap' = [cmap EXCEPT ![watch[pc[i].w].cbIndex] = Nil] /\ reg' = reg
          /\ \A j \in Image : j # i => pc'[j] = pc[j]
      BY <2>7 DEF RemoveCallback, Tracker!Remove, IInv, TypeOK
    <3>2. n # watch[pc[i].w].cbIndex /\ cmap'[n] = cmap[n]
      BY <2>1, <3>1 DEF IInv, TypeOK
    <3>3. watch[cmap[n]].cbIndex = n
      BY <2>1, <3>2 DEF IInv, EntryInv
    <3>. QED  BY <2>1, <2>2, <3>1, <3>2, <3>3
  <2>8. ASSUME NEW i \in Image, Close(i) \/ RbdUpdateWatch(i) \/ RbdUpdateWatchFails(i)
        PROVE  Cause(n)
    BY <2>8 DEF Close, RbdUpdateWatch, RbdUpdateWatchFails, IInv, TypeOK
  <2>9. ASSUME NEW i \in Image, Open(i)
        PROVE  FALSE
    BY <2>3, <2>9 DEF Open
  <2>10. ASSUME NEW t \in CbThread, RbdNotify(t) \/ ImageWatchCallback(t)
         PROVE  FALSE
    BY <2>3, <2>10 DEF RbdNotify, ImageWatchCallback
  <2>. QED  BY <2>4, <2>5, <2>6, <2>7, <2>8, <2>9, <2>10 DEF Next
<1>. QED  BY <1>1, Invariance, PTL DEF Spec, LeaksOnlyOnMisuse
===============================================================================
