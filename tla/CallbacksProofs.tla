--------------------------- MODULE CallbacksProofs ---------------------------
(***************************************************************************)
(* The callback tracker for a counter of any width and any number of       *)
(* goroutines: numbers in use are never handed out twice, and the tracker  *)
(* implements CallbackMap.                                                 *)
(***************************************************************************)
EXTENDS Callbacks, FiniteSetTheorems, TLAPS

(* Whoever is inside Add has the lock, and keeps it from the moment getID   *)
(* has found a free number until the number is taken.                      *)
LockInv ==
    /\ \A c \in Client : pc[c] \in {"getID", "store"} => mutex = c
    /\ \A c \in Client : pc[c] = "store" => cmap[lastID] = None

(* The inductive invariant.                                                *)
IInv == TypeOK /\ LockInv /\ OwnEntry /\ NoStrayEntry

(* The counter wraps around inside its range.                              *)
LEMMA SuccInId == ASSUME NEW i \in Id PROVE Succ(i) \in Id
BY IdCountAssumption DEF Id, Succ

(* Zero is a value of the counter.                                         *)
LEMMA ZeroInId == 0 \in Id
BY IdCountAssumption DEF Id

(* No number is a client's value, and a number is not None.                *)
LEMMA NoneIsNoId == None \notin Id
BY NoneAssumption DEF Id

(* The invariant holds at the start.                                       *)
LEMMA InitIInv == Init => IInv
BY ZeroInId DEF Init, IInv, TypeOK, LockInv, OwnEntry, NoStrayEntry

(* Every step keeps it.                                                    *)
LEMMA NextIInv == IInv /\ [Next]_vars => IInv'
<1>. SUFFICES ASSUME IInv, [Next]_vars PROVE IInv'
  OBVIOUS
<1>. USE NoneAssumption DEF IInv
<1>1. ASSUME NEW c \in Client, AddLock(c)
      PROVE  IInv'
  <2>1. TypeOK'
    BY <1>1 DEF TypeOK, AddLock
  <2>2. LockInv'
    BY <1>1, NoClientAssumption DEF TypeOK, LockInv, AddLock
  <2>3. OwnEntry' /\ NoStrayEntry'
    BY <1>1 DEF TypeOK, OwnEntry, NoStrayEntry, AddLock
  <2>. QED  BY <2>1, <2>2, <2>3
<1>2. ASSUME NEW c \in Client, GetID(c)
      PROVE  IInv'
  <2>1. lastID' \in Id
    BY <1>2, SuccInId DEF TypeOK, GetID
  <2>2. TypeOK'
    BY <1>2, <2>1 DEF TypeOK, GetID
  <2>3. LockInv'
    BY <1>2, <2>1 DEF TypeOK, LockInv, GetID
  <2>4. OwnEntry' /\ NoStrayEntry'
    BY <1>2 DEF TypeOK, OwnEntry, NoStrayEntry, GetID
  <2>. QED  BY <2>2, <2>3, <2>4
<1>3. ASSUME NEW c \in Client, AddStore(c)
      PROVE  IInv'
  <2>1. TypeOK'
    BY <1>3 DEF TypeOK, AddStore
  <2>2. LockInv'
    BY <1>3 DEF TypeOK, LockInv, AddStore
  <2>3. OwnEntry'
    BY <1>3, NoneIsNoId DEF TypeOK, LockInv, OwnEntry, AddStore
  <2>4. NoStrayEntry'
    BY <1>3 DEF TypeOK, LockInv, NoStrayEntry, AddStore
  <2>. QED  BY <2>1, <2>2, <2>3, <2>4
<1>4. ASSUME NEW c \in Client, Remove(c)
      PROVE  IInv'
  <2>1. TypeOK'
    BY <1>4 DEF TypeOK, Remove
  <2>2. LockInv'
    BY <1>4, NoClientAssumption DEF TypeOK, LockInv, Remove
  <2>3. OwnEntry'
    BY <1>4 DEF TypeOK, OwnEntry, Remove
  <2>4. NoStrayEntry'
    BY <1>4 DEF TypeOK, OwnEntry, NoStrayEntry, Remove
  <2>. QED  BY <2>1, <2>2, <2>3, <2>4
<1>5. CASE UNCHANGED vars
  BY <1>5 DEF vars, TypeOK, LockInv, OwnEntry, NoStrayEntry
<1>. QED  BY <1>1, <1>2, <1>3, <1>4, <1>5 DEF Next

(* The inductive invariant is an invariant.                                *)
LEMMA Invariance == Spec => []IInv
BY InitIInv, NextIInv, PTL DEF Spec

(* Type correctness: the counter never leaves the range of a uintptr.      *)
THEOREM TypeCorrect == Spec => []TypeOK
<1>1. IInv => TypeOK
  BY DEF IInv
<1>. QED  BY <1>1, Invariance, PTL

(* What a client tracks is found under its number until it removes it.     *)
THEOREM EntriesAreKept == Spec => []OwnEntry
<1>1. IInv => OwnEntry
  BY DEF IInv
<1>. QED  BY <1>1, Invariance, PTL

(* Nothing else is in the map.                                             *)
THEOREM EntriesAreOwned == Spec => []NoStrayEntry
<1>1. IInv => NoStrayEntry
  BY DEF IInv
<1>. QED  BY <1>1, Invariance, PTL

(* Two clients never hold the same number: "getID returns a unique ID".    *)
THEOREM NumbersAreUnique ==
    Spec => [](\A c, d \in Client :
                  pc[c] = "held" /\ pc[d] = "held" /\ id[c] = id[d] => c = d)
<1>1. IInv => \A c, d \in Client :
                 pc[c] = "held" /\ pc[d] = "held" /\ id[c] = id[d] => c = d
  BY DEF IInv, OwnEntry
<1>. QED  BY <1>1, Invariance, PTL

----------------------------------------------------------------------------
(* The tracker implements CallbackMap.                                     *)

(* Counting on from a value of the counter.                                *)
LEMMA Around ==
    ASSUME NEW i \in Id, NEW k \in 0 .. IdCount
    PROVE  (i + k) % IdCount = IF i + k < IdCount THEN i + k ELSE i + k - IdCount
BY IdCountAssumption DEF Id

(* The first k numbers after start are taken.                              *)
Walked(k) == \A j \in 1 .. k : cmap[(start + j) % IdCount] # None

(* The loop has passed taken numbers only.  When it has been all the way    *)
(* around, it is where it started.                                         *)
WalkInv ==
    /\ mutex = NoClient => start = lastID
    /\ \A c \in Client : pc[c] = "getID" =>
          \E k \in 0 .. IdCount - 1 : lastID = (start + k) % IdCount /\ Walked(k)
    /\ \A c \in Client : pc[c] = "store" =>
          \E k \in 1 .. IdCount : lastID = (start + k) % IdCount /\ Walked(k - 1)

(* WalkInv holds at the start.                                             *)
LEMMA InitWalk == Init => WalkInv
BY NoClientAssumption DEF Init, WalkInv

(* Every step keeps it.                                                    *)
LEMMA NextWalk == IInv /\ WalkInv /\ [Next]_vars => WalkInv'
<1>. SUFFICES ASSUME IInv, WalkInv, [Next]_vars PROVE WalkInv'
  OBVIOUS
<1>0. \A c, d \in Client : pc[c] \in {"getID", "store"} /\ pc[d] \in {"getID", "store"} => c = d
  BY DEF IInv, LockInv
<1>1. ASSUME NEW c \in Client, AddLock(c)
      PROVE  WalkInv'
  <2>1. /\ start' = lastID /\ lastID' = lastID /\ pc' = [pc EXCEPT ![c] = "getID"]
        /\ mutex' = c /\ mutex = NoClient
    BY <1>1 DEF AddLock
  <2>2. lastID' = (start' + 0) % IdCount /\ Walked(0)'
    <3>1. /\ lastID \in Id /\ 0 \in 0 .. IdCount
          /\ lastID + 0 = lastID /\ lastID + 0 < IdCount
      BY IdCountAssumption DEF IInv, TypeOK, Id
    <3>2. (lastID + 0) % IdCount = lastID
      BY <3>1, Around
    <3>3. 1 .. 0 = {}
      OBVIOUS
    <3>. QED  BY <2>1, <3>2, <3>3 DEF Walked
  <2>3. \A d \in Client : pc'[d] # "store"
    BY <2>1, NoClientAssumption DEF IInv, TypeOK, LockInv
  <2>4. 0 \in 0 .. IdCount - 1
    BY IdCountAssumption
  <2>. QED  BY <2>1, <2>2, <2>3, <2>4, NoClientAssumption DEF WalkInv
<1>2. ASSUME NEW c \in Client, GetID(c)
      PROVE  WalkInv'
  <2>1. /\ pc[c] = "getID" /\ lastID' = Succ(lastID) /\ UNCHANGED <<cmap, mutex, start>>
        /\ pc' = [pc EXCEPT ![c] = IF cmap[lastID'] = None THEN "store" ELSE "getID"]
        /\ start \in Id /\ mutex = c
    BY <1>2 DEF GetID, IInv, TypeOK, LockInv
  <2>2. PICK k \in 0 .. IdCount - 1 : lastID = (start + k) % IdCount /\ Walked(k)
    BY <2>1 DEF WalkInv
  <2>3. k + 1 \in 1 .. IdCount /\ k \in Nat
    BY IdCountAssumption
  <2>4. lastID' = (start + (k + 1)) % IdCount
    <3>1. lastID = IF start + k < IdCount THEN start + k ELSE start + k - IdCount
      BY <2>1, <2>2, <2>3, Around, IdCountAssumption
    <3>2. (start + (k + 1)) % IdCount =
              IF start + (k + 1) < IdCount THEN start + (k + 1) ELSE start + (k + 1) - IdCount
      BY <2>1, <2>3, Around, IdCountAssumption
    <3>3. Succ(lastID) = IF lastID + 1 < IdCount THEN lastID + 1 ELSE lastID + 1 - IdCount
      BY Around, IdCountAssumption DEF IInv, TypeOK, Succ
    <3>. QED  BY <2>1, <2>3, <3>1, <3>2, <3>3, IdCountAssumption DEF Id
  <2>5. Walked(k)'
    BY <2>1, <2>2 DEF Walked
  <2>6. \A d \in Client : d # c => pc'[d] \notin {"getID", "store"}
    BY <2>1, <1>0 DEF IInv, TypeOK
  <2>7. mutex' # NoClient
    BY <2>1, NoClientAssumption
  <2>8. CASE cmap[lastID'] = None
    <3>1. pc'[c] = "store"
      BY <2>1, <2>8 DEF IInv, TypeOK
    <3>2. Walked((k + 1) - 1)'
      BY <2>3, <2>5
    <3>. QED  BY <2>1, <2>3, <2>4, <2>6, <2>7, <3>1, <3>2 DEF WalkInv
  <2>9. CASE cmap[lastID'] # None
    <3>1. pc'[c] = "getID"
      BY <2>1, <2>9 DEF IInv, TypeOK
    <3>2. \E m \in 0 .. IdCount - 1 : lastID' = (start' + m) % IdCount /\ Walked(m)'
      <4>1. CASE k + 1 < IdCount
        <5>1. Walked(k + 1)'
          <6>1. \A j \in 1 .. k + 1 : j \in 1 .. k \/ j = k + 1
            BY <2>3
          <6>2. \A j \in 1 .. k : cmap'[(start' + j) % IdCount] # None
            BY <2>5 DEF Walked
          <6>3. cmap'[(start' + (k + 1)) % IdCount] # None
            BY <2>1, <2>4, <2>9
          <6>4. \A j \in 1 .. k + 1 : cmap'[(start' + j) % IdCount] # None
            BY <6>1, <6>2, <6>3
          <6>. QED  BY <6>4 DEF Walked
        <5>2. k + 1 \in 0 .. IdCount - 1
          BY <2>3, <4>1, IdCountAssumption
        <5>3. lastID' = (start' + (k + 1)) % IdCount
          BY <2>1, <2>4
        <5>. QED  BY <5>1, <5>2, <5>3
      <4>2. CASE ~(k + 1 < IdCount)
        <5>1. k + 1 = IdCount
          BY <2>3, <4>2, IdCountAssumption
        <5>2. (start + IdCount) % IdCount = start /\ (start + 0) % IdCount = start
          <6>1. /\ start \in 0 .. IdCount - 1 /\ 0 \in 0 .. IdCount /\ IdCount \in 0 .. IdCount
                /\ start + 0 < IdCount /\ ~(start + IdCount < IdCount)
                /\ start + 0 = start /\ start + IdCount - IdCount = start
            BY <2>1, IdCountAssumption DEF Id
          <6>. QED  BY <2>1, <6>1, Around
        <5>3. Walked(0)'
          <6>1. 1 .. 0 = {}
            OBVIOUS
          <6>. QED  BY <6>1 DEF Walked
        <5>4. 0 \in 0 .. IdCount - 1
          BY IdCountAssumption
        <5>. QED  BY <2>1, <2>4, <5>1, <5>2, <5>3, <5>4
      <4>. QED  BY <4>1, <4>2
    <3>. QED  BY <2>6, <2>7, <3>1, <3>2 DEF WalkInv
  <2>. QED  BY <2>8, <2>9
<1>3. ASSUME NEW c \in Client, AddStore(c)
      PROVE  WalkInv'
  <2>1. /\ pc[c] = "store" /\ start' = lastID /\ lastID' = lastID
        /\ pc' = [pc EXCEPT ![c] = "held"]
    BY <1>3 DEF AddStore
  <2>2. \A d \in Client : pc'[d] \notin {"getID", "store"}
    BY <2>1, <1>0 DEF IInv, TypeOK
  <2>. QED  BY <2>1, <2>2 DEF WalkInv
<1>4. ASSUME NEW c \in Client, Remove(c)
      PROVE  WalkInv'
  <2>1. /\ mutex = NoClient /\ UNCHANGED <<lastID, mutex, start>>
        /\ pc' = [pc EXCEPT ![c] = "idle"]
    BY <1>4 DEF Remove
  <2>2. \A d \in Client : pc'[d] \notin {"getID", "store"}
    BY <2>1, NoClientAssumption DEF IInv, TypeOK, LockInv
  <2>. QED  BY <2>1, <2>2 DEF WalkInv
<1>5. CASE UNCHANGED vars
  BY <1>5 DEF vars, WalkInv, Walked
<1>. QED  BY <1>1, <1>2, <1>3, <1>4, <1>5 DEF Next

(* Every step is one of CallbackMap, or leaves its variables alone.         *)
LEMMA NextRefines == IInv /\ WalkInv /\ [Next]_vars => [Map!Next]_(Map!mapVars)
<1>. SUFFICES ASSUME IInv, WalkInv, [Next]_vars PROVE [Map!Next]_(Map!mapVars)
  OBVIOUS
<1>1. ASSUME NEW c \in Client, AddLock(c)
      PROVE  UNCHANGED Map!mapVars
  BY <1>1 DEF AddLock, WalkInv, Map!mapVars
<1>2. ASSUME NEW c \in Client, GetID(c)
      PROVE  UNCHANGED Map!mapVars
  BY <1>2 DEF GetID, Map!mapVars
<1>3. ASSUME NEW c \in Client, AddStore(c)
      PROVE  Map!Next
  <2>1. lastID \in Map!Id /\ cmap[lastID] = None
    BY <1>3 DEF AddStore, IInv, TypeOK, LockInv, Id, Map!Id
  <2>2. \E k \in 1 .. IdCount : lastID = (start + k) % IdCount /\ Walked(k - 1)
    BY <1>3 DEF AddStore, WalkInv
  <2>3. Map!IsNext(lastID)
    BY <2>1, <2>2 DEF Map!IsNext, Walked
  <2>4. Map!Add(lastID, c)
    BY <1>3, <2>3 DEF AddStore, Map!Add
  <2>. QED  BY <2>1, <2>4 DEF Map!Next
<1>4. ASSUME NEW c \in Client, Remove(c)
      PROVE  Map!Next
  <2>1. id[c] \in Map!Id
    BY <1>4 DEF Remove, IInv, OwnEntry, Id, Map!Id
  <2>2. Map!Remove(id[c])
    BY <1>4 DEF Remove, Map!Remove
  <2>. QED  BY <2>1, <2>2 DEF Map!Next
<1>5. CASE UNCHANGED vars
  BY <1>5 DEF vars, Map!mapVars
<1>. QED  BY <1>1, <1>2, <1>3, <1>4, <1>5 DEF Next

(* Add is atomic to everybody else, and hands out the next free number in   *)
(* the order of the counter.                                               *)
THEOREM Implementation == Spec => ImplementsMap
<1>1. Init => Map!Init
  BY DEF Init, Map!Init, Id, Map!Id
<1>2. IInv /\ WalkInv /\ [Next]_vars => WalkInv'
  BY NextWalk
<1>3. IInv /\ WalkInv /\ [Next]_vars => [Map!Next]_(Map!mapVars)
  BY NextRefines
<1>. QED
  BY <1>1, <1>2, <1>3, InitWalk, Invariance, PTL DEF Spec, ImplementsMap, Map!Spec
----------------------------------------------------------------------------
(* The loop of getID ends.                                                 *)

(* The d-th number from here is free.                                      *)
FreeAt(d) == cmap[(lastID + d) % IdCount] = None

(* A goroutine in the loop has a free number ahead of it within one round   *)
(* of the counter.  A round of the loop takes it or comes one nearer, and  *)
(* nobody takes it away meanwhile.                                         *)
FreeAhead == \A c \in Client : pc[c] = "getID" => \E d \in 1 .. IdCount : FreeAt(d)

Nearer == \A c \in Client, d \in 1 .. IdCount :
    pc[c] = "getID" /\ FreeAt(d) =>
        \/ GetID(c) /\ (pc'[c] = "store" \/ (d > 1 /\ FreeAt(d - 1)'))
        \/ ~GetID(c) /\ pc'[c] = "getID" /\ FreeAt(d)'

(* The numbers that are taken belong to different clients, and none to one  *)
(* that is still looking.                                                  *)
LEMMA SomeFree ==
    ASSUME IInv, NEW c \in Client, pc[c] = "getID",
           IsFiniteSet(Client), Cardinality(Client) <= IdCount
    PROVE  \E i \in Id : cmap[i] = None
<1>. SUFFICES ASSUME \A i \in Id : cmap[i] # None PROVE FALSE
  OBVIOUS
<1>. DEFINE Others == Client \ {c}
<1>1. IsFiniteSet(Others) /\ Cardinality(Others) = Cardinality(Client) - 1
  BY FS_RemoveElement
<1>2. IsFiniteSet(Id) /\ Cardinality(Id) = IdCount
  BY FS_Interval, IdCountAssumption DEF Id
<1>3. cmap \in [Id -> Others] /\ \A i, j \in Id : cmap[i] = cmap[j] => i = j
  <2>1. \A i \in Id : cmap[i] \in Client /\ pc[cmap[i]] = "held" /\ id[cmap[i]] = i
    BY DEF IInv, TypeOK, NoStrayEntry
  <2>. QED  BY <2>1 DEF IInv, TypeOK
<1>4. Cardinality(Client) \in Nat
  BY FS_CardinalityType
<1>5. Cardinality(Others) < Cardinality(Id)
  BY <1>1, <1>2, <1>4, IdCountAssumption
<1>6. \E i, j \in Id : i # j /\ cmap[i] = cmap[j]
  BY <1>1, <1>2, <1>3, <1>5, FS_PigeonHole
<1>. QED  BY <1>3, <1>6

(* From any number all the others come up within one round.                *)
LEMMA Reaches ==
    ASSUME NEW i \in Id, NEW j \in Id
    PROVE  \E d \in 1 .. IdCount : (i + d) % IdCount = j
<1>1. i \in 0 .. IdCount - 1 /\ j \in 0 .. IdCount - 1
  BY DEF Id
<1>2. CASE j > i
  <2>1. j - i \in 1 .. IdCount /\ i + (j - i) = j /\ j < IdCount
    BY <1>1, <1>2, IdCountAssumption
  <2>2. (i + (j - i)) % IdCount = j
    BY <1>1, <2>1, IdCountAssumption
  <2>. QED  BY <2>1, <2>2
<1>3. CASE j <= i
  <2>. DEFINE d == IdCount + j - i
  <2>1. d \in 1 .. IdCount /\ d \in 0 .. IdCount /\ i + d - IdCount = j /\ ~(i + d < IdCount)
    BY <1>1, <1>3, IdCountAssumption
  <2>. HIDE DEF d
  <2>2. (i + d) % IdCount = j
    BY <2>1, Around
  <2>. QED  BY <2>1, <2>2
<1>. QED  BY <1>1, <1>2, <1>3

(* Add returns as soon as it may run: its loop meets a free number in at    *)
(* most as many rounds as the counter has values, as long as no more       *)
(* values are tracked at once than there are numbers.                      *)
THEOREM LoopEnds ==
    ASSUME IsFiniteSet(Client), Cardinality(Client) <= IdCount
    PROVE  Spec => []FreeAhead /\ [][Nearer]_vars
<1>1. IInv => FreeAhead
  <2>. SUFFICES ASSUME IInv, NEW c \in Client, pc[c] = "getID"
                PROVE  \E d \in 1 .. IdCount : FreeAt(d)
    BY DEF FreeAhead
  <2>1. PICK i \in Id : cmap[i] = None
    BY SomeFree
  <2>2. lastID \in Id
    BY DEF IInv, TypeOK
  <2>. QED  BY <2>1, <2>2, Reaches DEF FreeAt
<1>2. ASSUME IInv, [Next]_vars, NEW c \in Client, NEW d \in 1 .. IdCount,
             pc[c] = "getID", FreeAt(d)
      PROVE  \/ GetID(c) /\ (pc'[c] = "store" \/ (d > 1 /\ FreeAt(d - 1)'))
             \/ ~GetID(c) /\ pc'[c] = "getID" /\ FreeAt(d)'
  <2>1. mutex = c /\ mutex # NoClient /\ lastID \in Id
    BY <1>2, NoClientAssumption DEF IInv, LockInv, TypeOK
  <2>2. CASE GetID(c)
    <3>1. /\ lastID' = Succ(lastID) /\ cmap' = cmap
          /\ cmap[lastID'] = None => pc'[c] = "store"
      BY <1>2, <2>2 DEF GetID, IInv, TypeOK
    <3>2. CASE d = 1
      BY <1>2, <2>2, <3>1, <3>2 DEF FreeAt, Succ
    <3>3. CASE d # 1
      <4>1. d \in 0 .. IdCount /\ d - 1 \in 1 .. IdCount /\ d - 1 \in 0 .. IdCount /\ d > 1
            /\ 1 \in 0 .. IdCount /\ lastID \in 0 .. IdCount - 1
        BY <2>1, <3>3, IdCountAssumption DEF Id
      <4>2. (lastID + 1) % IdCount = IF lastID + 1 < IdCount THEN lastID + 1 ELSE lastID + 1 - IdCount
        BY <2>1, <4>1, Around
      <4>3. (lastID + d) % IdCount = IF lastID + d < IdCount THEN lastID + d ELSE lastID + d - IdCount
        BY <2>1, <4>1, Around
      <4>4. Succ(lastID) \in Id
        BY <2>1, SuccInId
      <4>5. (Succ(lastID) + (d - 1)) % IdCount =
                IF Succ(lastID) + (d - 1) < IdCount THEN Succ(lastID) + (d - 1)
                ELSE Succ(lastID) + (d - 1) - IdCount
        BY <4>1, <4>4, Around
      <4>6. (Succ(lastID) + (d - 1)) % IdCount = (lastID + d) % IdCount
        BY <4>1, <4>2, <4>3, <4>5, IdCountAssumption DEF Succ
      <4>. QED  BY <1>2, <2>2, <3>1, <4>1, <4>6 DEF FreeAt
    <3>. QED  BY <3>2, <3>3
  <2>3. CASE ~GetID(c)
    <3>1. UNCHANGED <<cmap, lastID>> /\ pc'[c] = pc[c]
      <4>1. ASSUME NEW b \in Client, AddLock(b) \/ Remove(b)
            PROVE  FALSE
        BY <2>1, <4>1 DEF AddLock, Remove
      <4>2. ASSUME NEW b \in Client, GetID(b) \/ AddStore(b)
            PROVE  FALSE
        BY <1>2, <2>1, <2>3, <4>2 DEF GetID, AddStore, IInv, LockInv
      <4>. QED  BY <1>2, <4>1, <4>2 DEF Next, vars
    <3>. QED  BY <1>2, <2>3, <3>1 DEF FreeAt
  <2>. QED  BY <2>2, <2>3
<1>3. IInv /\ [Next]_vars => [Nearer]_vars
  BY <1>2 DEF Nearer
<1>. QED  BY <1>1, <1>3, Invariance, PTL DEF Spec
=============================================================================
