---------------------------- MODULE ListingProofs ----------------------------
(***************************************************************************)
(* The listings of PagedListing for every number of keys and size of pages. *)
(***************************************************************************)
EXTENDS PagedListing, FiniteSetTheorems, TLAPS

(* All that has been there all the time is behind the key to go on after.   *)
AllPassed == \A k \in always : k <= after

(* The listing knows only what has been there.                             *)
Sound ==
    /\ always \subseteq Wanted(store) /\ Wanted(store) \subseteq ever
    /\ result \subseteq ever /\ buf \subseteq ever

(* The buffer of an iterator has no gap either.                            *)
BufferInv ==
    /\ buf # {} => kind \in {"iter", "status"} /\ pc = "read"
    /\ \A b \in buf, k \in always : k <= b => k \in result \union buf

(* Each way to tell the end is right.                                      *)
EndInv ==
    /\ pc = "check" => kind \in {"omap", "mirror", "objects"}
    /\ kind = "nobjects" /\ pc = "read" => err = "nil"
    /\ kind = "omap" => \A j \in result : j <= after
    /\ kind = "omap" /\ pc = "read" => size = Cardinality(result)
    /\ kind = "omap" /\ pc = "check" /\ Cardinality(result) = size => AllPassed
    /\ kind # "omap" /\ pc = "check" /\ got < PageSize => AllPassed
    /\ pc = "ok" => err = "error" \/ always \subseteq result

IInv == TypeOK /\ NoGap /\ Sound /\ BufferInv /\ EndInv

----------------------------------------------------------------------------
(* A smaller subset is below a larger one in the library's ordering.       *)
LEMMA StrictSubset ==
    ASSUME NEW S, NEW A \in SUBSET S, NEW B \in SUBSET S, A \subseteq B, A # B
    PROVE  <<A, B>> \in StrictSubsetOrdering(S)
BY DEF StrictSubsetOrdering

(* A finite set of numbers has a least and a greatest element.             *)
LEMMA LeastExists ==
    ASSUME NEW S \in SUBSET Int, IsFiniteSet(S), S # {}
    PROVE  \E k \in S : \A j \in S : k <= j
<1>. DEFINE Below(k) == {j \in S : j <= k}
            Sets == {Below(k) : k \in S}
<1>1. \A k \in S : IsFiniteSet(Below(k))
  BY FS_Subset
<1>2. PICK B \in Sets : \A C \in Sets : <<C, B>> \notin StrictSubsetOrdering(S)
  <2>1. Sets \subseteq FiniteSubsetsOf(S) /\ Sets # {}
    BY <1>1 DEF FiniteSubsetsOf
  <2>. QED  BY <2>1, FS_StrictSubsetOrderingWellFounded, WFMin
<1>3. PICK k \in S : B = Below(k)
  BY <1>2
<1>4. ASSUME NEW j \in S, j < k
      PROVE  FALSE
  <2>. \A i \in S : i \in Int
    OBVIOUS
  <2>1. Below(j) \subseteq Below(k) /\ k \in Below(k) /\ k \notin Below(j)
    <3>1. (\A i \in S : i <= j => i <= k) /\ k <= k /\ ~(k <= j)
      BY <1>4
    <3>. QED  BY <3>1, Zenon
  <2>2. Below(j) \in SUBSET S /\ Below(k) \in SUBSET S /\ Below(j) # Below(k)
    BY <2>1
  <2>3. <<Below(j), Below(k)>> \in StrictSubsetOrdering(S)
    <3>. HIDE DEF Below
    <3>. QED  BY <2>1, <2>2, StrictSubset
  <2>4. Below(j) \in Sets
    OBVIOUS
  <2>. HIDE DEF Below, Sets
  <2>. QED  BY <2>3, <2>4, <1>2, <1>3
<1>. QED  BY <1>4

(* And the same for the greatest.                                          *)
LEMMA GreatestExists ==
    ASSUME NEW S \in SUBSET Int, IsFiniteSet(S), S # {}
    PROVE  \E k \in S : \A j \in S : j <= k
<1>. DEFINE Above(k) == {j \in S : j >= k}
            Sets == {Above(k) : k \in S}
<1>1. \A k \in S : IsFiniteSet(Above(k))
  BY FS_Subset
<1>2. PICK B \in Sets : \A C \in Sets : <<C, B>> \notin StrictSubsetOrdering(S)
  <2>1. Sets \subseteq FiniteSubsetsOf(S) /\ Sets # {}
    BY <1>1 DEF FiniteSubsetsOf
  <2>. QED  BY <2>1, FS_StrictSubsetOrderingWellFounded, WFMin
<1>3. PICK k \in S : B = Above(k)
  BY <1>2
<1>4. ASSUME NEW j \in S, j > k
      PROVE  FALSE
  <2>. \A i \in S : i \in Int
    OBVIOUS
  <2>1. Above(j) \subseteq Above(k) /\ k \in Above(k) /\ k \notin Above(j)
    <3>1. (\A i \in S : i >= j => i >= k) /\ k >= k /\ ~(k >= j)
      BY <1>4
    <3>. QED  BY <3>1, Zenon
  <2>2. Above(j) \in SUBSET S /\ Above(k) \in SUBSET S /\ Above(j) # Above(k)
    BY <2>1
  <2>3. <<Above(j), Above(k)>> \in StrictSubsetOrdering(S)
    <3>. HIDE DEF Above
    <3>. QED  BY <2>1, <2>2, StrictSubset
  <2>4. Above(j) \in Sets
    OBVIOUS
  <2>. HIDE DEF Above, Sets
  <2>. QED  BY <2>3, <2>4, <1>2, <1>3
<1>. QED  BY <1>4

(* Every set of keys is finite.                                            *)
LEMMA KeysAreFinite ==
    ASSUME NEW S \in SUBSET Key
    PROVE  IsFiniteSet(S) /\ Cardinality(S) \in 0 .. KeyCount
<1>1. IsFiniteSet(Key) /\ Cardinality(Key) = KeyCount
  BY FS_Interval, KeyCountAssumption DEF Key
<1>2. IsFiniteSet(S) /\ Cardinality(S) <= KeyCount
  BY <1>1, FS_Subset
<1>. QED  BY <1>2, FS_CardinalityType, KeyCountAssumption

(* What First and Last choose.                                             *)
LEMMA FirstIs ==
    ASSUME NEW S \in SUBSET Key, S # {}
    PROVE  First(S) \in S /\ \A j \in S : First(S) <= j
<1>1. \E k \in S : \A j \in S : k <= j
  BY LeastExists, KeysAreFinite DEF Key
<1>. QED  BY <1>1 DEF First

(* Last is the greatest key, or the default when there is none.            *)
LEMMA LastIs ==
    ASSUME NEW S \in SUBSET Key, NEW d
    PROVE  /\ S = {} => Last(S, d) = d
           /\ S # {} => Last(S, d) \in S /\ \A j \in S : j <= Last(S, d)
<1>1. S # {} => \E k \in S : \A j \in S : j <= k
  BY GreatestExists, KeysAreFinite DEF Key
<1>. QED  BY <1>1 DEF Last

(* What one call returns: the beginning of the rest, and all of it when the *)
(* page is not full.                                                       *)
LEMMA PageIs ==
    ASSUME store \subseteq Key, NEW k \in Nat
    PROVE  /\ Rest(k) \subseteq Key /\ Page(k) \subseteq Rest(k)
           /\ \A j \in Page(k), i \in Rest(k) : i <= j => i \in Page(k)
           /\ Cardinality(Page(k)) < PageSize => Page(k) = Rest(k)
           /\ Page(k) = {} => Rest(k) = {}
<1>. DEFINE R == Rest(k)
            P == Page(k)
            Upto(j) == {i \in R : i <= j}
<1>1. R \subseteq Key
  BY DEF Rest, Wanted
<1>2. P = {j \in R : Cardinality(Upto(j)) <= PageSize}
  BY DEF Page
<1>3. \A j \in R : Upto(j) \in SUBSET Key
  BY <1>1
<1>. HIDE DEF R, P
<1>4. ASSUME NEW j \in P, NEW i \in R, i <= j
      PROVE  i \in P
  <2>1. Upto(i) \subseteq Upto(j)
    <3>1. j \in R
      BY <1>2
    <3>2. \A x \in R : x <= i => x <= j
      BY <3>1, <1>1, <1>4 DEF Key
    <3>. QED  BY <3>2, Zenon
  <2>2. IsFiniteSet(Upto(j)) /\ Cardinality(Upto(j)) <= PageSize
    <3>1. j \in R /\ Cardinality(Upto(j)) <= PageSize
      BY <1>2
    <3>2. Upto(j) \in SUBSET Key
      BY <3>1, <1>3
    <3>. HIDE DEF Upto
    <3>. QED  BY <3>1, <3>2, KeysAreFinite
  <2>3. Cardinality(Upto(i)) <= Cardinality(Upto(j)) /\ IsFiniteSet(Upto(i))
    <3>. HIDE DEF Upto
    <3>. QED  BY <2>1, <2>2, FS_Subset
  <2>4. Cardinality(Upto(i)) \in Nat /\ Cardinality(Upto(j)) \in Nat
    BY <2>2, <2>3, FS_CardinalityType
  <2>. QED  BY <2>2, <2>3, <2>4, <1>2, SizeAssumption
<1>5. ASSUME Cardinality(P) < PageSize
      PROVE  P = R
  <2>. SUFFICES ASSUME R \ P # {} PROVE FALSE
    BY <1>2
  <2>1. PICK j \in R \ P : \A i \in R \ P : j <= i
    <3>1. R \ P \in SUBSET Key
      BY <1>1
    <3>2. R \ P \in SUBSET Int
      BY <3>1 DEF Key
    <3>3. IsFiniteSet(R \ P)
      BY <3>1, KeysAreFinite
    <3>. QED  BY <3>2, <3>3, LeastExists
  <2>2. Upto(j) \ {j} \subseteq P /\ j \in Upto(j)
    <3>1. j <= j /\ \A x \in R : x <= j /\ x # j => x \in P
      BY <1>1, <2>1 DEF Key
    <3>. QED  BY <3>1, <2>1, Zenon
  <2>3. P \in SUBSET Key /\ IsFiniteSet(P) /\ Cardinality(P) \in Nat
    <3>1. P \in SUBSET Key
      BY <1>1, <1>2
    <3>. QED  BY <3>1, KeysAreFinite, FS_CardinalityType
  <2>4. IsFiniteSet(Upto(j)) /\ Cardinality(Upto(j)) \in Nat
    <3>1. Upto(j) \in SUBSET Key
      BY <1>3, <2>1
    <3>. HIDE DEF Upto
    <3>. QED  BY <3>1, KeysAreFinite, FS_CardinalityType
  <2>5. Cardinality(Upto(j) \ {j}) <= Cardinality(P)
    <3>. HIDE DEF Upto
    <3>. QED  BY <2>2, <2>3, FS_Subset
  <2>6. Cardinality(Upto(j) \ {j}) = Cardinality(Upto(j)) - 1
    <3>. HIDE DEF Upto
    <3>. QED  BY <2>2, <2>4, FS_RemoveElement
  <2>7. Cardinality(Upto(j)) <= PageSize
    BY <2>3, <2>4, <2>5, <2>6, <1>5, SizeAssumption
  <2>. QED  BY <2>1, <2>7, <1>2
<1>6. P = {} => R = {}
  <2>1. Cardinality({}) = 0
    BY FS_EmptySet
  <2>. QED  BY <2>1, <1>5, SizeAssumption
<1>. QED  BY <1>1, <1>2, <1>4, <1>5, <1>6 DEF R, P

(* What the next page means for the listing.                               *)
LEMMA NextPage ==
    ASSUME IInv
    PROVE  LET P == Page(after)  L == Last(Page(after), after) IN
           /\ P \subseteq Key /\ P \subseteq ever /\ \A j \in P : after < j /\ j <= L
           /\ L \in 0 .. KeyCount /\ after <= L
           /\ Cardinality(P) \in 0 .. KeyCount
           /\ \A k \in always : k <= L => k <= after \/ k \in P
           /\ \A k \in always, j \in P : k <= j => k <= after \/ k \in P
           /\ Cardinality(P) < PageSize => \A k \in always : k <= L
           /\ P = {} => \A k \in always : k <= after
<1>. DEFINE P == Page(after)
            L == Last(Page(after), after)
<1>1. store \subseteq Key /\ after \in 0 .. KeyCount /\ after \in Nat /\ always \subseteq Key
  BY KeyCountAssumption DEF IInv, TypeOK
<1>2. /\ Rest(after) \subseteq Key /\ P \subseteq Rest(after)
      /\ \A j \in P, i \in Rest(after) : i <= j => i \in P
      /\ Cardinality(P) < PageSize => P = Rest(after)
      /\ P = {} => Rest(after) = {}
  BY <1>1, PageIs
<1>3. /\ \A j \in Rest(after) : j > after /\ j \in ever
      /\ \A k \in always : k > after => k \in Rest(after)
  BY DEF Rest, IInv, Sound
<1>4. P \in SUBSET Key /\ Cardinality(P) \in 0 .. KeyCount
  BY <1>2, KeysAreFinite
<1>5. /\ P = {} => L = after
      /\ P # {} => L \in P /\ \A j \in P : j <= L
  BY <1>4, LastIs
<1>. HIDE DEF P, L
<1>6. L \in 0 .. KeyCount /\ after <= L /\ \A j \in P : after < j /\ j <= L
  <2>1. \A j \in P : j \in 1 .. KeyCount /\ after < j
    BY <1>1, <1>2, <1>3 DEF Key
  <2>2. CASE P = {}
    BY <2>2, <1>1, <1>5
  <2>3. CASE P # {}
    <3>1. L \in P /\ \A j \in P : j <= L
      BY <2>3, <1>5
    <3>2. L \in 1 .. KeyCount /\ after < L
      BY <2>1, <3>1
    <3>3. L \in 0 .. KeyCount /\ after <= L
      BY <3>2, <1>1, KeyCountAssumption
    <3>. QED  BY <2>1, <3>1, <3>3
  <2>. QED  BY <2>2, <2>3
<1>7. \A k \in always, j \in P : k <= j => k <= after \/ k \in P
  BY <1>1, <1>2, <1>3 DEF Key
<1>8. \A k \in always : k <= L => k <= after \/ k \in P
  BY <1>5, <1>7
<1>9. Cardinality(P) < PageSize => \A k \in always : k <= L
  <2>1. ASSUME P = Rest(after), NEW k \in always
        PROVE  k <= L
    <3>1. CASE k <= after
      BY <3>1, <1>1, <1>6 DEF Key
    <3>2. CASE k > after
      BY <2>1, <3>2, <1>3, <1>6
    <3>. QED  BY <3>1, <3>2, <1>1 DEF Key
  <2>. QED  BY <2>1, <1>2
<1>10. P = {} => \A k \in always : k <= after
  BY <1>1, <1>2, <1>3 DEF Key
<1>11. P \subseteq ever
  BY <1>2, <1>3
<1>. QED
  BY <1>4, <1>6, <1>7, <1>8, <1>9, <1>10, <1>11 DEF P, L

----------------------------------------------------------------------------
(* The invariant holds at the start.                                       *)
LEMMA InitIInv == Init => IInv
<1>. SUFFICES ASSUME Init PROVE IInv
  OBVIOUS
<1>1. store \in SUBSET Key /\ Start \in 0 .. KeyCount
  BY StartAssumption, KeyCountAssumption DEF Init, Start
<1>2. /\ Wanted(store) \subseteq Key /\ \A k \in Wanted(store) : k > Start
  BY <1>1 DEF Wanted
<1>3. Cardinality({}) = 0
  BY FS_EmptySet
<1>4. TypeOK
  BY <1>1, <1>2, KeyCountAssumption, SizeAssumption, ErrorsAssumption DEF Init, TypeOK
<1>5. NoGap
  BY <1>1, <1>2, KeyCountAssumption DEF Init, NoGap, Key
<1>6. Sound /\ BufferInv /\ EndInv
  BY <1>2, <1>3 DEF Init, Sound, BufferInv, EndInv
<1>. QED  BY <1>4, <1>5, <1>6 DEF IInv

(* Other clients can only shorten what has been there all the time.         *)
LEMMA WriteKeeps == ASSUME IInv, Write PROVE IInv'
<1>1. /\ store' \in SUBSET Key /\ always' = always \intersect store'
      /\ ever' = ever \union Wanted(store')
      /\ UNCHANGED <<kind, pc, after, result, size, got, buf, err, errors>>
  BY DEF Write
<1>2. Wanted(store)' = Wanted(store') /\ Wanted(store') \subseteq Key
  BY <1>1 DEF Wanted, Start, Filtered
<1>3. \A k \in always : k \in store' => k \in Wanted(store')
  BY DEF IInv, Sound, Wanted
<1>4. TypeOK'
  BY <1>1, <1>2 DEF IInv, TypeOK
<1>5. NoGap' /\ BufferInv' /\ EndInv'
  BY <1>1 DEF IInv, NoGap, BufferInv, EndInv, AllPassed
<1>6. Sound'
  BY <1>1, <1>2, <1>3 DEF IInv, Sound
<1>. QED  BY <1>4, <1>5, <1>6 DEF IInv

(* What a step of the listing leaves of the world outside.                 *)
LEMMA SameWanted ==
    ASSUME UNCHANGED world PROVE Wanted(store)' = Wanted(store) /\ AllPassed' = (\A k \in always : k <= after')
BY DEF world, Wanted, Start, Filtered, AllPassed

(* A page is added to the result.                                          *)
LEMMA ReadPageKeeps == ASSUME IInv, ReadPage PROVE IInv'
<1>. DEFINE P == Page(after)
            L == Last(Page(after), after)
<1>1. /\ kind \in {"omap", "mirror", "objects"} /\ pc = "read" /\ pc' = "check"
      /\ result' = result \union P /\ after' = L /\ got' = Cardinality(P)
      /\ UNCHANGED <<size, buf, err, errors>> /\ UNCHANGED world
  BY DEF ReadPage
<1>2. /\ P \subseteq Key /\ P \subseteq ever /\ \A j \in P : after < j /\ j <= L
      /\ L \in 0 .. KeyCount /\ after <= L
      /\ Cardinality(P) \in 0 .. KeyCount
      /\ \A k \in always : k <= L => k <= after \/ k \in P
      /\ Cardinality(P) < PageSize => \A k \in always : k <= L
      /\ P = {} => \A k \in always : k <= after
  BY NextPage
<1>. HIDE DEF P, L
<1>3. TypeOK'
  BY <1>1, <1>2 DEF IInv, TypeOK, world
<1>4. NoGap'
  BY <1>1, <1>2 DEF IInv, NoGap, world
<1>5. Sound'
  BY <1>1, <1>2, SameWanted DEF IInv, Sound, world
<1>6. BufferInv'
  BY <1>1 DEF IInv, BufferInv, world
<1>7. kind = "omap" => \A j \in result' : j <= L
  BY <1>1, <1>2, KeyCountAssumption DEF IInv, TypeOK, EndInv, Key
<1>8. ASSUME kind = "omap", Cardinality(result') = size
      PROVE  \A k \in always : k <= L
  <2>1. result' \in SUBSET Key /\ IsFiniteSet(result')
    BY <1>1, <1>2, KeysAreFinite DEF IInv, TypeOK
  <2>2. result = result'
    <3>1. Cardinality(result) = Cardinality(result')
      BY <1>1, <1>8 DEF IInv, EndInv
    <3>2. result \in SUBSET result'
      BY <1>1
    <3>. QED  BY <2>1, <3>1, <3>2, FS_Subset
  <2>3. P = {}
    <3>1. \A j \in P : j \in result /\ j <= after /\ after < j
      BY <1>1, <1>2, <1>8, <2>2 DEF IInv, EndInv
    <3>2. \A j \in P : j \in Nat
      BY <1>2 DEF Key
    <3>. QED  BY <3>1, <3>2, KeyCountAssumption DEF IInv, TypeOK
  <2>4. after \in Nat /\ L \in Nat /\ \A k \in always : k \in Nat
    BY <1>2, KeyCountAssumption DEF IInv, TypeOK, Key
  <2>. QED  BY <1>2, <2>3, <2>4
<1>9. EndInv'
  BY <1>1, <1>2, <1>7, <1>8, SameWanted DEF IInv, EndInv, world
<1>. QED  BY <1>3, <1>4, <1>5, <1>6, <1>9 DEF IInv

(* What ends a listing is behind it.                                       *)
LEMMA PassedIsFound ==
    ASSUME IInv, AllPassed PROVE always \subseteq result \union buf
BY DEF IInv, NoGap, AllPassed

(* A check that ends the listing has seen all there is to see.             *)
LEMMA EndsRight ==
    ASSUME IInv, NEW atEnd \in BOOLEAN, Check(atEnd), pc' = "ok"
    PROVE  AllPassed
<1>1. kind \in {"omap", "mirror", "objects"} /\ pc = "check"
  BY DEF IInv, EndInv, Check
<1>2. CASE kind = "omap"
  <2>1. OmapEnds
    BY <1>2, Zenon DEF Check
  <2>. QED  BY <1>1, <1>2, <2>1 DEF IInv, EndInv, OmapEnds
<1>3. CASE kind = "mirror"
  <2>1. MirrorEnds
    BY <1>3, Zenon DEF Check
  <2>. QED  BY <1>1, <1>3, <2>1 DEF IInv, EndInv, MirrorEnds
<1>4. CASE kind = "objects"
  <2>1. ObjectsEnd(atEnd)
    BY <1>4, Zenon DEF Check
  <2>2. Rest(after) = {} => AllPassed
    BY KeyCountAssumption DEF Rest, IInv, Sound, TypeOK, AllPassed, Key
  <2>. QED  BY <1>1, <1>4, <2>1, <2>2 DEF IInv, EndInv, ObjectsEnd
<1>. QED  BY <1>1, <1>2, <1>3, <1>4

(* The check for the end.                                                  *)
LEMMA CheckKeeps == ASSUME IInv, NEW atEnd \in BOOLEAN, Check(atEnd) PROVE IInv'
<1>1. /\ pc = "check" /\ pc' \in {"ok", "read"}
      /\ size' = IF kind = "omap" THEN Cardinality(result) ELSE size
      /\ UNCHANGED <<after, result, got, buf, err, errors>> /\ UNCHANGED world
  BY Zenon DEF Check
<1>2. Cardinality(result) \in 0 .. KeyCount
  BY KeysAreFinite DEF IInv, TypeOK
<1>3. TypeOK'
  BY <1>1, <1>2, KeyCountAssumption, SizeAssumption DEF IInv, TypeOK, world
<1>4. NoGap' /\ BufferInv'
  BY <1>1 DEF IInv, NoGap, BufferInv, world
<1>5. Sound'
  BY <1>1, SameWanted DEF IInv, Sound, world
<1>6. kind # "nobjects" /\ buf = {}
  BY <1>1 DEF IInv, EndInv, BufferInv
<1>7. pc' = "ok" => always \subseteq result
  BY <1>6, EndsRight, PassedIsFound
<1>8. EndInv'
  BY <1>1, <1>6, <1>7, SameWanted DEF IInv, EndInv, world
<1>. QED  BY <1>3, <1>4, <1>5, <1>8 DEF IInv

(* An iterator reads the next page into its buffer.                        *)
LEMMA FetchKeeps == ASSUME IInv, Fetch PROVE IInv'
<1>. DEFINE P == Page(after)
            L == Last(Page(after), after)
<1>1. /\ kind \in {"iter", "status"} /\ pc = "read" /\ buf = {} /\ buf' = P
      /\ after' = IF kind = "iter" THEN L ELSE after
      /\ pc' = IF P = {} THEN "ok" ELSE "read"
      /\ err' = "nil"
      /\ UNCHANGED <<result, size, got, errors>> /\ UNCHANGED world
  BY DEF Fetch
<1>2. /\ P \subseteq Key /\ P \subseteq ever
      /\ L \in 0 .. KeyCount
      /\ \A k \in always : k <= L => k <= after \/ k \in P
      /\ \A k \in always, j \in P : k <= j => k <= after \/ k \in P
      /\ P = {} => \A k \in always : k <= after
  BY NextPage
<1>. HIDE DEF P, L
<1>3. TypeOK'
  BY <1>1, <1>2 DEF IInv, TypeOK, world
<1>4. NoGap'
  BY <1>1, <1>2 DEF IInv, NoGap, world
<1>5. Sound'
  BY <1>1, <1>2, SameWanted DEF IInv, Sound, world
<1>6. BufferInv'
  BY <1>1, <1>2 DEF IInv, BufferInv, NoGap, world
<1>7. P = {} => always \subseteq result
  BY <1>1, <1>2, PassedIsFound DEF AllPassed
<1>8. EndInv'
  BY <1>1, <1>7 DEF IInv, EndInv, world
<1>. QED  BY <1>3, <1>4, <1>5, <1>6, <1>8 DEF IInv

(* An iterator hands out the first item of its buffer.                     *)
LEMMA HandOutKeeps == ASSUME IInv, HandOut PROVE IInv'
<1>. DEFINE f == First(buf)
<1>1. /\ kind \in {"iter", "status"} /\ pc = "read" /\ buf # {}
      /\ result' = result \union {f} /\ buf' = buf \ {f}
      /\ after' = IF kind = "status" THEN f ELSE after
      /\ UNCHANGED <<pc, size, got, err, errors>> /\ UNCHANGED world
  BY DEF HandOut
<1>2. f \in buf /\ f \in Key
  BY <1>1, FirstIs DEF IInv, TypeOK
<1>. HIDE DEF f
<1>3. TypeOK'
  BY <1>1, <1>2, KeyCountAssumption DEF IInv, TypeOK, world, Key
<1>4. NoGap'
  BY <1>1, <1>2 DEF IInv, NoGap, BufferInv, world
<1>5. Sound'
  BY <1>1, <1>2, SameWanted DEF IInv, Sound, world
<1>6. BufferInv'
  BY <1>1, <1>2 DEF IInv, BufferInv, world
<1>7. EndInv'
  BY <1>1 DEF IInv, EndInv, world
<1>. QED  BY <1>3, <1>4, <1>5, <1>6, <1>7 DEF IInv

(* An entry is read, and skipped or not.                                   *)
LEMMA ReadEntryKeeps == ASSUME IInv, ReadEntry PROVE IInv'
<1>. DEFINE S == {k \in store : k > after}
            f == NextEntry
            add == IF Wanted({f}) = {} THEN {} ELSE Value(f)
<1>1. /\ kind \in {"nobjects", "dir", "fs"} /\ pc = "read" /\ S # {}
      /\ after' = f /\ result' = result \union add
      /\ size' \in {size, (size + 1) % PageSize}
      /\ UNCHANGED <<pc, got, buf, err, errors>> /\ UNCHANGED world
  BY DEF ReadEntry
<1>2. f \in S /\ \A j \in S : f <= j
  <2>1. S \in SUBSET Key
    BY DEF IInv, TypeOK
  <2>. QED  BY <1>1, <2>1, FirstIs DEF NextEntry
<1>3. f \in Key /\ f > after /\ f \in store
  BY <1>2 DEF IInv, TypeOK
<1>4. add \subseteq {f}
  BY DEF Value
<1>5. f \in Wanted(store) => add = {f}
  <2>1. Value(f) = {f}
    BY <1>1 DEF Value, IInv, EndInv
  <2>2. f \in Wanted(store) => f \in Wanted({f})
    BY DEF Wanted
  <2>. QED  BY <2>1, <2>2
<1>6. add # {} => f \in Wanted(store)
  BY <1>3 DEF Wanted
<1>7. (size + 1) % PageSize \in 0 .. KeyCount + PageSize
  BY SizeAssumption, KeyCountAssumption DEF IInv, TypeOK
<1>. HIDE DEF f, add
<1>8. TypeOK'
  BY <1>1, <1>3, <1>4, <1>7, KeyCountAssumption DEF IInv, TypeOK, world, Key
<1>9. ASSUME NEW k \in always, k <= f
      PROVE  k <= after \/ k \in result'
  <2>1. k \in Key /\ k \in Wanted(store) /\ k \in store
    BY DEF IInv, TypeOK, Sound, Wanted
  <2>2. CASE k > after
    <3>1. k = f
      BY <2>1, <2>2, <1>2, <1>3, <1>9 DEF Key
    <3>. QED  BY <3>1, <2>1, <1>1, <1>5
  <2>3. CASE ~(k > after)
    BY <2>1, <2>3, KeyCountAssumption DEF IInv, TypeOK, Key
  <2>. QED  BY <2>2, <2>3
<1>10. NoGap'
  BY <1>1, <1>9 DEF IInv, NoGap, world
<1>11. Sound'
  BY <1>1, <1>4, <1>6, SameWanted DEF IInv, Sound, world
<1>12. BufferInv' /\ EndInv'
  BY <1>1 DEF IInv, BufferInv, EndInv, world
<1>. QED  BY <1>8, <1>10, <1>11, <1>12 DEF IInv

(* There is no further entry.                                              *)
LEMMA EndOfEntriesKeeps == ASSUME IInv, EndOfEntries PROVE IInv'
<1>1. /\ kind \in {"nobjects", "dir", "fs"} /\ pc = "read" /\ \A k \in store : k <= after
      /\ pc' \in {"read", "ok"} /\ (kind = "nobjects" => pc' = "ok") /\ size' = 0
      /\ err' \in {"nil", "ErrNotFound"}
      /\ UNCHANGED <<after, result, got, buf, errors>> /\ UNCHANGED world
  BY DEF EndOfEntries
<1>2. always \subseteq result
  <2>1. AllPassed /\ buf = {}
    BY <1>1 DEF AllPassed, IInv, Sound, Wanted, BufferInv
  <2>. QED  BY <2>1, PassedIsFound
<1>3. TypeOK'
  BY <1>1, KeyCountAssumption, SizeAssumption DEF IInv, TypeOK, world
<1>4. NoGap' /\ BufferInv'
  BY <1>1 DEF IInv, NoGap, BufferInv, world
<1>5. Sound'
  BY <1>1, SameWanted DEF IInv, Sound, world
<1>6. EndInv'
  BY <1>1, <1>2 DEF IInv, EndInv, world
<1>. QED  BY <1>3, <1>4, <1>5, <1>6 DEF IInv

(* A call of C fails.                                                      *)
LEMMA ReadFailsKeeps == ASSUME IInv, ReadFails PROVE IInv'
<1>1. /\ pc = "read" /\ buf = {} /\ errors < MaxErrors
      /\ errors' = errors + 1 /\ err' = "error"
      /\ pc' \in {"failed", "read", "ok"}
      /\ pc' = "read" => kind \in {"iter", "status"}
      /\ UNCHANGED <<after, result, size, got, buf>> /\ UNCHANGED world
  BY Zenon DEF ReadFails
<1>2. TypeOK'
  BY <1>1, ErrorsAssumption DEF IInv, TypeOK, world
<1>3. NoGap' /\ BufferInv'
  BY <1>1 DEF IInv, NoGap, BufferInv, world
<1>4. Sound'
  BY <1>1, SameWanted DEF IInv, Sound, world
<1>5. EndInv'
  BY <1>1 DEF IInv, EndInv, world
<1>. QED  BY <1>2, <1>3, <1>4, <1>5 DEF IInv

(* Every step keeps the invariant.                                         *)
LEMMA NextIInv == IInv /\ [Next]_vars => IInv'
<1>. SUFFICES ASSUME IInv, [Next]_vars PROVE IInv'
  OBVIOUS
<1>1. CASE UNCHANGED vars
  <2>1. UNCHANGED world
    BY <1>1 DEF vars, world
  <2>. QED
    BY <1>1, <2>1, SameWanted
       DEF vars, IInv, TypeOK, NoGap, Sound, BufferInv, EndInv, AllPassed
<1>. QED
  BY <1>1, WriteKeeps, ReadPageKeeps, CheckKeeps, FetchKeeps, HandOutKeeps,
     ReadEntryKeeps, EndOfEntriesKeeps, ReadFailsKeeps DEF Next, Step

(* The inductive invariant holds in every behaviour.                       *)
LEMMA Invariance == Spec => []IInv
BY InitIInv, NextIInv, PTL DEF Spec

(* Every state is well typed.                                              *)
THEOREM TypeCorrect == Spec => []TypeOK
<1>1. IInv => TypeOK
  BY DEF IInv
<1>. QED  BY Invariance, <1>1, PTL

(* No listing of any kind leaves a gap behind it.                          *)
THEOREM NothingIsSkipped == Spec => []NoGap
<1>1. IInv => NoGap
  BY DEF IInv
<1>. QED  BY Invariance, <1>1, PTL

----------------------------------------------------------------------------
(* The listings implement their contract: each step is one of Listing or    *)
(* leaves its variables alone.                                             *)

Phase == IF pc = "ok" /\ err = "error" THEN "failed" ELSE IF pc = "check" THEN "read" ELSE pc

(* An initial state is one of the contract.                                *)
LEMMA InitRefines == Init => Contract!Init
<1>. SUFFICES ASSUME Init PROVE Contract!Init
  OBVIOUS
<1>1. Wanted(store) \subseteq Key
  BY DEF Init, Wanted
<1>. QED  BY <1>1 DEF Init, Contract!Init

(* A step of the listing itself, seen from outside.                        *)
LEMMA StepRefines ==
    ASSUME IInv, UNCHANGED world, Phase = "read",
           \/ /\ Phase' = "read"
              /\ result \subseteq result' /\ result' \subseteq ever
           \/ /\ Phase' \in {"ok", "failed"} /\ result' = result
              /\ Phase' = "ok" => always \subseteq result
    PROVE  Contract!Next
BY SameWanted DEF world, Phase, Contract!Next, Contract!Find, Contract!Finish

(* Every step is one of the contract, or leaves its variables alone.       *)
LEMMA NextRefines == IInv /\ IInv' /\ [Next]_vars => [Contract!Next]_(Contract!vars)
<1>. SUFFICES ASSUME IInv, IInv', [Next]_vars PROVE [Contract!Next]_(Contract!vars)
  OBVIOUS
<1>1. CASE Write
  <2>1. /\ store' \in SUBSET Key /\ always' = always \intersect store'
        /\ ever' = ever \union Wanted(store')
        /\ UNCHANGED <<kind, pc, result, err>>
    BY <1>1 DEF Write
  <2>2. Wanted(store)' = Wanted(store') /\ Wanted(store') \subseteq Key
    BY <2>1 DEF Wanted, Start, Filtered
  <2>3. always' = always \intersect Wanted(store')
    BY <2>1 DEF IInv, Sound, Wanted
  <2>. QED  BY <2>1, <2>2, <2>3 DEF Contract!Next, Contract!Write
<1>2. CASE UNCHANGED vars
  <2>1. UNCHANGED world
    BY <1>2 DEF vars, world
  <2>. QED  BY <1>2, <2>1, SameWanted DEF vars, Contract!vars
<1>3. CASE ReadPage \/ HandOut \/ ReadEntry
  <2>1. UNCHANGED world /\ pc = "read" /\ pc' \in {"read", "check"} /\ result \subseteq result'
    BY <1>3 DEF ReadPage, HandOut, ReadEntry
  <2>2. result' \subseteq ever
    BY <2>1 DEF IInv, Sound, world
  <2>. QED  BY <2>1, <2>2, StepRefines DEF Phase
<1>4. CASE \E atEnd \in BOOLEAN : Check(atEnd)
  <2>. PICK atEnd \in BOOLEAN : Check(atEnd)
    BY <1>4
  <2>1. UNCHANGED world /\ pc = "check" /\ pc' \in {"ok", "read"} /\ UNCHANGED <<result, err>>
    BY Zenon DEF Check
  <2>2. pc' = "ok" => err = "error" \/ always \subseteq result
    BY <2>1 DEF IInv, EndInv, world
  <2>3. result' \subseteq ever
    BY <2>1 DEF IInv, Sound, world
  <2>. QED  BY <2>1, <2>2, <2>3, StepRefines DEF Phase
<1>5. CASE Fetch \/ EndOfEntries \/ ReadFails
  <2>1. /\ UNCHANGED world /\ pc = "read" /\ pc' \in {"read", "ok", "failed"}
        /\ UNCHANGED result
    BY <1>5, Zenon DEF Fetch, EndOfEntries, ReadFails
  <2>2. pc' = "ok" => err' = "error" \/ always \subseteq result
    BY <2>1 DEF IInv, EndInv, world
  <2>3. result' \subseteq ever
    BY <2>1 DEF IInv, Sound, world
  <2>. QED  BY <2>1, <2>2, <2>3, StepRefines DEF Phase
<1>. QED  BY <1>1, <1>2, <1>3, <1>4, <1>5 DEF Next, Step

(* A listing of any kind that ends well is complete and sound.             *)
THEOREM Implementation == Spec => ImplementsListing
<1>1. Init => Contract!Init
  BY InitRefines
<1>2. IInv /\ IInv' /\ [Next]_vars => [Contract!Next]_(Contract!vars)
  BY NextRefines
<1>. QED  BY <1>1, <1>2, Invariance, PTL DEF Spec, ImplementsListing, Contract!Spec

----------------------------------------------------------------------------
(* How far a listing has to go: the calls that may fail, the keys it has    *)
(* not gone past, what an iterator has to do before it goes past one, and   *)
(* the way around the loop.                                                *)

Waiting ==
    IF kind = "iter" THEN Cardinality(buf) ELSE IF buf = {} THEN 1 ELSE 0

WillEnd == IF kind = "omap" THEN OmapEnds ELSE MirrorEnds

Ahead ==
    CASE pc \in {"ok", "failed"} -> 0
      [] pc = "check" -> IF WillEnd THEN 1 ELSE 4
      [] OTHER -> IF size > 0 THEN 3 ELSE 2

Bounded ==
    /\ errors \in 0 .. MaxErrors /\ after \in 0 .. KeyCount
    /\ Waiting \in 0 .. KeyCount + 1 /\ Ahead \in 0 .. 4

(* What MirrorImageGlobalStatusIter has read is not behind it.             *)
BufferAhead == kind = "status" => \A b \in buf : after < b

Sooner ==
    \/ errors' > errors
    \/ errors' = errors /\ after' > after
    \/ UNCHANGED <<errors, after>> /\ Waiting' < Waiting
    \/ UNCHANGED <<errors, after>> /\ Waiting' = Waiting /\ Ahead' < Ahead

(* An action of the listing brings its end closer.                         *)
LEMMA ReadPageIsCloser == ASSUME IInv, ReadPage PROVE Sooner
<1>. DEFINE P == Page(after)
            L == Last(Page(after), after)
<1>1. /\ kind \in {"omap", "mirror", "objects"} /\ pc = "read" /\ pc' = "check"
      /\ result' = result \union P /\ after' = L /\ got' = Cardinality(P)
      /\ UNCHANGED <<size, buf, err, errors, kind>>
  BY DEF ReadPage, world
<1>2. /\ P \subseteq Key /\ \A j \in P : after < j /\ j <= L
      /\ L \in 0 .. KeyCount /\ after \in 0 .. KeyCount
  BY NextPage DEF IInv, TypeOK
<1>3. P = {} => L = after
  BY LastIs
<1>4. Cardinality({}) = 0
  BY FS_EmptySet
<1>. HIDE DEF P, L
<1>5. CASE P = {}
  <2>1. UNCHANGED <<result, after, buf, errors, size, kind>> /\ got' = 0
    BY <1>1, <1>3, <1>4, <1>5
  <2>2. WillEnd'
    BY <1>1, <2>1, SizeAssumption DEF WillEnd, OmapEnds, MirrorEnds, IInv, EndInv
  <2>3. Ahead' = 1 /\ Ahead \in {2, 3} /\ Waiting' = Waiting
    BY <1>1, <2>1, <2>2 DEF Ahead, Waiting
  <2>. QED  BY <2>1, <2>3 DEF Sooner
<1>6. CASE P # {}
  <2>1. PICK j \in P : TRUE
    BY <1>6
  <2>2. j \in Nat /\ after < j /\ j <= L
    BY <1>2, <2>1 DEF Key
  <2>. QED  BY <1>1, <1>2, <2>2, KeyCountAssumption DEF Sooner
<1>. QED  BY <1>5, <1>6

(* The check ends the listing, or was made for a page that goes on.        *)
LEMMA CheckIsCloser == ASSUME IInv, NEW atEnd \in BOOLEAN, Check(atEnd) PROVE Sooner
<1>1. /\ pc = "check" /\ pc' \in {"ok", "read"}
      /\ UNCHANGED <<after, result, got, buf, err, errors, kind>>
  BY Zenon DEF Check, world
<1>2. WillEnd => pc' = "ok"
  BY <1>1 DEF WillEnd, Check, ObjectsEnd, MirrorEnds, IInv, EndInv
<1>3. Waiting' = Waiting
  BY <1>1 DEF Waiting
<1>4. Ahead' < Ahead
  <2>1. Ahead = IF WillEnd THEN 1 ELSE 4
    BY <1>1 DEF Ahead
  <2>2. pc' = "ok" => Ahead' = 0
    BY DEF Ahead
  <2>3. pc' = "read" => Ahead' \in {2, 3}
    BY DEF Ahead
  <2>. QED  BY <1>1, <1>2, <2>1, <2>2, <2>3
<1>. QED  BY <1>1, <1>3, <1>4 DEF Sooner

(* An iterator that fills its buffer has less to do before the next key.   *)
LEMMA FetchIsCloser == ASSUME IInv, Fetch PROVE Sooner
<1>. DEFINE P == Page(after)
            L == Last(Page(after), after)
<1>1. /\ kind \in {"iter", "status"} /\ pc = "read" /\ buf = {} /\ buf' = P
      /\ after' = IF kind = "iter" THEN L ELSE after
      /\ pc' = IF P = {} THEN "ok" ELSE "read"
      /\ UNCHANGED <<result, size, got, errors, kind>>
  BY DEF Fetch, world
<1>2. /\ P \subseteq Key /\ \A j \in P : after < j /\ j <= L
      /\ L \in 0 .. KeyCount /\ after \in 0 .. KeyCount
  BY NextPage DEF IInv, TypeOK
<1>3. P = {} => L = after
  BY LastIs
<1>. HIDE DEF P, L
<1>4. CASE P = {}
  <2>1. UNCHANGED <<after, buf, errors, kind>> /\ pc' = "ok"
    BY <1>1, <1>3, <1>4
  <2>2. Ahead' = 0 /\ Ahead \in {2, 3} /\ Waiting' = Waiting
    BY <1>1, <2>1 DEF Ahead, Waiting
  <2>. QED  BY <2>1, <2>2 DEF Sooner
<1>5. CASE P # {} /\ kind = "iter"
  <2>1. PICK j \in P : TRUE
    BY <1>5
  <2>2. j \in Nat /\ after < j /\ j <= L
    BY <1>2, <2>1 DEF Key
  <2>. QED  BY <1>1, <1>2, <1>5, <2>2, KeyCountAssumption DEF Sooner
<1>6. CASE P # {} /\ kind = "status"
  <2>1. UNCHANGED <<after, errors>>
    BY <1>1, <1>6
  <2>2. Waiting = 1 /\ Waiting' = 0
    BY <1>1, <1>6 DEF Waiting
  <2>. QED  BY <2>1, <2>2 DEF Sooner
<1>. QED  BY <1>1, <1>4, <1>5, <1>6

(* The buffer shrinks, or the item handed out is gone past.                *)
LEMMA HandOutIsCloser == ASSUME IInv, BufferAhead, HandOut PROVE Sooner
<1>. DEFINE f == First(buf)
<1>1. /\ kind \in {"iter", "status"} /\ pc = "read" /\ buf # {}
      /\ buf' = buf \ {f}
      /\ after' = IF kind = "status" THEN f ELSE after
      /\ UNCHANGED <<errors, kind>>
  BY DEF HandOut, world
<1>2. f \in buf /\ buf \in SUBSET Key
  BY <1>1, FirstIs DEF IInv, TypeOK
<1>. HIDE DEF f
<1>3. CASE kind = "status"
  BY <1>1, <1>2, <1>3 DEF Sooner, BufferAhead
<1>4. CASE kind = "iter"
  <2>1. IsFiniteSet(buf) /\ Cardinality(buf) \in Nat
    BY <1>2, KeysAreFinite, FS_CardinalityType
  <2>2. Cardinality(buf \ {f}) = Cardinality(buf) - 1
    BY <1>2, <2>1, FS_RemoveElement
  <2>3. Waiting = Cardinality(buf) /\ Waiting' = Cardinality(buf \ {f})
    BY <1>1, <1>4 DEF Waiting
  <2>. QED  BY <1>1, <1>4, <2>1, <2>2, <2>3 DEF Sooner
<1>. QED  BY <1>1, <1>3, <1>4

(* An entry is gone past, skipped or not.                                  *)
LEMMA ReadEntryIsCloser == ASSUME IInv, ReadEntry PROVE Sooner
<1>. DEFINE S == {k \in store : k > after}
<1>1. S # {} /\ after' = NextEntry /\ UNCHANGED errors
  BY DEF ReadEntry
<1>2. S \in SUBSET Key
  BY DEF IInv, TypeOK
<1>3. NextEntry \in S
  BY <1>1, <1>2, FirstIs DEF NextEntry
<1>. QED  BY <1>1, <1>3 DEF Sooner

(* The end of the entries ends the listing, or its last group.             *)
LEMMA EndOfEntriesIsCloser == ASSUME IInv, EndOfEntries PROVE Sooner
<1>1. /\ pc = "read" /\ pc' = (IF kind = "fs" /\ size > 0 THEN "read" ELSE "ok")
      /\ size' = 0 /\ UNCHANGED <<after, buf, errors, kind>>
  BY DEF EndOfEntries, world
<1>2. Waiting' = Waiting
  BY <1>1 DEF Waiting
<1>3. Ahead' < Ahead
  BY <1>1 DEF Ahead
<1>. QED  BY <1>1, <1>2, <1>3 DEF Sooner

(* The measure is a tuple of numbers between bounds; every step of the      *)
(* listing makes it smaller in the order of its parts, and other clients    *)
(* leave it alone: however they write, a listing that is gone on with comes *)
(* to its end.                                                             *)
THEOREM StepsRunOut ==
    Spec => /\ []Bounded
            /\ [][/\ Step => Sooner
                  /\ Write => UNCHANGED <<errors, after, Waiting, Ahead>>]_vars
<1>. DEFINE Closer == /\ Step => Sooner
                      /\ Write => UNCHANGED <<errors, after, Waiting, Ahead>>
<1>1. IInv => Bounded
  <2>. SUFFICES ASSUME IInv PROVE Bounded
    OBVIOUS
  <2>1. Cardinality(buf) \in 0 .. KeyCount
    BY KeysAreFinite DEF IInv, TypeOK
  <2>2. Waiting \in 0 .. KeyCount + 1
    BY <2>1, KeyCountAssumption DEF Waiting
  <2>3. Ahead \in 0 .. 4
    BY DEF Ahead
  <2>. QED  BY <2>2, <2>3 DEF Bounded, IInv, TypeOK
<1>2. Init => BufferAhead
  BY DEF Init, BufferAhead
<1>3. IInv /\ BufferAhead /\ [Next]_vars => BufferAhead'
  <2>. SUFFICES ASSUME IInv, BufferAhead, [Next]_vars PROVE BufferAhead'
    OBVIOUS
  <2>1. CASE Fetch
    <3>1. \A j \in Page(after) : after < j
      BY NextPage
    <3>. QED  BY <2>1, <3>1 DEF Fetch, world, BufferAhead
  <2>2. CASE HandOut
    <3>1. First(buf) \in buf /\ \A j \in buf : First(buf) <= j
      BY <2>2, FirstIs DEF HandOut, IInv, TypeOK
    <3>2. buf' = buf \ {First(buf)} /\ kind' = kind
          /\ after' = IF kind = "status" THEN First(buf) ELSE after
      BY <2>2 DEF HandOut, world
    <3>3. \A j \in buf : j \in Nat
      BY DEF IInv, TypeOK, Key
    <3>. QED  BY <3>1, <3>2, <3>3 DEF BufferAhead
  <2>3. CASE ReadPage \/ ReadEntry
    <3>1. buf' = buf /\ kind' = kind /\ kind # "status"
      BY <2>3 DEF ReadPage, ReadEntry, world
    <3>. QED  BY <3>1 DEF BufferAhead
  <2>4. CASE \E atEnd \in BOOLEAN : Check(atEnd)
    <3>1. UNCHANGED <<buf, kind, after>>
      BY <2>4, Zenon DEF Check, world
    <3>. QED  BY <3>1 DEF BufferAhead
  <2>5. CASE EndOfEntries \/ ReadFails \/ Write \/ UNCHANGED vars
    <3>1. UNCHANGED <<buf, kind, after>>
      BY <2>5, Zenon DEF EndOfEntries, ReadFails, Write, vars, world
    <3>. QED  BY <3>1 DEF BufferAhead
  <2>. QED  BY <2>1, <2>2, <2>3, <2>4, <2>5 DEF Next, Step
<1>4. IInv /\ BufferAhead /\ [Next]_vars => [Closer]_vars
  <2>. SUFFICES ASSUME IInv, BufferAhead PROVE Closer
    OBVIOUS
  <2>1. ReadFails => Sooner
    BY ErrorsAssumption DEF ReadFails, Sooner, IInv, TypeOK
  <2>2. Step => Sooner
    BY <2>1, ReadPageIsCloser, CheckIsCloser, FetchIsCloser, HandOutIsCloser,
       ReadEntryIsCloser, EndOfEntriesIsCloser DEF Step
  <2>3. Write => UNCHANGED <<errors, after, Waiting, Ahead>>
    BY DEF Write, Waiting, Ahead, WillEnd, OmapEnds, MirrorEnds
  <2>. QED  BY <2>2, <2>3
<1>. QED  BY <1>1, <1>2, <1>3, <1>4, Invariance, PTL DEF Spec

----------------------------------------------------------------------------
(* The two promises of the documentation that the code does not keep: what  *)
(* they come down to.                                                      *)

(* When a failed call of C can be the last one.                            *)
ErrorInv ==
    /\ err = "error" => errors > 0
    /\ err = "error" /\ pc = "read" => kind \in {"iter", "status"}
    /\ err = "error" => pc # "check"
    /\ err = "error" /\ pc = "ok" => kind = "fs"

(* It holds at the start.                                                  *)
LEMMA InitErrorInv == Init => ErrorInv
BY DEF Init, ErrorInv

(* Every step keeps it.                                                    *)
LEMMA NextErrorInv == IInv /\ ErrorInv /\ [Next]_vars => ErrorInv'
<1>. SUFFICES ASSUME IInv, ErrorInv, [Next]_vars PROVE ErrorInv'
  OBVIOUS
<1>1. CASE ReadPage \/ HandOut \/ ReadEntry
  <2>1. /\ pc = "read" /\ pc' \in {"read", "check"} /\ UNCHANGED <<kind, err, errors>>
        /\ pc' = "check" => kind \in {"omap", "mirror", "objects"}
        /\ pc' = "read" => pc' = pc
    BY <1>1 DEF ReadPage, HandOut, ReadEntry, world
  <2>. QED  BY <2>1 DEF ErrorInv
<1>2. CASE \E atEnd \in BOOLEAN : Check(atEnd)
  <2>1. pc = "check" /\ pc' \in {"ok", "read"} /\ UNCHANGED <<kind, err, errors>>
    BY <1>2, Zenon DEF Check, world
  <2>. QED  BY <2>1 DEF ErrorInv
<1>3. CASE Fetch \/ EndOfEntries
  <2>1. err' \in {"nil", "ErrNotFound"}
    BY <1>3 DEF Fetch, EndOfEntries
  <2>. QED  BY <2>1 DEF ErrorInv
<1>4. CASE ReadFails
  <2>1. /\ errors' = errors + 1 /\ kind' = kind /\ pc' \in {"failed", "read", "ok"}
        /\ pc' = "read" => kind \in {"iter", "status"}
        /\ pc' = "ok" => kind = "fs"
    BY <1>4, Zenon DEF ReadFails, world
  <2>2. errors \in Nat
    BY ErrorsAssumption DEF IInv, TypeOK
  <2>. QED  BY <2>1, <2>2 DEF ErrorInv
<1>5. CASE Write \/ UNCHANGED vars
  BY <1>5 DEF Write, vars, ErrorInv
<1>. QED  BY <1>1, <1>2, <1>3, <1>4, <1>5 DEF Next, Step

(* A listing that ends without an error is complete, but for that of a      *)
(* dirWrapper of which a call of C has failed.                             *)
THEOREM OnlyDirectoriesAreShort ==
    Spec => [](OkIsComplete \/ (kind = "fs" /\ err = "error" /\ errors > 0))
<1>1. IInv /\ ErrorInv => OkIsComplete \/ (kind = "fs" /\ err = "error" /\ errors > 0)
  BY DEF IInv, EndInv, ErrorInv, OkIsComplete
<1>2. IInv /\ ErrorInv /\ [Next]_vars => ErrorInv'
  BY NextErrorInv
<1>. QED  BY <1>1, <1>2, InitErrorInv, Invariance, PTL DEF Spec

(* As long as it is not sought back, an Iter of package rados hands out     *)
(* every object it stops at.                                               *)
THEOREM UnsoughtValuesAreEntries == Spec => ValueIsEntry
<1>1. ASSUME IInv, kind = "nobjects", ReadEntry
      PROVE  after' \in result'
  <2>1. \E k \in store : k > after
    BY <1>1 DEF ReadEntry
  <2>2. {k \in store : k > after} \in SUBSET Key /\ {k \in store : k > after} # {}
    BY <1>1, <2>1 DEF IInv, TypeOK
  <2>3. NextEntry \in Key
    BY <2>2, FirstIs DEF NextEntry
  <2>4. NextEntry \in Wanted({NextEntry})
    BY <1>1, <2>3 DEF Wanted, Start, Filtered, Key
  <2>5. Value(NextEntry) = {NextEntry}
    BY <1>1 DEF Value, IInv, EndInv, ReadEntry
  <2>6. after' = NextEntry /\ result' = result \union Value(NextEntry)
    BY <1>1, <2>4 DEF ReadEntry
  <2>. QED  BY <2>5, <2>6
<1>2. IInv => [kind = "nobjects" /\ ReadEntry => after' \in result']_vars
  BY <1>1
<1>. QED  BY <1>2, Invariance, PTL DEF ValueIsEntry
=============================================================================
