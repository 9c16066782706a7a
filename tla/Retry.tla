-------------------------------- MODULE Retry --------------------------------
(***************************************************************************)
(* The resize loop retry.WithSizes (internal/retry/sizer.go) around a C    *)
(* call that fills a buffer of the given size: ERANGE, or ENAMETOOLONG,    *)
(* when what it has to return does not fit.  Other clients change what     *)
(* there is to return between the attempts.                                *)
(***************************************************************************)
EXTENDS Integers
CONSTANTS
    MinSize, MaxSize,   \* the arguments of WithSizes
    MaxLen              \* bound: how large what is to be returned may be

(* Every caller in the repository passes a size of at least one and a      *)
(* larger maximum.                                                         *)
ASSUME SizeAssumption == MinSize \in Nat \ {0} /\ MaxSize \in Nat /\ MinSize <= MaxSize
ASSUME LenAssumption == MaxLen \in Nat

VARIABLES
    kind,       \* the hint the SizeFunc gives, one of Kind
    len,        \* what there is to return (external)
    pc,         \* "call" the SizeFunc, "check" its hint, "done"
    size,       \* the argument of the next or last call
    hint,       \* the hint of the last call, NoHint for nil
    result,     \* outcome of the last call
    seen,       \* what there was to return at the last call
    tries,      \* calls made, counted up to MaxTries
    stable      \* len has not changed since the first call

vars == <<kind, len, pc, size, hint, result, seen, tries, stable>>

MaxTries == MaxSize + 1
NoHint == -1
DoubleSize == 0

(* DoubleSize; the size librados or librbd asks for; that of the keys, when *)
(* it may be the values that do not fit (GetAttributesMirrorPeerSite); and *)
(* the size just tried, after any error (AddMirrorPeerSite).               *)
Kind == {"double", "exact", "keys", "always"}

Init ==
    /\ kind \in Kind
    /\ len \in 0 .. MaxLen
    /\ pc = "call" /\ size = MinSize
    /\ hint = NoHint /\ result = "none" /\ seen = 0 /\ tries = 0 /\ stable = TRUE

(* Somebody else adds or removes what is being listed.                     *)
Change ==
    /\ pc # "done"
    /\ len' \in 0 .. MaxLen
    /\ stable' = (stable /\ (tries = 0 \/ len' = len))
    /\ UNCHANGED <<kind, pc, size, hint, result, seen, tries>>

(* The hints of a call whose result does not fit.                          *)
TooSmall ==
    CASE kind = "double" -> {DoubleSize}
      [] kind = "exact"  -> {len}
      [] kind = "keys"   -> 0 .. len
      [] kind = "always" -> {size}

Call ==
    /\ pc = "call"
    /\ pc' = "check"
    /\ seen' = len
    /\ tries' = IF tries < MaxTries THEN tries + 1 ELSE tries
    /\ \/ /\ len <= size /\ result' = "ok" /\ hint' = NoHint
       \/ /\ len > size /\ result' = "range" /\ hint' \in TooSmall
       \/ /\ result' = "error" /\ hint' = IF kind = "always" THEN size ELSE NoHint
    /\ UNCHANGED <<kind, len, size, stable>>

(* Mutated: gives up when the next size would exceed the maximum.          *)
StopEarly ==
    /\ pc = "check"
    /\ hint = NoHint \/ 2 * size > MaxSize
    /\ pc' = "done"
    /\ UNCHANGED <<kind, len, size, hint, result, seen, tries, stable>>

Stop ==
    /\ pc = "check"
    /\ hint = NoHint \/ size = MaxSize
    /\ pc' = "done"
    /\ UNCHANGED <<kind, len, size, hint, result, seen, tries, stable>>

(* Mutated: a hint that is no larger than the size leaves the size alone.  *)
WantedSame == IF hint > size THEN hint ELSE size

(* Mutated: the hint is ignored.                                           *)
WantedDouble == 2 * size

Wanted == IF hint > size THEN hint ELSE 2 * size

(* Mutated: the maximum is not enforced.                                   *)
GrowUnlimited ==
    /\ pc = "check"
    /\ hint # NoHint /\ size # MaxSize
    /\ size' = Wanted
    /\ pc' = "call"
    /\ UNCHANGED <<kind, len, hint, result, seen, tries, stable>>

Grow ==
    /\ pc = "check"
    /\ hint # NoHint /\ size # MaxSize
    /\ size' = IF Wanted > MaxSize THEN MaxSize ELSE Wanted
    /\ pc' = "call"
    /\ UNCHANGED <<kind, len, hint, result, seen, tries, stable>>

Next == Change \/ Call \/ Stop \/ Grow

Spec == Init /\ [][Next]_vars

(* The loop runs on; each call of the SizeFunc returns.                    *)
FairSpec == Spec /\ WF_vars(Call \/ Stop \/ Grow)

----------------------------------------------------------------------------
(* Every variable has its type, and no buffer is larger than the maximum.  *)
TypeOK ==
    /\ kind \in Kind
    /\ len \in 0 .. MaxLen /\ seen \in 0 .. MaxLen
    /\ pc \in {"call", "check", "done"}
    /\ size \in MinSize .. MaxSize
    /\ hint \in {NoHint} \union 0 .. MaxLen \union MinSize .. MaxSize
    /\ result \in {"none", "ok", "range", "error"}
    /\ tries \in 0 .. MaxTries
    /\ stable \in BOOLEAN

(* The caller is told "too small" only after a last attempt with the        *)
(* maximum, at which moment not even that was enough.                      *)
GivesUpOnlyAtMax ==
    pc = "done" /\ result = "range" => size = MaxSize /\ seen > MaxSize

(* Every retry is made with a larger buffer than the attempt before it,     *)
(* whatever the hint: each attempt but the first has cost at least one more *)
(* unit of size, which bounds their number.                                *)
RetriesGrow ==
    /\ [][pc = "check" /\ pc' = "call" => size' > size]_vars
    /\ [](tries <= size)

(* An exact hint needs a second attempt at most, as long as what is listed  *)
(* does not change under the loop (sizer_test.go:57 counts two).           *)
ExactHintTwice == kind = "exact" /\ stable => tries <= 2

(* The loop ends, even when what is listed keeps changing, when a hint is   *)
(* no larger than the size, and when every call fails and is repeated.     *)
Terminates == <>(pc = "done")
=============================================================================
