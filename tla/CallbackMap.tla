----------------------------- MODULE CallbackMap -----------------------------
(***************************************************************************)
(* What internal/callbacks promises to the packages that pass Go values    *)
(* through C by number: Add hands out the next number that is not in use,  *)
(* counting upwards and around, and an entry stays what it is until its    *)
(* number is removed.  Every operation is one step.                        *)
(***************************************************************************)
EXTENDS Naturals
CONSTANTS
    IdCount,    \* how many values a uintptr has
    Value,      \* what can be tracked
    None        \* Lookup's answer for a number that is not in use: nil

VARIABLES cmap, lastID

mapVars == <<cmap, lastID>>

Id == 0 .. IdCount - 1

Init == cmap = [i \in Id |-> None] /\ lastID = 0

(* i is the first free number met on the way up from lastID.               *)
IsNext(i) ==
    /\ cmap[i] = None
    /\ \E k \in 1 .. IdCount :
          /\ i = (lastID + k) % IdCount
          /\ \A j \in 1 .. k - 1 : cmap[(lastID + j) % IdCount] # None

Add(i, v) ==
    /\ IsNext(i)
    /\ cmap' = [cmap EXCEPT ![i] = v]
    /\ lastID' = i

Remove(i) ==
    /\ cmap' = [cmap EXCEPT ![i] = None]
    /\ UNCHANGED lastID

Lookup(i) == cmap[i]

Next == \E i \in Id : Remove(i) \/ \E v \in Value : Add(i, v)

Spec == Init /\ [][Next]_mapVars
=============================================================================
