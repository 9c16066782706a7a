------------------------------- MODULE Listing -------------------------------
(***************************************************************************)
(* What a listing made of several reads may return while others write: a   *)
(* listing that ends well has everything that was there all the time, and  *)
(* nothing that was not there at some time; a listing that ends with an    *)
(* error has nothing of the latter kind either.                            *)
(***************************************************************************)
CONSTANT Key

VARIABLES
    store,      \* the keys that are there and match what is asked for
    phase,      \* of the listing: "read", "ok" or "failed"
    result,     \* what it has found
    always,     \* keys that have been there since the listing began
    ever        \* keys that have been there at some time since

vars == <<store, phase, result, always, ever>>

Init ==
    /\ store \subseteq Key
    /\ phase = "read" /\ result = {}
    /\ always = store /\ ever = store

Write ==
    /\ store' \subseteq Key
    /\ always' = always \intersect store'
    /\ ever' = ever \union store'
    /\ UNCHANGED <<phase, result>>

Find ==
    /\ phase = "read"
    /\ result' \in SUBSET ever /\ result \subseteq result'
    /\ UNCHANGED <<store, phase, always, ever>>

Finish ==
    /\ phase = "read"
    /\ phase' \in {"ok", "failed"}
    /\ phase' = "ok" => always \subseteq result
    /\ UNCHANGED <<store, result, always, ever>>

Next == Write \/ Find \/ Finish

Spec == Init /\ [][Next]_vars
=============================================================================
