------------------------------ MODULE Callbacks ------------------------------
(***************************************************************************)
(* internal/callbacks/callbacks.go as it runs: several goroutines share a  *)
(* tracker behind its mutex, and getID walks the counter upwards, one      *)
(* number at a time, until it meets a free one.  The counter is a uintptr  *)
(* and wraps around.                                                       *)
(***************************************************************************)
EXTENDS Naturals, FiniteSets
CONSTANTS
    IdCount,    \* how many values a uintptr has
    Client,     \* goroutines; each tracks at most one value at a time
    None,       \* no value, no number
    NoClient    \* the mutex is free

ASSUME IdCountAssumption == IdCount \in Nat \ {0}
ASSUME NoneAssumption == None \notin Client /\ None \notin Nat
ASSUME NoClientAssumption == NoClient \notin Client

VARIABLES
    cmap,       \* the map: the client whose value a number stands for
    lastID,     \* the counter
    mutex,      \* holder of the write lock
    pc,         \* where each client is
    id,         \* the number each client has got from Add
    start       \* the counter as it was when the lock was last taken

vars == <<cmap, lastID, mutex, pc, id, start>>

Id == 0 .. IdCount - 1
Succ(i) == (i + 1) % IdCount

Init ==
    /\ cmap = [i \in Id |-> None]
    /\ lastID = 0 /\ start = 0
    /\ mutex = NoClient
    /\ pc = [c \in Client |-> "idle"]
    /\ id = [c \in Client |-> None]

AddLock(c) ==
    /\ pc[c] = "idle"
    /\ mutex = NoClient
    /\ mutex' = c
    /\ start' = lastID
    /\ pc' = [pc EXCEPT ![c] = "getID"]
    /\ UNCHANGED <<cmap, lastID, id>>

(* Mutated: the counter does not wrap around.                              *)
GetIDNoWrap(c) ==
    /\ pc[c] = "getID"
    /\ lastID' = lastID + 1
    /\ pc' = [pc EXCEPT ![c] = IF lastID' \in Id /\ cmap[lastID'] # None
                               THEN "getID" ELSE "store"]
    /\ UNCHANGED <<cmap, mutex, id, start>>

(* Mutated: the number is not looked up in the map.                        *)
GetIDUnchecked(c) ==
    /\ pc[c] = "getID"
    /\ lastID' = Succ(lastID)
    /\ pc' = [pc EXCEPT ![c] = "store"]
    /\ UNCHANGED <<cmap, mutex, id, start>>

(* Mutated: the counter advances once, before the loop.                    *)
GetIDOnce(c) ==
    /\ pc[c] = "getID"
    /\ lastID' = Succ(start)
    /\ pc' = [pc EXCEPT ![c] = IF cmap[lastID'] = None THEN "store" ELSE "getID"]
    /\ UNCHANGED <<cmap, mutex, id, start>>

(* One round of the loop in getID.                                         *)
GetID(c) ==
    /\ pc[c] = "getID"
    /\ lastID' = Succ(lastID)
    /\ pc' = [pc EXCEPT ![c] = IF cmap[lastID'] = None THEN "store" ELSE "getID"]
    /\ UNCHANGED <<cmap, mutex, id, start>>

AddStore(c) ==
    /\ pc[c] = "store"
    /\ cmap' = [cmap EXCEPT ![lastID] = c]
    /\ id' = [id EXCEPT ![c] = lastID]
    /\ mutex' = NoClient
    /\ start' = lastID
    /\ pc' = [pc EXCEPT ![c] = "held"]
    /\ UNCHANGED lastID

(* Mutated: the most recent number is removed instead of the given one.    *)
RemoveLast(c) ==
    /\ pc[c] = "held"
    /\ mutex = NoClient
    /\ cmap' = [cmap EXCEPT ![lastID] = None]
    /\ id' = [id EXCEPT ![c] = None]
    /\ pc' = [pc EXCEPT ![c] = "idle"]
    /\ UNCHANGED <<lastID, mutex, start>>

(* Mutated: the entry stays in the map.                                    *)
RemoveKeeps(c) ==
    /\ pc[c] = "held"
    /\ mutex = NoClient
    /\ id' = [id EXCEPT ![c] = None]
    /\ pc' = [pc EXCEPT ![c] = "idle"]
    /\ UNCHANGED <<cmap, lastID, mutex, start>>

Remove(c) ==
    /\ pc[c] = "held"
    /\ mutex = NoClient
    /\ cmap' = [cmap EXCEPT ![id[c]] = None]
    /\ id' = [id EXCEPT ![c] = None]
    /\ pc' = [pc EXCEPT ![c] = "idle"]
    /\ UNCHANGED <<lastID, mutex, start>>

Next ==
    \E c \in Client : AddLock(c) \/ GetID(c) \/ AddStore(c) \/ Remove(c)

Spec == Init /\ [][Next]_vars

(* A goroutine inside Add keeps running; nobody is obliged to call Remove. *)
FairSpec == Spec /\ \A c \in Client : WF_vars(GetID(c) \/ AddStore(c))

----------------------------------------------------------------------------
(* Every variable has its type; in particular the counter stays a uintptr. *)
TypeOK ==
    /\ cmap \in [Id -> Client \union {None}]
    /\ lastID \in Id /\ start \in Id
    /\ mutex \in Client \union {NoClient}
    /\ pc \in [Client -> {"idle", "getID", "store", "held"}]
    /\ id \in [Client -> Id \union {None}]

(* The number Add returned stands for the caller's own value until the      *)
(* caller removes it, also after the counter has wrapped around: a C        *)
(* callback that carries the number finds the value it was created for.     *)
OwnEntry == \A c \in Client : pc[c] = "held" => id[c] \in Id /\ cmap[id[c]] = c

(* Nothing stays in the map that its owner has removed, and no value is in  *)
(* it twice.                                                                *)
NoStrayEntry ==
    \A i \in Id : cmap[i] # None => pc[cmap[i]] = "held" /\ id[cmap[i]] = i

(* The atomic tracker of module CallbackMap; start is its counter, for the  *)
(* loop of getID moves lastID on its way.                                   *)
Map == INSTANCE CallbackMap WITH Value <- Client, lastID <- start

ImplementsMap == Map!Spec

(* Add comes back as long as a number is free, even if all others are taken *)
(* and the free one is the last the loop tries.                             *)
AddReturns == \A c \in Client : pc[c] = "getID" ~> pc[c] = "held"
=============================================================================
