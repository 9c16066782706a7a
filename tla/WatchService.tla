---------------------------- MODULE WatchService ----------------------------
(***************************************************************************)
(* What a Watcher promises its application, without maps, locks, C calls   *)
(* or channels: a notification librados offers is delivered to the handler *)
(* of its watcher, or it is dropped, and it is dropped only if the         *)
(* application has asked for the watcher to be deleted.  In particular a   *)
(* notification that arrives before Watch has returned is not lost.        *)
(***************************************************************************)
CONSTANTS W, CB, Stream, NoNote

VARIABLES
    life,       \* what the application has done with each watcher
    note,       \* the notification each librados thread has in hand
    handling    \* the handler of a watcher's stream is at work

vars == <<life, note, handling>>

Init ==
    /\ life = [w \in W |-> "none"]
    /\ note = [c \in CB |-> NoNote]
    /\ handling = [w \in W |-> [ch \in Stream |-> FALSE]]

Open(w) ==
    /\ life[w] = "none"
    /\ life' = [life EXCEPT ![w] = "open"]
    /\ UNCHANGED <<note, handling>>

Delete(w) ==
    /\ life[w] = "open"
    /\ life' = [life EXCEPT ![w] = "deleting"]
    /\ UNCHANGED <<note, handling>>

Close(w) ==
    /\ life[w] = "deleting"
    /\ life' = [life EXCEPT ![w] = "closed"]
    /\ UNCHANGED <<note, handling>>

Offer(c, w, ch) ==
    /\ note[c] = NoNote
    /\ life[w] # "closed"
    /\ note' = [note EXCEPT ![c] = <<w, ch>>]
    /\ UNCHANGED <<life, handling>>

Deliver(c, w, ch) ==
    /\ note[c] = <<w, ch>>
    /\ life[w] \in {"open", "deleting"}
    /\ ~handling[w][ch]
    /\ note' = [note EXCEPT ![c] = NoNote]
    /\ handling' = [handling EXCEPT ![w][ch] = TRUE]
    /\ UNCHANGED life

(* Deleting a watcher may drop all its notifications at once.              *)
Drop(D, w) ==
    /\ life[w] \in {"deleting", "closed"}
    /\ \A c \in D : \E ch \in Stream : note[c] = <<w, ch>>
    /\ note' = [c \in CB |-> IF c \in D THEN NoNote ELSE note[c]]
    /\ UNCHANGED <<life, handling>>

Done(w, ch) ==
    /\ handling[w][ch]
    /\ handling' = [handling EXCEPT ![w][ch] = FALSE]
    /\ UNCHANGED <<life, note>>

Next ==
    \E w \in W :
        \/ Open(w) \/ Delete(w) \/ Close(w)
        \/ \E D \in SUBSET CB : Drop(D, w)
        \/ \E ch \in Stream :
              \/ Done(w, ch)
              \/ \E c \in CB : Offer(c, w, ch) \/ Deliver(c, w, ch)

Spec == Init /\ [][Next]_vars
=============================================================================
