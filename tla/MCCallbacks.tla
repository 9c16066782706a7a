----------------------------- MODULE MCCallbacks -----------------------------
(* Small instances of Callbacks: a counter of a few values, as many clients. *)
EXTENDS Callbacks
=============================================================================
