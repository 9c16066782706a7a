----------------------------- MODULE MCOperation -----------------------------
(***************************************************************************)
(* Small instances of Operation: steps of every kind, two by two or three. *)
(***************************************************************************)
EXTENDS Operation
=============================================================================
