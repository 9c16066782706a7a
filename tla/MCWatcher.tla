------------------------------ MODULE MCWatcher ------------------------------
(***************************************************************************)
(* Small instances of Watcher: one watcher, so that everybody meets on it. *)
(* The runs look for liveness too, and use no symmetry.                    *)
(***************************************************************************)
EXTENDS Watcher
=============================================================================
