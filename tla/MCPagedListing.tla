---------------------------- MODULE MCPagedListing ----------------------------
(* Small instances of PagedListing. *)
EXTENDS PagedListing
=============================================================================
