-------------------------------- MODULE MCAdmin --------------------------------
(* Admin has no constants. *)
EXTENDS Admin
=============================================================================
