------------------------------ MODULE MCHandles ------------------------------
(* Small instances of Handles. *)
EXTENDS Handles, TLC

Symmetry == Permutations(Obj) \union Permutations(Res)
=============================================================================
