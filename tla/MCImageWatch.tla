---------------------------- MODULE MCImageWatch ----------------------------
(* Small instances of ImageWatch. *)
EXTENDS ImageWatch, TLC

Symmetry == Permutations(Image) \union Permutations(CImage)
            \union Permutations(Watch) \union Permutations(Handle)
            \union Permutations(CbThread)
=============================================================================
