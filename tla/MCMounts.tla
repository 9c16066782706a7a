------------------------------- MODULE MCMounts -------------------------------
EXTENDS Mounts, TLC
Symmetry == Permutations(Obj) \union Permutations(Res) \union Permutations(Fd)
=============================================================================
