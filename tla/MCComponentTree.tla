--------------------------- MODULE MCComponentTree ---------------------------
(* Small instances of ComponentTree: directories are interchangeable.      *)
EXTENDS ComponentTree, TLC

MCSymmetry == Permutations(SysDirs) \cup Permutations(DtNodes)
=============================================================================
