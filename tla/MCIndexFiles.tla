---------------------------- MODULE MCIndexFiles ----------------------------
(* Small instances of IndexFiles for TLC. *)
EXTENDS IndexFiles, TLC

Symmetry == Permutations(Tables)
=============================================================================
