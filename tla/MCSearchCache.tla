--------------------------- MODULE MCSearchCache ----------------------------
(* Small instances of SearchCache for TLC. *)
EXTENDS SearchCache, TLC

Symmetry == Permutations(Callers) \cup Permutations(Requests) \cup Permutations(Defs)
=============================================================================
