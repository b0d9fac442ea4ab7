------------------------------- MODULE MCJobs -------------------------------
(* Small instances of Jobs for TLC. *)
EXTENDS Jobs, TLC

Symmetry == Permutations(Tables) \cup Permutations(Clients)
=============================================================================
