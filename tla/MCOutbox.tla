------------------------------ MODULE MCOutbox ------------------------------
(* Small instances of Outbox for TLC. *)
EXTENDS OutboxInvariant, TLC

\* Tables, keys and rows are only compared for equality.
Symmetry == Permutations(Tables) \cup Permutations(Keys) \cup Permutations(Vals)
=============================================================================
