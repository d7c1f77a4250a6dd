----------------------------- MODULE MCStoreTx -----------------------------
(* StoreTx on a small instance; ids and names are interchangeable. *)
EXTENDS StoreTx, TLC

Symmetry == Permutations(Txns) \cup Permutations(Resources)
=============================================================================
