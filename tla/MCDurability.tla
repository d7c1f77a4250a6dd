---------------------------- MODULE MCDurability ----------------------------
(* Durability on small instances; goroutines, ids and names are            *)
(* interchangeable.                                                        *)
EXTENDS Durability, TLC

Symmetry == Permutations(Workers) \cup Permutations(Txns) \cup Permutations(Resources)
=============================================================================
