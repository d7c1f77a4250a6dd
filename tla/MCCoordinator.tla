--------------------------- MODULE MCCoordinator ---------------------------
(* Coordinator on small instances; goroutines, ids and names are           *)
(* interchangeable.                                                        *)
EXTENDS Coordinator, TLC

Symmetry == Permutations(Workers) \cup Permutations(Txns) \cup Permutations(Resources)
=============================================================================
