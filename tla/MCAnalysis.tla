----------------------------- MODULE MCAnalysis -----------------------------
(* Analysis on small instances; goroutines, ids and names are              *)
(* interchangeable.                                                        *)
EXTENDS Analysis, TLC

Symmetry == Permutations(Workers) \cup Permutations(Txns) \cup Permutations(Resources)
=============================================================================
