----------------------------- MODULE MCHandlers -----------------------------
(* Handlers, with Readers in it, on small instances; goroutines, ids and   *)
(* names are interchangeable, the reader is not one of the goroutines.     *)
EXTENDS Handlers, TLC

Symmetry == Permutations(Workers) \cup Permutations(Txns) \cup Permutations(Resources)
=============================================================================
