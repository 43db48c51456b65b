--------------------------- MODULE MCOperationQueue ---------------------------
(* OperationQueue on small sets of operations and workers. *)
EXTENDS OperationQueue, TLC

\* Operations and workers are interchangeable in every safety property.
Symmetry == Permutations(Operations) \cup Permutations(Workers)
=============================================================================
