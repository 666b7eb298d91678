--------------------------- MODULE MCArrayEngine ---------------------------
(* The array engine with a table of a few slots. *)
EXTENDS ArrayEngine, TLC

Symmetry == Permutations(Key) \cup Permutations(Value)
=============================================================================
