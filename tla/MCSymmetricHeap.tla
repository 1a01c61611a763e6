--------------------------- MODULE MCSymmetricHeap ---------------------------
(* Instances of SymmetricHeap for TLC. *)
EXTENDS SymmetricHeap, TLC

\* The PEs play the same part: each has its own heap and its own place in the
\* common sequence of calls.
Interchangeable == Permutations(PEs)
=============================================================================
