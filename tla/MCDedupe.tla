------------------------------- MODULE MCDedupe -------------------------------
(* Dedupe on small instances for TLC. *)
EXTENDS Dedupe, TLC

\* Goroutines and digests are interchangeable.
Symmetry == Permutations(Threads) \cup Permutations(Keys)
=============================================================================
