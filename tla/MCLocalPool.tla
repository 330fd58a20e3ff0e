---------------------------- MODULE MCLocalPool -----------------------------
(* LocalPool on small instances. *)
EXTENDS LocalPool, TLC

CONSTANTS w1, w2, w3, c1, c2, r1, r2, k1

\* Model values that are interchangeable in every action and every invariant.
Symmetry == Permutations(Workers) \cup Permutations(Callers) \cup Permutations(Reapers)
=============================================================================
