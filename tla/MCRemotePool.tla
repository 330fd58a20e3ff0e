---------------------------- MODULE MCRemotePool ----------------------------
(* RemotePool on small instances. *)
EXTENDS RemotePool, TLC

CONSTANTS w1, w2, w3, c1, c2, r1, k1

\* Model values that are interchangeable in every action and every invariant.
Symmetry == Permutations(Workers) \cup Permutations(Callers)
=============================================================================
