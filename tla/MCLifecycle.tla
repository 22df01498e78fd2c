----------------------------- MODULE MCLifecycle -----------------------------
(* Lifecycle on small instances.                                              *)
EXTENDS Lifecycle, TLC

CONSTANTS d1, d2, d3

MCSymmetry == Permutations(Procs)
=============================================================================
