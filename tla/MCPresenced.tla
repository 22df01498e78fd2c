----------------------------- MODULE MCPresenced -----------------------------
(* Presenced on small instances.                                              *)
EXTENDS Presenced, TLC

CONSTANTS p1, p2, r1, r2, r3, n1, n2, k1, k2

MCSymmetry ==
    Permutations(Peers) \cup Permutations(Requests) \cup Permutations(Nonces)
=============================================================================
