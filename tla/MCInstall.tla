------------------------------ MODULE MCInstall -----------------------------
(* Install with small bounds; the command slots are interchangeable.           *)
EXTENDS Install, TLC

Symmetry == Permutations(Procs)
=============================================================================
