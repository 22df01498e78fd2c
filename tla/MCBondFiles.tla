------------------------------ MODULE MCBondFiles ------------------------------
(* Instance of BondFiles for TLC.                                             *)
EXTENDS BondFiles, TLC

Symmetry == Permutations(Clis)
===============================================================================
