------------------------------ MODULE MCPairFlow ------------------------------
(* PairFlow on a small instance: see pair.cfg and doc_answered.cfg.           *)
EXTENDS PairFlow
=============================================================================
