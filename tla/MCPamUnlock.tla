------------------------------ MODULE MCPamUnlock ------------------------------
EXTENDS PamUnlock, TLC

Symmetry == Permutations(PamCalls) \cup Permutations(Peers)
================================================================================
