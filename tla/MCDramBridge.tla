----------------------------- MODULE MCDramBridge -----------------------------
(* TLC instances of the DRAM bridge.  Addresses, lanes and values are model *)
(* values that nothing tells apart.                                        *)
EXTENDS DramBridge, TLC

Symmetry == Permutations(Addr) \cup Permutations(Lane) \cup Permutations(Val)
===============================================================================
