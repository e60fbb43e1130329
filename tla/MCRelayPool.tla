---------------------------- MODULE MCRelayPool ----------------------------
(* Symmetry of RelayPool for TLC.                                          *)
EXTENDS RelayPool, TLC

PoolSymmetry == Permutations(Pairings) \cup Permutations(Strange)
===========================================================================
