-------------------------- MODULE MCNetworkIngest --------------------------
(* TLC instances of NetworkIngest.                                         *)
EXTENDS NetworkIngest, TLC

Symmetry == Permutations(Serial) \cup Permutations(Transfer) \cup Permutations(Node)
=============================================================================
