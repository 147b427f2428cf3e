------------------------------ MODULE MCMaster ------------------------------
(* Instances of Master for TLC.                                            *)
EXTENDS MasterProperties, TLC

Symmetry == Permutations(Containers) \cup Permutations(Requests)
=============================================================================
