--------------------------- MODULE MCClusterFormation ---------------------------
(* ClusterFormation for TLC. *)
EXTENDS ClusterFormation, TLC

Symmetry == Permutations(Units)
================================================================================
