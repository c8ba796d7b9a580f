--------------------------- MODULE MCInstanceLocking ---------------------------
(* InstanceLocking for TLC: three units, the two rows of one cluster. *)
EXTENDS InstanceLocking, TLC

MCLocks == {"unit-add", "unit-remove"}

Symmetry == Permutations(Units)
================================================================================
