------------------------------ MODULE MCBackup ------------------------------
(* Instances of Backup for TLC *)
EXTENDS Backup

CONSTANTS u1, u2, u3
=============================================================================
