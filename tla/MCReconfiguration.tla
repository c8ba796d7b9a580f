------------------------- MODULE MCReconfiguration -------------------------
(* Instances of Reconfiguration for TLC *)
EXTENDS Reconfiguration

\* A machine of four GiB, and a pod that may use three of them
Machine == 4 * GiB
Container == 3 * GiB

\* The defaults, the testing profile, and a memory limit of two "megabytes", which the
\* code compares with bytes, with the audit plugin disabled
FewOptions == {Defaults,
               [Defaults EXCEPT !.profile = "testing"],
               [Defaults EXCEPT !.limit = 2, !.audit = FALSE]}
=============================================================================
