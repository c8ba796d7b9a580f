----------------------------- MODULE MCProvider -----------------------------
(* Instances of Provider for TLC *)
EXTENDS Provider

CONSTANTS u1, u2, c1

\* A MySQL Router on Kubernetes, and an older application on machines
FewSetups == {[k8s |-> TRUE, routers |-> {c1}, old |-> {}],
              [k8s |-> FALSE, routers |-> {}, old |-> {c1}]}
=============================================================================
