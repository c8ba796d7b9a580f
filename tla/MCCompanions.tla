---------------------------- MODULE MCCompanions ----------------------------
(* One pod and two units of Loki; two units with three addresses and two    *)
(* revisions, one with rules that are not valid; two units and two Grafanas *)
(* with three revisions, one of which cannot be rendered; two machines for  *)
(* the agent and two for the addresses; three servers, with two storages;   *)
(* three faults in the first start of a server; two secrets, one without a  *)
(* key; three accounts, and two passwords, one of which is too long.        *)
EXTENDS Companions

CONSTANTS p1, l1, l2, u1, u2, u3, g1, g2, m1, m2
=============================================================================
