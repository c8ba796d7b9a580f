------------------------------ MODULE ClusterLock ------------------------------
(***************************************************************************)
(* What the rows of the locks table (mysql.juju_units_operations) promise  *)
(* to the operators: a row has at most one executor, only the executor of  *)
(* a row works under it, and a row changes hands only through "nobody".    *)
(* An executor that dies keeps its row: nothing here takes a row away.     *)
(***************************************************************************)
CONSTANTS
  Units,    \* the units of the application, each with its instance label
  NoUnit,   \* the empty executor column
  Locks     \* the rows of the locks tables

VARIABLES
  owner,    \* owner[l]: the executor of row l
  inside    \* inside[l]: the units that work under row l

vars == <<owner, inside>>

Init ==
  /\ owner = [l \in Locks |-> NoUnit]
  /\ inside = [l \in Locks |-> {}]

Grant(u, l) ==
  /\ owner[l] = NoUnit
  /\ owner' = [owner EXCEPT ![l] = u]
  /\ UNCHANGED inside

Enter(u, l) ==
  /\ owner[l] = u
  /\ inside' = [inside EXCEPT ![l] = @ \cup {u}]
  /\ UNCHANGED owner

Leave(u, l) ==
  /\ inside' = [inside EXCEPT ![l] = @ \ {u}]
  /\ UNCHANGED owner

Return(u, l) ==
  /\ owner[l] = u
  /\ u \notin inside[l]
  /\ owner' = [owner EXCEPT ![l] = NoUnit]
  /\ UNCHANGED inside

Next ==
  \E u \in Units, l \in Locks :
    Grant(u, l) \/ Enter(u, l) \/ Leave(u, l) \/ Return(u, l)

Spec == Init /\ [][Next]_vars
================================================================================
