---------------------------- MODULE InstanceLocking ----------------------------
(***************************************************************************)
(* MySQLClusterClient._locking: the context manager that wraps the adding, *)
(* rejoining and removing of an instance in a lock kept in a table of the  *)
(* MySQL cluster.  The table has one row per task; a row's `executor'      *)
(* column is empty or the label of the unit that works under it.           *)
(*                                                                         *)
(* _acquire_lock sends an UPDATE (take the row if it is empty) and then a  *)
(* SELECT of the executor: two statements of an autocommit session, so two *)
(* steps here.  A lost connection raises ExecutionError at either of them, *)
(* and an UPDATE whose answer is lost may have been applied or not.  An    *)
(* attempt that fails is repeated up to MaxAttempts times, then the error  *)
(* leaves the hook.  The hook may die at any point; the table keeps what   *)
(* was written.                                                            *)
(***************************************************************************)
EXTENDS Naturals

CONSTANTS
  Units,        \* the units, each with its own instance label
  NoUnit,       \* the empty executor column
  Locks,        \* the rows: one per cluster and task
  NoLock,       \* no row is in use
  MaxAttempts   \* stop_after_attempt(10)

ASSUME NoUnitAssumption == NoUnit \notin Units
ASSUME NoLockAssumption == NoLock \notin Locks
ASSUME AttemptsAssumption == MaxAttempts \in Nat \ {0}

VARIABLES
  executor,   \* executor[l]: the executor column of row l
  pc,         \* pc[u]: where unit u is inside _locking
  row,        \* row[u]: the row unit u asks for
  attempts    \* attempts[u]: the failed attempts to acquire it

lockVars == <<executor, pc, row, attempts>>

PCs == {"idle", "update", "select", "held", "release", "confirm", "failed"}

TypeOK ==
  /\ executor \in [Locks -> Units \cup {NoUnit}]
  /\ pc \in [Units -> PCs]
  /\ row \in [Units -> Locks \cup {NoLock}]
  /\ attempts \in [Units -> 0 .. MaxAttempts]

Init ==
  /\ executor = [l \in Locks |-> NoUnit]
  /\ pc = [u \in Units |-> "idle"]
  /\ row = [u \in Units |-> NoLock]
  /\ attempts = [u \in Units |-> 0]

--------------------------------------------------------------------------------
(* with self._locking(instance_label, task): the first attempt begins. *)
Locking(u, l) ==
  /\ pc[u] = "idle"
  /\ pc' = [pc EXCEPT ![u] = "update"]
  /\ row' = [row EXCEPT ![u] = l]
  /\ attempts' = [attempts EXCEPT ![u] = 0]
  /\ UNCHANGED executor

(* Mistake: the UPDATE forgets AND executor = ''. *)
TakeAnyRow(u) ==
  executor' = [executor EXCEPT ![row[u]] = u]

(* UPDATE ... SET executor = label WHERE task = ... AND executor = ''. *)
TakeRow(u) ==
  executor' = [executor EXCEPT ![row[u]] = IF @ = NoUnit THEN u ELSE @]

(* Mistake: the release names another task, so no row matches. *)
ClearNoRow(u) == UNCHANGED executor

(* UPDATE ... SET executor = '' WHERE task = ... AND executor = label. *)
ClearRow(u) ==
  executor' = [executor EXCEPT ![row[u]] = IF @ = u THEN NoUnit ELSE @]

(* tenacity: wait and try again, or re-raise after the last attempt. *)
AttemptFails(u) ==
  /\ attempts' = [attempts EXCEPT ![u] = @ + 1]
  /\ pc' = [pc EXCEPT ![u] =
              IF attempts[u] + 1 < MaxAttempts THEN "update" ELSE "failed"]

AcquireUpdate(u) ==
  /\ pc[u] = "update"
  /\ TakeRow(u)
  /\ pc' = [pc EXCEPT ![u] = "select"]
  /\ UNCHANGED <<row, attempts>>

(* Mistake: the answer of the SELECT is not looked at. *)
AcquireUnchecked(u) ==
  /\ pc[u] = "select"
  /\ pc' = [pc EXCEPT ![u] = "held"]
  /\ UNCHANGED <<executor, row, attempts>>

(* The SELECT returns this unit's label: the lock is acquired, whether this *)
(* attempt or an earlier one of the same label took the row.                *)
AcquireSelect(u) ==
  /\ pc[u] = "select"
  /\ executor[row[u]] = u
  /\ pc' = [pc EXCEPT ![u] = "held"]
  /\ UNCHANGED <<executor, row, attempts>>

AcquireRefused(u) ==
  /\ pc[u] = "select"
  /\ executor[row[u]] # u
  /\ AttemptFails(u)
  /\ UNCHANGED <<executor, row>>

(* ExecutionError while acquiring: the UPDATE was applied or it was not. *)
AcquireError(u) ==
  /\ \/ pc[u] = "update" /\ (TakeRow(u) \/ UNCHANGED executor)
     \/ pc[u] = "select" /\ UNCHANGED executor
  /\ AttemptFails(u)
  /\ UNCHANGED row

(* Mistake: the row is given back while the body still runs. *)
ReleaseInBody(u) ==
  /\ pc[u] = "held"
  /\ ClearRow(u)
  /\ UNCHANGED <<pc, row, attempts>>

(* The body of the with statement ends, normally or by an exception. *)
EndBody(u) ==
  /\ pc[u] = "held"
  /\ pc' = [pc EXCEPT ![u] = "release"]
  /\ UNCHANGED <<executor, row, attempts>>

ReleaseUpdate(u) ==
  /\ pc[u] = "release"
  /\ ClearRow(u)
  /\ pc' = [pc EXCEPT ![u] = "confirm"]
  /\ UNCHANGED <<row, attempts>>

(* RuntimeError if the row still names this unit, done otherwise. *)
ReleaseSelect(u) ==
  /\ pc[u] = "confirm"
  /\ IF executor[row[u]] = u
       THEN /\ pc' = [pc EXCEPT ![u] = "failed"]
            /\ UNCHANGED row
       ELSE /\ pc' = [pc EXCEPT ![u] = "idle"]
            /\ row' = [row EXCEPT ![u] = NoLock]
  /\ UNCHANGED <<executor, attempts>>

ReleaseError(u) ==
  /\ \/ pc[u] = "release" /\ (ClearRow(u) \/ UNCHANGED executor)
     \/ pc[u] = "confirm" /\ UNCHANGED executor
  /\ pc' = [pc EXCEPT ![u] = "failed"]
  /\ UNCHANGED <<row, attempts>>

(* The hook process dies: no finally clause runs. *)
Die(u) ==
  /\ pc[u] # "idle"
  /\ pc' = [pc EXCEPT ![u] = "failed"]
  /\ UNCHANGED <<executor, row, attempts>>

(* Juju runs a failed hook again from the top. *)
Rerun(u) ==
  /\ pc[u] = "failed"
  /\ pc' = [pc EXCEPT ![u] = "idle"]
  /\ row' = [row EXCEPT ![u] = NoLock]
  /\ UNCHANGED <<executor, attempts>>

Next ==
  \E u \in Units :
    \/ \E l \in Locks : Locking(u, l)
    \/ AcquireUpdate(u)
    \/ AcquireSelect(u)
    \/ AcquireRefused(u)
    \/ AcquireError(u)
    \/ EndBody(u)
    \/ ReleaseUpdate(u)
    \/ ReleaseSelect(u)
    \/ ReleaseError(u)
    \/ Die(u)
    \/ Rerun(u)

Spec == Init /\ [][Next]_lockVars

--------------------------------------------------------------------------------
(* Two units never work under the same row at once: the instance additions  *)
(* and rejoinings of a cluster are serial, and so are its removals          *)
(* (_locking), although a row outlives the hook that took it and any        *)
(* statement may fail after it was applied.                                 *)
MutualExclusion ==
  \A u, v \in Units :
    (pc[u] = "held" /\ pc[v] = "held" /\ row[u] = row[v]) => u = v

(* A row never passes from one unit to another: it is taken only when empty *)
(* and emptied only by its executor's own release (_acquire_lock,           *)
(* _release_lock).  A unit whose hook died keeps its row.                   *)
RowIsNeverStolen ==
  [][\A l \in Locks :
       executor'[l] # executor[l] =>
         \/ executor[l] = NoUnit
         \/ /\ executor'[l] = NoUnit
            /\ executor[l] \in Units
            /\ pc[executor[l]] = "release" /\ row[executor[l]] = l]_lockVars

(* The table implements the abstract lock: a unit is inside a row while the *)
(* body of its with statement runs.                                         *)
Abstract ==
  INSTANCE ClusterLock WITH
    owner <- executor,
    inside <- [l \in Locks |-> {u \in Units : pc[u] = "held" /\ row[u] = l}]

ImplementsClusterLock == Abstract!Spec
================================================================================
