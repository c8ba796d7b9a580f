------------------------- MODULE InstanceLocking_proofs -------------------------
(***************************************************************************)
(* Proofs about InstanceLocking for any set of units and rows and any      *)
(* number of attempts.  MutualExclusion is not inductive: what keeps it is *)
(* that a unit between a successful SELECT and its own release is the      *)
(* executor of its row (ExecutorInv), and that no other unit's statement   *)
(* can change that row.                                                    *)
(***************************************************************************)
EXTENDS InstanceLocking, TLAPS

(* A unit inside _locking has a row, and one that passed the SELECT is the *)
(* executor of its row until its own release UPDATE.                       *)
ExecutorInv ==
  \A u \in Units :
    /\ pc[u] \in {"update", "select", "held", "release", "confirm"} =>
         row[u] \in Locks
    /\ pc[u] \in {"update", "select"} => attempts[u] < MaxAttempts
    /\ pc[u] \in {"held", "release"} => executor[row[u]] = u

IInv == TypeOK /\ ExecutorInv

(* An empty locks table and idle units satisfy the inductive invariant. *)
LEMMA InitIInv == Init => IInv
BY NoUnitAssumption, AttemptsAssumption
   DEF Init, IInv, TypeOK, ExecutorInv, PCs

(* Every step of _locking keeps the inductive invariant. *)
LEMMA NextIInv == IInv /\ [Next]_lockVars => IInv'
<1> SUFFICES ASSUME IInv, [Next]_lockVars
             PROVE  IInv'
  OBVIOUS
<1> USE NoUnitAssumption, NoLockAssumption, AttemptsAssumption
    DEF IInv, TypeOK, ExecutorInv, PCs
<1>1. ASSUME NEW u \in Units, NEW l \in Locks, Locking(u, l)
      PROVE  IInv'
  BY <1>1 DEF Locking
<1>2. ASSUME NEW u \in Units, AcquireUpdate(u)
      PROVE  IInv'
  BY <1>2 DEF AcquireUpdate, TakeRow
<1>3. ASSUME NEW u \in Units, AcquireSelect(u)
      PROVE  IInv'
  BY <1>3 DEF AcquireSelect
<1>4. ASSUME NEW u \in Units, AcquireRefused(u)
      PROVE  IInv'
  BY <1>4 DEF AcquireRefused, AttemptFails
<1>5. ASSUME NEW u \in Units, AcquireError(u)
      PROVE  IInv'
  BY <1>5 DEF AcquireError, AttemptFails, TakeRow
<1>6. ASSUME NEW u \in Units, EndBody(u)
      PROVE  IInv'
  BY <1>6 DEF EndBody
<1>7. ASSUME NEW u \in Units, ReleaseUpdate(u)
      PROVE  IInv'
  BY <1>7 DEF ReleaseUpdate, ClearRow
<1>8. ASSUME NEW u \in Units, ReleaseSelect(u)
      PROVE  IInv'
  BY <1>8 DEF ReleaseSelect
<1>9. ASSUME NEW u \in Units, ReleaseError(u)
      PROVE  IInv'
  BY <1>9 DEF ReleaseError, ClearRow
<1>10. ASSUME NEW u \in Units, Die(u)
       PROVE  IInv'
  BY <1>10 DEF Die
<1>11. ASSUME NEW u \in Units, Rerun(u)
       PROVE  IInv'
  BY <1>11 DEF Rerun
<1>12. CASE UNCHANGED lockVars
  BY <1>12 DEF lockVars
<1>13. QED
  BY <1>1, <1>2, <1>3, <1>4, <1>5, <1>6, <1>7, <1>8, <1>9, <1>10, <1>11, <1>12
     DEF Next

(* The inductive invariant holds in every state that _locking reaches. *)
THEOREM Invariance == Spec => []IInv
BY InitIInv, NextIInv, PTL DEF Spec

(* The state of _locking and of the locks table always has its type. *)
THEOREM TypeCorrect == Spec => []TypeOK
<1>1. IInv => TypeOK
  BY DEF IInv
<1>2. QED
  BY <1>1, Invariance, PTL

(* Two units never work under the same row: _locking excludes, whatever    *)
(* statements fail and whichever hooks die.                                *)
THEOREM Exclusion == Spec => []MutualExclusion
<1>1. IInv => MutualExclusion
  BY DEF IInv, ExecutorInv, MutualExclusion
<1>2. QED
  BY <1>1, Invariance, PTL

(* Only an empty row is taken and only its executor's release empties it. *)
THEOREM NeverStolen == Spec => RowIsNeverStolen
<1> DEFINE Kept ==
      \A l \in Locks :
        executor'[l] # executor[l] =>
          \/ executor[l] = NoUnit
          \/ /\ executor'[l] = NoUnit
             /\ executor[l] \in Units
             /\ pc[executor[l]] = "release" /\ row[executor[l]] = l
<1>1. ASSUME IInv, Next
      PROVE  Kept
  <2> USE <1>1, NoUnitAssumption DEF IInv, TypeOK, ExecutorInv
  <2>1. ASSUME NEW u \in Units, AcquireUpdate(u) \/ AcquireError(u)
        PROVE  Kept
    BY <2>1 DEF AcquireUpdate, AcquireError, TakeRow
  <2>2. ASSUME NEW u \in Units, ReleaseUpdate(u) \/ ReleaseError(u)
        PROVE  Kept
    BY <2>2 DEF ReleaseUpdate, ReleaseError, ClearRow
  <2>3. ASSUME UNCHANGED executor
        PROVE  Kept
    BY <2>3
  <2>4. QED
    BY <2>1, <2>2, <2>3
       DEF Next, Locking, AcquireSelect, AcquireRefused, EndBody, ReleaseSelect,
           Die, Rerun
<1>2. IInv /\ [Next]_lockVars => [Kept]_lockVars
  BY <1>1
<1>3. QED
  BY <1>2, Invariance, PTL DEF Spec, RowIsNeverStolen

--------------------------------------------------------------------------------
(***************************************************************************)
(* The refinement.  inside[l] is the set of units whose body runs under l, *)
(* so each step of _locking is a Grant (the UPDATE took the row), an Enter *)
(* (the SELECT answered), a Leave (the body ended or died), a Return (the  *)
(* release UPDATE) or no step at all.                                      *)
(***************************************************************************)
LEMMA StepRefines ==
  ASSUME IInv, [Next]_lockVars
  PROVE  [Abstract!Next]_(Abstract!vars)
<1> DEFINE Inside(l) == {u \in Units : pc[u] = "held" /\ row[u] = l}
           inside == [l \in Locks |-> Inside(l)]
<1> USE NoUnitAssumption, NoLockAssumption
    DEF IInv, TypeOK, ExecutorInv, Abstract!vars
<1>1. ASSUME NEW u \in Units, AcquireUpdate(u) \/ AcquireError(u)
      PROVE  [Abstract!Next]_(Abstract!vars)
  <2>1. inside' = inside
    BY <1>1 DEF AcquireUpdate, AcquireError, AttemptFails
  <2>2. executor' = executor \/ (executor[row[u]] = NoUnit
                                  /\ row[u] \in Locks
                                  /\ executor' = [executor EXCEPT ![row[u]] = u])
    BY <1>1 DEF AcquireUpdate, AcquireError, TakeRow
  <2>3. QED
    BY <2>1, <2>2 DEF Abstract!Next, Abstract!Grant
<1>2. ASSUME NEW u \in Units, AcquireSelect(u)
      PROVE  [Abstract!Next]_(Abstract!vars)
  <2>1. inside' = [inside EXCEPT ![row[u]] = @ \cup {u}]
    <3>1. row[u] \in Locks /\ row' = row
      BY <1>2 DEF AcquireSelect
    <3>2. ASSUME NEW l \in Locks
          PROVE  Inside(l)' = IF l = row[u] THEN Inside(l) \cup {u} ELSE Inside(l)
      <4>1. ASSUME NEW v
            PROVE  v \in Inside(l)' <=>
                     v \in (IF l = row[u] THEN Inside(l) \cup {u} ELSE Inside(l))
        BY <1>2, <3>1 DEF AcquireSelect
      <4>2. QED
        BY <4>1
    <3>3. [inside EXCEPT ![row[u]] = @ \cup {u}]
            = [l \in Locks |-> IF l = row[u] THEN Inside(l) \cup {u} ELSE Inside(l)]
      BY <3>1, Zenon
    <3>4. inside' = [l \in Locks |-> Inside(l)']
      OBVIOUS
    <3>5. QED
      <4> HIDE DEF Inside, inside
      <4> QED
        BY <3>2, <3>3, <3>4, Zenon
  <2>2. QED
    BY <1>2, <2>1 DEF AcquireSelect, Abstract!Next, Abstract!Enter
<1>3. ASSUME NEW u \in Units, EndBody(u) \/ (Die(u) /\ pc[u] = "held")
      PROVE  [Abstract!Next]_(Abstract!vars)
  <2>1. inside' = [inside EXCEPT ![row[u]] = @ \ {u}]
    <3>1. row[u] \in Locks /\ row' = row
      BY <1>3 DEF EndBody, Die
    <3>2. ASSUME NEW l \in Locks
          PROVE  Inside(l)' = IF l = row[u] THEN Inside(l) \ {u} ELSE Inside(l)
      <4>1. ASSUME NEW v
            PROVE  v \in Inside(l)' <=>
                     v \in (IF l = row[u] THEN Inside(l) \ {u} ELSE Inside(l))
        BY <1>3, <3>1 DEF EndBody, Die
      <4>2. QED
        BY <4>1
    <3>3. [inside EXCEPT ![row[u]] = @ \ {u}]
            = [l \in Locks |-> IF l = row[u] THEN Inside(l) \ {u} ELSE Inside(l)]
      BY <3>1, Zenon
    <3>4. inside' = [l \in Locks |-> Inside(l)']
      OBVIOUS
    <3>5. QED
      <4> HIDE DEF Inside, inside
      <4> QED
        BY <3>2, <3>3, <3>4, Zenon
  <2>2. row[u] \in Locks /\ executor' = executor
    BY <1>3 DEF EndBody, Die
  <2>3. QED
    BY <2>1, <2>2 DEF Abstract!Next, Abstract!Leave
<1>4. ASSUME NEW u \in Units, ReleaseUpdate(u) \/ ReleaseError(u)
      PROVE  [Abstract!Next]_(Abstract!vars)
  <2>1. inside' = inside
    BY <1>4 DEF ReleaseUpdate, ReleaseError
  <2>2. executor' = executor \/ (executor[row[u]] = u
                                  /\ row[u] \in Locks
                                  /\ u \notin inside[row[u]]
                                  /\ executor' = [executor EXCEPT ![row[u]] = NoUnit])
    BY <1>4 DEF ReleaseUpdate, ReleaseError, ClearRow
  <2>3. QED
    BY <2>1, <2>2 DEF Abstract!Next, Abstract!Return
<1>5. ASSUME NEW u \in Units,
             \/ \E l \in Locks : Locking(u, l)
             \/ AcquireRefused(u)
             \/ ReleaseSelect(u)
             \/ Die(u) /\ pc[u] # "held"
             \/ Rerun(u)
      PROVE  [Abstract!Next]_(Abstract!vars)
  <2>1. inside' = inside
    BY <1>5 DEF Locking, AcquireRefused, AttemptFails, ReleaseSelect, Die, Rerun
  <2>2. executor' = executor
    BY <1>5 DEF Locking, AcquireRefused, ReleaseSelect, Die, Rerun
  <2>3. QED
    BY <2>1, <2>2
<1>6. CASE UNCHANGED lockVars
  BY <1>6 DEF lockVars
<1>7. QED
  BY <1>1, <1>2, <1>3, <1>4, <1>5, <1>6 DEF Next

(* The locks table and _locking implement the abstract cluster lock. *)
THEOREM Refinement == Spec => ImplementsClusterLock
<1>1. Init => Abstract!Init
  BY DEF Init, Abstract!Init
<1>2. IInv /\ [Next]_lockVars => [Abstract!Next]_(Abstract!vars)
  BY StepRefines
<1>3. QED
  BY <1>1, <1>2, Invariance, PTL DEF Spec, ImplementsClusterLock, Abstract!Spec

================================================================================
