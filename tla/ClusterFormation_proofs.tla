------------------------- MODULE ClusterFormation_proofs -------------------------
(***************************************************************************)
(* What ClusterFormation keeps for any number of units, hook crashes and   *)
(* failed statements: members are listed, membership is for ever, a        *)
(* leadership that does not move founds one cluster, and the listing of a  *)
(* cluster changes only under its locks.                                   *)
(***************************************************************************)
EXTENDS ClusterFormation, TLAPS

Joining == {"remove", "rescan", "add", "clone"}

(* The types of the variables that the argument is about. *)
Shape ==
  /\ leader \in Units
  /\ moves \in Nat
  /\ stage \in [Units -> Stages]
  /\ local \in [Units -> UnitState]
  /\ stored \in [Units -> UnitState]
  /\ data \in [Units -> BOOLEAN]
  /\ cluster \in [Units -> Units \cup {NoUnit}]
  /\ metadata \in [Units -> SUBSET Units]
  /\ target \in [Units -> Units \cup {NoUnit}]

(* A cluster belongs to the unit that founded it, which stays its member. *)
Founded ==
  /\ \A u \in Units : cluster[u] # NoUnit => cluster[cluster[u]] = cluster[u]
  /\ \A u \in Units : metadata[u] # {} => cluster[u] = u
  /\ \A u \in Units : target[u] # NoUnit => cluster[target[u]] = target[u]

(* Who founds or joins a cluster is a member of none. *)
Outside ==
  /\ \A u \in Units : ~data[u] => cluster[u] = NoUnit
  /\ \A u \in Units : stage[u] \in {"configure", "create"} => cluster[u] = NoUnit
  /\ \A u \in Units : stage[u] \in Joining =>
       cluster[u] = NoUnit /\ target[u] # NoUnit

(* A unit that waits, or works on its server, has set it up. *)
SetUp ==
  /\ \A u \in Units :
       stage[u] \in {"configure", "create", "clusterset", "update"} \cup Joining => data[u]
  /\ \A u \in Units : local[u].state = "waiting" => data[u]
  /\ \A u \in Units : stored[u].state = "waiting" => data[u]

(* Without a move of the leadership, whoever founds a cluster leads. *)
FoundedByLeader ==
  moves = 0 => \A c \in Units : metadata[c] # {} \/ stage[c] = "create" => c = leader

IInv ==
  /\ Shape
  /\ Founded
  /\ MembersAreListed
  /\ Outside
  /\ SetUp
  /\ FoundedByLeader

--------------------------------------------------------------------------------
(* Initially no server is set up and there is no cluster. *)
LEMMA InitIInv == Init => IInv
  BY UnitsAssumption
  DEF Init, IInv, Shape, Founded, MembersAreListed, Outside, SetUp,
      FoundedByLeader, Stages, UnitState, Fresh, Joining

(* A step that moves a hook on to a stage which neither founds nor joins. *)
LEMMA GotoIInv ==
  ASSUME IInv, NEW u \in Units, NEW s \in Stages,
         s \notin {"configure", "create"}, s \notin Joining,
         s \in {"clusterset", "update"} => data[u],
         Goto(u, s),
         UNCHANGED <<leader, moves, local, stored, mysqlVars, target>>
  PROVE  IInv'
<1>1. Shape'
  BY DEF IInv, Shape, Goto, mysqlVars
<1>2. Founded' /\ MembersAreListed' /\ FoundedByLeader'
  BY DEF IInv, Shape, Founded, MembersAreListed, FoundedByLeader, Goto, mysqlVars
<1>3. Outside'
  BY DEF IInv, Shape, Outside, Goto, mysqlVars
<1>4. SetUp'
  BY DEF IInv, Shape, SetUp, Goto, mysqlVars, Joining
<1> QED
  BY <1>1, <1>2, <1>3, <1>4 DEF IInv

(* A hook that ends well commits a unit state and forgets its target. *)
LEMMA FinishIInv ==
  ASSUME IInv, NEW u \in Units, NEW s \in UnitState,
         s.state = "waiting" => data[u],
         Finish(u, s),
         UNCHANGED <<leader, moves, mysqlVars>>
  PROVE  IInv'
<1>1. Shape'
  BY DEF IInv, Shape, Finish, Goto, mysqlVars, Stages
<1>2. Founded' /\ MembersAreListed' /\ FoundedByLeader'
  BY UnitsAssumption
  DEF IInv, Shape, Founded, MembersAreListed, FoundedByLeader, mysqlVars, Finish, Goto
<1>3. Outside'
  BY DEF IInv, Shape, Outside, Finish, Goto, mysqlVars, Joining
<1>4. SetUp'
  BY DEF IInv, Shape, SetUp, Finish, Goto, mysqlVars, Joining
<1> QED
  BY <1>1, <1>2, <1>3, <1>4 DEF IInv

(* Leadership that moves founds nothing. *)
LEMMA MoveIInv ==
  ASSUME IInv, NEW u \in Units, LeadershipMoves(u)
  PROVE  IInv'
  BY DEF LeadershipMoves, IInv, Shape, Founded, MembersAreListed, Outside, SetUp,
         FoundedByLeader, mysqlVars, hookVars

(* A hook that starts does not yet touch MySQL. *)
LEMMA DispatchIInv ==
  ASSUME IInv, NEW u \in Units,
         NEW e \in {"elected", "start", "changed", "status"}, Dispatch(u, e)
  PROVE  IInv'
<1>1. Shape'
  <2>1. local[u].pid \/ Initialized(u) \in BOOLEAN
    BY DEF Initialized
  <2>2. PICK p \in BOOLEAN : local' = [local EXCEPT ![u].pid = p]
    BY DEF Dispatch
  <2>3. local' \in [Units -> UnitState]
    BY <2>2 DEF IInv, Shape, UnitState
  <2> QED
    BY <2>3 DEF Dispatch, IInv, Shape, Goto, mysqlVars, Stages
<1>2. Founded' /\ MembersAreListed' /\ FoundedByLeader'
  BY DEF Dispatch, IInv, Shape, Founded, MembersAreListed, FoundedByLeader, Goto, mysqlVars
<1>3. Outside'
  BY DEF Dispatch, IInv, Shape, Outside, Goto, mysqlVars, Joining
<1>4. SetUp'
  BY DEF Dispatch, IInv, Shape, SetUp, Goto, mysqlVars, Joining, UnitState
<1> QED
  BY <1>1, <1>2, <1>3, <1>4 DEF IInv

(* A hook that is run again starts from the committed state. *)
LEMMA RerunIInv ==
  ASSUME IInv, NEW u \in Units, Rerun(u)
  PROVE  IInv'
<1>1. Shape'
  BY DEF Rerun, IInv, Shape, Goto, mysqlVars, Stages
<1>2. Founded' /\ MembersAreListed' /\ FoundedByLeader'
  BY UnitsAssumption
  DEF Rerun, IInv, Shape, Founded, MembersAreListed, FoundedByLeader, Goto, mysqlVars
<1>3. Outside'
  BY DEF Rerun, IInv, Shape, Outside, Goto, mysqlVars, Joining
<1>4. SetUp'
  BY DEF Rerun, IInv, Shape, SetUp, Goto, mysqlVars, Joining
<1> QED
  BY <1>1, <1>2, <1>3, <1>4 DEF IInv

(* start: the server is set up, a cluster founded, the state published. *)
LEMMA StartIInv ==
  ASSUME IInv, NEW u \in Units
  PROVE  /\ SetupServer(u) => IInv'
         /\ ConfigureInstance(u) => IInv'
         /\ CreateCluster(u) => IInv'
         /\ CreateClusterSet(u) => IInv'
         /\ StartUpdateState(u) => IInv'
<1>1. ASSUME SetupServer(u) PROVE IInv'
  BY <1>1
  DEF SetupServer, Goto, IInv, Shape, Founded, MembersAreListed, Outside, SetUp,
      FoundedByLeader, jujuVars, Stages, Joining
<1>5. ASSUME ConfigureInstance(u) PROVE IInv'
  <2>1. PICK s \in {"create", "update"} : Goto(u, s) /\ (s = "create" => leader = u)
    BY <1>5 DEF ConfigureInstance, Bootstraps
  <2>2. stage[u] = "configure" /\ cluster[u] = NoUnit /\ data[u]
    BY <1>5 DEF ConfigureInstance, IInv, Outside, SetUp
  <2>3. UNCHANGED <<leader, moves, local, stored, mysqlVars, target>>
    BY <1>5 DEF ConfigureInstance, jujuVars
  <2>4. Shape'
    BY <2>1, <2>3 DEF IInv, Shape, Goto, mysqlVars, Stages
  <2>5. Founded' /\ MembersAreListed' /\ FoundedByLeader'
    BY <2>1, <2>3
    DEF IInv, Shape, Founded, MembersAreListed, FoundedByLeader, Goto, mysqlVars
  <2>6. Outside' /\ SetUp'
    BY <2>1, <2>2, <2>3 DEF IInv, Shape, Outside, SetUp, Goto, mysqlVars, Joining
  <2> QED
    BY <2>4, <2>5, <2>6 DEF IInv
<1>2. ASSUME CreateCluster(u) PROVE IInv'
  <2>1. cluster[u] = NoUnit /\ metadata[u] = {} /\ (moves = 0 => leader = u)
    BY <1>2, UnitsAssumption
    DEF CreateCluster, IInv, Shape, Founded, Outside, FoundedByLeader
  <2>2. \A v \in Units : cluster[v] # u /\ target[v] # u
    BY <2>1, UnitsAssumption DEF IInv, Shape, Founded
  <2>3. Shape'
    BY <1>2 DEF CreateCluster, Goto, IInv, Shape, jujuVars, Stages
  <2>4. Founded' /\ MembersAreListed'
    BY <1>2, <2>1, <2>2, UnitsAssumption
    DEF CreateCluster, IInv, Shape, Founded, MembersAreListed
  <2>5. Outside' /\ SetUp'
    BY <1>2
    DEF CreateCluster, Goto, IInv, Shape, Outside, SetUp, Joining
  <2>6. FoundedByLeader'
    BY <1>2, <2>1 DEF CreateCluster, Goto, IInv, Shape, FoundedByLeader, jujuVars
  <2> QED
    BY <2>3, <2>4, <2>5, <2>6 DEF IInv
<1>3. ASSUME CreateClusterSet(u) PROVE IInv'
  BY <1>3
  DEF CreateClusterSet, Goto, IInv, Shape, Founded, MembersAreListed, Outside,
      SetUp, FoundedByLeader, jujuVars, Stages, Joining
<1>4. ASSUME StartUpdateState(u) PROVE IInv'
  <2>1. PICK state \in {"ONLINE", "waiting"} :
          local' = [local EXCEPT ![u] =
                      [local[u] EXCEPT !.state = state, !.started = TRUE]]
    BY <1>4 DEF StartUpdateState
  <2>2. local' \in [Units -> UnitState]
    BY <2>1 DEF IInv, Shape, UnitState
  <2>3. Shape'
    BY <1>4, <2>2
    DEF StartUpdateState, Goto, IInv, Shape, jujuVars, mysqlVars, Stages
  <2>4. Founded' /\ MembersAreListed' /\ FoundedByLeader'
    BY <1>4
    DEF StartUpdateState, Goto, IInv, Shape, Founded, MembersAreListed, FoundedByLeader,
        jujuVars, mysqlVars
  <2>5. Outside'
    BY <1>4 DEF StartUpdateState, Goto, IInv, Shape, Outside, mysqlVars, Joining
  <2>6. SetUp'
    BY <1>4, <2>1 DEF StartUpdateState, Goto, IInv, Shape, SetUp, mysqlVars, Joining
  <2> QED
    BY <2>3, <2>4, <2>5, <2>6 DEF IInv
<1> QED
  BY <1>1, <1>2, <1>3, <1>4, <1>5

(* relation-changed: an instance outside of every cluster is removed from   *)
(* the listing and added to it.                                             *)
LEMMA JoinIInv ==
  ASSUME IInv, NEW u \in Units
  PROVE  /\ JoinInstance(u) => IInv'
         /\ DetachInstance(u) => IInv'
         /\ RescanAndAdd(u) => IInv'
         /\ AttachInstance(u) => IInv'
         /\ AttachFallsBack(u) => IInv'
         /\ AttachFails(u) => IInv'
<1>1. ASSUME JoinInstance(u) PROVE IInv'
  <2>1. cluster[u] = NoUnit /\ data[u]
    BY <1>1 DEF JoinInstance, MayJoin, IInv, Shape, MembersAreListed, SetUp
  <2>2. PICK c \in Units : cluster[c] = c /\ target' = [target EXCEPT ![u] = c]
    BY <1>1 DEF JoinInstance, Donors, IInv, Shape, Founded
  <2>3. PICK s \in Joining : Goto(u, s)
    BY <1>1 DEF JoinInstance, Joining
  <2>4. Shape'
    BY <1>1, <2>2, <2>3
    DEF JoinInstance, Goto, IInv, Shape, jujuVars, mysqlVars, Stages, Joining
  <2>5. Founded' /\ MembersAreListed' /\ FoundedByLeader'
    BY <1>1, <2>2
    DEF JoinInstance, Goto, IInv, Shape, Founded, MembersAreListed, FoundedByLeader,
        jujuVars, mysqlVars
  <2>6. Outside' /\ SetUp'
    BY <1>1, <2>1, <2>2, <2>3, UnitsAssumption
    DEF JoinInstance, Goto, IInv, Shape, Outside, SetUp, mysqlVars, Joining
  <2> QED
    BY <2>4, <2>5, <2>6 DEF IInv
<1>2. ASSUME DetachInstance(u) PROVE IInv'
  <2>1. cluster[u] = NoUnit /\ target[u] \in Units
    BY <1>2 DEF DetachInstance, IInv, Shape, Outside, Joining
  <2>2. Shape'
    BY <1>2, <2>1 DEF DetachInstance, Goto, IInv, Shape, jujuVars, Stages
  <2>3. Founded' /\ MembersAreListed' /\ FoundedByLeader'
    BY <1>2, <2>1
    DEF DetachInstance, Goto, IInv, Shape, Founded, MembersAreListed, FoundedByLeader,
        jujuVars
  <2>4. Outside' /\ SetUp'
    BY <1>2 DEF DetachInstance, Goto, IInv, Shape, Outside, SetUp, Joining
  <2> QED
    BY <2>2, <2>3, <2>4 DEF IInv
<1>3. ASSUME RescanAndAdd(u) PROVE IInv'
  BY <1>3
  DEF RescanAndAdd, Goto, IInv, Shape, Founded, MembersAreListed, Outside, SetUp,
      FoundedByLeader, jujuVars, mysqlVars, Stages, Joining
<1>4. ASSUME AttachInstance(u) PROVE IInv'
  <2>1. /\ cluster[u] = NoUnit /\ data[u]
        /\ target[u] \in Units /\ cluster[target[u]] = target[u]
    BY <1>4 DEF AttachInstance, IInv, Shape, Founded, Outside, SetUp, Joining
  <2>2. Shape'
    BY <1>4, <2>1 DEF AttachInstance, Goto, IInv, Shape, jujuVars, Stages
  <2>3. \A v \in Units : cluster[v] # u /\ target[v] # u
    BY <2>1, UnitsAssumption DEF IInv, Shape, Founded
  <2>4. Founded' /\ MembersAreListed'
    BY <1>4, <2>1, <2>3, UnitsAssumption
    DEF AttachInstance, IInv, Shape, Founded, MembersAreListed
  <2>5. Outside' /\ SetUp'
    BY <1>4, <2>1 DEF AttachInstance, Goto, IInv, Shape, Outside, SetUp, Joining
  <2>6. target[u] \in metadata[target[u]]
    BY <2>1, UnitsAssumption DEF IInv, MembersAreListed
  <2>7. FoundedByLeader'
    BY <1>4, <2>1, <2>6
    DEF AttachInstance, Goto, IInv, Shape, FoundedByLeader, jujuVars
  <2> QED
    BY <2>2, <2>4, <2>5, <2>7 DEF IInv
<1>5. ASSUME AttachFallsBack(u) PROVE IInv'
  BY <1>5
  DEF AttachFallsBack, Goto, IInv, Shape, Founded, MembersAreListed, Outside,
      SetUp, FoundedByLeader, jujuVars, mysqlVars, Stages, Joining
<1>6. ASSUME AttachFails(u) PROVE IInv'
  <2>1. target[u] \in Units /\ cluster[target[u]] = target[u]
    BY <1>6 DEF AttachFails, IInv, Shape, Founded, Outside, Joining
  <2>2. target[u] \in metadata[target[u]]
    BY <2>1, UnitsAssumption DEF IInv, MembersAreListed
  <2>3. /\ metadata' \in [Units -> SUBSET Units]
        /\ \A c \in Units : metadata[c] \subseteq metadata'[c]
        /\ \A c \in Units : c # target[u] => metadata'[c] = metadata[c]
    BY <1>6, <2>1 DEF AttachFails, IInv, Shape
  <2>4. Shape'
    BY <1>6, <2>3 DEF AttachFails, Goto, IInv, Shape, jujuVars, Stages
  <2>5. Founded' /\ MembersAreListed' /\ FoundedByLeader'
    BY <1>6, <2>1, <2>2, <2>3, UnitsAssumption
    DEF AttachFails, Goto, IInv, Shape, Founded, MembersAreListed, FoundedByLeader,
        jujuVars
  <2>6. Outside' /\ SetUp'
    BY <1>6 DEF AttachFails, Goto, IInv, Shape, Outside, SetUp, Joining
  <2> QED
    BY <2>4, <2>5, <2>6 DEF IInv
<1> QED
  BY <1>1, <1>2, <1>3, <1>4, <1>5, <1>6

(* Every step keeps the invariant. *)
LEMMA NextIInv == IInv /\ [Next]_vars => IInv'
<1> SUFFICES ASSUME IInv, [Next]_vars PROVE IInv'
  OBVIOUS
<1>1. CASE UNCHANGED vars
  BY <1>1
  DEF vars, jujuVars, hookVars, mysqlVars, IInv, Shape, Founded,
      MembersAreListed, Outside, SetUp, FoundedByLeader
<1>2. CASE Next
  <2> SUFFICES ASSUME NEW u \in Units,
                      \/ HookStep(u)
                      \/ \E e \in {"elected", "start", "changed", "status"} :
                           Dispatch(u, e)
                      \/ LeaderSettingsChanged(u)
                      \/ LeadershipMoves(u)
                      \/ BecomesReady(u)
                      \/ StartNotTrusted(u)
                      \/ LockError(u)
                      \/ Crash(u)
               PROVE  IInv'
    BY <1>2 DEF Next
  <2> DEFINE Committed(s) == s \in UnitState /\ (s.state = "waiting" => data[u])
  <2>1. Committed(local[u])
    BY DEF IInv, Shape, SetUp
  <2>2. /\ Committed([local[u] EXCEPT !.state = "ONLINE"])
        /\ Committed([local[u] EXCEPT !.flag = TRUE])
        /\ Committed([local[u] EXCEPT !.flag = FALSE])
    BY <2>1 DEF UnitState
  <2>3. ASSUME HookStep(u) PROVE IInv'
    <3>1. CASE LeaderElected(u)
      BY <3>1, <2>2, FinishIInv DEF LeaderElected
    <3>2. CASE LeaderElectedTooLate(u) \/ StartDeferred(u)
      BY <3>2, GotoIInv
      DEF LeaderElectedTooLate, StartDeferred, jujuVars, Stages, Joining
    <3>3. CASE StartAgain(u)
      BY <3>3, GotoIInv DEF StartAgain, jujuVars, Stages, Joining
    <3>5. CASE \/ SetupServer(u) \/ ConfigureInstance(u) \/ CreateCluster(u)
               \/ CreateClusterSet(u) \/ StartUpdateState(u)
      BY <3>5, StartIInv
    <3>6. CASE StartReturns(u) \/ JoinSkipped(u)
      BY <3>6, <2>1, FinishIInv DEF StartReturns, JoinSkipped, jujuVars
    <3>7. CASE UpdateStatus(u)
      BY <3>7, <2>1, <2>2, FinishIInv DEF UpdateStatus, jujuVars
    <3>8. CASE Joined(u)
      BY <3>8, <2>2, FinishIInv DEF Joined, jujuVars
    <3>9. CASE LockStep(u)
      BY <3>9
      DEF LockStep, jujuVars, hookVars, mysqlVars, IInv, Shape, Founded,
          MembersAreListed, Outside, SetUp, FoundedByLeader
    <3>10. CASE \/ JoinInstance(u) \/ DetachInstance(u) \/ RescanAndAdd(u)
                \/ AttachInstance(u) \/ AttachFallsBack(u) \/ AttachFails(u)
      BY <3>10, JoinIInv
    <3>11. CASE Rerun(u)
      BY <3>11, RerunIInv
    <3> QED
      BY <2>3, <3>1, <3>2, <3>3, <3>5, <3>6, <3>7, <3>8, <3>9, <3>10,
         <3>11 DEF HookStep
  <2>4. ASSUME NEW e \in {"elected", "start", "changed", "status"},
               Dispatch(u, e)
        PROVE  IInv'
    BY <2>4, DispatchIInv
  <2>5. CASE LeaderSettingsChanged(u)
    BY <2>5, <2>2, FinishIInv DEF LeaderSettingsChanged, jujuVars
  <2>6. CASE LeadershipMoves(u)
    BY <2>6, MoveIInv
  <2>7. CASE BecomesReady(u) \/ LockError(u)
    BY <2>7
    DEF BecomesReady, LockError, jujuVars, hookVars, mysqlVars, IInv, Shape,
        Founded, MembersAreListed, Outside, SetUp, FoundedByLeader
  <2>8. CASE StartNotTrusted(u) \/ Crash(u)
    BY <2>8, GotoIInv DEF StartNotTrusted, Crash, jujuVars, Stages, Joining
  <2> QED
    BY <2>3, <2>4, <2>5, <2>6, <2>7, <2>8
<1> QED
  BY <1>1, <1>2

(* The invariant holds in every reachable state. *)
THEOREM Invariance == Spec => []IInv
  BY InitIInv, NextIInv, PTL DEF Spec

(* Whatever relation-changed hooks remove, add, are refused or die doing,   *)
(* an ONLINE member stays listed in its cluster: for any number of units,   *)
(* faults and moves of the leadership.                                      *)
THEOREM Listed == Spec => []MembersAreListed
<1>1. IInv => MembersAreListed
  BY DEF IInv
<1> QED
  BY <1>1, Invariance, PTL

(* Without a move of the leadership, the start hooks found one cluster,     *)
(* however often they crash and are run again.                              *)
THEOREM OneFounder == Spec => []OneClusterUnderOneLeader
<1>1. IInv => OneClusterUnderOneLeader
  BY DEF IInv, FoundedByLeader, OneClusterUnderOneLeader, OneCluster
<1> QED
  BY <1>1, Invariance, PTL

(* No handler moves a member to another cluster, nor drops its membership.  *)
THEOREM MembershipIsForEver == Spec => NeverSwitchesCluster
<1>1. ASSUME IInv, [Next]_vars, NEW u \in Units, cluster[u] # NoUnit
      PROVE  cluster'[u] = cluster[u]
  <2>1. ASSUME NEW v \in Units, CreateCluster(v) \/ AttachInstance(v)
        PROVE  cluster'[u] = cluster[u]
    <3>1. cluster[v] = NoUnit
      BY <1>1, <2>1 DEF CreateCluster, AttachInstance, IInv, Outside, Joining
    <3>2. u # v
      BY <1>1, <3>1
    <3>3. \E c \in Units \cup {NoUnit} : cluster' = [cluster EXCEPT ![v] = c]
      BY <1>1, <2>1 DEF CreateCluster, AttachInstance, IInv, Shape
    <3> QED
      BY <1>1, <3>2, <3>3 DEF IInv, Shape
  <2>2. ASSUME UNCHANGED cluster PROVE cluster'[u] = cluster[u]
    BY <2>2
  <2>3. CASE UNCHANGED vars
    BY <2>3, <2>2 DEF vars, mysqlVars
  <2>4. ASSUME NEW v \in Units, HookStep(v)
        PROVE  UNCHANGED cluster \/ CreateCluster(v) \/ AttachInstance(v)
    BY <2>4
    DEF HookStep, mysqlVars, LeaderElected, LeaderElectedTooLate, StartDeferred,
        StartAgain, SetupServer, ConfigureInstance, CreateClusterSet,
        StartUpdateState, StartReturns, UpdateStatus, JoinSkipped, JoinInstance,
        LockStep, DetachInstance, RescanAndAdd, AttachFallsBack, AttachFails,
        Joined, Rerun
  <2>5. ASSUME NEW v \in Units,
               \/ \E e \in {"elected", "start", "changed", "status"} :
                    Dispatch(v, e)
               \/ LeaderSettingsChanged(v)
               \/ LeadershipMoves(v)
               \/ BecomesReady(v)
               \/ StartNotTrusted(v)
               \/ LockError(v)
               \/ Crash(v)
        PROVE  UNCHANGED cluster
    BY <2>5
    DEF mysqlVars, Dispatch, LeaderSettingsChanged, LeadershipMoves,
        BecomesReady, StartNotTrusted, LockError, Crash
  <2> QED
    BY <1>1, <2>1, <2>2, <2>3, <2>4, <2>5 DEF Next
<1>2. IInv /\ [Next]_vars =>
        [\A u \in Units : cluster[u] # NoUnit => cluster'[u] = cluster[u]]_vars
  BY <1>1
<1> QED
  BY <1>2, Invariance, PTL DEF Spec, NeverSwitchesCluster

--------------------------------------------------------------------------------
(* Every step of a handler is a step of InstanceLocking, or leaves the      *)
(* table and the bookkeeping of its users alone.                            *)
LEMMA LockSteps ==
  ASSUME IInv, [Next]_vars
  PROVE  Lock!Next \/ UNCHANGED lockVars
<1>1. ASSUME NEW u \in Units, NEW c \in Units, NEW t \in Tasks,
             Lock!Locking(u, <<c, t>>)
      PROVE  Lock!Next
  BY <1>1 DEF Lock!Next, Locks
<1>2. ASSUME NEW u \in Units, HookStep(u)
      PROVE  Lock!Next \/ UNCHANGED lockVars
  <2>1. CASE JoinInstance(u)
    <3>1. PICK v \in Donors(u) :
            \/ Lock!Locking(u, <<cluster[v], "unit-remove">>)
            \/ Lock!Locking(u, <<cluster[v], "unit-add">>)
      BY <2>1 DEF JoinInstance
    <3>2. cluster[v] \in Units
      BY DEF Donors, IInv, Shape
    <3> QED
      BY <3>1, <3>2, <1>1 DEF Tasks
  <2>2. CASE RescanAndAdd(u)
    <3>1. target[u] \in Units
      BY <2>2 DEF RescanAndAdd, IInv, Shape, Outside, Joining
    <3> QED
      BY <3>1, <2>2, <1>1 DEF RescanAndAdd, Tasks
  <2>3. CASE LockStep(u)
    BY <2>3 DEF LockStep, Lock!Next
  <2>4. CASE DetachInstance(u) \/ AttachInstance(u) \/ AttachFails(u)
    BY <2>4 DEF DetachInstance, AttachInstance, AttachFails, Lock!Next
  <2>5. CASE Rerun(u)
    BY <2>5 DEF Rerun, Lock!Next
  <2>6. CASE \/ LeaderElected(u) \/ LeaderElectedTooLate(u)
             \/ StartDeferred(u) \/ StartAgain(u) \/ SetupServer(u)
             \/ ConfigureInstance(u) \/ CreateCluster(u)
             \/ CreateClusterSet(u) \/ StartUpdateState(u)
             \/ StartReturns(u) \/ UpdateStatus(u) \/ JoinSkipped(u)
             \/ AttachFallsBack(u) \/ Joined(u)
    BY <2>6
    DEF LeaderElected, LeaderElectedTooLate, StartDeferred, StartAgain,
        SetupServer, ConfigureInstance, CreateCluster, CreateClusterSet,
        StartUpdateState, StartReturns, UpdateStatus, JoinSkipped,
        AttachFallsBack, Joined
  <2> QED
    BY <1>2, <2>1, <2>2, <2>3, <2>4, <2>5, <2>6 DEF HookStep
<1>3. ASSUME NEW u \in Units,
             \/ \E e \in {"elected", "start", "changed", "status"} :
                  Dispatch(u, e)
             \/ LeaderSettingsChanged(u)
             \/ LeadershipMoves(u)
             \/ BecomesReady(u)
             \/ StartNotTrusted(u)
      PROVE  UNCHANGED lockVars
  BY <1>3
  DEF Dispatch, LeaderSettingsChanged, LeadershipMoves, BecomesReady,
      StartNotTrusted
<1>4. ASSUME NEW u \in Units, LockError(u) \/ Crash(u)
      PROVE  Lock!Next \/ UNCHANGED lockVars
  BY <1>4 DEF LockError, Crash, Lock!Next
<1>5. CASE UNCHANGED vars
  BY <1>5 DEF vars
<1> QED
  BY <1>2, <1>3, <1>4, <1>5 DEF Next

(* Until its own release, a unit that found itself in its row is its        *)
(* executor.                                                                *)
RowInv ==
  /\ executor \in [Locks -> Units \cup {NoUnit}]
  /\ pc \in [Units -> Lock!PCs]
  /\ row \in [Units -> Locks \cup {NoLock}]
  /\ \A u \in Units :
       /\ pc[u] \in {"update", "select", "held", "release", "confirm"} => row[u] \in Locks
       /\ pc[u] \in {"held", "release"} => executor[row[u]] = u

(* _locking keeps that. *)
LEMMA RowStep == RowInv /\ (Lock!Next \/ UNCHANGED lockVars) => RowInv'
<1> SUFFICES ASSUME RowInv, Lock!Next \/ UNCHANGED lockVars PROVE RowInv'
  OBVIOUS
<1> USE UnitsAssumption DEF RowInv, Lock!PCs
<1>1. ASSUME NEW u \in Units, NEW l \in Locks, Lock!Locking(u, l) PROVE RowInv'
  BY <1>1 DEF Lock!Locking
<1>2. ASSUME NEW u \in Units, Lock!AcquireUpdate(u) PROVE RowInv'
  BY <1>2 DEF Lock!AcquireUpdate, Lock!TakeRow
<1>3. ASSUME NEW u \in Units, Lock!AcquireSelect(u) PROVE RowInv'
  BY <1>3 DEF Lock!AcquireSelect
<1>4. ASSUME NEW u \in Units, Lock!AcquireRefused(u) PROVE RowInv'
  BY <1>4 DEF Lock!AcquireRefused, Lock!AttemptFails
<1>5. ASSUME NEW u \in Units, Lock!AcquireError(u) PROVE RowInv'
  BY <1>5 DEF Lock!AcquireError, Lock!AttemptFails, Lock!TakeRow
<1>6. ASSUME NEW u \in Units, Lock!EndBody(u) PROVE RowInv'
  BY <1>6 DEF Lock!EndBody
<1>7. ASSUME NEW u \in Units, Lock!ReleaseUpdate(u) PROVE RowInv'
  BY <1>7 DEF Lock!ReleaseUpdate, Lock!ClearRow
<1>8. ASSUME NEW u \in Units, Lock!ReleaseSelect(u) PROVE RowInv'
  BY <1>8 DEF Lock!ReleaseSelect
<1>9. ASSUME NEW u \in Units, Lock!ReleaseError(u) PROVE RowInv'
  BY <1>9 DEF Lock!ReleaseError, Lock!ClearRow
<1>10. ASSUME NEW u \in Units, Lock!Die(u) PROVE RowInv'
  BY <1>10 DEF Lock!Die
<1>11. ASSUME NEW u \in Units, Lock!Rerun(u) PROVE RowInv'
  BY <1>11 DEF Lock!Rerun
<1>12. CASE UNCHANGED lockVars
  BY <1>12 DEF lockVars
<1> QED
  BY <1>1, <1>2, <1>3, <1>4, <1>5, <1>6, <1>7, <1>8, <1>9, <1>10, <1>11, <1>12
  DEF Lock!Next

(* The row for which a handler that removes or adds its instance asks. *)
RowOf(u) == IF stage[u] = "remove" THEN <<target[u], "unit-remove">>
                                   ELSE <<target[u], "unit-add">>

(* Where in _locking its body has not ended. *)
Asking == {"update", "select", "held"}

(* Whoever is about to remove or to add its instance asked for that row. *)
AsksFor ==
  \A u \in Units :
    stage[u] \in {"remove", "add", "clone"} /\ pc[u] \in Asking => row[u] = RowOf(u)

(* A handler asks for the row of the removal or addition it goes on to. *)
LEMMA AsksStep == IInv /\ RowInv /\ AsksFor /\ [Next]_vars => AsksFor'
<1> SUFFICES ASSUME IInv, RowInv, AsksFor, [Next]_vars, NEW v \in Units,
                    stage'[v] \in {"remove", "add", "clone"}, pc'[v] \in Asking
             PROVE  row'[v] = RowOf(v)'
  BY DEF AsksFor
<1>0. /\ stage \in [Units -> Stages] /\ pc \in [Units -> Lock!PCs]
      /\ row \in [Units -> Locks \cup {NoLock}] /\ target \in [Units -> Units \cup {NoUnit}]
  BY DEF IInv, Shape, RowInv
<1>1. ASSUME stage'[v] = stage[v], target'[v] = target[v], row'[v] = row[v], pc[v] \in Asking
      PROVE  row'[v] = RowOf(v)'
  BY <1>1 DEF AsksFor, RowOf
<1>2. ASSUME NEW u \in Units, JoinInstance(u) PROVE row'[v] = RowOf(v)'
  <2>1. CASE u = v
    BY <1>0, <1>2, <2>1 DEF JoinInstance, Goto, Lock!Locking, RowOf
  <2>2. CASE u # v
    BY <1>0, <1>1, <1>2, <2>2 DEF JoinInstance, Goto, Lock!Locking
  <2> QED
    BY <2>1, <2>2
<1>3. ASSUME NEW u \in Units, RescanAndAdd(u) PROVE row'[v] = RowOf(v)'
  <2>1. CASE u = v
    BY <1>0, <1>3, <2>1 DEF RescanAndAdd, Goto, Lock!Locking, RowOf
  <2>2. CASE u # v
    BY <1>0, <1>1, <1>3, <2>2 DEF RescanAndAdd, Goto, Lock!Locking
  <2> QED
    BY <2>1, <2>2
<1>4. ASSUME NEW u \in Units, LockStep(u) \/ LockError(u) PROVE row'[v] = RowOf(v)'
  <2>1. UNCHANGED <<stage, target>>
    BY <1>4 DEF LockStep, LockError, hookVars
  <2>2. row'[v] = row[v] /\ pc[v] \in Asking
    BY <1>0, <1>4
    DEF LockStep, LockError, Lock!AcquireUpdate, Lock!AcquireSelect, Lock!AcquireRefused,
        Lock!AcquireError, Lock!ReleaseUpdate, Lock!ReleaseSelect, Lock!ReleaseError,
        Lock!AttemptFails, Asking
  <2> QED
    BY <1>1, <2>1, <2>2
<1>5. ASSUME NEW u \in Units, AttachFallsBack(u) PROVE row'[v] = RowOf(v)'
  <2>1. UNCHANGED <<pc, row, target>> /\ stage[u] = "add" /\ stage' = [stage EXCEPT ![u] = "clone"]
    BY <1>5 DEF AttachFallsBack, Goto, lockVars
  <2>2. RowOf(v)' = RowOf(v) /\ stage[v] \in {"remove", "add", "clone"}
    BY <1>0, <2>1 DEF RowOf
  <2> QED
    BY <2>1, <2>2 DEF AsksFor
<1>6. ASSUME NEW u \in Units, DetachInstance(u) \/ AttachInstance(u) \/ AttachFails(u)
      PROVE  row'[v] = RowOf(v)'
  <2>1. UNCHANGED <<row, target>> /\ pc' = [pc EXCEPT ![u] = "release"]
    BY <1>6 DEF DetachInstance, AttachInstance, AttachFails, Lock!EndBody
  <2>2. u # v /\ pc[v] \in Asking
    BY <1>0, <2>1 DEF Asking
  <2>3. stage'[v] = stage[v]
    BY <1>0, <1>6, <2>2 DEF DetachInstance, AttachInstance, AttachFails, Goto
  <2> QED
    BY <1>1, <2>1, <2>2, <2>3
<1>7. ASSUME NEW u \in Units, Crash(u) PROVE row'[v] = RowOf(v)'
  <2>1. u # v
    BY <1>0, <1>7 DEF Crash, Goto
  <2>2. stage'[v] = stage[v] /\ target' = target
    BY <1>0, <1>7, <2>1 DEF Crash, Goto
  <2>3. row' = row /\ pc'[v] = pc[v]
    BY <1>0, <1>7, <2>1 DEF Crash, Lock!Die, lockVars
  <2> QED
    BY <1>1, <2>2, <2>3
<1>8. ASSUME NEW u \in Units, Rerun(u) PROVE row'[v] = RowOf(v)'
  <2>1. u # v
    BY <1>0, <1>8 DEF Rerun, Goto
  <2>2. stage'[v] = stage[v] /\ target'[v] = target[v]
    BY <1>0, <1>8, <2>1 DEF Rerun, Goto
  <2>3. row'[v] = row[v] /\ pc'[v] = pc[v]
    BY <1>0, <1>8, <2>1 DEF Rerun, Lock!Rerun, lockVars
  <2> QED
    BY <1>1, <2>2, <2>3
<1>9. ASSUME NEW u \in Units,
             \/ LeaderElected(u) \/ StartReturns(u) \/ UpdateStatus(u) \/ JoinSkipped(u)
             \/ Joined(u) \/ LeaderSettingsChanged(u)
      PROVE  row'[v] = RowOf(v)'
  <2>1. PICK s : Finish(u, s) /\ UNCHANGED lockVars
    BY <1>9 DEF LeaderElected, StartReturns, UpdateStatus, JoinSkipped, Joined,
       LeaderSettingsChanged
  <2>2. u # v
    BY <1>0, <2>1 DEF Finish, Goto
  <2>3. stage'[v] = stage[v] /\ target'[v] = target[v]
    BY <1>0, <2>1, <2>2 DEF Finish, Goto
  <2> QED
    BY <1>1, <2>1, <2>3 DEF lockVars
<1>10. ASSUME NEW u \in Units,
              \/ \E e \in {"elected", "start", "changed", "status"} : Dispatch(u, e)
              \/ LeaderElectedTooLate(u) \/ StartDeferred(u) \/ StartAgain(u)
              \/ SetupServer(u) \/ ConfigureInstance(u) \/ CreateCluster(u)
              \/ CreateClusterSet(u) \/ StartUpdateState(u) \/ StartNotTrusted(u)
       PROVE  row'[v] = RowOf(v)'
  <2>1. PICK s \in {"start", "handler", "raise", "update", "configure", "create", "clusterset"} :
          Goto(u, s) /\ UNCHANGED <<lockVars, target>>
    BY <1>10 DEF Dispatch, LeaderElectedTooLate, StartDeferred, StartAgain, SetupServer,
       ConfigureInstance, CreateCluster, CreateClusterSet, StartUpdateState, StartNotTrusted
  <2>2. u # v
    BY <1>0, <2>1 DEF Goto
  <2>3. stage'[v] = stage[v]
    BY <1>0, <2>1, <2>2 DEF Goto
  <2> QED
    BY <1>1, <2>1, <2>3 DEF lockVars
<1>11. ASSUME NEW u \in Units, LeadershipMoves(u) \/ BecomesReady(u) PROVE row'[v] = RowOf(v)'
  BY <1>1, <1>11 DEF LeadershipMoves, BecomesReady, hookVars, lockVars
<1>12. ASSUME UNCHANGED vars PROVE row'[v] = RowOf(v)'
  BY <1>1, <1>12 DEF vars, hookVars, lockVars
<1> QED
  BY <1>2, <1>3, <1>4, <1>5, <1>6, <1>7, <1>8, <1>9, <1>10, <1>11, <1>12 DEF Next, HookStep

(* Before the first hook nobody asks for a row. *)
LEMMA InitRows == Init => RowInv /\ AsksFor
  BY DEF Init, Lock!Init, RowInv, AsksFor, Asking, Lock!PCs

(* Who is in the body of its row works there alone. *)
LEMMA HeldAlone ==
  ASSUME RowInv, NEW u \in Units, pc[u] = "held"
  PROVE  WorksAlone(u, row[u])
  BY DEF RowInv, WorksAlone

(* A step changes a listing in the body of its row, or founds the cluster. *)
LEMMA ChangesUnderLock ==
  ASSUME IInv, RowInv, AsksFor, [Next]_vars, NEW c \in Units, NEW u \in Units
  PROVE  /\ u \in metadata'[c] \ metadata[c] => u = c \/ WorksAlone(u, <<c, "unit-add">>)
         /\ u \in metadata[c] \ metadata'[c] => WorksAlone(u, <<c, "unit-remove">>)
<1>0. metadata \in [Units -> SUBSET Units] /\ target \in [Units -> Units \cup {NoUnit}]
  BY DEF IInv, Shape
<1> DEFINE Goal == /\ u \in metadata'[c] \ metadata[c] => u = c \/ WorksAlone(u, <<c, "unit-add">>)
                   /\ u \in metadata[c] \ metadata'[c] => WorksAlone(u, <<c, "unit-remove">>)
<1>1. ASSUME NEW v \in Units, CreateCluster(v) PROVE Goal
  <2>1. metadata' = [metadata EXCEPT ![v] = {v}] /\ stage[v] = "create"
    BY <1>1 DEF CreateCluster
  <2>2. metadata[v] = {}
    BY <2>1, UnitsAssumption DEF IInv, Shape, Founded, Outside
  <2> QED
    BY <1>0, <2>1, <2>2
<1>2. ASSUME NEW v \in Units, DetachInstance(v) PROVE Goal
  <2>1. /\ metadata' = [metadata EXCEPT ![target[v]] = @ \ {v}] /\ stage[v] = "remove"
        /\ pc[v] = "held"
    BY <1>2 DEF DetachInstance, Lock!EndBody
  <2>2. WorksAlone(v, <<target[v], "unit-remove">>)
    BY <2>1, HeldAlone DEF AsksFor, Asking, RowOf
  <2> QED
    BY <1>0, <2>1, <2>2
<1>3. ASSUME NEW v \in Units, AttachInstance(v) \/ AttachFails(v) PROVE Goal
  <2>1. /\ metadata' = [metadata EXCEPT ![target[v]] = @ \cup {v}] \/ metadata' = metadata
        /\ stage[v] \in {"add", "clone"} /\ pc[v] = "held"
    BY <1>3 DEF AttachInstance, AttachFails, Lock!EndBody
  <2>2. WorksAlone(v, <<target[v], "unit-add">>)
    BY <2>1, HeldAlone DEF AsksFor, Asking, RowOf
  <2> QED
    BY <1>0, <2>1, <2>2
<1>4. ASSUME NEW v \in Units, HookStep(v)
      PROVE  \/ UNCHANGED metadata \/ CreateCluster(v) \/ DetachInstance(v)
             \/ AttachInstance(v) \/ AttachFails(v)
  BY <1>4
  DEF HookStep, mysqlVars, LeaderElected, LeaderElectedTooLate, StartDeferred,
      StartAgain, SetupServer, ConfigureInstance, CreateClusterSet,
      StartUpdateState, StartReturns, UpdateStatus, JoinSkipped, JoinInstance,
      LockStep, RescanAndAdd, AttachFallsBack, Joined, Rerun
<1>5. ASSUME NEW v \in Units,
             \/ \E e \in {"elected", "start", "changed", "status"} : Dispatch(v, e)
             \/ LeaderSettingsChanged(v) \/ LeadershipMoves(v) \/ BecomesReady(v)
             \/ StartNotTrusted(v) \/ LockError(v) \/ Crash(v)
      PROVE  UNCHANGED metadata
  BY <1>5 DEF mysqlVars, Dispatch, LeaderSettingsChanged, LeadershipMoves,
     BecomesReady, StartNotTrusted, LockError, Crash
<1>6. UNCHANGED vars => UNCHANGED metadata
  BY DEF vars, mysqlVars
<1>7. ASSUME UNCHANGED metadata PROVE Goal
  BY <1>7
<1> QED
  BY <1>1, <1>2, <1>3, <1>4, <1>5, <1>6, <1>7 DEF Next

(* Units are added to a listing only by a handler that alone works under    *)
(* the cluster's row of additions, and removed only by one that alone works *)
(* under its row of removals: for any number of units, hooks that die with  *)
(* a row, statements that fail and moves of the leadership.                 *)
THEOREM ListingIsLocked == Spec => ListingChangesUnderLock
<1>1. Spec => [](RowInv /\ AsksFor)
  <2>1. IInv /\ (RowInv /\ AsksFor) /\ [Next]_vars => (RowInv /\ AsksFor)'
    BY LockSteps, RowStep, AsksStep
  <2> QED
    BY <2>1, InitRows, Invariance, PTL DEF Spec
<1>2. IInv /\ (RowInv /\ AsksFor) /\ [Next]_vars =>
        [\A c, u \in Units :
           /\ u \in metadata'[c] \ metadata[c] => u = c \/ WorksAlone(u, <<c, "unit-add">>)
           /\ u \in metadata[c] \ metadata'[c] => WorksAlone(u, <<c, "unit-remove">>)]_vars
  BY ChangesUnderLock
<1> QED
  BY <1>1, <1>2, Invariance, PTL DEF Spec, ListingChangesUnderLock
================================================================================
