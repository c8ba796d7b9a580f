------------------------ MODULE SelfHealing_proofs ------------------------
(***************************************************************************)
(* Proofs about SelfHealing, for any number of units: what one crash, of   *)
(* any of the servers, cannot lead to, and the row around a join or rejoin.*)
(***************************************************************************)
EXTENDS SelfHealing, FiniteSetTheorems, TLAPS

\* The steps of the handler from which nothing is to be feared
Benign == {"idle", "healing", "online-follower", "offline-follower", "rejoin", "lock",
           "attach", "release", "release-failed", "join", "add", "joining", "join-failed", "joined"}

\* The steps of an OFFLINE leader that recovers the cluster
OfflinePaths == {"stop-offline", "recover-offline", "drop", "create"}

\* The steps that only the leader takes
LeaderPaths == OfflinePaths \cup {"online-leader", "offline-leader", "stop-online",
                                  "recover-online"}

\* The types of the variables
Types ==
  /\ leader \in Units /\ faults \in Nat /\ caught \in BOOLEAN
  /\ up \in [Units -> BOOLEAN]
  /\ view \in [Units -> SUBSET Units]
  /\ metadata \in [Units -> SUBSET Units]
  /\ databag \in [Units -> {"ONLINE", "OFFLINE", "waiting"}]
  /\ pc \in [Units -> Benign \cup LeaderPaths \cup {"stop-follower"}]

\* The servers that see a group
Live == {u \in Units : view[u] # {}}

\* Every server that sees a group runs, sees the group V, is a member of it with the other
\* ones, and lists its members in its metadata
Group(V) ==
  \A u \in Live : up[u] = TRUE /\ view[u] = V /\ Live \subseteq V /\ V \subseteq metadata[u]

\* There is at most one group
OneGroup == \E V \in SUBSET Units : Group(V)

\* No group has quorum
HalfLost == \A v \in Units : ~Quorate(v)

\* What a unit that has come so far in its handler still knows of the cluster
Path(u) ==
  /\ pc[u] \in LeaderPaths => u = leader
  /\ pc[u] \in {"stop-online", "stop-follower"} => u \in Live /\ HalfLost
  /\ pc[u] = "recover-online" => HalfLost /\ Live \subseteq metadata[u]
  /\ pc[u] \in OfflinePaths => Live = {}

\* While the leader sees no group, some unit that sees one has published it, so that the
\* leader does not take the cluster for lost; without quorum nobody joins any more, and
\* all units that see the group have published it
Published ==
  /\ Live = {} \/ leader \in Live \/ \E v \in Live : databag[v] = "ONLINE"
  /\ HalfLost => \A v \in Live : databag[v] = "ONLINE"

\* The steps before the first crash of a unit that may still be outside of the group, and
\* those of a unit that is a member
Outside == {"idle", "join", "add", "join-failed"}
Member == {"healing", "online-leader", "online-follower", "joining", "joined"}

\* Before the first crash, a unit that knows a cluster is ONLINE in it, and has published
\* that or still reads as waiting
CalmUnit(u) ==
  /\ up[u] = TRUE
  /\ pc[u] \in Outside \cup Member
  /\ pc[u] \in Member \/ metadata[u] # {} => u \in Live
  /\ u \in Live => view[u] = Live
  /\ databag[u] \in {"ONLINE", "waiting"}

\* Before the first crash, this holds of every unit
Calm == caught = FALSE /\ leader \in Live /\ \A u \in Units : CalmUnit(u)

\* Servers have crashed once at most, when no unit had joined without having said so
Tame == faults <= 1 /\ caught = FALSE

\* What holds as long as that is so
Sound == OneGroup /\ (\A u \in Units : Path(u)) /\ Published

\* The inductive invariant.  Without Published a leader could start a second group
\* beside the first one; without OneGroup quorum, once lost, could be found again between
\* the look at the cluster and the stop.
IInv == Types /\ (Tame => Sound) /\ (faults = 0 => Calm)

-----------------------------------------------------------------------------

\* Live, for any views
LiveIn(w) == {u \in Units : w[u] # {}}

\* Reachable, for any servers and views
ReachIn(p, w, u) == {v \in w[u] : p[v] /\ w[v] = w[u]}

\* In a single group, a member has quorum if the live ones are a majority of the group
LEMMA Majority ==
  ASSUME NEW p, NEW w \in [Units -> SUBSET Units], NEW V \in SUBSET Units,
         \A u \in LiveIn(w) : p[u] = TRUE /\ w[u] = V /\ LiveIn(w) \subseteq V,
         NEW u \in Units
  PROVE  2 * Cardinality(ReachIn(p, w, u)) > Cardinality(w[u])
         <=> u \in LiveIn(w) /\ 2 * Cardinality(LiveIn(w)) > Cardinality(V)
<1>1. CASE u \in LiveIn(w)
  <2>1. w[u] = V /\ ReachIn(p, w, u) = LiveIn(w)
    BY <1>1 DEF LiveIn, ReachIn
  <2> QED
    BY <1>1, <2>1
<1>2. CASE u \notin LiveIn(w)
  <2>1. w[u] = {} /\ ReachIn(p, w, u) = {}
    BY <1>2 DEF LiveIn, ReachIn
  <2>2. Cardinality({}) = 0
    BY FS_EmptySet
  <2> QED
    BY <1>2, <2>1, <2>2
<1> QED
  BY <1>1, <1>2

\* The live members are a majority of the group V
Quorum(V) == 2 * Cardinality(Live) > Cardinality(V)

\* Majority, in the current state
LEMMA QuorateGroup ==
  ASSUME Types, NEW V \in SUBSET Units, Group(V), NEW u \in Units
  PROVE  /\ Quorate(u) <=> u \in Live /\ Quorum(V)
         /\ Reachable(u) = IF u \in Live THEN Live ELSE {}
<1>1. /\ Live = LiveIn(view) /\ Reachable(u) = ReachIn(up, view, u)
      /\ view \in [Units -> SUBSET Units]
      /\ \A x \in LiveIn(view) : up[x] = TRUE /\ view[x] = V /\ LiveIn(view) \subseteq V
  BY DEF Live, LiveIn, Reachable, ReachIn, Types, Group
<1>2. Quorate(u) <=> u \in Live /\ Quorum(V)
  BY <1>1, Majority DEF Quorate, Quorum
<1>3. Reachable(u) = IF u \in Live THEN Live ELSE {}
  BY DEF Reachable, Live, Group, Types
<1> QED
  BY <1>2, <1>3

\* Majority, in the next state
LEMMA QuorateGroupNext ==
  ASSUME Types', NEW V \in SUBSET Units, Group(V)', NEW u \in Units
  PROVE  Quorate(u)' <=> u \in Live' /\ Quorum(V)'
<1>1. /\ Live' = LiveIn(view') /\ Reachable(u)' = ReachIn(up', view', u)
      /\ view' \in [Units -> SUBSET Units]
      /\ \A x \in LiveIn(view') : up'[x] = TRUE /\ view'[x] = V /\ LiveIn(view') \subseteq V
  BY DEF Live, LiveIn, Reachable, ReachIn, Types, Group
<1> QED
  BY <1>1, Majority DEF Quorate, Quorum

\* The sizes of sets of units
LEMMA Sizes ==
  ASSUME NEW S \in SUBSET Units
  PROVE  /\ IsFiniteSet(S) /\ Cardinality(S) \in Nat
         /\ \A x \in Units : Cardinality(S \cup {x}) = Cardinality(S) + (IF x \in S THEN 0 ELSE 1)
         /\ \A T \in SUBSET S : Cardinality(T) <= Cardinality(S)
         /\ S # {} => 2 * Cardinality(S) > Cardinality(S)
<1>1. IsFiniteSet(S) /\ Cardinality(S) \in Nat
  BY UnitsAssumption, FS_Subset, FS_CardinalityType
<1>2. ASSUME NEW x \in Units
      PROVE  Cardinality(S \cup {x}) = Cardinality(S) + (IF x \in S THEN 0 ELSE 1)
  <2>1. CASE x \in S
    <3>1. S \cup {x} = S
      BY <2>1
    <3>2. Cardinality(S \cup {x}) = Cardinality(S)
      BY <3>1
    <3> QED
      BY <1>1, <2>1, <3>2
  <2>2. CASE x \notin S
    BY <1>1, <2>2, FS_AddElement
  <2> QED
    BY <2>1, <2>2
<1>3. \A T \in SUBSET S : Cardinality(T) <= Cardinality(S)
  BY <1>1, FS_Subset
<1>4. S # {} => Cardinality(S) # 0
  BY <1>1, FS_EmptySet
<1>5. S # {} => 2 * Cardinality(S) > Cardinality(S)
  BY <1>1, <1>4
<1> QED
  BY <1>1, <1>2, <1>3, <1>5

\* When no group has quorum
LEMMA HalfLostGroup ==
  ASSUME Types, NEW V \in SUBSET Units, Group(V)
  PROVE  HalfLost <=> Live = {} \/ ~Quorum(V)
<1>1. \A u \in Units : Quorate(u) <=> u \in Live /\ Quorum(V)
  BY QuorateGroup
<1>2. Live \subseteq Units
  BY DEF Live
<1> QED
  BY <1>1, <1>2 DEF HalfLost

\* The same in the next state
LEMMA HalfLostGroupNext ==
  ASSUME Types', NEW V \in SUBSET Units, Group(V)'
  PROVE  HalfLost' <=> Live' = {} \/ ~Quorum(V)'
<1>1. \A u \in Units : Quorate(u)' <=> u \in Live' /\ Quorum(V)'
  BY QuorateGroupNext
<1>2. Live' \subseteq Units
  BY DEF Live
<1> QED
  BY <1>1, <1>2 DEF HalfLost

\* The initial state satisfies the invariant
LEMMA InitIInv == Init => IInv
<1> SUFFICES ASSUME Init PROVE IInv
  OBVIOUS
<1>1. PICK waiting \in WaitingSets :
        /\ leader \in Leaders \ waiting
        /\ view = [u \in Units |-> IF u \in Units \ waiting THEN Units \ waiting ELSE {}]
        /\ metadata = view
        /\ databag = [u \in Units |-> IF u \in Units \ waiting THEN "ONLINE" ELSE "waiting"]
  BY DEF Init
<1>2. /\ up = [u \in Units |-> TRUE] /\ pc = [u \in Units |-> "idle"] /\ faults = 0 /\ caught = FALSE
      /\ leader \in Units /\ leader \in Units \ waiting
  BY <1>1, LeadersAssumption DEF Init
<1>3. Types
  BY <1>1, <1>2 DEF Types, Benign
<1>4. Live = Units \ waiting
  BY <1>1 DEF Live
<1>5. Group(Units \ waiting)
  BY <1>1, <1>2, <1>4 DEF Group
<1>6. Calm
  BY <1>1, <1>2, <1>4 DEF Calm, CalmUnit, Outside, Member
<1>7. Published /\ \A u \in Units : Path(u)
  BY <1>1, <1>2, <1>4 DEF Published, Path, LeaderPaths, OfflinePaths
<1> QED
  BY <1>2, <1>3, <1>5, <1>6, <1>7 DEF IInv, Sound, OneGroup

\* Steps that leave MySQL alone leave the group alone
LEMMA SameMySQL ==
  ASSUME UNCHANGED <<mysqlVars, leader>>
  PROVE  /\ Live' = Live /\ HalfLost' = HalfLost /\ OneGroup' = OneGroup
         /\ \A V : Group(V)' = Group(V)
  BY DEF mysqlVars, Live, HalfLost, Quorate, Reachable, OneGroup, Group

\* A handler that goes on to a step it may take keeps the invariant
LEMMA PcKeeps ==
  ASSUME IInv, NEW u \in Units, UNCHANGED <<leader, mysqlVars, faults, caught, databag>>,
         NEW l \in Benign \cup LeaderPaths \cup {"stop-follower"}, pc' = [pc EXCEPT ![u] = l],
         Tame => /\ l \in LeaderPaths => u = leader
                 /\ l \in {"stop-online", "stop-follower"} => u \in Live /\ HalfLost
                 /\ l = "recover-online" => HalfLost /\ Live \subseteq metadata[u]
                 /\ l \in OfflinePaths => Live = {},
         faults = 0 => /\ l \in Outside \cup Member
                       /\ l \in Member => u \in Live
  PROVE  IInv'
<1>1. Types'
  BY DEF IInv, Types, mysqlVars
<1>2. Live' = Live /\ HalfLost' = HalfLost /\ OneGroup' = OneGroup
  BY SameMySQL
<1>3. ASSUME Tame PROVE Sound'
  <2>1. Published'
    BY <1>2, <1>3 DEF IInv, Sound, Published
  <2>2. ASSUME NEW w \in Units PROVE Path(w)'
    <3>1. pc'[w] = (IF w = u THEN l ELSE pc[w]) /\ leader' = leader /\ metadata' = metadata
      BY DEF IInv, Types, mysqlVars
    <3>2. Path(w)
      BY <1>3 DEF IInv, Sound
    <3>3. CASE w = u
      BY <1>2, <1>3, <3>1, <3>3 DEF Path
    <3>4. CASE w # u
      BY <1>2, <3>1, <3>2, <3>4 DEF Path
    <3> QED
      BY <3>3, <3>4
  <2> QED
    BY <1>2, <1>3, <2>1, <2>2 DEF IInv, Sound
<1>4. ASSUME faults = 0 PROVE Calm'
  BY <1>2, <1>4 DEF IInv, Calm, CalmUnit, Outside, Member, Types, mysqlVars
<1> QED
  BY <1>1, <1>3, <1>4 DEF IInv, Tame

\* The steps that only look at MySQL or end the handler
LEMMA PcSteps ==
  ASSUME IInv, NEW u \in Units,
         \/ OnSelfHealing(u) \/ ChoosePath(u) \/ ChoosePathFails(u) \/ RecoverFromOnline(u)
         \/ RecoverFromOfflineFollower(u) \/ FindPrimary(u) \/ LockFails(u) \/ ReleaseLock(u)
         \/ ReleaseFails(u) \/ EnterLock(u) \/ RecreateFails(u) \/ JoinCluster(u)
         \/ StartFails(u)
  PROVE  IInv'
<1>0. Types
  BY DEF IInv
<1>1. UNCHANGED <<leader, mysqlVars, faults, caught, databag>>
  BY DEF OnSelfHealing, ChoosePath, ChoosePathFails, RecoverFromOnline,
     RecoverFromOfflineFollower, FindPrimary, LockFails, ReleaseLock, ReleaseFails, EnterLock,
     RecreateFails, JoinCluster, StartFails
<1>2. ASSUME faults = 0
      PROVE  /\ pc[u] \in Outside \cup Member /\ Tame
             /\ up[u] = TRUE /\ (pc[u] \in Member \/ metadata[u] # {} => u \in Live) /\ Calm
  BY <1>2 DEF IInv, Calm, CalmUnit, Tame
<1>3. CASE OnSelfHealing(u)
  <2>1. pc' = [pc EXCEPT ![u] = "healing"]
    BY <1>3 DEF OnSelfHealing, Goto
  <2>2. faults = 0 => u \in Live
    BY <1>2, <1>3 DEF OnSelfHealing, Initialized
  <2> QED
    BY <1>1, <2>1, <2>2, PcKeeps DEF Benign, LeaderPaths, OfflinePaths, Outside, Member
<1>4. CASE ChoosePath(u)
  <2> DEFINE l == CASE view[u] # {} /\ leader = u -> "online-leader"
                    [] view[u] # {} /\ leader # u -> "online-follower"
                    [] view[u] = {} /\ leader = u -> "offline-leader"
                    [] view[u] = {} /\ leader # u -> "offline-follower"
  <2>1. pc' = [pc EXCEPT ![u] = l] /\ pc[u] = "healing"
    BY <1>4 DEF ChoosePath, Goto
  <2>2. /\ l \in {"online-leader", "online-follower", "offline-leader", "offline-follower"}
        /\ l \in {"online-leader", "offline-leader"} => u = leader
        /\ u \in Live => l \in {"online-leader", "online-follower"}
    BY DEF Live
  <2> HIDE DEF l
  <2> QED
    BY <1>1, <1>2, <2>1, <2>2, PcKeeps DEF Benign, LeaderPaths, OfflinePaths, Outside, Member
<1>5. CASE RecoverFromOnline(u)
  <2>1. PICK l : pc' = [pc EXCEPT ![u] = l] /\ (pc[u] = "online-leader" \/ pc[u] = "online-follower")
                 /\ (l = "idle" \/ (NoQuorum(u) /\ l = "stop-follower")
                                \/ (NoQuorum(u) /\ l = "stop-online" /\ pc[u] = "online-leader"))
    BY <1>5 DEF RecoverFromOnline, Goto
  <2>2. ASSUME Tame, NoQuorum(u) PROVE u \in Live /\ HalfLost
    <3>1. PICK V \in SUBSET Units : Group(V)
      BY <2>2 DEF IInv, Sound, OneGroup
    <3>2. u \in Live /\ ~Quorate(u)
      BY <2>2 DEF NoQuorum, Live
    <3> QED
      BY <1>0, <3>1, <3>2, QuorateGroup, HalfLostGroup
  <2>3. ASSUME faults = 0 PROVE ~NoQuorum(u)
    <3>1. u \in Live => view[u] = Live /\ Live \in SUBSET Units
      BY <1>2, <2>3 DEF Calm, CalmUnit, Outside, Member, Live
    <3>2. PICK V \in SUBSET Units : Group(V)
      BY <1>2, <2>3 DEF IInv, Sound, OneGroup
    <3>3. u \in Live => V = Live
      BY <3>1, <3>2 DEF Group
    <3>4. u \in Live => Quorum(V)
      BY <3>1, <3>3, Sizes DEF Quorum
    <3> QED
      BY <1>0, <3>2, <3>4, QuorateGroup DEF NoQuorum, Live
  <2>4. Tame /\ pc[u] = "online-leader" => u = leader
    BY DEF IInv, Sound, Path, LeaderPaths
  <2>5. faults = 0 => u \in Live
    BY <1>2, <2>1 DEF Member
  <2> QED
    BY <1>1, <2>1, <2>2, <2>3, <2>4, <2>5, PcKeeps
    DEF Benign, LeaderPaths, OfflinePaths, Outside, Member
<1>6. CASE \/ RecoverFromOfflineFollower(u) \/ FindPrimary(u) \/ RecreateFails(u)
           \/ ChoosePathFails(u) \/ StartFails(u)
  <2>1. PICK l \in {"idle", "rejoin", "lock"} : pc' = [pc EXCEPT ![u] = l]
    BY <1>6 DEF RecoverFromOfflineFollower, FindPrimary, RecreateFails, ChoosePathFails, StartFails,
       Raise, Goto
  <2>2. pc[u] \in {"offline-follower", "rejoin", "drop", "create"} \/ ~up[u]
    BY <1>6 DEF RecoverFromOfflineFollower, FindPrimary, RecreateFails, ChoosePathFails, StartFails
  <2>3. faults # 0
    BY <1>2, <2>2 DEF Outside, Member
  <2> QED
    BY <1>1, <2>1, <2>3, PcKeeps DEF Benign, LeaderPaths, OfflinePaths
<1>7. CASE \/ JoinCluster(u) \/ LockFails(u) \/ ReleaseLock(u) \/ ReleaseFails(u) \/ EnterLock(u)
  <2>1. PICK l \in {"idle", "join", "attach", "add", "joined"} :
          /\ pc' = [pc EXCEPT ![u] = l]
          /\ l = "attach" => pc[u] = "lock"
          /\ l = "joined" => pc[u] = "joining"
    BY <1>7 DEF JoinCluster, LockFails, ReleaseLock, ReleaseFails, EnterLock, Body, Fails, Raise, Goto
  <2>2. faults = 0 => l # "attach" /\ (l = "joined" => u \in Live)
    BY <1>2, <2>1 DEF Outside, Member
  <2> QED
    BY <1>1, <2>1, <2>2, PcKeeps DEF Benign, LeaderPaths, OfflinePaths, Outside, Member
<1> QED
  BY <1>3, <1>4, <1>5, <1>6, <1>7

\* An OFFLINE leader that finds no ONLINE peer: there is no group then
LEMMA OfflineLeaderStep ==
  ASSUME IInv, NEW u \in Units, RecoverFromOfflineLeader(u) \/ NoReboot(u)
  PROVE  IInv'
<1>1. UNCHANGED <<leader, mysqlVars, faults, caught, databag>> /\ Types
  BY DEF RecoverFromOfflineLeader, NoReboot, IInv
<1>2. faults # 0
  BY DEF RecoverFromOfflineLeader, NoReboot, IInv, Calm, CalmUnit, Outside, Member
<1>3. CASE RecoverFromOfflineLeader(u)
  <2>1. PICK l \in {"rejoin", "idle", "stop-offline"} :
          /\ pc' = [pc EXCEPT ![u] = l] /\ pc[u] = "offline-leader"
          /\ l = "stop-offline" => "ONLINE" \notin PeerStates(u) /\ view[u] = {}
    BY <1>3 DEF RecoverFromOfflineLeader, Goto
  <2>2. Tame => u = leader
    BY <2>1 DEF IInv, Sound, Path, LeaderPaths
  <2>3. ASSUME Tame, l = "stop-offline" PROVE Live = {}
    <3>1. u = leader /\ u \notin Live /\ \A v \in Units \ {u} : databag[v] # "ONLINE"
      BY <2>1, <2>2, <2>3 DEF PeerStates, Live
    <3> QED
      BY <2>3, <3>1 DEF IInv, Sound, Published, Live
  <2> QED
    BY <1>1, <1>2, <2>1, <2>2, <2>3, PcKeeps DEF Benign, LeaderPaths, OfflinePaths
<1>4. CASE NoReboot(u)
  <2>1. PICK l \in {"drop", "idle"} :
          pc' = [pc EXCEPT ![u] = l] /\ (l = "drop" => pc[u] = "recover-offline")
    BY <1>4 DEF NoReboot, Goto
  <2>2. Tame /\ l = "drop" => u = leader /\ Live = {}
    BY <2>1 DEF IInv, Sound, Path, LeaderPaths, OfflinePaths
  <2> QED
    BY <1>1, <1>2, <2>1, <2>2, PcKeeps DEF Benign, LeaderPaths, OfflinePaths
<1> QED
  BY <1>3, <1>4

\* The row is taken, the status published
LEMMA QuietSteps ==
  ASSUME IInv, NEW u \in Units,
         AcquireLock(u) \/ UpdateStatus(u) \/ PublishState(u)
  PROVE  IInv'
<1>0. Types
  BY DEF IInv
<1>1. CASE AcquireLock(u)
  BY <1>1 DEF AcquireLock, IInv, Types, Sound, OneGroup, Group, Path, Published, Calm, CalmUnit, Outside, Member,
     HalfLost, Quorate, Reachable, Live, mysqlVars, Tame
<1>2. CASE UpdateStatus(u) \/ PublishState(u)
  <2>1. /\ UNCHANGED <<leader, mysqlVars, faults, caught>>
        /\ UNCHANGED pc \/ pc' = [pc EXCEPT ![u] = "idle"]
    BY <1>2 DEF UpdateStatus, PublishState, Goto
  <2>2. Live' = Live /\ HalfLost' = HalfLost /\ OneGroup' = OneGroup
    BY <2>1, SameMySQL
  <2>3. Types'
    BY <1>0, <1>2, <2>1 DEF UpdateStatus, PublishState, Types, InstanceState, Benign, mysqlVars
  <2>4. ASSUME NEW v \in Live PROVE databag'[v] = databag[v] \/ databag'[v] = "ONLINE"
    BY <1>0, <1>2 DEF UpdateStatus, PublishState, Types, InstanceState, Live
  <2>5. ASSUME Tame PROVE Sound'
    <3>1. Published'
      BY <2>1, <2>2, <2>4, <2>5 DEF IInv, Sound, Published
    <3>2. ASSUME NEW w \in Units PROVE Path(w)'
      <4>1. pc'[w] = pc[w] \/ pc'[w] = "idle"
        BY <1>0, <2>1 DEF Types
      <4> QED
        BY <2>1, <2>2, <2>5, <4>1 DEF IInv, Sound, Path, LeaderPaths, OfflinePaths, mysqlVars
    <3> QED
      BY <2>2, <2>5, <3>1, <3>2 DEF IInv, Sound
  <2>6. ASSUME faults = 0 PROVE Calm'
    <3>1. \A w \in Units : pc'[w] = pc[w] \/ pc'[w] = "idle"
      BY <1>0, <2>1 DEF Types
    <3>2. u \in Live
      BY <1>2, <2>6 DEF UpdateStatus, PublishState, Initialized, IInv, Calm, CalmUnit, Member
    <3>3. \A w \in Units : w # u => databag'[w] = databag[w]
      BY <1>0, <1>2 DEF UpdateStatus, PublishState, Types
    <3> QED
      BY <2>1, <2>2, <2>4, <2>6, <3>1, <3>2, <3>3 DEF IInv, Calm, CalmUnit, Outside, Member, mysqlVars
  <2> QED
    BY <2>1, <2>3, <2>5, <2>6 DEF IInv, Tame
<1> QED
  BY <1>1, <1>2

\* While the group has quorum, no handler is about to stop or to reboot anything
LEMMA NoPathWithQuorum ==
  ASSUME IInv, Tame, ~HalfLost, NEW w \in Units
  PROVE  pc[w] \in Benign \cup {"online-leader", "offline-leader"}
<1>1. Live # {}
  <2>1. PICK V \in SUBSET Units : Group(V)
    BY DEF IInv, Sound, OneGroup
  <2> QED
    BY <2>1, HalfLostGroup DEF IInv
<1> QED
  BY <1>1 DEF IInv, Sound, Path, Types, LeaderPaths, OfflinePaths

\* A server that enters the group does not cost it its quorum
LEMMA EntersKeeps ==
  ASSUME IInv, Types', Tame, NEW u \in Units, NEW v \in Units, Quorate(v),
         NEW listed \in SUBSET Units, metadata[v] \subseteq listed, u \in listed,
         Enters(u, v, listed), \A w \in Units : up[w] => up'[w] = TRUE, up'[u] = TRUE
  PROVE  Live' = Live \cup {u} /\ OneGroup' /\ ~HalfLost' /\ ~HalfLost
         /\ \A w \in Live' : view'[w] = view[v] \cup {u}
<1>1. PICK V \in SUBSET Units : Group(V)
  BY DEF IInv, Sound, OneGroup
<1>2. v \in Live /\ Quorum(V) /\ Reachable(v) = Live /\ view[v] = V /\ Types
  BY <1>1, QuorateGroup DEF IInv, Group
<1>3. /\ view' = [w \in Units |-> IF w \in Live \cup {u} THEN V \cup {u} ELSE view[w]]
      /\ metadata' = [w \in Units |-> IF w \in Live \cup {u} THEN listed ELSE metadata[w]]
  BY <1>2 DEF Enters, GroupSees
<1>4. Live' = Live \cup {u}
  BY <1>3 DEF Live
<1>5. V \subseteq listed /\ Live \subseteq V /\ Live \subseteq Units
  BY <1>1, <1>2 DEF Group, Live
<1>6. Group(V \cup {u})'
  BY <1>1, <1>3, <1>4, <1>5 DEF Group
<1>7. Quorum(V \cup {u})'
  <2>1. /\ Cardinality(Live) \in Nat /\ Cardinality(V) \in Nat
        /\ Cardinality(Live \cup {u}) = Cardinality(Live) + (IF u \in Live THEN 0 ELSE 1)
        /\ Cardinality(V \cup {u}) = Cardinality(V) + (IF u \in V THEN 0 ELSE 1)
    BY <1>5, Sizes
  <2>2. u \in Live => u \in V
    BY <1>5
  <2>3. 2 * Cardinality(Live \cup {u}) > Cardinality(V \cup {u})
    BY <1>2, <2>1, <2>2 DEF Quorum
  <2> QED
    BY <1>4, <2>3 DEF Quorum
<1>8. V \cup {u} \in SUBSET Units
  OBVIOUS
<1>9. ~HalfLost'
  BY <1>4, <1>6, <1>7, <1>8, HalfLostGroupNext
<1>10. ~HalfLost
  BY DEF HalfLost
<1>11. \A w \in Live' : view'[w] = view[v] \cup {u}
  BY <1>2, <1>6 DEF Group
<1>12. OneGroup'
  BY <1>6, <1>8 DEF OneGroup
<1> QED
  BY <1>4, <1>9, <1>10, <1>11, <1>12

\* A server that enters the group keeps what is sound
LEMMA EntersSound ==
  ASSUME IInv, Types', Tame, UNCHANGED <<leader, faults, caught>>, NEW u \in Units, NEW v \in Units,
         Quorate(v), NEW listed \in SUBSET Units, metadata[v] \subseteq listed, u \in listed,
         Enters(u, v, listed), \A w \in Units : up[w] => up'[w] = TRUE, up'[u] = TRUE,
         \A w \in Units : pc'[w] = pc[w] \/ pc'[w] \in Benign,
         \A w \in Units : databag'[w] = databag[w] \/ databag'[w] = "ONLINE"
  PROVE  Sound'
<1>1. Live' = Live \cup {u} /\ OneGroup' /\ ~HalfLost' /\ ~HalfLost
  BY EntersKeeps
<1>2. Live # {}
  <2>1. PICK V \in SUBSET Units : Group(V)
    BY DEF IInv, Sound, OneGroup
  <2> QED
    BY <1>1, <2>1, HalfLostGroup DEF IInv
<1>3. Published'
  <2>1. leader \in Live \/ \E w \in Live : databag[w] = "ONLINE"
    BY <1>2 DEF IInv, Sound, Published
  <2> QED
    BY <1>1, <2>1 DEF Published, Live
<1>4. ASSUME NEW w \in Units PROVE Path(w)'
  <2>1. pc'[w] \in Benign \cup {"online-leader", "offline-leader"}
    BY <1>1, NoPathWithQuorum
  <2>2. pc'[w] \in LeaderPaths => pc'[w] = pc[w]
    BY <2>1 DEF Benign, LeaderPaths, OfflinePaths
  <2>3. pc'[w] \in LeaderPaths => w = leader'
    BY <2>2 DEF IInv, Sound, Path
  <2> QED
    BY <2>1, <2>3 DEF Path, Benign, LeaderPaths, OfflinePaths
<1> QED
  BY <1>1, <1>3, <1>4 DEF Sound

\* add_instance: a unit that waited joins
LEMMA AddStep ==
  ASSUME IInv, NEW u \in Units, AddInstance(u)
  PROVE  IInv'
<1>1. /\ UNCHANGED <<leader, up, databag, faults, caught>> /\ Types /\ pc[u] = "add"
  BY DEF AddInstance, IInv
<1>2. CASE UNCHANGED <<view, metadata>> /\ pc' = [pc EXCEPT ![u] = "join-failed"]
  BY <1>1, <1>2, PcKeeps DEF Benign, LeaderPaths, OfflinePaths, Outside, Member, mysqlVars
<1>3. ASSUME up[u], NEW v \in Units, Quorate(v), Enters(u, v, metadata[v] \cup {u}),
             pc' = [pc EXCEPT ![u] = "joining"]
      PROVE  IInv'
  <2>1. PICK listed \in SUBSET Units : listed = metadata[v] \cup {u}
    BY <1>1 DEF Types
  <2>2. metadata[v] \subseteq listed /\ u \in listed /\ Enters(u, v, listed)
    BY <1>3, <2>1
  <2>3. Types'
    <3>1. view' \in [Units -> SUBSET Units]
      BY <1>1, <1>3 DEF Enters, GroupSees, Types
    <3>2. metadata' \in [Units -> SUBSET Units]
      BY <1>1, <2>1, <2>2 DEF Enters, Types
    <3>3. pc' \in [Units -> Benign \cup LeaderPaths \cup {"stop-follower"}]
      BY <1>1, <1>3 DEF Types, Benign
    <3> QED
      BY <1>1, <3>1, <3>2, <3>3 DEF Types
  <2>4. /\ \A w \in Units : up[w] => up'[w] = TRUE
        /\ up'[u] = TRUE
        /\ \A w \in Units : pc'[w] = pc[w] \/ pc'[w] \in Benign
    BY <1>1, <1>3 DEF Types, Benign
  <2>5. Tame => Sound'
    BY <1>1, <1>3, <2>2, <2>3, <2>4, EntersSound
  <2>6. ASSUME faults = 0 PROVE Calm'
    <3>0. Tame /\ Calm
      BY <2>6 DEF IInv, Calm, Tame
    <3>1. /\ Live' = Live \cup {u}
          /\ \A w \in Live' : view'[w] = view[v] \cup {u}
      BY <1>1, <1>3, <2>2, <2>3, <2>4, <3>0, EntersKeeps
    <3>2. PICK V \in SUBSET Units : Group(V)
      BY <3>0 DEF IInv, Sound, OneGroup
    <3>3. v \in Live /\ Reachable(v) = Live
      BY <1>1, <1>3, <3>2, QuorateGroup
    <3>4. view[v] = Live
      BY <3>0, <3>3 DEF Calm, CalmUnit
    <3>5. \A w \in Units : w \notin Live' => metadata'[w] = metadata[w]
      BY <2>2, <3>1, <3>3 DEF Enters
    <3>6. \A w \in Units : w # u => pc'[w] = pc[w]
      BY <1>1, <1>3 DEF Types
    <3>7. pc'[u] = "joining" /\ u \in Live'
      BY <1>1, <1>3, <3>1 DEF Types
    <3>8. databag'[u] \in {"ONLINE", "waiting"}
      BY <1>1, <3>0 DEF Calm, CalmUnit
    <3>9. ASSUME NEW w \in Units PROVE CalmUnit(w)'
      <4>1. CASE w = u
        BY <2>4, <3>1, <3>4, <3>7, <3>8, <4>1 DEF CalmUnit, Outside, Member
      <4>2. CASE w # u
        <5>1. CalmUnit(w) /\ pc'[w] = pc[w] /\ (w \in Live' <=> w \in Live)
          BY <3>0, <3>1, <3>6, <4>2 DEF Calm
        <5>2. w \in Live' => view'[w] = Live'
          BY <3>1, <3>4
        <5> QED
          BY <1>1, <3>5, <5>1, <5>2 DEF CalmUnit
      <4> QED
        BY <4>1, <4>2
    <3> QED
      BY <1>1, <3>0, <3>1, <3>9 DEF Calm
  <2> QED
    BY <1>1, <2>3, <2>5, <2>6 DEF IInv, Tame
<1> QED
  BY <1>2, <1>3 DEF AddInstance, Goto

\* A server is started, and finds its group or not
LEMMA ServerUpStep ==
  ASSUME IInv, NEW u \in Units, Restart(u) \/ StartServer(u)
  PROVE  IInv'
<1>1. ServerUp(u) /\ UNCHANGED <<leader, databag, pc, faults, caught>> /\ Types
  BY DEF Restart, StartServer, IInv
<1>2. up' = [up EXCEPT ![u] = TRUE] /\ faults # 0
  BY <1>1 DEF ServerUp, IInv, Calm, CalmUnit, Outside, Member
<1>3. (\A w \in Units : up[w] => up'[w] = TRUE) /\ up'[u] = TRUE
  BY <1>1, <1>2 DEF Types
<1>4. CASE UNCHANGED <<view, metadata>>
  <2>1. Types'
    BY <1>1, <1>2, <1>4 DEF Types
  <2>2. Live' = Live
    BY <1>4 DEF Live
  <2>3. ASSUME Tame PROVE Sound'
    <3>1. PICK V \in SUBSET Units : Group(V)
      BY <2>3 DEF IInv, Sound, OneGroup
    <3>2. Group(V)'
      BY <1>3, <1>4, <2>2, <3>1 DEF Group, Live
    <3>3. HalfLost' = HalfLost
      <4>1. HalfLost' <=> Live' = {} \/ ~Quorum(V)'
        BY <2>1, <3>2, HalfLostGroupNext
      <4>2. HalfLost <=> Live = {} \/ ~Quorum(V)
        BY <1>1, <3>1, HalfLostGroup
      <4>3. Quorum(V)' = Quorum(V)
        BY <2>2 DEF Quorum
      <4> QED
        BY <2>2, <4>1, <4>2, <4>3 DEF HalfLost
    <3>4. Published' /\ \A w \in Units : Path(w)'
      BY <1>1, <1>4, <2>2, <2>3, <3>3 DEF IInv, Sound, Published, Path
    <3> QED
      BY <3>2, <3>4 DEF Sound, OneGroup
  <2> QED
    BY <1>1, <1>2, <2>1, <2>3 DEF IInv, Tame
<1>5. ASSUME NEW v \in Units, Quorate(v), u \in metadata[v], Enters(u, v, metadata[v]) PROVE IInv'
  <2>1. PICK listed \in SUBSET Units : listed = metadata[v]
    BY <1>1 DEF Types
  <2>2. Types'
    <3>1. view' \in [Units -> SUBSET Units]
      BY <1>1, <1>5 DEF Enters, GroupSees, Types
    <3>2. metadata' \in [Units -> SUBSET Units]
      BY <1>1, <1>5, <2>1 DEF Enters, Types
    <3> QED
      BY <1>1, <1>2, <3>1, <3>2 DEF Types
  <2>3. Tame => Sound'
    BY <1>1, <1>3, <1>5, <2>1, <2>2, EntersSound
  <2> QED
    BY <1>1, <1>2, <2>2, <2>3 DEF IInv, Tame
<1> QED
  BY <1>1, <1>4, <1>5 DEF ServerUp

\* rejoin_instance
LEMMA RejoinStep ==
  ASSUME IInv, NEW u \in Units, RejoinInstance(u)
  PROVE  IInv'
<1>1. UNCHANGED <<leader, up, databag, faults, caught>> /\ Types /\ pc[u] = "attach"
  BY DEF RejoinInstance, IInv
<1>2. faults # 0
  BY <1>1 DEF IInv, Calm, CalmUnit, Outside, Member
<1>3. PICK l \in {"release", "release-failed"} : pc' = [pc EXCEPT ![u] = l]
  BY DEF RejoinInstance, Goto
<1>4. CASE UNCHANGED <<view, metadata>>
  BY <1>1, <1>2, <1>3, <1>4, PcKeeps DEF Benign, LeaderPaths, OfflinePaths, mysqlVars
<1>5. ASSUME NEW v \in Donors(u), Enters(u, v, metadata[v]), up[u] PROVE IInv'
  <2>0. v \in Units /\ Quorate(v) /\ u \in metadata[v]
    BY <1>5 DEF Donors
  <2>1. PICK listed \in SUBSET Units : listed = metadata[v]
    BY <1>1, <2>0 DEF Types
  <2>2. Types'
    <3>1. view' \in [Units -> SUBSET Units]
      BY <1>1, <1>5, <2>0 DEF Enters, GroupSees, Types
    <3>2. metadata' \in [Units -> SUBSET Units]
      BY <1>1, <1>5, <2>1 DEF Enters, Types
    <3>3. pc' \in [Units -> Benign \cup LeaderPaths \cup {"stop-follower"}]
      BY <1>1, <1>3 DEF Types, Benign
    <3> QED
      BY <1>1, <3>1, <3>2, <3>3 DEF Types
  <2>3. /\ \A w \in Units : pc'[w] = pc[w] \/ pc'[w] \in Benign
        /\ \A w \in Units : up[w] => up'[w] = TRUE
        /\ up'[u] = TRUE
    BY <1>1, <1>3, <1>5 DEF Types, Benign
  <2>4. Tame => Sound'
    BY <1>1, <1>5, <2>0, <2>1, <2>2, <2>3, EntersSound
  <2> QED
    BY <1>1, <1>2, <2>2, <2>4 DEF IInv, Tame
<1> QED
  BY <1>4, <1>5 DEF RejoinInstance

\* A group that is created where there was none
LEMMA FreshGroup ==
  ASSUME IInv, Types', Tame, UNCHANGED <<leader, faults, caught, databag>>, Live = {},
         NEW u \in Units, u = leader, NEW members \in SUBSET Units, u \in members,
         GroupSees(members, members),
         \A w \in members : up'[w] = TRUE /\ members \subseteq metadata'[w],
         pc' = [pc EXCEPT ![u] = "idle"]
  PROVE  Sound'
<1>1. Live' = members
  BY DEF GroupSees, Live
<1>2. Group(members)'
  BY <1>1 DEF Group, GroupSees
<1>3. Quorum(members)'
  BY <1>1, Sizes DEF Quorum
<1>4. ~HalfLost'
  BY <1>1, <1>2, <1>3, HalfLostGroupNext
<1>5. Published'
  BY <1>1, <1>4 DEF Published
<1>6. ASSUME NEW w \in Units PROVE Path(w)'
  <2>1. CASE w = u
    BY <2>1 DEF Path, Types, IInv, LeaderPaths, OfflinePaths
  <2>2. CASE w # u
    <3>1. pc'[w] = pc[w] /\ Path(w)
      BY <2>2 DEF IInv, Types, Sound
    <3>2. pc[w] \notin LeaderPaths /\ pc[w] # "stop-follower"
      BY <2>2, <3>1 DEF Path
    <3> QED
      BY <3>1, <3>2 DEF Path, LeaderPaths, OfflinePaths
  <2> QED
    BY <2>1, <2>2
<1> QED
  BY <1>2, <1>5, <1>6 DEF Sound, OneGroup

\* The cluster is rebooted: all listed instances are out of their group, which had no others
LEMMA RebootStep ==
  ASSUME IInv, NEW u \in Units, Reboot(u)
  PROVE  IInv'
<1>1. /\ UNCHANGED <<leader, up, databag, faults, caught>> /\ Types /\ Rebootable(u)
      /\ pc[u] \in {"recover-online", "recover-offline"} /\ pc' = [pc EXCEPT ![u] = "idle"]
  BY DEF Reboot, IInv, Goto
<1>2. faults # 0
  BY <1>1 DEF IInv, Calm, CalmUnit, Outside, Member
<1>3. PICK members \in SUBSET metadata[u] :
        /\ u \in members /\ GroupSees(members, members)
        /\ metadata' = [w \in Units |-> IF w \in members THEN metadata[u] ELSE metadata[w]]
  BY DEF Reboot
<1>4. members \in SUBSET Units
  BY <1>1, <1>3 DEF Types
<1>5. Types'
  <2>1. view' \in [Units -> SUBSET Units]
    BY <1>1, <1>3, <1>4 DEF GroupSees, Types
  <2>2. metadata' \in [Units -> SUBSET Units]
    BY <1>1, <1>3 DEF Types
  <2>3. pc' \in [Units -> Benign \cup LeaderPaths \cup {"stop-follower"}]
    BY <1>1 DEF Types, Benign
  <2> QED
    BY <1>1, <2>1, <2>2, <2>3 DEF Types
<1>6. ASSUME Tame PROVE Live = {} /\ u = leader
  <2>1. Path(u)
    BY <1>6 DEF IInv, Sound
  <2>2. CASE pc[u] = "recover-online"
    <3>1. Live \subseteq metadata[u] /\ u = leader
      BY <2>1, <2>2 DEF Path, LeaderPaths
    <3> QED
      BY <1>1, <3>1 DEF Rebootable, Live
  <2>3. CASE pc[u] = "recover-offline"
    BY <2>1, <2>3 DEF Path, LeaderPaths, OfflinePaths
  <2> QED
    BY <1>1, <2>2, <2>3
<1>7. \A w \in members : up'[w] = TRUE /\ members \subseteq metadata'[w]
  BY <1>1, <1>3, <1>4 DEF Rebootable, Types
<1>8. Tame => Sound'
  BY <1>1, <1>3, <1>4, <1>5, <1>6, <1>7, FreshGroup
<1> QED
  BY <1>1, <1>2, <1>5, <1>8 DEF IInv, Tame

\* recreate_cluster, in its two steps
LEMMA RecreateSteps ==
  ASSUME IInv, NEW u \in Units, DropMetadata(u) \/ RecreateCluster(u)
  PROVE  IInv'
<1>1. /\ UNCHANGED <<leader, up, databag, faults, caught>> /\ Types /\ pc[u] \in {"drop", "create"} /\ up[u]
  BY DEF DropMetadata, RecreateCluster, IInv
<1>2. faults # 0
  BY <1>1 DEF IInv, Calm, CalmUnit, Outside, Member
<1>3. Tame => Live = {} /\ u = leader
  BY <1>1 DEF IInv, Sound, Path, LeaderPaths, OfflinePaths
<1>4. CASE DropMetadata(u)
  <2>1. metadata' = [metadata EXCEPT ![u] = {}] /\ view' = view /\ pc' = [pc EXCEPT ![u] = "create"]
    BY <1>4 DEF DropMetadata, Goto
  <2>2. Types'
    BY <1>1, <2>1 DEF Types, LeaderPaths, OfflinePaths
  <2>3. Live' = Live /\ HalfLost' = HalfLost
    BY <1>1, <2>1 DEF Live, HalfLost, Quorate, Reachable
  <2>4. ASSUME Tame PROVE Sound'
    <3>1. OneGroup'
      BY <1>3, <2>3, <2>4 DEF OneGroup, Group
    <3>2. Published'
      BY <1>3, <2>3, <2>4 DEF Published
    <3>3. ASSUME NEW w \in Units PROVE Path(w)'
      <4>1. w # u => pc'[w] = pc[w] /\ metadata'[w] = metadata[w]
        BY <1>1, <2>1 DEF Types
      <4>2. pc'[u] = "create"
        BY <1>1, <2>1 DEF Types
      <4>3. Path(w)
        BY <2>4 DEF IInv, Sound
      <4> QED
        BY <1>1, <1>3, <2>3, <2>4, <4>1, <4>2, <4>3 DEF Path
    <3> QED
      BY <3>1, <3>2, <3>3 DEF Sound
  <2> QED
    BY <1>1, <1>2, <2>2, <2>4 DEF IInv, Tame
<1>5. CASE RecreateCluster(u)
  <2>1. /\ view' = [view EXCEPT ![u] = {u}] /\ metadata' = [metadata EXCEPT ![u] = {u}]
        /\ pc' = [pc EXCEPT ![u] = "idle"]
    BY <1>5 DEF RecreateCluster, Goto
  <2>2. Types'
    BY <1>1, <2>1 DEF Types, Benign
  <2>3. GroupSees({u}, {u})
    BY <1>1, <2>1 DEF GroupSees, Types
  <2>4. \A w \in {u} : up'[w] = TRUE /\ {u} \subseteq metadata'[w]
    BY <1>1, <2>1 DEF Types
  <2>5. {u} \in SUBSET Units /\ u \in {u}
    OBVIOUS
  <2>6. Tame => Sound'
    BY <1>1, <1>3, <2>1, <2>2, <2>3, <2>4, <2>5, FreshGroup
  <2> QED
    BY <1>1, <1>2, <2>2, <2>6 DEF IInv, Tame
<1> QED
  BY <1>4, <1>5

\* The majority expels the others
LEMMA ExpelStep ==
  ASSUME IInv, NEW v \in Units, Expel(v)
  PROVE  IInv'
<1>1. /\ UNCHANGED <<leader, up, databag, faults, caught, metadata, pc>> /\ Types /\ Quorate(v)
      /\ Unreachable(v) # {} /\ GroupSees(Reachable(v), Reachable(v))
  BY DEF Expel, IInv
<1>2. Types'
  <2>1. view' \in [Units -> SUBSET Units]
    BY <1>1 DEF GroupSees, Types, Reachable
  <2> QED
    BY <1>1, <2>1 DEF Types
<1>3. ASSUME Tame PROVE Sound' /\ faults # 0
  <2>1. PICK V \in SUBSET Units : Group(V)
    BY <1>3 DEF IInv, Sound, OneGroup
  <2>2. v \in Live /\ Reachable(v) = Live /\ view[v] = V
    BY <1>1, <2>1, QuorateGroup DEF Group
  <2>3. Live' = Live /\ \A w \in Live : view'[w] = Live
    BY <1>1, <2>2 DEF GroupSees, Live
  <2>a. PICK L \in SUBSET Units : L = Live
    BY DEF Live
  <2>4. Group(L)'
    BY <1>1, <2>1, <2>3, <2>a DEF Group, Live
  <2>5. Quorum(L)'
    BY <2>2, <2>3, <2>a, Sizes DEF Quorum
  <2>6. ~HalfLost' /\ ~HalfLost
    BY <1>1, <1>2, <2>2, <2>3, <2>4, <2>5, HalfLostGroupNext DEF HalfLost
  <2>7. Published'
    BY <1>1, <1>3, <2>3, <2>6 DEF IInv, Sound, Published
  <2>8. ASSUME NEW w \in Units PROVE Path(w)'
    BY <1>1, <1>3, <2>3, <2>6, NoPathWithQuorum DEF IInv, Sound, Path, Benign, LeaderPaths, OfflinePaths
  <2>9. faults # 0
    <3>1. ASSUME faults = 0 PROVE FALSE
      <4>1. view[v] = Live
        BY <2>2, <3>1 DEF IInv, Calm, CalmUnit, Outside, Member
      <4> QED
        BY <1>1, <2>2, <4>1 DEF Unreachable
    <3> QED
      BY <3>1
  <2> QED
    BY <2>4, <2>7, <2>8, <2>9 DEF Sound, OneGroup
<1>4. faults # 0
  <2>1. faults = 0 => Tame
    BY DEF IInv, Calm, Tame
  <2> QED
    BY <1>3, <2>1
<1> QED
  BY <1>1, <1>2, <1>3, <1>4 DEF IInv, Tame

\* Servers crash
LEMMA CrashStep ==
  ASSUME IInv, NEW S \in SUBSET Units, Crash(S)
  PROVE  IInv'
<1>1. /\ UNCHANGED <<leader, metadata, databag, pc>> /\ Types /\ faults' = faults + 1
      /\ up' = [u \in Units |-> up[u] /\ u \notin S]
      /\ view' = [u \in Units |-> IF u \in S THEN {} ELSE view[u]]
      /\ caught' = (caught \/ \E u \in Units : view[u] # {} /\ databag[u] = "waiting")
  BY DEF Crash, IInv
<1>2. Types'
  <2>1. view' \in [Units -> SUBSET Units]
    BY <1>1 DEF Types
  <2>2. up' \in [Units -> BOOLEAN]
    BY <1>1 DEF Types
  <2>3. caught' \in BOOLEAN
    BY <1>1 DEF Types
  <2> QED
    BY <1>1, <2>1, <2>2, <2>3 DEF Types
<1>3. faults' # 0
  BY <1>1 DEF Types
<1>4. ASSUME Tame' PROVE Sound'
  <2>1. faults = 0 /\ Calm /\ Tame
    BY <1>1, <1>4 DEF IInv, Types, Calm, Tame
  <2>2. PICK V \in SUBSET Units : Group(V)
    BY <2>1 DEF IInv, Sound, OneGroup
  <2>3. Live' = Live \ S
    BY <1>1 DEF Live
  <2>4. Group(V)'
    BY <1>1, <2>2, <2>3 DEF Group, Live
  <2>5. \A w \in Live : databag[w] = "ONLINE"
    <3>1. ASSUME NEW w \in Units, view[w] # {}, databag[w] = "waiting" PROVE FALSE
      BY <1>1, <1>4, <3>1 DEF Tame
    <3> QED
      BY <2>1, <3>1 DEF Calm, CalmUnit, Live
  <2>7. Published'
    BY <1>1, <2>1, <2>3, <2>5 DEF Published, Calm
  <2>6. ASSUME NEW w \in Units PROVE Path(w)'
    <3>1. pc'[w] \in Outside \cup Member /\ pc'[w] = pc[w]
      BY <1>1, <2>1 DEF Calm, CalmUnit
    <3>2. pc[w] \in LeaderPaths => w = leader
      BY <2>1 DEF IInv, Sound, Path
    <3> QED
      BY <1>1, <3>1, <3>2 DEF Path, LeaderPaths, OfflinePaths, Outside, Member
  <2> QED
    BY <2>4, <2>6, <2>7 DEF Sound, OneGroup
<1> QED
  BY <1>2, <1>3, <1>4 DEF IInv

\* stop_replication: nobody stops who has quorum
LEMMA StopStep ==
  ASSUME IInv, NEW u \in Units, StopReplication(u)
  PROVE  IInv' /\ (Tame => HalfLost /\ \A w \in Units : w # u => view'[w] = view[w])
<1>1. /\ UNCHANGED <<leader, up, metadata, databag, faults, caught>> /\ Types
      /\ view' = [w \in Units |->
                    IF w = u THEN {}
                    ELSE IF w \in Reachable(u) /\ Quorate(u) THEN view[w] \ {u}
                    ELSE view[w]]
  BY DEF StopReplication, IInv
<1>2. PICK l \in {"recover-online", "recover-offline", "idle"} :
        /\ pc' = [pc EXCEPT ![u] = l]
        /\ l = "recover-online" => pc[u] = "stop-online"
        /\ l = "recover-offline" => pc[u] = "stop-offline"
        /\ pc[u] \in {"stop-online", "stop-offline", "stop-follower"}
  BY DEF StopReplication, Goto, Raise
<1>3. faults # 0
  BY <1>2 DEF IInv, Calm, CalmUnit, Outside, Member
<1>4. Types'
  <2>1. view' \in [Units -> SUBSET Units]
    BY <1>1 DEF Types
  <2>2. pc' \in [Units -> Benign \cup LeaderPaths \cup {"stop-follower"}]
    BY <1>1, <1>2 DEF Types, Benign, LeaderPaths, OfflinePaths
  <2> QED
    BY <1>1, <2>1, <2>2 DEF Types
<1>5. ASSUME Tame
      PROVE  Sound' /\ HalfLost /\ \A w \in Units : w # u => view'[w] = view[w]
  <2>1. PICK V \in SUBSET Units : Group(V)
    BY <1>5 DEF IInv, Sound, OneGroup
  <2>2. Path(u) /\ (HalfLost <=> Live = {} \/ ~Quorum(V))
    BY <1>1, <1>5, <2>1, HalfLostGroup DEF IInv, Sound
  <2>3. HalfLost
    BY <1>2, <2>2 DEF Path, OfflinePaths
  <2>4. view' = [view EXCEPT ![u] = {}]
    BY <1>1, <2>3 DEF HalfLost, Types
  <2>5. Live' = Live \ {u}
    BY <1>1, <2>4 DEF Live, Types
  <2>6. Group(V)'
    BY <1>1, <2>1, <2>4, <2>5 DEF Group, Live, Types
  <2>7. HalfLost'
    <3>1. Live \in SUBSET Units /\ Live' \in SUBSET Live
      BY <2>5 DEF Live
    <3>2. /\ Cardinality(Live') <= Cardinality(Live) /\ Cardinality(Live) \in Nat
          /\ Cardinality(V) \in Nat /\ Live' \in SUBSET Units
      BY <3>1, Sizes
    <3>3. Cardinality(Live') \in Nat
      BY <3>2, Sizes
    <3>4. Live' = {} \/ ~Quorum(V)'
      BY <2>2, <2>3, <2>5, <3>2, <3>3 DEF Quorum
    <3> QED
      BY <1>4, <2>6, <3>4, HalfLostGroupNext
  <2>8. Published'
    <3>1. \A v \in Live' : databag'[v] = "ONLINE"
      BY <1>1, <1>5, <2>3, <2>5 DEF IInv, Sound, Published
    <3> QED
      BY <3>1 DEF Published
  <2>9. ASSUME NEW w \in Units PROVE Path(w)'
    <3>1. CASE w # u
      <4>1. pc'[w] = pc[w] /\ Path(w)
        BY <1>1, <1>2, <1>5, <3>1 DEF IInv, Sound, Types
      <4> QED
        BY <1>1, <2>5, <2>7, <3>1, <4>1 DEF Path
    <3>2. CASE w = u
      <4>1. pc'[u] = l
        BY <1>1, <1>2 DEF Types
      <4>2. l = "recover-online" => u = leader /\ Live \subseteq metadata[u]
        BY <1>2, <2>1, <2>2 DEF Path, Group, LeaderPaths
      <4>3. l = "recover-offline" => u = leader /\ Live = {}
        BY <1>2, <2>2 DEF Path, LeaderPaths, OfflinePaths
      <4> QED
        BY <1>1, <2>5, <2>7, <3>2, <4>1, <4>2, <4>3 DEF Path, LeaderPaths, OfflinePaths
    <3> QED
      BY <3>1, <3>2
  <2>10. \A w \in Units : w # u => view'[w] = view[w]
    BY <1>1, <2>4 DEF Types
  <2> QED
    BY <2>3, <2>6, <2>8, <2>9, <2>10 DEF Sound, OneGroup
<1> QED
  BY <1>1, <1>3, <1>4, <1>5 DEF IInv, Tame

\* Nothing happens
LEMMA StutterStep == ASSUME IInv, UNCHANGED vars PROVE IInv'
<1>1. UNCHANGED <<leader, mysqlVars, databag, pc, faults, caught>>
  BY DEF vars
<1>2. Live' = Live /\ HalfLost' = HalfLost /\ OneGroup' = OneGroup
  BY <1>1, SameMySQL
<1> QED
  BY <1>1, <1>2 DEF IInv, Types, Sound, Path, Published, Calm, CalmUnit, Outside, Member, mysqlVars, Tame

\* Every step keeps the invariant
LEMMA NextIInv == IInv /\ [Next]_vars => IInv'
<1> SUFFICES ASSUME IInv, [Next]_vars PROVE IInv'
  OBVIOUS
<1>1. ASSUME NEW S \in SUBSET Units \ {{}}, Crash(S) PROVE IInv'
  BY <1>1, CrashStep
<1>2. ASSUME NEW u \in Units, HealStep(u) PROVE IInv'
  BY <1>2, PcSteps, OfflineLeaderStep, StopStep, RebootStep, RecreateSteps, QuietSteps, RejoinStep,
     AddStep
  DEF HealStep
<1>3. ASSUME NEW u \in Units,
             \/ Expel(u) \/ UpdateStatus(u) \/ JoinCluster(u) \/ Restart(u) \/ StartServer(u)
             \/ StartFails(u) \/ OnSelfHealing(u)
      PROVE  IInv'
  BY <1>3, ExpelStep, QuietSteps, ServerUpStep, PcSteps
<1> QED
  BY <1>1, <1>2, <1>3, StutterStep DEF Next

\* The invariant holds in every state, for any set of units
THEOREM Invariance == Spec => []IInv
  BY InitIInv, NextIInv, PTL DEF Spec

\* Servers that crash once, at the same time, never lead to a reboot beside an ONLINE
\* unit, nor to two groups with quorum, for any number of units, any of them waiting to
\* join and any of them crashing, unless a unit had joined and not published it yet
\* (_recover_from_online_leader, _recover_from_offline_leader, join_instance)
THEOREM NoSplitAfterOneCrash == Spec => []OneCrashNeverSplits
<1>1. IInv => OneCrashNeverSplits
  <2> SUFFICES ASSUME IInv, Tame PROVE RecoversOnlyFromOutage /\ NoSplitBrain
    <3>1. faults <= 1 /\ ~caught /\ IInv => Tame
      BY DEF Tame, IInv, Types
    <3> QED
      BY <3>1 DEF OneCrashNeverSplits
  <2>1. PICK V \in SUBSET Units : Group(V)
    BY DEF IInv, Sound, OneGroup
  <2>2. \A u \in Units : Quorate(u) => u \in Live /\ view[u] = V
    BY <2>1, QuorateGroup DEF IInv, Group
  <2>3. NoSplitBrain
    BY <2>2 DEF NoSplitBrain
  <2>4. RecoversOnlyFromOutage
    BY DEF RecoversOnlyFromOutage, IInv, Sound, Path, OfflinePaths, Live
  <2> QED
    BY <2>3, <2>4
<1> QED
  BY <1>1, Invariance, PTL

-----------------------------------------------------------------------------
\* A unit that stops its replication has looked at its group before.  That it cannot have
\* found quorum again in between needs no single group, and holds also when a unit had
\* joined without having said so.

\* Whoever sees a group runs and is a member of it, and a server that sees some group and
\* is in the view of a member with quorum has quorum itself
Apart ==
  /\ \A u \in Live : up[u] = TRUE /\ u \in view[u]
  /\ \A u \in Live : \A v \in Units : Quorate(v) /\ u \in view[v] => Quorate(u)

\* What a unit that is about to stop its replication still knows
Stops(u) ==
  /\ pc[u] \in LeaderPaths => u = leader
  /\ pc[u] \in {"stop-online", "stop-follower"} => u \in Live /\ ~Quorate(u)
  /\ pc[u] = "offline-leader" => up[u]
  /\ pc[u] = "stop-offline" => up[u] /\ view[u] = {}

\* The inductive invariant for the stopping of replication
QInv == faults <= 1 => Apart /\ \A u \in Units : Stops(u)

\* A server without a group has no quorum
LEMMA NoGroupNoQuorum ==
  ASSUME NEW p, NEW w \in [Units -> SUBSET Units], NEW u \in Units, w[u] = {}
  PROVE  ~(2 * Cardinality(ReachIn(p, w, u)) > Cardinality(w[u]))
<1>1. ReachIn(p, w, u) = {} /\ Cardinality({}) = 0
  BY FS_EmptySet DEF ReachIn
<1> QED
  BY <1>1

\* Quorate, by the servers and views it is about
LEMMA QuorateIn ==
  ASSUME NEW u \in Units
  PROVE  /\ Quorate(u) <=> 2 * Cardinality(ReachIn(up, view, u)) > Cardinality(view[u])
         /\ Quorate(u)' <=> 2 * Cardinality(ReachIn(up', view', u)) > Cardinality(view'[u])
         /\ Reachable(u) = ReachIn(up, view, u)
  BY DEF Quorate, Reachable, ReachIn

\* The servers M see the group G from now on, with all that saw the same as one of them:
\* nobody else gains or loses quorum
LEMMA Regroup ==
  ASSUME Types, Types', Apart, NEW M \in SUBSET Units, NEW G \in SUBSET Units,
         GroupSees(M, G), M \subseteq G, M # {} => 2 * Cardinality(M) > Cardinality(G),
         \A w \in Units : up[w] => up'[w] = TRUE, \A w \in M : up'[w] = TRUE,
         \A w \in M, x \in Live : view[x] = view[w] => x \in M,
         \A w \in Live : w \notin M /\ w \in G => Quorate(w)
  PROVE  /\ \A w \in Units : Quorate(w)' <=> Quorate(w) \/ w \in M
         /\ \A w \in Units : w \notin M => view'[w] = view[w]
         /\ Live' = Live \cup M
         /\ Apart'
<1>1. /\ view \in [Units -> SUBSET Units] /\ view' \in [Units -> SUBSET Units]
      /\ \A w \in Units : view'[w] = IF w \in M THEN G ELSE view[w]
      /\ \A w \in Units : up[w] \in BOOLEAN /\ up'[w] \in BOOLEAN
  BY DEF GroupSees, Types
<1>2. Live' = Live \cup M /\ Live \subseteq Units
  BY <1>1 DEF Live
<1>3. ASSUME NEW w \in M PROVE Quorate(w)'
  <2> DEFINE R == ReachIn(up', view', w)
  <2>1. M \subseteq R /\ R \subseteq Units /\ view'[w] = G
    BY <1>1, <1>3 DEF ReachIn
  <2> HIDE DEF R
  <2>2. R \in SUBSET Units /\ M \in SUBSET R
    BY <2>1
  <2>3. /\ Cardinality(M) <= Cardinality(R) /\ Cardinality(R) \in Nat
        /\ Cardinality(M) \in Nat /\ Cardinality(G) \in Nat
    BY <2>2, Sizes
  <2>4. 2 * Cardinality(R) > Cardinality(G)
    BY <1>3, <2>3
  <2> QED
    BY <2>1, <2>4, QuorateIn DEF R
<1>4. ASSUME NEW w \in Units, w \notin M PROVE Quorate(w)' <=> Quorate(w)
  <2>0. view'[w] = view[w]
    BY <1>1, <1>4
  <2>1. CASE w \notin Live
    <3>1. view[w] = {} /\ view'[w] = {}
      BY <2>0, <2>1 DEF Live
    <3>2. ~(2 * Cardinality(ReachIn(up, view, w)) > Cardinality(view[w]))
      BY <1>1, <3>1, NoGroupNoQuorum
    <3>3. ~(2 * Cardinality(ReachIn(up', view', w)) > Cardinality(view'[w]))
      BY <1>1, <3>1, NoGroupNoQuorum
    <3> QED
      BY <3>2, <3>3, QuorateIn
  <2>2. CASE w \in Live
    <3> DEFINE R == ReachIn(up, view, w)
               S == ReachIn(up', view', w)
    <3>1. R \subseteq S /\ S \subseteq Units
      <4>1. ASSUME NEW x \in R PROVE x \in S
        <5>1. x \in Units /\ up[x] /\ view[x] = view[w] /\ x \in view[w]
          BY <1>1 DEF ReachIn
        <5>2. x \notin M
          BY <1>4, <2>2, <5>1
        <5> QED
          BY <1>1, <2>0, <5>1, <5>2 DEF ReachIn
      <4> QED
        BY <1>1, <4>1 DEF ReachIn
    <3>2. CASE view[w] = G
      <4>1. Quorate(w)
        BY <1>4, <2>2, <3>2 DEF Apart
      <4> HIDE DEF R, S
      <4>2. /\ Cardinality(R) <= Cardinality(S) /\ Cardinality(S) \in Nat
            /\ Cardinality(R) \in Nat /\ Cardinality(view[w]) \in Nat
        <5>1. S \in SUBSET Units /\ R \in SUBSET S /\ R \in SUBSET Units /\ view[w] \in SUBSET Units
          BY <1>1, <3>1
        <5> QED
          BY <5>1, Sizes
      <4>3. 2 * Cardinality(R) > Cardinality(view[w])
        BY <4>1, QuorateIn DEF R
      <4>4. 2 * Cardinality(S) > Cardinality(view'[w])
        BY <2>0, <4>2, <4>3
      <4> QED
        BY <4>1, <4>4, QuorateIn DEF S
    <3>3. CASE view[w] # G
      <4>1. ASSUME NEW x \in S PROVE x \in R
        <5>1. x \in Units /\ view'[x] = view[w] /\ x \in view[w]
          BY <1>1, <2>0 DEF ReachIn
        <5>2. x \notin M /\ view[x] = view[w]
          BY <1>1, <3>3, <5>1
        <5>3. x \in Live
          BY <2>2, <5>1, <5>2 DEF Live
        <5> QED
          BY <5>1, <5>2, <5>3 DEF ReachIn, Apart
      <4>2. R = S
        BY <3>1, <4>1
      <4> QED
        BY <2>0, <4>2, QuorateIn
    <3> QED
      BY <3>2, <3>3
  <2> QED
    BY <2>1, <2>2
<1>5. \A w \in Units : Quorate(w)' <=> Quorate(w) \/ w \in M
  BY <1>3, <1>4
<1>6. ASSUME NEW w \in Live' PROVE up'[w] = TRUE /\ w \in view'[w]
  BY <1>1, <1>2 DEF Apart
<1>7. ASSUME NEW w \in Live', NEW v \in Units, Quorate(v)', w \in view'[v] PROVE Quorate(w)'
  <2>1. CASE w \in M
    BY <1>5, <2>1
  <2>2. CASE w \notin M
    <3>1. w \in Live /\ w \in Units
      BY <1>2, <2>2
    <3>2. CASE v \in M
      BY <1>1, <1>5, <1>7, <2>2, <3>1, <3>2
    <3>3. CASE v \notin M
      BY <1>1, <1>5, <1>7, <3>1, <3>3 DEF Apart
    <3> QED
      BY <3>2, <3>3
  <2> QED
    BY <2>1, <2>2
<1> QED
  BY <1>1, <1>2, <1>5, <1>6, <1>7 DEF Apart

\* So a handler that is about to stop its replication still knows what it knew
LEMMA RegroupStops ==
  ASSUME Types, Types', Apart, NEW M \in SUBSET Units, NEW G \in SUBSET Units,
         GroupSees(M, G), M \subseteq G, M # {} => 2 * Cardinality(M) > Cardinality(G),
         \A w \in Units : up[w] => up'[w] = TRUE, \A w \in M : up'[w] = TRUE,
         \A w \in M, x \in Live : view[x] = view[w] => x \in M,
         \A w \in Live : w \notin M /\ w \in G => Quorate(w),
         \A w \in Units : Stops(w), leader' = leader,
         \A w \in Units : pc'[w] = pc[w] \/ pc'[w] \in Benign,
         \A w \in M : w \notin Live \/ Quorate(w),
         \A w \in M : w \notin Live => pc'[w] # "stop-offline"
  PROVE  Apart' /\ \A w \in Units : Stops(w)'
<1>1. /\ \A w \in Units : Quorate(w)' <=> Quorate(w) \/ w \in M
      /\ \A w \in Units : w \notin M => view'[w] = view[w]
      /\ Live' = Live \cup M
      /\ Apart'
  BY Regroup
<1>2. ASSUME NEW w \in Units PROVE Stops(w)'
  <2>1. CASE pc'[w] \in Benign
    BY <2>1 DEF Stops, Benign, LeaderPaths, OfflinePaths
  <2>2. CASE pc'[w] = pc[w]
    <3>1. Stops(w)
      OBVIOUS
    <3>2. pc'[w] = "stop-offline" => w \notin M
      BY <2>2, <3>1 DEF Stops, Live
    <3> QED
      BY <1>1, <2>2, <3>1, <3>2 DEF Stops
  <2> QED
    BY <2>1, <2>2
<1> QED
  BY <1>1, <1>2

\* The members that take part when u enters the group of v
LEMMA EntersApart ==
  ASSUME Types, Types', Apart, NEW u \in Units, NEW v \in Units, Quorate(v), NEW listed,
         Enters(u, v, listed), u \notin Live,
         \A w \in Units : up[w] => up'[w] = TRUE, up'[u] = TRUE,
         \A w \in Units : Stops(w), leader' = leader, pc'[u] # "stop-offline",
         \A w \in Units : pc'[w] = pc[w] \/ pc'[w] \in Benign
  PROVE  Apart' /\ \A w \in Units : Stops(w)'
<1>1. view[v] \in SUBSET Units /\ view[u] = {} /\ v \in Live
  <2>1. view \in [Units -> SUBSET Units]
    BY DEF Types
  <2>2. view[v] # {}
    BY <2>1, NoGroupNoQuorum, QuorateIn
  <2> QED
    BY <2>1, <2>2 DEF Live
<1>2. /\ Reachable(v) \subseteq view[v] /\ \A w \in Reachable(v) : up[w] /\ view[w] = view[v]
  BY DEF Reachable
<1> DEFINE M == Reachable(v) \cup {u}
           G == view[v] \cup {u}
<1>3. M \in SUBSET Units /\ G \in SUBSET Units /\ M \subseteq G /\ GroupSees(M, G)
  BY <1>1, <1>2 DEF Enters
<1>4. 2 * Cardinality(M) > Cardinality(G)
  <2>1. Reachable(v) \in SUBSET Units
    BY <1>1, <1>2
  <2>2. u \notin Reachable(v)
    BY <1>1, <1>2 DEF Live
  <2>3. /\ Cardinality(Reachable(v)) \in Nat /\ Cardinality(view[v]) \in Nat
        /\ Cardinality(M) = Cardinality(Reachable(v)) + 1
        /\ Cardinality(G) = Cardinality(view[v]) + (IF u \in view[v] THEN 0 ELSE 1)
    BY <1>1, <2>1, <2>2, Sizes
  <2>4. 2 * Cardinality(Reachable(v)) > Cardinality(view[v])
    BY DEF Quorate
  <2> QED
    BY <2>3, <2>4
<1>5. ASSUME NEW w \in M, NEW x \in Live, view[x] = view[w] PROVE x \in M
  <2>1. view[x] # {} /\ x \in Units /\ up[x] = TRUE /\ x \in view[x]
    BY DEF Live, Apart
  <2>2. w \in Reachable(v)
    BY <1>1, <1>5, <2>1
  <2> QED
    BY <1>2, <1>5, <2>1, <2>2 DEF Reachable
<1>6. ASSUME NEW w \in Live, w \notin M, w \in G PROVE Quorate(w)
  BY <1>6 DEF Apart
<1>7. ASSUME NEW w \in M PROVE w \notin Live \/ Quorate(w)
  <2>1. CASE w \in Reachable(v)
    <3>1. Reachable(w) = Reachable(v) /\ view[w] = view[v]
      BY <1>2, <2>1 DEF Reachable
    <3> QED
      BY <3>1 DEF Quorate
  <2> QED
    BY <2>1
<1>8. ASSUME NEW w \in M, w \notin Live PROVE pc'[w] # "stop-offline"
  <2>1. w \notin Reachable(v)
    BY <1>1, <1>2, <1>3, <1>8 DEF Live
  <2> QED
    BY <2>1
<1>9. \A w \in M : up'[w] = TRUE
  BY <1>2, <1>3
<1> HIDE DEF M, G
<1> QED
  BY <1>3, <1>4, <1>5, <1>6, <1>7, <1>8, <1>9, RegroupStops

\* Steps that leave the servers and their views alone
LEMMA ApartQuiet ==
  ASSUME Types, Apart, \A w \in Units : Stops(w), UNCHANGED <<leader, up, view>>, NEW u \in Units,
         UNCHANGED pc \/ \E l :
           /\ pc' = [pc EXCEPT ![u] = l]
           /\ l \in LeaderPaths => u = leader
           /\ l \in {"stop-online", "stop-follower"} => u \in Live /\ ~Quorate(u)
           /\ l = "offline-leader" => up[u]
           /\ l = "stop-offline" => up[u] /\ view[u] = {}
  PROVE  Apart' /\ \A w \in Units : Stops(w)'
<1>1. Live' = Live /\ \A w \in Units : Quorate(w)' = Quorate(w)
  BY DEF Live, Quorate, Reachable
<1>2. Apart'
  BY <1>1 DEF Apart, Live
<1>3. ASSUME NEW w \in Units PROVE Stops(w)'
  <2>1. CASE pc'[w] = pc[w]
    BY <1>1, <2>1 DEF Stops
  <2>2. CASE pc'[w] # pc[w]
    <3>1. w = u /\ pc \in [Units -> Benign \cup LeaderPaths \cup {"stop-follower"}]
      BY <2>2 DEF Types
    <3> QED
      BY <1>1, <2>2, <3>1 DEF Stops
  <2> QED
    BY <2>1, <2>2
<1> QED
  BY <1>2, <1>3

\* The steps that only look at MySQL, or change the metadata alone
LEMMA ApartPc ==
  ASSUME IInv, Apart, \A w \in Units : Stops(w), NEW u \in Units,
         \/ OnSelfHealing(u) \/ ChoosePath(u) \/ ChoosePathFails(u) \/ RecoverFromOnline(u)
         \/ RecoverFromOfflineLeader(u) \/ RecoverFromOfflineFollower(u) \/ NoReboot(u)
         \/ DropMetadata(u) \/ RecreateFails(u) \/ FindPrimary(u) \/ AcquireLock(u)
         \/ EnterLock(u) \/ LockFails(u) \/ ReleaseLock(u) \/ ReleaseFails(u) \/ UpdateStatus(u)
         \/ JoinCluster(u) \/ PublishState(u) \/ StartFails(u)
  PROVE  Apart' /\ \A w \in Units : Stops(w)'
<1>0. Types /\ Stops(u)
  BY DEF IInv
<1>1. UNCHANGED <<leader, up, view>>
  BY DEF OnSelfHealing, ChoosePath, ChoosePathFails, RecoverFromOnline, RecoverFromOfflineLeader,
     RecoverFromOfflineFollower, NoReboot, DropMetadata, RecreateFails, FindPrimary, AcquireLock,
     EnterLock, LockFails, ReleaseLock, ReleaseFails, UpdateStatus, JoinCluster, PublishState,
     StartFails, mysqlVars
<1>2. CASE ChoosePath(u)
  <2> DEFINE l == CASE view[u] # {} /\ leader = u -> "online-leader"
                    [] view[u] # {} /\ leader # u -> "online-follower"
                    [] view[u] = {} /\ leader = u -> "offline-leader"
                    [] view[u] = {} /\ leader # u -> "offline-follower"
  <2>1. pc' = [pc EXCEPT ![u] = l] /\ up[u]
    BY <1>2 DEF ChoosePath, Goto
  <2>2. /\ l \in {"online-leader", "online-follower", "offline-leader", "offline-follower"}
        /\ l \in {"online-leader", "offline-leader"} => u = leader
    OBVIOUS
  <2> HIDE DEF l
  <2> QED
    BY <1>0, <1>1, <2>1, <2>2, ApartQuiet DEF LeaderPaths, OfflinePaths
<1>3. CASE RecoverFromOnline(u)
  <2>1. PICK l : pc' = [pc EXCEPT ![u] = l] /\ (pc[u] = "online-leader" \/ pc[u] = "online-follower")
                 /\ (l = "idle" \/ (NoQuorum(u) /\ l = "stop-follower")
                                \/ (NoQuorum(u) /\ l = "stop-online" /\ pc[u] = "online-leader"))
    BY <1>3 DEF RecoverFromOnline, Goto
  <2>2. NoQuorum(u) => u \in Live /\ ~Quorate(u)
    BY DEF NoQuorum, Live
  <2>3. pc[u] = "online-leader" => u = leader
    BY <1>0 DEF Stops, LeaderPaths
  <2> QED
    BY <1>0, <1>1, <2>1, <2>2, <2>3, ApartQuiet DEF LeaderPaths, OfflinePaths
<1>4. CASE RecoverFromOfflineLeader(u)
  <2>1. PICK l \in {"rejoin", "idle", "stop-offline"} :
          /\ pc' = [pc EXCEPT ![u] = l] /\ pc[u] = "offline-leader"
          /\ l = "stop-offline" => view[u] = {}
    BY <1>4 DEF RecoverFromOfflineLeader, Goto
  <2>2. u = leader /\ up[u]
    BY <1>0, <2>1 DEF Stops, LeaderPaths
  <2> QED
    BY <1>0, <1>1, <2>1, <2>2, ApartQuiet DEF LeaderPaths, OfflinePaths
<1>5. CASE NoReboot(u) \/ DropMetadata(u)
  <2>1. PICK l \in {"drop", "idle", "create"} :
          pc' = [pc EXCEPT ![u] = l] /\ pc[u] \in {"recover-online", "recover-offline", "drop"}
    BY <1>5 DEF NoReboot, DropMetadata, Goto
  <2>2. u = leader
    BY <1>0, <2>1 DEF Stops, LeaderPaths, OfflinePaths
  <2> QED
    BY <1>0, <1>1, <2>1, <2>2, ApartQuiet DEF LeaderPaths, OfflinePaths
<1>6. CASE \/ OnSelfHealing(u) \/ ChoosePathFails(u) \/ RecoverFromOfflineFollower(u)
           \/ RecreateFails(u) \/ FindPrimary(u) \/ EnterLock(u) \/ LockFails(u) \/ ReleaseLock(u)
           \/ ReleaseFails(u) \/ JoinCluster(u) \/ PublishState(u) \/ StartFails(u)
  <2>1. PICK l \in {"healing", "idle", "rejoin", "lock", "attach", "add", "join", "joined"} :
          pc' = [pc EXCEPT ![u] = l]
    BY <1>6 DEF OnSelfHealing, ChoosePathFails, RecoverFromOfflineFollower, RecreateFails,
       FindPrimary, EnterLock, LockFails, ReleaseLock, ReleaseFails, JoinCluster, PublishState,
       StartFails, Body, Fails, Raise, Goto
  <2> QED
    BY <1>0, <1>1, <2>1, ApartQuiet DEF LeaderPaths, OfflinePaths
<1>7. CASE AcquireLock(u) \/ UpdateStatus(u)
  <2>1. UNCHANGED pc
    BY <1>7 DEF AcquireLock, UpdateStatus
  <2> QED
    BY <1>0, <1>1, <2>1, ApartQuiet
<1> QED
  BY <1>2, <1>3, <1>4, <1>5, <1>6, <1>7

\* The steps by which servers enter a group or found one
LEMMA ApartGroups ==
  ASSUME IInv, IInv', Apart, \A w \in Units : Stops(w), NEW u \in Units,
         \/ Restart(u) \/ StartServer(u) \/ RejoinInstance(u) \/ AddInstance(u) \/ Expel(u)
         \/ Reboot(u) \/ RecreateCluster(u)
  PROVE  Apart' /\ \A w \in Units : Stops(w)'
<1>0. Types /\ Types' /\ Stops(u) /\ view \in [Units -> SUBSET Units] /\ up \in [Units -> BOOLEAN]
  BY DEF IInv, Types
<1>1. leader' = leader
  BY DEF Restart, StartServer, RejoinInstance, AddInstance, Expel, Reboot, RecreateCluster
<1>2. CASE Restart(u) \/ StartServer(u)
  <2>1. ServerUp(u) /\ UNCHANGED pc /\ ~up[u] /\ up' = [up EXCEPT ![u] = TRUE]
    BY <1>2 DEF Restart, StartServer, ServerUp
  <2>2. (\A w \in Units : up[w] => up'[w] = TRUE) /\ up'[u] = TRUE
    BY <1>0, <2>1
  <2>3. u \notin Live
    BY <2>1 DEF Apart
  <2>4. CASE UNCHANGED <<view, metadata>>
    <3>1. PICK M \in SUBSET Units : M = {}
      OBVIOUS
    <3>2. GroupSees(M, M)
      BY <1>0, <2>4, <3>1 DEF GroupSees
    <3> QED
      BY <1>0, <1>1, <2>1, <2>2, <3>1, <3>2, RegroupStops
  <2>5. CASE \E v \in Units : Quorate(v) /\ Enters(u, v, metadata[v])
    <3>1. pc'[u] # "stop-offline"
      BY <1>0, <2>1 DEF Stops
    <3> QED
      BY <1>0, <1>1, <2>1, <2>2, <2>3, <2>5, <3>1, EntersApart
  <2> QED
    BY <2>1, <2>4, <2>5 DEF ServerUp
<1>3. CASE RejoinInstance(u) \/ AddInstance(u)
  <2>1. PICK l \in {"release", "release-failed", "joining", "join-failed"} :
          pc' = [pc EXCEPT ![u] = l] /\ up' = up
    BY <1>3 DEF RejoinInstance, AddInstance, Goto
  <2>2. CASE UNCHANGED view
    BY <1>0, <1>1, <2>1, <2>2, ApartQuiet DEF LeaderPaths, OfflinePaths
  <2>3. CASE \E v \in Units : \E listed : up[u] /\ view[u] = {} /\ Quorate(v) /\ Enters(u, v, listed)
    <3>1. u \notin Live /\ (\A w \in Units : up[w] => up'[w] = TRUE) /\ up'[u] = TRUE
      BY <1>0, <2>1, <2>3 DEF Live
    <3>2. pc'[u] = l /\ \A w \in Units : pc'[w] = pc[w] \/ pc'[w] \in Benign
      BY <1>0, <2>1 DEF Types, Benign
    <3> QED
      BY <1>0, <1>1, <2>1, <2>3, <3>1, <3>2, EntersApart
  <2> QED
    BY <1>3, <2>2, <2>3 DEF RejoinInstance, AddInstance, Donors
<1>4. CASE Expel(u)
  <2>1. /\ Quorate(u) /\ GroupSees(Reachable(u), Reachable(u)) /\ up' = up /\ pc' = pc
    BY <1>4 DEF Expel
  <2>2. /\ \A w \in Reachable(u) : up[w] = TRUE /\ view[w] = view[u] /\ w \in view[u]
        /\ Reachable(u) \subseteq Units
    BY <1>0 DEF Reachable
  <2>3. view[u] # {}
    BY <1>0, <2>1, NoGroupNoQuorum, QuorateIn
  <2>4. PICK M \in SUBSET Units : M = Reachable(u)
    BY <2>2
  <2>5. M # {} => 2 * Cardinality(M) > Cardinality(M)
    BY Sizes
  <2>6. \A w \in M, x \in Live : view[x] = view[w] => x \in M
    <3>1. ASSUME NEW x \in Live, view[x] = view[u] PROVE x \in M
      BY <2>4, <3>1 DEF Reachable, Live, Apart
    <3> QED
      BY <2>2, <2>4, <3>1
  <2>7. ASSUME NEW w \in M PROVE Quorate(w) /\ w \in Live
    <3>1. Reachable(w) = Reachable(u) /\ view[w] = view[u]
      BY <2>2, <2>4 DEF Reachable
    <3> QED
      BY <2>1, <2>3, <3>1 DEF Quorate, Live
  <2>8. (\A w \in Units : up[w] => up'[w] = TRUE) /\ \A w \in M : up'[w] = TRUE
    BY <1>0, <2>1, <2>2, <2>4
  <2> QED
    BY <1>0, <1>1, <2>1, <2>4, <2>5, <2>6, <2>7, <2>8, RegroupStops
<1>5. CASE Reboot(u) \/ RecreateCluster(u)
  <2>1. PICK M \in SUBSET Units :
          /\ u \in M /\ GroupSees(M, M) /\ \A w \in M : up[w] /\ view[w] = {}
          /\ pc' = [pc EXCEPT ![u] = "idle"] /\ up' = up
          /\ pc[u] \in {"recover-online", "recover-offline", "create"}
    <3>1. CASE Reboot(u)
      <4>1. PICK M \in SUBSET metadata[u] : u \in M /\ GroupSees(M, M)
        BY <3>1 DEF Reboot
      <4>2. M \in SUBSET Units
        BY <1>0, <4>1 DEF Types
      <4> QED
        BY <3>1, <4>1, <4>2 DEF Reboot, Rebootable, Goto
    <3>2. CASE RecreateCluster(u)
      <4>1. GroupSees({u}, {u}) /\ {u} \in SUBSET Units /\ up[u] /\ view[u] = {}
        BY <1>0, <3>2 DEF RecreateCluster, GroupSees
      <4> QED
        BY <3>2, <4>1 DEF RecreateCluster, Goto
    <3> QED
      BY <1>5, <3>1, <3>2
  <2>2. u = leader
    BY <1>0, <2>1 DEF Stops, LeaderPaths, OfflinePaths
  <2>3. M # {} => 2 * Cardinality(M) > Cardinality(M)
    BY Sizes
  <2>4. \A w \in M : w \notin Live
    BY <2>1 DEF Live
  <2>5. \A w \in M, x \in Live : view[x] = view[w] => x \in M
    BY <2>1 DEF Live
  <2>6. \A w \in Units : pc'[w] = pc[w] \/ pc'[w] \in Benign
    BY <1>0, <2>1 DEF Types, Benign
  <2>7. ASSUME NEW w \in M PROVE pc'[w] # "stop-offline"
    <3>1. CASE w = u
      BY <1>0, <2>1, <3>1 DEF Types
    <3>2. CASE w # u
      <4>1. pc'[w] = pc[w] /\ Stops(w)
        BY <1>0, <2>1, <3>2 DEF Types
      <4> QED
        BY <2>2, <3>2, <4>1 DEF Stops, LeaderPaths, OfflinePaths
    <3> QED
      BY <3>1, <3>2
  <2>8. (\A w \in Units : up[w] => up'[w] = TRUE) /\ \A w \in M : up'[w] = TRUE
    BY <1>0, <2>1
  <2> QED
    BY <1>0, <1>1, <2>1, <2>3, <2>4, <2>5, <2>6, <2>7, <2>8, RegroupStops
<1> QED
  BY <1>2, <1>3, <1>4, <1>5

\* stop_replication: whoever stops had no quorum, and the others keep theirs or their lack of it
LEMMA ApartStop ==
  ASSUME IInv, Apart, \A w \in Units : Stops(w), NEW u \in Units, StopReplication(u)
  PROVE  /\ Apart' /\ \A w \in Units : Stops(w)'
         /\ ~Quorate(u) /\ \A w \in Units : w # u => view'[w] = view[w]
<1>0. Types /\ Stops(u) /\ view \in [Units -> SUBSET Units]
  BY DEF IInv, Types
<1>1. PICK l \in {"recover-online", "recover-offline", "idle"} :
        /\ pc' = [pc EXCEPT ![u] = l]
        /\ l # "idle" => pc[u] \in LeaderPaths
        /\ pc[u] \in {"stop-online", "stop-offline", "stop-follower"}
  BY DEF StopReplication, Goto, Raise, LeaderPaths, OfflinePaths
<1>2. ~Quorate(u)
  <2>1. CASE pc[u] = "stop-offline"
    BY <1>0, <2>1, NoGroupNoQuorum, QuorateIn DEF Stops
  <2> QED
    BY <1>0, <1>1, <2>1 DEF Stops
<1>3. /\ UNCHANGED <<leader, up>>
      /\ \A w \in Units : view'[w] = IF w = u THEN {} ELSE view[w]
      /\ view' \in [Units -> SUBSET Units]
  BY <1>0, <1>2 DEF StopReplication
<1>4. Live' = Live \ {u}
  BY <1>3 DEF Live
<1>5. ASSUME NEW w \in Units PROVE Quorate(w)' <=> Quorate(w)
  <2>1. CASE w = u
    <3>1. view'[w] = {}
      BY <1>3, <2>1
    <3> QED
      BY <1>2, <1>3, <2>1, <3>1, NoGroupNoQuorum, QuorateIn
  <2>2. CASE w # u /\ u \notin ReachIn(up, view, w)
    <3>1. view'[w] = view[w] /\ ReachIn(up', view', w) \subseteq ReachIn(up, view, w)
      <4>1. ASSUME NEW x \in ReachIn(up', view', w) PROVE x \in ReachIn(up, view, w)
        <5>1. x \in Units /\ x \in view[w] /\ up[x] /\ view'[x] = view[w]
          BY <1>0, <1>3, <2>2 DEF ReachIn
        <5>2. x # u
          BY <1>3, <5>1
        <5> QED
          BY <1>3, <5>1, <5>2 DEF ReachIn
      <4> QED
        BY <1>3, <2>2, <4>1
    <3>2. ReachIn(up, view, w) \subseteq ReachIn(up', view', w)
      BY <1>0, <1>3, <2>2 DEF ReachIn
    <3>3. ReachIn(up', view', w) = ReachIn(up, view, w)
      BY <3>1, <3>2
    <3> QED
      BY <3>1, <3>3, QuorateIn
  <2>3. CASE w # u /\ u \in ReachIn(up, view, w)
    <3> DEFINE R == ReachIn(up, view, w)
               S == ReachIn(up', view', w)
    <3>1. view[w] = view[u] /\ view'[w] = view[w] /\ u \in view[w]
      BY <1>3, <2>3 DEF ReachIn
    <3>2. R = ReachIn(up, view, u)
      BY <3>1 DEF ReachIn
    <3>3. ~(2 * Cardinality(R) > Cardinality(view[w]))
      BY <1>2, <3>1, <3>2, QuorateIn
    <3>4. S \subseteq R /\ R \subseteq Units
      <4>1. ASSUME NEW x \in S PROVE x \in R
        <5>1. x \in Units /\ x \in view[w] /\ up[x] /\ view'[x] = view[w]
          BY <1>0, <1>3, <3>1 DEF ReachIn
        <5>2. x # u
          BY <1>3, <3>1, <5>1
        <5> QED
          BY <1>3, <5>1, <5>2 DEF ReachIn
      <4> QED
        BY <1>0, <4>1 DEF ReachIn
    <3> HIDE DEF R, S
    <3>5. R \in SUBSET Units /\ S \in SUBSET R /\ S \in SUBSET Units /\ view[w] \in SUBSET Units
      BY <1>0, <3>4
    <3>6. /\ Cardinality(S) <= Cardinality(R) /\ Cardinality(R) \in Nat
          /\ Cardinality(S) \in Nat /\ Cardinality(view[w]) \in Nat
      BY <3>5, Sizes
    <3>7. ~(2 * Cardinality(S) > Cardinality(view'[w]))
      BY <3>1, <3>3, <3>6
    <3> QED
      BY <3>3, <3>7, QuorateIn DEF R, S
  <2> QED
    BY <2>1, <2>2, <2>3
<1>6. Apart'
  <2>1. ASSUME NEW x \in Live' PROVE up'[x] = TRUE /\ x \in view'[x]
    BY <1>3, <1>4 DEF Apart, Live
  <2>2. ASSUME NEW x \in Live', NEW v \in Units, Quorate(v)', x \in view'[v] PROVE Quorate(x)'
    <3>1. Quorate(v) /\ x \in view[v] /\ x \in Live /\ x \in Units
      BY <1>3, <1>4, <1>5, <2>2 DEF Live
    <3> QED
      BY <1>5, <3>1 DEF Apart
  <2> QED
    BY <2>1, <2>2 DEF Apart
<1>7. ASSUME NEW w \in Units PROVE Stops(w)'
  <2>1. CASE w = u
    <3>1. pc'[w] = l
      BY <1>0, <1>1, <2>1 DEF Types
    <3> QED
      BY <1>0, <1>1, <1>3, <2>1, <3>1 DEF Stops, LeaderPaths, OfflinePaths
  <2>2. CASE w # u
    <3>1. pc'[w] = pc[w] /\ Stops(w) /\ view'[w] = view[w]
      BY <1>0, <1>1, <1>3, <2>2 DEF Types
    <3> QED
      BY <1>3, <1>4, <1>5, <2>2, <3>1 DEF Stops
  <2> QED
    BY <2>1, <2>2
<1> QED
  BY <1>2, <1>3, <1>6, <1>7

\* The first crash: there was one group, which its survivors still see
LEMMA ApartCrash ==
  ASSUME IInv, IInv', QInv, NEW S \in SUBSET Units, Crash(S)
  PROVE  QInv'
<1> SUFFICES ASSUME faults' <= 1 PROVE Apart' /\ \A u \in Units : Stops(u)'
  BY DEF QInv
<1>1. /\ UNCHANGED <<leader, pc>> /\ Types /\ faults = 0 /\ Calm
      /\ up' = [u \in Units |-> up[u] /\ u \notin S]
      /\ view' = [u \in Units |-> IF u \in S THEN {} ELSE view[u]]
  BY DEF Crash, IInv, Types
<1>2. Live' = Live \ S /\ \A u \in Live' : up'[u] = TRUE /\ u \in view'[u] /\ view'[u] = Live
  BY <1>1 DEF Live, Calm, CalmUnit
<1>3. ASSUME NEW u \in Live', NEW v \in Units, Quorate(v)' PROVE Quorate(u)'
  <2>1. view' \in [Units -> SUBSET Units]
    BY DEF IInv, Types
  <2>2. v \in Live' /\ u \in Units
    BY <1>3, <2>1, NoGroupNoQuorum, QuorateIn DEF Live
  <2>3. view'[u] = view'[v] /\ ReachIn(up', view', u) = ReachIn(up', view', v)
    BY <1>2, <2>2 DEF ReachIn
  <2> QED
    BY <1>3, <2>2, <2>3, QuorateIn
<1>4. ASSUME NEW u \in Units PROVE Stops(u)'
  <2>1. pc'[u] \in Outside \cup Member /\ pc'[u] = pc[u] /\ Stops(u)
    BY <1>1 DEF Calm, CalmUnit, QInv
  <2> QED
    BY <1>1, <2>1 DEF Stops, Outside, Member, LeaderPaths, OfflinePaths
<1> QED
  BY <1>2, <1>3, <1>4 DEF Apart

\* The initial state satisfies the invariant
LEMMA InitQInv == Init /\ IInv => QInv
<1> SUFFICES ASSUME Init, IInv PROVE Apart /\ \A u \in Units : Stops(u)
  BY DEF QInv
<1>1. Types /\ Calm /\ pc = [u \in Units |-> "idle"]
  BY DEF Init, IInv
<1>2. ASSUME NEW u \in Live, NEW v \in Units, Quorate(v) PROVE Quorate(u)
  <2>1. view \in [Units -> SUBSET Units]
    BY <1>1 DEF Types
  <2>2. v \in Live /\ u \in Units
    BY <1>2, <2>1, NoGroupNoQuorum, QuorateIn DEF Live
  <2>3. view[u] = view[v] /\ Reachable(u) = Reachable(v)
    BY <1>1, <2>2 DEF Calm, CalmUnit, Reachable
  <2> QED
    BY <1>2, <2>3 DEF Quorate
<1>3. \A u \in Live : up[u] = TRUE /\ u \in view[u]
  BY <1>1 DEF Calm, CalmUnit, Live
<1>4. \A u \in Units : Stops(u)
  BY <1>1 DEF Stops, LeaderPaths, OfflinePaths
<1> QED
  BY <1>2, <1>3, <1>4 DEF Apart

\* Every step keeps the invariant
LEMMA NextQInv == IInv /\ IInv' /\ QInv /\ [Next]_vars => QInv'
<1> SUFFICES ASSUME IInv, IInv', QInv, [Next]_vars PROVE QInv'
  OBVIOUS
<1>1. ASSUME NEW S \in SUBSET Units \ {{}}, Crash(S) PROVE QInv'
  BY <1>1, ApartCrash
<1>2. ASSUME NEW u \in Units,
             \/ HealStep(u) \/ Expel(u) \/ UpdateStatus(u) \/ JoinCluster(u) \/ Restart(u)
             \/ StartServer(u) \/ StartFails(u) \/ OnSelfHealing(u)
      PROVE  QInv'
  <2>1. faults' = faults
    BY <1>2 DEF HealStep, ChoosePath, ChoosePathFails, RecoverFromOnline, RecoverFromOfflineLeader,
       RecoverFromOfflineFollower, StopReplication, Reboot, NoReboot, DropMetadata,
       RecreateCluster, RecreateFails, FindPrimary, AcquireLock, EnterLock, LockFails,
       RejoinInstance, AddInstance, PublishState, ReleaseLock, ReleaseFails, Expel, UpdateStatus,
       JoinCluster, Restart, StartServer, StartFails, OnSelfHealing
  <2>2. ASSUME faults <= 1 PROVE Apart' /\ \A w \in Units : Stops(w)'
    BY <1>2, <2>2, ApartPc, ApartGroups, ApartStop DEF HealStep, QInv
  <2> QED
    BY <2>1, <2>2 DEF QInv
<1>3. ASSUME UNCHANGED vars PROVE QInv'
  <2>1. UNCHANGED <<leader, up, view, pc, faults>>
    BY <1>3 DEF vars, mysqlVars
  <2> QED
    BY <2>1 DEF QInv, Apart, Stops, Live, Quorate, Reachable
<1> QED
  BY <1>1, <1>2, <1>3 DEF Next

\* The invariant for the stopping of replication holds in every state
THEOREM StopInvariance == Spec => []QInv
  BY InitQInv, NextQInv, InitIInv, Invariance, PTL DEF Spec

\* A step does not take w out of a group that has quorum
NotStopped(u) == (faults <= 1 /\ up'[u] /\ view[u] # {} /\ view'[u] = {}) => ~Quorate(u)

\* A server that enters takes nobody out of a group
LEMMA EnteringStopsNobody ==
  ASSUME NEW u \in Units, NEW v \in Units, NEW listed, Enters(u, v, listed), NEW w \in Units
  PROVE  view'[w] # {} \/ view'[w] = view[w]
  BY DEF Enters, GroupSees

\* Only stop_replication takes a running server out of its group
LEMMA NobodyStopped ==
  ASSUME IInv, QInv, [Next]_vars, NEW w \in Units PROVE NotStopped(w)
<1> SUFFICES ASSUME faults <= 1, up'[w], view[w] # {}, view'[w] = {} PROVE ~Quorate(w)
  BY DEF NotStopped
<1>0. Types
  BY DEF IInv
<1>1. ASSUME NEW S \in SUBSET Units \ {{}}, Crash(S) PROVE FALSE
  BY <1>0, <1>1 DEF Crash, Types
<1>2. ASSUME NEW u \in Units, AddInstance(u) \/ Restart(u) \/ StartServer(u) \/ RejoinInstance(u)
      PROVE  FALSE
  BY <1>2, EnteringStopsNobody DEF AddInstance, Restart, StartServer, ServerUp, RejoinInstance, Donors
<1>3. ASSUME NEW u \in Units, Expel(u) PROVE FALSE
  <2>1. w \in Reachable(u) => Reachable(u) # {}
    OBVIOUS
  <2> QED
    BY <1>3, <2>1 DEF Expel, GroupSees
<1>4. ASSUME NEW u \in Units, Reboot(u) PROVE FALSE
  BY <1>4 DEF Reboot, GroupSees
<1>5. ASSUME NEW u \in Units, RecreateCluster(u) PROVE FALSE
  BY <1>0, <1>5 DEF RecreateCluster, Types
<1>6. ASSUME NEW u \in Units, StopReplication(u) PROVE ~Quorate(w)
  <2>1. ~Quorate(u) /\ \A x \in Units : x # u => view'[x] = view[x]
    BY <1>6, ApartStop DEF QInv
  <2> QED
    BY <2>1
<1>7. ASSUME UNCHANGED view PROVE FALSE
  BY <1>7
<1>8. ASSUME NEW u \in Units,
             \/ UpdateStatus(u) \/ StartFails(u) \/ OnSelfHealing(u) \/ ChoosePath(u)
             \/ ChoosePathFails(u) \/ RecoverFromOnline(u) \/ RecoverFromOfflineLeader(u)
             \/ RecoverFromOfflineFollower(u) \/ NoReboot(u) \/ DropMetadata(u) \/ RecreateFails(u)
             \/ FindPrimary(u) \/ AcquireLock(u) \/ EnterLock(u) \/ LockFails(u) \/ ReleaseLock(u)
             \/ ReleaseFails(u) \/ JoinCluster(u) \/ PublishState(u)
      PROVE  UNCHANGED view
  BY <1>8 DEF UpdateStatus, StartFails, OnSelfHealing, ChoosePath, ChoosePathFails,
     RecoverFromOnline, RecoverFromOfflineLeader, RecoverFromOfflineFollower, NoReboot,
     DropMetadata, RecreateFails, FindPrimary, AcquireLock, EnterLock, LockFails, ReleaseLock,
     ReleaseFails, JoinCluster, PublishState, mysqlVars
<1>9. UNCHANGED vars => UNCHANGED view
  BY DEF vars, mysqlVars
<1> QED
  BY <1>1, <1>2, <1>3, <1>4, <1>5, <1>6, <1>7, <1>8, <1>9 DEF Next, HealStep

\* After one crash, of any number of servers, self-healing takes no member out of a group
\* that has quorum, for any number of units (stop_replication and the looks before it)
THEOREM QuorateGroupsAreKept == Spec => HealthyGroupIsNotStopped
<1>1. IInv /\ QInv /\ [Next]_vars
      => [\A u \in Units : (faults <= 1 /\ up'[u] /\ view[u] # {} /\ view'[u] = {}) => ~Quorate(u)]_vars
  BY NobodyStopped DEF NotStopped
<1> QED
  BY <1>1, Invariance, StopInvariance, PTL DEF Spec, HealthyGroupIsNotStopped

-----------------------------------------------------------------------------
\* The steps inside of the row
Inside == {"attach", "add"}

\* What a step does to the row, and who takes it where in the handler
LEMMA LockSteps ==
  ASSUME [Next]_vars
  PROVE  \/ \E u \in Units : Lock!Grant(u, Row) /\ UNCHANGED pc
         \/ \E u \in Units : /\ Lock!Enter(u, Row)
                             /\ \E l \in Inside : pc' = [pc EXCEPT ![u] = l]
         \/ \E u \in Units : /\ Lock!Leave(u, Row)
                             /\ \E l : l \notin Inside /\ pc' = [pc EXCEPT ![u] = l]
         \/ \E u \in Units : /\ Lock!Return(u, Row)
                             /\ \E l : l \notin Inside /\ pc' = [pc EXCEPT ![u] = l]
         \/ /\ UNCHANGED lockVars
            /\ \/ UNCHANGED pc
               \/ \E u \in Units : \E l : l \notin Inside /\ pc' = [pc EXCEPT ![u] = l]
<1>1. ASSUME NEW S \in SUBSET Units \ {{}}, Crash(S) PROVE UNCHANGED <<lockVars, pc>>
  BY <1>1 DEF Crash
<1>2. ASSUME NEW u \in Units, Expel(u) \/ UpdateStatus(u) \/ Restart(u) \/ StartServer(u)
      PROVE  UNCHANGED <<lockVars, pc>>
  BY <1>2 DEF Expel, UpdateStatus, Restart, StartServer
<1>3. ASSUME NEW u \in Units,
             \/ StartFails(u) \/ OnSelfHealing(u) \/ ChoosePath(u)
             \/ ChoosePathFails(u) \/ RecoverFromOnline(u) \/ RecoverFromOfflineLeader(u)
             \/ RecoverFromOfflineFollower(u) \/ NoReboot(u) \/ DropMetadata(u) \/ RecreateFails(u)
             \/ RecreateCluster(u) \/ Reboot(u) \/ StopReplication(u)
             \/ FindPrimary(u) \/ LockFails(u) \/ ReleaseFails(u) \/ JoinCluster(u) \/ PublishState(u)
      PROVE  UNCHANGED lockVars /\ \E l : l \notin Inside /\ pc' = [pc EXCEPT ![u] = l]
  <2>1. UNCHANGED lockVars
    BY <1>3 DEF StartFails, OnSelfHealing, ChoosePath, ChoosePathFails,
       RecoverFromOnline, RecoverFromOfflineLeader, RecoverFromOfflineFollower, NoReboot,
       DropMetadata, RecreateFails, RecreateCluster, Reboot, StopReplication, FindPrimary,
       LockFails, ReleaseFails, JoinCluster, PublishState
  <2>2. CASE ChoosePath(u)
    <3> DEFINE l == CASE view[u] # {} /\ leader = u -> "online-leader"
                      [] view[u] # {} /\ leader # u -> "online-follower"
                      [] view[u] = {} /\ leader = u -> "offline-leader"
                      [] view[u] = {} /\ leader # u -> "offline-follower"
    <3>1. pc' = [pc EXCEPT ![u] = l]
      BY <2>2 DEF ChoosePath, Goto
    <3>2. l \notin Inside
      BY DEF Inside
    <3> QED
      BY <2>1, <3>1, <3>2
  <2>3. CASE ~ChoosePath(u)
    <3>1. \E l \in {"healing", "idle", "stop-online", "stop-follower", "rejoin", "stop-offline",
                    "recover-online", "recover-offline", "drop", "create", "lock", "join"} :
            pc' = [pc EXCEPT ![u] = l]
      BY <1>3, <2>3 DEF StartFails, OnSelfHealing, ChoosePathFails,
         RecoverFromOnline, RecoverFromOfflineLeader, RecoverFromOfflineFollower, NoReboot,
         DropMetadata, RecreateFails, RecreateCluster, Reboot, StopReplication, FindPrimary,
         LockFails, ReleaseFails, JoinCluster, PublishState, Goto, Raise, Fails
    <3> QED
      BY <2>1, <3>1 DEF Inside
  <2> QED
    BY <2>2, <2>3
<1>4. ASSUME NEW u \in Units, AcquireLock(u) PROVE Lock!Grant(u, Row) /\ UNCHANGED pc
  BY <1>4 DEF AcquireLock
<1>5. ASSUME NEW u \in Units, EnterLock(u)
      PROVE  Lock!Enter(u, Row) /\ \E l \in Inside : pc' = [pc EXCEPT ![u] = l]
  BY <1>5 DEF EnterLock, Goto, Body, Inside
<1>6. ASSUME NEW u \in Units, RejoinInstance(u) \/ AddInstance(u)
      PROVE  /\ Lock!Leave(u, Row)
             /\ \E l : l \notin Inside /\ pc' = [pc EXCEPT ![u] = l]
  <2>1. Lock!Leave(u, Row)
    BY <1>6 DEF RejoinInstance, AddInstance
  <2>2. \E l \in {"release", "release-failed", "joining", "join-failed"} : pc' = [pc EXCEPT ![u] = l]
    BY <1>6 DEF RejoinInstance, AddInstance, Goto
  <2> QED
    BY <2>1, <2>2 DEF Inside
<1>7. ASSUME NEW u \in Units, ReleaseLock(u)
      PROVE  /\ Lock!Return(u, Row)
             /\ \E l : l \notin Inside /\ pc' = [pc EXCEPT ![u] = l]
  <2>1. Lock!Return(u, Row)
    BY <1>7 DEF ReleaseLock
  <2>2. \E l \in {"idle", "joined"} : pc' = [pc EXCEPT ![u] = l]
    BY <1>7 DEF ReleaseLock, Goto, Fails, Raise
  <2> QED
    BY <2>1, <2>2 DEF Inside
<1>8. UNCHANGED vars => UNCHANGED <<lockVars, pc>>
  BY DEF vars
<1> QED
  BY <1>1, <1>2, <1>3, <1>4, <1>5, <1>6, <1>7, <1>8 DEF Next, HealStep

\* Whoever adds or attaches its instance is inside, and only the executor of the row is
LockHeld ==
  /\ owner \in [{Row} -> Units \cup {NoUnit}] /\ inside \in [{Row} -> SUBSET Units]
  /\ inside[Row] \subseteq {owner[Row]}
  /\ \A u \in Units : pc[u] \in Inside => u \in inside[Row]

\* Every step keeps that
LEMMA LockHeldStep == LockHeld /\ IInv /\ [Next]_vars => LockHeld'
<1> SUFFICES ASSUME LockHeld, IInv, [Next]_vars PROVE LockHeld'
  OBVIOUS
<1>0. pc \in [Units -> Benign \cup LeaderPaths \cup {"stop-follower"}]
  BY DEF IInv, Types
<1>1. ASSUME NEW u \in Units, Lock!Grant(u, Row), UNCHANGED pc PROVE LockHeld'
  <2>1. owner[Row] = NoUnit /\ owner' = [owner EXCEPT ![Row] = u] /\ inside' = inside
    BY <1>1 DEF Lock!Grant
  <2>2. inside[Row] = {}
    BY <2>1, UnitsAssumption DEF LockHeld
  <2> QED
    BY <1>1, <2>1, <2>2 DEF LockHeld
<1>2. ASSUME NEW u \in Units, Lock!Enter(u, Row), NEW l \in Inside, pc' = [pc EXCEPT ![u] = l]
      PROVE  LockHeld'
  <2>1. owner[Row] = u /\ owner' = owner /\ inside' = [inside EXCEPT ![Row] = @ \cup {u}]
    BY <1>2 DEF Lock!Enter
  <2>2. inside'[Row] = inside[Row] \cup {u} /\ inside' \in [{Row} -> SUBSET Units]
    BY <2>1 DEF LockHeld
  <2>3. \A v \in Units : v # u => pc'[v] = pc[v]
    BY <1>0, <1>2
  <2> QED
    BY <2>1, <2>2, <2>3 DEF LockHeld
<1>3. ASSUME NEW u \in Units, NEW l, l \notin Inside, pc' = [pc EXCEPT ![u] = l], NEW v \in Units,
             pc'[v] \in Inside
      PROVE  v # u /\ pc[v] \in Inside
  BY <1>0, <1>3
<1>4. ASSUME NEW u \in Units, Lock!Leave(u, Row), NEW l, l \notin Inside, pc' = [pc EXCEPT ![u] = l]
      PROVE  LockHeld'
  <2>1. owner' = owner /\ inside' = [inside EXCEPT ![Row] = @ \ {u}]
    BY <1>4 DEF Lock!Leave
  <2>2. inside'[Row] = inside[Row] \ {u} /\ inside' \in [{Row} -> SUBSET Units]
    BY <2>1 DEF LockHeld
  <2> QED
    BY <1>3, <1>4, <2>1, <2>2 DEF LockHeld
<1>5. ASSUME NEW u \in Units, Lock!Return(u, Row), NEW l, l \notin Inside, pc' = [pc EXCEPT ![u] = l]
      PROVE  LockHeld'
  <2>1. /\ owner[Row] = u /\ u \notin inside[Row]
        /\ owner' = [owner EXCEPT ![Row] = NoUnit] /\ inside' = inside
    BY <1>5 DEF Lock!Return
  <2>2. inside[Row] = {}
    BY <2>1 DEF LockHeld
  <2> QED
    BY <1>3, <1>5, <2>1, <2>2 DEF LockHeld
<1>6. ASSUME UNCHANGED lockVars,
             UNCHANGED pc \/ \E u \in Units : \E l : l \notin Inside /\ pc' = [pc EXCEPT ![u] = l]
      PROVE  LockHeld'
  <2>1. ASSUME NEW v \in Units, pc'[v] \in Inside PROVE pc[v] \in Inside
    BY <1>3, <1>6, <2>1
  <2> QED
    BY <1>6, <2>1 DEF LockHeld, lockVars
<1> QED
  BY <1>1, <1>2, <1>4, <1>5, <1>6, LockSteps

\* At most one instance is added or attached to the cluster at a time, and by the executor
\* of the row, through crashes, errors and releases that fail, which leave the row with its
\* executor (rejoin_instance, add_instance, _locking)
THEOREM OneRejoinsAtATime == Spec => []OneAttaches
<1>1. Init => LockHeld
  BY DEF Init, LockHeld, Lock!Init, Inside
<1>2. LockHeld => OneAttaches
  BY DEF LockHeld, OneAttaches, Inside
<1> QED
  BY <1>1, <1>2, LockHeldStep, Invariance, PTL DEF Spec
===========================================================================
