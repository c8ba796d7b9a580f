---------------------------- MODULE ClusterFormation ----------------------------
(***************************************************************************)
(* How the units of a new application become one MySQL cluster: the        *)
(* leader-elected, start, peer relation-changed and update-status handlers *)
(* of LifecycleEventHandler and ClusterEventHandler, run by Juju, unit by  *)
(* unit, while the other units, Juju's leadership and the MySQL servers    *)
(* move on.                                                                *)
(*                                                                         *)
(* A unit runs one hook at a time.  A hook starts with the deferred start  *)
(* event, if there is one, and goes on with its own event.  What it writes *)
(* into the peer databag, and that a deferred event was handled, counts    *)
(* only when the hook ends well; a hook that raises or dies is run again   *)
(* from the top.  A databag that changed queues relation-changed on the    *)
(* other units.  What a hook did to MySQL stays done.                      *)
(***************************************************************************)
EXTENDS Naturals, FiniteSets

CONSTANTS
  Units,            \* the units of the application
  NoUnit, NoLock,   \* model values: nobody, no row
  MaxAttempts,      \* attempts to acquire a lock (10 in the code)
  ClusterMaxSize,   \* ClusterManager.cluster_max_size (9 in the code)
  ReadyUnits,       \* units whose workload can be reached from the start: all on
                    \* machines; on Kubernetes Pebble may answer later
  FirstLeaders,     \* the units that Juju may elect at first
  MaxMoves,         \* bound: how often Juju moves the leadership
  MaxFaults         \* bound: crashes, failed statements and failed attachments

ASSUME UnitsAssumption == NoUnit \notin Units /\ FirstLeaders \subseteq Units

Tasks == {"unit-add", "unit-remove"}

(* A cluster is named after the unit that founded it; it has its own table. *)
Locks == Units \X Tasks

VARIABLES
  leader,       \* the unit that Juju's leadership lease names
  moves, faults,
  elected,      \* elected[u]: a leader-elected event waits for u
  changed,      \* changed[u]: a peer relation-changed event waits for u
  startSent,    \* startSent[u]: Juju has delivered the start event
  ready,        \* ready[u]: system.ready
  appReady,     \* the passwords secret and the cluster names exist
  event,        \* event[u]: the event of the hook u runs
  stage,        \* stage[u]: where in the hook u is
  local,        \* local[u]: unit state as the running hook has written it
  stored,       \* stored[u]: unit state as committed with the last good hook
  data,         \* data[u]: the data directory is initialised
  cluster,      \* cluster[u]: the cluster whose ONLINE member u's server is
  metadata,     \* metadata[c]: the instances registered in cluster c
  clusterSets,  \* the clusters for which a cluster-set was created
  target,       \* target[u]: the cluster u is joining
  executor, pc, row, attempts

jujuVars == <<leader, moves, elected, startSent, ready, appReady>>
hookVars == <<event, stage, local, stored, changed>>
mysqlVars == <<data, cluster, metadata, clusterSets>>
lockVars == <<executor, pc, row, attempts>>
vars == <<jujuVars, hookVars, mysqlVars, lockVars, faults, target>>

Lock == INSTANCE InstanceLocking

--------------------------------------------------------------------------------
UnitState ==
  [state: {"UNKNOWN", "waiting", "ONLINE"}, flag: BOOLEAN, pid: BOOLEAN,
   started: BOOLEAN]

Stages == {"idle", "start", "configure", "create", "clusterset", "update",
           "handler", "remove", "rescan", "add", "clone", "joined", "raise"}

Fresh == [state |-> "UNKNOWN", flag |-> FALSE, pid |-> FALSE, started |-> FALSE]

(* The part of a unit's state that its peers see; `started' is the charm's *)
(* own record that the start event no longer is deferred.                   *)
Databag(s) == <<s.state, s.flag, s.pid>>

Init ==
  /\ leader \in FirstLeaders
  /\ moves = 0
  /\ faults = 0
  /\ elected = [u \in Units |-> u = leader]
  /\ changed = [u \in Units |-> TRUE]
  /\ startSent = [u \in Units |-> FALSE]
  /\ ready = [u \in Units |-> u \in ReadyUnits]
  /\ appReady = FALSE
  /\ event = [u \in Units |-> "none"]
  /\ stage = [u \in Units |-> "idle"]
  /\ local = [u \in Units |-> Fresh]
  /\ stored = [u \in Units |-> Fresh]
  /\ data = [u \in Units |-> FALSE]
  /\ cluster = [u \in Units |-> NoUnit]
  /\ metadata = [c \in Units |-> {}]
  /\ clusterSets = {}
  /\ target = [u \in Units |-> NoUnit]
  /\ Lock!Init

(* EventHelpers.initialized: the server knows the cluster's name. *)
Initialized(u) == data[u] /\ cluster[u] # NoUnit

Goto(u, s) == stage' = [stage EXCEPT ![u] = s]

Fault ==
  /\ faults < MaxFaults
  /\ faults' = faults + 1

--------------------------------------------------------------------------------
(* Juju *)

LeadershipMoves(u) ==
  /\ moves < MaxMoves
  /\ u # leader
  /\ leader' = u
  /\ moves' = moves + 1
  /\ elected' = [v \in Units |-> v = u]
  /\ UNCHANGED <<startSent, ready, appReady, hookVars, mysqlVars, lockVars,
                 faults, target>>

(* Pebble answers; the event this brings is one more hook (UpdateStatus). *)
BecomesReady(u) ==
  /\ ~ready[u]
  /\ ready' = [ready EXCEPT ![u] = TRUE]
  /\ UNCHANGED <<leader, moves, elected, startSent, appReady, hookVars,
                 mysqlVars, lockVars, faults, target>>

(* start follows a pending leader-elected, and everything else follows it. *)
Waiting(u, e) ==
  CASE e = "elected" -> elected[u]
    [] e = "start"   -> ~startSent[u] /\ ~elected[u]
    [] e = "changed" -> startSent[u] /\ changed[u]
    [] e = "status"  -> startSent[u]

(* A hook begins.  Building the charm starts the operator's daemons and     *)
(* stores their process ids once the unit is initialised; a deferred start  *)
(* is emitted before the hook's own event.                                  *)
Dispatch(u, e) ==
  /\ event[u] = "none"
  /\ Waiting(u, e)
  /\ event' = [event EXCEPT ![u] = e]
  /\ Goto(u, IF e = "start" \/ (startSent[u] /\ ~local[u].started)
               THEN "start" ELSE "handler")
  /\ local' = [local EXCEPT ![u].pid = @ \/ Initialized(u)]
  /\ startSent' = [startSent EXCEPT ![u] = @ \/ e = "start"]
  /\ elected' = [elected EXCEPT ![u] = @ /\ e # "elected"]
  /\ changed' = [changed EXCEPT ![u] = @ /\ e # "changed"]
  /\ UNCHANGED <<leader, moves, ready, appReady, stored, mysqlVars, lockVars,
                 faults, target>>

(* Mistake: the peers are not told. *)
FinishSilently(u, s) ==
  /\ event' = [event EXCEPT ![u] = "none"]
  /\ Goto(u, "idle")
  /\ local' = [local EXCEPT ![u] = s]
  /\ stored' = [stored EXCEPT ![u] = s]
  /\ UNCHANGED changed
  /\ target' = [target EXCEPT ![u] = NoUnit]

(* The hook ends well with the unit state s: Juju commits it and tells the  *)
(* peers if the databag is not what it was.                                 *)
Finish(u, s) ==
  /\ event' = [event EXCEPT ![u] = "none"]
  /\ Goto(u, "idle")
  /\ local' = [local EXCEPT ![u] = s]
  /\ stored' = [stored EXCEPT ![u] = s]
  /\ changed' = [v \in Units |->
       changed[v] \/ (v # u /\ Databag(s) # Databag(stored[u]))]
  /\ target' = [target EXCEPT ![u] = NoUnit]

(* The hook raised: nothing is committed and its event waits again. *)
Rerun(u) ==
  /\ stage[u] = "raise" \/ pc[u] = "failed"
  /\ pc[u] \in {"idle", "failed"}
  /\ event' = [event EXCEPT ![u] = "none"]
  /\ Goto(u, "idle")
  /\ local' = [local EXCEPT ![u] = stored[u]]
  /\ changed' = [changed EXCEPT ![u] = @ \/ event[u] = "changed"]
  /\ elected' = [elected EXCEPT ![u] = @ \/ (event[u] = "elected" /\ leader = u)]
  /\ startSent' = [startSent EXCEPT ![u] = @ /\ event[u] # "start"]
  /\ target' = [target EXCEPT ![u] = NoUnit]
  /\ IF pc[u] = "failed" THEN Lock!Rerun(u) ELSE UNCHANGED lockVars
  /\ UNCHANGED <<leader, moves, ready, appReady, stored, mysqlVars, faults>>

(* The hook's process dies. *)
Crash(u) ==
  /\ event[u] # "none"
  /\ stage[u] # "raise"
  /\ Fault
  /\ Goto(u, "raise")
  /\ IF pc[u] = "idle" THEN UNCHANGED lockVars ELSE Lock!Die(u)
  /\ UNCHANGED <<jujuVars, event, local, stored, changed, mysqlVars, target>>

--------------------------------------------------------------------------------
(* LifecycleEventHandler: leader-elected and leader-settings-changed *)

LeaderElected(u) ==
  /\ event[u] = "elected" /\ stage[u] = "handler"
  /\ leader = u
  /\ appReady' = TRUE
  /\ Finish(u, [local[u] EXCEPT !.flag = TRUE])
  /\ UNCHANGED <<leader, moves, elected, startSent, ready, mysqlVars, lockVars,
                 faults>>

(* Only the leader may write the application's databag and secrets. *)
LeaderElectedTooLate(u) ==
  /\ event[u] = "elected" /\ stage[u] = "handler"
  /\ leader # u
  /\ Goto(u, "raise")
  /\ UNCHANGED <<jujuVars, event, local, stored, changed, mysqlVars, lockVars,
                 faults, target>>

LeaderSettingsChanged(u) ==
  /\ event[u] = "none"
  /\ leader # u
  /\ stored[u].flag
  /\ Finish(u, [local[u] EXCEPT !.flag = FALSE])
  /\ UNCHANGED <<jujuVars, mysqlVars, lockVars, faults>>

--------------------------------------------------------------------------------
(* LifecycleEventHandler._on_start *)

StartDeferred(u) ==
  /\ stage[u] = "start"
  /\ ~ready[u] \/ ~appReady
  /\ Goto(u, "handler")
  /\ UNCHANGED <<jujuVars, event, local, stored, changed, mysqlVars, lockVars,
                 faults, target>>

(* create_app_services failed on the leader: a missing `juju trust'. *)
StartNotTrusted(u) ==
  /\ stage[u] = "start"
  /\ ready[u] /\ appReady
  /\ leader = u
  /\ Fault
  /\ Goto(u, "handler")
  /\ UNCHANGED <<jujuVars, event, local, stored, changed, mysqlVars, lockVars,
                 target>>

(* _start_server_service on a data directory that was set up before. *)
StartAgain(u) ==
  /\ stage[u] = "start"
  /\ ready[u] /\ appReady
  /\ data[u]
  /\ Goto(u, "update")
  /\ UNCHANGED <<jujuVars, event, local, stored, changed, mysqlVars, lockVars,
                 faults, target>>

SetupServer(u) ==
  /\ stage[u] = "start"
  /\ ready[u] /\ appReady
  /\ ~data[u]
  /\ data' = [data EXCEPT ![u] = TRUE]
  /\ Goto(u, "configure")
  /\ UNCHANGED <<jujuVars, event, local, stored, changed, cluster, metadata,
                 clusterSets, lockVars, faults, target>>

(* Mistake: the leadership is not asked for. *)
AlwaysBootstraps(u) == TRUE

(* Whether the started instance founds a cluster or waits to join one. *)
Bootstraps(u) == leader = u

(* The look at the leadership; the cluster is created after the instance    *)
(* was configured, whoever leads by then.                                   *)
ConfigureInstance(u) ==
  /\ stage[u] = "configure"
  /\ Goto(u, IF Bootstraps(u) THEN "create" ELSE "update")
  /\ UNCHANGED <<jujuVars, event, local, stored, changed, mysqlVars, lockVars,
                 faults, target>>

(* Clients.recreate_cluster: the locks table, then the cluster ... *)
CreateCluster(u) ==
  /\ stage[u] = "create"
  /\ cluster' = [cluster EXCEPT ![u] = u]
  /\ metadata' = [metadata EXCEPT ![u] = {u}]
  /\ Goto(u, "clusterset")
  /\ UNCHANGED <<jujuVars, event, local, stored, changed, data, clusterSets,
                 lockVars, faults, target>>

(* ... and then its cluster-set. *)
CreateClusterSet(u) ==
  /\ stage[u] = "clusterset"
  /\ clusterSets' = clusterSets \cup {u}
  /\ Goto(u, "update")
  /\ UNCHANGED <<jujuVars, event, local, stored, changed, data, cluster,
                 metadata, lockVars, faults, target>>

(* _update_state: the leadership is asked for again. *)
StartUpdateState(u) ==
  /\ stage[u] = "update"
  /\ local' = [local EXCEPT ![u] =
       [@ EXCEPT !.state = IF leader = u THEN "ONLINE" ELSE "waiting",
                 !.started = TRUE]]
  /\ Goto(u, "handler")
  /\ UNCHANGED <<jujuVars, event, stored, changed, mysqlVars, lockVars, faults,
                 target>>

StartReturns(u) ==
  /\ event[u] = "start" /\ stage[u] = "handler"
  /\ Finish(u, local[u])
  /\ UNCHANGED <<jujuVars, mysqlVars, lockVars, faults>>

(* _on_update_status: the databag gets what MySQL reports, if initialised. *)
UpdateStatus(u) ==
  /\ event[u] = "status" /\ stage[u] = "handler"
  /\ Finish(u, IF Initialized(u) THEN [local[u] EXCEPT !.state = "ONLINE"]
                                 ELSE local[u])
  /\ UNCHANGED <<jujuVars, mysqlVars, lockVars, faults>>

--------------------------------------------------------------------------------
(* ClusterEventHandler._on_relation_changed *)

(* Mistake: the instance is not looked for in the cluster it already knows. *)
MayJoinAgain(u) == local[u].state = "waiting"

(* check_instance_join_cluster: an instance that knows the cluster's name   *)
(* is an ONLINE member of it here, so it may not join; the size of the      *)
(* cluster is looked at only for such an instance.                          *)
MayJoin(u) ==
  /\ local[u].state = "waiting"
  /\ cluster[u] # NoUnit =>
       /\ Cardinality(metadata[cluster[u]]) # ClusterMaxSize
       /\ u \notin metadata[cluster[u]]

(* find_cluster_primary: peers that know no cluster-set are passed over. *)
Donors(u) == {v \in Units \ {u} : cluster[v] # NoUnit /\ cluster[v] \in clusterSets}

JoinSkipped(u) ==
  /\ event[u] = "changed" /\ stage[u] = "handler"
  /\ ~MayJoin(u) \/ Donors(u) = {}
  /\ Finish(u, local[u])
  /\ UNCHANGED <<jujuVars, mysqlVars, lockVars, faults>>

(* Mistake: the label is removed under the row it will be added with. *)
JoinInstanceInOneRow(u) ==
  /\ event[u] = "changed" /\ stage[u] = "handler"
  /\ MayJoin(u)
  /\ \E v \in Donors(u) :
       LET c == cluster[v] IN
         /\ target' = [target EXCEPT ![u] = c]
         /\ Goto(u, IF u \in metadata[c] THEN "remove" ELSE "add")
         /\ Lock!Locking(u, <<c, "unit-add">>)
  /\ UNCHANGED <<jujuVars, event, local, stored, changed, mysqlVars, faults>>

(* join_instance: a label that the cluster already lists is removed first. *)
JoinInstance(u) ==
  /\ event[u] = "changed" /\ stage[u] = "handler"
  /\ MayJoin(u)
  /\ \E v \in Donors(u) :
       LET c == cluster[v] IN
         /\ target' = [target EXCEPT ![u] = c]
         /\ IF u \in metadata[c]
              THEN Goto(u, "remove") /\ Lock!Locking(u, <<c, "unit-remove">>)
              ELSE Goto(u, "add") /\ Lock!Locking(u, <<c, "unit-add">>)
  /\ UNCHANGED <<jujuVars, event, local, stored, changed, mysqlVars, faults>>

(* The statements of _locking. *)
LockStep(u) ==
  /\ \/ Lock!AcquireUpdate(u)
     \/ Lock!AcquireSelect(u)
     \/ Lock!AcquireRefused(u)
     \/ Lock!ReleaseUpdate(u)
     \/ Lock!ReleaseSelect(u)
  /\ UNCHANGED <<jujuVars, hookVars, mysqlVars, faults, target>>

LockError(u) ==
  /\ Fault
  /\ Lock!AcquireError(u) \/ Lock!ReleaseError(u)
  /\ UNCHANGED <<jujuVars, hookVars, mysqlVars, target>>

DetachInstance(u) ==
  /\ stage[u] = "remove"
  /\ Lock!EndBody(u)
  /\ metadata' = [metadata EXCEPT ![target[u]] = @ \ {u}]
  /\ Goto(u, "rescan")
  /\ UNCHANGED <<jujuVars, event, local, stored, changed, data, cluster,
                 clusterSets, faults, target>>

RescanAndAdd(u) ==
  /\ stage[u] = "rescan"
  /\ Lock!Locking(u, <<target[u], "unit-add">>)
  /\ Goto(u, "add")
  /\ UNCHANGED <<jujuVars, event, local, stored, changed, mysqlVars, faults,
                 target>>

(* attach_instance; group replication itself refuses a member too many. *)
AttachInstance(u) ==
  /\ stage[u] \in {"add", "clone"}
  /\ Lock!EndBody(u)
  /\ Cardinality(metadata[target[u]]) < ClusterMaxSize
  /\ metadata' = [metadata EXCEPT ![target[u]] = @ \cup {u}]
  /\ cluster' = [cluster EXCEPT ![u] = target[u]]
  /\ Goto(u, "joined")
  /\ UNCHANGED <<jujuVars, event, local, stored, changed, data, clusterSets,
                 faults, target>>

(* ExecutionError: once more with recoveryMethod "clone" ... *)
AttachFallsBack(u) ==
  /\ stage[u] = "add" /\ pc[u] = "held"
  /\ Goto(u, "clone")
  /\ UNCHANGED <<jujuVars, event, local, stored, changed, mysqlVars, lockVars,
                 faults, target>>

(* ... and then the error leaves the body, perhaps with the label listed. *)
AttachFails(u) ==
  /\ stage[u] = "clone"
  /\ Lock!EndBody(u)
  /\ \/ Fault /\ metadata' = [metadata EXCEPT ![target[u]] = @ \cup {u}]
     \/ Fault /\ UNCHANGED metadata
     \/ /\ Cardinality(metadata[target[u]]) >= ClusterMaxSize
        /\ UNCHANGED <<metadata, faults>>
  /\ Goto(u, "raise")
  /\ UNCHANGED <<jujuVars, event, local, stored, changed, data, cluster,
                 clusterSets, target>>

(* update_state after a successful join. *)
Joined(u) ==
  /\ stage[u] = "joined" /\ pc[u] = "idle"
  /\ Finish(u, [local[u] EXCEPT !.state = "ONLINE"])
  /\ UNCHANGED <<jujuVars, mysqlVars, lockVars, faults>>

--------------------------------------------------------------------------------
(* What the agent of unit u does by itself, its faults left out. *)
HookStep(u) ==
  \/ LeaderElected(u)
  \/ LeaderElectedTooLate(u)
  \/ StartDeferred(u)
  \/ StartAgain(u)
  \/ SetupServer(u)
  \/ ConfigureInstance(u)
  \/ CreateCluster(u)
  \/ CreateClusterSet(u)
  \/ StartUpdateState(u)
  \/ StartReturns(u)
  \/ UpdateStatus(u)
  \/ JoinSkipped(u)
  \/ JoinInstance(u)
  \/ LockStep(u)
  \/ DetachInstance(u)
  \/ RescanAndAdd(u)
  \/ AttachInstance(u)
  \/ AttachFallsBack(u)
  \/ AttachFails(u)
  \/ Joined(u)
  \/ Rerun(u)

Next ==
  \E u \in Units :
    \/ HookStep(u)
    \/ \E e \in {"elected", "start", "changed", "status"} : Dispatch(u, e)
    \/ LeaderSettingsChanged(u)
    \/ LeadershipMoves(u)
    \/ BecomesReady(u)
    \/ StartNotTrusted(u)
    \/ LockError(u)
    \/ Crash(u)

Spec == Init /\ [][Next]_vars

(* Each hook that runs goes on, and workloads become ready.  Juju keeps     *)
(* running update-status, and delivers a relation-changed that waits even   *)
(* if other hooks come first again and again.  Leadership need not move and *)
(* faults need not happen.                                                  *)
Fairness ==
  \A u \in Units :
    /\ WF_vars(HookStep(u))
    /\ WF_vars(BecomesReady(u))
    /\ \A e \in {"elected", "start", "status"} : WF_vars(Dispatch(u, e))
    /\ SF_vars(Dispatch(u, "changed"))

FairSpec == Spec /\ Fairness

--------------------------------------------------------------------------------
(* Unit u works under row l, which names it, and no other unit does. *)
WorksAlone(u, l) ==
  /\ pc[u] = "held" /\ row[u] = l
  /\ executor[l] = u
  /\ \A v \in Units \ {u} : ~(pc[v] = "held" /\ row[v] = l)

(* The listing of a cluster gains a unit, its founder apart, only while     *)
(* that unit alone works under the cluster's row of additions, and loses    *)
(* one only while that unit alone works under its row of removals, although *)
(* hooks die with a row and are run again (add_instance, remove_instance).  *)
ListingChangesUnderLock ==
  [][\A c, u \in Units :
       /\ u \in metadata'[c] \ metadata[c] => u = c \/ WorksAlone(u, <<c, "unit-add">>)
       /\ u \in metadata[c] \ metadata'[c] => WorksAlone(u, <<c, "unit-remove">>)]_vars

(* One application has one MySQL cluster: `start' bootstraps a cluster on   *)
(* the leader only, and every other instance joins that one.                *)
OneCluster ==
  \A c, d \in Units : (metadata[c] # {} /\ metadata[d] # {}) => c = d

(* As long as Juju has not moved the leadership, one cluster is all there   *)
(* is, whatever hooks crash and are run again.                              *)
OneClusterUnderOneLeader == moves = 0 => OneCluster

(* Whatever a relation-changed hook removes and adds, is refused or dies    *)
(* doing, an ONLINE member is always listed in the metadata of its cluster. *)
MembersAreListed ==
  \A u \in Units : cluster[u] # NoUnit => u \in metadata[cluster[u]]

(* A member of one cluster never becomes a member of another one, and is    *)
(* never dropped: whoever leads meanwhile, check_instance_join_cluster      *)
(* keeps an instance that knows its cluster from joining its peers.         *)
NeverSwitchesCluster ==
  [][\A u \in Units : cluster[u] # NoUnit => cluster'[u] = cluster[u]]_vars

(* Every unit ends up as an ONLINE member and says so in its databag. *)
EveryUnitJoins ==
  <>[](\A u \in Units : cluster[u] # NoUnit /\ stored[u].state = "ONLINE")

(* A row of the locks table does not stay with a unit for ever: joining a   *)
(* cluster ends with the release of its lock.                               *)
LocksAreReleased ==
  \A l \in Locks : []<>(executor[l] = NoUnit)
================================================================================
