------------------------------ MODULE SelfHealing ------------------------------
(***************************************************************************)
(* SelfHealingEventHandler._on_self_healing: the event that a daemon of    *)
(* every unit emits again and again, by which the units bring MySQL back   *)
(* after servers have crashed.  The daemon dies with the first event whose *)
(* handler raises; the next hook that finds the unit initialized starts it *)
(* anew.                                                                   *)
(*                                                                         *)
(* A unit decides from what it can see: the state of its own server, the   *)
(* leadership, and the states that its peers wrote into their databags.    *)
(* Those are as old as the last update-status of the peer, or as the end   *)
(* of the hook that joined it: self-healing itself does not write them.    *)
(*                                                                         *)
(* Group replication is modelled by the view each ONLINE member has of its *)
(* group.  A member that vanished is UNREACHABLE in the views of the       *)
(* others until a majority of them expels it; without a majority the views *)
(* stay as they are.  The lock around a rejoin is the abstract ClusterLock,*)
(* which InstanceLocking implements.  Network partitions, the state        *)
(* RECOVERING and moving leadership are left out.                          *)
(***************************************************************************)
EXTENDS Naturals, FiniteSets

CONSTANTS
  Units,         \* the units of the application
  NoUnit,        \* nobody
  Leaders,       \* the units that may hold Juju's leadership
  WaitingSets,   \* the sets of units that may still wait to join at first
  MaxFaults      \* bound: how often servers crash, any number of them at once

ASSUME UnitsAssumption == IsFiniteSet(Units) /\ NoUnit \notin Units
ASSUME FaultsAssumption == MaxFaults \in Nat
ASSUME LeadersAssumption == Leaders \subseteq Units
ASSUME WaitingAssumption == WaitingSets \subseteq SUBSET Units

VARIABLES
  leader,     \* the unit that holds Juju's leadership
  up,         \* up[u]: service_server.running
  view,       \* view[u]: the group as u's server sees it, {} when OFFLINE
  metadata,   \* metadata[u]: the instances that u's copy of the metadata lists
  databag,    \* databag[u]: the instance state that u last published
  daemon,     \* daemon[u]: the process that emits self-healing is alive
  pc,         \* pc[u]: where in the handler u is
  owner, inside,
  faults,
  caught      \* servers crashed while a unit had joined and not yet said so

mysqlVars == <<up, view, metadata>>
lockVars == <<owner, inside>>
vars == <<leader, mysqlVars, databag, daemon, pc, lockVars, faults, caught>>

(* INSTANCE_ADDITION_TASK, the row that joining and rejoining take. *)
Row == "unit-add"

Lock == INSTANCE ClusterLock WITH Locks <- {Row}

Init ==
  /\ \E waiting \in WaitingSets :
       /\ leader \in Leaders \ waiting
       /\ LET joined == Units \ waiting IN
            /\ view = [u \in Units |-> IF u \in joined THEN joined ELSE {}]
            /\ metadata = view
            /\ databag = [u \in Units |->
                            IF u \in joined THEN "ONLINE" ELSE "waiting"]
  /\ up = [u \in Units |-> TRUE]
  /\ daemon = [u \in Units |-> metadata[u] # {}]
  /\ pc = [u \in Units |-> "idle"]
  /\ Lock!Init
  /\ faults = 0
  /\ caught = FALSE

--------------------------------------------------------------------------------
(* Group replication *)

Reachable(u) == {v \in view[u] : up[v] /\ view[v] = view[u]}

Unreachable(u) == view[u] \ Reachable(u)

Quorate(u) == 2 * Cardinality(Reachable(u)) > Cardinality(view[u])

(* The members that take part in a change of the group all see the same. *)
GroupSees(members, group) ==
  view' = [w \in Units |-> IF w \in members THEN group ELSE view[w]]

(* Server u enters the group of v and gets its data, the metadata included. *)
Enters(u, v, listed) ==
  /\ GroupSees(Reachable(v) \cup {u}, view[v] \cup {u})
  /\ metadata' = [w \in Units |->
                    IF w \in Reachable(v) \cup {u} THEN listed ELSE metadata[w]]

Crash(S) ==
  /\ faults < MaxFaults
  /\ faults' = faults + 1
  /\ up' = [u \in Units |-> up[u] /\ u \notin S]
  /\ view' = [u \in Units |-> IF u \in S THEN {} ELSE view[u]]
  /\ caught' = (caught \/ \E u \in Units : view[u] # {} /\ databag[u] = "waiting")
  /\ UNCHANGED <<leader, metadata, databag, daemon, pc, lockVars>>

(* The majority expels whom it cannot reach. *)
Expel(v) ==
  /\ Quorate(v)
  /\ Unreachable(v) # {}
  /\ GroupSees(Reachable(v), Reachable(v))
  /\ UNCHANGED <<leader, up, metadata, databag, daemon, pc, lockVars, faults, caught>>

--------------------------------------------------------------------------------
(* Handlers of other events that move the same state *)

Goto(u, step) == pc' = [pc EXCEPT ![u] = step]

(* EventHelpers.initialized: the server runs and knows its cluster. *)
Initialized(u) == up[u] /\ metadata[u] # {}

InstanceState(u) == IF view[u] = {} THEN "OFFLINE" ELSE "ONLINE"

(* The hook of update-status starts the daemon if it is not running, and    *)
(* _on_update_status publishes what the server reports.                     *)
UpdateStatus(u) ==
  /\ pc[u] = "idle"
  /\ Initialized(u)
  /\ daemon' = [daemon EXCEPT ![u] = TRUE]
  /\ databag' = [databag EXCEPT ![u] = InstanceState(u)]
  /\ UNCHANGED <<leader, mysqlVars, pc, lockVars, faults, caught>>

(* The peer relation-changed handler joins a unit that waits: it finds a    *)
(* primary, takes the same row as a rejoin, is added, and publishes its     *)
(* state when the hook ends.  The module ClusterFormation has more steps.   *)
JoinCluster(u) ==
  /\ pc[u] = "idle" /\ up[u] /\ view[u] = {}
  /\ databag[u] = "waiting"
  /\ \E v \in Units : Quorate(v)
  /\ Goto(u, "join")
  /\ UNCHANGED <<leader, mysqlVars, databag, daemon, lockVars, faults, caught>>

(* join_instance ends with update_state, and Juju commits the databag when  *)
(* the hook ends; if it dies or fails before, the unit is a member that     *)
(* still reads as waiting, and the rerun finds that it has joined.          *)
PublishState(u) ==
  /\ pc[u] = "joined"
  /\ Goto(u, "idle")
  /\ \/ up[u] /\ databag' = [databag EXCEPT ![u] = InstanceState(u)]
     \/ UNCHANGED databag
  /\ UNCHANGED <<leader, mysqlVars, daemon, lockVars, faults, caught>>

--------------------------------------------------------------------------------
(* _on_self_healing *)

(* Started on boot, group replication finds its group or stays OFFLINE. *)
ServerUp(u) ==
  /\ ~up[u]
  /\ up' = [up EXCEPT ![u] = TRUE]
  /\ \/ UNCHANGED <<view, metadata>>
     \/ \E v \in Units : /\ Quorate(v) /\ u \in metadata[v]
                         /\ Enters(u, v, metadata[v])

(* systemd or Pebble restarts a service that died. *)
Restart(u) ==
  /\ ServerUp(u)
  /\ UNCHANGED <<leader, databag, daemon, pc, lockVars, faults, caught>>

(* A server that does not run is started, and that is all for this event. *)
StartServer(u) ==
  /\ pc[u] = "idle" /\ daemon[u]
  /\ ServerUp(u)
  /\ UNCHANGED <<leader, databag, daemon, pc, lockVars, faults, caught>>

(* The handler raises: juju-exec fails, and the daemon with it. *)
Raise(u) ==
  /\ Goto(u, "idle")
  /\ daemon' = [daemon EXCEPT ![u] = FALSE]

StartFails(u) ==
  /\ pc[u] = "idle" /\ daemon[u]
  /\ ~up[u]
  /\ Raise(u)
  /\ UNCHANGED <<leader, mysqlVars, databag, lockVars, faults, caught>>

OnSelfHealing(u) ==
  /\ pc[u] = "idle" /\ daemon[u]
  /\ Initialized(u)
  /\ Goto(u, "healing")
  /\ UNCHANGED <<leader, mysqlVars, databag, daemon, lockVars, faults, caught>>

(* The state of the server and the leadership choose the path. *)
ChoosePath(u) ==
  /\ pc[u] = "healing"
  /\ up[u]
  /\ Goto(u, CASE view[u] # {} /\ leader = u -> "online-leader"
               [] view[u] # {} /\ leader # u -> "online-follower"
               [] view[u] = {} /\ leader = u -> "offline-leader"
               [] view[u] = {} /\ leader # u -> "offline-follower")
  /\ UNCHANGED <<leader, mysqlVars, databag, daemon, lockVars, faults, caught>>

(* fetch_instance_state raises: the server went down after it was looked at. *)
ChoosePathFails(u) ==
  /\ pc[u] = "healing"
  /\ ~up[u]
  /\ Raise(u)
  /\ UNCHANGED <<leader, mysqlVars, databag, lockVars, faults, caught>>

(* Mistake: any member that misses a peer counts as having lost quorum. *)
AnyUnreachable(u) == Unreachable(u) # {}

(* fetch_cluster_state() == NO_QUORUM; no answer is not that answer. *)
NoQuorum(u) == up[u] /\ view[u] # {} /\ ~Quorate(u)

RecoverFromOnline(u) ==
  /\ \/ /\ pc[u] = "online-leader"
        /\ Goto(u, IF NoQuorum(u) THEN "stop-online" ELSE "idle")
     \/ /\ pc[u] = "online-follower"
        /\ Goto(u, IF NoQuorum(u) THEN "stop-follower" ELSE "idle")
  /\ UNCHANGED <<leader, mysqlVars, databag, daemon, lockVars, faults, caught>>

(* The peer states from which an OFFLINE leader recovers. *)
MayRecover(states) == states \in {{}, {"OFFLINE"}, {"waiting"}}

PeerStates(u) == {databag[v] : v \in Units \ {u}}

(* Mistake: one OFFLINE peer is enough. *)
OfflineLeaderInHaste(u) ==
  /\ pc[u] = "offline-leader"
  /\ Goto(u, IF "OFFLINE" \in PeerStates(u) /\ view[u] = {} THEN "stop-offline"
             ELSE "rejoin")
  /\ UNCHANGED <<leader, mysqlVars, databag, daemon, lockVars, faults, caught>>

RecoverFromOfflineLeader(u) ==
  /\ pc[u] = "offline-leader"
  /\ Goto(u, IF "ONLINE" \in PeerStates(u) THEN "rejoin"
             ELSE IF ~MayRecover(PeerStates(u)) \/ view[u] # {} THEN "idle"
             ELSE "stop-offline")
  /\ UNCHANGED <<leader, mysqlVars, databag, daemon, lockVars, faults, caught>>

(* Mistake: followers leave the rejoining to the leader. *)
OfflineFollowerWaits(u) ==
  /\ pc[u] = "offline-follower"
  /\ Goto(u, "idle")
  /\ UNCHANGED <<leader, mysqlVars, databag, daemon, lockVars, faults, caught>>

RecoverFromOfflineFollower(u) ==
  /\ pc[u] = "offline-follower"
  /\ Goto(u, IF "ONLINE" \in PeerStates(u) THEN "rejoin" ELSE "idle")
  /\ UNCHANGED <<leader, mysqlVars, databag, daemon, lockVars, faults, caught>>

(* stop_replication: a group with quorum sees its member leave; one without *)
(* keeps it as UNREACHABLE.  A failure of the statement is suppressed, but  *)
(* the follower then asks its server for the unit status.                   *)
StopReplication(u) ==
  /\ \/ pc[u] = "stop-online" /\ Goto(u, "recover-online") /\ UNCHANGED daemon
     \/ pc[u] = "stop-offline" /\ Goto(u, "recover-offline") /\ UNCHANGED daemon
     \/ pc[u] = "stop-follower" /\ up[u] /\ Goto(u, "idle") /\ UNCHANGED daemon
     \/ pc[u] = "stop-follower" /\ ~up[u] /\ Raise(u)
  /\ view' = [w \in Units |->
                IF w = u THEN {}
                ELSE IF w \in Reachable(u) /\ Quorate(u) THEN view[w] \ {u}
                ELSE view[w]]
  /\ UNCHANGED <<leader, up, metadata, databag, lockVars, faults, caught>>

(* A reboot needs every listed instance to answer, outside of any group. *)
Rebootable(u) == up[u] /\ \A v \in metadata[u] : up[v] /\ view[v] = {}

(* recover_cluster_quorum skips the reboot if the server reports an         *)
(* UNREACHABLE peer.                                                        *)
MayReboot(u) == Unreachable(u) = {}

(* The cluster is rebooted; a listed instance may fail to follow. *)
Reboot(u) ==
  /\ pc[u] \in {"recover-online", "recover-offline"}
  /\ MayReboot(u)
  /\ Rebootable(u)
  /\ \E members \in SUBSET metadata[u] :
       /\ u \in members
       /\ GroupSees(members, members)
       /\ metadata' = [w \in Units |->
                         IF w \in members THEN metadata[u] ELSE metadata[w]]
  /\ Goto(u, "idle")
  /\ UNCHANGED <<leader, up, databag, daemon, lockVars, faults, caught>>

(* The reboot is skipped, or it raises RuntimeError: then the ONLINE leader *)
(* blocks and the OFFLINE one starts afresh.                                *)
NoReboot(u) ==
  /\ pc[u] \in {"recover-online", "recover-offline"}
  /\ ~MayReboot(u) \/ ~Rebootable(u)
  /\ Goto(u, IF pc[u] = "recover-offline" /\ MayReboot(u) THEN "drop" ELSE "idle")
  /\ UNCHANGED <<leader, mysqlVars, databag, daemon, lockVars, faults, caught>>

(* recreate_cluster: drop_metadata, then Clients.recreate_cluster. *)
DropMetadata(u) ==
  /\ pc[u] = "drop"
  /\ up[u] /\ view[u] = {}
  /\ metadata' = [metadata EXCEPT ![u] = {}]
  /\ Goto(u, "create")
  /\ UNCHANGED <<leader, up, view, databag, daemon, lockVars, faults, caught>>

RecreateCluster(u) ==
  /\ pc[u] = "create"
  /\ up[u] /\ view[u] = {}
  /\ view' = [view EXCEPT ![u] = {u}]
  /\ metadata' = [metadata EXCEPT ![u] = {u}]
  /\ Goto(u, "idle")
  /\ UNCHANGED <<leader, up, databag, daemon, lockVars, faults, caught>>

(* A statement of either fails, with the server or alone. *)
RecreateFails(u) ==
  /\ pc[u] \in {"drop", "create"}
  /\ Raise(u)
  /\ UNCHANGED <<leader, mysqlVars, databag, lockVars, faults, caught>>

--------------------------------------------------------------------------------
(* SelfHealingManager.rejoin_instance, and the same row for a join *)

(* The clusters that can take u back, by one of their members: a rejoin     *)
(* needs one that lists u.                                                  *)
Donors(u) == {v \in Units \ {u} : Quorate(v) /\ u \in metadata[v]}

(* The steps of a hook that joins its unit. *)
Joining == {"join", "add", "joining", "join-failed"}

(* The members through whose primary u works. *)
Primaries(u) == IF pc[u] \in Joining THEN {v \in Units : Quorate(v)} ELSE Donors(u)

(* The first peer that knows a cluster-set decides; it may know no primary, *)
(* or a primary whose cluster does not list this instance.                  *)
FindPrimary(u) ==
  /\ pc[u] = "rejoin"
  /\ LET answers == {v \in Units \ {u} : up[v] /\ view[v] # {}} IN
       \/ answers = {} /\ Goto(u, "idle")
       \/ \E v \in answers : Goto(u, IF v \in Donors(u) THEN "lock" ELSE "idle")
  /\ UNCHANGED <<leader, mysqlVars, databag, daemon, lockVars, faults, caught>>

AcquireLock(u) ==
  /\ pc[u] \in {"lock", "join"}
  /\ Primaries(u) # {}
  /\ Lock!Grant(u, Row)
  /\ UNCHANGED <<leader, mysqlVars, databag, daemon, pc, faults, caught>>

(* The context manager is entered, and its body is next. *)
Body(u) == IF pc[u] = "lock" THEN "attach" ELSE "add"

(* Mistake: the executor of the row is not looked at. *)
EnterUnchecked(u) ==
  /\ pc[u] \in {"lock", "join"}
  /\ inside' = [inside EXCEPT ![Row] = @ \cup {u}]
  /\ Goto(u, Body(u))
  /\ UNCHANGED <<leader, mysqlVars, databag, daemon, owner, faults, caught>>

EnterLock(u) ==
  /\ pc[u] \in {"lock", "join"}
  /\ Primaries(u) # {}
  /\ Lock!Enter(u, Row)
  /\ Goto(u, Body(u))
  /\ UNCHANGED <<leader, mysqlVars, databag, daemon, faults, caught>>

(* The handler fails.  Self-healing raises; the hook that joins is run      *)
(* again by Juju.                                                           *)
Fails(u) == IF pc[u] \in Joining THEN Goto(u, "idle") /\ UNCHANGED daemon ELSE Raise(u)

(* The row stayed with another unit, or its table could not be reached. *)
LockFails(u) ==
  /\ pc[u] \in {"lock", "join"}
  /\ Primaries(u) = {} \/ owner[Row] \notin {NoUnit, u}
  /\ Fails(u)
  /\ UNCHANGED <<leader, mysqlVars, databag, lockVars, faults, caught>>

RejoinInstance(u) ==
  /\ pc[u] = "attach"
  /\ Lock!Leave(u, Row)
  /\ IF up[u] /\ view[u] = {} /\ Donors(u) # {}
       THEN /\ \E v \in Donors(u) : Enters(u, v, metadata[v])
            /\ Goto(u, "release")
       ELSE /\ UNCHANGED <<view, metadata>>
            /\ Goto(u, "release-failed")
  /\ UNCHANGED <<leader, up, databag, daemon, faults, caught>>

(* add_instance: the cluster lists the unit from now on. *)
AddInstance(u) ==
  /\ pc[u] = "add"
  /\ Lock!Leave(u, Row)
  /\ IF up[u] /\ view[u] = {} /\ \E v \in Units : Quorate(v)
       THEN /\ \E v \in Units : Quorate(v) /\ Enters(u, v, metadata[v] \cup {u})
            /\ Goto(u, "joining")
       ELSE /\ UNCHANGED <<view, metadata>>
            /\ Goto(u, "join-failed")
  /\ UNCHANGED <<leader, up, databag, daemon, faults, caught>>

(* The finally clause; an error of the rejoining itself goes on after it. *)
ReleaseLock(u) ==
  /\ Primaries(u) # {}
  /\ Lock!Return(u, Row)
  /\ \/ pc[u] = "release" /\ Goto(u, "idle") /\ UNCHANGED daemon
     \/ pc[u] = "joining" /\ Goto(u, "joined") /\ UNCHANGED daemon
     \/ pc[u] \in {"release-failed", "join-failed"} /\ Fails(u)
  /\ UNCHANGED <<leader, mysqlVars, databag, faults, caught>>

(* ExecutionError: the row keeps its executor. *)
ReleaseFails(u) ==
  /\ pc[u] \in {"release", "release-failed", "joining", "join-failed"}
  /\ Primaries(u) = {}
  /\ Fails(u)
  /\ UNCHANGED <<leader, mysqlVars, databag, lockVars, faults, caught>>

--------------------------------------------------------------------------------
(* The rest of a handler that has begun. *)
HealStep(u) ==
  \/ ChoosePath(u)
  \/ ChoosePathFails(u)
  \/ RecoverFromOnline(u)
  \/ RecoverFromOfflineLeader(u)
  \/ RecoverFromOfflineFollower(u)
  \/ StopReplication(u)
  \/ Reboot(u)
  \/ NoReboot(u)
  \/ DropMetadata(u)
  \/ RecreateCluster(u)
  \/ RecreateFails(u)
  \/ FindPrimary(u)
  \/ AcquireLock(u)
  \/ EnterLock(u)
  \/ LockFails(u)
  \/ RejoinInstance(u)
  \/ AddInstance(u)
  \/ PublishState(u)
  \/ ReleaseLock(u)
  \/ ReleaseFails(u)

Next ==
  \/ \E S \in SUBSET Units \ {{}} : Crash(S)
  \/ \E u \in Units :
       \/ Expel(u)
       \/ UpdateStatus(u)
       \/ JoinCluster(u)
       \/ Restart(u)
       \/ StartServer(u)
       \/ StartFails(u)
       \/ OnSelfHealing(u)
       \/ HealStep(u)

Spec == Init /\ [][Next]_vars

(* A daemon that is alive emits self-healing, and a handler that began goes *)
(* on.  Juju runs update-status for ever, between those handlers, and the   *)
(* service manager restarts a server that died.                             *)
Fairness ==
  \A u \in Units :
    /\ WF_vars(HealStep(u))
    /\ WF_vars(StartServer(u) \/ OnSelfHealing(u))
    /\ WF_vars(Restart(u))
    /\ WF_vars(Expel(u))
    /\ WF_vars(JoinCluster(u))
    /\ SF_vars(UpdateStatus(u))

FairSpec == Spec /\ Fairness

--------------------------------------------------------------------------------
(* One instance at a time is added or attached, by the executor of the row, *)
(* whether it joins or rejoins, although crashed servers come back together *)
(* and handlers die with the row (add_instance, rejoin_instance, _locking). *)
OneAttaches ==
  \A u \in Units : pc[u] \in {"attach", "add"} =>
    /\ owner[Row] = u
    /\ \A v \in Units : pc[v] \in {"attach", "add"} => v = u

(* Self-healing never takes a member out of a group that has quorum: it     *)
(* looked at the cluster's state one step before it stops replication       *)
(* (_recover_from_online_leader, _recover_from_online_follower), and at the *)
(* members it sees (_recover_from_offline_leader).  This is so after one    *)
(* crash, of any number of servers: a server that crashes and returns to    *)
(* its group after its handler has looked is stopped all the same.          *)
HealthyGroupIsNotStopped ==
  [][\A u \in Units :
       (faults <= 1 /\ up'[u] /\ view[u] # {} /\ view'[u] = {}) => ~Quorate(u)]_vars

(* An OFFLINE leader reboots the cluster only in a complete outage: when    *)
(* no unit is ONLINE (docs/explanation/self-healing.md).                    *)
RecoversOnlyFromOutage ==
  \A u \in Units : pc[u] = "recover-offline" => \A v \in Units : view[v] = {}

(* There are never two groups that both take writes. *)
NoSplitBrain ==
  \A u, v \in Units : (Quorate(u) /\ Quorate(v)) => view[u] = view[v]

(* Servers that crash once, at the same time, never lead to a reboot beside *)
(* an ONLINE unit, and so never to a second group, unless a unit had just   *)
(* joined and its databag still said that it waits (_collect_peer_states,   *)
(* join_instance).                                                          *)
OneCrashNeverSplits ==
  faults <= 1 /\ ~caught => RecoversOnlyFromOutage /\ NoSplitBrain

(* All units become ONLINE members of one group again. *)
WholeClusterHeals == <>[](\A u \in Units : view[u] = Units)

(* A cluster that lost its quorum waits for the user, who decides how it    *)
(* goes on (docs/reference/troubleshooting/recover-from-quorum-loss.md and  *)
(* docs/explanation/self-healing.md): self-healing does not bring a group   *)
(* with quorum about.                                                       *)
QuorumLossAwaitsUser ==
  [](((\E u \in Units : view[u] # {}) /\ \A u \in Units : ~Quorate(u))
       => [](\A u \in Units : ~Quorate(u)))

(* A cluster that all units have joined heals by itself after any number of *)
(* its servers, all of them included, have crashed at once.                 *)
HealsAfterOneCrash ==
  ((\A u \in Units : databag[u] = "ONLINE") /\ [](faults <= 1)) => WholeClusterHeals
================================================================================
