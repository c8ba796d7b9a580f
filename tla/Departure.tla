----------------------------- MODULE Departure -----------------------------
(***************************************************************************)
(* Removal of units.  Juju detaches the storages of a unit that leaves one *)
(* after the other, and each of these hooks hands the primary over to the  *)
(* unit that says it leads, and has the primary take this unit out of the  *)
(* cluster.  The databags, the primary and the lock are shared: other      *)
(* units, leadership and the operator may change them between two calls.   *)
(*                                                                         *)
(* Simplifications:                                                        *)
(*  - servers do not crash (SelfHealing) and no unit is added              *)
(*    (ClusterFormation); a host that is there may fail to answer a call;  *)
(*  - the group elects another primary as soon as the primary is gone.     *)
(***************************************************************************)
EXTENDS Naturals, FiniteSets

CONSTANTS Servers,       \* Units of the charm
          NoServer,
          Storages,      \* Storages of a unit: archive, data, logs and temp
          MaxDepMoves    \* Promotions, changes of leadership and calls that fail

ASSUME DepartureAssumption ==
  /\ IsFiniteSet(Servers) /\ Servers # {} /\ NoServer \notin Servers
  /\ Storages \in Nat \ {0} /\ MaxDepMoves \in Nat

VARIABLES
  depLeader,  \* The unit that leads
  server,     \* The units
  listed,     \* Instances in the metadata of the cluster
  writer,     \* The primary
  holder,     \* Executor of the removal lock
  disturbed,  \* Whether something happened that the handler does not allow for
  failover,   \* Whether the group had to elect a primary
  depMoves

depVars == <<depLeader, server, listed, writer, holder, disturbed, failover, depMoves>>

(* A unit: "in", "leaving" or "gone"; its leader flag, and the flag that a  *)
(* hook is still to write; the storages still attached; the step that its   *)
(* hook has reached, with the hosts that it has read.                       *)
DepInit ==
  /\ depLeader = CHOOSE u \in Servers : TRUE
  /\ server = [u \in Servers |-> [is |-> "in", flag |-> u = depLeader, todo |-> {},
                                  left |-> Storages, step |-> "idle",
                                  host |-> NoServer, via |-> NoServer]]
  /\ listed = Servers /\ writer \in Servers
  /\ holder = NoServer /\ disturbed = FALSE /\ failover = FALSE /\ depMoves = 0

Remaining == {u \in Servers : server[u].is # "gone"}
Leaving == {u \in Servers : server[u].is = "leaving"}
DepMove == depMoves < MaxDepMoves /\ depMoves' = depMoves + 1

Step(u, from, to) == server[u].step = from /\ server' = [server EXCEPT ![u].step = to]

\* The handler returns: the storage is detached
Return(u) == [server[u] EXCEPT !.step = "idle", !.left = @ - 1, !.host = NoServer, !.via = NoServer]
Returns(u) == server' = [server EXCEPT ![u] = Return(u)]

\* An exception: Juju runs the hook again
Raises(u) == server' = [server EXCEPT ![u].step = "idle", ![u].host = NoServer, ![u].via = NoServer]

-----------------------------------------------------------------------------
(* _on_storage_detaching *)

\* _find_leader_unit: a peer whose flag is set, which the caller is not
FindLeaderUnit(u) ==
  LET flagged == {v \in Remaining \ {u} : server[v].flag}
  IN  IF flagged = {} THEN {u} ELSE flagged

(* Mistake: the primary leaves without handing its role over *)
DetachingWithoutPromotion(u) ==
  /\ server[u].is = "leaving" /\ server[u].left > 0 /\ server[u].step = "idle"
  /\ \E host \in FindLeaderUnit(u) :
       server' = [server EXCEPT ![u].host = host, ![u].step = "find"]
  /\ UNCHANGED <<depLeader, listed, writer, holder, disturbed, failover, depMoves>>

\* The flags and the role are read, where the unit is a member (initialized)
OnStorageDetaching(u) ==
  /\ server[u].is = "leaving" /\ server[u].left > 0 /\ server[u].step = "idle"
  /\ IF u \notin listed THEN Returns(u)
     ELSE \E host \in FindLeaderUnit(u) :
            server' = [server EXCEPT ![u].host = host,
                                     ![u].step = IF writer = u THEN "promote" ELSE "find"]
  /\ UNCHANGED <<depLeader, listed, writer, holder, disturbed, failover, depMoves>>

\* promote_instance: skipped if the host is the primary; a host that is not in the
\* cluster is refused, and the handler returns
PromoteInstance(u) ==
  LET host == server[u].host
  IN  /\ server[u].step = "promote"
      /\ IF host \in listed \cap Remaining
         THEN writer' = host /\ Step(u, "promote", "find") /\ UNCHANGED disturbed
         ELSE Returns(u) /\ disturbed' = TRUE /\ UNCHANGED writer
      /\ UNCHANGED <<depLeader, listed, holder, failover, depMoves>>

\* remove_instance, find_cluster_primary: asked of that host only
FindClusterPrimary(u) ==
  /\ server[u].step = "find"
  /\ IF server[u].host \in listed \cap Remaining
     THEN server' = [server EXCEPT ![u].via = writer, ![u].step = "lock"] /\ UNCHANGED disturbed
     ELSE Returns(u) /\ disturbed' = TRUE
  /\ UNCHANGED <<depLeader, listed, writer, holder, failover, depMoves>>

\* The lock is a row that only the primary can write
AcquireRemoval(u) ==
  LET via == server[u].via
  IN  /\ server[u].step = "lock"
      /\ IF via \notin Remaining \/ u \notin listed \/ writer = u
         THEN Returns(u) /\ UNCHANGED holder
         ELSE IF via = writer /\ holder \in {NoServer, u}
         THEN Step(u, "lock", "detach") /\ holder' = u
         ELSE Raises(u) /\ UNCHANGED holder
      /\ UNCHANGED <<depLeader, listed, writer, disturbed, failover, depMoves>>

\* detach_instance, through the primary that was found: with "force", whatever the
\* state of the instance
DetachInstance(u) ==
  /\ server[u].step = "detach"
  /\ Step(u, "detach", "release")
  /\ listed' = IF server[u].via = writer /\ writer # u THEN listed \ {u} ELSE listed
  /\ UNCHANGED <<depLeader, writer, holder, disturbed, failover, depMoves>>

\* The row is given back; a host that is no longer the primary refuses
ReleaseRemoval(u) ==
  /\ server[u].step = "release"
  /\ IF server[u].via # writer THEN Raises(u) /\ UNCHANGED holder
     ELSE /\ holder' = NoServer
          /\ IF u \in listed THEN Raises(u) ELSE Returns(u)
  /\ UNCHANGED <<depLeader, listed, writer, disturbed, failover, depMoves>>

-----------------------------------------------------------------------------
(* Juju *)

\* _on_leader_elected
LeaderElected(u) ==
  /\ "elected" \in server[u].todo /\ server[u].step = "idle" /\ server[u].is # "gone"
  /\ server' = [server EXCEPT ![u].todo = @ \ {"elected"}, ![u].flag = TRUE]
  /\ UNCHANGED <<depLeader, listed, writer, holder, disturbed, failover, depMoves>>

\* _on_leader_changed
LeaderSettingsChanged(u) ==
  /\ "settings" \in server[u].todo /\ server[u].step = "idle" /\ server[u].is # "gone"
  /\ server' = [server EXCEPT ![u].todo = @ \ {"settings"}, ![u].flag = FALSE]
  /\ UNCHANGED <<depLeader, listed, writer, holder, disturbed, failover, depMoves>>

Elect(u) == [v \in Servers |->
  [server[v] EXCEPT !.todo = IF v = u THEN (@ \ {"settings"}) \cup {"elected"}
                             ELSE (@ \ {"elected"}) \cup {"settings"}]]

\* Flags are out of date until the hooks have run
LeadershipMoves(u) ==
  /\ server[u].is = "in" /\ u # depLeader /\ DepMove
  /\ depLeader' = u /\ server' = Elect(u)
  /\ disturbed' = (disturbed \/ Leaving # {})
  /\ UNCHANGED <<listed, writer, holder, failover>>

\* The leader that is the primary has nobody to hand over to: see _find_leader_unit
RemoveUnit(u) ==
  /\ server[u].is = "in" /\ \E v \in Servers \ {u} : server[v].is = "in"
  /\ server' = [server EXCEPT ![u].is = "leaving"]
  /\ disturbed' = \/ disturbed \/ Leaving # {}
                  \/ \E v \in Servers : server[v].todo # {} \/ server[v].step # "idle"
                  \/ u = depLeader /\ writer = u
  /\ UNCHANGED <<depLeader, listed, writer, holder, failover, depMoves>>

\* The last storage is detached and the unit is removed; another unit leads in its place
UnitGone(u) ==
  LET rest == Remaining \ {u}
      alive == listed \cap rest
  IN  /\ server[u].is = "leaving" /\ server[u].left = 0
      /\ \E v \in IF depLeader = u THEN rest ELSE {depLeader} :
           /\ depLeader' = v
           /\ server' = [(IF v = depLeader THEN server ELSE Elect(v)) EXCEPT
                           ![u].is = "gone", ![u].todo = {}, ![u].flag = FALSE]
      /\ IF writer = u /\ alive # {} THEN writer' \in alive /\ failover' = TRUE
         ELSE UNCHANGED <<writer, failover>>
      /\ UNCHANGED <<listed, holder, disturbed, depMoves>>

\* promote-to-primary, on any unit
PromoteToPrimary(u) ==
  /\ u \in listed \cap Remaining /\ writer # u /\ DepMove
  /\ writer' = u
  /\ disturbed' = (disturbed \/ server[u].is = "leaving")
  /\ UNCHANGED <<depLeader, server, listed, holder, failover>>

\* A call that is not answered: a warning, and no primary is found
CallFails(u) ==
  /\ server[u].step = "find" /\ DepMove
  /\ Returns(u) /\ disturbed' = TRUE
  /\ UNCHANGED <<depLeader, listed, writer, holder, failover>>

DepHook(u) ==
  \/ OnStorageDetaching(u) \/ PromoteInstance(u) \/ FindClusterPrimary(u)
  \/ AcquireRemoval(u) \/ DetachInstance(u) \/ ReleaseRemoval(u)
  \/ LeaderElected(u) \/ LeaderSettingsChanged(u) \/ UnitGone(u)

DepNext ==
  \E u \in Servers :
    \/ DepHook(u)
    \/ LeadershipMoves(u) \/ RemoveUnit(u) \/ PromoteToPrimary(u) \/ CallFails(u)

-----------------------------------------------------------------------------
(* Properties *)

(* A unit that is removed is taken out of the metadata of the cluster, and  *)
(* the primary is handed over rather than lost, whatever the operator       *)
(* promotes meanwhile (_on_storage_detaching, remove_instance).  Not so if  *)
(* two units leave at once, if leadership moves while a unit leaves, if a   *)
(* call to the leader's host fails, or if the unit is the leader and the    *)
(* primary: it finds no other unit and stays listed.                        *)
RemovalIsClean ==
  ~disturbed => /\ ~failover
                /\ \A u \in Servers : server[u].is = "gone" => u \notin listed
=============================================================================
