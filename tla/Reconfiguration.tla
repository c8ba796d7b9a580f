-------------------------- MODULE Reconfiguration --------------------------
(***************************************************************************)
(* What changes the servers of a cluster that runs: configuration options, *)
(* the rolling restarts they ask for, TLS certificates and the refresh of  *)
(* the charm.                                                              *)
(*                                                                         *)
(* The hooks of a unit run one after the other, those of different units   *)
(* interleave.  A hook is one step, except where it stops a server: the    *)
(* rolling restart and the refresh of a unit are steps of their own, so    *)
(* that the other units act while a server is down.                        *)
(*                                                                         *)
(* Simplifications:                                                        *)
(*  - of the keys of the configuration file four are kept: one of each     *)
(*    kind, dynamic or static, always there or only with the audit plugin; *)
(*  - Group Replication starts with its server: a server that accepts      *)
(*    connections is recovering, or offline where no member is online;     *)
(*  - the rolling operations library keeps one lock for the application    *)
(*    and gives it to a unit that waits;                                   *)
(*  - deferred events are emitted again with the hook of the next TLS      *)
(*    event, or with a hook of their own where none is to come;            *)
(*  - self-healing and members that fail by themselves are left to the     *)
(*    module SelfHealing.                                                  *)
(***************************************************************************)
EXTENDS ServerProfile, Integers, SequencesExt

CONSTANTS N,              \* Number of units
          None,           \* No unit
          NodeMemory,     \* Memory of a machine, or of the node of a pod
          ContainerMemory,\* Memory limit of the container, 0 if there is none
          Options,        \* The combinations of options that operators set
          MaxChanges,     \* Changes of options and certificates, and refreshes
          MaxFaults       \* Errors in a behaviour

Units == 0 .. N - 1
Types == {"client", "peer"}

ASSUME ReconfigurationAssumption ==
  /\ N \in Nat \ {0} /\ None \notin Units
  /\ {NodeMemory, ContainerMemory, MaxChanges, MaxFaults} \subseteq Nat
  /\ Options \subseteq [profile : {"production", "testing"}, limit : Nat, audit : BOOLEAN]

VARIABLES
  wanted,     \* The configuration that the options of the application stand for
  pending,    \* Units with a config-changed event to come
  file,       \* The configuration file of each unit
  srv,        \* The configuration each server uses
  up,         \* Units whose server runs
  gr,         \* Replication state of each instance
  primary,    \* The primary, or None
  waiting,    \* The operations each unit waits to run
  op,         \* The operation that holds the lock: its unit and stage
  assigned,   \* Certificate assigned to each unit, by type; 0 is none
  events,     \* TLS events of each unit, the deferred ones first
  deferred,   \* How many of them have been deferred
  cursor,     \* How many of those the hook in progress has deferred again
  tls,        \* Certificate each server uses, by type
  refreshed,  \* Units that have been refreshed
  installing, \* The unit whose snap is being refreshed, or None
  refreshing, refreshes, changes, faults,
  lost,       \* Units that an error or a refresh made miss a change of options
  tlsFailed,  \* Units on which TLS could not be enabled or disabled
  overtaken,  \* Units and types for which an event was handled before an earlier one
  hasty       \* Units that released the lock while recovering, and were not online since

vars == <<wanted, pending, file, srv, up, gr, primary, waiting, op, assigned, events,
          deferred, cursor, tls, refreshed, installing, refreshing, refreshes, changes, faults,
          lost, tlsFailed, overtaken, hasty>>

groupVars == <<up, gr, primary>>
configVars == <<wanted, pending, file, srv>>
lockVars == <<op, hasty>>
queueVars == <<events, deferred, cursor, overtaken>>
tlsVars == <<assigned, queueVars, tls, tlsFailed>>
refreshVars == <<refreshed, installing, refreshing, refreshes>>

-----------------------------------------------------------------------------
(* The configuration *)

StaticKeys == {"innodb_buffer_pool_size", "group_replication_message_cache_size",
               "audit_log_filter.strategy"}
AuditKeys == {"audit_log_filter.policy", "audit_log_filter.strategy"}

Memory == GetMemory(ContainerMemory, NodeMemory)

\* build_server_config: the profile, and the audit keys where the plugin is enabled
BuildServerConfig(o) ==
  LET c == GetConfig(o.profile, LimitMemory(Memory, o.limit), 0)
      keys == {"max_connections", "innodb_buffer_pool_size",
               "group_replication_message_cache_size"} \cup (IF o.audit THEN AuditKeys ELSE {})
  IN  [k \in keys |-> CASE k = "max_connections" -> c.connections
                        [] k = "innodb_buffer_pool_size" -> c.pool
                        [] k = "group_replication_message_cache_size" -> c.cache
                        [] OTHER -> 1]

\* The keys of one configuration alone, and those with two values
ComputeDiff(old, new) ==
  LET same == DOMAIN old \cap DOMAIN new
  IN  ((DOMAIN old \cup DOMAIN new) \ same) \cup {k \in same : old[k] # new[k]}

CheckStaticKey(keys) == keys \cap StaticKeys # {}
FilterStaticKeys(keys) == keys \ StaticKeys

\* What a server that starts reads: a key that is not in the file has its default, 0
Loaded(f) == [k \in DOMAIN f \cup AuditKeys |-> IF k \in DOMAIN f THEN f[k] ELSE 0]

\* The options that matter: the memory profile and its limit, and the audit plugin
Defaults == [profile |-> "production", limit |-> 0, audit |-> TRUE]

-----------------------------------------------------------------------------
(* Hooks and replication *)

Idle == [unit |-> None, stage |-> "none"]
Busy(u) == op.unit = u \/ installing = u
Free(u) == ~Busy(u) /\ cursor[u] = 0   \* No hook of the unit is in progress
Fault == faults < MaxFaults /\ faults' = faults + 1
Change == changes < MaxChanges /\ changes' = changes + 1
Initialized(u) == u \in up

Online == {u \in Units : gr[u] = "ONLINE"}

\* A server that stops leaves the group, which elects a primary if it was the primary
StopServer(u) ==
  /\ up' = up \ {u}
  /\ gr' = [gr EXCEPT ![u] = "OFFLINE"]
  /\ IF primary # u THEN UNCHANGED primary
     ELSE IF Online = {u} THEN primary' = None ELSE primary' \in Online \ {u}

\* A server that starts reads its file and joins the group, if there is one
StartServer(u) ==
  /\ up' = up \cup {u}
  /\ srv' = [srv EXCEPT ![u] = Loaded(file[u])]
  /\ gr' = [gr EXCEPT ![u] = IF Online = {} THEN "OFFLINE" ELSE "RECOVERING"]
  /\ UNCHANGED primary

\* A member that recovers needs an online member as its donor
Recovered(u) ==
  /\ gr[u] = "RECOVERING"
  /\ gr' = [gr EXCEPT ![u] = IF Online = {} THEN "OFFLINE" ELSE "ONLINE"]
  /\ hasty' = IF Online = {} THEN hasty ELSE hasty \ {u}
  /\ UNCHANGED <<up, primary, configVars, tlsVars, refreshVars, waiting, op, changes, faults,
                 lost>>

\* The service manager of the machine or pod starts a server that is down
ServiceStarts(u) ==
  /\ u \notin up /\ ~Busy(u) /\ StartServer(u)
  /\ UNCHANGED <<wanted, pending, file, tlsVars, refreshVars, waiting, lockVars, changes, faults, lost>>

Init ==
  /\ wanted = BuildServerConfig(Defaults)
  /\ pending = {}
  /\ file = [u \in Units |-> wanted]
  /\ srv = [u \in Units |-> Loaded(wanted)]
  /\ up = Units /\ gr = [u \in Units |-> "ONLINE"] /\ primary \in Units
  /\ waiting = [u \in Units |-> {}] /\ op = Idle
  /\ assigned = [u \in Units |-> [t \in Types |-> 0]]
  /\ events = [u \in Units |-> <<>>]
  /\ deferred = [u \in Units |-> 0] /\ cursor = [u \in Units |-> 0] /\ overtaken = {}
  /\ tls = [u \in Units |-> [t \in Types |-> 0]]
  /\ refreshed = {} /\ installing = None /\ refreshing = FALSE
  /\ changes = 0 /\ faults = 0 /\ refreshes = 0 /\ lost = {} /\ tlsFailed = {}
  /\ hasty = {}

-----------------------------------------------------------------------------
(* config-changed *)

\* The operator changes options; every unit is to run config-changed
SetOptions ==
  /\ Change /\ pending' = Units
  /\ \E o \in Options : wanted' = BuildServerConfig(o) /\ wanted' # wanted
  /\ UNCHANGED <<file, srv, groupVars, tlsVars, refreshVars, waiting, lockVars, faults, lost>>

\* The keys are applied one by one, in any order, to a server that runs; a dynamic key
\* that the new configuration lacks has no value to apply
CanApply(u, keys) == keys = {} \/ (u \in up /\ keys \subseteq DOMAIN wanted)

(* Mistake: the old configuration is loaded after the new one was saved *)
ApplyLoadingLate(u) ==
  /\ file' = [file EXCEPT ![u] = wanted]
  /\ UNCHANGED <<srv, waiting, faults, lost>>

\* The file is saved, then the dynamic keys are applied, then the restart is requested.
\* An error on the way ends the hook; Juju runs it again, and finds no difference
ApplyConfig(u) ==
  LET diff == ComputeDiff(file[u], wanted)
      dynamic == FilterStaticKeys(diff)
      Applied(keys) == [srv EXCEPT ![u] = [k \in DOMAIN @ |-> IF k \in keys THEN wanted[k] ELSE @[k]]]
  IN  /\ file' = [file EXCEPT ![u] = wanted]
      /\ \/ /\ CanApply(u, dynamic)
            /\ srv' = Applied(dynamic)
            /\ waiting' = IF Initialized(u) /\ CheckStaticKey(diff)
                          THEN [waiting EXCEPT ![u] = @ \cup {"restart"}] ELSE waiting
            /\ UNCHANGED <<faults, lost>>
         \/ /\ dynamic # {}
            /\ IF CanApply(u, dynamic) THEN Fault ELSE UNCHANGED faults
            /\ \E keys \in SUBSET (dynamic \cap DOMAIN wanted) :
                 keys # dynamic /\ (keys = {} \/ u \in up) /\ srv' = Applied(keys)
            /\ lost' = lost \cup {u}
            /\ UNCHANGED waiting

\* Nothing is done while the charm is refreshing, then or later
OnConfigChanged(u) ==
  /\ u \in pending /\ Free(u) /\ pending' = pending \ {u}
  /\ IF refreshing THEN lost' = lost \cup {u} /\ UNCHANGED <<file, srv, waiting, faults>>
     ELSE ApplyConfig(u)
  /\ UNCHANGED <<wanted, groupVars, tlsVars, refreshVars, lockVars, changes>>

-----------------------------------------------------------------------------
(* Rolling operations *)

\* Whether another unit waits to run the callback
WaitingOps(u, callback) == \E v \in Units \ {u} : callback \in waiting[v]

(* Mistake: every unit gives way to the others, not only the primary *)
EveryUnitGivesWay(u, callback) ==
  /\ op = Idle /\ callback \in waiting[u] /\ Free(u)
  /\ u \in up
  /\ ~WaitingOps(u, callback)

(* Mistake: the operation is run by the hook that asks for it, without the lock *)
RunAtOnce(u, callback) == callback \in waiting[u] /\ Free(u) /\ u \in up

\* The unit has the lock and goes on: its server runs, and if it is the primary no
\* other unit waits; otherwise it releases the lock and keeps waiting
MayRun(u, callback) ==
  /\ op = Idle /\ callback \in waiting[u] /\ Free(u)
  /\ u \in up
  /\ ~(primary = u /\ WaitingOps(u, callback))

Done(u, callback) == waiting' = [waiting EXCEPT ![u] = @ \ {callback}]

RestartInstance(u) ==
  /\ MayRun(u, "restart")
  /\ StopServer(u) /\ op' = [unit |-> u, stage |-> "stopped"]
  /\ UNCHANGED <<configVars, tlsVars, refreshVars, waiting, changes, faults, lost, hasty>>

\* A start that fails ends the hook; the next one finds that no server runs
StartInstance(u) ==
  /\ op = [unit |-> u, stage |-> "stopped"]
  /\ \/ /\ StartServer(u) /\ op' = [op EXCEPT !.stage = "started"]
        /\ UNCHANGED <<faults, lost>>
     \/ /\ Fault /\ op' = Idle /\ lost' = lost \cup {u}
        /\ UNCHANGED <<groupVars, srv>>
  /\ UNCHANGED <<wanted, pending, file, tlsVars, refreshVars, waiting, changes, hasty>>

\* The only unit reboots its cluster; otherwise the instance must be listed in its group.
\* wait_recovering looks at the instance until it is not recovering; one that is not
\* recovering yet, or does not answer, ends it as well.  An instance is listed once it
\* takes part in the group, so that the lock may be released before the recovery is over;
\* one that stays out of its group is an error: the operation is not over
RecoverInstance(u) ==
  /\ op = [unit |-> u, stage |-> "started"] /\ op' = Idle
  /\ IF N = 1
     THEN gr' = [gr EXCEPT ![u] = "ONLINE"] /\ primary' = u /\ Done(u, "restart")
     ELSE /\ IF gr[u] = "OFFLINE" THEN UNCHANGED waiting ELSE Done(u, "restart")
          /\ UNCHANGED <<gr, primary>>
  /\ hasty' = IF N > 1 /\ gr[u] = "RECOVERING" THEN hasty \cup {u} ELSE hasty
  /\ UNCHANGED <<up, configVars, tlsVars, refreshVars, changes, faults, lost>>

\* The instance is joined again through the primary; without one nothing is done, and
\* the operation is over all the same
RestartCluster(u) ==
  /\ MayRun(u, "replication") /\ Done(u, "replication")
  /\ gr' = IF primary # None /\ gr[u] = "OFFLINE" THEN [gr EXCEPT ![u] = "RECOVERING"] ELSE gr
  /\ UNCHANGED <<up, primary, configVars, tlsVars, refreshVars, lockVars, changes, faults, lost>>

-----------------------------------------------------------------------------
(* TLS *)

BadPaths == -1   \* Certificate paths that lead nowhere

NoneLeft(u, t) == \A i \in 1 .. Len(events[u]) : events[u][i][2] # t

\* The provider assigns a new certificate to a unit
IssueCertificate(u, t) ==
  /\ Change
  /\ assigned' = [assigned EXCEPT ![u][t] = changes + 1]
  /\ events' = [events EXCEPT ![u] = Append(@, <<"available", t>>)]
  /\ overtaken' = IF NoneLeft(u, t) THEN overtaken \ {<<u, t>>} ELSE overtaken
  /\ UNCHANGED <<deferred, cursor, configVars, groupVars, tls, tlsFailed, refreshVars, waiting,
                 lockVars, faults, lost>>

\* The relation with the provider is removed: every unit is to disable TLS
BreakRelation(t) ==
  /\ \E u \in Units : assigned[u][t] # 0
  /\ Change
  /\ assigned' = [u \in Units |-> [assigned[u] EXCEPT ![t] = 0]]
  /\ events' = [u \in Units |-> Append(events[u], <<"broken", t>>)]
  /\ overtaken' = overtaken \ {<<u, t>> : u \in {v \in Units : NoneLeft(v, t)}}
  /\ UNCHANGED <<deferred, cursor, configVars, groupVars, tls, tlsFailed, refreshVars, waiting,
                 lockVars, faults, lost>>

\* A hook emits the deferred events again, from the first, and then its own
Emitted(u, event) ==
  /\ ~Busy(u)
  /\ cursor[u] < Len(events[u]) /\ events[u][cursor[u] + 1] = event

\* The hook goes on with the next event after a deferred one, and ends with its own
HookGoesOn(u) == cursor[u] < deferred[u] /\ cursor[u] + 1 < Len(events[u])

\* The event is handled, perhaps before an earlier one that is still deferred
Handled(u) ==
  LET k == cursor[u] + 1
      t == events[u][k][2]
  IN  /\ events' = [events EXCEPT ![u] = RemoveAt(@, k)]
      /\ deferred' = [deferred EXCEPT ![u] = IF k <= @ THEN @ - 1 ELSE @]
      /\ cursor' = [cursor EXCEPT ![u] = IF HookGoesOn(u) THEN @ ELSE 0]
      /\ overtaken' = IF \E i \in 1 .. cursor[u] : events[u][i][2] = t
                      THEN overtaken \cup {<<u, t>>} ELSE overtaken

\* The event is deferred, for the first time or again: it is emitted again with the next
\* hook, but the events after it are not held back
Deferred(u) ==
  LET k == cursor[u] + 1
  IN  /\ deferred' = [deferred EXCEPT ![u] = IF k <= @ THEN @ ELSE k]
      /\ cursor' = [cursor EXCEPT ![u] = IF HookGoesOn(u) THEN k ELSE 0]
      /\ UNCHANGED <<events, overtaken>>

\* The peer handler asks for the replication restart whatever became of the event
RequestReplication(u, t) ==
  waiting' = IF t = "peer" THEN [waiting EXCEPT ![u] = @ \cup {"replication"}] ELSE waiting

(* Mistake: the certificate is enabled without looking at the server, which loses it *)
AvailableNotDeferred(u, t) ==
  /\ Emitted(u, <<"available", t>>)
  /\ RequestReplication(u, t) /\ Handled(u)
  /\ tls' = IF u \in up THEN [tls EXCEPT ![u][t] = assigned[u][t]] ELSE tls
  /\ UNCHANGED <<assigned, tlsFailed, configVars, groupVars, refreshVars, lockVars, changes,
                 faults, lost>>

\* set_client_tls, set_group_tls: with the paths of files that were not saved, if the
\* provider is gone by then
EnabledTls(u, t) == IF assigned[u][t] = 0 THEN BadPaths ELSE assigned[u][t]

\* Deferred where the server does not run or a file cannot be written.  The certificate
\* that is saved and enabled is the one assigned by then; an error leaves TLS as it is
OnCertificateAvailable(u, t) ==
  /\ Emitted(u, <<"available", t>>)
  /\ RequestReplication(u, t)
  /\ \/ u \notin up /\ Deferred(u) /\ UNCHANGED <<tls, tlsFailed, faults>>
     \/ u \in up /\ Fault /\ Deferred(u) /\ UNCHANGED <<tls, tlsFailed>>
     \/ /\ u \in up /\ Handled(u)
        /\ \/ /\ tls' = [tls EXCEPT ![u][t] = EnabledTls(u, t)]
              /\ UNCHANGED <<faults, tlsFailed>>
           \/ Fault /\ tlsFailed' = tlsFailed \cup {u} /\ UNCHANGED tls
  /\ UNCHANGED <<assigned, configVars, groupVars, refreshVars, lockVars, changes, lost>>

\* Deferred where the server does not run
OnRelationBroken(u, t) ==
  /\ Emitted(u, <<"broken", t>>)
  /\ \/ u \notin up /\ Deferred(u) /\ UNCHANGED <<tls, tlsFailed, faults>>
     \/ /\ u \in up /\ Handled(u)
        /\ \/ tls' = [tls EXCEPT ![u][t] = 0] /\ UNCHANGED <<faults, tlsFailed>>
           \/ Fault /\ tlsFailed' = tlsFailed \cup {u} /\ UNCHANGED tls
  /\ UNCHANGED <<assigned, configVars, groupVars, refreshVars, waiting, lockVars, changes, lost>>

-----------------------------------------------------------------------------
(* The refresh of the charm on machines *)

\* The pre-refresh checks: every instance is online; the unit that runs the checks
\* becomes the primary.  The refresh begins
StartRefresh(u) ==
  /\ Change /\ ~refreshing /\ Free(u)
  /\ Online = Units
  /\ primary' = u /\ refreshing' = TRUE /\ refreshes' = refreshes + 1
  /\ UNCHANGED <<up, gr, refreshed, installing, configVars, tlsVars, waiting, lockVars, faults, lost>>

\* next_unit_allowed_to_refresh is set by the first hook after the server was started
NextUnitAllowed(u) ==
  /\ installing = None
  /\ u \notin refreshed /\ \A v \in Units \ refreshed : v <= u

\* refresh_snap: the server is stopped, the new snap installed, the server started
RefreshSnap(u) ==
  /\ refreshing /\ NextUnitAllowed(u) /\ Free(u)
  /\ StopServer(u) /\ installing' = u
  /\ UNCHANGED <<configVars, tlsVars, refreshed, refreshing, refreshes, waiting, lockVars, changes,
                 faults, lost>>

SnapRefreshed(u) ==
  /\ installing = u /\ installing' = None
  /\ StartServer(u)
  /\ refreshed' = IF refreshed \cup {u} = Units THEN {} ELSE refreshed \cup {u}
  /\ refreshing' = (refreshed \cup {u} # Units)
  /\ UNCHANGED <<wanted, pending, file, tlsVars, refreshes, waiting, lockVars, changes, faults, lost>>

-----------------------------------------------------------------------------

TlsHook(u) == \E t \in Types : OnCertificateAvailable(u, t) \/ OnRelationBroken(u, t)

GoesOn(u) == StartInstance(u) \/ RecoverInstance(u) \/ SnapRefreshed(u)

Rolling(u) == RestartInstance(u) \/ RestartCluster(u)

Next ==
  \/ SetOptions
  \/ \E t \in Types : BreakRelation(t) \/ \E u \in Units : IssueCertificate(u, t)
  \/ \E u \in Units : \/ OnConfigChanged(u) \/ TlsHook(u) \/ GoesOn(u) \/ Rolling(u)
                      \/ Recovered(u) \/ ServiceStarts(u) \/ StartRefresh(u) \/ RefreshSnap(u)

\* Hooks are run and go on, members recover; a unit that keeps asking for the lock is
\* given it, and the events of a unit have their turn between those emitted again
Fairness ==
  \A u \in Units : /\ WF_vars(TlsHook(u)) /\ WF_vars(GoesOn(u)) /\ WF_vars(Recovered(u))
                   /\ SF_vars(OnConfigChanged(u)) /\ SF_vars(Rolling(u))

Spec == Init /\ [][Next]_vars /\ Fairness

-----------------------------------------------------------------------------
(* Properties *)

Quiet == lost = {} /\ refreshes = 0

\* Rolling restarts leave some member online to serve and to be the donor of the others,
\* whatever the order in which units ask and are given the lock, unless all units but one
\* have given the lock up before they were online again (restart_instance,
\* recover_instance)
SomeMemberOnline ==
  Quiet /\ Online = {} => \E u \in Units : Units \ {u} \subseteq hasty

\* A server whose TLS events have all been handled uses the certificate assigned to it,
\* or none after the relation is gone, also where events had to wait for the server; if
\* an event overtook an earlier one of its type, the next change puts that right
\* (_on_certificate_available, _on_relation_broken)
TlsFollowsRelation ==
  \A u \in Units, t \in Types :
    events[u] = <<>> /\ u \notin tlsFailed /\ <<u, t>> \notin overtaken
      => tls[u][t] = assigned[u][t]

\* The buffer pool and the message cache that a unit is configured with fit in the
\* memory of its machine or container, whatever the profile and the limit
\* (calculate_buffer_pool, build_server_config)
PoolFits ==
  \A u \in Units :
    file[u]["innodb_buffer_pool_size"] + file[u]["group_replication_message_cache_size"] <= Memory

\* Every server ends up with the configuration that the options ask for, restarted where
\* a static key changed, unless an error or a refresh made a unit miss the change
\* (apply_config, check_restart)
ConfigConverges ==
  <>[](~Quiet \/ \A u \in Units : srv[u] = Loaded(wanted))

\* No unit waits for ever to run its operation: the primary lets the others go first,
\* and nobody waits for the primary; an outage is left to self-healing (restart_instance,
\* restart_cluster)
OperationsEnd ==
  \A u \in Units : waiting[u] # {} ~> (waiting[u] = {} \/ ~Quiet \/ Online = {})
=============================================================================
