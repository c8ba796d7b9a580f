------------------------------- MODULE Backup -------------------------------
(***************************************************************************)
(* The create-backup, list-backups and restore actions of the charm.       *)
(*                                                                         *)
(* Every unit runs one action at a time; the actions of different units    *)
(* interleave.  An action is a program counter, act[u].stage, that walks   *)
(* through the calls of the handler which have an effect outside it: the   *)
(* objects put in the S3 bucket, the isolation of the instance from the    *)
(* cluster and, for a restoration, the directories of the server.          *)
(* Between its actions a unit runs the self-healing handler, which starts  *)
(* a server that does not run on whatever its data directory holds.        *)
(*                                                                         *)
(* Simplifications:                                                        *)
(*  - a backup ID is the second in which it was requested, as in the code; *)
(*    the bucket keeps, per ID, which of the four kinds of object exist;   *)
(*  - the names, commands and arguments of xtrabackup and xbcloud are left *)
(*    out, their exit status is an outcome of the step;                    *)
(*  - errors, other exceptions and dying hooks are bounded by MaxFaults,   *)
(*    moves of the primary and of the members by MaxMoves.                 *)
(***************************************************************************)
EXTENDS Naturals, FiniteSets

CONSTANTS Units,        \* The units of the application
          Live, Lost,   \* A data directory the server wrote, and an emptied one
          Torn,         \* One with a part of the data, or with a part of a copy
          MaxSecond,    \* Last second of the clock
          MaxFaults,    \* Errors, exceptions and dying hooks in a behaviour
          MaxRequests,  \* Actions run in a behaviour
          MaxMoves      \* Changes of the topology in a behaviour

ASSUME BackupAssumption == /\ IsFiniteSet(Units) /\ Units # {}
                           /\ MaxSecond \in Nat \ {0}
                           /\ Live # Lost /\ Live # Torn /\ Lost # Torn
                           /\ {Live, Lost, Torn} \cap (1 .. MaxSecond) = {}
                           /\ {MaxFaults, MaxRequests, MaxMoves} \subseteq Nat

VARIABLES
  related,     \* The backup storage is related and has been configured
  clock,       \* The current second
  members,     \* Units of the application, all of them cluster members
  primary,     \* The cluster primary
  running,     \* Units whose server runs
  known,       \* Units whose data directory has the metadata of the cluster
  online,      \* Instances whose replication state is ONLINE
  hidden,      \* Instances with the tag _hidden
  offline,     \* Instances with offline_mode
  data,        \* The contents of each data directory: Live, Lost, Torn or the ID of a backup
  temp,        \* The contents of each temporary directory: "xtra_backup" (the directory
               \* of a backup), "partial" (a download not fit to restore), "prepared"
  store,       \* By backup ID, its "metadata", "chunks", "md5" and "log" in the bucket
  act,         \* The action each unit runs
  reported,    \* The backup IDs that an action returned as created
  faults, requests, moves,
  disturbed,   \* Units with an isolation that an error or a crash disturbed
  swallowed    \* Backup IDs for which an exception was suppressed

vars == <<related, clock, members, primary, running, known, online, hidden, offline, data,
          temp, store, act, reported, faults, requests, moves, disturbed, swallowed>>

Ids == 1 .. MaxSecond

Idle == [stage |-> "idle", id |-> 1, force |-> FALSE, isolated |-> FALSE,
         result |-> "ok"]

Init ==
  /\ related = FALSE /\ clock = 1
  /\ primary = (CHOOSE u \in Units : TRUE) /\ members \in {{primary}, Units}
  /\ running = members /\ known = members /\ online = members
  /\ hidden = {} /\ offline = {}
  /\ data = [u \in Units |-> Live]
  /\ temp = [u \in Units |-> {}]
  /\ store = [i \in Ids |-> {}]
  /\ act = [u \in Units |-> Idle]
  /\ reported = {} /\ swallowed = {}
  /\ faults = 0 /\ requests = 0 /\ moves = 0
  /\ disturbed = {}

-----------------------------------------------------------------------------
(* Guards *)

\* The server runs and its metadata knows the cluster (EventHelpers.initialized)
Initialized(u) == u \in running \cap known

\* The status MySQL Shell gives a cluster, as far as check_cluster reads it: a group
\* that cannot lose an instance is OK_NO_TOLERANCE, with or without absent instances
ClusterStatus ==
  IF Cardinality(online) < 3 THEN "OK_NO_TOLERANCE"
  ELSE IF online = members THEN "OK" ELSE "OK_PARTIAL"

\* check_cluster: a healthy cluster, no instance of it both hidden and in offline mode
CheckCluster ==
  /\ ClusterStatus \in {"OK", "OK_PARTIAL"}
  /\ hidden \cap offline = {}

\* An ONLINE instance that is not the primary of others (check_instance)
CheckInstance(u) == u \in online /\ (u = primary => Cardinality(members) = 1)

\* from_storage: what the objects of a backup say about it
BackupStatus(id) ==
  IF "md5" \in store[id] THEN "finished"
  ELSE IF "log" \in store[id] THEN "failed" ELSE "in progress"

\* collect_backups: every ID with a metadata object, with its status
CollectBackups == {<<id, BackupStatus(id)>> : id \in {i \in Ids : "metadata" \in store[i]}}

\* What list-backups answers
ListBackups == IF related THEN CollectBackups ELSE {}

\* check_backup: the md5 object can be read
CheckBackup(id) == "md5" \in store[id]

-----------------------------------------------------------------------------
(* Steps shared by the actions *)

At(u, stage) == act[u].stage = stage
Goto(u, stage) == act' = [act EXCEPT ![u].stage = stage]
Finish(u) == act' = [act EXCEPT ![u] = Idle]
AddTemp(u, what) == temp' = [temp EXCEPT ![u] = @ \cup {what}]
RemoveBackup(u) == temp' = [temp EXCEPT ![u] = @ \ {"xtra_backup"}]
Put(id, kinds) == store' = [store EXCEPT ![id] = @ \cup kinds]
Fault == faults < MaxFaults /\ faults' = faults + 1
Request == requests < MaxRequests /\ requests' = requests + 1

clusterVars == <<related, clock, members, primary, running, known, online, requests, moves>>
isolationVars == <<hidden, offline, disturbed>>
dataVars == <<data, temp>>
resultVars == <<reported, swallowed>>

\* The bucket parameters arrive over the relation and the storage is configured
Configure ==
  /\ ~related /\ related' = TRUE
  /\ UNCHANGED <<clock, members, primary, running, known, online, requests, moves,
                 isolationVars, dataVars, resultVars, store, act, faults>>

-----------------------------------------------------------------------------
(* create-backup *)

\* The checks, which force overrides, and the ID: the second of the request
CreateBackup(u, force) ==
  /\ Request /\ At(u, "idle") /\ related /\ Initialized(u)
  /\ force \/ (CheckCluster /\ CheckInstance(u))
  /\ act' = [act EXCEPT ![u] = [Idle EXCEPT !.stage = "checked", !.id = clock,
                                            !.force = force]]
  /\ UNCHANGED <<related, clock, members, primary, running, known, online, moves, isolationVars,
                 dataVars, resultVars, store, faults>>

\* The metadata object is uploaded first; on any exception the action fails
UploadMetadata(u) ==
  /\ At(u, "checked")
  /\ \/ Put(act[u].id, {"metadata"}) /\ Goto(u, "described") /\ UNCHANGED faults
     \/ Fault /\ Finish(u) /\ UNCHANGED store
  /\ UNCHANGED <<clusterVars, isolationVars, dataVars, resultVars>>

\* isolate_instance up to its yield: the only instance is not isolated, unless the
\* topology cannot be read, which reads as no instance; an error of either statement is
\* logged and the backup goes on, the tag set or not
IsolateInstance(u) ==
  /\ At(u, "described")
  /\ \/ /\ Cardinality(members) = 1
        /\ Goto(u, "isolated")
        /\ UNCHANGED <<isolationVars, faults>>
     \/ /\ (Cardinality(members) > 1 /\ UNCHANGED faults) \/ Fault
        /\ hidden' = hidden \cup {u} /\ offline' = offline \cup {u}
        /\ act' = [act EXCEPT ![u].stage = "isolated", ![u].isolated = TRUE]
        /\ UNCHANGED disturbed
     \/ /\ Fault /\ Goto(u, "isolated")
        /\ \/ UNCHANGED hidden
           \/ hidden' = hidden \cup {u}
        /\ disturbed' = disturbed \cup {u}
        /\ UNCHANGED offline
  /\ UNCHANGED <<clusterVars, dataVars, resultVars, store>>

(* Mistake: the exception leaves the context manager at its yield *)
EscapeUncaught(u) == Finish(u) /\ UNCHANGED swallowed

\* An exception the handler does not name: suppressed by isolate_instance where the
\* instance is isolated, so that the action goes on to report; fatal elsewhere
Escape(u) ==
  IF act[u].isolated
  THEN /\ Goto(u, "leaving")
       /\ swallowed' = swallowed \cup {act[u].id}
  ELSE Finish(u) /\ UNCHANGED swallowed

(* Mistake: the exit status of xtrabackup alone decides *)
StreamBackupIgnoringPipe(u) ==
  /\ At(u, "isolated")
  /\ AddTemp(u, "xtra_backup")
  /\ Goto(u, "streamed")
  /\ \/ Put(act[u].id, {"chunks", "md5"}) /\ UNCHANGED faults
     \/ Fault /\ Put(act[u].id, {"chunks"})
  /\ UNCHANGED <<clusterVars, isolationVars, data, reported, swallowed>>

\* The pipe from xtrabackup to xbcloud: xbcloud ends with the md5 object; either
\* process may fail, with the md5 object uploaded already or not
StreamBackup(u) ==
  /\ At(u, "isolated")
  /\ AddTemp(u, "xtra_backup")
  /\ \/ /\ Put(act[u].id, {"chunks", "md5"}) /\ Goto(u, "streamed")
        /\ UNCHANGED <<swallowed, faults>>
     \/ /\ Fault
        /\ \E kinds \in {{"chunks"}, {"chunks", "md5"}} : Put(act[u].id, kinds)
        /\ act' = [act EXCEPT ![u].stage = "leaving", ![u].result = "failed"]
        /\ UNCHANGED swallowed
     \/ Fault /\ Escape(u) /\ UNCHANGED store
  /\ UNCHANGED <<clusterVars, isolationVars, data, reported>>

\* The log object, and the temporary directory of the backup removed
UploadLog(u) ==
  /\ At(u, "streamed")
  /\ \/ /\ Put(act[u].id, {"log"})
        /\ RemoveBackup(u)
        /\ Goto(u, "leaving")
        /\ UNCHANGED <<swallowed, faults>>
     \/ /\ Fault /\ Put(act[u].id, {"log"})
        /\ act' = [act EXCEPT ![u].stage = "leaving", ![u].result = "failed"]
        /\ UNCHANGED <<temp, swallowed>>
     \/ Fault /\ Escape(u) /\ UNCHANGED <<store, temp>>
  /\ UNCHANGED <<clusterVars, isolationVars, data, reported>>

(* Mistake: a failed backup returns without leaving the isolation *)
LeaveOnSuccess(u) ==
  /\ At(u, "leaving") /\ Finish(u)
  /\ IF act[u].isolated /\ act[u].result = "ok"
     THEN hidden' = hidden \ {u} /\ offline' = offline \ {u}
     ELSE UNCHANGED <<hidden, offline>>
  /\ reported' = IF act[u].result = "ok" THEN reported \cup {act[u].id} ELSE reported
  /\ UNCHANGED <<clusterVars, disturbed, dataVars, swallowed, store, faults>>

\* isolate_instance after its yield, and the result of the action: offline mode is
\* left first, then the tag; an error is logged
LeaveIsolation(u) ==
  /\ At(u, "leaving") /\ Finish(u)
  /\ \/ /\ act[u].isolated
        /\ hidden' = hidden \ {u} /\ offline' = offline \ {u}
        /\ UNCHANGED <<disturbed, faults>>
     \/ /\ act[u].isolated /\ Fault
        /\ offline' \in {offline, offline \ {u}}
        /\ disturbed' = disturbed \cup {u}
        /\ UNCHANGED hidden
     \/ ~act[u].isolated /\ UNCHANGED <<isolationVars, faults>>
  /\ reported' = IF act[u].result = "ok" THEN reported \cup {act[u].id} ELSE reported
  /\ UNCHANGED <<clusterVars, dataVars, swallowed, store>>

-----------------------------------------------------------------------------
(* restore *)

(* Mistake: any ID of the bucket will do *)
RestoreUnchecked(u, id) ==
  /\ Request /\ At(u, "idle") /\ related /\ Initialized(u)
  /\ members = {u}
  /\ store[id] # {}
  /\ act' = [act EXCEPT ![u] = [Idle EXCEPT !.stage = "fetching", !.id = id]]
  /\ UNCHANGED <<related, clock, members, primary, running, known, online, moves, isolationVars,
                 dataVars, resultVars, store, faults>>

\* Only where one unit is planned, and only a backup whose md5 object exists
RestoreBackup(u, id) ==
  /\ Request /\ At(u, "idle") /\ related /\ Initialized(u)
  /\ members = {u}
  /\ CheckBackup(id)
  /\ act' = [act EXCEPT ![u] = [Idle EXCEPT !.stage = "fetching", !.id = id]]
  /\ UNCHANGED <<related, clock, members, primary, running, known, online, moves, isolationVars,
                 dataVars, resultVars, store, faults>>

\* A step of the restoration, from one stage to the next; or its error ends the action
Stage(u, from, to) ==
  /\ At(u, from)
  /\ (Goto(u, to) /\ UNCHANGED faults) \/ (Finish(u) /\ Fault)

\* The pipe from xbcloud to xbstream fills a new directory
DownloadBackup(u) ==
  /\ Stage(u, "fetching", "preparing")
  /\ AddTemp(u, "partial")
  /\ UNCHANGED <<clusterVars, isolationVars, resultVars, data, store>>

(* Mistake: an error of the preparation is only logged *)
PrepareIgnoringErrors(u) ==
  /\ At(u, "preparing") /\ Goto(u, "stopping")
  /\ \/ AddTemp(u, "prepared") /\ UNCHANGED faults
     \/ UNCHANGED temp /\ Fault
  /\ UNCHANGED <<clusterVars, isolationVars, resultVars, data, store>>

\* xtrabackup makes the downloaded files consistent
PrepareBackup(u) ==
  /\ Stage(u, "preparing", "stopping")
  /\ IF At(u, "idle")' THEN UNCHANGED temp ELSE AddTemp(u, "prepared")
  /\ UNCHANGED <<clusterVars, isolationVars, resultVars, data, store>>

\* The server is stopped: its replication ends, offline_mode is not persisted; a unit
\* that joined since the check of the handler is elected
StopServer(u) ==
  /\ At(u, "stopping") /\ Goto(u, "resetting")
  /\ running' = running \ {u} /\ online' = online \ {u} /\ offline' = offline \ {u}
  /\ primary' \in (IF online' = {} THEN {primary} ELSE online')
  /\ UNCHANGED <<related, clock, members, known, requests, moves, hidden, disturbed,
                 dataVars, resultVars, store, faults>>

\* A deletion that fails leaves a part of the data
ResetDataDir(u) ==
  /\ Stage(u, "resetting", "clearing")
  /\ data' = [data EXCEPT ![u] = IF At(u, "idle")' THEN Torn ELSE Lost]
  /\ UNCHANGED <<clusterVars, isolationVars, resultVars, temp, store>>

ResetLogsDir(u) ==
  /\ Stage(u, "clearing", "moving")
  /\ UNCHANGED <<clusterVars, isolationVars, resultVars, dataVars, store>>

\* xtrabackup moves the prepared copy to the data directory; when it fails part of the
\* copy has been moved, and nothing is left that could be prepared again
MoveBack(u) ==
  /\ Stage(u, "moving", "cleaning")
  /\ temp' = [temp EXCEPT ![u] = @ \ {"prepared"}]
  /\ data' = [data EXCEPT ![u] = IF At(u, "idle")' THEN Torn ELSE act[u].id]
  /\ UNCHANGED <<clusterVars, isolationVars, resultVars, store>>

ResetTempDir(u) ==
  /\ Stage(u, "cleaning", "starting")
  /\ IF At(u, "idle")' THEN UNCHANGED temp ELSE temp' = [temp EXCEPT ![u] = {}]
  /\ UNCHANGED <<clusterVars, isolationVars, resultVars, data, store>>

StartServer(u) ==
  /\ At(u, "starting") /\ Goto(u, "recreating")
  /\ running' = running \cup {u}
  /\ UNCHANGED <<related, clock, members, primary, known, online, requests, moves,
                 isolationVars, dataVars, resultVars, store, faults>>

\* A cluster is created from the instance, in place of the metadata that the data
\* directory came with and without the tag; an error leaves either metadata or none
CreateCluster(u) ==
  \/ /\ online' = online \cup {u} /\ hidden' = hidden \ {u}
     /\ UNCHANGED <<known, faults>>
  \/ /\ Fault /\ known' \in {known, known \ {u}}
     /\ UNCHANGED <<online, hidden>>

\* The instance is configured and its cluster created again; on an error the server is
\* left running outside of any cluster
RecreateCluster(u) ==
  /\ At(u, "recreating") /\ Finish(u)
  /\ CreateCluster(u)
  /\ UNCHANGED <<related, clock, members, primary, running, requests, moves, offline,
                 disturbed, dataVars, resultVars, store>>

-----------------------------------------------------------------------------
(* self-healing, in hooks between the actions of the unit *)

(* Mistake: only a server that has its own data is started *)
HealServerWithOwnData(u) ==
  /\ At(u, "idle") /\ u \in members \ running
  /\ data[u] = Live
  /\ running' = running \cup {u}
  /\ UNCHANGED <<related, clock, members, primary, known, online, requests, moves, isolationVars,
                 dataVars, resultVars, store, act, faults>>

\* A server that does not run is started, on whatever its data directory holds: an
\* emptied one does not start, a torn one may, with the metadata of the cluster or not
HealServer(u) ==
  /\ At(u, "idle") /\ u \in members \ running
  /\ data[u] # Lost
  /\ running' = running \cup {u}
  /\ known' \in {known} \cup {known \ {v} : v \in {u} \cap {w \in Units : data[w] = Torn}}
  /\ UNCHANGED <<related, clock, members, primary, online, requests, moves, isolationVars,
                 dataVars, resultVars, store, act, faults>>

\* An instance that is OFFLINE: with an ONLINE peer it is rejoined, which only works for
\* a member of that group; alone, and so the leader, it reboots the cluster, or drops its
\* metadata and creates it again
HealInstance(u) ==
  /\ At(u, "idle") /\ Initialized(u) /\ u \notin online
  /\ \/ /\ online = {} \/ data[u] = Live
        /\ online' = online \cup {u}
        /\ UNCHANGED <<known, hidden, faults>>
     \/ online = {} /\ CreateCluster(u)
  /\ UNCHANGED <<related, clock, members, primary, running, requests, moves, offline,
                 disturbed, dataVars, resultVars, store, act>>

-----------------------------------------------------------------------------
(* The environment *)

Tick ==
  /\ clock < MaxSecond /\ clock' = clock + 1
  /\ UNCHANGED <<related, members, primary, running, known, online, requests, moves,
                 isolationVars, dataVars, resultVars, store, act, faults>>

\* The hook that runs the action dies, between two calls or while the data directory is
\* emptied or filled
Crash(u) ==
  /\ ~At(u, "idle") /\ Fault /\ Finish(u)
  /\ disturbed' = disturbed \cup {u}
  /\ \/ UNCHANGED data
     \/ (At(u, "resetting") \/ At(u, "moving")) /\ data' = [data EXCEPT ![u] = Torn]
  /\ UNCHANGED <<clusterVars, hidden, offline, temp, resultVars, store>>

\* The topology changes: what the checks of a running action saw is out of date
Move == moves < MaxMoves /\ moves' = moves + 1

\* A switchover or an election: any ONLINE member may become the primary
PromoteInstance(u) ==
  /\ Move /\ u \in online \ {primary}
  /\ primary' = u
  /\ UNCHANGED <<related, clock, requests, members, running, known, online, isolationVars,
                 dataVars, resultVars, store, act, faults>>

\* Scaling: a new unit, whose storage is new too, joins a cluster that runs; a secondary
\* is removed
AddUnit(u) ==
  /\ Move /\ u \in Units \ members /\ primary \in online
  /\ members' = members \cup {u}
  /\ running' = running \cup {u} /\ known' = known \cup {u} /\ online' = online \cup {u}
  /\ data' = [data EXCEPT ![u] = Live] /\ temp' = [temp EXCEPT ![u] = {}]
  /\ disturbed' = disturbed \ {u}
  /\ UNCHANGED <<related, clock, requests, primary, hidden, offline, resultVars, store, act,
                 faults>>

RemoveUnit(u) ==
  /\ Move /\ u \in members \ {primary} /\ At(u, "idle")
  /\ members' = members \ {u}
  /\ running' = running \ {u} /\ known' = known \ {u} /\ online' = online \ {u}
  /\ hidden' = hidden \ {u} /\ offline' = offline \ {u}
  /\ UNCHANGED <<related, clock, requests, primary, disturbed, dataVars, resultVars, store,
                 act, faults>>

-----------------------------------------------------------------------------

Step(u) ==
  \/ UploadMetadata(u) \/ IsolateInstance(u) \/ StreamBackup(u) \/ UploadLog(u)
  \/ LeaveIsolation(u)
  \/ DownloadBackup(u) \/ PrepareBackup(u) \/ StopServer(u)
  \/ ResetDataDir(u) \/ ResetLogsDir(u) \/ MoveBack(u) \/ ResetTempDir(u)
  \/ StartServer(u) \/ RecreateCluster(u)

Heal(u) == HealServer(u) \/ HealInstance(u)

Next ==
  \/ Configure \/ Tick
  \/ \E u \in Units : \/ \E force \in BOOLEAN : CreateBackup(u, force)
                      \/ \E id \in Ids : RestoreBackup(u, id)
                      \/ Step(u) \/ Crash(u) \/ Heal(u)
                      \/ PromoteInstance(u) \/ AddUnit(u) \/ RemoveUnit(u)

\* A hook that has started runs to its end, or dies; the self-healing service of every
\* unit emits its event again and again
Fairness == \A u \in Units : WF_vars(Step(u)) /\ WF_vars(Heal(u))

-----------------------------------------------------------------------------
(* Properties *)

\* A unit that runs no action is neither hidden nor in offline mode, whatever way its
\* backups ended, unless an error or a dead hook disturbed its isolation
\* (isolate_instance)
InServiceWhenIdle ==
  \A u \in Units : At(u, "idle") /\ u \in hidden \cup offline => u \in disturbed

\* A backup that an action returned as created is listed as finished, unless an
\* exception was suppressed on the way (_on_create_backup, collect_backups)
ReportedIsListed ==
  \A id \in reported \ swallowed : <<id, "finished">> \in ListBackups

\* An ONLINE instance serves its own data or a backup that is listed as finished,
\* wherever a restoration failed or died and self-healing started the server again; the
\* exception is a deletion or a move of the files that was itself cut short
\* (_on_restore_backup, check_backup, _on_self_healing)
OnlineServesWholeData ==
  \A u \in online : \/ data[u] \in {Live, Torn}
                    \/ data[u] \in Ids /\ BackupStatus(data[u]) = "finished"

\* The data of a unit is only given up for a copy that has been downloaded and
\* prepared, on a server that has been stopped (prepare_backup, reset_data_dir)
DataGivenUpForCopy ==
  [][\A u \in Units : data'[u] # data[u] /\ data'[u] \in {Lost, Torn}
                         => "prepared" \in temp[u] /\ u \notin running]_vars

\* An isolated instance returns to service, however its backup ends, unless an error
\* or a dead hook disturbed it (isolate_instance, _on_create_backup)
IsolationEnds ==
  \A u \in Units : u \in offline ~> (u \notin offline \/ u \in disturbed)

\* What is left when self-healing cannot bring an instance back: no data to start on,
\* no metadata to find the cluster by, or data that the group of its peers does not know
Stranded(u) ==
  data[u] \in {Lost, Torn} \/ u \notin known \/ (data[u] # Live /\ online # {})

\* An instance that a restoration took down is ONLINE again in the end, wherever the
\* restoration failed or died, unless it is stranded (_on_restore_backup, _on_self_healing)
InstanceComesBack ==
  \A u \in Units : u \in members \ online
                     ~> (u \in online \/ u \notin members \/ Stranded(u))

Spec == Init /\ [][Next]_vars /\ Fairness
=============================================================================
