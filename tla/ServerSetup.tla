---------------------------- MODULE ServerSetup ----------------------------
(***************************************************************************)
(* The first start of a server, step by step: the directories of the data, *)
(* the operator's account, the system roles and accounts, the cluster and  *)
(* the exporter.  Any step may fail, and the hook or its host may die      *)
(* between two of them; Juju then runs the hook again, from the beginning, *)
(* and what it does depends on the data files that it finds.               *)
(*                                                                         *)
(* Simplifications:                                                        *)
(*  - passwords and the system are ready (ClusterFormation has the         *)
(*    deferrals, and the cluster's metadata in detail);                    *)
(*  - whether mysqld starts with an init_file that has failed is mysqld's  *)
(*    choice.                                                              *)
(***************************************************************************)
EXTENDS Naturals, FiniteSets

CONSTANTS MaxSetupFaults  \* Steps that fail, hooks and hosts that die

ASSUME SetupAssumption == MaxSetupFaults \in Nat

VARIABLES
  box,          \* The host of the server
  at,           \* The step that the hook has reached
  interrupted,  \* Whether the hook ended early when there already were data files
  setupFaults

setupVars == <<box, at, interrupted, setupFaults>>

Roles == {"router", "auth"}
SystemUsers == {"backups", "monitor"}

(* The data directory is "empty", has some "files", has the data files of  *)
(* an initialisation that did not end ("partial") or is "initialized".     *)
SetupInit ==
  /\ \E substrate \in {"container", "machine"}, leads \in BOOLEAN, files \in {"empty", "files"} :
       box = [substrate |-> substrate, leads |-> leads, files |-> files, installed |-> FALSE,
              plan |-> FALSE, accounts |-> {}, initFile |-> FALSE, running |-> FALSE,
              components |-> FALSE, configured |-> FALSE, cluster |-> FALSE, exporter |-> FALSE,
              reported |-> FALSE]
  /\ at = "install" /\ interrupted = FALSE /\ setupFaults = 0

SetupFault == setupFaults < MaxSetupFaults /\ setupFaults' = setupFaults + 1

\* initialized: there are *.ibd files
DataFiles(b) == b.files \in {"partial", "initialized"}

SetupStep(from, to, new) ==
  at = from /\ at' = to /\ box' = new /\ UNCHANGED <<interrupted, setupFaults>>

\* An exception: Juju runs the hook again
SetupRaises(from) == SetupStep(from, "idle", box)

-----------------------------------------------------------------------------
(* The service of the server *)

\* install: a snap that cannot be installed leaves a blocked status, and is not tried again
InstallServer ==
  \/ SetupStep("install", "idle", [box EXCEPT !.installed = TRUE])
  \/ /\ box.substrate = "machine" /\ SetupFault
     /\ at = "install" /\ at' = "idle" /\ UNCHANGED <<box, interrupted>>

\* _on_start: the configuration is saved first
StartHook == SetupStep("idle", "server", box)

\* _start_server_service: without the snap, there is nowhere to look for files
FindDataFiles ==
  IF ~box.installed THEN SetupRaises("server")
  ELSE SetupStep("server", IF DataFiles(box) THEN "again" ELSE "reset", box)

(* Mistake: what an earlier attempt left stays *)
ResetNothing == SetupStep("reset", "init", box)

ResetDirectories == SetupStep("reset", "init", [box EXCEPT !.files = "empty", !.accounts = {}])

\* mysqld --initialize refuses a directory with files
InitDirectories ==
  IF box.files # "empty" THEN SetupRaises("init")
  ELSE SetupStep("init", "write", [box EXCEPT !.files = "initialized", !.accounts = {"root"}])

\* _set_operator_user: the files that have mysqld create the account when it starts
WriteInitFiles == SetupStep("write", "run", [box EXCEPT !.initFile = TRUE])

\* _create_layer: Pebble is told of the service before every start and stop
AddLayer(b) == [b EXCEPT !.plan = b.substrate = "container"]

\* What mysqld makes of the init_file; an account that exists cannot be created
Started(b) ==
  IF b.running \/ ~b.initFile THEN {[b EXCEPT !.running = TRUE]}
  ELSE IF "operator" \notin b.accounts
  THEN {[b EXCEPT !.running = TRUE, !.accounts = @ \cup {"operator"}]}
  ELSE {b, [b EXCEPT !.running = TRUE]}

\* start and _wait_for_connection, to the next step if the server answers
StartMysqld(from, to) ==
  \E b \in IF box.files = "partial" THEN {AddLayer(box)} ELSE Started(AddLayer(box)) :
    SetupStep(from, IF b.running THEN to ELSE "idle", b)

\* The server is stopped again, and the files are unlinked
StopMysqld ==
  SetupStep("stop", "start", [AddLayer(box) EXCEPT !.running = FALSE, !.initFile = FALSE])

-----------------------------------------------------------------------------
(* The accounts, the cluster and the exporter *)

\* A statement of the charm is run by the operator's account
Executes(from, to, new) ==
  IF box.running /\ "operator" \in box.accounts THEN SetupStep(from, to, new) ELSE SetupRaises(from)

\* _init_server_service: the components that are missing; the hook that found data files
\* goes on with the exporter
InstallComponents ==
  \/ Executes("components", "roles", [box EXCEPT !.components = TRUE])
  \/ Executes("components-again", "exporter", [box EXCEPT !.components = TRUE])

CreateSystemRoles == Executes("roles", "root", [box EXCEPT !.accounts = @ \cup Roles])

DeleteRoot == Executes("root", "backups", [box EXCEPT !.accounts = @ \ {"root"}])

CreateSystemUser ==
  \/ Executes("backups", "monitor", [box EXCEPT !.accounts = @ \cup {"backups"}])
  \/ Executes("monitor", "configure", [box EXCEPT !.accounts = @ \cup {"monitor"}])

SetInstanceConfig ==
  Executes("configure", IF box.leads THEN "cluster" ELSE "exporter", [box EXCEPT !.configured = TRUE])

FoundCluster == Executes("cluster", "exporter", [box EXCEPT !.cluster = TRUE])

StartExporterService == SetupStep("exporter", "report", [box EXCEPT !.exporter = TRUE])

\* _update_state
ReportState == SetupStep("report", "done", [box EXCEPT !.reported = TRUE])

SetupHook ==
  \/ InstallServer
  \/ StartHook \/ FindDataFiles
  \/ ResetDirectories \/ InitDirectories
  \/ WriteInitFiles \/ StartMysqld("run", "stop") \/ StopMysqld
  \/ StartMysqld("start", "components") \/ StartMysqld("again", "components-again")
  \/ InstallComponents \/ CreateSystemRoles \/ DeleteRoot \/ CreateSystemUser
  \/ SetInstanceConfig \/ FoundCluster \/ StartExporterService \/ ReportState

-----------------------------------------------------------------------------
(* Faults *)

InHook == at \notin {"install", "idle", "done"}

\* An exception before a step has had its effect; _set_operator_user unlinks its files
StepFails ==
  /\ InHook /\ SetupFault /\ at' = "idle"
  /\ box' = IF at \in {"run", "stop"} THEN [box EXCEPT !.initFile = FALSE] ELSE box
  /\ interrupted' = (interrupted \/ DataFiles(box))

\* The hook is killed, mysqld --initialize with it
SetupHookDies ==
  /\ InHook /\ SetupFault /\ at' = "idle"
  /\ \E files \in IF at = "init" THEN {box.files, "files", "partial"} ELSE {box.files} :
       box' = [box EXCEPT !.files = files]
  /\ interrupted' = (interrupted \/ DataFiles(box'))

\* The machine or the pod restarts; a container loses what is not on its storages
SetupHostDies ==
  /\ at \notin {"install", "init", "done"} /\ SetupFault /\ at' = "idle"
  /\ box' = [box EXCEPT !.running = FALSE, !.plan = FALSE,
                        !.initFile = @ /\ box.substrate = "machine"]
  /\ interrupted' = (interrupted \/ DataFiles(box))

SetupNext == SetupHook \/ StepFails \/ SetupHookDies \/ SetupHostDies

-----------------------------------------------------------------------------
(* Properties *)

\* No hook makes these good: no snap; half of the data files; data files without an account to
\* log in with; an init_file that is executed again by a server that does not accept that
Damaged ==
  \/ ~box.installed
  \/ box.files = "partial"
  \/ box.files = "initialized" /\ "operator" \notin box.accounts /\ ~box.initFile
  \/ box.initFile /\ "operator" \in box.accounts /\ ~box.running

(* The hook of start, run again for as long as it fails, ends with a server *)
(* that the operator's account can log in to; and if it never ended early   *)
(* after data files had been written, all of the roles, accounts and        *)
(* settings are there, a leader has founded the cluster, and root is gone   *)
(* (_start_server_service, setup).  After data files the rerun only starts  *)
(* the server: what was missing stays missing, and the unit reports all the *)
(* same.                                                                    *)
SetupIsMadeGood ==
  <>[](\/ Damaged
       \/ /\ box.reported /\ "operator" \in box.accounts
          /\ interrupted \/ /\ box.accounts = {"operator"} \cup Roles \cup SystemUsers
                            /\ box.components /\ box.configured /\ box.cluster = box.leads)
=============================================================================
