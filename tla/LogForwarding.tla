--------------------------- MODULE LogForwarding ---------------------------
(***************************************************************************)
(* Logs of the Kubernetes charm: Promtail, which runs beside the server    *)
(* and sends its logs to the units of Loki that the charm is related to,   *)
(* and the rotation of the logs, which keeps them for three days, or for   *)
(* one day where Loki has them.                                            *)
(*                                                                         *)
(* The hooks of a pod run one after the other.  An event that was deferred *)
(* is emitted again at the start of every later hook.                      *)
(*                                                                         *)
(* Simplifications:                                                        *)
(*  - the application has been deployed, and is related to Loki once;      *)
(*  - a pod that restarts loses the files of its containers; Juju then     *)
(*    runs config-changed, and pebble-ready once the workload answers;     *)
(*  - the leader of the charm and that of Loki do not change;              *)
(*  - the charm has no alert rules for Loki, and logs-retention-period has *)
(*    its default, "auto".                                                 *)
(***************************************************************************)
EXTENDS Naturals, FiniteSets

CONSTANTS Pods,           \* Units of the charm
          Lokis,          \* Units of Loki, those that may be added included
          NotRunning,     \* No Promtail
          MaxLogMoves,    \* Restarts of pods, changes of the units of Loki
          MaxLogFaults    \* Downloads that fail

ASSUME LogAssumption ==
  /\ IsFiniteSet(Pods) /\ Pods # {} /\ IsFiniteSet(Lokis) /\ Lokis # {}
  /\ {MaxLogMoves, MaxLogFaults} \subseteq Nat

VARIABLES
  logging,     \* The relation: "none", "up" or "dying"
  loki,        \* The units of Loki
  promtailUrl, \* Whether the leader of Loki has said where Promtail is found
  published,   \* Whether the leader of the charm has published its rules, of which there are none
  pod,         \* The pods
  logMoves, logFaults

logVars == <<logging, loki, promtailUrl, published, pod, logMoves, logFaults>>

CharmLeader == CHOOSE p \in Pods : TRUE
LokiLeader == CHOOSE l \in Lokis : TRUE

(* A pod: whether the workload answers, the events to come, the units of    *)
(* Loki that have joined; the Promtail binary in the charm's container and  *)
(* in the workload's, its Pebble layer, its configuration file, and the     *)
(* configuration it runs with; the flag that logs are synchronised, the     *)
(* deferred relation-created, and the days that logs are kept, 0 without a  *)
(* configuration.  "stuck" is a hook that fails for ever, "late" tells that *)
(* the workload did not answer when the retention was to be set.            *)
Pod == [ready |-> TRUE, pebble |-> FALSE, config |-> FALSE,
        created |-> FALSE, joined |-> {}, dirty |-> FALSE,
        cached |-> FALSE, installed |-> FALSE, plan |-> FALSE,
        conf |-> {}, runs |-> NotRunning,
        flag |-> FALSE, deferred |-> FALSE, keep |-> 3,
        failed |-> FALSE, stuck |-> FALSE, late |-> FALSE]

LogInit ==
  /\ logging = "none" /\ promtailUrl = FALSE /\ published = FALSE
  /\ loki = [l \in Lokis |-> [there |-> l = LokiLeader, address |-> 0,
                              endpoint |-> FALSE, url |-> 0, todo |-> {}]]
  /\ pod = [p \in Pods |-> Pod]
  /\ logMoves = 0 /\ logFaults = 0

LogMove == logMoves < MaxLogMoves /\ logMoves' = logMoves + 1
LogFault == logFaults < MaxLogFaults /\ logFaults' = logFaults + 1

-----------------------------------------------------------------------------
(* Promtail *)

\* loki_endpoints, of the units that the relation lists: _clients_list
Clients(r) == {<<l, loki[l].url>> : l \in {k \in r.joined : loki[k].endpoint}}

\* _is_promtail_installed, _promtail_must_be_downloaded
MustBeDownloaded(r) == promtailUrl /\ ~r.installed /\ ~r.cached

\* _obtain_promtail: from the container of the charm, or downloaded to it
ObtainPromtail(r) == [r EXCEPT !.cached = TRUE, !.installed = TRUE, !.failed = FALSE]

\* _promtail_config goes to the file; the service reads it when it is restarted
PushConfig(r) == [r EXCEPT !.conf = Clients(r)]
Restart(r) == [r EXCEPT !.runs = r.conf]

\* _setup_promtail
SetupPromtail(r) ==
  IF ~promtailUrl THEN r
  ELSE LET s == [PushConfig(ObtainPromtail(r)) EXCEPT !.plan = TRUE]
       IN  IF s.conf = {} THEN s ELSE Restart(s)

\* The outcomes of a hook that sets Promtail up: the download may fail, which is logged
SetsUp(p, r) ==
  \/ pod' = [pod EXCEPT ![p] = SetupPromtail(r)] /\ UNCHANGED logFaults
  \/ /\ MustBeDownloaded(r) /\ LogFault
     /\ pod' = [pod EXCEPT ![p] = [r EXCEPT !.failed = TRUE]]

-----------------------------------------------------------------------------
(* Rotation of the logs *)

\* _update_config
Retention(synchronized) == IF synchronized THEN 1 ELSE 3

\* LogRotationEventHandler._on_relation_created
Synchronize(r) ==
  IF r.ready THEN [r EXCEPT !.deferred = FALSE, !.flag = TRUE, !.keep = Retention(TRUE)]
  ELSE [r EXCEPT !.deferred = TRUE, !.late = TRUE]

\* A hook begins: the deferred event first
Awake(p) == ~pod[p].stuck
Begin(p) == IF pod[p].deferred THEN Synchronize(pod[p]) ELSE pod[p]

\* _on_config_changed
LogConfigChanged(p) ==
  LET r == [Begin(p) EXCEPT !.config = FALSE]
  IN  /\ Awake(p) /\ pod[p].config
      /\ pod' = [pod EXCEPT ![p] =
           IF r.ready THEN [r EXCEPT !.keep = Retention(r.flag)] ELSE [r EXCEPT !.late = TRUE]]
      /\ UNCHANGED <<logging, loki, promtailUrl, published, logMoves, logFaults>>

-----------------------------------------------------------------------------
(* The hooks of the relation, on a pod *)

LogRelationCreated(p) ==
  LET r == Synchronize([Begin(p) EXCEPT !.created = TRUE])
  IN  /\ Awake(p) /\ logging = "up" /\ ~pod[p].created
      /\ IF r.ready THEN SetsUp(p, r)
         ELSE pod' = [pod EXCEPT ![p] = r] /\ UNCHANGED logFaults
      /\ UNCHANGED <<logging, loki, promtailUrl, published, logMoves>>

\* relation-joined, which nothing observes; Juju follows it with relation-changed
LogRelationJoined(p, l) ==
  /\ Awake(p) /\ logging = "up" /\ pod[p].created /\ loki[l].there /\ l \notin pod[p].joined
  /\ pod' = [pod EXCEPT ![p] = [Begin(p) EXCEPT !.joined = @ \cup {l}, !.dirty = TRUE]]
  /\ UNCHANGED <<logging, loki, promtailUrl, published, logMoves, logFaults>>

\* What the leader of the charm publishes makes the units of Loki look again
HandleAlertRules(p) ==
  IF p = CharmLeader /\ ~published
  THEN /\ published' = TRUE
       /\ loki' = [l \in Lokis |-> IF loki[l].there THEN [loki[l] EXCEPT !.todo = @ \cup {"changed"}]
                                   ELSE loki[l]]
  ELSE UNCHANGED <<published, loki>>

(* Mistake: a Promtail that runs is left with the configuration it started with *)
ChangedWithoutRestart(p) ==
  LET r == [Begin(p) EXCEPT !.dirty = FALSE]
  IN  /\ Awake(p) /\ pod[p].dirty /\ HandleAlertRules(p)
      /\ IF r.ready /\ ~r.plan THEN SetsUp(p, r)
         ELSE /\ pod' = [pod EXCEPT ![p] = IF r.ready THEN PushConfig(r) ELSE r]
              /\ UNCHANGED logFaults
      /\ UNCHANGED <<logging, promtailUrl, logMoves>>

\* LogProxyConsumer._on_relation_changed
LogRelationChanged(p) ==
  LET r == [Begin(p) EXCEPT !.dirty = FALSE]
      s == PushConfig(r)
  IN  /\ Awake(p) /\ pod[p].dirty /\ HandleAlertRules(p)
      /\ IF r.ready /\ ~r.plan THEN SetsUp(p, r)
         ELSE /\ pod' = [pod EXCEPT ![p] = IF ~r.ready THEN r
                                           ELSE IF s.conf = {} THEN s ELSE Restart(s)]
              /\ UNCHANGED logFaults
      /\ UNCHANGED <<logging, promtailUrl, logMoves>>

\* _on_relation_departed: Pebble refuses to stop or to restart a service it does not
\* know, and the hook fails, each time it is run
LogRelationDeparted(p, l) ==
  LET r == [Begin(p) EXCEPT !.joined = @ \ {l}]
      s == PushConfig(r)
  IN  /\ Awake(p) /\ l \in pod[p].joined /\ (logging = "dying" \/ ~loki[l].there)
      /\ pod' = [pod EXCEPT ![p] =
           IF ~r.ready THEN r
           ELSE IF ~r.plan THEN [s EXCEPT !.stuck = TRUE]
           ELSE IF s.conf = {} THEN [s EXCEPT !.runs = NotRunning] ELSE Restart(s)]
      /\ UNCHANGED <<logging, loki, promtailUrl, published, logMoves, logFaults>>

(* Mistake: the retention is updated before the flag is deleted *)
BrokenBeforeFlag(p) ==
  LET r == [Begin(p) EXCEPT !.created = FALSE, !.dirty = FALSE]
  IN  /\ Awake(p) /\ logging = "dying" /\ pod[p].created /\ pod[p].joined = {}
      /\ pod' = [pod EXCEPT ![p] =
           IF ~r.ready THEN [r EXCEPT !.late = TRUE]
           ELSE [r EXCEPT !.flag = FALSE, !.keep = Retention(r.flag)]]
      /\ UNCHANGED <<logging, loki, promtailUrl, published, logMoves, logFaults>>

\* LogRotationEventHandler._on_relation_broken; _synchronized is read once in a hook,
\* before the flag is deleted where the deferred event comes in the same hook
LogRelationBroken(p) ==
  LET r == [Begin(p) EXCEPT !.created = FALSE, !.dirty = FALSE]
  IN  /\ Awake(p) /\ logging = "dying" /\ pod[p].created /\ pod[p].joined = {}
      /\ pod' = [pod EXCEPT ![p] =
           IF ~r.ready THEN [r EXCEPT !.late = TRUE]
           ELSE [r EXCEPT !.flag = FALSE, !.keep = Retention(pod[p].deferred)]]
      /\ UNCHANGED <<logging, loki, promtailUrl, published, logMoves, logFaults>>

\* _on_pebble_ready
LogPebbleReady(p) ==
  LET r == [Begin(p) EXCEPT !.pebble = FALSE]
  IN  /\ Awake(p) /\ pod[p].pebble
      /\ IF r.created THEN SetsUp(p, r)
         ELSE pod' = [pod EXCEPT ![p] = r] /\ UNCHANGED logFaults
      /\ UNCHANGED <<logging, loki, promtailUrl, published, logMoves>>

-----------------------------------------------------------------------------
(* Loki *)

Notify(l) ==
  pod' = [p \in Pods |-> IF l \in pod[p].joined THEN [pod[p] EXCEPT !.dirty = TRUE] ELSE pod[p]]

\* _on_logging_relation_joined
LokiJoined(l) ==
  /\ loki[l].there /\ "joined" \in loki[l].todo
  /\ loki' = [loki EXCEPT ![l].todo = (@ \ {"joined"}) \cup {"changed"}]
  /\ promtailUrl' = (promtailUrl \/ l = LokiLeader)
  /\ pod' = [p \in Pods |-> IF promtailUrl # promtailUrl' /\ pod[p].joined # {}
                            THEN [pod[p] EXCEPT !.dirty = TRUE] ELSE pod[p]]
  /\ UNCHANGED <<logging, published, logMoves, logFaults>>

\* _process_logging_relation_changed: update_endpoint
LokiChanged(l) ==
  /\ loki[l].there /\ "changed" \in loki[l].todo
  /\ loki' = [loki EXCEPT ![l].todo = @ \ {"changed"}, ![l].endpoint = TRUE,
                          ![l].url = loki[l].address]
  /\ IF loki'[l].url # loki[l].url \/ ~loki[l].endpoint THEN Notify(l) ELSE UNCHANGED pod
  /\ UNCHANGED <<logging, promtailUrl, published, logMoves, logFaults>>

\* The address of a unit changes, and the charm of Loki calls update_endpoint
LokiMoves(l) ==
  /\ logging = "up" /\ loki[l].there /\ LogMove
  /\ loki' = [loki EXCEPT ![l].address = @ + 1, ![l].todo = @ \cup {"changed"}]
  /\ UNCHANGED <<logging, promtailUrl, published, pod, logFaults>>

LokiAdded(l) ==
  /\ ~loki[l].there /\ LogMove
  /\ \A p \in Pods : l \notin pod[p].joined
  /\ loki' = [loki EXCEPT ![l] = [@ EXCEPT !.there = TRUE, !.endpoint = FALSE,
                                  !.todo = IF logging = "up" THEN {"joined"} ELSE {}]]
  /\ UNCHANGED <<logging, promtailUrl, published, pod, logFaults>>

LokiRemoved(l) ==
  /\ loki[l].there /\ l # LokiLeader /\ LogMove
  /\ loki' = [loki EXCEPT ![l].there = FALSE, ![l].todo = {}]
  /\ UNCHANGED <<logging, promtailUrl, published, pod, logFaults>>

-----------------------------------------------------------------------------
(* The operator, and Kubernetes *)

RelateLoki ==
  /\ logging = "none" /\ logging' = "up"
  /\ loki' = [l \in Lokis |-> IF loki[l].there THEN [loki[l] EXCEPT !.todo = {"joined"}] ELSE loki[l]]
  /\ UNCHANGED <<promtailUrl, published, pod, logMoves, logFaults>>

\* A pod that has not seen the relation yet will not see it
UnrelateLoki ==
  /\ logging = "up" /\ logging' = "dying"
  /\ loki' = [l \in Lokis |-> [loki[l] EXCEPT !.todo = {}]]
  /\ UNCHANGED <<promtailUrl, published, pod, logMoves, logFaults>>

PodRestarts(p) ==
  /\ pod[p].ready /\ LogMove
  /\ pod' = [pod EXCEPT ![p] = [@ EXCEPT
       !.ready = FALSE, !.pebble = FALSE, !.config = TRUE, !.cached = FALSE, !.installed = FALSE,
       !.plan = FALSE, !.conf = {}, !.runs = NotRunning, !.keep = 0]]
  /\ UNCHANGED <<logging, loki, promtailUrl, published, logFaults>>

WorkloadAnswers(p) ==
  /\ ~pod[p].ready
  /\ pod' = [pod EXCEPT ![p].ready = TRUE, ![p].pebble = TRUE]
  /\ UNCHANGED <<logging, loki, promtailUrl, published, logMoves, logFaults>>

LogHook ==
  \/ \E p \in Pods : \/ LogConfigChanged(p) \/ LogRelationCreated(p) \/ LogRelationChanged(p)
                     \/ LogRelationBroken(p) \/ LogPebbleReady(p) \/ WorkloadAnswers(p)
                     \/ \E l \in Lokis : LogRelationJoined(p, l) \/ LogRelationDeparted(p, l)
  \/ \E l \in Lokis : LokiJoined(l) \/ LokiChanged(l)

LogNext ==
  \/ LogHook \/ RelateLoki \/ UnrelateLoki
  \/ \E p \in Pods : PodRestarts(p)
  \/ \E l \in Lokis : LokiMoves(l) \/ LokiAdded(l) \/ LokiRemoved(l)

-----------------------------------------------------------------------------
(* Properties *)

(* When events have settled, the Promtail of every pod runs with the        *)
(* endpoints that the units of Loki have now, no unit missing and none that *)
(* has left, and it does not run once the relation is gone                  *)
(* (_on_relation_changed, _on_relation_departed, _on_pebble_ready).  Not so *)
(* where a download failed, which is not tried again until the next event,  *)
(* nor where a departure met a pod without Promtail, whose hook then fails  *)
(* for ever.                                                                *)
LogsReachLoki ==
  \A p \in Pods : <>[](
    \/ pod[p].stuck \/ pod[p].failed
    \/ logging = "up" /\ pod[p].runs = {<<l, loki[l].address>> : l \in {k \in Lokis : loki[k].there}}
    \/ logging # "up" /\ pod[p].runs = NotRunning)

(* A pod whose logs are not sent to Loki keeps them for three days, and one *)
(* that is related keeps them for a day, whatever restarts and in whatever  *)
(* order, unless the workload did not answer when the handler of            *)
(* relation-created, relation-broken or config-changed was run: then the    *)
(* retention may stay wrong (_synchronized, _on_relation_broken).           *)
LogsKeptUntilShipped ==
  \A p \in Pods : LET r == pod[p] IN
    (~r.late /\ ~r.config) => r.keep = Retention(r.created)
=============================================================================
