------------------------------ MODULE Metrics ------------------------------
(***************************************************************************)
(* Metrics of the Kubernetes charm: an exporter beside every server, and   *)
(* the relation with Prometheus.  Every unit publishes its own address;    *)
(* the leader publishes the scrape job, whose target is a wildcard, and    *)
(* the alert rules.  Prometheus expands the wildcard into one job for each *)
(* unit.                                                                   *)
(*                                                                         *)
(* Simplifications:                                                        *)
(*  - a pod that is replaced gets another address, possibly one that a     *)
(*    former pod of another unit had, and possibly a newer revision of the *)
(*    charm; its hooks then include start;                                 *)
(*  - Prometheus has one unit, and its cos-tool rejects the alert rules of *)
(*    the revisions in BadRules.                                           *)
(***************************************************************************)
EXTENDS Naturals, FiniteSets, Sequences

CONSTANTS Members,        \* Units of the charm, those that may be added included
          Newcomers,      \* Those that are not there at first
          Addresses,      \* Addresses of pods, positive numbers
          Revisions,      \* Revisions of the charm, positive numbers
          BadRules,       \* The revisions with alert rules that are not valid
          MaxMetricMoves  \* Pods replaced, units added or removed, passwords, leadership

ASSUME MetricsAssumption ==
  /\ IsFiniteSet(Members) /\ Newcomers \subseteq Members /\ Newcomers # Members
  /\ Addresses \subseteq Nat \ {0} /\ Cardinality(Addresses) > Cardinality(Members)
  /\ 1 \in Revisions /\ Revisions \subseteq Nat \ {0} /\ BadRules \subseteq Revisions
  /\ MaxMetricMoves \in Nat

VARIABLES
  metrics,     \* The relation: "none", "up" or "dying"
  unit,        \* The units
  chief,       \* The unit that leads
  appData,     \* Revision whose job and rules are in the application databag, 0 if none
  prom,        \* Prometheus
  sql, secret, \* Password of the monitoring user in MySQL and in the secret, counted
  unaware,     \* Units whose exporter was not told of a password, or told of a wrong one
  metricMoves

metricVars == <<metrics, unit, chief, appData, prom, sql, secret, unaware, metricMoves>>

There == {u \in Members : unit[u].there}

\* No two pods have the same address
FirstAddress == CHOOSE f \in [Members -> Addresses] : \A u, v \in Members : f[u] = f[v] => u = v

(* A unit: its address and the one in its databag, 0 if there is none, its  *)
(* revision, its events to come and the password its exporter uses.         *)
MetricsInit ==
  /\ metrics = "none" /\ appData = 0 /\ sql = 1 /\ secret = 1 /\ unaware = {} /\ metricMoves = 0
  /\ chief = CHOOSE u \in Members \ Newcomers : TRUE
  /\ unit = [u \in Members |-> [there |-> u \notin Newcomers, ip |-> FirstAddress[u], rev |-> 1,
                                address |-> 0, todo |-> {}, exporter |-> 1]]
  /\ prom = [joined |-> {}, dirty |-> FALSE, targets |-> {}, rules |-> {}, error |-> FALSE]

MetricMove == metricMoves < MaxMetricMoves /\ metricMoves' = metricMoves + 1

-----------------------------------------------------------------------------
(* The provider: what a unit publishes *)

\* _set_unit_ip, where the relation exists
SetUnitIp(r) == IF metrics = "up" THEN [r EXCEPT !.address = r.ip] ELSE r

\* Prometheus hears of a change of the databags once units have joined
Tell(changes) == prom' = IF changes /\ prom.joined # {} THEN [prom EXCEPT !.dirty = TRUE] ELSE prom

\* set_scrape_job_spec: the address, and on the leader the job and the rules
SetScrapeJobSpec(u, r) ==
  /\ unit' = [unit EXCEPT ![u] = SetUnitIp(r)]
  /\ appData' = IF metrics = "up" /\ u = chief THEN r.rev ELSE appData
  /\ Tell(unit'[u].address # unit[u].address \/ appData' # appData)

Handled(u, event) == [unit[u] EXCEPT !.todo = @ \ {event}]

\* relation-joined and leader-elected
RefreshJobSpec(u, event) ==
  /\ u \in There /\ event \in unit[u].todo \cap {"joined", "elected"}
  /\ SetScrapeJobSpec(u, IF event = "joined"
                         THEN [Handled(u, event) EXCEPT !.todo = @ \cup {"changed"}]
                         ELSE Handled(u, event))
  /\ UNCHANGED <<metrics, chief, sql, secret, unaware, metricMoves>>

\* start: the exporter begins with the password of the secret
StartExporter(u) ==
  /\ u \in There /\ "start" \in unit[u].todo
  /\ SetScrapeJobSpec(u, [Handled(u, "start") EXCEPT !.exporter = secret])
  /\ unaware' = IF secret = sql THEN unaware \ {u} ELSE unaware \cup {u}
  /\ UNCHANGED <<metrics, chief, sql, secret, metricMoves>>

\* relation-changed and update-status: the address only
OnMetricsChanged(u) ==
  /\ u \in There /\ ("changed" \in unit[u].todo \/ SetUnitIp(unit[u]) # unit[u])
  /\ unit' = [unit EXCEPT ![u] = SetUnitIp(Handled(u, "changed"))]
  /\ Tell(unit'[u].address # unit[u].address)
  /\ UNCHANGED <<metrics, chief, appData, sql, secret, unaware, metricMoves>>

\* set-password of the monitoring user, on the leader: where there is no primary the
\* secret changes and MySQL does not; only the exporter of this unit is restarted
OnSetPassword(u, primary) ==
  /\ u = chief /\ "start" \notin unit[u].todo /\ MetricMove
  /\ secret' = secret + 1 /\ sql' = IF primary THEN secret + 1 ELSE sql
  /\ unit' = [unit EXCEPT ![u].exporter = secret + 1]
  /\ unaware' = IF primary THEN There \ {u} ELSE There
  /\ UNCHANGED <<metrics, chief, appData, prom>>

-----------------------------------------------------------------------------
(* The consumer: Prometheus *)

\* _relation_hosts: the units that have published an address
Hosts(joined) == {u \in joined : unit[u].address # 0}

\* _scrape_jobs: the one job of the charm, "*:port", which has neither a name nor a path
ScrapeJobs == {[name |-> <<>>, path |-> "", targets |-> {"*"}]}

\* prefix_job_names: the prefix is the topology's
PrefixJobNames(jobs) == {[j EXCEPT !.name = <<"topology">> \o @] : j \in jobs}

\* sanitize_scrape_configs: what is missing is as in DEFAULT_JOB
Sanitize(jobs) == {[j EXCEPT !.path = IF @ = "" THEN "/metrics" ELSE @] : j \in jobs}

\* _classify_targets
Wildcards(targets) == targets \cap {"*"}

\* _build_per_unit_job: with the topology labels of the unit
PerUnitJob(j, u) ==
  [name |-> Append(j.name, u), path |-> j.path, juju_unit |-> u, target |-> unit[u].address]

\* expand_wildcard_targets_into_individual_jobs
ExpandWildcard(jobs, hosts) ==
  {PerUnitJob(j, u) : j \in {k \in jobs : Wildcards(k.targets) # {}}, u \in hosts}

\* _static_scrape_config
StaticScrapeConfig(joined) ==
  IF joined = {} \/ appData = 0 THEN {}
  ELSE ExpandWildcard(Sanitize(PrefixJobNames(ScrapeJobs)), Hosts(joined))

\* _dedupe_job_names: a name that two jobs share is made unique by a hash of the job
DedupeJobNames(jobs) ==
  {[j EXCEPT !.name = IF \E k \in jobs \ {j} : k.name = @ THEN Append(@, j) ELSE @] : j \in jobs}

\* The groups of rules of a revision, labelled with the topology when they are loaded
RuleGroups(rev) == {[group |-> g, rev |-> rev, labels |-> "topology", expr |-> "any"] :
                    g \in {"general", "replication", "generic"}}

\* _inject_alert_expr_labels: a labelled rule only looks at its own application
InjectExprLabels(rules) ==
  {IF r.labels = "topology" THEN [r EXCEPT !.expr = "own"] ELSE r : r \in rules}

\* _get_identifier_by_alert_rules: by the labels of the rules, or by the name of a group
Identifier(rules) ==
  IF \E r \in rules : r.labels = "topology" THEN "topology" ELSE (CHOOSE r \in rules : TRUE).group

\* alerts: rules that cos-tool rejects are dropped
Alerts(joined) ==
  LET rules == InjectExprLabels(RuleGroups(appData))
  IN  IF joined = {} \/ appData \in BadRules \cup {0} THEN {}
      ELSE {<<Identifier(rules), r>> : r \in rules}

\* and the provider is told so, or that it is no longer so
AlertError(joined) == IF joined = {} \/ appData = 0 THEN prom.error ELSE appData \in BadRules
HasInvalidAlertRules == prom.error

\* targets_changed: the charm of Prometheus asks for jobs and alerts
Reload(joined) ==
  prom' = [joined |-> joined, dirty |-> FALSE, targets |-> DedupeJobNames(StaticScrapeConfig(joined)),
           rules |-> Alerts(joined), error |-> AlertError(joined)]

PromJoined(u) ==
  /\ metrics = "up" /\ u \in There \ prom.joined
  /\ prom' = [prom EXCEPT !.joined = @ \cup {u}, !.dirty = TRUE]
  /\ UNCHANGED <<metrics, unit, chief, appData, sql, secret, unaware, metricMoves>>

PromChanged ==
  /\ prom.dirty /\ Reload(prom.joined)
  /\ UNCHANGED <<metrics, unit, chief, appData, sql, secret, unaware, metricMoves>>

(* Mistake: a unit that leaves is forgotten, and its job is not *)
PromDepartedSilently(u) ==
  /\ u \in prom.joined /\ (metrics = "dying" \/ u \notin There)
  /\ prom' = [prom EXCEPT !.joined = @ \ {u}]
  /\ UNCHANGED <<metrics, unit, chief, appData, sql, secret, unaware, metricMoves>>

\* _on_metrics_provider_relation_departed: asks again, without the unit
PromDeparted(u) ==
  /\ u \in prom.joined /\ (metrics = "dying" \/ u \notin There)
  /\ Reload(prom.joined \ {u})
  /\ UNCHANGED <<metrics, unit, chief, appData, sql, secret, unaware, metricMoves>>

-----------------------------------------------------------------------------
(* The operator, Juju and Kubernetes *)

RelatePrometheus ==
  /\ metrics = "none" /\ metrics' = "up"
  /\ unit' = [u \in Members |-> IF u \in There THEN [unit[u] EXCEPT !.todo = @ \cup {"joined"}]
                                ELSE unit[u]]
  /\ UNCHANGED <<chief, appData, prom, sql, secret, unaware, metricMoves>>

UnrelatePrometheus ==
  /\ metrics = "up" /\ metrics' = "dying"
  /\ unit' = [u \in Members |-> [unit[u] EXCEPT !.todo = @ \ {"joined", "changed"}]]
  /\ UNCHANGED <<chief, appData, prom, sql, secret, unaware, metricMoves>>

PodReplaced(u) ==
  /\ u \in There /\ MetricMove
  /\ \E a \in Addresses \ {unit[v].ip : v \in There}, r \in {s \in Revisions : s >= unit[u].rev} :
       unit' = [unit EXCEPT ![u] = [@ EXCEPT !.ip = a, !.rev = r, !.todo = @ \cup {"start"}]]
  /\ UNCHANGED <<metrics, chief, appData, prom, sql, secret, unaware>>

MemberAdded(u) ==
  /\ u \notin There \cup prom.joined /\ MetricMove
  /\ \E a \in Addresses \ {unit[v].ip : v \in There} :
       unit' = [unit EXCEPT ![u] =
         [there |-> TRUE, ip |-> a, rev |-> unit[chief].rev, address |-> 0,
          todo |-> {"start"} \cup (IF metrics = "up" THEN {"joined"} ELSE {}), exporter |-> 0]]
  /\ unaware' = unaware \cup {u}
  /\ UNCHANGED <<metrics, chief, appData, prom, sql, secret>>

ChiefMoves(u) ==
  /\ u \in There \ {chief} /\ MetricMove
  /\ chief' = u /\ unit' = [unit EXCEPT ![u].todo = @ \cup {"elected"}]
  /\ UNCHANGED <<metrics, appData, prom, sql, secret, unaware>>

\* A unit is removed; another one leads, if it was the leader
MemberRemoved(u) ==
  /\ u \in There /\ There # {u} /\ MetricMove
  /\ IF u # chief THEN chief' = chief ELSE chief' \in There \ {u}
  /\ unit' = [v \in Members |->
       IF v = u THEN [unit[v] EXCEPT !.there = FALSE, !.todo = {}]
       ELSE IF v = chief' /\ v # chief THEN [unit[v] EXCEPT !.todo = @ \cup {"elected"}]
       ELSE unit[v]]
  /\ UNCHANGED <<metrics, appData, prom, sql, secret, unaware>>

MetricHook ==
  \/ PromChanged
  \/ \E u \in Members : \/ StartExporter(u) \/ OnMetricsChanged(u)
                        \/ PromJoined(u) \/ PromDeparted(u)
                        \/ \E e \in {"joined", "elected"} : RefreshJobSpec(u, e)

MetricNext ==
  \/ MetricHook \/ RelatePrometheus \/ UnrelatePrometheus
  \/ \E u \in Members : \/ PodReplaced(u) \/ MemberAdded(u) \/ MemberRemoved(u) \/ ChiefMoves(u)
                        \/ \E primary \in BOOLEAN : OnSetPassword(u, primary)

-----------------------------------------------------------------------------
(* Properties *)

(* When events have settled, Prometheus scrapes every unit at the address   *)
(* its pod has now, under its own name, and no other address, with the      *)
(* rules of the leader's revision, or with none where they are not valid,   *)
(* of which the provider is then told; once the relation is gone it scrapes *)
(* nothing (set_scrape_job_spec, _set_unit_ip, _static_scrape_config).  And *)
(* every exporter that was told of the last password can log in.            *)
MetricsFollowUnits ==
  <>[](/\ \A u \in There : u \in unaware \/ unit[u].exporter = sql
       /\ {<<j.juju_unit, j.target>> : j \in prom.targets} =
            IF metrics = "up" THEN {<<u, unit[u].ip>> : u \in There} ELSE {}
       /\ LET rev == unit[chief].rev IN metrics = "up" =>
            /\ prom.rules = IF rev \in BadRules THEN {}
                            ELSE {<<"topology", r>> : r \in InjectExprLabels(RuleGroups(rev))}
            /\ HasInvalidAlertRules = (rev \in BadRules))
=============================================================================
