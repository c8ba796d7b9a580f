------------------------------ MODULE CosAgent ------------------------------
(***************************************************************************)
(* Observability of the machine charm: a subordinate agent on every        *)
(* machine.  The unit publishes its scrape job, its alert rules and the    *)
(* tracing protocol it wants; its agent scrapes it, copies the rules into  *)
(* the peer databag of the agents, and answers with the tracing endpoint.  *)
(* The leader of the agents forwards one set of rules for the application. *)
(*                                                                         *)
(* Simplifications:                                                        *)
(*  - the application is related to the agent once, and neither publishes  *)
(*    data that the other finds malformed;                                 *)
(*  - the leadership of the agents moves only when the leader is removed;  *)
(*  - the charm publishes no log slots.                                  *)
(***************************************************************************)
EXTENDS Naturals, FiniteSets

CONSTANTS Machines,        \* Machines with a unit, those that may be added included
          NewMachines,     \* Those that are not there at first
          AgentRevisions,  \* Revisions of the charm, positive numbers
          NoAgent,         \* No agent leads
          MaxAgentMoves    \* Upgrades, units added or removed, changes of the tracing backend

ASSUME AgentAssumption ==
  /\ IsFiniteSet(Machines) /\ NewMachines \subseteq Machines /\ NewMachines # Machines
  /\ NoAgent \notin Machines
  /\ 1 \in AgentRevisions /\ AgentRevisions \subseteq Nat \ {0}
  /\ MaxAgentMoves \in Nat

VARIABLES
  agentRel,   \* The relation: "none", "up" or "dying"
  machine,    \* The units of the charm
  agent,      \* The agents
  boss,       \* The agent that leads
  forwarded,  \* What the leader forwards
  orphaned,   \* No event has come to the agent that leads since it was made the leader
  backend,    \* The tracing backend of the agents: "none", "http" or "https"
  agentMoves

agentVars == <<agentRel, machine, agent, boss, forwarded, orphaned, backend, agentMoves>>

-----------------------------------------------------------------------------
(* The data *)

\* _scrape_jobs: the exporter of this machine, under a name that does not depend on it
AgentScrapeJobs == {"localhost:exporter/metrics"}

\* _metrics_alert_rules: the rules of the charm, and the generic ones of the library once
MetricsAlertRules(rev) == {<<"charm", rev>>, <<"generic", 0>>}

\* _log_alert_rules and _dashboards: the directories that the charm names do not exist
LogAlertRules == {}
AgentDashboards == {}

\* CosAgentProviderUnitData, and a databag without it
ProviderUnitData(rev) ==
  [jobs |-> AgentScrapeJobs, rules |-> MetricsAlertRules(rev), logRules |-> LogAlertRules,
   dashboards |-> AgentDashboards, slots |-> {}, protocols |-> {"otlp_http"}]
NoData == [jobs |-> {}, rules |-> {}, logRules |-> {}, dashboards |-> {}, slots |-> {}, protocols |-> {}]

\* CosAgentPeersUnitData
PeersUnitData(data) ==
  [rules |-> data.rules, logRules |-> data.logRules, dashboards |-> data.dashboards]
NoEntry == PeersUnitData(NoData)

(* A unit: whether it is there, its revision, what it has published and its *)
(* events to come.  An agent: whether it is there, the tracing receiver it  *)
(* published for its unit ("unset", "null" without a URL, or the scheme of  *)
(* the URL), the entry in its peer databag, if any, what it scrapes and     *)
(* collects, and its events to come.                                        *)
NewAgent == [there |-> FALSE, receiver |-> "unset", peer |-> {}, scrapes |-> {}, logs |-> {}, todo |-> {}]

AgentInit ==
  /\ agentRel = "none" /\ boss = NoAgent /\ forwarded = NoEntry /\ orphaned = FALSE
  /\ backend = "none" /\ agentMoves = 0
  /\ machine = [m \in Machines |->
                  [there |-> m \notin NewMachines, rev |-> 1, data |-> NoData, todo |-> {}]]
  /\ agent = [m \in Machines |-> NewAgent]

Manned == {m \in Machines : machine[m].there}
AgentMove == agentMoves < MaxAgentMoves /\ agentMoves' = agentMoves + 1

-----------------------------------------------------------------------------
(* The charm *)

\* is_ready and get_tracing_endpoint: a receiver without a URL is one, and has no endpoint
IsReady(m) == agent[m].there /\ agent[m].receiver # "unset"
TracingEndpoint(m) == IF agent[m].receiver = "null" THEN "ProtocolNotFoundError" ELSE agent[m].receiver

\* _build_cos_traces: called when the charm starts, and nothing catches the error
BuildCosTraces(m) ==
  IF ~IsReady(m) THEN "off"
  ELSE CASE TracingEndpoint(m) = "http" -> "on"
         [] TracingEndpoint(m) = "https" -> "off"
         [] OTHER -> "error"

\* The events that COSAgentProvider observes
RefreshEvents == {"joined", "changed", "config"}

\* _on_refresh; no hook of a unit succeeds while its charm cannot start
OnRefresh(m, event) ==
  LET data == ProviderUnitData(machine[m].rev)
  IN  /\ m \in Manned /\ event \in machine[m].todo /\ BuildCosTraces(m) # "error"
      /\ machine' = [machine EXCEPT ![m].todo = @ \ {event},
                                    ![m].data = IF agentRel = "up" THEN data ELSE @]
      /\ agent' = IF agentRel = "up" /\ machine[m].data # data /\ agent[m].there
                  THEN [agent EXCEPT ![m].todo = @ \cup {"changed"}] ELSE agent
      /\ UNCHANGED <<agentRel, boss, forwarded, orphaned, backend, agentMoves>>

-----------------------------------------------------------------------------
(* The agents *)

\* _gather_peer_data: one entry for the application, the agent's own first, even an empty one
GatherPeerData(a, agents) ==
  IF agents[a].peer # {} THEN agents[a].peer
  ELSE UNION {agents[b].peer : b \in {c \in Machines : agents[c].there}}

\* metrics_alerts, logs_alerts and dashboards: of the first entry that has any
MetricsAlerts(entry) == entry.rules
LogsAlerts(entry) == entry.logRules
ForwardedDashboards(entry) == entry.dashboards

\* The leader forwards them
Forward(agents) ==
  LET entries == GatherPeerData(boss, agents)
  IN  \E e \in IF entries = {} THEN {NoEntry} ELSE entries :
        forwarded' = [rules |-> MetricsAlerts(e), logRules |-> LogsAlerts(e),
                      dashboards |-> ForwardedDashboards(e)]

\* _remote_data: that of the unit beside the agent, which each job and slot is labelled with
RemoteData(a) == {<<machine[b].data, b>> : b \in {a} \cap {c \in Manned : machine[c].data # NoData}}
MetricsJobs(a) == UNION {{<<job, d[2]>> : job \in d[1].jobs} : d \in RemoteData(a)}
SnapLogEndpoints(a) == UNION {{<<slot, d[2]>> : slot \in d[1].slots} : d \in RemoteData(a)}

\* data_changed on an agent, after a change of its own peer data; Juju tells the leader
DataChanged(a, agents) ==
  IF a = boss THEN Forward(agents) /\ orphaned' = FALSE /\ agent' = agents
  ELSE /\ UNCHANGED <<forwarded, orphaned>>
       /\ agent' = IF agents[a].peer = agent[a].peer THEN agents
                   ELSE [agents EXCEPT ![boss].todo = @ \cup {"peer"}]

\* requested_tracing_protocols
RequestedProtocols(m) == machine[m].data.protocols

\* update_tracing_receivers: a receiver for each protocol, with a URL where there is a backend
ReceiverUrl == IF backend = "none" THEN "null" ELSE backend
Receiver(m) == IF RequestedProtocols(m) = {} THEN "unset" ELSE ReceiverUrl

\* The unit hears of a receiver that is new to it
Hears(a, receiver) ==
  machine' = IF receiver = agent[a].receiver THEN machine
             ELSE [machine EXCEPT ![a].todo = @ \cup {"changed"}]

(* Mistake: a change of the rules waits for the next event of the leader *)
DataChangedSilently(a) ==
  /\ agent[a].there /\ "changed" \in agent[a].todo /\ machine[a].data # NoData /\ Hears(a, Receiver(a))
  /\ agent' = [agent EXCEPT ![a] = [@ EXCEPT !.todo = @ \ {"changed"}, !.receiver = Receiver(a),
                                             !.peer = {PeersUnitData(machine[a].data)},
                                             !.scrapes = MetricsJobs(a), !.logs = SnapLogEndpoints(a)]]
  /\ UNCHANGED <<agentRel, boss, forwarded, orphaned, backend, agentMoves>>

\* _on_relation_data_changed
OnRelationDataChanged(a) ==
  /\ agent[a].there /\ "changed" \in agent[a].todo /\ machine[a].data # NoData /\ Hears(a, Receiver(a))
  /\ DataChanged(a, [agent EXCEPT ![a] = [@ EXCEPT
       !.todo = @ \ {"changed"}, !.receiver = Receiver(a), !.peer = {PeersUnitData(machine[a].data)},
       !.scrapes = MetricsJobs(a), !.logs = SnapLogEndpoints(a)]])
  /\ UNCHANGED <<agentRel, boss, backend, agentMoves>>

\* _on_peer_relation_changed
OnPeerRelationChanged(a) ==
  /\ a = boss /\ "peer" \in agent[a].todo
  /\ DataChanged(a, [agent EXCEPT ![a].todo = @ \ {"peer"}])
  /\ UNCHANGED <<agentRel, machine, boss, backend, agentMoves>>

\* The charm of the agents calls update_tracing_receivers when its backend changes
OnTracingChanged(a) ==
  /\ agent[a].there /\ "tracing" \in agent[a].todo /\ Hears(a, Receiver(a))
  /\ agent' = [agent EXCEPT ![a].todo = @ \ {"tracing"}, ![a].receiver = Receiver(a)]
  /\ UNCHANGED <<agentRel, boss, forwarded, orphaned, backend, agentMoves>>

\* _on_relation_departed: the entry of the unit is emptied, and nothing is left to scrape
OnRelationDeparted(a) ==
  /\ agent[a].there /\ (agentRel = "dying" \/ a \notin Manned) /\ agent[a].peer # {NoEntry}
  /\ DataChanged(a, [agent EXCEPT ![a] = [@ EXCEPT !.peer = {NoEntry}, !.scrapes = {}, !.logs = {},
                                                           !.todo = {}]])
  /\ UNCHANGED <<agentRel, machine, boss, backend, agentMoves>>

-----------------------------------------------------------------------------
(* Juju, and the operator *)

\* The subordinate is removed; another agent leads, if it led, and no event tells it
AgentRemoved(a) ==
  /\ agent[a].there /\ agent[a].peer = {NoEntry}
  /\ agent' = [agent EXCEPT ![a] = NewAgent]
  /\ LET others == {b \in Machines \ {a} : agent[b].there} IN
     IF a # boss THEN UNCHANGED <<boss, orphaned>>
     ELSE /\ IF others = {} THEN boss' = NoAgent ELSE boss' \in others
          /\ orphaned' = (others # {})
  /\ UNCHANGED <<agentRel, machine, forwarded, backend, agentMoves>>

\* A subordinate is installed beside a unit
AgentInstalled(m) ==
  /\ agentRel = "up" /\ m \in Manned /\ ~agent[m].there
  /\ agent' = [agent EXCEPT ![m] = [NewAgent EXCEPT !.there = TRUE, !.todo = {"changed"}]]
  /\ machine' = [machine EXCEPT ![m].todo = @ \cup {"joined"}]
  /\ IF boss = NoAgent THEN boss' = m ELSE UNCHANGED boss
  /\ UNCHANGED <<agentRel, forwarded, orphaned, backend, agentMoves>>

RelateAgent ==
  /\ agentRel = "none" /\ agentRel' = "up"
  /\ UNCHANGED <<machine, agent, boss, forwarded, orphaned, backend, agentMoves>>

UnrelateAgent ==
  /\ agentRel = "up" /\ agentRel' = "dying"
  /\ machine' = [m \in Machines |-> [machine[m] EXCEPT !.todo = @ \ {"joined", "changed"}]]
  /\ UNCHANGED <<agent, boss, forwarded, orphaned, backend, agentMoves>>

BackendChanges ==
  /\ AgentMove /\ backend' \in {"none", "http", "https"} \ {backend}
  /\ agent' = [m \in Machines |-> IF agent[m].there THEN [agent[m] EXCEPT !.todo = @ \cup {"tracing"}]
                                  ELSE agent[m]]
  /\ UNCHANGED <<agentRel, machine, boss, forwarded, orphaned>>

\* Juju runs config-changed after upgrade-charm
MachineUpgraded(m) ==
  /\ m \in Manned /\ AgentMove
  /\ \E r \in {s \in AgentRevisions : s > machine[m].rev} :
       machine' = [machine EXCEPT ![m].rev = r, ![m].todo = @ \cup {"config"}]
  /\ UNCHANGED <<agentRel, agent, boss, forwarded, orphaned, backend>>

MachineAdded(m) ==
  /\ m \notin Manned /\ ~agent[m].there /\ AgentMove
  /\ machine' = [machine EXCEPT ![m] = [there |-> TRUE, rev |-> 1, data |-> NoData, todo |-> {}]]
  /\ UNCHANGED <<agentRel, agent, boss, forwarded, orphaned, backend>>

MachineRemoved(m) ==
  /\ m \in Manned /\ Manned # {m} /\ AgentMove
  /\ machine' = [machine EXCEPT ![m].there = FALSE, ![m].todo = {}]
  /\ UNCHANGED <<agentRel, agent, boss, forwarded, orphaned, backend>>

AgentHook == \E m \in Machines :
  \/ \E e \in RefreshEvents : OnRefresh(m, e)
  \/ OnRelationDataChanged(m) \/ OnPeerRelationChanged(m) \/ OnTracingChanged(m)
  \/ OnRelationDeparted(m) \/ AgentRemoved(m) \/ AgentInstalled(m)

AgentNext ==
  \/ AgentHook \/ RelateAgent \/ UnrelateAgent \/ BackendChanges
  \/ \E m \in Machines : MachineUpgraded(m) \/ MachineAdded(m) \/ MachineRemoved(m)

-----------------------------------------------------------------------------
(* Properties *)

(* When events have settled, every unit is scraped by its own agent and     *)
(* sends its traces where the backend is reached over HTTP, the rules that  *)
(* the agents forward are those that the unit of their leader runs, and     *)
(* nothing is scraped or forwarded once the relation is gone                *)
(* (_on_relation_data_changed, _gather_peer_data, update_tracing_receivers, *)
(* _on_refresh).  The rules may be out of date where the leader was removed *)
(* and nothing has happened since, and where the charm of its unit cannot   *)
(* start because its agents have no tracing backend.                        *)
AgentFollowsUnits ==
  \A m \in Machines : <>[](
    LET live == agentRel = "up" /\ m \in Manned
    IN  /\ agent[m].scrapes = IF live THEN {<<job, m>> : job \in AgentScrapeJobs} ELSE {}
        /\ BuildCosTraces(m) = "on" <=> live /\ backend = "http"
        /\ live => \/ orphaned \/ BuildCosTraces(boss) = "error"
                   \/ forwarded = PeersUnitData(ProviderUnitData(machine[boss].rev))
        /\ agentRel # "up" => forwarded = NoEntry)
=============================================================================
