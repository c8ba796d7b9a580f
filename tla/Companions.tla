----------------------------- MODULE Companions -----------------------------
(***************************************************************************)
(* The parts of the charm beside the cluster itself: logs, metrics and     *)
(* dashboards of the Kubernetes charm, the agent and the addresses of the  *)
(* machine charm, the first start of a server, the keys of its             *)
(* certificates, the passwords of the charm and the removal of units.      *)
(* Each has its own relation or its own keys, and none reads what another  *)
(* one writes: a behaviour is a behaviour of one of them.                  *)
(***************************************************************************)
EXTENDS LogForwarding, Metrics, Dashboards, CosAgent, Addresses, ServerSetup,
        CertificateKeys, Credentials, Departure

VARIABLE part  \* What this behaviour is about

companionVars == <<logVars, metricVars, dashVars, agentVars, hostVars, setupVars, keyVars, pwVars,
                   depVars, part>>

CompanionsInit ==
  /\ part \in {"logging", "metrics-endpoint", "grafana-dashboard", "cos-agent",
               "addresses", "setup", "certificates", "passwords", "departure"}
  /\ LogInit /\ MetricsInit /\ DashInit /\ AgentInit /\ AddressInit /\ SetupInit
  /\ KeysInit /\ CredentialsInit /\ DepInit
  /\ part = "departure" \/ writer = depLeader
  /\ part = "certificates" \/ keyLeader = CHOOSE u \in Holders : TRUE
  /\ part = "passwords" \/ pwLeader = CHOOSE u \in Keepers : TRUE
  /\ part = "setup" \/ (box.substrate = "container" /\ box.leads /\ box.files = "empty")

Logging(A) ==
  /\ part = "logging" /\ A
  /\ UNCHANGED <<part, metricVars, dashVars, agentVars, hostVars, setupVars, keyVars, pwVars, depVars>>
MetricsEndpoint(A) ==
  /\ part = "metrics-endpoint" /\ A
  /\ UNCHANGED <<part, logVars, dashVars, agentVars, hostVars, setupVars, keyVars, pwVars, depVars>>
GrafanaDashboard(A) ==
  /\ part = "grafana-dashboard" /\ A
  /\ UNCHANGED <<part, logVars, metricVars, agentVars, hostVars, setupVars, keyVars, pwVars, depVars>>
Agents(A) ==
  /\ part = "cos-agent" /\ A
  /\ UNCHANGED <<part, logVars, metricVars, dashVars, hostVars, setupVars, keyVars, pwVars, depVars>>
MachineHosts(A) ==
  /\ part = "addresses" /\ A
  /\ UNCHANGED <<part, logVars, metricVars, dashVars, agentVars, setupVars, keyVars, pwVars, depVars>>
FirstStart(A) ==
  /\ part = "setup" /\ A
  /\ UNCHANGED <<part, logVars, metricVars, dashVars, agentVars, hostVars, keyVars, pwVars, depVars>>
Certificates(A) ==
  /\ part = "certificates" /\ A
  /\ UNCHANGED <<part, logVars, metricVars, dashVars, agentVars, hostVars, setupVars, pwVars, depVars>>
OwnPasswords(A) ==
  /\ part = "passwords" /\ A
  /\ UNCHANGED <<part, logVars, metricVars, dashVars, agentVars, hostVars, setupVars, keyVars, depVars>>
Removal(A) ==
  /\ part = "departure" /\ A
  /\ UNCHANGED <<part, logVars, metricVars, dashVars, agentVars, hostVars, setupVars, keyVars, pwVars>>

CompanionsNext ==
  \/ Logging(LogNext) \/ MetricsEndpoint(MetricNext) \/ GrafanaDashboard(DashNext)
  \/ Agents(AgentNext) \/ MachineHosts(AddressNext) \/ FirstStart(SetupNext)
  \/ Certificates(KeyNext) \/ OwnPasswords(PwNext) \/ Removal(DepNext)

(* Juju runs the hooks that are due, and a watcher keeps looking.  The      *)
(* operator, Kubernetes, the machines and the backends owe nothing.         *)
CompanionsFairness ==
  /\ WF_companionVars(Logging(LogHook))
  /\ WF_companionVars(MetricsEndpoint(MetricHook))
  /\ WF_companionVars(GrafanaDashboard(DashHook))
  /\ WF_companionVars(Agents(AgentHook))
  /\ WF_companionVars(FirstStart(SetupHook))
  /\ WF_companionVars(Certificates(KeyHook))
  /\ \A u \in Residents : WF_companionVars(MachineHosts(HostHook(u)))

CompanionsSpec == CompanionsInit /\ [][CompanionsNext]_companionVars /\ CompanionsFairness
=============================================================================
