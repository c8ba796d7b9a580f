CONSTANTS
  p1 = p1
  l1 = l1
  l2 = l2
  u1 = u1
  u2 = u2
  u3 = u3
  g1 = g1
  g2 = g2
  m1 = m1
  m2 = m2
  Pods = {p1}
  Lokis = {l1, l2}
  NotRunning = NotRunning
  MaxLogMoves = 2
  MaxLogFaults = 1
  Members = {u1, u2}
  Newcomers = {}
  Addresses = {1, 2, 3}
  Revisions = {1, 2}
  BadRules = {2}
  MaxMetricMoves = 2
  DashUnits = {u1, u2}
  Grafanas = {g1, g2}
  DashRevisions = {1, 2, 3}
  OwnSource = {1}
  BadDashboards = {2}
  MaxDashMoves = 3
  Machines = {m1, m2}
  NewMachines = {m2}
  NoAgent = NoAgent
  AgentRevisions = {1, 2}
  MaxAgentMoves = 3
  Residents = {m1, m2}
  NewResidents = {m2}
  NoAddress = NoAddress
  NoWatcher = NoWatcher
  Loopback = Loopback
  MaxHostMoves = 4
  Servers = {u1, u2, u3}
  NoServer = NoServer
  Storages = 2
  MaxDepMoves = 1
  MaxSetupFaults = 3
  Holders = {u1, u2}
  Keys = {1, 2}
  BadKeys = {2}
  NoKey = NoKey
  MaxKeyMoves = 3
  Keepers = {u1, u2}
  Accounts = {"operator", "monitor", "backups"}
  Operator = "operator"
  Monitor = "monitor"
  Strangers = {"other"}
  Passwords = {1, 2}
  TooLong = {2}
  NoCall = NoCall
  MaxPwMoves = 4
SPECIFICATION CompanionsSpec
INVARIANT LogsKeptUntilShipped
INVARIANT RemovalIsClean
INVARIANT PasswordsAgree
PROPERTIES LogsReachLoki MetricsFollowUnits DashboardsFollowCharm AgentFollowsUnits HostsFollowPeers SetupIsMadeGood CertificatesFollowKey
CHECK_DEADLOCK FALSE
