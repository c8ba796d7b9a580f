# Verification of the MySQL operators

TLA+ models, TLC runs and TLAPS proofs for the MySQL charms (machines and
Kubernetes), whose common code is `src/common/src/single_kernel`. Paths below
are relative to that directory unless they start with `docs/`.

## 1. Inventory

A charm process runs once per Juju event (a *hook*) on each unit. It builds the
handlers, managers and clients, handles the event and exits. Everything that
lasts is outside of it: MySQL and its metadata, the Juju databags and secrets, the
locks table, files, and daemons that emit further events.

| Component | State | Operations | Hard because | Correct if | Module |
|---|---|---|---|---|---|
| Instance locks (`managers/clients/mysql_server/mysql_cluster.py`) | rows of `mysql.juju_units_operations` | acquire (UPDATE, SELECT), release | two statements per operation, lost answers, hooks die with the row | exclusive; never stolen; given back | `InstanceLocking` |
| Lifecycle (`events/handlers/lifecycle.py`) | passwords, cluster names, leader flag, instance state, data directory | install, leader-elected, start, update-status, storage-detaching | start is deferred and retried; leadership moves; hooks die half-way | one cluster; a server that can be used | `ClusterFormation`, `ServerSetup`, `Departure` |
| Cluster membership (`events/handlers/cluster.py`) | the metadata of the cluster | relation-changed joins; promote | several units join at once; a failed join leaves its label | every unit joins; members are listed | `ClusterFormation`, `Departure` |
| Passwords (`events/handlers/cluster.py`, `charm/secrets.py`) | accounts, the secret, the exporter | set-password | three places, changed one by one | secret and accounts agree | `Credentials` |
| Self-healing (`events/handlers/self_healing.py`, `services/self_healing`) | group views, published states, the daemon | the self-healing event | stale databags; no quorum; several recover at once | heals; never stops or doubles a working group | `SelfHealing` |
| Configuration (`events/helpers/events/config.py`, `managers/managers/config`) | the file and the live variables | save, apply, ask for a restart | file and server differ after a failure | what is configured is in force and fits the memory | `Reconfiguration`, `ServerProfile` |
| Rolling operations (`events/helpers/events/rolling_ops.py`) | a lock of an external library | restart an instance or its replication | the primary goes last, by a cached role | a member stays online; nobody waits for ever | `Reconfiguration` |
| TLS (`events/handlers/tls.py`) | keys, requests, certificates, variables | rotated, available, broken | deferred events; a record of the leader that others compare with | certificates follow key and relation | `CertificateKeys`, `Reconfiguration` |
| Refresh (`charm/refresh`) | the snap, the order of the units | checks, snap refresh | servers stop outside of rolling operations | see rolling operations | `Reconfiguration` |
| Backup (`events/handlers/backup.py`, `managers/managers/backup`) | hidden tag, offline mode, files, bucket | create, list, restore | many steps, each may fail | instances return to service; no false success; no half data | `Backup` |
| Database provider (`events/handlers/database.py`, `libs/data_platform_libs`) | users, databags, secrets, labels | requested, departed, broken, endpoint updates | only the leader writes, from its own events | credentials work and end; clients follow the topology | `Provider`, `RelationData` |
| Logs (`libs/loki_k8s`, `events/handlers/log_rotation.py`) | Promtail, retention flag | relation hooks, pebble-ready | pods restart, downloads fail | logs arrive, or are kept | `LogForwarding` |
| Metrics (`libs/prometheus_k8s`, exporter) | jobs, addresses, rules | relation hooks, refresh | pods get new addresses | every unit is scraped | `Metrics` |
| Dashboards (`libs/grafana_k8s`) | stored and published dashboards | relation hooks, upgrade | leader and revision change | the leader's revision is shown | `Dashboards` |
| Agent (`libs/grafana_agent`) | databags of units and agents | relation hooks | agents come and go | scraped by the own agent | `CosAgent` |
| Addresses (`events/handlers/address.py`, `services/address`) | hosts file, watcher | address-changed, relation hooks | watchers restart | peers are resolved | `Addresses` |
| Server service (`workload/services/mysql_server`) | data files, init_file | install, setup, start, stop | killed half-way | made good by the next hook | `ServerSetup` |

The components meet in four places. Handlers change MySQL through the clients;
units learn of each other through databags, which a hook commits only when it ends
well, and which wake the other side by relation-changed; joins, rejoins and
removals are serial through the locks table; daemons emit events through
`juju-exec`. The behaviours a test hardly reaches are listed under `hazards` in
`PROJECT.json`, each at its line.

## 2. Plan

Done, in this order:

1. `ClusterLock`, `InstanceLocking` and proofs: the locks everything else uses.
2. `ClusterFormation` and proofs: how units become a cluster; it composes
   `InstanceLocking`.
3. `SelfHealing`: how they stay one; it composes the abstract `ClusterLock`,
   which 1. proves is enough.
4. `Backup`.
5. `ServerProfile` (with proofs) and `Reconfiguration`, which extends it.
6. `RelationData` and `Provider`, which extends it.
7. `LogForwarding`, `Metrics`, `Dashboards`, `CosAgent`, `Addresses`,
   `ServerSetup`, `CertificateKeys`, `Credentials` and `Departure`, composed in
   `Companions`.

8. The proofs: `Companions_proofs`, `Backup_proofs`, `Reconfiguration_proofs`,
   `SelfHealing_proofs` and `Provider_proofs`, and `ListingIsLocked` of
   `ClusterFormation_proofs`. Every safety invariant and action property of a passing
   run is stated by a theorem.

Left: type invariants as theorems of their own where they are part of an inductive
invariant so far; `SelfHealing` with partitions, and what its group keeps after a
second crash; a unit that is removed while it joins.

## 3. The modules

**ClusterLock** says what a row promises: one executor, only the executor is
inside, a row changes hands only through "nobody". A dead executor keeps its row.

**InstanceLocking** is `_acquire_lock`, `_release_lock` and `_locking`. `executor`
is the column; `pc`, `row` and `attempts` are the position, the task and the retry
count of the context manager on each unit. UPDATE and SELECT are steps of their
own; `AcquireError` and `ReleaseError` are an `ExecutionError` before or after the
UPDATE took effect; `AttemptFails` is tenacity's retry; `Die` ends a hook without
its `finally`; `Rerun` is Juju running it again. The query texts belong to an
external library; what they do is taken from how `_locking` uses their answers
and their arguments (task and label).

**ClusterFormation** is `_on_leader_elected`, `_on_leader_changed`, `_on_start`,
`_on_update_status` and `_on_relation_changed`. Per unit it has the events that
wait (`elected`, `changed`, `startSent`), the running hook (`event`, `stage`), the
databag as the hook wrote it (`local`) and as committed (`stored`), and MySQL
(`data`, `cluster`, `metadata`, `clusterSets`). A cluster is named after the unit
that founded it, although in the code all have the application's name: this tells
two clusters of that name apart. A deferred start is emitted before the hook's own
event. The role is published together with the state and is not kept apart.
A hook's steps are split where it talks to MySQL: set up, configure, create,
cluster-set, lock, detach, attach. `Crash` may strike between any two of them, and
`Rerun` then returns to the committed databag while MySQL keeps what was done.

**SelfHealing** is `_on_self_healing` with its four paths, the manager behind them
and the daemon. `view[u]` is the group as the server of `u` sees it ({} is
OFFLINE), `metadata[u]` its copy of the listed instances, `databag[u]` the state it
last published. Group replication is external: quorum, expulsion, recovery on
start and the preconditions of a reboot are modelled from how the code uses them; an
expulsion changes the views of the members that take part in it, and of nobody else.
The lock is the abstract one, one row for all groups, and joins and rejoins take it
alike. A join has the steps that an outage can tell apart: the row, the addition, the
release, and the publication of the state (`PublishState`), because Juju commits the
databag when the hook ends; a hook that dies before leaves `waiting` in the databag of
a member, and its rerun finds nothing to join. `caught` remembers that a crash struck
while a member still read as waiting. Statements and starts of the server that fail are
not bounded; only crashes are.

**Backup** is the three actions. `act[u]` is a program counter that walks through
the calls with an effect outside of the handler: four kinds of object in the bucket
(`bucket`), the isolation (`hidden`, `offline`), and for a restoration the
directories (`temp`, `data`) and the server. Every step may fail as its call does;
an exception in the body of `isolate_instance` is suppressed as in the code, a dead
hook stops wherever it is. The ID of a backup is the second of its request, so two
requests may collide. A unit that is added has storage of its own, also where it
takes the place of one that was removed. Self-healing is there as far as a restoration
meets it: `HealServer` starts a server that does not run, on whatever its data directory
holds (`Live`, a backup, `Lost` once emptied, `Torn` where a deletion or a move was cut
short), and `HealInstance` rejoins it, reboots the cluster or makes it anew; `known` says
whether the server still has the metadata of a cluster. Whether mysqld starts on a torn
directory is left open. `disturbed` and `swallowed` remember which instance or backup
met what the code does not repair.

**ServerProfile** is the arithmetic of `config_profile.py` with `MiB` as a
parameter; **Reconfiguration** has the options (`wanted`), the file and the live
variables of every unit, the waiting operations, the events about certificates,
and the refresh. A rolling restart and a refresh are several steps, because other
units act while a server is down. `wait_recovering` may end before the recovery does (an
error counts as its end, and so does a state that is not RECOVERING yet): then the lock
is released all the same, and `hasty` keeps the units whose lock was released too early.
The certificate events of a unit are a queue with a `cursor`: a hook emits the
`deferred` ones again from the first, then its own, and an event that is deferred once
more does not hold back those behind it, so that relation-broken may be handled before
an earlier certificate-available; `overtaken` keeps the pairs of unit and type for which
that has happened, until the next change with an empty queue.

**RelationData** is what `data_interfaces` does with one relation: a record of the
two databags and the secret, and operators for `diff`, `_process_secret_fields`,
`_add_or_update_relation_secrets`, `update_relation_data` and the setters and
events built on them. `Put` is a write to a databag, from which Juju drops a key with
an empty value. **Provider** runs the handlers over it: `hook[u].work` is
what the hook has written and Juju has not committed; users, databases and labels
are changed at once. A hook that dies loses the first and keeps the second. A hook
commits the databag it worked on as a whole, where Juju commits the keys that were
set; this differs only for a unit that loses and regains the leadership in one hook.
A field that the secret did not take has a second chance as a normal field
(`data_interfaces.py:1588-1591`), which `Update` does not have: the provider's writer
finds the secret by its URI or raises `SecretNotFoundError` (line 821), so that it never
returns False. A client asks for secrets when it relates or never, so that a databag
with plain credentials does not meet a later request for secrets.

**LogForwarding**, **Metrics**, **Dashboards** and **CosAgent** model both sides of
an observability relation, the charm's and the one that the same library gives to
Loki, Prometheus, Grafana and the agent; what those applications do with the data
is external. Documents (jobs, rules, dashboards) are records of what the library
adds to or takes from them.

**Addresses** has a watcher per machine, the address in the databag, the published
name and `/etc/hosts`. **ServerSetup** is the first start of one server, step by
step; `box` is its machine or pod. **CertificateKeys** has the secret that the
option names, the leader's record, and per unit the request, the files, and the
key that the server uses. **Credentials** has the passwords in the secret, in MySQL
and in the exporters, and the steps of set-password. **Departure** walks the hooks
of storage-detaching through promote, acquire, detach and release, beside others
that leave, promotions and moves of the leadership.

**Companions** puts the nine of them in one specification. They share nothing, so
a behaviour is about one of them (`part`).

`..._proofs` modules extend the module of a part with its theorems, `MC...` modules
give TLC its constants. Definitions marked *Mistake* are plausible
bugs; each shows, put in place of the definition below it, that a property notices.

## 4. The runs

| Run | Expect | Shows |
|---|---|---|
| `locking` | pass | 3 units, two rows, 2 attempts: `MutualExclusion`, `RowIsNeverStolen`, `ImplementsClusterLock` |
| `formation_faults` | pass | 2 units (workloads that get ready at any time), 2 faults, 1 move of leadership, clusters of at most 2: `OneClusterUnderOneLeader`, `MembersAreListed`, `ListingChangesUnderLock`, `NeverSwitchesCluster` |
| `formation_live` | pass | 3 units, no faults: `EveryUnitJoins`, `LocksAreReleased` |
| `lost_wakeup` | violation | a unit that becomes ready late is never joined, against `docs/explanation/flowcharts.md:26` |
| `leadership_moves` | violation | two clusters are founded, against `docs/explanation/architecture.md:211` |
| `self_healing` | pass | 3 units, 1 crash of any servers, all units joined or only the leader: `OneCrashNeverSplits`, `OneAttaches`, `HealthyGroupIsNotStopped`, `HealsAfterOneCrash` |
| `quorum_loss` | violation | a loss of quorum is recovered without the user, against `docs/reference/troubleshooting/recover-from-quorum-loss.md:15` and `docs/explanation/self-healing.md:57-68` |
| `stale_databag` | violation | 3 units, two of them waiting, 1 crash: a recovery from a complete outage beside a unit that has just joined, against `docs/explanation/self-healing.md:30` |
| `backup` | pass | 3 units, 2 actions, 2 faults, 1 change of the topology, 2 seconds: `InServiceWhenIdle`, `ReportedIsListed`, `OnlineServesWholeData`, `DataGivenUpForCopy`, `IsolationEnds`, `InstanceComesBack` |
| `reconfiguration` | pass | 2 units, 2 changes, 2 faults, 3 sets of options: `SomeMemberOnline`, `TlsFollowsRelation`, `PoolFits`, `ConfigConverges`, `OperationsEnd` |
| `provider` | pass | 2 units and a client (a Router on Kubernetes, or an application without secrets on machines), 1 fault, 1 move: `PublishedCredentialsWork`, `AccountsEndWithRelation`, `RequestsAreAnswered`, `ClientsFollowTopology`, `LabelsFollowTopology` |
| `companions` | pass | the nine parts, each with 1 to 4 moves or faults: `LogsReachLoki`, `LogsKeptUntilShipped`, `MetricsFollowUnits`, `DashboardsFollowCharm`, `AgentFollowsUnits`, `HostsFollowPeers`, `SetupIsMadeGood`, `CertificatesFollowKey`, `PasswordsAgree`, `RemovalIsClean` |

Several properties have an *unless*. It names what the code does not repair (a hook
that dies between an account and its secret, an exception that is suppressed, an
error that is only logged): the hazard says so at its line, and the property then
shows that nothing else leads there. An excuse is a variable that only the step in
question sets, and it ends where the code makes the matter good.

`HealthyGroupIsNotStopped` and `OneCrashNeverSplits` speak of behaviours in which
servers crash once, any number of them at the same time, and `self_healing` has no
more. With more crashes TLC finds both violated. For the first one it has
counterexamples with four units and two crashes, and with three units and three crashes:
quorum is lost and found again, because members return or are expelled, between the look
at the cluster and the stop of the replication (the hazard at `self_healing.py:99`). For
the second one `stale_databag` has a counterexample with a single crash, at the moment
that `caught` excuses; with a second crash peers that published OFFLINE and have since
come back lead to the same. `HealsAfterOneCrash` covers the loss of two servers out of
three, too, since the code heals it; `quorum_loss` says that the documentation has it
otherwise, in two places. It asks for units that have all joined and published it: with
one that still waits, the peer states after an outage are OFFLINE and waiting, which is
none of the sets that `_recover_from_offline_leader` recovers from.

`SomeMemberOnline` and `TlsFollowsRelation` excuse one thing each, which the code does
not exclude. Without units that released the lock before they were online again (`hasty`)
a member stays online; where all units but one are among them, there may be none. Without
an event that overtook another one of its type the certificate is that of the relation;
where relation-broken overtook a deferred certificate-available, TLS stays enabled, with
the paths of files that are gone, until the next change. Three checks of the backup code
are made once and relied on later, and the model goes on as the code does: a second
backup may begin before the first one is isolated, an instance may become primary after
its role was looked at, and units may be added while a restoration downloads.
`InstanceComesBack` excuses a unit that is `Stranded`: without data, without metadata,
or with a restored backup beside a group that works.

*Bounds.* Three units are the smallest number in which two others compete while a third
one works, and in which one crash leaves a quorum and two do not; two units suffice for
`formation_faults` because every conflict in forming a cluster is between a founder and
a joiner or between two founders, for `provider` because one is the leader and one
becomes it, and for `reconfiguration` because the rolling lock is contended by the
primary, which gives way, and one other unit (with three units and no faults it passes
as well, and the theorems about its invariants have no bound). Two attempts have a retry
and a last attempt, as ten have. A maximum size of two makes the cluster full. Two
faults let the second one strike the repair of the first; one move of the topology in
`backup` puts another primary or another unit beside the actions. The runs that are to
be violated have the smallest bounds at which TLC finds the trace. `ServerSetup` has
three faults, since a rerun may be interrupted too. Two seconds give two backups the
same ID or different ones. Two revisions, keys, addresses or passwords are enough to
tell the old from the new; a third one is there where an invalid one is a case of its
own, or where an address is used again. Two storages give a unit a second detaching hook
after it has been taken out. `CertificatesFollowKey` has also been checked with five
moves.

*Fairness.* A hook that runs goes on (`WF` of a unit's steps); Juju delivers
elected, start and update-status (`WF`), and a waiting relation-changed even if
other hooks come first time and again (`SF`, Juju's queue is served in order). A
living daemon emits its event, and the service manager restarts a server that died
(`WF`); update-status runs between the handlers of self-healing (`SF`: it is not
enabled during one). In `Reconfiguration` hooks go on and members recover (`WF`), and
config-changed is run and the lock is given in the end to a unit that keeps asking
(`SF`: neither is enabled while another hook of the unit runs or another unit has the
lock). In `Backup` a hook that began goes on and the self-healing of every unit is run
again and again (`WF`). In `Provider`
and `Companions` the hooks that are due are run (`WF`), and members that failed
return, which is what self-healing is for. Crashes, errors, operators and moves of
leadership are never required; `Departure` and `Credentials` need no fairness.

## 5. The proofs

`InstanceLocking_proofs`, for any set of units and rows and any number of attempts.
`MutualExclusion` is not inductive; `ExecutorInv` adds that a unit between its
successful SELECT and its own release is the executor of its row, and that a unit
in the protocol has a row and an attempt left. From it follow the theorems
`TypeCorrect`, `Exclusion`, `NeverStolen` and `Refinement` (each step of the
protocol is a step of `ClusterLock` or leaves it alone).

`ClusterFormation_proofs`, for any set of units, any bounds on faults and moves and
any maximum size. The inductive invariant is `MembersAreListed` with: the shape of
the variables it speaks of, every cluster that lists anybody was founded by a unit
that belongs to it, a unit that founds or joins belongs to no cluster yet, a
server in a cluster is set up, and, before the leadership moves, only the leader
has founded one. From it follow `Listed`, `OneFounder` and `MembershipIsForEver`.
The last two need it because a hook that crashed is run again: what keeps a second
founding away is the data directory that stayed set up.

`ServerProfile_proofs`, for every size of a MiB: `PoolFitsMemory` says that in any
memory of at least 512 MiB the buffer pool and the message cache fit together and
that the pool is a whole number of its chunks, although it is rounded up twice. It
rests on two lemmas about the rounding (`MultipleRemainder`, `RoundUpBounds`), and
on a case distinction along the branches of `calculate_buffer_pool`. The run
`reconfiguration` checks the same for the options it sets (`PoolFits`).

`ClusterFormation_proofs` also has `ListingIsLocked`: the listing of a cluster gains and
loses a unit, its founder apart, only while that unit alone works under the row for it
(`ListingChangesUnderLock`). It rests on `RowInv`, that a unit between its successful
SELECT and its release is the executor of its row, and on `AsksFor`, that a hook works
under the row of the task it is at, although the two rows are taken one after the other
and hooks die in between.

`SelfHealing_proofs`, for any number of units, any of them waiting to join, and any
number of servers that crash together. The invariant has three layers: types always;
`Sound` while servers have crashed once at most and caught no join before its databag
was written; `Calm` before the first crash, when a unit that knows a cluster is ONLINE
in it. `Sound` says that there is one group, that a handler which is about to stop,
reboot or recreate still knows what it saw (`Path`), and that somebody who sees the
group has published it (`Published`): without that part the leader takes a cluster for
lost that is not. A lemma on majorities (`Majority`) rests on the cardinality theorems
of the library. From it follows `NoSplitAfterOneCrash`. `QuorateGroupsAreKept` has no
use for databags and holds of crashes that catch a join, too; its invariant `QInv`
(theorem `StopInvariance`) says that a server which sees a group and is in the view of a
member with quorum has quorum itself (`Apart`), and that a handler which is about to
stop replication still sees no quorum (`Stops`). `OneRejoinsAtATime` is about joins and
rejoins together, through any number of crashes: who attaches is inside the row
(`LockHeld`).

`Backup_proofs`, for any units, actions, seconds, faults and changes of the topology.
The invariant says which action hides an instance (`IsolatedByAction`), which objects
are in the bucket at each stage (`BackupInBucket`), what a restoration has in hand at
each stage and what it keeps self-healing from (`CopyReady`), and what a server serves
whoever started it (`ServesWhole`). From it follow `BackInService`, `ReportsAreTrue`,
`WholeDataIsServed` and, as a property of steps, `DataIsKept`. The first attempt at
`WholeDataIsServed` failed at `AddUnit`, which gave a new unit the directory of the one
it replaced: a mistake of the model, which now gives it storage of its own.

`Reconfiguration_proofs`, for any number of units, in three independent parts.
`TlsFollows`: unless an event of the type was overtaken, the last event of a queue says
what is assigned (`LastSays`), since a handler looks at the event alone; lemmas say what
appending to a queue and removing an item from its middle leaves of that.
`RollingRestartsServe`: the units that are not ONLINE are the one with the lock and those
that released it early (`OneAtATime`), until all units but one have (`Outage`).
`ConfiguredPoolFits`, for a memory of at least 512 MiB, which is what the pool and the
cache for a small memory take; it rests on `PoolFitsMemory`.

`Provider_proofs`, for any units, relations and deployments. Lemmas about
`RelationData` say where a write puts a field and what is read afterwards. The
invariant says of every databag (`GoodBag`) and of what every hook will commit
(`GoodHook`) that credentials are where the client looks for them, hidden or clear as it
asked, and that they work; the second part is needed because a hook commits at its end
what it read at its start. `GoodLeave` says that a
unit which is removed has noted so before its relation-broken comes, and `Tidy` that
nothing is left once the leader has seen the end. From it follow `CredentialsWork` and
`NothingIsLeft`.

`Companions_proofs`, for three of the nine parts, any units and any bounds: `LogIInv`
(the flag of a pod that always answered is that of the relation), `PwIInv` (during
set-password all other accounts agree, and the account has the new password before
the secret has) and `DepIInv` (a removal that nothing disturbed hands over the primary
before the lock and is out of the metadata before its first storage is gone). From
them follow `RetentionFollowsRelation`, `SecretsHoldPasswords` and `UnitsLeaveCleanly`.

The assumptions: `NoUnit`, `NoLock`, `None`, `NoServer` and `NoCall` are not among the
values they stand beside; sets of units are finite, and not empty where one of them
leads; there is at least one attempt and one storage; the first leaders are units;
`MiB` is a positive number, and bounds are numbers. `ConfiguredPoolFits` has the
hypothesis above.

Only model-checked: liveness, which is out of the prover's reach (`EveryUnitJoins`,
`LocksAreReleased`, `HealsAfterOneCrash`, `IsolationEnds`, `InstanceComesBack`,
`ConfigConverges`, `OperationsEnd`, `RequestsAreAnswered`, `ClientsFollowTopology`,
`LabelsFollowTopology`, `LogsReachLoki`, `MetricsFollowUnits`, `DashboardsFollowCharm`,
`AgentFollowsUnits`, `HostsFollowPeers`, `SetupIsMadeGood`, `CertificatesFollowKey`).
`Metrics`, `Dashboards`, `CosAgent`, `Addresses`, `ServerSetup` and `CertificateKeys`
have only such properties. Every inductive invariant was checked by TLC on a small
instance before its proof.

## 6. Not modelled

- Replica clusters: `recreate-cluster`, `promote-to-primary` of a cluster and the
  cluster-set client behind them. They are for clusters of a cluster-set,
  and no handler at this commit creates a replica cluster or removes one.
- In `SelfHealing`: partitions, RECOVERING, moving leadership, transactions.
- The parts of the vendored libraries that this charm does not use: aggregators,
  other data stores, log forwarders for other workloads.
- logrotate and its timer, shells, paths and file formats, Kubernetes objects
  other than labels and services: I/O without state of its own.
- The refresh protocol and the certificates library, which are external; the
  models have what this code sees of them.
- Statuses shown to the user, throughout.
