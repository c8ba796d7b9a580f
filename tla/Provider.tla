------------------------------ MODULE Provider ------------------------------
(***************************************************************************)
(* The database provider: clients relate, ask for a database, receive      *)
(* credentials and endpoints, and leave.                                   *)
(*                                                                         *)
(* The hooks of a unit run one after the other, those of different units   *)
(* interleave.  What a hook writes to databags and secrets is committed    *)
(* when it ends; a hook that dies leaves none of it, but leaves what it    *)
(* did to MySQL and to the labels of the pods, and Juju runs it again.     *)
(*                                                                         *)
(* Simplifications:                                                        *)
(*  - a client asks for a database of its own and has one unit;            *)
(*  - CREATE USER fails for a user that exists;                            *)
(*  - a hook commits the databag it worked on as a whole, where Juju       *)
(*    commits the keys that were set: this differs only for a unit that    *)
(*    loses and regains the leadership within one hook;                    *)
(*  - the shell client that selects users by their attributes is not part  *)
(*    of the repository: when the unit of a router departs, the account    *)
(*    it created, which carries the name of the user of the relation, may  *)
(*    or may not be found by the shorter name that is searched for;        *)
(*  - the charm is not being refreshed, and the clusters of a cluster-set  *)
(*    are one.                                                             *)
(***************************************************************************)
EXTENDS RelationData

CONSTANTS Units,       \* Units of the application
          Relations,   \* Client relations, each with an ID of its own
          Setups,      \* The deployments: on Kubernetes or on machines, the clients
                       \* that are MySQL Routers, and those that ask for no secrets
          Service,     \* Hostname of a Kubernetes service
          MaxFaults,   \* Errors and dying hooks in a behaviour
          MaxMoves     \* Changes of topology and leadership, units removed

ASSUME ProviderAssumption ==
  /\ IsFiniteSet(Units) /\ Units # {} /\ None \notin Units \cup Relations
  /\ Setups \subseteq [k8s : BOOLEAN, routers : SUBSET Relations, old : SUBSET Relations]
  /\ {MaxFaults, MaxMoves} \subseteq Nat

VARIABLES
  setup,     \* The deployment, which does not change
  leader,    \* The unit that leads
  alive,     \* Units that have not been removed
  tearing,   \* Units that are being removed
  removing,  \* Units with the removing flag in their databag
  state,     \* State of each instance
  primary,   \* The primary, or None
  addr,      \* Units whose address for clients is in their databag
  rel,       \* Life of each relation
  bag,       \* Data of each relation
  changed,   \* Relations with a relation-changed event to come, by unit
  deferred,  \* Relations with a database-requested event deferred, by unit
  leaving,   \* How far each unit has come in leaving each relation
  hook,      \* The hook that each unit runs
  dbs, users, accounts,  \* In MySQL: databases, users with passwords, router accounts
  labels,    \* Role label of each pod
  issued,    \* Passwords made so far
  seen,      \* The provider data each client has acted on
  told,      \* What each client has been told
  faults, moves,
  excused    \* Requests and removals that an error or a move of leadership disturbed

mysql == <<dbs, users, accounts, issued>>
group == <<state, primary>>
units == <<leader, alive, tearing, removing, addr>>
relations == <<rel, leaving>>
clients == <<seen, told>>
vars == <<setup, units, group, relations, bag, changed, deferred, hook, mysql, labels,
          clients, faults, moves, excused>>

k8s == setup.k8s
Routers == setup.routers

Idle == [stage |-> "idle", from |-> "none", rel |-> None, work |-> Fresh, view |-> Empty]

Init ==
  /\ setup \in Setups
  /\ leader \in Units /\ alive = Units /\ tearing = {} /\ removing = {} /\ addr = {}
  /\ primary = (CHOOSE u \in Units : TRUE) /\ state = [u \in Units |-> "ONLINE"]
  /\ rel = [r \in Relations |-> "none"]
  /\ bag = [r \in Relations |-> Fresh]
  /\ changed = [u \in Units |-> {}] /\ deferred = [u \in Units |-> {}]
  /\ leaving = [u \in Units |-> [r \in Relations |-> "no"]]
  /\ hook = [u \in Units |-> Idle]
  /\ dbs = {} /\ users = [r \in Relations |-> None] /\ accounts = {} /\ issued = 0
  /\ labels = [u \in Units |-> IF u = primary THEN "primary" ELSE "replicas"]
  /\ seen = [r \in Relations |-> Empty] /\ told = [r \in Relations |-> None]
  /\ faults = 0 /\ moves = 0 /\ excused = {}

-----------------------------------------------------------------------------
(* The topology *)

Fault == faults < MaxFaults /\ faults' = faults + 1
Move == moves < MaxMoves /\ moves' = moves + 1

Free(u) == u \in alive /\ hook[u].stage = "idle"
At(u, stage) == u \in alive /\ hook[u].stage = stage

\* The server runs and knows its cluster (EventHelpers.initialized)
Initialized(u) == state[u] # "DOWN"

\* The relation has been asked for by its client, and the client is there
Joined(r) == rel[r] = "up" /\ "database" \in DOMAIN bag[r].client

\* It is one of the relations that a unit sees
Served(u, r) == Joined(r) /\ leaving[u][r] # "done"

\* The relation has ended on every unit
Ended(r) == rel[r] = "dying" /\ \A u \in alive : leaving[u][r] = "done"

Answered(r) == Fetch(bag[r], "password") # None

Role(u) == CASE state[u] # "ONLINE" -> "offline"
             [] u = primary -> "primary"
             [] OTHER -> "replicas"

\* build_cluster_endpoints: an instance that recovers and a unit with no address are
\* left out
Endpoints ==
  [u \in {v \in alive : state[v] # "RECOVERING" /\ (k8s \/ v \in addr)} |-> Role(u)]

With(view, role) == {u \in DOMAIN view : view[u] = role}

\* build_database_endpoints: the services on Kubernetes, addresses on machines
DatabaseEndpoints(role) == IF k8s THEN {Service} ELSE With(Endpoints, role)

\* What a relation is given of them, on a hook that may write
WithEndpoints(relation) ==
  SetReadOnlyEndpoints(SetEndpoints(relation, DatabaseEndpoints("primary")),
                       DatabaseEndpoints("replicas"))

\* check_service: a connection to the service reaches a pod
ServiceAnswers == k8s => \E u \in alive : labels[u] = "primary" /\ state[u] # "DOWN"

Elect(u) ==
  LET rest == {v \in alive \ {u} : state[v] = "ONLINE"}
  IN  IF u # primary THEN primary' = primary
      ELSE IF rest = {} THEN primary' = None ELSE primary' \in rest

MemberLost(u) ==
  /\ u \in alive /\ state[u] = "ONLINE" /\ Move
  /\ state' = [state EXCEPT ![u] = "DOWN"] /\ Elect(u)
  /\ UNCHANGED <<setup, units, relations, bag, changed, deferred, hook, mysql, labels,
                 clients, faults, excused>>

MemberReturns(u) ==
  /\ u \in alive /\ state[u] # "ONLINE"
  /\ IF state[u] = "DOWN" /\ primary # None
     THEN state' = [state EXCEPT ![u] = "RECOVERING"] /\ UNCHANGED primary
     ELSE /\ state' = [state EXCEPT ![u] = "ONLINE"]
          /\ primary' = IF primary = None THEN u ELSE primary
  /\ UNCHANGED <<setup, units, relations, bag, changed, deferred, hook, mysql, labels,
                 clients, faults, moves, excused>>

PromoteInstance(u) ==
  /\ u \in alive /\ state[u] = "ONLINE" /\ primary \notin {u, None} /\ Move
  /\ primary' = u
  /\ UNCHANGED <<setup, units, state, relations, bag, changed, deferred, hook, mysql,
                 labels, clients, faults, excused>>

\* What is under way when the leader changes
UnderWay ==
  {<<"request", r>> : r \in {s \in Relations : Joined(s) /\ ~Answered(s)}}
  \cup {<<"removal", r>> : r \in {s \in Relations :
          \/ rel[s] = "dying" /\ ~Ended(s)
          \/ \E u \in alive : hook[u].stage # "idle" /\ hook[u].rel = s}}

LeadershipMoves(u) ==
  /\ u \in alive \ {leader} /\ Move
  /\ leader' = u /\ excused' = excused \cup UnderWay
  /\ UNCHANGED <<setup, alive, tearing, removing, addr, group, relations, bag, changed,
                 deferred, hook, mysql, labels, clients, faults>>

-----------------------------------------------------------------------------
(* The client *)

\* relation-created on the client: it asks for a database, with or without secrets
ClientRelates(r) ==
  /\ rel[r] = "none" /\ rel' = [rel EXCEPT ![r] = "up"]
  /\ bag' = [bag EXCEPT ![r].client =
               Request("db", IF r \in setup.old THEN {} ELSE UserFields,
                       IF r \in Routers THEN {"router"} ELSE {})]
  /\ changed' = [u \in Units |-> IF u \in alive \ tearing THEN changed[u] \cup {r} ELSE changed[u]]
  /\ UNCHANGED <<setup, units, group, leaving, deferred, hook, mysql, labels, clients,
                 faults, moves, excused>>

\* relation-changed on the client
ClientChanged(r) ==
  LET new == Without(bag[r].mine, {"data"})
  IN  /\ rel[r] = "up" /\ seen[r] # new
      /\ seen' = [seen EXCEPT ![r] = new]
      /\ told' = IF Emits(Diff(seen[r], new)) THEN [told EXCEPT ![r] = Read(bag[r])] ELSE told
      /\ UNCHANGED <<setup, units, group, relations, bag, changed, deferred, hook, mysql,
                     labels, faults, moves, excused>>

\* A MySQL Router uses its credentials to create an account for itself
RouterBootstraps(r) ==
  /\ r \in Routers \ accounts /\ rel[r] = "up" /\ primary # None
  /\ told[r] # None /\ users[r] # None /\ told[r].password = users[r]
  /\ accounts' = accounts \cup {r}
  /\ UNCHANGED <<setup, units, group, relations, bag, changed, deferred, hook, dbs, users,
                 issued, labels, clients, faults, moves, excused>>

\* The relation is removed: its client units depart, then it is broken
RelationRemoved(r) ==
  /\ rel[r] = "up" /\ rel' = [rel EXCEPT ![r] = "dying"]
  /\ leaving' = [u \in Units |->
       IF u \in alive /\ leaving[u][r] = "no" THEN [leaving[u] EXCEPT ![r] = "remote"]
       ELSE leaving[u]]
  /\ seen' = [seen EXCEPT ![r] = Empty] /\ told' = [told EXCEPT ![r] = None]
  /\ excused' = IF leader \in tearing THEN excused \cup {<<"removal", r>>} ELSE excused
  /\ UNCHANGED <<setup, units, group, bag, changed, deferred, hook, mysql, labels, faults,
                 moves>>

-----------------------------------------------------------------------------
(* Hooks *)

\* Writes are for the leader, and are dropped without an error on another unit
Write(u, data) == IF leader = u THEN data ELSE hook[u].work

\* Where a hook goes on after it has updated the labels
After(from) == CASE from = "status" -> "idle" [] from = "healing" -> "relations"
                 [] OTHER -> "endpoints"

\* A hook that ends commits what it wrote, which fails if it no longer leads
MayCommit(u, work) == leader = u \/ work = bag[hook[u].rel]

Commit(u, work) ==
  LET r == hook[u].rel
  IN  /\ MayCommit(u, work)
      /\ bag' = [bag EXCEPT ![r].mine = work.mine, ![r].secret = work.secret]
      /\ deferred' = [deferred EXCEPT ![u] = @ \ {r}]
      /\ hook' = [hook EXCEPT ![u] = Idle]

\* What Juju runs again after a hook died: relation-changed, or the deferred event
Rollback(u) ==
  /\ hook' = [hook EXCEPT ![u] = Idle]
  /\ changed' = IF hook[u].from = "changed"
                THEN [changed EXCEPT ![u] = @ \cup {hook[u].rel}] ELSE changed

HookDies(u) ==
  /\ u \in alive /\ hook[u].stage # "idle" /\ Fault /\ Rollback(u)
  /\ UNCHANGED <<setup, units, group, relations, bag, deferred, mysql, labels, clients,
                 moves, excused>>

-----------------------------------------------------------------------------
(* A database is requested *)

Requested(u, r, work, from) ==
  hook' = [hook EXCEPT ![u] = [Idle EXCEPT !.stage = "database", !.from = from,
                                           !.rel = r, !.work = work]]

(* Mistake: a request that comes before the cluster exists is not deferred *)
ChangedNotDeferred(u, r) ==
  LET diff == Diff(Recorded(bag[r]), bag[r].client)
      new == leader = u /\ DatabaseRequested(diff)
  IN  /\ Free(u) /\ r \in changed[u] /\ leaving[u][r] # "done"
      /\ IF new /\ Initialized(u)
         THEN Requested(u, r, Record(bag[r]), "changed") /\ UNCHANGED bag
         ELSE /\ UNCHANGED hook
              /\ bag' = IF leader = u THEN [bag EXCEPT ![r] = Record(@)] ELSE bag
      /\ changed' = [changed EXCEPT ![u] = @ \ {r}] /\ addr' = addr \cup {u}
      /\ UNCHANGED <<setup, leader, alive, tearing, removing, group, relations, deferred, mysql, labels, clients,
                     faults, moves, excused>>

\* relation-created, which puts the address of the unit in its databag, and then
\* relation-changed: the leader records what the client wrote, and emits
\* database-requested if a database was added, which is deferred without a cluster
OnRelationChanged(u, r) ==
  LET diff == Diff(Recorded(bag[r]), bag[r].client)
      new == leader = u /\ DatabaseRequested(diff)
  IN  /\ Free(u) /\ r \in changed[u] /\ leaving[u][r] # "done"
      /\ IF new /\ Initialized(u)
         THEN Requested(u, r, Record(bag[r]), "changed") /\ UNCHANGED bag
         ELSE /\ UNCHANGED hook
              /\ bag' = IF leader = u THEN [bag EXCEPT ![r] = Record(@)] ELSE bag
      /\ changed' = [changed EXCEPT ![u] = @ \ {r}] /\ addr' = addr \cup {u}
      /\ deferred' = IF new /\ ~Initialized(u)
                     THEN [deferred EXCEPT ![u] = @ \cup {r}] ELSE deferred
      /\ UNCHANGED <<setup, leader, alive, tearing, removing, group, relations, mysql, labels,
                     clients, faults, moves, excused>>

\* The deferred event comes again: it is skipped on a unit that does not lead, and
\* finds no database name if the relation has ended
OnDatabaseRequested(u, r) ==
  /\ Free(u) /\ r \in deferred[u] /\ Initialized(u)
  /\ IF leader = u /\ leaving[u][r] # "done"
     THEN Requested(u, r, bag[r], "deferred") /\ UNCHANGED deferred
     ELSE deferred' = [deferred EXCEPT ![u] = @ \ {r}] /\ UNCHANGED hook
  /\ UNCHANGED <<setup, units, group, relations, bag, changed, mysql, labels, clients,
                 faults, moves, excused>>

\* create_database: nothing is to be done if it exists, and the primary does it otherwise
Creatable(r) == r \in dbs \/ primary # None

\* _set_database: for all but MySQL Routers
CreateDatabase(u) ==
  LET r == hook[u].rel
  IN  /\ At(u, "database")
      /\ r \in Routers \/ Creatable(r)
      /\ dbs' = IF r \in Routers THEN dbs ELSE dbs \cup {r}
      /\ hook' = [hook EXCEPT ![u].stage = "user",
                  ![u].work = IF r \in Routers THEN @ ELSE Write(u, SetDatabase(hook[u].work, "db"))]
      /\ UNCHANGED <<setup, units, group, relations, bag, changed, deferred, users, accounts,
                     issued, labels, clients, faults, moves, excused>>

\* The password of the relation, if there is one, or a new password
Password(u) ==
  LET known == Fetch(hook[u].work, "password")
  IN  IF leader = u /\ known # None THEN known ELSE issued + 1

\* _set_database_user
CreateDatabaseUser(u) ==
  LET r == hook[u].rel
  IN  /\ At(u, "user") /\ primary # None /\ users[r] = None
      /\ users' = [users EXCEPT ![r] = Password(u)]
      /\ issued' = IF Password(u) > issued THEN Password(u) ELSE issued
      /\ hook' = [hook EXCEPT ![u].stage = "version",
                  ![u].work = Write(u, SetCredentials(hook[u].work, "user", Password(u)))]
      /\ UNCHANGED <<setup, units, group, relations, bag, changed, deferred, dbs, accounts,
                     labels, clients, faults, moves, excused>>

\* update_app_labels goes on from the instances it sees at its start; on machines
\* there are no labels to update
Labelling(u, from, work) ==
  hook' = [hook EXCEPT ![u] =
    [@ EXCEPT !.stage = IF k8s THEN "labels" ELSE After(from), !.from = from,
              !.work = work, !.view = IF k8s THEN Endpoints ELSE Empty]]

\* _set_database_version, and the start of update_app_labels
SetDatabaseVersion(u) ==
  /\ At(u, "version") /\ Labelling(u, hook[u].from, Write(u, SetVersion(hook[u].work, "8.4")))
  /\ UNCHANGED <<setup, units, group, relations, bag, changed, deferred, mysql, labels,
                 clients, faults, moves, excused>>

\* The handler gives up without a retry: there is no primary, the user exists, or a
\* statement fails, possibly after one that created the database or the user
RequestFails(u) ==
  LET r == hook[u].rel
      s == hook[u].stage
  IN  /\ u \in alive /\ s \in {"database", "user", "version"}
      /\ \/ /\ \/ s = "database" /\ r \notin Routers /\ ~Creatable(r)
               \/ s = "user" /\ (primary = None \/ users[r] # None)
            /\ UNCHANGED <<dbs, users, issued, faults>>
         \/ /\ Fault /\ (s = "database" => r \notin Routers)
            /\ IF s = "database" /\ primary # None
               THEN dbs' \in {dbs, dbs \cup {r}} ELSE UNCHANGED dbs
            /\ IF s = "user" /\ primary # None /\ users[r] = None
               THEN /\ users' \in {users, [users EXCEPT ![r] = Password(u)]}
                    /\ issued' = issued + 1
               ELSE UNCHANGED <<users, issued>>
      /\ excused' = excused \cup {<<"request", r>>}
      /\ Commit(u, hook[u].work)
      /\ UNCHANGED <<setup, units, group, relations, changed, accounts, labels, clients, moves>>

-----------------------------------------------------------------------------
(* Labels and endpoints *)

Rank(role) == CASE role = "primary" -> 1 [] role = "replicas" -> 2 [] role = "offline" -> 3

(* Mistake: only the pod of the primary is labelled *)
UpdatePrimaryLabel(u) ==
  LET view == hook[u].view
      from == hook[u].from
  IN  /\ At(u, "labels")
      /\ labels' = [v \in Units |-> IF v \in With(view, "primary") THEN "primary" ELSE labels[v]]
      /\ hook' = IF After(from) = "idle" THEN [hook EXCEPT ![u] = Idle]
                 ELSE [hook EXCEPT ![u].view = Empty, ![u].stage = After(from)]
      /\ UNCHANGED <<setup, units, group, relations, bag, changed, deferred, mysql, clients,
                     faults, moves, excused>>

\* update_app_labels, one pod after the other from what was seen at the start
UpdateLabel(u) ==
  LET view == hook[u].view
      from == hook[u].from
  IN  /\ At(u, "labels")
      /\ \E v \in DOMAIN view :
           /\ \A w \in DOMAIN view : Rank(view[v]) <= Rank(view[w])
           /\ labels' = [labels EXCEPT ![v] = view[v]]
           /\ hook' = IF DOMAIN view # {v}
                      THEN [hook EXCEPT ![u].view = Without(view, {v})]
                      ELSE IF After(from) = "idle" THEN [hook EXCEPT ![u] = Idle]
                      ELSE [hook EXCEPT ![u].view = Empty, ![u].stage = After(from)]
      /\ UNCHANGED <<setup, units, group, relations, bag, changed, deferred, mysql, clients,
                     faults, moves, excused>>

\* The end of database-requested
PublishEndpoints(u) ==
  /\ At(u, "endpoints") /\ ServiceAnswers /\ Commit(u, Write(u, WithEndpoints(hook[u].work)))
  /\ UNCHANGED <<setup, units, group, relations, changed, mysql, labels, clients, faults,
                 moves, excused>>

\* The service does not answer, or the leader has changed: the hook fails
PublishFails(u) ==
  /\ At(u, "endpoints") /\ (~ServiceAnswers \/ ~MayCommit(u, Write(u, WithEndpoints(hook[u].work))))
  /\ Rollback(u)
  /\ UNCHANGED <<setup, units, group, relations, bag, deferred, mysql, labels, clients,
                 faults, moves, excused>>

\* update-status, on any unit; on machines there are no labels
OnUpdateStatus(u) ==
  /\ Free(u) /\ Initialized(u) /\ k8s
  /\ \E v \in DOMAIN Endpoints : labels[v] # Endpoints[v]
  /\ Labelling(u, "status", Fresh)
  /\ UNCHANGED <<setup, units, group, relations, bag, changed, deferred, mysql, labels,
                 clients, faults, moves, excused>>

(* Mistake: the endpoints follow the topology only where the leader is the primary *)
UpdateOnPrimary(u) ==
  /\ Free(u) /\ leader = u /\ primary = u /\ Initialized(u)
  /\ \E r \in Relations : Served(u, r) /\ WithEndpoints(bag[r]) # bag[r]
  /\ Labelling(u, "healing", Fresh)
  /\ UNCHANGED <<setup, units, group, relations, bag, changed, deferred, mysql, labels,
                 clients, faults, moves, excused>>

\* update_database_endpoints, when self-healing runs or a peer joins, changes or departs
UpdateDatabaseEndpoints(u) ==
  /\ Free(u) /\ leader = u /\ Initialized(u)
  /\ \E r \in Relations : Served(u, r) /\ WithEndpoints(bag[r]) # bag[r]
  /\ Labelling(u, "healing", Fresh)
  /\ UNCHANGED <<setup, units, group, relations, bag, changed, deferred, mysql, labels,
                 clients, faults, moves, excused>>

\* Every relation with client units; the hook fails where the service does not answer
PublishToAll(u) ==
  /\ At(u, "relations")
  /\ bag' = IF leader = u /\ ServiceAnswers
            THEN [r \in Relations |-> IF Served(u, r)
                                      THEN WithEndpoints(bag[r]) ELSE bag[r]]
            ELSE bag
  /\ hook' = [hook EXCEPT ![u] = Idle]
  /\ UNCHANGED <<setup, units, group, relations, changed, deferred, mysql, labels, clients,
                 faults, moves, excused>>

-----------------------------------------------------------------------------
(* A relation ends, or a unit is removed *)

UnitTearsDown(u) ==
  /\ u \in alive \ tearing /\ Cardinality(alive) > 1 /\ Move
  /\ tearing' = tearing \cup {u}
  /\ leaving' = [leaving EXCEPT ![u] =
       [r \in Relations |-> IF rel[r] = "up" THEN "own" ELSE @[r]]]
  /\ UNCHANGED <<setup, leader, alive, removing, addr, group, rel, bag, changed, deferred,
                 hook, mysql, labels, clients, faults, excused>>

\* Every relation of the unit is broken: it goes, and another unit leads
UnitGone(u) ==
  /\ Free(u) /\ u \in tearing
  /\ \A r \in Relations : leaving[u][r] \in {"no", "done"}
  /\ alive' = alive \ {u} /\ tearing' = tearing \ {u}
  /\ state' = [state EXCEPT ![u] = "DOWN"] /\ Elect(u)
  /\ IF leader = u THEN leader' \in alive \ {u} /\ excused' = excused \cup UnderWay
     ELSE UNCHANGED <<leader, excused>>
  /\ UNCHANGED <<setup, removing, addr, relations, bag, changed, deferred, hook, mysql,
                 labels, clients, faults, moves>>

\* relation-departed: the unit notes its own removal, the leader removes the router
OnRelationDeparted(u, r) ==
  /\ Free(u) /\ leaving[u][r] \in {"remote", "own"}
  /\ leaving' = [leaving EXCEPT ![u][r] = "broken"]
  /\ removing' = IF leaving[u][r] = "own" THEN removing \cup {u} ELSE removing
  /\ IF leader = u /\ leaving[u][r] = "remote" /\ primary # None
     THEN accounts' \in {accounts, accounts \ {r}} ELSE UNCHANGED accounts
  /\ UNCHANGED <<setup, leader, alive, tearing, addr, group, rel, bag, changed, deferred,
                 hook, dbs, users, issued, labels, clients, faults, moves, excused>>

(* Mistake: a unit that is being removed deletes the users of its relations *)
BrokenWithoutFlag(u, r) ==
  /\ Free(u) /\ leaving[u][r] = "broken"
  /\ leaving' = [leaving EXCEPT ![u][r] = "done"]
  /\ changed' = [changed EXCEPT ![u] = @ \ {r}]
  /\ IF leader = u /\ primary # None
     THEN users' = [users EXCEPT ![r] = None] /\ accounts' = accounts \ {r}
     ELSE UNCHANGED <<users, accounts>>
  /\ UNCHANGED <<setup, units, group, rel, bag, deferred, hook, dbs, issued, labels,
                 clients, faults, moves, excused>>

\* The user of the relation, and those it created
DeleteUsers(r) == users' = [users EXCEPT ![r] = None] /\ accounts' = accounts \ {r}

(* Mistake: the accounts that the routers created are left *)
BrokenWithoutAccounts(u, r) ==
  /\ Free(u) /\ leaving[u][r] = "broken"
  /\ leaving' = [leaving EXCEPT ![u][r] = "done"]
  /\ changed' = [changed EXCEPT ![u] = @ \ {r}]
  /\ IF leader = u /\ u \notin removing /\ primary # None
     THEN users' = [users EXCEPT ![r] = None] ELSE UNCHANGED users
  /\ excused' = IF rel[r] = "dying" /\ leader = u /\ (u \in removing \/ primary = None)
                THEN excused \cup {<<"removal", r>>} ELSE excused
  /\ UNCHANGED <<setup, units, group, rel, bag, deferred, hook, dbs, accounts,
                 issued, labels, clients, faults, moves>>

\* relation-broken: the leader deletes the user and the users it created, unless the
\* leader is the one to go; an error is logged, and that is all
OnRelationBroken(u, r) ==
  LET mine == leader = u /\ u \notin removing
  IN  /\ Free(u) /\ leaving[u][r] = "broken"
      /\ leaving' = [leaving EXCEPT ![u][r] = "done"]
      /\ changed' = [changed EXCEPT ![u] = @ \ {r}]
      /\ \/ /\ mine /\ primary # None
            /\ DeleteUsers(r) /\ UNCHANGED <<faults, excused>>
         \/ /\ mine /\ primary # None /\ Fault
            /\ users' \in {users, [users EXCEPT ![r] = None]} /\ UNCHANGED accounts
            /\ excused' = excused \cup {<<"removal", r>>}
         \/ /\ ~mine \/ primary = None
            /\ excused' = IF leader = u /\ rel[r] = "dying" THEN excused \cup {<<"removal", r>>} ELSE excused
            /\ UNCHANGED <<users, accounts, faults>>
      /\ UNCHANGED <<setup, units, group, rel, bag, deferred, hook, dbs, issued,
                     labels, clients, moves>>

-----------------------------------------------------------------------------
RequestStep(u) ==
  \/ CreateDatabase(u)
  \/ CreateDatabaseUser(u)
  \/ SetDatabaseVersion(u)
  \/ RequestFails(u)
  \/ UpdateLabel(u)
  \/ PublishEndpoints(u)
  \/ PublishFails(u)
  \/ PublishToAll(u)

UnitStep(u) ==
  \/ OnUpdateStatus(u)
  \/ UpdateDatabaseEndpoints(u)
  \/ UnitGone(u)
  \/ \E r \in Relations :
       \/ OnRelationChanged(u, r)
       \/ OnDatabaseRequested(u, r)
       \/ OnRelationDeparted(u, r)
       \/ OnRelationBroken(u, r)

Next ==
  \/ \E r \in Relations :
       \/ ClientRelates(r)
       \/ ClientChanged(r)
       \/ RouterBootstraps(r)
       \/ RelationRemoved(r)
  \/ \E u \in Units :
       \/ RequestStep(u)
       \/ UnitStep(u)
       \/ HookDies(u)
       \/ MemberLost(u)
       \/ MemberReturns(u)
       \/ PromoteInstance(u)
       \/ LeadershipMoves(u)
       \/ UnitTearsDown(u)

Progress ==
  \/ \E u \in Units : RequestStep(u) \/ UnitStep(u)
  \/ \E r \in Relations : ClientChanged(r)

(* Some agent that has something to do goes on: that of a unit, which runs  *)
(* its hook to the end and dispatches the next event, update-status and     *)
(* self-healing among them, or that of a client.  Self-healing brings back  *)
(* the instances that failed.                                               *)
Fairness ==
  /\ WF_vars(Progress)
  /\ WF_vars(\E u \in Units : MemberReturns(u))

Spec == Init /\ [][Next]_vars /\ Fairness

-----------------------------------------------------------------------------
(* Properties *)

(* The credentials that a relation shows are those of a user MySQL knows,  *)
(* who has the database of the relation, for as long as the relation lives *)
(* (_set_database_user): through hooks that die and are run again, moves   *)
(* of the leadership and leaders that are removed (get_removing_flag).     *)
PublishedCredentialsWork ==
  \A r \in Relations : (rel[r] = "up" /\ Answered(r)) =>
    /\ users[r] = Fetch(bag[r], "password")
    /\ r \in Routers \cup dbs

(* Nothing of a relation that has ended is left in MySQL, neither its user *)
(* nor the accounts created with it (_on_relation_broken), unless an error *)
(* was met, the leader was being removed, or the leadership moved while    *)
(* the relation was ending.                                                *)
AccountsEndWithRelation ==
  \A r \in Relations : (Ended(r) /\ <<"removal", r>> \notin excused) =>
    users[r] = None /\ r \notin accounts

(* Every client that asks for a database gets its credentials in the end    *)
(* and keeps them, or leaves, or is one for which the handler met an error  *)
(* or the leadership moved before it was answered (_on_database_requested   *)
(* defers until there is a cluster).                                        *)
RequestsAreAnswered ==
  \A r \in Relations : <>[](
    Joined(r) => \/ told[r] # None /\ told[r].password # None
                 \/ <<"request", r>> \in excused)

(* Once the topology is at rest, a client that has been answered knows the  *)
(* address of the primary and those of the replicas, as far as there are    *)
(* any: no change of the endpoints is lost between the topology, the        *)
(* databag and the events of the client (update_database_endpoints).        *)
ClientsFollowTopology ==
  \A r \in Relations : <>[](
    (Joined(r) /\ Answered(r)) =>
      /\ told[r] # None
      /\ told[r].rw = IF k8s THEN {Service} ELSE {primary}
      /\ IF k8s THEN told[r].ro = {Service}
         ELSE alive = {primary} \/ told[r].ro = alive \ {primary})

(* Once the topology is at rest, the label of every pod is its role: units  *)
(* that write the labels from an older view do not keep them wrong          *)
(* (update_app_labels).                                                     *)
LabelsFollowTopology == <>[](k8s => \A u \in alive : labels[u] = Role(u))
=============================================================================
