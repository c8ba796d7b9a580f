------------------------- MODULE Companions_proofs -------------------------
(***************************************************************************)
(* Proofs about three of the parts beside the cluster: the retention of    *)
(* logs, the passwords of the charm, and the removal of units.  Each part  *)
(* has an inductive invariant of its own, which the steps of the other     *)
(* parts leave alone.                                                      *)
(***************************************************************************)
EXTENDS Companions, TLAPS

-----------------------------------------------------------------------------
(* The retention of logs *)

\* What the model keeps of a unit of Loki, and the endpoints that Promtail may be given
LokiUnit == [there : BOOLEAN, address : Nat, endpoint : BOOLEAN, url : Nat,
             todo : SUBSET {"joined", "changed"}]

Targets == SUBSET (Lokis \X Nat)

\* What the model keeps of a pod
PodState == [ready : BOOLEAN, pebble : BOOLEAN, config : BOOLEAN, created : BOOLEAN,
             joined : SUBSET Lokis, dirty : BOOLEAN, cached : BOOLEAN, installed : BOOLEAN,
             plan : BOOLEAN, conf : Targets, runs : Targets \cup {NotRunning},
             flag : BOOLEAN, deferred : BOOLEAN, keep : {0, 1, 3},
             failed : BOOLEAN, stuck : BOOLEAN, late : BOOLEAN]

\* The types of the variables of LogForwarding
LogTypes ==
  /\ logging \in {"none", "up", "dying"} /\ promtailUrl \in BOOLEAN /\ published \in BOOLEAN
  /\ loki \in [Lokis -> LokiUnit] /\ pod \in [Pods -> PodState]
  /\ logMoves \in Nat /\ logFaults \in Nat

\* A pod whose workload has always answered: no event is deferred, the flag says whether
\* the relation exists, and the retention follows it once config-changed has run
InStep(r) == ~r.late =>
  /\ ~r.deferred
  /\ r.flag = r.created
  /\ ~r.config => r.keep = Retention(r.created)

\* The inductive invariant of the logs
LogIInv == LogTypes /\ \A p \in Pods : InStep(pod[p])

\* Two states of a pod that the rotation of the logs cannot tell apart
SameRotation(r, s) ==
  /\ s.late = r.late /\ s.deferred = r.deferred /\ s.flag = r.flag
  /\ s.created = r.created /\ s.config = r.config /\ s.keep = r.keep /\ s.ready = r.ready

\* A deployed pod keeps its logs for three days, and is not related
LEMMA LogInitIInv == LogInit => LogIInv
<1> SUFFICES ASSUME LogInit PROVE LogIInv
  OBVIOUS
<1>1. Pod \in PodState /\ InStep(Pod)
  BY DEF Pod, PodState, Targets, InStep, Retention
<1>2. LokiLeader \in Lokis
  BY LogAssumption DEF LokiLeader
<1>3. LogTypes
  BY <1>1, <1>2 DEF LogInit, LogTypes, LokiUnit
<1> QED
  BY <1>1, <1>3 DEF LogInit, LogIInv

\* loki_endpoints names units of Loki, each with an address
LEMMA ClientsType ==
  ASSUME LogTypes, NEW r \in PodState
  PROVE  Clients(r) \in Targets
  BY DEF LogTypes, PodState, Clients, Targets, LokiUnit

\* _promtail_config leaves the rotation alone
LEMMA PushKeeps ==
  ASSUME LogTypes, NEW r \in PodState
  PROVE  PushConfig(r) \in PodState /\ SameRotation(r, PushConfig(r))
<1>1. PICK c \in Targets : c = Clients(r)
  BY ClientsType
<1>2. PushConfig(r) = [r EXCEPT !.conf = c]
  BY <1>1 DEF PushConfig
<1> QED
  BY <1>2 DEF PodState, SameRotation

\* Restarting Promtail leaves the rotation alone
LEMMA RestartKeeps ==
  ASSUME NEW r \in PodState
  PROVE  Restart(r) \in PodState /\ SameRotation(r, Restart(r))
<1>1. PICK c \in Targets : c = r.conf
  BY DEF PodState
<1>2. Restart(r) = [r EXCEPT !.runs = c]
  BY <1>1 DEF Restart
<1> QED
  BY <1>2 DEF PodState, SameRotation

\* _setup_promtail leaves the rotation alone
LEMMA SetupKeeps ==
  ASSUME LogTypes, NEW r \in PodState
  PROVE  SetupPromtail(r) \in PodState /\ SameRotation(r, SetupPromtail(r))
<1>1. ObtainPromtail(r) \in PodState /\ SameRotation(r, ObtainPromtail(r))
  BY DEF ObtainPromtail, PodState, SameRotation
<1>2. PICK s \in PodState : s = PushConfig(ObtainPromtail(r)) /\ SameRotation(r, s)
  BY <1>1, PushKeeps DEF SameRotation
<1> DEFINE t == [s EXCEPT !.plan = TRUE]
<1>a. t \in PodState /\ SameRotation(s, t)
  BY DEF SameRotation, PodState
<1>b. SetupPromtail(r) \in {r, t, Restart(t)}
  BY <1>2 DEF SetupPromtail
<1> HIDE DEF t
<1>3. t \in PodState /\ SameRotation(r, t)
  BY <1>2, <1>a DEF SameRotation
<1>4. Restart(t) \in PodState /\ SameRotation(r, Restart(t))
  BY <1>3, RestartKeeps DEF SameRotation
<1> QED
  BY <1>3, <1>4, <1>b DEF SameRotation

\* A hook that leaves its pod in step keeps the invariant
LEMMA OnePod ==
  ASSUME LogIInv, NEW p \in Pods, NEW r \in PodState, pod' = [pod EXCEPT ![p] = r], InStep(r),
         UNCHANGED <<logging, promtailUrl, logMoves>>, published' \in BOOLEAN,
         loki' \in [Lokis -> LokiUnit], logFaults' \in Nat
  PROVE  LogIInv'
  BY DEF LogIInv, LogTypes

\* The outcomes of setting Promtail up, a failed download included, keep the invariant
LEMMA SetsUpKeeps ==
  ASSUME LogIInv, NEW p \in Pods, NEW r \in PodState, InStep(r), SetsUp(p, r),
         UNCHANGED <<logging, promtailUrl, logMoves>>, published' \in BOOLEAN,
         loki' \in [Lokis -> LokiUnit]
  PROVE  LogIInv'
<1>1. SetupPromtail(r) \in PodState /\ InStep(SetupPromtail(r))
  BY SetupKeeps DEF LogIInv, SameRotation, InStep
<1> DEFINE f == [r EXCEPT !.failed = TRUE]
<1>a. f \in PodState /\ SameRotation(r, f)
  BY DEF PodState, SameRotation
<1>b. (pod' = [pod EXCEPT ![p] = [r EXCEPT !.failed = TRUE]]) => (pod' = [pod EXCEPT ![p] = f])
  OBVIOUS
<1> HIDE DEF f
<1>2. InStep(f)
  BY <1>a DEF InStep, SameRotation
<1>3. CASE pod' = [pod EXCEPT ![p] = SetupPromtail(r)] /\ UNCHANGED logFaults
  BY <1>1, <1>3, OnePod DEF LogIInv, LogTypes
<1>4. CASE LogFault /\ pod' = [pod EXCEPT ![p] = [r EXCEPT !.failed = TRUE]]
  <2>1. pod' = [pod EXCEPT ![p] = f]
    BY <1>4, <1>b
  <2>2. logFaults' \in Nat
    BY <1>4 DEF LogIInv, LogTypes, LogFault
  <2> QED
    BY <1>2, <1>a, <2>1, <2>2, OnePod
<1> QED
  BY <1>3, <1>4 DEF SetsUp

\* What _on_relation_created does: the flag and one day, or the event is deferred
LEMMA SynchronizeKeeps ==
  ASSUME NEW r \in PodState
  PROVE  /\ Synchronize(r) \in PodState
         /\ Synchronize(r).created = r.created /\ Synchronize(r).config = r.config
         /\ Synchronize(r).ready = r.ready
         /\ r.ready = TRUE => /\ Synchronize(r).deferred = FALSE /\ Synchronize(r).flag = TRUE
                              /\ Synchronize(r).keep = 1 /\ Synchronize(r).late = r.late
         /\ r.ready = FALSE => Synchronize(r).late = TRUE
<1> DEFINE y == [r EXCEPT !.deferred = FALSE, !.flag = TRUE, !.keep = 1]
           z == [r EXCEPT !.deferred = TRUE, !.late = TRUE]
<1>1. /\ y \in PodState /\ y.created = r.created /\ y.config = r.config /\ y.ready = r.ready
      /\ y.deferred = FALSE /\ y.flag = TRUE /\ y.keep = 1 /\ y.late = r.late
  BY DEF PodState
<1>2. /\ z \in PodState /\ z.created = r.created /\ z.config = r.config /\ z.ready = r.ready
      /\ z.late = TRUE
  BY DEF PodState
<1>3. r.ready = TRUE => Synchronize(r) = y
  BY DEF Synchronize, Retention
<1>4. r.ready = FALSE => Synchronize(r) = z
  BY DEF Synchronize
<1>5. r.ready = TRUE \/ r.ready = FALSE
  BY DEF PodState
<1> HIDE DEF y, z
<1> QED
  BY <1>1, <1>2, <1>3, <1>4, <1>5

\* The deferred event that a hook begins with keeps the pod in step: where one is
\* deferred, the workload did not answer once
LEMMA BeginKeeps ==
  ASSUME LogIInv, NEW p \in Pods
  PROVE  /\ Begin(p) \in PodState /\ InStep(Begin(p))
         /\ Begin(p).created = pod[p].created /\ Begin(p).config = pod[p].config
         /\ Begin(p).late = FALSE => pod[p].deferred = FALSE
<1>1. pod[p] \in PodState /\ InStep(pod[p])
  BY DEF LogIInv, LogTypes
<1>2. CASE pod[p].deferred = FALSE
  BY <1>1, <1>2 DEF Begin
<1>3. CASE pod[p].deferred = TRUE
  <2>1. pod[p].late = TRUE
    BY <1>1, <1>3 DEF InStep, PodState
  <2>2. Begin(p) = Synchronize(pod[p])
    BY <1>3 DEF Begin
  <2>3. pod[p].ready = TRUE \/ pod[p].ready = FALSE
    BY <1>1 DEF PodState
  <2>4. Begin(p).late = TRUE
    BY <1>1, <2>1, <2>2, <2>3, SynchronizeKeeps
  <2> QED
    BY <1>1, <2>2, <2>4, SynchronizeKeeps DEF InStep
<1>4. pod[p].deferred = TRUE \/ pod[p].deferred = FALSE
  BY <1>1 DEF PodState
<1> QED
  BY <1>2, <1>3, <1>4

\* _on_config_changed
LEMMA ConfigStep ==
  ASSUME LogIInv, NEW p \in Pods, LogConfigChanged(p)
  PROVE  LogIInv'
<1>1. PICK b \in PodState : b = Begin(p) /\ InStep(b)
  BY BeginKeeps
<1> DEFINE r == [b EXCEPT !.config = FALSE]
<1>2. r \in PodState /\ r.late = b.late /\ r.deferred = b.deferred /\ r.flag = b.flag
      /\ r.created = b.created /\ r.config = FALSE /\ r.ready = b.ready
  BY DEF PodState
<1>3. pod' = [pod EXCEPT ![p] = IF r.ready THEN [r EXCEPT !.keep = Retention(r.flag)]
                                ELSE [r EXCEPT !.late = TRUE]]
  BY <1>1 DEF LogConfigChanged
<1> HIDE DEF r
<1>4. PICK k \in {0, 1, 3} : k = Retention(r.flag)
  BY DEF Retention
<1> DEFINE y == [r EXCEPT !.keep = k]
           z == [r EXCEPT !.late = TRUE]
<1>5. y \in PodState /\ y.late = r.late /\ y.deferred = r.deferred /\ y.flag = r.flag
      /\ y.created = r.created /\ y.keep = k
  BY <1>2 DEF PodState
<1>6. z \in PodState /\ z.late = TRUE
  BY <1>2 DEF PodState
<1>7. pod' = [pod EXCEPT ![p] = y] \/ pod' = [pod EXCEPT ![p] = z]
  BY <1>3, <1>4
<1> HIDE DEF y, z
<1>8. InStep(y)
  BY <1>1, <1>2, <1>4, <1>5 DEF InStep
<1>9. InStep(z)
  BY <1>6 DEF InStep
<1> QED
  BY <1>5, <1>6, <1>7, <1>8, <1>9, OnePod DEF LogConfigChanged, LogIInv, LogTypes

\* The types that the steps of the hooks need
LEMMA HookTypes ==
  ASSUME LogIInv
  PROVE  /\ published \in BOOLEAN /\ loki \in [Lokis -> LokiUnit] /\ logFaults \in Nat
         /\ LogTypes
  BY DEF LogIInv, LogTypes

\* The hook of relation-created
LEMMA CreatedStep ==
  ASSUME LogIInv, NEW p \in Pods, LogRelationCreated(p)
  PROVE  LogIInv'
<1>1. PICK b \in PodState : b = Begin(p) /\ InStep(b)
  BY BeginKeeps
<1> DEFINE c == [b EXCEPT !.created = TRUE]
<1>2. c \in PodState /\ c.created = TRUE
  BY DEF PodState
<1>3. Synchronize([Begin(p) EXCEPT !.created = TRUE]) = Synchronize(c)
  BY <1>1
<1> HIDE DEF c
<1>4. PICK r \in PodState : r = Synchronize(c)
  BY <1>2, SynchronizeKeeps
<1>5. c.ready = TRUE \/ c.ready = FALSE
  BY <1>2 DEF PodState
<1>6. /\ r.created = TRUE
      /\ c.ready = TRUE => r.deferred = FALSE /\ r.flag = TRUE /\ r.keep = 1
      /\ c.ready = FALSE => r.late = TRUE
  BY <1>2, <1>4, SynchronizeKeeps
<1>7. InStep(r)
  BY <1>5, <1>6 DEF InStep, Retention
<1>8. \/ SetsUp(p, r)
      \/ pod' = [pod EXCEPT ![p] = r] /\ UNCHANGED logFaults
  BY <1>3, <1>4 DEF LogRelationCreated
<1>9. UNCHANGED <<logging, loki, promtailUrl, published, logMoves>>
  BY DEF LogRelationCreated
<1> QED
  BY <1>7, <1>8, <1>9, OnePod, SetsUpKeeps, HookTypes

\* Fields of a pod that the rotation does not read may be written
LEMMA BeginOther ==
  ASSUME LogIInv, NEW p \in Pods, NEW j \in SUBSET Lokis, NEW d \in BOOLEAN
  PROVE  /\ [Begin(p) EXCEPT !.joined = j] \in PodState
         /\ InStep([Begin(p) EXCEPT !.joined = j])
         /\ [Begin(p) EXCEPT !.dirty = d] \in PodState
         /\ InStep([Begin(p) EXCEPT !.dirty = d])
         /\ [Begin(p) EXCEPT !.pebble = d] \in PodState
         /\ InStep([Begin(p) EXCEPT !.pebble = d])
         /\ [Begin(p) EXCEPT !.joined = j, !.dirty = d] \in PodState
         /\ InStep([Begin(p) EXCEPT !.joined = j, !.dirty = d])
<1>1. PICK b \in PodState : b = Begin(p) /\ InStep(b)
  BY BeginKeeps
<1> DEFINE w == [b EXCEPT !.joined = j]
           x == [b EXCEPT !.dirty = d]
           y == [b EXCEPT !.pebble = d]
           z == [b EXCEPT !.joined = j, !.dirty = d]
<1>2. w \in PodState /\ SameRotation(b, w)
  BY DEF PodState, SameRotation
<1>3. x \in PodState /\ SameRotation(b, x)
  BY DEF PodState, SameRotation
<1>4. y \in PodState /\ SameRotation(b, y)
  BY DEF PodState, SameRotation
<1>5. z \in PodState /\ SameRotation(b, z)
  BY DEF PodState, SameRotation
<1>6. /\ w = [Begin(p) EXCEPT !.joined = j] /\ x = [Begin(p) EXCEPT !.dirty = d]
      /\ y = [Begin(p) EXCEPT !.pebble = d] /\ z = [Begin(p) EXCEPT !.joined = j, !.dirty = d]
  BY <1>1
<1> HIDE DEF w, x, y, z
<1>7. InStep(w) /\ InStep(x) /\ InStep(y) /\ InStep(z)
  BY <1>1, <1>2, <1>3, <1>4, <1>5 DEF SameRotation, InStep
<1> QED
  BY <1>2, <1>3, <1>4, <1>5, <1>6, <1>7

\* The hook of relation-joined
LEMMA JoinedStep ==
  ASSUME LogIInv, NEW p \in Pods, NEW l \in Lokis, LogRelationJoined(p, l)
  PROVE  LogIInv'
<1>1. PICK j \in SUBSET Lokis : j = Begin(p).joined \cup {l}
  BY BeginKeeps DEF PodState
<1>2. pod' = [pod EXCEPT ![p] = [Begin(p) EXCEPT !.joined = j, !.dirty = TRUE]]
  BY <1>1 DEF LogRelationJoined
<1>3. UNCHANGED <<logging, loki, promtailUrl, published, logMoves, logFaults>>
  BY DEF LogRelationJoined
<1> QED
  BY <1>2, <1>3, BeginOther, OnePod, HookTypes

\* A new configuration file, followed by a restart, a stop or a failure, leaves the
\* rotation alone
LEMMA ReconfigureKeeps ==
  ASSUME LogTypes, NEW r \in PodState, InStep(r)
  PROVE  /\ PushConfig(r) \in PodState /\ InStep(PushConfig(r))
         /\ Restart(PushConfig(r)) \in PodState /\ InStep(Restart(PushConfig(r)))
         /\ [PushConfig(r) EXCEPT !.stuck = TRUE] \in PodState
         /\ InStep([PushConfig(r) EXCEPT !.stuck = TRUE])
         /\ [PushConfig(r) EXCEPT !.runs = NotRunning] \in PodState
         /\ InStep([PushConfig(r) EXCEPT !.runs = NotRunning])
<1>1. PICK s \in PodState : s = PushConfig(r) /\ SameRotation(r, s)
  BY PushKeeps
<1> DEFINE y == [s EXCEPT !.stuck = TRUE]
           z == [s EXCEPT !.runs = NotRunning]
<1>2. y \in PodState /\ SameRotation(s, y)
  BY DEF PodState, SameRotation
<1>3. z \in PodState /\ SameRotation(s, z)
  BY DEF PodState, SameRotation
<1>4. y = [PushConfig(r) EXCEPT !.stuck = TRUE] /\ z = [PushConfig(r) EXCEPT !.runs = NotRunning]
  BY <1>1
<1>5. Restart(s) \in PodState /\ SameRotation(s, Restart(s))
  BY RestartKeeps
<1> HIDE DEF y, z
<1>6. InStep(s) /\ InStep(y) /\ InStep(z) /\ InStep(Restart(s))
  BY <1>1, <1>2, <1>3, <1>5 DEF SameRotation, InStep
<1> QED
  BY <1>1, <1>2, <1>3, <1>4, <1>5, <1>6

\* The hook of relation-changed
LEMMA ChangedStep ==
  ASSUME LogIInv, NEW p \in Pods, LogRelationChanged(p)
  PROVE  LogIInv'
<1>1. PICK r \in PodState : r = [Begin(p) EXCEPT !.dirty = FALSE] /\ InStep(r)
  BY BeginOther
<1>2. published' \in BOOLEAN
  BY HookTypes DEF LogRelationChanged, HandleAlertRules
<1>3. loki' \in [Lokis -> LokiUnit]
  <2>1. CASE UNCHANGED loki
    BY <2>1, HookTypes
  <2>2. CASE loki' = [l \in Lokis |-> IF loki[l].there
                                      THEN [loki[l] EXCEPT !.todo = @ \cup {"changed"}]
                                      ELSE loki[l]]
    <3>1. ASSUME NEW l \in Lokis
          PROVE  [loki[l] EXCEPT !.todo = @ \cup {"changed"}] \in LokiUnit
      <4>1. PICK k \in LokiUnit : k = loki[l]
        BY HookTypes
      <4>2. PICK t \in SUBSET {"joined", "changed"} : t = k.todo \cup {"changed"}
        BY DEF LokiUnit
      <4>3. [k EXCEPT !.todo = t] \in LokiUnit
        BY DEF LokiUnit
      <4> QED
        BY <4>1, <4>2, <4>3
    <3> QED
      BY <2>2, <3>1, HookTypes
  <2> QED
    BY <2>1, <2>2 DEF LogRelationChanged, HandleAlertRules
<1>4. \/ SetsUp(p, r)
      \/ /\ UNCHANGED logFaults
         /\ \/ pod' = [pod EXCEPT ![p] = r]
            \/ pod' = [pod EXCEPT ![p] = PushConfig(r)]
            \/ pod' = [pod EXCEPT ![p] = Restart(PushConfig(r))]
  BY <1>1 DEF LogRelationChanged
<1>5. UNCHANGED <<logging, promtailUrl, logMoves>>
  BY DEF LogRelationChanged
<1>6. PushConfig(r) \in PodState /\ InStep(PushConfig(r))
      /\ Restart(PushConfig(r)) \in PodState /\ InStep(Restart(PushConfig(r)))
  BY <1>1, ReconfigureKeeps, HookTypes
<1> QED
  BY <1>1, <1>2, <1>3, <1>4, <1>5, <1>6, OnePod, SetsUpKeeps, HookTypes

\* The hook of relation-departed
LEMMA DepartedStep ==
  ASSUME LogIInv, NEW p \in Pods, NEW l \in Lokis, LogRelationDeparted(p, l)
  PROVE  LogIInv'
<1>1. PICK j \in SUBSET Lokis : j = Begin(p).joined \ {l}
  BY BeginKeeps DEF PodState
<1>2. PICK r \in PodState : r = [Begin(p) EXCEPT !.joined = j] /\ InStep(r)
  BY BeginOther
<1>3. \E s \in {r, [PushConfig(r) EXCEPT !.stuck = TRUE], [PushConfig(r) EXCEPT !.runs = NotRunning],
                 Restart(PushConfig(r))} : pod' = [pod EXCEPT ![p] = s]
  BY <1>1, <1>2 DEF LogRelationDeparted
<1>4. UNCHANGED <<logging, loki, promtailUrl, published, logMoves, logFaults>>
  BY DEF LogRelationDeparted
<1>5. \E s \in PodState : InStep(s) /\ pod' = [pod EXCEPT ![p] = s]
  BY <1>2, <1>3, ReconfigureKeeps, HookTypes
<1> QED
  BY <1>4, <1>5, OnePod, HookTypes

\* The hook of relation-broken: where no event was deferred, _synchronized is false by
\* the time the retention is updated
LEMMA BrokenStep ==
  ASSUME LogIInv, NEW p \in Pods, LogRelationBroken(p)
  PROVE  LogIInv'
<1>1. PICK b \in PodState : b = Begin(p) /\ InStep(b) /\ (b.late = FALSE => pod[p].deferred = FALSE)
  BY BeginKeeps
<1>2. PICK k \in {0, 1, 3} : k = Retention(pod[p].deferred)
  BY DEF Retention
<1> DEFINE r == [b EXCEPT !.created = FALSE, !.dirty = FALSE]
           y == [r EXCEPT !.flag = FALSE, !.keep = k]
           z == [r EXCEPT !.late = TRUE]
<1>3. pod' = [pod EXCEPT ![p] = y] \/ pod' = [pod EXCEPT ![p] = z]
  BY <1>1, <1>2 DEF LogRelationBroken
<1>4. r \in PodState /\ r.late = b.late /\ r.deferred = b.deferred /\ r.created = FALSE
  BY DEF PodState
<1> HIDE DEF r
<1>5. y \in PodState /\ y.late = r.late /\ y.deferred = r.deferred /\ y.created = r.created
      /\ y.flag = FALSE /\ y.keep = k
  BY <1>4 DEF PodState
<1>6. z \in PodState /\ z.late = TRUE
  BY <1>4 DEF PodState
<1> HIDE DEF y, z
<1>7. InStep(z)
  BY <1>6 DEF InStep
<1>8. InStep(y)
  <2> SUFFICES ASSUME ~y.late PROVE y.deferred = FALSE /\ y.keep = 3
    BY <1>4, <1>5 DEF InStep, Retention
  <2>1. b.late = FALSE
    BY <1>4, <1>5 DEF PodState
  <2>2. b.deferred = FALSE
    BY <1>1, <2>1 DEF InStep, PodState
  <2>3. k = 3
    BY <1>1, <1>2, <2>1 DEF Retention
  <2> QED
    BY <1>4, <1>5, <2>2, <2>3
<1>9. UNCHANGED <<logging, loki, promtailUrl, published, logMoves, logFaults>>
  BY DEF LogRelationBroken
<1> QED
  BY <1>3, <1>5, <1>6, <1>7, <1>8, <1>9, OnePod, HookTypes

\* The hook of pebble-ready
LEMMA PebbleStep ==
  ASSUME LogIInv, NEW p \in Pods, LogPebbleReady(p)
  PROVE  LogIInv'
<1>1. PICK r \in PodState : r = [Begin(p) EXCEPT !.pebble = FALSE] /\ InStep(r)
  BY BeginOther
<1>2. \/ SetsUp(p, r)
      \/ pod' = [pod EXCEPT ![p] = r] /\ UNCHANGED logFaults
  BY <1>1 DEF LogPebbleReady
<1>3. UNCHANGED <<logging, loki, promtailUrl, published, logMoves>>
  BY DEF LogPebbleReady
<1> QED
  BY <1>1, <1>2, <1>3, OnePod, SetsUpKeeps, HookTypes

\* The workload answers
LEMMA AnswersStep ==
  ASSUME LogIInv, NEW p \in Pods, WorkloadAnswers(p)
  PROVE  LogIInv'
<1>1. PICK x \in PodState : x = pod[p] /\ InStep(x)
  BY DEF LogIInv, LogTypes
<1> DEFINE r == [x EXCEPT !.ready = TRUE, !.pebble = TRUE]
<1>2. pod' = [pod EXCEPT ![p] = r]
  BY <1>1, HookTypes DEF WorkloadAnswers, LogTypes
<1>3. r \in PodState /\ r.late = x.late /\ r.deferred = x.deferred /\ r.flag = x.flag
      /\ r.created = x.created /\ r.config = x.config /\ r.keep = x.keep
  BY DEF PodState
<1> HIDE DEF r
<1>4. InStep(r)
  BY <1>1, <1>3 DEF InStep
<1>5. UNCHANGED <<logging, loki, promtailUrl, published, logMoves, logFaults>>
  BY DEF WorkloadAnswers
<1> QED
  BY <1>2, <1>3, <1>4, <1>5, OnePod, HookTypes

\* A restarted pod has no configuration, and config-changed is to come
LEMMA RestartsStep ==
  ASSUME LogIInv, NEW p \in Pods, PodRestarts(p)
  PROVE  LogIInv'
<1>1. PICK x \in PodState : x = pod[p] /\ InStep(x)
  BY DEF LogIInv, LogTypes
<1>2. PICK none \in Targets : none = {}
  BY DEF Targets
<1> DEFINE r == [x EXCEPT
       !.ready = FALSE, !.pebble = FALSE, !.config = TRUE, !.cached = FALSE, !.installed = FALSE,
       !.plan = FALSE, !.conf = none, !.runs = NotRunning, !.keep = 0]
<1>3. pod' = [pod EXCEPT ![p] = r]
  BY <1>1, <1>2 DEF PodRestarts
<1>4. r \in PodState /\ r.late = x.late /\ r.deferred = x.deferred /\ r.flag = x.flag
      /\ r.created = x.created /\ r.config = TRUE
  BY DEF PodState
<1> HIDE DEF r
<1>5. InStep(r)
  BY <1>1, <1>4 DEF InStep
<1>6. UNCHANGED <<logging, loki, promtailUrl, published, logFaults>> /\ logMoves' \in Nat
  BY DEF PodRestarts, LogMove, LogIInv, LogTypes
<1> QED
  BY <1>3, <1>4, <1>5, <1>6 DEF LogIInv, LogTypes

\* A pod that is notified stays in step
LEMMA DirtyKeeps ==
  ASSUME LogIInv, NEW p \in Pods
  PROVE  /\ [pod[p] EXCEPT !.dirty = TRUE] \in PodState
         /\ InStep([pod[p] EXCEPT !.dirty = TRUE])
<1>1. PICK x \in PodState : x = pod[p] /\ InStep(x)
  BY DEF LogIInv, LogTypes
<1> DEFINE r == [x EXCEPT !.dirty = TRUE]
<1>2. r \in PodState /\ SameRotation(x, r)
  BY DEF PodState, SameRotation
<1>3. r = [pod[p] EXCEPT !.dirty = TRUE]
  BY <1>1
<1> HIDE DEF r
<1>4. InStep(r)
  BY <1>1, <1>2 DEF SameRotation, InStep
<1> QED
  BY <1>2, <1>3, <1>4

\* Loki notifies pods, and never touches their retention
LEMMA LokiKeeps ==
  ASSUME LogIInv, loki' \in [Lokis -> LokiUnit],
         \/ UNCHANGED pod
         \/ \E Q \in SUBSET Pods :
              pod' = [p \in Pods |-> IF p \in Q THEN [pod[p] EXCEPT !.dirty = TRUE] ELSE pod[p]],
         logging' \in {"none", "up", "dying"}, promtailUrl' \in BOOLEAN, UNCHANGED <<published, logFaults>>,
         logMoves' \in Nat
  PROVE  LogIInv'
<1>1. pod' \in [Pods -> PodState] /\ \A p \in Pods : InStep(pod'[p])
  BY DirtyKeeps DEF LogIInv, LogTypes
<1> QED
  BY <1>1 DEF LogIInv, LogTypes

\* What happens to a unit of Loki keeps its type
LEMMA LokiUnits ==
  ASSUME LogIInv, NEW l \in Lokis, NEW a \in Nat, NEW v \in Nat, NEW t \in SUBSET {"joined", "changed"},
         NEW th \in BOOLEAN, NEW e \in BOOLEAN
  PROVE  /\ [loki[l] EXCEPT !.todo = t] \in LokiUnit
         /\ [loki[l] EXCEPT !.todo = t, !.endpoint = e, !.url = v] \in LokiUnit
         /\ [loki[l] EXCEPT !.address = a, !.todo = t] \in LokiUnit
         /\ [loki[l] EXCEPT !.there = th, !.endpoint = e, !.todo = t] \in LokiUnit
         /\ [loki[l] EXCEPT !.there = th, !.todo = t] \in LokiUnit
<1>1. PICK k \in LokiUnit : k = loki[l]
  BY DEF LogIInv, LogTypes
<1>2. /\ [k EXCEPT !.todo = t] \in LokiUnit
      /\ [k EXCEPT !.todo = t, !.endpoint = e, !.url = v] \in LokiUnit
      /\ [k EXCEPT !.address = a, !.todo = t] \in LokiUnit
      /\ [k EXCEPT !.there = th, !.endpoint = e, !.todo = t] \in LokiUnit
      /\ [k EXCEPT !.there = th, !.todo = t] \in LokiUnit
  BY DEF LokiUnit
<1> QED
  BY <1>1, <1>2

\* _on_logging_relation_joined
LEMMA LokiJoinedStep ==
  ASSUME LogIInv, NEW l \in Lokis, LokiJoined(l)
  PROVE  LogIInv'
<1>1. PICK t \in SUBSET {"joined", "changed"} : t = (loki[l].todo \ {"joined"}) \cup {"changed"}
  BY HookTypes DEF LokiUnit
<1>2. loki' = [loki EXCEPT ![l] = [loki[l] EXCEPT !.todo = t]]
  BY <1>1, HookTypes DEF LokiJoined
<1>3. loki' \in [Lokis -> LokiUnit]
  BY <1>2, LokiUnits, HookTypes
<1>4. PICK Q \in SUBSET Pods : Q = {p \in Pods : promtailUrl # promtailUrl' /\ pod[p].joined # {}}
  OBVIOUS
<1>5. pod' = [p \in Pods |-> IF p \in Q THEN [pod[p] EXCEPT !.dirty = TRUE] ELSE pod[p]]
  BY <1>4 DEF LokiJoined
<1>6. UNCHANGED <<logging, published, logMoves, logFaults>> /\ promtailUrl' \in BOOLEAN
  BY HookTypes DEF LokiJoined, LogTypes
<1>7. logMoves \in Nat /\ logging \in {"none", "up", "dying"}
  BY DEF LogIInv, LogTypes
<1> QED
  BY <1>3, <1>5, <1>6, <1>7, LokiKeeps

\* _process_logging_relation_changed
LEMMA LokiChangedStep ==
  ASSUME LogIInv, NEW l \in Lokis, LokiChanged(l)
  PROVE  LogIInv'
<1>1. PICK t \in SUBSET {"joined", "changed"} : t = loki[l].todo \ {"changed"}
  BY HookTypes DEF LokiUnit
<1>2. PICK v \in Nat : v = loki[l].address
  BY HookTypes DEF LokiUnit
<1>3. loki' = [loki EXCEPT ![l] = [loki[l] EXCEPT !.todo = t, !.endpoint = TRUE, !.url = v]]
  BY <1>1, <1>2, HookTypes DEF LokiChanged
<1>4. loki' \in [Lokis -> LokiUnit]
  BY <1>3, LokiUnits, HookTypes
<1>5. PICK Q \in SUBSET Pods : Q = {p \in Pods : l \in pod[p].joined}
  OBVIOUS
<1>6. \/ UNCHANGED pod
      \/ pod' = [p \in Pods |-> IF p \in Q THEN [pod[p] EXCEPT !.dirty = TRUE] ELSE pod[p]]
  BY <1>5 DEF LokiChanged, Notify
<1>7. UNCHANGED <<logging, promtailUrl, published, logMoves, logFaults>>
  BY DEF LokiChanged
<1>8. logMoves \in Nat /\ logging \in {"none", "up", "dying"} /\ promtailUrl \in BOOLEAN
  BY DEF LogIInv, LogTypes
<1> QED
  BY <1>4, <1>6, <1>7, <1>8, LokiKeeps

\* Units of Loki move, come and go
LEMMA LokiMovesStep ==
  ASSUME LogIInv, NEW l \in Lokis, LokiMoves(l) \/ LokiAdded(l) \/ LokiRemoved(l)
  PROVE  LogIInv'
<1>1. PICK t \in SUBSET {"joined", "changed"} : t = loki[l].todo \cup {"changed"}
  BY HookTypes DEF LokiUnit
<1>2. PICK a \in Nat : a = loki[l].address + 1
  BY HookTypes DEF LokiUnit
<1>3. PICK s \in SUBSET {"joined", "changed"} : s = IF logging = "up" THEN {"joined"} ELSE {}
  OBVIOUS
<1>4. PICK n \in SUBSET {"joined", "changed"} : n = {}
  OBVIOUS
<1>7. UNCHANGED <<logging, promtailUrl, published, pod, logFaults>> /\ logMoves' \in Nat
  BY DEF LokiMoves, LokiAdded, LokiRemoved, LogMove, LogIInv, LogTypes
<1>8. logging \in {"none", "up", "dying"} /\ promtailUrl \in BOOLEAN
  BY DEF LogIInv, LogTypes
<1>5. CASE LokiMoves(l)
  <2>1. loki' = [loki EXCEPT ![l] = [loki[l] EXCEPT !.address = a, !.todo = t]]
    BY <1>1, <1>2, <1>5, HookTypes DEF LokiMoves
  <2> QED
    BY <2>1, <1>7, <1>8, LokiUnits, HookTypes, LokiKeeps
<1>6. CASE LokiAdded(l)
  <2>1. loki' = [loki EXCEPT ![l] = [loki[l] EXCEPT !.there = TRUE, !.endpoint = FALSE, !.todo = s]]
    BY <1>3, <1>6, HookTypes DEF LokiAdded
  <2> QED
    BY <2>1, <1>7, <1>8, LokiUnits, HookTypes, LokiKeeps
<1>9. CASE LokiRemoved(l)
  <2>1. loki' = [loki EXCEPT ![l] = [loki[l] EXCEPT !.there = FALSE, !.todo = n]]
    BY <1>4, <1>9, HookTypes DEF LokiRemoved
  <2> QED
    BY <2>1, <1>7, <1>8, LokiUnits, HookTypes, LokiKeeps
<1> QED
  BY <1>5, <1>6, <1>9

\* The operator relates the charm to Loki, and ends the relation
LEMMA RelateStep ==
  ASSUME LogIInv, RelateLoki \/ UnrelateLoki
  PROVE  LogIInv'
<1>1. PICK t \in SUBSET {"joined", "changed"} : t = {"joined"}
  OBVIOUS
<1>2. PICK n \in SUBSET {"joined", "changed"} : n = {}
  OBVIOUS
<1>3. \/ loki' = [l \in Lokis |-> IF loki[l].there THEN [loki[l] EXCEPT !.todo = t] ELSE loki[l]]
      \/ loki' = [l \in Lokis |-> [loki[l] EXCEPT !.todo = n]]
  BY <1>1, <1>2 DEF RelateLoki, UnrelateLoki
<1>4. \A l \in Lokis : loki[l] \in LokiUnit /\ [loki[l] EXCEPT !.todo = t] \in LokiUnit
                       /\ [loki[l] EXCEPT !.todo = n] \in LokiUnit
  BY LokiUnits, HookTypes
<1>5. loki' \in [Lokis -> LokiUnit]
  BY <1>3, <1>4
<1>6. UNCHANGED <<promtailUrl, published, pod, logMoves, logFaults>> /\ logging' \in {"up", "dying"}
  BY DEF RelateLoki, UnrelateLoki
<1>7. promtailUrl \in BOOLEAN /\ logMoves \in Nat
  BY DEF LogIInv, LogTypes
<1> QED
  BY <1>5, <1>6, <1>7, LokiKeeps

\* Every step of the logs keeps the invariant
LEMMA LogStep == LogIInv /\ [LogNext]_logVars => LogIInv'
<1> SUFFICES ASSUME LogIInv, [LogNext]_logVars PROVE LogIInv'
  OBVIOUS
<1>1. CASE LogHook
  BY <1>1, ConfigStep, CreatedStep, ChangedStep, BrokenStep, PebbleStep, AnswersStep, JoinedStep,
     DepartedStep, LokiJoinedStep, LokiChangedStep DEF LogHook
<1>2. CASE RelateLoki \/ UnrelateLoki
  BY <1>2, RelateStep
<1>3. CASE \E p \in Pods : PodRestarts(p)
  BY <1>3, RestartsStep
<1>4. CASE \E l \in Lokis : LokiMoves(l) \/ LokiAdded(l) \/ LokiRemoved(l)
  BY <1>4, LokiMovesStep
<1>5. CASE UNCHANGED logVars
  BY <1>5 DEF logVars, LogIInv, LogTypes
<1> QED
  BY <1>1, <1>2, <1>3, <1>4, <1>5 DEF LogNext

\* The invariant implies the property of the retention
LEMMA LogKept == LogIInv => LogsKeptUntilShipped
  BY DEF LogIInv, InStep, LogsKeptUntilShipped

-----------------------------------------------------------------------------
(* The passwords of the charm *)

\* The types of the variables of Credentials
PwTypes ==
  /\ vault \in [Accounts -> Passwords \cup {0}]
  /\ account \in [Accounts -> Passwords \cup {0}]
  /\ exporter \in [Keepers -> Passwords \cup {0}]
  /\ pwLeader \in Keepers /\ quorum \in BOOLEAN
  /\ call \in Calls \cup {NoCall} /\ answer \in {"ok", "failed"}
  /\ astray \subseteq Accounts /\ pwMoves \in 0 .. MaxPwMoves

\* While set-password runs, every account but the one that it changes agrees
OthersAgree == call \in Calls =>
  \A a \in Accounts \ (astray \cup {call.user}) : vault[a] = account[a]

\* The account that is changed: it agrees until the statement has run, and from then on
\* it has the password of the call, which the secret has yet to get
CallAgrees == (call \in Calls /\ call.user \notin astray) =>
  /\ call.step = "account" => vault[call.user] = account[call.user]
  /\ call.step # "account" => account[call.user] = call.password
  /\ call.unit = pwLeader

\* The inductive invariant of the passwords
PwIInv == PwTypes /\ PasswordsAgree /\ OthersAgree /\ CallAgrees

\* The generated passwords agree
LEMMA PwInit == CredentialsInit => PwIInv
BY CredentialsAssumption, NoCallAssumption
   DEF CredentialsInit, PwIInv, PwTypes, PasswordsAgree, OthersAgree, CallAgrees

\* Every step of set-password, and what may come between two of them, keeps the
\* invariant
LEMMA PwStep == PwIInv /\ [PwNext]_pwVars => PwIInv'
<1> SUFFICES ASSUME PwIInv, [PwNext]_pwVars PROVE PwIInv'
  OBVIOUS
<1> USE CredentialsAssumption, NoCallAssumption
    DEF PwIInv, PwTypes, PasswordsAgree, OthersAgree, CallAgrees, Calls
<1>1. ASSUME NEW u \in Keepers, NEW a \in Accounts \cup Strangers, NEW p \in Passwords,
             SetPassword(u, a, p)
      PROVE  PwIInv'
  BY <1>1 DEF SetPassword, PwMove, Fails
<1>2. CASE UpdateClusterUser
  BY <1>2 DEF UpdateClusterUser, Fails, Goes
<1>3. CASE UserStatementFails
  BY <1>3 DEF UserStatementFails, Fails, PwMove
<1>4. CASE UpdatePassword
  BY <1>4 DEF UpdatePassword, Fails, Goes, Commits
<1>5. CASE RestartExporter
  BY <1>5 DEF RestartExporter, Commits
<1>6. CASE CallDies
  BY <1>6 DEF CallDies, Fails, PwMove
<1>7. ASSUME NEW u \in Keepers, PwLeaderMoves(u)
      PROVE  PwIInv'
  BY <1>7 DEF PwLeaderMoves, PwMove
<1>8. CASE QuorumChanges
  BY <1>8 DEF QuorumChanges, PwMove
<1>9. CASE UNCHANGED pwVars
  BY <1>9 DEF pwVars
<1>10. QED
  BY <1>1, <1>2, <1>3, <1>4, <1>5, <1>6, <1>7, <1>8, <1>9 DEF PwNext

-----------------------------------------------------------------------------
(* The removal of units *)

\* The steps of _on_storage_detaching, and what the model keeps of a unit
Hooks == {"idle", "promote", "find", "lock", "detach", "release"}

UnitState == [is : {"in", "leaving", "gone"}, flag : BOOLEAN,
              todo : SUBSET {"elected", "settings"}, left : Nat, step : Hooks,
              host : Servers \cup {NoServer}, via : Servers \cup {NoServer}]

\* The types of the variables of Departure
DepTypes ==
  /\ depLeader \in Servers
  /\ server \in [Servers -> UnitState]
  /\ listed \subseteq Servers /\ writer \in Servers
  /\ holder \in Servers \cup {NoServer}
  /\ disturbed \in BOOLEAN /\ failover \in BOOLEAN /\ depMoves \in Nat

\* The leader is a unit that exists
LeaderRemains == server[depLeader].is # "gone"

\* The leader flags in the databag are those of the leader, save for the hooks to come
FlagsFollow == \A u \in Servers :
  /\ "elected" \in server[u].todo => u = depLeader
  /\ "settings" \in server[u].todo => u # depLeader
  /\ u = depLeader => server[u].flag \/ "elected" \in server[u].todo
  /\ u # depLeader => ~server[u].flag \/ "settings" \in server[u].todo

\* A hook runs on a unit that is leaving and has a storage left
HooksOfLeaving == \A u \in Servers :
  /\ server[u].step # "idle" => server[u].is = "leaving" /\ server[u].left > 0
  /\ server[u].is = "in" => server[u].left = Storages

\* A unit in a removal that nothing disturbed: it leaves alone, it hands the primary to
\* the leader before it asks for the lock, and it is out of the metadata before its first
\* storage is gone
Orderly(u) ==
  /\ server[u].is = "in" => u \in listed
  /\ server[u].is = "gone" => u \notin listed
  /\ server[u].is = "leaving" =>
       /\ \A v \in Servers : server[v].todo = {}
       /\ \A v \in Servers : server[v].is = "leaving" => v = u
       /\ server[u].left < Storages => u \notin listed
       /\ server[u].step \in {"promote", "find", "lock", "detach"} => u \in listed
       /\ u = depLeader => writer # u /\ server[u].step # "promote"
       /\ server[u].step \in {"find", "lock", "detach", "release"} => writer # u
       /\ server[u].step \in {"promote", "find"} => server[u].host = depLeader
       /\ server[u].step \in {"lock", "detach", "release"} =>
            server[u].via \in Servers /\ server[server[u].via].is # "gone"

\* A cluster in which nothing disturbed a removal
OrderlyRemoval ==
  ~disturbed => /\ ~failover
                /\ writer \in listed
                /\ server[writer].is # "gone"
                /\ \A u \in Servers : Orderly(u)

\* The inductive invariant of the removal of units
DepIInv == DepTypes /\ LeaderRemains /\ FlagsFollow /\ HooksOfLeaving /\ OrderlyRemoval

\* A deployed cluster satisfies the invariant
LEMMA DepInitIInv == DepInit => DepIInv
<1> SUFFICES ASSUME DepInit PROVE DepIInv
  OBVIOUS
<1>1. depLeader \in Servers
  BY DepartureAssumption DEF DepInit
<1>2. DepTypes
  BY <1>1, DepartureAssumption DEF DepInit, DepTypes, UnitState, Hooks
<1> QED
  BY <1>1, <1>2, DepartureAssumption
  DEF DepInit, DepIInv, LeaderRemains, FlagsFollow, HooksOfLeaving, OrderlyRemoval, Orderly

\* A step of one unit leaves the other ones alone
LEMMA OneServer ==
  ASSUME DepTypes, NEW u \in Servers, NEW r \in UnitState, server' = [server EXCEPT ![u] = r]
  PROVE  /\ server' \in [Servers -> UnitState] /\ server'[u] = r
         /\ \A v \in Servers : v # u => server'[v] = server[v]
  BY DEF DepTypes

\* A handler that returns gives one storage up
LEMMA ReturnFields ==
  ASSUME DepTypes, NEW u \in Servers, server[u].left > 0
  PROVE  /\ Return(u) \in UnitState
         /\ Return(u).is = server[u].is /\ Return(u).flag = server[u].flag
         /\ Return(u).todo = server[u].todo /\ Return(u).left = server[u].left - 1
         /\ Return(u).step = "idle"
<1>1. PICK x \in UnitState : x = server[u]
  BY DEF DepTypes
<1>2. PICK n \in Nat : n = server[u].left - 1
  BY <1>1 DEF UnitState
<1>3. Return(u) = [x EXCEPT !.step = "idle", !.left = n, !.host = NoServer, !.via = NoServer]
  BY <1>1, <1>2 DEF Return
<1>4. /\ Return(u) \in UnitState
      /\ Return(u).is = x.is /\ Return(u).flag = x.flag
      /\ Return(u).todo = x.todo /\ Return(u).left = n
      /\ Return(u).step = "idle"
  BY <1>3 DEF UnitState, Hooks
<1> QED
  BY <1>1, <1>2, <1>4

\* A step of a hook that keeps the removal orderly keeps the invariant
LEMMA HookKeeps ==
  ASSUME DepIInv, NEW u \in Servers, NEW r \in UnitState, server' = [server EXCEPT ![u] = r],
         r.is = server[u].is, r.flag = server[u].flag, r.todo = server[u].todo,
         r.step # "idle" => server[u].is = "leaving" /\ r.left > 0,
         server[u].is = "in" => r.left = Storages,
         listed' \subseteq listed, writer' \in Servers, holder' \in Servers \cup {NoServer},
         disturbed' \in BOOLEAN, depMoves' \in Nat, UNCHANGED <<depLeader, failover>>,
         OrderlyRemoval'
  PROVE  DepIInv'
<1>1. /\ server' \in [Servers -> UnitState] /\ server'[u] = r
      /\ \A v \in Servers : v # u => server'[v] = server[v]
  BY OneServer DEF DepIInv
<1>2. DepTypes'
  BY <1>1 DEF DepIInv, DepTypes
<1>3. LeaderRemains' /\ FlagsFollow' /\ HooksOfLeaving'
  BY <1>1 DEF DepIInv, DepTypes, LeaderRemains, FlagsFollow, HooksOfLeaving
<1> QED
  BY <1>2, <1>3 DEF DepIInv

\* A handler may return where something is disturbed, or where its unit is not listed
LEMMA ReturnsKeeps ==
  ASSUME DepIInv, NEW u \in Servers, server[u].is = "leaving", server[u].left > 0, Returns(u),
         ~disturbed' => ~disturbed /\ u \notin listed /\ UNCHANGED writer,
         UNCHANGED <<depLeader, listed, failover>>, disturbed' \in BOOLEAN,
         writer' \in Servers, holder' \in Servers \cup {NoServer}, depMoves' \in Nat
  PROVE  DepIInv'
<1>1. server' = [server EXCEPT ![u] = Return(u)]
  BY DEF Returns
<1>2. /\ Return(u) \in UnitState
      /\ Return(u).is = server[u].is /\ Return(u).flag = server[u].flag
      /\ Return(u).todo = server[u].todo /\ Return(u).left = server[u].left - 1
      /\ Return(u).step = "idle"
  BY ReturnFields DEF DepIInv
<1>3. /\ server' \in [Servers -> UnitState] /\ server'[u] = Return(u)
      /\ \A v \in Servers : v # u => server'[v] = server[v]
  BY <1>1, <1>2, OneServer DEF DepIInv
<1>4. OrderlyRemoval'
  BY <1>2, <1>3, DepartureAssumption DEF DepIInv, DepTypes, OrderlyRemoval, Orderly
<1> QED
  BY <1>1, <1>2, <1>4, HookKeeps

\* An exception keeps the invariant: Juju runs the hook again
LEMMA RaisesKeeps ==
  ASSUME DepIInv, NEW u \in Servers, server[u].is = "leaving", Raises(u),
         UNCHANGED <<depLeader, listed, writer, disturbed, failover, depMoves>>,
         holder' \in Servers \cup {NoServer}
  PROVE  DepIInv'
<1>1. PICK x \in UnitState : x = server[u]
  BY DEF DepIInv, DepTypes
<1> DEFINE r == [x EXCEPT !.step = "idle", !.host = NoServer, !.via = NoServer]
<1>2. server' = [server EXCEPT ![u] = r]
  BY <1>1 DEF Raises, DepIInv, DepTypes
<1>3. /\ r \in UnitState /\ r.is = x.is /\ r.flag = x.flag /\ r.todo = x.todo
      /\ r.left = x.left /\ r.step = "idle"
  BY DEF UnitState, Hooks
<1> HIDE DEF r
<1>4. /\ server' \in [Servers -> UnitState] /\ server'[u] = r
      /\ \A v \in Servers : v # u => server'[v] = server[v]
  BY <1>2, <1>3, OneServer DEF DepIInv
<1>5. OrderlyRemoval'
  BY <1>1, <1>3, <1>4 DEF DepIInv, DepTypes, OrderlyRemoval, Orderly
<1> QED
  BY <1>1, <1>2, <1>3, <1>5, HookKeeps DEF DepIInv, DepTypes

\* A hook that moves on changes its step only
LEMMA StepFields ==
  ASSUME DepTypes, NEW u \in Servers, NEW to \in Hooks,
         server' = [server EXCEPT ![u].step = to]
  PROVE  \E r \in UnitState :
           /\ server' = [server EXCEPT ![u] = r]
           /\ r.is = server[u].is /\ r.flag = server[u].flag /\ r.todo = server[u].todo
           /\ r.left = server[u].left /\ r.step = to
           /\ r.host = server[u].host /\ r.via = server[u].via
<1>1. PICK x \in UnitState : x = server[u]
  BY DEF DepTypes
<1> DEFINE r == [x EXCEPT !.step = to]
<1>2. server' = [server EXCEPT ![u] = r]
  BY <1>1 DEF DepTypes
<1>3. /\ r \in UnitState /\ r.is = x.is /\ r.flag = x.flag /\ r.todo = x.todo
      /\ r.left = x.left /\ r.step = to /\ r.host = x.host /\ r.via = x.via
  BY DEF UnitState
<1> HIDE DEF r
<1> QED
  BY <1>1, <1>2, <1>3

\* The start of _on_storage_detaching: the flag that it finds is that of the leader
LEMMA DetachingStep ==
  ASSUME DepIInv, NEW u \in Servers, OnStorageDetaching(u)
  PROVE  DepIInv'
<1>1. CASE u \notin listed
  BY <1>1, ReturnsKeeps DEF OnStorageDetaching, DepIInv, DepTypes
<1>2. CASE u \in listed
  <2>1. PICK found \in FindLeaderUnit(u) :
          server' = [server EXCEPT ![u].host = found,
                                   ![u].step = IF writer = u THEN "promote" ELSE "find"]
    BY <1>2 DEF OnStorageDetaching
  <2>2. PICK x \in UnitState : x = server[u]
    BY DEF DepIInv, DepTypes
  <2>3. PICK s \in {"promote", "find"} : s = (IF writer = u THEN "promote" ELSE "find")
    OBVIOUS
  <2> DEFINE r == [x EXCEPT !.host = found, !.step = s]
  <2>4. found \in Servers
    BY <2>1 DEF FindLeaderUnit, Remaining
  <2>5. ~disturbed => found = depLeader
    BY <2>1
    DEF FindLeaderUnit, Remaining, OnStorageDetaching, DepIInv, OrderlyRemoval, Orderly,
        LeaderRemains, FlagsFollow, DepTypes
  <2>6. server' = [server EXCEPT ![u] = r]
    BY <2>1, <2>2, <2>3 DEF DepIInv, DepTypes
  <2>7. /\ r \in UnitState /\ r.is = x.is /\ r.flag = x.flag /\ r.todo = x.todo
        /\ r.left = x.left /\ r.step = s /\ r.host = found
    BY <2>3, <2>4 DEF UnitState, Hooks
  <2> HIDE DEF r
  <2>8. /\ server' \in [Servers -> UnitState] /\ server'[u] = r
        /\ \A v \in Servers : v # u => server'[v] = server[v]
    BY <2>6, <2>7, OneServer DEF DepIInv
  <2>9. OrderlyRemoval'
    BY <1>2, <2>2, <2>3, <2>5, <2>7, <2>8
    DEF DepIInv, DepTypes, OnStorageDetaching, OrderlyRemoval, Orderly
  <2> QED
    BY <2>2, <2>6, <2>7, <2>9, HookKeeps DEF OnStorageDetaching, DepIInv, DepTypes
<1> QED
  BY <1>1, <1>2

\* promote_instance
LEMMA PromoteStep ==
  ASSUME DepIInv, NEW u \in Servers, PromoteInstance(u)
  PROVE  DepIInv'
<1>1. server[u].is = "leaving" /\ server[u].left > 0
  BY DEF PromoteInstance, DepIInv, HooksOfLeaving
<1>2. CASE server[u].host \in listed \cap Remaining
  <2>1. PICK r \in UnitState :
          /\ server' = [server EXCEPT ![u] = r]
          /\ r.is = server[u].is /\ r.flag = server[u].flag /\ r.todo = server[u].todo
          /\ r.left = server[u].left /\ r.step = "find"
          /\ r.host = server[u].host /\ r.via = server[u].via
    BY <1>2, StepFields DEF PromoteInstance, Step, DepIInv, Hooks
  <2>2. /\ server' \in [Servers -> UnitState] /\ server'[u] = r
        /\ \A v \in Servers : v # u => server'[v] = server[v]
    BY <2>1, OneServer DEF DepIInv
  <2>3. OrderlyRemoval'
    BY <1>1, <1>2, <2>1, <2>2
    DEF PromoteInstance, Remaining, DepIInv, DepTypes, OrderlyRemoval, Orderly
  <2>4. /\ writer' \in Servers /\ holder' \in Servers \cup {NoServer} /\ disturbed' \in BOOLEAN
        /\ depMoves' \in Nat /\ UNCHANGED <<depLeader, listed, failover>>
    BY <1>2 DEF PromoteInstance, Remaining, DepIInv, DepTypes
  <2> QED
    BY <1>1, <2>1, <2>3, <2>4, HookKeeps
<1>3. CASE server[u].host \notin listed \cap Remaining
  BY <1>1, <1>3, ReturnsKeeps DEF PromoteInstance, DepIInv, DepTypes
<1> QED
  BY <1>2, <1>3

\* find_cluster_primary
LEMMA FindStep ==
  ASSUME DepIInv, NEW u \in Servers, FindClusterPrimary(u)
  PROVE  DepIInv'
<1>1. server[u].is = "leaving" /\ server[u].left > 0
  BY DEF FindClusterPrimary, DepIInv, HooksOfLeaving
<1>2. CASE server[u].host \in listed \cap Remaining
  <2>1. PICK x \in UnitState : x = server[u]
    BY DEF DepIInv, DepTypes
  <2> DEFINE r == [x EXCEPT !.via = writer, !.step = "lock"]
  <2>2. server' = [server EXCEPT ![u] = r]
    BY <1>2, <2>1 DEF FindClusterPrimary, DepIInv, DepTypes
  <2>3. writer \in Servers
    BY DEF DepIInv, DepTypes
  <2>4. /\ r \in UnitState /\ r.is = x.is /\ r.flag = x.flag /\ r.todo = x.todo
        /\ r.left = x.left /\ r.step = "lock" /\ r.via = writer
    BY <2>3 DEF UnitState, Hooks
  <2> HIDE DEF r
  <2>5. /\ server' \in [Servers -> UnitState] /\ server'[u] = r
        /\ \A v \in Servers : v # u => server'[v] = server[v]
    BY <2>2, <2>4, OneServer DEF DepIInv
  <2>6. OrderlyRemoval'
    BY <1>1, <1>2, <2>1, <2>4, <2>5
    DEF FindClusterPrimary, DepIInv, DepTypes, OrderlyRemoval, Orderly
  <2> QED
    BY <1>1, <1>2, <2>1, <2>2, <2>4, <2>6, HookKeeps DEF FindClusterPrimary, DepIInv, DepTypes
<1>3. CASE server[u].host \notin listed \cap Remaining
  BY <1>1, <1>3, ReturnsKeeps DEF FindClusterPrimary, DepIInv, DepTypes
<1> QED
  BY <1>2, <1>3

\* The lock of the removal is acquired, or refused
LEMMA LockStep ==
  ASSUME DepIInv, NEW u \in Servers, AcquireRemoval(u)
  PROVE  DepIInv'
<1>1. server[u].is = "leaving" /\ server[u].left > 0
  BY DEF AcquireRemoval, DepIInv, HooksOfLeaving
<1>2. CASE server[u].via \notin Remaining \/ u \notin listed \/ writer = u
  <2>1. disturbed
    BY <1>1, <1>2 DEF AcquireRemoval, Remaining, DepIInv, OrderlyRemoval, Orderly
  <2> QED
    BY <1>1, <1>2, <2>1, ReturnsKeeps DEF AcquireRemoval, DepIInv, DepTypes
<1>3. CASE server[u].via \in Remaining /\ u \in listed /\ writer # u
  <2>1. CASE server[u].via = writer /\ holder \in {NoServer, u}
    <3>1. PICK r \in UnitState :
            /\ server' = [server EXCEPT ![u] = r]
            /\ r.is = server[u].is /\ r.flag = server[u].flag /\ r.todo = server[u].todo
            /\ r.left = server[u].left /\ r.step = "detach"
            /\ r.host = server[u].host /\ r.via = server[u].via
      BY <1>3, <2>1, StepFields DEF AcquireRemoval, Step, DepIInv, Hooks
    <3>2. /\ server' \in [Servers -> UnitState] /\ server'[u] = r
          /\ \A v \in Servers : v # u => server'[v] = server[v]
      BY <3>1, OneServer DEF DepIInv
    <3>3. OrderlyRemoval'
      BY <1>1, <1>3, <3>1, <3>2 DEF AcquireRemoval, DepIInv, DepTypes, OrderlyRemoval, Orderly
    <3> QED
      BY <1>1, <1>3, <2>1, <3>1, <3>3, HookKeeps DEF AcquireRemoval, DepIInv, DepTypes
  <2>2. CASE ~(server[u].via = writer /\ holder \in {NoServer, u})
    BY <1>1, <1>3, <2>2, RaisesKeeps DEF AcquireRemoval, DepIInv, DepTypes
  <2> QED
    BY <2>1, <2>2
<1> QED
  BY <1>2, <1>3

\* detach_instance
LEMMA DetachStep ==
  ASSUME DepIInv, NEW u \in Servers, DetachInstance(u)
  PROVE  DepIInv'
<1>1. server[u].is = "leaving" /\ server[u].left > 0
  BY DEF DetachInstance, DepIInv, HooksOfLeaving
<1>2. PICK r \in UnitState :
        /\ server' = [server EXCEPT ![u] = r]
        /\ r.is = server[u].is /\ r.flag = server[u].flag /\ r.todo = server[u].todo
        /\ r.left = server[u].left /\ r.step = "release"
        /\ r.host = server[u].host /\ r.via = server[u].via
  BY StepFields DEF DetachInstance, Step, DepIInv, Hooks
<1>3. /\ server' \in [Servers -> UnitState] /\ server'[u] = r
      /\ \A v \in Servers : v # u => server'[v] = server[v]
  BY <1>2, OneServer DEF DepIInv
<1>4. /\ listed' \in {listed, listed \ {u}}
      /\ writer = u => listed' = listed
  BY DEF DetachInstance
<1>5. OrderlyRemoval'
  BY <1>1, <1>2, <1>3, <1>4 DEF DetachInstance, DepIInv, DepTypes, OrderlyRemoval, Orderly
<1> QED
  BY <1>1, <1>2, <1>4, <1>5, HookKeeps DEF DetachInstance, DepIInv, DepTypes

\* The lock is given back
LEMMA ReleaseStep ==
  ASSUME DepIInv, NEW u \in Servers, ReleaseRemoval(u)
  PROVE  DepIInv'
<1>1. server[u].is = "leaving" /\ server[u].left > 0
  BY DEF ReleaseRemoval, DepIInv, HooksOfLeaving
<1>2. CASE server[u].via # writer \/ u \in listed
  BY <1>1, <1>2, RaisesKeeps DEF ReleaseRemoval, DepIInv, DepTypes
<1>3. CASE server[u].via = writer /\ u \notin listed
  BY <1>1, <1>3, ReturnsKeeps DEF ReleaseRemoval, DepIInv, DepTypes
<1> QED
  BY <1>2, <1>3

\* _on_leader_elected and _on_leader_changed
LEMMA FlagStep ==
  ASSUME DepIInv, NEW u \in Servers, LeaderElected(u) \/ LeaderSettingsChanged(u)
  PROVE  DepIInv'
<1>1. PICK x \in UnitState : x = server[u]
  BY DEF DepIInv, DepTypes
<1>2. PICK e \in {"elected", "settings"}, f \in BOOLEAN :
        /\ f = (e = "elected") /\ e \in x.todo
        /\ server' = [server EXCEPT ![u].todo = @ \ {e}, ![u].flag = f]
  BY <1>1 DEF LeaderElected, LeaderSettingsChanged
<1>3. PICK rest \in SUBSET {"elected", "settings"} : rest = x.todo \ {e}
  BY DEF UnitState
<1> DEFINE r == [x EXCEPT !.todo = rest, !.flag = f]
<1>4. server' = [server EXCEPT ![u] = r]
  BY <1>1, <1>2, <1>3 DEF DepIInv, DepTypes
<1>5. /\ r \in UnitState /\ r.is = x.is /\ r.flag = f /\ r.todo = rest
      /\ r.left = x.left /\ r.step = x.step /\ r.host = x.host /\ r.via = x.via
  BY DEF UnitState
<1> HIDE DEF r
<1>6. /\ server' \in [Servers -> UnitState] /\ server'[u] = r
      /\ \A v \in Servers : v # u => server'[v] = server[v]
  BY <1>4, <1>5, OneServer DEF DepIInv
<1>7. DepTypes' /\ LeaderRemains' /\ HooksOfLeaving'
  BY <1>1, <1>5, <1>6
  DEF LeaderElected, LeaderSettingsChanged, DepIInv, DepTypes, LeaderRemains, HooksOfLeaving
<1>8. FlagsFollow'
  <2>1. e = "elected" => u = depLeader /\ r.flag = TRUE
    BY <1>1, <1>2, <1>5 DEF DepIInv, FlagsFollow
  <2>2. e = "settings" => u # depLeader /\ r.flag = FALSE
    BY <1>1, <1>2, <1>5 DEF DepIInv, FlagsFollow
  <2>3. UNCHANGED depLeader /\ r.todo = x.todo \ {e}
    BY <1>3, <1>5 DEF LeaderElected, LeaderSettingsChanged
  <2>4. ASSUME NEW v \in Servers
        PROVE  /\ "elected" \in server'[v].todo => v = depLeader
               /\ "settings" \in server'[v].todo => v # depLeader
               /\ v = depLeader => server'[v].flag \/ "elected" \in server'[v].todo
               /\ v # depLeader => ~server'[v].flag \/ "settings" \in server'[v].todo
    BY <1>1, <1>2, <1>6, <2>1, <2>2, <2>3 DEF DepIInv, FlagsFollow
  <2> QED
    BY <2>3, <2>4 DEF FlagsFollow
<1>9. OrderlyRemoval'
  BY <1>1, <1>2, <1>3, <1>5, <1>6
  DEF LeaderElected, LeaderSettingsChanged, DepIInv, DepTypes, OrderlyRemoval, Orderly
<1> QED
  BY <1>7, <1>8, <1>9 DEF DepIInv

\* What an election changes: the flags to come, and nothing else
LEMMA ElectFields ==
  ASSUME DepTypes, NEW u \in Servers
  PROVE  /\ Elect(u) \in [Servers -> UnitState]
         /\ \A v \in Servers :
              /\ Elect(u)[v].is = server[v].is /\ Elect(u)[v].flag = server[v].flag
              /\ Elect(u)[v].left = server[v].left /\ Elect(u)[v].step = server[v].step
              /\ Elect(u)[v].host = server[v].host /\ Elect(u)[v].via = server[v].via
              /\ "elected" \in Elect(u)[v].todo <=> v = u
              /\ "settings" \in Elect(u)[v].todo <=> v # u
<1>1. ASSUME NEW v \in Servers
      PROVE  /\ Elect(u)[v] \in UnitState
             /\ Elect(u)[v].is = server[v].is /\ Elect(u)[v].flag = server[v].flag
             /\ Elect(u)[v].left = server[v].left /\ Elect(u)[v].step = server[v].step
             /\ Elect(u)[v].host = server[v].host /\ Elect(u)[v].via = server[v].via
             /\ "elected" \in Elect(u)[v].todo <=> v = u
             /\ "settings" \in Elect(u)[v].todo <=> v # u
  <2>1. PICK x \in UnitState : x = server[v]
    BY DEF DepTypes
  <2>2. PICK todo \in SUBSET {"elected", "settings"} :
          todo = IF v = u THEN (x.todo \ {"settings"}) \cup {"elected"}
                 ELSE (x.todo \ {"elected"}) \cup {"settings"}
    BY DEF UnitState
  <2>3. Elect(u)[v] = [x EXCEPT !.todo = todo]
    BY <2>1, <2>2 DEF Elect
  <2>4. /\ Elect(u)[v] \in UnitState
        /\ Elect(u)[v].is = x.is /\ Elect(u)[v].flag = x.flag
        /\ Elect(u)[v].left = x.left /\ Elect(u)[v].step = x.step
        /\ Elect(u)[v].host = x.host /\ Elect(u)[v].via = x.via /\ Elect(u)[v].todo = todo
    BY <2>3 DEF UnitState
  <2> QED
    BY <2>1, <2>2, <2>4
<1>2. Elect(u) = [v \in Servers |-> Elect(u)[v]]
  BY DEF Elect
<1> QED
  BY <1>1, <1>2

\* Leadership moves
LEMMA LeaderStep ==
  ASSUME DepIInv, NEW u \in Servers, LeadershipMoves(u)
  PROVE  DepIInv'
<1>1. server' = Elect(u) /\ depLeader' = u /\ server[u].is = "in"
  BY DEF LeadershipMoves
<1>2. /\ server' \in [Servers -> UnitState]
      /\ \A v \in Servers :
           /\ server'[v].is = server[v].is /\ server'[v].flag = server[v].flag
           /\ server'[v].left = server[v].left /\ server'[v].step = server[v].step
           /\ "elected" \in server'[v].todo <=> v = u
           /\ "settings" \in server'[v].todo <=> v # u
  <2>1. DepTypes
    BY DEF DepIInv
  <2>2. /\ Elect(u) \in [Servers -> UnitState]
        /\ \A v \in Servers :
             /\ Elect(u)[v].is = server[v].is /\ Elect(u)[v].flag = server[v].flag
             /\ Elect(u)[v].left = server[v].left /\ Elect(u)[v].step = server[v].step
             /\ "elected" \in Elect(u)[v].todo <=> v = u
             /\ "settings" \in Elect(u)[v].todo <=> v # u
    BY <2>1, ElectFields
  <2> QED
    BY <1>1, <2>2
<1>3. DepTypes'
  BY <1>1, <1>2 DEF LeadershipMoves, DepMove, DepIInv, DepTypes
<1>4. LeaderRemains' /\ FlagsFollow' /\ HooksOfLeaving'
  BY <1>1, <1>2 DEF DepIInv, DepTypes, LeaderRemains, FlagsFollow, HooksOfLeaving
<1>5. OrderlyRemoval'
  <2>1. ~disturbed' => ~disturbed /\ \A v \in Servers : server[v].is # "leaving"
    BY DEF LeadershipMoves, Leaving
  <2> QED
    BY <1>1, <1>2, <2>1 DEF LeadershipMoves, DepIInv, DepTypes, OrderlyRemoval, Orderly
<1> QED
  BY <1>3, <1>4, <1>5 DEF DepIInv

\* A unit is removed by the operator
LEMMA RemoveStep ==
  ASSUME DepIInv, NEW u \in Servers, RemoveUnit(u)
  PROVE  DepIInv'
<1>1. PICK x \in UnitState : x = server[u]
  BY DEF DepIInv, DepTypes
<1> DEFINE r == [x EXCEPT !.is = "leaving"]
<1>2. server' = [server EXCEPT ![u] = r] /\ x.is = "in"
  BY <1>1 DEF RemoveUnit, DepIInv, DepTypes
<1>3. /\ r \in UnitState /\ r.is = "leaving" /\ r.flag = x.flag /\ r.todo = x.todo
      /\ r.left = x.left /\ r.step = x.step
  BY DEF UnitState
<1> HIDE DEF r
<1>4. /\ server' \in [Servers -> UnitState] /\ server'[u] = r
      /\ \A v \in Servers : v # u => server'[v] = server[v]
  BY <1>2, <1>3, OneServer DEF DepIInv
<1>5. DepTypes'
  BY <1>4 DEF RemoveUnit, DepIInv, DepTypes
<1>6. LeaderRemains' /\ FlagsFollow' /\ HooksOfLeaving'
  BY <1>1, <1>2, <1>3, <1>4
  DEF RemoveUnit, DepIInv, DepTypes, LeaderRemains, FlagsFollow, HooksOfLeaving
<1>7. OrderlyRemoval'
  <2>1. ~disturbed' => /\ ~disturbed /\ \A v \in Servers : server[v].is # "leaving"
                       /\ \A v \in Servers : server[v].todo = {} /\ server[v].step = "idle"
                       /\ u = depLeader => writer # u
    BY DEF RemoveUnit, Leaving
  <2> SUFFICES ASSUME ~disturbed' PROVE OrderlyRemoval'
    BY DEF OrderlyRemoval
  <2>2. UNCHANGED <<depLeader, listed, writer, failover>>
    BY DEF RemoveUnit
  <2>3. ~failover /\ writer \in listed /\ server'[writer].is # "gone"
    BY <1>3, <1>4, <2>1 DEF DepIInv, DepTypes, OrderlyRemoval
  <2>4. Orderly(u)'
    BY <1>1, <1>2, <1>3, <1>4, <2>1, <2>2, DepartureAssumption
    DEF DepIInv, HooksOfLeaving, OrderlyRemoval, Orderly
  <2>5. ASSUME NEW v \in Servers, v # u PROVE Orderly(v)'
    BY <1>4, <2>1, <2>2, <2>5 DEF DepIInv, OrderlyRemoval, Orderly
  <2> QED
    BY <2>2, <2>3, <2>4, <2>5 DEF OrderlyRemoval
<1> QED
  BY <1>5, <1>6, <1>7 DEF DepIInv

\* A unit is gone: it was not listed any more, and so not the primary
LEMMA GoneStep ==
  ASSUME DepIInv, NEW u \in Servers, UnitGone(u)
  PROVE  DepIInv'
<1>1. PICK v \in Servers :
        /\ v # u /\ server[v].is # "gone" /\ depLeader' = v
        /\ depLeader # u => v = depLeader
        /\ server' = [(IF v = depLeader THEN server ELSE Elect(v)) EXCEPT
                        ![u].is = "gone", ![u].todo = {}, ![u].flag = FALSE]
  BY DEF UnitGone, Remaining, DepIInv, DepTypes, LeaderRemains
<1> DEFINE old == IF v = depLeader THEN server ELSE Elect(v)
<1>2. /\ old \in [Servers -> UnitState]
      /\ \A w \in Servers :
           /\ old[w].is = server[w].is /\ old[w].flag = server[w].flag
           /\ old[w].left = server[w].left /\ old[w].step = server[w].step
           /\ old[w].host = server[w].host /\ old[w].via = server[w].via
  BY <1>1, ElectFields DEF DepIInv, DepTypes
<1>3. \A w \in Servers : w # u =>
        /\ "elected" \in old[w].todo => w = v
        /\ "settings" \in old[w].todo => w # v
        /\ w = v => old[w].flag \/ "elected" \in old[w].todo
        /\ w # v => ~old[w].flag \/ "settings" \in old[w].todo
  BY <1>1, ElectFields DEF DepIInv, FlagsFollow
<1> HIDE DEF old
<1>4. PICK x \in UnitState : x = old[u]
  BY <1>2
<1> DEFINE r == [x EXCEPT !.is = "gone", !.todo = {}, !.flag = FALSE]
<1>5. server' = [old EXCEPT ![u] = r]
  BY <1>1, <1>2, <1>4 DEF old
<1>6. r \in UnitState /\ r.is = "gone" /\ r.flag = FALSE /\ r.todo = {} /\ r.step = x.step
  BY DEF UnitState
<1> HIDE DEF r
<1>7. /\ server' \in [Servers -> UnitState] /\ server'[u] = r
      /\ \A w \in Servers : w # u => server'[w] = old[w]
  BY <1>2, <1>5, <1>6
<1>8. server[u].is = "leaving" /\ server[u].left = 0 /\ server[u].step = "idle"
  BY DEF UnitGone, DepIInv, HooksOfLeaving, DepTypes, UnitState
<1>9. DepTypes'
  BY <1>1, <1>7 DEF UnitGone, DepIInv, DepTypes
<1>10. LeaderRemains'
  BY <1>1, <1>2, <1>7 DEF LeaderRemains
<1>11. FlagsFollow'
  BY <1>1, <1>3, <1>6, <1>7 DEF FlagsFollow
<1>12. HooksOfLeaving'
  BY <1>2, <1>4, <1>6, <1>7, <1>8 DEF DepIInv, HooksOfLeaving
<1>13. OrderlyRemoval'
  <2> SUFFICES ASSUME ~disturbed' PROVE OrderlyRemoval'
    BY DEF OrderlyRemoval
  <2>1. ~disturbed /\ UNCHANGED listed
    BY DEF UnitGone
  <2>2. u \notin listed
    BY <1>8, <2>1, DepartureAssumption DEF DepIInv, OrderlyRemoval, Orderly
  <2>3. writer # u /\ UNCHANGED <<writer, failover>>
    BY <2>1, <2>2 DEF UnitGone, DepIInv, OrderlyRemoval
  <2>4. \A w \in Servers : w # u => server[w].is # "leaving"
    BY <1>8, <2>1 DEF DepIInv, OrderlyRemoval, Orderly
  <2> QED
    BY <1>2, <1>6, <1>7, <2>1, <2>2, <2>3, <2>4 DEF DepIInv, DepTypes, OrderlyRemoval, Orderly
<1> QED
  BY <1>9, <1>10, <1>11, <1>12, <1>13 DEF DepIInv

\* promote-to-primary
LEMMA OperatorStep ==
  ASSUME DepIInv, NEW u \in Servers, PromoteToPrimary(u)
  PROVE  DepIInv'
<1>1. DepTypes' /\ LeaderRemains' /\ FlagsFollow' /\ HooksOfLeaving'
  BY DEF PromoteToPrimary, Remaining, DepMove, DepIInv, DepTypes, LeaderRemains, FlagsFollow,
         HooksOfLeaving
<1>2. OrderlyRemoval'
  BY DEF PromoteToPrimary, Remaining, DepIInv, DepTypes, OrderlyRemoval, Orderly
<1> QED
  BY <1>1, <1>2 DEF DepIInv

\* A call that is not answered
LEMMA CallFailsStep ==
  ASSUME DepIInv, NEW u \in Servers, CallFails(u)
  PROVE  DepIInv'
<1>1. server[u].is = "leaving" /\ server[u].left > 0
  BY DEF CallFails, DepIInv, HooksOfLeaving
<1> QED
  BY <1>1, ReturnsKeeps DEF CallFails, DepMove, DepIInv, DepTypes

\* Every step of a removal keeps the invariant
LEMMA DepStep == DepIInv /\ [DepNext]_depVars => DepIInv'
<1> SUFFICES ASSUME DepIInv, [DepNext]_depVars PROVE DepIInv'
  OBVIOUS
<1>1. CASE UNCHANGED depVars
  BY <1>1
  DEF depVars, DepIInv, DepTypes, LeaderRemains, FlagsFollow, HooksOfLeaving, OrderlyRemoval, Orderly
<1> QED
  BY <1>1, DetachingStep, PromoteStep, FindStep, LockStep, DetachStep, ReleaseStep, FlagStep,
     LeaderStep, RemoveStep, GoneStep, OperatorStep, CallFailsStep
  DEF DepNext, DepHook

\* The invariant implies the property of the removal
LEMMA DepClean == DepIInv => RemovalIsClean
BY DEF DepIInv, OrderlyRemoval, Orderly, RemovalIsClean

-----------------------------------------------------------------------------
(* The parts together *)

\* The invariants of the three parts
CompanionsIInv == LogIInv /\ PwIInv /\ DepIInv

\* Every part starts in its own invariant
LEMMA CompanionsInitIInv == CompanionsInit => CompanionsIInv
BY LogInitIInv, PwInit, DepInitIInv DEF CompanionsInit, CompanionsIInv

\* A step is one of the part of the behaviour, and leaves the other parts alone
LEMMA CompanionsStep == CompanionsIInv /\ [CompanionsNext]_companionVars => CompanionsIInv'
<1> SUFFICES ASSUME CompanionsIInv, [CompanionsNext]_companionVars PROVE CompanionsIInv'
  OBVIOUS
<1>1. [LogNext]_logVars
  BY DEF CompanionsNext, companionVars, Logging, MetricsEndpoint, GrafanaDashboard, Agents,
         MachineHosts, FirstStart, Certificates, OwnPasswords, Removal
<1>2. [PwNext]_pwVars
  BY DEF CompanionsNext, companionVars, Logging, MetricsEndpoint, GrafanaDashboard, Agents,
         MachineHosts, FirstStart, Certificates, OwnPasswords, Removal
<1>3. [DepNext]_depVars
  BY DEF CompanionsNext, companionVars, Logging, MetricsEndpoint, GrafanaDashboard, Agents,
         MachineHosts, FirstStart, Certificates, OwnPasswords, Removal
<1> QED
  BY <1>1, <1>2, <1>3, LogStep, PwStep, DepStep DEF CompanionsIInv

\* The three invariants hold in every state of every behaviour, for any sets of pods,
\* units of Loki, accounts, passwords and units
THEOREM CompanionsInvariance == CompanionsSpec => []CompanionsIInv
BY CompanionsInitIInv, CompanionsStep, PTL DEF CompanionsSpec

\* A pod that is related to Loki keeps its logs for a day and every other one for three
\* days, whatever restarts and in whatever order events come, unless the workload did not
\* answer a handler of the rotation (LogRotationEventHandler)
THEOREM RetentionFollowsRelation == CompanionsSpec => []LogsKeptUntilShipped
<1>1. CompanionsIInv => LogsKeptUntilShipped
  BY LogKept DEF CompanionsIInv
<1> QED
  BY <1>1, CompanionsInvariance, PTL

\* When no set-password runs, the secret holds the password of every account, save for the
\* accounts whose change was cut off between the statement and the secret, or was undone
\* by a move of the leadership (_on_set_password)
THEOREM SecretsHoldPasswords == CompanionsSpec => []PasswordsAgree
<1>1. CompanionsIInv => PasswordsAgree
  BY DEF CompanionsIInv, PwIInv
<1> QED
  BY <1>1, CompanionsInvariance, PTL

\* A unit that is gone is not in the metadata of the cluster, and the group never had to
\* elect a primary, for any number of units and storages, unless something disturbed the
\* removal (_on_storage_detaching, remove_instance)
THEOREM UnitsLeaveCleanly == CompanionsSpec => []RemovalIsClean
<1>1. CompanionsIInv => RemovalIsClean
  BY DepClean DEF CompanionsIInv
<1> QED
  BY <1>1, CompanionsInvariance, PTL
=============================================================================
