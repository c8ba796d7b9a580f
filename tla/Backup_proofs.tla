--------------------------- MODULE Backup_proofs ---------------------------
(***************************************************************************)
(* Proofs about Backup: its invariants, and that data is only given up for *)
(* a copy.  One lemma per action shows that it keeps the invariant IInv.   *)
(***************************************************************************)
EXTENDS Backup, TLAPS

\* The stages of create-backup
Backing == {"checked", "described", "isolated", "streamed", "leaving"}
\* The stages of restore
Restoring == {"fetching", "preparing", "stopping", "resetting", "clearing", "moving",
              "cleaning", "starting", "recreating"}

\* What the model keeps of an action that runs
ActState == [stage : {"idle"} \cup Backing \cup Restoring, id : Ids, force : BOOLEAN,
             isolated : BOOLEAN, result : {"ok", "failed"}]

\* The types of the variables
Types ==
  /\ related \in BOOLEAN /\ clock \in Ids
  /\ members \subseteq Units /\ primary \in Units
  /\ running \subseteq Units /\ known \subseteq Units /\ online \subseteq Units
  /\ hidden \subseteq Units /\ offline \subseteq Units
  /\ data \in [Units -> {Live, Lost, Torn} \cup Ids]
  /\ temp \in [Units -> SUBSET {"xtra_backup", "partial", "prepared"}]
  /\ store \in [Ids -> SUBSET {"metadata", "chunks", "md5", "log"}]
  /\ act \in [Units -> ActState]
  /\ reported \subseteq Ids /\ swallowed \subseteq Ids
  /\ disturbed \subseteq Units
  /\ faults \in Nat /\ requests \in Nat /\ moves \in Nat

\* Servers, tags and actions are those of units of the application
Placed ==
  /\ running \subseteq members /\ online \subseteq members
  /\ hidden \subseteq members /\ offline \subseteq members
  /\ \A u \in Units : act[u].stage # "idle" => u \in members

\* What hides a unit is its own backup, which knows that it has to end the isolation
IsolatedByAction ==
  \A u \in (hidden \cup offline) \ disturbed :
    act[u].isolated /\ act[u].stage \in {"isolated", "streamed", "leaving"}

\* The objects that make a backup be listed as finished
Whole(id) == {"metadata", "md5"} \subseteq store[id]

\* What a backup has uploaded at each of its stages, and what was reported
BackupInBucket ==
  /\ reported # {} => related
  /\ \A id \in reported \ swallowed : Whole(id)
  /\ \A u \in Units :
       /\ act[u].stage # "idle" => related
       /\ act[u].stage \in {"described", "isolated", "streamed", "leaving"}
            => "metadata" \in store[act[u].id]
       /\ act[u].stage = "streamed" => "md5" \in store[act[u].id]
       /\ act[u].stage = "leaving" /\ act[u].result = "ok"
            => "md5" \in store[act[u].id] \/ act[u].id \in swallowed

\* What a restoration has in hand at each of its stages: a finished backup, a prepared
\* copy before the server is stopped, a server that stays out of the cluster until the data
\* directory is that backup
CopyReady ==
  \A u \in Units :
    /\ act[u].stage \in Restoring => "md5" \in store[act[u].id]
    /\ act[u].stage \in {"stopping", "resetting", "clearing", "moving"} => "prepared" \in temp[u]
    /\ act[u].stage \in {"resetting", "clearing", "moving", "cleaning", "starting"} => u \notin running
    /\ act[u].stage \in {"resetting", "clearing", "moving", "cleaning", "starting", "recreating"}
         => u \notin online
    /\ act[u].stage \in {"cleaning", "starting", "recreating"} => data[u] = act[u].id
    /\ act[u].stage = "recreating" => u \in running

\* A copy in a data directory is one of a finished backup, and no server runs on an
\* emptied directory, whoever started it
ServesWhole ==
  /\ \A u \in Units : data[u] \in Ids => "md5" \in store[data[u]]
  /\ \A u \in running : data[u] # Lost
  /\ online \subseteq running

\* The inductive invariant.  The properties of the runs alone are not inductive: a step
\* that ends an action has to know what the earlier stages of that action did.
IInv == /\ Types /\ Placed /\ IsolatedByAction
        /\ BackupInBucket /\ CopyReady /\ ServesWhole

\* The initial state is well typed
LEMMA InitTypes == Init => Types
<1> SUFFICES ASSUME Init PROVE Types
  OBVIOUS
<1>1. primary \in Units /\ members \subseteq Units
  BY BackupAssumption DEF Init
<1>2. 1 \in Ids
  BY BackupAssumption DEF Ids
<1>3. Idle \in ActState
  BY <1>2 DEF Idle, ActState
<1> QED
  BY <1>1, <1>2, <1>3 DEF Init, Types

\* The initial state satisfies the invariant
LEMMA InitIInv == Init => IInv
<1> SUFFICES ASSUME Init PROVE IInv
  OBVIOUS
<1>1. Types
  BY InitTypes
<1>2. \A u \in Units : act[u].stage = "idle" /\ data[u] = Live
  BY DEF Init, Idle
<1>3. Placed /\ IsolatedByAction
  BY <1>2 DEF Init, Placed, IsolatedByAction
<1>4. BackupInBucket /\ CopyReady /\ ServesWhole
  <2>1. Live \notin Ids /\ Live # Lost
    BY BackupAssumption DEF Ids
  <2>2. ServesWhole
    BY <1>1, <1>2, <2>1 DEF Init, ServesWhole, Types
  <2>3. BackupInBucket /\ CopyReady
    BY <1>1, <1>2 DEF Init, BackupInBucket, CopyReady, Restoring, Types
  <2> QED
    BY <2>2, <2>3
<1> QED
  BY <1>1, <1>3, <1>4 DEF IInv

\* A step of one unit leaves the actions of the other ones alone
LEMMA OneAct ==
  ASSUME Types, NEW u \in Units, NEW r \in ActState, act' = [act EXCEPT ![u] = r]
  PROVE  /\ act' \in [Units -> ActState] /\ act'[u] = r
         /\ \A v \in Units : v # u => act'[v] = act[v]
  BY DEF Types

\* All stages
Stages == {"idle"} \cup Backing \cup Restoring

\* An action that goes on keeps all but its stage
LEMMA GotoFields ==
  ASSUME Types, NEW u \in Units, NEW s \in Stages, Goto(u, s)
  PROVE  /\ act' \in [Units -> ActState]
         /\ act'[u].stage = s /\ act'[u].id = act[u].id /\ act'[u].force = act[u].force
         /\ act'[u].isolated = act[u].isolated
         /\ act'[u].result = act[u].result
         /\ \A v \in Units : v # u => act'[v] = act[v]
<1>1. PICK x \in ActState : x = act[u]
  BY DEF Types
<1> DEFINE r == [x EXCEPT !.stage = s]
<1>2. act' = [act EXCEPT ![u] = r]
  BY <1>1 DEF Goto, Types
<1>3. r \in ActState /\ r.stage = s /\ r.id = x.id /\ r.force = x.force
      /\ r.isolated = x.isolated /\ r.result = x.result
  BY DEF ActState, Stages
<1> HIDE DEF r
<1> QED
  BY <1>1, <1>2, <1>3, OneAct

\* An action that ends is idle
LEMMA FinishFields ==
  ASSUME Types, NEW u \in Units, Finish(u)
  PROVE  /\ act' \in [Units -> ActState] /\ act'[u].stage = "idle"
         /\ \A v \in Units : v # u => act'[v] = act[v]
<1>1. 1 \in Ids
  BY BackupAssumption DEF Ids
<1>2. Idle \in ActState /\ Idle.stage = "idle"
  BY <1>1 DEF Idle, ActState
<1> QED
  BY <1>2, OneAct DEF Finish

\* A backup that fails goes on to leave its isolation
LEMMA FailFields ==
  ASSUME Types, NEW u \in Units,
         act' = [act EXCEPT ![u].stage = "leaving", ![u].result = "failed"]
  PROVE  /\ act' \in [Units -> ActState]
         /\ act'[u].stage = "leaving" /\ act'[u].id = act[u].id /\ act'[u].force = act[u].force
         /\ act'[u].isolated = act[u].isolated
         /\ act'[u].result = "failed"
         /\ \A v \in Units : v # u => act'[v] = act[v]
<1>1. PICK x \in ActState : x = act[u]
  BY DEF Types
<1> DEFINE r == [x EXCEPT !.stage = "leaving", !.result = "failed"]
<1>2. act' = [act EXCEPT ![u] = r]
  BY <1>1 DEF Types
<1>3. r \in ActState /\ r.stage = "leaving" /\ r.id = x.id /\ r.force = x.force
      /\ r.isolated = x.isolated /\ r.result = "failed"
  BY DEF ActState, Backing
<1> HIDE DEF r
<1> QED
  BY <1>1, <1>2, <1>3, OneAct

\* A backup remembers that it isolated its instance
LEMMA IsolateFields ==
  ASSUME Types, NEW u \in Units,
         act' = [act EXCEPT ![u].stage = "isolated", ![u].isolated = TRUE]
  PROVE  /\ act' \in [Units -> ActState]
         /\ act'[u].stage = "isolated" /\ act'[u].id = act[u].id /\ act'[u].force = act[u].force
         /\ act'[u].isolated = TRUE
         /\ act'[u].result = act[u].result
         /\ \A v \in Units : v # u => act'[v] = act[v]
<1>1. PICK x \in ActState : x = act[u]
  BY DEF Types
<1> DEFINE r == [x EXCEPT !.stage = "isolated", !.isolated = TRUE]
<1>2. act' = [act EXCEPT ![u] = r]
  BY <1>1 DEF Types
<1>3. r \in ActState /\ r.stage = "isolated" /\ r.id = x.id /\ r.force = x.force
      /\ r.isolated = TRUE /\ r.result = x.result
  BY DEF ActState, Backing
<1> HIDE DEF r
<1> QED
  BY <1>1, <1>2, <1>3, OneAct

\* The bucket only grows
LEMMA StoreGrows ==
  ASSUME Types, NEW id \in Ids, NEW kinds \in SUBSET {"metadata", "chunks", "md5", "log"}, Put(id, kinds)
  PROVE  /\ store' \in [Ids -> SUBSET {"metadata", "chunks", "md5", "log"}]
         /\ store'[id] = store[id] \cup kinds
         /\ \A i \in Ids : i # id => store'[i] = store[i]
  BY DEF Types, Put

\* The storage is configured
LEMMA ConfigureStep == IInv /\ Configure => IInv'
BY DEF IInv, Configure, isolationVars, dataVars, resultVars, Types, Placed, IsolatedByAction,
       BackupInBucket, Whole, CopyReady, ServesWhole

\* The clock
LEMMA TickStep == IInv /\ Tick => IInv'
BY BackupAssumption
   DEF IInv, Tick, Ids, isolationVars, dataVars, resultVars, Types, Placed, IsolatedByAction,
       BackupInBucket, Whole, CopyReady, ServesWhole

\* The checks of create-backup
LEMMA CreateStep ==
  ASSUME IInv, NEW u \in Units, NEW force \in BOOLEAN, CreateBackup(u, force)
  PROVE  IInv'
<1>1. Types /\ clock \in Ids /\ u \in members
  BY DEF IInv, Types, CreateBackup, Initialized, Placed
<1> DEFINE r == [Idle EXCEPT !.stage = "checked", !.id = clock, !.force = force]
<1>2. r \in ActState /\ r.stage = "checked" /\ r.force = force
  BY <1>1 DEF Idle, ActState, Backing
<1>3. act' = [act EXCEPT ![u] = r]
  BY DEF CreateBackup
<1> HIDE DEF r
<1>4. /\ act' \in [Units -> ActState] /\ act'[u] = r
      /\ \A v \in Units : v # u => act'[v] = act[v]
  BY <1>1, <1>2, <1>3, OneAct
<1>5. /\ related /\ act[u].stage = "idle" /\ requests' \in Nat
      /\ UNCHANGED <<related, clock, members, primary, running, known, online, moves, isolationVars,
                     dataVars, resultVars, store, faults>>
  BY <1>1 DEF CreateBackup, Request, At, Types
<1>6. Types'
  BY <1>1, <1>4, <1>5 DEF Types, isolationVars, dataVars, resultVars
<1>7. Placed' /\ IsolatedByAction'
  BY <1>1, <1>4, <1>5
  DEF IInv, Types, Placed, IsolatedByAction, isolationVars
<1>9. BackupInBucket' /\ CopyReady' /\ ServesWhole'
  BY <1>2, <1>4, <1>5
  DEF IInv, BackupInBucket, Whole, CopyReady, ServesWhole, Restoring, dataVars, resultVars
<1> QED
  BY <1>6, <1>7, <1>9 DEF IInv

\* The metadata object is uploaded
LEMMA MetadataStep ==
  ASSUME IInv, NEW u \in Units, UploadMetadata(u)
  PROVE  IInv'
<1>1. Types /\ act[u].id \in Ids /\ act[u].stage = "checked"
  BY DEF IInv, Types, ActState, UploadMetadata, At
<1>2. UNCHANGED <<clusterVars, isolationVars, dataVars, resultVars>> /\ faults' \in Nat
  BY <1>1 DEF UploadMetadata, Fault, Types
<1>3. CASE Put(act[u].id, {"metadata"}) /\ Goto(u, "described")
  <2>1. /\ act' \in [Units -> ActState]
        /\ act'[u].stage = "described" /\ act'[u].id = act[u].id /\ act'[u].force = act[u].force
        /\ act'[u].isolated = act[u].isolated
        /\ \A v \in Units : v # u => act'[v] = act[v]
    BY <1>1, <1>3, GotoFields DEF Stages, Backing
  <2>2. /\ store' \in [Ids -> SUBSET {"metadata", "chunks", "md5", "log"}]
        /\ "metadata" \in store'[act[u].id]
        /\ \A i \in Ids : store[i] \subseteq store'[i]
    BY <1>1, <1>3, StoreGrows
  <2>3. Types'
    BY <1>1, <1>2, <2>1, <2>2 DEF Types, clusterVars, isolationVars, dataVars, resultVars
  <2>4. Placed' /\ IsolatedByAction'
    BY <1>1, <1>2, <2>1
    DEF IInv, Types, Placed, IsolatedByAction, clusterVars, isolationVars
  <2>5. BackupInBucket'
    BY <1>1, <1>2, <2>1, <2>2 DEF IInv, Types, ActState, BackupInBucket, Whole, clusterVars, resultVars
  <2>6. CopyReady' /\ ServesWhole'
    BY <1>1, <1>2, <2>1, <2>2
    DEF IInv, Types, ActState, CopyReady, ServesWhole, Restoring, clusterVars, dataVars
  <2> QED
    BY <2>3, <2>4, <2>5, <2>6 DEF IInv
<1>4. CASE Finish(u) /\ UNCHANGED store
  <2>1. /\ act' \in [Units -> ActState] /\ act'[u].stage = "idle"
        /\ \A v \in Units : v # u => act'[v] = act[v]
    BY <1>1, <1>4, FinishFields
  <2>3. Types'
    BY <1>1, <1>2, <1>4, <2>1 DEF Types, clusterVars, isolationVars, dataVars, resultVars
  <2>4. Placed' /\ IsolatedByAction'
    BY <1>1, <1>2, <2>1
    DEF IInv, Types, Placed, IsolatedByAction, clusterVars, isolationVars
  <2>5. BackupInBucket' /\ CopyReady' /\ ServesWhole'
    BY <1>1, <1>2, <1>4, <2>1
    DEF IInv, Types, BackupInBucket, Whole, CopyReady, ServesWhole, Restoring,
        clusterVars, dataVars, resultVars
  <2> QED
    BY <2>3, <2>4, <2>5 DEF IInv
<1> QED
  BY <1>3, <1>4 DEF UploadMetadata

\* A backup leaves data directories and restorations alone
LEMMA BackingKeeps ==
  ASSUME IInv, NEW u \in Units, act[u].stage \in Backing, act'[u].stage \in Backing \cup {"idle"},
         \A v \in Units : v # u => act'[v] = act[v],
         UNCHANGED <<clusterVars, data>>,
         \A v \in Units : "prepared" \in temp[v] => "prepared" \in temp'[v],
         \A i \in Ids : store[i] \subseteq store'[i],
         hidden' \subseteq hidden \cup {u}, offline' \subseteq offline \cup {u}
  PROVE  Placed' /\ CopyReady' /\ ServesWhole'
<1>1. Placed'
  BY DEF IInv, Types, Placed, Backing, clusterVars
<1>2. CopyReady'
  <2>1. ASSUME NEW v \in Units, v # u
        PROVE  act'[v] = act[v] /\ act[v].id \in Ids
    BY <2>1 DEF IInv, Types, ActState
  <2>2. act'[u].stage \notin Restoring
    BY DEF Backing, Restoring
  <2> QED
    BY <2>1, <2>2 DEF IInv, CopyReady, clusterVars, Restoring
<1>3. ServesWhole'
  BY DEF IInv, Types, ServesWhole, clusterVars
<1> QED
  BY <1>1, <1>2, <1>3

\* isolate_instance, up to its yield
LEMMA IsolateStep ==
  ASSUME IInv, NEW u \in Units, IsolateInstance(u)
  PROVE  IInv'
<1>1. Types /\ act[u].id \in Ids /\ act[u].stage = "described" /\ act[u].stage \in Backing
  BY DEF IInv, Types, ActState, IsolateInstance, At, Backing
<1>2. UNCHANGED <<clusterVars, dataVars, resultVars, store>> /\ faults' \in Nat
  BY <1>1 DEF IsolateInstance, Fault, Types
<1>3. /\ act' \in [Units -> ActState]
      /\ act'[u].stage = "isolated" /\ act'[u].id = act[u].id
      /\ \A v \in Units : v # u => act'[v] = act[v]
  BY <1>1, GotoFields, IsolateFields DEF IsolateInstance, Stages, Backing
<1>4. hidden' \subseteq hidden \cup {u} /\ offline' \subseteq offline \cup {u}
  BY DEF IsolateInstance, isolationVars
<1>5. Placed' /\ CopyReady' /\ ServesWhole'
  BY <1>1, <1>2, <1>3, <1>4, BackingKeeps DEF Backing, dataVars
<1>6. disturbed' \subseteq Units /\ disturbed \subseteq disturbed'
  BY <1>1 DEF IsolateInstance, isolationVars, Types
<1>7. Types'
  BY <1>1, <1>2, <1>3, <1>4, <1>6 DEF Types, clusterVars, dataVars, resultVars
<1>8. IsolatedByAction'
  <2>1. u \in hidden \cup offline => u \in disturbed
    BY <1>1 DEF IInv, IsolatedByAction
  <2>2. u \in disturbed' \/ (u \notin hidden' \cup offline') \/ act'[u].isolated = TRUE
    BY <1>1, <2>1, IsolateFields DEF IsolateInstance, isolationVars
  <2> QED
    BY <1>3, <1>4, <1>6, <1>7, <2>2 DEF IInv, IsolatedByAction, Types
<1>11. BackupInBucket'
  BY <1>1, <1>2, <1>3 DEF IInv, BackupInBucket, Whole, clusterVars, resultVars
<1> QED
  BY <1>5, <1>7, <1>8, <1>11 DEF IInv

\* An exception in the isolation is suppressed, elsewhere it ends the action
LEMMA EscapeFields ==
  ASSUME Types, NEW u \in Units, Escape(u), act[u].id \in Ids
  PROVE  /\ act' \in [Units -> ActState] /\ act'[u].stage \in {"leaving", "idle"}
         /\ \A v \in Units : v # u => act'[v] = act[v]
         /\ swallowed' \subseteq Ids /\ swallowed \subseteq swallowed'
         /\ act'[u].stage = "leaving" => /\ act'[u].id = act[u].id /\ act[u].id \in swallowed'
                                        /\ act'[u].isolated = act[u].isolated
         /\ act'[u].stage = "idle" => act[u].isolated = FALSE
<1>1. act[u].isolated = TRUE \/ act[u].isolated = FALSE
  BY DEF Types, ActState
<1>2. CASE act[u].isolated = TRUE
  <2>1. Goto(u, "leaving") /\ swallowed' = swallowed \cup {act[u].id}
    BY <1>2 DEF Escape
  <2> QED
    BY <1>2, <2>1, GotoFields DEF Stages, Backing, Types
<1>3. CASE act[u].isolated = FALSE
  <2>1. Finish(u) /\ UNCHANGED swallowed
    BY <1>3 DEF Escape
  <2> QED
    BY <1>3, <2>1, FinishFields DEF Types
<1> QED
  BY <1>1, <1>2, <1>3

\* What the pipe and the log have in common: the isolation stays, the bucket grows
LEMMA StreamingKeeps ==
  ASSUME IInv, NEW u \in Units, act[u].stage \in {"isolated", "streamed"},
         act' \in [Units -> ActState], act'[u].stage \in {"streamed", "leaving", "idle"},
         \A v \in Units : v # u => act'[v] = act[v],
         act'[u].stage # "idle" => /\ act'[u].id = act[u].id
                                   /\ act'[u].isolated = act[u].isolated,
         act'[u].stage = "idle" => act[u].isolated = FALSE,
         act'[u].stage = "streamed" => "md5" \in store'[act[u].id],
         act'[u].stage = "leaving" => \/ act'[u].result = "failed"
                                      \/ "md5" \in store'[act[u].id]
                                      \/ act[u].id \in swallowed',
         swallowed' \subseteq Ids, swallowed \subseteq swallowed',
         temp' \in [Units -> SUBSET {"xtra_backup", "partial", "prepared"}],
         \A v \in Units : "prepared" \in temp[v] => "prepared" \in temp'[v],
         store' \in [Ids -> SUBSET {"metadata", "chunks", "md5", "log"}],
         \A i \in Ids : store[i] \subseteq store'[i],
         faults' \in Nat, UNCHANGED <<clusterVars, isolationVars, data, reported>>
  PROVE  IInv'
<1>1. Types'
  BY DEF IInv, Types, clusterVars, isolationVars
<1>2. Placed' /\ CopyReady' /\ ServesWhole'
  BY BackingKeeps DEF Backing, isolationVars
<1>3. IsolatedByAction'
  <2>1. act'[u].stage = "idle" => u \notin (hidden \cup offline) \ disturbed
    BY DEF IInv, IsolatedByAction
  <2> QED
    BY <2>1 DEF IInv, IsolatedByAction, Types, isolationVars
<1>5. BackupInBucket'
  <2>1. ASSUME NEW v \in Units PROVE act[v].id \in Ids
    BY DEF IInv, Types, ActState
  <2>2. related /\ "metadata" \in store[act[u].id]
    BY DEF IInv, BackupInBucket
  <2>3. reported' # {} => related'
    BY DEF IInv, BackupInBucket, clusterVars
  <2>4. \A id \in (reported \ swallowed)' : Whole(id)'
    BY DEF IInv, Types, BackupInBucket, Whole
  <2>5. ASSUME NEW v \in Units
        PROVE  /\ act'[v].stage # "idle" => related'
               /\ act'[v].stage \in {"described", "isolated", "streamed", "leaving"}
                    => "metadata" \in store'[act'[v].id]
               /\ act'[v].stage = "streamed" => "md5" \in store'[act'[v].id]
               /\ act'[v].stage = "leaving" /\ act'[v].result = "ok"
                    => "md5" \in store'[act'[v].id] \/ act'[v].id \in swallowed'
    <3>1. CASE v = u
      BY <2>1, <2>2, <3>1 DEF clusterVars
    <3>2. CASE v # u
      BY <2>1, <3>2 DEF IInv, BackupInBucket, clusterVars
    <3> QED
      BY <3>1, <3>2
  <2> QED
    BY <2>3, <2>4, <2>5 DEF BackupInBucket
<1> QED
  BY <1>1, <1>2, <1>3, <1>5 DEF IInv

\* What happens to the temporary directory
LEMMA TempFields ==
  ASSUME Types, NEW u \in Units, NEW what \in {"xtra_backup", "partial", "prepared"}
  PROVE  /\ AddTemp(u, what) => /\ temp' \in [Units -> SUBSET {"xtra_backup", "partial", "prepared"}]
                                /\ what \in temp'[u]
                                /\ \A v \in Units : temp[v] \subseteq temp'[v]
         /\ RemoveBackup(u) => /\ temp' \in [Units -> SUBSET {"xtra_backup", "partial", "prepared"}]
                               /\ \A v \in Units : "prepared" \in temp[v] => "prepared" \in temp'[v]
  BY DEF Types, AddTemp, RemoveBackup

\* The pipe from xtrabackup to xbcloud
LEMMA StreamStep ==
  ASSUME IInv, NEW u \in Units, StreamBackup(u)
  PROVE  IInv'
<1>1. Types /\ act[u].id \in Ids /\ act[u].stage = "isolated" /\ act[u].result \in {"ok", "failed"}
  BY DEF IInv, Types, ActState, StreamBackup, At
<1>2. /\ temp' \in [Units -> SUBSET {"xtra_backup", "partial", "prepared"}]
      /\ \A v \in Units : "prepared" \in temp[v] => "prepared" \in temp'[v]
  BY <1>1, TempFields DEF StreamBackup
<1>3. UNCHANGED <<clusterVars, isolationVars, data, reported>> /\ faults' \in Nat
  BY <1>1 DEF StreamBackup, Fault, Types
<1>4. CASE Put(act[u].id, {"chunks", "md5"}) /\ Goto(u, "streamed") /\ UNCHANGED swallowed
  <2>1. /\ store' \in [Ids -> SUBSET {"metadata", "chunks", "md5", "log"}]
        /\ "md5" \in store'[act[u].id] /\ \A i \in Ids : store[i] \subseteq store'[i]
    BY <1>1, <1>4, StoreGrows
  <2>2. /\ act' \in [Units -> ActState]
        /\ act'[u].stage = "streamed" /\ act'[u].id = act[u].id
        /\ act'[u].isolated = act[u].isolated
        /\ \A v \in Units : v # u => act'[v] = act[v]
    BY <1>1, <1>4, GotoFields DEF Stages, Backing
  <2> QED
    BY <1>1, <1>2, <1>3, <1>4, <2>1, <2>2, StreamingKeeps DEF Types
<1>5. CASE /\ \E kinds \in {{"chunks"}, {"chunks", "md5"}} : Put(act[u].id, kinds)
           /\ act' = [act EXCEPT ![u].stage = "leaving", ![u].result = "failed"]
           /\ UNCHANGED swallowed
  <2>1. /\ store' \in [Ids -> SUBSET {"metadata", "chunks", "md5", "log"}]
        /\ \A i \in Ids : store[i] \subseteq store'[i]
    BY <1>1, <1>5, StoreGrows
  <2>2. /\ act' \in [Units -> ActState]
        /\ act'[u].stage = "leaving" /\ act'[u].id = act[u].id
        /\ act'[u].isolated = act[u].isolated /\ act'[u].result = "failed"
        /\ \A v \in Units : v # u => act'[v] = act[v]
    BY <1>1, <1>5, FailFields
  <2> QED
    BY <1>1, <1>2, <1>3, <1>5, <2>1, <2>2, StreamingKeeps DEF Types
<1>6. CASE Escape(u) /\ UNCHANGED store
  <2>1. /\ act' \in [Units -> ActState] /\ act'[u].stage \in {"leaving", "idle"}
        /\ \A v \in Units : v # u => act'[v] = act[v]
        /\ swallowed' \subseteq Ids /\ swallowed \subseteq swallowed'
        /\ act'[u].stage = "leaving" => /\ act'[u].id = act[u].id /\ act[u].id \in swallowed'
                                       /\ act'[u].isolated = act[u].isolated
        /\ act'[u].stage = "idle" => act[u].isolated = FALSE
    BY <1>1, <1>6, EscapeFields
  <2>2. store' \in [Ids -> SUBSET {"metadata", "chunks", "md5", "log"}]
        /\ \A i \in Ids : store[i] \subseteq store'[i]
    BY <1>1, <1>6 DEF Types
  <2> QED
    BY <1>1, <1>2, <1>3, <2>1, <2>2, StreamingKeeps
<1> QED
  BY <1>4, <1>5, <1>6 DEF StreamBackup

\* The log object
LEMMA LogUploadStep ==
  ASSUME IInv, NEW u \in Units, UploadLog(u)
  PROVE  IInv'
<1>1. Types /\ act[u].id \in Ids /\ act[u].stage = "streamed" /\ act[u].result \in {"ok", "failed"}
      /\ "md5" \in store[act[u].id]
  BY DEF IInv, Types, ActState, UploadLog, At, BackupInBucket
<1>2. /\ temp' \in [Units -> SUBSET {"xtra_backup", "partial", "prepared"}]
      /\ \A v \in Units : "prepared" \in temp[v] => "prepared" \in temp'[v]
  BY <1>1, TempFields DEF UploadLog, Types
<1>3. UNCHANGED <<clusterVars, isolationVars, data, reported>> /\ faults' \in Nat
  BY <1>1 DEF UploadLog, Fault, Types
<1>4. CASE Put(act[u].id, {"log"}) /\ Goto(u, "leaving") /\ UNCHANGED swallowed
  <2>1. /\ store' \in [Ids -> SUBSET {"metadata", "chunks", "md5", "log"}]
        /\ \A i \in Ids : store[i] \subseteq store'[i]
    BY <1>1, <1>4, StoreGrows
  <2>2. /\ act' \in [Units -> ActState]
        /\ act'[u].stage = "leaving" /\ act'[u].id = act[u].id
        /\ act'[u].isolated = act[u].isolated
        /\ \A v \in Units : v # u => act'[v] = act[v]
    BY <1>1, <1>4, GotoFields DEF Stages, Backing
  <2> QED
    BY <1>1, <1>2, <1>3, <1>4, <2>1, <2>2, StreamingKeeps DEF Types
<1>5. CASE /\ Put(act[u].id, {"log"})
           /\ act' = [act EXCEPT ![u].stage = "leaving", ![u].result = "failed"]
           /\ UNCHANGED swallowed
  <2>1. /\ store' \in [Ids -> SUBSET {"metadata", "chunks", "md5", "log"}]
        /\ \A i \in Ids : store[i] \subseteq store'[i]
    BY <1>1, <1>5, StoreGrows
  <2>2. /\ act' \in [Units -> ActState]
        /\ act'[u].stage = "leaving" /\ act'[u].id = act[u].id
        /\ act'[u].isolated = act[u].isolated /\ act'[u].result = "failed"
        /\ \A v \in Units : v # u => act'[v] = act[v]
    BY <1>1, <1>5, FailFields
  <2> QED
    BY <1>1, <1>2, <1>3, <1>5, <2>1, <2>2, StreamingKeeps DEF Types
<1>6. CASE Escape(u) /\ UNCHANGED store
  <2>1. /\ act' \in [Units -> ActState] /\ act'[u].stage \in {"leaving", "idle"}
        /\ \A v \in Units : v # u => act'[v] = act[v]
        /\ swallowed' \subseteq Ids /\ swallowed \subseteq swallowed'
        /\ act'[u].stage = "leaving" => /\ act'[u].id = act[u].id /\ act[u].id \in swallowed'
                                       /\ act'[u].isolated = act[u].isolated
        /\ act'[u].stage = "idle" => act[u].isolated = FALSE
    BY <1>1, <1>6, EscapeFields
  <2>2. store' \in [Ids -> SUBSET {"metadata", "chunks", "md5", "log"}]
        /\ \A i \in Ids : store[i] \subseteq store'[i]
    BY <1>1, <1>6 DEF Types
  <2> QED
    BY <1>1, <1>2, <1>3, <2>1, <2>2, StreamingKeeps
<1> QED
  BY <1>4, <1>5, <1>6 DEF UploadLog

\* isolate_instance, after its yield, and the answer of the action
LEMMA LeaveStep ==
  ASSUME IInv, NEW u \in Units, LeaveIsolation(u)
  PROVE  IInv'
<1>1. Types /\ act[u].id \in Ids /\ act[u].stage = "leaving" /\ act[u].stage \in Backing
  BY DEF IInv, Types, ActState, LeaveIsolation, At, Backing
<1>2. UNCHANGED <<clusterVars, dataVars, swallowed, store>> /\ faults' \in Nat
  BY <1>1 DEF LeaveIsolation, Fault, Types, isolationVars
<1>3. /\ act' \in [Units -> ActState] /\ act'[u].stage = "idle"
      /\ \A v \in Units : v # u => act'[v] = act[v]
  BY <1>1, FinishFields DEF LeaveIsolation
<1>4. /\ hidden' \subseteq hidden /\ offline' \subseteq offline
      /\ disturbed \subseteq disturbed' /\ disturbed' \subseteq Units
      /\ reported' \subseteq reported \cup {act[u].id}
  BY <1>1 DEF LeaveIsolation, isolationVars, Types
<1>5. Types'
  BY <1>1, <1>2, <1>3, <1>4 DEF Types, clusterVars, dataVars
<1>6. Placed' /\ CopyReady' /\ ServesWhole'
  BY <1>1, <1>2, <1>3, <1>4, BackingKeeps DEF dataVars
<1>7. IsolatedByAction'
  <2>1. u \in hidden \cup offline => u \in disturbed \/ act[u].isolated
    BY DEF IInv, IsolatedByAction
  <2>2. u \in disturbed' \/ u \notin hidden' \cup offline'
    BY <2>1 DEF LeaveIsolation, isolationVars
  <2> QED
    BY <1>3, <1>4, <1>5, <2>2 DEF IInv, IsolatedByAction, Types
<1>10. BackupInBucket'
  <2>1. related /\ "metadata" \in store[act[u].id]
    BY <1>1 DEF IInv, BackupInBucket
  <2>2. act[u].result = "ok" => "md5" \in store[act[u].id] \/ act[u].id \in swallowed
    BY <1>1 DEF IInv, BackupInBucket
  <2>3. reported' = IF act[u].result = "ok" THEN reported \cup {act[u].id} ELSE reported
    BY DEF LeaveIsolation
  <2>4. \A id \in reported' \ swallowed : Whole(id)
    BY <2>1, <2>2, <2>3 DEF IInv, BackupInBucket, Whole
  <2> QED
    BY <1>2, <1>3, <2>1, <2>4 DEF IInv, BackupInBucket, Whole, clusterVars
<1> QED
  BY <1>5, <1>6, <1>7, <1>10 DEF IInv

\* A restoration leaves isolations and the bucket alone
LEMMA RestoringKeeps ==
  ASSUME IInv, NEW u \in Units, act[u].stage \in Restoring \cup {"idle"},
         act'[u].stage \in Restoring \cup {"idle"}, act[u].stage = "idle" => related,
         \A v \in Units : v # u => act'[v] = act[v],
         UNCHANGED <<related, members, store, disturbed, resultVars>>,
         hidden' \subseteq hidden, offline' \subseteq offline
  PROVE  IsolatedByAction' /\ BackupInBucket'
<1>1. /\ act[u].stage \notin {"checked", "described", "isolated", "streamed", "leaving"}
      /\ act'[u].stage \notin {"checked", "described", "isolated", "streamed", "leaving"}
  BY DEF Restoring
<1>2. related
  BY DEF IInv, BackupInBucket, Restoring
<1>3. IsolatedByAction'
  BY <1>1 DEF IInv, Types, IsolatedByAction
<1>5. BackupInBucket'
  BY <1>1, <1>2 DEF IInv, BackupInBucket, Whole, resultVars
<1> QED
  BY <1>3, <1>5

\* The checks of restore
LEMMA RestoreStep ==
  ASSUME IInv, NEW u \in Units, NEW id \in Ids, RestoreBackup(u, id)
  PROVE  IInv'
<1>1. Types /\ u \in members /\ "md5" \in store[id]
  BY DEF IInv, Types, RestoreBackup, CheckBackup
<1> DEFINE r == [Idle EXCEPT !.stage = "fetching", !.id = id]
<1>2. r \in ActState /\ r.stage = "fetching" /\ r.id = id
  BY DEF Idle, ActState, Restoring
<1>3. act' = [act EXCEPT ![u] = r]
  BY DEF RestoreBackup
<1> HIDE DEF r
<1>4. /\ act' \in [Units -> ActState] /\ act'[u] = r
      /\ \A v \in Units : v # u => act'[v] = act[v]
  BY <1>1, <1>2, <1>3, OneAct
<1>5. /\ related /\ act[u].stage = "idle" /\ requests' \in Nat
      /\ UNCHANGED <<related, clock, members, primary, running, known, online, moves, isolationVars,
                     dataVars, resultVars, store, faults>>
  BY <1>1 DEF RestoreBackup, Request, At, Types
<1>6. Types'
  BY <1>1, <1>4, <1>5 DEF Types, isolationVars, dataVars, resultVars
<1>7. Placed'
  BY <1>1, <1>4, <1>5 DEF IInv, Placed, isolationVars
<1>8. IsolatedByAction' /\ BackupInBucket'
  BY <1>2, <1>4, <1>5, RestoringKeeps DEF Restoring, isolationVars
<1>9. CopyReady' /\ ServesWhole'
  BY <1>1, <1>2, <1>4, <1>5 DEF IInv, CopyReady, ServesWhole, Restoring, dataVars
<1> QED
  BY <1>6, <1>7, <1>8, <1>9 DEF IInv

\* A stage of a restoration goes on, or ends the action
LEMMA StageFields ==
  ASSUME IInv, NEW u \in Units, NEW from \in Restoring, NEW to \in Restoring, Stage(u, from, to)
  PROVE  /\ act[u].stage = from /\ faults' \in Nat /\ act' \in [Units -> ActState]
         /\ \/ act'[u].stage = to /\ act'[u].id = act[u].id /\ act[u].id \in Ids
            \/ act'[u].stage = "idle"
         /\ \A v \in Units : v # u => act'[v] = act[v]
<1>1. Types /\ act[u].id \in Ids
  BY DEF IInv, Types, ActState
<1>2. act[u].stage = from /\ faults' \in Nat
  BY <1>1 DEF Stage, At, Fault, Types
<1>3. CASE Goto(u, to)
  BY <1>1, <1>2, <1>3, GotoFields DEF Stages
<1>4. CASE Finish(u)
  BY <1>1, <1>2, <1>4, FinishFields
<1> QED
  BY <1>3, <1>4 DEF Stage

\* A stage that keeps its copy in hand, and changes no data that is served, keeps the
\* invariant
LEMMA StageKeeps ==
  ASSUME IInv, NEW u \in Units, NEW from \in Restoring, NEW to \in Restoring, Stage(u, from, to),
         UNCHANGED <<clusterVars, isolationVars, resultVars, store>>,
         data' \in [Units -> {Live, Lost, Torn} \cup Ids],
         temp' \in [Units -> SUBSET {"xtra_backup", "partial", "prepared"}],
         \A v \in Units : v # u => data'[v] = data[v],
         u \in running => data'[u] = data[u],
         data'[u] \in Ids => data'[u] = data[u] \/ data'[u] = act[u].id,
         CopyReady'
  PROVE  IInv'
<1>1. /\ act[u].stage = from /\ faults' \in Nat /\ act' \in [Units -> ActState]
      /\ act'[u].stage \in {to, "idle"}
      /\ \A v \in Units : v # u => act'[v] = act[v]
  BY StageFields
<1>2. Types'
  BY <1>1 DEF IInv, Types, clusterVars, isolationVars, resultVars
<1>3. Placed'
  BY <1>1 DEF IInv, Placed, Restoring, clusterVars, isolationVars
<1>4. IsolatedByAction' /\ BackupInBucket'
  <2>1. act[u].stage # "idle"
    BY <1>1 DEF Restoring
  <2> QED
    BY <1>1, <2>1, RestoringKeeps DEF clusterVars, isolationVars
<1>5. ServesWhole'
  <2>1. "md5" \in store[act[u].id]
    BY <1>1 DEF IInv, CopyReady
  <2> QED
    BY <2>1 DEF IInv, Types, ServesWhole, clusterVars
<1> QED
  BY <1>2, <1>3, <1>4, <1>5 DEF IInv

\* The pipe from xbcloud to xbstream
LEMMA DownloadStep ==
  ASSUME IInv, NEW u \in Units, DownloadBackup(u)
  PROVE  IInv'
<1>1. /\ act[u].stage = "fetching" /\ act'[u].stage \in {"preparing", "idle"}
      /\ act'[u].stage = "preparing" => act'[u].id = act[u].id
      /\ \A v \in Units : v # u => act'[v] = act[v]
  BY StageFields DEF DownloadBackup, Restoring
<1>2. /\ temp' \in [Units -> SUBSET {"xtra_backup", "partial", "prepared"}]
      /\ \A v \in Units : temp[v] \subseteq temp'[v]
  BY TempFields DEF DownloadBackup, IInv
<1>3. UNCHANGED <<clusterVars, isolationVars, resultVars, data, store>>
  BY DEF DownloadBackup
<1>4. CopyReady'
  BY <1>1, <1>2, <1>3 DEF IInv, CopyReady, Restoring, clusterVars
<1> QED
  BY <1>2, <1>3, <1>4, StageKeeps DEF DownloadBackup, Restoring, IInv, Types

\* xtrabackup prepares the copy
LEMMA PrepareStep ==
  ASSUME IInv, NEW u \in Units, PrepareBackup(u)
  PROVE  IInv'
<1>1. /\ act[u].stage = "preparing" /\ act'[u].stage \in {"stopping", "idle"}
      /\ act'[u].stage = "stopping" => act'[u].id = act[u].id
      /\ \A v \in Units : v # u => act'[v] = act[v]
  BY StageFields DEF PrepareBackup, Restoring
<1>2. /\ temp' \in [Units -> SUBSET {"xtra_backup", "partial", "prepared"}]
      /\ \A v \in Units : temp[v] \subseteq temp'[v]
      /\ act'[u].stage = "stopping" => "prepared" \in temp'[u]
  BY TempFields DEF PrepareBackup, At, IInv, Types
<1>3. UNCHANGED <<clusterVars, isolationVars, resultVars, data, store>>
  BY DEF PrepareBackup
<1>4. CopyReady'
  BY <1>1, <1>2, <1>3 DEF IInv, CopyReady, Restoring, clusterVars
<1> QED
  BY <1>2, <1>3, <1>4, StageKeeps DEF PrepareBackup, Restoring, IInv, Types

\* The data directory is emptied: a prepared copy is there, and the server is down
LEMMA ResetDataStep ==
  ASSUME IInv, NEW u \in Units, ResetDataDir(u)
  PROVE  IInv' /\ "prepared" \in temp[u] /\ u \notin running
<1>1. /\ act[u].stage = "resetting" /\ act'[u].stage \in {"clearing", "idle"}
      /\ act'[u].stage = "clearing" => act'[u].id = act[u].id
      /\ \A v \in Units : v # u => act'[v] = act[v]
  BY StageFields DEF ResetDataDir, Restoring
<1>2. /\ data' \in [Units -> {Live, Lost, Torn} \cup Ids]
      /\ \A v \in Units : v # u => data'[v] = data[v]
      /\ data'[u] \notin Ids
  BY BackupAssumption DEF ResetDataDir, IInv, Types, Ids
<1>3. UNCHANGED <<clusterVars, isolationVars, resultVars, temp, store>>
  BY DEF ResetDataDir
<1>4. u \notin online /\ u \notin running /\ "prepared" \in temp[u]
  BY <1>1 DEF IInv, CopyReady
<1>5. CopyReady'
  BY <1>1, <1>2, <1>3 DEF IInv, CopyReady, Restoring, clusterVars
<1> QED
  BY <1>2, <1>3, <1>4, <1>5, StageKeeps DEF ResetDataDir, Restoring, IInv, Types

\* The directories of the logs are emptied
LEMMA ResetLogsStep ==
  ASSUME IInv, NEW u \in Units, ResetLogsDir(u)
  PROVE  IInv'
<1>1. /\ act[u].stage = "clearing" /\ act'[u].stage \in {"moving", "idle"}
      /\ act'[u].stage = "moving" => act'[u].id = act[u].id
      /\ \A v \in Units : v # u => act'[v] = act[v]
  BY StageFields DEF ResetLogsDir, Restoring
<1>2. UNCHANGED <<clusterVars, isolationVars, resultVars, data, temp, store>>
  BY DEF ResetLogsDir, dataVars
<1>3. CopyReady'
  BY <1>1, <1>2 DEF IInv, CopyReady, Restoring, clusterVars
<1> QED
  BY <1>2, <1>3, StageKeeps DEF ResetLogsDir, Restoring, IInv, Types

\* The copy is moved to the data directory
LEMMA MoveBackStep ==
  ASSUME IInv, NEW u \in Units, MoveBack(u)
  PROVE  IInv' /\ "prepared" \in temp[u] /\ u \notin running
<1>1. /\ act[u].stage = "moving" /\ act'[u].stage \in {"cleaning", "idle"} /\ act[u].id \in Ids
      /\ act'[u].stage = "cleaning" => act'[u].id = act[u].id
      /\ \A v \in Units : v # u => act'[v] = act[v]
  BY StageFields DEF MoveBack, Restoring, IInv, Types, ActState
<1>2. /\ data' \in [Units -> {Live, Lost, Torn} \cup Ids]
      /\ \A v \in Units : v # u => data'[v] = data[v]
      /\ act'[u].stage = "cleaning" => data'[u] = act[u].id
      /\ data'[u] \in Ids => data'[u] = act[u].id
  BY <1>1, BackupAssumption DEF MoveBack, At, IInv, Types, Ids
<1>3. /\ temp' \in [Units -> SUBSET {"xtra_backup", "partial", "prepared"}]
      /\ \A v \in Units : v # u => temp'[v] = temp[v]
  BY DEF MoveBack, IInv, Types
<1>4. UNCHANGED <<clusterVars, isolationVars, resultVars, store>>
  BY DEF MoveBack
<1>5. u \notin online /\ u \notin running /\ "prepared" \in temp[u]
  BY <1>1 DEF IInv, CopyReady
<1>6. CopyReady'
  BY <1>1, <1>2, <1>3, <1>4 DEF IInv, CopyReady, Restoring, clusterVars
<1> QED
  BY <1>2, <1>3, <1>4, <1>5, <1>6, StageKeeps DEF MoveBack, Restoring

\* The temporary directory is removed
LEMMA ResetTempStep ==
  ASSUME IInv, NEW u \in Units, ResetTempDir(u)
  PROVE  IInv'
<1>1. /\ act[u].stage = "cleaning" /\ act'[u].stage \in {"starting", "idle"}
      /\ act'[u].stage = "starting" => act'[u].id = act[u].id
      /\ \A v \in Units : v # u => act'[v] = act[v]
  BY StageFields DEF ResetTempDir, Restoring
<1>2. /\ temp' \in [Units -> SUBSET {"xtra_backup", "partial", "prepared"}]
      /\ \A v \in Units : v # u => temp'[v] = temp[v]
  BY DEF ResetTempDir, IInv, Types
<1>3. UNCHANGED <<clusterVars, isolationVars, resultVars, data, store>>
  BY DEF ResetTempDir
<1>4. CopyReady'
  BY <1>1, <1>2, <1>3 DEF IInv, CopyReady, Restoring, clusterVars
<1> QED
  BY <1>2, <1>3, <1>4, StageKeeps DEF ResetTempDir, Restoring, IInv, Types

\* The server is stopped
LEMMA StopStep ==
  ASSUME IInv, NEW u \in Units, StopServer(u)
  PROVE  IInv'
<1>1. /\ act[u].stage = "stopping" /\ act' \in [Units -> ActState]
      /\ act'[u].stage = "resetting" /\ act'[u].id = act[u].id
      /\ \A v \in Units : v # u => act'[v] = act[v]
  BY GotoFields DEF StopServer, At, IInv, Stages, Restoring
<1>2. /\ running' = running \ {u} /\ online' = online \ {u} /\ offline' = offline \ {u}
      /\ UNCHANGED <<related, clock, members, known, requests, moves, hidden, disturbed,
                     dataVars, resultVars, store, faults>>
  BY DEF StopServer
<1>7. primary' \in Units
  BY <1>2 DEF StopServer, IInv, Types
<1>3. Types'
  BY <1>7, <1>1, <1>2 DEF IInv, Types, dataVars, resultVars
<1>4. Placed'
  BY <1>1, <1>2 DEF IInv, Placed
<1>5. IsolatedByAction' /\ BackupInBucket'
  BY <1>1, <1>2, RestoringKeeps DEF Restoring
<1>6. CopyReady' /\ ServesWhole'
  BY <1>1, <1>2 DEF IInv, CopyReady, ServesWhole, Restoring, dataVars
<1> QED
  BY <1>3, <1>4, <1>5, <1>6 DEF IInv

\* The server is started
LEMMA StartStep ==
  ASSUME IInv, NEW u \in Units, StartServer(u)
  PROVE  IInv'
<1>1. /\ act[u].stage = "starting" /\ act' \in [Units -> ActState]
      /\ act'[u].stage = "recreating" /\ act'[u].id = act[u].id
      /\ \A v \in Units : v # u => act'[v] = act[v]
  BY GotoFields DEF StartServer, At, IInv, Stages, Restoring
<1>2. /\ running' = running \cup {u}
      /\ UNCHANGED <<related, clock, members, primary, known, online, requests, moves,
                     isolationVars, dataVars, resultVars, store, faults>>
  BY DEF StartServer
<1>3. Types'
  BY <1>1, <1>2 DEF IInv, Types, dataVars, resultVars, isolationVars
<1>4. Placed'
  BY <1>1, <1>2 DEF IInv, Placed, isolationVars
<1>5. IsolatedByAction' /\ BackupInBucket'
  BY <1>1, <1>2, RestoringKeeps DEF Restoring, isolationVars
<1>7. data[u] # Lost /\ u \in members
  BY <1>1, BackupAssumption DEF IInv, Types, ActState, Ids, CopyReady, Placed
<1>6. CopyReady' /\ ServesWhole'
  BY <1>1, <1>2, <1>7 DEF IInv, CopyReady, ServesWhole, Restoring, dataVars
<1> QED
  BY <1>3, <1>4, <1>5, <1>6 DEF IInv

\* A cluster is created, or not
LEMMA CreateFields ==
  ASSUME Types, NEW u \in Units, CreateCluster(u)
  PROVE  /\ online' \subseteq online \cup {u} /\ hidden' \subseteq hidden /\ faults' \in Nat
         /\ known' \subseteq Units
  BY DEF CreateCluster, Fault, Types

\* The cluster is created again, on the data of the backup
LEMMA RecreateStep ==
  ASSUME IInv, NEW u \in Units, RecreateCluster(u)
  PROVE  IInv'
<1>1. /\ act[u].stage = "recreating" /\ act' \in [Units -> ActState]
      /\ act'[u].stage = "idle" /\ act[u].id \in Ids
      /\ \A v \in Units : v # u => act'[v] = act[v]
  BY FinishFields DEF RecreateCluster, At, IInv, Types, ActState
<1>2. /\ online' \subseteq online \cup {u} /\ hidden' \subseteq hidden /\ faults' \in Nat
      /\ known' \subseteq Units
      /\ UNCHANGED <<related, clock, members, primary, running, requests, moves, offline,
                     disturbed, dataVars, resultVars, store>>
  BY CreateFields DEF RecreateCluster, IInv
<1>3. Types'
  BY <1>1, <1>2 DEF IInv, Types, dataVars, resultVars
<1>4. Placed'
  BY <1>1, <1>2 DEF IInv, Placed
<1>5. IsolatedByAction' /\ BackupInBucket'
  BY <1>1, <1>2, RestoringKeeps DEF Restoring
<1>6. u \in running
  BY <1>1 DEF IInv, CopyReady
<1>7. CopyReady' /\ ServesWhole'
  BY <1>1, <1>2, <1>6 DEF IInv, CopyReady, ServesWhole, Restoring, dataVars
<1> QED
  BY <1>3, <1>4, <1>5, <1>7 DEF IInv

\* Self-healing starts a server, on anything but an emptied directory
LEMMA HealServerStep ==
  ASSUME IInv, NEW u \in Units, HealServer(u)
  PROVE  IInv'
<1>1. /\ act[u].stage = "idle" /\ u \in members /\ data[u] # Lost
      /\ running' = running \cup {u} /\ known' \subseteq known
      /\ UNCHANGED <<related, clock, members, primary, online, requests, moves, isolationVars,
                     dataVars, resultVars, store, act, faults>>
  BY DEF HealServer, At
<1>2. Types'
  BY <1>1 DEF IInv, Types, dataVars, resultVars, isolationVars
<1>3. Placed' /\ IsolatedByAction' /\ BackupInBucket'
  BY <1>1 DEF IInv, Placed, IsolatedByAction, BackupInBucket, Whole, isolationVars, resultVars
<1>4. CopyReady' /\ ServesWhole'
  BY <1>1 DEF IInv, CopyReady, ServesWhole, Restoring, dataVars
<1> QED
  BY <1>2, <1>3, <1>4 DEF IInv

\* Self-healing brings an instance back, of a server that runs
LEMMA HealInstanceStep ==
  ASSUME IInv, NEW u \in Units, HealInstance(u)
  PROVE  IInv'
<1>1. /\ act[u].stage = "idle" /\ u \in running
      /\ online' \subseteq online \cup {u} /\ hidden' \subseteq hidden /\ faults' \in Nat
      /\ known' \subseteq Units
      /\ UNCHANGED <<related, clock, members, primary, running, requests, moves, offline,
                     disturbed, dataVars, resultVars, store, act>>
  <2>1. Types
    BY DEF IInv
  <2> QED
    BY <2>1, CreateFields DEF HealInstance, At, Initialized, Types
<1>2. Types'
  BY <1>1 DEF IInv, Types, dataVars, resultVars
<1>3. Placed' /\ IsolatedByAction' /\ BackupInBucket'
  BY <1>1 DEF IInv, Placed, IsolatedByAction, BackupInBucket, Whole, resultVars
<1>4. CopyReady' /\ ServesWhole'
  BY <1>1 DEF IInv, CopyReady, ServesWhole, Restoring, dataVars
<1> QED
  BY <1>2, <1>3, <1>4 DEF IInv

\* The hook that runs an action dies
LEMMA CrashStep ==
  ASSUME IInv, NEW u \in Units, Crash(u)
  PROVE  /\ IInv'
         /\ \A v \in Units : data'[v] # data[v] => v = u /\ "prepared" \in temp[u] /\ u \notin running
<1>1. /\ act' \in [Units -> ActState] /\ act'[u].stage = "idle"
      /\ \A v \in Units : v # u => act'[v] = act[v]
  BY FinishFields DEF Crash, IInv
<1>2. /\ disturbed' = disturbed \cup {u} /\ faults' \in Nat
      /\ UNCHANGED <<clusterVars, hidden, offline, temp, resultVars, store>>
  BY DEF Crash, Fault, IInv, Types
<1>3. /\ data' \in [Units -> {Live, Lost, Torn} \cup Ids]
      /\ \A v \in Units : v # u => data'[v] = data[v]
      /\ data'[u] # data[u] => act[u].stage \in {"resetting", "moving"} /\ data'[u] = Torn
  BY DEF Crash, At, IInv, Types
<1>4. data'[u] # data[u] => u \notin running /\ "prepared" \in temp[u] /\ data'[u] \notin Ids
  BY <1>3, BackupAssumption DEF IInv, CopyReady, Ids
<1>5. Types'
  BY <1>1, <1>2, <1>3 DEF IInv, Types, clusterVars, resultVars
<1>6. Placed' /\ IsolatedByAction'
  BY <1>1, <1>2 DEF IInv, Types, Placed, IsolatedByAction, clusterVars
<1>7. BackupInBucket'
  BY <1>1, <1>2 DEF IInv, BackupInBucket, Whole, clusterVars, resultVars
<1>8. CopyReady'
  BY <1>1, <1>2, <1>3 DEF IInv, CopyReady, Restoring, clusterVars
<1>9. ServesWhole'
  BY <1>2, <1>3, <1>4 DEF IInv, Types, ServesWhole, clusterVars
<1> QED
  BY <1>3, <1>4, <1>5, <1>6, <1>7, <1>8, <1>9 DEF IInv

\* A switchover or an election
LEMMA PromotionStep ==
  ASSUME IInv, NEW u \in Units, PromoteInstance(u)
  PROVE  IInv'
<1>1. act' = act /\ moves' \in Nat
  BY DEF Move, Types, PromoteInstance, IInv
<1>2. /\ primary' = u
      /\ UNCHANGED <<related, clock, requests, members, running, known, online, isolationVars,
                     dataVars, resultVars, store, faults>>
  BY DEF PromoteInstance
<1>3. Types'
  BY <1>1, <1>2 DEF IInv, Types, isolationVars, dataVars, resultVars
<1>4. Placed' /\ IsolatedByAction'
  BY <1>1, <1>2 DEF IInv, Types, Placed, IsolatedByAction, isolationVars
<1>5. BackupInBucket' /\ CopyReady' /\ ServesWhole'
  BY <1>1, <1>2
  DEF IInv, BackupInBucket, Whole, CopyReady, ServesWhole, dataVars, resultVars
<1> QED
  BY <1>3, <1>4, <1>5 DEF IInv

\* A new unit joins, with data of its own
LEMMA AddStep ==
  ASSUME IInv, NEW u \in Units, AddUnit(u)
  PROVE  IInv' /\ data'[u] = Live /\ \A v \in Units : v # u => data'[v] = data[v]
<1>1. act' = act /\ moves' \in Nat
  BY DEF Move, Types, AddUnit, IInv
<1>2. /\ u \notin members /\ act[u].stage = "idle" /\ members' = members \cup {u}
      /\ running' = running \cup {u} /\ known' = known \cup {u} /\ online' = online \cup {u}
      /\ disturbed' = disturbed \ {u}
      /\ UNCHANGED <<related, clock, requests, primary, hidden, offline, resultVars, store, faults>>
  BY DEF AddUnit, IInv, Placed
<1>3. /\ data' \in [Units -> {Live, Lost, Torn} \cup Ids] /\ data'[u] = Live
      /\ temp' \in [Units -> SUBSET {"xtra_backup", "partial", "prepared"}]
      /\ \A v \in Units : v # u => data'[v] = data[v] /\ temp'[v] = temp[v]
  BY DEF AddUnit, IInv, Types
<1>4. u \notin hidden \cup offline
  BY <1>2 DEF IInv, Placed
<1>5. Types'
  BY <1>1, <1>2, <1>3 DEF IInv, Types, resultVars
<1>6. Placed' /\ IsolatedByAction'
  BY <1>1, <1>2, <1>4 DEF IInv, Types, Placed, IsolatedByAction
<1>7. BackupInBucket'
  BY <1>1, <1>2 DEF IInv, BackupInBucket, Whole, resultVars
<1>8. CopyReady' /\ ServesWhole'
  BY <1>1, <1>2, <1>3, BackupAssumption DEF IInv, Types, CopyReady, ServesWhole, Restoring, Ids
<1> QED
  BY <1>3, <1>5, <1>6, <1>7, <1>8 DEF IInv

\* A secondary is removed
LEMMA RemoveStep ==
  ASSUME IInv, NEW u \in Units, RemoveUnit(u)
  PROVE  IInv'
<1>1. act' = act /\ moves' \in Nat
  BY DEF Move, Types, RemoveUnit, IInv
<1>2. /\ u # primary /\ act[u].stage = "idle" /\ members' = members \ {u}
      /\ running' = running \ {u} /\ known' = known \ {u} /\ online' = online \ {u}
      /\ hidden' = hidden \ {u} /\ offline' = offline \ {u}
      /\ UNCHANGED <<related, clock, requests, primary, disturbed, dataVars, resultVars, store,
                     faults>>
  BY DEF RemoveUnit, At
<1>3. Types'
  BY <1>1, <1>2 DEF IInv, Types, dataVars, resultVars
<1>4. Placed' /\ IsolatedByAction'
  BY <1>1, <1>2 DEF IInv, Types, Placed, IsolatedByAction
<1>5. BackupInBucket' /\ CopyReady' /\ ServesWhole'
  BY <1>1, <1>2
  DEF IInv, BackupInBucket, Whole, CopyReady, ServesWhole, dataVars, resultVars
<1> QED
  BY <1>3, <1>4, <1>5 DEF IInv

\* Nothing happens
LEMMA StutterStep == IInv /\ UNCHANGED vars => IInv'
BY DEF IInv, vars, Types, Placed, IsolatedByAction,
       BackupInBucket, Whole, CopyReady, ServesWhole

\* Every step keeps the invariant
LEMMA NextIInv == IInv /\ [Next]_vars => IInv'
BY ConfigureStep, TickStep, CreateStep, RestoreStep, MetadataStep, IsolateStep, StreamStep,
   LogUploadStep, LeaveStep, DownloadStep, PrepareStep, StopStep, ResetDataStep, ResetLogsStep,
   MoveBackStep, ResetTempStep, StartStep, RecreateStep, HealServerStep, HealInstanceStep, CrashStep, PromotionStep, AddStep,
   RemoveStep, StutterStep
DEF Next, Step, Heal

\* Three steps can give data up, and all have a prepared copy and a stopped server
LEMMA NextGivesUp ==
  ASSUME IInv, [Next]_vars, NEW w \in Units,
         data'[w] # data[w], data'[w] \in {Lost, Torn}
  PROVE  "prepared" \in temp[w] /\ w \notin running
<1>1. CASE \E u \in Units : ResetDataDir(u)
  <2>1. PICK u \in Units : ResetDataDir(u)
    BY <1>1
  <2>2. w = u
    BY <2>1 DEF ResetDataDir, IInv, Types
  <2> QED
    BY <2>1, <2>2, ResetDataStep
<1>2. CASE \E u \in Units : MoveBack(u)
  <2>1. PICK u \in Units : MoveBack(u)
    BY <1>2
  <2>2. w = u
    BY <2>1 DEF MoveBack, IInv, Types
  <2> QED
    BY <2>1, <2>2, MoveBackStep
<1>3. CASE \E u \in Units : AddUnit(u)
  BY <1>3, AddStep, BackupAssumption
<1>6. CASE \E u \in Units : Crash(u)
  BY <1>6, CrashStep
<1>4. CASE UNCHANGED data
  BY <1>4
<1>5. \/ UNCHANGED data \/ \E u \in Units : ResetDataDir(u) \/ MoveBack(u) \/ AddUnit(u) \/ Crash(u)
  BY DEF Next, Step, Heal, HealServer, HealInstance, vars, dataVars, Configure, Tick, CreateBackup, RestoreBackup, UploadMetadata,
         IsolateInstance, StreamBackup, UploadLog, LeaveIsolation, DownloadBackup, PrepareBackup,
         StopServer, ResetLogsDir, ResetTempDir, StartServer, RecreateCluster,
         PromoteInstance, RemoveUnit
<1> QED
  BY <1>1, <1>2, <1>3, <1>4, <1>5, <1>6

\* The invariant holds in every state, for any units, seconds, faults, requests and moves
THEOREM Invariance == Spec => []IInv
BY InitIInv, NextIInv, PTL DEF Spec

\* A unit that runs no action is neither hidden nor in offline mode, however its backups
\* ended, unless an error or a dead hook disturbed its isolation (isolate_instance)
THEOREM BackInService == Spec => []InServiceWhenIdle
<1>1. IInv => InServiceWhenIdle
  BY DEF IInv, Types, IsolatedByAction, InServiceWhenIdle, At
<1> QED
  BY <1>1, Invariance, PTL

\* A backup that was reported is listed as finished, whichever backups share its ID, unless
\* an exception was suppressed on the way (_on_create_backup, collect_backups)
THEOREM ReportsAreTrue == Spec => []ReportedIsListed
<1>1. IInv => ReportedIsListed
  BY DEF IInv, Types, BackupInBucket, Whole, ReportedIsListed, ListBackups, CollectBackups, BackupStatus
<1> QED
  BY <1>1, Invariance, PTL

\* An ONLINE instance serves its own data or a finished backup, wherever a restoration
\* failed or died and whenever self-healing starts its server; the exception is a deletion
\* or a move that was cut short (_on_restore_backup, _on_self_healing)
THEOREM WholeDataIsServed == Spec => []OnlineServesWholeData
<1>1. IInv => OnlineServesWholeData
  BY BackupAssumption DEF IInv, Types, ServesWhole, OnlineServesWholeData, BackupStatus, Ids
<1> QED
  BY <1>1, Invariance, PTL

\* Data is only given up for a prepared copy, on a stopped server (prepare_backup,
\* reset_data_dir)
THEOREM DataIsKept == Spec => DataGivenUpForCopy
<1>1. IInv /\ [Next]_vars =>
        [\A u \in Units : data'[u] # data[u] /\ data'[u] \in {Lost, Torn}
                            => "prepared" \in temp[u] /\ u \notin running]_vars
  BY NextGivesUp
<1> QED
  BY <1>1, Invariance, PTL DEF Spec, DataGivenUpForCopy
=============================================================================
