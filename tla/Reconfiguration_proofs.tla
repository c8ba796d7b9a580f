----------------------- MODULE Reconfiguration_proofs -----------------------
(***************************************************************************)
(* Proofs about the changes of a running cluster, in three parts that need *)
(* nothing of one another: servers follow their TLS relations, rolling     *)
(* restarts leave a member online, and configurations fit in memory.       *)
(***************************************************************************)
EXTENDS Reconfiguration, ServerProfile_proofs, TLAPS

-----------------------------------------------------------------------------
(* TLS *)

\* An event of the TLS relations: what happened, and to which kind of certificate
TlsEvents == {"available", "broken"} \X Types

\* No event of the queue is about certificates of type t
NoneAbout(s, t) == \A i \in 1 .. Len(s) : s[i][2] # t

\* What the relation said last where certificate c is assigned
Word(c) == IF c = 0 THEN "broken" ELSE "available"

\* The last event of the queue about type t, if any, says what is assigned
LastSays(s, t, c) ==
  \A i \in 1 .. Len(s) :
    (s[i][2] = t /\ \A j \in 1 .. Len(s) : j > i => s[j][2] # t) => s[i][1] = Word(c)

\* The two parts of an event
LEMMA PairFields ==
  ASSUME NEW w \in {"available", "broken"}, NEW t \in Types
  PROVE  <<w, t>> \in TlsEvents /\ <<w, t>>[1] = w /\ <<w, t>>[2] = t
  BY DEF TlsEvents

\* An event that is appended is the last one about its type, and changes nothing for the
\* other type
LEMMA Appended ==
  ASSUME NEW s \in Seq(TlsEvents), NEW e \in TlsEvents, NEW t \in Types, NEW c
  PROVE  /\ Append(s, e) \in Seq(TlsEvents)
         /\ e[2] # t /\ LastSays(s, t, c) => LastSays(Append(s, e), t, c)
         /\ e[2] = t /\ e[1] = Word(c) => LastSays(Append(s, e), t, c)
         /\ NoneAbout(Append(s, e), t) => NoneAbout(s, t) /\ e[2] # t
<1> DEFINE a == Append(s, e)
           n == Len(s)
<1>1. /\ a \in Seq(TlsEvents) /\ n \in Nat /\ Len(a) = n + 1 /\ a[n + 1] = e
      /\ \A i \in 1 .. n : a[i] = s[i]
  OBVIOUS
<1> HIDE DEF a
<1>2. \A i \in 1 .. n + 1 : i \in 1 .. n \/ i = n + 1
  BY <1>1
<1>3. ASSUME e[2] # t, LastSays(s, t, c) PROVE LastSays(a, t, c)
  <2> SUFFICES ASSUME NEW i \in 1 .. Len(a), a[i][2] = t,
                      \A j \in 1 .. Len(a) : j > i => a[j][2] # t
               PROVE  a[i][1] = Word(c)
    BY DEF LastSays
  <2>1. i \in 1 .. n /\ a[i] = s[i]
    BY <1>1, <1>2, <1>3
  <2>2. \A j \in 1 .. n : j > i => s[j][2] # t
    BY <1>1
  <2> QED
    BY <1>3, <2>1, <2>2 DEF LastSays
<1>4. ASSUME e[2] = t, e[1] = Word(c) PROVE LastSays(a, t, c)
  <2> SUFFICES ASSUME NEW i \in 1 .. Len(a), a[i][2] = t,
                      \A j \in 1 .. Len(a) : j > i => a[j][2] # t
               PROVE  a[i][1] = Word(c)
    BY DEF LastSays
  <2>1. i = n + 1
    BY <1>1, <1>2, <1>4
  <2> QED
    BY <1>1, <1>4, <2>1
<1>5. ASSUME NoneAbout(a, t) PROVE NoneAbout(s, t) /\ e[2] # t
  BY <1>1, <1>5 DEF NoneAbout
<1> QED
  BY <1>1, <1>3, <1>4, <1>5 DEF a

\* Two queues one after the other
LEMMA Joined ==
  ASSUME NEW S, NEW p \in Seq(S), NEW q \in Seq(S)
  PROVE  p \o q \in Seq(S) /\ Len(p \o q) = Len(p) + Len(q)
  OBVIOUS

\* What is left of a queue without its k-th event
LEMMA RemovedItems ==
  ASSUME NEW s \in Seq(TlsEvents), NEW k \in 1 .. Len(s)
  PROVE  /\ RemoveAt(s, k) \in Seq(TlsEvents) /\ Len(RemoveAt(s, k)) = Len(s) - 1
         /\ \A i \in 1 .. Len(s) - 1 : RemoveAt(s, k)[i] = IF i < k THEN s[i] ELSE s[i + 1]
<1> DEFINE p == SubSeq(s, 1, k - 1)
           q == SubSeq(s, k + 1, Len(s))
<1>1. p \in Seq(TlsEvents) /\ Len(p) = k - 1 /\ \A i \in 1 .. k - 1 : p[i] = s[i]
  OBVIOUS
<1>2. q \in Seq(TlsEvents) /\ Len(q) = Len(s) - k /\ \A i \in 1 .. Len(s) - k : q[i] = s[k + i]
  OBVIOUS
<1>3. RemoveAt(s, k) = p \o q
  BY DEF RemoveAt
<1> HIDE DEF p, q
<1>4. p \o q \in Seq(TlsEvents) /\ Len(p \o q) = Len(s) - 1
  <2>1. p \o q \in Seq(TlsEvents) /\ Len(p \o q) = Len(p) + Len(q)
    BY <1>1, <1>2, Joined
  <2> QED
    BY <1>1, <1>2, <2>1
<1>5. ASSUME NEW i \in 1 .. Len(s) - 1 PROVE (p \o q)[i] = IF i < k THEN s[i] ELSE s[i + 1]
  <2>1. CASE i < k
    BY <1>1, <1>2, <2>1
  <2>2. CASE ~(i < k)
    <3>1. i - Len(p) \in 1 .. Len(q) /\ (p \o q)[i] = q[i - Len(p)]
      BY <1>1, <1>2, <2>2
    <3>2. k + (i - Len(p)) = i + 1
      BY <1>1
    <3> QED
      BY <1>2, <2>2, <3>1, <3>2
  <2> QED
    BY <2>1, <2>2
<1> QED
  BY <1>3, <1>4, <1>5

\* A queue without one of its events: nothing changes for the other type.  If no event of
\* its type came before it, the last of them is the same, and if none is left then it was
\* the last
LEMMA Removed ==
  ASSUME NEW s \in Seq(TlsEvents), NEW k \in 1 .. Len(s), NEW t \in Types, NEW c,
         s[k][2] # t \/ \A i \in 1 .. k - 1 : s[i][2] # t
  PROVE  /\ LastSays(s, t, c) => LastSays(RemoveAt(s, k), t, c)
         /\ NoneAbout(RemoveAt(s, k), t) /\ s[k][2] # t => NoneAbout(s, t)
         /\ NoneAbout(RemoveAt(s, k), t) /\ s[k][2] = t /\ LastSays(s, t, c) => s[k][1] = Word(c)
<1> DEFINE a == RemoveAt(s, k)
           n == Len(s)
<1>1. /\ n \in Nat /\ Len(a) = n - 1 /\ k \in 1 .. n
      /\ \A i \in 1 .. n - 1 : a[i] = IF i < k THEN s[i] ELSE s[i + 1]
  <2>1. n \in Nat
    OBVIOUS
  <2> HIDE DEF n
  <2> QED
    BY <2>1, RemovedItems DEF n
<1> HIDE DEF a
\* Where an event of the queue is found afterwards
<1>2. ASSUME NEW j \in 1 .. n, j # k
      PROVE  \E i \in 1 .. n - 1 : a[i] = s[j] /\ i = IF j < k THEN j ELSE j - 1
  <2>1. CASE j < k
    <3>1. j \in 1 .. n - 1 /\ a[j] = s[j]
      BY <1>1, <2>1
    <3> QED  BY <2>1, <3>1
  <2>2. CASE j > k
    <3>1. j - 1 \in 1 .. n - 1 /\ ~(j - 1 < k) /\ (j - 1) + 1 = j
      BY <1>1, <2>2
    <3>2. a[j - 1] = s[j]
      BY <1>1, <3>1
    <3>3. ~(j < k)
      BY <2>2
    <3> QED  BY <3>1, <3>2, <3>3
  <2> QED
    BY <1>1, <1>2, <2>1, <2>2
<1>3. ASSUME LastSays(s, t, c) PROVE LastSays(a, t, c)
  <2> SUFFICES ASSUME NEW i \in 1 .. Len(a), a[i][2] = t,
                      \A j \in 1 .. Len(a) : j > i => a[j][2] # t
               PROVE  a[i][1] = Word(c)
    BY DEF LastSays
  <2>1. i \in 1 .. n - 1
    BY <1>1
  <2> DEFINE h == IF i < k THEN i ELSE i + 1
  <2>2. h \in 1 .. n /\ a[i] = s[h] /\ h # k
    BY <1>1, <2>1
  <2>3. ASSUME NEW j \in 1 .. n, j > h, j # k PROVE s[j][2] # t
    <3>1. PICK m \in 1 .. n - 1 : a[m] = s[j] /\ m = IF j < k THEN j ELSE j - 1
      BY <1>2, <2>3
    <3>2. m > i
      BY <1>1, <2>1, <2>3, <3>1
    <3> QED
      BY <1>1, <3>1, <3>2
  <2>4. k > h => s[k][2] # t
    <3>1. ASSUME k > h PROVE h \in 1 .. k - 1
      BY <1>1, <2>2, <3>1
    <3> QED
      BY <2>2, <3>1
  <2> HIDE DEF h
  <2> QED
    BY <1>3, <2>2, <2>3, <2>4 DEF LastSays
<1>4. ASSUME NoneAbout(a, t), NEW j \in 1 .. n, j # k PROVE s[j][2] # t
  BY <1>1, <1>2, <1>4 DEF NoneAbout
<1>5. ASSUME NoneAbout(a, t), s[k][2] # t PROVE NoneAbout(s, t)
  BY <1>4, <1>5 DEF NoneAbout
<1>6. ASSUME NoneAbout(a, t), s[k][2] = t, LastSays(s, t, c) PROVE s[k][1] = Word(c)
  <2>1. \A j \in 1 .. n : j > k => s[j][2] # t
    BY <1>1, <1>4, <1>6
  <2> QED
    BY <1>1, <1>6, <2>1 DEF LastSays
<1> QED
  BY <1>3, <1>5, <1>6 DEF a

\* The types of the variables of TLS
TlsTypes ==
  /\ assigned \in [Units -> [Types -> Nat]]
  /\ tls \in [Units -> [Types -> Int]]
  /\ events \in [Units -> Seq(TlsEvents)]
  /\ cursor \in [Units -> Nat]
  /\ changes \in Nat

\* The last event of a queue says what is assigned; a server for which no event is left
\* uses it.  The first part is what makes the second one inductive: the handler of an
\* event does not look at what was assigned, only at the event.  It is lost when an event
\* is handled before an earlier one, and found again with the next event
Followed(u, t) ==
  <<u, t>> \notin overtaken =>
    /\ LastSays(events[u], t, assigned[u][t])
    /\ u \notin tlsFailed /\ NoneAbout(events[u], t) => tls[u][t] = assigned[u][t]

\* The inductive invariant for TLS
TlsIInv == TlsTypes /\ \A u \in Units, t \in Types : Followed(u, t)

\* Nothing is assigned at first
LEMMA TlsInit == Init => TlsIInv
<1> SUFFICES ASSUME Init PROVE TlsIInv
  OBVIOUS
<1>1. TlsTypes
  BY DEF Init, TlsTypes
<1>2. ASSUME NEW u \in Units, NEW t \in Types PROVE Len(events[u]) = 0 /\ tls[u][t] = assigned[u][t]
  BY DEF Init
<1> QED
  BY <1>1, <1>2 DEF TlsIInv, LastSays, Followed

\* A certificate is assigned, and its event queued
LEMMA IssueStep ==
  ASSUME TlsIInv, NEW u \in Units, NEW t \in Types, IssueCertificate(u, t)
  PROVE  TlsIInv'
<1>1. TlsTypes /\ changes' \in Nat /\ UNCHANGED <<tls, tlsFailed, cursor>>
  BY DEF TlsIInv, TlsTypes, IssueCertificate, Change
<1>0. \A p : p # <<u, t>> => (p \in overtaken' <=> p \in overtaken)
  BY DEF IssueCertificate
<1>2. PICK n \in Nat : n = changes + 1 /\ n # 0
  BY <1>1 DEF TlsTypes
<1>3. /\ assigned' \in [Units -> [Types -> Nat]] /\ assigned'[u][t] = n
      /\ \A v \in Units, s \in Types : v # u \/ s # t => assigned'[v][s] = assigned[v][s]
  BY <1>1, <1>2 DEF IssueCertificate, TlsTypes
<1>4. events[u] \in Seq(TlsEvents) /\ <<"available", t>> \in TlsEvents
      /\ <<"available", t>>[1] = "available" /\ <<"available", t>>[2] = t
  BY <1>1, PairFields DEF TlsTypes
<1>5. /\ events' \in [Units -> Seq(TlsEvents)] /\ events'[u] = Append(events[u], <<"available", t>>)
      /\ \A v \in Units : v # u => events'[v] = events[v]
  BY <1>1, <1>4, Appended DEF IssueCertificate, TlsTypes
<1>6. TlsTypes'
  BY <1>1, <1>3, <1>5 DEF TlsTypes
<1>7. Followed(u, t)'
  <2>1. Word(assigned'[u][t]) = "available"
    BY <1>2, <1>3 DEF Word
  <2> QED
    BY <1>4, <1>5, <2>1, Appended DEF Followed
<1>8. ASSUME NEW v \in Units, NEW s \in Types, v # u \/ s # t PROVE Followed(v, s)'
  <2>1. assigned'[v][s] = assigned[v][s] /\ Followed(v, s)
    BY <1>3, <1>8 DEF TlsIInv
  <2>4. <<v, s>> \in overtaken' <=> <<v, s>> \in overtaken
    BY <1>0, <1>8
  <2>2. CASE v # u
    BY <1>1, <1>5, <2>1, <2>2, <2>4 DEF Followed
  <2>3. CASE v = u /\ s # t
    <3>1. PICK q \in Seq(TlsEvents), e \in TlsEvents, c \in Nat :
             q = events[v] /\ e = <<"available", t>> /\ e[2] = t /\ c = assigned[v][s]
      BY <1>1, <1>4, <2>3 DEF TlsTypes
    <3>2. /\ LastSays(q, s, c) => LastSays(Append(q, e), s, c)
          /\ NoneAbout(Append(q, e), s) => NoneAbout(q, s)
      BY <3>1, <2>3, Appended
    <3>3. events'[v] = Append(q, e)
      BY <3>1, <1>5, <2>3
    <3> QED
      BY <1>1, <2>1, <2>4, <3>1, <3>2, <3>3 DEF Followed
  <2> QED
    BY <1>8, <2>2, <2>3
<1> QED
  BY <1>6, <1>7, <1>8 DEF TlsIInv

\* The relation is gone, and its event queued everywhere
LEMMA BreakStep ==
  ASSUME TlsIInv, NEW t \in Types, BreakRelation(t)
  PROVE  TlsIInv'
<1>1. TlsTypes /\ changes' \in Nat /\ UNCHANGED <<tls, tlsFailed, cursor>>
  BY DEF TlsIInv, TlsTypes, BreakRelation, Change
<1>0. \A v \in Units, s \in Types : s # t => (<<v, s>> \in overtaken' <=> <<v, s>> \in overtaken)
  BY DEF BreakRelation
<1>2. /\ assigned' \in [Units -> [Types -> Nat]]
      /\ \A v \in Units : assigned'[v][t] = 0
      /\ \A v \in Units, s \in Types : s # t => assigned'[v][s] = assigned[v][s]
  BY <1>1 DEF BreakRelation, TlsTypes
<1>3. <<"broken", t>> \in TlsEvents /\ <<"broken", t>>[1] = "broken" /\ <<"broken", t>>[2] = t
  BY PairFields
<1>4. \A v \in Units : events[v] \in Seq(TlsEvents) /\ Append(events[v], <<"broken", t>>) \in Seq(TlsEvents)
  BY <1>1, <1>3, Appended DEF TlsTypes
<1>5. /\ events' \in [Units -> Seq(TlsEvents)]
      /\ \A v \in Units : events'[v] = Append(events[v], <<"broken", t>>)
  BY <1>4 DEF BreakRelation
<1>6. TlsTypes'
  BY <1>1, <1>2, <1>5 DEF TlsTypes
<1>7. ASSUME NEW v \in Units PROVE Followed(v, t)'
  <2>1. Word(assigned'[v][t]) = "broken"
    BY <1>2 DEF Word
  <2>2. PICK q \in Seq(TlsEvents), e \in TlsEvents, c \in Nat :
          q = events[v] /\ e = <<"broken", t>> /\ e[1] = Word(c) /\ e[2] = t /\ c = assigned'[v][t]
    BY <1>2, <1>3, <1>4, <2>1
  <2>3. LastSays(Append(q, e), t, c) /\ ~NoneAbout(Append(q, e), t)
    BY <2>2, Appended
  <2>4. events'[v] = Append(q, e)
    BY <1>5, <2>2
  <2> QED
    BY <2>2, <2>3, <2>4 DEF Followed
<1>8. ASSUME NEW v \in Units, NEW s \in Types, s # t PROVE Followed(v, s)'
  <2>1. assigned'[v][s] = assigned[v][s] /\ Followed(v, s)
    BY <1>2, <1>8 DEF TlsIInv
  <2>5. <<v, s>> \in overtaken' <=> <<v, s>> \in overtaken
    BY <1>0, <1>8
  <2>2. PICK q \in Seq(TlsEvents), e \in TlsEvents, c \in Nat :
             q = events[v] /\ e = <<"broken", t>> /\ e[2] = t /\ c = assigned[v][s]
    BY <1>1, <1>3, <1>4 DEF TlsTypes
  <2>3. /\ LastSays(q, s, c) => LastSays(Append(q, e), s, c)
        /\ NoneAbout(Append(q, e), s) => NoneAbout(q, s)
    BY <2>2, <1>8, Appended
  <2>4. events'[v] = Append(q, e)
    BY <2>2, <1>5
  <2> QED
    BY <1>1, <2>1, <2>2, <2>3, <2>4, <2>5 DEF Followed
<1> QED
  BY <1>6, <1>7, <1>8 DEF TlsIInv

\* An event is handled, with what it asks for or with an error.  A certificate that is
\* enabled late is the one assigned by then; with bad paths where nothing is assigned any
\* more, but then the queue still holds the event that says so, or that was handled first
LEMMA HandledKeeps ==
  ASSUME TlsIInv, NEW u \in Units, NEW t \in Types, NEW w \in {"available", "broken"},
         Emitted(u, <<w, t>>), Handled(u), UNCHANGED <<assigned, changes>>,
         \/ /\ tls' = [tls EXCEPT ![u][t] = IF w = "broken" THEN 0 ELSE EnabledTls(u, t)]
            /\ UNCHANGED tlsFailed
         \/ tlsFailed' = tlsFailed \cup {u} /\ UNCHANGED tls
  PROVE  TlsIInv'
<1> DEFINE q == events[u]
           k == cursor[u] + 1
<1>1. TlsTypes /\ q \in Seq(TlsEvents) /\ k \in 1 .. Len(q) /\ q[k] = <<w, t>>
  BY DEF TlsIInv, TlsTypes, Emitted
<1>2. /\ events' \in [Units -> Seq(TlsEvents)] /\ events'[u] = RemoveAt(q, k)
      /\ \A v \in Units : v # u => events'[v] = events[v]
  <2>1. events' = [events EXCEPT ![u] = RemoveAt(q, k)]
    BY <1>1 DEF Handled, TlsTypes
  <2>2. RemoveAt(q, k) \in Seq(TlsEvents)
    BY <1>1, RemovedItems
  <2> HIDE DEF q, k
  <2> QED
    BY <1>1, <2>1, <2>2 DEF TlsTypes
<1>3. q[k][1] = w /\ q[k][2] = t
  BY <1>1, PairFields
<1>c. cursor' \in [Units -> Nat]
  BY <1>1 DEF Handled, TlsTypes
<1>d. /\ \A p : p # <<u, t>> => (p \in overtaken' <=> p \in overtaken)
      /\ <<u, t>> \notin overtaken' =>
           <<u, t>> \notin overtaken /\ \A i \in 1 .. k - 1 : q[i][2] # t
  <2>1. cursor[u] = k - 1
    BY <1>1 DEF TlsTypes
  <2>2. overtaken' = IF \E i \in 1 .. k - 1 : q[i][2] = t
                     THEN overtaken \cup {<<u, t>>} ELSE overtaken
    BY <1>3, <2>1 DEF Handled
  <2> HIDE DEF q, k
  <2> QED
    BY <2>2
<1> HIDE DEF q, k
<1>a. assigned[u][t] \in Nat
  BY <1>1 DEF TlsTypes
<1>4. PICK c : c = IF w = "broken" THEN 0 ELSE EnabledTls(u, t)
  OBVIOUS
<1>b. c \in Int
  BY <1>a, <1>4 DEF EnabledTls, BadPaths
<1>5. /\ tls' \in [Units -> [Types -> Int]]
      /\ \A v \in Units, s \in Types : v # u \/ s # t => tls'[v][s] = tls[v][s]
      /\ tls'[u][t] = c \/ u \in tlsFailed'
  <2>1. CASE tls' = [tls EXCEPT ![u][t] = c]
    BY <1>1, <1>b, <2>1 DEF TlsTypes
  <2>2. CASE tlsFailed' = tlsFailed \cup {u} /\ UNCHANGED tls
    BY <1>1, <2>2 DEF TlsTypes
  <2> QED
    BY <1>4, <2>1, <2>2
<1>6. TlsTypes'
  BY <1>1, <1>2, <1>5, <1>c DEF TlsTypes
<1>7. Followed(u, t)'
  <2> SUFFICES ASSUME <<u, t>> \notin overtaken'
               PROVE  /\ LastSays(events'[u], t, assigned[u][t])
                      /\ u \notin tlsFailed' /\ NoneAbout(events'[u], t)
                           => tls'[u][t] = assigned[u][t]
    BY DEF Followed
  <2>0. LastSays(q, t, assigned[u][t]) /\ \A i \in 1 .. k - 1 : q[i][2] # t
    BY <1>d DEF TlsIInv, Followed, q
  <2>1. LastSays(events'[u], t, assigned[u][t])
    BY <1>1, <1>2, <2>0, Removed
  <2>2. ASSUME u \notin tlsFailed', NoneAbout(events'[u], t) PROVE tls'[u][t] = assigned[u][t]
    <3>1. w = Word(assigned[u][t])
      BY <1>1, <1>2, <1>3, <2>0, <2>2, Removed
    <3>3. tls'[u][t] = c
      BY <1>5, <2>2
    <3>4. c = assigned[u][t]
      BY <1>a, <1>4, <3>1 DEF Word, EnabledTls
    <3> QED
      BY <3>3, <3>4
  <2> QED
    BY <2>1, <2>2
<1>8. ASSUME NEW v \in Units, NEW s \in Types, v # u \/ s # t PROVE Followed(v, s)'
  <2>1. tls'[v][s] = tls[v][s] /\ Followed(v, s) /\ tlsFailed \subseteq tlsFailed'
    BY <1>5, <1>8 DEF TlsIInv
  <2>0. <<v, s>> \in overtaken' <=> <<v, s>> \in overtaken
    BY <1>d, <1>8
  <2>2. CASE v # u
    BY <1>2, <2>0, <2>1, <2>2 DEF Followed
  <2>3. CASE v = u /\ s # t
    <3>1. /\ LastSays(q, s, assigned[u][s]) => LastSays(events'[u], s, assigned[u][s])
          /\ NoneAbout(events'[u], s) => NoneAbout(q, s)
      BY <1>1, <1>2, <1>3, <2>3, Removed
    <3> QED
      BY <2>0, <2>1, <2>3, <3>1 DEF Followed, q
  <2> QED
    BY <1>8, <2>2, <2>3
<1> QED
  BY <1>6, <1>7, <1>8 DEF TlsIInv

\* An event that is deferred stays in the queue
LEMMA DeferredKeeps ==
  ASSUME TlsIInv, NEW u \in Units, Deferred(u), UNCHANGED <<assigned, changes, tls, tlsFailed>>
  PROVE  TlsIInv'
<1>1. cursor' \in [Units -> Nat] /\ UNCHANGED <<events, overtaken>>
  BY DEF TlsIInv, TlsTypes, Deferred
<1> QED
  BY <1>1 DEF TlsIInv, TlsTypes, Followed

\* _on_certificate_available, which may be deferred
LEMMA AvailableStep ==
  ASSUME TlsIInv, NEW u \in Units, NEW t \in Types, OnCertificateAvailable(u, t)
  PROVE  TlsIInv'
<1>1. CASE Deferred(u) /\ UNCHANGED <<tls, tlsFailed>>
  BY <1>1, DeferredKeeps DEF OnCertificateAvailable
<1>2. CASE /\ Handled(u)
           /\ \/ tls' = [tls EXCEPT ![u][t] = EnabledTls(u, t)] /\ UNCHANGED tlsFailed
              \/ tlsFailed' = tlsFailed \cup {u} /\ UNCHANGED tls
  <2>1. Emitted(u, <<"available", t>>) /\ UNCHANGED <<assigned, changes>>
    BY DEF OnCertificateAvailable
  <2>2. \/ /\ tls' = [tls EXCEPT ![u][t] = IF "available" = "broken" THEN 0 ELSE EnabledTls(u, t)]
           /\ UNCHANGED tlsFailed
        \/ tlsFailed' = tlsFailed \cup {u} /\ UNCHANGED tls
    BY <1>2
  <2> QED
    BY <1>2, <2>1, <2>2, HandledKeeps
<1> QED
  BY <1>1, <1>2 DEF OnCertificateAvailable

\* _on_relation_broken, which may be deferred
LEMMA RelationBrokenStep ==
  ASSUME TlsIInv, NEW u \in Units, NEW t \in Types, OnRelationBroken(u, t)
  PROVE  TlsIInv'
<1>1. CASE Deferred(u) /\ UNCHANGED <<tls, tlsFailed>>
  BY <1>1, DeferredKeeps DEF OnRelationBroken
<1>2. CASE /\ Handled(u)
           /\ \/ tls' = [tls EXCEPT ![u][t] = 0] /\ UNCHANGED tlsFailed
              \/ tlsFailed' = tlsFailed \cup {u} /\ UNCHANGED tls
  <2>1. Emitted(u, <<"broken", t>>) /\ UNCHANGED <<assigned, changes>>
    BY DEF OnRelationBroken
  <2>2. \/ /\ tls' = [tls EXCEPT ![u][t] = IF "broken" = "broken" THEN 0 ELSE EnabledTls(u, t)]
           /\ UNCHANGED tlsFailed
        \/ tlsFailed' = tlsFailed \cup {u} /\ UNCHANGED tls
    BY <1>2
  <2> QED
    BY <1>2, <2>1, <2>2, HandledKeeps
<1> QED
  BY <1>1, <1>2 DEF OnRelationBroken

\* Every step keeps the invariant for TLS
LEMMA TlsStep == TlsIInv /\ [Next]_vars => TlsIInv'
<1> SUFFICES ASSUME TlsIInv, [Next]_vars PROVE TlsIInv'
  OBVIOUS
<1>1. CASE UNCHANGED tlsVars /\ changes' \in Nat
  BY <1>1 DEF tlsVars, queueVars, TlsIInv, TlsTypes, Followed
<1>2. CASE \E t \in Types : BreakRelation(t)
  BY <1>2, BreakStep
<1>3. CASE \E u \in Units, t \in Types :
             IssueCertificate(u, t) \/ OnCertificateAvailable(u, t) \/ OnRelationBroken(u, t)
  BY <1>3, IssueStep, AvailableStep, RelationBrokenStep
<1>4. \/ UNCHANGED tlsVars /\ changes' \in Nat
      \/ \E t \in Types : BreakRelation(t)
      \/ \E u \in Units, t \in Types :
           IssueCertificate(u, t) \/ OnCertificateAvailable(u, t) \/ OnRelationBroken(u, t)
  <2>1. changes \in Nat
    BY DEF TlsIInv, TlsTypes
  <2>2. CASE SetOptions
    BY <2>1, <2>2 DEF SetOptions, Change
  <2>3. ASSUME NEW u \in Units,
               \/ OnConfigChanged(u) \/ StartInstance(u) \/ RecoverInstance(u) \/ SnapRefreshed(u)
               \/ Rolling(u) \/ Recovered(u) \/ ServiceStarts(u) \/ StartRefresh(u) \/ RefreshSnap(u)
        PROVE  UNCHANGED tlsVars /\ changes' \in Nat
    BY <2>1, <2>3
    DEF OnConfigChanged, StartInstance, RecoverInstance, SnapRefreshed, Rolling, RestartInstance,
        RestartCluster, Recovered, ServiceStarts, StartRefresh, RefreshSnap, Change
  <2>4. CASE UNCHANGED vars
    BY <2>1, <2>4 DEF vars, tlsVars, queueVars
  <2> QED
    BY <2>2, <2>3, <2>4 DEF Next, TlsHook, GoesOn
<1> QED
  BY <1>1, <1>2, <1>3, <1>4

\* A server whose TLS events have all been handled uses the certificate assigned to it, or
\* none after the relation is gone, for every number of units, queue and order of events,
\* unless the last event of its type was handled before an earlier one that was deferred
\* (_on_certificate_available, _on_relation_broken)
THEOREM TlsFollows == Spec => []TlsFollowsRelation
<1>1. TlsIInv => TlsFollowsRelation
  <2> SUFFICES ASSUME TlsIInv, NEW u \in Units, NEW t \in Types,
                      events[u] = <<>>, u \notin tlsFailed, <<u, t>> \notin overtaken
               PROVE  tls[u][t] = assigned[u][t]
    BY DEF TlsFollowsRelation
  <2>1. NoneAbout(events[u], t)
    BY DEF NoneAbout
  <2> QED
    BY <2>1 DEF TlsIInv, Followed
<1> QED
  BY <1>1, TlsInit, TlsStep, PTL DEF Spec

-----------------------------------------------------------------------------
(* Rolling restarts *)

\* The replication states
States == {"ONLINE", "OFFLINE", "RECOVERING"}

\* The lock is held by unit r, at stage s of its restart
Held(r, s) == op = [unit |-> r, stage |-> s]

\* Every unit but r runs, and is online unless it released the lock too early
OthersServe(r) ==
  \A u \in Units \ {r} : u \in up /\ (u \in hasty \/ gr[u] = "ONLINE")

\* No member is online, which takes all units but one to have released the lock too early
Outage == Online = {} /\ \E r \in Units : Units \ {r} \subseteq hasty

\* Without errors and refreshes the units that are not online are the one that holds the
\* lock, and those that released it too early.  An outage lasts
OneAtATime ==
  /\ refreshing = FALSE /\ installing = None
  /\ \/ Outage
     \/ op = Idle /\ OthersServe(None)
     \/ \E r \in Units : Held(r, "stopped") /\ OthersServe(r)
     \/ \E r \in Units : Held(r, "started") /\ OthersServe(r) /\ r \in up /\ gr[r] # "OFFLINE"

\* The inductive invariant for rolling restarts
RollIInv == /\ gr \in [Units -> States] /\ refreshes \in Nat
            /\ Quiet => OneAtATime

\* Every unit is online at first
LEMMA RollInit == Init => RollIInv
  BY ReconfigurationAssumption DEF Init, RollIInv, OneAtATime, OthersServe, States, Idle

\* If every unit but one serves or was hasty, and none is online, then it is an outage
LEMMA NobodyServes ==
  ASSUME NEW r \in Units \cup {None}, OthersServe(r), Online = {}
  PROVE  Outage
<1>1. Units \ {r} \subseteq hasty
  BY DEF OthersServe, Online
<1>2. 0 \in Units
  BY ReconfigurationAssumption DEF Units
<1>3. CASE r \in Units
  BY <1>1, <1>3 DEF Outage
<1>4. CASE r = None
  <2>1. Units \ {0} \subseteq hasty
    BY <1>1, <1>4, ReconfigurationAssumption
  <2> QED
    BY <1>2, <2>1 DEF Outage
<1> QED
  BY <1>3, <1>4

\* The holder of the lock is determined
LEMMA IdleMeansIdle ==
  /\ \A r \in Units : \A s : [unit |-> r, stage |-> s] # Idle
  /\ \A r, q, s, z : [unit |-> r, stage |-> s] = [unit |-> q, stage |-> z] => r = q /\ s = z
<1>1. \A r, q, s, z : [unit |-> r, stage |-> s] = [unit |-> q, stage |-> z] => r = q /\ s = z
  <2> SUFFICES ASSUME NEW r, NEW q, NEW s, NEW z,
                      [unit |-> r, stage |-> s] = [unit |-> q, stage |-> z]
               PROVE  r = q /\ s = z
    OBVIOUS
  <2>1. [unit |-> r, stage |-> s].unit = r /\ [unit |-> r, stage |-> s].stage = s
    OBVIOUS
  <2>2. [unit |-> q, stage |-> z].unit = q /\ [unit |-> q, stage |-> z].stage = z
    OBVIOUS
  <2> QED
    BY <2>1, <2>2
<1> QED
  BY <1>1, ReconfigurationAssumption DEF Idle

\* Steps that leave the group and the lock alone
LEMMA OthersKeep ==
  ASSUME RollIInv, Quiet' => Quiet, UNCHANGED <<gr, up, op, hasty, refreshing, installing>>,
         refreshes' \in Nat
  PROVE  RollIInv'
  BY DEF RollIInv, OneAtATime, Outage, Online, OthersServe, Held, Idle

\* An outage lasts while no instance comes online and the hasty units stay
LEMMA OutageLasts ==
  ASSUME Outage, hasty \subseteq hasty', \A v \in Units : gr'[v] = "ONLINE" => gr[v] = "ONLINE"
  PROVE  Outage'
  BY DEF Outage, Online

\* restart_instance: the server of the unit that takes the lock is stopped
LEMMA RestartStep ==
  ASSUME RollIInv, NEW u \in Units, RestartInstance(u)
  PROVE  RollIInv'
<1>1. /\ gr' \in [Units -> States] /\ refreshes' \in Nat /\ gr'[u] = "OFFLINE"
      /\ \A v \in Units : v # u => gr'[v] = gr[v]
      /\ UNCHANGED <<lost, refreshes, refreshing, installing, hasty>> /\ up' = up \ {u}
  BY DEF RestartInstance, StopServer, RollIInv, States, refreshVars
<1>2. ASSUME Quiet' PROVE OneAtATime'
  <2>1. OneAtATime /\ op = Idle
    BY <1>1, <1>2 DEF RestartInstance, MayRun, RollIInv, Quiet
  <2>2. CASE Outage
    BY <1>1, <2>1, <2>2, OutageLasts DEF OneAtATime
  <2>3. CASE OthersServe(None)
    <3>1. OthersServe(u)'
      BY <1>1, <2>3, ReconfigurationAssumption DEF OthersServe
    <3>2. Held(u, "stopped")'
      BY DEF RestartInstance, Held
    <3> QED
      BY <1>1, <2>1, <3>1, <3>2 DEF OneAtATime
  <2> QED
    BY <2>1, <2>2, <2>3, IdleMeansIdle DEF OneAtATime, Held
<1> QED
  BY <1>1, <1>2 DEF RollIInv

\* The server is started; a start that fails is an error
LEMMA StartStep ==
  ASSUME RollIInv, NEW u \in Units, StartInstance(u)
  PROVE  RollIInv'
<1>1. /\ gr' \in [Units -> States] /\ refreshes' \in Nat
      /\ \A v \in Units : v # u => gr'[v] = gr[v]
      /\ UNCHANGED <<refreshes, refreshing, installing, hasty>>
  BY DEF StartInstance, StartServer, RollIInv, States, refreshVars, groupVars
<1>2. ASSUME Quiet' PROVE OneAtATime'
  <2>1. lost' # lost \cup {u}
    BY <1>2 DEF Quiet
  <2>2. StartServer(u) /\ op' = [op EXCEPT !.stage = "started"] /\ UNCHANGED lost
    BY <2>1 DEF StartInstance
  <2>3. OneAtATime /\ Held(u, "stopped")
    BY <1>1, <1>2, <2>2 DEF StartInstance, RollIInv, Quiet, Held
  <2>4. u \in up' /\ up \subseteq up' /\ gr'[u] = IF Online = {} THEN "OFFLINE" ELSE "RECOVERING"
    BY <2>2 DEF StartServer, RollIInv
  <2>5. CASE Outage
    <3>1. gr'[u] = "OFFLINE"
      BY <2>4, <2>5 DEF Outage
    <3> QED
      BY <1>1, <2>3, <2>5, <3>1, OutageLasts DEF OneAtATime
  <2>6. CASE ~Outage
    <3>1. OthersServe(u)
      BY <2>3, <2>6, IdleMeansIdle DEF OneAtATime, Held
    <3>2. gr'[u] # "OFFLINE"
      BY <2>4, <2>6, <3>1, NobodyServes
    <3>3. OthersServe(u)'
      BY <1>1, <2>4, <3>1 DEF OthersServe
    <3>4. Held(u, "started")'
      BY <2>2, <2>3 DEF Held
    <3> QED
      BY <1>1, <2>3, <2>4, <3>2, <3>3, <3>4 DEF OneAtATime
  <2> QED
    BY <2>5, <2>6
<1> QED
  BY <1>1, <1>2 DEF RollIInv

\* recover_instance: an instance that releases the lock is online or becomes hasty
LEMMA RecoverStep ==
  ASSUME N > 1, RollIInv, NEW u \in Units, RecoverInstance(u)
  PROVE  RollIInv'
<1>1. /\ UNCHANGED <<gr, up, refreshes, refreshing, installing, lost>> /\ op' = Idle
      /\ hasty \subseteq hasty' /\ (gr[u] = "RECOVERING" => u \in hasty')
  BY ReconfigurationAssumption DEF RecoverInstance, refreshVars
<1>2. ASSUME Quiet' PROVE OneAtATime'
  <2>1. OneAtATime /\ Held(u, "started")
    BY <1>1, <1>2 DEF RecoverInstance, RollIInv, Quiet, Held
  <2>2. CASE Outage
    BY <1>1, <2>1, <2>2, OutageLasts DEF OneAtATime
  <2>3. CASE ~Outage
    <3>1. OthersServe(u) /\ u \in up /\ gr[u] # "OFFLINE"
      BY <2>1, <2>3, IdleMeansIdle DEF OneAtATime, Held
    <3>2. gr[u] = "ONLINE" \/ u \in hasty'
      BY <1>1, <3>1 DEF RollIInv, States
    <3>3. OthersServe(None)'
      BY <1>1, <3>1, <3>2 DEF OthersServe
    <3>4. op' = Idle'
      BY <1>1 DEF Idle
    <3> QED
      BY <1>1, <2>1, <3>3, <3>4 DEF OneAtATime
  <2> QED
    BY <2>2, <2>3
<1> QED
  BY <1>1, <1>2 DEF RollIInv

\* A member ends its recovery: with a donor it is online, and without one it is an outage
LEMMA RecoveredStep ==
  ASSUME RollIInv, NEW u \in Units, Recovered(u)
  PROVE  RollIInv'
<1>1. UNCHANGED <<up, op, refreshes, refreshing, installing, lost>>
  BY DEF Recovered, refreshVars
<1>2. /\ gr' \in [Units -> States] /\ \A v \in Units : v # u => gr'[v] = gr[v]
      /\ gr'[u] = IF Online = {} THEN "OFFLINE" ELSE "ONLINE"
      /\ hasty' = IF Online = {} THEN hasty ELSE hasty \ {u}
  BY DEF Recovered, RollIInv, States
<1>3. ASSUME Quiet' PROVE OneAtATime'
  <2>1. OneAtATime
    BY <1>1, <1>3 DEF RollIInv, Quiet
  <2>2. CASE Online = {}
    <3>1. Outage
      BY <2>1, <2>2, NobodyServes DEF OneAtATime
    <3>2. Outage'
      BY <1>2, <2>2, <3>1, OutageLasts
    <3> QED
      BY <1>1, <2>1, <3>2 DEF OneAtATime
  <2>3. CASE Online # {}
    <3>1. gr'[u] = "ONLINE" /\ hasty' = hasty \ {u} /\ ~Outage
      BY <1>2, <2>3 DEF Outage
    <3>2. ASSUME NEW r, OthersServe(r) PROVE OthersServe(r)'
      BY <1>1, <1>2, <3>1, <3>2 DEF OthersServe
    <3>3. ASSUME NEW r \in Units, gr[r] # "OFFLINE" PROVE gr'[r] # "OFFLINE"
      BY <1>2, <3>1, <3>3
    <3>4. CASE op = Idle /\ OthersServe(None)
      BY <1>1, <2>1, <3>2, <3>4 DEF OneAtATime, Idle
    <3>5. CASE \E r \in Units : Held(r, "stopped") /\ OthersServe(r)
      BY <1>1, <2>1, <3>2, <3>5 DEF OneAtATime, Held
    <3>6. CASE \E r \in Units : Held(r, "started") /\ OthersServe(r) /\ r \in up /\ gr[r] # "OFFLINE"
      BY <1>1, <2>1, <3>2, <3>3, <3>6 DEF OneAtATime, Held
    <3> QED
      BY <2>1, <3>1, <3>4, <3>5, <3>6 DEF OneAtATime
  <2> QED
    BY <2>2, <2>3
<1> QED
  BY <1>1, <1>2, <1>3 DEF RollIInv

\* restart_cluster finds the instance online, and does nothing, or a hasty one
LEMMA ClusterStep ==
  ASSUME RollIInv, NEW u \in Units, RestartCluster(u)
  PROVE  RollIInv'
<1>1. UNCHANGED <<up, op, hasty, refreshes, refreshing, installing, lost>> /\ op = Idle
  BY DEF RestartCluster, MayRun, refreshVars, lockVars
<1>2. /\ gr' \in [Units -> States] /\ \A v \in Units : v # u => gr'[v] = gr[v]
      /\ gr'[u] = gr[u] \/ (gr[u] = "OFFLINE" /\ gr'[u] = "RECOVERING")
  BY DEF RestartCluster, RollIInv, States
<1>3. ASSUME Quiet' PROVE OneAtATime'
  <2>1. OneAtATime
    BY <1>1, <1>3 DEF RollIInv, Quiet
  <2>2. CASE Outage
    BY <1>1, <1>2, <2>1, <2>2, OutageLasts DEF OneAtATime
  <2>3. CASE OthersServe(None)
    <3>1. OthersServe(None)'
      BY <1>1, <1>2, <2>3, ReconfigurationAssumption DEF OthersServe
    <3> QED
      BY <1>1, <2>1, <3>1 DEF OneAtATime, Idle
  <2> QED
    BY <1>1, <2>1, <2>2, <2>3, IdleMeansIdle DEF OneAtATime, Held
<1> QED
  BY <1>1, <1>2, <1>3 DEF RollIInv

\* The service manager has nothing to start, except in an outage
LEMMA ServiceStep ==
  ASSUME RollIInv, NEW u \in Units, ServiceStarts(u)
  PROVE  RollIInv'
<1>1. UNCHANGED <<op, hasty, refreshes, refreshing, installing, lost>> /\ u \notin up /\ op.unit # u
  BY DEF ServiceStarts, refreshVars, lockVars, Busy
<1>2. /\ gr' \in [Units -> States] /\ \A v \in Units : v # u => gr'[v] = gr[v]
      /\ gr'[u] # "ONLINE"
  BY DEF ServiceStarts, StartServer, RollIInv, States
<1>3. ASSUME Quiet' PROVE OneAtATime'
  <2>1. OneAtATime
    BY <1>1, <1>3 DEF RollIInv, Quiet
  <2>2. \A r, s : Held(r, s) => r # u
    BY <1>1 DEF Held
  <2>3. \A r : r # u => ~OthersServe(r)
    BY <1>1 DEF OthersServe
  <2>4. Outage
    BY <2>1, <2>2, <2>3, ReconfigurationAssumption DEF OneAtATime
  <2> QED
    BY <1>1, <1>2, <2>1, <2>4, OutageLasts DEF OneAtATime
<1> QED
  BY <1>1, <1>2, <1>3 DEF RollIInv

\* A refresh ends what is claimed
LEMMA RefreshStep ==
  ASSUME RollIInv, NEW u \in Units, StartRefresh(u) \/ RefreshSnap(u) \/ SnapRefreshed(u)
  PROVE  RollIInv'
<1>1. gr' \in [Units -> States] /\ refreshes' \in Nat
  BY DEF StartRefresh, RefreshSnap, SnapRefreshed, StopServer, StartServer, RollIInv, States
<1>2. ASSUME Quiet' PROVE FALSE
  <2>1. CASE StartRefresh(u)
    BY <1>2, <2>1 DEF StartRefresh, Quiet, RollIInv
  <2>2. CASE RefreshSnap(u) \/ SnapRefreshed(u)
    <3>1. OneAtATime
      BY <1>2, <2>2 DEF RefreshSnap, SnapRefreshed, Quiet, RollIInv
    <3> QED
      BY <2>2, <3>1, ReconfigurationAssumption DEF RefreshSnap, SnapRefreshed, OneAtATime
  <2> QED
    BY <2>1, <2>2
<1> QED
  BY <1>1, <1>2 DEF RollIInv

\* config-changed leaves the group alone
LEMMA ConfigStep ==
  ASSUME RollIInv, NEW u \in Units, OnConfigChanged(u)
  PROVE  RollIInv'
<1>1. /\ UNCHANGED <<gr, up, op, hasty, refreshing, installing, refreshes>>
      /\ lost' = lost \/ lost' = lost \cup {u}
  BY DEF OnConfigChanged, ApplyConfig, groupVars, refreshVars, lockVars
<1>2. Quiet' => Quiet
  BY <1>1 DEF Quiet
<1> QED
  BY <1>1, <1>2, OthersKeep DEF RollIInv

\* Every step keeps the invariant for rolling restarts
LEMMA RollStep == N > 1 /\ RollIInv /\ [Next]_vars => RollIInv'
<1> SUFFICES ASSUME N > 1, RollIInv, [Next]_vars PROVE RollIInv'
  OBVIOUS
<1>1. CASE UNCHANGED <<gr, up, op, hasty, refreshing, installing, refreshes, lost>>
  BY <1>1, OthersKeep DEF Quiet, RollIInv
<1>2. CASE \E u \in Units : \/ OnConfigChanged(u) \/ GoesOn(u) \/ Rolling(u)
                            \/ Recovered(u) \/ ServiceStarts(u) \/ StartRefresh(u) \/ RefreshSnap(u)
  BY <1>2, RestartStep, StartStep, RecoverStep, RecoveredStep, ClusterStep, ServiceStep,
     RefreshStep, ConfigStep
  DEF GoesOn, Rolling
<1>3. CASE \E u \in Units : TlsHook(u)
  BY <1>1, <1>3 DEF TlsHook, OnCertificateAvailable, OnRelationBroken, groupVars, refreshVars, lockVars
<1>4. CASE \/ SetOptions \/ UNCHANGED vars
           \/ \E t \in Types : BreakRelation(t) \/ \E u \in Units : IssueCertificate(u, t)
  BY <1>1, <1>4 DEF SetOptions, BreakRelation, IssueCertificate, groupVars, refreshVars, lockVars, vars
<1> QED
  BY <1>2, <1>3, <1>4 DEF Next

\* The invariant for rolling restarts holds in every state
LEMMA RollInvariance == N > 1 /\ Spec => []RollIInv
<1> SUFFICES ASSUME N > 1 PROVE Spec => []RollIInv
  OBVIOUS
<1>1. RollIInv /\ [Next]_vars => RollIInv'
  BY RollStep
<1> QED
  BY <1>1, RollInit, PTL DEF Spec

\* Rolling restarts leave some member online, for every number of units and every order in
\* which units ask for the lock and are given it, unless all units but one have given the
\* lock up before they were online again (restart_instance, recover_instance)
THEOREM RollingRestartsServe == Spec => []SomeMemberOnline
<1>1. CASE N > 1
  <2>1. RollIInv => SomeMemberOnline
    BY NobodyServes DEF RollIInv, OneAtATime, Outage, SomeMemberOnline
  <2>2. Spec => []RollIInv
    BY <1>1, RollInvariance
  <2> QED
    BY <2>1, <2>2, PTL
<1>2. CASE N = 1
  <2>1. SomeMemberOnline
    BY <1>2 DEF SomeMemberOnline, Units
  <2> QED
    BY <2>1, PTL
<1> QED
  BY <1>1, <1>2, ReconfigurationAssumption

-----------------------------------------------------------------------------
(* The size of the buffer pool *)

\* All combinations of options
OptionSets == [profile : {"production", "testing"}, limit : Nat, audit : BOOLEAN]

\* The buffer pool and the message cache of a configuration fit in the memory
Fits(f) == f["innodb_buffer_pool_size"] + f["group_replication_message_cache_size"] <= Memory

\* The configurations that build_server_config can return
Configs == {BuildServerConfig(o) : o \in OptionSets}

\* Files only ever hold configurations that were built
PoolIInv == wanted \in Configs /\ file \in [Units -> Configs]

\* The memory is a number of bytes
LEMMA MemoryIsNat == Memory \in Nat
<1>1. NodeMemory \in Nat /\ ContainerMemory \in Nat
  BY ReconfigurationAssumption
<1> QED
  BY <1>1 DEF Memory, GetMemory, Smaller

\* The buffer pool and the cache for any memory; those for a small memory need 512 MiB
\* at most
LEMMA PoolSizes ==
  ASSUME NEW memory \in Nat
  PROVE  /\ ProductionConfig(0, memory).pool \in Nat /\ ProductionConfig(0, memory).cache \in Nat
         /\ memory < 512 * MiB =>
              ProductionConfig(0, memory).pool + ProductionConfig(0, memory).cache <= 512 * MiB
<1> DEFINE quarters == (3 * memory) \div 4
           small == quarters < GiB \/ memory - (quarters - GiB) < GiB
           share == IF small THEN memory \div 2 ELSE quarters - GiB
           pool == RoundUp(share, 128 * MiB)
           chunk == RoundUp(pool \div 8, MiB)
           b == CalculateBufferPool(memory)
           c == ProductionConfig(0, memory)
<1>1. MiB \in Nat \ {0} /\ 128 * MiB \in Nat \ {0} /\ GiB = 1024 * MiB
  BY MiBAssumption DEF GiB
<1>2. quarters \in Nat /\ 4 * quarters <= 3 * memory
  OBVIOUS
<1>3. b = [pool  |-> IF pool > GiB THEN 8 * chunk ELSE pool,
           chunk |-> IF pool > GiB THEN chunk ELSE 0,
           cache |-> IF small THEN 128 * MiB ELSE 0]
  BY DEF CalculateBufferPool
<1>4. c.pool = b.pool /\ c.cache = IF b.cache = 0 THEN GiB ELSE b.cache
  <2> HIDE DEF b
  <2> QED  BY DEF ProductionConfig, b
<1>5. memory < 512 * MiB => quarters < GiB
  BY <1>1, <1>2
<1>6. /\ small => share = memory \div 2
      /\ ~small => share = quarters - GiB
      /\ quarters < GiB => small
  OBVIOUS
<1>7. share \in Nat /\ (small => 2 * share <= memory)
  BY <1>1, <1>2, <1>6
<1> HIDE DEF share, small, quarters
<1>8. pool \in Nat /\ pool < share + 128 * MiB
  BY <1>1, <1>7, RoundUpBounds
<1> HIDE DEF pool
<1>b. pool \div 8 \in Nat
  BY <1>8
<1>9. chunk \in Nat
  BY <1>1, <1>b, RoundUpBounds
<1> HIDE DEF chunk, b, c
<1>10. /\ c.pool = IF pool > GiB THEN 8 * chunk ELSE pool
       /\ c.cache = IF small THEN 128 * MiB ELSE GiB
  BY <1>1, <1>3, <1>4
<1>11. c.pool \in Nat /\ c.cache \in Nat
  BY <1>1, <1>8, <1>9, <1>10
<1>a. memory < 512 * MiB => small /\ pool < 384 * MiB
  BY <1>1, <1>5, <1>6, <1>7, <1>8
<1>12. memory < 512 * MiB => c.pool = pool /\ c.cache = 128 * MiB
  BY <1>1, <1>8, <1>10, <1>a
<1>13. memory < 512 * MiB => c.pool + c.cache <= 512 * MiB
  BY <1>1, <1>8, <1>12, <1>a
<1> QED
  BY <1>11, <1>13 DEF c

\* Every configuration that is built fits: a limit may make the memory look smaller than
\* half a GiB, but then the configuration needs no more than that
LEMMA BuiltFits ==
  ASSUME Memory >= 512 * MiB, NEW o \in OptionSets
  PROVE  Fits(BuildServerConfig(o))
<1> DEFINE memory == LimitMemory(Memory, o.limit)
           g == GetConfig(o.profile, memory, 0)
<1>1. memory \in Nat /\ memory <= Memory /\ Memory \in Nat /\ MiB \in Nat \ {0}
  BY MemoryIsNat, MiBAssumption DEF LimitMemory, Smaller, OptionSets
<1>2. /\ BuildServerConfig(o)["innodb_buffer_pool_size"] = g.pool
      /\ BuildServerConfig(o)["group_replication_message_cache_size"] = g.cache
  <2> HIDE DEF g
  <2> QED  BY DEF BuildServerConfig, g
<1> HIDE DEF memory
<1>3. g.pool + g.cache <= Memory
  <2>1. CASE o.profile = "production" /\ memory >= 512 * MiB
    <3>1. g = ProductionConfig(0, memory)
      BY <2>1 DEF GetConfig
    <3>2. ProductionConfig(0, memory).pool + ProductionConfig(0, memory).cache <= memory
      BY <1>1, <2>1, PoolFitsMemory DEF FitsMemory
    <3> QED
      BY <1>1, <3>1, <3>2, PoolSizes
  <2>2. CASE o.profile = "production" /\ ~(memory >= 512 * MiB)
    <3>1. g = ProductionConfig(0, memory)
      BY <2>2 DEF GetConfig
    <3>2. ProductionConfig(0, memory).pool + ProductionConfig(0, memory).cache <= 512 * MiB
      BY <1>1, <2>2, PoolSizes
    <3> QED
      BY <1>1, <3>1, <3>2, PoolSizes
  <2>3. CASE o.profile = "testing"
    <3>1. g.pool = 20 * MiB /\ g.cache = 128 * MiB
      BY <2>3 DEF GetConfig, TestingConfig
    <3> QED
      BY <1>1, <3>1
  <2> QED
    BY <1>1, <2>1, <2>2, <2>3 DEF OptionSets
<1> QED
  BY <1>2, <1>3 DEF Fits

\* The options that operators set, and the defaults, are combinations of options
LEMMA DefaultsAreOptions == Defaults \in OptionSets /\ Options \subseteq OptionSets
  BY ReconfigurationAssumption DEF Defaults, OptionSets

\* The first file is built from the defaults
LEMMA PoolInit == Init => PoolIInv
  BY DefaultsAreOptions DEF Init, PoolIInv, Configs

\* A file is replaced only by the configuration that is wanted
LEMMA PoolStep == PoolIInv /\ [Next]_vars => PoolIInv'
<1> SUFFICES ASSUME PoolIInv, [Next]_vars PROVE PoolIInv'
  OBVIOUS
<1>1. CASE UNCHANGED <<wanted, file>>
  BY <1>1 DEF PoolIInv, Configs
<1>2. CASE SetOptions
  BY <1>2, DefaultsAreOptions DEF SetOptions, PoolIInv, Configs
<1>3. ASSUME NEW u \in Units, OnConfigChanged(u) PROVE PoolIInv'
  <2>1. wanted' = wanted /\ (file' = [file EXCEPT ![u] = wanted] \/ file' = file)
    BY <1>3 DEF OnConfigChanged, ApplyConfig
  <2> QED
    BY <2>1 DEF PoolIInv, Configs
<1>4. CASE \E t \in Types : BreakRelation(t) \/ \E u \in Units : IssueCertificate(u, t)
  BY <1>1, <1>4 DEF BreakRelation, IssueCertificate, configVars
<1>5. ASSUME NEW u \in Units,
             \/ TlsHook(u) \/ GoesOn(u) \/ Rolling(u)
             \/ Recovered(u) \/ ServiceStarts(u) \/ StartRefresh(u) \/ RefreshSnap(u)
      PROVE  UNCHANGED <<wanted, file>>
  BY <1>5 DEF TlsHook, GoesOn, OnCertificateAvailable, OnRelationBroken, StartInstance, RecoverInstance,
     SnapRefreshed, Rolling, RestartInstance, RestartCluster, Recovered, ServiceStarts,
     StartRefresh, RefreshSnap, configVars
<1>6. CASE UNCHANGED vars
  BY <1>1, <1>6 DEF vars
<1> QED
  BY <1>1, <1>2, <1>3, <1>4, <1>5, <1>6 DEF Next

\* What every unit is configured with fits in the memory of its machine or container, for
\* every memory of at least half a GiB, container limit, profile and memory limit
\* (calculate_buffer_pool, build_server_config)
THEOREM ConfiguredPoolFits == Memory >= 512 * MiB /\ Spec => []PoolFits
<1> SUFFICES ASSUME Memory >= 512 * MiB PROVE Spec => []PoolFits
  OBVIOUS
<1>1. PoolIInv => PoolFits
  BY BuiltFits DEF PoolIInv, Configs, PoolFits, Fits
<1> QED
  BY <1>1, PoolInit, PoolStep, PTL DEF Spec
=============================================================================
