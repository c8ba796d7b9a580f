-------------------------- MODULE Provider_proofs --------------------------
(***************************************************************************)
(* What the database provider keeps for any set of units and relations:    *)
(* credentials work while their relation lives, and end with it.           *)
(*                                                                         *)
(* The first part is about RelationData: where a write puts a field, and   *)
(* what is read afterwards.  The second part is the invariant, and the     *)
(* third one has a lemma for each operation.                               *)
(***************************************************************************)
EXTENDS Provider, TLAPS

\* The data of a relation is a record of three databags
Shape(x) == DOMAIN x = {"client", "mine", "secret"}

\* A client that asked for secrets: its credentials are in the secret, or nowhere
Hidden(x) ==
  /\ Shape(x)
  /\ RequestedSecrets(x) = UserFields
  /\ UserFields \cap DOMAIN x.mine = {}
  /\ DOMAIN x.secret \in {{}, UserFields}

\* A client that asked for none
Clear(x) == Shape(x) /\ RequestedSecrets(x) = {}

\* What is written beside the credentials
OtherFields == {"data", "database", "version", "endpoints", "read-only-endpoints"}

\* A write that keeps the client part and the place of the credentials
Keeps(x, y) ==
  /\ y.client = x.client
  /\ Hidden(x) => Hidden(y)
  /\ Clear(x) => Clear(y)

\* An entry has one key
LEMMA EntryIs ==
  ASSUME NEW k, NEW v PROVE DOMAIN Entry(k, v) = {k} /\ Entry(k, v)[k] = v
  BY DEF Entry

\* What a databag holds after a write: no key outside of Lists is lost
LEMMA PutIs ==
  ASSUME NEW d, NEW m
  PROVE  /\ DOMAIN Put(d, m) \subseteq DOMAIN d \cup DOMAIN m
         /\ \A k : k \in DOMAIN d \cup DOMAIN m /\ k \notin Lists =>
              /\ k \in DOMAIN Put(d, m)
              /\ k \in DOMAIN d => Put(d, m)[k] = d[k]
              /\ k \notin DOMAIN d => Put(d, m)[k] = m[k]
  BY DEF Put

\* The same for one entry
LEMMA PutEntryIs ==
  ASSUME NEW key, NEW v, NEW m
  PROVE  /\ key \in DOMAIN Put(Entry(key, v), m) <=> ~(key \in Lists /\ v = {})
         /\ ~(key \in Lists /\ v = {}) => Put(Entry(key, v), m)[key] = v
         /\ \A k : k # key =>
              /\ k \in DOMAIN Put(Entry(key, v), m) <=> k \in DOMAIN m
              /\ k \in DOMAIN m => Put(Entry(key, v), m)[k] = m[k]
<1> DEFINE d == Entry(key, v)
<1>1. DOMAIN d = {key} /\ d[key] = v
  BY EntryIs
<1> HIDE DEF d
<1>2. /\ key \in DOMAIN Put(d, m) <=> ~(key \in Lists /\ v = {})
      /\ ~(key \in Lists /\ v = {}) => Put(d, m)[key] = v
      /\ \A k : k # key =>
           /\ k \in DOMAIN Put(d, m) <=> k \in DOMAIN m
           /\ k \in DOMAIN m => Put(d, m)[k] = m[k]
  BY <1>1 DEF Put
<1> QED
  BY <1>2 DEF d

\* A restriction has the domain and the values it is given
LEMMA RestrictIs ==
  ASSUME NEW f, NEW S
  PROVE  DOMAIN Restrict(f, S) = S /\ \A k \in S : Restrict(f, S)[k] = f[k]
  BY DEF Restrict

\* The parts of the data after a write to the databag
LEMMA UpdateDatabagIs ==
  ASSUME NEW x, Shape(x), NEW d
  PROVE  /\ Shape(UpdateDatabag(x, d))
         /\ UpdateDatabag(x, d).client = x.client
         /\ UpdateDatabag(x, d).secret = x.secret
         /\ UpdateDatabag(x, d).mine = Put(d, x.mine)
  BY DEF Shape, UpdateDatabag

\* The parts of the data after a secret was added
LEMMA AddSecretIs ==
  ASSUME NEW x, Shape(x), NEW f, NEW d
  PROVE  /\ Shape(AddSecret(x, f, d))
         /\ AddSecret(x, f, d).client = x.client
         /\ AddSecret(x, f, d).secret = Restrict(d, f \cap DOMAIN d)
         /\ AddSecret(x, f, d).mine = Put(Entry("secret-user", "uri"), x.mine)
  BY DEF Shape, AddSecret, ContentForGroup

\* The parts of the data after a secret was updated
LEMMA UpdateSecretIs ==
  ASSUME NEW x, Shape(x), NEW f, NEW d
  PROVE  /\ Shape(UpdateSecret(x, f, d))
         /\ UpdateSecret(x, f, d).client = x.client
         /\ UpdateSecret(x, f, d).secret = Put(Restrict(d, f \cap DOMAIN d), x.secret)
         /\ UpdateSecret(x, f, d).mine = x.mine
  BY DEF Shape, UpdateSecret, ContentForGroup

\* With secrets, the password is read from the secret
LEMMA FetchHidden ==
  ASSUME NEW x, Hidden(x)
  PROVE  Fetch(x, "password") =
           IF HasSecret(x) /\ "password" \in DOMAIN x.secret
             THEN x.secret["password"] ELSE None
<1>1. SecretFields(x, {"password"}) = {"password"}
  BY DEF SecretFields, FallsBack, Hidden, UserFields
<1>2. Get(x.mine, "password") = None
  BY DEF Get, Hidden, UserFields
<1> DEFINE c == SecretContents(x, {"password"})
<1>3. CASE HasSecret(x) /\ "password" \in DOMAIN x.secret
  <2>1. c = Restrict(x.secret, {"password"} \cap DOMAIN x.secret)
    BY <1>3 DEF SecretContents
  <2>2. "password" \in {"password"} \cap DOMAIN x.secret
    BY <1>3
  <2>3. "password" \in DOMAIN c /\ c["password"] = x.secret["password"]
    BY <2>1, <2>2, RestrictIs
  <2> QED
    BY <1>1, <1>3, <2>3 DEF Fetch
<1>4. CASE ~(HasSecret(x) /\ "password" \in DOMAIN x.secret)
  <2>1. "password" \notin DOMAIN c
    <3>1. CASE HasSecret(x)
      <4>1. c = Restrict(x.secret, {"password"} \cap DOMAIN x.secret)
        BY <3>1 DEF SecretContents
      <4> QED
        BY <4>1, <3>1, <1>4, RestrictIs
    <3>2. CASE ~HasSecret(x)
      <4>1. c = Empty
        BY <3>2 DEF SecretContents
      <4>2. DOMAIN Empty = {}
        BY DEF Empty
      <4> QED
        BY <4>1, <4>2
    <3> QED
      BY <3>1, <3>2
  <2> QED
    BY <1>1, <1>2, <1>4, <2>1 DEF Fetch
<1> QED
  BY <1>3, <1>4

\* Without secrets, the password is read from the databag
LEMMA FetchClear ==
  ASSUME NEW x, Clear(x)
  PROVE  Fetch(x, "password") = Get(x.mine, "password")
<1>1. SecretFields(x, {"password"}) = {}
  BY DEF SecretFields, Clear
<1> DEFINE c == SecretContents(x, {})
<1>2. DOMAIN c = {}
  <2>1. CASE HasSecret(x)
    <3>1. c = Restrict(x.secret, {} \cap DOMAIN x.secret)
      BY <2>1 DEF SecretContents
    <3> QED
      BY <3>1, RestrictIs
  <2>2. CASE ~HasSecret(x)
    <3>1. c = Empty
      BY <2>2 DEF SecretContents
    <3>2. DOMAIN Empty = {}
      BY DEF Empty
    <3> QED
      BY <3>1, <3>2
  <2> QED
    BY <2>1, <2>2
<1> QED
  BY <1>1, <1>2 DEF Fetch

\* Another field than those of the user leaves the credentials alone
LEMMA OtherFieldKeeps ==
  ASSUME NEW x, Hidden(x) \/ Clear(x), NEW k \in OtherFields, NEW v,
         NEW y, Shape(y), y.client = x.client, y.secret = x.secret,
         y.mine = Put(Entry(k, v), x.mine)
  PROVE  Keeps(x, y) /\ Fetch(y, "password") = Fetch(x, "password")
<1>1. RequestedSecrets(y) = RequestedSecrets(x)
  BY DEF RequestedSecrets
<1>2. DOMAIN y.mine \subseteq DOMAIN x.mine \cup {k}
  BY PutEntryIs
<1>3. k \notin UserFields /\ k # "secret-user" /\ k # "password"
  BY DEF OtherFields, UserFields
<1>4. \A j \in {"secret-user", "password"} : j \notin Lists
  BY DEF Lists
<1>5. \A j \in {"secret-user", "password"} :
        /\ j \in DOMAIN y.mine <=> j \in DOMAIN x.mine
        /\ j \in DOMAIN x.mine => y.mine[j] = x.mine[j]
  BY <1>2, <1>3, <1>4, PutEntryIs
<1>6. Keeps(x, y)
  BY <1>1, <1>2, <1>3 DEF Keeps, Hidden, Clear
<1>7. HasSecret(y) <=> HasSecret(x)
  BY <1>5 DEF HasSecret
<1>8. Get(y.mine, "password") = Get(x.mine, "password")
  BY <1>5 DEF Get
<1>9. CASE Hidden(x)
  BY <1>6, <1>7, <1>9, FetchHidden DEF Keeps
<1>10. CASE Clear(x)
  BY <1>6, <1>8, <1>10, FetchClear DEF Keeps
<1> QED
  BY <1>6, <1>9, <1>10

\* So does an update of such a field
LEMMA UpdateKeeps ==
  ASSUME NEW x, Hidden(x) \/ Clear(x), NEW k \in OtherFields, NEW v
  PROVE  /\ Keeps(x, Update(x, Entry(k, v)))
         /\ Fetch(Update(x, Entry(k, v)), "password") = Fetch(x, "password")
<1>1. k \notin RequestedSecrets(x) /\ Shape(x)
  BY DEF OtherFields, UserFields, Hidden, Clear
<1>2. SecretFields(x, DOMAIN Entry(k, v)) = {}
  <2>1. DOMAIN Entry(k, v) = {k}
    BY EntryIs
  <2>2. SecretFields(x, {k}) = {}
    BY <1>1 DEF SecretFields
  <2> QED
    BY <2>1, <2>2
<1>3. Update(x, Entry(k, v)) = UpdateDatabag(x, Entry(k, v))
  BY <1>2 DEF Update
<1> QED
  BY <1>1, <1>3, UpdateDatabagIs, OtherFieldKeeps

\* So does the record of what the client wrote
LEMMA RecordKeeps ==
  ASSUME NEW x, Hidden(x) \/ Clear(x)
  PROVE  /\ Keeps(x, Record(x))
         /\ Fetch(Record(x), "password") = Fetch(x, "password")
<1> DEFINE y == Record(x)
<1>1. Shape(x)
  BY DEF Hidden, Clear
<1>2. /\ Shape(y) /\ y.client = x.client /\ y.secret = x.secret
      /\ y.mine = Put(Entry("data", x.client), x.mine)
  BY <1>1 DEF Shape, Record
<1>3. "data" \in OtherFields
  BY DEF OtherFields
<1> QED
  BY <1>2, <1>3, OtherFieldKeeps

\* Credentials that are set go where they belong, and are read again
LEMMA CredentialsKept ==
  ASSUME NEW x, Hidden(x) \/ Clear(x), NEW n, NEW p
  PROVE  /\ Keeps(x, SetCredentials(x, n, p))
         /\ Fetch(SetCredentials(x, n, p), "password") = p
<1> DEFINE d == Put(Entry("username", n), Entry("password", p))
           y == SetCredentials(x, n, p)
<1>1. Shape(x)
  BY DEF Hidden, Clear
<1>2. DOMAIN d = UserFields /\ d["password"] = p
  <2> DEFINE e == Entry("password", p)
  <2>1. DOMAIN e = {"password"} /\ e["password"] = p
    BY EntryIs
  <2>2. {"username", "password"} \cap Lists = {}
    BY DEF Lists
  <2> HIDE DEF e
  <2>3. LET c == Put(Entry("username", n), e)
        IN  /\ DOMAIN c \subseteq {"username", "password"}
            /\ "username" \in DOMAIN c /\ "password" \in DOMAIN c
            /\ c["password"] = p
    BY <2>1, <2>2, PutEntryIs
  <2> QED
    BY <2>3 DEF e, UserFields
<1>3. y = Update(x, d)
  BY DEF SetCredentials
<1> HIDE DEF d
<1>4. CASE Hidden(x)
  <2>1. SecretFields(x, DOMAIN d) = UserFields
    BY <1>2, <1>4 DEF SecretFields, FallsBack, Hidden
  <2>2. UserFields # {} /\ UserFields \cap UserFields = UserFields /\ "password" \in UserFields
    BY DEF UserFields
  <2>3. y = UpdateDatabag(AddOrUpdateSecret(x, UserFields, d), Without(d, UserFields))
    BY <1>3, <2>1, <2>2 DEF Update
  <2> DEFINE z == AddOrUpdateSecret(x, UserFields, d)
             e == Without(d, UserFields)
  <2>4. DOMAIN e = {}
    BY <1>2, RestrictIs DEF Without
  <2>5. UserFields \cap {"secret-user"} = {} /\ "secret-user" \notin Lists /\ "password" \notin Lists
    BY DEF UserFields, Lists
  <2>6. DOMAIN Restrict(d, UserFields) = UserFields /\ Restrict(d, UserFields)["password"] = p
    BY <1>2, <2>2, RestrictIs
  <2>7. /\ Shape(z) /\ z.client = x.client
        /\ DOMAIN z.secret = UserFields /\ z.secret["password"] = p
        /\ DOMAIN z.mine \subseteq DOMAIN x.mine \cup {"secret-user"}
        /\ "secret-user" \in DOMAIN z.mine
    <3>1. CASE HasSecret(x)
      <4>1. z = UpdateSecret(x, UserFields, d)
        BY <3>1 DEF AddOrUpdateSecret
      <4>2. z.secret = Put(Restrict(d, UserFields), x.secret) /\ z.mine = x.mine
        BY <4>1, <1>1, <1>2, <2>2, UpdateSecretIs
      <4>3. DOMAIN x.secret \subseteq UserFields
        BY <1>4 DEF Hidden
      <4>4. UserFields \cap Lists = {}
        BY DEF UserFields, Lists
      <4>5. DOMAIN z.secret = UserFields /\ z.secret["password"] = p
        BY <4>2, <4>3, <4>4, <2>2, <2>6, PutIs
      <4> QED
        BY <4>1, <4>2, <4>5, <3>1, <1>1, UpdateSecretIs DEF HasSecret
    <3>2. CASE ~HasSecret(x)
      <4>1. z = AddSecret(x, UserFields, d)
        BY <3>2 DEF AddOrUpdateSecret
      <4>2. /\ z.secret = Restrict(d, UserFields)
            /\ z.mine = Put(Entry("secret-user", "uri"), x.mine)
        BY <4>1, <1>1, <1>2, <2>2, AddSecretIs
      <4>3. /\ DOMAIN z.mine \subseteq DOMAIN x.mine \cup {"secret-user"}
            /\ "secret-user" \in DOMAIN z.mine
        BY <4>2, <2>5, PutEntryIs
      <4>4. Shape(z) /\ z.client = x.client
        <5>1. /\ Shape(AddSecret(x, UserFields, d))
              /\ AddSecret(x, UserFields, d).client = x.client
          BY <1>1, AddSecretIs
        <5> QED
          BY <4>1, <5>1
      <4>5. DOMAIN z.secret = UserFields /\ z.secret["password"] = p
        BY <4>2, <2>6
      <4> QED
        BY <4>3, <4>4, <4>5
    <3> QED
      BY <3>1, <3>2
  <2> HIDE DEF z, e
  <2>8. y = UpdateDatabag(z, e)
    BY <2>3 DEF z, e
  <2>9. /\ Shape(y) /\ y.client = x.client /\ y.secret = z.secret
        /\ y.mine = Put(e, z.mine)
    BY <2>7, <2>8, UpdateDatabagIs
  <2>10. /\ DOMAIN y.mine \subseteq DOMAIN x.mine \cup {"secret-user"}
         /\ HasSecret(y)
    BY <2>4, <2>5, <2>7, <2>9, PutIs DEF HasSecret
  <2>11. RequestedSecrets(y) = RequestedSecrets(x)
    BY <2>9 DEF RequestedSecrets
  <2>12. Hidden(y)
    BY <1>4, <2>5, <2>7, <2>9, <2>10, <2>11 DEF Hidden
  <2>13. Fetch(y, "password") = p
    BY <2>2, <2>7, <2>9, <2>10, <2>12, FetchHidden
  <2>14. ~Clear(x)
    BY <1>4, <2>2 DEF Hidden, Clear
  <2> QED
    BY <2>9, <2>12, <2>13, <2>14 DEF Keeps
<1>5. CASE Clear(x)
  <2>1. SecretFields(x, DOMAIN d) = {}
    BY <1>5 DEF SecretFields, Clear
  <2>2. y = UpdateDatabag(x, d)
    BY <1>3, <2>1 DEF Update
  <2>3. Shape(y) /\ y.client = x.client /\ y.mine = Put(d, x.mine)
    BY <1>1, <2>2, UpdateDatabagIs
  <2>4. "password" \in UserFields /\ "password" \notin Lists
    BY DEF UserFields, Lists
  <2>5. "password" \in DOMAIN y.mine /\ y.mine["password"] = p
    BY <1>2, <2>3, <2>4, PutIs
  <2>6. Clear(y)
    BY <1>5, <2>3 DEF Clear, RequestedSecrets
  <2>7. Fetch(y, "password") = p
    BY <2>5, <2>6, FetchClear DEF Get
  <2>8. ~Hidden(x)
    BY <1>5, <2>4 DEF Hidden, Clear
  <2> QED
    BY <2>3, <2>6, <2>7, <2>8 DEF Keeps
<1> QED
  BY <1>4, <1>5
-----------------------------------------------------------------------------
(* The invariant *)

\* The data x of the relation r is as its client asked
Asked(r, x) == IF r \in setup.old THEN Clear(x) ELSE Hidden(x)

\* The password in x, if any, is that of the user of r, who has a database
Works(r, x) ==
  Fetch(x, "password") # None =>
    users[r] = Fetch(x, "password") /\ r \in Routers \cup dbs

\* The fields of a hook
HookFields == {"stage", "from", "rel", "work", "view"}
\* How far a unit may have come in leaving a relation
Steps == {"no", "own", "remote", "broken", "done"}
\* The life of a relation
Lives == {"none", "up", "dying"}

\* The types of the variables, as far as they are needed
Types ==
  /\ alive \subseteq Units /\ leader \in alive
  /\ rel \in [Relations -> Lives]
  /\ leaving \in [Units -> [Relations -> Steps]]
  /\ changed \in [Units -> SUBSET Relations]
  /\ deferred \in [Units -> SUBSET Relations]
  /\ DOMAIN users = Relations
  /\ DOMAIN bag = Relations
  /\ DOMAIN hook = Units

\* Nothing has been written, and no event is pending, for a relation that is not there
Unasked(r) ==
  /\ DOMAIN bag[r].mine = {} /\ DOMAIN bag[r].secret = {}
  /\ \A u \in Units : r \notin changed[u] /\ r \notin deferred[u]

\* What holds of the data of a relation
GoodBag(r) ==
  /\ Shape(bag[r])
  /\ rel[r] = "none" => Unasked(r)
  /\ rel[r] # "none" => Asked(r, bag[r])
  /\ rel[r] = "up" => Works(r, bag[r])

\* A unit that works for r leads and sees the relation, unless that was disturbed
InCharge(u, r) ==
  u \in alive =>
    <<"removal", r>> \in excused \/ (u = leader /\ leaving[u][r] # "done")

\* The events in which a request is answered
Requests == {"changed", "deferred"}

\* What holds of the hook h of the unit u: what it has written so far, and will commit, is as
\* good as what has been committed
GoodHook(u, h) ==
  /\ DOMAIN h = HookFields
  /\ h.from \in Requests <=> h.rel \in Relations
  /\ h.stage = "idle" => h.rel \notin Relations
  /\ h.stage \in {"database", "user", "version", "endpoints"} => h.rel \in Relations
  /\ h.stage = "labels" => h.from \in {"status", "healing"} \cup Requests
  /\ h.rel \in Relations =>
       /\ rel[h.rel] # "none"
       /\ Asked(h.rel, h.work)
       /\ h.work.client = bag[h.rel].client
       /\ rel[h.rel] = "up" => Works(h.rel, h.work)
       /\ h.stage # "database" => h.rel \in Routers \cup dbs
       /\ InCharge(u, h.rel)

\* A relation that lives is left only by a unit that is being removed, which has noted so
\* before relation-broken comes
GoodLeave(u, r) ==
  rel[r] # "dying" =>
    /\ leaving[u][r] # "remote"
    /\ leaving[u][r] = "broken" => u \in removing
    /\ u \in alive /\ leaving[u][r] # "no" => u \in tearing

\* Once the leader has seen the end of a relation, nothing of it is left
Tidy(r) ==
  (rel[r] = "dying" /\ leaving[leader][r] = "done" /\ <<"removal", r>> \notin excused) =>
    users[r] = None /\ r \notin accounts

\* The inductive invariant.  GoodHook is needed because hooks commit at their end what they
\* read at their start; Tidy speaks of the leader, because a unit that goes may be the last
\* one for which the relation had to end.
IInv ==
  /\ Types
  /\ \A r \in Relations : GoodBag(r)
  /\ \A u \in Units : GoodHook(u, hook[u])
  /\ \A u \in Units, r \in Relations : GoodLeave(u, r)
  /\ \A r \in Relations : Tidy(r)

\* What no step does to a relation: it does not come back, its client does not ask again,
\* and its user, once created, stays while it lives
Gentle(r) ==
  /\ rel'[r] = rel[r] \/ (rel[r] = "up" /\ rel'[r] = "dying")
  /\ bag'[r].client = bag[r].client
  /\ rel'[r] = "up" /\ users[r] # None => users'[r] = users[r]
  /\ dbs \subseteq dbs'
  /\ setup' = setup

-----------------------------------------------------------------------------
(* Steps in general *)

\* Asked depends on the deployment only
LEMMA AskedSame ==
  ASSUME NEW r, NEW x, setup' = setup
  PROVE  Asked(r, x)' <=> Asked(r, x)
  BY DEF Asked, Clear, Hidden, Shape, RequestedSecrets

\* Credentials that work go on working
LEMMA WorksSame ==
  ASSUME NEW r \in Relations, NEW x, Works(r, x), Gentle(r), rel'[r] = "up"
  PROVE  Works(r, x)'
<1> PICK p : p = Fetch(x, "password")
  OBVIOUS
<1>1. Fetch(x, "password")' = p
  BY DEF Fetch, SecretContents, SecretFields, FallsBack, RequestedSecrets, HasSecret, Get
<1>2. p # None => users[r] = p /\ r \in Routers \cup dbs
  BY DEF Works
<1>3. p # None => users'[r] = p /\ r \in (Routers \cup dbs)'
  BY <1>2 DEF Gentle, Routers
<1> QED
  BY <1>1, <1>3 DEF Works

\* A hook stays good
LEMMA HookStays ==
  ASSUME NEW u \in Units, NEW h, GoodHook(u, h),
         h.rel \in Relations => Gentle(h.rel) /\ InCharge(u, h.rel)'
  PROVE  GoodHook(u, h)'
<1>1. /\ DOMAIN h = HookFields
      /\ h.from \in Requests <=> h.rel \in Relations
      /\ h.stage = "idle" => h.rel \notin Relations
      /\ h.stage \in {"database", "user", "version", "endpoints"} => h.rel \in Relations
      /\ h.stage = "labels" => h.from \in {"status", "healing"} \cup Requests
  BY DEF GoodHook
<1>2. ASSUME h.rel \in Relations
      PROVE  /\ rel'[h.rel] # "none"
             /\ Asked(h.rel, h.work)'
             /\ h.work.client = bag'[h.rel].client
             /\ rel'[h.rel] = "up" => Works(h.rel, h.work)'
             /\ h.stage # "database" => h.rel \in (Routers \cup dbs)'
             /\ InCharge(u, h.rel)'
  <2> PICK r \in Relations : r = h.rel
    BY <1>2
  <2>1. /\ rel[r] # "none" /\ Asked(r, h.work) /\ h.work.client = bag[r].client
        /\ rel[r] = "up" => Works(r, h.work)
        /\ h.stage # "database" => r \in Routers \cup dbs
    BY <1>2 DEF GoodHook
  <2>2. Gentle(r) /\ InCharge(u, r)'
    BY <1>2
  <2>3. Asked(r, h.work)'
    BY <2>1, <2>2, AskedSame DEF Gentle
  <2>4. rel'[r] = "up" => Works(r, h.work)'
    BY <2>1, <2>2, WorksSame DEF Gentle
  <2>5. h.stage # "database" => r \in (Routers \cup dbs)'
    BY <2>1, <2>2 DEF Gentle, Routers
  <2>6. rel'[r] # "none" /\ h.work.client = bag'[r].client
    BY <2>1, <2>2 DEF Gentle
  <2> QED
    BY <2>2, <2>3, <2>4, <2>5, <2>6
<1> QED
  BY <1>1, <1>2 DEF GoodHook

\* Data that is not written stays good
LEMMA BagStays ==
  ASSUME IInv, NEW r \in Relations, bag'[r] = bag[r], Gentle(r),
         rel'[r] = "none" => \A u \in Units : r \notin changed'[u] /\ r \notin deferred'[u]
  PROVE  GoodBag(r)'
<1> PICK x : x = bag[r]
  OBVIOUS
<1>1. /\ Shape(x)
      /\ rel[r] = "none" => DOMAIN x.mine = {} /\ DOMAIN x.secret = {}
      /\ rel[r] # "none" => Asked(r, x)
      /\ rel[r] = "up" => Works(r, x)
  BY DEF IInv, GoodBag, Unasked
<1>2. rel'[r] # "none" => Asked(r, x)'
  BY <1>1, AskedSame DEF Gentle
<1>3. rel'[r] = "up" => Works(r, x)'
  BY <1>1, WorksSame DEF Gentle
<1>4. rel'[r] = "none" => DOMAIN x.mine = {} /\ DOMAIN x.secret = {}
  BY <1>1 DEF Gentle
<1> QED
  BY <1>1, <1>2, <1>3, <1>4 DEF GoodBag, Unasked, Shape

\* A step that leaves alone what the invariant is about
LEMMA QuietKeeps ==
  ASSUME IInv,
         UNCHANGED <<setup, leader, alive, tearing, removing, rel, leaving, bag, changed,
                     deferred, hook, dbs, users, accounts, excused>>
  PROVE  IInv'
<1>1. Types'
  BY DEF IInv, Types
<1>2. \A r \in Relations : GoodBag(r)'
  <2> TAKE r \in Relations
  <2> QED
    BY BagStays DEF IInv, GoodBag, Unasked, Gentle
<1>3. \A u \in Units : GoodHook(u, hook[u])'
  <2> TAKE u \in Units
  <2> PICK h : h = hook[u]
    OBVIOUS
  <2>1. GoodHook(u, h)
    BY DEF IInv
  <2>2. h.rel \in Relations => Gentle(h.rel) /\ InCharge(u, h.rel)'
    BY <2>1 DEF GoodHook, InCharge, Gentle
  <2>3. GoodHook(u, h)'
    BY <2>1, <2>2, HookStays
  <2> QED
    BY <2>3 DEF GoodHook
<1>4. /\ \A u \in Units, r \in Relations : GoodLeave(u, r)'
      /\ \A r \in Relations : Tidy(r)'
  BY DEF IInv, GoodLeave, Tidy
<1> QED
  BY <1>1, <1>2, <1>3, <1>4 DEF IInv

\* A step that changes neither data nor hooks
LEMMA OuterKeeps ==
  ASSUME IInv, Types', UNCHANGED <<bag, hook>>,
         \A r \in Relations : Gentle(r),
         \A u \in Units : changed'[u] \subseteq changed[u] /\ deferred'[u] \subseteq deferred[u],
         \A u \in Units : hook[u].rel \in Relations => InCharge(u, hook[u].rel)',
         \A u \in Units, r \in Relations : GoodLeave(u, r)',
         \A r \in Relations : Tidy(r)'
  PROVE  IInv'
<1>2. \A r \in Relations : GoodBag(r)'
  <2> TAKE r \in Relations
  <2> QED
    BY BagStays DEF IInv, GoodBag, Unasked, Gentle
<1>3. \A u \in Units : GoodHook(u, hook[u])'
  <2> TAKE u \in Units
  <2> PICK h : h = hook[u]
    OBVIOUS
  <2>1. GoodHook(u, h)
    BY DEF IInv
  <2>2. h.rel \in Relations => Gentle(h.rel) /\ InCharge(u, h.rel)'
    OBVIOUS
  <2>3. GoodHook(u, h)'
    BY <2>1, <2>2, HookStays
  <2> QED
    BY <2>3 DEF GoodHook
<1> QED
  BY <1>2, <1>3 DEF IInv

\* A step of the hook of one unit
LEMMA HookKeeps ==
  ASSUME IInv, NEW u \in Units, NEW h,
         UNCHANGED <<setup, leader, alive, tearing, removing, rel, leaving, accounts>>,
         changed' \in [Units -> SUBSET Relations], deferred' \in [Units -> SUBSET Relations],
         DOMAIN users' = Relations, DOMAIN bag' = Relations,
         DOMAIN hook' = Units, hook'[u] = h, GoodHook(u, h)',
         \A v \in Units \ {u} : hook'[v] = hook[v],
         \A r \in Relations : Gentle(r) /\ GoodBag(r)',
         \A r \in Relations : users'[r] = users[r] \/ (u \in alive /\ hook[u].rel = r),
         excused \subseteq excused'
  PROVE  IInv'
<1>1. Types'
  BY DEF IInv, Types
<1>3. ASSUME NEW v \in Units PROVE GoodHook(v, hook[v])'
  <2>1. CASE v = u
    BY <2>1 DEF GoodHook
  <2>2. CASE v # u
    <3> PICK k : k = hook[v]
      OBVIOUS
    <3>1. GoodHook(v, k) /\ hook'[v] = k
      BY <2>2 DEF IInv
    <3>2. k.rel \in Relations => Gentle(k.rel) /\ InCharge(v, k.rel)'
      BY <3>1 DEF GoodHook, InCharge
    <3>3. GoodHook(v, k)'
      BY <3>1, <3>2, HookStays
    <3> QED
      BY <3>1, <3>3 DEF GoodHook
  <2> QED
    BY <2>1, <2>2
<1>4. \A v \in Units, r \in Relations : GoodLeave(v, r)'
  BY DEF IInv, GoodLeave
<1>5. ASSUME NEW r \in Relations PROVE Tidy(r)'
  <2>1. Tidy(r) /\ GoodHook(u, hook[u])
    BY DEF IInv
  <2>2. CASE users'[r] = users[r]
    BY <2>1, <2>2 DEF Tidy
  <2>3. CASE u \in alive /\ hook[u].rel = r
    <3>1. InCharge(u, r)
      BY <2>1, <2>3 DEF GoodHook
    <3> QED
      BY <2>3, <3>1 DEF Tidy, InCharge
  <2> QED
    BY <2>2, <2>3
<1> QED
  BY <1>1, <1>3, <1>4, <1>5 DEF IInv

\* A unit without a hook
LEMMA IdleIsGood ==
  ASSUME NEW u PROVE GoodHook(u, Idle)
<1>1. /\ DOMAIN Idle = HookFields /\ Idle.stage = "idle" /\ Idle.rel = None
      /\ Idle.from = "none"
  BY DEF Idle, HookFields
<1>2. None \notin Relations
  BY ProviderAssumption
<1> QED
  BY <1>1, <1>2 DEF GoodHook, Requests

-----------------------------------------------------------------------------
(* The operations *)

\* The initial states satisfy the invariant
LEMMA InitIInv == Init => IInv
<1> SUFFICES ASSUME Init PROVE IInv
  OBVIOUS
<1>1. Types
  BY DEF Init, Types, Lives, Steps
<1>2. DOMAIN Empty = {}
  BY DEF Empty
<1>3. ASSUME NEW r \in Relations PROVE GoodBag(r)
  <2>1. bag[r] = Fresh /\ rel[r] = "none"
    BY DEF Init
  <2>2. Shape(Fresh) /\ Fresh.mine = Empty /\ Fresh.secret = Empty
    BY DEF Shape, Fresh
  <2>3. \A u \in Units : r \notin changed[u] /\ r \notin deferred[u]
    BY DEF Init
  <2> QED
    BY <1>2, <2>1, <2>2, <2>3 DEF GoodBag, Unasked
<1>4. ASSUME NEW u \in Units PROVE GoodHook(u, hook[u])
  <2>1. hook[u] = Idle
    BY DEF Init
  <2> QED
    BY <2>1, IdleIsGood
<1>5. /\ \A u \in Units, r \in Relations : GoodLeave(u, r)
      /\ \A r \in Relations : Tidy(r)
  BY DEF Init, GoodLeave, Tidy
<1> QED
  BY <1>1, <1>3, <1>4, <1>5 DEF IInv

\* The topology changes, a client reads its data, or nothing happens
LEMMA TopologyIInv ==
  ASSUME IInv,
         \/ \E u \in Units : MemberLost(u) \/ MemberReturns(u) \/ PromoteInstance(u)
         \/ \E r \in Relations : ClientChanged(r)
         \/ UNCHANGED vars
  PROVE  IInv'
<1>1. UNCHANGED <<setup, leader, alive, tearing, removing, rel, leaving, bag, changed,
                  deferred, hook, dbs, users, accounts, excused>>
  BY DEF MemberLost, MemberReturns, PromoteInstance, ClientChanged, vars, units, relations, mysql
<1> QED
  BY <1>1, QuietKeeps

\* A router creates its account
LEMMA RouterIInv ==
  ASSUME IInv, NEW r \in Relations, RouterBootstraps(r)
  PROVE  IInv'
<1>1. /\ UNCHANGED <<setup, leader, alive, tearing, removing, rel, leaving, bag, changed,
                      deferred, hook, dbs, users, excused>>
      /\ accounts' = accounts \cup {r} /\ rel[r] = "up"
  BY DEF RouterBootstraps, units, relations
<1>2. Types' /\ \A s \in Relations : Gentle(s)
  BY <1>1 DEF IInv, Types, Gentle
<1>3. \A u \in Units : hook[u].rel \in Relations => InCharge(u, hook[u].rel)'
  BY <1>1 DEF IInv, GoodHook, InCharge
<1>4. /\ \A u \in Units, s \in Relations : GoodLeave(u, s)'
      /\ \A s \in Relations : Tidy(s)'
  BY <1>1 DEF IInv, GoodLeave, Tidy
<1> QED
  BY <1>1, <1>2, <1>3, <1>4, OuterKeeps

\* The leadership moves
LEMMA LeaderIInv ==
  ASSUME IInv, NEW u \in Units, LeadershipMoves(u)
  PROVE  IInv'
<1>1. /\ UNCHANGED <<setup, alive, tearing, removing, rel, leaving, bag, changed,
                      deferred, hook, dbs, users, accounts>>
      /\ leader' = u /\ u \in alive /\ excused' = excused \cup UnderWay
  BY DEF LeadershipMoves, relations, mysql
<1>2. Types' /\ \A s \in Relations : Gentle(s)
  BY <1>1 DEF IInv, Types, Gentle
<1>3. ASSUME NEW v \in Units, hook[v].rel \in Relations
      PROVE  InCharge(v, hook[v].rel)'
  <2>1. hook[v].stage # "idle"
    BY <1>3, ProviderAssumption DEF IInv, GoodHook
  <2>2. v \in alive => <<"removal", hook[v].rel>> \in UnderWay
    BY <1>3, <2>1 DEF UnderWay
  <2> QED
    BY <1>1, <2>2 DEF InCharge
<1>4. \A v \in Units, s \in Relations : GoodLeave(v, s)'
  BY <1>1 DEF IInv, GoodLeave
<1>5. ASSUME NEW s \in Relations PROVE Tidy(s)'
  <2>1. rel[s] = "dying" /\ ~Ended(s) => <<"removal", s>> \in UnderWay
    BY DEF UnderWay
  <2>2. Ended(s) => leaving[leader][s] = "done"
    BY DEF Ended, IInv, Types
  <2> QED
    BY <1>1, <2>1, <2>2 DEF IInv, Tidy
<1> QED
  BY <1>1, <1>2, <1>3, <1>4, <1>5, OuterKeeps

\* A relation is removed
LEMMA RemovedIInv ==
  ASSUME IInv, NEW r \in Relations, RelationRemoved(r)
  PROVE  IInv'
<1>1. /\ UNCHANGED <<setup, leader, alive, tearing, removing, bag, changed,
                      deferred, hook, dbs, users, accounts>>
      /\ rel[r] = "up" /\ rel' = [rel EXCEPT ![r] = "dying"]
      /\ leaving' = [u \in Units |->
           IF u \in alive /\ leaving[u][r] = "no" THEN [leaving[u] EXCEPT ![r] = "remote"]
           ELSE leaving[u]]
      /\ excused' = IF leader \in tearing THEN excused \cup {<<"removal", r>>} ELSE excused
  BY DEF RelationRemoved, units, mysql
<1>2. leaving' \in [Units -> [Relations -> Steps]]
  BY <1>1 DEF IInv, Types, Steps
<1>3. \A v \in Units, s \in Relations :
        /\ leaving'[v][s] = "done" <=> leaving[v][s] = "done"
        /\ s # r => leaving'[v][s] = leaving[v][s]
  BY <1>1 DEF IInv, Types
<1>4. Types' /\ \A s \in Relations : Gentle(s)
  BY <1>1, <1>2 DEF IInv, Types, Gentle, Lives
<1>5. \A u \in Units : hook[u].rel \in Relations => InCharge(u, hook[u].rel)'
  BY <1>1, <1>3 DEF IInv, GoodHook, InCharge
<1>6. ASSUME NEW v \in Units, NEW s \in Relations PROVE GoodLeave(v, s)'
  BY <1>1, <1>3 DEF IInv, Types, GoodLeave
<1>7. ASSUME NEW s \in Relations PROVE Tidy(s)'
  <2>1. CASE s = r
    <3>1. leaving[leader][r] = "done" => leader \in tearing
      BY <1>1 DEF IInv, Types, GoodLeave
    <3> QED
      BY <1>1, <1>3, <2>1, <3>1 DEF Tidy, IInv, Types
  <2>2. CASE s # r
    BY <1>1, <1>3, <2>2 DEF Tidy, IInv, Types
  <2> QED
    BY <2>1, <2>2
<1> QED
  BY <1>1, <1>4, <1>5, <1>6, <1>7, OuterKeeps

\* A unit is to be removed
LEMMA TearsDownIInv ==
  ASSUME IInv, NEW u \in Units, UnitTearsDown(u)
  PROVE  IInv'
<1>1. /\ UNCHANGED <<setup, leader, alive, removing, rel, bag, changed,
                      deferred, hook, dbs, users, accounts, excused>>
      /\ tearing' = tearing \cup {u}
      /\ leaving' = [leaving EXCEPT ![u] =
           [r \in Relations |-> IF rel[r] = "up" THEN "own" ELSE leaving[u][r]]]
  BY DEF UnitTearsDown, mysql
<1>2. leaving' \in [Units -> [Relations -> Steps]]
  BY <1>1 DEF IInv, Types, Steps
<1>3. \A v \in Units, s \in Relations :
        leaving'[v][s] = IF v = u /\ rel[s] = "up" THEN "own" ELSE leaving[v][s]
  BY <1>1 DEF IInv, Types
<1>4. Types' /\ \A s \in Relations : Gentle(s)
  BY <1>1, <1>2 DEF IInv, Types, Gentle
<1>5. \A v \in Units : hook[v].rel \in Relations => InCharge(v, hook[v].rel)'
  BY <1>1, <1>3 DEF IInv, GoodHook, InCharge
<1>6. ASSUME NEW v \in Units, NEW s \in Relations PROVE GoodLeave(v, s)'
  BY <1>1, <1>3 DEF IInv, Types, GoodLeave
<1>7. ASSUME NEW s \in Relations PROVE Tidy(s)'
  BY <1>1, <1>3 DEF IInv, Types, Tidy
<1> QED
  BY <1>1, <1>4, <1>5, <1>6, <1>7, OuterKeeps

\* A unit has gone
LEMMA GoneIInv ==
  ASSUME IInv, NEW u \in Units, UnitGone(u)
  PROVE  IInv'
<1>1. /\ UNCHANGED <<setup, removing, rel, leaving, bag, changed,
                      deferred, hook, dbs, users, accounts>>
      /\ alive' = alive \ {u} /\ tearing' = tearing \ {u}
      /\ IF leader = u THEN leader' \in alive \ {u} /\ excused' = excused \cup UnderWay
         ELSE leader' = leader /\ excused' = excused
  BY DEF UnitGone, relations, mysql
<1>2. Types' /\ \A s \in Relations : Gentle(s)
  BY <1>1 DEF IInv, Types, Gentle
<1>3. ASSUME NEW v \in Units, hook[v].rel \in Relations
      PROVE  InCharge(v, hook[v].rel)'
  <2>1. hook[v].stage # "idle"
    BY <1>3, ProviderAssumption DEF IInv, GoodHook
  <2>2. v \in alive => <<"removal", hook[v].rel>> \in UnderWay
    BY <1>3, <2>1 DEF UnderWay
  <2>3. InCharge(v, hook[v].rel)
    BY <1>3 DEF IInv, GoodHook
  <2> QED
    BY <1>1, <2>2, <2>3 DEF InCharge
<1>4. \A v \in Units, s \in Relations : GoodLeave(v, s)'
  BY <1>1 DEF IInv, GoodLeave
<1>5. ASSUME NEW s \in Relations PROVE Tidy(s)'
  <2>1. rel[s] = "dying" /\ ~Ended(s) => <<"removal", s>> \in UnderWay
    BY DEF UnderWay
  <2>2. Ended(s) => leaving[leader][s] = "done"
    BY DEF Ended, IInv, Types
  <2> QED
    BY <1>1, <2>1, <2>2 DEF IInv, Tidy
<1> QED
  BY <1>1, <1>2, <1>3, <1>4, <1>5, OuterKeeps

\* relation-departed
LEMMA DepartedIInv ==
  ASSUME IInv, NEW u \in Units, NEW r \in Relations, OnRelationDeparted(u, r)
  PROVE  IInv'
<1>1. /\ UNCHANGED <<setup, leader, alive, tearing, rel, bag, changed,
                      deferred, hook, dbs, users, excused>>
      /\ leaving[u][r] \in {"remote", "own"}
      /\ leaving' = [leaving EXCEPT ![u][r] = "broken"]
      /\ removing' = IF leaving[u][r] = "own" THEN removing \cup {u} ELSE removing
      /\ accounts' \subseteq accounts
  BY DEF OnRelationDeparted
<1>2. leaving' \in [Units -> [Relations -> Steps]]
  BY <1>1 DEF IInv, Types, Steps
<1>3. \A v \in Units, s \in Relations :
        leaving'[v][s] = IF v = u /\ s = r THEN "broken" ELSE leaving[v][s]
  BY <1>1 DEF IInv, Types
<1>4. Types' /\ \A s \in Relations : Gentle(s)
  BY <1>1, <1>2 DEF IInv, Types, Gentle
<1>5. \A v \in Units : hook[v].rel \in Relations => InCharge(v, hook[v].rel)'
  BY <1>1, <1>3 DEF IInv, GoodHook, InCharge
<1>6. ASSUME NEW v \in Units, NEW s \in Relations PROVE GoodLeave(v, s)'
  BY <1>1, <1>3 DEF IInv, Types, GoodLeave
<1>7. ASSUME NEW s \in Relations PROVE Tidy(s)'
  BY <1>1, <1>3 DEF IInv, Types, Tidy
<1> QED
  BY <1>1, <1>4, <1>5, <1>6, <1>7, OuterKeeps

\* relation-broken
LEMMA BrokenIInv ==
  ASSUME IInv, NEW u \in Units, NEW r \in Relations, OnRelationBroken(u, r)
  PROVE  IInv'
<1>1. /\ UNCHANGED <<setup, leader, alive, tearing, removing, rel, bag, deferred, hook, dbs>>
      /\ u \in alive /\ hook[u].stage = "idle" /\ leaving[u][r] = "broken"
      /\ leaving' = [leaving EXCEPT ![u][r] = "done"]
      /\ changed' = [changed EXCEPT ![u] = changed[u] \ {r}]
  BY DEF OnRelationBroken, units, Free
<1>2. /\ users' = users \/ (users' = [users EXCEPT ![r] = None] /\ u \notin removing)
      /\ accounts' \subseteq accounts /\ excused \subseteq excused'
      /\ (leader = u /\ rel[r] = "dying" /\ <<"removal", r>> \notin excused') =>
           users' = [users EXCEPT ![r] = None] /\ accounts' = accounts \ {r}
  BY DEF OnRelationBroken, DeleteUsers
<1>3. leaving' \in [Units -> [Relations -> Steps]]
  BY <1>1 DEF IInv, Types, Steps
<1>4. \A v \in Units, s \in Relations :
        leaving'[v][s] = IF v = u /\ s = r THEN "done" ELSE leaving[v][s]
  BY <1>1 DEF IInv, Types
<1>5. DOMAIN users' = Relations /\ \A s \in Relations : users'[s] \in {users[s], None}
  BY <1>2 DEF IInv, Types
<1>6. \A s \in Relations : users'[s] # users[s] => s = r /\ u \notin removing
  BY <1>2 DEF IInv, Types
<1>7. rel[r] # "dying" => u \in removing
  BY <1>1 DEF IInv, GoodLeave
<1>8. Types'
  BY <1>1, <1>3, <1>5 DEF IInv, Types
<1>9. \A s \in Relations : Gentle(s)
  BY <1>1, <1>2, <1>6, <1>7 DEF IInv, Types, Gentle
<1>10. \A v \in Units : changed'[v] \subseteq changed[v]
  BY <1>1 DEF IInv, Types
<1>11. ASSUME NEW v \in Units, hook[v].rel \in Relations
       PROVE  InCharge(v, hook[v].rel)'
  <2>1. v # u
    BY <1>1, <1>11, ProviderAssumption DEF IInv, GoodHook
  <2>2. InCharge(v, hook[v].rel)
    BY <1>11 DEF IInv, GoodHook
  <2> QED
    BY <1>1, <1>2, <1>4, <1>11, <2>1, <2>2 DEF InCharge
<1>12. ASSUME NEW v \in Units, NEW s \in Relations PROVE GoodLeave(v, s)'
  BY <1>1, <1>4 DEF IInv, Types, GoodLeave
<1>13. ASSUME NEW s \in Relations PROVE Tidy(s)'
  <2>1. CASE s = r /\ leader = u
    <3>1. users' = [users EXCEPT ![r] = None] => users'[r] = None
      BY DEF IInv, Types
    <3> QED
      BY <1>1, <1>2, <2>1, <3>1 DEF Tidy
  <2>2. CASE ~(s = r /\ leader = u)
    <3>1. leaving'[leader'][s] = leaving[leader][s]
      BY <1>1, <1>4, <2>2 DEF IInv, Types
    <3> QED
      BY <1>1, <1>2, <1>5, <3>1 DEF IInv, Tidy
  <2> QED
    BY <2>1, <2>2
<1> QED
  BY <1>1, <1>8, <1>9, <1>10, <1>11, <1>12, <1>13, OuterKeeps

\* The secrets that a client asks for are read from its request
LEMMA RequestIs ==
  ASSUME NEW n, NEW S, NEW roles, NEW x, x.client = Request(n, S, roles)
  PROVE  RequestedSecrets(x) = S
<1> DEFINE a == Put(Entry("extra-user-roles", roles), Empty)
           b == Put(Entry("requested-secrets", S), a)
           c == Put(Entry("database", n), b)
<1>1. "requested-secrets" \notin DOMAIN a
  <2>1. DOMAIN Empty = {}
    BY DEF Empty
  <2> QED
    BY <2>1, PutEntryIs
<1> HIDE DEF a
<1>2. /\ "requested-secrets" \in DOMAIN b => b["requested-secrets"] = S
      /\ "requested-secrets" \notin DOMAIN b => S = {}
  BY <1>1, PutEntryIs
<1> HIDE DEF b
<1>3. /\ "requested-secrets" \in DOMAIN c => c["requested-secrets"] = S
      /\ "requested-secrets" \notin DOMAIN c => S = {}
  BY <1>2, PutEntryIs
<1>4. x.client = c
  BY DEF Request, c, b, a
<1> HIDE DEF c
<1> QED
  BY <1>3, <1>4 DEF RequestedSecrets

\* A client relates
LEMMA RelatesIInv ==
  ASSUME IInv, NEW r \in Relations, ClientRelates(r)
  PROVE  IInv'
<1>1. PICK c, S, roles :
        /\ S = (IF r \in setup.old THEN {} ELSE UserFields)
        /\ c = Request("db", S, roles)
        /\ bag' = [bag EXCEPT ![r].client = c]
  BY DEF ClientRelates
<1>2. /\ UNCHANGED <<setup, leader, alive, tearing, removing, leaving, deferred, hook, dbs,
                      users, accounts, excused>>
      /\ rel[r] = "none" /\ rel' = [rel EXCEPT ![r] = "up"]
      /\ changed' = [u \in Units |->
           IF u \in alive \ tearing THEN changed[u] \cup {r} ELSE changed[u]]
  BY DEF ClientRelates, units, mysql
<1>3. Shape(bag[r]) /\ DOMAIN bag[r].mine = {} /\ DOMAIN bag[r].secret = {}
  BY <1>2 DEF IInv, GoodBag, Unasked
<1> PICK y : y = bag'[r]
  OBVIOUS
<1>4. /\ DOMAIN bag' = Relations
      /\ \A s \in Relations \ {r} : bag'[s] = bag[s]
      /\ Shape(y) /\ y.client = c /\ y.mine = bag[r].mine /\ y.secret = bag[r].secret
  <2>1. DOMAIN bag' = Relations /\ \A s \in Relations \ {r} : bag'[s] = bag[s]
    BY <1>1 DEF IInv, Types
  <2>2. y = [bag[r] EXCEPT !.client = c]
    BY <1>1 DEF IInv, Types
  <2>3. Shape(y) /\ y.client = c /\ y.mine = bag[r].mine /\ y.secret = bag[r].secret
    BY <1>3, <2>2 DEF Shape
  <2> QED
    BY <2>1, <2>3
<1>5. RequestedSecrets(y) = S
  <2>1. y.client = Request("db", S, roles)
    BY <1>1, <1>4
  <2> QED
    BY <2>1, RequestIs
<1>6. Asked(r, y)
  BY <1>1, <1>3, <1>4, <1>5 DEF Asked, Clear, Hidden
<1>7. Fetch(y, "password") = None
  <2>1. CASE Hidden(y)
    BY <2>1, <1>3, <1>4, FetchHidden
  <2>2. CASE Clear(y)
    BY <2>2, <1>3, <1>4, FetchClear DEF Get
  <2> QED
    BY <2>1, <2>2, <1>6 DEF Asked
<1>8. Types'
  BY <1>2, <1>4 DEF IInv, Types, Lives
<1>9. \A s \in Relations \ {r} : Gentle(s)
  BY <1>2, <1>4 DEF IInv, Types, Gentle
<1>10. ASSUME NEW s \in Relations PROVE GoodBag(s)'
  <2>1. CASE s = r
    <3>1. Asked(r, y)'
      BY <1>2, <1>6, AskedSame
    <3>2. Works(r, y)'
      <4>1. (Fetch(y, "password") = None)'
        BY <1>7 DEF Fetch, SecretContents, SecretFields, FallsBack, RequestedSecrets,
                    HasSecret, Get
      <4> QED
        BY <4>1 DEF Works
    <3>3. rel'[r] = "up"
      BY <1>2 DEF IInv, Types
    <3> QED
      BY <2>1, <1>4, <3>1, <3>2, <3>3 DEF GoodBag, Shape
  <2>2. CASE s # r
    <3>1. rel[s] = "none" =>
            \A u \in Units : s \notin changed'[u] /\ s \notin deferred'[u]
      BY <1>2, <2>2 DEF IInv, Types, GoodBag, Unasked
    <3>2. rel'[s] = rel[s]
      BY <1>2, <2>2 DEF IInv, Types
    <3> QED
      BY <1>4, <1>9, <2>2, <3>1, <3>2, BagStays
  <2> QED
    BY <2>1, <2>2
<1>11. ASSUME NEW u \in Units PROVE GoodHook(u, hook[u])'
  <2> PICK h : h = hook[u]
    OBVIOUS
  <2>1. GoodHook(u, h)
    BY DEF IInv
  <2>2. h.rel \in Relations => h.rel # r /\ InCharge(u, h.rel)'
    BY <1>2, <2>1 DEF GoodHook, InCharge
  <2>3. GoodHook(u, h)'
    BY <1>9, <2>1, <2>2, HookStays
  <2> QED
    BY <1>2, <2>3 DEF GoodHook
<1>12. \A v \in Units, s \in Relations : GoodLeave(v, s)'
  BY <1>2 DEF IInv, Types, GoodLeave
<1>13. \A s \in Relations : Tidy(s)'
  BY <1>2 DEF IInv, Types, Tidy
<1> QED
  BY <1>8, <1>10, <1>11, <1>12, <1>13 DEF IInv

\* Data with the same parts holds the same
LEMMA SameData ==
  ASSUME NEW x, NEW y, Shape(x), Shape(y), y.client = x.client, y.mine = x.mine,
         y.secret = x.secret
  PROVE  /\ Keeps(x, y)
         /\ Fetch(y, "password") = Fetch(x, "password")
<1>1. RequestedSecrets(y) = RequestedSecrets(x)
  BY DEF RequestedSecrets
<1>2. Keeps(x, y)
  BY <1>1 DEF Keeps, Hidden, Clear
<1>3. Fetch(y, "password") = Fetch(x, "password")
  BY <1>1 DEF Fetch, SecretContents, SecretFields, FallsBack, HasSecret
<1> QED
  BY <1>2, <1>3

\* A write that keeps the place of the credentials keeps what was asked
LEMMA AskedKept ==
  ASSUME NEW r, NEW x, Asked(r, x), NEW y, Keeps(x, y)
  PROVE  Asked(r, y)
  BY DEF Asked, Keeps

\* A client asks for secrets or for none
LEMMA AskedKind ==
  ASSUME NEW r, NEW x, Asked(r, x)
  PROVE  (Hidden(x) \/ Clear(x)) /\ Shape(x)
  BY DEF Asked, Hidden, Clear

\* Works depends on the password only
LEMMA WorksKept ==
  ASSUME NEW r, NEW x, Works(r, x), NEW y, Fetch(y, "password") = Fetch(x, "password")
  PROVE  Works(r, y)
  BY DEF Works

\* The writes of the charm beside the credentials
LEMMA SettersKeep ==
  ASSUME NEW x, Hidden(x) \/ Clear(x)
  PROVE  /\ \A n : /\ Keeps(x, SetDatabase(x, n))
                   /\ Fetch(SetDatabase(x, n), "password") = Fetch(x, "password")
         /\ \A n : /\ Keeps(x, SetVersion(x, n))
                   /\ Fetch(SetVersion(x, n), "password") = Fetch(x, "password")
         /\ Keeps(x, WithEndpoints(x))
         /\ Fetch(WithEndpoints(x), "password") = Fetch(x, "password")
<1>1. ASSUME NEW n
      PROVE  /\ Keeps(x, SetDatabase(x, n))
             /\ Fetch(SetDatabase(x, n), "password") = Fetch(x, "password")
  BY UpdateKeeps DEF SetDatabase, OtherFields
<1>2. ASSUME NEW n
      PROVE  /\ Keeps(x, SetVersion(x, n))
             /\ Fetch(SetVersion(x, n), "password") = Fetch(x, "password")
  BY UpdateKeeps DEF SetVersion, OtherFields
<1>3. PICK a, b : WithEndpoints(x) = SetReadOnlyEndpoints(SetEndpoints(x, a), b)
  BY DEF WithEndpoints
<1> PICK y : y = SetEndpoints(x, a)
  OBVIOUS
<1>4. Keeps(x, y) /\ Fetch(y, "password") = Fetch(x, "password")
  BY UpdateKeeps DEF SetEndpoints, OtherFields
<1>5. Hidden(y) \/ Clear(y)
  BY <1>4 DEF Keeps
<1> PICK z : z = SetReadOnlyEndpoints(y, b)
  OBVIOUS
<1>6. Keeps(y, z) /\ Fetch(z, "password") = Fetch(y, "password")
  BY <1>5, UpdateKeeps DEF SetReadOnlyEndpoints, OtherFields
<1>7. Keeps(x, z)
  BY <1>4, <1>6 DEF Keeps
<1> QED
  BY <1>1, <1>2, <1>3, <1>4, <1>6, <1>7

\* A hook goes on with other data
LEMMA StageEdit ==
  ASSUME NEW f, DOMAIN f = Units, NEW u \in Units, DOMAIN f[u] = HookFields,
         NEW a, NEW w, NEW g, g = [f EXCEPT ![u].stage = a, ![u].work = w]
  PROVE  /\ DOMAIN g = Units
         /\ \A v \in Units \ {u} : g[v] = f[v]
         /\ DOMAIN g[u] = HookFields
         /\ g[u].stage = a /\ g[u].work = w
         /\ g[u].rel = f[u].rel /\ g[u].from = f[u].from
<1>1. DOMAIN g = Units /\ \A v \in Units \ {u} : g[v] = f[v]
  OBVIOUS
<1>2. g[u] = [f[u] EXCEPT !.stage = a, !.work = w]
  OBVIOUS
<1> PICK h : h = f[u]
  OBVIOUS
<1>3. LET k == [h EXCEPT !.stage = a, !.work = w]
      IN  /\ DOMAIN k = HookFields /\ k.stage = a /\ k.work = w
          /\ k.rel = h.rel /\ k.from = h.from
  BY DEF HookFields
<1> QED
  BY <1>1, <1>2, <1>3

\* The data of a relation takes over what a hook wrote
LEMMA BagWritten ==
  ASSUME IInv, NEW r \in Relations, NEW w, Asked(r, w), w.client = bag[r].client,
         rel[r] # "none", rel[r] = "up" => Works(r, w)',
         bag' = [bag EXCEPT ![r].mine = w.mine, ![r].secret = w.secret],
         UNCHANGED <<setup, rel>>, dbs \subseteq dbs',
         \A s \in Relations : users[s] # None => users'[s] = users[s],
         \A s \in Relations : rel[s] = "none" =>
           \A v \in Units : s \notin changed'[v] /\ s \notin deferred'[v]
  PROVE  /\ DOMAIN bag' = Relations
         /\ \A s \in Relations : Gentle(s) /\ GoodBag(s)'
<1>1. DOMAIN bag' = Relations /\ \A s \in Relations \ {r} : bag'[s] = bag[s]
  BY DEF IInv, Types
<1> PICK y : y = bag'[r]
  OBVIOUS
<1> PICK x : x = bag[r]
  OBVIOUS
<1>2. y = [x EXCEPT !.mine = w.mine, !.secret = w.secret]
  BY DEF IInv, Types
<1>3. Shape(x)
  BY DEF IInv, GoodBag
<1>4. Shape(y) /\ y.client = x.client /\ y.mine = w.mine /\ y.secret = w.secret
  BY <1>2, <1>3 DEF Shape
<1>5. Shape(w)
  BY AskedKind
<1>6. Keeps(w, y) /\ Fetch(y, "password") = Fetch(w, "password")
  BY <1>4, <1>5, SameData
<1>7. Asked(r, y)'
  BY <1>6, AskedKept, AskedSame
<1>8. ASSUME Works(r, w)' PROVE Works(r, y)'
  <2>1. (Fetch(y, "password") = Fetch(w, "password"))'
    BY <1>6
    DEF Fetch, SecretContents, SecretFields, FallsBack, RequestedSecrets, HasSecret, Get
  <2> QED
    BY <1>8, <2>1 DEF Works
<1>9. \A s \in Relations : Gentle(s)
  BY <1>1, <1>4 DEF Gentle
<1>10. ASSUME NEW s \in Relations PROVE GoodBag(s)'
  <2>1. CASE s = r
    BY <2>1, <1>4, <1>7, <1>8 DEF GoodBag, Shape
  <2>2. CASE s # r
    BY <2>2, <1>1, <1>9, BagStays
  <2> QED
    BY <2>1, <2>2
<1> QED
  BY <1>1, <1>9, <1>10

\* A step that leaves the data of all relations alone
LEMMA BagsStay ==
  ASSUME IInv, UNCHANGED <<setup, rel, bag>>, dbs \subseteq dbs',
         \A s \in Relations : users[s] # None => users'[s] = users[s],
         \A s \in Relations : rel[s] = "none" =>
           \A v \in Units : s \notin changed'[v] /\ s \notin deferred'[v]
  PROVE  /\ DOMAIN bag' = Relations
         /\ \A s \in Relations : Gentle(s) /\ GoodBag(s)'
<1>1. \A s \in Relations : Gentle(s)
  BY DEF Gentle
<1>2. ASSUME NEW s \in Relations PROVE GoodBag(s)'
  BY <1>1, BagStays
<1> QED
  BY <1>1, <1>2 DEF IInv, Types

\* Events are pending for relations that are there
LEMMA Pending ==
  ASSUME IInv
  PROVE  \A s \in Relations : rel[s] = "none" =>
           \A v \in Units : s \notin changed[v] /\ s \notin deferred[v]
  BY DEF IInv, GoodBag, Unasked

\* A hook begins to answer a request
LEMMA RequestedIInv ==
  ASSUME IInv, NEW u \in Units, NEW r \in Relations, NEW work, NEW from \in Requests,
         Requested(u, r, work, from), leader = u, leaving[u][r] # "done", rel[r] # "none",
         work \in {bag[r], Record(bag[r])},
         UNCHANGED <<setup, leader, alive, tearing, removing, rel, leaving, accounts, bag,
                     dbs, users, deferred, excused>>,
         changed' = changed \/ changed' = [changed EXCEPT ![u] = changed[u] \ {r}]
  PROVE  IInv'
<1> PICK x : x = bag[r]
  OBVIOUS
<1> PICK h : h = hook'[u]
  OBVIOUS
<1>1. Asked(r, x) /\ (rel[r] = "up" => Works(r, x))
  BY DEF IInv, GoodBag
<1>2. Keeps(x, work) /\ Fetch(work, "password") = Fetch(x, "password")
  <2>1. CASE work = x
    BY <2>1 DEF Keeps
  <2>2. CASE work = Record(x)
    BY <1>1, <2>2, RecordKeeps, AskedKind
  <2> QED
    BY <2>1, <2>2
<1>3. Asked(r, work) /\ work.client = bag[r].client /\ (rel[r] = "up" => Works(r, work))
  BY <1>1, <1>2, AskedKept, WorksKept DEF Keeps
<1>4. /\ DOMAIN hook' = Units
      /\ \A v \in Units \ {u} : hook'[v] = hook[v]
      /\ h = [Idle EXCEPT !.stage = "database", !.from = from, !.rel = r, !.work = work]
  BY DEF Requested, IInv, Types
<1>5. /\ DOMAIN h = HookFields /\ h.stage = "database" /\ h.from = from
      /\ h.rel = r /\ h.work = work
  BY <1>4 DEF Idle, HookFields
<1>6. GoodHook(u, h)
  BY <1>3, <1>5 DEF GoodHook, InCharge
<1>7. /\ changed' \in [Units -> SUBSET Relations]
      /\ \A v \in Units : changed'[v] \subseteq changed[v]
  BY DEF IInv, Types
<1>8. \A s \in Relations : rel[s] = "none" =>
        \A v \in Units : s \notin changed'[v] /\ s \notin deferred'[v]
  BY <1>7, Pending
<1>9. DOMAIN bag' = Relations /\ \A s \in Relations : Gentle(s) /\ GoodBag(s)'
  BY <1>8, BagsStay
<1>10. GoodHook(u, h)'
  BY <1>5, <1>6, <1>9, HookStays DEF GoodHook, InCharge
<1> QED
  BY <1>4, <1>7, <1>9, <1>10, HookKeeps DEF IInv, Types

\* relation-changed
LEMMA ChangedIInv ==
  ASSUME IInv, NEW u \in Units, NEW r \in Relations, OnRelationChanged(u, r)
  PROVE  IInv'
<1> DEFINE new == leader = u /\ DatabaseRequested(Diff(Recorded(bag[r]), bag[r].client))
<1>1. /\ UNCHANGED <<setup, leader, alive, tearing, removing, rel, leaving, accounts,
                      dbs, users, excused>>
      /\ r \in changed[u] /\ leaving[u][r] # "done"
      /\ changed' = [changed EXCEPT ![u] = changed[u] \ {r}]
      /\ deferred' = IF new /\ ~Initialized(u)
                     THEN [deferred EXCEPT ![u] = deferred[u] \cup {r}] ELSE deferred
      /\ IF new /\ Initialized(u)
         THEN Requested(u, r, Record(bag[r]), "changed") /\ bag' = bag
         ELSE /\ hook' = hook
              /\ bag' = IF leader = u THEN [bag EXCEPT ![r] = Record(bag[r])] ELSE bag
  BY DEF OnRelationChanged, relations, mysql
<1>2. rel[r] # "none"
  BY <1>1, Pending
<1> HIDE DEF new
<1>3. CASE new /\ Initialized(u)
  BY <1>1, <1>2, <1>3, RequestedIInv DEF new, Requests
<1>4. CASE ~(new /\ Initialized(u))
  <2>1. hook' = hook /\ (bag' = [bag EXCEPT ![r] = Record(bag[r])] \/ bag' = bag)
    BY <1>1, <1>4
  <2>2. /\ changed' \in [Units -> SUBSET Relations]
        /\ deferred' \in [Units -> SUBSET Relations]
    BY <1>1 DEF IInv, Types
  <2>3. \A s \in Relations : rel[s] = "none" =>
          \A v \in Units : s \notin changed'[v] /\ s \notin deferred'[v]
    BY <1>1, <1>2, Pending DEF IInv, Types
  <2> PICK x : x = bag[r]
    OBVIOUS
  <2>4. Asked(r, x) /\ (rel[r] = "up" => Works(r, x)) /\ Shape(x)
    BY <1>2 DEF IInv, GoodBag
  <2>5. DOMAIN bag' = Relations /\ \A s \in Relations : Gentle(s) /\ GoodBag(s)'
    <3>1. CASE bag' = bag
      BY <3>1, <1>1, <2>3, BagsStay
    <3>2. CASE bag' = [bag EXCEPT ![r] = Record(bag[r])]
      <4> PICK y : y = Record(x)
        OBVIOUS
      <4>1. /\ DOMAIN bag' = Relations /\ bag'[r] = y
            /\ \A s \in Relations \ {r} : bag'[s] = bag[s]
        BY <3>2 DEF IInv, Types
      <4>2. Keeps(x, y) /\ Fetch(y, "password") = Fetch(x, "password")
        BY <2>4, RecordKeeps, AskedKind
      <4>3. Asked(r, y) /\ (rel[r] = "up" => Works(r, y))
        BY <2>4, <4>2, AskedKept, WorksKept
      <4>4. \A s \in Relations : Gentle(s)
        BY <1>1, <4>1, <4>2 DEF Gentle, Keeps
      <4>5. Asked(r, y)' /\ (rel'[r] = "up" => Works(r, y)')
        BY <1>1, <4>3, <4>4, AskedSame, WorksSame
      <4>6. Shape(y)
        BY <4>3, AskedKind
      <4>7. ASSUME NEW s \in Relations PROVE GoodBag(s)'
        <5>1. CASE s = r
          BY <5>1, <1>1, <1>2, <4>1, <4>5, <4>6 DEF GoodBag, Shape
        <5>2. CASE s # r
          BY <5>2, <1>1, <2>3, <4>1, <4>4, BagStays
        <5> QED
          BY <5>1, <5>2
      <4> QED
        BY <4>1, <4>4, <4>7
    <3> QED
      BY <2>1, <3>1, <3>2
  <2> PICK h : h = hook[u]
    OBVIOUS
  <2>6. GoodHook(u, h)
    BY DEF IInv
  <2>7. GoodHook(u, h)'
    BY <1>1, <2>5, <2>6, HookStays DEF GoodHook, InCharge
  <2> QED
    BY <1>1, <2>1, <2>2, <2>5, <2>7, HookKeeps DEF IInv, Types
<1> QED
  BY <1>3, <1>4

\* A deferred database-requested comes again
LEMMA RequestIInv ==
  ASSUME IInv, NEW u \in Units, NEW r \in Relations, OnDatabaseRequested(u, r)
  PROVE  IInv'
<1>1. /\ UNCHANGED <<setup, leader, alive, tearing, removing, rel, leaving, accounts,
                      dbs, users, excused, bag, changed>>
      /\ r \in deferred[u]
      /\ IF leader = u /\ leaving[u][r] # "done"
         THEN Requested(u, r, bag[r], "deferred") /\ deferred' = deferred
         ELSE deferred' = [deferred EXCEPT ![u] = deferred[u] \ {r}] /\ hook' = hook
  BY DEF OnDatabaseRequested, units, relations, mysql
<1>2. rel[r] # "none"
  BY <1>1, Pending
<1>3. CASE leader = u /\ leaving[u][r] # "done"
  BY <1>1, <1>2, <1>3, RequestedIInv DEF Requests
<1>4. CASE ~(leader = u /\ leaving[u][r] # "done")
  <2>1. /\ hook' = hook
        /\ deferred' \in [Units -> SUBSET Relations]
        /\ \A v \in Units : deferred'[v] \subseteq deferred[v]
    <3>1. hook' = hook /\ deferred' = [deferred EXCEPT ![u] = deferred[u] \ {r}]
      BY <1>1, <1>4
    <3> QED
      BY <3>1 DEF IInv, Types
  <2>2. Types'
    BY <1>1, <2>1 DEF IInv, Types
  <2>3. ASSUME NEW v \in Units, hook[v].rel \in Relations
        PROVE  InCharge(v, hook[v].rel)'
    <3>1. UNCHANGED <<alive, leader, leaving, excused, hook>>
      BY <1>1, <2>1
    <3>2. InCharge(v, hook[v].rel)
      BY <2>3 DEF IInv, GoodHook
    <3> QED
      BY <3>1, <3>2 DEF InCharge
  <2>5. \A s \in Relations : Gentle(s)
    <3>1. UNCHANGED <<rel, bag, users, dbs, setup>>
      BY <1>1
    <3> QED
      BY <3>1 DEF Gentle
  <2>4. /\ \A v \in Units, s \in Relations : GoodLeave(v, s)'
        /\ \A s \in Relations : Tidy(s)'
    BY <1>1 DEF IInv, GoodLeave, Tidy
  <2> QED
    BY <1>1, <2>1, <2>2, <2>3, <2>4, <2>5, OuterKeeps
<1> QED
  BY <1>3, <1>4

\* A hook that answers a request goes on
LEMMA GoesOn ==
  ASSUME IInv, NEW u \in Units, u \in alive, NEW r \in Relations, hook[u].rel = r,
         NEW h, hook'[u] = h, DOMAIN hook' = Units,
         \A v \in Units \ {u} : hook'[v] = hook[v],
         DOMAIN h = HookFields, h.rel = r, h.from = hook[u].from,
         h.stage \in {"user", "version", "labels", "endpoints"},
         Asked(r, h.work), h.work.client = hook[u].work.client,
         rel[r] = "up" => Works(r, h.work)', r \in (Routers \cup dbs)',
         UNCHANGED <<setup, leader, alive, tearing, removing, rel, leaving, accounts, bag,
                     changed, deferred, excused>>,
         dbs \subseteq dbs', DOMAIN users' = Relations,
         \A s \in Relations : users'[s] # users[s] => s = r /\ users[s] = None
  PROVE  IInv'
<1>1. \A s \in Relations : rel[s] = "none" =>
        \A v \in Units : s \notin changed'[v] /\ s \notin deferred'[v]
  BY Pending
<1>2. DOMAIN bag' = Relations /\ \A s \in Relations : Gentle(s) /\ GoodBag(s)'
  BY <1>1, BagsStay
<1> PICK k : k = hook[u]
  OBVIOUS
<1>3. GoodHook(u, k) /\ k.rel = r
  BY DEF IInv
<1>4. /\ rel[r] # "none" /\ k.work.client = bag[r].client /\ k.from \in Requests
      /\ InCharge(u, r)
  BY <1>3 DEF GoodHook
<1>5. InCharge(u, r)'
  BY <1>4 DEF InCharge
<1>6. Asked(r, h.work)'
  BY AskedSame
<1>7. GoodHook(u, h)'
  BY <1>4, <1>5, <1>6 DEF GoodHook
<1> QED
  BY <1>2, <1>7, HookKeeps DEF IInv, Types

\* A hook ends, or dies
LEMMA HookEnds ==
  ASSUME IInv, NEW u \in Units, u \in alive, hook' = [hook EXCEPT ![u] = Idle],
         UNCHANGED <<setup, leader, alive, tearing, removing, rel, leaving, accounts>>,
         changed' \in [Units -> SUBSET Relations], deferred' \in [Units -> SUBSET Relations],
         DOMAIN users' = Relations, DOMAIN bag' = Relations,
         \A s \in Relations : Gentle(s) /\ GoodBag(s)',
         \A s \in Relations : users'[s] # users[s] => s = hook[u].rel,
         excused \subseteq excused'
  PROVE  IInv'
<1>1. DOMAIN hook' = Units /\ hook'[u] = Idle /\ \A v \in Units \ {u} : hook'[v] = hook[v]
  BY DEF IInv, Types
<1>2. Idle.rel \notin Relations
  BY ProviderAssumption DEF Idle
<1>3. GoodHook(u, Idle)'
  <2>1. GoodHook(u, Idle)
    BY IdleIsGood
  <2> QED
    BY <1>2, <2>1, HookStays
<1> QED
  BY <1>1, <1>3, HookKeeps

\* What is known of a hook that answers a request
LEMMA AtWork ==
  ASSUME IInv, NEW u \in Units,
         hook[u].stage \in {"database", "user", "version", "endpoints"}
  PROVE  /\ hook[u].rel \in Relations /\ DOMAIN hook[u] = HookFields
         /\ rel[hook[u].rel] # "none" /\ Asked(hook[u].rel, hook[u].work)
         /\ hook[u].work.client = bag[hook[u].rel].client
         /\ rel[hook[u].rel] = "up" => Works(hook[u].rel, hook[u].work)
         /\ hook[u].stage # "database" => hook[u].rel \in Routers \cup dbs
         /\ hook[u].from \in Requests
  BY DEF IInv, GoodHook

\* The database is created
LEMMA DatabaseIInv ==
  ASSUME IInv, NEW u \in Units, CreateDatabase(u)
  PROVE  IInv'
<1> PICK r : r = hook[u].rel
  OBVIOUS
<1>1. /\ UNCHANGED <<setup, leader, alive, tearing, removing, rel, leaving, accounts, bag,
                      changed, deferred, excused, users>>
      /\ u \in alive /\ hook[u].stage = "database"
      /\ dbs' = IF r \in Routers THEN dbs ELSE dbs \cup {r}
  BY DEF CreateDatabase, At, units, relations
<1>2. PICK w : /\ hook' = [hook EXCEPT ![u].stage = "user", ![u].work = w]
               /\ w = hook[u].work \/ w = SetDatabase(hook[u].work, "db")
  BY DEF CreateDatabase, Write
<1> PICK x : x = hook[u].work
  OBVIOUS
<1>3. /\ r \in Relations /\ Asked(r, x) /\ DOMAIN hook[u] = HookFields
      /\ rel[r] = "up" => Works(r, x)
  BY <1>1, AtWork
<1>4. Keeps(x, w) /\ Fetch(w, "password") = Fetch(x, "password")
  <2>1. CASE w = x
    BY <2>1 DEF Keeps
  <2>2. CASE w = SetDatabase(x, "db")
    BY <1>3, <2>2, AskedKind, SettersKeep
  <2> QED
    BY <1>2, <2>1, <2>2
<1>5. Asked(r, w) /\ w.client = x.client /\ (rel[r] = "up" => Works(r, w))
  BY <1>3, <1>4, AskedKept, WorksKept DEF Keeps
<1>6. dbs \subseteq dbs' /\ r \in (Routers \cup dbs)'
  BY <1>1 DEF Routers
<1>7. rel[r] = "up" => Works(r, w)'
  BY <1>1, <1>3, <1>5, <1>6, WorksSame DEF Gentle
<1> PICK h : h = hook'[u]
  OBVIOUS
<1>8. /\ DOMAIN hook' = Units /\ \A v \in Units \ {u} : hook'[v] = hook[v]
      /\ DOMAIN h = HookFields /\ h.stage = "user" /\ h.work = w
      /\ h.rel = r /\ h.from = hook[u].from
  BY <1>2, <1>3, StageEdit DEF IInv, Types
<1> QED
  BY <1>1, <1>3, <1>5, <1>6, <1>7, <1>8, GoesOn DEF IInv, Types

\* The user is created
LEMMA UserIInv ==
  ASSUME IInv, NEW u \in Units, CreateDatabaseUser(u)
  PROVE  IInv'
<1> PICK r : r = hook[u].rel
  OBVIOUS
<1> PICK p : p = Password(u)
  OBVIOUS
<1>1. /\ UNCHANGED <<setup, leader, alive, tearing, removing, rel, leaving, accounts, bag,
                      changed, deferred, excused, dbs>>
      /\ u \in alive /\ hook[u].stage = "user"
      /\ users[r] = None /\ users' = [users EXCEPT ![r] = p]
  BY DEF CreateDatabaseUser, At, units, relations
<1>2. PICK w : /\ hook' = [hook EXCEPT ![u].stage = "version", ![u].work = w]
               /\ w = hook[u].work \/ w = SetCredentials(hook[u].work, "user", p)
  BY DEF CreateDatabaseUser, Write
<1> PICK x : x = hook[u].work
  OBVIOUS
<1>3. /\ r \in Relations /\ Asked(r, x) /\ DOMAIN hook[u] = HookFields
      /\ rel[r] = "up" => Works(r, x)
      /\ r \in Routers \cup dbs
  BY <1>1, AtWork
<1>4. /\ DOMAIN users' = Relations /\ users'[r] = p
      /\ \A s \in Relations : users'[s] # users[s] => s = r /\ users[s] = None
  BY <1>1, <1>3 DEF IInv, Types
<1>5. r \in (Routers \cup dbs)'
  BY <1>1, <1>3 DEF Routers
<1>6. Gentle(r)
  BY <1>1 DEF Gentle
<1>7. /\ Asked(r, w) /\ w.client = x.client
      /\ rel[r] = "up" => Works(r, w)'
  <2>1. CASE w = x
    BY <1>1, <1>3, <1>6, <2>1, WorksSame
  <2>2. CASE w = SetCredentials(x, "user", p)
    <3>1. Keeps(x, w) /\ Fetch(w, "password") = p
      BY <1>3, <2>2, AskedKind, CredentialsKept
    <3>2. (Fetch(w, "password") = p)'
      BY <3>1
      DEF Fetch, SecretContents, SecretFields, FallsBack, RequestedSecrets, HasSecret, Get
    <3>3. Works(r, w)'
      BY <1>4, <1>5, <3>2 DEF Works
    <3> QED
      BY <1>3, <3>1, <3>3, AskedKept DEF Keeps
  <2> QED
    BY <1>2, <2>1, <2>2
<1> PICK h : h = hook'[u]
  OBVIOUS
<1>8. /\ DOMAIN hook' = Units /\ \A v \in Units \ {u} : hook'[v] = hook[v]
      /\ DOMAIN h = HookFields /\ h.stage = "version" /\ h.work = w
      /\ h.rel = r /\ h.from = hook[u].from
  BY <1>2, <1>3, StageEdit DEF IInv, Types
<1> QED
  BY <1>1, <1>3, <1>4, <1>5, <1>7, <1>8, GoesOn

\* The fields of a hook that begins to update the labels
LEMMA LabellingIs ==
  ASSUME IInv, NEW u \in Units, NEW from, NEW w, Labelling(u, from, w)
  PROVE  /\ DOMAIN hook' = Units /\ \A v \in Units \ {u} : hook'[v] = hook[v]
         /\ DOMAIN hook'[u] = HookFields
         /\ hook'[u].stage = IF k8s THEN "labels" ELSE After(from)
         /\ hook'[u].from = from /\ hook'[u].work = w /\ hook'[u].rel = hook[u].rel
<1>1. PICK a, b : /\ a = IF k8s THEN "labels" ELSE After(from)
                  /\ hook' = [hook EXCEPT ![u] = [hook[u] EXCEPT !.stage = a, !.from = from,
                                                                 !.work = w, !.view = b]]
  BY DEF Labelling
<1> PICK h : h = hook[u]
  OBVIOUS
<1> DEFINE k == [h EXCEPT !.stage = a, !.from = from, !.work = w, !.view = b]
<1>2. DOMAIN h = HookFields
  BY DEF IInv, GoodHook
<1>3. /\ DOMAIN k = HookFields /\ k.stage = a /\ k.from = from /\ k.work = w
      /\ k.rel = h.rel
  BY <1>2 DEF HookFields
<1>4. /\ DOMAIN hook' = Units /\ \A v \in Units \ {u} : hook'[v] = hook[v]
      /\ hook'[u] = k
  BY <1>1 DEF IInv, Types
<1> QED
  BY <1>1, <1>3, <1>4

\* The version is set
LEMMA VersionIInv ==
  ASSUME IInv, NEW u \in Units, SetDatabaseVersion(u)
  PROVE  IInv'
<1> PICK r : r = hook[u].rel
  OBVIOUS
<1> PICK from : from = hook[u].from
  OBVIOUS
<1>1. /\ UNCHANGED <<setup, leader, alive, tearing, removing, rel, leaving, accounts, bag,
                      changed, deferred, excused, dbs, users>>
      /\ u \in alive /\ hook[u].stage = "version"
  BY DEF SetDatabaseVersion, At, units, relations, mysql
<1>2. PICK w : /\ Labelling(u, from, w)
               /\ w = hook[u].work \/ w = SetVersion(hook[u].work, "8.4")
  BY DEF SetDatabaseVersion, Write
<1> PICK x : x = hook[u].work
  OBVIOUS
<1>3. /\ r \in Relations /\ Asked(r, x)
      /\ rel[r] = "up" => Works(r, x)
      /\ r \in Routers \cup dbs /\ from \in Requests
  BY <1>1, AtWork
<1>4. Keeps(x, w) /\ Fetch(w, "password") = Fetch(x, "password")
  <2>1. CASE w = x
    BY <2>1 DEF Keeps
  <2>2. CASE w = SetVersion(x, "8.4")
    BY <1>3, <2>2, AskedKind, SettersKeep
  <2> QED
    BY <1>2, <2>1, <2>2
<1>5. Asked(r, w) /\ w.client = x.client /\ (rel[r] = "up" => Works(r, w))
  BY <1>3, <1>4, AskedKept, WorksKept DEF Keeps
<1>6. r \in (Routers \cup dbs)'
  BY <1>1, <1>3 DEF Routers
<1>7. rel[r] = "up" => Works(r, w)'
  BY <1>1, <1>3, <1>5, WorksSame DEF Gentle
<1>8. After(from) = "endpoints"
  BY <1>3 DEF After, Requests
<1> PICK h : h = hook'[u]
  OBVIOUS
<1>9. /\ DOMAIN hook' = Units /\ \A v \in Units \ {u} : hook'[v] = hook[v]
      /\ DOMAIN h = HookFields /\ h.stage \in {"labels", "endpoints"} /\ h.work = w
      /\ h.rel = r /\ h.from = hook[u].from
  BY <1>2, <1>8, LabellingIs
<1> QED
  BY <1>1, <1>3, <1>5, <1>6, <1>7, <1>9, GoesOn DEF IInv, Types

\* update-status and the update of the endpoints begin
LEMMA LabelsBeginIInv ==
  ASSUME IInv, NEW u \in Units, OnUpdateStatus(u) \/ UpdateDatabaseEndpoints(u)
  PROVE  IInv'
<1>1. /\ UNCHANGED <<setup, leader, alive, tearing, removing, rel, leaving, accounts, bag,
                      changed, deferred, excused, dbs, users>>
      /\ u \in alive /\ hook[u].stage = "idle"
  BY DEF OnUpdateStatus, UpdateDatabaseEndpoints, Free, units, relations, mysql
<1>2. PICK from : /\ Labelling(u, from, Fresh)
                  /\ from = "healing" \/ (from = "status" /\ k8s)
  BY DEF OnUpdateStatus, UpdateDatabaseEndpoints
<1>3. hook[u].rel \notin Relations
  BY <1>1 DEF IInv, GoodHook
<1>4. After("healing") = "relations"
  BY DEF After
<1> PICK h : h = hook'[u]
  OBVIOUS
<1>5. /\ DOMAIN hook' = Units /\ \A v \in Units \ {u} : hook'[v] = hook[v]
      /\ DOMAIN h = HookFields
      /\ h.stage = "labels" \/ h.stage = "relations"
      /\ h.rel = hook[u].rel /\ h.from = from
  BY <1>2, <1>4, LabellingIs
<1>6. GoodHook(u, h)'
  BY <1>2, <1>3, <1>5 DEF GoodHook, Requests
<1>7. \A s \in Relations : rel[s] = "none" =>
        \A v \in Units : s \notin changed'[v] /\ s \notin deferred'[v]
  BY <1>1, Pending
<1>8. DOMAIN bag' = Relations /\ \A s \in Relations : Gentle(s) /\ GoodBag(s)'
  BY <1>1, <1>7, BagsStay
<1> QED
  BY <1>1, <1>5, <1>6, <1>8, HookKeeps DEF IInv, Types

\* A hook dies, or may not commit
LEMMA DiesIInv ==
  ASSUME IInv, NEW u \in Units, PublishFails(u) \/ HookDies(u)
  PROVE  IInv'
<1>1. /\ UNCHANGED <<setup, leader, alive, tearing, removing, rel, leaving, accounts, bag,
                      deferred, excused, dbs, users>>
      /\ u \in alive /\ Rollback(u)
  BY DEF PublishFails, HookDies, At, units, relations, mysql
<1> PICK k : k = hook[u]
  OBVIOUS
<1>2. GoodHook(u, k)
  BY DEF IInv
<1>3. k.from = "changed" => k.rel \in Relations /\ rel[k.rel] # "none"
  BY <1>2 DEF GoodHook, Requests
<1>4. /\ hook' = [hook EXCEPT ![u] = Idle]
      /\ \/ changed' = changed
         \/ k.from = "changed" /\ changed' = [changed EXCEPT ![u] = changed[u] \cup {k.rel}]
  BY <1>1 DEF Rollback
<1>5. changed' \in [Units -> SUBSET Relations]
  BY <1>3, <1>4 DEF IInv, Types
<1>6. \A s \in Relations : rel[s] = "none" =>
        \A v \in Units : s \notin changed'[v] /\ s \notin deferred'[v]
  BY <1>1, <1>3, <1>4, Pending DEF IInv, Types
<1>7. DOMAIN bag' = Relations /\ \A s \in Relations : Gentle(s) /\ GoodBag(s)'
  BY <1>1, <1>6, BagsStay
<1> QED
  BY <1>1, <1>4, <1>5, <1>7, HookEnds DEF IInv, Types

\* A hook commits what it has written
LEMMA CommitIInv ==
  ASSUME IInv, NEW u \in Units, u \in alive, NEW r \in Relations, r = hook[u].rel,
         NEW w, Commit(u, w), Asked(r, w), w.client = bag[r].client, rel[r] # "none",
         rel[r] = "up" => Works(r, w)',
         UNCHANGED <<setup, leader, alive, tearing, removing, rel, leaving, accounts, changed>>,
         dbs \subseteq dbs', DOMAIN users' = Relations,
         \A s \in Relations : users'[s] # users[s] => s = r /\ users[s] = None,
         excused \subseteq excused'
  PROVE  IInv'
<1>1. /\ bag' = [bag EXCEPT ![r].mine = w.mine, ![r].secret = w.secret]
      /\ deferred' = [deferred EXCEPT ![u] = deferred[u] \ {r}]
      /\ hook' = [hook EXCEPT ![u] = Idle]
  BY DEF Commit
<1>2. deferred' \in [Units -> SUBSET Relations]
  BY <1>1 DEF IInv, Types
<1>3. \A s \in Relations : rel[s] = "none" =>
        \A v \in Units : s \notin changed'[v] /\ s \notin deferred'[v]
  BY <1>1, Pending DEF IInv, Types
<1>4. DOMAIN bag' = Relations /\ \A s \in Relations : Gentle(s) /\ GoodBag(s)'
  BY <1>1, <1>3, BagWritten
<1> QED
  BY <1>1, <1>2, <1>4, HookEnds DEF IInv, Types

\* A request fails
LEMMA FailsIInv ==
  ASSUME IInv, NEW u \in Units, RequestFails(u)
  PROVE  IInv'
<1> PICK r : r = hook[u].rel
  OBVIOUS
<1> PICK w : w = hook[u].work
  OBVIOUS
<1>1. /\ UNCHANGED <<setup, leader, alive, tearing, removing, rel, leaving, accounts, changed>>
      /\ u \in alive /\ hook[u].stage \in {"database", "user", "version"}
      /\ Commit(u, w) /\ excused \subseteq excused' /\ dbs \subseteq dbs'
  BY DEF RequestFails, units, relations
<1>2. \/ users' = users
      \/ users[r] = None /\ \E p : users' = [users EXCEPT ![r] = p]
  BY DEF RequestFails
<1>3. /\ r \in Relations /\ Asked(r, w) /\ w.client = bag[r].client /\ rel[r] # "none"
      /\ rel[r] = "up" => Works(r, w)
  BY <1>1, AtWork
<1>4. /\ DOMAIN users' = Relations
      /\ \A s \in Relations : users'[s] # users[s] => s = r /\ users[s] = None
  BY <1>2, <1>3 DEF IInv, Types
<1>5. bag'[r].client = bag[r].client
  <2>1. bag' = [bag EXCEPT ![r].mine = w.mine, ![r].secret = w.secret]
    BY <1>1 DEF Commit
  <2>2. bag'[r] = [bag[r] EXCEPT !.mine = w.mine, !.secret = w.secret]
    BY <1>3, <2>1 DEF IInv, Types
  <2>3. Shape(bag[r])
    BY <1>3 DEF IInv, GoodBag
  <2> QED
    BY <2>2, <2>3 DEF Shape
<1>6. Gentle(r)
  BY <1>1, <1>3, <1>4, <1>5 DEF Gentle
<1>7. rel[r] = "up" => Works(r, w)'
  BY <1>1, <1>3, <1>6, WorksSame
<1> QED
  BY <1>1, <1>3, <1>4, <1>7, CommitIInv

\* The endpoints are published with the answer
LEMMA PublishIInv ==
  ASSUME IInv, NEW u \in Units, PublishEndpoints(u)
  PROVE  IInv'
<1> PICK r : r = hook[u].rel
  OBVIOUS
<1> PICK x : x = hook[u].work
  OBVIOUS
<1>1. /\ UNCHANGED <<setup, leader, alive, tearing, removing, rel, leaving, accounts, changed,
                      dbs, users, excused>>
      /\ u \in alive /\ hook[u].stage = "endpoints"
  BY DEF PublishEndpoints, At, units, relations, mysql
<1>2. PICK w : Commit(u, w) /\ (w = x \/ w = WithEndpoints(x))
  BY DEF PublishEndpoints, Write
<1>3. /\ r \in Relations /\ Asked(r, x) /\ x.client = bag[r].client /\ rel[r] # "none"
      /\ rel[r] = "up" => Works(r, x)
  BY <1>1, AtWork
<1>4. Keeps(x, w) /\ Fetch(w, "password") = Fetch(x, "password")
  <2>1. CASE w = x
    BY <2>1 DEF Keeps
  <2>2. CASE w = WithEndpoints(x)
    BY <1>3, <2>2, AskedKind, SettersKeep
  <2> QED
    BY <1>2, <2>1, <2>2
<1>5. Asked(r, w) /\ w.client = bag[r].client /\ (rel[r] = "up" => Works(r, w))
  BY <1>3, <1>4, AskedKept, WorksKept DEF Keeps
<1>6. bag'[r].client = bag[r].client
  <2>1. bag' = [bag EXCEPT ![r].mine = w.mine, ![r].secret = w.secret]
    BY <1>2 DEF Commit
  <2>2. bag'[r] = [bag[r] EXCEPT !.mine = w.mine, !.secret = w.secret]
    BY <1>3, <2>1 DEF IInv, Types
  <2>3. Shape(bag[r])
    BY <1>3 DEF IInv, GoodBag
  <2> QED
    BY <2>2, <2>3 DEF Shape
<1>7. rel[r] = "up" => Works(r, w)'
  BY <1>1, <1>3, <1>5, <1>6, WorksSame DEF Gentle
<1> QED
  BY <1>1, <1>2, <1>3, <1>5, <1>7, CommitIInv DEF IInv, Types

\* A hook goes on with another view
LEMMA ViewEdit ==
  ASSUME NEW f, DOMAIN f = Units, NEW u \in Units, DOMAIN f[u] = HookFields,
         NEW a, NEW b, NEW g, g = [f EXCEPT ![u].view = a, ![u].stage = b]
  PROVE  /\ DOMAIN g = Units
         /\ \A v \in Units \ {u} : g[v] = f[v]
         /\ DOMAIN g[u] = HookFields /\ g[u].stage = b
         /\ g[u].work = f[u].work /\ g[u].rel = f[u].rel /\ g[u].from = f[u].from
<1>1. DOMAIN g = Units /\ \A v \in Units \ {u} : g[v] = f[v]
  OBVIOUS
<1>2. g[u] = [f[u] EXCEPT !.view = a, !.stage = b]
  OBVIOUS
<1> PICK h : h = f[u]
  OBVIOUS
<1>3. LET k == [h EXCEPT !.view = a, !.stage = b]
      IN  /\ DOMAIN k = HookFields /\ k.stage = b
          /\ k.work = h.work /\ k.rel = h.rel /\ k.from = h.from
  BY DEF HookFields
<1> QED
  BY <1>1, <1>2, <1>3

\* A label is written
LEMMA LabelIInv ==
  ASSUME IInv, NEW u \in Units, UpdateLabel(u)
  PROVE  IInv'
<1>1. /\ UNCHANGED <<setup, leader, alive, tearing, removing, rel, leaving, accounts, bag,
                      changed, deferred, excused, dbs, users>>
      /\ u \in alive /\ hook[u].stage = "labels"
  BY DEF UpdateLabel, At, units, relations, mysql
<1>2. \A s \in Relations : rel[s] = "none" =>
        \A v \in Units : s \notin changed'[v] /\ s \notin deferred'[v]
  BY <1>1, Pending
<1>3. DOMAIN bag' = Relations /\ \A s \in Relations : Gentle(s) /\ GoodBag(s)'
  BY <1>1, <1>2, BagsStay
<1>4. /\ changed' \in [Units -> SUBSET Relations] /\ deferred' \in [Units -> SUBSET Relations]
      /\ DOMAIN users' = Relations /\ DOMAIN hook = Units
  BY <1>1 DEF IInv, Types
<1> PICK k : k = hook[u]
  OBVIOUS
<1>5. GoodHook(u, k)
  BY DEF IInv
<1>6. DOMAIN k = HookFields /\ k.stage = "labels"
  BY <1>1, <1>5 DEF GoodHook
<1>7. \/ hook' = [hook EXCEPT ![u] = Idle]
      \/ \E a : hook' = [hook EXCEPT ![u].view = a]
      \/ \E a : /\ hook' = [hook EXCEPT ![u].view = a, ![u].stage = After(k.from)]
               /\ After(k.from) # "idle"
  BY DEF UpdateLabel
<1>8. CASE hook' = [hook EXCEPT ![u] = Idle]
  BY <1>1, <1>3, <1>4, <1>8, HookEnds
<1>9. CASE \E a : hook' = [hook EXCEPT ![u].view = a]
  <2> PICK a : hook' = [hook EXCEPT ![u].view = a]
    BY <1>9
  <2> PICK h : h = hook'[u]
    OBVIOUS
  <2>1. /\ DOMAIN hook' = Units /\ \A v \in Units \ {u} : hook'[v] = hook[v]
        /\ h = [k EXCEPT !.view = a]
    BY <1>4
  <2>2. /\ DOMAIN h = HookFields /\ h.stage = k.stage
        /\ h.work = k.work /\ h.rel = k.rel /\ h.from = k.from
    BY <1>6, <2>1 DEF HookFields
  <2>3. GoodHook(u, h)
    BY <1>5, <2>2 DEF GoodHook
  <2>4. GoodHook(u, h)'
    BY <1>1, <1>3, <2>3, HookStays DEF GoodHook, InCharge
  <2> QED
    BY <1>1, <1>3, <1>4, <2>1, <2>4, HookKeeps
<1>10. CASE \E a : /\ hook' = [hook EXCEPT ![u].view = a, ![u].stage = After(k.from)]
                   /\ After(k.from) # "idle"
  <2> PICK a : hook' = [hook EXCEPT ![u].view = a, ![u].stage = After(k.from)]
    BY <1>10
  <2> PICK h : h = hook'[u]
    OBVIOUS
  <2>1. /\ DOMAIN hook' = Units /\ \A v \in Units \ {u} : hook'[v] = hook[v]
        /\ DOMAIN h = HookFields /\ h.stage = After(k.from)
        /\ h.work = k.work /\ h.rel = k.rel /\ h.from = k.from
    BY <1>4, <1>6, ViewEdit
  <2>2. /\ k.from \in Requests => After(k.from) = "endpoints"
        /\ k.from \notin Requests => After(k.from) \in {"idle", "relations"}
    <3>1. k.from \in {"status", "healing"} \cup Requests
      BY <1>5, <1>6 DEF GoodHook
    <3> QED
      BY <3>1 DEF Requests, After
  <2>3. k.from \in Requests <=> k.rel \in Relations
    BY <1>5 DEF GoodHook
  <2>4. GoodHook(u, h)
    BY <1>5, <1>6, <1>10, <2>1, <2>2, <2>3 DEF GoodHook
  <2>5. GoodHook(u, h)'
    BY <1>1, <1>3, <2>4, HookStays DEF GoodHook, InCharge
  <2> QED
    BY <1>1, <1>3, <1>4, <2>1, <2>5, HookKeeps
<1> QED
  BY <1>7, <1>8, <1>9, <1>10

\* The endpoints of all relations are published
LEMMA PublishAllIInv ==
  ASSUME IInv, NEW u \in Units, PublishToAll(u)
  PROVE  IInv'
<1>1. /\ UNCHANGED <<setup, leader, alive, tearing, removing, rel, leaving, accounts,
                      changed, deferred, excused, dbs, users>>
      /\ u \in alive /\ hook' = [hook EXCEPT ![u] = Idle]
  BY DEF PublishToAll, At, units, relations, mysql
<1>2. \/ bag' = bag
      \/ bag' = [r \in Relations |-> IF Served(u, r) THEN WithEndpoints(bag[r]) ELSE bag[r]]
  BY DEF PublishToAll
<1>3. DOMAIN bag' = Relations
  BY <1>2 DEF IInv, Types
<1>4. ASSUME NEW r \in Relations PROVE Gentle(r) /\ GoodBag(r)'
  <2> PICK x : x = bag[r]
    OBVIOUS
  <2> PICK y : y = bag'[r]
    OBVIOUS
  <2>1. y = x \/ (y = WithEndpoints(x) /\ rel[r] = "up")
    BY <1>2 DEF Served, Joined
  <2>2. CASE y = x
    <3>1. Gentle(r)
      BY <1>1, <2>2 DEF Gentle
    <3> QED
      BY <1>1, <2>2, <3>1, Pending, BagStays
  <2>3. CASE y = WithEndpoints(x) /\ rel[r] = "up"
    <3>1. Asked(r, x) /\ Works(r, x)
      BY <2>3 DEF IInv, GoodBag
    <3>2. Keeps(x, y) /\ Fetch(y, "password") = Fetch(x, "password")
      BY <2>3, <3>1, AskedKind, SettersKeep
    <3>3. Asked(r, y) /\ Works(r, y)
      BY <3>1, <3>2, AskedKept, WorksKept
    <3>4. Gentle(r)
      BY <1>1, <3>2 DEF Gentle, Keeps
    <3>5. Asked(r, y)' /\ Works(r, y)' /\ Shape(y)
      BY <1>1, <2>3, <3>3, <3>4, AskedSame, WorksSame, AskedKind
    <3> QED
      BY <1>1, <2>3, <3>4, <3>5 DEF GoodBag, Shape
  <2> QED
    BY <2>1, <2>2, <2>3
<1> QED
  BY <1>1, <1>3, <1>4, HookEnds DEF IInv, Types

-----------------------------------------------------------------------------
(* The theorems *)

\* Every step keeps the invariant
LEMMA NextIInv == IInv /\ [Next]_vars => IInv'
<1> SUFFICES ASSUME IInv, [Next]_vars PROVE IInv'
  OBVIOUS
<1>1. CASE UNCHANGED vars
  BY <1>1, TopologyIInv
<1>2. ASSUME NEW r \in Relations,
             ClientRelates(r) \/ ClientChanged(r) \/ RouterBootstraps(r) \/ RelationRemoved(r)
      PROVE  IInv'
  BY <1>2, RelatesIInv, TopologyIInv, RouterIInv, RemovedIInv
<1>3. ASSUME NEW u \in Units, RequestStep(u) PROVE IInv'
  BY <1>3, DatabaseIInv, UserIInv, VersionIInv, FailsIInv, LabelIInv, PublishIInv, DiesIInv,
     PublishAllIInv
  DEF RequestStep
<1>4. ASSUME NEW u \in Units, UnitStep(u) PROVE IInv'
  BY <1>4, LabelsBeginIInv, GoneIInv, ChangedIInv, RequestIInv, DepartedIInv, BrokenIInv
  DEF UnitStep
<1>5. ASSUME NEW u \in Units,
             \/ HookDies(u) \/ MemberLost(u) \/ MemberReturns(u) \/ PromoteInstance(u)
             \/ LeadershipMoves(u) \/ UnitTearsDown(u)
      PROVE  IInv'
  BY <1>5, DiesIInv, TopologyIInv, LeaderIInv, TearsDownIInv
<1> QED
  BY <1>1, <1>2, <1>3, <1>4, <1>5 DEF Next

\* The invariant holds in every state, for any units, relations and deployments
THEOREM Invariance == Spec => []IInv
  BY InitIInv, NextIInv, PTL DEF Spec

\* The credentials of a relation that lives are those of a user MySQL knows, who has the
\* database, for any units, relations, deployments, dying hooks and moves of the leadership
\* (_set_database_user, _on_relation_broken and the removing flag)
THEOREM CredentialsWork == Spec => []PublishedCredentialsWork
<1>1. IInv => PublishedCredentialsWork
  BY DEF IInv, GoodBag, Works, PublishedCredentialsWork, Answered
<1> QED
  BY <1>1, Invariance, PTL

\* The user of a relation that has ended is gone, with the accounts it created, unless an
\* error, a leader that was removed or a move of the leadership came between
\* (_on_relation_broken)
THEOREM NothingIsLeft == Spec => []AccountsEndWithRelation
<1>1. ASSUME IInv, NEW r \in Relations, Ended(r), <<"removal", r>> \notin excused
      PROVE  users[r] = None /\ r \notin accounts
  <2>1. rel[r] = "dying" /\ leaving[leader][r] = "done"
    BY <1>1 DEF Ended, IInv, Types
  <2> QED
    BY <1>1, <2>1 DEF IInv, Tidy
<1>2. IInv => AccountsEndWithRelation
  BY <1>1 DEF AccountsEndWithRelation
<1> QED
  BY <1>2, Invariance, PTL
=============================================================================
