---------------------------- MODULE RelationData ----------------------------
(***************************************************************************)
(* The data of a database relation, as the data_interfaces library keeps   *)
(* it: the application databag of the client, the application databag of   *)
(* this application, and the secret that holds the fields which the client *)
(* asked to receive in a secret.                                           *)
(*                                                                         *)
(* A databag and the content of a secret are functions from keys to        *)
(* values.  A relation uses one secret, that of the group "user".  The     *)
(* encryption of cross-model relations and the entity fields are left out. *)
(* A client asks for secrets when it relates, or never, and the secret of  *)
(* a relation lives as long as the relation.                               *)
(***************************************************************************)
EXTENDS Naturals, FiniteSets, Functions

CONSTANT None   \* The value of a key that is not there

Empty == <<>>

\* One entry, and entries put into a databag: Juju drops a key whose value is the empty
\* string, as an empty list of endpoints is
Entry(key, value) == [k \in {key} |-> value]
Lists == {"endpoints", "read-only-endpoints", "requested-secrets", "extra-user-roles"}
Put(data, bag) ==
  LET dropped == {k \in Lists \cap DOMAIN data : data[k] = {}}
  IN  [k \in (DOMAIN data \cup DOMAIN bag) \ dropped |->
         IF k \in DOMAIN data THEN data[k] ELSE bag[k]]

Get(bag, key) == IF key \in DOMAIN bag THEN bag[key] ELSE None
Without(bag, keys) == Restrict(bag, DOMAIN bag \ keys)

\* What one databag holds: nothing yet from either side, no secret
Fresh == [client |-> Empty, mine |-> Empty, secret |-> Empty]

-----------------------------------------------------------------------------
(* Differences between two readings of a databag *)

Diff(old, new) ==
  LET both == DOMAIN old \cap DOMAIN new
  IN  [added   |-> DOMAIN new \ DOMAIN old,
       changed |-> {k \in both : old[k] # new[k]},
       deleted |-> DOMAIN old \ DOMAIN new]

\* The client data this application has acted on, kept in its databag as "data"
Recorded(relation) == IF "data" \in DOMAIN relation.mine THEN relation.mine["data"] ELSE Empty
Record(relation) == [relation EXCEPT !.mine = Put(Entry("data", relation.client), @)]

-----------------------------------------------------------------------------
(* The secret *)

\* The requested fields, as the client gives them (_load_secrets_from_databag)
RequestedSecrets(relation) ==
  IF "requested-secrets" \in DOMAIN relation.client
  THEN relation.client["requested-secrets"] ELSE {}

\* _get_relation_secret: by its URI in the databag
HasSecret(relation) == "secret-user" \in DOMAIN relation.mine

\* _get_group_secret_contents
SecretContents(relation, fields) ==
  IF HasSecret(relation) THEN Restrict(relation.secret, fields \cap DOMAIN relation.secret)
  ELSE Empty

\* _content_for_secret_group
ContentForGroup(data, fields) == Restrict(data, fields \cap DOMAIN data)

\* _add_relation_secret: the secret is granted to the client, its URI goes to the databag
AddSecret(relation, fields, data) ==
  [relation EXCEPT !.secret = ContentForGroup(data, fields),
                   !.mine = Put(Entry("secret-user", "uri"), @)]

\* _update_relation_secret: the fields that are not given keep their values
UpdateSecret(relation, fields, data) ==
  [relation EXCEPT !.secret = Put(ContentForGroup(data, fields), @)]

AddOrUpdateSecret(relation, fields, data) ==
  IF HasSecret(relation) THEN UpdateSecret(relation, fields, data)
  ELSE AddSecret(relation, fields, data)

-----------------------------------------------------------------------------
(* Fields, in the databag or in the secret *)

\* A relation that started on the databag stays on the databag
FallsBack(relation) == RequestedSecrets(relation) \cap DOMAIN relation.mine # {}

\* _process_secret_fields: the fields of those given that go to the secret
SecretFields(relation, fields) ==
  IF FallsBack(relation) THEN {} ELSE fields \cap RequestedSecrets(relation)

\* _update_relation_data_without_secrets
UpdateDatabag(relation, data) == [relation EXCEPT !.mine = Put(data, @)]

\* _update_relation_data.  The second chance that _process_secret_fields gives to a field
\* whose operation returned False is never taken by a write: _get_relation_secret looks
\* for the secret by the URI of the databag, and finds it or raises SecretNotFoundError,
\* so that _add_relation_secret meets no URI and _update_relation_secret a secret.  An
\* exception ends the hook, and nothing is written
Update(relation, data) ==
  LET hidden == SecretFields(relation, DOMAIN data)
  IN  IF hidden = {} THEN UpdateDatabag(relation, data)
      ELSE UpdateDatabag(AddOrUpdateSecret(relation, hidden, data), Without(data, hidden))

\* _fetch_relation_data_with_secrets: a field that is not found in the secret has its
\* second chance, and is looked up in the databag
Fetch(relation, field) ==
  LET secret == SecretContents(relation, SecretFields(relation, {field}))
  IN  IF field \in DOMAIN secret THEN secret[field] ELSE Get(relation.mine, field)

\* What the charm of the provider sets
SetDatabase(relation, name) == Update(relation, Entry("database", name))
SetCredentials(relation, username, password) ==
  Update(relation, Put(Entry("username", username), Entry("password", password)))
SetVersion(relation, version) == Update(relation, Entry("version", version))
SetEndpoints(relation, hosts) == Update(relation, Entry("endpoints", hosts))
SetReadOnlyEndpoints(relation, hosts) == Update(relation, Entry("read-only-endpoints", hosts))

\* The event that a change of the client's databag raises at the provider
DatabaseRequested(diff) == "database" \in diff.added

-----------------------------------------------------------------------------
(* The client *)

UserFields == {"username", "password"}

\* What a client that relates puts in its databag, all in one hook
Request(database, secrets, roles) ==
  Put(Entry("database", database),
      Put(Entry("requested-secrets", secrets), Put(Entry("extra-user-roles", roles), Empty)))

MainCredentialsShared(diff) ==
  "secret-user" \in diff.added \/ UserFields \subseteq diff.added

\* The client charm hears of the change as database_created, endpoints_changed or
\* read_only_endpoints_changed: of the first one only
Emits(diff) ==
  \/ MainCredentialsShared(diff)
  \/ {"endpoints", "read-only-endpoints"} \cap (diff.added \cup diff.changed) # {}

\* What its handler of any of them can read
Read(relation) ==
  [password |-> Fetch(relation, "password"),
   rw |-> Get(relation.mine, "endpoints"),
   ro |-> Get(relation.mine, "read-only-endpoints")]
=============================================================================
