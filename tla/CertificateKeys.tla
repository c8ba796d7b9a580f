-------------------------- MODULE CertificateKeys --------------------------
(***************************************************************************)
(* The private keys of the certificates: an operator may name a secret     *)
(* with a key in an option, the units ask the provider for certificates    *)
(* made with it, and their servers use them.  The leader records the name  *)
(* in the databag of the application, and a unit asks again only when the  *)
(* option differs from the record.                                         *)
(*                                                                         *)
(* Client certificates and those of the peers are alike here; what follows *)
(* for the replication is in the module Reconfiguration.                   *)
(*                                                                         *)
(* The certificates library is external: with every hook of the relation,  *)
(* and with the refresh event, it replaces a request that was not made     *)
(* with the current key and announces the certificate for the request.     *)
(*                                                                         *)
(* Simplifications:                                                        *)
(*  - secrets are granted before they are named, and do not change;        *)
(*  - an event that was deferred is emitted again by the next hook.        *)
(***************************************************************************)
EXTENDS Naturals, Sequences, FiniteSets

CONSTANTS Holders,      \* Units of the charm
          Keys,         \* Secrets with a key
          BadKeys,      \* Those whose content is not a key
          NoKey,        \* No key, no request or no certificate
          MaxKeyMoves   \* Changes of the option, the relation, the servers and the leader

OwnKey == 0    \* The key that the library generates; also, no secret is named

ASSUME KeysAssumption ==
  /\ IsFiniteSet(Holders) /\ Holders # {} /\ BadKeys \subseteq Keys
  /\ Keys \subseteq Nat \ {OwnKey} /\ NoKey \notin Nat /\ MaxKeyMoves \in Nat

VARIABLES
  keyOption,    \* The secret that the option names
  keyRecord,    \* The secret in the databag of the application
  keyLeader,
  provider,     \* The relation: "none", "up" or "dying"
  certified,    \* The units
  keyRefresh,   \* Whether the charm is being refreshed
  unnoticed,    \* Whether the option is on record without a new request of the leader
  keyMoves

keyVars == <<keyOption, keyRecord, keyLeader, provider, certified, keyRefresh, unnoticed,
             keyMoves>>

(* A unit: the hooks to come, the events that were deferred, the key of its *)
(* request and whether the provider has answered it; whether its server     *)
(* runs, the keys of the certificate file and of the key file, whether the  *)
(* variables name them, and the key of the certificate the server uses.     *)
KeysInit ==
  /\ keyOption = OwnKey /\ keyRecord = OwnKey /\ keyLeader \in Holders
  /\ provider = "none" /\ keyRefresh = FALSE /\ unnoticed = FALSE
  /\ certified = [u \in Holders |->
       [config |-> FALSE, created |-> FALSE, changed |-> FALSE, deferred |-> <<>>,
        request |-> NoKey, answered |-> FALSE, runs |-> TRUE, cert |-> NoKey,
        key |-> NoKey, named |-> FALSE, tls |-> NoKey]]
  /\ keyMoves = 0

KeyMove == keyMoves < MaxKeyMoves /\ keyMoves' = keyMoves + 1

-----------------------------------------------------------------------------
(* Setting TLS on a server *)

\* parse_private_key
Valid(k) == k \notin BadKeys

\* _parse_private_key: the library is left to its own key if there is none
PrivateKey == IF keyOption # OwnKey /\ Valid(keyOption) THEN keyOption ELSE OwnKey

\* set_client_tls: the server loads a certificate and a key that belong together, and
\* keeps what it has otherwise
ReloadCerts(r) ==
  IF r.named /\ r.cert = r.key THEN [r EXCEPT !.tls = r.key] ELSE r

\* save_ca, save_cert, save_private_key: without a certificate only the key is saved
SaveFiles(r) ==
  IF r.answered THEN [r EXCEPT !.cert = r.request, !.key = PrivateKey, !.named = TRUE]
  ELSE [r EXCEPT !.key = PrivateKey, !.named = FALSE]

Defer(r, e) ==
  IF r.deferred # <<>> /\ r.deferred[Len(r.deferred)] = e THEN r
  ELSE [r EXCEPT !.deferred = Append(@, e)]

\* _on_certificate_available
EnableTls(r) == IF r.runs THEN ReloadCerts(SaveFiles(r)) ELSE Defer(r, "available")

\* _on_relation_broken
DisableTls(r) ==
  IF r.runs THEN [r EXCEPT !.tls = NoKey, !.named = FALSE]
  ELSE Defer(r, "broken")

\* The library: the request is replaced, the certificate announced
ConfigureRequest(r) ==
  IF provider # "up" \/ ~r.created THEN r
  ELSE IF r.request # PrivateKey THEN [r EXCEPT !.request = PrivateKey, !.answered = FALSE]
  ELSE IF r.answered THEN EnableTls(r) ELSE r

\* A hook begins: what was deferred comes first, in its order
Resume(u) ==
  LET queue == certified[u].deferred
      state[i \in 0 .. Len(queue)] ==
        IF i = 0 THEN [certified[u] EXCEPT !.deferred = <<>>]
        ELSE IF queue[i] = "available" THEN EnableTls(state[i - 1]) ELSE DisableTls(state[i - 1])
  IN  state[Len(queue)]

\* The leader forgets the secret when TLS is disabled, be it by the deferred event
Forgets(u) ==
  /\ u = keyLeader /\ certified[u].runs
  /\ \E i \in 1 .. Len(certified[u].deferred) : certified[u].deferred[i] = "broken"
RecordAfter(u) == IF Forgets(u) THEN OwnKey ELSE keyRecord

-----------------------------------------------------------------------------
(* Hooks *)

(* Mistake: a change of the option during a refresh is dropped *)
KeyChangeDropped(u) ==
  LET r == [Resume(u) EXCEPT !.config = FALSE]
  IN  /\ certified[u].config
      /\ IF keyOption = RecordAfter(u) \/ keyRefresh
         THEN certified' = [certified EXCEPT ![u] = r] /\ keyRecord' = RecordAfter(u)
         ELSE /\ certified' = [certified EXCEPT ![u] = ConfigureRequest(r)]
              /\ keyRecord' = IF u = keyLeader THEN keyOption ELSE RecordAfter(u)
      /\ UNCHANGED <<keyOption, keyLeader, provider, keyRefresh, unnoticed, keyMoves>>

\* _on_config_changed, which waits for the end of a refresh
KeyChanged(u) ==
  LET r == [Resume(u) EXCEPT !.config = FALSE]
      same == keyOption = RecordAfter(u)
  IN  /\ certified[u].config /\ (same \/ ~keyRefresh)
      /\ certified' = [certified EXCEPT ![u] = IF same THEN r ELSE ConfigureRequest(r)]
      /\ keyRecord' = IF ~same /\ u = keyLeader THEN keyOption ELSE RecordAfter(u)
      /\ unnoticed' = IF ~same /\ u = keyLeader THEN r.request = PrivateKey ELSE unnoticed
      /\ UNCHANGED <<keyOption, keyLeader, provider, keyRefresh, keyMoves>>

\* relation-created and relation-changed, which only the library observes
ProviderChanged(u) ==
  /\ provider = "up" /\ (~certified[u].created \/ certified[u].changed)
  /\ certified' = [certified EXCEPT ![u] =
       ConfigureRequest([Resume(u) EXCEPT !.created = TRUE, !.changed = FALSE])]
  /\ keyRecord' = RecordAfter(u)
  /\ UNCHANGED <<keyOption, keyLeader, provider, keyRefresh, unnoticed, keyMoves>>

ProviderBroken(u) ==
  /\ provider = "dying" /\ certified[u].created
  /\ certified' = [certified EXCEPT ![u] =
       DisableTls([Resume(u) EXCEPT !.created = FALSE, !.changed = FALSE, !.request = NoKey,
                             !.answered = FALSE])]
  /\ keyRecord' = IF u = keyLeader /\ certified[u].runs THEN OwnKey ELSE keyRecord
  /\ provider' = IF \E v \in Holders \ {u} : certified[v].created THEN "dying" ELSE "none"
  /\ UNCHANGED <<keyOption, keyLeader, keyRefresh, unnoticed, keyMoves>>

\* Any other hook
ResumeDeferred(u) ==
  /\ certified[u].deferred # <<>> /\ certified[u].runs
  /\ certified' = [certified EXCEPT ![u] = Resume(u)]
  /\ keyRecord' = RecordAfter(u)
  /\ UNCHANGED <<keyOption, keyLeader, provider, keyRefresh, unnoticed, keyMoves>>

-----------------------------------------------------------------------------
(* The provider, the operator and the machines *)

\* The certificate is written to the relation, and every unit is told
IssueCertificateFor(u) ==
  /\ provider = "up" /\ certified[u].request # NoKey /\ ~certified[u].answered
  /\ certified' = [v \in Holders |-> 
       [certified[v] EXCEPT !.changed = certified[v].created, !.answered = (v = u) \/ @]]
  /\ UNCHANGED <<keyOption, keyRecord, keyLeader, provider, keyRefresh, unnoticed, keyMoves>>

NameKey(k) ==
  /\ k # keyOption /\ KeyMove
  /\ keyOption' = k /\ unnoticed' = (k = keyRecord)
  /\ certified' = [u \in Holders |-> [certified[u] EXCEPT !.config = TRUE]]
  /\ UNCHANGED <<keyRecord, keyLeader, provider, keyRefresh>>

RelateProvider ==
  /\ provider = "none" /\ KeyMove /\ provider' = "up"
  /\ UNCHANGED <<keyOption, keyRecord, keyLeader, certified, keyRefresh, unnoticed>>

UnrelateProvider ==
  /\ provider = "up" /\ KeyMove
  /\ provider' = IF \E u \in Holders : certified[u].created THEN "dying" ELSE "none"
  /\ UNCHANGED <<keyOption, keyRecord, keyLeader, certified, keyRefresh, unnoticed>>

KeyLeaderMoves(u) ==
  /\ u # keyLeader /\ KeyMove /\ keyLeader' = u
  /\ UNCHANGED <<keyOption, keyRecord, provider, certified, keyRefresh, unnoticed>>

HolderStops(u) ==
  /\ certified[u].runs /\ KeyMove
  /\ certified' = [certified EXCEPT ![u].runs = FALSE]
  /\ UNCHANGED <<keyOption, keyRecord, keyLeader, provider, keyRefresh, unnoticed>>

\* A server that starts reads the files its variables name, or goes without TLS
HolderStarts(u) ==
  LET r == certified[u]
  IN  /\ ~r.runs
      /\ certified' = [certified EXCEPT ![u] =
           [r EXCEPT !.runs = TRUE, !.tls = IF r.named /\ r.cert = r.key THEN r.key ELSE NoKey]]
      /\ UNCHANGED <<keyOption, keyRecord, keyLeader, provider, keyRefresh, unnoticed, keyMoves>>

RefreshOfKeys ==
  \/ ~keyRefresh /\ KeyMove /\ keyRefresh' = TRUE
     /\ UNCHANGED <<keyOption, keyRecord, keyLeader, provider, certified, unnoticed>>
  \/ keyRefresh /\ keyRefresh' = FALSE
     /\ UNCHANGED <<keyOption, keyRecord, keyLeader, provider, certified, unnoticed, keyMoves>>

KeyHook ==
  \/ keyRefresh /\ RefreshOfKeys
  \/ \E u \in Holders : \/ KeyChanged(u) \/ ProviderChanged(u) \/ ProviderBroken(u)
                        \/ ResumeDeferred(u) \/ IssueCertificateFor(u) \/ HolderStarts(u)

KeyNext ==
  \/ KeyHook \/ RefreshOfKeys \/ RelateProvider \/ UnrelateProvider
  \/ \E k \in Keys \cup {OwnKey} : NameKey(k)
  \/ \E u \in Holders : KeyLeaderMoves(u) \/ HolderStops(u)

-----------------------------------------------------------------------------
(* Properties *)

(* Once events have settled, every server uses a certificate made with the  *)
(* key that the option names, or with the unit's own key if it names none   *)
(* or none that is valid, and no certificate where the provider is gone:    *)
(* although only some units find that the option differs from the leader's  *)
(* record, although servers stop and start, and although a key may change   *)
(* while a certificate for the former one is on its way                     *)
(* (_on_config_changed, _on_certificate_available, _on_relation_broken).    *)
(* Other units follow because the certificate of the leader's new request   *)
(* wakes them; so not where the option comes to be on record without such a *)
(* request, which is when it is set back to the secret on record, or to one *)
(* for which the leader has made its request already.                       *)
CertificatesFollowKey ==
  <>[](unnoticed \/ \A u \in Holders :
         certified[u].tls = IF provider = "up" THEN PrivateKey ELSE NoKey)
=============================================================================
