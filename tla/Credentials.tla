---------------------------- MODULE Credentials ----------------------------
(***************************************************************************)
(* The passwords of the charm's own accounts: the action set-password      *)
(* changes the account in MySQL, through the primary, and then the secret  *)
(* of the application, which every later hook reads to log in.             *)
(*                                                                         *)
(* The action is split where it talks to MySQL, to Juju and to a service.  *)
(* Juju keeps a change of a secret until the hook ends, and refuses it to  *)
(* a unit that is not the leader.                                          *)
(***************************************************************************)
EXTENDS Naturals, FiniteSets

CONSTANTS Accounts,        \* The keys of USERNAME_TO_PASSWORD_KEY
          Operator,        \* The account that the charm itself uses
          Monitor,         \* The account of the exporter
          Strangers,       \* Users that are no accounts of the charm
          Passwords, TooLong,
          Keepers,         \* Units of the charm
          NoCall,          \* No action runs
          MaxPwMoves       \* Actions, changes of leadership and quorum, failures

ASSUME CredentialsAssumption ==
  /\ {Operator, Monitor} \subseteq Accounts /\ Operator # Monitor /\ Strangers \cap Accounts = {}
  /\ Passwords \subseteq Nat \ {0} /\ TooLong \subseteq Passwords
  /\ IsFiniteSet(Keepers) /\ Keepers # {} /\ MaxPwMoves \in Nat

\* An action that runs: its unit, the account and its new password, the operator's
\* password that its clients log in with, and how far it has come
Calls == [unit : Keepers, user : Accounts, password : Passwords, login : Passwords \cup {0},
          step : {"account", "secret", "exporter"}]

ASSUME NoCallAssumption == NoCall \notin Calls

VARIABLES
  vault,       \* The passwords in the secret of the application
  account,     \* The passwords of the accounts in MySQL
  exporter,    \* The password that the exporter of each unit uses
  pwLeader,
  quorum,      \* Whether the cluster has a primary
  call,        \* The action that runs
  answer,      \* What the last action answered: "ok" or "failed"
  astray,      \* Accounts whose action was disturbed: the hook died, the leadership
               \* moved, there was no primary, or an answer was lost
  pwMoves

pwVars == <<vault, account, exporter, pwLeader, quorum, call, answer, astray, pwMoves>>

CredentialsInit ==
  /\ vault = [a \in Accounts |-> 0] /\ account = vault
  /\ exporter = [u \in Keepers |-> 0]
  /\ pwLeader \in Keepers /\ quorum = TRUE
  /\ call = NoCall /\ answer = "ok" /\ astray = {} /\ pwMoves = 0

PwMove == pwMoves < MaxPwMoves /\ pwMoves' = pwMoves + 1

Fails == call' = NoCall /\ answer' = "failed"
Goes(step) == call' = [call EXCEPT !.step = step] /\ UNCHANGED answer

\* The hook ends well, and Juju writes the secret
Commits ==
  /\ call' = NoCall /\ answer' = "ok"
  /\ vault' = [vault EXCEPT ![call.user] = call.password]
  /\ astray' = IF account[call.user] = call.password THEN astray \ {call.user} ELSE astray

\* The clients of a hook log in with the operator's password as the hook found it
LogsIn == call.login = account[Operator]

-----------------------------------------------------------------------------

\* _on_set_password: refused for other users, and on a unit that is not the leader
SetPassword(u, a, p) ==
  /\ call = NoCall /\ PwMove
  /\ IF a \in Accounts /\ u = pwLeader
     THEN /\ call' = [unit |-> u, user |-> a, password |-> p, login |-> vault[Operator],
                      step |-> "account"]
          /\ UNCHANGED answer
     ELSE Fails
  /\ UNCHANGED <<vault, account, exporter, pwLeader, quorum, astray>>

(* Mistake: the secret first *)
SecretFirst ==
  /\ call # NoCall /\ call.step = "account"
  /\ vault' = [vault EXCEPT ![call.user] = call.password]
  /\ IF ~LogsIn \/ call.password \in TooLong
     THEN Fails /\ UNCHANGED <<account, astray>>
     ELSE /\ Goes("secret")
          /\ account' = IF quorum THEN [account EXCEPT ![call.user] = call.password] ELSE account
          /\ astray' = IF quorum THEN astray ELSE astray \cup {call.user}
  /\ UNCHANGED <<exporter, pwLeader, quorum, pwMoves>>

\* update_cluster_user: without a primary it returns as if it had done its work, and has
\* not looked at the length of the password
UpdateClusterUser ==
  /\ call # NoCall /\ call.step = "account"
  /\ IF ~LogsIn \/ (quorum /\ call.password \in TooLong)
     THEN Fails /\ UNCHANGED <<account, astray>>
     ELSE /\ Goes("secret")
          /\ account' = IF quorum THEN [account EXCEPT ![call.user] = call.password] ELSE account
          /\ astray' = IF quorum THEN astray ELSE astray \cup {call.user}
  /\ UNCHANGED <<vault, exporter, pwLeader, quorum, pwMoves>>

\* The statement fails, or its answer is lost: the action fails before it comes to the
\* secret
UserStatementFails ==
  /\ call # NoCall /\ call.step = "account" /\ LogsIn /\ quorum /\ PwMove
  /\ Fails
  /\ \/ UNCHANGED <<account, astray>>
     \/ /\ account' = [account EXCEPT ![call.user] = call.password]
        /\ astray' = astray \cup {call.user}
  /\ UNCHANGED <<vault, exporter, pwLeader, quorum>>

\* _update_password: the whole content is written back with one key changed, which is
\* refused to a unit that is not the leader any more
UpdatePassword ==
  /\ call # NoCall /\ call.step = "secret"
  /\ IF call.unit # pwLeader THEN Fails /\ UNCHANGED <<vault, astray>>
     ELSE IF call.user = Monitor THEN Goes("exporter") /\ UNCHANGED <<vault, astray>>
     ELSE Commits
  /\ UNCHANGED <<account, exporter, pwLeader, quorum, pwMoves>>

\* The exporter of this unit is set up again, stopped and started
RestartExporter ==
  /\ call # NoCall /\ call.step = "exporter" /\ Commits
  /\ exporter' = [exporter EXCEPT ![call.unit] = call.password]
  /\ UNCHANGED <<account, pwLeader, quorum, pwMoves>>

-----------------------------------------------------------------------------
(* What may happen meanwhile *)

\* The hook dies, or fails with an error that is not caught: the secret is not written
CallDies ==
  /\ call # NoCall /\ PwMove
  /\ Fails /\ astray' = astray \cup {call.user}
  /\ UNCHANGED <<vault, account, exporter, pwLeader, quorum>>

PwLeaderMoves(u) ==
  /\ u # pwLeader /\ PwMove /\ pwLeader' = u
  /\ astray' = IF call = NoCall THEN astray ELSE astray \cup {call.user}
  /\ UNCHANGED <<vault, account, exporter, quorum, call, answer>>

QuorumChanges ==
  /\ PwMove /\ quorum' = ~quorum
  /\ UNCHANGED <<vault, account, exporter, pwLeader, call, answer, astray>>

PwNext ==
  \/ UpdateClusterUser \/ UserStatementFails \/ UpdatePassword \/ RestartExporter
  \/ CallDies \/ QuorumChanges
  \/ \E u \in Keepers : PwLeaderMoves(u)
  \/ \E u \in Keepers, a \in Accounts \cup Strangers, p \in Passwords : SetPassword(u, a, p)

-----------------------------------------------------------------------------
(* Properties *)

(* Whenever no action runs, the secret holds the password of every account, *)
(* except of those whose action was disturbed, and whatever other actions   *)
(* failed or were refused; such an account is good again once another       *)
(* action for it has succeeded (_on_set_password, update_cluster_user,      *)
(* _update_password).                                                       *)
PasswordsAgree ==
  call = NoCall => \A a \in Accounts \ astray : vault[a] = account[a]
=============================================================================
