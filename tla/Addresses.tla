----------------------------- MODULE Addresses -----------------------------
(***************************************************************************)
(* Addresses of the machine charm: a process beside every unit watches the *)
(* address of the machine and raises address-changed; the unit publishes   *)
(* its name, and its peers rewrite their /etc/hosts.                       *)
(*                                                                         *)
(* What a unit publishes is the address in its databag, which is written   *)
(* when the peer relation is created and never again (set_unit_address).   *)
(***************************************************************************)
EXTENDS Naturals, FiniteSets

CONSTANTS Residents,     \* Units of the charm, those that may be added included
          NewResidents,  \* Those that are not there at first
          NoAddress,
          NoWatcher,
          Loopback,      \* The entry that MAAS injects
          MaxHostMoves   \* Addresses that change, reboots, units added or removed, failures

ASSUME AddressesAssumption ==
  /\ IsFiniteSet(Residents) /\ NewResidents \subseteq Residents /\ NewResidents # Residents
  /\ NoAddress \notin Nat /\ Loopback \notin Nat /\ MaxHostMoves \in Nat

VARIABLES host, hostMoves

hostVars == <<host, hostMoves>>

(* A unit: its address and that in its databag, the address published with  *)
(* its name, the entries of its /etc/hosts; the peers that have joined and  *)
(* whether a relation hook is due; the address that its watcher compares    *)
(* with, none before the first comparison;                                  *)
(* whether the recorded process is alive, be it another one; whether        *)
(* address-changed was raised, whether the server runs, and whether the     *)
(* address changed while nobody compared.                                   *)
AddressInit ==
  /\ host = [u \in Residents |->
       [there |-> u \notin NewResidents, address |-> 0, databag |-> 0, published |-> NoAddress,
        file |-> {<<u, Loopback>>}, joined |-> Residents \ (NewResidents \cup {u}), due |-> FALSE,
        watcher |-> NoAddress, process |-> TRUE, raised |-> FALSE, server |-> TRUE, missed |-> FALSE]]
  /\ hostMoves = 0

HostMove == hostMoves < MaxHostMoves /\ hostMoves' = hostMoves + 1
Present == {u \in Residents : host[u].there}

-----------------------------------------------------------------------------
(* The watcher *)

\* running: a process has the identifier in the databag, whichever process it is
Running(r) == r.process

\* Every hook starts the watcher unless it seems to run
StartService(r) == IF Running(r) THEN r ELSE [r EXCEPT !.process = TRUE, !.watcher = NoAddress]

\* The loop of main: the first address is only kept, a later one that differs is dispatched
Compare(r, address) == [r EXCEPT !.watcher = address, !.raised = r.watcher # NoAddress]

\* While the event is dispatched, it does not compare
Watching(r) == r.there /\ r.watcher # NoWatcher /\ ~r.raised

Watch(u) ==
  /\ Watching(host[u]) /\ host[u].watcher # host[u].address
  /\ host' = [host EXCEPT ![u] = Compare(@, host[u].address)]
  /\ UNCHANGED hostMoves

\* _resolve_local_address: without a route, the address is the loopback's
WatchUnresolved(u) ==
  /\ Watching(host[u]) /\ host[u].watcher # Loopback /\ HostMove
  /\ host' = [host EXCEPT ![u] = Compare(@, Loopback)]

\* Any other hook
UpdateStatus(u) ==
  /\ host[u].there /\ StartService(host[u]) # host[u]
  /\ host' = [host EXCEPT ![u] = StartService(host[u])]
  /\ UNCHANGED hostMoves

-----------------------------------------------------------------------------
(* AddressEventHandler *)

\* get_unit_address, set_unit_address: of the databag, not of the machine
UnitAddress(r) == r.databag
SetUnitAddress(r) == [r EXCEPT !.databag = r.address]

\* _update_hostname; the units that have joined hear of a change
UpdateHostname(u, r) ==
  LET s == [r EXCEPT !.published = UnitAddress(r)]
  IN  [v \in Residents |-> IF v = u THEN s
                       ELSE IF u \in host[v].joined /\ s.published # host[u].published
                       THEN [host[v] EXCEPT !.due = TRUE] ELSE host[v]]

\* _on_address_change
OnAddressChange(u) ==
  LET r == [StartService(host[u]) EXCEPT !.raised = FALSE, !.server = TRUE]
  IN  /\ host[u].there /\ host[u].raised
      /\ host' = UpdateHostname(u, r)
      /\ UNCHANGED hostMoves

\* The server does not start again: nothing is published, dispatch fails and takes the
\* watcher with it, and Juju does not repeat what juju-exec ran
AddressChangeFails(u) ==
  /\ host[u].there /\ host[u].raised /\ HostMove
  /\ host' = [host EXCEPT ![u] = [@ EXCEPT !.raised = FALSE, !.server = FALSE, !.missed = TRUE,
                                          !.watcher = NoWatcher, !.process = FALSE]]

\* _collect_peer_hostnames
PeerHostnames(r) ==
  {<<v, host[v].published>> : v \in {w \in r.joined : host[w].published # NoAddress}}

(* Mistake: the entries of before stay *)
CleanupNothing(r) == r

\* remove_hosts: the entries of the charm and that of MAAS
CleanupHosts(r) == [r EXCEPT !.file = {}]
UpdateHosts(r, names) == [r EXCEPT !.file = @ \cup names]

\* Nothing is done where no peer has published a name
ReplaceHosts(r) ==
  IF PeerHostnames(r) = {} THEN r ELSE UpdateHosts(CleanupHosts(r), PeerHostnames(r))

\* _on_relation_event: with the peers that the relation has now
OnRelationEvent(u) ==
  LET r == StartService(host[u])
      now == Present \ {u}
  IN  /\ r.there /\ (r.due \/ r.joined # now)
      /\ host' = [host EXCEPT ![u] = ReplaceHosts([r EXCEPT !.due = FALSE, !.joined = now])]
      /\ UNCHANGED hostMoves

\* The file cannot be written: it was emptied before, and Juju runs the hook again
HostsNotWritten(u) ==
  LET r == StartService(host[u])
      now == Present \ {u}
      s == [r EXCEPT !.due = TRUE, !.joined = now]
  IN  /\ r.there /\ (r.due \/ r.joined # now) /\ PeerHostnames(s) # {} /\ HostMove
      /\ host' = [host EXCEPT ![u] = CleanupHosts(s)]

-----------------------------------------------------------------------------
(* The machines, and the operator *)

Unwatched(r) == r.watcher \in {NoAddress, NoWatcher}

\* The address changes while the machine runs
AddressMoves(u) ==
  /\ host[u].there /\ HostMove
  /\ host' = [host EXCEPT ![u].address = @ + 1, ![u].missed = @ \/ Unwatched(host[u])]

\* A reboot ends the watcher, and its identifier may be that of another process after it
Reboot(u) ==
  /\ host[u].there /\ HostMove
  /\ \E moves \in {0, 1}, reused \in BOOLEAN :
       host' = [host EXCEPT ![u] = [@ EXCEPT
         !.address = @ + moves, !.watcher = NoWatcher, !.process = reused,
         !.missed = @ \/ moves = 1 \/ host[u].raised \/ host[u].watcher # host[u].address,
         !.raised = FALSE]]

\* set_unit_address, when the peer relation is created
HostAdded(u) ==
  /\ ~host[u].there /\ u \in NewResidents /\ HostMove
  /\ \A v \in Present : u \notin host[v].joined
  /\ host' = [host EXCEPT ![u] = [SetUnitAddress(@) EXCEPT !.there = TRUE,
       !.published = NoAddress, !.file = {<<u, Loopback>>}, !.joined = {}, !.due = FALSE,
       !.watcher = NoAddress, !.process = TRUE, !.raised = FALSE, !.server = TRUE, !.missed = FALSE]]

HostRemoved(u) ==
  /\ host[u].there /\ Present # {u} /\ u \in NewResidents /\ HostMove
  /\ host' = [host EXCEPT ![u].there = FALSE, ![u].published = NoAddress]

HostHook(u) ==
  Watch(u) \/ UpdateStatus(u) \/ OnAddressChange(u) \/ OnRelationEvent(u)

AddressNext ==
  \E u \in Residents : \/ HostHook(u) \/ WatchUnresolved(u) \/ AddressChangeFails(u) \/ HostsNotWritten(u)
                   \/ AddressMoves(u) \/ Reboot(u) \/ HostAdded(u) \/ HostRemoved(u)

-----------------------------------------------------------------------------
(* Properties *)

(* When events have settled, /etc/hosts of every unit has what its peers    *)
(* publish, nothing of a unit that has left and no entry of MAAS, unless no *)
(* peer publishes anything; and a unit whose address changed has published  *)
(* its name and has its server running (_on_address_change,                 *)
(* _on_relation_event).  Not so if the address changed while the watcher    *)
(* did not compare: before its first comparison, after a reboot, or after a *)
(* failed event.                                                            *)
HostsFollowPeers ==
  \A u \in Residents : <>[](host[u].there =>
    LET peers == {v \in Present \ {u} : host[v].published # NoAddress} IN
    /\ peers # {} => host[u].file = {<<v, host[v].published>> : v \in peers}
    /\ (host[u].address # host[u].databag /\ ~host[u].missed)
          => host[u].published # NoAddress /\ host[u].server)
=============================================================================
