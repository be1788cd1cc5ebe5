-------------------------- MODULE DiscoveryService --------------------------
(* The discovery of consoles on the network (lib/src/discoveryservice.c,        *)
(* discovery.c): one thread pings and drops the hosts that no longer answer,    *)
(* another receives the answers; both change the list under state_mutex and     *)
(* report it to the application with the mutex held.                          *)
EXTENDS Naturals, Sequences, FiniteSets

CONSTANTS
  Hosts,     \* the consoles
  HostsMax,  \* hosts_max
  DropPings, \* host_drop_pings
  PingsMax   \* bound: pings

VARIABLES
  pinger,    \* where discovery_service_thread_func is
  receiver,  \* where discovery_thread_func is
  pingIndex, \* ping_index
  hosts,     \* hosts with their state and last_ping_index
  reported,  \* the list the application was told last
  stopping   \* stop_cond

vars == <<pinger, receiver, pingIndex, hosts, reported, stopping>>

(* chiaki_discovery_service_init.                                            *)
Init ==
  /\ pinger = "start" /\ receiver = "none" /\ pingIndex = 0
  /\ hosts = <<>> /\ reported = <<>> /\ stopping = FALSE

(* Another part of the system moves.                                         *)
AtRest ==
  /\ pinger = "joined" /\ receiver = "none" /\ pingIndex = PingsMax
  /\ hosts = <<>> /\ reported = <<>> /\ stopping = TRUE

Known(list) == [i \in DOMAIN list |-> <<list[i].id, list[i].state>>]

(* The receiving thread is started, or nothing is done until the end.         *)
Start ==
  /\ pinger = "start"
  /\ \/ pinger' = "wait" /\ receiver' = "run"
     \/ pinger' = "ended" /\ UNCHANGED receiver
  /\ UNCHANGED <<pingIndex, hosts, reported, stopping>>

Old(h, now) == h.seen + DropPings < now
(* Mutant: after every host that is dropped the next one is passed over.       *)
Stays_AfterOld(list, i, now) == ~Old(list[i], now) \/ (i > 1 /\ Old(list[i - 1], now))

(* discovery_service_drop_old_hosts: after the host at the first place was      *)
(* dropped the next one is passed over.                                      *)
Stays(list, i, now) == ~Old(list[i], now) \/ (i = 2 /\ Old(list[1], now))
Dropped(list, now) ==
  LET left == {i \in DOMAIN list : Stays(list, i, now)}
      place(n) == CHOOSE i \in left : Cardinality({j \in left : j < i}) = n - 1
  IN [n \in 1 .. Cardinality(left) |-> list[place(n)]]

(* discovery_service_ping.                                                   *)
Ping ==
  /\ pinger = "wait" /\ ~stopping /\ pingIndex < PingsMax
  /\ pingIndex' = pingIndex + 1
  /\ hosts' = Dropped(hosts, pingIndex + 1)
  /\ reported' = IF hosts' # hosts THEN Known(hosts') ELSE reported
  /\ UNCHANGED <<pinger, receiver, stopping>>

(* discovery_service_host_received; an answer without an id is ignored.       *)
Answer ==
  /\ receiver = "run"
  /\ \E id \in Hosts, state \in {"ready", "standby"} :
       LET at == {i \in DOMAIN hosts : hosts[i].id = id}
           h == [id |-> id, state |-> state, seen |-> pingIndex] IN
       hosts' = IF at # {} THEN [hosts EXCEPT ![CHOOSE i \in at : TRUE] = h]
                ELSE IF Len(hosts) = HostsMax THEN hosts ELSE Append(hosts, h)
  /\ reported' = IF Known(hosts') # Known(hosts) THEN Known(hosts') ELSE reported
  /\ UNCHANGED <<pinger, receiver, pingIndex, stopping>>

(* An error of the socket ends the receiving thread for good.                 *)
ReceiverFails ==
  /\ receiver = "run" /\ receiver' = "ended"
  /\ UNCHANGED <<pinger, pingIndex, hosts, reported, stopping>>

(* chiaki_discovery_service_fini: stop_cond, then the pinging thread stops and  *)
(* joins the receiving one.                                                  *)
Fini == ~stopping /\ stopping' = TRUE /\ UNCHANGED <<pinger, receiver, pingIndex, hosts, reported>>
Stopped ==
  /\ pinger = "wait" /\ stopping /\ pinger' = "stop"
  /\ UNCHANGED <<receiver, pingIndex, hosts, reported, stopping>>
ReceiverStops ==
  /\ receiver = "run" /\ pinger = "stop" /\ receiver' = "ended"
  /\ UNCHANGED <<pinger, pingIndex, hosts, reported, stopping>>
ReceiverJoined ==
  /\ pinger = "stop" /\ receiver = "ended" /\ pinger' = "ended"
  /\ UNCHANGED <<receiver, pingIndex, hosts, reported, stopping>>
Joined ==
  /\ stopping /\ pinger = "ended" /\ pinger' = "joined"
  /\ UNCHANGED <<receiver, pingIndex, hosts, reported, stopping>>

Next == \/ Start \/ Ping \/ Answer \/ ReceiverFails \/ Fini \/ Stopped \/ ReceiverStops
        \/ ReceiverJoined \/ Joined
Spec == Init /\ [][Next]_vars

------------------------------------------------------------------------------
(* What the application was told is the list, each console once, and a console  *)
(* that stopped answering is in it for at most one ping too long.              *)
ListIsCurrent ==
  /\ reported = Known(hosts)
  /\ \A i, j \in DOMAIN hosts : hosts[i].id = hosts[j].id => i = j
  /\ \A i \in DOMAIN hosts : ~Old(hosts[i], pingIndex - 1) \/ pingIndex = 0
=============================================================================
