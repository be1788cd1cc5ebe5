------------------------------ MODULE MCRemote ------------------------------
(* The parts that reach a console: holepunch session, candidates, reliable     *)
(* messages, registration and discovery. Each runs on threads and state of     *)
(* its own and hands its result to the next one as a value, so one of them     *)
(* moves at a time and the others are at rest.                                *)
EXTENDS Holepunch

CONSTANTS Offered, RandomSocks, Extras, Tries, Arrivals, Ports
VARIABLES place, random, sockets, watched, tries, derived, responded, packet, out, peer, outcome, asked, arrived
Cand == INSTANCE Candidates
ASSUME OfferedAssumption == 0 \notin Offered \* it stands for an address that is not offered
ASSUME PortsAssumption == \A p \in Ports : p \in Nat /\ 1023 <= p /\ p <= 65523 \* four answers fit
candVars == <<place, random, sockets, watched, tries, derived, responded, packet, out, peer, outcome, asked, arrived>>

CONSTANTS Senders, Room, TriesMax, MessagesMax
VARIABLES counter, sender, buffer, stored, resend, fini, sent
Rudp == INSTANCE Rudp
rudpVars == <<counter, sender, buffer, stored, resend, fini, sent>>

CONSTANTS RegistTries, AddressesMax, ReadsMax
VARIABLES step, overPsn, stop, try, untried, sock, left, found, event
Reg == INSTANCE Regist
regVars == <<step, overPsn, stop, try, untried, sock, left, found, event>>

CONSTANTS Hosts, HostsMax, DropPings, PingsMax
VARIABLES pinger, receiver, pingIndex, hosts, reported, stopping
Disc == INSTANCE DiscoveryService
ASSUME DropAssumption == DropPings \in Nat /\ PingsMax \in Nat
discVars == <<pinger, receiver, pingIndex, hosts, reported, stopping>>

MCInit ==
  \/ Init /\ Cand!AtRest /\ Rudp!AtRest /\ Reg!AtRest /\ Disc!AtRest
  \/ AtRest /\ Cand!Init /\ Rudp!AtRest /\ Reg!AtRest /\ Disc!AtRest
  \/ AtRest /\ Cand!AtRest /\ Rudp!Init /\ Reg!AtRest /\ Disc!AtRest
  \/ AtRest /\ Cand!AtRest /\ Rudp!AtRest /\ Reg!Init /\ Disc!AtRest
  \/ AtRest /\ Cand!AtRest /\ Rudp!AtRest /\ Reg!AtRest /\ Disc!Init

MCNext ==
  \/ Next /\ UNCHANGED <<candVars, rudpVars, regVars, discVars>>
  \/ Cand!Next /\ UNCHANGED <<vars, rudpVars, regVars, discVars>>
  \/ Rudp!Next /\ UNCHANGED <<vars, candVars, regVars, discVars>>
  \/ Reg!Next /\ UNCHANGED <<vars, candVars, rudpVars, discVars>>
  \/ Disc!Next /\ UNCHANGED <<vars, candVars, rudpVars, regVars>>

MCSpec ==
  /\ MCInit /\ [][MCNext]_<<vars, candVars, rudpVars, regVars, discVars>>
  /\ Fairness
  /\ WF_rudpVars(Rudp!Thread) /\ WF_rudpVars(Rudp!Fini) /\ \A s \in Senders : WF_rudpVars(Rudp!Push(s))
  /\ WF_regVars(Reg!Thread \/ Reg!Join)

(* What the modules say of their state (Candidates, DiscoveryService): the      *)
(* sockets that are left, that the list is current.                            *)
OneSocketIsLeft == Cand!OneSocketIsLeft
ListIsCurrent == Disc!ListIsCurrent
(* Nobody waits for ever for a console that does not answer: the calls of a      *)
(* holepunch session return, also its fini while the websocket thread is busy     *)
(* (Holepunch), the buffer of reliable messages empties and its fini returns      *)
(* (Rudp), a registration ends (Regist).                                                            *)
EveryCallReturns == WaitsAreBounded /\ FiniReturns /\ Rudp!BufferEmpties /\ Reg!RegistEnds
=============================================================================
