---------------------------- MODULE Candidates ----------------------------
(* The candidates of a connection through NATs (lib/src/remote/holepunch.c,    *)
(* stun.h): the ports our own router is expected to give us, which the offer    *)
(* names, and the choice among the addresses the console offers.              *)
(* check_candidates sends one request to every address and takes the first     *)
(* that answers it (CHECK_CANDIDATES_REQUEST_NUMBER is 1: the branches for     *)
(* further requests are never taken). Sending to an address that could not be  *)
(* resolved reads an uninitialized sockaddr; the packet goes nowhere.          *)
EXTENDS Integers, Sequences, FiniteSets

CONSTANTS
  Offered,   \* the console's candidates
  RandomSocks, \* the extra sockets (RANDOM_ALLOCATION_SOCKS_NUMBER: 250)
  Extras,    \* EXTRA_CANDIDATE_ADDRESSES
  Tries,     \* SELECT_CANDIDATE_TRIES
  Arrivals,  \* bound: packets that arrive
  Ports      \* the ports the router starts from

VARIABLES
  place,     \* where check_candidates is
  random,    \* stun_random_allocation
  sockets,   \* the sockets that are open
  watched,   \* fds
  tries,     \* retry_counter
  derived,   \* extra_addresses_used
  responded, \* responded: a request of the console was answered
  packet,    \* the packet being handled
  out,       \* *out
  peer,      \* whom the socket in out is connected to
  outcome,   \* the error returned, or "none"
  asked,     \* history: whom we sent our request
  arrived    \* packets so far

vars == <<place, random, sockets, watched, tries, derived, responded, packet, out, peer, outcome, asked, arrived>>

------------------------------------------------------------------------------
(* stun_port_allocation_test: what up to four answers of STUN servers say      *)
(* about the ports of the router.                                            *)
Truncated(a, n) == IF a >= 0 THEN a \div n ELSE -((-a) \div n)
Sure(inc) == [inc |-> inc, random |-> FALSE]
Checked(inc, other) == [inc |-> IF inc = 0 THEN other ELSE inc, random |-> inc # other]

(* All addresses are the same: the differences are unsigned.                 *)
Steady(o) ==
  LET u(i) == (o[i + 1].port - o[i].port) % 65536
  IN CASE u(1) \in {u(2), u(3)} -> Sure(u(1))
       [] u(1) \notin {u(2), u(3)} /\ u(2) = u(3) -> Sure(u(2))
       [] OTHER -> [inc |-> IF u(1) # 0 THEN u(1) ELSE u(2), random |-> TRUE]

Allocation(o) ==
  LET n == Len(o)
      same(i, j) == o[i].addr = o[j].addr
      d(i, j) == o[j].port - o[i].port
  IN CASE n = 1 -> Sure(0)
       [] n = 2 -> Sure(IF same(1, 2) THEN d(1, 2) ELSE 0)
       [] n = 3 /\ same(1, 2) -> IF same(1, 3) THEN Checked(d(1, 2), d(2, 3)) ELSE Sure(d(1, 2))
       [] n = 3 /\ ~same(1, 2) -> Sure(IF same(1, 3) THEN Truncated(d(1, 3), 2) ELSE IF same(2, 3) THEN d(2, 3) ELSE 0)
       [] n = 4 /\ ~same(1, 2) /\ (same(1, 3) \/ same(1, 4)) ->
            IF same(1, 3) /\ same(1, 4) THEN Checked(d(3, 4), Truncated(d(1, 3), 2))
            ELSE Sure(IF same(1, 4) THEN Truncated(d(1, 4), 4) ELSE Truncated(d(1, 3), 2))
       [] n = 4 /\ ~same(1, 2) /\ ~same(1, 3) /\ ~same(1, 4) ->
            IF same(2, 3) /\ same(2, 4) THEN Checked(d(3, 4), d(2, 3))
            ELSE Sure(IF same(2, 4) THEN Truncated(d(1, 4), 4)
                      ELSE IF same(2, 3) THEN Truncated(d(1, 3), 2)
                      ELSE IF same(3, 4) THEN d(4, 3) ELSE 0)
       [] n = 4 /\ same(1, 2) /\ ~same(2, 3) ->
            IF same(2, 4) THEN Checked(d(1, 2), Truncated(d(2, 4), 2)) ELSE Sure(d(1, 2))
       [] n = 4 /\ same(1, 2) /\ same(2, 3) /\ ~same(3, 4) -> Checked(d(1, 2), d(2, 3))
       [] OTHER -> Steady(o)

(* The port the offer starts from.                                           *)
FirstPort(o) ==
  LET n == Len(o)
      inc == Allocation(o).inc
  IN (o[n].port + (CASE n = 2 -> 2 * inc [] n = 3 -> inc [] OTHER -> 0)) % 65536

(* Mutant: a port beyond the last one starts again at the first.              *)
NextPort_Wraps(p, inc) == (p + inc) % 65536

(* The port after p; the well-known ports are left out.                      *)
NextPort(p, inc) ==
  LET q == p + inc
  IN CASE q < 1024 /\ p > 1024 -> 65535 - (1024 - q)
       [] q < 1 /\ p <= 1024 -> q + 65535
       [] q > 65535 -> q - 65535 + 1024
       [] OTHER -> q

(* The eight ports after the first, or 75 from the first on, in the dynamic range *)
(* when they reach the last.                                                 *)
Later(first, inc) ==
  LET port[i \in 1 .. 8] == NextPort(IF i = 1 THEN first ELSE port[i - 1], inc) IN {port[i] : i \in 1 .. 8}
Dense(first) == {IF first + i <= 65535 THEN first + i ELSE 49152 + (first + i - 65536) : i \in 0 .. 74}

(* holepunch_session_create_offer: the STUN candidates of the offer.          *)
Guesses(o) ==
  LET a == Allocation(o)
  IN IF a.inc = 0 THEN {FirstPort(o)} ELSE IF a.random THEN Dense(FirstPort(o)) ELSE Later(FirstPort(o), a.inc)

------------------------------------------------------------------------------
Family(s) == IF s = "v6" THEN "v6" ELSE "v4"
New == 0
Known == Offered \cup (1..derived)
Derived(from) == from \in 1..Extras

Init ==
  /\ place = "open" /\ random \in BOOLEAN
  /\ sockets \in {{"v4"}, {"v4", "v6"}}
  /\ watched = {} /\ tries = 0 /\ derived = 0 /\ responded = FALSE
  /\ packet = <<>> /\ out = "none" /\ peer = 0 /\ outcome = "none"
  /\ asked = {} /\ arrived = 0

(* Another part of the system moves.                                         *)
AtRest ==
  /\ place = "done" /\ random = FALSE /\ sockets = {}
  /\ watched = {} /\ tries = 0 /\ derived = 0 /\ responded = FALSE
  /\ packet = <<>> /\ out = "none" /\ peer = 0 /\ outcome = "none"
  /\ asked = {} /\ arrived = 0

Main == sockets \ RandomSocks

(* The extra sockets are opened and a request sent to every candidate; what   *)
(* cannot be opened or reached is left out.                                  *)
SendRequests ==
  /\ place = "open"
  /\ \E extra \in IF random THEN SUBSET RandomSocks ELSE {{}}, reached \in SUBSET Offered :
       /\ sockets' = sockets \cup extra
       /\ asked' = reached
       /\ place' = IF reached = {} THEN "failed" ELSE "select"
       /\ watched' = sockets \cup extra
  /\ outcome' = IF place' = "failed" THEN "NETWORK" ELSE outcome
  /\ UNCHANGED <<random, tries, derived, responded, packet, out, peer, arrived>>

(* The select times out: everybody is asked again, or it is the last time.    *)
Retry ==
  /\ place = "select" /\ tries < Tries
  /\ tries' = tries + 1 /\ watched' = sockets
  /\ asked' = asked \cup Known
  /\ UNCHANGED <<place, random, sockets, derived, responded, packet, out, peer, outcome, arrived>>

Fail(error) ==
  /\ place' = "failed" /\ outcome' = error
  /\ UNCHANGED <<random, sockets, watched, tries, derived, responded, packet, out, peer, asked, arrived>>

GiveUp == place = "select" /\ tries = Tries /\ Fail("HOST_UNREACH")
SelectFails == place = "select" /\ Fail("NETWORK")

(* Of the sockets that are ready the first is read; only the ready ones are   *)
(* watched from now on.                                                      *)
First(ready) == CASE "v4" \in ready -> "v4"
                  [] "v4" \notin ready /\ "v6" \in ready -> "v6"
                  [] OTHER -> CHOOSE s \in ready : TRUE
Receive ==
  /\ place = "select" /\ arrived < Arrivals
  /\ \E ready \in SUBSET watched \ {{}}, from \in Known \cup {New},
        kind \in {"REQ", "RESP", "STRAY", "SHORT", "OTHER"} :
       /\ kind = "RESP" => from \in asked
       /\ watched' = ready
       /\ IF from = New /\ derived = Extras THEN UNCHANGED <<derived, packet, place>>
          ELSE /\ derived' = IF from = New THEN derived + 1 ELSE derived
               /\ packet' = <<First(ready), IF from = New THEN derived + 1 ELSE from, kind>>
               /\ place' = "got"
  /\ arrived' = arrived + 1
  /\ UNCHANGED <<random, sockets, tries, responded, out, peer, outcome, asked>>

Sock == packet[1]
From == packet[2]
Kind == packet[3]
Select == place' = "select" /\ UNCHANGED <<sockets, out, peer, outcome>>

(* A packet that is no answer of the console's. From an address of the offer  *)
(* it is an error, from others it is ignored; so is an answer to another       *)
(* request.                                                                  *)
Unexpected ==
  /\ place = "got" /\ Kind \in {"SHORT", "OTHER", "STRAY"}
  /\ IF Derived(From) \/ Kind = "STRAY" THEN place' = "select" /\ UNCHANGED outcome
     ELSE place' = "failed" /\ outcome' = IF Kind = "SHORT" THEN "NETWORK" ELSE "UNKNOWN"
  /\ UNCHANGED <<random, sockets, watched, tries, derived, responded, packet, out, peer, asked, arrived>>

(* A request of the console is answered; an address that was not asked yet is  *)
(* asked. When that fails the function ends with what the answer returned.    *)
AnswerRequest ==
  /\ place = "got" /\ Kind = "REQ"
  /\ responded' = TRUE
  /\ \E sent \in {"SUCCESS", "NETWORK"} :
       \/ sent # "SUCCESS" /\ ~Derived(From) /\ place' = "failed" /\ outcome' = sent /\ UNCHANGED asked
       \/ /\ sent = "SUCCESS" \/ Derived(From)
          /\ \/ /\ random \/ Derived(From)
                /\ \/ place' = "select" /\ asked' = asked \cup {From} /\ UNCHANGED outcome
                   \/ place' = "failed" /\ outcome' = sent /\ UNCHANGED asked
             \/ ~random /\ ~Derived(From) /\ place' = "select" /\ UNCHANGED <<asked, outcome>>
  /\ UNCHANGED <<random, sockets, watched, tries, derived, packet, out, peer, arrived>>

(* Mutant: the sockets that were not chosen stay open.                       *)
Chosen_KeepsOthers == sockets

(* The sockets left once one is chosen.                                      *)
Chosen == {Sock}

TakeAnswer ==
  /\ place = "got" /\ Kind = "RESP"
  /\ \/ /\ place' = "last" /\ out' = Sock /\ peer' = From /\ sockets' = Chosen
        /\ packet' = <<>> /\ UNCHANGED outcome
     \/ /\ place' = "failed" /\ outcome' = "NETWORK"
        /\ UNCHANGED <<out, peer, sockets, packet>>
  /\ UNCHANGED <<random, watched, tries, derived, responded, asked, arrived>>

(* receive_request_send_response_ps: requests are answered until none comes   *)
(* for a second. packet is <<TRUE>> once one was.                             *)
QuietEnds ==
  /\ place = "last"
  /\ IF packet = <<TRUE>> \/ responded THEN place' = "done" /\ outcome' = "SUCCESS"
     ELSE place' = "failed" /\ outcome' = "TIMEOUT"
  /\ UNCHANGED <<random, sockets, watched, tries, derived, responded, packet, out, peer, asked, arrived>>

LastRequest ==
  /\ place = "last" /\ arrived < Arrivals
  /\ arrived' = arrived + 1
  /\ \/ packet' = <<TRUE>> /\ UNCHANGED <<place, outcome>>
     \/ \E error \in {"NETWORK", "UNKNOWN", "CANCELED"} : place' = "failed" /\ outcome' = error /\ UNCHANGED packet
  /\ UNCHANGED <<random, sockets, watched, tries, derived, responded, out, peer, asked>>

(* cleanup_sockets.                                                          *)
Cleanup ==
  /\ place = "failed" /\ place' = "done"
  /\ sockets' = {}
  /\ UNCHANGED <<random, watched, tries, derived, responded, packet, out, peer, outcome, asked, arrived>>

Next == \/ SendRequests \/ Retry \/ GiveUp \/ SelectFails \/ Receive \/ Unexpected \/ AnswerRequest
        \/ TakeAnswer \/ QuietEnds \/ LastRequest \/ Cleanup
Spec == Init /\ [][Next]_vars /\ WF_vars(Next)

------------------------------------------------------------------------------
(* Whatever fails, no socket stays open but the one that is handed out, and    *)
(* that one only when each side has answered the other: our request went to    *)
(* its peer, and the console's was answered.                                 *)
OneSocketIsLeft ==
  place = "done" =>
    IF outcome = "SUCCESS" /\ peer # 0
    THEN sockets = {out} /\ peer \in asked /\ (responded \/ packet = <<TRUE>>)
    ELSE sockets = {}

(* What four servers answer when the router gives its ports in a fixed step upwards.  *)
FourAnswers(p, inc) == [i \in 1 .. 4 |-> [addr |-> "a", port |-> p + inc * i]]

(* With such a router, whose ports are not found random, the offer names the port the  *)
(* next connection gets, and no well-known port. Four answers are needed: fewer start  *)
(* from a later port, and a step downwards is taken for a huge one upwards.      *)
NextIsGuessed ==
  ~random =>
    \A p \in Ports, inc \in 1 .. 3 :
      /\ p + inc * 5 <= 65535 => p + inc * 5 \in Guesses(FourAnswers(p, inc))
      /\ \A g \in Guesses(FourAnswers(p, inc)) : 1024 <= g /\ g <= 65535
=============================================================================
