---------------------------- MODULE Remote_proofs ----------------------------
(* Reaching a console, for every set of candidates, consoles and ports, and every    *)
(* bound: the sockets that are left, the ports that are guessed, the list of the    *)
(* discovery, and the offers of a holepunch session.                             *)
EXTENDS MCRemote, Integers, FiniteSetTheorems, WellFoundedInduction, TLAPS

-----------------------------------------------------------------------------
(* The candidates: one socket is left, and it is the one that is handed out.        *)

Places == {"open", "select", "got", "last", "failed", "done"}
Asked == 0 \notin asked
(* Until an answer is taken no socket is chosen; a failure after it is told as one.   *)
CandInv ==
  /\ place \in Places /\ derived \in Nat /\ Asked
  /\ place \in {"open", "select", "got"} => peer = 0
  /\ place = "got" => Cand!From # 0 /\ (Cand!Kind = "RESP" => Cand!From \in asked)
  /\ place = "last" => sockets = {out} /\ peer # 0 /\ peer \in asked
  /\ place = "failed" => outcome # "SUCCESS" \/ peer = 0
  /\ OneSocketIsLeft

LEMMA CandStarts == Cand!Init \/ Cand!AtRest => CandInv
<1>1. Cand!Init => CandInv
  BY DEF Cand!Init, CandInv, Places, Asked, OneSocketIsLeft, Cand!OneSocketIsLeft
<1>2. Cand!AtRest => CandInv
  BY DEF Cand!AtRest, CandInv, Places, Asked, OneSocketIsLeft, Cand!OneSocketIsLeft
<1> QED BY <1>1, <1>2

(* Every packet is from an address that has a number of its own.                     *)
LEMMA ReceiveKeeps == ASSUME CandInv, Cand!Receive PROVE CandInv'
<1>1. /\ place = "select" /\ peer = 0 /\ derived \in Nat /\ Asked
      /\ UNCHANGED <<sockets, out, peer, outcome, asked, responded>>
  BY DEF CandInv, Cand!Receive
<1>2. PICK ready \in SUBSET watched \ {{}}, from \in Cand!Known \cup {Cand!New},
             kind \in {"REQ", "RESP", "STRAY", "SHORT", "OTHER"} :
       /\ kind = "RESP" => from \in asked
       /\ watched' = ready
       /\ IF from = Cand!New /\ derived = Extras THEN UNCHANGED <<derived, packet, place>>
          ELSE /\ derived' = IF from = Cand!New THEN derived + 1 ELSE derived
               /\ packet' = <<Cand!First(ready), IF from = Cand!New THEN derived + 1 ELSE from, kind>>
               /\ place' = "got"
  BY DEF Cand!Receive
<1>3. CASE from = Cand!New /\ derived = Extras
  BY <1>1, <1>2, <1>3 DEF CandInv, Places, Asked, OneSocketIsLeft, Cand!OneSocketIsLeft
<1>4. CASE ~(from = Cand!New /\ derived = Extras)
  <2>1. /\ place' = "got" /\ derived' = (IF from = Cand!New THEN derived + 1 ELSE derived)
        /\ packet' = <<Cand!First(ready), IF from = Cand!New THEN derived + 1 ELSE from, kind>>
    BY <1>2, <1>4
  <2>2. Cand!From' = (IF from = Cand!New THEN derived + 1 ELSE from) /\ Cand!Kind' = kind
    BY <2>1 DEF Cand!From, Cand!Kind
  <2>3. derived' \in Nat /\ Cand!From' # 0
    BY <1>1, <1>2, <2>1, <2>2, OfferedAssumption DEF Cand!Known, Cand!New
  <2>4. Cand!Kind' = "RESP" => Cand!From' \in asked'
    BY <1>1, <1>2, <2>2 DEF Asked, Cand!New
  <2> QED BY <1>1, <2>1, <2>3, <2>4 DEF CandInv, Places, Asked, OneSocketIsLeft, Cand!OneSocketIsLeft
<1> QED BY <1>3, <1>4

LEMMA CandStepKeeps == ASSUME CandInv, [Cand!Next]_candVars PROVE CandInv'
<1>1. CASE UNCHANGED candVars
  BY <1>1 DEF candVars, CandInv, Places, Asked, Cand!From, Cand!Kind, OneSocketIsLeft, Cand!OneSocketIsLeft
<1>2. CASE Cand!SendRequests
  <2>1. /\ place = "open" /\ place' \in {"failed", "select"} /\ UNCHANGED <<derived, peer>> /\ asked' \subseteq Offered
        /\ place' = "failed" => outcome' = "NETWORK"
    BY <1>2 DEF Cand!SendRequests
  <2>2. Asked'
    BY <2>1, OfferedAssumption DEF Asked
  <2> QED BY <2>1, <2>2 DEF CandInv, Places, OneSocketIsLeft, Cand!OneSocketIsLeft
<1>3. CASE Cand!Retry
  <2>1. Asked'
    BY <1>3, OfferedAssumption DEF Cand!Retry, CandInv, Asked, Cand!Known
  <2> QED BY <1>3, <2>1 DEF Cand!Retry, CandInv, Places, OneSocketIsLeft, Cand!OneSocketIsLeft
<1>4. CASE Cand!GiveUp \/ Cand!SelectFails
  BY <1>4 DEF Cand!GiveUp, Cand!SelectFails, Cand!Fail, CandInv, Places, Asked, OneSocketIsLeft,
              Cand!OneSocketIsLeft
<1>5. CASE Cand!Receive
  BY <1>5, ReceiveKeeps
<1>6. CASE Cand!Unexpected
  BY <1>6 DEF Cand!Unexpected, CandInv, Places, Asked, OneSocketIsLeft, Cand!OneSocketIsLeft
<1>7. CASE Cand!AnswerRequest
  <2>1. /\ place = "got" /\ place' \in {"failed", "select"} /\ asked' \subseteq asked \cup {Cand!From} /\ UNCHANGED <<derived, peer>>
    BY <1>7 DEF Cand!AnswerRequest
  <2> QED BY <2>1 DEF CandInv, Places, Asked, OneSocketIsLeft, Cand!OneSocketIsLeft
<1>8. CASE Cand!TakeAnswer
  BY <1>8 DEF Cand!TakeAnswer, Cand!Chosen, CandInv, Places, Asked, OneSocketIsLeft, Cand!OneSocketIsLeft
<1>9. CASE Cand!QuietEnds
  BY <1>9 DEF Cand!QuietEnds, CandInv, Places, Asked, OneSocketIsLeft, Cand!OneSocketIsLeft
<1>10. CASE Cand!LastRequest
  BY <1>10 DEF Cand!LastRequest, CandInv, Places, Asked, OneSocketIsLeft, Cand!OneSocketIsLeft
<1>11. CASE Cand!Cleanup
  BY <1>11 DEF Cand!Cleanup, CandInv, Places, Asked, OneSocketIsLeft, Cand!OneSocketIsLeft
<1> QED BY <1>1, <1>2, <1>3, <1>4, <1>5, <1>6, <1>7, <1>8, <1>9, <1>10, <1>11 DEF Cand!Next

(* Whatever fails while a candidate is chosen, no socket stays open but the one that   *)
(* is handed out, and its peer was asked and was answered (holepunch.c,              *)
(* check_candidates).                                                          *)
THEOREM SocketsAreClosed == MCSpec => []OneSocketIsLeft
<1>1. MCInit => CandInv
  BY CandStarts DEF MCInit
<1>2. CandInv /\ [MCNext]_<<vars, candVars, rudpVars, regVars, discVars>> => CandInv'
  <2>1. [MCNext]_<<vars, candVars, rudpVars, regVars, discVars>> => [Cand!Next]_candVars
    BY DEF MCNext
  <2> QED BY <2>1, CandStepKeeps
<1>3. CandInv => OneSocketIsLeft
  BY DEF CandInv
<1> QED BY <1>1, <1>2, <1>3, PTL DEF MCSpec

-----------------------------------------------------------------------------
(* The ports: a router that gives them in a step upwards is seen through.            *)

(* Four answers a step apart show that step, and the offer starts from the last.     *)
LEMMA StepIsSeen ==
  ASSUME NEW p \in Int, 1023 <= p, p <= 65523, NEW inc \in 1 .. 3
  PROVE  /\ Cand!Allocation(Cand!FourAnswers(p, inc)) = [inc |-> inc, random |-> FALSE]
         /\ Cand!FirstPort(Cand!FourAnswers(p, inc)) = p + inc * 4
<1> DEFINE o == Cand!FourAnswers(p, inc)
<1>1. /\ o[1] = [addr |-> "a", port |-> p + inc] /\ o[2] = [addr |-> "a", port |-> p + 2 * inc]
      /\ o[3] = [addr |-> "a", port |-> p + 3 * inc] /\ o[4] = [addr |-> "a", port |-> p + 4 * inc]
  BY DEF Cand!FourAnswers
<1>2. Len(o) = 4
  BY DEF Cand!FourAnswers
<1> HIDE DEF o
<1>3. (p + 2 * inc - (p + inc)) % 65536 = inc /\ (p + 3 * inc - (p + 2 * inc)) % 65536 = inc
  OBVIOUS
<1>4. o[1].addr = o[2].addr /\ o[2].addr = o[3].addr /\ o[3].addr = o[4].addr
  BY <1>1
<1>5. (o[2].port - o[1].port) % 65536 = inc /\ (o[3].port - o[2].port) % 65536 = inc
  BY <1>1, <1>3
<1>6. Cand!Steady(o) = Cand!Sure(inc)
  <2>1. 1 + 1 = 2 /\ 2 + 1 = 3
    OBVIOUS
  <2> QED BY <1>5, <2>1, SMT DEF Cand!Steady
<1>7. Cand!Allocation(o) = Cand!Steady(o)
  <2>1. Len(o) # 1 /\ Len(o) # 2 /\ Len(o) # 3
    BY <1>2
  <2> QED BY <1>4, <2>1, SMT DEF Cand!Allocation
<1>8. Cand!FirstPort(o) = (o[4].port + 0) % 65536
  <2>1. Len(o) # 2 /\ Len(o) # 3
    BY <1>2
  <2> QED BY <1>2, <2>1, SMT DEF Cand!FirstPort
<1>9. Cand!FirstPort(o) = p + inc * 4
  BY <1>1, <1>8
<1> QED BY <1>6, <1>7, <1>9 DEF o, Cand!Sure

(* A port that is not a well-known one.                                          *)
IsPort(p) == p \in Int /\ 1024 <= p /\ p <= 65535

(* The port after a port is one, and no well-known one.                            *)
LEMMA PortAfter ==
  ASSUME NEW p, IsPort(p), NEW inc \in 1 .. 3
  PROVE  /\ IsPort(Cand!NextPort(p, inc))
         /\ p + inc <= 65535 => Cand!NextPort(p, inc) = p + inc
BY SMT DEF Cand!NextPort, IsPort

(* The eight ports of the offer begin after the first, and none is a well-known one.  *)
LEMMA EightPorts ==
  ASSUME NEW first, IsPort(first), NEW inc \in 1 .. 3
  PROVE  Cand!NextPort(first, inc) \in Cand!Later(first, inc) /\ \A g \in Cand!Later(first, inc) : IsPort(g)
<1> DEFINE Following(q) == Cand!NextPort(q, inc)
           a1 == Following(first)
           a2 == Following(a1)
           a3 == Following(a2)
           a4 == Following(a3)
           a5 == Following(a4)
           a6 == Following(a5)
           a7 == Following(a6)
           a8 == Following(a7)
           port[i \in 1 .. 8] == Cand!NextPort(IF i = 1 THEN first ELSE port[i - 1], inc)
           ports == <<a1, a2, a3, a4, a5, a6, a7, a8>>
<1>1. ports = [i \in 1 .. 8 |-> Cand!NextPort(IF i = 1 THEN first ELSE ports[i - 1], inc)]
  <2> HIDE DEF a1, a2, a3, a4, a5, a6, a7, a8
  <2>1. /\ ports[1] = a1 /\ ports[2] = a2 /\ ports[3] = a3 /\ ports[4] = a4 /\ ports[5] = a5 /\ ports[6] = a6
        /\ ports[7] = a7 /\ ports[8] = a8 /\ ports = [i \in 1 .. 8 |-> ports[i]]
    OBVIOUS
  <2> HIDE DEF ports
  <2>2. \A i \in 1 .. 8 : ports[i] = Cand!NextPort(IF i = 1 THEN first ELSE ports[i - 1], inc)
    BY <2>1 DEF a1, a2, a3, a4, a5, a6, a7, a8
  <2> QED BY <2>1, <2>2
<1> HIDE DEF ports
<1>2. port = [i \in 1 .. 8 |-> Cand!NextPort(IF i = 1 THEN first ELSE port[i - 1], inc)]
  BY <1>1
<1>3. Cand!Later(first, inc) = {port[i] : i \in 1 .. 8}
  BY DEF Cand!Later
<1> HIDE DEF port, a1, a2, a3, a4, a5, a6, a7, a8
<1>4. /\ port[1] = Following(first) /\ port[2] = Following(port[1])
      /\ port[3] = Following(port[2]) /\ port[4] = Following(port[3])
      /\ port[5] = Following(port[4]) /\ port[6] = Following(port[5])
      /\ port[7] = Following(port[6]) /\ port[8] = Following(port[7])
  BY <1>2
<1>5. \A q : IsPort(q) => IsPort(Following(q))
  BY PortAfter
<1>6. IsPort(port[1]) /\ IsPort(port[2]) /\ IsPort(port[3]) /\ IsPort(port[4])
  BY <1>4, <1>5
<1>7. IsPort(port[5]) /\ IsPort(port[6]) /\ IsPort(port[7]) /\ IsPort(port[8])
  BY <1>4, <1>5, <1>6
<1> QED BY <1>3, <1>4, <1>6, <1>7

(* What the offer names when the router counts upwards.                            *)
LEMMA OfferIsRight ==
  ASSUME NEW p \in Int, 1023 <= p, p <= 65523, NEW inc \in 1 .. 3
  PROVE  /\ p + inc * 5 <= 65535 => p + inc * 5 \in Cand!Guesses(Cand!FourAnswers(p, inc))
         /\ \A g \in Cand!Guesses(Cand!FourAnswers(p, inc)) : IsPort(g)
<1> DEFINE first == p + inc * 4
<1>1. /\ Cand!Allocation(Cand!FourAnswers(p, inc)) = [inc |-> inc, random |-> FALSE]
      /\ Cand!FirstPort(Cand!FourAnswers(p, inc)) = first
  BY StepIsSeen
<1>2. IsPort(first) /\ p + inc * 5 = first + inc
  BY DEF IsPort
<1> HIDE DEF first
<1>3. Cand!Guesses(Cand!FourAnswers(p, inc)) = Cand!Later(first, inc)
  BY <1>1 DEF Cand!Guesses
<1>4. first + inc <= 65535 => Cand!NextPort(first, inc) = first + inc
  BY <1>2, PortAfter
<1>5. Cand!NextPort(first, inc) \in Cand!Later(first, inc) /\ \A g \in Cand!Later(first, inc) : IsPort(g)
  BY <1>2, EightPorts
<1> QED BY <1>2, <1>3, <1>4, <1>5

(* Whatever ports a router that counts upwards gives: the offer names the one that the  *)
(* next connection gets, and no well-known one (holepunch.c,                        *)
(* holepunch_session_create_offer).                                           *)
THEOREM PortsAreGuessed == MCSpec => []Cand!NextIsGuessed
<1>1. ASSUME NEW p \in Ports, NEW inc \in 1 .. 3
      PROVE  /\ p + inc * 5 <= 65535 => p + inc * 5 \in Cand!Guesses(Cand!FourAnswers(p, inc))
             /\ \A g \in Cand!Guesses(Cand!FourAnswers(p, inc)) : 1024 <= g /\ g <= 65535
  <2>1. p \in Int /\ 1023 <= p /\ p <= 65523
    BY PortsAssumption
  <2>2. /\ p + inc * 5 <= 65535 => p + inc * 5 \in Cand!Guesses(Cand!FourAnswers(p, inc))
        /\ \A g \in Cand!Guesses(Cand!FourAnswers(p, inc)) : IsPort(g)
    BY <2>1, OfferIsRight
  <2> QED BY <2>2 DEF IsPort
<1>2. Cand!NextIsGuessed
  BY <1>1 DEF Cand!NextIsGuessed
<1> QED BY <1>2, PTL DEF MCSpec

-----------------------------------------------------------------------------
(* The discovery: the list is what the application was told, and is current.          *)

LEMMA SameCardinality == ASSUME NEW S PROVE Disc!Cardinality(S) = Cardinality(S)
BY DEF Disc!Cardinality, Cardinality

(* A set of numbers has one of every rank.                                      *)
LEMMA RankExists ==
  ASSUME NEW n \in Nat, NEW K \in SUBSET (1 .. n), NEW k \in 1 .. Cardinality(K)
  PROVE  \E i \in K : Cardinality({j \in K : j < i}) = k - 1
<1> DEFINE Below(i) == {j \in K : j < i}
           rank == [i \in K |-> Cardinality(Below(i))]
           ranks == 0 .. Cardinality(K) - 1
<1>1. IsFiniteSet(K) /\ Cardinality(K) \in Nat
  <2>1. IsFiniteSet(1 .. n)
    BY FS_Interval
  <2> QED BY <2>1, FS_Subset, FS_CardinalityType
<1>2. \A i \in K : IsFiniteSet(Below(i)) /\ Cardinality(Below(i)) \in Nat /\ Cardinality(Below(i)) < Cardinality(K)
  <2> TAKE i \in K
  <2> DEFINE low == Below(i)
  <2>1. low \in SUBSET K /\ low # K
    OBVIOUS
  <2> HIDE DEF low
  <2>2. IsFiniteSet(low) /\ Cardinality(low) <= Cardinality(K) /\ Cardinality(low) # Cardinality(K)
    <3> HIDE <1>1
    <3>1. IsFiniteSet(K)
      BY <1>1
    <3> QED BY <2>1, <3>1, FS_Subset
  <2>2a. Cardinality(low) \in Nat
    BY <2>2, FS_CardinalityType
  <2>3. IsFiniteSet(low) /\ Cardinality(low) \in Nat /\ Cardinality(low) < Cardinality(K)
    BY <1>1, <2>2, <2>2a
  <2> QED BY <2>3 DEF low
<1>3. \A i, l \in K : i < l => Cardinality(Below(i)) < Cardinality(Below(l))
  <2> SUFFICES ASSUME NEW i \in K, NEW l \in K, i < l PROVE Cardinality(Below(i)) < Cardinality(Below(l))
    OBVIOUS
  <2> DEFINE low == Below(i)
             high == Below(l)
  <2>1. low \in SUBSET high /\ i \in high /\ i \notin low
    <3>1. i \in Int /\ l \in Int /\ \A j \in K : j \in Int
      OBVIOUS
    <3>2. \A j \in low : j \in K /\ j < i
      OBVIOUS
    <3>3. \A j \in K : j < i => j < l
      BY <3>1
    <3>4. \A j \in low : j \in high
      BY <3>2, <3>3
    <3>5. i \in high
      OBVIOUS
    <3>6. i \notin low
      BY <3>1
    <3> QED BY <3>4, <3>5, <3>6
  <2>2. IsFiniteSet(low) /\ IsFiniteSet(high) /\ Cardinality(low) \in Nat /\ Cardinality(high) \in Nat
    BY <1>2
  <2> HIDE DEF low, high
  <2>3. Cardinality(low) <= Cardinality(high) /\ Cardinality(low) # Cardinality(high)
    BY <2>1, <2>2, FS_Subset
  <2>4. Cardinality(low) < Cardinality(high)
    BY <2>2, <2>3
  <2> QED BY <2>4 DEF low, high
<1>4. rank \in Injection(K, ranks)
  <2>1. rank \in [K -> ranks]
    <3> HIDE DEF Below
    <3> QED BY <1>1, <1>2
  <2>2. \A i, l \in K : rank[i] = rank[l] => i = l
    <3> SUFFICES ASSUME NEW i \in K, NEW l \in K, i # l PROVE rank[i] # rank[l]
      OBVIOUS
    <3>1. i < l \/ l < i
      OBVIOUS
    <3>2. rank[i] = Cardinality(Below(i)) /\ rank[l] = Cardinality(Below(l)) /\ rank[i] \in Nat /\ rank[l] \in Nat
      BY <1>2
    <3> HIDE DEF Below, rank
    <3> QED BY <1>3, <3>1, <3>2
  <2> QED BY <2>1, <2>2 DEF Injection, IsInjective
<1>5. IsFiniteSet(ranks) /\ Cardinality(ranks) = Cardinality(K)
  <2> DEFINE size == Cardinality(K)
  <2>1. size \in Nat /\ size - 1 \in Int
    BY <1>1
  <2> HIDE DEF size
  <2>2. IsFiniteSet(0 .. size - 1) /\ Cardinality(0 .. size - 1) = IF 0 > size - 1 THEN 0 ELSE size - 1 - 0 + 1
    BY <2>1, FS_Interval
  <2>3. Cardinality(0 .. size - 1) = size
    BY <2>1, <2>2
  <2> QED BY <2>2, <2>3 DEF size
<1>6. rank \in Surjection(K, ranks)
  <2> HIDE DEF rank, ranks
  <2> QED BY <1>4, <1>5, FS_Injection
<1>7. k - 1 \in ranks
  BY <1>1
<1>8. PICK i \in K : rank[i] = k - 1
  <2> HIDE DEF rank, ranks
  <2> QED BY <1>6, <1>7 DEF Surjection
<1> QED BY <1>8

(* A host that is too old by one ping is at the first place: there the next one is     *)
(* passed over when the first is dropped, and is dropped itself a ping later.         *)
Entry == [id : Hosts, state : {"ready", "standby"}, seen : Nat]
Apart == \A i, j \in DOMAIN hosts : hosts[i].id = hosts[j].id => i = j
Fresh == \A i \in DOMAIN hosts : hosts[i].seen + DropPings >= IF i = 1 THEN pingIndex - 1 ELSE pingIndex
DiscInv ==
  /\ pingIndex \in Nat /\ hosts \in Seq(Entry) /\ reported = Disc!Known(hosts)
  /\ Apart /\ Fresh

(* What is left of a list, each from its own place in it.                            *)
TakenFrom(q, from, list, ping) ==
  /\ \A i \in DOMAIN q : q[i] = list[from[i]] /\ Disc!Stays(list, from[i], ping)
  /\ \A i, j \in DOMAIN q : from[i] = from[j] => i = j
  /\ \A i \in DOMAIN q : from[i] = 2 /\ Disc!Old(list[1], ping) => i = 1

(* What is left keeps its order, and what was passed over comes first.              *)
LEMMA LeftOver ==
  ASSUME NEW list \in Seq(Entry), NEW ping \in Nat
  PROVE  /\ Disc!Dropped(list, ping) \in Seq(Entry)
         /\ \E from \in [DOMAIN Disc!Dropped(list, ping) -> DOMAIN list] :
              TakenFrom(Disc!Dropped(list, ping), from, list, ping)
<1> DEFINE rest == {i \in DOMAIN list : Disc!Stays(list, i, ping)}
           Rank(i) == Disc!Cardinality({j \in rest : j < i})
           Place(n) == CHOOSE i \in rest : Rank(i) = n - 1
           size == Disc!Cardinality(rest)
           q == Disc!Dropped(list, ping)
           from == [n \in 1 .. size |-> Place(n)]
<1>1. Len(list) \in Nat /\ DOMAIN list = 1 .. Len(list) /\ rest \in SUBSET (1 .. Len(list))
  OBVIOUS
<1>2. IsFiniteSet(rest) /\ size \in Nat
  <2> HIDE DEF rest
  <2>1. IsFiniteSet(1 .. Len(list))
    BY <1>1, FS_Interval
  <2> QED BY <1>1, <2>1, FS_Subset, FS_CardinalityType, SameCardinality
<1>3. q = [n \in 1 .. size |-> list[Place(n)]]
  BY DEF Disc!Dropped
<1>4. \A n \in 1 .. size : Place(n) \in rest /\ Rank(Place(n)) = n - 1
  <2> TAKE n \in 1 .. size
  <2>1. \E i \in rest : Rank(i) = n - 1
    <3> HIDE DEF rest
    <3> QED BY <1>1, RankExists, SameCardinality
  <2> HIDE DEF rest, Rank
  <2> QED BY <2>1
<1>5. q \in Seq(Entry) /\ DOMAIN q = 1 .. size /\ from \in [1 .. size -> DOMAIN list]
  <2>1. \A n \in 1 .. size : Place(n) \in DOMAIN list /\ list[Place(n)] \in Entry
    <3>1. \A n \in 1 .. size : Place(n) \in rest
      BY <1>4
    <3>2. \A i \in rest : i \in DOMAIN list /\ list[i] \in Entry
      BY <1>1
    <3> HIDE DEF Place, size, rest
    <3> QED BY <3>1, <3>2
  <2> HIDE DEF Place, q, size, rest
  <2> QED BY <1>2, <1>3, <2>1
<1>6. \A i \in 1 .. size : q[i] = list[from[i]] /\ Disc!Stays(list, from[i], ping)
  <2>1. \A i \in 1 .. size : Disc!Stays(list, Place(i), ping)
    BY <1>4
  <2> HIDE DEF Place, q, size, rest
  <2> QED BY <1>3, <2>1
<1>7. \A i, j \in 1 .. size : from[i] = from[j] => i = j
  <2> HIDE DEF Place, Rank, q, size, rest
  <2> QED BY <1>2, <1>4
<1>8. ASSUME NEW i \in 1 .. size, from[i] = 2, Disc!Old(list[1], ping) PROVE i = 1
  <2>1. 1 \notin rest
    BY <1>8 DEF Disc!Stays
  <2>2. {j \in rest : j < 2} = {}
    BY <1>1, <2>1
  <2>3. Rank(2) = 0
    BY <2>2, FS_EmptySet, SameCardinality
  <2>4. Rank(2) = i - 1
    <3> HIDE DEF Place, Rank, size, rest
    <3> QED BY <1>4, <1>8
  <2> QED BY <2>3, <2>4
<1>9. \A i \in 1 .. size : from[i] = 2 /\ Disc!Old(list[1], ping) => i = 1
  BY <1>8
<1> HIDE DEF q, from, size, rest
<1>10. DOMAIN q = 1 .. size /\ from \in [DOMAIN q -> DOMAIN list]
  BY <1>5
<1>11. TakenFrom(q, from, list, ping)
  BY <1>6, <1>7, <1>9, <1>10 DEF TakenFrom
<1>12. \E f \in [DOMAIN q -> DOMAIN list] : TakenFrom(q, f, list, ping)
  BY <1>10, <1>11
<1> QED BY <1>5, <1>12 DEF q

LEMMA DiscStarts == Disc!Init \/ Disc!AtRest => (PingsMax \in Nat => DiscInv)
<1> SUFFICES ASSUME Disc!Init \/ Disc!AtRest, PingsMax \in Nat PROVE DiscInv
  OBVIOUS
<1>1. pingIndex \in Nat /\ hosts = <<>> /\ reported = <<>>
  BY DEF Disc!Init, Disc!AtRest
<1>2. Disc!Known(hosts) = <<>>
  BY <1>1 DEF Disc!Known
<1> QED BY <1>1, <1>2 DEF DiscInv, Apart, Fresh

(* A ping drops what is too old by it.                                           *)
LEMMA PingKeeps == ASSUME DiscInv, Disc!Ping PROVE DiscInv'
<1> DEFINE ping == pingIndex + 1
           q == Disc!Dropped(hosts, ping)
<1>1. /\ pingIndex \in Nat /\ pingIndex' = ping /\ hosts' = q /\ hosts \in Seq(Entry)
      /\ reported' = IF q # hosts THEN Disc!Known(q) ELSE reported
  BY DEF DiscInv, Disc!Ping
<1>2. reported' = Disc!Known(hosts')
  BY <1>1 DEF DiscInv
<1>3. q \in Seq(Entry)
  <2> HIDE DEF q
  <2> QED BY <1>1, LeftOver DEF q
<1>4. PICK from \in [DOMAIN q -> DOMAIN hosts] : TakenFrom(q, from, hosts, ping)
  BY <1>1, LeftOver
<1> HIDE DEF q
<1>5. \A i, j \in DOMAIN q : q[i].id = q[j].id => i = j
  <2> SUFFICES ASSUME NEW i \in DOMAIN q, NEW j \in DOMAIN q, q[i].id = q[j].id PROVE i = j
    OBVIOUS
  <2>1. from[i] \in DOMAIN hosts /\ from[j] \in DOMAIN hosts /\ hosts[from[i]].id = hosts[from[j]].id
    BY <1>4 DEF TakenFrom
  <2>2. from[i] = from[j]
    BY <2>1 DEF DiscInv, Apart
  <2> QED BY <1>4, <2>2 DEF TakenFrom
<1>6. ASSUME NEW i \in DOMAIN q PROVE q[i].seen + DropPings >= IF i = 1 THEN ping - 1 ELSE ping
  <2>1. from[i] \in DOMAIN hosts /\ q[i] = hosts[from[i]]
    BY <1>4 DEF TakenFrom
  <2>1a. q[i] \in Entry
    BY <1>3
  <2>1b. q[i].seen \in Nat
    BY <2>1a DEF Entry
  <2>2. CASE ~Disc!Old(hosts[from[i]], ping)
    <3>1. ping \in Nat /\ ping - 1 <= ping
      <4>1. pingIndex \in Nat
        BY <1>1
      <4> QED BY <4>1
    <3>2. ~(q[i].seen + DropPings < ping)
      BY <2>1, <2>2 DEF Disc!Old
    <3>3. q[i].seen + DropPings \in Nat
      BY <2>1b, DropAssumption
    <3> HIDE DEF ping
    <3>4. q[i].seen + DropPings >= ping
      <4> DEFINE total == q[i].seen + DropPings
      <4>1. total \in Nat /\ ~(total < ping)
        BY <3>2, <3>3
      <4> HIDE DEF total
      <4>2. total >= ping
        BY <3>1, <4>1
      <4> QED BY <4>2 DEF total
    <3>5. CASE i = 1
      BY <3>1, <3>3, <3>4, <3>5
    <3>6. CASE i # 1
      BY <3>4, <3>6
    <3> QED BY <3>5, <3>6
  <2>3. CASE from[i] = 2 /\ Disc!Old(hosts[1], ping)
    <3>1. i = 1 /\ q[i].seen + DropPings >= pingIndex
      BY <1>4, <2>1, <2>3 DEF DiscInv, Fresh, TakenFrom
    <3> QED BY <1>1, <3>1
  <2> QED BY <1>4, <2>2, <2>3 DEF Disc!Stays, TakenFrom
<1> QED BY <1>1, <1>2, <1>3, <1>5, <1>6 DEF DiscInv, Apart, Fresh

(* An answer brings its host up to date.                                         *)
LEMMA AnswerKeeps == ASSUME DiscInv, Disc!Answer PROVE DiscInv'
<1>1. PICK id \in Hosts, state \in {"ready", "standby"} :
        LET known == {i \in DOMAIN hosts : hosts[i].id = id}
            h == [id |-> id, state |-> state, seen |-> pingIndex]
        IN hosts' = IF known # {} THEN [hosts EXCEPT ![CHOOSE i \in known : TRUE] = h]
                    ELSE IF Len(hosts) = HostsMax THEN hosts ELSE Append(hosts, h)
  BY DEF Disc!Answer
<1> DEFINE known == {i \in DOMAIN hosts : hosts[i].id = id}
           h == [id |-> id, state |-> state, seen |-> pingIndex]
<1>2. /\ pingIndex' = pingIndex /\ pingIndex \in Nat /\ hosts \in Seq(Entry) /\ reported = Disc!Known(hosts)
      /\ reported' = IF Disc!Known(hosts') # Disc!Known(hosts) THEN Disc!Known(hosts') ELSE reported
  BY DEF DiscInv, Disc!Answer
<1>3. reported' = Disc!Known(hosts')
  BY <1>2
<1>4. h \in Entry /\ h.id = id /\ h.seen = pingIndex
  BY <1>2 DEF Entry
<1>5. CASE known # {}
  <2>1. PICK spot \in DOMAIN hosts : hosts[spot].id = id /\ hosts' = [hosts EXCEPT ![spot] = h]
    BY <1>1, <1>5
  <2> HIDE DEF h
  <2>2. /\ hosts' \in Seq(Entry) /\ DOMAIN hosts' = DOMAIN hosts /\ hosts'[spot] = h
        /\ \A i \in DOMAIN hosts \ {spot} : hosts'[i] = hosts[i]
    BY <1>2, <1>4, <2>1
  <2>3. \A i \in DOMAIN hosts : hosts'[i].id = hosts[i].id
    BY <1>4, <2>1, <2>2
  <2>4. Apart'
    BY <2>2, <2>3 DEF DiscInv, Apart
  <2>5. Fresh'
    BY <1>2, <1>4, <2>2, DropAssumption DEF DiscInv, Fresh
  <2> QED BY <1>2, <1>3, <2>2, <2>4, <2>5 DEF DiscInv
<1>6. CASE hosts' = hosts
  BY <1>2, <1>3, <1>6 DEF DiscInv, Apart, Fresh
<1>7. CASE known = {} /\ hosts' = Append(hosts, h)
  <2>1. \A i \in DOMAIN hosts : hosts[i].id # id
    BY <1>7
  <2> HIDE DEF h
  <2>2. /\ hosts' \in Seq(Entry) /\ Len(hosts) \in Nat /\ DOMAIN hosts = 1 .. Len(hosts) /\ DOMAIN hosts' = 1 .. Len(hosts) + 1
        /\ hosts'[Len(hosts) + 1] = h /\ \A i \in DOMAIN hosts : hosts'[i] = hosts[i]
    BY <1>2, <1>4, <1>7
  <2>3. Apart'
    BY <1>4, <2>1, <2>2 DEF DiscInv, Apart
  <2>4. Fresh'
    BY <1>2, <1>4, <2>2, DropAssumption DEF DiscInv, Fresh
  <2> QED BY <1>2, <1>3, <2>2, <2>3, <2>4 DEF DiscInv
<1> QED BY <1>1, <1>5, <1>6, <1>7

LEMMA DiscStepKeeps == ASSUME DiscInv, [Disc!Next]_discVars PROVE DiscInv'
<1>1. CASE UNCHANGED <<pingIndex, hosts, reported>>
  BY <1>1 DEF DiscInv, Apart, Fresh
<1>2. CASE ~UNCHANGED <<pingIndex, hosts, reported>>
  <2>1. Disc!Ping \/ Disc!Answer
    BY <1>2 DEF discVars, Disc!Next, Disc!Start, Disc!ReceiverFails, Disc!Fini, Disc!Stopped,
                Disc!ReceiverStops,
                Disc!ReceiverJoined, Disc!Joined
  <2> QED BY <2>1, PingKeeps, AnswerKeeps
<1> QED BY <1>1, <1>2

(* However pings, answers and the end of the two threads fall together: the application  *)
(* was told the list as it is, each console is in it once, and one that stopped          *)
(* answering is in it for at most one ping too long (discoveryservice.c,               *)
(* discovery_service_drop_old_hosts).                                            *)
THEOREM ListIsTold == MCSpec => []ListIsCurrent
<1>1. MCInit => DiscInv
  BY DiscStarts, DropAssumption DEF MCInit
<1>2. DiscInv /\ [MCNext]_<<vars, candVars, rudpVars, regVars, discVars>> => DiscInv'
  <2>1. [MCNext]_<<vars, candVars, rudpVars, regVars, discVars>> => [Disc!Next]_discVars
    BY DEF MCNext
  <2> QED BY <2>1, DiscStepKeeps
<1>3. DiscInv => ListIsCurrent
  <2> SUFFICES ASSUME DiscInv PROVE ListIsCurrent
    OBVIOUS
  <2>1. ASSUME NEW i \in DOMAIN hosts PROVE ~Disc!Old(hosts[i], pingIndex - 1)
    <3>1. hosts[i] \in Entry /\ pingIndex \in Nat /\ DropPings \in Nat
      BY DropAssumption DEF DiscInv
    <3>2. hosts[i].seen \in Nat
      BY <3>1 DEF Entry
    <3>3. hosts[i].seen + DropPings >= pingIndex - 1
      BY <3>1, <3>2 DEF DiscInv, Fresh
    <3> QED BY <3>1, <3>2, <3>3 DEF Disc!Old
  <2> QED BY <2>1 DEF DiscInv, Apart, ListIsCurrent, Disc!ListIsCurrent
<1> QED BY <1>1, <1>2, <1>3, PTL DEF MCSpec

------------------------------------------------------------------------------
(* The messages of the holepunch session: what is in the queue, with the websocket       *)
(* thread and on the way, and where the application's thread is.                       *)
Connections == {"ctrl", "data"}
Notice ==
  {n \in [type : {"none", "SESSION_CREATED", "MEMBER_CREATED", "CUSTOM_DATA1", "OFFER", "RESULT", "ACCEPT",
                  "TERMINATE", "MEMBER_DELETED", "SESSION_DELETED"},
          port : {"", "ctrl", "data"}, req : Nat, used : BOOLEAN] :
     n.type = "OFFER" => n.port \in Connections}
Heard == {"START", "OFFER", "ACCEPT"} \X Connections \X Nat
ConsoleType ==
  [offers : [Connections -> Nat], acked : SUBSET {"", "ctrl", "data"}, heard : SUBSET Heard,
   replied : SUBSET Connections, left : BOOLEAN]
NoticesAreTyped ==
  /\ notifs \in Seq(Notice) /\ coming \in Seq(Notice) /\ heldNotif \in Notice /\ took \in Notice
  /\ reqId \in Nat
  /\ console \in ConsoleType

(* Where the thread can be in each call.                                         *)
Leaving == {"failed", "finiDelete", "finiWait", "finiJoin", "done"}
Creating == {"fqdn", "stop1", "spawn", "opening", "stop2", "httpCreate", "stop3", "waitCreated", "created"}
Starting == {"startGuard", "httpStart", "stop4", "waitStarted", "started"}
OfferTaken == {"offerReceived", "httpAck", "stop5", "sendOffer", "waitAck"}
ResultTaken == {"checking", "stop6", "sendAccept", "stop7", "waitAccept"}
AcceptTaken == {"httpResult", "stop8", "establish", "stop9", "lastRequests"}
Punching == {"punchGuard", "waitOffer"} \cup OfferTaken \cup ResultTaken \cup AcceptTaken
AtAndOp ==
  \/ at \in Leaving /\ op \in 0 .. 6
  \/ at = "between" /\ op \in 0 .. 6
  \/ at \in Creating /\ op = 1
  \/ at = "makeOffer" /\ op \in {2, 5}
  \/ at \in Starting /\ op = 3
  \/ at \in Punching /\ op \in {4, 6}

(* Before and after the first offer was taken.                                   *)
Early == at \notin Leaving /\ (op <= 3 \/ (op = 4 /\ at \in {"punchGuard", "waitOffer"}))
Late == at \notin Leaving /\ ~(op <= 3 \/ (op = 4 /\ at \in {"punchGuard", "waitOffer"}))

(* A message that was taken is the first one in the queue, and of the kind the next wait  *)
(* clears.                                                                     *)
Last == IF at \in OfferTaken THEN "OFFER" ELSE IF at \in ResultTaken THEN "RESULT" ELSE "ACCEPT"
TakenIsFirst ==
  \A i \in DOMAIN notifs : notifs[i].used =>
    /\ notifs[i].type \in Messages
    /\ \A j \in DOMAIN notifs : notifs[j].type \in Messages => i <= j
    /\ at \notin Leaving => notifs[i].type = Last

(* Offers that are still to be taken.                                            *)
CtrlOffer(n) == n.type = "OFFER" /\ n.port = "ctrl" /\ ~n.used
DataOffer(n) == n.type = "OFFER" /\ n.port = "data"
HasCtrl(q) == \E i \in DOMAIN q : CtrlOffer(q[i])
HasData(q) == \E i \in DOMAIN q : DataOffer(q[i])
OneCtrl(q) == \A i, j \in DOMAIN q : CtrlOffer(q[i]) /\ CtrlOffer(q[j]) => i = j
NoCtrl == ~HasCtrl(notifs) /\ ~CtrlOffer(heldNotif) /\ ~HasCtrl(coming)
SingleCtrl ==
  /\ OneCtrl(notifs) /\ OneCtrl(coming)
  /\ ~(HasCtrl(notifs) /\ CtrlOffer(heldNotif))
  /\ ~(HasCtrl(notifs) /\ HasCtrl(coming))
  /\ ~(CtrlOffer(heldNotif) /\ HasCtrl(coming))
CtrlIsCounted ==
  /\ console.offers["ctrl"] = 0 => NoCtrl
  /\ console.offers["ctrl"] = 1 => SingleCtrl
  /\ Late => console.offers["ctrl"] >= 1 /\ (console.offers["ctrl"] = 1 => NoCtrl)
  /\ mixed => console.offers["ctrl"] > 1
(* Nothing about the data connection is said before our first offer.             *)
DataComesLater ==
  Early => /\ \A m \in console.heard : m[1] = "START"
           /\ console.replied = {}
           /\ ~HasData(notifs) /\ ~DataOffer(heldNotif) /\ ~HasData(coming)
NoneUsed == ~heldNotif.used /\ \A i \in DOMAIN coming : ~coming[i].used
USE DEF ConsoleType
HoleInv == NoticesAreTyped /\ AtAndOp /\ TakenIsFirst /\ CtrlIsCounted /\ DataComesLater /\ NoneUsed /\ ~reused

(* What a shorter queue keeps of a longer one.                                   *)
Thinned(r, q) ==
  /\ r \in Seq(Notice)
  /\ \E f \in [DOMAIN r -> DOMAIN q] :
       \A k, l \in DOMAIN r : r[k] = q[f[k]] /\ (k < l => f[k] < f[l])
Fewer(r, q) ==
  /\ HasCtrl(r) => HasCtrl(q)
  /\ HasData(r) => HasData(q)
  /\ OneCtrl(q) => OneCtrl(r)
Cut(q, i) == SubSeq(q, 1, i - 1) \o SubSeq(q, i + 1, Len(q))

LEMMA ThinnedIsFewer == ASSUME NEW q \in Seq(Notice), NEW r, Thinned(r, q) PROVE Fewer(r, q)
<1>1. PICK f \in [DOMAIN r -> DOMAIN q] :
        \A k, l \in DOMAIN r : r[k] = q[f[k]] /\ (k < l => f[k] < f[l])
  BY DEF Thinned
<1>2. \A k \in DOMAIN r : f[k] \in DOMAIN q /\ r[k] = q[f[k]]
  BY <1>1
<1>3. \A k, l \in DOMAIN r : f[k] = f[l] => k = l
  <2>1. \A k \in DOMAIN r : k \in Nat
    BY DEF Thinned
  <2>2. \A k \in DOMAIN r : f[k] \in Nat
    BY <1>2
  <2> QED BY <1>1, <2>1, <2>2
<1>4. HasCtrl(r) => HasCtrl(q)
  BY <1>2 DEF HasCtrl
<1>5. HasData(r) => HasData(q)
  BY <1>2 DEF HasData
<1>6. OneCtrl(q) => OneCtrl(r)
  BY <1>2, <1>3 DEF OneCtrl
<1> QED BY <1>4, <1>5, <1>6 DEF Fewer

LEMMA SameIsThinned == ASSUME NEW q \in Seq(Notice) PROVE Thinned(q, q)
<1> DEFINE f == [k \in DOMAIN q |-> k]
<1>1. f \in [DOMAIN q -> DOMAIN q] /\ \A k, l \in DOMAIN q : q[k] = q[f[k]] /\ (k < l => f[k] < f[l])
  OBVIOUS
<1> QED BY <1>1 DEF Thinned

LEMMA CutIsThinned == ASSUME NEW q \in Seq(Notice), NEW i \in DOMAIN q PROVE Thinned(Cut(q, i), q)
<1> DEFINE a == SubSeq(q, 1, i - 1)
           b == SubSeq(q, i + 1, Len(q))
           r == a \o b
           f == [k \in 1 .. Len(q) - 1 |-> IF k < i THEN k ELSE k + 1]
<1>1. Len(q) \in Nat /\ i \in 1 .. Len(q)
  OBVIOUS
<1>2. a \in Seq(Notice) /\ Len(a) = i - 1
  BY <1>1
<1>3. b \in Seq(Notice) /\ Len(b) = Len(q) - i
  BY <1>1
<1>4. \A k \in 1 .. i - 1 : a[k] = q[k]
  BY <1>1
<1>5. \A k \in 1 .. Len(q) - i : b[k] = q[k + i]
  BY <1>1
<1> HIDE DEF a, b
<1>6. r \in Seq(Notice) /\ Len(r) = Len(q) - 1
  BY <1>1, <1>2, <1>3
<1>7. ASSUME NEW k \in 1 .. Len(q) - 1 PROVE r[k] = q[IF k < i THEN k ELSE k + 1]
  <2>1. CASE k < i
    BY <1>1, <1>2, <1>3, <1>4, <2>1
  <2>2. CASE ~(k < i)
    <3>1. r[k] = b[k - (i - 1)]
      BY <1>1, <1>2, <1>3, <2>2, SMTT(30)
    <3>2. k - (i - 1) \in 1 .. Len(q) - i /\ (k - (i - 1)) + i = k + 1
      BY <1>1, <2>2
    <3> QED BY <1>5, <2>2, <3>1, <3>2
  <2> QED BY <2>1, <2>2
<1> HIDE DEF r
<1>8. DOMAIN r = 1 .. Len(q) - 1
  BY <1>6
<1>9. f \in [DOMAIN r -> DOMAIN q]
  BY <1>1, <1>8
<1>10. \A k, l \in DOMAIN r : r[k] = q[f[k]] /\ (k < l => f[k] < f[l])
  BY <1>1, <1>7, <1>8, SMTT(30)
<1>11. Thinned(r, q)
  BY <1>6, <1>9, <1>10 DEF Thinned
<1> QED BY <1>11 DEF r, a, b, Cut

LEMMA TailIsThinned ==
  ASSUME NEW q \in Seq(Notice), q # <<>>
  PROVE  Thinned(Tail(q), q) /\ Head(q) = q[1] /\ 1 \in DOMAIN q
<1> DEFINE t == Tail(q)
           f == [k \in DOMAIN t |-> k + 1]
<1>1. t \in Seq(Notice) /\ Len(t) = Len(q) - 1 /\ Len(q) \in Nat \ {0}
  OBVIOUS
<1>2. \A k \in DOMAIN t : t[k] = q[k + 1]
  OBVIOUS
<1>3. Head(q) = q[1] /\ 1 \in DOMAIN q
  BY <1>1
<1> HIDE DEF t
<1>4. DOMAIN t = 1 .. Len(q) - 1 /\ DOMAIN q = 1 .. Len(q)
  BY <1>1
<1>5. f \in [DOMAIN t -> DOMAIN q]
  BY <1>1, <1>4
<1>6. \A k, l \in DOMAIN t : t[k] = q[f[k]] /\ (k < l => f[k] < f[l])
  BY <1>1, <1>2, <1>4
<1>7. Thinned(t, q)
  BY <1>1, <1>5, <1>6 DEF Thinned
<1> QED BY <1>3, <1>7 DEF t

LEMMA NothingIsFewer == ASSUME NEW q PROVE Fewer(<<>>, q)
BY DEF Fewer, HasCtrl, HasData, OneCtrl

(* What is in two queues together.                                               *)
LEMMA JoinedNotices ==
  ASSUME NEW q \in Seq(Notice), NEW r \in Seq(Notice)
  PROVE  /\ q \o r \in Seq(Notice) /\ Len(q \o r) = Len(q) + Len(r)
         /\ \A k \in DOMAIN (q \o r) : IF k \in DOMAIN q THEN (q \o r)[k] = q[k]
                                       ELSE k - Len(q) \in DOMAIN r /\ (q \o r)[k] = r[k - Len(q)]
         /\ HasCtrl(q \o r) => HasCtrl(q) \/ HasCtrl(r)
         /\ HasData(q \o r) => HasData(q) \/ HasData(r)
         /\ OneCtrl(q) /\ ~HasCtrl(r) => OneCtrl(q \o r)
         /\ ~HasCtrl(q) /\ OneCtrl(r) => OneCtrl(q \o r)
<1> DEFINE s == q \o r
<1>1. s \in Seq(Notice) /\ Len(s) = Len(q) + Len(r) /\ Len(q) \in Nat /\ Len(r) \in Nat
  OBVIOUS
<1>2. ASSUME NEW k \in DOMAIN s
      PROVE IF k \in DOMAIN q THEN s[k] = q[k] ELSE k - Len(q) \in DOMAIN r /\ s[k] = r[k - Len(q)]
  <2>1. CASE k \in DOMAIN q
    BY <1>1, <2>1
  <2>2. CASE k \notin DOMAIN q
    BY <1>1, <2>2
  <2> QED BY <2>1, <2>2
<1>3. \A k \in DOMAIN s : k \in Nat
  BY <1>1
<1> HIDE DEF s
<1>4. HasCtrl(s) => HasCtrl(q) \/ HasCtrl(r)
  BY <1>2 DEF HasCtrl
<1>5. HasData(s) => HasData(q) \/ HasData(r)
  BY <1>2 DEF HasData
<1>6. OneCtrl(q) /\ ~HasCtrl(r) => OneCtrl(s)
  BY <1>2 DEF HasCtrl, OneCtrl
<1>7. ~HasCtrl(q) /\ OneCtrl(r) => OneCtrl(s)
  <2> SUFFICES ASSUME ~HasCtrl(q), OneCtrl(r), NEW k \in DOMAIN s, NEW l \in DOMAIN s, CtrlOffer(s[k]), CtrlOffer(s[l])
               PROVE k = l
    BY DEF OneCtrl
  <2>1. k \notin DOMAIN q /\ l \notin DOMAIN q
    BY <1>2 DEF HasCtrl
  <2>2. k - Len(q) = l - Len(q)
    BY <1>2, <2>1 DEF OneCtrl
  <2> QED BY <1>1, <1>3, <2>2
<1> QED BY <1>1, <1>2, <1>4, <1>5, <1>6, <1>7 DEF s

(* A step that takes no message and brings no offer.                             *)
Steady ==
  /\ NoticesAreTyped' /\ AtAndOp'
  /\ (Early' => Early) /\ (Late' => Late)
  /\ at' \notin Leaving => at \notin Leaving /\ Last' = Last
  /\ reused' = reused /\ mixed' = mixed /\ console'.offers = console.offers
  /\ Early' => (\A m \in console'.heard : m[1] = "START") /\ console'.replied = {}

LEMMA SteadyKeeps ==
  ASSUME HoleInv, Steady, Thinned(notifs', notifs), Fewer(coming', coming), heldNotif' = heldNotif,
         \A i \in DOMAIN coming' : ~coming'[i].used
  PROVE  HoleInv'
<1>1. Fewer(notifs', notifs)
  BY ThinnedIsFewer DEF HoleInv, NoticesAreTyped
<1>2. TakenIsFirst'
  <2>1. PICK f \in [DOMAIN notifs' -> DOMAIN notifs] :
          \A k, l \in DOMAIN notifs' : notifs'[k] = notifs[f[k]] /\ (k < l => f[k] < f[l])
    BY DEF Thinned
  <2>2. notifs' \in Seq(Notice) /\ notifs \in Seq(Notice)
    BY DEF Thinned, HoleInv, NoticesAreTyped
  <2>3. \A k \in DOMAIN notifs' : k \in Nat /\ f[k] \in DOMAIN notifs /\ f[k] \in Nat
    BY <2>2
  <2> SUFFICES ASSUME NEW i \in DOMAIN notifs', notifs'[i].used
               PROVE  /\ notifs'[i].type \in Messages
                      /\ \A j \in DOMAIN notifs' : notifs'[j].type \in Messages => i <= j
                      /\ at' \notin Leaving => notifs'[i].type = Last'
    BY DEF TakenIsFirst
  <2>4. /\ notifs[f[i]].type \in Messages /\ notifs'[i].type = notifs[f[i]].type
        /\ \A j \in DOMAIN notifs : notifs[j].type \in Messages => f[i] <= j
        /\ at \notin Leaving => notifs[f[i]].type = Last
    BY <2>1, <2>3 DEF HoleInv, TakenIsFirst
  <2>5. ASSUME NEW j \in DOMAIN notifs', notifs'[j].type \in Messages PROVE i <= j
    <3>1. f[i] <= f[j]
      BY <2>1, <2>3, <2>4, <2>5
    <3> QED BY <2>1, <2>3, <3>1
  <2> QED BY <2>4, <2>5 DEF Steady
<1>3. CtrlIsCounted'
  BY <1>1 DEF HoleInv, Steady, CtrlIsCounted, Fewer, NoCtrl, SingleCtrl
<1>4. DataComesLater'
  BY <1>1 DEF HoleInv, Steady, DataComesLater, Fewer
<1>5. NoneUsed' /\ ~reused'
  BY DEF HoleInv, Steady, NoneUsed
<1> QED BY <1>2, <1>3, <1>4, <1>5 DEF HoleInv, Steady

(* A step that leaves the messages alone.                                        *)
LEMMA AloneKeeps ==
  ASSUME HoleInv, UNCHANGED <<notifs, took, coming, heldNotif, console, reused, mixed>>,
         reqId' \in Nat, AtAndOp', Early' => Early, Late' => Late,
         at' \notin Leaving => at \notin Leaving /\ Last' = Last
  PROVE  HoleInv'
<1>1. Steady
  <2>1. NoticesAreTyped'
    BY DEF HoleInv, NoticesAreTyped
  <2>2. Early' => (\A m \in console'.heard : m[1] = "START") /\ console'.replied = {}
    BY DEF HoleInv, DataComesLater
  <2> QED BY <2>1, <2>2 DEF Steady
<1>2. Thinned(notifs', notifs)
  BY SameIsThinned DEF HoleInv, NoticesAreTyped
<1>3. Fewer(coming', coming)
  BY DEF Fewer
<1> QED BY <1>1, <1>2, <1>3, SteadyKeeps DEF HoleInv, NoneUsed

(* Where the thread goes: it leaves, or stays in its call and says as before what was     *)
(* taken last.                                                                 *)
Moves ==
  /\ AtAndOp' /\ (Early' => Early) /\ (Late' => Late)
  /\ at' \notin Leaving => at \notin Leaving /\ Last' = Last

LEMMA StaysPut == ASSUME HoleInv, UNCHANGED <<at, op>> PROVE Moves
BY DEF HoleInv, Moves, AtAndOp, Early, Late, Last

LEMMA Leaves == ASSUME HoleInv, op' = op, at' \in Leaving PROVE Moves
<1>1. op \in 0 .. 6
  BY DEF HoleInv, AtAndOp
<1> QED BY <1>1 DEF Moves, AtAndOp, Early, Late

LEMMA CreateMoves ==
  ASSUME HoleInv, op' = op, at \in Creating, at' \in Creating \cup {"between"} PROVE Moves
<1>1. op = 1
  BY DEF HoleInv, AtAndOp, Leaving, Creating, Starting, Punching, OfferTaken, ResultTaken, AcceptTaken
<1> QED BY <1>1 DEF Moves, AtAndOp, Early, Late, Last, Leaving, Creating, OfferTaken, ResultTaken

LEMMA StartMoves ==
  ASSUME HoleInv, op' = op, at \in Starting, at' \in Starting \cup {"between"} PROVE Moves
<1>1. op = 3
  BY DEF HoleInv, AtAndOp, Leaving, Creating, Starting, Punching, OfferTaken, ResultTaken, AcceptTaken
<1> QED BY <1>1 DEF Moves, AtAndOp, Early, Late, Last, Leaving, Starting, OfferTaken, ResultTaken

(* In a punch the kind of the last message does not change but where one is taken.       *)
LEMMA PunchMoves ==
  ASSUME HoleInv, op' = op,
         \/ at = "punchGuard" /\ at' = "waitOffer"
         \/ at \in OfferTaken /\ at' \in OfferTaken
         \/ at \in ResultTaken /\ at' \in ResultTaken
         \/ at \in AcceptTaken /\ at' \in AcceptTaken \cup {"between"}
  PROVE  Moves
<1>1. op \in {4, 6}
  BY DEF HoleInv, AtAndOp, Leaving, Creating, Starting, OfferTaken, ResultTaken, AcceptTaken
<1>2. AtAndOp'
  BY <1>1 DEF AtAndOp, Punching
<1>3. (Early' => Early) /\ (Late' => Late)
  BY <1>1 DEF Early, Late, Leaving, OfferTaken, ResultTaken, AcceptTaken
<1>4. at \notin Leaving /\ Last' = Last
  BY DEF Last, Leaving, OfferTaken, ResultTaken, AcceptTaken
<1> QED BY <1>2, <1>3, <1>4 DEF Moves

LEMMA CallsAre ==
  /\ Len(Calls) = 6
  /\ Calls[1] = "create" /\ Calls[2] = "offer" /\ Calls[3] = "start"
  /\ Calls[4] = "punch" /\ Calls[5] = "offer" /\ Calls[6] = "punch"
BY DEF Calls

LEMMA BeginMoves == ASSUME HoleInv, Begin PROVE Moves
<1>1. at = "between" /\ op \in 0 .. 5 /\ op' = op + 1
  <2>1. at = "between" /\ op < 6 /\ op' = op + 1
    BY CallsAre DEF Begin
  <2>2. op \in 0 .. 6
    BY DEF HoleInv, AtAndOp
  <2> QED BY <2>1, <2>2
<1>2. /\ op = 0 => at' = "fqdn"
      /\ op = 1 => at' = "makeOffer"
      /\ op = 2 => at' = "startGuard"
      /\ op = 3 => at' = "punchGuard"
      /\ op = 4 => at' = "makeOffer"
      /\ op = 5 => at' = "punchGuard"
  <2>1. at' = CASE Calls[op + 1] = "create" -> "fqdn"
          [] Calls[op + 1] = "offer" -> "makeOffer"
          [] Calls[op + 1] = "start" -> "startGuard"
          [] OTHER -> "punchGuard"
    BY DEF Begin, Go
  <2>2. (op = 0 => op + 1 = 1) /\ (op = 1 => op + 1 = 2) /\ (op = 2 => op + 1 = 3)
        /\ (op = 3 => op + 1 = 4) /\ (op = 4 => op + 1 = 5) /\ (op = 5 => op + 1 = 6)
    OBVIOUS
  <2> QED BY <2>1, <2>2, CallsAre
<1>3. AtAndOp'
  BY <1>1, <1>2 DEF AtAndOp, Creating, Starting, Punching
<1>4. (Early' => Early) /\ (Late' => Late)
  BY <1>1, <1>2 DEF Early, Late, Leaving
<1>5. at \notin Leaving /\ Last' = Last
  BY <1>1, <1>2 DEF Last, Leaving, OfferTaken, ResultTaken
<1> QED BY <1>3, <1>4, <1>5 DEF Moves

LEMMA AfterIs ==
  /\ After["fqdn"] = "stop1" /\ After["stop1"] = "spawn" /\ After["stop2"] = "httpCreate"
  /\ After["httpCreate"] = "stop3" /\ After["stop3"] = "waitCreated" /\ After["httpStart"] = "stop4"
  /\ After["stop4"] = "waitStarted" /\ After["httpAck"] = "stop5" /\ After["stop5"] = "sendOffer"
  /\ After["stop6"] = "sendAccept" /\ After["sendAccept"] = "stop7" /\ After["stop7"] = "waitAccept"
  /\ After["httpResult"] = "stop8" /\ After["stop8"] = "establish" /\ After["stop9"] = "lastRequests"
BY DEF After

LEMMA AfterMoves ==
  ASSUME HoleInv, op' = op, at' = After[at],
         at \in {"fqdn", "stop1", "stop2", "httpCreate", "stop3", "httpStart", "stop4", "httpAck", "stop5",
                 "stop6", "sendAccept", "stop7", "httpResult", "stop8", "stop9"}
  PROVE  Moves
<1>1. CASE at \in {"fqdn", "stop1", "stop2", "httpCreate", "stop3"}
  BY <1>1, AfterIs, CreateMoves DEF Creating
<1>2. CASE at \in {"httpStart", "stop4"}
  BY <1>2, AfterIs, StartMoves DEF Starting
<1>3. CASE at \in {"httpAck", "stop5"}
  BY <1>3, AfterIs, PunchMoves DEF OfferTaken
<1>4. CASE at \in {"stop6", "sendAccept", "stop7"}
  BY <1>4, AfterIs, PunchMoves DEF ResultTaken
<1>5. CASE at \in {"httpResult", "stop8", "stop9"}
  BY <1>5, AfterIs, PunchMoves DEF AcceptTaken
<1> QED BY <1>1, <1>2, <1>3, <1>4, <1>5

(* The steps that leave the messages alone, each by where the control goes.      *)
LEMMA MovesKeep ==
  ASSUME HoleInv, Moves, UNCHANGED <<notifs, took, coming, heldNotif, console, reused, mixed>>, reqId' \in Nat
  PROVE  HoleInv'
BY AloneKeeps DEF Moves

LEMMA CheckStopKeeps == ASSUME HoleInv, CheckStop PROVE HoleInv'
<1>1. UNCHANGED <<op, notifs, took, coming, heldNotif, console, reused, mixed>>
  BY DEF CheckStop, theirs, psn
<1>2. reqId' \in Nat
  <2>1. reqId \in Nat /\ reqId' \in {reqId, reqId + 1}
    BY DEF CheckStop, HoleInv, NoticesAreTyped
  <2> QED BY <2>1
<1>3. Moves
  <2>1. CASE mainStop
    BY <1>1, <2>1, Leaves DEF CheckStop, Return, Leaving
  <2>2. CASE ~mainStop
    BY <1>1, <2>2, AfterMoves DEF CheckStop, Go
  <2> QED BY <2>1, <2>2
<1> QED BY <1>1, <1>2, <1>3, MovesKeep

LEMMA CreationKeeps == ASSUME HoleInv, Spawn \/ Opening \/ NoteEnds \/ MakeOffer \/ StartGuard PROVE HoleInv'
<1>1. UNCHANGED <<op, notifs, took, coming, heldNotif, console, reused, mixed>>
  BY DEF Spawn, Opening, NoteEnds, MakeOffer, StartGuard, mine, theirs, psn
<1>2. reqId' \in Nat
  <2>1. reqId \in Nat /\ reqId' \in {reqId, reqId + 1}
    BY DEF Spawn, Opening, NoteEnds, MakeOffer, StartGuard, mine, HoleInv, NoticesAreTyped
  <2> QED BY <2>1
<1>3. at' \in Leaving => Moves
  BY <1>1, Leaves
<1>4. ASSUME Spawn PROVE Moves
  BY <1>1, <1>4, CreateMoves DEF Spawn, Go, Creating
<1>5. ASSUME Opening PROVE Moves
  BY <1>1, <1>3, <1>5, CreateMoves DEF Opening, Go, Return, Creating, Leaving
<1>6. ASSUME NoteEnds PROVE Moves
  <2>1. CASE at = "created"
    BY <1>1, <1>3, <1>6, <2>1, CreateMoves DEF NoteEnds, Go, Return, Creating, Leaving
  <2>2. CASE at = "started"
    BY <1>1, <1>3, <1>6, <2>2, StartMoves DEF NoteEnds, Go, Return, Starting, Leaving
  <2> QED BY <1>6, <2>1, <2>2 DEF NoteEnds
<1>7. ASSUME MakeOffer PROVE Moves
  <2>1. at = "makeOffer" /\ op \in {2, 5} /\ at' \in {"between", "failed"}
    BY <1>7 DEF MakeOffer, Return, HoleInv, AtAndOp, Leaving, Creating, Starting, Punching, OfferTaken,
                ResultTaken, AcceptTaken
  <2>2. CASE at' = "between"
    BY <1>1, <2>1, <2>2 DEF Moves, AtAndOp, Early, Late, Last, Leaving, OfferTaken, ResultTaken
  <2> QED BY <1>3, <2>1, <2>2 DEF Leaving
<1>8. ASSUME StartGuard PROVE Moves
  BY <1>1, <1>3, <1>8, StartMoves DEF StartGuard, Go, Return, Starting, Leaving
<1> QED BY <1>1, <1>2, <1>3, <1>4, <1>5, <1>6, <1>7, <1>8, MovesKeep

LEMMA PunchKeeps ==
  ASSUME HoleInv, Begin \/ PunchGuard \/ OfferReceived \/ Checking \/ Establish \/ LastRequests \/ WaitEnds
  PROVE  HoleInv'
<1>1. UNCHANGED <<notifs, took, coming, heldNotif, console, reused, mixed, reqId>>
  BY DEF Begin, PunchGuard, OfferReceived, Checking, Establish, LastRequests, WaitEnds, mine, theirs, psn
<1>2. ~Begin => op' = op
  BY DEF PunchGuard, OfferReceived, Checking, Establish, LastRequests, WaitEnds
<1>3. ~Begin /\ at' \in Leaving => Moves
  BY <1>2, Leaves
<1>4. ASSUME Begin PROVE Moves
  BY <1>4, BeginMoves
<1> USE DEF Go, Return
<1>5. ASSUME PunchGuard PROVE Moves
  BY <1>2, <1>3, <1>5, BeginMoves, PunchMoves DEF PunchGuard, Leaving
<1>6. ASSUME OfferReceived PROVE Moves
  BY <1>2, <1>3, <1>6, BeginMoves, PunchMoves DEF OfferReceived, OfferTaken
<1>7. ASSUME Checking PROVE Moves
  BY <1>2, <1>3, <1>7, BeginMoves, PunchMoves DEF Checking, ResultTaken, Leaving
<1>8. ASSUME Establish PROVE Moves
  BY <1>2, <1>3, <1>8, BeginMoves, PunchMoves DEF Establish, AcceptTaken
<1>9. ASSUME LastRequests PROVE Moves
  BY <1>2, <1>3, <1>9, BeginMoves, PunchMoves DEF LastRequests, AcceptTaken, Leaving
<1>10. ASSUME WaitEnds PROVE Moves
  BY <1>2, <1>3, <1>10, BeginMoves DEF WaitEnds, Leaving
<1>11. reqId' \in Nat
  BY <1>1 DEF HoleInv, NoticesAreTyped
<1> QED BY <1>1, <1>4, <1>5, <1>6, <1>7, <1>8, <1>9, <1>10, <1>11, MovesKeep

LEMMA EndKeeps ==
  ASSUME HoleInv, Fini \/ FiniWait \/ FiniJoin \/ Cancel \/ WsConnect \/ WsOpened
  PROVE  HoleInv'
<1>1. UNCHANGED <<op, notifs, took, coming, heldNotif, console, reused, mixed, reqId>>
  BY DEF Fini, FiniWait, FiniJoin, Cancel, WsConnect, WsOpened, mine, theirs, psn
<1>2. at' = at \/ at' \in Leaving
  BY DEF Fini, FiniWait, FiniJoin, Cancel, WsConnect, WsOpened, Go, Leaving
<1>3. Moves
  BY <1>1, <1>2, Leaves, StaysPut
<1>4. reqId' \in Nat
  BY <1>1 DEF HoleInv, NoticesAreTyped
<1> QED BY <1>1, <1>3, <1>4, MovesKeep

(* A step that brings messages, none of them an offer, or that the console hears of.      *)
Plain(new) == new \in Seq(Notice) /\ \A i \in DOMAIN new : new[i].type # "OFFER" /\ ~new[i].used
ComesPlain == coming' \in Seq(Notice) /\ Fewer(coming', coming) /\ \A i \in DOMAIN coming' : ~coming'[i].used

LEMMA PlainNotes ==
  /\ \A type \in {"SESSION_CREATED", "MEMBER_CREATED", "CUSTOM_DATA1", "MEMBER_DELETED", "SESSION_DELETED"} :
       Plain(<<Note(type)>>)
  /\ Plain(<<Note("SESSION_CREATED"), Note("MEMBER_CREATED")>>)
  /\ Plain(<<Note("MEMBER_CREATED"), Note("SESSION_CREATED")>>)
  /\ Plain(<<Note("MEMBER_CREATED"), Note("CUSTOM_DATA1")>>)
  /\ Plain(<<Note("CUSTOM_DATA1"), Note("MEMBER_CREATED")>>)
<1> DEFINE Types == {"SESSION_CREATED", "MEMBER_CREATED", "CUSTOM_DATA1", "MEMBER_DELETED", "SESSION_DELETED"}
<1>1. ASSUME NEW type \in Types PROVE Note(type) \in Notice /\ Note(type).type # "OFFER" /\ ~Note(type).used
  BY DEF Note, Notice
<1>2. ASSUME NEW a \in Notice, a.type # "OFFER", ~a.used PROVE Plain(<<a>>)
  BY <1>2 DEF Plain
<1>3. ASSUME NEW a \in Notice, a.type # "OFFER", ~a.used, NEW b \in Notice, b.type # "OFFER", ~b.used
      PROVE  Plain(<<a, b>>)
  BY <1>3 DEF Plain
<1> QED BY <1>1, <1>2, <1>3

LEMMA PlainTogether == ASSUME NEW q, NEW r, Plain(q), Plain(r) PROVE Plain(q \o r)
<1>1. q \in Seq(Notice) /\ r \in Seq(Notice)
  BY DEF Plain
<1> QED BY <1>1, JoinedNotices DEF Plain

LEMMA UnchangedIsPlain == ASSUME HoleInv, UNCHANGED coming PROVE ComesPlain
BY DEF ComesPlain, Fewer, HoleInv, NoneUsed, NoticesAreTyped

LEMMA ArriveIsPlain == ASSUME HoleInv, NEW new, Plain(new), Arrive(new) PROVE ComesPlain
<1>1. CASE coming' = coming
  BY <1>1, UnchangedIsPlain
<1>2. CASE coming' = coming \o new
  <2>1. coming \in Seq(Notice) /\ new \in Seq(Notice) /\ ~HasCtrl(new) /\ ~HasData(new)
    BY DEF HoleInv, NoticesAreTyped, Plain, HasCtrl, HasData, CtrlOffer, DataOffer
  <2>2. Fewer(coming', coming)
    BY <1>2, <2>1, JoinedNotices DEF Fewer
  <2>3. ASSUME NEW i \in DOMAIN coming' PROVE ~coming'[i].used
    BY <1>2, <2>1, JoinedNotices DEF HoleInv, NoneUsed, Plain
  <2> QED BY <1>2, <2>1, <2>2, <2>3, JoinedNotices DEF ComesPlain
<1> QED BY <1>1, <1>2 DEF Arrive

LEMMA BroughtKeeps ==
  ASSUME HoleInv, Moves, ComesPlain, UNCHANGED <<notifs, took, heldNotif, reused, mixed, reqId>>,
         console' \in ConsoleType,
         console'.offers = console.offers,
         Early' => (\A m \in console'.heard : m[1] = "START") /\ console'.replied = {}
  PROVE  HoleInv'
<1>1. NoticesAreTyped'
  BY DEF HoleInv, NoticesAreTyped, ComesPlain
<1>2. Steady
  BY <1>1 DEF Steady, Moves
<1>3. Thinned(notifs', notifs)
  BY SameIsThinned DEF HoleInv, NoticesAreTyped
<1> QED BY <1>2, <1>3, SteadyKeeps DEF ComesPlain

LEMMA ConsoleIsTyped ==
  ASSUME HoleInv
  PROVE  /\ console.offers \in [Connections -> Nat] /\ console.acked \in SUBSET {"", "ctrl", "data"}
         /\ console.heard \in SUBSET Heard /\ console.replied \in SUBSET Connections /\ console.left \in BOOLEAN
         /\ Early => (\A m \in console.heard : m[1] = "START") /\ console.replied = {}
BY DEF HoleInv, NoticesAreTyped, DataComesLater

LEMMA HearKeeps ==
  ASSUME HoleInv, NEW what \in Heard, Hear(what), Early => what[1] = "START"
  PROVE  /\ console' \in ConsoleType
         /\ console'.offers = console.offers
         /\ Early => (\A m \in console'.heard : m[1] = "START") /\ console'.replied = {}
<1>1. console \in ConsoleType
  BY DEF HoleInv, NoticesAreTyped
<1>2. console' = [console EXCEPT !.heard = console.heard \cup {what}]
  BY DEF Hear
<1>3. console'.heard = console.heard \cup {what} /\ console'.offers = console.offers /\ console'.replied = console.replied
  BY <1>1, <1>2
<1>4. console.heard \cup {what} \in SUBSET Heard
  BY ConsoleIsTyped
<1>5. console' \in ConsoleType
  <2> DEFINE heardNow == console.heard \cup {what}
  <2> HIDE DEF heardNow, Heard
  <2>1. heardNow \in SUBSET Heard /\ console' = [console EXCEPT !.heard = heardNow]
    BY <1>2, <1>4 DEF heardNow
  <2> QED BY <1>1, <2>1
<1> QED BY <1>3, <1>5, ConsoleIsTyped

LEMMA ConsoleStays ==
  ASSUME HoleInv, UNCHANGED console
  PROVE  /\ console' \in ConsoleType
         /\ console'.offers = console.offers
         /\ Early => (\A m \in console'.heard : m[1] = "START") /\ console'.replied = {}
BY ConsoleIsTyped DEF HoleInv, NoticesAreTyped

LEMMA PortIsConnection == Port \in Connections
BY DEF Port, Connections

LEMMA NoticeIs ==
  \A n \in Notice : /\ n.port \in {"", "ctrl", "data"} /\ n.req \in Nat /\ n.used \in BOOLEAN
                    /\ n.type = "OFFER" => n.port \in Connections
BY DEF Notice

LEMMA RequestKeeps == ASSUME HoleInv, Request PROVE HoleInv'
<1>1. UNCHANGED <<op, notifs, took, heldNotif, reused, mixed, reqId>>
  BY DEF Request, theirs
<1>2. CASE at' \in Leaving /\ UNCHANGED psn
  BY <1>1, <1>2, Leaves, UnchangedIsPlain, ConsoleStays, BroughtKeeps DEF psn, Moves
<1>3. CASE Effect /\ at' = After[at]
  <2>1. at \in {"fqdn", "httpCreate", "httpStart", "httpAck", "sendAccept", "httpResult"}
    BY DEF Request
  <2>2. Moves
    BY <1>1, <1>3, <2>1, AfterMoves
  <2>3. CASE at \in {"fqdn", "httpResult"} /\ UNCHANGED psn
    BY <1>1, <2>2, <2>3, UnchangedIsPlain, ConsoleStays, BroughtKeeps DEF psn, Moves
  <2>4. CASE at = "httpCreate" /\ Created /\ UNCHANGED console
    <3>1. ComesPlain
      BY <2>4, PlainNotes, ArriveIsPlain DEF Created
    <3> QED BY <1>1, <2>2, <2>4, <3>1, ConsoleStays, BroughtKeeps DEF Moves
  <2>5. CASE at = "httpStart" /\ Started /\ Hear(<<"START", "ctrl", 0>>)
    <3>1. ComesPlain
      BY <2>5, PlainNotes, ArriveIsPlain DEF Started
    <3>2. <<"START", "ctrl", 0>> \in Heard
      BY DEF Heard, Connections
    <3> QED BY <1>1, <2>2, <2>5, <3>1, <3>2, HearKeeps, BroughtKeeps DEF Moves
  <2>6. CASE at = "httpAck" /\ console' = [console EXCEPT !.acked = @ \cup {took.port}] /\ UNCHANGED coming
    <3>1. /\ console \in ConsoleType
          /\ took.port \in {"", "ctrl", "data"}
      BY NoticeIs DEF HoleInv, NoticesAreTyped
    <3>2. console.acked \cup {took.port} \in SUBSET {"", "ctrl", "data"}
      BY <3>1, ConsoleIsTyped
    <3>3. /\ console' \in ConsoleType
          /\ console'.offers = console.offers /\ console'.heard = console.heard
          /\ console'.replied = console.replied
      <4> DEFINE ackedNow == console.acked \cup {took.port}
      <4> HIDE DEF ackedNow
      <4>1. ackedNow \in SUBSET {"", "ctrl", "data"} /\ console' = [console EXCEPT !.acked = ackedNow]
        BY <2>6, <3>2 DEF ackedNow
      <4> QED BY <3>1, <4>1
    <3> QED BY <1>1, <2>2, <2>6, <3>3, UnchangedIsPlain, ConsoleIsTyped, BroughtKeeps DEF Moves
  <2>7. CASE at = "sendAccept" /\ Hear(<<"ACCEPT", Port, reqId>>) /\ UNCHANGED coming
    <3>1. <<"ACCEPT", Port, reqId>> \in Heard
      BY PortIsConnection DEF Heard, HoleInv, NoticesAreTyped
    <3>2. ~Early
      BY <2>7 DEF HoleInv, AtAndOp, Early, Leaving, Creating, Starting
    <3> QED BY <1>1, <2>2, <2>7, <3>1, <3>2, HearKeeps, UnchangedIsPlain, BroughtKeeps DEF Moves
  <2> QED BY <1>3, <2>3, <2>4, <2>5, <2>6, <2>7 DEF Effect
<1> QED BY <1>2, <1>3 DEF Request, Go, Return, Leaving

LEMMA SendOfferKeeps == ASSUME HoleInv, SendOffer PROVE HoleInv'
<1>1. UNCHANGED <<op, notifs, took, coming, heldNotif, reused, mixed>> /\ at = "sendOffer" /\ at' = "waitAck"
  BY DEF SendOffer, theirs, Go
<1>2. Moves
  BY <1>1, PunchMoves DEF OfferTaken
<1>3. ~Early /\ ~Early'
  <2>1. ~Early
    BY <1>1 DEF HoleInv, AtAndOp, Early, Leaving, Creating, Starting
  <2> QED BY <1>2, <2>1 DEF Moves
<1>4. /\ console' \in ConsoleType
      /\ console'.offers = console.offers
  <2>1. <<"OFFER", Port, reqId>> \in Heard
    BY PortIsConnection DEF Heard, HoleInv, NoticesAreTyped
  <2>2. Hear(<<"OFFER", Port, reqId>>) \/ UNCHANGED console
    BY DEF SendOffer
  <2> QED BY <1>3, <2>1, <2>2, HearKeeps, ConsoleStays
<1>5. reqId' \in Nat
  <2>1. reqId \in Nat /\ reqId' = reqId + 1
    BY DEF SendOffer, HoleInv, NoticesAreTyped
  <2> QED BY <2>1
<1>6. Steady
  <2>1. NoticesAreTyped'
    BY <1>1, <1>4, <1>5 DEF HoleInv, NoticesAreTyped
  <2> QED BY <1>1, <1>2, <1>3, <1>4, <2>1 DEF Steady, Moves
<1>7. Thinned(notifs', notifs)
  BY <1>1, SameIsThinned DEF HoleInv, NoticesAreTyped
<1> QED BY <1>1, <1>6, <1>7, UnchangedIsPlain, SteadyKeeps DEF ComesPlain

LEMMA FiniDeleteKeeps == ASSUME HoleInv, FiniDelete PROVE HoleInv'
<1>1. UNCHANGED <<op, notifs, took, heldNotif, reused, mixed, reqId, console>>
  BY DEF FiniDelete, mine, theirs
<1>2. at' \in Leaving
  BY DEF FiniDelete, Go, Leaving
<1>3. ComesPlain
  BY PlainNotes, ArriveIsPlain, UnchangedIsPlain DEF FiniDelete
<1> QED BY <1>1, <1>2, <1>3, Leaves, ConsoleStays, BroughtKeeps DEF Moves

LEMMA LeastExists == ASSUME NEW K \in SUBSET Nat, K # {} PROVE \E i \in K : \A j \in K : i <= j
<1> DEFINE R == {ss \in Nat \X Nat : ss[1] < ss[2]}
<1>1. IsWellFoundedOn(R, Nat)
  BY NatLessThanWellFounded DEF OpToRel
<1>2. \A x, y \in Nat : y < x => <<y, x>> \in R
  OBVIOUS
<1> HIDE DEF R
<1>3. PICK x \in K : \A y \in K : ~(<<y, x>> \in R)
  BY <1>1, WFMin
<1>4. x \in Nat /\ \A y \in K : y \in Nat /\ ~(y < x)
  BY <1>2, <1>3
<1>5. \A y \in K : x <= y
  BY <1>4
<1> QED BY <1>5

(* The message that is looked at is the first one.                               *)
LEMMA FirstIs ==
  ASSUME HoleInv, NEW types, FirstOf(types) # 0
  PROVE  /\ FirstOf(types) \in DOMAIN notifs /\ notifs[FirstOf(types)].type \in types
         /\ \A j \in DOMAIN notifs : notifs[j].type \in types => FirstOf(types) <= j
<1> DEFINE hits == {i \in DOMAIN notifs : notifs[i].type \in types}
<1>1. hits \in SUBSET Nat
  <2>1. notifs \in Seq(Notice)
    BY DEF HoleInv, NoticesAreTyped
  <2> QED BY <2>1
<1>2. hits # {} /\ FirstOf(types) = CHOOSE i \in hits : \A j \in hits : i <= j
  BY DEF FirstOf
<1>3. \E i \in hits : \A j \in hits : i <= j
  BY <1>1, <1>2, LeastExists
<1>4. FirstOf(types) \in hits /\ \A j \in hits : FirstOf(types) <= j
  BY <1>2, <1>3
<1> QED BY <1>4

LEMMA TakeNoteKeeps == ASSUME HoleInv, TakeNote PROVE HoleInv'
<1>1. UNCHANGED <<op, coming, heldNotif, reused, mixed, reqId, console>>
  BY DEF TakeNote, theirs, psn
<1>2. PICK i \in DOMAIN notifs : notifs' = Cut(notifs, i) /\ took' = notifs[i]
  BY FirstIs DEF TakeNote, Without, Cut
<1>3. Thinned(notifs', notifs)
  BY <1>2, CutIsThinned DEF HoleInv, NoticesAreTyped
<1>4. Moves
  BY <1>1, CreateMoves, StartMoves DEF TakeNote, Go, Creating, Starting
<1>5. NoticesAreTyped'
  <2>1. notifs' \in Seq(Notice) /\ notifs \in Seq(Notice)
    BY <1>3 DEF Thinned, HoleInv, NoticesAreTyped
  <2>2. took' \in Notice
    BY <1>2, <2>1
  <2> QED BY <1>1, <2>1, <2>2 DEF HoleInv, NoticesAreTyped
<1>6. Steady
  BY <1>1, <1>4, <1>5, ConsoleIsTyped DEF Steady, Moves
<1> QED BY <1>1, <1>3, <1>6, UnchangedIsPlain, SteadyKeeps DEF ComesPlain

(* A message of another kind is cleared; what is taken is marked and stays the first.     *)
LEMMA ClearKeeps ==
  ASSUME HoleInv, TakeMessage, notifs' = Dropped(FirstOf(Messages)), UNCHANGED <<at, took, reused, mixed>>
  PROVE  HoleInv'
<1>1. UNCHANGED <<op, coming, heldNotif, reqId, console>>
  BY DEF TakeMessage, theirs, psn
<1>2. PICK i \in DOMAIN notifs : notifs' = Cut(notifs, i)
  BY FirstIs DEF TakeMessage, Dropped, Without, Cut
<1>3. Thinned(notifs', notifs)
  BY <1>2, CutIsThinned DEF HoleInv, NoticesAreTyped
<1>4. NoticesAreTyped'
  BY <1>1, <1>3 DEF Thinned, HoleInv, NoticesAreTyped
<1>5. Steady
  BY <1>1, <1>4, StaysPut, ConsoleIsTyped DEF Steady, Moves
<1> QED BY <1>1, <1>3, <1>5, UnchangedIsPlain, SteadyKeeps DEF ComesPlain

LEMMA MarkedIsSeq ==
  ASSUME NEW S, NEW q \in Seq(S), NEW k \in DOMAIN q, NEW v \in S
  PROVE  [q EXCEPT ![k] = v] \in Seq(S)
OBVIOUS

LEMMA TakenKeeps ==
  ASSUME HoleInv, TakeMessage, NEW i \in DOMAIN notifs, i = FirstOf(Messages), notifs[i].type = Wanted,
         notifs' = [notifs EXCEPT ![i].used = TRUE], took' = notifs[i],
         reused' = (reused \/ notifs[i].used),
         mixed' = (mixed \/ (at = "waitOffer" /\ notifs[i].port # Port)),
         at' = CASE at = "waitOffer" -> "offerReceived" [] at = "waitAck" -> "checking" [] OTHER -> "httpResult"
  PROVE  HoleInv'
<1>1. UNCHANGED <<op, coming, heldNotif, reqId, console>> /\ FirstOf(Messages) # 0
  BY DEF TakeMessage, theirs, psn
<1>2. at \in {"waitOffer", "waitAck", "waitAccept"} /\ op \in {4, 6}
  <2>1. at \in {"waitOffer", "waitAck", "waitAccept"}
    BY DEF TakeMessage
  <2> QED BY <2>1 DEF HoleInv, AtAndOp, Leaving, Creating, Starting
<1>3. notifs \in Seq(Notice) /\ \A j \in DOMAIN notifs : notifs[j].type \in Messages => i <= j
  BY <1>1, FirstIs DEF HoleInv, NoticesAreTyped
<1>4. notifs[i] \in Notice /\ notifs[i].type = Wanted /\ Wanted \in Messages \ {"TERMINATE"}
  BY <1>3 DEF Wanted, Messages
<1>5. ASSUME NEW j \in DOMAIN notifs PROVE notifs[j].used => j = i /\ notifs[j].type = Last
  <2> HAVE notifs[j].used
  <2>1. notifs[j].type \in Messages /\ j <= i /\ notifs[j].type = Last
    BY <1>2, <1>4 DEF HoleInv, TakenIsFirst, Leaving
  <2>2. i <= j
    BY <1>3, <2>1
  <2> QED BY <1>3, <2>1, <2>2
<1>6. Wanted # Last
  BY <1>2 DEF Wanted, Last, OfferTaken, ResultTaken
<1>7. \A j \in DOMAIN notifs : ~notifs[j].used
  BY <1>4, <1>5, <1>6
<1>8. /\ notifs' \in Seq(Notice) /\ DOMAIN notifs' = DOMAIN notifs
      /\ notifs'[i].used /\ notifs'[i].type = notifs[i].type /\ notifs'[i].port = notifs[i].port
      /\ \A j \in DOMAIN notifs \ {i} : notifs'[j] = notifs[j]
  <2> DEFINE n == [notifs[i] EXCEPT !.used = TRUE]
  <2>1. n \in Notice /\ n.used /\ n.type = notifs[i].type /\ n.port = notifs[i].port
    BY <1>4 DEF Notice
  <2>2. notifs' = [notifs EXCEPT ![i] = n]
    OBVIOUS
  <2> HIDE DEF n
  <2>3. DOMAIN notifs' = DOMAIN notifs /\ notifs'[i] = n /\ \A j \in DOMAIN notifs \ {i} : notifs'[j] = notifs[j]
    BY <1>3, <2>2
  <2>4. notifs' \in Seq(Notice)
    <3>1. notifs \in Seq(Notice) /\ n \in Notice
      BY <1>3, <2>1
    <3>2. [notifs EXCEPT ![i] = n] \in Seq(Notice)
      BY <3>1, MarkedIsSeq
    <3> QED BY <2>2, <3>2
  <2> QED BY <2>1, <2>3, <2>4
<1>9. NoticesAreTyped'
  BY <1>1, <1>4, <1>8 DEF HoleInv, NoticesAreTyped
<1>10. AtAndOp' /\ Last' = Wanted /\ at' \notin Leaving
  <2>1. /\ at = "waitOffer" => at' = "offerReceived"
        /\ at = "waitAck" => at' = "checking"
        /\ at = "waitAccept" => at' = "httpResult"
    OBVIOUS
  <2> QED BY <1>1, <1>2, <2>1 DEF AtAndOp, Last, Wanted, Punching, OfferTaken, ResultTaken, AcceptTaken,
                                  Leaving
<1>11. TakenIsFirst'
  <2>1. \A j \in DOMAIN notifs' : notifs'[j].type = notifs[j].type /\ (notifs'[j].used => j = i)
    BY <1>7, <1>8
  <2> QED BY <1>3, <1>4, <1>8, <1>10, <2>1 DEF TakenIsFirst
<1>12. ~Early' /\ (Late \/ at = "waitOffer")
  BY <1>1, <1>2, <1>10 DEF Early, Late, Leaving
<1>13. ~reused'
  BY <1>7 DEF HoleInv
<1>14. CtrlIsCounted'
  <2>1. Fewer(notifs', notifs) /\ \A j \in DOMAIN notifs' : CtrlOffer(notifs'[j]) => j # i /\ CtrlOffer(notifs[j])
    <3>1. \A j \in DOMAIN notifs' : CtrlOffer(notifs'[j]) => j # i /\ CtrlOffer(notifs[j])
      BY <1>8 DEF CtrlOffer
    <3>2. \A j \in DOMAIN notifs' : DataOffer(notifs'[j]) => DataOffer(notifs[j])
      BY <1>8 DEF DataOffer
    <3> QED BY <1>8, <3>1, <3>2, ZenonT(60) DEF Fewer, HasCtrl, HasData, OneCtrl
  <2>2. console.offers["ctrl"] \in Nat /\ CtrlIsCounted
    BY ConsoleIsTyped DEF HoleInv, Connections
  <2>3. CASE at # "waitOffer"
    <3>1. mixed' <=> mixed
      BY <2>3
    <3> QED BY <1>1, <1>12, <2>1, <2>2, <2>3, <3>1 DEF CtrlIsCounted, Fewer, NoCtrl, SingleCtrl
  <2>4. CASE at = "waitOffer"
    <3>1. notifs[i].type = "OFFER" /\ ~notifs[i].used /\ notifs[i].port \in {"ctrl", "data"}
      BY <1>4, <1>7, <2>4, NoticeIs DEF Wanted, Connections
    <3>2. CASE op = 4
      <4>1. Early /\ Port = "ctrl"
        BY <2>4, <3>2 DEF Early, Leaving, Port
      <4>2. notifs[i].port = "ctrl" /\ CtrlOffer(notifs[i])
        BY <3>1, <4>1 DEF HoleInv, DataComesLater, HasData, DataOffer, CtrlOffer
      <4>3. HasCtrl(notifs) /\ console.offers["ctrl"] # 0
        BY <2>2, <4>2 DEF HasCtrl, CtrlIsCounted, NoCtrl
      <4>4. mixed' <=> mixed
        BY <2>4, <4>1, <4>2
      <4>5. console.offers["ctrl"] = 1 => NoCtrl'
        <5> HAVE console.offers["ctrl"] = 1
        <5>1. SingleCtrl
          BY <2>2 DEF CtrlIsCounted
        <5>2. ~HasCtrl(notifs')
          BY <1>8, <2>1, <4>2, <5>1 DEF HasCtrl, SingleCtrl, OneCtrl
        <5> QED BY <1>1, <4>3, <5>1, <5>2 DEF NoCtrl, SingleCtrl
      <4>6. console.offers["ctrl"] = 1 => SingleCtrl'
        BY <1>1, <2>1, <2>2 DEF CtrlIsCounted, SingleCtrl, Fewer
      <4> QED BY <1>1, <2>2, <4>3, <4>4, <4>5, <4>6 DEF CtrlIsCounted
    <3>3. CASE op = 6
      <4>1. Late /\ Port = "data"
        BY <2>4, <3>3 DEF Late, Leaving, Port
      <4>2. mixed' => console.offers["ctrl"] > 1
        <5>1. CASE notifs[i].port = "data"
          BY <2>2, <2>4, <4>1, <5>1 DEF CtrlIsCounted
        <5>2. CASE notifs[i].port = "ctrl"
          <6>1. HasCtrl(notifs)
            BY <3>1, <5>2 DEF HasCtrl, CtrlOffer
          <6> QED BY <2>2, <4>1, <6>1 DEF CtrlIsCounted, NoCtrl
        <5> QED BY <3>1, <5>1, <5>2
      <4> QED BY <1>1, <2>1, <2>2, <4>1, <4>2 DEF CtrlIsCounted, Fewer, NoCtrl, SingleCtrl
    <3> QED BY <1>2, <3>2, <3>3
  <2> QED BY <2>3, <2>4
<1>15. DataComesLater' /\ NoneUsed'
  BY <1>1, <1>12 DEF DataComesLater, HoleInv, NoneUsed
<1> QED BY <1>9, <1>10, <1>11, <1>13, <1>14, <1>15 DEF HoleInv

LEMMA TakeMessageKeeps == ASSUME HoleInv, TakeMessage PROVE HoleInv'
<1> DEFINE i == FirstOf(Messages)
           n == notifs[i]
<1>1. i # 0 /\ i \in DOMAIN notifs
  BY FirstIs DEF TakeMessage
<1>2. \/ /\ mainStop \/ n.type = "TERMINATE"
         /\ at' = "failed" /\ UNCHANGED <<notifs, took, reused, mixed>>
      \/ notifs' = Dropped(i) /\ UNCHANGED <<at, took, reused, mixed>>
      \/ /\ n.type = Wanted /\ notifs' = [notifs EXCEPT ![i].used = TRUE] /\ took' = n
         /\ reused' = (reused \/ n.used)
         /\ mixed' = (mixed \/ (at = "waitOffer" /\ n.port # Port))
         /\ at' = CASE at = "waitOffer" -> "offerReceived" [] at = "waitAck" -> "checking" [] OTHER -> "httpResult"
  BY DEF TakeMessage, Return, Go, Marked
<1>3. CASE at' = "failed" /\ UNCHANGED <<notifs, took, reused, mixed>>
  <2>1. UNCHANGED <<op, coming, heldNotif, reqId, console>>
    BY DEF TakeMessage, theirs, psn
  <2>2. reqId' \in Nat
    BY <2>1 DEF HoleInv, NoticesAreTyped
  <2> QED BY <1>3, <2>1, <2>2, Leaves, MovesKeep DEF Leaving
<1>4. CASE notifs' = Dropped(i) /\ UNCHANGED <<at, took, reused, mixed>>
  BY <1>4, ClearKeeps
<1>5. CASE /\ n.type = Wanted /\ notifs' = [notifs EXCEPT ![i].used = TRUE] /\ took' = n
           /\ reused' = (reused \/ n.used)
           /\ mixed' = (mixed \/ (at = "waitOffer" /\ n.port # Port))
           /\ at' = CASE at = "waitOffer" -> "offerReceived" [] at = "waitAck" -> "checking" [] OTHER -> "httpResult"
  <2>1. i = FirstOf(Messages)
    OBVIOUS
  <2> HIDE DEF i
  <2> QED BY <1>1, <1>5, <2>1, TakenKeeps
<1> QED BY <1>2, <1>3, <1>4, <1>5

------------------------------------------------------------------------------
(* The websocket thread hands on one message after the other.                    *)
LEMMA WsLeaveKeeps == ASSUME HoleInv, WsLeave PROVE HoleInv'
<1>1. UNCHANGED <<at, op, notifs, took, heldNotif, reused, mixed, reqId, console>> /\ coming' = <<>>
  BY DEF WsLeave, mine
<1>2. ComesPlain
  BY <1>1, NothingIsFewer DEF ComesPlain
<1> QED BY <1>1, <1>2, StaysPut, ConsoleStays, BroughtKeeps DEF Moves

(* Where the offers are does not matter as long as no place gets a second one.   *)
LEMMA WsReceiveKeeps == ASSUME HoleInv, WsReceive PROVE HoleInv'
<1>1. /\ UNCHANGED <<at, op, notifs, took, reused, mixed, reqId, console>>
      /\ coming # <<>> /\ coming \in Seq(Notice) /\ heldNotif' = Head(coming) /\ coming' = Tail(coming)
  BY DEF WsReceive, mine, HoleInv, NoticesAreTyped
<1>2. Thinned(coming', coming) /\ heldNotif' = coming[1] /\ 1 \in DOMAIN coming
  BY <1>1, TailIsThinned
<1>3. coming' \in Seq(Notice) /\ heldNotif' \in Notice /\ Fewer(coming', coming)
  <2>1. Fewer(coming', coming)
    BY <1>1, <1>2, ThinnedIsFewer
  <2>2. coming' \in Seq(Notice)
    BY <1>2 DEF Thinned
  <2>3. heldNotif' \in Notice
    BY <1>1, <1>2
  <2> QED BY <2>1, <2>2, <2>3
<1>4. \A i \in DOMAIN coming' : \E j \in DOMAIN coming : j # 1 /\ coming'[i] = coming[j]
  <2> SUFFICES ASSUME NEW i \in DOMAIN coming' PROVE \E j \in DOMAIN coming : j # 1 /\ coming'[i] = coming[j]
    OBVIOUS
  <2>1. i \in Nat \ {0} /\ i + 1 \in DOMAIN coming /\ coming'[i] = coming[i + 1]
    BY <1>1
  <2> QED BY <2>1
<1>5. (CtrlOffer(heldNotif') => HasCtrl(coming)) /\ (DataOffer(heldNotif') => HasData(coming))
  BY <1>2 DEF HasCtrl, HasData
<1>6. OneCtrl(coming) => ~(CtrlOffer(heldNotif') /\ HasCtrl(coming'))
  BY <1>2, <1>4 DEF OneCtrl, HasCtrl
<1>7. ~heldNotif'.used /\ \A i \in DOMAIN coming' : ~coming'[i].used
  BY <1>2, <1>4 DEF HoleInv, NoneUsed
<1>8. CtrlIsCounted'
  <2>1. NoCtrl => NoCtrl'
    BY <1>1, <1>3, <1>5 DEF NoCtrl, Fewer
  <2>2. SingleCtrl => SingleCtrl'
    BY <1>1, <1>3, <1>5, <1>6 DEF SingleCtrl, Fewer
  <2> QED BY <1>1, <2>1, <2>2 DEF HoleInv, CtrlIsCounted, Late
<1>9. DataComesLater'
  BY <1>1, <1>3, <1>5 DEF HoleInv, DataComesLater, Early, Fewer
<1>10. NoticesAreTyped' /\ AtAndOp'
  BY <1>1, <1>3 DEF HoleInv, NoticesAreTyped, AtAndOp
<1>11. TakenIsFirst'
  BY <1>1 DEF HoleInv, TakenIsFirst, Last
<1> QED BY <1>1, <1>7, <1>8, <1>9, <1>10, <1>11 DEF HoleInv, NoneUsed

LEMMA WsEnqueueKeeps == ASSUME HoleInv, WsEnqueue PROVE HoleInv'
<1>1. /\ UNCHANGED <<at, op, took, reused, mixed, reqId, coming>>
      /\ notifs \in Seq(Notice) /\ heldNotif \in Notice /\ heldNotif' = None
      /\ notifs' = Append(notifs, heldNotif)
  BY DEF WsEnqueue, HoleInv, NoticesAreTyped
<1>2. /\ notifs' \in Seq(Notice) /\ Len(notifs) \in Nat /\ DOMAIN notifs = 1 .. Len(notifs)
      /\ DOMAIN notifs' = 1 .. Len(notifs) + 1
      /\ notifs'[Len(notifs) + 1] = heldNotif /\ \A i \in DOMAIN notifs : notifs'[i] = notifs[i]
  BY <1>1
<1>3. \A i \in DOMAIN notifs' : i \in DOMAIN notifs \/ i = Len(notifs) + 1
  BY <1>2
<1>4. None \in Notice /\ ~CtrlOffer(None) /\ ~DataOffer(None) /\ ~None.used
  BY DEF None, Note, Notice, CtrlOffer, DataOffer
<1>5. /\ HasCtrl(notifs') => HasCtrl(notifs) \/ CtrlOffer(heldNotif)
      /\ HasData(notifs') => HasData(notifs) \/ DataOffer(heldNotif)
  BY <1>2, <1>3 DEF HasCtrl, HasData
<1>6. OneCtrl(notifs) /\ ~(HasCtrl(notifs) /\ CtrlOffer(heldNotif)) => OneCtrl(notifs')
  BY <1>2, <1>3 DEF OneCtrl, HasCtrl
<1>7. /\ console' \in ConsoleType
      /\ console'.offers = console.offers /\ console'.heard = console.heard
      /\ console'.replied = console.replied
  <2> DEFINE ackedNow == console.acked \cup {heldNotif.port}
  <2>1. ackedNow \in SUBSET {"", "ctrl", "data"}
    BY <1>1, NoticeIs, ConsoleIsTyped
  <2>2. console' = [console EXCEPT !.acked = ackedNow] \/ console' = console
    BY DEF WsEnqueue
  <2> HIDE DEF ackedNow
  <2>3. console \in ConsoleType
    BY DEF HoleInv, NoticesAreTyped
  <2> QED BY <2>1, <2>2, <2>3
<1>8. CtrlIsCounted'
  <2>1. NoCtrl => NoCtrl'
    BY <1>1, <1>4, <1>5 DEF NoCtrl
  <2>2. SingleCtrl => SingleCtrl'
    BY <1>1, <1>4, <1>5, <1>6 DEF SingleCtrl
  <2> QED BY <1>1, <1>7, <2>1, <2>2 DEF HoleInv, CtrlIsCounted, Late
<1>9. DataComesLater'
  BY <1>1, <1>4, <1>5, <1>7 DEF HoleInv, DataComesLater, Early
<1>10. NoticesAreTyped' /\ AtAndOp'
  BY <1>1, <1>2, <1>4, <1>7 DEF HoleInv, NoticesAreTyped, AtAndOp
<1>11. TakenIsFirst'
  <2> SUFFICES ASSUME NEW i \in DOMAIN notifs', notifs'[i].used
               PROVE  /\ notifs'[i].type \in Messages
                      /\ \A j \in DOMAIN notifs' : notifs'[j].type \in Messages => i <= j
                      /\ at' \notin Leaving => notifs'[i].type = Last'
    BY DEF TakenIsFirst
  <2>1. i \in DOMAIN notifs /\ notifs'[i] = notifs[i]
    BY <1>2, <1>3 DEF HoleInv, NoneUsed
  <2>2. /\ notifs[i].type \in Messages /\ \A j \in DOMAIN notifs : notifs[j].type \in Messages => i <= j
        /\ at \notin Leaving => notifs[i].type = Last
    BY <2>1 DEF HoleInv, TakenIsFirst
  <2>3. Last' = Last
    BY <1>1 DEF Last
  <2>4. i <= Len(notifs) + 1
    BY <1>2, <2>1
  <2> QED BY <1>1, <1>2, <1>3, <2>1, <2>2, <2>3, <2>4
<1> QED BY <1>1, <1>4, <1>8, <1>9, <1>10, <1>11 DEF HoleInv, NoneUsed

------------------------------------------------------------------------------
(* The console: what it says is no second offer until it repeats one.            *)
LEMMA ConsoleOffersKeeps == ASSUME HoleInv, NEW p \in {"ctrl", "data"}, ConsoleOffers(p) PROVE HoleInv'
<1> DEFINE n == Said("OFFER", p, 10)
           offersNow == [console.offers EXCEPT ![p] = @ + 1]
<1>1. /\ UNCHANGED <<at, op, notifs, took, heldNotif, reused, mixed, reqId>>
      /\ Arrive(<<n>>) /\ console' = [console EXCEPT !.offers[p] = @ + 1]
      /\ p = "data" => "ctrl" \in console.replied
  BY DEF ConsoleOffers, mine, theirs
<1>2. n \in Notice /\ ~n.used /\ (CtrlOffer(n) <=> p = "ctrl") /\ (DataOffer(n) <=> p = "data")
  BY DEF Said, Notice, Connections, CtrlOffer, DataOffer
<1> HIDE DEF n
<1>3. coming \in Seq(Notice) /\ <<n>> \in Seq(Notice) /\ DOMAIN <<n>> = {1} /\ <<n>>[1] = n
  <2>1. coming \in Seq(Notice)
    BY DEF HoleInv, NoticesAreTyped
  <2>2. <<n>> \in Seq(Notice) /\ DOMAIN <<n>> = {1} /\ <<n>>[1] = n
    BY <1>2
  <2> QED BY <2>1, <2>2
<1>4. (HasCtrl(<<n>>) <=> p = "ctrl") /\ (HasData(<<n>>) <=> p = "data") /\ OneCtrl(<<n>>)
  BY <1>2, <1>3 DEF HasCtrl, HasData, OneCtrl
<1>5. coming' = coming \/ coming' = coming \o <<n>>
  BY <1>1 DEF Arrive
<1>6. /\ coming' \in Seq(Notice) /\ \A i \in DOMAIN coming' : ~coming'[i].used
      /\ HasData(coming') => HasData(coming) \/ p = "data"
      /\ p = "data" => (HasCtrl(coming') => HasCtrl(coming)) /\ (OneCtrl(coming) => OneCtrl(coming'))
      /\ ~HasCtrl(coming) => OneCtrl(coming')
  <2>1. CASE coming' = coming
    <3>1. ~HasCtrl(coming) => OneCtrl(coming)
      BY DEF HasCtrl, OneCtrl
    <3> QED BY <1>3, <2>1, <3>1 DEF HoleInv, NoneUsed
  <2>2. CASE coming' = coming \o <<n>>
    <3>1. \A i \in DOMAIN coming' : ~coming'[i].used
      BY <1>2, <1>3, <2>2, JoinedNotices DEF HoleInv, NoneUsed
    <3> QED BY <1>3, <1>4, <2>2, <3>1, JoinedNotices
  <2> QED BY <1>5, <2>1, <2>2
<1>7. /\ console' \in ConsoleType
      /\ console'.offers = offersNow /\ console'.heard = console.heard /\ console'.replied = console.replied
  <2>1. console \in ConsoleType
    BY DEF HoleInv, NoticesAreTyped
  <2>2. offersNow \in [Connections -> Nat]
    <3>1. p \in Connections /\ console.offers \in [Connections -> Nat]
      BY ConsoleIsTyped DEF Connections
    <3>2. console.offers[p] + 1 \in Nat
      BY <3>1
    <3> QED BY <3>1, <3>2
  <2>3. console' = [console EXCEPT !.offers = offersNow]
    BY <1>1
  <2> HIDE DEF offersNow
  <2> QED BY <2>1, <2>2, <2>3
<1>8. /\ console.offers["ctrl"] \in Nat
      /\ console'.offers["ctrl"] = IF p = "ctrl" THEN console.offers["ctrl"] + 1 ELSE console.offers["ctrl"]
  BY <1>7, ConsoleIsTyped DEF Connections
<1>9. p = "data" => ~Early
  BY <1>1 DEF HoleInv, DataComesLater
<1>10. CtrlIsCounted'
  <2>1. CASE p = "data"
    <3>1. (HasCtrl(coming') => HasCtrl(coming)) /\ (OneCtrl(coming) => OneCtrl(coming'))
      BY <1>6, <2>1
    <3>2. (NoCtrl => NoCtrl') /\ (SingleCtrl => SingleCtrl')
      BY <1>1, <3>1 DEF NoCtrl, SingleCtrl
    <3>3. (Late' <=> Late) /\ console'.offers["ctrl"] = console.offers["ctrl"]
      BY <1>1, <1>8, <2>1 DEF Late
    <3> QED BY <1>1, <3>2, <3>3 DEF HoleInv, CtrlIsCounted
  <2>2. CASE p = "ctrl" /\ console.offers["ctrl"] = 0
    <3>1. NoCtrl /\ ~Late /\ ~mixed
      BY <2>2 DEF HoleInv, CtrlIsCounted
    <3>2. SingleCtrl'
      <4>1. OneCtrl(notifs)
        BY <3>1 DEF NoCtrl, HasCtrl, OneCtrl
      <4> QED BY <1>1, <1>6, <3>1, <4>1 DEF NoCtrl, SingleCtrl
    <3>3. ~Late' /\ ~mixed' /\ console'.offers["ctrl"] = 1
      BY <1>1, <1>8, <2>2, <3>1 DEF Late
    <3> QED BY <3>2, <3>3 DEF CtrlIsCounted
  <2>3. CASE p = "ctrl" /\ console.offers["ctrl"] # 0
    <3>1. console'.offers["ctrl"] > 1
      BY <1>8, <2>3
    <3>2. console'.offers["ctrl"] # 0 /\ console'.offers["ctrl"] # 1 /\ console'.offers["ctrl"] >= 1
      BY <1>8, <2>3
    <3> QED BY <3>1, <3>2 DEF CtrlIsCounted
  <2> QED BY <2>1, <2>2, <2>3
<1>11. DataComesLater'
  BY <1>1, <1>6, <1>7, <1>9 DEF HoleInv, DataComesLater, Early
<1>12. NoticesAreTyped' /\ AtAndOp'
  BY <1>1, <1>6, <1>7 DEF HoleInv, NoticesAreTyped, AtAndOp
<1>13. TakenIsFirst'
  BY <1>1 DEF HoleInv, TakenIsFirst, Last
<1> QED BY <1>1, <1>6, <1>10, <1>11, <1>12, <1>13 DEF HoleInv, NoneUsed

LEMMA ConsoleRepliesKeeps == ASSUME HoleInv, ConsoleReplies PROVE HoleInv'
<1>1. PICK m \in console.heard :
        /\ m[1] # "START"
        /\ Arrive(<<Said("RESULT", m[2], m[3])>> \o IF m[1] = "OFFER" THEN <<Said("ACCEPT", m[2], 20)>> ELSE <<>>)
        /\ console' = [console EXCEPT !.heard = @ \ {m}, !.replied = @ \cup {m[2]}]
  BY DEF ConsoleReplies
<1>2. UNCHANGED <<at, op, notifs, took, heldNotif, reused, mixed, reqId>>
  BY DEF ConsoleReplies, mine, theirs
<1>3. m[2] \in Connections /\ m[3] \in Nat
  BY ConsoleIsTyped DEF Heard
<1>4. ~Early
  BY <1>1, ConsoleIsTyped
<1> DEFINE a == Said("RESULT", m[2], m[3])
           b == Said("ACCEPT", m[2], 20)
<1>5. /\ a \in Notice /\ a.type # "OFFER" /\ ~a.used
      /\ b \in Notice /\ b.type # "OFFER" /\ ~b.used
  BY <1>3 DEF Said, Notice, Connections
<1> HIDE DEF a, b
<1>6. ComesPlain
  <2>1. CASE m[1] = "OFFER"
    <3>1. Plain(<<a>>) /\ Plain(<<b>>)
      BY <1>5 DEF Plain
    <3>2. Plain(<<a>> \o <<b>>)
      BY <3>1, PlainTogether
    <3> QED BY <1>1, <2>1, <3>2, ArriveIsPlain DEF a, b
  <2>2. CASE m[1] # "OFFER"
    <3>1. <<a>> \o <<>> = <<a>> /\ Plain(<<a>>)
      BY <1>5 DEF Plain
    <3> QED BY <1>1, <2>2, <3>1, ArriveIsPlain DEF a
  <2> QED BY <2>1, <2>2
<1>7. /\ console' \in ConsoleType
      /\ console'.offers = console.offers
  <2> DEFINE heardNow == console.heard \ {m}
             repliedNow == console.replied \cup {m[2]}
  <2>1. heardNow \in SUBSET Heard /\ repliedNow \in SUBSET Connections
    BY <1>3, ConsoleIsTyped
  <2>2. console' = [console EXCEPT !.heard = heardNow, !.replied = repliedNow]
    BY <1>1
  <2> HIDE DEF heardNow, repliedNow
  <2>3. console \in ConsoleType
    BY DEF HoleInv, NoticesAreTyped
  <2> QED BY <2>1, <2>2, <2>3
<1>8. Moves
  BY <1>2, StaysPut
<1> QED BY <1>2, <1>4, <1>6, <1>7, <1>8, BroughtKeeps DEF Moves

LEMMA ConsoleLeavesKeeps == ASSUME HoleInv, ConsoleLeaves PROVE HoleInv'
<1>1. UNCHANGED <<at, op, notifs, took, heldNotif, reused, mixed, reqId>>
  BY DEF ConsoleLeaves, mine, theirs
<1>2. Plain(<<Said("TERMINATE", "", 0)>>)
  <2> DEFINE a == Said("TERMINATE", "", 0)
  <2>1. a \in Notice /\ a.type # "OFFER" /\ ~a.used
    BY DEF Said, Notice
  <2> HIDE DEF a
  <2>2. Plain(<<a>>)
    BY <2>1 DEF Plain
  <2> QED BY <2>2 DEF a
<1>3. ComesPlain
  BY <1>2, PlainNotes, ArriveIsPlain DEF ConsoleLeaves
<1>4. /\ console' \in ConsoleType
      /\ console'.offers = console.offers /\ console'.heard = {} /\ console'.replied = console.replied
  <2>1. console \in ConsoleType
    BY DEF HoleInv, NoticesAreTyped
  <2>2. console' = [console EXCEPT !.heard = {}, !.left = TRUE]
    BY DEF ConsoleLeaves
  <2> QED BY <2>1, <2>2
<1>5. Moves
  BY <1>1, StaysPut
<1> QED BY <1>1, <1>3, <1>4, <1>5, ConsoleIsTyped, BroughtKeeps DEF Moves

LEMMA HoleStarts == Init \/ AtRest => HoleInv
<1> SUFFICES ASSUME Init \/ AtRest PROVE HoleInv
  OBVIOUS
<1>1. /\ at \in {"between", "done"} /\ op = 0 /\ notifs = <<>> /\ took = None /\ reqId = 1
      /\ heldNotif = None /\ coming = <<>> /\ reused = FALSE /\ mixed = FALSE
      /\ console = [offers |-> [p \in {"ctrl", "data"} |-> 0], acked |-> {}, heard |-> {}, replied |-> {},
                    left |-> FALSE]
  BY DEF Init, AtRest
<1>2. None \in Notice /\ ~CtrlOffer(None) /\ ~DataOffer(None) /\ ~None.used
  BY DEF None, Note, Notice, CtrlOffer, DataOffer
<1>3. NoticesAreTyped
  BY <1>1, <1>2 DEF NoticesAreTyped, Connections
<1>4. AtAndOp /\ ~Late
  BY <1>1 DEF AtAndOp, Late, Leaving
<1>5. ~HasCtrl(<<>>) /\ ~HasData(<<>>)
  BY DEF HasCtrl, HasData
<1>6. CtrlIsCounted
  BY <1>1, <1>2, <1>4, <1>5 DEF CtrlIsCounted, NoCtrl
<1>7. DataComesLater
  BY <1>1, <1>2, <1>5 DEF DataComesLater
<1>8. TakenIsFirst /\ NoneUsed /\ ~reused
  BY <1>1, <1>2 DEF TakenIsFirst, NoneUsed
<1> QED BY <1>3, <1>4, <1>6, <1>7, <1>8 DEF HoleInv

LEMMA HoleStepKeeps == ASSUME HoleInv, [Next]_vars PROVE HoleInv'
<1>1. CASE UNCHANGED vars
  <2>1. UNCHANGED <<at, op, notifs, took, coming, heldNotif, console, reused, mixed, reqId>>
    BY <1>1 DEF vars
  <2>2. reqId' \in Nat
    BY <2>1 DEF HoleInv, NoticesAreTyped
  <2> QED BY <2>1, <2>2, StaysPut, MovesKeep
<1>2. CASE Main
  BY <1>2, CheckStopKeeps, CreationKeeps, PunchKeeps, EndKeeps, RequestKeeps, SendOfferKeeps,
     FiniDeleteKeeps,
     TakeNoteKeeps, TakeMessageKeeps DEF Main
<1>3. CASE Ws \/ Cancel
  BY <1>3, EndKeeps, WsLeaveKeeps, WsReceiveKeeps, WsEnqueueKeeps DEF Ws
<1>4. CASE Console
  BY <1>4, ConsoleOffersKeeps, ConsoleRepliesKeeps, ConsoleLeavesKeeps DEF Console
<1> QED BY <1>1, <1>2, <1>3, <1>4 DEF Next

(* However often the console repeats its offers, whenever the application cancels and      *)
(* whatever is still on its way: no message of the console is taken for two things, and   *)
(* the offer for the ctrl connection is taken for the data connection only when the       *)
(* console had repeated it (holepunch.c, wait_for_session_message, clear_notification).   *)
THEOREM OffersAreUsedOnce == MCSpec => []OffersUsedOnce
<1>1. MCInit => HoleInv
  BY HoleStarts DEF MCInit
<1>2. HoleInv /\ [MCNext]_<<vars, candVars, rudpVars, regVars, discVars>> => HoleInv'
  <2>1. [MCNext]_<<vars, candVars, rudpVars, regVars, discVars>> => [Next]_vars
    BY DEF MCNext
  <2> QED BY <2>1, HoleStepKeeps
<1>3. HoleInv => OffersUsedOnce
  BY DEF HoleInv, CtrlIsCounted, OffersUsedOnce
<1> QED BY <1>1, <1>2, <1>3, PTL DEF MCSpec
=============================================================================
