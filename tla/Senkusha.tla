----------------------------- MODULE Senkusha -----------------------------
(***************************************************************************)
(* The link test before the stream (senkusha.c): connect, agree on a       *)
(* version, measure the round trip with pings, then search the MTU of each *)
(* direction by bisection.  chiaki_senkusha_run holds state_mutex except in*)
(* its waits; the takion thread finishes a wait when it receives what the  *)
(* current state expects.                                                  *)
(*                                                                         *)
(* The network may answer late, twice or not at all; it never answers a    *)
(* probe larger than the path allows.  The packets of a console may not be *)
(* fragmented, those of the cloud may (senkusha.c:161-164).                *)
(***************************************************************************)
EXTENDS Integers

CONSTANTS MtuMin, MtuMax,   \* 576 and 1454 in the code
          PathMtus,         \* what the path may allow
          Retries,          \* attempts of a probe (3)
          Pings,            \* SENKUSHA_PING_COUNT_DEFAULT
          PsnWrapper        \* bytes before each packet to PSNOW (4)

VARIABLES
  service,   \* service_type of the session: "console", "psnow" or "pscloud"
  path,      \* [in, out]: the MTU of the path; [fragments]: whether fragments get through outwards
  lossy,     \* whether answers can miss their wait
  pc,        \* place in chiaki_senkusha_run
  state,     \* what is expected: senkusha->state
  finished,  \* state_finished
  id,        \* number of the message whose answer is expected (tag, mtu_id, seq_num)
  answers,   \* history: the answers on their way, or already delivered
  search,    \* [min, max, cur, attempt] of the running test
  pongs,     \* [left, good]: pings to send, pings answered
  result     \* [err, in, out]

vars == <<service, path, lossy, pc, state, finished, id, answers, search, pongs, result>>

Cloud == service # "console"
Wrapper == IF service = "psnow" THEN PsnWrapper ELSE 0

NoSearch == [min |-> 0, max |-> 0, cur |-> 0, attempt |-> 0]

Init ==
  /\ service \in {"console", "psnow", "pscloud"} /\ lossy \in BOOLEAN
  /\ path \in [in: PathMtus, out: PathMtus, fragments: BOOLEAN] /\ (path.fragments => Cloud)
  /\ pc = "connect" /\ state = "takion_connect"
  /\ finished = FALSE /\ id = 0
  /\ answers = {[to |-> "takion_connect", id |-> 0]}
  /\ search = NoSearch /\ pongs = [left |-> Pings, good |-> 0]
  /\ result = [err |-> "running", in |-> 0, out |-> 0]

\* The run thread sends a message, sets what it expects and waits.
Expect(place, st, answered) ==
  /\ pc' = place /\ state' = st /\ finished' = FALSE
  /\ id' = id + 1
  /\ answers' = IF answered THEN answers \cup {[to |-> st, id |-> id + 1]} ELSE answers
  /\ UNCHANGED <<service, path, lossy>>

\* A wait has ended at its time without having been finished.
TimedOut == ~finished /\ (lossy \/ [to |-> state, id |-> id] \notin answers)

\* Disconnects and closes takion.
End(err) ==
  /\ pc' = "done" /\ result' = [result EXCEPT !.err = err]
  /\ UNCHANGED <<service, path, lossy, state, finished, id, answers, search, pongs>>

\* The takion thread: an answer counts if it is the one the state waits for.
\* The number of a late answer differs: seq_num, tag and mtu_id are fresh.
Receive(a) ==
  /\ pc # "done" /\ a \in answers
  /\ a.to = state /\ a.id = id /\ ~finished
  /\ finished' = TRUE
  /\ UNCHANGED <<service, path, lossy, pc, state, id, answers, search, pongs, result>>

ReceiveEvent(a) == a.to = "takion_connect" /\ Receive(a)
ReceiveData(a) == a.to \in {"protocol_ack", "bang", "big_echo", "client_mtu"} /\ Receive(a)
ReceiveAck(a) == a.to = "data_ack" /\ Receive(a)
ReceiveAv(a) == a.to \in {"pong", "mtu"} /\ Receive(a)

-----------------------------------------------------------------------------
(* chiaki_senkusha_run up to the tests *)

SetVersion == Expect("version", "protocol_ack", TRUE)
SendBig == Expect("big", IF Cloud THEN "big_echo" ELSE "bang", TRUE)

Connected ==
  /\ pc = "connect"
  /\ \/ finished /\ Cloud /\ SendBig /\ UNCHANGED <<search, pongs, result>>
     \/ finished /\ ~Cloud /\ SetVersion /\ UNCHANGED <<search, pongs, result>>
     \/ TimedOut /\ End("timeout")

VersionSet ==
  /\ pc = "version"
  /\ \/ finished /\ SendBig /\ UNCHANGED <<search, pongs, result>>
     \/ TimedOut /\ End("timeout")

\* Without the echo of BIG a cloud session goes on.
BigAnswered ==
  /\ pc = "big"
  /\ \/ /\ finished \/ (Cloud /\ TimedOut)
        /\ Expect("echo_on", "data_ack", TRUE) /\ UNCHANGED <<search, pongs, result>>
     \/ ~Cloud /\ TimedOut /\ End("timeout")

-----------------------------------------------------------------------------
(* senkusha_run_rtt_test *)

NextPing ==
  /\ IF pongs'.left > 0 THEN Expect("ping", "pong", TRUE)
     ELSE Expect("echo_off", "data_ack", TRUE)
  /\ UNCHANGED <<search, result>>

EchoEnabled ==
  /\ pc = "echo_on"
  /\ \/ finished /\ pongs' = pongs /\ NextPing
     \/ TimedOut /\ End("timeout")

\* A ping without its pong is skipped.
PingEnds ==
  /\ pc = "ping" /\ (finished \/ TimedOut)
  /\ pongs' = [left |-> pongs.left - 1, good |-> pongs.good + IF finished THEN 1 ELSE 0]
  /\ NextPing

-----------------------------------------------------------------------------
(* The bisection of senkusha_run_mtu_in_test and senkusha_run_mtu_out_test *)

Open(q) == q.max - q.min > 1

\* Mutant: the size that failed is excluded with the one below it.
Bisect_SkipsOne(q, success) ==
  IF ~success /\ q.attempt + 1 < Retries THEN [q EXCEPT !.attempt = @ + 1]
  ELSE LET lo == IF success THEN q.cur ELSE q.min
           hi == IF success \/ q.cur = MtuMin THEN q.max ELSE q.cur - 1
       IN [min |-> lo, max |-> hi, cur |-> lo + (hi - lo) \div 2, attempt |-> 0]

\* The outcome of a probe: another attempt, or the next size.
Bisect(q, success) ==
  IF ~success /\ q.attempt + 1 < Retries THEN [q EXCEPT !.attempt = @ + 1]
  ELSE LET lo == IF success THEN q.cur ELSE q.min
           hi == IF success THEN q.max ELSE q.cur
       IN [min |-> lo, max |-> hi, cur |-> lo + (hi - lo) \div 2, attempt |-> 0]

ProbeIn(q) == Expect("mtu_in", "mtu", q.cur <= path.in)

\* Mutant: the wrapper is taken for a part of the size.
Passes_Unwrapped(size) == path.fragments \/ size <= path.out

\* A packet of a size, with the wrapper it gets besides, arrives whole or in fragments.
Passes(size) == path.fragments \/ size + Wrapper <= path.out
ProbeOut(q) == Expect("mtu_out", "pong", Passes(q.cur))

\* The search inwards begins at the largest size.
BeginTests ==
  /\ search' = [min |-> MtuMin, max |-> MtuMax, cur |-> MtuMax, attempt |-> 0]
  /\ ProbeIn(search') /\ UNCHANGED <<pongs, result>>

SendClientMtu == Expect("client_mtu", "client_mtu", TRUE)

\* Echo off; at least one pong is needed.
EchoDisabled ==
  /\ pc = "echo_off"
  /\ \/ TimedOut /\ End("timeout")
     \/ finished /\ pongs.good = 0 /\ End("unknown")
     \/ finished /\ pongs.good > 0 /\ BeginTests

\* The client MTU command tells the console that its direction is next.
ProbeInEnds ==
  /\ pc = "mtu_in" /\ (finished \/ TimedOut)
  /\ search' = Bisect(search, finished)
  /\ UNCHANGED pongs
  /\ IF Open(search') THEN ProbeIn(search') /\ UNCHANGED result
     ELSE /\ SendClientMtu
          /\ result' = [result EXCEPT !.in = search'.min]

\* The search outwards begins at the MTU inwards.
ClientMtuAnswered ==
  /\ pc = "client_mtu"
  /\ \/ TimedOut /\ End("timeout")
     \/ /\ finished
        /\ search' = [min |-> MtuMin, max |-> MtuMax, cur |-> result.in, attempt |-> 0]
        /\ ProbeOut(search') /\ UNCHANGED <<pongs, result>>

ProbeOutEnds ==
  /\ pc = "mtu_out" /\ (finished \/ TimedOut)
  /\ search' = Bisect(search, finished)
  /\ UNCHANGED pongs
  /\ IF Open(search') THEN ProbeOut(search') /\ UNCHANGED result
     ELSE /\ Expect("final", "data_ack", TRUE)
          /\ result' = [result EXCEPT !.out = search'.min]

\* The second client MTU command waits for its acknowledgement.
Final ==
  /\ pc = "final"
  /\ \/ finished /\ End("success")
     \/ TimedOut /\ End("timeout")

-----------------------------------------------------------------------------
Run == \/ Connected \/ VersionSet \/ BigAnswered \/ EchoEnabled \/ PingEnds \/ EchoDisabled
       \/ ProbeInEnds \/ ClientMtuAnswered \/ ProbeOutEnds \/ Final
Takion == \E a \in answers :
            ReceiveEvent(a) \/ ReceiveData(a) \/ ReceiveAck(a) \/ ReceiveAv(a)
Next == Run \/ Takion
Spec == Init /\ [][Next]_vars

-----------------------------------------------------------------------------
\* The largest size of a probe outwards whose packet arrives.
Reach == IF path.fragments THEN MtuMax ELSE path.out - Wrapper

\* The MTUs handed to the stream are sizes that arrive: a size counts only by the
\* answer to its own probe, however late the answers to others come
\* (senkusha_takion_av). To the cloud that is the size which arrives in whatever
\* fragments, with the wrapper PSNOW wants besides; it is no MTU of the path then.
MtuFits ==
  /\ result.in # 0 => result.in <= path.in \/ result.in = MtuMin
  /\ result.out # 0 => result.out <= Reach \/ result.out = MtuMin

Clip(m) == IF m < MtuMin THEN MtuMin ELSE IF m > MtuMax THEN MtuMax ELSE m
\* Where nothing is lost the bisection finds the largest size that arrives. Outwards
\* it never probes the largest size unless it starts there: it ends one below.
MtuIsExact ==
  result.err = "success" /\ ~lossy =>
    /\ result.in = Clip(path.in)
    /\ result.out = IF result.in < MtuMax /\ Reach >= MtuMax THEN MtuMax - 1 ELSE Clip(Reach)

\* No link test is running.
AtRest ==
  /\ service = "console" /\ lossy = FALSE /\ path = [in |-> MtuMin, out |-> MtuMin, fragments |-> FALSE]
  /\ pc = "done" /\ state = "takion_connect" /\ finished = FALSE /\ id = 0
  /\ answers = {} /\ search = NoSearch /\ pongs = [left |-> 0, good |-> 0]
  /\ result = [err |-> "running", in |-> 0, out |-> 0]

=============================================================================
