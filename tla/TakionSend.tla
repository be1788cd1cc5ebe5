----------------------------- MODULE TakionSend -----------------------------
(* The sending half of takion (lib/src/takion.c): making a connection, with     *)
(* what it takes and gives back, the handshake over a network that loses and     *)
(* delays datagrams, and the threads that send while keys and sequence numbers    *)
(* are handed out.                                                           *)
EXTENDS Integers, Sequences, FiniteSets

CONSTANTS
  Tries,      \* MAX_CONNECT_RESEND_TRIES
  Threads,    \* the other threads that send: congestion from the connect on, feedback and microphone with a key
  Sizes,      \* sizes of messages
  PlainSize,  \* CHIAKI_TAKION_CONGESTION_PACKET_SIZE, and the size of an acknowledgement
  Block,      \* CHIAKI_GKCRYPT_BLOCK_SIZE
  PacketsMax  \* bound: packets begun

ASSUME SendAssumption ==
  /\ Tries \in Nat /\ Block \in Nat \ {0} /\ Sizes \subseteq Nat /\ PlainSize \in Nat
  /\ "run" \notin Threads /\ "takion" \notin Threads

VARIABLES
  phase,      \* chiaki_takion_connect
  held,       \* what connect has initialised
  ret,        \* what it returned
  unread,     \* history: reading what was left in the socket failed
  worker,     \* the takion thread
  tries,
  flying,     \* datagrams under way, either direction: kind -> how many
  inbox,      \* answers in the socket: kind -> how many, their order is the network's
  faults,     \* history: datagrams lost or late
  crypt,      \* gkcrypt_local is set
  keyPos,     \* key_pos_local
  seqNum,     \* seq_num_local
  job,        \* thread -> the packet it is at
  stage,      \* run: the message it begins next
  begun,      \* how many packets were begun
  sent,       \* history: the packets that went out, in this order
  wasted,     \* history: the sequence numbers of messages that did not
  buffered    \* history: the sequence numbers given to the send buffer

sendVars == <<phase, held, ret, unread, worker, tries, flying, inbox, faults, crypt, keyPos, seqNum, job,
  stage, begun, sent, wasted, buffered>>
connecting == <<phase, held, ret, unread>>
shaking == <<worker, tries, flying, inbox, faults>>
sending == <<crypt, keyPos, seqNum, job, stage, begun, sent, wasted, buffered>>

Order == <<"gkcrypt_local_mutex", "seq_num_local_mutex", "recv_queue_mutex", "recv_queue_cond", "stop_pipe", "sock">>
First(n) == {Order[i] : i \in 1 .. n}
AnswerTo == [init |-> "init_ack", cookie |-> "cookie_ack"]
Answers == {"init_ack", "cookie_ack"}
Kinds == {"init", "cookie"} \cup Answers
Senders == Threads \cup {"run", "takion"}
NoJob == [at |-> "none", of |-> "none", form |-> "none", pos |-> 0, size |-> 0, keyed |-> FALSE, crypt |-> FALSE, seq |-> 0]

Start ==
  /\ held = {} /\ ret = "none" /\ unread = FALSE /\ worker = "none" /\ tries = 0
  /\ flying = [k \in Kinds |-> 0] /\ inbox = [k \in Answers |-> 0] /\ faults = 0
  /\ crypt = FALSE /\ keyPos = 0 /\ seqNum = 0 /\ job = [t \in Senders |-> NoJob]
  /\ stage = "big" /\ begun = 0 /\ sent = <<>> /\ wasted = {} /\ buffered = {}
SendInit == Start /\ phase = "init"
(* Another part of the system moves.                                         *)
AtRest == Start /\ phase = "rest"

------------------------------------------------------------------------------
(* chiaki_takion_connect: the labels at its end undo, from the one the failing     *)
(* step jumps to, everything before it.                                       *)
Fails(done) == phase' = "over" /\ ret' = "error" /\ held' = held \ First(done) /\ UNCHANGED unread
Setup ==
  /\ phase = "init" /\ UNCHANGED <<shaking, sending>>
  /\ \E n \in 0 .. 4 : /\ held = First(n)
                       /\ \/ held' = First(n + 1) /\ UNCHANGED <<phase, ret, unread>>
                          \/ Fails(n)
(* A socket of its own; each option that cannot be set is an error, and so is the     *)
(* connect.                                                                  *)
NewSocket ==
  /\ phase = "init" /\ held = First(5) /\ UNCHANGED <<shaking, sending>>
  /\ \/ Fails(5)
     \/ held' = First(6) /\ phase' = "options" /\ UNCHANGED <<ret, unread>>
(* The socket of holepunching: what is left in it is read away for up to a second. An *)
(* error there jumps to the end with ret still at success.                       *)
TakeSocket ==
  /\ phase = "init" /\ held = First(5) /\ UNCHANGED <<shaking, sending>>
  /\ \/ held' = First(6) /\ phase' = "options" /\ UNCHANGED <<ret, unread>>
     \/ held' = {} /\ phase' = "over" /\ ret' = "success" /\ unread' = TRUE
Options == phase = "options" /\ Fails(6) /\ UNCHANGED <<shaking, sending>>
CreateThread ==
  /\ phase = "options" /\ phase' = "over" /\ ret' = "success" /\ worker' = "init"
  /\ UNCHANGED <<held, unread, tries, flying, inbox, faults, sending>>

------------------------------------------------------------------------------
(* takion_handshake, on the takion thread: INIT and then COOKIE, each tried a few       *)
(* times, whatever it was that went wrong; what cannot be sent, and an INIT_ACK with a   *)
(* tag or streams that make no sense, ends it at once.                            *)
(* Mutant: one try less.                                                     *)
MayTry_OneLess(n) == n < Tries - 1
MayTry(n) == n < Tries
SendsTry(kind) ==
  /\ worker = kind
  /\ \/ /\ MayTry(tries) /\ flying' = [flying EXCEPT ![kind] = @ + 1] /\ tries' = tries + 1
        /\ worker' = AnswerTo[kind]
     \/ MayTry(tries) /\ worker' = "refused" /\ UNCHANGED <<flying, tries>>
     \/ ~MayTry(tries) /\ worker' = "failed" /\ UNCHANGED <<flying, tries>>
  /\ UNCHANGED <<connecting, inbox, faults, sending>>

(* takion_recv_message_init_ack and takion_recv_message_cookie_ack: a second answer to   *)
(* INIT is passed over, once; a third makes the try fail. Answers that come later   *)
(* still are dropped by the main loop.                                       *)
Reads(kind) == inbox[kind] > 0 /\ inbox' = [inbox EXCEPT ![kind] = @ - 1]
Receives ==
  /\ UNCHANGED <<connecting, sending>>
  /\ \/ /\ worker = "init_ack" /\ Reads("init_ack") /\ worker' \in {"cookie", "refused"} /\ tries' = 0
        /\ UNCHANGED <<flying, faults>>
     \/ /\ worker = "cookie_ack" /\ Reads("init_ack") /\ worker' = "cookie_ack2" /\ UNCHANGED <<tries, flying, faults>>
     \/ /\ worker = "cookie_ack2" /\ Reads("init_ack") /\ worker' = "cookie" /\ UNCHANGED <<tries, flying, faults>>
     \/ /\ worker \in {"cookie_ack", "cookie_ack2"} /\ inbox["cookie_ack"] > 0 /\ worker' = "up"
        /\ tries' = 0 /\ flying' = [k \in Kinds |-> 0] /\ inbox' = [k \in Answers |-> 0] /\ faults' = 0
Waiting == worker \in {"init_ack", "cookie_ack", "cookie_ack2"}
(* The answer is lost or comes too late.                                        *)
TimesOut ==
  /\ Waiting /\ (\A k \in Answers : inbox[k] = 0) /\ worker' = (IF worker = "init_ack" THEN "init" ELSE "cookie")
  /\ faults' = IF \A k \in Kinds : flying[k] = 0 THEN faults ELSE faults + 1
  /\ UNCHANGED <<connecting, tries, flying, inbox, sending>>

(* The network and the console, which answers each INIT and each COOKIE.            *)
Arrives(kind) ==
  /\ flying[kind] > 0 /\ UNCHANGED <<connecting, worker, tries, faults, sending>>
  /\ \/ kind \in Answers /\ flying' = [flying EXCEPT ![kind] = @ - 1] /\ inbox' = [inbox EXCEPT ![kind] = @ + 1]
     \/ /\ kind \notin Answers /\ UNCHANGED inbox
        /\ flying' = [flying EXCEPT ![kind] = @ - 1, ![AnswerTo[kind]] = @ + 1]
Lost(kind) ==
  /\ flying[kind] > 0 /\ faults < Tries /\ faults' = faults + 1 /\ flying' = [flying EXCEPT ![kind] = @ - 1]
  /\ UNCHANGED <<connecting, worker, tries, inbox, sending>>

------------------------------------------------------------------------------
(* Sending. chiaki_takion_crypt_advance_key_pos under gkcrypt_local_mutex; the size it    *)
(* takes is not rounded up to a block but grown by the rest. That the position overflows  *)
(* a size_t is out of reach.                                                   *)
(* Mutant: the size is rounded down to a block.                                  *)
Taken_Short(size) == size - (size % Block)
Taken(size) == size + (size % Block)
Advances(size) == keyPos' = IF crypt THEN keyPos + Taken(size) ELSE keyPos
JobAt(t, step) == job[t].at = step
Does(t, step, more) == job' = [job EXCEPT ![t] = [more EXCEPT !.at = step]]

(* Who sends what, and when: the congestion thread its reports, from the connect on, even     *)
(* before the handshake is over; the takion thread acknowledgements, and messages once      *)
(* there is a key; the others with a key; the run thread BIG, then DISCONNECT, and between    *)
(* them, if the key came, the messages of the stream.                               *)
MaySend(t) == IF t = "congestion" THEN worker # "none" ELSE worker = "up" /\ (t \in Threads => crypt)
Forms(t) ==
  IF t = "congestion" THEN {"plain"} ELSE IF t = "takion" THEN {"plain"} \cup {f \in {"data"} : crypt} ELSE {"data"}
SizesOf(form) == IF form = "plain" THEN {PlainSize} ELSE Sizes
NextStages(t) ==
  IF t # "run" THEN {stage}
  ELSE CASE stage = "big" -> {"stream"} [] stage = "stream" -> {"over"} \cup {x \in {"stream"} : crypt} [] OTHER -> {}
Begins(t) == MaySend(t) /\ JobAt(t, "none") /\ begun < PacketsMax /\ begun' = begun + 1
(* chiaki_takion_send_message_data and _cont take a sequence number too, which        *)
(* chiaki_takion_send_congestion and the acknowledgements do not.                  *)
TakeKeyPos(t, form, size) ==
  /\ Begins(t) /\ stage' \in NextStages(t) /\ Advances(size)
  /\ Does(t, IF form = "data" THEN "number" ELSE "mac",
          [NoJob EXCEPT !.of = t, !.form = form, !.pos = IF crypt THEN keyPos ELSE 0, !.size = size, !.keyed = crypt])
  /\ UNCHANGED <<connecting, shaking, crypt, seqNum, sent, wasted, buffered>>
(* There is no memory for the packet: its position is lost.                          *)
NoPacket(t) ==
  /\ JobAt(t, "number") /\ Does(t, "none", NoJob)
  /\ UNCHANGED <<connecting, shaking, crypt, keyPos, seqNum, stage, begun, sent, wasted, buffered>>
TakeSeqNum(t) ==
  /\ JobAt(t, "number") /\ seqNum' = seqNum + 1 /\ Does(t, "mac", [job[t] EXCEPT !.seq = seqNum + 1])
  /\ UNCHANGED <<connecting, shaking, crypt, keyPos, stage, begun, sent, wasted, buffered>>
(* chiaki_takion_send: the MAC, with the key if there is one by now, and the socket. What    *)
(* goes out of the messages is still to be given to the send buffer; when the MAC or the     *)
(* socket fails the message is freed, and its position and its number are gone.           *)
Mac(t) ==
  /\ JobAt(t, "mac") /\ sent' = Append(sent, [job[t] EXCEPT !.at = "sent", !.crypt = crypt])
  /\ IF job[t].form = "data" THEN Does(t, "push", job[t]) ELSE Does(t, "none", NoJob)
  /\ UNCHANGED <<connecting, shaking, crypt, keyPos, seqNum, stage, begun, wasted, buffered>>
(* Mutant: a message that did not go out is given to the send buffer all the same.         *)
SendFails_Pushed(t) ==
  /\ JobAt(t, "mac")
  /\ IF job[t].form = "data" THEN Does(t, "push", job[t]) ELSE Does(t, "none", NoJob)
  /\ wasted' = IF job[t].form = "data" THEN wasted \cup {job[t].seq} ELSE wasted
  /\ UNCHANGED <<connecting, shaking, crypt, keyPos, seqNum, stage, begun, sent, buffered>>
SendFails(t) ==
  /\ JobAt(t, "mac") /\ Does(t, "none", NoJob)
  /\ wasted' = IF job[t].form = "data" THEN wasted \cup {job[t].seq} ELSE wasted
  /\ UNCHANGED <<connecting, shaking, crypt, keyPos, seqNum, stage, begun, sent, buffered>>
Push(t) ==
  /\ JobAt(t, "push") /\ buffered' = buffered \cup {job[t].seq} /\ Does(t, "none", NoJob)
  /\ UNCHANGED <<connecting, shaking, crypt, keyPos, seqNum, stage, begun, sent, wasted>>
(* takion_send_feedback_packet and chiaki_takion_send_mic_packet hold the mutex, which is   *)
(* recursive, from the position to the socket; the payload is encrypted a block further.  *)
(* When it cannot be encrypted, or sent, the position is lost.                         *)
SendEncrypted(t, size) ==
  /\ t \in Threads \ {"congestion"} /\ Begins(t) /\ Advances(size + Block)
  /\ \/ sent' = Append(sent, [NoJob EXCEPT !.at = "sent", !.of = t, !.form = "encrypted", !.pos = keyPos,
                                          !.size = size + Block, !.keyed = TRUE, !.crypt = TRUE])
     \/ UNCHANGED sent
  /\ UNCHANGED <<connecting, shaking, crypt, seqNum, job, stage, wasted, buffered>>

(* chiaki_takion_set_crypt in the callback of BANG, which answers BIG, on the takion      *)
(* thread and under the mutex of the stream connection, which run holds wherever it         *)
(* sends; it does not take gkcrypt_local_mutex, and the congestion thread sends on.       *)
SetCrypt ==
  /\ worker = "up" /\ ~crypt /\ JobAt("takion", "none") /\ JobAt("run", "none")
  /\ \E i \in DOMAIN sent : sent[i].form = "data"
  /\ crypt' = TRUE /\ UNCHANGED <<connecting, shaking, keyPos, seqNum, job, stage, begun, sent, wasted, buffered>>

SendNext ==
  \/ Setup \/ NewSocket \/ TakeSocket \/ Options \/ CreateThread
  \/ SendsTry("init") \/ SendsTry("cookie") \/ Receives \/ TimesOut \/ (\E k \in Kinds : Arrives(k) \/ Lost(k))
  \/ \E t \in Senders : \/ \E form \in Forms(t) : \E size \in SizesOf(form) : TakeKeyPos(t, form, size)
                        \/ NoPacket(t) \/ TakeSeqNum(t) \/ Mac(t) \/ SendFails(t) \/ Push(t)
                        \/ \E size \in Sizes : SendEncrypted(t, size)
  \/ SetCrypt
SendSpec == SendInit /\ [][SendNext]_sendVars

------------------------------------------------------------------------------
Jobs == [at : {"none", "number", "mac", "push", "sent"}, of : Senders \cup {"none"},
         form : {"none", "data", "plain", "encrypted"}, pos : Nat, size : Nat, keyed : BOOLEAN, crypt : BOOLEAN, seq : Nat]
TypeOK ==
  /\ phase \in {"init", "options", "over", "rest"} /\ ret \in {"none", "success", "error"} /\ unread \in BOOLEAN
  /\ held \in {First(n) : n \in 0 .. 6}
  /\ worker \in {"none", "init", "init_ack", "cookie", "cookie_ack", "cookie_ack2", "up", "refused", "failed"}
  /\ tries \in Nat /\ flying \in [Kinds -> Nat] /\ inbox \in [Answers -> Nat] /\ faults \in Nat
  /\ crypt \in BOOLEAN /\ keyPos \in Nat /\ seqNum \in Nat /\ job \in [Senders -> Jobs] /\ sent \in Seq(Jobs)
  /\ stage \in {"big", "stream", "over"} /\ begun \in Nat /\ wasted \subseteq Nat /\ buffered \subseteq Nat

(* A connect that failed has given back what it took, each thing once, and one that          *)
(* succeeded has everything, but for the error of reading the old messages.           *)
NothingIsLeft ==
  /\ ret = "error" => held = {} /\ worker = "none"
  /\ ret = "success" => unread \/ (held = First(6) /\ worker # "none")

(* The handshake survives as many lost and late datagrams as it has tries to spare, in        *)
(* whatever order the answers to the tries come in (takion.c:1042, 1091, 1942).        *)
HandshakeSurvives == worker = "failed" => faults >= Tries

(* No two packets use the same of the key stream, and none begins without a key and is      *)
(* sent with one, or the console could not check it (takion.c:592-616). The one exception   *)
(* is a report of the congestion thread, once, whose position was taken before the key       *)
(* was there and whose MAC is made with it (takion.c:708-722, streamconnection.c:791).     *)
Apart(p, q) == p.pos + p.size <= q.pos \/ q.pos + q.size <= p.pos
Rushed(p) == p.crypt /\ ~p.keyed
KeyStreamUsedOnce ==
  \A i, j \in DOMAIN sent :
    /\ i # j /\ sent[i].keyed /\ sent[j].keyed => Apart(sent[i], sent[j])
    /\ IF sent[i].keyed THEN sent[i].crypt ELSE sent[i].pos = 0
    /\ Rushed(sent[i]) => sent[i].of = "congestion" /\ (Rushed(sent[j]) => i = j)
NumbersAreUnique ==
  \A i, j \in DOMAIN sent :
    i # j /\ sent[i].form = "data" /\ sent[j].form = "data" => sent[i].seq # sent[j].seq

(* A sequence number once taken is that of a message that went out, of one that is on its     *)
(* way, or is wasted with the send that failed: then the send buffer never gets it, and no    *)
(* other message has it. What went out is given to the send buffer, to be sent again          *)
(* (takion.c:774-781, 827-835).                                                   *)
OnItsWay == {job[t].seq : t \in {u \in Senders : JobAt(u, "mac") /\ job[u].form = "data"}}
ToBePushed == {job[t].seq : t \in {u \in Senders : JobAt(u, "push")}}
NumbersSent == {sent[i].seq : i \in {k \in DOMAIN sent : sent[k].form = "data"}}
NumbersAddUp ==
  /\ NumbersSent \cup OnItsWay \cup wasted = 1 .. seqNum
  /\ NumbersSent \cap OnItsWay = {} /\ NumbersSent \cap wasted = {} /\ OnItsWay \cap wasted = {}
  /\ buffered \cup ToBePushed = NumbersSent /\ buffered \cap ToBePushed = {}

(* The console takes what takion sends, whichever threads send and whichever sends fail,    *)
(* and nothing of a failed connect is left (takion.c 225-1125).                        *)
PacketsAreAcceptable ==
  NothingIsLeft /\ HandshakeSurvives /\ KeyStreamUsedOnce /\ NumbersAreUnique /\ NumbersAddUp
=============================================================================
