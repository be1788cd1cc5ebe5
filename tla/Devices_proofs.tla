--------------------------- MODULE Devices_proofs ---------------------------
(* What goes out to the devices and comes from them, for every value of the constants: the  *)
(* frames that are shown, the packets that are sent, what the native side of the Android     *)
(* application holds (the codec, the parts of a call, the chunks of sound, the sessions),     *)
(* what the desktop client plays and records, and what its player presses.                  *)
EXTENDS MCClients, FiniteSetTheorems, TLAPS

-----------------------------------------------------------------------------
(* Pacing: the order of the frames does not depend on what is measured of the source. *)

(* The schedule is a period ahead of the frame shown last: an on time frame is      *)
(* shown by it, and a late one, whose time has passed, a whole cushion later.       *)
PacingInv ==
  /\ smooth \in BOOLEAN /\ scheduled \in BOOLEAN /\ jumped \in BOOLEAN
  /\ next \in Int /\ shown \in Int /\ step \in Int
  /\ scheduled => next >= shown + Period
  /\ ShownInOrder

(* Both cushions are at least two periods long.                              *)
LEMMA CushionsAreLong ==
  ASSUME NEW mode \in BOOLEAN, NEW jitter \in Nat, NEW hold \in Nat
  PROVE  /\ Cushion(mode, jitter) \in Int /\ Cushion(mode, jitter) >= 2 * Period
         /\ Baseline(mode, jitter, hold) \in Int /\ Baseline(mode, jitter, hold) >= 2 * Period
BY PacingAssumption DEF Cushion, Baseline, AtMost, AtLeast

(* The schedule moves on by a period at least.                               *)
LEMMA AdvancesAPeriod ==
  ASSUME NEW mode \in BOOLEAN, NEW headroom \in Int, NEW baseline \in Int, NEW render \in Int,
         NEW source \in {Period, 2 * Period}, NEW inter \in Nat, NEW arrival \in Nat
  PROVE  /\ Advance(mode, headroom, baseline, render, source, inter, arrival) \in Int
         /\ Advance(mode, headroom, baseline, render, source, inter, arrival) >= Period
BY PacingAssumption DEF Advance, AtMost, AtLeast

LEMMA PacingStarts == Init => PacingInv
<1> SUFFICES ASSUME Init PROVE PacingInv
  OBVIOUS
<1>1. smooth \in BOOLEAN /\ scheduled = FALSE /\ jumped = FALSE
  BY DEF Init
<1>2. next \in Int /\ shown \in Int /\ step \in Int /\ step >= Period
  BY PacingAssumption DEF Init
<1> QED BY <1>1, <1>2 DEF PacingInv, ShownInOrder

(* A frame keeps the invariant: it is dropped, or shown on time, or with a cushion. *)
LEMMA FrameKeeps ==
  ASSUME PacingInv, NEW gap \in Gaps, NEW mode \in BOOLEAN, NEW jitter \in Cushions, NEW hold \in Cushions,
         NEW source \in {Period, 2 * Period}, NEW inter \in Intervals, NEW arrival \in Intervals,
         Frame(gap, mode, jitter, hold, source, inter, arrival)
  PROVE  PacingInv'
<1> DEFINE onTime == scheduled /\ mode = smooth
           headroom == next - gap
           baseline == Baseline(mode, jitter, hold)
           cushion == Cushion(mode, jitter)
           ahead == headroom > 4 * baseline
           render == IF ~onTime \/ headroom <= Slack \/ ahead THEN cushion ELSE headroom
           advance == Advance(mode, IF onTime THEN headroom ELSE 0, baseline, render, source, inter, arrival)
<1>1. gap \in Nat /\ jitter \in Nat /\ hold \in Nat /\ inter \in Nat /\ arrival \in Nat
  BY PacingAssumption
<1>2. /\ Period \in Nat \ {0} /\ Slack \in 0 .. Period
      /\ baseline \in Int /\ baseline >= 2 * Period /\ cushion \in Int /\ cushion >= 2 * Period
  BY <1>1, PacingAssumption, CushionsAreLong
<1>3. /\ headroom \in Int /\ render \in Int
      /\ smooth \in BOOLEAN /\ scheduled \in BOOLEAN /\ jumped \in BOOLEAN
      /\ next \in Int /\ shown \in Int /\ step \in Int
      /\ scheduled => next >= shown + Period
      /\ ~jumped => step >= Period
  BY <1>1, <1>2 DEF PacingInv, ShownInOrder
<1>4. CASE mode = smooth /\ Drops(mode, headroom, baseline)
  <2>1. /\ smooth' = mode /\ next' = headroom /\ shown' = shown - gap
        /\ scheduled' = scheduled /\ step' = step /\ jumped' = jumped
    BY <1>4 DEF Frame
  <2> QED BY <2>1, <1>1, <1>2, <1>3 DEF PacingInv, ShownInOrder
<1>5. CASE ~(mode = smooth /\ Drops(mode, headroom, baseline))
  <2>1. /\ smooth' = mode /\ scheduled' = TRUE /\ shown' = render /\ next' = render + advance
        /\ step' = IF scheduled THEN render - (shown - gap) ELSE Period
        /\ jumped' = (scheduled /\ (mode # smooth \/ (ahead /\ ~mode)))
    BY <1>5 DEF Frame
  <2>2. advance \in Int /\ advance >= Period
    <3> DEFINE h == IF onTime THEN headroom ELSE 0
    <3>1. h \in Int BY <1>3
    <3> QED BY <3>1, <1>1, <1>2, <1>3, AdvancesAPeriod
  <2>3. ~jumped' => step' >= Period
    <3>1. CASE ~scheduled BY <3>1, <2>1, <1>2
    <3>2. CASE scheduled /\ mode = smooth /\ ~ahead
      BY <3>2, <2>1, <1>1, <1>2, <1>3
    <3>3. CASE scheduled /\ mode = smooth /\ ahead
      <4>1. ~mode BY <3>3, <1>2, <1>3, <1>5 DEF Drops
      <4> QED BY <4>1, <3>3, <2>1
    <3>4. CASE scheduled /\ mode # smooth BY <3>4, <2>1
    <3> QED BY <3>1, <3>2, <3>3, <3>4, <1>3
  <2>4. step' \in Int BY <2>1, <1>1, <1>2, <1>3
  <2>5. jumped' \in BOOLEAN BY <2>1
  <2>6. next' \in Int /\ shown' \in Int /\ next' >= shown' + Period BY <2>1, <2>2, <1>2, <1>3
  <2>7. smooth' \in BOOLEAN /\ scheduled' \in BOOLEAN BY <2>1
  <2> QED BY <2>3, <2>4, <2>5, <2>6, <2>7 DEF PacingInv, ShownInOrder
<1> QED BY <1>4, <1>5

LEMMA PacingKeeps == PacingInv /\ [Next]_pacingVars => PacingInv'
<1> SUFFICES ASSUME PacingInv, [Next]_pacingVars PROVE PacingInv'
  OBVIOUS
<1>1. CASE Next
  <2>1. PICK gap \in Gaps, mode \in BOOLEAN, jitter, hold \in Cushions, source \in {Period, 2 * Period},
             inter, arrival \in Intervals : Frame(gap, mode, jitter, hold, source, inter, arrival)
    BY <1>1 DEF Next
  <2> QED BY <2>1, FrameKeeps
<1>2. CASE UNCHANGED pacingVars
  BY <1>2 DEF PacingInv, ShownInOrder, pacingVars
<1> QED BY <1>1, <1>2

(* For every display, every jitter, stall and rate of the source: no two frames in    *)
(* one period and none before its predecessor, but after a change of mode or a run     *)
(* beyond the cap in Standard.                                                *)
THEOREM OrderHolds == Spec => []ShownInOrder
<1>1. PacingInv => ShownInOrder BY DEF PacingInv
<1> QED BY PacingStarts, PacingKeeps, <1>1, PTL DEF Spec

-----------------------------------------------------------------------------
(* Sending: every packet can be accepted, its part of the key stream and its number    *)
(* are its own, whichever threads send and in whatever order they get to the socket.   *)
(* The connect: what is held is what the place it is at says.                     *)
ConnectInv ==
  /\ phase = "init" => ret = "none"
  /\ phase = "options" => ret = "none" /\ held = First(6)
  /\ phase = "rest" => ret = "none"
  /\ phase \in {"init", "options"} => worker = "none"
  /\ NothingIsLeft

(* The handshake: answers to INIT, and to COOKIE, that may still come. A try that is   *)
(* not answered in time has cost a fault, or its answer is among them.                *)
Late == flying["init"] + flying["init_ack"] + inbox["init_ack"]
Due == flying["cookie"] + flying["cookie_ack"] + inbox["cookie_ack"]
HandshakeInv ==
  /\ worker = "none" => tries = 0 /\ Late = 0 /\ Due = 0
  /\ worker \in {"init", "init_ack"} => Due = 0 /\ Late <= tries /\ tries <= faults + Late
  /\ worker = "init" => tries <= faults
  /\ worker = "init_ack" => tries <= faults + 1
  /\ worker \in {"cookie", "cookie_ack", "cookie_ack2"} => tries <= faults + Due
  /\ worker \in {"cookie", "cookie_ack2"} => tries + Late <= faults
  /\ worker = "cookie_ack" => tries + Late <= faults + 1
  /\ HandshakeSurvives

(* The key stream: a packet with a key lies below key_pos_local from the moment it has    *)
(* its position, apart from every other one. One that has a position of before the key     *)
(* when the key is there is of the congestion thread, and the only one so far.            *)
Ready(t) == JobAt(t, "number") \/ JobAt(t, "mac")
Below(p) == p.pos + p.size <= keyPos
JobsBelow == \A t \in Senders : Ready(t) => IF job[t].keyed THEN crypt /\ Below(job[t]) ELSE job[t].pos = 0
JobsApart ==
  \A t, u \in Senders : t # u /\ Ready(t) /\ Ready(u) /\ job[t].keyed /\ job[u].keyed => Apart(job[t], job[u])
SentBelow ==
  \A i \in 1 .. Len(sent) : /\ sent[i].crypt => crypt
                            /\ IF sent[i].keyed THEN sent[i].crypt /\ Below(sent[i]) ELSE sent[i].pos = 0
SentApartFromJobs ==
  \A i \in 1 .. Len(sent), t \in Senders : sent[i].keyed /\ Ready(t) /\ job[t].keyed => Apart(sent[i], job[t])
SentApart == \A i, j \in 1 .. Len(sent) : i # j /\ sent[i].keyed /\ sent[j].keyed => Apart(sent[i], sent[j])
JobsRushed ==
  \A t \in Senders : crypt /\ Ready(t) /\ ~job[t].keyed => t = "congestion" /\ \A i \in 1 .. Len(sent) : ~Rushed(sent[i])
SentRushed ==
  \A i, j \in 1 .. Len(sent) : Rushed(sent[i]) => sent[i].of = "congestion" /\ (Rushed(sent[j]) => i = j)
KeyInv ==
  /\ ~crypt => keyPos = 0
  /\ JobsBelow /\ JobsApart /\ SentBelow /\ SentApartFromJobs /\ SentApart /\ JobsRushed /\ SentRushed

(* The sequence numbers add up, and no two jobs or packets share one.                    *)
Numbered(p) == p.form = "data" /\ p.at \in {"mac", "push"}
JobsClean ==
  \A t \in Senders : /\ job[t].at # "sent" /\ (~JobAt(t, "none") => job[t].of = t)
                     /\ JobAt(t, "none") => job[t].form = "none"
                     /\ JobAt(t, "number") \/ JobAt(t, "push") => job[t].form = "data"
JobsDiffer == \A t, u \in Senders : t # u /\ Numbered(job[t]) /\ Numbered(job[u]) => job[t].seq # job[u].seq
SentDiffers ==
  \A i, j \in 1 .. Len(sent) : i # j /\ sent[i].form = "data" /\ sent[j].form = "data" => sent[i].seq # sent[j].seq
NumberInv == JobsClean /\ JobsDiffer /\ SentDiffers /\ NumbersAddUp

(* Before there is a key no thread but run, takion and congestion has begun a packet.       *)
QuietInv == ~crypt => \A t \in Threads : t = "congestion" \/ JobAt(t, "none")

SendInv == TypeOK /\ ConnectInv /\ HandshakeInv /\ KeyInv /\ NumberInv /\ QuietInv

------------------------------------------------------------------------------
(* The steps of SendNext: connecting, the handshake, the senders.                   *)
Connects == Setup \/ NewSocket \/ TakeSocket \/ Options \/ CreateThread
Shakes ==
  SendsTry("init") \/ SendsTry("cookie") \/ Receives \/ TimesOut \/ \E k \in Kinds : Arrives(k) \/ Lost(k)
Sends ==
  \E t \in Senders : \/ \E form \in Forms(t) : \E size \in SizesOf(form) : TakeKeyPos(t, form, size)
                     \/ NoPacket(t) \/ TakeSeqNum(t) \/ Mac(t) \/ SendFails(t) \/ Push(t)
                     \/ \E size \in Sizes : SendEncrypted(t, size)

LEMMA StepsAre == SendNext => Connects \/ Shakes \/ Sends \/ SetCrypt
BY DEF SendNext, Connects, Shakes, Sends

(* What is said of the senders depends on nothing else.                              *)
LEMMA SendersStay ==
  ASSUME KeyInv, NumberInv, QuietInv, UNCHANGED sending PROVE KeyInv' /\ NumberInv' /\ QuietInv'
<1>1. KeyInv' /\ QuietInv'
  BY DEF sending, KeyInv, JobsBelow, JobsApart, SentBelow, SentApartFromJobs, SentApart, JobsRushed, SentRushed,
         QuietInv, JobAt, Ready, Below, Apart, Rushed
<1>2. JobsClean' /\ JobsDiffer' /\ SentDiffers'
  BY DEF sending, NumberInv, JobsClean, JobsDiffer, SentDiffers, JobAt, Numbered
<1>3. NumbersSent' = NumbersSent /\ OnItsWay' = OnItsWay /\ ToBePushed' = ToBePushed
  BY DEF sending, NumbersSent, OnItsWay, ToBePushed, JobAt
<1> QED BY <1>1, <1>2, <1>3 DEF sending, NumberInv, NumbersAddUp

LEMMA SentAreJobs == ASSUME TypeOK PROVE \A i \in 1 .. Len(sent) : sent[i] \in Jobs
BY DEF TypeOK

LEMMA SendStarts == ASSUME SendAssumption, SendInit PROVE SendInv
<1>1. held \in {First(n) : n \in 0 .. 6}
  <2>1. held = First(0) /\ 0 \in 0 .. 6
    BY DEF SendInit, Start, First
  <2> QED BY <2>1
<1>2. job \in [Senders -> Jobs] /\ sent \in Seq(Jobs)
  BY DEF SendInit, Start, NoJob, Jobs
<1>3. TypeOK
  BY <1>1, <1>2 DEF TypeOK, SendInit, Start, Kinds, Answers
<1>4. ConnectInv /\ HandshakeInv
  BY SMT DEF SendInit, Start, ConnectInv, NothingIsLeft, HandshakeInv, HandshakeSurvives, Late, Due, Kinds,
             Answers
<1>5. /\ \A t \in Senders : JobAt(t, "none") /\ job[t].form = "none"
      /\ Len(sent) = 0 /\ DOMAIN sent = {} /\ 1 .. Len(sent) = {}
  BY DEF SendInit, Start, NoJob, JobAt
<1>6. KeyInv /\ QuietInv
  BY <1>5, SMT DEF SendInit, Start, KeyInv, JobsBelow, JobsApart, SentBelow, SentApartFromJobs, SentApart, JobsRushed,
              SentRushed, QuietInv, JobAt, Ready, Senders
<1>7. NumberInv
  <2>1. NumbersSent = {} /\ OnItsWay = {} /\ ToBePushed = {}
    BY <1>5 DEF NumbersSent, OnItsWay, ToBePushed, JobAt
  <2>2. 1 .. seqNum = {} /\ wasted = {} /\ buffered = {}
    BY DEF SendInit, Start
  <2> QED BY <1>5, <2>1, <2>2 DEF NumberInv, JobsClean, JobsDiffer, SentDiffers, NumbersAddUp, JobAt, Numbered
<1> QED BY <1>3, <1>4, <1>6, <1>7 DEF SendInv

------------------------------------------------------------------------------
(* The connect touches nothing of the others but that it starts the thread.             *)
LEMMA ConnectsKeep ==
  ASSUME SendAssumption, SendInv, Connects PROVE SendInv'
<1> USE DEF connecting, shaking, sending
<1>1. /\ UNCHANGED <<tries, flying, inbox, faults, sending>>
      /\ UNCHANGED worker \/ (worker = "none" /\ worker' = "init")
  BY DEF Connects, Setup, NewSocket, TakeSocket, Options, CreateThread, Fails, SendInv, ConnectInv
<1>2. TypeOK'
  <2>1. held' \in {First(n) : n \in 0 .. 6}
    <3>1. CASE Setup
      <4>1. PICK n \in 0 .. 4 : held = First(n) /\ (held' = First(n + 1) \/ Fails(n))
        BY <3>1 DEF Setup
      <4>2. Fails(n) => held' = First(0)
        BY <4>1 DEF Fails, First
      <4> QED BY <4>1, <4>2
    <3>2. CASE NewSocket
      <4>1. Fails(5) => held' = First(0)
        BY <3>2 DEF NewSocket, Fails, First
      <4> QED BY <3>2, <4>1 DEF NewSocket
    <3>3. CASE TakeSocket
      <4>1. First(0) = {}
        BY DEF First
      <4> QED BY <3>3, <4>1 DEF TakeSocket
    <3>4. CASE Options
      <4>1. held' = First(0)
        BY <3>4 DEF Options, Fails, First, SendInv, ConnectInv
      <4> QED BY <4>1
    <3>5. CASE CreateThread
      BY <3>5 DEF CreateThread, SendInv, TypeOK
    <3> QED BY <3>1, <3>2, <3>3, <3>4, <3>5 DEF Connects
  <2>2. phase' \in {"init", "options", "over", "rest"} /\ ret' \in {"none", "success", "error"} /\ unread' \in BOOLEAN
    BY DEF Connects, Setup, NewSocket, TakeSocket, Options, CreateThread, Fails, SendInv, TypeOK
  <2>3. worker' \in {"none", "init", "init_ack", "cookie", "cookie_ack", "cookie_ack2", "up", "refused", "failed"}
    BY <1>1 DEF SendInv, TypeOK
  <2> QED BY <1>1, <2>1, <2>2, <2>3 DEF SendInv, TypeOK
<1>3. ConnectInv'
  <2> USE DEF SendInv, ConnectInv, NothingIsLeft
  <2>1. CASE Setup
    <3>1. PICK n \in 0 .. 4 : /\ held = First(n)
                              /\ (held' = First(n + 1) /\ UNCHANGED <<phase, ret, unread>>) \/ Fails(n)
      BY <2>1 DEF Setup
    <3> QED BY <2>1, <3>1 DEF Setup, Fails
  <2>2. CASE NewSocket
    BY <2>2 DEF NewSocket, Fails
  <2>3. CASE TakeSocket
    BY <2>3 DEF TakeSocket
  <2>4. CASE Options
    BY <2>4 DEF Options, Fails
  <2>5. CASE CreateThread
    BY <2>5 DEF CreateThread
  <2> QED BY <2>1, <2>2, <2>3, <2>4, <2>5 DEF Connects
<1>4. HandshakeInv'
  BY <1>1, SMT DEF SendInv, HandshakeInv, HandshakeSurvives, Late, Due, TypeOK, Kinds, Answers
<1>5. KeyInv' /\ NumberInv' /\ QuietInv'
  BY <1>1, SendersStay DEF SendInv, sending
<1> QED BY <1>2, <1>3, <1>4, <1>5 DEF SendInv

------------------------------------------------------------------------------
(* The handshake: Late and Due by the datagram that moves.                            *)
LEMMA ShakesKeep ==
  ASSUME SendAssumption, SendInv, Shakes PROVE SendInv'
<1> USE DEF connecting, sending
<1>1. UNCHANGED <<connecting, sending>>
  BY DEF Shakes, SendsTry, Receives, TimesOut, Arrives, Lost
<1>2. PICK fi \in Nat, fia \in Nat, fc \in Nat, fca \in Nat, ii \in Nat, ic \in Nat :
        /\ flying["init"] = fi /\ flying["init_ack"] = fia /\ flying["cookie"] = fc /\ flying["cookie_ack"] = fca
        /\ inbox["init_ack"] = ii /\ inbox["cookie_ack"] = ic
  BY DEF SendInv, TypeOK, Kinds, Answers
<1>3. worker # "none" /\ worker' # "none"
  <2>1. worker = "none" => \A k \in Kinds : flying[k] = 0
    BY <1>2, SMT DEF SendInv, HandshakeInv, Late, Due, Kinds, Answers
  <2>2. worker # "none"
    BY <2>1 DEF Shakes, SendsTry, Receives, TimesOut, Waiting, Arrives, Lost, Kinds, Answers
  <2> QED BY <2>2 DEF Shakes, SendsTry, Receives, TimesOut, Arrives, Lost, AnswerTo
<1>4. TypeOK' /\ HandshakeInv'
  <2> USE DEF SendInv, TypeOK, HandshakeInv, HandshakeSurvives, Late, Due, Kinds, Answers
  <2> USE SendAssumption DEF SendAssumption
  <2>1. CASE SendsTry("init")
    <3>1. CASE MayTry(tries) /\ worker' = AnswerTo["init"] /\ tries' = tries + 1 /\ flying' = [flying EXCEPT !["init"] = @ + 1]
      <4>1. /\ flying' \in [Kinds -> Int] /\ flying'["init"] = fi + 1 /\ flying'["init_ack"] = fia
            /\ flying'["cookie"] = fc /\ flying'["cookie_ack"] = fca
        BY <1>2, <3>1, SMT
      <4>2. UNCHANGED <<inbox, faults>> /\ worker = "init" /\ worker' = "init_ack" /\ tries < Tries
        BY <2>1, <3>1 DEF SendsTry, AnswerTo, MayTry
      <4>3. TypeOK'
        BY <1>1, <1>2, <3>1, <4>1, <4>2, SMT
      <4>4. HandshakeInv'
        BY <1>2, <3>1, <4>1, <4>2, SMT
      <4> QED BY <4>3, <4>4
    <3>2. CASE worker' \in {"refused", "failed"} /\ UNCHANGED <<flying, tries>>
      <4>1. (worker' = "failed" => tries >= Tries) /\ UNCHANGED <<inbox, faults>> /\ worker \in {"init", "cookie"}
        BY <2>1, <3>2, SMT DEF SendsTry, MayTry, AnswerTo
      <4>2. TypeOK'
        BY <1>1, <3>2, <4>1, SMT
      <4>3. worker' = "failed" => faults' >= Tries
        BY <1>2, <3>2, <4>1, SMT
      <4>4. HandshakeInv'
        BY <3>2, <4>3, Zenon
      <4> QED BY <4>2, <4>4
    <3> QED BY <2>1, <3>1, <3>2 DEF SendsTry
  <2>2. CASE SendsTry("cookie")
    <3>1. CASE MayTry(tries) /\ worker' = AnswerTo["cookie"] /\ tries' = tries + 1 /\ flying' = [flying EXCEPT !["cookie"] = @ + 1]
      <4>1. /\ flying' \in [Kinds -> Int] /\ flying'["init"] = fi /\ flying'["init_ack"] = fia
            /\ flying'["cookie"] = fc + 1 /\ flying'["cookie_ack"] = fca
        BY <1>2, <3>1, SMT
      <4>2. UNCHANGED <<inbox, faults>> /\ worker = "cookie" /\ worker' = "cookie_ack" /\ tries < Tries
        BY <2>2, <3>1 DEF SendsTry, AnswerTo, MayTry
      <4>3. TypeOK'
        BY <1>1, <1>2, <3>1, <4>1, <4>2, SMT
      <4>4. HandshakeInv'
        BY <1>2, <3>1, <4>1, <4>2, SMTT(30)
      <4> QED BY <4>3, <4>4
    <3>2. CASE worker' \in {"refused", "failed"} /\ UNCHANGED <<flying, tries>>
      <4>1. (worker' = "failed" => tries >= Tries) /\ UNCHANGED <<inbox, faults>> /\ worker \in {"init", "cookie"}
        BY <2>2, <3>2, SMT DEF SendsTry, MayTry, AnswerTo
      <4>2. TypeOK'
        BY <1>1, <3>2, <4>1, SMT
      <4>3. worker' = "failed" => faults' >= Tries
        BY <1>2, <3>2, <4>1, SMT
      <4>4. HandshakeInv'
        BY <3>2, <4>3, Zenon
      <4> QED BY <4>2, <4>4
    <3> QED BY <2>2, <3>1, <3>2 DEF SendsTry
  <2>3. CASE Receives
    <3>1. CASE UNCHANGED flying /\ UNCHANGED faults /\ Reads("init_ack")
      <4>1. inbox' \in [Answers -> Int] /\ inbox'["init_ack"] = ii - 1 /\ inbox'["cookie_ack"] = ic /\ ii > 0
        BY <1>2, <3>1, SMT DEF Reads
      <4>2. TypeOK'
        BY <1>1, <1>2, <2>3, <3>1, <4>1, SMT DEF Receives
      <4>3. HandshakeInv'
        BY <1>1, <1>2, <2>3, <3>1, <4>1, SMTT(60) DEF Receives
      <4> QED BY <4>2, <4>3
    <3>2. CASE worker' = "up" /\ tries' = 0 /\ flying' = [k \in Kinds |-> 0] /\ inbox' = [k \in Answers |-> 0] /\ faults' = 0
      <4>1. TypeOK'
        BY <1>1, <3>2, SMT
      <4>2. HandshakeInv'
        BY <1>1, <3>2, SMT
      <4> QED BY <4>1, <4>2
    <3> QED BY <2>3, <3>1, <3>2 DEF Receives
  <2>4. CASE TimesOut
    <3>1. UNCHANGED <<tries, flying, inbox>> /\ ii = 0 /\ ic = 0
      BY <1>2, <2>4 DEF TimesOut
    <3>2. faults' = faults + 1 \/ (faults' = faults /\ fi = 0 /\ fia = 0 /\ fc = 0 /\ fca = 0)
      BY <1>2, <2>4 DEF TimesOut
    <3>3. \/ worker = "init_ack" /\ worker' = "init"
          \/ worker \in {"cookie_ack", "cookie_ack2"} /\ worker' = "cookie"
      BY <2>4 DEF TimesOut, Waiting
    <3>4. TypeOK'
      <4>1. faults' \in Nat
        BY <3>2
      <4> QED BY <1>1, <3>1, <3>3, <4>1
    <3>5. HandshakeInv'
      <4>1. Late' = Late /\ Due' = Due
        BY <3>1
      <4>2. faults' = faults + 1 \/ (faults' = faults /\ Late = 0 /\ Due = 0)
        BY <1>2, <3>1, <3>2
      <4>3. Late \in Nat /\ Due \in Nat /\ faults \in Nat /\ tries \in Nat
        BY <1>2
      <4> HIDE DEF Late, Due, TypeOK
      <4> QED BY <3>1, <3>3, <4>1, <4>2, <4>3, SMTT(30)
    <3> QED BY <3>4, <3>5
  <2>5. ASSUME NEW k \in Kinds, Arrives(k) PROVE TypeOK' /\ HandshakeInv'
    <3>1. /\ UNCHANGED <<worker, tries, faults>> /\ flying' \in [Kinds -> Int] /\ inbox' \in [Answers -> Int]
          /\ flying[k] > 0
      BY <2>5 DEF Arrives
    <3>2. CASE k = "init"
      <4>1. /\ flying'["init"] = fi - 1 /\ flying'["init_ack"] = fia + 1 /\ flying'["cookie"] = fc
            /\ flying'["cookie_ack"] = fca /\ inbox'["init_ack"] = ii /\ inbox'["cookie_ack"] = ic
        BY <1>2, <2>5, <3>2, SMTT(30) DEF Arrives, AnswerTo
      <4>2. TypeOK'
        BY <1>1, <1>2, <3>1, <3>2, <4>1, SMT
      <4>3. HandshakeInv'
        BY <1>1, <1>2, <3>1, <3>2, <4>1, SMT
      <4> QED BY <4>2, <4>3
    <3>3. CASE k = "init_ack"
      <4>1. /\ flying'["init"] = fi /\ flying'["init_ack"] = fia - 1 /\ flying'["cookie"] = fc
            /\ flying'["cookie_ack"] = fca /\ inbox'["init_ack"] = ii + 1 /\ inbox'["cookie_ack"] = ic
        BY <1>2, <2>5, <3>3, SMTT(30) DEF Arrives, AnswerTo
      <4>2. TypeOK'
        BY <1>1, <1>2, <3>1, <3>3, <4>1, SMT
      <4>3. HandshakeInv'
        BY <1>1, <1>2, <3>1, <3>3, <4>1, SMT
      <4> QED BY <4>2, <4>3
    <3>4. CASE k = "cookie"
      <4>1. /\ flying'["init"] = fi /\ flying'["init_ack"] = fia /\ flying'["cookie"] = fc - 1
            /\ flying'["cookie_ack"] = fca + 1 /\ inbox'["init_ack"] = ii /\ inbox'["cookie_ack"] = ic
        BY <1>2, <2>5, <3>4, SMTT(30) DEF Arrives, AnswerTo
      <4>2. TypeOK'
        BY <1>1, <1>2, <3>1, <3>4, <4>1, SMT
      <4>3. HandshakeInv'
        BY <1>1, <1>2, <3>1, <3>4, <4>1, SMT
      <4> QED BY <4>2, <4>3
    <3>5. CASE k = "cookie_ack"
      <4>1. /\ flying'["init"] = fi /\ flying'["init_ack"] = fia /\ flying'["cookie"] = fc
            /\ flying'["cookie_ack"] = fca - 1 /\ inbox'["init_ack"] = ii /\ inbox'["cookie_ack"] = ic + 1
        BY <1>2, <2>5, <3>5, SMTT(30) DEF Arrives, AnswerTo
      <4>2. TypeOK'
        BY <1>1, <1>2, <3>1, <3>5, <4>1, SMTT(30)
      <4>3. HandshakeInv'
        BY <1>1, <1>2, <3>1, <3>5, <4>1, SMT
      <4> QED BY <4>2, <4>3
    <3> QED BY <3>2, <3>3, <3>4, <3>5
  <2>6. ASSUME NEW k \in Kinds, Lost(k) PROVE TypeOK' /\ HandshakeInv'
    <3>1. /\ UNCHANGED <<worker, tries, inbox>> /\ flying' \in [Kinds -> Int] /\ flying[k] > 0 /\ faults' = faults + 1
      BY <2>6 DEF Lost
    <3>2. CASE k = "init"
      <4>1. /\ flying'["init"] = fi - 1 /\ flying'["init_ack"] = fia /\ flying'["cookie"] = fc
            /\ flying'["cookie_ack"] = fca
        BY <1>2, <2>6, <3>2, SMT DEF Lost
      <4> QED BY <1>1, <1>2, <3>1, <3>2, <4>1, SMTT(30)
    <3>3. CASE k = "init_ack"
      <4>1. /\ flying'["init"] = fi /\ flying'["init_ack"] = fia - 1 /\ flying'["cookie"] = fc
            /\ flying'["cookie_ack"] = fca
        BY <1>2, <2>6, <3>3, SMT DEF Lost
      <4> QED BY <1>1, <1>2, <3>1, <3>3, <4>1, SMTT(30)
    <3>4. CASE k = "cookie"
      <4>1. /\ flying'["init"] = fi /\ flying'["init_ack"] = fia /\ flying'["cookie"] = fc - 1
            /\ flying'["cookie_ack"] = fca
        BY <1>2, <2>6, <3>4, SMT DEF Lost
      <4> QED BY <1>1, <1>2, <3>1, <3>4, <4>1, SMTT(30)
    <3>5. CASE k = "cookie_ack"
      <4>1. /\ flying'["init"] = fi /\ flying'["init_ack"] = fia /\ flying'["cookie"] = fc
            /\ flying'["cookie_ack"] = fca - 1
        BY <1>2, <2>6, <3>5, SMT DEF Lost
      <4> QED BY <1>1, <1>2, <3>1, <3>5, <4>1, SMTT(30)
    <3> QED BY <3>2, <3>3, <3>4, <3>5
  <2> QED BY <2>1, <2>2, <2>3, <2>4, <2>5, <2>6 DEF Shakes
<1>5. ConnectInv'
  BY <1>1, <1>3 DEF SendInv, ConnectInv, NothingIsLeft
<1>6. KeyInv' /\ NumberInv' /\ QuietInv'
  BY <1>1, SendersStay DEF SendInv, sending
<1> QED BY <1>4, <1>5, <1>6 DEF SendInv

------------------------------------------------------------------------------
(* A position taken lies above every one taken before.                              *)
LEMMA TakenIsEnough ==
  ASSUME SendAssumption, NEW size \in Nat PROVE Taken(size) \in Nat /\ Taken(size) >= size
<1>1. size % Block \in Nat
  BY SMT DEF SendAssumption
<1> QED BY <1>1 DEF Taken

(* The senders touch the connect and the handshake not at all.                          *)
LEMMA OthersKeep ==
  ASSUME SendInv, UNCHANGED <<connecting, shaking>> PROVE ConnectInv' /\ HandshakeInv'
BY DEF SendInv, connecting, shaking, ConnectInv, NothingIsLeft, HandshakeInv, HandshakeSurvives, Late, Due

(* What the senders have is typed.                                               *)
LEMMA SendersTyped ==
  ASSUME SendInv
  PROVE  /\ \A u \in Senders : job[u] \in Jobs
         /\ \A i \in 1 .. Len(sent) : sent[i] \in Jobs
         /\ Len(sent) \in Nat /\ DOMAIN sent = 1 .. Len(sent)
         /\ seqNum \in Nat /\ keyPos \in Nat /\ crypt \in BOOLEAN /\ DOMAIN job = Senders
BY SentAreJobs DEF SendInv, TypeOK

LEMMA SizesTyped == ASSUME SendAssumption, NEW form, NEW size \in SizesOf(form) PROVE size \in Nat
BY DEF SendAssumption, SizesOf

LEMMA NoJobIs == NoJob \in Jobs /\ NoJob.at = "none" /\ NoJob.form = "none" /\ [NoJob EXCEPT !.at = "none"] = NoJob
BY DEF NoJob, Jobs

(* A thread that gives its packet up, or is done with it, disturbs the key stream of no     *)
(* other.                                                                      *)
LEMMA DoneKeepsKeys ==
  ASSUME SendInv, NEW t \in Senders, job' = [job EXCEPT ![t] = NoJob], UNCHANGED <<crypt, keyPos, sent>>
  PROVE  KeyInv'
<1>1. job'[t] = NoJob /\ \A u \in Senders : u # t => job'[u] = job[u]
  BY DEF SendInv, TypeOK
<1>2. ~Ready(t)'
  BY <1>1, NoJobIs DEF Ready, JobAt
<1>3. \A u \in Senders : Ready(u)' => Ready(u) /\ job'[u] = job[u]
  BY <1>1, <1>2 DEF Ready, JobAt
<1> QED BY <1>3 DEF SendInv, KeyInv, JobsBelow, JobsApart, SentBelow, SentApartFromJobs, SentApart, JobsRushed,
                    SentRushed, Below, Apart, Rushed

LEMMA TakeKeyPosKeeps ==
  ASSUME SendAssumption, SendInv, NEW t \in Senders, NEW form \in Forms(t), NEW size \in SizesOf(form),
         TakeKeyPos(t, form, size)
  PROVE  SendInv'
<1> DEFINE new == [NoJob EXCEPT !.at = IF form = "data" THEN "number" ELSE "mac", !.of = t, !.form = form,
                               !.pos = IF crypt THEN keyPos ELSE 0, !.size = size, !.keyed = crypt]
<1>1. /\ job' = [job EXCEPT ![t] = new] /\ UNCHANGED <<connecting, shaking, crypt, seqNum, sent, wasted, buffered>>
      /\ keyPos' = (IF crypt THEN keyPos + Taken(size) ELSE keyPos) /\ JobAt(t, "none") /\ MaySend(t)
      /\ begun' = begun + 1 /\ stage' \in NextStages(t)
  BY DEF TakeKeyPos, Begins, Does, Advances, NoJob
<1>2. size \in Nat /\ Taken(size) \in Nat /\ Taken(size) >= size /\ keyPos \in Nat /\ crypt \in BOOLEAN
  BY TakenIsEnough, SizesTyped, SendersTyped
<1>3. form \in {"data", "plain"}
  BY DEF Forms
<1>4. /\ new \in Jobs /\ new.at \in {"number", "mac"} /\ new.form = form /\ new.of = t
      /\ new.at = "number" <=> form = "data"
  BY <1>1, <1>2, <1>3 DEF Jobs, NoJob
<1>5. /\ keyPos' \in Nat /\ keyPos' >= keyPos
      /\ new.keyed = crypt
      /\ crypt => new.pos = keyPos /\ new.pos + new.size <= keyPos'
      /\ ~crypt => new.pos = 0 /\ keyPos' = 0
  BY <1>1, <1>2, SMT DEF NoJob, SendInv, KeyInv
<1> HIDE DEF new
<1>6. TypeOK'
  <2>1. stage' \in {"big", "stream", "over"} /\ begun' \in Nat
    BY <1>1 DEF NextStages, SendInv, TypeOK
  <2> QED BY <1>1, <1>4, <1>5, <2>1 DEF connecting, shaking, SendInv, TypeOK
<1>7. job'[t] = new /\ \A u \in Senders : u # t => job'[u] = job[u]
  BY <1>1 DEF SendInv, TypeOK
<1>8. KeyInv'
  <2> USE DEF SendInv, KeyInv, JobAt, Ready, Below, Apart
  <2>0. /\ \A i \in 1 .. Len(sent) : sent[i].pos \in Nat /\ sent[i].size \in Nat
        /\ \A u \in Senders : job[u].pos \in Nat /\ job[u].size \in Nat
    BY SendersTyped DEF Jobs
  <2>1. JobsBelow'
    <3> SUFFICES ASSUME NEW u \in Senders, Ready(u)'
                 PROVE  IF job'[u].keyed THEN crypt /\ Below(job[u])' ELSE job'[u].pos = 0
      BY <1>1 DEF JobsBelow
    <3>1. CASE u = t BY <1>5, <1>7, <3>1
    <3>2. CASE u # t BY <1>5, <1>7, <1>2, <2>0, <3>2 DEF JobsBelow
    <3> QED BY <3>1, <3>2
  <2>2. JobsApart'
    <3>1. ASSUME NEW u \in Senders, u # t, Ready(u), job[u].keyed, crypt PROVE Apart(job[u], new) /\ Apart(new, job[u])
      BY <1>5, <1>2, <2>0, <3>1 DEF JobsBelow
    <3> QED BY <1>5, <1>7, <3>1 DEF JobsApart
  <2>3. SentBelow'
    <3>1. \A i \in 1 .. Len(sent) : Below(sent[i]) => Below(sent[i])'
      BY <1>1, <1>5, <1>2, <2>0
    <3> QED BY <1>1, <3>1 DEF SentBelow
  <2>4. SentApartFromJobs'
    <3>1. ASSUME NEW i \in 1 .. Len(sent), sent[i].keyed, crypt PROVE Apart(sent[i], new)
      BY <1>5, <1>2, <2>0, <3>1 DEF SentBelow
    <3> QED BY <1>1, <1>5, <1>7, <3>1 DEF SentApartFromJobs
  <2>5. SentApart' /\ SentRushed'
    BY <1>1 DEF SentApart, SentRushed, Rushed
  <2>6. JobsRushed'
    BY <1>1, <1>5, <1>7 DEF JobsRushed, Rushed
  <2> QED BY <1>1, <1>5, <2>1, <2>2, <2>3, <2>4, <2>5, <2>6
<1>9. NumberInv'
  <2> USE DEF SendInv, NumberInv, JobAt
  <2>1. JobsClean'
    BY <1>1, <1>4, <1>7 DEF JobsClean
  <2>2. ~Numbered(new)
    BY <1>3, <1>4 DEF Numbered
  <2>3. JobsDiffer' /\ SentDiffers'
    BY <1>1, <1>7, <2>2 DEF JobsDiffer, SentDiffers, Numbered
  <2>4. NumbersSent' = NumbersSent
    BY <1>1 DEF NumbersSent
  <2>5. OnItsWay' = OnItsWay
    BY <1>1, <1>4, <1>7 DEF OnItsWay
  <2>6. ToBePushed' = ToBePushed
    BY <1>1, <1>4, <1>7 DEF ToBePushed
  <2> QED BY <1>1, <2>1, <2>3, <2>4, <2>5, <2>6 DEF NumbersAddUp
<1>10. QuietInv'
  BY <1>1, <1>7 DEF SendInv, QuietInv, MaySend, JobAt
<1> QED BY <1>1, <1>6, <1>8, <1>9, <1>10, OthersKeep DEF SendInv

LEMMA NoPacketKeeps ==
  ASSUME SendAssumption, SendInv, NEW t \in Senders, NoPacket(t)
  PROVE  SendInv'
<1>1. /\ job' = [job EXCEPT ![t] = NoJob] /\ JobAt(t, "number")
      /\ UNCHANGED <<connecting, shaking, crypt, keyPos, seqNum, stage, begun, sent, wasted, buffered>>
  BY NoJobIs DEF NoPacket, Does
<1>2. job'[t] = NoJob /\ \A u \in Senders : u # t => job'[u] = job[u]
  BY <1>1 DEF SendInv, TypeOK
<1>3. TypeOK'
  BY <1>1, NoJobIs DEF connecting, shaking, SendInv, TypeOK
<1>4. NumberInv'
  <2> USE DEF SendInv, NumberInv, JobAt
  <2>1. JobsClean' /\ JobsDiffer' /\ SentDiffers'
    BY <1>1, <1>2, NoJobIs DEF JobsClean, JobsDiffer, SentDiffers, Numbered
  <2>2. NumbersSent' = NumbersSent /\ OnItsWay' = OnItsWay /\ ToBePushed' = ToBePushed
    BY <1>1, <1>2, NoJobIs DEF NumbersSent, OnItsWay, ToBePushed
  <2> QED BY <1>1, <2>1, <2>2 DEF NumbersAddUp
<1>5. QuietInv'
  BY <1>1, <1>2, NoJobIs DEF SendInv, QuietInv, JobAt
<1> QED BY <1>1, <1>3, <1>4, <1>5, DoneKeepsKeys, OthersKeep DEF SendInv

LEMMA TakeSeqNumKeeps ==
  ASSUME SendAssumption, SendInv, NEW t \in Senders, TakeSeqNum(t)
  PROVE  SendInv'
<1> DEFINE new == [job[t] EXCEPT !.at = "mac", !.seq = seqNum + 1]
<1>1. /\ \A u \in Senders : job[u] \in Jobs
      /\ seqNum \in Nat /\ keyPos \in Nat
  BY SendersTyped
<1>2. /\ job' = [job EXCEPT ![t] = new]
      /\ UNCHANGED <<connecting, shaking, crypt, keyPos, stage, begun, sent, wasted, buffered>>
      /\ seqNum' = seqNum + 1 /\ JobAt(t, "number")
  BY <1>1 DEF TakeSeqNum, Does, Jobs
<1>3. /\ new \in Jobs /\ new.at = "mac" /\ new.form = job[t].form /\ new.seq = seqNum + 1
      /\ new.pos = job[t].pos /\ new.size = job[t].size /\ new.keyed = job[t].keyed /\ new.of = job[t].of
  <2>1. seqNum + 1 \in Nat
    BY <1>1
  <2> QED BY <1>1, <2>1 DEF Jobs
<1> HIDE DEF new
<1>4. TypeOK'
  BY <1>1, <1>2, <1>3 DEF connecting, shaking, SendInv, TypeOK
<1>5. job'[t] = new /\ \A u \in Senders : u # t => job'[u] = job[u]
  BY <1>2 DEF SendInv, TypeOK
<1>6. KeyInv'
  <2> USE DEF SendInv, KeyInv
  <2>1. \A u \in Senders : /\ Ready(u)' <=> Ready(u)
                           /\ job'[u].pos = job[u].pos /\ job'[u].size = job[u].size /\ job'[u].keyed = job[u].keyed
    BY <1>2, <1>3, <1>5 DEF Ready, JobAt
  <2>2. JobsBelow' /\ JobsApart' /\ JobsRushed'
    BY <1>2, <2>1 DEF JobsBelow, JobsApart, JobsRushed, Below, Apart, Rushed
  <2>3. SentBelow' /\ SentApartFromJobs' /\ SentApart' /\ SentRushed'
    BY <1>2, <2>1 DEF SentBelow, SentApartFromJobs, SentApart, SentRushed, Below, Apart, Rushed
  <2> QED BY <1>2, <2>2, <2>3
<1>7. NumberInv'
  <2> USE DEF SendInv, NumberInv, JobAt
  <2>1. JobsClean' /\ new.form = "data"
    BY <1>2, <1>3, <1>5 DEF JobsClean
  <2>2. ToBePushed \subseteq NumbersSent /\ NumbersSent \subseteq 1 .. seqNum /\ OnItsWay \subseteq 1 .. seqNum
    BY DEF NumbersAddUp
  <2>3. \A u \in Senders : Numbered(job[u]) => job[u].seq \in OnItsWay \/ job[u].seq \in ToBePushed
    BY DEF Numbered, OnItsWay, ToBePushed
  <2>4. \A u \in Senders : Numbered(job[u]) => job[u].seq \in 1 .. seqNum
    BY <2>2, <2>3
  <2>5. seqNum + 1 \notin 1 .. seqNum /\ 1 .. (seqNum + 1) = (1 .. seqNum) \cup {seqNum + 1}
    BY <1>1
  <2>6. JobsDiffer'
    <3>1. \A u \in Senders : u # t /\ Numbered(job[u]) => job[u].seq # new.seq
      BY <1>3, <2>4, <2>5
    <3> QED BY <1>5, <3>1 DEF JobsDiffer
  <2>7. SentDiffers' /\ NumbersSent' = NumbersSent
    BY <1>2 DEF SentDiffers, NumbersSent
  <2>8. ToBePushed' = ToBePushed
    BY <1>2, <1>3, <1>5 DEF ToBePushed
  <2>9. OnItsWay' = OnItsWay \cup {seqNum + 1}
    <3>1. seqNum + 1 \in OnItsWay'
      BY <1>3, <1>5, <2>1 DEF OnItsWay
    <3>2. OnItsWay \subseteq OnItsWay'
      BY <1>2, <1>5 DEF OnItsWay
    <3>3. OnItsWay' \subseteq OnItsWay \cup {seqNum + 1}
      BY <1>3, <1>5 DEF OnItsWay
    <3> QED BY <3>1, <3>2, <3>3
  <2> QED BY <1>2, <2>1, <2>5, <2>6, <2>7, <2>8, <2>9 DEF NumbersAddUp
<1>8. QuietInv'
  BY <1>2, <1>5 DEF SendInv, QuietInv, JobAt
<1> QED BY <1>2, <1>4, <1>6, <1>7, <1>8, OthersKeep DEF SendInv

(* The number of a message at its MAC is on its way, and once that is over no other job's is it. *)
LEMMA NumberLeaves ==
  ASSUME SendInv, NEW t \in Senders, JobAt(t, "mac"), NEW new, job' = [job EXCEPT ![t] = new], new.at # "mac"
  PROVE  IF job[t].form = "data" THEN job[t].seq \in OnItsWay /\ OnItsWay' = OnItsWay \ {job[t].seq}
                                 ELSE OnItsWay' = OnItsWay
<1>1. job'[t] = new /\ \A u \in Senders : u # t => job'[u] = job[u]
  BY DEF SendInv, TypeOK
<1>2. CASE job[t].form = "data"
  <2>1. \A u \in Senders : u # t /\ JobAt(u, "mac") /\ job[u].form = "data" => job[u].seq # job[t].seq
    BY <1>2 DEF SendInv, NumberInv, JobsDiffer, Numbered, JobAt
  <2>2. job[t].seq \in OnItsWay
    BY <1>2 DEF OnItsWay
  <2>3. OnItsWay' \subseteq OnItsWay \ {job[t].seq}
    BY <1>1, <2>1 DEF OnItsWay, JobAt
  <2>4. OnItsWay \ {job[t].seq} \subseteq OnItsWay'
    BY <1>1 DEF OnItsWay, JobAt
  <2> QED BY <1>2, <2>2, <2>3, <2>4
<1>3. CASE job[t].form # "data"
  BY <1>1, <1>3 DEF OnItsWay, JobAt
<1> QED BY <1>2, <1>3

LEMMA MacKeeps ==
  ASSUME SendAssumption, SendInv, NEW t \in Senders, Mac(t)
  PROVE  SendInv'
<1> DEFINE p == [job[t] EXCEPT !.at = "sent", !.crypt = crypt]
           new == IF job[t].form = "data" THEN [job[t] EXCEPT !.at = "push"] ELSE NoJob
           n == Len(sent)
<1>1. /\ \A u \in Senders : job[u] \in Jobs
      /\ \A i \in 1 .. Len(sent) : sent[i] \in Jobs
      /\ seqNum \in Nat /\ keyPos \in Nat /\ crypt \in BOOLEAN /\ n \in Nat
  BY SendersTyped
<1>2. /\ job' = [job EXCEPT ![t] = new] /\ JobAt(t, "mac") /\ sent' = Append(sent, p)
      /\ UNCHANGED <<connecting, shaking, crypt, keyPos, seqNum, stage, begun, wasted, buffered>>
  BY NoJobIs DEF Mac, Does
<1>3. /\ p \in Jobs /\ p.form = job[t].form /\ p.seq = job[t].seq /\ p.keyed = job[t].keyed /\ p.of = job[t].of
      /\ p.pos = job[t].pos /\ p.size = job[t].size /\ p.crypt = crypt
  BY <1>1 DEF Jobs
<1>4. /\ new \in Jobs /\ new.at \in {"none", "push"}
      /\ new.at = "push" <=> job[t].form = "data"
      /\ new.at = "push" => new.form = "data" /\ new.seq = job[t].seq /\ new.of = job[t].of
      /\ new.at = "none" => new.form = "none"
  BY <1>1, NoJobIs DEF Jobs
<1> HIDE DEF p, n, new
<1>5. sent' \in Seq(Jobs) /\ Len(sent') = n + 1 /\ sent'[n + 1] = p /\ \A i \in 1 .. n : sent'[i] = sent[i]
  BY <1>2, <1>3 DEF SendInv, TypeOK, n
<1>6. TypeOK'
  BY <1>2, <1>4, <1>5 DEF connecting, shaking, SendInv, TypeOK
<1>7. job'[t] = new /\ \A u \in Senders : u # t => job'[u] = job[u]
  BY <1>2 DEF SendInv, TypeOK
<1>8. \A i \in 1 .. Len(sent') : i = n + 1 \/ i \in 1 .. n
  BY <1>1, <1>5
<1>9. KeyInv'
  <2> USE DEF SendInv, KeyInv, Below, Apart, n
  <2>1. \A u \in Senders : Ready(u)' => u # t /\ Ready(u) /\ job'[u] = job[u]
    BY <1>4, <1>7 DEF Ready, JobAt
  <2>2. Ready(t)
    BY <1>2 DEF Ready
  <2>3. JobsBelow' /\ JobsApart'
    BY <1>2, <2>1 DEF JobsBelow, JobsApart
  <2>4. SentBelow'
    BY <1>2, <1>3, <1>5, <1>8, <2>2 DEF SentBelow, JobsBelow
  <2>5. SentApartFromJobs'
    BY <1>2, <1>3, <1>5, <1>8, <2>1, <2>2 DEF SentApartFromJobs, JobsApart
  <2>6. SentApart'
    BY <1>2, <1>3, <1>5, <1>8, <2>2 DEF SentApart, SentApartFromJobs
  <2>7. Rushed(p) => t = "congestion" /\ p.of = t /\ \A i \in 1 .. n : ~Rushed(sent[i])
    BY <1>2, <1>3, <2>2 DEF Rushed, JobsRushed, NumberInv, JobsClean, JobAt
  <2>8. SentRushed'
    BY <1>2, <1>5, <1>8, <2>7 DEF SentRushed, Rushed
  <2>9. JobsRushed'
    <3> SUFFICES ASSUME NEW u \in Senders, crypt, Ready(u)', ~job'[u].keyed, NEW i \in 1 .. Len(sent')
                 PROVE  u = "congestion" /\ ~Rushed(sent'[i])
      BY <1>2, <2>1 DEF JobsRushed, Rushed
    <3>1. u # t /\ u = "congestion" /\ \A k \in 1 .. n : ~Rushed(sent[k])
      BY <2>1 DEF JobsRushed
    <3>2. ~Rushed(p)
      BY <2>7, <3>1
    <3> QED BY <1>5, <1>8, <3>1, <3>2 DEF Rushed
  <2> QED BY <1>2, <2>3, <2>4, <2>5, <2>6, <2>8, <2>9
<1>10. NumberInv'
  <2> USE DEF SendInv, NumberInv, JobAt
  <2>1. JobsClean'
    BY <1>2, <1>4, <1>7 DEF JobsClean
  <2>2. JobsDiffer'
    BY <1>2, <1>4, <1>7 DEF JobsDiffer, Numbered
  <2>3. DOMAIN sent = 1 .. n /\ DOMAIN sent' = 1 .. (n + 1) /\ 1 .. (n + 1) = (1 .. n) \cup {n + 1} /\ n + 1 \notin 1 .. n
    BY <1>1, <1>5 DEF n, TypeOK
  <2>4. CASE p.form # "data"
    <3>1. NumbersSent' = NumbersSent /\ SentDiffers'
      BY <1>5, <1>8, <2>3, <2>4 DEF NumbersSent, SentDiffers, n
    <3>2. ToBePushed' = ToBePushed
      BY <1>2, <1>3, <1>4, <1>7, <2>4 DEF ToBePushed
    <3>3. OnItsWay' = OnItsWay
      BY <1>2, <1>3, <1>4, <2>4, NumberLeaves
    <3> QED BY <1>2, <2>1, <2>2, <3>1, <3>2, <3>3 DEF NumbersAddUp
  <2>5. CASE p.form = "data"
    <3>1. OnItsWay' = OnItsWay \ {p.seq} /\ p.seq \in OnItsWay
      BY <1>2, <1>3, <1>4, <2>5, NumberLeaves
    <3>2. NumbersSent' = NumbersSent \cup {p.seq}
      BY <1>5, <2>3, <2>5 DEF NumbersSent
    <3>3. ToBePushed' = ToBePushed \cup {p.seq}
      BY <1>2, <1>3, <1>4, <1>7, <2>5 DEF ToBePushed
    <3>4. p.seq \notin NumbersSent
      BY <3>1 DEF NumbersAddUp
    <3>5. SentDiffers'
      <4>1. \A i \in 1 .. n : sent[i].form = "data" => sent[i].seq # p.seq
        BY <2>3, <3>4 DEF NumbersSent
      <4> QED BY <1>5, <1>8, <4>1 DEF SentDiffers, n
    <3> QED BY <1>2, <2>1, <2>2, <3>1, <3>2, <3>3, <3>4, <3>5 DEF NumbersAddUp
  <2> QED BY <2>4, <2>5
<1>11. QuietInv'
  BY <1>2, <1>4, <1>7 DEF SendInv, QuietInv, JobAt
<1> QED BY <1>2, <1>6, <1>9, <1>10, <1>11, OthersKeep DEF SendInv

LEMMA SendFailsKeeps ==
  ASSUME SendAssumption, SendInv, NEW t \in Senders, SendFails(t)
  PROVE  SendInv'
<1>1. /\ job' = [job EXCEPT ![t] = NoJob] /\ JobAt(t, "mac")
      /\ UNCHANGED <<connecting, shaking, crypt, keyPos, seqNum, stage, begun, sent, buffered>>
      /\ wasted' = (IF job[t].form = "data" THEN wasted \cup {job[t].seq} ELSE wasted)
  BY NoJobIs DEF SendFails, Does
<1>2. job'[t] = NoJob /\ \A u \in Senders : u # t => job'[u] = job[u]
  BY <1>1 DEF SendInv, TypeOK
<1>3. TypeOK'
  <2>1. job[t].seq \in Nat
    BY SendersTyped DEF Jobs
  <2> QED BY <1>1, <2>1, NoJobIs DEF connecting, shaking, SendInv, TypeOK
<1>4. NumberInv'
  <2> USE DEF SendInv, NumberInv, JobAt
  <2>1. JobsClean' /\ JobsDiffer' /\ SentDiffers'
    BY <1>1, <1>2, NoJobIs DEF JobsClean, JobsDiffer, SentDiffers, Numbered
  <2>2. NumbersSent' = NumbersSent /\ ToBePushed' = ToBePushed
    BY <1>1, <1>2, NoJobIs DEF NumbersSent, ToBePushed
  <2>3. IF job[t].form = "data" THEN job[t].seq \in OnItsWay /\ OnItsWay' = OnItsWay \ {job[t].seq}
                                ELSE OnItsWay' = OnItsWay
    BY <1>1, NoJobIs, NumberLeaves
  <2> QED BY <1>1, <2>1, <2>2, <2>3 DEF NumbersAddUp
<1>5. QuietInv'
  BY <1>1, <1>2, NoJobIs DEF SendInv, QuietInv, JobAt
<1> QED BY <1>1, <1>3, <1>4, <1>5, DoneKeepsKeys, OthersKeep DEF SendInv

LEMMA PushKeeps ==
  ASSUME SendAssumption, SendInv, NEW t \in Senders, Push(t)
  PROVE  SendInv'
<1>1. /\ job' = [job EXCEPT ![t] = NoJob] /\ JobAt(t, "push")
      /\ UNCHANGED <<connecting, shaking, crypt, keyPos, seqNum, stage, begun, sent, wasted>>
      /\ buffered' = buffered \cup {job[t].seq}
  BY NoJobIs DEF Push, Does
<1>2. job'[t] = NoJob /\ \A u \in Senders : u # t => job'[u] = job[u]
  BY <1>1 DEF SendInv, TypeOK
<1>3. TypeOK'
  <2>1. job[t].seq \in Nat
    BY SendersTyped DEF Jobs
  <2> QED BY <1>1, <2>1, NoJobIs DEF connecting, shaking, SendInv, TypeOK
<1>4. NumberInv'
  <2> USE DEF SendInv, NumberInv, JobAt
  <2>1. JobsClean' /\ JobsDiffer' /\ SentDiffers'
    BY <1>1, <1>2, NoJobIs DEF JobsClean, JobsDiffer, SentDiffers, Numbered
  <2>2. NumbersSent' = NumbersSent /\ OnItsWay' = OnItsWay
    BY <1>1, <1>2, NoJobIs DEF NumbersSent, OnItsWay
  <2>3. \A u \in Senders : u # t /\ JobAt(u, "push") => job[u].seq # job[t].seq
    BY <1>1 DEF JobsDiffer, Numbered, JobsClean
  <2>4. job[t].seq \in ToBePushed /\ ToBePushed' = ToBePushed \ {job[t].seq}
    <3>1. job[t].seq \in ToBePushed
      BY <1>1 DEF ToBePushed
    <3>2. ToBePushed' \subseteq ToBePushed \ {job[t].seq}
      BY <1>2, <2>3, NoJobIs DEF ToBePushed
    <3>3. ToBePushed \ {job[t].seq} \subseteq ToBePushed'
      BY <1>2 DEF ToBePushed
    <3> QED BY <3>1, <3>2, <3>3
  <2> QED BY <1>1, <2>1, <2>2, <2>4 DEF NumbersAddUp
<1>5. QuietInv'
  BY <1>1, <1>2, NoJobIs DEF SendInv, QuietInv, JobAt
<1> QED BY <1>1, <1>3, <1>4, <1>5, DoneKeepsKeys, OthersKeep DEF SendInv

LEMMA SendEncryptedKeeps ==
  ASSUME SendAssumption, SendInv, NEW t \in Senders, NEW size \in Sizes, SendEncrypted(t, size)
  PROVE  SendInv'
<1> DEFINE p == [NoJob EXCEPT !.at = "sent", !.of = t, !.form = "encrypted", !.pos = keyPos, !.size = size + Block,
                             !.keyed = TRUE, !.crypt = TRUE]
           n == Len(sent)
<1>1. /\ \A u \in Senders : job[u] \in Jobs
      /\ \A i \in 1 .. Len(sent) : sent[i] \in Jobs
      /\ seqNum \in Nat /\ keyPos \in Nat /\ n \in Nat /\ DOMAIN sent = 1 .. n
  BY SendersTyped
<1>2. /\ sent' = Append(sent, p) \/ sent' = sent
      /\ crypt /\ keyPos' = keyPos + Taken(size + Block) /\ begun' = begun + 1
      /\ UNCHANGED <<connecting, shaking, crypt, seqNum, job, stage, wasted, buffered>>
  BY DEF SendEncrypted, Begins, MaySend, Advances
<1>3. size + Block \in Nat
  BY DEF SendAssumption
<1>4. Taken(size + Block) \in Nat /\ Taken(size + Block) >= size + Block
  BY <1>3, TakenIsEnough
<1>5. p \in Jobs /\ p.form = "encrypted" /\ p.pos = keyPos /\ p.size = size + Block /\ p.crypt /\ p.keyed
  BY <1>1, <1>3 DEF Jobs, NoJob
<1> HIDE DEF p, n
<1>6. /\ sent' \in Seq(Jobs)
      /\ \A i \in 1 .. Len(sent') : \/ i \in 1 .. n /\ sent'[i] = sent[i]
                                    \/ i = n + 1 /\ sent'[i] = p
      /\ \A i \in 1 .. n : i \in 1 .. Len(sent') /\ sent'[i] = sent[i]
      /\ DOMAIN sent' = 1 .. Len(sent')
  <2>1. sent \in Seq(Jobs)
    BY DEF SendInv, TypeOK
  <2>2. CASE sent' = sent
    BY <1>1, <2>1, <2>2 DEF n
  <2>3. CASE sent' = Append(sent, p)
    <3>1. sent' \in Seq(Jobs) /\ Len(sent') = n + 1 /\ sent'[n + 1] = p /\ \A i \in 1 .. n : sent'[i] = sent[i]
      BY <1>5, <2>1, <2>3 DEF n
    <3> QED BY <1>1, <3>1
  <2> QED BY <1>2, <2>2, <2>3
<1>8. keyPos' \in Nat /\ keyPos' >= keyPos /\ p.pos + p.size <= keyPos'
  BY <1>1, <1>2, <1>3, <1>4, <1>5
<1>9. TypeOK'
  <2>1. begun' \in Nat
    BY <1>2 DEF SendInv, TypeOK
  <2> QED BY <1>2, <1>6, <1>8, <2>1 DEF connecting, shaking, SendInv, TypeOK
<1>10. \A u \in Senders : job[u].pos \in Nat /\ job[u].size \in Nat
  BY <1>1 DEF Jobs
<1>11. \A i \in 1 .. n : sent[i].pos \in Nat /\ sent[i].size \in Nat
  BY <1>1 DEF Jobs, n
<1>12. KeyInv'
  <2> USE DEF SendInv, KeyInv, JobAt, Ready, Below, Apart, n
  <2>1. JobsBelow'
    BY <1>1, <1>2, <1>8, <1>10 DEF JobsBelow
  <2>2. JobsApart'
    BY <1>2 DEF JobsApart
  <2>3. SentBelow'
    <3>1. \A i \in 1 .. n : Below(sent[i]) => sent[i].pos + sent[i].size <= keyPos'
      BY <1>1, <1>8, <1>11
    <3> QED BY <1>2, <1>5, <1>6, <1>8, <3>1 DEF SentBelow
  <2>4. SentApartFromJobs'
    BY <1>1, <1>2, <1>5, <1>6, <1>10 DEF SentApartFromJobs, JobsBelow
  <2>5. SentApart'
    <3>1. \A i \in 1 .. n : sent[i].keyed => Apart(sent[i], p) /\ Apart(p, sent[i])
      BY <1>1, <1>5, <1>11 DEF SentBelow
    <3> QED BY <1>6, <3>1 DEF SentApart
  <2>6. ~Rushed(p)
    BY <1>5 DEF Rushed
  <2>7. SentRushed' /\ JobsRushed'
    BY <1>2, <1>6, <2>6 DEF SentRushed, JobsRushed, Rushed
  <2> QED BY <1>2, <2>1, <2>2, <2>3, <2>4, <2>5, <2>7
<1>13. NumberInv'
  <2> USE DEF SendInv, NumberInv, JobAt
  <2>1. JobsClean' /\ JobsDiffer'
    BY <1>2 DEF JobsClean, JobsDiffer, Numbered
  <2>2. SentDiffers'
    <3>1. \A i \in 1 .. Len(sent') : sent'[i].form = "data" => i \in 1 .. n /\ sent'[i] = sent[i]
      BY <1>5, <1>6
    <3> QED BY <3>1 DEF SentDiffers, n
  <2>3. NumbersSent' = NumbersSent
    BY <1>1, <1>5, <1>6 DEF NumbersSent
  <2>4. OnItsWay' = OnItsWay /\ ToBePushed' = ToBePushed
    BY <1>2 DEF OnItsWay, ToBePushed
  <2> QED BY <1>2, <2>1, <2>2, <2>3, <2>4 DEF NumbersAddUp
<1>14. QuietInv'
  BY <1>2 DEF QuietInv
<1> QED BY <1>2, <1>9, <1>12, <1>13, <1>14, OthersKeep DEF SendInv

(* Nobody but the congestion thread holds a position when the key comes, and no packet     *)
(* before it counts.                                                            *)
LEMMA SetCryptKeeps ==
  ASSUME SendAssumption, SendInv, SetCrypt PROVE SendInv'
<1>1. ~crypt /\ crypt' = TRUE
      /\ UNCHANGED <<connecting, shaking, keyPos, seqNum, job, stage, begun, sent, wasted, buffered>>
  BY DEF SetCrypt
<1>2. \A t \in Senders : t = "congestion" \/ JobAt(t, "none")
  BY <1>1 DEF SetCrypt, SendInv, QuietInv, Senders
<1>3. \A i \in 1 .. Len(sent) : ~sent[i].crypt /\ ~sent[i].keyed
  BY <1>1 DEF SendInv, KeyInv, SentBelow
<1>4. \A t \in Senders : Ready(t) => ~job[t].keyed
  BY <1>1 DEF SendInv, KeyInv, JobsBelow
<1>5. TypeOK'
  BY <1>1 DEF connecting, shaking, SendInv, TypeOK
<1>6. \A t \in Senders : Ready(t)' <=> Ready(t)
  BY <1>1 DEF Ready, JobAt
<1>7. KeyInv'
  <2>1. \A t \in Senders : Ready(t) => t = "congestion"
    BY <1>2 DEF Ready, JobAt
  <2>2. JobsBelow' /\ JobsApart' /\ JobsRushed'
    BY <1>1, <1>3, <1>4, <1>6, <2>1 DEF SendInv, KeyInv, JobsBelow, JobsApart, JobsRushed, Rushed
  <2>3. SentBelow' /\ SentApartFromJobs' /\ SentApart' /\ SentRushed'
    BY <1>1, <1>3 DEF SendInv, KeyInv, SentBelow, SentApartFromJobs, SentApart, SentRushed, Rushed
  <2> QED BY <1>1, <2>2, <2>3 DEF KeyInv
<1>8. NumberInv'
  <2>1. JobsClean' /\ JobsDiffer' /\ SentDiffers'
    BY <1>1 DEF SendInv, NumberInv, JobsClean, JobsDiffer, SentDiffers, JobAt, Numbered
  <2>2. NumbersSent' = NumbersSent /\ OnItsWay' = OnItsWay /\ ToBePushed' = ToBePushed
    BY <1>1 DEF NumbersSent, OnItsWay, ToBePushed, JobAt
  <2> QED BY <1>1, <2>1, <2>2 DEF SendInv, NumberInv, NumbersAddUp
<1>9. QuietInv'
  BY <1>1 DEF QuietInv
<1> QED BY <1>1, <1>5, <1>7, <1>8, <1>9, OthersKeep DEF SendInv

------------------------------------------------------------------------------
LEMMA SendKeeps == ASSUME SendAssumption, SendInv, [SendNext]_sendVars PROVE SendInv'
<1>1. CASE Connects
  BY <1>1, ConnectsKeep
<1>2. CASE Shakes
  BY <1>2, ShakesKeep
<1>3. CASE Sends
  <2>1. PICK t \in Senders : \/ \E form \in Forms(t) : \E size \in SizesOf(form) : TakeKeyPos(t, form, size)
                             \/ NoPacket(t) \/ TakeSeqNum(t) \/ Mac(t) \/ SendFails(t) \/ Push(t)
                             \/ \E size \in Sizes : SendEncrypted(t, size)
    BY <1>3 DEF Sends
  <2> QED BY <2>1, TakeKeyPosKeeps, NoPacketKeeps, SendEncryptedKeeps, TakeSeqNumKeeps, MacKeeps, SendFailsKeeps, PushKeeps
<1>4. CASE SetCrypt
  BY <1>4, SetCryptKeeps
<1>5. CASE UNCHANGED sendVars
  <2>1. UNCHANGED <<connecting, shaking, sending>>
    BY <1>5 DEF sendVars, connecting, shaking, sending
  <2>2. TypeOK'
    BY <2>1 DEF SendInv, TypeOK, connecting, shaking, sending
  <2> QED BY <2>1, <2>2, OthersKeep, SendersStay DEF SendInv
<1> QED BY <1>1, <1>2, <1>3, <1>4, <1>5, StepsAre

LEMMA Implied == ASSUME SendInv PROVE TypeOK /\ PacketsAreAcceptable
<1>1. DOMAIN sent = 1 .. Len(sent)
  BY DEF SendInv, TypeOK
<1>2. KeyStreamUsedOnce
  BY <1>1 DEF SendInv, KeyInv, SentBelow, SentApart, SentRushed, KeyStreamUsedOnce
<1>3. NumbersAreUnique
  BY <1>1 DEF SendInv, NumberInv, SentDiffers, NumbersAreUnique
<1> QED BY <1>2, <1>3 DEF SendInv, ConnectInv, HandshakeInv, NumberInv, PacketsAreAcceptable

(* takion's variables have their types.                                          *)
THEOREM TypeCorrect == SendSpec => []TypeOK
<1>1. SendInit => SendInv
  BY SendStarts, SendAssumption
<1>2. SendInv /\ [SendNext]_sendVars => SendInv'
  BY SendKeeps, SendAssumption
<1> QED BY <1>1, <1>2, Implied, PTL DEF SendSpec

(* A failed connect has given back what it took; the handshake fails only after as many      *)
(* faults as it has tries; no two packets use the same of the key stream, but for one report  *)
(* of the congestion thread; and whichever sends fail, every number taken is of exactly one   *)
(* message, one that went out and is given to the send buffer, or is on its way, or failed    *)
(* and is never sent again (lib/src/takion.c 225-1125), for any number of threads, any        *)
(* sizes and any number of packets.                                             *)
THEOREM PacketsHold == SendSpec => []PacketsAreAcceptable
<1>1. SendInit => SendInv
  BY SendStarts, SendAssumption
<1>2. SendInv /\ [SendNext]_sendVars => SendInv'
  BY SendKeeps, SendAssumption
<1> QED BY <1>1, <1>2, Implied, PTL DEF SendSpec
-----------------------------------------------------------------------------
(* The threads around the codec of Android.                                        *)

(* Codecs are numbered as they are made, and a thread is begun for none before its time;   *)
(* one is deleted when its output thread was left behind or has ended, and the input       *)
(* thread runs from the creation of a codec to the join that comes before its deletion.     *)
VideoInv ==
  /\ created \in 0 .. CodecsMax /\ codec \in {0, created} /\ inputRunning \in BOOLEAN
  /\ deleted \subseteq 1 .. created /\ DOMAIN outputThreads = Video!Codecs
  /\ \A t \in Video!Codecs : t > created => outputThreads[t] = "none"
  /\ \A t \in deleted \ stray : outputThreads[t] \in {"none", "ended"}
  /\ app = "join_output" => codec # 0
  /\ app = "delete" => codec # 0 /\ (codec \in stray \/ outputThreads[codec] = "ended")
  /\ IF inputRunning THEN codec # 0 /\ app \in {"idle", "join_input"} ELSE inputThread = "none"

LEMMA VideoStarts == ASSUME VideoAssumption, Video!Init \/ Video!AtRest PROVE VideoInv
<1>1. /\ codec = 0 /\ created = 0 /\ deleted = {} /\ inputRunning = FALSE /\ inputThread = "none"
      /\ outputThreads = [c \in Video!Codecs |-> "none"] /\ app \in {"idle", "over"}
  BY DEF Video!Init, Video!AtRest
<1>2. created \in 0 .. CodecsMax /\ DOMAIN outputThreads = Video!Codecs /\ \A t \in Video!Codecs : outputThreads[t] = "none"
  BY <1>1 DEF VideoAssumption
<1> QED BY <1>1, <1>2 DEF VideoInv

LEMMA SurfaceKeeps == ASSUME VideoAssumption, VideoInv, Video!SetSurface PROVE VideoInv'
<1>1. /\ app = "idle" /\ codec = 0 /\ created < CodecsMax /\ created' = created + 1 /\ app' = app
  BY DEF Video!SetSurface
<1>2. created' \in Video!Codecs /\ created' \notin deleted /\ outputThreads[created'] = "none" /\ created' \in 0 .. CodecsMax
  BY <1>1 DEF VideoAssumption, VideoInv, Video!Codecs
<1>3. ~inputRunning /\ inputThread = "none"
  BY <1>1 DEF VideoInv
<1>4. CASE deleted' = deleted \cup {created'} /\ UNCHANGED <<codec, inputRunning, inputThread, outputThreads, stray>>
  BY <1>1, <1>2, <1>3, <1>4 DEF VideoInv, Video!Codecs
<1>5. CASE /\ outputThreads' = [outputThreads EXCEPT ![created'] = "loop"] /\ stray' = stray \cup {created'}
           /\ deleted' = deleted \cup {created'} /\ UNCHANGED <<codec, inputRunning, inputThread>>
  BY <1>1, <1>2, <1>3, <1>5 DEF VideoInv, Video!Codecs
<1>6. CASE /\ codec' = created' /\ outputThreads' = [outputThreads EXCEPT ![created'] = "loop"]
           /\ inputRunning' = TRUE /\ inputThread' = "loop" /\ UNCHANGED <<deleted, stray>>
  BY <1>1, <1>2, <1>3, <1>6 DEF VideoInv, Video!Codecs
<1> QED BY <1>4, <1>5, <1>6 DEF Video!SetSurface

LEMMA InputStopKeeps ==
  ASSUME VideoInv, (\E last \in BOOLEAN : Video!StopInput(last)) \/ Video!InputJoined
  PROVE  VideoInv'
<1>1. UNCHANGED <<codec, created, deleted, outputThreads, stray>>
  BY DEF Video!StopInput, Video!InputJoined, Video!codecs
<1>2. CASE app = "idle" /\ app' = (IF inputRunning THEN "join_input" ELSE "kill") /\ UNCHANGED <<inputRunning, inputThread>>
  BY <1>1, <1>2 DEF VideoInv
<1>3. CASE inputThread' = "none" /\ inputRunning' = FALSE /\ app' = "kill"
  BY <1>1, <1>3 DEF VideoInv
<1> QED BY <1>2, <1>3 DEF Video!StopInput, Video!InputJoined

LEMMA KillKeeps == ASSUME VideoAssumption, VideoInv, Video!Kill PROVE VideoInv'
<1>1. app = "kill" /\ UNCHANGED <<codec, created, deleted, inputRunning, inputThread>>
  BY DEF Video!Kill
<1>2. stray \subseteq stray' /\ DOMAIN outputThreads' = DOMAIN outputThreads
      /\ \A t \in DOMAIN outputThreads : outputThreads'[t] = outputThreads[t] \/ outputThreads[t] = "dequeue"
  BY DEF Video!Kill
<1>3. IF codec = 0 THEN app' \in {"over", "idle"} ELSE app' = "join_output" \/ (app' = "delete" /\ codec \in stray')
  <2>1. CASE codec = 0
    BY <2>1 DEF Video!Kill
  <2>2. CASE codec # 0
    <3>1. app' = "join_output" \/ (app' = "delete" /\ stray' = stray \cup {codec})
      BY <2>2, Zenon DEF Video!Kill
    <3> QED BY <2>2, <3>1
  <2> QED BY <2>1, <2>2
<1>4. ~inputRunning
  BY <1>1 DEF VideoInv
<1>5. deleted \subseteq DOMAIN outputThreads
  BY DEF VideoAssumption, VideoInv, Video!Codecs
<1>6. \A t \in Video!Codecs : t > created => outputThreads'[t] = "none"
  BY <1>2 DEF VideoInv
<1>7. \A t \in deleted \ stray' : outputThreads'[t] \in {"none", "ended"}
  BY <1>2, <1>5 DEF VideoInv
<1> QED BY <1>1, <1>2, <1>3, <1>4, <1>6, <1>7 DEF VideoInv

LEMMA DeleteKeeps == ASSUME VideoInv, Video!OutputJoined \/ Video!Delete PROVE VideoInv'
<1>1. UNCHANGED <<created, inputRunning, inputThread, outputThreads, stray>>
  BY DEF Video!OutputJoined, Video!Delete, Video!codecs
<1>2. CASE Video!OutputJoined
  BY <1>1, <1>2 DEF Video!OutputJoined, Video!codecs, VideoInv
<1>3. CASE Video!Delete
  <2>1. app = "delete" /\ deleted' = deleted \cup {codec} /\ codec' = 0 /\ app' \in {"over", "idle"}
    BY <1>3 DEF Video!Delete
  <2>2. codec \in 1 .. created /\ ~inputRunning
    BY <2>1 DEF VideoInv
  <2> QED BY <1>1, <2>1, <2>2 DEF VideoInv
<1> QED BY <1>2, <1>3

LEMMA InputMovesKeep == ASSUME VideoInv, Video!VideoSample \/ Video!InputMoves PROVE VideoInv'
<1>1. UNCHANGED <<codec, created, deleted, inputRunning, outputThreads, app, stray>>
  BY DEF Video!VideoSample, Video!InputMoves, Video!InputTakes, Video!InputLocks, Video!InputSubmits,
         Video!codecs
<1>2. inputThread' = inputThread \/ inputThread # "none"
  BY DEF Video!VideoSample, Video!InputMoves, Video!InputTakes, Video!InputLocks, Video!InputSubmits
<1> QED BY <1>1, <1>2 DEF VideoInv

LEMMA OutputMovesKeep ==
  ASSUME VideoInv, NEW t \in Video!Codecs,
         Video!OutputWaits(t) \/ Video!OutputFrame(t) \/ Video!OutputError(t) \/ Video!OutputChecks(t)
  PROVE  VideoInv'
<1>1. UNCHANGED <<codec, created, deleted, inputRunning, inputThread, app, stray>>
  BY DEF Video!OutputWaits, Video!OutputFrame, Video!OutputError, Video!OutputChecks, Video!codecs
<1>2. PICK to : outputThreads' = [outputThreads EXCEPT ![t] = to]
  BY DEF Video!OutputWaits, Video!OutputFrame, Video!OutputError, Video!OutputChecks
<1>3. outputThreads[t] \in {"loop", "dequeue", "error"}
  BY DEF Video!OutputWaits, Video!OutputFrame, Video!OutputError, Video!OutputChecks
<1>4. \A x \in Video!Codecs : x > created => outputThreads'[x] = "none"
  BY <1>2, <1>3 DEF VideoInv
<1>5. \A x \in deleted \ stray : outputThreads'[x] \in {"none", "ended"}
  BY <1>2, <1>3 DEF VideoInv
<1> QED BY <1>1, <1>2, <1>3, <1>4, <1>5 DEF VideoInv

LEMMA VideoKeeps == ASSUME VideoAssumption, VideoInv, [Video!Next]_videoVars PROVE VideoInv'
<1>1. CASE UNCHANGED videoVars
  BY <1>1 DEF videoVars, VideoInv
<1> QED BY <1>1, SurfaceKeeps, InputStopKeeps, KillKeeps, DeleteKeeps, InputMovesKeep, OutputMovesKeep
  DEF Video!Next, Video!AppMoves

(* The codec of the decoder outlives the threads that call it.                          *)
THEOREM CodecIsKept == MCSpec => []Video!CodecOutlivesThreads
<1> USE VideoAssumption
<1>1. MCInit => VideoInv
  BY VideoStarts DEF MCInit
<1>2. VideoInv /\ [MCNext]_<<part, pacingVars, cloudVars, catalogVars, backVars, hostVars, syncVars, ctlVars, outVars, sendVars, videoVars, audioVars, nativeVars, appVars>> => VideoInv'
  <2>1. [MCNext]_<<part, pacingVars, cloudVars, catalogVars, backVars, hostVars, syncVars, ctlVars, outVars, sendVars, videoVars, audioVars, nativeVars, appVars>> => [Video!Next]_videoVars
    BY DEF MCNext
  <2> QED BY <2>1, VideoKeeps
<1>3. VideoInv => Video!CodecOutlivesThreads
  BY DEF VideoInv, Video!CodecOutlivesThreads
<1> QED BY <1>1, <1>2, <1>3, PTL DEF MCSpec

-----------------------------------------------------------------------------
(* The parts a call of the native interface holds.                                   *)
NativeKinds == {"session", "cloud", "service", "regist", "ping"}
NativeParts == {"log", "host", "copies", "object", "decoder", "audio", "output", "core", "refs", "address", "strings", "spec"}
Among(list) == {list[i] : i \in 1 .. Len(list)}

(* What is left of a call that returned, and of one that failed.                        *)
Remains(c) == CASE c = "session" -> {"core", "decoder", "audio", "output", "refs", "log", "object"}
                [] c = "cloud" -> {"core", "decoder", "audio", "output", "refs", "log", "object", "copies"}
                [] c \in {"service", "regist"} -> {"core", "refs", "object"} [] c = "ping" -> {}
Leaves(c, fail) == IF c = "service" /\ fail = "address" THEN {"object"} ELSE IF c = "cloud" THEN {"copies"} ELSE {}

(* The parts are had in their order. While they are given back, what is still held is to   *)
(* come, and the library is the first, whose threads use the others.                    *)
Taking(c, has) ==
  \E n \in 0 .. Len(Native!PartsOf(c)) : /\ IsFiniteSet(has) /\ Cardinality(has) = n
                                         /\ has = {Native!PartsOf(c)[i] : i \in 1 .. n}
GivingBack(c, has, rest, fail) ==
  /\ has \subseteq Leaves(c, fail) \cup Among(rest)
  /\ c # "ping" /\ "core" \in has => has = Remains(c) /\ rest = Native!Freed(c)
Holds(c, where, has, rest, fail) ==
  \/ where = "idle" /\ rest = <<>> /\ has \subseteq Leaves(c, fail)
  \/ where = "taking" /\ rest = <<>> /\ fail = "none" /\ Taking(c, has)
  \/ where = "returning" /\ fail = "none" /\ c # "ping" /\ has = Remains(c) \cup Among(rest) /\ rest \in {Native!Returned(c), <<>>}
  \/ where = "ready" /\ fail = "none" /\ c # "ping" /\ has = Remains(c) /\ rest = <<>>
  \/ where = "running" /\ fail = "none" /\ c \in {"session", "cloud"} /\ has = Remains(c) /\ rest = <<>>
  \/ where = "undoing" /\ rest \in Seq(NativeParts) /\ GivingBack(c, has, rest, fail)
NativeInv ==
  /\ nativeAt = [c \in NativeCalls |-> nativeAt[c]] /\ nativeHeld = [c \in NativeCalls |-> nativeHeld[c]]
  /\ undoing = [c \in NativeCalls |-> undoing[c]] /\ nativeFailed = [c \in NativeCalls |-> nativeFailed[c]]
  /\ \A c \in NativeCalls : Holds(c, nativeAt[c], nativeHeld[c], undoing[c], nativeFailed[c])

LEMMA NativeCardinality == ASSUME NEW S PROVE Native!Cardinality(S) = Cardinality(S)
BY DEF Native!Cardinality, Cardinality

LEMMA AmongNothing == Among(<<>>) = {}
BY DEF Among

(* The parts of a call are different ones.                                           *)
LEMMA PartsDiffer ==
  ASSUME NEW c \in NativeKinds
  PROVE  /\ Len(Native!PartsOf(c)) \in Nat
         /\ \A i, j \in 1 .. Len(Native!PartsOf(c)) : Native!PartsOf(c)[i] = Native!PartsOf(c)[j] => i = j
<1>1. CASE c = "session"
  BY <1>1 DEF Native!PartsOf, Native!SessionParts
<1>2. CASE c = "service"
  BY <1>2 DEF Native!PartsOf, Native!ServiceParts
<1>3. CASE c = "regist"
  BY <1>3 DEF Native!PartsOf, Native!RegistParts
<1>4. CASE c = "ping"
  BY <1>4 DEF Native!PartsOf, Native!PingParts
<1>5. CASE c = "cloud"
  BY <1>5 DEF Native!PartsOf, Native!CloudParts
<1> QED BY <1>1, <1>2, <1>3, <1>4, <1>5 DEF NativeKinds

LEMMA TakesNext ==
  ASSUME NEW c \in NativeKinds, NEW has, Taking(c, has), Cardinality(has) < Len(Native!PartsOf(c))
  PROVE  Taking(c, has \cup {Native!PartsOf(c)[Cardinality(has) + 1]})
<1> DEFINE parts == Native!PartsOf(c)  n == Cardinality(has)  part1 == parts[n + 1]
<1>1. n \in Nat /\ IsFiniteSet(has) /\ has = {parts[i] : i \in 1 .. n}
  BY DEF Taking
<1>2. n < Len(parts) /\ Len(parts) \in Nat /\ \A i, j \in 1 .. Len(parts) : parts[i] = parts[j] => i = j
  BY PartsDiffer
<1> HIDE DEF parts
<1>3. part1 \notin has
  <2>1. n + 1 \in 1 .. Len(parts) /\ \A i \in 1 .. n : i \in 1 .. Len(parts) /\ i # n + 1
    BY <1>1, <1>2
  <2> HIDE DEF n
  <2> QED BY <1>1, <1>2, <2>1
<1>4. IsFiniteSet(has \cup {part1}) /\ Cardinality(has \cup {part1}) = n + 1
  BY <1>1, <1>3, FS_AddElement
<1>5. has \cup {part1} = {parts[i] : i \in 1 .. (n + 1)}
  BY <1>1
<1>6. n + 1 \in 0 .. Len(parts)
  <2> HIDE DEF n
  <2> QED BY <1>1, <1>2
<1> QED BY <1>4, <1>5, <1>6 DEF Taking, parts

(* What a call holds that has all it needs.                                          *)
LEMMA AllHeld ==
  ASSUME NEW c \in NativeKinds, NEW has, Taking(c, has), Cardinality(has) = Len(Native!PartsOf(c))
  PROVE  /\ c # "ping" => has = Remains(c) \cup Among(Native!Returned(c))
         /\ c = "ping" => has \subseteq Among(Native!Returned(c)) /\ Native!Returned(c) \in Seq(NativeParts)
<1>1. has = Among(Native!PartsOf(c))
  BY DEF Taking, Among
<1>2. CASE c = "session"
  BY <1>1, <1>2 DEF Native!PartsOf, Native!SessionParts, Native!Returned, Remains, Among
<1>3. CASE c = "service"
  BY <1>1, <1>3 DEF Native!PartsOf, Native!ServiceParts, Native!Returned, Remains, Among
<1>4. CASE c = "regist"
  BY <1>1, <1>4 DEF Native!PartsOf, Native!RegistParts, Native!Returned, Remains, Among
<1>5. CASE c = "ping"
  BY <1>1, <1>5 DEF Native!PartsOf, Native!PingParts, Native!Returned, Among, NativeParts
<1>6. CASE c = "cloud"
  BY <1>1, <1>6 DEF Native!PartsOf, Native!CloudParts, Native!Returned, Remains, Among
<1> QED BY <1>2, <1>3, <1>4, <1>5, <1>6 DEF NativeKinds

(* Where a call fails, its error path gives back what it holds, and it did not get the library. *)
LEMMA FailureUndone ==
  ASSUME NEW c \in NativeKinds, NEW has, Taking(c, has), Cardinality(has) < Len(Native!PartsOf(c)),
         NEW fail, fail = Native!PartsOf(c)[Cardinality(has) + 1], fail \in Native!MayFail(c)
  PROVE  fail # "none" /\ Native!Undone(c, has) \in Seq(NativeParts) /\ GivingBack(c, has, Native!Undone(c, has), fail)
<1> DEFINE n == Cardinality(has)
<1>1. n \in Nat /\ has = {Native!PartsOf(c)[i] : i \in 1 .. n}
  BY DEF Taking
<1> HIDE DEF n
<1>2. CASE c = "session"
  <2>1. n \in 0 .. 6
    BY <1>1, <1>2 DEF n, Native!PartsOf, Native!SessionParts, Native!MayFail
  <2>2. has \subseteq {"log", "host", "object", "decoder", "audio", "output"}
    BY <1>1, <1>2, <2>1 DEF Native!PartsOf, Native!SessionParts
  <2>3. Native!Undone(c, has) = <<"decoder", "audio", "output", "object", "log", "host">>
    BY <1>2 DEF Native!Undone, Native!SessionUndone
  <2>4. Native!Undone(c, has) \in Seq(NativeParts)
    BY <2>3 DEF NativeParts
  <2>5. has \subseteq Among(Native!Undone(c, has))
    BY <2>2, <2>3 DEF Among
  <2>6. fail # "none" /\ "core" \notin has /\ Leaves(c, fail) = {}
    BY <1>2, <2>2 DEF Leaves, Native!MayFail, Native!ToSet, Native!PartsOf, Native!SessionParts
  <2> QED BY <2>4, <2>5, <2>6 DEF GivingBack
<1>3. CASE c = "service"
  <2>1. n \in {0, 1, 3}
    BY <1>1, <1>3 DEF n, Native!PartsOf, Native!ServiceParts, Native!MayFail
  <2>2. has = IF n = 0 THEN {} ELSE IF n = 1 THEN {"object"} ELSE {"object", "address", "refs"}
    BY <1>1, <1>3, <2>1 DEF Native!PartsOf, Native!ServiceParts
  <2>3. fail = IF n = 0 THEN "object" ELSE IF n = 1 THEN "address" ELSE "core"
    BY <1>3, <2>1 DEF n, Native!PartsOf, Native!ServiceParts
  <2>4. Native!Undone(c, has) = IF n = 3 THEN <<"refs", "object", "address">> ELSE <<>>
    BY <1>3, <2>1, <2>2 DEF Native!Undone, Native!ServiceUndone
  <2>5. <<"refs", "object", "address">> \in Seq(NativeParts) /\ <<>> \in Seq(NativeParts)
    BY DEF NativeParts
  <2>6. CASE n = 3
    <3>1. /\ has = {"object", "address", "refs"} /\ fail = "core" /\ Native!Undone(c, has) = <<"refs", "object", "address">>
      BY <2>2, <2>3, <2>4, <2>6
    <3>2. has \subseteq Among(Native!Undone(c, has)) /\ Leaves(c, fail) = {} /\ "core" \notin has
      BY <1>3, <3>1 DEF Among, Leaves
    <3> QED BY <2>5, <3>1, <3>2 DEF GivingBack
  <2>7. CASE n # 3
    BY <1>3, <2>1, <2>2, <2>3, <2>4, <2>5, <2>7, AmongNothing DEF GivingBack, Leaves
  <2> QED BY <2>6, <2>7
<1>4. CASE c = "regist"
  <2>1. n \in {0, 3}
    BY <1>1, <1>4 DEF n, Native!PartsOf, Native!RegistParts, Native!MayFail
  <2>2. has \subseteq {"object", "refs", "strings"}
    BY <1>1, <1>4, <2>1 DEF Native!PartsOf, Native!RegistParts
  <2>3. Native!Undone(c, has) = <<"strings", "refs", "object">>
    BY <1>4 DEF Native!Undone, Native!RegistUndone
  <2>4. Native!Undone(c, has) \in Seq(NativeParts)
    BY <2>3 DEF NativeParts
  <2>5. has \subseteq Among(Native!Undone(c, has))
    BY <2>2, <2>3 DEF Among
  <2>6. fail # "none" /\ "core" \notin has /\ Leaves(c, fail) = {}
    BY <1>4, <2>2 DEF Leaves, Native!MayFail, Native!ToSet, Native!PartsOf, Native!RegistParts
  <2> QED BY <2>4, <2>5, <2>6 DEF GivingBack
<1>5. CASE c = "ping"
  <2>1. n \in 0 .. 4
    BY <1>1, <1>5 DEF n, Native!PartsOf, Native!PingParts
  <2>2. has \subseteq {"strings", "address", "object", "core"}
    BY <1>1, <1>5, <2>1 DEF Native!PartsOf, Native!PingParts
  <2>3. Native!Undone(c, has) = <<"core", "address", "object", "strings">>
    BY <1>5 DEF Native!Undone, Native!PingUndone
  <2>4. Native!Undone(c, has) \in Seq(NativeParts)
    BY <2>3 DEF NativeParts
  <2>5. has \subseteq Among(Native!Undone(c, has))
    BY <2>2, <2>3 DEF Among
  <2>6. fail # "none" /\ Leaves(c, fail) = {}
    BY <1>5 DEF Leaves, Native!MayFail, Native!ToSet, Native!PartsOf, Native!PingParts
  <2> QED BY <1>5, <2>4, <2>5, <2>6 DEF GivingBack
<1>6. CASE c = "cloud"
  <2>1. n \in 0 .. 7
    BY <1>1, <1>6 DEF n, Native!PartsOf, Native!CloudParts, Native!MayFail
  <2>2. has \subseteq {"log", "host", "copies", "object", "decoder", "audio", "output"}
    BY <1>1, <1>6, <2>1 DEF Native!PartsOf, Native!CloudParts
  <2>3. Native!Undone(c, has) = <<"decoder", "audio", "output", "object", "log", "host">>
    BY <1>6 DEF Native!Undone, Native!SessionUndone
  <2>4. Native!Undone(c, has) \in Seq(NativeParts)
    BY <2>3 DEF NativeParts
  <2>5. has \subseteq {"copies"} \cup Among(Native!Undone(c, has))
    BY <2>2, <2>3 DEF Among
  <2>6. fail # "none" /\ "core" \notin has /\ Leaves(c, fail) = {"copies"}
    BY <1>6, <2>2 DEF Leaves, Native!MayFail, Native!ToSet, Native!PartsOf, Native!CloudParts
  <2> QED BY <2>4, <2>5, <2>6 DEF GivingBack
<1> QED BY <1>2, <1>3, <1>4, <1>5, <1>6 DEF NativeKinds

(* One part given back.                                                           *)
LEMMA GivesOne ==
  ASSUME NEW c \in NativeKinds, NEW where, NEW has, NEW rest, NEW fail, rest # <<>>, Holds(c, where, has, rest, fail)
  PROVE  Holds(c, where, has \ {Head(rest)}, Tail(rest), fail)
<1>1. CASE where = "undoing" /\ rest \in Seq(NativeParts) /\ GivingBack(c, has, rest, fail)
  <2>1. Tail(rest) \in Seq(NativeParts) /\ Among(rest) = {Head(rest)} \cup Among(Tail(rest))
    BY <1>1 DEF Among
  <2>2. c # "ping" /\ "core" \in has => Head(rest) = "core"
    <3>1. c # "ping" => Native!Freed(c)[1] = "core" /\ Native!Freed(c) # <<>>
      BY DEF NativeKinds, Native!Freed, Native!SessionFreed, Native!ServiceFreed, Native!RegistFreed
    <3> QED BY <1>1, <3>1 DEF GivingBack
  <2>3. GivingBack(c, has \ {Head(rest)}, Tail(rest), fail)
    BY <1>1, <2>1, <2>2 DEF GivingBack
  <2> QED BY <1>1, <2>1, <2>3 DEF Holds
<1>2. CASE where = "returning" /\ fail = "none" /\ c # "ping" /\ has = Remains(c) \cup Among(rest) /\ rest = Native!Returned(c)
  <2>1. PICK one \in {"host", "address", "strings"} : rest = <<one>> /\ one \notin Remains(c)
    BY <1>2 DEF NativeKinds, Native!Returned, Remains
  <2>2. Tail(rest) = <<>> /\ Head(rest) = one /\ Among(rest) = {one}
    BY <2>1 DEF Among
  <2> QED BY <1>2, <2>1, <2>2, AmongNothing DEF Holds
<1> QED BY <1>1, <1>2 DEF Holds

(* What a call does leaves the others as they are.                                 *)
LEMMA OneCall ==
  ASSUME NativeInv, NEW c \in NativeCalls, NEW a, NEW h, NEW u, NEW f, Holds(c, a, h, u, f),
         nativeAt' = [nativeAt EXCEPT ![c] = a], nativeHeld' = [nativeHeld EXCEPT ![c] = h],
         undoing' = [undoing EXCEPT ![c] = u], nativeFailed' = [nativeFailed EXCEPT ![c] = f]
  PROVE  NativeInv'
<1>1. \A d \in NativeCalls : Holds(d, nativeAt'[d], nativeHeld'[d], undoing'[d], nativeFailed'[d])
  <2> TAKE d \in NativeCalls
  <2>1. CASE d = c
    BY <2>1 DEF NativeInv
  <2>2. CASE d # c
    BY <2>2 DEF NativeInv
  <2> QED BY <2>1, <2>2
<1> QED BY <1>1 DEF NativeInv

LEMMA NativeStarts == ASSUME NativeAssumption, Native!Init \/ Native!AtRest PROVE NativeInv
<1>1. /\ nativeAt = [c \in NativeCalls |-> "idle"] /\ nativeHeld = [c \in NativeCalls |-> {}]
      /\ undoing = [c \in NativeCalls |-> <<>>] /\ nativeFailed = [c \in NativeCalls |-> "none"]
  BY DEF Native!Init, Native!AtRest, Native!Start
<1> QED BY <1>1 DEF NativeInv, Holds

LEMMA NativeStepKeeps ==
  ASSUME NativeAssumption, NativeInv, Native!NativeNext
  PROVE  NativeInv'
<1>1. PICK c \in NativeCalls :
        \/ Native!Creates(c) \/ Native!Takes(c) \/ Native!Fails(c) \/ Native!Completes(c) \/ Native!GivesBack(c)
        \/ Native!Ends(c) \/ Native!SessionStart(c) \/ Native!SessionJoin(c) \/ Native!Frees(c)
  BY DEF Native!NativeNext
<1>2. c \in NativeKinds
  BY DEF NativeAssumption, NativeKinds
<1> DEFINE a == nativeAt[c]  h == nativeHeld[c]  u == undoing[c]  f == nativeFailed[c]
<1>3. Holds(c, a, h, u, f)
  BY DEF NativeInv
<1>4. /\ nativeAt = [nativeAt EXCEPT ![c] = a] /\ nativeHeld = [nativeHeld EXCEPT ![c] = h]
      /\ undoing = [undoing EXCEPT ![c] = u] /\ nativeFailed = [nativeFailed EXCEPT ![c] = f]
  BY DEF NativeInv
<1>5. CASE Native!Creates(c)
  <2>1. /\ a = "idle" /\ nativeHeld' = [nativeHeld EXCEPT ![c] = {}] /\ nativeAt' = [nativeAt EXCEPT ![c] = "taking"]
        /\ nativeFailed' = [nativeFailed EXCEPT ![c] = "none"] /\ undoing' = undoing
    BY <1>5 DEF Native!Creates
  <2>2. u = <<>>
    BY <1>3, <2>1 DEF Holds
  <2>3. Taking(c, {})
    <3>1. {} = {Native!PartsOf(c)[i] : i \in 1 .. 0} /\ 0 \in 0 .. Len(Native!PartsOf(c))
      BY <1>2, PartsDiffer
    <3> QED BY <3>1, FS_EmptySet DEF Taking
  <2>4. Holds(c, "taking", {}, u, "none")
    BY <2>2, <2>3 DEF Holds
  <2> QED BY <1>4, <2>1, <2>4, OneCall
<1>6. CASE Native!Takes(c)
  <2>1. /\ a = "taking" /\ Cardinality(h) < Len(Native!PartsOf(c)) 
        /\ nativeAt' = nativeAt /\ undoing' = undoing /\ nativeFailed' = nativeFailed
        /\ nativeHeld' = [nativeHeld EXCEPT ![c] = h \cup {Native!PartsOf(c)[Cardinality(h) + 1]}]
    BY <1>6, NativeCardinality DEF Native!Takes, Native!NextPart
  <2>2. u = <<>> /\ f = "none" /\ Taking(c, h)
    BY <1>3, <2>1 DEF Holds
  <2>3. Holds(c, a, h \cup {Native!PartsOf(c)[Cardinality(h) + 1]}, u, f)
    <3>1. Taking(c, h \cup {Native!PartsOf(c)[Cardinality(h) + 1]})
      BY <1>2, <2>1, <2>2, TakesNext
    <3> QED BY <2>1, <2>2, <3>1 DEF Holds
  <2>4. /\ nativeAt' = [nativeAt EXCEPT ![c] = a] /\ undoing' = [undoing EXCEPT ![c] = u]
        /\ nativeFailed' = [nativeFailed EXCEPT ![c] = f]
    BY <1>4, <2>1
  <2>5. nativeHeld' = [nativeHeld EXCEPT ![c] = h \cup {Native!PartsOf(c)[Cardinality(h) + 1]}]
    BY <2>1
  <2> QED BY <2>3, <2>4, <2>5, OneCall
<1>7. CASE Native!Fails(c)
  <2>1. PICK part1 : part1 = Native!PartsOf(c)[Cardinality(h) + 1]
    OBVIOUS
  <2>2. /\ a = "taking" /\ Cardinality(h) < Len(Native!PartsOf(c)) /\ nativeHeld' = nativeHeld
        /\ part1 \in Native!MayFail(c) /\ nativeFailed' = [nativeFailed EXCEPT ![c] = part1]
        /\ undoing' = [undoing EXCEPT ![c] = Native!Undone(c, h)] /\ nativeAt' = [nativeAt EXCEPT ![c] = "undoing"]
    BY <1>7, <2>1, NativeCardinality DEF Native!Fails, Native!NextPart
  <2>3. Taking(c, h)
    BY <1>3, <2>2 DEF Holds
  <2>4. Holds(c, "undoing", h, Native!Undone(c, h), part1)
    BY <1>2, <2>1, <2>2, <2>3, FailureUndone DEF Holds
  <2> QED BY <1>4, <2>2, <2>4, OneCall
<1>8. CASE Native!Completes(c)
  <2>1. PICK to : to = IF c = "ping" THEN "undoing" ELSE "returning"
    OBVIOUS
  <2>2. /\ a = "taking" /\ Cardinality(h) = Len(Native!PartsOf(c)) /\ UNCHANGED <<nativeHeld, nativeFailed>>
        /\ undoing' = [undoing EXCEPT ![c] = Native!Returned(c)] /\ nativeAt' = [nativeAt EXCEPT ![c] = to]
    BY <1>8, <2>1, NativeCardinality DEF Native!Completes
  <2>3. f = "none" /\ Taking(c, h)
    BY <1>3, <2>2 DEF Holds
  <2>4. Holds(c, to, h, Native!Returned(c), f)
    BY <1>2, <2>1, <2>2, <2>3, AllHeld DEF Holds, GivingBack
  <2> QED BY <1>4, <2>2, <2>4, OneCall
<1>9. CASE Native!GivesBack(c)
  <2>1. /\ u # <<>> /\ UNCHANGED <<nativeAt, nativeFailed>>
        /\ nativeHeld' = [nativeHeld EXCEPT ![c] = h \ {Head(u)}] /\ undoing' = [undoing EXCEPT ![c] = Tail(u)]
    BY <1>9 DEF Native!GivesBack
  <2>2. Holds(c, a, h \ {Head(u)}, Tail(u), f)
    BY <1>2, <1>3, <2>1, GivesOne
  <2> QED BY <1>4, <2>1, <2>2, OneCall
<1>10. CASE Native!Ends(c)
  <2>1. PICK to : to = IF a = "undoing" THEN "idle" ELSE "ready"
    OBVIOUS
  <2>2. /\ u = <<>> /\ a \in {"undoing", "returning"} 
        /\ nativeHeld' = nativeHeld /\ undoing' = undoing /\ nativeFailed' = nativeFailed /\ nativeAt' = [nativeAt EXCEPT ![c] = to]
    BY <1>10, <2>1 DEF Native!Ends
  <2>3. Holds(c, to, h, u, f)
    <3> HIDE DEF a, h, u, f
    <3>1. CASE a = "undoing"
      <4>1. h \subseteq Leaves(c, f)
        BY <1>3, <2>2, <3>1, AmongNothing DEF Holds, GivingBack
      <4> QED BY <2>1, <2>2, <3>1, <4>1 DEF Holds
    <3>2. CASE a = "returning"
      <4>1. f = "none" /\ c # "ping" /\ h = Remains(c)
        BY <1>3, <2>2, <3>2, AmongNothing DEF Holds
      <4> QED BY <2>1, <2>2, <3>2, <4>1 DEF Holds
    <3> QED BY <2>2, <3>1, <3>2
  <2>4. /\ nativeHeld' = [nativeHeld EXCEPT ![c] = h] /\ undoing' = [undoing EXCEPT ![c] = u]
        /\ nativeFailed' = [nativeFailed EXCEPT ![c] = f]
    BY <1>4, <2>2
  <2>5. nativeAt' = [nativeAt EXCEPT ![c] = to]
    BY <2>2
  <2> QED BY <2>3, <2>4, <2>5, OneCall
<1>11. CASE Native!SessionStart(c) \/ Native!SessionJoin(c)
  <2>1. PICK to \in {"ready", "running"} :
          /\ a \in {"ready", "running"} /\ (to = "running" => c \in {"session", "cloud"}) /\ nativeAt' = [nativeAt EXCEPT ![c] = to]
    BY <1>11 DEF Native!SessionStart, Native!SessionJoin
  <2>2. nativeHeld' = nativeHeld /\ undoing' = undoing /\ nativeFailed' = nativeFailed
    BY <1>11 DEF Native!SessionStart, Native!SessionJoin
  <2>3. Holds(c, to, h, u, f)
    <3> HIDE DEF a, h, u, f
    <3>1. f = "none" /\ c # "ping" /\ h = Remains(c) /\ u = <<>>
      BY <1>3, <2>1 DEF Holds
    <3> QED BY <2>1, <3>1 DEF Holds
  <2>4. /\ nativeHeld' = [nativeHeld EXCEPT ![c] = h] /\ undoing' = [undoing EXCEPT ![c] = u]
        /\ nativeFailed' = [nativeFailed EXCEPT ![c] = f]
    BY <1>4, <2>2
  <2> QED BY <2>1, <2>3, <2>4, OneCall
<1>12. CASE Native!Frees(c)
  <2>1. /\ a = "ready" /\ UNCHANGED <<nativeHeld, nativeFailed>>
        /\ undoing' = [undoing EXCEPT ![c] = Native!Freed(c)] /\ nativeAt' = [nativeAt EXCEPT ![c] = "undoing"]
    BY <1>12 DEF Native!Frees
  <2>2. f = "none" /\ c # "ping" /\ h = Remains(c)
    BY <1>3, <2>1 DEF Holds
  <2>3. Native!Freed(c) \in Seq(NativeParts) /\ h \subseteq Leaves(c, f) \cup Among(Native!Freed(c))
    <3>1. CASE c = "session"
      BY <2>2, <3>1 DEF Remains, Among, NativeParts, Native!Freed, Native!SessionFreed
    <3>2. CASE c = "service"
      BY <2>2, <3>2 DEF Remains, Among, NativeParts, Native!Freed, Native!ServiceFreed
    <3>3. CASE c = "regist"
      BY <2>2, <3>3 DEF Remains, Among, NativeParts, Native!Freed, Native!RegistFreed
    <3>4. CASE c = "cloud"
      BY <2>2, <3>4 DEF Remains, Among, NativeParts, Leaves, Native!Freed, Native!SessionFreed
    <3> QED BY <1>2, <2>2, <3>1, <3>2, <3>3, <3>4 DEF NativeKinds
  <2>4. Holds(c, "undoing", h, Native!Freed(c), f)
    BY <2>2, <2>3 DEF Holds, GivingBack
  <2> QED BY <1>4, <2>1, <2>4, OneCall
<1> QED BY <1>1, <1>5, <1>6, <1>7, <1>8, <1>9, <1>10, <1>11, <1>12

LEMMA NativeKeeps == ASSUME NativeAssumption, NativeInv, [Native!NativeNext]_nativeVars PROVE NativeInv'
<1>1. CASE UNCHANGED nativeVars
  BY <1>1 DEF nativeVars, NativeInv
<1> QED BY <1>1, NativeStepKeeps

(* What a call that has the library holds.                                             *)
LEMMA LibraryHasAll ==
  ASSUME NEW c \in NativeKinds, NEW has, Taking(c, has), "core" \in has
  PROVE  Native!Used(c) \subseteq has \/ c \in {"session", "cloud"}
<1>1. PICK n \in 0 .. Len(Native!PartsOf(c)) : has = {Native!PartsOf(c)[i] : i \in 1 .. n}
  BY DEF Taking
<1>2. CASE c = "service"
  BY <1>1, <1>2 DEF Native!PartsOf, Native!ServiceParts, Native!Used, Native!HostsUse
<1>3. CASE c = "regist"
  BY <1>1, <1>3 DEF Native!PartsOf, Native!RegistParts, Native!Used, Native!ResultUses
<1>4. CASE c = "ping"
  BY <1>1, <1>4 DEF Native!PartsOf, Native!PingParts, Native!Used
<1> QED BY <1>2, <1>3, <1>4 DEF NativeKinds

LEMMA RemainsUsed == ASSUME NEW c \in NativeKinds, c # "ping" PROVE Native!Used(c) \subseteq Remains(c)
BY DEF NativeKinds, Remains, Native!Used, Native!EventUses, Native!SampleUses, Native!HostsUse,
       Native!ResultUses

LEMMA NativeImplied == ASSUME NativeAssumption, NativeInv PROVE Native!NativeIsSound
<1> SUFFICES ASSUME NEW c \in NativeCalls
             PROVE  /\ Native!Running(c) => Native!Used(c) \subseteq nativeHeld[c]
                    /\ nativeAt[c] = "undoing" /\ nativeFailed[c] = "none" /\ c # "ping" /\ "core" \in nativeHeld[c]
                         => Native!Used(c) \subseteq nativeHeld[c]
                    /\ nativeAt[c] = "idle" => nativeHeld[c] \subseteq Leaves(c, nativeFailed[c])
  <2>1. \A c \in NativeCalls : Native!LeftBehind(c) = Leaves(c, nativeFailed[c])
    BY DEF Leaves, Native!LeftBehind
  <2> QED BY <2>1 DEF Native!NativeIsSound
<1>1. c \in NativeKinds
  BY DEF NativeAssumption, NativeKinds
<1>2. Holds(c, nativeAt[c], nativeHeld[c], undoing[c], nativeFailed[c])
  BY DEF NativeInv
<1>3. CASE nativeAt[c] = "idle"
  <2>1. nativeHeld[c] \subseteq Leaves(c, nativeFailed[c]) /\ "core" \notin nativeHeld[c]
    BY <1>2, <1>3 DEF Holds, Leaves
  <2> QED BY <1>1, <1>3, <2>1 DEF Native!Running, NativeKinds
<1>4. CASE nativeAt[c] = "taking"
  BY <1>1, <1>2, <1>4, LibraryHasAll DEF Holds, Native!Running, NativeKinds
<1>5. CASE nativeAt[c] \in {"returning", "ready", "running"}
  BY <1>1, <1>2, <1>5, RemainsUsed DEF Holds
<1>6. CASE nativeAt[c] = "undoing"
  <2>1. c # "ping" /\ "core" \in nativeHeld[c] => nativeHeld[c] = Remains(c)
    BY <1>2, <1>6 DEF Holds, GivingBack
  <2> QED BY <1>1, <1>6, <2>1, RemainsUsed DEF Native!Running, NativeKinds
<1> QED BY <1>2, <1>3, <1>4, <1>5, <1>6 DEF Holds

(* What the native side holds is given back, and last what its threads call back with. Left  *)
(* behind are the object of a discovery service with an invalid address and the copies of    *)
(* the strings of a session in the cloud.                                              *)
THEOREM PartsAreGivenBack == MCSpec => []Native!NativeIsSound
<1> USE NativeAssumption
<1>1. MCInit => NativeInv
  BY NativeStarts DEF MCInit
<1>2. NativeInv /\ [MCNext]_<<part, pacingVars, cloudVars, catalogVars, backVars, hostVars, syncVars, ctlVars, outVars, sendVars, videoVars, audioVars, nativeVars, appVars>> => NativeInv'
  <2>1. [MCNext]_<<part, pacingVars, cloudVars, catalogVars, backVars, hostVars, syncVars, ctlVars, outVars, sendVars, videoVars, audioVars, nativeVars, appVars>> => [Native!NativeNext]_nativeVars
    BY DEF MCNext
  <2> QED BY <2>1, NativeKeeps
<1>3. NativeInv => Native!NativeIsSound
  BY NativeImplied
<1> QED BY <1>1, <1>2, <1>3, PTL DEF MCSpec

-----------------------------------------------------------------------------
(* The chunks of sound that go round between the decoder and the audio device.            *)

LEMMA AudioDivision ==
  ASSUME NEW M \in Nat \ {0}, NEW k \in Nat
  PROVE  k \div M \in Int /\ k % M \in 0 .. (M - 1) /\ k = (k \div M) * M + (k % M)
BY SMT

(* Within a round places differ, and the next place follows.                              *)
LEMMA RoundsDiffer ==
  ASSUME NEW M \in Nat \ {0}, NEW j \in Nat, NEW k \in Nat, j - k \in 1 .. (M - 1) PROVE j % M # k % M
<1> DEFINE q == j \div M  h == k \div M  r == j % M  s == k % M
<1>1. q \in Int /\ h \in Int /\ r \in Int /\ s \in Int /\ j = q * M + r /\ k = h * M + s
  BY AudioDivision
<1> HIDE DEF q, h, r, s
<1>2. r = s => (q - h) * M \in 1 .. (M - 1)
  <2>1. (q - h) * M = q * M - h * M /\ q * M \in Int /\ h * M \in Int
    BY <1>1
  <2> QED BY <1>1, <2>1
<1>3. CASE q - h >= 1
  <2>1. (q - h - 1) * M >= 0 /\ (q - h - 1) * M = (q - h) * M - M /\ (q - h) * M \in Int
    BY <1>1, <1>3
  <2> QED BY <1>2, <2>1 DEF r, s
<1>4. CASE q - h <= 0
  <2>1. (h - q) * M >= 0 /\ (h - q) * M = -((q - h) * M) /\ (q - h) * M \in Int
    BY <1>1, <1>4
  <2> QED BY <1>2, <2>1 DEF r, s
<1> QED BY <1>1, <1>3, <1>4

LEMMA RoundsGoOn ==
  ASSUME NEW M \in Nat \ {0}, NEW k \in Nat
  PROVE  ((k % M) + 1) % M = (k + 1) % M
<1> DEFINE q == k \div M  r == k % M  l == r + 1  h == l \div M  s == l % M  m == k + 1  g == m \div M  x == m % M
<1>1. q \in Int /\ r \in 0 .. (M - 1) /\ k = q * M + r
  BY AudioDivision
<1>2. h \in Int /\ s \in 0 .. (M - 1) /\ l = h * M + s
  <2>1. l \in Nat
    BY <1>1
  <2> HIDE DEF l
  <2> QED BY <2>1, AudioDivision
<1>3. g \in Int /\ x \in 0 .. (M - 1) /\ m = g * M + x
  <2>1. m \in Nat
    OBVIOUS
  <2> HIDE DEF m
  <2> QED BY <2>1, AudioDivision
<1>4. l = r + 1 /\ m = k + 1
  OBVIOUS
<1> HIDE DEF q, r, l, h, s, m, g, x
<1>5. (g - q - h) * M = s - x
  <2>1. (g - q - h) * M = g * M - q * M - h * M /\ g * M \in Int /\ q * M \in Int /\ h * M \in Int
    BY <1>1, <1>2, <1>3
  <2> QED BY <1>1, <1>2, <1>3, <1>4, <2>1
<1>6. CASE g - q - h = 0
  BY <1>2, <1>3, <1>5, <1>6 DEF s, l, r, x, m
<1>7. CASE g - q - h >= 1
  <2>1. (g - q - h - 1) * M >= 0 /\ (g - q - h - 1) * M = (g - q - h) * M - M
    BY <1>1, <1>2, <1>3, <1>7
  <2> QED BY <1>2, <1>3, <1>5, <2>1
<1>8. CASE g - q - h <= -1
  <2>1. (q + h - g - 1) * M >= 0 /\ (q + h - g - 1) * M = -((g - q - h) * M) - M
    BY <1>1, <1>2, <1>3, <1>8
  <2> QED BY <1>2, <1>3, <1>5, <2>1
<1> QED BY <1>1, <1>2, <1>3, <1>6, <1>7, <1>8

Slot(k) == k % (ChunksCount + 1)
Chunk(k) == k % ChunksCount
Bytes(k) == k * ChunkSize

LEMMA SlotsAre ==
  ASSUME AudioAssumption
  PROVE  /\ \A k \in Nat : Slot(k) \in Audio!Slots /\ Audio!Increment(Slot(k)) = Slot(k + 1)
         /\ \A j, k \in Nat : j - k \in 1 .. ChunksCount => Slot(j) # Slot(k)
<1>1. ChunksCount + 1 \in Nat \ {0} /\ (ChunksCount + 1) - 1 = ChunksCount
  BY DEF AudioAssumption
<1>2. \A k \in Nat : Slot(k) \in Audio!Slots
  BY <1>1, AudioDivision DEF Slot, Audio!Slots
<1>3. \A k \in Nat : Audio!Increment(Slot(k)) = Slot(k + 1)
  BY <1>1, RoundsGoOn DEF Slot, Audio!Increment
<1>4. \A j, k \in Nat : j - k \in 1 .. ChunksCount => Slot(j) # Slot(k)
  BY <1>1, RoundsDiffer DEF Slot
<1> QED BY <1>2, <1>3, <1>4

LEMMA ChunksAre ==
  ASSUME AudioAssumption
  PROVE  /\ \A k \in Nat : Chunk(k) \in Audio!Chunks /\ Chunk(k) # Audio!NoChunk
         /\ \A j, k \in Nat : j - k \in 1 .. (ChunksCount - 1) => Chunk(j) # Chunk(k)
         /\ \A k \in Nat : Chunk(k + ChunksCount) = Chunk(k)
         /\ \A k \in Nat : Bytes(k) \in Nat /\ Bytes(k + 1) = Bytes(k) + ChunkSize
<1>1. \A k \in Nat : Chunk(k) \in Audio!Chunks /\ Chunk(k) # Audio!NoChunk
  BY AudioDivision DEF AudioAssumption, Chunk, Audio!Chunks, Audio!NoChunk
<1>2. \A j, k \in Nat : j - k \in 1 .. (ChunksCount - 1) => Chunk(j) # Chunk(k)
  BY RoundsDiffer DEF AudioAssumption, Chunk
<1>3. \A k \in Nat : Bytes(k) \in Nat /\ Bytes(k + 1) = Bytes(k) + ChunkSize
  BY DEF AudioAssumption, Bytes
<1>4. ASSUME NEW k \in Nat PROVE Chunk(k + ChunksCount) = Chunk(k)
  <2> DEFINE j == k + ChunksCount  q == j \div ChunksCount  h == k \div ChunksCount  r == Chunk(j)  s == Chunk(k)
  <2>1. ChunksCount \in Nat \ {0} /\ j \in Nat /\ j - k = ChunksCount
    BY DEF AudioAssumption
  <2> HIDE DEF j
  <2>2. /\ q \in Int /\ h \in Int /\ r \in 0 .. (ChunksCount - 1) /\ s \in 0 .. (ChunksCount - 1)
        /\ j = q * ChunksCount + r /\ k = h * ChunksCount + s
    BY <2>1, AudioDivision DEF Chunk
  <2> HIDE DEF q, h, r, s
  <2>3. (q - h - 1) * ChunksCount = s - r
    <3>1. (q - h - 1) * ChunksCount = q * ChunksCount - h * ChunksCount - ChunksCount /\ q * ChunksCount \in Int /\ h * ChunksCount \in Int
      BY <2>1, <2>2
    <3> QED BY <2>1, <2>2, <3>1
  <2>4. CASE q - h - 1 = 0
    BY <2>1, <2>2, <2>3, <2>4 DEF r, s, j
  <2>5. CASE q - h - 1 >= 1
    <3>1. (q - h - 2) * ChunksCount >= 0 /\ (q - h - 2) * ChunksCount = (q - h - 1) * ChunksCount - ChunksCount
      BY <2>1, <2>2, <2>5
    <3> QED BY <2>1, <2>2, <2>3, <3>1
  <2>6. CASE q - h - 1 <= -1
    <3>1. (h - q) * ChunksCount >= 0 /\ (h - q) * ChunksCount = -((q - h - 1) * ChunksCount) - ChunksCount
      BY <2>1, <2>2, <2>6
    <3> QED BY <2>1, <2>2, <2>3, <3>1
  <2> QED BY <2>2, <2>4, <2>5, <2>6
<1> QED BY <1>1, <1>2, <1>3, <1>4

-----------------------------------------------------------------------------
(* Of the chunks, numbered from the first, the decoder has put those before g into the queue  *)
(* of full ones, and the device taken those before u and given back those before r, as the   *)
(* decoder those before t + 1 of the ones given back; what is in the queues lies between.      *)
Counts(g, t, u, r) ==
  /\ r <= u /\ u <= g /\ t \in {g - 1, g} /\ t <= ChunksCount - 1 + r /\ u \in {r, r + 1}
  /\ producer.at = "take" => t < ChunksCount - 1 + r
  /\ tail = [full |-> Slot(g), free |-> Slot(ChunksCount - 1 + r)] /\ head = [full |-> Slot(u), free |-> Slot(t)]
Filling(g, t) ==
  /\ producer = [at |-> producer.at, chunk |-> producer.chunk, size |-> producer.size]
  /\ producer.at \in {"idle", "take", "give", "given"} /\ producer.size \in 0 .. ChunkSize
  /\ pushed = Bytes(g) + producer.size
  /\ producer.chunk \in {Chunk(g), Audio!NoChunk} /\ (producer.chunk = Audio!NoChunk => producer.at = "idle")
  /\ IF producer.at = "take" \/ producer.chunk = Audio!NoChunk THEN t = g - 1 /\ producer.size = 0 ELSE t = g
  /\ producer.at = "idle" => producer.size < ChunkSize
  /\ producer.at \in {"give", "given"} => producer.size = ChunkSize
  /\ producer.at = "given" => array.full[Slot(g)] = Chunk(g)
Playing(g, u, r) ==
  /\ consumer = [at |-> consumer.at, chunk |-> consumer.chunk, left |-> consumer.left]
  /\ consumer.at \in {"idle", "take", "give", "given"} /\ consumer.left \in 0 .. ChunkSize
  /\ consumer.chunk \in {Chunk(r), Audio!NoChunk} /\ (consumer.chunk = Audio!NoChunk => consumer.at = "idle")
  /\ consumer.chunk = Audio!NoChunk => u = r /\ popped = Bytes(r)
  /\ consumer.chunk # Audio!NoChunk => popped = Bytes(r) + ChunkSize - consumer.left
  /\ consumer.at = "take" => u = r /\ r < g /\ consumer.left = ChunkSize
  /\ consumer.at # "take" /\ consumer.chunk # Audio!NoChunk => u = r + 1
  /\ consumer.at = "idle" /\ consumer.chunk # Audio!NoChunk => consumer.left > 0
  /\ consumer.at \in {"give", "given"} => consumer.left = 0
  /\ consumer.at = "given" => array.free[Slot(ChunksCount - 1 + r)] = Chunk(r)
Queued(g, t, u, r) ==
  /\ array = [full |-> array.full, free |-> array.free] /\ DOMAIN array.full = Audio!Slots /\ DOMAIN array.free = Audio!Slots
  /\ \A k \in Nat : u <= k /\ k < g => array.full[Slot(k)] = Chunk(k)
  /\ \A k \in Nat : t <= k /\ k < ChunksCount - 1 + r => array.free[Slot(k)] = Chunk(k + 1)
(* What is in the chunks that were not given back, and in the one that is filled.               *)
Stored(g, r) ==
  /\ DOMAIN memory = Audio!Chunks /\ \A x \in Audio!Chunks : DOMAIN memory[x] = 1 .. ChunkSize
  /\ \A k \in Nat : r <= k /\ k < g => \A b \in 1 .. ChunkSize : memory[Chunk(k)][b] = Bytes(k) + b
  /\ producer.chunk # Audio!NoChunk => \A b \in 1 .. producer.size : memory[Chunk(g)][b] = Bytes(g) + b
AudioAt(g, t, u, r) ==
  Counts(g, t, u, r) /\ Filling(g, t) /\ Playing(g, u, r) /\ Queued(g, t, u, r) /\ Stored(g, r) /\ torn = FALSE
AudioInv == \E g, t, u, r \in Nat : AudioAt(g, t, u, r)

LEMMA AudioStarts == ASSUME AudioAssumption, Audio!Init PROVE AudioInv
<1> DEFINE full == [s \in Audio!Slots |-> ChunksCount]
           free == [s \in Audio!Slots |-> IF s + 1 \in 1 .. (ChunksCount - 1) THEN s + 1 ELSE ChunksCount]
<1>1. Audio!FreeAtFirst = 1 .. (ChunksCount - 1)
  BY DEF AudioAssumption, Audio!FreeAtFirst, Audio!Chunks
<1>2. /\ tail = [full |-> 0, free |-> ChunksCount - 1] /\ head = [full |-> 0, free |-> 0]
      /\ producer = [at |-> "idle", chunk |-> 0, size |-> 0] /\ consumer = [at |-> "idle", chunk |-> ChunksCount, left |-> 0]
      /\ pushed = 0 /\ popped = 0 /\ torn = FALSE /\ memory = [x \in Audio!Chunks |-> [b \in 1 .. ChunkSize |-> 0]]
  <2>1. 0 \notin Audio!FreeAtFirst
    BY <1>1
  <2> QED BY <2>1 DEF Audio!Init, Audio!Empty, Audio!Queues, Audio!NoChunk
<1>3. array = [full |-> full, free |-> free]
  <2>1. 0 \notin Audio!FreeAtFirst
    BY <1>1
  <2>2. array = [q \in Audio!Queues |-> [s \in Audio!Slots |-> IF q = "full" THEN Audio!NoChunk ELSE
                   IF s + 1 \in Audio!FreeAtFirst THEN s + 1 ELSE Audio!NoChunk]]
    BY <2>1 DEF Audio!Init, Audio!Empty
  <2> QED BY <1>1, <2>2 DEF Audio!Queues, Audio!NoChunk
<1>4. Slot(0) = 0 /\ Chunk(0) = 0 /\ Bytes(0) = 0 /\ \A k \in 0 .. (ChunksCount - 1) : Slot(k) = k /\ Chunk(k) = k
  <2>1. ASSUME NEW M \in Nat \ {0}, NEW k \in 0 .. (M - 1) PROVE k % M = k
    <3>1. k \div M \in Int /\ k % M \in 0 .. (M - 1) /\ k = (k \div M) * M + (k % M)
      BY AudioDivision
    <3> DEFINE q == k \div M  s == k % M
    <3> HIDE DEF q, s
    <3>2. q \in Int /\ s \in 0 .. (M - 1) /\ k = q * M + s
      BY <3>1 DEF q, s
    <3>3. q * M \in (1 - M) .. (M - 1)
      BY <3>2
    <3>4. CASE q >= 1
      <4>1. (q - 1) * M >= 0 /\ (q - 1) * M = q * M - M
        BY <3>2, <3>4
      <4> QED BY <3>3, <4>1
    <3>5. CASE q <= -1
      <4>1. (-1 - q) * M >= 0 /\ (-1 - q) * M = -(q * M) - M
        BY <3>2, <3>5
      <4> QED BY <3>3, <4>1
    <3>6. CASE q = 0
      BY <3>2, <3>6 DEF s
    <3> QED BY <3>2, <3>4, <3>5, <3>6
  <2> QED BY <2>1 DEF AudioAssumption, Slot, Chunk, Bytes
<1> HIDE DEF full, free
<1>5. Counts(0, 0, 0, 0)
  BY <1>2, <1>4 DEF AudioAssumption, Counts
<1>6. Filling(0, 0)
  BY <1>2, <1>4 DEF AudioAssumption, Filling, Audio!NoChunk
<1>7. Playing(0, 0, 0)
  BY <1>2, <1>4 DEF AudioAssumption, Playing, Audio!NoChunk
<1>8. Queued(0, 0, 0, 0)
  <2>1. ASSUME NEW k \in Nat, k < ChunksCount - 1 PROVE free[Slot(k)] = Chunk(k + 1)
    BY <1>4, <2>1 DEF AudioAssumption, free, Audio!Slots
  <2>2. DOMAIN full = Audio!Slots /\ DOMAIN free = Audio!Slots
    BY DEF full, free
  <2> QED BY <1>3, <2>1, <2>2 DEF AudioAssumption, Queued
<1>9. Stored(0, 0)
  BY <1>2 DEF AudioAssumption, Stored
<1> QED BY <1>2, <1>5, <1>6, <1>7, <1>8, <1>9 DEF AudioInv, AudioAt

(* Push, step by step.                                                             *)
LEMMA PushTakesKeeps == ASSUME AudioAssumption, AudioInv, Audio!PushTakes PROVE AudioInv'
<1>1. PICK g, t, u, r \in Nat : AudioAt(g, t, u, r)
  BY DEF AudioInv
<1>2. /\ producer.at = "idle" /\ producer.chunk = Audio!NoChunk /\ head.free # tail.free
      /\ producer' = [at |-> "take", chunk |-> array.free[head.free], size |-> 0]
      /\ UNCHANGED <<memory, array, tail, head, consumer, pushed, popped, torn>>
  BY DEF Audio!PushTakes
<1>3. t = g - 1 /\ producer.size = 0 /\ pushed = Bytes(g) + producer.size
  BY <1>1, <1>2 DEF AudioAt, Filling
<1>4. t < ChunksCount - 1 + r /\ head.free = Slot(t)
  BY <1>1, <1>2 DEF AudioAt, Counts, AudioAssumption
<1>5. array.free[Slot(t)] = Chunk(g)
  BY <1>1, <1>3, <1>4 DEF AudioAt, Queued
<1>6. Filling(g, t)'
  BY <1>2, <1>3, <1>4, <1>5, ChunksAre DEF AudioAssumption, Filling, Audio!NoChunk
<1>7. Counts(g, t, u, r)' /\ Playing(g, u, r)' /\ Queued(g, t, u, r)'
  BY <1>1, <1>2, <1>4 DEF AudioAt, Counts, Playing, Queued
<1>8. Stored(g, r)'
  BY <1>1, <1>2 DEF AudioAt, Stored
<1> QED BY <1>1, <1>2, <1>6, <1>7, <1>8 DEF AudioAt, AudioInv

LEMMA PushTakenKeeps == ASSUME AudioAssumption, AudioInv, Audio!PushTaken PROVE AudioInv'
<1>1. PICK g, t, u, r \in Nat : AudioAt(g, t, u, r)
  BY DEF AudioInv
<1>2. /\ producer.at = "take" /\ producer' = [producer EXCEPT !.at = "idle"]
      /\ head' = [head EXCEPT !["free"] = Audio!Increment(@)]
      /\ UNCHANGED <<memory, array, tail, consumer, pushed, popped, torn>>
  BY DEF Audio!PushTaken
<1>3. t = g - 1 /\ producer.size = 0 /\ producer.chunk = Chunk(g)
  BY <1>1, <1>2 DEF AudioAt, Filling
<1>4. producer' = [at |-> "idle", chunk |-> Chunk(g), size |-> 0]
  BY <1>1, <1>2, <1>3 DEF AudioAt, Filling
<1>5. t + 1 = g /\ t < ChunksCount - 1 + r
  BY <1>1, <1>2, <1>3 DEF AudioAt, Filling, Counts, AudioAssumption
<1>6. Filling(g, g)'
  BY <1>1, <1>2, <1>3, <1>4, ChunksAre DEF AudioAssumption, AudioAt, Filling
<1>7. Counts(g, g, u, r)'
  <2>1. head' = [full |-> Slot(u), free |-> Slot(g)]
    BY <1>1, <1>2, <1>5, SlotsAre DEF AudioAt, Counts
  <2> QED BY <1>1, <1>2, <1>4, <1>5, <2>1 DEF AudioAt, Counts
<1>8. Playing(g, u, r)'
  BY <1>1, <1>2 DEF AudioAt, Playing
<1>9. Queued(g, g, u, r)'
  BY <1>1, <1>2, <1>5 DEF AudioAt, Queued
<1>10. Stored(g, r)'
  BY <1>1, <1>2, <1>3, <1>4 DEF AudioAt, Stored
<1> QED BY <1>1, <1>2, <1>6, <1>7, <1>8, <1>9, <1>10 DEF AudioAt, AudioInv

LEMMA PushCopiesKeeps == ASSUME AudioAssumption, AudioInv, Audio!PushCopies PROVE AudioInv'
<1>1. PICK g, t, u, r \in Nat : AudioAt(g, t, u, r)
  BY DEF AudioInv
<1>2. /\ producer.at = "idle" /\ producer.chunk # Audio!NoChunk
      /\ memory' = [memory EXCEPT ![producer.chunk][producer.size + 1] = pushed + 1] /\ pushed' = pushed + 1
      /\ producer' = [producer EXCEPT !.size = @ + 1, !.at = IF producer.size + 1 = ChunkSize THEN "give" ELSE "idle"]
      /\ UNCHANGED <<array, tail, head, consumer, popped, torn>>
  BY DEF Audio!PushCopies
<1>3. /\ producer.chunk = Chunk(g) /\ t = g /\ producer.size \in 0 .. ChunkSize /\ producer.size < ChunkSize
      /\ pushed = Bytes(g) + producer.size
  BY <1>1, <1>2 DEF AudioAt, Filling
<1>4. PICK n \in 0 .. (ChunkSize - 1) : n = producer.size
  BY <1>3 DEF AudioAssumption
<1>5. producer' = [at |-> IF n + 1 = ChunkSize THEN "give" ELSE "idle", chunk |-> Chunk(g), size |-> n + 1]
  BY <1>1, <1>2, <1>3, <1>4 DEF AudioAt, Filling
<1>6. pushed' = Bytes(g) + (n + 1) /\ memory' = [memory EXCEPT ![Chunk(g)][n + 1] = Bytes(g) + (n + 1)]
  <2>1. pushed + 1 = Bytes(g) + (n + 1) /\ producer.size + 1 = n + 1 /\ producer.chunk = Chunk(g)
    <3>1. Bytes(g) \in Nat
      BY ChunksAre
    <3> QED BY <1>3, <1>4, <3>1
  <2>2. memory' = [memory EXCEPT ![producer.chunk][producer.size + 1] = pushed + 1] /\ pushed' = pushed + 1
    BY <1>2
  <2> QED BY <2>1, <2>2, Zenon
<1>7. Filling(g, t)'
  <2>1. Chunk(g) # Audio!NoChunk
    BY ChunksAre
  <2>2. CASE n + 1 = ChunkSize
    <3>1. producer' = [at |-> "give", chunk |-> Chunk(g), size |-> n + 1]
      BY <1>5, <2>2
    <3> QED BY <1>3, <1>4, <1>6, <2>1, <2>2, <3>1 DEF AudioAssumption, Filling
  <2>3. CASE n + 1 # ChunkSize
    <3>1. producer' = [at |-> "idle", chunk |-> Chunk(g), size |-> n + 1]
      BY <1>5, <2>3
    <3> QED BY <1>3, <1>4, <1>6, <2>1, <2>3, <3>1 DEF AudioAssumption, Filling
  <2> QED BY <2>2, <2>3
<1>8. Counts(g, t, u, r)'
  BY <1>1, <1>2, <1>5 DEF AudioAt, Counts
<1>9. Playing(g, u, r)' /\ Queued(g, t, u, r)'
  BY <1>1, <1>2 DEF AudioAt, Playing, Queued
<1>10. Stored(g, r)'
  <2>1. g - r <= ChunksCount - 1
    BY <1>1, <1>3 DEF AudioAt, Counts, AudioAssumption
  <2>2. Chunk(g) \in Audio!Chunks /\ \A k \in Nat : r <= k /\ k < g => Chunk(k) # Chunk(g) /\ Chunk(k) \in Audio!Chunks
    BY <2>1, ChunksAre DEF AudioAssumption
  <2>3. /\ DOMAIN memory = Audio!Chunks /\ \A x \in Audio!Chunks : DOMAIN memory[x] = 1 .. ChunkSize
        /\ \A k \in Nat : r <= k /\ k < g => \A b \in 1 .. ChunkSize : memory[Chunk(k)][b] = Bytes(k) + b
        /\ \A b \in 1 .. n : memory[Chunk(g)][b] = Bytes(g) + b
    BY <1>1, <1>2, <1>4 DEF AudioAt, Stored
  <2>4. DOMAIN memory' = Audio!Chunks /\ \A x \in Audio!Chunks : DOMAIN memory'[x] = 1 .. ChunkSize
    BY <1>6, <2>3
  <2>5. \A k \in Nat : r <= k /\ k < g => memory'[Chunk(k)] = memory[Chunk(k)]
    BY <1>6, <2>2, <2>3
  <2>6. n + 1 \in 1 .. ChunkSize
    BY <1>4 DEF AudioAssumption
  <2>7. \A b \in 1 .. (n + 1) : memory'[Chunk(g)][b] = Bytes(g) + b
    BY <1>6, <2>2, <2>3, <2>6
  <2> QED BY <1>5, <2>3, <2>4, <2>5, <2>7 DEF Stored
<1> QED BY <1>1, <1>2, <1>7, <1>8, <1>9, <1>10 DEF AudioAt, AudioInv

LEMMA PushGivesKeeps == ASSUME AudioAssumption, AudioInv, Audio!PushGives PROVE AudioInv'
<1>1. PICK g, t, u, r \in Nat : AudioAt(g, t, u, r)
  BY DEF AudioInv
<1>2. /\ producer.at = "give" /\ array' = [array EXCEPT !["full"][tail["full"]] = producer.chunk]
      /\ producer' = [producer EXCEPT !.at = "given"] /\ UNCHANGED <<memory, tail, head, consumer, pushed, popped, torn>>
  BY DEF Audio!PushGives
<1>3. producer.chunk = Chunk(g) /\ tail.full = Slot(g) /\ t = g
  BY <1>1, <1>2 DEF AudioAt, Filling, Counts
<1>4. producer' = [at |-> "given", chunk |-> producer.chunk, size |-> producer.size]
  BY <1>1, <1>2 DEF AudioAt, Filling
<1>5. array' = [full |-> [array.full EXCEPT ![Slot(g)] = Chunk(g)], free |-> array.free]
  BY <1>1, <1>2, <1>3 DEF AudioAt, Queued
<1>6. Slot(g) \in Audio!Slots /\ DOMAIN array.full = Audio!Slots
  BY <1>1, SlotsAre DEF AudioAt, Queued
<1>7. Filling(g, t)'
  BY <1>1, <1>2, <1>4, <1>5, <1>6 DEF AudioAt, Filling
<1>8. Counts(g, t, u, r)'
  BY <1>1, <1>2, <1>4 DEF AudioAt, Counts
<1>9. Playing(g, u, r)'
  BY <1>1, <1>2, <1>5 DEF AudioAt, Playing
<1>10. Queued(g, t, u, r)'
  <2>1. g - u <= ChunksCount
    BY <1>1, <1>3 DEF AudioAt, Counts, AudioAssumption
  <2>2. \A k \in Nat : u <= k /\ k < g => Slot(k) # Slot(g) /\ Slot(k) \in Audio!Slots
    BY <2>1, SlotsAre DEF AudioAssumption
  <2> QED BY <1>1, <1>5, <1>6, <2>2 DEF AudioAt, Queued
<1>11. Stored(g, r)'
  BY <1>1, <1>2, <1>4 DEF AudioAt, Stored
<1> QED BY <1>1, <1>2, <1>7, <1>8, <1>9, <1>10, <1>11 DEF AudioAt, AudioInv

LEMMA PushGivenKeeps == ASSUME AudioAssumption, AudioInv, Audio!PushGiven PROVE AudioInv'
<1>1. PICK g, t, u, r \in Nat : AudioAt(g, t, u, r)
  BY DEF AudioInv
<1>2. /\ producer.at = "given" /\ tail' = [tail EXCEPT !["full"] = Audio!Increment(@)]
      /\ producer' = [at |-> "idle", chunk |-> Audio!NoChunk, size |-> 0]
      /\ UNCHANGED <<memory, array, head, consumer, pushed, popped, torn>>
  BY DEF Audio!PushGiven
<1>3. /\ t = g /\ producer.size = ChunkSize /\ array.full[Slot(g)] = Chunk(g) /\ pushed = Bytes(g) + ChunkSize
      /\ producer.chunk # Audio!NoChunk
  BY <1>1, <1>2 DEF AudioAt, Filling
<1>4. g + 1 \in Nat /\ Bytes(g + 1) = Bytes(g) + ChunkSize /\ Bytes(g) \in Nat /\ (g + 1) - 1 = g
  BY ChunksAre
<1>5. Filling(g + 1, t)'
  BY <1>2, <1>3, <1>4 DEF AudioAssumption, Filling
<1>6. Counts(g + 1, t, u, r)'
  <2>1. tail' = [full |-> Slot(g + 1), free |-> Slot(ChunksCount - 1 + r)]
    BY <1>1, <1>2, SlotsAre DEF AudioAt, Counts
  <2> QED BY <1>1, <1>2, <1>3, <2>1 DEF AudioAt, Counts
<1>7. Playing(g + 1, u, r)'
  BY <1>1, <1>2 DEF AudioAt, Playing
<1>8. Queued(g + 1, t, u, r)'
  BY <1>1, <1>2, <1>3 DEF AudioAt, Queued
<1>9. Stored(g + 1, r)'
  <2>1. \A k \in Nat : r <= k /\ k < g + 1 => \A b \in 1 .. ChunkSize : memory[Chunk(k)][b] = Bytes(k) + b
    BY <1>1, <1>3 DEF AudioAt, Stored
  <2> QED BY <1>1, <1>2, <2>1 DEF AudioAt, Stored
<1> QED BY <1>1, <1>2, <1>4, <1>5, <1>6, <1>7, <1>8, <1>9 DEF AudioAt, AudioInv

(* Pop, step by step.                                                              *)
LEMMA PopTakesKeeps == ASSUME AudioAssumption, AudioInv, Audio!PopTakes PROVE AudioInv'
<1>1. PICK g, t, u, r \in Nat : AudioAt(g, t, u, r)
  BY DEF AudioInv
<1>2. /\ consumer.at = "idle" /\ consumer.chunk = Audio!NoChunk /\ head.full # tail.full
      /\ consumer' = [at |-> "take", chunk |-> array.full[head.full], left |-> ChunkSize]
      /\ UNCHANGED <<memory, array, tail, head, producer, pushed, popped, torn>>
  BY DEF Audio!PopTakes
<1>3. u = r /\ popped = Bytes(r)
  BY <1>1, <1>2 DEF AudioAt, Playing
<1>4. r < g /\ head.full = Slot(r)
  BY <1>1, <1>2, <1>3 DEF AudioAt, Counts
<1>5. array.full[Slot(r)] = Chunk(r)
  BY <1>1, <1>3, <1>4 DEF AudioAt, Queued
<1>6. Playing(g, u, r)'
  <2>1. Chunk(r) # Audio!NoChunk /\ Bytes(r) \in Nat
    BY ChunksAre
  <2> QED BY <1>2, <1>3, <1>4, <1>5, <2>1 DEF AudioAssumption, Playing
<1>7. Counts(g, t, u, r)' /\ Filling(g, t)' /\ Queued(g, t, u, r)'
  BY <1>1, <1>2 DEF AudioAt, Counts, Filling, Queued
<1>8. Stored(g, r)'
  BY <1>1, <1>2 DEF AudioAt, Stored
<1> QED BY <1>1, <1>2, <1>6, <1>7, <1>8 DEF AudioAt, AudioInv

LEMMA PopTakenKeeps == ASSUME AudioAssumption, AudioInv, Audio!PopTaken PROVE AudioInv'
<1>1. PICK g, t, u, r \in Nat : AudioAt(g, t, u, r)
  BY DEF AudioInv
<1>2. /\ consumer.at = "take" /\ consumer' = [consumer EXCEPT !.at = "idle"]
      /\ head' = [head EXCEPT !["full"] = Audio!Increment(@)]
      /\ UNCHANGED <<memory, array, tail, producer, pushed, popped, torn>>
  BY DEF Audio!PopTaken
<1>3. u = r /\ r < g /\ consumer.left = ChunkSize /\ consumer.chunk = Chunk(r) /\ popped = Bytes(r) + ChunkSize - consumer.left
  BY <1>1, <1>2 DEF AudioAt, Playing
<1>4. consumer' = [at |-> "idle", chunk |-> Chunk(r), left |-> ChunkSize]
  BY <1>1, <1>2, <1>3 DEF AudioAt, Playing
<1>5. Playing(g, r + 1, r)'
  <2>1. Chunk(r) # Audio!NoChunk /\ Bytes(r) \in Nat
    BY ChunksAre
  <2>2. popped' = Bytes(r) + ChunkSize - ChunkSize /\ ChunkSize > 0 /\ ChunkSize \in 0 .. ChunkSize
    BY <1>2, <1>3 DEF AudioAssumption
  <2> QED BY <1>4, <2>1, <2>2 DEF Playing
<1>6. Counts(g, t, r + 1, r)'
  <2>1. head' = [full |-> Slot(r + 1), free |-> Slot(t)]
    BY <1>1, <1>2, <1>3, SlotsAre DEF AudioAt, Counts
  <2> QED BY <1>1, <1>2, <1>3, <2>1 DEF AudioAt, Counts
<1>7. Filling(g, t)'
  BY <1>1, <1>2 DEF AudioAt, Filling
<1>8. Queued(g, t, r + 1, r)'
  BY <1>1, <1>2, <1>3 DEF AudioAt, Queued
<1>9. Stored(g, r)'
  BY <1>1, <1>2 DEF AudioAt, Stored
<1>10. r + 1 \in Nat
  OBVIOUS
<1> QED BY <1>1, <1>2, <1>10, <1>5, <1>6, <1>7, <1>8, <1>9 DEF AudioAt, AudioInv

LEMMA PopCopiesKeeps == ASSUME AudioAssumption, AudioInv, Audio!PopCopies PROVE AudioInv'
<1>1. PICK g, t, u, r \in Nat : AudioAt(g, t, u, r)
  BY DEF AudioInv
<1>2. /\ consumer.at = "idle" /\ consumer.chunk # Audio!NoChunk /\ popped' = popped + 1
      /\ torn' = (torn \/ memory[consumer.chunk][ChunkSize - consumer.left + 1] # popped + 1)
      /\ consumer' = [consumer EXCEPT !.left = @ - 1, !.at = IF consumer.left = 1 THEN "give" ELSE "idle"]
      /\ UNCHANGED <<memory, array, tail, head, producer, pushed>>
  BY DEF Audio!PopCopies
<1>3. /\ consumer.chunk = Chunk(r) /\ u = r + 1 /\ consumer.left \in 0 .. ChunkSize /\ consumer.left > 0
      /\ popped = Bytes(r) + ChunkSize - consumer.left
  BY <1>1, <1>2 DEF AudioAt, Playing
<1>4. PICK n \in 1 .. ChunkSize : n = consumer.left
  BY <1>3 DEF AudioAssumption
<1>5. consumer' = [at |-> IF n = 1 THEN "give" ELSE "idle", chunk |-> Chunk(r), left |-> n - 1]
  BY <1>1, <1>2, <1>3, <1>4 DEF AudioAt, Playing
<1>6. Chunk(r) # Audio!NoChunk /\ Bytes(r) \in Nat
  BY ChunksAre
<1>7. r < g
  BY <1>1, <1>3 DEF AudioAt, Counts
<1>8. torn' = FALSE
  <2>1. ChunkSize - n + 1 \in 1 .. ChunkSize
    BY <1>4 DEF AudioAssumption
  <2>2. memory[Chunk(r)][ChunkSize - n + 1] = Bytes(r) + (ChunkSize - n + 1)
    BY <1>1, <1>7, <2>1 DEF AudioAt, Stored
  <2>3. Bytes(r) + (ChunkSize - n + 1) = popped + 1
    BY <1>3, <1>4, <1>6 DEF AudioAssumption
  <2>4. torn = FALSE
    BY <1>1 DEF AudioAt
  <2> QED BY <1>2, <1>3, <1>4, <2>2, <2>3, <2>4
<1>9. Playing(g, u, r)'
  <2>1. popped' = Bytes(r) + ChunkSize - (n - 1) /\ n - 1 \in 0 .. ChunkSize
    BY <1>2, <1>3, <1>4, <1>6 DEF AudioAssumption
  <2>2. CASE n = 1
    <3>1. consumer' = [at |-> "give", chunk |-> Chunk(r), left |-> n - 1]
      BY <1>5, <2>2
    <3> QED BY <1>3, <1>6, <2>1, <2>2, <3>1 DEF Playing
  <2>3. CASE n # 1
    <3>1. consumer' = [at |-> "idle", chunk |-> Chunk(r), left |-> n - 1] /\ n - 1 > 0
      BY <1>4, <1>5, <2>3 DEF AudioAssumption
    <3> QED BY <1>3, <1>6, <2>1, <3>1 DEF Playing
  <2> QED BY <2>2, <2>3
<1>10. Counts(g, t, u, r)' /\ Filling(g, t)' /\ Queued(g, t, u, r)'
  BY <1>1, <1>2 DEF AudioAt, Counts, Filling, Queued
<1>11. Stored(g, r)'
  BY <1>1, <1>2 DEF AudioAt, Stored
<1> QED BY <1>8, <1>9, <1>10, <1>11 DEF AudioAt, AudioInv

LEMMA PopGivesKeeps == ASSUME AudioAssumption, AudioInv, Audio!PopGives PROVE AudioInv'
<1>1. PICK g, t, u, r \in Nat : AudioAt(g, t, u, r)
  BY DEF AudioInv
<1>2. /\ consumer.at = "give" /\ array' = [array EXCEPT !["free"][tail["free"]] = consumer.chunk]
      /\ consumer' = [consumer EXCEPT !.at = "given"] /\ UNCHANGED <<memory, tail, head, producer, pushed, popped, torn>>
  BY DEF Audio!PopGives
<1> DEFINE l == ChunksCount - 1 + r
<1>3. consumer.chunk = Chunk(r) /\ tail.free = Slot(l) /\ u = r + 1
  <2>1. consumer.chunk # Audio!NoChunk
    BY <1>1, <1>2 DEF AudioAt, Playing
  <2> QED BY <1>1, <1>2, <2>1 DEF AudioAt, Playing, Counts
<1>4. consumer' = [at |-> "given", chunk |-> consumer.chunk, left |-> consumer.left]
  BY <1>1, <1>2 DEF AudioAt, Playing
<1>5. array' = [full |-> array.full, free |-> [array.free EXCEPT ![Slot(l)] = Chunk(r)]]
  BY <1>1, <1>2, <1>3 DEF AudioAt, Queued
<1>6. l \in Nat /\ Slot(l) \in Audio!Slots /\ DOMAIN array.free = Audio!Slots
  <2>1. l \in Nat
    BY DEF AudioAssumption
  <2> HIDE DEF l
  <2> QED BY <1>1, <2>1, SlotsAre DEF AudioAt, Queued
<1>7. Playing(g, u, r)'
  <2>1. array'.free[Slot(l)] = Chunk(r)
    BY <1>5, <1>6
  <2> QED BY <1>1, <1>2, <1>4, <2>1 DEF AudioAt, Playing
<1>8. Counts(g, t, u, r)'
  BY <1>1, <1>2 DEF AudioAt, Counts
<1>9. Filling(g, t)'
  BY <1>1, <1>2, <1>5 DEF AudioAt, Filling
<1>10. Queued(g, t, u, r)'
  <2>1. l - t <= ChunksCount
    BY <1>1, <1>3 DEF AudioAt, Counts, AudioAssumption
  <2>2. \A k \in Nat : t <= k /\ k < l => l - k \in 1 .. ChunksCount
    BY <2>1 DEF AudioAssumption
  <2>3. \A k \in Nat : t <= k /\ k < l => Slot(k) # Slot(l)
    <3> HIDE DEF l
    <3> QED BY <1>6, <2>2, SlotsAre
  <2>4. \A k \in Nat : Slot(k) \in Audio!Slots
    BY SlotsAre
  <2> QED BY <1>1, <1>5, <1>6, <2>3, <2>4 DEF AudioAt, Queued
<1>11. Stored(g, r)'
  BY <1>1, <1>2 DEF AudioAt, Stored
<1> QED BY <1>1, <1>2, <1>7, <1>8, <1>9, <1>10, <1>11 DEF AudioAt, AudioInv

LEMMA PopGivenKeeps == ASSUME AudioAssumption, AudioInv, Audio!PopGiven PROVE AudioInv'
<1>1. PICK g, t, u, r \in Nat : AudioAt(g, t, u, r)
  BY DEF AudioInv
<1>2. /\ consumer.at = "given" /\ tail' = [tail EXCEPT !["free"] = Audio!Increment(@)]
      /\ consumer' = [at |-> "idle", chunk |-> Audio!NoChunk, left |-> 0]
      /\ UNCHANGED <<memory, array, head, producer, pushed, popped, torn>>
  BY DEF Audio!PopGiven
<1> DEFINE l == ChunksCount - 1 + r
<1>3. consumer.chunk # Audio!NoChunk
  BY <1>1, <1>2 DEF AudioAt, Playing
<1>4. u = r + 1 /\ consumer.left = 0 /\ array.free[Slot(l)] = Chunk(r) /\ popped = Bytes(r) + ChunkSize - consumer.left
  BY <1>1, <1>2, <1>3 DEF AudioAt, Playing
<1>5. l \in Nat /\ l + 1 = ChunksCount - 1 + (r + 1) /\ Chunk(l + 1) = Chunk(r) /\ l + 1 = r + ChunksCount
  <2>1. l \in Nat /\ l + 1 = ChunksCount - 1 + (r + 1) /\ l + 1 = r + ChunksCount
    BY DEF AudioAssumption
  <2> HIDE DEF l
  <2> QED BY <2>1, ChunksAre
<1>6. Audio!Increment(Slot(l)) = Slot(l + 1)
  <2> HIDE DEF l
  <2> QED BY <1>5, SlotsAre
<1>7. Playing(g, u, r + 1)'
  <2>1. popped' = Bytes(r + 1)
    <3>1. Bytes(r) \in Nat /\ Bytes(r + 1) = Bytes(r) + ChunkSize
      BY ChunksAre
    <3> QED BY <1>2, <1>4, <3>1 DEF AudioAssumption
  <2> QED BY <1>2, <1>4, <2>1 DEF AudioAssumption, Playing
<1>8. Counts(g, t, u, r + 1)'
  <2>1. tail' = [full |-> Slot(g), free |-> Slot(ChunksCount - 1 + (r + 1))]
    BY <1>1, <1>2, <1>5, <1>6 DEF AudioAt, Counts
  <2> QED BY <1>1, <1>2, <1>4, <2>1 DEF AudioAssumption, AudioAt, Counts
<1>9. Filling(g, t)'
  BY <1>1, <1>2 DEF AudioAt, Filling
<1>10. Queued(g, t, u, r + 1)'
  <2>1. \A k \in Nat : t <= k /\ k < l + 1 => array.free[Slot(k)] = Chunk(k + 1)
    <3>1. \A k \in Nat : t <= k /\ k < l => array.free[Slot(k)] = Chunk(k + 1)
      BY <1>1 DEF AudioAt, Queued
    <3> HIDE DEF l
    <3> QED BY <1>4, <1>5, <3>1
  <2> QED BY <1>1, <1>2, <1>5, <2>1 DEF AudioAt, Queued
<1>11. Stored(g, r + 1)'
  BY <1>1, <1>2 DEF AudioAt, Stored
<1> QED BY <1>1, <1>2, <1>7, <1>8, <1>9, <1>10, <1>11 DEF AudioAt, AudioInv

LEMMA AudioKeeps == ASSUME AudioAssumption, AudioInv, [Audio!Next]_audioVars PROVE AudioInv'
<1>1. CASE UNCHANGED audioVars
  <2>1. PICK g, t, u, r \in Nat : AudioAt(g, t, u, r)
    BY DEF AudioInv
  <2>2. Counts(g, t, u, r)' /\ Filling(g, t)' /\ Playing(g, u, r)'
    BY <1>1, <2>1 DEF audioVars, AudioAt, Counts, Filling, Playing
  <2>3. Queued(g, t, u, r)' /\ Stored(g, r)' /\ torn' = FALSE
    BY <1>1, <2>1 DEF audioVars, AudioAt, Queued, Stored
  <2> QED BY <2>2, <2>3 DEF AudioAt, AudioInv
<1> QED BY <1>1, PushTakesKeeps, PushTakenKeeps, PushCopiesKeeps, PushGivesKeeps, PushGivenKeeps,
   PopTakesKeeps, PopTakenKeeps,
           PopCopiesKeeps, PopGivesKeeps, PopGivenKeeps
  DEF Audio!Next, Audio!PushMoves, Audio!PopMoves

LEMMA AudioImplied == ASSUME AudioAssumption, AudioInv PROVE Audio!BytesInOrder
<1>1. PICK g, t, u, r \in Nat : AudioAt(g, t, u, r)
  BY DEF AudioInv
<1>2. producer.at = "give" => Audio!Increment(tail["full"]) # head["full"]
  <2> SUFFICES ASSUME producer.at = "give" PROVE Audio!Increment(tail["full"]) # head["full"]
    OBVIOUS
  <2>1. t = g
    BY <1>1 DEF AudioAt, Filling
  <2>2. tail.full = Slot(g) /\ head.full = Slot(u) /\ (g + 1) - u \in 1 .. ChunksCount
    BY <1>1, <2>1 DEF AudioAssumption, AudioAt, Counts
  <2> QED BY <2>2, SlotsAre
<1>3. consumer.at = "give" => Audio!Increment(tail["free"]) # head["free"]
  <2> SUFFICES ASSUME consumer.at = "give" PROVE Audio!Increment(tail["free"]) # head["free"]
    OBVIOUS
  <2>1. u = r + 1
    BY <1>1 DEF AudioAt, Playing
  <2>2. tail.free = Slot(ChunksCount - 1 + r) /\ head.free = Slot(t)
    BY <1>1 DEF AudioAt, Counts
  <2>3. ChunksCount - 1 + r \in Nat /\ ((ChunksCount - 1 + r) + 1) - t \in 1 .. ChunksCount
    BY <1>1, <2>1 DEF AudioAssumption, AudioAt, Counts
  <2> QED BY <2>2, <2>3, SlotsAre
<1> QED BY <1>1, <1>2, <1>3 DEF AudioAt, Audio!BytesInOrder

(* When another part moves, no sound is pushed.                                        *)
AudioRests == part # "audio" /\ torn = FALSE /\ producer.at = "idle" /\ consumer.at = "idle"

(* The bytes of the sound come in their order.                                         *)
THEOREM SoundInOrder == MCSpec => []Audio!BytesInOrder
<1> USE AudioAssumption
<1>1. MCInit => AudioInv \/ AudioRests
  <2>1. Audio!AtRest => torn = FALSE /\ producer.at = "idle" /\ consumer.at = "idle"
    BY DEF Audio!AtRest, Audio!Empty
  <2> QED BY <2>1, AudioStarts DEF MCInit, AudioRests
<1>2. (AudioInv \/ AudioRests) /\ [MCNext]_<<part, pacingVars, cloudVars, catalogVars, backVars, hostVars, syncVars, ctlVars, outVars, sendVars, videoVars, audioVars, nativeVars, appVars>> => AudioInv' \/ AudioRests'
  <2>1. [MCNext]_<<part, pacingVars, cloudVars, catalogVars, backVars, hostVars, syncVars, ctlVars, outVars, sendVars, videoVars, audioVars, nativeVars, appVars>> => [part = "audio" /\ Audio!Next]_audioVars /\ part' = part
    BY DEF MCNext
  <2>2. AudioRests /\ [part = "audio" /\ Audio!Next]_audioVars /\ part' = part => AudioRests'
    BY DEF AudioRests, audioVars
  <2> QED BY <2>1, <2>2, AudioKeeps
<1>3. AudioInv \/ AudioRests => Audio!BytesInOrder
  BY AudioImplied DEF AudioRests, Audio!BytesInOrder
<1> QED BY <1>1, <1>2, <1>3, PTL DEF MCSpec

-----------------------------------------------------------------------------
(* The sessions of Android.                                                         *)
PsnSteps == {"create", "offer", "start", "punch", "fini"}
AppThreads == [kind : {"psn", "local", "none"}, gen : Nat, at : {"init", "native", "publish", "catch", "done"} \cup PsnSteps]

HoleStates == {"none", "open", "owned", "freed", "consumed"}
NativeStates == {"none", "running", "stopping", "ended", "created", "freed"}

(* What may happen to an object that is not there.                                       *)
Excused == {"freed twice", "cancelled when freed"}
(* The connection is of the last shutdown, or one has begun since that will deal with it.      *)
Current(gen) == gen = generation \/ main.at = "choose"

(* Where connection i is, its thread and what it made: it connects, as the only one, or is   *)
(* the session of the application, or waits for its end, or is no more.                     *)
Arriving(i, th, of, lib) ==
  /\ i = resumes /\ appSession = 0 /\ i \notin disposers
  /\ \/ th.kind = "psn" /\ th.at = "init" /\ field = 0 /\ of = "none" /\ lib = "none"
     \/ th.kind = "psn" /\ th.at \in PsnSteps \cup {"native"} /\ field = i /\ of = "open" /\ lib = "none"
     \/ /\ th.kind = "psn" /\ th.at = "catch" /\ lib = "none"
        /\ (field = 0 /\ of = "none") \/ (field = i /\ of \in {"open", "consumed"})
     \/ th.kind = "local" /\ th.at = "native" /\ Current(th.gen) /\ field = 0 /\ of = "none" /\ lib = "none"
     \/ /\ th.kind \in {"psn", "local"} /\ th.at = "publish" /\ Current(th.gen) /\ field \in {0, i}
        /\ of \in {"owned", "none"} /\ lib \in {"running", "ended"}
InUse(i, th, of, lib) ==
  /\ th.at = "done" /\ i = appSession /\ i \notin disposers /\ Current(th.gen) /\ field \in {0, i}
  /\ of \in {"owned", "none"} /\ lib \in {"running", "ended"}
ToBeFreed(i, th, of, lib) ==
  /\ th.at = "done" /\ i # appSession /\ i \in disposers /\ field # i
  /\ of \in {"owned", "none"} /\ lib \in {"stopping", "ended", "created"}
AtAnEnd(i, th, of, lib) ==
  /\ th.at = "done" /\ i # appSession /\ i \notin disposers /\ field # i
  /\ of \in {"none", "freed", "consumed"} /\ lib \in {"none", "freed"}
PlacedAt(i, th, of, lib) ==
  Arriving(i, th, of, lib) \/ InUse(i, th, of, lib) \/ ToBeFreed(i, th, of, lib) \/ AtAnEnd(i, th, of, lib)
Placed(i) == PlacedAt(i, thread[i], hole[i], native[i])
AppSound ==
  /\ resumes \in 0 .. ResumesMax /\ appSession \in 0 .. resumes /\ field \in 0 .. resumes
  /\ disposers \subseteq 1 .. resumes /\ finishers = {} /\ appFaults \subseteq Excused
  /\ \A i \in App!Ids : Placed(i)
  /\ \A i \in App!Ids : i > resumes => hole[i] = "none" /\ native[i] = "none" /\ thread[i].at = "done"
  /\ inFlight <=> \E i \in App!Ids : thread[i].at # "done" /\ thread[i].kind = "psn"
AppTyped ==
  /\ thread \in [App!Ids -> AppThreads] /\ hole \in [App!Ids -> HoleStates] /\ native \in [App!Ids -> NativeStates]
  /\ generation \in Nat /\ inFlight \in BOOLEAN /\ raced \in BOOLEAN
AppInv == AppTyped /\ (~raced => AppSound)

LEMMA AppIds == ASSUME AppAssumption PROVE \A i : i \in App!Ids <=> i \in Nat /\ i # 0 /\ i <= ResumesMax
BY DEF AppAssumption, App!Ids

LEMMA AppNumbers ==
  ASSUME AppAssumption, AppSound
  PROVE  resumes \in Nat /\ resumes <= ResumesMax /\ ResumesMax \in Nat /\ appSession \in Nat /\ appSession <= resumes
<1>1. resumes \in 0 .. ResumesMax /\ ResumesMax \in Nat /\ appSession \in 0 .. resumes
  BY DEF AppAssumption, AppSound
<1>2. resumes \in Nat /\ resumes <= ResumesMax
  BY <1>1
<1> QED BY <1>1, <1>2

LEMMA AppStarts == ASSUME AppAssumption, App!Init \/ App!AtRest PROVE AppInv
<1>1. /\ generation = 0 /\ inFlight = FALSE /\ field = 0 /\ appSession = 0 /\ disposers = {} /\ finishers = {}
      /\ appFaults = {} /\ raced = FALSE /\ resumes \in 0 .. ResumesMax
      /\ thread = [i \in App!Ids |-> App!NoThread] /\ hole = [i \in App!Ids |-> "none"] /\ native = [i \in App!Ids |-> "none"]
  BY DEF AppAssumption, App!Init, App!AtRest, App!Start
<1>2. App!NoThread \in AppThreads /\ App!NoThread.at = "done"
  BY DEF App!NoThread, AppThreads
<1>3. \A i \in App!Ids : i # 0 /\ thread[i].at = "done" /\ hole[i] = "none" /\ native[i] = "none"
  BY <1>1, <1>2 DEF App!Ids
<1>4. \A i \in App!Ids : Placed(i)
  BY <1>1, <1>3 DEF Placed, PlacedAt, AtAnEnd
<1>5. AppSound
  BY <1>1, <1>3, <1>4 DEF AppSound
<1>6. AppTyped
  BY <1>1, <1>2 DEF AppTyped, HoleStates, NativeStates
<1> QED BY <1>5, <1>6 DEF AppInv

(* A connection that goes on, from one step to the next: it is the last, the others have ended. *)
LEMMA OnlyOne ==
  ASSUME AppInv, ~raced, NEW i \in App!Ids, thread[i].at # "done"
  PROVE  /\ Arriving(i, thread[i], hole[i], native[i])
         /\ \A j \in App!Ids : j # i => /\ ToBeFreed(j, thread[j], hole[j], native[j]) \/ AtAnEnd(j, thread[j], hole[j], native[j])
                                        /\ thread[j].at = "done"
<1>1. \A j \in App!Ids : Placed(j)
  BY DEF AppInv, AppSound
<1>2. Arriving(i, thread[i], hole[i], native[i])
  BY <1>1 DEF Placed, PlacedAt, InUse, ToBeFreed, AtAnEnd
<1>3. i = resumes /\ appSession = 0
  BY <1>2 DEF Arriving
<1>4. ASSUME NEW j \in App!Ids, j # i PROVE ToBeFreed(j, thread[j], hole[j], native[j]) \/ AtAnEnd(j, thread[j], hole[j], native[j])
  <2>1. j # 0
    BY DEF App!Ids
  <2> QED BY <1>1, <1>3, <1>4, <2>1 DEF Placed, PlacedAt, Arriving, InUse
<1> QED BY <1>2, <1>4 DEF ToBeFreed, AtAnEnd

(* What a step of its thread must do to keep the rest: it may end itself, let the field go or    *)
(* take it, and put itself among those that are waited for.                              *)
StepOf(i, th, of, lib) ==
  /\ thread' = [thread EXCEPT ![i] = th] /\ hole' = [hole EXCEPT ![i] = of] /\ native' = [native EXCEPT ![i] = lib]
  /\ th \in AppThreads /\ of \in HoleStates /\ lib \in NativeStates
  /\ field' \in {0, field, i} /\ appSession' \in {0, i} /\ disposers' \in {disposers, disposers \cup {i}}
  /\ UNCHANGED <<resumes, generation, finishers, main>> /\ appFaults' \subseteq Excused /\ raced' \in BOOLEAN
  /\ inFlight' = (th.at # "done" /\ th.kind = "psn")
LEMMA StepsOn ==
  ASSUME AppAssumption, AppInv, ~raced, NEW i \in App!Ids, thread[i].at # "done",
         NEW th, NEW of, NEW lib, StepOf(i, th, of, lib), PlacedAt(i, th, of, lib)'
  PROVE  AppInv'
<1>0. i \in Nat /\ i # 0 /\ i <= ResumesMax /\ ResumesMax \in Nat
  BY AppIds DEF AppAssumption
<1>1. Arriving(i, thread[i], hole[i], native[i]) /\ \A j \in App!Ids : j # i => thread[j].at = "done"
  BY OnlyOne
<1>2. i = resumes /\ appSession = 0 /\ field \in {0, i}
  BY <1>1 DEF Arriving
<1>3. /\ thread'[i] = th /\ hole'[i] = of /\ native'[i] = lib
      /\ \A j \in App!Ids : j # i => thread'[j] = thread[j] /\ hole'[j] = hole[j] /\ native'[j] = native[j]
  BY DEF AppInv, AppTyped, StepOf
<1>4. ASSUME NEW j \in App!Ids PROVE Placed(j)'
  <2>1. CASE j = i
    BY <1>3, <2>1 DEF Placed
  <2>2. CASE j # i
    <3>1. ToBeFreed(j, thread[j], hole[j], native[j]) \/ AtAnEnd(j, thread[j], hole[j], native[j])
      BY <2>2, OnlyOne
    <3>2. j # 0
      BY AppIds
    <3>3. field' # j /\ appSession' # j /\ (j \in disposers' <=> j \in disposers)
      BY <1>2, <2>2, <3>2 DEF StepOf
    <3>4. ToBeFreed(j, thread[j], hole[j], native[j])' \/ AtAnEnd(j, thread[j], hole[j], native[j])'
      BY <1>2, <1>3, <2>2, <3>1, <3>2, <3>3 DEF ToBeFreed, AtAnEnd
    <3> QED BY <3>4 DEF Placed, PlacedAt
  <2> QED BY <2>1, <2>2
<1>5. \A j \in App!Ids : j > resumes => j # i
  BY <1>0, <1>2, AppIds
<1>6. AppSound'
  <2>1. /\ resumes' \in 0 .. ResumesMax /\ appSession' \in 0 .. resumes' /\ field' \in 0 .. resumes'
        /\ disposers' \subseteq 1 .. resumes' /\ finishers' = {} /\ appFaults' \subseteq Excused
    <3>1. resumes' = i /\ finishers' = {} /\ appFaults' \subseteq Excused /\ field' \in {0, i} /\ appSession' \in {0, i}
      BY <1>2 DEF AppInv, AppSound, StepOf
    <3>2. disposers \subseteq 1 .. i
      BY <1>2 DEF AppInv, AppSound
    <3>3. disposers' = disposers \/ disposers' = disposers \cup {i}
      BY DEF StepOf
    <3>5. i \in 0 .. ResumesMax /\ {0, i} \subseteq 0 .. i /\ i \in 1 .. i
      BY <1>0
    <3>4. disposers' \subseteq 1 .. i
      BY <3>2, <3>3, <3>5
    <3> QED BY <3>1, <3>4, <3>5
  <2>2. \A j \in App!Ids : j > resumes' => hole'[j] = "none" /\ native'[j] = "none" /\ thread'[j].at = "done"
    BY <1>3, <1>5 DEF AppInv, AppSound, StepOf
  <2>3. inFlight' <=> \E j \in App!Ids : thread'[j].at # "done" /\ thread'[j].kind = "psn"
    <3>1. inFlight' <=> thread'[i].at # "done" /\ thread'[i].kind = "psn"
      <4>1. inFlight' = (th.at # "done" /\ th.kind = "psn")
        BY DEF StepOf
      <4> QED BY <1>3, <4>1, Zenon
    <3>2. \A j \in App!Ids : j # i => thread'[j].at = "done"
      <4> SUFFICES ASSUME NEW j \in App!Ids, j # i PROVE thread'[j].at = "done"
        BY Zenon
      <4>1. thread'[j] = thread[j] /\ thread[j].at = "done"
        BY <1>1, <1>3, Zenon
      <4> QED BY <4>1, Zenon
    <3> QED BY <3>1, <3>2, Zenon
  <2> QED BY <1>4, <2>1, <2>2, <2>3 DEF AppSound, App!Ids
<1>7. AppTyped'
  BY DEF AppInv, AppTyped, StepOf
<1> QED BY <1>6, <1>7 DEF AppInv


(* A thread that connects, at each of its steps.                                      *)
LEMMA ThreadIsAlone ==
  ASSUME AppAssumption, AppInv, ~raced, NEW i \in App!Ids, thread[i].at # "done"
  PROVE  /\ Arriving(i, thread[i], hole[i], native[i]) /\ thread[i] \in AppThreads /\ hole[i] \in HoleStates
         /\ native[i] \in NativeStates /\ i # 0 /\ i = resumes /\ appSession = 0 /\ i \notin disposers
         /\ inFlight = (thread[i].kind = "psn") /\ finishers = {} /\ appFaults \subseteq Excused
         /\ App!Connecting = {i}
<1>1. Arriving(i, thread[i], hole[i], native[i]) /\ \A j \in App!Ids : j # i => thread[j].at = "done"
  BY OnlyOne
<1>2. thread[i] \in AppThreads /\ hole[i] \in HoleStates /\ native[i] \in NativeStates /\ i # 0
  BY AppIds DEF AppInv, AppTyped
<1>3. inFlight = (thread[i].kind = "psn")
  <2>1. inFlight \in BOOLEAN
    BY DEF AppInv, AppTyped
  <2>2. inFlight <=> thread[i].kind = "psn"
    BY <1>1 DEF AppInv, AppSound
  <2> QED BY <2>1, <2>2
<1>4. App!Connecting = {i}
  BY <1>1 DEF App!Connecting
<1> QED BY <1>1, <1>2, <1>3, <1>4 DEF Arriving, AppInv, AppSound

LEMMA ThreadGoes ==
  ASSUME AppTyped, NEW i \in App!Ids, NEW to, App!Goes(i, to)
  PROVE  thread' = [thread EXCEPT ![i] = [kind |-> thread[i].kind, gen |-> thread[i].gen, at |-> to]]
<1>1. thread[i] = [kind |-> thread[i].kind, gen |-> thread[i].gen, at |-> thread[i].at]
  BY DEF AppTyped, AppThreads
<1>2. [thread[i] EXCEPT !.at = to] = [kind |-> thread[i].kind, gen |-> thread[i].gen, at |-> to]
  BY <1>1
<1>3. thread' = [thread EXCEPT ![i] = [thread[i] EXCEPT !.at = to]]
  BY DEF App!Goes
<1> QED BY <1>2, <1>3

LEMMA ThreadStepsAre ==
  ASSUME AppTyped, NEW i \in App!Ids,
         NEW to \in {"init", "native", "publish", "catch", "done"} \cup PsnSteps, NEW of \in HoleStates, NEW lib \in NativeStates,
         App!Goes(i, to), hole' = [hole EXCEPT ![i] = of], native' = [native EXCEPT ![i] = lib],
         field' \in {0, field, i}, appSession' \in {0, i}, disposers' \in {disposers, disposers \cup {i}},
         UNCHANGED <<resumes, generation, finishers, main>>, appFaults' \subseteq Excused, raced' = raced,
         inFlight' = (to # "done" /\ thread[i].kind = "psn")
  PROVE  StepOf(i, [kind |-> thread[i].kind, gen |-> thread[i].gen, at |-> to], of, lib)
<1>1. thread[i].kind \in {"psn", "local", "none"} /\ thread[i].gen \in Nat
  BY DEF AppTyped, AppThreads
<1>2. [kind |-> thread[i].kind, gen |-> thread[i].gen, at |-> to] \in AppThreads
  BY <1>1 DEF AppThreads
<1>3. raced' \in BOOLEAN
  BY DEF AppTyped
<1> QED BY <1>2, <1>3, ThreadGoes DEF StepOf

LEMMA PsnGoesOn ==
  ASSUME AppAssumption, AppInv, ~raced, NEW i \in App!Ids, App!PsnInit(i) \/ App!PsnStep(i) \/ App!PsnFinis(i)
  PROVE  AppInv'
<1> PICK gen \in Nat : gen = thread[i].gen
  BY DEF AppInv, AppTyped, AppThreads
<1> DEFINE Th(to) == [kind |-> "psn", gen |-> gen, at |-> to]
<1>0. AppTyped /\ hole = [hole EXCEPT ![i] = hole[i]] /\ native = [native EXCEPT ![i] = native[i]]
  BY DEF AppInv, AppTyped
<1>1. thread[i].at # "done" /\ thread[i].at \in {"init", "catch"} \cup PsnSteps
  BY DEF App!PsnInit, App!PsnStep, App!PsnFinis, App!At, App!Following, PsnSteps
<1>2. /\ Arriving(i, thread[i], hole[i], native[i]) /\ thread[i] \in AppThreads /\ hole[i] \in HoleStates
      /\ native[i] \in NativeStates /\ i # 0 /\ i = resumes /\ appSession = 0 /\ i \notin disposers
      /\ inFlight = (thread[i].kind = "psn") /\ appFaults \subseteq Excused /\ App!Connecting = {i}
  BY <1>1, ThreadIsAlone
<1>3. thread[i].kind = "psn" /\ native[i] = "none" /\ inFlight = TRUE
  BY <1>1, <1>2 DEF Arriving, PsnSteps
<1>4. UNCHANGED <<resumes, generation, appSession, native, disposers, finishers, raced, main>>
  BY DEF App!PsnInit, App!PsnStep, App!PsnFinis, App!Others
<1>5. CASE App!PsnInit(i)
  <2>1. hole[i] = "none" /\ field = 0 /\ App!At(i, "init") /\ UNCHANGED <<inFlight, appFaults>>
    BY <1>2, <1>5 DEF Arriving, App!PsnInit, App!At, PsnSteps
  <2>2. CASE App!Goes(i, "create") /\ hole' = [hole EXCEPT ![i] = "open"] /\ field' = i
    <3>1. StepOf(i, Th("create"), "open", "none")
      BY <1>0, <1>2, <1>3, <1>4, <2>1, <2>2, ThreadStepsAre DEF PsnSteps, HoleStates
    <3>2. Arriving(i, Th("create"), "open", "none")'
      BY <1>2, <1>3, <1>4, <2>2 DEF Arriving, PsnSteps
    <3> QED BY <1>1, <3>1, <3>2, StepsOn DEF PlacedAt
  <2>3. CASE App!Goes(i, "catch") /\ UNCHANGED <<hole, field>>
    <3>1. StepOf(i, Th("catch"), "none", "none")
      BY <1>0, <1>2, <1>3, <1>4, <2>1, <2>3, ThreadStepsAre
    <3>2. Arriving(i, Th("catch"), "none", "none")'
      <4>1. field' = 0 /\ i = resumes' /\ appSession' = 0 /\ i \notin disposers'
        BY <1>2, <1>4, <2>1, <2>3
      <4> QED BY <4>1 DEF Arriving
    <3> QED BY <1>1, <3>1, <3>2, StepsOn DEF PlacedAt
  <2> QED BY <1>5, <2>2, <2>3 DEF App!PsnInit
<1>6. CASE App!PsnStep(i)
  <2>1. thread[i].at \in PsnSteps /\ thread[i].at # "fini" /\ UNCHANGED <<hole, field, inFlight, appFaults>>
    BY <1>6 DEF App!PsnStep, App!Following, PsnSteps
  <2>2. hole[i] = "open" /\ field = i
    BY <1>2, <2>1 DEF Arriving, PsnSteps
  <2>3. PICK to \in PsnSteps \cup {"native"} : App!Goes(i, to)
    <3>1. App!Following[thread[i].at] \in PsnSteps \cup {"native"} /\ "fini" \in PsnSteps
      BY <2>1 DEF App!Following, PsnSteps
    <3> QED BY <1>6, <3>1 DEF App!PsnStep
  <2>4. StepOf(i, Th(to), "open", "none")
    <3>1. to \in {"init", "native", "publish", "catch", "done"} \cup PsnSteps /\ to # "done"
      BY DEF PsnSteps
    <3> QED BY <1>0, <1>2, <1>3, <1>4, <2>1, <2>2, <2>3, <3>1, ThreadStepsAre
  <2>5. Arriving(i, Th(to), "open", "none")'
    BY <1>2, <1>3, <1>4, <2>1, <2>2 DEF Arriving
  <2> QED BY <1>1, <2>4, <2>5, StepsOn DEF PlacedAt
<1>7. CASE App!PsnFinis(i)
  <2>1. field' = 0 /\ inFlight' = FALSE /\ App!Goes(i, "done")
    BY <1>7 DEF App!PsnFinis, App!LetsGo
  <2>2. PICK of \in {"none", "freed"} : hole' = [hole EXCEPT ![i] = of] /\ appFaults' \subseteq Excused
    <3>1. App!Cut(i) \subseteq Excused /\ "freed twice" \in Excused
      BY DEF App!Cut, Excused
    <3>2. CASE App!At(i, "fini") /\ App!Finis(i, i)
      <4>1. hole[i] = "open"
        BY <1>2, <3>2 DEF Arriving, App!At, PsnSteps
      <4> QED BY <1>2, <3>1, <3>2, <4>1 DEF App!Finis
    <3>3. CASE App!At(i, "catch") /\ App!Finis(field, i)
      <4>1. (field = 0 /\ hole[i] = "none") \/ (field = i /\ hole[i] \in {"open", "consumed"})
        BY <1>2, <3>3 DEF Arriving, App!At, PsnSteps
      <4>2. CASE field = 0 /\ hole[i] = "none"
        <5>1. hole' = hole /\ hole = [hole EXCEPT ![i] = "none"] /\ appFaults' = appFaults
          BY <1>0, <3>3, <4>2 DEF App!Finis
        <5> QED BY <1>2, <5>1
      <4>3. CASE field = i /\ hole[i] \in {"open", "consumed"}
        <5>1. hole' = [hole EXCEPT ![i] = "freed"]
          BY <1>2, <3>3, <4>3 DEF App!Finis
        <5>2. appFaults' \subseteq appFaults \cup App!Cut(i) \cup {"freed twice"}
          BY <1>2, <3>3, <4>3 DEF App!Finis
        <5> QED BY <1>2, <3>1, <5>1, <5>2
      <4> QED BY <4>1, <4>2, <4>3
    <3> QED BY <1>7, <3>2, <3>3 DEF App!PsnFinis
  <2>3. StepOf(i, Th("done"), of, "none")
    <3>1. of \in HoleStates
      BY DEF HoleStates
    <3> QED BY <1>0, <1>2, <1>3, <1>4, <2>1, <2>2, <3>1, ThreadStepsAre
  <2>4. AtAnEnd(i, Th("done"), of, "none")'
    BY <1>2, <1>3, <1>4, <2>1 DEF AtAnEnd
  <2> QED BY <1>1, <2>3, <2>4, StepsOn DEF PlacedAt
<1> QED BY <1>5, <1>6, <1>7

LEMMA HandleGoesOn ==
  ASSUME AppAssumption, AppInv, ~raced, NEW i \in App!Ids,
         App!CreateFails(i) \/ App!InitFails(i) \/ App!Creates(i) \/ App!Publishes(i)
  PROVE  AppInv'
<1> PICK gen \in Nat : gen = thread[i].gen
  BY DEF AppInv, AppTyped, AppThreads
<1> PICK mode \in {"psn", "local", "none"} : mode = thread[i].kind
  BY DEF AppInv, AppTyped, AppThreads
<1> DEFINE Th(to) == [kind |-> mode, gen |-> gen, at |-> to]
<1>0. AppTyped /\ hole = [hole EXCEPT ![i] = hole[i]] /\ native = [native EXCEPT ![i] = native[i]]
  BY DEF AppInv, AppTyped
<1>10. ASSUME NEW to \in {"done", "catch", "publish"}, NEW of \in HoleStates, NEW lib \in NativeStates, App!Goes(i, to),
              hole' = [hole EXCEPT ![i] = of], native' = [native EXCEPT ![i] = lib],
              field' \in {0, field, i}, appSession' \in {0, i}, disposers' \in {disposers, disposers \cup {i}},
              UNCHANGED <<resumes, generation, finishers, main>>, appFaults' \subseteq Excused, raced' = raced,
              inFlight' = (to # "done" /\ mode = "psn")
       PROVE  StepOf(i, Th(to), of, lib)
  <2>1. StepOf(i, [kind |-> thread[i].kind, gen |-> thread[i].gen, at |-> to], of, lib)
    BY <1>0, <1>10, ThreadStepsAre
  <2> QED BY <2>1
<1>1. thread[i].at # "done" /\ thread[i].at \in {"native", "publish"}
  BY DEF App!CreateFails, App!InitFails, App!Creates, App!Publishes, App!At
<1>2. /\ Arriving(i, thread[i], hole[i], native[i]) /\ thread[i] \in AppThreads /\ hole[i] \in HoleStates
      /\ native[i] \in NativeStates /\ i # 0 /\ i = resumes /\ appSession = 0 /\ i \notin disposers
      /\ inFlight = (thread[i].kind = "psn") /\ appFaults \subseteq Excused /\ App!Connecting = {i}
  BY <1>1, ThreadIsAlone
<1>3. ASSUME thread[i].at = "native"
      PROVE  /\ native[i] = "none" /\ field \in {0, i} /\ mode \in {"psn", "local"}
             /\ mode = "psn" => hole[i] = "open" /\ field = i
             /\ mode = "local" => hole[i] = "none" /\ field = 0 /\ Current(gen)
  BY <1>2, <1>3 DEF Arriving, PsnSteps
<1>4. UNCHANGED <<resumes, generation, finishers, raced, main>>
  BY DEF App!CreateFails, App!InitFails, App!Creates, App!Publishes, App!Others
<1>5. ASSUME mode = "psn", thread[i].at = "native", App!Goes(i, "catch"), NEW of \in {"open", "consumed"},
             hole' = [hole EXCEPT ![i] = of], appFaults' \subseteq Excused,
             UNCHANGED <<appSession, native, disposers, field, inFlight>>
      PROVE  AppInv'
  <2>1. StepOf(i, Th("catch"), of, "none")
    <3>1. native' = [native EXCEPT ![i] = "none"] /\ of \in HoleStates /\ "none" \in NativeStates
      BY <1>0, <1>3, <1>5 DEF HoleStates, NativeStates
    <3>2. inFlight' = (mode = "psn") /\ appSession' \in {0, i}
      BY <1>2, <1>5
    <3> QED BY <1>4, <1>5, <1>10, <3>1, <3>2
  <2>2. Arriving(i, Th("catch"), of, "none")'
    BY <1>2, <1>3, <1>4, <1>5 DEF Arriving
  <2> QED BY <1>1, <2>1, <2>2, StepsOn DEF PlacedAt
<1>6. CASE App!CreateFails(i)
  <2>1. /\ thread[i].at = "native" /\ UNCHANGED <<appSession, native, disposers, field, inFlight, hole, appFaults>>
        /\ App!Goes(i, IF mode = "psn" THEN "catch" ELSE "done")
    BY <1>6 DEF App!CreateFails, App!At, App!Others
  <2>2. CASE mode = "psn"
    <3>1. hole' = [hole EXCEPT ![i] = "open"]
      BY <1>0, <1>3, <2>1, <2>2
    <3> QED BY <1>2, <1>5, <2>1, <2>2, <3>1
  <2>3. CASE mode # "psn"
    <3>1. hole[i] = "none" /\ field = 0 /\ native[i] = "none"
      BY <1>3, <2>1, <2>3
    <3>2. StepOf(i, Th("done"), "none", "none")
      <4>1. /\ hole' = [hole EXCEPT ![i] = "none"] /\ native' = [native EXCEPT ![i] = "none"]
            /\ "none" \in HoleStates /\ "none" \in NativeStates /\ appSession' \in {0, i} /\ inFlight' = (mode = "psn")
        BY <1>0, <1>2, <2>1, <3>1 DEF HoleStates, NativeStates
      <4> QED BY <1>2, <1>4, <1>10, <2>1, <2>3, <4>1
    <3>3. AtAnEnd(i, Th("done"), "none", "none")'
      BY <1>2, <2>1, <3>1 DEF AtAnEnd
    <3> QED BY <1>1, <3>2, <3>3, StepsOn DEF PlacedAt
  <2> QED BY <2>2, <2>3
<1>7. CASE App!InitFails(i)
  <2>1. /\ thread[i].at = "native" /\ UNCHANGED <<appSession, native, disposers, field, inFlight>> /\ mode = "psn"
        /\ App!Goes(i, "catch") /\ hole' = [hole EXCEPT ![i] = "consumed"]
    BY <1>7 DEF App!InitFails, App!At, App!Others
  <2>2. appFaults' \subseteq Excused
    BY <1>2, <1>7 DEF App!InitFails, App!Cut, Excused
  <2> QED BY <1>5, <2>1, <2>2
<1>8. CASE App!Creates(i)
  <2>1. thread[i].at = "native" /\ UNCHANGED <<appSession, appFaults>>
    BY <1>8 DEF App!Creates, App!At
  <2>2. PICK of \in {"none", "owned"} : hole' = [hole EXCEPT ![i] = of]
    BY <1>0, <1>3, <1>8, <2>1 DEF App!Creates
  <2>3. CASE mode = "psn" /\ App!IsCancelled(i)
    <3>1. /\ native' = [native EXCEPT ![i] = "created"] /\ disposers' = disposers \cup {i} /\ App!LetsGo
          /\ App!Goes(i, "done")
      BY <1>8, <2>3 DEF App!Creates
    <3>2. field' = 0 /\ inFlight' = FALSE
      BY <3>1 DEF App!LetsGo
    <3>3. StepOf(i, Th("done"), of, "created")
      <4>1. of \in HoleStates /\ "created" \in NativeStates
        BY DEF HoleStates, NativeStates
      <4> QED BY <1>2, <1>4, <1>10, <2>1, <2>2, <3>1, <3>2, <4>1
    <3>4. ToBeFreed(i, Th("done"), of, "created")'
      BY <1>2, <2>1, <3>1, <3>2 DEF ToBeFreed
    <3> QED BY <1>1, <3>3, <3>4, StepsOn DEF PlacedAt
  <2>4. CASE ~(mode = "psn" /\ App!IsCancelled(i))
    <3>1. /\ native' = [native EXCEPT ![i] = "running"] /\ App!Goes(i, "publish") /\ UNCHANGED <<disposers, field, inFlight>>
      BY <1>8, <2>4 DEF App!Creates
    <3>2. StepOf(i, Th("publish"), of, "running")
      <4>1. of \in HoleStates /\ "running" \in NativeStates
        BY DEF HoleStates, NativeStates
      <4>2. inFlight' = (mode = "psn")
        BY <1>2, <3>1
      <4> QED BY <1>2, <1>4, <1>10, <2>1, <2>2, <3>1, <4>1, <4>2
    <3>3. Current(gen)'
      BY <1>3, <1>4, <2>1, <2>4 DEF App!IsCancelled, Current
    <3>4. Arriving(i, Th("publish"), of, "running")'
      BY <1>2, <1>3, <1>4, <2>1, <3>1, <3>3 DEF Arriving
    <3> QED BY <1>1, <3>2, <3>4, StepsOn DEF PlacedAt
  <2> QED BY <2>3, <2>4
<1>9. CASE App!Publishes(i)
  <2>1. /\ thread[i].at = "publish" /\ App!Goes(i, "done") /\ appSession' = i
        /\ UNCHANGED <<field, hole, native, disposers, appFaults>>
    BY <1>9 DEF App!Publishes, App!At
  <2>2. inFlight' = FALSE
    BY <1>2, <1>9 DEF App!Publishes
  <2>3. Current(gen) /\ field \in {0, i} /\ hole[i] \in {"owned", "none"} /\ native[i] \in {"running", "ended"}
    BY <1>2, <2>1 DEF Arriving, PsnSteps
  <2>4. PICK of \in {"owned", "none"}, lib \in {"running", "ended"} : of = hole[i] /\ lib = native[i]
    BY <2>3
  <2>5. StepOf(i, Th("done"), of, lib)
    <3>1. of \in HoleStates /\ lib \in NativeStates
      BY DEF HoleStates, NativeStates
    <3>2. hole' = [hole EXCEPT ![i] = of] /\ native' = [native EXCEPT ![i] = lib]
      BY <1>0, <2>1, <2>4
    <3> QED BY <1>2, <1>4, <1>10, <2>1, <2>2, <3>1, <3>2
  <2>6. InUse(i, Th("done"), of, lib)'
    BY <1>2, <1>4, <2>1, <2>3 DEF InUse, Current
  <2> QED BY <1>1, <2>5, <2>6, StepsOn DEF PlacedAt
<1> QED BY <1>6, <1>7, <1>8, <1>9

(* A new connection, when none is on its way.                                          *)
LEMMA ResumeBegins ==
  ASSUME AppAssumption, AppInv, App!Resumes, ~raced', UNCHANGED <<generation, field, appSession, hole, native, disposers, finishers, appFaults, main>>
  PROVE  AppInv'
<1>1. appSession = 0 /\ resumes < ResumesMax /\ resumes' = resumes + 1 /\ ~raced /\ App!Connecting = {} /\ ResumesMax \in Nat
  BY DEF App!Resumes, AppAssumption, AppInv, AppTyped
<1>2. AppSound /\ AppTyped
  BY <1>1 DEF AppInv
<1> PICK i : i = resumes + 1
  OBVIOUS
<1>3. resumes \in Nat /\ i \in Nat /\ i # 0 /\ i <= ResumesMax /\ i > resumes
  <2>1. resumes \in Nat
    BY <1>2, AppNumbers
  <2> QED BY <1>1, <2>1
<1>4. i \in App!Ids /\ ResumesMax \in Nat
  BY <1>1, <1>3, AppIds
<1>5. \A j \in App!Ids : thread[j].at = "done" /\ j # 0
  BY <1>1, AppIds DEF App!Connecting
<1>6. \A j \in App!Ids : ToBeFreed(j, thread[j], hole[j], native[j]) \/ AtAnEnd(j, thread[j], hole[j], native[j])
  BY <1>1, <1>2, <1>5 DEF AppSound, Placed, PlacedAt, Arriving, InUse, PsnSteps
<1>7. field = 0
  <2>1. field \in 0 .. resumes
    BY <1>2 DEF AppSound
  <2>2. field = 0 \/ field \in App!Ids
    BY <1>1, <1>3, <2>1, AppIds
  <2>3. field \notin App!Ids
    BY <1>6 DEF ToBeFreed, AtAnEnd
  <2> QED BY <2>2, <2>3
<1>8. PICK mode \in {"psn", "local"} :
        /\ inFlight' = (inFlight \/ mode = "psn")
        /\ thread' = [thread EXCEPT ![i] = [kind |-> mode, gen |-> generation, at |-> IF mode = "psn" THEN "init" ELSE "native"]]
  BY DEF App!Resumes, AppAssumption
<1>9. hole[i] = "none" /\ native[i] = "none" /\ i \notin disposers
  <2>1. hole[i] = "none" /\ native[i] = "none"
    BY <1>2, <1>3, <1>4 DEF AppSound
  <2>2. \A j \in disposers : j <= resumes
    <3>1. disposers \subseteq 1 .. resumes
      BY <1>2 DEF AppSound
    <3> QED BY <1>3, <3>1
  <2>3. ~(i <= resumes)
    BY <1>3
  <2> QED BY <2>1, <2>2, <2>3
<1> PICK th : th = [kind |-> mode, gen |-> generation, at |-> IF mode = "psn" THEN "init" ELSE "native"]
  OBVIOUS
<1>10. th \in AppThreads /\ th.kind = mode /\ th.gen = generation /\ th.at = IF mode = "psn" THEN "init" ELSE "native"
  BY <1>2 DEF AppTyped, AppThreads
<1>11. thread' = [thread EXCEPT ![i] = th]
  BY <1>8
<1>12. thread'[i] = th /\ \A j \in App!Ids : j # i => thread'[j] = thread[j]
  BY <1>2, <1>4, <1>11 DEF AppTyped
<1>13. inFlight' = (mode = "psn")
  BY <1>2, <1>5, <1>8 DEF AppSound, AppTyped
<1>14. AppTyped'
  <2>1. thread' \in [App!Ids -> AppThreads]
    BY <1>2, <1>10, <1>11 DEF AppTyped
  <2>2. generation' = generation /\ hole' = hole /\ native' = native /\ inFlight' \in BOOLEAN /\ raced' \in BOOLEAN
    BY <1>2, <1>13 DEF AppTyped, App!Resumes
  <2> QED BY <1>2, <2>1, <2>2 DEF AppTyped
<1>15. ASSUME NEW j \in App!Ids PROVE Placed(j)'
  <2>1. CASE j = i
    <3>1. Arriving(i, th, "none", "none")'
      <4>1. i = resumes'
        BY <1>1
      <4>2. i = resumes' /\ appSession' = 0 /\ i \notin disposers' /\ field' = 0 /\ Current(generation)'
        BY <1>1, <1>7, <1>9, <4>1 DEF Current
      <4>3. CASE mode = "psn"
        BY <1>10, <4>2, <4>3 DEF Arriving
      <4>4. CASE mode = "local"
        BY <1>10, <4>2, <4>4 DEF Arriving
      <4> QED BY <4>3, <4>4
    <3>2. thread'[i] = th /\ hole'[i] = "none" /\ native'[i] = "none"
      BY <1>9, <1>12
    <3> QED BY <2>1, <3>1, <3>2 DEF Placed, PlacedAt
  <2>2. CASE j # i
    <3>1. thread'[j] = thread[j]
      BY <1>12, <2>2
    <3> QED BY <1>6, <3>1 DEF Placed, PlacedAt, ToBeFreed, AtAnEnd
  <2> QED BY <2>1, <2>2
<1>16. AppSound'
  <2>1. resumes' \in 0 .. ResumesMax /\ appSession' \in 0 .. resumes' /\ field' \in 0 .. resumes' /\ resumes' = i
    BY <1>1, <1>3, <1>7
  <2>2. disposers' \subseteq 1 .. resumes' /\ finishers' = {} /\ appFaults' \subseteq Excused
    <3>1. disposers \subseteq 1 .. resumes /\ finishers = {} /\ appFaults \subseteq Excused
      BY <1>2 DEF AppSound
    <3>2. 1 .. resumes \subseteq 1 .. (resumes + 1)
      BY <1>3
    <3> QED BY <1>1, <3>1, <3>2
  <2>3. \A j \in App!Ids : j > resumes' => hole'[j] = "none" /\ native'[j] = "none" /\ thread'[j].at = "done"
    <3>1. ASSUME NEW j \in App!Ids, j > i PROVE j > resumes /\ j # i
      <4>1. j \in Nat
        BY AppIds
      <4> QED BY <1>3, <3>1, <4>1
    <3> QED BY <1>2, <1>12, <2>1, <3>1 DEF AppSound
  <2>4. inFlight' <=> \E j \in App!Ids : thread'[j].at # "done" /\ thread'[j].kind = "psn"
    <3>1. thread'[i].at # "done" /\ thread'[i].kind = mode
      BY <1>10, <1>12
    <3>2. \A j \in App!Ids : j # i => thread'[j].at = "done"
      BY <1>5, <1>12
    <3> QED BY <1>4, <1>13, <3>1, <3>2
  <2> QED BY <1>15, <2>1, <2>2, <2>3, <2>4 DEF AppSound
<1> QED BY <1>14, <1>16 DEF AppInv

(* A shutdown begins: what is there will be dealt with.                                     *)
LEMMA Begun ==
  ASSUME AppInv, App!Shutdown
  PROVE  AppInv'
<1>1. /\ generation' = generation + 1 /\ main'.at = "choose"
      /\ UNCHANGED <<resumes, inFlight, field, appSession, thread, hole, native, disposers, finishers, appFaults, raced>>
  BY DEF App!Shutdown
<1>2. ASSUME NEW i \in App!Ids, Placed(i) PROVE Placed(i)'
  <2>1. \A gen : Current(gen)'
    BY <1>1 DEF Current
  <2> QED BY <1>1, <1>2, <2>1 DEF Placed, PlacedAt, Arriving, InUse, ToBeFreed, AtAnEnd
<1>3. AppSound => AppSound'
  <2> SUFFICES ASSUME AppSound PROVE AppSound'
    OBVIOUS
  <2>1. \A i \in App!Ids : Placed(i)'
    BY <1>2 DEF AppSound
  <2>2. \A i \in App!Ids : i > resumes => hole'[i] = "none" /\ native'[i] = "none" /\ thread'[i].at = "done"
    BY <1>1 DEF AppSound
  <2>3. inFlight' <=> \E i \in App!Ids : thread'[i].at # "done" /\ thread'[i].kind = "psn"
    BY <1>1 DEF AppSound
  <2> QED BY <1>1, <2>1, <2>2, <2>3 DEF AppSound
<1> QED BY <1>1, <1>3 DEF AppInv, AppTyped

(* It goes on when the cancel has returned.                                                *)
LEMMA Returns ==
  ASSUME AppInv, App!Cancelled
  PROVE  AppInv'
<1>1. /\ main.at = "cancel"
      /\ UNCHANGED <<resumes, generation, inFlight, field, appSession, thread, hole, native, disposers, finishers, appFaults, raced>>
  BY DEF App!Cancelled
<1>2. ASSUME NEW i \in App!Ids, Placed(i) PROVE Placed(i)'
  <2>1. \A gen : Current(gen) => Current(gen)'
    BY <1>1 DEF Current
  <2> QED BY <1>1, <1>2, <2>1 DEF Placed, PlacedAt, Arriving, InUse, ToBeFreed, AtAnEnd
<1>3. AppSound => AppSound'
  <2> SUFFICES ASSUME AppSound PROVE AppSound'
    OBVIOUS
  <2>1. \A i \in App!Ids : Placed(i)'
    BY <1>2 DEF AppSound
  <2>2. \A i \in App!Ids : i > resumes => hole'[i] = "none" /\ native'[i] = "none" /\ thread'[i].at = "done"
    BY <1>1 DEF AppSound
  <2>3. inFlight' <=> \E i \in App!Ids : thread'[i].at # "done" /\ thread'[i].kind = "psn"
    BY <1>1 DEF AppSound
  <2> QED BY <1>1, <2>1, <2>2, <2>3 DEF AppSound
<1> QED BY <1>1, <1>3 DEF AppInv, AppTyped

(* The shutdown meets a session, a holepunch on its way, or neither.                          *)
LEMMA StopsSession ==
  ASSUME AppAssumption, AppInv, ~raced, App!Choose, App!StopSession
  PROVE  /\ \A j \in App!Ids : Placed(j)'
         /\ native' \in [App!Ids -> NativeStates] /\ field' = 0 /\ appSession' = 0 /\ finishers' = finishers
         /\ disposers' \subseteq 1 .. resumes /\ \A j \in App!Ids : j > resumes => native'[j] = "none"
<1>1. AppTyped /\ AppSound
  BY DEF AppInv
<1>2. UNCHANGED <<resumes, thread, hole>> /\ field' = 0 /\ appSession' = 0 /\ finishers' = finishers /\ appSession # 0
  BY DEF App!Choose, App!StopSession
<1>3. resumes \in Nat /\ resumes <= ResumesMax
  <2>1. resumes \in 0 .. ResumesMax /\ ResumesMax \in Nat
    BY <1>1 DEF AppAssumption, AppSound
  <2> QED BY <2>1
<1>4. appSession \in 1 .. resumes /\ appSession \in Nat /\ appSession <= resumes
  <2>1. appSession \in 0 .. resumes
    BY <1>1 DEF AppSound
  <2> QED BY <1>2, <1>3, <2>1
<1>5. appSession \in App!Ids
  BY <1>2, <1>3, <1>4, AppIds DEF AppAssumption
<1> DEFINE s == appSession
<1>6. InUse(s, thread[s], hole[s], native[s])
  BY <1>1, <1>2, <1>5 DEF AppSound, Placed, PlacedAt, Arriving, ToBeFreed, AtAnEnd
<1>7. PICK lib \in {"stopping", "ended"} : native' = [native EXCEPT ![s] = lib]
  <2>1. CASE native[s] = "running"
    BY <2>1 DEF App!StopSession
  <2>2. CASE native[s] = "ended"
    <3>1. native' = native /\ native = [native EXCEPT ![s] = "ended"]
      BY <1>1, <2>2 DEF App!StopSession, AppTyped
    <3> QED BY <3>1
  <2> QED BY <1>6, <2>1, <2>2 DEF InUse
<1>8. native' \in [App!Ids -> NativeStates]
  BY <1>1, <1>7 DEF AppTyped, NativeStates
<1>9. native'[s] = lib /\ \A j \in App!Ids : j # s => native'[j] = native[j]
  BY <1>1, <1>5, <1>7 DEF AppTyped
<1>10. disposers' = disposers \cup {s}
  BY DEF App!StopSession
<1>11. ASSUME NEW j \in App!Ids PROVE Placed(j)'
  <2>0. j # 0
    BY AppIds
  <2>1. CASE j = s
    <3>1. thread'[j].at = "done" /\ j # appSession' /\ j \in disposers' /\ field' # j /\ hole'[j] \in {"owned", "none"}
          /\ native'[j] \in {"stopping", "ended", "created"}
      BY <1>2, <1>6, <1>9, <1>10, <2>0, <2>1 DEF InUse
    <3> QED BY <3>1 DEF Placed, PlacedAt, ToBeFreed
  <2>2. CASE j # s
    <3>1. ToBeFreed(j, thread[j], hole[j], native[j]) \/ AtAnEnd(j, thread[j], hole[j], native[j])
      BY <1>1, <1>2, <2>2 DEF AppSound, Placed, PlacedAt, Arriving, InUse
    <3>2. thread'[j] = thread[j] /\ hole'[j] = hole[j] /\ native'[j] = native[j] /\ field' # j /\ appSession' # j
          /\ (j \in disposers' <=> j \in disposers)
      BY <1>2, <1>9, <1>10, <2>0, <2>2
    <3> QED BY <2>2, <3>1, <3>2 DEF Placed, PlacedAt, ToBeFreed, AtAnEnd
  <2> QED BY <2>1, <2>2
<1>12. disposers' \subseteq 1 .. resumes
  BY <1>1, <1>4, <1>10 DEF AppSound
<1>13. ASSUME NEW j \in App!Ids, j > resumes PROVE native'[j] = "none"
  <2>1. j # s
    <3>1. j \in Nat /\ s \in Nat /\ s <= resumes
      BY <1>4, AppIds
    <3> QED BY <1>3, <1>13, <3>1
  <2> QED BY <1>1, <1>9, <1>13, <2>1 DEF AppSound
<1> QED BY <1>2, <1>8, <1>11, <1>12, <1>13

LEMMA StopsNone ==
  ASSUME AppAssumption, AppInv, ~raced, ~raced', App!Choose, App!Cancel \/ App!Finish
  PROVE  /\ \A j \in App!Ids : Placed(j)'
         /\ UNCHANGED <<native, field, appSession, finishers, disposers>> /\ appFaults' \subseteq appFaults \cup Excused
<1>1. AppTyped /\ AppSound
  BY DEF AppInv
<1>2. UNCHANGED <<resumes, thread, hole, native, disposers, appSession>> /\ appSession = 0
  BY DEF App!Choose, App!Cancel, App!Finish
<1>3. \A j \in App!Ids : j # 0
  BY AppIds
<1>4. \A j \in App!Ids : thread[j].at # "done" => thread[j].at # "publish" /\ thread[j].kind # "local"
  BY DEF App!Choose, App!Connecting, App!At
<1>5. field' = field /\ finishers' = finishers
  <2>1. CASE App!Cancel
    BY <2>1 DEF App!Cancel
  <2>2. CASE App!Finish
    <3>1. \A j \in App!Ids : thread[j].at = "done"
      <4>1. ~inFlight
        BY <2>2 DEF App!Finish
      <4>2. \A j \in App!Ids : ~(thread[j].at # "done" /\ thread[j].kind = "psn")
        BY <1>1, <4>1 DEF AppSound
      <4>3. ASSUME NEW j \in App!Ids, thread[j].at # "done" PROVE FALSE
        <5>1. Arriving(j, thread[j], hole[j], native[j])
          BY <4>3, OnlyOne
        <5> QED BY <1>4, <4>2, <4>3, <5>1 DEF Arriving
      <4> QED BY <4>3
    <3>2. \A j \in App!Ids : field # j
      BY <1>1, <1>2, <1>3, <3>1 DEF AppSound, Placed, PlacedAt, Arriving, InUse, ToBeFreed, AtAnEnd,
                                    PsnSteps
    <3>3. field = 0
      <4>1. field \in 0 .. resumes /\ resumes \in 0 .. ResumesMax
        BY <1>1 DEF AppSound
      <4>2. field = 0 \/ field \in App!Ids
        BY <4>1, AppIds DEF AppAssumption
      <4> QED BY <3>2, <4>2
    <3> QED BY <2>2, <3>3 DEF App!Finish
  <2> QED BY <2>1, <2>2
<1>6. ASSUME NEW j \in App!Ids PROVE Placed(j)'
  <2>1. Placed(j)
    BY <1>1 DEF AppSound
  <2>2. ~InUse(j, thread[j], hole[j], native[j])
    BY <1>2, <1>3 DEF InUse
  <2>3. CASE Arriving(j, thread[j], hole[j], native[j])
    BY <1>2, <1>4, <1>5, <2>3 DEF Placed, PlacedAt, Arriving, PsnSteps
  <2>4. CASE ToBeFreed(j, thread[j], hole[j], native[j]) \/ AtAnEnd(j, thread[j], hole[j], native[j])
    BY <1>2, <1>5, <2>4 DEF Placed, PlacedAt, ToBeFreed, AtAnEnd
  <2> QED BY <2>1, <2>2, <2>3, <2>4 DEF Placed, PlacedAt
<1>7. appFaults' \subseteq appFaults \cup Excused
  BY DEF App!Cancel, App!Finish, Excused
<1> QED BY <1>2, <1>5, <1>6, <1>7

LEMMA Stops ==
  ASSUME AppAssumption, AppInv, ~raced, ~raced', App!Choose
  PROVE  AppInv'
<1>1. AppTyped /\ AppSound
  BY DEF AppInv
<1>2. UNCHANGED <<resumes, generation, inFlight, thread, hole>>
  BY DEF App!Choose
<1>3. App!StopSession \/ App!Cancel \/ App!Finish
  BY DEF App!Choose
<1>4. resumes \in Nat
  <2>1. resumes \in 0 .. ResumesMax /\ ResumesMax \in Nat
    BY <1>1 DEF AppAssumption, AppSound
  <2> QED BY <2>1
<1>5. /\ \A j \in App!Ids : Placed(j)'
      /\ native' \in [App!Ids -> NativeStates] /\ field' \in 0 .. resumes /\ appSession' \in 0 .. resumes
      /\ finishers' = {} /\ disposers' \subseteq 1 .. resumes /\ appFaults' \subseteq Excused /\ \A j \in App!Ids : j > resumes => native'[j] = "none"
  <2>1. CASE App!StopSession
    <3>1. 0 \in 0 .. resumes
      BY <1>4
    <3>2. appFaults' = appFaults
      BY <2>1 DEF App!StopSession
    <3> QED BY <1>1, <2>1, <3>1, <3>2, StopsSession DEF AppSound
  <2>2. CASE App!Cancel \/ App!Finish
    BY <1>1, <2>2, StopsNone DEF AppSound, AppTyped
  <2> QED BY <1>3, <2>1, <2>2
<1>6. AppTyped'
  <2>1. raced' \in BOOLEAN
    BY DEF App!Choose
  <2> QED BY <1>1, <1>2, <1>5, <2>1 DEF AppTyped
<1>7. AppSound'
  BY <1>1, <1>2, <1>5 DEF AppSound
<1> QED BY <1>6, <1>7 DEF AppInv

(* The end of a session and what is freed after it.                                     *)
LEMMA EndsOrFrees ==
  ASSUME AppAssumption, AppInv, ~raced, NEW i \in App!Ids, App!SessionEnds(i) \/ App!Dispose(i) \/ App!FinishHole(i)
  PROVE  AppInv'
<1>1. AppTyped /\ AppSound /\ Placed(i)
  BY DEF AppInv, AppSound
<1>2. ~App!FinishHole(i)
  BY <1>1 DEF AppSound, App!FinishHole
<1>3. UNCHANGED <<resumes, generation, inFlight, field, appSession, thread, finishers, raced, main>> /\ \A gen : Current(gen)' <=> Current(gen)
  BY <1>2 DEF App!SessionEnds, App!Dispose, Current
<1>4. PICK of \in HoleStates, lib \in NativeStates :
        /\ hole' = [hole EXCEPT ![i] = of] /\ native' = [native EXCEPT ![i] = lib]
        /\ disposers' \in {disposers, disposers \ {i}} /\ appFaults' \subseteq Excused
        /\ Arriving(i, thread[i], of, lib)' \/ InUse(i, thread[i], of, lib)' \/ ToBeFreed(i, thread[i], of, lib)' \/ AtAnEnd(i, thread[i], of, lib)'
  <2>1. CASE App!SessionEnds(i)
    <3>1. native[i] \in {"running", "stopping"} /\ native' = [native EXCEPT ![i] = "ended"] /\ hole' = hole /\ UNCHANGED <<disposers, appFaults>>
      BY <2>1 DEF App!SessionEnds
    <3>2. hole = [hole EXCEPT ![i] = hole[i]] /\ hole[i] \in HoleStates
      BY <1>1 DEF AppTyped
    <3>3. PICK of \in HoleStates : of = hole[i]
      BY <3>2
    <3>4. Arriving(i, thread[i], of, "ended")' \/ InUse(i, thread[i], of, "ended")' \/ ToBeFreed(i, thread[i], of, "ended")'
      BY <1>1, <1>3, <3>1, <3>3 DEF Placed, PlacedAt, Arriving, InUse, ToBeFreed, AtAnEnd
    <3>5. "ended" \in NativeStates
      BY DEF NativeStates
    <3> QED BY <1>1, <3>1, <3>2, <3>3, <3>4, <3>5 DEF AppSound
  <2>2. CASE App!Dispose(i)
    <3>1. /\ i \in disposers /\ native[i] \in {"ended", "created"} /\ disposers' = disposers \ {i}
          /\ native' = [native EXCEPT ![i] = "freed"] /\ appFaults' \subseteq appFaults \cup Excused
      BY <2>2 DEF App!Dispose, App!Joined, App!Cut, Excused
    <3>2. ToBeFreed(i, thread[i], hole[i], native[i])
      BY <1>1, <3>1 DEF Placed, PlacedAt, Arriving, InUse, AtAnEnd
    <3>3. PICK of \in {"consumed", "none"} : hole' = [hole EXCEPT ![i] = of]
      <4>1. CASE hole[i] = "owned"
        BY <2>2, <4>1 DEF App!Dispose
      <4>2. CASE hole[i] = "none"
        <5>1. hole' = hole /\ hole = [hole EXCEPT ![i] = "none"]
          BY <1>1, <2>2, <4>2 DEF App!Dispose, AppTyped
        <5> QED BY <5>1
      <4> QED BY <3>2, <4>1, <4>2 DEF ToBeFreed
    <3>4. AtAnEnd(i, thread[i], of, "freed")'
      BY <1>3, <3>1, <3>2 DEF ToBeFreed, AtAnEnd
    <3>5. of \in HoleStates /\ "freed" \in NativeStates
      BY DEF HoleStates, NativeStates
    <3> QED BY <1>1, <3>1, <3>3, <3>4, <3>5 DEF AppSound
  <2> QED BY <1>2, <2>1, <2>2
<1>5. /\ hole'[i] = of /\ native'[i] = lib
      /\ \A j \in App!Ids : j # i => hole'[j] = hole[j] /\ native'[j] = native[j] /\ (j \in disposers' <=> j \in disposers)
  BY <1>1, <1>4 DEF AppTyped
<1>6. ASSUME NEW j \in App!Ids PROVE Placed(j)'
  <2>1. CASE j = i
    BY <1>4, <1>5, <2>1 DEF Placed, PlacedAt
  <2>2. CASE j # i
    <3>1. Placed(j)
      BY <1>1 DEF AppSound
    <3>2. hole'[j] = hole[j] /\ native'[j] = native[j] /\ (j \in disposers' <=> j \in disposers)
      BY <1>5, <2>2
    <3> QED BY <1>3, <3>1, <3>2 DEF Placed, PlacedAt, Arriving, InUse, ToBeFreed, AtAnEnd
  <2> QED BY <2>1, <2>2
<1>7. ASSUME NEW j \in App!Ids, j > resumes PROVE hole'[j] = "none" /\ native'[j] = "none"
  <2>1. i <= resumes
    <3>1. i \in Nat /\ resumes \in Nat
      BY <1>1, AppIds, AppNumbers
    <3>2. ~(native[i] = "none")
      <4>1. CASE App!SessionEnds(i)
        BY <4>1 DEF App!SessionEnds
      <4>2. CASE App!Dispose(i)
        BY <4>2 DEF App!Dispose, App!Joined
      <4> QED BY <1>2, <4>1, <4>2
    <3>3. ~(i > resumes)
      BY <1>1, <3>2 DEF AppSound
    <3> QED BY <3>1, <3>3
  <2>2. j # i
    <3>1. i \in Nat /\ resumes \in Nat /\ j \in Nat
      BY <1>1, AppIds, AppNumbers
    <3> QED BY <1>7, <2>1, <3>1
  <2> QED BY <1>1, <1>5, <1>7, <2>2 DEF AppSound
<1>8. AppTyped'
  BY <1>1, <1>3, <1>4 DEF AppTyped
<1>9. AppSound'
  <2>1. disposers' \subseteq 1 .. resumes
    BY <1>1, <1>4 DEF AppSound
  <2>2. \A j \in App!Ids : Placed(j)'
    BY <1>6
  <2> QED BY <1>1, <1>3, <1>4, <1>7, <2>1, <2>2 DEF AppSound
<1> QED BY <1>8, <1>9 DEF AppInv

(* What the variables hold, whether a call came where the code has no answer or not.             *)
LEMMA AppTypes == ASSUME AppAssumption, AppTyped, App!AppNext PROVE AppTyped'
<1> USE DEF AppTyped
<1>1. CASE App!Resume \/ App!Restarted
  <2>1. UNCHANGED <<generation, hole, native>>
    BY <1>1 DEF App!Resume, App!Restarted
  <2>2. CASE App!Resumes
    <3>1. PICK mode \in {"psn", "local"} :
        /\ inFlight' = (inFlight \/ mode = "psn")
        /\ thread' = [thread EXCEPT ![resumes + 1] = [kind |-> mode, gen |-> generation, at |-> IF mode = "psn" THEN "init" ELSE "native"]]
      BY <2>2 DEF App!Resumes, AppAssumption
    <3>2. [kind |-> mode, gen |-> generation, at |-> IF mode = "psn" THEN "init" ELSE "native"] \in AppThreads
      BY DEF AppThreads
    <3>3. thread' \in [App!Ids -> AppThreads]
      BY <3>1, <3>2
    <3>4. inFlight' \in BOOLEAN /\ raced' \in BOOLEAN
      BY <2>2, <3>1 DEF App!Resumes
    <3> QED BY <2>1, <3>3, <3>4
  <2>3. CASE UNCHANGED <<resumes, inFlight, thread, raced>>
    BY <2>1, <2>3
  <2> QED BY <1>1, <2>2, <2>3 DEF App!Resume, App!Restarted
<1>2. CASE App!Choose
  <2>1. App!StopSession \/ App!Cancel \/ App!Finish
    BY <1>2 DEF App!Choose
  <2>2. native' \in [App!Ids -> NativeStates]
    <3>1. native' = native \/ native' = [native EXCEPT ![appSession] = "stopping"]
      BY <2>1 DEF App!StopSession, App!Cancel, App!Finish
    <3> QED BY <3>1 DEF NativeStates
  <2>3. generation' = generation /\ raced' \in BOOLEAN /\ UNCHANGED <<inFlight, thread, hole>>
    BY <1>2 DEF App!Choose
  <2> QED BY <2>2, <2>3
<1>3. ASSUME NEW i \in App!Ids,
             \/ App!PsnInit(i) \/ App!PsnStep(i) \/ App!PsnFinis(i) \/ App!CreateFails(i) \/ App!InitFails(i) \/ App!Creates(i) \/ App!Publishes(i)
             \/ App!SessionEnds(i) \/ App!Dispose(i) \/ App!FinishHole(i)
      PROVE  AppTyped'
  <2>1. generation' = generation /\ raced' = raced
    BY <1>3 DEF App!PsnInit, App!PsnStep, App!Others, App!CreateFails, App!InitFails, App!PsnFinis, App!Others,
                App!Creates, App!Publishes,
      App!SessionEnds, App!Dispose, App!FinishHole
  <2>2. inFlight' \in BOOLEAN
    BY <1>3 DEF App!PsnInit, App!PsnStep, App!LetsGo, App!CreateFails, App!InitFails, App!PsnFinis, App!Others,
                App!Creates, App!Publishes,
      App!SessionEnds, App!Dispose, App!FinishHole
  <2>3. hole' \in [App!Ids -> HoleStates]
    <3>1. ASSUME NEW j, NEW by, App!Finis(j, by) PROVE hole' \in [App!Ids -> HoleStates]
      BY <3>1 DEF App!Finis, HoleStates
    <3>2. CASE hole' = hole
      BY <3>2
    <3>3. ASSUME NEW of \in {"open", "owned", "freed", "consumed"}, hole' = [hole EXCEPT ![i] = of]
          PROVE  hole' \in [App!Ids -> HoleStates]
      BY <3>3 DEF HoleStates
    <3>4. CASE App!PsnInit(i) \/ App!PsnStep(i) \/ App!PsnFinis(i)
      BY <3>1, <3>2, <3>3, <3>4 DEF App!PsnInit, App!PsnStep, App!PsnFinis
    <3>5. CASE App!CreateFails(i) \/ App!InitFails(i) \/ App!FinishHole(i)
      BY <3>1, <3>2, <3>3, <3>5 DEF App!CreateFails, App!InitFails, App!FinishHole
    <3>6. CASE App!Creates(i) \/ App!Publishes(i) \/ App!SessionEnds(i) \/ App!Dispose(i)
      BY <3>2, <3>3, <3>6 DEF App!Creates, App!Publishes, App!SessionEnds, App!Dispose
    <3> QED BY <1>3, <3>4, <3>5, <3>6
  <2>4. native' \in [App!Ids -> NativeStates]
    <3>1. native' = native \/ \E of \in {"ended", "created", "running", "freed"} : native' = [native EXCEPT ![i] = of]
      BY <1>3 DEF App!PsnInit, App!PsnStep, App!Others, App!CreateFails, App!InitFails, App!PsnFinis, App!Others,
                  App!Creates, App!Publishes,
        App!SessionEnds, App!Dispose, App!FinishHole
    <3> QED BY <3>1 DEF NativeStates
  <2>5. thread' \in [App!Ids -> AppThreads]
    <3>1. thread' = thread \/ \E to \in {"init", "native", "publish", "catch", "done"} \cup PsnSteps : App!Goes(i, to)
      <4>1. CASE App!PsnInit(i)
        BY <4>1 DEF App!PsnInit, PsnSteps
      <4>2. CASE App!PsnStep(i)
        <5>1. App!Goes(i, "fini") \/ (thread[i].at \in PsnSteps \ {"fini"} /\ App!Goes(i, App!Following[thread[i].at]))
          BY <4>2 DEF App!PsnStep, App!Following, PsnSteps
        <5>2. thread[i].at \in PsnSteps \ {"fini"} => App!Following[thread[i].at] \in PsnSteps \cup {"native"}
          BY DEF App!Following, PsnSteps
        <5> QED BY <5>1, <5>2 DEF PsnSteps
      <4>3. CASE App!PsnFinis(i) \/ App!CreateFails(i) \/ App!InitFails(i) \/ App!Creates(i) \/ App!Publishes(i)
        BY <4>3 DEF App!PsnFinis, App!CreateFails, App!InitFails, App!Creates, App!Publishes
      <4>4. CASE App!SessionEnds(i) \/ App!Dispose(i) \/ App!FinishHole(i)
        BY <4>4 DEF App!SessionEnds, App!Dispose, App!FinishHole
      <4> QED BY <1>3, <4>1, <4>2, <4>3, <4>4
    <3>2. ASSUME NEW to \in {"init", "native", "publish", "catch", "done"} \cup PsnSteps, App!Goes(i, to)
          PROVE  thread' \in [App!Ids -> AppThreads]
      <4>1. thread' = [thread EXCEPT ![i] = [kind |-> thread[i].kind, gen |-> thread[i].gen, at |-> to]]
        BY <3>2, ThreadGoes
      <4>2. [kind |-> thread[i].kind, gen |-> thread[i].gen, at |-> to] \in AppThreads
        BY DEF AppThreads
      <4> QED BY <4>1, <4>2
    <3> QED BY <3>1, <3>2
  <2> QED BY <2>1, <2>2, <2>3, <2>4, <2>5
<1>4. CASE App!Shutdown \/ App!Cancelled
  BY <1>4 DEF App!Shutdown, App!Cancelled
<1> QED BY <1>1, <1>2, <1>3, <1>4 DEF App!AppNext

LEMMA AppStays ==
  ASSUME AppSound,
         UNCHANGED <<resumes, generation, inFlight, field, appSession, thread, hole, native, disposers, finishers, appFaults, main>>
  PROVE  AppSound'
<1>1. ASSUME NEW i \in App!Ids, Placed(i) PROVE Placed(i)'
  <2>1. \A gen : Current(gen)' <=> Current(gen)
    BY DEF Current
  <2> QED BY <1>1, <2>1 DEF Placed, PlacedAt, Arriving, InUse, ToBeFreed, AtAnEnd
<1>2. \A i \in App!Ids : Placed(i)'
  BY <1>1 DEF AppSound
<1>3. \A i \in App!Ids : i > resumes => hole'[i] = "none" /\ native'[i] = "none" /\ thread'[i].at = "done"
  BY DEF AppSound
<1>4. inFlight' <=> \E i \in App!Ids : thread'[i].at # "done" /\ thread'[i].kind = "psn"
  BY DEF AppSound
<1> QED BY <1>2, <1>3, <1>4 DEF AppSound

LEMMA AppKeeps == ASSUME AppAssumption, AppInv, [App!AppNext]_appVars PROVE AppInv'
<1>1. CASE UNCHANGED appVars
  <2>1. AppTyped' /\ raced' = raced
    BY <1>1 DEF appVars, AppInv, AppTyped
  <2>2. AppSound => AppSound'
    BY <1>1, AppStays DEF appVars
  <2> QED BY <2>1, <2>2 DEF AppInv
<1>2. ASSUME App!AppNext, raced' PROVE AppInv'
  BY <1>2, AppTypes DEF AppInv
<1>3. ASSUME App!AppNext, ~raced' PROVE AppInv'
  <2>1. ~raced
    <3>1. raced => raced'
      BY <1>3 DEF App!AppNext, App!Resume, App!Restarted, App!Resumes, App!Shutdown, App!Choose, App!Cancelled, App!PsnInit,
                  App!PsnStep, App!Others,
        App!CreateFails, App!InitFails, App!PsnFinis, App!Others, App!Creates, App!Publishes, App!SessionEnds, App!Dispose, App!FinishHole
    <3> QED BY <1>3, <3>1
  <2>2. CASE App!Resume \/ App!Restarted
    <3>1. UNCHANGED <<generation, field, appSession, hole, native, disposers, finishers, appFaults, main>>
      BY <2>2 DEF App!Resume, App!Restarted
    <3>2. CASE App!Resumes
      BY <1>3, <3>1, <3>2, ResumeBegins
    <3>3. CASE UNCHANGED <<resumes, inFlight, thread, raced>>
      <4>1. AppTyped'
        BY <3>1, <3>3 DEF AppInv, AppTyped
      <4>2. AppSound'
        BY <2>1, <3>1, <3>3, AppStays DEF AppInv
      <4> QED BY <4>1, <4>2 DEF AppInv
    <3> QED BY <2>2, <3>2, <3>3 DEF App!Resume, App!Restarted
  <2>3. CASE App!Choose
    BY <1>3, <2>1, <2>3, Stops
  <2>7. CASE App!Shutdown \/ App!Cancelled
    BY <2>7, Begun, Returns
  <2>4. ASSUME NEW i \in App!Ids, App!PsnInit(i) \/ App!PsnStep(i) \/ App!PsnFinis(i) PROVE AppInv'
    BY <2>1, <2>4, PsnGoesOn
  <2>5. ASSUME NEW i \in App!Ids, App!CreateFails(i) \/ App!InitFails(i) \/ App!Creates(i) \/ App!Publishes(i) PROVE AppInv'
    BY <2>1, <2>5, HandleGoesOn
  <2>6. ASSUME NEW i \in App!Ids, App!SessionEnds(i) \/ App!Dispose(i) \/ App!FinishHole(i) PROVE AppInv'
    BY <2>1, <2>6, EndsOrFrees
  <2> QED BY <1>3, <2>2, <2>3, <2>4, <2>5, <2>6, <2>7 DEF App!AppNext
<1> QED BY <1>1, <1>2, <1>3

LEMMA AppCardinality == \A S : App!Cardinality(S) = Cardinality(S)
BY DEF App!Cardinality, Cardinality

LEMMA AppImplied == ASSUME AppAssumption, AppInv PROVE App!SessionsAreSound
<1> SUFFICES ASSUME ~raced PROVE
      /\ appFaults \subseteq Excused /\ App!Cardinality(App!Live) <= 1
      /\ appSession # 0 => /\ native[appSession] \in {"running", "ended"}
                           /\ main.at # "choose" => thread[appSession].gen = generation
      /\ inFlight <=> \E i \in App!Connecting : thread[i].kind = "psn"
      /\ (App!Settled /\ appSession = 0) => \A i \in App!Ids : hole[i] \in {"none", "freed", "consumed"} /\ native[i] \in {"none", "freed"}
  BY DEF App!SessionsAreSound, Excused
<1>1. AppSound
  BY DEF AppInv
<1>2. \A i \in App!Ids : Placed(i) /\ i # 0
  BY <1>1, AppIds DEF AppSound
<1>3. App!Cardinality(App!Live) <= 1
  <2>1. \A i, j \in App!Live : i = j
    <3>1. \A i \in App!Live : i \in App!Ids /\ ((i = resumes /\ appSession = 0) \/ i = appSession)
      BY <1>2 DEF App!Live, Placed, PlacedAt, Arriving, InUse, ToBeFreed, AtAnEnd
    <3>2. \A i \in App!Live : i # 0
      BY <1>2 DEF App!Live
    <3> QED BY <3>1, <3>2
  <2>2. CASE App!Live = {}
    BY <2>2, FS_EmptySet, AppCardinality
  <2>3. CASE App!Live # {}
    <3>1. PICK x : x \in App!Live
      BY <2>3
    <3>2. App!Live = {x}
      BY <2>1, <3>1
    <3>3. Cardinality({x}) = 1
      BY FS_Singleton
    <3> QED BY <3>2, <3>3, AppCardinality
  <2> QED BY <2>2, <2>3
<1>4. appSession # 0 => /\ native[appSession] \in {"running", "ended"}
                        /\ main.at # "choose" => thread[appSession].gen = generation
  <2>1. resumes \in 0 .. ResumesMax /\ appSession \in 0 .. resumes /\ ResumesMax \in Nat
    BY <1>1 DEF AppAssumption, AppSound
  <2>2. appSession # 0 => appSession \in App!Ids
    BY <2>1, AppIds
  <2> QED BY <1>2, <2>2 DEF Placed, PlacedAt, Arriving, InUse, ToBeFreed, AtAnEnd, Current
<1>5. inFlight <=> \E i \in App!Connecting : thread[i].kind = "psn"
  BY <1>1 DEF AppSound, App!Connecting
<1>6. ASSUME App!Settled, appSession = 0, NEW i \in App!Ids
      PROVE  hole[i] \in {"none", "freed", "consumed"} /\ native[i] \in {"none", "freed"}
  <2>1. thread[i].at = "done" /\ i \notin disposers
    BY <1>6 DEF App!Settled, App!Connecting
  <2> QED BY <1>2, <1>6, <2>1 DEF Placed, PlacedAt, Arriving, InUse, ToBeFreed, AtAnEnd, PsnSteps
<1> QED BY <1>1, <1>3, <1>4, <1>5, <1>6 DEF AppSound

(* However shutdowns and failures fall among the steps of a connection, one session runs at most,  *)
(* and what its threads use is freed after its last use, unless the code has no answer to the      *)
(* moment; the one object used or freed when it is gone is the holepunch session, by a cancel     *)
(* of the main thread and by the catch after a session that could not be made.                   *)
THEOREM SessionsEndInOrder == MCSpec => []App!SessionsAreSound
<1> USE AppAssumption
<1>1. MCInit => AppInv
  BY AppStarts DEF MCInit
<1>2. AppInv /\ [MCNext]_<<part, pacingVars, cloudVars, catalogVars, backVars, hostVars, syncVars, ctlVars, outVars, sendVars, videoVars, audioVars, nativeVars, appVars>> => AppInv'
  <2>1. [MCNext]_<<part, pacingVars, cloudVars, catalogVars, backVars, hostVars, syncVars, ctlVars, outVars, sendVars, videoVars, audioVars, nativeVars, appVars>> => [App!AppNext]_appVars
    BY DEF MCNext
  <2> QED BY <2>1, AppKeeps
<1>3. AppInv => App!SessionsAreSound
  BY AppImplied
<1> QED BY <1>1, <1>2, <1>3, PTL DEF MCSpec

(* What the native interface and the sessions of the Android application hold they give back   *)
(* after its last use, on every path but those that PartsAreGivenBack and SessionsEndInOrder name.  *)
THEOREM AndroidsGiveBack == MCSpec => []AndroidGivesBack
BY PartsAreGivenBack, SessionsEndInOrder, PTL DEF AndroidGivesBack

(* The decoder of the Android application outlives the threads that use it, and its sound reaches *)
(* the device whole and in order.                                                      *)
THEOREM AndroidsPlay == MCSpec => []AndroidPlays
BY CodecIsKept, SoundInOrder, PTL DEF AndroidPlays
-----------------------------------------------------------------------------
(* What a session of the desktop plays and hears.                                      *)

LEMMA BytesDivided ==
  ASSUME NEW M \in Nat \ {0}, NEW k \in Nat
  PROVE  k \div M \in Int /\ k % M \in 0 .. (M - 1) /\ k = (k \div M) * M + (k % M)
BY SMT

(* What is known of sequences.                                                        *)
LEMMA SameSeq ==
  ASSUME NEW S, NEW s \in Seq(S), NEW t \in Seq(S), Len(s) = Len(t), \A i \in 1 .. Len(s) : s[i] = t[i]
  PROVE  s = t
OBVIOUS

LEMMA ElementIn == ASSUME NEW S, NEW s \in Seq(S), NEW i \in 1 .. Len(s) PROVE s[i] \in S
OBVIOUS

LEMMA LenIsNat == ASSUME NEW S, NEW s \in Seq(S) PROVE Len(s) \in Nat
OBVIOUS

LEMMA ConcatIs ==
  ASSUME NEW S, NEW s \in Seq(S), NEW t \in Seq(S)
  PROVE  /\ s \o t \in Seq(S) /\ Len(s \o t) = Len(s) + Len(t)
         /\ \A i \in 1 .. Len(s) + Len(t) : (s \o t)[i] = IF i <= Len(s) THEN s[i] ELSE t[i - Len(s)]
OBVIOUS

LEMMA SubSeqIs ==
  ASSUME NEW S, NEW s \in Seq(S), NEW m \in Nat, NEW n \in Nat, m + n <= Len(s)
  PROVE  /\ SubSeq(s, m + 1, m + n) \in Seq(S) /\ Len(SubSeq(s, m + 1, m + n)) = n
         /\ \A i \in 1 .. n : SubSeq(s, m + 1, m + n)[i] = s[m + i]
OBVIOUS

(* Packets of n bytes each come before packet k + 1.                                       *)
BytesAt(k, n) == k * n
LEMMA BytesBefore ==
  ASSUME NEW n \in Nat, NEW a \in Nat, NEW b \in Nat
  PROVE  /\ BytesAt(a, n) \in Nat /\ BytesAt(b, n) \in Nat
         /\ BytesAt(a + b, n) = BytesAt(a, n) + BytesAt(b, n) /\ BytesAt(a + 1, n) = BytesAt(a, n) + n
BY SMT DEF BytesAt

(* The first l of s are those that follow m others in t.                                     *)
Found(s, l, m, t) == \A i \in 1 .. l : s[i] = t[m + i]
(* Packets pk of n bytes each and a rest bf cut the bytes of hd, in their order.                *)
Cuts(n, pk, bf, hd) ==
  /\ hd \in Seq(Int) /\ bf \in Seq(Int) /\ pk \in Seq(Seq(Int)) /\ Len(hd) = BytesAt(Len(pk), n) + Len(bf)
  /\ \A k \in 1 .. Len(pk) : Len(pk[k]) = n /\ Found(pk[k], n, BytesAt(k - 1, n), hd)
  /\ Found(bf, Len(bf), BytesAt(Len(pk), n), hd)

LEMMA PacketIsBefore ==
  ASSUME NEW n \in Nat, NEW q \in Nat, NEW k \in 1 .. q
  PROVE  /\ BytesAt(k - 1, n) \in Nat /\ BytesAt(k, n) \in Nat /\ BytesAt(q, n) \in Nat
         /\ BytesAt(k, n) = BytesAt(k - 1, n) + n /\ BytesAt(k, n) <= BytesAt(q, n)
<1>1. k - 1 \in Nat /\ q - k \in Nat /\ (k - 1) + 1 = k /\ k + (q - k) = q /\ k \in Nat
  OBVIOUS
<1>2. BytesAt((k - 1) + 1, n) = BytesAt(k - 1, n) + n /\ BytesAt(k - 1, n) \in Nat
  BY <1>1, BytesBefore
<1>3. BytesAt(k + (q - k), n) = BytesAt(k, n) + BytesAt(q - k, n) /\ BytesAt(q - k, n) \in Nat /\ BytesAt(k, n) \in Nat
  BY <1>1, BytesBefore
<1>4. BytesAt(k, n) = BytesAt(k - 1, n) + n /\ BytesAt(q, n) = BytesAt(k, n) + BytesAt(q - k, n)
  BY <1>1, <1>2, <1>3, Zenon
<1>5. BytesAt(q, n) \in Nat
  BY BytesBefore
<1> QED BY <1>2, <1>3, <1>4, <1>5

LEMMA FoundAll ==
  ASSUME NEW s \in Seq(Int), NEW t \in Seq(Int), NEW l \in Nat, Len(s) = l, Len(t) = l, NEW u, NEW m \in Nat,
         Found(s, l, m, u), Found(t, l, m, u)
  PROVE  s = t
<1>1. \A i \in 1 .. Len(s) : s[i] = t[i]
  BY DEF Found
<1> QED BY <1>1, SameSeq

(* A piece of bytes that are found in others further on.                                     *)
LEMMA Piece ==
  ASSUME NEW bytes \in Seq(Int), NEW more, NEW m \in Nat, NEW n \in Nat, NEW P \in Nat, NEW l \in Nat, Len(bytes) = l,
         m + n <= l, Found(bytes, l, P, more)
  PROVE  /\ SubSeq(bytes, m + 1, m + n) \in Seq(Int) /\ Len(SubSeq(bytes, m + 1, m + n)) = n
         /\ Found(SubSeq(bytes, m + 1, m + n), n, P + m, more)
<1>1. m + n <= Len(bytes)
  OBVIOUS
<1>3. /\ SubSeq(bytes, m + 1, m + n) \in Seq(Int) /\ Len(SubSeq(bytes, m + 1, m + n)) = n
      /\ \A i \in 1 .. n : SubSeq(bytes, m + 1, m + n)[i] = bytes[m + i]
  BY <1>1, SubSeqIs
<1>4. ASSUME NEW j \in 1 .. n PROVE SubSeq(bytes, m + 1, m + n)[j] = more[P + m + j]
  <2>1. m + j \in 1 .. l /\ P + (m + j) = P + m + j
    OBVIOUS
  <2>2. bytes[m + j] = more[P + (m + j)]
    BY <2>1 DEF Found
  <2> QED BY <1>3, <2>1, <2>2
<1>6. Found(SubSeq(bytes, m + 1, m + n), n, P + m, more)
  BY <1>4 DEF Found
<1> QED BY <1>3, <1>6

LEMMA CutsAreCuts ==
  ASSUME NEW n \in Nat, NEW pk, NEW bf, NEW hd, Cuts(n, pk, bf, hd)
  PROVE  /\ \A k \in 1 .. Len(pk) : pk[k] = SubSeq(hd, (k - 1) * n + 1, k * n)
         /\ bf = SubSeq(hd, Len(pk) * n + 1, Len(hd))
<1>1. hd \in Seq(Int) /\ bf \in Seq(Int) /\ pk \in Seq(Seq(Int)) /\ Len(hd) = BytesAt(Len(pk), n) + Len(bf)
  BY DEF Cuts
<1>2. Len(pk) \in Nat /\ Len(bf) \in Nat /\ Len(hd) \in Nat
  BY <1>1, LenIsNat
<1>p. PICK P \in Nat : P = BytesAt(Len(pk), n)
  BY <1>2, BytesBefore
<1>e. PICK e \in Nat : e = Len(bf)
  BY <1>2
<1>3. Len(hd) = P + e
  BY <1>1, <1>p, <1>e
<1>4. Found(hd, Len(hd), 0, hd)
  <2>1. \A i \in 1 .. Len(hd) : 0 + i = i
    OBVIOUS
  <2> QED BY <2>1 DEF Found
<1>5. ASSUME NEW k \in 1 .. Len(pk) PROVE pk[k] = SubSeq(hd, (k - 1) * n + 1, k * n)
  <2>m. PICK m \in Nat : m = BytesAt(k - 1, n) /\ BytesAt(k, n) = m + n /\ m + n <= P
    <3>1. /\ BytesAt(k - 1, n) \in Nat /\ BytesAt(k, n) = BytesAt(k - 1, n) + n
          /\ BytesAt(k, n) <= BytesAt(Len(pk), n)
      BY <1>2, PacketIsBefore
    <3> QED BY <1>p, <3>1
  <2>t. PICK t : t = SubSeq(hd, m + 1, m + n)
    OBVIOUS
  <2>1. m + n <= Len(hd) /\ 0 \in Nat /\ 0 + m = m
    BY <1>3, <2>m
  <2>2. t \in Seq(Int) /\ Len(t) = n /\ Found(t, n, 0 + m, hd)
    <3>1. /\ SubSeq(hd, m + 1, m + n) \in Seq(Int) /\ Len(SubSeq(hd, m + 1, m + n)) = n
          /\ Found(SubSeq(hd, m + 1, m + n), n, 0 + m, hd)
      BY <1>1, <1>2, <1>4, <2>1, Piece
    <3> QED BY <2>t, <3>1, Zenon
  <2>3. pk[k] \in Seq(Int) /\ Len(pk[k]) = n /\ Found(pk[k], n, m, hd)
    BY <1>1, <2>m, ElementIn DEF Cuts
  <2>4. pk[k] = t
    BY <2>1, <2>2, <2>3, FoundAll
  <2>5. (k - 1) * n = m /\ k * n = m + n
    BY <2>m DEF BytesAt
  <2> QED BY <2>t, <2>4, <2>5, Zenon
<1>6. bf = SubSeq(hd, Len(pk) * n + 1, Len(hd))
  <2>t. PICK t : t = SubSeq(hd, P + 1, P + e)
    OBVIOUS
  <2>1. P + e <= Len(hd) /\ 0 \in Nat /\ 0 + P = P
    BY <1>3
  <2>2. t \in Seq(Int) /\ Len(t) = e /\ Found(t, e, 0 + P, hd)
    <3>1. /\ SubSeq(hd, P + 1, P + e) \in Seq(Int) /\ Len(SubSeq(hd, P + 1, P + e)) = e
          /\ Found(SubSeq(hd, P + 1, P + e), e, 0 + P, hd)
      BY <1>1, <1>2, <1>4, <2>1, Piece
    <3> QED BY <2>t, <3>1, Zenon
  <2>3. Found(bf, e, P, hd)
    BY <1>p, <1>e DEF Cuts
  <2>4. bf = t
    BY <1>1, <1>e, <2>1, <2>2, <2>3, FoundAll
  <2>5. Len(pk) * n = P
    BY <1>p DEF BytesAt
  <2> QED BY <1>3, <2>t, <2>4, <2>5, Zenon
<1> QED BY <1>5, <1>6

(* The bytes of ch come behind a rest and behind all that the rest is the end of.               *)
Behind(hd, bf, ch, P, b, bytes, more) ==
  /\ hd \in Seq(Int) /\ bf \in Seq(Int) /\ ch \in Seq(Int) /\ P \in Nat /\ b \in Nat /\ b = Len(bf)
  /\ Len(hd) = P + b /\ Found(bf, b, P, hd) /\ bytes = bf \o ch /\ more = hd \o ch
LEMMA PutBehind ==
  ASSUME NEW hd, NEW bf, NEW ch, NEW P, NEW b, NEW bytes, NEW more, Behind(hd, bf, ch, P, b, bytes, more)
  PROVE  /\ bytes \in Seq(Int) /\ more \in Seq(Int) /\ Len(bytes) \in Nat /\ Len(more) = P + Len(bytes)
         /\ Found(bytes, Len(bytes), P, more) /\ \A i \in 1 .. Len(hd) : more[i] = hd[i]
<1>0. /\ hd \in Seq(Int) /\ bf \in Seq(Int) /\ ch \in Seq(Int) /\ P \in Nat /\ b \in Nat /\ b = Len(bf)
      /\ Len(hd) = P + b /\ Found(bf, b, P, hd) /\ bytes = bf \o ch /\ more = hd \o ch
  BY DEF Behind
<1>c. PICK c \in Nat : c = Len(ch)
  BY <1>0, LenIsNat
<1>1. /\ bytes \in Seq(Int) /\ Len(bytes) = b + c
      /\ \A i \in 1 .. b + c : bytes[i] = IF i <= b THEN bf[i] ELSE ch[i - b]
  BY <1>0, <1>c, ConcatIs
<1>h. PICK h \in Nat : h = P + b
  BY <1>0
<1>2. /\ more \in Seq(Int) /\ Len(more) = h + c
      /\ \A i \in 1 .. h + c : more[i] = IF i <= h THEN hd[i] ELSE ch[i - h]
  BY <1>0, <1>c, <1>h, ConcatIs
<1>3. \A i \in 1 .. h + c : more[i] = IF i <= h THEN hd[i] ELSE ch[i - h]
  BY <1>0, <1>2
<1>4. ASSUME NEW i \in 1 .. b + c PROVE bytes[i] = more[P + i]
  <2>1. i \in Nat /\ P + i \in 1 .. h + c /\ (i <= b <=> P + i <= h) /\ (P + i) - h = i - b /\ (i <= b => i \in 1 .. b)
    BY <1>0, <1>h
  <2>2. i <= b => bf[i] = hd[P + i]
    BY <1>0, <2>1 DEF Found
  <2>3. bytes[i] = IF i <= b THEN bf[i] ELSE ch[i - b]
    BY <1>0, <1>1
  <2>4. more[P + i] = IF P + i <= h THEN hd[P + i] ELSE ch[(P + i) - h]
    <3>1. P + i \in 1 .. h + c
      BY <1>0, <2>1
    <3> QED BY <1>0, <1>3, <3>1, Zenon
  <2> QED BY <1>0, <2>1, <2>2, <2>3, <2>4
<1>5. \A i \in 1 .. h : i \in 1 .. h + c /\ i <= h
  BY <1>0, <1>c
<1>6. \A i \in 1 .. Len(hd) : more[i] = hd[i]
  BY <1>0, <1>2, <1>5, <1>h
<1>7. Found(bytes, b + c, P, more)
  BY <1>0, <1>4 DEF Found
<1>8. h + c = P + (b + c) /\ b + c \in Nat
  BY <1>0, <1>h
<1> QED BY <1>0, <1>1, <1>2, <1>6, <1>7, <1>8

(* The q pieces of n bytes each at the front of some bytes.                              *)
Pieces(bytes, q, n) == [k \in 1 .. q |-> SubSeq(bytes, BytesAt(k - 1, n) + 1, BytesAt(k, n))]
(* More bytes are put behind, and what is whole is packed.                                  *)
Grows(n, pk, bf, hd, ch, bytes, q, Q, r, l, pcs) ==
  /\ Cuts(n, pk, bf, hd) /\ ch \in Seq(Int) /\ bytes = bf \o ch /\ l = Len(bytes) /\ Q = BytesAt(q, n) /\ l = Q + r
  /\ pcs = Pieces(bytes, q, n)
LEMMA CutsOn ==
  ASSUME NEW n \in Nat, NEW pk, NEW bf, NEW hd, NEW ch, NEW bytes, NEW q \in Nat, NEW Q \in Nat, NEW r \in Nat,
         NEW l \in Nat, NEW pcs, Grows(n, pk, bf, hd, ch, bytes, q, Q, r, l, pcs)
  PROVE  Cuts(n, pk \o pcs, SubSeq(bytes, Q + 1, Q + r), hd \o ch)
<1>w. Q = BytesAt(q, n) /\ l = Q + r
  BY DEF Grows
<1>g. ch \in Seq(Int) /\ bytes = bf \o ch /\ l = Len(bytes)
  BY DEF Grows
<1>s. pcs = Pieces(bytes, q, n)
  BY DEF Grows
<1>t. Cuts(n, pk, bf, hd)
  BY DEF Grows
<1>1. hd \in Seq(Int) /\ bf \in Seq(Int) /\ pk \in Seq(Seq(Int)) /\ Len(hd) = BytesAt(Len(pk), n) + Len(bf)
  BY <1>t DEF Cuts
<1>2. Len(pk) \in Nat /\ Len(bf) \in Nat /\ Len(hd) \in Nat
  BY <1>1, LenIsNat
<1>p. PICK p \in Nat : p = Len(pk)
  BY <1>2
<1>P. PICK P \in Nat : P = BytesAt(p, n)
  BY BytesBefore
<1>m. PICK more : more = hd \o ch
  OBVIOUS
<1>b. PICK b \in Nat : b = Len(bf)
  BY <1>2
<1>3. /\ bytes \in Seq(Int) /\ more \in Seq(Int) /\ Len(more) = P + l /\ Found(bytes, l, P, more)
      /\ \A i \in 1 .. Len(hd) : more[i] = hd[i]
  <2>0. Found(bf, Len(bf), BytesAt(Len(pk), n), hd)
    BY <1>t DEF Cuts
  <2>1. Len(hd) = P + b /\ Found(bf, b, P, hd)
    <3>1. BytesAt(Len(pk), n) = P
      BY <1>p, <1>P, Zenon
    <3>2. Len(hd) = P + b
      BY <1>1, <1>b, <3>1
    <3>3. Found(bf, b, P, hd)
      BY <1>b, <2>0, <3>1, Zenon
    <3> QED BY <3>2, <3>3, Zenon
  <2>2. /\ bytes \in Seq(Int) /\ more \in Seq(Int) /\ Len(more) = P + Len(bytes) /\ Found(bytes, Len(bytes), P, more)
        /\ \A i \in 1 .. Len(hd) : more[i] = hd[i]
    <3>1. P \in Nat /\ b \in Nat
      OBVIOUS
    <3>2. Behind(hd, bf, ch, P, b, bytes, more)
      BY <1>g, <1>1, <1>m, <1>b, <2>1, <3>1, Zenon DEF Behind
    <3> QED BY <3>2, PutBehind
  <2> QED BY <1>g, <2>2, Zenon
<1>4. ASSUME NEW k \in 1 .. q PROVE pcs[k] \in Seq(Int) /\ Len(pcs[k]) = n /\ Found(pcs[k], n, P + BytesAt(k - 1, n), more)
  <2>m. PICK m \in Nat : m = BytesAt(k - 1, n) /\ BytesAt(k, n) = m + n /\ m + n <= Q
    <3>1. BytesAt(k - 1, n) \in Nat /\ BytesAt(k, n) = BytesAt(k - 1, n) + n /\ BytesAt(k, n) <= BytesAt(q, n)
      BY PacketIsBefore
    <3> QED BY <1>w, <3>1
  <2>1. m + n <= l
    BY <1>w, <2>m
  <2>2. /\ SubSeq(bytes, m + 1, m + n) \in Seq(Int) /\ Len(SubSeq(bytes, m + 1, m + n)) = n
        /\ Found(SubSeq(bytes, m + 1, m + n), n, P + m, more)
    <3>1. bytes \in Seq(Int) /\ Len(bytes) = l /\ Found(bytes, l, P, more)
      BY <1>g, <1>3, Zenon
    <3> QED BY <2>1, <3>1, Piece
  <2>3. pcs[k] = SubSeq(bytes, m + 1, m + n)
    <3>1. pcs[k] = SubSeq(bytes, BytesAt(k - 1, n) + 1, BytesAt(k, n))
      BY <1>s DEF Pieces
    <3> QED BY <2>m, <3>1, Zenon
  <2> QED BY <2>m, <2>2, <2>3, Zenon
<1>5. pcs \in Seq(Seq(Int)) /\ Len(pcs) = q
  <2>1. \A k \in 1 .. q : pcs[k] \in Seq(Int)
    BY <1>4
  <2>2. DOMAIN pcs = 1 .. q /\ pcs = [k \in DOMAIN pcs |-> pcs[k]]
    BY <1>s DEF Pieces
  <2>3. pcs \in [1 .. q -> Seq(Int)]
    BY <2>1, <2>2
  <2> QED BY <2>3
<1>a. PICK all : all = pk \o pcs
  OBVIOUS
<1>c. PICK T : T = Seq(Int)
  OBVIOUS
<1>d. pk \in Seq(T) /\ pcs \in Seq(T)
  BY <1>1, <1>5, <1>c
<1>6. /\ all \in Seq(T) /\ Len(all) = p + q /\ \A k \in 1 .. p + q : all[k] = IF k <= p THEN pk[k] ELSE pcs[k - p]
  BY <1>5, <1>a, <1>d, <1>p, ConcatIs
<1>e. \A k \in 1 .. p + q : all[k] = IF k <= p THEN pk[k] ELSE pcs[k - p]
  BY <1>6
<1>7. ASSUME NEW k \in 1 .. p + q PROVE Len(all[k]) = n /\ Found(all[k], n, BytesAt(k - 1, n), more)
  <2>1. CASE k <= p
    <3>1. k \in 1 .. p /\ all[k] = pk[k]
      BY <1>e, <2>1
    <3>2. Len(pk[k]) = n /\ Found(pk[k], n, BytesAt(k - 1, n), hd)
      BY <1>t, <1>p, <3>1 DEF Cuts
    <3>m. PICK m \in Nat : m = BytesAt(k - 1, n) /\ m + n <= P
      <4>1. BytesAt(k - 1, n) \in Nat /\ BytesAt(k, n) = BytesAt(k - 1, n) + n /\ BytesAt(k, n) <= BytesAt(p, n)
        BY <3>1, PacketIsBefore
      <4> QED BY <1>P, <4>1
    <3>0. Len(hd) = P + b
      BY <1>1, <1>p, <1>P, <1>b
    <3>h. PICK h \in Nat : h = Len(hd) /\ P <= h
      BY <1>2, <3>0
    <3>3. \A j \in 1 .. n : m + j \in 1 .. h
      BY <3>m, <3>h
    <3>4. \A j \in 1 .. n : more[m + j] = hd[m + j]
      BY <1>3, <3>h, <3>3
    <3>5. Found(pk[k], n, m, more)
      BY <3>2, <3>4, <3>m DEF Found
    <3> QED BY <3>1, <3>2, <3>5, <3>m, Zenon
  <2>2. CASE ~(k <= p)
    <3>h. PICK h \in 1 .. q : k = p + h
      <4>1. k - p \in 1 .. q /\ k = p + (k - p)
        BY <2>2
      <4> QED BY <4>1
    <3>1. k - p = h
      BY <3>h
    <3>2. all[k] = pcs[h]
      BY <1>e, <2>2, <3>1, Zenon
    <3>3. BytesAt(k - 1, n) = P + BytesAt(h - 1, n)
      <4>1. h - 1 \in Nat /\ k - 1 = p + (h - 1)
        BY <3>h
      <4>2. BytesAt(p + (h - 1), n) = BytesAt(p, n) + BytesAt(h - 1, n)
        BY <4>1, BytesBefore
      <4> QED BY <1>P, <4>1, <4>2, Zenon
    <3> QED BY <1>4, <3>2, <3>3, Zenon
  <2> QED BY <2>1, <2>2
<1>l. PICK left : left = SubSeq(bytes, Q + 1, Q + r)
  OBVIOUS
<1>8. left \in Seq(Int) /\ Len(left) = r /\ Found(left, r, P + Q, more)
  <2>1. Q + r <= l
    BY <1>w
  <2>2. /\ SubSeq(bytes, Q + 1, Q + r) \in Seq(Int) /\ Len(SubSeq(bytes, Q + 1, Q + r)) = r
        /\ Found(SubSeq(bytes, Q + 1, Q + r), r, P + Q, more)
    <3>1. bytes \in Seq(Int) /\ Len(bytes) = l /\ Found(bytes, l, P, more)
      BY <1>g, <1>3, Zenon
    <3> QED BY <2>1, <3>1, Piece
  <2> QED BY <1>l, <2>2, Zenon
<1>9. BytesAt(p + q, n) = P + Q
  BY <1>w, <1>P, BytesBefore
<1>10. Cuts(n, all, left, more)
  <2>1. Len(more) = BytesAt(Len(all), n) + Len(left)
    BY <1>w, <1>3, <1>6, <1>8, <1>9
  <2>2. Found(left, Len(left), BytesAt(Len(all), n), more)
    BY <1>6, <1>8, <1>9, Zenon
  <2>3. \A k \in 1 .. Len(all) : Len(all[k]) = n /\ Found(all[k], n, BytesAt(k - 1, n), more)
    <3>1. Len(all) = p + q
      BY <1>6
    <3> QED BY <1>7, <3>1, Zenon
  <2>4. all \in Seq(Seq(Int))
    BY <1>6, <1>c, Zenon
  <2> QED BY <1>3, <1>8, <2>1, <2>2, <2>3, <2>4, Zenon DEF Cuts
<1> QED BY <1>10, <1>a, <1>l, <1>m, Zenon

(* What the microphone gave while it was not muted is cut into packets and a rest.             *)
MicInv ==
  /\ given \in Int /\ Cuts(MicSize, packets, buffer, heard) /\ micOpen \in BOOLEAN /\ (~micOpen => buffer = <<>>)
(* The last message under way says what the client shows; one that opens the microphone is      *)
(* under way, or has been.                                                         *)
LastSays == wire # <<>> => wire[Len(wire)] = IF muted THEN "mute" ELSE "unmute"
WireInv ==
  /\ wire \in Seq({"connect", "mute", "unmute"}) /\ outConsole \in [connected : BOOLEAN, muted : BOOLEAN]
  /\ muted \in BOOLEAN /\ micOpen \in BOOLEAN /\ (~muted => micOpen)
  /\ (micOpen => outConsole.connected \/ \E i \in 1 .. Len(wire) : wire[i] = "connect")
  /\ (wire = <<>> => outConsole.muted = muted) /\ LastSays
QueuedInv == queued \in Nat /\ queued <= 3 * BufferSize + FrameSize
OutInv == MicInv /\ WireInv /\ QueuedInv

LEMMA CutsOfNothing ==
  ASSUME NEW n \in Nat, NEW pk, NEW bf, NEW hd, pk = <<>>, bf = <<>>, hd = <<>>
  PROVE  Cuts(n, pk, bf, hd)
<1>1. BytesAt(0, n) = 0
  BY DEF BytesAt
<1>2. Len(pk) = 0 /\ Len(bf) = 0 /\ Len(hd) = 0 /\ bf \in Seq(Int) /\ hd \in Seq(Int) /\ pk \in Seq(Seq(Int))
  OBVIOUS
<1> QED BY <1>1, <1>2 DEF Cuts, Found

LEMMA OutStarts == ASSUME OutAssumption, Out!Start PROVE OutInv
<1>0. /\ wire = <<>> /\ outConsole = [connected |-> FALSE, muted |-> TRUE] /\ muted = TRUE /\ micOpen = FALSE
      /\ given = 0 /\ heard = <<>> /\ buffer = <<>> /\ packets = <<>>
  BY DEF Out!Start
<1>1. MicInv
  <2>1. packets = <<>> /\ buffer = <<>> /\ heard = <<>> /\ MicSize \in Nat
    BY <1>0 DEF OutAssumption
  <2>2. Cuts(MicSize, packets, buffer, heard)
    BY <2>1, CutsOfNothing
  <2>3. given \in Int
    BY <1>0
  <2>4. micOpen \in BOOLEAN
    BY <1>0, Zenon
  <2> QED BY <2>1, <2>2, <2>3, <2>4, Zenon DEF MicInv
<1>2. WireInv
  <2>1. <<>> \in Seq({"connect", "mute", "unmute"}) /\ LastSays
    BY <1>0 DEF LastSays
  <2>2. [connected |-> FALSE, muted |-> TRUE] \in [connected : BOOLEAN, muted : BOOLEAN]
    OBVIOUS
  <2> QED BY <1>0, <2>1, <2>2, Zenon DEF WireInv
<1>3. QueuedInv
  BY DEF OutAssumption, Out!Start, QueuedInv
<1> QED BY <1>1, <1>2, <1>3 DEF OutInv

LEMMA TogglesWire ==
  ASSUME WireInv, Out!Toggles
  PROVE  WireInv'
<1> DEFINE W == {"connect", "mute", "unmute"}
<1>1. /\ muted' = ~muted /\ micOpen' = TRUE /\ outConsole' = outConsole
      /\ wire' = wire \o (IF micOpen THEN <<>> ELSE <<"connect">>) \o <<Out!Message(muted)>>
  BY DEF Out!Toggles, Out!InitMic
<1>2. PICK one : one = (IF micOpen THEN <<>> ELSE <<"connect">>)
  OBVIOUS
<1>3. PICK last : last = Out!Message(muted)
  OBVIOUS
<1>4. last \in W /\ last = IF muted THEN "unmute" ELSE "mute"
  BY <1>3 DEF Out!Message
<1>5. one \in Seq(W) /\ (micOpen => Len(one) = 0) /\ (~micOpen => Len(one) = 1 /\ one[1] = "connect")
  <2>1. CASE micOpen
    <3>1. one = <<>>
      BY <1>2, <2>1
    <3> QED BY <2>1, <3>1
  <2>2. CASE ~micOpen
    <3>1. one = <<"connect">>
      BY <1>2, <2>2
    <3> QED BY <2>2, <3>1
  <2> QED BY <2>1, <2>2
<1>6. PICK w : w = wire \o one
  OBVIOUS
<1>7. wire \in Seq(W)
  BY DEF WireInv
<1>8. w \in Seq(W) /\ Len(w) = Len(wire) + Len(one) /\ \A i \in 1 .. Len(wire) + Len(one) : w[i] = IF i <= Len(wire) THEN wire[i] ELSE one[i - Len(wire)]
  BY <1>5, <1>6, <1>7, ConcatIs
<1>9. wire' = Append(w, last)
  BY <1>1, <1>2, <1>3, <1>4, <1>6, <1>8
<1>10. wire' \in Seq(W) /\ wire' # <<>> /\ Len(wire') = Len(w) + 1 /\ wire'[Len(w) + 1] = last /\ \A i \in 1 .. Len(w) : wire'[i] = w[i]
  BY <1>4, <1>8, <1>9
<1>11. LastSays'
  BY <1>1, <1>4, <1>10 DEF WireInv, LastSays
<1>12. outConsole'.connected \/ \E i \in 1 .. Len(wire') : wire'[i] = "connect"
  <2>1. CASE ~micOpen
    <3>l. PICK l \in Nat : l = Len(wire)
      BY <1>7
    <3>1. Len(one) = 1 /\ one[1] = "connect" /\ Len(w) = l + 1
      BY <1>5, <1>8, <2>1, <3>l
    <3>2. \A i \in 1 .. l + 1 : w[i] = IF i <= l THEN wire[i] ELSE one[i - l]
      BY <1>8, <3>l, <3>1
    <3>3. l + 1 \in 1 .. l + 1 /\ ~(l + 1 <= l) /\ (l + 1) - l = 1
      OBVIOUS
    <3>4. w[l + 1] = "connect"
      BY <3>1, <3>2, <3>3
    <3>5. wire'[l + 1] = "connect" /\ l + 1 \in 1 .. Len(wire')
      BY <1>10, <3>1, <3>3, <3>4
    <3> QED BY <3>5
  <2>2. CASE micOpen /\ ~outConsole.connected
    <3>1. PICK i \in 1 .. Len(wire) : wire[i] = "connect"
      BY <2>2 DEF WireInv
    <3>2. w[i] = "connect" /\ i \in 1 .. Len(w) /\ i \in 1 .. Len(wire')
      BY <1>5, <1>7, <1>8, <1>10, <3>1
    <3> QED BY <1>10, <3>1, <3>2
  <2> QED BY <1>1, <2>1, <2>2 DEF WireInv
<1> QED BY <1>1, <1>10, <1>11, <1>12 DEF WireInv

LEMMA TogglesMic ==
  ASSUME MicInv, Out!Toggles
  PROVE  MicInv'
<1>1. micOpen' = TRUE /\ buffer' = buffer /\ UNCHANGED <<given, heard, packets>>
  BY DEF MicInv, Out!Toggles, Out!InitMic
<1> QED BY <1>1 DEF MicInv

LEMMA DeliveredWire ==
  ASSUME WireInv, Out!Delivered
  PROVE  WireInv'
<1> DEFINE W == {"connect", "mute", "unmute"}
<1>1. /\ wire \in Seq(W) /\ wire # <<>> /\ wire' = Tail(wire) /\ muted' = muted /\ micOpen' = micOpen
      /\ outConsole' = IF Head(wire) = "connect" THEN [outConsole EXCEPT !.connected = TRUE]
                       ELSE [outConsole EXCEPT !.muted = (Head(wire) = "mute")]
  BY DEF WireInv, Out!Delivered
<1>2. /\ wire' \in Seq(W) /\ Len(wire) \in Nat \ {0} /\ Len(wire') = Len(wire) - 1 /\ Head(wire) = wire[1] /\ Head(wire) \in W
      /\ \A i \in 1 .. Len(wire') : wire'[i] = wire[i + 1]
  BY <1>1
<1>3. outConsole' \in [connected : BOOLEAN, muted : BOOLEAN]
  BY <1>1 DEF WireInv
<1>4. wire' # <<>> => wire'[Len(wire')] = wire[Len(wire)] /\ Len(wire') \in 1 .. Len(wire')
  BY <1>2
<1>5. LastSays'
  BY <1>1, <1>4 DEF WireInv, LastSays
<1>6. wire' = <<>> => Len(wire) = 1
  BY <1>2
<1>7. wire' = <<>> => outConsole'.muted = muted
  BY <1>1, <1>2, <1>6 DEF WireInv, LastSays
<1>8. micOpen => outConsole'.connected \/ \E i \in 1 .. Len(wire') : wire'[i] = "connect"
  <2> SUFFICES ASSUME micOpen PROVE outConsole'.connected \/ \E i \in 1 .. Len(wire') : wire'[i] = "connect"
    OBVIOUS
  <2>1. CASE outConsole.connected \/ wire[1] = "connect"
    BY <1>1, <1>2, <2>1 DEF WireInv
  <2>2. CASE ~outConsole.connected /\ wire[1] # "connect"
    <3>1. PICK i \in 1 .. Len(wire) : wire[i] = "connect"
      BY <2>2 DEF WireInv
    <3>2. i - 1 \in 1 .. Len(wire') /\ (i - 1) + 1 = i
      BY <1>2, <2>2, <3>1
    <3>3. wire'[i - 1] = "connect"
      BY <1>2, <3>1, <3>2
    <3> QED BY <3>2, <3>3
  <2> QED BY <2>1, <2>2
<1> QED BY <1>1, <1>2, <1>3, <1>5, <1>7, <1>8 DEF WireInv

(* What is read makes whole packets, and the rest stays.                                   *)
LEMMA ReadKeepsMic ==
  ASSUME OutAssumption, MicInv, NEW n \in MicReads, Out!ReadMic(n)
  PROVE  MicInv'
<1>n. n \in Nat /\ MicSize \in Nat \ {0}
  BY DEF OutAssumption
<1>0. given \in Int /\ Cuts(MicSize, packets, buffer, heard) /\ micOpen /\ micOpen' = micOpen /\ given' = given + n
  BY DEF MicInv, Out!ReadMic
<1>c. PICK ch : ch = [i \in 1 .. n |-> given + i]
  OBVIOUS
<1>1. ch \in Seq(Int)
  <2>1. \A i \in 1 .. n : given + i \in Int
    BY <1>0
  <2>2. ch \in [1 .. n -> Int]
    BY <1>c, <2>1
  <2> QED BY <1>n, <2>2
<1>2. CASE muted
  <2>1. UNCHANGED <<heard, buffer, packets>>
    BY <1>2 DEF Out!ReadMic
  <2> QED BY <1>0, <1>n, <2>1 DEF MicInv
<1>3. CASE ~muted
  <2>b. PICK bytes : bytes = buffer \o ch
    OBVIOUS
  <2>1. bytes \in Seq(Int)
    BY <1>0, <1>1, <2>b DEF Cuts
  <2>l. PICK l \in Nat : l = Len(bytes)
    BY <2>1
  <2>q. PICK q, r \in Nat : q = l \div MicSize /\ r = l % MicSize /\ l = q * MicSize + r
    <3>1. l \div MicSize \in Int /\ l % MicSize \in 0 .. (MicSize - 1) /\ l = (l \div MicSize) * MicSize + (l % MicSize)
      BY <1>n, BytesDivided
    <3>2. l \div MicSize \in Nat /\ l % MicSize \in Nat
      BY <1>n, <3>1
    <3> QED BY <3>1, <3>2
  <2>Q. PICK Q \in Nat : Q = BytesAt(q, MicSize) /\ l = Q + r
    <3>1. BytesAt(q, MicSize) \in Nat
      BY <1>n, BytesBefore
    <3> QED BY <2>q, <3>1 DEF BytesAt
  <2>p. PICK pcs : pcs = Pieces(bytes, q, MicSize)
    OBVIOUS
  <2>2. Grows(MicSize, packets, buffer, heard, ch, bytes, q, Q, r, l, pcs)
    BY <1>0, <1>1, <2>b, <2>l, <2>Q, <2>p, Zenon DEF Grows
  <2>3. Cuts(MicSize, packets \o pcs, SubSeq(bytes, Q + 1, Q + r), heard \o ch)
    BY <1>n, <2>2, CutsOn
  <2>4. /\ heard' = heard \o ch /\ buffer' = Out!Rest(bytes)
        /\ packets' = packets \o [k \in 1 .. (Len(bytes) \div MicSize) |-> SubSeq(bytes, (k - 1) * MicSize + 1, k * MicSize)]
    BY <1>3, <1>c, <2>b DEF Out!ReadMic
  <2>5. buffer' = SubSeq(bytes, Q + 1, Q + r)
    <3>1. Out!Rest(bytes) = SubSeq(bytes, l - r + 1, l)
      BY <2>l, <2>q, Zenon DEF Out!Rest
    <3>2. l - r + 1 = Q + 1
      BY <2>Q
    <3> QED BY <2>4, <2>Q, <3>1, <3>2, Zenon
  <2>6. pcs = [k \in 1 .. (Len(bytes) \div MicSize) |-> SubSeq(bytes, (k - 1) * MicSize + 1, k * MicSize)]
    BY <2>l, <2>q, <2>p, Zenon DEF Pieces, BytesAt
  <2>7. packets' = packets \o pcs
    BY <2>4, <2>6, Zenon
  <2>8. Cuts(MicSize, packets', buffer', heard')
    BY <2>3, <2>4, <2>5, <2>7, Zenon
  <2>9. given + n \in Int
    BY <1>0, <1>n
  <2> QED BY <1>0, <2>8, <2>9 DEF MicInv
<1> QED BY <1>2, <1>3

LEMMA OutKeeps ==
  ASSUME OutAssumption, OutInv, [Out!Next]_outVars
  PROVE  OutInv'
<1>0. MicInv /\ WireInv /\ QueuedInv
  BY DEF OutInv
<1>1. CASE UNCHANGED outVars
  <2>1. MicInv'
    BY <1>0, <1>1 DEF outVars, MicInv
  <2>2. WireInv'
    BY <1>0, <1>1 DEF outVars, WireInv, LastSays
  <2>3. QueuedInv'
    BY <1>0, <1>1 DEF outVars, QueuedInv
  <2> QED BY <2>1, <2>2, <2>3 DEF OutInv
<1>2. ASSUME UNCHANGED <<muted, micOpen, wire, outConsole, given, heard, buffer, packets>> PROVE MicInv' /\ WireInv'
  <2>1. MicInv'
    BY <1>0, <1>2 DEF MicInv
  <2>2. WireInv'
    BY <1>0, <1>2 DEF WireInv, LastSays
  <2> QED BY <2>1, <2>2
<1>3. ASSUME UNCHANGED queued PROVE QueuedInv'
  BY <1>0, <1>3 DEF QueuedInv
<1>4. CASE Out!ToggleMute
  <2>1. Out!Toggles /\ UNCHANGED queued
    BY <1>4 DEF Out!ToggleMute, Out!playing
  <2> QED BY <1>0, <1>3, <2>1, TogglesMic, TogglesWire DEF OutInv
<1>5. CASE Out!InitAudio
  <2>1. QueuedInv'
    <3>1. queued' = 0
      BY <1>5 DEF Out!InitAudio
    <3> QED BY <3>1 DEF OutAssumption, QueuedInv
  <2>2. CASE startUnmuted
    <3>1. Out!Toggles
      BY <1>5, <2>2 DEF Out!InitAudio
    <3> QED BY <1>0, <2>1, <3>1, TogglesMic, TogglesWire DEF OutInv
  <2>3. CASE ~startUnmuted
    <3>1. UNCHANGED <<muted, micOpen, wire, outConsole, given, heard, buffer, packets>>
      BY <1>5, <2>3 DEF Out!InitAudio, Out!mic
    <3> QED BY <1>2, <2>1, <3>1 DEF OutInv
  <2> QED BY <2>2, <2>3
<1>6. CASE Out!PushAudioFrame
  <2>1. UNCHANGED <<muted, micOpen, wire, outConsole, given, heard, buffer, packets>>
    BY <1>6 DEF Out!PushAudioFrame, Out!mic
  <2>2. queued' = IF Out!Drains(queued) THEN queued ELSE queued + FrameSize
    BY <1>6 DEF Out!PushAudioFrame
  <2>3. ~Out!Drains(queued) => queued <= 3 * BufferSize
    BY <1>0 DEF OutAssumption, QueuedInv, Out!Drains
  <2>4. QueuedInv'
    BY <1>0, <2>2, <2>3 DEF OutAssumption, QueuedInv
  <2> QED BY <1>2, <2>1, <2>4 DEF OutInv
<1>7. CASE Out!Plays
  <2>1. UNCHANGED <<muted, micOpen, wire, outConsole, given, heard, buffer, packets>> /\ queued > 0 /\ queued' = queued - 1
    BY <1>7 DEF Out!Plays, Out!mic
  <2>2. QueuedInv'
    BY <1>0, <2>1 DEF OutAssumption, QueuedInv
  <2> QED BY <1>2, <2>1, <2>2 DEF OutInv
<1>8. CASE \E n \in MicReads : Out!ReadMic(n)
  <2>1. PICK n \in MicReads : Out!ReadMic(n)
    BY <1>8
  <2>2. UNCHANGED <<queued, muted, micOpen, wire, outConsole>>
    BY <2>1 DEF Out!ReadMic, Out!playing
  <2>3. WireInv'
    BY <1>0, <2>2 DEF WireInv, LastSays
  <2> QED BY <1>0, <1>3, <2>1, <2>2, <2>3, ReadKeepsMic DEF OutInv
<1>9. CASE Out!Delivered
  <2>1. UNCHANGED <<queued, muted, micOpen, given, heard, buffer, packets>>
    BY <1>9 DEF Out!Delivered, Out!playing
  <2>2. MicInv'
    BY <1>0, <2>1 DEF MicInv
  <2> QED BY <1>0, <1>3, <1>9, <2>1, <2>2, DeliveredWire DEF OutInv
<1>10. CASE \E on \in BOOLEAN : Out!SetIntensity(on)
  <2>1. UNCHANGED <<queued, muted, micOpen, wire, outConsole, given, heard, buffer, packets>>
    BY <1>10 DEF Out!SetIntensity, Out!playing, Out!mic
  <2> QED BY <1>2, <1>3, <2>1 DEF OutInv
<1>11. CASE \E s \in Strengths : Out!RumbleEvent(s) \/ Out!PushHaptics(s)
  <2>1. UNCHANGED <<queued, muted, micOpen, wire, outConsole, given, heard, buffer, packets>>
    BY <1>11 DEF Out!RumbleEvent, Out!PushHaptics, Out!playing, Out!mic
  <2> QED BY <1>2, <1>3, <2>1 DEF OutInv
<1>12. CASE Out!RumbleCalled
  <2>1. UNCHANGED <<queued, muted, micOpen, wire, outConsole, given, heard, buffer, packets>>
    BY <1>12 DEF Out!RumbleCalled, Out!playing, Out!mic
  <2> QED BY <1>2, <1>3, <2>1 DEF OutInv
<1>13. CASE Out!RumbleTimer
  <2>1. UNCHANGED <<queued, muted, micOpen, wire, outConsole, given, heard, buffer, packets>>
    BY <1>13 DEF Out!RumbleTimer, Out!playing, Out!mic
  <2> QED BY <1>2, <1>3, <2>1 DEF OutInv
<1> QED BY <1>1, <1>4, <1>5, <1>6, <1>7, <1>8, <1>9, <1>10, <1>11, <1>12, <1>13 DEF Out!Next

LEMMA OutImplied ==
  ASSUME OutAssumption, OutInv
  PROVE  Out!OutputsAreSound
<1>0. Cuts(MicSize, packets, buffer, heard) /\ WireInv /\ QueuedInv /\ MicSize \in Nat
  BY DEF OutInv, MicInv, OutAssumption
<1>1. Out!MicInOrder
  <2>1. /\ \A k \in 1 .. Len(packets) : packets[k] = SubSeq(heard, (k - 1) * MicSize + 1, k * MicSize)
        /\ buffer = SubSeq(heard, Len(packets) * MicSize + 1, Len(heard))
    BY <1>0, CutsAreCuts
  <2>2. Len(heard) = Len(packets) * MicSize + Len(buffer)
    BY <1>0, Zenon DEF Cuts, BytesAt
  <2> QED BY <2>1, <2>2, Zenon DEF Out!MicInOrder
<1>2. Out!MicAgrees
  <2>1. wire = <<>> => ~(\E i \in 1 .. Len(wire) : wire[i] = "connect")
    OBVIOUS
  <2> QED BY <1>0, <2>1 DEF WireInv, Out!MicAgrees
<1>3. Out!AudioIsBounded
  BY <1>0 DEF QueuedInv, Out!AudioIsBounded
<1> QED BY <1>1, <1>2, <1>3 DEF Out!OutputsAreSound

(* What the microphone gives is encoded in its order, the console has the microphone as it is     *)
(* shown, and the sound is never late by more than three buffers and a frame.                *)
THEOREM OutputsInOrder == MCSpec => []Out!OutputsAreSound
<1> USE OutAssumption
<1>1. MCInit => OutInv
  <2>1. MCInit => Out!Start
    BY DEF MCInit, Out!Init, Out!AtRest
  <2> QED BY <2>1, OutStarts
<1>2. OutInv /\ [MCNext]_<<part, pacingVars, cloudVars, catalogVars, backVars, hostVars, syncVars, ctlVars, outVars, sendVars, videoVars, audioVars, nativeVars, appVars>> => OutInv'
  <2>1. [MCNext]_<<part, pacingVars, cloudVars, catalogVars, backVars, hostVars, syncVars, ctlVars, outVars, sendVars, videoVars, audioVars, nativeVars, appVars>> => [Out!Next]_outVars
    BY DEF MCNext
  <2> QED BY <2>1, OutKeeps
<1>3. OutInv => Out!OutputsAreSound
  BY OutImplied
<1> QED BY <1>1, <1>2, <1>3, PTL DEF MCSpec
-----------------------------------------------------------------------------
(* What a player of the desktop client presses.                                        *)

PadState == [buttons : SUBSET (Keys \cup PadButtons \cup {"touchpad"}), axes : SUBSET (Keys \cup PadButtons),
             next : Nat, touches : [1 .. 2 -> Int]]
Hands == [keys : SUBSET Keys, mouse : SUBSET {"left", "right"}, fingers : SUBSET Fingers, pad : SUBSET PadButtons,
          padFingers : SUBSET Fingers]
Quiet(s) == s.touches[1] < 0 /\ s.touches[2] < 0
(* Held since after the menu closed.                                                  *)
KeyLives(k, hd, sp) == k \in hd.keys /\ <<"key", k>> \notin sp
PadLives(b, hd, sp) == b \in hd.pad /\ <<"pad", b>> \notin sp

(* A touch is started in the first slot that is free.                                    *)
LEMMA IdleIsState == Ctl!Idle \in PadState /\ Ctl!Idle.buttons = {} /\ Ctl!Idle.axes = {} /\ Quiet(Ctl!Idle)
BY DEF Ctl!Idle, Ctl!Slots, PadState, Quiet

LEMMA TouchStarts ==
  ASSUME CtlAssumption, NEW s \in PadState, NEW r, r = Ctl!StartTouch(s)
  PROVE  /\ r.state \in PadState /\ r.state.buttons = s.buttons /\ r.state.axes = s.axes
         /\ s.touches[1] >= 0 /\ s.touches[2] >= 0 => r.id = -1 /\ r.state.touches = s.touches
         /\ s.touches[1] < 0 => r.id \in Nat /\ r.state.touches[1] = r.id /\ r.state.touches[2] = s.touches[2]
         /\ s.touches[1] >= 0 /\ s.touches[2] < 0 =>
              r.id \in Nat /\ r.state.touches[1] = s.touches[1] /\ r.state.touches[2] = r.id
<1> DEFINE free == {i \in Ctl!Slots : s.touches[i] < 0 /\ \A j \in Ctl!Slots : j < i => s.touches[j] >= 0}
           slot == CHOOSE i \in Ctl!Slots : s.touches[i] < 0 /\ \A j \in Ctl!Slots : j < i => s.touches[j] >= 0
<1>1. Ctl!Slots = {1, 2} /\ s.touches[1] \in Int /\ s.touches[2] \in Int
  BY DEF Ctl!Slots, PadState
<1>2. CASE s.touches[1] >= 0 /\ s.touches[2] >= 0
  <2>1. \A i \in Ctl!Slots : s.touches[i] >= 0
    BY <1>1, <1>2
  <2>2. r = [state |-> s, id |-> -1]
    BY <2>1 DEF Ctl!StartTouch
  <2> QED BY <1>1, <1>2, <2>2
<1>3. ASSUME NEW i \in 1 .. 2, s.touches[i] < 0, i = 2 => s.touches[1] >= 0
      PROVE  /\ r.id = s.next /\ r.state = [s EXCEPT !.touches = [s.touches EXCEPT ![i] = s.next], !.next = (s.next + 1) % IdSpace]
  <2>1. ~(\A j \in Ctl!Slots : s.touches[j] >= 0)
    BY <1>1, <1>3
  <2>2. slot = i
    BY <1>1, <1>3
  <2>3. r = [id |-> s.next, state |-> [s EXCEPT !.touches[slot] = s.next, !.next = (@ + 1) % IdSpace]]
    BY <2>1 DEF Ctl!StartTouch
  <2> HIDE DEF slot
  <2>4. r = [id |-> s.next, state |-> [s EXCEPT !.touches[i] = s.next, !.next = (@ + 1) % IdSpace]]
    BY <2>2, <2>3
  <2> QED BY <2>4
<1>4. (s.next + 1) % IdSpace \in Nat /\ s.next \in Nat
  BY DEF PadState, CtlAssumption
<1>5. ASSUME NEW i \in 1 .. 2, r.id = s.next, r.state = [s EXCEPT !.touches = [s.touches EXCEPT ![i] = s.next], !.next = (s.next + 1) % IdSpace]
      PROVE  /\ r.state \in PadState /\ r.state.buttons = s.buttons /\ r.state.axes = s.axes /\ r.id \in Nat
             /\ r.state.touches[i] = r.id /\ \A j \in 1 .. 2 : j # i => r.state.touches[j] = s.touches[j]
  <2> DEFINE t == [s.touches EXCEPT ![i] = s.next]
             n == (s.next + 1) % IdSpace
  <2>1. s.touches \in [1 .. 2 -> Int] /\ s.next \in Int /\ i \in 1 .. 2
    BY <1>4 DEF PadState
  <2>2. t \in [1 .. 2 -> Int] /\ t[i] = s.next /\ \A j \in 1 .. 2 : j # i => t[j] = s.touches[j]
    BY <2>1
  <2>3. n \in Nat
    BY <1>4
  <2>4. r.state = [s EXCEPT !.touches = t, !.next = n]
    BY <1>5
  <2> HIDE DEF t, n
  <2>5. r.state = [buttons |-> s.buttons, axes |-> s.axes, next |-> n, touches |-> t]
    BY <2>4 DEF PadState
  <2>6. s.buttons \in SUBSET (Keys \cup PadButtons \cup {"touchpad"}) /\ s.axes \in SUBSET (Keys \cup PadButtons)
    BY DEF PadState
  <2>7. r.state \in PadState
    BY <2>2, <2>3, <2>5, <2>6 DEF PadState
  <2>8. r.id \in Nat /\ r.id = s.next
    BY <1>4, <1>5
  <2> QED BY <2>2, <2>5, <2>7, <2>8
<1>6. CASE s.touches[1] < 0
  <2>1. 1 \in 1 .. 2 /\ 2 \in 1 .. 2
    OBVIOUS
  <2>2. r.id = s.next /\ r.state = [s EXCEPT !.touches = [s.touches EXCEPT ![1] = s.next], !.next = (s.next + 1) % IdSpace]
    BY <1>3, <1>6, <2>1
  <2>3. /\ r.state \in PadState /\ r.state.buttons = s.buttons /\ r.state.axes = s.axes /\ r.id \in Nat
        /\ r.state.touches[1] = r.id /\ r.state.touches[2] = s.touches[2]
    BY <1>5, <2>1, <2>2
  <2> QED BY <1>1, <1>6, <2>3
<1>7. CASE s.touches[1] >= 0 /\ s.touches[2] < 0
  <2>1. 1 \in 1 .. 2 /\ 2 \in 1 .. 2
    OBVIOUS
  <2>2. r.id = s.next /\ r.state = [s EXCEPT !.touches = [s.touches EXCEPT ![2] = s.next], !.next = (s.next + 1) % IdSpace]
    BY <1>3, <1>7, <2>1
  <2>3. /\ r.state \in PadState /\ r.state.buttons = s.buttons /\ r.state.axes = s.axes /\ r.id \in Nat
        /\ r.state.touches[2] = r.id /\ r.state.touches[1] = s.touches[1]
    BY <1>5, <2>1, <2>2
  <2> QED BY <1>1, <1>7, <2>3
<1> QED BY <1>1, <1>2, <1>6, <1>7

(* The first slot with the touch is freed; where there is none, nothing changes.            *)
Stopped(s, id, r) ==
  /\ r \in PadState /\ r.buttons = s.buttons /\ r.axes = s.axes
  /\ s.touches[1] = id => r.touches[1] = -1 /\ r.touches[2] = s.touches[2]
  /\ s.touches[1] # id /\ s.touches[2] = id => r.touches[1] = s.touches[1] /\ r.touches[2] = -1
  /\ s.touches[1] # id /\ s.touches[2] # id => r = s
LEMMA TouchStops ==
  ASSUME NEW s \in PadState, NEW id \in Int, NEW r, r = Ctl!StopTouch(s, id)
  PROVE  Stopped(s, id, r)
<1> DEFINE with == {i \in Ctl!Slots : s.touches[i] = id}
           slot == CHOOSE i \in with : \A j \in with : i <= j
<1>1. Ctl!Slots = {1, 2} /\ s.touches[1] \in Int /\ s.touches[2] \in Int
  BY DEF Ctl!Slots, PadState
<1>2. CASE s.touches[1] # id /\ s.touches[2] # id
  <2>1. with = {}
    BY <1>1, <1>2
  <2>2. r = s
    BY <2>1 DEF Ctl!StopTouch
  <2> QED BY <1>2, <2>2 DEF Stopped
<1>3. ASSUME NEW i \in 1 .. 2, s.touches[i] = id, i = 2 => s.touches[1] # id
      PROVE  r = [s EXCEPT !.touches = [s.touches EXCEPT ![i] = -1]]
  <2>1. i \in with /\ \A j \in with : i <= j
    BY <1>1, <1>3
  <2>2. slot = i
    BY <1>1, <2>1
  <2>3. r = [s EXCEPT !.touches[slot] = -1]
    BY <2>1 DEF Ctl!StopTouch
  <2> QED BY <2>2, <2>3
<1>4. ASSUME NEW i \in 1 .. 2, r = [s EXCEPT !.touches = [s.touches EXCEPT ![i] = -1]]
      PROVE  /\ r \in PadState /\ r.buttons = s.buttons /\ r.axes = s.axes
             /\ r.touches[i] = -1 /\ \A j \in 1 .. 2 : j # i => r.touches[j] = s.touches[j]
  BY <1>4 DEF PadState
<1>5. CASE s.touches[1] = id
  <2>1. 1 \in 1 .. 2 /\ 2 \in 1 .. 2
    OBVIOUS
  <2>2. r = [s EXCEPT !.touches = [s.touches EXCEPT ![1] = -1]]
    BY <1>3, <1>5, <2>1
  <2>3. r \in PadState /\ r.buttons = s.buttons /\ r.axes = s.axes /\ r.touches[1] = -1 /\ r.touches[2] = s.touches[2]
    BY <1>4, <2>1, <2>2
  <2> QED BY <1>5, <2>3 DEF Stopped
<1>6. CASE s.touches[1] # id /\ s.touches[2] = id
  <2>1. 1 \in 1 .. 2 /\ 2 \in 1 .. 2
    OBVIOUS
  <2>2. r = [s EXCEPT !.touches = [s.touches EXCEPT ![2] = -1]]
    BY <1>3, <1>6, <2>1
  <2>3. r \in PadState /\ r.buttons = s.buttons /\ r.axes = s.axes /\ r.touches[2] = -1 /\ r.touches[1] = s.touches[1]
    BY <1>4, <2>1, <2>2
  <2> QED BY <1>6, <2>3 DEF Stopped
<1> QED BY <1>2, <1>5, <1>6
(* A slot for every finger that has a touch, in the order of the slots.                  *)
Tracks(t, m) ==
  \/ t[1] < 0 /\ t[2] < 0 /\ DOMAIN m = {}
  \/ \E a \in DOMAIN m : /\ DOMAIN m = {a} /\ m[a] >= 0
                         /\ ((t[1] = m[a] /\ t[2] < 0) \/ (t[2] = m[a] /\ t[1] < 0))
  \/ \E a, b \in DOMAIN m : /\ a # b /\ DOMAIN m = {a, b} /\ t[1] = m[a] /\ t[2] = m[b]
                            /\ t[1] >= 0 /\ t[2] >= 0
Tracking(m, x, id) == [y \in DOMAIN m \cup {x} |-> IF y = x THEN id ELSE m[y]]

LEMMA FingerIsTracked ==
  ASSUME CtlAssumption, NEW s \in PadState, NEW m, Tracks(s.touches, m), NEW x, x \notin DOMAIN m,
         NEW r, r = Ctl!StartTouch(s), r.id >= 0
  PROVE  Tracks(r.state.touches, Tracking(m, x, r.id))
<1> DEFINE t == s.touches
           u == r.state.touches
           w == Tracking(m, x, r.id)
<1>1. /\ t[1] \in Int /\ t[2] \in Int /\ ~(t[1] >= 0 /\ t[2] >= 0)
      /\ t[1] < 0 => u[1] = r.id /\ u[2] = t[2]
      /\ t[1] >= 0 => u[1] = t[1] /\ u[2] = r.id
  BY TouchStarts DEF PadState
<1>2. DOMAIN w = DOMAIN m \cup {x} /\ w[x] = r.id /\ \A y \in DOMAIN m : w[y] = m[y]
  BY DEF Tracking
<1>3. Tracks(t, m)
  OBVIOUS
<1> HIDE DEF t, u, w
<1>4. CASE DOMAIN m = {}
  <2>1. t[1] < 0 /\ t[2] < 0
    BY <1>3, <1>4 DEF Tracks
  <2>2. DOMAIN w = {x} /\ u[1] = w[x] /\ u[2] < 0 /\ w[x] >= 0
    BY <1>1, <1>2, <1>4, <2>1
  <2>3. x \in DOMAIN w
    BY <2>2
  <2>4. Tracks(u, w)
    BY <2>2, <2>3 DEF Tracks
  <2> QED BY <2>4 DEF u, w
<1>5. CASE DOMAIN m # {}
  <2>1. PICK a \in DOMAIN m : /\ DOMAIN m = {a} /\ m[a] >= 0
                              /\ ((t[1] = m[a] /\ t[2] < 0) \/ (t[2] = m[a] /\ t[1] < 0))
    BY <1>1, <1>3, <1>5 DEF Tracks
  <2>2. DOMAIN w = {a, x} /\ a # x /\ a \in DOMAIN w /\ x \in DOMAIN w /\ w[a] = m[a] /\ w[x] = r.id
    BY <1>2, <2>1
  <2>3. CASE t[1] < 0
    <3>1. u[1] = w[x] /\ u[2] = w[a] /\ u[1] >= 0 /\ u[2] >= 0
      BY <1>1, <2>1, <2>2, <2>3
    <3>2. DOMAIN w = {x, a} /\ x # a
      BY <2>2
    <3>3. Tracks(u, w)
      BY <2>2, <3>1, <3>2 DEF Tracks
    <3> QED BY <3>3 DEF u, w
  <2>4. CASE t[1] >= 0
    <3>1. u[1] = w[a] /\ u[2] = w[x] /\ u[1] >= 0 /\ u[2] >= 0
      BY <1>1, <2>1, <2>2, <2>4
    <3>2. Tracks(u, w)
      BY <2>2, <3>1 DEF Tracks
    <3> QED BY <3>2 DEF u, w
  <2> QED BY <1>1, <2>3, <2>4
<1> QED BY <1>4, <1>5

LEMMA FingerIsLeft ==
  ASSUME NEW s \in PadState, NEW m, Tracks(s.touches, m), NEW x \in DOMAIN m,
         NEW r, r = Ctl!StopTouch(s, m[x])
  PROVE  Tracks(r.touches, Ctl!Without(m, x))
<1> DEFINE t == s.touches
           u == r.touches
           w == Ctl!Without(m, x)
<1>1. t[1] \in Int /\ t[2] \in Int
  BY DEF PadState
<1>2. m[x] \in Int /\ m[x] >= 0
  BY <1>1 DEF Tracks
<1>3. /\ t[1] = m[x] => u[1] = -1 /\ u[2] = t[2]
      /\ t[1] # m[x] /\ t[2] = m[x] => u[1] = t[1] /\ u[2] = -1
  <2> DEFINE id == m[x]
  <2>1. id \in Int /\ r = Ctl!StopTouch(s, id)
    BY <1>2
  <2> HIDE DEF id, t, u
  <2>2. Stopped(s, id, r)
    BY <2>1, TouchStops
  <2> QED BY <2>2 DEF Stopped, id, t, u
<1>4. DOMAIN w = DOMAIN m \ {x} /\ \A y \in DOMAIN w : w[y] = m[y]
  BY DEF Ctl!Without
<1>5. Tracks(t, m)
  OBVIOUS
<1> HIDE DEF t, u, w
<1>6. CASE DOMAIN m = {x}
  <2>1. (t[1] = m[x] /\ t[2] < 0) \/ (t[2] = m[x] /\ t[1] < 0)
    BY <1>5, <1>6 DEF Tracks
  <2>2. u[1] < 0 /\ u[2] < 0 /\ DOMAIN w = {}
    BY <1>1, <1>2, <1>3, <1>4, <1>6, <2>1
  <2>3. Tracks(u, w)
    BY <2>2 DEF Tracks
  <2> QED BY <2>3 DEF u, w
<1>7. CASE DOMAIN m # {x}
  <2>1. PICK a, b \in DOMAIN m : /\ a # b /\ DOMAIN m = {a, b} /\ t[1] = m[a] /\ t[2] = m[b]
                                 /\ t[1] >= 0 /\ t[2] >= 0
    BY <1>5, <1>7 DEF Tracks
  <2>2. CASE t[1] = m[x]
    <3>1. PICK y \in DOMAIN m : DOMAIN w = {y} /\ m[y] = t[2]
      <4>1. CASE x = a
        BY <1>4, <2>1, <4>1
      <4>2. CASE x = b
        <5>1. m[a] = m[b] /\ DOMAIN w = {a}
          BY <1>4, <2>1, <2>2, <4>2
        <5> QED BY <2>1, <5>1
      <4> QED BY <2>1, <4>1, <4>2
    <3>2. u[2] = w[y] /\ w[y] >= 0 /\ u[1] < 0 /\ y \in DOMAIN w
      BY <1>3, <1>4, <2>1, <2>2, <3>1
    <3>3. Tracks(u, w)
      BY <3>1, <3>2 DEF Tracks
    <3> QED BY <3>3 DEF u, w
  <2>3. CASE t[1] # m[x]
    <3>1. x = b /\ DOMAIN w = {a}
      BY <1>4, <2>1, <2>3
    <3>2. u[1] = w[a] /\ w[a] >= 0 /\ u[2] < 0 /\ a \in DOMAIN w
      BY <1>3, <1>4, <2>1, <2>3, <3>1
    <3>3. Tracks(u, w)
      BY <3>1, <3>2 DEF Tracks
    <3> QED BY <3>3 DEF u, w
  <2> QED BY <2>2, <2>3
<1> QED BY <1>6, <1>7
-----------------------------------------------------------------------------
(* Each source has down what the player holds; while nothing is blocked, only what he      *)
(* holds since the menu closed. A touch of the mouse is the touch of the left button.       *)
KeysFrom(kb, lim, hd, sp, ms) ==
  /\ kb.axes \subseteq hd.keys /\ kb.touches[2] < 0
  /\ kb.touches[1] >= 0 => kb.touches[1] = ms /\ "left" \in hd.mouse
  /\ lim = 0 => \A k \in kb.buttons : KeyLives(k, hd, sp) \/ (k = "touchpad" /\ "right" \in hd.mouse)
PadsFrom(pd, pt, lim, hd, sp) ==
  /\ pd.buttons \subseteq hd.pad /\ pd.axes \subseteq hd.pad /\ "mic" \notin pd.buttons \cup pd.axes
  /\ Tracks(pd.touches, pt) /\ DOMAIN pt \subseteq hd.padFingers
  /\ lim = 0 => \A b \in pd.buttons : PadLives(b, hd, sp)
ScreenFrom(sc, tr, hd) ==
  /\ sc.buttons \subseteq {"touchpad"} /\ sc.axes = {} /\ ("touchpad" \in sc.buttons => DOMAIN tr # {})
  /\ Tracks(sc.touches, tr) /\ DOMAIN tr \subseteq hd.fingers
(* The touch of the directional pad has the first slot of its own state.                 *)
DpadRests(dp) ==
  /\ dp \in [state : PadState, id : Int, x : 0 .. Width, y : 0 .. Width]
  /\ dp.state.buttons = {} /\ dp.state.axes = {} /\ dp.state.touches[2] < 0
  /\ (dp.id < 0 => dp.state.touches[1] < 0) /\ (dp.id >= 0 => dp.state.touches[1] = dp.id)
Steered(lim, hd, sp) == lim = 0 /\ \E d \in Ctl!DpadButtons : KeyLives(d, hd, sp) \/ PadLives(d, hd, sp)
DpadFrom(dp, moving, stops, lim, hd, sp) ==
  DpadRests(dp) /\ (dp.id >= 0 => moving /\ (stops \/ Steered(lim, hd, sp)))
(* What was sent is what the sources have, and of a blocked state nothing but that touch.   *)
ConsoleFrom(cs, lim, kb, pd, sc, dp) ==
  /\ cs \in PadState
  /\ cs.buttons \subseteq (IF lim = 0 THEN kb.buttons \cup pd.buttons \cup sc.buttons ELSE {})
  /\ cs.axes \subseteq (IF lim = 0 THEN kb.axes \cup pd.axes \cup sc.axes ELSE {})
  /\ dp.id < 0 /\ (lim = 0 => Quiet(kb) /\ Quiet(pd) /\ Quiet(sc)) => Quiet(cs)

CtlKinds ==
  /\ keyboard \in PadState /\ ctlPad \in PadState /\ screen \in PadState /\ ctlHeld \in Hands /\ mouse \in Int
  /\ block \in 0 .. 2 /\ grab \in Nat /\ (grab > 0 <=> block = 1) /\ (block # 0 => keyboard = Ctl!Idle)
  /\ spoilt \subseteq Ctl!Holding(ctlHeld)
CtlSound ==
  /\ CtlKinds
  /\ KeysFrom(keyboard, block, ctlHeld, spoilt, mouse) /\ PadsFrom(ctlPad, padTouches, block, ctlHeld, spoilt)
  /\ ScreenFrom(screen, tracker, ctlHeld) /\ DpadFrom(dpad, timer, stopTimer, block, ctlHeld, spoilt)
  /\ ConsoleFrom(ctlConsole, block, keyboard, ctlPad, screen, dpad)
(* From a release the sources never hear of, nothing is claimed.                          *)
CtlInv == missed \/ CtlSound

LEMMA OrIsState ==
  ASSUME NEW a \in PadState, NEW b \in PadState, NEW r, r = Ctl!Or(a, b)
  PROVE  /\ r \in PadState /\ r.buttons = a.buttons \cup b.buttons /\ r.axes = a.axes \cup b.axes
         /\ Quiet(a) /\ Quiet(b) => Quiet(r)
<1>1. /\ a.buttons \in SUBSET (Keys \cup PadButtons \cup {"touchpad"}) /\ a.axes \in SUBSET (Keys \cup PadButtons)
      /\ b.buttons \in SUBSET (Keys \cup PadButtons \cup {"touchpad"}) /\ b.axes \in SUBSET (Keys \cup PadButtons)
      /\ a.touches \in [1 .. 2 -> Int] /\ b.touches \in [1 .. 2 -> Int]
  BY DEF PadState
<1>2. r = [buttons |-> a.buttons \cup b.buttons, axes |-> a.axes \cup b.axes, next |-> 0,
           touches |-> [i \in 1 .. 2 |-> IF a.touches[i] >= 0 THEN a.touches[i] ELSE b.touches[i]]]
  BY DEF Ctl!Or, Ctl!Slots
<1>3. r.touches \in [1 .. 2 -> Int]
  BY <1>1, <1>2
<1>4. r \in PadState
  BY <1>1, <1>2, <1>3 DEF PadState
<1>5. Quiet(a) /\ Quiet(b) => Quiet(r)
  BY <1>1, <1>2 DEF Quiet
<1> QED BY <1>2, <1>4, <1>5

LEMMA KeyIsSet ==
  ASSUME NEW s \in PadState, NEW k \in Keys \cup PadButtons, NEW r, r = Ctl!Set(s, k)
  PROVE  /\ r \in PadState /\ r.touches = s.touches
         /\ s.buttons \subseteq r.buttons /\ r.buttons \subseteq s.buttons \cup {k}
         /\ s.axes \subseteq r.axes /\ r.axes \subseteq s.axes \cup {k}
<1>1. CASE k \in Ctl!Axes
  <2>1. r = [s EXCEPT !.axes = s.axes \cup {k}]
    BY <1>1 DEF Ctl!Set
  <2> QED BY <2>1 DEF PadState
<1>2. CASE k \notin Ctl!Axes
  <2>1. r = [s EXCEPT !.buttons = s.buttons \cup {k}]
    BY <1>2 DEF Ctl!Set
  <2> QED BY <2>1 DEF PadState
<1> QED BY <1>1, <1>2

LEMMA ClickIsSet ==
  ASSUME NEW s \in PadState, NEW r, r = Ctl!Set(s, "touchpad")
  PROVE  r \in PadState /\ r.touches = s.touches /\ r.buttons = s.buttons \cup {"touchpad"} /\ r.axes = s.axes
<1>1. r = [s EXCEPT !.buttons = s.buttons \cup {"touchpad"}]
  BY DEF Ctl!Set, Ctl!Axes
<1> QED BY <1>1 DEF PadState

LEMMA KeyIsCleared ==
  ASSUME NEW s \in PadState, NEW k, NEW r, r = Ctl!Clear(s, k)
  PROVE  r \in PadState /\ r.touches = s.touches /\ r.buttons = s.buttons \ {k} /\ r.axes = s.axes \ {k}
<1>1. r = [s EXCEPT !.axes = s.axes \ {k}, !.buttons = s.buttons \ {k}]
  BY DEF Ctl!Clear
<1> QED BY <1>1 DEF PadState

(* A direction is one that is down.                                                      *)
LEMMA DirectionIsDown ==
  ASSUME NEW s, s.buttons \cap Ctl!DpadButtons # {}, NEW d, d = Ctl!Direction(s)
  PROVE  d \in s.buttons \cap Ctl!DpadButtons
<1> DEFINE Topmost(i) == Ctl!Dpad[i] \in s.buttons /\ \A j \in 1 .. i - 1 : Ctl!Dpad[j] \notin s.buttons
<1>1. \E i \in 1 .. 4 : Topmost(i)
  <2>1. \E i \in 1 .. 4 : Ctl!Dpad[i] \in s.buttons
    BY DEF Ctl!DpadButtons
  <2>2. PICK i \in 1 .. 4 : Ctl!Dpad[i] \in s.buttons
    BY <2>1
  <2>3. CASE Ctl!Dpad[1] \in s.buttons
    BY <2>3
  <2>4. CASE Ctl!Dpad[1] \notin s.buttons /\ Ctl!Dpad[2] \in s.buttons
    <3>1. Topmost(2)
      BY <2>4
    <3> QED BY <3>1
  <2>5. CASE Ctl!Dpad[1] \notin s.buttons /\ Ctl!Dpad[2] \notin s.buttons /\ Ctl!Dpad[3] \in s.buttons
    <3>1. Topmost(3)
      BY <2>5
    <3> QED BY <3>1
  <2>6. CASE Ctl!Dpad[1] \notin s.buttons /\ Ctl!Dpad[2] \notin s.buttons /\ Ctl!Dpad[3] \notin s.buttons
    <3>1. i = 4
      BY <2>2, <2>6
    <3>2. Topmost(4)
      BY <2>2, <2>6, <3>1
    <3> QED BY <3>2
  <2> QED BY <2>3, <2>4, <2>5, <2>6
<1>2. d = Ctl!Dpad[CHOOSE i \in 1 .. 4 : Topmost(i)]
  BY DEF Ctl!Direction
<1> DEFINE n == CHOOSE i \in 1 .. 4 : Topmost(i)
<1>3. n \in 1 .. 4 /\ Topmost(n)
  BY <1>1
<1> HIDE DEF n
<1>4. d = Ctl!Dpad[n]
  BY <1>2 DEF n
<1> QED BY <1>3, <1>4 DEF Ctl!DpadButtons

LEMMA DpadMoves ==
  ASSUME CtlAssumption, NEW dp, DpadRests(dp), NEW d \in Ctl!DpadButtons, NEW to, to = Ctl!DpadTouch(dp, d)
  PROVE  DpadRests(to) /\ to.id >= 0
<1>1. d \in {"left", "right", "down", "up"}
  BY DEF Ctl!DpadButtons, Ctl!Dpad
<1>2. CtlIncrement \in Nat /\ Width \in Nat
  BY DEF CtlAssumption
<1>3. CASE dp.id < 0
  <2> DEFINE st == Ctl!StartTouch(dp.state)
             e == Ctl!Edge(d)
  <2>1. st.id \in Nat /\ st.state \in PadState /\ st.state.buttons = {} /\ st.state.axes = {} /\ st.state.touches[1] = st.id
        /\ st.state.touches[2] < 0
    BY <1>3, TouchStarts DEF DpadRests
  <2>2. e[1] \in 0 .. Width /\ e[2] \in 0 .. Width
    BY <1>1, <1>2 DEF Ctl!Edge
  <2>3. to = [state |-> st.state, id |-> st.id, x |-> e[1], y |-> e[2]]
    BY <1>3 DEF Ctl!DpadTouch
  <2> HIDE DEF st, e
  <2> QED BY <2>1, <2>2, <2>3 DEF DpadRests
<1>4. CASE dp.id >= 0
  <2>1. \A v \in 0 .. Width : Ctl!Lower(v) \in 0 .. Width /\ Ctl!Raise(v) \in 0 .. Width
    BY <1>2 DEF Ctl!Lower, Ctl!Raise
  <2>2. \E x, y \in 0 .. Width : to = [dp EXCEPT !.x = x] \/ to = [dp EXCEPT !.y = y]
    <3>1. dp.x \in 0 .. Width /\ dp.y \in 0 .. Width /\ ~(dp.id < 0)
      BY <1>4 DEF DpadRests
    <3>2. CASE d = "left"
      <4>1. to = [dp EXCEPT !.x = Ctl!Lower(dp.x)]
        BY <3>1, <3>2 DEF Ctl!DpadTouch
      <4> QED BY <2>1, <3>1, <4>1
    <3>3. CASE d = "right"
      <4>1. to = [dp EXCEPT !.x = Ctl!Raise(dp.x)]
        BY <3>1, <3>3 DEF Ctl!DpadTouch
      <4> QED BY <2>1, <3>1, <4>1
    <3>4. CASE d = "down"
      <4>1. to = [dp EXCEPT !.y = Ctl!Raise(dp.y)]
        BY <3>1, <3>4 DEF Ctl!DpadTouch
      <4> QED BY <2>1, <3>1, <4>1
    <3>5. CASE d = "up"
      <4>1. to = [dp EXCEPT !.y = Ctl!Lower(dp.y)]
        BY <3>1, <3>5 DEF Ctl!DpadTouch
      <4> QED BY <2>1, <3>1, <4>1
    <3> QED BY <1>1, <3>2, <3>3, <3>4, <3>5
  <2> QED BY <1>4, <2>2 DEF DpadRests
<1> QED BY <1>3, <1>4 DEF DpadRests

(* What is down in the joined state is down in the player's hands.                       *)
LEMMA JoinedIsHeld ==
  ASSUME NEW hd \in Hands, NEW sp, NEW ms, NEW kb, NEW sc, NEW pd, NEW tr, NEW pt, NEW d \in Ctl!DpadButtons,
         KeysFrom(kb, 0, hd, sp, ms), PadsFrom(pd, pt, 0, hd, sp), ScreenFrom(sc, tr, hd),
         d \in kb.buttons \cup pd.buttons \cup sc.buttons
  PROVE  Steered(0, hd, sp)
<1>1. d # "touchpad"
  BY DEF Ctl!DpadButtons, Ctl!Dpad
<1>2. KeyLives(d, hd, sp) \/ PadLives(d, hd, sp)
  BY <1>1 DEF KeysFrom, PadsFrom, ScreenFrom
<1> QED BY <1>2 DEF Steered

(* More is held and less is spoilt: what the sources have down stays accounted for.       *)
LEMMA HeldStays ==
  ASSUME NEW hd, NEW sp, NEW h, NEW ss, ss \subseteq sp
  PROVE  /\ \A kb, lim, ms : KeysFrom(kb, lim, hd, sp, ms) /\ hd.keys \subseteq h.keys /\ hd.mouse \subseteq h.mouse
              => KeysFrom(kb, lim, h, ss, ms)
         /\ \A pd, pt, lim : PadsFrom(pd, pt, lim, hd, sp) /\ hd.pad \ {"mic"} \subseteq h.pad /\ DOMAIN pt \subseteq h.padFingers
              => PadsFrom(pd, pt, lim, h, ss)
         /\ \A sc, tr : ScreenFrom(sc, tr, hd) /\ DOMAIN tr \subseteq h.fingers => ScreenFrom(sc, tr, h)
<1>1. \A kb, lim, ms : KeysFrom(kb, lim, hd, sp, ms) /\ hd.keys \subseteq h.keys /\ hd.mouse \subseteq h.mouse
        => KeysFrom(kb, lim, h, ss, ms)
  BY DEF KeysFrom, KeyLives
<1>2. ASSUME NEW pd, NEW pt, NEW lim, PadsFrom(pd, pt, lim, hd, sp), hd.pad \ {"mic"} \subseteq h.pad, DOMAIN pt \subseteq h.padFingers
      PROVE  PadsFrom(pd, pt, lim, h, ss)
  <2>1. \A b \in pd.buttons \cup pd.axes : b # "mic"
    BY <1>2 DEF PadsFrom
  <2>2. pd.buttons \subseteq h.pad /\ pd.axes \subseteq h.pad
    BY <1>2, <2>1 DEF PadsFrom
  <2>3. ASSUME lim = 0, NEW b \in pd.buttons
        PROVE  PadLives(b, h, ss)
    BY <1>2, <2>2, <2>3 DEF PadsFrom, PadLives
  <2> QED BY <1>2, <2>2, <2>3 DEF PadsFrom
<1>3. \A sc, tr : ScreenFrom(sc, tr, hd) /\ DOMAIN tr \subseteq h.fingers => ScreenFrom(sc, tr, h)
  BY DEF ScreenFrom
<1> QED BY <1>1, <1>2, <1>3

(* A step that sends the joined state: what is blocked stays blocked, or all is let        *)
(* through, after a menu only where no button is down.                                  *)
LEMMA Heard ==
  ASSUME CtlAssumption, CtlSound, NEW limit \in 0 .. 2, NEW kb \in PadState,
         NEW dp, DpadRests(dp), NEW stopping \in BOOLEAN, NEW ph \in BOOLEAN,
         NEW h \in Hands, NEW ss, NEW sc \in PadState, NEW pd \in PadState, NEW tr, NEW pt, NEW ms \in Int, NEW g \in Nat,
         Ctl!Send(limit, kb, sc, pd, dp, stopping, ph),
         dp.id >= 0 => timer /\ ~stopping, ph => timer /\ ~stopping,
         ctlHeld' = h, spoilt' = ss, screen' = sc, ctlPad' = pd, tracker' = tr, padTouches' = pt, mouse' = ms, grab' = g,
         ss \subseteq Ctl!Holding(h), g > 0 <=> limit = 1,
         KeysFrom(kb, limit, h, ss, ms), PadsFrom(pd, pt, limit, h, ss), ScreenFrom(sc, tr, h)
  PROVE  CtlSound'
<1>1. /\ block' \in {0, limit} /\ (limit = 1 => block' = 1) /\ keyboard' \in PadState
      /\ (block' # 0 => keyboard' = Ctl!Idle)
      /\ KeysFrom(keyboard', block', h, ss, ms) /\ PadsFrom(pd, pt, block', h, ss)
      /\ DpadFrom(dpad', timer', stopTimer', block', h, ss)
      /\ ConsoleFrom(ctlConsole', block', keyboard', pd, sc, dpad')
  <2> DEFINE joined == Ctl!Or(Ctl!Or(pd, kb), sc)
             some == limit # 0 /\ ~Ctl!Lifts(limit, joined)
             seen == IF some THEN Ctl!Idle ELSE joined
             shortcut == Shortcut # {} /\ Shortcut \subseteq seen.buttons
             plain == IF shortcut /\ ~switched THEN ~regular ELSE regular
             moves == CtlIncrement > 0 /\ ~plain /\ seen.buttons \cap Ctl!DpadButtons # {}
             dir == Ctl!Direction(seen)
             to == IF moves THEN Ctl!DpadTouch(dp, dir) ELSE dp
             out == IF moves THEN Ctl!Clear(seen, dir) ELSE seen
  <2>1. /\ block' = (IF some THEN limit ELSE 0) /\ keyboard' = (IF some THEN Ctl!Idle ELSE kb)
        /\ dpad' = to /\ timer' = (IF moves /\ ~ph THEN TRUE ELSE timer /\ ~stopping)
        /\ stopTimer' = (IF moves THEN ph /\ stopTimer /\ ~stopping ELSE (stopTimer /\ ~stopping) \/ dp.id >= 0)
        /\ ctlConsole' = Ctl!Or(out, to.state)
    BY DEF Ctl!Send
  <2>2. /\ joined \in PadState /\ joined.buttons = kb.buttons \cup pd.buttons \cup sc.buttons
        /\ joined.axes = kb.axes \cup pd.axes \cup sc.axes /\ (Quiet(kb) /\ Quiet(pd) /\ Quiet(sc) => Quiet(joined))
    <3> DEFINE first == Ctl!Or(pd, kb)
    <3>1. /\ first \in PadState /\ first.buttons = pd.buttons \cup kb.buttons /\ first.axes = pd.axes \cup kb.axes
          /\ (Quiet(kb) /\ Quiet(pd) => Quiet(first))
      BY OrIsState
    <3>2. joined = Ctl!Or(first, sc)
      OBVIOUS
    <3> HIDE DEF first, joined
    <3>3. /\ joined \in PadState /\ joined.buttons = first.buttons \cup sc.buttons /\ joined.axes = first.axes \cup sc.axes
          /\ (Quiet(first) /\ Quiet(sc) => Quiet(joined))
      BY <3>1, <3>2, OrIsState
    <3> QED BY <3>1, <3>3
  <2>3. /\ some => limit # 0
        /\ ~some => limit = 0 \/ (limit = 2 /\ joined.buttons = {})
        /\ limit = 1 => some
    BY DEF Ctl!Lifts
  <2>4. /\ some => seen = Ctl!Idle
        /\ ~some => seen = joined
    OBVIOUS
  <2>5. /\ moves => seen.buttons \cap Ctl!DpadButtons # {} /\ to = Ctl!DpadTouch(dp, dir) /\ out = Ctl!Clear(seen, dir)
        /\ ~moves => to = dp /\ out = seen
    OBVIOUS
  <2>d. dir = Ctl!Direction(seen)
    OBVIOUS
  <2> HIDE DEF joined, some, seen, shortcut, plain, moves, dir, to, out
  <2>6. /\ seen \in PadState
        /\ some => seen.buttons = {} /\ seen.axes = {} /\ Quiet(seen)
    BY <2>2, <2>4, IdleIsState
  <2>7. moves => ~some /\ dir \in seen.buttons \cap Ctl!DpadButtons
    BY <2>5, <2>6, <2>d, DirectionIsDown
  <2>8. DpadRests(to) /\ (moves => to.id >= 0)
    <3>1. CASE moves
      BY <2>5, <2>7, <3>1, DpadMoves
    <3>2. CASE ~moves
      BY <2>5, <3>2
    <3> QED BY <3>1, <3>2
  <2>9. out \in PadState /\ out.buttons \subseteq seen.buttons /\ out.axes \subseteq seen.axes /\ (Quiet(seen) => Quiet(out))
    <3>1. CASE moves
      BY <2>5, <2>6, <3>1, KeyIsCleared DEF Quiet
    <3>2. CASE ~moves
      BY <2>5, <2>6, <3>2
    <3> QED BY <3>1, <3>2
  <2>10. /\ ctlConsole' \in PadState /\ ctlConsole'.buttons \subseteq seen.buttons /\ ctlConsole'.axes \subseteq seen.axes
         /\ (Quiet(seen) /\ to.id < 0 => Quiet(ctlConsole'))
    <3>1. to.state \in PadState /\ to.state.buttons = {} /\ to.state.axes = {} /\ (to.id < 0 => Quiet(to.state))
      BY <2>8 DEF DpadRests, Quiet
    <3>2. /\ ctlConsole' \in PadState /\ ctlConsole'.buttons = out.buttons \cup to.state.buttons
          /\ ctlConsole'.axes = out.axes \cup to.state.axes /\ (Quiet(out) /\ Quiet(to.state) => Quiet(ctlConsole'))
      <4> DEFINE own == to.state
      <4>1. ctlConsole' = Ctl!Or(out, own)
        BY <2>1
      <4>2. own \in PadState /\ out \in PadState
        BY <2>9, <3>1
      <4> HIDE DEF own
      <4>3. /\ ctlConsole' \in PadState /\ ctlConsole'.buttons = out.buttons \cup own.buttons
            /\ ctlConsole'.axes = out.axes \cup own.axes /\ (Quiet(out) /\ Quiet(own) => Quiet(ctlConsole'))
        BY <4>1, <4>2, OrIsState
      <4> QED BY <4>3 DEF own
    <3> QED BY <2>9, <3>1, <3>2
  <2>11. CASE some
    <3>1. block' = limit /\ limit # 0 /\ keyboard' = Ctl!Idle /\ ~moves
      BY <2>1, <2>3, <2>7, <2>11
    <3>2. keyboard' \in PadState /\ keyboard'.buttons = {} /\ keyboard'.axes = {} /\ Quiet(keyboard')
      BY <3>1, IdleIsState
    <3>3. KeysFrom(keyboard', block', h, ss, ms)
      BY <3>1, <3>2 DEF KeysFrom, Quiet, PadState
    <3>4. PadsFrom(pd, pt, block', h, ss)
      BY <3>1
    <3>5. DpadFrom(dpad', timer', stopTimer', block', h, ss)
      <4>1. dpad' = dp /\ (dp.id >= 0 => timer' /\ stopTimer')
        BY <2>1, <2>5, <3>1
      <4> QED BY <4>1 DEF DpadFrom
    <3>6. ConsoleFrom(ctlConsole', block', keyboard', pd, sc, dpad')
      BY <2>1, <2>6, <2>10, <2>11, <3>1 DEF ConsoleFrom
    <3> QED BY <3>1, <3>2, <3>3, <3>4, <3>5, <3>6
  <2>12. CASE ~some
    <3>1. block' = 0 /\ keyboard' = kb /\ limit # 1 /\ seen = joined
      BY <2>1, <2>3, <2>4, <2>12
    <3>2. CASE limit = 0
      <4>1. Steered(0, h, ss) \/ ~moves
        BY <2>2, <2>7, <3>1, <3>2, JoinedIsHeld
      <4>2. KeysFrom(keyboard', block', h, ss, ms) /\ PadsFrom(pd, pt, block', h, ss)
        BY <3>1, <3>2
      <4>3. dpad' = to /\ (to.id >= 0 => timer' /\ (stopTimer' \/ Steered(0, h, ss)))
        BY <2>1, <2>5, <2>8, <4>1
      <4>4. DpadFrom(dpad', timer', stopTimer', block', h, ss)
        BY <2>8, <3>1, <4>3 DEF DpadFrom
      <4> QED BY <3>1, <3>2, <4>2, <4>4, <2>2, <2>10, <2>1 DEF ConsoleFrom
    <3>3. CASE limit # 0
      <4>1. limit = 2 /\ joined.buttons = {} /\ ~moves
        BY <2>3, <2>7, <2>12, <3>1, <3>3
      <4>2. kb.buttons = {} /\ pd.buttons = {}
        BY <2>2, <4>1
      <4>3. KeysFrom(keyboard', block', h, ss, ms)
        BY <3>1, <4>2 DEF KeysFrom
      <4>4. PadsFrom(pd, pt, block', h, ss)
        BY <3>1, <4>2 DEF PadsFrom
      <4>5. dpad' = dp /\ (dp.id >= 0 => timer' /\ stopTimer')
        BY <2>1, <2>5, <4>1
      <4>6. DpadFrom(dpad', timer', stopTimer', block', h, ss)
        BY <4>5 DEF DpadFrom
      <4> QED BY <3>1, <4>1, <4>3, <4>4, <4>6, <2>2, <2>10, <2>1 DEF ConsoleFrom
    <3> QED BY <3>2, <3>3
  <2> QED BY <2>11, <2>12
<1>2. CtlKinds'
  BY <1>1 DEF CtlKinds, Ctl!Idle, Ctl!Slots
<1> QED BY <1>1, <1>2 DEF CtlSound

(* A step that sends nothing: while a menu is open, or of the controller alone.           *)
LEMMA Hushed ==
  ASSUME CtlSound, Ctl!Silent, NEW h \in Hands, ctlHeld' = h, spoilt' = spoilt \cap Ctl!Holding(h),
         UNCHANGED <<mouse, screen, tracker, ctlPad, padTouches, grab>>,
         \/ block = 1 /\ h.pad = ctlHeld.pad
         \/ h.keys = ctlHeld.keys /\ h.mouse = ctlHeld.mouse /\ ctlHeld.pad \ {"mic"} \subseteq h.pad,
         DOMAIN tracker \subseteq h.fingers, DOMAIN padTouches \subseteq h.padFingers
  PROVE  CtlSound'
<1>1. /\ UNCHANGED <<keyboard, dpad, timer, stopTimer, block, ctlConsole>>
      /\ mouse' = mouse /\ screen' = screen /\ tracker' = tracker /\ ctlPad' = ctlPad /\ padTouches' = padTouches /\ grab' = grab
  BY DEF Ctl!Silent
<1>2. /\ CtlKinds /\ KeysFrom(keyboard, block, ctlHeld, spoilt, mouse) /\ PadsFrom(ctlPad, padTouches, block, ctlHeld, spoilt)
      /\ ScreenFrom(screen, tracker, ctlHeld) /\ DpadFrom(dpad, timer, stopTimer, block, ctlHeld, spoilt)
      /\ ConsoleFrom(ctlConsole, block, keyboard, ctlPad, screen, dpad)
  BY DEF CtlSound
<1> DEFINE ss == spoilt \cap Ctl!Holding(h)
<1>3. ss \subseteq spoilt /\ ss \subseteq Ctl!Holding(h) /\ spoilt' = ss
  OBVIOUS
<1> HIDE DEF ss
<1>4. CtlKinds'
  BY <1>1, <1>2, <1>3 DEF CtlKinds, Ctl!Idle, Ctl!Slots
<1>5. ScreenFrom(screen, tracker, h)
  BY <1>2, <1>3, HeldStays
<1>6. ctlHeld.pad \ {"mic"} \subseteq h.pad
  OBVIOUS
<1>7. PadsFrom(ctlPad, padTouches, block, h, ss)
  BY <1>2, <1>3, <1>6, HeldStays
<1>8. CASE block = 1 /\ h.pad = ctlHeld.pad
  <2>1. KeysFrom(keyboard, block, h, ss, mouse)
    <3>1. keyboard = Ctl!Idle /\ block = 1
      BY <1>2, <1>8 DEF CtlKinds
    <3>2. keyboard.buttons = {} /\ keyboard.axes = {} /\ Quiet(keyboard) /\ keyboard \in PadState
      BY <3>1, IdleIsState
    <3> QED BY <3>1, <3>2 DEF KeysFrom, Quiet, PadState
  <2>2. DpadFrom(dpad, timer, stopTimer, block, h, ss)
    BY <1>2, <1>8 DEF DpadFrom, Steered
  <2> QED BY <1>1, <1>2, <1>3, <1>4, <1>5, <1>7, <2>1, <2>2 DEF CtlSound
<1>9. CASE h.keys = ctlHeld.keys /\ h.mouse = ctlHeld.mouse /\ ctlHeld.pad \ {"mic"} \subseteq h.pad
  <2>1. KeysFrom(keyboard, block, h, ss, mouse)
    BY <1>2, <1>3, <1>9, HeldStays
  <2>2. DpadFrom(dpad, timer, stopTimer, block, h, ss)
    <3>1. \A d \in Ctl!DpadButtons : d # "mic"
      BY DEF Ctl!DpadButtons, Ctl!Dpad
    <3>2. Steered(block, ctlHeld, spoilt) => Steered(block, h, ss)
      BY <1>3, <1>9, <3>1 DEF Steered, KeyLives, PadLives
    <3> QED BY <1>2, <3>2 DEF DpadFrom
  <2> QED BY <1>1, <1>2, <1>3, <1>4, <1>5, <1>7, <2>1, <2>2 DEF CtlSound
<1> QED BY <1>8, <1>9

LEMMA CtlParts ==
  ASSUME CtlSound
  PROVE  /\ keyboard \in PadState /\ ctlPad \in PadState /\ screen \in PadState /\ ctlHeld \in Hands /\ mouse \in Int
         /\ block \in 0 .. 2 /\ grab \in Nat /\ (grab > 0 <=> block = 1) /\ (block # 0 => keyboard = Ctl!Idle)
         /\ spoilt \subseteq Ctl!Holding(ctlHeld)
         /\ KeysFrom(keyboard, block, ctlHeld, spoilt, mouse) /\ PadsFrom(ctlPad, padTouches, block, ctlHeld, spoilt)
         /\ ScreenFrom(screen, tracker, ctlHeld) /\ DpadRests(dpad) /\ (dpad.id >= 0 => timer)
         /\ DOMAIN tracker \subseteq ctlHeld.fingers /\ DOMAIN padTouches \subseteq ctlHeld.padFingers
BY DEF CtlSound, CtlKinds, DpadFrom, ScreenFrom, PadsFrom

(* With the sources as they were, only the keyboard told differently.                     *)
LEMMA KeyboardHeard ==
  ASSUME CtlAssumption, CtlSound, NEW kb \in PadState, Ctl!Sends(kb, screen, ctlPad), NEW h \in Hands, ctlHeld' = h,
         spoilt' = spoilt \cap Ctl!Holding(h), NEW ms \in Int, mouse' = ms,
         screen' = screen, tracker' = tracker, ctlPad' = ctlPad, padTouches' = padTouches, grab' = grab,
         h.fingers = ctlHeld.fingers, h.pad = ctlHeld.pad, h.padFingers = ctlHeld.padFingers,
         KeysFrom(kb, block, h, spoilt \cap Ctl!Holding(h), ms)
  PROVE  CtlSound'
<1> DEFINE ss == spoilt \cap Ctl!Holding(h)
<1>1. ss \subseteq spoilt /\ ss \subseteq Ctl!Holding(h) /\ spoilt' = ss /\ KeysFrom(kb, block, h, ss, ms)
  OBVIOUS
<1> HIDE DEF ss
<1>2. /\ screen \in PadState /\ ctlPad \in PadState /\ block \in 0 .. 2 /\ grab \in Nat /\ (grab > 0 <=> block = 1)
      /\ DpadRests(dpad) /\ (dpad.id >= 0 => timer) /\ FALSE \in BOOLEAN
  BY CtlParts
<1>3. PadsFrom(ctlPad, padTouches, block, h, ss) /\ ScreenFrom(screen, tracker, h)
  <2>1. /\ PadsFrom(ctlPad, padTouches, block, ctlHeld, spoilt) /\ ScreenFrom(screen, tracker, ctlHeld)
        /\ DOMAIN tracker \subseteq h.fingers /\ DOMAIN padTouches \subseteq h.padFingers /\ ctlHeld.pad \ {"mic"} \subseteq h.pad
    BY CtlParts
  <2> QED BY <1>1, <2>1, HeldStays
<1>4. Ctl!Send(block, kb, screen, ctlPad, dpad, FALSE, FALSE)
  BY DEF Ctl!Sends
<1> QED BY <1>1, <1>2, <1>3, <1>4, Heard

LEMMA MenuHasKeys ==
  ASSUME CtlSound, grab > 0, Ctl!Silent, NEW h \in Hands, ctlHeld' = h, spoilt' = spoilt \cap Ctl!Holding(h),
         mouse' = mouse, screen' = screen, tracker' = tracker, ctlPad' = ctlPad, padTouches' = padTouches, grab' = grab,
         DOMAIN tracker \subseteq h.fingers, h.pad = ctlHeld.pad, h.padFingers = ctlHeld.padFingers
  PROVE  CtlSound'
<1>1. block = 1 /\ DOMAIN padTouches \subseteq h.padFingers
  BY CtlParts
<1>2. UNCHANGED <<mouse, screen, tracker, ctlPad, padTouches, grab>>
  OBVIOUS
<1> QED BY <1>1, <1>2, Hushed

LEMMA KeysAreTold ==
  ASSUME CtlAssumption, CtlSound, NEW k \in Keys, Ctl!KeyDown(k) \/ Ctl!KeyUp(k)
  PROVE  CtlSound'
<1>1. /\ mouse' = mouse /\ screen' = screen /\ tracker' = tracker /\ ctlPad' = ctlPad /\ padTouches' = padTouches /\ grab' = grab
      /\ spoilt' = spoilt \cap Ctl!Holding(ctlHeld')
  BY DEF Ctl!KeyDown, Ctl!KeyUp, Ctl!Happens, Ctl!sources
<1>2. keyboard \in PadState /\ grab \in Nat /\ ctlHeld \in Hands /\ mouse \in Int /\ KeysFrom(keyboard, block, ctlHeld, spoilt, mouse)
      /\ spoilt \subseteq Ctl!Holding(ctlHeld) /\ DOMAIN tracker \subseteq ctlHeld.fingers
  BY CtlParts
<1> DEFINE h == ctlHeld'
           ss == spoilt \cap Ctl!Holding(h)
<1>3. /\ h \in Hands /\ h.fingers = ctlHeld.fingers /\ h.pad = ctlHeld.pad /\ h.padFingers = ctlHeld.padFingers
      /\ h.mouse = ctlHeld.mouse
      /\ Ctl!KeyDown(k) => h.keys = ctlHeld.keys \cup {k} /\ k \notin ctlHeld.keys
      /\ Ctl!KeyUp(k) => h.keys = ctlHeld.keys \ {k}
  <2>1. \/ Ctl!KeyDown(k) /\ k \notin ctlHeld.keys /\ h = [ctlHeld EXCEPT !.keys = ctlHeld.keys \cup {k}]
        \/ Ctl!KeyUp(k) /\ k \in ctlHeld.keys /\ h = [ctlHeld EXCEPT !.keys = ctlHeld.keys \ {k}]
    BY DEF Ctl!KeyDown, Ctl!KeyUp, Ctl!Happens
  <2>2. ~(Ctl!KeyDown(k) /\ Ctl!KeyUp(k))
    BY DEF Ctl!KeyDown, Ctl!KeyUp
  <2> QED BY <1>2, <2>1, <2>2 DEF Hands
<1>4. spoilt' = ss /\ ss \subseteq spoilt /\ ctlHeld' = h
  BY <1>1
<1> HIDE DEF h
<1>5. CASE grab > 0
  <2>1. Ctl!Silent
    BY <1>2, <1>5 DEF Ctl!KeyDown, Ctl!KeyUp
  <2>2. DOMAIN tracker \subseteq h.fingers
    BY <1>2, <1>3
  <2> QED BY <1>1, <1>3, <1>4, <1>5, <2>1, <2>2, MenuHasKeys
<1>6. CASE grab = 0 /\ Ctl!KeyDown(k)
  <2> DEFINE kb == Ctl!Set(keyboard, k)
  <2>1. Ctl!Sends(kb, screen, ctlPad)
    BY <1>6 DEF Ctl!KeyDown
  <2>2. /\ kb \in PadState /\ kb.touches = keyboard.touches
        /\ kb.buttons \subseteq keyboard.buttons \cup {k} /\ kb.axes \subseteq keyboard.axes \cup {k}
    BY <1>2, KeyIsSet
  <2> HIDE DEF kb
  <2>3. KeyLives(k, h, ss)
    BY <1>2, <1>3, <1>4, <1>6 DEF KeyLives, Ctl!Holding
  <2>4. KeysFrom(kb, block, h, ss, mouse)
    BY <1>2, <1>3, <1>4, <1>6, <2>2, <2>3 DEF KeysFrom, KeyLives
  <2> QED BY <1>1, <1>2, <1>3, <1>4, <2>1, <2>2, <2>4, KeyboardHeard
<1>7. CASE grab = 0 /\ Ctl!KeyUp(k)
  <2> DEFINE kb == Ctl!Clear(keyboard, k)
  <2>1. Ctl!Sends(kb, screen, ctlPad)
    BY <1>7 DEF Ctl!KeyUp
  <2>2. kb \in PadState /\ kb.touches = keyboard.touches /\ kb.buttons = keyboard.buttons \ {k} /\ kb.axes = keyboard.axes \ {k}
    BY <1>2, KeyIsCleared
  <2> HIDE DEF kb
  <2>4. KeysFrom(kb, block, h, ss, mouse)
    BY <1>2, <1>3, <1>4, <1>7, <2>2 DEF KeysFrom, KeyLives
  <2> QED BY <1>1, <1>2, <1>3, <1>4, <2>1, <2>2, <2>4, KeyboardHeard
<1> QED BY <1>2, <1>5, <1>6, <1>7

LEMMA ButtonsOfTheMouseAreTold ==
  ASSUME CtlAssumption, CtlSound, NEW b \in {"left", "right"}, Ctl!MousePress(b) \/ Ctl!MouseRelease(b)
  PROVE  CtlSound'
<1>1. /\ screen' = screen /\ tracker' = tracker /\ ctlPad' = ctlPad /\ padTouches' = padTouches /\ grab' = grab
      /\ spoilt' = spoilt \cap Ctl!Holding(ctlHeld')
  BY DEF Ctl!MousePress, Ctl!MouseRelease, Ctl!Happens, Ctl!sources
<1>2. keyboard \in PadState /\ grab \in Nat /\ ctlHeld \in Hands /\ mouse \in Int /\ KeysFrom(keyboard, block, ctlHeld, spoilt, mouse)
      /\ DOMAIN tracker \subseteq ctlHeld.fingers
  BY CtlParts
<1> DEFINE h == ctlHeld'
           ss == spoilt \cap Ctl!Holding(h)
<1>3. /\ h \in Hands /\ h.fingers = ctlHeld.fingers /\ h.pad = ctlHeld.pad /\ h.padFingers = ctlHeld.padFingers
      /\ h.keys = ctlHeld.keys
      /\ Ctl!MousePress(b) => h.mouse = ctlHeld.mouse \cup {b}
      /\ Ctl!MouseRelease(b) => h.mouse = ctlHeld.mouse \ {b}
  <2>1. \/ Ctl!MousePress(b) /\ b \notin ctlHeld.mouse /\ h = [ctlHeld EXCEPT !.mouse = ctlHeld.mouse \cup {b}]
        \/ Ctl!MouseRelease(b) /\ b \in ctlHeld.mouse /\ h = [ctlHeld EXCEPT !.mouse = ctlHeld.mouse \ {b}]
    BY DEF Ctl!MousePress, Ctl!MouseRelease, Ctl!Happens
  <2>2. ~(Ctl!MousePress(b) /\ Ctl!MouseRelease(b))
    BY DEF Ctl!MousePress, Ctl!MouseRelease
  <2> QED BY <1>2, <2>1, <2>2 DEF Hands
<1>4. spoilt' = ss /\ ss \subseteq spoilt /\ ctlHeld' = h
  BY <1>1
<1> HIDE DEF h
<1>5. CASE grab > 0
  <2>1. Ctl!Silent /\ mouse' = mouse
    BY <1>2, <1>5 DEF Ctl!MousePress, Ctl!MouseRelease, Ctl!sources
  <2>2. DOMAIN tracker \subseteq h.fingers
    BY <1>2, <1>3
  <2> QED BY <1>1, <1>3, <1>4, <1>5, <2>1, <2>2, MenuHasKeys
<1>6. CASE grab = 0 /\ Ctl!MousePress(b)
  <2> DEFINE kb == IF b = "left" THEN keyboard ELSE Ctl!Set(keyboard, "touchpad")
  <2>1. Ctl!Sends(kb, screen, ctlPad) /\ mouse' = mouse
    BY <1>6 DEF Ctl!MousePress, Ctl!sources
  <2>2. /\ kb \in PadState /\ kb.touches = keyboard.touches /\ kb.axes = keyboard.axes
        /\ (b = "left" => kb.buttons = keyboard.buttons) /\ kb.buttons \subseteq keyboard.buttons \cup {"touchpad"}
    <3>1. CASE b = "left"
      <4>1. kb = keyboard
        BY <3>1
      <4> HIDE DEF kb
      <4> QED BY <1>2, <4>1
    <3>2. CASE b = "right"
      <4>1. kb = Ctl!Set(keyboard, "touchpad")
        BY <3>2
      <4> HIDE DEF kb
      <4>2. /\ kb \in PadState /\ kb.touches = keyboard.touches /\ kb.buttons = keyboard.buttons \cup {"touchpad"}
            /\ kb.axes = keyboard.axes
        BY <1>2, <4>1, ClickIsSet
      <4> QED BY <3>2, <4>2
    <3> QED BY <3>1, <3>2
  <2> HIDE DEF kb
  <2>4. KeysFrom(kb, block, h, ss, mouse)
    BY <1>2, <1>3, <1>4, <1>6, <2>2 DEF KeysFrom, KeyLives
  <2> QED BY <1>1, <1>2, <1>3, <1>4, <2>1, <2>2, <2>4, KeyboardHeard
<1>7. CASE grab = 0 /\ Ctl!MouseRelease(b)
  <2> DEFINE ends == b = "left" /\ mouse >= 0
             left == IF ends THEN Ctl!StopTouch(keyboard, mouse) ELSE keyboard
             kb == Ctl!Clear(left, "touchpad")
             ms == IF b = "left" THEN -1 ELSE mouse
  <2>1. Ctl!Sends(kb, screen, ctlPad) /\ mouse' = ms
    BY <1>7 DEF Ctl!MouseRelease
  <2>2. /\ left \in PadState /\ left.buttons = keyboard.buttons /\ left.axes = keyboard.axes
        /\ left.touches[2] < 0 /\ (left.touches[1] >= 0 => b = "right" /\ left.touches = keyboard.touches)
        /\ ms \in Int /\ (b = "right" => ms = mouse)
    <3>1. /\ keyboard.touches[1] \in Int /\ keyboard.touches[2] \in Int /\ keyboard.touches[2] < 0
          /\ keyboard.touches[1] >= 0 => keyboard.touches[1] = mouse
      BY <1>2 DEF KeysFrom, PadState
    <3>2. CASE ends
      <4>1. left = Ctl!StopTouch(keyboard, mouse) /\ b = "left" /\ mouse >= 0
        BY <3>2
      <4> HIDE DEF left, ends
      <4>2. Stopped(keyboard, mouse, left)
        BY <1>2, <4>1, TouchStops
      <4>3. /\ left \in PadState /\ left.buttons = keyboard.buttons /\ left.axes = keyboard.axes
            /\ keyboard.touches[1] = mouse => left.touches[1] = -1 /\ left.touches[2] = keyboard.touches[2]
            /\ keyboard.touches[1] # mouse /\ keyboard.touches[2] # mouse => left = keyboard
        BY <4>2 DEF Stopped
      <4> QED BY <1>2, <3>1, <4>1, <4>3
    <3>3. CASE ~ends
      BY <1>2, <3>1, <3>3
    <3> QED BY <3>2, <3>3
  <2> HIDE DEF left, ms
  <2>3. kb \in PadState /\ kb.touches = left.touches /\ kb.buttons = left.buttons \ {"touchpad"} /\ kb.axes = left.axes \ {"touchpad"}
    BY <2>2, KeyIsCleared
  <2> HIDE DEF kb
  <2>4. KeysFrom(kb, block, h, ss, ms)
    BY <1>2, <1>3, <1>4, <1>7, <2>2, <2>3 DEF KeysFrom, KeyLives
  <2> QED BY <1>1, <1>2, <1>3, <1>4, <2>1, <2>2, <2>3, <2>4, KeyboardHeard
<1> QED BY <1>2, <1>5, <1>6, <1>7

LEMMA MovesOfTheMouseAreTold ==
  ASSUME CtlAssumption, CtlSound, Ctl!MouseMove
  PROVE  CtlSound'
<1> DEFINE st == Ctl!StartTouch(keyboard)
           h == ctlHeld
           ss == spoilt \cap Ctl!Holding(h)
<1>1. /\ screen' = screen /\ tracker' = tracker /\ ctlPad' = ctlPad /\ padTouches' = padTouches /\ grab' = grab
      /\ ctlHeld' = h /\ spoilt' = ss /\ mouse < 0 /\ h.mouse = {"left"}
      /\ mouse' = st.id /\ Ctl!Sends(st.state, screen, ctlPad)
  BY DEF Ctl!MouseMove, Ctl!Happens
<1>2. keyboard \in PadState /\ h \in Hands /\ mouse \in Int /\ KeysFrom(keyboard, block, h, spoilt, mouse) /\ ss \subseteq spoilt
  BY CtlParts
<1>3. keyboard.touches[1] < 0 /\ keyboard.touches[2] < 0
  BY <1>1, <1>2 DEF KeysFrom, PadState
<1>4. /\ st.state \in PadState /\ st.state.buttons = keyboard.buttons /\ st.state.axes = keyboard.axes
      /\ st.id \in Nat /\ st.state.touches[1] = st.id /\ st.state.touches[2] = keyboard.touches[2]
  BY <1>2, <1>3, TouchStarts
<1> DEFINE kb == st.state
           ms == st.id
<1>5. kb \in PadState /\ ms \in Int /\ mouse' = ms /\ Ctl!Sends(kb, screen, ctlPad)
  BY <1>1, <1>4
<1>6. KeysFrom(kb, block, h, ss, ms)
  <2>1. KeysFrom(keyboard, block, h, ss, mouse)
    BY <1>2, HeldStays
  <2> QED BY <1>1, <1>2, <1>3, <1>4, <2>1 DEF KeysFrom
<1> HIDE DEF st, ms, kb
<1> QED BY <1>1, <1>2, <1>5, <1>6, KeyboardHeard

(* With the keyboard as it was, the screen and the controller told differently.            *)
LEMMA SourcesHeard ==
  ASSUME CtlAssumption, CtlSound, NEW sc \in PadState, NEW pd \in PadState, Ctl!Sends(keyboard, sc, pd), NEW h \in Hands,
         ctlHeld' = h, spoilt' = spoilt \cap Ctl!Holding(h), NEW tr, NEW pt, screen' = sc, tracker' = tr, ctlPad' = pd,
         padTouches' = pt, mouse' = mouse, grab' = grab, h.keys = ctlHeld.keys, h.mouse = ctlHeld.mouse,
         ScreenFrom(sc, tr, h), PadsFrom(pd, pt, block, h, spoilt \cap Ctl!Holding(h))
  PROVE  CtlSound'
<1> DEFINE ss == spoilt \cap Ctl!Holding(h)
<1>1. ss \subseteq spoilt /\ ss \subseteq Ctl!Holding(h) /\ spoilt' = ss /\ PadsFrom(pd, pt, block, h, ss)
  OBVIOUS
<1> HIDE DEF ss
<1>2. /\ keyboard \in PadState /\ mouse \in Int /\ block \in 0 .. 2 /\ grab \in Nat /\ (grab > 0 <=> block = 1)
      /\ DpadRests(dpad) /\ (dpad.id >= 0 => timer) /\ FALSE \in BOOLEAN
  BY CtlParts
<1>3. KeysFrom(keyboard, block, h, ss, mouse)
  <2>1. KeysFrom(keyboard, block, ctlHeld, spoilt, mouse)
    BY CtlParts
  <2> QED BY <1>1, <2>1, HeldStays
<1>4. Ctl!Send(block, keyboard, sc, pd, dpad, FALSE, FALSE)
  BY DEF Ctl!Sends
<1> QED BY <1>1, <1>2, <1>3, <1>4, Heard

LEMMA TouchesAreTold ==
  ASSUME CtlAssumption, CtlSound, NEW x \in Fingers, NEW click \in BOOLEAN, Ctl!Touch(x, click)
  PROVE  CtlSound'
<1> DEFINE h == [ctlHeld EXCEPT !.fingers = ctlHeld.fingers \cup {x}]
           ss == spoilt \cap Ctl!Holding(h)
<1>1. /\ mouse' = mouse /\ ctlPad' = ctlPad /\ padTouches' = padTouches /\ grab' = grab /\ ctlHeld' = h /\ spoilt' = ss
  BY DEF Ctl!Touch, Ctl!Happens
<1>2. /\ screen \in PadState /\ ctlPad \in PadState /\ grab \in Nat /\ ctlHeld \in Hands /\ ScreenFrom(screen, tracker, ctlHeld)
      /\ DOMAIN tracker \subseteq ctlHeld.fingers
  BY CtlParts
<1>3. /\ h \in Hands /\ h.keys = ctlHeld.keys /\ h.mouse = ctlHeld.mouse /\ h.pad = ctlHeld.pad
      /\ h.padFingers = ctlHeld.padFingers /\ h.fingers = ctlHeld.fingers \cup {x}
  BY <1>2 DEF Hands
<1> HIDE DEF h
<1>4. CASE grab > 0
  <2>1. Ctl!Silent /\ screen' = screen /\ tracker' = tracker
    BY <1>4 DEF Ctl!Touch
  <2>2. DOMAIN tracker \subseteq h.fingers
    BY <1>2, <1>3
  <2> QED BY <1>1, <1>3, <1>4, <2>1, <2>2, MenuHasKeys
<1>5. CASE ~(grab > 0)
  <2> DEFINE dp == IF click THEN Ctl!Set(screen, "touchpad") ELSE Ctl!Clear(screen, "touchpad")
             st == Ctl!StartTouch(dp)
             sc == IF x \notin DOMAIN tracker THEN st.state ELSE dp
             tr == IF x \notin DOMAIN tracker /\ st.id >= 0 THEN Tracking(tracker, x, st.id) ELSE tracker
  <2>1. screen' = sc /\ tracker' = tr /\ Ctl!Sends(keyboard, screen', ctlPad)
    BY <1>5 DEF Ctl!Touch, Tracking
  <2>2. dp \in PadState /\ dp.touches = screen.touches /\ dp.buttons \subseteq {"touchpad"} /\ dp.axes = {}
    <3>0. screen.buttons \subseteq {"touchpad"} /\ screen.axes = {}
      BY <1>2 DEF ScreenFrom
    <3>1. CASE click
      <4>1. dp = Ctl!Set(screen, "touchpad")
        BY <3>1
      <4> HIDE DEF dp
      <4> QED BY <1>2, <3>0, <4>1, ClickIsSet
    <3>2. CASE ~click
      <4>1. dp = Ctl!Clear(screen, "touchpad")
        BY <3>2
      <4> HIDE DEF dp
      <4> QED BY <1>2, <3>0, <4>1, KeyIsCleared
    <3> QED BY <3>1, <3>2
  <2> HIDE DEF dp
  <2>3. Tracks(dp.touches, tracker)
    BY <1>2, <2>2 DEF ScreenFrom
  <2>4. /\ sc \in PadState /\ sc.buttons \subseteq {"touchpad"} /\ sc.axes = {} /\ Tracks(sc.touches, tr)
        /\ DOMAIN tr # {} /\ DOMAIN tr \subseteq DOMAIN tracker \cup {x}
    <3>1. CASE x \in DOMAIN tracker
      <4>1. sc = dp /\ tr = tracker
        BY <3>1
      <4> QED BY <2>2, <2>3, <3>1, <4>1
    <3>2. CASE x \notin DOMAIN tracker
      <4>1. /\ st.state \in PadState /\ st.state.buttons = dp.buttons /\ st.state.axes = dp.axes
            /\ dp.touches[1] >= 0 /\ dp.touches[2] >= 0 => st.id = -1 /\ st.state.touches = dp.touches
            /\ ~(dp.touches[1] >= 0 /\ dp.touches[2] >= 0) => st.id \in Nat
        <5>1. dp.touches[1] \in Int /\ dp.touches[2] \in Int
          BY <2>2 DEF PadState
        <5> QED BY <2>2, <5>1, TouchStarts
      <4>2. sc = st.state
        BY <3>2
      <4>3. CASE st.id >= 0
        <5>1. tr = Tracking(tracker, x, st.id)
          BY <3>2, <4>3
        <5> DEFINE r == st
        <5>2. r = Ctl!StartTouch(dp) /\ r.id >= 0
          BY <4>3
        <5> HIDE DEF r, st
        <5>3. Tracks(r.state.touches, Tracking(tracker, x, r.id))
          BY <2>2, <2>3, <3>2, <5>2, FingerIsTracked
        <5>4. DOMAIN tr = DOMAIN tracker \cup {x}
          BY <5>1 DEF Tracking
        <5>5. Tracks(sc.touches, tr)
          BY <4>2, <5>1, <5>3 DEF r
        <5> QED BY <2>2, <4>1, <4>2, <5>4, <5>5
      <4>4. CASE ~(st.id >= 0)
        <5>1. tr = tracker
          BY <4>4
        <5>2. dp.touches[1] >= 0 /\ st.state.touches = dp.touches
          BY <4>1, <4>4
        <5>3. DOMAIN tracker # {}
          <6>1. ~(dp.touches[1] < 0)
            BY <2>2, <5>2 DEF PadState
          <6> QED BY <2>3, <6>1 DEF Tracks
        <5> HIDE DEF st
        <5> QED BY <2>2, <2>3, <4>1, <4>2, <5>1, <5>2, <5>3
      <4> QED BY <4>3, <4>4
    <3> QED BY <3>1, <3>2
  <2> HIDE DEF st, sc, tr
  <2>5. ScreenFrom(sc, tr, h)
    BY <1>2, <1>3, <2>4 DEF ScreenFrom
  <2>6. PadsFrom(ctlPad, padTouches, block, h, ss)
    <3>1. /\ PadsFrom(ctlPad, padTouches, block, ctlHeld, spoilt) /\ DOMAIN padTouches \subseteq h.padFingers
          /\ ctlHeld.pad \ {"mic"} \subseteq h.pad /\ ss \subseteq spoilt
      BY <1>3, CtlParts
    <3> QED BY <3>1, HeldStays
  <2> QED BY <1>1, <1>2, <1>3, <2>1, <2>4, <2>5, <2>6, SourcesHeard
<1> QED BY <1>4, <1>5

LEMMA FingersLeaving ==
  ASSUME CtlAssumption, CtlSound, ~missed', NEW x \in Fingers, Ctl!FingerUp(x)
  PROVE  CtlSound'
<1> DEFINE h == [ctlHeld EXCEPT !.fingers = ctlHeld.fingers \ {x}]
           ss == spoilt \cap Ctl!Holding(h)
<1>1. /\ mouse' = mouse /\ ctlPad' = ctlPad /\ padTouches' = padTouches /\ grab' = grab /\ ctlHeld' = h /\ spoilt' = ss
  BY DEF Ctl!FingerUp, Ctl!Happens
<1>2. /\ screen \in PadState /\ ctlPad \in PadState /\ grab \in Nat /\ ctlHeld \in Hands /\ ScreenFrom(screen, tracker, ctlHeld)
      /\ DOMAIN tracker \subseteq ctlHeld.fingers
  BY CtlParts
<1>3. /\ h \in Hands /\ h.keys = ctlHeld.keys /\ h.mouse = ctlHeld.mouse /\ h.pad = ctlHeld.pad
      /\ h.padFingers = ctlHeld.padFingers /\ h.fingers = ctlHeld.fingers \ {x}
  BY <1>2 DEF Hands
<1> HIDE DEF h
<1>4. CASE grab > 0
  <2>1. Ctl!Silent /\ screen' = screen /\ tracker' = tracker /\ x \notin DOMAIN tracker
    BY <1>4 DEF Ctl!FingerUp
  <2>2. DOMAIN tracker \subseteq h.fingers
    BY <1>2, <1>3, <2>1
  <2> QED BY <1>1, <1>3, <1>4, <2>1, <2>2, MenuHasKeys
<1>5. CASE ~(grab > 0)
  <2> DEFINE dp == Ctl!Clear(screen, "touchpad")
             sc == IF x \in DOMAIN tracker THEN Ctl!StopTouch(dp, tracker[x]) ELSE dp
             tr == Ctl!Without(tracker, x)
  <2>1. screen' = sc /\ tracker' = tr /\ Ctl!Sends(keyboard, screen', ctlPad)
    BY <1>5 DEF Ctl!FingerUp
  <2>2. dp \in PadState /\ dp.touches = screen.touches /\ dp.buttons = {} /\ dp.axes = {}
    <3>1. screen.buttons \subseteq {"touchpad"} /\ screen.axes = {}
      BY <1>2 DEF ScreenFrom
    <3> QED BY <1>2, <3>1, KeyIsCleared
  <2> HIDE DEF dp
  <2>3. Tracks(dp.touches, tracker)
    BY <1>2, <2>2 DEF ScreenFrom
  <2>4. sc \in PadState /\ sc.buttons = {} /\ sc.axes = {} /\ Tracks(sc.touches, tr)
    <3>1. CASE x \in DOMAIN tracker
      <4> DEFINE r == Ctl!StopTouch(dp, tracker[x])
      <4>1. sc = r
        BY <3>1
      <4>2. tracker[x] \in Int
        <5>1. dp.touches[1] \in Int /\ dp.touches[2] \in Int
          BY <2>2 DEF PadState
        <5>2. tracker[x] = dp.touches[1] \/ tracker[x] = dp.touches[2]
          BY <2>3, <3>1 DEF Tracks
        <5> QED BY <5>1, <5>2
      <4>3. r = Ctl!StopTouch(dp, tracker[x])
        OBVIOUS
      <4> HIDE DEF r, sc, tr
      <4>4. r \in PadState /\ r.buttons = dp.buttons /\ r.axes = dp.axes
        <5> DEFINE id == tracker[x]
        <5>1. id \in Int /\ r = Ctl!StopTouch(dp, id) /\ dp \in PadState
          BY <2>2, <4>2, <4>3
        <5> HIDE DEF id
        <5>2. Stopped(dp, id, r)
          BY <5>1, TouchStops
        <5> QED BY <5>2 DEF Stopped
      <4>5. Tracks(r.touches, Ctl!Without(tracker, x))
        BY <2>2, <2>3, <3>1, <4>3, FingerIsLeft
      <4> QED BY <2>2, <4>1, <4>4, <4>5 DEF tr
    <3>2. CASE x \notin DOMAIN tracker
      <4>1. DOMAIN tr = DOMAIN tracker /\ \A y \in DOMAIN tr : tr[y] = tracker[y]
        BY <3>2 DEF Ctl!Without
      <4>2. Tracks(dp.touches, tr)
        <5> HIDE DEF tr
        <5> QED BY <2>3, <4>1 DEF Tracks
      <4> QED BY <2>2, <3>2, <4>2
    <3> QED BY <3>1, <3>2
  <2>5. DOMAIN tr \subseteq h.fingers
    BY <1>2, <1>3 DEF Ctl!Without
  <2> HIDE DEF sc, tr
  <2>6. ScreenFrom(sc, tr, h)
    BY <2>4, <2>5 DEF ScreenFrom
  <2>7. PadsFrom(ctlPad, padTouches, block, h, ss)
    <3>1. /\ PadsFrom(ctlPad, padTouches, block, ctlHeld, spoilt) /\ DOMAIN padTouches \subseteq h.padFingers
          /\ ctlHeld.pad \ {"mic"} \subseteq h.pad /\ ss \subseteq spoilt
      BY <1>3, CtlParts
    <3> QED BY <3>1, HeldStays
  <2> QED BY <1>1, <1>2, <1>3, <2>1, <2>4, <2>6, <2>7, SourcesHeard
<1> QED BY <1>4, <1>5

(* Of the controller: the screen is as it was.                                           *)
LEMMA PadHeard ==
  ASSUME CtlAssumption, CtlSound, NEW pd \in PadState, Ctl!Sends(keyboard, screen, pd), NEW h \in Hands,
         ctlHeld' = h, spoilt' = spoilt \cap Ctl!Holding(h), NEW pt, screen' = screen, tracker' = tracker, ctlPad' = pd,
         padTouches' = pt, mouse' = mouse, grab' = grab, h.keys = ctlHeld.keys, h.mouse = ctlHeld.mouse,
         h.fingers = ctlHeld.fingers, PadsFrom(pd, pt, block, h, spoilt \cap Ctl!Holding(h))
  PROVE  CtlSound'
<1>1. screen \in PadState /\ ScreenFrom(screen, tracker, ctlHeld)
  BY CtlParts
<1>2. ScreenFrom(screen, tracker, h)
  BY <1>1 DEF ScreenFrom
<1> QED BY <1>1, <1>2, SourcesHeard

LEMMA PadButtonsAreTold ==
  ASSUME CtlAssumption, CtlSound, ~missed', NEW b \in PadButtons, Ctl!PadDown(b) \/ Ctl!PadUp(b)
  PROVE  CtlSound'
<1>1. /\ mouse' = mouse /\ screen' = screen /\ tracker' = tracker /\ padTouches' = padTouches /\ grab' = grab
      /\ spoilt' = spoilt \cap Ctl!Holding(ctlHeld')
  BY DEF Ctl!PadDown, Ctl!PadUp, Ctl!Happens
<1>2. /\ ctlPad \in PadState /\ ctlHeld \in Hands /\ PadsFrom(ctlPad, padTouches, block, ctlHeld, spoilt)
      /\ spoilt \subseteq Ctl!Holding(ctlHeld) /\ DOMAIN tracker \subseteq ctlHeld.fingers
      /\ DOMAIN padTouches \subseteq ctlHeld.padFingers
  BY CtlParts
<1> DEFINE h == ctlHeld'
           ss == spoilt \cap Ctl!Holding(h)
<1>3. /\ h \in Hands /\ h.fingers = ctlHeld.fingers /\ h.keys = ctlHeld.keys /\ h.padFingers = ctlHeld.padFingers
      /\ h.mouse = ctlHeld.mouse
      /\ Ctl!PadDown(b) => h.pad = ctlHeld.pad \cup {b} /\ b \notin ctlHeld.pad
      /\ Ctl!PadUp(b) => h.pad = ctlHeld.pad \ {b}
  <2>1. \/ Ctl!PadDown(b) /\ b \notin ctlHeld.pad /\ h = [ctlHeld EXCEPT !.pad = ctlHeld.pad \cup {b}]
        \/ Ctl!PadUp(b) /\ b \in ctlHeld.pad /\ h = [ctlHeld EXCEPT !.pad = ctlHeld.pad \ {b}]
    BY DEF Ctl!PadDown, Ctl!PadUp, Ctl!Happens
  <2>2. ~(Ctl!PadDown(b) /\ Ctl!PadUp(b))
    BY DEF Ctl!PadDown, Ctl!PadUp
  <2> QED BY <1>2, <2>1, <2>2 DEF Hands
<1>4. spoilt' = ss /\ ss \subseteq spoilt /\ ctlHeld' = h
  BY <1>1
<1> HIDE DEF h
<1>5. CASE Ctl!PadDown(b)
  <2> DEFINE pd == ctlPad'
  <2>1. /\ Ctl!Sends(keyboard, screen, pd)
        /\ pd = ctlPad \/ (b # "mic" /\ pd = Ctl!Set(ctlPad, b))
    BY <1>5 DEF Ctl!PadDown
  <2> HIDE DEF pd
  <2>2. /\ pd \in PadState /\ pd.touches = ctlPad.touches
        /\ pd.buttons \subseteq ctlPad.buttons \cup ({b} \ {"mic"}) /\ pd.axes \subseteq ctlPad.axes \cup ({b} \ {"mic"})
    <3>1. CASE pd = ctlPad
      BY <1>2, <3>1
    <3>2. CASE b # "mic" /\ pd = Ctl!Set(ctlPad, b)
      <4>1. /\ pd \in PadState /\ pd.touches = ctlPad.touches
            /\ pd.buttons \subseteq ctlPad.buttons \cup {b} /\ pd.axes \subseteq ctlPad.axes \cup {b}
        BY <1>2, <3>2, KeyIsSet
      <4> QED BY <3>2, <4>1
    <3> QED BY <2>1, <3>1, <3>2
  <2>3. PadLives(b, h, ss)
    BY <1>2, <1>3, <1>4, <1>5 DEF PadLives, Ctl!Holding
  <2>4. PadsFrom(pd, padTouches, block, h, ss)
    BY <1>2, <1>3, <1>4, <1>5, <2>2, <2>3 DEF PadsFrom, PadLives
  <2>5. ctlPad' = pd
    BY DEF pd
  <2> QED BY <1>1, <1>3, <1>4, <2>1, <2>2, <2>4, <2>5, PadHeard
<1>6. CASE Ctl!PadUp(b) /\ (micPush \/ b = "mic")
  <2>1. b = "mic" /\ Ctl!Silent /\ ctlPad' = ctlPad
    BY <1>6 DEF Ctl!PadUp
  <2>2. /\ h.keys = ctlHeld.keys /\ h.mouse = ctlHeld.mouse /\ ctlHeld.pad \ {"mic"} \subseteq h.pad
        /\ DOMAIN tracker \subseteq h.fingers /\ DOMAIN padTouches \subseteq h.padFingers
    BY <1>2, <1>3, <1>6, <2>1
  <2>3. UNCHANGED <<mouse, screen, tracker, ctlPad, padTouches, grab>>
    BY <1>1, <2>1
  <2> QED BY <1>3, <1>4, <2>1, <2>2, <2>3, Hushed
<1>7. CASE Ctl!PadUp(b) /\ ~(micPush \/ b = "mic")
  <2> DEFINE pd == Ctl!Clear(ctlPad, b)
  <2>1. Ctl!Sends(keyboard, screen, ctlPad') /\ ctlPad' = pd
    BY <1>7 DEF Ctl!PadUp
  <2>2. pd \in PadState /\ pd.touches = ctlPad.touches /\ pd.buttons = ctlPad.buttons \ {b} /\ pd.axes = ctlPad.axes \ {b}
    BY <1>2, KeyIsCleared
  <2> HIDE DEF pd
  <2>3. Ctl!Sends(keyboard, screen, pd)
    BY <2>1
  <2>4. PadsFrom(pd, padTouches, block, h, ss)
    BY <1>2, <1>3, <1>4, <1>7, <2>2 DEF PadsFrom, PadLives
  <2> QED BY <1>1, <1>3, <1>4, <2>1, <2>2, <2>3, <2>4, PadHeard
<1> QED BY <1>5, <1>6, <1>7

LEMMA CtlCardinality == \A S : Ctl!Cardinality(S) = Cardinality(S)
BY DEF Ctl!Cardinality, Cardinality

(* A finger finds a slot while fewer than two have one.                                   *)
LEMMA PadTouchesStart ==
  ASSUME CtlAssumption, CtlSound, NEW x \in Fingers, Ctl!PadTouchDown(x)
  PROVE  CtlSound'
<1> DEFINE h == [ctlHeld EXCEPT !.padFingers = ctlHeld.padFingers \cup {x}]
           ss == spoilt \cap Ctl!Holding(h)
<1>1. /\ mouse' = mouse /\ screen' = screen /\ tracker' = tracker /\ grab' = grab /\ ctlHeld' = h /\ spoilt' = ss
      /\ x \notin ctlHeld.padFingers
  BY DEF Ctl!PadTouchDown, Ctl!Happens
<1>2. /\ ctlPad \in PadState /\ ctlHeld \in Hands /\ PadsFrom(ctlPad, padTouches, block, ctlHeld, spoilt)
      /\ DOMAIN tracker \subseteq ctlHeld.fingers /\ DOMAIN padTouches \subseteq ctlHeld.padFingers
  BY CtlParts
<1>3. /\ h \in Hands /\ h.keys = ctlHeld.keys /\ h.mouse = ctlHeld.mouse /\ h.pad = ctlHeld.pad
      /\ h.fingers = ctlHeld.fingers /\ h.padFingers = ctlHeld.padFingers \cup {x}
  BY <1>2 DEF Hands
<1> HIDE DEF h
<1>4. CASE Ctl!Cardinality(DOMAIN padTouches) >= 2
  <2>1. Ctl!Silent /\ ctlPad' = ctlPad /\ padTouches' = padTouches
    BY <1>4 DEF Ctl!PadTouchDown
  <2>2. ctlHeld.pad \ {"mic"} \subseteq h.pad /\ DOMAIN tracker \subseteq h.fingers /\ DOMAIN padTouches \subseteq h.padFingers
    BY <1>2, <1>3
  <2>3. UNCHANGED <<mouse, screen, tracker, ctlPad, padTouches, grab>>
    BY <1>1, <2>1
  <2> QED BY <1>1, <1>3, <2>1, <2>2, <2>3, Hushed
<1>5. CASE ~(Ctl!Cardinality(DOMAIN padTouches) >= 2)
  <2> DEFINE st == Ctl!StartTouch(ctlPad)
             pd == st.state
             pt == Tracking(padTouches, x, st.id)
  <2>1. ctlPad' = pd /\ padTouches' = pt /\ Ctl!Sends(keyboard, screen, ctlPad')
    BY <1>5 DEF Ctl!PadTouchDown, Tracking
  <2>2. Tracks(ctlPad.touches, padTouches) /\ ctlPad.touches[1] \in Int /\ ctlPad.touches[2] \in Int
    BY <1>2 DEF PadsFrom, PadState
  <2>3. ~(ctlPad.touches[1] >= 0 /\ ctlPad.touches[2] >= 0)
    <3>1. SUFFICES ASSUME ctlPad.touches[1] >= 0, ctlPad.touches[2] >= 0
                   PROVE  FALSE
      OBVIOUS
    <3>2. ~(ctlPad.touches[1] < 0) /\ ~(ctlPad.touches[2] < 0)
      BY <2>2, <3>1
    <3>3. \E a, c \in DOMAIN padTouches : a # c /\ DOMAIN padTouches = {a, c}
      BY <2>2, <3>2 DEF Tracks
    <3>4. PICK a, c \in DOMAIN padTouches : a # c /\ DOMAIN padTouches = {a, c}
      BY <3>3
    <3>5. Cardinality({a, c}) = 2
      <4>1. Cardinality({a}) = 1 /\ IsFiniteSet({a})
        BY FS_Singleton
      <4>2. c \notin {a} /\ {a, c} = {a} \cup {c}
        BY <3>4
      <4>3. Cardinality({a} \cup {c}) = Cardinality({a}) + 1
        BY <4>1, <4>2, FS_AddElement
      <4> QED BY <4>1, <4>2, <4>3
    <3>6. Ctl!Cardinality(DOMAIN padTouches) = 2
      BY <3>4, <3>5, CtlCardinality
    <3> QED BY <1>5, <3>6
  <2>4. pd \in PadState /\ pd.buttons = ctlPad.buttons /\ pd.axes = ctlPad.axes /\ st.id \in Nat
    BY <1>2, <2>2, <2>3, TouchStarts
  <2>5. x \notin DOMAIN padTouches
    BY <1>1, <1>2
  <2>6. Tracks(pd.touches, pt)
    <3> DEFINE r == st
    <3>1. r = Ctl!StartTouch(ctlPad) /\ r.id >= 0
      BY <2>4
    <3> HIDE DEF r, st
    <3>2. Tracks(r.state.touches, Tracking(padTouches, x, r.id))
      BY <1>2, <2>2, <2>5, <3>1, FingerIsTracked
    <3> QED BY <3>2 DEF r
  <2>7. DOMAIN pt = DOMAIN padTouches \cup {x}
    BY DEF Tracking
  <2> HIDE DEF st, pd, pt
  <2>8. PadsFrom(pd, pt, block, h, ss)
    BY <1>2, <1>3, <2>4, <2>6, <2>7 DEF PadsFrom, PadLives
  <2>9. Ctl!Sends(keyboard, screen, pd)
    BY <2>1
  <2> QED BY <1>1, <1>3, <2>1, <2>4, <2>8, <2>9, PadHeard
<1> QED BY <1>4, <1>5

LEMMA PadTouchesStop ==
  ASSUME CtlAssumption, CtlSound, NEW x \in Fingers, Ctl!PadTouchUp(x)
  PROVE  CtlSound'
<1> DEFINE h == [ctlHeld EXCEPT !.padFingers = ctlHeld.padFingers \ {x}]
           ss == spoilt \cap Ctl!Holding(h)
<1>1. /\ mouse' = mouse /\ screen' = screen /\ tracker' = tracker /\ grab' = grab /\ ctlHeld' = h /\ spoilt' = ss
  BY DEF Ctl!PadTouchUp, Ctl!Happens
<1>2. /\ ctlPad \in PadState /\ ctlHeld \in Hands /\ PadsFrom(ctlPad, padTouches, block, ctlHeld, spoilt)
      /\ DOMAIN tracker \subseteq ctlHeld.fingers /\ DOMAIN padTouches \subseteq ctlHeld.padFingers
  BY CtlParts
<1>3. /\ h \in Hands /\ h.keys = ctlHeld.keys /\ h.mouse = ctlHeld.mouse /\ h.pad = ctlHeld.pad
      /\ h.fingers = ctlHeld.fingers /\ h.padFingers = ctlHeld.padFingers \ {x}
  BY <1>2 DEF Hands
<1> HIDE DEF h
<1>4. CASE x \notin DOMAIN padTouches
  <2>1. Ctl!Silent /\ ctlPad' = ctlPad /\ padTouches' = padTouches
    BY <1>4 DEF Ctl!PadTouchUp
  <2>2. ctlHeld.pad \ {"mic"} \subseteq h.pad /\ DOMAIN tracker \subseteq h.fingers /\ DOMAIN padTouches \subseteq h.padFingers
    BY <1>2, <1>3, <1>4
  <2>3. UNCHANGED <<mouse, screen, tracker, ctlPad, padTouches, grab>>
    BY <1>1, <2>1
  <2> QED BY <1>1, <1>3, <2>1, <2>2, <2>3, Hushed
<1>5. CASE x \in DOMAIN padTouches
  <2> DEFINE id == padTouches[x]
             pd == Ctl!StopTouch(ctlPad, id)
             pt == Ctl!Without(padTouches, x)
  <2>1. ctlPad' = pd /\ padTouches' = pt /\ Ctl!Sends(keyboard, screen, ctlPad')
    BY <1>5 DEF Ctl!PadTouchUp
  <2>2. Tracks(ctlPad.touches, padTouches)
    BY <1>2 DEF PadsFrom
  <2>3. id \in Int
    <3>1. ctlPad.touches[1] \in Int /\ ctlPad.touches[2] \in Int
      BY <1>2 DEF PadState
    <3>2. id = ctlPad.touches[1] \/ id = ctlPad.touches[2]
      BY <1>5, <2>2 DEF Tracks
    <3> QED BY <3>1, <3>2
  <2>4. Tracks(pd.touches, pt)
    <3> HIDE DEF pt
    <3>1. Tracks(pd.touches, Ctl!Without(padTouches, x))
      BY <1>2, <1>5, <2>2, FingerIsLeft
    <3> QED BY <3>1 DEF pt
  <2>5. DOMAIN pt = DOMAIN padTouches \ {x}
    BY DEF Ctl!Without
  <2> HIDE DEF id, pd, pt
  <2>6. pd \in PadState /\ pd.buttons = ctlPad.buttons /\ pd.axes = ctlPad.axes
    <3>1. pd = Ctl!StopTouch(ctlPad, id)
      BY DEF pd
    <3>2. Stopped(ctlPad, id, pd)
      BY <1>2, <2>3, <3>1, TouchStops
    <3> QED BY <3>2 DEF Stopped
  <2>8. PadsFrom(pd, pt, block, h, ss)
    BY <1>2, <1>3, <2>4, <2>5, <2>6 DEF PadsFrom, PadLives
  <2>9. Ctl!Sends(keyboard, screen, pd)
    BY <2>1
  <2> QED BY <1>1, <1>3, <2>1, <2>6, <2>8, <2>9, PadHeard
<1> QED BY <1>4, <1>5

LEMMA PadsAreLost ==
  ASSUME CtlAssumption, CtlSound, Ctl!PadLost
  PROVE  CtlSound'
<1> DEFINE h == [ctlHeld EXCEPT !.pad = {}, !.padFingers = {}]
           ss == spoilt \cap Ctl!Holding(h)
<1>1. /\ mouse' = mouse /\ screen' = screen /\ tracker' = tracker /\ grab' = grab /\ ctlHeld' = h /\ spoilt' = ss
      /\ ctlPad' = Ctl!Idle /\ padTouches' = <<>> /\ Ctl!Sends(keyboard, screen, ctlPad')
  BY DEF Ctl!PadLost, Ctl!Happens
<1>2. ctlHeld \in Hands
  BY CtlParts
<1>3. h \in Hands /\ h.keys = ctlHeld.keys /\ h.mouse = ctlHeld.mouse /\ h.fingers = ctlHeld.fingers
  BY <1>2 DEF Hands
<1> DEFINE pd == Ctl!Idle
           pt == <<>>
<1> HIDE DEF h
<1>4. pd \in PadState /\ pd.buttons = {} /\ pd.axes = {} /\ Quiet(pd)
  BY IdleIsState
<1>5. DOMAIN pt = {}
  OBVIOUS
<1>6. ctlPad' = pd /\ padTouches' = pt /\ Ctl!Sends(keyboard, screen, pd)
  BY <1>1
<1> HIDE DEF pd, pt
<1>7. Tracks(pd.touches, pt)
  BY <1>4, <1>5 DEF Tracks, Quiet
<1>8. PadsFrom(pd, pt, block, h, ss)
  BY <1>4, <1>5, <1>7 DEF PadsFrom
<1> QED BY <1>1, <1>3, <1>4, <1>6, <1>8, PadHeard

(* The window takes the input or gives it back.                                          *)
LEMMA MenusAreTold ==
  ASSUME CtlAssumption, CtlSound, Ctl!GrabInput \/ Ctl!ReleaseInput
  PROVE  CtlSound'
<1>1. PICK limit \in {1, 2}, g \in Nat :
        /\ Ctl!Send(limit, keyboard, screen, ctlPad, dpad, FALSE, FALSE) /\ grab' = g /\ (g > 0 <=> limit = 1)
        /\ mouse' = mouse /\ screen' = screen /\ tracker' = tracker /\ ctlPad' = ctlPad /\ padTouches' = padTouches
        /\ ctlHeld' = ctlHeld /\ spoilt' \subseteq Ctl!Holding(ctlHeld)
  <2>1. grab \in Nat
    BY CtlParts
  <2>2. CASE Ctl!GrabInput
    <3>1. /\ Ctl!Send(1, keyboard, screen, ctlPad, dpad, FALSE, FALSE) /\ grab' = grab + 1
          /\ mouse' = mouse /\ screen' = screen /\ tracker' = tracker /\ ctlPad' = ctlPad /\ padTouches' = padTouches
          /\ ctlHeld' = ctlHeld /\ spoilt' = spoilt \cap Ctl!Holding(ctlHeld)
      BY <2>2 DEF Ctl!GrabInput, Ctl!Happens
    <3>2. grab + 1 \in Nat /\ grab + 1 > 0
      BY <2>1
    <3> QED BY <3>1, <3>2
  <2>3. CASE Ctl!ReleaseInput
    <3> DEFINE limit == IF grab > 1 THEN 1 ELSE 2
    <3>1. /\ Ctl!Send(limit, keyboard, screen, ctlPad, dpad, FALSE, FALSE) /\ grab > 0 /\ grab' = grab - 1
          /\ mouse' = mouse /\ screen' = screen /\ tracker' = tracker /\ ctlPad' = ctlPad /\ padTouches' = padTouches
          /\ ctlHeld' = ctlHeld /\ spoilt' = Ctl!Holding(ctlHeld)
      BY <2>3 DEF Ctl!ReleaseInput
    <3>2. grab - 1 \in Nat /\ (grab - 1 > 0 <=> limit = 1) /\ limit \in {1, 2}
      BY <2>1, <3>1
    <3> HIDE DEF limit
    <3> QED BY <3>1, <3>2
  <2> QED BY <2>2, <2>3
<1> DEFINE ss == spoilt'
<1>2. limit # 0 /\ limit \in 0 .. 2
  OBVIOUS
<1>3. /\ keyboard \in PadState /\ ctlPad \in PadState /\ screen \in PadState /\ ctlHeld \in Hands /\ mouse \in Int
      /\ DpadRests(dpad) /\ (dpad.id >= 0 => timer) /\ ScreenFrom(screen, tracker, ctlHeld) /\ FALSE \in BOOLEAN
  BY CtlParts
<1>4. KeysFrom(keyboard, limit, ctlHeld, ss, mouse)
  <2>1. KeysFrom(keyboard, block, ctlHeld, spoilt, mouse)
    BY CtlParts
  <2> QED BY <1>2, <2>1 DEF KeysFrom
<1>5. PadsFrom(ctlPad, padTouches, limit, ctlHeld, ss)
  <2>1. PadsFrom(ctlPad, padTouches, block, ctlHeld, spoilt)
    BY CtlParts
  <2> QED BY <1>2, <2>1 DEF PadsFrom
<1>6. spoilt' = ss /\ ss \subseteq Ctl!Holding(ctlHeld)
  BY <1>1
<1> HIDE DEF ss
<1> QED BY <1>1, <1>2, <1>3, <1>4, <1>5, <1>6, Heard

LEMMA TimersAreTold ==
  ASSUME CtlAssumption, CtlSound, Ctl!DpadTick \/ Ctl!DpadStops
  PROVE  CtlSound'
<1>1. /\ mouse' = mouse /\ screen' = screen /\ tracker' = tracker /\ ctlPad' = ctlPad /\ padTouches' = padTouches
      /\ grab' = grab /\ ctlHeld' = ctlHeld /\ spoilt' = spoilt
  BY DEF Ctl!DpadTick, Ctl!DpadStops, Ctl!sources
<1>2. /\ keyboard \in PadState /\ ctlPad \in PadState /\ screen \in PadState /\ ctlHeld \in Hands /\ mouse \in Int
      /\ block \in 0 .. 2 /\ grab \in Nat /\ (grab > 0 <=> block = 1) /\ spoilt \subseteq Ctl!Holding(ctlHeld)
      /\ KeysFrom(keyboard, block, ctlHeld, spoilt, mouse) /\ PadsFrom(ctlPad, padTouches, block, ctlHeld, spoilt)
      /\ ScreenFrom(screen, tracker, ctlHeld) /\ DpadRests(dpad) /\ (dpad.id >= 0 => timer)
      /\ FALSE \in BOOLEAN /\ TRUE \in BOOLEAN
  BY CtlParts
<1>3. CASE Ctl!DpadTick
  <2>1. timer /\ Ctl!Send(block, keyboard, screen, ctlPad, dpad, FALSE, TRUE)
    BY <1>3 DEF Ctl!DpadTick
  <2> QED BY <1>1, <1>2, <2>1, Heard
<1>4. CASE Ctl!DpadStops
  <2> DEFINE st == Ctl!StopTouch(dpad.state, dpad.id)
             dp == [dpad EXCEPT !.state = st, !.id = -1]
  <2>1. Ctl!Send(block, keyboard, screen, ctlPad, dp, TRUE, FALSE)
    BY <1>4 DEF Ctl!DpadStops
  <2>2. st \in PadState /\ st.buttons = {} /\ st.axes = {} /\ st.touches[1] < 0 /\ st.touches[2] < 0
    <3> DEFINE own == dpad.state
               id == dpad.id
    <3>1. /\ own \in PadState /\ id \in Int /\ own.buttons = {} /\ own.axes = {} /\ own.touches[2] < 0
          /\ (id < 0 => own.touches[1] < 0) /\ (id >= 0 => own.touches[1] = id) /\ st = Ctl!StopTouch(own, id)
      BY <1>2 DEF DpadRests
    <3> HIDE DEF own, id, st
    <3>2. Stopped(own, id, st)
      BY <3>1, TouchStops
    <3> QED BY <3>1, <3>2 DEF Stopped, PadState
  <2> HIDE DEF st
  <2>3. dp \in [state : PadState, id : Int, x : 0 .. Width, y : 0 .. Width] /\ dp.state = st /\ dp.id = -1
    <3>1. dpad \in [state : PadState, id : Int, x : 0 .. Width, y : 0 .. Width]
      BY <1>2 DEF DpadRests
    <3>2. st \in PadState /\ -1 \in Int
      BY <2>2
    <3> QED BY ONLY <3>1, <3>2
  <2> HIDE DEF dp
  <2>4. DpadRests(dp) /\ ~(dp.id >= 0)
    BY <2>2, <2>3 DEF DpadRests
  <2> QED BY <1>1, <1>2, <2>1, <2>4, Heard
<1> QED BY <1>3, <1>4

LEMMA CtlStarts == ASSUME CtlAssumption, Ctl!Start PROVE CtlInv
<1>1. /\ keyboard = Ctl!Idle /\ mouse = -1 /\ screen = Ctl!Idle /\ tracker = <<>> /\ ctlPad = Ctl!Idle /\ padTouches = <<>>
      /\ dpad = [state |-> Ctl!Idle, id |-> -1, x |-> 0, y |-> 0] /\ grab = 0 /\ block = 0 /\ ctlConsole = Ctl!Idle
      /\ ctlHeld = [keys |-> {}, mouse |-> {}, fingers |-> {}, pad |-> {}, padFingers |-> {}] /\ spoilt = {}
  BY DEF Ctl!Start
<1>2. Ctl!Idle \in PadState /\ Ctl!Idle.buttons = {} /\ Ctl!Idle.axes = {} /\ Quiet(Ctl!Idle)
  BY IdleIsState
<1>3. CtlKinds
  BY <1>1, <1>2 DEF CtlKinds, Hands
<1>4. DOMAIN tracker = {} /\ DOMAIN padTouches = {}
  BY <1>1
<1>5. KeysFrom(keyboard, block, ctlHeld, spoilt, mouse)
  BY <1>1, <1>2 DEF KeysFrom, Quiet, PadState
<1>6. Tracks(ctlPad.touches, padTouches) /\ Tracks(screen.touches, tracker)
  BY <1>1, <1>2, <1>4 DEF Tracks, Quiet
<1>7. PadsFrom(ctlPad, padTouches, block, ctlHeld, spoilt)
  BY <1>1, <1>2, <1>4, <1>6 DEF PadsFrom
<1>8. ScreenFrom(screen, tracker, ctlHeld)
  BY <1>1, <1>2, <1>4, <1>6 DEF ScreenFrom
<1>9. DpadFrom(dpad, timer, stopTimer, block, ctlHeld, spoilt)
  <2>1. Width \in Nat
    BY DEF CtlAssumption
  <2>2. dpad \in [state : PadState, id : Int, x : 0 .. Width, y : 0 .. Width] /\ dpad.state = Ctl!Idle /\ dpad.id = -1
    BY <1>1, <1>2, <2>1
  <2> QED BY <1>2, <2>2 DEF DpadFrom, DpadRests, Quiet
<1>10. ConsoleFrom(ctlConsole, block, keyboard, ctlPad, screen, dpad)
  BY <1>1, <1>2 DEF ConsoleFrom
<1> QED BY <1>3, <1>5, <1>7, <1>8, <1>9, <1>10 DEF CtlInv, CtlSound

LEMMA CtlKeeps ==
  ASSUME CtlAssumption, CtlInv, [Ctl!ControlsNext]_ctlVars
  PROVE  CtlInv'
<1>1. CASE UNCHANGED ctlVars
  <2>1. /\ UNCHANGED <<keyboard, mouse, screen, tracker, ctlPad, padTouches, dpad, timer, stopTimer, grab, block>>
        /\ UNCHANGED <<ctlConsole, ctlHeld, spoilt, missed>>
    BY <1>1 DEF ctlVars
  <2>2. CtlKinds => CtlKinds'
    BY <2>1 DEF CtlKinds, Ctl!Idle, Ctl!Slots
  <2> QED BY <2>1, <2>2 DEF CtlInv, CtlSound
<1>2. ASSUME missed, Ctl!ControlsNext
      PROVE  missed'
  BY <1>2, Zenon DEF Ctl!ControlsNext, Ctl!KeyDown, Ctl!KeyUp, Ctl!MousePress, Ctl!MouseRelease,
                     Ctl!MouseMove, Ctl!Touch,
    Ctl!FingerUp, Ctl!PadDown, Ctl!PadUp, Ctl!PadUpUnheard, Ctl!PadTouchDown, Ctl!PadTouchUp, Ctl!PadLost, Ctl!GrabInput,
    Ctl!ReleaseInput, Ctl!DpadTick, Ctl!DpadStops
<1>3. ASSUME CtlSound, Ctl!ControlsNext, ~missed'
      PROVE  CtlSound'
  <2>1. CASE \E k \in Keys : Ctl!KeyDown(k) \/ Ctl!KeyUp(k)
    BY <1>3, <2>1, KeysAreTold
  <2>2. CASE \E b \in {"left", "right"} : Ctl!MousePress(b) \/ Ctl!MouseRelease(b)
    BY <1>3, <2>2, ButtonsOfTheMouseAreTold
  <2>3. CASE Ctl!MouseMove
    BY <1>3, <2>3, MovesOfTheMouseAreTold
  <2>4. CASE \E x \in Fingers, click \in BOOLEAN : Ctl!Touch(x, click)
    BY <1>3, <2>4, TouchesAreTold
  <2>5. CASE \E x \in Fingers : Ctl!FingerUp(x) \/ Ctl!PadTouchDown(x) \/ Ctl!PadTouchUp(x)
    BY <1>3, <2>5, FingersLeaving, PadTouchesStart, PadTouchesStop
  <2>6. CASE \E b \in PadButtons : Ctl!PadDown(b) \/ Ctl!PadUp(b) \/ Ctl!PadUpUnheard(b)
    <3>1. PICK b \in PadButtons : Ctl!PadDown(b) \/ Ctl!PadUp(b) \/ Ctl!PadUpUnheard(b)
      BY <2>6
    <3>2. ~Ctl!PadUpUnheard(b)
      BY <1>3 DEF Ctl!PadUpUnheard
    <3> QED BY <1>3, <3>1, <3>2, PadButtonsAreTold
  <2>7. CASE Ctl!PadLost
    BY <1>3, <2>7, PadsAreLost
  <2>8. CASE Ctl!GrabInput \/ Ctl!ReleaseInput
    BY <1>3, <2>8, MenusAreTold
  <2>9. CASE Ctl!DpadTick \/ Ctl!DpadStops
    BY <1>3, <2>9, TimersAreTold
  <2> QED BY <1>3, <2>1, <2>2, <2>3, <2>4, <2>5, <2>6, <2>7, <2>8, <2>9 DEF Ctl!ControlsNext
<1> QED BY <1>1, <1>2, <1>3 DEF CtlInv

LEMMA CtlImplied == ASSUME CtlInv PROVE Ctl!NothingStaysPressed
<1>1. SUFFICES ASSUME CtlSound PROVE Ctl!OnlyTheHeld /\ Ctl!NoStrayTouch /\ Ctl!DpadTouchEnds
  BY DEF CtlInv, Ctl!NothingStaysPressed
<1>2. /\ KeysFrom(keyboard, block, ctlHeld, spoilt, mouse) /\ PadsFrom(ctlPad, padTouches, block, ctlHeld, spoilt)
      /\ ScreenFrom(screen, tracker, ctlHeld) /\ DpadFrom(dpad, timer, stopTimer, block, ctlHeld, spoilt)
      /\ ConsoleFrom(ctlConsole, block, keyboard, ctlPad, screen, dpad) /\ ctlHeld \in Hands
      /\ keyboard \in PadState /\ ctlPad \in PadState /\ screen \in PadState /\ block \in 0 .. 2
  BY <1>1 DEF CtlSound, CtlKinds
<1>3. \A x : /\ KeyLives(x, ctlHeld, spoilt) => <<"key", x>> \in Ctl!Live
             /\ PadLives(x, ctlHeld, spoilt) => <<"pad", x>> \in Ctl!Live
  BY DEF KeyLives, PadLives, Ctl!Live, Ctl!Holding
<1>4. Ctl!OnlyTheHeld
  <2>1. ASSUME NEW b \in ctlConsole.buttons
        PROVE  \/ <<"key", b>> \in Ctl!Live \/ <<"pad", b>> \in Ctl!Live
               \/ b = "touchpad" /\ (ctlHeld.mouse # {} \/ ctlHeld.fingers # {})
    <3>1. block = 0 /\ b \in keyboard.buttons \cup ctlPad.buttons \cup screen.buttons
      BY <1>2, <2>1 DEF ConsoleFrom
    <3>2. CASE b \in keyboard.buttons
      BY <1>2, <1>3, <3>1, <3>2 DEF KeysFrom
    <3>3. CASE b \in ctlPad.buttons
      BY <1>2, <1>3, <3>1, <3>3 DEF PadsFrom
    <3>4. CASE b \in screen.buttons
      BY <1>2, <3>4 DEF ScreenFrom
    <3> QED BY <3>1, <3>2, <3>3, <3>4
  <2>2. ctlConsole.axes \subseteq ctlHeld.keys \cup ctlHeld.pad
    BY <1>2 DEF ConsoleFrom, KeysFrom, PadsFrom, ScreenFrom
  <2> QED BY <2>1, <2>2 DEF Ctl!OnlyTheHeld
<1>5. Ctl!NoStrayTouch
  <2>1. ASSUME ctlHeld.mouse = {}, ctlHeld.fingers = {}, ctlHeld.padFingers = {}, dpad.id < 0
        PROVE  Quiet(ctlConsole)
    <3>1. Quiet(keyboard)
      BY <1>2, <2>1 DEF KeysFrom, Quiet, PadState
    <3>2. Quiet(ctlPad)
      <4>1. DOMAIN padTouches = {} /\ Tracks(ctlPad.touches, padTouches)
        BY <1>2, <2>1 DEF PadsFrom
      <4> QED BY <4>1 DEF Tracks, Quiet
    <3>3. Quiet(screen)
      <4>1. DOMAIN tracker = {} /\ Tracks(screen.touches, tracker)
        BY <1>2, <2>1 DEF ScreenFrom
      <4> QED BY <4>1 DEF Tracks, Quiet
    <3> QED BY <1>2, <2>1, <3>1, <3>2, <3>3 DEF ConsoleFrom
  <2> QED BY <2>1 DEF Ctl!NoStrayTouch, Quiet, Ctl!Slots
<1>6. Ctl!DpadTouchEnds
  <2>1. dpad.x \in 0 .. Width /\ dpad.y \in 0 .. Width
    BY <1>2 DEF DpadFrom, DpadRests
  <2>2. dpad.id >= 0 => timer /\ (stopTimer \/ \E d \in Ctl!DpadButtons : <<"key", d>> \in Ctl!Live \/ <<"pad", d>> \in Ctl!Live)
    BY <1>2, <1>3 DEF DpadFrom, Steered
  <2> QED BY <2>1, <2>2 DEF Ctl!DpadTouchEnds
<1> QED BY <1>4, <1>5, <1>6

(* Unless a release never came in, nothing is down on the console that the player does not    *)
(* hold, or held already when the menu closed; no touch is left there by a finger that is     *)
(* up, and the touch of the directional pad has a timer that moves it and one that ends it.    *)
THEOREM NothingPressedStays == MCSpec => []Ctl!NothingStaysPressed
<1> USE CtlAssumption
<1>1. MCInit => CtlInv
  <2>1. MCInit => Ctl!Start
    BY DEF MCInit, Ctl!Init, Ctl!AtRest
  <2> QED BY <2>1, CtlStarts
<1>2. CtlInv /\ [MCNext]_<<part, pacingVars, cloudVars, catalogVars, backVars, hostVars, syncVars, ctlVars, outVars, sendVars, videoVars, audioVars, nativeVars, appVars>> => CtlInv'
  <2>1. [MCNext]_<<part, pacingVars, cloudVars, catalogVars, backVars, hostVars, syncVars, ctlVars, outVars, sendVars, videoVars, audioVars, nativeVars, appVars>> => [Ctl!ControlsNext]_ctlVars
    BY DEF MCNext
  <2> QED BY <2>1, CtlKeeps
<1>3. CtlInv => Ctl!NothingStaysPressed
  BY CtlImplied
<1> QED BY <1>1, <1>2, <1>3, PTL DEF MCSpec

(* The controls and the outputs of the desktop client together.                              *)
THEOREM ControlsAndOutputsHold == MCSpec => []ControlsAndOutputs
BY NothingPressedStays, OutputsInOrder, PTL DEF ControlsAndOutputs
=============================================================================
