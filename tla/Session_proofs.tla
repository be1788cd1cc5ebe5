--------------------------- MODULE Session_proofs ---------------------------
(***************************************************************************)
(* For every mix of sessions, however often the console asks and the user  *)
(* answers: the QUIT event is the last thing a session does, and no PIN is *)
(* sent that was not asked for.  For every range of sizes and every path:  *)
(* the link test ends with the MTU of the path.                            *)
(***************************************************************************)
EXTENDS MCSession, Integers, TLAPS

-----------------------------------------------------------------------------
(* The session and its threads *)

BeforeCtrl == {"start", "regist_wait", "regist_join", "request", "connect", "rudp_init",
               "response", "pause"}

CtrlReasons == {"ctrl_unknown", "ctrl_connect_failed", "ctrl_refused"}
Reasons ==
  CtrlReasons \cup {"none", "stopped", "regist_failed", "request_unknown", "request_refused", "in_use",
                    "crash", "version", "shutdown", "disconnected", "stream_unknown"}

SessionFields ==
  [stop : BOOLEAN, pipe : BOOLEAN, sid : BOOLEAN, pinAsked : BOOLEAN, pin : BOOLEAN, failed : BOOLEAN,
   regist : BOOLEAN, switched : BOOLEAN, rudp : BOOLEAN, reason : Reasons]
CtrlFields ==
  [stop : BOOLEAN, pipe : BOOLEAN, queue : Nat, pin : BOOLEAN, pinAsked : BOOLEAN, deaf : BOOLEAN]
Histories == [messages : Nat, calls : Nat, asked : Nat, sent : Nat, stop : BOOLEAN]
TypeOK == s \in SessionFields /\ c \in CtrlFields /\ got \in Histories

(* The other threads live only while the session thread is where it created  *)
(* and has not joined them.                                                  *)
ThreadsFollow ==
  /\ spc \in BeforeCtrl => cpc = "none"
  /\ spc \in {"quit", "done"} => cpc \in {"none", "done"}
  /\ spc = "start" => rpc = "none"
  /\ rpc \notin {"none", "done"} => spc \in {"regist_wait", "regist_join"}
  /\ cpc = "fail" => msg.what \in CtrlReasons /\ msg.then \in {"select", "done", "connect_failed"}

(* should_stop is set by the application, or by a registration that failed.  *)
StopsAreExplained ==
  /\ s.regist => rpc = "done"
  /\ s.stop => got.stop \/ (rpc = "done" /\ ~s.regist)
  /\ s.pipe => got.stop
  /\ s.reason = "stopped" => got.stop \/ kind = "regist" \/ (s.stop /\ ~s.regist)

(* A request that was passed on is answered once: the PIN is on its way from  *)
(* the wait for it to the ctrl thread.                                       *)
PinsAreCounted ==
  got.sent + (IF c.pin THEN 1 ELSE 0) + (IF spc \in {"pin_wait", "forward_pin"} THEN 1 ELSE 0)
    <= got.asked

QuitFollows == quit # <<>> => spc = "done" /\ quit = <<s.reason>>

SessionInv == TypeOK /\ ThreadsFollow /\ StopsAreExplained /\ PinsAreCounted /\ QuitFollows

LEMMA SessionInit == Init \/ AtRest => SessionInv
<1> SUFFICES ASSUME Init \/ AtRest PROVE SessionInv
  OBVIOUS
<1>1. s = NoSession /\ c = NoCtrl /\ got = NothingYet /\ quit = <<>> /\ cpc = "none" /\ rpc = "none" /\ spc \in {"start", "done"}
  BY DEF Init, AtRest
<1> QED  BY <1>1 DEF SessionInv, TypeOK, SessionFields, CtrlFields, Histories, ThreadsFollow,
                     StopsAreExplained, PinsAreCounted, QuitFollows,
         NoSession, NoRequest, NoCtrl, NoMessage, NothingYet, BeforeCtrl, Reasons, CtrlReasons

LEMMA SessionThreadInv == ASSUME SessionInv, SessionThread PROVE SessionInv'
<1> USE DEF SessionInv, TypeOK, SessionFields, CtrlFields, Histories, ThreadsFollow, StopsAreExplained,
            PinsAreCounted, QuitFollows, BeforeCtrl, Reasons, CtrlReasons,
            SessionGoes, LeaveAs
<1>1. CASE Begin
  BY <1>1, ZenonT(60) DEF Begin, BeginCloud
<1>2. CASE RegistWaitEnds \/ RegistJoin
  BY <1>2 DEF RegistWaitEnds, RegistJoin
<1>3. CASE Request
  BY <1>3 DEF Request
<1>4. CASE Connect
  BY <1>4 DEF Connect, ConnectFails
<1>5. CASE RudpInit
  BY <1>5 DEF RudpInit
<1>6. CASE Response
  BY <1>6 DEF Response, Answered, Answers, Mismatch
<1>7. CASE StartCtrl
  BY <1>7 DEF StartCtrl
<1>8. CASE CtrlWait /\ ~CtrlFailed
  <2>1. TypeOK'
    <3>1. s' \in SessionFields
      <4>1. s' \in {s, [s EXCEPT !.reason = "stopped"], [s EXCEPT !.pinAsked = FALSE]}
        BY <1>8 DEF CtrlWait, AskForPin
      <4> QED  BY <4>1, ZenonT(60)
    <3>2. c' \in CtrlFields
      BY <1>8 DEF CtrlWait, AskForPin, AfterLogin
    <3>3. got' \in Histories
      BY <1>8 DEF CtrlWait, AskForPin, AfterLogin
    <3> QED  BY <3>1, <3>2, <3>3
  <2>2. ThreadsFollow'
    BY <1>8 DEF CtrlWait, AskForPin, AfterLogin
  <2>3. StopsAreExplained'
    BY <1>8 DEF CtrlWait, AskForPin, AfterLogin
  <2>4. PinsAreCounted' /\ QuitFollows'
    BY <1>8 DEF CtrlWait, AskForPin, AfterLogin
  <2> QED  BY <2>1, <2>2, <2>3, <2>4
<1>9. CASE PinWait /\ ~CtrlFailed
  <2>1. TypeOK'
    BY <1>9 DEF PinWait
  <2>2. ThreadsFollow'
    BY <1>9 DEF PinWait
  <2>3. StopsAreExplained'
    BY <1>9 DEF PinWait
  <2>4. PinsAreCounted' /\ QuitFollows'
    BY <1>9 DEF PinWait
  <2> QED  BY <2>1, <2>2, <2>3, <2>4
<1>10. CASE ForwardPin
  <2>1. TypeOK'
    BY <1>10 DEF ForwardPin
  <2>2. ThreadsFollow'
    BY <1>10 DEF ForwardPin
  <2>3. StopsAreExplained'
    BY <1>10 DEF ForwardPin
  <2>4. PinsAreCounted' /\ QuitFollows'
    BY <1>10 DEF ForwardPin
  <2> QED  BY <2>1, <2>2, <2>3, <2>4
<1>11. CASE PunchHole \/ Punched
  BY <1>11 DEF PunchHole, Punched
<1>12. CASE (CheckId \/ Fallback \/ Features) /\ ~CtrlFailed
  <2>1. TypeOK'
    BY <1>12 DEF CheckId, Fallback, Features
  <2>2. ThreadsFollow'
    BY <1>12 DEF CheckId, Fallback, Features
  <2>3. StopsAreExplained'
    BY <1>12 DEF CheckId, Fallback, Features
  <2>4. PinsAreCounted' /\ QuitFollows'
    BY <1>12 DEF CheckId, Fallback, Features
  <2> QED  BY <2>1, <2>2, <2>3, <2>4
<1>13. CASE Senkusha \/ SwitchWait \/ StartStream
  BY <1>13 DEF Senkusha, SwitchWait, StartStream
<1>14. CASE StopCtrl \/ JoinCtrl
  <2>1. TypeOK'
    BY <1>14 DEF StopCtrl, JoinCtrl
  <2>2. ThreadsFollow'
    BY <1>14 DEF StopCtrl, JoinCtrl
  <2>3. StopsAreExplained'
    BY <1>14 DEF StopCtrl, JoinCtrl
  <2>4. PinsAreCounted' /\ QuitFollows'
    BY <1>14 DEF StopCtrl, JoinCtrl
  <2> QED  BY <2>1, <2>2, <2>3, <2>4
<1>16. CASE CtrlFailed /\ (CtrlWait \/ PinWait \/ Fallback)
  <2>1. TypeOK'
    BY <1>16 DEF CtrlWait, PinWait, Fallback, CtrlFailed
  <2>2. ThreadsFollow'
    BY <1>16 DEF CtrlWait, PinWait, Fallback, CtrlFailed
  <2>3. StopsAreExplained'
    BY <1>16 DEF CtrlWait, PinWait, Fallback, CtrlFailed
  <2>4. PinsAreCounted' /\ QuitFollows'
    BY <1>16 DEF CtrlWait, PinWait, Fallback, CtrlFailed
  <2> QED  BY <2>1, <2>2, <2>3, <2>4
<1>15. CASE Quit
  <2>1. TypeOK'
    BY <1>15 DEF Quit
  <2>2. ThreadsFollow'
    BY <1>15 DEF Quit
  <2>3. StopsAreExplained'
    BY <1>15 DEF Quit
  <2>4. quit = <<>>
    BY <1>15 DEF Quit
  <2>5. quit' = <<s.reason>>
    BY <1>15, <2>4 DEF Quit
  <2>6. PinsAreCounted' /\ QuitFollows'
    BY <1>15, <2>5 DEF Quit
  <2> QED  BY <2>1, <2>2, <2>3, <2>6
<1> QED
  BY <1>1, <1>2, <1>3, <1>4, <1>5, <1>6, <1>7, <1>8, <1>9, <1>10, <1>11, <1>12, <1>13, <1>14, <1>15, <1>16
  DEF SessionThread, CheckId, Features

LEMMA CtrlThreadInv == ASSUME SessionInv, CtrlThread PROVE SessionInv'
<1> USE DEF SessionInv, TypeOK, SessionFields, CtrlFields, Histories, ThreadsFollow, StopsAreExplained,
            PinsAreCounted, QuitFollows, BeforeCtrl, Reasons, CtrlReasons,
            CtrlMoves, CtrlGoes, Fails, NoMessage
<1>1. CASE CtrlReports
  <2>1. TypeOK'
    <3>1. s' \in SessionFields
      BY <1>1 DEF CtrlReports
    <3>2. c' \in CtrlFields
      BY <1>1 DEF CtrlReports
    <3>3. got' \in Histories
      BY <1>1 DEF CtrlReports
    <3> QED  BY <3>1, <3>2, <3>3
  <2>2. ThreadsFollow'
    BY <1>1 DEF CtrlReports
  <2>3. StopsAreExplained'
    BY <1>1 DEF CtrlReports
  <2>4. PinsAreCounted' /\ QuitFollows'
    BY <1>1 DEF CtrlReports
  <2> QED  BY <2>1, <2>2, <2>3, <2>4
<1>2. CASE CtrlBegin \/ CtrlConnect
  BY <1>2 DEF CtrlBegin, CtrlConnect
<1>3. CASE CtrlHeader \/ CtrlWoken
  <2>1. TypeOK'
    BY <1>3 DEF CtrlHeader, HeaderAnswered, CtrlWoken
  <2>2. ThreadsFollow'
    BY <1>3 DEF CtrlHeader, HeaderAnswered, CtrlWoken
  <2>3. StopsAreExplained'
    BY <1>3 DEF CtrlHeader, HeaderAnswered, CtrlWoken
  <2>4. PinsAreCounted' /\ QuitFollows'
    BY <1>3 DEF CtrlHeader, HeaderAnswered, CtrlWoken
  <2> QED  BY <2>1, <2>2, <2>3, <2>4
<1>4. CASE CtrlDrain
  <2>1. TypeOK'
    <3>1. (c.pipe /\ ~c.pin /\ (c.stop \/ c.queue = 0)) \in BOOLEAN
      OBVIOUS
    <3>2. c' \in CtrlFields
      BY <1>4, <3>1 DEF CtrlDrain
    <3>3. s' \in SessionFields /\ got' \in Histories
      BY <1>4 DEF CtrlDrain
    <3> QED  BY <3>2, <3>3
  <2>2. ThreadsFollow'
    BY <1>4 DEF CtrlDrain
  <2>3. StopsAreExplained'
    BY <1>4 DEF CtrlDrain
  <2>4. PinsAreCounted' /\ QuitFollows'
    BY <1>4 DEF CtrlDrain
  <2> QED  BY <2>1, <2>2, <2>3, <2>4
<1>5. CASE SessionIdReceived \/ HeartbeatReceived \/ SwitchReceived \/ SendDone
  <2>1. TypeOK'
    BY <1>5, ZenonT(60) DEF SessionIdReceived, HeartbeatReceived, SwitchReceived, SendDone, Handles
  <2>2. ThreadsFollow'
    BY <1>5 DEF SessionIdReceived, HeartbeatReceived, SwitchReceived, SendDone, Handles
  <2>3. StopsAreExplained'
    BY <1>5 DEF SessionIdReceived, HeartbeatReceived, SwitchReceived, SendDone, Handles
  <2>4. PinsAreCounted' /\ QuitFollows'
    BY <1>5 DEF SessionIdReceived, HeartbeatReceived, SwitchReceived, SendDone, Handles
  <2> QED  BY <2>1, <2>2, <2>3, <2>4
<1>6. CASE PinRequestReceived
  <2>1. TypeOK'
    BY <1>6 DEF PinRequestReceived, Handles
  <2>2. ThreadsFollow'
    BY <1>6 DEF PinRequestReceived, Handles
  <2>3. StopsAreExplained'
    BY <1>6 DEF PinRequestReceived, Handles
  <2>4. PinsAreCounted' /\ QuitFollows'
    BY <1>6 DEF PinRequestReceived, Handles
  <2> QED  BY <2>1, <2>2, <2>3, <2>4
<1>7. CASE LoginReceived
  <2>1. TypeOK'
    BY <1>7, ZenonT(60) DEF LoginReceived, Handles
  <2>2. ThreadsFollow'
    BY <1>7 DEF LoginReceived, Handles
  <2>3. StopsAreExplained'
    BY <1>7 DEF LoginReceived, Handles
  <2>4. PinsAreCounted' /\ QuitFollows'
    BY <1>7 DEF LoginReceived, Handles
  <2> QED  BY <2>1, <2>2, <2>3, <2>4
<1> QED
  BY <1>1, <1>2, <1>3, <1>4, <1>5, <1>6, <1>7 DEF CtrlThread

LEMMA OthersInv ==
  ASSUME SessionInv, StreamEnds \/ RegistThread \/ Console \/ Application
  PROVE  SessionInv'
<1> USE DEF SessionInv, TypeOK, SessionFields, CtrlFields, Histories, ThreadsFollow, StopsAreExplained,
            PinsAreCounted, QuitFollows, BeforeCtrl, Reasons, CtrlReasons
<1>1. CASE StreamEnds
  BY <1>1 DEF StreamEnds, LeaveAs, SessionGoes
<1>2. CASE RegistFinishes
  BY <1>2 DEF RegistFinishes
<1>3. CASE RegistReports
  BY <1>3, ZenonT(60) DEF RegistReports, StateHeld
<1>4. CASE CtrlClosed
  BY <1>4 DEF CtrlClosed, Readable, CtrlMoves, CtrlGoes, Fails, NoMessage
<1>5. ASSUME NEW m \in Messages, CtrlReceive(m) PROVE SessionInv'
  BY <1>5 DEF CtrlReceive, Readable, CtrlMoves, Messages
<1>6. CASE Stop
  BY <1>6, ZenonT(60) DEF Stop, AppGoes
<1>7. CASE SetLoginPin
  <2>1. TypeOK'
    <3>1. s' \in SessionFields
      BY <1>7 DEF SetLoginPin, Call, AppGoes
    <3>2. c' \in CtrlFields
      BY <1>7 DEF SetLoginPin, Call, AppGoes
    <3>3. got' \in Histories
      BY <1>7 DEF SetLoginPin, Call, AppGoes
    <3> QED  BY <3>1, <3>2, <3>3
  <2>2. ThreadsFollow'
    BY <1>7 DEF SetLoginPin, Call, AppGoes
  <2>3. StopsAreExplained'
    BY <1>7 DEF SetLoginPin, Call, AppGoes
  <2>4. PinsAreCounted' /\ QuitFollows'
    BY <1>7 DEF SetLoginPin, Call, AppGoes
  <2> QED  BY <2>1, <2>2, <2>3, <2>4
<1>8. CASE SendMessage
  <2>1. TypeOK'
    <3>1. s' \in SessionFields
      BY <1>8 DEF SendMessage, Call, AppGoes
    <3>2. c' \in CtrlFields
      BY <1>8 DEF SendMessage, Call, AppGoes
    <3>3. got' \in Histories
      BY <1>8 DEF SendMessage, Call, AppGoes
    <3> QED  BY <3>1, <3>2, <3>3
  <2>2. ThreadsFollow'
    BY <1>8 DEF SendMessage, Call, AppGoes
  <2>3. StopsAreExplained'
    BY <1>8 DEF SendMessage, Call, AppGoes
  <2>4. PinsAreCounted' /\ QuitFollows'
    BY <1>8 DEF SendMessage, Call, AppGoes
  <2> QED  BY <2>1, <2>2, <2>3, <2>4
<1>9. CASE WritePipe
  <2>1. TypeOK'
    <3>1. s' \in SessionFields
      BY <1>9 DEF WritePipe, AppGoes
    <3>2. c' \in CtrlFields
      BY <1>9 DEF WritePipe, AppGoes
    <3>3. got' \in Histories
      BY <1>9 DEF WritePipe, AppGoes
    <3> QED  BY <3>1, <3>2, <3>3
  <2>2. ThreadsFollow'
    BY <1>9 DEF WritePipe, AppGoes
  <2>3. StopsAreExplained'
    BY <1>9 DEF WritePipe, AppGoes
  <2>4. PinsAreCounted' /\ QuitFollows'
    BY <1>9 DEF WritePipe, AppGoes
  <2> QED  BY <2>1, <2>2, <2>3, <2>4
<1>10. CASE GoHome
  <2>1. TypeOK'
    <3>1. s' \in SessionFields
      BY <1>10 DEF GoHome, Call, AppGoes
    <3>2. c' \in CtrlFields
      BY <1>10 DEF GoHome, Call, AppGoes
    <3>3. got' \in Histories
      BY <1>10 DEF GoHome, Call, AppGoes
    <3> QED  BY <3>1, <3>2, <3>3
  <2>2. ThreadsFollow'
    BY <1>10 DEF GoHome, Call, AppGoes
  <2>3. StopsAreExplained'
    BY <1>10 DEF GoHome, Call, AppGoes
  <2>4. PinsAreCounted' /\ QuitFollows'
    BY <1>10 DEF GoHome, Call, AppGoes
  <2> QED  BY <2>1, <2>2, <2>3, <2>4
<1> QED
  BY <1>1, <1>2, <1>3, <1>4, <1>5, <1>6, <1>7, <1>8, <1>9, <1>10 DEF RegistThread, Console, Application

LEMMA SessionStep == SessionInv /\ [Next]_vars => SessionInv'
<1> SUFFICES ASSUME SessionInv, [Next]_vars PROVE SessionInv'
  OBVIOUS
<1>1. CASE Next
  BY <1>1, SessionThreadInv, CtrlThreadInv, OthersInv DEF Next
<1>2. CASE UNCHANGED vars
  BY <1>2 DEF vars, SessionInv, TypeOK, SessionFields, CtrlFields, Histories, ThreadsFollow,
              StopsAreExplained, PinsAreCounted, QuitFollows
<1> QED  BY <1>1, <1>2

(* The session, its threads and the application agree at any time.             *)
THEOREM SessionInvariant == MCSpec => []SessionInv
<1>1. MCInit => SessionInv
  BY SessionInit DEF MCInit
<1>2. SessionInv /\ [MCNext]_<<vars, testVars>> => SessionInv'
  BY SessionStep DEF MCNext
<1> QED  BY <1>1, <1>2, PTL DEF MCSpec

(* The application may free the session when it gets the QUIT event, the     *)
(* only one, and a session that reports STOPPED was stopped                   *)
(* (session_thread_func and regist_cb of session.c).                          *)
THEOREM QuitComesLast == MCSpec => []QuitIsLast
<1>1. SessionInv => QuitIsLast
  BY DEF SessionInv, TypeOK, SessionFields, CtrlFields, Histories, ThreadsFollow, StopsAreExplained,
         QuitFollows, QuitIsLast
<1> QED  BY <1>1, SessionInvariant, PTL

(* However the login loop of session.c and the console's repeated requests    *)
(* interleave, no more PINs are sent than were asked for.                     *)
THEOREM PinsWereAsked == MCSpec => []PinsAnswerRequests
<1>1. SessionInv => PinsAnswerRequests
  BY DEF SessionInv, TypeOK, SessionFields, CtrlFields, Histories, PinsAreCounted, PinsAnswerRequests
<1> QED  BY <1>1, SessionInvariant, PTL

-----------------------------------------------------------------------------
(* The link test *)

States == {"takion_connect", "protocol_ack", "bang", "big_echo", "data_ack", "pong", "mtu", "client_mtu"}
Sizes == [min : Nat, max : Nat, cur : Nat, attempt : Nat]
Expected == [to |-> state, id |-> id]

TestTypeOK ==
  /\ path \in [in : Nat, out : Nat, fragments : BOOLEAN] /\ lossy \in BOOLEAN /\ finished \in BOOLEAN
  /\ state \in States /\ id \in Nat
  /\ answers \subseteq [to : States, id : 0 .. id]
  /\ search \in Sizes
  /\ result \in [err : {"running", "timeout", "unknown", "success"}, in : Nat, out : Nat]

(* Numbers are fresh, so a probe is answered exactly if its own size fits.     *)
OwnAnswersCount ==
  /\ finished => Expected \in answers
  /\ pc = "mtu_in" => state = "mtu" /\ (Expected \in answers <=> search.cur <= path.in)
  /\ pc = "mtu_out" => state = "pong" /\ (Expected \in answers <=> search.cur <= Test!Reach)

(* The lower end fits the path or is the smallest size.                         *)
Bracket(q, fits) ==
  /\ q \in Sizes
  /\ MtuMin <= q.min /\ q.min < q.max /\ q.max <= MtuMax
  /\ q.min = MtuMin \/ q.min <= fits

(* The upper end does not fit, except for MtuMax before it was probed.          *)
InBracket(q) ==
  /\ Bracket(q, path.in)
  /\ q.min < q.cur /\ q.cur <= q.max
  /\ q.cur = q.max => q.cur = MtuMax
  /\ lossy \/ path.in < q.max \/ q.cur = MtuMax

(* Outwards MtuMax is probed only if the search starts there.                   *)
OutBracket(q) ==
  /\ Bracket(q, Test!Reach)
  /\ \/ q.min < q.cur /\ q.cur < q.max
     \/ q.cur = result.in /\ q.min = MtuMin /\ q.max = MtuMax
  /\ \/ lossy \/ Test!Reach < q.max \/ q.cur = MtuMax
     \/ q.max = MtuMax /\ result.in < MtuMax

InIsKnown ==
  result.in \in MtuMin .. MtuMax /\ (lossy \/ result.in = Test!Clip(path.in))
OutIsKnown ==
  \/ lossy
  \/ result.out = IF result.in < MtuMax /\ Test!Reach >= MtuMax THEN MtuMax - 1 ELSE Test!Clip(Test!Reach)

SearchNarrows ==
  /\ pc = "mtu_in" => InBracket(search)
  /\ pc \in {"client_mtu", "mtu_out", "final"} \/ result.err = "success" => InIsKnown
  /\ pc = "mtu_out" => OutBracket(search)
  /\ pc = "final" \/ result.err = "success" => OutIsKnown
  /\ result.err = "success" => pc = "done"

TestInv == TestTypeOK /\ OwnAnswersCount /\ SearchNarrows /\ Test!MtuFits

(* A probe outwards arrives if it is no larger than the largest that does.      *)
LEMMA ReachIsTheLimit ==
  ASSUME path \in [in : Nat, out : Nat, fragments : BOOLEAN]
  PROVE  /\ Test!Reach \in Int
         /\ \A size \in Nat : size <= MtuMax => (Test!Passes(size) <=> size <= Test!Reach)
<1>1. Test!Wrapper \in Nat /\ MtuMax \in Nat
  BY MtuAssumption DEF Test!Wrapper
<1>2. CASE path.fragments
  BY <1>1, <1>2 DEF Test!Passes, Test!Reach
<1>3. CASE ~path.fragments
  BY <1>1, <1>3 DEF Test!Passes, Test!Reach
<1> QED BY <1>2, <1>3

LEMMA Half ==
  ASSUME NEW lo \in Nat, NEW hi \in Nat, lo <= hi
  PROVE  /\ lo + (hi - lo) \div 2 \in Nat
         /\ hi - lo > 1 => lo < lo + (hi - lo) \div 2 /\ lo + (hi - lo) \div 2 < hi
  OBVIOUS

(* A probe either is repeated, or becomes one end of the next search.          *)
Narrowed(q, success, r) ==
  /\ r \in Sizes
  /\ \/ ~success /\ r.min = q.min /\ r.max = q.max /\ r.cur = q.cur
     \/ /\ r.min = (IF success THEN q.cur ELSE q.min) /\ r.max = (IF success THEN q.max ELSE q.cur)
        /\ Test!Open(r) => r.min < r.cur /\ r.cur < r.max

LEMMA BisectNarrows ==
  ASSUME NEW q \in Sizes, NEW success \in BOOLEAN, q.min <= q.cur, q.cur <= q.max
  PROVE  Narrowed(q, success, Test!Bisect(q, success))
<1> DEFINE r == Test!Bisect(q, success)
           lo == IF success THEN q.cur ELSE q.min
           hi == IF success THEN q.max ELSE q.cur
           middle == lo + (hi - lo) \div 2
<1>1. CASE ~success /\ q.attempt + 1 < Retries
  BY <1>1 DEF Test!Bisect, Sizes, Narrowed
<1>2. CASE ~(~success /\ q.attempt + 1 < Retries)
  <2>1. r = [min |-> lo, max |-> hi, cur |-> middle, attempt |-> 0]
    BY <1>2 DEF Test!Bisect
  <2>2. lo \in Nat /\ hi \in Nat /\ lo <= hi
    BY DEF Sizes
  <2> HIDE DEF lo, hi
  <2>3. middle \in Nat /\ (hi - lo > 1 => lo < middle /\ middle < hi)
    BY <2>2, Half
  <2> HIDE DEF middle, r
  <2>4. r \in Sizes /\ r.min = lo /\ r.max = hi /\ (Test!Open(r) => r.min < r.cur /\ r.cur < r.max)
    BY <2>1, <2>2, <2>3 DEF Sizes, Test!Open
  <2> QED  BY <2>4 DEF Narrowed, lo, hi, r
<1> QED  BY <1>1, <1>2

LEMMA InStep ==
  ASSUME path.in \in Nat, NEW q, InBracket(q), NEW success \in BOOLEAN,
         success => q.cur <= path.in, ~success => lossy \/ q.cur > path.in,
         NEW r, Narrowed(q, success, r)
  PROVE  /\ Test!Open(r) => InBracket(r)
         /\ ~Test!Open(r) => /\ r.min \in MtuMin .. MtuMax
                             /\ r.min = MtuMin \/ r.min <= path.in
                             /\ lossy \/ r.min = Test!Clip(path.in)
<1> USE MtuAssumption DEF InBracket, Bracket, Narrowed, Sizes, Test!Open
<1>1. CASE ~success /\ r.min = q.min /\ r.max = q.max /\ r.cur = q.cur
  BY <1>1 DEF Test!Clip
<1>2. CASE success /\ r.min = q.cur /\ r.max = q.max
  <2>1. Test!Open(r) => InBracket(r)
    BY <1>2
  <2>2. ~Test!Open(r) => r.min \in MtuMin .. MtuMax /\ (r.min = MtuMin \/ r.min <= path.in)
    BY <1>2
  <2>3. ~Test!Open(r) => lossy \/ r.min = Test!Clip(path.in)
    BY <1>2 DEF Test!Clip
  <2> QED  BY <2>1, <2>2, <2>3
<1>3. CASE ~success /\ r.min = q.min /\ r.max = q.cur
  <2>1. Test!Open(r) => InBracket(r)
    BY <1>3
  <2>2. ~Test!Open(r) => r.min \in MtuMin .. MtuMax /\ (r.min = MtuMin \/ r.min <= path.in)
    BY <1>3
  <2>3. ~Test!Open(r) => lossy \/ r.min = Test!Clip(path.in)
    BY <1>3 DEF Test!Clip
  <2> QED  BY <2>1, <2>2, <2>3
<1> QED  BY <1>1, <1>2, <1>3

LEMMA OutStep ==
  ASSUME Test!Reach \in Int, result.in \in MtuMin .. MtuMax, NEW q, OutBracket(q), NEW success \in BOOLEAN,
         success => q.cur <= Test!Reach, ~success => lossy \/ q.cur > Test!Reach,
         NEW r, Narrowed(q, success, r)
  PROVE  /\ Test!Open(r) => OutBracket(r)
         /\ ~Test!Open(r) =>
              /\ r.min = MtuMin \/ r.min <= Test!Reach
              /\ \/ lossy
                 \/ r.min = IF result.in < MtuMax /\ Test!Reach >= MtuMax THEN MtuMax - 1
                            ELSE Test!Clip(Test!Reach)
<1> USE MtuAssumption DEF OutBracket, Bracket, Narrowed, Sizes, Test!Open
<1> DEFINE exact == \/ lossy
                    \/ r.min = IF result.in < MtuMax /\ Test!Reach >= MtuMax THEN MtuMax - 1
                               ELSE Test!Clip(Test!Reach)
<1>1. CASE ~success /\ r.min = q.min /\ r.max = q.max /\ r.cur = q.cur
  <2>1. Test!Open(r) => OutBracket(r)
    BY <1>1
  <2>2. ~Test!Open(r) => r.min = MtuMin \/ r.min <= Test!Reach
    BY <1>1
  <2>3. ~Test!Open(r) => exact
    BY <1>1 DEF Test!Clip
  <2> QED  BY <2>1, <2>2, <2>3
<1>2. CASE success /\ r.min = q.cur /\ r.max = q.max
  <2>1. Test!Open(r) => OutBracket(r)
    BY <1>2
  <2>2. ~Test!Open(r) => r.min = MtuMin \/ r.min <= Test!Reach
    BY <1>2
  <2>3. ~Test!Open(r) => exact
    BY <1>2 DEF Test!Clip
  <2> QED  BY <2>1, <2>2, <2>3
<1>3. CASE ~success /\ r.min = q.min /\ r.max = q.cur
  <2>1. Test!Open(r) => OutBracket(r)
    BY <1>3
  <2>2. ~Test!Open(r) => r.min = MtuMin \/ r.min <= Test!Reach
    BY <1>3
  <2>3. ~Test!Open(r) => exact
    BY <1>3 DEF Test!Clip
  <2> QED  BY <2>1, <2>2, <2>3
<1> QED  BY <1>1, <1>2, <1>3

(* A message is sent with a fresh number: nothing old can answer it.           *)
LEMMA ExpectIsFresh ==
  ASSUME TestTypeOK, NEW place, NEW st \in States, NEW answered \in BOOLEAN,
         Test!Expect(place, st, answered)
  PROVE  /\ pc' = place /\ state' = st /\ finished' = FALSE
         /\ path' = path /\ Test!Reach' = Test!Reach /\ lossy' = lossy
         /\ state' \in States /\ id' \in Nat /\ answers' \subseteq [to : States, id : 0 .. id']
         /\ Expected' \in answers' <=> answered
<1> USE DEF Test!Expect, TestTypeOK, Expected, Test!Reach, Test!Wrapper
<1>1. id \in Nat /\ id' = id + 1 /\ [to |-> st, id |-> id + 1] \notin answers
  OBVIOUS
<1>2. answers' \subseteq [to : States, id : 0 .. id']
  BY <1>1
<1> QED  BY <1>1, <1>2

LEMMA EndKeeps == ASSUME TestInv, NEW err \in {"timeout", "unknown"}, Test!End(err) PROVE TestInv'
<1> USE DEF TestInv, Test!End, Test!Reach, Test!Wrapper
<1>1. result' = [result EXCEPT !.err = err] /\ result'.in = result.in /\ result'.out = result.out /\ result'.err = err
  BY DEF TestTypeOK
<1>2. TestTypeOK'
  BY DEF TestTypeOK
<1>3. OwnAnswersCount'
  BY DEF OwnAnswersCount, Expected
<1>4. SearchNarrows'
  BY <1>1 DEF SearchNarrows, TestTypeOK
<1>5. Test!MtuFits'
  BY <1>1 DEF Test!MtuFits
<1> QED  BY <1>2, <1>3, <1>4, <1>5

(* Until the first test nothing is known and nothing is searched.              *)
LEMMA BeforeTests ==
  ASSUME TestInv, NEW place \in {"version", "big", "echo_on", "ping", "echo_off"},
         NEW st \in States, Test!Expect(place, st, TRUE), pc # "done",
         UNCHANGED <<search, result>>
  PROVE  TestInv'
<1>1. /\ pc' = place /\ state' = st /\ finished' = FALSE /\ path' = path /\ Test!Reach' = Test!Reach /\ lossy' = lossy
      /\ state' \in States /\ id' \in Nat /\ answers' \subseteq [to : States, id : 0 .. id']
  BY ExpectIsFresh DEF TestInv
<1>2. TestTypeOK'
  BY <1>1 DEF TestInv, TestTypeOK
<1>3. OwnAnswersCount'
  BY <1>1 DEF OwnAnswersCount
<1>4. SearchNarrows' /\ Test!MtuFits'
  BY <1>1 DEF TestInv, SearchNarrows, Test!MtuFits
<1> QED  BY <1>2, <1>3, <1>4 DEF TestInv

LEMMA TestInit == Test!Init \/ Test!AtRest => TestInv
<1> SUFFICES ASSUME Test!Init \/ Test!AtRest PROVE TestInv
  OBVIOUS
<1>1. path \in [in : Nat, out : Nat, fragments : BOOLEAN]
  <2>1. CASE Test!Init
    BY <2>1, MtuAssumption DEF Test!Init
  <2>2. CASE Test!AtRest
    BY <2>2, MtuAssumption DEF Test!AtRest
  <2> QED  BY <2>1, <2>2
<1>2. /\ lossy \in BOOLEAN /\ finished = FALSE /\ id = 0
      /\ state = "takion_connect" /\ pc \in {"connect", "done"}
  BY DEF Test!Init, Test!AtRest
<1>3. answers \subseteq {[to |-> "takion_connect", id |-> 0]}
  BY DEF Test!Init, Test!AtRest
<1>4. search \in Sizes
  BY DEF Test!Init, Test!AtRest, Test!NoSearch, Sizes
<1>5. result = [err |-> "running", in |-> 0, out |-> 0]
  BY DEF Test!Init, Test!AtRest
<1>6. answers \subseteq [to : States, id : 0 .. id]
  BY <1>2, <1>3 DEF States
<1>7. TestTypeOK
  BY <1>1, <1>2, <1>4, <1>5, <1>6 DEF TestTypeOK, States
<1>8. OwnAnswersCount /\ SearchNarrows /\ Test!MtuFits
  BY <1>2, <1>5 DEF OwnAnswersCount, SearchNarrows, Test!MtuFits
<1> QED  BY <1>7, <1>8 DEF TestInv

LEMMA ReceiveInv == ASSUME TestInv, NEW a \in answers, Test!Receive(a) PROVE TestInv'
<1>1. a = [to |-> a.to, id |-> a.id] /\ a.to = state /\ a.id = id
  BY DEF TestInv, TestTypeOK, Test!Receive
<1>2. TestTypeOK'
  BY DEF TestInv, TestTypeOK, Test!Receive
<1>3. OwnAnswersCount'
  BY <1>1 DEF TestInv, OwnAnswersCount, Expected, Test!Receive, Test!Reach, Test!Wrapper
<1>4. SearchNarrows' /\ Test!MtuFits'
  BY DEF TestInv, SearchNarrows, Test!MtuFits, Test!Receive, InBracket, OutBracket, Bracket, InIsKnown,
         OutIsKnown, Test!Reach, Test!Wrapper
<1> QED  BY <1>2, <1>3, <1>4 DEF TestInv

LEMMA HandshakeInv ==
  ASSUME TestInv, Test!Connected \/ Test!VersionSet \/ Test!BigAnswered \/ Test!EchoEnabled \/ Test!PingEnds
  PROVE  TestInv'
<1>1. CASE Test!Connected
  <2>1. CASE Test!SetVersion /\ UNCHANGED <<search, result>> /\ pc = "connect"
    BY <2>1, BeforeTests DEF Test!SetVersion, States
  <2>2. CASE Test!SendBig /\ UNCHANGED <<search, result>> /\ pc = "connect"
    BY <2>2, BeforeTests DEF Test!SendBig, States
  <2>3. CASE Test!End("timeout")
    BY <2>3, EndKeeps
  <2> QED  BY <1>1, <2>1, <2>2, <2>3 DEF Test!Connected
<1>2. CASE Test!VersionSet
  <2>1. CASE Test!SendBig /\ UNCHANGED <<search, result>> /\ pc = "version"
    BY <2>1, BeforeTests DEF Test!SendBig, States
  <2>2. CASE Test!End("timeout")
    BY <2>2, EndKeeps
  <2> QED  BY <1>2, <2>1, <2>2 DEF Test!VersionSet
<1>3. CASE Test!BigAnswered
  <2>1. CASE Test!Expect("echo_on", "data_ack", TRUE) /\ UNCHANGED <<search, result>> /\ pc = "big"
    BY <2>1, BeforeTests DEF States
  <2>2. CASE Test!End("timeout")
    BY <2>2, EndKeeps
  <2> QED  BY <1>3, <2>1, <2>2 DEF Test!BigAnswered
<1>4. CASE (Test!EchoEnabled \/ Test!PingEnds) /\ Test!NextPing
  <2>1. pc # "done" /\ UNCHANGED <<search, result>>
    BY <1>4 DEF Test!EchoEnabled, Test!PingEnds, Test!NextPing
  <2>2. CASE Test!Expect("ping", "pong", TRUE)
    BY <2>1, <2>2, BeforeTests DEF States
  <2>3. CASE Test!Expect("echo_off", "data_ack", TRUE)
    BY <2>1, <2>3, BeforeTests DEF States
  <2> QED  BY <1>4, <2>2, <2>3 DEF Test!NextPing
<1>5. CASE Test!EchoEnabled /\ Test!End("timeout")
  BY <1>5, EndKeeps
<1> QED  BY <1>1, <1>2, <1>3, <1>4, <1>5 DEF Test!EchoEnabled, Test!PingEnds

(* A failed probe was too large, unless its answer can get lost.              *)
LEMMA ProbeOutcome ==
  ASSUME TestInv, pc \in {"mtu_in", "mtu_out"}, finished \/ Test!TimedOut
  PROVE  /\ finished \in BOOLEAN
         /\ pc = "mtu_in" => /\ finished => search.cur <= path.in
                             /\ ~finished => lossy \/ search.cur > path.in
         /\ pc = "mtu_out" => /\ finished => search.cur <= Test!Reach
                              /\ ~finished => lossy \/ search.cur > Test!Reach
<1>1. path.in \in Nat /\ Test!Reach \in Int /\ search.cur \in Nat /\ finished \in BOOLEAN
  BY ReachIsTheLimit DEF TestInv, TestTypeOK, Sizes
<1> QED  BY <1>1 DEF TestInv, OwnAnswersCount, Test!TimedOut, Expected

LEMMA SentIn ==
  ASSUME TestTypeOK, NEW q, Test!ProbeIn(q)
  PROVE  /\ pc' = "mtu_in" /\ state' = "mtu" /\ finished' = FALSE /\ path' = path /\ Test!Reach' = Test!Reach /\ lossy' = lossy
         /\ id' \in Nat /\ answers' \subseteq [to : States, id : 0 .. id'] /\ state' \in States
         /\ Expected' \in answers' <=> q.cur <= path.in
<1>1. (q.cur <= path.in) \in BOOLEAN /\ "mtu" \in States
  BY DEF States
<1>2. Test!Expect("mtu_in", "mtu", q.cur <= path.in)
  BY DEF Test!ProbeIn
<1> QED  BY <1>1, <1>2, ExpectIsFresh

LEMMA SentOut ==
  ASSUME TestTypeOK, NEW q, Test!ProbeOut(q), q.cur \in Nat, q.cur <= MtuMax
  PROVE  /\ pc' = "mtu_out" /\ state' = "pong" /\ finished' = FALSE /\ path' = path /\ Test!Reach' = Test!Reach /\ lossy' = lossy
         /\ id' \in Nat /\ answers' \subseteq [to : States, id : 0 .. id'] /\ state' \in States
         /\ Expected' \in answers' <=> q.cur <= Test!Reach
<1>1. Test!Passes(q.cur) \in BOOLEAN /\ "pong" \in States
  BY DEF States, Test!Passes, TestTypeOK
<1>2. Test!Expect("mtu_out", "pong", Test!Passes(q.cur))
  BY DEF Test!ProbeOut
<1>3. Test!Passes(q.cur) <=> q.cur <= Test!Reach
  BY ReachIsTheLimit DEF TestTypeOK
<1>4. Expected' \in answers' <=> Test!Passes(q.cur)
  BY <1>1, <1>2, ExpectIsFresh
<1>5. /\ pc' = "mtu_out" /\ state' = "pong" /\ finished' = FALSE /\ path' = path /\ Test!Reach' = Test!Reach /\ lossy' = lossy
      /\ id' \in Nat /\ answers' \subseteq [to : States, id : 0 .. id'] /\ state' \in States
  BY <1>1, <1>2, ExpectIsFresh
<1> QED  BY <1>3, <1>4, <1>5

LEMMA EchoDisabledInv == ASSUME TestInv, Test!EchoDisabled PROVE TestInv'
<1>1. CASE Test!End("timeout") \/ Test!End("unknown")
  BY <1>1, EndKeeps
<1>2. CASE Test!BeginTests
  <2>1. search' = [min |-> MtuMin, max |-> MtuMax, cur |-> MtuMax, attempt |-> 0] /\ UNCHANGED result
    BY <1>2 DEF Test!BeginTests
  <2>2. search' \in Sizes /\ search'.cur = MtuMax /\ MtuMax \in Nat /\ path.in \in Nat
    BY <2>1, MtuAssumption DEF Sizes, TestInv, TestTypeOK
  <2>3. Test!ProbeIn(search')
    BY <1>2 DEF Test!BeginTests
  <2>4. /\ pc' = "mtu_in" /\ state' = "mtu" /\ finished' = FALSE /\ path' = path /\ Test!Reach' = Test!Reach /\ lossy' = lossy
        /\ id' \in Nat /\ answers' \subseteq [to : States, id : 0 .. id'] /\ state' \in States
        /\ Expected' \in answers' <=> search'.cur <= path.in
    BY <2>3, SentIn DEF TestInv
  <2>5. TestTypeOK'
    BY <2>1, <2>2, <2>4 DEF TestInv, TestTypeOK
  <2>6. OwnAnswersCount'
    BY <2>4 DEF OwnAnswersCount
  <2>7. InBracket(search)'
    BY <2>1, <2>2, <2>4, MtuAssumption DEF InBracket, Bracket
  <2>8. result.err # "success"
    BY DEF TestInv, SearchNarrows, Test!EchoDisabled
  <2>9. SearchNarrows' /\ Test!MtuFits'
    BY <2>1, <2>4, <2>7, <2>8 DEF TestInv, SearchNarrows, Test!MtuFits
  <2> QED  BY <2>5, <2>6, <2>9 DEF TestInv
<1> QED  BY <1>1, <1>2 DEF Test!EchoDisabled

LEMMA ProbeInEndsInv == ASSUME TestInv, Test!ProbeInEnds PROVE TestInv'
<1> DEFINE r == Test!Bisect(search, finished)
<1>1. /\ path.in \in Nat /\ InBracket(search) /\ search \in Sizes /\ result.in \in Nat /\ result.out \in Nat
      /\ result.err # "success" /\ lossy \in BOOLEAN
  BY DEF TestInv, TestTypeOK, SearchNarrows, Test!ProbeInEnds
<1>2. search.min <= search.cur /\ search.cur <= search.max
  BY <1>1 DEF InBracket, Bracket, Sizes
<1>3. /\ finished \in BOOLEAN
      /\ finished => search.cur <= path.in
      /\ ~finished => lossy \/ search.cur > path.in
  BY ProbeOutcome DEF Test!ProbeInEnds
<1>4. Narrowed(search, finished, r)
  BY <1>1, <1>2, <1>3, BisectNarrows
<1> HIDE DEF r
<1>5. search' = r /\ r \in Sizes
  BY <1>4 DEF Test!ProbeInEnds, Narrowed, r
<1>6. Test!Open(r) => InBracket(r)
  BY <1>1, <1>3, <1>4, InStep
<1>7. ~Test!Open(r) => /\ r.min \in MtuMin .. MtuMax
                       /\ r.min = MtuMin \/ r.min <= path.in
                       /\ lossy \/ r.min = Test!Clip(path.in)
  BY <1>1, <1>3, <1>4, InStep
<1>8. CASE Test!Open(r)
  <2>1. Test!ProbeIn(r) /\ UNCHANGED result
    BY <1>5, <1>8 DEF Test!ProbeInEnds
  <2>2. /\ pc' = "mtu_in" /\ state' = "mtu" /\ finished' = FALSE /\ path' = path /\ Test!Reach' = Test!Reach /\ lossy' = lossy
        /\ id' \in Nat /\ answers' \subseteq [to : States, id : 0 .. id'] /\ state' \in States
        /\ Expected' \in answers' <=> r.cur <= path.in
    BY <2>1, SentIn DEF TestInv
  <2>3. TestTypeOK'
    BY <1>5, <2>1, <2>2 DEF TestInv, TestTypeOK
  <2>4. OwnAnswersCount'
    BY <1>5, <2>2 DEF OwnAnswersCount
  <2>5. SearchNarrows'
    BY <1>1, <1>5, <1>6, <1>8, <2>1, <2>2 DEF SearchNarrows, InBracket, Bracket
  <2>6. Test!MtuFits'
    BY <2>1, <2>2 DEF TestInv, Test!MtuFits
  <2> QED  BY <2>3, <2>4, <2>5, <2>6 DEF TestInv
<1>9. CASE ~Test!Open(r)
  <2>1. Test!Expect("client_mtu", "client_mtu", TRUE) /\ result' = [result EXCEPT !.in = r.min]
    BY <1>5, <1>9 DEF Test!ProbeInEnds, Test!SendClientMtu
  <2>2. result'.in = r.min /\ result'.out = result.out /\ result'.err = result.err
    BY <2>1 DEF TestInv, TestTypeOK
  <2>3. /\ pc' = "client_mtu" /\ state' = "client_mtu" /\ finished' = FALSE /\ path' = path /\ Test!Reach' = Test!Reach /\ lossy' = lossy
        /\ id' \in Nat /\ answers' \subseteq [to : States, id : 0 .. id'] /\ state' \in States
    BY <2>1, ExpectIsFresh DEF TestInv, States
  <2>4. TestTypeOK'
    BY <1>5, <2>1, <2>3 DEF TestInv, TestTypeOK, Sizes
  <2>5. OwnAnswersCount'
    BY <2>3 DEF OwnAnswersCount
  <2>6. SearchNarrows'
    BY <1>1, <1>7, <1>9, <2>2, <2>3 DEF SearchNarrows, InIsKnown, Test!Clip
  <2>7. Test!MtuFits'
    BY <1>7, <1>9, <2>2, <2>3 DEF TestInv, Test!MtuFits
  <2> QED  BY <2>4, <2>5, <2>6, <2>7 DEF TestInv
<1> QED  BY <1>8, <1>9

LEMMA ClientMtuAnsweredInv == ASSUME TestInv, Test!ClientMtuAnswered PROVE TestInv'
<1>1. CASE Test!End("timeout")
  BY <1>1, EndKeeps
<1>2. CASE ~Test!End("timeout")
  <2>1. /\ search' = [min |-> MtuMin, max |-> MtuMax, cur |-> result.in, attempt |-> 0]
        /\ Test!ProbeOut(search') /\ UNCHANGED result /\ pc = "client_mtu"
    BY <1>2 DEF Test!ClientMtuAnswered
  <2>2. InIsKnown /\ result.err # "success"
    BY <2>1 DEF TestInv, SearchNarrows
  <2>3. search' \in Sizes /\ search'.cur = result.in /\ search'.min = MtuMin /\ search'.max = MtuMax
    BY <2>1, <2>2, MtuAssumption DEF Sizes, InIsKnown
  <2>4. /\ pc' = "mtu_out" /\ state' = "pong" /\ finished' = FALSE /\ path' = path /\ Test!Reach' = Test!Reach /\ lossy' = lossy
        /\ id' \in Nat /\ answers' \subseteq [to : States, id : 0 .. id'] /\ state' \in States
        /\ Expected' \in answers' <=> search'.cur <= Test!Reach
    <3>1. search'.cur \in Nat /\ search'.cur <= MtuMax /\ TestTypeOK
      BY <2>2, <2>3, MtuAssumption DEF TestInv, InIsKnown
    <3>2. Test!ProbeOut(search')
      BY <2>1
    <3> QED BY <3>1, <3>2, SentOut
  <2>5. TestTypeOK'
    BY <2>1, <2>3, <2>4 DEF TestInv, TestTypeOK
  <2>6. OwnAnswersCount'
    BY <2>4 DEF OwnAnswersCount
  <2>7. result' = result
    BY <2>1
  <2>8. OutBracket(search)'
    BY <2>2, <2>3, <2>4, <2>7, MtuAssumption DEF OutBracket, Bracket, InIsKnown
  <2>9. SearchNarrows' /\ Test!MtuFits'
    BY <2>2, <2>4, <2>7, <2>8 DEF TestInv, SearchNarrows, Test!MtuFits, InIsKnown, Test!Clip
  <2> QED  BY <2>5, <2>6, <2>9 DEF TestInv
<1> QED  BY <1>1, <1>2

LEMMA ProbeOutEndsInv == ASSUME TestInv, Test!ProbeOutEnds PROVE TestInv'
<1> DEFINE r == Test!Bisect(search, finished)
<1>1. /\ Test!Reach \in Int /\ OutBracket(search) /\ search \in Sizes /\ result.in \in Nat /\ result.out \in Nat
      /\ result.err # "success" /\ lossy \in BOOLEAN /\ InIsKnown
  BY ReachIsTheLimit DEF TestInv, TestTypeOK, SearchNarrows, Test!ProbeOutEnds
<1>2. search.min <= search.cur /\ search.cur <= search.max /\ result.in \in MtuMin .. MtuMax
  BY <1>1, MtuAssumption DEF OutBracket, Bracket, Sizes, InIsKnown
<1>3. /\ finished \in BOOLEAN
      /\ finished => search.cur <= Test!Reach
      /\ ~finished => lossy \/ search.cur > Test!Reach
  BY ProbeOutcome DEF Test!ProbeOutEnds
<1>4. Narrowed(search, finished, r)
  BY <1>1, <1>2, <1>3, BisectNarrows
<1> HIDE DEF r
<1>5. search' = r /\ r \in Sizes
  BY <1>4 DEF Test!ProbeOutEnds, Narrowed, r
<1>6. Test!Open(r) => OutBracket(r)
  BY <1>1, <1>2, <1>3, <1>4, OutStep
<1>7. ~Test!Open(r) =>
        /\ r.min = MtuMin \/ r.min <= Test!Reach
        /\ \/ lossy
           \/ r.min = IF result.in < MtuMax /\ Test!Reach >= MtuMax THEN MtuMax - 1
                      ELSE Test!Clip(Test!Reach)
  BY <1>1, <1>2, <1>3, <1>4, OutStep
<1>8. CASE Test!Open(r)
  <2>1. Test!ProbeOut(r) /\ UNCHANGED result
    BY <1>5, <1>8 DEF Test!ProbeOutEnds
  <2>2. /\ pc' = "mtu_out" /\ state' = "pong" /\ finished' = FALSE /\ path' = path /\ Test!Reach' = Test!Reach /\ lossy' = lossy
        /\ id' \in Nat /\ answers' \subseteq [to : States, id : 0 .. id'] /\ state' \in States
        /\ Expected' \in answers' <=> r.cur <= Test!Reach
    <3>1. r.cur \in Nat /\ r.cur <= MtuMax /\ TestTypeOK
      BY <1>2, <1>5, <1>6, <1>8, MtuAssumption DEF OutBracket, Bracket, Sizes, TestInv
    <3> QED BY <2>1, <3>1, SentOut
  <2>3. TestTypeOK'
    BY <1>5, <2>1, <2>2 DEF TestInv, TestTypeOK
  <2>4. OwnAnswersCount'
    BY <1>5, <2>2 DEF OwnAnswersCount
  <2>5. SearchNarrows'
    BY <1>1, <1>5, <1>6, <1>8, <2>1, <2>2 DEF SearchNarrows, OutBracket, Bracket, InIsKnown, Test!Clip
  <2>6. Test!MtuFits'
    BY <2>1, <2>2 DEF TestInv, Test!MtuFits
  <2> QED  BY <2>3, <2>4, <2>5, <2>6 DEF TestInv
<1>9. CASE ~Test!Open(r)
  <2>1. Test!Expect("final", "data_ack", TRUE) /\ result' = [result EXCEPT !.out = r.min]
    BY <1>5, <1>9 DEF Test!ProbeOutEnds
  <2>2. result'.in = result.in /\ result'.out = r.min /\ result'.err = result.err
    BY <2>1 DEF TestInv, TestTypeOK
  <2>3. /\ pc' = "final" /\ state' = "data_ack" /\ finished' = FALSE /\ path' = path /\ Test!Reach' = Test!Reach /\ lossy' = lossy
        /\ id' \in Nat /\ answers' \subseteq [to : States, id : 0 .. id'] /\ state' \in States
    BY <2>1, ExpectIsFresh DEF TestInv, States
  <2>4. TestTypeOK'
    BY <1>5, <2>1, <2>3 DEF TestInv, TestTypeOK, Sizes
  <2>5. OwnAnswersCount'
    BY <2>3 DEF OwnAnswersCount
  <2>6. SearchNarrows'
    BY <1>1, <1>7, <1>9, <2>2, <2>3 DEF SearchNarrows, InIsKnown, OutIsKnown, Test!Clip
  <2>7. Test!MtuFits'
    BY <1>7, <1>9, <2>2, <2>3 DEF TestInv, Test!MtuFits
  <2> QED  BY <2>4, <2>5, <2>6, <2>7 DEF TestInv
<1> QED  BY <1>8, <1>9

LEMMA FinalInv == ASSUME TestInv, Test!Final PROVE TestInv'
<1>1. CASE Test!End("timeout")
  BY <1>1, EndKeeps
<1>2. CASE Test!End("success")
  <2>1. result' = [result EXCEPT !.err = "success"] /\ pc' = "done" /\ pc = "final"
    BY <1>2 DEF Test!End, Test!Final
  <2>2. result'.in = result.in /\ result'.out = result.out /\ result'.err = "success"
    BY <2>1 DEF TestInv, TestTypeOK
  <2>3. UNCHANGED <<path, lossy, finished, state, id, answers, search>> /\ Test!Reach' = Test!Reach
    BY <1>2 DEF Test!End, Test!Reach, Test!Wrapper
  <2>4. TestTypeOK' /\ OwnAnswersCount'
    BY <2>1, <2>3 DEF TestInv, TestTypeOK, OwnAnswersCount, Expected
  <2>5. SearchNarrows' /\ Test!MtuFits'
    BY <2>1, <2>2, <2>3 DEF TestInv, SearchNarrows, Test!MtuFits, InIsKnown, OutIsKnown, Test!Clip
  <2> QED  BY <2>4, <2>5 DEF TestInv
<1> QED  BY <1>1, <1>2 DEF Test!Final

LEMMA TestStep == TestInv /\ [Test!Next]_testVars => TestInv'
<1> SUFFICES ASSUME TestInv, [Test!Next]_testVars PROVE TestInv'
  OBVIOUS
<1>1. CASE Test!Run
  BY <1>1, HandshakeInv, EchoDisabledInv, ProbeInEndsInv, ClientMtuAnsweredInv, ProbeOutEndsInv, FinalInv
  DEF Test!Run
<1>2. CASE Test!Takion
  <2>1. PICK a \in answers : Test!Receive(a)
    BY <1>2 DEF Test!Takion, Test!ReceiveEvent, Test!ReceiveData, Test!ReceiveAck, Test!ReceiveAv
  <2> QED  BY <2>1, ReceiveInv
<1>3. CASE UNCHANGED testVars
  BY <1>3 DEF testVars, TestInv, TestTypeOK, OwnAnswersCount, Expected, SearchNarrows, Test!MtuFits,
              InBracket, OutBracket, Bracket, InIsKnown, OutIsKnown, Test!Clip, Test!Reach, Test!Wrapper
<1> QED  BY <1>1, <1>2, <1>3 DEF Test!Next

(* The numbers of the link test are fresh, and its bracket fits the path.      *)
THEOREM TestInvariant == MCSpec => []TestInv
<1>1. MCInit => TestInv
  BY TestInit DEF MCInit
<1>2. TestInv /\ [MCNext]_<<vars, testVars>> => TestInv'
  BY TestStep DEF MCNext
<1> QED  BY <1>1, <1>2, PTL DEF MCSpec

(* The MTUs of a finished link test are sizes that pass, and where no answer is *)
(* lost the largest that do (senkusha_run_mtu_in_test and _out_test).          *)
THEOREM MtuIsFound == MCSpec => []MtuIsExact
<1>1. TestInv => MtuIsExact
  BY DEF TestInv, TestTypeOK, SearchNarrows, InIsKnown, OutIsKnown, MtuIsExact, Test!MtuIsExact,
         Test!MtuFits
<1> QED  BY <1>1, TestInvariant, PTL
=============================================================================
