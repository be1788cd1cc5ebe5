------------------------------ MODULE Session ------------------------------
(***************************************************************************)
(* The session (session.c) and its control connection (ctrl.c): the        *)
(* session thread, the ctrl thread, the registration thread of a PSN       *)
(* session and the application.                                            *)
(*                                                                         *)
(* Both mutexes are held over long stretches, so they are not variables:   *)
(* StateHeld and NotifHeld say at which places of the two threads they     *)
(* are held.  Everybody else takes them for one step only.                 *)
(***************************************************************************)
EXTENDS Naturals, Sequences, FiniteSets

CONSTANTS Kinds,        \* of sessions: subset of {"local", "psn", "regist", "cloud"}
          MaxMessages,  \* messages of the console on ctrl
          MaxCalls,     \* messages and PINs of the application
          Addresses     \* addresses the host name resolves to

VARIABLES
  kind,      \* local, PSN, PSN only to register, cloud
  spc,       \* place of the session thread
  s,         \* ChiakiSession: what state_mutex protects
  req,       \* session request: [tries, addrs]
  cpc,       \* place of the ctrl thread
  c,         \* ChiakiCtrl: what notif_mutex protects
  msg,       \* what the ctrl thread handles or reports, and where it goes then
  rpc,       \* the registration thread
  apc,       \* the application inside a call
  got,       \* history: messages received, calls, PINs asked and sent
  quit       \* history: reasons of the quit events

vars == <<kind, spc, s, req, cpc, c, msg, rpc, apc, got, quit>>

Mismatch == {"mismatch", "mismatch_unknown"}
Messages == {"session_id", "pin_request", "pin_incorrect", "login_ok",
             "heartbeat", "switch"}

NoRequest == [tries |-> 0, addrs |-> 0]
NoMessage == [what |-> "none", then |-> "none"]
NoSession == [stop |-> FALSE, pipe |-> FALSE, sid |-> FALSE, pinAsked |-> FALSE,
              pin |-> FALSE, failed |-> FALSE, regist |-> FALSE, switched |-> FALSE,
              rudp |-> FALSE, reason |-> "none"]
NoCtrl == [stop |-> FALSE, pipe |-> FALSE, queue |-> 0, pin |-> FALSE,
           pinAsked |-> FALSE, deaf |-> FALSE]
NothingYet == [messages |-> 0, calls |-> 0, asked |-> 0, sent |-> 0, stop |-> FALSE]

Init ==
  /\ kind \in Kinds
  /\ spc = "start" /\ cpc = "none" /\ rpc = "none" /\ apc = "idle"
  /\ s = NoSession /\ req = NoRequest /\ c = NoCtrl /\ msg = NoMessage
  /\ got = NothingYet
  /\ quit = <<>>

\* The session thread keeps state_mutex while it waits for these to end.
StateHeld == spc \in {"regist_join", "request", "rudp_init", "forward_pin", "punch",
                      "check_id", "features", "senkusha", "ecdh"}
\* The ctrl thread keeps notif_mutex from its wakeup to its next select.
NotifHeld == cpc \in {"header", "woken", "handle", "send", "fail"}

SessionGoes(to) == spc' = to /\ UNCHANGED <<kind, cpc, c, msg, rpc, apc, got, quit>>
\* QUIT and CHECK_STOP
LeaveAs(reason, to) == s' = [s EXCEPT !.reason = reason] /\ SessionGoes(to)

-----------------------------------------------------------------------------
(* The session thread up to the session request *)

\* A cloud session needs no request and no ctrl, but a random nonce.
BeginCloud ==
  /\ ~s.stop /\ kind = "cloud"
  /\ UNCHANGED s
  /\ SessionGoes("ecdh") \/ SessionGoes("quit")

Begin ==
  /\ spc = "start"
  /\ UNCHANGED req
  /\ \/ s.stop /\ LeaveAs("stopped", "quit")
     \/ BeginCloud
     \/ ~s.stop /\ kind = "local" /\ UNCHANGED s /\ SessionGoes("request")
     \/ /\ ~s.stop /\ kind \in {"psn", "regist"}
        /\ \/ /\ s' = [s EXCEPT !.rudp = TRUE]
              /\ spc' = "regist_wait" /\ rpc' = "running"
              /\ UNCHANGED <<kind, cpc, c, msg, apc, got, quit>>
           \/ kind = "psn" /\ UNCHANGED s /\ SessionGoes("request")
           \/ kind = "regist" /\ LeaveAs("stopped", "quit")

\* The wait for the registration ends with it, with a stop, or after 10 s.
RegistWaitEnds == spc = "regist_wait" /\ UNCHANGED <<s, req>> /\ SessionGoes("regist_join")

\* chiaki_regist_fini joins with state_mutex held; regist_cb needs it.
RegistJoin ==
  /\ spc = "regist_join" /\ rpc = "done"
  /\ UNCHANGED req
  /\ \/ s.stop /\ LeaveAs("stopped", "quit")
     \/ ~s.stop /\ kind = "regist" /\ LeaveAs("stopped", "quit")
     \/ ~s.stop /\ kind = "psn" /\ UNCHANGED s /\ SessionGoes("request")

\* The registration thread finishes, and reports under state_mutex.
RegistFinishes ==
  /\ rpc = "running"
  /\ rpc' \in {"success", "failure"}
  /\ UNCHANGED <<kind, spc, s, req, cpc, c, msg, apc, got, quit>>

RegistReports ==
  /\ rpc \in {"success", "failure"} /\ ~StateHeld
  /\ s' = IF rpc = "success" THEN [s EXCEPT !.regist = TRUE]
          ELSE [s EXCEPT !.reason = "regist_failed", !.stop = TRUE]
  /\ rpc' = "done"
  /\ UNCHANGED <<kind, spc, req, cpc, c, msg, apc, got, quit>>

-----------------------------------------------------------------------------
(* session_thread_request_session, at most three times *)

Request ==
  /\ spc = "request"
  /\ UNCHANGED s
  /\ req' = [tries |-> req.tries + 1,
             addrs |-> IF kind = "local" THEN Addresses ELSE 0]
  /\ SessionGoes(IF s.rudp THEN "rudp_init" ELSE "connect")

\* One address; without any (a PSN session whose rudp failed) the request fails.
ConnectFails(reason) ==
  LET r == IF reason = "none" THEN "request_unknown" ELSE reason
  IN IF req.addrs > 1 /\ reason # "stopped"
     THEN s' = [s EXCEPT !.reason = reason] /\ SessionGoes("connect")
     ELSE s' = [s EXCEPT !.reason = r] /\ SessionGoes("quit")

Connect ==
  /\ spc = "connect"
  /\ req' = [req EXCEPT !.addrs = IF @ = 0 THEN 0 ELSE @ - 1]
  /\ \/ req.addrs = 0 /\ ConnectFails(s.reason)
     \/ req.addrs > 0 /\ s.pipe /\ ConnectFails("stopped")
     \/ req.addrs > 0 /\ \E r \in {"request_refused", "none"} : ConnectFails(r)
     \/ req.addrs > 0 /\ UNCHANGED s /\ SessionGoes("response")
     \/ req.addrs > 0 /\ LeaveAs("request_unknown", "quit")    \* send fails

\* INIT and COOKIE over rudp, blocking and with state_mutex held
RudpInit ==
  /\ spc = "rudp_init"
  /\ UNCHANGED <<s, req>>
  /\ SessionGoes("response") \/ SessionGoes("quit")

Answers == {"ok", "request_unknown", "in_use", "crash", "version"} \cup Mismatch

\* The response: the first two requests may be told another version.
Answered(a) ==
  \/ a = "ok" /\ req' = NoRequest /\ UNCHANGED s /\ SessionGoes("pause")
  \/ /\ a = "mismatch" /\ req.tries < 3
     /\ req' = [req EXCEPT !.addrs = 0] /\ UNCHANGED s /\ SessionGoes("request")
  \/ /\ a = "mismatch_unknown" /\ req.tries < 3
     /\ req' = NoRequest /\ LeaveAs("version", "quit")
  \/ a \in Mismatch /\ req.tries = 3 /\ req' = NoRequest /\ LeaveAs("version", "quit")
  \/ a \notin Mismatch \cup {"ok"} /\ req' = NoRequest /\ LeaveAs(a, "quit")

Response ==
  /\ spc = "response"
  /\ \/ \E a \in Answers : Answered(a)
     \/ s.pipe /\ ~s.rudp /\ req' = NoRequest /\ LeaveAs("stopped", "quit")

-----------------------------------------------------------------------------
(* The session thread from ctrl to the stream *)

\* The ctrl thread is started after a pause of 10 ms.
StartCtrl ==
  /\ spc = "pause"
  /\ UNCHANGED <<s, req>>
  /\ \/ SessionGoes("quit")                                \* no thread
     \/ /\ spc' = "ctrl_wait" /\ cpc' = "start"
        /\ UNCHANGED <<kind, c, msg, rpc, apc, got, quit>>

CtrlFailed == LeaveAs(IF s.reason = "none" THEN "ctrl_unknown" ELSE s.reason, "quit_ctrl")

\* LOGIN_PIN_REQUEST goes to the application.
AskForPin ==
  /\ s' = [s EXCEPT !.pinAsked = FALSE]
  /\ spc' = "pin_wait"
  /\ got' = [got EXCEPT !.asked = @ + 1]
  /\ UNCHANGED <<kind, cpc, c, msg, rpc, apc, quit>>

AfterLogin == IF s.rudp THEN "punch" ELSE "check_id"

\* Waits for the session id, a PIN request or a failure, or times out.
\* "ctrl_wait2" is the wait after a PIN: it does not look at ctrl_failed.
CtrlWait ==
  /\ spc \in {"ctrl_wait", "ctrl_wait2"}
  /\ UNCHANGED req
  /\ \/ s.stop /\ LeaveAs("stopped", "quit_ctrl")
     \/ ~s.stop /\ s.failed /\ spc = "ctrl_wait" /\ CtrlFailed
     \/ /\ ~s.stop /\ (s.failed => spc = "ctrl_wait2")
        /\ \/ s.pinAsked /\ AskForPin
           \/ ~s.pinAsked /\ UNCHANGED s /\ SessionGoes(AfterLogin)

\* Mutant: the predicate of the wait forgets should_stop.
PinWait_NoStop ==
  /\ spc = "pin_wait"
  /\ UNCHANGED req
  /\ \/ s.failed /\ CtrlFailed
     \/ ~s.failed /\ s.pin /\ UNCHANGED s /\ SessionGoes("forward_pin")

PinWait ==
  /\ spc = "pin_wait"
  /\ UNCHANGED req
  /\ \/ s.stop /\ LeaveAs("stopped", "quit_ctrl")
     \/ ~s.stop /\ s.failed /\ CtrlFailed
     \/ ~s.stop /\ ~s.failed /\ s.pin /\ UNCHANGED s /\ SessionGoes("forward_pin")

\* chiaki_ctrl_set_login_pin takes notif_mutex while state_mutex is held.
ForwardPin ==
  /\ spc = "forward_pin" /\ ~NotifHeld
  /\ c' = [c EXCEPT !.pin = TRUE, !.pipe = TRUE]
  /\ s' = [s EXCEPT !.pin = FALSE]
  /\ spc' = "ctrl_wait2"
  /\ UNCHANGED <<kind, req, cpc, msg, rpc, apc, got, quit>>

\* Offer and hole for the data connection, with state_mutex held
PunchHole ==
  /\ spc = "punch"
  /\ UNCHANGED <<s, req>>
  /\ SessionGoes("punched") \/ SessionGoes("quit_ctrl")

Punched ==
  /\ spc = "punched"
  /\ UNCHANGED req
  /\ \/ s.stop /\ LeaveAs("stopped", "quit_ctrl")
     \/ ~s.stop /\ UNCHANGED s /\ SessionGoes("check_id")

\* Without a session id state_mutex is given up to set a fallback.
CheckId ==
  /\ spc = "check_id"
  /\ UNCHANGED <<s, req>>
  /\ SessionGoes(IF s.sid THEN "senkusha" ELSE "fallback")

Fallback ==
  /\ spc = "fallback"
  /\ UNCHANGED req
  /\ \/ s' = [s EXCEPT !.sid = TRUE] /\ SessionGoes("features")
     \/ CtrlFailed

\* ctrl_enable_features on the session thread: sends without notif_mutex
Features == spc = "features" /\ UNCHANGED <<s, req>> /\ SessionGoes("senkusha")

\* The link test; a failure of it only means default values.
Senkusha ==
  /\ spc = "senkusha"
  /\ UNCHANGED req
  /\ \/ s.stop /\ LeaveAs("stopped", "quit_ctrl")
     \/ ~s.stop /\ UNCHANGED s /\ SessionGoes("quit_ctrl")   \* init or switch message
     \/ ~s.stop /\ ~s.failed /\ UNCHANGED s /\ SessionGoes(IF s.rudp THEN "switch_wait" ELSE "ecdh")

\* A stop that ends this wait is not seen: the missing switch is checked first.
SwitchWait ==
  /\ spc = "switch_wait"
  /\ UNCHANGED req
  /\ \/ ~s.switched /\ UNCHANGED s /\ SessionGoes("quit_ctrl")
     \/ s.switched /\ s.stop /\ LeaveAs("stopped", "quit_ctrl")
     \/ s.switched /\ ~s.stop /\ UNCHANGED s /\ SessionGoes("ecdh")

StartStream ==
  /\ spc = "ecdh"
  /\ UNCHANGED <<s, req>>
  /\ SessionGoes("stream") \/ SessionGoes("quit_ctrl")

\* chiaki_stream_connection_run; SUCCESS and CANCELED only after a stop
StreamEnds ==
  /\ spc = "stream"
  /\ UNCHANGED req
  /\ \/ \E r \in {"shutdown", "disconnected", "stream_unknown"} : LeaveAs(r, "quit_ctrl")
     \/ s.stop /\ LeaveAs("stopped", "quit_ctrl")

\* chiaki_ctrl_stop, chiaki_ctrl_join
StopCtrl ==
  /\ spc = "quit_ctrl" /\ ~NotifHeld
  /\ c' = [c EXCEPT !.stop = TRUE, !.pipe = TRUE]
  /\ spc' = "join_ctrl"
  /\ UNCHANGED <<kind, s, req, cpc, msg, rpc, apc, got, quit>>

\* Mutant: the ctrl thread is stopped and not joined.
JoinCtrl_NoWait == spc = "join_ctrl" /\ UNCHANGED <<s, req>> /\ SessionGoes("quit")

JoinCtrl ==
  /\ spc = "join_ctrl" /\ cpc \in {"none", "done"}
  /\ UNCHANGED <<s, req>> /\ SessionGoes("quit")

Quit ==
  /\ spc = "quit"
  /\ spc' = "done" /\ quit' = Append(quit, s.reason)
  /\ UNCHANGED <<kind, s, req, cpc, c, msg, rpc, apc, got>>

-----------------------------------------------------------------------------
(* The ctrl thread *)

CtrlMoves(to, m) == cpc' = to /\ msg' = m /\ UNCHANGED <<kind, spc, req, rpc, apc, quit>>
CtrlGoes(to) == CtrlMoves(to, NoMessage)
\* ctrl_failed takes state_mutex, with notif_mutex held.
Fails(reason, then) == CtrlMoves("fail", [what |-> reason, then |-> then])

CtrlReports ==
  /\ cpc = "fail" /\ ~StateHeld
  /\ s' = [s EXCEPT !.failed = TRUE, !.reason = msg.what]
  /\ UNCHANGED <<c, got>>
  /\ IF msg.then = "connect_failed" THEN Fails("ctrl_connect_failed", "done")
     ELSE CtrlGoes(msg.then)

CtrlBegin ==
  /\ cpc = "start"
  /\ UNCHANGED <<s, c, got>>
  /\ \/ s.rudp /\ CtrlGoes("header")
     \/ ~s.rudp /\ CtrlGoes("connecting")
     \/ ~s.rudp /\ Fails("ctrl_unknown", "connect_failed")     \* no socket

\* stop_pipe_connect, without the mutex.  ctrl_thread_func overwrites the reason.
CtrlConnect ==
  /\ cpc = "connecting"
  /\ UNCHANGED <<s, c, got>>
  /\ \/ c.pipe /\ Fails("ctrl_connect_failed", "done")
     \/ \E r \in {"ctrl_refused", "ctrl_unknown"} : Fails(r, "connect_failed")
     \/ CtrlGoes("header")

\* The answer to the HTTP request comes, or fails in time or content.
HeaderAnswered ==
  /\ UNCHANGED c
  /\ CtrlGoes("select") \/ Fails("ctrl_connect_failed", "done")

\* The HTTP request.  Where it cannot be sent, and where rudp fails, the error
\* code is SUCCESS: the thread goes on, without a socket in the first case.
CtrlHeader ==
  /\ cpc = "header"
  /\ UNCHANGED <<s, got>>
  /\ \/ HeaderAnswered
     \/ ~s.rudp /\ c' = [c EXCEPT !.deaf = TRUE] /\ CtrlGoes("select")

\* select returns: the notification pipe goes first.
CtrlWoken ==
  /\ cpc = "select" /\ c.pipe
  /\ UNCHANGED <<s, c, got>> /\ CtrlGoes("woken")

Readable == cpc = "select" /\ ~c.pipe /\ ~c.deaf

CtrlReceive(m) ==
  /\ Readable /\ got.messages < MaxMessages
  /\ got' = [got EXCEPT !.messages = @ + 1]
  /\ UNCHANGED <<s, c>> /\ CtrlMoves("handle", [what |-> m, then |-> "select"])

\* The end of the connection: an orderly one is not reported; the FINISH of
\* rudp is, but the loop goes on.
CtrlClosed ==
  /\ Readable
  /\ UNCHANGED <<s, c, got>>
  /\ \/ ~s.rudp /\ CtrlGoes("done")
     \/ Fails("ctrl_unknown", "done")
     \/ s.rudp /\ ~s.failed /\ Fails("ctrl_unknown", "select")

\* Mutants: the entered PIN is kept; a PIN is sent before the queue is looked at.
CtrlDrain_KeepsPin ==
  /\ cpc = "woken"
  /\ c' = [c EXCEPT !.queue = 0, !.pipe = @ /\ ~c.pin /\ (c.stop \/ c.queue = 0)]
  /\ got' = [got EXCEPT !.sent = IF c.pin /\ @ < MaxCalls THEN @ + 1 ELSE @]
  /\ UNCHANGED s
  /\ CtrlGoes(IF c.stop /\ ~c.pin THEN "done" ELSE "select")
CtrlDrain_PinFirst ==
  /\ cpc = "woken"
  /\ c' = [c EXCEPT !.queue = IF c.pin THEN @ ELSE 0, !.pin = FALSE,
                    !.pipe = @ /\ ~c.pin /\ (c.stop \/ c.queue = 0)]
  /\ got' = [got EXCEPT !.sent = @ + IF c.pin THEN 1 ELSE 0]
  /\ UNCHANGED s
  /\ CtrlGoes(IF c.stop /\ ~c.pin THEN "done" ELSE "select")

\* What is queued is sent; a PIN is sent and then nothing else is looked at.
CtrlDrain ==
  /\ cpc = "woken"
  /\ c' = [c EXCEPT !.queue = 0, !.pin = FALSE,
                    !.pipe = @ /\ ~c.pin /\ (c.stop \/ c.queue = 0)]
  /\ got' = [got EXCEPT !.sent = @ + IF c.pin THEN 1 ELSE 0]
  /\ UNCHANGED s
  /\ CtrlGoes(IF c.stop /\ ~c.pin THEN "done" ELSE "select")

-----------------------------------------------------------------------------
(* ctrl_message_received: one action per handler *)

Handles(m) == cpc = "handle" /\ msg.what = m

SessionIdReceived ==
  /\ Handles("session_id") /\ ~StateHeld
  /\ s' = [s EXCEPT !.sid = TRUE]
  /\ UNCHANGED <<c, got>> /\ CtrlGoes("send")          \* enable_features

HeartbeatReceived ==
  Handles("heartbeat") /\ UNCHANGED <<s, c, got>> /\ CtrlGoes("send")

PinRequestReceived ==
  /\ Handles("pin_request") /\ ~StateHeld
  /\ c' = [c EXCEPT !.pinAsked = TRUE]
  /\ UNCHANGED got
  /\ \/ s.sid /\ UNCHANGED s /\ Fails("ctrl_unknown", "select")
     \/ ~s.sid /\ s' = [s EXCEPT !.pinAsked = TRUE] /\ CtrlGoes("select")

LoginReceived ==
  /\ UNCHANGED got /\ CtrlGoes("select")
  /\ \/ Handles("login_ok") /\ c' = [c EXCEPT !.pinAsked = FALSE] /\ UNCHANGED s
     \/ Handles("pin_incorrect") /\ ~c.pinAsked /\ UNCHANGED <<s, c>>
     \/ /\ Handles("pin_incorrect") /\ c.pinAsked /\ ~StateHeld
        /\ s' = [s EXCEPT !.pinAsked = TRUE] /\ UNCHANGED c

SwitchReceived ==
  /\ Handles("switch") /\ (s.switched \/ ~StateHeld)
  /\ s' = [s EXCEPT !.switched = TRUE]
  /\ UNCHANGED <<c, got>> /\ CtrlGoes("select")

SendDone == cpc = "send" /\ UNCHANGED <<s, c, got>> /\ CtrlGoes("select")

-----------------------------------------------------------------------------
(* The application *)

AppGoes(to) == apc' = to /\ UNCHANGED <<kind, spc, req, cpc, msg, rpc, quit>>

Stop ==
  /\ apc = "idle" /\ ~StateHeld /\ ~s.stop /\ spc # "done"
  /\ s' = [s EXCEPT !.stop = TRUE, !.pipe = TRUE]
  /\ got' = [got EXCEPT !.stop = TRUE]
  /\ UNCHANGED c /\ AppGoes("idle")

Call == apc = "idle" /\ spc # "done" /\ got.calls < MaxCalls
        /\ got' = [got EXCEPT !.calls = @ + 1]

SetLoginPin ==
  /\ Call /\ ~StateHeld
  /\ s' = [s EXCEPT !.pin = TRUE]
  /\ UNCHANGED c /\ AppGoes("idle")

\* chiaki_ctrl_send_message: the pipe is written after the unlock.
SendMessage ==
  /\ Call /\ ~NotifHeld
  /\ c' = [c EXCEPT !.queue = @ + 1]
  /\ UNCHANGED s /\ AppGoes("pipe")

WritePipe ==
  /\ apc = "pipe"
  /\ c' = [c EXCEPT !.pipe = TRUE]
  /\ UNCHANGED <<s, got>> /\ AppGoes("idle")

\* chiaki_session_go_home sends on the thread of the application.
GoHome ==
  \/ Call /\ spc = "stream" /\ kind # "cloud" /\ UNCHANGED <<s, c>> /\ AppGoes("go_home")
  \/ apc = "go_home" /\ UNCHANGED <<s, c, got>> /\ AppGoes("idle")

-----------------------------------------------------------------------------
SessionThread ==
  \/ Begin \/ RegistWaitEnds \/ RegistJoin \/ Request \/ Connect \/ RudpInit
  \/ Response \/ StartCtrl \/ CtrlWait \/ PinWait \/ ForwardPin \/ PunchHole
  \/ Punched \/ CheckId \/ Fallback \/ Features \/ Senkusha \/ SwitchWait
  \/ StartStream \/ StopCtrl \/ JoinCtrl \/ Quit
CtrlThread ==
  \/ CtrlReports \/ CtrlBegin \/ CtrlConnect \/ CtrlHeader \/ CtrlWoken
  \/ CtrlDrain \/ SessionIdReceived \/ HeartbeatReceived \/ PinRequestReceived
  \/ LoginReceived \/ SwitchReceived \/ SendDone
RegistThread == RegistFinishes \/ RegistReports
Console == CtrlClosed \/ \E m \in Messages : CtrlReceive(m)
Application == Stop \/ SetLoginPin \/ SendMessage \/ WritePipe \/ GoHome

Next == SessionThread \/ StreamEnds \/ CtrlThread \/ RegistThread \/ Console \/ Application
Spec == Init /\ [][Next]_vars

\* Threads run, waits with a timeout end, a stopped stream connection returns.
\* A ctrl thread that is woken again and again releases its mutex in every turn,
\* and the session thread gets it some time.
Fairness ==
  /\ WF_vars(SessionThread) /\ WF_vars(StreamEnds /\ s.stop)
  /\ SF_vars(ForwardPin \/ StopCtrl)
  /\ WF_vars(CtrlThread) /\ WF_vars(RegistThread) /\ WF_vars(WritePipe)
FairSpec == Spec /\ Fairness

-----------------------------------------------------------------------------
(* Properties *)

\* No session is running: where several components share a run.
AtRest ==
  /\ kind = "local" /\ spc = "done" /\ cpc = "none" /\ rpc = "none" /\ apc = "idle"
  /\ s = NoSession /\ req = NoRequest /\ c = NoCtrl /\ msg = NoMessage
  /\ got = NothingYet /\ quit = <<>>

\* The QUIT event comes once, and after it no thread of the session calls back:
\* the application frees the session when it gets it (session_thread_func). A
\* session reported as STOPPED was stopped, or its registration ended it.
QuitIsLast ==
  quit # <<>> =>
    /\ Len(quit) = 1 /\ cpc \in {"none", "done"} /\ rpc \in {"none", "done"}
    /\ quit = <<"stopped">> => got.stop \/ kind = "regist" \/ (s.stop /\ ~s.regist)

\* The console is never sent more PINs than the user was asked for, however the
\* console repeats its request and the user his answer (login loop, ctrl.c).
PinsAnswerRequests == got.sent + (IF c.pin THEN 1 ELSE 0) <= got.asked

\* The threads wait for each other: regist_fini joins a thread that is about to
\* take state_mutex (session.c:616), and a PIN is forwarded while the ctrl thread
\* wants state_mutex (session.c:757).
LockUp ==
  \/ spc = "regist_join" /\ rpc \in {"success", "failure"}
  \/ spc = "forward_pin" /\ cpc \in {"fail", "handle"}
\* The pipe was reset for a PIN, with a stop pending (ctrl.c:393).
StopLost == cpc = "select" /\ c.stop /\ ~c.pipe

\* chiaki_session_stop ends the session from every phase, except for a lock-up
\* or a stop that ctrl lost.
StopEndsSession == got.stop ~> (quit # <<>> \/ LockUp \/ StopLost)

\* A message given to chiaki_ctrl_send_message is sent while ctrl lives, though
\* the pipe that announces it is reset by others.
QueueIsSent == c.queue > 0 ~> (c.queue = 0 \/ cpc \in {"none", "done"} \/ LockUp)

\* ctrl_message_send is only used by one thread at a time (the comment in ctrl.c
\* above chiaki_ctrl_connect_microphone).
Sending ==
  (IF spc = "features" THEN {"session"} ELSE {})
    \cup (IF cpc = "send" \/ (cpc = "woken" /\ (c.queue > 0 \/ c.pin)) THEN {"ctrl"} ELSE {})
    \cup (IF apc = "go_home" THEN {"application"} ELSE {})
NoConcurrentSends == Cardinality(Sending) <= 1

=============================================================================
