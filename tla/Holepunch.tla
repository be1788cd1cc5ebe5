----------------------------- MODULE Holepunch -----------------------------
(* The holepunch session (lib/src/remote/holepunch.c): the thread of the     *)
(* application that creates, starts and punches, the websocket thread that    *)
(* brings the notifications of PSN, the cancel of the application, and PSN    *)
(* with the console behind it. Choosing the candidate is in Candidates.       *)
EXTENDS Naturals, Sequences, FiniteSets

CONSTANTS
  Repeats,   \* how often the console repeats an offer
  ComingMax, \* bound: notifications on their way at once
  Cancels    \* bound: cancels of the application

VARIABLES
  at,        \* where the application's thread is
  op,        \* the call it is in: an index of Calls
  flags,     \* session->state
  locked,    \* state_mutex is held (the websocket thread holds it for single steps only)
  notifs,    \* ws_notification_queue
  took,      \* the notification just taken
  reqId,     \* local_req_id
  ourReq,    \* req_id of the offer we sent
  offer,     \* our_offer_msg is there
  mainStop,  \* main_should_stop
  wsStop,    \* ws_thread_should_stop and the stop of select_pipe
  ws,        \* where the websocket thread is
  wsOpen,    \* ws_open
  heldNotif, \* what the websocket thread has received
  coming,    \* notifications between PSN and the websocket
  console,   \* the console's side: offers sent, acknowledged, our messages heard
  reused,    \* a notification was taken for two things
  mixed,     \* an offer was taken for the other connection
  cancels

vars == <<at, op, flags, locked, notifs, took, reqId, ourReq, offer, mainStop, wsStop, ws, wsOpen,
          heldNotif, coming, console, reused, mixed, cancels>>
mine == <<flags, locked, notifs, took, reqId, ourReq, offer, mainStop, reused, mixed>>
theirs == <<wsStop, ws, wsOpen, heldNotif, cancels>>
psn == <<coming, console>>

Calls == <<"create", "offer", "start", "punch", "offer", "punch">>
Port == IF op <= 4 THEN "ctrl" ELSE "data"
Note(type) == [type |-> type, port |-> "", req |-> 0, used |-> FALSE]
Said(action, port, req) == [type |-> action, port |-> port, req |-> req, used |-> FALSE]
Messages == {"OFFER", "RESULT", "ACCEPT", "TERMINATE"} \* SESSION_MESSAGE_CREATED
None == Note("none")

(* chiaki_holepunch_session_init.                                            *)
Init ==
  /\ at = "between" /\ op = 0
  /\ flags = {} /\ locked = FALSE /\ notifs = <<>> /\ took = None
  /\ reqId = 1 /\ ourReq = 0 /\ offer = FALSE
  /\ mainStop = FALSE /\ wsStop = FALSE
  /\ ws = "none" /\ wsOpen = FALSE /\ heldNotif = None
  /\ coming = <<>> /\ reused = FALSE /\ mixed = FALSE /\ cancels = 0
  /\ console = [offers |-> [p \in {"ctrl", "data"} |-> 0], acked |-> {}, heard |-> {}, replied |-> {}, left |-> FALSE]

Go(to) == at' = to
Return(ok) == at' = IF ok THEN "between" ELSE "failed"

------------------------------------------------------------------------------
(* The next call, in the order of StreamSession::ConnectPsnConnection, and on *)
(* the session thread for the second connection.                              *)
Begin ==
  /\ at = "between" /\ op < Len(Calls)
  /\ op' = op + 1
  /\ Go(CASE Calls[op + 1] = "create" -> "fqdn"
          [] Calls[op + 1] = "offer" -> "makeOffer"
          [] Calls[op + 1] = "start" -> "startGuard"
          [] OTHER -> "punchGuard")
  /\ UNCHANGED <<mine, theirs, psn>>

(* Where a step goes that has no choice of its own.                          *)
After ==
  [fqdn |-> "stop1", stop1 |-> "spawn", stop2 |-> "httpCreate", httpCreate |-> "stop3", stop3 |-> "waitCreated",
   httpStart |-> "stop4", stop4 |-> "waitStarted",
   httpAck |-> "stop5", stop5 |-> "sendOffer", stop6 |-> "sendAccept", sendAccept |-> "stop7",
   stop7 |-> "waitAccept", httpResult |-> "stop8", stop8 |-> "establish", stop9 |-> "lastRequests"]

(* A check of main_should_stop: whoever sees the flag takes it.              *)
CheckStop ==
  /\ at \in {"stop1", "stop2", "stop3", "stop4", "stop5", "stop6", "stop7", "stop8", "stop9"}
  /\ IF mainStop THEN Return(FALSE) ELSE Go(After[at])
  /\ mainStop' = FALSE
  /\ offer' = (offer /\ ~(mainStop /\ Calls[op] = "punch")) \* offer_cleanup
  /\ reqId' = IF at = "stop7" /\ ~mainStop THEN reqId + 1 ELSE reqId
  /\ UNCHANGED <<op, flags, locked, notifs, took, ourReq, reused, mixed, theirs, psn>>

(* What PSN and the console make of a request. Nothing is kept for a socket   *)
(* that is closed.                                                           *)
Listening == ws \in {"loop", "got"}
Arrive(new) == IF Listening THEN /\ Len(coming) + Len(new) <= ComingMax
                                 /\ coming' = coming \o new
               ELSE UNCHANGED coming
Hear(what) == console' = [console EXCEPT !.heard = @ \cup {what}]

(* What a request that went through has done.                                *)
Created == \/ Arrive(<<Note("SESSION_CREATED"), Note("MEMBER_CREATED")>>)
           \/ Arrive(<<Note("MEMBER_CREATED"), Note("SESSION_CREATED")>>)
Started == \/ Arrive(<<Note("MEMBER_CREATED"), Note("CUSTOM_DATA1")>>)
           \/ Arrive(<<Note("CUSTOM_DATA1"), Note("MEMBER_CREATED")>>)

Effect ==
  \/ at \in {"fqdn", "httpResult"} /\ UNCHANGED psn
  \/ at = "httpCreate" /\ Created /\ UNCHANGED console
  \/ at = "httpStart" /\ Started /\ Hear(<<"START", "ctrl", 0>>)
  \/ at = "httpAck" /\ console' = [console EXCEPT !.acked = @ \cup {took.port}] /\ UNCHANGED coming
  \/ at = "sendAccept" /\ Hear(<<"ACCEPT", Port, reqId>>) /\ UNCHANGED coming

(* A request over HTTP whose failure ends the call.                          *)
Request ==
  /\ at \in {"fqdn", "httpCreate", "httpStart", "httpAck", "sendAccept", "httpResult"}
  /\ \/ /\ Effect /\ Go(After[at])
        /\ flags' = IF at = "httpStart" THEN flags \cup {"DATA_SENT"} ELSE flags
        /\ UNCHANGED offer
     \/ Return(FALSE) /\ offer' = FALSE /\ UNCHANGED <<flags, psn>>
  /\ UNCHANGED <<op, locked, notifs, took, reqId, ourReq, mainStop, reused, mixed, theirs>>

------------------------------------------------------------------------------
(* chiaki_holepunch_session_create: the websocket thread is started and WS_OPEN *)
(* waited for; each wakeup looks at main_should_stop.                         *)
Spawn ==
  /\ at = "spawn" /\ ws' = "connecting" /\ Go("opening")
  /\ UNCHANGED <<op, mine, wsStop, wsOpen, heldNotif, cancels, psn>>

Opening ==
  /\ at = "opening"
  /\ \/ "WS_OPEN" \in flags /\ Go("stop2") /\ UNCHANGED mainStop
     \/ mainStop /\ Return(FALSE) /\ mainStop' = FALSE
     \/ "WS_OPEN" \notin flags /\ Return(FALSE) /\ UNCHANGED mainStop \* 30 seconds
  /\ UNCHANGED <<op, flags, locked, notifs, took, reqId, ourReq, offer, reused, mixed, theirs, psn>>

(* wait_for_notification: the first notification of one of the types, without *)
(* taking it out; with none there a timeout, or a cancel seen on a wakeup.    *)
FirstOf(types) ==
  LET hits == {i \in DOMAIN notifs : notifs[i].type \in types}
  IN IF hits = {} THEN 0 ELSE CHOOSE i \in hits : \A j \in hits : i <= j

Without(i) == SubSeq(notifs, 1, i - 1) \o SubSeq(notifs, i + 1, Len(notifs))
Marked(i) == [notifs EXCEPT ![i].used = TRUE]

(* Mutant: a notification with another message is passed over, not cleared.  *)
Dropped_Kept(i) == SubSeq(notifs, i + 1, Len(notifs)) \o SubSeq(notifs, 1, i)

(* clear_notification.                                                       *)
Dropped(i) == Without(i)

TypesOf ==
  [waitCreated |-> {"SESSION_CREATED", "MEMBER_CREATED"}, waitStarted |-> {"MEMBER_CREATED", "CUSTOM_DATA1"},
   waitOffer |-> Messages, waitAck |-> Messages, waitAccept |-> Messages]

(* Mutant: the wait goes back to sleep when it is cancelled.                 *)
WaitEnds_SleepsOn ==
  /\ at \in DOMAIN TypesOf /\ FirstOf(TypesOf[at]) = 0 /\ ~mainStop
  /\ Return(FALSE)
  /\ offer' = (offer /\ Calls[op] # "punch")
  /\ UNCHANGED <<op, flags, locked, notifs, took, reqId, ourReq, mainStop, reused, mixed, theirs, psn>>

WaitEnds ==
  /\ at \in DOMAIN TypesOf /\ FirstOf(TypesOf[at]) = 0
  /\ Return(FALSE)
  /\ mainStop' \in {mainStop, FALSE}
  /\ offer' = (offer /\ Calls[op] # "punch")
  /\ UNCHANGED <<op, flags, locked, notifs, took, reqId, ourReq, reused, mixed, theirs, psn>>

(* create and start take state_mutex, note what came and ask PSN for the      *)
(* session while they hold it.                                                *)
TakeNote ==
  /\ at \in {"waitCreated", "waitStarted"} /\ ~locked
  /\ LET i == FirstOf(TypesOf[at]) IN
       /\ i # 0
       /\ took' = notifs[i]
       /\ notifs' = Without(i)
  /\ locked' = TRUE
  /\ Go(IF at = "waitCreated" THEN "created" ELSE "started")
  /\ UNCHANGED <<op, flags, reqId, ourReq, offer, mainStop, reused, mixed, theirs, psn>>

Joined == IF took.type = "MEMBER_CREATED" THEN IF at = "created" THEN "CLIENT_JOINED" ELSE "CONSOLE_JOINED"
          ELSE took.type
Complete(f) == IF at = "created" THEN {"SESSION_CREATED", "CLIENT_JOINED"} \subseteq f
               ELSE {"CONSOLE_JOINED", "CUSTOM_DATA1"} \subseteq f

(* A bad answer, or a cancel, ends the call; create leaves the mutex locked,  *)
(* and so does start when it is cancelled.                                    *)
NoteEnds ==
  /\ at \in {"created", "started"}
  /\ \/ Return(FALSE) /\ locked' = (at = "created") /\ UNCHANGED <<flags, mainStop>>
     \/ mainStop /\ Return(FALSE) /\ mainStop' = FALSE /\ flags' = flags \cup {Joined} /\ UNCHANGED locked
     \/ /\ ~mainStop
        /\ flags' = flags \cup {Joined} /\ locked' = FALSE
        /\ IF Complete(flags \cup {Joined}) THEN Return(TRUE)
           ELSE Go(IF at = "created" THEN "waitCreated" ELSE "waitStarted")
        /\ UNCHANGED mainStop
  /\ UNCHANGED <<op, notifs, took, reqId, ourReq, offer, reused, mixed, theirs, psn>>

------------------------------------------------------------------------------
(* holepunch_session_create_offer: sockets, addresses and one request number. *)
MakeOffer ==
  /\ at = "makeOffer"
  /\ reqId' = reqId + 1
  /\ \E ok \in BOOLEAN : offer' = ok /\ Return(ok)
  /\ UNCHANGED <<op, flags, locked, notifs, took, ourReq, mainStop, reused, mixed, theirs, psn>>

(* chiaki_holepunch_session_start.                                           *)
StartGuard ==
  /\ at = "startGuard" /\ ~locked
  /\ IF "SESSION_CREATED" \in flags THEN Go("httpStart") ELSE Return(FALSE)
  /\ UNCHANGED <<op, mine, theirs, psn>>

(* chiaki_holepunch_session_punch_hole.                                      *)
PunchGuard ==
  /\ at = "punchGuard" /\ ~locked
  /\ LET ready == IF Port = "ctrl" THEN "CUSTOM_DATA1" \in flags ELSE "CTRL_ESTABLISHED" \in flags IN
       /\ IF ready THEN Go("waitOffer") ELSE Return(FALSE)
       /\ offer' = (offer /\ ready)
  /\ UNCHANGED <<op, flags, locked, notifs, took, reqId, ourReq, mainStop, reused, mixed, theirs, psn>>

Wanted == CASE at = "waitOffer" -> "OFFER" [] at = "waitAck" -> "RESULT" [] OTHER -> "ACCEPT"

(* wait_for_session_message: a cancel, TERMINATE and a message that cannot be *)
(* parsed end the call, other messages are cleared. The message that is taken *)
(* stays in the queue, and so does a RESULT for another request: then         *)
(* wait_for_session_message_ack finds it again at once, for ever.             *)
TakeMessage ==
  /\ at \in {"waitOffer", "waitAck", "waitAccept"}
  /\ LET i == FirstOf(Messages)
         n == notifs[i] IN
       /\ i # 0
       /\ \/ /\ mainStop \/ n.type = "TERMINATE"
             /\ Return(FALSE)
             /\ mainStop' = FALSE /\ offer' = FALSE
             /\ UNCHANGED <<notifs, took, reused, mixed>>
          \/ /\ ~mainStop /\ n.type \notin {"TERMINATE", Wanted}
             /\ notifs' = Dropped(i)
             /\ UNCHANGED <<at, took, offer, mainStop, reused, mixed>>
          \/ /\ ~mainStop /\ n.type = Wanted
             /\ at = "waitAck" => n.req = ourReq
             /\ notifs' = Marked(i) /\ took' = n
             /\ reused' = (reused \/ n.used)
             /\ mixed' = (mixed \/ (at = "waitOffer" /\ n.port # Port))
             /\ Go(CASE at = "waitOffer" -> "offerReceived" [] at = "waitAck" -> "checking" [] OTHER -> "httpResult")
             /\ UNCHANGED <<offer, mainStop>>
  /\ UNCHANGED <<op, flags, locked, reqId, ourReq, theirs, psn>>

OfferReceived ==
  /\ at = "offerReceived" /\ ~locked
  /\ flags' = flags \cup {IF Port = "ctrl" THEN "CTRL_OFFER_RECEIVED" ELSE "DATA_OFFER_RECEIVED"}
  /\ Go("httpAck")
  /\ UNCHANGED <<op, locked, notifs, took, reqId, ourReq, offer, mainStop, reused, mixed, theirs, psn>>

(* Our offer; that sending it failed is not noticed.                         *)
SendOffer ==
  /\ at = "sendOffer"
  /\ ourReq' = reqId /\ reqId' = reqId + 1
  /\ Hear(<<"OFFER", Port, reqId>>) \/ UNCHANGED console
  /\ Go("waitAck")
  /\ UNCHANGED <<op, flags, locked, notifs, took, offer, mainStop, reused, mixed, theirs, coming>>

(* check_candidates (module Candidates).                                     *)
Checking ==
  /\ at = "checking"
  /\ \/ Go("stop6") /\ UNCHANGED offer
     \/ Return(FALSE) /\ offer' = FALSE
  /\ UNCHANGED <<op, flags, locked, notifs, took, reqId, ourReq, mainStop, reused, mixed, theirs, psn>>

Establish ==
  /\ at = "establish" /\ ~locked
  /\ flags' = flags \cup {IF Port = "ctrl" THEN "CTRL_ESTABLISHED" ELSE "DATA_ESTABLISHED"}
  /\ Go("stop9")
  /\ UNCHANGED <<op, locked, notifs, took, reqId, ourReq, offer, mainStop, reused, mixed, theirs, psn>>

(* receive_request_send_response_ps until a second passes without a request,  *)
(* the select pipe is stopped or the socket fails; then cleanup.              *)
LastRequests ==
  /\ at = "lastRequests"
  /\ Return(TRUE) \/ Return(FALSE)
  /\ offer' = FALSE
  /\ UNCHANGED <<op, flags, locked, notifs, took, reqId, ourReq, mainStop, reused, mixed, theirs, psn>>

------------------------------------------------------------------------------
(* chiaki_holepunch_main_thread_cancel.                                      *)
Cancel ==
  /\ cancels < Cancels /\ at # "done"
  /\ cancels' = cancels + 1 /\ mainStop' = TRUE
  /\ wsStop' \in {wsStop, TRUE}
  /\ UNCHANGED <<at, op, flags, locked, notifs, took, reqId, ourReq, offer, reused, mixed, ws, wsOpen, heldNotif, psn>>

(* chiaki_holepunch_session_fini: the websocket thread is told to stop, the    *)
(* session deleted if the socket is open, the thread joined.                  *)
Fini ==
  /\ at = "failed" \/ (at = "between" /\ op \in {0, 4, Len(Calls)})
  /\ wsStop' = TRUE /\ Go("finiDelete")
  /\ UNCHANGED <<op, mine, ws, wsOpen, heldNotif, cancels, psn>>

FiniDelete ==
  /\ at = "finiDelete"
  /\ \/ ~wsOpen /\ Go("finiJoin") /\ UNCHANGED coming
     \/ wsOpen /\ Go("finiWait") /\ (Arrive(<<Note("SESSION_DELETED")>>) \/ UNCHANGED coming)
  /\ UNCHANGED <<op, mine, theirs, console>>

Deletions == {"MEMBER_DELETED", "SESSION_DELETED"}

(* The deletion is waited for three seconds; state_mutex is taken to note it. *)
FiniWait ==
  /\ at = "finiWait"
  /\ \/ FirstOf(Deletions) = 0 /\ mainStop' \in {mainStop, FALSE} /\ UNCHANGED flags
     \/ FirstOf(Deletions) # 0 /\ ~locked /\ flags' = flags \cup {"DELETED"} /\ UNCHANGED mainStop
  /\ Go("finiJoin")
  /\ UNCHANGED <<op, locked, notifs, took, reqId, ourReq, offer, reused, mixed, theirs, psn>>

FiniJoin ==
  /\ at = "finiJoin" /\ ws \in {"none", "ended"}
  /\ Go("done")
  /\ UNCHANGED <<op, mine, theirs, psn>>

------------------------------------------------------------------------------
(* websocket_thread_func: connect, tell the waiting create.                  *)
WsConnect ==
  /\ ws = "connecting"
  /\ \/ ws' = "opened" /\ wsOpen' = TRUE
     \/ ws' = "ended" /\ UNCHANGED wsOpen
  /\ UNCHANGED <<at, op, mine, wsStop, heldNotif, cancels, psn>>

WsOpened ==
  /\ ws = "opened" /\ ~locked
  /\ flags' = flags \cup {"WS_OPEN"} /\ ws' = "loop"
  /\ UNCHANGED <<at, op, locked, notifs, took, reqId, ourReq, offer, mainStop, reused, mixed,
                 wsStop, wsOpen, heldNotif, cancels, psn>>

(* The loop ends when it is told to, when the server closes, or when a pong   *)
(* is five seconds late.                                                      *)
WsLeave ==
  /\ ws = "loop"
  /\ ws' = "ended" /\ wsOpen' = FALSE /\ coming' = <<>>
  /\ UNCHANGED <<at, op, mine, wsStop, heldNotif, cancels, console>>

WsReceive ==
  /\ ws = "loop" /\ ~wsStop /\ coming # <<>>
  /\ heldNotif' = Head(coming) /\ coming' = Tail(coming)
  /\ ws' = "got"
  /\ UNCHANGED <<at, op, mine, wsStop, wsOpen, cancels, console>>

(* Between the first offer and the end of the ctrl connection, and after the  *)
(* offer for data, offers are acknowledged here: nobody waits for them.       *)
ShouldAck ==
  \/ "CTRL_OFFER_RECEIVED" \in flags /\ "CTRL_ESTABLISHED" \notin flags
  \/ "DATA_OFFER_RECEIVED" \in flags

WsEnqueue ==
  /\ ws = "got" /\ ~locked
  /\ notifs' = Append(notifs, heldNotif)
  /\ console' = IF ShouldAck /\ heldNotif.type = "OFFER" THEN [console EXCEPT !.acked = @ \cup {heldNotif.port}] ELSE console
  /\ IF heldNotif.type = "SESSION_DELETED" THEN ws' = "ended" /\ wsOpen' = FALSE ELSE ws' = "loop" /\ UNCHANGED wsOpen
  /\ heldNotif' = None
  /\ UNCHANGED <<at, op, flags, locked, took, reqId, ourReq, offer, mainStop, reused, mixed, wsStop, cancels, coming>>

------------------------------------------------------------------------------
(* The console: an offer for each connection, again while it is not           *)
(* acknowledged; a RESULT for what we send, and an ACCEPT for our offer.      *)
ConsoleOffers(p) ==
  /\ <<"START", "ctrl", 0>> \in console.heard
  /\ p = "data" => "ctrl" \in console.replied
  /\ console.offers[p] <= Repeats /\ p \notin console.acked
  /\ Arrive(<<Said("OFFER", p, 10)>>)
  /\ console' = [console EXCEPT !.offers[p] = @ + 1]
  /\ UNCHANGED <<at, op, mine, theirs>>

ConsoleReplies ==
  \E m \in console.heard :
    /\ m[1] # "START"
    /\ Arrive(<<Said("RESULT", m[2], m[3])>> \o IF m[1] = "OFFER" THEN <<Said("ACCEPT", m[2], 20)>> ELSE <<>>)
    /\ console' = [console EXCEPT !.heard = @ \ {m}, !.replied = @ \cup {m[2]}]
    /\ UNCHANGED <<at, op, mine, theirs>>

(* The console says so when it leaves the session, or PSN closes it.         *)
ConsoleLeaves ==
  /\ \/ console.heard # {} /\ Arrive(<<Said("TERMINATE", "", 0)>>)
     \/ \E type \in {"MEMBER_DELETED", "SESSION_DELETED"} : Arrive(<<Note(type)>>)
  /\ console' = [console EXCEPT !.heard = {}, !.left = TRUE]
  /\ UNCHANGED <<at, op, mine, theirs>>

Main == \/ Begin \/ CheckStop \/ Request \/ Spawn \/ Opening \/ WaitEnds \/ TakeNote \/ NoteEnds \/ MakeOffer
        \/ StartGuard \/ PunchGuard \/ TakeMessage \/ OfferReceived \/ SendOffer \/ Checking \/ Establish
        \/ LastRequests \/ Fini \/ FiniDelete \/ FiniWait \/ FiniJoin
Ws == WsConnect \/ WsOpened \/ WsLeave \/ WsReceive \/ WsEnqueue
Console ==
  /\ "SESSION_CREATED" \in flags /\ ~console.left /\ Listening
  /\ (\E p \in {"ctrl", "data"} : ConsoleOffers(p)) \/ ConsoleReplies \/ ConsoleLeaves
Next == Main \/ Ws \/ Cancel \/ Console

(* Both threads run, and the waits of the first are bounded by timeouts. That *)
(* the server closes the socket is not assumed.                              *)
Fairness == WF_vars(Main) /\ WF_vars(Ws /\ (ws = "loop" => wsStop \/ coming # <<>>))
Spec == Init /\ [][Next]_vars /\ Fairness

(* Another part of the system moves.                                         *)
AtRest ==
  /\ at = "done" /\ op = 0
  /\ flags = {} /\ locked = FALSE /\ notifs = <<>> /\ took = None
  /\ reqId = 1 /\ ourReq = 0 /\ offer = FALSE
  /\ mainStop = FALSE /\ wsStop = TRUE
  /\ ws = "none" /\ wsOpen = FALSE /\ heldNotif = None
  /\ coming = <<>> /\ reused = FALSE /\ mixed = FALSE /\ cancels = Cancels
  /\ console = [offers |-> [p \in {"ctrl", "data"} |-> 0], acked |-> {}, heard |-> {}, replied |-> {}, left |-> FALSE]

------------------------------------------------------------------------------
(* Messages stay in the queue after they were taken, and only the next wait,  *)
(* which looks for another kind, clears them: that order keeps the offer of   *)
(* the ctrl connection from being taken again for the data connection. Only   *)
(* an offer the console repeated can be.                                      *)
OffersUsedOnce == ~reused /\ (mixed => console.offers["ctrl"] > 1)

(* fini returns: the websocket thread ends. Only when create was left with    *)
(* state_mutex locked (or start, by a cancel) the join may wait for a thread  *)
(* that waits for that mutex.                                                 *)
FiniReturns == (at = "finiDelete" /\ ~locked) ~> (at = "done")

(* An ACCEPT or RESULT is waited for no longer than the timeout, but for the  *)
(* wait that finds a RESULT for another request first.                        *)
Spins == at = "waitAck" /\ FirstOf(Messages) # 0 /\ notifs[FirstOf(Messages)].type = "RESULT"
         /\ notifs[FirstOf(Messages)].req # ourReq
WaitsAreBounded == (at \in {"waitOffer", "waitAck", "waitAccept"}) ~> (at \notin {"waitOffer", "waitAck", "waitAccept"} \/ Spins)
=============================================================================
