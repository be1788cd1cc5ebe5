-------------------------- MODULE StreamConnection --------------------------
(* chiaki_stream_connection_run (lib/src/streamconnection.c) and the threads  *)
(* it meets: the takion thread that runs its callbacks, the congestion and    *)
(* feedback threads it starts, the application that stops it and sets the     *)
(* controller state.                                                          *)
(*                                                                            *)
(* state_mutex is held by the run thread from the end of one wait to the      *)
(* start of the next, so everything between two waits is one step; parked     *)
(* says that a wait really released the mutex (its predicate was false when   *)
(* it began). Every wait is timed, and the predicate is not looked at again   *)
(* after a timeout: a timeout may coincide with what was waited for.          *)
(* Messages of the console are well formed; it answers BIG with one BANG and  *)
(* one STREAMINFO, in either order, and may disconnect at any time.           *)
CONSTANTS Reasons,    \* what remote_disconnect_reason may say
          NoReason    \* its initial NULL

ASSUME NoReasonIsNone == NoReason \notin Reasons

VARIABLES pc,           \* where the run thread is
          parked,       \* it waits on state_cond without the mutex
          state, finished, failed, stop, disconnected, reason,
          early,        \* streaminfo_early_buf is set
          crypt,        \* gkcrypt_local and gkcrypt_remote exist
          receivers,    \* audio, haptics and video receivers exist
          takion,       \* the takion connection and its thread
          congestion,   \* the congestion control thread runs
          active,       \* feedback_sender_active
          sender,       \* the feedback sender and its thread exist
          feedback,     \* who holds feedback_sender_mutex
          result,       \* what run returns
          unsent        \* answers of the console still to come

vars == <<pc, parked, state, finished, failed, stop, disconnected, reason, early, crypt,
          receivers, takion, congestion, active, sender, feedback, result, unsent>>
shared == <<stop, disconnected, reason>>
helpers == <<active, sender, feedback>>

Waits == {"connect", "bang", "info", "stream"}

Init ==
  /\ pc = "begin" /\ parked = FALSE
  /\ state = "IDLE" /\ finished = FALSE /\ failed = FALSE
  /\ stop = FALSE /\ disconnected = FALSE /\ reason = NoReason
  /\ early = FALSE /\ crypt = FALSE /\ receivers = FALSE
  /\ takion = "none" /\ congestion = FALSE
  /\ active = FALSE /\ sender = FALSE /\ feedback = "free"
  /\ result = "SUCCESS" /\ unsent = {}

(* Another part of the system is at work.                                    *)
AtRest ==
  /\ pc = "returned" /\ parked = FALSE
  /\ state = "IDLE" /\ finished = FALSE /\ failed = FALSE
  /\ stop = TRUE /\ disconnected = FALSE /\ reason = NoReason
  /\ early = FALSE /\ crypt = FALSE /\ receivers = FALSE
  /\ takion = "none" /\ congestion = FALSE
  /\ active = FALSE /\ sender = FALSE /\ feedback = "free"
  /\ result = "CANCELED" /\ unsent = {}
-----------------------------------------------------------------------------
(* Mutant: takion is closed before state_mutex is released.                  *)
Locked_WhileClosing ==
  pc \in {"startSender", "stopSender", "close"} \/ (pc \in Waits /\ ~parked)

(* The run thread holds state_mutex.                                         *)
Locked == pc \in {"startSender", "stopSender"} \/ (pc \in Waits /\ ~parked)

(* state_finished_cond_check.                                                *)
Predicate(fin) == fin \/ stop \/ disconnected

(* The run thread calls chiaki_cond_timedwait_pred.                          *)
EnterWait(p, fin) == pc' = p /\ parked' = ~Predicate(fin)

(* The wait is over, in time or not, with the mutex held again.              *)
InTime(p) == pc = p /\ Predicate(finished)
TimedOut(p) == pc = p /\ parked

(* Mutant: the label disconnect is behind the stop of the congestion thread. *)
Disconnect_KeepsCongestion(e) ==
  /\ early' = FALSE
  /\ result' = IF stop THEN "CANCELED" ELSE IF disconnected THEN "DISCONNECTED" ELSE e
  /\ pc' = "close" /\ parked' = FALSE
  /\ UNCHANGED congestion

(* From the label disconnect to close_takion.                                *)
Disconnect(e) ==
  /\ early' = FALSE
  /\ result' = IF stop THEN "CANCELED" ELSE IF disconnected THEN "DISCONNECTED" ELSE e
  /\ congestion' = FALSE
  /\ pc' = "close" /\ parked' = FALSE
-----------------------------------------------------------------------------
(* The receivers, takion and the congestion thread; takion or congestion     *)
(* control may fail to start.                                                *)
Begin ==
  /\ pc = "begin"
  /\ receivers' = TRUE
  /\ state' = "TAKION_CONNECT" /\ finished' = FALSE /\ failed' = FALSE
  /\ \/ /\ takion' = "handshake" /\ congestion' = TRUE
        /\ EnterWait("connect", FALSE)
        /\ UNCHANGED result
     \/ /\ takion' = "handshake" /\ result' = "UNKNOWN"
        /\ pc' = "close" /\ parked' = FALSE
        /\ UNCHANGED congestion
     \/ /\ result' = "UNKNOWN"
        /\ pc' = "free" /\ parked' = FALSE
        /\ UNCHANGED <<takion, congestion>>
  /\ UNCHANGED <<shared, early, crypt, helpers, unsent>>

(* CHECK_STOP(close_takion): leaves the congestion thread running and err as *)
(* the wait returned it.                                                     *)
StoppedInConnect ==
  /\ stop
  /\ \/ InTime("connect") /\ result' = "SUCCESS"
     \/ TimedOut("connect") /\ result' = "TIMEOUT"
  /\ pc' = "close" /\ parked' = FALSE
  /\ UNCHANGED <<state, finished, failed, shared, early, crypt, receivers, takion,
                 congestion, helpers, unsent>>

ConnectTimesOut ==
  /\ ~stop
  /\ TimedOut("connect")
  /\ result' = "TIMEOUT"
  /\ congestion' = FALSE
  /\ pc' = "close" /\ parked' = FALSE
  /\ UNCHANGED <<state, finished, failed, shared, early, crypt, receivers, takion,
                 helpers, unsent>>

(* Takion is connected: BIG is sent, or cannot be.                           *)
SendBig ==
  /\ ~stop
  /\ InTime("connect")
  /\ state' = "EXPECT_BANG" /\ finished' = FALSE /\ failed' = FALSE
  /\ \/ /\ unsent' = {"BANG", "STREAMINFO"}
        /\ EnterWait("bang", FALSE)
        /\ UNCHANGED <<early, congestion, result>>
     \/ /\ Disconnect("UNKNOWN")
        /\ UNCHANGED unsent
  /\ UNCHANGED <<shared, crypt, receivers, takion, helpers>>

(* stream_connection_takion_data_expect_streaminfo: ok says that header and  *)
(* replies were good.                                                        *)
StreamInfo(ok) == finished' = (ok \/ finished) /\ failed' = (~ok \/ failed)

(* After the wait for BANG: a STREAMINFO that came early is handled now.     *)
BangWaitEnds ==
  /\ InTime("bang") \/ TimedOut("bang")
  /\ IF stop \/ ~finished
     THEN /\ Disconnect("UNKNOWN")
          /\ UNCHANGED <<state, finished, failed>>
     ELSE /\ state' = "EXPECT_STREAMINFO"
          /\ early' = FALSE
          /\ \E ok \in BOOLEAN :
               /\ finished' = (early /\ ok)
               /\ failed' = (early /\ ~ok)
               /\ EnterWait("info", early /\ ok)
          /\ UNCHANGED <<congestion, result>>
  /\ UNCHANGED <<shared, crypt, receivers, takion, helpers, unsent>>

InfoWaitEnds ==
  /\ InTime("info") \/ TimedOut("info")
  /\ IF stop \/ ~finished
     THEN Disconnect("UNKNOWN")
     ELSE /\ pc' = "startSender" /\ parked' = FALSE
          /\ UNCHANGED <<early, congestion, result>>
  /\ UNCHANGED <<state, finished, failed, shared, crypt, receivers, takion, helpers, unsent>>

(* The feedback sender starts, or fails to; the mutex is released for the    *)
(* CONNECTED event.                                                          *)
StartSender ==
  /\ pc = "startSender"
  /\ feedback = "free"
  /\ \/ /\ active' = TRUE /\ sender' = TRUE
        /\ state' = "IDLE" /\ finished' = FALSE /\ failed' = FALSE
        /\ pc' = "event" /\ parked' = FALSE
        /\ UNCHANGED <<early, congestion, result>>
     \/ /\ Disconnect("UNKNOWN")
        /\ UNCHANGED <<active, sender, state, finished, failed>>
  /\ UNCHANGED <<shared, crypt, receivers, takion, feedback, unsent>>

(* The application's callback returns, or stops the session first.           *)
EventCallback ==
  /\ pc = "event"
  /\ pc' \in {"relock", "eventStop"}
  /\ UNCHANGED <<parked, state, finished, failed, shared, early, crypt, receivers, takion,
                 congestion, helpers, result, unsent>>

CallbackStops ==
  /\ pc = "eventStop"
  /\ ~Locked
  /\ stop' = TRUE
  /\ pc' = "relock"
  /\ UNCHANGED <<parked, state, finished, failed, disconnected, reason, early, crypt,
                 receivers, takion, congestion, helpers, result, unsent>>

StartStreaming ==
  /\ pc = "relock"
  /\ EnterWait("stream", finished)
  /\ UNCHANGED <<state, finished, failed, shared, early, crypt, receivers, takion,
                 congestion, helpers, result, unsent>>

(* A heartbeat is sent and the wait begins again.                            *)
Heartbeat ==
  /\ TimedOut("stream")
  /\ EnterWait("stream", finished)
  /\ UNCHANGED <<state, finished, failed, shared, early, crypt, receivers, takion,
                 congestion, helpers, result, unsent>>

StreamEnds ==
  /\ InTime("stream")
  /\ pc' = "stopSender" /\ parked' = FALSE
  /\ UNCHANGED <<state, finished, failed, shared, early, crypt, receivers, takion,
                 congestion, helpers, result, unsent>>

(* Mutant: feedback_sender_mutex is not taken.                               *)
StopSender_Unlocked ==
  /\ pc = "stopSender"
  /\ active' = FALSE /\ sender' = FALSE
  /\ Disconnect("SUCCESS")
  /\ UNCHANGED <<state, finished, failed, shared, crypt, receivers, takion, feedback, unsent>>

StopSender ==
  /\ pc = "stopSender"
  /\ feedback = "free"
  /\ active' = FALSE /\ sender' = FALSE
  /\ Disconnect("SUCCESS")
  /\ UNCHANGED <<state, finished, failed, shared, crypt, receivers, takion, feedback, unsent>>

(* chiaki_takion_close joins the takion thread.                              *)
CloseTakion ==
  /\ pc = "close"
  /\ takion = "ended"
  /\ takion' = "closed"
  /\ pc' = "free"
  /\ UNCHANGED <<parked, state, finished, failed, shared, early, crypt, receivers,
                 congestion, helpers, result, unsent>>

FreeReceivers ==
  /\ pc = "free"
  /\ receivers' = FALSE
  /\ pc' = "returned"
  /\ UNCHANGED <<parked, state, finished, failed, shared, early, crypt, takion,
                 congestion, helpers, result, unsent>>

Run ==
  \/ Begin \/ StoppedInConnect \/ ConnectTimesOut \/ SendBig \/ BangWaitEnds \/ InfoWaitEnds
  \/ StartSender \/ EventCallback \/ CallbackStops \/ StartStreaming \/ Heartbeat
  \/ StreamEnds \/ StopSender \/ CloseTakion \/ FreeReceivers
-----------------------------------------------------------------------------
runThread == <<pc, parked, receivers, congestion, result, helpers>>

(* stream_connection_takion_cb, CONNECTED.                                   *)
TakionConnects ==
  /\ takion = "handshake"
  /\ ~Locked
  /\ takion' = "open"
  /\ finished' = (state = "TAKION_CONNECT" \/ finished)
  /\ failed' = (state # "TAKION_CONNECT" /\ failed)
  /\ UNCHANGED <<runThread, state, shared, early, crypt, unsent>>

(* The handshake or the socket fails, or the connection is closed.           *)
TakionLeaves ==
  /\ takion \in {"handshake", "open"}
  /\ takion' = "leaving"
  /\ UNCHANGED <<runThread, state, finished, failed, shared, early, crypt, unsent>>

(* stream_connection_takion_cb, DISCONNECT: ignored once BIG was sent.       *)
TakionEnds ==
  /\ takion = "leaving"
  /\ ~Locked
  /\ takion' = "ended"
  /\ finished' = (state # "TAKION_CONNECT" /\ finished)
  /\ failed' = (state = "TAKION_CONNECT" \/ failed)
  /\ UNCHANGED <<runThread, state, shared, early, crypt, unsent>>

(* A message the takion thread hands over.                                   *)
Handles(m) ==
  /\ takion = "open"
  /\ ~Locked
  /\ m \in unsent
  /\ unsent' = unsent \ {m}

(* stream_connection_takion_data_expect_bang: ok says that versions, key and *)
(* signature were good and the ciphers could be made.                        *)
HandleBang(ok) ==
  /\ Handles("BANG")
  /\ state = "EXPECT_BANG"
  /\ crypt' = ok
  /\ finished' = (ok \/ finished)
  /\ failed' = (~ok \/ failed)
  /\ UNCHANGED <<runThread, state, shared, early, takion>>

(* Mutant: a STREAMINFO that comes before the BANG was noticed is dropped.   *)
HandleStreamInfo_NotKept(ok) ==
  /\ Handles("STREAMINFO")
  /\ IF state = "EXPECT_STREAMINFO" THEN StreamInfo(ok) ELSE UNCHANGED <<finished, failed>>
  /\ UNCHANGED <<runThread, state, shared, early, crypt, takion>>

(* STREAMINFO is saved as long as the run thread still expects the BANG.     *)
HandleStreamInfo(ok) ==
  /\ Handles("STREAMINFO")
  /\ \/ /\ state = "EXPECT_BANG"
        /\ early' = TRUE
        /\ UNCHANGED <<finished, failed>>
     \/ /\ state = "EXPECT_STREAMINFO"
        /\ StreamInfo(ok)
        /\ UNCHANGED early
  /\ UNCHANGED <<runThread, state, shared, crypt, takion>>

(* stream_connection_takion_data_handle_disconnect, from every state.        *)
HandleDisconnect(r) ==
  /\ takion = "open"
  /\ ~Locked
  /\ disconnected' = TRUE
  /\ reason' = r
  /\ UNCHANGED <<runThread, state, finished, failed, stop, early, crypt, takion, unsent>>

Takion ==
  \/ TakionConnects \/ TakionLeaves \/ TakionEnds
  \/ \E ok \in BOOLEAN : HandleBang(ok) \/ HandleStreamInfo(ok)
  \/ \E r \in Reasons : HandleDisconnect(r)
-----------------------------------------------------------------------------
others == <<pc, parked, state, finished, failed, disconnected, reason, early, crypt,
            receivers, takion, congestion, active, sender, result, unsent>>

(* chiaki_stream_connection_stop, at any time after init.                    *)
Stop ==
  /\ ~Locked
  /\ pc # "returned"
  /\ stop' = TRUE
  /\ UNCHANGED <<others, feedback>>

(* chiaki_session_set_controller_state: finds the sender active and uses it. *)
UseSender ==
  /\ feedback = "free"
  /\ active
  /\ feedback' = "app"
  /\ UNCHANGED <<others, stop>>

LeaveSender ==
  /\ feedback = "app"
  /\ feedback' = "free"
  /\ UNCHANGED <<others, stop>>

Next == Run \/ Takion \/ Stop \/ UseSender \/ LeaveSender

Spec == Init /\ [][Next]_vars

(* Every wait of the run thread is timed, callbacks and controller updates   *)
(* return, and a closed connection makes the takion thread leave. The        *)
(* feedback mutex is taken for moments only, so the run thread gets it.      *)
Fairness ==
  /\ WF_vars(Begin \/ StoppedInConnect \/ ConnectTimesOut \/ SendBig \/ BangWaitEnds \/ InfoWaitEnds)
  /\ WF_vars(EventCallback \/ CallbackStops \/ StartStreaming \/ StreamEnds \/ CloseTakion \/ FreeReceivers)
  /\ SF_vars(StartSender) /\ SF_vars(StopSender)
  /\ WF_vars(LeaveSender)
  /\ WF_vars(pc = "close" /\ TakionLeaves)
  /\ WF_vars(TakionEnds)

FairSpec == Spec /\ Fairness
-----------------------------------------------------------------------------
(* The variables have their types, and the reason the session compares after *)
(* DISCONNECTED is there whenever remote_disconnected is set.                *)
TypeOK ==
  /\ pc \in Waits \cup {"begin", "startSender", "event", "eventStop", "relock",
                        "stopSender", "close", "free", "returned"}
  /\ state \in {"IDLE", "TAKION_CONNECT", "EXPECT_BANG", "EXPECT_STREAMINFO"}
  /\ {parked, finished, failed, stop, disconnected, early, crypt} \subseteq BOOLEAN
  /\ {receivers, congestion, active, sender} \subseteq BOOLEAN
  /\ reason \in IF disconnected THEN Reasons ELSE {NoReason}
  /\ takion \in {"none", "handshake", "open", "leaving", "ended", "closed"}
  /\ feedback \in {"free", "app"}
  /\ result \in {"SUCCESS", "CANCELED", "DISCONNECTED", "TIMEOUT", "UNKNOWN"}
  /\ unsent \subseteq {"BANG", "STREAMINFO"}

(* "only if this is true, feedback_sender may be accessed!"                  *)
(* (streamconnection.h, feedback_sender_active): whoever updates the         *)
(* controller state works on a sender that exists.                           *)
SenderIsLive == feedback = "app" => sender

(* As long as the takion thread runs, the receivers its audio, video and     *)
(* quality callbacks use have not been freed.                                *)
CallbacksHaveReceivers == takion \in {"handshake", "open", "leaving"} => receivers

(* What other threads reach through the connection is there as long as they    *)
(* may reach it.                                                             *)
LifetimesHold == SenderIsLive /\ CallbacksHaveReceivers

(* A STREAMINFO that was handed over is not waited for: whichever side of    *)
(* the BANG it came on, the wait for it ends or the handshake failed.        *)
InfoIsNotMissed ==
  pc = "info" => "STREAMINFO" \in unsent \/ finished \/ failed

(* The session reports "stopped" for SUCCESS and CANCELED: that is only      *)
(* returned when the application asked for it, so a finished handshake step  *)
(* never passes for the end of the stream.                                   *)
StoppedOnRequest == pc = "returned" /\ result \in {"SUCCESS", "CANCELED"} => stop

(* When takion is closed nothing sends through it any more. The congestion   *)
(* thread is the exception in one case: a stop during the very first wait    *)
(* jumps past its stop, and it runs until chiaki_stream_connection_fini.     *)
SendersStopFirst ==
  takion = "closed" => ~sender /\ (congestion => stop /\ state = "TAKION_CONNECT")

(* A stop ends run, whatever it is doing and whoever asks, and so does a      *)
(* disconnect of the console.                                                *)
StopEndsRun == stop \/ disconnected ~> pc = "returned"
=============================================================================
