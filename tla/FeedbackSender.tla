--------------------------- MODULE FeedbackSender ---------------------------
(* The feedback sender (lib/src/feedbacksender.c, lib/src/feedback.c): what the *)
(* player does reaches the console as states (sticks, sensors), sent again and  *)
(* again, and as a history of events (buttons, touches), each packet of which    *)
(* repeats the events before it. Packets may be lost. Everything happens under  *)
(* state_mutex, which the thread gives up only while it waits.                 *)
EXTENDS Integers, FiniteSets, Sequences, SequencesExt

CONSTANTS
  Buttons,         \* CHIAKI_CONTROLLER_BUTTON_*, with the triggers
  HistorySize,     \* FEEDBACK_HISTORY_BUFFER_SIZE: 16
  ChangesMax,      \* bound: changes the player makes
  LossesMax        \* bound: packets lost

VARIABLES
  controller,      \* controller_state: stick, buttons and the touch of slot 0
  previous,        \* controller_state_prev
  changed,         \* controller_state_changed
  feedbackStop,    \* should_stop
  feedbackThread,  \* "waits" in the timed wait, "ended", "joined"
  historyBuf,      \* history_buf: events, the newest first
  console,         \* what the console makes of the packets that reach it
  gone,            \* history: whether the last history packet was lost
  replaced,        \* history: a touch that took another's slot between two wakeups
  changes, losses

feedbackVars == <<controller, previous, changed, feedbackStop, feedbackThread, historyBuf, console, gone,
                  replaced, changes, losses>>

NoTouch == 0
Idle == [stick |-> 0, buttons |-> {}, touch |-> NoTouch, at |-> 0]

Init ==
  /\ controller = Idle /\ previous = Idle /\ changed = FALSE /\ feedbackStop = FALSE
  /\ feedbackThread = "waits" /\ historyBuf = <<>> /\ console = Idle
  /\ gone = FALSE /\ replaced = FALSE /\ changes = 0 /\ losses = 0

AtRest ==
  /\ controller = Idle /\ previous = Idle /\ changed = FALSE /\ feedbackStop = TRUE
  /\ feedbackThread = "joined" /\ historyBuf = <<>> /\ console = Idle
  /\ gone = FALSE /\ replaced = FALSE /\ changes = 0 /\ losses = 0

(* What a player can do to one part of the controller: a touch that is lifted     *)
(* and put down again has a new id.                                          *)
Touched(s) == IF s.touch = NoTouch THEN {[s EXCEPT !.touch = changes + 1, !.at = 0]}
              ELSE {[s EXCEPT !.touch = NoTouch], [s EXCEPT !.at = 1 - @]}
Played(s) == {[s EXCEPT !.stick = 1 - @]} \cup {[s EXCEPT !.buttons = (@ \ {b}) \cup ({b} \ @)] : b \in Buttons}
               \cup Touched(s)

(* chiaki_feedback_sender_set_controller_state                               *)
SetControllerState ==
  /\ ~feedbackStop /\ changes < ChangesMax /\ changes' = changes + 1
  /\ controller' \in Played(controller) /\ changed' = TRUE
  /\ UNCHANGED <<previous, feedbackStop, feedbackThread, historyBuf, console, gone, replaced, losses>>

------------------------------------------------------------------------------
(* controller_state_equals_for_feedback_state and .._history                  *)
EqualForState(a, b) == a.stick = b.stick
EqualForHistory(a, b) ==
  a.buttons = b.buttons /\ a.touch = b.touch /\ (a.touch # NoTouch => a.at = b.at)

(* feedback_sender_send_history: one event per button, then one for the touch. A   *)
(* touch that took the slot of another is only reported lifted.               *)
ButtonEvents(prev, now) ==
  SetToSeq({[button |-> b, down |-> b \in now.buttons] : b \in (prev.buttons \ now.buttons) \cup (now.buttons \ prev.buttons)})
TouchEvents(prev, now) ==
  IF prev.touch # now.touch /\ prev.touch # NoTouch THEN <<[touch |-> NoTouch, at |-> now.at]>>
  ELSE IF now.touch # NoTouch /\ (prev.touch # now.touch \/ prev.at # now.at)
    THEN <<[touch |-> now.touch, at |-> now.at]>>
  ELSE <<>>
Events(prev, now) == ButtonEvents(prev, now) \o TouchEvents(prev, now)

(* chiaki_feedback_history_buffer_push, of one event after the other.          *)
Pushed(buf, events) == SubSeq(Reverse(events) \o buf, 1, IF Len(events) + Len(buf) > HistorySize THEN HistorySize
                                                         ELSE Len(events) + Len(buf))

(* The console applies an event.                                            *)
Applied(e, c) == IF "button" \in DOMAIN e
                   THEN [c EXCEPT !.buttons = IF e.down THEN @ \cup {e.button} ELSE @ \ {e.button}]
                   ELSE [c EXCEPT !.touch = e.touch, !.at = e.at]

(* Mutant: a packet holds the newest event alone.                            *)
Packet_NewestOnly(buf) == SubSeq(buf, 1, 1)

(* chiaki_feedback_history_buffer_format: the whole buffer. An event it has seen   *)
(* changes nothing, for those after it are applied again as well.              *)
Packet(buf) == buf

Receives(c, buf) == FoldLeft(LAMBDA d, e : Applied(e, d), c, Reverse(Packet(buf)))

(* feedback_sender_thread_func: a wakeup, by a change or after 200 ms. One packet  *)
(* is sent for each event, of which `kept` reach the console.                  *)
Wake ==
  /\ feedbackThread = "waits" /\ ~feedbackStop
  /\ LET news == IF changed /\ ~EqualForHistory(controller, previous) THEN Events(previous, controller) ELSE <<>>
         sendsState == ~changed \/ ~EqualForState(controller, previous)
         Buf(i) == Pushed(historyBuf, SubSeq(news, 1, i))
     IN \E lost \in SUBSET ((IF sendsState THEN {0} ELSE {}) \cup (1 .. Len(news))) :
          /\ losses' = losses + Cardinality(lost) /\ losses' <= LossesMax
          /\ historyBuf' = Buf(Len(news))
          /\ gone' = IF Len(news) = 0 THEN gone ELSE Len(news) \in lost
          /\ console' = LET c == FoldLeft(LAMBDA d, i : IF i \in lost THEN d ELSE Receives(d, Buf(i)), console,
                                          [i \in 1 .. Len(news) |-> i])
                        IN IF sendsState /\ 0 \notin lost THEN [c EXCEPT !.stick = controller.stick] ELSE c
          /\ replaced' = IF news = <<>> \/ (controller.touch = previous.touch /\ controller.at = previous.at) THEN replaced
                         ELSE controller.touch # NoTouch /\ previous.touch \notin {NoTouch, controller.touch}
  /\ changed' = FALSE /\ previous' = controller
  /\ UNCHANGED <<controller, feedbackStop, feedbackThread, changes>>

(* chiaki_feedback_sender_fini, which joins the thread: a signal that comes        *)
(* before the wait is missed, and the wait ends by its time.                  *)
FeedbackFini ==
  /\ ~feedbackStop /\ feedbackStop' = TRUE
  /\ UNCHANGED <<controller, previous, changed, feedbackThread, historyBuf, console, gone, replaced, changes, losses>>
FeedbackLeaves ==
  /\ feedbackThread = "waits" /\ feedbackStop /\ feedbackThread' = "ended"
  /\ UNCHANGED <<controller, previous, changed, feedbackStop, historyBuf, console, gone, replaced, changes, losses>>
FeedbackJoined ==
  /\ feedbackThread = "ended" /\ feedbackThread' = "joined"
  /\ UNCHANGED <<controller, previous, changed, feedbackStop, historyBuf, console, gone, replaced, changes, losses>>

Next == SetControllerState \/ Wake \/ FeedbackFini \/ FeedbackLeaves \/ FeedbackJoined
Fairness == WF_feedbackVars(Wake) /\ WF_feedbackVars(FeedbackLeaves) /\ WF_feedbackVars(FeedbackJoined)
Spec == Init /\ [][Next]_feedbackVars /\ Fairness

------------------------------------------------------------------------------
(* When the player rests the console comes to know the whole controller, however   *)
(* changes are merged between two wakeups and whichever packets are lost. Two       *)
(* exceptions: the last history packet is not sent again, and a touch that took     *)
(* the slot of another between two wakeups is not reported until it moves.          *)
(* (A fini ends the reports.)                                                *)
Knows ==
  /\ console.stick = controller.stick
  /\ gone \/ console.buttons = controller.buttons
  /\ gone \/ replaced \/ (console.touch = controller.touch /\ (controller.touch # NoTouch => console.at = controller.at))
ConsoleFollows == <>[](Knows \/ feedbackStop)
=============================================================================
