------------------------------ MODULE Controls ------------------------------
(* What the player presses and how the desktop client makes one state of it:    *)
(* the states of controllers and their touches (lib/src/controller.c), the      *)
(* controllers SDL has (gui/src/controllermanager.cpp), keyboard, mouse and      *)
(* touch screen, the touches made of the directional pad, and the block of       *)
(* input while a menu is open (gui/src/streamsession.cpp, qmlmainwindow.cpp).   *)
(* Everything runs on the thread of the GUI. Analog triggers stand for the       *)
(* sticks; positions of touches are kept only for the directional pad.          *)
EXTENDS Integers, Sequences, FiniteSets

CONSTANTS
  Keys,       \* what key_map knows of: buttons and axes
  PadButtons, \* the buttons of the controller
  Fingers,    \* fingers on the touch screen and on the controller's touchpad
  Shortcut,   \* dpad_touch_shortcut1..4
  Increment,  \* dpad_touch_increment, 0: no touches of the directional pad
  Width,      \* PS_TOUCHPAD_MAXX, and MAXY
  IdSpace,    \* TOUCH_ID_MASK + 1: 128
  GrabsMax,   \* menus open at a time
  EventsMax   \* bound: events of the player

VARIABLES
  keyboard,   \* keyboard_state
  mouse,      \* mouse_touch_id
  screen,     \* touch_state
  tracker,    \* touch_tracker: finger -> id
  pad,        \* state of the open controller
  padTouches, \* touch_ids: finger -> id
  micPush,    \* micbutton_push
  dpad,       \* dpad_touch_state, dpad_touch_id, dpad_touch_value
  timer,      \* dpad_touch_timer is active
  stopTimer,  \* dpad_touch_stop_timer is active
  regular, switched, \* dpad_regular, dpad_regular_touch_switched
  grab,       \* grab_input of the window
  block,      \* input_block
  console,    \* the state of the last chiaki_session_set_controller_state
  held,       \* what the player really holds
  spoilt,     \* history: what was held when the block began to end and since then
  missed,     \* history: a release the sources never heard of
  events

controlsVars == <<keyboard, mouse, screen, tracker, pad, padTouches, micPush, dpad, timer, stopTimer, regular,
                  switched, grab, block, console, held, spoilt, missed, events>>

Dpad == <<"left", "right", "down", "up">>
DpadButtons == {Dpad[i] : i \in 1 .. 4}
Axes == {"l2", "r2"}
Slots == 1 .. 2
Idle == [buttons |-> {}, axes |-> {}, touches |-> [i \in Slots |-> -1], next |-> 0]

StartTouch(state) ==
  IF \A i \in Slots : state.touches[i] >= 0 THEN [state |-> state, id |-> -1]
  ELSE LET slot == CHOOSE i \in Slots : state.touches[i] < 0 /\ \A j \in Slots : j < i => state.touches[j] >= 0
       IN [id |-> state.next,
           state |-> [state EXCEPT !.touches[slot] = state.next, !.next = (@ + 1) % IdSpace]]

StopTouch(state, id) ==
  LET with == {i \in Slots : state.touches[i] = id}
  IN IF with = {} THEN state ELSE [state EXCEPT !.touches[CHOOSE i \in with : \A j \in with : i <= j] = -1]

Holding(h) == {<<"key", k>> : k \in h.keys} \cup {<<"pad", b>> : b \in h.pad}

(* chiaki_controller_state_or: of each slot the first source that has a touch.   *)
Or(a, b) ==
  [buttons |-> a.buttons \cup b.buttons, axes |-> a.axes \cup b.axes, next |-> 0,
   touches |-> [i \in Slots |-> IF a.touches[i] >= 0 THEN a.touches[i] ELSE b.touches[i]]]

Set(state, key) == IF key \in Axes THEN [state EXCEPT !.axes = @ \cup {key}] ELSE [state EXCEPT !.buttons = @ \cup {key}]
Clear(state, key) == [state EXCEPT !.axes = @ \ {key}, !.buttons = @ \ {key}]
Without(f, x) == [y \in DOMAIN f \ {x} |-> f[y]]

Start ==
  /\ keyboard = Idle /\ mouse = -1 /\ screen = Idle /\ tracker = <<>> /\ pad = Idle /\ padTouches = <<>>
  /\ micPush = FALSE /\ dpad = [state |-> Idle, id |-> -1, x |-> 0, y |-> 0] /\ timer = FALSE /\ stopTimer = FALSE
  /\ regular = TRUE /\ switched = FALSE /\ grab = 0 /\ block = 0 /\ console = Idle
  /\ held = [keys |-> {}, mouse |-> {}, fingers |-> {}, pad |-> {}, padFingers |-> {}]
  /\ spoilt = {} /\ missed = FALSE

Init == Start /\ events = 0
(* Another part of the system moves.                                         *)
AtRest == Start /\ events = EventsMax
------------------------------------------------------------------------------
(* HandleDpadTouchEvent: a direction starts a touch at its edge or moves it.      *)
Direction(state) == Dpad[CHOOSE i \in 1 .. 4 : Dpad[i] \in state.buttons /\ \A j \in 1 .. i - 1 : Dpad[j] \notin state.buttons]
Edge(direction) ==
  CASE direction = "left" -> <<0, Width \div 2>> [] direction = "right" -> <<Width, Width \div 2>>
    [] direction = "down" -> <<Width \div 2, Width>> [] direction = "up" -> <<Width \div 2, 0>>
Lower(v) == IF v < Increment THEN 0 ELSE v - Increment
Raise(v) == IF v > Width - Increment THEN Width ELSE v + Increment
DpadTouch(now, direction) ==
  IF now.id < 0
  THEN LET started == StartTouch(now.state)
       IN [state |-> started.state, id |-> started.id, x |-> Edge(direction)[1], y |-> Edge(direction)[2]]
  ELSE CASE direction = "left" -> [now EXCEPT !.x = Lower(@)] [] direction = "right" -> [now EXCEPT !.x = Raise(@)]
         [] direction = "down" -> [now EXCEPT !.y = Raise(@)] [] direction = "up" -> [now EXCEPT !.y = Lower(@)]

(* The block of input ends at the first state without buttons after the menu.     *)
Lifts_AtOnce(limit, state) == limit = 2
Lifts(limit, state) == limit = 2 /\ state.buttons = {}

(* SendFeedbackState, and DpadSendFeedbackState, where placeholder holds: the      *)
(* sources are joined, blocked, searched for the shortcut and for a touch of the   *)
(* directional pad. pads: the states of the open controllers.                    *)
Send(limit, keys, touches, pads, now, stopping, placeholder) ==
  LET joined == Or(Or(pads, keys), touches)
      blocked == limit # 0 /\ ~Lifts(limit, joined)
      seen == IF blocked THEN Idle ELSE joined
      shortcut == Shortcut # {} /\ Shortcut \subseteq seen.buttons
      plain == IF shortcut /\ ~switched THEN ~regular ELSE regular
      moves == Increment > 0 /\ ~plain /\ seen.buttons \cap DpadButtons # {}
      to == IF moves THEN DpadTouch(now, Direction(seen)) ELSE now
      out == IF moves THEN Clear(seen, Direction(seen)) ELSE seen
  IN /\ block' = IF blocked THEN limit ELSE 0
     /\ keyboard' = IF blocked THEN Idle ELSE keys
     /\ switched' = shortcut /\ regular' = plain
     /\ dpad' = to
     /\ timer' = IF moves /\ ~placeholder THEN TRUE ELSE timer /\ ~stopping
     /\ stopTimer' = IF moves THEN placeholder /\ stopTimer /\ ~stopping ELSE (stopTimer /\ ~stopping) \/ now.id >= 0
     /\ console' = Or(out, to.state)
Sends(keys, touches, pads) == Send(block, keys, touches, pads, dpad, FALSE, FALSE)
Silent == UNCHANGED <<keyboard, dpad, timer, stopTimer, regular, switched, block, console>>


Happens(h) ==
  /\ events < EventsMax /\ events' = events + 1 /\ held' = h /\ spoilt' = spoilt \cap Holding(h)
sources == <<mouse, screen, tracker, pad, padTouches, micPush, grab>>
------------------------------------------------------------------------------
(* HandleKeyboardEvent, mouse and touch: while a menu is open its window gets     *)
(* the events.                                                               *)
KeyDown(k) ==
  /\ k \notin held.keys /\ Happens([held EXCEPT !.keys = @ \cup {k}]) /\ UNCHANGED <<sources, missed>>
  /\ IF grab = 0 THEN Sends(Set(keyboard, k), screen, pad) ELSE Silent
KeyUp(k) ==
  /\ k \in held.keys /\ Happens([held EXCEPT !.keys = @ \ {k}]) /\ UNCHANGED <<sources, missed>>
  /\ IF grab = 0 THEN Sends(Clear(keyboard, k), screen, pad) ELSE Silent

(* HandleMousePressEvent: a button other than the left one is the click.         *)
MousePress(b) ==
  /\ b \notin held.mouse /\ Happens([held EXCEPT !.mouse = @ \cup {b}]) /\ UNCHANGED <<sources, missed>>
  /\ IF grab > 0 THEN Silent
     ELSE Sends(IF b = "left" THEN keyboard ELSE Set(keyboard, "touchpad"), screen, pad)
MouseMove ==
  /\ held.mouse = {"left"} /\ grab = 0 /\ mouse < 0 /\ Happens(held)
  /\ LET started == StartTouch(keyboard)
     IN mouse' = started.id /\ Sends(started.state, screen, pad)
  /\ UNCHANGED <<screen, tracker, pad, padTouches, micPush, grab, missed>>
MouseRelease(b) ==
  /\ b \in held.mouse /\ Happens([held EXCEPT !.mouse = @ \ {b}])
  /\ UNCHANGED <<screen, tracker, pad, padTouches, micPush, grab, missed>>
  /\ IF grab > 0 THEN Silent /\ UNCHANGED mouse
     ELSE LET ends == b = "left" /\ mouse >= 0
          IN /\ mouse' = IF b = "left" THEN -1 ELSE mouse
             /\ Sends(Clear(IF ends THEN StopTouch(keyboard, mouse) ELSE keyboard, "touchpad"), screen, pad)

(* HandleTouchEvent: click is a touch at the edge or, when no finger was down, a   *)
(* second tap. A finger no slot is left for is tried again when it moves.          *)
Touch(f, click) ==
  /\ Happens([held EXCEPT !.fingers = @ \cup {f}]) /\ (f \in held.fingers => f \notin DOMAIN tracker \/ click)
  /\ UNCHANGED <<mouse, pad, padTouches, micPush, grab, missed>>
  /\ IF grab > 0 THEN Silent /\ UNCHANGED <<screen, tracker>>
     ELSE LET now == IF click THEN Set(screen, "touchpad") ELSE Clear(screen, "touchpad")
              started == StartTouch(now)
              new == f \notin DOMAIN tracker
          IN /\ screen' = IF new THEN started.state ELSE now
             /\ tracker' = IF new /\ started.id >= 0 THEN [g \in DOMAIN tracker \cup {f} |-> IF g = f THEN started.id ELSE tracker[g]]
                           ELSE tracker
             /\ Sends(keyboard, screen', pad)
FingerUp(f) ==
  /\ f \in held.fingers /\ Happens([held EXCEPT !.fingers = @ \ {f}])
  /\ UNCHANGED <<mouse, pad, padTouches, micPush, grab>>
  /\ IF grab > 0 THEN Silent /\ UNCHANGED <<screen, tracker>> /\ missed' = (missed \/ f \in DOMAIN tracker)
     ELSE /\ screen' = LET now == Clear(screen, "touchpad")
                       IN IF f \in DOMAIN tracker THEN StopTouch(now, tracker[f]) ELSE now
          /\ tracker' = Without(tracker, f) /\ Sends(keyboard, screen', pad) /\ UNCHANGED missed

(* HandleButtonEvent: while the button of the microphone is down no button is      *)
(* taken in, and the first release, of any button, is the one that mutes.           *)
PadDown(b) ==
  /\ b \notin held.pad /\ Happens([held EXCEPT !.pad = @ \cup {b}])
  /\ UNCHANGED <<mouse, screen, tracker, padTouches, grab, missed>>
  /\ micPush' = (micPush \/ b = "mic")
  /\ pad' = IF micPush' THEN pad ELSE Set(pad, b)
  /\ Sends(keyboard, screen, pad')
PadUp(b) ==
  /\ b \in held.pad /\ Happens([held EXCEPT !.pad = @ \ {b}])
  /\ UNCHANGED <<mouse, screen, tracker, padTouches, grab>>
  /\ LET mutes == micPush \/ b = "mic"
     IN /\ micPush' = FALSE /\ missed' = (missed \/ (mutes /\ b # "mic"))
        /\ IF mutes THEN pad' = pad /\ Silent ELSE pad' = Clear(pad, b) /\ Sends(keyboard, screen, pad')
(* ControllerManager::HandleEvents while another application is in front and the   *)
(* setting joystick_allow_background_events is off.                             *)
PadUpUnheard(b) ==
  /\ b \in held.pad /\ Happens([held EXCEPT !.pad = @ \ {b}]) /\ missed' = TRUE
  /\ UNCHANGED sources /\ Silent

(* HandleTouchpadEvent.                                                      *)
PadTouchDown(f) ==
  /\ f \notin held.padFingers /\ Happens([held EXCEPT !.padFingers = @ \cup {f}])
  /\ UNCHANGED <<mouse, screen, tracker, micPush, grab, missed>>
  /\ IF Cardinality(DOMAIN padTouches) >= 2 THEN Silent /\ UNCHANGED <<pad, padTouches>>
     ELSE LET started == StartTouch(pad)
          IN /\ pad' = started.state
             /\ padTouches' = [g \in DOMAIN padTouches \cup {f} |-> IF g = f THEN started.id ELSE padTouches[g]]
             /\ Sends(keyboard, screen, pad')
PadTouchUp(f) ==
  /\ f \in held.padFingers /\ Happens([held EXCEPT !.padFingers = @ \ {f}])
  /\ UNCHANGED <<mouse, screen, tracker, micPush, grab, missed>>
  /\ IF f \notin DOMAIN padTouches THEN Silent /\ UNCHANGED <<pad, padTouches>>
     ELSE pad' = StopTouch(pad, padTouches[f]) /\ padTouches' = Without(padTouches, f) /\ Sends(keyboard, screen, pad')

(* UpdateGamepads: the controller is gone, its Controller deleted; when it is back   *)
(* a new one is opened for it.                                                *)
PadLost ==
  /\ Happens([held EXCEPT !.pad = {}, !.padFingers = {}])
  /\ pad' = Idle /\ padTouches' = <<>> /\ micPush' = FALSE
  /\ Sends(keyboard, screen, pad') /\ UNCHANGED <<mouse, screen, tracker, grab, missed>>

(* QmlMainWindow::grabInput, releaseInput with BlockInput.                       *)
GrabInput ==
  /\ grab < GrabsMax /\ Happens(held) /\ grab' = grab + 1
  /\ Send(1, keyboard, screen, pad, dpad, FALSE, FALSE)
  /\ UNCHANGED <<mouse, screen, tracker, pad, padTouches, micPush, missed>>
ReleaseInput ==
  /\ grab > 0 /\ events < EventsMax /\ events' = events + 1 /\ grab' = grab - 1
  /\ Send(IF grab > 1 THEN 1 ELSE 2, keyboard, screen, pad, dpad, FALSE, FALSE)
  /\ spoilt' = Holding(held)
  /\ UNCHANGED <<mouse, screen, tracker, pad, padTouches, micPush, held, missed>>

(* The two timers of the touches of the directional pad.                        *)
DpadTick == timer /\ Send(block, keyboard, screen, pad, dpad, FALSE, TRUE) /\ UNCHANGED <<sources, held, spoilt, missed, events>>
DpadStops ==
  /\ stopTimer /\ UNCHANGED <<sources, held, spoilt, missed, events>>
  /\ LET now == [dpad EXCEPT !.state = StopTouch(@, dpad.id), !.id = -1]
     IN Send(block, keyboard, screen, pad, now, TRUE, FALSE)

ControlsNext ==
  \/ \E k \in Keys : KeyDown(k) \/ KeyUp(k)
  \/ \E b \in {"left", "right"} : MousePress(b) \/ MouseRelease(b)
  \/ MouseMove
  \/ \E f \in Fingers, click \in BOOLEAN : Touch(f, click)
  \/ \E f \in Fingers : FingerUp(f) \/ PadTouchDown(f) \/ PadTouchUp(f)
  \/ \E b \in PadButtons : PadDown(b) \/ PadUp(b) \/ PadUpUnheard(b)
  \/ PadLost \/ GrabInput \/ ReleaseInput \/ DpadTick \/ DpadStops

Spec == Init /\ [][ControlsNext]_controlsVars
------------------------------------------------------------------------------
States == [buttons : SUBSET (Keys \cup PadButtons \cup {"touchpad"}), axes : SUBSET Axes, next : 0 .. IdSpace - 1,
           touches : [Slots -> -1 .. IdSpace - 1]]
TypeOK ==
  /\ {keyboard, screen, pad, dpad.state, console} \subseteq States
  /\ dpad.x \in 0 .. Width /\ dpad.y \in 0 .. Width /\ mouse \in -1 .. IdSpace - 1
  /\ block \in 0 .. 2 /\ (grab > 0 <=> block = 1) /\ {timer, stopTimer, regular, switched, micPush} \subseteq BOOLEAN

(* What is down on the console is down in the player's hands, and was not down      *)
(* when the menu closed (streamsession.cpp:1189-1199).                           *)
Live == Holding(held) \ spoilt
OnlyTheHeld ==
  /\ \A b \in console.buttons \ {"touchpad"} : <<"key", b>> \in Live \/ <<"pad", b>> \in Live
  /\ console.axes \subseteq held.keys \cup held.pad
  /\ "touchpad" \in console.buttons =>
       held.mouse # {} \/ held.fingers # {} \/ {<<"key", "touchpad">>, <<"pad", "touchpad">>} \cap Live # {}
NoStrayTouch ==
  (held.mouse = {} /\ held.fingers = {} /\ held.padFingers = {} /\ dpad.id < 0) => \A i \in Slots : console.touches[i] < 0
(* A touch of the directional pad is moved on by its timer, and ends by the other    *)
(* once no direction is held.                                                *)
DpadTouchEnds ==
  /\ dpad.id >= 0 => timer /\ (stopTimer \/ \E d \in DpadButtons : <<"key", d>> \in Live \/ <<"pad", d>> \in Live)
  /\ dpad.x \in 0 .. Width /\ dpad.y \in 0 .. Width

(* Unless a release never came in, however the menu, the timers and the sources      *)
(* interleave.                                                               *)
NothingStaysPressed == missed \/ (OnlyTheHeld /\ NoStrayTouch /\ DpadTouchEnds)
=============================================================================
