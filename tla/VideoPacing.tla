----------------------------- MODULE VideoPacing -----------------------------
(* When the output thread of the video decoder shows a frame                    *)
(* (app/src/main/cpp/video-decoder.c). All times are relative to the frame before, *)
(* so the clock is not part of the state. What is measured of the source, jitter,    *)
(* stalls and intervals, may be anything: the order of the frames must not          *)
(* depend on it.                                                             *)
EXTENDS Integers

CONSTANTS
  Period,     \* vsync_period_ns, one frame at the target rate
  Slack,      \* the millisecond below which a frame is late
  Refill,     \* the two milliseconds by which a cushion grows
  Gaps,       \* what may pass between two frames
  Cushions,   \* twice ema_jitter_ns, or smooth_hold_ns
  Intervals   \* ema_inter_frame_ns and ema_arrival_ns

ASSUME PacingAssumption ==
  /\ Period \in Nat \ {0} /\ Slack \in 0 .. Period /\ Refill \in Nat
  /\ Gaps \subseteq Nat /\ Cushions \subseteq Nat /\ Intervals \subseteq Nat

VARIABLES
  smooth,     \* last_smooth
  scheduled,  \* next_render_ns # 0
  next,       \* next_render_ns
  shown,      \* history: when the last frame that was not dropped is shown
  step,       \* history: how long after the frame before it
  jumped      \* history: the schedule was given up, by a new mode or by the cap of Standard

pacingVars == <<smooth, scheduled, next, shown, step, jumped>>

Init ==
  /\ smooth \in BOOLEAN /\ scheduled = FALSE /\ next = 0 /\ shown = 0 /\ step = Period /\ jumped = FALSE

AtMost(a, b) == IF a < b THEN a ELSE b
AtLeast(a, b) == IF a > b THEN a ELSE b

(* The cushion: two frames and in Smooth what the jitter or a stall of late asks     *)
(* for, up to six frames. A frame that is late is given one without the stall.     *)
Cushion(mode, jitter) == IF mode THEN AtMost(2 * Period + jitter, 6 * Period) ELSE 2 * Period
Baseline(mode, jitter, hold) == IF mode THEN AtMost(AtLeast(2 * Period + jitter, hold), 6 * Period) ELSE 2 * Period

(* Mutant: Smooth drops nothing of a burst.                                   *)
Drops_Nothing(mode, headroom, baseline) == FALSE

(* Smooth drops a frame of a burst instead of running further ahead.            *)
Drops(mode, headroom, baseline) == mode /\ scheduled /\ headroom > baseline + 2 * Period

(* How far the schedule moves on: a frame when it is ahead, otherwise at the rate     *)
(* of the source, and in Smooth a little more while the cushion is too small.     *)
Advance(mode, headroom, baseline, render, source, inter, arrival) ==
  IF headroom > baseline THEN Period
  ELSE LET rate == AtLeast(inter, source)
           real == AtLeast(rate, AtMost(arrival, 2 * source))
       IN IF ~mode THEN rate
          ELSE real + (IF render < baseline - Period THEN Refill ELSE 0)

(* A decoded frame comes out of the codec `gap` after the one before, and the mode     *)
(* may have been changed meanwhile (android_chiaki_video_decoder_set_smooth_pacing). *)
Frame(gap, mode, jitter, hold, source, inter, arrival) ==
  LET onTime == scheduled /\ mode = smooth
      headroom == next - gap
      baseline == Baseline(mode, jitter, hold)
      late == headroom <= Slack
      ahead == headroom > 4 * baseline
      render == IF ~onTime \/ late \/ ahead THEN Cushion(mode, jitter) ELSE headroom
  IN /\ smooth' = mode
     /\ IF mode = smooth /\ Drops(mode, headroom, baseline)
          THEN next' = headroom /\ shown' = shown - gap /\ UNCHANGED <<scheduled, step, jumped>>
          ELSE /\ scheduled' = TRUE /\ shown' = render
               /\ next' = render + Advance(mode, IF onTime THEN headroom ELSE 0, baseline, render, source, inter, arrival)
               /\ step' = IF scheduled THEN render - (shown - gap) ELSE Period
               /\ jumped' = (scheduled /\ (mode # smooth \/ (ahead /\ ~mode)))

Next ==
  \E gap \in Gaps, mode \in BOOLEAN, jitter, hold \in Cushions, source \in {Period, 2 * Period}, inter, arrival \in Intervals :
    Frame(gap, mode, jitter, hold, source, inter, arrival)
Spec == Init /\ [][Next]_pacingVars

------------------------------------------------------------------------------
(* Two frames are never shown in one period of the display nor in the wrong order, *)
(* whatever is measured of the source ("schedule each frame for a distinct vsync     *)
(* boundary"), unless the mode has just changed or Standard, which drops nothing,     *)
(* has run further ahead than its cap.                                        *)
ShownInOrder == ~jumped => step >= Period
=============================================================================
