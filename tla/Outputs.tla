------------------------------- MODULE Outputs --------------------------------
(* What a session of the desktop client plays and feels (gui/src/streamsession.cpp): *)
(* the sound card it fills, the microphone it reads and mutes, the rumble and the    *)
(* haptics of the controllers. Decoder, event loop, sound card and timers are       *)
(* threads of their own.                                                    *)
EXTENDS Integers, Sequences, SequencesExt

CONSTANTS
  MicSize,     \* mic_buf.size_bytes
  MicReads,    \* bytes the sound card hands over at once
  BufferSize,  \* audio_buffer_size
  FrameSize,   \* bytes of a decoded frame
  Unmuted,     \* start_mic_unmuted, one of a set
  Strengths,   \* strengths of a haptics packet
  MinStrength, \* HAPTIC_RUMBLE_MIN_STRENGTH
  PerRumble,   \* RUMBLE_HAPTICS_PACKETS_PER_RUMBLE
  StepsMax     \* bound: things that happen to the session

VARIABLES
  steps,
  startUnmuted, \* start_mic_unmuted
  audio,        \* the output device is open, and unmuting allowed
  queued,       \* what SDL has queued for it
  drain,        \* audio_out_drain_queue
  muted, micOpen,
  wire,         \* messages of the control connection under way
  console,      \* the microphone as the console sees it
  given,        \* history: bytes the microphone gave
  heard,        \* history: those that were not muted
  buffer,       \* mic_buf up to current_byte
  packets,      \* history: packets encoded
  intensity,    \* ps5_rumble_intensity is not off
  calls,        \* rumble commands on their way to the event loop
  strengths,    \* rumble_haptics
  rumbleOn,     \* rumble_haptics_on
  pad           \* what the controllers do, and who set it

playing == <<audio, queued, drain>>
mic == <<muted, micOpen, wire, console, given, heard, buffer, packets>>
rumble == <<intensity, calls, strengths, rumbleOn, pad>>
outputsVars == <<steps, startUnmuted, playing, mic, rumble>>

Still == [by |-> "none", level |-> 0]
Start ==
  /\ startUnmuted \in Unmuted /\ audio = FALSE /\ queued = 0 /\ drain = FALSE
  /\ muted = TRUE /\ micOpen = FALSE /\ wire = <<>> /\ console = [connected |-> FALSE, muted |-> TRUE]
  /\ given = 0 /\ heard = <<>> /\ buffer = <<>> /\ packets = <<>>
  /\ intensity = TRUE /\ calls = <<>> /\ strengths = <<>> /\ rumbleOn = FALSE /\ pad = Still
Init == Start /\ steps = 0
AtRest == Start /\ steps = StepsMax /\ startUnmuted = CHOOSE u \in Unmuted : TRUE
Steps == steps < StepsMax /\ steps' = steps + 1 /\ UNCHANGED startUnmuted

------------------------------------------------------------------------------
(* ToggleMute, by a button, by the user or by InitAudio: the first time it opens the     *)
(* microphone. chiaki_session_toggle_microphone says what it was, not what it becomes.  *)
Message(was) == IF was THEN "unmute" ELSE "mute"
InitMic == micOpen' = TRUE /\ buffer' = (IF micOpen THEN buffer ELSE <<>>)
Toggles ==
  /\ muted' = ~muted /\ InitMic
  /\ wire' = wire \o (IF micOpen THEN <<>> ELSE <<"connect">>) \o <<Message(muted)>>
  /\ UNCHANGED <<console, given, heard, packets>>
ToggleMute == audio /\ Steps /\ Toggles /\ UNCHANGED <<playing, rumble>>

(* InitAudio, at each audio header: the output is opened anew, or fails to open.        *)
InitAudio ==
  /\ Steps /\ audio' = TRUE /\ queued' = 0 /\ UNCHANGED rumble
  /\ \E opens \in BOOLEAN : drain' = IF opens THEN FALSE ELSE drain
  /\ IF startUnmuted THEN Toggles ELSE UNCHANGED mic

(* PushAudioFrame on the thread of takion: more than three buffers waiting are played    *)
(* down to less than one before anything is queued again.                        *)
Drains(waiting) == (waiting > 3 * BufferSize \/ drain) /\ waiting >= BufferSize
PushAudioFrame ==
  /\ audio /\ Steps /\ drain' = Drains(queued) /\ queued' = IF Drains(queued) THEN queued ELSE queued + FrameSize
  /\ UNCHANGED <<audio, mic, rumble>>
Plays == queued > 0 /\ queued' = queued - 1 /\ UNCHANGED <<steps, startUnmuted, audio, drain, mic, rumble>>

(* ReadMic, in the event loop, of n bytes; muted ones are dropped. What fills the buffer   *)
(* is encoded packet by packet, the rest stays for the next time.                   *)
(* Mutant: what does not fill a packet is dropped.                                 *)
Rest_Dropped(bytes) == <<>>
Rest(bytes) == SubSeq(bytes, Len(bytes) - (Len(bytes) % MicSize) + 1, Len(bytes))
ReadMic(n) ==
  /\ micOpen /\ Steps /\ given' = given + n
  /\ LET bytes == buffer \o [i \in 1 .. n |-> given + i]
     IN IF muted THEN UNCHANGED <<heard, buffer, packets>>
        ELSE /\ heard' = heard \o [i \in 1 .. n |-> given + i] /\ buffer' = Rest(bytes)
             /\ packets' = packets \o [k \in 1 .. (Len(bytes) \div MicSize) |-> SubSeq(bytes, (k - 1) * MicSize + 1, k * MicSize)]
  /\ UNCHANGED <<playing, muted, micOpen, wire, console, rumble>>

(* The control connection delivers.                                            *)
Delivered ==
  /\ wire # <<>> /\ wire' = Tail(wire)
  /\ console' = IF Head(wire) = "connect" THEN [console EXCEPT !.connected = TRUE]
                ELSE [console EXCEPT !.muted = (Head(wire) = "mute")]
  /\ UNCHANGED <<steps, startUnmuted, playing, muted, micOpen, given, heard, buffer, packets, rumble>>

------------------------------------------------------------------------------
(* Event on the thread of the session: the intensity the console is set to, and a rumble    *)
(* command, ignored while it is off, that a call takes to the event loop.               *)
SetIntensity(on) == Steps /\ intensity' = on /\ UNCHANGED <<playing, mic, calls, strengths, rumbleOn, pad>>
RumbleEvent(level) ==
  /\ Steps /\ calls' = (IF intensity THEN Append(calls, level) ELSE calls)
  /\ UNCHANGED <<playing, mic, intensity, strengths, rumbleOn, pad>>
RumbleCalled ==
  /\ calls # <<>> /\ calls' = Tail(calls) /\ pad' = [by |-> "event", level |-> Head(calls)]
  /\ UNCHANGED <<steps, startUnmuted, playing, mic, intensity, strengths, rumbleOn>>

(* PushHapticsFrame, without a device for haptics: a packet too weak is not passed on,     *)
(* and no packet comes to stop what the last one did.                              *)
PushHaptics(strength) ==
  /\ Steps /\ strengths' = (IF strength > MinStrength THEN Append(strengths, strength) ELSE strengths)
  /\ UNCHANGED <<playing, mic, intensity, calls, rumbleOn, pad>>

(* The timer of ConnectRumbleHaptics: the mean of the packets of its period.                *)
(* Mutant: only what shakes is passed on, not that it ended.                        *)
Tells_Nonzero(strength) == strength > 0
Tells(strength) == strength > 0 \/ rumbleOn
RumbleTimer ==
  LET n == IF Len(strengths) < PerRumble THEN Len(strengths) ELSE PerRumble
      strength == FoldLeft(+, 0, SubSeq(strengths, 1, n)) \div PerRumble
  IN /\ strengths' = SubSeq(strengths, n + 1, Len(strengths)) /\ rumbleOn' = (strength > 0)
     /\ pad' = (IF Tells(strength) THEN [by |-> "haptics", level |-> strength] ELSE pad)
     /\ UNCHANGED <<steps, startUnmuted, playing, mic, intensity, calls>>

Next ==
  \/ ToggleMute \/ InitAudio \/ PushAudioFrame \/ Plays \/ (\E n \in MicReads : ReadMic(n)) \/ Delivered
  \/ (\E on \in BOOLEAN : SetIntensity(on)) \/ (\E s \in Strengths : RumbleEvent(s) \/ PushHaptics(s)) \/ RumbleCalled
  \/ RumbleTimer
Fairness == WF_outputsVars(RumbleTimer) /\ WF_outputsVars(RumbleCalled)
Spec == Init /\ [][Next]_outputsVars /\ Fairness

------------------------------------------------------------------------------
TypeOK ==
  /\ steps \in 0 .. StepsMax /\ {audio, drain, muted, micOpen, intensity, rumbleOn} \subseteq BOOLEAN
  /\ queued \in Nat /\ given \in Nat /\ Len(buffer) \in 0 .. MicSize /\ pad.level \in Nat

(* Each byte heard while not muted is in exactly one packet or still in the buffer, in order, *)
(* whatever the sound card hands over at a time (streamsession.cpp:1358, 1405, 1443).   *)
MicInOrder ==
  /\ Len(heard) = Len(packets) * MicSize + Len(buffer)
  /\ \A k \in 1 .. Len(packets) : packets[k] = SubSeq(heard, (k - 1) * MicSize + 1, k * MicSize)
  /\ buffer = SubSeq(heard, Len(packets) * MicSize + 1, Len(heard))

(* The sound never runs more than three buffers and a frame late, and the console has the     *)
(* microphone as the client shows it once the messages have arrived (:1698, :749).       *)
AudioIsBounded == queued <= 3 * BufferSize + FrameSize
MicAgrees == wire = <<>> => console.muted = muted /\ (~muted => console.connected)

OutputsAreSound == MicInOrder /\ AudioIsBounded /\ MicAgrees

(* Haptics that ended stop shaking the controllers, though nothing is sent at their end        *)
(* (streamsession.cpp:1518, 1813).                                               *)
HapticsFade == (pad.by = "haptics" /\ pad.level > 0) ~> (pad.by = "event" \/ pad.level = 0)
=============================================================================
