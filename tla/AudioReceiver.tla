---------------------------- MODULE AudioReceiver ----------------------------
(* The receiver of audio and the one of haptics (lib/src/audioreceiver.c), and   *)
(* the generations of cloud sessions (lib/src/pscloud_audio_reassembler.c). A      *)
(* packet is its place in the stream, which the receiver only knows modulo the   *)
(* number space; packets of cloud sessions come in order, but some are lost.     *)
EXTENDS SeqNum, FiniteSets, Sequences

CONSTANTS
  Layouts,     \* source and FEC units of each generation of a cloud session
  Start,       \* the first packet of each generation and of the one after the last
  PlainLast,   \* bound: packets of a session with a console
  PlainFec,    \* frames before its own a packet of a console repeats
  AudioLosses  \* bound: packets lost

VARIABLES
  service,     \* "cloud", "console", "none"
  haptics,     \* whether this is the receiver of haptics
  audio,       \* the receiver and its generation
  heard,       \* history: what the sinks were given
  last,        \* the last packet sent
  got,         \* history: the packets of the last generations that arrived
  late,        \* history: the last generations a packet of which came late
  lostPackets  \* how many did not

audioVars == <<service, haptics, audio, heard, last, got, late, lostPackets>>

Total(l) == l.source + l.fec
GenOf(p) == CHOOSE g \in 1 .. Len(Layouts) : p \in Start[g] .. (Start[g + 1] - 1)

Nothing == 0
Garbage == -1
Recovered == -2

Receiver == [prev |-> 0, startup |-> TRUE, flushed |-> TRUE, emitted |-> FALSE, first |-> 0,
             layout |-> [source |-> 0, fec |-> 0], slots |-> <<>>, source |-> 0, fec |-> 0]
Silence == [place |-> 0, ordered |-> TRUE, recent |-> {}, astray |-> FALSE]

Init ==
  /\ service \in {"cloud", "console"} /\ haptics \in BOOLEAN
  /\ audio = Receiver /\ heard = Silence /\ last = 0 /\ got = {} /\ late = {} /\ lostPackets = 0
AtRest ==
  /\ service = "none" /\ haptics = FALSE
  /\ audio = Receiver /\ heard = Silence /\ last = 0 /\ got = {} /\ late = {} /\ lostPackets = 0

------------------------------------------------------------------------------
Both(r, h) == [r |-> r, h |-> h]

(* chiaki_audio_receiver_frame: only what is newer than the last frame goes to a  *)
(* sink. place is where the data come from, haptics the sink they go to.        *)
Frame(b, unit) ==
  IF ~SeqGt(unit.index, b.r.prev) THEN b
  ELSE Both([b.r EXCEPT !.prev = Cast(unit.index)],
            [b.h EXCEPT !.place = unit.place, !.ordered = @ /\ unit.place > b.h.place,
                        !.recent = @ \cup {unit.place},
                        !.astray = @ \/ unit.haptics # haptics])

(* The units of a packet or a generation, one after the other.                    *)
Play(b, units) ==
  LET after[n \in 0 .. Len(units)] ==
        IF n = 0 THEN b ELSE IF units[n].skipped THEN after[n - 1] ELSE Frame(after[n - 1], units[n])
  IN  after[Len(units)]

Units(r) == 0 .. (Total(r.layout) - 1)
Received(r) == {u \in Units(r) : r.slots[u] # Nothing}

(* What FEC makes of the other units: they must be of one generation.          *)
Restored(r, u) ==
  LET stored == {v \in Received(r) : r.slots[v] # Recovered}
      v == CHOOSE v \in stored : TRUE
  IN IF \A w \in stored : r.slots[w] - w = r.slots[v] - v THEN r.slots[v] - v + u ELSE Garbage

(* The source units go out under the number of the first packet seen and on; a    *)
(* unit FEC restored counts as audio.                                         *)
SourceUnits(r) ==
  [i \in 1 .. r.layout.source |->
     LET u == i - 1
         restored == r.slots[u] = Recovered
     IN  [skipped |-> r.slots[u] = Nothing, index |-> r.first + u,
          place |-> IF restored THEN Restored(r, u) ELSE r.slots[u], haptics |-> haptics /\ ~restored]]
Emit(b) == Play(b, SourceUnits(b.r))

(* Mutant: FEC does not mark what it restores.                                *)
Fec_Unmarked(r) == r

(* chiaki_pscloud_audio_reassembler_fec                                       *)
Fec(r) ==
  [r EXCEPT !.slots = [u \in Units(r) |-> IF r.slots[u] = Nothing /\ u < r.layout.source THEN Recovered ELSE r.slots[u]],
            !.source = r.layout.source]

(* The generation before is given up: what FEC can restore is, and what is there  *)
(* goes out, unless it has.                                                  *)
Flush(b) ==
  IF b.r.flushed THEN b
  ELSE LET r == IF b.r.source < b.r.layout.source /\ b.r.source + b.r.fec >= b.r.layout.source
                  THEN Fec(b.r) ELSE b.r
       IN IF b.r.emitted THEN Both(r, b.h) ELSE Emit(Both(r, b.h))

(* chiaki_pscloud_audio_reassembler_alloc_generation                          *)
Alloc(b, p, l) ==
  Both([b.r EXCEPT !.flushed = FALSE, !.emitted = FALSE, !.first = Cast(p), !.layout = l,
                   !.slots = [u \in 0 .. (Total(l) - 1) |-> Nothing], !.source = 0, !.fec = 0], b.h)

(* Does the packet start a new generation?                                    *)
StartsAnew(r, l, unit, stale) ==
  \/ r.flushed \/ stale \/ unit = 0
  \/ r.source + r.fec >= Total(r.layout) \/ unit >= Total(r.layout) \/ l # r.layout

Store(b, p, unit) ==
  IF b.r.slots[unit] # Nothing THEN b \* an error
  ELSE LET r == [b.r EXCEPT !.slots[unit] = p,
                            !.source = IF unit < b.r.layout.source THEN @ + 1 ELSE @,
                            !.fec = IF unit < b.r.layout.source THEN @ ELSE @ + 1]
       IN IF r.source = r.layout.source /\ ~r.emitted
            THEN LET c == Emit(Both(r, b.h)) IN Both([c.r EXCEPT !.emitted = TRUE], c.h)
            ELSE Both(r, b.h)

(* chiaki_pscloud_audio_reassembler_put_packet                                 *)
PutPacket(b, p, l, unit, stale) ==
  Store(IF StartsAnew(b.r, l, unit, stale) THEN Alloc(Flush(b), p, l) ELSE b, p, unit)

(* The next packet of a cloud session arrives, perhaps more than 150 ms after      *)
(* the generation was started, or it is lost.                           *)
CloudPacket ==
  /\ service = "cloud" /\ last < Start[Len(Layouts) + 1] - 1
  /\ last' = last + 1
  /\ LET g == GenOf(last') IN
     \/ \E stale \in IF audio.flushed THEN {FALSE} ELSE BOOLEAN :
          /\ LET b == PutPacket(Both(audio, heard), last', Layouts[g], last' - Start[g], stale)
             IN audio' = b.r /\ heard' = [b.h EXCEPT !.recent = {p \in @ : g < 3 \/ p >= Start[g - 2]}]
          /\ got' = {p \in got : g < 3 \/ p >= Start[g - 2]} \cup {last'}
          /\ late' = {h \in late : h >= g - 2} \cup (IF stale THEN {g} ELSE {})
          /\ UNCHANGED lostPackets
     \/ lostPackets < AudioLosses /\ lostPackets' = lostPackets + 1 /\ UNCHANGED <<audio, heard, got, late>>
  /\ UNCHANGED <<service, haptics>>

(* A packet's own frame, then those before it, which the first packets only repeat.  *)
PacketUnits(p, startup) ==
  [i \in 1 .. (PlainFec + 1) |->
     IF i = 1 THEN [skipped |-> FALSE, index |-> Cast(p), place |-> p, haptics |-> haptics]
     ELSE LET f == i - 2 IN
          [skipped |-> startup /\ Cast(p) + f < PlainFec + 1, index |-> Cast(p) - PlainFec + f,
           place |-> p - PlainFec + f, haptics |-> haptics]]

(* chiaki_audio_receiver_av_packet of a session with a console: any packet, again or  *)
(* late, whose frames are less than half the numbers away.                          *)
ConsolePacket ==
  /\ service = "console"
  /\ \E p \in 1 .. PlainLast :
       /\ p - PlainFec - last > -SeqHalf /\ p - last < SeqHalf
       /\ LET r == [audio EXCEPT !.startup = @ /\ Cast(p) <= SeqHalf]
              b == Play(Both(r, heard), PacketUnits(p, r.startup))
          IN audio' = b.r /\ heard' = [b.h EXCEPT !.recent = {}]
       /\ last' = IF p > last THEN p ELSE last
  /\ UNCHANGED <<service, haptics, got, late, lostPackets>>

Next == CloudPacket \/ ConsolePacket
Spec == Init /\ [][Next]_audioVars

------------------------------------------------------------------------------
(* A console's frames are played in order and once each, late, doubled or across   *)
(* the wrap. In a cloud session a generation of which as many units arrive as it    *)
(* has source units is played whole and with its own data as soon as the next one   *)
(* has begun: if no packet of it or of the one before was late, and no first unit lost. *)
(* Audio never goes to the sink of haptics, and haptics only go to that of audio where FEC *)
(* restores them, for what it restores counts as audio (pscloud_audio_reassembler.c:206). *)
FramesArePlayed ==
  /\ heard.astray => service = "cloud" /\ haptics
  /\ service = "console" => heard.ordered
  /\ service = "cloud" /\ last > 0 /\ GenOf(last) > 1 /\ last \in got =>
       LET g == GenOf(last) - 1
           Arrived(h) == got \cap (Start[h] .. (Start[h + 1] - 1))
       IN late \cap {g - 1, g} = {} /\ (\A h \in {g - 1, g, g + 1} \ {0} : Start[h] \in got) /\ Cardinality(Arrived(g)) >= Layouts[g].source
          => (Start[g] .. (Start[g] + Layouts[g].source - 1)) \subseteq heard.recent
=============================================================================
