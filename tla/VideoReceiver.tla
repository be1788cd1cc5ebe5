---------------------------- MODULE VideoReceiver ----------------------------
(* The video receiver (lib/src/videoreceiver.c) with its frame processor      *)
(* (lib/src/frameprocessor.c): units of video frames arrive late, twice, in   *)
(* any order or never, and frames leave for the decoder. Everything happens   *)
(* on the takion thread, one packet per step.                                 *)
(*                                                                            *)
(* The console numbers its frames 1, 2, 3, ... (their position); a packet     *)
(* carries position % NumberSpace. A unit is its index, the bytes of a frame  *)
(* are the set of its filled slots. Packets are well formed and memory does   *)
(* not run out: a frame once begun can always be filled and flushed.          *)
EXTENDS SeqNum, FiniteSets, FiniteSetsExt, SequencesExt

CONSTANTS Layouts,       \* units_in_frame_total and _fec, as [source, fec]
          MaxFrame,      \* bound: the console stops at this position
          RefSize,       \* reference_frames keeps so many
          CounterSpace   \* 2^64, the width of the statistics

VARIABLES vr,            \* ChiakiVideoReceiver, its frame processor and statistics
          seen           \* what really happened, in positions; not in the code

vars == <<vr, seen>>

NoFrame == -1
NoLayout == [source |-> 0, fec |-> 0]

Init ==
  /\ vr = [configured |-> FALSE, cur |-> NoFrame, prev |-> NoFrame, complete |-> 0,
           expected |-> NoLayout, slots |-> {}, source |-> 0, fec |-> 0,
           refs |-> <<>>, framesLost |-> 0, genReceived |-> 0, genLost |-> 0]
  /\ seen = [pos |-> 0,          \* position of cur
             decoded |-> 0,      \* position handed to the decoder last
             ordered |-> TRUE,   \* so far each was newer than the one before
             ref |-> 0,          \* position it refers to, 0 if none is known
             unusable |-> {},    \* recent frames, skipped or dropped for their reference
             untold |-> {},      \* left behind incomplete, the console not told
             due |-> 0]          \* units of the frames left behind
-----------------------------------------------------------------------------
(* chiaki_frame_processor_alloc_frame counts at least one FEC unit.          *)
Expected(l) == [source |-> l.source, fec |-> IF l.fec < 1 THEN 1 ELSE l.fec]
UnitsPerFrame(r) == r.expected.source + r.expected.fec

AllocFrame(r, l) ==
  [r EXCEPT !.expected = Expected(l), !.source = 0, !.fec = 0, !.slots = {}]

(* chiaki_frame_processor_put_unit: a slot is filled only once.              *)
PutUnit(r, u) ==
  IF u >= UnitsPerFrame(r) \/ u \in r.slots THEN r
  ELSE IF u < r.expected.source
    THEN [r EXCEPT !.slots = @ \cup {u}, !.source = @ + 1]
    ELSE [r EXCEPT !.slots = @ \cup {u}, !.fec = @ + 1]

FlushPossible(r) == r.source + r.fec >= r.expected.source

Erasures(r) == (0 .. (UnitsPerFrame(r) - 1)) \ r.slots

(* Reed-Solomon recovers as many units as there are FEC units.               *)
FecRecovers(r) == Cardinality(Erasures(r)) <= r.expected.fec

(* chiaki_frame_processor_fec restores the sizes of the source units.        *)
Restored(r) ==
  IF r.source < r.expected.source
    THEN [r EXCEPT !.slots = @ \cup 0 .. (r.expected.source - 1)]
    ELSE r

(* chiaki_frame_processor_report_packet_stats                                *)
ReportStats(r) ==
  LET received == r.source + r.fec
  IN  [r EXCEPT !.genReceived = @ + received,
                !.genLost = (@ + (UnitsPerFrame(r) - received)) % CounterSpace]
-----------------------------------------------------------------------------
AddRef(refs, f) == SubSeq(<<f>> \o refs, 1, Min({RefSize, Len(refs) + 1}))
HaveRef(r, f) == f \in Range(r.refs)

NextExpected(r) == Cast(r.complete + 1)

(* Of frames that cannot be referred to, those a reference still reaches.    *)
Recent(frames, n) == {m \in frames : m >= n - RefSize}

(* Mutant: a frame that was flushed is not marked so.                        *)
Done_KeepsPrev(r) == [r EXCEPT !.complete = r.cur]

(* The current frame is flushed.                                             *)
Done(r) == [r EXCEPT !.prev = r.cur, !.complete = r.cur]

(* The frames a CORRUPTFRAME message from start to end speaks of.            *)
Told(start, end) ==
  {n \in (seen.pos - SeqHalf) .. (seen.pos + SeqHalf) : Cast(n - start) <= Cast(end - start)}

(* Both parts of a step, run one after the other.                            *)
State(r, s) == [vr |-> r, seen |-> s]

(* Mutant: a frame FEC cannot repair is given up without a report.           *)
FecFailed_Silent(r, s) ==
  State([Done(r) EXCEPT !.framesLost = @ + (r.cur - NextExpected(r)) + 1,
                        !.refs = AddRef(@, r.cur)],
        [s EXCEPT !.untold = @ \cup {s.pos}])

(* FEC failed: the frame is reported, and kept as a reference all the same.  *)
FecFailed(r, s) ==
  State([Done(r) EXCEPT !.framesLost = @ + (r.cur - NextExpected(r)) + 1,
                        !.refs = AddRef(@, r.cur)],
        [s EXCEPT !.untold = (@ \cup {s.pos}) \ Told(NextExpected(r), r.cur)])

(* The frame is handed to video_sample_cb; distance is how far back its      *)
(* reference is, 0 if the slice names none.                                  *)
Decode(r, s, distance) ==
  State([Done(r) EXCEPT !.framesLost = 0, !.refs = AddRef(@, r.cur)],
        [s EXCEPT !.decoded = s.pos,
                  !.ordered = @ /\ s.pos > s.decoded,
                  !.ref = IF distance = 0 THEN 0 ELSE s.pos - distance])

(* Mutant: a frame dropped for its reference becomes a reference itself.     *)
DropDependent_Tracked(r, s) ==
  State([Done(r) EXCEPT !.framesLost = @ + 1, !.refs = AddRef(@, r.cur)],
        [s EXCEPT !.unusable = Recent(@ \cup {s.pos}, s.pos)])

(* Its reference is missing and nothing can stand in for it.                 *)
DropDependent(r, s) ==
  State([Done(r) EXCEPT !.framesLost = @ + 1],
        [s EXCEPT !.unusable = Recent(@ \cup {s.pos}, s.pos)])

(* A P slice that refers to the frame `distance` back. The first older one   *)
(* that was kept may take its place, if the slice header can be changed.     *)
DecodeSlice(r, s, distance) ==
  LET kept == {d \in distance .. RefSize : HaveRef(r, Cast(r.cur - d))}
  IN  IF HaveRef(r, Cast(r.cur - distance)) THEN {Decode(r, s, distance)}
      ELSE {DropDependent(r, s)} \cup
           (IF kept = {} THEN {} ELSE {Decode(r, s, Min(kept))})

(* chiaki_video_receiver_flush_frame                                         *)
FlushFrame(r, s) ==
  IF r.source < r.expected.source /\ ~FecRecovers(r)
    THEN {FecFailed(r, s)}
    ELSE LET f == Restored(r)
         IN  {Decode(f, s, 0)} \cup UNION {DecodeSlice(f, s, d) : d \in 1 .. RefSize}
-----------------------------------------------------------------------------
Old(r, seq) == r.cur >= 0 /\ SeqLt(seq, r.cur)
IsNext(r, seq) == r.cur < 0 \/ SeqGt(seq, r.cur)
Unflushed(r) == r.cur >= 0 /\ r.prev # r.cur

ForcedFlush(r, s) == IF Unflushed(r) THEN FlushFrame(r, s) ELSE {State(r, s)}

(* Frames of which no packet came are reported to the console, and counted   *)
(* as lost with the size of the frame before. seq - next is an int: it does  *)
(* not wrap.                                                                 *)
ReportGap(r, s, n) ==
  LET seq == Cast(n)
      next == NextExpected(r)
      skipped == (s.pos + 1) .. (n - 1)
      passed == [s EXCEPT !.untold = @ \cup skipped, !.unusable = Recent(@ \cup skipped, n),
                          !.due = @ + Cardinality(skipped) * UnitsPerFrame(r)]
  IN  IF ~SeqGt(seq, next) THEN State(r, passed)
      ELSE State([r EXCEPT !.genLost = (@ + (seq - next) * UnitsPerFrame(r)) % CounterSpace],
                 [passed EXCEPT !.untold = @ \ Told(next, Cast(seq - 1))])

(* The first packet of a frame.                                              *)
NextFrame(n, l) ==
  LET reported == ReportStats(vr)
      left == [seen EXCEPT !.due = @ + UnitsPerFrame(vr)]
      begun(a) == LET b == ReportGap(a.vr, a.seen, n)
                  IN  State(AllocFrame([b.vr EXCEPT !.cur = Cast(n)], l),
                            [b.seen EXCEPT !.pos = n])
  IN  {begun(a) : a \in ForcedFlush(reported, left)}

(* The unit is put in its slot, and a frame that is now full goes on.        *)
Fill(a, u) ==
  LET filled == PutUnit(a.vr, u)
  IN  IF Unflushed(filled) /\ FlushPossible(filled)
        THEN FlushFrame(filled, a.seen)
        ELSE {State(filled, a.seen)}

Becomes(a) == vr' = a.vr /\ seen' = a.seen

(* chiaki_video_receiver_av_packet: unit u of the frame at position n, which *)
(* is less than half the numbers away from the current one.                  *)
AvPacket(n, l, u) ==
  /\ vr.configured
  /\ n - seen.pos \in (1 - SeqHalf) .. (SeqHalf - 1)
  /\ ~Old(vr, Cast(n))
  /\ u < l.source + l.fec
  /\ IF IsNext(vr, Cast(n))
       THEN \E a \in NextFrame(n, l) : \E b \in Fill(a, u) : Becomes(b)
       ELSE /\ vr.expected = Expected(l)
            /\ \E b \in Fill(State(vr, seen), u) : Becomes(b)

(* chiaki_video_receiver_stream_info: before it, packets find no profile.    *)
StreamInfo ==
  /\ ~vr.configured
  /\ vr' = [vr EXCEPT !.configured = TRUE]
  /\ UNCHANGED seen

Next ==
  \/ StreamInfo
  \/ \E n \in 1 .. MaxFrame, l \in Layouts : \E u \in 0 .. (l.source + l.fec - 1) : AvPacket(n, l, u)

Spec == Init /\ [][Next]_vars
-----------------------------------------------------------------------------
(* Frames keep their numbers, counters their range: the unsigned expected -   *)
(* received never goes below zero.                                           *)
TypeOK ==
  /\ vr.configured \in BOOLEAN
  /\ {vr.cur, vr.prev} \subseteq SeqNums \cup {NoFrame} /\ vr.complete \in SeqNums
  /\ vr.source \in 0 .. vr.expected.source /\ vr.fec \in 0 .. vr.expected.fec
  /\ vr.slots \subseteq 0 .. (UnitsPerFrame(vr) - 1)
  /\ Len(vr.refs) <= RefSize /\ Range(vr.refs) \subseteq SeqNums
  /\ vr.genLost \in 0 .. (CounterSpace - 1)

(* The assertion of chiaki_frame_processor_fec: as many slots are empty as    *)
(* units are missing by the counters, as long as the frame can be flushed.   *)
FecAssertion ==
  Unflushed(vr) => Cardinality(Erasures(vr)) = UnitsPerFrame(vr) - (vr.source + vr.fec)

(* The decoder gets frames in the order of the console, each once, whatever   *)
(* came late, twice or across the wrap of the frame numbers.                 *)
FramesInOrder == seen.ordered

(* A frame passed by without being flushed complete is reported as corrupt,   *)
(* be it skipped entirely, forced out or beyond the reach of FEC.            *)
LostFramesAreReported == seen.untold = {}

(* "Do NOT allow this frame to become part of the future reference chain"     *)
(* (videoreceiver.c): what goes to the decoder refers to a frame the decoder  *)
(* was given or conceals, never to one that was skipped or dropped.          *)
ReferencesWereKept == seen.ref \notin seen.unusable

(* The comment in videoreceiver.c on frames of which no packet came: their    *)
(* units are counted as lost, so that the loss is at least represented.      *)
SkippedFramesAreCounted == vr.genReceived + vr.genLost = seen.due
=============================================================================
