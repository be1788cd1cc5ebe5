-------------------------- MODULE CongestionControl --------------------------
(* The statistics of received packets (lib/src/packetstats.c) and the thread     *)
(* that reports them to the console (lib/src/congestioncontrol.c). The takion      *)
(* thread counts audio packets without the mutex under which the other thread     *)
(* reads the counts and resets them.                                         *)
EXTENDS Integers, FiniteSets

CONSTANTS
  StatsSpace,   \* numbers of audio packets, and counts on the wire: 2^16
  StatsLast,    \* bound: packets of the stream
  DiffSpace,    \* the uint64_t of the difference of two numbers
  LossMax, LossScale, \* packet_loss_max is LossMax / LossScale
  Generations,  \* units of a frame that came and that did not: <<received, lost>>
  GenerationsMax, \* bound: frames
  ReportsMax    \* bound: reports

VARIABLES
  counted,      \* seq_received
  seqMin, seqMax,
  genReceived, genLost,
  place,        \* history: the last packet of the stream, as a place in it
  overdue,      \* history: those passed over that have not arrived and may yet
  frames,       \* history: frames, and the units they lost
  pushing,      \* chiaki_packet_stats_push_seq: where it is, the seq_received it has read, its packet
  reporter,     \* "waits", "got" and "min" in chiaki_packet_stats_get, "ended", "joined"
  stopSignal,   \* the predicate of stop_cond
  told,         \* history: the sums of the reports
  withheld,     \* history: losses that were too many to be told
  open,         \* history: seq_max and the packets overdue when the interval began
  tangled,      \* history: a count and the reset at the begin of the interval met, or meet
  slip,         \* history: packets of the stream in the intervals that are over and were tangled
  disturbed     \* history: a late packet, a wrap of the numbers, a count that does not fit the wire

congestionVars == <<counted, seqMin, seqMax, genReceived, genLost, place, overdue, frames, pushing, reporter,
                    stopSignal, told, withheld, open, tangled, slip, disturbed>>
history == <<told, withheld, open, slip>>

Idle == [at |-> "idle", read |-> 0, packet |-> 0]
Begin ==
  /\ counted = 0 /\ seqMin = 0 /\ seqMax = 0 /\ genReceived = 0 /\ genLost = 0 /\ place = 0 /\ overdue = {}
  /\ frames = [count |-> 0, lost |-> 0] /\ pushing = Idle /\ told = [reports |-> 0, received |-> 0, lost |-> 0] /\ withheld = 0
  /\ open = [max |-> 0, overdue |-> 0] /\ tangled = FALSE /\ slip = 0 /\ disturbed = FALSE
Init == Begin /\ reporter = "waits" /\ stopSignal = FALSE
AtRest == Begin /\ reporter = "joined" /\ stopSignal = TRUE

Gt(a, b) == (a - b) % StatsSpace \in 1 .. (StatsSpace \div 2 - 1)
Resetting == reporter \in {"got", "min"}

(* chiaki_packet_stats_push_seq, for a packet in order or one that comes late: the    *)
(* count is read, ...                                                       *)
CountRead ==
  /\ pushing.at = "idle" /\ reporter # "joined" /\ tangled' = (tangled \/ Resetting)
  /\ \E n \in 1 .. StatsLast :
       /\ pushing' = [at |-> "count", read |-> counted, packet |-> n % StatsSpace]
       /\ \/ /\ place < n /\ n - place < StatsSpace \div 2 /\ place' = n
             /\ overdue' = overdue \cup (place + 1) .. (n - 1) /\ disturbed' = (disturbed \/ n >= StatsSpace)
          \/ n \in overdue /\ overdue' = overdue \ {n} /\ disturbed' = TRUE /\ UNCHANGED place
  /\ UNCHANGED <<counted, seqMin, seqMax, genReceived, genLost, frames, reporter, stopSignal, history>>
(* ... written, one more, ...                                               *)
CountWritten ==
  /\ pushing.at = "count" /\ counted' = pushing.read + 1 /\ pushing' = [pushing EXCEPT !.at = "max"]
  /\ UNCHANGED <<seqMin, seqMax, genReceived, genLost, place, overdue, frames, reporter, stopSignal, history, tangled,
                 disturbed>>
(* ... and the highest number is moved on.                                    *)
MaxMoves ==
  /\ pushing.at = "max" /\ pushing' = Idle /\ seqMax' = (IF Gt(pushing.packet, seqMax) THEN pushing.packet ELSE seqMax)
  /\ UNCHANGED <<counted, seqMin, genReceived, genLost, place, overdue, frames, reporter, stopSignal, history, tangled,
                 disturbed>>

(* chiaki_packet_stats_push_generation, under the mutex                          *)
PushGeneration ==
  /\ ~Resetting /\ reporter # "joined" /\ frames.count < GenerationsMax
  /\ \E units \in Generations :
       /\ genReceived' = genReceived + units[1] /\ genLost' = genLost + units[2]
       /\ frames' = [count |-> frames.count + 1, lost |-> frames.lost + units[2]]
  /\ UNCHANGED <<counted, seqMin, seqMax, place, overdue, pushing, reporter, stopSignal, history, tangled, disturbed>>

(* The difference is meant to overflow when the maximum has wrapped, and then is     *)
(* no 16 bit number any more.                                                *)
Diff == (seqMax - seqMin) % DiffSpace
Lost == IF counted > Diff THEN Diff ELSE Diff - counted

(* The share of the losses that may be told.                                   *)
(* Mutant: losses that are too many are told all the same.                        *)
Capped_Not(lost, total) == lost
Capped(lost, total) == IF lost * LossScale > LossMax * total THEN (LossMax * total) \div LossScale ELSE lost

(* congestion_control_thread_func: 200 ms without a stop; chiaki_packet_stats_get reads the  *)
(* counts, with the mutex the takion thread does not take, ...                     *)
CongestionReport ==
  LET all == genLost + Lost
      total == genReceived + counted + all
      lost == Capped(all, total)
      span == place - open.max
  IN /\ reporter = "waits" /\ ~stopSignal /\ reporter' = "got"
     /\ told.reports < ReportsMax
     /\ told' = [reports |-> told.reports + 1, received |-> told.received + ((total - lost) % StatsSpace),
                 lost |-> told.lost + (lost % StatsSpace)]
     /\ withheld' = withheld + (all - lost)
     /\ disturbed' = (disturbed \/ total - lost >= StatsSpace \/ lost >= StatsSpace)
     /\ genReceived' = 0 /\ genLost' = 0
     /\ open' = [max |-> seqMax, overdue |-> Cardinality(overdue)]
     /\ slip' = slip + (IF tangled \/ pushing.at # "idle" THEN span ELSE 0) /\ tangled' = (pushing.at # "idle")
     /\ UNCHANGED <<counted, seqMin, seqMax, place, overdue, frames, pushing, stopSignal>>

(* Mutant: the interval is not closed.                                       *)
ResetMin_Kept == seqMin

(* ... and reset_stats resets them.                                            *)
ResetMin == seqMax
ResetsMin ==
  /\ reporter = "got" /\ reporter' = "min" /\ seqMin' = ResetMin
  /\ UNCHANGED <<counted, seqMax, genReceived, genLost, place, overdue, frames, pushing, stopSignal, history, tangled,
                 disturbed>>
ResetsCount ==
  /\ reporter = "min" /\ reporter' = "waits" /\ counted' = 0
  /\ UNCHANGED <<seqMin, seqMax, genReceived, genLost, place, overdue, frames, pushing, stopSignal, history, tangled,
                 disturbed>>

(* chiaki_congestion_control_stop                                            *)
CongestionStop == ~stopSignal /\ stopSignal' = TRUE /\ UNCHANGED reporter
CongestionEnds == reporter = "waits" /\ stopSignal /\ reporter' = "ended" /\ UNCHANGED stopSignal
CongestionJoined == reporter = "ended" /\ reporter' = "joined" /\ UNCHANGED stopSignal
Stopping ==
  /\ CongestionStop \/ CongestionEnds \/ CongestionJoined
  /\ UNCHANGED <<counted, seqMin, seqMax, genReceived, genLost, place, overdue, frames, pushing, history, tangled,
                 disturbed>>

Next ==
  \/ CountRead \/ CountWritten \/ MaxMoves \/ PushGeneration
  \/ CongestionReport \/ ResetsMin \/ ResetsCount \/ Stopping
Spec == Init /\ [][Next]_congestionVars

------------------------------------------------------------------------------
(* What the console is told adds up: the losses of all reports, with those withheld from  *)
(* it and those of the current interval, are the packets and units that were lost. What a   *)
(* count that meets a reset changes (packetstats.c:51-55, without the mutex) stays in the    *)
(* two intervals at that reset: there the losses are wrong by no more than the packets of     *)
(* the stream that fell into the interval, come or not. No report tells of more than the share   *)
(* of losses that is allowed. (Not after a packet that came late, a wrap of the numbers, or   *)
(* a count the 16 bits of the report do not hold.)                                 *)
Distance(a, b) == IF a < b THEN b - a ELSE a - b
LossAddsUp ==
  ~disturbed =>
    /\ pushing.at = "idle" /\ ~Resetting =>
         Distance(told.lost + withheld + genLost + Lost, Cardinality(overdue) + frames.lost)
           <= slip + (IF tangled THEN place - open.max ELSE 0)
    /\ told.lost * LossScale <= LossMax * (told.lost + told.received)
=============================================================================
