---------------------------- MODULE AckCompaction ----------------------------
(***************************************************************************)
(* The loop of chiaki_takion_send_buffer_ack (lib/src/takionsendbuffer.c)  *)
(* that closes the gaps acknowledged packets leave in the array: one       *)
(* memmove per gap, the last one after the loop.  TakionSendBuffer does it  *)
(* in one step (Compact); here the loop itself runs on every array.        *)
(***************************************************************************)
EXTENDS Integers, FiniteSets

CONSTANT Capacity

VARIABLES
  count,        \* packets_count when the handler was called
  acked,        \* slots whose packet the acknowledgement covers
  packets,      \* the array; a packet is named by the slot it started in
  newCount,     \* packets_count
  i, shift, shiftStart,
  pc

vars == <<count, acked, packets, newCount, i, shift, shiftStart, pc>>

Slots == 0 .. (Capacity - 1)
NoStart == Capacity     \* SIZE_MAX

Init ==
  /\ count \in 0 .. Capacity
  /\ acked \in SUBSET (0 .. (count - 1))
  /\ packets = [s \in Slots |-> s]
  /\ newCount = count
  /\ i = 0 /\ shift = 0 /\ shiftStart = NoStart
  /\ pc = "loop"

(* memmove(packets + to, packets + from, n)                                  *)
Moved(to, from, n) ==
  [s \in Slots |-> IF s \in to .. (to + n - 1) THEN packets[s - to + from] ELSE packets[s]]

Keep ==
  /\ packets[i] \notin acked
  /\ UNCHANGED <<packets, shift, shiftStart>>

FirstGap ==
  /\ packets[i] \in acked
  /\ shiftStart = NoStart
  /\ shiftStart' = i /\ shift' = 1
  /\ UNCHANGED packets

SameGap ==
  /\ packets[i] \in acked
  /\ shiftStart # NoStart /\ shiftStart + shift = i
  /\ shift' = shift + 1
  /\ UNCHANGED <<packets, shiftStart>>

(* Mutant: the whole tail is moved down.                                     *)
NewGap_WholeTail ==
  /\ packets[i] \in acked
  /\ shiftStart # NoStart /\ shiftStart + shift # i
  /\ packets' = Moved(shiftStart, shiftStart + shift, count - (shiftStart + shift))
  /\ shiftStart' = i - shift
  /\ shift' = shift + 1

NewGap ==
  /\ packets[i] \in acked
  /\ shiftStart # NoStart /\ shiftStart + shift # i
  /\ packets' = Moved(shiftStart, shiftStart + shift, i - (shiftStart + shift))
  /\ shiftStart' = i - shift
  /\ shift' = shift + 1

Loop ==
  /\ pc = "loop" /\ i < count
  /\ Keep \/ FirstGap \/ SameGap \/ NewGap
  /\ i' = i + 1
  /\ UNCHANGED <<count, acked, newCount, pc>>

FinalShift ==
  /\ pc = "loop" /\ i = count
  /\ IF shiftStart = NoStart
       THEN UNCHANGED <<packets, newCount>>
       ELSE /\ packets' = IF shiftStart + shift < count
                            THEN Moved(shiftStart, shiftStart + shift, count - (shiftStart + shift))
                            ELSE packets
            /\ newCount' = count - shift
  /\ pc' = "done"
  /\ UNCHANGED <<count, acked, i, shift, shiftStart>>

Next == Loop \/ FinalShift
Spec == Init /\ [][Next]_vars

-----------------------------------------------------------------------------
(* No loop: where several components share a run.                            *)
AtRest ==
  /\ count = 0 /\ acked = {} /\ packets = [s \in Slots |-> s]
  /\ newCount = 0 /\ i = 0 /\ shift = 0 /\ shiftStart = NoStart /\ pc = "done"

(* The loop tests the packet the caller stored in slot i, although gaps have *)
(* been closed below it: no packet is skipped or looked at twice.            *)
ReadsEachPacketOnce == pc = "loop" => \A s \in i .. (count - 1) : packets[s] = s

(* In the end exactly the packets that were not acknowledged are left, in    *)
(* their order, and nothing past the new count was written: what Compact     *)
(* does in one step.                                                         *)
ClosesAllGaps(Compact(_, _)) ==
  LET kept == {s + 1 : s \in (0 .. (count - 1)) \ acked}
      before == [s \in 1 .. Capacity |-> s - 1]
      compacted == Compact(before, kept)
  IN  pc = "done" => /\ newCount = Cardinality(kept)
                     /\ \A s \in Slots : packets[s] = compacted[s + 1]
=============================================================================
