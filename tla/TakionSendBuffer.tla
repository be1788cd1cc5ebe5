-------------------------- MODULE TakionSendBuffer --------------------------
(***************************************************************************)
(* The sending half of takion's reliable data channel:                     *)
(* chiaki_takion_send_message_data (lib/src/takion.c), the buffer of       *)
(* unacknowledged packets and its resend thread                            *)
(* (lib/src/takionsendbuffer.c), and the DATA_ACK handler.                 *)
(*                                                                         *)
(* Senders, the resend thread and the takion thread (acks, then fini)      *)
(* interleave.  A critical section of send_buffer->mutex is one action,    *)
(* except in the resend thread, which keeps the mutex from its predicate   *)
(* check until it parks on the condition variable, while fini writes       *)
(* should_stop and signals without the mutex.                              *)
(*                                                                         *)
(* Packets are identified by position; the code compares Cast(position).   *)
(* Time is counted in ticks: a packet is due DueAge ticks after its last   *)
(* transmission.  The console, external, receives any subset of the        *)
(* transmissions in any order and acknowledges cumulatively.               *)
(***************************************************************************)
EXTENDS SeqNum, FiniteSets

CONSTANTS
  Senders,      \* threads that call chiaki_takion_send_message_data
  Capacity,     \* TAKION_SEND_BUFFER_SIZE
  TriesMax,     \* TAKION_DATA_RESEND_TRIES_MAX
  DueAge,       \* TAKION_DATA_RESEND_TIMEOUT_MS, in ticks
  FirstPos,     \* seq_num_local starts at Cast(FirstPos)
  LastPos       \* bound: no packet is sent beyond this position

VARIABLES
  seqNumLocal,  \* position seq_num_local stands for
  sender,       \* what each sender is doing, and the position it holds
  packets,      \* send_buffer->packets, whose slots past packetsCount are stale
  packetsCount, \* send_buffer->packets_count
  shouldStop,   \* send_buffer->should_stop
  thread,       \* the resend thread: pc, slot it works on, timed wait or not
  fini,         \* progress of chiaki_takion_send_buffer_fini
  onWire,       \* positions transmitted at least once
  received,     \* positions the console has
  tracked,      \* positions ever stored in the buffer
  gaveUp        \* positions removed by a give-up

bufferVars == <<packets, packetsCount>>
peerVars == <<onWire, received>>
vars == <<seqNumLocal, sender, packets, packetsCount, shouldStop, thread, fini,
          onWire, received, tracked, gaveUp>>

Positions == FirstPos .. LastPos
Slots == 1 .. Capacity
UsedSlots == 1 .. packetsCount
Packet(p) == [pos |-> p, tries |-> 0, age |-> 0]
Idle == [pc |-> "idle", pos |-> FirstPos]
Buffered == {packets[i].pos : i \in UsedSlots}

Init ==
  /\ seqNumLocal = FirstPos
  /\ sender = [s \in Senders |-> Idle]
  /\ packets = [i \in Slots |-> Packet(FirstPos)]
  /\ packetsCount = 0
  /\ shouldStop = FALSE
  /\ thread = [pc |-> "start", slot |-> 1, timed |-> FALSE]
  /\ fini = "no"
  /\ onWire = {} /\ received = {} /\ tracked = {} /\ gaveUp = {}

(* The resend thread is the only one that keeps the mutex between actions.   *)
MutexFree == thread.pc \notin {"top", "parking"}

(* chiaki_cond_signal wakes the thread only if it is parked.                 *)
Signalled(t) == IF t.pc = "parked" THEN [t EXCEPT !.pc = "signalled"] ELSE t

-----------------------------------------------------------------------------
(* chiaki_takion_send_message_data: take a number, transmit, then store the  *)
(* packet, each under a lock of its own or none.                             *)
TakeSeqNum(s) ==
  /\ sender[s].pc = "idle"
  /\ fini = "no"
  /\ seqNumLocal <= LastPos
  /\ sender' = [sender EXCEPT ![s] = [pc |-> "numbered", pos |-> seqNumLocal]]
  /\ seqNumLocal' = seqNumLocal + 1
  /\ UNCHANGED <<bufferVars, shouldStop, thread, fini, peerVars, tracked, gaveUp>>

Transmit(s) ==
  /\ sender[s].pc = "numbered"
  /\ sender' = [sender EXCEPT ![s].pc = "sent"]
  /\ onWire' = onWire \cup {sender[s].pos}
  /\ UNCHANGED <<seqNumLocal, bufferVars, shouldStop, thread, fini, received, tracked, gaveUp>>

(* send() failed: the packet is freed, its number stays taken.               *)
TransmitFails(s) ==
  /\ sender[s].pc = "numbered"
  /\ sender' = [sender EXCEPT ![s] = Idle]
  /\ UNCHANGED <<seqNumLocal, bufferVars, shouldStop, thread, fini, peerVars, tracked, gaveUp>>

(* chiaki_takion_send_buffer_push; the caller ignores its error.             *)
Push(s) ==
  /\ sender[s].pc = "sent"
  /\ MutexFree
  /\ sender' = [sender EXCEPT ![s] = Idle]
  /\ IF \/ packetsCount >= Capacity
        \/ \E i \in UsedSlots : Cast(packets[i].pos) = Cast(sender[s].pos)
       THEN UNCHANGED <<bufferVars, thread, tracked>>
       ELSE /\ packetsCount' = packetsCount + 1
            /\ packets' = [packets EXCEPT ![packetsCount + 1] = Packet(sender[s].pos)]
            /\ tracked' = tracked \cup {sender[s].pos}
            /\ thread' = IF packetsCount = 0 THEN Signalled(thread) ELSE thread
  /\ UNCHANGED <<seqNumLocal, shouldStop, fini, peerVars, gaveUp>>

(* Mutant: the comparison forgets that numbers wrap.                         *)
AckedSlots_Plain(seq) == {i \in UsedSlots : Cast(packets[i].pos) <= seq}

(* Removing entries from the array: those of kept move to the front in their  *)
(* order, the slots behind them keep what they held.                         *)
Compact(array, kept) ==
  LET Rank(j) == Cardinality({k \in kept : k <= j})
  IN  [i \in DOMAIN array |-> IF i <= Cardinality(kept)
                                THEN array[CHOOSE j \in kept : Rank(j) = i]
                                ELSE array[i]]

(* chiaki_takion_send_buffer_ack: every packet up to seq leaves, the others  *)
(* move down in order; the slots past the new count keep what they held.     *)
AckedSlots(seq) ==
  {i \in UsedSlots : Cast(packets[i].pos) = seq \/ SeqLt(packets[i].pos, seq)}

RemoveUpTo(seq) ==
  LET kept == UsedSlots \ AckedSlots(seq)
  IN  /\ packets' = Compact(packets, kept)
      /\ packetsCount' = Cardinality(kept)

(* takion_handle_packet_message_data_ack, on the takion thread.  The console *)
(* acknowledges up to p once it has every position up to p; old              *)
(* acknowledgements may arrive late or twice.                                *)
Ack(p) ==
  /\ fini = "no"
  /\ MutexFree
  /\ FirstPos .. p \subseteq received
  /\ RemoveUpTo(Cast(p))
  /\ UNCHANGED <<seqNumLocal, sender, shouldStop, thread, fini, peerVars, tracked, gaveUp>>

-----------------------------------------------------------------------------
(* takion_send_buffer_thread_func and takion_send_buffer_resend.             *)
StopThread == thread' = [thread EXCEPT !.pc = "exited"]

(* Lock, then evaluate the predicate of the wait that fits the buffer.       *)
Start ==
  /\ thread.pc = "start"
  /\ thread' = [thread EXCEPT !.pc = "top"]
  /\ UNCHANGED <<seqNumLocal, sender, bufferVars, shouldStop, fini, peerVars, tracked, gaveUp>>

CheckPredicate ==
  /\ thread.pc = "top"
  /\ thread' = [thread EXCEPT !.pc = IF shouldStop THEN "exited" ELSE "parking",
                              !.timed = packetsCount > 0]
  /\ UNCHANGED <<seqNumLocal, sender, bufferVars, shouldStop, fini, peerVars, tracked, gaveUp>>

(* pthread_cond_wait: enqueue and release the mutex at once.                 *)
Park ==
  /\ thread.pc = "parking"
  /\ thread' = [thread EXCEPT !.pc = "parked"]
  /\ UNCHANGED <<seqNumLocal, sender, bufferVars, shouldStop, fini, peerVars, tracked, gaveUp>>

WakeupTimeout ==
  /\ thread.pc = "parked"
  /\ thread.timed
  /\ thread' = [thread EXCEPT !.pc = "timedout"]
  /\ UNCHANGED <<seqNumLocal, sender, bufferVars, shouldStop, fini, peerVars, tracked, gaveUp>>

Due(i) == packets[i].age >= DueAge
Exhausted(i) == Due(i) /\ packets[i].tries >= TriesMax

(* Mutant: retransmissions are not counted.                                  *)
ResendFrom_Uncounted(k) ==
  LET passed == {i \in UsedSlots : i >= k /\ Due(i)}
  IN  /\ packets' = [i \in Slots |-> IF i \in passed THEN [packets[i] EXCEPT !.age = 0]
                                                      ELSE packets[i]]
      /\ onWire' = onWire \cup {packets[i].pos : i \in passed}
      /\ thread' = [thread EXCEPT !.pc = "top"]

(* The loop of takion_send_buffer_resend from slot k on, under the mutex:    *)
(* due packets are sent again until one is out of tries.  For that one the   *)
(* mutex is released, with the slot (not the packet) remembered.             *)
ResendFrom(k) ==
  LET ahead == {i \in UsedSlots : i >= k}
      spent == {i \in ahead : Exhausted(i)}
      passed == {i \in ahead : Due(i) /\ \A j \in spent : i < j}
  IN  /\ packets' = [i \in Slots |->
                       IF i \in passed
                         THEN [packets[i] EXCEPT !.age = 0, !.tries = @ + 1]
                         ELSE packets[i]]
      /\ onWire' = onWire \cup {packets[i].pos : i \in passed}
      /\ thread' = IF spent = {}
                     THEN [thread EXCEPT !.pc = "top"]
                     ELSE [thread EXCEPT !.pc = "givingUp",
                                         !.slot = CHOOSE i \in spent : \A j \in spent : i <= j]

(* After a timeout the predicate is not evaluated again.                     *)
WokenByTimeout ==
  /\ thread.pc = "timedout"
  /\ IF shouldStop THEN StopThread /\ UNCHANGED <<packets, onWire>> ELSE ResendFrom(1)
  /\ UNCHANGED <<seqNumLocal, sender, packetsCount, shouldStop, fini, received, tracked, gaveUp>>

WokenBySignal ==
  /\ thread.pc = "signalled"
  /\ \/ shouldStop /\ StopThread /\ UNCHANGED <<packets, onWire>>
     \/ ~shouldStop /\ ~thread.timed /\ packetsCount > 0 /\ ResendFrom(1)
     \/ /\ ~shouldStop /\ (thread.timed \/ packetsCount = 0)
        /\ thread' = [thread EXCEPT !.pc = "parking"]
        /\ UNCHANGED <<packets, onWire>>
  /\ UNCHANGED <<seqNumLocal, sender, packetsCount, shouldStop, fini, received, tracked, gaveUp>>

(* packet->seq_num is read after the mutex was released, and acknowledged.   *)
GiveUp ==
  /\ thread.pc = "givingUp"
  /\ LET seq == Cast(packets[thread.slot].pos)
     IN  /\ RemoveUpTo(seq)
         /\ gaveUp' = gaveUp \cup {packets[i].pos : i \in AckedSlots(seq)}
  /\ thread' = [thread EXCEPT !.pc = "relocking"]
  /\ UNCHANGED <<seqNumLocal, sender, shouldStop, fini, peerVars, tracked>>

(* i goes back by one unless it is the first slot, then the loop adds one.   *)
ResumeResend ==
  /\ thread.pc = "relocking"
  /\ ResendFrom(IF thread.slot > 1 THEN thread.slot ELSE 2)
  /\ UNCHANGED <<seqNumLocal, sender, packetsCount, shouldStop, fini, received, tracked, gaveUp>>

-----------------------------------------------------------------------------
(* chiaki_takion_send_buffer_fini: neither the write nor the signal is       *)
(* under the mutex.  The takion thread calls it once nobody sends.           *)
FiniStop ==
  /\ fini = "no"
  /\ \A s \in Senders : sender[s].pc = "idle"
  /\ shouldStop' = TRUE
  /\ fini' = "stopping"
  /\ UNCHANGED <<seqNumLocal, sender, bufferVars, thread, peerVars, tracked, gaveUp>>

FiniSignal ==
  /\ fini = "stopping"
  /\ fini' = "joining"
  /\ thread' = Signalled(thread)
  /\ UNCHANGED <<seqNumLocal, sender, bufferVars, shouldStop, peerVars, tracked, gaveUp>>

FiniJoin ==
  /\ fini = "joining"
  /\ thread.pc = "exited"
  /\ fini' = "done"
  /\ packetsCount' = 0
  /\ UNCHANGED <<seqNumLocal, sender, packets, shouldStop, thread, peerVars, tracked, gaveUp>>

(* The clock and the console.                                                *)
Tick ==
  /\ \E i \in UsedSlots : packets[i].age < DueAge
  /\ packets' = [i \in Slots |-> IF i \in UsedSlots /\ packets[i].age < DueAge
                                   THEN [packets[i] EXCEPT !.age = @ + 1]
                                   ELSE packets[i]]
  /\ UNCHANGED <<seqNumLocal, sender, packetsCount, shouldStop, thread, fini, peerVars, tracked, gaveUp>>

Receive(p) ==
  /\ p \in onWire \ received
  /\ received' = received \cup {p}
  /\ UNCHANGED <<seqNumLocal, sender, bufferVars, shouldStop, thread, fini, onWire, tracked, gaveUp>>

SenderStep == \E s \in Senders : TakeSeqNum(s) \/ Transmit(s) \/ TransmitFails(s) \/ Push(s)
ThreadStep == Start \/ CheckPredicate \/ Park \/ WakeupTimeout \/ WokenByTimeout
                \/ WokenBySignal \/ GiveUp \/ ResumeResend
FiniStep == FiniStop \/ FiniSignal \/ FiniJoin
PeerStep == \E p \in Positions : Receive(p) \/ Ack(p)

Next == SenderStep \/ ThreadStep \/ FiniStep \/ PeerStep \/ Tick

Spec == Init /\ [][Next]_vars

(* Threads are scheduled, the mutex is handed over, waits time out and time  *)
(* passes; nothing is assumed of the senders, the network or the console.    *)
Fairness ==
  /\ WF_vars(Start) /\ WF_vars(CheckPredicate) /\ WF_vars(Park) /\ WF_vars(WakeupTimeout)
  /\ WF_vars(WokenByTimeout) /\ WF_vars(WokenBySignal) /\ WF_vars(GiveUp)
  /\ WF_vars(ResumeResend)
  /\ WF_vars(FiniSignal) /\ WF_vars(FiniJoin)
  /\ WF_vars(Tick)
FairSpec == Spec /\ Fairness

-----------------------------------------------------------------------------
(* The buffer is gone: where several components share a run.                 *)
AtRest ==
  /\ seqNumLocal = FirstPos /\ sender = [s \in Senders |-> Idle]
  /\ packets = [i \in Slots |-> Packet(FirstPos)] /\ packetsCount = 0
  /\ shouldStop = TRUE /\ thread = [pc |-> "exited", slot |-> 1, timed |-> FALSE]
  /\ fini = "done" /\ onWire = {} /\ received = {} /\ tracked = {} /\ gaveUp = {}

SlotType == [pos : Positions, tries : 0 .. TriesMax, age : 0 .. DueAge]

TypeOK ==
  /\ seqNumLocal \in FirstPos .. (LastPos + 1)
  /\ sender \in [Senders -> [pc : {"idle", "numbered", "sent"}, pos : Positions]]
  /\ packets \in [Slots -> SlotType]
  /\ packetsCount \in 0 .. Capacity
  /\ shouldStop \in BOOLEAN
  /\ thread \in [pc : {"start", "top", "parking", "parked", "signalled", "timedout",
                       "givingUp", "relocking", "exited"},
                 slot : Slots, timed : BOOLEAN]
  /\ fini \in {"no", "stopping", "joining", "done"}
  /\ onWire \subseteq Positions /\ received \subseteq onWire
  /\ tracked \subseteq onWire
  /\ gaveUp \subseteq Positions

(* A packet the buffer took over stays in it, once, until the console has it *)
(* or the resend thread gave it up: an acknowledgement never removes a       *)
(* packet it does not cover, whatever order packets were stored in and       *)
(* wherever the numbers wrap.                                                *)
NothingVanishes ==
  /\ fini # "done" => tracked \subseteq Buffered \cup received \cup gaveUp
  /\ Buffered \subseteq tracked
  /\ \A i, j \in UsedSlots : packets[i].pos = packets[j].pos => i = j

(* The wait without a timeout is only ever slept in on an empty buffer: push *)
(* signals on the change from 0 to 1 packets only, and that is enough.       *)
NeverSleepsOnPackets ==
  packetsCount > 0 => ~(thread.pc \in {"parking", "parked"} /\ ~thread.timed)

(* Every packet in the buffer leaves it (acknowledged, or given up after the *)
(* last retry), unless the buffer is shut down first.                        *)
Drains == \A p \in Positions : p \in Buffered ~> p \notin Buffered \/ shouldStop

(* With packets in the buffer the resend thread sleeps with a timeout, so    *)
(* fini's join returns.                                                      *)
FiniReturnsWithPackets == fini = "joining" /\ packetsCount > 0 ~> fini = "done"

(* chiaki_takion_send_buffer_fini asserts that the join succeeded; it has to *)
(* return for that.                                                          *)
FiniReturns == fini = "joining" ~> fini = "done"
=============================================================================
