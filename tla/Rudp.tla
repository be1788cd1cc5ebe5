-------------------------------- MODULE Rudp --------------------------------
(* The reliable messages of the ctrl connection over a punched socket          *)
(* (lib/src/remote/rudp.c, rudpsendbuffer.c): the session and ctrl threads     *)
(* send, the ctrl thread takes the acknowledgements, a third thread sends       *)
(* again what is not acknowledged and gives up after some tries. The wrap of   *)
(* the numbers is left out (SeqNum).                                         *)
EXTENDS Naturals, Sequences, FiniteSets

CONSTANTS
  Senders,   \* threads that send
  Room,      \* RUDP_SEND_BUFFER_SIZE: 16
  TriesMax,  \* RUDP_DATA_RESEND_TRIES_MAX: 25
  MessagesMax   \* bound: messages sent

VARIABLES
  counter,   \* rudp->counter
  sender,    \* per sender: where it is, its counter and counter_ack
  buffer,    \* packets: the array, of which the first stored are in use
  stored,    \* packets_count
  resend,    \* where the resend thread is, whether its wait has a timeout, its index, what it gives up
  fini,      \* chiaki_rudp_send_buffer_fini: "no", "stopping" (should_stop is set), "joining", "done"
  sent       \* what was on the wire, by its counter_ack

vars == <<counter, sender, buffer, stored, resend, fini, sent>>

Free == [seq |-> 0, tries |-> 0]
Idle == [at |-> "idle", ack |-> 0]
Begin == [at |-> "start", timed |-> FALSE, i |-> 0, seq |-> 0]
Exited == [Begin EXCEPT !.at = "exited"]

(* chiaki_rudp_init, chiaki_rudp_send_buffer_init.                           *)
Init ==
  /\ counter = 1 /\ sender = [s \in Senders |-> Idle]
  /\ buffer = [i \in 1..Room |-> Free] /\ stored = 0
  /\ resend = Begin /\ fini = "no" /\ sent = {}

(* Another part of the system moves.                                         *)
AtRest ==
  /\ counter = MessagesMax + 1 /\ sender = [s \in Senders |-> Idle]
  /\ buffer = [i \in 1..Room |-> Free] /\ stored = 0
  /\ resend = Exited /\ fini = "done" /\ sent = {}

(* The thread has the mutex beyond a step.                                     *)
Locked == resend.at \in {"loop", "parking"}
To(s, place, ack) == sender' = [sender EXCEPT ![s] = [at |-> place, ack |-> ack]]

(* get_then_increase_counter; then the counter is read again, without its      *)
(* mutex: that value the console acknowledges.                               *)
TakeCounter(s) ==
  /\ sender[s].at = "idle" /\ fini = "no" /\ counter <= MessagesMax
  /\ counter' = counter + 1
  /\ To(s, "read", 0)
  /\ UNCHANGED <<buffer, stored, resend, fini, sent>>

ReadCounter(s) ==
  /\ sender[s].at = "read"
  /\ To(s, "send", counter)
  /\ UNCHANGED <<counter, buffer, stored, resend, fini, sent>>

SendRaw(s) ==
  /\ sender[s].at = "send"
  /\ \/ To(s, "push", sender[s].ack) /\ sent' = sent \cup {sender[s].ack}
     \/ To(s, "idle", 0) /\ UNCHANGED sent
  /\ UNCHANGED <<counter, buffer, stored, resend, fini>>

(* chiaki_rudp_send_buffer_push. Two senders may have read the same number:    *)
(* then the second message is refused.                                       *)
Push(s) ==
  /\ sender[s].at = "push" /\ ~Locked
  /\ LET seq == sender[s].ack
         used == \E i \in 1..stored : buffer[i].seq = seq IN
       IF stored = Room \/ used
       THEN UNCHANGED <<buffer, stored>>
       ELSE /\ buffer' = [buffer EXCEPT ![stored + 1] = [seq |-> seq, tries |-> 0]]
            /\ stored' = stored + 1
  /\ To(s, "idle", 0)
  /\ UNCHANGED <<counter, resend, fini, sent>>

(* chiaki_rudp_send_buffer_ack: a packet is acknowledged with all before it.  *)
Kept(seq) == {i \in 1..stored : buffer[i].seq > seq}

(* Those that stay move down in their order, as in takionsendbuffer.c; what     *)
(* lies behind them stays there and can still be read.                         *)
Compact(array, kept) ==
  LET Rank(j) == Cardinality({k \in kept : k <= j})
  IN  [i \in DOMAIN array |-> IF i <= Cardinality(kept)
                                THEN array[CHOOSE j \in kept : Rank(j) = i]
                                ELSE array[i]]

Remove(seq) ==
  /\ buffer' = Compact(buffer, Kept(seq))
  /\ stored' = Cardinality(Kept(seq))

(* chiaki_rudp_ack_packet, on the ctrl thread.                               *)
Acknowledged ==
  /\ ~Locked /\ stored > 0 /\ fini = "no"
  /\ \E seq \in sent : (\E i \in 1..stored : buffer[i].seq = seq) /\ Remove(seq)
  /\ UNCHANGED <<counter, sender, resend, fini, sent>>

------------------------------------------------------------------------------
(* rudp_send_buffer_thread_func: the predicate is looked at with the mutex, and      *)
(* whether there are packets, ...                                             *)
Rests == resend' = IF fini # "no" THEN Exited ELSE [Begin EXCEPT !.at = "parking", !.timed = stored > 0]

Start ==
  /\ resend.at = "start" /\ Rests
  /\ UNCHANGED <<counter, sender, buffer, stored, fini, sent>>

(* ... then the wait gives the mutex back, ...                                  *)
Park ==
  /\ resend.at = "parking" /\ resend' = [resend EXCEPT !.at = "wait"]
  /\ UNCHANGED <<counter, sender, buffer, stored, fini, sent>>

(* ... and ends by its timeout, or without one by the signal of the first packet, which    *)
(* is given with the mutex.                                                    *)
Wake ==
  /\ resend.at = "wait" /\ (resend.timed \/ stored > 0)
  /\ resend' = IF fini # "no" THEN Exited ELSE [resend EXCEPT !.at = "loop", !.i = 1]
  /\ UNCHANGED <<counter, sender, buffer, stored, fini, sent>>

(* rudp_send_buffer_resend. An earlier packet is due no later than the next.  *)
Due(i) == IF i = 1 THEN TRUE ELSE buffer[i].tries < buffer[i - 1].tries

Resend ==
  /\ resend.at = "loop" /\ resend.i <= stored
  /\ LET i == resend.i IN
       \/ i > 1 /\ resend' = [resend EXCEPT !.i = i + 1] /\ UNCHANGED buffer
       \/ /\ Due(i) /\ buffer[i].tries < TriesMax
          /\ buffer' = [buffer EXCEPT ![i].tries = @ + 1]
          /\ resend' = [resend EXCEPT !.i = i + 1]
       \/ /\ Due(i) /\ buffer[i].tries = TriesMax
          /\ resend' = [resend EXCEPT !.at = "unlocked"] /\ UNCHANGED buffer
  /\ UNCHANGED <<counter, sender, stored, fini, sent>>

LoopEnds ==
  /\ resend.at = "loop" /\ resend.i > stored
  /\ Rests
  /\ UNCHANGED <<counter, sender, buffer, stored, fini, sent>>

(* The mutex is released, the number read from the slot, the mutex taken       *)
(* again to remove the packet, and the loop goes on.                          *)
ReadSlot ==
  /\ resend.at = "unlocked"
  /\ resend' = [resend EXCEPT !.at = "giveUp", !.seq = buffer[resend.i].seq]
  /\ UNCHANGED <<counter, sender, buffer, stored, fini, sent>>

GiveUp ==
  /\ resend.at = "giveUp"
  /\ Remove(resend.seq)
  /\ resend' = [resend EXCEPT !.at = "loop", !.i = IF @ > 1 THEN @ ELSE 2]
  /\ UNCHANGED <<counter, sender, fini, sent>>

(* Mutant: the signal is not given.                                           *)
FiniSignal_Silent ==
  /\ fini = "stopping" /\ fini' = "joining"
  /\ UNCHANGED <<counter, sender, buffer, stored, resend, sent>>

(* chiaki_rudp_send_buffer_fini, when the threads that send are gone: should_stop is set   *)
(* and signalled without the mutex, and the thread is joined.                       *)
FiniStop ==
  /\ fini = "no" /\ \A s \in Senders : sender[s].at = "idle"
  /\ fini' = "stopping"
  /\ UNCHANGED <<counter, sender, buffer, stored, resend, sent>>
FiniSignal ==
  /\ fini = "stopping" /\ fini' = "joining"
  /\ resend' = IF resend.at = "wait" THEN Exited ELSE resend
  /\ UNCHANGED <<counter, sender, buffer, stored, sent>>
FiniJoin ==
  /\ fini = "joining" /\ resend.at = "exited" /\ fini' = "done"
  /\ UNCHANGED <<counter, sender, buffer, stored, resend, sent>>

Thread == Start \/ Park \/ Wake \/ Resend \/ LoopEnds \/ ReadSlot \/ GiveUp
Fini == FiniSignal \/ FiniJoin
Next == \/ \E s \in Senders : TakeCounter(s) \/ ReadCounter(s) \/ SendRaw(s) \/ Push(s)
        \/ Acknowledged \/ Thread \/ FiniStop \/ Fini
Fairness == WF_vars(Thread) /\ WF_vars(Fini) /\ \A s \in Senders : WF_vars(Push(s))
Spec == Init /\ [][Next]_vars /\ Fairness

------------------------------------------------------------------------------
(* The signal of fini is given when the thread has looked at the predicate and does not    *)
(* sleep yet: it goes to sleep for ever (rudpsendbuffer.c:80-83, 264).                    *)
SignalMissed == fini = "joining" /\ resend.at = "parking" /\ ~resend.timed

(* The buffer empties: a packet the console never acknowledges leaves it after  *)
(* a bounded number of tries, even while others come and go. And fini returns, whatever   *)
(* the thread is at, but where its signal is missed; never with packets in the buffer.      *)
BufferEmpties ==
  /\ (stored > 0) ~> (stored = 0 \/ fini # "no")
  /\ (fini = "stopping") ~> (fini = "done" \/ SignalMissed)
  /\ (fini = "joining" /\ stored > 0) ~> (fini = "done")
=============================================================================
