---------------------------- MODULE TakionReceive ----------------------------
(***************************************************************************)
(* The receiving half of takion (lib/src/takion.c): recv_thread moves      *)
(* datagrams from the socket into the recv queue, the takion thread takes  *)
(* them out, reorders the data packets, postpones audio and video until    *)
(* the remote key is known, and a third thread closes the connection.      *)
(*                                                                         *)
(* A critical section of recv_queue_mutex is one action.  Handling a       *)
(* packet touches only what the takion thread owns and is one action with  *)
(* the pop.  The reorder queue is the set of positions waiting for their   *)
(* turn (module PacketWindow, which ReorderQueue implements).  The network *)
(* loses, repeats and reorders data packets; audio and video packets are   *)
(* numbered as they arrive.                                                *)
(***************************************************************************)
EXTENDS Integers, Sequences, FiniteSets, FiniteSetsExt

CONSTANTS
  Size,         \* entries of data_queue
  PostponeSize, \* TAKION_POSTPONE_PACKETS_SIZE
  LastData,     \* bound: the console numbers its data packets 0 .. LastData
  Bang,         \* the data packet whose callback sets gkcrypt_remote
  AvMax,        \* bound: audio and video packets that arrive
  QueueMax      \* bound: packets in the recv queue at once

ASSUME ReceiveAssumption ==
  /\ {Size, PostponeSize, QueueMax} \subseteq Nat \ {0}
  /\ {LastData, AvMax} \subseteq Nat /\ Bang \in 0 .. LastData

VARIABLES
  worker,       \* the takion thread
  receiver,     \* recv_thread
  closer,       \* the thread in chiaki_takion_close
  started,      \* recv_thread_started
  stopPipe,     \* the stop pipe was written to
  recvQueue, shouldStop,
  arrived,      \* audio and video packets read so far
  remoteKey,    \* gkcrypt_remote is set
  cryptAvailable,
  next, stash,  \* data_queue
  postponed,
  handled       \* the last audio or video packet handled

recvVars == <<recvQueue, shouldStop, arrived>>
packetVars == <<remoteKey, cryptAvailable, next, stash, postponed, handled>>
vars == <<worker, receiver, closer, started, stopPipe, recvQueue, shouldStop, arrived,
          remoteKey, cryptAvailable, next, stash, postponed, handled>>

Data(n) == [kind |-> "data", n |-> n]
Av(n) == [kind |-> "av", n |-> n]

Init ==
  /\ worker = "handshake" /\ receiver = "none" /\ closer = "no"
  /\ started = FALSE /\ stopPipe = FALSE
  /\ recvQueue = <<>> /\ shouldStop = FALSE /\ arrived = 0
  /\ remoteKey = FALSE /\ cryptAvailable = FALSE
  /\ next = 0 /\ stash = {}
  /\ postponed = <<>> /\ handled = 0

Woken(w) == IF w = "waiting" THEN "pop" ELSE w

-----------------------------------------------------------------------------
(* takion_recv: select returns, for the socket only if nobody asked to stop. *)
SelectSocket ==
  /\ receiver = "recv"
  /\ ~stopPipe
  /\ receiver' = "reading"
  /\ UNCHANGED <<worker, closer, started, stopPipe, recvVars, packetVars>>

(* takion_recv_thread_func: push under the mutex, signal without it.         *)
ReceivePacket(p) ==
  /\ receiver = "reading"
  /\ Len(recvQueue) < QueueMax
  /\ recvQueue' = Append(recvQueue, p)
  /\ arrived' = IF p.kind = "av" THEN p.n ELSE arrived
  /\ receiver' = "pushed"
  /\ UNCHANGED <<worker, closer, started, stopPipe, shouldStop, packetVars>>

SignalPush ==
  /\ receiver = "pushed"
  /\ receiver' = "recv"
  /\ worker' = Woken(worker)
  /\ UNCHANGED <<closer, started, stopPipe, recvVars, packetVars>>

(* takion_recv fails: stopped, or an error of the socket.                    *)
ReceiveFails ==
  /\ (receiver = "recv" /\ stopPipe) \/ receiver = "reading"
  /\ shouldStop' = TRUE
  /\ receiver' = "stopping"
  /\ UNCHANGED <<worker, closer, started, stopPipe, recvQueue, arrived, packetVars>>

(* Mutant: the takion thread is not signalled.                               *)
SignalStop_Silent ==
  /\ receiver = "stopping"
  /\ receiver' = "ended"
  /\ UNCHANGED <<worker, closer, started, stopPipe, recvVars, packetVars>>

SignalStop ==
  /\ receiver = "stopping"
  /\ receiver' = "ended"
  /\ worker' = Woken(worker)
  /\ UNCHANGED <<closer, started, stopPipe, recvVars, packetVars>>

-----------------------------------------------------------------------------
(* takion_thread_func                                                        *)
HandshakeSucceeds ==
  /\ worker = "handshake"
  /\ worker' = "created"
  /\ receiver' = "recv"
  /\ UNCHANGED <<closer, started, stopPipe, recvVars, packetVars>>

HandshakeFails ==
  /\ worker = "handshake"
  /\ worker' = "ended"
  /\ UNCHANGED <<receiver, closer, started, stopPipe, recvVars, packetVars>>

SetStarted ==
  /\ worker = "created"
  /\ worker' = "top"
  /\ started' = TRUE
  /\ UNCHANGED <<receiver, closer, stopPipe, recvVars, packetVars>>

(* The first turn of the loop with the remote key peeks every queued data    *)
(* packet to check its MAC.  chiaki_reorder_queue_peek stores the sequence   *)
(* number through a pointer that is NULL here.                               *)
RecheckMacs ==
  /\ worker = "top"
  /\ remoteKey /\ ~cryptAvailable
  /\ cryptAvailable' = TRUE
  /\ worker' = IF stash = {} THEN "top" ELSE "crashed"
  /\ UNCHANGED <<receiver, closer, started, stopPipe, recvVars,
                 remoteKey, next, stash, postponed, handled>>

(* Mutant: the flush waits for an idle moment.                               *)
FlushPostponed_WhenIdle ==
  /\ worker = "top"
  /\ remoteKey => cryptAvailable
  /\ worker' = "pop"
  /\ IF remoteKey /\ postponed # <<>> /\ recvQueue = <<>>
       THEN /\ postponed' = <<>>
            /\ handled' \in {handled} \cup {postponed[i] : i \in DOMAIN postponed}
       ELSE UNCHANGED <<postponed, handled>>
  /\ UNCHANGED <<receiver, closer, started, stopPipe, recvVars,
                 remoteKey, cryptAvailable, next, stash>>

(* Postponed packets are handled in the order they came in; some of them may *)
(* have a MAC that does not match.                                           *)
FlushPostponed ==
  /\ worker = "top"
  /\ remoteKey => cryptAvailable
  /\ worker' = "pop"
  /\ IF remoteKey /\ postponed # <<>>
       THEN /\ postponed' = <<>>
            /\ handled' \in {handled} \cup {postponed[i] : i \in DOMAIN postponed}
       ELSE UNCHANGED <<postponed, handled>>
  /\ UNCHANGED <<receiver, closer, started, stopPipe, recvVars,
                 remoteKey, cryptAvailable, next, stash>>

(* takion_recv_queue_pop                                                     *)
WaitForPacket ==
  /\ worker = "pop"
  /\ recvQueue = <<>> /\ ~shouldStop
  /\ worker' = "waiting"
  /\ UNCHANGED <<receiver, closer, started, stopPipe, recvVars, packetVars>>

(* Mutant: the stop goes before the packets that are still queued.           *)
Leave_AtOnce ==
  /\ worker = "pop"
  /\ shouldStop
  /\ worker' = "ended"
  /\ UNCHANGED <<receiver, closer, started, stopPipe, recvVars, packetVars>>

Leave ==
  /\ worker = "pop"
  /\ recvQueue = <<>> /\ shouldStop
  /\ worker' = "ended"
  /\ UNCHANGED <<receiver, closer, started, stopPipe, recvVars, packetVars>>

(* takion_handle_packet_message_data and takion_flush_data_queue: store the  *)
(* packet unless it is a duplicate, old or too far ahead, then hand out what *)
(* is in order.                                                              *)
Stored(n) ==
  IF n \in next .. (next + Size - 1) THEN stash \cup {n} ELSE stash

HandleData(n) ==
  LET waiting == Stored(n)
      flushed == {k \in waiting : next .. k \subseteq waiting}
  IN  /\ next' = next + Cardinality(flushed)
      /\ stash' = waiting \ flushed
      /\ remoteKey' = (remoteKey \/ Bang \in flushed)
      /\ UNCHANGED <<postponed, handled>>

(* takion_postpone_packet; without space left the packet is forgotten.       *)
Postpone(n) ==
  /\ postponed' = IF Len(postponed) < PostponeSize THEN Append(postponed, n) ELSE postponed
  /\ UNCHANGED <<remoteKey, next, stash, handled>>

HandleAv(n) ==
  IF remoteKey
    THEN handled' = n /\ UNCHANGED <<remoteKey, next, stash, postponed>>
    ELSE Postpone(n)

(* The MAC does not match or the packet is malformed.                        *)
Discard == UNCHANGED <<remoteKey, next, stash, postponed, handled>>

HandlePacket ==
  /\ worker = "pop"
  /\ recvQueue # <<>>
  /\ recvQueue' = Tail(recvQueue)
  /\ LET p == Head(recvQueue)
     IN  \/ p.kind = "data" /\ HandleData(p.n)
         \/ p.kind = "av" /\ HandleAv(p.n)
         \/ Discard
  /\ worker' = "top"
  /\ UNCHANGED <<receiver, closer, started, stopPipe, shouldStop, arrived, cryptAvailable>>

-----------------------------------------------------------------------------
(* chiaki_takion_close                                                       *)
CloseStop ==
  /\ closer = "no"
  /\ stopPipe' = TRUE
  /\ closer' = "stopped"
  /\ UNCHANGED <<worker, receiver, started, recvVars, packetVars>>

(* recv_thread_started is read without a lock.                               *)
CloseCheckStarted ==
  /\ closer = "stopped"
  /\ closer' = IF started THEN "joiningReceiver" ELSE "joiningWorker"
  /\ UNCHANGED <<worker, receiver, started, stopPipe, recvVars, packetVars>>

CloseJoinReceiver ==
  /\ closer = "joiningReceiver"
  /\ receiver = "ended"
  /\ closer' = "joiningWorker"
  /\ UNCHANGED <<worker, receiver, started, stopPipe, recvVars, packetVars>>

CloseJoinWorker ==
  /\ closer = "joiningWorker"
  /\ worker = "ended"
  /\ closer' = "closed"
  /\ UNCHANGED <<worker, receiver, started, stopPipe, recvVars, packetVars>>

ReceiveSome ==
  \/ \E n \in 0 .. LastData : ReceivePacket(Data(n))
  \/ arrived < AvMax /\ ReceivePacket(Av(arrived + 1))

WorkerStep ==
  \/ HandshakeSucceeds \/ HandshakeFails \/ SetStarted
  \/ RecheckMacs \/ FlushPostponed \/ WaitForPacket \/ Leave \/ HandlePacket

CloserStep == CloseStop \/ CloseCheckStarted \/ CloseJoinReceiver \/ CloseJoinWorker

ReceiverStep == SelectSocket \/ ReceiveSome \/ SignalPush \/ ReceiveFails \/ SignalStop

(* A crash ends all threads.                                                 *)
Running == worker # "crashed"
Next == Running /\ (ReceiverStep \/ WorkerStep \/ CloserStep)

Spec == Init /\ [][Next]_vars

(* The threads are scheduled; once the stop pipe is written, select returns, *)
(* in recv_thread and in the handshake.  Packets may come or not.            *)
Fairness ==
  /\ WF_vars(Running /\ (ReceiveSome \/ ReceiveFails))
  /\ WF_vars(Running /\ (SignalPush \/ SignalStop))
  /\ WF_vars(stopPipe /\ HandshakeFails)
  /\ WF_vars(Running /\ (SetStarted \/ RecheckMacs \/ FlushPostponed \/ WaitForPacket
                          \/ Leave \/ HandlePacket))
  /\ WF_vars(Running /\ (CloseCheckStarted \/ CloseJoinReceiver \/ CloseJoinWorker))
FairSpec == Spec /\ Fairness

-----------------------------------------------------------------------------
(* Takion is closed: where several components share a run.                   *)
AtRest ==
  /\ worker = "ended" /\ receiver = "ended" /\ closer = "closed"
  /\ started = TRUE /\ stopPipe = TRUE /\ recvQueue = <<>> /\ shouldStop = TRUE
  /\ arrived = 0 /\ remoteKey = FALSE /\ cryptAvailable = FALSE
  /\ next = 0 /\ stash = {} /\ postponed = <<>> /\ handled = 0

AvIds == 1 .. AvMax
PacketType == {Data(n) : n \in 0 .. LastData} \cup {Av(n) : n \in AvIds}

TypeOK ==
  /\ worker \in {"handshake", "created", "top", "pop", "waiting", "ended", "crashed"}
  /\ receiver \in {"none", "recv", "reading", "pushed", "stopping", "ended"}
  /\ closer \in {"no", "stopped", "joiningReceiver", "joiningWorker", "closed"}
  /\ {started, stopPipe, shouldStop, remoteKey, cryptAvailable} \subseteq BOOLEAN
  /\ Len(recvQueue) <= QueueMax /\ \A i \in DOMAIN recvQueue : recvQueue[i] \in PacketType
  /\ arrived \in 0 .. AvMax
  /\ next \in 0 .. (LastData + 1)
  /\ stash \subseteq (next + 1) .. (next + Size - 1)
  /\ Len(postponed) <= PostponeSize /\ \A i \in DOMAIN postponed : postponed[i] \in AvIds
  /\ handled \in 0 .. AvMax

(* The takion thread never sleeps on a packet or on the stop, although both  *)
(* are signalled after the mutex was released.                               *)
NoMissedWakeup ==
  worker = "waiting" /\ (recvQueue # <<>> \/ shouldStop) => receiver \in {"pushed", "stopping"}

(* The takion thread leaves its loop only after recv_thread pushed its last  *)
(* packet, and with every packet handled: nothing is left for                *)
(* takion_recv_queue_fini.                                                   *)
DrainedBeforeLeaving ==
  worker = "ended" => recvQueue = <<>> /\ receiver \in {"none", "stopping", "ended"}

(* Audio and video packets are handled in the order they arrived in, those   *)
(* that were postponed before those that were still in the recv queue when   *)
(* the key came.                                                             *)
AvInArrivalOrder == [][handled' # handled => handled' > handled]_vars

(* chiaki_takion_close returns, wherever the handshake and the packets are.  *)
CloseReturns == closer = "stopped" ~> closer = "closed" \/ worker = "crashed"

(* "Crypt has become available. Re-checking MACs of %llu packets": the       *)
(* re-check of the queued packets goes through.                              *)
RecheckGoesThrough == worker # "crashed"
=============================================================================
