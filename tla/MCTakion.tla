------------------------------ MODULE MCTakion ------------------------------
(* The receiving half of takion takes its reorder queue for what PacketWindow   *)
(* says of it; the queue itself works beside it, and so do the buffer of sent   *)
(* packets, whose acknowledgement closes the gaps in one step, and the loop     *)
(* that closes them. One of the four is at work, the others are at rest.       *)
EXTENDS TakionReceive, SeqNum, TLC

CONSTANTS SizeExp, Packets, NoPacket, MaxPos, StartPos, Strategies
VARIABLES begin, count, slots, strategy, open, base, pos, held, back, pulled, strayed
Queue == INSTANCE ReorderQueue
(* takion uses a queue of 2^8 slots for numbers of 32 bits, whose sums wrap.   *)
ASSUME QueueAssumption ==
  /\ AddWraps = TRUE
  /\ Queue!RingSize \in Nat \ {0} /\ 2 * Queue!RingSize < NumberSpace
  /\ NumberSpace % Queue!RingSize = 0
  /\ StartPos \in 0 .. MaxPos /\ MaxPos \in Nat
  /\ Strategies \subseteq {"BEGIN", "END"}
queueVars == <<begin, count, slots, strategy, open, base, pos, held, back, pulled, strayed>>

CONSTANTS Senders, Capacity, TriesMax, DueAge, FirstPos, LastPos
VARIABLES seqNumLocal, sender, packets, packetsCount, bufferStop, thread, fini, onWire, received, tracked, gaveUp
Buffer == INSTANCE TakionSendBuffer WITH shouldStop <- bufferStop
(* Fewer packets are sent than half the number space holds.                     *)
ASSUME BufferAssumption ==
  /\ Capacity \in Nat \ {0}
  /\ FirstPos \in Nat /\ LastPos \in Nat /\ LastPos - FirstPos < SeqHalf
bufferVars == <<seqNumLocal, sender, packets, packetsCount, bufferStop, thread, fini, onWire, received, tracked, gaveUp>>

CONSTANT Length
VARIABLES oldCount, acked, array, newCount, i, shift, shiftStart, pc
Loop == INSTANCE AckCompaction WITH Capacity <- Length, packets <- array, count <- oldCount
ASSUME LoopAssumption == Length \in Nat
loopVars == <<oldCount, acked, array, newCount, i, shift, shiftStart, pc>>

MCInit ==
  \/ Init /\ Queue!AtRest /\ Buffer!AtRest /\ Loop!AtRest
  \/ AtRest /\ Queue!Init /\ Buffer!AtRest /\ Loop!AtRest
  \/ AtRest /\ Queue!AtRest /\ Buffer!Init /\ Loop!AtRest
  \/ AtRest /\ Queue!AtRest /\ Buffer!AtRest /\ Loop!Init

MCNext ==
  \/ Next /\ UNCHANGED <<queueVars, bufferVars, loopVars>>
  \/ Queue!Next /\ UNCHANGED <<vars, bufferVars, loopVars>>
  \/ Buffer!Next /\ UNCHANGED <<vars, queueVars, loopVars>>
  \/ Loop!Next /\ UNCHANGED <<vars, queueVars, bufferVars>>

BufferFairness ==
  /\ WF_bufferVars(Buffer!Start) /\ WF_bufferVars(Buffer!CheckPredicate) /\ WF_bufferVars(Buffer!Park)
  /\ WF_bufferVars(Buffer!WakeupTimeout) /\ WF_bufferVars(Buffer!WokenByTimeout)
  /\ WF_bufferVars(Buffer!WokenBySignal) /\ WF_bufferVars(Buffer!GiveUp) /\ WF_bufferVars(Buffer!ResumeResend)
  /\ WF_bufferVars(Buffer!FiniSignal) /\ WF_bufferVars(Buffer!FiniJoin) /\ WF_bufferVars(Buffer!Tick)

MCSpec == MCInit /\ [][MCNext]_<<vars, queueVars, bufferVars, loopVars>> /\ Fairness /\ BufferFairness

(* What ReorderQueue, TakionSendBuffer and AckCompaction say of their state.   *)
QueueIsSound == Queue!PushAssertion /\ Queue!HandedBackOnce /\ Queue!HeldAtItsPosition
ImplementsWindow == Queue!ImplementsWindow /\ Queue!PulledInOrder /\ Queue!KeepsWhatFits
ClosesAllGaps == Loop!ClosesAllGaps(Buffer!Compact) /\ Loop!ReadsEachPacketOnce
NothingVanishes == Buffer!NothingVanishes /\ Buffer!NeverSleepsOnPackets /\ ClosesAllGaps
Drains == Buffer!Drains
EveryCloseReturns == CloseReturns /\ Buffer!FiniReturnsWithPackets
=============================================================================
