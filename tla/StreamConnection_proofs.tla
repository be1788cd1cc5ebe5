----------------------- MODULE StreamConnection_proofs -----------------------
(* The run thread of the stream connection, the packet statistics and the video *)
(* receiver, for every set of reasons and every size of the numbers: lifetimes, *)
(* stops, the losses that are reported and the frames that are handed on.      *)
EXTENDS MCStream, FiniteSetTheorems, WellFoundedInduction, TLAPS

Connected == {"event", "eventStop", "relock", "stream", "stopSender"}

(* What the place of the run thread says of the handshake.                   *)
StateFollowsRun ==
  /\ pc \in {"begin"} \cup Connected => state = "IDLE"
  /\ pc = "connect" => state = "TAKION_CONNECT"
  /\ pc = "bang" => state = "EXPECT_BANG"
  /\ pc \in {"info", "startSender"} => state = "EXPECT_STREAMINFO"
  /\ pc \in Connected => ~finished
  /\ pc = "stopSender" => stop \/ disconnected

(* What it says of the threads and objects run creates and ends.             *)
LifetimesFollowRun ==
  /\ receivers <=> pc \notin {"begin", "returned"}
  /\ takion \in {"handshake", "open", "leaving", "ended"} => pc \notin {"begin", "free", "returned"}
  /\ takion = "closed" => pc \in {"free", "returned"}
  /\ sender <=> pc \in Connected
  /\ active <=> sender
  /\ congestion /\ pc \in {"close", "free", "returned"} => stop /\ state = "TAKION_CONNECT"
  /\ pc = "begin" => ~congestion

(* A STREAMINFO the run thread has not reached yet is in the buffer.         *)
EarlyInfoIsKept == pc = "bang" => "STREAMINFO" \in unsent \/ early

ResultIsExplained ==
  pc \in {"close", "free", "returned"} /\ result \in {"SUCCESS", "CANCELED"} => stop

IInv ==
  /\ TypeOK
  /\ StateFollowsRun
  /\ LifetimesFollowRun
  /\ EarlyInfoIsKept
  /\ InfoIsNotMissed
  /\ ResultIsExplained
  /\ SenderIsLive

USE DEF TypeOK, StateFollowsRun, LifetimesFollowRun, EarlyInfoIsKept, InfoIsNotMissed,
        ResultIsExplained, SenderIsLive, Connected, Waits, Locked, shared, helpers
-----------------------------------------------------------------------------
(* No answer of the console is out before BIG.                               *)
LEMMA InitInv == Init => IInv
  BY NoReasonIsNone DEF Init, IInv

(* Each step of the run thread keeps the invariant.                          *)
LEMMA RunInv == IInv /\ Run => IInv'
<1> SUFFICES ASSUME IInv, Run PROVE IInv'
  OBVIOUS
<1> USE NoReasonIsNone DEF IInv, Predicate, EnterWait, InTime, TimedOut, Disconnect
<1>1. CASE Begin
  <2>1. TypeOK'
    BY <1>1 DEF Begin
  <2>2. StateFollowsRun'
    BY <1>1 DEF Begin
  <2>3. LifetimesFollowRun'
    BY <1>1 DEF Begin
  <2>4. EarlyInfoIsKept'
    BY <1>1 DEF Begin
  <2>5. InfoIsNotMissed'
    BY <1>1 DEF Begin
  <2>6. ResultIsExplained'
    BY <1>1 DEF Begin
  <2>7. SenderIsLive'
    BY <1>1 DEF Begin
  <2>. QED
    BY <2>1, <2>2, <2>3, <2>4, <2>5, <2>6, <2>7 DEF IInv
<1>2. CASE StoppedInConnect
  BY <1>2 DEF StoppedInConnect
<1>3. CASE ConnectTimesOut
  BY <1>3 DEF ConnectTimesOut
<1>4. CASE SendBig
  BY <1>4 DEF SendBig
<1>5. CASE BangWaitEnds
  BY <1>5 DEF BangWaitEnds
<1>6. CASE InfoWaitEnds
  BY <1>6 DEF InfoWaitEnds
<1>7. CASE StartSender
  <2>1. TypeOK'
    BY <1>7 DEF StartSender
  <2>2. StateFollowsRun'
    BY <1>7 DEF StartSender
  <2>3. LifetimesFollowRun'
    BY <1>7 DEF StartSender
  <2>4. EarlyInfoIsKept'
    BY <1>7 DEF StartSender
  <2>5. InfoIsNotMissed'
    BY <1>7 DEF StartSender
  <2>6. ResultIsExplained'
    BY <1>7 DEF StartSender
  <2>7. SenderIsLive'
    BY <1>7 DEF StartSender
  <2>. QED
    BY <2>1, <2>2, <2>3, <2>4, <2>5, <2>6, <2>7 DEF IInv
<1>8. CASE EventCallback
  BY <1>8 DEF EventCallback
<1>9. CASE CallbackStops
  BY <1>9 DEF CallbackStops
<1>10. CASE StartStreaming
  BY <1>10 DEF StartStreaming
<1>11. CASE Heartbeat
  BY <1>11 DEF Heartbeat
<1>12. CASE StreamEnds
  BY <1>12 DEF StreamEnds
<1>13. CASE StopSender
  BY <1>13 DEF StopSender
<1>14. CASE CloseTakion
  BY <1>14 DEF CloseTakion
<1>15. CASE FreeReceivers
  BY <1>15 DEF FreeReceivers
<1>. QED
  BY <1>1, <1>2, <1>3, <1>4, <1>5, <1>6, <1>7, <1>8, <1>9, <1>10, <1>11, <1>12, <1>13,
     <1>14, <1>15 DEF Run

(* Each step of the takion thread keeps it.                                  *)
LEMMA TakionInv == IInv /\ Takion => IInv'
<1> SUFFICES ASSUME IInv, Takion PROVE IInv'
  OBVIOUS
<1> USE NoReasonIsNone DEF IInv, runThread
<1>1. CASE TakionConnects
  BY <1>1 DEF TakionConnects
<1>2. CASE TakionLeaves
  BY <1>2 DEF TakionLeaves
<1>3. CASE TakionEnds
  BY <1>3 DEF TakionEnds
<1>4. ASSUME NEW ok \in BOOLEAN, HandleBang(ok) PROVE IInv'
  BY <1>4 DEF HandleBang, Handles
<1>5. ASSUME NEW ok \in BOOLEAN, HandleStreamInfo(ok) PROVE IInv'
  BY <1>5 DEF HandleStreamInfo, Handles, StreamInfo
<1>6. ASSUME NEW r \in Reasons, HandleDisconnect(r) PROVE IInv'
  BY <1>6 DEF HandleDisconnect
<1>. QED
  BY <1>1, <1>2, <1>3, <1>4, <1>5, <1>6 DEF Takion

(* So does every step, the application's included.                           *)
LEMMA NextInv == IInv /\ [Next]_vars => IInv'
<1> SUFFICES ASSUME IInv, [Next]_vars PROVE IInv'
  OBVIOUS
<1> USE DEF IInv, others
<1>1. CASE Run
  BY <1>1, RunInv
<1>2. CASE Takion
  BY <1>2, TakionInv
<1>3. CASE Stop
  BY <1>3 DEF Stop
<1>4. CASE UseSender
  BY <1>4 DEF UseSender
<1>5. CASE LeaveSender
  BY <1>5 DEF LeaveSender
<1>6. CASE UNCHANGED vars
  BY <1>6 DEF vars
<1>. QED
  BY <1>1, <1>2, <1>3, <1>4, <1>5, <1>6 DEF Next

(* The lifetimes and stops of the run thread hold at any time.                *)
THEOREM InvariantHolds == Spec => []IInv
  BY InitInv, NextInv, PTL DEF Spec
-----------------------------------------------------------------------------
(* The variables have their types, and a disconnect always has its reason.   *)
THEOREM TypeCorrect == Spec => []TypeOK
<1>1. IInv => TypeOK
  BY DEF IInv
<1>. QED
  BY <1>1, InvariantHolds, PTL

(* The controller state never reaches a feedback sender that is gone.        *)
THEOREM SenderLives == Spec => []SenderIsLive
<1>1. IInv => SenderIsLive
  BY DEF IInv
<1>. QED
  BY <1>1, InvariantHolds, PTL

(* The receivers outlive the takion thread.                                  *)
THEOREM ReceiversOutliveTakion == Spec => []CallbacksHaveReceivers
<1>1. IInv => CallbacksHaveReceivers
  BY DEF IInv, CallbacksHaveReceivers
<1>. QED
  BY <1>1, InvariantHolds, PTL

(* Whatever another thread works on exists until it is done.                  *)
THEOREM LifetimesAreKept == Spec => []LifetimesHold
<1>1. IInv => LifetimesHold
  BY DEF IInv, LifetimesHold, CallbacksHaveReceivers
<1>. QED
  BY <1>1, InvariantHolds, PTL

(* STREAMINFO may come on either side of the BANG.                           *)
THEOREM InfoArrives == Spec => []InfoIsNotMissed
<1>1. IInv => InfoIsNotMissed
  BY DEF IInv
<1>. QED
  BY <1>1, InvariantHolds, PTL

(* "Stopped" is reported only to an application that stopped the session.    *)
THEOREM StopWasRequested == Spec => []StoppedOnRequest
<1>1. IInv => StoppedOnRequest
  BY DEF IInv, StoppedOnRequest
<1>. QED
  BY <1>1, InvariantHolds, PTL

(* Nothing sends through a closed takion but the congestion thread after a   *)
(* stop in the first wait.                                                   *)
THEOREM SendersAreStopped == Spec => []SendersStopFirst
<1>1. IInv => SendersStopFirst
  BY DEF IInv, SendersStopFirst
<1>. QED
  BY <1>1, InvariantHolds, PTL

-----------------------------------------------------------------------------
(* The statistics of received packets                                        *)

StreamVars == <<part, vars, videoVars, audioVars, feedbackVars, statsVars>>

Moving == pushing.at # "idle"
Resetting == reporter \in {"got", "min"}
Missing == Cardinality(overdue)
(* Packets of the current interval, with the one that is being counted.      *)
Count == IF pushing.at = "count" THEN counted + 1 ELSE counted

StatsTyped ==
  /\ {counted, seqMin, seqMax, genReceived, genLost, place, withheld} \subseteq Nat
  /\ told.received \in Nat /\ told.lost \in Nat /\ frames.lost \in Nat /\ tangled \in BOOLEAN
  /\ pushing \in [at : {"idle", "count", "max"}, read : Nat, packet : Nat]

(* The numbers stand in the order in which they were set, and nothing is missing but what   *)
(* was passed over.                                                           *)
Ordered ==
  /\ open.max \in Nat /\ open.max <= seqMax /\ seqMin <= seqMax /\ seqMax <= place /\ place < StatsSpace
  /\ reporter # "got" => open.max <= seqMin
  /\ IF Moving THEN pushing.packet = place /\ place - seqMax \in 1 .. (StatsSpace \div 2 - 1) ELSE seqMax = place
  /\ overdue \subseteq 1 .. place
  /\ open.overdue \in Nat /\ open.overdue <= Missing /\ Missing - open.overdue <= place - open.max

(* As long as no count has met a reset: what is passed over in the interval is what its     *)
(* counts say.                                                              *)
Exact ==
  ~tangled =>
    /\ Resetting => ~Moving /\ open.max = place /\ Missing = open.overdue /\ (reporter = "min" => seqMin = place)
    /\ ~Resetting => /\ pushing.at = "count" => pushing.read = counted
                     /\ Missing - open.overdue + Count + seqMin = place

(* What was told and withheld at the last report is what was missing then, but for the slip. *)
Slipped == slip \in Nat /\ Stats!Distance(told.lost + withheld + genLost, open.overdue + frames.lost) <= slip
Shared == told.lost * LossScale <= LossMax * (told.lost + told.received)

StatsInv == StatsTyped /\ (~disturbed => Ordered /\ Exact /\ Slipped /\ Shared)

LEMMA StatsCardinality == ASSUME NEW S PROVE Stats!Cardinality(S) = Cardinality(S)
BY DEF Stats!Cardinality, Cardinality

LEMMA MissingIsCounted == ASSUME StatsTyped, Ordered PROVE IsFiniteSet(overdue) /\ Missing \in Nat
<1>1. IsFiniteSet(1 .. place)
  BY FS_Interval DEF StatsTyped
<1> QED BY <1>1, FS_Subset, FS_CardinalityType DEF Ordered, Missing

(* A packet further on in the stream, those between are passed over.         *)
LEMMA PassedOver ==
  ASSUME StatsTyped, Ordered, NEW n \in Nat, place < n
  PROVE  Cardinality(overdue \cup (place + 1) .. (n - 1)) = Missing + (n - 1 - place)
<1> DEFINE between == (place + 1) .. (n - 1)
<1>0. place \in Nat
  BY DEF StatsTyped
<1>1. IsFiniteSet(between) /\ Cardinality(between) = n - 1 - place
  <2>1. place + 1 \in Int /\ n - 1 \in Int
        /\ (IF place + 1 > n - 1 THEN 0 ELSE (n - 1) - (place + 1) + 1) = n - 1 - place
    BY <1>0
  <2> QED  BY <2>1, FS_Interval
<1>2. overdue \cap between = {}
  <2>1. \A x \in between : x \notin 1 .. place
    BY <1>0
  <2> QED  BY <2>1 DEF Ordered
<1> HIDE DEF between
<1>3. Cardinality(overdue \cup between) = Cardinality(overdue) + Cardinality(between) - Cardinality({})
  BY <1>1, <1>2, MissingIsCounted, FS_Union
<1> QED  BY <1>0, <1>1, <1>3, MissingIsCounted, FS_EmptySet DEF between, Missing

(* Whatever the interval counted, it tells of no more losses than numbers went by; and of   *)
(* those that are missing if no count met a reset.                              *)
LEMMA LossIsWhatIsMissing ==
  ASSUME StatsTyped, Ordered, reporter # "got"
  PROVE  /\ Stats!Lost \in Nat /\ Stats!Lost <= place - open.max
         /\ Exact /\ ~tangled /\ ~Moving /\ ~Resetting => Stats!Lost = Missing - open.overdue
<1>1. Stats!Diff = seqMax - seqMin
  <2>1. seqMax - seqMin \in 0 .. (DiffSpace - 1) /\ DiffSpace \in Nat /\ DiffSpace > 0
    BY StatsAssumption DEF StatsTyped, Ordered
  <2> QED  BY <2>1 DEF Stats!Diff
<1>2. Missing \in Nat
  BY MissingIsCounted
<1> QED  BY <1>1, <1>2 DEF Stats!Lost, StatsTyped, Ordered, Exact, Count, Moving

(* What is told of the losses is within the share.                            *)
LEMMA WithinTheShare ==
  ASSUME NEW lost \in Nat, NEW total \in Nat
  PROVE  /\ Stats!Capped(lost, total) \in Nat /\ Stats!Capped(lost, total) <= lost
         /\ Stats!Capped(lost, total) * LossScale <= LossMax * total
<1> DEFINE share == LossMax * total
           down == share \div LossScale
<1>1. share \in Nat /\ LossScale \in Nat \ {0}
  BY StatsAssumption
<1> HIDE DEF share
<1>2. down \in Nat /\ down * LossScale <= share
  BY <1>1
<1>3. lost * LossScale > share => down <= lost
  <2> SUFFICES ASSUME lost * LossScale > share, down > lost PROVE FALSE
    BY <1>2
  <2>1. down * LossScale >= lost * LossScale
    BY <1>1, <1>2
  <2> QED BY <1>1, <1>2, <2>1
<1> HIDE DEF down
<1>4. Stats!Capped(lost, total) = IF lost * LossScale > share THEN down ELSE lost
  BY DEF Stats!Capped, share, down
<1>5. lost * LossScale \in Nat
  BY <1>1
<1> QED BY <1>1, <1>2, <1>3, <1>4, <1>5 DEF share

(* Three distances.                                                            *)
LEMMA DistancesAdd ==
  ASSUME NEW a \in Nat, NEW b \in Nat, NEW c \in Nat, NEW d \in Nat, NEW e \in Nat, NEW f \in Nat,
         Stats!Distance(a, b) <= e, Stats!Distance(c, d) <= f
  PROVE  Stats!Distance(a + c, b + d) <= e + f
BY DEF Stats!Distance

LEMMA LossesSlip ==
  ASSUME StatsTyped, Ordered, Exact, Slipped, ~Resetting
  PROVE  /\ Stats!Distance(told.lost + withheld + genLost + Stats!Lost, Missing + frames.lost)
              <= slip + (IF tangled \/ Moving THEN place - open.max ELSE 0)
         /\ slip + (IF tangled \/ Moving THEN place - open.max ELSE 0) \in Nat
<1> DEFINE before == told.lost + withheld + genLost
           was == open.overdue + frames.lost
           more == Missing - open.overdue
           span == IF tangled \/ Moving THEN place - open.max ELSE 0
<1>1. Stats!Lost \in Nat /\ Stats!Lost <= place - open.max /\ (~tangled /\ ~Moving => Stats!Lost = more)
  BY LossIsWhatIsMissing DEF Resetting
<1>2. Missing \in Nat /\ more \in Nat /\ more <= place - open.max
  BY MissingIsCounted DEF Ordered, StatsTyped
<1>3. before \in Nat /\ was \in Nat /\ slip \in Nat /\ span \in Nat
  BY <1>1 DEF StatsTyped, Ordered, Slipped
<1>4. Stats!Distance(before, was) <= slip
  BY DEF Slipped
<1>5. Stats!Distance(Stats!Lost, more) <= span
  <2>1. CASE tangled \/ Moving
    <3>1. place - open.max \in Int /\ span = place - open.max
      BY <1>3, <2>1
    <3> HIDE DEF more
    <3> QED BY <1>1, <1>2, <3>1 DEF Stats!Distance
  <2>2. CASE ~(tangled \/ Moving)
    <3>1. span = 0 /\ Stats!Lost = more
      BY <1>1, <2>2
    <3> HIDE DEF more, span
    <3> QED BY <1>1, <1>2, <3>1 DEF Stats!Distance
  <2> QED BY <2>1, <2>2
<1>6. was + more = Missing + frames.lost
  BY <1>2 DEF Ordered, StatsTyped
<1> HIDE DEF before, was, more, span
<1>7. Stats!Distance(before + Stats!Lost, was + more) <= slip + span
  BY <1>1, <1>2, <1>3, <1>4, <1>5, DistancesAdd
<1> QED BY <1>3, <1>6, <1>7 DEF before, span

LEMMA CountReadKeeps == ASSUME StatsInv, Stats!CountRead PROVE StatsInv'
<1>1. /\ pushing.at = "idle" /\ tangled' = (tangled \/ Resetting)
      /\ UNCHANGED <<counted, seqMin, seqMax, genReceived, genLost, frames, reporter, told, withheld, open, slip>>
  BY DEF Stats!CountRead, Stats!history, Resetting, Stats!Resetting
<1>2. PICK n \in 1 .. StatsLast :
        /\ pushing' = [at |-> "count", read |-> counted, packet |-> n % StatsSpace]
        /\ \/ /\ place < n /\ n - place < StatsSpace \div 2 /\ place' = n
              /\ overdue' = overdue \cup (place + 1) .. (n - 1) /\ disturbed' = (disturbed \/ n >= StatsSpace)
           \/ n \in overdue /\ overdue' = overdue \ {n} /\ disturbed' = TRUE /\ UNCHANGED place
  BY DEF Stats!CountRead
<1>3. n \in Nat /\ n % StatsSpace \in Nat /\ StatsSpace \in Nat \ {0}
  BY StatsAssumption
<1>4. StatsTyped'
  BY <1>1, <1>2, <1>3 DEF StatsInv, StatsTyped
<1>5. ASSUME ~disturbed' PROVE Ordered' /\ Exact' /\ Slipped' /\ Shared'
  <2>1. /\ ~disturbed /\ place < n /\ n - place < StatsSpace \div 2 /\ place' = n /\ n < StatsSpace
        /\ overdue' = overdue \cup (place + 1) .. (n - 1)
    <3>1. CASE n \in overdue /\ disturbed' = TRUE
      BY <1>5, <3>1
    <3>2. CASE /\ place < n /\ n - place < StatsSpace \div 2 /\ place' = n
               /\ overdue' = overdue \cup (place + 1) .. (n - 1) /\ disturbed' = (disturbed \/ n >= StatsSpace)
      <4>1. ~disturbed /\ ~(n >= StatsSpace)
        BY <1>5, <3>2
      <4> QED BY <1>3, <3>2, <4>1
    <3> QED BY <1>2, <3>1, <3>2
  <2>2. StatsTyped /\ Ordered /\ Exact /\ Slipped /\ Shared
    BY <2>1 DEF StatsInv
  <2>3. Missing' = Missing + (n - 1 - place) /\ Missing \in Nat
    BY <1>3, <2>1, <2>2, PassedOver, MissingIsCounted DEF Missing
  <2>4. n % StatsSpace = n
    BY <1>3, <2>1
  <2>5. overdue' \subseteq 1 .. n
    <3>1. overdue \subseteq 1 .. place /\ place \in Nat
      BY <2>2 DEF Ordered, StatsTyped
    <3>2. 1 .. place \subseteq 1 .. n /\ (place + 1) .. (n - 1) \subseteq 1 .. n
      BY <1>3, <2>1, <3>1
    <3> QED BY <2>1, <3>1, <3>2
  <2>6. Moving' /\ ~Moving /\ Count' = Count + 1 /\ pushing'.read = counted /\ pushing'.at = "count" /\ pushing'.packet = n
    BY <1>1, <1>2, <2>2, <2>4 DEF Moving, Count, StatsTyped
  <2>7. n - seqMax \in 1 .. (StatsSpace \div 2 - 1)
    BY <1>3, <2>1, <2>2, <2>6 DEF Ordered, StatsTyped
  <2>8. Ordered'
    BY <1>1, <1>3, <2>1, <2>2, <2>3, <2>5, <2>6, <2>7 DEF Ordered, StatsTyped
  <2>9. Exact'
    <3> SUFFICES ASSUME ~tangled' PROVE Exact'
      BY DEF Exact
    <3>1. ~tangled /\ ~Resetting /\ ~Resetting'
      BY <1>1 DEF Resetting
    <3>2. Missing - open.overdue + Count + seqMin = place
      BY <2>2, <3>1 DEF Exact
    <3>3. UNCHANGED <<open, seqMin, counted>> /\ open.overdue \in Nat /\ seqMin \in Nat /\ place \in Nat /\ Count \in Nat
      BY <1>1, <2>2 DEF Ordered, StatsTyped, Count
    <3>4. Missing' - open'.overdue + Count' + seqMin' = place'
      BY <1>3, <2>1, <2>3, <2>6, <3>2, <3>3
    <3>5. pushing'.read = counted'
      BY <2>6, <3>3
    <3> QED BY <3>1, <3>4, <3>5 DEF Exact
  <2>10. Slipped' /\ Shared'
    BY <1>1, <2>2 DEF Slipped, Shared, Stats!Distance
  <2> QED BY <2>8, <2>9, <2>10
<1> QED BY <1>4, <1>5 DEF StatsInv

LEMMA CountWrittenKeeps == ASSUME StatsInv, Stats!CountWritten PROVE StatsInv'
<1>1. /\ pushing.at = "count" /\ counted' = pushing.read + 1 /\ pushing' = [pushing EXCEPT !.at = "max"]
      /\ UNCHANGED <<seqMin, seqMax, genReceived, genLost, place, overdue, frames, reporter, told, withheld, open,
                     slip, tangled, disturbed>>
  BY DEF Stats!CountWritten, Stats!history
<1>2. StatsTyped' /\ pushing'.at = "max" /\ pushing'.packet = pushing.packet
  BY <1>1 DEF StatsInv, StatsTyped
<1>3. Moving /\ Moving' /\ Missing' = Missing
  BY <1>1, <1>2 DEF Moving, Missing
<1>4. ASSUME ~disturbed PROVE Ordered' /\ Exact' /\ Slipped' /\ Shared'
  <2>1. Ordered /\ Exact /\ Slipped /\ Shared
    BY <1>4 DEF StatsInv
  <2>2. Ordered' /\ Slipped' /\ Shared'
    BY <1>1, <1>2, <1>3, <2>1 DEF Ordered, Slipped, Shared, Stats!Distance
  <2>3. Exact'
    BY <1>1, <1>2, <1>3, <2>1 DEF Exact, Resetting, Count
  <2> QED BY <2>2, <2>3
<1> QED BY <1>1, <1>2, <1>4 DEF StatsInv

LEMMA MaxMovesKeeps == ASSUME StatsInv, Stats!MaxMoves PROVE StatsInv'
<1>1. /\ pushing.at = "max" /\ pushing' = Stats!Idle
      /\ seqMax' = (IF Stats!Gt(pushing.packet, seqMax) THEN pushing.packet ELSE seqMax)
      /\ UNCHANGED <<counted, seqMin, genReceived, genLost, place, overdue, frames, reporter, told, withheld, open,
                     slip, tangled, disturbed>>
  BY DEF Stats!MaxMoves, Stats!history
<1>2. StatsTyped' /\ pushing'.at = "idle"
  BY <1>1 DEF StatsInv, StatsTyped, Stats!Idle
<1>3. Moving /\ ~Moving' /\ Missing' = Missing
  BY <1>1, <1>2 DEF Moving, Missing
<1>4. ASSUME ~disturbed PROVE Ordered' /\ Exact' /\ Slipped' /\ Shared'
  <2>1. StatsTyped /\ Ordered /\ Exact /\ Slipped /\ Shared
    BY <1>4 DEF StatsInv
  <2>2. seqMax' = place
    <3>1. place - seqMax \in 1 .. (StatsSpace \div 2 - 1) /\ pushing.packet = place /\ place - seqMax < StatsSpace
      BY <1>3, <2>1, StatsAssumption DEF Ordered, StatsTyped
    <3>2. (place - seqMax) % StatsSpace = place - seqMax
      BY <2>1, <3>1, StatsAssumption DEF StatsTyped
    <3> QED BY <1>1, <3>1, <3>2 DEF Stats!Gt
  <2>3. Ordered' /\ Slipped' /\ Shared'
    BY <1>1, <1>2, <1>3, <2>1, <2>2 DEF Ordered, Slipped, Shared, Stats!Distance, StatsTyped
  <2>4. Exact'
    BY <1>1, <1>2, <1>3, <2>1 DEF Exact, Resetting, Count
  <2> QED BY <2>3, <2>4
<1> QED BY <1>1, <1>2, <1>4 DEF StatsInv

LEMMA PushGenerationKeeps == ASSUME StatsInv, Stats!PushGeneration PROVE StatsInv'
<1>1. PICK units \in Generations :
        /\ genReceived' = genReceived + units[1] /\ genLost' = genLost + units[2]
        /\ frames' = [count |-> frames.count + 1, lost |-> frames.lost + units[2]]
  BY DEF Stats!PushGeneration
<1>2. UNCHANGED <<counted, seqMin, seqMax, place, overdue, pushing, reporter, told, withheld, open, slip, tangled,
                  disturbed>>
  BY DEF Stats!PushGeneration, Stats!history
<1>3. units[1] \in Nat /\ units[2] \in Nat
  BY StatsAssumption
<1>4. StatsTyped' /\ frames'.lost = frames.lost + units[2]
  BY <1>1, <1>2, <1>3 DEF StatsInv, StatsTyped
<1>5. ASSUME ~disturbed PROVE Ordered' /\ Exact' /\ Slipped' /\ Shared'
  <2>1. StatsTyped /\ Ordered /\ Exact /\ Slipped /\ Shared
    BY <1>5 DEF StatsInv
  <2>2. Ordered' /\ Exact' /\ Shared'
    BY <1>2, <2>1 DEF Ordered, Exact, Shared, Resetting, Count, Moving, Missing
  <2>3. Slipped'
    BY <1>1, <1>2, <1>3, <1>4, <2>1 DEF Slipped, Stats!Distance, StatsTyped, Ordered
  <2> QED BY <2>2, <2>3
<1> QED BY <1>2, <1>4, <1>5 DEF StatsInv

LEMMA ReportKeeps == ASSUME StatsInv, Stats!CongestionReport PROVE StatsInv'
<1> DEFINE all == genLost + Stats!Lost
           total == genReceived + counted + all
           lost == Stats!Capped(all, total)
           span == place - open.max
<1>1. /\ reporter = "waits" /\ reporter' = "got"
      /\ told' = [reports |-> told.reports + 1, received |-> told.received + ((total - lost) % StatsSpace),
                  lost |-> told.lost + (lost % StatsSpace)]
      /\ withheld' = withheld + (all - lost)
      /\ disturbed' = (disturbed \/ total - lost >= StatsSpace \/ lost >= StatsSpace)
      /\ genReceived' = 0 /\ genLost' = 0
      /\ open' = [max |-> seqMax, overdue |-> Missing]
      /\ slip' = slip + (IF tangled \/ Moving THEN span ELSE 0) /\ tangled' = Moving
      /\ UNCHANGED <<counted, seqMin, seqMax, place, overdue, frames, pushing>>
  BY StatsCardinality DEF Stats!CongestionReport, Missing, Moving
<1>2. Stats!Lost \in Nat
  <2>1. Stats!Diff \in Nat
    BY StatsAssumption DEF Stats!Diff, StatsInv, StatsTyped
  <2> QED BY <2>1 DEF Stats!Lost, StatsInv, StatsTyped
<1>3. all \in Nat /\ total \in Nat /\ all <= total
  BY <1>2 DEF StatsInv, StatsTyped
<1>4. lost \in Nat /\ lost <= all /\ lost * LossScale <= LossMax * total
  BY <1>3, WithinTheShare
<1>5. StatsSpace \in Nat \ {0} /\ (lost % StatsSpace) \in Nat /\ ((total - lost) % StatsSpace) \in Nat
  <2>1. total - lost \in Nat /\ StatsSpace \in Nat \ {0}
    BY <1>3, <1>4, StatsAssumption
  <2> HIDE DEF total, lost
  <2> QED BY <1>4, <2>1
<1>6. Missing' = Missing
  BY <1>1 DEF Missing
<1> HIDE DEF total, lost
<1>7. StatsTyped'
  BY <1>1, <1>3, <1>4, <1>5 DEF StatsInv, StatsTyped, Moving
<1>8. ASSUME ~disturbed' PROVE Ordered' /\ Exact' /\ Slipped' /\ Shared'
  <2>1. /\ StatsTyped /\ Ordered /\ Exact /\ Slipped /\ Shared
        /\ lost < StatsSpace /\ total - lost < StatsSpace /\ total - lost \in Nat
    <3>1. ~disturbed /\ ~(total - lost >= StatsSpace) /\ ~(lost >= StatsSpace)
      BY <1>1, <1>8
    <3> QED BY <1>3, <1>4, <1>5, <3>1 DEF StatsInv
  <2>2. lost % StatsSpace = lost /\ (total - lost) % StatsSpace = total - lost
    BY <1>4, <1>5, <2>1
  <2>3. /\ told'.lost = told.lost + lost /\ told'.received = told.received + (total - lost)
        /\ open'.max = seqMax /\ open'.overdue = Missing
    BY <1>1, <2>2
  <2>4. Moving' <=> Moving
    BY <1>1 DEF Moving
  <2>5. Ordered'
    BY <1>1, <1>6, <2>1, <2>3, <2>4, MissingIsCounted DEF Ordered, StatsTyped
  <2>6. Exact'
    BY <1>1, <1>6, <2>1, <2>3, <2>4 DEF Exact, Ordered, Resetting
  <2>7. told'.lost + withheld' + genLost' = told.lost + withheld + genLost + Stats!Lost
    BY <1>1, <1>2, <1>4, <2>1, <2>3 DEF StatsTyped
  <2>8. Slipped'
    <3>1. ~Resetting
      BY <1>1 DEF Resetting
    <3>2. slip' \in Nat /\ Stats!Distance(told.lost + withheld + genLost + Stats!Lost, Missing + frames.lost) <= slip'
      BY <1>1, <2>1, <3>1, LossesSlip
    <3>3. open'.overdue + frames'.lost = Missing + frames.lost
      BY <1>1, <2>3
    <3> QED BY <2>7, <3>2, <3>3 DEF Slipped, Stats!Distance
  <2>9. Shared'
    <3>1. told'.lost + told'.received = (told.lost + told.received) + total
      BY <1>3, <1>4, <2>1, <2>3 DEF StatsTyped
    <3>2. told.lost \in Nat /\ told.received \in Nat /\ LossMax \in Nat /\ LossScale \in Nat
      BY <2>1, StatsAssumption DEF StatsTyped
    <3>3. told'.lost * LossScale = told.lost * LossScale + lost * LossScale
      BY <1>4, <2>3, <3>2
    <3>4. LossMax * ((told.lost + told.received) + total) = LossMax * (told.lost + told.received) + LossMax * total
      BY <1>3, <3>2
    <3>5. /\ told.lost * LossScale \in Nat /\ lost * LossScale \in Nat
          /\ LossMax * (told.lost + told.received) \in Nat /\ LossMax * total \in Nat
      BY <1>3, <1>4, <3>2
    <3> QED BY <1>4, <2>1, <3>1, <3>3, <3>4, <3>5 DEF Shared
  <2> QED BY <2>5, <2>6, <2>8, <2>9
<1> QED BY <1>7, <1>8 DEF StatsInv

LEMMA ResetsKeep == ASSUME StatsInv, Stats!ResetsMin \/ Stats!ResetsCount PROVE StatsInv'
<1>1. UNCHANGED <<seqMax, genReceived, genLost, place, overdue, frames, pushing, told, withheld, open, slip, tangled,
                  disturbed>>
  BY DEF Stats!ResetsMin, Stats!ResetsCount, Stats!history
<1>2. \/ reporter = "got" /\ reporter' = "min" /\ seqMin' = seqMax /\ UNCHANGED counted
      \/ reporter = "min" /\ reporter' = "waits" /\ counted' = 0 /\ UNCHANGED seqMin
  BY DEF Stats!ResetsMin, Stats!ResetsCount, Stats!ResetMin
<1>3. StatsTyped'
  BY <1>1, <1>2 DEF StatsInv, StatsTyped
<1>4. Missing' = Missing /\ (Moving' <=> Moving)
  BY <1>1 DEF Missing, Moving
<1>5. ASSUME ~disturbed PROVE Ordered' /\ Exact' /\ Slipped' /\ Shared'
  <2>1. StatsTyped /\ Ordered /\ Exact /\ Slipped /\ Shared
    BY <1>5 DEF StatsInv
  <2>2. Ordered' /\ Slipped' /\ Shared'
    BY <1>1, <1>2, <1>4, <2>1 DEF Ordered, Slipped, Shared, Stats!Distance, StatsTyped
  <2>3. Exact'
    BY <1>1, <1>2, <1>4, <2>1 DEF Exact, Ordered, Resetting, Count, Moving, StatsTyped
  <2> QED BY <2>2, <2>3
<1> QED BY <1>1, <1>3, <1>5 DEF StatsInv

LEMMA StatsStay ==
  ASSUME StatsInv, reporter' = reporter \/ (~Resetting /\ ~Resetting'),
         UNCHANGED <<counted, seqMin, seqMax, genReceived, genLost, place, overdue, frames, pushing, told, withheld, open,
                     slip, tangled, disturbed>>
  PROVE  StatsInv'
BY DEF StatsInv, StatsTyped, Ordered, Exact, Slipped, Shared, Stats!Distance, Count, Moving, Missing, Resetting

LEMMA StatsNext == ASSUME StatsInv, [Stats!Next]_statsVars PROVE StatsInv'
<1>1. CASE Stats!Stopping
  <2>1. reporter' = reporter \/ (~Resetting /\ ~Resetting')
    BY <1>1 DEF Stats!Stopping, Stats!CongestionStop, Stats!CongestionEnds, Stats!CongestionJoined, Resetting
  <2> QED BY <1>1, <2>1, StatsStay DEF Stats!Stopping, Stats!history
<1>2. CASE UNCHANGED statsVars
  BY <1>2, StatsStay DEF statsVars
<1> QED
  BY <1>1, <1>2, CountReadKeeps, CountWrittenKeeps, MaxMovesKeeps, PushGenerationKeeps, ReportKeeps, ResetsKeep
     DEF Stats!Next

(* The losses the console is told, with those withheld from it, add up to the packets and    *)
(* units that were lost (congestioncontrol.c:19-34, packetstats.c:36-77), but in the two        *)
(* intervals at a reset which meets a count, where they are wrong by no more than the packets of  *)
(* the interval; and they stay within the share that is allowed.                        *)
THEOREM LossesAddUp == MCSpec => []LossAddsUp
<1>1. MCInit => StatsInv
  <2> SUFFICES ASSUME MCInit PROVE StatsInv
    OBVIOUS
  <2>1. Stats!Begin /\ reporter \in {"waits", "joined"}
    BY DEF MCInit, Stats!Init, Stats!AtRest
  <2>2. Missing = 0
    BY <2>1, FS_EmptySet DEF Stats!Begin, Missing
  <2>3. StatsTyped /\ ~Moving /\ ~Resetting
    <3>1. pushing = [at |-> "idle", read |-> 0, packet |-> 0] /\ tangled = FALSE
          /\ told = [reports |-> 0, received |-> 0, lost |-> 0] /\ frames = [count |-> 0, lost |-> 0]
      BY <2>1 DEF Stats!Begin, Stats!Idle
    <3>2. {counted, seqMin, seqMax, genReceived, genLost, place, withheld} \subseteq Nat
      BY <2>1 DEF Stats!Begin
    <3> QED BY <2>1, <3>1, <3>2 DEF StatsTyped, Moving, Resetting
  <2>4. Ordered /\ Exact
    BY <2>1, <2>2, <2>3, StatsAssumption DEF Stats!Begin, Stats!Idle, Ordered, Exact, Count
  <2>5. Slipped /\ Shared
    BY <2>1, StatsAssumption DEF Stats!Begin, Slipped, Shared, Stats!Distance
  <2> QED BY <2>3, <2>4, <2>5 DEF StatsInv
<1>2. StatsInv => LossAddsUp
  <2> SUFFICES ASSUME StatsInv, ~disturbed
               PROVE  /\ pushing.at = "idle" /\ ~Resetting =>
                           Stats!Distance(told.lost + withheld + genLost + Stats!Lost, Missing + frames.lost)
                             <= slip + (IF tangled THEN place - open.max ELSE 0)
                      /\ Shared
    BY StatsCardinality DEF LossAddsUp, Stats!LossAddsUp, Stats!Resetting, Resetting, Missing, Shared
  <2>1. StatsTyped /\ Ordered /\ Exact /\ Slipped /\ Shared
    BY DEF StatsInv
  <2> QED BY <2>1, LossesSlip DEF Moving
<1>3. StatsInv /\ [MCNext]_StreamVars => StatsInv'
  BY StatsNext DEF MCNext, StreamVars
<1> QED  BY <1>1, <1>2, <1>3, PTL DEF MCSpec, StreamVars

-----------------------------------------------------------------------------
(* The video receiver                                                         *)

VrType ==
  [configured : BOOLEAN, cur : Int, prev : Int, complete : Int, expected : [source : Nat, fec : Nat],
   slots : SUBSET Int, source : Nat, fec : Nat, refs : Seq(Int), framesLost : Int,
   genReceived : Int, genLost : Int]
SeenType ==
  [pos : Nat, decoded : Nat, ordered : BOOLEAN, ref : Int, unusable : SUBSET Int, untold : SUBSET Int,
   due : Int]

(* The frame the receiver is at, and what has become of it so far.           *)
Frames(r, s) ==
  /\ r \in VrType /\ s \in SeenType /\ s.pos <= MaxFrame
  /\ IF s.pos = 0 THEN r.cur = -1 /\ r.prev = -1 ELSE r.cur = Video!Cast(s.pos)
  /\ ~Video!Unflushed(r) => r.complete = Video!Cast(s.pos)
  /\ s.decoded <= s.pos /\ (Video!Unflushed(r) => s.decoded < s.pos)
  /\ s.ordered /\ s.untold = {}

(* The counters count the filled slots of the frame.                         *)
Filled(r) ==
  Video!Unflushed(r) =>
    /\ r.slots \subseteq 0 .. (Video!UnitsPerFrame(r) - 1)
    /\ Cardinality(r.slots) = r.source + r.fec

(* The numbers kept are those of frames that can be referred to.             *)
References(r, s) ==
  /\ \A x \in Video!Range(r.refs) :
       \E q \in 1 .. s.pos : q \notin s.unusable /\ x = Video!Cast(q) /\ (Video!Unflushed(r) => q # s.pos)
  /\ s.unusable \subseteq 1 .. s.pos
  /\ Video!Unflushed(r) => s.pos \notin s.unusable
  /\ s.ref \in Nat /\ (s.ref = 0 \/ s.ref < s.pos) /\ s.ref \notin s.unusable

(* A stream in which a frame number stands for one reference only.           *)
NumbersAreUnique == MaxFrame <= VideoSpace + 1 /\ RefSize < VideoSpace

Kept(r, s) == Frames(r, s) /\ (NumbersAreUnique => References(r, s))

(* What a flush leaves.                                                      *)
AfterFlush(a, s) == Kept(a.vr, a.seen) /\ ~Video!Unflushed(a.vr) /\ a.seen.pos = s.pos

LEMMA VideoConstants ==
  /\ VideoSpace \in Nat \ {0} /\ Video!SeqHalf \in Nat /\ 2 * Video!SeqHalf = VideoSpace
  /\ MaxFrame \in Nat \ {0} /\ RefSize \in Nat \ {0} /\ CounterSpace \in Nat \ {0}
BY VideoAssumption DEF Video!SeqHalf

LEMMA VideoCast ==
  ASSUME NEW a \in Int
  PROVE  Video!Cast(a) \in Nat /\ Video!Cast(a) < VideoSpace /\ Video!Cast(Video!Cast(a)) = Video!Cast(a)
<1>1. VideoSpace \in Nat /\ VideoSpace > 1 /\ VideoSpace % 2 = 0 /\ FALSE \in BOOLEAN
  BY VideoAssumption
<1>2. Video!Cast(a) \in 0 .. (VideoSpace - 1) /\ Video!Cast(Video!Cast(a)) = Video!Cast(a)
  BY <1>1, Video!CastIsNumber
<1> QED  BY <1>1, <1>2

LEMMA VideoCastDifference ==
  ASSUME NEW a \in Int, NEW b \in Int
  PROVE  Video!Cast(Video!Cast(a) - Video!Cast(b)) = Video!Cast(a - b)
<1>1. VideoSpace \in Nat /\ VideoSpace > 1 /\ VideoSpace % 2 = 0 /\ FALSE \in BOOLEAN
  BY VideoAssumption
<1> QED  BY <1>1, Video!CastOfDifference

LEMMA VideoCastOnce ==
  ASSUME NEW a \in Int, NEW b \in Int
  PROVE  Video!Cast(a - Video!Cast(b)) = Video!Cast(Video!Cast(a) - Video!Cast(b))
<1> DEFINE c == Video!Cast(b)
<1>1. c \in Int /\ Video!Cast(c) = c
  BY VideoCast
<1> HIDE DEF c
<1>2. Video!Cast(Video!Cast(a) - Video!Cast(c)) = Video!Cast(a - c)
  BY <1>1, VideoCastDifference
<1> QED  BY <1>1, <1>2 DEF c

(* How far b is behind a, as long as that fits a frame number.               *)
LEMMA VideoDistance ==
  ASSUME NEW a \in Int, NEW b \in Int, a - b \in 0 .. (VideoSpace - 1)
  PROVE  /\ Video!Cast(Video!Cast(a) - Video!Cast(b)) = a - b
         /\ Video!Cast(a - Video!Cast(b)) = a - b
<1>1. VideoSpace \in Nat /\ VideoSpace > 1 /\ VideoSpace % 2 = 0 /\ FALSE \in BOOLEAN
  BY VideoAssumption
<1>2. Video!Cast(a - b) = a - b
  <2> DEFINE c == a - b
  <2>1. c \in 0 .. (VideoSpace - 1)
    OBVIOUS
  <2> HIDE DEF c
  <2>2. Video!Cast(c) = c
    BY <1>1, <2>1, Video!CastOfNumber
  <2> QED  BY <2>2 DEF c
<1>3. Video!Cast(Video!Cast(a) - Video!Cast(b)) = Video!Cast(a - b)
  BY VideoCastDifference
<1> QED  BY <1>2, <1>3, VideoCastOnce

LEMMA VideoCastSum ==
  ASSUME NEW a \in Int, NEW b \in Int
  PROVE  Video!Cast(Video!Cast(a) + b) = Video!Cast(a + b)
<1>1. VideoSpace \in Nat /\ VideoSpace > 1 /\ VideoSpace % 2 = 0 /\ FALSE \in BOOLEAN
  BY VideoAssumption
<1>2. ((a % VideoSpace) + b) % VideoSpace = (a + b) % VideoSpace
  BY <1>1, VideoConstants, Video!RemainderOfSum
<1> QED  BY <1>2 DEF Video!Cast

LEMMA VideoOrder ==
  ASSUME NEW a \in Int, NEW b \in Int, a - b \in (1 - Video!SeqHalf) .. (Video!SeqHalf - 1)
  PROVE  /\ Video!SeqLt(Video!Cast(a), Video!Cast(b)) <=> a < b
         /\ Video!SeqGt(Video!Cast(a), Video!Cast(b)) <=> a > b
         /\ Video!Cast(a) = Video!Cast(b) <=> a = b
<1>1. VideoSpace \in Nat /\ VideoSpace > 1 /\ VideoSpace % 2 = 0 /\ FALSE \in BOOLEAN
  BY VideoAssumption
<1> QED  BY <1>1, Video!CastOrder

LEMMA LeastIsFound ==
  ASSUME NEW T \in SUBSET Nat, T # {} PROVE Video!Min(T) \in T
<1> DEFINE R == {ss \in Nat \X Nat : ss[1] < ss[2]}
<1>1. IsWellFoundedOn(R, Nat)
  BY NatLessThanWellFounded DEF OpToRel
<1>2. PICK x \in T : \A y \in T : <<y, x>> \notin R
  <2> HIDE DEF R
  <2> QED  BY <1>1, WFMin
<1>3. \A y \in T : ~(y < x)
  BY <1>2
<1>4. \E z \in T : \A y \in T : z <= y
  BY <1>3
<1> HIDE DEF R
<1> QED  BY <1>4 DEF Video!Min

LEMMA RefIsAdded ==
  ASSUME NEW refs \in Seq(Int), NEW f \in Int
  PROVE  /\ Video!AddRef(refs, f) \in Seq(Int)
         /\ Video!Range(Video!AddRef(refs, f)) \subseteq Video!Range(refs) \cup {f}
<1> DEFINE k == Video!Min({RefSize, Len(refs) + 1})
           t == <<f>> \o refs
<1>1. k \in 1 .. (Len(refs) + 1)
  <2>1. RefSize >= 1 /\ RefSize \in Nat /\ Len(refs) + 1 \in Nat
    BY VideoConstants
  <2>2. k \in {RefSize, Len(refs) + 1} /\ k <= Len(refs) + 1
    <3>1. \E x \in {RefSize, Len(refs) + 1} : \A y \in {RefSize, Len(refs) + 1} : x <= y
      BY <2>1
    <3>2. k \in {RefSize, Len(refs) + 1} /\ \A y \in {RefSize, Len(refs) + 1} : k <= y
      BY <3>1 DEF Video!Min
    <3> QED  BY <3>2
  <2> QED  BY <2>1, <2>2
<1>2. t \in Seq(Int) /\ Len(t) = Len(refs) + 1 /\ \A j \in 1 .. Len(t) : t[j] = IF j = 1 THEN f ELSE refs[j - 1]
  OBVIOUS
<1> HIDE DEF k, t
<1>3. /\ SubSeq(t, 1, k) \in Seq(Int) /\ Len(SubSeq(t, 1, k)) = k
      /\ \A j \in 1 .. k : SubSeq(t, 1, k)[j] = t[j]
  BY <1>1, <1>2
<1>4. Video!AddRef(refs, f) = SubSeq(t, 1, k)
  BY DEF Video!AddRef, k, t
<1>5. \A j \in 1 .. k : SubSeq(t, 1, k)[j] \in Video!Range(refs) \cup {f}
  <2> SUFFICES ASSUME NEW j \in 1 .. k PROVE t[j] \in Video!Range(refs) \cup {f}
    BY <1>3
  <2>1. CASE j = 1
    BY <1>1, <1>2, <2>1
  <2>2. CASE j # 1
    <3>1. t[j] = refs[j - 1] /\ j - 1 \in 1 .. Len(refs)
      BY <1>1, <1>2, <2>2, SMTT(30)
    <3> QED  BY <3>1 DEF Video!Range
  <2> QED  BY <2>1, <2>2
<1>6. DOMAIN SubSeq(t, 1, k) = 1 .. k
  BY <1>3
<1> QED  BY <1>3, <1>4, <1>5, <1>6 DEF Video!Range

(* Every flush leaves the frame it was at complete.                          *)
LEMMA FrameIsDone ==
  ASSUME NEW r, NEW s, Frames(r, s), Video!Unflushed(r), NEW r2 \in VrType, NEW s2 \in SeenType,
         r2.cur = r.cur, r2.prev = r.cur, r2.complete = r.cur,
         s2.pos = s.pos, s2.decoded \in {s.decoded, s.pos}, s2.ordered, s2.untold = {}
  PROVE  Frames(r2, s2) /\ ~Video!Unflushed(r2)
<1>1. s.pos # 0 /\ r.cur = Video!Cast(s.pos)
  BY DEF Frames, Video!Unflushed, Video!NoFrame
<1>2. ~Video!Unflushed(r2)
  BY DEF Video!Unflushed
<1>3. s.pos \in Nat /\ s.decoded \in Nat /\ s.decoded <= s.pos /\ s.pos <= MaxFrame
  BY DEF Frames, SeenType
<1> QED  BY <1>1, <1>2, <1>3 DEF Frames

Left(r, lost, refs) == [Video!Done(r) EXCEPT !.framesLost = lost, !.refs = refs]

LEMMA DoneLeaves ==
  ASSUME NEW r \in VrType, NEW lost \in Int, NEW refs \in Seq(Int)
  PROVE  /\ Left(r, lost, refs) \in VrType
         /\ Left(r, lost, refs).cur = r.cur /\ Left(r, lost, refs).prev = r.cur
         /\ Left(r, lost, refs).complete = r.cur /\ Left(r, lost, refs).refs = refs
BY DEF Left, Video!Done, VrType

LEMMA DecodeLeaves ==
  ASSUME NEW r, NEW s, Kept(r, s), Video!Unflushed(r), NEW d \in Nat,
         NumbersAreUnique => d = 0 \/ (s.pos - d \in 1 .. (s.pos - 1) /\ s.pos - d \notin s.unusable)
  PROVE  AfterFlush(Video!Decode(r, s, d), s)
<1> DEFINE r2 == Video!Decode(r, s, d).vr
           s2 == Video!Decode(r, s, d).seen
<1>1. r \in VrType /\ s \in SeenType /\ s.decoded < s.pos /\ s.ordered /\ s.untold = {}
  BY DEF Kept, Frames
<1>2. /\ Video!AddRef(r.refs, r.cur) \in Seq(Int)
      /\ Video!Range(Video!AddRef(r.refs, r.cur)) \subseteq Video!Range(r.refs) \cup {r.cur}
  <2>1. r.refs \in Seq(Int) /\ r.cur \in Int
    BY <1>1 DEF VrType
  <2> QED  BY <2>1, RefIsAdded
<1>3. /\ r2 \in VrType /\ r2.cur = r.cur /\ r2.prev = r.cur /\ r2.complete = r.cur
      /\ r2.refs = Video!AddRef(r.refs, r.cur)
  <2>1. Video!Done(r).refs = r.refs /\ Video!Done(r) \in VrType
    BY <1>1 DEF Video!Done, VrType
  <2>2. r2 = [Video!Done(r) EXCEPT !.framesLost = 0, !.refs = Video!AddRef(r.refs, r.cur)]
    BY <2>1 DEF Video!Decode, Video!State, VrType
  <2>3. r2 = Left(r, 0, Video!AddRef(r.refs, r.cur))
    BY <2>2 DEF Left
  <2> HIDE DEF r2
  <2> QED  BY <1>1, <1>2, <2>3, DoneLeaves
<1>4. /\ s2 \in SeenType /\ s2.pos = s.pos /\ s2.decoded = s.pos /\ s2.ordered /\ s2.untold = {}
      /\ s2.unusable = s.unusable /\ s2.ref = IF d = 0 THEN 0 ELSE s.pos - d
  <2> DEFINE ref == IF d = 0 THEN 0 ELSE s.pos - d
             ord == s.ordered /\ s.pos > s.decoded
  <2>1. s2 = [s EXCEPT !.decoded = s.pos, !.ordered = ord, !.ref = ref]
    BY <1>1 DEF Video!Decode, Video!State, SeenType
  <2>2. ref \in Int /\ ord \in BOOLEAN /\ ord /\ s.pos \in Nat
    BY <1>1 DEF SeenType
  <2> HIDE DEF ref, ord, s2
  <2>3. s2 \in SeenType /\ s2.pos = s.pos /\ s2.decoded = s.pos /\ s2.ordered = ord /\ s2.untold = {}
      /\ s2.unusable = s.unusable /\ s2.ref = ref
    BY <1>1, <2>1, <2>2 DEF SeenType
  <2> QED  BY <2>2, <2>3 DEF ref
<1> HIDE DEF r2, s2
<1>5. Frames(r2, s2) /\ ~Video!Unflushed(r2)
  BY <1>1, <1>3, <1>4, FrameIsDone DEF Kept
<1>6. ASSUME NumbersAreUnique PROVE References(r2, s2)
  <2>1. References(r, s)
    BY <1>6 DEF Kept
  <2>2. s.pos \in Nat /\ s.pos # 0 /\ r.cur = Video!Cast(s.pos) /\ s.pos \notin s.unusable
    BY <1>1, <2>1 DEF Kept, Frames, References, SeenType, Video!Unflushed, Video!NoFrame
  <2>3. \A x \in Video!Range(r2.refs) : \E q \in 1 .. s.pos : q \notin s.unusable /\ x = Video!Cast(q)
    BY <1>2, <1>3, <2>1, <2>2 DEF References
  <2>4. s2.ref \in Nat /\ (s2.ref = 0 \/ s2.ref < s.pos) /\ s2.ref \notin s.unusable
    BY <1>4, <1>6, <2>1, <2>2 DEF References
  <2> QED  BY <1>4, <1>5, <2>1, <2>3, <2>4 DEF References
<1>7. Video!Decode(r, s, d).vr = r2 /\ Video!Decode(r, s, d).seen = s2
  BY DEF r2, s2
<1> QED  BY <1>4, <1>5, <1>6, <1>7 DEF AfterFlush, Kept

(* The message that reports the current frame speaks of it.                  *)
LEMMA CurrentIsTold ==
  ASSUME NEW n \in Nat, NEW start \in Int, seen.pos \in Nat, n - seen.pos \in (-Video!SeqHalf) .. Video!SeqHalf
  PROVE  n \in Video!Told(Video!Cast(start), Video!Cast(n))
<1>1. Video!SeqHalf \in Nat
  BY VideoConstants
<1>2. Video!Cast(n - Video!Cast(start)) = Video!Cast(Video!Cast(n) - Video!Cast(start))
  BY VideoCastOnce
<1>3. Video!Cast(n - Video!Cast(start)) \in Nat
  <2> DEFINE b == Video!Cast(start)
  <2>1. b \in Int
    BY VideoCast
  <2> HIDE DEF b
  <2>2. n - b \in Int
    BY <2>1
  <2>3. Video!Cast(n - b) \in Nat
    BY <2>2, VideoCast
  <2> QED  BY <2>3 DEF b
<1>4. n \in (seen.pos - Video!SeqHalf) .. (seen.pos + Video!SeqHalf)
  BY <1>1
<1> QED  BY <1>2, <1>3, <1>4 DEF Video!Told

LEMMA FecFailedLeaves ==
  ASSUME NEW r, NEW s, Kept(r, s), Video!Unflushed(r),
         seen.pos \in Nat, s.pos - seen.pos \in (-Video!SeqHalf) .. Video!SeqHalf
  PROVE  AfterFlush(Video!FecFailed(r, s), s)
<1> DEFINE r2 == Video!FecFailed(r, s).vr
           s2 == Video!FecFailed(r, s).seen
           lost == r.framesLost + (r.cur - Video!NextExpected(r)) + 1
<1>1. r \in VrType /\ s \in SeenType /\ s.decoded < s.pos /\ s.ordered /\ s.untold = {}
  BY DEF Kept, Frames
<1>2. /\ Video!AddRef(r.refs, r.cur) \in Seq(Int)
      /\ Video!Range(Video!AddRef(r.refs, r.cur)) \subseteq Video!Range(r.refs) \cup {r.cur}
  <2>1. r.refs \in Seq(Int) /\ r.cur \in Int
    BY <1>1 DEF VrType
  <2> QED  BY <2>1, RefIsAdded
<1>a. r.complete + 1 \in Int /\ r.framesLost \in Int /\ r.cur \in Int
  BY <1>1 DEF VrType
<1>b. Video!NextExpected(r) = Video!Cast(r.complete + 1) /\ Video!NextExpected(r) \in Int
  BY <1>a, VideoCast DEF Video!NextExpected
<1>3. /\ r2 \in VrType /\ r2.cur = r.cur /\ r2.prev = r.cur /\ r2.complete = r.cur
      /\ r2.refs = Video!AddRef(r.refs, r.cur)
  <2>1. Video!Done(r).refs = r.refs /\ Video!Done(r).framesLost = r.framesLost /\ Video!Done(r) \in VrType
    BY <1>1 DEF Video!Done, VrType
  <2>2. lost \in Int
    BY <1>a, <1>b
  <2>3. r2 = Left(r, lost, Video!AddRef(r.refs, r.cur))
    BY <2>1 DEF Video!FecFailed, Video!State, VrType, Left
  <2> HIDE DEF r2, lost
  <2> QED  BY <1>1, <1>2, <2>2, <2>3, DoneLeaves
<1>4. /\ s2 \in SeenType /\ s2.pos = s.pos /\ s2.decoded = s.decoded /\ s2.ordered /\ s2.untold = {}
      /\ s2.unusable = s.unusable /\ s2.ref = s.ref
  <2>1. s.pos \in Video!Told(Video!NextExpected(r), r.cur)
    <3>1. s.pos \in Nat /\ r.cur = Video!Cast(s.pos)
      BY <1>1 DEF Kept, Frames, SeenType, Video!Unflushed, Video!NoFrame
    <3> QED  BY <1>a, <1>b, <3>1, CurrentIsTold
  <2>2. s2 = [s EXCEPT !.untold = (s.untold \cup {s.pos}) \ Video!Told(Video!NextExpected(r), r.cur)]
    BY <1>1 DEF Video!FecFailed, Video!State, SeenType
  <2>3. (s.untold \cup {s.pos}) \ Video!Told(Video!NextExpected(r), r.cur) = {}
    BY <1>1, <2>1
  <2> HIDE DEF s2
  <2>4. s2 = [s EXCEPT !.untold = {}]
    BY <2>2, <2>3
  <2> QED  BY <1>1, <2>4 DEF SeenType
<1> HIDE DEF r2, s2
<1>5. Frames(r2, s2) /\ ~Video!Unflushed(r2)
  BY <1>1, <1>3, <1>4, FrameIsDone DEF Kept
<1>6. ASSUME NumbersAreUnique PROVE References(r2, s2)
  <2>1. References(r, s)
    BY <1>6 DEF Kept
  <2>2. s.pos \in Nat /\ s.pos # 0 /\ r.cur = Video!Cast(s.pos) /\ s.pos \notin s.unusable
    BY <1>1, <2>1 DEF Kept, Frames, References, SeenType, Video!Unflushed, Video!NoFrame
  <2>3. \A x \in Video!Range(r2.refs) : \E q \in 1 .. s.pos : q \notin s.unusable /\ x = Video!Cast(q)
    BY <1>2, <1>3, <2>1, <2>2 DEF References
  <2> QED  BY <1>4, <1>5, <2>1, <2>3 DEF References
<1>7. Video!FecFailed(r, s).vr = r2 /\ Video!FecFailed(r, s).seen = s2
  BY DEF r2, s2
<1> QED  BY <1>4, <1>5, <1>6, <1>7 DEF AfterFlush, Kept

LEMMA DropLeaves ==
  ASSUME NEW r, NEW s, Kept(r, s), Video!Unflushed(r)
  PROVE  AfterFlush(Video!DropDependent(r, s), s)
<1> DEFINE r2 == Video!DropDependent(r, s).vr
           s2 == Video!DropDependent(r, s).seen
           lost == r.framesLost + 1
           left == Video!Recent(s.unusable \cup {s.pos}, s.pos)
<1>1. r \in VrType /\ s \in SeenType /\ s.decoded < s.pos /\ s.ordered /\ s.untold = {}
  BY DEF Kept, Frames
<1>3. r2 \in VrType /\ r2.cur = r.cur /\ r2.prev = r.cur /\ r2.complete = r.cur /\ r2.refs = r.refs
  <2>1. Video!Done(r).refs = r.refs /\ Video!Done(r).framesLost = r.framesLost /\ Video!Done(r) \in VrType
    BY <1>1 DEF Video!Done, VrType
  <2>2. lost \in Int /\ r.refs \in Seq(Int)
    BY <1>1 DEF VrType
  <2>3. r2 = Left(r, lost, r.refs)
    BY <1>1, <2>1 DEF Video!DropDependent, Video!State, VrType, Left, Video!Done
  <2> HIDE DEF r2, lost
  <2> QED  BY <1>1, <2>2, <2>3, DoneLeaves
<1>4. /\ s2 \in SeenType /\ s2.pos = s.pos /\ s2.decoded = s.decoded /\ s2.ordered /\ s2.untold = {}
      /\ s2.unusable = left /\ s2.ref = s.ref /\ left \subseteq s.unusable \cup {s.pos}
  <2>1. s2 = [s EXCEPT !.unusable = left]
    BY <1>1 DEF Video!DropDependent, Video!State, SeenType
  <2>2. left \subseteq s.unusable \cup {s.pos} /\ left \in SUBSET Int
    BY <1>1 DEF Video!Recent, SeenType
  <2> HIDE DEF s2, left
  <2> QED  BY <1>1, <2>1, <2>2 DEF SeenType
<1> HIDE DEF r2, s2, left
<1>5. Frames(r2, s2) /\ ~Video!Unflushed(r2)
  BY <1>1, <1>3, <1>4, FrameIsDone DEF Kept
<1>6. ASSUME NumbersAreUnique PROVE References(r2, s2)
  <2>1. References(r, s)
    BY <1>6 DEF Kept
  <2>2. s.pos \in Nat /\ s.pos # 0
    BY <1>1 DEF Kept, Frames, SeenType, Video!Unflushed, Video!NoFrame
  <2>3. s2.unusable \subseteq 1 .. s.pos /\ s2.ref \notin s2.unusable
    BY <1>4, <2>1, <2>2 DEF References
  <2>4. \A x \in Video!Range(r.refs) : \E q \in 1 .. s.pos : q \notin s2.unusable /\ x = Video!Cast(q)
    BY <1>4, <2>1 DEF References
  <2> QED  BY <1>3, <1>4, <1>5, <2>1, <2>3, <2>4 DEF References
<1>7. Video!DropDependent(r, s).vr = r2 /\ Video!DropDependent(r, s).seen = s2
  BY DEF r2, s2
<1> QED  BY <1>4, <1>5, <1>6, <1>7 DEF AfterFlush, Kept

(* A number that is found among the references stands for the frame the     *)
(* slice means, and that one is older than the current frame.                *)
LEMMA FoundIsMeant ==
  ASSUME NEW r, NEW s, Kept(r, s), Video!Unflushed(r), NumbersAreUnique, NEW d \in 1 .. RefSize,
         Video!HaveRef(r, Video!Cast(r.cur - d))
  PROVE  s.pos - d \in 1 .. (s.pos - 1) /\ s.pos - d \notin s.unusable
<1>1. s.pos \in Nat /\ s.pos # 0 /\ s.pos <= MaxFrame /\ r.cur = Video!Cast(s.pos)
  BY DEF Kept, Frames, SeenType, Video!Unflushed, Video!NoFrame
<1>2. VideoSpace \in Nat \ {0} /\ RefSize \in Nat /\ MaxFrame \in Nat /\ MaxFrame <= VideoSpace + 1 /\ RefSize < VideoSpace
      /\ d \in Nat /\ d >= 1 /\ d <= RefSize
  BY VideoConstants DEF NumbersAreUnique
<1>3. Video!Cast(r.cur - d) = Video!Cast(s.pos - d)
  <2>1. Video!Cast(d) = d
    <3>1. VideoSpace \in Nat /\ VideoSpace > 1 /\ VideoSpace % 2 = 0 /\ FALSE \in BOOLEAN
      BY VideoAssumption
    <3>2. d \in 0 .. (VideoSpace - 1)
      BY <1>2
    <3> QED  BY <3>1, <3>2, Video!CastOfNumber
  <2>2. Video!Cast(Video!Cast(s.pos) - Video!Cast(d)) = Video!Cast(s.pos - d)
    <3> DEFINE n == s.pos
    <3>1. n \in Int /\ d \in Int
      BY <1>1, <1>2
    <3> HIDE DEF n
    <3>2. Video!Cast(Video!Cast(n) - Video!Cast(d)) = Video!Cast(n - d)
      BY <3>1, VideoCastDifference
    <3> QED  BY <3>2 DEF n
  <2> QED  BY <1>1, <2>1, <2>2
<1>4. PICK q \in 1 .. s.pos : q \notin s.unusable /\ Video!Cast(s.pos - d) = Video!Cast(q) /\ q # s.pos
  BY <1>3 DEF Kept, References, Video!HaveRef
<1>5. s.pos - d = q
  <2> DEFINE a == s.pos - d
             x == a % VideoSpace
             y == q % VideoSpace
  <2>1. a \in Int /\ q \in Int /\ a - q \in (1 - VideoSpace) .. (VideoSpace - 1)
    BY <1>1, <1>2, <1>4
  <2>2. x = y
    BY <1>4 DEF Video!Cast
  <2>3. x \in Int /\ y \in Int
    <3> HIDE DEF a
    <3> QED  BY <1>2, <2>1, Video!Division
  <2>4. x - y \in {a - q, a - q + VideoSpace, a - q - VideoSpace}
    <3>1. VideoSpace \in Nat /\ VideoSpace > 1 /\ VideoSpace % 2 = 0 /\ FALSE \in BOOLEAN
      BY VideoAssumption
    <3> HIDE DEF a
    <3> QED  BY <1>2, <2>1, <3>1, Video!Remainders
  <2> HIDE DEF x, y
  <2> QED  BY <1>2, <2>1, <2>2, <2>3, <2>4
<1> QED  BY <1>1, <1>2, <1>4, <1>5

LEMMA SliceLeaves ==
  ASSUME NEW r, NEW s, Kept(r, s), Video!Unflushed(r), NEW d \in 1 .. RefSize,
         NEW a \in Video!DecodeSlice(r, s, d)
  PROVE  AfterFlush(a, s)
<1> DEFINE kept == {e \in d .. RefSize : Video!HaveRef(r, Video!Cast(r.cur - e))}
<1>0. d \in Nat /\ RefSize \in Nat /\ d >= 1
  BY VideoConstants
<1>1. CASE Video!HaveRef(r, Video!Cast(r.cur - d))
  <2>1. a = Video!Decode(r, s, d)
    BY <1>1 DEF Video!DecodeSlice
  <2> QED  BY <1>0, <1>1, <2>1, FoundIsMeant, DecodeLeaves
<1>2. CASE ~Video!HaveRef(r, Video!Cast(r.cur - d))
  <2>1. a = Video!DropDependent(r, s) \/ (kept # {} /\ a = Video!Decode(r, s, Video!Min(kept)))
    BY <1>2 DEF Video!DecodeSlice
  <2>2. CASE a = Video!DropDependent(r, s)
    BY <2>2, DropLeaves
  <2>3. CASE kept # {} /\ a = Video!Decode(r, s, Video!Min(kept))
    <3> DEFINE e == Video!Min(kept)
    <3>1. e \in kept
      <4>1. kept \in SUBSET Nat
        BY <1>0
      <4> HIDE DEF kept
      <4> QED  BY <2>3, <4>1, LeastIsFound
    <3>2. e \in 1 .. RefSize /\ e \in Nat /\ Video!HaveRef(r, Video!Cast(r.cur - e))
      <4> HIDE DEF e
      <4> QED  BY <1>0, <3>1
    <3> HIDE DEF e
    <3>3. AfterFlush(Video!Decode(r, s, e), s)
      BY <3>2, FoundIsMeant, DecodeLeaves
    <3> QED  BY <2>3, <3>3 DEF e
  <2> QED  BY <2>1, <2>2, <2>3
<1> QED  BY <1>1, <1>2

LEMMA FlushLeaves ==
  ASSUME NEW r, NEW s, Kept(r, s), Video!Unflushed(r),
         seen.pos \in Nat, s.pos - seen.pos \in (-Video!SeqHalf) .. Video!SeqHalf,
         NEW a \in Video!FlushFrame(r, s)
  PROVE  AfterFlush(a, s)
<1> DEFINE f == Video!Restored(r)
<1>1. Kept(f, s) /\ Video!Unflushed(f)
  <2>1. CASE f = r
    BY <2>1
  <2>2. CASE f = [r EXCEPT !.slots = r.slots \cup 0 .. (r.expected.source - 1)]
    <3>1. r \in VrType
      BY DEF Kept, Frames
    <3> DEFINE more == r.slots \cup 0 .. (r.expected.source - 1)
    <3>4. more \in SUBSET Int /\ f = [r EXCEPT !.slots = more]
      BY <2>2, <3>1 DEF VrType
    <3> HIDE DEF f, more
    <3>2. f \in VrType /\ f.cur = r.cur /\ f.prev = r.prev /\ f.complete = r.complete /\ f.refs = r.refs
      BY <3>1, <3>4 DEF VrType
    <3>3. Video!Unflushed(f) <=> Video!Unflushed(r)
      BY <3>2 DEF Video!Unflushed
    <3> QED  BY <3>2, <3>3 DEF Kept, Frames, References
  <2> QED  BY <2>1, <2>2 DEF Video!Restored, Kept, Frames, VrType
<1>2. CASE a = Video!FecFailed(r, s)
  BY <1>2, FecFailedLeaves
<1>3. CASE a = Video!Decode(f, s, 0)
  <2> HIDE DEF f
  <2> QED  BY <1>1, <1>3, DecodeLeaves
<1>4. CASE \E d \in 1 .. RefSize : a \in Video!DecodeSlice(f, s, d)
  <2> HIDE DEF f
  <2> QED  BY <1>1, <1>4, SliceLeaves
<1> QED  BY <1>2, <1>3, <1>4 DEF Video!FlushFrame

(* The next frame with a packet: those between are known, and left behind     *)
(* with the frame before.                                                    *)
LEMMA GapIsTold ==
  ASSUME NEW r, NEW s, Kept(r, s), ~Video!Unflushed(r), s.pos = seen.pos,
         NEW n \in Nat, n - s.pos \in 1 .. (Video!SeqHalf - 1), NEW b, b = Video!ReportGap(r, s, n)
  PROVE  /\ b.vr \in VrType /\ b.vr.cur = r.cur /\ b.vr.prev = r.prev /\ b.vr.refs = r.refs
         /\ b.seen \in SeenType /\ b.seen.pos = s.pos /\ b.seen.decoded = s.decoded /\ b.seen.ordered
         /\ b.seen.untold = {} /\ b.seen.ref = s.ref
         /\ b.seen.unusable \subseteq s.unusable \cup (s.pos + 1) .. (n - 1)
<1> DEFINE skipped == (s.pos + 1) .. (n - 1)
           next == Video!NextExpected(r)
           known == Video!Told(next, Video!Cast(Video!Cast(n) - 1))
           left == Video!Recent(s.unusable \cup skipped, n)
           due == s.due + Video!Cardinality(skipped) * Video!UnitsPerFrame(r)
           passed == [s EXCEPT !.untold = s.untold \cup skipped, !.unusable = left, !.due = due]
           lost == (r.genLost + (Video!Cast(n) - next) * Video!UnitsPerFrame(r)) % CounterSpace
<1>1. /\ r \in VrType /\ s \in SeenType /\ s.ordered /\ s.untold = {} /\ s.pos \in Nat
      /\ r.complete = Video!Cast(s.pos)
  BY DEF Kept, Frames, SeenType
<1>2. next = Video!Cast(s.pos + 1)
  <2> DEFINE p == s.pos
  <2>1. p \in Int /\ 1 \in Int /\ r.complete = Video!Cast(p)
    BY <1>1
  <2> HIDE DEF p
  <2>2. Video!Cast(Video!Cast(p) + 1) = Video!Cast(p + 1)
    BY <2>1, VideoCastSum
  <2> QED  BY <2>1, <2>2 DEF Video!NextExpected, p
<1>3. Video!SeqGt(Video!Cast(n), next) <=> n > s.pos + 1
  <2> DEFINE m == s.pos + 1
  <2>1. m \in Int /\ n \in Int /\ n - m \in (1 - Video!SeqHalf) .. (Video!SeqHalf - 1)
    BY <1>1, VideoConstants
  <2> HIDE DEF m
  <2>2. Video!SeqGt(Video!Cast(n), Video!Cast(m)) <=> n > m
    BY <2>1, VideoOrder
  <2> QED  BY <1>2, <2>2 DEF m
<1>4. n > s.pos + 1 => skipped \subseteq known
  <2> SUFFICES ASSUME n > s.pos + 1, NEW m \in skipped PROVE m \in known
    OBVIOUS
  <2> DEFINE p == s.pos + 1
             k == n - 1
  <2>1. /\ p \in Int /\ k \in Int /\ m \in Int /\ m - p \in 0 .. (VideoSpace - 1) /\ k - p \in 0 .. (VideoSpace - 1)
        /\ m - p <= k - p /\ m \in (seen.pos - Video!SeqHalf) .. (seen.pos + Video!SeqHalf)
    BY <1>1, VideoConstants
  <2>2. Video!Cast(Video!Cast(n) - 1) = Video!Cast(k)
    <3>1. Video!Cast(Video!Cast(n) + (-1)) = Video!Cast(n + (-1))
      BY VideoCastSum
    <3>2. Video!Cast(n) \in Int
      BY VideoCast
    <3>3. Video!Cast(n) + (-1) = Video!Cast(n) - 1 /\ n + (-1) = n - 1
      BY <3>2
    <3> QED  BY <3>1, <3>3
  <2> HIDE DEF p, k
  <2>3. Video!Cast(m - Video!Cast(p)) = m - p /\ Video!Cast(Video!Cast(k) - Video!Cast(p)) = k - p
    BY <2>1, VideoDistance
  <2>4. next = Video!Cast(p)
    BY <1>2 DEF p
  <2> HIDE DEF next
  <2> QED  BY <2>1, <2>2, <2>3, <2>4 DEF Video!Told
<1>5. /\ left \in SUBSET Int /\ left \subseteq s.unusable \cup skipped
      /\ skipped \in SUBSET Int
  <2>1. skipped \in SUBSET Int
    BY <1>1
  <2> HIDE DEF skipped
  <2> QED  BY <1>1, <2>1 DEF Video!Recent, SeenType
<1>6. due \in Int
  <2>1. Video!Cardinality(skipped) \in Int
    <3>1. Video!Cardinality(skipped) = Cardinality(skipped)
      BY DEF Video!Cardinality, Cardinality
    <3>2. IsFiniteSet(skipped)
      <4>1. s.pos + 1 \in Int /\ n - 1 \in Int
        BY <1>1
      <4> QED  BY <4>1, FS_Interval
    <3> HIDE DEF skipped
    <3> QED  BY <3>1, <3>2, FS_CardinalityType
  <2>2. Video!UnitsPerFrame(r) \in Int /\ s.due \in Int
    BY <1>1 DEF Video!UnitsPerFrame, VrType, SeenType
  <2> HIDE DEF skipped
  <2> QED  BY <2>1, <2>2
<1>7. lost \in Int
  <2>1. Video!UnitsPerFrame(r) \in Int /\ r.genLost \in Int
    BY <1>1 DEF Video!UnitsPerFrame, VrType
  <2>2. next \in Int /\ Video!Cast(n) \in Int
    BY <1>1, <1>2, VideoCast
  <2> HIDE DEF next
  <2>3. r.genLost + (Video!Cast(n) - next) * Video!UnitsPerFrame(r) \in Int
    BY <2>1, <2>2
  <2> QED  BY <2>3, VideoConstants
<1> HIDE DEF left, due, lost, known, skipped, next
<1>8. /\ passed \in SeenType /\ passed.pos = s.pos /\ passed.decoded = s.decoded /\ passed.ordered
      /\ passed.untold = skipped /\ passed.ref = s.ref /\ passed.unusable = left
  BY <1>1, <1>5, <1>6 DEF SeenType
<1>9. CASE ~Video!SeqGt(Video!Cast(n), next)
  <2>1. b = Video!State(r, passed)
    BY <1>9 DEF Video!ReportGap, left, due, next, skipped
  <2>2. b.vr = r /\ b.seen = passed
    BY <2>1 DEF Video!State
  <2>3. skipped = {}
    BY <1>1, <1>3, <1>9 DEF skipped
  <2> QED  BY <1>1, <1>5, <1>8, <2>2, <2>3 DEF skipped
<1>10. CASE Video!SeqGt(Video!Cast(n), next)
  <2>1. b = Video!State([r EXCEPT !.genLost = lost], [passed EXCEPT !.untold = skipped \ known])
    <3>1. [passed EXCEPT !.untold = @ \ known] = [passed EXCEPT !.untold = skipped \ known]
      BY <1>8
    <3>2. b = Video!State([r EXCEPT !.genLost = lost], [passed EXCEPT !.untold = @ \ known])
      BY <1>10 DEF Video!ReportGap, left, due, next, skipped, lost, known
    <3> QED  BY <3>1, <3>2
  <2> HIDE DEF passed
  <2>2. skipped \ known = {}
    BY <1>3, <1>4, <1>10
  <2>3. b.vr = [r EXCEPT !.genLost = lost]
    BY <2>1 DEF Video!State
  <2>4. b.seen = [passed EXCEPT !.untold = {}]
    BY <2>1, <2>2 DEF Video!State
  <2>5. b.vr \in VrType /\ b.vr.cur = r.cur /\ b.vr.prev = r.prev /\ b.vr.refs = r.refs
    BY <1>1, <1>7, <2>3, ZenonT(60) DEF VrType
  <2>6. /\ b.seen \in SeenType /\ b.seen.pos = passed.pos /\ b.seen.decoded = passed.decoded
        /\ b.seen.ordered = passed.ordered /\ b.seen.untold = {} /\ b.seen.ref = passed.ref
        /\ b.seen.unusable = passed.unusable
    BY <1>8, <2>4 DEF SeenType
  <2> QED  BY <1>5, <1>8, <2>5, <2>6 DEF skipped
<1> QED  BY <1>9, <1>10

LEMMA FrameBegins ==
  ASSUME seen.pos \in Nat, NEW r, NEW s, Kept(r, s), ~Video!Unflushed(r), s.pos = seen.pos,
         NEW n \in 1 .. MaxFrame, n - s.pos \in 1 .. (Video!SeqHalf - 1), NEW l \in VideoLayouts,
         NEW b, b = Video!ReportGap(r, s, n), NEW r2, NEW s2,
         r2 = Video!AllocFrame([b.vr EXCEPT !.cur = Video!Cast(n)], l), s2 = [b.seen EXCEPT !.pos = n]
  PROVE  Kept(r2, s2) /\ Filled(r2) /\ s2.pos = n
<1>1. /\ b.vr \in VrType /\ b.vr.cur = r.cur /\ b.vr.prev = r.prev /\ b.vr.refs = r.refs
      /\ b.seen \in SeenType /\ b.seen.pos = s.pos /\ b.seen.decoded = s.decoded /\ b.seen.ordered
      /\ b.seen.untold = {} /\ b.seen.ref = s.ref
      /\ b.seen.unusable \subseteq s.unusable \cup (s.pos + 1) .. (n - 1)
  BY VideoConstants, GapIsTold
<1>2. /\ n \in Nat /\ n <= MaxFrame /\ s.pos \in Nat /\ s.pos < n /\ s.decoded <= s.pos /\ s.decoded \in Nat
  BY VideoConstants DEF Kept, Frames, SeenType
<1>3. Video!Cast(n) \in Nat /\ Video!Cast(n) # r.prev
  <2>1. Video!Cast(n) \in Nat
    BY <1>2, VideoCast
  <2>2. CASE s.pos = 0
    BY <2>1, <2>2 DEF Kept, Frames
  <2>3. CASE s.pos # 0
    <3>1. r.prev = Video!Cast(s.pos)
      BY <1>2, <2>3, VideoCast DEF Kept, Frames, Video!Unflushed
    <3> DEFINE p == s.pos
    <3>2. p \in Int /\ n \in Int /\ n - p \in (1 - Video!SeqHalf) .. (Video!SeqHalf - 1) /\ n # p
      BY <1>2, VideoConstants
    <3> HIDE DEF p
    <3>3. Video!Cast(n) # Video!Cast(p)
      BY <3>2, VideoOrder
    <3> QED  BY <2>1, <3>1, <3>3 DEF p
  <2> QED  BY <2>2, <2>3
<1>4. /\ r2 \in VrType /\ r2.cur = Video!Cast(n) /\ r2.prev = r.prev /\ r2.refs = r.refs
      /\ r2.slots = {} /\ r2.source = 0 /\ r2.fec = 0
  <2> DEFINE e == Video!Expected(l)
             c == Video!Cast(n)
             g == [b.vr EXCEPT !.cur = c]
  <2>1. e \in [source : Nat, fec : Nat]
    BY VideoAssumption DEF Video!Expected
  <2>2. c \in Int
    BY <1>3
  <2>3. r2 = [g EXCEPT !.expected = e, !.source = 0, !.fec = 0, !.slots = {}]
    BY DEF Video!AllocFrame
  <2> HIDE DEF e, c
  <2>4. g \in VrType /\ g.cur = c /\ g.prev = b.vr.prev /\ g.refs = b.vr.refs
    BY <1>1, <2>2 DEF VrType
  <2> HIDE DEF g
  <2> DEFINE h == [g EXCEPT !.expected = e, !.source = 0, !.fec = 0, !.slots = {}]
  <2>5. /\ h \in VrType /\ h.cur = g.cur /\ h.prev = g.prev /\ h.refs = g.refs
        /\ h.slots = {} /\ h.source = 0 /\ h.fec = 0
    BY <2>1, <2>4 DEF VrType
  <2> QED  BY <1>1, <2>3, <2>4, <2>5 DEF c
<1>5. /\ s2 \in SeenType /\ s2.pos = n /\ s2.decoded = s.decoded /\ s2.ordered /\ s2.untold = {}
      /\ s2.ref = s.ref /\ s2.unusable = b.seen.unusable
  BY <1>1, <1>2 DEF SeenType
<1>6. Video!Unflushed(r2)
  BY <1>3, <1>4 DEF Video!Unflushed
<1>7. Frames(r2, s2)
  BY <1>2, <1>4, <1>5, <1>6 DEF Frames
<1>8. Filled(r2)
  <2>1. Cardinality(r2.slots) = 0
    BY <1>4, FS_EmptySet
  <2> QED  BY <1>4, <2>1 DEF Filled
<1>9. ASSUME NumbersAreUnique PROVE References(r2, s2)
  <2>1. References(r, s)
    BY <1>9 DEF Kept
  <2>2. \A x \in Video!Range(r2.refs) : \E q \in 1 .. n : q \notin s2.unusable /\ x = Video!Cast(q) /\ q # n
    <3> SUFFICES ASSUME NEW x \in Video!Range(r.refs)
                 PROVE  \E q \in 1 .. n : q \notin s2.unusable /\ x = Video!Cast(q) /\ q # n
      BY <1>4
    <3>1. PICK q \in 1 .. s.pos : q \notin s.unusable /\ x = Video!Cast(q)
      BY <2>1 DEF References
    <3>2. q \in 1 .. n /\ q # n /\ q \notin s2.unusable
      BY <1>1, <1>2, <1>5, <3>1
    <3> QED  BY <3>1, <3>2
  <2>3. s2.unusable \subseteq 1 .. (n - 1)
    BY <1>1, <1>2, <1>5, <2>1 DEF References
  <2>4. n \notin s2.unusable
    BY <1>2, <2>3
  <2>5. s2.ref \in Nat /\ (s2.ref = 0 \/ s2.ref < n) /\ s2.ref \notin s2.unusable
    BY <1>1, <1>2, <1>5, <2>1 DEF References
  <2> QED  BY <1>2, <1>5, <2>2, <2>3, <2>4, <2>5 DEF References
<1> QED  BY <1>5, <1>7, <1>8, <1>9 DEF Kept

(* A unit fills one slot, once.                                              *)
LEMMA UnitIsPut ==
  ASSUME NEW r, NEW s, Kept(r, s), Filled(r), NEW u \in Nat, NEW f, f = Video!PutUnit(r, u)
  PROVE  Kept(f, s) /\ Filled(f)
<1>0. Video!UnitsPerFrame(r) \in Nat /\ r.expected.source \in Nat
  <2>1. r.expected \in [source : Nat, fec : Nat]
    BY DEF Kept, Frames, VrType
  <2> QED  BY <2>1 DEF Video!UnitsPerFrame
<1>1. CASE f = r
  BY <1>1
<1>2. CASE u < Video!UnitsPerFrame(r) /\ u \notin r.slots /\ f # r
  <2>1. r \in VrType
    BY DEF Kept, Frames
  <2>2. PICK more \in {[source |-> 1, fec |-> 0], [source |-> 0, fec |-> 1]} :
          f = [r EXCEPT !.slots = r.slots \cup {u}, !.source = r.source + more.source, !.fec = r.fec + more.fec]
    <3>1. CASE u < r.expected.source
      <4> DEFINE g == [r EXCEPT !.slots = r.slots \cup {u}, !.source = r.source + 1, !.fec = r.fec + 0]
      <4>1. f = [r EXCEPT !.slots = r.slots \cup {u}, !.source = r.source + 1]
        BY <1>2, <2>1, <3>1 DEF Video!PutUnit, VrType
      <4>2. r.fec + 0 = r.fec
        BY <2>1 DEF VrType
      <4>3. f = g
        BY <2>1, <4>1, <4>2 DEF VrType
      <4> QED  BY <4>3
    <3>2. CASE ~(u < r.expected.source)
      <4> DEFINE g == [r EXCEPT !.slots = r.slots \cup {u}, !.source = r.source + 0, !.fec = r.fec + 1]
      <4>1. f = [r EXCEPT !.slots = r.slots \cup {u}, !.fec = r.fec + 1]
        BY <1>2, <2>1, <3>2 DEF Video!PutUnit, VrType
      <4>2. r.source + 0 = r.source
        BY <2>1 DEF VrType
      <4>3. f = g
        BY <2>1, <4>1, <4>2 DEF VrType
      <4> QED  BY <4>3
    <3> QED  BY <3>1, <3>2
  <2>3. /\ f \in VrType /\ f.cur = r.cur /\ f.prev = r.prev /\ f.complete = r.complete /\ f.refs = r.refs
        /\ f.expected = r.expected /\ f.slots = r.slots \cup {u} /\ f.source + f.fec = r.source + r.fec + 1
    <3> DEFINE slots == r.slots \cup {u}
               source == r.source + more.source
               fec == r.fec + more.fec
    <3>1. slots \in SUBSET Int /\ source \in Nat /\ fec \in Nat /\ source + fec = r.source + r.fec + 1
      BY <2>1, SMTT(30) DEF VrType
    <3>2. f = [r EXCEPT !.slots = slots, !.source = source, !.fec = fec]
      BY <2>2
    <3> HIDE DEF slots, source, fec
    <3>3. /\ f \in VrType /\ f.cur = r.cur /\ f.prev = r.prev /\ f.complete = r.complete /\ f.refs = r.refs
          /\ f.expected = r.expected /\ f.slots = slots /\ f.source = source /\ f.fec = fec
      BY <2>1, <3>1, <3>2 DEF VrType
    <3> QED  BY <3>1, <3>3 DEF slots
  <2>4. Video!Unflushed(f) <=> Video!Unflushed(r)
    BY <2>3 DEF Video!Unflushed
  <2>5. Kept(f, s)
    BY <2>3, <2>4 DEF Kept, Frames, References
  <2>6. ASSUME Video!Unflushed(r) PROVE f.slots \subseteq 0 .. (Video!UnitsPerFrame(f) - 1)
                                        /\ Cardinality(f.slots) = f.source + f.fec
    <3>1. Video!UnitsPerFrame(f) = Video!UnitsPerFrame(r) /\ Video!UnitsPerFrame(r) \in Nat
      BY <1>0, <2>3 DEF Video!UnitsPerFrame
    <3>2. r.slots \in SUBSET (0 .. (Video!UnitsPerFrame(r) - 1)) /\ Cardinality(r.slots) = r.source + r.fec
      BY <2>6 DEF Filled
    <3>3. IsFiniteSet(r.slots)
      <4> DEFINE k == Video!UnitsPerFrame(r) - 1
      <4>1. 0 \in Int /\ k \in Int
        BY <3>1
      <4> HIDE DEF k
      <4>2. IsFiniteSet(0 .. k)
        BY <4>1, FS_Interval
      <4> QED  BY <3>2, <4>2, FS_Subset DEF k
    <3>4. Cardinality(r.slots \cup {u}) = Cardinality(r.slots) + 1
      BY <1>2, <3>3, FS_AddElement
    <3>5. u \in 0 .. (Video!UnitsPerFrame(r) - 1)
      BY <1>2, <3>1
    <3> QED  BY <2>3, <3>1, <3>2, <3>4, <3>5
  <2> QED  BY <2>4, <2>5, <2>6 DEF Filled
<1> QED  BY <1>0, <1>1, <1>2 DEF Video!PutUnit

LEMMA FillLeaves ==
  ASSUME NEW a, Kept(a.vr, a.seen), Filled(a.vr), NEW u \in Nat,
         seen.pos \in Nat, a.seen.pos - seen.pos \in (-Video!SeqHalf) .. Video!SeqHalf,
         NEW b \in Video!Fill(a, u)
  PROVE  Kept(b.vr, b.seen) /\ Filled(b.vr)
<1> DEFINE f == Video!PutUnit(a.vr, u)
<1>1. Kept(f, a.seen) /\ Filled(f)
  BY UnitIsPut
<1>2. CASE Video!Unflushed(f) /\ b \in Video!FlushFrame(f, a.seen)
  <2> HIDE DEF f
  <2>1. AfterFlush(b, a.seen)
    BY <1>1, <1>2, FlushLeaves
  <2> QED  BY <2>1 DEF AfterFlush, Filled
<1>3. CASE b = Video!State(f, a.seen)
  <2>1. b.vr = f /\ b.seen = a.seen
    BY <1>3 DEF Video!State
  <2> QED  BY <1>1, <2>1
<1> QED  BY <1>2, <1>3 DEF Video!Fill

VideoInv == Kept(vr, seen) /\ Filled(vr)

LEMMA VideoPacket ==
  ASSUME VideoInv, NEW n \in 1 .. MaxFrame, NEW l \in VideoLayouts, NEW u \in Nat, Video!AvPacket(n, l, u)
  PROVE  VideoInv'
<1>1. vr \in VrType /\ seen \in SeenType /\ seen.pos \in Nat /\ n \in Nat
  BY VideoConstants DEF VideoInv, Kept, Frames, SeenType
<1>2. n - seen.pos \in (1 - Video!SeqHalf) .. (Video!SeqHalf - 1) /\ Video!SeqHalf \in Nat
  BY VideoConstants DEF Video!AvPacket
<1>3. CASE Video!IsNext(vr, Video!Cast(n))
  <2>1. PICK a \in Video!NextFrame(n, l) : \E b \in Video!Fill(a, u) : vr' = b.vr /\ seen' = b.seen
    BY <1>3 DEF Video!AvPacket, Video!Becomes
  <2>2. n - seen.pos \in 1 .. (Video!SeqHalf - 1)
    <3>1. CASE seen.pos = 0
      BY <1>1, <1>2, <3>1
    <3>2. CASE seen.pos # 0
      <4> DEFINE p == seen.pos
      <4>1. vr.cur = Video!Cast(p) /\ Video!Cast(p) \in Nat /\ p \in Int /\ n \in Int
        BY <1>1, <3>2, VideoCast DEF VideoInv, Kept, Frames
      <4>2. Video!SeqGt(Video!Cast(n), Video!Cast(p))
        BY <1>3, <4>1 DEF Video!IsNext
      <4>3. n - p \in (1 - Video!SeqHalf) .. (Video!SeqHalf - 1)
        BY <1>2
      <4> HIDE DEF p
      <4>4. n > p
        BY <4>1, <4>2, <4>3, VideoOrder
      <4> QED  BY <1>1, <1>2, <4>4 DEF p
    <3> QED  BY <3>1, <3>2
  <2> DEFINE r == Video!ReportStats(vr)
             s == [seen EXCEPT !.due = seen.due + Video!UnitsPerFrame(vr)]
  <2>3. /\ r \in VrType /\ r.cur = vr.cur /\ r.prev = vr.prev /\ r.complete = vr.complete /\ r.refs = vr.refs
        /\ s \in SeenType /\ s.pos = seen.pos /\ s.decoded = seen.decoded /\ s.ordered = seen.ordered
        /\ s.untold = seen.untold /\ s.unusable = seen.unusable /\ s.ref = seen.ref
    <3> DEFINE received == vr.genReceived + (vr.source + vr.fec)
               lost == (vr.genLost + (Video!UnitsPerFrame(vr) - (vr.source + vr.fec))) % CounterSpace
               due == seen.due + Video!UnitsPerFrame(vr)
    <3>1. Video!UnitsPerFrame(vr) \in Int
      BY <1>1 DEF Video!UnitsPerFrame, VrType
    <3>2. received \in Int /\ due \in Int
      BY <1>1, <3>1, SMTT(30) DEF VrType, SeenType
    <3>3. lost \in Int
      <4>1. vr.genLost + (Video!UnitsPerFrame(vr) - (vr.source + vr.fec)) \in Int
        BY <1>1, <3>1 DEF VrType
      <4> QED  BY <4>1, VideoConstants
    <3>4. r = [vr EXCEPT !.genReceived = received, !.genLost = lost]
      BY <1>1 DEF Video!ReportStats, VrType
    <3>5. s = [seen EXCEPT !.due = due]
      OBVIOUS
    <3> HIDE DEF received, lost, due
    <3> DEFINE f == [vr EXCEPT !.genReceived = received, !.genLost = lost]
    <3>6. /\ f \in VrType /\ f.cur = vr.cur /\ f.prev = vr.prev /\ f.complete = vr.complete /\ f.refs = vr.refs
      BY <1>1, <3>2, <3>3 DEF VrType
    <3> HIDE DEF r, s
    <3>7. /\ s \in SeenType /\ s.pos = seen.pos /\ s.decoded = seen.decoded /\ s.ordered = seen.ordered
          /\ s.untold = seen.untold /\ s.unusable = seen.unusable /\ s.ref = seen.ref
      BY <1>1, <3>2, <3>5 DEF SeenType
    <3> QED  BY <3>4, <3>6, <3>7
  <2>4. PICK c \in Video!ForcedFlush(r, s) :
          LET g == Video!ReportGap(c.vr, c.seen, n)
          IN  a = Video!State(Video!AllocFrame([g.vr EXCEPT !.cur = Video!Cast(n)], l), [g.seen EXCEPT !.pos = n])
    BY <1>1 DEF Video!NextFrame, SeenType
  <2> HIDE DEF r, s
  <2>5. Kept(r, s) /\ (Video!Unflushed(r) <=> Video!Unflushed(vr))
    <3>1. Video!Unflushed(r) <=> Video!Unflushed(vr)
      BY <2>3 DEF Video!Unflushed
    <3> QED  BY <2>3, <3>1 DEF VideoInv, Kept, Frames, References
  <2>6. Kept(c.vr, c.seen) /\ ~Video!Unflushed(c.vr) /\ c.seen.pos = seen.pos
    <3>1. CASE Video!Unflushed(r)
      <4>1. c \in Video!FlushFrame(r, s)
        BY <2>4, <3>1 DEF Video!ForcedFlush
      <4>2. s.pos - seen.pos \in (-Video!SeqHalf) .. Video!SeqHalf
        BY <1>1, <1>2, <2>3
      <4>3. AfterFlush(c, s)
        BY <1>1, <2>5, <3>1, <4>1, <4>2, FlushLeaves
      <4> QED  BY <2>3, <4>3 DEF AfterFlush
    <3>2. CASE ~Video!Unflushed(r)
      <4>1. c.vr = r /\ c.seen = s
        BY <2>4, <3>2 DEF Video!ForcedFlush, Video!State
      <4> QED  BY <2>3, <2>5, <3>2, <4>1
    <3> QED  BY <3>1, <3>2
  <2>7. Kept(a.vr, a.seen) /\ Filled(a.vr) /\ a.seen.pos = n
    <3> DEFINE g == Video!ReportGap(c.vr, c.seen, n)
               r2 == Video!AllocFrame([g.vr EXCEPT !.cur = Video!Cast(n)], l)
               s2 == [g.seen EXCEPT !.pos = n]
    <3>1. a.vr = r2 /\ a.seen = s2
      BY <2>4 DEF Video!State
    <3>2. n - c.seen.pos \in 1 .. (Video!SeqHalf - 1)
      BY <2>2, <2>6
    <3>3. Kept(r2, s2) /\ Filled(r2) /\ s2.pos = n
      BY <1>1, <2>6, <3>2, FrameBegins
    <3> QED  BY <3>1, <3>3
  <2>8. a.seen.pos - seen.pos \in (-Video!SeqHalf) .. Video!SeqHalf
    BY <1>1, <1>2, <2>7
  <2> QED  BY <1>1, <2>1, <2>7, <2>8, FillLeaves DEF VideoInv
<1>4. CASE ~Video!IsNext(vr, Video!Cast(n))
  <2> DEFINE a == Video!State(vr, seen)
  <2>1. PICK b \in Video!Fill(a, u) : vr' = b.vr /\ seen' = b.seen
    BY <1>4 DEF Video!AvPacket, Video!Becomes
  <2>2. a.vr = vr /\ a.seen = seen
    BY DEF Video!State
  <2>3. seen.pos - seen.pos \in (-Video!SeqHalf) .. Video!SeqHalf
    BY <1>1, <1>2
  <2> HIDE DEF a
  <2> QED  BY <1>1, <2>1, <2>2, <2>3, FillLeaves DEF VideoInv
<1> QED  BY <1>3, <1>4

LEMMA VideoBegins == Video!Init => VideoInv
<1> SUFFICES ASSUME Video!Init PROVE VideoInv
  OBVIOUS
<1>1. vr \in VrType /\ vr.cur = -1 /\ vr.prev = -1 /\ vr.complete = 0 /\ vr.refs = <<>>
  BY DEF Video!Init, VrType, Video!NoFrame, Video!NoLayout
<1>2. /\ seen \in SeenType /\ seen.pos = 0 /\ seen.decoded = 0 /\ seen.ordered /\ seen.untold = {}
      /\ seen.ref = 0 /\ seen.unusable = {}
  BY DEF Video!Init, SeenType
<1>3. ~Video!Unflushed(vr)
  BY <1>1 DEF Video!Unflushed
<1>4. Video!Cast(0) = 0
  BY VideoConstants DEF Video!Cast
<1>5. Frames(vr, seen) /\ Filled(vr)
  BY <1>1, <1>2, <1>3, <1>4, VideoConstants DEF Frames, Filled
<1>6. Video!Range(vr.refs) = {}
  BY <1>1 DEF Video!Range
<1> QED  BY <1>2, <1>3, <1>5, <1>6 DEF VideoInv, Kept, References

LEMMA VideoNext == ASSUME VideoInv, [Video!Next]_videoVars PROVE VideoInv'
<1>1. CASE Video!StreamInfo
  <2>1. vr' = [vr EXCEPT !.configured = TRUE] /\ seen' = seen /\ vr \in VrType
    BY <1>1 DEF Video!StreamInfo, VideoInv, Kept, Frames
  <2> DEFINE f == [vr EXCEPT !.configured = TRUE]
  <2>2. /\ f \in VrType /\ f.cur = vr.cur /\ f.prev = vr.prev /\ f.complete = vr.complete /\ f.refs = vr.refs
        /\ f.slots = vr.slots /\ f.expected = vr.expected /\ f.source = vr.source /\ f.fec = vr.fec
    BY <2>1 DEF VrType
  <2> HIDE DEF f
  <2>3. Video!Unflushed(f) <=> Video!Unflushed(vr)
    BY <2>2 DEF Video!Unflushed
  <2>4. Kept(f, seen) /\ Filled(f)
    BY <2>2, <2>3 DEF VideoInv, Kept, Frames, References, Filled, Video!UnitsPerFrame
  <2> QED  BY <2>1, <2>4 DEF VideoInv, f
<1>2. CASE \E n \in 1 .. MaxFrame, l \in VideoLayouts : \E u \in 0 .. (l.source + l.fec - 1) : Video!AvPacket(n, l, u)
  <2>1. PICK n \in 1 .. MaxFrame, l \in VideoLayouts : \E u \in 0 .. (l.source + l.fec - 1) : Video!AvPacket(n, l, u)
    BY <1>2
  <2>2. l.source \in Nat /\ l.fec \in Nat
    BY VideoAssumption
  <2>3. \E u \in Nat : Video!AvPacket(n, l, u)
    BY <2>1, <2>2
  <2> QED  BY <2>3, VideoPacket
<1>3. CASE UNCHANGED videoVars
  BY <1>3 DEF VideoInv, videoVars, Kept, Frames, References, Filled
<1> QED  BY <1>1, <1>2, <1>3 DEF Video!Next

(* The frames that were handed on, missed and known agree, and so do the kept  *)
(* reference frames, whatever units come.                                    *)
THEOREM VideoInvariant == MCSpec => []VideoInv
<1>1. MCInit => VideoInv
  BY VideoBegins DEF MCInit
<1>2. VideoInv /\ [MCNext]_StreamVars => VideoInv'
  BY VideoNext DEF MCNext, StreamVars
<1> QED  BY <1>1, <1>2, PTL DEF MCSpec, StreamVars

(* The decoder gets frames in the order of the console and none twice, and   *)
(* the counters of a frame say how many of its slots are empty.              *)
THEOREM FramesKeepTheirOrder == MCSpec => []FramesInOrder
<1>1. VideoInv => FramesInOrder
  <2> SUFFICES ASSUME VideoInv PROVE Video!FramesInOrder /\ Video!FecAssertion
    BY DEF FramesInOrder
  <2>1. Video!FramesInOrder
    BY DEF VideoInv, Kept, Frames, Video!FramesInOrder
  <2>2. ASSUME Video!Unflushed(vr)
        PROVE  Video!Cardinality(Video!Erasures(vr)) = Video!UnitsPerFrame(vr) - (vr.source + vr.fec)
    <3> DEFINE units == Video!UnitsPerFrame(vr)
               k == units - 1
               all == 0 .. k
    <3>1. units \in Nat /\ vr.source \in Nat /\ vr.fec \in Nat
      BY DEF VideoInv, Kept, Frames, VrType, Video!UnitsPerFrame
    <3>2. vr.slots \in SUBSET all /\ Cardinality(vr.slots) = vr.source + vr.fec
      BY <2>2 DEF VideoInv, Filled
    <3>3. 0 \in Int /\ k \in Int /\ (IF 0 > k THEN 0 ELSE k - 0 + 1) = units
      BY <3>1
    <3> HIDE DEF k, units
    <3>4. IsFiniteSet(all) /\ Cardinality(all) = units
      BY <3>3, FS_Interval
    <3> HIDE DEF all
    <3>5. IsFiniteSet(vr.slots) /\ all \cap vr.slots = vr.slots
      BY <3>2, <3>4, FS_Subset
    <3>6. Cardinality(all \ vr.slots) = Cardinality(all) - Cardinality(all \cap vr.slots)
      BY <3>4, FS_Difference
    <3>7. Video!Cardinality(all \ vr.slots) = Cardinality(all \ vr.slots)
      BY DEF Video!Cardinality, Cardinality
    <3>8. Video!Erasures(vr) = all \ vr.slots
      BY DEF Video!Erasures, all, k, units
    <3> QED  BY <3>2, <3>4, <3>5, <3>6, <3>7, <3>8 DEF units
  <2> QED  BY <2>1, <2>2 DEF Video!FecAssertion
<1> QED  BY <1>1, VideoInvariant, PTL

(* No frame is left behind incomplete without the console being known.        *)
THEOREM LossesAreTold == MCSpec => []LostFramesAreReported
<1>1. VideoInv => LostFramesAreReported
  BY DEF VideoInv, Kept, Frames, LostFramesAreReported, Video!LostFramesAreReported
<1> QED  BY <1>1, VideoInvariant, PTL

(* As long as no number comes round to a reference that is still kept, what  *)
(* is decoded refers to a frame that was decoded or concealed.               *)
THEOREM ReferencesAreKept == ASSUME NumbersAreUnique PROVE MCSpec => []ReferencesWereKept
<1>1. VideoInv => ReferencesWereKept
  BY DEF VideoInv, Kept, References, ReferencesWereKept, Video!ReferencesWereKept
<1> QED  BY <1>1, VideoInvariant, PTL

------------------------------------------------------------------------------
(* The sound of a stream                                                      *)

LEMMA AudioConstants ==
  /\ AudioSpace \in Nat \ {0} /\ Audio!SeqHalf \in Nat /\ 2 * Audio!SeqHalf = AudioSpace
  /\ AudioSpace > 1 /\ AudioSpace % 2 = 0 /\ FALSE \in BOOLEAN
BY AudioAssumption DEF Audio!SeqHalf

LEMMA AudioCast ==
  ASSUME NEW a \in Int
  PROVE  Audio!Cast(a) \in Nat /\ Audio!Cast(Audio!Cast(a)) = Audio!Cast(a)
<1>1. Audio!Cast(a) \in 0 .. (AudioSpace - 1) /\ Audio!Cast(Audio!Cast(a)) = Audio!Cast(a)
  BY AudioConstants, Audio!CastIsNumber
<1> QED BY <1>1, AudioConstants

LEMMA AudioCastSum ==
  ASSUME NEW a \in Int, NEW b \in Int
  PROVE  Audio!Cast(Audio!Cast(a) + b) = Audio!Cast(a + b)
<1>1. ((a % AudioSpace) + b) % AudioSpace = (a + b) % AudioSpace
  BY AudioConstants, Audio!RemainderOfSum
<1> QED BY <1>1 DEF Audio!Cast

LEMMA AudioOrder ==
  ASSUME NEW a \in Int, NEW b \in Int, a - b \in (1 - Audio!SeqHalf) .. (Audio!SeqHalf - 1)
  PROVE  Audio!SeqGt(Audio!Cast(a), Audio!Cast(b)) <=> a > b
BY AudioConstants, Audio!CastOrder

(* The least number of a set.                                                 *)
LEMMA LeastExists == ASSUME NEW T \in SUBSET Nat, T # {} PROVE \E x \in T : \A y \in T : x <= y
<1> DEFINE R == {ss \in Nat \X Nat : ss[1] < ss[2]}
<1>1. IsWellFoundedOn(R, Nat)
  BY NatLessThanWellFounded DEF OpToRel
<1>2. PICK x \in T : \A y \in T : <<y, x>> \notin R
  <2> HIDE DEF R
  <2> QED  BY <1>1, WFMin
<1>3. \A y \in T : ~(y < x)
  BY <1>2
<1> HIDE DEF R
<1> QED  BY <1>3

(* The units one after the other: what each leaves.                            *)
PlayedAs(f, b, units, n) ==
  /\ f[0] = b /\ Audio!Play(b, units) = f[n]
  /\ \A i \in 1 .. n : f[i] = IF units[i].skipped THEN f[i - 1] ELSE Audio!Frame(f[i - 1], units[i])

LEMMA PlayIs == ASSUME NEW b, NEW units, Len(units) \in Nat PROVE \E f : PlayedAs(f, b, units, Len(units))
<1> DEFINE Next1(e, i) == IF units[i].skipped THEN e ELSE Audio!Frame(e, units[i])
           Fits(f, m) == f = [i \in 0 .. m |-> IF i = 0 THEN b ELSE Next1(f[i - 1], i)]
           Bad == {m \in 0 .. Len(units) : ~\E f : Fits(f, m)}
<1>1. Audio!Play(b, units) = (CHOOSE f : Fits(f, Len(units)))[Len(units)]
  BY DEF Audio!Play
<1> HIDE DEF Next1
<1>2. \E f : Fits(f, 0)
  <2> DEFINE g == [i \in 0 .. 0 |-> b]
  <2>1. Fits(g, 0)
    OBVIOUS
  <2> QED BY <2>1
<1>3. ASSUME NEW m \in Nat, \E f : Fits(f, m) PROVE \E f : Fits(f, m + 1)
  <2>1. PICK f : Fits(f, m)
    BY <1>3
  <2> DEFINE g == [i \in 0 .. (m + 1) |-> IF i = m + 1 THEN Next1(f[m], m + 1) ELSE f[i]]
  <2>2. ASSUME NEW i \in 0 .. (m + 1) PROVE g[i] = IF i = 0 THEN b ELSE Next1(g[i - 1], i)
    <3>1. CASE i = 0
      BY <2>1, <3>1
    <3>2. CASE i = m + 1
      BY <3>2
    <3>3. CASE i \in 1 .. m
      <4>1. i - 1 \in 0 .. m /\ i \in 0 .. m /\ i # 0 /\ i # m + 1 /\ i - 1 # m + 1 /\ i - 1 \in 0 .. (m + 1)
        BY <3>3
      <4>2. f[i] = Next1(f[i - 1], i)
        BY <2>1, <4>1
      <4> QED BY <4>1, <4>2
    <3> QED BY <3>1, <3>2, <3>3
  <2>3. g = [i \in 0 .. (m + 1) |-> IF i = 0 THEN b ELSE Next1(g[i - 1], i)]
    <3>1. DOMAIN g = 0 .. (m + 1) /\ g = [i \in 0 .. (m + 1) |-> g[i]]
      OBVIOUS
    <3> HIDE DEF g
    <3> QED BY <2>2, <3>1
  <2>4. Fits(g, m + 1)
    <3> HIDE DEF g
    <3> QED BY <2>3
  <2> QED BY <2>4
<1>4. Bad = {}
  <2>1. SUFFICES ASSUME Bad # {} PROVE FALSE
    OBVIOUS
  <2>2. PICK m \in Bad : \A l \in Bad : m <= l
    <3>1. Bad \in SUBSET Nat
      OBVIOUS
    <3> HIDE DEF Bad
    <3> QED BY <2>1, <3>1, LeastExists
  <2>3. m \in 0 .. Len(units) /\ ~\E f : Fits(f, m)
    BY <2>2
  <2>4. m # 0
    BY <1>2, <2>3
  <2>5. m - 1 \in 0 .. Len(units) /\ m - 1 \in Nat /\ (m - 1) + 1 = m /\ m - 1 \notin Bad
    BY <2>2, <2>3, <2>4
  <2> HIDE DEF Fits
  <2>6. \E f : Fits(f, m - 1)
    BY <2>5
  <2>7. \E f : Fits(f, (m - 1) + 1)
    BY <1>3, <2>5, <2>6
  <2> QED BY <2>3, <2>5, <2>7
<1>5. \E f : Fits(f, Len(units))
  <2> HIDE DEF Fits
  <2>1. Len(units) \in 0 .. Len(units) /\ Len(units) \notin Bad
    BY <1>4
  <2> QED BY <2>1
<1> DEFINE f == CHOOSE f : Fits(f, Len(units))
<1>6. Fits(f, Len(units))
  <2> HIDE DEF Fits
  <2> QED BY <1>5
<1>7. Audio!Play(b, units) = f[Len(units)]
  BY <1>1
<1> HIDE DEF f
<1>8. f[0] = b /\ \A i \in 1 .. Len(units) : f[i] = Next1(f[i - 1], i)
  BY <1>6
<1>9. \A i \in 1 .. Len(units) : f[i] = IF units[i].skipped THEN f[i - 1] ELSE Audio!Frame(f[i - 1], units[i])
  BY <1>8 DEF Next1
<1>10. PlayedAs(f, b, units, Len(units))
  BY <1>7, <1>8, <1>9 DEF PlayedAs
<1> QED BY <1>10

(* A receiver, and what was heard of it.                                        *)
IsReceiver(r) ==
  r = [prev |-> r.prev, startup |-> r.startup, flushed |-> r.flushed, emitted |-> r.emitted, first |-> r.first,
       layout |-> r.layout, slots |-> r.slots, source |-> r.source, fec |-> r.fec]
IsHeard(h) == h = [place |-> h.place, ordered |-> h.ordered, recent |-> h.recent, astray |-> h.astray]
Strays(h) == h.astray => service = "cloud" /\ haptics
(* All but the number of the last frame.                                         *)
Alike(r, s) ==
  /\ r.startup = s.startup /\ r.flushed = s.flushed /\ r.emitted = s.emitted /\ r.first = s.first
  /\ r.layout = s.layout /\ r.slots = s.slots /\ r.source = s.source /\ r.fec = s.fec

(* A frame is played if it is newer; p and n are the places of the last one and of this one,  *)
(* by their numbers.                                                                 *)
LEMMA FrameIs ==
  ASSUME NEW b, NEW unit, NEW p \in Int, NEW n \in Int, IsReceiver(b.r), IsHeard(b.h),
         b.r.prev = Audio!Cast(p), Audio!Cast(unit.index) = Audio!Cast(n), p - n < Audio!SeqHalf
  PROVE  LET c == Audio!Frame(b, unit) IN
         \/ c = b /\ (n <= p \/ n - p >= Audio!SeqHalf)
         \/ /\ n > p /\ IsReceiver(c.r) /\ IsHeard(c.h) /\ Alike(c.r, b.r) /\ c.r.prev = Audio!Cast(n)
            /\ c.h.place = unit.place /\ c.h.ordered = (b.h.ordered /\ unit.place > b.h.place)
            /\ c.h.recent = b.h.recent \cup {unit.place}
            /\ c.h.astray = (b.h.astray \/ unit.haptics # haptics)
<1> DEFINE c == Audio!Frame(b, unit)
           newer == Audio!SeqGt(unit.index, b.r.prev)
<1>1. newer <=> Audio!SeqGt(Audio!Cast(n), Audio!Cast(p))
  <2>1. Audio!Cast(b.r.prev) = Audio!Cast(Audio!Cast(p)) /\ Audio!Cast(Audio!Cast(n)) = Audio!Cast(unit.index)
    BY AudioCast
  <2> QED BY <2>1 DEF Audio!SeqGt
<1>2. Audio!SeqHalf \in Nat
  BY AudioConstants
<1>3. n - p < Audio!SeqHalf => (newer <=> n > p)
  <2>1. SUFFICES ASSUME n - p < Audio!SeqHalf PROVE newer <=> n > p
    OBVIOUS
  <2>2. n - p \in (1 - Audio!SeqHalf) .. (Audio!SeqHalf - 1)
    BY <1>2, <2>1
  <2>3. Audio!SeqGt(Audio!Cast(n), Audio!Cast(p)) <=> n > p
    BY <2>2, AudioOrder
  <2> QED BY <1>1, <2>3
<1>4. CASE ~newer
  <2>1. c = b
    BY <1>4 DEF Audio!Frame
  <2> HIDE DEF newer, c
  <2>2. n <= p \/ n - p >= Audio!SeqHalf
    BY <1>2, <1>3, <1>4
  <2> QED BY <2>1, <2>2 DEF c
<1>5. CASE newer
  <2>1. n > p
    <3> HIDE DEF newer
    <3> QED BY <1>2, <1>3, <1>5
  <2>2. /\ c.r = [b.r EXCEPT !.prev = Audio!Cast(unit.index)]
        /\ c.h = [b.h EXCEPT !.place = unit.place, !.ordered = @ /\ unit.place > b.h.place,
                             !.recent = @ \cup {unit.place}, !.astray = @ \/ unit.haptics # haptics]
    BY <1>5 DEF Audio!Frame, Audio!Both
  <2>3. IsReceiver(c.r) /\ Alike(c.r, b.r) /\ c.r.prev = Audio!Cast(n)
    BY <2>2 DEF IsReceiver, Alike
  <2>4. /\ IsHeard(c.h) /\ c.h.place = unit.place /\ c.h.ordered = (b.h.ordered /\ unit.place > b.h.place)
        /\ c.h.recent = b.h.recent \cup {unit.place} /\ c.h.astray = (b.h.astray \/ unit.haptics # haptics)
    BY <2>2 DEF IsHeard
  <2> QED BY <2>1, <2>3, <2>4
<1> QED BY <1>4, <1>5

(* What comes of the place a unit goes out for.                                   *)
PlaceOf(r, u) == IF r.slots[u] = Audio!Recovered THEN Audio!Restored(r, u) ELSE r.slots[u]
(* The units up to the n-th went out: p is the last frame before, q the last now.          *)
Emitted(c, b, p, q, at, n) ==
  /\ IsReceiver(c.r) /\ IsHeard(c.h) /\ Alike(c.r, b.r) /\ c.r.prev = Audio!Cast(q) /\ Strays(c.h)
  /\ p <= q /\ (q = p \/ q < at + n) /\ b.h.recent \subseteq c.h.recent
  /\ n > 0 /\ b.r.slots[0] # Audio!Nothing /\ at - p < Audio!SeqHalf => q >= at
AllEmitted(c, b, p, q, at, n) ==
  (n = 0 \/ q = at + n - 1) /\ \A u \in 0 .. (n - 1) : PlaceOf(b.r, u) \in c.h.recent

LEMMA EmitIs ==
  ASSUME NEW b, NEW p \in Int, NEW at \in Int, NEW size \in Nat \ {0}, IsReceiver(b.r), IsHeard(b.h),
         b.r.layout.source = size, size <= Audio!SeqHalf, p - at < Audio!SeqHalf,
         b.r.prev = Audio!Cast(p), b.r.first = Audio!Cast(at), service = "cloud", haptics \in BOOLEAN, Strays(b.h)
  PROVE  \E q \in Int :
           /\ Emitted(Audio!Emit(b), b, p, q, at, size)
           /\ p < at /\ at - p < Audio!SeqHalf /\ (\A u \in 0 .. (size - 1) : b.r.slots[u] # Audio!Nothing) =>
                AllEmitted(Audio!Emit(b), b, p, q, at, size)
<1> DEFINE units == Audio!SourceUnits(b.r)
           Due == p < at /\ at - p < Audio!SeqHalf /\ (\A u \in 0 .. (size - 1) : b.r.slots[u] # Audio!Nothing)
           Fits(c, n) == \E q \in Int : Emitted(c, b, p, q, at, n) /\ (Due => AllEmitted(c, b, p, q, at, n))
<1>1. /\ DOMAIN units = 1 .. size
      /\ \A i \in 1 .. size : /\ units[i].skipped = (b.r.slots[i - 1] = Audio!Nothing) /\ units[i].index = b.r.first + (i - 1)
                              /\ units[i].place = PlaceOf(b.r, i - 1)
                              /\ units[i].haptics = (haptics /\ ~(b.r.slots[i - 1] = Audio!Recovered))
  BY DEF Audio!SourceUnits, PlaceOf
<1>2. Len(units) = size
  <2>1. units \in Seq({units[i] : i \in 1 .. size})
    <3>1. units = [i \in 1 .. size |-> units[i]]
      BY <1>1 DEF Audio!SourceUnits
    <3> HIDE DEF units
    <3> QED BY <3>1
  <2> HIDE DEF units
  <2> QED BY <1>1, <2>1
<1>3. PICK f : /\ f[0] = b /\ Audio!Play(b, units) = f[size]
               /\ \A i \in 1 .. size : f[i] = IF units[i].skipped THEN f[i - 1] ELSE Audio!Frame(f[i - 1], units[i])
  <2> HIDE DEF units
  <2>1. PICK g : PlayedAs(g, b, units, size)
    BY <1>2, PlayIs
  <2> QED BY <2>1 DEF PlayedAs
<1>4. Audio!Emit(b) = f[size]
  BY <1>3 DEF Audio!Emit
<1> HIDE DEF units
<1>5. Audio!SeqHalf \in Nat
  BY AudioConstants
<1>6. Fits(f[0], 0)
  <2>1. Emitted(f[0], b, p, p, at, 0) /\ AllEmitted(f[0], b, p, p, at, 0)
    BY <1>3 DEF Emitted, AllEmitted, Alike
  <2> QED BY <2>1
<1>7. ASSUME NEW i \in 1 .. size, Fits(f[i - 1], i - 1) PROVE Fits(f[i], i)
  <2> DEFINE e == f[i - 1]
             u == i - 1
             c == f[i]
  <2>1. u \in 0 .. (size - 1) /\ i = u + 1 /\ u \in Nat /\ u - 0 >= 0
    OBVIOUS
  <2>2. PICK q \in Int : Emitted(e, b, p, q, at, u) /\ (Due => AllEmitted(e, b, p, q, at, u))
    BY <1>7
  <2>3. /\ c = IF units[i].skipped THEN e ELSE Audio!Frame(e, units[i])
        /\ units[i].skipped = (b.r.slots[u] = Audio!Nothing) /\ units[i].index = b.r.first + u
        /\ units[i].place = PlaceOf(b.r, u) /\ units[i].haptics = (haptics /\ ~(b.r.slots[u] = Audio!Recovered))
    BY <1>1, <1>3
  <2> HIDE DEF e, c, Due
  <2>4. CASE units[i].skipped
    <3>1. c = e /\ b.r.slots[u] = Audio!Nothing
      BY <2>3, <2>4
    <3>2. Emitted(c, b, p, q, at, i)
      BY <2>1, <2>2, <3>1 DEF Emitted
    <3>3. ~Due
      BY <2>1, <3>1 DEF Due
    <3> QED BY <3>2, <3>3 DEF c
  <2>5. CASE ~units[i].skipped
    <3>1. c = Audio!Frame(e, units[i])
      BY <2>3, <2>5
    <3>2. Audio!Cast(units[i].index) = Audio!Cast(at + u)
      BY <2>1, <2>3, AudioCastSum
    <3>3. q - (at + u) < Audio!SeqHalf
      BY <1>5, <2>1, <2>2 DEF Emitted
    <3>4. \/ c = e /\ (at + u <= q \/ at + u - q >= Audio!SeqHalf)
          \/ /\ at + u > q /\ IsReceiver(c.r) /\ IsHeard(c.h) /\ Alike(c.r, e.r) /\ c.r.prev = Audio!Cast(at + u)
             /\ c.h.recent = e.h.recent \cup {units[i].place}
             /\ c.h.astray = (e.h.astray \/ units[i].haptics # haptics)
      <4>1. IsReceiver(e.r) /\ IsHeard(e.h) /\ e.r.prev = Audio!Cast(q) /\ at + u \in Int
        BY <2>1, <2>2 DEF Emitted
      <4> QED BY <3>1, <3>2, <3>3, <4>1, FrameIs
    <3>5. CASE c = e /\ (at + u <= q \/ at + u - q >= Audio!SeqHalf)
      <4>1. Emitted(c, b, p, q, at, i)
        <5>1. i > 0 /\ b.r.slots[0] # Audio!Nothing /\ at - p < Audio!SeqHalf => q >= at
          <6>1. CASE u = 0
            BY <1>5, <2>1, <2>2, <3>5, <6>1 DEF Emitted
          <6>2. CASE u > 0
            BY <2>2, <6>2 DEF Emitted
          <6> QED BY <2>1, <6>1, <6>2
        <5> QED BY <2>1, <2>2, <3>5, <5>1 DEF Emitted
      <4>2. ~Due
        <5>1. SUFFICES ASSUME Due PROVE FALSE
          OBVIOUS
        <5>2. CASE u = 0
          BY <1>5, <2>2, <3>5, <5>1, <5>2 DEF Emitted, Due
        <5>3. CASE u > 0
          BY <1>5, <2>1, <2>2, <3>5, <5>1, <5>3 DEF AllEmitted
        <5> QED BY <2>1, <5>2, <5>3
      <4> QED BY <4>1, <4>2 DEF c
    <3>6. CASE /\ at + u > q /\ IsReceiver(c.r) /\ IsHeard(c.h) /\ Alike(c.r, e.r) /\ c.r.prev = Audio!Cast(at + u)
               /\ c.h.recent = e.h.recent \cup {units[i].place}
               /\ c.h.astray = (e.h.astray \/ units[i].haptics # haptics)
      <4>1. Strays(c.h)
        BY <2>2, <2>3, <3>6 DEF Strays, Emitted
      <4>2. Emitted(c, b, p, at + u, at, i)
        BY <2>1, <2>2, <3>6, <4>1 DEF Emitted, Alike
      <4>3. Due => AllEmitted(c, b, p, at + u, at, i)
        <5>1. Due => \A v \in 0 .. u : PlaceOf(b.r, v) \in c.h.recent
          BY <2>1, <2>2, <2>3, <3>6 DEF AllEmitted
        <5>2. i - 1 = u /\ at + i - 1 = at + u
          BY <2>1
        <5> QED BY <5>1, <5>2 DEF AllEmitted
      <4>4. at + u \in Int
        BY <2>1
      <4> QED BY <4>2, <4>3, <4>4 DEF c
    <3> QED BY <3>4, <3>5, <3>6
  <2> QED BY <2>4, <2>5
<1>8. Fits(f[size], size)
  <2> DEFINE Bad == {m \in 0 .. size : ~Fits(f[m], m)}
  <2> HIDE DEF Fits
  <2>1. SUFFICES ASSUME Bad # {} PROVE FALSE
    <3>1. size \in 0 .. size
      OBVIOUS
    <3> QED BY <3>1
  <2>2. PICK m \in Bad : \A l \in Bad : m <= l
    <3>1. Bad \in SUBSET Nat
      OBVIOUS
    <3> HIDE DEF Bad
    <3> QED BY <2>1, <3>1, LeastExists
  <2>3. m \in 1 .. size /\ ~Fits(f[m], m)
    BY <1>6, <2>2
  <2>4. m - 1 \in 0 .. size /\ m - 1 \notin Bad
    BY <2>2, <2>3
  <2> QED BY <1>7, <2>3, <2>4
<1> QED BY <1>4, <1>8

(* A console's frames: what was played last is the last packet, by its number.             *)
ConsoleInv ==
  /\ IsReceiver(audio) /\ IsHeard(heard) /\ last \in Nat /\ audio.prev = Audio!Cast(last)
  /\ heard.place = last /\ heard.ordered = TRUE /\ heard.astray = FALSE

LEMMA ConsoleKeeps == ASSUME ConsoleInv, haptics \in BOOLEAN, Audio!ConsolePacket PROVE ConsoleInv'
<1>1. PICK p \in 1 .. PlainLast :
        /\ p - PlainFec - last > -Audio!SeqHalf /\ p - last < Audio!SeqHalf
        /\ LET r == [audio EXCEPT !.startup = @ /\ Audio!Cast(p) <= Audio!SeqHalf]
               b == Audio!Play(Audio!Both(r, heard), Audio!PacketUnits(p, r.startup))
           IN audio' = b.r /\ heard' = [b.h EXCEPT !.recent = {}]
        /\ last' = IF p > last THEN p ELSE last
  BY DEF Audio!ConsolePacket
<1> DEFINE r == [audio EXCEPT !.startup = @ /\ Audio!Cast(p) <= Audio!SeqHalf]
           b == Audio!Both(r, heard)
           units == Audio!PacketUnits(p, r.startup)
           m == last'
<1>2. IsReceiver(b.r) /\ IsHeard(b.h) /\ b.r.prev = Audio!Cast(last) /\ b.h = heard
  BY DEF ConsoleInv, IsReceiver, Audio!Both
<1>3. audio' = Audio!Play(b, units).r /\ heard' = [Audio!Play(b, units).h EXCEPT !.recent = {}]
  BY <1>1
<1>4. /\ p \in Nat /\ PlainFec \in Nat /\ last \in Nat /\ Audio!SeqHalf \in Nat /\ PlainFec < Audio!SeqHalf
      /\ last - p + PlainFec < Audio!SeqHalf /\ p - last < Audio!SeqHalf
  <2>1. p \in Nat /\ p - PlainFec - last > -Audio!SeqHalf /\ p - last < Audio!SeqHalf
    BY <1>1
  <2>2. last \in Nat
    BY DEF ConsoleInv
  <2> QED BY <2>1, <2>2, AudioConstants, AudioAssumption
<1>5. m \in Nat /\ p <= m /\ last <= m /\ (m = p \/ m = last) /\ m - p + PlainFec < Audio!SeqHalf
  BY <1>1, <1>4
<1>6. /\ DOMAIN units = 1 .. (PlainFec + 1)
      /\ units[1].skipped = FALSE /\ units[1].index = Audio!Cast(p) /\ units[1].place = p /\ units[1].haptics = haptics
      /\ \A i \in 2 .. (PlainFec + 1) : units[i].index = Audio!Cast(p) - PlainFec + (i - 2)
  BY <1>4 DEF Audio!PacketUnits
<1>7. Len(units) = PlainFec + 1
  <2>1. units = [i \in 1 .. (PlainFec + 1) |-> units[i]]
    BY DEF Audio!PacketUnits
  <2> HIDE DEF units
  <2>2. units \in Seq({units[i] : i \in 1 .. (PlainFec + 1)})
    BY <1>4, <2>1
  <2> QED BY <1>4, <1>6, <2>2
<1> HIDE DEF units, b
<1>8. PICK f : /\ f[0] = b /\ Audio!Play(b, units) = f[PlainFec + 1]
               /\ \A i \in 1 .. (PlainFec + 1) :
                    f[i] = IF units[i].skipped THEN f[i - 1] ELSE Audio!Frame(f[i - 1], units[i])
  <2>1. Len(units) \in Nat
    BY <1>4, <1>7
  <2>2. PICK g : PlayedAs(g, b, units, PlainFec + 1)
    BY <1>7, <2>1, PlayIs
  <2> QED BY <2>2 DEF PlayedAs
<1> DEFINE Done(c) ==
             /\ IsReceiver(c.r) /\ IsHeard(c.h) /\ c.r.prev = Audio!Cast(m) /\ c.h.place = m
             /\ c.h.ordered = TRUE /\ c.h.astray = FALSE
<1>9. Done(f[1])
  <2>1. f[1] = Audio!Frame(b, units[1])
    <3>1. 1 \in 1 .. (PlainFec + 1) /\ 1 - 1 = 0
      BY <1>4
    <3> QED BY <1>6, <1>8, <3>1
  <2>2. Audio!Cast(units[1].index) = Audio!Cast(p)
    BY <1>4, <1>6, AudioCast
  <2>3. \/ f[1] = b /\ (p <= last \/ p - last >= Audio!SeqHalf)
        \/ /\ p > last /\ IsReceiver(f[1].r) /\ IsHeard(f[1].h) /\ f[1].r.prev = Audio!Cast(p)
           /\ f[1].h.place = units[1].place /\ f[1].h.ordered = (b.h.ordered /\ units[1].place > b.h.place)
           /\ f[1].h.astray = (b.h.astray \/ units[1].haptics # haptics)
    <3>1. last - p < Audio!SeqHalf /\ p \in Int /\ last \in Int
      BY <1>4
    <3> QED BY <1>2, <2>1, <2>2, <3>1, FrameIs
  <2>4. CASE f[1] = b /\ (p <= last \/ p - last >= Audio!SeqHalf)
    <3>1. m = last
      BY <1>4, <1>1, <2>4
    <3> QED BY <1>2, <2>4, <3>1 DEF ConsoleInv
  <2>5. CASE /\ p > last /\ IsReceiver(f[1].r) /\ IsHeard(f[1].h) /\ f[1].r.prev = Audio!Cast(p)
             /\ f[1].h.place = units[1].place /\ f[1].h.ordered = (b.h.ordered /\ units[1].place > b.h.place)
             /\ f[1].h.astray = (b.h.astray \/ units[1].haptics # haptics)
    <3>1. m = p
      BY <1>1, <1>4, <2>5
    <3>2. b.h.ordered = TRUE /\ b.h.astray = FALSE /\ b.h.place = last
      BY <1>2 DEF ConsoleInv
    <3> QED BY <1>6, <2>5, <3>1, <3>2
  <2> QED BY <2>3, <2>4, <2>5
<1>10. ASSUME NEW i \in 2 .. (PlainFec + 1), Done(f[i - 1]) PROVE Done(f[i])
  <2> DEFINE n == p - PlainFec + (i - 2)
             e == f[i - 1]
  <2>1. i \in 1 .. (PlainFec + 1) /\ n \in Int /\ m \in Int /\ m - n < Audio!SeqHalf /\ n < m
    <3> HIDE DEF m
    <3>1. i \in 1 .. (PlainFec + 1) /\ i - 2 \in 0 .. (PlainFec - 1)
      BY <1>4
    <3> QED BY <1>4, <1>5, <3>1
  <2>2. CASE units[i].skipped
    BY <1>8, <1>10, <2>1, <2>2
  <2>3. CASE ~units[i].skipped
    <3>1. f[i] = Audio!Frame(e, units[i])
      BY <1>8, <2>1, <2>3
    <3>2. Audio!Cast(units[i].index) = Audio!Cast(n)
      <4>1. units[i].index = Audio!Cast(p) + (i - 2 - PlainFec) /\ n = p + (i - 2 - PlainFec)
        BY <1>4, <1>6, AudioCast
      <4>2. i - 2 - PlainFec \in Int /\ p \in Int
        BY <1>4
      <4> HIDE DEF n
      <4> QED BY <4>1, <4>2, AudioCastSum
    <3> HIDE DEF n, e, m
    <3>3. f[i] = e \/ n > m
      <4>1. IsReceiver(e.r) /\ IsHeard(e.h) /\ e.r.prev = Audio!Cast(m)
        BY <1>10 DEF e
      <4> QED BY <2>1, <3>1, <3>2, <4>1, FrameIs
    <3> QED BY <1>10, <2>1, <3>3 DEF e
  <2> QED BY <2>2, <2>3
<1>11. Done(f[PlainFec + 1])
  <2> DEFINE Bad == {k \in 1 .. (PlainFec + 1) : ~Done(f[k])}
  <2> HIDE DEF Done
  <2>1. SUFFICES ASSUME Bad # {} PROVE FALSE
    <3>1. PlainFec + 1 \in 1 .. (PlainFec + 1)
      BY <1>4
    <3> QED BY <3>1
  <2>2. PICK k \in Bad : \A l \in Bad : k <= l
    <3>1. Bad \in SUBSET Nat
      OBVIOUS
    <3> HIDE DEF Bad
    <3> QED BY <2>1, <3>1, LeastExists
  <2>3. k \in 2 .. (PlainFec + 1) /\ ~Done(f[k])
    BY <1>9, <2>2
  <2>4. k - 1 \in 1 .. (PlainFec + 1) /\ k - 1 \notin Bad
    BY <1>4, <2>2, <2>3
  <2> QED BY <1>10, <2>3, <2>4
<1>12. Done(Audio!Play(b, units))
  BY <1>8, <1>11
<1>13. IsReceiver(audio') /\ IsHeard(heard') /\ audio'.prev = Audio!Cast(m) /\ heard'.place = m /\ heard'.ordered = TRUE /\ heard'.astray = FALSE
  BY <1>3, <1>12 DEF IsHeard
<1> QED BY <1>5, <1>13 DEF ConsoleInv, IsReceiver, IsHeard

(* The generations of a cloud session: their units, packets and source units.              *)
Gens == 1 .. Len(AudioLayouts)
SourceOf(g) == AudioLayouts[g].source
UnitsOf(g) == AudioLayouts[g].source + AudioLayouts[g].fec
PacketsOf(g) == AudioStart[g] .. (AudioStart[g + 1] - 1)
Whole(g) == AudioStart[g] .. (AudioStart[g] + SourceOf(g) - 1)
From(h) == IF h = 0 THEN 0 ELSE AudioStart[h]

(* The numbers of a generation, and those that pass while as many packets are lost as there *)
(* may, are less than half the numbers; and no generation has so many source units that those*)
(* of it that go out a unit late reach over the next one.                           *)
NumbersSuffice ==
  /\ \A g \in Gens : UnitsOf(g) + SourceOf(g) <= Audio!SeqHalf
  /\ \A g \in Gens : g + 1 \in Gens => SourceOf(g) <= UnitsOf(g + 1) + 1
  /\ \A k \in Gens : \A h \in 0 .. (k - 1) : k - h <= AudioLosses + 1 => AudioStart[k] - From(h) < Audio!SeqHalf

LEMMA GenIsKnown ==
  ASSUME NEW g \in Gens
  PROVE  /\ Len(AudioLayouts) \in Nat /\ g \in Nat /\ g > 0
         /\ SourceOf(g) \in Nat \ {0} /\ UnitsOf(g) \in Nat /\ SourceOf(g) <= UnitsOf(g)
         /\ AudioLayouts[g].source = SourceOf(g) /\ Audio!Total(AudioLayouts[g]) = UnitsOf(g)
         /\ AudioStart[g] \in Nat /\ AudioStart[g + 1] = AudioStart[g] + UnitsOf(g)
<1> DEFINE layouts == [source : Nat \ {0}, fec : Nat]
<1> HIDE DEF layouts
<1>1. Len(AudioLayouts) \in Nat /\ AudioLayouts[g] \in layouts
  <2>1. AudioLayouts \in Seq(layouts)
    BY AudioAssumption DEF layouts
  <2> QED BY <2>1 DEF Gens
<1>2. AudioStart[g] \in Nat
  <2>1. AudioStart \in Seq(Nat) /\ g \in 1 .. Len(AudioStart)
    BY <1>1, AudioAssumption DEF Gens
  <2> QED BY <2>1
<1>3. AudioStart[g + 1] = AudioStart[g] + Audio!Total(AudioLayouts[g])
  BY AudioAssumption DEF Gens
<1> QED BY <1>1, <1>2, <1>3 DEF Gens, SourceOf, UnitsOf, Audio!Total, layouts

LEMMA StartIsNat == ASSUME NEW g \in 1 .. (Len(AudioLayouts) + 1) PROVE AudioStart[g] \in Nat /\ AudioStart[g] > 0
<1>1. Len(AudioLayouts) \in Nat /\ AudioStart \in Seq(Nat) /\ Len(AudioStart) = Len(AudioLayouts) + 1 /\ AudioStart[1] = 1
  BY AudioAssumption
<1>2. \A i \in 1 .. (Len(AudioLayouts) + 1) : AudioStart[i] \in Nat
  BY <1>1
<1> DEFINE Bad == {i \in 1 .. (Len(AudioLayouts) + 1) : AudioStart[i] = 0}
<1>3. SUFFICES ASSUME Bad # {} PROVE FALSE
  BY <1>2
<1>4. PICK i \in Bad : \A j \in Bad : i <= j
  <2>1. Bad \in SUBSET Nat
    BY <1>1
  <2> HIDE DEF Bad
  <2> QED BY <1>3, <2>1, LeastExists
<1>5. i \in 2 .. (Len(AudioLayouts) + 1) /\ AudioStart[i] = 0
  BY <1>1, <1>4
<1>6. i - 1 \in Gens /\ (i - 1) + 1 = i /\ i - 1 \notin Bad /\ i - 1 \in 1 .. (Len(AudioLayouts) + 1)
  BY <1>1, <1>4, <1>5 DEF Gens
<1>7. AudioStart[i] = AudioStart[i - 1] + UnitsOf(i - 1) /\ UnitsOf(i - 1) \in Nat /\ AudioStart[i - 1] \in Nat
  BY <1>6, GenIsKnown
<1> QED BY <1>2, <1>5, <1>6, <1>7

(* The generations follow each other.                                             *)
LEMMA StartsGrow ==
  ASSUME NEW g \in Gens, NEW h \in Gens, g < h PROVE AudioStart[g + 1] <= AudioStart[h]
<1>1. Len(AudioLayouts) \in Nat /\ g \in Nat /\ h \in Nat /\ 1 <= g /\ h <= Len(AudioLayouts)
  BY AudioAssumption DEF Gens
<1>2. \A i \in Gens : AudioStart[i] \in Nat /\ AudioStart[i + 1] \in Nat /\ AudioStart[i] <= AudioStart[i + 1]
  BY GenIsKnown
<1> DEFINE Bad == {i \in (g + 1) .. h : ~(AudioStart[g + 1] <= AudioStart[i])}
<1>3. SUFFICES ASSUME Bad # {} PROVE FALSE
  BY <1>1
<1>4. PICK i \in Bad : \A j \in Bad : i <= j
  <2>1. Bad \in SUBSET Nat
    BY <1>1
  <2> HIDE DEF Bad
  <2> QED BY <1>3, <2>1, LeastExists
<1>5. i \in (g + 1) .. h /\ ~(AudioStart[g + 1] <= AudioStart[i])
  BY <1>4
<1>6. i # g + 1
  BY <1>2, <1>5
<1>7. i - 1 \in (g + 1) .. h /\ i - 1 \notin Bad /\ i - 1 \in Gens /\ (i - 1) + 1 = i
  BY <1>1, <1>4, <1>5, <1>6 DEF Gens
<1>8. AudioStart[g + 1] <= AudioStart[i - 1] /\ AudioStart[i - 1] <= AudioStart[i] /\ AudioStart[i] \in Nat
  BY <1>2, <1>7
<1> QED BY <1>2, <1>5, <1>7, <1>8

(* A packet is one of one generation.                                              *)
LEMMA GenIs ==
  ASSUME NEW g \in Gens, NEW p \in PacketsOf(g)
  PROVE  Audio!GenOf(p) = g /\ p \in Nat /\ p > 0 /\ p - AudioStart[g] \in 0 .. (UnitsOf(g) - 1)
<1>1. \A h \in Gens : /\ h \in Nat /\ UnitsOf(h) \in Nat /\ AudioStart[h] \in Nat /\ AudioStart[h] > 0
                      /\ AudioStart[h + 1] = AudioStart[h] + UnitsOf(h)
  BY GenIsKnown, StartIsNat DEF Gens
<1>2. ASSUME NEW h \in Gens, p \in AudioStart[h] .. (AudioStart[h + 1] - 1) PROVE h = g
  <2>1. CASE h < g
    <3>1. AudioStart[h + 1] <= AudioStart[g]
      BY <2>1, StartsGrow
    <3> QED BY <1>1, <1>2, <3>1 DEF PacketsOf
  <2>2. CASE h > g
    <3>1. AudioStart[g + 1] <= AudioStart[h]
      BY <2>2, StartsGrow
    <3> QED BY <1>1, <1>2, <3>1 DEF PacketsOf
  <2> QED BY <1>1, <2>1, <2>2
<1>3. p \in AudioStart[g] .. (AudioStart[g + 1] - 1)
  BY DEF PacketsOf
<1>4. Audio!GenOf(p) = CHOOSE h \in Gens : p \in AudioStart[h] .. (AudioStart[h + 1] - 1)
  BY DEF Audio!GenOf, Gens
<1> QED BY <1>1, <1>2, <1>3, <1>4

Clean(g, gt, lt) == AudioStart[g] \in gt /\ g \notin lt
Had(r, lo, hi) == {u \in lo .. hi : r.slots[u] # Audio!Nothing}

(* The generation that is collected, k, was begun with the packet at a place of it, and c is the one the last    *)
(* packet is of, ln. What was played is not so far ahead that it reaches over the next generation.    *)
Collecting(r, h, ln, c, k, at, p) ==
  /\ IsReceiver(r) /\ IsHeard(h) /\ Strays(h) /\ r.flushed = FALSE /\ r.emitted \in BOOLEAN
  /\ c \in Gens /\ k \in 1 .. c /\ at \in PacketsOf(k) /\ ln \in PacketsOf(c) /\ at <= ln
  /\ r.first = Audio!Cast(at) /\ r.layout = AudioLayouts[k] /\ r.slots \in [0 .. (UnitsOf(k) - 1) -> Nat]
  /\ r.source = Cardinality(Had(r, 0, SourceOf(k) - 1))
  /\ r.fec = Cardinality(Had(r, SourceOf(k), UnitsOf(k) - 1))
  /\ r.emitted \/ r.source < SourceOf(k)
  /\ r.prev = Audio!Cast(p) /\ p \in Nat /\ p <= AudioStart[k + 1] + SourceOf(k) - 2

(* For each generation whose first packet was not played a packet was lost.                   *)
Lags(r, ls, c, k, at, p) ==
  \/ \E g \in 0 .. c : p >= From(g) /\ c - g <= ls
  \/ /\ ~r.emitted /\ at = AudioStart[k] /\ r.slots[0] # Audio!Nothing /\ c - k <= ls
     /\ \E g \in 0 .. (k - 1) : p >= From(g) /\ k - g <= ls + 1

(* A clean generation has all that arrived of it, and if the one before was clean too, nothing of it is late.   *)
Sound(r, h, gt, c, k, at, p, clean, cleanBefore) ==
  /\ clean => /\ k = c /\ at = AudioStart[c] /\ p < AudioStart[c + 1]
              /\ \A u \in 0 .. (UnitsOf(c) - 1) :
                   r.slots[u] = IF AudioStart[c] + u \in gt THEN AudioStart[c] + u ELSE Audio!Nothing
  /\ clean /\ cleanBefore => IF r.emitted THEN Whole(c) \subseteq h.recent ELSE p < AudioStart[c]

(* The generation before was played whole.                                             *)
Past(h, gt, lt, c) ==
  /\ c > 1 /\ AudioStart[c] \in gt /\ Clean(c - 1, gt, lt) /\ (c = 2 \/ Clean(c - 2, gt, lt))
  /\ Cardinality(gt \cap PacketsOf(c - 1)) >= SourceOf(c - 1)
  => Whole(c - 1) \subseteq h.recent

Fresh(c) == audio = Audio!Receiver /\ heard = Audio!Silence /\ got = {} /\ late = {} /\ c <= lostPackets
Runs(r, h, ln, ls, gt, lt, c) ==
  /\ Past(h, gt, lt, c)
  /\ \E k \in 1 .. c : \E at \in PacketsOf(k) : \E p \in Nat :
       /\ Collecting(r, h, ln, c, k, at, p)
       /\ Lags(r, ls, c, k, at, p)
       /\ Sound(r, h, gt, c, k, at, p, Clean(c, gt, lt), c = 1 \/ Clean(c - 1, gt, lt))
Running(c) == Runs(audio, heard, last, lostPackets, got, late, c)
CloudInv ==
  /\ lostPackets \in 0 .. AudioLosses /\ last \in Nat /\ got \subseteq 1 .. last
  /\ \E c \in 0 .. Len(AudioLayouts) :
       /\ IF c = 0 THEN last = 0 ELSE last \in PacketsOf(c)
       /\ Fresh(c) \/ (c > 0 /\ Running(c))

LEMMA AudioCardinality == ASSUME NEW S PROVE Audio!Cardinality(S) = Cardinality(S)
BY DEF Audio!Cardinality, Cardinality

LEMMA HadIsFinite ==
  ASSUME NEW r, NEW lo \in Int, NEW hi \in Int, lo <= hi + 1
  PROVE  /\ IsFiniteSet(Had(r, lo, hi)) /\ Cardinality(Had(r, lo, hi)) \in Nat
         /\ Cardinality(Had(r, lo, hi)) <= hi - lo + 1
         /\ Cardinality(Had(r, lo, hi)) = hi - lo + 1 => \A u \in lo .. hi : r.slots[u] # Audio!Nothing
<1>1. IsFiniteSet(lo .. hi) /\ Cardinality(lo .. hi) = hi - lo + 1
  BY FS_Interval
<1> DEFINE S == lo .. hi
           T == Had(r, lo, hi)
<1>2. T \in SUBSET S
  BY DEF Had
<1>3. IsFiniteSet(S) /\ Cardinality(S) = hi - lo + 1
  BY <1>1
<1> HIDE DEF S, T
<1>4. IsFiniteSet(T) /\ Cardinality(T) <= Cardinality(S) /\ (Cardinality(S) = Cardinality(T) => S = T)
  BY <1>2, <1>3, FS_Subset
<1>5. Cardinality(T) \in Nat
  BY <1>4, FS_CardinalityType
<1>6. S = T => \A u \in lo .. hi : r.slots[u] # Audio!Nothing
  BY DEF S, T, Had
<1> QED BY <1>3, <1>4, <1>5, <1>6 DEF T

(* A unit that is stored counts once.                                              *)
LEMMA HadAdds ==
  ASSUME NEW r, NEW s, NEW lo \in Int, NEW hi \in Int, lo <= hi + 1, NEW u \in Int, NEW x,
         r.slots[u] = Audio!Nothing, x # Audio!Nothing, s.slots[u] = x,
         \A v \in lo .. hi : v # u => s.slots[v] = r.slots[v]
  PROVE  Cardinality(Had(s, lo, hi)) = IF u \in lo .. hi THEN Cardinality(Had(r, lo, hi)) + 1 ELSE Cardinality(Had(r, lo, hi))
<1>1. CASE u \in lo .. hi
  <2>1. Had(s, lo, hi) = Had(r, lo, hi) \cup {u} /\ u \notin Had(r, lo, hi)
    BY <1>1 DEF Had
  <2>2. IsFiniteSet(Had(r, lo, hi))
    BY HadIsFinite
  <2> QED BY <1>1, <2>1, <2>2, FS_AddElement
<1>2. CASE u \notin lo .. hi
  <2>1. Had(s, lo, hi) = Had(r, lo, hi)
    BY <1>2 DEF Had
  <2> QED BY <1>2, <2>1
<1> QED BY <1>1, <1>2

(* What is held of a clean generation is what arrived of it.                             *)
LEMMA HadIsArrived ==
  ASSUME NEW c \in Gens, NEW r, NEW gt,
         \A u \in 0 .. (UnitsOf(c) - 1) :
           r.slots[u] = IF AudioStart[c] + u \in gt THEN AudioStart[c] + u ELSE Audio!Nothing
  PROVE  Cardinality(gt \cap PacketsOf(c)) =
           Cardinality(Had(r, 0, SourceOf(c) - 1)) + Cardinality(Had(r, SourceOf(c), UnitsOf(c) - 1))
<1>1. /\ SourceOf(c) \in Nat /\ SourceOf(c) > 0 /\ UnitsOf(c) \in Nat /\ SourceOf(c) <= UnitsOf(c)
      /\ AudioStart[c] \in Nat /\ AudioStart[c] > 0 /\ AudioStart[c + 1] = AudioStart[c] + UnitsOf(c)
  BY GenIsKnown, StartIsNat DEF Gens
<1> DEFINE S == Had(r, 0, SourceOf(c) - 1)
           T == Had(r, SourceOf(c), UnitsOf(c) - 1)
           A == gt \cap PacketsOf(c)
           f == [u \in S \cup T |-> AudioStart[c] + u]
<1>2. IsFiniteSet(S) /\ IsFiniteSet(T)
  BY <1>1, HadIsFinite
<1>3. S \cap T = {}
  BY <1>1 DEF Had
<1>4. IsFiniteSet(S \cup T) /\ Cardinality(S \cup T) = Cardinality(S) + Cardinality(T)
  <2> HIDE DEF S, T
  <2>1. Cardinality(S) \in Nat /\ Cardinality(T) \in Nat /\ Cardinality({}) = 0
    BY <1>2, FS_CardinalityType, FS_EmptySet
  <2> QED BY <1>2, <1>3, <2>1, FS_Union
<1>5. \A u \in Int : u \in S \cup T <=> u \in 0 .. (UnitsOf(c) - 1) /\ AudioStart[c] + u \in gt
  <2>1. \A u \in 0 .. (UnitsOf(c) - 1) : r.slots[u] # Audio!Nothing <=> AudioStart[c] + u \in gt
    BY <1>1 DEF Audio!Nothing
  <2>2. \A u \in Int : u \in S \cup T <=> u \in 0 .. (UnitsOf(c) - 1) /\ r.slots[u] # Audio!Nothing
    BY <1>1 DEF Had
  <2> QED BY <2>1, <2>2
<1>6. S \cup T \subseteq Int
  BY <1>1 DEF Had
<1> DEFINE U == S \cup T
<1>7. ExistsBijection(U, A)
  <2>1. f = [u \in U |-> AudioStart[c] + u]
    OBVIOUS
  <2>2. \A u \in Int : u \in U <=> u \in 0 .. (UnitsOf(c) - 1) /\ AudioStart[c] + u \in gt
    BY <1>5
  <2>3. U \subseteq Int
    BY <1>6
  <2> HIDE DEF f, U
  <2>4. \A u \in U : f[u] \in A
    BY <1>1, <2>1, <2>2, <2>3 DEF PacketsOf
  <2>5. f \in [U -> A]
    BY <2>1, <2>4
  <2>6. \A u, v \in U : f[u] = f[v] => u = v
    BY <1>1, <2>1, <2>3
  <2>7. \A n \in A : \E u \in U : f[u] = n
    <3>1. SUFFICES ASSUME NEW n \in A PROVE \E u \in U : f[u] = n
      OBVIOUS
    <3>2. n \in Int /\ n - AudioStart[c] \in 0 .. (UnitsOf(c) - 1) /\ AudioStart[c] + (n - AudioStart[c]) = n /\ n \in gt
      BY <1>1 DEF PacketsOf
    <3>3. n - AudioStart[c] \in U
      BY <2>2, <3>2
    <3>4. f[n - AudioStart[c]] = AudioStart[c] + (n - AudioStart[c])
      BY <2>1, <3>3
    <3> QED BY <3>2, <3>3, <3>4
  <2> HIDE DEF A
  <2>8. f \in Bijection(U, A)
    BY <2>5, <2>6, <2>7 DEF Bijection, Injection, Surjection, IsInjective
  <2> QED BY <2>8 DEF ExistsBijection
<1>8. Cardinality(A) = Cardinality(U)
  <2>1. IsFiniteSet(U)
    BY <1>4
  <2> HIDE DEF U, A
  <2> QED BY <1>7, <2>1, FS_Bijection
<1> QED BY <1>4, <1>8

(* The first packet of a generation is near by its number, as few as are lost.                    *)
LEMMA StartIsNear ==
  ASSUME NumbersSuffice, NEW k \in Gens, NEW g \in 0 .. (k - 1), NEW p \in Nat, p >= From(g), k - g <= AudioLosses + 1
  PROVE  AudioStart[k] - p < Audio!SeqHalf
<1>1. AudioStart[k] \in Nat /\ From(g) \in Nat /\ Audio!SeqHalf \in Nat
  <2>1. Len(AudioLayouts) \in Nat
    BY AudioAssumption
  <2>2. g = 0 \/ g \in Gens
    BY <2>1 DEF Gens
  <2> QED BY <2>2, GenIsKnown, AudioConstants DEF From
<1>2. AudioStart[k] - From(g) < Audio!SeqHalf
  BY DEF NumbersSuffice
<1> QED BY <1>1, <1>2

LEMMA LagsNear ==
  ASSUME NumbersSuffice, NEW r, AudioLosses \in Nat, NEW ls \in 0 .. AudioLosses, NEW c \in Gens, NEW k \in 1 .. c,
         NEW p \in Nat, NEW at, Lags(r, ls, c, k, at, p)
  PROVE  /\ (~\E g \in 0 .. c : p >= From(g) /\ c - g <= ls) => AudioStart[k] - p < Audio!SeqHalf
         /\ k = c /\ p < AudioStart[c] => AudioStart[c] - p < Audio!SeqHalf
<1>1. c \in Nat /\ k \in Nat /\ k \in Gens
  BY GenIsKnown DEF Gens
<1>2. ASSUME NEW g \in 0 .. (k - 1), p >= From(g), k - g <= ls + 1 PROVE AudioStart[k] - p < Audio!SeqHalf
  <2>1. k - g <= AudioLosses + 1
    BY <1>1, <1>2
  <2> QED BY <1>1, <1>2, <2>1, StartIsNear
<1>3. ASSUME NEW g \in 0 .. c, p >= From(g), c - g <= ls, k = c, p < AudioStart[c] PROVE AudioStart[c] - p < Audio!SeqHalf
  <2>1. g # c
    BY <1>1, <1>3, GenIsKnown DEF From
  <2>2. g \in 0 .. (k - 1) /\ k - g <= ls + 1
    BY <1>1, <1>3, <2>1
  <2> QED BY <1>2, <1>3, <2>2
<1> QED BY <1>2, <1>3 DEF Lags

LEMMA UnitsFit ==
  ASSUME NumbersSuffice, NEW k \in Gens
  PROVE  UnitsOf(k) + SourceOf(k) <= Audio!SeqHalf
BY DEF NumbersSuffice

(* The packet n is stored, and that makes up for what was lost.                                     *)
Reaches(r, ls, n, c, k, at, p) ==
  \/ Lags(r, ls, c, k, at, p)
  \/ /\ ~r.emitted /\ n = at /\ at = AudioStart[k] /\ r.slots[0] = Audio!Nothing /\ c - k <= ls
     /\ \E g \in 0 .. (k - 1) : p >= From(g) /\ k - g <= ls + 1

Stored(s, b, n, ls, gt, c, k, at, clean, before) ==
  /\ b.h.recent \subseteq s.h.recent
  /\ \E q \in Nat : /\ Collecting(s.r, s.h, n, c, k, at, q) /\ Lags(s.r, ls, c, k, at, q)
                    /\ Sound(s.r, s.h, gt \cup {n}, c, k, at, q, clean, before)

(* What a packet leaves that is stored in a generation that has place for it.                      *)
LEMMA StoreIs ==
  ASSUME NumbersSuffice, service = "cloud", haptics \in BOOLEAN, AudioLosses \in Nat, NEW ls \in 0 .. AudioLosses,
         NEW b, NEW n, NEW c, NEW k, NEW at, NEW p, NEW unit, NEW gt, NEW clean \in BOOLEAN, NEW before \in BOOLEAN,
         NEW size, NEW total, size = SourceOf(k), total = UnitsOf(k),
         Collecting(b.r, b.h, n, c, k, at, p), unit = n - AudioStart[c], unit \in 0 .. (total - 1), n \notin gt,
         Reaches(b.r, ls, n, c, k, at, p),
         Sound(b.r, b.h, gt, c, k, at, p, clean, before)
  PROVE  Stored(Audio!Store(b, n, unit), b, n, ls, gt, c, k, at, clean, before)
<1> DEFINE s == Audio!Store(b, n, unit)
           r == b.r
<1>11. SUFFICES /\ b.h.recent \subseteq s.h.recent
                /\ \E q \in Nat : /\ Collecting(s.r, s.h, n, c, k, at, q) /\ Lags(s.r, ls, c, k, at, q)
                                  /\ Sound(s.r, s.h, gt \cup {n}, c, k, at, q, clean, before)
  BY DEF Stored
<1>9. Audio!Nothing = 0
  BY DEF Audio!Nothing
<1>8. /\ c \in Gens /\ k \in 1 .. c /\ at \in PacketsOf(k) /\ n \in PacketsOf(c) /\ at <= n
      /\ IsReceiver(r) /\ IsHeard(b.h) /\ Strays(b.h) /\ r.flushed = FALSE /\ r.emitted \in BOOLEAN
      /\ r.first = Audio!Cast(at) /\ r.layout = AudioLayouts[k] /\ r.slots \in [0 .. (total - 1) -> Nat]
      /\ r.source = Cardinality(Had(r, 0, size - 1)) /\ r.fec = Cardinality(Had(r, size, total - 1))
      /\ r.emitted \/ r.source < size
      /\ r.prev = Audio!Cast(p) /\ p \in Nat /\ p <= AudioStart[k + 1] + size - 2
  BY DEF Collecting
<1>10. k \in Gens /\ k \in Nat /\ c \in Nat
  <2>1. Len(AudioLayouts) \in Nat
    BY AudioAssumption
  <2> QED BY <1>8, <2>1 DEF Gens
<1>1. /\ c \in Gens /\ k \in 1 .. c /\ k \in Gens /\ at \in PacketsOf(k) /\ n \in PacketsOf(c) /\ at <= n
      /\ IsReceiver(r) /\ IsHeard(b.h) /\ Strays(b.h) /\ r.flushed = FALSE /\ r.emitted \in BOOLEAN
      /\ r.first = Audio!Cast(at) /\ r.layout = AudioLayouts[k] /\ r.slots \in [0 .. (total - 1) -> Nat]
      /\ r.source = Cardinality(Had(r, 0, size - 1)) /\ r.fec = Cardinality(Had(r, size, total - 1))
      /\ r.emitted \/ r.source < size
      /\ r.prev = Audio!Cast(p) /\ p \in Nat /\ p <= AudioStart[k + 1] + size - 2
  BY <1>8, <1>10
<1>21. /\ size \in Nat /\ size > 0 /\ total \in Nat /\ size <= total
       /\ AudioStart[k] \in Nat /\ AudioStart[k + 1] = AudioStart[k] + total /\ AudioLayouts[k].source = size
  BY <1>10, GenIsKnown
<1>22. /\ AudioStart[c] \in Nat /\ AudioStart[c + 1] = AudioStart[c] + UnitsOf(c)
       /\ SourceOf(c) \in Nat /\ SourceOf(c) <= UnitsOf(c) /\ UnitsOf(c) \in Nat
  BY <1>8, GenIsKnown
<1>23. AudioStart[c] > 0
  BY <1>8, StartIsNat, AudioAssumption DEF Gens
<1>24. r.layout.source = size
  BY <1>8, <1>21
<1>2. /\ size \in Nat /\ size > 0 /\ total \in Nat /\ size <= total /\ r.layout.source = size
      /\ AudioStart[k] \in Nat /\ AudioStart[k + 1] = AudioStart[k] + total
      /\ AudioStart[c] \in Nat /\ AudioStart[c] > 0 /\ AudioStart[c + 1] = AudioStart[c] + UnitsOf(c)
      /\ SourceOf(c) \in Nat /\ SourceOf(c) <= UnitsOf(c) /\ UnitsOf(c) \in Nat
  BY <1>21, <1>22, <1>23, <1>24
<1>31. at \in Nat /\ at >= AudioStart[k] /\ at <= AudioStart[k + 1] - 1
  BY <1>8, <1>21 DEF PacketsOf
<1>32. n \in Nat /\ n >= AudioStart[c] /\ n <= AudioStart[c + 1] - 1
  BY <1>8, <1>22 DEF PacketsOf
<1>3. /\ at \in Nat /\ at >= AudioStart[k] /\ at <= AudioStart[k + 1] - 1 /\ n \in Nat /\ n > 0 /\ n = AudioStart[c] + unit
      /\ unit \in Nat /\ unit < total
  BY <1>2, <1>31, <1>32
<1>4. n = at => k = c
  <2>1. Audio!GenOf(at) = k /\ Audio!GenOf(n) = c
    BY <1>1, GenIs
  <2> QED BY <2>1
<1>5. clean => r.slots[unit] = Audio!Nothing
  BY <1>3 DEF Sound
<1>6. CASE r.slots[unit] # Audio!Nothing
  <2>1. s = b /\ ~clean
    BY <1>5, <1>6 DEF Audio!Store
  <2>2. Lags(r, ls, c, k, at, p)
    <3>1. ~(n = at /\ at = AudioStart[k] /\ b.r.slots[0] = Audio!Nothing)
      BY <1>2, <1>4, <1>6
    <3> QED BY <3>1 DEF Reaches
  <2>3. Sound(r, b.h, gt \cup {n}, c, k, at, p, clean, before)
    BY <2>1 DEF Sound
  <2> QED BY <1>1, <2>1, <2>2, <2>3
<1>7. CASE r.slots[unit] = Audio!Nothing
  <2> DEFINE t == [r EXCEPT !.slots[unit] = n,
                            !.source = IF unit < r.layout.source THEN @ + 1 ELSE @,
                            !.fec = IF unit < r.layout.source THEN @ ELSE @ + 1]
  <2>1. /\ IsReceiver(t) /\ t.prev = r.prev /\ t.flushed = r.flushed /\ t.emitted = r.emitted /\ t.first = r.first
        /\ t.layout = r.layout /\ t.slots = [r.slots EXCEPT ![unit] = n]
        /\ t.source = (IF unit < size THEN r.source + 1 ELSE r.source)
        /\ t.fec = (IF unit < size THEN r.fec ELSE r.fec + 1)
    <3>1. IsReceiver(t)
      <4> DEFINE x == [r.slots EXCEPT ![unit] = n]
                 y == IF unit < r.layout.source THEN r.source + 1 ELSE r.source
                 z == IF unit < r.layout.source THEN r.fec ELSE r.fec + 1
      <4>1. IsReceiver(r)
        BY <1>1
      <4>2. t = [r EXCEPT !.slots = x, !.source = y, !.fec = z]
        BY <4>1 DEF IsReceiver
      <4> HIDE DEF x, y, z, t
      <4> QED BY <4>1, <4>2 DEF IsReceiver
    <3>2. /\ t.prev = r.prev /\ t.flushed = r.flushed /\ t.emitted = r.emitted /\ t.first = r.first
          /\ t.layout = r.layout /\ t.slots = [r.slots EXCEPT ![unit] = n]
      BY <1>1 DEF IsReceiver
    <3>3. t.source = IF unit < r.layout.source THEN r.source + 1 ELSE r.source
      BY <1>1 DEF IsReceiver
    <3>4. t.fec = IF unit < r.layout.source THEN r.fec ELSE r.fec + 1
      BY <1>1 DEF IsReceiver
    <3> HIDE DEF t
    <3> QED BY <1>2, <3>1, <3>2, <3>3, <3>4
  <2>2. s = IF t.source = size /\ ~t.emitted
              THEN LET e == Audio!Emit(Audio!Both(t, b.h)) IN Audio!Both([e.r EXCEPT !.emitted = TRUE], e.h)
              ELSE Audio!Both(t, b.h)
    BY <1>2, <1>7, <2>1 DEF Audio!Store
  <2> HIDE DEF t, s
  <2>3. /\ t.slots \in [0 .. (total - 1) -> Nat] /\ t.slots[unit] = n
        /\ \A v \in 0 .. (total - 1) : v # unit => t.slots[v] = r.slots[v]
    BY <1>1, <1>3, <2>1
  <2>4. t.source = Cardinality(Had(t, 0, size - 1)) /\ t.fec = Cardinality(Had(t, size, total - 1))
    <3>1. n # Audio!Nothing /\ unit \in Int
      BY <1>9, <1>3
    <3>2. Cardinality(Had(t, 0, size - 1)) = IF unit \in 0 .. (size - 1) THEN Cardinality(Had(r, 0, size - 1)) + 1 ELSE Cardinality(Had(r, 0, size - 1))
      <4>1. \A v \in 0 .. (size - 1) : v # unit => t.slots[v] = r.slots[v]
        BY <1>2, <2>3
      <4>2. 0 \in Int /\ size - 1 \in Int /\ 0 <= (size - 1) + 1
        BY <1>2
      <4> QED BY <1>7, <2>3, <3>1, <4>1, <4>2, HadAdds
    <3>3. Cardinality(Had(t, size, total - 1)) = IF unit \in size .. (total - 1) THEN Cardinality(Had(r, size, total - 1)) + 1 ELSE Cardinality(Had(r, size, total - 1))
      <4>1. \A v \in size .. (total - 1) : v # unit => t.slots[v] = r.slots[v]
        BY <1>2, <2>3
      <4> DEFINE hi == total - 1
      <4>2. size \in Int /\ hi \in Int /\ size <= hi + 1
        BY <1>2
      <4> HIDE DEF hi
      <4>3. \A v \in size .. hi : v # unit => t.slots[v] = r.slots[v]
        BY <4>1 DEF hi
      <4>4. Cardinality(Had(t, size, hi)) = IF unit \in size .. hi THEN Cardinality(Had(r, size, hi)) + 1 ELSE Cardinality(Had(r, size, hi))
        <5>1. t.slots[unit] = n /\ r.slots[unit] = Audio!Nothing
          BY <1>7, <2>3
        <5> QED BY <3>1, <4>2, <4>3, <5>1, HadAdds
      <4> QED BY <4>4 DEF hi
    <3>4. (unit \in 0 .. (size - 1) <=> unit < size) /\ (unit \in size .. (total - 1) <=> ~(unit < size))
      BY <1>2, <1>3
    <3>5. t.source = Cardinality(Had(t, 0, size - 1))
      BY <1>1, <2>1, <3>2, <3>4
    <3>6. t.fec = Cardinality(Had(t, size, total - 1))
      BY <1>1, <2>1, <3>3, <3>4
    <3> QED BY <3>5, <3>6
  <2>5. t.source \in Nat /\ t.source <= size /\ (t.source = size => \A u \in 0 .. (size - 1) : t.slots[u] # Audio!Nothing)
    <3>1. 0 \in Int /\ size - 1 \in Int /\ 0 <= (size - 1) + 1 /\ size - 1 - 0 + 1 = size
      BY <1>2
    <3> QED BY <2>4, <3>1, HadIsFinite
  <2>6. Lags(t, ls, c, k, at, p)
    <3>1. CASE Lags(r, ls, c, k, at, p)
      <4>1. r.slots[0] # Audio!Nothing => t.slots[0] # Audio!Nothing
        <5>1. 0 \in 0 .. (total - 1)
          BY <1>2
        <5>2. unit = 0 \/ t.slots[0] = r.slots[0]
          BY <2>3, <5>1
        <5> QED BY <1>7, <5>2
      <4> QED BY <2>1, <3>1, <4>1 DEF Lags
    <3>2. CASE /\ ~b.r.emitted /\ n = at /\ at = AudioStart[k] /\ b.r.slots[0] = Audio!Nothing /\ c - k <= ls
               /\ \E g \in 0 .. (k - 1) : p >= From(g) /\ k - g <= ls + 1
      <4>1. unit = 0 /\ t.slots[0] # Audio!Nothing
        <5>1. n = AudioStart[k] /\ k = c
          BY <1>4, <3>2
        <5>2. unit = 0
          BY <1>2, <1>3, <5>1
        <5> QED BY <1>9, <1>3, <2>3, <5>2
      <4> QED BY <2>1, <3>2, <4>1 DEF Lags
    <3> QED BY <3>1, <3>2 DEF Reaches
  <2>7. clean => /\ k = c /\ at = AudioStart[c] /\ p < AudioStart[c + 1]
                 /\ \A u \in 0 .. (UnitsOf(c) - 1) :
                      t.slots[u] = IF AudioStart[c] + u \in gt \cup {n} THEN AudioStart[c] + u ELSE Audio!Nothing
    <3>1. SUFFICES ASSUME clean, NEW u \in 0 .. (UnitsOf(c) - 1)
                   PROVE  t.slots[u] = IF AudioStart[c] + u \in gt \cup {n} THEN AudioStart[c] + u ELSE Audio!Nothing
      BY DEF Sound
    <3>2. k = c /\ r.slots[u] = IF AudioStart[c] + u \in gt THEN AudioStart[c] + u ELSE Audio!Nothing
      BY <3>1 DEF Sound
    <3>3. CASE u = unit
      BY <1>3, <2>3, <3>3
    <3>4. CASE u # unit
      <4>1. AudioStart[c] + u # n /\ t.slots[u] = r.slots[u]
        BY <1>2, <1>3, <2>3, <3>2, <3>4
      <4> QED BY <3>2, <4>1
    <3> QED BY <3>3, <3>4
  <2>8. CASE ~(t.source = size /\ ~t.emitted)
    <3>1. s = Audio!Both(t, b.h) /\ s.r = t /\ s.h = b.h
      BY <2>2, <2>8 DEF Audio!Both
    <3>2. t.emitted \/ t.source < size
      BY <1>2, <2>5, <2>8
    <3>3. Collecting(t, b.h, n, c, k, at, p)
      BY <1>1, <2>1, <2>3, <2>4, <3>2 DEF Collecting
    <3>4. Sound(t, b.h, gt \cup {n}, c, k, at, p, clean, before)
      <4>1. clean /\ before => IF t.emitted THEN Whole(c) \subseteq b.h.recent ELSE p < AudioStart[c]
        BY <2>1 DEF Sound
      <4> DEFINE all == \A u \in 0 .. (UnitsOf(c) - 1) :
                          t.slots[u] = IF AudioStart[c] + u \in gt \cup {n} THEN AudioStart[c] + u ELSE Audio!Nothing
                 rest == IF t.emitted THEN Whole(c) \subseteq b.h.recent ELSE p < AudioStart[c]
                 here == k = c /\ at = AudioStart[c] /\ p < AudioStart[c + 1] /\ all
      <4>2. clean => k = c /\ at = AudioStart[c] /\ p < AudioStart[c + 1] /\ all
        BY <2>7
      <4>3. Sound(t, b.h, gt \cup {n}, c, k, at, p, clean, before) <=>
              /\ clean => k = c /\ at = AudioStart[c] /\ p < AudioStart[c + 1] /\ all
              /\ clean /\ before => IF t.emitted THEN Whole(c) \subseteq b.h.recent ELSE p < AudioStart[c]
        BY DEF Sound
      <4>4. (clean => here) /\ (clean /\ before => rest)
        BY <4>1, <4>2
      <4>5. Sound(t, b.h, gt \cup {n}, c, k, at, p, clean, before) <=> (clean => here) /\ (clean /\ before => rest)
        BY <4>3
      <4> HIDE DEF here, rest
      <4> QED BY <4>4, <4>5
    <3> QED BY <1>1, <2>6, <3>1, <3>3, <3>4 DEF s
  <2>9. CASE t.source = size /\ ~t.emitted
    <3> DEFINE a == Audio!Both(t, b.h)
               e == Audio!Emit(a)
    <3>1. s.r = [e.r EXCEPT !.emitted = TRUE] /\ s.h = e.h
      BY <2>2, <2>9 DEF Audio!Both
    <3>2. a.r = t /\ a.h = b.h
      BY DEF Audio!Both
    <3> HIDE DEF a
    <3>3. size <= Audio!SeqHalf /\ p - at < Audio!SeqHalf /\ Audio!SeqHalf \in Nat
      <4>1. total + size <= Audio!SeqHalf
        BY <1>1, UnitsFit
      <4>2. Audio!SeqHalf \in Nat
        BY AudioConstants
      <4>4. p \in Nat /\ p <= AudioStart[k + 1] + size - 2
        BY <1>8, Zenon
      <4>3. p - at <= total + size - 2
        BY <1>21, <1>31, <4>4
      <4> QED BY <1>21, <1>31, <4>1, <4>2, <4>3, <4>4
    <3>4. PICK q \in Int :
            /\ Emitted(e, a, p, q, at, size)
            /\ p < at /\ at - p < Audio!SeqHalf /\ (\A u \in 0 .. (size - 1) : t.slots[u] # Audio!Nothing) =>
                 AllEmitted(e, a, p, q, at, size)
      <4>1. /\ p \in Int /\ at \in Int /\ size \in Nat \ {0} /\ IsReceiver(a.r) /\ IsHeard(a.h) /\ a.r.layout.source = size
            /\ a.r.prev = Audio!Cast(p) /\ a.r.first = Audio!Cast(at) /\ Strays(a.h)
        <5>1. p \in Int /\ at \in Int /\ size \in Nat \ {0}
          BY <1>1, <1>21, <1>31
        <5>2. IsReceiver(a.r) /\ IsHeard(a.h) /\ Strays(a.h)
          BY <1>1, <2>1, <3>2
        <5>3. a.r.layout.source = size /\ a.r.prev = Audio!Cast(p) /\ a.r.first = Audio!Cast(at)
          BY <1>1, <1>2, <2>1, <3>2
        <5> QED BY <5>1, <5>2, <5>3
      <4> HIDE DEF e
      <4>2. \E q \in Int :
              /\ Emitted(Audio!Emit(a), a, p, q, at, size)
              /\ p < at /\ at - p < Audio!SeqHalf /\ (\A u \in 0 .. (size - 1) : a.r.slots[u] # Audio!Nothing) =>
                   AllEmitted(Audio!Emit(a), a, p, q, at, size)
        BY <3>3, <4>1, EmitIs
      <4> QED BY <3>2, <4>2 DEF e
    <3> HIDE DEF e
    <3>5. /\ IsReceiver(e.r) /\ IsHeard(e.h) /\ Alike(e.r, t) /\ e.r.prev = Audio!Cast(q) /\ Strays(e.h)
          /\ p <= q /\ (q = p \/ q < at + size) /\ b.h.recent \subseteq e.h.recent
          /\ t.slots[0] # Audio!Nothing /\ at - p < Audio!SeqHalf => q >= at
      BY <1>2, <3>2, <3>4 DEF Emitted
    <3>6. q \in Nat
      BY <1>1, <3>5
    <3>7. /\ IsReceiver(s.r) /\ s.r.prev = Audio!Cast(q) /\ s.r.flushed = t.flushed /\ s.r.emitted = TRUE /\ s.r.first = t.first
          /\ s.r.layout = t.layout /\ s.r.slots = t.slots /\ s.r.source = t.source /\ s.r.fec = t.fec
      BY <3>1, <3>5 DEF IsReceiver, Alike
    <3>8. q <= AudioStart[k + 1] + size - 2
      <4>1. p \in Nat /\ p <= AudioStart[k + 1] + size - 2 /\ AudioStart[k + 1] \in Nat
        <5>1. p \in Nat /\ p <= AudioStart[k + 1] + size - 2
          BY <1>8, Zenon
        <5> QED BY <1>21, <5>1
      <4> QED BY <1>21, <1>31, <3>5, <3>6, <4>1
    <3>9. Collecting(s.r, s.h, n, c, k, at, q)
      <4>1. s.r.source = Cardinality(Had(s.r, 0, size - 1)) /\ s.r.fec = Cardinality(Had(s.r, size, total - 1))
        BY <2>4, <3>7 DEF Had
      <4> QED BY <1>1, <2>1, <2>3, <3>1, <3>5, <3>6, <3>7, <3>8, <4>1 DEF Collecting
    <3>10. \E g \in 0 .. c : q >= From(g) /\ c - g <= ls
      <4>1. CASE \E g \in 0 .. c : p >= From(g) /\ c - g <= ls
        <5>1. PICK g \in 0 .. c : p >= From(g) /\ c - g <= ls
          BY <4>1
        <5>2. From(g) \in Nat
          <6>1. g = 0 \/ g \in Gens
            BY <1>1, GenIsKnown DEF Gens
          <6> QED BY <6>1, GenIsKnown DEF From
        <5>3. q >= From(g)
          BY <1>1, <3>5, <3>6, <5>1, <5>2
        <5> QED BY <5>1, <5>3
      <4>2. CASE ~\E g \in 0 .. c : p >= From(g) /\ c - g <= ls
        <5>1. at = AudioStart[k] /\ t.slots[0] # Audio!Nothing /\ c - k <= ls
          BY <2>6, <4>2 DEF Lags
        <5>2. AudioStart[k] - p < Audio!SeqHalf
          BY <1>1, <2>6, <4>2, LagsNear
        <5>3. q >= From(k)
          BY <1>1, <1>2, <3>5, <5>1, <5>2 DEF From
        <5>4. k \in 0 .. c
          BY <1>1
        <5> QED BY <5>1, <5>3, <5>4
      <4> QED BY <4>1, <4>2
    <3>11. Sound(s.r, s.h, gt \cup {n}, c, k, at, q, clean, before)
      <4>1. clean => q < AudioStart[c + 1]
        <5>1. SUFFICES ASSUME clean PROVE q < AudioStart[c + 1]
          OBVIOUS
        <5>2. k = c /\ at = AudioStart[c] /\ p < AudioStart[c + 1]
          BY <2>7, <5>1
        <5>3. at + size <= AudioStart[c + 1] /\ AudioStart[c + 1] \in Nat
          BY <1>21, <5>2
        <5>4. p \in Nat
          BY <1>1
        <5> QED BY <1>21, <1>31, <3>5, <3>6, <5>2, <5>3, <5>4
      <4>2. clean /\ before => Whole(c) \subseteq s.h.recent
        <5>1. SUFFICES ASSUME clean, before, NEW x \in Whole(c) PROVE x \in s.h.recent
          OBVIOUS
        <5>2. k = c /\ at = AudioStart[c] /\ p < at /\ size = SourceOf(c) /\ total = UnitsOf(c)
          BY <2>1, <2>9, <5>1 DEF Sound
        <5>3. at - p < Audio!SeqHalf
          BY <1>1, <2>6, <5>2, LagsNear
        <5>4. \A u \in 0 .. (size - 1) : t.slots[u] # Audio!Nothing
          BY <2>5, <2>9
        <5>5. AllEmitted(e, a, p, q, at, size)
          BY <3>4, <5>2, <5>3, <5>4
        <5>6. x - at \in 0 .. (size - 1) /\ x - at \in 0 .. (UnitsOf(c) - 1) /\ AudioStart[c] + (x - at) = x
          BY <1>2, <1>3, <5>2 DEF Whole
        <5>7. t.slots[x - at] = x /\ t.slots[x - at] \in Nat
          BY <2>3, <2>7, <5>1, <5>2, <5>4, <5>6
        <5>8. PlaceOf(a.r, x - at) = x
          BY <3>2, <5>7 DEF PlaceOf, Audio!Recovered
        <5>9. PlaceOf(a.r, x - at) \in e.h.recent
          BY <5>5, <5>6 DEF AllEmitted
        <5> QED BY <3>1, <5>8, <5>9
      <4> QED BY <2>7, <3>7, <4>1, <4>2 DEF Sound
    <3> QED BY <3>1, <3>5, <3>6, <3>9, <3>10, <3>11 DEF s, Lags
  <2> QED BY <2>8, <2>9
<1> QED BY <1>6, <1>7

(* What is known of the generation that is collected.                                            *)
LEMMA CollectingIs ==
  ASSUME NEW r, NEW h, NEW ln, NEW c, NEW k, NEW at, NEW p, Collecting(r, h, ln, c, k, at, p)
  PROVE  /\ c \in Gens /\ k \in Gens /\ k \in Nat /\ c \in Nat /\ k <= c
         /\ SourceOf(k) \in Nat /\ SourceOf(k) > 0 /\ UnitsOf(k) \in Nat /\ SourceOf(k) <= UnitsOf(k)
         /\ AudioLayouts[k].source = SourceOf(k) /\ Audio!Total(AudioLayouts[k]) = UnitsOf(k)
         /\ AudioStart[k] \in Nat /\ AudioStart[k + 1] = AudioStart[k] + UnitsOf(k)
         /\ at \in Nat /\ at >= AudioStart[k] /\ at <= AudioStart[k] + UnitsOf(k) - 1
         /\ p \in Nat /\ p <= AudioStart[k] + UnitsOf(k) + SourceOf(k) - 2
         /\ SourceOf(k) <= Audio!SeqHalf \/ ~NumbersSuffice
         /\ p - at < Audio!SeqHalf \/ ~NumbersSuffice
         /\ Audio!SeqHalf \in Nat
<1>1. /\ c \in Gens /\ k \in 1 .. c /\ at \in PacketsOf(k) /\ p \in Nat
  BY DEF Collecting
<1>2. p <= AudioStart[k + 1] + SourceOf(k) - 2
  BY DEF Collecting
<1>3. k \in Gens /\ k \in Nat /\ c \in Nat /\ k <= c
  <2>1. Len(AudioLayouts) \in Nat
    BY AudioAssumption
  <2> QED BY <1>1, <2>1 DEF Gens
<1>4. /\ SourceOf(k) \in Nat /\ SourceOf(k) > 0 /\ UnitsOf(k) \in Nat /\ SourceOf(k) <= UnitsOf(k)
      /\ AudioLayouts[k].source = SourceOf(k) /\ Audio!Total(AudioLayouts[k]) = UnitsOf(k)
      /\ AudioStart[k] \in Nat /\ AudioStart[k + 1] = AudioStart[k] + UnitsOf(k)
  BY <1>3, GenIsKnown
<1>5. at \in Nat /\ at >= AudioStart[k] /\ at <= AudioStart[k] + UnitsOf(k) - 1
  BY <1>1, <1>4 DEF PacketsOf
<1>6. p <= AudioStart[k] + UnitsOf(k) + SourceOf(k) - 2
  BY <1>1, <1>2, <1>4
<1>7. Audio!SeqHalf \in Nat
  BY AudioConstants
<1>8. NumbersSuffice => UnitsOf(k) + SourceOf(k) <= Audio!SeqHalf
  BY <1>3, UnitsFit
<1>9. (SourceOf(k) <= Audio!SeqHalf \/ ~NumbersSuffice) /\ (p - at < Audio!SeqHalf \/ ~NumbersSuffice)
  BY <1>1, <1>4, <1>5, <1>6, <1>7, <1>8
<1> QED BY <1>1, <1>3, <1>4, <1>5, <1>6, <1>7, <1>9

(* What FEC leaves of the units.                                                               *)
LEMMA FecIs ==
  ASSUME NEW r, NEW size \in Nat, NEW total \in Nat, IsReceiver(r), r.layout.source = size, Audio!Total(r.layout) = total,
         r.slots \in [0 .. (total - 1) -> Nat]
  PROVE  LET f == Audio!Fec(r) IN
         /\ IsReceiver(f) /\ f.prev = r.prev /\ f.emitted = r.emitted /\ f.first = r.first /\ f.layout = r.layout
         /\ \A u \in 0 .. (total - 1) :
              f.slots[u] = IF r.slots[u] = Audio!Nothing /\ u < size THEN Audio!Recovered ELSE r.slots[u]
<1> DEFINE f == Audio!Fec(r)
           x == [u \in Audio!Units(r) |-> IF r.slots[u] = Audio!Nothing /\ u < r.layout.source THEN Audio!Recovered ELSE r.slots[u]]
           y == r.layout.source
<1>1. f = [r EXCEPT !.slots = x, !.source = y]
  BY DEF Audio!Fec
<1>2. \A u \in 0 .. (total - 1) :
        x[u] = IF r.slots[u] = Audio!Nothing /\ u < size THEN Audio!Recovered ELSE r.slots[u]
  BY DEF Audio!Units
<1> HIDE DEF x, y, f
<1>3. IsReceiver(f) /\ f.prev = r.prev /\ f.emitted = r.emitted /\ f.first = r.first /\ f.layout = r.layout /\ f.slots = x
  BY <1>1 DEF IsReceiver
<1> QED BY <1>2, <1>3 DEF f

Mended(f, r, size, total) ==
  \A u \in 0 .. (total - 1) :
    f.slots[u] = IF r.slots[u] = Audio!Nothing /\ u < size THEN Audio!Recovered ELSE r.slots[u]
Own(r, start, total) == \A u \in 0 .. (total - 1) : r.slots[u] = start + u \/ r.slots[u] = Audio!Nothing

(* What FEC restores of the units of one clean generation are the packets that are missing.               *)
LEMMA RestoredIs ==
  ASSUME NEW r, NEW f, NEW total \in Nat, NEW size \in 0 .. total, NEW start \in Nat \ {0}, Audio!Total(f.layout) = total,
         Mended(f, r, size, total), Own(r, start, total),
         \E v \in 0 .. (total - 1) : r.slots[v] # Audio!Nothing
  PROVE  \A u \in 0 .. (size - 1) : PlaceOf(f, u) = start + u
<1> DEFINE stored == {w \in Audio!Received(f) : f.slots[w] # Audio!Recovered}
<1>1. Audio!Nothing = 0 /\ Audio!Recovered = -2
  BY DEF Audio!Nothing, Audio!Recovered
<1>2. \A w \in stored : w \in 0 .. (total - 1) /\ f.slots[w] = start + w
  BY <1>1 DEF Audio!Received, Audio!Units, Mended, Own
<1>3. stored # {}
  BY <1>1 DEF Audio!Received, Audio!Units, Mended, Own
<1>4. \A w \in stored : f.slots[w] - w = start
  BY <1>2
<1>5. ASSUME NEW u \in 0 .. (size - 1) PROVE PlaceOf(f, u) = start + u
  <2> DEFINE w == CHOOSE w \in stored : TRUE
  <2>1. Audio!Restored(f, u) = IF \A x \in stored : f.slots[x] - x = f.slots[w] - w THEN f.slots[w] - w + u ELSE Audio!Garbage
    BY DEF Audio!Restored
  <2> HIDE DEF stored
  <2>2. w \in stored
    BY <1>3
  <2> HIDE DEF w
  <2>3. f.slots[w] - w = start
    BY <1>4, <2>2
  <2>4. Audio!Restored(f, u) = start + u
    BY <1>4, <2>1, <2>3
  <2>5. f.slots[u] = Audio!Recovered \/ f.slots[u] = start + u
    BY <1>1 DEF Mended, Own
  <2> QED BY <2>4, <2>5 DEF PlaceOf
<1> QED BY <1>5

(* The last frame heard is not before one that was before it.                                    *)
LEMMA LagsGrow ==
  ASSUME NEW c \in Gens, NEW ls, NEW p \in Nat, NEW q \in Nat, p <= q, \E g \in 0 .. c : p >= From(g) /\ c - g <= ls
  PROVE  \E g \in 0 .. c : q >= From(g) /\ c - g <= ls
<1>1. PICK g \in 0 .. c : p >= From(g) /\ c - g <= ls
  OBVIOUS
<1>2. Len(AudioLayouts) \in Nat
  BY AudioAssumption
<1>3. g = 0 \/ g \in Gens
  BY <1>2 DEF Gens
<1>4. From(g) \in Nat
  BY <1>3, GenIsKnown DEF From
<1>5. q >= From(g)
  BY <1>1, <1>4
<1> QED BY <1>1, <1>5

(* What is left when the generation is given up.                                                 *)
Given(e, h, gt, ls, c, k, p, clean, before) ==
  /\ IsReceiver(e.r) /\ IsHeard(e.h) /\ Strays(e.h) /\ h.recent \subseteq e.h.recent /\ e.r.prev = Audio!Cast(p)
  /\ p <= AudioStart[k + 1] + SourceOf(k) - 2
  /\ \E g \in 0 .. c : p >= From(g) /\ c - g <= ls
  /\ clean => p < AudioStart[c + 1]
  /\ clean /\ before /\ Cardinality(gt \cap PacketsOf(c)) >= SourceOf(c) => Whole(c) \subseteq e.h.recent

LEMMA FlushIs ==
  ASSUME NumbersSuffice, service = "cloud", haptics \in BOOLEAN, AudioLosses \in Nat, NEW ls \in 0 .. AudioLosses,
         NEW b, NEW ln, NEW c, NEW k, NEW at, NEW p, NEW gt, NEW clean \in BOOLEAN, NEW before \in BOOLEAN,
         NEW size, NEW total, size = SourceOf(k), total = UnitsOf(k),
         Collecting(b.r, b.h, ln, c, k, at, p), Lags(b.r, ls, c, k, at, p),
         Sound(b.r, b.h, gt, c, k, at, p, clean, before)
  PROVE  \E q \in Nat : Given(Audio!Flush(b), b.h, gt, ls, c, k, q, clean, before)
<1> DEFINE e == Audio!Flush(b)
           r == b.r
           restores == r.source < size /\ r.source + r.fec >= size
           f == IF restores THEN Audio!Fec(r) ELSE r
           a == Audio!Both(f, b.h)
<1>1. /\ IsReceiver(r) /\ IsHeard(b.h) /\ Strays(b.h) /\ r.flushed = FALSE /\ r.emitted \in BOOLEAN
      /\ r.first = Audio!Cast(at) /\ r.layout = AudioLayouts[k] /\ r.slots \in [0 .. (total - 1) -> Nat]
      /\ r.source = Cardinality(Had(r, 0, size - 1)) /\ r.fec = Cardinality(Had(r, size, total - 1))
      /\ r.emitted \/ r.source < size
      /\ r.prev = Audio!Cast(p) /\ k \in 1 .. c
  BY DEF Collecting
<1>2. /\ c \in Gens /\ k \in Gens /\ k \in Nat /\ c \in Nat /\ k <= c
      /\ size \in Nat /\ size > 0 /\ total \in Nat /\ size <= total
      /\ AudioLayouts[k].source = size /\ Audio!Total(AudioLayouts[k]) = total
      /\ AudioStart[k] \in Nat /\ AudioStart[k + 1] = AudioStart[k] + total
      /\ at \in Nat /\ at >= AudioStart[k] /\ at <= AudioStart[k] + total - 1
      /\ p \in Nat /\ p <= AudioStart[k] + total + size - 2
      /\ size <= Audio!SeqHalf /\ p - at < Audio!SeqHalf /\ Audio!SeqHalf \in Nat
  BY CollectingIs
<1>3. /\ AudioStart[c] \in Nat /\ AudioStart[c] > 0 /\ AudioStart[c + 1] = AudioStart[c] + UnitsOf(c)
      /\ SourceOf(c) \in Nat /\ UnitsOf(c) \in Nat
  BY <1>2, GenIsKnown, StartIsNat, AudioAssumption DEF Gens
<1>4. r.source \in Nat /\ r.fec \in Nat
  <2>1. 0 \in Int /\ size - 1 \in Int /\ 0 <= (size - 1) + 1
    BY <1>2
  <2>2. size \in Int /\ total - 1 \in Int /\ size <= (total - 1) + 1
    BY <1>2
  <2>3. Cardinality(Had(r, 0, size - 1)) \in Nat
    BY <2>1, HadIsFinite
  <2>4. Cardinality(Had(r, size, total - 1)) \in Nat
    BY <2>2, HadIsFinite
  <2> QED BY <1>1, <2>3, <2>4
<1>5. r.layout.source = size /\ Audio!Total(r.layout) = total
  BY <1>1, <1>2
<1>6. e = IF r.emitted THEN a ELSE Audio!Emit(a)
  BY <1>1, <1>5 DEF Audio!Flush
<1> HIDE DEF e
<1>7. a.r = f /\ a.h = b.h
  BY DEF Audio!Both
<1> HIDE DEF a
<1> DEFINE mended == Audio!Fec(r)
<1>71. /\ IsReceiver(mended) /\ mended.prev = r.prev /\ mended.emitted = r.emitted /\ mended.first = r.first /\ mended.layout = r.layout
       /\ \A u \in 0 .. (total - 1) :
            mended.slots[u] = IF r.slots[u] = Audio!Nothing /\ u < size THEN Audio!Recovered ELSE r.slots[u]
  <2>1. IsReceiver(r) /\ r.slots \in [0 .. (total - 1) -> Nat]
    BY <1>1
  <2>2. size \in Nat /\ total \in Nat
    BY <1>2
  <2> HIDE DEF r
  <2> QED BY <1>5, <2>1, <2>2, FecIs
<1>72. f = IF restores THEN mended ELSE r
  OBVIOUS
<1> HIDE DEF mended, f, restores
<1>8. restores => \A u \in 0 .. (total - 1) :
                    f.slots[u] = IF r.slots[u] = Audio!Nothing /\ u < size THEN Audio!Recovered ELSE r.slots[u]
  BY <1>71, <1>72
<1>9. /\ IsReceiver(f) /\ f.prev = r.prev /\ f.emitted = r.emitted /\ f.first = r.first /\ f.layout = r.layout
  BY <1>1, <1>71, <1>72
<1>10. r.slots[0] # Audio!Nothing => f.slots[0] # Audio!Nothing
  <2>1. 0 \in 0 .. (total - 1)
    BY <1>2
  <2> QED BY <1>8, <1>72, <2>1
<1>11. CASE r.emitted
  <2>1. e.r = f /\ e.h = b.h
    BY <1>6, <1>7, <1>11
  <2>2. p <= AudioStart[k + 1] + SourceOf(k) - 2
    BY <1>2
  <2>3. \E g \in 0 .. c : p >= From(g) /\ c - g <= ls
    BY <1>11 DEF Lags
  <2>4. clean => p < AudioStart[c + 1]
    BY DEF Sound
  <2>5. clean /\ before => Whole(c) \subseteq e.h.recent
    BY <1>11, <2>1 DEF Sound
  <2> QED BY <1>1, <1>2, <1>9, <2>1, <2>2, <2>3, <2>4, <2>5 DEF Given, e
<1>12. CASE ~r.emitted
  <2>1. PICK q \in Int :
          /\ Emitted(e, a, p, q, at, size)
          /\ p < at /\ at - p < Audio!SeqHalf /\ (\A u \in 0 .. (size - 1) : f.slots[u] # Audio!Nothing) =>
               AllEmitted(e, a, p, q, at, size)
    <3>1. p \in Int /\ at \in Int /\ size \in Nat \ {0} /\ size <= Audio!SeqHalf /\ p - at < Audio!SeqHalf
      BY <1>2
    <3>2. IsReceiver(a.r) /\ IsHeard(a.h) /\ Strays(a.h)
      BY <1>1, <1>7, <1>9
    <3>3. a.r.layout.source = size /\ a.r.prev = Audio!Cast(p) /\ a.r.first = Audio!Cast(at)
      BY <1>1, <1>5, <1>7, <1>9
    <3>4. \E q \in Int :
            /\ Emitted(Audio!Emit(a), a, p, q, at, size)
            /\ p < at /\ at - p < Audio!SeqHalf /\ (\A u \in 0 .. (size - 1) : a.r.slots[u] # Audio!Nothing) =>
                 AllEmitted(Audio!Emit(a), a, p, q, at, size)
      BY <3>1, <3>2, <3>3, EmitIs
    <3>5. e = Audio!Emit(a)
      BY <1>6, <1>12
    <3> QED BY <1>7, <3>4, <3>5
  <2>2. /\ IsReceiver(e.r) /\ IsHeard(e.h) /\ e.r.prev = Audio!Cast(q) /\ Strays(e.h)
        /\ p <= q /\ (q = p \/ q < at + size) /\ b.h.recent \subseteq e.h.recent
        /\ r.slots[0] # Audio!Nothing /\ at - p < Audio!SeqHalf => q >= at
    BY <1>2, <1>7, <1>10, <2>1 DEF Emitted
  <2>3. q \in Nat
    BY <1>2, <2>2
  <2>4. q <= AudioStart[k + 1] + SourceOf(k) - 2
    BY <1>2, <2>2, <2>3
  <2>5. \E g \in 0 .. c : q >= From(g) /\ c - g <= ls
    <3>1. CASE \E g \in 0 .. c : p >= From(g) /\ c - g <= ls
      BY <1>2, <2>2, <2>3, <3>1, LagsGrow
    <3>2. CASE ~\E g \in 0 .. c : p >= From(g) /\ c - g <= ls
      <4>1. at = AudioStart[k] /\ r.slots[0] # Audio!Nothing /\ c - k <= ls
        BY <3>2 DEF Lags
      <4>2. AudioStart[k] - p < Audio!SeqHalf
        BY <1>1, <1>2, <3>2, LagsNear
      <4>3. q >= From(k)
        BY <1>2, <2>2, <4>1, <4>2 DEF From
      <4>4. k \in 0 .. c
        BY <1>2
      <4> QED BY <4>1, <4>3, <4>4
    <3> QED BY <3>1, <3>2
  <2>6. clean => q < AudioStart[c + 1]
    <3>1. SUFFICES ASSUME clean PROVE q < AudioStart[c + 1]
      OBVIOUS
    <3>2. k = c /\ at = AudioStart[c] /\ p < AudioStart[c + 1]
      BY <3>1 DEF Sound
    <3>3. at + size <= AudioStart[c + 1] /\ AudioStart[c + 1] \in Nat
      BY <1>2, <3>2
    <3> QED BY <1>2, <2>2, <2>3, <3>2, <3>3
  <2>7. clean /\ before /\ Cardinality(gt \cap PacketsOf(c)) >= SourceOf(c) => Whole(c) \subseteq e.h.recent
    <3>1. SUFFICES ASSUME clean, before, Cardinality(gt \cap PacketsOf(c)) >= SourceOf(c), NEW x \in Whole(c)
                   PROVE  x \in e.h.recent
      OBVIOUS
    <3>2. k = c /\ at = AudioStart[c] /\ p < at /\ size = SourceOf(c) /\ total = UnitsOf(c)
      BY <1>12, <3>1 DEF Sound
    <3>3. \A u \in 0 .. (UnitsOf(c) - 1) : r.slots[u] = IF AudioStart[c] + u \in gt THEN AudioStart[c] + u ELSE Audio!Nothing
      BY <3>1 DEF Sound
    <3>4. Cardinality(gt \cap PacketsOf(c)) = r.source + r.fec
      <4>1. Cardinality(gt \cap PacketsOf(c)) =
              Cardinality(Had(r, 0, SourceOf(c) - 1)) + Cardinality(Had(r, SourceOf(c), UnitsOf(c) - 1))
        BY <1>2, <3>3, HadIsArrived
      <4> QED BY <1>1, <3>2, <4>1
    <3>5. restores
      BY <1>1, <1>4, <1>12, <3>1, <3>2, <3>4 DEF restores
    <3>6. at - p < Audio!SeqHalf
      BY <1>1, <1>2, <3>2, LagsNear
    <3>7. \E v \in 0 .. (total - 1) : r.slots[v] # Audio!Nothing
      <4>1. SUFFICES ASSUME \A v \in 0 .. (total - 1) : r.slots[v] = Audio!Nothing PROVE FALSE
        OBVIOUS
      <4>2. Had(r, 0, size - 1) = {} /\ Had(r, size, total - 1) = {}
        BY <1>2, <4>1 DEF Had
      <4>3. r.source = 0 /\ r.fec = 0
        BY <1>1, <4>2, FS_EmptySet
      <4> QED BY <1>2, <3>5, <4>3 DEF restores
    <3>8. \A u \in 0 .. (total - 1) : r.slots[u] = AudioStart[c] + u \/ r.slots[u] = Audio!Nothing
      BY <3>2, <3>3
    <3>9. \A u \in 0 .. (size - 1) : PlaceOf(f, u) = AudioStart[c] + u
      <4>1. \E v \in 0 .. (total - 1) : r.slots[v] # Audio!Nothing
        BY <3>7
      <4>2. Audio!Total(f.layout) = total
        BY <1>5, <1>9
      <4> DEFINE start == AudioStart[c]
      <4>3. total \in Nat /\ size \in 0 .. total /\ start \in Nat \ {0}
        BY <1>2, <1>3
      <4>4. Own(r, start, total)
        BY <3>8 DEF Own
      <4>5. Mended(f, r, size, total)
        BY <1>8, <3>5 DEF Mended
      <4> HIDE DEF start, r
      <4>6. \A u \in 0 .. (size - 1) : PlaceOf(f, u) = start + u
        BY <4>1, <4>2, <4>3, <4>4, <4>5, RestoredIs
      <4> QED BY <4>6 DEF start
    <3>10. \A u \in 0 .. (size - 1) : f.slots[u] # Audio!Nothing
      <4>1. Audio!Recovered # Audio!Nothing
        BY DEF Audio!Recovered, Audio!Nothing
      <4>2. \A u \in 0 .. (size - 1) : u \in 0 .. (total - 1) /\ u < size
        BY <1>2
      <4> QED BY <1>8, <3>5, <4>1, <4>2
    <3>11. AllEmitted(e, a, p, q, at, size)
      BY <2>1, <3>2, <3>6, <3>10
    <3>12. x - at \in 0 .. (size - 1) /\ AudioStart[c] + (x - at) = x
      BY <1>2, <3>2 DEF Whole
    <3>13. PlaceOf(f, x - at) \in e.h.recent
      BY <1>7, <3>11, <3>12 DEF AllEmitted
    <3> QED BY <3>9, <3>12, <3>13
  <2> QED BY <2>2, <2>3, <2>4, <2>5, <2>6, <2>7 DEF Given, e
<1> QED BY <1>1, <1>11, <1>12

(* The next packet is one of the same generation or the first one of the next.                    *)
LEMMA NextIs ==
  ASSUME NEW c \in 0 .. Len(AudioLayouts), NEW n \in Nat, IF c = 0 THEN n = 0 ELSE n \in PacketsOf(c),
         n < AudioStart[Len(AudioLayouts) + 1] - 1
  PROVE  \E g \in Gens : /\ n + 1 \in PacketsOf(g) /\ Audio!GenOf(n + 1) = g
                         /\ \/ g = c /\ n + 1 > AudioStart[g]
                            \/ g = c + 1 /\ n + 1 = AudioStart[g]
<1>1. Len(AudioLayouts) \in Nat /\ AudioStart[1] = 1
  BY AudioAssumption
<1>2. \A g \in Gens : /\ g \in Nat /\ UnitsOf(g) \in Nat /\ UnitsOf(g) > 0 /\ AudioStart[g] \in Nat
                      /\ AudioStart[g + 1] = AudioStart[g] + UnitsOf(g)
  <2>1. \A g \in Gens : SourceOf(g) \in Nat /\ SourceOf(g) > 0 /\ SourceOf(g) <= UnitsOf(g) /\ UnitsOf(g) \in Nat
    BY GenIsKnown
  <2> QED BY <2>1, GenIsKnown
<1>3. SUFFICES \E g \in Gens : /\ n + 1 \in PacketsOf(g)
                               /\ \/ g = c /\ n + 1 > AudioStart[g]
                                  \/ g = c + 1 /\ n + 1 = AudioStart[g]
  BY GenIs
<1>4. CASE c > 0 /\ n + 1 < AudioStart[c + 1]
  <2>1. c \in Gens /\ n \in PacketsOf(c)
    BY <1>1, <1>4 DEF Gens
  <2>2. n + 1 > AudioStart[c] /\ n + 1 \in PacketsOf(c)
    BY <1>2, <1>4, <2>1 DEF PacketsOf
  <2> QED BY <2>1, <2>2
<1>5. CASE c = 0 \/ ~(n + 1 < AudioStart[c + 1])
  <2>1. n + 1 = AudioStart[c + 1]
    <3>1. CASE c = 0
      BY <1>1, <3>1
    <3>2. CASE c # 0
      <4>1. c \in Gens /\ n \in PacketsOf(c)
        BY <1>1, <3>2 DEF Gens
      <4>2. AudioStart[c] \in Nat /\ AudioStart[c + 1] \in Nat
        BY <1>2, <4>1
      <4>3. n <= AudioStart[c + 1] - 1 /\ ~(n + 1 < AudioStart[c + 1])
        BY <1>5, <3>2, <4>1, <4>2 DEF PacketsOf
      <4> QED BY <4>2, <4>3
    <3> QED BY <3>1, <3>2
  <2>2. c + 1 \in Gens
    <3>1. c # Len(AudioLayouts)
      <4>1. SUFFICES ASSUME c = Len(AudioLayouts) PROVE FALSE
        OBVIOUS
      <4>2. n + 1 = AudioStart[Len(AudioLayouts) + 1]
        BY <2>1, <4>1
      <4> QED BY <4>2
    <3> QED BY <1>1, <3>1 DEF Gens
  <2>3. n + 1 \in PacketsOf(c + 1)
    BY <1>2, <2>1, <2>2 DEF PacketsOf
  <2> QED BY <2>1, <2>2, <2>3
<1> QED BY <1>1, <1>4, <1>5

(* A generation that begins has nothing yet.                                                     *)
LEMMA AllocIs ==
  ASSUME NEW e, NEW g \in Gens, NEW n \in PacketsOf(g), NEW p \in Nat, IsReceiver(e.r), IsHeard(e.h), Strays(e.h),
         e.r.prev = Audio!Cast(p), p <= AudioStart[g + 1] + SourceOf(g) - 2
  PROVE  LET a == Audio!Alloc(e, n, AudioLayouts[g]) IN
         /\ Collecting(a.r, a.h, n, g, g, n, p) /\ a.h = e.h /\ a.r.emitted = FALSE
         /\ \A u \in 0 .. (UnitsOf(g) - 1) : a.r.slots[u] = Audio!Nothing
<1> DEFINE a == Audio!Alloc(e, n, AudioLayouts[g])
           size == SourceOf(g)
           total == UnitsOf(g)
<1>1. /\ size \in Nat /\ size > 0 /\ total \in Nat /\ size <= total /\ Audio!Total(AudioLayouts[g]) = total
      /\ g \in Nat /\ g > 0 /\ AudioStart[g] \in Nat /\ AudioStart[g + 1] = AudioStart[g] + total
  BY GenIsKnown
<1>2. /\ a.h = e.h
      /\ a.r = [e.r EXCEPT !.flushed = FALSE, !.emitted = FALSE, !.first = Audio!Cast(n), !.layout = AudioLayouts[g],
                           !.slots = [u \in 0 .. (Audio!Total(AudioLayouts[g]) - 1) |-> Audio!Nothing], !.source = 0, !.fec = 0]
  BY DEF Audio!Alloc, Audio!Both
<1> DEFINE x == [u \in 0 .. (Audio!Total(AudioLayouts[g]) - 1) |-> Audio!Nothing]
<1>3. x = [u \in 0 .. (total - 1) |-> Audio!Nothing]
  BY <1>1
<1>4. a.r = [e.r EXCEPT !.flushed = FALSE, !.emitted = FALSE, !.first = Audio!Cast(n), !.layout = AudioLayouts[g],
                        !.slots = x, !.source = 0, !.fec = 0]
  BY <1>2
<1> HIDE DEF a, x, total, size
<1>5. /\ IsReceiver(a.r) /\ a.r.flushed = FALSE /\ a.r.emitted = FALSE /\ a.r.first = Audio!Cast(n) /\ a.r.layout = AudioLayouts[g]
      /\ a.r.slots = x /\ a.r.source = 0 /\ a.r.fec = 0 /\ a.r.prev = e.r.prev
  BY <1>4 DEF IsReceiver
<1>6. (\A u \in 0 .. (total - 1) : a.r.slots[u] = Audio!Nothing) /\ a.r.slots \in [0 .. (total - 1) -> Nat]
  BY <1>3, <1>5 DEF Audio!Nothing
<1>7. Cardinality(Had(a.r, 0, size - 1)) = 0 /\ Cardinality(Had(a.r, size, total - 1)) = 0
  <2>1. Had(a.r, 0, size - 1) = {} /\ Had(a.r, size, total - 1) = {}
    BY <1>1, <1>6 DEF Had
  <2> QED BY <2>1, FS_EmptySet
<1>8. n \in Nat
  BY <1>1 DEF PacketsOf
<1>9. Collecting(a.r, a.h, n, g, g, n, p)
  <2>1. g \in 1 .. g /\ n <= n /\ a.r.source < size
    BY <1>1, <1>5, <1>8
  <2>2. p <= AudioStart[g + 1] + SourceOf(g) - 2
    OBVIOUS
  <2> QED BY <1>2, <1>5, <1>6, <1>7, <2>1, <2>2 DEF Collecting, size, total
<1> QED BY <1>2, <1>5, <1>6, <1>9 DEF a, total

(* A generation that misses a packet is not full.                                                 *)
LEMMA NotFull ==
  ASSUME NEW r, NEW size \in Nat, NEW total \in Nat, size <= total, NEW unit \in 0 .. (total - 1), r.slots[unit] = Audio!Nothing
  PROVE  Cardinality(Had(r, 0, size - 1)) + Cardinality(Had(r, size, total - 1)) < total
<1> DEFINE m == size - 1
           l == total - 1
<1>1. 0 \in Int /\ m \in Int /\ l \in Int /\ 0 <= m + 1 /\ size <= l + 1 /\ size \in Int
  OBVIOUS
<1>2. m - 0 + 1 = size /\ l - size + 1 = total - size
  OBVIOUS
<1>3. unit \in 0 .. m \/ unit \in size .. l
  OBVIOUS
<1> HIDE DEF m, l
<1>4. /\ Cardinality(Had(r, 0, m)) \in Nat /\ Cardinality(Had(r, 0, m)) <= m - 0 + 1
      /\ Cardinality(Had(r, 0, m)) = m - 0 + 1 => \A u \in 0 .. m : r.slots[u] # Audio!Nothing
  BY <1>1, HadIsFinite
<1>5. /\ Cardinality(Had(r, size, l)) \in Nat /\ Cardinality(Had(r, size, l)) <= l - size + 1
      /\ Cardinality(Had(r, size, l)) = l - size + 1 => \A u \in size .. l : r.slots[u] # Audio!Nothing
  BY <1>1, HadIsFinite
<1>6. Cardinality(Had(r, 0, m)) + Cardinality(Had(r, size, l)) < total
  BY <1>2, <1>3, <1>4, <1>5
<1> QED BY <1>6 DEF m, l

(* What was played of a generation does not reach over the next.                                  *)
LEMMA ReachIs ==
  ASSUME NumbersSuffice, NEW k \in Gens, NEW g \in Gens, k <= g, NEW p \in Nat, p <= AudioStart[k + 1] + SourceOf(k) - 2
  PROVE  p <= AudioStart[g + 1] + SourceOf(g) - 2 /\ (k < g => p < AudioStart[g + 1])
<1>1. /\ k \in Nat /\ g \in Nat /\ SourceOf(k) \in Nat /\ SourceOf(g) \in Nat /\ SourceOf(g) > 0
      /\ AudioStart[k] \in Nat /\ UnitsOf(k) \in Nat /\ AudioStart[k + 1] = AudioStart[k] + UnitsOf(k)
      /\ AudioStart[g] \in Nat /\ UnitsOf(g) \in Nat /\ AudioStart[g + 1] = AudioStart[g] + UnitsOf(g)
  BY GenIsKnown
<1>2. CASE k < g
  <2>1. Len(AudioLayouts) \in Nat
    BY AudioAssumption
  <2>2. k + 1 \in Gens
    BY <1>1, <1>2, <2>1 DEF Gens
  <2>3. SourceOf(k) <= UnitsOf(k + 1) + 1
    BY <2>2 DEF NumbersSuffice
  <2>4. UnitsOf(k + 1) \in Nat /\ AudioStart[k + 1] \in Nat /\ AudioStart[(k + 1) + 1] = AudioStart[k + 1] + UnitsOf(k + 1)
    BY <2>2, GenIsKnown
  <2>5. AudioStart[(k + 1) + 1] <= AudioStart[g + 1]
    <3>1. CASE k + 1 = g
      BY <1>1, <3>1
    <3>2. CASE k + 1 < g
      <4>1. AudioStart[(k + 1) + 1] <= AudioStart[g]
        BY <2>2, <3>2, StartsGrow
      <4> QED BY <1>1, <2>4, <4>1
    <3> QED BY <1>1, <1>2, <3>1, <3>2
  <2> QED BY <1>1, <2>3, <2>4, <2>5
<1>3. CASE k = g
  BY <1>1, <1>3
<1> QED BY <1>1, <1>2, <1>3

(* The history that is kept while a generation arrives.                                           *)
Recent(S, g) == {x \in S : g < 3 \/ x >= AudioStart[g - 2]}
RecentGens(S, g) == {h \in S : h >= g - 2}

LEMMA RecentIs ==
  ASSUME NEW S, NEW g \in Gens, NEW h \in Gens, h >= g - 2
  PROVE  /\ \A x \in PacketsOf(h) : x \in Recent(S, g) <=> x \in S
         /\ AudioStart[h] \in PacketsOf(h) /\ Whole(h) \subseteq PacketsOf(h)
<1>1. /\ g \in Nat /\ h \in Nat /\ h > 0 /\ SourceOf(h) \in Nat /\ SourceOf(h) > 0 /\ UnitsOf(h) \in Nat /\ SourceOf(h) <= UnitsOf(h)
      /\ AudioStart[h] \in Nat /\ AudioStart[h + 1] = AudioStart[h] + UnitsOf(h)
  BY GenIsKnown
<1>2. g >= 3 => AudioStart[g - 2] \in Nat /\ AudioStart[g - 2] <= AudioStart[h]
  <2>1. SUFFICES ASSUME g >= 3 PROVE AudioStart[g - 2] \in Nat /\ AudioStart[g - 2] <= AudioStart[h]
    OBVIOUS
  <2>2. Len(AudioLayouts) \in Nat
    BY AudioAssumption
  <2>3. g - 2 \in Gens
    BY <1>1, <2>1, <2>2 DEF Gens
  <2>4. /\ AudioStart[g - 2] \in Nat /\ UnitsOf(g - 2) \in Nat
        /\ AudioStart[(g - 2) + 1] = AudioStart[g - 2] + UnitsOf(g - 2)
    BY <2>3, GenIsKnown
  <2>5. g - 2 = h \/ g - 2 < h
    BY <1>1
  <2>6. g - 2 < h => AudioStart[(g - 2) + 1] <= AudioStart[h]
    BY <2>3, StartsGrow
  <2> QED BY <1>1, <2>4, <2>5, <2>6
<1>3. \A x \in PacketsOf(h) : x \in Int /\ x >= AudioStart[h]
  BY <1>1 DEF PacketsOf
<1>4. ASSUME NEW x \in PacketsOf(h) PROVE x \in Recent(S, g) <=> x \in S
  <2>1. g < 3 \/ x >= AudioStart[g - 2]
    BY <1>1, <1>2, <1>3
  <2> QED BY <2>1 DEF Recent
<1>5. AudioStart[h] \in PacketsOf(h) /\ Whole(h) \subseteq PacketsOf(h)
  BY <1>1 DEF PacketsOf, Whole
<1> QED BY <1>4, <1>5

(* When the next packet starts a generation, g, the one before is given up.                           *)
Begins(e, g, c, ls, p) ==
  /\ IsReceiver(e.r) /\ IsHeard(e.h) /\ Strays(e.h) /\ heard.recent \subseteq e.h.recent /\ e.r.prev = Audio!Cast(p)
  /\ p <= AudioStart[g + 1] + SourceOf(g) - 2
  /\ \E h \in 0 .. c : p >= From(h) /\ c - h <= ls
  /\ g = c + 1 => p < AudioStart[g + 1] /\ (c = 0 \/ Clean(c, got, late) => p < AudioStart[g])
  /\ /\ g = c + 1 /\ c > 0 /\ Clean(c, got, late) /\ (c = 1 \/ Clean(c - 1, got, late))
     /\ Cardinality(got \cap PacketsOf(c)) >= SourceOf(c)
     => Whole(c) \subseteq e.h.recent

LEMMA FlushBegins ==
  ASSUME NumbersSuffice, service = "cloud", haptics \in BOOLEAN, AudioLosses \in Nat, lostPackets \in 0 .. AudioLosses,
         NEW c \in 0 .. Len(AudioLayouts), NEW g \in Gens, g = c \/ g = c + 1,
         Fresh(c) \/ (c > 0 /\ Running(c))
  PROVE  \E p \in Nat : Begins(Audio!Flush(Audio!Both(audio, heard)), g, c, lostPackets, p)
<1> DEFINE b == Audio!Both(audio, heard)
           e == Audio!Flush(b)
<1>1. b.r = audio /\ b.h = heard
  BY DEF Audio!Both
<1>2. Len(AudioLayouts) \in Nat
  BY AudioAssumption
<1>3. /\ g \in Nat /\ g > 0 /\ SourceOf(g) \in Nat /\ SourceOf(g) > 0 /\ UnitsOf(g) \in Nat
      /\ AudioStart[g] \in Nat /\ AudioStart[g] > 0 /\ AudioStart[g + 1] = AudioStart[g] + UnitsOf(g)
  BY GenIsKnown, StartIsNat, <1>2 DEF Gens
<1> HIDE DEF b
<1>4. CASE Fresh(c)
  <2>1. /\ audio = Audio!Receiver /\ heard = Audio!Silence /\ got = {} /\ c <= lostPackets
    BY <1>4 DEF Fresh
  <2>2. e = b
    BY <1>1, <2>1 DEF Audio!Flush, Audio!Receiver
  <2>3. IsReceiver(e.r) /\ IsHeard(e.h) /\ Strays(e.h) /\ e.h = heard /\ e.r.prev = 0
    BY <1>1, <2>1, <2>2 DEF Audio!Receiver, Audio!Silence, IsReceiver, IsHeard, Strays
  <2>4. 0 = Audio!Cast(0)
    BY AudioConstants DEF Audio!Cast
  <2>5. 0 \in 0 .. c /\ 0 >= From(0) /\ c - 0 <= lostPackets
    BY <1>2, <2>1 DEF From
  <2>6. ~Clean(c, got, late)
    BY <2>1 DEF Clean
  <2>7. 0 <= AudioStart[g + 1] + SourceOf(g) - 2 /\ 0 < AudioStart[g + 1] /\ 0 < AudioStart[g]
    BY <1>3
  <2> HIDE DEF e
  <2>8. Begins(e, g, c, lostPackets, 0)
    BY <2>3, <2>4, <2>5, <2>6, <2>7 DEF Begins
  <2> QED BY <2>8 DEF e, b
<1>5. CASE c > 0 /\ Running(c)
  <2> DEFINE clean == Clean(c, got, late)
             before == c = 1 \/ Clean(c - 1, got, late)
  <2>0. PICK k \in 1 .. c : \E at \in PacketsOf(k) : \E p \in Nat :
          /\ Collecting(audio, heard, last, c, k, at, p)
          /\ Lags(audio, lostPackets, c, k, at, p)
          /\ Sound(audio, heard, got, c, k, at, p, clean, before)
    BY <1>5 DEF Running, Runs
  <2>1. PICK at \in PacketsOf(k), p \in Nat :
          /\ Collecting(audio, heard, last, c, k, at, p)
          /\ Lags(audio, lostPackets, c, k, at, p)
          /\ Sound(audio, heard, got, c, k, at, p, clean, before)
    BY <2>0
  <2>2. clean \in BOOLEAN /\ before \in BOOLEAN
    BY DEF Clean
  <2>3. c \in Gens /\ k \in Gens /\ k \in Nat /\ c \in Nat /\ k <= c
    BY <2>1, CollectingIs
  <2> HIDE DEF clean, before
  <2>4. PICK q \in Nat : Given(e, heard, got, lostPackets, c, k, q, clean, before)
    <3> DEFINE size == SourceOf(k)
               total == UnitsOf(k)
    <3>1. size = SourceOf(k) /\ total = UnitsOf(k)
      OBVIOUS
    <3> HIDE DEF size, total
    <3> QED BY <1>1, <2>1, <2>2, <3>1, FlushIs
  <2> HIDE DEF e
  <2>5. /\ IsReceiver(e.r) /\ IsHeard(e.h) /\ Strays(e.h) /\ heard.recent \subseteq e.h.recent /\ e.r.prev = Audio!Cast(q)
        /\ q <= AudioStart[k + 1] + SourceOf(k) - 2
        /\ \E h \in 0 .. c : q >= From(h) /\ c - h <= lostPackets
        /\ clean => q < AudioStart[c + 1]
    BY <2>4 DEF Given
  <2>6. clean /\ before /\ Cardinality(got \cap PacketsOf(c)) >= SourceOf(c) => Whole(c) \subseteq e.h.recent
    BY <2>4 DEF Given
  <2>7. k <= g /\ (g = c + 1 => k < g)
    BY <1>3, <2>3
  <2>8. q <= AudioStart[g + 1] + SourceOf(g) - 2 /\ (g = c + 1 => q < AudioStart[g + 1])
    BY <2>3, <2>5, <2>7, ReachIs
  <2>9. g = c + 1 /\ (c = 0 \/ Clean(c, got, late)) => q < AudioStart[g]
    BY <1>5, <2>3, <2>5 DEF clean
  <2>10. Begins(e, g, c, lostPackets, q)
    BY <2>5, <2>6, <2>8, <2>9 DEF Begins, clean, before
  <2> QED BY <2>10 DEF e, b
<1> QED BY <1>4, <1>5

(* A generation that is clean once the packet n of g has come was clean before.                       *)
LEMMA CleanWas ==
  ASSUME NEW g \in Gens, NEW n \in Nat, NEW stale \in BOOLEAN, NEW gt, NEW lt, NEW gt2, NEW lt2,
         gt2 = Recent(gt, g) \cup {n}, lt2 = RecentGens(lt, g) \cup (IF stale THEN {g} ELSE {}),
         NEW h \in Gens, h >= g - 2, h <= g, n # AudioStart[h], Clean(h, gt2, lt2)
  PROVE  Clean(h, gt, lt) /\ (h = g => ~stale)
<1>1. AudioStart[h] \in gt2 /\ h \notin lt2
  BY DEF Clean
<1>2. AudioStart[h] \in gt
  BY <1>1 DEF Recent
<1>3. h \notin lt
  BY <1>1 DEF RecentGens
<1>4. h = g => ~stale
  BY <1>1
<1> QED BY <1>2, <1>3, <1>4 DEF Clean

(* What was kept of a generation of the last three is what was had of it.                             *)
LEMMA RecentPackets ==
  ASSUME NEW g \in Gens, NEW n \in PacketsOf(g), NEW gt, NEW h \in Gens, h >= g - 2, h < g
  PROVE  (Recent(gt, g) \cup {n}) \cap PacketsOf(h) = gt \cap PacketsOf(h) /\ n \notin PacketsOf(h)
<1>1. n \notin PacketsOf(h)
  <2>1. SUFFICES ASSUME n \in PacketsOf(h) PROVE FALSE
    OBVIOUS
  <2>2. Audio!GenOf(n) = g /\ Audio!GenOf(n) = h
    BY <2>1, GenIs
  <2>3. g \in Nat /\ h \in Nat
    BY GenIsKnown
  <2> QED BY <2>2, <2>3
<1>2. \A x \in PacketsOf(h) : x \in Recent(gt, g) <=> x \in gt
  BY RecentIs
<1> QED BY <1>1, <1>2

(* What is known of the generation before goes on holding.                                       *)
LEMMA PastStays ==
  ASSUME NEW g \in Gens, NEW n \in PacketsOf(g), n # AudioStart[g], NEW stale \in BOOLEAN,
         NEW gt, NEW lt, NEW gt2, NEW lt2, NEW h, NEW h2,
         gt2 = Recent(gt, g) \cup {n}, lt2 = RecentGens(lt, g) \cup (IF stale THEN {g} ELSE {}),
         Past(h, gt, lt, g), h.recent \subseteq h2.recent
  PROVE  Past(h2, gt2, lt2, g)
<1>1. SUFFICES ASSUME g > 1, AudioStart[g] \in gt2, Clean(g - 1, gt2, lt2), g = 2 \/ Clean(g - 2, gt2, lt2),
                      Cardinality(gt2 \cap PacketsOf(g - 1)) >= SourceOf(g - 1)
               PROVE  Whole(g - 1) \subseteq h2.recent
  BY DEF Past
<1>2. Len(AudioLayouts) \in Nat /\ g \in Nat /\ n \in Nat
  BY AudioAssumption, GenIsKnown, GenIs
<1>3. g - 1 \in Gens /\ (g = 2 \/ g - 2 \in Gens)
  BY <1>1, <1>2 DEF Gens
<1>4. AudioStart[g] \in gt
  BY <1>1 DEF Recent
<1>5. ASSUME NEW f \in Gens, f >= g - 2, f < g, Clean(f, gt2, lt2) PROVE Clean(f, gt, lt)
  <2>1. n \notin PacketsOf(f)
    BY <1>5, RecentPackets
  <2>2. AudioStart[f] \in PacketsOf(f)
    BY <1>5, RecentIs
  <2>3. n # AudioStart[f]
    BY <2>1, <2>2
  <2>4. f <= g
    BY <1>2, <1>5, GenIsKnown
  <2> QED BY <1>2, <1>5, <2>3, <2>4, CleanWas
<1>6. Clean(g - 1, gt, lt) /\ (g = 2 \/ Clean(g - 2, gt, lt))
  <2>1. g - 1 >= g - 2 /\ g - 1 < g /\ g - 2 >= g - 2 /\ g - 2 < g
    BY <1>2
  <2> QED BY <1>1, <1>3, <1>5, <2>1
<1>7. gt2 \cap PacketsOf(g - 1) = gt \cap PacketsOf(g - 1)
  <2>1. g - 1 >= g - 2 /\ g - 1 < g
    BY <1>2
  <2> QED BY <1>3, <2>1, RecentPackets
<1>8. Whole(g - 1) \subseteq h.recent
  BY <1>1, <1>4, <1>6, <1>7 DEF Past
<1> QED BY <1>8

(* What the first packet of the next generation tells of the one it ends.                               *)
LEMMA PastBegins ==
  ASSUME NEW g \in Gens, NEW n, n = AudioStart[g], NEW stale \in BOOLEAN, NEW gt2, NEW lt2, NEW h2, NEW e, NEW c \in Nat, g = c + 1,
         gt2 = Recent(got, g) \cup {n}, lt2 = RecentGens(late, g) \cup (IF stale THEN {g} ELSE {}), NEW ls, NEW p,
         Begins(e, g, c, ls, p), e.h.recent \subseteq h2.recent
  PROVE  Past(h2, gt2, lt2, g) /\ (c = 0 \/ (c \in Gens /\ (Clean(c, gt2, lt2) => Clean(c, got, late))))
<1>1. Len(AudioLayouts) \in Nat /\ g \in Nat /\ n \in PacketsOf(g) /\ n \in Nat
  <2>1. g >= g - 2 /\ g \in Nat
    BY GenIsKnown
  <2>2. n \in PacketsOf(g)
    BY <2>1, RecentIs
  <2> QED BY <2>1, <2>2, AudioAssumption, GenIsKnown
<1>2. c = 0 \/ c \in Gens
  BY <1>1 DEF Gens
<1>3. ASSUME NEW f \in Gens, f >= g - 2, f < g, Clean(f, gt2, lt2) PROVE Clean(f, got, late)
  <2>1. n \notin PacketsOf(f)
    BY <1>1, <1>3, RecentPackets
  <2>2. AudioStart[f] \in PacketsOf(f)
    BY <1>3, RecentIs
  <2>3. n # AudioStart[f]
    BY <2>1, <2>2
  <2>4. f <= g
    BY <1>1, <1>3, GenIsKnown
  <2> QED BY <1>1, <1>3, <2>3, <2>4, CleanWas
<1>4. c \in Gens => (Clean(c, gt2, lt2) => Clean(c, got, late))
  <2>1. c >= g - 2 /\ c < g
    OBVIOUS
  <2> QED BY <1>3, <2>1
<1>5. Past(h2, gt2, lt2, g)
  <2>1. SUFFICES ASSUME g > 1, AudioStart[g] \in gt2, Clean(g - 1, gt2, lt2), g = 2 \/ Clean(g - 2, gt2, lt2),
                        Cardinality(gt2 \cap PacketsOf(g - 1)) >= SourceOf(g - 1)
                 PROVE  Whole(g - 1) \subseteq h2.recent
    BY DEF Past
  <2>2. g - 1 = c /\ g - 2 = c - 1 /\ c > 0 /\ c \in Gens
    BY <1>2, <2>1
  <2>3. Clean(c, got, late)
    BY <1>4, <2>1, <2>2
  <2>4. c = 1 \/ Clean(c - 1, got, late)
    <3>1. CASE g = 2
      BY <3>1
    <3>2. CASE g # 2
      <4>1. c - 1 \in Gens /\ c - 1 >= g - 2 /\ c - 1 < g
        BY <1>1, <2>2, <3>2 DEF Gens
      <4>2. Clean(c - 1, gt2, lt2)
        BY <2>1, <2>2, <3>2
      <4> QED BY <1>3, <4>1, <4>2
    <3> QED BY <3>1, <3>2
  <2>5. gt2 \cap PacketsOf(c) = got \cap PacketsOf(c)
    <3>1. c >= g - 2 /\ c < g
      OBVIOUS
    <3> QED BY <1>1, <2>2, <3>1, RecentPackets
  <2>6. Whole(c) \subseteq e.h.recent
    BY <2>1, <2>2, <2>3, <2>4, <2>5 DEF Begins
  <2> QED BY <2>2, <2>6
<1> QED BY <1>2, <1>4, <1>5

(* What is kept of what was heard is enough.                                                     *)
LEMMA RecentRuns ==
  ASSUME NEW r, NEW h, NEW ln, NEW ls, NEW gt, NEW lt, NEW g \in Gens, Runs(r, h, ln, ls, gt, lt, g)
  PROVE  Runs(r, [h EXCEPT !.recent = Recent(@, g)], ln, ls, gt, lt, g)
<1> DEFINE h2 == [h EXCEPT !.recent = Recent(@, g)]
           clean == Clean(g, gt, lt)
           before == g = 1 \/ Clean(g - 1, gt, lt)
<1>1. PICK k \in 1 .. g : \E at \in PacketsOf(k) : \E p \in Nat :
        Collecting(r, h, ln, g, k, at, p) /\ Lags(r, ls, g, k, at, p) /\ Sound(r, h, gt, g, k, at, p, clean, before)
  BY DEF Runs
<1>2. PICK at \in PacketsOf(k), p \in Nat :
        Collecting(r, h, ln, g, k, at, p) /\ Lags(r, ls, g, k, at, p) /\ Sound(r, h, gt, g, k, at, p, clean, before)
  BY <1>1
<1>3. IsHeard(h) /\ Strays(h)
  BY <1>2 DEF Collecting
<1>4. IsHeard(h2) /\ Strays(h2) /\ h2.recent = Recent(h.recent, g)
  BY <1>3 DEF IsHeard, Strays
<1> HIDE DEF h2, clean, before
<1>5. \A f \in Gens : f >= g - 2 => (Whole(f) \subseteq h.recent => Whole(f) \subseteq h2.recent)
  <2>1. SUFFICES ASSUME NEW f \in Gens, f >= g - 2, Whole(f) \subseteq h.recent PROVE Whole(f) \subseteq h2.recent
    OBVIOUS
  <2>2. (\A x \in PacketsOf(f) : x \in Recent(h.recent, g) <=> x \in h.recent) /\ Whole(f) \subseteq PacketsOf(f)
    BY <2>1, RecentIs
  <2> QED BY <1>4, <2>1, <2>2
<1>6. g \in Nat /\ Len(AudioLayouts) \in Nat
  BY GenIsKnown, AudioAssumption
<1>7. Collecting(r, h2, ln, g, k, at, p)
  BY <1>2, <1>4 DEF Collecting
<1>8. Sound(r, h2, gt, g, k, at, p, clean, before)
  <2>1. Whole(g) \subseteq h.recent => Whole(g) \subseteq h2.recent
    BY <1>5, <1>6
  <2> QED BY <1>2, <2>1 DEF Sound
<1>9. Past(h2, gt, lt, g)
  <2>1. Past(h, gt, lt, g)
    BY DEF Runs
  <2>2. g > 1 => (Whole(g - 1) \subseteq h.recent => Whole(g - 1) \subseteq h2.recent)
    <3>1. g > 1 => g - 1 \in Gens /\ g - 1 >= g - 2
      BY <1>6 DEF Gens
    <3> QED BY <1>5, <3>1
  <2> QED BY <2>1, <2>2 DEF Past
<1> QED BY <1>2, <1>7, <1>8, <1>9 DEF Runs, h2, clean, before

(* What is known of a generation is known of it when less of it is asked for.                            *)
LEMMA SoundWeakens ==
  ASSUME NEW r, NEW h, NEW gt, NEW gt2, NEW c, NEW k, NEW at, NEW p, NEW clean \in BOOLEAN, NEW before \in BOOLEAN,
         NEW clean2 \in BOOLEAN, NEW before2 \in BOOLEAN, Sound(r, h, gt, c, k, at, p, clean, before),
         clean2 => clean, clean2 /\ before2 => before,
         \A u \in 0 .. (UnitsOf(c) - 1) : AudioStart[c] + u \in gt2 <=> AudioStart[c] + u \in gt
  PROVE  Sound(r, h, gt2, c, k, at, p, clean2, before2)
<1> DEFINE rest == IF r.emitted THEN Whole(c) \subseteq h.recent ELSE p < AudioStart[c]
           here(S) == k = c /\ at = AudioStart[c] /\ p < AudioStart[c + 1]
                      /\ \A u \in 0 .. (UnitsOf(c) - 1) :
                           r.slots[u] = IF AudioStart[c] + u \in S THEN AudioStart[c] + u ELSE Audio!Nothing
<1>1. (clean => here(gt)) /\ (clean /\ before => rest)
  BY DEF Sound
<1>2. here(gt) => here(gt2)
  OBVIOUS
<1>3. Sound(r, h, gt2, c, k, at, p, clean2, before2) <=> (clean2 => here(gt2)) /\ (clean2 /\ before2 => rest)
  BY DEF Sound
<1> HIDE DEF here, rest
<1> QED BY <1>1, <1>2, <1>3

(* A packet that starts a generation is the first of one, or what came of it does not make it clean.           *)
LEMMA StartsFirst ==
  ASSUME NEW g \in Gens, NEW n \in PacketsOf(g), n # AudioStart[g], Fresh(g) \/ Running(g), n \notin got,
         NEW stale \in BOOLEAN, NEW gt2, NEW lt2,
         gt2 = Recent(got, g) \cup {n}, lt2 = RecentGens(late, g) \cup (IF stale THEN {g} ELSE {}),
         Clean(g, gt2, lt2)
  PROVE  ~Audio!StartsAnew(audio, AudioLayouts[g], n - AudioStart[g], stale)
<1>1. g \in Nat /\ n \in Nat /\ n - AudioStart[g] \in 0 .. (UnitsOf(g) - 1)
  BY GenIsKnown, GenIs
<1>2. Clean(g, got, late) /\ ~stale
  <2>1. g >= g - 2 /\ g <= g
    BY <1>1
  <2> QED BY <1>1, <2>1, CleanWas
<1>3. Running(g)
  BY <1>2 DEF Fresh, Clean
<1>4. PICK k \in 1 .. g : \E at \in PacketsOf(k) : \E p \in Nat :
        /\ Collecting(audio, heard, last, g, k, at, p)
        /\ Sound(audio, heard, got, g, k, at, p, Clean(g, got, late), g = 1 \/ Clean(g - 1, got, late))
  BY <1>3 DEF Running, Runs
<1>5. PICK at \in PacketsOf(k), p \in Nat :
        /\ Collecting(audio, heard, last, g, k, at, p)
        /\ Sound(audio, heard, got, g, k, at, p, Clean(g, got, late), g = 1 \/ Clean(g - 1, got, late))
  BY <1>4
<1> DEFINE size == SourceOf(g)
           total == UnitsOf(g)
           unit == n - AudioStart[g]
<1>6. k = g
  BY <1>2, <1>5 DEF Sound
<1>7. audio.slots[unit] = Audio!Nothing
  <2>1. \A u \in 0 .. (UnitsOf(g) - 1) :
          audio.slots[u] = IF AudioStart[g] + u \in got THEN AudioStart[g] + u ELSE Audio!Nothing
    BY <1>2, <1>5 DEF Sound
  <2>2. AudioStart[g] \in Nat /\ AudioStart[g] + unit = n
    BY <1>1, GenIsKnown
  <2> QED BY <1>1, <2>1, <2>2
<1>8. /\ audio.flushed = FALSE /\ audio.layout = AudioLayouts[g]
      /\ audio.source = Cardinality(Had(audio, 0, size - 1)) /\ audio.fec = Cardinality(Had(audio, size, total - 1))
  BY <1>5, <1>6 DEF Collecting
<1>9. size \in Nat /\ total \in Nat /\ size <= total /\ Audio!Total(AudioLayouts[g]) = total /\ AudioStart[g] \in Nat
  BY GenIsKnown
<1>10. unit \in 0 .. (total - 1) /\ unit # 0
  BY <1>1, <1>9
<1> HIDE DEF size, total, unit
<1>11. audio.source + audio.fec < total
  BY <1>7, <1>8, <1>9, <1>10, NotFull
<1>12. audio.source \in Nat /\ audio.fec \in Nat
  <2>1. 0 \in Int /\ size - 1 \in Int /\ 0 <= (size - 1) + 1
    BY <1>9
  <2>2. Cardinality(Had(audio, 0, size - 1)) \in Nat
    BY <2>1, HadIsFinite
  <2> DEFINE hi == total - 1
  <2>3. size \in Int /\ hi \in Int /\ size <= hi + 1
    BY <1>9
  <2> HIDE DEF hi
  <2>4. Cardinality(Had(audio, size, hi)) \in Nat
    BY <2>3, HadIsFinite
  <2> QED BY <1>8, <2>2, <2>4 DEF hi
<1>13. ~(audio.source + audio.fec >= Audio!Total(audio.layout)) /\ ~(unit >= Audio!Total(audio.layout))
  BY <1>8, <1>9, <1>10, <1>11, <1>12
<1>14. ~Audio!StartsAnew(audio, AudioLayouts[g], unit, stale)
  BY <1>2, <1>8, <1>10, <1>13 DEF Audio!StartsAnew
<1> QED BY <1>14 DEF unit

(* A packet that starts a generation.                                                            *)
LEMMA BeginsIs ==
  ASSUME NumbersSuffice, service = "cloud", haptics \in BOOLEAN, AudioLosses \in Nat, lostPackets \in 0 .. AudioLosses,
         NEW c \in 0 .. Len(AudioLayouts), NEW g \in Gens, NEW n \in PacketsOf(g), got \subseteq 1 .. (n - 1),
         (g = c /\ n # AudioStart[g]) \/ (g = c + 1 /\ n = AudioStart[g]),
         Fresh(c) \/ (c > 0 /\ Running(c)), NEW stale \in BOOLEAN, NEW gt2, NEW lt2,
         gt2 = Recent(got, g) \cup {n}, lt2 = RecentGens(late, g) \cup (IF stale THEN {g} ELSE {}),
         Audio!StartsAnew(audio, AudioLayouts[g], n - AudioStart[g], stale)
  PROVE  LET s == Audio!Store(Audio!Alloc(Audio!Flush(Audio!Both(audio, heard)), n, AudioLayouts[g]), n, n - AudioStart[g]) IN
         Runs(s.r, s.h, n, lostPackets, gt2, lt2, g)
<1> DEFINE e == Audio!Flush(Audio!Both(audio, heard))
           a == Audio!Alloc(e, n, AudioLayouts[g])
           unit == n - AudioStart[g]
           s == Audio!Store(a, n, unit)
           clean == Clean(g, gt2, lt2)
           before == g = 1 \/ Clean(g - 1, gt2, lt2)
           gt1 == Recent(got, g)
<1>1. /\ Len(AudioLayouts) \in Nat /\ g \in Nat /\ n \in Nat /\ AudioStart[g] \in Nat /\ UnitsOf(g) \in Nat /\ c \in Nat
      /\ unit \in 0 .. (UnitsOf(g) - 1) /\ AudioStart[g] + unit = n
  <2>1. Len(AudioLayouts) \in Nat /\ g \in Nat /\ AudioStart[g] \in Nat /\ UnitsOf(g) \in Nat
    BY AudioAssumption, GenIsKnown
  <2>2. n \in Nat /\ unit \in 0 .. (UnitsOf(g) - 1)
    BY GenIs
  <2>3. c \in Nat
    BY <2>1
  <2>4. AudioStart[g] + unit = n
    BY <2>1, <2>2
  <2> HIDE DEF unit
  <2> QED BY <2>1, <2>2, <2>3, <2>4
<1>2. clean \in BOOLEAN /\ before \in BOOLEAN
  BY DEF Clean
<1>3. n \notin got /\ n \notin gt1 /\ gt2 = gt1 \cup {n}
  BY <1>1 DEF Recent
<1>4. PICK p \in Nat : Begins(e, g, c, lostPackets, p)
  <2>1. g = c \/ g = c + 1
    OBVIOUS
  <2> HIDE DEF e
  <2> QED BY <2>1, FlushBegins DEF e
<1>5. clean => g = c + 1 /\ n = AudioStart[g]
  <2>1. SUFFICES ASSUME clean, g = c, n # AudioStart[g] PROVE FALSE
    OBVIOUS
  <2>2. Fresh(g) \/ Running(g)
    BY <2>1
  <2> QED BY <1>3, <2>1, <2>2, StartsFirst
<1> HIDE DEF e, unit
<1>6. /\ Collecting(a.r, a.h, n, g, g, n, p) /\ a.h = e.h /\ a.r.emitted = FALSE
      /\ \A u \in 0 .. (UnitsOf(g) - 1) : a.r.slots[u] = Audio!Nothing
  <2>1. IsReceiver(e.r) /\ IsHeard(e.h) /\ Strays(e.h) /\ e.r.prev = Audio!Cast(p) /\ p <= AudioStart[g + 1] + SourceOf(g) - 2
    BY <1>4 DEF Begins
  <2> QED BY <2>1, AllocIs
<1> HIDE DEF a
<1>7. n = AudioStart[g] /\ g = c + 1 =>
        ~(e.h.recent \subseteq s.h.recent) \/
          (Past(s.h, gt2, lt2, g) /\ (c = 0 \/ (c \in Gens /\ (Clean(c, gt2, lt2) => Clean(c, got, late)))))
  BY <1>1, <1>4, PastBegins
<1>8. Sound(a.r, a.h, gt1, g, g, n, p, clean, before)
  <2>1. ASSUME clean PROVE /\ n = AudioStart[g] /\ p < AudioStart[g + 1]
                           /\ \A u \in 0 .. (UnitsOf(g) - 1) :
                                a.r.slots[u] = IF AudioStart[g] + u \in gt1 THEN AudioStart[g] + u ELSE Audio!Nothing
    <3>1. n = AudioStart[g] /\ g = c + 1
      BY <1>5, <2>1
    <3>2. p < AudioStart[g + 1]
      BY <1>4, <3>1 DEF Begins
    <3>3. \A u \in 0 .. (UnitsOf(g) - 1) : AudioStart[g] + u \notin gt1
      <4>1. \A x \in gt1 : x < n /\ x \in Nat
        BY <1>1 DEF Recent
      <4> HIDE DEF gt1
      <4> QED BY <1>1, <3>1, <4>1
    <3> QED BY <1>6, <3>1, <3>2, <3>3
  <2>2. ASSUME clean, before PROVE p < AudioStart[g]
    <3>1. n = AudioStart[g] /\ g = c + 1
      BY <1>5, <2>2
    <3>2. c = 0 \/ Clean(c, got, late)
      <4>1. CASE c = 0
        BY <4>1
      <4>2. CASE c # 0
        <5>1. g # 1 /\ g - 1 = c /\ c \in Gens /\ c < g /\ c >= g - 2 /\ c <= g
          BY <1>1, <3>1, <4>2 DEF Gens
        <5>2. Clean(c, gt2, lt2)
          BY <2>2, <5>1
        <5>3. n # AudioStart[c]
          <6>1. n \notin PacketsOf(c) /\ AudioStart[c] \in PacketsOf(c)
            <7>1. n \notin PacketsOf(c)
              BY <5>1, RecentPackets
            <7>2. AudioStart[c] \in PacketsOf(c)
              BY <5>1, RecentIs
            <7> QED BY <7>1, <7>2
          <6> QED BY <6>1
        <5>4. n \in Nat /\ c \in Gens /\ c >= g - 2 /\ c <= g
          BY <1>1, <5>1
        <5>5. Clean(c, got, late)
          BY <5>2, <5>3, <5>4, CleanWas
        <5> QED BY <5>5
      <4> QED BY <4>1, <4>2
    <3> QED BY <1>4, <3>1, <3>2 DEF Begins
  <2> HIDE DEF clean, before, gt1
  <2> QED BY <1>6, <2>1, <2>2 DEF Sound
<1>9. \/ Lags(a.r, lostPackets, g, g, n, p)
      \/ /\ ~a.r.emitted /\ n = n /\ n = AudioStart[g] /\ a.r.slots[0] = Audio!Nothing /\ g - g <= lostPackets
         /\ \E h \in 0 .. (g - 1) : p >= From(h) /\ g - h <= lostPackets + 1
  <2>1. PICK h \in 0 .. c : p >= From(h) /\ c - h <= lostPackets
    BY <1>4 DEF Begins
  <2>2. CASE g = c
    BY <2>1, <2>2 DEF Lags
  <2>3. CASE g = c + 1 /\ n = AudioStart[g]
    <3>1. h \in 0 .. (g - 1) /\ g - h <= lostPackets + 1 /\ g - g <= lostPackets
      BY <1>1, <2>1, <2>3
    <3>2. a.r.slots[0] = Audio!Nothing
      <4>1. 0 \in 0 .. (UnitsOf(g) - 1)
        BY <1>1
      <4> QED BY <1>6, <4>1
    <3> QED BY <1>6, <2>1, <2>3, <3>1, <3>2
  <2> QED BY <2>2, <2>3
<1>10. /\ a.h.recent \subseteq s.h.recent
       /\ \E q \in Nat : /\ Collecting(s.r, s.h, n, g, g, n, q) /\ Lags(s.r, lostPackets, g, g, n, q)
                         /\ Sound(s.r, s.h, gt1 \cup {n}, g, g, n, q, clean, before)
  <2> DEFINE size == SourceOf(g)
             total == UnitsOf(g)
  <2>1. size = SourceOf(g) /\ total = UnitsOf(g) /\ unit \in 0 .. (total - 1) /\ unit = n - AudioStart[g]
    BY <1>1 DEF unit
  <2> HIDE DEF size, total, clean, before, gt1
  <2>3. Collecting(a.r, a.h, n, g, g, n, p) /\ n \notin gt1
    BY <1>3, <1>6
  <2>4. Reaches(a.r, lostPackets, n, g, g, n, p)
    BY <1>9 DEF Reaches
  <2>5. Stored(s, a, n, lostPackets, gt1, g, g, n, clean, before)
    <3>1. clean \in BOOLEAN /\ before \in BOOLEAN
      BY <1>2
    <3>2. Sound(a.r, a.h, gt1, g, g, n, p, clean, before)
      BY <1>8
    <3>3. Stored(Audio!Store(a, n, unit), a, n, lostPackets, gt1, g, g, n, clean, before)
      BY <2>1, <2>3, <2>4, <3>1, <3>2, StoreIs, ZenonT(60)
    <3> QED BY <3>3
  <2> HIDE DEF s
  <2> QED BY <2>5 DEF Stored
<1> HIDE DEF s
<1>11. e.h.recent \subseteq s.h.recent
  BY <1>6, <1>10
<1>12. Past(s.h, gt2, lt2, g)
  <2>1. CASE n = AudioStart[g] /\ g = c + 1
    BY <1>7, <1>11, <2>1
  <2>2. CASE g = c /\ n # AudioStart[g]
    <3>1. Past(heard, got, late, g)
      <4>1. CASE Fresh(c)
        BY <4>1 DEF Fresh, Past
      <4>2. CASE Running(c)
        BY <2>2, <4>2 DEF Running, Runs
      <4> QED BY <4>1, <4>2
    <3>2. heard.recent \subseteq s.h.recent
      BY <1>4, <1>11 DEF Begins
    <3> QED BY <2>2, <3>1, <3>2, PastStays
  <2> QED BY <2>1, <2>2
<1>13. g \in 1 .. g
  BY <1>1 DEF Gens
<1> QED BY <1>3, <1>10, <1>12, <1>13 DEF Runs, clean, before, s, a, e, unit

(* A packet of the generation that is collected.                                                  *)
LEMMA GoesOn ==
  ASSUME NumbersSuffice, service = "cloud", haptics \in BOOLEAN, AudioLosses \in Nat, lostPackets \in 0 .. AudioLosses,
         NEW c \in 0 .. Len(AudioLayouts), NEW g \in Gens, NEW n \in PacketsOf(g), got \subseteq 1 .. (n - 1), last = n - 1,
         (g = c /\ n # AudioStart[g]) \/ (g = c + 1 /\ n = AudioStart[g]),
         Fresh(c) \/ (c > 0 /\ Running(c)), NEW stale \in BOOLEAN, NEW gt2, NEW lt2,
         gt2 = Recent(got, g) \cup {n}, lt2 = RecentGens(late, g) \cup (IF stale THEN {g} ELSE {}),
         ~Audio!StartsAnew(audio, AudioLayouts[g], n - AudioStart[g], stale)
  PROVE  LET s == Audio!Store(Audio!Both(audio, heard), n, n - AudioStart[g]) IN Runs(s.r, s.h, n, lostPackets, gt2, lt2, g)
<1> DEFINE a == Audio!Both(audio, heard)
           unit == n - AudioStart[g]
           s == Audio!Store(a, n, unit)
           clean == Clean(g, gt2, lt2)
           before == g = 1 \/ Clean(g - 1, gt2, lt2)
           wasClean == Clean(g, got, late)
           wasBefore == g = 1 \/ Clean(g - 1, got, late)
           gt1 == Recent(got, g)
<1>1. /\ Len(AudioLayouts) \in Nat /\ g \in Nat /\ n \in Nat /\ AudioStart[g] \in Nat /\ UnitsOf(g) \in Nat /\ c \in Nat
      /\ unit \in 0 .. (UnitsOf(g) - 1) /\ AudioStart[g] + unit = n
  <2>1. Len(AudioLayouts) \in Nat /\ g \in Nat /\ AudioStart[g] \in Nat /\ UnitsOf(g) \in Nat
    BY AudioAssumption, GenIsKnown
  <2>2. n \in Nat /\ unit \in 0 .. (UnitsOf(g) - 1)
    BY GenIs
  <2>3. c \in Nat
    BY <2>1
  <2>4. AudioStart[g] + unit = n
    BY <2>1, <2>2
  <2> HIDE DEF unit
  <2> QED BY <2>1, <2>2, <2>3, <2>4
<1>2. /\ clean \in BOOLEAN /\ before \in BOOLEAN /\ wasClean \in BOOLEAN /\ wasBefore \in BOOLEAN
  BY DEF Clean
<1>3. n \notin got /\ n \notin gt1 /\ gt2 = gt1 \cup {n}
  BY <1>1 DEF Recent
<1>4. a.r = audio /\ a.h = heard
  BY DEF Audio!Both
<1> HIDE DEF a
<1>5. ~audio.flushed /\ unit # 0 /\ unit < Audio!Total(audio.layout)
  <2>1. ~audio.flushed /\ unit # 0 /\ ~(unit >= Audio!Total(audio.layout)) /\ audio.layout = AudioLayouts[g]
    BY DEF Audio!StartsAnew
  <2>2. Audio!Total(audio.layout) = UnitsOf(g)
    BY <2>1, GenIsKnown
  <2> QED BY <1>1, <2>1, <2>2
<1>6. g = c /\ n # AudioStart[g] /\ Running(g)
  <2>1. n # AudioStart[g]
    BY <1>1, <1>5
  <2>2. ~Fresh(c)
    BY <1>5 DEF Fresh, Audio!Receiver
  <2> QED BY <2>1, <2>2
<1>7. PICK k \in 1 .. g : \E at \in PacketsOf(k) : \E p \in Nat :
        /\ Collecting(audio, heard, last, g, k, at, p) /\ Lags(audio, lostPackets, g, k, at, p)
        /\ Sound(audio, heard, got, g, k, at, p, wasClean, wasBefore)
  BY <1>6 DEF Running, Runs
<1>8. PICK at \in PacketsOf(k), p \in Nat :
        /\ Collecting(audio, heard, last, g, k, at, p) /\ Lags(audio, lostPackets, g, k, at, p)
        /\ Sound(audio, heard, got, g, k, at, p, wasClean, wasBefore)
  BY <1>7
<1>9. Audio!Total(audio.layout) = UnitsOf(k) /\ UnitsOf(k) \in Nat /\ k \in Gens /\ at \in Nat
  <2>1. audio.layout = AudioLayouts[k]
    BY <1>8 DEF Collecting
  <2> QED BY <1>8, <2>1, CollectingIs
<1>10. unit \in 0 .. (UnitsOf(k) - 1)
  BY <1>1, <1>5, <1>9
<1>11. Collecting(audio, heard, n, g, k, at, p)
  <2>1. at <= last
    BY <1>8 DEF Collecting
  <2>2. at <= n
    BY <1>1, <1>9, <2>1
  <2> QED BY <1>8, <2>2 DEF Collecting
<1>12. (clean => wasClean) /\ (clean /\ before => wasBefore)
  <2>1. clean => wasClean
    <3>1. g >= g - 2 /\ g <= g
      BY <1>1
    <3> QED BY <1>1, <1>6, <3>1, CleanWas
  <2>2. ASSUME g # 1, Clean(g - 1, gt2, lt2) PROVE Clean(g - 1, got, late)
    <3>1. g - 1 \in Gens /\ g - 1 >= g - 2 /\ g - 1 <= g /\ g - 1 < g
      BY <1>1, <2>2 DEF Gens
    <3>2. n # AudioStart[g - 1]
      <4>1. n \notin PacketsOf(g - 1)
        BY <3>1, RecentPackets
      <4>2. AudioStart[g - 1] \in PacketsOf(g - 1)
        BY <3>1, RecentIs
      <4> QED BY <4>1, <4>2
    <3>3. n \in Nat
      BY <1>1
    <3> QED BY <2>2, <3>1, <3>2, <3>3, CleanWas
  <2> QED BY <2>1, <2>2
<1>13. \A u \in 0 .. (UnitsOf(g) - 1) : AudioStart[g] + u \in gt1 <=> AudioStart[g] + u \in got
  <2>1. \A x \in PacketsOf(g) : x \in gt1 <=> x \in got
    <3>1. g >= g - 2
      BY <1>1
    <3> QED BY <3>1, RecentIs
  <2>2. \A u \in 0 .. (UnitsOf(g) - 1) : AudioStart[g] + u \in PacketsOf(g)
    <3>1. AudioStart[g + 1] = AudioStart[g] + UnitsOf(g) /\ AudioStart[g] \in Nat /\ UnitsOf(g) \in Nat
      BY GenIsKnown
    <3> QED BY <3>1 DEF PacketsOf
  <2> QED BY <2>1, <2>2
<1> HIDE DEF clean, before, wasClean, wasBefore, gt1, unit
<1>14. Sound(audio, heard, gt1, g, k, at, p, clean, before)
  BY <1>2, <1>8, <1>12, <1>13, SoundWeakens
<1>15. Stored(s, a, n, lostPackets, gt1, g, k, at, clean, before)
  <2> DEFINE size == SourceOf(k)
             total == UnitsOf(k)
  <2>1. size = SourceOf(k) /\ total = UnitsOf(k) /\ unit \in 0 .. (total - 1) /\ unit = n - AudioStart[g]
    BY <1>10 DEF unit
  <2>2. Collecting(a.r, a.h, n, g, k, at, p) /\ n \notin gt1
    BY <1>3, <1>4, <1>11
  <2>3. Reaches(a.r, lostPackets, n, g, k, at, p)
    BY <1>4, <1>8 DEF Reaches
  <2>4. Sound(a.r, a.h, gt1, g, k, at, p, clean, before)
    BY <1>4, <1>14
  <2>5. clean \in BOOLEAN /\ before \in BOOLEAN
    BY <1>2
  <2> HIDE DEF size, total
  <2> QED BY <2>1, <2>2, <2>3, <2>4, <2>5, StoreIs, ZenonT(60)
<1> HIDE DEF s
<1>16. /\ heard.recent \subseteq s.h.recent
       /\ \E q \in Nat : /\ Collecting(s.r, s.h, n, g, k, at, q) /\ Lags(s.r, lostPackets, g, k, at, q)
                         /\ Sound(s.r, s.h, gt2, g, k, at, q, clean, before)
  BY <1>3, <1>4, <1>15 DEF Stored
<1>17. Past(s.h, gt2, lt2, g)
  <2>1. Past(heard, got, late, g)
    BY <1>6 DEF Running, Runs
  <2> QED BY <1>6, <1>16, <2>1, PastStays
<1>18. Runs(s.r, s.h, n, lostPackets, gt2, lt2, g)
  BY <1>16, <1>17 DEF Runs, clean, before
<1> QED BY <1>18 DEF s, a, unit

(* The generations after a step.                                                               *)
LEMMA RunsAfter ==
  ASSUME NEW g, UNCHANGED <<service, haptics>>, Runs(audio', heard', last', lostPackets', got', late', g)
  PROVE  Running(g)'
<1>1. /\ Past(heard', got', late', g)
      /\ \E k \in 1 .. g : \E at \in PacketsOf(k) : \E p \in Nat :
           /\ Collecting(audio', heard', last', g, k, at, p)
           /\ Lags(audio', lostPackets', g, k, at, p)
           /\ Sound(audio', heard', got', g, k, at, p, Clean(g, got', late'), g = 1 \/ Clean(g - 1, got', late'))
  BY DEF Runs
<1>2. Past(heard, got, late, g)'
  BY <1>1 DEF Past, Clean
<1>3. \E k \in 1 .. g : \E at \in PacketsOf(k) : \E p \in Nat :
        /\ Collecting(audio, heard, last, g, k, at, p)'
        /\ Lags(audio, lostPackets, g, k, at, p)'
        /\ Sound(audio, heard, got, g, k, at, p, Clean(g, got, late), g = 1 \/ Clean(g - 1, got, late))'
  <2>1. PICK k \in 1 .. g : \E at \in PacketsOf(k) : \E p \in Nat :
          /\ Collecting(audio', heard', last', g, k, at, p)
          /\ Lags(audio', lostPackets', g, k, at, p)
          /\ Sound(audio', heard', got', g, k, at, p, Clean(g, got', late'), g = 1 \/ Clean(g - 1, got', late'))
    BY <1>1
  <2>2. PICK at \in PacketsOf(k), p \in Nat :
          /\ Collecting(audio', heard', last', g, k, at, p)
          /\ Lags(audio', lostPackets', g, k, at, p)
          /\ Sound(audio', heard', got', g, k, at, p, Clean(g, got', late'), g = 1 \/ Clean(g - 1, got', late'))
    BY <2>1
  <2>3. Collecting(audio, heard, last, g, k, at, p)'
    BY <2>2 DEF Collecting, IsReceiver, IsHeard, Strays, Had
  <2>4. Lags(audio, lostPackets, g, k, at, p)'
    BY <2>2 DEF Lags
  <2>5. Sound(audio, heard, got, g, k, at, p, Clean(g, got, late), g = 1 \/ Clean(g - 1, got, late))'
    BY <2>2 DEF Sound, Clean
  <2> QED BY <2>3, <2>4, <2>5
<1> QED BY <1>2, <1>3 DEF Running, Runs

(* A packet is lost.                                                                          *)
LEMMA LossKeeps ==
  ASSUME NEW c \in 0 .. Len(AudioLayouts), NEW g \in Gens, NEW n \in PacketsOf(g), last \in Nat, n = last + 1, got \subseteq 1 .. last,
         (g = c /\ n # AudioStart[g]) \/ (g = c + 1 /\ n = AudioStart[g]), NEW ls \in Nat, ls = lostPackets + 1, lostPackets \in Nat,
         c > 0, Running(c)
  PROVE  Runs(audio, heard, n, ls, got, late, g)
<1>1. Len(AudioLayouts) \in Nat /\ g \in Nat /\ c \in Gens /\ c \in Nat
  <2>1. Len(AudioLayouts) \in Nat /\ g \in Nat
    BY GenIsKnown
  <2> QED BY <2>1 DEF Gens
<1>2. PICK k \in 1 .. c : \E at \in PacketsOf(k) : \E p \in Nat :
        /\ Collecting(audio, heard, last, c, k, at, p) /\ Lags(audio, lostPackets, c, k, at, p)
        /\ Sound(audio, heard, got, c, k, at, p, Clean(c, got, late), c = 1 \/ Clean(c - 1, got, late))
  BY DEF Running, Runs
<1>3. PICK at \in PacketsOf(k), p \in Nat :
        /\ Collecting(audio, heard, last, c, k, at, p) /\ Lags(audio, lostPackets, c, k, at, p)
        /\ Sound(audio, heard, got, c, k, at, p, Clean(c, got, late), c = 1 \/ Clean(c - 1, got, late))
  BY <1>2
<1>4. k \in 1 .. g /\ k \in Nat /\ at \in Nat /\ at <= n
  <2>1. at <= last /\ at \in Nat
    BY <1>3, CollectingIs DEF Collecting
  <2> QED BY <1>1, <2>1
<1>5. Collecting(audio, heard, n, g, k, at, p)
  BY <1>3, <1>4 DEF Collecting
<1>6. Lags(audio, ls, g, k, at, p)
  <2>1. ASSUME NEW h \in 0 .. c, p >= From(h), c - h <= lostPackets PROVE h \in 0 .. g /\ g - h <= ls
    BY <1>1, <2>1
  <2>2. ASSUME NEW h \in 0 .. (k - 1), k - h <= lostPackets + 1 PROVE k - h <= ls + 1
    BY <1>4, <2>2
  <2>3. c - k <= lostPackets => g - k <= ls
    BY <1>1, <1>4
  <2> QED BY <1>3, <2>1, <2>2, <2>3 DEF Lags
<1>7. g = c + 1 => AudioStart[g] \notin got
  BY <1>1
<1>8. Sound(audio, heard, got, g, k, at, p, Clean(g, got, late), g = 1 \/ Clean(g - 1, got, late))
  <2>1. CASE g = c
    BY <1>3, <2>1
  <2>2. CASE g = c + 1
    <3>1. ~Clean(g, got, late)
      BY <1>7, <2>2 DEF Clean
    <3> QED BY <3>1 DEF Sound
  <2> QED BY <2>1, <2>2
<1>9. Past(heard, got, late, g)
  <2>1. CASE g = c
    BY <2>1 DEF Running, Runs
  <2>2. CASE g = c + 1
    BY <1>7, <2>2 DEF Past
  <2> QED BY <2>1, <2>2
<1> QED BY <1>4, <1>5, <1>6, <1>8, <1>9, <1>3 DEF Runs

LEMMA CloudKeeps ==
  ASSUME NumbersSuffice, haptics \in BOOLEAN, CloudInv, Audio!CloudPacket
  PROVE  CloudInv'
<1> DEFINE n == last + 1
<1>1. PICK c \in 0 .. Len(AudioLayouts) : (IF c = 0 THEN last = 0 ELSE last \in PacketsOf(c)) /\ (Fresh(c) \/ (c > 0 /\ Running(c)))
  BY DEF CloudInv
<1>2. lostPackets \in 0 .. AudioLosses /\ last \in Nat /\ got \subseteq 1 .. last /\ AudioLosses \in Nat /\ Len(AudioLayouts) \in Nat
  BY AudioAssumption DEF CloudInv
<1>3. service = "cloud" /\ last < AudioStart[Len(AudioLayouts) + 1] - 1 /\ last' = n /\ UNCHANGED <<service, haptics>>
  BY DEF Audio!CloudPacket
<1>4. PICK g \in Gens : /\ n \in PacketsOf(g) /\ Audio!GenOf(n) = g
                        /\ \/ g = c /\ n > AudioStart[g]
                           \/ g = c + 1 /\ n = AudioStart[g]
  BY <1>1, <1>2, <1>3, NextIs
<1>5. n \in Nat /\ g \in Nat /\ c \in Nat /\ AudioStart[g] \in Nat /\ n - 1 = last
  BY <1>2, <1>4, GenIsKnown
<1>6. (g = c /\ n # AudioStart[g]) \/ (g = c + 1 /\ n = AudioStart[g])
  BY <1>4, <1>5
<1>7. g \in 0 .. Len(AudioLayouts) /\ g > 0
  BY <1>2, <1>5 DEF Gens
<1> HIDE DEF n
<1>8. SUFFICES lostPackets' \in 0 .. AudioLosses /\ got' \subseteq 1 .. n /\ (Fresh(g)' \/ Running(g)')
  <2>1. (IF g = 0 THEN last = 0 ELSE last \in PacketsOf(g))'
    BY <1>3, <1>4, <1>7 DEF PacketsOf
  <2> QED BY <1>3, <1>5, <1>7, <2>1 DEF CloudInv
<1>9. CASE lostPackets < AudioLosses /\ lostPackets' = lostPackets + 1 /\ UNCHANGED <<audio, heard, got, late>>
  <2>1. lostPackets' \in 0 .. AudioLosses /\ got' \subseteq 1 .. n
    BY <1>2, <1>5, <1>9
  <2>2. CASE Fresh(c)
    <3>1. Fresh(g)'
      BY <1>2, <1>5, <1>6, <1>9, <2>2 DEF Fresh, Audio!Receiver, Audio!Silence
    <3> QED BY <2>1, <3>1
  <2>3. CASE c > 0 /\ Running(c)
    <3> DEFINE ls == lostPackets + 1
    <3>1. ls \in Nat /\ lostPackets \in Nat /\ n = last + 1
      BY <1>2 DEF n
    <3> HIDE DEF ls
    <3>2. Runs(audio, heard, n, ls, got, late, g)
      BY <1>2, <1>4, <1>6, <2>3, <3>1, LossKeeps DEF ls
    <3>3. Runs(audio', heard', last', lostPackets', got', late', g)
      BY <1>3, <1>9, <3>2 DEF ls
    <3>4. Running(g)'
      BY <1>3, <3>3, RunsAfter
    <3> QED BY <2>1, <3>4
  <2> QED BY <1>1, <2>2, <2>3
<1>10. CASE \E stale \in IF audio.flushed THEN {FALSE} ELSE BOOLEAN :
              /\ LET b == Audio!PutPacket(Audio!Both(audio, heard), n, AudioLayouts[g], n - AudioStart[g], stale)
                 IN audio' = b.r /\ heard' = [b.h EXCEPT !.recent = Recent(@, g)]
              /\ got' = Recent(got, g) \cup {n}
              /\ late' = RecentGens(late, g) \cup (IF stale THEN {g} ELSE {})
              /\ UNCHANGED lostPackets
  <2>1. PICK stale \in BOOLEAN :
          /\ LET b == Audio!PutPacket(Audio!Both(audio, heard), n, AudioLayouts[g], n - AudioStart[g], stale)
             IN audio' = b.r /\ heard' = [b.h EXCEPT !.recent = Recent(@, g)]
          /\ got' = Recent(got, g) \cup {n}
          /\ late' = RecentGens(late, g) \cup (IF stale THEN {g} ELSE {})
          /\ UNCHANGED lostPackets
    BY <1>10
  <2> DEFINE a == Audio!Both(audio, heard)
             unit == n - AudioStart[g]
             anew == Audio!StartsAnew(audio, AudioLayouts[g], unit, stale)
             b == Audio!Store(IF anew THEN Audio!Alloc(Audio!Flush(a), n, AudioLayouts[g]) ELSE a, n, unit)
             gt2 == Recent(got, g) \cup {n}
             lt2 == RecentGens(late, g) \cup (IF stale THEN {g} ELSE {})
  <2>2. a.r = audio
    BY DEF Audio!Both
  <2>3. audio' = b.r /\ heard' = [b.h EXCEPT !.recent = Recent(@, g)]
    BY <2>1, <2>2 DEF Audio!PutPacket
  <2>4. gt2 = Recent(got, g) \cup {n} /\ lt2 = RecentGens(late, g) \cup (IF stale THEN {g} ELSE {}) /\ got \subseteq 1 .. (n - 1)
    BY <1>2, <1>5
  <2> HIDE DEF gt2, lt2
  <2>5. Runs(b.r, b.h, n, lostPackets, gt2, lt2, g)
    <3>1. CASE anew
      BY <1>1, <1>2, <1>3, <1>4, <1>6, <2>4, <3>1, BeginsIs
    <3>2. CASE ~anew
      BY <1>1, <1>2, <1>3, <1>4, <1>5, <1>6, <2>4, <3>2, GoesOn
    <3> QED BY <3>1, <3>2
  <2> HIDE DEF b
  <2>6. Runs(audio', heard', last', lostPackets', got', late', g)
    <3>1. Runs(b.r, [b.h EXCEPT !.recent = Recent(@, g)], n, lostPackets, gt2, lt2, g)
      BY <2>5, RecentRuns
    <3> QED BY <1>3, <2>1, <2>3, <3>1 DEF gt2, lt2
  <2>7. Running(g)'
    BY <1>3, <2>6, RunsAfter
  <2>8. got' \subseteq 1 .. n
    BY <1>2, <1>5, <2>1 DEF Recent
  <2> QED BY <1>2, <2>1, <2>7, <2>8
<1>11. \/ \E stale \in IF audio.flushed THEN {FALSE} ELSE BOOLEAN :
             /\ LET b == Audio!PutPacket(Audio!Both(audio, heard), n, AudioLayouts[g], n - AudioStart[g], stale)
                IN audio' = b.r /\ heard' = [b.h EXCEPT !.recent = Recent(@, g)]
             /\ got' = Recent(got, g) \cup {n}
             /\ late' = RecentGens(late, g) \cup (IF stale THEN {g} ELSE {})
             /\ UNCHANGED lostPackets
       \/ lostPackets < AudioLosses /\ lostPackets' = lostPackets + 1 /\ UNCHANGED <<audio, heard, got, late>>
  <2>1. Audio!GenOf(last') = g /\ last' = n
    BY <1>3, <1>4
  <2> QED BY <2>1 DEF Audio!CloudPacket, Recent, RecentGens
<1> QED BY <1>9, <1>10, <1>11

AudioInv ==
  /\ haptics \in BOOLEAN /\ service \in {"cloud", "console", "none"}
  /\ service = "console" => ConsoleInv
  /\ service = "cloud" => CloudInv
  /\ service = "none" => heard.astray = FALSE

LEMMA AudioBegins == ASSUME Audio!Init \/ Audio!AtRest PROVE AudioInv
<1>1. /\ service \in {"cloud", "console", "none"} /\ haptics \in BOOLEAN
      /\ audio = Audio!Receiver /\ heard = Audio!Silence /\ last = 0 /\ got = {} /\ late = {} /\ lostPackets = 0
  BY DEF Audio!Init, Audio!AtRest
<1>2. AudioLosses \in Nat /\ Len(AudioLayouts) \in Nat
  BY AudioAssumption
<1>3. ConsoleInv
  <2>1. Audio!Cast(0) = 0
    BY AudioConstants DEF Audio!Cast
  <2> QED BY <1>1, <2>1 DEF ConsoleInv, Audio!Receiver, Audio!Silence, IsReceiver, IsHeard
<1>4. CloudInv
  <2>1. Fresh(0)
    BY <1>1 DEF Fresh
  <2>2. 0 \in 0 .. Len(AudioLayouts) /\ (IF 0 = 0 THEN last = 0 ELSE last \in PacketsOf(0))
    BY <1>1, <1>2
  <2>3. lostPackets \in 0 .. AudioLosses /\ last \in Nat /\ got \subseteq 1 .. last
    BY <1>1, <1>2
  <2> QED BY <2>1, <2>2, <2>3 DEF CloudInv
<1>5. heard.astray = FALSE
  BY <1>1 DEF Audio!Silence
<1> QED BY <1>1, <1>3, <1>4, <1>5 DEF AudioInv

LEMMA AudioRests == ASSUME AudioInv, UNCHANGED audioVars PROVE AudioInv'
<1>1. UNCHANGED <<service, haptics, audio, heard, last, got, late, lostPackets>>
  BY DEF audioVars
<1>2. ConsoleInv => ConsoleInv'
  BY <1>1 DEF ConsoleInv, IsReceiver, IsHeard
<1>3. CloudInv => CloudInv'
  <2>1. ASSUME NEW c, Fresh(c) PROVE Fresh(c)'
    BY <1>1, <2>1 DEF Fresh, Audio!Receiver, Audio!Silence
  <2>2. ASSUME NEW c, Running(c) PROVE Running(c)'
    <3>1. Runs(audio', heard', last', lostPackets', got', late', c)
      BY <1>1, <2>2 DEF Running
    <3> QED BY <1>1, <3>1, RunsAfter
  <2>3. SUFFICES ASSUME CloudInv PROVE CloudInv'
    OBVIOUS
  <2>4. PICK c \in 0 .. Len(AudioLayouts) : (IF c = 0 THEN last = 0 ELSE last \in PacketsOf(c)) /\ (Fresh(c) \/ (c > 0 /\ Running(c)))
    BY <2>3 DEF CloudInv
  <2>5. (IF c = 0 THEN last = 0 ELSE last \in PacketsOf(c))' /\ (Fresh(c)' \/ (c > 0 /\ Running(c)'))
    BY <1>1, <2>1, <2>2, <2>4 DEF PacketsOf
  <2>6. lostPackets' \in 0 .. AudioLosses /\ last' \in Nat /\ got' \subseteq 1 .. last'
    BY <1>1, <2>3 DEF CloudInv
  <2> QED BY <2>5, <2>6 DEF CloudInv
<1> QED BY <1>1, <1>2, <1>3 DEF AudioInv

LEMMA AudioNext == ASSUME NumbersSuffice, AudioInv, Audio!Next PROVE AudioInv'
<1>1. CASE Audio!CloudPacket
  <2>1. service = "cloud" /\ UNCHANGED <<service, haptics>>
    BY <1>1 DEF Audio!CloudPacket
  <2>2. CloudInv'
    BY <1>1, <2>1, CloudKeeps DEF AudioInv
  <2> QED BY <2>1, <2>2 DEF AudioInv
<1>2. CASE Audio!ConsolePacket
  <2>1. service = "console" /\ UNCHANGED <<service, haptics>>
    BY <1>2 DEF Audio!ConsolePacket
  <2>2. ConsoleInv'
    BY <1>2, <2>1, ConsoleKeeps DEF AudioInv
  <2> QED BY <2>1, <2>2 DEF AudioInv
<1> QED BY <1>1, <1>2 DEF Audio!Next

LEMMA AudioShows == ASSUME AudioInv PROVE FramesArePlayed
<1>1. heard.astray => service = "cloud" /\ haptics
  <2>1. CASE service = "console"
    BY <2>1 DEF AudioInv, ConsoleInv
  <2>2. CASE service = "cloud"
    <3>1. Strays(heard)
      <4>1. PICK c \in 0 .. Len(AudioLayouts) : Fresh(c) \/ Running(c)
        BY <2>2 DEF AudioInv, CloudInv
      <4>2. CASE Fresh(c)
        BY <4>2 DEF Fresh, Strays, Audio!Silence
      <4>3. CASE Running(c)
        BY <4>3 DEF Running, Runs, Collecting
      <4> QED BY <4>1, <4>2, <4>3
    <3> QED BY <3>1 DEF Strays
  <2> QED BY <2>1, <2>2 DEF AudioInv
<1>2. service = "console" => heard.ordered
  BY DEF AudioInv, ConsoleInv
<1> DEFINE g == Audio!GenOf(last) - 1
<1>3. ASSUME service = "cloud", last > 0, Audio!GenOf(last) > 1, last \in got,
             late \cap {g - 1, g} = {}, \A h \in {g - 1, g, g + 1} \ {0} : AudioStart[h] \in got,
             Audio!Cardinality(got \cap (AudioStart[g] .. (AudioStart[g + 1] - 1))) >= AudioLayouts[g].source
      PROVE  (AudioStart[g] .. (AudioStart[g] + AudioLayouts[g].source - 1)) \subseteq heard.recent
  <2>1. PICK c \in 0 .. Len(AudioLayouts) : (IF c = 0 THEN last = 0 ELSE last \in PacketsOf(c)) /\ (Fresh(c) \/ (c > 0 /\ Running(c)))
    BY <1>3 DEF AudioInv, CloudInv
  <2>2. c \in Gens /\ last \in PacketsOf(c) /\ Running(c) /\ Len(AudioLayouts) \in Nat
    BY <1>3, <2>1, AudioAssumption DEF Fresh, Gens
  <2>3. Audio!GenOf(last) = c
    BY <2>2, GenIs
  <2>4. g = c - 1 /\ c > 1 /\ g + 1 = c /\ g - 1 = c - 2 /\ c \in Nat
    BY <1>3, <2>1, <2>2, <2>3
  <2> HIDE DEF g
  <2>5. AudioStart[c] \in got /\ Clean(c - 1, got, late)
    BY <1>3, <2>4 DEF Clean
  <2>6. c = 2 \/ Clean(c - 2, got, late)
    BY <1>3, <2>4 DEF Clean
  <2>7. Cardinality(got \cap PacketsOf(c - 1)) >= SourceOf(c - 1)
    <3>1. AudioStart[g] .. (AudioStart[g + 1] - 1) = PacketsOf(c - 1)
      BY <2>4 DEF PacketsOf
    <3> QED BY <1>3, <2>4, <3>1, AudioCardinality DEF SourceOf
  <2>8. Past(heard, got, late, c)
    BY <2>2 DEF Running, Runs
  <2>9. Whole(c - 1) \subseteq heard.recent
    BY <2>4, <2>5, <2>6, <2>7, <2>8 DEF Past
  <2> QED BY <2>4, <2>9 DEF Whole, SourceOf
<1> HIDE DEF g
<1> QED BY <1>1, <1>2, <1>3 DEF FramesArePlayed, Audio!FramesArePlayed, g

(* However packets of sound come late, again or not at all, as long as the numbers of a   *)
(* generation and of what is lost stay within half of them (NumbersSuffice): the frames of*)
(* a console are played in order and once each, and a generation of a cloud session with  *)
(* enough units is played whole with its own data.                                   *)
THEOREM SoundIsPlayed == ASSUME NumbersSuffice PROVE MCSpec => []FramesArePlayed
<1>1. MCInit => AudioInv
  BY AudioBegins DEF MCInit
<1>2. AudioInv /\ [MCNext]_StreamVars => AudioInv'
  BY AudioNext, AudioRests DEF MCNext, StreamVars
<1>3. AudioInv => FramesArePlayed
  BY AudioShows
<1> QED BY <1>1, <1>2, <1>3, PTL DEF MCSpec, StreamVars
=============================================================================
