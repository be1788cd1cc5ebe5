------------------------------ MODULE MCStream ------------------------------
(* The stream connection and what it owns: the receivers of video and audio,    *)
(* the feedback sender and the congestion thread. They share nothing but their   *)
(* lifetime, which StreamConnection has; here one of them is at work at a time.   *)
EXTENDS StreamConnection, Integers, Sequences

VARIABLE part

(* Frames with and without FEC units; generations of several sizes.            *)
MCVideoLayouts == {[source |-> 2, fec |-> 1], [source |-> 1, fec |-> 0]}
MCAudioLayouts == <<[source |-> 2, fec |-> 1], [source |-> 2, fec |-> 1], [source |-> 3, fec |-> 1],
                    [source |-> 2, fec |-> 0], [source |-> 1, fec |-> 1]>>
MCAudioStart == <<1, 4, 7, 11, 13, 15>>

CONSTANTS VideoSpace, VideoLayouts, MaxFrame, RefSize, CounterSpace
VARIABLES vr, seen
Video == INSTANCE VideoReceiver WITH NumberSpace <- VideoSpace, AddWraps <- FALSE, Layouts <- VideoLayouts
ASSUME VideoAssumption ==
  /\ VideoSpace \in Nat /\ VideoSpace > 1 /\ VideoSpace % 2 = 0
  /\ VideoLayouts \subseteq [source : Nat, fec : Nat]
  /\ {MaxFrame, RefSize, CounterSpace} \subseteq Nat \ {0}
videoVars == <<vr, seen>>

CONSTANTS AudioSpace, AudioLayouts, AudioStart, PlainLast, PlainFec, AudioLosses
VARIABLES service, haptics, audio, heard, last, got, late, lostPackets
Audio == INSTANCE AudioReceiver WITH NumberSpace <- AudioSpace, AddWraps <- FALSE, Layouts <- AudioLayouts, Start <- AudioStart
ASSUME AudioAssumption ==
  /\ AudioSpace \in Nat /\ AudioSpace > 1 /\ AudioSpace % 2 = 0
  /\ AudioLosses \in Nat /\ PlainLast \in Nat
  /\ PlainFec \in Nat /\ 2 * PlainFec < AudioSpace \* 15 at most of 65536 there
  /\ AudioLayouts \in Seq([source : Nat \ {0}, fec : Nat]) /\ AudioStart \in Seq(Nat)
  /\ Len(AudioStart) = Len(AudioLayouts) + 1 /\ AudioStart[1] = 1
  /\ \A g \in 1 .. Len(AudioLayouts) : AudioStart[g + 1] = AudioStart[g] + Audio!Total(AudioLayouts[g])
audioVars == <<service, haptics, audio, heard, last, got, late, lostPackets>>

CONSTANTS Buttons, HistorySize, ChangesMax, LossesMax
VARIABLES controller, previous, changed, feedbackStop, feedbackThread, historyBuf, console, gone, replaced,
          changes, losses
Feedback == INSTANCE FeedbackSender
feedbackVars == <<controller, previous, changed, feedbackStop, feedbackThread, historyBuf, console, gone,
                  replaced, changes, losses>>

CONSTANTS StatsSpace, StatsLast, DiffSpace, LossMax, LossScale, Generations, GenerationsMax, ReportsMax
VARIABLES counted, seqMin, seqMax, genReceived, genLost, place, overdue, frames, pushing, reporter, stopSignal,
          told, withheld, open, tangled, slip, disturbed
Stats == INSTANCE CongestionControl
(* The sequence numbers are narrower than the counters they are subtracted in.   *)
ASSUME StatsAssumption ==
  /\ StatsSpace \in Nat \ {0} /\ StatsLast \in Nat
  /\ DiffSpace \in Nat /\ StatsSpace <= DiffSpace
  /\ LossScale \in Nat \ {0} /\ LossMax \in 0 .. LossScale \* a share of 0.05 unless it is set
  /\ Generations \subseteq Nat \X Nat
statsVars == <<counted, seqMin, seqMax, genReceived, genLost, place, overdue, frames, pushing, reporter,
               stopSignal, told, withheld, open, tangled, slip, disturbed>>
(* A frame of two units that lost one of them, or both.                          *)
MCGenerations == {<<1, 1>>, <<0, 2>>}

MCInit ==
  /\ part \in {"connection", "video", "audio", "feedback", "stats"}
  /\ IF part = "connection" THEN Init ELSE AtRest
  /\ Video!Init
  /\ IF part = "audio" THEN Audio!Init ELSE Audio!AtRest
  /\ IF part = "feedback" THEN Feedback!Init ELSE Feedback!AtRest
  /\ IF part = "stats" THEN Stats!Init ELSE Stats!AtRest

MCNext ==
  /\ UNCHANGED part
  /\ \/ Next /\ UNCHANGED <<videoVars, audioVars, feedbackVars, statsVars>>
     \/ part = "video" /\ Video!Next /\ UNCHANGED <<vars, audioVars, feedbackVars, statsVars>>
     \/ Audio!Next /\ UNCHANGED <<vars, videoVars, feedbackVars, statsVars>>
     \/ Feedback!Next /\ UNCHANGED <<vars, videoVars, audioVars, statsVars>>
     \/ Stats!Next /\ UNCHANGED <<vars, videoVars, audioVars, feedbackVars>>

FeedbackFairness ==
  WF_feedbackVars(Feedback!Wake) /\ WF_feedbackVars(Feedback!FeedbackLeaves) /\ WF_feedbackVars(Feedback!FeedbackJoined)

MCSpec ==
  /\ MCInit /\ [][MCNext]_<<part, vars, videoVars, audioVars, feedbackVars, statsVars>>
  /\ Fairness /\ FeedbackFairness

(* What the parts say of their state.                                        *)
FramesInOrder == Video!FramesInOrder /\ Video!FecAssertion
LostFramesAreReported == Video!LostFramesAreReported
ReferencesWereKept == Video!ReferencesWereKept
SkippedFramesAreCounted == Video!SkippedFramesAreCounted
FramesArePlayed == Audio!FramesArePlayed
ConsoleFollows == Feedback!ConsoleFollows
LossAddsUp == Stats!LossAddsUp
=============================================================================
