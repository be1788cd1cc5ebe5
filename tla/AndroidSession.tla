----------------------------- MODULE AndroidSession ---------------------------
(* The life of a session in the Android application                              *)
(* (session/StreamSession.kt, lib/Chiaki.kt): the main thread resumes and shuts down, *)
(* a thread per resume connects, through the PSN if the console is away, and a thread *)
(* per shutdown waits for the old session to end and frees it.                     *)
EXTENDS Naturals, FiniteSets

CONSTANTS
  Kinds,       \* of "psn" and "local": where the console may be
  ResumesMax,  \* bound: connections begun
  ShutdownsMax \* bound: calls of shutdown

VARIABLES
  resumes,    \* connections begun; the last one's number
  generation, \* connectGeneration
  inFlight,   \* holepunchResumeInFlight
  field,      \* holepunchSession: the connection it belongs to, 0 for null
  session,    \* session, likewise
  thread,     \* the threads that connect
  hole,       \* the holepunch session of each connection
  native,     \* its session of the library
  disposers,  \* connections whose session a thread waits for and frees
  finishers,  \* those whose holepunch session one frees
  restarts,   \* sessions after whose end to resume; 0 is at once
  main,       \* where the main thread is in shutdown, and the connection it cancels
  faults,     \* history: what a thread did to an object not there for it
  raced       \* history: a call came at a moment the code does not cover

appVars == <<resumes, generation, inFlight, field, session, thread, hole, native, disposers, finishers, restarts, main, faults, raced>>
Ids == 1 .. ResumesMax

Idle == [at |-> "idle", restart |-> FALSE, hole |-> 0]
NoThread == [kind |-> "none", gen |-> 0, at |-> "done"]
Start ==
  /\ generation = 0 /\ inFlight = FALSE /\ field = 0 /\ session = 0 /\ thread = [i \in Ids |-> NoThread]
  /\ hole = [i \in Ids |-> "none"] /\ native = [i \in Ids |-> "none"] /\ disposers = {} /\ finishers = {}
  /\ restarts = {} /\ main = Idle /\ faults = {} /\ raced = FALSE
Init == Start /\ resumes = 0
AtRest == Start /\ resumes = ResumesMax

------------------------------------------------------------------------------
(* The main thread. *)
At(i, step) == thread[i].at = step
Connecting == {i \in Ids : thread[i].at # "done"}

(* resume looks only at the session: one that still connects does not keep it back.         *)
Resumes ==
  /\ session = 0 /\ resumes < ResumesMax /\ resumes' = resumes + 1 /\ raced' = (raced \/ Connecting # {})
  /\ \E kind \in Kinds :
       /\ inFlight' = (inFlight \/ kind = "psn")
       /\ thread' = [thread EXCEPT ![resumes + 1] =
            [kind |-> kind, gen |-> generation, at |-> IF kind = "psn" THEN "init" ELSE "native"]]
Resume ==
  /\ main = Idle /\ Resumes
  /\ UNCHANGED <<generation, field, session, hole, native, disposers, finishers, restarts, main, faults>>
Restarted ==
  /\ main = Idle /\ 0 \in restarts /\ restarts' = restarts \ {0}
  /\ IF session = 0 /\ resumes < ResumesMax THEN Resumes ELSE UNCHANGED <<resumes, inFlight, thread, raced>>
  /\ UNCHANGED <<generation, field, session, hole, native, disposers, finishers, main, faults>>

(* shutdown, with or without a restart: a connection under way is outdated from here on. The   *)
(* microphone is waited for next.                                                    *)
Shutdown ==
  /\ main = Idle /\ generation < ShutdownsMax /\ generation' = generation + 1
  /\ \E restart \in BOOLEAN : main' = [at |-> "choose", restart |-> restart, hole |-> 0]
  /\ UNCHANGED <<resumes, inFlight, field, session, thread, hole, native, disposers, finishers, restarts, faults, raced>>

(* Then it stops the session and has it freed, or cancels the holepunch that is in flight, or  *)
(* frees one left over.                                                              *)
Stopped(after) == restarts' = restarts \cup (IF main.restart THEN {after} ELSE {}) /\ main' = Idle
StopSession ==
  /\ session # 0 /\ native' = (IF native[session] = "running" THEN [native EXCEPT ![session] = "stopping"] ELSE native)
  /\ disposers' = disposers \cup {session} /\ Stopped(session)
  /\ session' = 0 /\ field' = 0 /\ UNCHANGED <<finishers, faults>>

(* HolepunchSession.cancel calls into the object its pointer names, which the library may have  *)
(* freed, and which the thread that connects may free before the call is over.              *)
Cancel ==
  /\ session = 0 /\ inFlight /\ UNCHANGED <<native, disposers, session, field, finishers>>
  /\ IF field = 0 THEN Stopped(0) /\ UNCHANGED faults
     ELSE /\ main' = [main EXCEPT !.at = "cancel", !.hole = field] /\ UNCHANGED restarts
          /\ faults' = faults \cup (IF hole[field] = "consumed" THEN {"cancelled when freed"} ELSE {})
Finish ==
  /\ session = 0 /\ ~inFlight /\ Stopped(0)
  /\ finishers' = (IF field = 0 THEN finishers ELSE finishers \cup {field}) /\ field' = 0
  /\ UNCHANGED <<native, disposers, session, faults>>
Choose ==
  /\ main.at = "choose" /\ (StopSession \/ Cancel \/ Finish)
  /\ raced' = (raced \/ \E i \in Connecting : At(i, "publish") \/ thread[i].kind = "local")
  /\ UNCHANGED <<resumes, generation, inFlight, thread, hole>>
Cancelled ==
  /\ main.at = "cancel" /\ Stopped(0)
  /\ UNCHANGED <<resumes, generation, inFlight, field, session, thread, hole, native, disposers, finishers, faults, raced>>

------------------------------------------------------------------------------
(* The object of connection i goes. *)
InCancel(i) == main.at = "cancel" /\ main.hole = i
Cut(i) == IF InCancel(i) THEN {"cancelled when freed"} ELSE {}
(* HolepunchSession.fini of connection i by a thread that holds it: it clears its pointer, so  *)
(* a second call does nothing, unless the library freed it behind its back.                *)
Finis(i, by) ==
  /\ hole' = (IF i # 0 /\ hole[i] # "none" THEN [hole EXCEPT ![i] = "freed"] ELSE hole)
  /\ faults' = faults \cup (IF i = 0 \/ hole[i] \notin {"open", "owned", "consumed"} THEN {}
                            ELSE Cut(i) \cup (IF hole[i] = "consumed" THEN {"freed twice"} ELSE {})
                                 \cup (IF hole[i] = "owned" \/ \E t \in Connecting \ {by} : t = i
                                       THEN {"freed under another"} ELSE {}))
Goes(i, step) == thread' = [thread EXCEPT ![i].at = step]
IsCancelled(i) == generation # thread[i].gen
LetsGo == field' = 0 /\ inFlight' = FALSE
Others == <<resumes, generation, session, native, disposers, finishers, restarts, main, raced>>

(* resumePsnConnection: the constructor may throw, and the catch then frees what the field holds. *)
PsnInit(i) ==
  /\ At(i, "init") /\ UNCHANGED Others /\ UNCHANGED <<inFlight, faults>>
  /\ \/ Goes(i, "create") /\ hole' = [hole EXCEPT ![i] = "open"] /\ field' = i
     \/ Goes(i, "catch") /\ UNCHANGED <<hole, field>>

Following == [create |-> "offer", offer |-> "start", start |-> "punch", punch |-> "native"]
(* Each step fails, or is cancelled, or goes on.                                     *)
PsnStep(i) ==
  /\ thread[i].at \in DOMAIN Following /\ UNCHANGED Others /\ UNCHANGED <<hole, field, inFlight, faults>>
  /\ \/ Goes(i, "fini")
     \/ ~IsCancelled(i) /\ hole[i] = "open" /\ Goes(i, Following[thread[i].at])

(* The call of fini ends: what failed or was cancelled frees its own, the catch what the field   *)
(* holds then.                                                                       *)
PsnFinis(i) ==
  /\ \/ At(i, "fini") /\ Finis(i, i)
     \/ At(i, "catch") /\ Finis(field, i)
  /\ LetsGo /\ Goes(i, "done") /\ UNCHANGED Others

(* The session of the library takes the holepunch session over, and frees it even when it      *)
(* cannot be made: the catch then frees it again.                                   *)
CreateFails(i) ==
  /\ At(i, "native") /\ UNCHANGED Others /\ UNCHANGED <<field, inFlight, hole, faults>>
  /\ Goes(i, IF thread[i].kind = "psn" THEN "catch" ELSE "done")
InitFails(i) ==
  /\ At(i, "native") /\ thread[i].kind = "psn" /\ Goes(i, "catch") /\ UNCHANGED Others /\ UNCHANGED <<field, inFlight>>
  /\ hole' = [hole EXCEPT ![i] = "consumed"] /\ faults' = faults \cup Cut(i)
Creates(i) ==
  /\ At(i, "native") /\ hole' = (IF thread[i].kind = "psn" THEN [hole EXCEPT ![i] = "owned"] ELSE hole)
  /\ IF thread[i].kind = "psn" /\ IsCancelled(i)
     THEN native' = [native EXCEPT ![i] = "created"] /\ disposers' = disposers \cup {i} /\ LetsGo /\ Goes(i, "done")
     ELSE native' = [native EXCEPT ![i] = "running"] /\ Goes(i, "publish") /\ UNCHANGED <<disposers, field, inFlight>>
  /\ UNCHANGED <<resumes, generation, session, finishers, restarts, main, faults, raced>>
Publishes(i) ==
  /\ At(i, "publish") /\ session' = i /\ inFlight' = (IF thread[i].kind = "psn" THEN FALSE ELSE inFlight) /\ Goes(i, "done")
  /\ UNCHANGED <<resumes, generation, field, hole, native, disposers, finishers, restarts, main, faults, raced>>

(* The session's own thread comes to its end, because it was stopped or not.                    *)
SessionEnds(i) ==
  /\ native[i] \in {"running", "stopping"} /\ native' = [native EXCEPT ![i] = "ended"]
  /\ UNCHANGED <<resumes, generation, inFlight, field, session, thread, hole, disposers, finishers, restarts, main, faults, raced>>

(* dispose joins the session's thread; the handle of one never started is zero, and joining it   *)
(* returns with an error at once.                                                    *)
(* Mutant: it frees without joining.                                              *)
Joined_AtOnce(i) == TRUE
Joined(i) == native[i] \in {"ended", "created"}
Dispose(i) ==
  /\ i \in disposers /\ Joined(i) /\ disposers' = disposers \ {i} /\ native' = [native EXCEPT ![i] = "freed"]
  /\ hole' = (IF hole[i] = "owned" THEN [hole EXCEPT ![i] = "consumed"] ELSE hole)
  /\ faults' = faults \cup (IF native[i] \in {"running", "stopping"} THEN {"freed under its thread"} ELSE {})
                      \cup (IF hole[i] = "owned" THEN Cut(i) ELSE {})
  /\ restarts' = IF i \in restarts THEN (restarts \ {i}) \cup {0} ELSE restarts
  /\ UNCHANGED <<resumes, generation, inFlight, field, session, thread, finishers, main, raced>>
FinishHole(i) ==
  /\ i \in finishers /\ finishers' = finishers \ {i} /\ Finis(i, 0)
  /\ UNCHANGED <<resumes, generation, inFlight, field, session, thread, native, disposers, restarts, main, raced>>

AppNext ==
  \/ Resume \/ Restarted \/ Shutdown \/ Choose \/ Cancelled
  \/ \E i \in Ids : PsnInit(i) \/ PsnStep(i) \/ PsnFinis(i) \/ CreateFails(i) \/ InitFails(i) \/ Creates(i) \/ Publishes(i)
                    \/ SessionEnds(i) \/ Dispose(i) \/ FinishHole(i)
Spec == Init /\ [][AppNext]_appVars

------------------------------------------------------------------------------
TypeOK ==
  /\ resumes \in 0 .. ResumesMax /\ generation \in 0 .. ShutdownsMax /\ {inFlight, raced} \subseteq BOOLEAN
  /\ main \in [at : {"idle", "choose", "cancel"}, restart : BOOLEAN, hole : 0 .. ResumesMax]
  /\ {field, session} \subseteq 0 .. ResumesMax /\ disposers \cup finishers \subseteq Ids

Live == {i \in Ids : native[i] = "running"}
Settled == Connecting = {} /\ disposers = {} /\ finishers = {} /\ restarts = {} /\ main = Idle

(* However shutdowns, restarts and failures fall among the steps of a connection: at most one  *)
(* session runs unstopped; the one the application knows is not freed, nor from before a       *)
(* shutdown; the mark of a holepunch in flight tells; no session is freed under its thread and  *)
(* no holepunch session under the thread that connects with it or the session that took it;   *)
(* and once all has settled without a session nothing is left of any. Not so where the code   *)
(* has no answer: a resume while another still connects, a shutdown that meets a local         *)
(* connection or one about to be published; a session that cannot be made, whose holepunch    *)
(* session is freed twice; a cancel by the main thread, whose object the connecting thread,     *)
(* which sees the new generation or fails by itself, or the session it hands it to, may free    *)
(* meanwhile (StreamSession.kt:387-441, 480-651, session.c:427).                         *)
SessionsAreSound ==
  ~raced =>
    /\ faults \subseteq {"freed twice", "cancelled when freed"} /\ Cardinality(Live) <= 1
    /\ session # 0 => /\ native[session] \in {"running", "ended"}
                      /\ main.at # "choose" => thread[session].gen = generation
    /\ inFlight <=> \E i \in Connecting : thread[i].kind = "psn"
    /\ Settled /\ session = 0 => \A i \in Ids : hole[i] \in {"none", "freed", "consumed"} /\ native[i] \in {"none", "freed"}
=============================================================================
