------------------------------- MODULE Backend -------------------------------
(* The sessions of the desktop client (gui/src/qmlbackend.cpp and the life of a  *)
(* StreamSession, gui/src/streamsession.cpp): one session at a time is made,       *)
(* perhaps waits for its console to wake up or for the connection through PSN,     *)
(* is started, may start itself again, and is taken down when its thread says      *)
(* that it quit. The backend lives on the event loop; session threads and the      *)
(* PSN worker post to it.                                                     *)
EXTENDS Integers, Sequences

CONSTANTS
  Sessions,   \* the sessions that may be made, numbered from 1
  Consoles,   \* registered consoles
  TriesMax    \* starts again within SESSION_RETRY_SECONDS

VARIABLES
  session,       \* QmlBackend::session (0: null)
  info,          \* session_info: the console and the way of the last session made for one
  obj,           \* the StreamSession objects
  signals,       \* posted to the backend, not handled yet
  worker,        \* the session the PSN worker connects (0: none)
  result,        \* its resultReady, posted and not handled yet
  inhibited,     \* sleep_inhibit
  discovery,     \* discovery_enabled
  resume,        \* resume_session
  reconnecting,  \* psn_reconnect_timer is active
  waking,        \* wakeup_nickname
  wakeupStart,   \* wakeup_start
  sleeps,        \* bound: how often the machine slept
  psnFailed,     \* history: a session through PSN could not be started
  displaced,     \* history: a cloud session took the place of another
  undefined      \* history: the code used what was deleted, or null

backendVars == <<session, info, obj, signals, worker, result, inhibited, discovery, resume,
                 reconnecting, waking, wakeupStart, sleeps, psnFailed, displaced, undefined>>

Nobody == "nobody"
NoObject == [phase |-> "none", via |-> "none", connected |-> FALSE, stop |-> FALSE, ctrlFailed |-> FALSE, tries |-> 0]

Init ==
  /\ session = 0 /\ info = [host |-> Nobody, via |-> "local"] /\ obj = [s \in Sessions |-> NoObject]
  /\ signals = <<>> /\ worker = 0 /\ result = "none"
  /\ inhibited = FALSE /\ discovery = TRUE /\ resume = FALSE /\ reconnecting = FALSE
  /\ waking = Nobody /\ wakeupStart = FALSE /\ sleeps = 0 /\ psnFailed = FALSE /\ displaced = FALSE /\ undefined = FALSE

(* Another part of the system moves: every session was made and is gone.        *)
AtRest ==
  /\ session = 0 /\ info = [host |-> Nobody, via |-> "local"]
  /\ obj = [s \in Sessions |-> [NoObject EXCEPT !.phase = "deleted"]]
  /\ signals = <<>> /\ worker = 0 /\ result = "none"
  /\ inhibited = FALSE /\ discovery = TRUE /\ resume = FALSE /\ reconnecting = FALSE
  /\ waking = Nobody /\ wakeupStart = FALSE /\ sleeps = 2 /\ psnFailed = FALSE /\ displaced = FALSE /\ undefined = TRUE

psnVars == <<worker, result>>
sleepVars == <<resume, reconnecting, sleeps>>
wakeVars == <<waking, wakeupStart>>

Fresh(s) == obj[s].phase = "none" /\ \A r \in Sessions : r < s => obj[r].phase # "none"
Started(s) == s # 0 /\ obj[s].phase \in {"running", "retry", "over"}
Becomes(s, phase) == obj' = [obj EXCEPT ![s].phase = phase]

(* deleteLater: by the time the object goes, nothing may be running on it.       *)
InUse(s) == s = 0 \/ obj[s].phase = "running" \/ worker = s
Delete(s) ==
  /\ undefined' = InUse(s)
  /\ obj' = [r \in Sessions |-> IF r = s THEN [NoObject EXCEPT !.phase = "deleted"] ELSE obj[r]]

-----------------------------------------------------------------------------
(* createSession, for a console in the home network: at once, or after the       *)
(* console woke up. A start that fails deletes the session again.              *)
MakeLocal(s, h, wake) ==
  /\ Fresh(s) /\ discovery' = discovery
  /\ info' = [host |-> h, via |-> "local"] /\ waking' = wake
  /\ \/ /\ wake # Nobody /\ wakeupStart' = TRUE /\ session' = s
        /\ obj' = [obj EXCEPT ![s] = [NoObject EXCEPT !.phase = "made", !.via = "local"]]
        /\ UNCHANGED inhibited
     \/ /\ wake = Nobody /\ session' = s /\ inhibited' = TRUE
        /\ obj' = [obj EXCEPT ![s] = [NoObject EXCEPT !.phase = "running", !.via = "local"]]
        /\ UNCHANGED wakeupStart
     \/ /\ wake = Nobody /\ session' = 0
        /\ obj' = [obj EXCEPT ![s] = [NoObject EXCEPT !.phase = "deleted"]] /\ UNCHANGED <<inhibited, wakeupStart>>
  /\ UNCHANGED psnVars

(* createSession through PSN: the worker connects first.                       *)
MakePsn(s, h) ==
  /\ Fresh(s) /\ session' = s /\ discovery' = FALSE /\ info' = [host |-> h, via |-> "psn"]
  /\ obj' = [obj EXCEPT ![s] = [NoObject EXCEPT !.phase = "made", !.via = "psn"]]
  /\ worker' = s /\ UNCHANGED <<result, inhibited, wakeVars>>

(* "Another session is already active".                                      *)
MakeNone == UNCHANGED <<session, info, obj, discovery, inhibited, psnVars, wakeupStart>>

(* connectToHost, by the user or for the console to connect to by itself. A        *)
(* console in standby is woken first, and its name kept.                       *)
Connect(s, h) ==
  /\ resume' = FALSE
  /\ \/ \E wake \in {waking, h} :
          IF session # 0 THEN waking' = wake /\ MakeNone ELSE MakeLocal(s, h, wake)
     \/ session = 0 /\ MakePsn(s, h) /\ UNCHANGED waking
  /\ UNCHANGED <<signals, reconnecting, sleeps, psnFailed, displaced, undefined>>

(* CloudStreamingBackend makes its session known to the backend, which throws      *)
(* away the one it may have, and then starts it. When that fails nobody takes it   *)
(* back.                                                                     *)
SessionCreated(s) ==
  /\ Fresh(s) /\ session' = s /\ inhibited' = TRUE
  /\ undefined' = (session # 0 /\ InUse(session)) /\ displaced' = (displaced \/ session # 0)
  /\ \E phase \in {"running", "made"} :
       obj' = [r \in Sessions |-> IF r = s THEN [NoObject EXCEPT !.phase = phase, !.via = "cloud"]
                                  ELSE IF r = session THEN [NoObject EXCEPT !.phase = "deleted"] ELSE obj[r]]
  /\ UNCHANGED <<info, signals, psnVars, discovery, sleepVars, wakeVars, psnFailed>>

-----------------------------------------------------------------------------
(* The session thread. Connected is told to the backend; so is the end.          *)
ThreadConnects(s) ==
  /\ obj[s].phase = "running" /\ ~obj[s].connected /\ ~obj[s].ctrlFailed
  /\ obj' = [obj EXCEPT ![s].connected = TRUE] /\ signals' = Append(signals, <<"connected", s>>)
  /\ UNCHANGED <<session, info, psnVars, inhibited, discovery, sleepVars, wakeVars, psnFailed, displaced, undefined>>

(* StreamSession::Event, QUIT: a first connection that failed is tried again        *)
(* after a second while the time lasts, on the same ChiakiSession.             *)
MayRetry(s) == ~obj[s].connected /\ obj[s].via # "psn" /\ obj[s].tries < TriesMax
ThreadFails(s) ==
  /\ obj[s].phase = "running"
  /\ \E ctrl \in BOOLEAN :
       IF MayRetry(s)
       THEN obj' = [obj EXCEPT ![s].phase = "retry", ![s].ctrlFailed = @ \/ ctrl] /\ UNCHANGED signals
       ELSE /\ obj' = [obj EXCEPT ![s].phase = "over", ![s].connected = FALSE]
            /\ signals' = signals \o <<<<"connected", s>>, <<"quit", s>>>>
  /\ UNCHANGED <<session, info, psnVars, inhibited, discovery, sleepVars, wakeVars, psnFailed, displaced, undefined>>

(* ... or quits without an error, as it does when it was told to stop.           *)
ThreadQuits(s) ==
  /\ obj[s].phase = "running" /\ (obj[s].stop \/ obj[s].connected)
  /\ obj' = [obj EXCEPT ![s].phase = "over", ![s].connected = FALSE]
  /\ signals' = signals \o <<<<"connected", s>>, <<"quit", s>>>>
  /\ UNCHANGED <<session, info, psnVars, inhibited, discovery, sleepVars, wakeVars, psnFailed, displaced, undefined>>

(* A bug the code might have: starting again forgets that it shall stop.         *)
RetryFires_Anew(s) ==
  /\ obj[s].phase = "retry"
  /\ obj' = [obj EXCEPT ![s].phase = "running", ![s].tries = @ + 1, ![s].stop = FALSE]
  /\ UNCHANGED <<session, info, signals, psnVars, inhibited, discovery, sleepVars, wakeVars, psnFailed, displaced, undefined>>

(* StreamSession::Start once more, from the timer: nothing is reset.            *)
RetryFires(s) ==
  /\ obj[s].phase = "retry"
  /\ obj' = [obj EXCEPT ![s].phase = "running", ![s].tries = @ + 1]
  /\ UNCHANGED <<session, info, signals, psnVars, inhibited, discovery, sleepVars, wakeVars, psnFailed, displaced, undefined>>

(* The backend handles ConnectedChanged and SessionQuit, in the order they came. *)
(* It looks at the session it has, whoever sent them.                         *)
HandleConnected ==
  /\ signals # <<>> /\ Head(signals)[1] = "connected" /\ signals' = Tail(signals)
  /\ undefined' = (session = 0)
  /\ discovery' = IF session # 0 /\ obj[session].connected THEN FALSE ELSE discovery
  /\ UNCHANGED <<session, info, obj, psnVars, inhibited, sleepVars, wakeVars, psnFailed, displaced>>

(* Mutant: the computer is not let sleep again.                                  *)
HandleQuit_Inhibits ==
  /\ signals # <<>> /\ Head(signals)[1] = "quit" /\ signals' = Tail(signals)
  /\ Delete(session) /\ session' = 0 /\ discovery' = TRUE
  /\ UNCHANGED <<inhibited, info, psnVars, sleepVars, wakeVars, psnFailed, displaced>>

HandleQuit ==
  /\ signals # <<>> /\ Head(signals)[1] = "quit" /\ signals' = Tail(signals)
  /\ Delete(session) /\ session' = 0 /\ inhibited' = FALSE /\ discovery' = TRUE
  /\ UNCHANGED <<info, psnVars, sleepVars, wakeVars, psnFailed, displaced>>

-----------------------------------------------------------------------------
(* PsnConnectionWorker: it comes to an end, well or badly, or because of          *)
(* psnCancel.                                                                *)
WorkerEnds ==
  /\ worker # 0 /\ worker' = 0 /\ result' \in {"ok", "failed"}
  /\ UNCHANGED <<session, info, obj, signals, inhibited, discovery, sleepVars, wakeVars, psnFailed, displaced, undefined>>

(* checkPsnConnection and psnSessionStart.                                    *)
PsnFails ==
  /\ result = "failed"
  /\ IF session # 0
     THEN Delete(session) /\ session' = 0 /\ discovery' = TRUE
     ELSE UNCHANGED <<session, obj, discovery, undefined>>
  /\ UNCHANGED <<inhibited, psnFailed>>

PsnStarts ==
  /\ result = "ok"
  /\ \/ /\ session # 0 /\ Becomes(session, "running") /\ inhibited' = TRUE
        /\ UNCHANGED <<session, psnFailed, displaced, undefined>>
     \/ Delete(session) /\ session' = 0 /\ psnFailed' = TRUE /\ UNCHANGED inhibited
  /\ UNCHANGED discovery

CheckPsnConnection ==
  /\ result' = "none" /\ (PsnFails \/ PsnStarts)
  /\ UNCHANGED <<info, signals, worker, sleepVars, wakeVars, displaced>>

(* updateDiscoveryHosts: the console the session waits for is ready, or the         *)
(* console of a session that is connecting went to standby and is woken.        *)
ConsoleReady ==
  /\ wakeupStart /\ session # 0 /\ info.host = waking /\ discovery
  /\ waking' = Nobody /\ wakeupStart' = FALSE
  /\ \/ Becomes(session, "running") /\ inhibited' = TRUE /\ UNCHANGED <<session, undefined>>
     \/ Delete(session) /\ session' = 0 /\ UNCHANGED inhibited
  /\ UNCHANGED <<info, signals, psnVars, discovery, sleepVars, psnFailed, displaced>>

ConsoleInStandby ==
  /\ discovery /\ session # 0 /\ obj[session].phase \in {"running", "retry"} /\ ~obj[session].connected
  /\ waking # info.host /\ waking' = info.host
  /\ UNCHANGED <<session, info, obj, signals, psnVars, inhibited, discovery, sleepVars, wakeupStart, psnFailed, displaced, undefined>>

(* stopAutoConnect: the user does not wait for the console.                    *)
StopAutoConnect ==
  /\ waking # Nobody /\ waking' = Nobody /\ wakeupStart' = FALSE
  /\ IF wakeupStart THEN Delete(session) /\ session' = 0 ELSE UNCHANGED <<obj, session, undefined>>
  /\ UNCHANGED <<info, signals, psnVars, inhibited, discovery, sleepVars, psnFailed, displaced>>

-----------------------------------------------------------------------------
(* stopSession, and closeRequested of the window.                             *)
StopSession ==
  /\ session # 0 /\ ~obj[session].stop /\ obj' = [obj EXCEPT ![session].stop = TRUE]
  /\ UNCHANGED <<session, info, signals, psnVars, inhibited, discovery, sleepVars, wakeVars, psnFailed, displaced, undefined>>

(* goToSleep and resumeFromSleep: the session is stopped, and one like the last     *)
(* one made for a console is made again, if the old one is gone by then.        *)
GoToSleep ==
  /\ sleeps < 2 /\ sleeps' = sleeps + 1
  /\ session # 0 /\ obj' = [obj EXCEPT ![session].stop = TRUE] /\ resume' = TRUE
  /\ UNCHANGED <<session, info, signals, psnVars, inhibited, discovery, reconnecting, wakeVars, psnFailed, displaced, undefined>>

ResumeFromSleep(s) ==
  /\ resume /\ resume' = FALSE
  /\ IF info.via = "psn" THEN reconnecting' = TRUE /\ MakeNone /\ UNCHANGED waking
     ELSE /\ IF session # 0 THEN MakeNone /\ UNCHANGED waking ELSE MakeLocal(s, info.host, waking)
          /\ UNCHANGED reconnecting
  /\ UNCHANGED <<signals, sleeps, psnFailed, displaced, undefined>>

(* The reconnect timer: the internet is back, or it was tried often enough.     *)
Reconnect(s) ==
  /\ reconnecting /\ reconnecting' = FALSE /\ resume' = FALSE
  /\ \/ session = 0 /\ MakePsn(s, info.host)
     \/ MakeNone /\ UNCHANGED waking
  /\ UNCHANGED <<signals, sleeps, psnFailed, displaced, undefined>>

ThreadMoves(s) == ThreadFails(s) \/ ThreadQuits(s)
Handles == HandleConnected \/ HandleQuit

BackendNext ==
  /\ ~undefined
  /\ \/ \E s \in Sessions :
          \/ \E h \in Consoles : Connect(s, h)
          \/ SessionCreated(s) \/ ThreadConnects(s) \/ ThreadMoves(s) \/ RetryFires(s)
          \/ ResumeFromSleep(s) \/ Reconnect(s)
     \/ Handles \/ WorkerEnds \/ CheckPsnConnection
     \/ ConsoleReady \/ ConsoleInStandby \/ StopAutoConnect \/ StopSession \/ GoToSleep

-----------------------------------------------------------------------------
(* Unless a cloud session displaced another: while a session streams or tries to, the machine does not go to sleep under     *)
(* it, and it may again when no session is left; without a session the consoles    *)
(* are looked for again, unless a start after the connection through PSN failed    *)
(* (psnSessionStart, which leaves discovery off).                             *)
SleepAndDiscovery ==
  undefined \/ displaced \/
    /\ Started(session) => inhibited
    /\ inhibited => session # 0
    /\ session = 0 /\ ~psnFailed => discovery

(* A started session that is told to stop is taken down, also when it was just     *)
(* waiting to start itself again.                                            *)
StopEnds ==
  \A s \in Sessions : (session = s /\ Started(s) /\ obj[s].stop) ~> (session # s \/ undefined)

(* A thread that was told to stop comes to an end; timers go off and the event    *)
(* loop turns.                                                               *)
Stops(s) == ~undefined /\ obj[s].stop /\ ThreadMoves(s)
Fairness ==
  /\ \A s \in Sessions : WF_backendVars(Stops(s)) /\ WF_backendVars(~undefined /\ RetryFires(s))
  /\ WF_backendVars(~undefined /\ Handles)

Spec == Init /\ [][BackendNext]_backendVars /\ Fairness
=============================================================================
