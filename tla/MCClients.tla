----------------------------- MODULE MCClients -----------------------------
(* The parts of the clients around the protocol, of the desktop and of Android.    *)
(* Each has threads and state of its own and hands the next one values, so one of   *)
(* them moves at a time, the one that part names, and the others are at rest.       *)
EXTENDS VideoPacing, TakionSend, TLC

CONSTANT Parts  \* the parts that may move
VARIABLE part

CONSTANTS Centers, Rtts, RttMax, LockTries, WaitDefault, WaitMax, Estimates
VARIABLES service, setting, request, key, lockKey, lockTries, offered, cloudAnswers, pinging,
          called, center, elapsed, waitLimit, stored, dialogs, outcomes
Cloud == INSTANCE CloudSession WITH
  answers <- cloudAnswers
ASSUME CloudAssumption ==
  /\ "Auto" \notin Centers \* the choice that is left to the pings
  /\ Rtts \subseteq Nat \ {0} /\ RttMax \in 0 .. 998 \* a ping of less than a millisecond counts as failed
cloudVars == <<service, setting, request, key, lockKey, lockTries, offered, cloudAnswers, pinging, called,
  center, elapsed, waitLimit, stored, dialogs, outcomes>>

CONSTANTS CatalogCalls, CallsFor, Categories, Pages, Products, Locales
VARIABLES kind, catalogStep, catalogAt, listing, caller, auth, categories, index, games, start,
          owned, wanted, cross, locale, cache, catalogAnswers, catalogAbsent, catalogCut, overlapped
Catalog == INSTANCE CloudCatalog WITH
  Calls <- CatalogCalls, step <- catalogStep, at <- catalogAt, answers <- catalogAnswers,
  absent <- catalogAbsent, cut <- catalogCut
ASSUME CatalogAssumption ==
  /\ CatalogCalls \subseteq Nat \ {0} \* 0: no callback is stored
  /\ Categories \in Nat \ {0} /\ Pages \in Nat \* a root container without categories is refused
catalogVars == <<kind, catalogStep, catalogAt, listing, caller, auth, categories, index, games, start, owned,
  wanted, cross, locale, cache, catalogAnswers, catalogAbsent, catalogCut, overlapped>>

CONSTANTS Sessions, BackConsoles, TriesMax
VARIABLES backSession, info, obj, signals, backWorker, result, inhibited, discovery, resume,
          reconnecting, backWaking, wakeupStart, sleeps, psnFailed, displaced, undefined
Back == INSTANCE Backend WITH
  Consoles <- BackConsoles, session <- backSession, worker <- backWorker, waking <- backWaking
ASSUME BackAssumption == Sessions \subseteq Nat \ {0} \* 0: null
backVars == <<backSession, info, obj, signals, backWorker, result, inhibited, discovery, resume,
  reconnecting, backWaking, wakeupStart, sleeps, psnFailed, displaced, undefined>>

CONSTANTS HostConsoles, Ps4s, Addresses, HostAt, Reports, Entered, HostDevices, IdsMax,
          QueueMax, ActsMax, Switches
VARIABLES active, queue, hosts, services, settings, profile, dialog, due, psn, hostWorker,
          hostWaking, acts, hostShown, stale, leftOut, moved, astray
Host == INSTANCE HostList WITH
  Consoles <- HostConsoles, At <- HostAt, Devices <- HostDevices, worker <- hostWorker, waking
  <- hostWaking, shown <- hostShown
ASSUME HostAssumption ==
  /\ HostDevices \in Seq(HostConsoles) /\ Reports \subseteq Seq(Addresses)
  /\ Len(Switches) \in Nat \ {0}
  /\ \A i \in 1 .. Len(Switches) :
       Len(Switches[i].manual) \in Nat /\ DOMAIN Switches[i].manual = 1 .. Len(Switches[i].manual)
hostVars == <<active, queue, hosts, services, settings, profile, dialog, due, psn, hostWorker, hostWaking,
  acts, hostShown, stale, leftOut, moved, astray>>

CONSTANTS SyncDevices, TimeMax, EditsMax, Tolerance, Retention
VARIABLES now, made, local, cloud, backups, syncRunning, dropped, spoiled
Sync == INSTANCE SteamCloudSync WITH
  Devices <- SyncDevices, running <- syncRunning
syncVars == <<now, made, local, cloud, backups, syncRunning, dropped, spoiled>>

CONSTANTS Keys, PadButtons, Fingers, Shortcut, CtlIncrement, Width, IdSpace, GrabsMax, EventsMax
VARIABLES keyboard, mouse, screen, tracker, ctlPad, padTouches, micPush, dpad, timer, stopTimer,
          regular, switched, grab, block, ctlConsole, ctlHeld, spoilt, missed, events
Ctl == INSTANCE Controls WITH
  Increment <- CtlIncrement, pad <- ctlPad, console <- ctlConsole, held <- ctlHeld
ASSUME CtlAssumption ==
  CtlIncrement \in Nat /\ Width \in Nat /\ IdSpace \in Nat \ {0} \* 30 at first, 1920 and 128 there
ctlVars == <<keyboard, mouse, screen, tracker, ctlPad, padTouches, micPush, dpad, timer, stopTimer,
  regular, switched, grab, block, ctlConsole, ctlHeld, spoilt, missed, events>>

CONSTANTS MicSize, MicReads, BufferSize, FrameSize, Unmuted, Strengths, MinStrength, PerRumble,
          StepsMax
VARIABLES steps, startUnmuted, audio, queued, drain, muted, micOpen, wire, outConsole, given,
          heard, buffer, packets, intensity, outCalls, strengths, rumbleOn, outPad
Out == INSTANCE Outputs WITH
  console <- outConsole, calls <- outCalls, pad <- outPad
ASSUME OutAssumption ==
  MicSize \in Nat \ {0} /\ MicReads \subseteq Nat /\ BufferSize \in Nat /\ FrameSize \in Nat
outVars == <<steps, startUnmuted, audio, queued, drain, muted, micOpen, wire, outConsole, given, heard,
  buffer, packets, intensity, outCalls, strengths, rumbleOn, outPad>>

CONSTANTS FrameQueueCapacity, CodecsMax, FramesMax
VARIABLES codec, created, videoRunning, deleted, inside, codecMutex, shutdownOutput, frameQueue,
          queueShutdown, inputRunning, inputThread, outputThreads, app, freed, stray
Video == INSTANCE AndroidVideo WITH
  running <- videoRunning
ASSUME VideoAssumption == CodecsMax \in Nat \* a bound
videoVars == <<codec, created, videoRunning, deleted, inside, codecMutex, shutdownOutput, frameQueue,
  queueShutdown, inputRunning, inputThread, outputThreads, app, freed, stray>>

CONSTANTS ChunksCount, ChunkSize, BytesMax
VARIABLES memory, array, tail, head, producer, consumer, pushed, popped, torn
Audio == INSTANCE AudioBuffer
ASSUME AudioAssumption == ChunksCount \in Nat \ {0} /\ ChunkSize \in Nat \ {0} \* 32 and 1024 there
audioVars == <<memory, array, tail, head, producer, consumer, pushed, popped, torn>>

CONSTANTS NativeCalls, CallsMax
VARIABLES nativeCalls, nativeAt, nativeHeld, undoing, nativeFailed
Native == INSTANCE AndroidNative WITH
  Calls <- NativeCalls, calls <- nativeCalls, at <- nativeAt, held <- nativeHeld, failed <- nativeFailed
ASSUME NativeAssumption == NativeCalls \subseteq {"session", "cloud", "service", "regist", "ping"}
nativeVars == <<nativeCalls, nativeAt, nativeHeld, undoing, nativeFailed>>

CONSTANTS AppKinds, ResumesMax, ShutdownsMax
VARIABLES resumes, generation, inFlight, field, appSession, thread, hole, native, disposers,
          finishers, restarts, main, appFaults, raced
App == INSTANCE AndroidSession WITH
  Kinds <- AppKinds, session <- appSession, faults <- appFaults
ASSUME AppAssumption == ResumesMax \in Nat /\ ShutdownsMax \in Nat /\ AppKinds \subseteq {"psn", "local"}
appVars == <<resumes, generation, inFlight, field, appSession, thread, hole, native, disposers, finishers,
  restarts, main, appFaults, raced>>

(* Which of the catalogue's calls may be of a kind: the first two are nearly any two, a  *)
(* third one asks for the PS5 games or for details, while those run or after them.      *)
CatalogKindsOfCalls == [psnow |-> {1, 2}, ps5 |-> {1, 2, 3}, cross |-> {1, 2}, details |-> {2, 3}]

(* The consoles of the lists: a, a PlayStation 5 entered by hand, and b, hidden.    *)
HostAddresses == {"a1", "b1"}
HostPlaces == [x \in HostAddresses |-> IF x = "a1" THEN "a" ELSE "b"]
HostReports == {<<"b1">>}
HostDevicesListed == <<"a">>
HostProfiles ==
  <<[registered |-> {"a"}, hidden |-> {"b"}, manual |-> <<[addr |-> "a1", registered |-> TRUE, mac |-> "a"]>>],
    [registered |-> {"b"}, hidden |-> {}, manual |-> <<>>]>>

(* Discovery is off, or on for both protocols: the rest is a step away.             *)
HostInit == Host!Init /\ active.v4 = active.v6 /\ (active.v4 => ~dialog.discovered)

MCInit ==
  /\ part \in Parts
  /\ Init /\ (part # "pacing" => smooth)
  /\ IF part = "cloud" THEN Cloud!Init ELSE Cloud!AtRest
  /\ Catalog!Init /\ locale = 1 /\ (part # "catalog" => cache.library = Catalog!Missing)
  /\ IF part = "backend" THEN Back!Init ELSE Back!AtRest
  /\ IF part = "hosts" THEN HostInit ELSE Host!AtRest
  /\ Sync!Init
  /\ IF part = "controls" THEN Ctl!Init ELSE Ctl!AtRest
  /\ IF part = "outputs" THEN Out!Init ELSE Out!AtRest
  /\ IF part = "send" THEN SendInit ELSE AtRest
  /\ IF part = "video" THEN Video!Init ELSE Video!AtRest
  /\ IF part = "audio" THEN Audio!Init ELSE Audio!AtRest
  /\ IF part = "native" THEN Native!Init ELSE Native!AtRest
  /\ IF part = "app" THEN App!Init ELSE App!AtRest

MCNext ==
  \/ part = "pacing" /\ Next
     /\ UNCHANGED <<part, cloudVars, catalogVars, backVars, hostVars, syncVars, ctlVars, outVars,
                    sendVars, videoVars, audioVars, nativeVars, appVars>>
  \/ part = "cloud" /\ Cloud!Next
     /\ UNCHANGED <<part, pacingVars, catalogVars, backVars, hostVars, syncVars, ctlVars, outVars,
                    sendVars, videoVars, audioVars, nativeVars, appVars>>
  \/ part = "catalog" /\ Catalog!CatalogNext
     /\ UNCHANGED <<part, pacingVars, cloudVars, backVars, hostVars, syncVars, ctlVars, outVars,
                    sendVars, videoVars, audioVars, nativeVars, appVars>>
  \/ part = "backend" /\ Back!BackendNext
     /\ UNCHANGED <<part, pacingVars, cloudVars, catalogVars, hostVars, syncVars, ctlVars, outVars,
                    sendVars, videoVars, audioVars, nativeVars, appVars>>
  \/ part = "hosts" /\ Host!HostListNext
     /\ UNCHANGED <<part, pacingVars, cloudVars, catalogVars, backVars, syncVars, ctlVars, outVars,
                    sendVars, videoVars, audioVars, nativeVars, appVars>>
  \/ part = "sync" /\ Sync!SyncNext
     /\ UNCHANGED <<part, pacingVars, cloudVars, catalogVars, backVars, hostVars, ctlVars, outVars,
                    sendVars, videoVars, audioVars, nativeVars, appVars>>
  \/ part = "controls" /\ Ctl!ControlsNext
     /\ UNCHANGED <<part, pacingVars, cloudVars, catalogVars, backVars, hostVars, syncVars, outVars,
                    sendVars, videoVars, audioVars, nativeVars, appVars>>
  \/ part = "outputs" /\ Out!Next
     /\ UNCHANGED <<part, pacingVars, cloudVars, catalogVars, backVars, hostVars, syncVars, ctlVars,
                    sendVars, videoVars, audioVars, nativeVars, appVars>>
  \/ part = "send" /\ SendNext
     /\ UNCHANGED <<part, pacingVars, cloudVars, catalogVars, backVars, hostVars, syncVars, ctlVars,
                    outVars, videoVars, audioVars, nativeVars, appVars>>
  \/ part = "video" /\ Video!Next
     /\ UNCHANGED <<part, pacingVars, cloudVars, catalogVars, backVars, hostVars, syncVars, ctlVars,
                    outVars, sendVars, audioVars, nativeVars, appVars>>
  \/ part = "audio" /\ Audio!Next
     /\ UNCHANGED <<part, pacingVars, cloudVars, catalogVars, backVars, hostVars, syncVars, ctlVars,
                    outVars, sendVars, videoVars, nativeVars, appVars>>
  \/ part = "native" /\ Native!NativeNext
     /\ UNCHANGED <<part, pacingVars, cloudVars, catalogVars, backVars, hostVars, syncVars, ctlVars,
                    outVars, sendVars, videoVars, audioVars, appVars>>
  \/ part = "app" /\ App!AppNext
     /\ UNCHANGED <<part, pacingVars, cloudVars, catalogVars, backVars, hostVars, syncVars, ctlVars,
                    outVars, sendVars, videoVars, audioVars, nativeVars>>

MCSpec ==
  /\ MCInit /\ [][MCNext]_<<part, pacingVars, cloudVars, catalogVars, backVars, hostVars, syncVars, ctlVars, outVars, sendVars, videoVars, audioVars, nativeVars, appVars>>
  /\ WF_cloudVars(part = "cloud" /\ Cloud!Next)
  /\ \A s \in Sessions :
       WF_backVars(part = "backend" /\ Back!Stops(s)) /\ WF_backVars(part = "backend" /\ ~undefined /\ Back!RetryFires(s))
  /\ WF_backVars(part = "backend" /\ ~undefined /\ Back!Handles)
  /\ WF_outVars(part = "outputs" /\ Out!RumbleTimer) /\ WF_outVars(part = "outputs" /\ Out!RumbleCalled)
  /\ WF_videoVars(part = "video" /\ Video!AppMoves) /\ WF_videoVars(part = "video" /\ Video!InputMoves)
  /\ \A t \in Video!Codecs : WF_videoVars(part = "video" /\ Video!OutputMoves(t))

(* The datacenter a cloud session is begun in is the fastest that answered             *)
(* (CloudSession).                                                                   *)
FastestIsChosen == Cloud!FastestIsChosen
(* However the pages call: one login at most is under way and marked, a join is answered  *)
(* once, and what a call alone has stored for a day is all that its answers held           *)
(* (CloudCatalog). Nothing is said of the language it is stored for.                    *)
CatalogIsSound == Catalog!CatalogIsSound
(* What the desktop keeps beside its streams: the computer sleeps and consoles are looked   *)
(* for as the session asks (Backend), only the hosts the settings name have a service     *)
(* (HostList), and no edit of the settings is lost by a sync (SteamCloudSync).             *)
DesktopIsSound == Back!SleepAndDiscovery /\ Host!ServicesFollowSettings /\ Sync!NoEditIsLost
(* What the user does to a console in the list is done to that one (HostList).              *)
ActsOnWhatIsShown == Host!ActsOnWhatIsShown
(* Nothing stays pressed on the console that the player let go (Controls); what the        *)
(* microphone, the loudspeakers and the motors get is in order (Outputs).              *)
ControlsAndOutputs == Ctl!NothingStaysPressed /\ Out!OutputsAreSound
(* What the native side of the Android application holds is given back once, and nothing    *)
(* uses it afterwards, but for what they name: by the interface (AndroidNative) and the     *)
(* sessions (AndroidSession).                                                          *)
AndroidGivesBack == Native!NativeIsSound /\ App!SessionsAreSound
(* The decoder outlives the threads that use it (AndroidVideo), and the sound is played in   *)
(* the order it came (AudioBuffer).                                                   *)
AndroidPlays == Video!CodecOutlivesThreads /\ Audio!BytesInOrder
(* What the user begins comes to an end: a cloud session is there or refused, a stop        *)
(* stops, calls into the video decoder return, and the motors stop.                    *)
EveryFlowEnds ==
  /\ part = "cloud" => Cloud!StartEnds
  /\ part = "backend" => Back!StopEnds
  /\ part = "video" => Video!CallsReturn
  /\ part = "outputs" => Out!HapticsFade

(* What the repository says of the list and of the sync, and the code does not keep.      *)
ThisConsoleOnly == Host!ThisConsoleOnly
NewestWins == Sync!NewestWins
=============================================================================
