---------------------------- MODULE AndroidVideo ----------------------------
(* The video decoder of the Android application (app/src/main/cpp/video-decoder.c): *)
(* the application gives it surfaces, takes them away and frees it; the thread of      *)
(* the stream queues frames, the input thread hands them to the codec and the        *)
(* output thread takes them out, waiting in a call of the codec with no mutex.        *)
(* A codec is known by its number, and so is the output thread started for it.       *)
EXTENDS Naturals, Sequences

CONSTANTS
  FrameQueueCapacity,  \* ANDROID_CHIAKI_VIDEO_DECODER_FRAME_QUEUE_CAPACITY
  CodecsMax,           \* bound: codecs created
  FramesMax            \* bound: frames in a codec

VARIABLES
  codec,           \* decoder->codec, 0 for NULL
  created,         \* how many codecs there have been
  running,         \* codecs that were started and not stopped
  deleted,         \* codecs that were deleted
  inside,          \* frames in the codec
  codecMutex,      \* who holds codec_mutex
  shutdownOutput,
  frameQueue,      \* how many frames are queued
  queueShutdown,   \* frame_queue_shutdown
  inputRunning,    \* input_thread_running
  inputThread,     \* "none", "loop", "frame", "submit", "ended"
  outputThreads,   \* of each codec: "none", "loop", "dequeue", "error", "ended"
  app,             \* where the application is in its call
  freed,           \* it is in, or after, sessionFree
  stray            \* history: output threads left behind when their codec was deleted

videoVars == <<codec, created, running, deleted, inside, codecMutex, shutdownOutput, frameQueue,
               queueShutdown, inputRunning, inputThread, outputThreads, app, freed, stray>>

Codecs == 1 .. CodecsMax

(* android_chiaki_video_decoder_init                                         *)
Init ==
  /\ codec = 0 /\ created = 0 /\ running = {} /\ deleted = {} /\ inside = 0 /\ codecMutex = "free"
  /\ shutdownOutput = FALSE /\ frameQueue = 0 /\ queueShutdown = TRUE /\ inputRunning = FALSE
  /\ inputThread = "none" /\ outputThreads = [c \in Codecs |-> "none"] /\ app = "idle" /\ freed = FALSE
  /\ stray = {}
AtRest ==
  /\ codec = 0 /\ created = 0 /\ running = {} /\ deleted = {} /\ inside = 0 /\ codecMutex = "free"
  /\ shutdownOutput = FALSE /\ frameQueue = 0 /\ queueShutdown = TRUE /\ inputRunning = FALSE
  /\ inputThread = "none" /\ outputThreads = [c \in Codecs |-> "none"] /\ app = "over" /\ freed = TRUE
  /\ stray = {}

queueState == <<frameQueue, queueShutdown>>
codecs == <<codec, created, running, deleted, inside>>

------------------------------------------------------------------------------
(* android_chiaki_video_decoder_set_surface with a surface, under codec_mutex: the  *)
(* surface of a codec is swapped; otherwise a codec is created, configured, started  *)
(* and given its threads, each of which may fail.                              *)
SetSurface ==
  /\ app = "idle" /\ ~freed /\ codecMutex = "free" /\ codec = 0 /\ created < CodecsMax
  /\ created' = created + 1 /\ inside' = 0
  /\ \/ \* no codec, or no output thread
        /\ deleted' = deleted \cup {created'}
        /\ UNCHANGED <<codec, running, queueState, inputRunning, inputThread, outputThreads, stray>>
     \/ \* no input thread: the codec is deleted under the output thread
        /\ outputThreads' = [outputThreads EXCEPT ![created'] = "loop"] /\ stray' = stray \cup {created'}
        /\ deleted' = deleted \cup {created'} /\ frameQueue' = 0 /\ queueShutdown' = FALSE
        /\ UNCHANGED <<codec, running, inputRunning, inputThread>>
     \/ /\ codec' = created' /\ running' = running \cup {created'}
        /\ outputThreads' = [outputThreads EXCEPT ![created'] = "loop"]
        /\ frameQueue' = 0 /\ queueShutdown' = FALSE /\ inputRunning' = TRUE /\ inputThread' = "loop"
        /\ UNCHANGED <<deleted, stray>>
  /\ UNCHANGED <<codecMutex, shutdownOutput, app, freed>>

(* .. without one, and android_chiaki_video_decoder_fini at the end of sessionFree:  *)
(* the input thread is stopped and joined first.                               *)
(* Mutant: the input thread is waited for but not told.                          *)
StopInput_Silent(last) ==
  /\ app = "idle" /\ ~freed /\ freed' = last /\ app' = (IF inputRunning THEN "join_input" ELSE "kill")
  /\ UNCHANGED <<codecs, codecMutex, shutdownOutput, queueState, inputRunning, inputThread, outputThreads, stray>>
StopInput(last) ==
  /\ app = "idle" /\ ~freed /\ freed' = last
  /\ IF inputRunning THEN queueShutdown' = TRUE /\ app' = "join_input"
     ELSE app' = "kill" /\ UNCHANGED queueShutdown
  /\ UNCHANGED <<codecs, codecMutex, shutdownOutput, frameQueue, inputRunning, inputThread, outputThreads, stray>>
InputJoined ==
  /\ app = "join_input" /\ inputThread = "ended"
  /\ inputThread' = "none" /\ inputRunning' = FALSE /\ app' = "kill"
  /\ UNCHANGED <<codecs, codecMutex, shutdownOutput, queueState, outputThreads, freed, stray>>

(* kill_decoder: with an input buffer for the end of the stream the codec is         *)
(* stopped and the output thread joined; without one within 1 ms the codec is         *)
(* stopped and deleted and nobody waits for the thread. Unless it gets the end of the  *)
(* stream before the stop, which forgets it, the thread ends by shutdown_output.    *)
Kill ==
  /\ app = "kill" /\ codecMutex = "free"
  /\ IF codec = 0 THEN app' = (IF freed THEN "over" ELSE "idle") /\ UNCHANGED <<shutdownOutput, running, stray>>
     ELSE /\ shutdownOutput' = TRUE /\ running' = running \ {codec}
          /\ \/ app' = "join_output" /\ UNCHANGED stray
             \/ app' = "delete" /\ stray' = stray \cup {codec}
  /\ \/ UNCHANGED outputThreads
     \/ app' = "join_output" /\ outputThreads[codec] = "dequeue" /\ outputThreads' = [outputThreads EXCEPT ![codec] = "ended"]
  /\ UNCHANGED <<codec, created, deleted, inside, codecMutex, queueState, inputRunning, inputThread, freed>>
(* Mutant: the codec is deleted without waiting for its output thread.            *)
OutputJoined_AtOnce ==
  /\ app = "join_output" /\ app' = "delete"
  /\ UNCHANGED <<codecs, codecMutex, shutdownOutput, queueState, inputRunning, inputThread, outputThreads,
                 freed, stray>>
OutputJoined ==
  /\ app = "join_output" /\ outputThreads[codec] = "ended" /\ app' = "delete"
  /\ UNCHANGED <<codecs, codecMutex, shutdownOutput, queueState, inputRunning, inputThread, outputThreads,
                 freed, stray>>
Delete ==
  /\ app = "delete" /\ deleted' = deleted \cup {codec} /\ codec' = 0 /\ shutdownOutput' = FALSE
  /\ app' = IF freed THEN "over" ELSE "idle"
  /\ UNCHANGED <<created, running, inside, codecMutex, queueState, inputRunning, inputThread, outputThreads,
                 freed, stray>>

------------------------------------------------------------------------------
(* android_chiaki_video_decoder_video_sample_timed: a full queue loses its oldest    *)
(* frame, so the thread of the stream never waits.                             *)
VideoSample ==
  /\ ~queueShutdown /\ ~freed /\ frameQueue < FrameQueueCapacity /\ frameQueue' = frameQueue + 1
  /\ UNCHANGED <<codecs, codecMutex, shutdownOutput, queueShutdown, inputRunning, inputThread, outputThreads,
                 app, freed, stray>>

(* android_chiaki_video_decoder_input_thread_func: under frame_queue_mutex a frame    *)
(* is taken or, once shut down, the rest is freed; under codec_mutex it is handed     *)
(* to the codec, or dropped when no buffer comes within 10 ms.                    *)
InputTakes ==
  /\ inputThread = "loop" /\ (frameQueue > 0 \/ queueShutdown)
  /\ IF queueShutdown THEN inputThread' = "ended" /\ frameQueue' = 0
     ELSE inputThread' = "frame" /\ frameQueue' = frameQueue - 1
  /\ UNCHANGED <<codecs, codecMutex, shutdownOutput, queueShutdown, inputRunning, outputThreads, app, freed, stray>>
InputLocks ==
  /\ inputThread = "frame" /\ codecMutex = "free"
  /\ IF codec = 0 THEN inputThread' = "loop" /\ UNCHANGED codecMutex
     ELSE inputThread' = "submit" /\ codecMutex' = "input"
  /\ UNCHANGED <<codecs, shutdownOutput, queueState, inputRunning, outputThreads, app, freed, stray>>
InputSubmits ==
  /\ inputThread = "submit" /\ inputThread' = "loop" /\ codecMutex' = "free"
  /\ inside' \in {inside} \cup (IF inside < FramesMax THEN {inside + 1} ELSE {})
  /\ UNCHANGED <<codec, created, running, deleted, shutdownOutput, queueState, inputRunning, outputThreads, app,
                 freed, stray>>

(* android_chiaki_video_decoder_output_thread_func: it waits in the codec for as     *)
(* long as it takes, gets a frame, or something else, which is the error of a       *)
(* stopped codec or news of its format, and looks at shutdown_output. What a thread  *)
(* left behind does is undefined.                                            *)
OutputWaits(t) ==
  /\ outputThreads[t] = "loop" /\ t \notin stray
  /\ outputThreads' = [outputThreads EXCEPT ![t] = "dequeue"]
  /\ UNCHANGED <<codecs, codecMutex, shutdownOutput, queueState, inputRunning, inputThread, app, freed, stray>>
OutputFrame(t) ==
  /\ outputThreads[t] = "dequeue" /\ t \in running /\ inside > 0 /\ inside' = inside - 1
  /\ outputThreads' = [outputThreads EXCEPT ![t] = "loop"]
  /\ UNCHANGED <<codec, created, running, deleted, codecMutex, shutdownOutput, queueState, inputRunning,
                 inputThread, app, freed, stray>>
OutputError(t) ==
  /\ outputThreads[t] = "dequeue" /\ t \notin stray
  /\ outputThreads' = [outputThreads EXCEPT ![t] = "error"]
  /\ UNCHANGED <<codecs, codecMutex, shutdownOutput, queueState, inputRunning, inputThread, app, freed, stray>>
OutputChecks(t) ==
  /\ outputThreads[t] = "error" /\ codecMutex = "free" /\ t \notin stray
  /\ outputThreads' = [outputThreads EXCEPT ![t] = IF shutdownOutput THEN "ended" ELSE "loop"]
  /\ UNCHANGED <<codecs, codecMutex, shutdownOutput, queueState, inputRunning, inputThread, app, freed, stray>>

AppMoves == InputJoined \/ Kill \/ OutputJoined \/ Delete
InputMoves == InputTakes \/ InputLocks \/ InputSubmits
OutputMoves(t) == OutputWaits(t) \/ OutputChecks(t) \/ (t \notin running /\ OutputError(t))
Next ==
  \/ SetSurface \/ (\E last \in BOOLEAN : StopInput(last)) \/ AppMoves \/ VideoSample \/ InputMoves
  \/ \E t \in Codecs : OutputWaits(t) \/ OutputFrame(t) \/ OutputError(t) \/ OutputChecks(t)
Fairness ==
  WF_videoVars(AppMoves) /\ WF_videoVars(InputMoves) /\ \A t \in Codecs : WF_videoVars(OutputMoves(t))
Spec == Init /\ [][Next]_videoVars /\ Fairness

------------------------------------------------------------------------------
(* A codec is only deleted when no output thread can be in a call of it or go back    *)
(* to it, but for the threads the code itself leaves behind (no buffer for the end    *)
(* of the stream, no input thread); and the input thread is gone before its codec.  *)
CodecOutlivesThreads ==
  /\ \A t \in deleted \ stray : outputThreads[t] \in {"none", "ended"}
  /\ codec = 0 => inputThread \in {"none", "ended"}

(* Whatever the threads are waiting for, a surface can be taken away and the        *)
(* session be freed.                                                         *)
CallsReturn == [](app \notin {"idle", "over"} => <>(app \in {"idle", "over"}))
=============================================================================
