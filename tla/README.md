# CloudPad-Android verification project

TLA+ models of CloudPad (a fork of chiaki-ng / Pylux): the streaming library
under `src/lib`, which every front end of the repository links, and what its two
clients, the desktop client under `src/gui` and the Android application under
`src/android`, build around it. The modules are checked with TLC on small
instances (`*.cfg`) and, where a `*_proofs` module exists, proved with TLAPS for
every value of the constants. `PROJECT.json` lists the runs, which definition
models which lines, the hazards, the findings and the theorems.

## 1. Inventory

A client finds consoles (*discovery*), is made known to one (*registration*), or
asks a cloud service for one (*cloud catalogue*, *cloud session*). It creates a
*session*, for a console in another network after a *holepunch*. The session
thread talks to the console over *ctrl* (TCP, or *rudp* over the punched socket),
measures the link with *senkusha*, and then runs the *stream connection*, which
owns a *takion* connection (reliable and unreliable messages over UDP). Takion
decrypts with *gkcrypt*, orders reliable messages with the *reorder queue*,
retransmits with the *send buffer*, and calls the stream connection back; this
feeds the *video* and *audio receivers* and runs the *feedback sender* and
*congestion control*. What comes out goes to the decoders and outputs of the
client, what the player does comes in through its controllers.

### The library (`src/lib/src`)

| component | files | state | operations | what makes it hard, what makes it correct |
|---|---|---|---|---|
| sequence numbers, reorder queue | `reorderqueue.c`, `../include/chiaki/seqnum.h` | `begin`, `count`, ring of entries, drop strategy | push, pull, peek, drop, fini | numbers and ring index wrap at different places; stale slots; a full window. Each packet is pulled in order, at most once, and what is not pulled is handed back once |
| takion send buffer | `takionsendbuffer.c` | packet array, `should_stop`, mutex, condition | push, ack, resend thread, fini | three threads; the resend walk drops the mutex in the middle; cumulative acknowledgements across the wrap. Nothing unacknowledged disappears, everything leaves in the end |
| key stream buffer | `gkcrypt.c` | ring of key stream, window, `last_key_pos` | readers, generator thread, fini | the generator writes without the mutex; readers far ahead move the window. A reader gets the key stream of its position; the generator never sleeps on work |
| key positions | `gkcrypt.c` (`ChiakiKeyState`) | `prev` | request_pos, commit | 64-bit position from its low 32 bits under reordering |
| takion | `takion.c` | receive thread, receive list, postponed packets, data queue, keys, counters | connect, handshake, receive, handle, postpone, re-check MACs, send, close | two threads and a closer, keys that arrive late, a handshake over a lossy network, several senders. Packets are handled in order, all of them before the thread leaves; close returns; a failed connect leaves nothing; no two packets share key stream |
| stream connection | `streamconnection.c` | the run thread's place, state / `state_finished` / `state_failed` / stop / disconnected, early STREAMINFO, receivers, senders | run, takion callbacks, stop, controller updates | timed waits racing messages and stops; STREAMINFO before BANG; teardown order. Objects outlive the threads that use them, stops end it |
| mutexes, conditions, stop pipe | `thread.c`, `stoppipe.c` | - | lock, predicate waits, signal, join, select | part of every module with threads |
| video receiver, frame processor | `videoreceiver.c`, `frameprocessor.c`, `fec.c`, `bitstream.c` | frame indices, unit slots, reference frames, loss counters | av packet, stream info, flush | late and missing units, wrap of 16-bit frames, loss reports |
| audio receiver, cloud reassembler | `audioreceiver.c`, `pscloud_audio_reassembler.c` | last frame, generation, slots, deadline | av packet, flush | late, doubled and lost packets, FEC copies, two sinks. Frames are played in order and once |
| feedback sender | `feedbacksender.c`, `feedback.c` | newest and previous controller state, history buffer | set state, thread, stop | changes merged between wakeups, lost packets. The console ends up with what the player holds |
| packet statistics, congestion control | `packetstats.c`, `congestioncontrol.c` | counters of generations and sequence | push, get-and-reset, thread | read and reset from another thread in the middle of a count; a cap on what is told. What is told adds up |
| session, ctrl | `session.c`, `ctrl.c` | session phase, login pin, ctrl flags, message queue | start, stop, ctrl messages, pin, go home | two mutexes, three threads and the application; one pipe for three purposes. A stop ends the session, QUIT comes last and once |
| senkusha | `senkusha.c` | phase, rtt and mtu | run, callbacks | waits as in the stream connection; bisection over lossy probes; packets of a cloud session that are wrapped and may be broken up |
| rudp, holepunch | `remote/` | send buffer; notification queue, session flags; candidates, sockets | create, start, punch, cancel, fini; choose a candidate; send, ack, resend | notifications of two connections interleaved, repeated or early; failures with many sockets open; a console that leaves |
| discovery, registration | `discovery*.c`, `regist.c` | host list; registration thread | ping, drop, stop; register over the network or a punched socket | hosts that stop answering; a stop during every step, addresses that do not work |
| ciphers, encodings, parsers | `rpcrypt.c`, `ecdh.c`, `base64.c`, `http.c`, ... | none | | arithmetic over bytes |
| decoders | `ffmpegdecoder.c`, `opus*.c`, `pidecoder.c` | external | | adapters |

### The clients

| component | files | state | what makes it hard, what makes it correct |
|---|---|---|---|
| cloud session | `gui/src/cloudstreamingbackend.cpp`, `cloudstreaming/*.cpp` | request under way, keys, ping results, queue for a slot | a timer racing the threads of the pings; a queue whose limit is set by the first answer to it; retries. The fastest datacenter is taken, every start ends, once |
| cloud catalogue | `gui/src/cloudcatalogbackend.cpp` | state shared by all callers of a kind, cache files | calls that overlap, answers without the list they should bring. The login flag is true, nothing incomplete is kept without a reason |
| backend and sessions | `gui/src/qmlbackend.cpp`, `streamsession.cpp` | session objects, their threads, sleep, discovery, timers | queued signals of objects that are gone, retries, sleep and resume, a session that displaces another |
| input | `controllermanager.cpp`, `streamsession.cpp`, `qmlmainwindow.cpp`, `lib/src/controller.c` | keyboard, mouse, touches, controller, emulated touchpad, input block | a release that comes while a menu or shortcut has the controls. Nothing stays pressed |
| outputs | `streamsession.cpp` | sound card, microphone, rumble, haptics, triggers | four threads and a stream that starts again |
| host list | `qmlbackend.cpp`, `discoverymanager.cpp`, `settings.cpp` | list of discovered hosts, services, registered, hidden and manual hosts, hosts of PSN | an index into a list that is put together twice by different rules while threads change it |
| Steam Cloud sync | `steamworks/steamworks_cloud_sync.cpp` | local and cloud file with their times, backups | two computers, two clocks. No edit is lost |
| Android native interface | `chiaki-jni.c` | the parts of each object | a failure half way, threads that call back. What is made is given back, in order, and not used after |
| Android video and audio | `video-decoder.c`, `audio-output.cpp`, `circular-*.hpp` | codec, two threads, frame queue, surface; the schedule of frames; the ring | a surface taken away under the threads; times computed from measured jitter; a queue without locks |
| Android session | `StreamSession.kt`, `Chiaki.kt` | generation, session, holepunch session | a shutdown between two steps of a connection on another thread, a cancel of the main thread that meets its free |
| other Android code, other front ends | Kotlin screens, `src/switch`, `src/ios`, `src/cli`, `src/setsu`, `src/steamdeck_native` | user interface | clients of the same library |

### How they meet

* application -> session: `chiaki_session_stop`, `set_login_pin`, `go_home`,
  `set_controller_state`, from any thread; session -> application: events, the
  last of which is QUIT;
* session thread -> ctrl thread: messages queued under `notif_mutex` and one
  pipe that wakes it; ctrl thread -> session thread: `state_mutex`, `state_cond`;
* session thread -> stream connection, senkusha: calls that return when the phase
  is over; the stop goes in through their own stop;
* takion thread -> stream connection: callbacks for events, data and AV;
  `state_mutex` is taken by them, and released by the run thread while it
  connects, sends events, closes;
* takion -> send buffer: push from any sender, ack from the takion thread, the
  resend thread sends through the takion socket;
* takion -> reorder queue: only the takion thread, so the queue has no mutex;
* takion -> gkcrypt: remote from the takion thread, local from every sender;
* holepunch, candidates, rudp, registration hand each other a socket or a value,
  never shared state;
* desktop client: everything of the interface runs on the event loop; session,
  PSN worker, pings and discovery services are threads that post to it (and, in
  the host list, also write what it reads);
* Android: the main thread, one thread per connection and per disposal, and the
  threads of the library, which call back through the native interface.

## 2. Modules

A step of a model is what the code does between two unlocks, waits or blocking
calls, or one handler of an event loop. Fields keep the names of the source;
variables marked "history" record what the properties speak of, "bound" what
keeps the state space finite.

| module | models | state and actions |
|---|---|---|
| `SeqNum` | `seqnum.h`, the helpers of `reorderqueue.c` | `SeqLt`, `SeqGt`, `SeqAdd` over `NumberSpace` numbers; `AddWraps` FALSE is the 16-bit instance, whose sum is promoted to `int` and keeps its carry |
| `ReorderQueue` | `reorderqueue.c` | `Push` is split by the code's early returns (`PushInside`, `PushTooOld`, `PushBeyond`), the loop of the front strategy is `FrontDrops`; `Pull`, `SetDropStrategy`, `Fini` |
| `PacketWindow` | the promise of `reorderqueue.h` | packets by unbounded position; `Accept`, `Deliver`, `Close`. `ReorderQueue` implements it (`ImplementsWindow`), `TakionReceive` uses it as its data queue |
| `TakionSendBuffer` | `takionsendbuffer.c` | each unlock is a step boundary: `CheckPredicate`/`Park`/`WokenBySignal`/`WokenByTimeout`, `GiveUp`/`ResumeResend`, `FiniStop`/`FiniSignal`/`FiniJoin` |
| `AckCompaction` | the acknowledgement | the memmove loop, an action per branch; its effect is an operator of `TakionSendBuffer` and of `Rudp` |
| `GKCryptKeyBuf` | the ring of `gkcrypt.c` | readers (`GetKeyStream`, `SignalGenerator`), generator (`Wait`, `SkipAhead`, `DropFirstChunk`, `BeginChunk`, `FinishChunk`, `ChunkFails`), fini |
| `KeyState` | `ChiakiKeyState` and its caller | `RequestPos` with the code's two comparisons |
| `TakionReceive` | the receive side of `takion.c` | receive thread, takion thread, closer; `recvQueue`, `postponed`, `dataQueue`; the re-check of MACs when the key arrives |
| `TakionSend` | connecting and sending in `takion.c` | `chiaki_takion_connect` with what each failing step undoes, INIT and COOKIE over a network that loses, delays and repeats, the senders that take a position in the key stream and a sequence number before they send (`TakeKeyPos`, `TakeSeqNum`), the send that fails after it (`SendFails`), the push to the send buffer; `SetCrypt` is where the stream connection hands the key over |
| `StreamConnection` | `chiaki_stream_connection_run` and what runs beside it | `pc` is the place in run (a wait is `connect`, `bang`, `info`, `stream`, with `parked` while its mutex is released); `takion`, `congestion`, `active`, `sender`, `receivers` say which helpers live |
| `VideoReceiver` | `videoreceiver.c` with `frameprocessor.c` | `AvPacket` is the whole of `chiaki_video_receiver_av_packet`: `NextFrame` (`ReportStats`, `ForcedFlush`, `ReportGap`, `AllocFrame`), then `Fill` (`PutUnit`, `FlushFrame`) |
| `AudioReceiver` | `audioreceiver.c`, `pscloud_audio_reassembler.c` | packets of a console with copies of older frames; generations of a cloud session with their slots, flush and timeout |
| `FeedbackSender` | `feedbacksender.c`, `feedback.c` | changes of the player, the wakeup of the thread, the history packet that repeats older events, losses |
| `CongestionControl` | `packetstats.c`, `congestioncontrol.c` | a count in three steps (`CountRead`, `CountWritten`, `MaxMoves`) beside the report and a reset in two (`ResetsMin`, `ResetsCount`); the cap and the 16 bits of a report; frames of video. The three reads of `chiaki_packet_stats_get` are one step, and a packet of audio is one number |
| `Session` | `session.c`, `ctrl.c`, the thread of `regist.c` as the session sees it | three threads and the application; both mutexes are held over long stretches, so `StateHeld` and `NotifHeld` say at which places; the queue and the one pipe of ctrl |
| `Senkusha` | `senkusha.c` | connect, version, pings, the bisection in both directions with late and lost answers. `Passes` says which probes arrive: those of a console within the MTU, those of a cloud session with the wrapper of PSNOW, or whole through a path that lets fragments pass |
| `Holepunch` | `remote/holepunch.c` | the calls create, start, punch (ctrl, data), fini; the websocket thread; PSN and the console as what may arrive |
| `Candidates` | `check_candidates` and the port guessing of `holepunch.c`, `stun.h` | sockets opened, polled and closed on each way out; the step of a router's ports |
| `Rudp` | `remote/rudp.c`, `rudpsendbuffer.c` | senders, acknowledgements, the resend thread that gives up, `chiaki_rudp_send_buffer_fini` beside it |
| `Regist` | `regist.c` | search over the addresses of a host one by one (`TryAddress`), connect, request, answer piece by piece, over the network and over a punched socket, with a stop at every step; `left` counts the sockets that are given up open |
| `DiscoveryService` | `discoveryservice.c`, `discovery.c` | pinger and receiver over one list |
| `CloudSession` | `cloudstreamingbackend.cpp`, `pskamajisession.cpp`, `psgaikaistreaming.cpp`, `datacenterping.cpp` | an action per answer of a request, the race of the pings with their timer, the queue for a slot, whose limit the first wait sets (`FirstWait`) |
| `CloudCatalog` | `cloudcatalogbackend.cpp` | an action per answer, of one that brings no list too (`absent`, `cut`); one category or page after the other; what callers of a kind share is one variable per member |
| `Backend` | `qmlbackend.cpp`, the life of `StreamSession` | objects and the signals they have posted; `Handles` is a slot of the event loop |
| `HostList` | `qmlbackend.cpp`, `discoverymanager.cpp`, `settings.cpp` | `Listed` is what `hosts()` shows, `ServerAt` what `displayServerAt` finds at a place |
| `SteamCloudSync` | `steamworks_cloud_sync.cpp` | edits, uploads and downloads with the times they leave, backups |
| `Controls` | `streamsession.cpp`, `controllermanager.cpp`, `qmlmainwindow.cpp`, `controller.c` | the sources of input, their merging, the input block |
| `Outputs` | `streamsession.cpp` | sound card, microphone, rumble and haptics |
| `AndroidNative` | `chiaki-jni.c` | per kind of object (session, session in the cloud, discovery service, registration, wake-up) the order in which its parts are made and undone |
| `AndroidVideo`, `VideoPacing` | `video-decoder.c` | application, input thread, output threads around a codec; the time a frame is shown at |
| `AudioBuffer` | `circular-buf.hpp`, `circular-fifo.hpp`, `audio-output.cpp` | each access to the memory of the other side is a step |
| `AndroidSession` | `StreamSession.kt`, `Chiaki.kt` | resume, shutdown in two steps of the main thread (the new generation, then `cancel()` on the holepunch session it saw), the threads that connect and dispose |
| `MCTakion`, `MCGKCryptKeyBuf`, `MCStream`, `MCSession`, `MCRemote`, `MCClients` | - | compose the parts and give TLC their values |
| `GKCryptKeyBuf_proofs` | - | theorems of `GKCryptKeyBuf` and `KeyState` |
| `Takion_proofs` | - | of `ReorderQueue`, `TakionReceive`, `AckCompaction`, `TakionSendBuffer` |
| `StreamConnection_proofs` | - | of `StreamConnection`, `CongestionControl`, `VideoReceiver`, `AudioReceiver` |
| `Session_proofs` | - | of `Session`, `Senkusha` |
| `Remote_proofs` | - | of `Candidates`, `DiscoveryService`, `Holepunch` |
| `Clients_proofs` | - | of `SteamCloudSync`, `CloudSession`, `CloudCatalog`, `Backend`, `HostList` |
| `Devices_proofs` | - | of `VideoPacing`, `TakionSend`, `Controls`, `Outputs`, `AndroidNative`, `AndroidVideo`, `AudioBuffer`, `AndroidSession` |

Composition. Where two parts share state they are one module (`Session` holds
the session, ctrl and registration threads and the application; `TakionReceive`
holds three threads around `PacketWindow`; `StreamConnection` keeps of takion its
life and its callbacks). Where one hands the other a value, the MC module puts
them side by side and lets one part move while the others are `AtRest`: their
state is disjoint, so nothing is lost, and a property of a part is checked on
all of that part's behaviours.

## 3. Runs

| run | bounds | shows |
|---|---|---|
| `takion` | data queue of 2, 1 postponed packet, receive list of 2, 3 data and 3 AV packets; ring of 4 over 16 numbers, positions 13..20, both strategies; 2 senders, 2 slots, 8 numbers, one retry; all subsets of 8 slots | all orders of arrival, key arrival and close: the queue is drained before the thread leaves, AV keeps its order, close returns. The ring never loses or repeats a packet, keeps every packet that fits and implements `PacketWindow`; no unacknowledged packet disappears and every one leaves in the end; the memmove loop removes exactly the acknowledged packets (`ClosesAllGaps`, a part of `NothingVanishes`) |
| `gkcrypt` | chunk 2, ring of 2 chunks, 2 readers, positions to 6; 8 numbers, positions to 40 | reads across the end of the ring, behind and beyond the window, during a chunk, with failure and fini: every request is caught up with and fini returns; five wraps of the low half of a position |
| `stream` | 2 disconnect reasons (nothing else of the connection is bounded); video: 6 frame numbers, 8 frames, layouts with and without FEC, 2 references; audio: 5 generations, 3 losses, 16 numbers and 18 packets for a console; feedback: 2 buttons, history of 3, 3 changes, 2 losses; statistics: 3 audio packets over 6 numbers, 1 frame of video, 2 reports, a cap of one half | a whole life of run with every failure, timeout, stop and message order; frames in order, losses reported, references kept, audio in order, the console follows the player, the losses of all reports add up, but for what the cap withholds and what a count that meets a reset shifts |
| `session` | 3 messages of the console and 2 calls of the application, 2 addresses, sessions of all four kinds; MTU 3..7, paths below, at and between the ends, whole or with fragments, a wrapper of 1, 2 retries | QUIT comes last, once and with a true reason; PINs answer requests; a stop ends the session and queued messages are sent, but for the lock-ups of section 4; the MTU found is, where nothing is lost, the largest size that arrives, and, the smallest size aside, never one that does not |
| `remote` | an offer repeated once, 2 notifications under way, one cancel; 2 candidates, 1 extra socket, 3 packets; 2 senders, 3 messages, 2 tries; 3 addresses of a host and 2 packets of others in a registration; 3 hosts in a list of 3, 4 pings | no notification is used for two things; calls return; fini of the reliable messages does too, but for a signal it misses; a registration ends, with the event its stop and its answer ask for; one socket is left, connected to someone who answered; the list is current |
| `clients` | see below | the parts of both clients |
| `send_buffer_fini` (violation) | 1 sender | fini can lose its wakeup when the buffer is empty |
| `takion_recheck` (violation) | as in `takion` | the key arrives with a packet out of order |
| `video_gap` (violation) | as in `stream` | a gap of frames across the wrap is not counted as the code says |
| `session_sends` (violation) | as in `session` | two threads send on ctrl at once |
| `newest_wins` (violation) | as in `clients` | an older edit replaces a newer one |
| `host_list` (violation) | as in `clients` | a delete meets another console |

Why they are enough. A ring of 4 and 16 numbers keeps the ratio that matters (the
window is smaller than half the number space) and lets both wrap in a few steps.
Two senders or readers suffice because they only meet at the mutex. One retry is
the smallest count that has a packet that is resent and one that is given up.
Eight frames cross the wrap of six frame numbers; the two references of a frame
are too few for a number to mean an older frame, as 16 of 65536 are. Three
messages on ctrl are the shortest history with a PIN request, a second one and
something between. MTU 3..7 takes the bisection through both halves and both
ends.

Bounds of `clients`, part by part: pacing has no counter, its times are those of one
frame relative to the one before, the inputs are gaps, cushions and intervals on
both sides of every comparison. Cloud: 2 datacenters whose times are below, at and
above the limit, 2 tries of a lock, estimates on both sides of the default limit and above
the greatest one, different from answer to answer though only the first counts.
Catalogue: 3 calls, the least with two overlapping and one that reads what they
left; which call may be of which kind is `CatalogKindsOfCalls` (any two together, and
a third for the PS5 games or for details); 2 categories, 2 pages, 1 product, 2
languages. Backend:
2 sessions, 2 consoles, one retry. Host list: 2 consoles (one hidden, one entered
by hand), a console of PSN, 2 profiles, 2 acts of the user between any number of
steps of the services and workers; discovery starts off or on for both protocols.
Sync: 2 computers, 2 edits, 4 seconds with a tolerance of 1. Controls: 6 presses
or releases over keyboard, controller, mouse and touch, 2 openings of the menu.
Outputs: 5 steps of what comes in. Takion's sending: 3 tries, 2 threads, sizes on
both sides of a block, 3 packets, any of which fails. Video: 2 codecs, so that one replaces another,
2 frames. Audio: 2 chunks of 2 bytes, filled more than twice. Native: 2 objects of
the five kinds. Application: 2 resumes and 2 shutdowns, over PSN and locally.

Deadlock. Every configuration has `CHECK_DEADLOCK FALSE`: all these systems
really stop, after fini, close, the QUIT event or at a bound on what the
environment does. That they do stop when they should is a property of its own
(`EveryCloseReturns`, `StopEndsRun`, `StopEndsSession`, `GeneratorAnswers`,
`EveryCallReturns`, `EveryFlowEnds`), not left to the deadlock check.

Joined properties. The composed modules put properties of several modules under one
name (`NothingVanishes`, `EveryCallReturns`, `DesktopIsSound`, `ControlsAndOutputs`,
`AndroidGivesBack`, `AndroidPlays`, `EveryFlowEnds`); the comment above says what each
module contributes. Each of those modules has a mutant of its own that breaks its
share, and so have the main parts of `CatalogIsSound` (the login, what is stored),
`PacketsAreAcceptable` (the handshake, the key stream, the numbers of failed sends),
`LossAddsUp` (the counts, the cap) and `MtuIsExact` (the bisection, what arrives).

Fairness. Threads are scheduled, a mutex that is free is handed over, timed
waits end and the clock ticks: weak fairness of each thread's own steps. Nothing
is assumed of senders, of the network, of the application, of the player or of
the console. Strong fairness is used where a mutex is needed that another holds
for moments, again and again: in `StreamConnection` for the two steps that need
the feedback mutex, in `Session` for `ForwardPin` and `StopCtrl`, which need
ctrl's mutex between two of its waits. The select of `TakionReceive` and that of
the websocket thread (`Holepunch`) are fair only when something arrived or the
stop was written, as in the code; ctrl's select likewise. `CloudSession` is fair
as a whole because every request of Qt ends (answered, refused or by its socket);
`Backend` needs the stop of a session's thread, the retry timer and the event
loop; `Outputs` the timer of the haptics; `AndroidVideo` the two threads and the
call the application is in.

Assumptions of the environment. The console sends well-formed messages, one BANG
and one STREAMINFO after BIG; video packets have a unit index inside their frame,
one layout per frame, and are less than half the frame numbers from the current
one. Memory can be allocated where a module does not say otherwise. A timed wait
succeeds or times out (`thread.c:246` can build a `timespec` with a full second
of nanoseconds; left out). AES and GMAC are values: the key stream of a position is the
position, a MAC is right or wrong. Web requests succeed, fail or bring one of the
answers the code tells apart.

## 4. What was found

Each is a run that TLC violates:

* `chiaki_takion_send_buffer_fini` can wait forever (`send_buffer_fini`).
* The re-check of MACs dereferences a null pointer as soon as there is
  something to re-check (`takion_recheck`).
* Units of frames that were skipped across the wrap of the frame numbers are
  subtracted from the loss count (`video_gap`).
* Two threads use ctrl's send path, against the comment that only the ctrl thread
  does (`session_sends`).
* Sync through Steam Cloud compares the time of an upload with that of an edit, so
  the newer edit can lose (`newest_wins`); the backup keeps it, which
  `NoEditIsLost`, a part of `DesktopIsSound`, checks.
* Deleting a console from the list can delete another (`host_list`).

The properties that hold name the exceptions the code really has. What follows
was seen while modelling; an entry with a property in parentheses is an exception
that property states, the others are outside the models.

Library.

* Session: the session thread hands a PIN to ctrl under `state_mutex` while the
  ctrl thread holds its own mutex and wants `state_mutex` (`session.c:756`,
  `StopEndsSession`); a stop is lost when ctrl resets its pipe after another
  message (`ctrl.c:393`, same); `chiaki_regist_fini` joins with `state_mutex` held
  (`session.c:620`); a message queued while ctrl connects cancels the connect
  (`ctrl.c:242`); a reason for quitting is overwritten (`ctrl.c:326`); a stop
  during the wait for the switch leaves none.
* Takion: close looks at `recv_thread_started` before it is set (`takion.c:582`);
  `chiaki_takion_send_buffer_push` may fail unheard (`:782`); a full array of
  postponed packets leaks one (`:1567`). A failed send has taken its sequence
  number, which no other message gets (`:775`, `PacketsAreAcceptable`: `wasted`); a
  report of the congestion thread that begins before the key is there and ends after
  it is sent with a MAC for a position it did not take (`:708-722`,
  `streamconnection.c:791`, same: `Rushed`, at most once); a read error before the
  handshake gives SUCCESS with nothing initialised (`:311-314`, same); the key position is advanced
  by a size that is not rounded up (`:594`); only one repeated INIT_ACK is passed
  over (`:1942`).
* Stream connection: a dead takion is ignored after BIG (`streamconnection.c:436`);
  an early STREAMINFO is handled on the run thread while packets arrive (`:298`) and, after the label
  `disconnect`, kept and never freed; a stop during the first wait leaves
  SUCCESS or a timeout as the result.
* Video: a refused allocation keeps the counters (`frameprocessor.c:69`);
  `frameprocessor.h:45` says a flushed frame is kept for its statistics, but
  `flushed` is never set; units that FEC restored count as lost when they arrive;
  a frame without FEC is counted one unit too large (`frameprocessor.c:78`).
* Reorder queue: `chiaki_reorder_queue_drop` leaves the element it handed to
  `drop_cb` (`reorderqueue.c:169`; its only caller is the re-check of MACs); the sum
  of two 16-bit numbers keeps its carry (`:38`); the comment at `takion.c:48` says
  128 entries for an exponent of 8.
* Feedback: a press and release between two wakeups is merged away
  (`feedbacksender.c:263`); the last history packet, when lost, is not sent again
  (`ConsoleFollows`, both). Statistics: a late packet makes an interval count as
  lost, at a wrap as a huge number (`packetstats.c:71-72`); a count that meets the
  reset makes the two intervals at it wrong, by as many packets as fell into them at
  most (`:51-55`); losses above the cap are never told, nor more than 16 bits of a
  count (`congestioncontrol.c:24-34`). `LossAddsUp` excludes the first and the last,
  bounds the second and keeps account of the third.
* Link test: the size found for a cloud session is not the MTU of its path, as its
  packets may be broken up and those of PSNOW are wrapped in four more bytes
  (`senkusha.c:161-164, 656-673`); the largest size of the range is never probed
  outwards unless the search begins there (`MtuIsExact`, both).
* Audio: FEC copies older than one frame are never played (`audioreceiver.c:153`);
  the timeout of a generation is only looked at when a packet arrives; restored
  haptics go to the sink of audio (`pscloud_audio_reassembler.c:206`,
  `FramesArePlayed`).
* Holepunch: a RESULT of another request makes the wait for an acknowledgement
  spin (`holepunch.c:5162`, `EveryCallReturns`); an ACCEPT before its RESULT is
  dropped; a repeated offer of the ctrl connection is taken for that of the data
  connection (`OffersUsedOnce`); create, cancelled, returns with its mutex locked
  (`:1123-1159`), start too (`:1347`) or unlocks twice (`:1361`).
  Candidates: a failed send after an answer closes every socket and returns
  success (`:4434`); descending ports are taken for huge steps (`:434`, excluded from
  `NextIsGuessed`, which `PortsAreGuessed` proves). Rudp: the counter is read outside its
  mutex (`rudp.c:213`); fini of its send buffer loses its wakeup as that of takion does
  (`rudpsendbuffer.c:78-92`, `EveryCallReturns`: `SignalMissed`).
* Discovery: dropping the host at index 0 passes over the next one
  (`ListIsCurrent`); the receiver ends for good on a socket error.
  Registration: an address given up for the next one leaves its socket open
  (`regist.c:571-585`); a stop that meets a failing send or connect is reported as a
  failure (`:455-459`); a stop during the request, or the reading of the last piece of
  the answer, does not keep it from being a success (`EveryCallReturns`: `RegistEnds`, all
  three).

Desktop.

* Sessions (`Backend`): a cloud session displaces a running one without stopping
  it (`qmlbackend.cpp:148`); the mark that a session started is set only when
  starting fails (`streamsession.cpp:705`); discovery stays off after a failed
  start through PSN (`qmlbackend.cpp:1008`); a resume is lost while the old session
  is still there (`:1032`).
* Host list (`HostList`): two services overwrite each other's list
  (`discoverymanager.cpp:316`); reports queued before discovery was switched off
  come back after; manual callbacks write without a lock (`:424`);
  `registerHost` uses a dialog that may be stale or not initialised
  (`qmlbackend.h:319`); the hosts of PSN are not cleared with the profile.
* Sync: a failure to make the backup is ignored (`steamworks_cloud_sync.cpp:326`); a
  partial download leaves a file that later counts as newer (`:812`); an upload
  of the wrong size deletes the copy in the cloud (`:740`).
* Catalogue: two chains of requests share their lists (`cloudcatalogbackend.cpp:652,
  1161, 1285`, `CatalogIsSound`: `overlapped`); an answer without the list it should bring counts as
  one that listed nothing, so a catalogue without that category, or a library cut off at
  that page, is stored for a day (`:747-772, 1275-1277`, same: `absent`, `cut`); an answer in the old
  language is stored under the new one (`:846`; `CatalogIsSound` says nothing of the
  language or the account a list is of); an error for PS5 never answers the joined
  list (`:891`). Cloud session: only the first answer sets the limit of the queue,
  however the estimates grow (`psgaikaistreaming.cpp:1546-1563`).
* Input: a finger lifted while a menu has the input stays pressed
  (`qmlmainwindow.cpp:1248`), a button let go together with the one for the
  microphone too (`controllermanager.cpp:569`), both named by `missed`.
  Outputs: where a session starts unmuted a second header mutes again
  (`streamsession.cpp:1225`), rumble is not switched off once its intensity is
  (`:1980`), echo cancellation shares one buffer between threads (`:1720`).

Android.

* A decoder whose codec has no free input buffer deletes the codec without
  waiting for its output thread (`video-decoder.c:358`, `stray`); in Standard
  pacing a burst can put a frame before its predecessor (`ShownInOrder`).
* A resume during a connection leaves a session running, so does a shutdown during
  a local connect; a session that cannot be made frees its holepunch session twice
  (`StreamSession.kt:387-651`, `session.c:427`); the `cancel()` of the main thread, said to
  be "safe to call from here" (`StreamSession.kt:413-425`), comes after the new generation
  is set, and the connecting thread, which sees it, may free the object first
  (`:523-529`). `SessionsAreSound` names all four.
* A discovery service with an invalid address leaves its object behind
  (`chiaki-jni.c:1239`), every session in the cloud the copies of its launch
  specification, handshake key and id (`:602-636`; neither the error path, `:813-822`, nor
  `sessionFree`, nor `chiaki_session_fini` frees them): `LeftBehind` of `NativeIsSound`.

Exceptions a property names take a part of its hazard away with them: what the code
does there is known, listed above and in the notes of the hazards, and the property
says that nothing else goes wrong. This is so for the lock-up of two mutexes and the
lost stop (`LockUp`, `StopLost` in `StopEndsSession`), the wait that spins (`Spins` in
`EveryCallReturns`), calls of the catalogue that overlap (`overlapped`), the displaced
session, what goes on with a deleted one and the failed PSN connection (`displaced`, `undefined`,
`psnFailed` in `SleepAndDiscovery`), entries left out of the list and changes by other
threads (`leftOut`, `moved` in `ActsOnWhatIsShown`; the run `host_list` shows the first), the
release that never comes in (`missed`), codecs left behind (`stray`), and the sessions of
Android that are `raced`. The second header that mutes the microphone is in `Outputs`,
whose property only asks client and console to agree about it.

## 5. What is proved

The proofs are of the specifications without their liveness part, for every value
of the constants that satisfies the named ASSUMEs. A `*_proofs` module extends the
MC module of its area, so a theorem that ends in `MCSpec` speaks of the composition
the run checks: a step of the composition is a step of one part or leaves it alone,
and the invariant of a part is shown for its own steps.

**`GKCryptKeyBuf_proofs`: the key stream** (`ChunkAssumption`, `BoundAssumption`,
`JunkAssumption`: positive sizes, and junk that is no number). The inductive
invariant is `TypeOK`, `DataIsFunction`, `RingHoldsKeyStream`, `ChunkFollowsWindow`,
`ReadsAreKeyStream`, `NoMissedWakeup`. `ReadsAreKeyStream` alone is not inductive: a
read from the ring is right because the populated part holds the key stream of its
window, and that survives `FinishChunk` only because the chunk being written starts
exactly where the window ends, which is what the mutex-free write relies on.
`WindowNotAhead` (a requested position is never skipped) is proved beside them;
it needs a ring of two chunks or more, and no run lists it. `NearPacketsAccepted`:
a position less than half the range from the reference is recovered exactly.

**`SeqNum` and `Takion_proofs`: numbers, queue and buffer.** The lemmas of `SeqNum`
(quotient and remainder; `Cast`, `SeqLt` and `SeqGt` on numbers less than half the
space apart) carry everything that wraps.

* `QueueSound`, `QueueImplementsWindow` (`QueueAssumption`: a ring that divides the
  number space and is less than half of it, the 32-bit helpers that wrap). `QInv`:
  the queue owns exactly the packets of its ring, each in the slot of its own
  position; an unbounded position stands for `begin`; what was pulled lies below it.
  Numbers then compare as positions do (`Near`), and every step of the queue is a
  step of `PacketWindow` or leaves it alone: the refinement, with `PulledInOrder` and
  `KeepsWhatFits` beside it.
* `WakeupsArrive`, `QueueIsDrained`: `ThreadsAgree`, `NoMissedWakeup` and
  `DrainedBeforeLeaving` are inductive together. The takion thread can leave only
  after it saw the stop and the empty list under one lock, and a receive thread that
  has not finished its signal is what makes a sleeping takion thread harmless.
* `AvKeepsItsOrder`: what waits for the keys is older than what is in the list, and
  that is older than what is still to come (`AvInv`).
* `GapsAreClosed` (`LoopAssumption`): `LoopInv` counts, of the slots the loop has
  passed, those that stay and those that leave; the write index is the number of
  those that stay, so no slot is overwritten before it is read. It is a theorem of
  `ClosesAllGaps` alone, which the run checks inside `NothingVanishes`.
* `PacketsStay` (`BufferAssumption`: a packet is sent while fewer than half the
  numbers are used). `BufferInv`: the packets of the buffer are those tracked, once
  each (`StoredInv`), senders hold numbers nobody else has (`SendersInv`), and the
  thread that sleeps without a timeout saw the buffer empty and no signal has passed
  since (`SleepInv`).

**`StreamConnection_proofs`: the connection, its statistics, its video and its sound.**

* The connection (`NoReasonIsNone`): `TypeOK`, `StateFollowsRun`,
  `LifetimesFollowRun`, `EarlyInfoIsKept`, `InfoIsNotMissed`, `ResultIsExplained`,
  `SenderIsLive` together are inductive. `LifetimesFollowRun` is the strengthening:
  it ties each helper's life to the place of the run thread, and the properties about
  teardown follow from it without another induction. A step per action, grouped as
  run thread (`RunInv`) and takion thread (`TakionInv`).
* `LossesAddUp` (`StatsAssumption`: a sequence number is not wider than the counter it is
  subtracted in, the share that may be told is one). `StatsInv` follows an interval:
  as long as no count has met a reset, what was passed over in it is what its counts
  say, at each place between the reads and the writes of the two threads (`Exact`);
  what was told and withheld in all those before is what was missing then, but for
  the packets of intervals whose counts met a reset (`Slipped`); and no sum of
  reports is above the cap (`Shared`). So the error a lost or doubled count makes does
  not grow with the intervals that follow. A packet that comes late, a wrap and a
  count beyond 16 bits are excluded (`disturbed`).
* `FramesKeepTheirOrder`, `LossesAreTold`, `ReferencesAreKept` (`VideoAssumption`).
  `VideoInv` says which frame the index stands for, that every frame below it was
  flushed, reported or passed on, and what the reference frames kept are.
  `ReferencesAreKept` has the hypothesis `NumbersAreUnique` (the frame numbers come
  round at most once, 2^16 + 1 frames for the code): beyond that a reference kept
  through a long loss can be taken for a frame of the next turn, in the code as well.
* `FramesArePlayed` (`AudioAssumption`: an even number space, more than twice as many numbers
  as the frames a packet repeats, generations that follow one another). With a console
  `ConsoleInv` says that the number played last is that of the frame played last, and that
  every packet still to come is less than half the numbers from it. In a cloud session
  `CloudInv` says which generation is collected and from which of its packets on
  (`Collecting`), how far behind the stream playback may be (`Lags`), what the slots hold
  and that a generation with enough units is whole once it was flushed (`Sound`), and what
  was played of the generations before (`Past`). What several frames in a row do is a recursive
  function of their count (`Play`), so it is enough to look at the first count at which it
  would go wrong. `SoundIsPlayed` has the hypothesis `NumbersSuffice`: the units and
  source units of a generation are within half the numbers, as many generations in a row
  as packets may be lost and one more have fewer packets than that, and no generation has
  more source units than the next one has units plus one.
  For the code, with 2^16 numbers, a generation is within it at any size, since none has more
  than 512 units; the losses may be thousands in a row where generations have a handful of
  units, and 62 where they have 512. The `Stream` run, 16 numbers and three losses,
  lies outside it (it would be inside with one), and the property holds there too.

**`Session_proofs`: session and link test.**

* `SessionInvariant`: `TypeOK`, `ThreadsFollow` (which threads live at which place of
  the session thread), `StopsAreExplained`, `PinsAreCounted`, `QuitFollows`. The one
  pipe of ctrl is why `QuitComesLast` needs them all: each way out of the session
  thread joins what it started.
* `MtuIsFound` (`MtuAssumption`): `OwnAnswersCount` says that an answer that is taken is
  one to the probe it is counted for, `SearchNarrows` that the lower end of the
  bracket arrives and, where nothing was lost, the upper end does not; outwards that
  is said of `Reach`, the largest probe that arrives, with the wrapper and the
  fragments of a cloud session.

**`Remote_proofs`: ways to a console.**

* `SocketsAreClosed` (`OfferedAssumption`: 0 stands for no address): `CandInv` ties the
  open sockets to the place in `check_candidates`; past the choice only the chosen one
  is open. The choice is a minimum, which exists by well-foundedness.
* `PortsAreGuessed` (`PortsAssumption`: four more ports fit below 65536 and above 1023): the
  answers of the STUN servers are all in one class of an increment, whichever were
  lost, so the guess is the true step. It states `[]NextIsGuessed` of `Candidates`, which
  no run lists: the proof covers it for every port.
* `ListIsTold` (`DropAssumption`): the list that was reported is the list as it is, hosts
  in it differ, and none has been silent for longer than the limit but one behind a
  host dropped before it (`Dropped` keeps the code's index after a removal).
* `OffersAreUsedOnce`: `HoleInv` follows the notifications from the arrival to the
  clearing. An offer that was taken is the first of its kind in the queue; the offer
  of the ctrl connection that is in the queue when the data connection begins was
  counted as a repetition; a notice used by one wait is used by no other.

**`Clients_proofs`: the cloud and the desktop.** `DesktopsAreSound` puts the theorems of the
desktop's parts together.

* `EditsAreKept`: `SyncInv` strengthens the property to one that leaves the copy in the
  cloud out: the files and backups of the devices and the copies that were deleted
  alone hold every edit or one made upon it. A download keeps what it replaces and an
  upload takes nothing away, so what a failed or lost upload leaves in the cloud does
  not matter.
* `CloudIsFastest` (`CloudAssumption`: "Auto" names no data centre, a round trip that counts
  takes between 1 and 998 ms): `PingsInv` says that the race runs once, only for the
  automatic choice and only over what was offered, `ChoiceInv` that whatever asks for a
  slot asks at the centre set, or at a minimum of what was measured.
* `CatalogHolds` (`CatalogAssumption`: call 0 is no call, there is a category): the callers
  of a kind share one variable, so `CallsInv` says which of them is the last one;
  `AnswersInv`, `LoginInv`, `PsnowInv` and `LibraryInv` say for each flow what has been
  collected at each of its steps, as long as no other call came between: of the
  categories passed all but those that failed or brought no list (`absent`), of the
  library all pages up to the one that ended the paging (`cut`).
* `SleepsAsAsked` (`BackAssumption`: session 0 is none): `BackInv` excepts what the code
  leaves undefined and a cloud session that displaces another. Otherwise every
  session but the current one is gone (`BackAlone`), a quit that is posted is the last
  signal, and its session over (`BackEnding`), a worker or a wake-up belongs to the
  current session before it begins (`BackWaiting`), and sleep and discovery follow from
  that (`BackAwake`).
* `ServicesAsSet`: the property is inductive once the fields of the settings are known
  (`HostInv`): each update of the services leaves those that are wanted.
* `DoneToWhatIsShown` (`HostAssumption`: the lists of devices, reports and manual hosts
  are sequences, there is a profile). `ListsAreSound`: manual hosts are numbered from 1
  upwards, so none takes the mark of "no number". `ShownIsFound`: while the list is as it was
  shown and nothing was left out, the entry found at a place is the one shown there.
  `hosts()` and `displayServerAt` go through the same sets one after the other; the
  proof counts what one passes over and the other leaves out, and finds the first
  place at which they could part.

**`Devices_proofs`: sending, and the input and output of both clients.** `AndroidsGiveBack`,
`AndroidsPlay` and `ControlsAndOutputsHold` put the parts together.

* `PacketsHold` (`SendAssumption`: a positive block, natural sizes and tries, the two
  special threads not among the others) has four parts, and the strengthening three.
  `ConnectInv` says what is held at each step of the connect. `HandshakeInv` counts
  the answers that may still come, to INIT (`Late`) and to COOKIE (`Due`): a try that
  was not answered in time has cost a fault, or its answer is among them; a late
  INIT_ACK, two of which make a COOKIE try fail, was paid for by the INIT try it came
  too late for. `KeyInv` and `NumberInv` give a packet its part of the key stream and
  its number from the moment it takes them, apart from all that are sent or under
  way, so neither the order in which threads reach the socket nor a send that fails
  matters: a failed send wastes its part and its number, and the numbers taken are
  those sent, those under way and those wasted, no one twice (`NumbersAddUp`). `QuietInv`
  is why the key may be set without the mutex: at that moment nobody holds a position
  but perhaps the congestion thread, whose report is the one that is `Rushed`.
* `OrderHolds` (`PacingAssumption`: the period is a positive integer, the slack not
  above it, the other times natural numbers): `ShownInOrder` is inductive with one more
  conjunct, which ties the schedule to the frame shown last. The measured jitter,
  stalls and gaps are arbitrary, so the order of frames does not depend on them.
* `NothingPressedStays` (`CtlAssumption`: natural widths, a positive number of touch ids).
  `CtlInv` excepts a release the sources never hear of (`missed`). Otherwise each source has
  down only what the player holds (`KeysFrom`, `PadsFrom`, `ScreenFrom`), the touch that
  follows the directional pad lives only while its timer or the pad does (`DpadFrom`),
  and what the console was last sent is what the sources have, or, of a blocked
  state, nothing but that touch (`ConsoleFrom`). Most of the work is in the touches:
  two slots, and ids that come round.
* `OutputsInOrder` (`OutAssumption`: packets of at least one byte): `MicInv` cuts what was
  heard into packets and a rest shorter than one, `WireInv` says that the last
  message under way is what the client shows, `QueuedInv` bounds the sound that waits.
* `CodecIsKept` (`VideoAssumption`): `VideoInv` says which codec the input thread works on
  and that only a codec is deleted whose output thread has ended, the strays of the
  code excepted.
* `SoundInOrder` (`AudioAssumption`: both sizes positive): `AudioInv` names four unbounded
  counts, of the chunks taken to be filled and published, taken to be played and given
  back. They differ by at most the size of the ring, an index of the code is its count modulo that size, and a slot
  between two counts holds the chunk of its count, so the two threads never meet in
  one slot.
* `PartsAreGivenBack` (`NativeAssumption`: the five kinds of object): `NativeInv` says for
  each stage of a call exactly which parts are held and what is still to be given
  back; the library, whose threads use the others, goes first. What stays behind is
  exactly `LeftBehind`: the object of a service with an invalid address and the copies
  of a cloud session.
* `SessionsEndInOrder` (`AppAssumption`): unless a call came at a moment the code does not
  cover (`raced`), every connection is on its way, in use, to be freed or at an end
  (`AppInv`), with what its thread, its holepunch session and its native session are
  in each case; at most one is on its way or in use. The main thread's `cancel()` is a
  use of the holepunch session it saw: the theorem says which frees may come under it, and
  that no other use is met by one.

Only model-checked:

* all liveness (`EveryCloseReturns`, `Drains`, `EveryFlowEnds`, `EveryCallReturns` and
  the rest): it rests on fairness and ENABLED, which the prover does not handle;
* what a recursive definition computes for every input: an induction over data, which is
  out of the prover's reach (`Play`, of which only an invariant is needed, is not);
* the six runs that show a disagreement: there is nothing to prove.

## 6. Not modelled, and why

* Codecs, ciphers, encodings and parsers: arithmetic over bytes without state of
  their own. What they promise is used as values.
* The texts of requests and answers, the JSON of notifications, curl, UPnP and the
  queries to STUN servers: formats and external libraries.
* Of the session: the messages of the on-screen keyboard and display, which are
  passed on. Of the stream connection: rumble, pad info, trigger events and
  connection quality, which touch nothing of its life (what the desktop does
  with them is in `Outputs`). Of the video receiver: the choice of the profile and
  the timing of stalls.
* `thread.c` has no module of its own: its waits are modelled where they are used,
  as the POSIX build has them.
* Screens, preferences, windows, login dialogs and pictures of the front ends; the
  second implementation of the cloud flow in Kotlin (its C++ form is
  `CloudSession`); the clients for Switch, iOS and the command line; the drivers
  for Steam Deck and touchpads; build and packaging. They ask no question the
  modules do not ask already.

## 7. Plan

Done: the protocol from the reorder queue up to the session; the ways to a
console (holepunch, candidates, rudp, registration, discovery); the cloud flow,
catalogue, sessions, list, sync, input and output of the desktop; the native
interface, video, audio and sessions of Android; the proofs of section 5. Next:

1. The bool-pred condition of `thread.c` in its POSIX and Windows forms.
2. Pad info, triggers and the touchpad driver as further sources of `Outputs` and
   `Controls`; keyboard messages in `Session`.
