# OXRSys: specifications, checks and proofs

OXRSys is an OpenXR runtime for macOS. An application renders through the
runtime; the runtime streams the frames to a headset client (Quest, Vision Pro,
a simulator) over WiFi or USB ADB and receives its tracking. This directory
holds TLA+ models of the parts of that system in which threads, sockets, the
GPU, a helper process and timeouts meet, the TLC runs over them and the
theorems TLAPS proves about them. Paths are relative to the repository's root.

## 1. The system

| Component | State | Operations | Talks to |
|---|---|---|---|
| OpenXR session (`runtime/src/Session.cpp`) | session state, frame-loop counters, `frameBegun_`, teardown flag, the streaming server under a shared mutex | xrBegin/End/RequestExitSession, xrWait/Begin/EndFrame, swapchain creation and destruction, shutdown; the pacing policy of the waiting thread | swapchains, streaming server, instance's event queue |
| Swapchain (`SwapchainCommon.cpp`, `SwapchainVulkan.cpp`, `SwapchainMetal.mm`, `SnapshotLeasePool.h`) | per-image states, acquisition order, last released image, snapshot pool with leases and fences | acquire, wait, release (which copies the image for streaming), destroy with a bounded drain | session, encode worker through leases |
| Streaming server (`StreamingServer.cpp`) | connection state, client identity, packet dispatch, encoder generation, callback access, eight threads | connect and disconnect handlers, beacon, liveness watchdog, frame submission, Stop | sockets, encoder, tracking receiver |
| Frame queue and encode worker (`StreamingFrameQueue.cpp`, `SnapshotWaitPolicy.h`) | one pending frame | push-latest, pop, peek for a finished successor | swapchain snapshots, encoder |
| Video encoder (`VideoEncoder.mm`) | buffer slots, frame contexts, callback drain, VideoToolbox session | encode a frame, finalize its context, Shutdown with timeout and retry | Metal, VideoToolbox, encoder helper |
| Encoder helper (`EncoderHelperClient.mm`, `encoder_helper/main.mm`) | socket, reader thread, pending cookies | submit, NAL and completion callbacks, death, Stop | encoder |
| Live reconfiguration (`StreamingReconfigure.h`) | pending update and retries | request, acknowledge, time out, apply | server's control and send threads, client |
| Video transport (`StreamingServer.cpp` 2938-3584, `common/FecCodec.h`, Quest `NetworkReceiver.cpp`, Swift `VideoReceiver.swift`) | send queue, packet cache; reassembly tables | send, drop stale frames, NACK and resend, FEC recovery, key-frame requests | both ends of the link |
| Adaptive bitrate (`StreamingAbr.h`) | windowed counters, profile | update on each latency report | reconfiguration, encoder |
| Tracking receiver (`TrackingReceiver.cpp`) | pose history, source filter | receive, predict | session, server |
| Instance, handle table, actions, input, spaces | handles, event queue, bindings | OpenXR calls | session |
| Configuration, status file, platform, sockets, codec choice | values | parse, write, choose | everybody |
| Quest client (`clients/android-vr/app/src/main/cpp/`) | connection state, sockets, discovery, receive, control and decoder-worker threads, decoder queue, render poses | discover, probe the cable, connect, lose, reset, retry; reassemble, decode, present, ask for key frames | server |
| Apple clients (`clients/shared`, `clients/visionos`, ...) | the same in Swift | the same | server |

What is hard here is not the data. It is that a session is opened and closed by
five threads that take no common lock; that an encoder may be released only
when no asynchronous callback needs it, while each wait for that is bounded and
so may fail and be retried; that a copy of a frame is read by four parties after
the application has moved on; that a helper process may die at any step; that a
client has two links, four threads and one connection; and that what an
application is told about its input lags behind the devices.

### What makes each component correct

* **Streaming server.** A settled connected server has a live encoder and routes
  everything to the one client; a session is not taken over; an encoder is let
  go only when empty; frames of an ended session are not sent to the next;
  discovery resumes; Stop returns and leaves nothing behind.
* **Video encoder.** Each frame's context is finalized exactly once by its one
  owner, whatever dies or times out; slots are exclusive and come back;
  Shutdown returns and, if it says true, is final.
* **Swapchain.** A snapshot shows what was released last; a frame keeps what it
  shows until its last reader is done; destruction is safe, and retryable.
* **Reconfiguration.** Encoder and decoder agree again after every request,
  whatever acknowledgement is lost, late or repeated.
* **OpenXR session.** The events follow OpenXR's state machine though three
  threads push them; the streaming server is not stopped under a call that uses
  it; an ended session streams nothing; a destroyed one leaves nothing behind;
  every exit request comes to STOPPING.
* **Video transport.** The decoder gets whole NALs of one frame, in spite of loss,
  repair and broken streams; key frames are not lost in queues; the freshest frame
  is not starved; a picture is shown with the pose it was drawn for; what cannot be
  repaired is asked for.
* **Quest client.** Whatever fails, in whatever order its threads notice, the
  client streams again; a reset leaves nothing to the next connection; a video
  receiver listens before the Mac is told to send; the end of the activity joins.
* **Actions and input.** A synchronised action has the value its live bindings
  read; its changes are reported once; the application learns which interaction
  profiles are active; nothing of a session leaks into the next.
* **Adaptive bitrate.** The encoder runs at the bitrate last decided, within the
  client's ceiling; nothing that went wrong is missed, counted twice or charged to
  another session; the bitrate rises slowly and does come back.

## 2. Modules

| Module | Models | Proofs |
|---|---|---|
| `StreamSession` | the streaming server's connection life cycle | `StreamSessionProofs` |
| `XrSession` | an OpenXR session, called from six threads; refines `SessionLifecycle` | `XrSessionProofs` |
| `SessionLifecycle` | the order of session states an application may see: the abstract specification of the events | |
| `MCStreamSession` | symmetry of client addresses for TLC | |
| `BoundedDrain` | what `BoundedDrain.h` promises: the abstract specification of the callback drain | |
| `VideoEncoder` | a frame's life in the encoder, the helper and Shutdown; refines `BoundedDrain` | `VideoProofs` |
| `Swapchain` | images, release-time snapshots and their readers, destruction | `SwapchainProofs` |
| `StreamReconfigure` | a size change of the running stream: server, control connection, headset decoder | `StreamReconfigureProofs` |
| `VideoTransport` | a frame's way from xrEndFrame to the Quest's display: queues, FEC, NACKs, reassembly, decoder, pose, key-frame requests | `VideoProofs` |
| `QuestClient` | the Quest client's connection: discovery, USB probe, connecting, loss, reset, retry | `QuestClientProofs` |
| `ControllerInput` | the input manager as operators on a record: active devices and profiles, what a component reads | |
| `XrInput` | instance, event queue, action sets, bindings, attachment, xrSyncActions, profiles; uses `ControllerInput` | `XrInputProofs` |
| `AdaptiveBitrate` | the bitrate controller and the server around it | `AdaptiveBitrateProofs` |
| `MCXrInput`, `MCAdaptiveBitrate` | an application's actions and packets; reports and sizes, for TLC | |

Mutants (definitions whose comment says so, placed before the definition they
replace) are plausible bugs of the code; each property of a passing run is
violated by one of them.

### StreamSession

A handler is a sequence of steps; a step ends wherever the code releases a lock,
stores an atomic another thread reads, or blocks. `pc[t]` is where thread `t`
is. Threads: `control` (WiFi control socket), `tcpControl` and `tcpVideo` (USB),
`encode`, `send`, and `app`, which is both the thread in xrEndFrame
(`SendFrame`, with the watchdog `CheckClientLiveness`) and the one that calls
`Stop`. The beacon is `bthread`. `encoder` is the generation of the encoder
object, 0 for none; `live` the one that is initialised; `inflight` the frames
inside an encoder, each with the generation and callback access it was submitted
with; `valid` the callback accesses not yet revoked; `sendq` the accesses under
which queued frames were encoded. `encLock`, `discLock`, `bLock` are
`encoderMutex_`, `disconnectMutex_`, `broadcastThreadMutex_`. Addresses,
counts of connects, frames, silences, send failures and stops are bounded by
constants with `Max` in their names.

### VideoEncoder and BoundedDrain

A frame is its context and its cookie (cookies are never reused). `enc` is the
encode worker inside `EncodeInternal`, `handler[f]` the Metal completion handler
of a frame, `reader` the helper's reader thread, `sd` a Shutdown, `closer` the
detached thread that invalidates the VideoToolbox session. The helper process
is external: it answers frames in order or dies (`HelperEncodes`,
`HelperDies`). `fin[f]` follows `FinalizeEncodeFrame`, which gives back the slot
before the lease. The drain's leases are mapped onto `BoundedDrain` by
`DrainKept`: the frames whose context exists and the worker.

### Swapchain

`states`, `order`, `next`, `last`, `static` are the fields of `Swapchain`. What
an image or slot shows is the number of a drawing. `ReleaseImage` is three
actions because the code drops its mutex before it reads the headset's demand
and takes it again for the snapshot. `frame`, `pending`, `worker`, `peek` and
`coding` are the places a leased snapshot may be: in xrEndFrame's hands, in the
frame queue, in the worker's, peeked at by `HasFinishedPendingFrame`, and in the
encoder's contexts. A lease is shared ownership of a slot, so a slot is leased
exactly while one of these refers to it. Two views are two such swapchains.

### StreamReconfigure

Only a USB session is reconfigured: `MaybeRequestStreamReconfigure` returns at
once for WiFi. Two server threads (`ctl`, the TCP control thread, and `snd`, the
send thread) share `pend`, which stands for `pendingStreamConfigUpdate_` and
`streamConfigPending_` (`StreamingReconfigure.h`); each holds in `upd` the copy
of an update it sends after it has released `streamConfigMutex_`. The headset's
receiver reads two atomics at two moments (`ReceiveUpdate`, `QueueUpdate`), its
worker makes the decoder ready (`WorkerDecode`, `WorkerCompletes`), the render
thread takes the result over (`ApplyCompleted` and its end) and later shows the
new size (`ApplyDeferred`). `decoder` is the size the decoder was created for,
which a smaller size keeps. `HandleClientDisconnect` and `Connect` are one step
here; their own steps are the subject of `StreamSession`. `disturbed` is a
history variable: in this session a retry was sent, or an acknowledged update
was dropped because its encoder could not be built. After the first, a
duplicate may be rejected for a busy worker while the original succeeds; after
the second, a sequence number is used twice; both leave the two ends apart, and
`InSync` and `SwapFits` speak of the sessions in which neither happened.

### XrSession and SessionLifecycle

Each group of calls has a thread of its own, as applications do and as OpenXR
allows: `wait`, `frame` (begin and end), `exit`, `haptics`, `maker` (swapchains)
and `ctl` (begin, end, destroy). `last` is the state in the last event pushed
and is what `SessionLifecycle` calls `state`; `state` is the field `state_`,
which differs from it only once `Shutdown` has set it without an event. A mutex
held over several steps is the predicate that no other thread is between them
(`TransitionFree`, `FrameStateFree`, `NoReader`). `server` is "taken" while
xrEndSession or xrDestroySession has moved it out to stop it. `StopServer` is
`StreamingServer::Stop`, here one step: it drops the client and the tracking
receiver and may then fail for an encoder that is not drained (`StreamSession`
has its steps). `WaitUpdate` and `WaitUse` are the test and the use of the input
manager's plain pointer, under no lock. What the code leaves to the caller is an
assumption on the calls: xrDestroySession runs with no other call in progress,
except xrCreateSwapchain, for which the code looks at the teardown twice; one
thread begins, ends and destroys; xrEndSession follows the event STOPPING.
`running_`, `state_` and `exitRequested_` are plain fields read and written by
several threads; the model takes each access as atomic. `pacing_thread` is
assumed to be "realtime", the setting under which pacing has state to restore.

### VideoTransport

A frame is its index, a NAL the index and its place in the frame (a key frame has a
parameter set of one packet and a slice, any other frame a slice), a payload the number
of its NAL; `Mixed` is the XOR of payloads that do not belong together. `pendingFrame`
is the frame queue's one place, `sendQueue` with `newer` the send queue and
`videoSendNewerFrameQueued_`, `sending` the packets of the frame the send thread is at,
`net` the link, in order, from whose front datagrams are lost; over TCP a record may be
torn, and the record behind it is then read as its rest. `cache` is the ring of
`CachedFrame`s, one slot per NAL. `HandleNackRequest` collects what is to be repeated
and `Retransmit` sends it among the send thread's packets. `NalDatagrams` gives the
datagrams of a NAL by their place: each group of data packets is followed by its parity,
as `SendNalUnit`'s loop emits them. `pendingNal` is `NetworkReceiver::pendingFrame_`, of
which there is one: `ReassembleData` says what becomes of it when another frame's packet
arrives, including that a packet that triggers a recovery is forgotten itself.
`RequestKeyframe` is the end of `RunFrame`, with the 100 ms throttle as the variable
`recent`. `delivered` and `losses` are history variables.

Left out: reordering by the network and frames of several slices (`ReassembleFrame`
keys on the frame index alone and would mix their NALs), the pacer's delays, the
loss of a key-frame request over UDP (it is not repeated), and parity of a NAL of
one packet, which the client ignores.

### QuestClient

`pc[t]` is where the `render`, `discovery`, `receive` and `control` threads are;
"none" is a `std::thread` that is not joinable, "done" one that has ended but not
been joined. `stack` holds the render thread's returns, because probe, start, reset
and loss are each called from several places. A connection is configured by the
discovery thread (WiFi) or the render thread (USB) by the same steps
(`ConfigureServerConnection`), a loss is a load and two stores (`LostLoad`,
`LostStore`, `LostFlag`) on any of three threads. `server` and `eof` are the Mac as
the client meets it: down, announcing, or streaming to a link, and whether it has
closed the TCP sockets. Time limits are `Silence`.

`Windows` names four short windows of the code that an instance includes or not.
With all of them out, or with "linger" alone, the properties hold (section 5 proves it
of the safety ones); the others break some:

* "probe": `TryStartUsbAdbTransport` writes its saved state back (run `quest_stall`;
  a second fault after it breaks `QuestSafe`).
* "reset": a reset while the discovery thread configures a connection: it stops the
  receiver first and has the threads started after, which the joins wait for.
* "lost": a connection begun between the loss of one and its reset assigns to a
  joinable receive thread, which is `std::terminate`.
* "linger": an announcement heard in the second between `StopDiscovery` and the end
  of the discovery thread. Alone it changes nothing: while a connection has its receive
  thread an announcement is not taken up. With "reset" or "lost" it starts a second one.

Also seen: READY after STOPPING creates swapchains and GL objects over the old ones;
the UDP goodbye is sent on a socket already shut down; the TCP tracking socket is
not reopened after a record sent in part, until the Mac's watchdog ends the session.

### ControllerInput and XrInput

`ControllerInput` has no variables: the input manager is a record, packets and
receivers are functions from record to record (`WithPacket`, `WithoutReceiver`), and
`ActiveProfiles`, `BooleanComponent`, `FloatComponent`, `VectorComponent` read it.
An analog value is 0, 1 (up to half) or 2. `XrInput` holds the state of
`EntryPoint.cpp`'s globals: `sets`, `live`, `suggested`, `attached`,
`attachedSets`, `reported`, and the instance's event queue `events`. xrSyncActions
is `SyncActions`, `ReadLeft`, `ReadRight`, `ApplyActions`, `ReportProfile`: the frame
thread (`WaitFrame`, `WireClient`, `UnwireClient`) may move between the two sides.
A suggested binding carries the handle of the action it was suggested for, since
an action destroyed and created again has another. `learnt` and `asking` are the
application's own knowledge.

Assumed of the application: it makes its sets, actions and basic suggestions
before the session, destroys a set's actions before the set, and keeps those in
`Lasting` for the session. Assumed of the world: the input moves at most once
during a synchronisation (`Still`), and stays while the application is being told
of a profile (`Told`), unless the window "ask" is open; the conformance automation
runs without a client. A side is read in one step.

Seen in the model and not stated as properties: an action's data survive its
session, so that the first query of the next returns the old state; sets a
synchronisation does not name keep their changed flag; `changedSinceLastSync` of
both hands together is the OR of the two; profile events of a destroyed session
stay queued; destroying a set with live actions leaves their pointer to it
dangling (`EntryPoint.cpp:1704`); a client replaced between two xrEndFrames keeps
the old one's profile (`Session.cpp:1522`); xrSyncActions accepts sets that are not
attached.

### AdaptiveBitrate

`control` is the `Controller` (bitrate, ceiling, state, stable count, hold, profile,
the last five reports), `total` and `last` the three counters and what the last
report found in them, modulo `Wrap`. A report is two steps, because the decision is
stored (`Report`) before the encoder is told under its mutex (`Finish`). `Connect`
and `Disconnect` are the parts of those handlers that touch the bitrate, an update
of the resolution is `Reconfigure` and `Acknowledge`, whose retries and time-outs
are `StreamReconfigure`'s. Averages are compared as sums; smoothed latency is a
field of the report. `unseen`, `calm` and `quiet` are history variables.

Two windows are closed in the run. "stray": `HandleLatencyReport` over UDP looks
neither at the sender nor at the state, so it runs during a USB session, beside that
session's own thread. "late": a report begun in a session the watchdog ends finishes
in the next one, on its encoder, above its ceiling (docs/protocol.md:100).
Seen besides: a ceiling below 10 leaves the controller at 10 and the encoder at the
ceiling; `HandleClientDisconnect` resets three totals but two of the three last
counts (`StreamingServer.cpp:2344`), so a late report can wrap a difference and cause
one recovery too many; the layout's scale is reset only by Start
(`StreamingServer.cpp:628`), so a WiFi session after a "full" USB session at a reduced
profile keeps the reduced resolution, though docs/protocol.md:248 gives WiFi clients
no reconfiguration.

## 3. Runs

| Run | Question | Bounds and why they are enough |
|---|---|---|
| `session` | Do connects, reconnects, disconnects and Stop keep a session consistent, over WiFi or over USB, whose sockets come and go separately? | either transport, 2 addresses, 2 connects (the second a reconnect or a rival), 1 frame in flight, 1 failed send, 1 Stop |
| `session_race` | Do encoder, queue and beacon survive the watchdog racing the control thread and Stop, and do the calls return? | WiFi, 1 address, 2 connects, 1 frame, 1 silence, 1 Stop. 2 addresses and 2 frames without Stop were checked for the invariants and show nothing more. |
| `session_hang` | Finding: a frame never returns. | 1 connect, 1 frame, 1 silence |
| `encoder` | Is every frame finalized once, and does Shutdown end? | 2 frames, 2 slots, helper on or off, 2 Shutdown attempts |
| `swapchain` | Snapshots, leases, destruction, and does the last release reach the encoder? | 2 images, 2 slots, 1 context, 1 drawing, 1 arrival |
| `reconfigure` | Do both ends of a reconfiguration agree in the end, whatever is rejected, late, timed out or cut off? | 3 sizes (one grows, one shrinks), 2 updates, 2 sessions, 1 retry; decoders and encoders may fail. The code retries twice; 2 retries with 2 sessions (12 million states) were checked once and show nothing more. |
| `xr_session` | Do the calls of an OpenXR session keep their promises on six threads, with a headset that comes and goes and ends that fail? | 1 swapchain, 2 frames waited for and not begun (one is begun over another); every call as often as the application likes |
| `transport` | Does the decoder get whole NALs, the display the right pose, the freshest frame the link and a refused NAL its key frame? | 3 frames (a key frame, a delta and a successor that makes it stale; queue of 2), slices of 2 packets with one parity, link and control channel of 1, 2 losses (one repaired, one not), 1 refusal, 1 frame the encoder drops; UDP or TCP |
| `quest` | Does a client always come back, leave nothing behind and end? | WiFi, USB or both; 1 fault (an outage, a lost message or a failed call), 1 reset in the shell, 2 sessions |
| `quest_stall` | Finding: a stall of the video is ignored. | both links, 2 faults, window "probe" |
| `input` | Do actions read what their bindings say, and does the application learn its profiles? | 2 sets, a boolean for both hands and a float for one, bindings for Touch, Frame and hands (the Frame's optional), 2 packets (a Frame; one controller laid down beside a pinching hand), 1 client, automation, 1 session, 1 queued event |
| `abr` | Does the encoder follow the decisions, nothing counted get lost, and the bitrate rise slowly and come back? | all three modes, bitrates 8 to 12 round the minimum of 10 (five reports cover the way), 2 sessions, 2 troubles, 1 failure, totals modulo 4 |

An invariant named `...Safe` is the conjunction of a module's type invariant with the
safety invariants defined above it, each of which its comment explains:
`ServerSafe` (StreamSession), `SwapchainSafe`, `EncoderSafe`, `ReconfigureSafe`,
`SessionSafe` (XrSession), `TransportSafe`, `QuestSafe`, `InputSafe`, `BitrateSafe`.
`SessionEnds` and `CallsReturn` join two properties each in the same way.

`KeyFrameReaches` allows a key frame to be displaced by `QueueCap` - 1 later key frames
and not only by a whole queue of them: a key frame goes first when all that waits are key
frames, and the frame it makes room for may be any. With two key frames at the start and
a queue of 2 that happens (the run's session starts with one); the proof of section 5
found it.

The proofs of section 5 hold for every value of these bounds; the runs add the
liveness properties, the refinement and the findings. Deadlock is not checked:
every bounded environment ends, and a stopped server, encoder or destroyed
swapchain has nothing left to do.

### Findings

Two runs show a violation.

* `session_hang`: the watchdog's disconnect (`StreamingServer.cpp:2352`) joins
  the beacon thread while the state is Broadcasting. If a connect handler whose
  encoder failed restarts the beacon between the disconnect's state exchange and
  its join, the joined thread has no reason to end: xrEndFrame hangs.
* `quest_stall`: with the cable in and WiFi on, the USB probe saves the connection
  state, waits, fails and stores what it saved over the Connected of the discovery
  thread (`XrApp.cpp:2542`). When the video stalls later, `OnConnectionLost` finds no
  connection to lose, and docs/platforms/quest.md:256 is not kept.

More disagreements between the code and what its comments and docs say show in the
models and have no run of their own:

* Admission is decided before Connected is stored (`StreamingServer.cpp:2008`), so a
  WiFi and a USB client can both be admitted and the second overwrites the first:
  `NoTakeover` fails with both transports ("auto", the default of
  `streaming_transport`, `Config.h:53`). From three connections on so does
  `DiscoveryResumes`: of two handlers one restarts a discovery whose beacon has ended,
  the other then joins that beacon and settles in Broadcasting without one.
* The callback drain counts contexts, not completion handlers. One may still be
  about to look its cookie up (`VideoEncoder.mm:2446`) when Shutdown has returned
  true, contrary to the comment at `VideoEncoder.mm:1694`.
* When the replacement encoder cannot be initialised (`StreamingServer.cpp:2695`) the
  update is forgotten and its sequence number given to the next one; the headset,
  already at that sequence, acknowledges whatever size comes with it
  (`XrApp.cpp:3105`), though docs/protocol.md:255 promises an acknowledgement only
  after the decoder is ready.
* `InputManager::Update` tests the pointer to the tracking receiver and then uses
  it under no lock (`InputManager.cpp:236`), called from xrWaitFrame outside
  `streamingServerMutex_`. xrEndSession sets it to null before it stops the server,
  which "destroys the tracking receiver the input manager reads"
  (`Session.cpp:295`), but does not wait for a call that has read it.
* An xrWaitFrame in progress while the session ends promotes its thread after
  xrEndSession has restored the policy (`WaitPace` after `EndPace`), so that it
  keeps it until xrDestroySession, against the comment at `Session.cpp:466`.
* With the watchdog racing a reconnect of the same address, `SessionServed` and
  `SessionRouted` fail, over WiFi and over USB: the server settles in Connected
  without an encoder, or without a client to send to. And the USB control thread
  reads the owner flag before it ends the session (`StreamingServer.cpp:1195`), which
  by then may be a WiFi client's.
* The NACK cache survives a reconnect while frame indices restart
  (`StreamingServer.cpp:3490`): with `StaleCache = TRUE` the client puts a NAL together
  from packets of two sessions, and `DeliveredWhole` fails. Within a session, a frame
  repaired by a NACK may be shown after a newer one, and retransmissions displace
  the NAL being received, so that two partial frames can NACK each other out.
* Dropped frames are noted as observed whether the throttle let a key-frame request
  out or not (`XrApp.cpp:4040`): dropped within 100 ms of a request, they are never
  asked for, against docs/protocol.md:266. The refusals of the decoder just above
  stay pending (`RefusalAnswered`).
* xrGetCurrentInteractionProfile answers from the devices of that moment,
  xrSyncActions compares with what it found last (`EntryPoint.cpp:2472`): an application
  that asks between two synchronisations, while a controller is not tracked, keeps
  that answer and no event corrects it, against the comment at
  `EntryPoint.cpp:2461`. `NoticeQueued` fails with the window "ask".

## 4. Fairness

* `StreamSession`: weak fairness of every thread's next step (the scheduler runs
  a thread that can run), of a frame leaving the encoder (VideoToolbox and
  Metal complete), and none of clients, sockets or the application's calls.
* `VideoEncoder`: weak fairness of the threads and of the device. The helper
  need not answer: it only may die, and the property is about what follows.
* `Swapchain`: weak fairness of threads, GPU and encoder; strong fairness of the
  application rendering a frame with an overlay and of retrying a destruction,
  because either is interrupted again and again by its other calls.
* `XrSession`: every call that has begun goes on; the application goes on calling
  xrWaitFrame, xrBeginFrame and xrEndFrame, each on a thread that is weakly fair,
  while the session runs; and not every xrEndFrame is rejected for an invalid layer
  (strong fairness of `EndFrameAccepted`, which a rejected call disables again and
  again). Without frames nothing takes a session from FOCUSED to STOPPING: that is
  OpenXR's rule, not a fault. Nothing is assumed of the headset, exit requests,
  haptics, swapchains or of ending the session.
* `StreamReconfigure`: weak fairness of the server's control and send threads
  and of the headset's threads. The send thread looks at a pending update when
  it wakes for a frame, the control thread when a report arrives; the assumption
  is that a connected session goes on having one or the other. Nothing is
  assumed of connects, lost connections, reports or failures.
* `VideoTransport`: weak fairness of each thread of the runtime and of the client's
  receive thread, of the check at `RunFrame`'s end and of the 100 ms. Nothing of the
  application, losses, refusals or what the decoder shows.
* `QuestClient`: weak fairness of the four threads, of time (`Silence`), and of the
  Mac: it comes back, and ends a session whose client is silent (`StreamSession`'s
  watchdog). Links stay as they are; faults and resets are bounded.
* `XrInput`: the application goes on polling and synchronising, calls return, and
  once told of a profile it asks (strong fairness, since a synchronisation may come
  first again and again). Nothing of devices, clients or the frame loop.
* `AdaptiveBitrate`: a connected client goes on reporting, the control threads run,
  and an update is answered, by strong fairness: reports in between disable the
  answer's step, but the thread takes messages in order and so comes to it.

## 5. Proofs

Eight modules, each of one component but `VideoProofs`, which is of two, proved for all
values of the constants under the named assumptions of the component's module. Each puts
the invariants of its component together in the form the runs check: `ServerIsSafe`,
`SwapchainIsSafe`, `ReconfigureIsSafe`, `SessionIsSafe`, `EncoderIsSafe`,
`TransportIsSafe`, `QuestIsSafe`, `InputIsSafe`, `BitrateIsSafe`. The inductive
invariants were checked by TLC on small instances first.

`StreamSessionProofs` (any addresses and bounds): `TypeInvariant`; `EncoderInvariant`:
`encoderMutex_` is owned by the handler between its lock and unlock, and frames are only
ever inside the current encoder. That is inductive together with the types and gives
`EncoderDrained`: no encoder is replaced while it holds frames, though drains time out
and other threads retry them. `StopQuiescent` needs what Stop has established at each
of its steps (`StopInv`).

Its second half is about sessions, from `SessionInv`, which says what a connect or
disconnect handler has established at each of its steps. `EndedIsSilent` holds on every
transport: access to the callbacks is by generation, and a disconnect revokes one for
good (`AccessInv`). The others suppose a single transport, the settings "wifi", "usb_ncm"
and "usb_adb", because with both two connect handlers overlap (section 3).
`NoClientTakenOver`: a WiFi client is admitted over a connected one only from the
same address (`WifiInv`), and there is one USB client (`UsbInv`). `SessionsEnd`: whoever
takes the state from Connected is bound to resume the beacon (`BeaconInv`), with the
watchdog racing the control thread. `SessionIsServed` and `SessionIsRouted` suppose
moreover that no client has been silent beyond the timeout yet (`silences = 0`; they
say nothing of what comes after): then only the one handler moves a session, and
`ServedInv`, `WifiRouted` and `UsbRouted` follow it. With a silence both are false, as
section 3 says, so this hypothesis is needed and not a convenience.

`SwapchainProofs` (any number of images, slots, contexts and drawings, both
backends): `ReleasedImageKept` says that the window `ReleaseImage` leaves
between its critical sections is harmless. The reason is not in the lock: images
are acquired round-robin and waited for in acquisition order, so the acquired
ones are consecutive, the last released one precedes them, and it can be waited
for again only after every other image. The invariant `InTurn` states this and
is proved inductive by arithmetic modulo the number of images; without it
nothing prevents drawing into the image being copied. `SnapshotLatest` follows
from it. `FramesKeepImages` and `CopiesNotReused` follow from the pool's free-slot
test; `DestroyedQuiet` from `DrainInv` (once the leases are back nobody can take
one, because destruction excludes xrEndFrame and the worker has nothing to pop).
`StaticImageStays` assumes that graphics calls do not fail.

`StreamReconfigureProofs` (any sizes, updates, sessions and at least one retry):
`TypeInvariant`, whose strengthening `KnownSizes` says where a size must be a
real one because it is handed on; `SlotHeld`, for which the held update must be
in exactly one of four places (`OneUpdate`): otherwise a completed update could
be overwritten by the next and its slot lost. `EndsAgree` and `SwapIsAgreed` follow one
update through a session (`Phases`): at rest, asked for, at one of seven places between
the server's request and the headset's answer (`Waiting`), accepted, being applied,
applied. As long as nothing was retried or given up there is only that one, and
each phase fixes the sizes of both ends. As in the properties themselves, a session is
no longer spoken of once it is `disturbed` (a retry was sent, or the replacement
encoder failed): then section 3's acknowledgement of another size is possible. With
`MaxRetries = 0` an update could be given up at once and `SwapFits`
is false; the code's limit is 2 (`StreamingServer.cpp:52`), so `BoundsAssumption` asks
for one at least.

`XrSessionProofs` (any swapchains, any number of waited frames): `TypeInvariant`,
`ServerNotTakenInUse`, `EndIsQuiet`, `DestructorFindsNothing` and the refinement
`EventsAreLegal`: each initial state is one of `SessionLifecycle` and each step a
move of it or a stutter. None is inductive alone. `Served` and `Stopped` tie the
readers of the server to the steps of the two calls that stop it: once it is taken
out, a frame call in progress can only store that nothing is wanted. `Moves` and
`Chosen` say why a move chosen by the frame loop is still legal when it is made:
xrRequestExitSession is kept out by `stateTransitionMutex_`, and xrEndSession, which
does not take it, because it only starts in STOPPING, from where no frame moves.
`Alone` says that a call that began before the teardown has ended, and none starts.

`VideoProofs`, first part, on `VideoEncoder` (any frames, slots, Shutdown attempts, with
and without the helper): `EncoderIsSafe` and the refinement `DrainIsKept` of
`BoundedDrain`. The core is `Placed`: a frame that was handed over and not yet finalized
is in the map of contexts or in VideoToolbox and never in both, so of the completion,
the helper's death, the submission that fails and the reclaim of Shutdown exactly one
removes it and finalizes it. Slots (`Held`) and leases (`Counted`) go by the same
places. A step of the encoder takes one lease, returns one or leaves them alone
(`LeaseStep`), which is a step of the drain or a stutter; a Shutdown that returned true
has seen none (`Closed`, `Freed`).

`VideoProofs`, second part, on `VideoTransport` (any frames, slice lengths, FEC groups,
queues, caches, losses, over UDP and TCP): `TransportIsSafe` and `PosesArePlausible`. It
goes in four layers, each an invariant that supposes the ones before it.

* `ServerInv`, on the queues: frames are in the order of their age from the application
  to the sender (`Ages`, `Queued`), so what displaces a key frame is newer than it. It
  gives `KeyFramesReach`.
* `TransportInv` adds the types of link, cache and client, where much is a sequence
  whose length is fixed elsewhere: a NAL in reassembly has a slot per packet and a place
  per group. `PosesArePlausible` follows from it and the ring of poses.
* `Content` says that all that is on the link, in the cache or in reassembly belongs to
  NALs that were sent (`OnLink`, `Cached`, `Reassembling`), and why reassembly by the frame
  index alone mixes nothing though a key frame has two NALs: its parameter set is one
  packet, which goes before the slice, and while it is on its way nothing of that frame is
  pending, asked for or resent (`ParamFirst`). A torn record is the last of its session
  (`TornLast`). `DeliveryIsWhole` follows, under `~StaleCache`: with an entry of an earlier
  session in the cache it is false (section 3), so the hypothesis is needed.
* `Repair`, for sessions with one loss at most: nothing was asked for or resent, so the
  datagrams come in the order `SendNalUnit` made them (`Chain`), and the first of them says
  how far the pending slice has come (`Progress`): it holds what was sent before, but for
  one data packet or one parity (`Partway`). A lost data packet is recovered by its
  group's parity, which comes behind it; a lost last parity comes behind a complete slice.
  `OneLossIsRepaired` follows, whatever the cache holds.

One assumption says more than the constants' ranges: a FEC group has two packets or more (`GroupAssumption`;
it is 10, `Protocol.h:293`). With groups of one, a parity comes right behind its packet, the
parity of a lost first packet finds no pending NAL and is ignored, and TLC finds
`OneLossRepaired` violated. The send queue may have any size above zero (it is 2,
`StreamingServer.h:329`); with one place any new frame displaces the key frame that waits,
and `KeyFrameReaches` says nothing.

`QuestClientProofs` (any links, faults, resets and sessions): `QuestIsSafe` and
`QuestListensFirst`, under `Windows \subseteq {"linger"}`: each of the other three windows
alone breaks `QuestSafe` (section 2). The invariant says which threads there may be at
each label of the render thread. A connection is there from the creation of the receive
thread to its join (`Alive`); only one thread at a time makes one (`OneAtATime`), and only
when there is none (`FreshAlive`); while it is there it is up, being made, or its loss
is on its way to a reset (`LossPends`). `ResetFits` goes through a reset step by step,
and `QuietBefore` says why nothing flows before the ClientConnect.

`XrInputProofs` (any sets, actions, suggestions, packets, clients, sessions and queue):
`InputIsSafe`; `ChangesAreReported`, in every interleaving with the frame thread; and
`NoticeIsQueued`, without the window "ask". For the last, xrDestroySession removes
the events of the session from the queue and leaves profile reports behind
(`EventsFit`), and one of these must not be taken for one of the next session: either
the application still has a report of its own session to poll, or it knows what was
reported (`NoticeFits`). The removal is a selection on a sequence; what it keeps
is a lemma, proved by way of a least index instead of an induction.

`AdaptiveBitrateProofs` (any reports, modes, ceilings, totals): `BitrateIsSafe`, with
arithmetic modulo `Wrap`: what a report takes from a total is what was counted since the
last, through any number of wraps; a session must count less than `Wrap`
(`TotalsAssumption`; the code's totals have 32 bits). `BitrateRisesSlowly` compares the
controller's count of stable reports with the reports that were without trouble
(`Steady`). Both hold in the timing windows too. `EncoderRateFollows` is about the
others (`Windows = {}`): there only the session's own thread is busy, and the bitrate it
has still to give to the encoder is the one stored last (`Following`).

Two assumptions of `XrInput` tie constants together, `ActionAssumption` and `PacketAssumption`: each action has a set and its subaction paths, and a
packet has stage bounds or not.

What stays with TLC: liveness under fairness and everything about `ENABLED`; and
`SyncedValue` of `XrInput`, which is a fold over the live bindings and would need
induction over them. Every other safety property of a passing run is a theorem, for
some under the hypotheses named above. No module uses RECURSIVE.

## 6. Not modelled

* Pixels, colour, foveation geometry, poses, their history, prediction and
  velocities: floating-point arithmetic, for which TLC has no values and TLAPS no
  theory; the frame pacing of xrWaitFrame is time arithmetic of the same kind.
* Configuration, status file, codec and format choice: parsing and tables, which
  the repository's unit tests enumerate.
* The checks of arguments in the entry points, path strings, spaces, haptics, debug
  messengers, graphics dispatch.
* The encoder helper's own threads, MediaCodec, Metal and Vulkan: external, as their
  users meet them.
* Rendering and user interfaces of the clients, and the Apple clients' streaming
  package, a second implementation of what `QuestClient` and `VideoTransport` model.

`PROJECT.json` lists every component with its status.

## 7. Plan

Modelled: `StreamSession`, `VideoEncoder`, `Swapchain`, `StreamReconfigure`,
`XrSession`, `VideoTransport`, `QuestClient`, `ControllerInput` with `XrInput`,
`AdaptiveBitrate`. Proved: section 5. What is left, in this order:

1. `VideoTransport` with losses in any number: which NALs a NACK brings back, and frames
   of several slices.
2. `StreamSession` with both transports: what survives of `SessionServed` when two
   handlers overlap, and under which silences `SessionRouted` still holds.
3. The remaining action properties of `VideoEncoder`, `XrSession` and `XrInput` from the
   invariants there are.
