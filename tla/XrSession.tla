------------------------------- MODULE XrSession -------------------------------
(***************************************************************************)
(* An OpenXR session (Session.cpp): its states and events, the frame loop, *)
(* the streaming server it owns, exit requests, the end of the session and *)
(* its destruction, called from several application threads:               *)
(*   "wait"     xrWaitFrame                                                *)
(*   "frame"    xrBeginFrame and xrEndFrame                                *)
(*   "exit"     xrRequestExitSession                                       *)
(*   "haptics"  xrApplyHapticFeedback                                      *)
(*   "maker"    xrCreateSwapchain and xrDestroySwapchain                   *)
(*   "ctl"      xrBeginSession, xrEndSession and xrDestroySession          *)
(* xrDestroySession is called as OpenXR requires, with no other call on    *)
(* the session in progress; an xrCreateSwapchain may be, since the code    *)
(* provides for it.  A step ends where a lock is released or a value       *)
(* another thread reads is stored.                                         *)
(***************************************************************************)
EXTENDS Naturals, FiniteSets

CONSTANTS
    Chains,      \* swapchains the application may create
    MaxWaited    \* bound: frames waited for and not yet begun

ASSUME BoundAssumption == MaxWaited \in Nat \ {0}

VARIABLES
    state, running, exitRequested,   \* state_, running_, exitRequested_
    last,        \* the state in the last event pushed
    frameBegun, waited,              \* frameBegun_, waitedFrameCount_
    server,      \* streamingServer_: "none", "held", or "taken" out to be stopped
    started,     \* streamingStarted_
    receiver,    \* the server's tracking receiver exists
    client,      \* the server's IsClientConnected
    demand,      \* streamingSnapshotDemand_
    tracking,    \* the input manager's trackingReceiver_ is set
    promoted,    \* pacingThread_: a thread has the realtime policy
    teardown,    \* teardownStarted_
    chains,      \* swapchains_
    alive,       \* the session handle is valid
    target,      \* the state xrEndFrame has chosen to go to
    pc           \* where each thread is

life    == <<state, running, exitRequested, last>>
loop    == <<frameBegun, waited, target>>
stream  == <<server, started, receiver, client>>
uses    == <<demand, tracking, promoted>>
object  == <<teardown, chains, alive>>
vars    == <<life, loop, stream, uses, object, pc>>

Threads == {"wait", "frame", "exit", "haptics", "maker", "ctl"}

Go(t, from, to) == pc[t] = from /\ pc' = [pc EXCEPT ![t] = to]

\* Where xrDestroySession is while it excludes every other call.
Destroying == pc["ctl"] \in {"d_stop", "d_back", "d_chains", "d_free"}
\* A call on the session starts.
Call(t, to) == alive /\ ~Destroying /\ Go(t, "idle", to)

\* The two mutexes held over several steps, and streamingServerMutex_ held shared.
TransitionFree == pc["frame"] # "e_move" /\ pc["exit"] \notin {"x_sync", "x_stop"}
FrameStateFree == pc["exit"] \notin {"x_sync", "x_stop"}
NoReader ==
    pc["frame"] \notin {"e_wire", "e_client", "e_sent"} /\ pc["haptics"] # "h_send"

\* A session is created: the constructor has pushed IDLE and READY.
Init ==
    /\ state = "READY" /\ last = "READY" /\ running = FALSE /\ exitRequested = FALSE
    /\ frameBegun = FALSE /\ waited = 0 /\ target = "READY"
    /\ server = "none" /\ started = FALSE /\ receiver = FALSE /\ client = FALSE
    /\ demand = FALSE /\ tracking = FALSE /\ promoted = FALSE
    /\ teardown = FALSE /\ chains = {} /\ alive = TRUE
    /\ pc = [t \in Threads |-> "idle"]

TransitionState(s) == state' = s /\ last' = s

-------------------------------------------------------------------------------
(* xrBeginSession.                                                         *)

BeginSession ==
    /\ Call("ctl", "b_run") /\ ~running /\ state = "READY"
    /\ exitRequested' = FALSE /\ frameBegun' = FALSE /\ waited' = 0
    /\ UNCHANGED <<state, running, last, target, stream, uses, object>>

BeginRunning ==
    /\ Go("ctl", "b_run", "b_start") /\ running' = TRUE
    /\ UNCHANGED <<state, exitRequested, last, loop, stream, uses, object>>

\* StartStreamingIfNeeded; a server that does not start is not an error.
BeginStreaming ==
    /\ Go("ctl", "b_start", "idle") /\ NoReader
    /\ \/ /\ ~started
          /\ server' = "held" /\ started' = TRUE /\ receiver' = TRUE
       \/ UNCHANGED <<server, started, receiver>>
    /\ UNCHANGED <<life, loop, client, uses, object>>

-------------------------------------------------------------------------------
(* xrWaitFrame.                                                            *)

WaitFrame ==
    /\ Call("wait", "w_server") /\ FrameStateFree /\ running /\ waited < MaxWaited
    /\ UNCHANGED <<life, loop, stream, uses, object>>

WaitServer ==
    /\ Go("wait", "w_server", "w_pace")
    /\ demand' = (server = "held" /\ client)
    /\ UNCHANGED <<life, loop, stream, tracking, promoted, object>>

\* UpdatePacingThread, with pacing_thread = "realtime".
WaitPace ==
    /\ Go("wait", "w_pace", "w_update") /\ promoted' = TRUE
    /\ UNCHANGED <<life, loop, stream, demand, tracking, object>>

\* InputManager::Update: the pointer is tested and then used, under no lock.
WaitUpdate ==
    /\ Go("wait", "w_update", IF tracking THEN "w_use" ELSE "w_count")
    /\ UNCHANGED <<life, loop, stream, uses, object>>

WaitUse ==
    /\ Go("wait", "w_use", "w_count")
    /\ UNCHANGED <<life, loop, stream, uses, object>>

\* The frame counts only if the session still runs.
WaitCount ==
    /\ Go("wait", "w_count", "idle") /\ FrameStateFree
    /\ waited' = IF running THEN waited + 1 ELSE waited
    /\ UNCHANGED <<life, frameBegun, target, stream, uses, object>>

-------------------------------------------------------------------------------
(* xrBeginFrame and xrEndFrame.                                            *)

FrameWaited == running /\ waited # 0

\* A frame begun over one not ended discards that one.
BeginFrame ==
    /\ Call("frame", "idle") /\ FrameStateFree /\ FrameWaited
    /\ waited' = waited - 1 /\ frameBegun' = TRUE
    /\ UNCHANGED <<life, target, stream, uses, object>>

EndFrame ==
    /\ Call("frame", "e_layers") /\ FrameStateFree /\ running /\ frameBegun
    /\ UNCHANGED <<life, loop, stream, uses, object>>

\* A layer is invalid: the frame stays begun and may be ended again.
EndFrameRejected ==
    /\ Go("frame", "e_layers", "idle")
    /\ UNCHANGED <<life, loop, stream, uses, object>>

EndFrameAccepted ==
    /\ Go("frame", "e_layers", "e_send")
    /\ UNCHANGED <<life, loop, stream, uses, object>>

\* CheckStreamingConnection, under streamingServerMutex_ held shared until the
\* frame is sent, follows a headset that may come and go meanwhile ...
EndFrameDemand ==
    /\ Go("frame", "e_send", IF server = "held" THEN "e_wire" ELSE "e_done")
    /\ demand' = (server = "held" /\ client)
    /\ UNCHANGED <<life, loop, stream, tracking, promoted, object>>

EndFrameTracking ==
    /\ Go("frame", "e_wire", "e_client") /\ tracking' = client
    /\ UNCHANGED <<life, loop, stream, demand, promoted, object>>

\* ... and SendFrame has something to do if it is there.
EndFrameSend ==
    /\ Go("frame", "e_client", IF client THEN "e_sent" ELSE "e_done")
    /\ UNCHANGED <<life, loop, stream, uses, object>>

EndFrameSent ==
    /\ Go("frame", "e_sent", "e_done")
    /\ UNCHANGED <<life, loop, stream, uses, object>>

EndFrameDone ==
    /\ Go("frame", "e_done", "e_advance") /\ FrameStateFree
    /\ frameBegun' = FALSE
    /\ UNCHANGED <<life, waited, target, stream, uses, object>>

\* Mutant: an exit request leaves SYNCHRONIZED alone.
AdvanceTargetStays(s) ==
    IF exitRequested
    THEN CASE s = "FOCUSED" -> "VISIBLE" [] s = "VISIBLE" -> "SYNCHRONIZED"
           [] s = "READY" -> "SYNCHRONIZED" [] OTHER -> s
    ELSE CASE s = "READY" -> "SYNCHRONIZED" [] s = "SYNCHRONIZED" -> "VISIBLE"
           [] s = "VISIBLE" -> "FOCUSED" [] OTHER -> s

\* Where a submitted frame takes the session: up, or down after an exit request.
AdvanceTarget(s) ==
    IF exitRequested
    THEN CASE s = "FOCUSED" -> "VISIBLE" [] s = "VISIBLE" -> "SYNCHRONIZED"
           [] s = "READY" -> "SYNCHRONIZED" [] s = "SYNCHRONIZED" -> "STOPPING"
           [] OTHER -> s
    ELSE CASE s = "READY" -> "SYNCHRONIZED" [] s = "SYNCHRONIZED" -> "VISIBLE"
           [] s = "VISIBLE" -> "FOCUSED" [] OTHER -> s

\* AdvanceSessionStateAfterFrameSubmission chooses, holding stateTransitionMutex_ ...
Advance ==
    /\ TransitionFree
    /\ \/ /\ running /\ AdvanceTarget(state) # state
          /\ Go("frame", "e_advance", "e_move") /\ target' = AdvanceTarget(state)
       \/ /\ ~running \/ AdvanceTarget(state) = state
          /\ Go("frame", "e_advance", "idle") /\ UNCHANGED target
    /\ UNCHANGED <<life, frameBegun, waited, stream, uses, object>>

\* ... and moves.
AdvanceMove ==
    /\ Go("frame", "e_move", "idle") /\ TransitionState(target)
    /\ UNCHANGED <<running, exitRequested, loop, stream, uses, object>>

-------------------------------------------------------------------------------
(* xrApplyHapticFeedback: SendHaptics holds streamingServerMutex_ shared.  *)

SendHaptics ==
    /\ Call("haptics", "h_send") /\ server = "held" /\ client
    /\ UNCHANGED <<life, loop, stream, uses, object>>

HapticsSent ==
    /\ Go("haptics", "h_send", "idle")
    /\ UNCHANGED <<life, loop, stream, uses, object>>

-------------------------------------------------------------------------------
(* xrRequestExitSession.                                                   *)

RequestExit ==
    /\ Call("exit", "x_lock") /\ running
    /\ UNCHANGED <<life, loop, stream, uses, object>>

\* Mutant: only frameStateMutex_ is taken.
ExitLockNone == TRUE
ExitLock == TransitionFree

\* A session with no frame under way is taken down at once, since no frame
\* would do it.
RequestExitChoose ==
    /\ ExitLock /\ exitRequested' = TRUE
    /\ IF state = "READY" /\ ~frameBegun /\ waited = 0
       THEN Go("exit", "x_lock", "x_sync")
       ELSE Go("exit", "x_lock", "idle")
    /\ UNCHANGED <<state, running, last, loop, stream, uses, object>>

RequestExitSynchronized ==
    /\ Go("exit", "x_sync", "x_stop") /\ TransitionState("SYNCHRONIZED")
    /\ UNCHANGED <<running, exitRequested, loop, stream, uses, object>>

RequestExitStopping ==
    /\ Go("exit", "x_stop", "idle") /\ TransitionState("STOPPING")
    /\ UNCHANGED <<running, exitRequested, loop, stream, uses, object>>

-------------------------------------------------------------------------------
(* xrEndSession, which may fail and be called again.  The application      *)
(* calls it, from one thread, once it has polled the event STOPPING.       *)

EndSession ==
    /\ Call("ctl", "s_pace") /\ state = "STOPPING"
    /\ running' = FALSE
    /\ UNCHANGED <<state, exitRequested, last, loop, stream, uses, object>>

EndPace ==
    /\ Go("ctl", "s_pace", "s_take") /\ promoted' = FALSE
    /\ UNCHANGED <<life, loop, stream, demand, tracking, object>>

\* streamingServerMutex_ is taken exclusively.
MayTake == NoReader

EndTake ==
    /\ Go("ctl", "s_take", "s_demand") /\ MayTake
    /\ server' = IF server = "held" THEN "taken" ELSE "none"
    /\ UNCHANGED <<life, loop, started, receiver, client, uses, object>>

\* No snapshots are wanted, and the input manager forgets the receiver.
EndDemand ==
    /\ Go("ctl", "s_demand", IF server = "taken" THEN "s_stop" ELSE "s_frames")
    /\ demand' = FALSE /\ tracking' = (tracking /\ server # "taken")
    /\ UNCHANGED <<life, loop, stream, promoted, object>>

\* StreamingServer::Stop (see StreamSession) drops the client and destroys the
\* receiver; only then may it fail, for an encoder that is not drained.
StopServer(from, done, back) ==
    /\ receiver' = FALSE /\ client' = FALSE
    /\ \/ Go("ctl", from, done) /\ server' = "none" /\ started' = FALSE
       \/ Go("ctl", from, back) /\ UNCHANGED <<server, started>>
    /\ UNCHANGED <<life, loop, uses, object>>

EndStop == StopServer("s_stop", "s_frames", "s_back")

\* The server is put back, to be stopped again.
PutBack(from) ==
    /\ Go("ctl", from, "idle") /\ NoReader /\ server' = "held"
    /\ UNCHANGED <<life, loop, started, receiver, client, uses, object>>

EndFails == PutBack("s_back")

EndFrames ==
    /\ Go("ctl", "s_frames", "s_idle") /\ FrameStateFree
    /\ frameBegun' = FALSE /\ waited' = 0
    /\ UNCHANGED <<life, target, stream, uses, object>>

EndIdle ==
    /\ Go("ctl", "s_idle", "s_exiting") /\ TransitionState("IDLE")
    /\ UNCHANGED <<running, exitRequested, loop, stream, uses, object>>

EndExiting ==
    /\ Go("ctl", "s_exiting", "idle") /\ TransitionState("EXITING")
    /\ exitRequested' = FALSE
    /\ UNCHANGED <<running, loop, stream, uses, object>>

-------------------------------------------------------------------------------
(* xrDestroySession, which may fail and be called again.                   *)

\* Session::Shutdown up to the stop of the server.
Shutdown ==
    /\ \A t \in Threads \ {"maker", "ctl"} : pc[t] = "idle"
    /\ Call("ctl", IF server = "held" THEN "d_stop" ELSE "d_chains")
    /\ teardown' = TRUE /\ running' = FALSE /\ exitRequested' = TRUE /\ state' = "IDLE"
    /\ frameBegun' = FALSE /\ waited' = 0
    /\ promoted' = FALSE /\ tracking' = FALSE /\ demand' = FALSE
    /\ server' = IF server = "held" THEN "taken" ELSE "none"
    /\ UNCHANGED <<last, target, started, receiver, client, chains, alive>>

ShutdownStop == StopServer("d_stop", "d_chains", "d_back")
ShutdownFails == PutBack("d_back")

\* Every swapchain is prepared; one that is not drained fails the call.
ShutdownChains ==
    /\ \/ Go("ctl", "d_chains", "d_free") /\ chains' = {}
       \/ chains # {} /\ Go("ctl", "d_chains", "idle") /\ UNCHANGED chains
    /\ UNCHANGED <<life, loop, stream, uses, teardown, alive>>

\* gSession.reset: the application has left xrCreateSwapchain by then.  The
\* destructor shuts down once more, and ends the process if it cannot.
DestroySession ==
    /\ Go("ctl", "d_free", "idle") /\ pc["maker"] = "idle"
    /\ alive' = FALSE /\ chains' = {}
    /\ UNCHANGED <<life, loop, stream, uses, teardown>>

-------------------------------------------------------------------------------
(* Swapchains.                                                             *)

CreateSwapchain ==
    /\ alive /\ Go("maker", "idle", "m_create") /\ ~teardown
    /\ UNCHANGED <<life, loop, stream, uses, object>>

\* The images are allocated, or not.
CreateImages ==
    /\ Go("maker", "m_create", "m_add") \/ Go("maker", "m_create", "idle")
    /\ UNCHANGED <<life, loop, stream, uses, object>>

\* Mutant: teardown is not looked at again.
MayAddAlways == TRUE
MayAdd == ~teardown

\* Under swapchainsMutex_ the session is looked at again before the swapchain is kept.
AddSwapchain ==
    /\ Go("maker", "m_add", "idle")
    /\ \/ MayAdd /\ \E c \in Chains \ chains : chains' = chains \cup {c}
       \/ ~MayAdd /\ UNCHANGED chains
    /\ UNCHANGED <<life, loop, stream, uses, teardown, alive>>

DestroySwapchain ==
    /\ Call("maker", "idle")
    /\ \E c \in chains : chains' = chains \ {c}
    /\ UNCHANGED <<life, loop, stream, uses, teardown, alive>>

-------------------------------------------------------------------------------
(* The headset comes and goes while the server runs.                       *)

ClientConnects ==
    /\ ~client /\ receiver /\ client' = TRUE
    /\ UNCHANGED <<life, loop, server, started, receiver, uses, object, pc>>

ClientLeaves ==
    /\ client /\ client' = FALSE
    /\ UNCHANGED <<life, loop, server, started, receiver, uses, object, pc>>

-------------------------------------------------------------------------------

Waiting == WaitServer \/ WaitPace \/ WaitUpdate \/ WaitUse \/ WaitCount
Ending ==
    \/ EndFrameDemand \/ EndFrameTracking
    \/ EndFrameSend \/ EndFrameSent \/ EndFrameDone \/ Advance \/ AdvanceMove
Exiting == RequestExitChoose \/ RequestExitSynchronized \/ RequestExitStopping
Beginning == BeginRunning \/ BeginStreaming
Stopping ==
    \/ EndPace \/ EndTake \/ EndDemand \/ EndStop \/ EndFails
    \/ EndFrames \/ EndIdle \/ EndExiting
Destruction == ShutdownStop \/ ShutdownFails \/ ShutdownChains \/ DestroySession

Next ==
    \/ WaitFrame \/ Waiting
    \/ BeginFrame \/ EndFrame \/ EndFrameRejected \/ EndFrameAccepted \/ Ending
    \/ SendHaptics \/ HapticsSent
    \/ RequestExit \/ Exiting
    \/ BeginSession \/ Beginning \/ EndSession \/ Stopping
    \/ Shutdown \/ Destruction
    \/ CreateSwapchain \/ CreateImages \/ AddSwapchain \/ DestroySwapchain
    \/ ClientConnects \/ ClientLeaves

\* The application goes on rendering while the session runs, and not every frame
\* of it has an invalid layer; every call that has begun goes on.
Fairness ==
    /\ WF_vars(WaitFrame) /\ WF_vars(Waiting)
    /\ WF_vars(BeginFrame) /\ WF_vars(EndFrame) /\ SF_vars(EndFrameAccepted)
    /\ WF_vars(Ending) /\ WF_vars(HapticsSent) /\ WF_vars(Exiting)
    /\ WF_vars(Beginning) /\ WF_vars(Stopping)

Spec == Init /\ [][Next]_vars
FairSpec == Spec /\ Fairness

-------------------------------------------------------------------------------

Lifecycle == INSTANCE SessionLifecycle WITH state <- last

\* What every variable holds; in particular a frame is never begun more often
\* than waited for.
LifeType ==
    /\ {state, last, target} \subseteq Lifecycle!States
    /\ running \in BOOLEAN /\ exitRequested \in BOOLEAN
StreamType ==
    /\ server \in {"none", "held", "taken"} /\ started \in BOOLEAN
    /\ receiver \in BOOLEAN /\ client \in BOOLEAN
FrameType == frameBegun \in BOOLEAN /\ waited \in 0 .. MaxWaited
UseType == demand \in BOOLEAN /\ tracking \in BOOLEAN /\ promoted \in BOOLEAN
ObjectType == teardown \in BOOLEAN /\ alive \in BOOLEAN /\ chains \subseteq Chains
Pcs == {"idle", "b_run", "b_start", "w_server", "w_pace", "w_update", "w_use",
        "w_count", "e_layers", "e_send", "e_wire", "e_client", "e_sent", "e_done",
        "e_advance", "e_move",
        "h_send", "x_lock", "x_sync", "x_stop", "s_pace", "s_take", "s_demand",
        "s_stop", "s_back", "s_frames", "s_idle", "s_exiting", "d_stop", "d_back",
        "d_chains", "d_free", "m_create", "m_add"}
TypeOK ==
    /\ LifeType /\ StreamType /\ FrameType /\ UseType /\ ObjectType
    /\ pc \in [Threads -> Pcs]

\* The events an application polls follow the OpenXR state machine, although the
\* frame loop, exit requests and xrEndSession push them from different threads.
LegalTransitions == Lifecycle!Spec

\* Session.h on streamingServerMutex_: a frame or haptics call that uses the
\* streaming server never sees it taken away and stopped under its hands.
ServerKept ==
    pc["frame"] = "e_sent" \/ pc["haptics"] = "h_send" => server = "held" /\ receiver

\* After xrEndSession nothing is streamed any more: the server is gone, no swapchain
\* makes snapshots, and nothing points to the tracking receiver the server owned,
\* whatever frame and wait calls were in progress meanwhile.
EndedQuiet == last = "EXITING" => server = "none" /\ ~demand /\ ~tracking

\* When xrDestroySession frees the session nothing is left that its destructor could
\* fail to release, which would end the process: also when xrEndSession or earlier
\* attempts failed half-way and a swapchain was being created meanwhile.
NothingLeft ==
    pc["ctl"] = "d_free" \/ ~alive =>
        /\ chains = {} /\ server = "none" /\ ~receiver
        /\ ~demand /\ ~tracking /\ ~promoted

\* What the runs check of the invariants together: what a call uses stays until it is done with it,
\* and what a session held is gone when it has ended.
SessionSafe == TypeOK /\ ServerKept /\ EndedQuiet /\ NothingLeft

\* Session.cpp, RequestExitSession: a session asked to exit comes to STOPPING if
\* frames go on, or at once if none was begun, so that it can be ended.
ExitReached == exitRequested /\ running ~> state = "STOPPING" \/ ~running

=============================================================================
