---------------------------- MODULE XrSessionProofs ----------------------------
(***************************************************************************)
(* Proofs about XrSession, for any swapchains and any number of frames     *)
(* waited for: what xrEndSession and xrDestroySession leave, and that the  *)
(* events follow SessionLifecycle.  Both rest on where the calls can be    *)
(* together: who uses the server while it is taken away, and who moves the *)
(* state while another thread has chosen a move and not made it.           *)
(***************************************************************************)
EXTENDS XrSession, TLAPS

\* The steps of the two calls that end a session.
EndSteps == {"s_pace", "s_take", "s_demand", "s_stop", "s_back", "s_frames",
             "s_idle", "s_exiting"}
DestroySteps == {"d_stop", "d_back", "d_chains", "d_free"}

\* Who holds streamingServerMutex_ shared, and what the server gives them.
Served ==
    /\ ~NoReader => server = "held"
    /\ pc["frame"] = "e_sent" \/ pc["haptics"] = "h_send" => receiver
    /\ client => receiver
    /\ server = "none" => ~receiver /\ ~tracking

\* What the calls that end a session have done at each step.
Stopped ==
    /\ server = "taken" =>
          pc["ctl"] \in {"s_demand", "s_stop", "s_back", "d_stop", "d_back"}
    /\ pc["ctl"] = "s_demand" => server # "held"
    /\ pc["ctl"] \in {"s_stop", "s_back", "d_stop", "d_back"} =>
          server = "taken" /\ ~demand /\ ~tracking
    /\ pc["ctl"] \in {"s_frames", "s_idle", "s_exiting", "d_chains", "d_free"} =>
          server = "none" /\ ~demand
    /\ last = "EXITING" \/ ~alive => server = "none" /\ ~demand

\* Whose turn it is to move the state, and from where.
Moves ==
    /\ teardown => state = "IDLE"
    /\ ~teardown => state = last
    /\ pc["exit"] = "x_sync" => state = "READY" /\ ~teardown
    /\ pc["exit"] = "x_stop" => state = "SYNCHRONIZED" /\ ~teardown
    /\ pc["frame"] = "e_move" =>
          /\ state \in {"READY", "SYNCHRONIZED", "VISIBLE", "FOCUSED"} /\ ~teardown
          /\ target \in {"SYNCHRONIZED", "VISIBLE", "FOCUSED", "STOPPING"}
          /\ pc["exit"] \notin {"x_sync", "x_stop"}
    /\ pc["ctl"] \in EndSteps \ {"s_exiting"} => state = "STOPPING" /\ ~teardown
    /\ pc["ctl"] = "s_exiting" => state = "IDLE" /\ ~teardown
    /\ pc["ctl"] \in {"b_run", "b_start"} => last \notin {"IDLE", "EXITING"} /\ ~teardown

\* The move xrEndFrame has chosen is one of the life cycle's.
Chosen ==
    pc["frame"] = "e_move" =>
        \/ state = "READY" /\ target = "SYNCHRONIZED"
        \/ state = "SYNCHRONIZED" /\ target \in {"VISIBLE", "STOPPING"}
        \/ state = "VISIBLE" /\ target \in {"FOCUSED", "SYNCHRONIZED"}
        \/ state = "FOCUSED" /\ target = "VISIBLE"

\* No other call is in progress while xrDestroySession excludes them, or after it.
Alone ==
    /\ teardown => ~running
    /\ teardown \/ ~alive => \A t \in {"wait", "frame", "exit"} : pc[t] = "idle"
    /\ Destroying \/ ~alive => teardown /\ ~promoted /\ pc["haptics"] = "idle"
    /\ pc["ctl"] = "d_free" \/ ~alive => chains = {}
    /\ ~alive => pc["ctl"] = "idle"

\* The frame being waited for has room to count.
Counts == pc["wait"] # "idle" => waited < MaxWaited

IInv == TypeOK /\ Served /\ Stopped /\ Moves /\ Chosen /\ Alone /\ Counts

\* Every action of Next, by name, so that each proof splits the same way.
LEMMA Actions ==
    ASSUME Next
    PROVE  \/ WaitFrame \/ WaitServer \/ WaitPace \/ WaitUpdate \/ WaitUse \/ WaitCount
           \/ BeginFrame \/ EndFrame \/ EndFrameRejected \/ EndFrameAccepted \/ EndFrameDone
           \/ EndFrameDemand \/ EndFrameTracking \/ EndFrameSend \/ EndFrameSent
           \/ Advance \/ AdvanceMove
           \/ SendHaptics \/ HapticsSent \/ ClientConnects \/ ClientLeaves
           \/ RequestExit \/ RequestExitChoose \/ RequestExitSynchronized \/ RequestExitStopping
           \/ BeginSession \/ BeginRunning \/ BeginStreaming
           \/ EndSession \/ EndPace \/ EndTake \/ EndDemand
           \/ EndStop \/ EndFails \/ EndFrames \/ EndIdle \/ EndExiting
           \/ Shutdown \/ ShutdownStop \/ ShutdownFails \/ ShutdownChains \/ DestroySession
           \/ CreateSwapchain \/ CreateImages \/ AddSwapchain \/ DestroySwapchain
  BY DEF Next, Waiting, Ending, Exiting, Beginning, Stopping, Destruction

-----------------------------------------------------------------------------
(* Every part of IInv is kept by every step.                              *)

\* The server: xrEndSession takes it only while nobody holds it shared.
LEMMA NextServed ==
    ASSUME IInv, [Next]_vars
    PROVE  Served'
  <1> USE DEF IInv, Go, Call, Destroying, Threads, TypeOK, Pcs, life, loop, stream,
              uses, object, NoReader, Served, Stopped, StreamType, UseType, Alone
  <1>1. CASE WaitFrame \/ WaitServer \/ WaitPace \/ WaitUpdate \/ WaitUse \/ WaitCount
    BY <1>1 DEF WaitFrame, WaitServer, WaitPace, WaitUpdate, WaitUse, WaitCount
  <1>2. CASE \/ BeginFrame \/ EndFrame \/ EndFrameRejected
             \/ EndFrameAccepted \/ EndFrameDone
    BY <1>2 DEF BeginFrame, EndFrame, EndFrameRejected, EndFrameAccepted, EndFrameDone,
                FrameWaited
  <1>3. CASE EndFrameDemand \/ EndFrameTracking \/ EndFrameSend \/ EndFrameSent
    BY <1>3 DEF EndFrameDemand, EndFrameTracking, EndFrameSend, EndFrameSent
  <1>4. CASE Advance \/ AdvanceMove
    BY <1>4 DEF Advance, AdvanceMove, AdvanceTarget, TransitionState
  <1>5. CASE SendHaptics \/ HapticsSent \/ ClientConnects \/ ClientLeaves
    BY <1>5 DEF SendHaptics, HapticsSent, ClientConnects, ClientLeaves
  <1>6. CASE \/ RequestExit \/ RequestExitChoose \/ RequestExitSynchronized
             \/ RequestExitStopping
    BY <1>6 DEF RequestExit, RequestExitChoose, RequestExitSynchronized,
                RequestExitStopping, ExitLock, TransitionState
  <1>7. CASE BeginSession \/ BeginRunning \/ BeginStreaming
    BY <1>7 DEF BeginSession, BeginRunning, BeginStreaming
  <1>8. CASE EndSession \/ EndPace \/ EndTake \/ EndDemand
    <2>1. CASE EndSession \/ EndPace \/ EndTake
      BY <2>1 DEF EndSession, EndPace, EndTake, MayTake
    <2>2. CASE EndDemand
      <3>1. UNCHANGED <<server, receiver, client>>
        BY <2>2 DEF EndDemand
      <3>2. tracking' => tracking
        BY <2>2, Zenon DEF EndDemand
      <3>3. /\ NoReader' = NoReader
            /\ pc'["frame"] = pc["frame"] /\ pc'["haptics"] = pc["haptics"]
        BY <2>2 DEF EndDemand
      <3> QED BY <3>1, <3>2, <3>3, Zenon
    <2> QED BY <1>8, <2>1, <2>2
  <1>9. CASE EndStop \/ EndFails \/ EndFrames \/ EndIdle \/ EndExiting
    BY <1>9 DEF EndStop, EndFails, EndFrames, EndIdle, EndExiting, StopServer, PutBack,
                TransitionState
  <1>10. CASE \/ Shutdown \/ ShutdownStop \/ ShutdownFails
              \/ ShutdownChains \/ DestroySession
    <2>1. CASE ShutdownStop \/ ShutdownFails \/ ShutdownChains \/ DestroySession
      BY <2>1 DEF ShutdownStop, ShutdownFails, ShutdownChains, DestroySession,
                  StopServer, PutBack
    <2>2. CASE Shutdown
      BY <2>2 DEF Shutdown
    <2> QED BY <1>10, <2>1, <2>2
  <1>11. CASE CreateSwapchain \/ CreateImages \/ AddSwapchain \/ DestroySwapchain
    BY <1>11 DEF CreateSwapchain, CreateImages, AddSwapchain, DestroySwapchain, MayAdd
  <1>12. CASE UNCHANGED vars
    BY <1>12 DEF vars
  <1> QED BY <1>1, <1>2, <1>3, <1>4, <1>5, <1>6, <1>7, <1>8, <1>9, <1>10, <1>11, <1>12,
             Actions

\* What the ending calls have done stays done: nobody sets it again without the
\* server.
LEMMA NextStopped ==
    ASSUME IInv, [Next]_vars
    PROVE  Stopped'
  <1> USE DEF IInv, Go, Call, Destroying, Threads, TypeOK, Pcs, life, loop, stream,
              uses, object, NoReader, Served, Stopped, Moves, StreamType, UseType,
              Alone, EndSteps
  <1>1. CASE WaitFrame \/ WaitServer \/ WaitPace \/ WaitUpdate \/ WaitUse \/ WaitCount
    BY <1>1 DEF WaitFrame, WaitServer, WaitPace, WaitUpdate, WaitUse, WaitCount
  <1>2. CASE \/ BeginFrame \/ EndFrame \/ EndFrameRejected
             \/ EndFrameAccepted \/ EndFrameDone
    BY <1>2 DEF BeginFrame, EndFrame, EndFrameRejected, EndFrameAccepted, EndFrameDone,
                FrameWaited
  <1>3. CASE EndFrameDemand \/ EndFrameTracking \/ EndFrameSend \/ EndFrameSent
    BY <1>3 DEF EndFrameDemand, EndFrameTracking, EndFrameSend, EndFrameSent
  <1>4. CASE Advance \/ AdvanceMove
    BY <1>4 DEF Advance, AdvanceMove, AdvanceTarget, TransitionState
  <1>5. CASE SendHaptics \/ HapticsSent \/ ClientConnects \/ ClientLeaves
    BY <1>5 DEF SendHaptics, HapticsSent, ClientConnects, ClientLeaves
  <1>6. CASE \/ RequestExit \/ RequestExitChoose \/ RequestExitSynchronized
             \/ RequestExitStopping
    BY <1>6 DEF RequestExit, RequestExitChoose, RequestExitSynchronized,
                RequestExitStopping, ExitLock, TransitionState
  <1>7. CASE BeginSession \/ BeginRunning \/ BeginStreaming
    BY <1>7 DEF BeginSession, BeginRunning, BeginStreaming
  <1>8. CASE EndSession \/ EndPace \/ EndTake \/ EndDemand
    <2>1. CASE EndSession \/ EndPace \/ EndTake
      BY <2>1 DEF EndSession, EndPace, EndTake, MayTake
    <2>2. CASE EndDemand
      <3>1. /\ UNCHANGED <<server, last, alive>> /\ demand' = FALSE
            /\ pc["ctl"] = "s_demand"
            /\ pc'["ctl"] = IF server = "taken" THEN "s_stop" ELSE "s_frames"
        BY <2>2 DEF EndDemand
      <3>2. server = "taken" => ~tracking'
        BY <2>2, Zenon DEF EndDemand
      <3> QED BY <3>1, <3>2
    <2> QED BY <1>8, <2>1, <2>2
  <1>9. CASE EndStop \/ EndFails \/ EndFrames \/ EndIdle \/ EndExiting
    BY <1>9 DEF EndStop, EndFails, EndFrames, EndIdle, EndExiting, StopServer, PutBack,
                TransitionState
  <1>10. CASE \/ Shutdown \/ ShutdownStop \/ ShutdownFails
              \/ ShutdownChains \/ DestroySession
    BY <1>10 DEF Shutdown, ShutdownStop, ShutdownFails, ShutdownChains, DestroySession,
                 StopServer, PutBack
  <1>11. CASE CreateSwapchain \/ CreateImages \/ AddSwapchain \/ DestroySwapchain
    BY <1>11 DEF CreateSwapchain, CreateImages, AddSwapchain, DestroySwapchain, MayAdd
  <1>12. CASE UNCHANGED vars
    BY <1>12 DEF vars
  <1> QED BY <1>1, <1>2, <1>3, <1>4, <1>5, <1>6, <1>7, <1>8, <1>9, <1>10, <1>11, <1>12,
             Actions

\* The state is moved by one thread at a time, which holds stateTransitionMutex_ or
\* comes after every frame and exit call has nothing left to move.
LEMMA NextMoves ==
    ASSUME IInv, [Next]_vars
    PROVE  Moves'
  <1> USE DEF IInv, Go, Call, Destroying, Threads, TypeOK, Pcs, life, loop, stream,
              uses, object, NoReader, Moves, Chosen, Alone, LifeType, EndSteps,
              TransitionFree, FrameStateFree
  <1>1. CASE WaitFrame \/ WaitServer \/ WaitPace \/ WaitUpdate \/ WaitUse \/ WaitCount
    BY <1>1 DEF WaitFrame, WaitServer, WaitPace, WaitUpdate, WaitUse, WaitCount
  <1>2. CASE \/ BeginFrame \/ EndFrame \/ EndFrameRejected
             \/ EndFrameAccepted \/ EndFrameDone
    BY <1>2 DEF BeginFrame, EndFrame, EndFrameRejected, EndFrameAccepted, EndFrameDone,
                FrameWaited
  <1>3. CASE EndFrameDemand \/ EndFrameTracking \/ EndFrameSend \/ EndFrameSent
    BY <1>3 DEF EndFrameDemand, EndFrameTracking, EndFrameSend, EndFrameSent
  <1>4. CASE Advance \/ AdvanceMove
    BY <1>4 DEF Advance, AdvanceMove, AdvanceTarget, TransitionState
  <1>5. CASE SendHaptics \/ HapticsSent \/ ClientConnects \/ ClientLeaves
    BY <1>5 DEF SendHaptics, HapticsSent, ClientConnects, ClientLeaves
  <1>6. CASE \/ RequestExit \/ RequestExitChoose \/ RequestExitSynchronized
             \/ RequestExitStopping
    BY <1>6 DEF RequestExit, RequestExitChoose, RequestExitSynchronized,
                RequestExitStopping, ExitLock, TransitionState
  <1>7. CASE BeginSession \/ BeginRunning \/ BeginStreaming
    BY <1>7 DEF BeginSession, BeginRunning, BeginStreaming
  <1>8. CASE EndSession \/ EndPace \/ EndTake \/ EndDemand
    BY <1>8 DEF EndSession, EndPace, EndTake, EndDemand, MayTake
  <1>9. CASE EndStop \/ EndFails \/ EndFrames \/ EndIdle \/ EndExiting
    BY <1>9 DEF EndStop, EndFails, EndFrames, EndIdle, EndExiting, StopServer, PutBack,
                TransitionState
  <1>10. CASE \/ Shutdown \/ ShutdownStop \/ ShutdownFails
              \/ ShutdownChains \/ DestroySession
    BY <1>10 DEF Shutdown, ShutdownStop, ShutdownFails, ShutdownChains, DestroySession,
                 StopServer, PutBack
  <1>11. CASE CreateSwapchain \/ CreateImages \/ AddSwapchain \/ DestroySwapchain
    BY <1>11 DEF CreateSwapchain, CreateImages, AddSwapchain, DestroySwapchain, MayAdd
  <1>12. CASE UNCHANGED vars
    BY <1>12 DEF vars
  <1> QED BY <1>1, <1>2, <1>3, <1>4, <1>5, <1>6, <1>7, <1>8, <1>9, <1>10, <1>11, <1>12,
             Actions

\* What xrEndFrame has chosen stays right until it is made.
LEMMA NextChosen ==
    ASSUME IInv, [Next]_vars
    PROVE  Chosen'
  <1> USE DEF IInv, Go, Call, Destroying, Threads, TypeOK, Pcs, life, loop, stream,
              uses, object, NoReader, Moves, Chosen, Alone, LifeType, EndSteps,
              TransitionFree, FrameStateFree
  <1>1. CASE WaitFrame \/ WaitServer \/ WaitPace \/ WaitUpdate \/ WaitUse \/ WaitCount
    BY <1>1 DEF WaitFrame, WaitServer, WaitPace, WaitUpdate, WaitUse, WaitCount
  <1>2. CASE \/ BeginFrame \/ EndFrame \/ EndFrameRejected
             \/ EndFrameAccepted \/ EndFrameDone
    BY <1>2 DEF BeginFrame, EndFrame, EndFrameRejected, EndFrameAccepted, EndFrameDone,
                FrameWaited
  <1>3. CASE EndFrameDemand \/ EndFrameTracking \/ EndFrameSend \/ EndFrameSent
    BY <1>3 DEF EndFrameDemand, EndFrameTracking, EndFrameSend, EndFrameSent
  <1>4. CASE Advance \/ AdvanceMove
    BY <1>4 DEF Advance, AdvanceMove, AdvanceTarget, TransitionState
  <1>5. CASE SendHaptics \/ HapticsSent \/ ClientConnects \/ ClientLeaves
    BY <1>5 DEF SendHaptics, HapticsSent, ClientConnects, ClientLeaves
  <1>6. CASE \/ RequestExit \/ RequestExitChoose \/ RequestExitSynchronized
             \/ RequestExitStopping
    BY <1>6 DEF RequestExit, RequestExitChoose, RequestExitSynchronized,
                RequestExitStopping, ExitLock, TransitionState
  <1>7. CASE BeginSession \/ BeginRunning \/ BeginStreaming
    BY <1>7 DEF BeginSession, BeginRunning, BeginStreaming
  <1>8. CASE EndSession \/ EndPace \/ EndTake \/ EndDemand
    BY <1>8 DEF EndSession, EndPace, EndTake, EndDemand, MayTake
  <1>9. CASE EndStop \/ EndFails \/ EndFrames \/ EndIdle \/ EndExiting
    BY <1>9 DEF EndStop, EndFails, EndFrames, EndIdle, EndExiting, StopServer, PutBack,
                TransitionState
  <1>10. CASE \/ Shutdown \/ ShutdownStop \/ ShutdownFails
              \/ ShutdownChains \/ DestroySession
    BY <1>10 DEF Shutdown, ShutdownStop, ShutdownFails, ShutdownChains, DestroySession,
                 StopServer, PutBack
  <1>11. CASE CreateSwapchain \/ CreateImages \/ AddSwapchain \/ DestroySwapchain
    BY <1>11 DEF CreateSwapchain, CreateImages, AddSwapchain, DestroySwapchain, MayAdd
  <1>12. CASE UNCHANGED vars
    BY <1>12 DEF vars
  <1> QED BY <1>1, <1>2, <1>3, <1>4, <1>5, <1>6, <1>7, <1>8, <1>9, <1>10, <1>11, <1>12,
             Actions

\* Nothing starts on a session being torn down.
LEMMA NextAlone ==
    ASSUME IInv, [Next]_vars
    PROVE  Alone'
  <1> USE DEF IInv, Go, Call, Destroying, Threads, TypeOK, Pcs, life, loop, stream,
              uses, object, NoReader, Served, Stopped, Moves, Alone, EndSteps,
              ObjectType
  <1>1. CASE WaitFrame \/ WaitServer \/ WaitPace \/ WaitUpdate \/ WaitUse \/ WaitCount
    BY <1>1 DEF WaitFrame, WaitServer, WaitPace, WaitUpdate, WaitUse, WaitCount
  <1>2. CASE \/ BeginFrame \/ EndFrame \/ EndFrameRejected
             \/ EndFrameAccepted \/ EndFrameDone
    BY <1>2 DEF BeginFrame, EndFrame, EndFrameRejected, EndFrameAccepted, EndFrameDone,
                FrameWaited
  <1>3. CASE EndFrameDemand \/ EndFrameTracking \/ EndFrameSend \/ EndFrameSent
    BY <1>3 DEF EndFrameDemand, EndFrameTracking, EndFrameSend, EndFrameSent
  <1>4. CASE Advance \/ AdvanceMove
    BY <1>4 DEF Advance, AdvanceMove, AdvanceTarget, TransitionState
  <1>5. CASE SendHaptics \/ HapticsSent \/ ClientConnects \/ ClientLeaves
    BY <1>5 DEF SendHaptics, HapticsSent, ClientConnects, ClientLeaves
  <1>6. CASE \/ RequestExit \/ RequestExitChoose \/ RequestExitSynchronized
             \/ RequestExitStopping
    BY <1>6 DEF RequestExit, RequestExitChoose, RequestExitSynchronized,
                RequestExitStopping, ExitLock, TransitionState
  <1>7. CASE BeginSession \/ BeginRunning \/ BeginStreaming
    BY <1>7 DEF BeginSession, BeginRunning, BeginStreaming
  <1>8. CASE EndSession \/ EndPace \/ EndTake \/ EndDemand
    BY <1>8 DEF EndSession, EndPace, EndTake, EndDemand, MayTake
  <1>9. CASE EndStop \/ EndFails \/ EndFrames \/ EndIdle \/ EndExiting
    BY <1>9 DEF EndStop, EndFails, EndFrames, EndIdle, EndExiting, StopServer, PutBack,
                TransitionState
  <1>10. CASE \/ Shutdown \/ ShutdownStop \/ ShutdownFails
              \/ ShutdownChains \/ DestroySession
    BY <1>10 DEF Shutdown, ShutdownStop, ShutdownFails, ShutdownChains, DestroySession,
                 StopServer, PutBack
  <1>11. CASE CreateSwapchain \/ CreateImages \/ AddSwapchain \/ DestroySwapchain
    BY <1>11 DEF CreateSwapchain, CreateImages, AddSwapchain, DestroySwapchain, MayAdd
  <1>12. CASE UNCHANGED vars
    BY <1>12 DEF vars
  <1> QED BY <1>1, <1>2, <1>3, <1>4, <1>5, <1>6, <1>7, <1>8, <1>9, <1>10, <1>11, <1>12,
             Actions

\* One thread waits, so that the room it found is still there when it counts.
LEMMA NextCounts ==
    ASSUME IInv, [Next]_vars
    PROVE  Counts'
  <1> USE BoundAssumption DEF IInv, Go, Call, Destroying, Threads, TypeOK, Pcs, life,
                              loop, stream, uses, object, NoReader, Counts, FrameType,
                              Alone
  <1>1. CASE WaitFrame \/ WaitServer \/ WaitPace \/ WaitUpdate \/ WaitUse \/ WaitCount
    BY <1>1 DEF WaitFrame, WaitServer, WaitPace, WaitUpdate, WaitUse, WaitCount
  <1>2. CASE \/ BeginFrame \/ EndFrame \/ EndFrameRejected
             \/ EndFrameAccepted \/ EndFrameDone
    BY <1>2 DEF BeginFrame, EndFrame, EndFrameRejected, EndFrameAccepted, EndFrameDone,
                FrameWaited
  <1>3. CASE EndFrameDemand \/ EndFrameTracking \/ EndFrameSend \/ EndFrameSent
    BY <1>3 DEF EndFrameDemand, EndFrameTracking, EndFrameSend, EndFrameSent
  <1>4. CASE Advance \/ AdvanceMove
    BY <1>4 DEF Advance, AdvanceMove, AdvanceTarget, TransitionState
  <1>5. CASE SendHaptics \/ HapticsSent \/ ClientConnects \/ ClientLeaves
    BY <1>5 DEF SendHaptics, HapticsSent, ClientConnects, ClientLeaves
  <1>6. CASE \/ RequestExit \/ RequestExitChoose \/ RequestExitSynchronized
             \/ RequestExitStopping
    BY <1>6 DEF RequestExit, RequestExitChoose, RequestExitSynchronized,
                RequestExitStopping, ExitLock, TransitionState
  <1>7. CASE BeginSession \/ BeginRunning \/ BeginStreaming
    BY <1>7 DEF BeginSession, BeginRunning, BeginStreaming
  <1>8. CASE EndSession \/ EndPace \/ EndTake \/ EndDemand
    BY <1>8 DEF EndSession, EndPace, EndTake, EndDemand, MayTake
  <1>9. CASE EndStop \/ EndFails \/ EndFrames \/ EndIdle \/ EndExiting
    BY <1>9 DEF EndStop, EndFails, EndFrames, EndIdle, EndExiting, StopServer, PutBack,
                TransitionState
  <1>10. CASE \/ Shutdown \/ ShutdownStop \/ ShutdownFails
              \/ ShutdownChains \/ DestroySession
    BY <1>10 DEF Shutdown, ShutdownStop, ShutdownFails, ShutdownChains, DestroySession,
                 StopServer, PutBack
  <1>11. CASE CreateSwapchain \/ CreateImages \/ AddSwapchain \/ DestroySwapchain
    BY <1>11 DEF CreateSwapchain, CreateImages, AddSwapchain, DestroySwapchain, MayAdd
  <1>12. CASE UNCHANGED vars
    BY <1>12 DEF vars
  <1> QED BY <1>1, <1>2, <1>3, <1>4, <1>5, <1>6, <1>7, <1>8, <1>9, <1>10, <1>11, <1>12,
             Actions

-----------------------------------------------------------------------------
\* Types, part by part.
LEMMA NextPcs ==
    ASSUME IInv, Next
    PROVE  (pc \in [Threads -> Pcs])'
  <1> USE DEF IInv, TypeOK, Go, Call, Threads, Pcs
  <1>1. CASE WaitFrame \/ WaitServer \/ WaitPace \/ WaitUpdate \/ WaitUse \/ WaitCount
    BY <1>1 DEF WaitFrame, WaitServer, WaitPace, WaitUpdate, WaitUse, WaitCount
  <1>2. CASE \/ BeginFrame \/ EndFrame \/ EndFrameRejected
             \/ EndFrameAccepted \/ EndFrameDone
    BY <1>2 DEF BeginFrame, EndFrame, EndFrameRejected, EndFrameAccepted, EndFrameDone,
                FrameWaited
  <1>3. CASE EndFrameDemand \/ EndFrameTracking \/ EndFrameSend \/ EndFrameSent
    BY <1>3 DEF EndFrameDemand, EndFrameTracking, EndFrameSend, EndFrameSent
  <1>4. CASE Advance \/ AdvanceMove
    BY <1>4 DEF Advance, AdvanceMove, AdvanceTarget, TransitionState
  <1>5. CASE SendHaptics \/ HapticsSent \/ ClientConnects \/ ClientLeaves
    BY <1>5 DEF SendHaptics, HapticsSent, ClientConnects, ClientLeaves
  <1>6. CASE \/ RequestExit \/ RequestExitChoose \/ RequestExitSynchronized
             \/ RequestExitStopping
    BY <1>6 DEF RequestExit, RequestExitChoose, RequestExitSynchronized,
                RequestExitStopping, ExitLock, TransitionState
  <1>7. CASE BeginSession \/ BeginRunning \/ BeginStreaming
    BY <1>7 DEF BeginSession, BeginRunning, BeginStreaming
  <1>8. CASE EndSession \/ EndPace \/ EndTake \/ EndDemand
    BY <1>8 DEF EndSession, EndPace, EndTake, EndDemand, MayTake
  <1>9. CASE EndStop \/ EndFails \/ EndFrames \/ EndIdle \/ EndExiting
    BY <1>9 DEF EndStop, EndFails, EndFrames, EndIdle, EndExiting, StopServer, PutBack,
                TransitionState
  <1>10. CASE \/ Shutdown \/ ShutdownStop \/ ShutdownFails
              \/ ShutdownChains \/ DestroySession
    BY <1>10 DEF Shutdown, ShutdownStop, ShutdownFails, ShutdownChains, DestroySession,
                 StopServer, PutBack
  <1>11. CASE CreateSwapchain \/ CreateImages \/ AddSwapchain \/ DestroySwapchain
    BY <1>11 DEF CreateSwapchain, CreateImages, AddSwapchain, DestroySwapchain, MayAdd
  <1> QED BY <1>1, <1>2, <1>3, <1>4, <1>5, <1>6, <1>7, <1>8, <1>9, <1>10, <1>11, Actions

LEMMA NextLife ==
    ASSUME IInv, Next
    PROVE  LifeType'
  <1> USE DEF IInv, TypeOK, Go, Call, life, loop, stream, uses, object, LifeType,
              Lifecycle!States
  <1>1. CASE WaitFrame \/ WaitServer \/ WaitPace \/ WaitUpdate \/ WaitUse \/ WaitCount
    BY <1>1 DEF WaitFrame, WaitServer, WaitPace, WaitUpdate, WaitUse, WaitCount
  <1>2. CASE \/ BeginFrame \/ EndFrame \/ EndFrameRejected
             \/ EndFrameAccepted \/ EndFrameDone
    BY <1>2 DEF BeginFrame, EndFrame, EndFrameRejected, EndFrameAccepted, EndFrameDone,
                FrameWaited
  <1>3. CASE EndFrameDemand \/ EndFrameTracking \/ EndFrameSend \/ EndFrameSent
    BY <1>3 DEF EndFrameDemand, EndFrameTracking, EndFrameSend, EndFrameSent
  <1>4. CASE Advance \/ AdvanceMove
    BY <1>4 DEF Advance, AdvanceMove, AdvanceTarget, TransitionState
  <1>5. CASE SendHaptics \/ HapticsSent \/ ClientConnects \/ ClientLeaves
    BY <1>5 DEF SendHaptics, HapticsSent, ClientConnects, ClientLeaves
  <1>6. CASE \/ RequestExit \/ RequestExitChoose \/ RequestExitSynchronized
             \/ RequestExitStopping
    BY <1>6 DEF RequestExit, RequestExitChoose, RequestExitSynchronized,
                RequestExitStopping, ExitLock, TransitionState
  <1>7. CASE BeginSession \/ BeginRunning \/ BeginStreaming
    BY <1>7 DEF BeginSession, BeginRunning, BeginStreaming
  <1>8. CASE EndSession \/ EndPace \/ EndTake \/ EndDemand
    BY <1>8 DEF EndSession, EndPace, EndTake, EndDemand, MayTake
  <1>9. CASE EndStop \/ EndFails \/ EndFrames \/ EndIdle \/ EndExiting
    BY <1>9 DEF EndStop, EndFails, EndFrames, EndIdle, EndExiting, StopServer, PutBack,
                TransitionState
  <1>10. CASE \/ Shutdown \/ ShutdownStop \/ ShutdownFails
              \/ ShutdownChains \/ DestroySession
    BY <1>10 DEF Shutdown, ShutdownStop, ShutdownFails, ShutdownChains, DestroySession,
                 StopServer, PutBack
  <1>11. CASE CreateSwapchain \/ CreateImages \/ AddSwapchain \/ DestroySwapchain
    BY <1>11 DEF CreateSwapchain, CreateImages, AddSwapchain, DestroySwapchain, MayAdd
  <1> QED BY <1>1, <1>2, <1>3, <1>4, <1>5, <1>6, <1>7, <1>8, <1>9, <1>10, <1>11, Actions

LEMMA NextStream ==
    ASSUME IInv, Next
    PROVE  StreamType'
  <1> USE DEF IInv, TypeOK, Go, Call, life, loop, stream, uses, object, StreamType,
              Threads
  <1>1. CASE WaitFrame \/ WaitServer \/ WaitPace \/ WaitUpdate \/ WaitUse \/ WaitCount
    BY <1>1 DEF WaitFrame, WaitServer, WaitPace, WaitUpdate, WaitUse, WaitCount
  <1>2. CASE \/ BeginFrame \/ EndFrame \/ EndFrameRejected
             \/ EndFrameAccepted \/ EndFrameDone
    BY <1>2 DEF BeginFrame, EndFrame, EndFrameRejected, EndFrameAccepted, EndFrameDone,
                FrameWaited
  <1>3. CASE EndFrameDemand \/ EndFrameTracking \/ EndFrameSend \/ EndFrameSent
    BY <1>3 DEF EndFrameDemand, EndFrameTracking, EndFrameSend, EndFrameSent
  <1>4. CASE Advance \/ AdvanceMove
    BY <1>4 DEF Advance, AdvanceMove, AdvanceTarget, TransitionState
  <1>5. CASE SendHaptics \/ HapticsSent \/ ClientConnects \/ ClientLeaves
    BY <1>5 DEF SendHaptics, HapticsSent, ClientConnects, ClientLeaves
  <1>6. CASE \/ RequestExit \/ RequestExitChoose \/ RequestExitSynchronized
             \/ RequestExitStopping
    BY <1>6 DEF RequestExit, RequestExitChoose, RequestExitSynchronized,
                RequestExitStopping, ExitLock, TransitionState
  <1>7. CASE BeginSession \/ BeginRunning \/ BeginStreaming
    BY <1>7 DEF BeginSession, BeginRunning, BeginStreaming
  <1>8. CASE EndSession \/ EndPace \/ EndTake \/ EndDemand
    BY <1>8 DEF EndSession, EndPace, EndTake, EndDemand, MayTake
  <1>9. CASE EndStop \/ EndFails \/ EndFrames \/ EndIdle \/ EndExiting
    BY <1>9 DEF EndStop, EndFails, EndFrames, EndIdle, EndExiting, StopServer, PutBack,
                TransitionState
  <1>10. CASE \/ Shutdown \/ ShutdownStop \/ ShutdownFails
              \/ ShutdownChains \/ DestroySession
    BY <1>10 DEF Shutdown, ShutdownStop, ShutdownFails, ShutdownChains, DestroySession,
                 StopServer, PutBack
  <1>11. CASE CreateSwapchain \/ CreateImages \/ AddSwapchain \/ DestroySwapchain
    BY <1>11 DEF CreateSwapchain, CreateImages, AddSwapchain, DestroySwapchain, MayAdd
  <1> QED BY <1>1, <1>2, <1>3, <1>4, <1>5, <1>6, <1>7, <1>8, <1>9, <1>10, <1>11, Actions

LEMMA NextWaited ==
    ASSUME IInv, Next
    PROVE  (waited \in 0 .. MaxWaited)'
  <1> USE BoundAssumption DEF IInv, TypeOK, Go, Call, life, loop, stream, uses, object,
                              FrameType, Counts, Threads
  <1>1. CASE WaitFrame \/ WaitServer \/ WaitPace \/ WaitUpdate \/ WaitUse \/ WaitCount
    BY <1>1 DEF WaitFrame, WaitServer, WaitPace, WaitUpdate, WaitUse, WaitCount
  <1>2. CASE \/ BeginFrame \/ EndFrame \/ EndFrameRejected
             \/ EndFrameAccepted \/ EndFrameDone
    BY <1>2 DEF BeginFrame, EndFrame, EndFrameRejected, EndFrameAccepted, EndFrameDone,
                FrameWaited
  <1>3. CASE EndFrameDemand \/ EndFrameTracking \/ EndFrameSend \/ EndFrameSent
    BY <1>3 DEF EndFrameDemand, EndFrameTracking, EndFrameSend, EndFrameSent
  <1>4. CASE Advance \/ AdvanceMove
    BY <1>4 DEF Advance, AdvanceMove, AdvanceTarget, TransitionState
  <1>5. CASE SendHaptics \/ HapticsSent \/ ClientConnects \/ ClientLeaves
    BY <1>5 DEF SendHaptics, HapticsSent, ClientConnects, ClientLeaves
  <1>6. CASE \/ RequestExit \/ RequestExitChoose \/ RequestExitSynchronized
             \/ RequestExitStopping
    BY <1>6 DEF RequestExit, RequestExitChoose, RequestExitSynchronized,
                RequestExitStopping, ExitLock, TransitionState
  <1>7. CASE BeginSession \/ BeginRunning \/ BeginStreaming
    BY <1>7 DEF BeginSession, BeginRunning, BeginStreaming
  <1>8. CASE EndSession \/ EndPace \/ EndTake \/ EndDemand
    BY <1>8 DEF EndSession, EndPace, EndTake, EndDemand, MayTake
  <1>9. CASE EndStop \/ EndFails \/ EndFrames \/ EndIdle \/ EndExiting
    BY <1>9 DEF EndStop, EndFails, EndFrames, EndIdle, EndExiting, StopServer, PutBack,
                TransitionState
  <1>10. CASE \/ Shutdown \/ ShutdownStop \/ ShutdownFails
              \/ ShutdownChains \/ DestroySession
    BY <1>10 DEF Shutdown, ShutdownStop, ShutdownFails, ShutdownChains, DestroySession,
                 StopServer, PutBack
  <1>11. CASE CreateSwapchain \/ CreateImages \/ AddSwapchain \/ DestroySwapchain
    BY <1>11 DEF CreateSwapchain, CreateImages, AddSwapchain, DestroySwapchain, MayAdd
  <1> QED BY <1>1, <1>2, <1>3, <1>4, <1>5, <1>6, <1>7, <1>8, <1>9, <1>10, <1>11, Actions

LEMMA NextBegun ==
    ASSUME IInv, Next
    PROVE  (frameBegun \in BOOLEAN)'
  <1> USE DEF IInv, TypeOK, Go, Call, life, loop, stream, uses, object, FrameType,
              Threads
  <1>1. CASE WaitFrame \/ WaitServer \/ WaitPace \/ WaitUpdate \/ WaitUse \/ WaitCount
    BY <1>1 DEF WaitFrame, WaitServer, WaitPace, WaitUpdate, WaitUse, WaitCount
  <1>2. CASE \/ BeginFrame \/ EndFrame \/ EndFrameRejected
             \/ EndFrameAccepted \/ EndFrameDone
    BY <1>2 DEF BeginFrame, EndFrame, EndFrameRejected, EndFrameAccepted, EndFrameDone,
                FrameWaited
  <1>3. CASE EndFrameDemand \/ EndFrameTracking \/ EndFrameSend \/ EndFrameSent
    BY <1>3 DEF EndFrameDemand, EndFrameTracking, EndFrameSend, EndFrameSent
  <1>4. CASE Advance \/ AdvanceMove
    BY <1>4 DEF Advance, AdvanceMove, AdvanceTarget, TransitionState
  <1>5. CASE SendHaptics \/ HapticsSent \/ ClientConnects \/ ClientLeaves
    BY <1>5 DEF SendHaptics, HapticsSent, ClientConnects, ClientLeaves
  <1>6. CASE \/ RequestExit \/ RequestExitChoose \/ RequestExitSynchronized
             \/ RequestExitStopping
    BY <1>6 DEF RequestExit, RequestExitChoose, RequestExitSynchronized,
                RequestExitStopping, ExitLock, TransitionState
  <1>7. CASE BeginSession \/ BeginRunning \/ BeginStreaming
    BY <1>7 DEF BeginSession, BeginRunning, BeginStreaming
  <1>8. CASE EndSession \/ EndPace \/ EndTake \/ EndDemand
    BY <1>8 DEF EndSession, EndPace, EndTake, EndDemand, MayTake
  <1>9. CASE EndStop \/ EndFails \/ EndFrames \/ EndIdle \/ EndExiting
    BY <1>9 DEF EndStop, EndFails, EndFrames, EndIdle, EndExiting, StopServer, PutBack,
                TransitionState
  <1>10. CASE \/ Shutdown \/ ShutdownStop \/ ShutdownFails
              \/ ShutdownChains \/ DestroySession
    BY <1>10 DEF Shutdown, ShutdownStop, ShutdownFails, ShutdownChains, DestroySession,
                 StopServer, PutBack
  <1>11. CASE CreateSwapchain \/ CreateImages \/ AddSwapchain \/ DestroySwapchain
    BY <1>11 DEF CreateSwapchain, CreateImages, AddSwapchain, DestroySwapchain, MayAdd
  <1> QED BY <1>1, <1>2, <1>3, <1>4, <1>5, <1>6, <1>7, <1>8, <1>9, <1>10, <1>11, Actions

LEMMA NextUse ==
    ASSUME IInv, Next
    PROVE  UseType'
  <1> USE DEF IInv, TypeOK, Go, Call, life, loop, stream, uses, object, UseType
  <1>1. CASE WaitFrame \/ WaitServer \/ WaitPace \/ WaitUpdate \/ WaitUse \/ WaitCount
    BY <1>1 DEF WaitFrame, WaitServer, WaitPace, WaitUpdate, WaitUse, WaitCount
  <1>2. CASE \/ BeginFrame \/ EndFrame \/ EndFrameRejected
             \/ EndFrameAccepted \/ EndFrameDone
    BY <1>2 DEF BeginFrame, EndFrame, EndFrameRejected, EndFrameAccepted, EndFrameDone,
                FrameWaited
  <1>3. CASE EndFrameDemand \/ EndFrameTracking \/ EndFrameSend \/ EndFrameSent
    <2>1. demand' = demand \/ demand' = (server = "held" /\ client)
      BY <1>3 DEF EndFrameDemand, EndFrameTracking, EndFrameSend, EndFrameSent
    <2>2. demand' \in BOOLEAN
      BY <2>1, Zenon
    <2>3. tracking' = tracking \/ tracking' = client
      BY <1>3 DEF EndFrameDemand, EndFrameTracking, EndFrameSend, EndFrameSent
    <2>4. tracking' \in BOOLEAN /\ promoted' \in BOOLEAN
      BY <1>3, <2>3, Zenon DEF EndFrameDemand, EndFrameTracking, EndFrameSend,
                               EndFrameSent,
                            StreamType
    <2> QED BY <2>2, <2>4, Zenon
  <1>4. CASE Advance \/ AdvanceMove
    BY <1>4 DEF Advance, AdvanceMove, AdvanceTarget, TransitionState
  <1>5. CASE SendHaptics \/ HapticsSent \/ ClientConnects \/ ClientLeaves
    BY <1>5 DEF SendHaptics, HapticsSent, ClientConnects, ClientLeaves
  <1>6. CASE \/ RequestExit \/ RequestExitChoose \/ RequestExitSynchronized
             \/ RequestExitStopping
    BY <1>6 DEF RequestExit, RequestExitChoose, RequestExitSynchronized,
                RequestExitStopping, ExitLock, TransitionState
  <1>7. CASE BeginSession \/ BeginRunning \/ BeginStreaming
    BY <1>7 DEF BeginSession, BeginRunning, BeginStreaming
  <1>8. CASE EndSession \/ EndPace \/ EndTake \/ EndDemand
    BY <1>8 DEF EndSession, EndPace, EndTake, EndDemand, MayTake
  <1>9. CASE EndStop \/ EndFails \/ EndFrames \/ EndIdle \/ EndExiting
    BY <1>9 DEF EndStop, EndFails, EndFrames, EndIdle, EndExiting, StopServer, PutBack,
                TransitionState
  <1>10. CASE \/ Shutdown \/ ShutdownStop \/ ShutdownFails
              \/ ShutdownChains \/ DestroySession
    BY <1>10 DEF Shutdown, ShutdownStop, ShutdownFails, ShutdownChains, DestroySession,
                 StopServer, PutBack
  <1>11. CASE CreateSwapchain \/ CreateImages \/ AddSwapchain \/ DestroySwapchain
    BY <1>11 DEF CreateSwapchain, CreateImages, AddSwapchain, DestroySwapchain, MayAdd
  <1> QED BY <1>1, <1>2, <1>3, <1>4, <1>5, <1>6, <1>7, <1>8, <1>9, <1>10, <1>11, Actions

LEMMA NextObject ==
    ASSUME IInv, Next
    PROVE  ObjectType'
  <1> USE DEF IInv, TypeOK, Go, Call, life, loop, stream, uses, object, ObjectType,
              Threads
  <1>1. CASE WaitFrame \/ WaitServer \/ WaitPace \/ WaitUpdate \/ WaitUse \/ WaitCount
    BY <1>1 DEF WaitFrame, WaitServer, WaitPace, WaitUpdate, WaitUse, WaitCount
  <1>2. CASE \/ BeginFrame \/ EndFrame \/ EndFrameRejected
             \/ EndFrameAccepted \/ EndFrameDone
    BY <1>2 DEF BeginFrame, EndFrame, EndFrameRejected, EndFrameAccepted, EndFrameDone,
                FrameWaited
  <1>3. CASE EndFrameDemand \/ EndFrameTracking \/ EndFrameSend \/ EndFrameSent
    BY <1>3 DEF EndFrameDemand, EndFrameTracking, EndFrameSend, EndFrameSent
  <1>4. CASE Advance \/ AdvanceMove
    BY <1>4 DEF Advance, AdvanceMove, AdvanceTarget, TransitionState
  <1>5. CASE SendHaptics \/ HapticsSent \/ ClientConnects \/ ClientLeaves
    BY <1>5 DEF SendHaptics, HapticsSent, ClientConnects, ClientLeaves
  <1>6. CASE \/ RequestExit \/ RequestExitChoose \/ RequestExitSynchronized
             \/ RequestExitStopping
    BY <1>6 DEF RequestExit, RequestExitChoose, RequestExitSynchronized,
                RequestExitStopping, ExitLock, TransitionState
  <1>7. CASE BeginSession \/ BeginRunning \/ BeginStreaming
    BY <1>7 DEF BeginSession, BeginRunning, BeginStreaming
  <1>8. CASE EndSession \/ EndPace \/ EndTake \/ EndDemand
    BY <1>8 DEF EndSession, EndPace, EndTake, EndDemand, MayTake
  <1>9. CASE EndStop \/ EndFails \/ EndFrames \/ EndIdle \/ EndExiting
    BY <1>9 DEF EndStop, EndFails, EndFrames, EndIdle, EndExiting, StopServer, PutBack,
                TransitionState
  <1>10. CASE \/ Shutdown \/ ShutdownStop \/ ShutdownFails
              \/ ShutdownChains \/ DestroySession
    BY <1>10 DEF Shutdown, ShutdownStop, ShutdownFails, ShutdownChains, DestroySession,
                 StopServer, PutBack
  <1>11. CASE CreateSwapchain \/ CreateImages \/ AddSwapchain \/ DestroySwapchain
    BY <1>11 DEF CreateSwapchain, CreateImages, AddSwapchain, DestroySwapchain, MayAdd
  <1> QED BY <1>1, <1>2, <1>3, <1>4, <1>5, <1>6, <1>7, <1>8, <1>9, <1>10, <1>11, Actions

LEMMA NextType ==
    ASSUME IInv, [Next]_vars
    PROVE  TypeOK'
  <1> USE DEF Threads, Go, Call, life, loop, stream, uses, object
  <1>1. CASE UNCHANGED vars
    BY <1>1 DEF vars, IInv, TypeOK, LifeType, StreamType, FrameType, UseType, ObjectType
  <1>2. CASE Next
    <2>1. (pc \in [Threads -> Pcs])'
      BY <1>2, NextPcs
    <2>2. LifeType'
      BY <1>2, NextLife
    <2>3. StreamType'
      BY <1>2, NextStream
    <2>4. FrameType'
      BY <1>2, NextWaited, NextBegun DEF FrameType
    <2>5. UseType'
      BY <1>2, NextUse
    <2>6. ObjectType'
      BY <1>2, NextObject
    <2> QED BY <2>1, <2>2, <2>3, <2>4, <2>5, <2>6 DEF TypeOK
  <1> QED BY <1>1, <1>2


LEMMA InitIInv == Init => IInv
  <1> SUFFICES ASSUME Init PROVE IInv
    OBVIOUS
  <1> USE BoundAssumption DEF Init, Threads, EndSteps, DestroySteps, Destroying
  <1>1. TypeOK
    <2>1. LifeType /\ StreamType
      BY DEF LifeType, StreamType, Lifecycle!States
    <2>2. waited \in 0 .. MaxWaited
      OBVIOUS
    <2>3. FrameType /\ UseType /\ ObjectType
      BY <2>2, Zenon DEF FrameType, UseType, ObjectType
    <2>4. pc \in [Threads -> Pcs]
      BY DEF Pcs
    <2> QED BY <2>1, <2>3, <2>4 DEF TypeOK
  <1>2. Served /\ Stopped /\ Alone /\ Counts
    BY DEF Served, Stopped, Alone, Counts, NoReader
  <1>3. Moves /\ Chosen
    BY DEF Moves, Chosen
  <1> QED BY <1>1, <1>2, <1>3 DEF IInv

LEMMA NextIInv == IInv /\ [Next]_vars => IInv'
  BY NextType, NextServed, NextStopped, NextMoves, NextChosen, NextAlone, NextCounts
     DEF IInv

LEMMA Invariance == Spec => []IInv
  BY InitIInv, NextIInv, PTL DEF Spec

-----------------------------------------------------------------------------
(* Theorems.                                                               *)

\* Session.cpp, the whole file: every variable of a session keeps its type; in
\* particular no frame is begun that was not waited for.
THEOREM TypeInvariant == Spec => []TypeOK
  <1>1. IInv => TypeOK
    BY DEF IInv
  <1> QED BY <1>1, Invariance, PTL

\* Session.h on streamingServerMutex_: a frame or haptics call never has the server it
\* uses taken away, whatever xrEndSession does meanwhile.
THEOREM ServerNotTakenInUse == Spec => []ServerKept
  <1>1. IInv => ServerKept
    BY DEF IInv, Served, ServerKept, NoReader
  <1> QED BY <1>1, Invariance, PTL

\* xrEndSession: an ended session streams nothing and points to no receiver, whatever
\* frame and wait calls it met on other threads.
THEOREM EndIsQuiet == Spec => []EndedQuiet
  <1>1. IInv => EndedQuiet
    BY DEF IInv, Served, Stopped, EndedQuiet
  <1> QED BY <1>1, Invariance, PTL

\* xrDestroySession: the destructor finds nothing left that it could fail to release,
\* after any number of failed attempts and with swapchains being created meanwhile.
THEOREM DestructorFindsNothing == Spec => []NothingLeft
  <1>1. IInv => NothingLeft
    BY DEF IInv, Served, Stopped, Alone, Destroying, NothingLeft
  <1> QED BY <1>1, Invariance, PTL

\* The invariant of the runs.
THEOREM SessionIsSafe == Spec => []SessionSafe
  <1>1. TypeOK /\ ServerKept /\ EndedQuiet /\ NothingLeft => SessionSafe
    BY DEF SessionSafe
  <1> QED BY <1>1, TypeInvariant, ServerNotTakenInUse, EndIsQuiet, DestructorFindsNothing, PTL

\* Only five actions push an event.
LEMMA Movers ==
    ASSUME [Next]_vars
    PROVE  \/ AdvanceMove \/ RequestExitSynchronized \/ RequestExitStopping
           \/ EndIdle \/ EndExiting \/ UNCHANGED last
  <1> USE DEF life
  <1>1. CASE WaitFrame \/ WaitServer \/ WaitPace \/ WaitUpdate \/ WaitUse \/ WaitCount
    BY <1>1 DEF WaitFrame, WaitServer, WaitPace, WaitUpdate, WaitUse, WaitCount
  <1>2. CASE \/ BeginFrame \/ EndFrame \/ EndFrameRejected
             \/ EndFrameAccepted \/ EndFrameDone
    BY <1>2 DEF BeginFrame, EndFrame, EndFrameRejected, EndFrameAccepted, EndFrameDone
  <1>3. CASE EndFrameDemand \/ EndFrameTracking \/ EndFrameSend \/ EndFrameSent
    BY <1>3 DEF EndFrameDemand, EndFrameTracking, EndFrameSend, EndFrameSent
  <1>4. CASE Advance
    BY <1>4 DEF Advance
  <1>5. CASE SendHaptics \/ HapticsSent \/ ClientConnects \/ ClientLeaves
    BY <1>5 DEF SendHaptics, HapticsSent, ClientConnects, ClientLeaves
  <1>6. CASE RequestExit \/ RequestExitChoose
    BY <1>6 DEF RequestExit, RequestExitChoose
  <1>7. CASE BeginSession \/ BeginRunning \/ BeginStreaming
    BY <1>7 DEF BeginSession, BeginRunning, BeginStreaming
  <1>8. CASE EndSession \/ EndPace \/ EndTake \/ EndDemand
    BY <1>8 DEF EndSession, EndPace, EndTake, EndDemand
  <1>9. CASE EndStop \/ EndFails \/ EndFrames
    BY <1>9 DEF EndStop, EndFails, EndFrames, StopServer, PutBack
  <1>10. CASE \/ Shutdown \/ ShutdownStop \/ ShutdownFails
              \/ ShutdownChains \/ DestroySession
    BY <1>10 DEF Shutdown, ShutdownStop, ShutdownFails, ShutdownChains, DestroySession,
                 StopServer, PutBack
  <1>11. CASE CreateSwapchain \/ CreateImages \/ AddSwapchain \/ DestroySwapchain
    BY <1>11 DEF CreateSwapchain, CreateImages, AddSwapchain, DestroySwapchain
  <1>12. CASE UNCHANGED vars
    BY <1>12 DEF vars
  <1> QED BY <1>1, <1>2, <1>3, <1>4, <1>5, <1>6, <1>7, <1>8, <1>9, <1>10, <1>11, <1>12,
             Actions

\* A step that pushes an event makes a move of the life cycle, and no other step
\* pushes one.
LEMMA StepIsLegal ==
    ASSUME IInv, [Next]_vars
    PROVE  [Lifecycle!Next]_last
  <1> USE DEF Lifecycle!Next, Lifecycle!Up, Lifecycle!Down, Lifecycle!End,
              Lifecycle!Move
  <1>1. CASE AdvanceMove
    BY <1>1 DEF AdvanceMove, TransitionState, Go, IInv, Moves, Chosen
  <1>2. CASE RequestExitSynchronized \/ RequestExitStopping
    BY <1>2 DEF RequestExitSynchronized, RequestExitStopping, TransitionState, Go, IInv,
                Moves
  <1>3. CASE EndIdle \/ EndExiting
    BY <1>3 DEF EndIdle, EndExiting, TransitionState, Go, IInv, Moves, EndSteps
  <1>4. CASE UNCHANGED last
    BY <1>4
  <1> QED BY <1>1, <1>2, <1>3, <1>4, Movers

\* The events an application polls are those of SessionLifecycle, in its order,
\* although three threads push them.
THEOREM EventsAreLegal == Spec => LegalTransitions
  <1>1. Init => Lifecycle!Init
    BY DEF Init, Lifecycle!Init
  <1>2. IInv /\ [Next]_vars => [Lifecycle!Next]_last
    BY StepIsLegal
  <1> QED BY <1>1, <1>2, Invariance, PTL DEF Spec, LegalTransitions, Lifecycle!Spec
================================================================================
