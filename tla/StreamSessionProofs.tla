-------------------------- MODULE StreamSessionProofs --------------------------
(***************************************************************************)
(* Proofs about StreamSession, for every value of the constants: any       *)
(* number of client addresses, connects, frames and Stop attempts, with or *)
(* without each transport.                                                 *)
(*                                                                         *)
(* The argument for the encoder: encoderMutex_ is held by exactly the      *)
(* handler that is between locking and unlocking it (LockInv), an encoder  *)
(* takes frames only while it is the current one and nobody holds the      *)
(* mutex to replace it, and so every frame in flight is inside the current *)
(* encoder (EncoderInv).  The argument for Stop: once running_ is false    *)
(* no thread that has left its loop comes back, so each wait of Stop       *)
(* establishes a fact that no later step of any thread disturbs (StopInv). *)
(* The argument for sessions: with one transport there is one connect      *)
(* handler, so what it has written at each of its steps (BeaconInv,        *)
(* ServedInv, WifiRouted, UsbRouted) is disturbed only by a disconnect,    *)
(* and the watchdog's, the one disconnect of another thread, is kept apart *)
(* from its own by disconnectMutex_ and by what each leaves to the other.  *)
(***************************************************************************)
EXTENDS StreamSession, TLAPS

-----------------------------------------------------------------------------
(* Types.                                                                  *)

LEMMA InitType == Init => TypeOK
  <1> SUFFICES ASSUME Init PROVE TypeOK
    OBVIOUS
  <1> USE AddrAssumption DEF Init, Handlers, Threads, States, Free
  <1>1. ConnType
    BY DEF ConnType
  <1>2. VideoType
    BY DEF VideoType, NoDispatch
  <1>3. CoderType
    BY DEF CoderType
  <1>4. FrameType
    BY DEF FrameType, NoSnap
  <1>5. SyncType
    BY DEF SyncType
  <1>6. ThreadType
    BY DEF ThreadType, Pcs
  <1>7. BoundType
    BY DEF BoundType
  <1> QED BY <1>1, <1>2, <1>3, <1>4, <1>5, <1>6, <1>7 DEF TypeOK

LEMMA GoType ==
  ASSUME ThreadType, NEW t \in Threads, NEW from, NEW to \in Pcs, Go(t, from, to)
  PROVE  pc' \in [Threads -> Pcs]
  BY DEF ThreadType, Go

LEMMA HeadType == ASSUME NEW p \in Pcs PROVE Head(p) \in Pcs
  BY DEF Head, Pcs

LEMMA ReturnType ==
  ASSUME ThreadType, NEW t \in Handlers, NEW from, Return(t, from)
  PROVE  pc' \in [Threads -> Pcs]
  <1>1. Head(ret[t]) \in Pcs
    BY DEF ThreadType, Head, Pcs
  <1>2. t \in Threads
    BY DEF Threads
  <1> QED BY <1>1, <1>2, GoType DEF Return

\* The steps as facts of their own: the provers need not expand Pcs.
LEMMA PcsMembers ==
  /\ {"recv", "exited", "honor", "uread", "uowner", "uclose"} \subseteq Pcs
  /\ {"ulast", "route", "snap", "submit", "wait", "idle"} \subseteq Pcs
  /\ {"a_live", "a_state", "a_enc", "a_push", "c_track", "c_client"} \subseteq Pcs
  /\ {"c_dispatch", "c_state", "c_seed", "c_join", "c_wait", "c_run"} \subseteq Pcs
  /\ {"c_enc", "c_drain", "c_build", "c_init", "c_fail", "c_idle"} \subseteq Pcs
  /\ {"c_restart", "d_lock", "d_state", "d_client", "d_track", "d_inval"} \subseteq Pcs
  /\ {"d_dispatch", "d_tcp", "d_queue", "d_enc", "d_drain", "d_join"} \subseteq Pcs
  /\ {"d_wait", "d_restart", "s_running", "s_state", "s_dispatch", "s_client"} \subseteq Pcs
  /\ {"s_join", "s_wait", "s_threads", "s_enc", "s_drain", "stopped"} \subseteq Pcs
  BY DEF Pcs

\* A part whose variables do not change keeps its type.
LEMMA KeepType ==
  /\ ConnType /\ UNCHANGED conn => ConnType'
  /\ VideoType /\ UNCHANGED video => VideoType'
  /\ CoderType /\ UNCHANGED coder => CoderType'
  /\ FrameType /\ UNCHANGED frames => FrameType'
  /\ SyncType /\ UNCHANGED sync => SyncType'
  /\ BoundType /\ UNCHANGED bounds => BoundType'
  BY DEF ConnType, VideoType, CoderType, FrameType, SyncType, BoundType,
         conn, video, coder, frames, sync, locks, bounds

\* A step of HandleClientConnect or HandleUsbClientConnect keeps the types.
LEMMA ConnectType ==
  ASSUME TypeOK, NEW t \in {"control", "tcpControl"}, ConnectStep(t)
  PROVE  TypeOK'
  <1> USE AddrAssumption
      DEF TypeOK, Handlers, Threads, States, Free, conn, video, coder, frames, locks,
          locals, bounds, own, work, sync, data
  <1>1. CASE ConnectTrack(t)
    <2>1. ConnType'
      BY <1>1 DEF ConnectTrack, TrackSource, ConnType, ThreadType
    <2>2. ThreadType'
      BY <1>1, GoType, PcsMembers DEF ConnectTrack, TrackSource, ThreadType
    <2> QED BY <1>1, <2>1, <2>2, KeepType DEF ConnectTrack, TrackSource
  <1>2. CASE ConnectClient(t)
    <2>1. ConnType'
      BY <1>2 DEF ConnectClient, ConnType, ThreadType
    <2>2. ThreadType'
      BY <1>2, GoType, PcsMembers DEF ConnectClient, ThreadType
    <2> QED BY <1>2, <2>1, <2>2, KeepType DEF ConnectClient
  <1>3. CASE ConnectDispatch(t)
    <2>1. VideoType'
      BY <1>3 DEF ConnectDispatch, VideoType, ThreadType
    <2>2. ThreadType'
      BY <1>3, GoType, PcsMembers DEF ConnectDispatch, ThreadType
    <2> QED BY <1>3, <2>1, <2>2, KeepType DEF ConnectDispatch
  <1>4. CASE ConnectState(t)
    <2>1. ConnType'
      BY <1>4 DEF ConnectState, ConnType
    <2>2. ThreadType'
      BY <1>4, GoType, PcsMembers DEF ConnectState, ThreadType
    <2> QED BY <1>4, <2>1, <2>2, KeepType DEF ConnectState
  <1>5. CASE ConnectSeed(t)
    <2>1. ConnType'
      BY <1>5 DEF ConnectSeed, ConnType
    <2>2. ThreadType'
      BY <1>5, GoType, PcsMembers DEF ConnectSeed, ThreadType
    <2> QED BY <1>5, <2>1, <2>2, KeepType DEF ConnectSeed
  <1>6. CASE JoinBegin(t, "c_join", "c_wait")
    <2>1. SyncType'
      BY <1>6 DEF JoinBegin, SyncType
    <2>2. ThreadType'
      BY <1>6, GoType, PcsMembers DEF JoinBegin, ThreadType
    <2> QED BY <1>6, <2>1, <2>2, KeepType DEF JoinBegin
  <1>7. CASE JoinEnd(t, "c_wait", "c_run")
    <2>1. SyncType'
      BY <1>7 DEF JoinEnd, SyncType
    <2>2. ThreadType'
      BY <1>7, GoType, PcsMembers DEF JoinEnd, ThreadType
    <2> QED BY <1>7, <2>1, <2>2, KeepType DEF JoinEnd
  <1>8. CASE ConnectRunning(t)
    <2>1. ThreadType'
      BY <1>8, ReturnType, GoType, PcsMembers DEF ConnectRunning, ThreadType
    <2> QED BY <1>8, <2>1, KeepType DEF ConnectRunning
  <1>9. CASE ConnectEncoder(t)
    <2>1. CoderType'
      <3>1. valid' \subseteq valid /\ live' \in {0, live} /\ access' \in {0, access}
        BY <1>9 DEF ConnectEncoder, Invalidate
      <3> QED BY <1>9, <3>1 DEF ConnectEncoder, CoderType
    <2>2. SyncType'
      BY <1>9 DEF ConnectEncoder, Invalidate, SyncType
    <2>3. ThreadType'
      BY <1>9, GoType, PcsMembers DEF ConnectEncoder, Invalidate, ThreadType
    <2> QED BY <1>9, <2>1, <2>2, <2>3, KeepType DEF ConnectEncoder, Invalidate
  <1>10. CASE ConnectDrain(t)
    <2>1. CoderType'
      BY <1>10 DEF ConnectDrain, CoderType
    <2>2. SyncType'
      BY <1>10 DEF ConnectDrain, SyncType
    <2>3. ThreadType'
      BY <1>10, GoType, PcsMembers DEF ConnectDrain, ThreadType
    <2> QED BY <1>10, <2>1, <2>2, <2>3, KeepType DEF ConnectDrain
  <1>11. CASE ConnectBuild(t)
    <2>1. CoderType'
      <3>1. valid' \subseteq valid \cup {gen + 1}
        BY <1>11 DEF ConnectBuild
      <3>2. {encoder', access', gen'} \subseteq {encoder, access, gen, gen + 1}
        BY <1>11 DEF ConnectBuild
      <3> QED BY <1>11, <3>1, <3>2 DEF ConnectBuild, CoderType
    <2>2. SyncType'
      BY <1>11 DEF ConnectBuild, SyncType
    <2>3. ThreadType'
      BY <1>11, GoType, PcsMembers DEF ConnectBuild, ThreadType
    <2> QED BY <1>11, <2>1, <2>2, <2>3, KeepType DEF ConnectBuild
  <1>12. CASE ConnectInit(t)
    <2>1. CoderType'
      BY <1>12 DEF ConnectInit, CoderType
    <2>2. SyncType'
      BY <1>12 DEF ConnectInit, SyncType
    <2>3. ThreadType'
      BY <1>12, ReturnType, GoType, PcsMembers DEF ConnectInit, ThreadType
    <2> QED BY <1>12, <2>1, <2>2, <2>3, KeepType DEF ConnectInit
  <1>13. CASE ConnectFail(t)
    <2>1. CoderType'
      BY <1>13 DEF ConnectFail, Invalidate, CoderType
    <2>2. ThreadType'
      BY <1>13, GoType, PcsMembers DEF ConnectFail, Invalidate, ThreadType
    <2> QED BY <1>13, <2>1, <2>2, KeepType DEF ConnectFail, Invalidate
  <1>14. CASE ConnectIdle(t)
    <2>1. ConnType'
      BY <1>14 DEF ConnectIdle, ConnType
    <2>2. ThreadType'
      BY <1>14, GoType, PcsMembers DEF ConnectIdle, ThreadType
    <2> QED BY <1>14, <2>1, <2>2, KeepType DEF ConnectIdle
  <1>15. CASE ConnectRestart(t)
    <2>1. SyncType'
      BY <1>15 DEF ConnectRestart, StartBroadcast, SyncType
    <2>2. ThreadType'
      BY <1>15, ReturnType DEF ConnectRestart, StartBroadcast, ThreadType
    <2> QED BY <1>15, <2>1, <2>2, KeepType DEF ConnectRestart, StartBroadcast
  <1> QED BY <1>1, <1>2, <1>3, <1>4, <1>5, <1>6, <1>7, <1>8, <1>9, <1>10, <1>11,
     <1>12, <1>13, <1>14, <1>15 DEF ConnectStep

\* A step of HandleClientDisconnect keeps the types.
LEMMA DisconnectType ==
  ASSUME TypeOK, NEW t \in Handlers, DisconnectStep(t)
  PROVE  TypeOK'
  <1> USE AddrAssumption
      DEF TypeOK, Handlers, Threads, States, Free, conn, video, coder, frames, locks,
          locals, bounds, own, work, sync, data
  <1>1. CASE DisconnectLock(t)
    <2>1. SyncType'
      BY <1>1 DEF DisconnectLock, SyncType
    <2>2. ThreadType'
      BY <1>1, ReturnType, GoType, PcsMembers DEF DisconnectLock, ThreadType
    <2> QED BY <1>1, <2>1, <2>2, KeepType DEF DisconnectLock
  <1>2. CASE DisconnectState(t)
    <2>1. ConnType'
      BY <1>2 DEF DisconnectState, ConnType
    <2>2. ThreadType'
      BY <1>2, GoType, PcsMembers DEF DisconnectState, ThreadType, ConnType
    <2> QED BY <1>2, <2>1, <2>2, KeepType DEF DisconnectState
  <1>3. CASE DisconnectClient(t)
    <2>1. ConnType'
      BY <1>3 DEF DisconnectClient, DisconnectLeaves, ConnType
    <2>2. SyncType'
      BY <1>3 DEF DisconnectClient, DisconnectLeaves, SyncType
    <2>3. ThreadType'
      <3>1. pc' \in [Threads -> Pcs]
        BY <1>3, GoType, ReturnType, PcsMembers DEF DisconnectClient, ThreadType
      <3>2. wasUsb' \in [Handlers -> BOOLEAN] /\ prev' \in [Handlers -> States]
        <4>1. CASE prev[t] = "Connected" \/ HadClient
          BY <1>3, <4>1 DEF DisconnectClient, ThreadType, ConnType
        <4>2. CASE ~(prev[t] = "Connected" \/ HadClient)
          <5>1. DisconnectLeaves(t)
            BY <1>3, <4>2 DEF DisconnectClient
          <5> QED BY <5>1 DEF DisconnectLeaves, ThreadType
        <4> QED BY <4>1, <4>2
      <3> QED BY <1>3, <3>1, <3>2 DEF DisconnectClient, ThreadType
    <2> QED BY <1>3, <2>1, <2>2, <2>3, KeepType DEF DisconnectClient,
       DisconnectLeaves
  <1>4. CASE DisconnectTrack(t)
    <2>1. ConnType'
      BY <1>4 DEF DisconnectTrack, ConnType
    <2>2. ThreadType'
      BY <1>4, GoType, PcsMembers DEF DisconnectTrack, ThreadType
    <2> QED BY <1>4, <2>1, <2>2, KeepType DEF DisconnectTrack
  <1>5. CASE DisconnectAccess(t)
    <2>1. CoderType'
      BY <1>5 DEF DisconnectAccess, Invalidate, CoderType
    <2>2. ThreadType'
      BY <1>5, GoType, PcsMembers DEF DisconnectAccess, Invalidate, ThreadType
    <2> QED BY <1>5, <2>1, <2>2, KeepType DEF DisconnectAccess, Invalidate
  <1>6. CASE DisconnectDispatch(t)
    <2>1. VideoType'
      BY <1>6 DEF DisconnectDispatch, VideoType
    <2>2. ThreadType'
      BY <1>6, GoType, PcsMembers DEF DisconnectDispatch, ThreadType
    <2> QED BY <1>6, <2>1, <2>2, KeepType DEF DisconnectDispatch
  <1>7. CASE DisconnectTcp(t)
    <2>1. VideoType'
      BY <1>7 DEF DisconnectTcp, VideoType
    <2>2. ThreadType'
      BY <1>7, GoType, PcsMembers DEF DisconnectTcp, ThreadType
    <2> QED BY <1>7, <2>1, <2>2, KeepType DEF DisconnectTcp
  <1>8. CASE DisconnectQueues(t)
    <2>1. FrameType'
      BY <1>8 DEF DisconnectQueues, FrameType
    <2>2. ThreadType'
      BY <1>8, GoType, PcsMembers DEF DisconnectQueues, ThreadType
    <2> QED BY <1>8, <2>1, <2>2, KeepType DEF DisconnectQueues
  <1>9. CASE DisconnectEncoder(t)
    <2>1. CoderType'
      BY <1>9 DEF DisconnectEncoder, CoderType
    <2>2. SyncType'
      BY <1>9 DEF DisconnectEncoder, SyncType
    <2>3. ThreadType'
      BY <1>9, GoType, PcsMembers DEF DisconnectEncoder, ThreadType
    <2> QED BY <1>9, <2>1, <2>2, <2>3, KeepType DEF DisconnectEncoder
  <1>10. CASE DisconnectDrain(t)
    <2>1. CoderType'
      BY <1>10 DEF DisconnectDrain, CoderType
    <2>2. SyncType'
      BY <1>10 DEF DisconnectDrain, SyncType
    <2>3. ThreadType'
      BY <1>10, GoType, PcsMembers DEF DisconnectDrain, ThreadType
    <2> QED BY <1>10, <2>1, <2>2, <2>3, KeepType DEF DisconnectDrain
  <1>11. CASE DisconnectSkip(t)
    <2>1. SyncType'
      BY <1>11 DEF DisconnectSkip, DisconnectLeaves, SyncType
    <2>2. ThreadType'
      BY <1>11, ReturnType DEF DisconnectSkip, DisconnectLeaves, ThreadType
    <2> QED BY <1>11, <2>1, <2>2, KeepType DEF DisconnectSkip, DisconnectLeaves
  <1>12. CASE JoinBegin(t, "d_join", "d_wait")
    <2>1. SyncType'
      BY <1>12 DEF JoinBegin, SyncType
    <2>2. ThreadType'
      BY <1>12, GoType, PcsMembers DEF JoinBegin, ThreadType
    <2> QED BY <1>12, <2>1, <2>2, KeepType DEF JoinBegin
  <1>13. CASE JoinEnd(t, "d_wait", "d_restart")
    <2>1. SyncType'
      BY <1>13 DEF JoinEnd, SyncType
    <2>2. ThreadType'
      BY <1>13, GoType, PcsMembers DEF JoinEnd, ThreadType
    <2> QED BY <1>13, <2>1, <2>2, KeepType DEF JoinEnd
  <1>14. CASE DisconnectRestart(t)
    <2>1. SyncType'
      BY <1>14 DEF DisconnectRestart, StartBroadcast, DisconnectLeaves, SyncType
    <2>2. ThreadType'
      BY <1>14, ReturnType DEF DisconnectRestart, StartBroadcast, DisconnectLeaves,
         ThreadType
    <2> QED BY <1>14, <2>1, <2>2, KeepType DEF DisconnectRestart, StartBroadcast,
       DisconnectLeaves
  <1> QED BY <1>1, <1>2, <1>3, <1>4, <1>5, <1>6, <1>7, <1>8, <1>9, <1>10, <1>11,
     <1>12, <1>13, <1>14 DEF DisconnectStep

\* A step of the receive loops keeps the types.
LEMMA ControlType ==
  ASSUME TypeOK, ControlThread
  PROVE  TypeOK'
  <1> USE AddrAssumption
      DEF TypeOK, Handlers, Threads, States, Free, conn, video, coder, frames, locks,
          locals, bounds, own, work, sync, data
  <1>1. CASE Quit("control", "recv", "exited")
    <2>1. ThreadType'
      BY <1>1, GoType, PcsMembers DEF Quit, ThreadType
    <2> QED BY <1>1, <2>1, KeepType DEF Quit
  <1>2. CASE \E ip \in Addr : Connect("control", "recv", "recv", ip)
    <2>1. BoundType'
      BY <1>2 DEF Connect, BoundType
    <2>2. ThreadType'
      BY <1>2, GoType, PcsMembers, HeadType DEF Connect, ThreadType
    <2> QED BY <1>2, <2>1, <2>2, KeepType DEF Connect
  <1>3. CASE \E ip \in Addr : WifiDisconnect(ip)
    <2>1. ThreadType'
      BY <1>3, GoType, PcsMembers, HeadType DEF WifiDisconnect, ThreadType
    <2> QED BY <1>3, <2>1, KeepType DEF WifiDisconnect
  <1>4. CASE WifiHonor
    <2>1. ThreadType'
      BY <1>4, GoType, PcsMembers, HeadType DEF WifiHonor, ThreadType
    <2> QED BY <1>4, <2>1, KeepType DEF WifiHonor
  <1> QED BY <1>1, <1>2, <1>3, <1>4 DEF ControlThread

\* A step of the USB accept and record loops keeps the types.
LEMMA TcpType ==
  ASSUME TypeOK, TcpControlThread \/ TcpVideoThread
  PROVE  TypeOK'
  <1> USE AddrAssumption
      DEF TypeOK, Handlers, Threads, States, Free, conn, video, coder, frames, locks,
          locals, bounds, own, work, sync, data
  <1>1. CASE Quit("tcpControl", "recv", "exited")
    <2>1. ThreadType'
      BY <1>1, GoType, PcsMembers DEF Quit, ThreadType
    <2> QED BY <1>1, <2>1, KeepType DEF Quit
  <1>2. CASE TcpAccept
    <2>1. VideoType'
      BY <1>2 DEF TcpAccept, VideoType
    <2>2. ThreadType'
      BY <1>2, GoType, PcsMembers, HeadType DEF TcpAccept, ThreadType
    <2> QED BY <1>2, <2>1, <2>2, KeepType DEF TcpAccept
  <1>3. CASE Quit("tcpControl", "uread", "uclose")
    <2>1. ThreadType'
      BY <1>3, GoType, PcsMembers DEF Quit, ThreadType
    <2> QED BY <1>3, <2>1, KeepType DEF Quit
  <1>4. CASE Connect("tcpControl", "uread", "uread", Loopback)
    <2>1. BoundType'
      BY <1>4 DEF Connect, BoundType
    <2>2. ThreadType'
      BY <1>4, GoType, PcsMembers, HeadType DEF Connect, ThreadType
    <2> QED BY <1>4, <2>1, <2>2, KeepType DEF Connect
  <1>5. CASE TcpRecordEnds("uowner")
    <2>1. ThreadType'
      BY <1>5, GoType, PcsMembers DEF TcpRecordEnds, ThreadType
    <2> QED BY <1>5, <2>1, KeepType DEF TcpRecordEnds
  <1>6. CASE TcpRecordEnds("uclose")
    <2>1. ThreadType'
      BY <1>6, GoType, PcsMembers DEF TcpRecordEnds, ThreadType
    <2> QED BY <1>6, <2>1, KeepType DEF TcpRecordEnds
  <1>7. CASE TcpOwnerEnds("uowner", "uclose")
    <2>1. ThreadType'
      BY <1>7, GoType, PcsMembers, HeadType DEF TcpOwnerEnds, ThreadType
    <2> QED BY <1>7, <2>1, KeepType DEF TcpOwnerEnds
  <1>8. CASE TcpClose
    <2>1. VideoType'
      BY <1>8 DEF TcpClose, VideoType
    <2>2. ThreadType'
      BY <1>8, GoType, PcsMembers DEF TcpClose, ThreadType
    <2> QED BY <1>8, <2>1, <2>2, KeepType DEF TcpClose
  <1>9. CASE TcpOwnerEnds("ulast", "recv")
    <2>1. ThreadType'
      BY <1>9, GoType, PcsMembers, HeadType DEF TcpOwnerEnds, ThreadType
    <2> QED BY <1>9, <2>1, KeepType DEF TcpOwnerEnds
  <1>10. CASE Quit("tcpVideo", "recv", "exited")
    <2>1. ThreadType'
      BY <1>10, GoType, PcsMembers DEF Quit, ThreadType
    <2> QED BY <1>10, <2>1, KeepType DEF Quit
  <1>11. CASE TcpVideoAccept
    <2>1. VideoType'
      BY <1>11 DEF TcpVideoAccept, VideoType
    <2>2. ThreadType'
      BY <1>11, GoType, PcsMembers DEF TcpVideoAccept, ThreadType
    <2> QED BY <1>11, <2>1, <2>2, KeepType DEF TcpVideoAccept
  <1>12. CASE TcpVideoRoute
    <2>1. VideoType'
      BY <1>12 DEF TcpVideoRoute, VideoType
    <2>2. ThreadType'
      BY <1>12, GoType, PcsMembers, HeadType DEF TcpVideoRoute, ThreadType
    <2> QED BY <1>12, <2>1, <2>2, KeepType DEF TcpVideoRoute
  <1> QED BY <1>1, <1>2, <1>3, <1>4, <1>5, <1>6, <1>7, <1>8, <1>9, <1>10, <1>11,
     <1>12 DEF TcpControlThread, TcpVideoThread

\* A step of the frame path, the beacon or the client keeps the types.
LEMMA FrameStepType ==
  ASSUME TypeOK, EncodeThread \/ EncodeCallback \/ VideoSend \/ VideoSendEnds
         \/ BroadcastEnds \/ App \/ Environment
  PROVE  TypeOK'
  <1> USE AddrAssumption
      DEF TypeOK, Handlers, Threads, States, Free, conn, video, coder, frames, locks,
          locals, bounds, own, work, sync, data
  <1>1. CASE EncodeWakes
    <2>1. ThreadType'
      BY <1>1, GoType, PcsMembers DEF EncodeWakes, Quit, ThreadType
    <2> QED BY <1>1, <2>1, KeepType DEF EncodeWakes, Quit
  <1>2. CASE EncodePop
    <2>1. FrameType'
      BY <1>2 DEF EncodePop, FrameType
    <2>2. ThreadType'
      BY <1>2, GoType, PcsMembers DEF EncodePop, ThreadType
    <2> QED BY <1>2, <2>1, <2>2, KeepType DEF EncodePop
  <1>3. CASE EncodeSnapshot
    <2>1. FrameType'
      BY <1>3 DEF EncodeSnapshot, FrameType, CoderType
    <2>2. ThreadType'
      BY <1>3, GoType, PcsMembers, HeadType DEF EncodeSnapshot, ThreadType
    <2> QED BY <1>3, <2>1, <2>2, KeepType DEF EncodeSnapshot
  <1>4. CASE EncodeSubmit
    <2>1. FrameType'
      BY <1>4 DEF EncodeSubmit, NoSnap, FrameType
    <2>2. ThreadType'
      BY <1>4, GoType, PcsMembers, HeadType DEF EncodeSubmit, NoSnap, ThreadType
    <2> QED BY <1>4, <2>1, <2>2, KeepType DEF EncodeSubmit, NoSnap
  <1>5. CASE EncodeCallback
    <2>1. FrameType'
      BY <1>5 DEF EncodeCallback, FrameType, CoderType
    <2>2. ThreadType'
      BY <1>5 DEF EncodeCallback, ThreadType
    <2> QED BY <1>5, <2>1, <2>2, KeepType DEF EncodeCallback
  <1>6. CASE VideoSend
    <2>1. VideoType'
      BY <1>6 DEF VideoSend, VideoType
    <2>2. FrameType'
      BY <1>6 DEF VideoSend, FrameType
    <2>3. BoundType'
      BY <1>6 DEF VideoSend, BoundType
    <2>4. ThreadType'
      BY <1>6 DEF VideoSend, ThreadType
    <2> QED BY <1>6, <2>1, <2>2, <2>3, <2>4, KeepType DEF VideoSend
  <1>7. CASE VideoSendEnds
    <2>1. FrameType'
      BY <1>7 DEF VideoSendEnds, FrameType
    <2>2. ThreadType'
      BY <1>7, GoType, PcsMembers DEF VideoSendEnds, ThreadType
    <2> QED BY <1>7, <2>1, <2>2, KeepType DEF VideoSendEnds
  <1>8. CASE BroadcastEnds
    <2>1. SyncType'
      BY <1>8 DEF BroadcastEnds, SyncType
    <2>2. ThreadType'
      BY <1>8 DEF BroadcastEnds, ThreadType
    <2> QED BY <1>8, <2>1, <2>2, KeepType DEF BroadcastEnds
  <1>9. CASE EndFrame
    <2>1. BoundType'
      BY <1>9 DEF EndFrame, BoundType
    <2>2. ThreadType'
      BY <1>9, GoType, PcsMembers DEF EndFrame, ThreadType
    <2> QED BY <1>9, <2>1, <2>2, KeepType DEF EndFrame
  <1>10. CASE CheckClientLiveness
    <2>1. ThreadType'
      BY <1>10, GoType, PcsMembers DEF CheckClientLiveness, ThreadType
    <2> QED BY <1>10, <2>1, KeepType DEF CheckClientLiveness
  <1>11. CASE SendFrameState
    <2>1. ThreadType'
      BY <1>11, GoType, PcsMembers DEF SendFrameState, ThreadType
    <2> QED BY <1>11, <2>1, KeepType DEF SendFrameState
  <1>12. CASE SendFrameEncoder
    <2>1. ThreadType'
      BY <1>12, GoType, PcsMembers DEF SendFrameEncoder, ThreadType
    <2> QED BY <1>12, <2>1, KeepType DEF SendFrameEncoder
  <1>13. CASE SendFramePush
    <2>1. FrameType'
      BY <1>13 DEF SendFramePush, FrameType, ConnType
    <2>2. ThreadType'
      BY <1>13, GoType, PcsMembers DEF SendFramePush, ThreadType
    <2> QED BY <1>13, <2>1, <2>2, KeepType DEF SendFramePush
  <1>14. CASE ClientSilent
    <2>1. ConnType'
      BY <1>14 DEF ClientSilent, ConnType
    <2>2. BoundType'
      BY <1>14 DEF ClientSilent, BoundType
    <2>3. ThreadType'
      BY <1>14 DEF ClientSilent, ThreadType
    <2> QED BY <1>14, <2>1, <2>2, <2>3, KeepType DEF ClientSilent
  <1>15. CASE ClientTracks
    <2>1. ConnType'
      BY <1>15 DEF ClientTracks, ConnType
    <2>2. ThreadType'
      BY <1>15 DEF ClientTracks, ThreadType
    <2> QED BY <1>15, <2>1, <2>2, KeepType DEF ClientTracks
  <1> QED BY <1>1, <1>2, <1>3, <1>4, <1>5, <1>6, <1>7, <1>8, <1>9, <1>10, <1>11,
     <1>12, <1>13, <1>14, <1>15 DEF EncodeThread, App, Environment

\* A step of Stop keeps the types.
LEMMA StopType ==
  ASSUME TypeOK, Stop
  PROVE  TypeOK'
  <1> USE AddrAssumption
      DEF TypeOK, Handlers, Threads, States, Free, conn, video, coder, frames, locks,
          locals, bounds, own, work, sync, data
  <1>1. CASE StopBegin
    <2>1. CoderType'
      BY <1>1 DEF StopBegin, Invalidate, CoderType
    <2>2. BoundType'
      BY <1>1 DEF StopBegin, Invalidate, BoundType
    <2>3. ThreadType'
      BY <1>1, GoType, PcsMembers DEF StopBegin, Invalidate, ThreadType
    <2> QED BY <1>1, <2>1, <2>2, <2>3, KeepType DEF StopBegin, Invalidate
  <1>2. CASE StopRunning
    <2>1. ConnType'
      BY <1>2 DEF StopRunning, ConnType
    <2>2. ThreadType'
      BY <1>2, GoType, PcsMembers DEF StopRunning, ThreadType
    <2> QED BY <1>2, <2>1, <2>2, KeepType DEF StopRunning
  <1>3. CASE StopState
    <2>1. ConnType'
      BY <1>3 DEF StopState, ConnType
    <2>2. VideoType'
      BY <1>3 DEF StopState, VideoType
    <2>3. ThreadType'
      BY <1>3, GoType, PcsMembers DEF StopState, ThreadType
    <2> QED BY <1>3, <2>1, <2>2, <2>3, KeepType DEF StopState
  <1>4. CASE StopDispatch
    <2>1. VideoType'
      BY <1>4 DEF StopDispatch, NoDispatch, VideoType
    <2>2. ThreadType'
      BY <1>4, GoType, PcsMembers DEF StopDispatch, NoDispatch, ThreadType
    <2> QED BY <1>4, <2>1, <2>2, KeepType DEF StopDispatch, NoDispatch
  <1>5. CASE StopClient
    <2>1. ConnType'
      BY <1>5 DEF StopClient, ConnType
    <2>2. ThreadType'
      BY <1>5, GoType, PcsMembers DEF StopClient, ThreadType
    <2> QED BY <1>5, <2>1, <2>2, KeepType DEF StopClient
  <1>6. CASE JoinBegin("app", "s_join", "s_wait")
    <2>1. SyncType'
      BY <1>6 DEF JoinBegin, SyncType
    <2>2. ThreadType'
      BY <1>6, GoType, PcsMembers DEF JoinBegin, ThreadType
    <2> QED BY <1>6, <2>1, <2>2, KeepType DEF JoinBegin
  <1>7. CASE JoinEnd("app", "s_wait", "s_threads")
    <2>1. SyncType'
      BY <1>7 DEF JoinEnd, SyncType
    <2>2. ThreadType'
      BY <1>7, GoType, PcsMembers DEF JoinEnd, ThreadType
    <2> QED BY <1>7, <2>1, <2>2, KeepType DEF JoinEnd
  <1>8. CASE StopJoin
    <2>1. ConnType'
      BY <1>8 DEF StopJoin, ConnType
    <2>2. FrameType'
      BY <1>8 DEF StopJoin, FrameType
    <2>3. ThreadType'
      BY <1>8, GoType, PcsMembers DEF StopJoin, ThreadType
    <2> QED BY <1>8, <2>1, <2>2, <2>3, KeepType DEF StopJoin
  <1>9. CASE StopEncoder
    <2>1. CoderType'
      BY <1>9 DEF StopEncoder, CoderType
    <2>2. SyncType'
      BY <1>9 DEF StopEncoder, SyncType
    <2>3. ThreadType'
      BY <1>9, GoType, PcsMembers DEF StopEncoder, ThreadType
    <2> QED BY <1>9, <2>1, <2>2, <2>3, KeepType DEF StopEncoder
  <1>10. CASE StopDrain
    <2>1. CoderType'
      BY <1>10 DEF StopDrain, CoderType
    <2>2. SyncType'
      BY <1>10 DEF StopDrain, SyncType
    <2>3. ThreadType'
      BY <1>10, GoType, PcsMembers DEF StopDrain, ThreadType
    <2> QED BY <1>10, <2>1, <2>2, <2>3, KeepType DEF StopDrain
  <1> QED BY <1>1, <1>2, <1>3, <1>4, <1>5, <1>6, <1>7, <1>8, <1>9, <1>10 DEF Stop

LEMMA NextType == TypeOK /\ [Next]_vars => TypeOK'
  <1> SUFFICES ASSUME TypeOK, [Next]_vars PROVE TypeOK'
    OBVIOUS
  <1>1. CASE Next
    BY <1>1, ConnectType, DisconnectType, ControlType, TcpType, FrameStepType, StopType
       DEF Next
  <1>2. CASE UNCHANGED vars
    BY <1>2, KeepType
       DEF vars, data, own, work, sync, locals, TypeOK, ThreadType
  <1> QED BY <1>1, <1>2

\* Every variable keeps its type, and a WiFi connect never takes the USB
\* placeholder as its candidate (HandleClientConnect, HandleUsbClientConnect).
THEOREM TypeInvariant == Spec => []TypeOK
  <1> QED BY InitType, NextType, PTL DEF Spec

-----------------------------------------------------------------------------
(* The encoder.                                                            *)

EncoderVars == <<encLock, encoder, live, inflight, snap>>

\* What a step must do: keep the invariant and release no encoder with frames.
Releases == encoder # 0 /\ encoder' # encoder => \A f \in inflight : f.enc # encoder
Safe == EncoderOwned' /\ Releases

\* A thread that moves outside the critical sections of encoderMutex_ and
\* touches no encoder state does no harm.
LEMMA Harmless ==
  ASSUME TypeOK, EncoderOwned, UNCHANGED EncoderVars,
         NEW t \in Threads, NEW from, NEW to, Go(t, from, to),
         from \notin Held \cup {"submit"}, to \notin Held \cup {"submit"}
  PROVE  Safe
  <1> USE DEF EncoderVars
  <1>1. pc \in [Threads -> Pcs] /\ Handlers \subseteq Threads /\ "encode" \in Threads
    BY DEF TypeOK, ThreadType, Threads
  <1>2. /\ \A u \in Handlers : pc'[u] \in Held <=> pc[u] \in Held
        /\ \A u \in Threads : \A p \in Held \cup {"submit"} : pc'[u] = p => pc[u] = p
    BY <1>1 DEF Go
  <1>3. LockInv'
    BY <1>2 DEF EncoderOwned, LockInv
  <1>4. EncoderInv'
    BY <1>1, <1>2 DEF EncoderOwned, EncoderInv, Held, Handlers
  <1> QED BY <1>3, <1>4 DEF Safe, Releases, EncoderOwned

LEMMA HarmlessReturn ==
  ASSUME TypeOK, EncoderOwned, UNCHANGED EncoderVars,
         NEW t \in Handlers, NEW from, Return(t, from),
         from \notin Held \cup {"submit"}
  PROVE  Safe
  <1>1. Head(ret[t]) \notin Held \cup {"submit"} /\ t \in Threads
    BY DEF TypeOK, ThreadType, Head, Held, Threads
  <1> QED BY <1>1, Harmless DEF Return

\* Steps that move no thread.
LEMMA HarmlessStill ==
  ASSUME TypeOK, EncoderOwned, UNCHANGED <<EncoderVars, pc>>
  PROVE  Safe
  BY DEF EncoderVars, EncoderOwned, LockInv, EncoderInv, Safe, Releases

\* The three ways a thread inside, or on its way into, a critical section moves.
LEMMA LockTaken ==
  ASSUME TypeOK, LockInv, NEW t \in Handlers, NEW from, NEW to \in Held,
         Go(t, from, to), encLock = Free, encLock' = t
  PROVE  LockInv'
  <1>1. pc \in [Threads -> Pcs] /\ Handlers \subseteq Threads
    BY DEF TypeOK, ThreadType, Threads
  <1>2. \A u \in Handlers : pc[u] \notin Held
    BY DEF LockInv, Free, Handlers
  <1>3. pc'[t] \in Held /\ \A u \in Handlers \ {t} : pc'[u] = pc[u]
    BY <1>1 DEF Go
  <1> QED BY <1>2, <1>3 DEF LockInv

LEMMA LockKept ==
  ASSUME TypeOK, LockInv, NEW t \in Handlers, NEW from \in Held, NEW to \in Held,
         Go(t, from, to), encLock' = encLock
  PROVE  LockInv'
  <1>1. pc \in [Threads -> Pcs] /\ Handlers \subseteq Threads
    BY DEF TypeOK, ThreadType, Threads
  <1>2. \A u \in Handlers : pc'[u] \in Held <=> pc[u] \in Held
    BY <1>1 DEF Go
  <1> QED BY <1>2 DEF LockInv

LEMMA LockReleased ==
  ASSUME TypeOK, LockInv, NEW t \in Handlers, NEW from \in Held, NEW to,
         to \notin Held, Go(t, from, to), encLock' = Free
  PROVE  LockInv'
  <1>1. pc \in [Threads -> Pcs] /\ Handlers \subseteq Threads
    BY DEF TypeOK, ThreadType, Threads
  <1>2. encLock = t /\ \A u \in Handlers \ {t} : pc[u] \notin Held
    BY DEF LockInv, Go
  <1>3. pc'[t] \notin Held /\ \A u \in Handlers \ {t} : pc'[u] = pc[u]
    BY <1>1 DEF Go
  <1>4. Free \notin Handlers
    BY DEF Free, Handlers
  <1> QED BY <1>2, <1>3, <1>4 DEF LockInv

\* A step of HandleClientConnect or HandleUsbClientConnect.
LEMMA ConnectSafe ==
  ASSUME TypeOK, EncoderOwned, NEW t \in {"control", "tcpControl"}, ConnectStep(t)
  PROVE  Safe
  <1> USE DEF EncoderVars, Handlers, Threads, conn, video, coder, frames, locks, locals,
          bounds, own, work, sync, data
  <1>1. CASE ConnectTrack(t)
    BY <1>1, Harmless DEF ConnectTrack, TrackSource, Held
  <1>2. CASE ConnectClient(t)
    BY <1>2, Harmless DEF ConnectClient, Held
  <1>3. CASE ConnectDispatch(t)
    BY <1>3, Harmless DEF ConnectDispatch, Held
  <1>4. CASE ConnectState(t)
    BY <1>4, Harmless DEF ConnectState, Held
  <1>5. CASE ConnectSeed(t)
    BY <1>5, Harmless DEF ConnectSeed, Held
  <1>6. CASE JoinBegin(t, "c_join", "c_wait")
    BY <1>6, Harmless DEF JoinBegin, Held
  <1>7. CASE JoinEnd(t, "c_wait", "c_run")
    BY <1>7, Harmless DEF JoinEnd, Held
  <1>8. CASE ConnectRunning(t)
    BY <1>8, Harmless, HarmlessReturn DEF ConnectRunning, Held
  <1>9. CASE ConnectEncoder(t)
    <2>1. LockInv'
      BY <1>9, LockTaken DEF ConnectEncoder, EncoderOwned, Held
    <2>2. EncoderInv'
      BY <1>9, <2>1 DEF ConnectEncoder, EncoderOwned, LockInv, EncoderInv, Held, Go, TypeOK,
         ThreadType, Drained, Free
    <2>3. Releases
      BY <1>9 DEF ConnectEncoder, EncoderOwned, EncoderInv, Releases, Drained, Go
    <2> QED BY <2>1, <2>2, <2>3 DEF Safe, EncoderOwned
  <1>10. CASE ConnectDrain(t)
    <2>1. LockInv'
      BY <1>10, LockKept, LockReleased DEF ConnectDrain, EncoderOwned, Held
    <2>2. EncoderInv'
      BY <1>10, <2>1 DEF ConnectDrain, EncoderOwned, LockInv, EncoderInv, Held, Go, TypeOK,
         ThreadType, Drained, Free
    <2>3. Releases
      BY <1>10 DEF ConnectDrain, EncoderOwned, EncoderInv, Releases, Drained, Go
    <2> QED BY <2>1, <2>2, <2>3 DEF Safe, EncoderOwned
  <1>11. CASE ConnectBuild(t)
    <2>1. LockInv'
      BY <1>11, LockKept, LockReleased DEF ConnectBuild, EncoderOwned, Held
    <2>2. EncoderInv'
      BY <1>11, <2>1 DEF ConnectBuild, EncoderOwned, LockInv, EncoderInv, Held, Go, TypeOK,
         ThreadType, Drained, Free
    <2>3. Releases
      BY <1>11 DEF ConnectBuild, EncoderOwned, EncoderInv, Releases, Drained, Go
    <2> QED BY <2>1, <2>2, <2>3 DEF Safe, EncoderOwned
  <1>12. CASE ConnectInit(t)
    <2>1. Head(ret[t]) \notin Held \cup {"submit"}
      BY DEF TypeOK, ThreadType, Head, Held
    <2>2. LockInv'
      BY <1>12, <2>1, LockReleased DEF ConnectInit, Return, EncoderOwned, Held
    <2>3. \A u \in Handlers : pc'[u] \notin Held
      BY <1>12, <2>2 DEF ConnectInit, LockInv, Free
    <2>4. inflight = {} /\ live = 0
      BY <1>12 DEF ConnectInit, Return, Go, EncoderOwned, EncoderInv, Held
    <2>5. pc'["encode"] = "submit" => pc["encode"] = "submit"
      BY <1>12 DEF ConnectInit, Return, Go, TypeOK, ThreadType
    <2>6. EncoderInv'
      BY <1>12, <2>3, <2>4, <2>5 DEF ConnectInit, EncoderOwned, EncoderInv, Held
    <2> QED BY <1>12, <2>2, <2>4, <2>6 DEF ConnectInit, Safe, Releases, EncoderOwned
  <1>13. CASE ConnectFail(t)
    BY <1>13, Harmless DEF ConnectFail, Invalidate, Held
  <1>14. CASE ConnectIdle(t)
    BY <1>14, Harmless DEF ConnectIdle, Held
  <1>15. CASE ConnectRestart(t)
    BY <1>15, HarmlessReturn DEF ConnectRestart, StartBroadcast, Held
  <1> QED BY <1>1, <1>2, <1>3, <1>4, <1>5, <1>6, <1>7, <1>8, <1>9, <1>10, <1>11,
     <1>12, <1>13, <1>14, <1>15 DEF ConnectStep

\* A step of HandleClientDisconnect.
LEMMA DisconnectSafe ==
  ASSUME TypeOK, EncoderOwned, NEW t \in Handlers, DisconnectStep(t)
  PROVE  Safe
  <1> USE DEF EncoderVars, Handlers, Threads, conn, video, coder, frames, locks, locals,
          bounds, own, work, sync, data
  <1>1. CASE DisconnectLock(t)
    BY <1>1, Harmless, HarmlessReturn DEF DisconnectLock, Held
  <1>2. CASE DisconnectState(t)
    BY <1>2, Harmless DEF DisconnectState, Held
  <1>3. CASE DisconnectClient(t)
    BY <1>3, Harmless, HarmlessReturn DEF DisconnectClient, DisconnectLeaves, Held
  <1>4. CASE DisconnectTrack(t)
    BY <1>4, Harmless DEF DisconnectTrack, Held
  <1>5. CASE DisconnectAccess(t)
    BY <1>5, Harmless DEF DisconnectAccess, Invalidate, Held
  <1>6. CASE DisconnectDispatch(t)
    BY <1>6, Harmless DEF DisconnectDispatch, Held
  <1>7. CASE DisconnectTcp(t)
    BY <1>7, Harmless DEF DisconnectTcp, Held
  <1>8. CASE DisconnectQueues(t)
    BY <1>8, Harmless DEF DisconnectQueues, Held
  <1>9. CASE DisconnectEncoder(t)
    <2>1. CASE encoder # 0
      <3>1. LockInv'
        BY <1>9, <2>1, LockTaken DEF DisconnectEncoder, EncoderOwned, Held
      <3>2. EncoderInv'
        BY <1>9, <2>1, <3>1 DEF DisconnectEncoder, EncoderOwned, EncoderInv, Held, Go,
           TypeOK, ThreadType
      <3> QED BY <1>9, <3>1, <3>2 DEF DisconnectEncoder, Safe, Releases, EncoderOwned
    <2>2. CASE encoder = 0
      BY <1>9, <2>2, Harmless DEF DisconnectEncoder, Held
    <2> QED BY <1>9, <2>1, <2>2
  <1>10. CASE DisconnectDrain(t)
    <2>1. LockInv'
      BY <1>10, LockReleased DEF DisconnectDrain, EncoderOwned, Held
    <2>2. EncoderInv'
      BY <1>10, <2>1 DEF DisconnectDrain, EncoderOwned, LockInv, EncoderInv, Held, Go, TypeOK,
         ThreadType, Drained, Free
    <2>3. Releases
      BY <1>10 DEF DisconnectDrain, EncoderOwned, EncoderInv, Releases, Drained, Go
    <2> QED BY <2>1, <2>2, <2>3 DEF Safe, EncoderOwned
  <1>11. CASE DisconnectSkip(t)
    BY <1>11, HarmlessReturn DEF DisconnectSkip, DisconnectLeaves, Held
  <1>12. CASE JoinBegin(t, "d_join", "d_wait")
    BY <1>12, Harmless DEF JoinBegin, Held
  <1>13. CASE JoinEnd(t, "d_wait", "d_restart")
    BY <1>13, Harmless DEF JoinEnd, Held
  <1>14. CASE DisconnectRestart(t)
    BY <1>14, HarmlessReturn DEF DisconnectRestart, StartBroadcast,
       DisconnectLeaves, Held
  <1> QED BY <1>1, <1>2, <1>3, <1>4, <1>5, <1>6, <1>7, <1>8, <1>9, <1>10, <1>11,
     <1>12, <1>13, <1>14 DEF DisconnectStep

\* A step of the receive loops.
LEMMA ReceiveSafe ==
  ASSUME TypeOK, EncoderOwned, ControlThread \/ TcpControlThread \/ TcpVideoThread
  PROVE  Safe
  <1> USE DEF EncoderVars, Handlers, Threads, conn, video, coder, frames, locks, locals,
          bounds, own, work, sync, data
  <1>1. CASE Quit("control", "recv", "exited")
    BY <1>1, Harmless DEF Quit, Held
  <1>2. CASE \E ip \in Addr : Connect("control", "recv", "recv", ip)
    BY <1>2, Harmless DEF Connect, Held, Head
  <1>3. CASE \E ip \in Addr : WifiDisconnect(ip)
    BY <1>3, Harmless DEF WifiDisconnect, Held, Head
  <1>4. CASE WifiHonor
    BY <1>4, Harmless DEF WifiHonor, Held, Head
  <1>5. CASE Quit("tcpControl", "recv", "exited")
    BY <1>5, Harmless DEF Quit, Held
  <1>6. CASE TcpAccept
    BY <1>6, Harmless DEF TcpAccept, Held, Head
  <1>7. CASE Quit("tcpControl", "uread", "uclose")
    BY <1>7, Harmless DEF Quit, Held
  <1>8. CASE Connect("tcpControl", "uread", "uread", Loopback)
    BY <1>8, Harmless DEF Connect, Held, Head
  <1>9. CASE TcpRecordEnds("uowner")
    BY <1>9, Harmless DEF TcpRecordEnds, Held
  <1>10. CASE TcpRecordEnds("uclose")
    BY <1>10, Harmless DEF TcpRecordEnds, Held
  <1>11. CASE TcpOwnerEnds("uowner", "uclose")
    BY <1>11, Harmless DEF TcpOwnerEnds, Held, Head
  <1>12. CASE TcpClose
    BY <1>12, Harmless DEF TcpClose, Held
  <1>13. CASE TcpOwnerEnds("ulast", "recv")
    BY <1>13, Harmless DEF TcpOwnerEnds, Held, Head
  <1>14. CASE Quit("tcpVideo", "recv", "exited")
    BY <1>14, Harmless DEF Quit, Held
  <1>15. CASE TcpVideoAccept
    BY <1>15, Harmless DEF TcpVideoAccept, Held
  <1>16. CASE TcpVideoRoute
    BY <1>16, Harmless DEF TcpVideoRoute, Held, Head
  <1> QED BY <1>1, <1>2, <1>3, <1>4, <1>5, <1>6, <1>7, <1>8, <1>9, <1>10, <1>11,
     <1>12, <1>13, <1>14, <1>15, <1>16 DEF ControlThread, TcpControlThread,
     TcpVideoThread

\* A step of the frame path, the beacon or the client.
LEMMA FrameSafe ==
  ASSUME TypeOK, EncoderOwned, EncodeThread \/ EncodeCallback \/ VideoSend \/ VideoSendEnds
         \/ BroadcastEnds \/ App \/ Environment
  PROVE  Safe
  <1> USE DEF EncoderVars, Handlers, Threads, conn, video, coder, frames, locks, locals,
          bounds, own, work, sync, data
  <1>1. CASE EncodeWakes
    BY <1>1, Harmless DEF EncodeWakes, Quit, Held
  <1>2. CASE EncodePop
    BY <1>2, Harmless DEF EncodePop, Held
  <1>3. CASE EncodeSnapshot
    <2>1. \A u \in Handlers : pc'[u] = pc[u]
      BY <1>3 DEF EncodeSnapshot, Go, TypeOK, ThreadType
    <2>2. pc'["encode"] = "submit" => snap'.enc # 0
      BY <1>3 DEF EncodeSnapshot, Go, Head, TypeOK, ThreadType, EncoderOwned, EncoderInv
    <2> QED BY <1>3, <2>1, <2>2
            DEF EncodeSnapshot, Safe, Releases, EncoderOwned, LockInv, EncoderInv
  <1>4. CASE EncodeSubmit
    <2>1. /\ \A u \in Handlers : pc'[u] = pc[u]
          /\ pc'["encode"] # "submit"
      BY <1>4 DEF EncodeSubmit, Go, Head, TypeOK, ThreadType
    <2>2. pc["encode"] = "submit" /\ snap.enc # 0
      BY <1>4 DEF EncodeSubmit, Go, EncoderOwned, EncoderInv
    <2>3. \A t \in {"control", "tcpControl"} : pc'[t] = "c_init" => inflight' = {}
      BY <1>4, <2>1, <2>2 DEF EncodeSubmit, EncoderOwned, EncoderInv, Held
    <2>4. \A f \in inflight' : f.enc = encoder' /\ f.enc # 0
      BY <1>4, <2>2 DEF EncodeSubmit, EncoderOwned, EncoderInv
    <2> QED BY <1>4, <2>1, <2>3, <2>4
            DEF EncodeSubmit, Safe, Releases, EncoderOwned, LockInv, EncoderInv
  <1>5. CASE EncodeCallback
    BY <1>5 DEF EncodeCallback, Safe, Releases, EncoderOwned, LockInv, EncoderInv
  <1>6. CASE VideoSend
    BY <1>6, HarmlessStill DEF VideoSend
  <1>7. CASE VideoSendEnds
    BY <1>7, Harmless DEF VideoSendEnds, Held
  <1>8. CASE BroadcastEnds
    BY <1>8, HarmlessStill DEF BroadcastEnds
  <1>9. CASE EndFrame
    BY <1>9, Harmless DEF EndFrame, Held
  <1>10. CASE CheckClientLiveness
    BY <1>10, Harmless DEF CheckClientLiveness, Held
  <1>11. CASE SendFrameState
    BY <1>11, Harmless DEF SendFrameState, Held
  <1>12. CASE SendFrameEncoder
    BY <1>12, Harmless DEF SendFrameEncoder, Held
  <1>13. CASE SendFramePush
    BY <1>13, Harmless DEF SendFramePush, Held
  <1>14. CASE ClientSilent
    BY <1>14, HarmlessStill DEF ClientSilent
  <1>15. CASE ClientTracks
    BY <1>15, HarmlessStill DEF ClientTracks
  <1> QED BY <1>1, <1>2, <1>3, <1>4, <1>5, <1>6, <1>7, <1>8, <1>9, <1>10, <1>11,
     <1>12, <1>13, <1>14, <1>15 DEF EncodeThread, App, Environment

\* A step of Stop.
LEMMA StopSafe ==
  ASSUME TypeOK, EncoderOwned, Stop
  PROVE  Safe
  <1> USE DEF EncoderVars, Handlers, Threads, conn, video, coder, frames, locks, locals,
          bounds, own, work, sync, data
  <1>1. CASE StopBegin
    BY <1>1, Harmless DEF StopBegin, Invalidate, Held
  <1>2. CASE StopRunning
    BY <1>2, Harmless DEF StopRunning, Held
  <1>3. CASE StopState
    BY <1>3, Harmless DEF StopState, Held
  <1>4. CASE StopDispatch
    BY <1>4, Harmless DEF StopDispatch, NoDispatch, Held
  <1>5. CASE StopClient
    BY <1>5, Harmless DEF StopClient, Held
  <1>6. CASE JoinBegin("app", "s_join", "s_wait")
    BY <1>6, Harmless DEF JoinBegin, Held
  <1>7. CASE JoinEnd("app", "s_wait", "s_threads")
    BY <1>7, Harmless DEF JoinEnd, Held
  <1>8. CASE StopJoin
    BY <1>8, Harmless DEF StopJoin, Held
  <1>9. CASE StopEncoder
    <2>1. LockInv'
      BY <1>9, LockTaken DEF StopEncoder, EncoderOwned, Held
    <2>2. EncoderInv'
      BY <1>9, <2>1 DEF StopEncoder, EncoderOwned, LockInv, EncoderInv, Held, Go, TypeOK,
         ThreadType, Drained, Free
    <2>3. Releases
      BY <1>9 DEF StopEncoder, EncoderOwned, EncoderInv, Releases, Drained, Go
    <2> QED BY <2>1, <2>2, <2>3 DEF Safe, EncoderOwned
  <1>10. CASE StopDrain
    <2>1. LockInv'
      BY <1>10, LockReleased DEF StopDrain, EncoderOwned, Held
    <2>2. EncoderInv'
      BY <1>10, <2>1 DEF StopDrain, EncoderOwned, LockInv, EncoderInv, Held, Go, TypeOK,
         ThreadType, Drained, Free
    <2>3. Releases
      BY <1>10 DEF StopDrain, EncoderOwned, EncoderInv, Releases, Drained, Go
    <2> QED BY <2>1, <2>2, <2>3 DEF Safe, EncoderOwned
  <1> QED BY <1>1, <1>2, <1>3, <1>4, <1>5, <1>6, <1>7, <1>8, <1>9, <1>10 DEF Stop

LEMMA NextSafe == TypeOK /\ EncoderOwned /\ [Next]_vars => Safe
  <1> SUFFICES ASSUME TypeOK, EncoderOwned, [Next]_vars PROVE Safe
    OBVIOUS
  <1>1. CASE Next
    BY <1>1, ConnectSafe, DisconnectSafe, ReceiveSafe, FrameSafe, StopSafe DEF Next
  <1>2. CASE UNCHANGED vars
    BY <1>2, HarmlessStill
       DEF vars, data, own, work, sync, conn, coder, frames, locks, EncoderVars
  <1> QED BY <1>1, <1>2

LEMMA InitOwned == Init => EncoderOwned
  BY DEF Init, EncoderOwned, LockInv, EncoderInv, Held, Handlers, Threads, Free

\* encoderMutex_ has one owner and every frame is inside the current encoder
\* (the critical sections at StreamingServer.cpp:864, :1822, :2087 and :2308).
THEOREM EncoderInvariant == Spec => []EncoderOwned
  <1>1. TypeOK /\ EncoderOwned /\ [Next]_vars => EncoderOwned'
    BY NextSafe DEF Safe
  <1> QED BY <1>1, InitOwned, TypeInvariant, PTL DEF Spec

\* The encoder object is only let go when no frame is inside it
\* (the comments at StreamingServer.cpp:2319 and :2711).
THEOREM EncoderDrained == Spec => DrainedBeforeReleased
  <1>1. TypeOK /\ EncoderOwned /\ [Next]_vars
          => [encoder # 0 /\ encoder' # encoder =>
                \A f \in inflight : f.enc # encoder]_vars
    BY NextSafe DEF Safe, Releases
  <1> QED BY <1>1, EncoderInvariant, TypeInvariant, PTL DEF Spec, DrainedBeforeReleased

-----------------------------------------------------------------------------
(* Stop.                                                                   *)

\* A thread that has not left its loop moves, the application not into a later
\* step of Stop, and the beacon is only started while the server runs.
LEMMA Moves ==
  ASSUME TypeOK, StopInv, NEW t \in Threads, NEW from, NEW to, Go(t, from, to),
         from # "exited", t = "app" => to \notin Later,
         running' = running, bthread' \in {bthread, "none"} \/ running
  PROVE  StopInv'
  <1> USE DEF Later
  <1>1. pc \in [Threads -> Pcs] /\ "app" \in Threads
    BY DEF TypeOK, ThreadType, Threads, Handlers
  <1>2. CASE t = "app"
    BY <1>1, <1>2 DEF Go, StopInv
  <1>3. CASE t # "app"
    <2>1. pc'["app"] = pc["app"] /\ pc[t] = from
      BY <1>1, <1>3 DEF Go
    <2>2. pc["app"] \notin {"s_enc", "s_drain", "stopped"}
      BY <1>3, <2>1 DEF StopInv
    <2> QED BY <2>1, <2>2 DEF StopInv
  <1> QED BY <1>2, <1>3

LEMMA MovesBack ==
  ASSUME TypeOK, StopInv, NEW t \in Handlers, NEW from, Return(t, from),
         from # "exited", running' = running, bthread' \in {bthread, "none"} \/ running
  PROVE  StopInv'
  <1>1. Head(ret[t]) \notin Later /\ t \in Threads
    BY DEF TypeOK, ThreadType, Head, Later, Threads
  <1> QED BY <1>1, Moves DEF Return

\* No thread moves; a frame may leave its encoder and the beacon may end.
LEMMA MovesNone ==
  ASSUME StopInv, UNCHANGED <<pc, running, encoder>>, inflight' \subseteq inflight,
         bthread' = bthread \/ bthread = "running"
  PROVE  StopInv'
  BY DEF StopInv

\* A step of HandleClientConnect or HandleUsbClientConnect.
LEMMA ConnectQuiet ==
  ASSUME TypeOK, EncoderOwned, StopInv, NEW t \in {"control", "tcpControl"}, ConnectStep(t)
  PROVE  StopInv'
  <1> USE DEF Handlers, Threads, conn, video, coder, frames, locks, locals, bounds, own,
          work, sync, data
  <1>1. CASE ConnectTrack(t)
    BY <1>1, Moves DEF ConnectTrack, Later
  <1>2. CASE ConnectClient(t)
    BY <1>2, Moves DEF ConnectClient, Later
  <1>3. CASE ConnectDispatch(t)
    BY <1>3, Moves DEF ConnectDispatch, Later
  <1>4. CASE ConnectState(t)
    BY <1>4, Moves DEF ConnectState, Later
  <1>5. CASE ConnectSeed(t)
    BY <1>5, Moves DEF ConnectSeed, Later
  <1>6. CASE JoinBegin(t, "c_join", "c_wait")
    BY <1>6, Moves DEF JoinBegin, Later
  <1>7. CASE JoinEnd(t, "c_wait", "c_run")
    BY <1>7, Moves DEF JoinEnd, Later
  <1>8. CASE ConnectRunning(t)
    BY <1>8, Moves, MovesBack DEF ConnectRunning, Later
  <1>9. CASE ConnectEncoder(t)
    BY <1>9, Moves DEF ConnectEncoder, Later
  <1>10. CASE ConnectDrain(t)
    BY <1>10, Moves DEF ConnectDrain, Later
  <1>11. CASE ConnectBuild(t)
    BY <1>11, Moves DEF ConnectBuild, Later
  <1>12. CASE ConnectInit(t)
    BY <1>12, Moves, MovesBack DEF ConnectInit, Later
  <1>13. CASE ConnectFail(t)
    BY <1>13, Moves DEF ConnectFail, Later
  <1>14. CASE ConnectIdle(t)
    BY <1>14, Moves DEF ConnectIdle, Later
  <1>15. CASE ConnectRestart(t)
    BY <1>15, MovesBack DEF ConnectRestart, StartBroadcast, CanBroadcast
  <1> QED BY <1>1, <1>2, <1>3, <1>4, <1>5, <1>6, <1>7, <1>8, <1>9, <1>10, <1>11,
     <1>12, <1>13, <1>14, <1>15 DEF ConnectStep

\* A step of HandleClientDisconnect.
LEMMA DisconnectQuiet ==
  ASSUME TypeOK, EncoderOwned, StopInv, NEW t \in Handlers, DisconnectStep(t)
  PROVE  StopInv'
  <1> USE DEF Handlers, Threads, conn, video, coder, frames, locks, locals, bounds, own,
          work, sync, data
  <1>1. CASE DisconnectLock(t)
    BY <1>1, Moves, MovesBack DEF DisconnectLock, Later
  <1>2. CASE DisconnectState(t)
    BY <1>2, Moves DEF DisconnectState, Later
  <1>3. CASE DisconnectClient(t)
    BY <1>3, Moves, MovesBack DEF DisconnectClient, Later
  <1>4. CASE DisconnectTrack(t)
    BY <1>4, Moves DEF DisconnectTrack, Later
  <1>5. CASE DisconnectAccess(t)
    BY <1>5, Moves DEF DisconnectAccess, Later
  <1>6. CASE DisconnectDispatch(t)
    BY <1>6, Moves DEF DisconnectDispatch, Later
  <1>7. CASE DisconnectTcp(t)
    BY <1>7, Moves DEF DisconnectTcp, Later
  <1>8. CASE DisconnectQueues(t)
    BY <1>8, Moves DEF DisconnectQueues, Later
  <1>9. CASE DisconnectEncoder(t)
    BY <1>9, Moves DEF DisconnectEncoder, Later
  <1>10. CASE DisconnectDrain(t)
    BY <1>10, Moves DEF DisconnectDrain, Later
  <1>11. CASE DisconnectSkip(t)
    BY <1>11, MovesBack DEF DisconnectSkip
  <1>12. CASE JoinBegin(t, "d_join", "d_wait")
    BY <1>12, Moves DEF JoinBegin, Later
  <1>13. CASE JoinEnd(t, "d_wait", "d_restart")
    BY <1>13, Moves DEF JoinEnd, Later
  <1>14. CASE DisconnectRestart(t)
    BY <1>14, MovesBack DEF DisconnectRestart, StartBroadcast, CanBroadcast
  <1> QED BY <1>1, <1>2, <1>3, <1>4, <1>5, <1>6, <1>7, <1>8, <1>9, <1>10, <1>11,
     <1>12, <1>13, <1>14 DEF DisconnectStep

\* A step of the receive loops.
LEMMA ReceiveQuiet ==
  ASSUME TypeOK, EncoderOwned, StopInv, ControlThread \/ TcpControlThread \/ TcpVideoThread
  PROVE  StopInv'
  <1> USE DEF Handlers, Threads, conn, video, coder, frames, locks, locals, bounds, own,
          work, sync, data
  <1>1. CASE Quit("control", "recv", "exited")
    BY <1>1, Moves DEF Quit, Later
  <1>2. CASE \E ip \in Addr : Connect("control", "recv", "recv", ip)
    BY <1>2, Moves DEF Connect, Later, Head
  <1>3. CASE \E ip \in Addr : WifiDisconnect(ip)
    BY <1>3, Moves DEF WifiDisconnect, Later, Head
  <1>4. CASE WifiHonor
    BY <1>4, Moves DEF WifiHonor, Later, Head
  <1>5. CASE Quit("tcpControl", "recv", "exited")
    BY <1>5, Moves DEF Quit, Later
  <1>6. CASE TcpAccept
    BY <1>6, Moves DEF TcpAccept, Later, Head
  <1>7. CASE Quit("tcpControl", "uread", "uclose")
    BY <1>7, Moves DEF Quit, Later
  <1>8. CASE Connect("tcpControl", "uread", "uread", Loopback)
    BY <1>8, Moves DEF Connect, Later, Head
  <1>9. CASE TcpRecordEnds("uowner")
    BY <1>9, Moves DEF TcpRecordEnds, Later
  <1>10. CASE TcpRecordEnds("uclose")
    BY <1>10, Moves DEF TcpRecordEnds, Later
  <1>11. CASE TcpOwnerEnds("uowner", "uclose")
    BY <1>11, Moves DEF TcpOwnerEnds, Later, Head
  <1>12. CASE TcpClose
    BY <1>12, Moves DEF TcpClose, Later
  <1>13. CASE TcpOwnerEnds("ulast", "recv")
    BY <1>13, Moves DEF TcpOwnerEnds, Later, Head
  <1>14. CASE Quit("tcpVideo", "recv", "exited")
    BY <1>14, Moves DEF Quit, Later
  <1>15. CASE TcpVideoAccept
    BY <1>15, Moves DEF TcpVideoAccept, Later
  <1>16. CASE TcpVideoRoute
    BY <1>16, Moves DEF TcpVideoRoute, Later, Head
  <1> QED BY <1>1, <1>2, <1>3, <1>4, <1>5, <1>6, <1>7, <1>8, <1>9, <1>10, <1>11,
     <1>12, <1>13, <1>14, <1>15, <1>16 DEF ControlThread, TcpControlThread,
     TcpVideoThread

\* A step of the frame path, the beacon or the client.
LEMMA FrameQuiet ==
  ASSUME TypeOK, EncoderOwned, StopInv,
       EncodeThread \/ EncodeCallback \/ VideoSend \/ VideoSendEnds
         \/ BroadcastEnds \/ App \/ Environment
  PROVE  StopInv'
  <1> USE DEF Handlers, Threads, conn, video, coder, frames, locks, locals, bounds, own,
          work, sync, data
  <1>1. CASE EncodeWakes
    BY <1>1, Moves DEF EncodeWakes, Quit, Later
  <1>2. CASE EncodePop
    BY <1>2, Moves DEF EncodePop, Later
  <1>3. CASE EncodeSnapshot
    BY <1>3, Moves DEF EncodeSnapshot, Later, Head
  <1>4. CASE EncodeSubmit
    BY <1>4, Moves DEF EncodeSubmit, Later, Head
  <1>5. CASE EncodeCallback
    BY <1>5, MovesNone DEF EncodeCallback
  <1>6. CASE VideoSend
    BY <1>6, MovesNone DEF VideoSend
  <1>7. CASE VideoSendEnds
    BY <1>7, Moves DEF VideoSendEnds, Later
  <1>8. CASE BroadcastEnds
    BY <1>8, MovesNone DEF BroadcastEnds
  <1>9. CASE EndFrame
    BY <1>9, Moves DEF EndFrame, Later
  <1>10. CASE CheckClientLiveness
    BY <1>10, Moves DEF CheckClientLiveness, Later
  <1>11. CASE SendFrameState
    BY <1>11, Moves DEF SendFrameState, Later
  <1>12. CASE SendFrameEncoder
    BY <1>12, Moves DEF SendFrameEncoder, Later
  <1>13. CASE SendFramePush
    BY <1>13, Moves DEF SendFramePush, Later
  <1>14. CASE ClientSilent
    BY <1>14, MovesNone DEF ClientSilent
  <1>15. CASE ClientTracks
    BY <1>15, MovesNone DEF ClientTracks
  <1> QED BY <1>1, <1>2, <1>3, <1>4, <1>5, <1>6, <1>7, <1>8, <1>9, <1>10, <1>11,
     <1>12, <1>13, <1>14, <1>15 DEF EncodeThread, App, Environment

\* A step of Stop.
LEMMA StopQuiet ==
  ASSUME TypeOK, EncoderOwned, StopInv, Stop
  PROVE  StopInv'
  <1> USE DEF Handlers, Threads, conn, video, coder, frames, locks, locals, bounds, own,
          work, sync, data
  <1>1. CASE StopBegin
    BY <1>1 DEF StopBegin, StopInv, Later, Go, TypeOK, ThreadType, Workers
  <1>2. CASE StopRunning
    BY <1>2 DEF StopRunning, StopInv, Later, Go, TypeOK, ThreadType, Workers
  <1>3. CASE StopState
    BY <1>3 DEF StopState, StopInv, Later, Go, TypeOK, ThreadType, Workers
  <1>4. CASE StopDispatch
    BY <1>4 DEF StopDispatch, StopInv, Later, Go, TypeOK, ThreadType, Workers
  <1>5. CASE StopClient
    BY <1>5 DEF StopClient, StopInv, Later, Go, TypeOK, ThreadType, Workers
  <1>6. CASE JoinBegin("app", "s_join", "s_wait")
    BY <1>6 DEF JoinBegin, StopInv, Later, Go, TypeOK, ThreadType, Workers
  <1>7. CASE JoinEnd("app", "s_wait", "s_threads")
    BY <1>7 DEF JoinEnd, StopInv, Later, Go, TypeOK, ThreadType, Workers
  <1>8. CASE StopJoin
    BY <1>8 DEF StopJoin, StopInv, Later, Go, TypeOK, ThreadType, Workers
  <1>9. CASE StopEncoder
    BY <1>9 DEF StopEncoder, StopInv, Later, Go, TypeOK, ThreadType, Workers
  <1>10. CASE StopDrain
    BY <1>10 DEF StopDrain, StopInv, Later, Go, TypeOK, ThreadType, Drained,
       EncoderOwned, EncoderInv
  <1> QED BY <1>1, <1>2, <1>3, <1>4, <1>5, <1>6, <1>7, <1>8, <1>9, <1>10 DEF Stop

LEMMA NextQuiet == TypeOK /\ EncoderOwned /\ StopInv /\ [Next]_vars => StopInv'
  <1> SUFFICES ASSUME TypeOK, EncoderOwned, StopInv, [Next]_vars PROVE StopInv'
    OBVIOUS
  <1>1. CASE Next
    BY <1>1, ConnectQuiet, DisconnectQuiet, ReceiveQuiet, FrameQuiet, StopQuiet DEF Next
  <1>2. CASE UNCHANGED vars
    BY <1>2, MovesNone DEF vars, data, work, sync, conn, coder, frames
  <1> QED BY <1>1, <1>2

LEMMA InitQuiet == Init => StopInv
  BY DEF Init, StopInv, Later, Threads, Handlers

\* A Stop that returned true leaves no thread, no encoder and no frame behind:
\* the server may be destroyed (StreamingServer::Stop).
THEOREM StopQuiescent == Spec => []StoppedServerIsQuiet
  <1>1. StopInv => StoppedServerIsQuiet
    BY DEF StopInv, StoppedServerIsQuiet
  <1> QED BY <1>1, NextQuiet, InitQuiet, EncoderInvariant, TypeInvariant, PTL DEF Spec

\* The invariant of the runs: every variable keeps its type, and a server whose Stop
\* returned true is quiet.
THEOREM ServerIsSafe == Spec => []ServerSafe
  <1>1. TypeOK /\ StoppedServerIsQuiet => ServerSafe
    BY DEF ServerSafe
  <1> QED BY <1>1, TypeInvariant, StopQuiescent, PTL

-----------------------------------------------------------------------------
(* Sessions.                                                               *)
(* What a connect or disconnect handler has established at each of its     *)
(* steps, with one transport: then one connect handler runs, and only the  *)
(* liveness watchdog of the application and Stop interleave with it.       *)

\* Callback access: only the current access may reach the server, and none
\* that a disconnect has revoked.
AccessInv ==
    /\ access <= gen /\ \A e \in ended : e <= gen
    /\ valid \subseteq {access} /\ valid \cap ended = {}

\* HandleClientDisconnect after it has exchanged the state, and its steps
\* under disconnectMutex_.
Ending == {"d_client", "d_track", "d_inval", "d_dispatch", "d_tcp", "d_queue",
           "d_enc", "d_drain", "d_join", "d_wait", "d_restart"}
Exclusive == Ending \cup {"d_state"}

DiscInv == \A t \in Handlers : pc[t] \in Exclusive <=> discLock = t

\* WiFi alone: no USB thread, and the address of a reconnecting client is the
\* one already recorded.
WifiInv == transport = "wifi" =>
    /\ pc["tcpControl"] = "exited" /\ pc["tcpVideo"] = "exited"
    /\ ~clientUsb /\ ~dispatch.tcp
    /\ pc["control"] \in {"c_track", "c_client", "c_dispatch"} => cand["control"] \in Addr
    /\ pc["control"] \in {"c_track", "c_client"} /\ state = "Connected"
         => clientIp \in {NoAddr, cand["control"]}

\* USB ADB alone: no WiFi handler, and the only address is the placeholder.
UsbInv == transport = "usb_adb" =>
    /\ pc["control"] \in {"recv", "exited"}
    /\ clientIp \in {NoAddr, Loopback} /\ trackAddr = NoAddr
    /\ cand["tcpControl"] \in {NoAddr, Loopback}
    /\ pc["tcpControl"] \in {"c_track", "c_client"} => cand["tcpControl"] = Loopback

\* A handler between its join of the beacon and its return.
Joined == {"c_run", "c_enc", "c_drain", "c_build", "c_init", "c_fail", "c_idle",
           "c_restart"}
\* A handler that will still resume the beacon.
Restarting(t) == pc[t] = "c_restart" \/ (prev[t] = "Connected" /\ pc[t] \in Ending)

BeaconInv == transport = "wifi" /\ running =>
    /\ state # "Stopped"
    /\ pc["control"] \in Joined =>
         bthread = "none" \/ (bthread = "running" /\ state = "Broadcasting")
    /\ pc["control"] \in Ending => state = "Broadcasting"
    /\ pc["control"] = "d_restart" => bthread # "exited"
    /\ pc["app"] = "d_restart" /\ bthread = "exited" => state = "Connected"
    /\ state = "Broadcasting" /\ bthread # "running" =>
         Restarting("control") \/ Restarting("app")

\* Until a client is silent for too long the watchdog ends no session.
WatchdogInv == silences = 0 => activity # "stale" /\ pc["app"] \notin Exclusive \cup {"d_lock"}

\* The one connect handler, and its steps between storing state_ and the end.
Connector == IF transport = "usb_adb" THEN "tcpControl" ELSE "control"
Building == Joined \cup {"c_seed", "c_join", "c_wait"}
Single == running /\ silences = 0 /\ transport # "auto"

Served == encoder # 0 /\ live = encoder /\ access = encoder /\ valid = {access}

ServedInv == Single =>
    /\ pc[Connector] \in Ending \cup {"c_restart"} => state # "Connected"
    /\ pc["app"] # "s_running" =>
         /\ state = "Connected" /\ pc[Connector] \notin Building => Served
         /\ pc[Connector] = "c_init" => encoder # 0 /\ access = encoder /\ valid = {access}

WifiRoute ==
    /\ clientIp \in Addr /\ trackAddr = clientIp
    /\ dispatch = [ip |-> clientIp, sock |-> "udp", tcp |-> FALSE, accepting |-> TRUE]

WifiRouted == Single /\ transport = "wifi" =>
    /\ state = "Connected" \/ pc["control"] = "c_state" => WifiRoute
    /\ pc["control"] = "c_client" => trackAddr = cand["control"]
    /\ pc["control"] = "c_dispatch" => trackAddr = cand["control"] /\ clientIp = cand["control"]

UsbRoute ==
    /\ clientUsb /\ clientIp = Loopback
    /\ tcpVideo = "open" /\ pc["tcpVideo"] # "route" => dispatch.tcp /\ dispatch.sock = "tcp"

UsbRouted == Single /\ transport = "usb_adb" =>
    /\ state = "Connected" \/ pc["tcpControl"] = "c_state" => UsbRoute
    /\ pc["tcpControl"] = "c_dispatch" => clientUsb /\ clientIp = Loopback

\* Where a thread goes, and that no other thread moves.
LEMMA Goes ==
  ASSUME TypeOK, NEW t \in Threads, NEW from, NEW to, Go(t, from, to)
  PROVE  pc[t] = from /\ pc'[t] = to /\ \A u \in Threads \ {t} : pc'[u] = pc[u]
  BY DEF TypeOK, ThreadType, Go

\* A handler returns to the head of a loop, or to the end of its thread.
Plain == {"recv", "uread", "uclose", "a_state", "exited"}

LEMMA Returns ==
  ASSUME TypeOK, NEW t \in Handlers, NEW from, Return(t, from)
  PROVE  pc[t] = from /\ pc'[t] \in Plain /\ \A u \in Threads \ {t} : pc'[u] = pc[u]
  <1>1. t \in Threads /\ Head(ret[t]) \in Plain
    BY DEF TypeOK, ThreadType, Threads, Head, Plain
  <1> QED BY <1>1, Goes DEF Return

LEMMA Members == Handlers \subseteq Threads /\ {"control", "tcpControl", "app"} \subseteq Handlers
                 /\ {"tcpVideo", "encode", "send"} \subseteq Threads \ Handlers
  BY DEF Handlers, Threads

\* Only these steps write callbackAccess_, its object or the generation.
AccessWrites ==
    \/ \E t \in {"control", "tcpControl"} : ConnectEncoder(t) \/ ConnectBuild(t) \/ ConnectFail(t)
    \/ \E t \in Handlers : DisconnectAccess(t)
    \/ StopBegin

LEMMA AccessFrame ==
  ASSUME Next, ~AccessWrites
  PROVE  UNCHANGED <<access, valid, gen, ended>>
  <1> USE DEF conn, video, coder, frames, locks, locals, bounds, own, work, sync, data
  <1>1. ASSUME NEW t \in {"control", "tcpControl"}, ConnectStep(t)
        PROVE  UNCHANGED <<access, valid, gen, ended>>
    BY <1>1 DEF AccessWrites, ConnectStep, ConnectTrack, ConnectClient, ConnectDispatch,
       ConnectState, ConnectSeed, JoinBegin, JoinEnd, ConnectRunning, ConnectDrain,
       ConnectInit, ConnectIdle, ConnectRestart
  <1>2. ASSUME NEW t \in Handlers, DisconnectStep(t)
        PROVE  UNCHANGED <<access, valid, gen, ended>>
    BY <1>2 DEF AccessWrites, DisconnectStep, DisconnectLock, DisconnectState,
       DisconnectClient, DisconnectTrack, DisconnectDispatch, DisconnectTcp,
       DisconnectQueues, DisconnectEncoder, DisconnectDrain, DisconnectSkip,
       JoinBegin, JoinEnd, DisconnectRestart
  <1>3. CASE ControlThread \/ TcpControlThread \/ TcpVideoThread
    BY <1>3 DEF ControlThread, Quit, Connect, WifiDisconnect, WifiHonor,
       TcpControlThread, TcpAccept, TcpRecordEnds, TcpOwnerEnds, TcpClose,
       TcpVideoThread, TcpVideoAccept, TcpVideoRoute
  <1>4. CASE EncodeThread \/ EncodeCallback \/ VideoSend \/ VideoSendEnds
    BY <1>4 DEF EncodeThread, EncodeWakes, Quit, EncodePop, EncodeSnapshot, EncodeSubmit,
       EncodeCallback, VideoSend, VideoSendEnds
  <1>5. CASE BroadcastEnds \/ App \/ Environment
    BY <1>5 DEF BroadcastEnds, App, EndFrame, CheckClientLiveness, SendFrameState,
       SendFrameEncoder, SendFramePush, Environment, ClientSilent, ClientTracks
  <1>6. CASE Stop
    BY <1>6 DEF AccessWrites, Stop, StopRunning, StopState, StopDispatch, StopClient,
       JoinBegin, JoinEnd, StopJoin, StopEncoder, StopDrain
  <1> QED BY <1>1, <1>2, <1>3, <1>4, <1>5, <1>6 DEF Next

LEMMA NextAccess ==
  ASSUME TypeOK, AccessInv, [Next]_vars
  PROVE  AccessInv'
  <1>1. access \in Nat /\ gen \in Nat /\ ended \subseteq Nat /\ valid \subseteq Nat
    BY DEF TypeOK, CoderType
  <1>2. CASE UNCHANGED <<access, valid, gen, ended>>
    BY <1>2 DEF AccessInv
  <1>3. ASSUME Invalidate, gen' = gen, ended' = ended
        PROVE  AccessInv'
    BY <1>1, <1>3 DEF Invalidate, AccessInv
  <1>4. ASSUME NEW t \in {"control", "tcpControl"}, ConnectEncoder(t)
        PROVE  AccessInv'
    BY <1>2, <1>3, <1>4 DEF ConnectEncoder
  <1>5. ASSUME NEW t \in {"control", "tcpControl"}, ConnectBuild(t)
        PROVE  AccessInv'
    <2>1. CASE gen' = gen + 1 /\ access' = gen + 1 /\ valid' = (valid \ {access}) \cup {gen + 1}
      <3>1. valid' = {gen + 1} /\ ended' = ended
        BY <1>5, <2>1 DEF ConnectBuild, AccessInv
      <3> QED BY <1>1, <2>1, <3>1 DEF AccessInv
    <2> QED BY <1>2, <1>5, <2>1 DEF ConnectBuild
  <1>6. ASSUME NEW t \in {"control", "tcpControl"}, ConnectFail(t)
        PROVE  AccessInv'
    BY <1>3, <1>6 DEF ConnectFail
  <1>7. ASSUME NEW t \in Handlers, DisconnectAccess(t)
        PROVE  AccessInv'
    BY <1>1, <1>7 DEF DisconnectAccess, Invalidate, AccessInv
  <1>8. CASE StopBegin
    BY <1>3, <1>8 DEF StopBegin
  <1>9. CASE UNCHANGED vars
    BY <1>2, <1>9 DEF vars, data, work, coder
  <1> QED BY <1>2, <1>4, <1>5, <1>6, <1>7, <1>8, <1>9, AccessFrame DEF AccessWrites

\* What the two handlers move: nothing but the thread that runs them.
ConnectPcs == {"c_track", "c_client", "c_dispatch", "c_state"} \cup Building

LEMMA ConnectMoves ==
  ASSUME TypeOK, NEW t \in {"control", "tcpControl"}, ConnectStep(t)
  PROVE  /\ pc[t] \in ConnectPcs /\ pc'[t] \in ConnectPcs \cup Plain
         /\ \A u \in Threads \ {t} : pc'[u] = pc[u]
  <1> USE Goes, Returns DEF ConnectPcs, Building, Joined
  <1> t \in Handlers /\ t \in Threads
    BY Members
  <1>1. CASE ConnectTrack(t)
    BY <1>1 DEF ConnectTrack
  <1>2. CASE ConnectClient(t)
    BY <1>2 DEF ConnectClient
  <1>3. CASE ConnectDispatch(t)
    BY <1>3 DEF ConnectDispatch
  <1>4. CASE ConnectState(t)
    BY <1>4 DEF ConnectState
  <1>5. CASE ConnectSeed(t)
    BY <1>5 DEF ConnectSeed
  <1>6. CASE JoinBegin(t, "c_join", "c_wait")
    BY <1>6 DEF JoinBegin
  <1>7. CASE JoinEnd(t, "c_wait", "c_run")
    BY <1>7 DEF JoinEnd
  <1>8. CASE ConnectRunning(t)
    BY <1>8 DEF ConnectRunning
  <1>9. CASE ConnectEncoder(t)
    BY <1>9 DEF ConnectEncoder
  <1>10. CASE ConnectDrain(t)
    BY <1>10 DEF ConnectDrain
  <1>11. CASE ConnectBuild(t)
    BY <1>11 DEF ConnectBuild
  <1>12. CASE ConnectInit(t)
    BY <1>12 DEF ConnectInit
  <1>13. CASE ConnectFail(t)
    BY <1>13 DEF ConnectFail
  <1>14. CASE ConnectIdle(t)
    BY <1>14 DEF ConnectIdle
  <1>15. CASE ConnectRestart(t)
    BY <1>15 DEF ConnectRestart
  <1> QED BY <1>1, <1>2, <1>3, <1>4, <1>5, <1>6, <1>7, <1>8, <1>9, <1>10, <1>11, <1>12, <1>13,
       <1>14, <1>15 DEF ConnectStep

LEMMA DisconnectMoves ==
  ASSUME TypeOK, NEW t \in Handlers, DisconnectStep(t)
  PROVE  /\ pc[t] \in Exclusive \cup {"d_lock"} /\ pc'[t] \in Exclusive \cup Plain
         /\ \A u \in Threads \ {t} : pc'[u] = pc[u]
  <1> USE Goes, Returns DEF Exclusive, Ending
  <1> t \in Threads
    BY Members
  <1>1. CASE DisconnectLock(t)
    BY <1>1 DEF DisconnectLock
  <1>2. CASE DisconnectState(t)
    BY <1>2 DEF DisconnectState
  <1>3. CASE DisconnectClient(t)
    BY <1>3 DEF DisconnectClient
  <1>4. CASE DisconnectTrack(t)
    BY <1>4 DEF DisconnectTrack
  <1>5. CASE DisconnectAccess(t)
    BY <1>5 DEF DisconnectAccess
  <1>6. CASE DisconnectDispatch(t)
    BY <1>6 DEF DisconnectDispatch
  <1>7. CASE DisconnectTcp(t)
    BY <1>7 DEF DisconnectTcp
  <1>8. CASE DisconnectQueues(t)
    BY <1>8 DEF DisconnectQueues
  <1>9. CASE DisconnectEncoder(t)
    BY <1>9 DEF DisconnectEncoder
  <1>10. CASE DisconnectDrain(t)
    BY <1>10 DEF DisconnectDrain
  <1>11. CASE DisconnectSkip(t)
    BY <1>11 DEF DisconnectSkip
  <1>12. CASE JoinBegin(t, "d_join", "d_wait")
    BY <1>12 DEF JoinBegin
  <1>13. CASE JoinEnd(t, "d_wait", "d_restart")
    BY <1>13 DEF JoinEnd
  <1>14. CASE DisconnectRestart(t)
    BY <1>14 DEF DisconnectRestart
  <1> QED BY <1>1, <1>2, <1>3, <1>4, <1>5, <1>6, <1>7, <1>8, <1>9, <1>10, <1>11, <1>12, <1>13,
       <1>14 DEF DisconnectStep

\* What the other threads move, and where to.
LEMMA ReceiveMoves ==
  ASSUME TypeOK
  PROVE  /\ ControlThread =>
              /\ pc["control"] \in {"recv", "honor"}
              /\ pc'["control"] \in {"recv", "exited", "honor", "c_track", "d_lock"}
              /\ \A u \in Threads \ {"control"} : pc'[u] = pc[u]
         /\ TcpControlThread =>
              /\ pc["tcpControl"] \in {"recv", "uread", "uowner", "uclose", "ulast"}
              /\ pc'["tcpControl"] \in {"recv", "exited", "uread", "uowner", "uclose", "ulast",
                                        "c_track", "d_lock"}
              /\ \A u \in Threads \ {"tcpControl"} : pc'[u] = pc[u]
         /\ TcpVideoThread =>
              /\ pc["tcpVideo"] \in {"recv", "route"}
              /\ \A u \in Threads \ {"tcpVideo"} : pc'[u] = pc[u]
  <1> USE Goes DEF Head
  <1> Handlers \subseteq Threads /\ {"control", "tcpControl", "tcpVideo"} \subseteq Threads
    BY Members
  <1>1. ASSUME ControlThread
        PROVE  /\ pc["control"] \in {"recv", "honor"}
               /\ pc'["control"] \in {"recv", "exited", "honor", "c_track", "d_lock"}
               /\ \A u \in Threads \ {"control"} : pc'[u] = pc[u]
    BY <1>1 DEF ControlThread, Quit, Connect, WifiDisconnect, WifiHonor
  <1>2. ASSUME TcpControlThread
        PROVE  /\ pc["tcpControl"] \in {"recv", "uread", "uowner", "uclose", "ulast"}
               /\ pc'["tcpControl"] \in {"recv", "exited", "uread", "uowner", "uclose", "ulast",
                                         "c_track", "d_lock"}
               /\ \A u \in Threads \ {"tcpControl"} : pc'[u] = pc[u]
    <2>1. CASE Quit("tcpControl", "recv", "exited") \/ Quit("tcpControl", "uread", "uclose")
               \/ TcpRecordEnds("uowner") \/ TcpRecordEnds("uclose")
      BY <2>1 DEF Quit, TcpRecordEnds
    <2>2. CASE TcpAccept \/ TcpClose
      BY <2>2 DEF TcpAccept, TcpClose
    <2>3. CASE Connect("tcpControl", "uread", "uread", Loopback)
      BY <2>3 DEF Connect
    <2>4. CASE TcpOwnerEnds("uowner", "uclose")
      BY <2>4 DEF TcpOwnerEnds
    <2>5. CASE TcpOwnerEnds("ulast", "recv")
      BY <2>5 DEF TcpOwnerEnds
    <2> QED BY <1>2, <2>1, <2>2, <2>3, <2>4, <2>5 DEF TcpControlThread
  <1>3. ASSUME TcpVideoThread
        PROVE  /\ pc["tcpVideo"] \in {"recv", "route"}
               /\ \A u \in Threads \ {"tcpVideo"} : pc'[u] = pc[u]
    BY <1>3 DEF TcpVideoThread, Quit, TcpVideoAccept, TcpVideoRoute
  <1> QED BY <1>1, <1>2, <1>3

LEMMA FrameMoves ==
  ASSUME TypeOK, EncodeThread \/ EncodeCallback \/ VideoSend \/ VideoSendEnds
                 \/ BroadcastEnds \/ Environment
  PROVE  \A u \in Handlers \cup {"tcpVideo"} : pc'[u] = pc[u]
  <1> USE Goes
  <1>1. Handlers \cup {"tcpVideo"} \subseteq Threads \ {"encode", "send"}
        /\ "encode" \in Threads /\ "send" \in Threads
    BY DEF Threads, Handlers
  <1>2. CASE EncodeThread
    BY <1>1, <1>2 DEF EncodeThread, EncodeWakes, Quit, EncodePop, EncodeSnapshot,
       EncodeSubmit
  <1>3. CASE VideoSendEnds
    BY <1>1, <1>3 DEF VideoSendEnds
  <1>4. CASE EncodeCallback \/ VideoSend \/ BroadcastEnds \/ Environment
    BY <1>4 DEF EncodeCallback, VideoSend, BroadcastEnds, Environment, ClientSilent,
       ClientTracks, own, bounds, locals
  <1> QED BY <1>2, <1>3, <1>4

AppPcs == {"idle", "a_live", "a_state", "a_enc", "a_push"}
StopPcs == {"idle", "s_running"} \cup Later

LEMMA AppMoves ==
  ASSUME TypeOK
  PROVE  /\ App => /\ pc["app"] \in AppPcs /\ pc'["app"] \in AppPcs \cup {"d_lock"}
                   /\ \A u \in Threads \ {"app"} : pc'[u] = pc[u]
         /\ Stop => /\ pc["app"] \in StopPcs /\ pc'["app"] \in StopPcs
                    /\ pc["app"] # "idle" => pc'["app"] # "s_running"
                    /\ \A u \in Threads \ {"app"} : pc'[u] = pc[u]
  <1> USE Goes DEF AppPcs, StopPcs, Later
  <1> "app" \in Threads
    BY DEF Threads, Handlers
  <1>1. ASSUME App
        PROVE  /\ pc["app"] \in AppPcs /\ pc'["app"] \in AppPcs \cup {"d_lock"}
               /\ \A u \in Threads \ {"app"} : pc'[u] = pc[u]
    BY <1>1 DEF App, EndFrame, CheckClientLiveness, SendFrameState, SendFrameEncoder,
       SendFramePush
  <1>2. ASSUME Stop
        PROVE  /\ pc["app"] \in StopPcs /\ pc'["app"] \in StopPcs
               /\ pc["app"] # "idle" => pc'["app"] # "s_running"
               /\ \A u \in Threads \ {"app"} : pc'[u] = pc[u]
    <2>1. CASE StopBegin \/ StopRunning \/ StopState
      BY <2>1 DEF StopBegin, StopRunning, StopState
    <2>2. CASE StopDispatch \/ StopClient \/ JoinBegin("app", "s_join", "s_wait")
      BY <2>2 DEF StopDispatch, StopClient, JoinBegin
    <2>3. CASE JoinEnd("app", "s_wait", "s_threads") \/ StopJoin
      BY <2>3 DEF JoinEnd, StopJoin
    <2>4. CASE StopEncoder \/ StopDrain
      BY <2>4 DEF StopEncoder, StopDrain
    <2> QED BY <1>2, <2>1, <2>2, <2>3, <2>4 DEF Stop
  <1> QED BY <1>1, <1>2

\* The steps of HandleClientDisconnect at which the send queue may still hold
\* frames of the session that ended; they are left through DisconnectQueues.
Clearing == {"d_dispatch", "d_tcp", "d_queue"}

LEMMA ClearingLeft ==
  ASSUME TypeOK, Next, NEW h \in Handlers, pc[h] \in Clearing, pc'[h] \notin Clearing
  PROVE  sendq' = {}
  <1> USE Members DEF Clearing
  <1>1. ASSUME NEW t \in Handlers, DisconnectStep(t)
        PROVE  sendq' = {}
    <2> t \in Threads
      OBVIOUS
    <2> USE Goes, Returns
    <2>1. h = t
      BY <1>1, DisconnectMoves
    <2>2. CASE DisconnectLock(t) \/ DisconnectState(t) \/ DisconnectClient(t)
               \/ DisconnectTrack(t) \/ DisconnectAccess(t) \/ DisconnectSkip(t) \/ DisconnectRestart(t)
      BY <2>1, <2>2 DEF DisconnectLock, DisconnectState, DisconnectClient,
         DisconnectTrack, DisconnectAccess, DisconnectSkip, DisconnectRestart
    <2>3. CASE DisconnectDispatch(t) \/ DisconnectTcp(t) \/ DisconnectQueues(t)
      BY <2>1, <2>3 DEF DisconnectDispatch, DisconnectTcp, DisconnectQueues
    <2>4. CASE DisconnectEncoder(t) \/ DisconnectDrain(t) \/ JoinBegin(t, "d_join", "d_wait")
               \/ JoinEnd(t, "d_wait", "d_restart")
      BY <2>1, <2>4 DEF DisconnectEncoder, DisconnectDrain, JoinBegin, JoinEnd
    <2> QED BY <1>1, <2>2, <2>3, <2>4 DEF DisconnectStep
  <1>2. CASE \E t \in {"control", "tcpControl"} : ConnectStep(t)
    BY <1>2, ConnectMoves DEF ConnectPcs, Building, Joined
  <1>3. CASE ControlThread \/ TcpControlThread \/ TcpVideoThread
    BY <1>3, ReceiveMoves
  <1>4. CASE EncodeThread \/ EncodeCallback \/ VideoSend \/ VideoSendEnds
             \/ BroadcastEnds \/ Environment
    BY <1>4, FrameMoves
  <1>5. CASE App \/ Stop
    BY <1>5, AppMoves DEF AppPcs, StopPcs, Later
  <1> QED BY <1>1, <1>2, <1>3, <1>4, <1>5 DEF Next

\* Only a callback whose access is still valid queues a frame.
LEMMA SendFrame ==
  ASSUME Next
  PROVE  sendq' \subseteq sendq \cup valid /\ (sendq' \subseteq sendq \/ UNCHANGED ended)
  <1> USE DEF conn, video, coder, frames, locks, locals, bounds, own, work, sync, data
  <1>1. ASSUME NEW t \in {"control", "tcpControl"}, ConnectStep(t)
        PROVE  sendq' = sendq
    BY <1>1 DEF ConnectStep, ConnectTrack, ConnectClient, ConnectDispatch,
       ConnectState, ConnectSeed, JoinBegin, JoinEnd, ConnectRunning, ConnectEncoder,
       ConnectDrain,
       ConnectBuild, ConnectInit, ConnectFail, ConnectIdle, ConnectRestart
  <1>2. ASSUME NEW t \in Handlers, DisconnectStep(t)
        PROVE  sendq' \subseteq sendq
    BY <1>2 DEF DisconnectStep, DisconnectLock, DisconnectState,
       DisconnectClient, DisconnectTrack, DisconnectAccess, DisconnectDispatch, DisconnectTcp,
       DisconnectQueues, DisconnectEncoder, DisconnectDrain, DisconnectSkip,
       JoinBegin, JoinEnd, DisconnectRestart
  <1>3. CASE ControlThread \/ TcpControlThread \/ TcpVideoThread
    <2>1. sendq' = sendq
      BY <1>3 DEF ControlThread, Quit, Connect, WifiDisconnect, WifiHonor,
         TcpControlThread, TcpAccept, TcpRecordEnds, TcpOwnerEnds, TcpClose,
         TcpVideoThread, TcpVideoAccept, TcpVideoRoute
    <2> QED BY <2>1
  <1>4. CASE EncodeThread \/ VideoSend \/ VideoSendEnds
    <2>1. sendq' \subseteq sendq
      BY <1>4 DEF EncodeThread, EncodeWakes, Quit, EncodePop, EncodeSnapshot, EncodeSubmit,
         VideoSend, VideoSendEnds
    <2> QED BY <2>1
  <1>5. CASE EncodeCallback
    BY <1>5 DEF EncodeCallback
  <1>6. CASE BroadcastEnds \/ App \/ Environment
    <2>1. sendq' = sendq
      BY <1>6 DEF BroadcastEnds, App, EndFrame, CheckClientLiveness, SendFrameState,
         SendFrameEncoder, SendFramePush, Environment, ClientSilent, ClientTracks
    <2> QED BY <2>1
  <1>7. CASE Stop
    <2>1. sendq' \subseteq sendq
      BY <1>7 DEF Stop, StopBegin, StopRunning, StopState, StopDispatch, StopClient,
         JoinBegin, JoinEnd, StopJoin, StopEncoder, StopDrain
    <2> QED BY <2>1
  <1> QED BY <1>1, <1>2, <1>3, <1>4, <1>5, <1>6, <1>7 DEF Next

\* Only a disconnect revokes an access, and then it has still to clear the queue.
LEMMA Revokes ==
  ASSUME TypeOK, Next, ended' # ended
  PROVE  \E t \in Handlers : pc'[t] \in Clearing
  <1>1. PICK t \in Handlers : DisconnectAccess(t)
    BY AccessFrame DEF AccessWrites, ConnectEncoder, ConnectBuild, ConnectFail, StopBegin
  <1> QED BY <1>1, Members, Goes DEF DisconnectAccess, Clearing

LEMMA NextSilent ==
  ASSUME TypeOK, AccessInv, EndedSessionSilent, [Next]_vars
  PROVE  EndedSessionSilent'
  <1>1. CASE UNCHANGED vars
    BY <1>1 DEF vars, data, work, coder, frames, EndedSessionSilent
  <1>2. CASE Next
    <2> SUFFICES ASSUME \A t \in Handlers : pc'[t] \notin Clearing
                 PROVE  sendq' \cap ended' = {}
      BY DEF EndedSessionSilent, Clearing
    <2>1. ended' = ended
      BY <1>2, Revokes
    <2>2. CASE \A t \in Handlers : pc[t] \notin Clearing
      <3>1. sendq \cap ended = {} /\ valid \cap ended = {}
        BY <2>2 DEF EndedSessionSilent, Clearing, AccessInv
      <3> QED BY <1>2, <2>1, <3>1, SendFrame
    <2>3. CASE \E t \in Handlers : pc[t] \in Clearing
      BY <1>2, <2>3, ClearingLeft
    <2> QED BY <2>2, <2>3
  <1> QED BY <1>1, <1>2

\* Every step of a handler keeps disconnectMutex_ with the one between lock and unlock.
LEMMA DiscKept ==
  ASSUME TypeOK, DiscInv, UNCHANGED discLock, NEW t \in Threads,
         \A u \in Threads \ {t} : pc'[u] = pc[u],
         t \in Handlers => (pc[t] \in Exclusive <=> pc'[t] \in Exclusive)
  PROVE  DiscInv'
  BY Members DEF DiscInv

LEMMA DisconnectDisc ==
  ASSUME TypeOK, DiscInv, NEW t \in Handlers, DisconnectStep(t)
  PROVE  DiscInv'
  <1> USE Members, Returns
      DEF conn, video, coder, frames, locks, locals, bounds, own, work, sync, data
  <1>1. t \in Threads /\ \A u \in Handlers \ {t} : pc'[u] = pc[u]
    BY DisconnectMoves
  <1>2. CASE DisconnectLock(t)
    <2>1. pc[t] = "d_lock" /\ discLock = Free /\ discLock' \in {Free, t}
      BY <1>1, <1>2, Goes DEF DisconnectLock
    <2>2. pc'[t] \in Exclusive <=> discLock' = t
      BY <1>1, <1>2, Goes DEF DisconnectLock, Exclusive, Ending, Plain, Free, Handlers
    <2> QED BY <1>1, <2>1, <2>2 DEF DiscInv, Free, Handlers, Exclusive, Ending
  <1>3. ASSUME pc[t] \in Exclusive, DisconnectLeaves(t), pc'[t] \in Plain
        PROVE  DiscInv'
    BY <1>1, <1>3 DEF DisconnectLeaves, DiscInv, Plain, Exclusive, Ending, Free, Handlers
  <1>4. ASSUME UNCHANGED discLock, pc[t] \in Exclusive, pc'[t] \in Exclusive
        PROVE  DiscInv'
    BY <1>1, <1>4, DiscKept, DisconnectMoves
  <1>5. CASE DisconnectClient(t)
    BY <1>1, <1>3, <1>4, <1>5, Goes DEF DisconnectClient, Exclusive, Ending
  <1>6. CASE DisconnectSkip(t) \/ DisconnectRestart(t)
    BY <1>1, <1>3, <1>6, Goes DEF DisconnectSkip, DisconnectRestart, Exclusive, Ending
  <1>7. CASE DisconnectState(t) \/ DisconnectTrack(t) \/ DisconnectAccess(t) \/ DisconnectTcp(t)
             \/ DisconnectQueues(t)
    BY <1>1, <1>4, <1>7, Goes DEF DisconnectState, DisconnectTrack, DisconnectAccess,
       DisconnectTcp, DisconnectQueues, Exclusive, Ending
  <1>8. CASE DisconnectDispatch(t) \/ DisconnectEncoder(t) \/ DisconnectDrain(t)
    BY <1>1, <1>4, <1>8, Goes DEF DisconnectDispatch, DisconnectEncoder, DisconnectDrain,
       Exclusive, Ending
  <1>9. CASE JoinBegin(t, "d_join", "d_wait") \/ JoinEnd(t, "d_wait", "d_restart")
    BY <1>1, <1>4, <1>9, Goes DEF JoinBegin, JoinEnd, Exclusive, Ending
  <1> QED BY <1>2, <1>5, <1>6, <1>7, <1>8, <1>9 DEF DisconnectStep

LEMMA NextDisc ==
  ASSUME TypeOK, DiscInv, [Next]_vars
  PROVE  DiscInv'
  <1> USE Members
      DEF conn, video, coder, frames, locks, locals, bounds, own, work, sync, data
  <1>1. ASSUME NEW t \in {"control", "tcpControl"}, ConnectStep(t)
        PROVE  DiscInv'
    <2>1. discLock' = discLock
      BY <1>1 DEF ConnectStep, ConnectTrack, ConnectClient, ConnectDispatch,
         ConnectState, ConnectSeed, JoinBegin, JoinEnd, ConnectRunning, ConnectEncoder,
         ConnectDrain,
         ConnectBuild, ConnectInit, ConnectFail, ConnectIdle, ConnectRestart
    <2>2. pc[t] \notin Exclusive /\ pc'[t] \notin Exclusive
      BY <1>1, ConnectMoves DEF ConnectPcs, Building, Joined, Plain, Exclusive, Ending
    <2> QED BY <1>1, <2>1, <2>2, DiscKept, ConnectMoves
  <1>2. CASE ControlThread \/ TcpControlThread \/ TcpVideoThread
    <2>1. discLock' = discLock
      BY <1>2 DEF ControlThread, Quit, Connect, WifiDisconnect, WifiHonor,
         TcpControlThread, TcpAccept, TcpRecordEnds, TcpOwnerEnds, TcpClose,
         TcpVideoThread, TcpVideoAccept, TcpVideoRoute
    <2> QED BY <1>2, <2>1, DiscKept, ReceiveMoves DEF Exclusive, Ending
  <1>3. CASE EncodeThread \/ EncodeCallback \/ VideoSend \/ VideoSendEnds
             \/ BroadcastEnds \/ Environment
    <2>1. discLock' = discLock
      BY <1>3 DEF EncodeThread, EncodeWakes, Quit, EncodePop, EncodeSnapshot, EncodeSubmit,
         EncodeCallback, VideoSend, VideoSendEnds, BroadcastEnds, Environment,
         ClientSilent, ClientTracks
    <2> QED BY <1>3, <2>1, FrameMoves DEF DiscInv
  <1>4. CASE App \/ Stop
    <2>1. discLock' = discLock
      BY <1>4 DEF App, EndFrame, CheckClientLiveness, SendFrameState, SendFrameEncoder,
         SendFramePush, Stop, StopBegin, StopRunning, StopState, StopDispatch, StopClient,
         JoinBegin, JoinEnd, StopJoin, StopEncoder, StopDrain
    <2> QED BY <1>4, <2>1, DiscKept, AppMoves DEF AppPcs, StopPcs, Later, Exclusive, Ending
  <1>5. CASE UNCHANGED vars
    BY <1>5 DEF vars, DiscInv
  <1> QED BY <1>1, <1>2, <1>3, <1>4, <1>5, DisconnectDisc DEF Next

\* What each group of steps writes of the session's records.
LEMMA ConnectWrites ==
  ASSUME NEW t \in {"control", "tcpControl"}, ConnectStep(t)
  PROVE  UNCHANGED <<running, tcpVideo, prev, transport, silences>>
  BY DEF conn, video, coder, frames, locks, locals, bounds, own, work, sync, data,
     ConnectStep, ConnectTrack, ConnectClient, ConnectDispatch,
     ConnectState, ConnectSeed, JoinBegin, JoinEnd, ConnectRunning, ConnectEncoder, ConnectDrain,
     ConnectBuild, ConnectInit, ConnectFail, ConnectIdle, ConnectRestart

\* The steps of a connect that write none of them.
ConnectWaits(t) ==
    \/ JoinBegin(t, "c_join", "c_wait") \/ ConnectRunning(t) \/ ConnectEncoder(t)
    \/ ConnectDrain(t) \/ ConnectBuild(t) \/ ConnectInit(t) \/ ConnectFail(t)

LEMMA ConnectStill ==
  ASSUME TypeOK, NEW t \in {"control", "tcpControl"}, ConnectWaits(t)
  PROVE  /\ UNCHANGED <<conn, video, cand, prev, bthread>>
         /\ pc[t] \in {"c_join", "c_run", "c_enc", "c_drain", "c_build", "c_init", "c_fail"}
         /\ IF pc[t] = "c_join"
              THEN pc'[t] = "c_wait"
              ELSE pc'[t] \in Plain \cup
                     {"c_enc", "c_drain", "c_build", "c_init", "c_fail", "c_idle"}
  <1> USE Goes, Returns
  <1>1. t \in Handlers /\ t \in Threads
    BY Members
  <1>2. UNCHANGED <<conn, video, cand, prev, bthread>>
    BY DEF conn, video, coder, frames, locks, locals, bounds, own, work, sync, data,
       ConnectWaits, JoinBegin, ConnectRunning, ConnectEncoder, ConnectDrain, ConnectBuild,
       ConnectInit, ConnectFail
  <1>3. CASE JoinBegin(t, "c_join", "c_wait")
    BY <1>1, <1>2, <1>3 DEF JoinBegin
  <1>4. CASE ConnectRunning(t)
    BY <1>1, <1>2, <1>4 DEF ConnectRunning
  <1>5. CASE ConnectEncoder(t)
    BY <1>1, <1>2, <1>5 DEF ConnectEncoder
  <1>6. CASE ConnectDrain(t)
    BY <1>1, <1>2, <1>6 DEF ConnectDrain
  <1>7. CASE ConnectBuild(t)
    BY <1>1, <1>2, <1>7 DEF ConnectBuild
  <1>8. CASE ConnectInit(t)
    BY <1>1, <1>2, <1>8 DEF ConnectInit
  <1>9. CASE ConnectFail(t)
    BY <1>1, <1>2, <1>9 DEF ConnectFail
  <1> QED BY <1>3, <1>4, <1>5, <1>6, <1>7, <1>8, <1>9 DEF ConnectWaits

LEMMA DisconnectWrites ==
  ASSUME NEW t \in Handlers, DisconnectStep(t)
  PROVE  /\ UNCHANGED <<running, activity, cand, transport, silences>>
         /\ state' \in {state, "Broadcasting"}
         /\ clientIp' \in {clientIp, NoAddr} /\ clientUsb' \in {clientUsb, FALSE}
         /\ trackAddr' \in {trackAddr, NoAddr} /\ tcpVideo' \in {tcpVideo, "none"}
         /\ dispatch' \in {dispatch, [dispatch EXCEPT !.ip = NoAddr, !.sock = "udp",
                                                      !.tcp = FALSE]}
  BY DEF conn, video, coder, frames, locks, locals, bounds, own, work, sync, data,
     DisconnectStep, DisconnectLock, DisconnectState, DisconnectLeaves,
     DisconnectClient, DisconnectTrack, DisconnectAccess, DisconnectDispatch, DisconnectTcp,
     DisconnectQueues, DisconnectEncoder, DisconnectDrain, DisconnectSkip,
     JoinBegin, JoinEnd, DisconnectRestart

LEMMA ReceiveWrites ==
  /\ ControlThread \/ TcpControlThread =>
       UNCHANGED <<running, state, clientIp, clientUsb, trackAddr, activity, dispatch, tcpVideo,
                   coder, bthread, prev, transport, silences>>
  /\ TcpVideoThread => UNCHANGED <<conn, coder, bthread, cand, prev, transport, silences>>
  BY DEF conn, video, coder, frames, locks, locals, bounds, own, work, sync, data,
     ControlThread, Quit, Connect, WifiDisconnect, WifiHonor, TcpControlThread, TcpAccept,
     TcpRecordEnds, TcpOwnerEnds, TcpClose, TcpVideoThread, TcpVideoAccept, TcpVideoRoute

LEMMA FrameWrites ==
  ASSUME EncodeThread \/ EncodeCallback \/ VideoSend \/ VideoSendEnds
         \/ BroadcastEnds \/ Environment
  PROVE  /\ UNCHANGED <<running, state, clientIp, clientUsb, trackAddr, coder, cand, prev,
                        transport>>
         /\ VideoSend \/ UNCHANGED <<dispatch, tcpVideo>>
         /\ BroadcastEnds \/ UNCHANGED bthread
         /\ Environment \/ UNCHANGED <<activity, silences>>
  BY DEF conn, video, coder, frames, locks, locals, bounds, own, work, sync, data,
     EncodeThread, EncodeWakes, Quit, EncodePop, EncodeSnapshot, EncodeSubmit,
     EncodeCallback, VideoSend, VideoSendEnds, BroadcastEnds, Environment, ClientSilent,
     ClientTracks

LEMMA AppWrites ==
  ASSUME App
  PROVE  UNCHANGED <<conn, video, coder, bthread, cand, prev, transport, silences>>
  BY DEF conn, video, coder, frames, locks, locals, bounds, own, work, sync, data,
     App, EndFrame, CheckClientLiveness, SendFrameState, SendFrameEncoder, SendFramePush

LEMMA StopWrites ==
  ASSUME TypeOK, StopInv, Stop
  PROVE  /\ UNCHANGED <<activity, cand, prev, transport, silences>>
         /\ running' \in {running, FALSE} /\ state' \in {state, "Stopped"}
         /\ clientIp' \in {clientIp, NoAddr} /\ clientUsb' \in {clientUsb, FALSE}
         /\ trackAddr' \in {trackAddr, NoAddr} /\ tcpVideo' \in {tcpVideo, "none"}
         /\ dispatch' \in {dispatch, NoDispatch}
         /\ running' => /\ StopBegin /\ pc'["app"] = "s_running"
                        /\ UNCHANGED <<conn, video, bthread, encoder, live, gen>>
  <1> USE DEF conn, video, coder, frames, locks, locals, bounds, own, work, sync, data
  <1>1. CASE StopBegin
    BY <1>1, Goes, Members DEF StopBegin
  <1>2. CASE StopRunning
    BY <1>2 DEF StopRunning, TypeOK, ConnType
  <1>3. CASE ~running
    <2>1. running = FALSE /\ running' = FALSE
      BY <1>3 DEF Stop, StopBegin, StopRunning, StopState, StopDispatch, StopClient,
         JoinBegin, JoinEnd, StopJoin, StopEncoder, StopDrain, TypeOK, ConnType
    <2>2. /\ UNCHANGED <<activity, cand, prev, transport, silences>>
          /\ state' \in {state, "Stopped"}
          /\ clientIp' \in {clientIp, NoAddr} /\ clientUsb' \in {clientUsb, FALSE}
          /\ trackAddr' \in {trackAddr, NoAddr} /\ tcpVideo' \in {tcpVideo, "none"}
          /\ dispatch' \in {dispatch, NoDispatch}
      BY DEF Stop, StopBegin, StopRunning, StopState, StopDispatch, StopClient,
         JoinBegin, JoinEnd, StopJoin, StopEncoder, StopDrain
    <2> QED BY <2>1, <2>2
  <1>4. CASE running
    <2>1. pc["app"] \notin Later
      BY <1>4 DEF StopInv
    <2>2. pc["app"] \in {"s_state", "s_dispatch", "s_client", "s_join", "s_wait", "s_threads",
                         "s_enc", "s_drain"} \/ StopBegin \/ StopRunning
      BY DEF Stop, Go, StopState, StopDispatch, StopClient, JoinBegin, JoinEnd, StopJoin,
         StopEncoder, StopDrain
    <2> QED BY <1>1, <1>2, <2>1, <2>2 DEF Later
  <1> QED BY <1>3, <1>4

\* With WiFi alone the USB threads have ended, with USB alone the WiFi thread
\* runs no handler.
LEMMA WifiThreads ==
  ASSUME TypeOK, WifiInv, transport = "wifi"
  PROVE  /\ \A t \in {"control", "tcpControl"} : ConnectStep(t) => t = "control"
         /\ \A t \in Handlers : DisconnectStep(t) => t \in {"control", "app"}
         /\ ~TcpControlThread /\ ~TcpVideoThread
  <1>1. pc["tcpControl"] = "exited" /\ pc["tcpVideo"] = "exited"
    BY DEF WifiInv
  <1>2. \A t \in {"control", "tcpControl"} : ConnectStep(t) => t = "control"
    BY <1>1, ConnectMoves DEF ConnectPcs, Building, Joined
  <1>3. \A t \in Handlers : DisconnectStep(t) => t \in {"control", "app"}
    BY <1>1, DisconnectMoves DEF Exclusive, Ending, Handlers
  <1> QED BY <1>1, <1>2, <1>3, ReceiveMoves

LEMMA UsbThreads ==
  ASSUME TypeOK, UsbInv, transport = "usb_adb"
  PROVE  /\ \A t \in {"control", "tcpControl"} : ConnectStep(t) => t = "tcpControl"
         /\ \A t \in Handlers : DisconnectStep(t) => t \in {"tcpControl", "app"}
         /\ ControlThread => /\ UNCHANGED cand /\ pc'["control"] \in {"recv", "exited"}
  <1>1. pc["control"] \in {"recv", "exited"} /\ clientIp \in {NoAddr, Loopback}
    BY DEF UsbInv
  <1>2. \A t \in {"control", "tcpControl"} : ConnectStep(t) => t = "tcpControl"
    BY <1>1, ConnectMoves DEF ConnectPcs, Building, Joined
  <1>3. \A t \in Handlers : DisconnectStep(t) => t \in {"tcpControl", "app"}
    BY <1>1, DisconnectMoves DEF Exclusive, Ending, Handlers
  <1>4. ASSUME ControlThread
        PROVE  UNCHANGED cand /\ pc'["control"] \in {"recv", "exited"}
    <2> USE Goes, Members DEF Head
    <2>1. CASE Quit("control", "recv", "exited")
      BY <2>1 DEF Quit, own, locals
    <2>2. CASE \E ip \in Addr : WifiDisconnect(ip)
      BY <1>1, <2>2, AddrAssumption DEF WifiDisconnect, own, locals
    <2>3. ~WifiHonor
      BY <1>1 DEF WifiHonor
    <2> QED BY <1>4, <2>1, <2>2, <2>3 DEF ControlThread, WifiEnabled
  <1> QED BY <1>2, <1>3, <1>4

\* A step that connects no client keeps what WiFi alone guarantees.
LEMMA WifiKept ==
  ASSUME WifiInv, transport = "wifi", cand' = cand,
         pc'["tcpControl"] = pc["tcpControl"], pc'["tcpVideo"] = pc["tcpVideo"],
         \/ pc'["control"] = pc["control"]
         \/ pc'["control"] \notin {"c_track", "c_client", "c_dispatch"},
         clientIp' \in {clientIp, NoAddr}, clientUsb' \in {clientUsb, FALSE},
         dispatch'.tcp \in {dispatch.tcp, FALSE}, state' = "Connected" => state = "Connected"
  PROVE  WifiInv'
  BY DEF WifiInv

LEMMA ConnectWifi ==
  ASSUME TypeOK, WifiInv, transport = "wifi", ConnectStep("control")
  PROVE  WifiInv'
  <1> USE DEF conn, video, coder, frames, locks, locals, bounds, own, work, sync, data
  <1>1. /\ "control" \in Handlers /\ "control" \in Threads
        /\ "tcpControl" \in Threads \ {"control"} /\ "tcpVideo" \in Threads \ {"control"}
    BY DEF Handlers, Threads
  <1>2. transport' = transport /\ \A u \in Threads \ {"control"} : pc'[u] = pc[u]
    BY ConnectWrites, ConnectMoves
  <1>3. cand \in [Handlers -> Addr \cup {NoAddr, Loopback}]
    BY DEF TypeOK, ThreadType
  <1>4. CASE ConnectTrack("control")
    BY <1>1, <1>2, <1>4, Goes DEF ConnectTrack, WifiInv
  <1>5. CASE ConnectClient("control")
    BY <1>1, <1>2, <1>5, Goes DEF ConnectClient, WifiInv
  <1>6. CASE ConnectDispatch("control")
    BY <1>1, <1>2, <1>6, Goes DEF ConnectDispatch, WifiInv
  <1>7. CASE ConnectState("control") \/ ConnectSeed("control")
    BY <1>1, <1>2, <1>7, Goes DEF ConnectState, ConnectSeed, WifiInv
  <1>8. CASE JoinEnd("control", "c_wait", "c_run")
    BY <1>1, <1>2, <1>8, Goes, WifiKept DEF JoinEnd
  <1>9. CASE ConnectIdle("control")
    BY <1>1, <1>2, <1>9, Goes, WifiKept DEF ConnectIdle
  <1>10. CASE ConnectRestart("control")
    BY <1>1, <1>2, <1>10, Returns, WifiKept DEF ConnectRestart, Plain
  <1>11. CASE ConnectWaits("control")
    BY <1>1, <1>2, <1>11, ConnectStill, WifiKept DEF Plain
  <1> QED BY <1>4, <1>5, <1>6, <1>7, <1>8, <1>9, <1>10, <1>11 DEF ConnectStep, ConnectWaits

LEMMA NextWifi ==
  ASSUME TypeOK, StopInv, WifiInv, [Next]_vars
  PROVE  WifiInv'
  <1> USE Members
  <1>1. CASE transport # "wifi"
    <2>1. transport' = transport
      BY ConnectWrites, DisconnectWrites, ReceiveWrites, FrameWrites, AppWrites, StopWrites
         DEF Next, vars, own, bounds
    <2> QED BY <1>1, <2>1 DEF WifiInv
  <1>2. CASE transport = "wifi"
    <2>1. ASSUME NEW t \in {"control", "tcpControl"}, ConnectStep(t)
          PROVE  WifiInv'
      BY <1>2, <2>1, WifiThreads, ConnectWifi
    <2>2. ASSUME NEW t \in Handlers, DisconnectStep(t)
          PROVE  WifiInv'
      <3>1. t \in {"control", "app"} /\ \A u \in Threads \ {t} : pc'[u] = pc[u]
        BY <1>2, <2>2, WifiThreads, DisconnectMoves
      <3>2. \/ pc'["control"] = pc["control"]
            \/ pc'["control"] \notin {"c_track", "c_client", "c_dispatch"}
        BY <2>2, <3>1, DisconnectMoves DEF Exclusive, Ending, Plain
      <3>3. dispatch'.tcp \in {dispatch.tcp, FALSE}
        BY <2>2, DisconnectWrites DEF TypeOK, VideoType
      <3> QED BY <1>2, <2>2, <3>1, <3>2, <3>3, DisconnectWrites, WifiKept
    <2>3. CASE ControlThread
      <3>1. /\ \A u \in Threads \ {"control"} : pc'[u] = pc[u]
            /\ UNCHANGED <<state, clientIp, clientUsb, dispatch, transport>>
        BY <2>3, ReceiveMoves, ReceiveWrites
      <3>2. CASE cand' = cand /\ pc'["control"] # "c_track"
        BY <1>2, <2>3, <3>1, <3>2, ReceiveMoves, WifiKept
      <3>3. ASSUME NEW ip \in Addr, Connect("control", "recv", "recv", ip)
            PROVE  WifiInv'
        <4> USE DEF Head
        <4>1. CASE Admitted("control" = "tcpControl", ip)
          <5>1. pc'["control"] = "c_track" /\ cand'["control"] = ip
            BY <3>3, <4>1, Goes DEF Connect, TypeOK, ThreadType
          <5> QED BY <1>2, <3>1, <4>1, <5>1 DEF WifiInv, Admitted
        <4>2. CASE ~Admitted("control" = "tcpControl", ip)
          BY <3>2, <3>3, <4>2, Goes DEF Connect
        <4> QED BY <4>1, <4>2
      <3>4. CASE Quit("control", "recv", "exited") \/ WifiHonor
                 \/ \E ip \in Addr : WifiDisconnect(ip)
        BY <3>2, <3>4, Goes DEF Quit, WifiHonor, WifiDisconnect, Head, own, locals
      <3> QED BY <2>3, <3>3, <3>4 DEF ControlThread
    <2>4. CASE EncodeThread \/ EncodeCallback \/ VideoSend \/ VideoSendEnds
               \/ BroadcastEnds \/ Environment
      <3>1. dispatch'.tcp \in {dispatch.tcp, FALSE}
        BY <2>4, FrameWrites DEF VideoSend, video, TypeOK, VideoType
      <3> QED BY <1>2, <2>4, <3>1, FrameWrites, FrameMoves, WifiKept
    <2>5. CASE App
      BY <1>2, <2>5, AppWrites, AppMoves, WifiKept DEF conn, video, AppPcs
    <2>6. CASE Stop
      <3>1. NoDispatch.tcp = FALSE
        BY DEF NoDispatch
      <3>2. dispatch' = dispatch \/ dispatch' = NoDispatch
        BY <2>6, StopWrites
      <3>3. dispatch'.tcp \in {dispatch.tcp, FALSE}
        BY <3>1, <3>2
      <3> QED BY <1>2, <2>6, <3>3, StopWrites, AppMoves, WifiKept
    <2>7. CASE UNCHANGED vars
      BY <2>7 DEF vars, data, conn, work, video, own, locals, bounds, WifiInv
    <2> QED BY <1>2, <2>1, <2>2, <2>3, <2>4, <2>5, <2>6, <2>7, WifiThreads DEF Next
  <1> QED BY <1>1, <1>2

LEMMA UsbKept ==
  ASSUME UsbInv, transport = "usb_adb", cand' = cand, pc'["control"] \in {"recv", "exited"},
         pc'["tcpControl"] = pc["tcpControl"] \/ pc'["tcpControl"] \notin {"c_track", "c_client"},
         clientIp' \in {clientIp, NoAddr}, trackAddr' \in {trackAddr, NoAddr}
  PROVE  UsbInv'
  BY DEF UsbInv

LEMMA ConnectUsb ==
  ASSUME TypeOK, UsbInv, transport = "usb_adb", ConnectStep("tcpControl")
  PROVE  UsbInv'
  <1> USE DEF conn, video, coder, frames, locks, locals, bounds, own, work, sync, data
  <1>1. /\ "tcpControl" \in Handlers /\ "tcpControl" \in Threads
        /\ "control" \in Threads \ {"tcpControl"}
    BY DEF Handlers, Threads
  <1>2. transport' = transport /\ pc'["control"] = pc["control"]
    BY <1>1, ConnectWrites, ConnectMoves
  <1>3. cand \in [Handlers -> Addr \cup {NoAddr, Loopback}]
    BY DEF TypeOK, ThreadType
  <1>4. pc["control"] \in {"recv", "exited"}
    BY DEF UsbInv
  <1>5. CASE ConnectTrack("tcpControl")
    BY <1>1, <1>2, <1>5, Goes DEF ConnectTrack, TrackSource, UsbInv
  <1>6. CASE ConnectClient("tcpControl")
    BY <1>1, <1>2, <1>6, Goes DEF ConnectClient, UsbInv
  <1>7. CASE ConnectDispatch("tcpControl")
    BY <1>1, <1>2, <1>3, <1>7, Goes DEF ConnectDispatch, UsbInv
  <1>8. CASE ConnectState("tcpControl") \/ ConnectSeed("tcpControl")
    BY <1>1, <1>2, <1>4, <1>8, Goes, UsbKept DEF ConnectState, ConnectSeed
  <1>9. CASE JoinEnd("tcpControl", "c_wait", "c_run")
    BY <1>1, <1>2, <1>4, <1>9, Goes, UsbKept DEF JoinEnd
  <1>10. CASE ConnectIdle("tcpControl")
    BY <1>1, <1>2, <1>4, <1>10, Goes, UsbKept DEF ConnectIdle
  <1>11. CASE ConnectRestart("tcpControl")
    BY <1>1, <1>2, <1>4, <1>11, Returns, UsbKept DEF ConnectRestart, Plain
  <1>12. CASE ConnectWaits("tcpControl")
    BY <1>1, <1>2, <1>4, <1>12, ConnectStill, UsbKept DEF Plain
  <1> QED BY <1>5, <1>6, <1>7, <1>8, <1>9, <1>10, <1>11, <1>12 DEF ConnectStep, ConnectWaits

LEMMA TcpUsb ==
  ASSUME TypeOK, UsbInv, transport = "usb_adb", TcpControlThread
  PROVE  UsbInv'
  <1> USE Goes, Members DEF own, locals, Head
  <1>1. /\ UNCHANGED <<clientIp, trackAddr, transport>>
        /\ pc'["control"] = pc["control"] /\ pc["control"] \in {"recv", "exited"}
    BY ReceiveMoves, ReceiveWrites DEF UsbInv
  <1>2. CASE cand' = cand /\ pc'["tcpControl"] # "c_track"
    BY <1>1, <1>2, UsbKept, ReceiveMoves
  <1>3. CASE Connect("tcpControl", "uread", "uread", Loopback)
    <2>1. CASE Admitted("tcpControl" = "tcpControl", Loopback)
      <3>1. cand'["tcpControl"] = Loopback
        BY <1>3, <2>1 DEF Connect, TypeOK, ThreadType
      <3> QED BY <1>1, <3>1 DEF UsbInv
    <2>2. CASE ~Admitted("tcpControl" = "tcpControl", Loopback)
      BY <1>2, <1>3, <2>2 DEF Connect
    <2> QED BY <2>1, <2>2
  <1>4. CASE Quit("tcpControl", "recv", "exited") \/ Quit("tcpControl", "uread", "uclose")
             \/ TcpRecordEnds("uowner") \/ TcpRecordEnds("uclose")
    BY <1>2, <1>4 DEF Quit, TcpRecordEnds
  <1>5. CASE TcpAccept \/ TcpClose
    BY <1>2, <1>5 DEF TcpAccept, TcpClose
  <1>6. CASE TcpOwnerEnds("uowner", "uclose")
    BY <1>2, <1>6 DEF TcpOwnerEnds
  <1>7. CASE TcpOwnerEnds("ulast", "recv")
    BY <1>2, <1>7 DEF TcpOwnerEnds
  <1> QED BY <1>3, <1>4, <1>5, <1>6, <1>7 DEF TcpControlThread

LEMMA NextUsb ==
  ASSUME TypeOK, StopInv, UsbInv, [Next]_vars
  PROVE  UsbInv'
  <1> USE Members
  <1>1. CASE transport # "usb_adb"
    <2>1. transport' = transport
      BY ConnectWrites, DisconnectWrites, ReceiveWrites, FrameWrites, AppWrites, StopWrites
         DEF Next, vars, own, bounds
    <2> QED BY <1>1, <2>1 DEF UsbInv
  <1>2. CASE transport = "usb_adb"
    <2>0. pc["control"] \in {"recv", "exited"}
      BY <1>2 DEF UsbInv
    <2>1. ASSUME NEW t \in {"control", "tcpControl"}, ConnectStep(t)
          PROVE  UsbInv'
      BY <1>2, <2>1, UsbThreads, ConnectUsb
    <2>2. ASSUME NEW t \in Handlers, DisconnectStep(t)
          PROVE  UsbInv'
      <3>1. t \in {"tcpControl", "app"} /\ \A u \in Threads \ {t} : pc'[u] = pc[u]
        BY <1>2, <2>2, UsbThreads, DisconnectMoves
      <3>2. \/ pc'["tcpControl"] = pc["tcpControl"]
            \/ pc'["tcpControl"] \notin {"c_track", "c_client"}
        BY <2>2, <3>1, DisconnectMoves DEF Exclusive, Ending, Plain
      <3> QED BY <1>2, <2>0, <2>2, <3>1, <3>2, DisconnectWrites, UsbKept
    <2>3. CASE ControlThread
      BY <1>2, <2>3, UsbThreads, ReceiveMoves, ReceiveWrites, UsbKept
    <2>4. CASE TcpControlThread
      BY <1>2, <2>4, TcpUsb
    <2>5. CASE TcpVideoThread
      BY <1>2, <2>0, <2>5, ReceiveMoves, ReceiveWrites, UsbKept DEF conn
    <2>6. CASE EncodeThread \/ EncodeCallback \/ VideoSend \/ VideoSendEnds
               \/ BroadcastEnds \/ Environment
      BY <1>2, <2>0, <2>6, FrameWrites, FrameMoves, UsbKept
    <2>7. CASE App
      BY <1>2, <2>0, <2>7, AppWrites, AppMoves, UsbKept DEF conn, AppPcs
    <2>8. CASE Stop
      BY <1>2, <2>0, <2>8, StopWrites, AppMoves, UsbKept
    <2>9. CASE UNCHANGED vars
      BY <2>9 DEF vars, data, conn, own, locals, bounds, UsbInv
    <2> QED BY <1>2, <2>1, <2>2, <2>3, <2>4, <2>5, <2>6, <2>7, <2>8, <2>9 DEF Next
  <1> QED BY <1>1, <1>2

\* Until a client is silent the watchdog takes no disconnect.
LEMMA NextWatchdog ==
  ASSUME TypeOK, StopInv, WatchdogInv, [Next]_vars
  PROVE  WatchdogInv'
  <1> USE Members DEF Exclusive, Ending
  <1> SUFFICES ASSUME silences' = 0
               PROVE  activity' # "stale" /\ pc'["app"] \notin Exclusive \cup {"d_lock"}
    BY DEF WatchdogInv
  <1>1. silences = 0 \/ ClientSilent
    BY ConnectWrites, DisconnectWrites, ReceiveWrites, FrameWrites, AppWrites, StopWrites
       DEF Next, vars, own, bounds, Environment, ClientTracks
  <1>2. silences = 0 /\ ~ClientSilent
    BY <1>1 DEF ClientSilent, TypeOK, BoundType
  <1>3. activity # "stale" /\ pc["app"] \notin Exclusive \cup {"d_lock"}
    BY <1>2 DEF WatchdogInv
  <1>4. ASSUME NEW t \in {"control", "tcpControl"}, ConnectStep(t)
        PROVE  activity' # "stale" /\ pc'["app"] = pc["app"]
    BY <1>3, <1>4, ConnectMoves DEF conn, work, sync, data, own,
       ConnectStep, ConnectTrack, ConnectClient, ConnectDispatch,
       ConnectState, ConnectSeed, JoinBegin, JoinEnd, ConnectRunning, ConnectEncoder,
       ConnectDrain,
       ConnectBuild, ConnectInit, ConnectFail, ConnectIdle, ConnectRestart
  <1>5. ASSUME NEW t \in Handlers, DisconnectStep(t)
        PROVE  activity' # "stale" /\ pc'["app"] = pc["app"]
    BY <1>3, <1>5, DisconnectMoves, DisconnectWrites
  <1>6. CASE ControlThread \/ TcpControlThread \/ TcpVideoThread
    BY <1>3, <1>6, ReceiveMoves, ReceiveWrites DEF conn
  <1>7. CASE EncodeThread \/ EncodeCallback \/ VideoSend \/ VideoSendEnds
             \/ BroadcastEnds \/ Environment
    BY <1>2, <1>3, <1>7, FrameMoves, FrameWrites DEF Environment, ClientTracks
  <1>8. CASE App
    <2>1. activity' = activity /\ pc'["app"] # "d_lock"
      BY <1>3, <1>8, Goes DEF App, EndFrame, CheckClientLiveness, SendFrameState,
         SendFrameEncoder,
         SendFramePush, data, conn, own
    <2> QED BY <1>3, <1>8, <2>1, AppMoves DEF AppPcs
  <1>9. CASE Stop
    BY <1>3, <1>9, AppMoves, StopWrites DEF StopPcs, Later
  <1>10. CASE UNCHANGED vars
    BY <1>3, <1>10 DEF vars, data, conn
  <1> QED BY <1>3, <1>4, <1>5, <1>6, <1>7, <1>8, <1>9, <1>10 DEF Next

LEMMA Steady ==
  ASSUME [Next]_vars, TypeOK, StopInv
  PROVE  transport' = transport /\ (running' => running) /\ (silences' = 0 => silences = 0)
  <1>1. transport' = transport
    BY ConnectWrites, DisconnectWrites, ReceiveWrites, FrameWrites, AppWrites, StopWrites
       DEF Next, vars, own, bounds
  <1>2. running' = running \/ running' = FALSE
    BY ConnectWrites, DisconnectWrites, ReceiveWrites, FrameWrites, AppWrites, StopWrites
       DEF Next, vars, data, conn
  <1>3. silences' = silences \/ silences' = silences + 1
    BY ConnectWrites, DisconnectWrites, ReceiveWrites, FrameWrites, AppWrites, StopWrites
       DEF Next, vars, own, bounds, Environment, ClientSilent, ClientTracks
  <1>4. silences \in Nat
    BY DEF TypeOK, BoundType
  <1> QED BY <1>1, <1>2, <1>3, <1>4

LEMMA OneTransport ==
  ASSUME TypeOK, transport # "auto"
  PROVE  transport \in {"wifi", "usb_adb"}
  BY TransportAssumption DEF TypeOK, BoundType

LEMMA NextTakeover ==
  ASSUME TypeOK, StopInv, WifiInv, UsbInv, transport # "auto", [Next]_vars,
         state = "Connected", clientIp # NoAddr
  PROVE  clientIp' \in {clientIp, NoAddr}
  <1> USE Members
  <1>1. CASE transport = "usb_adb"
    <2>1. UsbInv' /\ transport' = transport
      BY NextUsb, Steady
    <2> QED BY <1>1, <2>1 DEF UsbInv
  <1>2. CASE transport = "wifi"
    <2>1. ASSUME ConnectStep("control")
          PROVE  clientIp' \in {clientIp, NoAddr}
      <3>1. CASE ConnectClient("control")
        BY <1>2, <3>1, Goes DEF ConnectClient, WifiInv
      <3>2. CASE ~ConnectClient("control")
        BY <2>1, <3>2, ConnectStill DEF conn, work, sync, data, own, ConnectStep, ConnectWaits,
           ConnectTrack, ConnectDispatch, ConnectState, ConnectSeed, JoinEnd, ConnectIdle,
           ConnectRestart
      <3> QED BY <3>1, <3>2
    <2> QED BY <1>2, <2>1, WifiThreads, DisconnectWrites, ReceiveWrites, FrameWrites, AppWrites,
               StopWrites DEF Next, vars, data, conn
  <1> QED BY <1>1, <1>2, OneTransport

\* A step that neither joins nor resumes the beacon keeps what is known of it.
LEMMA BeaconKept ==
  ASSUME BeaconInv, transport = "wifi", running, UNCHANGED <<state, bthread>>,
         \A t \in {"control", "app"} :
            /\ pc'[t] \in Joined => pc[t] \in Joined
            /\ pc'[t] \in Ending => pc[t] \in Ending
            /\ pc'[t] = "d_restart" => pc[t] = "d_restart"
            /\ Restarting(t) => Restarting(t)'
  PROVE  BeaconInv'
  BY DEF BeaconInv

LEMMA ConnectBeacon ==
  ASSUME TypeOK, BeaconInv, transport = "wifi", running, ConnectStep("control")
  PROVE  BeaconInv'
  <1> USE DEF conn, video, coder, frames, locks, locals, bounds, own, work, sync, data
  <1>1. "control" \in Handlers /\ "control" \in Threads /\ "app" \in Threads \ {"control"}
    BY DEF Handlers, Threads
  <1>2. transport' = transport /\ prev' = prev /\ running' = running /\ pc'["app"] = pc["app"]
    BY <1>1, ConnectWrites, ConnectMoves
  <1>3. state \in {"Broadcasting", "Connected"} /\ bthread \in {"none", "running", "exited"}
    BY DEF TypeOK, ConnType, SyncType, States, BeaconInv
  <1>4. ASSUME pc["control"] \notin Joined \cup Ending, pc'["control"] \notin Joined \cup Ending,
               UNCHANGED <<state, bthread>>
        PROVE  BeaconInv'
    BY <1>2, <1>4, BeaconKept DEF Restarting, Joined, Ending
  <1>5. CASE ConnectTrack("control") \/ ConnectClient("control")
    <2>1. pc["control"] \in {"c_track", "c_client"} /\ pc'["control"] \in {"c_client",
         "c_dispatch"}
          /\ UNCHANGED <<state, bthread>>
      BY <1>1, <1>5, Goes DEF ConnectTrack, ConnectClient
    <2> QED BY <1>4, <2>1 DEF Joined, Ending
  <1>6. CASE ConnectDispatch("control") \/ ConnectSeed("control")
    <2>1. pc["control"] \in {"c_dispatch", "c_seed"} /\ pc'["control"] \in {"c_state", "c_join"}
          /\ UNCHANGED <<state, bthread>>
      BY <1>1, <1>6, Goes DEF ConnectDispatch, ConnectSeed
    <2> QED BY <1>4, <2>1 DEF Joined, Ending
  <1>7. CASE ConnectState("control")
    BY <1>1, <1>2, <1>7, Goes DEF ConnectState, BeaconInv, Joined, Ending
  <1>8. CASE JoinEnd("control", "c_wait", "c_run")
    <2>1. pc["control"] = "c_wait" /\ pc'["control"] = "c_run" /\ bthread # "running"
          /\ bthread' = "none" /\ state' = state
      BY <1>1, <1>8, Goes DEF JoinEnd
    <2> QED BY <1>2, <1>3, <2>1 DEF BeaconInv, Restarting, Joined, Ending
  <1>9. CASE ConnectWaits("control")
    <2>1. /\ UNCHANGED <<state, bthread>>
          /\ pc["control"] \in {"c_join", "c_run", "c_enc", "c_drain", "c_build", "c_init",
               "c_fail"}
          /\ IF pc["control"] = "c_join" THEN pc'["control"] = "c_wait"
               ELSE pc'["control"] \in Plain \cup
                      {"c_enc", "c_drain", "c_build", "c_init", "c_fail", "c_idle"}
      BY <1>9, ConnectStill
    <2> QED BY <1>2, <2>1, BeaconKept DEF Restarting, Joined, Ending, Plain
  <1>10. CASE ConnectIdle("control")
    <2>1. pc["control"] = "c_idle" /\ pc'["control"] = "c_restart" /\ state' = "Broadcasting"
          /\ bthread' = bthread
      BY <1>1, <1>10, Goes DEF ConnectIdle
    <2> QED BY <1>2, <1>3, <2>1 DEF BeaconInv, Restarting, Joined, Ending
  <1>11. CASE ConnectRestart("control")
    <2>1. pc["control"] = "c_restart" /\ pc'["control"] \in Plain /\ state' = state
          /\ StartBroadcast
      BY <1>1, <1>11, Returns DEF ConnectRestart
    <2>2. bthread = "none" \/ (bthread = "running" /\ state = "Broadcasting")
      BY <2>1 DEF BeaconInv, Joined
    <2>3. state = "Broadcasting" => bthread' = "running"
      BY <2>1, <2>2 DEF StartBroadcast, CanBroadcast, WifiEnabled
    <2>4. bthread' # "exited"
      BY <2>1, <2>2 DEF StartBroadcast
    <2> QED BY <1>2, <1>3, <2>1, <2>3, <2>4 DEF BeaconInv, Restarting, Joined, Ending, Plain
  <1> QED BY <1>5, <1>6, <1>7, <1>8, <1>9, <1>10, <1>11 DEF ConnectStep, ConnectWaits

LEMMA DisconnectBeacon ==
  ASSUME TypeOK, DiscInv, BeaconInv, transport = "wifi", running,
         NEW t \in {"control", "app"}, DisconnectStep(t)
  PROVE  BeaconInv'
  <1> USE DEF conn, video, coder, frames, locks, locals, bounds, own, work, sync, data
  <1>1. /\ t \in Handlers /\ t \in Threads /\ "control" \in Threads /\ "app" \in Threads
        /\ prev \in [Handlers -> States]
    BY DEF Handlers, Threads, TypeOK, ThreadType
  <1>2. transport' = transport /\ running' = running
        /\ \A u \in {"control", "app"} \ {t} : pc'[u] = pc[u]
    BY <1>1, DisconnectWrites, DisconnectMoves
  <1>3. state \in {"Broadcasting", "Connected"} /\ bthread \in {"none", "running", "exited"}
    BY DEF TypeOK, ConnType, SyncType, States, BeaconInv
  <1>4. ASSUME UNCHANGED <<state, bthread, prev>>, pc'[t] \notin Joined,
               pc[t] # "c_restart", pc'[t] # "d_restart",
               pc'[t] \in Ending <=> pc[t] \in Ending
        PROVE  BeaconInv'
    <2>1. \A u \in {"control", "app"} :
            /\ pc'[u] \in Joined => pc[u] \in Joined
            /\ pc'[u] \in Ending => pc[u] \in Ending
            /\ pc'[u] = "d_restart" => pc[u] = "d_restart"
            /\ Restarting(u) => Restarting(u)'
      BY <1>2, <1>4 DEF Restarting
    <2> QED BY <2>1, <1>4, BeaconKept
  <1>5. ASSUME UNCHANGED <<state, bthread>>, DisconnectLeaves(t), pc'[t] \in Plain,
               pc[t] # "c_restart", prev[t] # "Connected"
        PROVE  BeaconInv'
    <2>1. \A u \in {"control", "app"} \ {t} : prev'[u] = prev[u]
      BY <1>1, <1>5 DEF DisconnectLeaves
    <2>2. \A u \in {"control", "app"} :
            /\ pc'[u] \in Joined => pc[u] \in Joined
            /\ pc'[u] \in Ending => pc[u] \in Ending
            /\ pc'[u] = "d_restart" => pc[u] = "d_restart"
            /\ Restarting(u) => Restarting(u)'
      BY <1>2, <1>5, <2>1 DEF Restarting, Joined, Ending, Plain
    <2> QED BY <2>2, <1>5, BeaconKept
  <1>6. CASE DisconnectLock(t)
    <2>1. pc[t] = "d_lock" /\ pc'[t] \in {"d_state"} \cup Plain /\ UNCHANGED <<state, bthread,
                                                                               prev>>
      BY <1>1, <1>6, Goes, Returns DEF DisconnectLock
    <2> QED BY <1>4, <2>1 DEF Joined, Ending, Plain
  <1>7. CASE DisconnectState(t)
    <2>1. pc[t] = "d_state" /\ pc'[t] = "d_client" /\ state' = "Broadcasting"
          /\ bthread' = bthread /\ prev'[t] = state /\ \A u \in {"control", "app"} \ {t} : prev'[u] = prev[u]
      BY <1>1, <1>7, Goes DEF DisconnectState
    <2>2. pc["app"] = "d_restart" => t = "app"
      BY <2>1, Members DEF DiscInv, Exclusive, Ending
    <2>3. pc'["app"] # "d_restart"
      BY <1>2, <2>1, <2>2
    <2>4. bthread # "running" => Restarting("control")' \/ Restarting("app")'
      <3>1. CASE state = "Connected"
        BY <2>1, <3>1 DEF Restarting, Ending
      <3>2. CASE state = "Broadcasting"
        BY <1>2, <2>1, <3>2 DEF BeaconInv, Restarting, Ending
      <3> QED BY <1>3, <3>1, <3>2
    <2>5. pc'["control"] \in Joined => pc["control"] \in Joined
      BY <1>2, <2>1 DEF Joined
    <2>6. pc'["control"] = "d_restart" => pc["control"] = "d_restart"
      BY <1>2, <2>1
    <2> QED BY <1>2, <2>1, <2>3, <2>4, <2>5, <2>6 DEF BeaconInv
  <1>8. CASE DisconnectClient(t)
    <2>1. pc[t] = "d_client" /\ UNCHANGED <<state, bthread>>
      BY <1>1, <1>8, Goes, Returns DEF DisconnectClient
    <2>2. \/ pc'[t] = "d_track" /\ prev' = prev
          \/ pc'[t] \in Plain /\ DisconnectLeaves(t) /\ prev[t] # "Connected"
      BY <1>1, <1>8, Goes, Returns DEF DisconnectClient
    <2> QED BY <1>4, <1>5, <2>1, <2>2 DEF Joined, Ending
  <1>9. CASE DisconnectSkip(t)
    BY <1>1, <1>5, <1>9, Returns DEF DisconnectSkip
  <1>10. CASE DisconnectTrack(t) \/ DisconnectAccess(t) \/ DisconnectTcp(t) \/ DisconnectQueues(t)
    <2>1. /\ pc[t] \in {"d_track", "d_inval", "d_tcp", "d_queue"}
          /\ pc'[t] \in {"d_inval", "d_dispatch", "d_queue", "d_enc"}
          /\ UNCHANGED <<state, bthread, prev>>
      BY <1>1, <1>10, Goes DEF DisconnectTrack, DisconnectAccess, DisconnectTcp, DisconnectQueues
    <2> QED BY <1>4, <2>1 DEF Joined, Ending
  <1>11. CASE DisconnectDispatch(t) \/ DisconnectEncoder(t) \/ DisconnectDrain(t)
              \/ JoinBegin(t, "d_join", "d_wait")
    <2>1. /\ pc[t] \in {"d_dispatch", "d_enc", "d_drain", "d_join"}
          /\ pc'[t] \in {"d_tcp", "d_queue", "d_drain", "d_join", "d_wait"}
          /\ UNCHANGED <<state, bthread, prev>>
      BY <1>1, <1>11, Goes DEF DisconnectDispatch, DisconnectEncoder, DisconnectDrain, JoinBegin
    <2> QED BY <1>4, <2>1 DEF Joined, Ending
  <1>12. CASE JoinEnd(t, "d_wait", "d_restart")
    <2>1. pc[t] = "d_wait" /\ pc'[t] = "d_restart" /\ bthread # "running" /\ bthread' = "none"
          /\ UNCHANGED <<state, prev>>
      BY <1>1, <1>12, Goes DEF JoinEnd
    <2>2. \A u \in {"control", "app"} : Restarting(u) => Restarting(u)'
      BY <1>2, <2>1 DEF Restarting, Ending
    <2>3. pc'["control"] \in Joined => pc["control"] \in Joined
      BY <1>2, <2>1 DEF Joined
    <2>4. pc'["control"] \in Ending => pc["control"] \in Ending
      BY <1>2, <2>1 DEF Ending
    <2> QED BY <1>2, <1>3, <2>1, <2>2, <2>3, <2>4 DEF BeaconInv
  <1>13. CASE DisconnectRestart(t)
    <2>1. pc[t] = "d_restart" /\ pc'[t] \in Plain /\ state' = state /\ StartBroadcast
          /\ DisconnectLeaves(t)
      BY <1>1, <1>13, Returns DEF DisconnectRestart
    <2>2. state = "Broadcasting" => bthread # "exited"
      BY <2>1 DEF BeaconInv
    <2>3. state = "Broadcasting" => bthread' = "running"
      BY <1>3, <2>1, <2>2 DEF StartBroadcast, CanBroadcast, WifiEnabled
    <2>4. state # "Broadcasting" => bthread' = bthread /\ t = "app"
      BY <2>1 DEF StartBroadcast, CanBroadcast, BeaconInv, Ending
    <2>5. pc'["control"] \in Joined => pc["control"] \in Joined
      BY <1>2, <2>1 DEF Joined, Plain
    <2>6. pc'["control"] \in Ending => pc["control"] \in Ending /\ t = "app"
      BY <1>2, <2>1 DEF Ending, Plain
    <2>7. pc'["app"] = "d_restart" => t = "control"
      BY <2>1 DEF Plain
    <2>8. CASE state = "Broadcasting"
      BY <1>2, <2>1, <2>3, <2>8, <2>6 DEF BeaconInv
    <2>9. CASE state # "Broadcasting"
      BY <1>2, <1>3, <2>1, <2>4, <2>5, <2>6, <2>7, <2>9 DEF BeaconInv
    <2> QED BY <2>8, <2>9
  <1> QED BY <1>6, <1>7, <1>8, <1>9, <1>10, <1>11, <1>12, <1>13 DEF DisconnectStep

LEMMA NextBeacon ==
  ASSUME TypeOK, StopInv, DiscInv, WifiInv, BeaconInv, [Next]_vars
  PROVE  BeaconInv'
  <1> USE Members
  <1> SUFFICES ASSUME transport = "wifi", running
               PROVE  BeaconInv'
    BY Steady DEF BeaconInv
  <1>1. ASSUME NEW t \in {"control", "tcpControl"}, ConnectStep(t)
        PROVE  BeaconInv'
    BY <1>1, WifiThreads, ConnectBeacon
  <1>2. ASSUME NEW t \in Handlers, DisconnectStep(t)
        PROVE  BeaconInv'
    BY <1>2, WifiThreads, DisconnectBeacon
  <1>3. CASE ControlThread
    <2>1. UNCHANGED <<state, bthread, prev>> /\ pc'["app"] = pc["app"]
          /\ pc["control"] \in {"recv", "honor"}
          /\ pc'["control"] \in {"recv", "exited", "honor", "c_track", "d_lock"}
      BY <1>3, ReceiveMoves, ReceiveWrites
    <2> QED BY <2>1, BeaconKept DEF Restarting, Joined, Ending
  <1>4. CASE BroadcastEnds
    <2>1. bthread = "running" /\ bthread' = "exited" /\ state # "Broadcasting"
          /\ UNCHANGED <<state, prev, pc, running, transport>>
      BY <1>4 DEF BroadcastEnds, BroadcastSees, conn, own, locals, bounds
    <2>2. state = "Connected"
      BY <2>1 DEF BeaconInv, TypeOK, ConnType, States
    <2>3. pc["control"] \notin Joined \cup Ending
      BY <2>1, <2>2 DEF BeaconInv
    <2> QED BY <2>1, <2>2, <2>3 DEF BeaconInv, Ending
  <1>5. CASE EncodeThread \/ EncodeCallback \/ VideoSend \/ VideoSendEnds \/ Environment
    <2>1. UNCHANGED <<state, prev,
                      bthread>> /\ pc'["app"] = pc["app"] /\ pc'["control"] = pc["control"]
      BY <1>5, FrameMoves, FrameWrites DEF BroadcastEnds, EncodeThread, EncodeWakes, Quit,
         EncodePop,
         EncodeSnapshot, EncodeSubmit, EncodeCallback, VideoSend, VideoSendEnds, Environment,
         ClientSilent, ClientTracks, sync, data
    <2> QED BY <2>1, BeaconKept DEF Restarting
  <1>6. CASE App
    <2>1. UNCHANGED <<state, prev, bthread>> /\ pc'["control"] = pc["control"]
          /\ pc["app"] \in AppPcs /\ pc'["app"] \in AppPcs \cup {"d_lock"}
      BY <1>6, AppMoves, AppWrites DEF conn
    <2> QED BY <2>1, BeaconKept DEF Restarting, AppPcs, Joined, Ending
  <1>7. CASE Stop
    <2>1. CASE running'
      <3>1. UNCHANGED <<state, prev, bthread>> /\ pc'["control"] = pc["control"]
            /\ pc["app"] \in StopPcs /\ pc'["app"] \in StopPcs
        BY <1>7, <2>1, AppMoves, StopWrites DEF conn
      <3> QED BY <3>1, BeaconKept DEF Restarting, StopPcs, Later, Joined, Ending
    <2>2. CASE ~running'
      BY <2>2 DEF BeaconInv
    <2> QED BY <2>1, <2>2
  <1>8. CASE UNCHANGED vars
    BY <1>8 DEF vars, data, conn, sync, own, locals, bounds, BeaconInv, Restarting
  <1> QED BY <1>1, <1>2, <1>3, <1>4, <1>5, <1>6, <1>7, <1>8, WifiThreads DEF Next

\* The one connect handler is alone: it runs every connect and every disconnect.
LEMMA ConnectorAlone ==
  ASSUME TypeOK, WifiInv, UsbInv, WatchdogInv, Single
  PROVE  /\ Connector \in {"control", "tcpControl"}
         /\ \A t \in {"control", "tcpControl"} : ConnectStep(t) => t = Connector
         /\ \A t \in Handlers : DisconnectStep(t) => t = Connector
         /\ transport = "wifi" => Connector = "control"
         /\ transport = "usb_adb" => Connector = "tcpControl"
  <1>1. transport \in {"wifi", "usb_adb"}
    BY OneTransport DEF Single
  <1>2. ~DisconnectStep("app")
    BY DisconnectMoves, Members DEF WatchdogInv, Single
  <1> QED BY <1>1, <1>2, WifiThreads, UsbThreads DEF Connector

LEMMA ServedKept ==
  ASSUME ServedInv, Single, Connector' = Connector,
         UNCHANGED <<encoder, live, access, valid>>,
         state' = "Connected" => state = "Connected",
         pc'["app"] = "s_running" \/ pc["app"] # "s_running",
         pc'[Connector] \in Ending \cup {"c_restart"} =>
           pc[Connector] \in Ending \cup {"c_restart"},
         pc[Connector] \in Building => pc'[Connector] \in Building,
         pc'[Connector] = "c_init" => pc[Connector] = "c_init"
  PROVE  ServedInv'
  <1>1. CASE pc'["app"] = "s_running"
    BY <1>1 DEF ServedInv
  <1>2. CASE pc'["app"] # "s_running"
    BY <1>2 DEF ServedInv, Served
  <1> QED BY <1>1, <1>2

LEMMA ConnectServed ==
  ASSUME TypeOK, AccessInv, ServedInv, Single,
         NEW t \in {"control", "tcpControl"}, t = Connector, ConnectStep(t)
  PROVE  ServedInv'
  <1> USE DEF conn, video, coder, frames, locks, locals, bounds, own, work, sync, data
  <1>1. t \in Handlers /\ t \in Threads /\ "app" \in Threads \ {t}
    BY DEF Handlers, Threads
  <1>2. Connector' = Connector /\ pc'["app"] = pc["app"] /\ running
    BY <1>1, ConnectWrites, ConnectMoves DEF Connector, Single
  <1>3. ASSUME UNCHANGED <<state, encoder, live, access, valid>>,
               pc'[t] \notin Ending \cup {"c_restart", "c_init"},
               pc[t] \in Building => pc'[t] \in Building
        PROVE  ServedInv'
    BY <1>2, <1>3, ServedKept
  <1>4. ASSUME pc'[t] \in Building \ {"c_restart", "c_init"}
        PROVE  ServedInv'
    BY <1>2, <1>4 DEF ServedInv, Building, Joined, Ending
  <1>5. CASE ConnectTrack(t) \/ ConnectClient(t) \/ ConnectDispatch(t)
    <2>1. /\ pc[t] \in {"c_track", "c_client", "c_dispatch"}
          /\ pc'[t] \in {"c_client", "c_dispatch", "c_state"}
          /\ UNCHANGED <<state, encoder, live, access, valid>>
      BY <1>1, <1>5, Goes DEF ConnectTrack, ConnectClient, ConnectDispatch
    <2> QED BY <1>3, <2>1 DEF Ending, Building, Joined
  <1>6. CASE ConnectState(t) \/ ConnectSeed(t) \/ JoinBegin(t, "c_join", "c_wait")
    <2>1. pc'[t] \in {"c_seed", "c_join", "c_wait"}
      BY <1>1, <1>6, Goes DEF ConnectState, ConnectSeed, JoinBegin
    <2> QED BY <1>4, <2>1 DEF Building, Joined
  <1>7. CASE JoinEnd(t, "c_wait", "c_run") \/ ConnectRunning(t)
    <2>1. pc'[t] \in {"c_run", "c_enc"}
      BY <1>1, <1>2, <1>7, Goes DEF JoinEnd, ConnectRunning
    <2> QED BY <1>4, <2>1 DEF Building, Joined
  <1>8. CASE ConnectEncoder(t) \/ ConnectDrain(t) \/ ConnectFail(t)
    <2>1. pc'[t] \in {"c_drain", "c_build", "c_fail", "c_idle"}
      BY <1>1, <1>8, Goes DEF ConnectEncoder, ConnectDrain, ConnectFail
    <2> QED BY <1>4, <2>1 DEF Building, Joined
  <1>9. CASE ConnectBuild(t)
    <2>1. CASE pc'[t] = "c_fail"
      BY <1>4, <2>1 DEF Building, Joined
    <2>2. CASE pc'[t] # "c_fail"
      <3>1. /\ pc'[t] = "c_init" /\ encoder' = gen + 1 /\ access' = gen + 1
            /\ valid' = (valid \ {access}) \cup {gen + 1}
        BY <1>1, <1>9, <2>2, Goes DEF ConnectBuild
      <3>2. valid' = {gen + 1}
        BY <3>1 DEF AccessInv
      <3>3. encoder' # 0
        BY <3>1 DEF TypeOK, CoderType
      <3> QED BY <1>2, <3>1, <3>2, <3>3 DEF ServedInv, Building, Joined, Ending
    <2> QED BY <2>1, <2>2
  <1>10. CASE ConnectInit(t)
    <2>1. CASE pc'[t] = "c_fail"
      BY <1>4, <2>1 DEF Building, Joined
    <2>2. CASE pc'[t] # "c_fail"
      <3>1. /\ pc[t] = "c_init" /\ pc'[t] \in Plain /\ live' = encoder
            /\ UNCHANGED <<encoder, access, valid>>
        BY <1>1, <1>10, <2>2, Goes, Returns DEF ConnectInit
      <3> QED BY <1>2, <3>1 DEF ServedInv, Served, Plain, Ending
    <2> QED BY <2>1, <2>2
  <1>11. CASE ConnectIdle(t)
    <2>1. pc'[t] = "c_restart" /\ state' = "Broadcasting"
      BY <1>1, <1>11, Goes DEF ConnectIdle
    <2> QED BY <1>2, <2>1 DEF ServedInv
  <1>12. CASE ConnectRestart(t)
    <2>1. pc[t] = "c_restart" /\ pc'[t] \in Plain /\ state' = state
      BY <1>1, <1>12, Returns DEF ConnectRestart
    <2>2. state # "Connected"
      BY <2>1 DEF ServedInv
    <2> QED BY <1>2, <2>1, <2>2 DEF ServedInv, Plain
  <1> QED BY <1>5, <1>6, <1>7, <1>8, <1>9, <1>10, <1>11, <1>12 DEF ConnectStep

\* A disconnect ends the Connected state in its second step.
LEMMA DisconnectEnds ==
  ASSUME TypeOK, ServedInv, Single, NEW t \in Handlers, t = Connector, DisconnectStep(t)
  PROVE  state' # "Connected" \/ DisconnectLock(t)
  <1>1. CASE DisconnectState(t)
    BY <1>1 DEF DisconnectState
  <1>2. CASE pc[t] \in Ending
    BY <1>2, DisconnectWrites DEF ServedInv
  <1>3. pc[t] \in Ending \cup {"d_state", "d_lock"} /\ t \in Threads
    BY DisconnectMoves, Members DEF Exclusive
  <1>4. DisconnectStep(t) /\ pc[t] \in {"d_state",
       "d_lock"} => DisconnectState(t) \/ DisconnectLock(t)
    BY DEF DisconnectStep, Go, Return,
       DisconnectClient, DisconnectTrack, DisconnectAccess, DisconnectDispatch, DisconnectTcp,
       DisconnectQueues, DisconnectEncoder, DisconnectDrain, DisconnectSkip,
       JoinBegin, JoinEnd, DisconnectRestart
  <1> QED BY <1>1, <1>2, <1>3, <1>4

LEMMA NextServed ==
  ASSUME TypeOK, StopInv, AccessInv, WatchdogInv, WifiInv, UsbInv, ServedInv, [Next]_vars
  PROVE  ServedInv'
  <1> USE Members
  <1> SUFFICES ASSUME Single, running'
               PROVE  ServedInv'
    BY Steady DEF ServedInv, Single
  <1>0. Connector' = Connector /\ Connector \in {"control", "tcpControl"}
        /\ (Connector = "control" => "tcpControl" # Connector)
    BY Steady, ConnectorAlone DEF Connector
  <1>1. ASSUME NEW t \in {"control", "tcpControl"}, ConnectStep(t)
        PROVE  ServedInv'
    BY <1>1, ConnectorAlone, ConnectServed
  <1>2. ASSUME NEW t \in Handlers, DisconnectStep(t)
        PROVE  ServedInv'
    <2>1. t = Connector /\ pc'[t] \in Exclusive \cup Plain
      BY <1>2, ConnectorAlone, DisconnectMoves
    <2>2. CASE state' # "Connected"
      BY <1>0, <2>1, <2>2 DEF ServedInv, Exclusive, Ending, Plain
    <2>3. CASE DisconnectLock(t)
      <3>1. /\ pc[t] = "d_lock" /\ pc'[t] \in {"d_state"} \cup Plain
            /\ UNCHANGED <<state, encoder, live, access, valid>> /\ pc'["app"] = pc["app"]
        BY <1>0, <1>2, <2>1, <2>3, Goes, Returns, DisconnectMoves DEF DisconnectLock, conn, work,
           coder
      <3> QED BY <1>0, <2>1, <3>1, ServedKept DEF Building, Joined, Ending, Plain
    <2> QED BY <1>2, <2>1, <2>2, <2>3, DisconnectEnds
  <1>3. CASE ControlThread \/ TcpControlThread
    <2>1. UNCHANGED <<state, encoder, live, access, valid>> /\ pc'["app"] = pc["app"]
      BY <1>3, ReceiveMoves, ReceiveWrites DEF coder
    <2>2. \/ pc'[Connector] = pc[Connector]
          \/ /\ pc[Connector] \in {"recv", "honor", "uread", "uowner", "uclose", "ulast"}
             /\ pc'[Connector] \in {"recv", "exited", "honor", "uread", "uowner", "uclose",
                  "ulast",
                                    "c_track", "d_lock"}
      BY <1>0, <1>3, ReceiveMoves
    <2> QED BY <1>0, <2>1, <2>2, ServedKept DEF Building, Joined, Ending
  <1>4. CASE TcpVideoThread
    BY <1>0, <1>4, ReceiveMoves, ReceiveWrites, ServedKept DEF conn, coder
  <1>5. CASE EncodeThread \/ EncodeCallback \/ VideoSend \/ VideoSendEnds
             \/ BroadcastEnds \/ Environment
    BY <1>0, <1>5, FrameMoves, FrameWrites, ServedKept DEF coder
  <1>6. CASE App
    BY <1>0, <1>6, AppMoves, AppWrites, ServedKept DEF conn, coder, AppPcs
  <1>7. CASE Stop
    <2>1. state' = state /\ pc'["app"] = "s_running" /\ pc'[Connector] = pc[Connector]
      BY <1>0, <1>7, AppMoves, StopWrites DEF conn
    <2> QED BY <1>0, <2>1 DEF ServedInv
  <1>8. CASE UNCHANGED vars
    BY <1>0, <1>8, ServedKept DEF vars, data, conn, work, coder
  <1> QED BY <1>1, <1>2, <1>3, <1>4, <1>5, <1>6, <1>7, <1>8 DEF Next

LEMMA WifiRouteKept ==
  ASSUME WifiRouted, Single, transport = "wifi", UNCHANGED <<clientIp, trackAddr, dispatch>>,
         cand' = cand \/ pc'["control"] \notin {"c_client", "c_dispatch"},
         state' = "Connected" => state = "Connected",
         pc'["control"] \in {"c_client", "c_dispatch",
              "c_state"} => pc'["control"] = pc["control"]
  PROVE  WifiRouted'
  BY DEF WifiRouted, WifiRoute

LEMMA ConnectWifiRoute ==
  ASSUME TypeOK, WifiInv, WifiRouted, Single, transport = "wifi", ConnectStep("control")
  PROVE  WifiRouted'
  <1> USE DEF conn, video, coder, frames, locks, locals, bounds, own, work, sync, data
  <1>1. "control" \in Handlers /\ "control" \in Threads
    BY DEF Handlers, Threads
  <1>2. /\ cand \in [Handlers -> Addr \cup {NoAddr, Loopback}]
        /\ dispatch \in [ip : Addr \cup {NoAddr}, sock : {"none", "udp", "tcp"},
                         tcp : BOOLEAN, accepting : BOOLEAN]
    BY DEF TypeOK, ThreadType, VideoType
  <1>3. CASE ConnectTrack("control")
    <2>1. /\ pc["control"] = "c_track" /\ pc'["control"] = "c_client"
          /\ trackAddr' = cand["control"] /\ UNCHANGED <<state, clientIp, dispatch, cand>>
      BY <1>1, <1>3, Goes DEF ConnectTrack, TrackSource
    <2>2. state = "Connected" => clientIp = cand["control"]
      BY <2>1, AddrAssumption DEF WifiInv, WifiRouted, WifiRoute
    <2> QED BY <2>1, <2>2 DEF WifiRouted, WifiRoute
  <1>4. CASE ConnectClient("control")
    <2>1. /\ pc["control"] = "c_client" /\ pc'["control"] = "c_dispatch"
          /\ clientIp' = cand["control"] /\ UNCHANGED <<state, trackAddr, dispatch, cand>>
      BY <1>1, <1>4, Goes DEF ConnectClient
    <2>2. state = "Connected" => clientIp = cand["control"]
      BY <2>1 DEF WifiRouted, WifiRoute
    <2> QED BY <2>1, <2>2 DEF WifiRouted, WifiRoute
  <1>5. CASE ConnectDispatch("control")
    <2>1. /\ pc["control"] = "c_dispatch" /\ pc'["control"] = "c_state"
          /\ dispatch' = [ip |-> cand["control"], sock |-> "udp", tcp |-> FALSE,
               accepting |-> TRUE]
          /\ UNCHANGED <<state, clientIp, trackAddr>>
      BY <1>1, <1>5, Goes DEF ConnectDispatch
    <2>2. cand["control"] \in Addr /\ trackAddr = cand["control"] /\ clientIp = cand["control"]
      BY <2>1 DEF WifiInv, WifiRouted
    <2> QED BY <2>1, <2>2 DEF WifiRouted, WifiRoute
  <1>6. CASE ConnectState("control")
    <2>1. /\ pc["control"] = "c_state" /\ pc'["control"] = "c_seed"
          /\ UNCHANGED <<clientIp, trackAddr, dispatch>>
      BY <1>1, <1>6, Goes DEF ConnectState
    <2> QED BY <2>1 DEF WifiRouted, WifiRoute
  <1>7. CASE ConnectSeed("control")
    BY <1>1, <1>7, Goes, WifiRouteKept DEF ConnectSeed
  <1>8. CASE JoinEnd("control", "c_wait", "c_run")
    BY <1>1, <1>8, Goes, WifiRouteKept DEF JoinEnd
  <1>9. CASE ConnectIdle("control")
    BY <1>1, <1>9, Goes, WifiRouteKept DEF ConnectIdle
  <1>10. CASE ConnectRestart("control")
    BY <1>1, <1>10, Returns, WifiRouteKept DEF ConnectRestart, Plain
  <1>11. CASE ConnectWaits("control")
    BY <1>11, ConnectStill, WifiRouteKept DEF Plain
  <1> QED BY <1>3, <1>4, <1>5, <1>6, <1>7, <1>8, <1>9, <1>10, <1>11 DEF ConnectStep, ConnectWaits

LEMMA NextWifiRouted ==
  ASSUME TypeOK, StopInv, WatchdogInv, WifiInv, UsbInv, ServedInv, WifiRouted, [Next]_vars
  PROVE  WifiRouted'
  <1> USE Members
  <1> SUFFICES ASSUME Single, transport = "wifi", running'
               PROVE  WifiRouted'
    BY Steady DEF WifiRouted, Single
  <1>1. ASSUME NEW t \in {"control", "tcpControl"}, ConnectStep(t)
        PROVE  WifiRouted'
    BY <1>1, ConnectorAlone, ConnectWifiRoute
  <1>2. ASSUME NEW t \in Handlers, DisconnectStep(t)
        PROVE  WifiRouted'
    <2>1. t = Connector /\ t = "control" /\ pc'["control"] \in Exclusive \cup Plain
      BY <1>2, ConnectorAlone, DisconnectMoves
    <2>2. CASE state' # "Connected"
      BY <2>1, <2>2 DEF WifiRouted, Exclusive, Ending, Plain
    <2>3. CASE DisconnectLock(t)
      BY <2>1, <2>3, DisconnectMoves, WifiRouteKept
         DEF DisconnectLock, conn, work, video, own, locals, Exclusive, Ending, Plain
    <2> QED BY <1>2, <2>1, <2>2, <2>3, DisconnectEnds
  <1>3. CASE ControlThread
    BY <1>3, ReceiveMoves, ReceiveWrites, WifiRouteKept
  <1>4. CASE EncodeThread \/ EncodeCallback \/ VideoSend \/ VideoSendEnds
             \/ BroadcastEnds \/ Environment
    <2>1. dispatch' = dispatch
      BY <1>4, FrameWrites DEF VideoSend, video, WifiInv
    <2> QED BY <1>4, <2>1, FrameMoves, FrameWrites, WifiRouteKept
  <1>5. CASE App
    BY <1>5, AppMoves, AppWrites, WifiRouteKept DEF conn, video
  <1>6. CASE Stop
    BY <1>6, AppMoves, StopWrites, WifiRouteKept DEF conn, video
  <1>7. CASE UNCHANGED vars
    BY <1>7, WifiRouteKept DEF vars, data, conn, work, video, own, locals
  <1> QED BY <1>1, <1>2, <1>3, <1>4, <1>5, <1>6, <1>7, WifiThreads DEF Next

LEMMA UsbRouteKept ==
  ASSUME UsbRouted, Single, transport = "usb_adb",
         UNCHANGED <<clientIp, clientUsb, dispatch, tcpVideo>>,
         pc'["tcpVideo"] = pc["tcpVideo"], state' = "Connected" => state = "Connected",
         pc'["tcpControl"] \in {"c_dispatch", "c_state"} => pc'["tcpControl"] = pc["tcpControl"]
  PROVE  UsbRouted'
  BY DEF UsbRouted, UsbRoute

LEMMA ConnectUsbRoute ==
  ASSUME TypeOK, UsbInv, UsbRouted, Single, transport = "usb_adb", ConnectStep("tcpControl")
  PROVE  UsbRouted'
  <1> USE DEF conn, video, coder, frames, locks, locals, bounds, own, work, sync, data
  <1>1. "tcpControl" \in Handlers /\ "tcpControl" \in Threads
    BY DEF Handlers, Threads
  <1>2. pc'["tcpVideo"] = pc["tcpVideo"] /\ tcpVideo' = tcpVideo
    BY Members, ConnectMoves, ConnectWrites
  <1>3. CASE ConnectTrack("tcpControl")
    BY <1>1, <1>2, <1>3, Goes, UsbRouteKept DEF ConnectTrack
  <1>4. CASE ConnectClient("tcpControl")
    <2>1. /\ pc["tcpControl"] = "c_client" /\ pc'["tcpControl"] = "c_dispatch"
          /\ clientIp' = cand["tcpControl"] /\ clientUsb' = TRUE /\ UNCHANGED <<state, dispatch>>
      BY <1>1, <1>4, Goes DEF ConnectClient
    <2>2. clientIp' = Loopback
      BY <2>1 DEF UsbInv
    <2> QED BY <1>2, <2>1, <2>2 DEF UsbRouted, UsbRoute
  <1>5. CASE ConnectDispatch("tcpControl")
    <2>1. /\ pc["tcpControl"] = "c_dispatch" /\ pc'["tcpControl"] = "c_state"
          /\ dispatch'.tcp = TRUE /\ (tcpVideo = "open" => dispatch'.sock = "tcp")
          /\ UNCHANGED <<state, clientIp, clientUsb>>
      BY <1>1, <1>5, Goes DEF ConnectDispatch
    <2> QED BY <1>2, <2>1 DEF UsbRouted, UsbRoute
  <1>6. CASE ConnectState("tcpControl")
    <2>1. /\ pc["tcpControl"] = "c_state" /\ pc'["tcpControl"] = "c_seed"
          /\ UNCHANGED <<clientIp, clientUsb, dispatch>>
      BY <1>1, <1>6, Goes DEF ConnectState
    <2> QED BY <1>2, <2>1 DEF UsbRouted, UsbRoute
  <1>7. CASE ConnectSeed("tcpControl")
    BY <1>1, <1>2, <1>7, Goes, UsbRouteKept DEF ConnectSeed
  <1>8. CASE JoinEnd("tcpControl", "c_wait", "c_run")
    BY <1>1, <1>2, <1>8, Goes, UsbRouteKept DEF JoinEnd
  <1>9. CASE ConnectIdle("tcpControl")
    <2>1. pc'["tcpControl"] = "c_restart" /\ state' = "Broadcasting"
      BY <1>1, <1>9, Goes DEF ConnectIdle
    <2> QED BY <2>1 DEF UsbRouted
  <1>10. CASE ConnectRestart("tcpControl")
    BY <1>1, <1>2, <1>10, Returns, UsbRouteKept DEF ConnectRestart, Plain
  <1>11. CASE ConnectWaits("tcpControl")
    BY <1>2, <1>11, ConnectStill, UsbRouteKept DEF Plain
  <1> QED BY <1>3, <1>4, <1>5, <1>6, <1>7, <1>8, <1>9, <1>10, <1>11 DEF ConnectStep, ConnectWaits

LEMMA VideoUsbRoute ==
  ASSUME TypeOK, UsbRouted, Single, transport = "usb_adb", running, TcpVideoThread
  PROVE  UsbRouted'
  <1> USE DEF conn, video, coder, frames, locks, locals, bounds, own, work, sync, data
  <1>1. "tcpVideo" \in Threads
    BY DEF Threads
  <1>2. UNCHANGED <<state, clientIp, clientUsb>> /\ pc'["tcpControl"] = pc["tcpControl"]
    BY Members, ReceiveMoves, ReceiveWrites
  <1>3. CASE TcpVideoAccept
    <2>1. pc'["tcpVideo"] = "route"
      BY <1>1, <1>3, Goes DEF TcpVideoAccept
    <2> QED BY <1>2, <2>1 DEF UsbRouted, UsbRoute
  <1>4. CASE TcpVideoRoute
    <2>1. clientUsb => dispatch'.tcp = TRUE /\ dispatch'.sock = "tcp"
      BY <1>4 DEF TcpVideoRoute, TypeOK, VideoType
    <2> QED BY <1>2, <2>1 DEF UsbRouted, UsbRoute
  <1> QED BY <1>3, <1>4 DEF TcpVideoThread, Quit

LEMMA NextUsbRouted ==
  ASSUME TypeOK, StopInv, WatchdogInv, WifiInv, UsbInv, ServedInv, UsbRouted, [Next]_vars
  PROVE  UsbRouted'
  <1> USE Members
  <1> SUFFICES ASSUME Single, transport = "usb_adb", running, running'
               PROVE  UsbRouted'
    BY Steady DEF UsbRouted, Single
  <1>1. ASSUME NEW t \in {"control", "tcpControl"}, ConnectStep(t)
        PROVE  UsbRouted'
    BY <1>1, ConnectorAlone, ConnectUsbRoute
  <1>2. ASSUME NEW t \in Handlers, DisconnectStep(t)
        PROVE  UsbRouted'
    <2>1. t = Connector /\ t = "tcpControl" /\ pc'["tcpControl"] \in Exclusive \cup Plain
          /\ pc'["tcpVideo"] = pc["tcpVideo"]
      BY <1>2, ConnectorAlone, DisconnectMoves
    <2>2. CASE state' # "Connected"
      BY <2>1, <2>2 DEF UsbRouted, Exclusive, Ending, Plain
    <2>3. CASE DisconnectLock(t)
      BY <2>1, <2>3, UsbRouteKept
         DEF DisconnectLock, conn, work, video, own, locals, Exclusive, Ending, Plain
    <2> QED BY <1>2, <2>1, <2>2, <2>3, DisconnectEnds
  <1>3. CASE ControlThread \/ TcpControlThread
    BY <1>3, ReceiveMoves, ReceiveWrites, UsbRouteKept
  <1>4. CASE EncodeThread \/ EncodeCallback \/ VideoSendEnds \/ BroadcastEnds \/ Environment
    <2>1. UNCHANGED <<dispatch, tcpVideo>>
      BY <1>4 DEF EncodeThread, EncodeWakes, Quit, EncodePop, EncodeSnapshot, EncodeSubmit,
         EncodeCallback, VideoSendEnds, BroadcastEnds, Environment, ClientSilent, ClientTracks,
         video, data, work
    <2> QED BY <1>4, <2>1, FrameMoves, FrameWrites, UsbRouteKept
  <1>5. CASE VideoSend
    <2>1. UNCHANGED <<state, clientIp, clientUsb, pc>>
      BY <1>5 DEF VideoSend, conn
    <2>2. UNCHANGED <<dispatch, tcpVideo>> \/ tcpVideo' # "open"
      BY <1>5 DEF VideoSend, video
    <2> QED BY <2>1, <2>2 DEF UsbRouted, UsbRoute
  <1>6. CASE App
    BY <1>6, AppMoves, AppWrites, UsbRouteKept DEF conn, video
  <1>7. CASE Stop
    BY <1>7, AppMoves, StopWrites, UsbRouteKept DEF conn, video
  <1>8. CASE UNCHANGED vars
    BY <1>8, UsbRouteKept DEF vars, data, conn, work, video, own, locals
  <1>9. CASE TcpVideoThread
    BY <1>9, VideoUsbRoute
  <1> QED BY <1>1, <1>2, <1>3, <1>4, <1>5, <1>6, <1>7, <1>8, <1>9 DEF Next

-----------------------------------------------------------------------------
\* Everything together.
SessionInv ==
    /\ TypeOK
    /\ StopInv
    /\ EncoderOwned
    /\ AccessInv
    /\ EndedSessionSilent
    /\ DiscInv
    /\ WifiInv
    /\ UsbInv
    /\ BeaconInv
    /\ WatchdogInv
    /\ ServedInv
    /\ WifiRouted
    /\ UsbRouted

LEMMA InitSession == Init => SessionInv
  <1> SUFFICES ASSUME Init PROVE SessionInv
    OBVIOUS
  <1> USE DEF Init
  <1>1. \A t \in Handlers : pc[t] \in {"recv", "exited", "idle"}
    BY DEF Handlers, Threads
  <1>2. AccessInv /\ EndedSessionSilent
    BY DEF AccessInv, EndedSessionSilent
  <1>3. DiscInv
    BY <1>1 DEF DiscInv, Exclusive, Ending, Free, Handlers
  <1>4. pc["control"] = "recv" /\ pc["app"] = "idle"
    BY DEF Threads, Handlers
  <1>5. WifiInv
    BY <1>4 DEF WifiInv, UsbEnabled, NoDispatch, Threads, Handlers
  <1>6. UsbInv
    BY <1>1, <1>4, Members DEF UsbInv, Handlers
  <1>7. BeaconInv
    BY <1>4 DEF BeaconInv, WifiEnabled, Joined, Ending
  <1>8. WatchdogInv
    BY <1>4 DEF WatchdogInv, Exclusive, Ending
  <1>9. ServedInv /\ WifiRouted /\ UsbRouted
    <2>1. pc["tcpControl"] \in {"recv", "exited"}
      BY <1>1, Members DEF Threads, Handlers
    <2> QED BY <1>4, <2>1 DEF ServedInv, WifiRouted, UsbRouted, Connector, Ending
  <1> QED BY <1>2, <1>3, <1>5, <1>6, <1>7, <1>8, <1>9, InitType, InitQuiet,
       InitOwned DEF SessionInv

LEMMA NextSession == SessionInv /\ [Next]_vars => SessionInv'
  BY NextType, NextQuiet, NextSafe, NextAccess, NextSilent, NextDisc, NextWifi, NextUsb,
     NextBeacon,
     NextWatchdog, NextServed, NextWifiRouted, NextUsbRouted DEF SessionInv, Safe

LEMMA SessionInvariant == Spec => []SessionInv
  BY InitSession, NextSession, PTL DEF Spec

\* Once a disconnect has cleared the send queue nothing of the session it ended
\* is queued again (HandleClientDisconnect, InvalidateCallbackAccess), on every
\* transport and whichever handlers interleave.
THEOREM EndedIsSilent == Spec => []EndedSessionSilent
  <1>1. SessionInv => EndedSessionSilent
    BY DEF SessionInv
  <1> QED BY <1>1, SessionInvariant, PTL

\* With one transport, an ended session leaves the server discoverable and
\* sends nothing more, whichever handler ended it, the liveness watchdog
\* included (HandleClientDisconnect, the failure path of the connect handlers).
THEOREM SessionsEnd == "auto" \notin Transports => (Spec => []SessionEnds)
  <1> SUFFICES ASSUME "auto" \notin Transports PROVE Spec => []SessionEnds
    OBVIOUS
  <1>1. SessionInv => SessionEnds
    <2> SUFFICES ASSUME SessionInv, Settled, state = "Broadcasting", WifiEnabled
                 PROVE  bthread = "running"
      BY DEF SessionEnds, DiscoveryResumes, SessionInv
    <2>1. transport = "wifi"
      BY OneTransport DEF SessionInv, WifiEnabled, TypeOK, BoundType
    <2>2. ~Restarting("control") /\ ~Restarting("app")
      BY DEF Settled, Restarting, Ending
    <2> QED BY <2>1, <2>2 DEF SessionInv, BeaconInv, Settled
  <1> QED BY <1>1, SessionInvariant, PTL

\* With one transport, no step replaces the identity of a connected client by
\* another's (EvaluateClientAdmission; comments at StreamingServer.cpp:1727
\* and :1996), although admission and the record are separate steps.
THEOREM NoClientTakenOver == "auto" \notin Transports => (Spec => NoTakeover)
  <1> SUFFICES ASSUME "auto" \notin Transports PROVE Spec => NoTakeover
    OBVIOUS
  <1>1. SessionInv /\ [Next]_vars =>
          [state = "Connected" /\ clientIp # NoAddr => clientIp' \in {clientIp, NoAddr}]_vars
    BY NextTakeover DEF SessionInv, TypeOK, BoundType
  <1> QED BY <1>1, SessionInvariant, PTL DEF Spec, NoTakeover

\* With one transport, and as long as no client has timed out, a settled
\* Connected server has one encoder that takes frames and may call back
\* (HandleClientConnect, HandleUsbClientConnect, HandleClientDisconnect).
THEOREM SessionIsServed ==
  Spec => [](transport # "auto" /\ silences = 0 => SessionServed)
  <1>1. SessionInv => (transport # "auto" /\ silences = 0 => SessionServed)
    <2> SUFFICES ASSUME SessionInv, transport # "auto", silences = 0, Settled, state = "Connected"
                 PROVE  Served
      BY DEF SessionServed, Served
    <2>1. pc[Connector] \notin Building /\ pc["app"] # "s_running"
      BY DEF Settled, Connector, Building, Joined
    <2> QED BY <2>1 DEF SessionInv, ServedInv, Single, Settled
  <1> QED BY <1>1, SessionInvariant, PTL

\* Under the same conditions the client record, the tracking filter and the
\* packet dispatch name the same client, although each is written under a lock
\* of its own, and the accepted USB video socket is the one that is used.
THEOREM SessionIsRouted ==
  Spec => [](transport # "auto" /\ silences = 0 => SessionRouted)
  <1>1. SessionInv => (transport # "auto" /\ silences = 0 => SessionRouted)
    <2> SUFFICES ASSUME SessionInv, transport # "auto", silences = 0, Settled, state = "Connected"
                 PROVE  SessionRouted
      BY DEF SessionRouted
    <2>1. Single
      BY DEF Single, Settled
    <2>2. CASE transport = "wifi"
      BY <2>1, <2>2 DEF SessionInv, WifiInv, WifiRouted, WifiRoute, SessionRouted
    <2>3. CASE transport = "usb_adb"
      BY <2>1, <2>3 DEF SessionInv, UsbInv, UsbRouted, UsbRoute, SessionRouted, Settled
    <2> QED BY <2>2, <2>3, OneTransport DEF SessionInv
  <1> QED BY <1>1, SessionInvariant, PTL

=============================================================================
