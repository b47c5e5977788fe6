---------------------------- MODULE StreamSession ----------------------------
(***************************************************************************)
(* The connection life cycle of the streaming server                       *)
(* (runtime/src/StreamingServer.cpp): admission of WiFi and USB ADB        *)
(* clients, the connect and disconnect handlers, the liveness watchdog,    *)
(* the discovery beacon, the encoder generation and the revocable access   *)
(* its callbacks have to the server, and the bounded, retryable Stop.      *)
(*                                                                         *)
(* Every handler is cut where it releases a mutex or stores an atomic that *)
(* another thread reads: pc[t] is the next such step of thread t.  The     *)
(* threads are the WiFi control thread, the USB control and video accept   *)
(* threads, the encode and video send threads, the broadcast (beacon)      *)
(* thread and the application, which submits frames or stops the server    *)
(* (Session.cpp serialises these two with streamingServerMutex_).          *)
(***************************************************************************)
EXTENDS Naturals, FiniteSets

CONSTANTS
    Addr,          \* addresses WiFi clients connect from
    NoAddr,        \* the empty address
    Loopback,      \* the placeholder address of a USB ADB client
    Transports,    \* the values of streaming_transport to be checked
    MaxConnects,   \* bound: accepted ClientConnects
    MaxFrames,     \* bound: frames the application submits
    MaxSilences,   \* bound: times a client stays silent beyond the timeout
    MaxSendFails,  \* bound: failed USB video sends
    MaxStops       \* bound: Stop attempts

ASSUME AddrAssumption ==
    /\ NoAddr \notin Addr
    /\ Loopback \notin Addr
    /\ NoAddr # Loopback

ASSUME TransportAssumption == Transports \subseteq {"auto", "wifi", "usb_adb"}

ASSUME BoundAssumption ==
    /\ MaxConnects \in Nat
    /\ MaxFrames \in Nat
    /\ MaxSilences \in Nat
    /\ MaxSendFails \in Nat
    /\ MaxStops \in Nat

VARIABLES
    running, state,                  \* running_, state_
    clientIp, clientUsb,             \* clientIp_, clientUsesUsbAdb_
    trackAddr,                       \* TrackingReceiver::clientAddress_
    activity,                        \* lastClientActivityNs_: never, fresh, stale
    dispatch,                        \* packetDispatchState_
    tcpControl, tcpVideo,            \* the accepted USB sockets
    encoder,                         \* encoder_: its generation, 0 is null
    live,                            \* the generation that accepts frames, or 0
    access,                          \* callbackAccess_: its generation, 0 is null
    valid,                           \* access objects whose server pointer is set
    gen,                             \* generations created so far
    ended,                           \* history: accesses a disconnect has revoked
    inflight,                        \* frames inside an encoder
    snap,                            \* what the encode thread snapshotted
    pendingFrame, sendq,             \* frameQueue_, videoSendQueue_
    bthread,                         \* broadcastThread_: none, running, exited
    encLock, discLock, bLock,        \* owners of the three mutexes held for long
    pc, ret, cand, prev, wasUsb,     \* per thread: step, caller's step, locals
    transport,                       \* streaming_transport, read by Start
    connects, submits, silences, fails, stops \* uses of the bounds

conn   == <<running, state, clientIp, clientUsb, trackAddr, activity>>
video  == <<dispatch, tcpControl, tcpVideo>>
coder  == <<encoder, live, access, valid, gen, ended>>
frames == <<inflight, snap, pendingFrame, sendq>>
locks  == <<encLock, discLock, bLock>>
locals == <<ret, cand, prev, wasUsb>>
bounds == <<transport, connects, submits, silences, fails, stops>>
own    == <<locals, bounds>>
work   == <<video, coder, frames>>
sync   == <<bthread, locks>>
data   == <<conn, work, sync>>
vars   == <<data, own, pc>>

\* Which listeners Start opens; usb_ncm is WiFi to the server.
WifiEnabled == transport # "usb_adb"
UsbEnabled == transport # "wifi"

\* Threads that run connect and disconnect handlers, and all threads with a pc.
Handlers == {"control", "tcpControl", "app"}
Threads  == Handlers \cup {"tcpVideo", "encode", "send"}
Free     == "free"

States == {"Stopped", "Broadcasting", "Connected"}
NoSnap == [enc |-> 0, acc |-> 0]
NoDispatch == [ip |-> NoAddr, sock |-> "none", tcp |-> FALSE, accepting |-> FALSE]

Go(t, from, to) == pc[t] = from /\ pc' = [pc EXCEPT ![t] = to]
\* Where a thread is when it reaches the head of its loop, which looks at
\* running_: in the next receive, or out of the loop.
Head(p) == CASE p = "recv" /\ ~running -> "exited"
             [] p = "uread" /\ ~running -> "uclose"
             [] OTHER -> p
\* Leave a handler: back to the step its caller continues at.
Return(t, from) == Go(t, from, Head(ret[t]))

\* Mutant: the access object keeps its server pointer.
InvalidatePointerOnly == access' = 0 /\ UNCHANGED valid
\* InvalidateCallbackAccess: null the pointer, then clear the object it held.
Invalidate == access' = 0 /\ valid' = valid \ {access}

-----------------------------------------------------------------------------
\* Start with every listener available: the beacon runs if WiFi is enabled.
Init ==
    /\ transport \in Transports
    /\ running = TRUE
    /\ state = "Broadcasting"
    /\ clientIp = NoAddr
    /\ clientUsb = FALSE
    /\ trackAddr = NoAddr
    /\ activity = "never"
    /\ dispatch = [NoDispatch EXCEPT !.sock = "udp", !.accepting = TRUE]
    /\ tcpControl = FALSE
    /\ tcpVideo = "none"
    /\ encoder = 0 /\ live = 0 /\ access = 0 /\ valid = {} /\ gen = 0 /\ ended = {}
    /\ inflight = {} /\ snap = NoSnap
    /\ pendingFrame = FALSE /\ sendq = {}
    /\ bthread = IF WifiEnabled THEN "running" ELSE "none"
    /\ encLock = Free /\ discLock = Free /\ bLock = Free
    /\ pc = [t \in Threads |->
                CASE t = "app" -> "idle"
                  [] t = "send" -> "wait"
                  [] t \in {"tcpControl", "tcpVideo"} ->
                        IF UsbEnabled THEN "recv" ELSE "exited"
                  [] OTHER -> "recv"]
    /\ ret = [t \in Handlers |-> "recv"]
    /\ cand = [t \in Handlers |-> NoAddr]
    /\ prev = [t \in Handlers |-> "Stopped"]
    /\ wasUsb = [t \in Handlers |-> FALSE]
    /\ connects = 0 /\ submits = 0 /\ silences = 0 /\ fails = 0 /\ stops = 0

-----------------------------------------------------------------------------
(* The connect handlers, HandleClientConnect (t = "control") and           *)
(* HandleUsbClientConnect (t = "tcpControl").                              *)

\* Mutant: the transport is compared, the address is not.
AdmittedAnyAddress(usb, ip) == state # "Connected" \/ clientIp = NoAddr \/ clientUsb = usb
\* EvaluateClientAdmission: one client at a time; the same one may reconnect.
Admitted(usb, ip) ==
    \/ state # "Connected"
    \/ clientIp = NoAddr
    \/ clientUsb = usb /\ (usb \/ clientIp = ip)

\* A ClientConnect message, up to the admission decision.
Connect(t, from, to, ip) ==
    /\ connects < MaxConnects
    /\ IF Admitted(t = "tcpControl", ip)
         THEN /\ Go(t, from, "c_track")
              /\ cand' = [cand EXCEPT ![t] = ip]
              /\ ret' = [ret EXCEPT ![t] = to]
              /\ connects' = connects + 1
         ELSE /\ Go(t, from, Head(to))
              /\ UNCHANGED <<cand, ret, connects>>
    /\ UNCHANGED <<data, prev, wasUsb, transport, submits, silences, fails, stops>>

\* Mutants: the filter keeps the last address; USB filters on its placeholder.
TrackSourceStale(t) == trackAddr
TrackSourceCandidate(t) == cand[t]
\* From here on only the candidate's address may send tracking; USB tracking
\* comes over TCP, so no UDP sender is the client.
TrackSource(t) == IF t = "tcpControl" THEN NoAddr ELSE cand[t]

ConnectTrack(t) ==
    /\ Go(t, "c_track", "c_client")
    /\ trackAddr' = TrackSource(t)
    /\ UNCHANGED <<work, sync, own, running, state, clientIp, clientUsb, activity>>

ConnectClient(t) ==
    /\ Go(t, "c_client", "c_dispatch")
    /\ clientIp' = cand[t]
    /\ clientUsb' = (t = "tcpControl")
    /\ UNCHANGED <<work, sync, own, running, state, trackAddr, activity>>

ConnectDispatch(t) ==
    /\ Go(t, "c_dispatch", "c_state")
    /\ dispatch' =
         IF t = "tcpControl"
           THEN [ip |-> NoAddr, sock |-> IF tcpVideo = "none" THEN "none" ELSE "tcp",
                 tcp |-> TRUE, accepting |-> TRUE]
           ELSE [ip |-> cand[t], sock |-> "udp", tcp |-> FALSE, accepting |-> TRUE]
    /\ cand' = [cand EXCEPT ![t] = NoAddr]
    /\ UNCHANGED <<conn, coder, frames, sync, bounds, tcpControl, tcpVideo, ret,
                   prev, wasUsb>>

\* state_ is stored before the liveness clock is seeded.
ConnectState(t) ==
    /\ Go(t, "c_state", "c_seed")
    /\ state' = "Connected"
    /\ UNCHANGED <<work, sync, own, running, clientIp, clientUsb, trackAddr,
                   activity>>

ConnectSeed(t) ==
    /\ Go(t, "c_seed", "c_join")
    /\ activity' = "fresh"
    /\ UNCHANGED <<work, sync, own, running, state, clientIp, clientUsb, trackAddr>>

\* JoinWorkerThread(broadcastThread_), under broadcastThreadMutex_: both
\* handlers and Stop wait for the beacon thread with the mutex held.
JoinBegin(t, from, to) ==
    /\ Go(t, from, to)
    /\ bLock = Free
    /\ bLock' = t
    /\ UNCHANGED <<conn, work, own, bthread, encLock, discLock>>

JoinEnd(t, from, to) ==
    /\ Go(t, from, to)
    /\ bthread # "running"
    /\ bthread' = "none"
    /\ bLock' = Free
    /\ UNCHANGED <<conn, work, own, encLock, discLock>>

\* Resume the beacon; running_ and state_ are looked at under the mutex.
\* No thread object is created over one that is still joinable.
CanBroadcast == WifiEnabled /\ running /\ state = "Broadcasting" /\ bthread = "none"

StartBroadcast == bthread' = IF CanBroadcast THEN "running" ELSE bthread

ConnectRunning(t) ==
    /\ \/ running /\ Go(t, "c_run", "c_enc")
       \/ ~running /\ Return(t, "c_run")
    /\ UNCHANGED <<data, own>>

\* Take encoderMutex_; an old encoder loses its callback access and stops
\* taking frames (the first half of VideoEncoder::Shutdown).
ConnectEncoder(t) ==
    /\ encLock = Free
    /\ encLock' = t
    /\ IF encoder # 0
         THEN Go(t, "c_enc", "c_drain") /\ live' = 0 /\ Invalidate
         ELSE Go(t, "c_enc", "c_build") /\ UNCHANGED <<live, access, valid>>
    /\ UNCHANGED <<conn, video, frames, own, encoder, gen, ended, bthread, discLock,
                   bLock>>

\* Mutant: the result of the bounded drain is not looked at.
DrainedAlways(e) == TRUE
Drained(e) == \A f \in inflight : f.enc # e

\* The bounded drain either empties the encoder, which is then released, or
\* times out: the old generation is kept and the connect is rejected.
ConnectDrain(t) ==
    /\ \/ /\ Drained(encoder)
          /\ Go(t, "c_drain", "c_build")
          /\ encoder' = 0
          /\ UNCHANGED encLock
       \/ /\ ~Drained(encoder)
          /\ Go(t, "c_drain", "c_fail")
          /\ encLock' = Free
          /\ UNCHANGED encoder
    /\ UNCHANGED <<conn, video, frames, own, live, access, valid, gen, ended,
                   bthread, discLock, bLock>>

\* A new encoder object, and RenewCallbackAccess when there is a graphics device.
ConnectBuild(t) ==
    /\ \/ /\ Go(t, "c_build", "c_init")
          /\ gen' = gen + 1
          /\ encoder' = gen + 1
          /\ access' = gen + 1
          /\ valid' = (valid \ {access}) \cup {gen + 1}
          /\ UNCHANGED encLock
       \/ /\ Go(t, "c_build", "c_fail")
          /\ encLock' = Free
          /\ UNCHANGED <<gen, encoder, access, valid>>
    /\ UNCHANGED <<conn, video, frames, own, live, ended, bthread, discLock, bLock>>

\* Initialize the first codec that works; with none the encoder is dropped.
ConnectInit(t) ==
    /\ encLock' = Free
    /\ \/ Return(t, "c_init") /\ live' = encoder /\ UNCHANGED encoder
       \/ Go(t, "c_init", "c_fail") /\ encoder' = 0 /\ UNCHANGED live
    /\ UNCHANGED <<conn, video, frames, own, access, valid, gen, ended, bthread,
                   discLock, bLock>>

\* The common failure path: the client's address and dispatch are left as they are.
ConnectFail(t) ==
    /\ Go(t, "c_fail", "c_idle")
    /\ Invalidate
    /\ UNCHANGED <<conn, video, frames, sync, own, encoder, live, gen, ended>>

\* Mutant: a failed connect leaves the state Connected.
ConnectIdleKeeps(t) ==
    /\ Go(t, "c_idle", "c_restart")
    /\ clientUsb' = IF t = "tcpControl" THEN FALSE ELSE clientUsb
    /\ UNCHANGED <<work, sync, own, running, state, clientIp, trackAddr, activity>>

ConnectIdle(t) ==
    /\ Go(t, "c_idle", "c_restart")
    /\ state' = "Broadcasting"
    /\ clientUsb' = IF t = "tcpControl" THEN FALSE ELSE clientUsb
    /\ UNCHANGED <<work, sync, own, running, clientIp, trackAddr, activity>>

ConnectRestart(t) ==
    /\ Return(t, "c_restart")
    /\ bLock = Free
    /\ StartBroadcast
    /\ UNCHANGED <<conn, work, locks, own>>

ConnectStep(t) ==
    \/ ConnectTrack(t)
    \/ ConnectClient(t)
    \/ ConnectDispatch(t)
    \/ ConnectState(t)
    \/ ConnectSeed(t)
    \/ JoinBegin(t, "c_join", "c_wait")
    \/ JoinEnd(t, "c_wait", "c_run")
    \/ ConnectRunning(t)
    \/ ConnectEncoder(t)
    \/ ConnectDrain(t)
    \/ ConnectBuild(t)
    \/ ConnectInit(t)
    \/ ConnectFail(t)
    \/ ConnectIdle(t)
    \/ ConnectRestart(t)

-----------------------------------------------------------------------------
(* HandleClientDisconnect, entered by any handler thread at "d_lock".      *)

\* disconnectMutex_ is held to the end of the handler; running_ is looked at
\* before the state is exchanged.
DisconnectLock(t) ==
    /\ discLock = Free
    /\ \/ running /\ Go(t, "d_lock", "d_state") /\ discLock' = t
       \/ ~running /\ Return(t, "d_lock") /\ UNCHANGED discLock
    /\ UNCHANGED <<conn, work, own, bthread, encLock, bLock>>

DisconnectState(t) ==
    /\ Go(t, "d_state", "d_client")
    /\ prev' = [prev EXCEPT ![t] = state]
    /\ state' = "Broadcasting"
    /\ UNCHANGED <<work, sync, bounds, running, clientIp, clientUsb, trackAddr,
                   activity, ret, cand, wasUsb>>

HadClient == clientUsb \/ clientIp # NoAddr

\* The handler's locals go out of scope with disconnectMutex_.
DisconnectLeaves(t) ==
    /\ discLock' = Free
    /\ prev' = [prev EXCEPT ![t] = "Stopped"]
    /\ wasUsb' = [wasUsb EXCEPT ![t] = FALSE]

DisconnectClient(t) ==
    /\ IF prev[t] = "Connected" \/ HadClient
         THEN /\ Go(t, "d_client", "d_track")
              /\ wasUsb' = [wasUsb EXCEPT ![t] = clientUsb]
              /\ UNCHANGED <<discLock, prev>>
         ELSE Return(t, "d_client") /\ DisconnectLeaves(t)
    /\ clientIp' = NoAddr
    /\ clientUsb' = FALSE
    /\ UNCHANGED <<work, bounds, running, state, trackAddr, activity, bthread,
                   encLock, bLock, ret, cand>>

DisconnectTrack(t) ==
    /\ Go(t, "d_track", "d_inval")
    /\ trackAddr' = NoAddr
    /\ UNCHANGED <<work, sync, own, running, state, clientIp, clientUsb, activity>>

DisconnectAccess(t) ==
    /\ Go(t, "d_inval", "d_dispatch")
    /\ Invalidate
    /\ ended' = ended \cup {access}
    /\ UNCHANGED <<conn, video, frames, sync, own, encoder, live, gen>>

\* Packets go back to the UDP socket; accepting is left alone.
DisconnectDispatch(t) ==
    /\ Go(t, "d_dispatch", IF wasUsb[t] THEN "d_tcp" ELSE "d_queue")
    /\ dispatch' = [dispatch EXCEPT !.ip = NoAddr, !.sock = "udp", !.tcp = FALSE]
    /\ UNCHANGED <<conn, coder, frames, sync, own, tcpControl, tcpVideo>>

DisconnectTcp(t) ==
    /\ Go(t, "d_tcp", "d_queue")
    /\ tcpControl' = FALSE
    /\ tcpVideo' = "none"
    /\ UNCHANGED <<conn, coder, frames, sync, own, dispatch>>

\* frameQueue_.Clear and ClearVideoSendQueue.
DisconnectQueues(t) ==
    /\ Go(t, "d_queue", "d_enc")
    /\ pendingFrame' = FALSE
    /\ sendq' = {}
    /\ UNCHANGED <<conn, video, coder, sync, own, inflight, snap>>

DisconnectEncoder(t) ==
    /\ encLock = Free
    /\ IF encoder # 0
         THEN Go(t, "d_enc", "d_drain") /\ encLock' = t /\ live' = 0
         ELSE Go(t, "d_enc", "d_join") /\ UNCHANGED <<encLock, live>>
    /\ UNCHANGED <<conn, video, frames, own, encoder, access, valid, gen, ended,
                   bthread, discLock, bLock>>

\* On a timed-out drain the encoder is kept for the next connect or Stop.
DisconnectDrain(t) ==
    /\ Go(t, "d_drain", "d_join")
    /\ encLock' = Free
    /\ encoder' = IF Drained(encoder) THEN 0 ELSE encoder
    /\ UNCHANGED <<conn, video, frames, own, live, access, valid, gen, ended,
                   bthread, discLock, bLock>>

\* Only the handler that ended a Connected state joins and resumes the beacon.
DisconnectSkip(t) ==
    /\ prev[t] # "Connected"
    /\ Return(t, "d_join")
    /\ DisconnectLeaves(t)
    /\ UNCHANGED <<conn, work, bounds, bthread, encLock, bLock, ret, cand>>

DisconnectRestart(t) ==
    /\ Return(t, "d_restart")
    /\ bLock = Free
    /\ StartBroadcast
    /\ DisconnectLeaves(t)
    /\ UNCHANGED <<conn, work, bounds, encLock, bLock, ret, cand>>

DisconnectStep(t) ==
    \/ DisconnectLock(t)
    \/ DisconnectState(t)
    \/ DisconnectClient(t)
    \/ DisconnectTrack(t)
    \/ DisconnectAccess(t)
    \/ DisconnectDispatch(t)
    \/ DisconnectTcp(t)
    \/ DisconnectQueues(t)
    \/ DisconnectEncoder(t)
    \/ DisconnectDrain(t)
    \/ DisconnectSkip(t)
    \/ prev[t] = "Connected" /\ JoinBegin(t, "d_join", "d_wait")
    \/ JoinEnd(t, "d_wait", "d_restart")
    \/ DisconnectRestart(t)

-----------------------------------------------------------------------------
(* ControlThread: the WiFi control socket.                                 *)

\* A wait that times out or is woken once the server no longer runs.
Quit(t, from, out) ==
    /\ ~running
    /\ Go(t, from, out)
    /\ UNCHANGED <<data, own>>

\* ServerDisconnect from ip: the client is read under clientMutex_ ...
WifiDisconnect(ip) ==
    /\ Go("control", "recv",
          IF ~clientUsb /\ clientIp = ip THEN "honor" ELSE Head("recv"))
    /\ UNCHANGED <<data, own>>

\* ... and state_ after the mutex is released (ShouldHonorWifiDisconnect).
WifiHonor ==
    /\ Go("control", "honor", IF state = "Connected" THEN "d_lock" ELSE Head("recv"))
    /\ ret' = [ret EXCEPT !["control"] = "recv"]
    /\ UNCHANGED <<data, bounds, cand, prev, wasUsb>>

ControlThread ==
    \/ Quit("control", "recv", "exited")
    \/ WifiEnabled /\ \E ip \in Addr : Connect("control", "recv", "recv", ip)
    \/ \E ip \in Addr : WifiDisconnect(ip)
    \/ WifiHonor

-----------------------------------------------------------------------------
(* TcpControlThread: one USB control connection at a time.                 *)

\* Accept a connection and announce the server on it.
TcpAccept ==
    /\ Go("tcpControl", "recv", Head("uread"))
    /\ tcpControl' = TRUE
    /\ UNCHANGED <<conn, coder, frames, sync, own, dispatch, tcpVideo>>

\* A Disconnect record, a closed or failed connection.
TcpRecordEnds(to) ==
    /\ Go("tcpControl", "uread", to)
    /\ UNCHANGED <<data, own>>

\* Only the USB session owner may end the session: the flag is read, then the
\* handler runs.
TcpOwnerEnds(from, to) ==
    /\ Go("tcpControl", from, IF clientUsb THEN "d_lock" ELSE Head(to))
    /\ ret' = [ret EXCEPT !["tcpControl"] = to]
    /\ UNCHANGED <<data, bounds, cand, prev, wasUsb>>

TcpClose ==
    /\ Go("tcpControl", "uclose", "ulast")
    /\ tcpControl' = FALSE
    /\ UNCHANGED <<conn, coder, frames, sync, own, dispatch, tcpVideo>>

TcpControlThread ==
    \/ Quit("tcpControl", "recv", "exited")
    \/ TcpAccept
    \/ Quit("tcpControl", "uread", "uclose")
    \/ tcpControl /\ Connect("tcpControl", "uread", "uread", Loopback)
    \/ tcpControl /\ TcpRecordEnds("uowner")
    \/ TcpRecordEnds("uclose")
    \/ TcpOwnerEnds("uowner", "uclose")
    \/ TcpClose
    \/ TcpOwnerEnds("ulast", "recv")

(* TcpVideoThread: the socket is stored, then routed if USB owns the session. *)
TcpVideoAccept ==
    /\ Go("tcpVideo", "recv", "route")
    /\ tcpVideo' = "open"
    /\ UNCHANGED <<conn, coder, frames, sync, own, dispatch, tcpControl>>

TcpVideoRoute ==
    /\ Go("tcpVideo", "route", Head("recv"))
    /\ dispatch' = IF clientUsb
                     THEN [dispatch EXCEPT !.sock = "tcp", !.tcp = TRUE,
                                           !.accepting = TRUE]
                     ELSE dispatch
    /\ UNCHANGED <<conn, coder, frames, sync, own, tcpControl, tcpVideo>>

TcpVideoThread ==
    \/ Quit("tcpVideo", "recv", "exited")
    \/ TcpVideoAccept
    \/ TcpVideoRoute

(* BroadcastThread: it looks at running_ and state_ every 100 ms. *)
BroadcastSees == ~(running /\ state = "Broadcasting")

BroadcastEnds ==
    /\ bthread = "running"
    /\ BroadcastSees
    /\ bthread' = "exited"
    /\ UNCHANGED <<conn, work, locks, own, pc>>

-----------------------------------------------------------------------------
(* EncodeThread, the encoder's completion callbacks and VideoSendThread.   *)

\* WaitPop takes the pending frame.
EncodePop ==
    /\ pendingFrame
    /\ pendingFrame' = FALSE
    /\ Go("encode", "recv", "snap")
    /\ UNCHANGED <<conn, video, coder, sync, own, inflight, snap, sendq>>

\* encoder_ and the callback access are snapshotted under encoderMutex_.
EncodeSnapshot ==
    /\ encLock = Free
    /\ IF live # 0 /\ live = encoder /\ access # 0
         THEN Go("encode", "snap", "submit") /\ snap' = [enc |-> encoder, acc |-> access]
         ELSE Go("encode", "snap", Head("recv")) /\ UNCHANGED snap
    /\ UNCHANGED <<conn, video, coder, sync, own, inflight, pendingFrame, sendq>>

\* Mutant: the snapshot's encoder takes the frame whatever became of it.
EncodeSubmitAny ==
    /\ Go("encode", "submit", Head("recv"))
    /\ inflight' = inflight \cup {snap}
    /\ snap' = NoSnap
    /\ UNCHANGED <<conn, video, coder, sync, own, pendingFrame, sendq>>

\* The encoder refuses frames once its shutdown began.
EncodeSubmit ==
    /\ Go("encode", "submit", Head("recv"))
    /\ inflight' = IF live = snap.enc THEN inflight \cup {snap} ELSE inflight
    /\ snap' = NoSnap
    /\ UNCHANGED <<conn, video, coder, sync, own, pendingFrame, sendq>>

\* frameQueue_.Stop wakes the encode thread.  Mutant: it does not.
EncodeSleeps == FALSE /\ Quit("encode", "recv", "exited")
EncodeWakes == Quit("encode", "recv", "exited")

EncodeThread ==
    \/ EncodeWakes
    \/ EncodePop
    \/ EncodeSnapshot
    \/ EncodeSubmit

\* A frame leaves its encoder; it is queued only while its access is accepting.
EncodeCallback ==
    \E f \in inflight :
        /\ inflight' = inflight \ {f}
        /\ sendq' = IF f.acc \in valid THEN sendq \cup {f.acc} ELSE sendq
        /\ UNCHANGED <<conn, video, coder, sync, own, snap, pendingFrame, pc>>

\* Send the head of the queue; a failed USB send disables the dispatch
\* (MarkTcpVideoSendFailed).
VideoSend ==
    /\ pc["send"] = "wait"
    /\ \E g \in sendq : sendq' = sendq \ {g}
    /\ \/ UNCHANGED <<video, fails>>
       \/ /\ dispatch.tcp /\ dispatch.sock = "tcp" /\ fails < MaxSendFails
          /\ fails' = fails + 1
          /\ dispatch' = [dispatch EXCEPT !.sock = "none", !.tcp = FALSE,
                                          !.accepting = FALSE]
          /\ tcpVideo' = IF tcpVideo = "open" THEN "broken" ELSE tcpVideo
          /\ UNCHANGED tcpControl
    /\ UNCHANGED <<conn, coder, sync, locals, inflight, snap, pendingFrame, pc,
                   transport, connects, submits, silences, stops>>

VideoSendEnds ==
    /\ ~running
    /\ Go("send", "wait", "exited")
    /\ sendq' = {}
    /\ UNCHANGED <<conn, video, coder, sync, own, inflight, snap, pendingFrame>>

-----------------------------------------------------------------------------
(* The application: xrEndFrame submits a frame, which runs the watchdog.   *)

\* Session::EndFrame calls SendFrame only while a client is connected.
EndFrame ==
    /\ state = "Connected" /\ submits < MaxFrames
    /\ Go("app", "idle", "a_live")
    /\ submits' = submits + 1
    /\ UNCHANGED <<data, locals, transport, connects, silences, fails, stops>>

\* CheckClientLiveness decides on what it reads here.
CheckClientLiveness ==
    /\ Go("app", "a_live",
          IF state = "Connected" /\ activity = "stale" THEN "d_lock" ELSE "a_state")
    /\ ret' = [ret EXCEPT !["app"] = "a_state"]
    /\ UNCHANGED <<data, bounds, cand, prev, wasUsb>>

SendFrameState ==
    /\ Go("app", "a_state", IF state = "Connected" THEN "a_enc" ELSE "idle")
    /\ UNCHANGED <<data, own>>

SendFrameEncoder ==
    /\ encLock = Free
    /\ Go("app", "a_enc", IF live # 0 /\ live = encoder THEN "a_push" ELSE "idle")
    /\ UNCHANGED <<data, own>>

\* PushLatest replaces a frame that is still pending.
SendFramePush ==
    /\ Go("app", "a_push", "idle")
    /\ pendingFrame' = running
    /\ UNCHANGED <<conn, video, coder, sync, own, inflight, snap, sendq>>

\* No tracking packet for longer than kClientLivenessTimeoutNs, 3 s ... Not while
\* a connect waits for the beacon thread, which ends within 100 ms.
ClientSilent ==
    /\ activity = "fresh" /\ silences < MaxSilences
    /\ \A t \in Handlers : pc[t] \notin {"c_join", "c_wait"}
    /\ activity' = "stale"
    /\ silences' = silences + 1
    /\ UNCHANGED <<work, sync, locals, running, state, clientIp, clientUsb,
                   trackAddr, pc, transport, connects, submits, fails, stops>>

\* ... and one again: accepted from the client's address or the USB owner.
ClientTracks ==
    /\ activity = "stale"
    /\ trackAddr # NoAddr \/ clientUsb
    /\ activity' = "fresh"
    /\ UNCHANGED <<work, sync, own, running, state, clientIp, clientUsb, trackAddr,
                   pc>>

App == EndFrame \/ CheckClientLiveness \/ SendFrameState \/ SendFrameEncoder
       \/ SendFramePush

-----------------------------------------------------------------------------
(* StreamingServer::Stop.                                                  *)

StopBegin ==
    /\ stops < MaxStops
    /\ Go("app", "idle", "s_running")
    /\ stops' = stops + 1
    /\ Invalidate
    /\ UNCHANGED <<conn, video, frames, sync, locals, encoder, live, gen, ended,
                   transport, connects, submits, silences, fails>>

StopRunning ==
    /\ Go("app", "s_running", "s_state")
    /\ running' = FALSE
    /\ UNCHANGED <<work, sync, own, state, clientIp, clientUsb, trackAddr,
                   activity>>

\* state_, then the USB sockets.
StopState ==
    /\ Go("app", "s_state", "s_dispatch")
    /\ state' = "Stopped"
    /\ tcpControl' = FALSE
    /\ tcpVideo' = "none"
    /\ UNCHANGED <<coder, frames, sync, own, running, clientIp, clientUsb,
                   trackAddr, activity, dispatch>>

StopDispatch ==
    /\ Go("app", "s_dispatch", "s_client")
    /\ dispatch' = NoDispatch
    /\ UNCHANGED <<conn, coder, frames, sync, own, tcpControl, tcpVideo>>

StopClient ==
    /\ Go("app", "s_client", "s_join")
    /\ clientIp' = NoAddr
    /\ clientUsb' = FALSE
    /\ UNCHANGED <<work, sync, own, running, state, trackAddr, activity>>

\* Mutant: the control thread is not joined.
WorkersButControl == {"tcpControl", "tcpVideo", "encode", "send"}
Workers == {"control", "tcpControl", "tcpVideo", "encode", "send"}

\* Every worker is joined; the queues are cleared and tracking stops.
StopJoin ==
    /\ \A t \in Workers : pc[t] = "exited"
    /\ Go("app", "s_threads", "s_enc")
    /\ pendingFrame' = FALSE
    /\ sendq' = {}
    /\ trackAddr' = NoAddr
    /\ UNCHANGED <<video, coder, sync, own, running, state, clientIp, clientUsb,
                   activity, inflight, snap>>

StopEncoder ==
    /\ encLock = Free
    /\ encLock' = "app"
    /\ Go("app", "s_enc", "s_drain")
    /\ live' = 0
    /\ UNCHANGED <<conn, video, frames, own, encoder, access, valid, gen, ended,
                   bthread, discLock, bLock>>

\* A drain that times out leaves the server with its owner, who may retry.
StopDrain ==
    /\ encLock' = Free
    /\ IF encoder = 0 \/ Drained(encoder)
         THEN Go("app", "s_drain", "stopped") /\ encoder' = 0
         ELSE Go("app", "s_drain", "idle") /\ UNCHANGED encoder
    /\ UNCHANGED <<conn, video, frames, own, live, access, valid, gen, ended,
                   bthread, discLock, bLock>>

Stop ==
    \/ StopBegin
    \/ StopRunning
    \/ StopState
    \/ StopDispatch
    \/ StopClient
    \/ JoinBegin("app", "s_join", "s_wait")
    \/ JoinEnd("app", "s_wait", "s_threads")
    \/ StopJoin
    \/ StopEncoder
    \/ StopDrain

-----------------------------------------------------------------------------
Environment == ClientSilent \/ ClientTracks

Next ==
    \/ \E t \in {"control", "tcpControl"} : ConnectStep(t)
    \/ \E t \in Handlers : DisconnectStep(t)
    \/ ControlThread
    \/ TcpControlThread
    \/ TcpVideoThread
    \/ EncodeThread
    \/ EncodeCallback
    \/ VideoSend
    \/ VideoSendEnds
    \/ BroadcastEnds
    \/ App
    \/ Stop
    \/ Environment

\* The scheduler runs every thread, a receive times out within a second, and
\* the hardware finishes the frames it holds.  Nothing makes a client send, go
\* silent or come back, and nothing makes the application submit or stop.
Fairness ==
    /\ \A t \in {"control", "tcpControl"} : WF_vars(ConnectStep(t))
    /\ \A t \in Handlers : WF_vars(DisconnectStep(t))
    /\ WF_vars(ControlThread)
    /\ WF_vars(TcpControlThread)
    /\ WF_vars(TcpVideoThread)
    /\ WF_vars(EncodeThread)
    /\ WF_vars(EncodeCallback)
    /\ WF_vars(VideoSend)
    /\ WF_vars(VideoSendEnds)
    /\ WF_vars(BroadcastEnds)
    /\ WF_vars(CheckClientLiveness \/ SendFrameState \/ SendFrameEncoder \/ SendFramePush)
    /\ WF_vars(Stop /\ pc["app"] # "idle")

Spec == Init /\ [][Next]_vars
FairSpec == Spec /\ Fairness

-----------------------------------------------------------------------------
Pcs == {"recv", "exited", "honor", "uread", "uowner", "uclose",
        "ulast", "route", "snap", "submit", "wait", "idle", "a_live", "a_state",
        "a_enc", "a_push", "c_track", "c_client", "c_dispatch", "c_state",
        "c_seed", "c_join", "c_wait", "c_run", "c_enc", "c_drain", "c_build",
        "c_init", "c_fail", "c_idle", "c_restart", "d_lock",
        "d_state", "d_client", "d_track", "d_inval", "d_dispatch", "d_tcp", "d_queue", "d_enc",
        "d_drain", "d_join", "d_wait", "d_restart", "s_running", "s_state",
        "s_dispatch", "s_client", "s_join", "s_wait", "s_threads", "s_enc",
        "s_drain", "stopped"}

ConnType ==
    /\ running \in BOOLEAN /\ state \in States
    /\ clientIp \in Addr \cup {NoAddr, Loopback} /\ clientUsb \in BOOLEAN
    /\ trackAddr \in Addr \cup {NoAddr}
    /\ activity \in {"never", "fresh", "stale"}

VideoType ==
    /\ dispatch \in [ip : Addr \cup {NoAddr}, sock : {"none", "udp", "tcp"},
                     tcp : BOOLEAN, accepting : BOOLEAN]
    /\ tcpControl \in BOOLEAN /\ tcpVideo \in {"none", "open", "broken"}

CoderType ==
    /\ encoder \in Nat /\ live \in Nat /\ access \in Nat /\ gen \in Nat
    /\ valid \subseteq Nat /\ ended \subseteq Nat

FrameType ==
    /\ inflight \subseteq [enc : Nat, acc : Nat] /\ snap \in [enc : Nat, acc : Nat]
    /\ pendingFrame \in BOOLEAN /\ sendq \subseteq Nat

SyncType ==
    /\ bthread \in {"none", "running", "exited"}
    /\ {encLock, discLock, bLock} \subseteq Handlers \cup {Free}

ThreadType ==
    /\ pc \in [Threads -> Pcs]
    /\ ret \in [Handlers -> {"recv", "uread", "uclose", "a_state"}]
    /\ cand \in [Handlers -> Addr \cup {NoAddr, Loopback}]
    /\ cand["control"] # Loopback
    /\ prev \in [Handlers -> States]
    /\ wasUsb \in [Handlers -> BOOLEAN]

BoundType == transport \in Transports /\ {connects, submits, silences, fails, stops} \subseteq Nat

\* The type invariant.
TypeOK ==
    /\ ConnType
    /\ VideoType
    /\ CoderType
    /\ FrameType
    /\ SyncType
    /\ ThreadType
    /\ BoundType

-----------------------------------------------------------------------------
\* No handler is in flight and none is about to start.
Settled ==
    /\ running
    /\ pc["control"] = "recv"
    /\ pc["tcpControl"] \in {"recv", "uread", "exited"}
    /\ pc["tcpVideo"] \in {"recv", "exited"}
    /\ pc["app"] = "idle"

\* A settled Connected server has one encoder, which takes frames and whose
\* callbacks reach the server: no handler leaves a session without video
\* (HandleClientConnect, HandleUsbClientConnect, HandleClientDisconnect).
SessionServed ==
    Settled /\ state = "Connected" =>
        /\ encoder # 0 /\ live = encoder /\ access = encoder
        /\ valid = {access}

\* The client record, the tracking filter and the packet dispatch, each
\* written under a lock of its own, agree on who the connected client is.
SessionRouted ==
    Settled /\ state = "Connected" =>
        IF clientUsb
          THEN /\ clientIp = Loopback /\ trackAddr = NoAddr
               /\ tcpVideo = "open" => dispatch.tcp /\ dispatch.sock = "tcp"
          ELSE /\ clientIp \in Addr /\ trackAddr = clientIp
               /\ dispatch = [ip |-> clientIp, sock |-> "udp", tcp |-> FALSE,
                              accepting |-> TRUE]

\* A settled server without a session is discoverable: whichever handler
\* ended the session, the beacon thread runs again.
DiscoveryResumes ==
    Settled /\ state = "Broadcasting" /\ WifiEnabled => bthread = "running"

\* The encoder object is only let go when no frame is inside it, so the last
\* reference never disappears on a callback thread (comments at
\* StreamingServer.cpp:2319 and :2711), whatever the two handlers, the
\* encode thread's snapshot and Stop interleave to.
DrainedBeforeReleased ==
    [][encoder # 0 /\ encoder' # encoder =>
         \A f \in inflight : f.enc # encoder]_vars

\* Once a disconnect has cleared the send queue no frame of the session it
\* ended is queued again, though frames were still inside the encoder.
EndedSessionSilent ==
    (\A t \in Handlers : pc[t] \notin {"d_dispatch", "d_tcp", "d_queue"}) =>
        sendq \cap ended = {}

\* An ended session, whichever handler ended it, leaves nothing behind that would keep the next
\* one from being found or that would be sent to it.
SessionEnds == DiscoveryResumes /\ EndedSessionSilent

\* Steps at which a thread holds encoderMutex_ between two of its steps.
Held == {"c_drain", "c_build", "c_init", "d_drain", "s_drain"}

\* encoderMutex_ is owned by the one handler between its lock and its unlock.
LockInv == \A t \in Handlers : pc[t] \in Held <=> encLock = t

\* A frame is only ever inside the current encoder: no handler replaces an
\* encoder that still holds frames, and the encode thread, whose snapshot may
\* be older than the current encoder, submits none to another generation.
EncoderInv ==
    /\ live \in {0, encoder}
    /\ \A f \in inflight : f.enc = encoder /\ f.enc # 0
    /\ \A t \in Handlers : pc[t] \in Held => live = 0
    /\ \A t \in {"control", "tcpControl"} :
         /\ pc[t] = "c_build" => encoder = 0
         /\ pc[t] = "c_init" => inflight = {}
    /\ pc["encode"] = "submit" => snap.enc # 0

\* encoderMutex_ serialises every replacement of the encoder.
EncoderOwned == LockInv /\ EncoderInv

\* When Stop has returned true the server may be destroyed: no worker or
\* beacon thread runs and no callback that captured it is outstanding.
StoppedServerIsQuiet ==
    pc["app"] = "stopped" =>
        /\ \A t \in Threads \ {"app"} : pc[t] = "exited"
        /\ bthread = "none"
        /\ encoder = 0 /\ inflight = {}

\* What the runs check of the two together.
ServerSafe == TypeOK /\ StoppedServerIsQuiet

\* The steps of Stop after running_ is cleared.
Later == {"s_state", "s_dispatch", "s_client", "s_join", "s_wait", "s_threads", "s_enc",
          "s_drain", "stopped"}

\* What Stop has established at each of its later steps.
StopInv ==
    /\ pc["app"] \in Later => ~running
    /\ pc["app"] \in {"s_threads", "s_enc", "s_drain", "stopped"} => bthread = "none"
    /\ pc["app"] \in {"s_enc", "s_drain", "stopped"} =>
         \A t \in Threads \ {"app"} : pc[t] = "exited"
    /\ pc["app"] = "stopped" => encoder = 0 /\ inflight = {}

\* One client at a time: the identity of a connected client is not replaced
\* by another's (comments at StreamingServer.cpp:1727 and :1996).
NoTakeover ==
    [][state = "Connected" /\ clientIp # NoAddr =>
         clientIp' \in {clientIp, NoAddr}]_vars

\* A frame submission returns to the application.
FrameReturns == pc["app"] = "a_live" ~> pc["app"] = "idle"

\* Stop is bounded: it returns, whether or not the encoder drained in time,
\* although it joins threads that may be anywhere in a handler; where no frame
\* submission has timed its client out, whose race with a connect handler FrameReturns
\* is about.
StopReturns ==
    [](silences = 0) => (pc["app"] = "s_running" ~> pc["app"] \in {"stopped", "idle"})

\* Every connect handler returns to its receive loop, although it joins the
\* beacon thread and waits for the encoder's mutex; again without a time-out.
ConnectReturns ==
  [](silences = 0) =>
    /\ pc["control"] = "c_track" ~> pc["control"] \in {"recv", "exited"}
    /\ pc["tcpControl"] = "c_track" ~> pc["tcpControl"] \in {"uread", "uclose"}

\* No call of the server waits for ever for another thread.
CallsReturn == StopReturns /\ ConnectReturns

=============================================================================
