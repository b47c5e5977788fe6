----------------------------- MODULE QuestClient -----------------------------
(***************************************************************************)
(* The Quest client's connection: discovery, the USB probe, connecting,    *)
(* loss, reset and retry, over the render thread (android_main, RunFrame), *)
(* the discovery, receive and control threads, and the Mac as they meet it *)
(* (XrApp.cpp, NetworkReceiver.cpp, TrackingSender.cpp, main.cpp).         *)
(*                                                                         *)
(* A thread's place in its code is pc[thread]; "none" is a std::thread     *)
(* that is not joinable, "done" one that has ended and is not joined yet.  *)
(* The render thread's calls return to the labels on stack.  Video itself  *)
(* is in VideoTransport, stream updates in StreamReconfigure.              *)
(***************************************************************************)
EXTENDS Integers, Sequences

CONSTANTS
    LinkSets,       \* the links that may be there: sets of "wifi" and "usb"
    Windows,        \* the short windows in which two threads may meet (see below)
    MaxFaults,      \* bound: outages of the Mac, lost messages and failed calls
    MaxResets,      \* bound: resets asked for in the shell
    MaxSessions     \* bound: times the OpenXR session becomes ready

ASSUME LinkAssumption == \A l \in LinkSets : l \subseteq {"wifi", "usb"}

\* "probe", "reset": the discovery thread configures a connection while the render
\* thread probes the cable or resets the client; "linger": the discovery thread hears the
\* Mac in the second it needs to notice that discovery was stopped; "lost": a
\* connection is begun after the loss of one and before its reset.
ASSUME WindowAssumption == Windows \subseteq {"probe", "reset", "linger", "lost"}

VARIABLES
    links,                       \* the links there are
    conn, needsReconnect, mode,  \* connectionState_, needsReconnect_, transportMode_
    previous,                    \* the probe's previousState
    objects,                     \* networkReceiver_, trackingSender_, videoDecoder_
    open,                        \* sockets open
    discovering, receiving, controlRunning,  \* the threads' flags
    pc, stack,                   \* where each thread is; the render thread's returns
    hasVideo, silent,            \* hasVideoTexture_; the time limit without video has passed
    shellReset,                  \* shellPendingNetworkReset_
    running, sessionRunning,     \* running_, sessionRunning_
    server, eof,                 \* the Mac: down, announcing, or streaming to a link; it has closed the TCP sockets
    faults, resets, sessions, destroyRequested

connection == <<conn, needsReconnect, mode, previous>>
sockets    == <<objects, open>>
flags      == <<discovering, receiving, controlRunning>>
code       == <<pc, stack>>
video      == <<hasVideo, silent>>
life       == <<running, sessionRunning, sessions, destroyRequested, links>>
mac        == <<server, eof>>
wearer     == <<shellReset, resets>>
vars       == <<connection, sockets, flags, code, video, life, mac, wearer, faults>>

Threads == {"render", "discovery", "receive", "control"}
Control == {"controlUdp", "controlTcp"}

Init ==
    /\ links \in LinkSets
    /\ conn = "Disconnected" /\ needsReconnect = FALSE /\ mode = "wifi" /\ previous = "Disconnected"
    /\ objects = FALSE /\ open = {}
    /\ discovering = FALSE /\ receiving = FALSE /\ controlRunning = FALSE
    /\ pc = [t \in Threads |-> IF t = "render" THEN "frame" ELSE "none"] /\ stack = <<>>
    /\ hasVideo = FALSE /\ silent = FALSE /\ shellReset = FALSE
    /\ running = TRUE /\ sessionRunning = FALSE
    /\ server = "announcing" /\ eof = FALSE
    /\ faults = 0 /\ resets = 0 /\ sessions = 0 /\ destroyRequested = FALSE

-----------------------------------------------------------------------------
(* Control flow.                                                           *)

At(t, label) == pc[t] = label
Goto(t, label) == pc' = [pc EXCEPT ![t] = label] /\ UNCHANGED stack

\* The render thread calls the code at label, to return to the labels rets.
Call(label, rets) == pc' = [pc EXCEPT !["render"] = label] /\ stack' = rets \o stack

ReturnLabel(t) == CASE t = "render" -> Head(stack) [] t = "discovery" -> "loop" [] OTHER -> "done"

Return(t) ==
    /\ pc' = [pc EXCEPT ![t] = ReturnLabel(t)]
    /\ stack' = IF t = "render" THEN Tail(stack) ELSE stack

\* std::terminate: a joinable std::thread was assigned to.
Terminate == pc' = [t \in Threads |-> "terminated"] /\ UNCHANGED stack

Joined(t) == pc[t] \in {"none", "done"}

Fault == faults < MaxFaults /\ faults' = faults + 1

ConfigureLabels == {"receive", "track", "openControl", "send", "startControl", "connected"}
ResetLabels == {"resetControl", "joinControl", "close", "stop", "joinDiscovery", "joinReceive", "reset"}
ProbeLabels == {"probe"} \cup ConfigureLabels

Configuring(t) == pc[t] \in ConfigureLabels

\* The Mac streams to this client, over sockets that are still open.
Flowing ==
    /\ server = mode /\ "video" \in open /\ receiving
    /\ mode = "usb" => ~eof

-----------------------------------------------------------------------------
(* Sockets.  CloseControlSocket tells the Mac; over UDP that may get lost. *)

CloseControlSocket == open \ Control
CloseSpatialSocket(s) == s \ {"spatial"}

MacToldGoodbye ==
    \/ /\ server' = IF server \in {"wifi", "usb"} /\ open \cap Control # {} THEN "announcing" ELSE server
       /\ UNCHANGED faults
    \/ "controlUdp" \in open /\ server = "wifi" /\ Fault /\ UNCHANGED server

\* OpenControlSocket closes what is open first.
OpenControlSocket(s) == (s \ Control) \cup {"controlUdp"}
OpenUsbControlSocket == open \cup {"controlTcp"}
OpenUsbSpatialSocket(s) == s \cup {"spatial"}

-----------------------------------------------------------------------------
(* OnConnectionLost, on the render, receive or control thread: a load and  *)
(* two stores.                                                             *)

LostLoad(t) ==
    /\ At(t, "lost")
    /\ IF conn \in {"Disconnected", "Discovering"} THEN Return(t) ELSE Goto(t, "lostStore")
    /\ UNCHANGED <<connection, sockets, flags, video, life, mac, wearer, faults>>

LostStore(t) ==
    /\ At(t, "lostStore")
    /\ conn' = "Disconnected" /\ Goto(t, "lostFlag")
    /\ UNCHANGED <<needsReconnect, mode, previous, sockets, flags, video, life, mac, wearer, faults>>

LostFlag(t) ==
    /\ At(t, "lostFlag")
    /\ needsReconnect' = TRUE /\ Return(t)
    /\ UNCHANGED <<conn, mode, previous, sockets, flags, video, life, mac, wearer, faults>>

OnConnectionLost(t) == LostLoad(t) \/ LostStore(t) \/ LostFlag(t)

-----------------------------------------------------------------------------
(* ConfigureServerConnection, on the discovery thread (WiFi) or the render *)
(* thread (USB).                                                           *)

\* Mutant: one that tells the Mac before its receiver listens.
ConfigureSendsFirst(t, link) ==
    /\ conn \in {"Disconnected", "Discovering"}
    /\ conn' = "Connecting" /\ mode' = link /\ silent' = FALSE
    /\ Goto(t, "send")
    /\ UNCHANGED <<needsReconnect, hasVideo>>

\* An announcement: connect, unless a connection is up or being made.  One heard
\* three seconds after connecting means that the Mac's session is a new one.
Configure(t, link) ==
    IF conn \in {"Disconnected", "Discovering"}
    THEN /\ conn' = "Connecting" /\ mode' = link /\ silent' = FALSE
         /\ Goto(t, "receive")
         /\ UNCHANGED <<needsReconnect, hasVideo>>
    ELSE /\ needsReconnect' \in {needsReconnect, conn = "Connected"}
         /\ Return(t)
         /\ UNCHANGED <<conn, mode, video>>

\* StartReceiving, StartReceivingTcp: the socket, then the thread.
Receiving(t) ==
    /\ IF pc["receive"] = "none"
       THEN pc' = [pc EXCEPT ![t] = "track", !["receive"] = "run"] /\ UNCHANGED stack
       ELSE Terminate
    /\ open' = open \cup {"video"} /\ receiving' = TRUE
    /\ UNCHANGED <<conn, mode, faults>>

\* The receiver cannot start: back to Disconnected; discovery goes on.
NotReceiving(t) ==
    /\ \/ mode = "usb" /\ eof /\ UNCHANGED faults
       \/ Fault
    /\ conn' = "Disconnected" /\ mode' = "wifi"
    /\ open' = IF mode = "usb" THEN open \ {"controlTcp"} ELSE open
    /\ Return(t)
    /\ UNCHANGED receiving

StartReceiving(t) ==
    /\ At(t, "receive")
    /\ \/ (mode = "usb" => ~eof) /\ Receiving(t)
       \/ NotReceiving(t)
    /\ UNCHANGED <<needsReconnect, previous, objects, discovering, controlRunning, video, life, mac, wearer>>

\* TrackingSender: Connect or ConnectTcp, and Send, which closes the TCP socket for the
\* rest of the connection when it could send a record only in part.
TrackingConnects ==
    \/ open' = open \cup {"tracking"} /\ UNCHANGED faults
    \/ Fault /\ UNCHANGED open

TrackingBreaks ==
    /\ mode = "usb" /\ "tracking" \in open
    /\ Fault /\ open' = open \ {"tracking"}

\* Connecting goes on without a tracking socket.
ConnectTracking(t) ==
    /\ At(t, "track")
    /\ TrackingConnects
    /\ Goto(t, "openControl")
    /\ UNCHANGED <<connection, objects, flags, video, life, mac, wearer>>

ConnectControl(t) ==
    /\ At(t, "openControl")
    /\ open' = IF mode = "usb" THEN OpenUsbSpatialSocket(open) ELSE OpenControlSocket(open)
    /\ Goto(t, "send")
    /\ UNCHANGED <<connection, objects, flags, video, life, mac, wearer, faults>>

\* The Mac takes a ClientConnect while it announces; a datagram may be lost.
SendClientConnect(t) ==
    /\ At(t, "send")
    /\ \/ /\ server' = IF server = "announcing" /\ (mode = "usb" => ~eof /\ "controlTcp" \in open)
                       THEN mode ELSE server
          /\ UNCHANGED faults
       \/ mode = "wifi" /\ Fault /\ UNCHANGED server
    /\ Goto(t, "startControl")
    /\ UNCHANGED <<connection, sockets, flags, video, life, eof, wearer>>

\* StartControlReceiver joins the thread of an earlier connection first.
StartControlReceiver(t) ==
    /\ At(t, "startControl")
    /\ IF Joined("control")
       THEN /\ controlRunning' = TRUE
            /\ pc' = [pc EXCEPT ![t] = "connected", !["control"] = "run"]
       ELSE controlRunning' = FALSE /\ UNCHANGED pc
    /\ UNCHANGED <<stack, connection, sockets, discovering, receiving, video, life, mac, wearer, faults>>

Connected(t) ==
    /\ At(t, "connected")
    /\ conn' = "Connected" /\ discovering' = FALSE
    /\ Return(t)
    /\ UNCHANGED <<needsReconnect, mode, previous, sockets, receiving, controlRunning, video, life, mac, wearer, faults>>

ConfigureServerConnection(t) ==
    StartReceiving(t) \/ ConnectTracking(t) \/ ConnectControl(t) \/ SendClientConnect(t)
    \/ StartControlReceiver(t) \/ Connected(t)

-----------------------------------------------------------------------------
(* The discovery thread.                                                   *)

MayConfigure ==
    /\ "probe" \in Windows \/ pc["render"] \notin ProbeLabels
    /\ "reset" \in Windows \/ pc["render"] \notin ResetLabels
    /\ "linger" \in Windows \/ discovering
    /\ "lost" \in Windows \/ pc["receive"] = "none"

OnServerFound ==
    /\ At("discovery", "loop") /\ "discovery" \in open
    /\ "wifi" \in links /\ server = "announcing" /\ MayConfigure
    /\ Configure("discovery", "wifi")
    /\ UNCHANGED <<previous, sockets, flags, life, mac, wearer, faults>>

DiscoveryEnds ==
    /\ At("discovery", "loop") /\ ~discovering
    /\ Goto("discovery", "done")
    /\ UNCHANGED <<connection, sockets, flags, video, life, mac, wearer, faults>>

Discovery == OnServerFound \/ DiscoveryEnds \/ ConfigureServerConnection("discovery")

-----------------------------------------------------------------------------
(* The receive thread.  Over UDP it ends when it is told to, over TCP when *)
(* the stream ends too, which it reports if it was not told to.            *)

ReceiveEnds ==
    /\ At("receive", "run")
    /\ ~receiving \/ (mode = "usb" /\ (eof \/ "video" \notin open))
    /\ receiving' = FALSE
    /\ Goto("receive", IF receiving THEN "lost" ELSE "done")
    /\ UNCHANGED <<connection, sockets, discovering, controlRunning, video, life, mac, wearer, faults>>

Receive == ReceiveEnds \/ OnConnectionLost("receive")

-----------------------------------------------------------------------------
(* The control thread.                                                     *)

ControlFails ==
    CASE mode = "usb" -> eof \/ "controlTcp" \notin open
      [] OTHER -> server = "down" \/ "controlUdp" \notin open

ControlEnds ==
    /\ At("control", "run")
    /\ ~controlRunning \/ ControlFails
    /\ Goto("control", IF controlRunning THEN "lost" ELSE "done")
    /\ UNCHANGED <<connection, sockets, flags, video, life, mac, wearer, faults>>

ControlReceive == ControlEnds \/ OnConnectionLost("control")

-----------------------------------------------------------------------------
(* The render thread: the USB probe and StartNetworking.                   *)

\* TryStartUsbAdbTransport.  Without adb reverse the connect is refused at once.
Probe(ret) ==
    IF "usb" \in links
    THEN /\ previous' = conn /\ open' = OpenUsbControlSocket /\ eof' = FALSE
         /\ Call("probe", ret)
    ELSE /\ pc' = [pc EXCEPT !["render"] = Head(ret)] /\ stack' = Tail(ret) \o stack
         /\ UNCHANGED <<previous, open, eof>>

ProbeAnnounced ==
    /\ At("render", "probe") /\ server = "announcing" /\ ~eof
    /\ Configure("render", "usb")
    /\ UNCHANGED <<previous, sockets, flags, life, mac, wearer, faults>>

ProbeFails ==
    /\ At("render", "probe")
    /\ \/ (server # "announcing" \/ eof) /\ UNCHANGED faults
       \/ Fault
    /\ open' = open \ {"controlTcp"} /\ conn' = previous
    /\ Return("render")
    /\ UNCHANGED <<needsReconnect, mode, previous, objects, flags, video, life, mac, wearer>>

\* What an earlier one left would be reset first.
StartNetworking ==
    /\ At("render", "start")
    /\ IF objects
       THEN /\ Call("resetControl", <<"start">>)
            /\ UNCHANGED <<conn, mode, needsReconnect, objects>>
       ELSE /\ objects' = TRUE /\ conn' = "Disconnected" /\ mode' = "wifi" /\ needsReconnect' = FALSE
            /\ Goto("render", "startProbe")
    /\ UNCHANGED <<previous, open, flags, video, life, mac, wearer, faults>>

StartProbe ==
    /\ At("render", "startProbe")
    /\ Probe(<<"discover">>)
    /\ UNCHANGED <<conn, needsReconnect, mode, objects, flags, video, life, server, wearer, faults>>

\* NetworkReceiver::StartDiscovery.
BeginDiscovery ==
    /\ discovering' = TRUE /\ open' = open \cup {"discovery"}
    /\ IF pc["discovery"] = "none"
       THEN /\ pc' = [pc EXCEPT !["render"] = Head(stack), !["discovery"] = "loop"]
            /\ stack' = Tail(stack)
       ELSE Terminate

\* No USB: StartNetworking goes on to discovery.
StartDiscovery ==
    /\ At("render", "discover")
    /\ IF conn = "Connected"
       THEN Return("render") /\ UNCHANGED <<conn, open, discovering>>
       ELSE conn' = "Discovering" /\ BeginDiscovery
    /\ UNCHANGED <<needsReconnect, mode, previous, objects, receiving, controlRunning, video, life, mac, wearer, faults>>

-----------------------------------------------------------------------------
(* ResetConnection, on the render thread.                                  *)

MayReset == "reset" \in Windows \/ ~Configuring("discovery")

\* StopControlReceiver: the flag, a shutdown of the sockets, the join.
StopControlReceiver ==
    /\ At("render", "resetControl") /\ MayReset
    /\ controlRunning' = FALSE /\ Goto("render", "joinControl")
    /\ UNCHANGED <<connection, sockets, discovering, receiving, video, life, mac, wearer, faults>>

JoinControl ==
    /\ At("render", "joinControl") /\ Joined("control")
    /\ pc' = [pc EXCEPT !["render"] = "close", !["control"] = "none"]
    /\ UNCHANGED <<stack, connection, sockets, flags, video, life, mac, wearer, faults>>

CloseSockets ==
    /\ At("render", "close")
    /\ open' = CloseSpatialSocket(CloseControlSocket) /\ MacToldGoodbye
    /\ Goto("render", "stop")
    /\ UNCHANGED <<connection, objects, flags, video, life, eof, wearer>>

\* Mutant: a stop that leaves discovery running.
StopReceiverOnly ==
    /\ At("render", "stop")
    /\ receiving' = FALSE /\ open' = open \ {"video"}
    /\ Goto("render", "joinDiscovery")
    /\ UNCHANGED <<connection, objects, discovering, controlRunning, video, life, mac, wearer, faults>>

\* NetworkReceiver::Stop: the flags and sockets, then the two joins.
StopReceiver ==
    /\ At("render", "stop")
    /\ discovering' = FALSE /\ receiving' = FALSE /\ open' = open \ {"discovery", "video"}
    /\ Goto("render", "joinDiscovery")
    /\ UNCHANGED <<connection, objects, controlRunning, video, life, mac, wearer, faults>>

JoinDiscovery ==
    /\ At("render", "joinDiscovery") /\ Joined("discovery")
    /\ pc' = [pc EXCEPT !["render"] = "joinReceive", !["discovery"] = "none"]
    /\ UNCHANGED <<stack, connection, sockets, flags, video, life, mac, wearer, faults>>

\* Mutant: a stop that does not join the receive thread.
JoinReceiveNot ==
    /\ At("render", "joinReceive")
    /\ Goto("render", "reset")
    /\ UNCHANGED <<connection, sockets, flags, video, life, mac, wearer, faults>>

JoinReceive ==
    /\ At("render", "joinReceive") /\ Joined("receive")
    /\ pc' = [pc EXCEPT !["render"] = "reset", !["receive"] = "none"]
    /\ UNCHANGED <<stack, connection, sockets, flags, video, life, mac, wearer, faults>>

\* The objects go and the fields return to their defaults.
ResetState ==
    /\ At("render", "reset")
    /\ objects' = FALSE /\ open' = open \ {"tracking"}
    /\ conn' = "Disconnected" /\ mode' = "wifi" /\ needsReconnect' = FALSE
    /\ hasVideo' = FALSE /\ silent' = FALSE
    /\ Return("render")
    /\ UNCHANGED <<previous, flags, life, mac, wearer, faults>>

ResetConnection ==
    StopControlReceiver \/ JoinControl \/ CloseSockets \/ StopReceiver
    \/ JoinDiscovery \/ JoinReceive \/ ResetState

-----------------------------------------------------------------------------
(* RunFrame, from android_main's loop.                                     *)

Frame ==
    /\ At("render", "frame") /\ running /\ ~destroyRequested
    /\ needsReconnect' = FALSE
    /\ IF needsReconnect THEN Call("resetControl", <<"start", "shell">>) ELSE Goto("render", "shell")
    /\ UNCHANGED <<conn, mode, previous, sockets, flags, video, life, mac, wearer, faults>>

ShellReset ==
    /\ At("render", "shell")
    /\ shellReset' = FALSE
    /\ IF shellReset THEN Call("resetControl", <<"start", "retry">>) ELSE Goto("render", "retry")
    /\ UNCHANGED <<connection, sockets, flags, video, life, mac, resets, faults>>

MayProbe ==
    /\ "probe" \in Windows \/ ~Configuring("discovery")
    /\ "lost" \in Windows \/ \A t \in {"receive", "control"} : ~At(t, "lostStore") /\ ~At(t, "lostFlag")

\* RetryUsbAdbTransportIfNeeded.  The second between two tries is not counted.
RetryUsb ==
    /\ At("render", "retry")
    /\ conn # "Connected" /\ ~needsReconnect /\ objects
    /\ MayProbe
    /\ Probe(<<"video">>)
    /\ UNCHANGED <<conn, needsReconnect, mode, objects, flags, video, life, server, wearer, faults>>

NoRetry ==
    /\ At("render", "retry")
    /\ conn = "Connected" \/ needsReconnect \/ ~objects
    /\ Goto("render", "video")
    /\ UNCHANGED <<connection, sockets, flags, video, life, mac, wearer, faults>>

\* Mutant: the first frames are waited for for ever.
NoInitialVideoWaits ==
    /\ At("render", "video")
    /\ Goto("render", "events")
    /\ UNCHANGED <<connection, sockets, flags, video, life, mac, wearer, faults>>

\* No video in the first five seconds of a connection.
NoInitialVideo ==
    /\ At("render", "video")
    /\ IF conn = "Connected" /\ ~hasVideo /\ silent
       THEN Call("lost", <<"events">>) ELSE Goto("render", "events")
    /\ UNCHANGED <<connection, sockets, flags, video, life, mac, wearer, faults>>

NoEvent ==
    /\ At("render", "events")
    /\ Goto("render", IF sessionRunning THEN "render" ELSE "frame")
    /\ UNCHANGED <<connection, sockets, flags, video, life, mac, wearer, faults>>

\* READY: the session begins, CreateSwapchains starts the network.
SessionReady ==
    /\ At("render", "events") /\ ~sessionRunning /\ sessions < MaxSessions
    /\ sessionRunning' = TRUE /\ sessions' = sessions + 1
    /\ Call("start", <<"render">>)
    /\ UNCHANGED <<connection, sockets, flags, video, running, destroyRequested, links, mac, wearer, faults>>

SessionStopping ==
    /\ At("render", "events") /\ sessionRunning
    /\ Call("resetControl", <<"stopped">>)
    /\ UNCHANGED <<connection, sockets, flags, video, life, mac, wearer, faults>>

SessionStopped ==
    /\ At("render", "stopped")
    /\ sessionRunning' = FALSE /\ Goto("render", "frame")
    /\ UNCHANGED <<connection, sockets, flags, video, running, sessions, destroyRequested, links, mac, wearer, faults>>

SessionExiting ==
    /\ At("render", "events") /\ ~sessionRunning /\ sessions > 0
    /\ running' = FALSE /\ Goto("render", "frame")
    /\ UNCHANGED <<connection, sockets, flags, video, sessionRunning, sessions, destroyRequested, links, mac, wearer, faults>>

\* A frame is shown and tracking sent.
ShowVideo ==
    /\ At("render", "render") /\ Flowing
    /\ hasVideo' = TRUE /\ silent' = FALSE
    /\ TrackingBreaks \/ UNCHANGED <<open, faults>>
    /\ Goto("render", "frame")
    /\ UNCHANGED <<connection, objects, flags, life, mac, wearer>>

\* No video for two seconds.
VideoStops ==
    /\ At("render", "render") /\ ~Flowing /\ hasVideo /\ silent
    /\ hasVideo' = FALSE
    /\ Call("lost", <<"frame">>)
    /\ UNCHANGED <<silent, connection, sockets, flags, life, mac, wearer, faults>>

\* The last frame is shown again, or the shell, whose reset button may be pressed.
ShowShell ==
    /\ At("render", "render") /\ ~Flowing /\ ~(hasVideo /\ silent)
    /\ \/ ~hasVideo /\ resets < MaxResets /\ resets' = resets + 1 /\ shellReset' = TRUE
       \/ UNCHANGED wearer
    /\ Goto("render", "frame")
    /\ UNCHANGED <<connection, sockets, flags, video, life, mac, faults>>

\* Shutdown: the network first, then the OpenXR and GL objects.
Shutdown ==
    /\ At("render", "frame") /\ destroyRequested
    /\ Call("resetControl", <<"dead">>)
    /\ UNCHANGED <<connection, sockets, flags, video, life, mac, wearer, faults>>

Render ==
    \/ Frame \/ ShellReset \/ RetryUsb \/ NoRetry \/ NoInitialVideo \/ NoEvent
    \/ ShowVideo \/ VideoStops \/ ShowShell \/ Shutdown \/ SessionStopped
    \/ ProbeAnnounced \/ ProbeFails \/ StartNetworking \/ StartProbe \/ StartDiscovery
    \/ ResetConnection \/ ConfigureServerConnection("render") \/ OnConnectionLost("render")

-----------------------------------------------------------------------------
(* What is around the client.                                              *)

\* The time limit passes.
Silence ==
    /\ ~silent /\ ~Flowing /\ (conn = "Connected" \/ hasVideo)
    /\ silent' = TRUE
    /\ UNCHANGED <<connection, sockets, flags, code, hasVideo, life, mac, wearer, faults>>

MacDown ==
    /\ server # "down" /\ Fault
    /\ server' = "down" /\ eof' = TRUE
    /\ UNCHANGED <<connection, sockets, flags, code, video, life, wearer>>

MacUp ==
    /\ server = "down" /\ server' = "announcing"
    /\ UNCHANGED <<connection, sockets, flags, code, video, life, eof, wearer, faults>>

\* The Mac ends a session that sends no tracking or whose control stream is closed.
MacDrops ==
    /\ server \in {"wifi", "usb"}
    /\ "tracking" \notin open \/ ~sessionRunning \/ mode # server \/ (server = "usb" /\ "controlTcp" \notin open)
    /\ server' = "announcing" /\ eof' = (eof \/ server = "usb")
    /\ UNCHANGED <<connection, sockets, flags, code, video, life, wearer, faults>>

Destroy ==
    /\ ~destroyRequested /\ sessions > 0 /\ destroyRequested' = TRUE
    /\ UNCHANGED <<connection, sockets, flags, code, video, running, sessionRunning, sessions, links, mac, wearer, faults>>

Next ==
    \/ Render \/ SessionReady \/ SessionStopping \/ SessionExiting
    \/ Discovery \/ Receive \/ ControlReceive
    \/ Silence \/ MacDown \/ MacUp \/ MacDrops \/ Destroy

Spec == Init /\ [][Next]_vars

\* The threads run, time passes, the Mac comes back and ends dead sessions.
Fairness ==
    /\ WF_vars(Render) /\ WF_vars(Discovery) /\ WF_vars(Receive) /\ WF_vars(ControlReceive)
    /\ WF_vars(Silence) /\ WF_vars(MacUp) /\ WF_vars(MacDrops)

FairSpec == Spec /\ Fairness

-----------------------------------------------------------------------------
(* Properties.                                                             *)

\* Types, and what each thread may do: the client is reset by its render thread only.
TypeOK ==
    /\ conn \in {"Disconnected", "Discovering", "Connecting", "Connected"}
    /\ previous \in {"Disconnected", "Discovering", "Connecting", "Connected"}
    /\ mode \in {"wifi", "usb"} /\ server \in {"down", "announcing", "wifi", "usb"}
    /\ open \subseteq Control \cup {"discovery", "video", "tracking", "spatial"}
    /\ {needsReconnect, objects, discovering, receiving, controlRunning, hasVideo, silent,
        shellReset, running, sessionRunning, eof, destroyRequested} \subseteq BOOLEAN
    /\ Len(stack) <= 4
    /\ {pc["receive"], pc["control"]} \subseteq {"none", "run", "lost", "lostStore", "lostFlag", "done"}
    /\ pc["discovery"] \in {"none", "loop", "done"} \cup ConfigureLabels

\* The Mac streams from the moment it has the ClientConnect, so it never gets one from
\* a client whose video receiver does not listen yet (XrApp.cpp:2775).
ListensFirst ==
    [][server = "announcing" /\ server' \in {"wifi", "usb"} => "video" \in open /\ receiving]_vars

\* Whatever ended a connection, and whichever threads were at it, a reset leaves no
\* thread, no socket and no flag of it to the next one.
ResetLeavesNothing ==
    ~objects => /\ open = {} /\ ~discovering /\ ~receiving /\ ~controlRunning
                /\ \A t \in Threads \ {"render"} : pc[t] = "none"

\* No thread object is assigned while it is joinable, which would end the process.
NoTerminate == pc["render"] # "terminated"

\* A reconnect is asked for only when the present connection is gone: reports of the
\* same loss by two threads, and of one that a reset has dealt with, count once.
LossIsReal == needsReconnect => ~Flowing

\* What the runs check of the invariants together.
QuestSafe == TypeOK /\ ResetLeavesNothing /\ NoTerminate /\ LossIsReal

\* While the Mac is there and the session runs, the client always gets back to
\* streaming, after outages, lost messages, failed calls and resets.
Streaming == conn = "Connected" /\ hasVideo /\ Flowing
Recovers ==
    (sessionRunning /\ server # "down") ~>
        (Streaming \/ server = "down" \/ ~sessionRunning \/ destroyRequested)

\* A stream that stalls is given up: the client resets and goes back to its retry
\* loop (docs/platforms/quest.md:256).
StallResets == At("render", "lost") ~> (At("render", "resetControl") \/ ~sessionRunning)

\* The activity's end always gets through the joins.
ShutdownReturns == (destroyRequested /\ sessions > 0) ~> At("render", "dead")
=============================================================================
