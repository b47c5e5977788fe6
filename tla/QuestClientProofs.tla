-------------------------- MODULE QuestClientProofs --------------------------
(***************************************************************************)
(* The Quest client, proved for any links, any number of faults, of resets *)
(* and of sessions, outside the windows in which a second thread makes a   *)
(* connection ("probe", "reset", "lost"): what the runs check of the       *)
(* invariants together, and that the Mac only streams to a client that     *)
(* listens.                                                                *)
(*                                                                         *)
(* The argument.  A connection is there from StartReceiving, which makes   *)
(* the receive thread, to the join of that thread in a reset (Alive).      *)
(* Only one thread at a time makes a connection, and none does while one   *)
(* is there; while one is there and not being made, it is up, or its loss  *)
(* has been reported and not yet been dealt with.  What the client has     *)
(* open and running follows from where its render thread is in a reset,    *)
(* and nothing can start to flow after the ClientConnect is sent.          *)
(***************************************************************************)
EXTENDS QuestClient, SequenceTheorems, TLAPS

-----------------------------------------------------------------------------
(* Where the threads may be, and to where the render thread returns.       *)

LostLabels    == {"lost", "lostStore", "lostFlag"}
StartLabels   == {"start", "startProbe", "discover"}
LoopLabels    == {"frame", "shell", "retry", "video", "events", "render", "stopped", "dead"}
RenderLabels  == LoopLabels \cup StartLabels \cup ProbeLabels \cup ResetLabels \cup LostLabels
WatcherLabels == {"none", "run", "done"} \cup LostLabels
Labels        == RenderLabels \cup WatcherLabels \cup {"loop"}

\* Before the ClientConnect; after the receive thread is made; once the control socket is open.
PreSend == {"receive", "track", "openControl", "send"}
Listens == {"track", "openControl", "send", "startControl", "connected"}
Controls == {"send", "startControl", "connected"}

PlaceType ==
    /\ pc \in [Threads -> Labels]
    /\ pc["render"] \in RenderLabels
    /\ pc["discovery"] \in {"none", "loop", "done"} \cup ConfigureLabels
    /\ pc["receive"] \in WatcherLabels /\ pc["control"] \in WatcherLabels

\* StartNetworking returns into RunFrame; a reset and the probe return there too, or to it.
Callers == {<<"shell">>, <<"retry">>, <<"render">>}
ResetCallers ==
    {<<"stopped">>, <<"dead">>, <<"start", "shell">>, <<"start", "retry">>, <<"start", "render">>}
LossCallers == {<<"events">>, <<"frame">>}
UsbCaller == <<"video">>
StartProbers == {<<"discover", "shell">>, <<"discover", "retry">>, <<"discover", "render">>}

StackType ==
    /\ pc["render"] \in LoopLabels => stack = <<>>
    /\ pc["render"] \in StartLabels => stack \in Callers
    /\ pc["render"] \in ResetLabels => stack \in ResetCallers
    /\ pc["render"] \in ProbeLabels => stack = UsbCaller \/ stack \in StartProbers
    /\ pc["render"] \in LostLabels => stack \in LossCallers

States == {"Disconnected", "Discovering", "Connecting", "Connected"}
Sockets == Control \cup {"discovery", "video", "tracking", "spatial"}

StateType == conn \in States /\ previous \in States /\ mode \in {"wifi", "usb"}
             /\ server \in {"down", "announcing", "wifi", "usb"} /\ open \subseteq Sockets

FlagType ==
    /\ needsReconnect \in BOOLEAN /\ objects \in BOOLEAN /\ discovering \in BOOLEAN
    /\ receiving \in BOOLEAN /\ controlRunning \in BOOLEAN /\ hasVideo \in BOOLEAN

SwitchType ==
    /\ silent \in BOOLEAN /\ shellReset \in BOOLEAN /\ running \in BOOLEAN
    /\ sessionRunning \in BOOLEAN /\ eof \in BOOLEAN /\ destroyRequested \in BOOLEAN

-----------------------------------------------------------------------------
(* Making a connection.                                                    *)

Alive == pc["receive"] # "none"

\* One thread at a time makes a connection, each on its own link; the render thread has
\* no company in a reset, and none before it has started discovery.
OneAtATime ==
    /\ pc["render"] \in ProbeLabels => ~Configuring("discovery")
    /\ Configuring("render") => mode = "usb"
    /\ Configuring("discovery") => mode = "wifi"
    /\ pc["render"] \in ResetLabels \ {"resetControl"} => ~Configuring("discovery")
    /\ pc["render"] \in {"startProbe", "discover"} => pc["discovery"] = "none"
    /\ pc["render"] \in ProbeLabels /\ stack \in StartProbers => pc["discovery"] = "none"

\* A connection is made when there is none, and its receive thread is the first.
FreshAlive ==
    /\ pc["render"] \in {"probe", "startProbe", "receive"} => ~Alive
    /\ pc["discovery"] = "receive" => ~Alive
    /\ \A t \in {"render", "discovery"} : pc[t] \in Listens => Alive
    /\ ~Alive => pc["control"] = "none"
    /\ receiving => pc["receive"] = "run"
    /\ pc["receive"] \in LostLabels => ~receiving
    /\ pc["render"] \in LostLabels => Alive

\* The state of the connection and the threads that are there.
ConnFits ==
    /\ conn = "Connected" => Alive \/ At("render", "reset")
    /\ conn = "Connecting" => Configuring("render") \/ Configuring("discovery")
    /\ \A t \in {"render", "discovery"} : Configuring(t) => conn # "Connected"
    /\ pc["render"] = "probe" => {conn, previous} \subseteq {"Disconnected", "Discovering"}
    /\ pc["render"] = "startProbe" => conn = "Disconnected"
    /\ hasVideo => Alive \/ At("render", "reset")
    /\ needsReconnect => Alive \/ At("render", "reset")

\* A connection that is not up is being made, or its loss is on its way to a reset.
LossPends ==
    Alive => \/ conn = "Connected" \/ needsReconnect
             \/ \E t \in {"render", "discovery"} : pc[t] \in Listens
             \/ \E t \in {"render", "receive", "control"} : At(t, "lostFlag")
             \/ pc["render"] \in ResetLabels

-----------------------------------------------------------------------------
(* What is open and running.                                               *)

\* The control thread's socket.
ControlOpen == (IF mode = "usb" THEN "controlTcp" ELSE "controlUdp") \in open

\* While a connection is made and controlled, its sockets are open.
SocketsFit ==
    /\ \A t \in {"render", "discovery"} : pc[t] \in Listens => "video" \in open
    /\ pc["render"] \in ProbeLabels => "controlTcp" \in open
    /\ \A t \in {"render", "discovery"} : pc[t] \in Controls => ControlOpen
    /\ pc["control"] # "none" => ControlOpen

\* A reset goes through the threads, the sockets and the flags one by one.
ResetFits ==
    /\ pc["render"] \in ResetLabels \ {"resetControl"} => ~controlRunning
    /\ pc["render"] \in ResetLabels \ {"resetControl", "joinControl"} => pc["control"] = "none"
    /\ pc["render"] = "stop" => open \cap (Control \cup {"spatial"}) = {}
    /\ pc["render"] \in {"joinDiscovery", "joinReceive", "reset"} =>
           ~discovering /\ ~receiving /\ open \subseteq {"tracking"}
    /\ pc["render"] \in {"joinReceive", "reset"} => pc["discovery"] = "none"
    /\ pc["render"] = "reset" => ~Alive

\* There is nothing without the objects, which the calls of StartNetworking have made.
ObjectsFit ==
    /\ ResetLeavesNothing
    /\ pc["render"] \in {"startProbe", "discover"} \cup ProbeLabels => objects

-----------------------------------------------------------------------------
(* What flows.                                                             *)

\* Before the ClientConnect the Mac does not stream and nobody has been waited for; a
\* receive thread that has already gone had met the end of its stream.
QuietBefore ==
    \A t \in {"render", "discovery"} : pc[t] \in PreSend =>
        /\ server \in {"down", "announcing"} /\ ~hasVideo /\ ~silent
        /\ pc["control"] = "none" /\ pc["render"] \notin LostLabels
        /\ pc[t] # "receive" =>
               (pc["receive"] = "run" /\ receiving /\ ~needsReconnect) \/ (mode = "usb" /\ eof)

\* What has been given up does not flow again.
GivenUp ==
    /\ LossIsReal
    /\ silent => ~Flowing
    /\ pc["render"] \in LostLabels => ~Flowing
    /\ pc["control"] \in LostLabels => ~Flowing

\* The inductive invariant.
IInv ==
    /\ PlaceType /\ StackType /\ StateType /\ FlagType /\ SwitchType
    /\ OneAtATime /\ FreshAlive /\ ConnFits /\ LossPends
    /\ SocketsFit /\ ResetFits /\ ObjectsFit
    /\ QuietBefore /\ GivenUp

-----------------------------------------------------------------------------
(* The steps, by what they are about.                                      *)

\* The windows in which a second thread makes a connection are closed.
Closed == Windows \subseteq {"linger"}

Connects == ConfigureServerConnection("render") \/ ConfigureServerConnection("discovery")
Loses    == \E t \in {"render", "receive", "control"} : OnConnectionLost(t)
Resets   == ResetConnection
Starts   == RetryUsb \/ ProbeAnnounced \/ ProbeFails
            \/ StartNetworking \/ StartProbe \/ StartDiscovery
Finds    == OnServerFound
Ends     == DiscoveryEnds \/ ReceiveEnds \/ ControlEnds
Around   == Silence \/ MacDown \/ MacUp \/ MacDrops \/ Destroy \/ UNCHANGED vars
Loops    ==
    \/ Frame \/ ShellReset \/ NoRetry \/ NoInitialVideo \/ NoEvent \/ SessionReady \/ SessionStopping
    \/ SessionStopped \/ SessionExiting \/ ShowVideo \/ VideoStops \/ ShowShell \/ Shutdown

\* The stacks there are.
LEMMA Pair == ASSUME NEW a, NEW b PROVE <<a>> \o <<b>> = <<a, b>>
<1>1. <<a>> \in Seq({a, b}) /\ <<b>> \in Seq({a, b}) /\ <<a, b>> \in Seq({a, b})
  OBVIOUS
<1>2. <<a>> \o <<b>> \in Seq({a, b}) /\ Len(<<a>> \o <<b>>) = 2 /\ Len(<<a, b>>) = 2
  BY <1>1
<1>3. (<<a>> \o <<b>>)[1] = a /\ (<<a>> \o <<b>>)[2] = b
  BY <1>1
<1>4. \A i \in 1..2 : (<<a>> \o <<b>>)[i] = <<a, b>>[i]
  BY <1>3
<1> QED BY <1>1, <1>2, <1>4, SeqEqual

LEMMA StackFacts ==
    \A a, b :
        /\ Head(<<a>>) = a /\ Tail(<<a>>) = <<>> /\ <<a>> \o <<>> = <<a>>
        /\ Head(<<a, b>>) = a /\ Tail(<<a, b>>) = <<b>> /\ <<a, b>> \o <<>> = <<a, b>>
        /\ <<a>> \o <<b>> = <<a, b>>
        /\ <<>> \o <<b>> = <<b>> /\ <<>> \o <<>> = <<>>
<1> TAKE a, b
<1>1. <<a>> \o <<>> = <<a>> /\ <<a, b>> \o <<>> = <<a, b>>
  OBVIOUS
<1>2. <<>> \o <<b>> = <<b>> /\ <<>> \o <<>> = <<>>
  OBVIOUS
<1>3. <<a>> \o <<b>> = <<a, b>>
  BY Pair
<1> QED BY <1>1, <1>2, <1>3

\* What a return does with the stack, and what a call does.
LEMMA Heads ==
    /\ \A s \in Callers : Head(s) \in {"shell", "retry", "render"} /\ Tail(s) = <<>>
    /\ \A s \in ResetCallers : \/ Head(s) \in {"stopped", "dead"} /\ Tail(s) = <<>>
                               \/ Head(s) = "start" /\ Tail(s) \in Callers
    /\ \A s \in StartProbers : Head(s) = "discover" /\ Tail(s) \in Callers
    /\ \A s \in LossCallers : Head(s) \in {"events", "frame"} /\ Tail(s) = <<>>
    /\ Head(UsbCaller) = "video" /\ Tail(UsbCaller) = <<>>
<1>1. \A a : Head(<<a>>) = a /\ Tail(<<a>>) = <<>>
  OBVIOUS
<1>2. \A a, b : Head(<<a, b>>) = a /\ Tail(<<a, b>>) = <<b>>
  OBVIOUS
<1>3. \A s \in Callers : Head(s) \in {"shell", "retry", "render"} /\ Tail(s) = <<>>
  BY <1>1, Zenon DEF Callers
<1>4. \A s \in ResetCallers : \/ Head(s) \in {"stopped", "dead"} /\ Tail(s) = <<>>
                              \/ Head(s) = "start" /\ Tail(s) \in Callers
  <2>1. <<"shell">> \in Callers /\ <<"retry">> \in Callers /\ <<"render">> \in Callers
    BY DEF Callers
  <2>2. Head(<<"stopped">>) = "stopped" /\ Tail(<<"stopped">>) = <<>>
    OBVIOUS
  <2>3. Head(<<"dead">>) = "dead" /\ Tail(<<"dead">>) = <<>>
    OBVIOUS
  <2>4. \A c : Head(<<"start", c>>) = "start" /\ Tail(<<"start", c>>) = <<c>>
    OBVIOUS
  <2> SUFFICES ASSUME NEW s \in ResetCallers
               PROVE  \/ Head(s) \in {"stopped", "dead"} /\ Tail(s) = <<>>
                      \/ Head(s) = "start" /\ Tail(s) \in Callers
    OBVIOUS
  <2>5. CASE s = <<"stopped">> \/ s = <<"dead">>
    BY <2>5, <2>2, <2>3, Zenon
  <2>6. CASE s = <<"start", "shell">> \/ s = <<"start", "retry">> \/ s = <<"start", "render">>
    BY <2>6, <2>1, <2>4, Zenon
  <2> QED BY <2>5, <2>6, Zenon DEF ResetCallers
<1>5. \A s \in StartProbers : Head(s) = "discover" /\ Tail(s) \in Callers
  BY <1>2, Zenon DEF StartProbers, Callers
<1>6. \A s \in LossCallers : Head(s) \in {"events", "frame"} /\ Tail(s) = <<>>
  BY <1>1, Zenon DEF LossCallers
<1> QED BY <1>1, <1>3, <1>4, <1>5, <1>6 DEF UsbCaller

LEMMA Returns ==
    ASSUME PlaceType, StackType
    PROVE  /\ pc["render"] \in StartLabels =>
                  Head(stack) \in {"shell", "retry", "render"} /\ Tail(stack) = <<>>
           /\ pc["render"] \in ResetLabels =>
                  \/ Head(stack) \in {"stopped", "dead"} /\ Tail(stack) = <<>>
                  \/ Head(stack) = "start" /\ Tail(stack) \in Callers
           /\ pc["render"] \in ProbeLabels =>
                  \/ stack = UsbCaller /\ Head(stack) = "video" /\ Tail(stack) = <<>>
                  \/ stack \in StartProbers /\ Head(stack) = "discover" /\ Tail(stack) \in Callers
           /\ pc["render"] \in LostLabels =>
                  Head(stack) \in {"events", "frame"} /\ Tail(stack) = <<>>
<1>1. pc["render"] \in ProbeLabels => stack = UsbCaller \/ stack \in StartProbers
  BY DEF StackType
<1> QED BY <1>1, Heads, Zenon DEF StackType

LEMMA Calls ==
    /\ \A c \in Callers :
           <<"start">> \o c \in ResetCallers /\ <<"discover">> \o c \in StartProbers /\ <<>> \o c = c
    /\ <<"start", "shell">> \o <<>> \in ResetCallers /\ <<"start", "retry">> \o <<>> \in ResetCallers
    /\ <<"stopped">> \o <<>> \in ResetCallers /\ <<"dead">> \o <<>> \in ResetCallers
    /\ <<"render">> \o <<>> \in Callers
    /\ <<"video">> \o <<>> = UsbCaller /\ <<"events">> \o <<>> \in LossCallers
    /\ <<"frame">> \o <<>> \in LossCallers
    /\ Head(<<"discover">>) = "discover" /\ Tail(<<"discover">>) = <<>>
    /\ Head(<<"video">>) = "video" /\ Tail(<<"video">>) = <<>> /\ <<>> \o <<>> = <<>>
BY StackFacts DEF Callers, ResetCallers, StartProbers, LossCallers, UsbCaller

LEMMA Steps ==
    ASSUME [Next]_vars
    PROVE  Connects \/ Loses \/ Resets \/ Loops \/ Starts \/ Finds \/ Ends \/ Around
BY DEF Next, Render, Discovery, Receive, ControlReceive, Connects, Loses, Resets, Loops, Starts,
       Finds, Ends, Around

\* Every thread stays in its code: nothing assigns a thread that is joinable.
LEMMA PlaceKept == ASSUME Closed, IInv, [Next]_vars PROVE PlaceType'
<1> USE DEF PlaceType, IInv, Alive, PlaceType, StackType, FreshAlive, OneAtATime, Configuring,
   Closed, At, Goto, Call, Return, ReturnLabel, vars, connection, sockets, flags, code, video, life,
   mac, wearer, Labels, RenderLabels, LoopLabels, StartLabels, ProbeLabels, ResetLabels,
   ConfigureLabels, LostLabels, WatcherLabels, Threads
<1>1. CASE Connects
  BY <1>1, Returns, Calls DEF Connects, ConfigureServerConnection, StartReceiving, Receiving,
     NotReceiving, Terminate, Fault, ConnectTracking, TrackingConnects, ConnectControl,
     OpenUsbSpatialSocket, OpenControlSocket, SendClientConnect, StartControlReceiver, Joined,
     Connected
<1>2. CASE Loses
  BY <1>2, Returns, Calls DEF Loses, OnConnectionLost, LostLoad, LostStore, LostFlag
<1>3. CASE Resets
  BY <1>3, Returns, Calls DEF Resets, ResetConnection, StopControlReceiver, MayReset, JoinControl,
     Joined, CloseSockets, CloseSpatialSocket, CloseControlSocket, MacToldGoodbye, Fault,
     StopReceiver, JoinDiscovery, JoinReceive, ResetState
<1>4. CASE Loops
  BY <1>4, Returns, Calls DEF Loops, Frame, ShellReset, NoRetry, NoInitialVideo, NoEvent,
     SessionReady, SessionStopping, SessionStopped, SessionExiting, ShowVideo, TrackingBreaks,
     Fault, VideoStops, ShowShell, Shutdown
<1>5. CASE Starts
  BY <1>5, Returns, Calls DEF Starts, RetryUsb, MayProbe, Probe, OpenUsbControlSocket,
     ProbeAnnounced, Configure, ProbeFails, Fault, StartNetworking, StartProbe, StartDiscovery,
     BeginDiscovery, Terminate
<1>6. CASE Finds
  BY <1>6, Returns, Calls DEF Finds, OnServerFound, MayConfigure, Configure
<1>7. CASE Ends
  BY <1>7, Returns, Calls DEF Ends, DiscoveryEnds, ReceiveEnds, ControlEnds, ControlFails
<1>8. CASE Around
  BY <1>8, Returns, Calls DEF Around, Silence, MacDown, MacUp, MacDrops, Destroy, Fault
<1> QED BY <1>1, <1>2, <1>3, <1>4, <1>5, <1>6, <1>7, <1>8, Steps

\* A call pushes where it returns to, a return takes it.
LEMMA StackKept == ASSUME Closed, IInv, [Next]_vars PROVE StackType'
<1> USE DEF StackType, IInv, PlaceType, At, Goto, Call, Return, ReturnLabel, vars, connection,
   sockets, flags, code, video, life, mac, wearer, Labels, RenderLabels, LoopLabels, StartLabels,
   ProbeLabels, ResetLabels, ConfigureLabels, LostLabels, WatcherLabels, Threads
<1>1. CASE Connects
  <2>1. ASSUME NEW t \in {"render", "discovery"}, StartReceiving(t) PROVE StackType'
    <3> USE <2>1 DEF StartReceiving
    <3>1. CASE Receiving(t)
      BY <3>1, <1>1 DEF Receiving, Terminate
    <3>2. CASE NotReceiving(t) /\ t = "discovery"
      BY <3>2 DEF NotReceiving
    <3>3. CASE NotReceiving(t) /\ t = "render"
      <4>1. Head(stack) \in {"video", "discover"} /\ (Head(stack) = "video" => Tail(stack) = <<>>)
            /\ (Head(stack) = "discover" => Tail(stack) \in Callers)
        BY <3>3, Returns
      <4>2. pc'["render"] = Head(stack) /\ stack' = Tail(stack)
        BY <3>3 DEF NotReceiving
      <4> QED BY <4>1, <4>2
    <3> QED BY <3>1, <3>2, <3>3
  <2>2. ASSUME NEW t \in {"render", "discovery"}, ConnectTracking(t) PROVE StackType'
    BY <2>2, Returns, Calls DEF ConnectTracking, TrackingConnects, Fault
  <2>3. ASSUME NEW t \in {"render", "discovery"}, ConnectControl(t) PROVE StackType'
    BY <2>3, Returns, Calls DEF ConnectControl, OpenUsbSpatialSocket, OpenControlSocket
  <2>4. ASSUME NEW t \in {"render", "discovery"}, SendClientConnect(t) PROVE StackType'
    BY <2>4, Returns, Calls DEF SendClientConnect, Fault
  <2>5. ASSUME NEW t \in {"render", "discovery"}, StartControlReceiver(t) PROVE StackType'
    BY <2>5, Returns, Calls DEF StartControlReceiver, Joined
  <2>6. ASSUME NEW t \in {"render", "discovery"}, Connected(t) PROVE StackType'
    BY <2>6, Returns, Calls DEF Connected
  <2> QED BY <1>1, <2>1, <2>2, <2>3, <2>4, <2>5, <2>6 DEF Connects, ConfigureServerConnection
<1>2. CASE Loses
  <2>1. ASSUME NEW t \in {"render", "receive", "control"}, LostLoad(t) PROVE StackType'
    <3> USE <2>1 DEF LostLoad
    <3>1. CASE t # "render"
      BY <3>1
    <3>2. CASE t = "render" /\ conn \in {"Disconnected", "Discovering"}
      <4>1. Head(stack) \in {"events", "frame"} /\ Tail(stack) = <<>>
        BY <3>2, Returns
      <4>2. pc'["render"] = Head(stack) /\ stack' = Tail(stack)
        BY <3>2 DEF PlaceType, Threads
      <4> QED BY <4>1, <4>2
    <3>3. CASE t = "render" /\ ~(conn \in {"Disconnected", "Discovering"})
      BY <3>3
    <3> QED BY <3>1, <3>2, <3>3
  <2>2. ASSUME NEW t \in {"render", "receive", "control"}, LostStore(t) PROVE StackType'
    BY <2>2, Returns, Calls DEF LostStore
  <2>3. ASSUME NEW t \in {"render", "receive", "control"}, LostFlag(t) PROVE StackType'
    BY <2>3, Returns, Calls DEF LostFlag
  <2> QED BY <1>2, <2>1, <2>2, <2>3 DEF Loses, OnConnectionLost
<1>3. CASE Resets
  <2>1. CASE StopControlReceiver
    BY <2>1, Returns, Calls DEF StopControlReceiver, MayReset
  <2>2. CASE JoinControl
    BY <2>2, Returns, Calls DEF JoinControl, Joined
  <2>3. CASE CloseSockets
    BY <2>3, Returns, Calls DEF CloseSockets, CloseSpatialSocket, CloseControlSocket,
       MacToldGoodbye, Fault
  <2>4. CASE StopReceiver
    BY <2>4, Returns, Calls DEF StopReceiver
  <2>5. CASE JoinDiscovery
    BY <2>5, Returns, Calls DEF JoinDiscovery, Joined
  <2>6. CASE JoinReceive
    BY <2>6, Returns, Calls DEF JoinReceive, Joined
  <2>7. CASE ResetState
    BY <2>7, Returns, Calls DEF ResetState
  <2> QED BY <1>3, <2>1, <2>2, <2>3, <2>4, <2>5, <2>6, <2>7 DEF Resets, ResetConnection
<1>4. CASE Loops
  BY <1>4, Returns, Calls DEF Loops, Frame, ShellReset, NoRetry, NoInitialVideo, NoEvent,
     SessionReady, SessionStopping, SessionStopped, SessionExiting, ShowVideo, TrackingBreaks,
     Fault, VideoStops, ShowShell, Shutdown
<1>5. CASE Starts
  <2>1. CASE RetryUsb
    BY <2>1, Returns, Calls DEF RetryUsb, MayProbe, Probe, OpenUsbControlSocket
  <2>2. CASE ProbeAnnounced
    BY <2>2, Returns, Calls DEF ProbeAnnounced, Configure
  <2>3. CASE ProbeFails
    BY <2>3, Returns, Calls DEF ProbeFails, Fault
  <2>4. CASE StartNetworking
    <3>0. stack \in Callers
      BY <2>4 DEF StartNetworking
    <3>1. \/ pc'["render"] = "resetControl" /\ stack' = <<"start">> \o stack
          \/ pc'["render"] = "startProbe" /\ stack' = stack
      BY <2>4 DEF StartNetworking
    <3>2. stack' \in ResetCallers \/ (pc'["render"] = "startProbe" /\ stack' \in Callers)
      BY <3>0, <3>1, Calls
    <3> QED BY <3>0, <3>1, <3>2
  <2>5. CASE StartProbe
    <3>0. stack \in Callers
      BY <2>5 DEF StartProbe
    <3>1. \/ pc'["render"] = "probe" /\ stack' = <<"discover">> \o stack
          \/ pc'["render"] = "discover" /\ stack' = <<>> \o stack
      BY <2>5, Calls DEF StartProbe, Probe
    <3>2. stack' \in StartProbers \/ (pc'["render"] = "discover" /\ stack' \in Callers)
      BY <3>0, <3>1, Calls
    <3> QED BY <3>0, <3>1, <3>2
  <2>6. CASE StartDiscovery
    <3>1. Head(stack) \in {"shell", "retry", "render"} /\ Tail(stack) = <<>>
      BY <2>6, Returns DEF StartDiscovery
    <3>2. \/ pc'["render"] = Head(stack) /\ stack' = Tail(stack)
          \/ pc'["render"] = "terminated"
      BY <2>6 DEF StartDiscovery, BeginDiscovery, Terminate
    <3> QED BY <3>1, <3>2
  <2> QED BY <1>5, <2>1, <2>2, <2>3, <2>4, <2>5, <2>6 DEF Starts
<1>6. CASE Finds
  BY <1>6, Returns, Calls DEF Finds, OnServerFound, MayConfigure, Configure
<1>7. CASE Ends
  BY <1>7, Returns, Calls DEF Ends, DiscoveryEnds, ReceiveEnds, ControlEnds, ControlFails
<1>8. CASE Around
  BY <1>8, Returns, Calls DEF Around, Silence, MacDown, MacUp, MacDrops, Destroy, Fault
<1> QED BY <1>1, <1>2, <1>3, <1>4, <1>5, <1>6, <1>7, <1>8, Steps

\* The values of the connection, the Mac and the sockets.
LEMMA StateKept == ASSUME Closed, IInv, [Next]_vars PROVE StateType'
<1> USE DEF StateType, IInv, PlaceType, States, Sockets, ConnFits, Control, At, Goto, Call, Return,
   ReturnLabel, vars, connection, sockets, flags, code, video, life, mac, wearer, Labels,
   RenderLabels, LoopLabels, StartLabels, ProbeLabels, ResetLabels, ConfigureLabels, LostLabels,
   WatcherLabels, Threads
<1>1. CASE Connects
  BY <1>1 DEF Connects, ConfigureServerConnection, StartReceiving, Receiving, NotReceiving,
     Terminate, Fault, ConnectTracking, TrackingConnects, ConnectControl, OpenUsbSpatialSocket,
     OpenControlSocket, SendClientConnect, StartControlReceiver, Joined, Connected
<1>2. CASE Loses
  BY <1>2 DEF Loses, OnConnectionLost, LostLoad, LostStore, LostFlag
<1>3. CASE Resets
  BY <1>3 DEF Resets, ResetConnection, StopControlReceiver, MayReset, JoinControl, Joined,
     CloseSockets, CloseSpatialSocket, CloseControlSocket, MacToldGoodbye, Fault, StopReceiver,
     JoinDiscovery, JoinReceive, ResetState
<1>4. CASE Loops
  BY <1>4 DEF Loops, Frame, ShellReset, NoRetry, NoInitialVideo, NoEvent, SessionReady,
     SessionStopping, SessionStopped, SessionExiting, ShowVideo, TrackingBreaks, Fault, VideoStops,
     ShowShell, Shutdown
<1>5. CASE Starts
  BY <1>5 DEF Starts, RetryUsb, MayProbe, Probe, OpenUsbControlSocket, ProbeAnnounced, Configure,
     ProbeFails, Fault, StartNetworking, StartProbe, StartDiscovery, BeginDiscovery, Terminate
<1>6. CASE Finds
  BY <1>6 DEF Finds, OnServerFound, MayConfigure, Configure
<1>7. CASE Ends
  BY <1>7 DEF Ends, DiscoveryEnds, ReceiveEnds, ControlEnds, ControlFails
<1>8. CASE Around
  BY <1>8 DEF Around, Silence, MacDown, MacUp, MacDrops, Destroy, Fault
<1> QED BY <1>1, <1>2, <1>3, <1>4, <1>5, <1>6, <1>7, <1>8, Steps

\* The flags of the connection.
LEMMA FlagKept == ASSUME Closed, IInv, [Next]_vars PROVE FlagType'
<1> USE DEF FlagType, IInv, At, Goto, Call, Return, ReturnLabel, vars, connection, sockets, flags,
   code, video, life, mac, wearer
<1>1. CASE Connects
  BY <1>1 DEF Connects, ConfigureServerConnection, StartReceiving, Receiving, NotReceiving,
     Terminate, Fault, ConnectTracking, TrackingConnects, ConnectControl, OpenUsbSpatialSocket,
     OpenControlSocket, SendClientConnect, StartControlReceiver, Joined, Connected
<1>2. CASE Loses
  BY <1>2 DEF Loses, OnConnectionLost, LostLoad, LostStore, LostFlag
<1>3. CASE Resets
  BY <1>3 DEF Resets, ResetConnection, StopControlReceiver, MayReset, JoinControl, Joined,
     CloseSockets, CloseSpatialSocket, CloseControlSocket, MacToldGoodbye, Fault, StopReceiver,
     JoinDiscovery, JoinReceive, ResetState
<1>4. CASE Loops
  BY <1>4 DEF Loops, Frame, ShellReset, NoRetry, NoInitialVideo, NoEvent, SessionReady,
     SessionStopping, SessionStopped, SessionExiting, ShowVideo, TrackingBreaks, Fault, VideoStops,
     ShowShell, Shutdown
<1>5. CASE Starts
  BY <1>5 DEF Starts, RetryUsb, MayProbe, Probe, OpenUsbControlSocket, ProbeAnnounced, Configure,
     ProbeFails, Fault, StartNetworking, StartProbe, StartDiscovery, BeginDiscovery, Terminate
<1>6. CASE Finds
  BY <1>6 DEF Finds, OnServerFound, MayConfigure, Configure
<1>7. CASE Ends
  BY <1>7 DEF Ends, DiscoveryEnds, ReceiveEnds, ControlEnds, ControlFails
<1>8. CASE Around
  BY <1>8 DEF Around, Silence, MacDown, MacUp, MacDrops, Destroy, Fault
<1> QED BY <1>1, <1>2, <1>3, <1>4, <1>5, <1>6, <1>7, <1>8, Steps

\* The other flags.
LEMMA SwitchKept == ASSUME Closed, IInv, [Next]_vars PROVE SwitchType'
<1> USE DEF SwitchType, IInv, At, Goto, Call, Return, ReturnLabel, vars, connection, sockets, flags,
   code, video, life, mac, wearer
<1>1. CASE Connects
  BY <1>1 DEF Connects, ConfigureServerConnection, StartReceiving, Receiving, NotReceiving,
     Terminate, Fault, ConnectTracking, TrackingConnects, ConnectControl, OpenUsbSpatialSocket,
     OpenControlSocket, SendClientConnect, StartControlReceiver, Joined, Connected
<1>2. CASE Loses
  BY <1>2 DEF Loses, OnConnectionLost, LostLoad, LostStore, LostFlag
<1>3. CASE Resets
  BY <1>3 DEF Resets, ResetConnection, StopControlReceiver, MayReset, JoinControl, Joined,
     CloseSockets, CloseSpatialSocket, CloseControlSocket, MacToldGoodbye, Fault, StopReceiver,
     JoinDiscovery, JoinReceive, ResetState
<1>4. CASE Loops
  BY <1>4 DEF Loops, Frame, ShellReset, NoRetry, NoInitialVideo, NoEvent, SessionReady,
     SessionStopping, SessionStopped, SessionExiting, ShowVideo, TrackingBreaks, Fault, VideoStops,
     ShowShell, Shutdown
<1>5. CASE Starts
  BY <1>5 DEF Starts, RetryUsb, MayProbe, Probe, OpenUsbControlSocket, ProbeAnnounced, Configure,
     ProbeFails, Fault, StartNetworking, StartProbe, StartDiscovery, BeginDiscovery, Terminate
<1>6. CASE Finds
  BY <1>6 DEF Finds, OnServerFound, MayConfigure, Configure
<1>7. CASE Ends
  BY <1>7 DEF Ends, DiscoveryEnds, ReceiveEnds, ControlEnds, ControlFails
<1>8. CASE Around
  BY <1>8 DEF Around, Silence, MacDown, MacUp, MacDrops, Destroy, Fault
<1> QED BY <1>1, <1>2, <1>3, <1>4, <1>5, <1>6, <1>7, <1>8, Steps

\* Only one thread at a time makes a connection.
LEMMA OneKept == ASSUME Closed, IInv, [Next]_vars PROVE OneAtATime'
<1> USE DEF OneAtATime, IInv, PlaceType, StackType, Closed, Configuring, ObjectsFit,
   ResetLeavesNothing, At, Goto, Call, Return, ReturnLabel, vars, connection, sockets, flags, code,
   video, life, mac, wearer, Labels, RenderLabels, LoopLabels, StartLabels, ProbeLabels,
   ResetLabels, ConfigureLabels, LostLabels, WatcherLabels, Threads
<1>1. CASE Connects
  BY <1>1, Returns DEF Connects, ConfigureServerConnection, StartReceiving, Receiving, NotReceiving,
     Terminate, Fault, ConnectTracking, TrackingConnects, ConnectControl, OpenUsbSpatialSocket,
     OpenControlSocket, SendClientConnect, StartControlReceiver, Joined, Connected
<1>2. CASE Loses
  BY <1>2, Returns DEF Loses, OnConnectionLost, LostLoad, LostStore, LostFlag
<1>3. CASE Resets
  BY <1>3, Returns DEF Resets, ResetConnection, StopControlReceiver, MayReset, JoinControl, Joined,
     CloseSockets, CloseSpatialSocket, CloseControlSocket, MacToldGoodbye, Fault, StopReceiver,
     JoinDiscovery, JoinReceive, ResetState
<1>4. CASE Loops
  BY <1>4, Returns DEF Loops, Frame, ShellReset, NoRetry, NoInitialVideo, NoEvent, SessionReady,
     SessionStopping, SessionStopped, SessionExiting, ShowVideo, TrackingBreaks, Fault, VideoStops,
     ShowShell, Shutdown
<1>5. CASE Starts
  <2>1. CASE RetryUsb
    <3>1. ~Configuring("discovery") /\ stack = <<>>
      BY <2>1 DEF RetryUsb, MayProbe
    <3>2. \/ pc'["render"] = "probe" /\ stack' = UsbCaller
          \/ pc'["render"] = "video"
      BY <2>1, <3>1, Calls, Heads DEF RetryUsb, Probe
    <3>3. pc'["discovery"] = pc["discovery"]
      BY <2>1 DEF RetryUsb, Probe
    <3>4. UsbCaller \notin StartProbers
      BY Heads
    <3> QED BY <3>1, <3>2, <3>3, <3>4 
  <2>2. CASE ProbeAnnounced
    BY <2>2, Returns DEF ProbeAnnounced, Configure
  <2>3. CASE ProbeFails
    BY <2>3, Returns DEF ProbeFails, Fault
  <2>4. CASE StartNetworking
    BY <2>4, Returns DEF StartNetworking
  <2>5. CASE StartProbe
    BY <2>5, Returns DEF StartProbe, Probe, OpenUsbControlSocket
  <2>6. CASE StartDiscovery
    BY <2>6, Returns DEF StartDiscovery, BeginDiscovery, Terminate
  <2> QED BY <1>5, <2>1, <2>2, <2>3, <2>4, <2>5, <2>6 DEF Starts
<1>6. CASE Finds
  BY <1>6, Returns DEF Finds, OnServerFound, MayConfigure, Configure
<1>7. CASE Ends
  BY <1>7, Returns DEF Ends, DiscoveryEnds, ReceiveEnds, ControlEnds, ControlFails
<1>8. CASE Around
  BY <1>8, Returns DEF Around, Silence, MacDown, MacUp, MacDrops, Destroy, Fault
<1> QED BY <1>1, <1>2, <1>3, <1>4, <1>5, <1>6, <1>7, <1>8, Steps

\* A connection is made when there is none.
LEMMA FreshKept == ASSUME Closed, IInv, [Next]_vars PROVE FreshAlive'
<1> USE DEF FreshAlive, IInv, PlaceType, StackType, Closed, Configuring, OneAtATime, LossPends,
   ConnFits, ResetFits, Alive, Listens, ObjectsFit, ResetLeavesNothing, At, Goto, Call, Return,
   ReturnLabel, vars, connection, sockets, flags, code, video, life, mac, wearer, Labels,
   RenderLabels, LoopLabels, StartLabels, ProbeLabels, ResetLabels, ConfigureLabels, LostLabels,
   WatcherLabels, Threads
<1>1. CASE Connects
  BY <1>1, Returns DEF Connects, ConfigureServerConnection, StartReceiving, Receiving, NotReceiving,
     Terminate, Fault, ConnectTracking, TrackingConnects, ConnectControl, OpenUsbSpatialSocket,
     OpenControlSocket, SendClientConnect, StartControlReceiver, Joined, Connected
<1>2. CASE Loses
  BY <1>2, Returns DEF Loses, OnConnectionLost, LostLoad, LostStore, LostFlag
<1>3. CASE Resets
  BY <1>3, Returns DEF Resets, ResetConnection, StopControlReceiver, MayReset, JoinControl, Joined,
     CloseSockets, CloseSpatialSocket, CloseControlSocket, MacToldGoodbye, Fault, StopReceiver,
     JoinDiscovery, JoinReceive, ResetState
<1>4. CASE Loops
  BY <1>4, Returns DEF Loops, Frame, ShellReset, NoRetry, NoInitialVideo, NoEvent, SessionReady,
     SessionStopping, SessionStopped, SessionExiting, ShowVideo, TrackingBreaks, Fault, VideoStops,
     ShowShell, Shutdown
<1>5. CASE Starts
  BY <1>5, Returns DEF Starts, RetryUsb, MayProbe, Probe, OpenUsbControlSocket, ProbeAnnounced,
     Configure, ProbeFails, Fault, StartNetworking, StartProbe, StartDiscovery, BeginDiscovery,
     Terminate
<1>6. CASE Finds
  BY <1>6, Returns DEF Finds, OnServerFound, MayConfigure, Configure
<1>7. CASE Ends
  BY <1>7, Returns DEF Ends, DiscoveryEnds, ReceiveEnds, ControlEnds, ControlFails
<1>8. CASE Around
  BY <1>8, Returns DEF Around, Silence, MacDown, MacUp, MacDrops, Destroy, Fault
<1> QED BY <1>1, <1>2, <1>3, <1>4, <1>5, <1>6, <1>7, <1>8, Steps

\* The state fits the threads there are.
LEMMA ConnKept == ASSUME Closed, IInv, [Next]_vars PROVE ConnFits'
<1> USE DEF ConnFits, IInv, PlaceType, StateType, States, Closed, Configuring, OneAtATime,
   FreshAlive, LossPends, ResetFits, Alive, Listens, ObjectsFit, ResetLeavesNothing, StackType,
   Flowing, At, Goto, Call, Return, ReturnLabel, vars, connection, sockets, flags, code, video,
   life, mac, wearer, Labels, RenderLabels, LoopLabels, StartLabels, ProbeLabels, ResetLabels,
   ConfigureLabels, LostLabels, WatcherLabels, Threads
<1>1. CASE Connects
  BY <1>1, Returns DEF Connects, ConfigureServerConnection, StartReceiving, Receiving, NotReceiving,
     Terminate, Fault, ConnectTracking, TrackingConnects, ConnectControl, OpenUsbSpatialSocket,
     OpenControlSocket, SendClientConnect, StartControlReceiver, Joined, Connected
<1>2. CASE Loses
  BY <1>2, Returns DEF Loses, OnConnectionLost, LostLoad, LostStore, LostFlag
<1>3. CASE Resets
  BY <1>3, Returns DEF Resets, ResetConnection, StopControlReceiver, MayReset, JoinControl, Joined,
     CloseSockets, CloseSpatialSocket, CloseControlSocket, MacToldGoodbye, Fault, StopReceiver,
     JoinDiscovery, JoinReceive, ResetState
<1>4. CASE Loops
  BY <1>4, Returns DEF Loops, Frame, ShellReset, NoRetry, NoInitialVideo, NoEvent, SessionReady,
     SessionStopping, SessionStopped, SessionExiting, ShowVideo, TrackingBreaks, Fault, VideoStops,
     ShowShell, Shutdown
<1>5. CASE Starts
  BY <1>5, Returns DEF Starts, RetryUsb, MayProbe, Probe, OpenUsbControlSocket, ProbeAnnounced,
     Configure, ProbeFails, Fault, StartNetworking, StartProbe, StartDiscovery, BeginDiscovery,
     Terminate
<1>6. CASE Finds
  BY <1>6, Returns DEF Finds, OnServerFound, MayConfigure, Configure
<1>7. CASE Ends
  BY <1>7, Returns DEF Ends, DiscoveryEnds, ReceiveEnds, ControlEnds, ControlFails
<1>8. CASE Around
  BY <1>8, Returns DEF Around, Silence, MacDown, MacUp, MacDrops, Destroy, Fault
<1> QED BY <1>1, <1>2, <1>3, <1>4, <1>5, <1>6, <1>7, <1>8, Steps

\* A connection that is lost is on its way to a reset.
LEMMA LossKept == ASSUME Closed, IInv, [Next]_vars PROVE LossPends'
<1> USE DEF LossPends, IInv, PlaceType, StateType, States, Closed, Configuring, OneAtATime,
   FreshAlive, ConnFits, ResetFits, Alive, Listens, ObjectsFit, ResetLeavesNothing, StackType, At,
   Goto, Call, Return, ReturnLabel, vars, connection, sockets, flags, code, video, life, mac,
   wearer, Labels, RenderLabels, LoopLabels, StartLabels, ProbeLabels, ResetLabels, ConfigureLabels,
   LostLabels, WatcherLabels, Threads
<1>1. CASE Connects
  BY <1>1, Returns DEF Connects, ConfigureServerConnection, StartReceiving, Receiving, NotReceiving,
     Terminate, Fault, ConnectTracking, TrackingConnects, ConnectControl, OpenUsbSpatialSocket,
     OpenControlSocket, SendClientConnect, StartControlReceiver, Joined, Connected
<1>2. CASE Loses
  BY <1>2, Returns DEF Loses, OnConnectionLost, LostLoad, LostStore, LostFlag
<1>3. CASE Resets
  BY <1>3, Returns DEF Resets, ResetConnection, StopControlReceiver, MayReset, JoinControl, Joined,
     CloseSockets, CloseSpatialSocket, CloseControlSocket, MacToldGoodbye, Fault, StopReceiver,
     JoinDiscovery, JoinReceive, ResetState
<1>4. CASE Loops
  BY <1>4, Returns DEF Loops, Frame, ShellReset, NoRetry, NoInitialVideo, NoEvent, SessionReady,
     SessionStopping, SessionStopped, SessionExiting, ShowVideo, TrackingBreaks, Fault, VideoStops,
     ShowShell, Shutdown
<1>5. CASE Starts
  BY <1>5, Returns DEF Starts, RetryUsb, MayProbe, Probe, OpenUsbControlSocket, ProbeAnnounced,
     Configure, ProbeFails, Fault, StartNetworking, StartProbe, StartDiscovery, BeginDiscovery,
     Terminate
<1>6. CASE Finds
  BY <1>6, Returns DEF Finds, OnServerFound, MayConfigure, Configure
<1>7. CASE Ends
  BY <1>7, Returns DEF Ends, DiscoveryEnds, ReceiveEnds, ControlEnds, ControlFails
<1>8. CASE Around
  BY <1>8, Returns DEF Around, Silence, MacDown, MacUp, MacDrops, Destroy, Fault
<1> QED BY <1>1, <1>2, <1>3, <1>4, <1>5, <1>6, <1>7, <1>8, Steps

\* The sockets of a connection stay open while it is made and controlled.
LEMMA SocketsKept == ASSUME Closed, IInv, [Next]_vars PROVE SocketsFit'
<1> USE DEF SocketsFit, IInv, PlaceType, StateType, States, Control, Closed, Configuring,
   OneAtATime, FreshAlive, ConnFits, ResetFits, Alive, Listens, Controls, ControlOpen, ObjectsFit,
   ResetLeavesNothing, StackType, At, Goto, Call, Return, ReturnLabel, vars, connection, sockets,
   flags, code, video, life, mac, wearer, Labels, RenderLabels, LoopLabels, StartLabels,
   ProbeLabels, ResetLabels, ConfigureLabels, LostLabels, WatcherLabels, Threads
<1>1. CASE Connects
  BY <1>1, Returns DEF Connects, ConfigureServerConnection, StartReceiving, Receiving, NotReceiving,
     Terminate, Fault, ConnectTracking, TrackingConnects, ConnectControl, OpenUsbSpatialSocket,
     OpenControlSocket, SendClientConnect, StartControlReceiver, Joined, Connected
<1>2. CASE Loses
  BY <1>2, Returns DEF Loses, OnConnectionLost, LostLoad, LostStore, LostFlag
<1>3. CASE Resets
  BY <1>3, Returns DEF Resets, ResetConnection, StopControlReceiver, MayReset, JoinControl, Joined,
     CloseSockets, CloseSpatialSocket, CloseControlSocket, MacToldGoodbye, Fault, StopReceiver,
     JoinDiscovery, JoinReceive, ResetState
<1>4. CASE Loops
  BY <1>4, Returns DEF Loops, Frame, ShellReset, NoRetry, NoInitialVideo, NoEvent, SessionReady,
     SessionStopping, SessionStopped, SessionExiting, ShowVideo, TrackingBreaks, Fault, VideoStops,
     ShowShell, Shutdown
<1>5. CASE Starts
  BY <1>5, Returns DEF Starts, RetryUsb, MayProbe, Probe, OpenUsbControlSocket, ProbeAnnounced,
     Configure, ProbeFails, Fault, StartNetworking, StartProbe, StartDiscovery, BeginDiscovery,
     Terminate
<1>6. CASE Finds
  BY <1>6, Returns DEF Finds, OnServerFound, MayConfigure, Configure
<1>7. CASE Ends
  BY <1>7, Returns DEF Ends, DiscoveryEnds, ReceiveEnds, ControlEnds, ControlFails
<1>8. CASE Around
  BY <1>8, Returns DEF Around, Silence, MacDown, MacUp, MacDrops, Destroy, Fault
<1> QED BY <1>1, <1>2, <1>3, <1>4, <1>5, <1>6, <1>7, <1>8, Steps

\* A reset goes on from what its steps so far have done.
LEMMA ResetKept == ASSUME Closed, IInv, [Next]_vars PROVE ResetFits'
<1> USE DEF ResetFits, IInv, PlaceType, StateType, Sockets, Control, Closed, Configuring,
   OneAtATime, FreshAlive, Alive, ObjectsFit, ResetLeavesNothing, StackType, At, Goto, Call, Return,
   ReturnLabel, vars, connection, sockets, flags, code, video, life, mac, wearer, Labels,
   RenderLabels, LoopLabels, StartLabels, ProbeLabels, ResetLabels, ConfigureLabels, LostLabels,
   WatcherLabels, Threads
<1>1. CASE Connects
  BY <1>1, Returns DEF Connects, ConfigureServerConnection, StartReceiving, Receiving, NotReceiving,
     Terminate, Fault, ConnectTracking, TrackingConnects, ConnectControl, OpenUsbSpatialSocket,
     OpenControlSocket, SendClientConnect, StartControlReceiver, Joined, Connected
<1>2. CASE Loses
  BY <1>2, Returns DEF Loses, OnConnectionLost, LostLoad, LostStore, LostFlag
<1>3. CASE Resets
  BY <1>3, Returns DEF Resets, ResetConnection, StopControlReceiver, MayReset, JoinControl, Joined,
     CloseSockets, CloseSpatialSocket, CloseControlSocket, MacToldGoodbye, Fault, StopReceiver,
     JoinDiscovery, JoinReceive, ResetState
<1>4. CASE Loops
  BY <1>4, Returns DEF Loops, Frame, ShellReset, NoRetry, NoInitialVideo, NoEvent, SessionReady,
     SessionStopping, SessionStopped, SessionExiting, ShowVideo, TrackingBreaks, Fault, VideoStops,
     ShowShell, Shutdown
<1>5. CASE Starts
  BY <1>5, Returns DEF Starts, RetryUsb, MayProbe, Probe, OpenUsbControlSocket, ProbeAnnounced,
     Configure, ProbeFails, Fault, StartNetworking, StartProbe, StartDiscovery, BeginDiscovery,
     Terminate
<1>6. CASE Finds
  BY <1>6, Returns DEF Finds, OnServerFound, MayConfigure, Configure
<1>7. CASE Ends
  BY <1>7, Returns DEF Ends, DiscoveryEnds, ReceiveEnds, ControlEnds, ControlFails
<1>8. CASE Around
  <2>1. CASE Silence
    BY <2>1, Returns DEF Silence
  <2>2. CASE MacDown
    BY <2>2, Returns DEF MacDown, Fault
  <2>3. CASE MacUp
    BY <2>3, Returns DEF MacUp
  <2>4. CASE MacDrops
    BY <2>4, Returns DEF MacDrops
  <2>5. CASE Destroy
    BY <2>5, Returns DEF Destroy
  <2>6. CASE UNCHANGED vars
    BY <2>6, Returns
  <2> QED BY <1>8, <2>1, <2>2, <2>3, <2>4, <2>5, <2>6 DEF Around
<1> QED BY <1>1, <1>2, <1>3, <1>4, <1>5, <1>6, <1>7, <1>8, Steps

\* There is nothing without the objects.
LEMMA ObjectsKept == ASSUME Closed, IInv, [Next]_vars PROVE ObjectsFit'
<1> USE DEF ObjectsFit, IInv, PlaceType, StateType, Sockets, Control, Closed, Configuring,
   OneAtATime, ResetFits, FreshAlive, Alive, ResetLeavesNothing, StackType, At, Goto, Call, Return,
   ReturnLabel, vars, connection, sockets, flags, code, video, life, mac, wearer, Labels,
   RenderLabels, LoopLabels, StartLabels, ProbeLabels, ResetLabels, ConfigureLabels, LostLabels,
   WatcherLabels, Threads
<1>1. CASE Connects
  BY <1>1, Returns DEF Connects, ConfigureServerConnection, StartReceiving, Receiving, NotReceiving,
     Terminate, Fault, ConnectTracking, TrackingConnects, ConnectControl, OpenUsbSpatialSocket,
     OpenControlSocket, SendClientConnect, StartControlReceiver, Joined, Connected
<1>2. CASE Loses
  BY <1>2, Returns DEF Loses, OnConnectionLost, LostLoad, LostStore, LostFlag
<1>3. CASE Resets
  BY <1>3, Returns DEF Resets, ResetConnection, StopControlReceiver, MayReset, JoinControl, Joined,
     CloseSockets, CloseSpatialSocket, CloseControlSocket, MacToldGoodbye, Fault, StopReceiver,
     JoinDiscovery, JoinReceive, ResetState
<1>4. CASE Loops
  <2>1. CASE Frame
    BY <2>1, Returns DEF Frame
  <2>2. CASE ShellReset
    BY <2>2, Returns DEF ShellReset
  <2>3. CASE NoRetry
    BY <2>3, Returns DEF NoRetry
  <2>4. CASE NoInitialVideo
    BY <2>4, Returns DEF NoInitialVideo
  <2>5. CASE NoEvent
    BY <2>5, Returns DEF NoEvent
  <2>6. CASE SessionReady
    BY <2>6, Returns DEF SessionReady
  <2>7. CASE SessionStopping
    BY <2>7, Returns DEF SessionStopping
  <2>8. CASE SessionStopped
    BY <2>8, Returns DEF SessionStopped
  <2>9. CASE SessionExiting
    BY <2>9, Returns DEF SessionExiting
  <2>10. CASE ShowVideo
    BY <2>10, Returns DEF ShowVideo, TrackingBreaks, Fault
  <2>11. CASE VideoStops
    BY <2>11, Returns DEF VideoStops
  <2>12. CASE ShowShell
    BY <2>12, Returns DEF ShowShell
  <2>13. CASE Shutdown
    BY <2>13, Returns DEF Shutdown
  <2> QED BY <1>4, <2>1, <2>2, <2>3, <2>4, <2>5, <2>6, <2>7, <2>8, <2>9, <2>10, <2>11, <2>12, <2>13
     DEF Loops
<1>5. CASE Starts
  BY <1>5, Returns DEF Starts, RetryUsb, MayProbe, Probe, OpenUsbControlSocket, ProbeAnnounced,
     Configure, ProbeFails, Fault, StartNetworking, StartProbe, StartDiscovery, BeginDiscovery,
     Terminate
<1>6. CASE Finds
  BY <1>6, Returns DEF Finds, OnServerFound, MayConfigure, Configure
<1>7. CASE Ends
  BY <1>7, Returns DEF Ends, DiscoveryEnds, ReceiveEnds, ControlEnds, ControlFails
<1>8. CASE Around
  <2>1. CASE Silence
    BY <2>1, Returns DEF Silence
  <2>2. CASE MacDown
    BY <2>2, Returns DEF MacDown, Fault
  <2>3. CASE MacUp
    BY <2>3, Returns DEF MacUp
  <2>4. CASE MacDrops
    BY <2>4, Returns DEF MacDrops
  <2>5. CASE Destroy
    BY <2>5, Returns DEF Destroy
  <2>6. CASE UNCHANGED vars
    BY <2>6, Returns
  <2> QED BY <1>8, <2>1, <2>2, <2>3, <2>4, <2>5, <2>6 DEF Around
<1> QED BY <1>1, <1>2, <1>3, <1>4, <1>5, <1>6, <1>7, <1>8, Steps

\* Nothing flows before the ClientConnect.
LEMMA QuietKept == ASSUME Closed, IInv, [Next]_vars PROVE QuietBefore'
<1> USE DEF QuietBefore, IInv, SocketsFit, PlaceType, StateType, FlagType, SwitchType, Closed,
   Configuring, OneAtATime, FreshAlive, ConnFits, Alive, Listens, PreSend, Flowing, ObjectsFit,
   ResetLeavesNothing, At, Goto, Call, Return, ReturnLabel, vars, connection, sockets, flags, code,
   video, life, mac, wearer, Labels, RenderLabels, LoopLabels, StartLabels, ProbeLabels,
   ResetLabels, ConfigureLabels, LostLabels, WatcherLabels, Threads
<1>1. CASE Connects
  BY <1>1, Returns DEF Connects, ConfigureServerConnection, StartReceiving, Receiving, NotReceiving,
     Terminate, Fault, ConnectTracking, TrackingConnects, ConnectControl, OpenUsbSpatialSocket,
     OpenControlSocket, SendClientConnect, StartControlReceiver, Joined, Connected
<1>2. CASE Loses
  BY <1>2, Returns DEF Loses, OnConnectionLost, LostLoad, LostStore, LostFlag
<1>3. CASE Resets
  BY <1>3, Returns DEF Resets, ResetConnection, StopControlReceiver, MayReset, JoinControl, Joined,
     CloseSockets, CloseSpatialSocket, CloseControlSocket, MacToldGoodbye, Fault, StopReceiver,
     JoinDiscovery, JoinReceive, ResetState
<1>4. CASE Loops
  BY <1>4, Returns DEF Loops, Frame, ShellReset, NoRetry, NoInitialVideo, NoEvent, SessionReady,
     SessionStopping, SessionStopped, SessionExiting, ShowVideo, TrackingBreaks, Fault, VideoStops,
     ShowShell, Shutdown
<1>5. CASE Starts
  BY <1>5, Returns DEF Starts, RetryUsb, MayProbe, Probe, OpenUsbControlSocket, ProbeAnnounced,
     Configure, ProbeFails, Fault, StartNetworking, StartProbe, StartDiscovery, BeginDiscovery,
     Terminate
<1>6. CASE Finds
  BY <1>6, Returns DEF Finds, OnServerFound, MayConfigure, Configure
<1>7. CASE Ends
  BY <1>7, Returns DEF Ends, DiscoveryEnds, ReceiveEnds, ControlEnds, ControlFails
<1>8. CASE Around
  BY <1>8, Returns DEF Around, Silence, MacDown, MacUp, MacDrops, Destroy, Fault
<1> QED BY <1>1, <1>2, <1>3, <1>4, <1>5, <1>6, <1>7, <1>8, Steps

\* What was given up stays so until the reset.
LEMMA GivenUpKept == ASSUME Closed, IInv, [Next]_vars PROVE GivenUp'
<1> USE DEF GivenUp, IInv, LossPends, PlaceType, StateType, FlagType, SwitchType, Closed,
   Configuring, OneAtATime, FreshAlive, ConnFits, SocketsFit, ControlOpen, ResetFits, Alive,
   Listens, PreSend, QuietBefore, LossIsReal, Flowing, ObjectsFit, ResetLeavesNothing, At, Goto,
   Call, Return, ReturnLabel, vars, connection, sockets, flags, code, video, life, mac, wearer,
   Labels, RenderLabels, LoopLabels, StartLabels, ProbeLabels, ResetLabels, ConfigureLabels,
   LostLabels, WatcherLabels, Threads
<1>1. CASE Connects
  BY <1>1, Returns DEF Connects, ConfigureServerConnection, StartReceiving, Receiving, NotReceiving,
     Terminate, Fault, ConnectTracking, TrackingConnects, ConnectControl, OpenUsbSpatialSocket,
     OpenControlSocket, SendClientConnect, StartControlReceiver, Joined, Connected
<1>2. CASE Loses
  BY <1>2, Returns DEF Loses, OnConnectionLost, LostLoad, LostStore, LostFlag
<1>3. CASE Resets
  BY <1>3, Returns DEF Resets, ResetConnection, StopControlReceiver, MayReset, JoinControl, Joined,
     CloseSockets, CloseSpatialSocket, CloseControlSocket, MacToldGoodbye, Fault, StopReceiver,
     JoinDiscovery, JoinReceive, ResetState
<1>4. CASE Loops
  BY <1>4, Returns DEF Loops, Frame, ShellReset, NoRetry, NoInitialVideo, NoEvent, SessionReady,
     SessionStopping, SessionStopped, SessionExiting, ShowVideo, TrackingBreaks, Fault, VideoStops,
     ShowShell, Shutdown
<1>5. CASE Starts
  BY <1>5, Returns DEF Starts, RetryUsb, MayProbe, Probe, OpenUsbControlSocket, ProbeAnnounced,
     Configure, ProbeFails, Fault, StartNetworking, StartProbe, StartDiscovery, BeginDiscovery,
     Terminate
<1>6. CASE Finds
  BY <1>6, Returns DEF Finds, OnServerFound, MayConfigure, Configure
<1>7. CASE Ends
  BY <1>7, Returns DEF Ends, DiscoveryEnds, ReceiveEnds, ControlEnds, ControlFails
<1>8. CASE Around
  BY <1>8, Returns DEF Around, Silence, MacDown, MacUp, MacDrops, Destroy, Fault
<1> QED BY <1>1, <1>2, <1>3, <1>4, <1>5, <1>6, <1>7, <1>8, Steps

-----------------------------------------------------------------------------
(* The theorems.                                                           *)

LEMMA InitHolds == Init => IInv
<1> SUFFICES ASSUME Init PROVE IInv
  OBVIOUS
<1> USE DEF Init, Threads, Alive, Configuring, LoopLabels, StartLabels, ProbeLabels, ResetLabels,
   ConfigureLabels, LostLabels
<1>1. PlaceType /\ StackType
  BY DEF PlaceType, StackType, Labels, RenderLabels, WatcherLabels
<1>2. StateType /\ FlagType /\ SwitchType
  BY DEF StateType, FlagType, SwitchType, States, Sockets
<1>3. OneAtATime /\ FreshAlive /\ ConnFits /\ LossPends
  BY DEF OneAtATime, FreshAlive, ConnFits, LossPends, Listens
<1>4. SocketsFit /\ ResetFits /\ ObjectsFit
  BY DEF SocketsFit, ResetFits, ObjectsFit, ResetLeavesNothing, Listens, Controls
<1>5. QuietBefore /\ GivenUp
  BY DEF QuietBefore, GivenUp, PreSend, LossIsReal, Flowing
<1> QED BY <1>1, <1>2, <1>3, <1>4, <1>5 DEF IInv

LEMMA Invariance == Closed => (Spec => []IInv)
<1> SUFFICES ASSUME Closed PROVE Spec => []IInv
  OBVIOUS
<1>1. IInv /\ [Next]_vars => IInv'
  BY PlaceKept, StackKept, StateKept, FlagKept, SwitchKept, OneKept, FreshKept, ConnKept, LossKept,
     SocketsKept, ResetKept, ObjectsKept, QuietKept, GivenUpKept DEF IInv
<1> QED BY <1>1, InitHolds, PTL DEF Spec

LEMMA SafeWhenInv == IInv => QuestSafe
<1> SUFFICES ASSUME IInv PROVE QuestSafe
  OBVIOUS
<1>1. conn \in States /\ previous \in States /\ mode \in {"wifi", "usb"}
      /\ server \in {"down", "announcing", "wifi", "usb"} /\ open \subseteq Sockets
  BY DEF IInv, StateType
<1>2. {needsReconnect, objects, discovering, receiving, controlRunning, hasVideo, silent,
       shellReset, running, sessionRunning, eof, destroyRequested} \subseteq BOOLEAN
  BY DEF IInv, FlagType, SwitchType
<1>3. Len(stack) <= 4
  <2>1. \/ stack = <<>> \/ stack = UsbCaller
        \/ stack \in Callers \cup ResetCallers \cup StartProbers \cup LossCallers
    BY DEF IInv, PlaceType, StackType, RenderLabels
  <2>2. \A a, b : Len(<<a>>) = 1 /\ Len(<<a, b>>) = 2
    OBVIOUS
  <2>3. Len(<<>>) = 0
    OBVIOUS
  <2>4. Len(stack) \in {0, 1, 2}
    BY <2>1, <2>2, <2>3, Zenon DEF Callers, ResetCallers, StartProbers, LossCallers, UsbCaller
  <2> QED BY <2>4
<1>4. /\ pc["receive"] \in WatcherLabels /\ pc["control"] \in WatcherLabels
      /\ pc["discovery"] \in {"none", "loop", "done"} \cup ConfigureLabels
      /\ pc["render"] \in RenderLabels
  BY DEF IInv, PlaceType
<1>5. TypeOK
  BY <1>1, <1>2, <1>3, <1>4 DEF TypeOK, States, Sockets, WatcherLabels, LostLabels
<1>6. NoTerminate
  BY <1>4 DEF NoTerminate, RenderLabels, LoopLabels, StartLabels, ProbeLabels, ConfigureLabels,
     ResetLabels, LostLabels
<1> QED BY <1>5, <1>6 DEF QuestSafe, IInv, ObjectsFit, GivenUp

\* Whatever the links, however many faults, resets and sessions, and in every order of
\* the four threads: a reset leaves nothing of a connection to the next one, no thread
\* object is assigned while it is joinable, and a reconnect is asked for only when the
\* connection is gone - as long as no second thread makes a connection during a USB
\* probe, a reset or an undealt loss.
THEOREM QuestIsSafe == Windows \subseteq {"linger"} => (Spec => []QuestSafe)
<1> SUFFICES ASSUME Windows \subseteq {"linger"} PROVE Spec => []QuestSafe
  OBVIOUS
<1>1. Closed
  BY DEF Closed
<1> QED BY <1>1, SafeWhenInv, Invariance, PTL

\* The Mac starts to stream only to a client whose video socket is open and whose
\* receiver runs, on either link and after any earlier loss or reset.
THEOREM QuestListensFirst == Windows \subseteq {"linger"} => (Spec => ListensFirst)
<1> SUFFICES ASSUME Windows \subseteq {"linger"} PROVE Spec => ListensFirst
  OBVIOUS
<1>1. Closed
  BY DEF Closed
<1>2. IInv /\ [Next]_vars =>
          [server = "announcing" /\ server' \in {"wifi", "usb"} => "video" \in open /\ receiving]_vars
  <2> SUFFICES ASSUME IInv, [Next]_vars, server = "announcing", server' \in {"wifi", "usb"}
               PROVE  "video" \in open /\ receiving
    OBVIOUS
  <2> USE DEF vars, connection, sockets, flags, code, video, life, mac, wearer
  <2>1. CASE Connects
    <3>1. \E t \in {"render", "discovery"} :
             At(t, "send") /\ (mode = "usb" => ~eof)
      BY <2>1 DEF Connects, ConfigureServerConnection, StartReceiving, ConnectTracking,
         ConnectControl, SendClientConnect, StartControlReceiver, Connected
    <3> QED BY <3>1 DEF IInv, SocketsFit, QuietBefore, At, Listens, PreSend
  <2>2. CASE Loses \/ Loops \/ Starts \/ Finds \/ Ends
    BY <2>2 DEF Loses, OnConnectionLost, LostLoad, LostStore, LostFlag, Loops, Frame, ShellReset,
       NoRetry, NoInitialVideo, NoEvent, SessionReady, SessionStopping, SessionStopped,
       SessionExiting, ShowVideo, VideoStops, ShowShell, Shutdown, Starts, RetryUsb,
       ProbeAnnounced, ProbeFails, StartNetworking, StartProbe, StartDiscovery, Finds,
       OnServerFound, Ends, DiscoveryEnds, ReceiveEnds, ControlEnds
  <2>3. CASE Resets \/ Around
    BY <2>3 DEF Resets, ResetConnection, StopControlReceiver, JoinControl, CloseSockets,
       MacToldGoodbye, StopReceiver, JoinDiscovery, JoinReceive, ResetState, Around, Silence,
       MacDown, MacUp, MacDrops, Destroy
  <2> QED BY <2>1, <2>2, <2>3, Steps
<1> QED BY <1>1, <1>2, Invariance, PTL DEF Spec, ListensFirst
=============================================================================
