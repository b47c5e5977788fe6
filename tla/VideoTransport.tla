---------------------------- MODULE VideoTransport ----------------------------
(***************************************************************************)
(* A video frame's way from the application to the headset's display.      *)
(* Runtime: the frame queue, the encode thread, the encoder's callback, the*)
(* two-frame send queue, the send thread with FEC and the NACK cache, and  *)
(* the control thread (runtime/src/StreamingServer.cpp,                    *)
(* StreamingFrameQueue.cpp, common/FecCodec.h).  Quest client: the receive *)
(* thread with reassembly and recovery, the decoder and the render thread's*)
(* choice of frame, pose and key-frame requests (NetworkReceiver.cpp,      *)
(* VideoDecoder.cpp, XrApp.cpp).                                           *)
(*                                                                         *)
(* A key frame is a one-packet parameter set and a slice, any other frame  *)
(* one slice.  A payload is abstracted to the number of the NAL it belongs *)
(* to.  The link keeps order and may lose UDP datagrams; the control       *)
(* channel keeps order and loses only the NACKs it has no room for.        *)
(***************************************************************************)
EXTENDS Integers, FiniteSets, SequencesExt

CONSTANTS
    Frames,             \* bound: frames the application submits
    KeySlice, PSlice,   \* data packets of the slice of a key and of another frame
    FecGroupSize,       \* FEC_GROUP_SIZE
    QueueCap,           \* MaxVideoSendQueueFrames
    CacheSize,          \* MaxCachedFrames
    MaxRenderPoses,     \* render poses the client keeps
    StartKeys,          \* the first frames that are key frames
    Transports,         \* whether the session uses USB TCP
    StaleCache,         \* whether an earlier session may have left a frame of this one's
                        \* first indices in the NACK cache
    NetCap, ControlCap, \* bounds: datagrams on the link (and one more record), requests on the control channel
    MaxLosses, MaxRefusals, MaxEncoderDrops  \* bounds on what fails

ASSUME SliceAssumption == KeySlice \in Nat \ {0, 1} /\ PSlice \in Nat \ {0, 1}
\* A group of one packet would not survive the loss of a NAL's first (it is 10).
ASSUME GroupAssumption == FecGroupSize \in Nat \ {0, 1}
ASSUME QueueAssumption == QueueCap \in Nat \ {0} /\ CacheSize \in Nat \ {0} /\ NetCap \in Nat \ {0}
ASSUME BoundAssumption == {Frames, MaxRenderPoses, ControlCap, MaxLosses, MaxRefusals} \subseteq Nat
ASSUME TransportAssumption == Transports \subseteq BOOLEAN /\ StaleCache \in BOOLEAN

FrameIndex == 0..Frames - 1
None == -1          \* no frame, no pose
Missing == -1       \* a slot without payload
Mixed == -2         \* the XOR of payloads of different NALs
Stale == 0          \* a payload of an earlier session

VARIABLES
    nextFrame, pendingFrame,          \* frameIndex_, the frame queue's one place
    forceKey, encoding, kind,         \* forceKeyframe_; frames inside; what each became
    sendQueue, newer, sending, sent,  \* the send queue, its flag, the frame being sent; frames taken
    tcp, accepting, net,              \* packetDispatchState_; the link
    cache, cacheWrite,                \* cachedFrames, cacheWriteIndex
    control, resend,                  \* control channel; the control thread's burst
    pendingNal,                       \* NetworkReceiver::pendingFrame_
    delivered, losses,                \* history: NALs delivered; packets lost
    poses, latestPose,                \* renderPoses_, latestRenderPose_
    decoding, refused,                \* frames in the decoder; pendingDecoderSubmitFailures_, with their bound
    unseen, recent,                   \* framesDropped_ > lastObservedDroppedFrames_; the 100 ms throttle
    shown                             \* presentedVideoFrame_

app      == <<nextFrame, pendingFrame>>
encode   == <<forceKey, encoding, kind>>
send     == <<sendQueue, newer, sending, sent>>
link     == <<tcp, accepting, net, losses>>
nack     == <<cache, cacheWrite, resend>>
receive  == <<pendingNal, delivered, unseen>>
pose     == <<poses, latestPose>>
decoder  == <<decoding, refused>>
display  == <<recent, shown>>
transportVars     == <<app, encode, send, link, nack, control, receive, pose, decoder, display>>

-----------------------------------------------------------------------------
(* NALs, packets and FEC groups; packets and groups are counted from 1.    *)

Nals(f) == IF kind[f] = "key" THEN <<1, KeySlice>> ELSE <<PSlice>>

\* fec::GroupCount
GroupCount(total) == (total + FecGroupSize - 1) \div FecGroupSize

\* fec::GroupRange
GroupRange(g, total) ==
    (g - 1) * FecGroupSize + 1 .. (IF g * FecGroupSize < total THEN g * FecGroupSize ELSE total)

Datagram(k, f, n, total, i) == [kind |-> k, f |-> f, n |-> n, total |-> total, i |-> i]

\* A NAL's datagrams: the data packets of each group and then its parity.
NalDatagrams(f, n, total) ==
    [k \in 1..total + GroupCount(total) |->
        LET g == (k - 1) \div (FecGroupSize + 1) + 1
        IN IF k = g * (FecGroupSize + 1) \/ k = total + GroupCount(total)
             THEN Datagram("fec", f, n, total, g)
             ELSE Datagram("data", f, n, total, k - g + 1)]

RenderPosePacket(f) == Datagram("pose", f, 0, 0, 0)

\* What the send thread sends for a frame: its pose, then its NALs.
FramePackets(f) ==
    <<RenderPosePacket(f)>> \o
    IF tcp THEN [n \in DOMAIN Nals(f) |-> Datagram("nal", f, n, Nals(f)[n], 0)]
    ELSE IF kind[f] = "key"
           THEN NalDatagrams(f, 1, Nals(f)[1]) \o NalDatagrams(f, 2, Nals(f)[2])
    ELSE NalDatagrams(f, 1, Nals(f)[1])

NoNal == [f |-> None, total |-> 0, slot |-> <<>>, fec |-> <<>>]
NoEntry == [f |-> None, total |-> 0, n |-> Stale, have |-> {}, complete |-> FALSE]

\* The cache outlives a session while frame indices restart at 0.
StaleEntry(f, total) ==
    [f |-> f, total |-> total, n |-> Stale, have |-> 1..total, complete |-> TRUE]

TransportInit ==
    /\ nextFrame = 0 /\ pendingFrame = None
    /\ forceKey = FALSE /\ encoding = <<>> /\ kind = [f \in FrameIndex |-> "none"]
    /\ sendQueue = <<>> /\ newer = FALSE /\ sending = <<>> /\ sent = {}
    /\ tcp \in Transports /\ accepting = TRUE /\ net = <<>> /\ losses = 0
    /\ \E f \in (IF StaleCache THEN FrameIndex ELSE {}) \cup {None} :
         cache = [c \in 1..CacheSize |->
                    IF c = CacheSize /\ f # None THEN StaleEntry(f, PSlice) ELSE NoEntry]
    /\ cacheWrite = 0 /\ resend = <<>> /\ control = <<>>
    /\ pendingNal = NoNal /\ delivered = {} /\ unseen = FALSE
    /\ poses = <<>> /\ latestPose = None
    /\ decoding = <<>> /\ refused = [pending |-> 0, total |-> 0]
    /\ recent = FALSE /\ shown = [f |-> None, pose |-> None]

-----------------------------------------------------------------------------
(* The application's thread and the encode thread.                         *)

\* A frame that waits in the frame queue is replaced.
PushLatest(f) == pendingFrame' = f

WaitPop == pendingFrame # None /\ pendingFrame' = None

SendFrame ==
    /\ nextFrame < Frames
    /\ nextFrame' = nextFrame + 1 /\ PushLatest(nextFrame)
    /\ UNCHANGED <<encode, send, link, nack, control, receive, pose, decoder, display>>

\* EncodeThread: submit the pending frame; forceKeyframe_ is exchanged.
EncodeFrame ==
    /\ encoding = <<>> /\ WaitPop
    /\ LET key == forceKey \/ pendingFrame < StartKeys
       IN encoding' = <<[f |-> pendingFrame, key |-> key]>>
    /\ forceKey' = FALSE
    /\ UNCHANGED <<nextFrame, kind, send, link, nack, control, receive, pose, decoder, display>>

\* A full queue drops its first frame without a key-frame NAL, or else its oldest.
MakeRoom(q) ==
    LET deltas == {i \in DOMAIN q : kind[q[i]] # "key"}
    IN IF Len(q) < QueueCap THEN q
       ELSE IF deltas # {} THEN RemoveAt(q, CHOOSE i \in deltas : \A j \in deltas : i <= j)
       ELSE Tail(q)

QueueEncodedVideoFrame(f) ==
    /\ sendQueue' = Append(MakeRoom(sendQueue), f)
    /\ newer' = TRUE

\* The encoder's callback: the frame's NALs are queued, or it was dropped.
FrameEncoded ==
    /\ encoding # <<>> /\ encoding' = <<>>
    /\ LET e == Head(encoding)
       IN \/ /\ kind' = [kind EXCEPT ![e.f] = IF e.key THEN "key" ELSE "delta"]
             /\ QueueEncodedVideoFrame(e.f)
          \/ /\ Cardinality({f \in FrameIndex : kind[f] = "dropped"}) < MaxEncoderDrops
             /\ kind' = [kind EXCEPT ![e.f] = "dropped"]
             /\ UNCHANGED <<sendQueue, newer>>
    /\ UNCHANGED <<app, forceKey, sending, sent, link, nack, control, receive, pose,
                   decoder, display>>

-----------------------------------------------------------------------------
(* VideoSendThread.                                                        *)

\* Mutant: a frame that is no key frame counts as stale.
IsStaleDelta(f, rest) == kind[f] # "key"

IsStale(f, rest) == rest # <<>> /\ kind[f] # "key"

\* Take the oldest frame; one that is stale and no key frame is dropped.
TakeFrame ==
    /\ sending = <<>> /\ sendQueue # <<>>
    /\ LET f == Head(sendQueue) rest == Tail(sendQueue)
       IN /\ sendQueue' = rest /\ newer' = (rest # <<>>)
          /\ IF IsStale(f, rest)
               THEN UNCHANGED <<sending, sent>>
               ELSE sending' = FramePackets(f) /\ sent' = sent \cup {f}
    /\ UNCHANGED <<app, encode, link, nack, control, receive, pose, decoder, display>>

\* The NACK cache: a slot per NAL, advertised when all its packets are in it.
CachePacket(d) ==
    CASE d.kind = "data" /\ d.i = 1 ->
           /\ cacheWrite' = (cacheWrite % CacheSize) + 1
           /\ cache' = [cache EXCEPT ![cacheWrite'] =
                [f |-> d.f, total |-> d.total, n |-> d.n, have |-> {1}, complete |-> FALSE]]
      [] d.kind = "data" /\ d.i > 1 ->
           /\ cache' = [cache EXCEPT ![cacheWrite].have = @ \cup {d.i}]
           /\ UNCHANGED cacheWrite
      [] d.kind = "fec" /\ d.i = GroupCount(d.total) ->
           /\ cache' = [cache EXCEPT ![cacheWrite].complete = TRUE]
           /\ UNCHANGED cacheWrite
      [] OTHER -> UNCHANGED <<cache, cacheWrite>>

\* SendRenderPosePacket and SendNalUnit over UDP, a datagram at a time.
SendDatagram ==
    /\ ~tcp /\ sending # <<>> /\ Len(net) < NetCap
    /\ net' = Append(net, Head(sending)) /\ sending' = Tail(sending)
    /\ CachePacket(Head(sending))
    /\ UNCHANGED <<app, encode, sendQueue, newer, sent, tcp, accepting, losses, resend,
                   control, receive, pose, decoder, display>>

\* SendTcpRecord, SendTcpRecordParts: a whole record.
SendTcpRecord ==
    /\ tcp /\ accepting /\ sending # <<>> /\ Len(net) <= NetCap
    /\ net' = Append(net, Head(sending)) /\ sending' = Tail(sending)
    /\ UNCHANGED <<app, encode, sendQueue, newer, sent, tcp, accepting, losses, nack,
                   control, receive, pose, decoder, display>>

\* No packet is accepted any more.
MarkTcpVideoSendFailed == accepting' = FALSE

\* A record is cut off: what follows it on the stream would be read as its rest.
TcpSendFails ==
    /\ tcp /\ accepting /\ sending # <<>> /\ losses < MaxLosses /\ Len(net) <= NetCap
    /\ net' = Append(net, [Head(sending) EXCEPT !.kind = "torn"]) /\ sending' = Tail(sending)
    /\ losses' = losses + 1
    /\ MarkTcpVideoSendFailed
    /\ UNCHANGED <<app, encode, sendQueue, newer, sent, tcp, nack, control, receive, pose,
                   decoder, display>>

\* Not accepting: the rest of the frame is thrown away.
SendNothing ==
    /\ ~accepting /\ sending # <<>>
    /\ sending' = Tail(sending)
    /\ UNCHANGED <<app, encode, sendQueue, newer, sent, link, nack, control, receive, pose,
                   decoder, display>>

\* The network loses a datagram.
Lose ==
    /\ ~tcp /\ net # <<>> /\ losses < MaxLosses
    /\ net' = Tail(net) /\ losses' = losses + 1
    /\ UNCHANGED <<app, encode, send, tcp, accepting, nack, control, receive, pose, decoder,
                   display>>

-----------------------------------------------------------------------------
(* The runtime's control thread.                                           *)

HandleKeyframeRequest ==
    /\ resend = <<>> /\ control # <<>> /\ Head(control).type = "RequestKeyframe"
    /\ forceKey' = TRUE /\ control' = Tail(control)
    /\ UNCHANGED <<app, encoding, kind, send, link, nack, receive, pose, decoder, display>>

CachedSlots(r) ==
    {c \in 1..CacheSize : cache[c].f = r.f /\ cache[c].total = r.total /\ cache[c].complete}

\* The k-th of a set of numbers.
Nth(K, k) == CHOOSE i \in K : Cardinality({j \in K : j <= i}) = k

\* The first matching slot's missing packets are collected under the lock ...
HandleNackRequest ==
    /\ resend = <<>> /\ control # <<>> /\ Head(control).type = "NackRequest"
    /\ control' = Tail(control)
    /\ LET r == Head(control) slots == CachedSlots(r)
       IN IF slots = {} THEN UNCHANGED resend
          ELSE LET e == cache[CHOOSE c \in slots : \A o \in slots : c <= o]
               IN resend' = [k \in 1..Cardinality(r.missing \cap e.have) |->
                    Datagram("data", e.f, e.n, e.total, Nth(r.missing \cap e.have, k))]
    /\ UNCHANGED <<app, encode, send, link, cache, cacheWrite, receive, pose, decoder, display>>

\* ... and sent after it, among the send thread's datagrams.
Retransmit ==
    /\ resend # <<>> /\ Len(net) < NetCap
    /\ net' = Append(net, Head(resend)) /\ resend' = Tail(resend)
    /\ UNCHANGED <<app, encode, send, tcp, accepting, losses, cache, cacheWrite, control, receive,
                   pose, decoder, display>>

-----------------------------------------------------------------------------
(* The client's receive thread.                                            *)

Received(p) == {i \in DOMAIN p.slot : p.slot[i] # Missing}
Complete(p) == p.total > 0 /\ Received(p) = 1..p.total
Partial(p)  == p.total > 0 /\ Received(p) # {} /\ ~Complete(p)

\* fec::Decode: the XOR of the parity with the packets present.
Decode(p, g, present) ==
    IF \A i \in present : p.slot[i] = p.fec[g] THEN p.fec[g] ELSE Mixed

\* Each group that has its parity and misses one packet gets it back.
TryFecRecovery(p) ==
    [p EXCEPT !.slot = [i \in DOMAIN p.slot |->
        LET g == (i - 1) \div FecGroupSize + 1
            others == GroupRange(g, p.total) \ {i}
        IN IF p.slot[i] = Missing /\ p.fec[g] # Missing /\ others \subseteq Received(p)
             THEN Decode(p, g, others) ELSE p.slot[i]]]

\* A slice enters the decoder; a parameter set yields no picture.
SubmitNalUnit(f, slice) == decoding' = IF slice THEN Append(decoding, f) ELSE decoding

\* The NAL is submitted, or no input buffer is free and it is lost and counted.
OnNalUnitReceived(f, slice) ==
    \/ SubmitNalUnit(f, slice) /\ UNCHANGED refused
    \/ /\ refused.total < MaxRefusals
       /\ refused' = [pending |-> refused.pending + 1, total |-> refused.total + 1]
       /\ UNCHANGED decoding

Deliver(p) ==
    /\ delivered' = delivered \cup {[f |-> p.f, got |-> p.slot]}
    /\ pendingNal' = NoNal
    /\ OnNalUnitReceived(p.f, p.total > 1)

Hold(p) == pendingNal' = p /\ UNCHANGED <<delivered, decoder>>

\* Mutant: recovery only once nothing is missing.
RecoverableFull(p) == Cardinality(Received(p)) >= p.total

\* Almost complete: recovery is worth trying when a parity arrives.
Recoverable(p) == Cardinality(Received(p)) + 1 >= p.total

\* ReassembleFrame, a parity packet: kept for the pending NAL only.
ReassembleFec(d) ==
    /\ IF d.f = pendingNal.f /\ pendingNal.total > 0 /\ d.i <= GroupCount(pendingNal.total)
          /\ pendingNal.fec[d.i] = Missing
         THEN LET held == [pendingNal EXCEPT !.fec[d.i] = d.n]
                  tried == IF Recoverable(held) THEN TryFecRecovery(held) ELSE held
              IN IF Complete(tried) THEN Deliver(tried) ELSE Hold(tried)
         ELSE UNCHANGED <<pendingNal, delivered, decoder>>
    /\ UNCHANGED <<unseen, control>>

Fresh(d) ==
    [f |-> d.f, total |-> d.total, slot |-> [i \in 1..d.total |-> Missing],
     fec |-> [g \in 1..GroupCount(d.total) |-> Missing]]

\* A packet is stored once, at its place in the pending NAL.
Store(p, d) ==
    IF d.i <= d.total /\ p.slot[d.i] = Missing THEN [p EXCEPT !.slot[d.i] = d.n] ELSE p

NewFrame(d) == d.f # pendingNal.f \/ pendingNal.total = 0

\* What a NAL misses; a full control channel loses the request.
SendNack(p) ==
    control' = IF Len(control) >= ControlCap THEN control
               ELSE Append(control, [type |-> "NackRequest", f |-> p.f, total |-> p.total,
                                     missing |-> 1..p.total \ Received(p)])

\* The displaced NAL is asked for, counted as dropped and forgotten.
DropPending(p) == SendNack(p) /\ unseen' = TRUE

\* ReassembleFrame, a data packet.  A new frame displaces a partial NAL; when
\* that one is recovered instead it is delivered and the packet itself forgotten.
ReassembleData(d) ==
    LET displaced == NewFrame(d) /\ Partial(pendingNal)
        tried == TryFecRecovery(pendingNal)
        stored == Store(IF NewFrame(d) THEN Fresh(d) ELSE pendingNal, d)
    IN IF displaced /\ Complete(tried)
         THEN Deliver(tried) /\ UNCHANGED <<unseen, control>>
         ELSE /\ IF displaced THEN DropPending(tried) ELSE UNCHANGED <<unseen, control>>
              /\ IF Complete(stored) THEN Deliver(stored) ELSE Hold(stored)

\* StoreRenderPose: a bounded list, and the latest.
StoreRenderPose(f) ==
    /\ latestPose' = f
    /\ poses' = LET p == Append(poses, f)
                IN IF Len(p) > MaxRenderPoses THEN Tail(p) ELSE p

ReceiveThread ==
    /\ ~tcp /\ net # <<>> /\ net' = Tail(net)
    /\ LET d == Head(net)
       IN \/ /\ d.kind = "pose" /\ StoreRenderPose(d.f)
             /\ UNCHANGED <<receive, control, decoder>>
          \/ /\ d.kind = "fec" /\ ReassembleFec(d) /\ UNCHANGED pose
          \/ /\ d.kind = "data" /\ ReassembleData(d) /\ UNCHANGED pose
    /\ UNCHANGED <<app, encode, send, tcp, accepting, losses, nack, display>>

\* ReadTcpRecord, ReceiveTcpThread: whole NALs; behind a torn record the stream
\* makes no sense (the record that follows is taken for its missing bytes).
ReceiveTcpThread ==
    /\ tcp /\ net # <<>>
    /\ LET d == Head(net) torn == Head(net).kind = "torn" /\ Len(net) > 1
       IN \/ /\ d.kind = "pose" /\ net' = Tail(net) /\ StoreRenderPose(d.f)
             /\ UNCHANGED <<receive, decoder>>
          \/ /\ d.kind = "nal" /\ net' = Tail(net)
             /\ delivered' = delivered \cup {[f |-> d.f, got |-> [i \in 1..d.total |-> d.n]]}
             /\ OnNalUnitReceived(d.f, d.total > 1)
             /\ UNCHANGED <<pendingNal, unseen, pose>>
          \/ /\ torn /\ net' = SubSeq(net, 3, Len(net))
             /\ delivered' = delivered \cup {[f |-> d.f, got |-> <<Mixed>>]}
             /\ UNCHANGED <<pendingNal, unseen, pose, decoder>>
    /\ UNCHANGED <<app, encode, send, tcp, accepting, losses, nack, control, display>>

-----------------------------------------------------------------------------
(* The client's render thread, and time.                                   *)

\* Mutant: the latest pose is taken even if it is a later frame's.
FallbackAny(f) == latestPose # None

\* No pose of a later frame, nor one older than the pose on display.
Fallback(f) == latestPose # None /\ latestPose <= f /\ latestPose >= shown.pose

\* The decoder's output thread has rendered the first k pictures, or more.
Rendered(k) == k \in DOMAIN decoding

\* VideoDecoder::AcquireFrame: the latest picture; those before it are skipped.
TakeImage(k) == decoding' = SubSeq(decoding, k + 1, Len(decoding))

\* TakeRenderPoseForPresentationTimeUs forgets the pose and the earlier ones.
TakeRenderPose(f) == poses' = SelectSeq(poses, LAMBDA p : p > f)

\* The picture's own pose; without it the latest will do, unless it is too old
\* or the mode is off.
ResolveRenderPose(f) ==
    /\ TakeRenderPose(f)
    /\ \/ Contains(poses, f) /\ shown' = [f |-> f, pose |-> f]
       \/ /\ ~Contains(poses, f)
          /\ \/ Fallback(f) /\ shown' = [f |-> f, pose |-> latestPose]
             \/ shown' = [f |-> f, pose |-> None]

RenderFrame ==
    /\ \E k \in DOMAIN decoding : Rendered(k) /\ TakeImage(k) /\ ResolveRenderPose(decoding[k])
    /\ UNCHANGED <<app, encode, send, link, nack, control, receive, latestPose, refused,
                   recent>>

\* Mutant: the failures are taken although no request may be sent yet.
TakeFailuresAlways == refused' = [refused EXCEPT !.pending = 0]

\* Failures stay pending while requests are throttled.
TakeFailures == refused' = IF recent THEN refused ELSE [refused EXCEPT !.pending = 0]

\* RequestKeyframe: at most one in 100 ms.
SendKeyframeRequest ==
    /\ control' = IF recent THEN control ELSE Append(control, [type |-> "RequestKeyframe"])
    /\ recent' = TRUE

\* RunFrame's end: a key frame is requested for refused NALs or dropped frames,
\* or because no picture came for 200 ms.  The drop counter is noted whether a
\* request was sent or not.
RequestKeyframe(stalled) ==
    /\ refused.pending > 0 \/ unseen \/ (stalled /\ ~recent)
    /\ stalled => shown.f # None /\ decoding = <<>>
    /\ TakeFailures /\ unseen' = FALSE
    /\ SendKeyframeRequest
    /\ UNCHANGED <<app, encode, send, link, nack, pendingNal, delivered, pose, decoding, shown>>

\* 100 ms since the last request.
ThrottleEnds ==
    /\ recent /\ recent' = FALSE
    /\ UNCHANGED <<app, encode, send, link, nack, control, receive, pose, decoder, shown>>

-----------------------------------------------------------------------------
SendThread == TakeFrame \/ SendDatagram \/ SendTcpRecord \/ SendNothing
ControlThread == HandleKeyframeRequest \/ HandleNackRequest \/ Retransmit
ClientReceive == ReceiveThread \/ ReceiveTcpThread

\* A stalled picture is reported again only when the last report was handled (bound).
RunFrameEnd == RequestKeyframe(FALSE) \/ (control = <<>> /\ ~forceKey /\ RequestKeyframe(TRUE))

TransportNext ==
    \/ SendFrame \/ EncodeFrame \/ FrameEncoded
    \/ SendThread \/ TcpSendFails \/ Lose
    \/ ControlThread
    \/ ClientReceive \/ RenderFrame \/ RunFrameEnd \/ ThrottleEnds

TransportSpec == TransportInit /\ [][TransportNext]_transportVars

TransportFairness ==
    /\ WF_transportVars(EncodeFrame) /\ WF_transportVars(FrameEncoded)
    /\ WF_transportVars(SendThread) /\ WF_transportVars(ControlThread)
    /\ WF_transportVars(ClientReceive) /\ WF_transportVars(RequestKeyframe(FALSE)) /\ WF_transportVars(ThrottleEnds)

TransportFairSpec == TransportSpec /\ TransportFairness

-----------------------------------------------------------------------------
(* Properties.                                                             *)

\* Every NAL the decoder is given is, packet by packet, one NAL the server sent:
\* never packets of two NALs or sessions, nor bytes read across a broken record
\* (ReassembleFrame keys on the frame index alone; the cache keeps old sessions).
DeliveredWhole ==
    \A d \in delivered : \E n \in DOMAIN Nals(d.f) :
        d.got = [i \in 1..Nals(d.f)[n] |-> n]

\* The frame has left the server and the link.
Passed(f) ==
    /\ f \in sent /\ \A q \in {sending, net} : \A i \in DOMAIN q : q[i].f # f

\* FecCodec.h's promise, as far as it is kept: while no more than one datagram
\* was lost, every slice sent over UDP is delivered, though parity and data
\* come interleaved and the parity alone decides when recovery is tried.
OneLossRepaired ==
    ~tcp /\ losses <= 1 =>
        \A f \in FrameIndex : Passed(f) => \E d \in delivered : d.f = f /\ Len(d.got) > 1

\* A key frame the encoder has made is never lost to newer frames before the
\* link: it is queued or was taken for sending, unless newer key frames and the frame that
\* displaced it fill the queue (QueueEncodedVideoFrame and VideoSendThread both drop).
KeyFrameReaches ==
    \A f \in FrameIndex : kind[f] = "key" =>
        \/ f \in sent \/ Contains(sendQueue, f)
        \/ Cardinality({g \in FrameIndex : g > f /\ kind[g] = "key"}) >= QueueCap - 1

\* The pacer of a frame being sent learns of every frame that waits behind it
\* (videoSendNewerFrameQueued_ is set and cleared by two threads).
PacerSeesNewer == sending # <<>> /\ sendQueue # <<>> => newer

\* What the runs check of the invariants together.
TransportSafe == DeliveredWhole /\ OneLossRepaired /\ KeyFrameReaches /\ PacerSeesNewer

\* The pose a picture is reprojected from is never that of a later frame, and
\* is the picture's own while the client still keeps it.
PosePlausible ==
    [][shown'.f # shown.f =>
        /\ shown'.pose <= shown'.f
        /\ Contains(poses, shown'.f) => shown'.pose = shown'.f]_transportVars

\* The freshest frame is not starved by the dropping of stale ones: whenever one waits, the
\* newest encoded is sent in the end, it or those encoded after it.
Encoded == {f \in FrameIndex : kind[f] \in {"key", "delta"}}
FreshFrameSent ==
    sendQueue # <<>> ~> \E f \in sent : \A g \in Encoded : g <= f

\* A NAL the decoder refused is followed by a request for a key frame, also when
\* requests were throttled at the time (pendingDecoderSubmitFailures_).
RefusalAnswered ==
    refused.pending > 0 ~> \E i \in DOMAIN control : control[i].type = "RequestKeyframe"

=============================================================================
