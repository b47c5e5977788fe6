--------------------------- MODULE StreamReconfigure ---------------------------
(***************************************************************************)
(* Changing the encoded size of a running USB session: the server's        *)
(* pending update (StreamingReconfigure.h, StreamingServer.cpp) against    *)
(* the headset's decoder (XrApp.cpp).  Two server threads work on the      *)
(* update: "ctl" reads the control records and may request, retry and      *)
(* apply an update, "snd" sends video and, between two frames, retries or  *)
(* times out what is pending.  Three headset threads work on it: the       *)
(* receiver, the decoder worker and the render thread.  The control        *)
(* connection is TCP, so messages of one session are neither lost nor      *)
(* reordered; the connection itself may end at any time.                   *)
(***************************************************************************)
EXTENDS Naturals, Sequences

CONSTANTS
    Sizes,          \* the encoded sizes the profiles of abr_mode "full" reach
    FirstSize,      \* the size of the layout StreamingServer::Start builds
    MaxRetries,     \* kStreamConfigMaxRetries: one retry at least
    MaxUpdates,     \* updates ever requested
    MaxSessions,    \* clients ever connected
    EncoderFails,   \* whether the Initialize of a replacement encoder may fail
    DecoderFails    \* whether the worker's Initialize of the decoder may fail

ASSUME SizesAssumption ==
    /\ Sizes \subseteq Nat \ {0} /\ FirstSize \in Sizes
    /\ \A s \in Sizes : s <= FirstSize
ASSUME BoundsAssumption ==
    /\ MaxRetries \in Nat \ {0} /\ MaxUpdates \in Nat /\ MaxSessions \in Nat
    /\ EncoderFails \in BOOLEAN /\ DecoderFails \in BOOLEAN

VARIABLES
    layout,      \* streamLayout_: the encoded size and streamConfigSequence
    pend,        \* pendingStreamConfigUpdate_ and streamConfigPending_
    encoder,     \* the encoded size of encoder_, 0 for none
    connected,   \* state_ = Connected, and the control socket is open
    pc,          \* where "ctl" and "snd" stand
    upd,         \* the copy of the update each of them holds
    target,      \* the size the latency report being handled asks for
    ret,         \* where "ctl" goes on after HandleClientDisconnect
    toClient,    \* StreamConfigUpdate records on the control connection
    toServer,    \* StreamConfigAck records on the control connection
    conn,        \* the headset: "reset", "up", or "lost" with needsReconnect_
    streamConfigSequence, workerSequence,  \* the headset's two atomics
    received,    \* the update between HandleStreamConfigUpdate's two reads
    job,         \* pendingStreamConfigUpdate_ of the headset
    working,     \* the result the worker is about to store
    completed,   \* completedStreamConfigUpdate_
    finishing,   \* the render thread is about to clear workerSequence
    decoder,     \* the maximum size the decoder was created for, 0 for none
    decoderEncoded,  \* decoderEncodedWidth_ and -Height_
    shown,       \* the size ApplyStreamConfigParameters last set
    deferred,    \* frameDeferredStreamConfig_
    disturbed,   \* history: in this session a retry was sent, or an
                 \* acknowledged update was dropped for want of an encoder
    updates, sessions   \* how much of the bounds is used up

serverVars == <<layout, pend, encoder, connected>>
threadVars == <<pc, upd, target, ret>>
receiverVars == <<received, job, workerSequence>>
workerVars == <<working, completed, decoder, decoderEncoded>>
renderVars == <<streamConfigSequence, finishing, shown, deferred>>
boundVars == <<disturbed, updates, sessions>>
clientVars == <<conn, receiverVars, workerVars, renderVars>>
vars == <<serverVars, threadVars, toClient, toServer, clientVars, boundVars>>

NoUpdate == [seq |-> 0, size |-> 0]
NoResult == [seq |-> 0, size |-> 0, accepted |-> FALSE, kept |-> FALSE]
Idle == [seq |-> 0, size |-> 0, st |-> "Idle", tries |-> 0]

Go(t, to) == pc' = [pc EXCEPT ![t] = to]

Init ==
    /\ layout = [size |-> FirstSize, seq |-> 0] /\ pend = Idle
    /\ encoder = 0 /\ connected = FALSE
    /\ pc = [ctl |-> "accept", snd |-> "tick"]
    /\ upd = [ctl |-> NoUpdate, snd |-> NoUpdate]
    /\ target = FirstSize /\ ret = "read"
    /\ toClient = <<>> /\ toServer = <<>>
    /\ conn = "reset" /\ streamConfigSequence = 0 /\ workerSequence = 0
    /\ received = NoUpdate /\ job = NoUpdate
    /\ working = NoResult /\ completed = NoResult /\ finishing = FALSE
    /\ decoder = 0 /\ decoderEncoded = 0 /\ shown = 0 /\ deferred = NoUpdate
    /\ disturbed = FALSE /\ updates = 0 /\ sessions = 0

-------------------------------------------------------------------------------
(* The server: connecting and disconnecting.                               *)

\* The announce carries the stored layout, and HandleUsbClientConnect builds
\* the encoder for it; the sequence of an earlier session stays in it.
Connect ==
    /\ pc.ctl = "accept" /\ ~connected /\ conn = "reset" /\ sessions < MaxSessions
    /\ sessions' = sessions + 1 /\ disturbed' = FALSE
    /\ connected' = TRUE /\ encoder' = layout.size /\ Go("ctl", "read")
    /\ conn' = "up" /\ decoderEncoded' = layout.size /\ shown' = layout.size
    /\ toClient' = <<>> /\ toServer' = <<>>
    /\ UNCHANGED <<layout, pend, upd, target, ret, receiverVars, working,
                   completed, decoder, streamConfigSequence, finishing,
                   deferred, updates>>

\* HandleClientDisconnect as a whole: what its own steps interleave with is
\* the subject of StreamSession.  What is on the way to the headset arrives.
HandleClientDisconnect(t) ==
    /\ pc[t] = "drop"
    /\ Go(t, IF t = "snd" THEN "tick" ELSE ret)
    /\ \/ /\ connected
          /\ connected' = FALSE /\ encoder' = 0 /\ pend' = Idle /\ toServer' = <<>>
       \/ ~connected /\ UNCHANGED <<connected, encoder, pend, toServer>>
    /\ UNCHANGED <<layout, upd, target, ret, toClient, clientVars, boundVars>>

\* ReadTcpRecord fails: the headset closed the connection, or a disconnect did.
TcpControlEnds ==
    /\ pc.ctl = "read" /\ toServer = <<>>
    /\ conn = "reset" \/ ~connected
    /\ ret' = "accept" /\ Go("ctl", "drop")
    /\ UNCHANGED <<serverVars, upd, target, toClient, toServer, clientVars, boundVars>>

-------------------------------------------------------------------------------
(* The server: requesting, retrying and timing out.                        *)

\* Mutant: an update is retried but never given up.
OutOfRetriesNever == FALSE
OutOfRetries == pend.st = "Pending" /\ pend.tries = MaxRetries

\* PendingState::Tick.  The copy to retry is taken under streamConfigMutex_
\* and sent after it is released.
Tick(t) ==
    /\ pc[t] = "tick"
    /\ \/ /\ t = "ctl" /\ Go(t, "request") /\ UNCHANGED <<pend, upd, ret>>
       \/ /\ pend.st = "Pending" /\ pend.tries < MaxRetries
          /\ pend' = [pend EXCEPT !.tries = @ + 1]
          /\ upd' = [upd EXCEPT ![t] = [seq |-> pend.seq, size |-> pend.size]]
          /\ Go(t, "retry") /\ UNCHANGED ret
       \/ /\ OutOfRetries
          /\ pend' = Idle /\ Go(t, "drop")
          /\ ret' = IF t = "ctl" THEN "request" ELSE ret
          /\ UNCHANGED upd
    /\ UNCHANGED <<layout, encoder, connected, target, toClient, toServer,
                   clientVars, boundVars>>

\* SendControlPayload: to whichever control connection is open now.
Deliver(t) ==
    toClient' = IF conn = "reset" THEN toClient ELSE Append(toClient, upd[t])

\* A retry that cannot be sent gives the update up and ends the session.
SendRetry(t) ==
    /\ pc[t] = "retry"
    /\ \/ /\ connected /\ Deliver(t) /\ disturbed' = TRUE /\ UNCHANGED <<pend, ret>>
          /\ Go(t, IF t = "snd" THEN "tick" ELSE "request")
       \/ /\ ~connected /\ pend' = Idle /\ Go(t, "drop") /\ UNCHANGED toClient
          /\ ret' = IF t = "ctl" THEN "request" ELSE ret
          /\ UNCHANGED disturbed
    /\ UNCHANGED <<layout, encoder, connected, upd, target, toServer,
                   clientVars, updates, sessions>>

\* HandleLatencyReport decides for a size.
HandleLatencyReport ==
    /\ pc.ctl = "read" /\ connected /\ conn # "reset" /\ updates < MaxUpdates
    /\ \E s \in Sizes : target' = s
    /\ Go("ctl", "tick")
    /\ UNCHANGED <<serverVars, upd, ret, toClient, toServer, clientVars, boundVars>>

\* The rest of MaybeRequestStreamReconfigure, up to the send.
MaybeRequest ==
    /\ pc.ctl = "request"
    /\ \/ /\ pend.seq # 0 \/ target = layout.size
          /\ Go("ctl", "read") /\ UNCHANGED <<pend, upd, updates>>
       \/ /\ pend.seq = 0 /\ target # layout.size
          /\ pend' = [seq |-> layout.seq + 1, size |-> target,
                      st |-> "Pending", tries |-> 0]
          /\ upd' = [upd EXCEPT !.ctl = [seq |-> layout.seq + 1, size |-> target]]
          /\ updates' = updates + 1 /\ Go("ctl", "send")
    /\ UNCHANGED <<layout, encoder, connected, target, ret, toClient, toServer,
                   clientVars, disturbed, sessions>>

\* SendControlPayload after streamConfigMutex_ is released.
SendUpdate ==
    /\ pc.ctl = "send" /\ Go("ctl", "read")
    /\ \/ connected /\ Deliver("ctl") /\ UNCHANGED pend
       \/ ~connected /\ pend' = Idle /\ UNCHANGED toClient
    /\ UNCHANGED <<layout, encoder, connected, upd, target, ret, toServer,
                   clientVars, boundVars>>

-------------------------------------------------------------------------------
(* The server: the ack and the swap of encoders.                           *)

\* Mutant: the status of the ack is not looked at.
AcceptedAny(ack) == ack.size = pend.size /\ pend.st = "Pending"
\* The ack is OK, for the size asked for, and the update still waits for it.
Accepted(ack) == ack.ok /\ ack.size = pend.size /\ pend.st = "Pending"

\* An ack of no pending update is ignored, one that is not accepted resets it.
HandleStreamConfigAck ==
    /\ pc.ctl = "read" /\ toServer # <<>>
    /\ toServer' = Tail(toServer)
    /\ LET ack == Head(toServer)
       IN \/ /\ pend.seq = 0 \/ ack.seq # pend.seq
             /\ UNCHANGED <<pend, pc, upd>>
          \/ /\ pend.seq # 0 /\ ack.seq = pend.seq /\ Accepted(ack)
             /\ pend' = [pend EXCEPT !.st = "Acked"]
             /\ upd' = [upd EXCEPT !.ctl = [seq |-> pend.seq, size |-> pend.size]]
             /\ Go("ctl", "apply")
          \/ /\ pend.seq # 0 /\ ack.seq = pend.seq /\ ~Accepted(ack)
             /\ pend' = Idle /\ UNCHANGED <<pc, upd>>
    /\ UNCHANGED <<layout, encoder, connected, target, ret, toClient,
                   clientVars, boundVars>>

\* ApplyPendingStreamConfigLocked up to the encoder swap.  A disconnect that
\* reset pendingResolutionScale_ meanwhile leaves a layout that does not match.
ApplyPrepare ==
    /\ pc.ctl = "apply"
    /\ \/ /\ pend.size # upd.ctl.size
          /\ pend' = Idle /\ ret' = "read" /\ Go("ctl", "drop")
          /\ UNCHANGED disturbed
       \/ /\ pend.size = upd.ctl.size /\ EncoderFails
          /\ pend' = Idle /\ disturbed' = TRUE /\ Go("ctl", "read") /\ UNCHANGED ret
       \/ /\ pend.size = upd.ctl.size
          /\ Go("ctl", "swap") /\ UNCHANGED <<pend, ret, disturbed>>
    /\ UNCHANGED <<layout, encoder, connected, upd, target, toClient, toServer,
                   clientVars, updates, sessions>>

\* The old encoder is drained and replaced, or its drain times out.
ApplySwap ==
    /\ pc.ctl = "swap"
    /\ \/ /\ encoder' = upd.ctl.size /\ Go("ctl", "layout")
          /\ UNCHANGED <<pend, ret>>
       \/ /\ encoder # 0 /\ pend' = Idle /\ ret' = "read" /\ Go("ctl", "drop")
          /\ UNCHANGED encoder
    /\ UNCHANGED <<layout, connected, upd, target, toClient, toServer,
                   clientVars, boundVars>>

\* Mutant: the layout keeps the sequence of the previous one.
ApplyLayoutKeepsSequence ==
    /\ pc.ctl = "layout" /\ Go("ctl", "applied")
    /\ layout' = [layout EXCEPT !.size = upd.ctl.size]
    /\ UNCHANGED <<pend, encoder, connected, upd, target, ret, toClient,
                   toServer, clientVars, boundVars>>

\* The new layout is published ...
ApplyLayout ==
    /\ pc.ctl = "layout" /\ Go("ctl", "applied")
    /\ layout' = [size |-> upd.ctl.size, seq |-> upd.ctl.seq]
    /\ UNCHANGED <<pend, encoder, connected, upd, target, ret, toClient,
                   toServer, clientVars, boundVars>>

\* ... and the update is no longer pending.
ApplyDone ==
    /\ pc.ctl = "applied" /\ Go("ctl", "read") /\ pend' = Idle
    /\ UNCHANGED <<layout, encoder, connected, upd, target, ret, toClient,
                   toServer, clientVars, boundVars>>

-------------------------------------------------------------------------------
(* The headset: the control receiver thread.                               *)

Ack(u, ok) ==
    toServer' = IF connected THEN Append(toServer, [seq |-> u.seq, size |-> u.size, ok |-> ok])
                             ELSE toServer

\* HandleStreamConfigUpdate up to the read of streamConfigSequence_.
ReceiveUpdate ==
    /\ conn # "reset" /\ received = NoUpdate /\ toClient # <<>>
    /\ toClient' = Tail(toClient)
    /\ LET u == Head(toClient)
       IN \/ u.seq < streamConfigSequence /\ Ack(u, FALSE) /\ UNCHANGED received
          \/ u.seq = streamConfigSequence /\ Ack(u, TRUE) /\ UNCHANGED received
          \/ u.seq > streamConfigSequence /\ received' = u /\ UNCHANGED toServer
    /\ UNCHANGED <<serverVars, threadVars, conn, job, workerSequence,
                   workerVars, renderVars, boundVars>>

\* The rest of it, from the read of streamConfigWorkerSequence_.
QueueUpdate ==
    /\ received # NoUpdate /\ received' = NoUpdate
    /\ \/ workerSequence = received.seq /\ UNCHANGED <<job, workerSequence, toServer>>
       \/ /\ workerSequence \notin {0, received.seq}
          /\ Ack(received, FALSE) /\ UNCHANGED <<job, workerSequence>>
       \/ /\ workerSequence = 0
          /\ job' = received /\ workerSequence' = received.seq /\ UNCHANGED toServer
    /\ UNCHANGED <<serverVars, threadVars, toClient, conn, workerVars,
                   renderVars, boundVars>>

-------------------------------------------------------------------------------
(* The headset: the decoder worker and the video thread.                   *)

\* StreamConfigWorkerMain takes the update and makes the decoder ready for it.
WorkerDecode ==
    /\ job # NoUpdate /\ working = NoResult /\ job' = NoUpdate
    /\ \/ /\ decoder # 0 /\ job.size <= decoder
          /\ working' = [seq |-> job.seq, size |-> job.size, accepted |-> TRUE, kept |-> TRUE]
          /\ decoderEncoded' = job.size /\ UNCHANGED decoder
       \/ /\ decoder = 0 \/ job.size > decoder
          /\ working' = [seq |-> job.seq, size |-> job.size, accepted |-> TRUE, kept |-> FALSE]
          /\ decoder' = job.size /\ decoderEncoded' = job.size
       \/ /\ decoder = 0 \/ job.size > decoder
          /\ DecoderFails
          /\ working' = [seq |-> job.seq, size |-> job.size, accepted |-> FALSE, kept |-> FALSE]
          /\ decoder' = 0 /\ UNCHANGED decoderEncoded
    /\ UNCHANGED <<serverVars, threadVars, toClient, toServer, conn, received,
                   workerSequence, completed, renderVars, boundVars>>

\* ... and stores the result for the render thread.
WorkerCompletes ==
    /\ working # NoResult
    /\ completed' = working /\ working' = NoResult
    /\ UNCHANGED <<serverVars, threadVars, toClient, toServer, conn,
                   receiverVars, decoder, decoderEncoded, renderVars, boundVars>>

\* OnNalUnitReceived initialises a decoder that is not.
OnNalUnitReceived ==
    /\ conn # "reset" /\ connected /\ encoder # 0 /\ decoder = 0
    /\ decoder' = decoderEncoded
    /\ UNCHANGED <<serverVars, threadVars, toClient, toServer, conn, receiverVars,
                   working, completed, decoderEncoded, renderVars, boundVars>>

-------------------------------------------------------------------------------
(* The headset: the render thread.                                         *)

Stale == conn # "up" \/ workerSequence # completed.seq
            \/ completed.seq <= streamConfigSequence

\* Mutant: a result that came too late keeps the worker's slot.
SlotKept(seq) == workerSequence
\* The slot is freed if it is still the result's.
SlotFreed(seq) == IF workerSequence = seq THEN 0 ELSE workerSequence

\* ApplyCompletedStreamConfigUpdate up to the ack.
ApplyCompleted ==
    /\ completed # NoResult /\ ~finishing
    /\ completed' = NoResult
    /\ LET u == [seq |-> completed.seq, size |-> completed.size]
       IN \/ /\ Stale
             /\ workerSequence' = SlotFreed(u.seq)
             /\ UNCHANGED <<streamConfigSequence, shown, deferred, finishing, toServer>>
          \/ /\ ~Stale /\ ~completed.accepted
             /\ Ack(u, FALSE) /\ finishing' = TRUE
             /\ UNCHANGED <<streamConfigSequence, shown, deferred, workerSequence>>
          \/ /\ ~Stale /\ completed.accepted
             /\ streamConfigSequence' = u.seq /\ Ack(u, TRUE) /\ finishing' = TRUE
             /\ deferred' = IF completed.kept THEN u ELSE NoUpdate
             /\ shown' = IF completed.kept THEN shown ELSE u.size
             /\ UNCHANGED workerSequence
    /\ UNCHANGED <<serverVars, threadVars, toClient, conn, received, job, working,
                   decoder, decoderEncoded, boundVars>>

\* The end of ApplyCompletedStreamConfigUpdate.
ApplyCompletedEnds ==
    /\ finishing /\ finishing' = FALSE /\ workerSequence' = 0
    /\ UNCHANGED <<serverVars, threadVars, toClient, toServer, conn, received, job,
                   workerVars, streamConfigSequence, shown, deferred, boundVars>>

\* A frame of the new size is presented, or 500 ms have passed at one.
ApplyDeferred ==
    /\ deferred # NoUpdate /\ decoder # 0 /\ conn # "reset" /\ ~finishing
    /\ shown' = deferred.size /\ deferred' = NoUpdate
    /\ UNCHANGED <<serverVars, threadVars, toClient, toServer, conn, receiverVars,
                   workerVars, streamConfigSequence, finishing, boundVars>>

\* OnConnectionLost: a socket closed, or no video for two seconds.
OnConnectionLost ==
    /\ conn = "up" /\ conn' = "lost"
    /\ UNCHANGED <<serverVars, threadVars, toClient, toServer, receiverVars,
                   workerVars, renderVars, boundVars>>

\* RunFrame finds needsReconnect_: ResetConnection joins the receiver and the
\* worker and forgets everything of the session.
ResetConnection ==
    /\ conn = "lost" /\ ~finishing /\ received = NoUpdate /\ working = NoResult
    /\ conn' = "reset" /\ toClient' = <<>>
    /\ job' = NoUpdate /\ completed' = NoResult /\ deferred' = NoUpdate
    /\ streamConfigSequence' = 0 /\ workerSequence' = 0
    /\ decoder' = 0 /\ decoderEncoded' = 0 /\ shown' = 0
    /\ UNCHANGED <<serverVars, threadVars, toServer, received, working,
                   finishing, boundVars>>

-------------------------------------------------------------------------------

Ctl ==
    \/ HandleClientDisconnect("ctl") \/ Tick("ctl") \/ SendRetry("ctl")
    \/ MaybeRequest \/ SendUpdate \/ HandleStreamConfigAck
    \/ ApplyPrepare \/ ApplySwap \/ ApplyLayout \/ ApplyDone \/ TcpControlEnds

Snd == HandleClientDisconnect("snd") \/ Tick("snd") \/ SendRetry("snd")

Headset ==
    \/ ReceiveUpdate \/ QueueUpdate \/ WorkerDecode \/ WorkerCompletes
    \/ ApplyCompleted \/ ApplyCompletedEnds \/ ResetConnection

Next ==
    \/ Connect \/ HandleLatencyReport \/ Ctl \/ Snd
    \/ Headset \/ OnNalUnitReceived \/ ApplyDeferred \/ OnConnectionLost

Fairness ==
    /\ WF_vars(Ctl) /\ WF_vars(Snd)
    /\ WF_vars(ReceiveUpdate) /\ WF_vars(QueueUpdate)
    /\ WF_vars(WorkerDecode) /\ WF_vars(WorkerCompletes)
    /\ WF_vars(ApplyCompleted) /\ WF_vars(ApplyCompletedEnds)
    /\ WF_vars(ResetConnection)

Spec == Init /\ [][Next]_vars
FairSpec == Spec /\ Fairness

-------------------------------------------------------------------------------

Msgs == [seq : Nat, size : Sizes \cup {0}]
Results == [seq : Nat, size : Sizes \cup {0}, accepted : BOOLEAN, kept : BOOLEAN]

ServerType ==
    /\ layout \in [size : Sizes, seq : Nat]
    /\ pend \in [seq : Nat, size : Sizes \cup {0},
                 st : {"Idle", "Pending", "Acked"}, tries : 0 .. MaxRetries]
    /\ encoder \in Sizes \cup {0} /\ connected \in BOOLEAN

ThreadType ==
    /\ pc \in [ctl : {"accept", "read", "tick", "retry", "drop", "request", "send",
                       "apply", "swap", "layout", "applied"},
               snd : {"tick", "retry", "drop"}]
    /\ upd \in [ctl : Msgs, snd : Msgs] /\ target \in Sizes
    /\ ret \in {"read", "request", "accept"}

LinkType ==
    /\ toClient \in Seq([seq : Nat, size : Sizes])
    /\ toServer \in Seq([seq : Nat, size : Sizes, ok : BOOLEAN])

HeadsetType ==
    /\ conn \in {"reset", "up", "lost"}
    /\ streamConfigSequence \in Nat /\ workerSequence \in Nat
    /\ received \in Msgs /\ job \in Msgs /\ deferred \in Msgs
    /\ working \in Results /\ completed \in Results
    /\ decoder \in Sizes \cup {0} /\ decoderEncoded \in Sizes \cup {0}
    /\ shown \in Sizes \cup {0} /\ finishing \in BOOLEAN

BoundType ==
    disturbed \in BOOLEAN /\ updates \in 0 .. MaxUpdates /\ sessions \in 0 .. MaxSessions

\* What every variable holds: an encoded size is always one a profile reaches,
\* on both ends and in every message.
TypeOK == ServerType /\ ThreadType /\ LinkType /\ HeadsetType /\ BoundType

\* Nothing about an update is under way on either end or between them.
Quiet ==
    /\ connected /\ conn = "up" /\ pend = Idle
    /\ pc.ctl = "read" /\ pc.snd = "tick"
    /\ toClient = <<>> /\ toServer = <<>>
    /\ received = NoUpdate /\ job = NoUpdate /\ working = NoResult
    /\ completed = NoResult /\ workerSequence = 0 /\ ~finishing

\* Once nothing is under way, the server encodes the size the headset's decoder
\* was told of and its shaders assume, whatever was rejected, timed out or cut
\* off by a reconnect before; short of the two events "disturbed" remembers,
\* after which the code may leave them apart: a sequence number the server could not
\* apply is used again for another size, and the headset acknowledges an update of its
\* current sequence without a look at the size.
InSync ==
    Quiet /\ ~disturbed =>
        /\ encoder = layout.size /\ decoderEncoded = layout.size
        /\ deferred = NoUpdate => shown = layout.size

\* streamConfigWorkerSequence_ is occupied only while the update it names is
\* somewhere between the receiver and the end of ApplyCompletedStreamConfigUpdate:
\* a sequence left behind would make the headset reject every later update.
WorkerSlotHeld ==
    workerSequence # 0 =>
        \/ job.seq = workerSequence \/ working.seq = workerSequence
        \/ completed.seq = workerSequence \/ finishing

\* What the runs check of the two together.
ReconfigureSafe == TypeOK /\ WorkerSlotHeld

\* The encoder is replaced by one of another size only when the headset of the
\* session already decodes that size: until then ("disturbed" apart) the old
\* stream goes on.
SwapFits ==
    [][ApplySwap /\ encoder' # encoder /\ conn = "up" /\ ~disturbed
          => decoderEncoded = encoder']_vars

\* docs/protocol.md: "Pending updates have bounded retry/timeout behavior".  An
\* update does not stay pending, not even one the headset swallowed because its
\* worker's slot was still taken: it is answered, times out or ends with the session.
PendingResolved == pend.seq # 0 ~> pend.seq = 0
=============================================================================
