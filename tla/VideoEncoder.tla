----------------------------- MODULE VideoEncoder -----------------------------
(***************************************************************************)
(* The asynchronous life of a frame in the video encoder                   *)
(* (runtime/src/VideoEncoder.mm, EncoderHelperClient.mm).  The encode      *)
(* worker takes a drain lease and a buffer slot and commits a Metal command*)
(* buffer; its completion handler hands the frame's context to the encoder *)
(* helper process or to the in-process VideoToolbox session; whoever ends  *)
(* the frame finalizes its context, which returns slot and lease.          *)
(* Meanwhile the helper may die and Shutdown may run, time out and be      *)
(* retried.  A frame is the identity of its context and of its cookie,     *)
(* which is a sequence number and never reused (nextHelperCookie_).        *)
(***************************************************************************)
EXTENDS Naturals, FiniteSets, Sequences

CONSTANTS
    Frame,          \* the frames the application's worker submits, once each
    NoFrame,        \* none of them
    SlotCount,      \* preallocated buffer slots
    HelperModes,    \* whether Initialize started the helper
    MaxShutdowns    \* bound: Shutdown attempts (the first and its retries)

ASSUME FrameAssumption == NoFrame \notin Frame
ASSUME SlotAssumption == SlotCount \in Nat \ {0}
ASSUME ModeAssumption == HelperModes \subseteq BOOLEAN
ASSUME ShutdownAssumption == MaxShutdowns \in Nat

VARIABLES
    shuttingDown,                \* shuttingDown_
    stopping, active,            \* callbackDrain_
    session, vt,                 \* videoToolbox_.session; frames inside it
    inUse, slot,                 \* slots_[].inUse; the slot of a frame, or 0
    useHelper, client,           \* useHelper_; the helper client's flags
    helper, inbox, outbox,       \* the helper process and its two streams
    contexts,                    \* helperContexts_
    reader, rcur,                \* the reader thread and the contexts it is using
    enc, ecur,                   \* the encode worker in EncodeInternal
    handler,                     \* per frame: its Metal completion handler
    fin, calls,                  \* per frame: FinalizeEncodeFrame; its calls
    sd, closing,                 \* Shutdown and the frames StopHelper reclaims
    closer, sdStarted, complete, \* shutdownThread_, sessionShutdown* flags
    destroyed, attempts          \* resourcesDestroyed_; uses of the bound

drain   == <<stopping, active>>
tool    == <<session, vt>>
slots   == <<inUse, slot>>
channel == <<useHelper, client>>
process == <<helper, inbox, outbox>>
read    == <<reader, rcur>>
worker  == <<enc, ecur>>
ends    == <<fin, calls>>
down    == <<shuttingDown, sd, closing, closer, sdStarted, complete, destroyed, attempts>>
vars    == <<drain, tool, slots, channel, process, contexts, read, worker, handler,
             ends, down>>

Init ==
    /\ shuttingDown = FALSE
    /\ stopping = FALSE /\ active = 0
    /\ session = TRUE /\ vt = {}
    /\ inUse = {} /\ slot = [f \in Frame |-> 0]
    /\ useHelper \in HelperModes
    /\ client = [alive |-> useHelper, shut |-> FALSE, stopping |-> FALSE]
    /\ helper = IF useHelper THEN "up" ELSE "none"
    /\ inbox = {} /\ outbox = <<>>
    /\ contexts = {}
    /\ reader = (IF useHelper THEN "read" ELSE "exited") /\ rcur = {}
    /\ enc = "idle" /\ ecur = NoFrame
    /\ handler = [f \in Frame |-> "new"]
    /\ fin = [f \in Frame |-> "none"] /\ calls = [f \in Frame |-> 0]
    /\ sd = "idle" /\ closing = {}
    /\ closer = "none" /\ sdStarted = FALSE /\ complete = TRUE
    /\ destroyed = FALSE /\ attempts = 0

-----------------------------------------------------------------------------
(* FinalizeEncodeFrame: its caller begins it; the slot goes back before the *)
(* lease, and the context is deleted after both.                           *)

Finalize(S) ==
    /\ fin' = [f \in Frame |-> IF f \in S /\ fin[f] = "none" THEN "begun" ELSE fin[f]]
    /\ calls' = [f \in Frame |-> IF f \in S THEN calls[f] + 1 ELSE calls[f]]

Gone(S) == \A f \in S : fin[f] = "gone"

FreeSlot(f) ==
    /\ inUse' = inUse \ {slot[f]}
    /\ slot' = [slot EXCEPT ![f] = 0]

FinalizeSlot(f) ==
    /\ fin[f] = "begun"
    /\ fin' = [fin EXCEPT ![f] = "slotFreed"]
    /\ FreeSlot(f)
    /\ UNCHANGED <<drain, tool, channel, process, contexts, read, worker, handler,
                   calls, down>>

ReleaseLease == active' = IF active > 0 THEN active - 1 ELSE 0

FinalizeLease(f) ==
    /\ fin[f] = "slotFreed"
    /\ fin' = [fin EXCEPT ![f] = "gone"]
    /\ ReleaseLease
    /\ UNCHANGED <<stopping, tool, slots, channel, process, contexts, read, worker,
                   handler, calls, down>>

-----------------------------------------------------------------------------
(* EncodeInternal, on the encode worker.                                   *)

\* Refused at once when shutting down.
EncodeBegin(f) ==
    /\ enc = "idle" /\ handler[f] = "new"
    /\ IF shuttingDown
         THEN handler' = [handler EXCEPT ![f] = "refused"] /\ UNCHANGED worker
         ELSE enc' = "lease" /\ ecur' = f /\ UNCHANGED handler
    /\ UNCHANGED <<drain, tool, slots, channel, process, contexts, read, ends, down>>

EncodeRefused ==
    /\ handler' = [handler EXCEPT ![ecur] = "refused"]
    /\ enc' = "idle" /\ ecur' = NoFrame

\* Mutant: a stopped drain still admits.
EncodeLeaseAlways ==
    /\ enc = "lease" /\ enc' = "check" /\ active' = active + 1
    /\ UNCHANGED <<stopping, tool, slots, channel, process, contexts, read, ecur,
                   handler, ends, down>>

\* ScopedDrainLease: TryAcquire.
EncodeLease ==
    /\ enc = "lease"
    /\ IF stopping
         THEN EncodeRefused /\ UNCHANGED active
         ELSE enc' = "check" /\ active' = active + 1 /\ UNCHANGED <<ecur, handler>>
    /\ UNCHANGED <<stopping, tool, slots, channel, process, contexts, read, ends, down>>

\* Without a session, or when the snapshot wait timed out or found the frame
\* superseded, the lease goes back and the frame is dropped.
EncodeCheck ==
    /\ enc = "check"
    /\ \/ /\ EncodeRefused
          /\ ReleaseLease
       \/ /\ ~shuttingDown /\ session
          /\ enc' = "slot" /\ UNCHANGED <<ecur, handler, active>>
    /\ UNCHANGED <<stopping, tool, slots, channel, process, contexts, read, ends, down>>

FreeSlots == (1..SlotCount) \ inUse
FirstFree == CHOOSE s \in FreeSlots : \A t \in FreeSlots : s <= t

\* The first slot not in use; with none the frame is dropped.
AcquireSlot ==
    /\ enc = "slot"
    /\ IF FreeSlots = {}
         THEN EncodeRefused /\ ReleaseLease /\ UNCHANGED slots
         ELSE /\ enc' = "record"
              /\ inUse' = inUse \cup {FirstFree}
              /\ slot' = [slot EXCEPT ![ecur] = FirstFree]
              /\ UNCHANGED <<ecur, handler, active>>
    /\ UNCHANGED <<stopping, tool, channel, process, contexts, read, ends, down>>

\* dropAcquiredSlot and the returns like it: the commands cannot be recorded.
EncodeDrop ==
    /\ enc = "record" /\ enc' = "drop"
    /\ FreeSlot(ecur)
    /\ UNCHANGED <<drain, tool, channel, process, contexts, read, ecur, handler, ends,
                   down>>

EncodeDropLease ==
    /\ enc = "drop"
    /\ EncodeRefused
    /\ ReleaseLease
    /\ UNCHANGED <<stopping, tool, slots, channel, process, contexts, read, ends, down>>

\* The context is created, the lease transferred to it, the buffer committed.
EncodeCommit ==
    /\ enc = "record" /\ enc' = "idle" /\ ecur' = NoFrame
    /\ handler' = [handler EXCEPT ![ecur] = "committed"]
    /\ UNCHANGED <<drain, tool, slots, channel, process, contexts, read, ends, down>>

EncodeInternal ==
    \/ \E f \in Frame : EncodeBegin(f)
    \/ EncodeLease
    \/ EncodeCheck
    \/ AcquireSlot
    \/ EncodeDrop
    \/ EncodeDropLease
    \/ EncodeCommit

-----------------------------------------------------------------------------
(* The command buffer's completion handler, a thread of its own per frame.  *)

HandlerAt(f, from, to) ==
    handler[f] = from /\ handler' = [handler EXCEPT ![f] = to]

\* The commands failed, or shutdown began: finalized as dropped.  Otherwise the
\* helper is taken when it is in use and alive; both flags only ever fall.
CompletedHandler(f) ==
    /\ \/ HandlerAt(f, "committed", "done") /\ Finalize({f})
       \/ /\ ~shuttingDown
          /\ HandlerAt(f, "committed", IF useHelper /\ client.alive THEN "publish" ELSE "session")
          /\ UNCHANGED ends
    /\ UNCHANGED <<drain, tool, slots, channel, process, contexts, read, worker, down>>

\* From here on the reader thread may finalize the context.
PublishContext(f) ==
    /\ HandlerAt(f, "publish", "submit")
    /\ contexts' = contexts \cup {f}
    /\ UNCHANGED <<drain, tool, slots, channel, process, read, worker, ends, down>>

\* SubmitFrame: the message is written, and is lost if the helper is gone by the
\* time it would read it; or the write fails and the client is marked dead.
CanSend == client.alive /\ ~client.shut

SubmitFrame(f) ==
    /\ \/ /\ CanSend /\ helper = "up"
          /\ HandlerAt(f, "submit", "done")
          /\ inbox' = inbox \cup {f}
          /\ UNCHANGED client
       \/ /\ ~CanSend \/ helper # "up"
          /\ HandlerAt(f, "submit", "lookup")
          /\ client' = IF client.alive THEN [client EXCEPT !.alive = FALSE, !.shut = TRUE]
                                       ELSE client
          /\ UNCHANGED inbox
    /\ UNCHANGED <<drain, tool, slots, useHelper, helper, outbox, contexts, read, worker,
                   ends, down>>

\* Mutant: the frame is finalized without looking its cookie up.
SubmitFailedDirect(f) ==
    /\ HandlerAt(f, "lookup", "done")
    /\ contexts' = contexts \ {f}
    /\ Finalize({f})
    /\ UNCHANGED <<drain, tool, slots, channel, process, read, worker, down>>

\* A frame that was not sent is taken back unless it was reclaimed meanwhile.
SubmitFailed(f) ==
    /\ HandlerAt(f, "lookup", "done")
    /\ contexts' = contexts \ {f}
    /\ Finalize({f} \cap contexts)
    /\ UNCHANGED <<drain, tool, slots, channel, process, read, worker, down>>

\* The in-process session, under videoToolboxSessionMutex_.
SessionEncode(f) ==
    /\ IF shuttingDown \/ ~session
         THEN HandlerAt(f, "session", "done") /\ Finalize({f}) /\ UNCHANGED vt
         ELSE \/ HandlerAt(f, "session", "sent") /\ vt' = vt \cup {f} /\ UNCHANGED ends
              \/ HandlerAt(f, "session", "failed") /\ UNCHANGED <<ends, vt>>
    /\ UNCHANGED <<drain, session, slots, channel, process, contexts, read, worker, down>>

\* After the unlock the context's metrics are written; a frame that was not
\* accepted is finalized.
SessionSubmitted(f) ==
    /\ \/ HandlerAt(f, "sent", "done") /\ UNCHANGED ends
       \/ HandlerAt(f, "failed", "done") /\ Finalize({f})
    /\ UNCHANGED <<drain, tool, slots, channel, process, contexts, read, worker, down>>

\* VideoToolbox ends a frame it holds (CompressionOutputCallback).
CompressionOutputCallback(f) ==
    /\ f \in vt /\ fin[f] = "none"
    /\ Finalize({f})
    /\ UNCHANGED <<drain, tool, slots, channel, process, contexts, read, worker, handler,
                   down>>

CallbackReturns(f) ==
    /\ f \in vt /\ fin[f] = "gone"
    /\ vt' = vt \ {f}
    /\ UNCHANGED <<drain, session, slots, channel, process, contexts, read, worker,
                   handler, ends, down>>

Handler(f) ==
    \/ CompletedHandler(f)
    \/ PublishContext(f)
    \/ SubmitFrame(f)
    \/ SubmitFailed(f)
    \/ SessionEncode(f)
    \/ SessionSubmitted(f)

-----------------------------------------------------------------------------
(* The helper process, as the client sees it.                               *)

\* It encodes a frame it was sent: its NAL units, then FrameDone, or FrameDone
\* alone for a dropped frame.
HelperEncodes ==
    /\ helper = "up"
    /\ \E f \in inbox :
         /\ inbox' = inbox \ {f}
         /\ \E nal \in {<<>>, <<[type |-> "Nal", cookie |-> f]>>} :
              outbox' = outbox \o nal \o <<[type |-> "FrameDone", cookie |-> f]>>
    /\ UNCHANGED <<drain, tool, slots, channel, helper, contexts, read, worker, handler,
                   ends, down>>

\* It crashes, or exits on the end of its socket; what it had not answered is lost.
HelperDies ==
    /\ helper = "up"
    /\ helper' = "dead"
    /\ inbox' = {}
    /\ UNCHANGED <<drain, tool, slots, channel, outbox, contexts, read, worker, handler,
                   ends, down>>

-----------------------------------------------------------------------------
(* EncoderHelperClient::ReaderLoop.                                         *)

\* OnHelperNal looks the context up, and uses it after the unlock.
ReadNal ==
    /\ reader = "read" /\ outbox # <<>> /\ Head(outbox).type = "Nal"
    /\ outbox' = Tail(outbox)
    /\ IF Head(outbox).cookie \in contexts
         THEN reader' = "nal" /\ rcur' = {Head(outbox).cookie}
         ELSE UNCHANGED read
    /\ UNCHANGED <<drain, tool, slots, channel, helper, inbox, contexts, worker, handler,
                   ends, down>>

NalReturns ==
    /\ reader = "nal"
    /\ reader' = "read" /\ rcur' = {}
    /\ UNCHANGED <<drain, tool, slots, channel, process, contexts, worker, handler, ends,
                   down>>

\* OnHelperFrameDone takes the context out of the map and finalizes it.
ReadFrameDone ==
    /\ reader = "read" /\ outbox # <<>> /\ Head(outbox).type = "FrameDone"
    /\ LET f == Head(outbox).cookie IN
         /\ outbox' = Tail(outbox)
         /\ contexts' = contexts \ {f}
         /\ Finalize({f} \cap contexts)
         /\ IF f \in contexts THEN reader' = "done" /\ rcur' = {f} ELSE UNCHANGED read
    /\ UNCHANGED <<drain, tool, slots, channel, helper, inbox, worker, handler, down>>

FrameDoneReturns ==
    /\ reader = "done" /\ Gone(rcur)
    /\ reader' = "read" /\ rcur' = {}
    /\ UNCHANGED <<drain, tool, slots, channel, process, contexts, worker, handler, ends,
                   down>>

\* The stream ends: at once when this side shut it down, else after what the
\* dead helper had written.  Only an unexpected end marks the client dead.
ReadEnds ==
    /\ reader = "read"
    /\ client.shut \/ (helper = "dead" /\ outbox = <<>>)
    /\ reader' = "notify"
    /\ outbox' = <<>>
    /\ client' = IF client.stopping THEN client
                 ELSE [client EXCEPT !.alive = FALSE, !.shut = TRUE]
    /\ UNCHANGED <<drain, tool, slots, useHelper, helper, inbox, contexts, rcur, worker,
                   handler, ends, down>>

\* Mutant: the owner is not told of the death.
NotifyDiedNever ==
    /\ reader = "notify" /\ reader' = "reclaim"
    /\ UNCHANGED <<drain, tool, slots, channel, process, contexts, rcur, worker, handler,
                   ends, down>>

\* NotifyDiedIfNeeded: OnHelperDied reclaims every published context.
NotifyDiedIfNeeded ==
    /\ reader = "notify" /\ reader' = "reclaim"
    /\ contexts' = IF client.stopping THEN contexts ELSE {}
    /\ rcur' = contexts \ contexts'
    /\ Finalize(contexts \ contexts')
    /\ UNCHANGED <<drain, tool, slots, channel, process, worker, handler, down>>

\* Frames finalized by this thread: it returns once they are gone.
ReaderExits ==
    /\ reader = "reclaim"
    /\ Gone(rcur)
    /\ reader' = "exited" /\ rcur' = {}
    /\ UNCHANGED <<drain, tool, slots, channel, process, contexts, worker, handler,
                   ends, down>>

Reader ==
    \/ ReadNal
    \/ NalReturns
    \/ ReadFrameDone
    \/ FrameDoneReturns
    \/ ReadEnds
    \/ NotifyDiedIfNeeded
    \/ ReaderExits

-----------------------------------------------------------------------------
(* Shutdown, called by the owner and retried while it returns false.        *)

\* The steps of Shutdown that write nothing but its own state.
ShutdownAt(from, to) == sd = from /\ sd' = to

ShutdownBegin ==
    /\ attempts < MaxShutdowns
    /\ ShutdownAt("idle", "stop")
    /\ attempts' = attempts + 1
    /\ shuttingDown' = TRUE
    /\ UNCHANGED <<drain, tool, slots, channel, process, contexts, read, worker, handler,
                   ends, closing, closer, sdStarted, complete, destroyed>>

\* callbackDrain_.Stop, then StopHelper takes the helper out of use.
ShutdownStop ==
    /\ ShutdownAt("stop", "client")
    /\ stopping' = TRUE
    /\ useHelper' = FALSE
    /\ UNCHANGED <<active, tool, slots, client, process, contexts, read, worker, handler,
                   ends, shuttingDown, closing, closer, sdStarted, complete, destroyed,
                   attempts>>

\* Mutant: the socket is left open for the reader.
ClientStopsOpen == [client EXCEPT !.stopping = TRUE, !.alive = FALSE]
\* EncoderHelperClient::Stop: stopping_, the socket, alive_.
ClientStops == [client EXCEPT !.stopping = TRUE, !.shut = TRUE, !.alive = FALSE]

ShutdownClient ==
    /\ ShutdownAt("client", "join")
    /\ client' = ClientStops
    /\ UNCHANGED <<drain, tool, slots, useHelper, process, contexts, read, worker, handler,
                   ends, shuttingDown, closing, closer, sdStarted, complete, destroyed,
                   attempts>>

ReaderJoined == reader = "exited"

\* Join the reader, reap the child, then reclaim what is still published.
ShutdownReclaim ==
    /\ ReaderJoined
    /\ ShutdownAt("join", "reclaim")
    /\ helper' = IF helper = "none" THEN helper ELSE "dead"
    /\ inbox' = {} /\ outbox' = <<>>
    /\ contexts' = {}
    /\ closing' = contexts
    /\ Finalize(contexts)
    /\ UNCHANGED <<drain, tool, slots, channel, read, worker, handler, shuttingDown, closer,
                   sdStarted, complete, destroyed, attempts>>

\* The session is closed once, by a thread of its own.
ShutdownSession ==
    /\ Gone(closing)
    /\ ShutdownAt("reclaim", "session")
    /\ closing' = {}
    /\ IF sdStarted
         THEN UNCHANGED <<closer, sdStarted, complete>>
         ELSE closer' = "detach" /\ sdStarted' = TRUE /\ complete' = FALSE
    /\ UNCHANGED <<drain, tool, slots, channel, process, contexts, read, worker, handler,
                   ends, shuttingDown, destroyed, attempts>>

\* Either wait may time out: Shutdown returns false and may be called again.
ShutdownTimesOut ==
    /\ sd \in {"session", "drain"} /\ sd' = "idle"
    /\ UNCHANGED <<drain, tool, slots, channel, process, contexts, read, worker, handler,
                   ends, shuttingDown, closing, closer, sdStarted, complete, destroyed,
                   attempts>>

ShutdownComplete ==
    /\ complete
    /\ ShutdownAt("session", "drain")
    /\ UNCHANGED <<drain, tool, slots, channel, process, contexts, read, worker, handler,
                   ends, shuttingDown, closing, closer, sdStarted, complete, destroyed,
                   attempts>>

DrainEmpty == active = 0

\* The callback drain is empty: the helper client is released, the slots and the
\* device objects are destroyed, and Shutdown returns true.
ShutdownDestroys ==
    /\ DrainEmpty
    /\ ShutdownAt("drain", "shut")
    /\ inUse' = IF destroyed THEN inUse ELSE {}
    /\ destroyed' = TRUE
    /\ UNCHANGED <<drain, tool, slot, channel, process, contexts, read, worker, handler,
                   ends, shuttingDown, closing, closer, sdStarted, complete, attempts>>

Shutdown ==
    \/ ShutdownStop
    \/ ShutdownClient
    \/ ShutdownReclaim
    \/ ShutdownSession
    \/ ShutdownTimesOut
    \/ ShutdownComplete
    \/ ShutdownDestroys

\* shutdownThread_ detaches the session under its mutex ...
CloserDetaches ==
    /\ closer = "detach" /\ closer' = "complete"
    /\ session' = FALSE
    /\ UNCHANGED <<drain, vt, slots, channel, process, contexts, read, worker, handler,
                   ends, shuttingDown, sd, closing, sdStarted, complete, destroyed,
                   attempts>>

\* ... and CompleteFrames returns when VideoToolbox has ended every frame.
CloserCompletes ==
    /\ closer = "complete" /\ closer' = "exited"
    /\ vt = {}
    /\ complete' = TRUE
    /\ UNCHANGED <<drain, tool, slots, channel, process, contexts, read, worker, handler,
                   ends, shuttingDown, sd, closing, sdStarted, destroyed, attempts>>

-----------------------------------------------------------------------------
Next ==
    \/ EncodeInternal
    \/ \E f \in Frame :
         \/ FinalizeSlot(f)
         \/ FinalizeLease(f)
         \/ Handler(f)
         \/ CompressionOutputCallback(f)
         \/ CallbackReturns(f)
    \/ HelperEncodes
    \/ HelperDies
    \/ Reader
    \/ ShutdownBegin
    \/ Shutdown
    \/ CloserDetaches
    \/ CloserCompletes

\* Threads run, the device completes command buffers and VideoToolbox ends the
\* frames it holds.  A helper may hang: nothing makes it answer or die.
Fairness ==
    /\ WF_vars(EncodeInternal)
    /\ \A f \in Frame :
         /\ WF_vars(FinalizeSlot(f) \/ FinalizeLease(f))
         /\ WF_vars(Handler(f))
         /\ WF_vars(CompressionOutputCallback(f) \/ CallbackReturns(f))
    /\ WF_vars(Reader)
    /\ WF_vars(Shutdown)
    /\ WF_vars(CloserDetaches)
    /\ WF_vars(CloserCompletes)

Spec == Init /\ [][Next]_vars
FairSpec == Spec /\ Fairness

-----------------------------------------------------------------------------
\* The type invariant, in parts.
FlagType ==
    /\ shuttingDown \in BOOLEAN /\ stopping \in BOOLEAN /\ session \in BOOLEAN
    /\ useHelper \in BOOLEAN /\ sdStarted \in BOOLEAN /\ complete \in BOOLEAN
    /\ destroyed \in BOOLEAN
    /\ client \in [alive : BOOLEAN, shut : BOOLEAN, stopping : BOOLEAN]

CountType == active \in Nat /\ attempts \in Nat

SlotType == inUse \subseteq 1..SlotCount /\ slot \in [Frame -> 0..SlotCount]

PlaceType ==
    /\ vt \subseteq Frame /\ inbox \subseteq Frame /\ contexts \subseteq Frame
    /\ rcur \subseteq Frame /\ closing \subseteq Frame

Message == [type : {"Nal", "FrameDone"}, cookie : Frame]
StreamType == outbox \in Seq(Message)

StepType ==
    /\ helper \in {"none", "up", "dead"}
    /\ reader \in {"read", "nal", "done", "notify", "reclaim", "exited"}
    /\ enc \in {"idle", "lease", "check", "slot", "record", "drop"}
    /\ ecur \in Frame \cup {NoFrame}
    /\ sd \in {"idle", "stop", "client", "join", "reclaim", "session", "drain", "shut"}
    /\ closer \in {"none", "detach", "complete", "exited"}

FrameType ==
    handler \in [Frame -> {"new", "refused", "committed", "publish", "submit",
                           "lookup", "session", "sent", "failed", "done"}]

EndType ==
    /\ fin \in [Frame -> {"none", "begun", "slotFreed", "gone"}]
    /\ calls \in [Frame -> Nat]

TypeOK ==
    /\ FlagType /\ CountType /\ SlotType /\ PlaceType
    /\ StreamType /\ StepType /\ FrameType /\ EndType

\* Frames whose context exists, and those that hold a drain lease.
Pending == {f \in Frame : handler[f] \notin {"new", "refused"} /\ fin[f] # "gone"}
Leases  == Pending \cup (IF enc \in {"check", "slot", "record", "drop"} THEN {ecur} ELSE {})

\* Whoever may finalize a frame that was not finalized yet: its handler until it
\* publishes or submits, the map, or VideoToolbox.
Parties == {"handler", "map", "videotoolbox"}
Owners(f) ==
    {o \in Parties :
        \/ o = "handler" /\ handler[f] \in {"committed", "publish", "session", "failed"}
        \/ o = "map" /\ f \in contexts
        \/ o = "videotoolbox" /\ f \in vt}

\* Every context is finalized once, by the one party that owns it, whichever of
\* FrameDone, helper death, failed submit, VideoToolbox and Shutdown comes first;
\* none is forgotten (FinalizeEncodeFrame and its callers).
FinalizedOnce ==
    \A f \in Frame :
        /\ calls[f] = IF fin[f] = "none" THEN 0 ELSE 1
        /\ f \in Pending /\ fin[f] = "none" => \E o \in Parties : Owners(f) = {o}

\* Two frames never share a slot, and a slot in use belongs to a frame that is
\* still being recorded, encoded or finalized.
SlotsExclusive ==
    /\ inUse = {slot[f] : f \in Frame} \ {0}
    /\ \A f, g \in Frame : f # g /\ slot[f] = slot[g] => slot[f] = 0

\* callbackDrain_ counts the frames whose context or worker needs the encoder.
DrainCounts == active = Cardinality(Leases)

\* The context OnHelperNal found under the lock is not finalized while it uses
\* it without the lock (comment at VideoEncoder.mm:1509).
NalContextAlive == reader = "nal" => \A f \in rcur : fin[f] = "none"

\* A Shutdown that returned true leaves no frame, slot, session or reader behind.
ShutdownIsFinal ==
    sd = "shut" =>
        /\ Pending = {} /\ inUse = {} /\ vt = {} /\ contexts = {}
        /\ reader = "exited" /\ ~session /\ closer = "exited"

\* The callback drain keeps the contract of BoundedDrain.h over the frames.
Drain == INSTANCE BoundedDrain WITH
            Holder <- Frame, leases <- Leases, drained <- sd = "shut"
DrainKept == Drain!Spec

\* What the run checks of the invariants together.
EncoderSafe ==
    /\ TypeOK /\ FinalizedOnce /\ SlotsExclusive /\ DrainCounts
    /\ NalContextAlive /\ ShutdownIsFinal

\* A frame whose helper died is reclaimed: its slot and lease come back although
\* no completion will ever arrive, so the encoder is not starved of slots.
HelperDeathReclaims ==
    \A f \in Frame : f \in contexts /\ helper = "dead" ~> fin[f] = "gone"

\* Every Shutdown attempt returns: no wait in it is unbounded.
ShutdownReturns == sd = "stop" ~> sd \in {"idle", "shut"}

=============================================================================
