----------------------------- MODULE VideoProofs -----------------------------
(***************************************************************************)
(* Proofs about VideoEncoder, for any frames, slots and number of Shutdown *)
(* attempts: every frame is finalized once by its one owner, slots are     *)
(* exclusive, the drain counts the leases, a Shutdown that returned true   *)
(* leaves nothing behind, and the drain keeps the contract of BoundedDrain;*)
(* and about VideoTransport, for any frames, slices, FEC groups, queues and*)
(* losses: key frames reach the link, delivered NALs are whole, one lost   *)
(* datagram is repaired, and the pose on display is plausible.             *)
(***************************************************************************)
EXTENDS VideoEncoder, VideoTransport, FiniteSetTheorems, SequenceTheorems, WellFoundedInduction,
     TLAPS

-----------------------------------------------------------------------------
(* VideoEncoder.                                                           *)

\* The worker's frame has no context yet.
Work == enc # "idle" => ecur \in Frame /\ handler[ecur] = "new"

\* Where a frame is, by the point its handler reached: before it is handed over
\* only the handler holds it; afterwards the map, VideoToolbox or its finalizer.
Placed ==
    \A f \in Frame :
        /\ handler[f] \in {"new", "refused", "committed", "publish", "session", "failed"} =>
              fin[f] = "none" /\ f \notin contexts /\ f \notin vt
        /\ handler[f] \in {"submit", "lookup"} => f \notin vt
        /\ handler[f] = "sent" => f \notin contexts
        /\ handler[f] \in {"submit", "lookup", "sent", "done"} /\ fin[f] = "none" =>
              f \in contexts \/ f \in vt
        /\ f \in contexts => fin[f] = "none" /\ f \notin vt
        /\ calls[f] = IF fin[f] = "none" THEN 0 ELSE 1

\* What travels to and from the helper is a frame its handler has left.
Sent ==
    /\ \A f \in inbox : handler[f] = "done"
    /\ \A i \in 1..Len(outbox) : handler[outbox[i].cookie] = "done"

\* The context the reader uses without the lock stays published meanwhile.
Read == reader = "nal" => \A f \in rcur : handler[f] = "done" /\ f \in contexts

\* A slot is held by the frame being recorded, or by one not yet finalized.
Held ==
    \A f \in Frame :
        slot[f] # 0 => \/ enc = "record" /\ f = ecur
                       \/ f \in Pending /\ fin[f] \in {"none", "begun"}

\* The drain counts the leases that are out.
Counted == IsFiniteSet(Leases) /\ DrainCounts

\* What Shutdown and the thread that closes the session have done at each step.
Closed ==
    /\ sd \notin {"idle", "stop"} => stopping
    /\ sd \in {"reclaim", "session", "drain", "shut"} => reader = "exited"
    /\ sd \in {"session", "drain", "shut"} => sdStarted
    /\ sd \in {"drain", "shut"} => complete
    /\ sdStarted => closer # "none"
    /\ sdStarted /\ complete => closer = "exited"
    /\ closer \in {"complete", "exited"} => ~session
    /\ closer = "exited" => vt = {}

\* What a Shutdown that returned true has seen, and what it freed.
Freed == sd = "shut" => active = 0 /\ inUse = {}

LeaseStep ==
    \/ Leases' = Leases /\ active' = active
    \/ \E w \in Frame \ Leases :
          /\ ~stopping
          /\ Leases' = Leases \cup {w} /\ active' = active + 1
          /\ UNCHANGED <<stopping, sd>>
    \/ \E w \in Leases :
          /\ Leases' = Leases \ {w} /\ ReleaseLease
          /\ UNCHANGED <<stopping, sd>>

IInv ==
    /\ TypeOK /\ Work /\ Placed /\ Sent /\ Read
    /\ Held /\ SlotsExclusive /\ Counted /\ Closed /\ Freed

-----------------------------------------------------------------------------
(* Every part of IInv is kept by every step.                              *)

\* Which steps change the slots, the ends of the frames, the leases counted, the
\* stream from the helper and what its two streams carry.
LEMMA SlotSteps ==
    ASSUME [Next]_vars
    PROVE  \/ UNCHANGED slots
           \/ AcquireSlot \/ EncodeDrop \/ ShutdownDestroys
           \/ \E f \in Frame : FinalizeSlot(f)
  <1> USE DEF slots, HandlerAt, ShutdownAt, EncodeRefused
  <1>1. CASE EncodeInternal
    BY <1>1 DEF EncodeInternal, EncodeBegin, EncodeLease, EncodeCheck, EncodeDropLease,
                EncodeCommit
  <1>2. CASE \E f \in Frame : \/ FinalizeLease(f) \/ Handler(f)
                              \/ CompressionOutputCallback(f) \/ CallbackReturns(f)
    BY <1>2 DEF FinalizeLease, Handler, CompressionOutputCallback, CallbackReturns,
                CompletedHandler, PublishContext, SubmitFrame, SubmitFailed,
                SessionEncode, SessionSubmitted
  <1>3. CASE HelperEncodes \/ HelperDies \/ Reader
    BY <1>3 DEF HelperEncodes, HelperDies, Reader, ReadNal, NalReturns, ReadFrameDone,
                FrameDoneReturns, ReadEnds, NotifyDiedIfNeeded, ReaderExits
  <1>4. CASE ShutdownBegin \/ Shutdown \/ CloserDetaches \/ CloserCompletes
    BY <1>4 DEF ShutdownBegin, Shutdown, ShutdownStop, ShutdownClient, ShutdownReclaim,
                ShutdownSession, ShutdownTimesOut, ShutdownComplete, CloserDetaches,
                CloserCompletes
  <1>5. CASE UNCHANGED vars
    BY <1>5 DEF vars
  <1> QED BY <1>1, <1>2, <1>3, <1>4, <1>5 DEF Next

LEMMA EndSteps ==
    ASSUME PlaceType, [Next]_vars
    PROVE  \/ UNCHANGED ends
           \/ \E S \in SUBSET Frame : Finalize(S)
           \/ \E f \in Frame : FinalizeSlot(f) \/ FinalizeLease(f)
  <1> USE DEF ends, HandlerAt, ShutdownAt, EncodeRefused, PlaceType
  <1>1. CASE EncodeInternal
    BY <1>1 DEF EncodeInternal, EncodeBegin, EncodeLease, EncodeCheck, AcquireSlot,
                EncodeDrop, EncodeDropLease, EncodeCommit
  <1>2. ASSUME NEW f \in Frame, Handler(f) \/ CompressionOutputCallback(f) \/ CallbackReturns(f)
        PROVE  UNCHANGED ends \/ \E S \in SUBSET Frame : Finalize(S)
    <2>1. {f} \in SUBSET Frame /\ {f} \cap contexts \in SUBSET Frame
      OBVIOUS
    <2> QED
      BY <1>2, <2>1 DEF Handler, CompressionOutputCallback, CallbackReturns,
                CompletedHandler, PublishContext, SubmitFrame, SubmitFailed,
                SessionEncode, SessionSubmitted
  <1>3. CASE HelperEncodes \/ HelperDies \/ Reader
    <2>1. CASE ReadFrameDone
      <3>1. {Head(outbox).cookie} \cap contexts \in SUBSET Frame
        OBVIOUS
      <3> QED BY <2>1, <3>1 DEF ReadFrameDone
    <2>2. CASE NotifyDiedIfNeeded
      <3>1. contexts \ contexts' \in SUBSET Frame
        OBVIOUS
      <3> QED BY <2>2, <3>1 DEF NotifyDiedIfNeeded
    <2> QED
      BY <1>3, <2>1, <2>2 DEF HelperEncodes, HelperDies, Reader, ReadNal, NalReturns,
                FrameDoneReturns, ReadEnds, ReaderExits
  <1>4. CASE ShutdownBegin \/ Shutdown \/ CloserDetaches \/ CloserCompletes
    BY <1>4 DEF ShutdownBegin, Shutdown, ShutdownStop, ShutdownClient, ShutdownReclaim,
                ShutdownSession, ShutdownTimesOut, ShutdownComplete, ShutdownDestroys,
                CloserDetaches, CloserCompletes
  <1>5. CASE UNCHANGED vars
    BY <1>5 DEF vars
  <1> QED BY <1>1, <1>2, <1>3, <1>4, <1>5 DEF Next

LEMMA StreamSteps ==
    ASSUME [Next]_vars
    PROVE  \/ inbox' \subseteq inbox /\ outbox' \in {outbox, <<>>}
           \/ \E f \in Frame : SubmitFrame(f)
           \/ HelperEncodes \/ ReadNal \/ ReadFrameDone
  <1> USE DEF process, HandlerAt, ShutdownAt, EncodeRefused
  <1>1. CASE EncodeInternal
    BY <1>1 DEF EncodeInternal, EncodeBegin, EncodeLease, EncodeCheck, AcquireSlot,
                EncodeDrop, EncodeDropLease, EncodeCommit
  <1>2. CASE \E f \in Frame : \/ FinalizeSlot(f) \/ FinalizeLease(f) \/ Handler(f)
                              \/ CompressionOutputCallback(f) \/ CallbackReturns(f)
    BY <1>2 DEF FinalizeSlot, FinalizeLease, Handler, CompressionOutputCallback,
                CallbackReturns, CompletedHandler, PublishContext, SubmitFailed,
                SessionEncode, SessionSubmitted
  <1>3. CASE HelperDies \/ Reader
    BY <1>3 DEF HelperDies, Reader, NalReturns, FrameDoneReturns, ReadEnds,
                NotifyDiedIfNeeded, ReaderExits
  <1>4. CASE ShutdownBegin \/ Shutdown \/ CloserDetaches \/ CloserCompletes
    BY <1>4 DEF ShutdownBegin, Shutdown, ShutdownStop, ShutdownClient, ShutdownReclaim,
                ShutdownSession, ShutdownTimesOut, ShutdownComplete, ShutdownDestroys,
                CloserDetaches, CloserCompletes
  <1>5. CASE UNCHANGED vars
    BY <1>5 DEF vars
  <1> QED BY <1>1, <1>2, <1>3, <1>4, <1>5 DEF Next

\* A frame whose handler is done stays so.
LEMMA DoneStays ==
    ASSUME TypeOK, Work, [Next]_vars, NEW f \in Frame, handler[f] = "done"
    PROVE  handler'[f] = "done"
  <1> USE DEF TypeOK, FrameType, Work, HandlerAt, EncodeRefused, ShutdownAt
  <1>1. CASE EncodeInternal
    BY <1>1 DEF EncodeInternal, EncodeBegin, EncodeLease, EncodeCheck, AcquireSlot,
                EncodeDrop, EncodeDropLease, EncodeCommit
  <1>2. CASE \E g \in Frame : \/ FinalizeSlot(g) \/ FinalizeLease(g) \/ Handler(g)
                              \/ CompressionOutputCallback(g) \/ CallbackReturns(g)
    BY <1>2 DEF FinalizeSlot, FinalizeLease, Handler, CompressionOutputCallback,
                CallbackReturns, CompletedHandler, PublishContext, SubmitFrame,
                SubmitFailed, SessionEncode, SessionSubmitted
  <1>3. CASE HelperEncodes \/ HelperDies \/ Reader
    BY <1>3 DEF HelperEncodes, HelperDies, Reader, ReadNal, NalReturns, ReadFrameDone,
                FrameDoneReturns, ReadEnds, NotifyDiedIfNeeded, ReaderExits
  <1>4. CASE ShutdownBegin \/ Shutdown \/ CloserDetaches \/ CloserCompletes
    BY <1>4 DEF ShutdownBegin, Shutdown, ShutdownStop, ShutdownClient, ShutdownReclaim,
                ShutdownSession, ShutdownTimesOut, ShutdownComplete, ShutdownDestroys,
                CloserDetaches, CloserCompletes
  <1>5. CASE UNCHANGED vars
    BY <1>5 DEF vars
  <1> QED BY <1>1, <1>2, <1>3, <1>4, <1>5 DEF Next

-----------------------------------------------------------------------------
(* Slots, leases and streams.                                              *)

\* The first free slot exists when one is free.
LEMMA FirstFreeSlot ==
    ASSUME FreeSlots # {}
    PROVE  FirstFree \in 1..SlotCount /\ FirstFree \notin inUse
  <1> DEFINE Less == {p \in Nat \X Nat : p[1] < p[2]}
  <1>1. IsWellFoundedOn(Less, Nat)
    BY NatLessThanWellFounded DEF OpToRel
  <1>2. FreeSlots \subseteq Nat
    BY SlotAssumption DEF FreeSlots
  <1> HIDE DEF Less
  <1>3. PICK s \in FreeSlots : \A t \in FreeSlots : <<t, s>> \notin Less
    BY <1>1, <1>2, WFMin
  <1>4. ASSUME NEW t \in FreeSlots, ~(s <= t)
        PROVE  FALSE
    <2>1. s \in Nat /\ t \in Nat /\ t < s
      BY <1>2, <1>4
    <2>2. <<t, s>> \in Less
      BY <2>1 DEF Less
    <2> QED BY <2>2, <1>3
  <1>5. FirstFree \in FreeSlots
    BY <1>4 DEF FirstFree
  <1> QED BY <1>5 DEF FreeSlots

\* The slots stay slots, taken or freed.
LEMMA NextSlotType ==
    ASSUME IInv, [Next]_vars
    PROVE  SlotType'
  <1> USE SlotAssumption DEF IInv, TypeOK, SlotType, StepType, Work
  <1>0. ASSUME NEW f, FreeSlot(f)
        PROVE  SlotType'
    <2>1. inUse' \subseteq 1..SlotCount
      BY <1>0 DEF FreeSlot
    <2>2. 0 \in 0..SlotCount
      OBVIOUS
    <2>3. slot' \in [Frame -> 0..SlotCount]
      BY <1>0, <2>2, Zenon DEF FreeSlot
    <2> QED BY <2>1, <2>3
  <1>1. CASE AcquireSlot
    <2>1. CASE FreeSlots = {}
      BY <1>1, <2>1 DEF AcquireSlot, slots
    <2>2. CASE FreeSlots # {}
      <3>1. ecur \in Frame /\ FirstFree \in 1..SlotCount
        BY <1>1, <2>2, FirstFreeSlot DEF AcquireSlot
      <3>2. inUse' = inUse \cup {FirstFree} /\ slot' = [slot EXCEPT ![ecur] = FirstFree]
        BY <1>1, <2>2 DEF AcquireSlot
      <3> QED BY <3>1, <3>2
    <2> QED BY <2>1, <2>2
  <1>2. CASE EncodeDrop \/ \E f \in Frame : FinalizeSlot(f)
    BY <1>0, <1>2 DEF EncodeDrop, FinalizeSlot
  <1>3. CASE ShutdownDestroys
    <2>1. slot' = slot /\ inUse' \in {inUse, {}}
      BY <1>3 DEF ShutdownDestroys
    <2> QED BY <2>1
  <1>4. CASE UNCHANGED slots
    BY <1>4 DEF slots
  <1> QED BY <1>1, <1>2, <1>3, <1>4, SlotSteps

LEMMA NextEndType ==
    ASSUME IInv, [Next]_vars
    PROVE  EndType'
  <1> USE DEF IInv, TypeOK, EndType
  <1>1. ASSUME NEW S \in SUBSET Frame, Finalize(S)
        PROVE  EndType'
    <2>1. fin' \in [Frame -> {"none", "begun", "slotFreed", "gone"}]
      BY <1>1 DEF Finalize
    <2>2. calls' \in [Frame -> Nat]
      BY <1>1 DEF Finalize
    <2> QED BY <2>1, <2>2
  <1>2. ASSUME NEW f \in Frame, FinalizeSlot(f) \/ FinalizeLease(f)
        PROVE  EndType'
    BY <1>2 DEF FinalizeSlot, FinalizeLease
  <1>3. CASE UNCHANGED ends
    BY <1>3 DEF ends
  <1> QED BY <1>1, <1>2, <1>3, EndSteps

\* What the helper writes is messages, and the reader takes them one by one.
LEMMA NextStreamType ==
    ASSUME IInv, [Next]_vars
    PROVE  StreamType'
  <1> USE DEF IInv, TypeOK, StreamType, PlaceType
  <1>1. CASE outbox' \in {outbox, <<>>} \/ \E f \in Frame : SubmitFrame(f)
    <2>1. outbox' = outbox \/ outbox' = <<>>
      BY <1>1 DEF SubmitFrame
    <2>2. <<>> \in Seq(Message)
      OBVIOUS
    <2> QED BY <2>1, <2>2
  <1>2. CASE HelperEncodes
    <2>1. PICK f \in inbox :
            \E nal \in {<<>>, <<[type |-> "Nal", cookie |-> f]>>} :
                outbox' = outbox \o nal \o <<[type |-> "FrameDone", cookie |-> f]>>
      BY <1>2 DEF HelperEncodes
    <2>2. [type |-> "FrameDone", cookie |-> f] \in Message
      BY <2>1 DEF Message
    <2>3. [type |-> "Nal", cookie |-> f] \in Message
      BY <2>1 DEF Message
    <2>4. CASE outbox' = outbox \o <<>> \o <<[type |-> "FrameDone", cookie |-> f]>>
      BY <2>2, <2>4
    <2>5. CASE outbox' = outbox \o <<[type |-> "Nal", cookie |-> f]>>
                                \o <<[type |-> "FrameDone", cookie |-> f]>>
      BY <2>2, <2>3, <2>5
    <2> QED BY <2>1, <2>4, <2>5
  <1>3. CASE ReadNal \/ ReadFrameDone
    <2>1. outbox # <<>> /\ outbox' = Tail(outbox)
      BY <1>3 DEF ReadNal, ReadFrameDone
    <2> QED BY <2>1
  <1> QED BY <1>1, <1>2, <1>3, StreamSteps

\* Only a sent frame travels, in either direction.
LEMMA NextSent ==
    ASSUME IInv, [Next]_vars
    PROVE  Sent'
  <1> USE DEF IInv, TypeOK, StreamType, PlaceType, Sent
  <1> DEFINE Done(f) == handler'[f] = "done"
  <1>0. \A f \in Frame : handler[f] = "done" => Done(f)
    BY DoneStays
  <1>a. \A i \in 1..Len(outbox) : outbox[i].cookie \in Frame
    <2>1. \A i \in 1..Len(outbox) : outbox[i] \in Message
      OBVIOUS
    <2> QED BY <2>1 DEF Message
  <1>b. \A i \in 1..Len(outbox) : Done(outbox[i].cookie)
    BY <1>0, <1>a
  <1>c. \A f \in inbox : Done(f)
    BY <1>0
  <1> HIDE DEF Done
  <1>1. CASE inbox' \subseteq inbox /\ outbox' \in {outbox, <<>>}
    BY <1>1, <1>b, <1>c DEF Done
  <1>2. ASSUME NEW f \in Frame, SubmitFrame(f)
        PROVE  Sent'
    <2>1. outbox' = outbox
      BY <1>2 DEF SubmitFrame
    <2>2. inbox' = inbox \/ (inbox' = inbox \cup {f} /\ Done(f))
      BY <1>2 DEF SubmitFrame, HandlerAt, FrameType, Done
    <2> QED BY <2>1, <2>2, <1>b, <1>c DEF Done
  <1>3. CASE HelperEncodes
    <2>1. PICK f \in inbox :
            /\ inbox' = inbox \ {f}
            /\ \E nal \in {<<>>, <<[type |-> "Nal", cookie |-> f]>>} :
                outbox' = outbox \o nal \o <<[type |-> "FrameDone", cookie |-> f]>>
      BY <1>3 DEF HelperEncodes
    <2>2. \A i \in 1..Len(outbox') : Done(outbox'[i].cookie)
      <3>1. CASE outbox' = outbox \o <<>> \o <<[type |-> "FrameDone", cookie |-> f]>>
        BY <3>1, <1>b, <1>c
      <3>2. CASE outbox' = outbox \o <<[type |-> "Nal", cookie |-> f]>>
                                  \o <<[type |-> "FrameDone", cookie |-> f]>>
        BY <3>2, <1>b, <1>c
      <3> QED BY <2>1, <3>1, <3>2
    <2> QED BY <2>1, <2>2, <1>c DEF Done
  <1>4. CASE ReadNal \/ ReadFrameDone
    <2>1. outbox # <<>> /\ outbox' = Tail(outbox) /\ inbox' = inbox
      BY <1>4 DEF ReadNal, ReadFrameDone
    <2>2. \A i \in 1..Len(Tail(outbox)) : Done(Tail(outbox)[i].cookie)
      BY <2>1, <1>b
    <2> QED BY <2>1, <2>2, <1>c DEF Done
  <1> QED BY <1>1, <1>2, <1>3, <1>4, StreamSteps

\* Types.
LEMMA NextFlagType ==
    ASSUME IInv, [Next]_vars
    PROVE  FlagType'
  <1> USE DEF IInv, TypeOK, FlagType, PlaceType, StepType, FrameType, drain, tool, slots,
              channel, process, read, worker, ends, down
  <1>1. CASE EncodeInternal
    BY <1>1 DEF EncodeInternal, EncodeBegin, EncodeLease, EncodeCheck, AcquireSlot,
              EncodeDrop, EncodeDropLease, EncodeCommit, EncodeRefused, ReleaseLease,
              FreeSlot
  <1>2. ASSUME NEW f \in Frame, Handler(f)
        PROVE  FlagType'
    BY <1>2 DEF Handler, CompletedHandler, PublishContext, SubmitFrame,
              SubmitFailed, SessionEncode, SessionSubmitted, HandlerAt, Finalize,
              CanSend
  <1>3. ASSUME NEW f \in Frame,
               \/ FinalizeSlot(f) \/ FinalizeLease(f)
               \/ CompressionOutputCallback(f) \/ CallbackReturns(f)
        PROVE  FlagType'
    BY <1>3 DEF FinalizeSlot, FinalizeLease, CompressionOutputCallback,
              CallbackReturns, FreeSlot, ReleaseLease, Finalize
  <1>4. CASE HelperEncodes \/ HelperDies \/ Reader
    BY <1>4 DEF Reader, HelperEncodes, HelperDies, ReadNal, NalReturns,
              ReadFrameDone, FrameDoneReturns, ReadEnds, NotifyDiedIfNeeded,
              ReaderExits, Finalize, Gone
  <1>5. CASE ShutdownBegin \/ Shutdown \/ CloserDetaches \/ CloserCompletes
    BY <1>5 DEF Shutdown, ShutdownBegin, ShutdownStop, ShutdownClient,
              ShutdownReclaim, ShutdownSession, ShutdownTimesOut, ShutdownComplete,
              ShutdownDestroys, CloserDetaches, CloserCompletes, ShutdownAt,
              ClientStops, Finalize, ReaderJoined, Gone, DrainEmpty
  <1>6. CASE UNCHANGED vars
    BY <1>6 DEF vars
  <1> QED BY <1>1, <1>2, <1>3, <1>4, <1>5, <1>6 DEF Next

\* Types.
LEMMA NextPlaceType ==
    ASSUME IInv, [Next]_vars
    PROVE  PlaceType'
  <1> USE DEF IInv, TypeOK, FlagType, PlaceType, StepType, FrameType, drain, tool, slots,
              channel, process, read, worker, ends, down
  <1>1. CASE EncodeInternal
    BY <1>1 DEF EncodeInternal, EncodeBegin, EncodeLease, EncodeCheck, AcquireSlot,
              EncodeDrop, EncodeDropLease, EncodeCommit, EncodeRefused, ReleaseLease,
              FreeSlot
  <1>2. ASSUME NEW f \in Frame, Handler(f)
        PROVE  PlaceType'
    BY <1>2 DEF Handler, CompletedHandler, PublishContext, SubmitFrame,
              SubmitFailed, SessionEncode, SessionSubmitted, HandlerAt, Finalize,
              CanSend
  <1>3. ASSUME NEW f \in Frame,
               \/ FinalizeSlot(f) \/ FinalizeLease(f)
               \/ CompressionOutputCallback(f) \/ CallbackReturns(f)
        PROVE  PlaceType'
    BY <1>3 DEF FinalizeSlot, FinalizeLease, CompressionOutputCallback,
              CallbackReturns, FreeSlot, ReleaseLease, Finalize
  <1>4. CASE HelperEncodes \/ HelperDies \/ Reader
    BY <1>4 DEF Reader, HelperEncodes, HelperDies, ReadNal, NalReturns,
              ReadFrameDone, FrameDoneReturns, ReadEnds, NotifyDiedIfNeeded,
              ReaderExits, Finalize, Gone
  <1>5. CASE ShutdownBegin \/ Shutdown \/ CloserDetaches \/ CloserCompletes
    BY <1>5 DEF Shutdown, ShutdownBegin, ShutdownStop, ShutdownClient,
              ShutdownReclaim, ShutdownSession, ShutdownTimesOut, ShutdownComplete,
              ShutdownDestroys, CloserDetaches, CloserCompletes, ShutdownAt,
              ClientStops, Finalize, ReaderJoined, Gone, DrainEmpty
  <1>6. CASE UNCHANGED vars
    BY <1>6 DEF vars
  <1> QED BY <1>1, <1>2, <1>3, <1>4, <1>5, <1>6 DEF Next

\* Types.
LEMMA NextStepType ==
    ASSUME IInv, [Next]_vars
    PROVE  StepType'
  <1> USE DEF IInv, TypeOK, FlagType, PlaceType, StepType, FrameType, drain, tool, slots,
              channel, process, read, worker, ends, down
  <1>1. CASE EncodeInternal
    BY <1>1 DEF EncodeInternal, EncodeBegin, EncodeLease, EncodeCheck, AcquireSlot,
              EncodeDrop, EncodeDropLease, EncodeCommit, EncodeRefused, ReleaseLease,
              FreeSlot
  <1>2. ASSUME NEW f \in Frame, Handler(f)
        PROVE  StepType'
    BY <1>2 DEF Handler, CompletedHandler, PublishContext, SubmitFrame,
              SubmitFailed, SessionEncode, SessionSubmitted, HandlerAt, Finalize,
              CanSend
  <1>3. ASSUME NEW f \in Frame,
               \/ FinalizeSlot(f) \/ FinalizeLease(f)
               \/ CompressionOutputCallback(f) \/ CallbackReturns(f)
        PROVE  StepType'
    BY <1>3 DEF FinalizeSlot, FinalizeLease, CompressionOutputCallback,
              CallbackReturns, FreeSlot, ReleaseLease, Finalize
  <1>4. CASE HelperEncodes \/ HelperDies \/ Reader
    BY <1>4 DEF Reader, HelperEncodes, HelperDies, ReadNal, NalReturns,
              ReadFrameDone, FrameDoneReturns, ReadEnds, NotifyDiedIfNeeded,
              ReaderExits, Finalize, Gone
  <1>5. CASE ShutdownBegin \/ Shutdown \/ CloserDetaches \/ CloserCompletes
    BY <1>5 DEF Shutdown, ShutdownBegin, ShutdownStop, ShutdownClient,
              ShutdownReclaim, ShutdownSession, ShutdownTimesOut, ShutdownComplete,
              ShutdownDestroys, CloserDetaches, CloserCompletes, ShutdownAt,
              ClientStops, Finalize, ReaderJoined, Gone, DrainEmpty
  <1>6. CASE UNCHANGED vars
    BY <1>6 DEF vars
  <1> QED BY <1>1, <1>2, <1>3, <1>4, <1>5, <1>6 DEF Next

\* Types.
LEMMA NextFrameType ==
    ASSUME IInv, [Next]_vars
    PROVE  FrameType'
  <1> USE DEF IInv, TypeOK, FlagType, PlaceType, StepType, FrameType, drain, tool, slots,
              channel, process, read, worker, ends, down
  <1>1. CASE EncodeInternal
    BY <1>1 DEF EncodeInternal, EncodeBegin, EncodeLease, EncodeCheck, AcquireSlot,
              EncodeDrop, EncodeDropLease, EncodeCommit, EncodeRefused, ReleaseLease,
              FreeSlot
  <1>2. ASSUME NEW f \in Frame, Handler(f)
        PROVE  FrameType'
    BY <1>2 DEF Handler, CompletedHandler, PublishContext, SubmitFrame,
              SubmitFailed, SessionEncode, SessionSubmitted, HandlerAt, Finalize,
              CanSend
  <1>3. ASSUME NEW f \in Frame,
               \/ FinalizeSlot(f) \/ FinalizeLease(f)
               \/ CompressionOutputCallback(f) \/ CallbackReturns(f)
        PROVE  FrameType'
    BY <1>3 DEF FinalizeSlot, FinalizeLease, CompressionOutputCallback,
              CallbackReturns, FreeSlot, ReleaseLease, Finalize
  <1>4. CASE HelperEncodes \/ HelperDies \/ Reader
    BY <1>4 DEF Reader, HelperEncodes, HelperDies, ReadNal, NalReturns,
              ReadFrameDone, FrameDoneReturns, ReadEnds, NotifyDiedIfNeeded,
              ReaderExits, Finalize, Gone
  <1>5. CASE ShutdownBegin \/ Shutdown \/ CloserDetaches \/ CloserCompletes
    BY <1>5 DEF Shutdown, ShutdownBegin, ShutdownStop, ShutdownClient,
              ShutdownReclaim, ShutdownSession, ShutdownTimesOut, ShutdownComplete,
              ShutdownDestroys, CloserDetaches, CloserCompletes, ShutdownAt,
              ClientStops, Finalize, ReaderJoined, Gone, DrainEmpty
  <1>6. CASE UNCHANGED vars
    BY <1>6 DEF vars
  <1> QED BY <1>1, <1>2, <1>3, <1>4, <1>5, <1>6 DEF Next

\* The worker leaves a frame when its handler is told.
LEMMA NextWork ==
    ASSUME IInv, [Next]_vars
    PROVE  Work'
  <1> USE DEF IInv, TypeOK, StepType, FrameType, Work, drain, tool, slots, channel, process,
              read, worker, ends, down
  <1>1. CASE EncodeInternal
    BY <1>1 DEF EncodeInternal, EncodeBegin, EncodeLease, EncodeCheck, AcquireSlot,
              EncodeDrop, EncodeDropLease, EncodeCommit, EncodeRefused, ReleaseLease,
              FreeSlot
  <1>2. ASSUME NEW f \in Frame, Handler(f)
        PROVE  Work'
    BY <1>2 DEF Handler, CompletedHandler, PublishContext, SubmitFrame,
              SubmitFailed, SessionEncode, SessionSubmitted, HandlerAt, Finalize,
              CanSend
  <1>3. ASSUME NEW f \in Frame,
               \/ FinalizeSlot(f) \/ FinalizeLease(f)
               \/ CompressionOutputCallback(f) \/ CallbackReturns(f)
        PROVE  Work'
    BY <1>3 DEF FinalizeSlot, FinalizeLease, CompressionOutputCallback,
              CallbackReturns, FreeSlot, ReleaseLease, Finalize
  <1>4. CASE HelperEncodes \/ HelperDies \/ Reader
    BY <1>4 DEF Reader, HelperEncodes, HelperDies, ReadNal, NalReturns,
              ReadFrameDone, FrameDoneReturns, ReadEnds, NotifyDiedIfNeeded,
              ReaderExits, Finalize, Gone
  <1>5. CASE ShutdownBegin \/ Shutdown \/ CloserDetaches \/ CloserCompletes
    BY <1>5 DEF Shutdown, ShutdownBegin, ShutdownStop, ShutdownClient,
              ShutdownReclaim, ShutdownSession, ShutdownTimesOut, ShutdownComplete,
              ShutdownDestroys, CloserDetaches, CloserCompletes, ShutdownAt,
              ClientStops, Finalize, ReaderJoined, Gone, DrainEmpty
  <1>6. CASE UNCHANGED vars
    BY <1>6 DEF vars
  <1> QED BY <1>1, <1>2, <1>3, <1>4, <1>5, <1>6 DEF Next

\* A frame moves from one owner to the next.
LEMMA NextPlaced ==
    ASSUME IInv, [Next]_vars
    PROVE  Placed'
  <1> USE DEF IInv, TypeOK, StepType, FrameType, EndType, PlaceType, Work, Placed, drain,
              tool, slots, channel, process, read, worker, ends, down
  <1>1. CASE EncodeInternal
    BY <1>1 DEF EncodeInternal, EncodeBegin, EncodeLease, EncodeCheck, AcquireSlot,
              EncodeDrop, EncodeDropLease, EncodeCommit, EncodeRefused, ReleaseLease,
              FreeSlot
  <1>2. ASSUME NEW f \in Frame, Handler(f)
        PROVE  Placed'
    BY <1>2 DEF Handler, CompletedHandler, PublishContext, SubmitFrame,
              SubmitFailed, SessionEncode, SessionSubmitted, HandlerAt, Finalize,
              CanSend
  <1>3. ASSUME NEW f \in Frame,
               \/ FinalizeSlot(f) \/ FinalizeLease(f)
               \/ CompressionOutputCallback(f) \/ CallbackReturns(f)
        PROVE  Placed'
    BY <1>3 DEF FinalizeSlot, FinalizeLease, CompressionOutputCallback,
              CallbackReturns, FreeSlot, ReleaseLease, Finalize
  <1>4. CASE HelperEncodes \/ HelperDies \/ Reader
    BY <1>4 DEF Reader, HelperEncodes, HelperDies, ReadNal, NalReturns,
              ReadFrameDone, FrameDoneReturns, ReadEnds, NotifyDiedIfNeeded,
              ReaderExits, Finalize, Gone
  <1>5. CASE ShutdownBegin \/ Shutdown \/ CloserDetaches \/ CloserCompletes
    BY <1>5 DEF Shutdown, ShutdownBegin, ShutdownStop, ShutdownClient,
              ShutdownReclaim, ShutdownSession, ShutdownTimesOut, ShutdownComplete,
              ShutdownDestroys, CloserDetaches, CloserCompletes, ShutdownAt,
              ClientStops, Finalize, ReaderJoined, Gone, DrainEmpty
  <1>6. CASE UNCHANGED vars
    BY <1>6 DEF vars
  <1> QED BY <1>1, <1>2, <1>3, <1>4, <1>5, <1>6 DEF Next

\* What the reader uses.
LEMMA NextRead ==
    ASSUME IInv, [Next]_vars
    PROVE  Read'
  <1> USE DEF IInv, TypeOK, StepType, FrameType, PlaceType, StreamType, Work, Sent, Read,
              drain, tool, slots, channel, process, read, worker, ends, down
  <1>1. CASE EncodeInternal
    BY <1>1 DEF EncodeInternal, EncodeBegin, EncodeLease, EncodeCheck, AcquireSlot,
              EncodeDrop, EncodeDropLease, EncodeCommit, EncodeRefused, ReleaseLease,
              FreeSlot
  <1>2. ASSUME NEW f \in Frame, Handler(f)
        PROVE  Read'
    BY <1>2 DEF Handler, CompletedHandler, PublishContext, SubmitFrame,
              SubmitFailed, SessionEncode, SessionSubmitted, HandlerAt, Finalize,
              CanSend
  <1>3. ASSUME NEW f \in Frame,
               \/ FinalizeSlot(f) \/ FinalizeLease(f)
               \/ CompressionOutputCallback(f) \/ CallbackReturns(f)
        PROVE  Read'
    BY <1>3 DEF FinalizeSlot, FinalizeLease, CompressionOutputCallback,
              CallbackReturns, FreeSlot, ReleaseLease, Finalize
  <1>4. CASE HelperEncodes \/ HelperDies \/ Reader
    BY <1>4 DEF Reader, HelperEncodes, HelperDies, ReadNal, NalReturns,
              ReadFrameDone, FrameDoneReturns, ReadEnds, NotifyDiedIfNeeded,
              ReaderExits, Finalize, Gone
  <1>5. CASE ShutdownBegin \/ Shutdown \/ CloserDetaches \/ CloserCompletes
    BY <1>5 DEF Shutdown, ShutdownBegin, ShutdownStop, ShutdownClient,
              ShutdownReclaim, ShutdownSession, ShutdownTimesOut, ShutdownComplete,
              ShutdownDestroys, CloserDetaches, CloserCompletes, ShutdownAt,
              ClientStops, Finalize, ReaderJoined, Gone, DrainEmpty
  <1>6. CASE UNCHANGED vars
    BY <1>6 DEF vars
  <1> QED BY <1>1, <1>2, <1>3, <1>4, <1>5, <1>6 DEF Next

\* Shutdown.
LEMMA NextClosed ==
    ASSUME IInv, [Next]_vars
    PROVE  Closed'
  <1> USE DEF IInv, TypeOK, StepType, Closed, drain, tool, slots, channel, process, read,
              worker, ends, down
  <1>1. CASE EncodeInternal
    BY <1>1 DEF EncodeInternal, EncodeBegin, EncodeLease, EncodeCheck, AcquireSlot,
              EncodeDrop, EncodeDropLease, EncodeCommit, EncodeRefused, ReleaseLease,
              FreeSlot
  <1>2. ASSUME NEW f \in Frame, Handler(f)
        PROVE  Closed'
    BY <1>2 DEF Handler, CompletedHandler, PublishContext, SubmitFrame,
              SubmitFailed, SessionEncode, SessionSubmitted, HandlerAt, Finalize,
              CanSend
  <1>3. ASSUME NEW f \in Frame,
               \/ FinalizeSlot(f) \/ FinalizeLease(f)
               \/ CompressionOutputCallback(f) \/ CallbackReturns(f)
        PROVE  Closed'
    BY <1>3 DEF FinalizeSlot, FinalizeLease, CompressionOutputCallback,
              CallbackReturns, FreeSlot, ReleaseLease, Finalize
  <1>4. CASE HelperEncodes \/ HelperDies \/ Reader
    BY <1>4 DEF Reader, HelperEncodes, HelperDies, ReadNal, NalReturns,
              ReadFrameDone, FrameDoneReturns, ReadEnds, NotifyDiedIfNeeded,
              ReaderExits, Finalize, Gone
  <1>5. CASE ShutdownBegin \/ Shutdown \/ CloserDetaches \/ CloserCompletes
    BY <1>5 DEF Shutdown, ShutdownBegin, ShutdownStop, ShutdownClient,
              ShutdownReclaim, ShutdownSession, ShutdownTimesOut, ShutdownComplete,
              ShutdownDestroys, CloserDetaches, CloserCompletes, ShutdownAt,
              ClientStops, Finalize, ReaderJoined, Gone, DrainEmpty
  <1>6. CASE UNCHANGED vars
    BY <1>6 DEF vars
  <1> QED BY <1>1, <1>2, <1>3, <1>4, <1>5, <1>6 DEF Next

\* A slot goes back before the frame's lease.
LEMMA NextHeld ==
    ASSUME IInv, [Next]_vars
    PROVE  Held'
  <1> USE DEF IInv, TypeOK, StepType, FrameType, EndType, SlotType, Placed, Work, Held,
              Pending, drain, tool, slots, channel, process, read, worker, ends, down
  <1>1. CASE EncodeInternal
    BY <1>1 DEF EncodeInternal, EncodeBegin, EncodeLease, EncodeCheck, AcquireSlot,
              EncodeDrop, EncodeDropLease, EncodeCommit, EncodeRefused, ReleaseLease,
              FreeSlot
  <1>2. ASSUME NEW f \in Frame, Handler(f)
        PROVE  Held'
    BY <1>2 DEF Handler, CompletedHandler, PublishContext, SubmitFrame,
              SubmitFailed, SessionEncode, SessionSubmitted, HandlerAt, Finalize,
              CanSend
  <1>3. ASSUME NEW f \in Frame,
               \/ FinalizeSlot(f) \/ FinalizeLease(f)
               \/ CompressionOutputCallback(f) \/ CallbackReturns(f)
        PROVE  Held'
    BY <1>3 DEF FinalizeSlot, FinalizeLease, CompressionOutputCallback,
              CallbackReturns, FreeSlot, ReleaseLease, Finalize
  <1>4. CASE HelperEncodes \/ HelperDies \/ Reader
    BY <1>4 DEF Reader, HelperEncodes, HelperDies, ReadNal, NalReturns,
              ReadFrameDone, FrameDoneReturns, ReadEnds, NotifyDiedIfNeeded,
              ReaderExits, Finalize, Gone
  <1>5. CASE ShutdownBegin \/ Shutdown \/ CloserDetaches \/ CloserCompletes
    BY <1>5 DEF Shutdown, ShutdownBegin, ShutdownStop, ShutdownClient,
              ShutdownReclaim, ShutdownSession, ShutdownTimesOut, ShutdownComplete,
              ShutdownDestroys, CloserDetaches, CloserCompletes, ShutdownAt,
              ClientStops, Finalize, ReaderJoined, Gone, DrainEmpty
  <1>6. CASE UNCHANGED vars
    BY <1>6 DEF vars
  <1> QED BY <1>1, <1>2, <1>3, <1>4, <1>5, <1>6 DEF Next

\* Every step leaves the leases, adds one while the drain is open, or returns one.
LEMMA LeaseSteps ==
    ASSUME IInv, [Next]_vars
    PROVE  LeaseStep
  <1> USE DEF IInv, TypeOK, StepType, FrameType, EndType, Placed, Work, Pending, Leases,
              LeaseStep, drain, tool, slots, channel, process, read, worker, ends,
              down
  <1>1. CASE EncodeInternal
    BY <1>1 DEF EncodeInternal, EncodeBegin, EncodeLease, EncodeCheck, AcquireSlot,
              EncodeDrop, EncodeDropLease, EncodeCommit, EncodeRefused, ReleaseLease,
              FreeSlot
  <1>2. ASSUME NEW f \in Frame, Handler(f)
        PROVE  LeaseStep
    BY <1>2 DEF Handler, CompletedHandler, PublishContext, SubmitFrame,
              SubmitFailed, SessionEncode, SessionSubmitted, HandlerAt, Finalize,
              CanSend
  <1>3. ASSUME NEW f \in Frame,
               \/ FinalizeSlot(f) \/ FinalizeLease(f)
               \/ CompressionOutputCallback(f) \/ CallbackReturns(f)
        PROVE  LeaseStep
    BY <1>3 DEF FinalizeSlot, FinalizeLease, CompressionOutputCallback,
              CallbackReturns, FreeSlot, ReleaseLease, Finalize
  <1>4. CASE HelperEncodes \/ HelperDies \/ Reader
    BY <1>4 DEF Reader, HelperEncodes, HelperDies, ReadNal, NalReturns,
              ReadFrameDone, FrameDoneReturns, ReadEnds, NotifyDiedIfNeeded,
              ReaderExits, Finalize, Gone
  <1>5. CASE ShutdownBegin \/ Shutdown \/ CloserDetaches \/ CloserCompletes
    BY <1>5 DEF Shutdown, ShutdownBegin, ShutdownStop, ShutdownClient,
              ShutdownReclaim, ShutdownSession, ShutdownTimesOut, ShutdownComplete,
              ShutdownDestroys, CloserDetaches, CloserCompletes, ShutdownAt,
              ClientStops, Finalize, ReaderJoined, Gone, DrainEmpty
  <1>6. CASE UNCHANGED vars
    BY <1>6 DEF vars
  <1> QED BY <1>1, <1>2, <1>3, <1>4, <1>5, <1>6 DEF Next

\* Two frames never share a slot.
LEMMA NextExclusive ==
    ASSUME IInv, [Next]_vars
    PROVE  SlotsExclusive'
  <1> USE DEF IInv, TypeOK, SlotType, SlotsExclusive
  <1>0. ASSUME NEW f \in Frame, FreeSlot(f)
        PROVE  SlotsExclusive'
    BY <1>0 DEF FreeSlot
  <1>1. CASE AcquireSlot
    <2>1. CASE FreeSlots = {}
      BY <1>1, <2>1 DEF AcquireSlot, slots
    <2>2. CASE FreeSlots # {}
      <3>1. /\ ecur \in Frame /\ slot[ecur] = 0
            /\ FirstFree \in 1..SlotCount /\ FirstFree \notin inUse
        BY <1>1, <2>2, FirstFreeSlot DEF AcquireSlot, Work, Held, Pending
      <3>2. inUse' = inUse \cup {FirstFree} /\ slot' = [slot EXCEPT ![ecur] = FirstFree]
        BY <1>1, <2>2 DEF AcquireSlot
      <3>3. FirstFree # 0
        BY <3>1
      <3>4. \A f \in Frame : slot[f] # FirstFree
        BY <3>1, <3>3
      <3>5. \A f \in Frame : slot'[f] = IF f = ecur THEN FirstFree ELSE slot[f]
        BY <3>2
      <3> QED BY <3>1, <3>2, <3>3, <3>4, <3>5
    <2> QED BY <2>1, <2>2
  <1>2. CASE EncodeDrop \/ \E f \in Frame : FinalizeSlot(f)
    BY <1>0, <1>2 DEF EncodeDrop, FinalizeSlot, Work
  <1>3. CASE ShutdownDestroys
    <2>1. Leases = {}
      BY <1>3, FS_EmptySet DEF ShutdownDestroys, DrainEmpty, Counted, DrainCounts
    <2>2. \A f \in Frame : slot[f] = 0
      BY <2>1, <1>3 DEF Leases, Held
    <2>3. inUse = {}
      BY <2>2
    <2>4. slot' = slot /\ inUse' \in {inUse, {}}
      BY <1>3 DEF ShutdownDestroys
    <2> QED BY <2>2, <2>3, <2>4
  <1>4. CASE UNCHANGED slots
    BY <1>4 DEF slots
  <1> QED BY <1>1, <1>2, <1>3, <1>4, SlotSteps

\* Shutdown ends only when the drain is empty, and the drain never reopens.
LEMMA ShutSteps ==
    ASSUME [Next]_vars
    PROVE  \/ (sd' = "shut") = (sd = "shut") /\ stopping' \in {stopping, TRUE}
           \/ ShutdownDestroys
  <1> USE DEF drain, down, HandlerAt, EncodeRefused
  <1>1. CASE EncodeInternal
    BY <1>1 DEF EncodeInternal, EncodeBegin, EncodeLease, EncodeCheck, AcquireSlot,
                EncodeDrop, EncodeDropLease, EncodeCommit
  <1>2. CASE \E f \in Frame : \/ FinalizeSlot(f) \/ FinalizeLease(f) \/ Handler(f)
                              \/ CompressionOutputCallback(f) \/ CallbackReturns(f)
    BY <1>2 DEF FinalizeSlot, FinalizeLease, Handler, CompressionOutputCallback,
                CallbackReturns, CompletedHandler, PublishContext, SubmitFrame,
                SubmitFailed, SessionEncode, SessionSubmitted
  <1>3. CASE HelperEncodes \/ HelperDies \/ Reader
    BY <1>3 DEF HelperEncodes, HelperDies, Reader, ReadNal, NalReturns, ReadFrameDone,
                FrameDoneReturns, ReadEnds, NotifyDiedIfNeeded, ReaderExits
  <1>4. CASE ShutdownBegin \/ Shutdown \/ CloserDetaches \/ CloserCompletes
    BY <1>4 DEF ShutdownBegin, Shutdown, ShutdownStop, ShutdownClient, ShutdownReclaim,
                ShutdownSession, ShutdownTimesOut, ShutdownComplete, ShutdownAt,
                CloserDetaches, CloserCompletes
  <1>5. CASE UNCHANGED vars
    BY <1>5 DEF vars
  <1> QED BY <1>1, <1>2, <1>3, <1>4, <1>5 DEF Next

\* The drain counts one lease more or one less, with the frame.
LEMMA NextCounted ==
    ASSUME IInv, [Next]_vars
    PROVE  Counted'
  <1> USE DEF IInv, TypeOK, CountType, Counted, DrainCounts
  <1>1. CASE Leases' = Leases /\ active' = active
    BY <1>1
  <1>2. ASSUME NEW w \in Frame \ Leases,
               Leases' = Leases \cup {w}, active' = active + 1
        PROVE  Counted'
    BY <1>2, FS_AddElement
  <1>3. ASSUME NEW w \in Leases, Leases' = Leases \ {w}, ReleaseLease
        PROVE  Counted'
    <2>1. /\ IsFiniteSet(Leases')
          /\ Cardinality(Leases') = active - 1
      BY <1>3, FS_RemoveElement
    <2>2. active # 0
      BY FS_EmptySet
    <2>3. active' = active - 1
      BY <1>3, <2>2 DEF ReleaseLease
    <2> QED BY <2>1, <2>3
  <1> QED BY <1>1, <1>2, <1>3, LeaseSteps DEF LeaseStep

LEMMA NextCountType ==
    ASSUME IInv, [Next]_vars
    PROVE  CountType'
  <1>1. active' \in Nat
    BY NextCounted, FS_CardinalityType DEF Counted, DrainCounts
  <1>2. attempts' = attempts \/ ShutdownBegin
    <2> USE DEF down, HandlerAt, EncodeRefused
    <2>1. CASE EncodeInternal
      BY <2>1 DEF EncodeInternal, EncodeBegin, EncodeLease, EncodeCheck, AcquireSlot,
                  EncodeDrop, EncodeDropLease, EncodeCommit
    <2>2. CASE \E f \in Frame : \/ FinalizeSlot(f) \/ FinalizeLease(f) \/ Handler(f)
                                \/ CompressionOutputCallback(f) \/ CallbackReturns(f)
      BY <2>2 DEF FinalizeSlot, FinalizeLease, Handler, CompressionOutputCallback,
                  CallbackReturns, CompletedHandler, PublishContext, SubmitFrame,
                  SubmitFailed, SessionEncode, SessionSubmitted
    <2>3. CASE HelperEncodes \/ HelperDies \/ Reader
      BY <2>3 DEF HelperEncodes, HelperDies, Reader, ReadNal, NalReturns, ReadFrameDone,
                  FrameDoneReturns, ReadEnds, NotifyDiedIfNeeded, ReaderExits
    <2>4. CASE Shutdown \/ CloserDetaches \/ CloserCompletes
      BY <2>4 DEF Shutdown, ShutdownStop, ShutdownClient, ShutdownReclaim,
                  ShutdownSession, ShutdownTimesOut, ShutdownComplete, ShutdownAt,
                  ShutdownDestroys, CloserDetaches, CloserCompletes
    <2>5. CASE UNCHANGED vars
      BY <2>5 DEF vars
    <2> QED BY <2>1, <2>2, <2>3, <2>4, <2>5 DEF Next
  <1>3. attempts' \in Nat
    BY <1>2 DEF IInv, TypeOK, CountType, ShutdownBegin
  <1> QED BY <1>1, <1>3 DEF CountType

\* With no lease out no slot is in use.
LEMMA NoLeases ==
    ASSUME IInv, active = 0
    PROVE  Leases = {} /\ Pending = {} /\ inUse = {}
  <1>1. Leases = {} /\ Pending = {}
    BY FS_EmptySet DEF IInv, Counted, DrainCounts, Leases
  <1>2. \A f \in Frame : slot[f] = 0
    BY <1>1 DEF Leases, IInv, Held
  <1> QED BY <1>1, <1>2 DEF IInv, SlotsExclusive

\* A Shutdown that returned true has freed the slots, and no frame takes one after.
LEMMA NextFreed ==
    ASSUME IInv, [Next]_vars
    PROVE  Freed'
  <1>1. CASE ShutdownDestroys
    <2>1. active = 0 /\ active' = active /\ inUse' \in {inUse, {}}
      BY <1>1 DEF ShutdownDestroys, DrainEmpty, drain
    <2> QED BY <2>1, NoLeases DEF Freed
  <1>2. CASE sd = "shut" /\ sd' = "shut"
    <2>1. active = 0 /\ Leases = {} /\ inUse = {} /\ stopping
      BY <1>2, NoLeases DEF IInv, Freed, Closed
    <2>2. active' = 0
      BY <2>1, LeaseSteps DEF LeaseStep
    <2>3. inUse' = {}
      <3>1. ~AcquireSlot
        BY <2>1 DEF Leases, AcquireSlot
      <3> QED
        BY <2>1, <3>1, SlotSteps DEF slots, EncodeDrop, FreeSlot, FinalizeSlot,
           ShutdownDestroys
    <2> QED BY <2>2, <2>3 DEF Freed
  <1> QED BY <1>1, <1>2, ShutSteps DEF Freed

-----------------------------------------------------------------------------
\* The inductive invariant of the encoder holds in every reachable state.
THEOREM Invariance == Spec => []IInv
  <1>1. Init => IInv
    <2> SUFFICES ASSUME Init PROVE IInv
      OBVIOUS
    <2>1. TypeOK
      <3>1. FlagType /\ CountType /\ PlaceType /\ StepType /\ FrameType /\ EndType
        BY ModeAssumption DEF Init, FlagType, CountType, PlaceType, StepType, FrameType,
                              EndType
      <3>2. SlotType
        BY SlotAssumption DEF Init, SlotType
      <3>3. StreamType
        BY DEF Init, StreamType
      <3> QED BY <3>1, <3>2, <3>3 DEF TypeOK
    <2>2. Work /\ Placed /\ Sent /\ Read /\ Held /\ Closed /\ Freed
      BY DEF Init, Work, Placed, Sent, Read, Held, Closed, Freed
    <2>3. SlotsExclusive
      BY DEF Init, SlotsExclusive
    <2>4. Leases = {}
      BY DEF Init, Leases, Pending
    <2>5. Counted
      BY <2>4, FS_EmptySet DEF Init, Counted, DrainCounts
    <2> QED BY <2>1, <2>2, <2>3, <2>5 DEF IInv
  <1>2. IInv /\ [Next]_vars => IInv'
    <2> SUFFICES ASSUME IInv, [Next]_vars PROVE IInv'
      OBVIOUS
    <2>1. TypeOK'
      BY NextFlagType, NextCountType, NextSlotType, NextPlaceType, NextStreamType,
         NextStepType, NextFrameType, NextEndType DEF TypeOK
    <2> QED
      BY <2>1, NextWork, NextPlaced, NextSent, NextRead, NextHeld, NextExclusive,
         NextCounted, NextClosed, NextFreed DEF IInv
  <1> QED BY <1>1, <1>2, PTL DEF Spec

\* Every frame the worker submits is finalized once, by its one owner; slots are
\* exclusive; the drain counts the leases; the context the reader uses is not
\* finalized meanwhile; and a Shutdown that returned true leaves nothing behind.
THEOREM EncoderIsSafe == Spec => []EncoderSafe
  <1>1. IInv => EncoderSafe
    <2> SUFFICES ASSUME IInv PROVE EncoderSafe
      OBVIOUS
    <2>1. TypeOK /\ SlotsExclusive /\ DrainCounts
      BY DEF IInv, Counted
    <2>2. FinalizedOnce
      <3> SUFFICES ASSUME NEW f \in Frame
                   PROVE  /\ calls[f] = IF fin[f] = "none" THEN 0 ELSE 1
                          /\ f \in Pending /\ fin[f] = "none" =>
                               \E o \in Parties : Owners(f) = {o}
        BY DEF FinalizedOnce
      <3>1. calls[f] = IF fin[f] = "none" THEN 0 ELSE 1
        BY DEF IInv, Placed
      <3>2. ASSUME f \in Pending, fin[f] = "none"
            PROVE  \E o \in Parties : Owners(f) = {o}
        <4> USE <3>2 DEF Owners, Parties, IInv, TypeOK, Placed, FrameType, Pending
        <4>1. CASE handler[f] \in {"committed", "publish", "session", "failed"}
          <5>1. Owners(f) = {"handler"}
            BY <4>1
          <5> QED BY <5>1
        <4>2. CASE f \in contexts
          <5>1. Owners(f) = {"map"}
            BY <4>2
          <5> QED BY <5>1
        <4>3. CASE f \in vt
          <5>1. Owners(f) = {"videotoolbox"}
            BY <4>3
          <5> QED BY <5>1
        <4> QED BY <4>1, <4>2, <4>3
      <3> QED BY <3>1, <3>2
    <2>3. NalContextAlive
      BY DEF IInv, NalContextAlive, Read, Placed, TypeOK, PlaceType
    <2>4. ShutdownIsFinal
      <3> SUFFICES ASSUME sd = "shut"
                   PROVE  /\ Pending = {} /\ inUse = {} /\ vt = {} /\ contexts = {}
                          /\ reader = "exited" /\ ~session /\ closer = "exited"
        BY DEF ShutdownIsFinal
      <3>1. Pending = {} /\ inUse = {}
        BY NoLeases DEF IInv, Freed
      <3>2. closer = "exited" /\ ~session /\ vt = {} /\ reader = "exited"
        BY DEF IInv, Closed
      <3>3. contexts = {}
        BY <3>1 DEF IInv, Placed, Pending, TypeOK, PlaceType
      <3> QED BY <3>1, <3>2, <3>3
    <2> QED BY <2>1, <2>2, <2>3, <2>4 DEF EncoderSafe
  <1> QED BY <1>1, Invariance, PTL

\* The callback drain of the encoder keeps the contract of BoundedDrain.h: no
\* frame is admitted once it is stopped, and Shutdown returns true only when every
\* lease is back.
THEOREM DrainIsKept == Spec => DrainKept
  <1>1. Init => Drain!Init
    BY DEF Init, Drain!Init, Leases, Pending
  <1>2. IInv /\ [Next]_vars => [Drain!Next]_(Drain!vars)
    <2> SUFFICES ASSUME IInv, [Next]_vars PROVE [Drain!Next]_(Drain!vars)
      OBVIOUS
    <2>1. CASE ShutdownDestroys
      <3>1. active = 0 /\ active' = active /\ stopping /\ stopping' = stopping /\ sd' = "shut"
        BY <2>1 DEF ShutdownDestroys, ShutdownAt, DrainEmpty, drain, IInv, Closed
      <3>2. Leases = {}
        BY <3>1, NoLeases
      <3>3. Leases' = Leases
        BY <2>1 DEF ShutdownDestroys, Leases, Pending, worker, ends
      <3>4. Drain!StopAndWait
        BY <3>1, <3>2, <3>3 DEF Drain!StopAndWait
      <3> QED BY <3>4 DEF Drain!Next
    <2>2. CASE /\ Leases' = Leases
               /\ (sd' = "shut") = (sd = "shut") /\ stopping' \in {stopping, TRUE}
      BY <2>2 DEF Drain!Next, Drain!Stop, Drain!vars
    <2>3. ASSUME NEW w \in Frame \ Leases, ~stopping, Leases' = Leases \cup {w},
                 UNCHANGED <<stopping, sd>>
          PROVE  Drain!Next
      <3>1. Drain!TryAcquire(w)
        BY <2>3 DEF Drain!TryAcquire
      <3> QED BY <3>1 DEF Drain!Next
    <2>4. ASSUME NEW w \in Leases, Leases' = Leases \ {w}, UNCHANGED <<stopping, sd>>
          PROVE  Drain!Next
      <3>1. w \in Frame
        BY DEF Leases, Pending, IInv, Work
      <3>2. Drain!Release(w)
        BY <2>4 DEF Drain!Release
      <3> QED BY <3>1, <3>2 DEF Drain!Next
    <2> QED BY <2>1, <2>2, <2>3, <2>4, LeaseSteps, ShutSteps DEF LeaseStep
  <1> QED BY <1>1, <1>2, Invariance, PTL DEF Spec, DrainKept, Drain!Spec

-----------------------------------------------------------------------------
(* VideoTransport: the runtime's queues; a key frame reaches the link.     *)

Current == Head(encoding).f
Finished(f) == kind[f] \in {"key", "delta"}
Kinds == {"none", "key", "delta", "dropped"}

ServerType ==
    /\ nextFrame \in Nat /\ nextFrame <= Frames /\ pendingFrame \in FrameIndex \cup {None}
    /\ kind \in [FrameIndex -> Kinds]
    /\ encoding = <<>> \/ \E f \in FrameIndex, k \in BOOLEAN : encoding = <<[f |-> f, key |-> k]>>
    /\ sendQueue \in Seq(FrameIndex) /\ newer \in BOOLEAN /\ sent \in SUBSET FrameIndex
    /\ tcp \in BOOLEAN /\ accepting \in BOOLEAN

\* The frames come in the order of their numbers.
Ages ==
    /\ \A f \in FrameIndex : kind[f] # "none" =>
           /\ f < nextFrame
           /\ pendingFrame # None => f < pendingFrame
           /\ encoding # <<>> => f < Current
    /\ pendingFrame # None => pendingFrame < nextFrame
    /\ encoding # <<>> => Current < nextFrame /\ (pendingFrame # None => Current < pendingFrame)

\* The send queue is in order, no longer than its bound, and nothing in it was taken.
Queued ==
    /\ Len(sendQueue) <= QueueCap
    /\ \A i \in 1..Len(sendQueue) : Finished(sendQueue[i]) /\ sendQueue[i] \notin sent
    /\ \A i, j \in 1..Len(sendQueue) : i < j => sendQueue[i] < sendQueue[j]
    /\ \A f \in sent : Finished(f)

ServerInv == ServerType /\ Ages /\ Queued /\ KeyFrameReaches /\ PacerSeesNewer /\ (~tcp => accepting)

-----------------------------------------------------------------------------
Less == {p \in Nat \X Nat : p[1] < p[2]}

\* A set of numbers has a first.
LEMMA FirstOfNats ==
    ASSUME NEW T \in SUBSET Nat, T # {}
    PROVE  \E n \in T : \A k \in T : n <= k
<1>1. IsWellFoundedOn(Less, Nat)
  BY NatLessThanWellFounded DEF Less, OpToRel
<1>2. PICK n \in T : \A k \in T : <<k, n>> \notin Less
  BY <1>1, WFMin
<1>3. ASSUME NEW k \in T PROVE n <= k
  <2>1. ~(k < n)
    BY <1>2 DEF Less
  <2> QED BY <2>1
<1> QED BY <1>3

\* The r-th of a set of indices is one of them.
LEMMA NthIsMember ==
    ASSUME NEW L \in Nat, NEW K \in SUBSET (1..L), NEW r \in 1..Cardinality(K)
    PROVE  Nth(K, r) \in K
<1> DEFINE Upto(i) == {m \in K : m <= i}
           C(i)    == Cardinality(Upto(i))
<1>0. \A m \in K : m \in Nat /\ 1 <= m /\ m <= L
  OBVIOUS
<1>1. IsFiniteSet(K) /\ Cardinality(K) \in Nat
  <2>1. IsFiniteSet(1..L)
    BY FS_Interval
  <2>2. IsFiniteSet(K)
    BY <2>1, FS_Subset
  <2> QED BY <2>2, FS_CardinalityType
<1>2. \A i \in Nat : IsFiniteSet(Upto(i)) /\ C(i) \in Nat
  BY <1>1, FS_Subset, FS_CardinalityType
<1>3. C(0) = 0
  <2>1. \A m \in K : ~(m <= 0)
    BY <1>0
  <2>2. Upto(0) = {}
    BY <2>1
  <2> QED BY <2>2, FS_EmptySet
<1>4. C(L) = Cardinality(K)
  <2>1. Upto(L) = K
    BY <1>0
  <2> QED BY <2>1
<1>5. \A i \in Nat : /\ i + 1 \in K => C(i + 1) = C(i) + 1
                     /\ i + 1 \notin K => C(i + 1) = C(i)
  <2> TAKE i \in Nat
  <2>0. \A m \in K : m <= i + 1 <=> m <= i \/ m = i + 1
    BY <1>0
  <2>1. ASSUME i + 1 \in K PROVE C(i + 1) = C(i) + 1
    <3>1. Upto(i + 1) = Upto(i) \cup {i + 1}
      BY <2>0, <2>1
    <3>2. i + 1 \notin Upto(i)
      <4>1. ~(i + 1 <= i)
        OBVIOUS
      <4> QED BY <4>1
    <3> QED BY <3>1, <3>2, <1>2, FS_AddElement
  <2>2. ASSUME i + 1 \notin K PROVE C(i + 1) = C(i)
    <3>1. Upto(i + 1) = Upto(i)
      BY <2>0, <2>2
    <3> QED BY <3>1
  <2> QED BY <2>1, <2>2
<1> HIDE DEF C
<1>6. PICK i \in {k \in Nat : C(k) >= r} : \A k \in {j \in Nat : C(j) >= r} : i <= k
  <2>1. L \in {k \in Nat : C(k) >= r}
    BY <1>4, <1>1
  <2> QED BY <2>1, FirstOfNats
<1>7. i # 0
  BY <1>3, <1>6
<1>8. i - 1 \in Nat /\ C(i - 1) < r /\ C(i - 1) \in Nat /\ (i - 1) + 1 = i
  <2>1. i - 1 \in Nat /\ (i - 1) + 1 = i
    BY <1>6, <1>7
  <2>2. ~(C(i - 1) >= r)
    BY <1>6, <2>1
  <2>3. C(i - 1) \in Nat
    BY <2>1, <1>2 DEF C
  <2> QED BY <2>1, <2>2, <2>3, <1>1
<1>9. i \in K /\ C(i) = r
  <2>1. /\ i \in K => C(i) = C(i - 1) + 1
        /\ i \notin K => C(i) = C(i - 1)
    BY <1>5, <1>8
  <2>2. C(i) >= r
    BY <1>6
  <2> QED BY <2>1, <2>2, <1>8, <1>1
<1>10. \E n \in K : Cardinality({m \in K : m <= n}) = r
  BY <1>9 DEF C
<1> QED BY <1>10 DEF Nth

\* What of the server's frames a step leaves alone.
ServerVars == <<nextFrame, pendingFrame, kind, encoding, sendQueue, newer, sent, tcp>>

\* Frame indices are finitely many naturals.
LEMMA FrameFacts ==
    /\ FrameIndex \subseteq Nat /\ None \notin FrameIndex /\ IsFiniteSet(FrameIndex)
    /\ \A f \in FrameIndex : f < Frames
<1>1. Frames \in Nat
  BY BoundAssumption
<1> QED BY <1>1, FS_Interval DEF FrameIndex, None

\* The steps of the link and of the client leave the queues alone.
LEMMA RestKeeps ==
    ASSUME ServerInv, UNCHANGED ServerVars, UNCHANGED sending, accepting' = accepting
    PROVE  ServerInv'
BY DEF ServerInv, ServerType, Ages, Queued, KeyFrameReaches, PacerSeesNewer, ServerVars, Current,
       Finished, Contains

\* Sending takes packets away and, over TCP, may stop for good.
LEMMA SendKeeps ==
    ASSUME ServerInv, UNCHANGED ServerVars, sending # <<>>,
           accepting' = accepting \/ (tcp /\ accepting' = FALSE)
    PROVE  ServerInv'
<1>1. ServerType' /\ Ages' /\ Queued' /\ KeyFrameReaches'
  BY DEF ServerInv, ServerType, Ages, Queued, KeyFrameReaches, ServerVars, Current,
         Finished, Contains
<1>2. PacerSeesNewer'
  BY DEF ServerInv, PacerSeesNewer, ServerVars
<1>3. (~tcp => accepting)'
  BY DEF ServerInv, ServerVars
<1> QED BY <1>1, <1>2, <1>3 DEF ServerInv

\* The application submits a frame, in the place of one that waits.
LEMMA SubmitKeeps ==
    ASSUME ServerInv, SendFrame
    PROVE  ServerInv'
<1> USE FrameFacts
<1>1. nextFrame \in FrameIndex /\ nextFrame' = nextFrame + 1 /\ pendingFrame' = nextFrame
      /\ nextFrame \in Nat
  BY BoundAssumption DEF SendFrame, PushLatest, ServerInv, ServerType, FrameIndex
<1>2. UNCHANGED <<kind, encoding, sendQueue, newer, sending, sent, tcp, accepting>>
  BY DEF SendFrame, encode, send, link
<1>3. ServerType'
  BY <1>1, <1>2, BoundAssumption DEF SendFrame, ServerInv, ServerType
<1>4. Ages'
  <2>1. \A f \in FrameIndex : kind[f] # "none" => f < nextFrame' /\ f < pendingFrame'
    BY <1>1 DEF ServerInv, Ages
  <2>2. encoding # <<>> => Current \in FrameIndex /\ Current < nextFrame
    BY DEF ServerInv, ServerType, Ages, Current
  <2>3. Current' = Current /\ (encoding' # <<>> <=> encoding # <<>>) /\ kind' = kind
    BY <1>2 DEF Current
  <2>4. \A f \in FrameIndex : kind[f] # "none" /\ encoding # <<>> => f < Current
    BY DEF ServerInv, Ages
  <2>5. pendingFrame' < nextFrame' /\ \A f \in FrameIndex : f < nextFrame => f < pendingFrame'
    BY <1>1
  <2>6. encoding # <<>> => Current < nextFrame' /\ Current < pendingFrame'
    <3> HAVE encoding # <<>>
    <3>1. Current \in Nat /\ Current < nextFrame
      BY <2>2
    <3> HIDE DEF Current
    <3> QED BY <3>1, <1>1
  <2> QED BY <2>1, <2>3, <2>4, <2>5, <2>6 DEF Ages
<1>5. (Queued /\ KeyFrameReaches /\ PacerSeesNewer /\ (~tcp => accepting))'
  BY <1>2 DEF ServerInv, Queued, KeyFrameReaches, PacerSeesNewer, Finished, Contains
<1> QED BY <1>3, <1>4, <1>5 DEF ServerInv

\* The encoder takes the frame that waits.
LEMMA EncodeKeeps ==
    ASSUME ServerInv, EncodeFrame
    PROVE  ServerInv'
<1> USE FrameFacts
<1>1. PICK k \in BOOLEAN : encoding' = <<[f |-> pendingFrame, key |-> k]>>
  BY DEF EncodeFrame
<1>2. /\ encoding = <<>> /\ pendingFrame # None /\ pendingFrame' = None
      /\ UNCHANGED <<nextFrame, kind, sendQueue, newer, sending, sent, tcp, accepting>>
  BY DEF EncodeFrame, WaitPop, send, link
<1>3. encoding' # <<>> /\ Current' = pendingFrame /\ pendingFrame \in FrameIndex
  BY <1>1, <1>2 DEF Current, ServerInv, ServerType
<1>4. ServerType'
  BY <1>1, <1>2, <1>3 DEF ServerInv, ServerType
<1>5. Ages'
  BY <1>2, <1>3 DEF ServerInv, Ages
<1>6. (Queued /\ KeyFrameReaches /\ PacerSeesNewer /\ (~tcp => accepting))'
  BY <1>2 DEF ServerInv, Queued, KeyFrameReaches, PacerSeesNewer, Finished, Contains
<1> QED BY <1>4, <1>5, <1>6 DEF ServerInv

\* What is left of a sequence without one element.
LEMMA RemovedAt ==
    ASSUME NEW S, NEW s \in Seq(S), NEW i \in 1..Len(s)
    PROVE  /\ RemoveAt(s, i) \in Seq(S) /\ Len(RemoveAt(s, i)) = Len(s) - 1
           /\ \A k \in 1..Len(s) - 1 : 
                  /\ k < i => RemoveAt(s, i)[k] = s[k]
                  /\ k >= i => RemoveAt(s, i)[k] = s[k + 1]
<1> DEFINE a == SubSeq(s, 1, i - 1)
           b == SubSeq(s, i + 1, Len(s))
<1>1. a \in Seq(S) /\ Len(a) = i - 1 /\ \A k \in 1..i - 1 : a[k] = s[k]
  OBVIOUS
<1>2. b \in Seq(S) /\ Len(b) = Len(s) - i /\ \A k \in 1..Len(s) - i : b[k] = s[k + i]
  OBVIOUS
<1>3. RemoveAt(s, i) = a \o b
  BY DEF RemoveAt
<1> HIDE DEF a, b
<1>4. (a \o b) \in Seq(S) /\ Len(a \o b) = Len(s) - 1
  <2>1. (a \o b) \in Seq(S) /\ Len(a \o b) = Len(a) + Len(b)
    BY <1>1, <1>2, ConcatProperties
  <2> QED BY <2>1, <1>1, <1>2
<1>5. \A k \in 1..Len(s) - 1 :
          (k < i => (a \o b)[k] = s[k]) /\ (k >= i => (a \o b)[k] = s[k + 1])
  <2> TAKE k \in 1..Len(s) - 1
  <2>1. CASE k < i
    <3>1. k \in 1..Len(a) /\ (a \o b)[k] = a[k]
      BY <1>1, <1>2, <2>1
    <3> QED BY <3>1, <1>1, <2>1
  <2>2. CASE ~(k < i)
    <3>1. k - Len(a) \in 1..Len(b) /\ (a \o b)[k] = b[k - Len(a)]
      BY <1>1, <1>2, <2>2
    <3>2. b[k - Len(a)] = s[k + 1]
      BY <3>1, <1>1, <1>2
    <3> QED BY <3>1, <3>2, <2>2
  <2> QED BY <2>1, <2>2
<1> QED BY <1>3, <1>4, <1>5

\* A full queue gives up a frame that is no key frame, or its oldest key frame.
LEMMA RoomMade ==
    ASSUME NEW q \in Seq(FrameIndex), Len(q) <= QueueCap,
           \A i, j \in 1..Len(q) : i < j => q[i] < q[j],
           NEW r, r = MakeRoom(q)
    PROVE  /\ r \in Seq(FrameIndex) /\ Len(r) < QueueCap
           /\ \A i \in 1..Len(r) : \E j \in 1..Len(q) : r[i] = q[j]
           /\ \A i, j \in 1..Len(r) : i < j => r[i] < r[j]
           /\ \A j \in 1..Len(q) : kind[q[j]] = "key" =>
                  \/ Contains(r, q[j])
                  \/ /\ j = 1 /\ Len(q) = QueueCap
                     /\ \A i \in 1..Len(q) : kind[q[i]] = "key"
<1> DEFINE D == {i \in DOMAIN q : kind[q[i]] # "key"}
<1>0. /\ QueueCap \in Nat /\ QueueCap > 0 /\ DOMAIN q = 1..Len(q) /\ Len(q) \in Nat
      /\ FrameIndex \subseteq Nat
  BY QueueAssumption, FrameFacts
<1>1. CASE Len(q) < QueueCap
  <2>1. r = q
    BY <1>1 DEF MakeRoom
  <2> QED BY <2>1, <1>0, <1>1 DEF Contains
<1>2. CASE ~(Len(q) < QueueCap) /\ D # {}
  <2>1. PICK n \in D : \A j \in D : n <= j
    <3>1. D \subseteq Nat
      BY <1>0
    <3> QED BY <3>1, <1>2, FirstOfNats
  <2> DEFINE c == CHOOSE i \in D : \A j \in D : i <= j
  <2>2. c \in D
    BY <2>1
  <2>3. r = RemoveAt(q, c)
    BY <1>2 DEF MakeRoom
  <2> HIDE DEF c
  <2>4. c \in 1..Len(q) /\ kind[q[c]] # "key"
    BY <2>2, <1>0
  <2>5. /\ r \in Seq(FrameIndex) /\ Len(r) = Len(q) - 1
        /\ \A k \in 1..Len(q) - 1 : (k < c => r[k] = q[k]) /\ (k >= c => r[k] = q[k + 1])
    <3>1. q \in Seq(FrameIndex) /\ c \in 1..Len(q)
      BY <2>4, <1>0
    <3> HIDE DEF c
    <3> QED BY <3>1, <2>3, RemovedAt
  <2>6. \A i \in 1..Len(r) : \E j \in 1..Len(q) : r[i] = q[j]
    <3> TAKE i \in 1..Len(r)
    <3>1. i \in 1..Len(q) - 1 /\ i \in 1..Len(q) /\ i + 1 \in 1..Len(q)
      BY <2>5, <1>0
    <3>2. r[i] = q[i] \/ r[i] = q[i + 1]
      BY <3>1, <2>4, <2>5, <1>0
    <3> QED BY <3>1, <3>2
  <2>7. \A i, j \in 1..Len(r) : i < j => r[i] < r[j]
    <3> TAKE i, j \in 1..Len(r)
    <3> HAVE i < j
    <3> DEFINE ii == IF i < c THEN i ELSE i + 1
               jj == IF j < c THEN j ELSE j + 1
    <3>1. ii \in 1..Len(q) /\ jj \in 1..Len(q) /\ ii < jj
      BY <2>5, <2>4, <1>0
    <3>2. r[i] = q[ii] /\ r[j] = q[jj]
      BY <2>4, <2>5, <1>0
    <3> QED BY <3>1, <3>2, <1>0
  <2>8. \A j \in 1..Len(q) : kind[q[j]] = "key" => Contains(r, q[j])
    <3> TAKE j \in 1..Len(q)
    <3> HAVE kind[q[j]] = "key"
    <3>1. j # c
      BY <2>4
    <3>2. CASE j < c
      <4>1. j \in 1..Len(r) /\ r[j] = q[j]
        BY <3>2, <2>5, <2>4, <1>0
      <4> QED BY <4>1 DEF Contains
    <3>3. CASE j > c
      <4>1. j - 1 \in 1..Len(r) /\ ~(j - 1 < c) /\ (j - 1) + 1 = j /\ Len(r) = Len(q) - 1
        BY <3>3, <2>5, <2>4, <1>0
      <4>2. r[j - 1] = q[(j - 1) + 1]
        BY <4>1, <2>4, <2>5, <1>0
      <4> QED BY <4>1, <4>2, <1>0 DEF Contains
    <3> QED BY <3>1, <3>2, <3>3, <2>4, <1>0
  <2>9. Len(r) < QueueCap
    BY <2>5, <1>0
  <2> QED BY <2>5, <2>6, <2>7, <2>8, <2>9
<1>3. CASE ~(Len(q) < QueueCap) /\ D = {}
  <2>0. Len(q) = QueueCap /\ q # <<>>
    <3>1. Len(q) = QueueCap
      <4>1. ~(Len(q) < QueueCap) /\ Len(q) <= QueueCap
        BY <1>3
      <4>2. \A a, b \in Nat : a <= b /\ ~(a < b) => a = b
        OBVIOUS
      <4> QED BY <4>1, <4>2, <1>0
    <3>2. q # <<>>
      BY <3>1, <1>0
    <3> QED BY <3>1, <3>2
  <2>1. r = Tail(q)
    BY <1>3 DEF MakeRoom
  <2>2. /\ r \in Seq(FrameIndex) /\ Len(r) = Len(q) - 1 
        /\ \A k \in 1..Len(r) : r[k] = q[k + 1]
    BY <2>0, <2>1, <1>0
  <2>3. \A i \in 1..Len(q) : kind[q[i]] = "key"
    BY <1>3, <1>0
  <2>4. \A i \in 1..Len(r) : \E j \in 1..Len(q) : r[i] = q[j]
    BY <2>2, <1>0
  <2>5. \A i, j \in 1..Len(r) : i < j => r[i] < r[j]
    BY <2>2, <1>0
  <2>6. \A j \in 1..Len(q) : j # 1 => Contains(r, q[j])
    <3> TAKE j \in 1..Len(q)
    <3> HAVE j # 1
    <3>1. j - 1 \in 1..Len(r) /\ (j - 1) + 1 = j
      BY <2>2, <1>0
    <3>2. r[j - 1] = q[j]
      BY <3>1, <2>2
    <3> QED BY <3>1, <3>2 DEF Contains
  <2> QED BY <2>0, <2>2, <2>3, <2>4, <2>5, <2>6, <1>0
<1> QED BY <1>1, <1>2, <1>3

\* Behind the first frame of an ordered queue there are all its others.
LEMMA BehindFirst ==
    ASSUME NEW q \in Seq(FrameIndex), \A i, j \in 1..Len(q) : i < j => q[i] < q[j],
           NEW K, IsFiniteSet(K), \A i \in 1..Len(q) : i # 1 => q[i] \in K
    PROVE  Cardinality(K) >= Len(q) - 1
<1> DEFINE n == Len(q)
           f == [i \in 2..n |-> q[i]]
<1>1. n \in Nat /\ \A i \in 2..n : i \in 1..n /\ i # 1
  OBVIOUS
<1>2. Cardinality(K) \in Nat
  BY FS_CardinalityType
<1>3. IsFiniteSet(2..n) /\ Cardinality(2..n) = IF 2 > n THEN 0 ELSE n - 2 + 1
  BY <1>1, FS_Interval
<1>4. f \in [2..n -> K]
  BY <1>1
<1>5. ~(Cardinality(K) < Cardinality(2..n))
  <2> SUFFICES ASSUME Cardinality(K) < Cardinality(2..n) PROVE FALSE
    OBVIOUS
  <2>1. PICK x, y \in 2..n : x # y /\ f[x] = f[y]
    <3> HIDE DEF f
    <3> QED BY <1>3, <1>4, FS_PigeonHole
  <2>2. q[x] = q[y]
    BY <2>1
  <2>5. x \in 1..n /\ y \in 1..n /\ x \in Nat /\ y \in Nat
    BY <1>1
  <2>6. q[x] \in Nat /\ q[y] \in Nat
    <3>1. q[x] \in FrameIndex /\ q[y] \in FrameIndex
      BY <2>5
    <3> QED BY <3>1, FrameFacts
  <2>3. CASE x < y
    BY <2>2, <2>3, <2>5, <2>6
  <2>4. CASE y < x
    BY <2>2, <2>4, <2>5, <2>6
  <2> QED BY <2>1, <2>3, <2>4, <2>5
<1> QED BY <1>1, <1>2, <1>3, <1>5

Newer(f) == {g \in FrameIndex : g > f /\ kind[g] = "key"}

\* A key frame more behind an older frame.
LEMMA NewerCount ==
    ASSUME NEW f \in FrameIndex
    PROVE  IsFiniteSet(Newer(f)) /\ Cardinality(Newer(f)) \in Nat
BY FrameFacts, FS_Subset, FS_CardinalityType DEF Newer

\* A finished frame is queued. This is where key frames could be displaced: a key frame leaves
\* a full queue of key frames only, which all but the first are later ones.
LEMMA EncodedKeeps ==
    ASSUME ServerInv, FrameEncoded
    PROVE  ServerInv'
<1> USE FrameFacts
<1>1. PICK f \in FrameIndex, k \in BOOLEAN : encoding = <<[f |-> f, key |-> k]>>
  BY DEF FrameEncoded, ServerInv, ServerType
<1>2. /\ Head(encoding).f = f /\ Head(encoding).key = k /\ Current = f /\ encoding' = <<>>
      /\ UNCHANGED <<nextFrame, pendingFrame, sending, sent, tcp, accepting>>
  BY <1>1 DEF FrameEncoded, Current, app, link
<1>3. /\ kind[f] = "none" /\ f < nextFrame /\ (pendingFrame # None => f < pendingFrame)
      /\ \A g \in FrameIndex : kind[g] # "none" => g < f
  <2>1. \A g \in FrameIndex : kind[g] # "none" => g < f
    BY <1>1, <1>2 DEF ServerInv, Ages
  <2>2. kind[f] = "none"
    BY <2>1
  <2> QED BY <2>1, <2>2, <1>1, <1>2 DEF ServerInv, Ages
<1>4. CASE /\ kind' = [kind EXCEPT ![f] = IF k THEN "key" ELSE "delta"]
           /\ QueueEncodedVideoFrame(f)
  <2> DEFINE q == sendQueue
             r == MakeRoom(q)
  <2>1. /\ q \in Seq(FrameIndex) /\ Len(q) <= QueueCap
        /\ \A i, j \in 1..Len(q) : i < j => q[i] < q[j]
        /\ \A i \in 1..Len(q) : Finished(q[i]) /\ q[i] \notin sent /\ q[i] \in FrameIndex
    BY DEF ServerInv, ServerType, Queued
  <2>2. /\ r \in Seq(FrameIndex) /\ Len(r) < QueueCap
        /\ \A i \in 1..Len(r) : \E j \in 1..Len(q) : r[i] = q[j]
        /\ \A i, j \in 1..Len(r) : i < j => r[i] < r[j]
        /\ \A j \in 1..Len(q) : kind[q[j]] = "key" =>
               \/ Contains(r, q[j])
               \/ /\ j = 1 /\ Len(q) = QueueCap
                  /\ \A i \in 1..Len(q) : kind[q[i]] = "key"
    BY <2>1, RoomMade
  <2> HIDE DEF r
  <2>3. sendQueue' = Append(r, f) /\ newer' = TRUE
    BY <1>4 DEF QueueEncodedVideoFrame, r
  <2>4. /\ kind'[f] = (IF k THEN "key" ELSE "delta") /\ kind' \in [FrameIndex -> Kinds]
        /\ \A g \in FrameIndex : g # f => kind'[g] = kind[g]
        /\ \A g \in FrameIndex : kind[g] # "none" => g # f /\ kind'[g] = kind[g]
    BY <1>4, <1>3 DEF ServerInv, ServerType, Kinds
  <2>5. /\ sendQueue' \in Seq(FrameIndex) /\ Len(sendQueue') = Len(r) + 1
        /\ sendQueue'[Len(r) + 1] = f /\ \A i \in 1..Len(r) : sendQueue'[i] = r[i]
    BY <2>2, <2>3, AppendProperties
  <2>6. ServerType'
    BY <1>2, <2>3, <2>4, <2>5 DEF ServerInv, ServerType
  <2>7. Ages'
    <3>1. \A g \in FrameIndex : kind'[g] # "none" =>
              g < nextFrame /\ (pendingFrame # None => g < pendingFrame)
      BY <2>4, <1>3 DEF ServerInv, Ages
    <3> QED BY <3>1, <1>2 DEF ServerInv, Ages
  <2>8. \A i \in 1..Len(r) : r[i] \in FrameIndex /\ r[i] \notin sent /\ Finished(r[i]) /\ r[i] < f
    <3> TAKE i \in 1..Len(r)
    <3>1. PICK j \in 1..Len(q) : r[i] = q[j]
      BY <2>2
    <3> QED BY <3>1, <2>1, <1>3 DEF Finished
  <2>9. f \notin sent
    BY <1>3 DEF ServerInv, ServerType, Queued, Finished
  <2>10. Queued'
    <3>1. Len(sendQueue') <= QueueCap
      BY <2>2, <2>5, QueueAssumption
    <3>2. \A i \in 1..Len(sendQueue') : kind'[sendQueue'[i]] \in {"key",
         "delta"} /\ sendQueue'[i] \notin sent'
      <4> TAKE i \in 1..Len(sendQueue')
      <4>1. CASE i = Len(r) + 1
        <5>1. kind'[f] \in {"key", "delta"}
          BY <2>4
        <5> QED BY <4>1, <5>1, <2>5, <2>9, <1>2 DEF Finished
      <4>2. CASE i \in 1..Len(r)
        <5>1. sendQueue'[i] = r[i] /\ r[i] \in FrameIndex /\ kind[r[i]] \in {"key", "delta"}
              /\ r[i] \notin sent
          BY <4>2, <2>5, <2>8 DEF Finished
        <5>2. kind[r[i]] # "none"
          BY <5>1
        <5>3. kind'[r[i]] = kind[r[i]]
          BY <5>1, <5>2, <2>4
        <5> QED BY <5>1, <5>3, <1>2 DEF Finished
      <4> QED BY <4>1, <4>2, <2>2, <2>5
    <3>3. \A i, j \in 1..Len(sendQueue') : i < j => sendQueue'[i] < sendQueue'[j]
      <4> TAKE i, j \in 1..Len(sendQueue')
      <4> HAVE i < j
      <4>1. i \in 1..Len(r)
        BY <2>2, <2>5
      <4>2. CASE j = Len(r) + 1
        BY <4>1, <4>2, <2>5, <2>8
      <4>3. CASE j \in 1..Len(r)
        BY <4>1, <4>3, <2>2, <2>5
      <4> QED BY <4>2, <4>3, <2>2, <2>5
    <3>4. \A g \in sent : kind'[g] \in {"key", "delta"}
      <4> TAKE g \in sent
      <4>1. g \in FrameIndex /\ kind[g] \in {"key", "delta"}
        BY DEF ServerInv, ServerType, Queued, Finished
      <4>2. kind[g] # "none"
        BY <4>1
      <4>3. kind'[g] = kind[g]
        BY <4>1, <4>2, <2>4
      <4> QED BY <4>1, <4>3
    <3> QED BY <3>1, <3>2, <3>3, <3>4, <1>2 DEF Queued, Finished
  <2>11. KeyFrameReaches'
    <3> SUFFICES ASSUME NEW g \in FrameIndex, kind'[g] = "key", g \notin sent,
                        ~Contains(sendQueue', g)
                 PROVE  Cardinality(Newer(g)') >= QueueCap - 1
      BY <1>2 DEF KeyFrameReaches, Newer
    <3>1. g # f
      BY <2>5, <2>2 DEF Contains
    <3>2. kind[g] = "key"
      BY <3>1, <2>4
    <3>3. IsFiniteSet(Newer(g)') /\ Cardinality(Newer(g)') \in Nat /\ Newer(g) \subseteq Newer(g)'
      BY <2>4, FS_Subset, FS_CardinalityType DEF Newer
    <3>4. CASE Contains(q, g)
      <4>1. PICK j \in 1..Len(q) : q[j] = g
        BY <3>4 DEF Contains
      <4>2. ~Contains(r, g)
        BY <2>5, <2>2 DEF Contains
      <4>3. j = 1 /\ Len(q) = QueueCap /\ \A i \in 1..Len(q) : kind[q[i]] = "key"
        BY <4>1, <4>2, <3>2, <2>2
      <4>4. \A i \in 1..Len(q) : i # 1 => q[i] \in Newer(g)'
        <5> TAKE i \in 1..Len(q)
        <5> HAVE i # 1
        <5>1. q[i] \in FrameIndex /\ q[i] > g
          BY <4>1, <4>3, <2>1
        <5>2. q[i] \in Newer(g)
          BY <5>1, <4>3 DEF Newer
        <5> QED BY <5>2, <3>3
      <4> HIDE DEF q
      <4> QED BY <4>3, <4>4, <3>3, <2>1, BehindFirst
    <3>5. CASE ~Contains(q, g)
      <4>1. Cardinality(Newer(g)) >= QueueCap - 1
        BY <3>5, <3>2 DEF ServerInv, KeyFrameReaches, Newer
      <4>2. Cardinality(Newer(g)) <= Cardinality(Newer(g)') /\ Cardinality(Newer(g)) \in Nat
        BY <3>3, FS_Subset, NewerCount
      <4> QED BY <4>1, <4>2, <3>3, QueueAssumption
    <3> QED BY <3>4, <3>5
  <2>12. (PacerSeesNewer /\ (~tcp => accepting))'
    BY <2>3, <1>2 DEF ServerInv, PacerSeesNewer
  <2> QED BY <2>6, <2>7, <2>10, <2>11, <2>12 DEF ServerInv
<1>5. CASE kind' = [kind EXCEPT ![f] = "dropped"] /\ UNCHANGED <<sendQueue, newer>>
  <2>1. /\ kind'[f] = "dropped" /\ kind' \in [FrameIndex -> Kinds]
        /\ \A g \in FrameIndex : g # f => kind'[g] = kind[g]
        /\ \A g \in FrameIndex : kind[g] # "none" => g # f /\ kind'[g] = kind[g]
    BY <1>5, <1>3 DEF ServerInv, ServerType, Kinds
  <2>2. ServerType'
    BY <1>2, <1>5, <2>1 DEF ServerInv, ServerType
  <2>3. Ages'
    <3>1. \A g \in FrameIndex : kind'[g] # "none" =>
              g < nextFrame /\ (pendingFrame # None => g < pendingFrame)
      BY <2>1, <1>3 DEF ServerInv, Ages
    <3> QED BY <3>1, <1>2 DEF ServerInv, Ages
  <2>4. Queued'
    <3>1. ASSUME NEW g \in FrameIndex, Finished(g) PROVE Finished(g)'
      <4>1. kind[g] # "none"
        BY <3>1 DEF Finished
      <4>2. kind'[g] = kind[g]
        BY <4>1, <2>1
      <4> QED BY <3>1, <4>2 DEF Finished
    <3>2. sent \in SUBSET FrameIndex /\ sendQueue \in Seq(FrameIndex)
      BY DEF ServerInv, ServerType
    <3>3. \A i \in 1..Len(sendQueue) :
              kind'[sendQueue[i]] \in {"key", "delta"} /\ sendQueue[i] \notin sent
      <4> TAKE i \in 1..Len(sendQueue)
      <4>1. sendQueue[i] \in FrameIndex /\ Finished(sendQueue[i]) /\ sendQueue[i] \notin sent
        BY <3>2 DEF ServerInv, Queued
      <4> QED BY <3>1, <4>1 DEF Finished
    <3>4. \A g \in sent : Finished(g)'
      BY <3>1, <3>2 DEF ServerInv, Queued
    <3> QED BY <3>3, <3>4, <1>2, <1>5 DEF ServerInv, Queued, Finished
  <2>5. KeyFrameReaches'
    <3>1. \A g \in FrameIndex : kind'[g] = "key" <=> kind[g] = "key"
      BY <2>1, <1>3
    <3>2. \A g \in FrameIndex : Newer(g)' = Newer(g)
      BY <3>1 DEF Newer
    <3> QED BY <3>1, <3>2, <1>2, <1>5 DEF ServerInv, KeyFrameReaches, Newer
  <2>6. (PacerSeesNewer /\ (~tcp => accepting))'
    BY <1>2, <1>5 DEF ServerInv, PacerSeesNewer
  <2> QED BY <2>2, <2>3, <2>4, <2>5, <2>6 DEF ServerInv
<1> QED BY <1>2, <1>4, <1>5 DEF FrameEncoded

\* The sender takes the first frame, or drops it as stale.
LEMMA TakeKeeps ==
    ASSUME ServerInv, TakeFrame
    PROVE  ServerInv'
<1> USE FrameFacts
<1> DEFINE q == sendQueue
           f == Head(q)
           r == Tail(q)
<1>1. q \in Seq(FrameIndex) /\ q # <<>> /\ Len(q) \in Nat /\ Len(q) > 0
  BY DEF TakeFrame, ServerInv, ServerType
<1>2. /\ f = q[1] /\ f \in FrameIndex /\ r \in Seq(FrameIndex) /\ Len(r) = Len(q) - 1
      /\ \A i \in 1..Len(r) : r[i] = q[i + 1] /\ i + 1 \in 1..Len(q)
  BY <1>1
<1>3. /\ sendQueue' = r /\ newer' = (r # <<>>)
      /\ UNCHANGED <<nextFrame, pendingFrame, kind, encoding, tcp, accepting>>
  BY DEF TakeFrame, app, encode, link
<1>4. \/ sent' = sent \cup {f}
      \/ sent' = sent /\ kind[f] # "key" /\ sending' = sending
  BY DEF TakeFrame, IsStale
<1>5. /\ \A i \in 1..Len(q) : Finished(q[i]) /\ q[i] \notin sent
      /\ \A i, j \in 1..Len(q) : i < j => q[i] < q[j]
      /\ Len(q) <= QueueCap
  BY DEF ServerInv, Queued
<1>6. 1 \in 1..Len(q) /\ Finished(f)
  BY <1>1, <1>2, <1>5
<1> HIDE DEF f, r
<1>7. ServerType'
  BY <1>2, <1>3, <1>4 DEF ServerInv, ServerType
<1>8. Ages'
  BY <1>3 DEF ServerInv, Ages, Current
<1>9. Queued'
  <2>1. Len(r) <= QueueCap
    BY <1>1, <1>2, <1>5, QueueAssumption
  <2>2. \A i \in 1..Len(r) : Finished(r[i]) /\ r[i] \notin sent'
    <3> TAKE i \in 1..Len(r)
    <3>1. i + 1 \in 1..Len(q) /\ r[i] = q[i + 1] /\ 1 < i + 1 /\ q[i + 1] \in FrameIndex
      BY <1>1, <1>2
    <3>2. q[1] < q[i + 1] /\ Finished(r[i]) /\ r[i] \notin sent
      BY <3>1, <1>5, <1>6
    <3>3. r[i] # f
      BY <3>1, <3>2, <1>2
    <3> QED BY <3>2, <3>3, <1>4
  <2>3. \A i, j \in 1..Len(r) : i < j => r[i] < r[j]
    BY <1>2, <1>5
  <2>4. \A g \in sent' : Finished(g)
    BY <1>4, <1>6 DEF ServerInv, Queued
  <2>5. \A g : Finished(g)' = Finished(g)
    BY <1>3 DEF Finished
  <2> QED BY <2>1, <2>2, <2>3, <2>4, <2>5, <1>3 DEF Queued
<1>10. KeyFrameReaches'
  <2> SUFFICES ASSUME NEW g \in FrameIndex, kind[g] = "key", g \notin sent', ~Contains(r, g)
               PROVE  Cardinality(Newer(g)) >= QueueCap - 1
    BY <1>3 DEF KeyFrameReaches, Newer
  <2>1. g # f
    BY <1>4
  <2>2. ~Contains(q, g)
    <3> SUFFICES ASSUME NEW j \in 1..Len(q), q[j] = g PROVE FALSE
      BY DEF Contains
    <3>1. j # 1
      BY <2>1, <1>2
    <3>2. j - 1 \in 1..Len(r) /\ (j - 1) + 1 = j
      BY <3>1, <1>1, <1>2
    <3>3. r[j - 1] = q[(j - 1) + 1]
      BY <3>2, <1>2
    <3> QED BY <3>2, <3>3 DEF Contains
  <2>3. g \notin sent
    BY <1>4
  <2> QED BY <2>2, <2>3 DEF ServerInv, KeyFrameReaches, Newer
<1>11. (PacerSeesNewer /\ (~tcp => accepting))'
  BY <1>3 DEF ServerInv, PacerSeesNewer
<1> QED BY <1>7, <1>8, <1>9, <1>10, <1>11 DEF ServerInv

LEMMA ServerInitially ==
    ASSUME TransportInit
    PROVE  ServerInv
<1> USE FrameFacts DEF TransportInit
<1>1. ServerType
  <2>1. kind \in [FrameIndex -> Kinds]
    BY DEF Kinds
  <2>2. tcp \in BOOLEAN
    BY TransportAssumption
  <2>3. sendQueue \in Seq(FrameIndex) /\ sent \in SUBSET FrameIndex
    OBVIOUS
  <2>4. nextFrame \in Nat /\ nextFrame <= Frames
    BY BoundAssumption
  <2> QED BY <2>1, <2>2, <2>3, <2>4 DEF ServerType
<1>2. Ages /\ Queued /\ KeyFrameReaches /\ PacerSeesNewer /\ (~tcp => accepting)
  BY QueueAssumption DEF Ages, Queued, KeyFrameReaches, PacerSeesNewer
<1> QED BY <1>1, <1>2 DEF ServerInv

\* Every step keeps the invariant of the queues.
LEMMA ServerStep ==
    ASSUME ServerInv, [TransportNext]_transportVars
    PROVE  ServerInv'
<1> USE DEF ServerVars, app, encode, send, link, nack, receive, pose, decoder, display
<1>1. CASE SendFrame
  BY <1>1, SubmitKeeps
<1>2. CASE EncodeFrame
  BY <1>2, EncodeKeeps
<1>3. CASE FrameEncoded
  BY <1>3, EncodedKeeps
<1>4. CASE TakeFrame
  BY <1>4, TakeKeeps
<1>5. CASE SendDatagram \/ SendTcpRecord \/ SendNothing \/ TcpSendFails
  BY <1>5, SendKeeps DEF SendDatagram, SendTcpRecord, SendNothing, TcpSendFails,
                        MarkTcpVideoSendFailed
<1>6. CASE Lose \/ HandleKeyframeRequest \/ HandleNackRequest \/ Retransmit
  BY <1>6, RestKeeps DEF Lose, HandleKeyframeRequest, HandleNackRequest, Retransmit
<1>7. CASE ReceiveThread \/ ReceiveTcpThread \/ RenderFrame
  BY <1>7, RestKeeps DEF ReceiveThread, ReceiveTcpThread, RenderFrame
<1>8. CASE RunFrameEnd \/ ThrottleEnds
  BY <1>8, RestKeeps DEF RunFrameEnd, RequestKeyframe, ThrottleEnds
<1>9. CASE UNCHANGED transportVars
  BY <1>9, RestKeeps DEF transportVars
<1> QED BY <1>1, <1>2, <1>3, <1>4, <1>5, <1>6, <1>7, <1>8, <1>9
        DEF TransportNext, SendThread, ControlThread, ClientReceive

\* A key frame the encoder made is queued or taken for sending unless QueueCap - 1 later key
\* frames displaced it, for QueueEncodedVideoFrame removes the oldest P frame first; and the
\* thread that sends a frame knows of every frame behind it (videoSendNewerFrameQueued_).
THEOREM KeyFramesReach == TransportSpec => [](KeyFrameReaches /\ PacerSeesNewer)
<1>1. TransportSpec => []ServerInv
  BY ServerInitially, ServerStep, PTL DEF TransportSpec
<1>2. ServerInv => KeyFrameReaches /\ PacerSeesNewer
  BY DEF ServerInv
<1> QED BY <1>1, <1>2, PTL

-----------------------------------------------------------------------------
(* NALs, packets and FEC groups.                                           *)

Packet == [kind : {"pose", "data", "fec", "nal", "torn"}, f : FrameIndex, n : Nat, total : Nat,
     i : Nat]
Entry == [f : FrameIndex \cup {None}, total : Nat, n : Nat, have : SUBSET Nat, complete : BOOLEAN]
KeyRequests == [type : {"RequestKeyframe"}]
NackRequests ==
    {r \in [type : {"NackRequest"}, f : FrameIndex, total : Nat, missing : SUBSET Nat] :
        r.missing \subseteq 1..r.total}

\* A NAL in reassembly: its slots and, by group, its parities.
Partials ==
    {p \in [f : FrameIndex \cup {None}, total : Nat, slot : Seq(Int), fec : Seq(Int)] :
        /\ Len(p.slot) = p.total /\ Len(p.fec) = GroupCount(p.total)
        /\ p.total > 0 => p.f \in FrameIndex}

LinkType ==
    /\ net \in Seq(Packet) /\ sending \in Seq(Packet) /\ resend \in Seq(Packet) /\ losses \in Nat
    /\ cache \in [1..CacheSize -> Entry] /\ control \in Seq(KeyRequests \cup NackRequests)
ClientType ==
    /\ pendingNal \in Partials
    /\ delivered \subseteq [f : FrameIndex, got : Seq(Int)]
    /\ decoding \in Seq(FrameIndex)
TransportInv == ServerInv /\ LinkType /\ ClientType

ClientVars == <<net, sending, resend, losses, cache, control, pendingNal, delivered, decoding>>

\* A function on 1..n is a sequence.
LEMMA FunctionIsSeq ==
    ASSUME NEW T, NEW n \in Nat, NEW s \in [1..n -> T]
    PROVE  s \in Seq(T) /\ Len(s) = n
<1>1. s \in Seq(T)
  BY SeqDef
<1>2. DOMAIN s = 1..n /\ DOMAIN s = 1..Len(s) /\ Len(s) \in Nat
  BY <1>1, LenProperties
<1>3. 1..n = 1..Len(s)
  BY <1>2
<1>4. n <= Len(s)
  <2>1. n # 0 => n \in 1..Len(s)
    BY <1>3
  <2> QED BY <2>1, <1>2
<1>5. Len(s) <= n
  <2>1. Len(s) # 0 => Len(s) \in 1..n
    BY <1>3, <1>2
  <2> QED BY <2>1, <1>2
<1> QED BY <1>1, <1>2, <1>4, <1>5

\* Division rounds down.
LEMMA Quotient ==
    ASSUME NEW a \in Nat, NEW b \in Nat \ {0}
    PROVE  a \div b \in Nat /\ (a \div b) * b <= a /\ a < ((a \div b) + 1) * b
OBVIOUS

LEMMA Order ==
    ASSUME NEW a \in Int, NEW b \in Int, NEW c \in Nat
    PROVE  a <= b => a * c <= b * c
OBVIOUS

LEMMA Below ==
    ASSUME NEW a \in Int, NEW b \in Int, NEW c \in Nat \ {0}
    PROVE  a * c < (b + 1) * c => a <= b
OBVIOUS

\* The groups cover a NAL: the number of groups, and the last one.
LEMMA GroupFacts ==
    ASSUME NEW t \in Nat
    PROVE  /\ GroupCount(t) \in Nat
           /\ t <= GroupCount(t) * FecGroupSize
           /\ t > 0 => GroupCount(t) > 0 /\ (GroupCount(t) - 1) * FecGroupSize < t
<1> DEFINE G == FecGroupSize
           c == (t + G - 1) \div G
<1>1. G \in Nat /\ G > 0 /\ t + G - 1 \in Nat
  BY GroupAssumption
<1>2. c \in Nat /\ c * G <= t + G - 1 /\ t + G - 1 < (c + 1) * G
  <2> HIDE DEF G
  <2> QED BY <1>1, Quotient
<1>3. c = GroupCount(t)
  BY DEF GroupCount
<1> HIDE DEF G, c
<1>4. (c + 1) * G = c * G + G /\ (c - 1) * G = c * G - G /\ c * G \in Int
  BY <1>1, <1>2
<1>5. t <= c * G /\ (c - 1) * G < t
  BY <1>1, <1>2, <1>4
<1>6. t > 0 => c > 0
  <2> SUFFICES ASSUME t > 0, c = 0 PROVE FALSE
    BY <1>2
  <2>1. c * G = 0
    BY <1>1
  <2> QED BY <2>1, <1>5
<1> QED BY <1>2, <1>3, <1>5, <1>6 DEF G

\* A NAL's parts and their packets.
LEMMA NalFacts ==
    ASSUME NEW f \in FrameIndex
    PROVE  /\ Nals(f) \in Seq(Nat \ {0}) /\ Len(Nals(f)) \in {1, 2}
           /\ DOMAIN Nals(f) = 1..Len(Nals(f))
           /\ Len(Nals(f)) = 2 <=> kind[f] = "key"
           /\ Nals(f)[Len(Nals(f))] > 1
           /\ \A n \in DOMAIN Nals(f) : Nals(f)[n] > 1 => n = Len(Nals(f))
<1>1. KeySlice \in Nat /\ PSlice \in Nat /\ KeySlice > 1 /\ PSlice > 1
  BY SliceAssumption
<1>2. CASE kind[f] = "key"
  <2>1. Nals(f) = <<1, KeySlice>>
    BY <1>2 DEF Nals
  <2> QED BY <1>1, <1>2, <2>1
<1>3. CASE kind[f] # "key"
  <2>1. Nals(f) = <<PSlice>>
    BY <1>3 DEF Nals
  <2> QED BY <1>1, <1>3, <2>1
<1> QED BY <1>2, <1>3

\* The datagrams of a NAL by place: a parity behind every group of data, and after the last.
LEMMA NalPackets ==
    ASSUME NEW f \in FrameIndex, NEW n \in Nat, NEW t \in Nat \ {0}
    PROVE  /\ NalDatagrams(f, n, t) \in Seq(Packet)
           /\ Len(NalDatagrams(f, n, t)) = t + GroupCount(t)
           /\ \A k \in 1..t + GroupCount(t) :
                LET d == NalDatagrams(f, n, t)[k]
                    g == (k - 1) \div (FecGroupSize + 1) + 1
                IN /\ d.f = f /\ d.n = n /\ d.total = t
                   /\ g \in 1..GroupCount(t) /\ k - g \in 0..t
                   /\ (g - 1) * (FecGroupSize + 1) < k /\ k <= g * (FecGroupSize + 1)
                   /\ k < t + GroupCount(t) => k - g < t
                   /\ IF k = g * (FecGroupSize + 1) \/ k = t + GroupCount(t)
                        THEN d.kind = "fec" /\ d.i = g
                        ELSE d.kind = "data" /\ d.i = k - g + 1 /\ d.i \in 1..t
<1> DEFINE G == FecGroupSize
           c == GroupCount(t)
           N(k) == (k - 1) \div (G + 1) + 1
           D(k) == NalDatagrams(f, n, t)[k]
<1>1. G \in Nat /\ G > 1 /\ c \in Nat /\ t <= c * G /\ c > 0 /\ (c - 1) * G < t
  BY GroupAssumption, GroupFacts
<1>2. \A k \in 1..t + c :
         /\ N(k) \in Nat /\ N(k) > 0
         /\ (N(k) - 1) * (G + 1) < k /\ k <= N(k) * (G + 1)
  <2> TAKE k \in 1..t + c
  <2>1. k - 1 \in Nat /\ G + 1 \in Nat \ {0}
    BY <1>1
  <2> DEFINE q == (k - 1) \div (G + 1)
  <2>2. q \in Nat /\ q * (G + 1) <= k - 1 /\ k - 1 < (q + 1) * (G + 1)
    <3> HIDE DEF G
    <3> QED BY <2>1, Quotient
  <2>3. N(k) = q + 1 /\ N(k) - 1 = q
    BY <2>2
  <2>4. q * (G + 1) \in Int /\ (q + 1) * (G + 1) \in Int
    BY <2>2, <1>1
  <2> HIDE DEF q, G, N
  <2> QED BY <2>2, <2>3, <2>4, <1>1
<1> HIDE DEF G, c, N
<1>3. \A k \in 1..t + c : N(k) <= c /\ N(k) <= k /\ k - N(k) <= t
  <2> TAKE k \in 1..t + c
  <2> DEFINE m == N(k)
  <2>1. m \in Nat /\ m > 0 /\ (m - 1) * (G + 1) < k /\ k <= m * (G + 1)
    BY <1>2
  <2> HIDE DEF m
  <2>2. k <= t + c /\ c * (G + 1) = c * G + c /\ c * G \in Int
    BY <1>1
  <2>3. (m - 1) * (G + 1) < c * (G + 1)
    <3>1. k <= c * (G + 1)
      BY <2>2, <1>1
    <3>2. (m - 1) * (G + 1) \in Int /\ c * (G + 1) \in Int
      BY <1>1, <2>1
    <3> QED BY <2>1, <3>1, <3>2
  <2>4. m - 1 <= c - 1
    <3>1. c = (c - 1) + 1 /\ m - 1 \in Int /\ c - 1 \in Int /\ G + 1 \in Nat \ {0}
      BY <1>1, <2>1
    <3> QED BY <2>3, <3>1, Below
  <2>5. m <= k
    <3>1. (m - 1) * 1 <= (m - 1) * (G + 1)
      <4>1. m - 1 \in Nat /\ (m - 1) * G \in Nat /\ (m - 1) * (G + 1) = (m - 1) * G + (m - 1)
        BY <1>1, <2>1
      <4> QED BY <4>1
    <3>2. (m - 1) * (G + 1) \in Int
      BY <1>1, <2>1
    <3> QED BY <2>1, <3>1, <3>2
  <2>6. k - m <= t
    <3>1. CASE m = c
      BY <3>1, <1>1
    <3>2. CASE m <= c - 1
      <4>1. m * G <= (c - 1) * G
        BY <3>2, <2>1, <1>1, Order
      <4>2. m * (G + 1) = m * G + m /\ m * G \in Int /\ (c - 1) * G \in Int
        BY <1>1, <2>1
      <4> QED BY <4>1, <4>2, <2>1, <1>1
    <3> QED BY <3>1, <3>2, <2>1, <2>4, <1>1
  <2> QED BY <2>1, <2>4, <2>5, <2>6, <1>1 DEF m
<1>4. \A k \in 1..t + c :
         D(k) = IF k = N(k) * (G + 1) \/ k = t + c THEN Datagram("fec", f, n, t, N(k))
                ELSE Datagram("data", f, n, t, k - N(k) + 1)
  BY DEF NalDatagrams, G, c, N
<1>5. \A k \in 1..t + c : k < t + c => k - N(k) < t
  <2> TAKE k \in 1..t + c
  <2> HAVE k < t + c
  <2> DEFINE m == N(k)
  <2> SUFFICES k - m < t
    OBVIOUS
  <2>1. m \in Nat /\ m > 0 /\ m <= c /\ k <= m * (G + 1)
    BY <1>2, <1>3
  <2> HIDE DEF m
  <2>2. CASE m = c
    BY <2>2, <1>1
  <2>3. CASE m <= c - 1
    <3>1. m * G <= (c - 1) * G
      BY <2>3, <2>1, <1>1, Order
    <3>2. m * (G + 1) = m * G + m /\ m * G \in Int /\ (c - 1) * G \in Int
      BY <1>1, <2>1
    <3> QED BY <3>1, <3>2, <2>1, <1>1
  <2> QED BY <2>1, <2>2, <2>3, <1>1
<1>6. \A k \in 1..t + c : D(k) \in Packet /\
         LET d == D(k) g == N(k)
         IN /\ d.f = f /\ d.n = n /\ d.total = t
            /\ IF k = g * (G + 1) \/ k = t + c
                 THEN d.kind = "fec" /\ d.i = g
                 ELSE d.kind = "data" /\ d.i = k - g + 1 /\ d.i \in 1..t
  <2> TAKE k \in 1..t + c
  <2> DEFINE m == N(k)
  <2>1. m \in Nat /\ m <= k /\ k - m <= t /\ (k < t + c => k - m < t)
    BY <1>2, <1>3, <1>5
  <2>2. CASE k = m * (G + 1) \/ k = t + c
    <3>1. D(k) = Datagram("fec", f, n, t, m)
      BY <1>4, <2>2
    <3> HIDE DEF D, m
    <3> QED BY <3>1, <2>1, <2>2 DEF Datagram, Packet, m
  <2>3. CASE ~(k = m * (G + 1) \/ k = t + c)
    <3>1. D(k) = Datagram("data", f, n, t, k - m + 1)
      BY <1>4, <2>3
    <3>2. k < t + c /\ k - m + 1 \in 1..t
      BY <2>1, <2>3, <1>1
    <3> HIDE DEF D, m
    <3> QED BY <3>1, <3>2, <2>1, <2>3 DEF Datagram, Packet, m
  <2> QED BY <2>2, <2>3
<1>7. NalDatagrams(f, n, t) = [k \in 1..t + c |-> D(k)]
  BY DEF NalDatagrams, c
<1> HIDE DEF D
<1>8. NalDatagrams(f, n, t) \in Seq(Packet) /\ Len(NalDatagrams(f, n, t)) = t + c
  <2>1. t + c \in Nat
    BY <1>1
  <2>2. [k \in 1..t + c |-> D(k)] \in [1..t + c -> Packet]
    BY <1>6
  <2> QED BY <2>1, <2>2, <1>7
<1>9. \A k \in 1..t + c : N(k) \in 1..c /\ k - N(k) \in 0..t
  <2> TAKE k \in 1..t + c
  <2> DEFINE m == N(k)
  <2>1. m \in Nat /\ m > 0 /\ m <= c /\ m <= k /\ k - m <= t
    BY <1>2, <1>3
  <2> SUFFICES m \in 1..c /\ k - m \in 0..t
    OBVIOUS
  <2> HIDE DEF m
  <2> QED BY <2>1, <1>1
<1>10. ASSUME NEW k \in 1..t + c
       PROVE  LET d == D(k)
                  g == N(k)
              IN /\ d.f = f /\ d.n = n /\ d.total = t
                 /\ g \in 1..c /\ k - g \in 0..t
                 /\ (g - 1) * (G + 1) < k /\ k <= g * (G + 1)
                 /\ k < t + c => k - g < t
                 /\ IF k = g * (G + 1) \/ k = t + c
                      THEN d.kind = "fec" /\ d.i = g
                      ELSE d.kind = "data" /\ d.i = k - g + 1 /\ d.i \in 1..t
  BY <1>2, <1>5, <1>6, <1>9
<1> QED BY <1>8, <1>10 DEF G, c, N, D

GroupOf(i) == (i - 1) \div FecGroupSize + 1

\* The group that holds a packet.
LEMMA GroupOfPacket ==
    ASSUME NEW t \in Nat, NEW i \in 1..t
    PROVE  /\ GroupOf(i) \in 1..GroupCount(t)
           /\ (GroupOf(i) - 1) * FecGroupSize < i /\ i <= GroupOf(i) * FecGroupSize
           /\ i \in GroupRange(GroupOf(i), t)
<1> DEFINE G == FecGroupSize
           q == (i - 1) \div G
           c == GroupCount(t)
<1>1. G \in Nat \ {0} /\ i - 1 \in Nat /\ c \in Nat /\ t <= c * G
  BY GroupAssumption, GroupFacts
<1>2. q \in Nat /\ q * G <= i - 1 /\ i - 1 < (q + 1) * G
  <2> HIDE DEF G
  <2> QED BY <1>1, Quotient
<1>3. GroupOf(i) = q + 1
  BY DEF GroupOf
<1> HIDE DEF q, G, c
<1>4. q * G \in Nat /\ (q + 1) * G \in Nat /\ c * G \in Nat /\ (q + 1) - 1 = q
  BY <1>1, <1>2
<1>5. q * G < c * G
  BY <1>1, <1>2, <1>4
<1>6. q <= c - 1
  <2>1. c = (c - 1) + 1 /\ c - 1 \in Int
    BY <1>1
  <2> QED BY <1>5, <2>1, <1>1, <1>2, Below
<1>7. q * G < i /\ i <= (q + 1) * G
  BY <1>2, <1>4
<1>8. i \in GroupRange(q + 1, t)
  <2>1. q * G + 1 <= i
    BY <1>7, <1>4
  <2> QED BY <2>1, <1>7, <1>4 DEF GroupRange, G
<1> QED BY <1>1, <1>2, <1>3, <1>4, <1>6, <1>7, <1>8 DEF G, c

\* What a NAL in reassembly is made of.
LEMMA PartialOf ==
    ASSUME NEW p \in Partials, NEW S \in Seq(Int), NEW F \in Seq(Int),
           Len(S) = p.total, Len(F) = GroupCount(p.total)
    PROVE  [f |-> p.f, total |-> p.total, slot |-> S, fec |-> F] \in Partials
BY DEF Partials

\* What recovery does to a NAL: a missing packet whose group has its parity and its other
\* packets gets the parity's payload, or a mixture.
LEMMA Recovered ==
    ASSUME NEW p \in Partials, NEW q, q = TryFecRecovery(p)
    PROVE  /\ q \in Partials /\ q.f = p.f /\ q.total = p.total /\ q.fec = p.fec
           /\ \A i \in 1..p.total :
                LET g == GroupOf(i)
                    others == GroupRange(g, p.total) \ {i}
                IN q.slot[i] =
                     IF p.slot[i] = Missing /\ p.fec[g] # Missing /\ others \subseteq Received(p)
                       THEN Decode(p, g, others) ELSE p.slot[i]
<1> DEFINE V(i) == LET g == GroupOf(i)
                       others == GroupRange(g, p.total) \ {i}
                   IN IF p.slot[i] = Missing /\ p.fec[g] # Missing /\ others \subseteq Received(p)
                        THEN Decode(p, g, others) ELSE p.slot[i]
           S == [i \in DOMAIN p.slot |-> V(i)]
<1>1. /\ p.total \in Nat /\ p.slot \in Seq(Int) /\ p.fec \in Seq(Int)
      /\ Len(p.slot) = p.total /\ Len(p.fec) = GroupCount(p.total) /\ DOMAIN p.slot = 1..p.total
      /\ p = [f |-> p.f, total |-> p.total, slot |-> p.slot, fec |-> p.fec]
  BY DEF Partials
<1>2. q = [p EXCEPT !.slot = S]
  BY DEF TryFecRecovery, GroupOf
<1>3. q.f = p.f /\ q.total = p.total /\ q.fec = p.fec /\ q.slot = S
      /\ q = [f |-> p.f, total |-> p.total, slot |-> S, fec |-> p.fec]
  <2> HIDE DEF S
  <2> QED BY <1>1, <1>2
<1>4. \A i \in 1..p.total : V(i) \in Int
  <2> TAKE i \in 1..p.total
  <2> DEFINE g == GroupOf(i)
  <2>1. g \in 1..Len(p.fec)
    BY <1>1, GroupOfPacket
  <2> HIDE DEF g
  <2>2. p.slot[i] \in Int /\ p.fec[g] \in Int
    BY <1>1, <2>1
  <2>3. \A o : Decode(p, g, o) \in Int
    BY <2>2 DEF Decode, Mixed
  <2> QED BY <2>2, <2>3 DEF g
<1> HIDE DEF V
<1>5. S \in Seq(Int) /\ Len(S) = p.total
  <2>1. S = [i \in 1..p.total |-> V(i)]
    BY <1>1
  <2>2. [i \in 1..p.total |-> V(i)] \in [1..p.total -> Int]
    BY <1>4
  <2> HIDE DEF S
  <2> QED BY <2>1, <2>2, <1>1, FunctionIsSeq
<1>6. q \in Partials
  <2> HIDE DEF S
  <2> QED BY <1>3, <1>5, <1>1 DEF Partials
<1>7. \A i \in 1..p.total : q.slot[i] = V(i)
  BY <1>3, <1>1
<1> QED BY <1>3, <1>6, <1>7 DEF V

LEMMA NoNalIsPartial == NoNal \in Partials
<1>1. GroupCount(0) = 0
  <2>1. GroupCount(0) \in Nat /\ 0 + FecGroupSize - 1 \in Nat /\ FecGroupSize \in Nat \ {0}
    BY GroupFacts, GroupAssumption
  <2> DEFINE q == (0 + FecGroupSize - 1) \div FecGroupSize
  <2>2. q * FecGroupSize <= 0 + FecGroupSize - 1 /\ q \in Nat
    BY <2>1, Quotient
  <2>3. GroupCount(0) = q
    BY DEF GroupCount
  <2> HIDE DEF q
  <2>4. q * FecGroupSize < (0 + 1) * FecGroupSize
    BY <2>1, <2>2
  <2> QED BY <2>1, <2>2, <2>3, <2>4, Below
<1> QED BY <1>1 DEF NoNal, Partials

\* A packet of another NAL starts over with empty slots.
LEMMA FreshIsPartial ==
    ASSUME NEW d \in Packet
    PROVE  /\ Fresh(d) \in Partials /\ Fresh(d).f = d.f /\ Fresh(d).total = d.total
           /\ \A i \in 1..d.total : Fresh(d).slot[i] = Missing
           /\ \A g \in 1..GroupCount(d.total) : Fresh(d).fec[g] = Missing
<1>1. d.total \in Nat /\ GroupCount(d.total) \in Nat /\ d.f \in FrameIndex
  BY GroupFacts DEF Packet
<1>2. [i \in 1..d.total |-> Missing] \in Seq(Int) /\ [g \in 1..GroupCount(d.total) |-> Missing] \in Seq(Int)
  BY <1>1 DEF Missing
<1>3. Len([i \in 1..d.total |-> Missing]) = d.total
      /\ Len([g \in 1..GroupCount(d.total) |-> Missing]) = GroupCount(d.total)
  BY <1>1, <1>2
<1> QED BY <1>1, <1>2, <1>3 DEF Fresh, Partials

\* A packet goes to its place, if that is free.
LEMMA StoredIsPartial ==
    ASSUME NEW p \in Partials, NEW d \in Packet, NEW q, q = Store(p, d)
    PROVE  /\ q \in Partials /\ q.f = p.f /\ q.total = p.total /\ q.fec = p.fec
           /\ \A i \in 1..p.total : q.slot[i] =
                IF i = d.i /\ d.i <= d.total /\ p.slot[i] = Missing THEN d.n ELSE p.slot[i]
<1>1. /\ p.total \in Nat /\ p.slot \in Seq(Int) /\ p.fec \in Seq(Int)
      /\ Len(p.slot) = p.total /\ Len(p.fec) = GroupCount(p.total) /\ DOMAIN p.slot = 1..p.total
      /\ p = [f |-> p.f, total |-> p.total, slot |-> p.slot, fec |-> p.fec]
  BY DEF Partials
<1>2. d.n \in Int
  BY DEF Packet
<1>3. CASE d.i <= d.total /\ p.slot[d.i] = Missing
  <2> DEFINE S == [p.slot EXCEPT ![d.i] = d.n]
  <2>1. q = [p EXCEPT !.slot = S]
    BY <1>3 DEF Store
  <2>2. S \in Seq(Int) /\ Len(S) = p.total
    <3>1. p.slot \in [1..p.total -> Int]
      BY <1>1
    <3>2. S \in [1..p.total -> Int]
      BY <3>1, <1>2
    <3> HIDE DEF S
    <3> QED BY <3>2, <1>1, FunctionIsSeq
  <2>3. \A i \in 1..p.total :
            S[i] = IF i = d.i /\ d.i <= d.total /\ p.slot[i] = Missing THEN d.n ELSE p.slot[i]
    BY <1>1, <1>3
  <2> HIDE DEF S
  <2>4. q = [f |-> p.f, total |-> p.total, slot |-> S, fec |-> p.fec]
    BY <2>1, <1>1
  <2> QED BY <2>2, <2>3, <2>4, <1>1 DEF Partials
<1>4. CASE ~(d.i <= d.total /\ p.slot[d.i] = Missing)
  <2>1. q = p
    BY <1>4 DEF Store
  <2> QED BY <2>1, <1>4
<1> QED BY <1>3, <1>4

\* A parity goes to its group.
LEMMA ParityIsKept ==
    ASSUME NEW p \in Partials, NEW g \in Nat, NEW v \in Nat,
           NEW q, q = [p EXCEPT !.fec[g] = v]
    PROVE  /\ q \in Partials /\ q.f = p.f /\ q.total = p.total /\ q.slot = p.slot
           /\ \A h \in 1..GroupCount(p.total) : q.fec[h] = IF h = g THEN v ELSE p.fec[h]
<1>1. /\ p.total \in Nat /\ p.slot \in Seq(Int) /\ p.fec \in Seq(Int)
      /\ Len(p.slot) = p.total /\ Len(p.fec) = GroupCount(p.total)
      /\ DOMAIN p.fec = 1..GroupCount(p.total) /\ GroupCount(p.total) \in Nat
      /\ p = [f |-> p.f, total |-> p.total, slot |-> p.slot, fec |-> p.fec]
  BY GroupFacts DEF Partials
<1> DEFINE S == [p.fec EXCEPT ![g] = v]
<1>2. S \in Seq(Int) /\ Len(S) = GroupCount(p.total)
  <2>1. p.fec \in [1..GroupCount(p.total) -> Int]
    BY <1>1
  <2>2. S \in [1..GroupCount(p.total) -> Int]
    <3>1. v \in Int
      OBVIOUS
    <3>2. DOMAIN S = 1..GroupCount(p.total)
      BY <1>1
    <3>3. \A h \in 1..GroupCount(p.total) : S[h] \in Int
      BY <2>1, <3>1
    <3>4. S = [h \in 1..GroupCount(p.total) |-> S[h]]
      BY <3>2
    <3> HIDE DEF S
    <3> QED BY <3>3, <3>4
  <2> HIDE DEF S
  <2> QED BY <2>2, <1>1, FunctionIsSeq
<1>3. \A h \in 1..GroupCount(p.total) : S[h] = IF h = g THEN v ELSE p.fec[h]
  BY <1>1
<1> HIDE DEF S
<1>4. q = [f |-> p.f, total |-> p.total, slot |-> p.slot, fec |-> S]
  BY <1>1 DEF S
<1>5. q.f = p.f /\ q.total = p.total /\ q.slot = p.slot /\ q.fec = S
  BY <1>4
<1>6. q \in Partials
  <2>1. [f |-> p.f, total |-> p.total, slot |-> p.slot, fec |-> S] \in Partials
    BY <1>1, <1>2, PartialOf
  <2> QED BY <2>1, <1>4
<1> QED BY <1>3, <1>5, <1>6

-----------------------------------------------------------------------------
(* Types; the pose on display.                                             *)

\* The steps of app, encoder and sender before the link keep the types.
LEMMA FrameTyped ==
    ASSUME NEW f \in FrameIndex
    PROVE  FramePackets(f) \in Seq(Packet)
<1>1. RenderPosePacket(f) \in Packet
  BY DEF RenderPosePacket, Datagram, Packet
<1>2. /\ Nals(f) \in Seq(Nat \ {0}) /\ DOMAIN Nals(f) = 1..Len(Nals(f)) /\ Len(Nals(f)) \in {1, 2}
      /\ Len(Nals(f)) = 2 <=> kind[f] = "key"
  BY NalFacts
<1> DEFINE R == [n \in DOMAIN Nals(f) |-> Datagram("nal", f, n, Nals(f)[n], 0)]
<1>3. R \in Seq(Packet)
  <2>1. \A n \in 1..Len(Nals(f)) : Datagram("nal", f, n, Nals(f)[n], 0) \in Packet
    BY <1>2 DEF Datagram, Packet
  <2>2. R \in [1..Len(Nals(f)) -> Packet]
    BY <1>2, <2>1
  <2> HIDE DEF R
  <2> QED BY <2>2, <1>2, FunctionIsSeq
<1>4. NalDatagrams(f, 1, Nals(f)[1]) \in Seq(Packet)
  BY <1>2, NalPackets
<1>5. kind[f] = "key" => NalDatagrams(f, 2, Nals(f)[2]) \in Seq(Packet)
  <2> HAVE kind[f] = "key"
  <2>1. Nals(f)[2] \in Nat \ {0}
    BY <1>2
  <2> QED BY <2>1, NalPackets
<1> DEFINE T == IF tcp THEN R
                ELSE IF kind[f] = "key"
                       THEN NalDatagrams(f, 1, Nals(f)[1]) \o NalDatagrams(f, 2, Nals(f)[2])
                ELSE NalDatagrams(f, 1, Nals(f)[1])
<1>6. T \in Seq(Packet)
  <2> HIDE DEF R
  <2> QED BY <1>3, <1>4, <1>5, ConcatProperties
<1>7. FramePackets(f) = <<RenderPosePacket(f)>> \o T
  BY DEF FramePackets
<1> HIDE DEF T
<1> QED BY <1>1, <1>6, <1>7, ConcatProperties

\* The types of what a step leaves alone.
LEMMA LinkStays ==
    ASSUME TransportInv, ServerInv', UNCHANGED ClientVars
    PROVE  TransportInv'
BY DEF TransportInv, LinkType, ClientType, ClientVars

\* A NAL is cached for retransmission.
LEMMA CacheTyped ==
    ASSUME TransportInv, NEW d \in Packet, CachePacket(d)
    PROVE  cache' \in [1..CacheSize -> Entry]
<1>1. cache \in [1..CacheSize -> Entry] /\ d.i \in Nat /\ d.f \in FrameIndex /\ d.total \in Nat
      /\ d.n \in Nat
  BY DEF TransportInv, LinkType, Packet
<1>2. CASE \E c : cache' = [cache EXCEPT ![c] =
                 [f |-> d.f, total |-> d.total, n |-> d.n, have |-> {1}, complete |-> FALSE]]
  <2>1. [f |-> d.f, total |-> d.total, n |-> d.n, have |-> {1}, complete |-> FALSE] \in Entry
    BY <1>1 DEF Entry
  <2> QED BY <1>1, <1>2, <2>1
<1>3. CASE cache' = [cache EXCEPT ![cacheWrite].have = @ \cup {d.i}]
  <2>1. ASSUME NEW e \in Entry PROVE [e EXCEPT !.have = e.have \cup {d.i}] \in Entry
    BY <1>1 DEF Entry
  <2>2. cacheWrite \in 1..CacheSize => cache[cacheWrite] \in Entry
    BY <1>1
  <2> DEFINE e == [cache[cacheWrite] EXCEPT !.have = cache[cacheWrite].have \cup {d.i}]
  <2>3. cache' = [cache EXCEPT ![cacheWrite] = e]
    BY <1>3
  <2>4. cacheWrite \in 1..CacheSize => e \in Entry
    BY <2>1, <2>2
  <2> HIDE DEF e
  <2> QED BY <1>1, <2>3, <2>4
<1>4. CASE cache' = [cache EXCEPT ![cacheWrite].complete = TRUE]
  <2>1. ASSUME NEW e \in Entry PROVE [e EXCEPT !.complete = TRUE] \in Entry
    BY DEF Entry
  <2>2. cacheWrite \in 1..CacheSize => cache[cacheWrite] \in Entry
    BY <1>1
  <2> DEFINE e == [cache[cacheWrite] EXCEPT !.complete = TRUE]
  <2>3. cache' = [cache EXCEPT ![cacheWrite] = e]
    BY <1>4
  <2>4. cacheWrite \in 1..CacheSize => e \in Entry
    BY <2>1, <2>2
  <2> HIDE DEF e
  <2> QED BY <1>1, <2>3, <2>4
<1>5. CASE cache' = cache
  BY <1>1, <1>5
<1> QED
  <2>1. CASE d.kind = "data" /\ d.i = 1
    BY <2>1, <1>2 DEF CachePacket
  <2>2. CASE d.kind = "data" /\ d.i > 1
    BY <2>2, <1>3, <1>1 DEF CachePacket
  <2>3. CASE d.kind = "fec" /\ d.i = GroupCount(d.total)
    BY <2>3, <1>4 DEF CachePacket
  <2>4. CASE ~(d.kind = "data" /\ d.i = 1) /\ ~(d.kind = "data" /\ d.i > 1)
             /\ ~(d.kind = "fec" /\ d.i = GroupCount(d.total))
    BY <2>4, <1>5 DEF CachePacket
  <2> QED BY <2>1, <2>2, <2>3, <2>4

LEMMA SendTyped ==
    ASSUME TransportInv, ServerInv',
         TakeFrame \/ SendDatagram \/ SendTcpRecord \/ TcpSendFails \/ SendNothing \/ Lose
    PROVE  TransportInv'
<1>1. /\ net \in Seq(Packet) /\ sending \in Seq(Packet) /\ resend \in Seq(Packet) /\ losses \in Nat
      /\ cache \in [1..CacheSize -> Entry] /\ control \in Seq(KeyRequests \cup NackRequests)
      /\ ClientType
  BY DEF TransportInv, LinkType
<1>2. sending # <<>> => Head(sending) \in Packet /\ Tail(sending) \in Seq(Packet)
  BY <1>1
<1>3. net # <<>> => Tail(net) \in Seq(Packet)
  BY <1>1
<1>4. /\ UNCHANGED <<resend, control, pendingNal, delivered, decoding>>
  BY DEF TakeFrame, SendDatagram, SendTcpRecord, TcpSendFails, SendNothing, Lose,
         link, nack, receive, decoder
<1>5. ClientType'
  BY <1>4, <1>1 DEF ClientType
<1>6. LinkType'
  <2>1. CASE TakeFrame
    <3>1. UNCHANGED <<net, losses, cache>>
      BY <2>1 DEF TakeFrame, link, nack
    <3>2. sending' = sending \/ sending' = FramePackets(Head(sendQueue))
      BY <2>1 DEF TakeFrame
    <3>3. Head(sendQueue) \in FrameIndex
      BY <2>1 DEF TakeFrame, TransportInv, ServerInv, ServerType
    <3>4. sending' \in Seq(Packet)
      BY <3>2, <3>3, <1>1, FrameTyped
    <3> QED BY <3>1, <3>4, <1>1, <1>4 DEF LinkType
  <2>2. CASE SendDatagram
    <3>1. UNCHANGED losses /\ sending' = Tail(sending) /\ net' = Append(net, Head(sending))
          /\ sending # <<>> /\ CachePacket(Head(sending))
      BY <2>2 DEF SendDatagram
    <3>2. cache' \in [1..CacheSize -> Entry]
      BY <3>1, <1>2, CacheTyped
    <3>3. net' \in Seq(Packet)
      BY <3>1, <1>1, <1>2, AppendProperties
    <3> QED BY <3>1, <3>2, <3>3, <1>1, <1>2, <1>4 DEF LinkType
  <2>3. CASE SendTcpRecord
    <3>1. UNCHANGED <<losses, cache>> /\ sending' = Tail(sending) /\ net' = Append(net,
         Head(sending))
          /\ sending # <<>>
      BY <2>3 DEF SendTcpRecord, nack
    <3>3. net' \in Seq(Packet)
      BY <3>1, <1>1, <1>2, AppendProperties
    <3> QED BY <3>1, <3>3, <1>1, <1>2, <1>4 DEF LinkType
  <2>4. CASE TcpSendFails
    <3> DEFINE h == [Head(sending) EXCEPT !.kind = "torn"]
    <3>1. UNCHANGED cache /\ sending' = Tail(sending) /\ net' = Append(net, h)
          /\ sending # <<>> /\ losses' = losses + 1
      BY <2>4 DEF TcpSendFails, nack
    <3>2. h \in Packet
      BY <3>1, <1>2 DEF Packet
    <3> HIDE DEF h
    <3>3. net' \in Seq(Packet)
      BY <3>1, <3>2, <1>1, AppendProperties
    <3> QED BY <3>1, <3>3, <1>1, <1>2, <1>4 DEF LinkType
  <2>5. CASE SendNothing
    <3>1. UNCHANGED <<net, losses, cache>> /\ sending' = Tail(sending) /\ sending # <<>>
      BY <2>5 DEF SendNothing, link, nack
    <3> QED BY <3>1, <1>1, <1>2, <1>4 DEF LinkType
  <2>6. CASE Lose
    <3>1. UNCHANGED <<sending, cache>> /\ net' = Tail(net) /\ net # <<>> /\ losses' = losses + 1
      BY <2>6 DEF Lose, send, nack
    <3> QED BY <3>1, <1>1, <1>3, <1>4 DEF LinkType
  <2> QED BY <2>1, <2>2, <2>3, <2>4, <2>5, <2>6
<1> QED BY <1>5, <1>6 DEF TransportInv

LEMMA NackTyped ==
    ASSUME TransportInv, HandleNackRequest
    PROVE  /\ control' = Tail(control) /\ control # <<>> /\ Head(control) \in NackRequests
           /\ resend' \in Seq(Packet)
           /\ resend' # resend => \E c \in 1..CacheSize : 
                /\ cache[c].f = Head(control).f /\ cache[c].total = Head(control).total
                /\ \A k \in 1..Len(resend') :
                     /\ resend'[k].kind = "data" /\ resend'[k].f = cache[c].f
                     /\ resend'[k].n = cache[c].n /\ resend'[k].total = cache[c].total
                     /\ resend'[k].i \in 1..cache[c].total
<1> DEFINE r == Head(control)
           matching == CachedSlots(r)
<1>1. /\ control' = Tail(control) /\ control # <<>> /\ r.type = "NackRequest" /\ resend = <<>>
  BY DEF HandleNackRequest
<1>2. r \in NackRequests
  <2>1. r \in KeyRequests \cup NackRequests
    BY <1>1 DEF TransportInv, LinkType
  <2> HIDE DEF r
  <2> QED BY <2>1, <1>1 DEF KeyRequests
<1>3. CASE matching = {}
  BY <1>1, <1>2, <1>3 DEF HandleNackRequest, TransportInv, LinkType
<1>4. CASE matching # {}
  <2> DEFINE c == CHOOSE c \in matching : \A o \in matching : c <= o
             e == cache[c]
             K == r.missing \cap e.have
  <2>1. resend' = [k \in 1..Cardinality(K) |-> Datagram("data", e.f, e.n, e.total, Nth(K, k))]
    BY <1>4 DEF HandleNackRequest
  <2>2. matching \in SUBSET Nat
    BY DEF CachedSlots
  <2>3. c \in matching
    <3>1. \E n \in matching : \A o \in matching : n <= o
      <4> HIDE DEF matching
      <4> QED BY <2>2, <1>4, FirstOfNats
    <3> QED BY <3>1
  <2>4. c \in 1..CacheSize /\ e.f = r.f /\ e.total = r.total
    BY <2>3 DEF CachedSlots
  <2> HIDE DEF c
  <2>5. e \in Entry
    BY <2>4 DEF TransportInv, LinkType
  <2> HIDE DEF e, r
  <2>6. K \subseteq 1..r.total /\ r.total \in Nat /\ r.f \in FrameIndex
    BY <1>2 DEF NackRequests
  <2>7. IsFiniteSet(K) /\ Cardinality(K) \in Nat
    <3>1. IsFiniteSet(1..r.total)
      BY <2>6, FS_Interval
    <3>2. IsFiniteSet(K)
      BY <3>1, <2>6, FS_Subset
    <3> QED BY <3>2, FS_CardinalityType
  <2> HIDE DEF K
  <2>8. \A k \in 1..Cardinality(K) : Nth(K, k) \in 1..e.total
    BY <2>4, <2>6, NthIsMember
  <2> DEFINE D(k) == Datagram("data", e.f, e.n, e.total, Nth(K, k))
  <2>9. \A k \in 1..Cardinality(K) : D(k) \in Packet
    BY <2>4, <2>5, <2>6, <2>8 DEF Datagram, Packet, Entry
  <2>10. \A k \in 1..Cardinality(K) :
            /\ D(k).kind = "data" /\ D(k).f = e.f /\ D(k).n = e.n /\ D(k).total = e.total
            /\ D(k).i \in 1..e.total
    BY <2>8 DEF Datagram
  <2> HIDE DEF D
  <2>11. resend' = [k \in 1..Cardinality(K) |-> D(k)]
    BY <2>1 DEF D
  <2>12. resend' \in Seq(Packet) /\ Len(resend') = Cardinality(K)
    <3>1. resend' \in [1..Cardinality(K) -> Packet]
      BY <2>9, <2>11
    <3> QED BY <3>1, <2>7, FunctionIsSeq
  <2>13. \A k \in 1..Len(resend') : resend'[k] = D(k)
    BY <2>11, <2>12
  <2> QED BY <1>1, <1>2, <2>4, <2>10, <2>12, <2>13 DEF e, r
<1> QED BY <1>3, <1>4

LEMMA ControlTyped ==
    ASSUME TransportInv, ServerInv', ControlThread
    PROVE  TransportInv'
<1>1. UNCHANGED <<sending, losses, cache, pendingNal, delivered, decoding>>
  BY DEF ControlThread, HandleKeyframeRequest, HandleNackRequest, Retransmit, send, link, nack,
         receive, decoder
<1>2. ClientType'
  BY <1>1 DEF TransportInv, ClientType
<1>3. CASE HandleKeyframeRequest
  BY <1>1, <1>2, <1>3 DEF HandleKeyframeRequest, link, nack, TransportInv, LinkType
<1>4. CASE HandleNackRequest
  <2>1. net' = net
    BY <1>4 DEF HandleNackRequest, link
  <2>2. control' \in Seq(KeyRequests \cup NackRequests) /\ resend' \in Seq(Packet)
    <3>1. control' = Tail(control) /\ control # <<>> /\ resend' \in Seq(Packet)
      BY <1>4, NackTyped
    <3>2. control \in Seq(KeyRequests \cup NackRequests)
      BY DEF TransportInv, LinkType
    <3> QED BY <3>1, <3>2
  <2> QED BY <1>1, <1>2, <2>1, <2>2 DEF TransportInv, LinkType
<1>5. CASE Retransmit
  <2>1. control' = control /\ net' = Append(net,
       Head(resend)) /\ resend' = Tail(resend) /\ resend # <<>>
    BY <1>5 DEF Retransmit
  <2>2. resend' \in Seq(Packet) /\ net' \in Seq(Packet)
    BY <2>1, AppendProperties DEF TransportInv, LinkType
  <2> QED BY <1>1, <1>2, <2>1, <2>2 DEF TransportInv, LinkType
<1> QED BY <1>3, <1>4, <1>5 DEF ControlThread

LEMMA SubmitTyped ==
    ASSUME ClientType, NEW f \in FrameIndex, NEW b, OnNalUnitReceived(f, b)
    PROVE  decoding' \in Seq(FrameIndex)
<1>1. decoding \in Seq(FrameIndex) /\ Append(decoding, f) \in Seq(FrameIndex)
  BY AppendProperties DEF ClientType
<1>2. decoding' = decoding \/ decoding' = Append(decoding, f)
  BY DEF OnNalUnitReceived, SubmitNalUnit
<1> QED BY <1>1, <1>2

LEMMA DeliverTyped ==
    ASSUME ClientType, NEW p \in Partials, Complete(p), Deliver(p)
    PROVE  ClientType'
<1>1. p.total > 0 /\ p.f \in FrameIndex /\ p.slot \in Seq(Int)
  BY DEF Complete, Partials
<1>2. [f |-> p.f, got |-> p.slot] \in [f : FrameIndex, got : Seq(Int)]
  BY <1>1
<1>3. delivered' \subseteq [f : FrameIndex, got : Seq(Int)]
  BY <1>2 DEF Deliver, ClientType
<1>4. pendingNal' \in Partials
  BY NoNalIsPartial DEF Deliver
<1>5. decoding' \in Seq(FrameIndex)
  BY <1>1, SubmitTyped DEF Deliver
<1> QED BY <1>3, <1>4, <1>5 DEF ClientType

LEMMA HoldTyped ==
    ASSUME ClientType, NEW p \in Partials, Hold(p)
    PROVE  ClientType'
BY DEF Hold, ClientType, decoder

LEMMA FecTyped ==
    ASSUME ClientType, NEW d \in Packet, ReassembleFec(d)
    PROVE  ClientType' /\ control' = control
<1>1. pendingNal \in Partials /\ d.n \in Nat /\ d.i \in Nat /\ control' = control
  BY DEF ClientType, Packet, ReassembleFec
<1> DEFINE held == [pendingNal EXCEPT !.fec[d.i] = d.n]
           tried == IF Recoverable(held) THEN TryFecRecovery(held) ELSE held
<1>2. CASE d.i <= GroupCount(pendingNal.total) /\ IF Complete(tried) THEN Deliver(tried) ELSE Hold(tried)
  <2>2. held \in Partials
    BY <1>1, ParityIsKept
  <2> HIDE DEF held
  <2>3. tried \in Partials
    BY <2>2, Recovered
  <2> HIDE DEF tried
  <2> QED BY <1>1, <1>2, <2>3, DeliverTyped, HoldTyped
<1>3. CASE UNCHANGED <<pendingNal, delivered, decoder>>
  BY <1>1, <1>3 DEF ClientType, decoder
<1> QED BY <1>2, <1>3 DEF ReassembleFec

LEMMA NackRequestTyped ==
    ASSUME TransportInv, NEW p \in Partials, p.total > 0, SendNack(p)
    PROVE  control' \in Seq(KeyRequests \cup NackRequests)
<1> DEFINE r == [type |-> "NackRequest", f |-> p.f, total |-> p.total,
                 missing |-> 1..p.total \ Received(p)]
<1>1. r \in NackRequests
  BY DEF NackRequests, Partials
<1>2. control \in Seq(KeyRequests \cup NackRequests)
  BY DEF TransportInv, LinkType
<1>3. control' = control \/ control' = Append(control, r)
  BY DEF SendNack
<1> HIDE DEF r
<1> QED BY <1>1, <1>2, <1>3, AppendProperties

\* A data packet is stored, or starts a NAL over.
LEMMA DataTyped ==
    ASSUME TransportInv, NEW d \in Packet, ReassembleData(d)
    PROVE  ClientType' /\ control' \in Seq(KeyRequests \cup NackRequests)
<1> DEFINE displaced == NewFrame(d) /\ Partial(pendingNal)
           tried == TryFecRecovery(pendingNal)
           base == IF NewFrame(d) THEN Fresh(d) ELSE pendingNal
           stored == Store(base, d)
<1>1. pendingNal \in Partials /\ ClientType /\ control \in Seq(KeyRequests \cup NackRequests)
  BY DEF TransportInv, ClientType, LinkType
<1>2. tried \in Partials /\ tried.total = pendingNal.total
  BY <1>1, Recovered
<1>3. base \in Partials
  BY <1>1, FreshIsPartial
<1> HIDE DEF base, tried
<1>4. stored \in Partials
  BY <1>3, StoredIsPartial
<1> HIDE DEF stored
<1>5. CASE displaced /\ Complete(tried)
  <2>1. Deliver(tried) /\ control' = control
    BY <1>5 DEF ReassembleData, tried
  <2> QED BY <2>1, <1>1, <1>2, <1>5, DeliverTyped
<1>6. CASE ~(displaced /\ Complete(tried))
  <2>1. /\ IF displaced THEN DropPending(tried) ELSE UNCHANGED <<unseen, control>>
        /\ IF Complete(stored) THEN Deliver(stored) ELSE Hold(stored)
    BY <1>6 DEF ReassembleData, tried, base, stored
  <2>2. ClientType'
    BY <2>1, <1>1, <1>4, DeliverTyped, HoldTyped
  <2>3. CASE displaced
    <3>1. tried.total > 0 /\ SendNack(tried)
      BY <2>1, <2>3, <1>2 DEF Partial, DropPending
    <3> QED BY <3>1, <2>2, <1>2, NackRequestTyped
  <2>4. CASE ~displaced
    <3>1. control' = control
      BY <2>1, <2>4
    <3> QED BY <3>1, <2>2, <1>1
  <2> QED BY <2>3, <2>4
<1> QED BY <1>5, <1>6

LEMMA ReceiveTyped ==
    ASSUME TransportInv, ServerInv', ClientReceive
    PROVE  TransportInv'
<1> DEFINE d == Head(net)
<1>1. /\ net # <<>> /\ net \in Seq(Packet) /\ ClientType
      /\ control \in Seq(KeyRequests \cup NackRequests)
      /\ UNCHANGED <<sending, losses, cache, resend>>
  BY DEF ClientReceive, ReceiveThread, ReceiveTcpThread, TransportInv, LinkType, send, nack
<1>2. d \in Packet /\ Tail(net) \in Seq(Packet) /\ d.f \in FrameIndex
  <2>1. d \in Packet /\ Tail(net) \in Seq(Packet)
    BY <1>1
  <2> HIDE DEF d
  <2> QED BY <2>1 DEF Packet
<1> HIDE DEF d
<1>3. ASSUME ClientType', control' \in Seq(KeyRequests \cup NackRequests), net' \in Seq(Packet)
      PROVE  TransportInv'
  BY <1>1, <1>3 DEF TransportInv, LinkType
<1>4. CASE ReceiveThread
  <2>1. net' = Tail(net)
    BY <1>4 DEF ReceiveThread, d
  <2>2. CASE UNCHANGED <<receive, control, decoder>>
    BY <2>1, <2>2, <1>1, <1>2, <1>3 DEF receive, decoder, ClientType
  <2>3. CASE ReassembleFec(d)
    BY <2>1, <2>3, <1>1, <1>2, <1>3, FecTyped
  <2>4. CASE ReassembleData(d)
    BY <2>1, <2>4, <1>1, <1>2, <1>3, DataTyped
  <2> QED BY <1>4, <2>2, <2>3, <2>4 DEF ReceiveThread, d
<1>5. CASE ReceiveTcpThread
  <2>1. control' = control /\ UNCHANGED pendingNal
    BY <1>5 DEF ReceiveTcpThread, receive
  <2>2. CASE net' = Tail(net) /\ UNCHANGED <<receive, decoder>>
    BY <2>1, <2>2, <1>1, <1>2, <1>3 DEF receive, decoder, ClientType
  <2>3. CASE /\ net' = Tail(net)
             /\ delivered' = delivered \cup {[f |-> d.f, got |-> [i \in 1..d.total |-> d.n]]}
             /\ OnNalUnitReceived(d.f, d.total > 1)
    <3>1. [i \in 1..d.total |-> d.n] \in Seq(Int)
      <4>1. d.total \in Nat /\ d.n \in Int
        BY <1>2 DEF Packet
      <4>2. [i \in 1..d.total |-> d.n] \in [1..d.total -> Int]
        BY <4>1
      <4> QED BY <4>1, <4>2, FunctionIsSeq
    <3>2. delivered' \subseteq [f : FrameIndex, got : Seq(Int)]
      <4>1. [f |-> d.f, got |-> [i \in 1..d.total |-> d.n]] \in [f : FrameIndex, got : Seq(Int)]
        BY <3>1, <1>2
      <4>2. delivered \subseteq [f : FrameIndex, got : Seq(Int)]
        BY <1>1 DEF ClientType
      <4> QED BY <4>1, <4>2, <2>3
    <3>3. decoding' \in Seq(FrameIndex)
      BY <2>3, <1>1, <1>2, SubmitTyped
    <3> QED BY <2>1, <2>3, <3>2, <3>3, <1>1, <1>2, <1>3 DEF ClientType
  <2>4. CASE /\ net' = SubSeq(net, 3, Len(net)) /\ Len(net) > 1
             /\ delivered' = delivered \cup {[f |-> d.f, got |-> <<Mixed>>]}
             /\ UNCHANGED decoder
    <3>1. net' \in Seq(Packet)
      BY <2>4, <1>1
    <3>2. <<Mixed>> \in Seq(Int)
      BY DEF Mixed
    <3>3. delivered' \subseteq [f : FrameIndex, got : Seq(Int)]
      <4>1. [f |-> d.f, got |-> <<Mixed>>] \in [f : FrameIndex, got : Seq(Int)]
        BY <3>2, <1>2
      <4>2. delivered \subseteq [f : FrameIndex, got : Seq(Int)]
        BY <1>1 DEF ClientType
      <4> QED BY <4>1, <4>2, <2>4
    <3> QED BY <2>1, <2>4, <3>1, <3>3, <1>1, <1>3 DEF ClientType, decoder
  <2> QED BY <1>5, <2>2, <2>3, <2>4 DEF ReceiveTcpThread, d
<1> QED BY <1>4, <1>5 DEF ClientReceive

LEMMA DisplayTyped ==
    ASSUME TransportInv, ServerInv', RenderFrame \/ RunFrameEnd
    PROVE  TransportInv'
<1>1. CASE RenderFrame
  <2>1. UNCHANGED <<net, sending, resend, losses, cache, control, pendingNal, delivered>>
    BY <1>1 DEF RenderFrame, link, send, nack, receive
  <2>2. decoding \in Seq(FrameIndex) /\ \E k \in DOMAIN decoding :
            decoding' = SubSeq(decoding, k + 1, Len(decoding))
    BY <1>1 DEF RenderFrame, TakeImage, TransportInv, ClientType
  <2>3. decoding' \in Seq(FrameIndex)
    BY <2>2
  <2> QED BY <2>1, <2>3 DEF TransportInv, LinkType, ClientType
<1>2. CASE RunFrameEnd
  <2>1. UNCHANGED <<net, sending, resend, losses, cache, pendingNal, delivered, decoding>>
    BY <1>2 DEF RunFrameEnd, RequestKeyframe, link, send, nack
  <2>2. control \in Seq(KeyRequests \cup NackRequests)
    BY DEF TransportInv, LinkType
  <2>3. [type |-> "RequestKeyframe"] \in KeyRequests \cup NackRequests
    BY DEF KeyRequests
  <2>4. control' \in Seq(KeyRequests \cup NackRequests)
    BY <1>2, <2>2, <2>3, AppendProperties DEF RunFrameEnd, RequestKeyframe, SendKeyframeRequest
  <2> QED BY <2>1, <2>4 DEF TransportInv, LinkType, ClientType
<1> QED BY <1>1, <1>2

\* The types of the transport hold in every reachable state.
LEMMA TransportTyped == TransportSpec => []TransportInv
<1>1. TransportInit => TransportInv
  <2> SUFFICES ASSUME TransportInit PROVE TransportInv
    OBVIOUS
  <2>1. cache \in [1..CacheSize -> Entry]
    <3>1. NoEntry \in Entry
      BY DEF NoEntry, Entry, Stale, None
    <3>2. \A f \in FrameIndex : StaleEntry(f, PSlice) \in Entry
      BY SliceAssumption DEF StaleEntry, Entry, Stale
    <3>3. PICK f \in FrameIndex \cup {None} : cache = [c \in 1..CacheSize |->
             IF c = CacheSize /\ f # None THEN StaleEntry(f, PSlice) ELSE NoEntry]
      BY DEF TransportInit
    <3> QED BY <3>1, <3>2, <3>3
  <2>2. LinkType
    BY <2>1 DEF TransportInit, LinkType
  <2>3. ClientType
    BY NoNalIsPartial DEF TransportInit, ClientType
  <2> QED BY <2>2, <2>3, ServerInitially DEF TransportInv
<1>2. TransportInv /\ [TransportNext]_transportVars => TransportInv'
  <2> SUFFICES ASSUME TransportInv, [TransportNext]_transportVars PROVE TransportInv'
    OBVIOUS
  <2>0. ServerInv'
    BY ServerStep DEF TransportInv
  <2>1. CASE SendFrame \/ EncodeFrame \/ FrameEncoded \/ ThrottleEnds
    BY <2>0, <2>1, LinkStays DEF SendFrame, EncodeFrame, FrameEncoded, ThrottleEnds, ClientVars,
       send, link, nack, receive,
                                 decoder
  <2>2. CASE SendThread \/ TcpSendFails \/ Lose
    BY <2>0, <2>2, SendTyped DEF SendThread
  <2>3. CASE ControlThread
    BY <2>0, <2>3, ControlTyped
  <2>4. CASE ClientReceive
    BY <2>0, <2>4, ReceiveTyped
  <2>5. CASE RenderFrame \/ RunFrameEnd
    BY <2>0, <2>5, DisplayTyped
  <2>6. CASE UNCHANGED transportVars
    BY <2>0, <2>6, LinkStays DEF transportVars, ClientVars, send, link, nack, receive, decoder
  <2> QED BY <2>1, <2>2, <2>3, <2>4, <2>5, <2>6 DEF TransportNext
<1> QED BY <1>1, <1>2, PTL DEF TransportSpec

\* The pose a picture is reprojected from is never a later frame's, and is its own while the
\* client keeps that (ConsumeRenderPoseForPresentation and its ring of poses).
THEOREM PosesArePlausible == TransportSpec => PosePlausible
<1>1. TransportInv /\ [TransportNext]_transportVars =>
        [shown'.f # shown.f =>
           /\ shown'.pose <= shown'.f
           /\ Contains(poses, shown'.f) => shown'.pose = shown'.f]_transportVars
  <2> SUFFICES ASSUME TransportInv, TransportNext, shown'.f # shown.f
               PROVE  /\ shown'.pose <= shown'.f
                      /\ Contains(poses, shown'.f) => shown'.pose = shown'.f
    OBVIOUS
  <2>1. RenderFrame
    <3>1. shown' # shown
      OBVIOUS
    <3> QED BY <3>1 DEF TransportNext, SendFrame, EncodeFrame, FrameEncoded, SendThread,
         TakeFrame,
             SendDatagram, SendTcpRecord, SendNothing, TcpSendFails, Lose, ControlThread,
             HandleKeyframeRequest, HandleNackRequest, Retransmit, ClientReceive, ReceiveThread,
             ReceiveTcpThread, RunFrameEnd, RequestKeyframe, ThrottleEnds, display
  <2>2. PICK k \in DOMAIN decoding : ResolveRenderPose(decoding[k])
    BY <2>1 DEF RenderFrame
  <2>3. decoding[k] \in FrameIndex /\ decoding[k] \in Nat
    <3>1. decoding \in Seq(FrameIndex)
      BY DEF TransportInv, ClientType
    <3>2. decoding[k] \in FrameIndex
      BY <3>1
    <3> QED BY <3>2, FrameFacts
  <2> QED BY <2>2, <2>3 DEF ResolveRenderPose, Fallback, None
<1> QED BY <1>1, TransportTyped, PTL DEF TransportSpec, PosePlausible

-----------------------------------------------------------------------------
(* What is on its way is what the server sent; a delivered NAL is whole.   *)

\* The NALs of the frames taken for sending, in packets.
Shapes == [f \in sent |-> Nals(f)]

ShapeOk(N) ==
    /\ DOMAIN N \subseteq FrameIndex
    /\ \A f \in DOMAIN N :
         /\ N[f] \in Seq(Nat \ {0}) /\ Len(N[f]) \in {1, 2}
         /\ \A n \in 1..Len(N[f]) : N[f][n] > 1 <=> n = Len(N[f])

Extended(M, N) == \A f \in DOMAIN N : f \in DOMAIN M /\ M[f] = N[f]

\* What is of a NAL the server sent, and what a packet of one looks like.
Of(N, d) == d.f \in DOMAIN N /\ d.n \in 1..Len(N[d.f]) /\ d.total = N[d.f][d.n]
IsPose(N, d) == d.kind = "pose" /\ d.f \in DOMAIN N /\ d.total = 0
IsData(N, d) == d.kind = "data" /\ Of(N, d) /\ d.i \in 1..d.total
IsParity(N, d) == d.kind = "fec" /\ Of(N, d) /\ d.i \in 1..GroupCount(d.total)
IsRecord(N, d) == d.kind = "nal" /\ Of(N, d)
IsTorn(N, d) == d.kind = "torn" /\ d.f \in DOMAIN N
Sound(N, t, d) == \/ IsPose(N, d)
                  \/ IF t THEN IsRecord(N, d) \/ IsTorn(N, d) ELSE IsData(N, d) \/ IsParity(N, d)

\* A NAL in reassembly is a slice the server sent.
FromSlice(N, p) ==
    /\ p.f \in DOMAIN N /\ p.total = N[p.f][Len(N[p.f])]
    /\ \A i \in 1..p.total : p.slot[i] \in {Missing, Len(N[p.f])}
    /\ \A g \in 1..GroupCount(p.total) : p.fec[g] \in {Missing, Len(N[p.f])}

Whole(N, d) == d.f \in DOMAIN N /\ \E n \in 1..Len(N[d.f]) : d.got = [i \in 1..N[d.f][n] |-> n]

Stream == net \o sending
\* A parameter set (one packet) goes before the slice of its frame.
Early(s) == \A j \in 1..Len(s) : \A i \in 1..j - 1 :
                s[j].total = 1 /\ s[i].f = s[j].f => s[i].total <= 1
Params(s) == {f \in FrameIndex : \E j \in 1..Len(s) : s[j].total = 1 /\ s[j].f = f}
IsNack(r) == r.type = "NackRequest"
\* The client and the retransmission have nothing of frame f.
Untouched(f) ==
    /\ pendingNal.total > 0 => pendingNal.f # f
    /\ \A i \in 1..Len(control) : IsNack(control[i]) => control[i].f # f
    /\ \A i \in 1..Len(resend) : resend[i].f # f

\* What is on its way is of frames that were taken; only slices over UDP are resent.
OnLink == /\ \A i \in 1..Len(net) : Sound(Shapes, tcp, net[i])
          /\ \A i \in 1..Len(sending) : Sound(Shapes, tcp, sending[i]) /\ sending[i].kind # "torn"
          /\ \A i \in 1..Len(resend) : ~tcp /\ IsData(Shapes, resend[i]) /\ resend[i].total > 1
\* A record cut short is the last, and the session over.
TornLast == \A i \in 1..Len(net) : net[i].kind = "torn" => i = Len(net) /\ ~accepting
Cached == \A c \in 1..CacheSize : cache[c].f # None => Of(Shapes, cache[c])
\* The NAL in reassembly is a slice: a parameter set is complete at once.
Reassembling == pendingNal.total > 0 => FromSlice(Shapes, pendingNal)
\* Packets are asked for of slices only.
Asked == \A i \in 1..Len(control) : IsNack(control[i]) =>
             ~tcp /\ control[i].f \in DOMAIN Shapes /\ control[i].total > 1
\* Nothing of a frame is pending, asked for or resent while its parameter set is on its way.
ParamFirst == ~tcp => Early(Stream) /\ \A f \in Params(Stream) : Untouched(f)
AllWhole == \A d \in delivered : Whole(Shapes, d)

Content == OnLink /\ TornLast /\ Cached /\ Reassembling /\ Asked /\ ParamFirst /\ AllWhole

-----------------------------------------------------------------------------
\* A frame is a slice of several packets, behind a parameter set of one if it is a key frame.
LEMMA ShapesOk ==
    ASSUME TransportInv
    PROVE  ShapeOk(Shapes)
<1>1. sent \subseteq FrameIndex
  BY DEF TransportInv, ServerInv, ServerType
<1>2. \A f \in sent : Shapes[f] = Nals(f)
  BY DEF Shapes
<1>3. ASSUME NEW f \in sent
      PROVE  /\ Nals(f) \in Seq(Nat \ {0}) /\ Len(Nals(f)) \in {1, 2}
             /\ \A n \in 1..Len(Nals(f)) : Nals(f)[n] > 1 <=> n = Len(Nals(f))
  <2>1. f \in FrameIndex
    BY <1>1
  <2> QED BY <2>1, NalFacts
<1> QED BY <1>1, <1>2, <1>3 DEF ShapeOk, Shapes

\* The NALs of a frame never change once it was taken.
LEMMA ShapesGrow ==
    ASSUME TransportInv, [TransportNext]_transportVars
    PROVE  Extended(Shapes', Shapes) /\ tcp' = tcp
<1>1. ASSUME sent \subseteq sent', \A f \in sent : kind'[f] = kind[f]
      PROVE  Extended(Shapes', Shapes)
  <2>1. \A f \in sent : Shapes[f] = Nals(f) /\ Shapes'[f] = Nals(f)' /\ Nals(f)' = Nals(f)
    BY <1>1 DEF Shapes, Nals
  <2> QED BY <1>1, <2>1 DEF Extended, Shapes
<1>2. CASE UNCHANGED <<kind, sent, tcp>>
  BY <1>1, <1>2
<1>3. CASE TakeFrame
  BY <1>1, <1>3 DEF TakeFrame, encode, link
<1>4. CASE FrameEncoded
  <2>1. PICK f \in FrameIndex, k \in BOOLEAN : encoding = <<[f |-> f, key |-> k]>>
    BY <1>4 DEF FrameEncoded, TransportInv, ServerInv, ServerType
  <2>2. Head(encoding).f = f /\ Current = f
    BY <2>1 DEF Current
  <2>3. kind[f] = "none" /\ kind \in [FrameIndex -> Kinds]
    <3>1. kind[f] # "none" => f < f
      BY <2>1, <2>2 DEF TransportInv, ServerInv, Ages
    <3> QED BY <3>1, FrameFacts DEF TransportInv, ServerInv, ServerType
  <2>4. f \notin sent
    BY <2>3 DEF TransportInv, ServerInv, Queued, Finished
  <2>5. \A g \in FrameIndex : g # f => kind'[g] = kind[g]
    BY <1>4, <2>2, <2>3 DEF FrameEncoded
  <2>6. sent' = sent /\ tcp' = tcp
    BY <1>4 DEF FrameEncoded, link
  <2>7. \A g \in sent : kind'[g] = kind[g]
    BY <2>4, <2>5 DEF TransportInv, ServerInv, ServerType
  <2> QED BY <1>1, <2>6, <2>7
<1> QED BY <1>2, <1>3, <1>4 DEF TransportNext, SendFrame, EncodeFrame, SendThread, SendDatagram,
      SendTcpRecord, SendNothing, TcpSendFails, Lose, ControlThread, HandleKeyframeRequest,
      HandleNackRequest, Retransmit, ClientReceive, ReceiveThread, ReceiveTcpThread, RenderFrame,
      RunFrameEnd, RequestKeyframe, ThrottleEnds, transportVars, encode, send, link

\* A packet of a NAL that was sent stays one.
LEMMA OfStays ==
    ASSUME NEW M, NEW N, Extended(M, N), NEW d
    PROVE  /\ Of(N, d) => Of(M, d)
           /\ (IsPose(N, d) => IsPose(M, d)) /\ (IsData(N, d) => IsData(M, d))
           /\ IsParity(N, d) => IsParity(M, d)
           /\ (IsRecord(N, d) => IsRecord(M, d)) /\ (IsTorn(N, d) => IsTorn(M, d))
           /\ \A t : Sound(N, t, d) => Sound(M, t, d)
           /\ (FromSlice(N, d) => FromSlice(M, d)) /\ (Whole(N, d) => Whole(M, d))
<1>1. Of(N, d) => Of(M, d)
  BY DEF Extended, Of
<1>2. FromSlice(N, d) => FromSlice(M, d)
  BY DEF Extended, FromSlice
<1>3. Whole(N, d) => Whole(M, d)
  BY DEF Extended, Whole
<1>4. /\ (IsPose(N, d) => IsPose(M, d)) /\ (IsData(N, d) => IsData(M, d))
      /\ IsParity(N, d) => IsParity(M, d)
      /\ (IsRecord(N, d) => IsRecord(M, d)) /\ (IsTorn(N, d) => IsTorn(M, d))
  BY <1>1 DEF Extended, IsPose, IsData, IsParity, IsRecord, IsTorn
<1>5. \A t : Sound(N, t, d) => Sound(M, t, d)
  BY <1>4 DEF Sound
<1> QED BY <1>1, <1>2, <1>3, <1>4, <1>5

\* Recovery keeps a slice a slice: the parity that fills a slot is of the pending frame, and of
\* its slice, for a parameter set has one packet only.
LEMMA RecoveredSlice ==
    ASSUME NEW N, ShapeOk(N), NEW p \in Partials, p.total > 0, FromSlice(N, p)
    PROVE  FromSlice(N, TryFecRecovery(p))
<1> DEFINE q == TryFecRecovery(p)
           n == Len(N[p.f])
<1>1. /\ q.f = p.f /\ q.total = p.total /\ q.fec = p.fec
      /\ \A i \in 1..p.total :
           LET g == GroupOf(i)
               others == GroupRange(g, p.total) \ {i}
           IN q.slot[i] =
                IF p.slot[i] = Missing /\ p.fec[g] # Missing /\ others \subseteq Received(p)
                  THEN Decode(p, g, others) ELSE p.slot[i]
  BY Recovered
<1>2. /\ p.total \in Nat /\ DOMAIN p.slot = 1..p.total
      /\ \A i \in 1..p.total : p.slot[i] \in {Missing, n}
      /\ \A g \in 1..GroupCount(p.total) : p.fec[g] \in {Missing, n}
  BY DEF Partials, FromSlice
<1>3. \A i \in 1..p.total : q.slot[i] \in {Missing, n}
  <2> TAKE i \in 1..p.total
  <2> DEFINE g == GroupOf(i)
             others == GroupRange(g, p.total) \ {i}
  <2>1. g \in 1..GroupCount(p.total)
    BY <1>2, GroupOfPacket
  <2>2. CASE p.slot[i] = Missing /\ p.fec[g] # Missing /\ others \subseteq Received(p)
    <3>1. p.fec[g] = n
      BY <2>1, <2>2, <1>2
    <3>2. \A o \in others : p.slot[o] = n
      BY <2>2, <1>2 DEF Received
    <3>3. Decode(p, g, others) = n
      BY <3>1, <3>2 DEF Decode
    <3> QED BY <1>1, <2>2, <3>3
  <2>3. CASE ~(p.slot[i] = Missing /\ p.fec[g] # Missing /\ others \subseteq Received(p))
    <3>1. q.slot[i] = p.slot[i]
      BY <1>1, <2>3
    <3> QED BY <3>1, <1>2
  <2> QED BY <2>2, <2>3
<1> HIDE DEF q
<1>4. FromSlice(N, q)
  BY <1>1, <1>2, <1>3 DEF FromSlice
<1> QED BY <1>4 DEF q

\* A slice without a missing packet is the NAL that was sent.
LEMMA CompleteWhole ==
    ASSUME NEW N, ShapeOk(N), NEW p \in Partials, FromSlice(N, p), Complete(p)
    PROVE  Whole(N, [f |-> p.f, got |-> p.slot])
<1>1. /\ p.slot \in Seq(Int) /\ Len(p.slot) = p.total /\ DOMAIN p.slot = 1..p.total
  BY DEF Partials
<1>2. \A i \in 1..p.total : p.slot[i] = Len(N[p.f])
  BY <1>1 DEF Complete, Received, FromSlice
<1>3. p.f \in DOMAIN N /\ p.total = N[p.f][Len(N[p.f])] /\ Len(N[p.f]) \in 1..Len(N[p.f])
  <2>1. p.f \in DOMAIN N /\ p.total = N[p.f][Len(N[p.f])]
    BY DEF FromSlice
  <2>2. Len(N[p.f]) \in {1, 2}
    BY <2>1 DEF ShapeOk
  <2>3. \A n \in {1, 2} : n \in 1..n
    OBVIOUS
  <2> QED BY <2>1, <2>2, <2>3
<1>4. p.slot = [i \in 1..p.total |-> Len(N[p.f])]
  <2>1. p.slot = [i \in 1..p.total |-> p.slot[i]]
    BY <1>1
  <2> QED BY <2>1, <1>2
<1> QED BY <1>3, <1>4 DEF Whole

\* The order of parameter sets and slices along the stream: without its first packet, ...
LEMMA EarlyTail ==
    ASSUME NEW s \in Seq(Packet), s # <<>>, Early(s)
    PROVE  /\ Early(Tail(s)) /\ Params(Tail(s)) \subseteq Params(s)
           /\ s[1].total > 1 => s[1].f \notin Params(Tail(s))
<1>1. /\ Tail(s) \in Seq(Packet) /\ Len(Tail(s)) = Len(s) - 1 /\ Len(s) \in Nat /\ Len(s) > 0
      /\ \A i \in 1..Len(s) - 1 : Tail(s)[i] = s[i + 1] /\ i + 1 \in 1..Len(s)
  OBVIOUS
<1> DEFINE t == Tail(s)
<1> HIDE DEF t
<1>2. Early(t)
  <2> SUFFICES ASSUME NEW j \in 1..Len(t), NEW i \in 1..j - 1, t[j].total = 1, t[i].f = t[j].f
               PROVE  t[i].total <= 1
    BY DEF Early
  <2>1. /\ j + 1 \in 1..Len(s) /\ i + 1 \in 1..(j + 1) - 1 /\ t[j] = s[j + 1] /\ t[i] = s[i + 1]
    BY <1>1 DEF t
  <2> QED BY <2>1 DEF Early
<1>3. Params(t) \subseteq Params(s)
  BY <1>1 DEF Params, t
<1>4. ASSUME s[1].total > 1, s[1].f \in Params(t) PROVE FALSE
  <2>1. PICK j \in 1..Len(t) : t[j].total = 1 /\ t[j].f = s[1].f
    BY <1>4 DEF Params
  <2>2. j + 1 \in 1..Len(s) /\ 1 \in 1..(j + 1) - 1 /\ s[j + 1] = t[j]
    BY <1>1 DEF t
  <2>3. s[1].total <= 1 /\ s[1] \in Packet
    BY <2>1, <2>2 DEF Early
  <2> QED BY <2>3, <1>4 DEF Packet
<1> QED BY <1>2, <1>3, <1>4 DEF t

\* ... with the packets of a new frame behind it, ...
LEMMA EarlyConcat ==
    ASSUME NEW s \in Seq(Packet), NEW t \in Seq(Packet), Early(s), Early(t),
           \A i \in 1..Len(s), j \in 1..Len(t) : s[i].f # t[j].f
    PROVE  Early(s \o t) /\ \A f \in Params(s \o t) : f \in Params(s) \/ f \in Params(t)
<1> DEFINE u == s \o t
<1>1. /\ Len(s) \in Nat /\ Len(t) \in Nat /\ Len(u) = Len(s) + Len(t)
      /\ \A i \in 1..Len(s) : u[i] = s[i]
      /\ \A i \in Len(s) + 1..Len(s) + Len(t) : u[i] = t[i - Len(s)] /\ i - Len(s) \in 1..Len(t)
  BY ConcatProperties
<1> HIDE DEF u
<1>2. Early(u)
  <2> SUFFICES ASSUME NEW j \in 1..Len(u), NEW i \in 1..j - 1, u[j].total = 1, u[i].f = u[j].f
               PROVE  u[i].total <= 1
    BY DEF Early
  <2>1. CASE j \in 1..Len(s)
    <3>1. i \in 1..Len(s)
      BY <1>1, <2>1
    <3> QED BY <1>1, <2>1, <3>1 DEF Early
  <2>2. CASE j \in Len(s) + 1..Len(s) + Len(t)
    <3>1. CASE i \in 1..Len(s)
      BY <1>1, <2>2, <3>1
    <3>2. CASE i \in Len(s) + 1..Len(s) + Len(t)
      <4>1. i - Len(s) \in 1..(j - Len(s)) - 1 /\ j - Len(s) \in 1..Len(t)
        BY <1>1, <2>2, <3>2
      <4>2. u[i] = t[i - Len(s)] /\ u[j] = t[j - Len(s)]
        BY <1>1, <2>2, <3>2
      <4> QED BY <4>1, <4>2 DEF Early
    <3> QED BY <1>1, <2>2, <3>1, <3>2
  <2> QED BY <1>1, <2>1, <2>2
<1>3. \A f \in Params(u) : f \in Params(s) \/ f \in Params(t)
  <2> TAKE f \in Params(u)
  <2>1. PICK j \in 1..Len(u) : u[j].total = 1 /\ u[j].f = f
    BY DEF Params
  <2>2. CASE j \in 1..Len(s)
    BY <1>1, <2>1, <2>2 DEF Params
  <2>3. CASE j \in Len(s) + 1..Len(s) + Len(t)
    BY <1>1, <2>1, <2>3 DEF Params
  <2> QED BY <1>1, <2>2, <2>3
<1> QED BY <1>2, <1>3 DEF u

\* A packet of a slice put in between.
LEMMA EarlyInsert ==
    ASSUME NEW s \in Seq(Packet), NEW t \in Seq(Packet), NEW x \in Packet, x.total > 1,
           Early(s \o t), x.f \notin Params(s \o t)
    PROVE  Early((s \o <<x>>) \o t) /\ Params((s \o <<x>>) \o t) \subseteq Params(s \o t)
<1> DEFINE u == s \o t
           v == (s \o <<x>>) \o t
           Old(i) == IF i <= Len(s) THEN i ELSE i - 1
<1>1. /\ Len(s) \in Nat /\ Len(t) \in Nat /\ Len(u) = Len(s) + Len(t)
      /\ \A i \in 1..Len(s) : u[i] = s[i]
      /\ \A i \in Len(s) + 1..Len(s) + Len(t) : u[i] = t[i - Len(s)]
  BY ConcatProperties
<1>2. /\ s \o <<x>> \in Seq(Packet) /\ Len(s \o <<x>>) = Len(s) + 1
      /\ \A i \in 1..Len(s) : (s \o <<x>>)[i] = s[i]
      /\ (s \o <<x>>)[Len(s) + 1] = x
  <2>1. <<x>> \in Seq(Packet) /\ Len(<<x>>) = 1 /\ <<x>>[1] = x
    OBVIOUS
  <2> QED BY <2>1, <1>1, ConcatProperties
<1>3. /\ Len(v) = Len(s) + 1 + Len(t) /\ v[Len(s) + 1] = x
      /\ \A i \in 1..Len(s) : v[i] = u[i]
      /\ \A i \in Len(s) + 2..Len(s) + 1 + Len(t) : v[i] = u[i - 1]
  <2> DEFINE w == s \o <<x>>
  <2> HIDE DEF w, u
  <2>1. v = w \o t /\ w \in Seq(Packet) /\ Len(w) = Len(s) + 1 /\ \A i \in 1..Len(s) : w[i] = s[i]
        /\ w[Len(s) + 1] = x
    BY <1>2 DEF w
  <2>2. Len(v) = Len(s) + 1 + Len(t) /\ \A i \in 1..Len(w) : v[i] = w[i]
    BY <2>1, <1>1, ConcatProperties
  <2>3. \A i \in Len(w) + 1..Len(w) + Len(t) : v[i] = t[i - Len(w)]
    BY <2>1, <1>1, ConcatProperties
  <2>4. ASSUME NEW i \in Len(s) + 2..Len(s) + 1 + Len(t) PROVE v[i] = u[i - 1]
    <3>1. i \in Len(w) + 1..Len(w) + Len(t) /\ i - 1 \in Len(s) + 1..Len(s) + Len(t)
          /\ i - Len(w) = (i - 1) - Len(s)
      BY <1>1, <2>1
    <3>2. v[i] = t[(i - 1) - Len(s)]
      BY <3>1, <2>3
    <3> QED BY <3>1, <3>2, <1>1
  <2>5. \A i \in 1..Len(s) : v[i] = u[i] /\ i \in 1..Len(w)
    BY <2>1, <2>2, <1>1
  <2>6. Len(s) + 1 \in 1..Len(w)
    BY <2>1, <1>1
  <2>7. v[Len(s) + 1] = x
    BY <2>1, <2>2, <2>6
  <2> HIDE DEF v
  <2> QED BY <2>2, <2>4, <2>5, <2>7
<1> HIDE DEF u, v
<1>4. \A i \in 1..Len(v) : i # Len(s) + 1 => Old(i) \in 1..Len(u) /\ v[i] = u[Old(i)]
  <2> TAKE i \in 1..Len(v)
  <2>1. CASE i \in 1..Len(s)
    BY <1>1, <1>3, <2>1
  <2>2. CASE i \in Len(s) + 2..Len(s) + 1 + Len(t)
    BY <1>1, <1>3, <2>2
  <2>3. i \in 1..Len(s) \/ i = Len(s) + 1 \/ i \in Len(s) + 2..Len(s) + 1 + Len(t)
    <3>1. i \in 1..Len(s) + 1 + Len(t) /\ Len(s) \in Nat /\ Len(t) \in Nat
      BY <1>1, <1>3
    <3> QED BY <3>1
  <2> HIDE DEF Old
  <2> QED BY <2>1, <2>2, <2>3
<1>5. Params(v) \subseteq Params(u)
  <2> SUFFICES ASSUME NEW f \in Params(v) PROVE f \in Params(u)
    OBVIOUS
  <2>1. PICK j \in 1..Len(v) : v[j].total = 1 /\ v[j].f = f
    BY DEF Params
  <2>2. j # Len(s) + 1
    BY <2>1, <1>3 DEF Packet
  <2> HIDE DEF Old
  <2> QED BY <2>1, <2>2, <1>4 DEF Params
<1>6. Early(v)
  <2> SUFFICES ASSUME NEW j \in 1..Len(v), NEW i \in 1..j - 1, v[j].total = 1, v[i].f = v[j].f
               PROVE  v[i].total <= 1
    BY DEF Early
  <2>1. j # Len(s) + 1
    BY <1>3 DEF Packet
  <2>2. i \in 1..Len(v)
    BY <1>1, <1>3
  <2>3. Old(j) \in 1..Len(u) /\ v[j] = u[Old(j)]
    BY <2>1, <1>4
  <2>4. CASE i = Len(s) + 1
    <3>1. u[Old(j)].f = x.f /\ u[Old(j)].total = 1 /\ x.f \in FrameIndex
      BY <2>3, <2>4, <1>3 DEF Packet
    <3> HIDE DEF Old
    <3>2. x.f \in Params(u)
      BY <3>1, <2>3 DEF Params
    <3> QED BY <3>2 DEF u
  <2>5. CASE i # Len(s) + 1
    <3>1. Old(i) \in 1..Old(j) - 1 /\ v[i] = u[Old(i)]
      BY <1>1, <1>3, <2>1, <2>2, <2>5, <1>4
    <3> HIDE DEF Old
    <3> QED BY <2>3, <3>1 DEF Early, u
  <2> QED BY <2>4, <2>5
<1> QED BY <1>5, <1>6 DEF u, v

\* The stream through the steps that move packets.
LEMMA Moved ==
    ASSUME NEW s \in Seq(Packet), NEW t \in Seq(Packet)
    PROVE  /\ t # <<>> => Append(s, Head(t)) \o Tail(t) = s \o t
           /\ s # <<>> => /\ Tail(s) \o t = Tail(s \o t) /\ s \o t # <<>>
                          /\ (s \o t)[1] = Head(s) /\ Len(s \o t) > 0
           /\ s \o t \in Seq(Packet) /\ Len(s \o t) = Len(s) + Len(t)
           /\ s \o <<>> = s
<1>1. s \o t \in Seq(Packet) /\ Len(s \o t) = Len(s) + Len(t) /\ Len(s) \in Nat /\ Len(t) \in Nat
  BY ConcatProperties
<1>2. ASSUME t # <<>> PROVE Append(s, Head(t)) \o Tail(t) = s \o t
  <2>1. t = <<Head(t)>> \o Tail(t)
    BY <1>2
  <2>2. Append(s, Head(t)) = s \o <<Head(t)>>
    BY <1>2
  <2>3. <<Head(t)>> \in Seq(Packet) /\ Tail(t) \in Seq(Packet)
    BY <1>2
  <2>4. s \o (<<Head(t)>> \o Tail(t)) = (s \o <<Head(t)>>) \o Tail(t)
    BY <2>3, ConcatAssociative
  <2> QED BY <2>1, <2>2, <2>4
<1>3. ASSUME s # <<>>
      PROVE  /\ Tail(s) \o t = Tail(s \o t) /\ s \o t # <<>>
             /\ (s \o t)[1] = Head(s) /\ Len(s \o t) > 0
  BY <1>3
<1>4. s \o <<>> = s
  OBVIOUS
<1> QED BY <1>1, <1>2, <1>3, <1>4

\* What SendNalUnit makes of a NAL is of that NAL.
LEMMA NalSound ==
    ASSUME NEW N, NEW f \in DOMAIN N, f \in FrameIndex, NEW n \in 1..Len(N[f]),
         N[f][n] \in Nat \ {0},
           n \in Nat, NEW k \in 1..Len(NalDatagrams(f, n, N[f][n]))
    PROVE  LET d == NalDatagrams(f, n, N[f][n])[k]
           IN d.f = f /\ d.total = N[f][n] /\ (IsData(N, d) \/ IsParity(N, d))
<1> DEFINE t == N[f][n]
           s == NalDatagrams(f, n, t)
           d == s[k]
<1>1. /\ k \in 1..t + GroupCount(t) /\ d.f = f /\ d.n = n /\ d.total = t
      /\ \/ d.kind = "fec" /\ d.i \in 1..GroupCount(t)
         \/ d.kind = "data" /\ d.i \in 1..t
  <2> DEFINE g == (k - 1) \div (FecGroupSize + 1) + 1
  <2>1. t \in Nat \ {0}
    OBVIOUS
  <2>4. Len(s) = t + GroupCount(t)
    <3> HIDE DEF t
    <3> QED BY <2>1, NalPackets
  <2>2. k \in 1..t + GroupCount(t)
    BY <2>4
  <2> HIDE DEF t
  <2>3. /\ d.f = f /\ d.n = n /\ d.total = t
        /\ g \in 1..GroupCount(t)
        /\ IF k = g * (FecGroupSize + 1) \/ k = t + GroupCount(t)
             THEN d.kind = "fec" /\ d.i = g
             ELSE d.kind = "data" /\ d.i = k - g + 1 /\ d.i \in 1..t
    BY <2>1, <2>2, NalPackets
  <2> HIDE DEF s
  <2> QED BY <2>2, <2>3
<1> HIDE DEF s
<1>2. Of(N, d)
  BY <1>1 DEF Of
<1>3. d.f = f /\ d.total = N[f][n] /\ (IsData(N, d) \/ IsParity(N, d))
  BY <1>1, <1>2 DEF IsData, IsParity
<1> QED BY <1>3 DEF s

\* What a frame puts on the link.
LEMMA FrameContents ==
    ASSUME NEW f \in FrameIndex, NEW N, f \in DOMAIN N, N[f] = Nals(f)
    PROVE  LET s == FramePackets(f)
           IN /\ \A k \in 1..Len(s) : s[k].f = f /\ Sound(N, tcp, s[k]) /\ s[k].kind # "torn"
              /\ ~tcp => Early(s)
<1>0. /\ Nals(f) \in Seq(Nat \ {0}) /\ Len(Nals(f)) \in {1, 2}
      /\ DOMAIN Nals(f) = 1..Len(Nals(f))
      /\ Len(Nals(f)) = 2 <=> kind[f] = "key"
      /\ Nals(f)[Len(Nals(f))] > 1
      /\ \A n \in DOMAIN Nals(f) : Nals(f)[n] > 1 => n = Len(Nals(f))
  BY NalFacts
<1> DEFINE p == <<RenderPosePacket(f)>>
           a == NalDatagrams(f, 1, N[f][1])
           b == NalDatagrams(f, 2, N[f][2])
           r == [n \in DOMAIN Nals(f) |-> Datagram("nal", f, n, Nals(f)[n], 0)]
<1>1. p \in Seq(Packet) /\ Len(p) = 1 /\ p[1].f = f /\ p[1].total = 0 /\ p[1].kind = "pose"
  BY DEF RenderPosePacket, Datagram, Packet
<1>2. CASE tcp
  <2>1. FramePackets(f) = p \o r
    BY <1>2 DEF FramePackets
  <2>2. r \in Seq(Packet) /\ Len(r) = Len(Nals(f)) /\ \A n \in 1..Len(Nals(f)) :
            r[n] = Datagram("nal", f, n, Nals(f)[n], 0)
    <3>1. \A n \in 1..Len(Nals(f)) : Datagram("nal", f, n, Nals(f)[n], 0) \in Packet
      BY <1>0 DEF Datagram, Packet
    <3>2. r \in [1..Len(Nals(f)) -> Packet]
      BY <1>0, <3>1
    <3>3. \A n \in 1..Len(Nals(f)) : r[n] = Datagram("nal", f, n, Nals(f)[n], 0)
      BY <1>0
    <3> HIDE DEF r
    <3> QED BY <3>2, <3>3, <1>0, FunctionIsSeq
  <2>3. \A n \in 1..Len(r) : r[n].f = f /\ r[n].kind = "nal" /\ IsRecord(N, r[n])
    BY <2>2, <1>0 DEF Datagram, IsRecord, Of
  <2> HIDE DEF p, r
  <2>4. Len(p \o r) = 1 + Len(r) /\ (p \o r)[1] = p[1]
        /\ \A k \in 2..1 + Len(r) : (p \o r)[k] = r[k - 1] /\ k - 1 \in 1..Len(r)
    <3>1. p \in Seq(Packet) /\ Len(p) = 1 /\ r \in Seq(Packet)
      BY <1>1, <2>2
    <3> HIDE DEF p, r
    <3>2. /\ Len(p \o r) = Len(p) + Len(r)
          /\ \A k \in 1..Len(p) + Len(r) :
                 (p \o r)[k] = IF k <= Len(p) THEN p[k] ELSE r[k - Len(p)]
      BY <3>1, ConcatProperties
    <3>3. Len(r) \in Nat
      BY <3>1
    <3> QED BY <3>1, <3>2, <3>3
  <2> DEFINE s == p \o r
  <2> HIDE DEF s
  <2>5. \A k \in 1..Len(s) : s[k].f = f /\ Sound(N, tcp, s[k]) /\ s[k].kind # "torn"
    <3> TAKE k \in 1..Len(s)
    <3>1. CASE k = 1
      BY <3>1, <2>4, <1>1 DEF s, Sound, IsPose
    <3>2. CASE k \in 2..1 + Len(r)
      BY <3>2, <2>3, <2>4, <1>2 DEF s, Sound
    <3> QED BY <3>1, <3>2, <2>4, <2>2 DEF s
  <2> QED BY <2>1, <2>5, <1>2 DEF s
<1>3. CASE ~tcp
  <2>1. N[f][1] \in Nat \ {0} /\ 1 \in 1..Len(N[f])
    BY <1>0
  <2>2. /\ a \in Seq(Packet)
        /\ \A k \in 1..Len(a) : a[k].f = f /\ a[k].total = N[f][1]
                                /\ Sound(N, tcp, a[k]) /\ a[k].kind # "torn"
    <3>1. a \in Seq(Packet)
      BY <2>1, NalPackets
    <3>2. \A k \in 1..Len(a) : a[k].f = f /\ a[k].total = N[f][1] /\ (IsData(N,
         a[k]) \/ IsParity(N, a[k]))
      BY <2>1, NalSound
    <3> HIDE DEF a
    <3> QED BY <3>1, <3>2, <1>3 DEF Sound, IsData, IsParity
  <2>3. ASSUME NEW t \in Seq(Packet), Len(t) > 0, Early(t), 
               \A k \in 1..Len(t) : t[k].f = f /\ Sound(N, tcp, t[k]) /\ t[k].kind # "torn"
        PROVE  /\ Early(p \o t)
               /\ \A k \in 1..Len(p \o t) : 
                     (p \o t)[k].f = f /\ Sound(N, tcp, (p \o t)[k]) /\ (p \o t)[k].kind # "torn"
    <3> DEFINE s == p \o t
    <3>1. Len(s) = 1 + Len(t) /\ s[1] = p[1] /\ Len(t) \in Nat
          /\ \A k \in 2..1 + Len(t) : s[k] = t[k - 1] /\ k - 1 \in 1..Len(t)
      <4> HIDE DEF p
      <4>0. p \in Seq(Packet) /\ Len(p) \in Nat /\ Len(t) \in Nat
        BY <1>1
      <4>5. Len(s) = Len(p) + Len(t) /\ \A k \in 1..Len(p) + Len(t) :
                s[k] = IF k <= Len(p) THEN p[k] ELSE t[k - Len(p)]
        BY <4>0, ConcatProperties
      <4> HIDE DEF s
      <4>1. Len(s) = Len(p) + Len(t) /\ \A k \in 1..Len(p) : s[k] = p[k]
        BY <4>0, <4>5
      <4>2. \A k \in Len(p) + 1..Len(p) + Len(t) : s[k] = t[k - Len(p)]
        BY <4>0, <4>5
      <4> HIDE DEF s
      <4>3. Len(s) = 1 + Len(t) /\ s[1] = p[1] /\ Len(t) \in Nat
        BY <4>1, <1>1
      <4>4. ASSUME NEW k \in 2..1 + Len(t)
            PROVE  s[k] = t[k - 1] /\ k - 1 \in 1..Len(t)
        <5>1. k \in Len(p) + 1..Len(p) + Len(t) /\ k - 1 \in 1..Len(t)
          BY <1>1, <4>3
        <5>2. s[k] = t[k - Len(p)]
          BY <5>1, <4>2
        <5> QED BY <5>1, <5>2, <1>1
      <4> QED BY <4>3, <4>4
    <3> HIDE DEF s, p
    <3>2. \A k \in 1..Len(s) : s[k].f = f /\ Sound(N, tcp, s[k]) /\ s[k].kind # "torn"
      <4> TAKE k \in 1..Len(s)
      <4>1. CASE k = 1
        BY <4>1, <3>1, <1>1 DEF Sound, IsPose
      <4>2. CASE k \in 2..1 + Len(t)
        BY <4>2, <2>3, <3>1
      <4> QED BY <4>1, <4>2, <3>1
    <3>3. Early(s)
      <4> SUFFICES ASSUME NEW j \in 1..Len(s), NEW i \in 1..j - 1, s[j].total = 1, s[i].f = s[j].f
                   PROVE  s[i].total <= 1
        BY DEF Early
      <4>1. CASE i = 1
        BY <4>1, <3>1, <1>1
      <4>2. CASE i # 1
        <5>1. i \in 2..1 + Len(t) /\ j \in 2..1 + Len(t) /\ i - 1 \in 1..(j - 1) - 1
          BY <4>2, <3>1
        <5>2. s[i] = t[i - 1] /\ s[j] = t[j - 1] /\ j - 1 \in 1..Len(t)
          BY <5>1, <3>1
        <5> QED BY <5>1, <5>2, <2>3 DEF Early
      <4> QED BY <4>1, <4>2
    <3> QED BY <3>2, <3>3 DEF s
  <2>4. CASE kind[f] # "key"
    <3>1. FramePackets(f) = p \o a /\ N[f][1] > 1
      BY <2>4, <1>3, <1>0 DEF FramePackets
    <3>2. Len(a) > 0
      <4> DEFINE m == N[f][1]
      <4>1. m \in Nat \ {0}
        BY <2>1
      <4> HIDE DEF m
      <4>2. Len(NalDatagrams(f, 1, m)) = m + GroupCount(m) /\ GroupCount(m) \in Nat
        BY <4>1, NalPackets, GroupFacts
      <4>3. Len(NalDatagrams(f, 1, m)) > 0
        BY <4>1, <4>2
      <4> QED BY <4>3 DEF m
    <3> HIDE DEF a, p
    <3>3. Early(a)
      <4>1. \A j \in 1..Len(a) : a[j].total # 1
        BY <2>2, <3>1
      <4> QED BY <4>1 DEF Early
    <3> QED BY <3>1, <3>2, <3>3, <2>2, <2>3
  <2>5. CASE kind[f] = "key"
    <3>1. FramePackets(f) = p \o (a \o b) /\ N[f][2] > 1 /\ ~(N[f][1] > 1) /\ 2 \in 1..Len(N[f])
          /\ N[f][2] \in Nat \ {0}
      BY <2>5, <1>3, <1>0 DEF FramePackets
    <3>2. /\ b \in Seq(Packet)
          /\ \A k \in 1..Len(b) : b[k].f = f /\ b[k].total = N[f][2]
                                  /\ Sound(N, tcp, b[k]) /\ b[k].kind # "torn"
      <4>1. b \in Seq(Packet)
        BY <3>1, NalPackets
      <4>2. \A k \in 1..Len(b) : b[k].f = f /\ b[k].total = N[f][2] /\ (IsData(N,
           b[k]) \/ IsParity(N, b[k]))
        BY <3>1, NalSound
      <4> HIDE DEF b
      <4> QED BY <4>1, <4>2, <1>3 DEF Sound, IsData, IsParity
    <3>3. Len(a) > 0
      <4> DEFINE m == N[f][1]
      <4>1. m \in Nat \ {0}
        BY <2>1
      <4> HIDE DEF m
      <4>2. Len(NalDatagrams(f, 1, m)) = m + GroupCount(m) /\ GroupCount(m) \in Nat
        BY <4>1, NalPackets, GroupFacts
      <4>3. Len(NalDatagrams(f, 1, m)) > 0
        BY <4>1, <4>2
      <4> QED BY <4>3 DEF m
    <3> DEFINE t == a \o b
    <3> HIDE DEF a, b, p
    <3>4. /\ t \in Seq(Packet) /\ Len(t) = Len(a) + Len(b) /\ Len(a) \in Nat /\ Len(b) \in Nat
          /\ \A k \in 1..Len(a) : t[k] = a[k]
          /\ \A k \in Len(a) + 1..Len(a) + Len(b) : t[k] = b[k - Len(a)] /\ k - Len(a) \in 1..Len(b)
      BY <2>2, <3>2, ConcatProperties
    <3> HIDE DEF t
    <3>5. Early(t)
      <4> SUFFICES ASSUME NEW j \in 1..Len(t), NEW i \in 1..j - 1, t[j].total = 1
                   PROVE  t[i].total <= 1
        BY DEF Early
      <4>1. j \in 1..Len(a)
        <5>1. CASE j \in Len(a) + 1..Len(a) + Len(b)
          <6>1. t[j].total = N[f][2]
            BY <5>1, <3>4, <3>2
          <6> QED BY <6>1, <3>1
        <5> QED BY <5>1, <3>4
      <4>2. i \in 1..Len(a) /\ t[i].total = N[f][1]
        BY <4>1, <3>4, <2>2
      <4> QED BY <4>2, <3>1, <2>1
    <3>6. \A k \in 1..Len(t) : t[k].f = f /\ Sound(N, tcp, t[k]) /\ t[k].kind # "torn"
      <4> TAKE k \in 1..Len(t)
      <4>1. CASE k \in 1..Len(a)
        BY <4>1, <3>4, <2>2
      <4>2. CASE k \in Len(a) + 1..Len(a) + Len(b)
        BY <4>2, <3>4, <3>2
      <4> QED BY <4>1, <4>2, <3>4
    <3>7. FramePackets(f) = p \o t /\ Len(t) > 0
      BY <3>1, <3>3, <3>4 DEF t
    <3> QED BY <3>4, <3>5, <3>6, <3>7, <2>3
  <2> QED BY <2>4, <2>5
<1> QED BY <1>2, <1>3

ContentRest == <<net, sending, resend, accepting, cache, control, pendingNal, delivered>>

\* A step may take frames, and what is on its way stays what it was.
Grown == Extended(Shapes', Shapes) /\ tcp' = tcp

LEMMA PendingKept == ASSUME Reassembling, Grown, pendingNal' = pendingNal PROVE Reassembling'
BY OfStays DEF Reassembling, Grown

LEMMA WholeKept == ASSUME AllWhole, Grown, delivered' = delivered PROVE AllWhole'
BY OfStays DEF AllWhole, Grown

LEMMA CachedKept == ASSUME Cached, Grown, cache' = cache PROVE Cached'
BY OfStays DEF Cached, Grown

LEMMA AskedKept == ASSUME Asked, Grown, control' = control PROVE Asked'
BY DEF Asked, Grown, Extended

LEMMA ResendKept ==
    ASSUME OnLink, Grown, resend' = resend
    PROVE  \A i \in 1..Len(resend') : ~tcp' /\ IsData(Shapes', resend'[i]) /\ resend'[i].total > 1
BY OfStays DEF OnLink, Grown

LEMMA NetKept ==
    ASSUME OnLink, Grown
    PROVE  /\ \A i \in 1..Len(net) : Sound(Shapes', tcp', net[i])
           /\ \A i \in 1..Len(sending) : Sound(Shapes', tcp',
                sending[i]) /\ sending[i].kind # "torn"
BY OfStays DEF OnLink, Grown

LEMMA UntouchedKept ==
    ASSUME NEW f, Untouched(f), UNCHANGED <<pendingNal, control, resend>>
    PROVE  Untouched(f)'
BY DEF Untouched

LEMMA ContentFrame ==
    ASSUME Content, Grown, UNCHANGED ContentRest
    PROVE  Content'
<1>1. UNCHANGED <<net, sending, resend, accepting, cache, control, pendingNal, delivered>>
  BY DEF ContentRest
<1>2. OnLink'
  BY <1>1, NetKept, ResendKept DEF Content, OnLink
<1>3. ParamFirst'
  BY <1>1 DEF Content, Grown, ParamFirst, Stream, Untouched
<1>4. TornLast'
  BY <1>1 DEF Content, TornLast
<1> QED BY <1>1, <1>2, <1>3, <1>4, PendingKept, WholeKept, CachedKept, AskedKept DEF Content

\* A frame is taken: its packets are its own, and its parameter set goes first.
LEMMA TakeContent ==
    ASSUME TransportInv, Content, Grown, TakeFrame
    PROVE  Content'
<1>1. UNCHANGED <<net, resend, accepting, cache, control, pendingNal,
                  delivered>> /\ sending = <<>>
  BY DEF TakeFrame, link, nack, receive
<1>2. CASE sending' = sending
  BY <1>1, <1>2, ContentFrame DEF ContentRest
<1>3. CASE sending' # sending
  <2> DEFINE f == Head(sendQueue)
             s == FramePackets(f)
  <2>1. f \in FrameIndex /\ sent' = sent \cup {f} /\ sending' = s /\ f \notin sent /\ kind' = kind
    <3>1. sendQueue \in Seq(FrameIndex) /\ sendQueue # <<>> /\ f = sendQueue[1] /\ 1 \in 1..Len(sendQueue)
      BY DEF TakeFrame, TransportInv, ServerInv, ServerType
    <3>2. f \notin sent /\ f \in FrameIndex
      BY <3>1 DEF TransportInv, ServerInv, Queued
    <3> QED BY <3>2, <1>3 DEF TakeFrame, encode
  <2>2. f \in DOMAIN Shapes' /\ Shapes'[f] = Nals(f)
    BY <2>1 DEF Shapes, Nals
  <2>3. /\ \A k \in 1..Len(s) : s[k].f = f /\ Sound(Shapes', tcp, s[k]) /\ s[k].kind # "torn"
        /\ ~tcp => Early(s)
    BY <2>1, <2>2, FrameContents
  <2>4. s \in Seq(Packet) /\ net \in Seq(Packet)
    BY <2>1, FrameTyped DEF TransportInv, LinkType
  <2> HIDE DEF s, f
  <2>5. OnLink'
    BY <1>1, <2>1, <2>3, NetKept, ResendKept DEF Content, OnLink, Grown
  <2>6. ParamFirst'
    <3> SUFFICES ASSUME ~tcp PROVE Early(Stream') /\ \A g \in Params(Stream') : Untouched(g)'
      BY DEF ParamFirst, Grown
    <3>1. Stream = net /\ Stream' = net \o s
      BY <1>1, <2>1, <2>4, Moved DEF Stream
    <3>2. Early(net) /\ \A g \in Params(net) : Untouched(g)
      BY <3>1 DEF Content, ParamFirst
    <3>3. \A i \in 1..Len(net) : net[i].f \in sent
      BY DEF Content, OnLink, Sound, IsPose, IsData, IsParity, IsRecord, IsTorn, Of, Shapes
    <3>4. Early(net \o s) /\ \A g \in Params(net \o s) : g \in Params(net) \/ g \in Params(s)
      <4>1. net \in Seq(Packet) /\ s \in Seq(Packet) /\ Early(net) /\ Early(s)
        BY <2>3, <2>4, <3>2
      <4>2. \A i \in 1..Len(net), j \in 1..Len(s) : net[i].f # s[j].f
        BY <2>1, <2>3, <2>4, <3>3
      <4> QED BY <4>1, <4>2, EarlyConcat
    <3>5. \A g \in Params(s) : g = f
      BY <2>3 DEF Params
    <3>6. Untouched(f)
      BY <2>1 DEF Content, Reassembling, FromSlice, Asked, OnLink, IsData, Of, Untouched, Shapes
    <3>7. \A g : Untouched(g) => Untouched(g)'
      BY <1>1 DEF Untouched
    <3> QED BY <3>1, <3>2, <3>4, <3>5, <3>6, <3>7
  <2>7. TornLast'
    BY <1>1 DEF Content, TornLast
  <2> QED BY <1>1, <2>5, <2>6, <2>7, PendingKept, WholeKept, CachedKept, AskedKept DEF Content
<1> QED BY <1>2, <1>3

\* What is cached is a NAL of the frame that was taken.
LEMMA CacheContent ==
    ASSUME TransportInv, Cached, Grown, NEW d \in Packet, CachePacket(d),
           ~tcp, Sound(Shapes, tcp, d)
    PROVE  Cached'
<1>1. cache \in [1..CacheSize -> Entry]
  BY DEF TransportInv, LinkType
<1>2. ASSUME NEW c \in 1..CacheSize, cache'[c].f # None PROVE Of(Shapes, cache'[c])
  <2>0. cache[c].f # None => Of(Shapes, cache[c])
    BY DEF Cached
  <2>1. CASE cache'[c].f = cache[c].f /\ cache'[c].n = cache[c].n /\ cache'[c].total = cache[c].total
    BY <2>0, <2>1, <1>2 DEF Of
  <2>2. CASE cache'[c].f = d.f /\ cache'[c].n = d.n /\ cache'[c].total = d.total /\ d.kind = "data"
    BY <2>2 DEF Sound, IsPose, IsData, IsParity, Of
  <2>3. CASE d.kind = "data" /\ d.i = 1
    <3>1. cache' = [cache EXCEPT ![cacheWrite'] =
                [f |-> d.f, total |-> d.total, n |-> d.n, have |-> {1}, complete |-> FALSE]]
      BY <2>3 DEF CachePacket
    <3>2. CASE c = cacheWrite'
      BY <3>1, <3>2, <2>2, <2>3, <1>1
    <3>3. CASE c # cacheWrite'
      BY <3>1, <3>3, <2>1, <1>1
    <3> QED BY <3>2, <3>3
  <2>4. CASE d.kind = "data" /\ d.i > 1
    <3>1. cache' = [cache EXCEPT ![cacheWrite].have = @ \cup {d.i}]
      BY <2>4 DEF CachePacket, Packet
    <3>2. CASE c = cacheWrite
      <4>1. cache'[c] = [cache[c] EXCEPT !.have = cache[c].have \cup {d.i}] /\ cache[c] \in Entry
        BY <3>1, <3>2, <1>1
      <4> QED BY <4>1, <2>1 DEF Entry
    <3>3. CASE c # cacheWrite
      BY <3>1, <3>3, <2>1, <1>1
    <3> QED BY <3>2, <3>3
  <2>5. CASE d.kind = "fec" /\ d.i = GroupCount(d.total)
    <3>1. cache' = [cache EXCEPT ![cacheWrite].complete = TRUE]
      BY <2>5 DEF CachePacket
    <3>2. CASE c = cacheWrite
      <4>1. cache'[c] = [cache[c] EXCEPT !.complete = TRUE] /\ cache[c] \in Entry
        BY <3>1, <3>2, <1>1
      <4> QED BY <4>1, <2>1 DEF Entry
    <3>3. CASE c # cacheWrite
      BY <3>1, <3>3, <2>1, <1>1
    <3> QED BY <3>2, <3>3
  <2>6. CASE ~(d.kind = "data" /\ d.i = 1) /\ ~(d.kind = "data" /\ d.i > 1)
             /\ ~(d.kind = "fec" /\ d.i = GroupCount(d.total))
    <3>1. cache' = cache
      BY <2>6 DEF CachePacket
    <3> QED BY <3>1, <2>1
  <2> QED BY <2>3, <2>4, <2>5, <2>6
<1> QED BY <1>2, OfStays DEF Cached, Grown

\* The first packet goes from the sender to the link.
LEMMA PassedOn ==
    ASSUME TransportInv, OnLink, Grown, sending # <<>>, sending' = Tail(sending),
         NEW x \in Packet,
           net' = Append(net, x), Sound(Shapes, tcp, x)
    PROVE  /\ \A i \in 1..Len(net') : Sound(Shapes', tcp', net'[i])
           /\ \A i \in 1..Len(sending') : Sound(Shapes', tcp',
                sending'[i]) /\ sending'[i].kind # "torn"
           /\ Len(net') = Len(net) + 1 /\ net'[Len(net')] = x
           /\ \A i \in 1..Len(net') : i # Len(net') => i \in 1..Len(net) /\ net'[i] = net[i]
<1>1. net \in Seq(Packet) /\ sending \in Seq(Packet) /\ Len(net) \in Nat /\ Len(sending) \in Nat
  BY DEF TransportInv, LinkType
<1>2. Len(net') = Len(net) + 1 /\ net'[Len(net) + 1] = x /\ \A i \in 1..Len(net) : net'[i] = net[i]
  BY <1>1, AppendProperties
<1>3. Len(sending') = Len(sending) - 1 /\ \A i \in 1..Len(sending) - 1 :
          sending'[i] = sending[i + 1] /\ i + 1 \in 1..Len(sending)
  BY <1>1
<1>4. Sound(Shapes', tcp', x)
  BY OfStays DEF Grown
<1>5. /\ \A i \in 1..Len(net) : Sound(Shapes', tcp', net[i])
      /\ \A i \in 1..Len(sending) : Sound(Shapes', tcp', sending[i]) /\ sending[i].kind # "torn"
  BY NetKept
<1>6. \A i \in 1..Len(net') : i # Len(net') => i \in 1..Len(net) /\ net'[i] = net[i]
  BY <1>1, <1>2
<1>7. \A i \in 1..Len(net') : Sound(Shapes', tcp', net'[i])
  BY <1>2, <1>4, <1>5, <1>6
<1>8. \A i \in 1..Len(sending') : Sound(Shapes', tcp', sending'[i]) /\ sending'[i].kind # "torn"
  BY <1>3, <1>5
<1> QED BY <1>2, <1>6, <1>7, <1>8

\* A packet of the frame goes to the link, over TCP perhaps cut short.
LEMMA SendContent ==
    ASSUME TransportInv, Content, Grown, SendDatagram \/ SendTcpRecord \/ TcpSendFails
    PROVE  Content'
<1>1. /\ UNCHANGED <<control, pendingNal, delivered, resend>>
      /\ sending # <<>> /\ sending' = Tail(sending)
  BY DEF SendDatagram, SendTcpRecord, TcpSendFails, receive, nack
<1>2. /\ net \in Seq(Packet) /\ sending \in Seq(Packet) /\ Len(net) \in Nat /\ Head(sending) \in Packet
      /\ Head(sending) = sending[1] /\ 1 \in 1..Len(sending)
  BY <1>1 DEF TransportInv, LinkType
<1>3. Sound(Shapes, tcp, Head(sending)) /\ Head(sending).kind # "torn"
  BY <1>2 DEF Content, OnLink
<1>4. tcp => ParamFirst'
  BY DEF Grown, ParamFirst
<1>5. Asked' /\ Reassembling' /\ AllWhole'
  BY <1>1, AskedKept, PendingKept, WholeKept DEF Content
<1>6. CASE SendDatagram \/ SendTcpRecord
  <2>1. net' = Append(net, Head(sending)) /\ accepting /\ accepting' = accepting
    BY <1>6 DEF SendDatagram, SendTcpRecord, TransportInv, ServerInv
  <2>2. OnLink'
    BY <1>1, <1>2, <1>3, <2>1, PassedOn, ResendKept DEF Content, OnLink
  <2>3. TornLast'
    BY <1>1, <1>2, <1>3, <2>1, PassedOn DEF Content, TornLast
  <2>4. Cached'
    BY <1>6, <1>2, <1>3, CacheContent, CachedKept DEF SendDatagram, SendTcpRecord, nack, Content
  <2>5. ParamFirst'
    <3>1. Stream' = Stream
      BY <1>1, <1>2, <2>1, Moved DEF Stream
    <3>2. \A f : Untouched(f) => Untouched(f)'
      BY <1>1 DEF Untouched
    <3> QED BY <3>1, <3>2 DEF Content, ParamFirst, Grown
  <2> QED BY <1>5, <2>2, <2>3, <2>4, <2>5 DEF Content
<1>7. CASE TcpSendFails
  <2> DEFINE x == [Head(sending) EXCEPT !.kind = "torn"]
  <2>1. /\ net' = Append(net, x) /\ accepting /\ accepting' = FALSE /\ tcp /\ cache' = cache
    BY <1>7 DEF TcpSendFails, MarkTcpVideoSendFailed, nack
  <2>2. x \in Packet /\ Sound(Shapes, tcp, x) /\ x.kind = "torn"
    BY <1>2, <1>3, <2>1 DEF Sound, IsTorn, IsPose, IsRecord, Of, Packet
  <2> HIDE DEF x
  <2>3. OnLink'
    BY <1>1, <2>1, <2>2, PassedOn, ResendKept DEF Content, OnLink
  <2>4. TornLast'
    BY <1>1, <1>2, <2>1, <2>2, PassedOn DEF Content, TornLast
  <2> QED BY <1>4, <1>5, <2>1, <2>3, <2>4, CachedKept DEF Content
<1> QED BY <1>6, <1>7

\* A link that broke: the rest of the frame is thrown away.
LEMMA NothingContent ==
    ASSUME TransportInv, Content, Grown, SendNothing
    PROVE  Content'
<1>1. /\ UNCHANGED <<net, accepting, control, cache, pendingNal, delivered, resend>> /\ tcp
      /\ sending # <<>> /\ sending' = Tail(sending)
  BY DEF SendNothing, link, receive, nack, TransportInv, ServerInv
<1>2. sending \in Seq(Packet)
  BY DEF TransportInv, LinkType
<1>3. Len(sending') = Len(sending) - 1 /\ \A i \in 1..Len(sending) - 1 :
          sending'[i] = sending[i + 1] /\ i + 1 \in 1..Len(sending)
  BY <1>1, <1>2
<1>4. OnLink'
  BY <1>1, <1>3, NetKept, ResendKept DEF Content, OnLink
<1>5. TornLast'
  BY <1>1 DEF Content, TornLast
<1>6. ParamFirst'
  BY <1>1 DEF ParamFirst, Grown
<1> QED BY <1>1, <1>4, <1>5, <1>6, PendingKept, WholeKept, CachedKept, AskedKept DEF Content

\* The first datagram leaves the link.
LEMMA LeftLink ==
    ASSUME TransportInv, Content, Grown, net # <<>>, net' = Tail(net),
           UNCHANGED <<sending, resend, accepting, cache>>
    PROVE  OnLink' /\ TornLast' /\ Cached' /\ Stream' = Tail(Stream)
<1>1. net \in Seq(Packet) /\ sending \in Seq(Packet) /\ Len(net) \in Nat
  BY DEF TransportInv, LinkType
<1>2. Len(net') = Len(net) - 1 /\ \A i \in 1..Len(net) - 1 : net'[i] = net[i + 1] /\ i + 1 \in 1..Len(net)
  BY <1>1
<1>3. OnLink'
  BY <1>2, NetKept, ResendKept DEF Content, OnLink
<1>4. TornLast'
  <2> SUFFICES ASSUME NEW i \in 1..Len(net'), net'[i].kind = "torn"
               PROVE  i = Len(net') /\ ~accepting'
    BY DEF TornLast
  <2>1. i \in 1..Len(net) - 1 /\ i + 1 \in 1..Len(net) /\ net[i + 1].kind = "torn"
    BY <1>1, <1>2
  <2>2. i + 1 = Len(net) /\ ~accepting
    BY <2>1 DEF Content, TornLast
  <2>3. i = Len(net')
    <3>1. \A a, b \in Int : a + 1 = b => a = b - 1
      OBVIOUS
    <3>2. i \in Int /\ Len(net) \in Int /\ i + 1 = Len(net)
      BY <1>1, <2>1, <2>2
    <3>3. i = Len(net) - 1
      BY <3>1, <3>2
    <3> QED BY <3>3, <1>2
  <2>4. accepting' = accepting
    OBVIOUS
  <2> QED BY <2>2, <2>3, <2>4
<1>5. Stream' = Tail(Stream)
  BY <1>1, Moved DEF Stream
<1> QED BY <1>3, <1>4, <1>5, CachedKept DEF Content

\* A datagram is lost.
LEMMA LoseContent ==
    ASSUME TransportInv, Content, Grown, Lose
    PROVE  Content'
<1>1. /\ net # <<>> /\ net' = Tail(net) /\ ~tcp
      /\ UNCHANGED <<sending, resend, accepting, cache, control, pendingNal, delivered>>
  BY DEF Lose, send, nack, receive
<1>2. net \in Seq(Packet) /\ sending \in Seq(Packet)
  BY DEF TransportInv, LinkType
<1>3. ParamFirst'
  <2>1. Stream \in Seq(Packet) /\ Stream # <<>> /\ Stream' = Tail(Stream)
    BY <1>1, <1>2, Moved, LeftLink DEF Stream
  <2>2. Early(Stream) /\ \A f \in Params(Stream) : Untouched(f)
    BY <1>1 DEF Content, ParamFirst
  <2>3. Early(Stream') /\ Params(Stream') \subseteq Params(Stream)
    BY <2>1, <2>2, EarlyTail
  <2>4. \A f : Untouched(f) => Untouched(f)'
    BY <1>1 DEF Untouched
  <2> QED BY <2>2, <2>3, <2>4 DEF ParamFirst
<1> QED BY <1>1, <1>3, LeftLink, PendingKept, WholeKept, AskedKept DEF Content

\* A request arrives; a NACK is answered from the cache, by the packets of one frame's NAL.
LEMMA ControlContent ==
    ASSUME TransportInv, Content, Grown, ControlThread
    PROVE  Content'
<1>1. UNCHANGED <<sending, accepting, cache, pendingNal, delivered>>
  BY DEF ControlThread, HandleKeyframeRequest, HandleNackRequest, Retransmit, send, link,
     receive, nack
<1>2. /\ net \in Seq(Packet) /\ sending \in Seq(Packet) /\ resend \in Seq(Packet)
      /\ control \in Seq(KeyRequests \cup NackRequests)
  BY DEF TransportInv, LinkType
<1>3. ASSUME control # <<>>, control' = Tail(control)
      PROVE  /\ Len(control') = Len(control) - 1
             /\ \A i \in 1..Len(control) - 1 : control'[i] = control[i + 1] /\ i + 1 \in 1..Len(control)
             /\ Asked'
  <2>1. /\ Len(control') = Len(control) - 1
        /\ \A i \in 1..Len(control) - 1 : control'[i] = control[i + 1] /\ i + 1 \in 1..Len(control)
    BY <1>2, <1>3
  <2> QED BY <2>1 DEF Content, Asked, Grown, Extended
<1>4. CASE HandleKeyframeRequest
  <2>1. control # <<>> /\ control' = Tail(control) /\ UNCHANGED <<net, resend>>
    BY <1>4 DEF HandleKeyframeRequest, link, nack
  <2>2. OnLink' /\ TornLast'
    BY <1>1, <2>1, NetKept, ResendKept DEF Content, OnLink, TornLast
  <2>3. \A f : Untouched(f) => Untouched(f)'
    BY <1>1, <1>3, <2>1 DEF Untouched
  <2>4. ParamFirst'
    BY <1>1, <2>1, <2>3 DEF Content, ParamFirst, Stream, Grown
  <2> QED BY <1>1, <1>3, <2>1, <2>2, <2>4, PendingKept, WholeKept, CachedKept DEF Content
<1>5. CASE HandleNackRequest
  <2> DEFINE r == Head(control)
  <2>1. /\ control # <<>> /\ control' = Tail(control) /\ net' = net
        /\ r \in NackRequests /\ IsNack(r) /\ r = control[1] /\ 1 \in 1..Len(control)
    <3>1. /\ control # <<>> /\ control' = Tail(control) /\ net' = net
          /\ r \in NackRequests /\ r.type = "NackRequest"
      BY <1>5, NackTyped DEF HandleNackRequest, link
    <3>2. r = control[1] /\ 1 \in 1..Len(control)
      BY <3>1, <1>2
    <3> QED BY <3>1, <3>2 DEF IsNack
  <2>2. r.f \in DOMAIN Shapes /\ r.total > 1 /\ ~tcp
    BY <2>1 DEF Content, Asked
  <2> HIDE DEF r
  <2>3. resend' # resend => \A k \in 1..Len(resend') :
            IsData(Shapes, resend'[k]) /\ resend'[k].total > 1 /\ resend'[k].f = r.f
    <3> HAVE resend' # resend
    <3>1. PICK c \in 1..CacheSize :
                /\ cache[c].f = r.f /\ cache[c].total = r.total
                /\ \A k \in 1..Len(resend') :
                     /\ resend'[k].kind = "data" /\ resend'[k].f = cache[c].f
                     /\ resend'[k].n = cache[c].n /\ resend'[k].total = cache[c].total
                     /\ resend'[k].i \in 1..cache[c].total
      BY <1>5, NackTyped DEF r
    <3>2. cache[c].f # None
      BY <3>1, <2>1, FrameFacts DEF NackRequests
    <3>3. Of(Shapes, cache[c])
      BY <3>2 DEF Content, Cached
    <3> QED BY <3>1, <3>3, <2>2 DEF IsData, Of
  <2>4. OnLink'
    <3>1. \A k \in 1..Len(resend') : ~tcp' /\ IsData(Shapes', resend'[k]) /\ resend'[k].total > 1
      <4>1. CASE resend' = resend
        BY <4>1, ResendKept DEF Content
      <4>2. CASE resend' # resend
        BY <4>2, <2>2, <2>3, OfStays DEF Grown
      <4> QED BY <4>1, <4>2
    <3> QED BY <3>1, <1>1, <2>1, NetKept DEF Content, OnLink
  <2>5. \A f : Untouched(f) => Untouched(f)'
    <3> SUFFICES ASSUME NEW f, Untouched(f) PROVE Untouched(f)'
      OBVIOUS
    <3>1. f # r.f
      BY <2>1 DEF Untouched
    <3>2. \A i \in 1..Len(resend') : resend'[i].f # f
      BY <3>1, <2>3 DEF Untouched
    <3> QED BY <3>2, <1>1, <1>3, <2>1 DEF Untouched
  <2>6. ParamFirst'
    BY <1>1, <2>1, <2>5 DEF Content, ParamFirst, Stream, Grown
  <2>7. TornLast'
    BY <1>1, <2>1 DEF Content, TornLast
  <2> QED BY <1>1, <1>3, <2>1, <2>4, <2>6, <2>7, PendingKept, WholeKept, CachedKept DEF Content
<1>6. CASE Retransmit
  <2> DEFINE x == Head(resend)
  <2>1. /\ control' = control /\ net' = Append(net, x) /\ resend' = Tail(resend) /\ resend # <<>>
    BY <1>6 DEF Retransmit
  <2>2. /\ x \in Packet /\ x = resend[1] /\ 1 \in 1..Len(resend)
        /\ Len(resend') = Len(resend) - 1
        /\ \A i \in 1..Len(resend) - 1 : resend'[i] = resend[i + 1] /\ i + 1 \in 1..Len(resend)
    BY <1>2, <2>1
  <2>3. IsData(Shapes, x) /\ x.total > 1 /\ ~tcp
    BY <2>2 DEF Content, OnLink
  <2> HIDE DEF x
  <2>4. Len(net') = Len(net) + 1 /\ Len(net) \in Nat /\ net'[Len(net) + 1] = x
        /\ \A i \in 1..Len(net) : net'[i] = net[i]
    BY <1>2, <2>1, <2>2, AppendProperties
  <2>5. OnLink'
    <3>1. \A i \in 1..Len(resend') : ~tcp' /\ IsData(Shapes', resend'[i]) /\ resend'[i].total > 1
      BY <2>2, <2>3, OfStays DEF Content, OnLink, Grown
    <3>2. Sound(Shapes', tcp', x)
      BY <2>3, OfStays DEF Grown, Sound
    <3>3. \A i \in 1..Len(net') : Sound(Shapes', tcp', net'[i])
      <4> TAKE i \in 1..Len(net')
      <4>1. i \in 1..Len(net) \/ i = Len(net) + 1
        BY <2>4
      <4> QED BY <4>1, <3>2, <2>4, NetKept DEF Content
    <3> QED BY <3>1, <3>3, <1>1, NetKept DEF Content, OnLink
  <2>6. TornLast'
    <3>1. accepting /\ \A i \in 1..Len(net) : net[i].kind # "torn"
      BY <2>3 DEF TransportInv, ServerInv, Content, TornLast
    <3>2. x.kind # "torn"
      BY <2>3 DEF IsData
    <3>3. \A i \in 1..Len(net') : net'[i].kind # "torn"
      <4> TAKE i \in 1..Len(net')
      <4>1. i \in 1..Len(net) \/ i = Len(net) + 1
        BY <2>4
      <4> QED BY <4>1, <3>1, <3>2, <2>4
    <3> QED BY <3>3 DEF TornLast
  <2>7. ParamFirst'
    <3>1. Early(Stream) /\ \A f \in Params(Stream) : Untouched(f)
      BY <2>3 DEF Content, ParamFirst
    <3>2. x.f \notin Params(Stream)
      BY <2>2, <3>1 DEF Untouched
    <3>3. net' = net \o <<x>>
      BY <2>1, <1>2
    <3>4. Early(Stream') /\ Params(Stream') \subseteq Params(Stream)
      BY <2>2, <2>3, <3>1, <3>2, <3>3, <1>1, <1>2, EarlyInsert DEF Stream
    <3>5. \A f : Untouched(f) => Untouched(f)'
      BY <1>1, <2>1, <2>2 DEF Untouched
    <3> QED BY <3>1, <3>4, <3>5 DEF ParamFirst
  <2> QED BY <1>1, <2>1, <2>5, <2>6, <2>7, PendingKept, WholeKept, CachedKept,
       AskedKept DEF Content
<1> QED BY <1>4, <1>5, <1>6 DEF ControlThread

\* A complete NAL is one the server sent.
LEMMA DeliverContent ==
    ASSUME TransportInv, Content, Grown, NEW p \in Partials, Complete(p), Deliver(p),
         FromSlice(Shapes, p)
    PROVE  Reassembling' /\ AllWhole' /\ pendingNal'.total = 0
<1>1. Whole(Shapes, [f |-> p.f, got |-> p.slot])
  BY ShapesOk, CompleteWhole
<1>2. Whole(Shapes', [f |-> p.f, got |-> p.slot])
  BY <1>1, OfStays DEF Grown
<1>3. AllWhole'
  BY <1>2, OfStays DEF Content, AllWhole, Deliver, Grown
<1>4. pendingNal'.total = 0
  BY DEF Deliver, NoNal
<1>5. Reassembling'
  BY <1>4 DEF Reassembling
<1> QED BY <1>3, <1>4, <1>5

\* A NAL is held.
LEMMA HoldContent ==
    ASSUME TransportInv, Content, Grown, NEW p \in Partials, Hold(p),
         p.total > 0 => FromSlice(Shapes, p)
    PROVE  Reassembling' /\ AllWhole' /\ pendingNal' = p
<1>1. pendingNal' = p /\ delivered' = delivered
  BY DEF Hold
<1>2. Reassembling'
  BY <1>1, OfStays DEF Reassembling, Grown
<1> QED BY <1>1, <1>2, WholeKept DEF Content

\* A parity arrives.
LEMMA FecContent ==
    ASSUME TransportInv, Content, Grown, ~tcp, net # <<>>, NEW d, d = Head(net),
         ReassembleFec(d), d.kind = "fec"
    PROVE  /\ Reassembling' /\ AllWhole' /\ control' = control
           /\ pendingNal'.total > 0 => pendingNal.total > 0 /\ pendingNal'.f = pendingNal.f
<1>1. /\ d \in Packet /\ d = net[1] /\ 1 \in 1..Len(net) /\ Len(Stream) > 0 /\ Stream[1] = d
      /\ pendingNal \in Partials /\ net \in Seq(Packet) /\ sending \in Seq(Packet)
  BY Moved DEF TransportInv, LinkType, ClientType, Stream
<1>2. IsParity(Shapes, d)
  BY <1>1 DEF Content, OnLink, Sound, IsPose, IsData, IsParity
<1> DEFINE held == [pendingNal EXCEPT !.fec[d.i] = d.n]
           tried == IF Recoverable(held) THEN TryFecRecovery(held) ELSE held
<1>3. CASE UNCHANGED <<pendingNal, delivered, decoder>>
  BY <1>3, PendingKept, WholeKept DEF ReassembleFec, Content
<1>4. CASE /\ d.f = pendingNal.f /\ pendingNal.total > 0 /\ d.i <= GroupCount(pendingNal.total)
           /\ IF Complete(tried) THEN Deliver(tried) ELSE Hold(tried)
  <2>1. d.total > 1
    <3>1. d.total = 1 => d.f \in Params(Stream)
      <4>1. Stream \in Seq(Packet) /\ 1 \in 1..Len(Stream) /\ d.f \in FrameIndex
        BY <1>1, Moved DEF Stream, Packet
      <4> QED BY <4>1, <1>1 DEF Params
    <3>2. d.total # 1
      BY <3>1, <1>4 DEF Content, ParamFirst, Untouched
    <3>3. d.total \in Nat \ {0}
      BY <1>2, ShapesOk DEF IsParity, Of, ShapeOk
    <3> QED BY <3>2, <3>3
  <2>2. d.n = Len(Shapes[d.f])
    BY <1>2, <2>1, ShapesOk DEF IsParity, Of, ShapeOk
  <2>3. FromSlice(Shapes, pendingNal)
    BY <1>4 DEF Content, Reassembling
  <2>4. /\ held \in Partials /\ held.f = pendingNal.f /\ held.total = pendingNal.total
        /\ held.slot = pendingNal.slot
        /\ \A h \in 1..GroupCount(pendingNal.total) :
             held.fec[h] = IF h = d.i THEN d.n ELSE pendingNal.fec[h]
    <3>1. d.i \in Nat /\ d.n \in Nat
      BY <1>1 DEF Packet
    <3>2. pendingNal \in Partials
      BY <1>1
    <3>3. /\ held \in Partials /\ held.f = pendingNal.f /\ held.total = pendingNal.total
          /\ held.slot = pendingNal.slot
      BY <3>1, <3>2, ParityIsKept
    <3>4. \A h \in 1..GroupCount(pendingNal.total) :
             held.fec[h] = IF h = d.i THEN d.n ELSE pendingNal.fec[h]
      <4>1. DOMAIN pendingNal.fec = 1..GroupCount(pendingNal.total) /\ "fec" \in DOMAIN pendingNal
        BY <3>2 DEF Partials
      <4>2. held.fec = [pendingNal.fec EXCEPT ![d.i] = d.n]
        BY <4>1
      <4> HIDE DEF held
      <4> QED BY <4>1, <4>2
    <3> QED BY <3>3, <3>4
  <2> HIDE DEF held
  <2>5. FromSlice(Shapes, held)
    BY <2>2, <2>3, <2>4, <1>4 DEF FromSlice
  <2>6. /\ tried \in Partials /\ tried.f = pendingNal.f /\ tried.total = pendingNal.total
        /\ FromSlice(Shapes, tried)
    BY <2>4, <2>5, <1>4, ShapesOk, Recovered, RecoveredSlice
  <2> HIDE DEF tried
  <2>7. control' = control
    BY DEF ReassembleFec
  <2>8. CASE Complete(tried)
    BY <1>4, <2>6, <2>7, <2>8, DeliverContent
  <2>9. CASE ~Complete(tried)
    BY <1>4, <2>6, <2>7, <2>9, HoldContent
  <2> QED BY <2>8, <2>9
<1> QED BY <1>3, <1>4 DEF ReassembleFec

\* What a data packet is stored in.
LEMMA StoredSlice ==
    ASSUME TransportInv, Content, NEW p \in Partials, NEW d \in Packet, IsData(Shapes, d),
         d.total > 1,
           p.f = d.f, p.total = d.total, FromSlice(Shapes, p)
    PROVE  FromSlice(Shapes, Store(p, d))
<1> DEFINE q == Store(p, d)
<1>1. /\ q \in Partials /\ q.f = p.f /\ q.total = p.total /\ q.fec = p.fec
      /\ \A i \in 1..p.total : q.slot[i] =
           IF i = d.i /\ d.i <= d.total /\ p.slot[i] = Missing THEN d.n ELSE p.slot[i]
  BY StoredIsPartial
<1>2. d.n = Len(Shapes[d.f])
  BY ShapesOk DEF IsData, Of, ShapeOk
<1> HIDE DEF q
<1>3. FromSlice(Shapes, q)
  BY <1>1, <1>2 DEF FromSlice
<1> QED BY <1>3 DEF q

\* A data packet arrives, perhaps of another frame than the pending one. A parameter set cannot
\* come while its frame's slice is pending, so the frame index alone tells the two apart.
LEMMA DataContent ==
    ASSUME TransportInv, Content, Grown, ~tcp, net # <<>>, NEW d, d = Head(net),
         ReassembleData(d), d.kind = "data",
           UNCHANGED resend
    PROVE  /\ Reassembling' /\ AllWhole' /\ Asked'
           /\ \A f \in Params(Tail(Stream)) : Untouched(f)'
<1>1. /\ d \in Packet /\ d = net[1] /\ 1 \in 1..Len(net) /\ Len(Stream) > 0 /\ Stream[1] = d
      /\ pendingNal \in Partials /\ Stream \in Seq(Packet) /\ Stream # <<>>
      /\ control \in Seq(KeyRequests \cup NackRequests)
  BY Moved DEF TransportInv, LinkType, ClientType, Stream
<1>2. IsData(Shapes, d)
  BY <1>1 DEF Content, OnLink, Sound, IsPose, IsData, IsParity
<1>3. d.total \in Nat \ {0} /\ d.f \in DOMAIN Shapes /\ d.f \in FrameIndex /\ ShapeOk(Shapes)
  <2>1. ShapeOk(Shapes) /\ Of(Shapes, d)
    BY <1>2, ShapesOk DEF IsData
  <2>2. d.f \in DOMAIN Shapes /\ d.total \in Nat \ {0}
    BY <2>1 DEF Of, ShapeOk
  <2>3. d.f \in FrameIndex
    BY <1>1 DEF Packet
  <2> QED BY <2>1, <2>2, <2>3
<1>4. Early(Stream) /\ \A f \in Params(Stream) : Untouched(f)
  BY DEF Content, ParamFirst
<1>5. \A f \in Params(Tail(Stream)) : Untouched(f) /\ (d.total > 1 => f # d.f)
  BY <1>1, <1>4, EarlyTail
<1>6. d.total = 1 => Untouched(d.f)
  <2>1. 1 \in 1..Len(Stream)
    BY <1>1
  <2>2. d.total = 1 => d.f \in Params(Stream)
    BY <1>1, <1>3, <2>1 DEF Params
  <2> QED BY <1>4, <2>2
<1> DEFINE displaced == NewFrame(d) /\ Partial(pendingNal)
           tried == TryFecRecovery(pendingNal)
           base == IF NewFrame(d) THEN Fresh(d) ELSE pendingNal
           stored == Store(base, d)
<1>7. /\ tried \in Partials /\ tried.total = pendingNal.total /\ tried.f = pendingNal.f
      /\ pendingNal.total > 0 => FromSlice(Shapes, tried) /\ tried.total > 1
  <2>1. pendingNal.total > 0 => FromSlice(Shapes, pendingNal)
    BY DEF Content, Reassembling
  <2>2. pendingNal.total > 0 => FromSlice(Shapes, tried)
    BY <1>1, <1>3, <2>1, RecoveredSlice
  <2>3. tried \in Partials /\ tried.total = pendingNal.total /\ tried.f = pendingNal.f
    BY <1>1, Recovered
  <2>4. pendingNal.total > 0 => pendingNal.total > 1
    <3> HAVE pendingNal.total > 0
    <3> DEFINE n == Len(Shapes[pendingNal.f])
    <3>1. pendingNal.f \in DOMAIN Shapes /\ pendingNal.total = Shapes[pendingNal.f][n]
      BY <2>1 DEF FromSlice
    <3>2. n \in {1, 2}
      BY <3>1, <1>3 DEF ShapeOk
    <3>4. \A m \in {1, 2} : m \in 1..m
      OBVIOUS
    <3>3. n \in 1..n
      BY <3>2, <3>4
    <3> QED BY <3>1, <3>3, <1>3 DEF ShapeOk
  <2> QED BY <2>2, <2>3, <2>4
<1>8. /\ base \in Partials /\ base.f = d.f
      /\ d.total > 1 => base.total = d.total /\ FromSlice(Shapes, base)
      /\ d.total = 1 => base = Fresh(d)
  <2>1. CASE NewFrame(d)
    <3>1. /\ Fresh(d) \in Partials /\ Fresh(d).f = d.f /\ Fresh(d).total = d.total
          /\ \A i \in 1..d.total : Fresh(d).slot[i] = Missing
          /\ \A g \in 1..GroupCount(d.total) : Fresh(d).fec[g] = Missing
      BY <1>1, FreshIsPartial
    <3>2. d.total > 1 => d.total = Shapes[d.f][Len(Shapes[d.f])]
      BY <1>2, <1>3 DEF IsData, Of, ShapeOk
    <3>3. d.total > 1 => FromSlice(Shapes, Fresh(d))
      BY <3>1, <3>2, <1>3 DEF FromSlice
    <3> QED BY <2>1, <3>1, <3>3
  <2>2. CASE ~NewFrame(d)
    <3>1. d.f = pendingNal.f /\ pendingNal.total > 0
      BY <2>2, <1>1 DEF NewFrame, Partials
    <3>2. FromSlice(Shapes, pendingNal)
      BY <3>1 DEF Content, Reassembling
    <3>3. d.total # 1
      BY <3>1, <1>6 DEF Untouched
    <3>4. d.total > 1 => d.total = Shapes[d.f][Len(Shapes[d.f])]
      BY <1>2, <1>3 DEF IsData, Of, ShapeOk
    <3>5. d.total > 1 => pendingNal.total = d.total
      BY <3>1, <3>2, <3>4 DEF FromSlice
    <3> QED BY <2>2, <3>1, <3>2, <3>3, <3>5, <1>1
  <2> QED BY <2>1, <2>2
<1> HIDE DEF base
<1>9. stored \in Partials /\ stored.f = d.f /\ stored.total = base.total
      /\ (d.total > 1 => FromSlice(Shapes, stored))
  BY <1>1, <1>2, <1>8, StoredIsPartial, StoredSlice
<1> HIDE DEF stored, tried
<1>10. CASE displaced /\ Complete(tried)
  <2>1. Deliver(tried) /\ control' = control
    BY <1>10 DEF ReassembleData, tried
  <2>2. pendingNal.total > 0
    BY <1>10 DEF Partial
  <2>3. Reassembling' /\ AllWhole' /\ pendingNal'.total = 0
    BY <1>7, <1>10, <2>1, <2>2, DeliverContent
  <2>4. \A f : Untouched(f) => Untouched(f)'
    BY <2>1, <2>3 DEF Untouched
  <2> QED BY <1>5, <2>1, <2>3, <2>4, AskedKept DEF Content
<1>11. CASE ~(displaced /\ Complete(tried))
  <2>1. /\ IF displaced THEN DropPending(tried) ELSE UNCHANGED <<unseen, control>>
        /\ IF Complete(stored) THEN Deliver(stored) ELSE Hold(stored)
    BY <1>11 DEF ReassembleData, tried, base, stored
  <2>2. Reassembling' /\ AllWhole' /\ (pendingNal'.total > 0 => d.total > 1 /\ pendingNal'.f = d.f)
    <3>1. CASE d.total > 1
      <4>1. CASE Complete(stored)
        BY <1>9, <2>1, <3>1, <4>1, DeliverContent
      <4>2. CASE ~Complete(stored)
        BY <1>9, <2>1, <3>1, <4>2, HoldContent
      <4> QED BY <4>1, <4>2
    <3>2. CASE d.total = 1
      <4>1. /\ base = Fresh(d) /\ Fresh(d) \in Partials /\ Fresh(d).total = 1 /\ Fresh(d).slot[1] = Missing
        BY <3>2, <1>1, <1>8, FreshIsPartial
      <4>2. d.i = 1 /\ d.n \in Nat /\ d.n \in 1..Len(Shapes[d.f]) /\ Shapes[d.f][d.n] = 1
        BY <1>1, <1>2, <3>2 DEF IsData, Of, Packet
      <4>3. stored.total = 1 /\ stored.slot[1] = d.n
        <5>1. stored = Store(Fresh(d), d) /\ 1 \in 1..Fresh(d).total /\ 1 <= d.total
          BY <4>1, <3>2 DEF stored
        <5>2. stored.total = Fresh(d).total
          BY <4>1, <5>1, <1>1, StoredIsPartial
        <5>3. stored.slot[1] = IF 1 = d.i /\ d.i <= d.total /\ Fresh(d).slot[1] = Missing
                                 THEN d.n ELSE Fresh(d).slot[1]
          <6>1. Fresh(d) \in Partials /\ d \in Packet
            BY <4>1, <1>1
          <6>2. \A i \in 1..Fresh(d).total : stored.slot[i] =
                   IF i = d.i /\ d.i <= d.total /\ Fresh(d).slot[i] = Missing
                     THEN d.n ELSE Fresh(d).slot[i]
            BY <5>1, <6>1, StoredIsPartial
          <6> QED BY <5>1, <6>2
        <5> QED BY <4>1, <4>2, <5>1, <5>2, <5>3
      <4>4. DOMAIN stored.slot = 1..1 /\ stored.slot \in Seq(Int) /\ Len(stored.slot) = 1
        <5>1. stored.slot \in Seq(Int) /\ Len(stored.slot) = 1
          BY <4>3, <1>9 DEF Partials
        <5> QED BY <5>1
      <4>5. stored.slot = [i \in 1..Shapes[d.f][d.n] |-> d.n]
        BY <4>2, <4>3, <4>4
      <4>6. Whole(Shapes, [f |-> stored.f, got |-> stored.slot])
        BY <1>3, <1>9, <4>2, <4>5 DEF Whole
      <4>7. Complete(stored)
        BY <4>2, <4>3, <4>4 DEF Complete, Received, Missing
      <4>8. Deliver(stored)
        BY <2>1, <4>7
      <4>9. AllWhole'
        BY <4>6, <4>8, OfStays DEF Content, AllWhole, Deliver, Grown
      <4>10. pendingNal'.total = 0
        BY <4>8 DEF Deliver, NoNal
      <4> QED BY <4>9, <4>10 DEF Reassembling
    <3> QED BY <3>1, <3>2, <1>3
  <2>3. \/ control' = control
        \/ /\ displaced
           /\ control' = Append(control, [type |-> "NackRequest", f |-> tried.f,
                total |-> tried.total,
                                          missing |-> 1..tried.total \ Received(tried)])
    BY <2>1 DEF DropPending, SendNack
  <2>4. CASE control' = control
    <3>1. \A f \in Params(Tail(Stream)) : Untouched(f)'
      BY <1>5, <2>2, <2>4 DEF Untouched
    <3> QED BY <2>2, <2>4, <3>1, AskedKept DEF Content
  <2>5. CASE control' # control
    <3> DEFINE r == [type |-> "NackRequest", f |-> tried.f, total |-> tried.total,
                     missing |-> 1..tried.total \ Received(tried)]
    <3>1. control' = Append(control, r) /\ pendingNal.total > 0
      BY <2>3, <2>5 DEF Partial
    <3>2. r.f = pendingNal.f /\ r.total > 1 /\ r.f \in DOMAIN Shapes
      BY <1>7, <3>1 DEF FromSlice
    <3> HIDE DEF r
    <3>3. Len(control') = Len(control) + 1 /\ control'[Len(control) + 1] = r /\ Len(control) \in Nat
          /\ \A i \in 1..Len(control) : control'[i] = control[i]
      BY <3>1, <1>1, AppendProperties
    <3>4. \A i \in 1..Len(control') : i \in 1..Len(control) \/ i = Len(control) + 1
      BY <3>3
    <3>5. Asked'
      BY <3>2, <3>3, <3>4 DEF Content, Asked, Grown, Extended
    <3>6. \A f \in Params(Tail(Stream)) : f # r.f
      BY <1>5, <3>1, <3>2 DEF Untouched
    <3>7. \A f \in Params(Tail(Stream)) : Untouched(f)'
      BY <1>5, <2>2, <3>3, <3>4, <3>6 DEF Untouched
    <3> QED BY <2>2, <3>5, <3>7
  <2> QED BY <2>4, <2>5
<1> QED BY <1>10, <1>11

\* The client receives a datagram, ...
LEMMA ReceiveContent ==
    ASSUME TransportInv, Content, Grown, ReceiveThread
    PROVE  Content'
<1> DEFINE d == Head(net)
<1>1. /\ ~tcp /\ net # <<>> /\ net' = Tail(net)
      /\ UNCHANGED <<sending, resend, accepting, cache>>
  BY DEF ReceiveThread, send, nack
<1>2. OnLink' /\ TornLast' /\ Cached' /\ Stream' = Tail(Stream)
  BY <1>1, LeftLink
<1>3. Stream \in Seq(Packet) /\ Stream # <<>>
  BY <1>1, Moved DEF TransportInv, LinkType, Stream
<1>4. Early(Stream) /\ \A f \in Params(Stream) : Untouched(f)
  BY <1>1 DEF Content, ParamFirst
<1>5. Early(Stream') /\ \A f \in Params(Stream') : Untouched(f)
  BY <1>2, <1>3, <1>4, EarlyTail
<1>6. CASE UNCHANGED <<receive, control, decoder>>
  <2>1. UNCHANGED <<pendingNal, delivered, control>>
    BY <1>6 DEF receive
  <2>2. \A f : Untouched(f) => Untouched(f)'
    BY <1>1, <2>1 DEF Untouched
  <2>3. ParamFirst'
    BY <1>5, <2>2 DEF ParamFirst
  <2> QED BY <1>2, <2>1, <2>3, PendingKept, WholeKept, AskedKept DEF Content
<1>7. CASE d.kind = "fec" /\ ReassembleFec(d)
  <2>1. /\ Reassembling' /\ AllWhole' /\ control' = control
        /\ pendingNal'.total > 0 => pendingNal.total > 0 /\ pendingNal'.f = pendingNal.f
    BY <1>1, <1>7, FecContent
  <2>2. \A f : Untouched(f) => Untouched(f)'
    BY <1>1, <2>1 DEF Untouched
  <2>3. ParamFirst'
    BY <1>5, <2>2 DEF ParamFirst
  <2> QED BY <1>2, <2>1, <2>3, AskedKept DEF Content
<1>8. CASE d.kind = "data" /\ ReassembleData(d)
  <2>1. Reassembling' /\ AllWhole' /\ Asked' /\ \A f \in Params(Tail(Stream)) : Untouched(f)'
    BY <1>1, <1>8, DataContent
  <2>2. ParamFirst'
    BY <1>2, <1>5, <2>1 DEF ParamFirst
  <2> QED BY <1>2, <2>1, <2>2 DEF Content
<1> QED BY <1>6, <1>7, <1>8 DEF ReceiveThread

\* ... or a record; a torn one ends the stream.
LEMMA TcpContent ==
    ASSUME TransportInv, Content, Grown, ReceiveTcpThread
    PROVE  Content'
<1> DEFINE d == Head(net)
<1>1. /\ tcp /\ net # <<>> /\ UNCHANGED <<sending, resend, accepting, cache, control, pendingNal>>
  BY DEF ReceiveTcpThread, send, nack, receive
<1>2. /\ net \in Seq(Packet) /\ d = net[1] /\ 1 \in 1..Len(net) /\ Len(net) \in Nat
  BY <1>1 DEF TransportInv, LinkType
<1>3. ~(d.kind = "torn" /\ Len(net) > 1)
  BY <1>2 DEF Content, TornLast
<1>4. net' = Tail(net)
  BY <1>3 DEF ReceiveTcpThread
<1>5. OnLink' /\ TornLast' /\ Cached'
  BY <1>1, <1>4, LeftLink
<1>6. ParamFirst'
  BY <1>1 DEF ParamFirst, Grown
<1>7. AllWhole'
  <2>1. CASE delivered' = delivered
    BY <2>1, WholeKept DEF Content
  <2>2. CASE /\ d.kind = "nal"
             /\ delivered' = delivered \cup {[f |-> d.f, got |-> [i \in 1..d.total |-> d.n]]}
    <3>1. Of(Shapes, d)
      BY <1>1, <1>2, <2>2 DEF Content, OnLink, Sound, IsPose, IsRecord, IsTorn
    <3>2. Whole(Shapes, [f |-> d.f, got |-> [i \in 1..d.total |-> d.n]])
      BY <3>1 DEF Of, Whole
    <3> DEFINE e == [f |-> d.f, got |-> [i \in 1..d.total |-> d.n]]
    <3>3. delivered' = delivered \cup {e} /\ Whole(Shapes, e)
      BY <2>2, <3>2
    <3> HIDE DEF e
    <3>4. Extended(Shapes', Shapes) /\ \A x \in delivered : Whole(Shapes, x)
      BY DEF Content, AllWhole, Grown
    <3>5. \A x \in delivered' : Whole(Shapes', x)
      BY <3>3, <3>4, OfStays
    <3> QED BY <3>5 DEF AllWhole
  <2> QED BY <1>3, <2>1, <2>2 DEF ReceiveTcpThread, receive
<1> QED BY <1>1, <1>5, <1>6, <1>7, PendingKept, AskedKept DEF Content

\* The client asks for a key frame.
LEMMA RequestContent ==
    ASSUME TransportInv, Content, Grown, RunFrameEnd
    PROVE  Content'
<1>1. UNCHANGED <<net, sending, resend, accepting, cache, pendingNal, delivered>>
  BY DEF RunFrameEnd, RequestKeyframe, send, link, nack
<1>2. control' = control \/ control' = Append(control, [type |-> "RequestKeyframe"])
  BY DEF RunFrameEnd, RequestKeyframe, SendKeyframeRequest
<1>3. CASE control' = control
  BY <1>1, <1>3, ContentFrame DEF ContentRest
<1>4. CASE control' # control
  <2>1. /\ Len(control') = Len(control) + 1 /\ Len(control) \in Nat
        /\ ~IsNack(control'[Len(control) + 1])
        /\ \A i \in 1..Len(control) : control'[i] = control[i]
    <3>1. control \in Seq(KeyRequests \cup NackRequests)
      BY DEF TransportInv, LinkType
    <3> DEFINE r == [type |-> "RequestKeyframe"]
    <3>2. r \in KeyRequests \cup NackRequests /\ ~IsNack(r)
      BY DEF KeyRequests, IsNack
    <3>3. control' = Append(control, r)
      BY <1>2, <1>4
    <3> HIDE DEF r
    <3> QED BY <3>1, <3>2, <3>3, AppendProperties
  <2>2. \A i \in 1..Len(control') : IsNack(control'[i]) => i \in 1..Len(control) /\ control'[i] = control[i]
    BY <2>1
  <2>3. Asked'
    BY <2>2 DEF Content, Asked, Grown, Extended
  <2>4. \A f : Untouched(f) => Untouched(f)'
    BY <1>1, <2>2 DEF Untouched
  <2>5. ParamFirst'
    BY <1>1, <2>4 DEF Content, ParamFirst, Stream, Grown
  <2>6. OnLink' /\ TornLast'
    BY <1>1, NetKept, ResendKept DEF Content, OnLink, TornLast
  <2> QED BY <1>1, <2>3, <2>5, <2>6, PendingKept, WholeKept, CachedKept DEF Content
<1> QED BY <1>3, <1>4

LEMMA ContentInitially ==
    ASSUME TransportInit, ~StaleCache
    PROVE  Content
<1> USE DEF TransportInit
<1>1. OnLink /\ TornLast /\ Asked /\ AllWhole
  BY DEF OnLink, TornLast, Asked, AllWhole
<1>2. Reassembling
  BY DEF Reassembling, NoNal
<1>3. Cached
  BY DEF Cached, NoEntry
<1>4. ParamFirst
  <2>1. Stream = <<>>
    BY DEF Stream
  <2> QED BY <2>1 DEF ParamFirst, Early, Params
<1> QED BY <1>1, <1>2, <1>3, <1>4 DEF Content

\* Every step keeps what is on its way what was sent, if no old cache does harm.
LEMMA ContentStep ==
    ASSUME TransportInv, Content, [TransportNext]_transportVars
    PROVE  Content'
<1>1. Grown
  BY ShapesGrow DEF Grown
<1>2. CASE SendFrame \/ EncodeFrame \/ FrameEncoded \/ RenderFrame \/ ThrottleEnds
  BY <1>1, <1>2, ContentFrame DEF ContentRest, SendFrame, EncodeFrame, FrameEncoded, RenderFrame,
     ThrottleEnds, send, link, nack, receive
<1>3. CASE TakeFrame
  BY <1>1, <1>3, TakeContent
<1>4. CASE SendDatagram \/ SendTcpRecord \/ TcpSendFails
  BY <1>1, <1>4, SendContent
<1>5. CASE SendNothing
  BY <1>1, <1>5, NothingContent
<1>6. CASE Lose
  BY <1>1, <1>6, LoseContent
<1>7. CASE ControlThread
  BY <1>1, <1>7, ControlContent
<1>8. CASE ReceiveThread
  BY <1>1, <1>8, ReceiveContent
<1>9. CASE ReceiveTcpThread
  BY <1>1, <1>9, TcpContent
<1>10. CASE RunFrameEnd
  BY <1>1, <1>10, RequestContent
<1>11. CASE UNCHANGED transportVars
  BY <1>1, <1>11, ContentFrame DEF transportVars, ContentRest, send, link, nack, receive
<1> QED BY <1>2, <1>3, <1>4, <1>5, <1>6, <1>7, <1>8, <1>9, <1>10, <1>11
        DEF TransportNext, SendThread, ClientReceive

\* What was delivered is therefore a NAL that was sent.
LEMMA ContentWhole ==
    ASSUME TransportInv, Content
    PROVE  DeliveredWhole
<1> SUFFICES ASSUME NEW d \in delivered
             PROVE  \E n \in DOMAIN Nals(d.f) : d.got = [i \in 1..Nals(d.f)[n] |-> n]
  BY DEF DeliveredWhole
<1>1. Whole(Shapes, d)
  BY DEF Content, AllWhole
<1>2. d.f \in sent /\ Shapes[d.f] = Nals(d.f) /\ d.f \in FrameIndex
  BY <1>1 DEF Whole, Shapes, TransportInv, ServerInv, ServerType
<1>3. DOMAIN Nals(d.f) = 1..Len(Nals(d.f))
  BY <1>2, NalFacts
<1> QED BY <1>1, <1>2, <1>3 DEF Whole

\* In a session whose NACK cache starts empty, a NAL given to the decoder is, packet by packet,
\* one NAL the server sent: through FEC recovery, retransmission, another frame's packets that
\* evict the pending NAL and a TCP record cut short (ReassembleFrame, HandleNackRequest).
THEOREM DeliveryIsWhole ==
    ASSUME ~StaleCache
    PROVE  TransportSpec => []DeliveredWhole
<1>1. TransportInit => Content
  BY ContentInitially
<1>2. TransportInv /\ Content /\ [TransportNext]_transportVars => Content'
  BY ContentStep
<1>3. TransportInv /\ Content => DeliveredWhole
  BY ContentWhole
<1> QED BY <1>1, <1>2, <1>3, TransportTyped, PTL DEF TransportSpec

-----------------------------------------------------------------------------
(* One lost datagram is repaired: the order of the datagrams of a frame.   *)

G == FecGroupSize
LastParity(d) == d.kind = "fec" /\ d.i = GroupCount(d.total)
Final(N, d) == LastParity(d) /\ d.n = Len(N[d.f])

\* Within a NAL: the data of a group, its parity, the next group's data.
InNal(d, e) ==
    \/ /\ d.kind = "data" /\ e.kind = "data" /\ e.i = d.i + 1
       /\ \E q \in Nat : q * G < d.i /\ d.i < (q + 1) * G
    \/ /\ d.kind = "data" /\ e.kind = "fec" /\ (e.i - 1) * G < d.i /\ d.i <= e.i * G
       /\ d.i = d.total \/ d.i = e.i * G
    \/ d.kind = "fec" /\ ~LastParity(d) /\ e.kind = "data" /\ e.i = d.i * G + 1

\* What comes after a datagram: the next of its NAL, the next NAL's first, the next frame's pose.
Follows(N, d, e) ==
    IF Final(N, d) THEN IsPose(N, e)
    ELSE /\ e.f = d.f
         /\ \/ IsPose(N, d) /\ IsData(N, e) /\ e.i = 1
            \/ ~IsPose(N, d) /\ e.n = d.n /\ e.total = d.total /\ InNal(d, e)
            \/ LastParity(d) /\ IsData(N, e) /\ e.i = 1

Linked(N, s) == \A i \in 1..Len(s) - 1 : Follows(N, s[i], s[i + 1])
UdpPacket(N, d) == IsPose(N, d) \/ IsData(N, d) \/ IsParity(N, d)
Chain(N, s) == /\ \A i \in 1..Len(s) : UdpPacket(N, s[i])
               /\ Linked(N, s)
               /\ s # <<>> => Final(N, s[Len(s)])

\* An index is in one group only.
LEMMA SameGroup ==
    ASSUME NEW g \in Int, NEW h \in Int, NEW c \in Nat \ {0}, NEW k \in Int,
           (g - 1) * c < k, k <= g * c, (h - 1) * c < k, k <= h * c
    PROVE  g = h
<1>1. (g - 1) * c \in Int /\ g * c \in Int /\ (h - 1) * c \in Int /\ h * c \in Int
  OBVIOUS
<1>2. (g - 1) * c < h * c /\ (h - 1) * c < g * c
  BY <1>1
<1>3. g - 1 <= h - 1
  <2>1. h = (h - 1) + 1 /\ g - 1 \in Int /\ h - 1 \in Int
    OBVIOUS
  <2> QED BY <1>2, <2>1, Below
<1>4. h - 1 <= g - 1
  <2>1. g = (g - 1) + 1 /\ g - 1 \in Int /\ h - 1 \in Int
    OBVIOUS
  <2> QED BY <1>2, <2>1, Below
<1> QED BY <1>3, <1>4

\* The datagrams of a NAL follow each other, ...
LEMMA NalChain ==
    ASSUME NEW f \in FrameIndex, NEW n \in Nat, NEW t \in Nat \ {0}, NEW s, s = NalDatagrams(f,
         n, t)
    PROVE  /\ Len(s) \in Nat /\ Len(s) > 1 /\ s \in Seq(Packet)
           /\ s[1].kind = "data" /\ s[1].i = 1 /\ LastParity(s[Len(s)])
           /\ \A k \in 1..Len(s) : s[k].f = f /\ s[k].n = n /\ s[k].total = t
           /\ \A k \in 1..Len(s) - 1 : InNal(s[k], s[k + 1]) /\ ~LastParity(s[k])
<1> DEFINE c == GroupCount(t)
           N(k) == (k - 1) \div (FecGroupSize + 1) + 1
<1>1. G \in Nat /\ G > 1 /\ c \in Nat /\ t <= c * G /\ c > 0 /\ (c - 1) * G < t
  BY GroupAssumption, GroupFacts DEF G
<1>2. s \in Seq(Packet) /\ Len(s) = t + c
  BY NalPackets
<1>3. ASSUME NEW k \in 1..t + c
      PROVE  /\ s[k].f = f /\ s[k].n = n /\ s[k].total = t
             /\ N(k) \in 1..c /\ k - N(k) \in 0..t
             /\ (N(k) - 1) * (G + 1) < k /\ k <= N(k) * (G + 1)
             /\ k < t + c => k - N(k) < t
             /\ IF k = N(k) * (G + 1) \/ k = t + c
                  THEN s[k].kind = "fec" /\ s[k].i = N(k)
                  ELSE s[k].kind = "data" /\ s[k].i = k - N(k) + 1 /\ s[k].i \in 1..t
  <2> DEFINE d == NalDatagrams(f, n, t)[k]
             m == N(k)
  <2>1. /\ d.f = f /\ d.n = n /\ d.total = t
        /\ m \in 1..c /\ k - m \in 0..t
        /\ (m - 1) * (FecGroupSize + 1) < k /\ k <= m * (FecGroupSize + 1)
        /\ k < t + c => k - m < t
        /\ IF k = m * (FecGroupSize + 1) \/ k = t + c
             THEN d.kind = "fec" /\ d.i = m
             ELSE d.kind = "data" /\ d.i = k - m + 1 /\ d.i \in 1..t
    BY NalPackets
  <2>2. s[k] = d
    OBVIOUS
  <2> HIDE DEF d, m
  <2>3. QED
    BY <2>1, <2>2 DEF G, m
<1> HIDE DEF N, c
<1>4. ASSUME NEW k \in 1..t + c - 1 PROVE InNal(s[k], s[k + 1]) /\ ~LastParity(s[k])
  <2> DEFINE g == N(k)
             h == N(k + 1)
             d == s[k]
             e == s[k + 1]
  <2>0. k \in 1..t + c /\ k + 1 \in 1..t + c /\ k < t + c /\ k \in Nat /\ k # t + c
    BY <1>1
  <2>1. /\ g \in 1..c /\ (g - 1) * (G + 1) < k /\ k <= g * (G + 1) /\ k - g < t /\ d.total = t
        /\ IF k = g * (G + 1) THEN d.kind = "fec" /\ d.i = g
           ELSE d.kind = "data" /\ d.i = k - g + 1
    BY <2>0, <1>3
  <2>2. /\ h \in 1..c /\ (h - 1) * (G + 1) < k + 1 /\ k + 1 <= h * (G + 1) /\ (k + 1) - h <= t
        /\ IF k + 1 = h * (G + 1) \/ k + 1 = t + c
             THEN e.kind = "fec" /\ e.i = h
             ELSE e.kind = "data" /\ e.i = (k + 1) - h + 1
    BY <2>0, <1>3
  <2> HIDE DEF g, h, d, e
  <2>3. g \in Nat /\ h \in Nat /\ g * G \in Nat /\ (g - 1) * G \in Nat /\ g * (G + 1) = g * G + g
        /\ (g - 1) * (G + 1) = (g - 1) * G + (g - 1) /\ (g - 1) * G = g * G - G
        /\ (g + 1) * (G + 1) = g * (G + 1) + G + 1 /\ c * G \in Nat /\ G + 1 \in Nat \ {0}
    BY <1>1, <2>1, <2>2
  <2>4. CASE k = g * (G + 1)
    <3>1. h = g + 1
      <4>1. (h - 1) * (G + 1) < k + 1 /\ k + 1 <= h * (G + 1)
            /\ ((g + 1) - 1) * (G + 1) < k + 1 /\ k + 1 <= (g + 1) * (G + 1)
        <5>1. (g + 1) - 1 = g
          BY <2>3
        <5> QED BY <5>1, <1>1, <2>0, <2>2, <2>3, <2>4
      <4>2. g + 1 \in Int /\ h \in Int /\ k + 1 \in Int
        BY <2>0, <2>3
      <4> QED BY <4>1, <4>2, <2>3, SameGroup
    <3>2. g * G < t
      BY <2>0, <2>1, <2>3, <2>4
    <3>3. k + 1 # h * (G + 1)
      BY <1>1, <2>3, <2>4, <3>1
    <3>4. k + 1 # t + c
      <4>1. c >= g + 1
        BY <2>1, <2>2, <3>1, <1>1
      <4> QED BY <4>1, <3>2, <1>1, <2>0, <2>3, <2>4
    <3>5. e.kind = "data" /\ e.i = g * G + 1
      <4>1. (k + 1) - h + 1 = g * G + 1
        BY <3>1, <2>3, <2>4
      <4> QED BY <4>1, <2>2, <3>3, <3>4
    <3>6. g # c
      BY <3>2, <1>1
    <3>7. d.kind = "fec" /\ d.i = g
      BY <2>1, <2>4
    <3> QED BY <3>5, <3>6, <3>7, <2>1 DEF InNal, LastParity, d, e, c
  <2>5. CASE k # g * (G + 1)
    <3>0. k < g * (G + 1)
      BY <2>0, <2>1, <2>3, <2>5
    <3>1. h = g
      <4>1. (h - 1) * (G + 1) < k + 1 /\ k + 1 <= h * (G + 1)
            /\ (g - 1) * (G + 1) < k + 1 /\ k + 1 <= g * (G + 1)
        BY <3>0, <2>0, <2>1, <2>2, <2>3, <1>1
      <4>2. k + 1 \in Int /\ g \in Int /\ h \in Int
        BY <2>0, <2>3
      <4> QED BY <4>1, <4>2, <2>3, SameGroup
    <3>2. d.kind = "data" /\ d.i = k - g + 1
      BY <2>1, <2>5
    <3>3. (g - 1) * G < k - g + 1
      BY <2>0, <2>1, <2>3, <1>1
    <3>4. k - g + 1 <= g * G
      BY <2>0, <3>0, <2>3, <1>1
    <3>5. CASE k + 1 = h * (G + 1) \/ k + 1 = t + c
      <4>1. e.kind = "fec" /\ e.i = g
        BY <2>2, <3>1, <3>5
      <4>2. k - g + 1 = t \/ k - g + 1 = g * G
        <5>1. CASE k + 1 = h * (G + 1)
          <6>1. k + 1 = g * (G + 1)
            BY <5>1, <3>1
          <6>2. k + 1 = g * G + g
            BY <6>1, <2>3
          <6>3. k \in Int /\ g \in Int /\ g * G \in Int
            BY <2>0, <2>3
          <6>4. k - g + 1 = g * G
            BY <6>2, <6>3
          <6> QED BY <6>4
        <5>2. CASE k + 1 = t + c
          <6>1. c <= g
            BY <5>2, <2>0, <2>1, <2>3, <1>1
          <6>2. c = g
            BY <6>1, <2>1, <1>1, <2>3
          <6> QED BY <5>2, <6>2, <2>0, <2>3, <1>1
        <5> QED BY <3>5, <5>1, <5>2
      <4> QED BY <4>1, <4>2, <3>2, <3>3, <3>4, <2>1 DEF InNal, LastParity, d, e
    <3>6. CASE ~(k + 1 = h * (G + 1) \/ k + 1 = t + c)
      <4>1. e.kind = "data" /\ e.i = (k - g + 1) + 1
        BY <2>2, <3>1, <3>6, <2>0, <2>3
      <4>2. k - g + 1 < g * G
        BY <3>0, <3>1, <3>6, <2>0, <2>3, <1>1
      <4>3. g - 1 \in Nat /\ (g - 1) + 1 = g
        BY <2>1, <1>1
      <4>4. \E q \in Nat : q * G < k - g + 1 /\ k - g + 1 < (q + 1) * G
        BY <4>2, <4>3, <3>3
      <4> QED BY <4>1, <4>4, <3>2 DEF InNal, LastParity, d, e
    <3> QED BY <3>5, <3>6
  <2> QED BY <2>4, <2>5
<1>5. s[1].kind = "data" /\ s[1].i = 1
  <2>1. 1 \in 1..t + c /\ 1 # t + c
    BY <1>1
  <2> DEFINE g == N(1)
  <2>2. g \in Nat /\ g > 0 /\ 1 - g \in 0..t /\ IF 1 = g * (G + 1) THEN s[1].kind = "fec"
        ELSE s[1].kind = "data" /\ s[1].i = 1 - g + 1
    BY <1>1, <1>3, <2>1
  <2> HIDE DEF g
  <2>3. g = 1
    BY <2>2
  <2>4. 1 # 1 * (G + 1)
    BY <1>1
  <2> QED BY <2>2, <2>3, <2>4
<1>6. LastParity(s[Len(s)])
  <2>1. t + c \in 1..t + c
    BY <1>1
  <2> DEFINE g == N(t + c)
  <2>2. g \in 1..c /\ (t + c) - g \in 0..t /\ s[t + c].kind = "fec" /\ s[t + c].i = g /\ s[t + c].total = t
    BY <1>3, <2>1
  <2> HIDE DEF g
  <2>3. g = c
    BY <2>2, <1>1
  <2> QED BY <2>2, <2>3, <1>2 DEF LastParity, c
<1>7. Len(s) \in Nat /\ Len(s) > 1
  BY <1>1, <1>2
<1>8. \A k \in 1..Len(s) : s[k].f = f /\ s[k].n = n /\ s[k].total = t
  BY <1>2, <1>3
<1>9. ASSUME NEW k \in 1..Len(s) - 1
      PROVE  InNal(s[k], s[k + 1]) /\ ~LastParity(s[k])
  <2>1. k \in 1..t + c - 1
    BY <1>1, <1>2
  <2> QED BY <2>1, <1>4
<1> QED BY <1>2, <1>5, <1>6, <1>7, <1>8, <1>9

Connected(N, s) == (\A i \in 1..Len(s) : UdpPacket(N, s[i])) /\ Linked(N, s)

\* Two chains make one where the ends fit.
LEMMA Joined ==
    ASSUME NEW N, NEW s \in Seq(Packet), NEW t \in Seq(Packet), s # <<>>, t # <<>>,
           Connected(N, s), Connected(N, t), Follows(N, s[Len(s)], t[1])
    PROVE  /\ Connected(N, s \o t) /\ s \o t \in Seq(Packet) /\ s \o t # <<>>
           /\ (s \o t)[1] = s[1] /\ (s \o t)[Len(s \o t)] = t[Len(t)]
<1> DEFINE u == s \o t
<1>1. Len(s) \in Nat /\ Len(s) > 0 /\ Len(t) \in Nat /\ Len(t) > 0
  OBVIOUS
<1>2. /\ u \in Seq(Packet) /\ Len(u) = Len(s) + Len(t)
      /\ \A i \in 1..Len(s) + Len(t) : u[i] = IF i <= Len(s) THEN s[i] ELSE t[i - Len(s)]
  BY ConcatProperties
<1> HIDE DEF u
<1>3. \A i \in 1..Len(s) : u[i] = s[i]
  BY <1>1, <1>2
<1>4. \A i \in 1..Len(t) : u[Len(s) + i] = t[i]
  <2> TAKE i \in 1..Len(t)
  <2>1. Len(s) + i \in 1..Len(s) + Len(t) /\ ~(Len(s) + i <= Len(s)) /\ (Len(s) + i) - Len(s) = i
    BY <1>1
  <2> QED BY <2>1, <1>2
<1>5. \A i \in 1..Len(u) : i \in 1..Len(s) \/ \E j \in 1..Len(t) : i = Len(s) + j
  <2> TAKE i \in 1..Len(u)
  <2>1. CASE i <= Len(s)
    BY <2>1, <1>1, <1>2
  <2>2. CASE i > Len(s)
    <3>1. i - Len(s) \in 1..Len(t) /\ i = Len(s) + (i - Len(s))
      BY <2>2, <1>1, <1>2
    <3> QED BY <3>1
  <2> QED BY <2>1, <2>2, <1>1
<1>6. \A i \in 1..Len(u) : UdpPacket(N, u[i])
  BY <1>3, <1>4, <1>5 DEF Connected
<1>7. ASSUME NEW i \in 1..Len(u) - 1 PROVE Follows(N, u[i], u[i + 1])
  <2>1. CASE i < Len(s)
    <3>1. i \in 1..Len(s) - 1 /\ i \in 1..Len(s) /\ i + 1 \in 1..Len(s)
      BY <2>1, <1>1
    <3>2. u[i] = s[i] /\ u[i + 1] = s[i + 1]
      BY <3>1, <1>3
    <3> QED BY <3>1, <3>2 DEF Connected, Linked
  <2>2. CASE i = Len(s)
    <3>1. i \in 1..Len(s) /\ i + 1 = Len(s) + 1 /\ 1 \in 1..Len(t)
      BY <2>2, <1>1
    <3>2. u[i] = s[Len(s)] /\ u[i + 1] = t[1]
      BY <3>1, <2>2, <1>3, <1>4
    <3> QED BY <3>2
  <2>3. CASE i > Len(s)
    <3> DEFINE j == i - Len(s)
    <3>1. j \in 1..Len(t) - 1 /\ j \in 1..Len(t) /\ j + 1 \in 1..Len(t) /\ i = Len(s) + j
          /\ i + 1 = Len(s) + (j + 1)
      BY <2>3, <1>1, <1>2
    <3> HIDE DEF j
    <3>2. u[i] = t[j] /\ u[i + 1] = t[j + 1]
      BY <3>1, <1>4
    <3> QED BY <3>1, <3>2 DEF Connected, Linked
  <2> QED BY <2>1, <2>2, <2>3, <1>1
<1>8. u[1] = s[1] /\ u[Len(u)] = t[Len(t)] /\ u # <<>>
  <2>1. 1 \in 1..Len(s) /\ Len(t) \in 1..Len(t) /\ Len(u) > 0
    BY <1>1, <1>2
  <2> QED BY <2>1, <1>2, <1>3, <1>4
<1> QED BY <1>2, <1>6, <1>7, <1>8 DEF Connected, Linked, u

\* ... those of two NALs, ...
LEMMA NalConnected ==
    ASSUME NEW N, NEW f \in FrameIndex, f \in DOMAIN N, NEW n \in Nat, n \in 1..Len(N[f]),
           N[f][n] \in Nat \ {0}, NEW s, s = NalDatagrams(f, n, N[f][n])
    PROVE  /\ s \in Seq(Packet) /\ s # <<>> /\ Connected(N, s)
           /\ s[1].f = f /\ IsData(N, s[1]) /\ s[1].i = 1
           /\ s[Len(s)].f = f /\ s[Len(s)].n = n /\ LastParity(s[Len(s)])
<1> DEFINE t == N[f][n]
<1>1. t \in Nat \ {0}
  OBVIOUS
<1>2. /\ Len(s) \in Nat /\ Len(s) > 1 /\ s \in Seq(Packet)
      /\ s[1].kind = "data" /\ s[1].i = 1 /\ LastParity(s[Len(s)])
      /\ \A k \in 1..Len(s) : s[k].f = f /\ s[k].n = n /\ s[k].total = t
      /\ \A k \in 1..Len(s) - 1 : InNal(s[k], s[k + 1]) /\ ~LastParity(s[k])
  <2>1. s = NalDatagrams(f, n, t)
    OBVIOUS
  <2> HIDE DEF t
  <2> QED BY <1>1, <2>1, NalChain
<1>3. \A k \in 1..Len(s) : IsData(N, s[k]) \/ IsParity(N, s[k])
  BY NalSound
<1>4. \A k \in 1..Len(s) : UdpPacket(N, s[k])
  BY <1>3 DEF UdpPacket
<1>5. ASSUME NEW k \in 1..Len(s) - 1 PROVE Follows(N, s[k], s[k + 1])
  <2>1. k \in 1..Len(s) /\ k + 1 \in 1..Len(s)
    BY <1>2
  <2>2. ~Final(N, s[k])
    BY <1>2 DEF Final
  <2>3. ~IsPose(N, s[k])
    BY <2>1, <1>3 DEF IsData, IsParity, IsPose
  <2>4. s[k + 1].f = s[k].f /\ s[k + 1].n = s[k].n /\ s[k + 1].total = s[k].total
    BY <2>1, <1>2
  <2> QED BY <1>2, <2>2, <2>3, <2>4 DEF Follows
<1>6. 1 \in 1..Len(s) /\ Len(s) \in 1..Len(s) /\ s # <<>>
  BY <1>2
<1>7. IsData(N, s[1])
  BY <1>2, <1>3, <1>6 DEF IsParity
<1> QED BY <1>2, <1>4, <1>5, <1>6, <1>7 DEF Connected, Linked

\* ... and those of a frame, from its pose to the last parity of its slice.
LEMMA FrameChain ==
    ASSUME NEW N, NEW f \in FrameIndex, f \in DOMAIN N, N[f] = Nals(f), ~tcp,
           NEW s, s = FramePackets(f)
    PROVE  s \in Seq(Packet) /\ Chain(N, s) /\ s # <<>> /\ IsPose(N, s[1]) /\ s[1].f = f
<1> DEFINE p == <<RenderPosePacket(f)>>
           a == NalDatagrams(f, 1, N[f][1])
           b == NalDatagrams(f, 2, N[f][2])
<1>0. /\ N[f] \in Seq(Nat \ {0}) /\ Len(N[f]) \in {1, 2}
      /\ Len(N[f]) = 2 <=> kind[f] = "key"
  BY NalFacts
<1>1. p \in Seq(Packet) /\ Len(p) = 1 /\ p # <<>> /\ p[1].f = f /\ p[1].total = 0 /\ p[1].kind = "pose"
      /\ IsPose(N, p[1])
  BY DEF RenderPosePacket, Datagram, Packet, IsPose
<1>2. Connected(N, p)
  <2>1. \A i \in 1..Len(p) : UdpPacket(N, p[i])
    BY <1>1 DEF UdpPacket
  <2> HIDE DEF p
  <2>2. 1..Len(p) - 1 = {}
    BY <1>1
  <2> QED BY <2>1, <2>2 DEF Connected, Linked
<1>3. /\ a \in Seq(Packet) /\ a # <<>> /\ Connected(N, a)
      /\ a[1].f = f /\ IsData(N, a[1]) /\ a[1].i = 1
      /\ a[Len(a)].f = f /\ a[Len(a)].n = 1 /\ LastParity(a[Len(a)])
  <2>1. 1 \in 1..Len(N[f]) /\ 1 \in Nat /\ N[f][1] \in Nat \ {0}
    BY <1>0
  <2> QED BY <2>1, NalConnected
<1> HIDE DEF p
<1>4. CASE kind[f] # "key"
  <2>1. s = p \o a /\ Len(N[f]) = 1
    BY <1>4, <1>0 DEF FramePackets, p
  <2> HIDE DEF a
  <2>2. Follows(N, p[Len(p)], a[1])
    BY <1>1, <1>3 DEF Follows, Final, LastParity
  <2>3. /\ Connected(N, p \o a) /\ p \o a \in Seq(Packet) /\ p \o a # <<>>
        /\ (p \o a)[1] = p[1] /\ (p \o a)[Len(p \o a)] = a[Len(a)]
    BY <1>1, <1>2, <1>3, <2>2, Joined
  <2>4. Final(N, a[Len(a)])
    BY <1>3, <2>1 DEF Final
  <2> QED BY <2>1, <2>3, <2>4, <1>1 DEF Chain, Connected
<1>5. CASE kind[f] = "key"
  <2>1. s = p \o (a \o b) /\ Len(N[f]) = 2
    BY <1>5, <1>0 DEF FramePackets, p
  <2>2. /\ b \in Seq(Packet) /\ b # <<>> /\ Connected(N, b)
        /\ b[1].f = f /\ IsData(N, b[1]) /\ b[1].i = 1
        /\ b[Len(b)].f = f /\ b[Len(b)].n = 2 /\ LastParity(b[Len(b)])
    <3>1. \A m \in {2} : m \in 1..m /\ m \in Nat
      OBVIOUS
    <3>2. 2 \in 1..Len(N[f]) /\ 2 \in Nat
      BY <2>1, <3>1
    <3>3. N[f][2] \in Nat \ {0}
      BY <3>2, <1>0, ElementOfSeq
    <3> QED BY <3>2, <3>3, NalConnected
  <2> HIDE DEF a, b
  <2>3. Follows(N, a[Len(a)], b[1])
    <3>1. ~Final(N, a[Len(a)])
      <4>1. a[Len(a)].n = 1 /\ Len(N[a[Len(a)].f]) = 2
        BY <1>3, <2>1
      <4> QED BY <4>1 DEF Final
    <3>2. b[1].f = a[Len(a)].f
      BY <1>3, <2>2
    <3> QED BY <3>1, <3>2, <1>3, <2>2 DEF Follows
  <2> DEFINE t == a \o b
  <2>4. /\ Connected(N, t) /\ t \in Seq(Packet) /\ t # <<>>
        /\ t[1] = a[1] /\ t[Len(t)] = b[Len(b)]
    BY <1>3, <2>2, <2>3, Joined
  <2> HIDE DEF t
  <2>5. Follows(N, p[Len(p)], t[1])
    BY <1>1, <1>3, <2>4 DEF Follows, Final, LastParity
  <2>6. /\ Connected(N, p \o t) /\ p \o t \in Seq(Packet) /\ p \o t # <<>>
        /\ (p \o t)[1] = p[1] /\ (p \o t)[Len(p \o t)] = t[Len(t)]
    BY <1>1, <1>2, <2>4, <2>5, Joined
  <2>7. Final(N, t[Len(t)])
    BY <2>1, <2>2, <2>4 DEF Final
  <2>8. s = p \o t
    BY <2>1 DEF t
  <2> QED BY <2>6, <2>7, <2>8, <1>1 DEF Chain, Connected
<1> QED BY <1>4, <1>5

LEMMA ChainTail ==
    ASSUME NEW N, NEW s \in Seq(Packet), s # <<>>, Chain(N, s)
    PROVE  /\ Chain(N, Tail(s)) /\ UdpPacket(N, s[1])
           /\ Tail(s) = <<>> => Final(N, s[1])
           /\ Tail(s) # <<>> => Follows(N, s[1], Tail(s)[1]) /\ UdpPacket(N, Tail(s)[1])
<1>1. /\ Tail(s) \in Seq(Packet) /\ Len(Tail(s)) = Len(s) - 1 /\ Len(s) \in Nat /\ Len(s) > 0
      /\ \A i \in 1..Len(s) - 1 : Tail(s)[i] = s[i + 1] /\ i + 1 \in 1..Len(s)
  OBVIOUS
<1> DEFINE t == Tail(s)
<1>2. t = <<>> <=> Len(s) = 1
  BY <1>1
<1> HIDE DEF t
<1>3. \A i \in 1..Len(t) : UdpPacket(N, t[i])
  BY <1>1 DEF Chain, t
<1>4. ASSUME NEW i \in 1..Len(t) - 1 PROVE Follows(N, t[i], t[i + 1])
  <2>1. i \in 1..Len(s) - 1 /\ i + 1 \in 1..Len(s) - 1
    BY <1>1 DEF t
  <2>2. t[i] = s[i + 1] /\ t[i + 1] = s[(i + 1) + 1]
    BY <2>1, <1>1 DEF t
  <2> QED BY <2>1, <2>2 DEF Chain, Linked
<1>5. ASSUME t # <<>> PROVE Final(N, t[Len(t)])
  <2>1. Len(s) - 1 \in 1..Len(s) - 1 /\ (Len(s) - 1) + 1 = Len(s)
    BY <1>1, <1>2, <1>5
  <2>2. t[Len(t)] = s[Len(s)]
    BY <2>1, <1>1 DEF t
  <2> QED BY <2>2 DEF Chain
<1>6. UdpPacket(N, s[1])
  BY <1>1 DEF Chain
<1>7. t = <<>> => Final(N, s[1])
  BY <1>2 DEF Chain
<1>8. ASSUME t # <<>> PROVE Follows(N, s[1], t[1]) /\ UdpPacket(N, t[1])
  <2>1. 1 \in 1..Len(s) - 1 /\ t[1] = s[1 + 1] /\ 1 \in 1..Len(t)
    BY <1>1, <1>2, <1>8 DEF t
  <2> QED BY <2>1, <1>3 DEF Chain, Linked
<1> QED BY <1>3, <1>4, <1>5, <1>6, <1>7, <1>8 DEF Chain, Linked, t

LEMMA ChainConcat ==
    ASSUME NEW N, NEW s \in Seq(Packet), NEW t \in Seq(Packet), Chain(N, s), Chain(N, t),
           t # <<>> => IsPose(N, t[1])
    PROVE  Chain(N, s \o t)
<1>1. CASE s = <<>>
  <2>1. s \o t = t
    BY <1>1
  <2> QED BY <2>1
<1>2. CASE t = <<>>
  <2>1. s \o t = s
    BY <1>2
  <2> QED BY <2>1
<1>3. CASE s # <<>> /\ t # <<>>
  <2>1. Connected(N, s) /\ Connected(N, t) /\ Follows(N, s[Len(s)], t[1])
    BY <1>3 DEF Chain, Connected, Follows
  <2>2. /\ Connected(N, s \o t) /\ s \o t \in Seq(Packet) /\ s \o t # <<>>
        /\ (s \o t)[Len(s \o t)] = t[Len(t)]
    BY <1>3, <2>1, Joined
  <2>3. Final(N, t[Len(t)])
    BY <1>3 DEF Chain
  <2> QED BY <2>2, <2>3 DEF Chain, Connected
<1> QED BY <1>1, <1>2, <1>3

\* A chain stays one as more frames are taken.
LEMMA ChainGrows ==
    ASSUME NEW M, NEW N, Extended(M, N), NEW s \in Seq(Packet), Chain(N, s)
    PROVE  Chain(M, s)
<1>1. \A d : UdpPacket(N, d) => UdpPacket(M, d) /\ d.f \in DOMAIN N
  BY OfStays DEF UdpPacket, IsPose, IsData, IsParity, Of
<1>2. \A d : UdpPacket(N, d) => (Final(N, d) <=> Final(M, d))
  BY <1>1 DEF Final, Extended
<1>3. \A d : UdpPacket(N, d) => (IsPose(N, d) <=> IsPose(M, d))
  BY <1>1 DEF IsPose, Extended
<1>4. \A d, e : UdpPacket(N, d) /\ UdpPacket(N, e) /\ Follows(N, d, e) => Follows(M, d, e)
  <2> TAKE d, e
  <2> HAVE UdpPacket(N, d) /\ UdpPacket(N, e) /\ Follows(N, d, e)
  <2>1. IsData(N, e) => IsData(M, e)
    BY OfStays
  <2> QED BY <2>1, <1>2, <1>3 DEF Follows
<1>5. \A i \in 1..Len(s) - 1 : i \in 1..Len(s) /\ i + 1 \in 1..Len(s)
  BY LenProperties
<1>6. s # <<>> => Len(s) \in 1..Len(s)
  OBVIOUS
<1> QED BY <1>1, <1>2, <1>4, <1>5, <1>6 DEF Chain, Linked

-----------------------------------------------------------------------------
(* What was sent of a NAL before a datagram of it.                         *)

\* The packets of a NAL that are sent before a packet of it.
DataBefore(d) == {i \in 1..d.total : IF d.kind = "data" THEN i < d.i ELSE i <= d.i * G}
FecBefore(d) == {g \in 1..GroupCount(d.total) : IF d.kind = "data" THEN g * G < d.i ELSE g < d.i}

Numbered(d) ==
    /\ d.total \in Nat
    /\ d.kind \in {"data", "fec"}
    /\ d.i \in (IF d.kind = "data" THEN 1..d.total ELSE 1..GroupCount(d.total))

LEMMA GroupSize == G \in Nat /\ G > 1
BY GroupAssumption DEF G

\* The groups before a datagram.
LEMMA Groups ==
    ASSUME NEW g \in Int, NEW h \in Int
    PROVE  /\ g * G \in Int /\ h * G \in Int
           /\ g <= h => g * G <= h * G
           /\ g * G < h * G => g < h
           /\ (g + 1) * G = g * G + G /\ (g - 1) * G = g * G - G
<1>1. G \in Nat /\ G \in Nat \ {0}
  BY GroupSize
<1>2. g <= h => g * G <= h * G
  BY <1>1, Order
<1>3. h <= g => h * G <= g * G
  BY <1>1, Order
<1>4. g * G \in Int /\ h * G \in Int
  BY <1>1
<1>5. g * G < h * G => g < h
  BY <1>3, <1>4
<1>6. (g + 1) * G = g * G + G /\ (g - 1) * G = g * G - G
  BY <1>1
<1> QED BY <1>2, <1>4, <1>5, <1>6

\* What was sent before the next datagram: one data packet more, or one parity.
LEMMA NextCounts ==
    ASSUME NEW d, NEW e, Numbered(d), Numbered(e), e.total = d.total, InNal(d, e)
    PROVE  /\ DataBefore(e) = DataBefore(d) \cup (IF d.kind = "data" THEN {d.i} ELSE {})
           /\ FecBefore(e) = FecBefore(d) \cup (IF d.kind = "fec" THEN {d.i} ELSE {})
<1> DEFINE t == d.total
           c == GroupCount(t)
           j == d.i
           k == e.i
<1>0. t \in Nat /\ c \in Nat
  BY GroupFacts DEF Numbered
<1>1. /\ d.kind = "data" => j \in 1..t
      /\ d.kind = "fec" => j \in 1..c
      /\ e.kind = "data" => k \in 1..t
      /\ e.kind = "fec" => k \in 1..c
  BY DEF Numbered
<1>2. /\ DataBefore(d) = {i \in 1..t : IF d.kind = "data" THEN i < j ELSE i <= j * G}
      /\ FecBefore(d) = {g \in 1..c : IF d.kind = "data" THEN g * G < j ELSE g < j}
      /\ DataBefore(e) = {i \in 1..t : IF e.kind = "data" THEN i < k ELSE i <= k * G}
      /\ FecBefore(e) = {g \in 1..c : IF e.kind = "data" THEN g * G < k ELSE g < k}
  BY DEF DataBefore, FecBefore
<1> HIDE DEF t, c
<1>3. CASE /\ d.kind = "data" /\ e.kind = "data" /\ k = j + 1
           /\ \E q \in Nat : q * G < j /\ j < (q + 1) * G
  <2>1. PICK q \in Nat : q * G < j /\ j < (q + 1) * G
    BY <1>3
  <2>2. j \in 1..t /\ k \in 1..t /\ k = j + 1
    BY <1>1, <1>3
  <2> HIDE DEF j, k
  <2>3. DataBefore(e) = DataBefore(d) \cup {j}
    BY <1>0, <1>2, <1>3, <2>2
  <2>4. ASSUME NEW g \in 1..c PROVE g * G < k <=> g * G < j
    <3>1. g \in Int /\ q \in Int /\ q + 1 \in Int /\ g * G \in Int /\ j \in Int
      BY <1>0, <2>2, Groups
    <3>2. g * G # j
      <4>1. CASE g <= q
        <5>1. g * G <= q * G /\ q * G \in Int
          BY <4>1, <3>1, Groups
        <5> QED BY <5>1, <3>1, <2>1
      <4>2. CASE q + 1 <= g
        <5>1. (q + 1) * G <= g * G /\ (q + 1) * G \in Int
          BY <4>2, <3>1, Groups
        <5> QED BY <5>1, <3>1, <2>1
      <4> QED BY <4>1, <4>2, <3>1
    <3> QED BY <3>1, <3>2, <2>2
  <2>5. FecBefore(e) = FecBefore(d)
    BY <1>2, <1>3, <2>4
  <2> QED BY <2>3, <2>5, <1>3 DEF j
<1>4. CASE /\ d.kind = "data" /\ e.kind = "fec" /\ (k - 1) * G < j /\ j <= k * G
           /\ j = t \/ j = k * G
  <2>1. j \in 1..t /\ k \in 1..c
    BY <1>1, <1>4
  <2> HIDE DEF j, k
  <2>2. k * G \in Int /\ k \in Int /\ k - 1 \in Int /\ (k - 1) * G \in Int
    BY <1>0, <2>1, Groups
  <2>3. \A i \in 1..t : i <= k * G <=> i < j \/ i = j
    BY <1>0, <2>1, <2>2, <1>4
  <2>4. DataBefore(e) = DataBefore(d) \cup {j}
    BY <1>2, <1>4, <2>1, <2>3
  <2>5. ASSUME NEW g \in 1..c PROVE g * G < j <=> g < k
    <3>1. g \in Int /\ g * G \in Int
      BY <1>0, Groups
    <3>2. g < k => g * G <= (k - 1) * G
      <4>1. g < k => g <= k - 1
        BY <3>1, <2>2
      <4> QED BY <4>1, <3>1, <2>2, Groups
    <3>3. g * G < k * G => g < k
      BY <3>1, <2>2, Groups
    <3>4. j \in Int
      BY <2>1
    <3>5. g < k => g * G < j
      BY <3>1, <3>2, <3>4, <2>2, <1>4
    <3>6. g * G < j => g * G < k * G
      BY <3>1, <3>4, <2>2, <1>4
    <3> QED BY <3>3, <3>5, <3>6
  <2>6. FecBefore(e) = FecBefore(d)
    BY <1>2, <1>4, <2>5
  <2> QED BY <2>4, <2>6, <1>4 DEF j
<1>5. CASE d.kind = "fec" /\ e.kind = "data" /\ k = j * G + 1
  <2>1. j \in 1..c /\ k \in 1..t
    BY <1>1, <1>5
  <2> HIDE DEF j, k
  <2>2. j * G \in Int /\ j \in Int
    BY <1>0, <2>1, Groups
  <2>3. \A i \in 1..t : i < k <=> i <= j * G
    BY <1>0, <1>5, <2>2
  <2>4. DataBefore(e) = DataBefore(d)
    BY <1>2, <1>5, <2>3
  <2>5. ASSUME NEW g \in 1..c PROVE g * G < k <=> g < j \/ g = j
    <3>1. g \in Int /\ g * G \in Int
      BY <1>0, Groups
    <3>2. g <= j => g * G <= j * G
      BY <3>1, <2>2, Groups
    <3>3. j * G < g * G => j < g
      BY <3>1, <2>2, Groups
    <3>4. j < g => j * G < g * G
      <4>1. j < g => j + 1 <= g
        BY <3>1, <2>2
      <4>2. j + 1 <= g => (j + 1) * G <= g * G
        <5>1. j + 1 \in Int
          BY <2>2
        <5> QED BY <5>1, <3>1, Groups
      <4>3. (j + 1) * G = j * G + G
        BY <3>1, <2>2, Groups
      <4> QED BY <4>1, <4>2, <4>3, <3>1, <2>2, GroupSize
    <3> QED BY <3>1, <3>2, <3>4, <2>2, <1>5
  <2>6. FecBefore(e) = FecBefore(d) \cup {j}
    <3>1. j \in 1..c
      BY <2>1
    <3> QED BY <1>2, <1>5, <2>5, <3>1
  <2> QED BY <2>4, <2>6, <1>5 DEF j
<1> QED BY <1>3, <1>4, <1>5 DEF InNal, t

\* Before the first datagram of a NAL nothing of it was sent, ...
LEMMA FirstCounts ==
    ASSUME NEW d, Numbered(d), d.kind = "data", d.i = 1
    PROVE  DataBefore(d) = {} /\ FecBefore(d) = {}
<1>1. d.total \in Nat /\ GroupCount(d.total) \in Nat
  BY GroupFacts DEF Numbered
<1>2. DataBefore(d) = {}
  BY <1>1 DEF DataBefore
<1>3. ASSUME NEW g \in 1..GroupCount(d.total) PROVE ~(g * G < 1)
  <2>1. g \in Int /\ 1 \in Int /\ 1 <= g /\ 1 * G = G
    BY <1>1, GroupSize
  <2>2. 1 * G <= g * G /\ g * G \in Int
    BY <2>1, Groups
  <2> QED BY <2>1, <2>2, GroupSize
<1>4. FecBefore(d) = {}
  BY <1>3 DEF FecBefore
<1> QED BY <1>2, <1>4

\* ... and before its last parity all its data and every other parity.
LEMMA LastCounts ==
    ASSUME NEW d, Numbered(d), LastParity(d)
    PROVE  /\ DataBefore(d) = 1..d.total
           /\ FecBefore(d) \cup {d.i} = 1..GroupCount(d.total)
<1> DEFINE t == d.total
           c == GroupCount(t)
<1>1. t \in Nat /\ c \in Nat /\ t <= c * G /\ d.i = c /\ d.kind = "fec" /\ c \in 1..c
  BY GroupFacts DEF Numbered, LastParity, G
<1>2. DataBefore(d) = {i \in 1..t : i <= c * G} /\ FecBefore(d) = {g \in 1..c : g < c}
  BY <1>1 DEF DataBefore, FecBefore
<1> HIDE DEF t, c
<1>3. c * G \in Int
  BY <1>1, Groups
<1>4. DataBefore(d) = 1..t
  BY <1>1, <1>2, <1>3
<1>5. FecBefore(d) \cup {c} = 1..c
  BY <1>1, <1>2
<1> QED BY <1>1, <1>4, <1>5 DEF t, c

\* Behind a NAL's last data packet comes its last parity.
LEMMA LastData ==
    ASSUME NEW d, NEW e, Numbered(d), Numbered(e), e.total = d.total, InNal(d, e),
           d.kind = "data", d.i = d.total
    PROVE  LastParity(e)
<1> DEFINE t == d.total
           c == GroupCount(t)
           k == e.i
<1>1. t \in Nat /\ t > 0 /\ c \in Nat /\ (c - 1) * G < t
  BY GroupFacts DEF Numbered, G
<1>2. e.kind = "fec" /\ t <= k * G /\ k \in 1..c
  <2>1. e.kind # "data"
    <3> SUFFICES ASSUME e.kind = "data" PROVE FALSE
      OBVIOUS
    <3>1. k = t + 1 /\ k \in 1..t
      BY DEF InNal, Numbered
    <3> QED BY <3>1, <1>1
  <2>2. e.kind = "fec" /\ t <= k * G
    BY <2>1 DEF InNal
  <2>3. k \in 1..c
    BY <2>2 DEF Numbered
  <2> QED BY <2>2, <2>3
<1> HIDE DEF t, c, k
<1>3. k \in Int /\ c - 1 \in Int /\ k * G \in Int /\ (c - 1) * G \in Int
  BY <1>1, <1>2, Groups
<1>4. c - 1 < k
  BY <1>1, <1>2, <1>3, Groups
<1>5. k = c
  BY <1>1, <1>2, <1>4
<1> QED BY <1>2, <1>5 DEF LastParity, t, c, k

\* Two packets are enough to have sent a parity or to be at one.
LEMMA TwoBefore ==
    ASSUME NEW d, Numbered(d), d.total > 1, d.kind = "fec" \/ FecBefore(d) # {}
    PROVE  {1, 2} \subseteq DataBefore(d)
<1> DEFINE t == d.total
           c == GroupCount(t)
           j == d.i
<1>1. t \in Nat /\ c \in Nat /\ {1, 2} \subseteq 1..t
  <2>1. t \in Nat /\ c \in Nat /\ t > 1
    BY GroupFacts DEF Numbered
  <2> HIDE DEF t, c
  <2> QED BY <2>1
<1>2. \A g \in 1..c : g * G \in Int /\ 2 <= g * G
  <2> TAKE g \in 1..c
  <2>1. g \in Int /\ 1 \in Int /\ 1 <= g /\ 1 * G = G
    BY <1>1, GroupSize
  <2>2. 1 * G <= g * G /\ g * G \in Int
    BY <2>1, Groups
  <2> QED BY <2>1, <2>2, GroupSize
<1>3. CASE d.kind = "fec"
  <2>1. j \in 1..c /\ DataBefore(d) = {i \in 1..t : i <= j * G}
    BY <1>3 DEF Numbered, DataBefore
  <2> HIDE DEF j, t, c
  <2> QED BY <2>1, <1>1, <1>2
<1>4. CASE d.kind # "fec"
  <2>1. j \in 1..t /\ DataBefore(d) = {i \in 1..t : i < j} /\ \E g \in 1..c : g * G < j
    BY <1>4 DEF Numbered, DataBefore, FecBefore
  <2> HIDE DEF j, t, c
  <2>2. PICK g \in 1..c : g * G < j
    BY <2>1
  <2>3. 2 < j
    BY <2>1, <2>2, <1>1, <1>2
  <2> QED BY <2>1, <2>3, <1>1
<1> QED BY <1>3, <1>4

-----------------------------------------------------------------------------
(* How far a slice has come when a datagram is next.                       *)

ParityHeld(p) == {g \in 1..GroupCount(p.total) : p.fec[g] # Missing}
\* With l losses, at most one datagram is missing: data L or parities F.
AtMostOne(l, L, F) ==
    \/ L = {} /\ F = {}
    \/ l = 1 /\ F = {} /\ \E x \in L : L = {x}
    \/ l = 1 /\ L = {} /\ \E g \in F : F = {g}
\* The slice of f was delivered.
Arrived(D, f) == \E r \in D : r.f = f /\ Len(r.got) > 1

\* The pending NAL holds what was sent of it before d, but for the data L and the parities F.
Lacks(p, d, L, F) ==
    IF p.total = 0 THEN L = DataBefore(d)
    ELSE /\ p.f = d.f /\ p.total = d.total
         /\ Received(p) = DataBefore(d) \ L /\ ParityHeld(p) = FecBefore(d) \ F

\* How far a slice has come when d is next on the way: at most one packet is missing.
Partway(p, D, l, d) ==
    \/ LastParity(d) /\ p.total = 0 /\ Arrived(D, d.f)
    \/ \E L \in SUBSET DataBefore(d), F \in SUBSET FecBefore(d) :
          AtMostOne(l, L, F) /\ Lacks(p, d, L, F) /\ (LastParity(d) => L # {})

\* The pending NAL is as the first datagram of the stream says; a pose begins with none.
Progress(s, p, D, l) == IF s # <<>> /\ s[1].total > 1 THEN Partway(p, D, l, s[1]) ELSE p.total = 0

\* The first packet is gone; if it was a frame's last, its slice has arrived.
Moves(N, s, p, D, l) ==
    Progress(Tail(s), p, D, l) /\ (Final(N, s[1]) => Arrived(D, s[1].f))

\* What d says about the packet e that is the first of t, the rest.
Turns(N, d, t, e) ==
    /\ d \in Packet /\ UdpPacket(N, d)
    /\ d.total <= 1 => ~Final(N, d)
    /\ d.total <= 1 /\ t # <<>> /\ e.total > 1 => Numbered(e) /\ e.kind = "data" /\ e.i = 1
    /\ d.total > 1 => Numbered(d) /\ d.f \in DOMAIN N /\ d.n = Len(N[d.f])
                      /\ (Final(N, d) <=> LastParity(d))
    /\ d.total > 1 /\ LastParity(d) => (t # <<>> => e.total = 0)
    /\ d.total > 1 /\ ~LastParity(d) =>
          t # <<>> /\ Numbered(e) /\ e.f = d.f /\ e.total = d.total /\ InNal(d, e)

\* The first of a chain and what follows it.
LEMMA Turn ==
    ASSUME NEW N, ShapeOk(N), NEW s \in Seq(Packet), s # <<>>, Chain(N, s)
    PROVE  Turns(N, s[1], Tail(s), Tail(s)[1])
<1> DEFINE d == s[1]
           t == Tail(s)
           e == t[1]
<1>1. /\ d \in Packet /\ UdpPacket(N, d)
      /\ t = <<>> => Final(N, d)
      /\ t # <<>> => Follows(N, d, e) /\ UdpPacket(N, e) /\ e \in Packet
  <2>1. /\ t = <<>> => Final(N, d)
        /\ t # <<>> => Follows(N, d, e) /\ UdpPacket(N, e)
        /\ UdpPacket(N, d)
    BY ChainTail
  <2>2. d \in Packet /\ t \in Seq(Packet)
    OBVIOUS
  <2>3. t # <<>> => e \in Packet
    BY <2>2
  <2> QED BY <2>1, <2>2, <2>3
<1> HIDE DEF d, t, e
<1>2. \A x \in Packet : (IsData(N, x) \/ IsParity(N, x)) => Numbered(x) /\ ~IsPose(N, x)
  BY DEF IsData, IsParity, IsPose, Numbered, Packet
<1>3. \A x \in Packet : UdpPacket(N, x) /\ x.total > 0 =>
          (IsData(N, x) \/ IsParity(N, x)) /\ Of(N, x)
  BY DEF UdpPacket, IsPose, IsData, IsParity
<1>4. \A x : Of(N, x) => x.f \in DOMAIN N /\ (x.total > 1 <=> x.n = Len(N[x.f]))
  BY DEF Of, ShapeOk
<1>5. d.total \in Nat /\ (t # <<>> => e.total \in Nat)
  BY <1>1 DEF Packet
<1>6. ASSUME d.total <= 1 PROVE ~Final(N, d)
  <2> SUFFICES ASSUME Final(N, d) PROVE FALSE
    OBVIOUS
  <2>1. d.total > 0 /\ d.kind = "fec"
    <3>1. d.kind = "fec"
      BY DEF Final, LastParity
    <3>2. IsParity(N, d)
      BY <3>1, <1>1 DEF UdpPacket, IsPose, IsData
    <3>3. d.i \in 1..GroupCount(d.total) /\ d.total = N[d.f][d.n] /\ d.f \in DOMAIN N /\ d.n \in 1..Len(N[d.f])
      BY <3>2 DEF IsParity, Of
    <3>4. N[d.f][d.n] \in Nat \ {0}
      BY <3>3, ElementOfSeq DEF ShapeOk
    <3> QED BY <3>1, <3>3, <3>4
  <2>2. Of(N, d)
    BY <2>1, <1>1, <1>3
  <2>3. d.total > 1
    BY <2>2, <1>4 DEF Final
  <2> QED BY <2>3, <1>5, <1>6
<1>7. ASSUME d.total <= 1, t # <<>>, e.total > 1
      PROVE  Numbered(e) /\ e.kind = "data" /\ e.i = 1
  <2>1. Follows(N, d, e) /\ ~Final(N, d) /\ e \in Packet /\ e.total # d.total
    BY <1>1, <1>5, <1>6, <1>7
  <2>2. IsData(N, e) /\ e.i = 1
    BY <2>1 DEF Follows
  <2> QED BY <2>1, <2>2, <1>2 DEF IsData
<1>8. ASSUME d.total > 1
      PROVE  /\ Numbered(d) /\ d.f \in DOMAIN N /\ d.n = Len(N[d.f])
             /\ Final(N, d) <=> LastParity(d)
             /\ ~IsPose(N, d)
  <2>1. d.total > 0
    BY <1>5, <1>8
  <2>2. (IsData(N, d) \/ IsParity(N, d)) /\ Of(N, d)
    BY <2>1, <1>1, <1>3
  <2>3. d.f \in DOMAIN N /\ d.n = Len(N[d.f])
    BY <2>2, <1>4, <1>8
  <2> QED BY <2>2, <2>3, <1>1, <1>2 DEF Final
<1>9. ASSUME d.total > 1, LastParity(d), t # <<>> PROVE e.total = 0
  BY <1>1, <1>8, <1>9 DEF Follows, IsPose
<1>10. ASSUME d.total > 1, ~LastParity(d)
       PROVE  t # <<>> /\ Numbered(e) /\ e.f = d.f /\ e.total = d.total /\ InNal(d, e)
  <2>1. ~Final(N, d) /\ ~IsPose(N, d)
    BY <1>8, <1>10
  <2>2. t # <<>> /\ Follows(N, d, e) /\ UdpPacket(N, e) /\ e \in Packet
    BY <2>1, <1>1
  <2>3. e.f = d.f /\ e.total = d.total /\ InNal(d, e)
    BY <2>1, <2>2, <1>10 DEF Follows
  <2>4. e.total > 0
    <3>1. d.total > 0
      BY <1>5, <1>10
    <3> QED BY <3>1, <2>3
  <2> QED BY <2>2, <2>3, <2>4, <1>2, <1>3
<1> QED BY <1>1, <1>6, <1>7, <1>8, <1>9, <1>10 DEF Turns, d, t, e

\* A parameter set or a pose goes by while nothing is pending.
LEMMA SmallMoves ==
    ASSUME NEW N, ShapeOk(N), NEW s \in Seq(Packet), s # <<>>, Chain(N, s),
           s[1].total <= 1, NEW p, p.total = 0, NEW D, NEW l
    PROVE  Moves(N, s, p, D, l)
<1> DEFINE t == Tail(s)
           e == t[1]
<1>1. ~Final(N, s[1]) /\ (t # <<>> /\ e.total > 1 => Numbered(e) /\ e.kind = "data" /\ e.i = 1)
  BY Turn DEF Turns
<1>2. ASSUME t # <<>>, e.total > 1 PROVE Partway(p, D, l, e)
  <2>1. Numbered(e) /\ e.kind = "data" /\ e.i = 1
    BY <1>1, <1>2
  <2> HIDE DEF e
  <2>2. DataBefore(e) = {} /\ FecBefore(e) = {} /\ ~LastParity(e)
    BY <2>1, FirstCounts DEF LastParity
  <2>3. AtMostOne(l, {}, {}) /\ Lacks(p, e, {}, {})
    BY <2>2 DEF AtMostOne, Lacks
  <2>4. {} \in SUBSET DataBefore(e) /\ {} \in SUBSET FecBefore(e)
    OBVIOUS
  <2> QED BY <2>2, <2>3, <2>4 DEF Partway
<1>3. Progress(t, p, D, l)
  BY <1>2 DEF Progress
<1> QED BY <1>1, <1>3 DEF Moves

\* A slice's last parity goes by.
LEMMA LastMoves ==
    ASSUME NEW N, ShapeOk(N), NEW s \in Seq(Packet), s # <<>>, Chain(N, s),
           s[1].total > 1, LastParity(s[1]), NEW p, p.total = 0, NEW D, Arrived(D, s[1].f), NEW l
    PROVE  Moves(N, s, p, D, l)
<1> DEFINE t == Tail(s)
           e == t[1]
<1>1. t # <<>> => e.total = 0
  BY Turn DEF Turns
<1>2. Progress(t, p, D, l)
  <2> HIDE DEF t
  <2>1. ~(t # <<>> /\ e.total > 1)
    BY <1>1
  <2> QED BY <2>1 DEF Progress
<1> QED BY <1>2 DEF Moves

\* A packet before the last goes by; what is missing is now L and F.
LEMMA InnerMoves ==
    ASSUME NEW N, ShapeOk(N), NEW s \in Seq(Packet), s # <<>>, Chain(N, s),
           NEW d, d = s[1], d.total > 1, ~LastParity(d), NEW p, NEW D, NEW l,
           NEW e, e = Tail(s)[1],
           \/ LastParity(e) /\ p.total = 0 /\ Arrived(D, d.f)
           \/ \E L \in SUBSET DataBefore(e), F \in SUBSET FecBefore(e) :
                 AtMostOne(l, L, F) /\ Lacks(p, e, L, F) /\ (LastParity(e) => L # {})
    PROVE  Moves(N, s, p, D, l)
<1>1. /\ Tail(s) # <<>> /\ e.f = d.f /\ e.total = d.total /\ ~Final(N, d)
  BY Turn DEF Turns
<1>2. Partway(p, D, l, e)
  BY <1>1 DEF Partway
<1> QED BY <1>1, <1>2 DEF Moves, Progress

\* The next packet is lost, the first.
LEMMA LossMoves ==
    ASSUME NEW N, ShapeOk(N), NEW s \in Seq(Packet), s # <<>>, Chain(N, s),
           NEW p, NEW D, Progress(s, p, D, 0)
    PROVE  Moves(N, s, p, D, 1)
<1> DEFINE d == s[1]
           e == Tail(s)[1]
<1>0. d.total \in Nat
  BY Turn DEF Turns, Packet
<1>1. CASE d.total <= 1
  <2>1. p.total = 0
    BY <1>0, <1>1 DEF Progress
  <2> QED BY <1>1, <2>1, SmallMoves
<1>2. CASE d.total > 1
  <2>1. Partway(p, D, 0, d)
    BY <1>2 DEF Progress
  <2>2. CASE LastParity(d) /\ p.total = 0 /\ Arrived(D, d.f)
    BY <1>2, <2>2, LastMoves
  <2>3. CASE ~(LastParity(d) /\ p.total = 0 /\ Arrived(D, d.f))
    <3>1. Lacks(p, d, {}, {}) /\ ~LastParity(d)
      <4>1. PICK L \in SUBSET DataBefore(d), F \in SUBSET FecBefore(d) :
                AtMostOne(0, L, F) /\ Lacks(p, d, L, F) /\ (LastParity(d) => L # {})
        BY <2>1, <2>3 DEF Partway
      <4>2. L = {} /\ F = {}
        BY <4>1 DEF AtMostOne
      <4> QED BY <4>1, <4>2
    <3>2. Numbered(d) /\ Numbered(e) /\ e.f = d.f /\ e.total = d.total /\ InNal(d, e)
      BY <3>1, <1>2, Turn DEF Turns
    <3> DEFINE L == IF d.kind = "data" THEN {d.i} ELSE {}
               F == IF d.kind = "fec" THEN {d.i} ELSE {}
    <3> HIDE DEF d, e
    <3>3. DataBefore(e) = DataBefore(d) \cup L /\ FecBefore(e) = FecBefore(d) \cup F
      BY <3>2, NextCounts
    <3>4. L \cap DataBefore(d) = {} /\ F \cap FecBefore(d) = {}
      BY <3>2 DEF DataBefore, FecBefore, Numbered
    <3>5. AtMostOne(1, L, F)
      BY <3>2 DEF AtMostOne, Numbered
    <3>6. LastParity(e) => L # {}
      <4>1. d.kind = "fec" => e.kind # "fec"
        BY <3>2 DEF InNal
      <4> QED BY <4>1, <3>2 DEF Numbered, LastParity
    <3>7. DataBefore(e) \ L = DataBefore(d) /\ FecBefore(e) \ F = FecBefore(d)
      BY <3>3, <3>4
    <3> HIDE DEF L, F
    <3>8. Lacks(p, e, L, F)
      BY <3>1, <3>2, <3>3, <3>7 DEF Lacks
    <3>9. L \in SUBSET DataBefore(e) /\ F \in SUBSET FecBefore(e)
      BY <3>3
    <3> QED BY <3>1, <3>5, <3>6, <3>8, <3>9, <1>2, InnerMoves DEF d, e
  <2> QED BY <2>2, <2>3
<1> QED BY <1>0, <1>1, <1>2

\* What a stored packet adds to the received ones.
LEMMA Gains ==
    ASSUME NEW b \in Partials, NEW d \in Packet, d.total = b.total, d.i \in 1..d.total
    PROVE  /\ Store(b, d) \in Partials /\ Store(b, d).f = b.f /\ Store(b, d).total = b.total
           /\ Received(Store(b, d)) = Received(b) \cup {d.i}
           /\ ParityHeld(Store(b, d)) = ParityHeld(b)
           /\ Received(b) \subseteq 1..b.total /\ Len(Store(b, d).slot) = b.total
<1> DEFINE q == Store(b, d)
<1>1. /\ q \in Partials /\ q.f = b.f /\ q.total = b.total /\ q.fec = b.fec
      /\ \A i \in 1..b.total : q.slot[i] =
           IF i = d.i /\ d.i <= d.total /\ b.slot[i] = Missing THEN d.n ELSE b.slot[i]
  BY StoredIsPartial
<1> HIDE DEF q
<1>2. \A x \in Partials : DOMAIN x.slot = 1..x.total /\ Len(x.slot) = x.total /\ x.total \in Nat
  BY DEF Partials
<1>3. d.n # Missing /\ d.i <= d.total
  BY <1>2 DEF Packet, Missing
<1>4. DOMAIN q.slot = 1..b.total /\ DOMAIN b.slot = 1..b.total /\ d.i \in 1..b.total
  BY <1>1, <1>2
<1>5. \A i \in 1..b.total : q.slot[i] # Missing <=> b.slot[i] # Missing \/ i = d.i
  BY <1>1, <1>3
<1>6. Received(q) = Received(b) \cup {d.i} /\ Received(b) \subseteq 1..b.total
  BY <1>4, <1>5 DEF Received
<1>7. ParityHeld(q) = ParityHeld(b)
  BY <1>1 DEF ParityHeld
<1> QED BY <1>1, <1>2, <1>6, <1>7 DEF q

\* A data packet is stored, and the NAL delivered if that completes it.
LEMMA DataMoves ==
    ASSUME NEW N, ShapeOk(N), NEW s \in Seq(Packet), s # <<>>, Chain(N, s),
           NEW p, NEW D, NEW l, Progress(s, p, D, l),
           NEW d, d = s[1], d.kind = "data",
           NEW b \in Partials, b.f = d.f, b.total = d.total,
           IF p.total = 0 THEN Received(b) = {} /\ ParityHeld(b) = {} ELSE b = p,
           NEW r, r = Store(b, d), NEW q, NEW E,
           IF Complete(r) THEN q.total = 0 /\ E = D \cup {[f |-> r.f, got |-> r.slot]}
                          ELSE q = r /\ E = D
    PROVE  Moves(N, s, q, E, l)
<1> DEFINE e == Tail(s)[1]
<1>1. Turns(N, d, Tail(s), e)
  BY Turn
<1> HIDE DEF e
<1>2. d \in Packet /\ d.total \in Nat /\ d.i \in 1..d.total
  BY <1>1 DEF Turns, Packet, UdpPacket, IsPose, IsData, IsParity
<1>3. /\ r.f = d.f /\ r.total = d.total /\ Received(r) = Received(b) \cup {d.i}
      /\ ParityHeld(r) = ParityHeld(b) /\ Received(b) \subseteq 1..d.total /\ Len(r.slot) = d.total
  BY <1>2, Gains
<1>4. ~LastParity(d)
  BY DEF LastParity
<1>5. CASE d.total <= 1
  <2>1. d.total = 1 /\ d.i = 1 /\ 1..1 = {1}
    BY <1>2, <1>5
  <2>2. Complete(r)
    BY <2>1, <1>3 DEF Complete
  <2>3. q.total = 0
    BY <2>2
  <2> QED BY <2>3, <1>5, SmallMoves
<1>6. CASE d.total > 1
  <2>1. PICK L \in SUBSET DataBefore(d), F \in SUBSET FecBefore(d) :
            AtMostOne(l, L, F) /\ Lacks(p, d, L, F)
    <3>1. s[1].total > 1
      BY <1>6
    <3>2. Partway(p, D, l, d)
      BY <3>1 DEF Progress
    <3> QED BY <3>2, <1>4 DEF Partway
  <2>2. Numbered(d) /\ Numbered(e) /\ e.f = d.f /\ e.total = d.total /\ InNal(d, e)
    BY <1>1, <1>4, <1>6 DEF Turns
  <2>3. Received(b) = DataBefore(d) \ L /\ ParityHeld(b) = FecBefore(d) \ F
    <3>1. CASE p.total = 0
      <4>1. L = DataBefore(d) /\ Received(b) = {} /\ ParityHeld(b) = {}
        BY <2>1, <3>1 DEF Lacks
      <4>2. FecBefore(d) # {} => {1, 2} \subseteq DataBefore(d)
        BY <2>2, <1>6, TwoBefore
      <4>3. FecBefore(d) = {}
        BY <4>1, <4>2, <2>1 DEF AtMostOne
      <4> QED BY <4>1, <4>3
    <3>2. CASE p.total # 0
      BY <2>1, <3>2 DEF Lacks
    <3> QED BY <3>1, <3>2
  <2>4. DataBefore(e) = DataBefore(d) \cup {d.i} /\ FecBefore(e) = FecBefore(d)
    <3>1. d.kind # "fec"
      OBVIOUS
    <3> QED BY <3>1, <2>2, NextCounts
  <2>5. d.i \notin DataBefore(d)
    BY <1>2 DEF DataBefore
  <2>6. Received(r) = DataBefore(e) \ L /\ ParityHeld(r) = FecBefore(e) \ F
    BY <1>3, <2>3, <2>4, <2>5
  <2>7. CASE Complete(r)
    <3>1. q.total = 0 /\ E = D \cup {[f |-> r.f, got |-> r.slot]}
      BY <2>7
    <3>2. Arrived(E, d.f)
      <4> DEFINE x == [f |-> r.f, got |-> r.slot]
      <4>1. x.f = d.f /\ Len(x.got) > 1 /\ x \in E
        BY <3>1, <1>3, <1>6
      <4> QED BY <4>1 DEF Arrived
    <3>3. d.i = d.total
      <4>1. d.total \in 1..d.total
        BY <1>2, <1>6
      <4>2. d.total \in Received(b) \cup {d.i}
        BY <4>1, <2>7, <1>3 DEF Complete
      <4>3. d.total \in DataBefore(d) => d.total < d.i
        BY DEF DataBefore
      <4> QED BY <4>2, <4>3, <2>3, <1>2
    <3>4. LastParity(e)
      BY <3>3, <2>2, LastData
    <3> QED BY <3>1, <3>2, <3>4, <1>4, <1>6, InnerMoves DEF e
  <2>8. CASE ~Complete(r)
    <3>1. q = r /\ E = D
      BY <2>8
    <3>2. LastParity(e) => L # {}
      <4> SUFFICES ASSUME LastParity(e), L = {} PROVE FALSE
        OBVIOUS
      <4>1. DataBefore(e) = 1..e.total
        BY <2>2, LastCounts
      <4>2. Received(r) = 1..r.total
        BY <4>1, <2>2, <2>6, <1>3
      <4> QED BY <4>2, <2>8, <1>2, <1>3, <1>6 DEF Complete
    <3>3. Lacks(q, e, L, F)
      <4>1. q.total # 0
        BY <3>1, <1>3, <1>6
      <4> QED BY <4>1, <3>1, <1>3, <2>2, <2>6 DEF Lacks
    <3>4. L \in SUBSET DataBefore(e) /\ F \in SUBSET FecBefore(e)
      BY <2>4
    <3> QED BY <3>2, <3>3, <3>4, <2>1, <1>4, <1>6, InnerMoves DEF e
  <2> QED BY <2>7, <2>8
<1> QED BY <1>2, <1>5, <1>6

\* What recovery fills and what it leaves.
LEMMA Regains ==
    ASSUME NEW p \in Partials
    PROVE  LET q == TryFecRecovery(p)
           IN /\ q \in Partials /\ q.f = p.f /\ q.total = p.total /\ ParityHeld(q) = ParityHeld(p)
              /\ Received(p) \subseteq Received(q) /\ Received(q) \subseteq 1..p.total
              /\ Len(q.slot) = p.total
              /\ \A i \in Received(q) : i \in Received(p) \/ GroupOf(i) \in ParityHeld(p)
              /\ \A i \in 1..p.total :
                    1..p.total \ {i} \subseteq Received(p) /\ GroupOf(i) \in ParityHeld(p)
                       => i \in Received(q)
<1> DEFINE q == TryFecRecovery(p)
<1>1. /\ q \in Partials /\ q.f = p.f /\ q.total = p.total /\ q.fec = p.fec
      /\ \A i \in 1..p.total :
           LET g == GroupOf(i)
               others == GroupRange(g, p.total) \ {i}
           IN q.slot[i] =
                IF p.slot[i] = Missing /\ p.fec[g] # Missing /\ others \subseteq Received(p)
                  THEN Decode(p, g, others) ELSE p.slot[i]
  BY Recovered
<1>2. \A x \in Partials : DOMAIN x.slot = 1..x.total /\ Len(x.slot) = x.total /\ x.total \in Nat
  BY DEF Partials
<1> HIDE DEF q
<1>3. /\ DOMAIN q.slot = 1..p.total /\ DOMAIN p.slot = 1..p.total /\ Len(q.slot) = p.total
      /\ p.total \in Nat
  BY <1>1, <1>2
<1>4. \A i \in 1..p.total : GroupOf(i) \in 1..GroupCount(p.total) /\ GroupOf(i) \in Int
  <2>1. \A i \in 1..p.total : GroupOf(i) \in 1..GroupCount(p.total)
    BY <1>3, GroupOfPacket
  <2>2. GroupCount(p.total) \in Nat
    BY <1>3, GroupFacts
  <2> QED BY <2>1, <2>2
<1>5. ASSUME NEW i \in 1..p.total, p.slot[i] # Missing PROVE q.slot[i] # Missing
  BY <1>1, <1>5
<1>6. ASSUME NEW i \in 1..p.total, q.slot[i] # Missing, p.slot[i] = Missing
      PROVE  p.fec[GroupOf(i)] # Missing
  BY <1>1, <1>6
<1>7. ASSUME NEW i \in 1..p.total, 1..p.total \ {i} \subseteq Received(p),
     p.fec[GroupOf(i)] # Missing
      PROVE  q.slot[i] # Missing
  <2> DEFINE g == GroupOf(i)
             others == GroupRange(g, p.total) \ {i}
  <2>1. GroupRange(g, p.total) \subseteq 1..p.total
    <3>1. (g - 1) * FecGroupSize \in Nat /\ g * FecGroupSize \in Int
      <4>1. g - 1 \in Nat /\ FecGroupSize \in Nat /\ g \in Nat
        <5>1. GroupCount(p.total) \in Nat /\ g \in 1..GroupCount(p.total)
          BY <1>3, <1>4, GroupFacts
        <5> HIDE DEF g
        <5> QED BY <5>1, GroupAssumption
      <4> HIDE DEF g
      <4> QED BY <4>1
    <3> HIDE DEF g
    <3> QED BY <3>1, <1>3 DEF GroupRange
  <2>2. others \subseteq Received(p)
    BY <2>1, <1>7
  <2>3. Decode(p, g, others) # Missing
    BY <1>7 DEF Decode, Mixed, Missing
  <2>4. CASE p.slot[i] = Missing
    <3>1. q.slot[i] = Decode(p, g, others)
      BY <2>2, <2>4, <1>1, <1>7
    <3> QED BY <3>1, <2>3
  <2> QED BY <2>4, <1>5
<1>8. ParityHeld(q) = ParityHeld(p)
  BY <1>1 DEF ParityHeld
<1>9. \A i \in 1..p.total : /\ GroupOf(i) \in ParityHeld(p) <=> p.fec[GroupOf(i)] # Missing
                            /\ i \in Received(p) <=> p.slot[i] # Missing
                            /\ i \in Received(q) <=> q.slot[i] # Missing
  BY <1>3, <1>4 DEF ParityHeld, Received
<1>10. Received(q) \subseteq 1..p.total /\ Received(p) \subseteq 1..p.total
  BY <1>3 DEF Received
<1> QED BY <1>1, <1>3, <1>5, <1>6, <1>7, <1>8, <1>9, <1>10 DEF q

\* A group lacks one packet if the NAL does and it is of that group.
LEMMA AllButOne ==
    ASSUME NEW t \in Nat, NEW x \in 1..t
    PROVE  IsFiniteSet(1..t \ {x}) /\ Cardinality(1..t \ {x}) + 1 = t
<1>1. IsFiniteSet(1..t) /\ Cardinality(1..t) = t
  <2>1. t >= 1 /\ 1 \in Int /\ t \in Int
    OBVIOUS
  <2>2. IsFiniteSet(1..t) /\ Cardinality(1..t) = t - 1 + 1
    BY <2>1, FS_Interval
  <2> QED BY <2>2
<1>2. IsFiniteSet(1..t \ {x}) /\ Cardinality(1..t \ {x}) = Cardinality(1..t) - 1
  BY <1>1, FS_RemoveElement
<1> QED BY <1>1, <1>2

\* What a stored parity adds.
LEMMA ParityGained ==
    ASSUME NEW p \in Partials, NEW d \in Packet, d.i \in 1..GroupCount(p.total),
           NEW h, h = [p EXCEPT !.fec[d.i] = d.n]
    PROVE  /\ h \in Partials /\ h.f = p.f /\ h.total = p.total /\ Received(h) = Received(p)
           /\ ParityHeld(h) = ParityHeld(p) \cup {d.i}
<1>1. d.i \in Nat /\ d.n \in Nat /\ d.n # Missing
  BY DEF Packet, Missing
<1>2. /\ h \in Partials /\ h.f = p.f /\ h.total = p.total /\ h.slot = p.slot
      /\ \A g \in 1..GroupCount(p.total) : h.fec[g] = IF g = d.i THEN d.n ELSE p.fec[g]
  BY <1>1, ParityIsKept
<1>3. \A g \in 1..GroupCount(p.total) : h.fec[g] # Missing <=> p.fec[g] # Missing \/ g = d.i
  BY <1>1, <1>2
<1>4. ParityHeld(h) = ParityHeld(p) \cup {d.i}
  BY <1>2, <1>3 DEF ParityHeld
<1> QED BY <1>2, <1>4 DEF Received

\* The parity is the pending NAL's, and new.
Fits(p, d) == d.f = p.f /\ p.total > 0 /\ d.i <= GroupCount(p.total) /\ p.fec[d.i] = Missing

\* A NAL is delivered or held.
Kept(r, D, q, E) ==
    IF Complete(r) THEN q.total = 0 /\ E = D \cup {[f |-> r.f, got |-> r.slot]}
                   ELSE q = r /\ E = D

\* A parity is kept and tried; what it recovers is what was lost.
LEMMA ParityMoves ==
    ASSUME NEW N, ShapeOk(N), NEW s \in Seq(Packet), s # <<>>, Chain(N, s),
           NEW p \in Partials, NEW D, NEW l, Progress(s, p, D, l),
           NEW d, d = s[1], d.kind = "fec",
           NEW h, h = [p EXCEPT !.fec[d.i] = d.n],
           NEW r, r = (IF Recoverable(h) THEN TryFecRecovery(h) ELSE h), NEW q, NEW E,
           Fits(p, d) => Kept(r, D, q, E), ~Fits(p, d) => q = p /\ E = D
    PROVE  Moves(N, s, q, E, l)
<1> DEFINE e == Tail(s)[1]
           t == d.total
           c == GroupCount(t)
<1>1. Turns(N, d, Tail(s), e)
  BY Turn
<1> HIDE DEF e
<1>2. d \in Packet /\ t \in Nat /\ c \in Nat /\ d.i \in 1..c
  <2>1. d \in Packet /\ t \in Nat /\ d.i \in 1..c
    BY <1>1 DEF Turns, Packet, UdpPacket, IsPose, IsData, IsParity
  <2> QED BY <2>1, GroupFacts
<1> HIDE DEF t, c
<1>3. CASE t <= 1
  <2>1. p.total = 0
    BY <1>2, <1>3 DEF Progress, t
  <2>2. q = p
    BY <2>1 DEF Fits
  <2> QED BY <2>1, <2>2, <1>3, SmallMoves DEF t
<1>4. CASE t > 1 /\ LastParity(d) /\ p.total = 0 /\ Arrived(D, d.f)
  <2>1. q = p /\ E = D
    BY <1>4 DEF Fits
  <2> QED BY <2>1, <1>4, LastMoves DEF t
<1>5. CASE t > 1 /\ ~(LastParity(d) /\ p.total = 0 /\ Arrived(D, d.f))
  <2>1. PICK L \in SUBSET DataBefore(d), F \in SUBSET FecBefore(d) :
            AtMostOne(l, L, F) /\ Lacks(p, d, L, F) /\ (LastParity(d) => L # {})
    <3>1. s[1].total > 1
      BY <1>5 DEF t
    <3>2. Partway(p, D, l, d)
      BY <3>1 DEF Progress
    <3> QED BY <3>2, <1>5 DEF Partway
  <2>2. Numbered(d)
    BY <1>1, <1>5 DEF Turns, t
  <2>3. p.total # 0
    <3> SUFFICES ASSUME p.total = 0 PROVE FALSE
      OBVIOUS
    <3>1. L = DataBefore(d)
      BY <2>1 DEF Lacks
    <3>2. {1, 2} \subseteq DataBefore(d)
      BY <2>2, <1>5, TwoBefore DEF t
    <3> QED BY <2>1, <3>1, <3>2 DEF AtMostOne
  <2>4. /\ p.f = d.f /\ p.total = t
        /\ Received(p) = DataBefore(d) \ L /\ ParityHeld(p) = FecBefore(d) \ F
    BY <2>1, <2>3 DEF Lacks, t
  <2>5. d.i \notin FecBefore(d)
    BY <1>2 DEF FecBefore
  <2>6. p.fec[d.i] = Missing /\ p.total > 0 /\ d.i <= GroupCount(p.total)
    <3>1. d.i \notin ParityHeld(p)
      BY <2>4, <2>5
    <3> QED BY <3>1, <2>4, <1>2, <1>5 DEF ParityHeld, c
  <2>7. IF Complete(r) THEN q.total = 0 /\ E = D \cup {[f |-> r.f, got |-> r.slot]}
                       ELSE q = r /\ E = D
    BY <2>4, <2>6 DEF Fits, Kept
  <2>8. /\ h \in Partials /\ h.f = d.f /\ h.total = t /\ Received(h) = Received(p)
        /\ ParityHeld(h) = ParityHeld(p) \cup {d.i}
    BY <1>2, <2>4, ParityGained DEF c
  <2>9. DataBefore(d) \subseteq 1..t
    BY DEF DataBefore, t
  <2>10. /\ r \in Partials /\ r.f = d.f /\ r.total = t /\ ParityHeld(r) = ParityHeld(h)
         /\ Received(h) \subseteq Received(r) /\ Received(r) \subseteq 1..t
         /\ Len(r.slot) = t
         /\ \A i \in Received(r) : i \in Received(h) \/ GroupOf(i) \in ParityHeld(h)
    <3>1. CASE Recoverable(h)
      <4>1. r = TryFecRecovery(h)
        BY <3>1
      <4> QED BY <4>1, <2>8, Regains
    <3>2. CASE ~Recoverable(h)
      <4>1. r = h
        BY <3>2
      <4> QED BY <4>1, <2>8, <2>4, <2>9 DEF Partials
    <3> QED BY <3>1, <3>2
  <2>11. CASE LastParity(d)
    <3>1. DataBefore(d) = 1..t /\ FecBefore(d) \cup {d.i} = 1..c
      BY <2>2, <2>11, LastCounts DEF t, c
    <3>2. PICK x \in L : L = {x} /\ F = {}
      BY <2>1, <2>11 DEF AtMostOne
    <3>3. x \in 1..t /\ Received(h) = 1..t \ {x} /\ ParityHeld(h) = 1..c
      BY <3>1, <3>2, <2>4, <2>8
    <3>4. Recoverable(h)
      <4>1. Cardinality(Received(h)) + 1 = t
        BY <3>3, <1>2, AllButOne
      <4> QED BY <4>1, <2>8, <1>2 DEF Recoverable
    <3>5. r = TryFecRecovery(h)
      BY <3>4
    <3>6. GroupOf(x) \in ParityHeld(h)
      BY <3>3, <1>2, GroupOfPacket DEF c
    <3>7. x \in Received(r)
      BY <3>3, <3>5, <3>6, <2>8, Regains
    <3>8. Complete(r)
      <4>1. Received(r) = 1..t
        BY <3>3, <3>7, <2>10
      <4>2. r.total = t /\ t > 0
        BY <2>10, <1>5, <1>2
      <4> QED BY <4>1, <4>2 DEF Complete
    <3>9. q.total = 0 /\ E = D \cup {[f |-> r.f, got |-> r.slot]}
      BY <3>8, <2>7
    <3>10. Arrived(E, d.f)
      <4> DEFINE y == [f |-> r.f, got |-> r.slot]
      <4>1. y.f = d.f /\ Len(y.got) > 1 /\ y \in E
        BY <3>9, <2>10, <1>5
      <4> QED BY <4>1 DEF Arrived
    <3> QED BY <3>9, <3>10, <2>11, <1>5, LastMoves DEF t
  <2>12. CASE ~LastParity(d)
    <3>1. Numbered(e) /\ e.f = d.f /\ e.total = t /\ InNal(d, e)
      BY <1>1, <1>5, <2>12 DEF Turns, t
    <3>2. DataBefore(e) = DataBefore(d) /\ FecBefore(e) = FecBefore(d) \cup {d.i}
      <4>1. d.kind # "data"
        OBVIOUS
      <4> QED BY <4>1, <3>1, <2>2, NextCounts DEF t
    <3>3. e.kind = "data" /\ e.i = d.i * G + 1 /\ e.i \in 1..t
      BY <3>1 DEF InNal, Numbered
    <3>4. \A i \in 1..t : i \in DataBefore(d) <=> i <= d.i * G
      BY DEF DataBefore, t
    <3>5. ParityHeld(h) \subseteq 1..d.i
      <4>1. \A g \in FecBefore(d) : g \in 1..d.i
        <5>1. \A g \in FecBefore(d) : g \in 1..c /\ g < d.i
          BY DEF FecBefore, t, c
        <5>2. d.i \in Nat
          BY <1>2
        <5> QED BY <5>1, <5>2
      <4>2. d.i \in 1..d.i
        <5>1. d.i \in Nat /\ d.i > 0
          BY <1>2
        <5> QED BY <5>1
      <4> QED BY <4>1, <4>2, <2>4, <2>8
    <3>6. Received(r) \subseteq DataBefore(d)
      <4> SUFFICES ASSUME NEW i \in Received(r) PROVE i \in DataBefore(d)
        OBVIOUS
      <4>1. CASE i \in Received(h)
        BY <4>1, <2>4, <2>8
      <4>2. CASE GroupOf(i) \in ParityHeld(h)
        <5> DEFINE g == GroupOf(i)
        <5>1. i \in 1..t /\ g \in 1..d.i /\ i <= g * G
          BY <4>2, <3>5, <2>10, <1>2, GroupOfPacket DEF G
        <5> HIDE DEF g
        <5>2. g \in Int /\ d.i \in Int /\ g <= d.i
          BY <5>1, <1>2
        <5>3. g * G <= d.i * G /\ g * G \in Int /\ d.i * G \in Int
          BY <5>2, Groups
        <5>4. i <= d.i * G
          BY <5>1, <5>3, <1>2
        <5> QED BY <5>1, <5>4, <3>4
      <4> QED BY <4>1, <4>2, <2>10
    <3>7. ~Complete(r)
      <4>1. e.i \notin DataBefore(d)
        <5>1. d.i * G \in Int
          BY <1>2, Groups
        <5> QED BY <5>1, <3>3, <3>4
      <4>2. e.i \notin Received(r)
        BY <4>1, <3>6
      <4> QED BY <4>2, <3>3, <2>10 DEF Complete
    <3>8. q = r /\ E = D
      BY <3>7, <2>7
    <3> DEFINE K == DataBefore(e) \ Received(r)
    <3>9. K \subseteq L /\ Received(r) = DataBefore(e) \ K
      BY <3>2, <3>6, <2>4, <2>8, <2>10
    <3>10. AtMostOne(l, K, F)
      <4>1. CASE L = {}
        <5>1. K = {}
          BY <4>1, <3>9
        <5> HIDE DEF K
        <5> QED BY <5>1, <4>1, <2>1 DEF AtMostOne
      <4>2. CASE L # {}
        <5>1. PICK x \in L : L = {x} /\ F = {} /\ l = 1
          BY <4>2, <2>1 DEF AtMostOne
        <5>2. K = {} \/ K = {x}
          BY <5>1, <3>9
        <5> HIDE DEF K
        <5> QED BY <5>1, <5>2 DEF AtMostOne
      <4> QED BY <4>1, <4>2
    <3>11. ParityHeld(r) = FecBefore(e) \ F
      <4>1. d.i \notin F
        BY <2>5
      <4> QED BY <4>1, <3>2, <2>4, <2>8, <2>10
    <3>12. Lacks(q, e, K, F)
      <4>1. q.total # 0
        BY <3>8, <2>10, <1>5, <1>2
      <4> HIDE DEF K
      <4> QED BY <4>1, <3>8, <3>9, <3>11, <3>1, <2>10 DEF Lacks
    <3>13. K \in SUBSET DataBefore(e) /\ F \in SUBSET FecBefore(e)
      BY <3>2
    <3>14. ~LastParity(e)
      BY <3>3 DEF LastParity
    <3> HIDE DEF K
    <3> QED BY <3>10, <3>12, <3>13, <3>14, <2>12, <1>5, InnerMoves DEF e, t
  <2> QED BY <2>11, <2>12
<1> QED BY <1>2, <1>3, <1>4, <1>5

-----------------------------------------------------------------------------
(* The steps.                                                              *)

\* Before a second loss the client asks for no packets, ...
NoNacks == \A i \in 1..Len(control) : ~IsNack(control[i])
\* ... and a frame that was taken has arrived or is still on its way.
AllCome == \A f \in sent : Arrived(delivered, f) \/ \E i \in 1..Len(Stream) : Stream[i].f = f
\* While there was at most one loss: nothing is resent, datagrams come in the order of sending,
\* and the pending NAL lacks at most the one.
Repair == ~tcp /\ losses <= 1 =>
    /\ resend = <<>> /\ NoNacks
    /\ Chain(Shapes, Stream) /\ Progress(Stream, pendingNal, delivered, losses)
    /\ AllCome

\* The steps that leave the stream alone.
LEMMA RepairFrame ==
    ASSUME TransportInv, Repair, Grown, UNCHANGED <<resend, pendingNal, delivered, losses, sent>>,
           Stream' = Stream, NoNacks => NoNacks'
    PROVE  Repair'
<1> SUFFICES ASSUME ~tcp, losses <= 1
             PROVE  /\ resend' = <<>> /\ NoNacks'
                    /\ Chain(Shapes', Stream') /\ Progress(Stream', pendingNal', delivered',
                         losses')
                    /\ AllCome'
  BY DEF Repair, Grown
<1>1. /\ resend = <<>> /\ NoNacks
      /\ Chain(Shapes, Stream) /\ Progress(Stream, pendingNal, delivered, losses)
      /\ AllCome
  BY DEF Repair
<1>2. Stream \in Seq(Packet)
  BY Moved DEF TransportInv, LinkType, Stream
<1>3. Chain(Shapes', Stream)
  BY <1>1, <1>2, ChainGrows DEF Grown
<1>4. AllCome'
  BY <1>1 DEF AllCome
<1> QED BY <1>1, <1>3, <1>4

\* A frame is taken: its datagrams continue the chain.
LEMMA TakeRepair ==
    ASSUME TransportInv, Repair, Grown, TakeFrame
    PROVE  Repair'
<1>1. UNCHANGED <<net, resend, control, pendingNal, delivered, losses>> /\ sending = <<>>
  BY DEF TakeFrame, link, nack, receive
<1>2. NoNacks => NoNacks'
  BY <1>1 DEF NoNacks
<1>3. CASE UNCHANGED <<sending, sent>>
  <2>1. Stream' = Stream
    BY <1>1, <1>3 DEF Stream
  <2> QED BY <1>1, <1>2, <1>3, <2>1, RepairFrame
<1>4. CASE ~UNCHANGED <<sending, sent>>
  <2> DEFINE f == Head(sendQueue)
             s == FramePackets(f)
  <2>1. f \in FrameIndex /\ sent' = sent \cup {f} /\ sending' = s /\ kind' = kind
    <3>1. sendQueue \in Seq(FrameIndex) /\ sendQueue # <<>> /\ f = sendQueue[1] /\ 1 \in 1..Len(sendQueue)
      BY DEF TakeFrame, TransportInv, ServerInv, ServerType
    <3>2. f \in FrameIndex
      BY <3>1
    <3> QED BY <3>2, <1>4 DEF TakeFrame, encode
  <2>2. f \in DOMAIN Shapes' /\ Shapes'[f] = Nals(f)
    BY <2>1 DEF Shapes, Nals
  <2> HIDE DEF s, f
  <2> SUFFICES ASSUME ~tcp, losses <= 1
               PROVE  /\ resend' = <<>> /\ NoNacks'
                      /\ Chain(Shapes', Stream')
                      /\ Progress(Stream', pendingNal', delivered', losses')
                      /\ AllCome'
    BY <1>1 DEF Repair, Grown
  <2>3. /\ resend = <<>> /\ NoNacks
        /\ Chain(Shapes, Stream) /\ Progress(Stream, pendingNal, delivered, losses)
        /\ AllCome
    BY DEF Repair
  <2>4. s \in Seq(Packet) /\ Chain(Shapes', s) /\ s # <<>> /\ IsPose(Shapes', s[1]) /\ s[1].f = f
    BY <2>1, <2>2, FrameChain DEF s
  <2>5. net \in Seq(Packet) /\ Stream = net /\ Stream' = net \o s
    BY <1>1, <2>1, <2>4, Moved DEF Stream, TransportInv, LinkType
  <2>6. Chain(Shapes', net)
    BY <2>3, <2>5, ChainGrows DEF Grown
  <2>7. Chain(Shapes', Stream')
    BY <2>4, <2>5, <2>6, ChainConcat
  <2>8. /\ Len(net \o s) = Len(net) + Len(s) /\ Len(net) \in Nat /\ Len(s) \in Nat /\ Len(s) > 0
        /\ \A i \in 1..Len(net) + Len(s) : (net \o s)[i] = IF i <= Len(net) THEN net[i] ELSE s[i - Len(net)]
    BY <2>4, <2>5, ConcatProperties
  <2>9. \A i \in 1..Len(net) : (net \o s)[i] = net[i]
    BY <2>8
  <2>10. (net \o s)[Len(net) + 1] = s[1]
    <3>1. Len(net) + 1 \in 1..Len(net) + Len(s) /\ ~(Len(net) + 1 <= Len(net)) /\ (Len(net) + 1) - Len(net) = 1
      BY <2>8
    <3> QED BY <3>1, <2>8
  <2>11. Progress(Stream', pendingNal, delivered, losses)
    <3>1. CASE net = <<>>
      <4>1. Stream' = s
        BY <2>4, <2>5, <3>1
      <4>2. pendingNal.total = 0
        BY <2>3, <2>5, <3>1 DEF Progress
      <4>3. ~(s[1].total > 1)
        BY <2>4 DEF IsPose
      <4> QED BY <4>1, <4>2, <4>3 DEF Progress
    <3>2. CASE net # <<>>
      <4>1. Stream'[1] = Stream[1] /\ Stream # <<>>
        BY <3>2, <2>5, <2>8, <2>9
      <4>2. Stream' # <<>>
        BY <2>5, <2>8
      <4> QED BY <4>1, <4>2, <2>3 DEF Progress
    <3> QED BY <3>1, <3>2
  <2>12. ASSUME NEW g \in sent'
         PROVE  Arrived(delivered', g) \/ \E i \in 1..Len(Stream') : Stream'[i].f = g
    <3>1. CASE g = f
      <4>1. Len(net) + 1 \in 1..Len(Stream') /\ Stream'[Len(net) + 1].f = g
        BY <2>4, <2>5, <2>8, <2>10, <3>1
      <4> QED BY <4>1
    <3>2. CASE g \in sent
      <4>1. Arrived(delivered, g) \/ \E i \in 1..Len(net) : net[i].f = g
        BY <2>3, <2>5, <3>2 DEF AllCome
      <4>2. \A i \in 1..Len(net) : i \in 1..Len(Stream') /\ Stream'[i] = net[i]
        BY <2>5, <2>8, <2>9
      <4> QED BY <4>1, <4>2, <1>1
    <3> QED BY <3>1, <3>2, <2>1
  <2> QED BY <1>1, <1>2, <2>3, <2>7, <2>11, <2>12 DEF AllCome
<1> QED BY <1>3, <1>4

\* The first packet leaves the link.
LEMMA MovedRepair ==
    ASSUME TransportInv, Repair, Grown, ~tcp, losses <= 1, net # <<>>, net' = Tail(net),
           UNCHANGED <<sending, resend, sent>>, NoNacks => NoNacks',
                delivered \subseteq delivered',
           Chain(Shapes, Stream) => Moves(Shapes, Stream, pendingNal', delivered', losses')
    PROVE  Repair'
<1>1. /\ resend = <<>> /\ NoNacks
      /\ Chain(Shapes, Stream) /\ Progress(Stream, pendingNal, delivered, losses)
      /\ AllCome
  BY DEF Repair
<1>2. /\ Stream \in Seq(Packet) /\ Stream # <<>> /\ Stream' = Tail(Stream)
  BY Moved DEF TransportInv, LinkType, Stream
<1> DEFINE s == Stream
           t == Tail(Stream)
<1>3. t \in Seq(Packet) /\ Len(t) = Len(s) - 1 /\ Len(s) \in Nat /\ Len(s) > 0
      /\ \A i \in 1..Len(s) - 1 : t[i] = s[i + 1]
  BY <1>2
<1>4. Chain(Shapes, t) /\ (t = <<>> => Final(Shapes, s[1])) /\ (t # <<>> => Follows(Shapes, s[1],
     t[1]))
  BY <1>1, <1>2, ChainTail
<1>5. Progress(t, pendingNal', delivered', losses') /\ (Final(Shapes,
     s[1]) => Arrived(delivered', s[1].f))
  BY <1>1 DEF Moves
<1>6. Stream' = t
  BY <1>2
<1> HIDE DEF s, t
<1>7. Chain(Shapes', t)
  BY <1>3, <1>4, ChainGrows DEF Grown
<1>8. ASSUME NEW f \in sent'
      PROVE  Arrived(delivered', f) \/ \E i \in 1..Len(t) : t[i].f = f
  <2>1. CASE Arrived(delivered, f)
    BY <2>1 DEF Arrived
  <2>2. CASE ~Arrived(delivered, f)
    <3>1. PICK i \in 1..Len(s) : s[i].f = f
      BY <2>2, <1>1 DEF AllCome, s
    <3>2. CASE i = 1
      <4>1. CASE Final(Shapes, s[1])
        BY <4>1, <3>1, <3>2, <1>5
      <4>2. CASE ~Final(Shapes, s[1])
        <5>1. t # <<>> /\ t[1].f = f
          BY <4>2, <3>1, <3>2, <1>4 DEF Follows
        <5>2. 1 \in 1..Len(t)
          BY <5>1, <1>3
        <5> QED BY <5>1, <5>2
      <4> QED BY <4>1, <4>2
    <3>3. CASE i # 1
      <4>1. i - 1 \in 1..Len(s) - 1 /\ (i - 1) + 1 = i
        BY <3>3, <1>3
      <4>2. t[i - 1].f = f /\ i - 1 \in 1..Len(t)
        BY <4>1, <3>1, <1>3
      <4> QED BY <4>2
    <3> QED BY <3>2, <3>3
  <2> QED BY <2>1, <2>2
<1>9. AllCome'
  BY <1>6, <1>8 DEF AllCome
<1> QED BY <1>1, <1>5, <1>6, <1>7, <1>9 DEF Repair

\* The one loss: a packet that the rest of its NAL makes good.
LEMMA LoseRepair ==
    ASSUME TransportInv, Repair, Grown, Lose
    PROVE  Repair'
<1>1. /\ ~tcp /\ net # <<>> /\ net' = Tail(net) /\ losses' = losses + 1 /\ losses \in Nat
      /\ UNCHANGED <<sending, resend, sent, control, pendingNal, delivered>>
  BY DEF Lose, send, nack, receive, TransportInv, LinkType
<1>2. CASE losses' <= 1
  <2>1. losses = 0 /\ losses' = 1
    BY <1>1, <1>2
  <2>2. NoNacks => NoNacks'
    BY <1>1 DEF NoNacks
  <2>3. Stream \in Seq(Packet) /\ Stream # <<>>
    BY <1>1, Moved DEF TransportInv, LinkType, Stream
  <2>4. Progress(Stream, pendingNal, delivered, 0)
    BY <1>1, <2>1 DEF Repair
  <2>5. ASSUME Chain(Shapes, Stream) PROVE Moves(Shapes, Stream, pendingNal, delivered, 1)
    BY <2>3, <2>4, <2>5, LossMoves, ShapesOk
  <2> QED BY <1>1, <2>1, <2>2, <2>5, MovedRepair
<1>3. CASE ~(losses' <= 1)
  BY <1>3 DEF Repair
<1> QED BY <1>2, <1>3

\* A datagram is received.
LEMMA ReceiveRepair ==
    ASSUME TransportInv, Repair, Grown, ReceiveThread
    PROVE  Repair'
<1> DEFINE d == Head(net)
           p == pendingNal
<1>1. /\ ~tcp /\ net # <<>> /\ net' = Tail(net) /\ UNCHANGED <<sending, resend, sent, losses>>
      /\ \/ d.kind = "pose" /\ UNCHANGED <<control, pendingNal, delivered>>
         \/ d.kind = "fec" /\ ReassembleFec(d)
         \/ d.kind = "data" /\ ReassembleData(d)
  BY DEF ReceiveThread, send, nack, receive
<1>2. CASE losses <= 1
  <2>1. Progress(Stream, pendingNal, delivered, losses) /\ Chain(Shapes, Stream)
    BY <1>1, <1>2 DEF Repair
  <2>2. Stream \in Seq(Packet) /\ Stream # <<>> /\ d = Stream[1] /\ d \in Packet
    BY <1>1, Moved DEF TransportInv, LinkType, Stream
  <2>3. ShapeOk(Shapes) /\ pendingNal \in Partials
    BY ShapesOk DEF TransportInv, ClientType
  <2>4. Turns(Shapes, d, Tail(Stream), Tail(Stream)[1])
    BY <2>1, <2>2, <2>3, Turn
  <2> HIDE DEF d
  <2>5. CASE d.kind = "pose"
    <3>1. UNCHANGED <<control, pendingNal, delivered>>
      BY <1>1, <2>5
    <3>2. d.total = 0
      BY <2>4, <2>5 DEF Turns, UdpPacket, IsPose, IsData, IsParity
    <3>3. pendingNal.total = 0 /\ Stream[1].total <= 1
      BY <3>2, <2>1, <2>2 DEF Progress
    <3>4. Moves(Shapes, Stream, pendingNal, delivered, losses)
      BY <3>3, <2>1, <2>2, <2>3, SmallMoves
    <3>5. NoNacks => NoNacks'
      BY <3>1 DEF NoNacks
    <3> QED BY <3>1, <3>4, <3>5, <1>1, <1>2, MovedRepair
  <2>6. CASE d.kind = "fec"
    <3> DEFINE h == [pendingNal EXCEPT !.fec[d.i] = d.n]
               r == IF Recoverable(h) THEN TryFecRecovery(h) ELSE h
    <3>1. control' = control
          /\ IF d.f = pendingNal.f /\ pendingNal.total > 0 /\ d.i <= GroupCount(pendingNal.total)
                /\ pendingNal.fec[d.i] = Missing
               THEN IF Complete(r) THEN Deliver(r) ELSE Hold(r)
               ELSE UNCHANGED <<pendingNal, delivered>>
      BY <1>1, <2>6 DEF ReassembleFec
    <3> HIDE DEF h, r
    <3>2. /\ Fits(pendingNal, d) => Kept(r, delivered, pendingNal', delivered')
          /\ ~Fits(pendingNal, d) => pendingNal' = pendingNal /\ delivered' = delivered
      BY <3>1 DEF Deliver, Hold, NoNal, Fits, Kept
    <3>3. Moves(Shapes, Stream, pendingNal', delivered', losses)
      <4>1. h = [pendingNal EXCEPT !.fec[d.i] = d.n]
        BY DEF h
      <4>2. r = (IF Recoverable(h) THEN TryFecRecovery(h) ELSE h)
        BY DEF r
      <4> QED BY <4>1, <4>2, <3>2, <2>1, <2>2, <2>3, <2>6, ParityMoves
    <3>4. delivered \subseteq delivered'
      BY <3>2 DEF Kept
    <3>5. NoNacks => NoNacks'
      BY <3>1 DEF NoNacks
    <3> QED BY <3>3, <3>4, <3>5, <1>1, <1>2, MovedRepair
  <2>7. CASE d.kind = "data"
    <3> DEFINE b == IF NewFrame(d) THEN Fresh(d) ELSE pendingNal
               r == Store(b, d)
    <3>1. pendingNal.total # 0 => pendingNal.f = d.f /\ pendingNal.total = d.total
      <4>1. CASE d.total > 1
        <5>1. Partway(pendingNal, delivered, losses, d)
          BY <4>1, <2>1, <2>2 DEF Progress
        <5> QED BY <5>1 DEF Partway, Lacks
      <4>2. CASE ~(d.total > 1)
        BY <4>2, <2>1, <2>2 DEF Progress
      <4> QED BY <4>1, <4>2
    <3>2. NewFrame(d) <=> pendingNal.total = 0
      BY <3>1 DEF NewFrame
    <3>3. ~(NewFrame(d) /\ Partial(pendingNal))
      BY <3>2 DEF Partial
    <3>4. control' = control /\ IF Complete(r) THEN Deliver(r) ELSE Hold(r)
      <4>1. /\ IF NewFrame(d) /\ Partial(pendingNal) THEN DropPending(TryFecRecovery(pendingNal))
                 ELSE UNCHANGED <<unseen, control>>
            /\ IF Complete(r) THEN Deliver(r) ELSE Hold(r)
        BY <1>1, <2>7, <3>3 DEF ReassembleData
      <4> QED BY <4>1, <3>3
    <3>5. /\ b \in Partials /\ b.f = d.f /\ b.total = d.total
          /\ IF pendingNal.total = 0 THEN Received(b) = {} /\ ParityHeld(b) = {} ELSE b = pendingNal
      <4>1. CASE pendingNal.total = 0
        <5>1. b = Fresh(d)
          BY <4>1, <3>2
        <5>2. /\ Fresh(d) \in Partials /\ Fresh(d).f = d.f /\ Fresh(d).total = d.total
              /\ \A i \in 1..d.total : Fresh(d).slot[i] = Missing
              /\ \A g \in 1..GroupCount(d.total) : Fresh(d).fec[g] = Missing
          BY <2>2, FreshIsPartial
        <5>3. DOMAIN Fresh(d).slot = 1..d.total
          BY DEF Fresh
        <5>4. Received(Fresh(d)) = {} /\ ParityHeld(Fresh(d)) = {}
          BY <5>2, <5>3 DEF Received, ParityHeld
        <5> HIDE DEF b
        <5> QED BY <4>1, <5>1, <5>2, <5>4
      <4>2. CASE pendingNal.total # 0
        <5>1. b = pendingNal
          BY <4>2, <3>2
        <5> HIDE DEF b
        <5> QED BY <4>2, <5>1, <3>1, <2>3
      <4> QED BY <4>1, <4>2
    <3> HIDE DEF b
    <3>6. IF Complete(r)
            THEN pendingNal'.total = 0 /\ delivered' = delivered \cup {[f |-> r.f,
                 got |-> r.slot]}
            ELSE pendingNal' = r /\ delivered' = delivered
      BY <3>4 DEF Deliver, Hold, NoNal
    <3>7. Moves(Shapes, Stream, pendingNal', delivered', losses)
      BY <3>5, <3>6, <2>1, <2>2, <2>3, <2>7, DataMoves
    <3>8. delivered \subseteq delivered'
      BY <3>6
    <3>9. NoNacks => NoNacks'
      BY <3>4 DEF NoNacks
    <3> QED BY <3>7, <3>8, <3>9, <1>1, <1>2, MovedRepair
  <2> QED BY <1>1, <2>5, <2>6, <2>7 DEF d
<1>3. CASE ~(losses <= 1)
  BY <1>1, <1>3 DEF Repair
<1> QED BY <1>2, <1>3

\* No request for packets is answered, for there is none.
LEMMA ControlRepair ==
    ASSUME TransportInv, Repair, Grown, ControlThread
    PROVE  Repair'
<1>1. UNCHANGED <<sending, sent, losses, pendingNal, delivered, tcp>>
  BY DEF ControlThread, HandleKeyframeRequest, HandleNackRequest, Retransmit, send, link, receive
<1>2. CASE tcp \/ ~(losses <= 1)
  BY <1>1, <1>2 DEF Repair
<1>3. CASE ~tcp /\ losses <= 1
  <2>1. resend = <<>> /\ NoNacks
    BY <1>3 DEF Repair
  <2>2. control \in Seq(KeyRequests \cup NackRequests)
    BY DEF TransportInv, LinkType
  <2>3. control # <<>> => Head(control).type # "NackRequest"
    BY <2>1, <2>2 DEF NoNacks, IsNack
  <2>4. HandleKeyframeRequest
    BY <2>1, <2>3 DEF ControlThread, HandleNackRequest, Retransmit
  <2>5. UNCHANGED <<net, resend>> /\ control # <<>> /\ control' = Tail(control)
    BY <2>4 DEF HandleKeyframeRequest, link, nack
  <2>6. NoNacks'
    <3>1. Len(control') = Len(control) - 1 /\ Len(control) \in Nat
          /\ \A i \in 1..Len(control) - 1 : control'[i] = control[i + 1] /\ i + 1 \in 1..Len(control)
      BY <2>2, <2>5
    <3> QED BY <3>1, <2>1 DEF NoNacks, IsNack
  <2>7. Stream' = Stream
    BY <1>1, <2>5 DEF Stream
  <2> QED BY <1>1, <2>5, <2>6, <2>7, RepairFrame
<1> QED BY <1>2, <1>3

\* At the end of a frame the client asks for a key frame at most.
LEMMA RequestRepair ==
    ASSUME TransportInv, Repair, Grown, RunFrameEnd
    PROVE  Repair'
<1>1. UNCHANGED <<net, sending, sent, resend, losses, pendingNal, delivered>>
  BY DEF RunFrameEnd, RequestKeyframe, send, link, nack
<1>2. control' = control \/ control' = Append(control, [type |-> "RequestKeyframe"])
  BY DEF RunFrameEnd, RequestKeyframe, SendKeyframeRequest
<1>3. ASSUME NoNacks PROVE NoNacks'
  <2>1. CASE control' = control
    BY <1>3, <2>1 DEF NoNacks
  <2>2. CASE control' = Append(control, [type |-> "RequestKeyframe"])
    <3> DEFINE r == [type |-> "RequestKeyframe"]
    <3>1. control \in Seq(KeyRequests \cup NackRequests) /\ r \in KeyRequests \cup NackRequests
          /\ ~IsNack(r)
      BY DEF TransportInv, LinkType, KeyRequests, IsNack
    <3> HIDE DEF r
    <3>2. control' = Append(control, r)
      BY <2>2 DEF r
    <3>3. Len(control') = Len(control) + 1 /\ control'[Len(control) + 1] = r /\ Len(control) \in Nat
          /\ \A i \in 1..Len(control) : control'[i] = control[i]
      BY <3>1, <3>2, AppendProperties
    <3>4. \A i \in 1..Len(control') : i \in 1..Len(control) \/ i = Len(control) + 1
      BY <3>3
    <3>5. ASSUME NEW i \in 1..Len(control') PROVE ~IsNack(control'[i])
      <4>1. CASE i \in 1..Len(control)
        BY <4>1, <1>3, <3>3 DEF NoNacks
      <4>2. CASE i = Len(control) + 1
        BY <4>2, <3>1, <3>3
      <4> QED BY <3>4, <4>1, <4>2
    <3> QED BY <3>5 DEF NoNacks, IsNack
  <2> QED BY <1>2, <2>1, <2>2
<1>4. Stream' = Stream
  BY <1>1 DEF Stream
<1> QED BY <1>1, <1>3, <1>4, RepairFrame

LEMMA RepairInitially == TransportInit => Repair
<1> SUFFICES ASSUME TransportInit PROVE Repair
  OBVIOUS
<1>1. Stream = <<>> /\ resend = <<>> /\ control = <<>> /\ pendingNal = NoNal /\ sent = {}
  BY DEF TransportInit, Stream
<1>2. Progress(Stream, pendingNal, delivered, losses)
  BY <1>1 DEF Progress, NoNal
<1>3. Chain(Shapes, Stream)
  <2>1. Len(Stream) = 0 /\ 1..0 = {} /\ 1..(0 - 1) = {}
    BY <1>1
  <2> QED BY <1>1, <2>1 DEF Chain, Linked
<1>4. NoNacks /\ AllCome
  BY <1>1 DEF NoNacks, AllCome
<1> QED BY <1>1, <1>2, <1>3, <1>4 DEF Repair

\* Every step keeps the one loss within reach of its parity.
LEMMA RepairStep ==
    ASSUME TransportInv, Repair, [TransportNext]_transportVars
    PROVE  Repair'
<1>1. Grown
  BY ShapesGrow DEF Grown
<1>2. CASE SendFrame \/ EncodeFrame \/ FrameEncoded \/ RenderFrame \/ ThrottleEnds
           \/ UNCHANGED transportVars
  <2>1. UNCHANGED <<net, sending, sent, resend, losses, control, pendingNal, delivered>>
    BY <1>2 DEF SendFrame, EncodeFrame, FrameEncoded, RenderFrame, ThrottleEnds, transportVars,
       send, link, nack, receive
  <2>2. Stream' = Stream /\ (NoNacks => NoNacks')
    BY <2>1 DEF Stream, NoNacks
  <2> QED BY <1>1, <2>1, <2>2, RepairFrame
<1>3. CASE TakeFrame
  BY <1>1, <1>3, TakeRepair
<1>4. CASE SendDatagram
  <2>1. /\ UNCHANGED <<sent, resend, losses, control, pendingNal, delivered>>
        /\ sending # <<>> /\ sending' = Tail(sending) /\ net' = Append(net, Head(sending))
    BY <1>4 DEF SendDatagram, receive
  <2>2. Stream' = Stream /\ (NoNacks => NoNacks')
    BY <2>1, Moved DEF Stream, NoNacks, TransportInv, LinkType
  <2> QED BY <1>1, <2>1, <2>2, RepairFrame
<1>5. CASE SendTcpRecord \/ TcpSendFails \/ ReceiveTcpThread
  BY <1>1, <1>5 DEF SendTcpRecord, TcpSendFails, ReceiveTcpThread, Repair, Grown
<1>6. CASE SendNothing
  <2>1. tcp
    BY <1>6 DEF SendNothing, TransportInv, ServerInv
  <2> QED BY <1>1, <2>1 DEF Repair, Grown
<1>7. CASE Lose
  BY <1>1, <1>7, LoseRepair
<1>8. CASE ControlThread
  BY <1>1, <1>8, ControlRepair
<1>9. CASE ReceiveThread
  BY <1>1, <1>9, ReceiveRepair
<1>10. CASE RunFrameEnd
  BY <1>1, <1>10, RequestRepair
<1> QED BY <1>2, <1>3, <1>4, <1>5, <1>6, <1>7, <1>8, <1>9, <1>10
        DEF TransportNext, SendThread, ClientReceive

\* A frame that went by has therefore arrived.
LEMMA RepairRepairs ==
    ASSUME TransportInv, Repair
    PROVE  OneLossRepaired
<1> SUFFICES ASSUME ~tcp, losses <= 1, NEW f \in FrameIndex, Passed(f)
             PROVE  \E d \in delivered : d.f = f /\ Len(d.got) > 1
  BY DEF OneLossRepaired
<1>1. f \in sent /\ \A q \in {sending, net} : \A i \in DOMAIN q : q[i].f # f
  BY DEF Passed
<1>2. AllCome
  BY DEF Repair
<1>3. net \in Seq(Packet) /\ sending \in Seq(Packet)
  BY DEF TransportInv, LinkType
<1>4. /\ Len(Stream) = Len(net) + Len(sending) /\ Len(net) \in Nat /\ Len(sending) \in Nat
      /\ \A i \in 1..Len(net) + Len(sending) :
            Stream[i] = IF i <= Len(net) THEN net[i] ELSE sending[i - Len(net)]
  BY <1>3, ConcatProperties DEF Stream
<1>5. ASSUME NEW i \in 1..Len(Stream) PROVE Stream[i].f # f
  <2>1. CASE i <= Len(net)
    <3>1. i \in 1..Len(net) /\ Stream[i] = net[i]
      BY <2>1, <1>4
    <3>2. i \in DOMAIN net
      BY <3>1, <1>3
    <3> QED BY <3>1, <3>2, <1>1
  <2>2. CASE i > Len(net)
    <3>1. i - Len(net) \in 1..Len(sending) /\ Stream[i] = sending[i - Len(net)]
      BY <2>2, <1>4
    <3>2. i - Len(net) \in DOMAIN sending
      BY <3>1, <1>3
    <3> QED BY <3>1, <3>2, <1>1
  <2> QED BY <2>1, <2>2, <1>4
<1>6. Arrived(delivered, f)
  BY <1>1, <1>2, <1>5 DEF AllCome
<1> QED BY <1>6 DEF Arrived

\* While at most one datagram of a session was lost, every slice that went by over UDP was
\* delivered: the parity of the hit group arrives behind its data and recovers it, and a lost
\* parity or parameter set costs no slice. It needs no empty cache: then nothing is resent.
THEOREM OneLossIsRepaired == TransportSpec => []OneLossRepaired
<1>1. TransportInv /\ Repair /\ [TransportNext]_transportVars => Repair'
  BY RepairStep
<1>2. TransportInv /\ Repair => OneLossRepaired
  BY RepairRepairs
<1> QED BY <1>1, <1>2, RepairInitially, TransportTyped, PTL DEF TransportSpec

\* The invariants of the transport together, for any frames, slices, FEC group above one packet,
\* queue above one frame, cache, link and number of losses.
THEOREM TransportIsSafe ==
    ASSUME ~StaleCache
    PROVE  TransportSpec => []TransportSafe
<1>1. TransportSpec => []DeliveredWhole
  BY DeliveryIsWhole
<1>2. DeliveredWhole /\ OneLossRepaired /\ KeyFrameReaches /\ PacerSeesNewer => TransportSafe
  BY DEF TransportSafe
<1> QED BY <1>1, <1>2, OneLossIsRepaired, KeyFramesReach, PTL

=============================================================================
