------------------------ MODULE StreamReconfigureProofs ------------------------
(***************************************************************************)
(* Proofs about StreamReconfigure, for any sizes, retries, updates and     *)
(* sessions.  Types need that a size is known wherever one is handed on    *)
(* (KnownSizes).  The worker's slot needs more than WorkerSlotHeld says:   *)
(* the update that holds it is in exactly one place (OneUpdate), so that   *)
(* nothing can overwrite it there, and sequence 0 names no update.         *)
(*                                                                         *)
(* That the two ends agree follows one update through a session that       *)
(* lives (Phases): at rest, asked for, at one of six places on its way to  *)
(* the headset and back, accepted, applied.  While it is at any of them    *)
(* there is no second one, because the server asks for none and gives      *)
(* none up: to run out of retries is to have sent one (TriesFit), which    *)
(* the history variable remembers.                                         *)
(***************************************************************************)
EXTENDS StreamReconfigure, SequenceTheorems, TLAPS

KnownSizes ==
    /\ pc.ctl \in {"retry", "send", "apply", "swap", "layout"} => upd.ctl.size \in Sizes
    /\ pc.snd = "retry" => upd.snd.size \in Sizes
    /\ pend.st # "Idle" => pend.size \in Sizes
    /\ received # NoUpdate => received.size \in Sizes
    /\ job # NoUpdate => job.size \in Sizes
    /\ working # NoResult => working.size \in Sizes
    /\ completed # NoResult => completed.size \in Sizes
    /\ deferred # NoUpdate => deferred.size \in Sizes

\* Where the update that holds the worker's slot is, and that it is nowhere else.
OneUpdate ==
    /\ received # NoUpdate => received.seq # 0
    /\ workerSequence = 0 =>
          job = NoUpdate /\ working = NoResult /\ completed = NoResult /\ ~finishing
    /\ workerSequence # 0 =>
          \/ /\ job.seq = workerSequence /\ working = NoResult
             /\ completed = NoResult /\ ~finishing
          \/ /\ working.seq = workerSequence /\ job = NoUpdate
             /\ completed = NoResult /\ ~finishing
          \/ /\ completed.seq = workerSequence /\ job = NoUpdate
             /\ working = NoResult /\ ~finishing
          \/ /\ finishing /\ job = NoUpdate
             /\ working = NoResult /\ completed = NoResult

\* Every action of Next, by name, so that each proof splits the same way.
LEMMA Actions ==
    ASSUME Next
    PROVE  \/ Connect \/ HandleLatencyReport
           \/ \E t \in {"ctl", "snd"} : HandleClientDisconnect(t) \/ Tick(t) \/ SendRetry(t)
           \/ TcpControlEnds \/ MaybeRequest \/ SendUpdate \/ HandleStreamConfigAck
           \/ ApplyPrepare \/ ApplySwap \/ ApplyLayout \/ ApplyDone
           \/ ReceiveUpdate \/ QueueUpdate \/ WorkerDecode \/ WorkerCompletes
           \/ ApplyCompleted \/ ApplyCompletedEnds \/ ResetConnection
           \/ OnNalUnitReceived \/ ApplyDeferred \/ OnConnectionLost
  BY DEF Next, Ctl, Snd, Headset

-----------------------------------------------------------------------------
(* The worker's slot.                                                      *)

LEMMA InitSlot == Init => OneUpdate
  BY DEF Init, OneUpdate, NoUpdate, NoResult

\* Only the headset's receiver, worker, render thread and reset touch the slot
\* and the places an update can be in.
slotVars == <<workerSequence, received, job, working, completed, finishing>>

LEMMA SlotSteps ==
    ASSUME [Next]_vars
    PROVE  \/ ReceiveUpdate \/ QueueUpdate \/ WorkerDecode \/ WorkerCompletes
           \/ ApplyCompleted \/ ApplyCompletedEnds \/ ResetConnection
           \/ UNCHANGED slotVars
  <1> USE DEF slotVars, clientVars, receiverVars, workerVars, renderVars
  <1>1. CASE UNCHANGED vars
    BY <1>1 DEF vars
  <1>2. CASE Connect \/ HandleLatencyReport \/ TcpControlEnds \/ MaybeRequest \/ SendUpdate
    BY <1>2 DEF Connect, HandleLatencyReport, TcpControlEnds, MaybeRequest, SendUpdate
  <1>3. ASSUME NEW t \in {"ctl", "snd"},
               HandleClientDisconnect(t) \/ Tick(t) \/ SendRetry(t)
        PROVE  UNCHANGED slotVars
    BY <1>3 DEF HandleClientDisconnect, Tick, SendRetry
  <1>4. CASE HandleStreamConfigAck \/ ApplyPrepare \/ ApplySwap \/ ApplyLayout \/ ApplyDone
    BY <1>4 DEF HandleStreamConfigAck, ApplyPrepare, ApplySwap, ApplyLayout, ApplyDone
  <1>5. CASE OnNalUnitReceived \/ ApplyDeferred \/ OnConnectionLost
    BY <1>5 DEF OnNalUnitReceived, ApplyDeferred, OnConnectionLost
  <1> QED BY <1>1, <1>2, <1>3, <1>4, <1>5, Actions

LEMMA NextSlot ==
    ASSUME LinkType, HeadsetType, OneUpdate, [Next]_vars
    PROVE  OneUpdate'
  <1> USE DEF OneUpdate, HeadsetType, NoUpdate, NoResult
  <1>1. CASE ReceiveUpdate
    <2>1. Head(toClient) \in [seq : Nat, size : Sizes]
      BY <1>1, HeadTailProperties, EmptySeq DEF ReceiveUpdate, LinkType
    <2>2. \/ received' = received
          \/ received' = Head(toClient) /\ Head(toClient).seq > streamConfigSequence
      BY <1>1 DEF ReceiveUpdate
    <2>3. Head(toClient).seq > streamConfigSequence => Head(toClient).seq # 0
      BY <2>1
    <2>4. received' # NoUpdate => received'.seq # 0
      BY <2>2, <2>3
    <2> QED BY <1>1, <2>4 DEF ReceiveUpdate, workerVars, renderVars
  <1>2. CASE QueueUpdate
    BY <1>2 DEF QueueUpdate, workerVars, renderVars, Msgs
  <1>3. CASE WorkerDecode
    BY <1>3 DEF WorkerDecode, renderVars, Msgs
  <1>4. CASE WorkerCompletes
    BY <1>4 DEF WorkerCompletes, receiverVars, renderVars, Results
  <1>5. CASE ApplyCompleted
    <2>1. /\ workerSequence # 0 /\ completed.seq = workerSequence
          /\ job = NoUpdate /\ working = NoResult /\ ~finishing
      BY <1>5 DEF ApplyCompleted
    <2>2. /\ completed' = NoResult /\ job' = NoUpdate /\ working' = NoResult
          /\ received' = received
      BY <1>5, <2>1 DEF ApplyCompleted
    <2>3. \/ workerSequence' = SlotFreed(completed.seq) /\ finishing' = finishing
          \/ workerSequence' = workerSequence /\ finishing' = TRUE
      BY <1>5 DEF ApplyCompleted
    <2> QED BY <2>1, <2>2, <2>3 DEF SlotFreed
  <1>6. CASE ApplyCompletedEnds
    BY <1>6 DEF ApplyCompletedEnds, workerVars
  <1>7. CASE ResetConnection
    BY <1>7 DEF ResetConnection
  <1>8. CASE UNCHANGED slotVars
    BY <1>8 DEF slotVars
  <1> QED BY <1>1, <1>2, <1>3, <1>4, <1>5, <1>6, <1>7, <1>8, SlotSteps

-----------------------------------------------------------------------------
(* Types.                                                                  *)

\* Idle is a pending update that is none.
LEMMA IdleType ==
    Idle \in [seq : Nat, size : Sizes \cup {0},
              st : {"Idle", "Pending", "Acked"}, tries : 0 .. MaxRetries]
  BY BoundsAssumption DEF Idle

LEMMA InitType == Init => TypeOK /\ KnownSizes
  <1> SUFFICES ASSUME Init PROVE TypeOK /\ KnownSizes
    OBVIOUS
  <1> USE SizesAssumption DEF Init, NoUpdate, NoResult
  <1>1. ServerType
    <2>1. layout \in [size : Sizes, seq : Nat] /\ encoder \in Sizes \cup {0}
      OBVIOUS
    <2>2. pend \in [seq : Nat, size : Sizes \cup {0},
                    st : {"Idle", "Pending", "Acked"}, tries : 0 .. MaxRetries]
      BY IdleType
    <2> QED BY <2>1, <2>2 DEF ServerType
  <1>2. ThreadType
    BY DEF ThreadType, Msgs
  <1>3. LinkType
    BY EmptySeq DEF LinkType
  <1>4. HeadsetType
    BY DEF HeadsetType, Msgs, Results
  <1>5. BoundType
    <2>1. updates \in 0 .. MaxUpdates /\ sessions \in 0 .. MaxSessions
      BY BoundsAssumption
    <2> QED BY <2>1, Zenon DEF BoundType
  <1>6. KnownSizes
    BY DEF KnownSizes, Idle
  <1> QED BY <1>1, <1>2, <1>3, <1>4, <1>5, <1>6 DEF TypeOK

\* Only the server's two threads touch its layout and its pending update.
LEMMA ServerSteps ==
    ASSUME [Next]_vars
    PROVE  \/ Connect
           \/ \E t \in {"ctl", "snd"} : HandleClientDisconnect(t) \/ Tick(t) \/ SendRetry(t)
           \/ MaybeRequest \/ SendUpdate \/ HandleStreamConfigAck
           \/ ApplyPrepare \/ ApplySwap \/ ApplyLayout \/ ApplyDone
           \/ UNCHANGED serverVars
  <1> USE DEF serverVars
  <1>1. CASE UNCHANGED vars
    BY <1>1 DEF vars
  <1>2. CASE HandleLatencyReport \/ TcpControlEnds
    BY <1>2 DEF HandleLatencyReport, TcpControlEnds
  <1>3. CASE ReceiveUpdate \/ QueueUpdate \/ WorkerDecode \/ WorkerCompletes
    BY <1>3 DEF ReceiveUpdate, QueueUpdate, WorkerDecode, WorkerCompletes
  <1>4. CASE ApplyCompleted \/ ApplyCompletedEnds \/ ResetConnection
    BY <1>4 DEF ApplyCompleted, ApplyCompletedEnds, ResetConnection
  <1>5. CASE OnNalUnitReceived \/ ApplyDeferred \/ OnConnectionLost
    BY <1>5 DEF OnNalUnitReceived, ApplyDeferred, OnConnectionLost
  <1> QED BY <1>1, <1>2, <1>3, <1>4, <1>5, Actions

LEMMA NextServer ==
    ASSUME TypeOK, KnownSizes, [Next]_vars
    PROVE  ServerType' /\ (pend.st # "Idle" => pend.size \in Sizes)'
  <1> USE DEF TypeOK, ServerType
  <1>1. CASE Connect
    BY <1>1 DEF Connect, KnownSizes
  <1>2. ASSUME NEW t \in {"ctl", "snd"}, HandleClientDisconnect(t)
        PROVE  ServerType' /\ (pend.st # "Idle" => pend.size \in Sizes)'
    BY <1>2, IdleType DEF HandleClientDisconnect, KnownSizes, Idle
  <1>3. ASSUME NEW t \in {"ctl", "snd"}, Tick(t)
        PROVE  ServerType' /\ (pend.st # "Idle" => pend.size \in Sizes)'
    BY <1>3, IdleType, BoundsAssumption DEF Tick, KnownSizes, Idle
  <1>4. ASSUME NEW t \in {"ctl", "snd"}, SendRetry(t)
        PROVE  ServerType' /\ (pend.st # "Idle" => pend.size \in Sizes)'
    BY <1>4, IdleType DEF SendRetry, KnownSizes, Idle
  <1>5. CASE MaybeRequest
    <2>1. target \in Sizes
      BY DEF ThreadType
    <2>2. 0 \in 0 .. MaxRetries /\ layout.seq + 1 \in Nat
      BY BoundsAssumption
    <2> QED BY <1>5, <2>1, <2>2 DEF MaybeRequest, KnownSizes
  <1>6. CASE SendUpdate
    BY <1>6, IdleType DEF SendUpdate, KnownSizes, Idle
  <1>7. CASE HandleStreamConfigAck
    BY <1>7, IdleType DEF HandleStreamConfigAck, Accepted, KnownSizes, Idle
  <1>8. CASE ApplyPrepare
    BY <1>8, IdleType DEF ApplyPrepare, KnownSizes, Idle
  <1>9. CASE ApplySwap
    BY <1>9, IdleType DEF ApplySwap, KnownSizes, Idle, ThreadType
  <1>10. CASE ApplyLayout
    <2>1. upd.ctl.size \in Sizes /\ upd.ctl.seq \in Nat
      BY <1>10 DEF ApplyLayout, KnownSizes, ThreadType, Msgs
    <2> QED BY <1>10, <2>1 DEF ApplyLayout, KnownSizes
  <1>11. CASE ApplyDone
    BY <1>11, IdleType DEF ApplyDone, KnownSizes, Idle
  <1>12. CASE UNCHANGED serverVars
    BY <1>12 DEF serverVars, KnownSizes
  <1> QED BY <1>1, <1>2, <1>3, <1>4, <1>5, <1>6, <1>7, <1>8, <1>9, <1>10, <1>11,
             <1>12, ServerSteps

\* What a thread's copy of an update must be where it hands the copy on.
CopiesKnown ==
    /\ pc.ctl \in {"retry", "send", "apply", "swap", "layout"} => upd.ctl.size \in Sizes
    /\ pc.snd = "retry" => upd.snd.size \in Sizes

LEMMA NextThread ==
    ASSUME TypeOK, KnownSizes, [Next]_vars
    PROVE  ThreadType' /\ CopiesKnown'
  <1> USE DEF TypeOK, ThreadType, Msgs, CopiesKnown
  <1>0. CopiesKnown
    BY DEF KnownSizes
  <1>1. CASE Connect
    BY <1>0, <1>1 DEF Connect, Go
  <1>2. ASSUME NEW t \in {"ctl", "snd"}, HandleClientDisconnect(t)
        PROVE  ThreadType' /\ CopiesKnown'
    BY <1>0, <1>2 DEF HandleClientDisconnect, Go
  <1>3. ASSUME NEW t \in {"ctl", "snd"}, Tick(t)
        PROVE  ThreadType' /\ CopiesKnown'
    <2>1. pend.seq \in Nat /\ pend.size \in Sizes \cup {0}
      BY DEF ServerType
    <2>2. pend.st = "Pending" => pend.size \in Sizes
      BY DEF KnownSizes
    <2> QED BY <1>0, <1>3, <2>1, <2>2 DEF Tick, Go
  <1>4. ASSUME NEW t \in {"ctl", "snd"}, SendRetry(t)
        PROVE  ThreadType' /\ CopiesKnown'
    BY <1>0, <1>4 DEF SendRetry, Go
  <1>5. CASE TcpControlEnds \/ HandleLatencyReport
    BY <1>0, <1>5 DEF TcpControlEnds, HandleLatencyReport, Go
  <1>6. CASE MaybeRequest
    <2>1. layout.seq + 1 \in Nat
      BY DEF ServerType
    <2> QED BY <1>0, <1>6, <2>1 DEF MaybeRequest, Go
  <1>7. CASE SendUpdate
    BY <1>0, <1>7 DEF SendUpdate, Go
  <1>8. CASE HandleStreamConfigAck
    <2>1. pend.seq \in Nat /\ pend.size \in Sizes \cup {0}
      BY DEF ServerType
    <2>2. pend.st = "Pending" => pend.size \in Sizes
      BY DEF KnownSizes
    <2> QED BY <1>0, <1>8, <2>1, <2>2 DEF HandleStreamConfigAck, Accepted, Go
  <1>9. CASE ApplyPrepare \/ ApplySwap \/ ApplyLayout \/ ApplyDone
    BY <1>0, <1>9 DEF ApplyPrepare, ApplySwap, ApplyLayout, ApplyDone, Go
  <1>10. CASE UNCHANGED threadVars
    BY <1>0, <1>10 DEF threadVars
  <1>11. ASSUME \/ ReceiveUpdate \/ QueueUpdate \/ WorkerDecode \/ WorkerCompletes
                \/ ApplyCompleted \/ ApplyCompletedEnds \/ ResetConnection
                \/ OnNalUnitReceived \/ ApplyDeferred \/ OnConnectionLost
         PROVE  UNCHANGED threadVars
    <2> USE DEF threadVars
    <2>1. CASE ReceiveUpdate \/ QueueUpdate \/ WorkerDecode \/ WorkerCompletes
      BY <2>1 DEF ReceiveUpdate, QueueUpdate, WorkerDecode, WorkerCompletes
    <2>2. CASE ApplyCompleted \/ ApplyCompletedEnds \/ ResetConnection
      BY <2>2 DEF ApplyCompleted, ApplyCompletedEnds, ResetConnection
    <2>3. CASE OnNalUnitReceived \/ ApplyDeferred \/ OnConnectionLost
      BY <2>3 DEF OnNalUnitReceived, ApplyDeferred, OnConnectionLost
    <2> QED BY <1>11, <2>1, <2>2, <2>3
  <1>12. CASE UNCHANGED vars
    BY <1>10, <1>12 DEF vars, threadVars
  <1> QED BY <1>1, <1>2, <1>3, <1>4, <1>5, <1>6, <1>7, <1>8, <1>9, <1>10, <1>11,
             <1>12, Actions

\* The two directions of the control connection.
LEMMA PopType ==
    ASSUME NEW S, NEW q \in Seq(S), q # <<>>
    PROVE  Head(q) \in S /\ Tail(q) \in Seq(S)
  BY HeadTailProperties, EmptySeq

LEMMA PushType ==
    ASSUME NEW S, NEW q \in Seq(S), NEW x \in S
    PROVE  Append(q, x) \in Seq(S)
  OBVIOUS

LEMMA AckType ==
    ASSUME LinkType, NEW u, u.seq \in Nat, u.size \in Sizes, NEW ok \in BOOLEAN, Ack(u, ok)
    PROVE  toServer' \in Seq([seq : Nat, size : Sizes, ok : BOOLEAN])
  <1>1. [seq |-> u.seq, size |-> u.size, ok |-> ok] \in [seq : Nat, size : Sizes, ok : BOOLEAN]
    OBVIOUS
  <1> QED BY <1>1, PushType DEF Ack, LinkType

LEMMA DeliverType ==
    ASSUME LinkType, ThreadType, NEW t \in {"ctl", "snd"}, upd[t].size \in Sizes, Deliver(t)
    PROVE  toClient' \in Seq([seq : Nat, size : Sizes])
  <1>1. upd[t] \in [seq : Nat, size : Sizes]
    BY DEF ThreadType, Msgs
  <1> QED BY <1>1, PushType DEF Deliver, LinkType

LEMMA NextLink ==
    ASSUME TypeOK, KnownSizes, [Next]_vars
    PROVE  LinkType'
  <1> USE DEF TypeOK
  <1>0. <<>> \in Seq([seq : Nat, size : Sizes])
        /\ <<>> \in Seq([seq : Nat, size : Sizes, ok : BOOLEAN])
    BY EmptySeq
  <1>1. CASE Connect \/ ResetConnection
    BY <1>0, <1>1 DEF Connect, ResetConnection, LinkType
  <1>2. ASSUME NEW t \in {"ctl", "snd"}, HandleClientDisconnect(t) \/ Tick(t)
        PROVE  LinkType'
    BY <1>0, <1>2 DEF HandleClientDisconnect, Tick, LinkType
  <1>3. ASSUME NEW t \in {"ctl", "snd"}, SendRetry(t)
        PROVE  LinkType'
    <2>1. upd[t].size \in Sizes
      BY <1>3 DEF SendRetry, KnownSizes
    <2>2. toClient' \in Seq([seq : Nat, size : Sizes])
      BY <1>3, <2>1, DeliverType DEF SendRetry, LinkType
    <2> QED BY <1>3, <2>2 DEF SendRetry, LinkType
  <1>4. CASE SendUpdate
    <2>1. upd["ctl"].size \in Sizes
      BY <1>4 DEF SendUpdate, KnownSizes
    <2>2. toClient' \in Seq([seq : Nat, size : Sizes])
      BY <1>4, <2>1, DeliverType DEF SendUpdate, LinkType
    <2> QED BY <1>4, <2>2 DEF SendUpdate, LinkType
  <1>5. CASE HandleStreamConfigAck
    BY <1>5, PopType DEF HandleStreamConfigAck, LinkType
  <1>6. CASE ReceiveUpdate
    <2>1. /\ Head(toClient) \in [seq : Nat, size : Sizes]
          /\ Tail(toClient) \in Seq([seq : Nat, size : Sizes])
      BY <1>6, PopType DEF ReceiveUpdate, LinkType
    <2>2. toClient' \in Seq([seq : Nat, size : Sizes])
      BY <1>6, <2>1 DEF ReceiveUpdate
    <2>3. toServer' \in Seq([seq : Nat, size : Sizes, ok : BOOLEAN])
      BY <1>6, <2>1, AckType DEF ReceiveUpdate, LinkType
    <2> QED BY <2>2, <2>3 DEF LinkType
  <1>7. CASE QueueUpdate
    <2>1. received.seq \in Nat /\ received.size \in Sizes
      BY <1>7 DEF QueueUpdate, HeadsetType, Msgs, KnownSizes
    <2>2. toServer' \in Seq([seq : Nat, size : Sizes, ok : BOOLEAN])
      BY <1>7, <2>1, AckType DEF QueueUpdate, LinkType
    <2> QED BY <1>7, <2>2 DEF QueueUpdate, LinkType
  <1>8. CASE ApplyCompleted
    <2> DEFINE u == [seq |-> completed.seq, size |-> completed.size]
    <2>1. u.seq \in Nat /\ u.size \in Sizes
      BY <1>8 DEF ApplyCompleted, HeadsetType, Results, KnownSizes
    <2>2. \/ toServer' = toServer
          \/ Ack(u, FALSE) \/ Ack(u, TRUE)
      BY <1>8 DEF ApplyCompleted
    <2> HIDE DEF u
    <2>3. toServer' \in Seq([seq : Nat, size : Sizes, ok : BOOLEAN])
      BY <2>1, <2>2, AckType DEF LinkType
    <2> QED BY <1>8, <2>3 DEF ApplyCompleted, LinkType
  <1>9. CASE UNCHANGED <<toClient, toServer>>
    BY <1>9 DEF LinkType
  <1>10. CASE HandleLatencyReport \/ TcpControlEnds \/ MaybeRequest
    BY <1>9, <1>10 DEF HandleLatencyReport, TcpControlEnds, MaybeRequest
  <1>11. CASE ApplyPrepare \/ ApplySwap \/ ApplyLayout \/ ApplyDone
    BY <1>9, <1>11 DEF ApplyPrepare, ApplySwap, ApplyLayout, ApplyDone
  <1>12. CASE WorkerDecode \/ WorkerCompletes \/ ApplyCompletedEnds
    BY <1>9, <1>12 DEF WorkerDecode, WorkerCompletes, ApplyCompletedEnds
  <1>13. CASE OnNalUnitReceived \/ ApplyDeferred \/ OnConnectionLost
    BY <1>9, <1>13 DEF OnNalUnitReceived, ApplyDeferred, OnConnectionLost
  <1>14. CASE UNCHANGED vars
    BY <1>9, <1>14 DEF vars
  <1> QED BY <1>1, <1>2, <1>3, <1>4, <1>5, <1>6, <1>7, <1>8, <1>10, <1>11,
             <1>12, <1>13, <1>14, Actions

\* The sizes the headset hands on.
HeadsetKnown ==
    /\ received # NoUpdate => received.size \in Sizes
    /\ job # NoUpdate => job.size \in Sizes
    /\ working # NoResult => working.size \in Sizes
    /\ completed # NoResult => completed.size \in Sizes
    /\ deferred # NoUpdate => deferred.size \in Sizes

LEMMA NextHeadset ==
    ASSUME TypeOK, KnownSizes, [Next]_vars
    PROVE  HeadsetType' /\ HeadsetKnown'
  <1> USE DEF TypeOK, HeadsetType, HeadsetKnown
  <1>0. HeadsetKnown
    BY DEF KnownSizes
  <1> NoUpdate \in Msgs /\ NoResult \in Results
    BY DEF NoUpdate, NoResult, Msgs, Results
  <1>1. CASE Connect
    BY <1>0, <1>1 DEF Connect, ServerType, receiverVars
  <1>2. CASE ReceiveUpdate
    <2>0. Head(toClient) \in [seq : Nat, size : Sizes]
      BY <1>2, PopType DEF ReceiveUpdate, LinkType
    <2>1. Head(toClient) \in Msgs /\ Head(toClient).size \in Sizes
      BY <2>0 DEF Msgs
    <2>2. received' = received \/ received' = Head(toClient)
      BY <1>2 DEF ReceiveUpdate
    <2> QED BY <1>0, <1>2, <2>1, <2>2 DEF ReceiveUpdate, workerVars, renderVars
  <1>3. CASE QueueUpdate
    <2>1. received.seq \in Nat /\ received.size \in Sizes
      BY <1>0, <1>3 DEF QueueUpdate, Msgs
    <2> QED BY <1>0, <1>3, <2>1 DEF QueueUpdate, workerVars, renderVars
  <1>4. CASE WorkerDecode
    <2>1. job.seq \in Nat /\ job.size \in Sizes
      BY <1>0, <1>4 DEF WorkerDecode, Msgs
    <2>2. \A a \in BOOLEAN, k \in BOOLEAN :
            [seq |-> job.seq, size |-> job.size, accepted |-> a, kept |-> k] \in Results
      BY <2>1 DEF Results
    <2>4. \E a \in BOOLEAN, k \in BOOLEAN :
            working' = [seq |-> job.seq, size |-> job.size, accepted |-> a, kept |-> k]
      BY <1>4 DEF WorkerDecode
    <2>3. working' \in Results /\ working'.size \in Sizes
      BY <2>1, <2>2, <2>4
    <2> QED BY <1>0, <1>4, <2>1, <2>3 DEF WorkerDecode, renderVars
  <1>5. CASE WorkerCompletes
    BY <1>0, <1>5 DEF WorkerCompletes, receiverVars, renderVars
  <1>6. CASE OnNalUnitReceived
    BY <1>0, <1>6 DEF OnNalUnitReceived, receiverVars, renderVars
  <1>7. CASE ApplyCompleted
    <2> DEFINE u == [seq |-> completed.seq, size |-> completed.size]
    <2>1. u \in Msgs /\ u.size \in Sizes /\ u.seq \in Nat
      BY <1>0, <1>7 DEF ApplyCompleted, Msgs, Results
    <2>2. /\ completed' = NoResult
          /\ UNCHANGED <<conn, received, job, working, decoder, decoderEncoded>>
      BY <1>7 DEF ApplyCompleted
    <2>3. /\ workerSequence' \in {0, workerSequence}
          /\ streamConfigSequence' \in {streamConfigSequence, u.seq}
          /\ shown' \in {shown, u.size}
          /\ deferred' \in {deferred, u, NoUpdate}
          /\ finishing' \in {finishing, TRUE}
      BY <1>7 DEF ApplyCompleted, SlotFreed
    <2> HIDE DEF u
    <2>4. deferred' \in Msgs /\ (deferred' # NoUpdate => deferred'.size \in Sizes)
      BY <1>0, <2>1, <2>3
    <2>5. workerSequence' \in Nat /\ streamConfigSequence' \in Nat
          /\ shown' \in Sizes \cup {0}
      BY <2>1, <2>3
    <2>6. finishing' \in BOOLEAN
      BY <2>3, Zenon
    <2> QED BY <1>0, <2>2, <2>4, <2>5, <2>6
  <1>8. CASE ApplyCompletedEnds
    BY <1>0, <1>8 DEF ApplyCompletedEnds, workerVars
  <1>9. CASE ApplyDeferred
    BY <1>0, <1>9 DEF ApplyDeferred, receiverVars, workerVars
  <1>10. CASE OnConnectionLost
    BY <1>0, <1>10 DEF OnConnectionLost, receiverVars, workerVars, renderVars
  <1>11. CASE ResetConnection
    BY <1>0, <1>11 DEF ResetConnection
  <1>12. CASE UNCHANGED clientVars
    BY <1>0, <1>12 DEF clientVars, receiverVars, workerVars, renderVars
  <1>13. CASE HandleLatencyReport \/ TcpControlEnds \/ MaybeRequest \/ SendUpdate
    BY <1>12, <1>13 DEF HandleLatencyReport, TcpControlEnds, MaybeRequest, SendUpdate
  <1>14. ASSUME NEW t \in {"ctl", "snd"},
                HandleClientDisconnect(t) \/ Tick(t) \/ SendRetry(t)
         PROVE  UNCHANGED clientVars
    BY <1>14 DEF HandleClientDisconnect, Tick, SendRetry
  <1>15. CASE HandleStreamConfigAck \/ ApplyPrepare \/ ApplySwap \/ ApplyLayout \/ ApplyDone
    BY <1>12, <1>15
    DEF HandleStreamConfigAck, ApplyPrepare, ApplySwap, ApplyLayout, ApplyDone
  <1>16. CASE UNCHANGED vars
    BY <1>12, <1>16 DEF vars
  <1> QED BY <1>1, <1>2, <1>3, <1>4, <1>5, <1>6, <1>7, <1>8, <1>9, <1>10, <1>11,
             <1>12, <1>13, <1>14, <1>15, <1>16, Actions

\* A report is handled only while the bound allows one more update.
Budget ==
    pc.ctl \in {"tick", "retry", "request"} \/ (pc.ctl = "drop" /\ ret = "request")
        => updates < MaxUpdates

\* Four actions touch the bounds' counters and the history variable.
LEMMA BoundSteps ==
    ASSUME [Next]_vars
    PROVE  \/ Connect \/ MaybeRequest \/ ApplyPrepare
           \/ \E t \in {"ctl", "snd"} : SendRetry(t)
           \/ UNCHANGED boundVars
  <1> USE DEF boundVars
  <1>1. CASE HandleLatencyReport \/ TcpControlEnds \/ SendUpdate \/ HandleStreamConfigAck
    BY <1>1 DEF HandleLatencyReport, TcpControlEnds, SendUpdate, HandleStreamConfigAck
  <1>2. ASSUME NEW t \in {"ctl", "snd"}, HandleClientDisconnect(t) \/ Tick(t)
        PROVE  UNCHANGED boundVars
    BY <1>2 DEF HandleClientDisconnect, Tick
  <1>3. CASE ApplySwap \/ ApplyLayout \/ ApplyDone
    BY <1>3 DEF ApplySwap, ApplyLayout, ApplyDone
  <1>4. CASE ReceiveUpdate \/ QueueUpdate \/ WorkerDecode \/ WorkerCompletes
    BY <1>4 DEF ReceiveUpdate, QueueUpdate, WorkerDecode, WorkerCompletes
  <1>5. CASE ApplyCompleted \/ ApplyCompletedEnds \/ ResetConnection
    BY <1>5 DEF ApplyCompleted, ApplyCompletedEnds, ResetConnection
  <1>6. CASE OnNalUnitReceived \/ ApplyDeferred \/ OnConnectionLost
    BY <1>6 DEF OnNalUnitReceived, ApplyDeferred, OnConnectionLost
  <1>7. CASE UNCHANGED vars
    BY <1>7 DEF vars
  <1> QED BY <1>1, <1>2, <1>3, <1>4, <1>5, <1>6, <1>7, Actions

LEMMA NextBound ==
    ASSUME BoundType, Budget, [Next]_vars
    PROVE  BoundType'
  <1>1. /\ updates' \in 0 .. MaxUpdates
        /\ sessions' \in 0 .. MaxSessions
    <2> USE BoundsAssumption DEF BoundType
    <2>1. CASE Connect
      BY <2>1 DEF Connect
    <2>2. CASE MaybeRequest
      BY <2>2 DEF MaybeRequest, Budget
    <2>3. CASE ApplyPrepare \/ \E t \in {"ctl", "snd"} : SendRetry(t)
      BY <2>3 DEF ApplyPrepare, SendRetry
    <2>4. CASE UNCHANGED boundVars
      BY <2>4 DEF boundVars
    <2> QED BY <2>1, <2>2, <2>3, <2>4, BoundSteps
  <1>2. disturbed' \in {disturbed, TRUE, FALSE}
    BY BoundSteps
    DEF Connect, MaybeRequest, ApplyPrepare, SendRetry, boundVars
  <1> QED BY <1>1, <1>2, Zenon DEF BoundType

LEMMA NextBudget ==
    ASSUME ThreadType, BoundType, Budget, [Next]_vars
    PROVE  Budget'
  <1> USE DEF Budget, ThreadType, Go
  <1>1. CASE Connect
    BY <1>1 DEF Connect
  <1>2. ASSUME NEW t \in {"ctl", "snd"}, HandleClientDisconnect(t) \/ Tick(t) \/ SendRetry(t)
        PROVE  Budget'
    BY <1>2 DEF HandleClientDisconnect, Tick, SendRetry, boundVars
  <1>3. CASE HandleLatencyReport
    BY <1>3 DEF HandleLatencyReport, boundVars
  <1>4. CASE TcpControlEnds \/ MaybeRequest \/ SendUpdate
    BY <1>4 DEF TcpControlEnds, MaybeRequest, SendUpdate, boundVars
  <1>5. CASE HandleStreamConfigAck
    BY <1>5 DEF HandleStreamConfigAck, boundVars
  <1>6. CASE ApplyPrepare \/ ApplySwap \/ ApplyLayout \/ ApplyDone
    BY <1>6 DEF ApplyPrepare, ApplySwap, ApplyLayout, ApplyDone, boundVars
  <1>7. CASE UNCHANGED <<pc, ret, updates>>
    BY <1>7
  <1>8. CASE ReceiveUpdate \/ QueueUpdate \/ WorkerDecode \/ WorkerCompletes
    BY <1>7, <1>8
    DEF ReceiveUpdate, QueueUpdate, WorkerDecode, WorkerCompletes, threadVars, boundVars
  <1>9. CASE ApplyCompleted \/ ApplyCompletedEnds \/ ResetConnection
    BY <1>7, <1>9 DEF ApplyCompleted, ApplyCompletedEnds, ResetConnection, threadVars, boundVars
  <1>10. CASE OnNalUnitReceived \/ ApplyDeferred \/ OnConnectionLost
    BY <1>7, <1>10 DEF OnNalUnitReceived, ApplyDeferred, OnConnectionLost, threadVars, boundVars
  <1>11. CASE UNCHANGED vars
    BY <1>7, <1>11 DEF vars, threadVars, boundVars
  <1> QED BY <1>1, <1>2, <1>3, <1>4, <1>5, <1>6, <1>8, <1>9, <1>10, <1>11, Actions

IInv == TypeOK /\ KnownSizes /\ OneUpdate /\ Budget

LEMMA Inductive ==
    ASSUME IInv, [Next]_vars
    PROVE  IInv'
  <1> USE DEF IInv
  <1>1. ServerType' /\ (pend.st # "Idle" => pend.size \in Sizes)'
    BY NextServer
  <1>2. ThreadType' /\ CopiesKnown'
    BY NextThread
  <1>3. LinkType'
    BY NextLink
  <1>4. HeadsetType' /\ HeadsetKnown'
    BY NextHeadset
  <1>5. BoundType'
    BY NextBound DEF TypeOK
  <1>6. KnownSizes'
    BY <1>1, <1>2, <1>4 DEF KnownSizes, CopiesKnown, HeadsetKnown
  <1>7. OneUpdate'
    BY NextSlot DEF TypeOK
  <1>8. Budget'
    BY NextBudget DEF TypeOK
  <1> QED BY <1>1, <1>2, <1>3, <1>4, <1>5, <1>6, <1>7, <1>8 DEF TypeOK

LEMMA Invariant == Spec => []IInv
  <1>1. Init => IInv
    <2>1. Init => Budget
      BY DEF Init, Budget
    <2> QED BY <2>1, InitType, InitSlot DEF IInv
  <1> QED BY <1>1, Inductive, PTL DEF Spec

\* Every variable keeps its type; in particular every size that either end
\* encodes, decodes or is told of is one a profile reaches.
THEOREM TypeInvariant == Spec => []TypeOK
  BY Invariant, PTL DEF IInv

\* The decoder worker's slot (streamConfigWorkerSequence_) is never left
\* occupied by an update that is nowhere any more, whatever is lost or late.
THEOREM SlotHeld == Spec => []WorkerSlotHeld
  <1>1. IInv => WorkerSlotHeld
    BY DEF IInv, OneUpdate, WorkerSlotHeld
  <1> QED BY <1>1, Invariant, PTL

\* The invariant of the runs.
THEOREM ReconfigureIsSafe == Spec => []ReconfigureSafe
  <1>1. TypeOK /\ WorkerSlotHeld => ReconfigureSafe
    BY DEF ReconfigureSafe
  <1> QED BY <1>1, TypeInvariant, SlotHeld, PTL

-----------------------------------------------------------------------------
(* The sizes of the two ends.                                              *)

\* The connection stands, no retry was sent, and the control thread is not about to send
\* one or to give the session up.
Serving ==
    /\ ~disturbed
    /\ pc.ctl \in {"read", "tick", "request", "send", "apply", "swap", "layout", "applied"}
Live == connected /\ conn = "up" /\ Serving

\* The update the server would number next, or has asked for.
Asked == [seq |-> layout.seq + 1, size |-> pend.size]
Result(u, ok, kept) == [seq |-> u.seq, size |-> u.size, accepted |-> ok, kept |-> kept]
Answer(ok) == [seq |-> Asked.seq, size |-> Asked.size, ok |-> ok]

NoneAtHeadset ==
    /\ toClient = <<>> /\ received = NoUpdate /\ job = NoUpdate
    /\ working = NoResult /\ completed = NoResult
NoneUnderWay == NoneAtHeadset /\ toServer = <<>>
Behind == streamConfigSequence <= layout.seq
Agrees == decoderEncoded = layout.size

\* Where the update the server waits for is, while the headset has not accepted it: not
\* sent yet, or swallowed; on its way; with the receiver, the worker or the render thread;
\* or refused.
Waiting ==
    \/ NoneUnderWay /\ Agrees
    \/ /\ toClient = <<Asked>> /\ received = NoUpdate /\ job = NoUpdate /\ working = NoResult
       /\ completed = NoResult /\ toServer = <<>> /\ Agrees
    \/ /\ toClient = <<>> /\ received = Asked /\ job = NoUpdate /\ working = NoResult
       /\ completed = NoResult /\ toServer = <<>> /\ Agrees
    \/ /\ toClient = <<>> /\ received = NoUpdate /\ job = Asked /\ working = NoResult
       /\ completed = NoResult /\ toServer = <<>> /\ Agrees
    \/ /\ toClient = <<>> /\ received = NoUpdate /\ job = NoUpdate /\ completed = NoResult
       /\ toServer = <<>>
       /\ \E ok, kept \in BOOLEAN :
             /\ working = Result(Asked, ok, kept)
             /\ decoderEncoded = IF ok THEN pend.size ELSE layout.size
    \/ /\ toClient = <<>> /\ received = NoUpdate /\ job = NoUpdate /\ working = NoResult
       /\ toServer = <<>>
       /\ \E ok, kept \in BOOLEAN :
             /\ completed = Result(Asked, ok, kept)
             /\ decoderEncoded = IF ok THEN pend.size ELSE layout.size
    \/ NoneAtHeadset /\ toServer = <<Answer(FALSE)>> /\ Agrees

\* What the two ends are to each other while a session lives: at rest; an update asked for
\* and not sent; awaited; accepted by the headset; being applied; and applied.
Resting ==
    /\ pend = Idle /\ pc.ctl \in {"read", "tick", "request"}
    /\ NoneUnderWay /\ Behind /\ Agrees
Asking ==
    /\ pend.st = "Pending" /\ pend.seq = layout.seq + 1 /\ pc.ctl = "send" /\ upd.ctl = Asked
    /\ NoneUnderWay /\ Behind /\ Agrees
Awaiting ==
    /\ pend.st = "Pending" /\ pend.seq = layout.seq + 1 /\ pc.ctl \in {"read", "tick", "request"}
    /\ Waiting /\ Behind
Accepting ==
    /\ pend.st = "Pending" /\ pend.seq = layout.seq + 1 /\ pc.ctl \in {"read", "tick", "request"}
    /\ NoneAtHeadset /\ toServer = <<Answer(TRUE)>>
    /\ streamConfigSequence = layout.seq + 1 /\ decoderEncoded = pend.size
Applying ==
    /\ pend.st = "Acked" /\ pend.seq = layout.seq + 1 /\ pc.ctl \in {"apply", "swap", "layout"}
    /\ upd.ctl = Asked /\ NoneUnderWay
    /\ streamConfigSequence = layout.seq + 1 /\ decoderEncoded = pend.size
Applied ==
    /\ pend.st = "Acked" /\ pend.seq = layout.seq /\ pc.ctl = "applied"
    /\ NoneUnderWay /\ streamConfigSequence = layout.seq /\ Agrees

Phases == Live => Resting \/ Asking \/ Awaiting \/ Accepting \/ Applying \/ Applied
EncoderAgrees == Live => encoder = IF pc.ctl = "layout" THEN upd.ctl.size ELSE layout.size
\* Only the sending thread may be about to retry what the control thread still waits for.
TriesFit == Live /\ pend.tries > 0 => pc.snd = "retry"
\* A swap that a disconnect overtakes is still one to the size the headset decodes.
SwapAgrees ==
    pc.ctl = "swap" /\ conn = "up" /\ ~disturbed => NoneAtHeadset /\ decoderEncoded = upd.ctl.size
\* What the headset shows, or will with the next frame of the new size, is what it decodes,
\* unless the render thread is still to hear of the size.
ShownAgrees ==
    Live /\ ~working.accepted /\ ~completed.accepted =>
        decoderEncoded = IF deferred = NoUpdate THEN shown ELSE deferred.size
\* Nothing of a session is left in a server without a client, or in a headset that was reset.
Fresh ==
    /\ ~connected => toServer = <<>> /\ (pend = Idle \/ pc.ctl = "send")
    /\ pc.ctl = "accept" => ~connected
    /\ conn = "reset" => NoneAtHeadset /\ deferred = NoUpdate /\ streamConfigSequence = 0
                           /\ workerSequence = 0

SyncInv == IInv /\ Phases /\ EncoderAgrees /\ TriesFit /\ SwapAgrees /\ ShownAgrees /\ Fresh

LEMMA OneMessage ==
    ASSUME NEW x
    PROVE  Head(<<x>>) = x /\ Tail(<<x>>) = <<>> /\ Append(<<>>, x) = <<x>> /\ <<x>> # <<>>
  OBVIOUS

\* An update that is asked for is one, and so is its result.
LEMMA AskedIsNew ==
    ASSUME TypeOK
    PROVE  /\ Asked # NoUpdate /\ Asked.seq = layout.seq + 1 /\ Asked.size = pend.size
           /\ Asked.seq # 0 /\ layout.seq \in Nat /\ layout.seq + 1 # layout.seq
           /\ \A ok, kept \in BOOLEAN : Result(Asked, ok, kept) # NoResult
  <1>1. layout.seq \in Nat
    BY DEF TypeOK, ServerType
  <1>2. layout.seq + 1 # 0 /\ layout.seq + 1 # layout.seq
    BY <1>1
  <1> QED BY <1>1, <1>2 DEF Asked, Result, NoUpdate, NoResult

\* Nothing of a session is left behind.
LEMMA FreshKept ==
    ASSUME IInv, Fresh, [Next]_vars
    PROVE  Fresh'
  <1> USE DEF Fresh, IInv, TypeOK, ServerType, ThreadType, HeadsetType, NoneAtHeadset, serverVars,
     threadVars, receiverVars, workerVars, renderVars, boundVars, clientVars
  <1>1. CASE Connect
    BY <1>1 DEF Connect, Go
  <1>2. CASE HandleLatencyReport
    BY <1>2 DEF HandleLatencyReport, Go
  <1>3. ASSUME NEW t \in {"ctl", "snd"}, HandleClientDisconnect(t)
        PROVE  Fresh'
    BY <1>3 DEF HandleClientDisconnect, Go
  <1>4. ASSUME NEW t \in {"ctl", "snd"}, Tick(t)
        PROVE  Fresh'
    <2>1. UNCHANGED <<connected, toServer, toClient, clientVars>>
      BY <1>4 DEF Tick
    <2>2. \/ pend' = pend \/ pend' = Idle \/ pend.st = "Pending"
      BY <1>4 DEF Tick
    <2>3. \/ pc'.ctl = pc.ctl
          \/ t = "ctl" /\ pc.ctl = "tick" /\ pc'.ctl \in {"request", "retry", "drop"}
      <3>1. CASE t = "ctl"
        BY <1>4, <3>1 DEF Tick, Go
      <3>2. CASE t = "snd"
        BY <1>4, <3>2 DEF Tick, Go
      <3> QED BY <3>1, <3>2
    <2>4. pend = Idle => pend.st # "Pending"
      BY DEF Idle
    <2> QED BY <2>1, <2>2, <2>3, <2>4
  <1>5. ASSUME NEW t \in {"ctl", "snd"}, SendRetry(t)
        PROVE  Fresh'
    BY <1>5 DEF SendRetry, Go, Deliver
  <1>6. CASE TcpControlEnds
    BY <1>6 DEF TcpControlEnds, Go
  <1>7. CASE MaybeRequest
    BY <1>7 DEF MaybeRequest, Go
  <1>8. CASE SendUpdate
    BY <1>8 DEF SendUpdate, Go, Deliver
  <1>9. CASE HandleStreamConfigAck
    BY <1>9 DEF HandleStreamConfigAck, Go, Accepted
  <1>10. CASE ApplyPrepare
    BY <1>10 DEF ApplyPrepare, Go
  <1>11. CASE ApplySwap
    BY <1>11 DEF ApplySwap, Go
  <1>12. CASE ApplyLayout
    BY <1>12 DEF ApplyLayout, Go
  <1>13. CASE ApplyDone
    BY <1>13 DEF ApplyDone, Go
  <1>14. CASE ReceiveUpdate
    BY <1>14 DEF ReceiveUpdate, Ack
  <1>15. CASE QueueUpdate
    BY <1>15 DEF QueueUpdate, Ack
  <1>16. CASE WorkerDecode
    BY <1>16 DEF WorkerDecode
  <1>17. CASE WorkerCompletes
    BY <1>17 DEF WorkerCompletes
  <1>18. CASE ApplyCompleted
    BY <1>18 DEF ApplyCompleted, Ack, Stale
  <1>19. CASE ApplyCompletedEnds
    BY <1>19 DEF ApplyCompletedEnds
  <1>20. CASE ResetConnection
    BY <1>20 DEF ResetConnection
  <1>21. CASE OnNalUnitReceived
    BY <1>21 DEF OnNalUnitReceived
  <1>22. CASE ApplyDeferred
    BY <1>22 DEF ApplyDeferred
  <1>23. CASE OnConnectionLost
    BY <1>23 DEF OnConnectionLost
  <1>24. CASE UNCHANGED vars
    BY <1>24 DEF vars
  <1> QED BY <1>1, <1>2, <1>3, <1>4, <1>5, <1>6, <1>7, <1>8, <1>9, <1>10, <1>11, <1>12, <1>13,
     <1>14, <1>15, <1>16, <1>17, <1>18, <1>19, <1>20, <1>21, <1>22, <1>23, <1>24, Actions

\* A retry is under way before the last one is given up.
LEMMA TriesKept ==
    ASSUME IInv, TriesFit, Fresh, [Next]_vars
    PROVE  TriesFit'
  <1> USE DEF TriesFit, IInv, TypeOK, ServerType, ThreadType, Live, Serving, Fresh, Idle,
     serverVars, threadVars, receiverVars, workerVars, renderVars, boundVars, clientVars
  <1>1. CASE Connect
    BY <1>1, BoundsAssumption DEF Connect, Go
  <1>2. CASE HandleLatencyReport
    BY <1>2, BoundsAssumption DEF HandleLatencyReport, Go
  <1>3. ASSUME NEW t \in {"ctl", "snd"}, HandleClientDisconnect(t)
        PROVE  TriesFit'
    BY <1>3, BoundsAssumption DEF HandleClientDisconnect, Go
  <1>4. ASSUME NEW t \in {"ctl", "snd"}, Tick(t)
        PROVE  TriesFit'
    BY <1>4, BoundsAssumption DEF Tick, Go, OutOfRetries
  <1>5. ASSUME NEW t \in {"ctl", "snd"}, SendRetry(t)
        PROVE  TriesFit'
    BY <1>5, BoundsAssumption DEF SendRetry, Go, Deliver
  <1>6. CASE TcpControlEnds
    BY <1>6, BoundsAssumption DEF TcpControlEnds, Go
  <1>7. CASE MaybeRequest
    BY <1>7, BoundsAssumption DEF MaybeRequest, Go
  <1>8. CASE SendUpdate
    BY <1>8, BoundsAssumption DEF SendUpdate, Go, Deliver
  <1>9. CASE HandleStreamConfigAck
    BY <1>9, BoundsAssumption DEF HandleStreamConfigAck, Go, Accepted
  <1>10. CASE ApplyPrepare
    BY <1>10, BoundsAssumption DEF ApplyPrepare, Go
  <1>11. CASE ApplySwap
    BY <1>11, BoundsAssumption DEF ApplySwap, Go
  <1>12. CASE ApplyLayout
    BY <1>12, BoundsAssumption DEF ApplyLayout, Go
  <1>13. CASE ApplyDone
    BY <1>13, BoundsAssumption DEF ApplyDone, Go
  <1>14. CASE ReceiveUpdate
    BY <1>14, BoundsAssumption DEF ReceiveUpdate, Ack
  <1>15. CASE QueueUpdate
    BY <1>15, BoundsAssumption DEF QueueUpdate, Ack
  <1>16. CASE WorkerDecode
    BY <1>16, BoundsAssumption DEF WorkerDecode
  <1>17. CASE WorkerCompletes
    BY <1>17, BoundsAssumption DEF WorkerCompletes
  <1>18. CASE ApplyCompleted
    BY <1>18, BoundsAssumption DEF ApplyCompleted, Ack, Stale
  <1>19. CASE ApplyCompletedEnds
    BY <1>19, BoundsAssumption DEF ApplyCompletedEnds
  <1>20. CASE ResetConnection
    BY <1>20, BoundsAssumption DEF ResetConnection
  <1>21. CASE OnNalUnitReceived
    BY <1>21, BoundsAssumption DEF OnNalUnitReceived
  <1>22. CASE ApplyDeferred
    BY <1>22, BoundsAssumption DEF ApplyDeferred
  <1>23. CASE OnConnectionLost
    BY <1>23, BoundsAssumption DEF OnConnectionLost
  <1>24. CASE UNCHANGED vars
    BY <1>24, BoundsAssumption DEF vars
  <1> QED BY <1>1, <1>2, <1>3, <1>4, <1>5, <1>6, <1>7, <1>8, <1>9, <1>10, <1>11, <1>12, <1>13,
     <1>14, <1>15, <1>16, <1>17, <1>18, <1>19, <1>20, <1>21, <1>22, <1>23, <1>24, Actions

\* The encoder has the size of the layout, but between the two steps that replace both.
LEMMA EncoderKept ==
    ASSUME IInv, EncoderAgrees, Phases, Fresh, [Next]_vars
    PROVE  EncoderAgrees'
  <1> USE DEF EncoderAgrees, IInv, TypeOK, ServerType, ThreadType, Live, Serving, Fresh,
     serverVars, threadVars, receiverVars, workerVars, renderVars, boundVars, clientVars
  <1>1. CASE Connect
    BY <1>1 DEF Connect, Go
  <1>2. CASE HandleLatencyReport
    BY <1>2 DEF HandleLatencyReport, Go
  <1>3. ASSUME NEW t \in {"ctl", "snd"}, HandleClientDisconnect(t)
        PROVE  EncoderAgrees'
    BY <1>3 DEF HandleClientDisconnect, Go
  <1>4. ASSUME NEW t \in {"ctl", "snd"}, Tick(t)
        PROVE  EncoderAgrees'
    BY <1>4 DEF Tick, Go, OutOfRetries
  <1>5. ASSUME NEW t \in {"ctl", "snd"}, SendRetry(t)
        PROVE  EncoderAgrees'
    BY <1>5 DEF SendRetry, Go, Deliver
  <1>6. CASE TcpControlEnds
    BY <1>6 DEF TcpControlEnds, Go
  <1>7. CASE MaybeRequest
    BY <1>7 DEF MaybeRequest, Go
  <1>8. CASE SendUpdate
    BY <1>8 DEF SendUpdate, Go, Deliver
  <1>9. CASE HandleStreamConfigAck
    BY <1>9 DEF HandleStreamConfigAck, Go, Accepted
  <1>10. CASE ApplyPrepare
    BY <1>10 DEF ApplyPrepare, Go
  <1>11. CASE ApplySwap
    BY <1>11 DEF ApplySwap, Go
  <1>12. CASE ApplyLayout
    BY <1>12 DEF ApplyLayout, Go
  <1>13. CASE ApplyDone
    BY <1>13 DEF ApplyDone, Go
  <1>14. CASE ReceiveUpdate
    BY <1>14 DEF ReceiveUpdate, Ack
  <1>15. CASE QueueUpdate
    BY <1>15 DEF QueueUpdate, Ack
  <1>16. CASE WorkerDecode
    BY <1>16 DEF WorkerDecode
  <1>17. CASE WorkerCompletes
    BY <1>17 DEF WorkerCompletes
  <1>18. CASE ApplyCompleted
    BY <1>18 DEF ApplyCompleted, Ack, Stale
  <1>19. CASE ApplyCompletedEnds
    BY <1>19 DEF ApplyCompletedEnds
  <1>20. CASE ResetConnection
    BY <1>20 DEF ResetConnection
  <1>21. CASE OnNalUnitReceived
    BY <1>21 DEF OnNalUnitReceived
  <1>22. CASE ApplyDeferred
    BY <1>22 DEF ApplyDeferred
  <1>23. CASE OnConnectionLost
    BY <1>23 DEF OnConnectionLost
  <1>24. CASE UNCHANGED vars
    BY <1>24 DEF vars
  <1> QED BY <1>1, <1>2, <1>3, <1>4, <1>5, <1>6, <1>7, <1>8, <1>9, <1>10, <1>11, <1>12, <1>13,
     <1>14, <1>15, <1>16, <1>17, <1>18, <1>19, <1>20, <1>21, <1>22, <1>23, <1>24, Actions

\* A swap is to the size the headset decodes.
LEMMA SwapKept ==
    ASSUME IInv, SwapAgrees, Phases, Fresh, [Next]_vars
    PROVE  SwapAgrees'
  <1> USE DEF SwapAgrees, IInv, TypeOK, ServerType, ThreadType, NoneAtHeadset, Fresh, serverVars,
     threadVars, receiverVars, workerVars, renderVars, boundVars, clientVars
  <1>1. CASE Connect
    BY <1>1 DEF Connect, Go
  <1>2. CASE HandleLatencyReport
    BY <1>2 DEF HandleLatencyReport, Go
  <1>3. ASSUME NEW t \in {"ctl", "snd"}, HandleClientDisconnect(t)
        PROVE  SwapAgrees'
    BY <1>3 DEF HandleClientDisconnect, Go
  <1>4. ASSUME NEW t \in {"ctl", "snd"}, Tick(t)
        PROVE  SwapAgrees'
    BY <1>4 DEF Tick, Go, OutOfRetries
  <1>5. ASSUME NEW t \in {"ctl", "snd"}, SendRetry(t)
        PROVE  SwapAgrees'
    BY <1>5 DEF SendRetry, Go, Deliver
  <1>6. CASE TcpControlEnds
    BY <1>6 DEF TcpControlEnds, Go
  <1>7. CASE MaybeRequest
    BY <1>7 DEF MaybeRequest, Go
  <1>8. CASE SendUpdate
    BY <1>8 DEF SendUpdate, Go, Deliver
  <1>9. CASE HandleStreamConfigAck
    BY <1>9 DEF HandleStreamConfigAck, Go, Accepted
  <1>10. CASE ApplyPrepare
    <2>1. pc'.ctl = "swap" => /\ pc.ctl = "apply" /\ pend.size = upd.ctl.size
                             /\ disturbed' = disturbed
                             /\ UNCHANGED <<connected, conn, upd, toClient, received, job,
                                            working, completed, decoderEncoded>>
      BY <1>10 DEF ApplyPrepare, Go
    <2>2. pc.ctl = "apply" => pend # Idle \/ pend.size # upd.ctl.size
      BY SizesAssumption DEF KnownSizes, Idle
    <2>3. ASSUME pc'.ctl = "swap", conn = "up", ~disturbed PROVE Applying
      BY <2>1, <2>2, <2>3 DEF Phases, Live, Serving, Resting, Asking, Awaiting, Accepting, Applied
    <2> QED BY <2>1, <2>3 DEF Applying, NoneUnderWay
  <1>11. CASE ApplySwap
    BY <1>11 DEF ApplySwap, Go
  <1>12. CASE ApplyLayout
    BY <1>12 DEF ApplyLayout, Go
  <1>13. CASE ApplyDone
    BY <1>13 DEF ApplyDone, Go
  <1>14. CASE ReceiveUpdate
    BY <1>14 DEF ReceiveUpdate, Ack
  <1>15. CASE QueueUpdate
    BY <1>15 DEF QueueUpdate, Ack
  <1>16. CASE WorkerDecode
    BY <1>16 DEF WorkerDecode
  <1>17. CASE WorkerCompletes
    BY <1>17 DEF WorkerCompletes
  <1>18. CASE ApplyCompleted
    BY <1>18 DEF ApplyCompleted, Ack, Stale
  <1>19. CASE ApplyCompletedEnds
    BY <1>19 DEF ApplyCompletedEnds
  <1>20. CASE ResetConnection
    BY <1>20 DEF ResetConnection
  <1>21. CASE OnNalUnitReceived
    BY <1>21 DEF OnNalUnitReceived
  <1>22. CASE ApplyDeferred
    BY <1>22 DEF ApplyDeferred
  <1>23. CASE OnConnectionLost
    BY <1>23 DEF OnConnectionLost
  <1>24. CASE UNCHANGED vars
    BY <1>24 DEF vars
  <1> QED BY <1>1, <1>2, <1>3, <1>4, <1>5, <1>6, <1>7, <1>8, <1>9, <1>10, <1>11, <1>12, <1>13,
     <1>14, <1>15, <1>16, <1>17, <1>18, <1>19, <1>20, <1>21, <1>22, <1>23, <1>24, Actions

\* Where the two ends stand to each other.
LEMMA PhasesKept ==
    ASSUME IInv, Phases, TriesFit, Fresh, [Next]_vars
    PROVE  Phases'
  <1> USE DEF Phases, IInv, TypeOK, Live, Serving, serverVars, threadVars, receiverVars,
     workerVars, renderVars, boundVars, clientVars
  <1>1. CASE Connect
    <2>1. /\ pend = Idle /\ NoneAtHeadset /\ streamConfigSequence = 0
          /\ UNCHANGED <<pend, layout, received, job, working, completed, streamConfigSequence>>
          /\ toClient' = <<>> /\ toServer' = <<>> /\ decoderEncoded' = layout.size
          /\ pc'.ctl = "read"
      BY <1>1 DEF Connect, Go, Fresh, ThreadType
    <2>2. 0 <= layout.seq
      BY DEF ServerType
    <2> QED BY <2>1, <2>2 DEF Resting, NoneAtHeadset, NoneUnderWay, Behind, Agrees
  <1>2. CASE HandleLatencyReport
    <2>1. /\ pc.ctl = "read" /\ pc'.ctl = "tick"
          /\ UNCHANGED <<serverVars, upd, toClient, toServer, clientVars, disturbed>>
      BY <1>2 DEF HandleLatencyReport, Go, ThreadType
    <2>2. Asked' = Asked /\ (Waiting' <=> Waiting) /\ (NoneAtHeadset' <=> NoneAtHeadset)
      BY <2>1 DEF Asked, Waiting, NoneUnderWay, NoneAtHeadset, Agrees, Answer, Result
    <2> QED BY <2>1, <2>2 DEF Resting, Asking, Awaiting, Accepting, Applying, Applied,
         NoneUnderWay, Behind, Agrees, Answer
  <1>3. ASSUME NEW t \in {"ctl", "snd"}, HandleClientDisconnect(t)
        PROVE  Phases'
    <2>1. ~connected'
      BY <1>3 DEF HandleClientDisconnect
    <2> QED BY <2>1
  <1>4. ASSUME NEW t \in {"ctl", "snd"}, Tick(t)
        PROVE  Phases'
    <2>1. CASE t = "ctl"
      <3>1. \/ pc'.ctl \in {"retry", "drop"}
            \/ /\ pc.ctl = "tick" /\ pc'.ctl = "request"
               /\ UNCHANGED <<pend, upd, layout, connected, toClient, toServer, clientVars,
                              disturbed>>
        BY <1>4, <2>1 DEF Tick, Go, ThreadType
      <3>2. CASE pc'.ctl = "request"
        <4>1. Asked' = Asked /\ (Waiting' <=> Waiting) /\ (NoneAtHeadset' <=> NoneAtHeadset)
          BY <3>1, <3>2 DEF Asked, Waiting, NoneUnderWay, NoneAtHeadset, Agrees, Answer, Result
        <4> QED BY <3>1, <3>2, <4>1 DEF Resting, Asking, Awaiting, Accepting, Applying, Applied,
             NoneUnderWay, Behind, Agrees, Answer
      <3> QED BY <3>1, <3>2
    <2>2. CASE t = "snd"
      <3>1. /\ pc.snd = "tick" /\ pc'.ctl = pc.ctl /\ upd'.ctl = upd.ctl
            /\ UNCHANGED <<layout, connected, toClient, toServer, clientVars, disturbed>>
            /\ \/ OutOfRetries
               \/ pend.st = "Pending" /\ pend' = [pend EXCEPT !.tries = pend.tries + 1]
        BY <1>4, <2>2 DEF Tick, Go, ThreadType
      <3>2. ASSUME Live PROVE ~OutOfRetries
        BY <3>1, <3>2, BoundsAssumption DEF TriesFit, OutOfRetries
      <3>3. ASSUME Live
            PROVE  /\ pend'.st = pend.st /\ pend'.seq = pend.seq /\ pend'.size = pend.size
                   /\ pend.st = "Pending"
        BY <3>1, <3>2, <3>3 DEF ServerType
      <3>4. ASSUME Live
            PROVE  Asked' = Asked /\ (Waiting' <=> Waiting) /\ (NoneAtHeadset' <=> NoneAtHeadset)
        BY <3>1, <3>3, <3>4 DEF Asked, Waiting, NoneUnderWay, NoneAtHeadset, Agrees, Answer,
           Result
      <3>5. ASSUME Live PROVE ~Resting
        BY <3>3, <3>5 DEF Resting, Idle
      <3> QED BY <3>1, <3>3, <3>4, <3>5 DEF Asking, Awaiting, Accepting, Applying, Applied,
           NoneUnderWay, Behind, Agrees, Answer
    <2> QED BY <2>1, <2>2
  <1>5. ASSUME NEW t \in {"ctl", "snd"}, SendRetry(t)
        PROVE  Phases'
    <2>1. disturbed' \/ ~connected'
      BY <1>5 DEF SendRetry
    <2> QED BY <2>1
  <1>6. CASE TcpControlEnds
    <2>1. pc'.ctl = "drop"
      BY <1>6 DEF TcpControlEnds, Go, ThreadType
    <2> QED BY <2>1
  <1>7. CASE MaybeRequest
    <2>0. pc.ctl = "request" /\ UNCHANGED <<layout, connected, toClient, toServer, clientVars,
                                            disturbed>>
      BY <1>7 DEF MaybeRequest
    <2>1. CASE UNCHANGED <<pend, upd>> /\ pc'.ctl = "read"
      <3>1. Asked' = Asked /\ (Waiting' <=> Waiting) /\ (NoneAtHeadset' <=> NoneAtHeadset)
        BY <2>0, <2>1 DEF Asked, Waiting, NoneUnderWay, NoneAtHeadset, Agrees, Answer, Result
      <3> QED BY <2>0, <2>1, <3>1 DEF Resting, Asking, Awaiting, Accepting, Applying, Applied,
           NoneUnderWay, Behind, Agrees, Answer
    <2>2. CASE /\ pend.seq = 0
               /\ pend' = [seq |-> layout.seq + 1, size |-> target, st |-> "Pending", tries |-> 0]
               /\ upd'.ctl = [seq |-> layout.seq + 1, size |-> target] /\ pc'.ctl = "send"
      <3>1. layout.seq \in Nat /\ layout.seq + 1 # 0
        BY DEF ServerType
      <3>2. Live => Resting
        BY <2>0, <2>2, <3>1 DEF Asking, Awaiting, Accepting, Applying, Applied
      <3>3. Asked' = upd'.ctl
        BY <2>0, <2>2 DEF Asked
      <3> QED BY <2>0, <2>2, <3>2, <3>3 DEF Resting, Asking, NoneUnderWay, NoneAtHeadset, Behind,
           Agrees
    <2> QED BY <1>7, <2>1, <2>2 DEF MaybeRequest, Go, ThreadType
  <1>8. CASE SendUpdate
    <2>1. /\ pc.ctl = "send" /\ pc'.ctl = "read"
          /\ UNCHANGED <<layout, connected, upd, toServer, clientVars, disturbed>>
          /\ connected => UNCHANGED pend /\ Deliver("ctl")
      BY <1>8 DEF SendUpdate, Go, ThreadType
    <2> SUFFICES ASSUME Live PROVE Awaiting'
      BY <2>1
    <2>2. Asking
      BY <2>1 DEF Resting, Awaiting, Accepting, Applying, Applied
    <2>3. toClient' = <<Asked>>
      BY <2>1, <2>2, OneMessage DEF Deliver, Asking, NoneUnderWay, NoneAtHeadset
    <2>4. Asked' = Asked
      BY <2>1 DEF Asked
    <2>5. Waiting'
      BY <2>1, <2>2, <2>3, <2>4 DEF Asking, NoneUnderWay, NoneAtHeadset, Agrees, Waiting
    <2> QED BY <2>1, <2>2, <2>5 DEF Asking, Awaiting, Behind
  <1>9. CASE HandleStreamConfigAck
    <2>1. /\ pc.ctl = "read" /\ toServer # <<>> /\ toServer' = Tail(toServer)
          /\ UNCHANGED <<layout, connected, toClient, clientVars, disturbed>>
      BY <1>9 DEF HandleStreamConfigAck
    <2>2. pc'.ctl \in {"read", "apply"}
      BY <1>9 DEF HandleStreamConfigAck, Go, ThreadType
    <2> SUFFICES ASSUME Live PROVE Resting' \/ Applying'
      BY <2>1, <2>2
    <2>3. layout.seq \in Nat /\ layout.seq + 1 # 0
      BY DEF ServerType
    <2>4. \/ Awaiting /\ NoneAtHeadset /\ toServer = <<Answer(FALSE)>> /\ Agrees
          \/ Accepting
      BY <2>1 DEF Resting, Asking, Awaiting, Waiting, Applying, Applied, NoneUnderWay
    <2>5. toServer' = <<>> /\ (NoneAtHeadset' <=> NoneAtHeadset)
      BY <2>1, <2>4, OneMessage DEF Accepting, NoneAtHeadset
    <2>6. CASE Awaiting /\ NoneAtHeadset /\ toServer = <<Answer(FALSE)>> /\ Agrees
      <3>1. Head(toServer) = Answer(FALSE)
        BY <2>6, OneMessage
      <3>2. Head(toServer).seq = layout.seq + 1 /\ ~Head(toServer).ok
        BY <3>1 DEF Answer, Asked
      <3>3. pend' = Idle /\ pc' = pc
        BY <1>9, <2>3, <2>6, <3>2 DEF HandleStreamConfigAck, Accepted, Awaiting
      <3> QED BY <2>1, <2>5, <2>6, <3>3 DEF Resting, Awaiting, NoneUnderWay, Behind, Agrees
    <2>7. CASE Accepting
      <3>1. Head(toServer) = Answer(TRUE)
        BY <2>7, OneMessage DEF Accepting
      <3>2. /\ Head(toServer).seq = layout.seq + 1 /\ Head(toServer).ok
            /\ Head(toServer).size = pend.size
        BY <3>1 DEF Answer, Asked
      <3>3. /\ pend' = [pend EXCEPT !.st = "Acked"] /\ pc'.ctl = "apply"
            /\ upd'.ctl = [seq |-> pend.seq, size |-> pend.size]
        BY <1>9, <2>3, <2>7, <3>2 DEF HandleStreamConfigAck, Accepted, Accepting, Go, ThreadType
      <3>4. pend'.st = "Acked" /\ pend'.seq = pend.seq /\ pend'.size = pend.size
        BY <3>3 DEF ServerType
      <3>5. Asked' = upd'.ctl
        BY <2>1, <2>7, <3>3, <3>4 DEF Asked, Accepting
      <3> QED BY <2>1, <2>5, <2>7, <3>3, <3>4, <3>5 DEF Accepting, Applying, NoneUnderWay
    <2> QED BY <2>4, <2>6, <2>7
  <1>10. CASE ApplyPrepare
    <2>1. /\ pc.ctl = "apply" /\ UNCHANGED <<layout, connected, upd, toClient, toServer,
                                             clientVars>>
          /\ \/ pc'.ctl = "drop"
             \/ disturbed'
             \/ pc'.ctl = "swap" /\ UNCHANGED <<pend, disturbed>>
      BY <1>10 DEF ApplyPrepare, Go, ThreadType
    <2> SUFFICES ASSUME Live, pc'.ctl = "swap", UNCHANGED <<pend, disturbed>> PROVE Applying'
      BY <2>1
    <2>2. Applying
      BY <2>1 DEF Resting, Asking, Awaiting, Accepting, Applied
    <2> QED BY <2>1, <2>2 DEF Applying, NoneUnderWay, NoneAtHeadset, Asked
  <1>11. CASE ApplySwap
    <2>1. /\ pc.ctl = "swap" /\ UNCHANGED <<layout, connected, upd, toClient, toServer,
                                            clientVars, disturbed>>
          /\ \/ pc'.ctl = "drop"
             \/ pc'.ctl = "layout" /\ UNCHANGED pend
      BY <1>11 DEF ApplySwap, Go, ThreadType
    <2> SUFFICES ASSUME Live, pc'.ctl = "layout", UNCHANGED pend PROVE Applying'
      BY <2>1
    <2>2. Applying
      BY <2>1 DEF Resting, Asking, Awaiting, Accepting, Applied
    <2> QED BY <2>1, <2>2 DEF Applying, NoneUnderWay, NoneAtHeadset, Asked
  <1>12. CASE ApplyLayout
    <2>1. /\ pc.ctl = "layout" /\ pc'.ctl = "applied"
          /\ UNCHANGED <<pend, connected, upd, toClient, toServer, clientVars, disturbed>>
          /\ layout' = [size |-> upd.ctl.size, seq |-> upd.ctl.seq]
      BY <1>12 DEF ApplyLayout, Go, ThreadType
    <2> SUFFICES ASSUME Live PROVE Applied'
      BY <2>1
    <2>2. Applying
      BY <2>1 DEF Resting, Asking, Awaiting, Accepting, Applied
    <2> QED BY <2>1, <2>2 DEF Applying, Applied, NoneUnderWay, NoneAtHeadset, Asked, Agrees
  <1>13. CASE ApplyDone
    <2>1. /\ pc.ctl = "applied" /\ pc'.ctl = "read" /\ pend' = Idle
          /\ UNCHANGED <<layout, connected, toClient, toServer, clientVars, disturbed>>
      BY <1>13 DEF ApplyDone, Go, ThreadType
    <2> SUFFICES ASSUME Live PROVE Resting'
      BY <2>1
    <2>2. Applied /\ layout.seq \in Nat
      BY <2>1 DEF Resting, Asking, Awaiting, Accepting, Applying, ServerType
    <2> QED BY <2>1, <2>2 DEF Applied, Resting, NoneUnderWay, NoneAtHeadset, Agrees, Behind
  <1>14. CASE ReceiveUpdate
    <2>1. UNCHANGED <<serverVars, threadVars, conn, job, working, completed, decoderEncoded,
                      streamConfigSequence, disturbed>>
      BY <1>14 DEF ReceiveUpdate
    <2> SUFFICES ASSUME Live PROVE Awaiting'
      BY <2>1
    <2>2. toClient = <<Asked>> /\ Awaiting
      BY <1>14 DEF ReceiveUpdate, Resting, Asking, Awaiting, Accepting, Applying, Applied,
         Waiting, NoneUnderWay, NoneAtHeadset
    <2>3. /\ received = NoUpdate /\ job = NoUpdate /\ working = NoResult /\ completed = NoResult
          /\ toServer = <<>> /\ Agrees
      BY <2>2, OneMessage DEF Awaiting, Waiting, NoneUnderWay, NoneAtHeadset
    <2>4. Head(toClient) = Asked /\ Tail(toClient) = <<>>
      BY <2>2, OneMessage
    <2>5. Asked.seq > streamConfigSequence
      BY <2>2, AskedIsNew DEF Awaiting, Behind, HeadsetType
    <2>8. ~(Asked.seq < streamConfigSequence) /\ Asked.seq # streamConfigSequence
      BY <2>5, AskedIsNew DEF HeadsetType
    <2>6. toClient' = <<>> /\ received' = Asked /\ toServer' = toServer
      BY <1>14, <2>4, <2>8 DEF ReceiveUpdate
    <2>7. Asked' = Asked
      BY <2>1 DEF Asked
    <2> QED BY <2>1, <2>2, <2>3, <2>6, <2>7 DEF Awaiting, Waiting, Agrees, Behind
  <1>15. CASE QueueUpdate
    <2>1. UNCHANGED <<serverVars, threadVars, toClient, conn, working, completed, decoderEncoded,
                      streamConfigSequence, disturbed>>
      BY <1>15 DEF QueueUpdate
    <2> SUFFICES ASSUME Live PROVE Awaiting'
      BY <2>1
    <2>2. received # NoUpdate /\ received' = NoUpdate
      BY <1>15 DEF QueueUpdate
    <2>3. Awaiting
      BY <2>2 DEF Resting, Asking, Accepting, Applying, Applied, NoneUnderWay, NoneAtHeadset
    <2>4. /\ toClient = <<>> /\ received = Asked /\ job = NoUpdate /\ working = NoResult
          /\ completed = NoResult /\ toServer = <<>> /\ Agrees
      BY <2>2, <2>3 DEF Awaiting, Waiting, NoneUnderWay, NoneAtHeadset
    <2>5. \/ job' = job /\ toServer' = toServer
          \/ /\ job' = job
             /\ toServer' = Append(toServer, [seq |-> Asked.seq, size |-> Asked.size, ok |-> FALSE])
          \/ job' = Asked /\ toServer' = toServer
      BY <1>15, <2>4 DEF QueueUpdate, Ack
    <2>6. Asked' = Asked
      BY <2>1 DEF Asked
    <2>7. \/ job' = NoUpdate /\ toServer' = <<>>
          \/ job' = NoUpdate /\ toServer' = <<Answer(FALSE)'>>
          \/ job' = Asked' /\ toServer' = <<>>
      BY <2>4, <2>5, <2>6, OneMessage DEF Answer
    <2> QED BY <2>1, <2>2, <2>3, <2>4, <2>6, <2>7 DEF Awaiting, Waiting, NoneUnderWay,
         NoneAtHeadset, Agrees, Behind
  <1>16. CASE WorkerDecode
    <2>1. UNCHANGED <<serverVars, threadVars, toClient, toServer, conn, received, completed,
                      streamConfigSequence, disturbed>>
      BY <1>16 DEF WorkerDecode
    <2> SUFFICES ASSUME Live PROVE Awaiting'
      BY <2>1
    <2>2. job # NoUpdate /\ job' = NoUpdate
      BY <1>16 DEF WorkerDecode
    <2>3. Awaiting
      BY <2>2 DEF Resting, Asking, Accepting, Applying, Applied, NoneUnderWay, NoneAtHeadset
    <2>4. /\ toClient = <<>> /\ received = NoUpdate /\ job = Asked /\ working = NoResult
          /\ completed = NoResult /\ toServer = <<>> /\ Agrees
      BY <2>2, <2>3 DEF Awaiting, Waiting, NoneUnderWay, NoneAtHeadset
    <2>5. \E ok, kept \in BOOLEAN :
             /\ working' = [seq |-> job.seq, size |-> job.size, accepted |-> ok, kept |-> kept]
             /\ decoderEncoded' = IF ok THEN job.size ELSE decoderEncoded
      BY <1>16 DEF WorkerDecode
    <2>6. Asked' = Asked /\ Asked.size = pend.size
      BY <2>1 DEF Asked
    <2>7. \E ok, kept \in BOOLEAN :
             /\ working' = Result(Asked', ok, kept)
             /\ decoderEncoded' = IF ok THEN pend'.size ELSE layout'.size
      BY <2>1, <2>4, <2>5, <2>6 DEF Result, Agrees
    <2>8. Waiting'
      BY <2>1, <2>2, <2>4, <2>7 DEF Waiting, Result
    <2> QED BY <2>1, <2>3, <2>8 DEF Awaiting, Behind
  <1>17. CASE WorkerCompletes
    <2>1. UNCHANGED <<serverVars, threadVars, toClient, toServer, conn, received, job,
                      decoderEncoded, streamConfigSequence, disturbed>>
      BY <1>17 DEF WorkerCompletes
    <2> SUFFICES ASSUME Live PROVE Awaiting'
      BY <2>1
    <2>2. working # NoResult /\ working' = NoResult /\ completed' = working
      BY <1>17 DEF WorkerCompletes
    <2>3. Awaiting
      BY <2>2 DEF Resting, Asking, Accepting, Applying, Applied, NoneUnderWay, NoneAtHeadset
    <2>4. /\ toClient = <<>> /\ received = NoUpdate /\ job = NoUpdate /\ completed = NoResult
          /\ toServer = <<>>
          /\ \E ok, kept \in BOOLEAN :
                /\ working = Result(Asked, ok, kept)
                /\ decoderEncoded = IF ok THEN pend.size ELSE layout.size
      BY <2>2, <2>3 DEF Awaiting, Waiting, NoneUnderWay, NoneAtHeadset
    <2>5. Asked' = Asked
      BY <2>1 DEF Asked
    <2>6. \E ok, kept \in BOOLEAN :
                /\ completed' = Result(Asked', ok, kept)
                /\ decoderEncoded' = IF ok THEN pend'.size ELSE layout'.size
      BY <2>1, <2>2, <2>4, <2>5
    <2>7. Waiting'
      BY <2>1, <2>2, <2>4, <2>6 DEF Waiting, Result
    <2> QED BY <2>1, <2>3, <2>7 DEF Awaiting, Behind
  <1>18. CASE ApplyCompleted
    <2>1. UNCHANGED <<serverVars, threadVars, toClient, conn, received, job, working,
                      decoderEncoded, disturbed>>
      BY <1>18 DEF ApplyCompleted
    <2> SUFFICES ASSUME Live PROVE Awaiting' \/ Accepting'
      BY <2>1
    <2>2. completed # NoResult /\ completed' = NoResult
      BY <1>18 DEF ApplyCompleted
    <2>3. Awaiting
      BY <2>2 DEF Resting, Asking, Accepting, Applying, Applied, NoneUnderWay, NoneAtHeadset
    <2>4. /\ toClient = <<>> /\ received = NoUpdate /\ job = NoUpdate /\ working = NoResult
          /\ toServer = <<>>
      BY <2>2, <2>3 DEF Awaiting, Waiting, NoneUnderWay, NoneAtHeadset
    <2>5. PICK ok \in BOOLEAN, kept \in BOOLEAN :
                /\ completed = Result(Asked, ok, kept)
                /\ decoderEncoded = IF ok THEN pend.size ELSE layout.size
      BY <2>2, <2>3 DEF Awaiting, Waiting, NoneUnderWay, NoneAtHeadset
    <2>6. /\ completed.seq = layout.seq + 1 /\ completed.size = pend.size
          /\ completed.accepted = ok /\ Asked' = Asked
      BY <2>1, <2>5 DEF Result, Asked
    <2>7. workerSequence = completed.seq
      BY <2>2 DEF OneUpdate
    <2>8. ~Stale
      BY <2>3, <2>6, <2>7, AskedIsNew DEF Stale, Awaiting, Behind, HeadsetType
    <2>9. /\ toServer' = Append(toServer,
                               [seq |-> completed.seq, size |-> completed.size, ok |-> ok])
          /\ streamConfigSequence' = IF ok THEN completed.seq ELSE streamConfigSequence
      BY <1>18, <2>6, <2>8 DEF ApplyCompleted, Ack
    <2>10. toServer' = <<Answer(ok)'>>
      BY <2>1, <2>4, <2>6, <2>9, OneMessage DEF Answer, Asked
    <2>11. CASE ok = TRUE
      BY <2>1, <2>2, <2>3, <2>4, <2>5, <2>6, <2>9, <2>10, <2>11 DEF Awaiting, Accepting,
         NoneAtHeadset
    <2>12. CASE ok = FALSE
      <3>1. Waiting'
        BY <2>1, <2>2, <2>4, <2>5, <2>10, <2>12 DEF Waiting, NoneAtHeadset, Agrees, Answer
      <3> QED BY <2>1, <2>3, <2>9, <2>12, <3>1 DEF Awaiting, Behind
    <2> QED BY <2>11, <2>12
  <1>19. CASE ApplyCompletedEnds
    <2>1. UNCHANGED <<serverVars, threadVars, toClient, toServer, conn, received, job, working,
                      completed, decoderEncoded, streamConfigSequence, disturbed>>
      BY <1>19 DEF ApplyCompletedEnds
    <2>2. Asked' = Asked /\ (Waiting' <=> Waiting)
      BY <2>1 DEF Asked, Waiting, NoneUnderWay, NoneAtHeadset, Agrees, Answer, Result
    <2> QED BY <2>1, <2>2 DEF Resting, Asking, Awaiting, Accepting, Applying, Applied,
         NoneUnderWay, NoneAtHeadset, Behind, Agrees, Answer
  <1>20. CASE ResetConnection
    <2>1. conn' = "reset"
      BY <1>20 DEF ResetConnection
    <2> QED BY <2>1
  <1>21. CASE OnNalUnitReceived
    <2>1. UNCHANGED <<serverVars, threadVars, toClient, toServer, conn, received, job, working,
                      completed, decoderEncoded, streamConfigSequence, disturbed>>
      BY <1>21 DEF OnNalUnitReceived
    <2>2. Asked' = Asked /\ (Waiting' <=> Waiting)
      BY <2>1 DEF Asked, Waiting, NoneUnderWay, NoneAtHeadset, Agrees, Answer, Result
    <2> QED BY <2>1, <2>2 DEF Resting, Asking, Awaiting, Accepting, Applying, Applied,
         NoneUnderWay, NoneAtHeadset, Behind, Agrees, Answer
  <1>22. CASE ApplyDeferred
    <2>1. UNCHANGED <<serverVars, threadVars, toClient, toServer, conn, received, job, working,
                      completed, decoderEncoded, streamConfigSequence, disturbed>>
      BY <1>22 DEF ApplyDeferred
    <2>2. Asked' = Asked /\ (Waiting' <=> Waiting)
      BY <2>1 DEF Asked, Waiting, NoneUnderWay, NoneAtHeadset, Agrees, Answer, Result
    <2> QED BY <2>1, <2>2 DEF Resting, Asking, Awaiting, Accepting, Applying, Applied,
         NoneUnderWay, NoneAtHeadset, Behind, Agrees, Answer
  <1>23. CASE OnConnectionLost
    <2>1. conn' = "lost"
      BY <1>23 DEF OnConnectionLost
    <2> QED BY <2>1
  <1>24. CASE UNCHANGED vars
    <2>1. UNCHANGED <<serverVars, threadVars, toClient, toServer, conn, received, job, working,
                      completed, decoderEncoded, streamConfigSequence, disturbed>>
      BY <1>24 DEF vars
    <2>2. Asked' = Asked /\ (Waiting' <=> Waiting)
      BY <2>1 DEF Asked, Waiting, NoneUnderWay, NoneAtHeadset, Agrees, Answer, Result
    <2> QED BY <2>1, <2>2 DEF Resting, Asking, Awaiting, Accepting, Applying, Applied,
         NoneUnderWay, NoneAtHeadset, Behind, Agrees, Answer
  <1> QED BY <1>1, <1>2, <1>3, <1>4, <1>5, <1>6, <1>7, <1>8, <1>9, <1>10, <1>11, <1>12, <1>13,
     <1>14, <1>15, <1>16, <1>17, <1>18, <1>19, <1>20, <1>21, <1>22, <1>23, <1>24, Actions

\* A result the render thread finds while a session lives is of the update the server
\* waits for, and it is not stale.
LEMMA CompletedIsAsked ==
    ASSUME IInv, Phases, Live, completed # NoResult
    PROVE  /\ ~Stale /\ working = NoResult
           /\ completed.seq # 0 /\ (completed.accepted => decoderEncoded = completed.size)
  <1> USE DEF IInv, TypeOK
  <1>1. Awaiting
    BY DEF Phases, Resting, Asking, Accepting, Applying, Applied, NoneUnderWay, NoneAtHeadset
  <1>2. /\ working = NoResult
        /\ \E ok, kept \in BOOLEAN :
                /\ completed = Result(Asked, ok, kept)
                /\ decoderEncoded = IF ok THEN pend.size ELSE layout.size
    BY <1>1 DEF Awaiting, Waiting, NoneUnderWay, NoneAtHeadset
  <1>3. /\ completed.seq = layout.seq + 1
        /\ completed.accepted => decoderEncoded = completed.size
    BY <1>2 DEF Result, Asked
  <1>4. workerSequence = completed.seq
    BY DEF OneUpdate
  <1>5. ~Stale
    BY <1>1, <1>3, <1>4, AskedIsNew DEF Stale, Awaiting, Behind, HeadsetType, Live
  <1> QED BY <1>2, <1>3, <1>5, AskedIsNew

\* What is shown, or will be, is what is decoded.
LEMMA ShownKept ==
    ASSUME IInv, ShownAgrees, Phases, Fresh, [Next]_vars
    PROVE  ShownAgrees'
  <1> USE DEF ShownAgrees, IInv, TypeOK, ServerType, ThreadType, HeadsetType, Live, Serving,
     NoUpdate, NoResult, serverVars, threadVars, receiverVars, workerVars, renderVars, boundVars,
     clientVars
  <1>1. CASE Connect
    <2>1. deferred' = NoUpdate /\ shown' = layout.size /\ decoderEncoded' = layout.size
      BY <1>1 DEF Connect, Fresh
    <2> QED BY <2>1
  <1>2. CASE HandleLatencyReport
    BY <1>2 DEF HandleLatencyReport, Go
  <1>3. ASSUME NEW t \in {"ctl", "snd"}, HandleClientDisconnect(t)
        PROVE  ShownAgrees'
    BY <1>3 DEF HandleClientDisconnect, Go
  <1>4. ASSUME NEW t \in {"ctl", "snd"}, Tick(t)
        PROVE  ShownAgrees'
    BY <1>4 DEF Tick, Go, OutOfRetries
  <1>5. ASSUME NEW t \in {"ctl", "snd"}, SendRetry(t)
        PROVE  ShownAgrees'
    BY <1>5 DEF SendRetry, Go, Deliver
  <1>6. CASE TcpControlEnds
    BY <1>6 DEF TcpControlEnds, Go
  <1>7. CASE MaybeRequest
    BY <1>7 DEF MaybeRequest, Go
  <1>8. CASE SendUpdate
    BY <1>8 DEF SendUpdate, Go, Deliver
  <1>9. CASE HandleStreamConfigAck
    BY <1>9 DEF HandleStreamConfigAck, Go, Accepted
  <1>10. CASE ApplyPrepare
    BY <1>10 DEF ApplyPrepare, Go
  <1>11. CASE ApplySwap
    BY <1>11 DEF ApplySwap, Go
  <1>12. CASE ApplyLayout
    BY <1>12 DEF ApplyLayout, Go
  <1>13. CASE ApplyDone
    BY <1>13 DEF ApplyDone, Go
  <1>14. CASE ReceiveUpdate
    BY <1>14 DEF ReceiveUpdate, Ack
  <1>15. CASE QueueUpdate
    BY <1>15 DEF QueueUpdate, Ack
  <1>16. CASE WorkerDecode
    BY <1>16 DEF WorkerDecode
  <1>17. CASE WorkerCompletes
    <2>1. /\ working # NoResult /\ working' = NoResult /\ completed' = working
          /\ UNCHANGED <<connected, conn, disturbed, pc, deferred, shown, decoderEncoded>>
      BY <1>17 DEF WorkerCompletes
    <2>2. completed = NoResult
      BY <2>1 DEF OneUpdate
    <2> QED BY <2>1, <2>2
  <1>18. CASE ApplyCompleted
    <2>1. /\ completed # NoResult /\ completed' = NoResult
          /\ UNCHANGED <<connected, conn, disturbed, pc, working, decoderEncoded>>
      BY <1>18 DEF ApplyCompleted
    <2> SUFFICES ASSUME Live
                 PROVE  decoderEncoded = IF deferred' = NoUpdate THEN shown' ELSE deferred'.size
      BY <2>1
    <2>2. /\ ~Stale /\ working = NoResult
          /\ completed.seq # 0 /\ (completed.accepted => decoderEncoded = completed.size)
      BY <2>1, CompletedIsAsked
    <2>3. CASE ~completed.accepted
      BY <1>18, <2>2, <2>3 DEF ApplyCompleted
    <2>4. CASE completed.accepted
      <3>1. /\ deferred' = IF completed.kept
                           THEN [seq |-> completed.seq, size |-> completed.size] ELSE NoUpdate
            /\ shown' = IF completed.kept THEN shown ELSE completed.size
        BY <1>18, <2>2, <2>4 DEF ApplyCompleted
      <3>2. [seq |-> completed.seq, size |-> completed.size] # NoUpdate
        BY <2>2
      <3> QED BY <2>2, <2>4, <3>1, <3>2
    <2> QED BY <2>3, <2>4
  <1>19. CASE ApplyCompletedEnds
    BY <1>19 DEF ApplyCompletedEnds
  <1>20. CASE ResetConnection
    BY <1>20 DEF ResetConnection
  <1>21. CASE OnNalUnitReceived
    BY <1>21 DEF OnNalUnitReceived
  <1>22. CASE ApplyDeferred
    BY <1>22 DEF ApplyDeferred
  <1>23. CASE OnConnectionLost
    BY <1>23 DEF OnConnectionLost
  <1>24. CASE UNCHANGED vars
    BY <1>24 DEF vars
  <1> QED BY <1>1, <1>2, <1>3, <1>4, <1>5, <1>6, <1>7, <1>8, <1>9, <1>10, <1>11, <1>12, <1>13,
     <1>14, <1>15, <1>16, <1>17, <1>18, <1>19, <1>20, <1>21, <1>22, <1>23, <1>24, Actions

LEMMA SyncStart ==
    Init => Phases /\ EncoderAgrees /\ TriesFit /\ SwapAgrees /\ ShownAgrees /\ Fresh
  BY DEF Init, Phases, EncoderAgrees, TriesFit, SwapAgrees, ShownAgrees, Fresh, Live,
     NoneAtHeadset

LEMMA SyncInvariant == Spec => []SyncInv
  <1>1. Init => SyncInv
    <2>1. Init => IInv
      <3>1. Init => Budget
        BY DEF Init, Budget
      <3> QED BY <3>1, InitType, InitSlot DEF IInv
    <2> QED BY <2>1, SyncStart DEF SyncInv
  <1>2. SyncInv /\ [Next]_vars => SyncInv'
    BY Inductive, PhasesKept, EncoderKept, TriesKept, SwapKept, ShownKept, FreshKept DEF SyncInv
  <1> QED BY <1>1, <1>2, PTL DEF Spec

\* Once nothing of an update is under way, the server encodes the size the headset decodes
\* and shows, after any rejections, failures of the decoder, drains, disconnections and
\* earlier sessions; short of the two events "disturbed" remembers (PendingState,
\* ApplyPendingStreamConfigLocked, HandleStreamConfigUpdate).
THEOREM EndsAgree == Spec => []InSync
  <1>1. SyncInv => InSync
    <2> SUFFICES ASSUME SyncInv, Quiet, ~disturbed
                 PROVE  /\ encoder = layout.size /\ decoderEncoded = layout.size
                        /\ deferred = NoUpdate => shown = layout.size
      BY DEF InSync
    <2>1. Live /\ pc.ctl = "read"
      BY DEF Quiet, Live, Serving
    <2>2. Resting
      <3>1. pend.st = "Idle"
        BY DEF Quiet, Idle
      <3> QED BY <2>1, <3>1 DEF SyncInv, Phases, Asking, Awaiting, Accepting, Applying, Applied
    <2>3. encoder = layout.size /\ decoderEncoded = layout.size
      BY <2>1, <2>2 DEF SyncInv, EncoderAgrees, Resting, Agrees
    <2>4. ~working.accepted /\ ~completed.accepted
      BY DEF Quiet, NoResult
    <2>5. deferred = NoUpdate => shown = layout.size
      BY <2>1, <2>3, <2>4 DEF SyncInv, ShownAgrees
    <2> QED BY <2>3, <2>5
  <1> QED BY <1>1, SyncInvariant, PTL

\* The old stream goes on until the headset decodes the new size: the encoder is never
\* replaced by one of a size the headset of the session does not decode, not even by an
\* apply that a disconnection overtakes (ApplyPendingStreamConfigLocked).
THEOREM SwapIsAgreed == Spec => SwapFits
  <1> DEFINE A == ApplySwap /\ encoder' # encoder /\ conn = "up" /\ ~disturbed
                    => decoderEncoded = encoder'
  <1>1. SyncInv => [A]_vars
    BY DEF SyncInv, SwapAgrees, ApplySwap
  <1> QED BY <1>1, SyncInvariant, PTL DEF SwapFits
=============================================================================
