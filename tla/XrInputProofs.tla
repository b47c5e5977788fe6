---------------------------- MODULE XrInputProofs ----------------------------
(***************************************************************************)
(* The input calls of an OpenXR application, proved for any sets, actions, *)
(* suggestions, packets and clients, any number of sessions and any queue: *)
(* what is left of a session, what the application knows of its profiles,  *)
(* and which changes of a value it is told of.                             *)
(*                                                                         *)
(* The argument.  Every event that is queued is of a session there has     *)
(* been, and one of a state or a space is of the session there is, so that *)
(* what the removal by session leaves behind are reports of profiles.  An  *)
(* application that has nothing left to learn knows what was reported; one *)
(* that has, still finds it to be the case when it asks, because its input *)
(* is left alone (Told) and a session that has never been attached has had *)
(* no input while a report of an earlier one was in the queue.             *)
(***************************************************************************)
EXTENDS XrInput, FiniteSetTheorems, SequenceTheorems, WellFoundedInduction, TLAPS

-----------------------------------------------------------------------------
(* The inductive invariant.                                                *)

Kinds == {"state", "space", "profile"}
Event == [kind : Kinds, session : Nat]

SetupType ==
    /\ instance \subseteq {"created", "system", "graphics"} /\ sets \subseteq Sets
    /\ live \subseteq Actions /\ created \in [Actions -> 0..MaxCreated]
    /\ attachedSets \subseteq sets /\ DOMAIN data = Slots

CountType ==
    session \in Nat /\ sessions \in Nat /\ session <= sessions /\ sessions <= MaxSessions

FlagType ==
    /\ running \in BOOLEAN /\ attached \in BOOLEAN /\ bounds \in BOOLEAN /\ asking \in BOOLEAN
    /\ client \in Clients \cup {None} /\ step \in {"idle", "left", "right", "apply", "report"}

QueueType == events \in Seq(Event) /\ Len(events) <= MaxEvents

\* Each event is of a session there has been, and of the present one unless it reports a profile.
EventsFit ==
    \A n \in DOMAIN events :
        /\ 0 < events[n].session /\ events[n].session <= sessions
        /\ events[n].kind # "profile" => events[n].session = session

\* Without a session, or an instance, nothing of one is left.
SessionFits ==
    /\ session = 0 => /\ ~running /\ ~attached /\ attachedSets = {} /\ reported = NoProfiles
                      /\ input = NoInput /\ step = "idle"
    /\ step # "idle" => attached
    /\ instance = {} => sets = {} /\ live = {} /\ suggested = <<>> /\ events = <<>> /\ session = 0

\* The application has been told, or has yet to poll, that the profile has changed.
Pending ==
    asking \/ \E n \in DOMAIN events : events[n].kind = "profile" /\ events[n].session = session

NoticeFits ==
    session # 0 =>
        /\ ~Pending => learnt = reported
        /\ ~Told => Current = reported
        /\ ~attached => reported = NoProfiles
        /\ ~attached /\ ~Told => input = NoInput

IInv == SetupType /\ CountType /\ FlagType /\ QueueType /\ EventsFit /\ SessionFits
NoticeInv == IInv /\ NoticeFits

-----------------------------------------------------------------------------
(* The events that stay when those of a session are removed.               *)

Less == {p \in Nat \X Nat : p[1] < p[2]}

\* A set of numbers has a first.
LEMMA FirstOfNats ==
    ASSUME NEW T \in SUBSET Nat, T # {}
    PROVE  \E n \in T : \A k \in T : n <= k
<1>1. IsWellFoundedOn(Less, Nat)
  BY NatLessThanWellFounded DEF Less, OpToRel
<1>2. PICK n \in T : \A k \in T : <<k, n>> \notin Less
  BY <1>1, WFMin
<1>3. ASSUME NEW k \in T PROVE n <= k
  <2>1. ~(k < n)
    BY <1>2 DEF Less
  <2> QED BY <2>1
<1> QED BY <1>3

\* The r-th of a set of indices is one of them.
LEMMA NthIsMember ==
    ASSUME NEW L \in Nat, NEW K \in SUBSET (1..L), NEW r \in 1..Cardinality(K)
    PROVE  Nth(K, r) \in K
<1> DEFINE Upto(i) == {m \in K : m <= i}
           C(i)    == Cardinality(Upto(i))
<1>0. \A m \in K : m \in Nat /\ 1 <= m /\ m <= L
  OBVIOUS
<1>1. IsFiniteSet(K) /\ Cardinality(K) \in Nat
  <2>1. IsFiniteSet(1..L)
    BY FS_Interval
  <2>2. IsFiniteSet(K)
    BY <2>1, FS_Subset
  <2> QED BY <2>2, FS_CardinalityType
<1>2. \A i \in Nat : IsFiniteSet(Upto(i)) /\ C(i) \in Nat
  BY <1>1, FS_Subset, FS_CardinalityType
<1>3. C(0) = 0
  <2>1. \A m \in K : ~(m <= 0)
    BY <1>0
  <2>2. Upto(0) = {}
    BY <2>1
  <2> QED BY <2>2, FS_EmptySet
<1>4. C(L) = Cardinality(K)
  <2>1. Upto(L) = K
    BY <1>0
  <2> QED BY <2>1
<1>5. \A i \in Nat : /\ i + 1 \in K => C(i + 1) = C(i) + 1
                     /\ i + 1 \notin K => C(i + 1) = C(i)
  <2> TAKE i \in Nat
  <2>0. \A m \in K : m <= i + 1 <=> m <= i \/ m = i + 1
    BY <1>0
  <2>1. ASSUME i + 1 \in K PROVE C(i + 1) = C(i) + 1
    <3>1. Upto(i + 1) = Upto(i) \cup {i + 1}
      BY <2>0, <2>1
    <3>2. i + 1 \notin Upto(i)
      <4>1. ~(i + 1 <= i)
        OBVIOUS
      <4> QED BY <4>1
    <3> QED BY <3>1, <3>2, <1>2, FS_AddElement
  <2>2. ASSUME i + 1 \notin K PROVE C(i + 1) = C(i)
    <3>1. Upto(i + 1) = Upto(i)
      BY <2>0, <2>2
    <3> QED BY <3>1
  <2> QED BY <2>1, <2>2
<1> HIDE DEF C
<1>6. PICK i \in {k \in Nat : C(k) >= r} : \A k \in {j \in Nat : C(j) >= r} : i <= k
  <2>1. L \in {k \in Nat : C(k) >= r}
    BY <1>4, <1>1
  <2> QED BY <2>1, FirstOfNats
<1>7. i # 0
  BY <1>3, <1>6
<1>8. i - 1 \in Nat /\ C(i - 1) < r /\ C(i - 1) \in Nat /\ (i - 1) + 1 = i
  <2>1. i - 1 \in Nat /\ (i - 1) + 1 = i
    BY <1>6, <1>7
  <2>2. ~(C(i - 1) >= r)
    BY <1>6, <2>1
  <2>3. C(i - 1) \in Nat
    BY <2>1, <1>2 DEF C
  <2> QED BY <2>1, <2>2, <2>3, <1>1
<1>9. i \in K /\ C(i) = r
  <2>1. /\ i \in K => C(i) = C(i - 1) + 1
        /\ i \notin K => C(i) = C(i - 1)
    BY <1>5, <1>8
  <2>2. C(i) >= r
    BY <1>6
  <2> QED BY <2>1, <2>2, <1>8, <1>1
<1>10. \E n \in K : Cardinality({m \in K : m <= n}) = r
  BY <1>9 DEF C
<1> QED BY <1>10 DEF Nth

LEMMA RemovalKeeps ==
    ASSUME QueueType, RemoveEventsForSession
    PROVE  /\ events' \in Seq(Event) /\ Len(events') <= Len(events)
           /\ \A n \in DOMAIN events' :
                  \E m \in DOMAIN events : events'[n] = events[m] /\ ~RemovedWith(events[m])
<1> DEFINE K == {n \in DOMAIN events : ~RemovedWith(events[n])}
<1>1. Len(events) \in Nat /\ DOMAIN events = 1..Len(events) /\ K \in SUBSET (1..Len(events))
  BY DEF QueueType
<1>2. Cardinality(K) \in Nat /\ Cardinality(K) <= Len(events)
  <2>1. IsFiniteSet(1..Len(events)) /\ Cardinality(1..Len(events)) = Len(events)
    BY <1>1, FS_Interval
  <2> QED BY <2>1, <1>1, FS_Subset, FS_CardinalityType
<1>3. \A r \in 1..Cardinality(K) : Nth(K, r) \in K
  BY <1>1, NthIsMember
<1>4. events' = [r \in 1..Cardinality(K) |-> events[Nth(K, r)]]
  BY DEF RemoveEventsForSession
<1> HIDE DEF K
<1>5. \A r \in 1..Cardinality(K) : Nth(K, r) \in DOMAIN events /\ ~RemovedWith(events[Nth(K, r)])
  BY <1>3 DEF K
<1>6. \A r \in 1..Cardinality(K) : events[Nth(K, r)] \in Event
  BY <1>5 DEF QueueType
<1>7. events' \in Seq(Event)
  BY <1>2, <1>4, <1>6, IsASeq
<1>8. DOMAIN events' = 1..Cardinality(K) /\ Len(events') = Cardinality(K)
  BY <1>2, <1>4, <1>7
<1> QED BY <1>2, <1>4, <1>5, <1>7, <1>8

-----------------------------------------------------------------------------
(* What is left of a session.                                              *)

\* The calls by what they are about.
Setups == CreateInstance \/ GetSystem \/ GetGraphicsRequirements
          \/ (\E s \in Sets : CreateActionSet(s) \/ DestroyActionSet(s))
          \/ (\E a \in Actions : CreateAction(a) \/ DestroyAction(a))
          \/ \E g \in Suggestions : SuggestBindings(g)
Sessions == CreateSession \/ BeginSession \/ DestroyFails \/ AttachActionSets
Syncs == (\E S \in Groups : SyncActions(S)) \/ ReadLeft \/ ReadRight \/ ApplyActions
Frames == (\E pk \in Packets : WaitFrame(pk)) \/ WaitFrameUntracked
Devs == WireClient \/ UnwireClient \/ ClientLeaves \/ (\E c \in Clients : ClientConnects(c))
        \/ (\E d \in Devices : SetInputDeviceActive(d))
        \/ (\E s \in States : SetInputDeviceState(s))
Asks == GetCurrentInteractionProfile

LEMMA Steps ==
    ASSUME [Next]_vars
    PROVE  \/ Setups \/ Sessions \/ Syncs \/ Frames \/ Devs \/ Asks \/ UNCHANGED vars
           \/ DestroyInstance \/ DestroySession \/ PollEvent \/ ReportProfile
BY DEF Next, Setups, Sessions, Syncs, Frames, Devs, Asks

LEMMA Bounds ==
    /\ MaxSessions \in Nat /\ MaxCreated \in Nat /\ MaxEvents \in Nat
    /\ MaxSessions > 0 /\ MaxCreated > 0 /\ MaxEvents > 0
BY BoundAssumption

\* What becomes of the events and of the session.
Grows(k) == Room /\ events' = Append(events, [kind |-> k, session |-> session'])

LEMMA Appended ==
    ASSUME QueueType, NEW k \in Kinds, Grows(k), session' \in Nat
    PROVE  /\ events' \in Seq(Event) /\ Len(events') <= MaxEvents
           /\ \A n \in DOMAIN events' :
                  \/ n \in DOMAIN events /\ events'[n] = events[n]
                  \/ events'[n] = [kind |-> k, session |-> session']
           /\ \A n \in DOMAIN events : n \in DOMAIN events' /\ events'[n] = events[n]
           /\ \E n \in DOMAIN events' : events'[n] = [kind |-> k, session |-> session']
<1> DEFINE e == [kind |-> k, session |-> session']
<1>1. e \in Event
  BY DEF Event
<1>2. events' = Append(events, e) /\ Len(events) < MaxEvents
  BY DEF Grows, Room
<1> HIDE DEF e
<1>3. events \in Seq(Event)
  BY DEF QueueType
<1>4. events' \in Seq(Event) /\ Len(events') = Len(events) + 1
  BY <1>1, <1>2, <1>3, AppendProperties
<1>5. /\ Len(events) \in Nat /\ DOMAIN events = 1..Len(events)
      /\ DOMAIN events' = 1..(Len(events) + 1)
      /\ \A n \in 1..Len(events) : events'[n] = events[n]
      /\ events'[Len(events) + 1] = e
  BY <1>1, <1>2, <1>3, <1>4, AppendProperties
<1>6. \A n \in 1..(Len(events) + 1) : n \in 1..Len(events) \/ n = Len(events) + 1
  BY <1>5
<1> HIDE DEF Event
<1>7. Len(events') <= MaxEvents
  BY <1>2, <1>4, <1>5, Bounds
<1>8. Len(events) + 1 \in DOMAIN events'
  BY <1>5
<1>9. \A n \in 1..Len(events) : n \in DOMAIN events'
  BY <1>5
<1>10. \A n \in DOMAIN events' : (n \in DOMAIN events /\ events'[n] = events[n]) \/ events'[n] = e
  BY <1>5, <1>6
<1> QED BY <1>4, <1>5, <1>7, <1>8, <1>9, <1>10 DEF e

LEMMA Polled ==
    ASSUME QueueType, events # <<>>, events' = Tail(events)
    PROVE  /\ events' \in Seq(Event) /\ Len(events') <= MaxEvents
           /\ Head(events) = events[1] /\ 1 \in DOMAIN events
           /\ \A n \in DOMAIN events' : n + 1 \in DOMAIN events /\ events'[n] = events[n + 1]
           /\ \A n \in DOMAIN events :
                  n = 1 \/ (n - 1 \in DOMAIN events' /\ events'[n - 1] = events[n])
<1>1. events \in Seq(Event) /\ Len(events) <= MaxEvents
  BY DEF QueueType
<1>2. /\ Head(events) = events[1] /\ events' \in Seq(Event) /\ Len(events') = Len(events) - 1
      /\ \A n \in 1..Len(events') : events'[n] = events[n + 1]
  BY <1>1, HeadTailProperties
<1>3. /\ Len(events) \in Nat /\ Len(events) # 0 /\ DOMAIN events = 1..Len(events)
      /\ DOMAIN events' = 1..(Len(events) - 1)
  BY <1>1, <1>2, EmptySeq
<1>4. Len(events') <= MaxEvents /\ 1 \in DOMAIN events
  BY <1>1, <1>2, <1>3, Bounds
<1>5. \A n \in DOMAIN events' : n + 1 \in DOMAIN events /\ events'[n] = events[n + 1]
  BY <1>2, <1>3
<1>6. \A n \in DOMAIN events : n = 1 \/ (n - 1 \in 1..Len(events') /\ (n - 1) + 1 = n)
  BY <1>2, <1>3
<1>7. \A n \in DOMAIN events : n = 1 \/ (n - 1 \in DOMAIN events' /\ events'[n - 1] = events[n])
  BY <1>2, <1>3, <1>6
<1> QED BY <1>2, <1>4, <1>5, <1>7

\* The types of what the application sets up.
LEMMA SetupKept == ASSUME IInv, [Next]_vars PROVE SetupType'
<1> USE DEF SetupType, IInv, SessionFits, CountType, Idle, vars, setup, attach, syncing, app, device
<1>1. CASE Setups
  <2>1. CASE CreateInstance
    BY <2>1, Bounds DEF CreateInstance
  <2>2. CASE GetSystem
    BY <2>2, Bounds DEF GetSystem, Ask
  <2>3. CASE GetGraphicsRequirements
    BY <2>3, Bounds DEF GetGraphicsRequirements, Ask
  <2>4. CASE \E s \in Sets : CreateActionSet(s)
    BY <2>4, Bounds DEF CreateActionSet
  <2>5. CASE \E s \in Sets : DestroyActionSet(s)
    BY <2>5, Bounds DEF DestroyActionSet
  <2>6. CASE \E a \in Actions : CreateAction(a)
    BY <2>6, Bounds DEF CreateAction, IsAttached
  <2>7. CASE \E a \in Actions : DestroyAction(a)
    BY <2>7, Bounds DEF DestroyAction
  <2>8. CASE \E g \in Suggestions : SuggestBindings(g)
    BY <2>8, Bounds DEF SuggestBindings
  <2> QED BY <1>1, <2>1, <2>2, <2>3, <2>4, <2>5, <2>6, <2>7, <2>8 DEF Setups
<1>2. CASE Sessions
  BY <1>2, Bounds DEF Sessions, CreateSession, Push, Room, BeginSession, DestroyFails,
     AttachActionSets, Moves
<1>3. CASE Syncs
  BY <1>3, Bounds DEF Syncs, SyncActions, ReadLeft, ReadRight, ReadSide, ApplyActions
<1>4. CASE Frames
  BY <1>4, Bounds DEF Frames, WaitFrame, WaitFrameUntracked, Moves, Room
<1>5. CASE Devs
  BY <1>5, Bounds DEF Devs, WireClient, UnwireClient, ClientLeaves, ClientConnects,
     SetInputDeviceActive, SetInputDeviceState, Automated, Moves
<1>6. CASE Asks
  BY <1>6, Bounds DEF Asks, GetCurrentInteractionProfile
<1>7. CASE UNCHANGED vars
  BY <1>7, Bounds
<1>8. CASE DestroyInstance
  BY <1>8, Bounds DEF DestroyInstance
<1>9. CASE DestroySession
  BY <1>9, Bounds DEF DestroySession
<1>10. CASE PollEvent
  BY <1>10, Bounds DEF PollEvent
<1>11. CASE ReportProfile
  BY <1>11, Bounds DEF ReportProfile, Room
<1> QED BY <1>1, <1>2, <1>3, <1>4, <1>5, <1>6, <1>7, <1>8, <1>9, <1>10, <1>11, Steps

\* The number of the session and of the sessions.
LEMMA CountKept == ASSUME IInv, [Next]_vars PROVE CountType'
<1> USE DEF CountType, IInv, Idle, vars, setup, attach, syncing, app, device
<1>1. CASE Setups
  BY <1>1, Bounds DEF Setups, CreateInstance, GetSystem, GetGraphicsRequirements, Ask,
     CreateActionSet, DestroyActionSet, CreateAction, DestroyAction, SuggestBindings, IsAttached
<1>2. CASE Sessions
  <2>1. CASE CreateSession
    BY <2>1, Bounds DEF CreateSession, Push, Room
  <2>2. CASE BeginSession
    BY <2>2, Bounds DEF BeginSession
  <2>3. CASE DestroyFails
    BY <2>3, Bounds DEF DestroyFails, Moves
  <2>4. CASE AttachActionSets
    BY <2>4, Bounds DEF AttachActionSets
  <2> QED BY <1>2, <2>1, <2>2, <2>3, <2>4 DEF Sessions
<1>3. CASE Syncs
  BY <1>3, Bounds DEF Syncs, SyncActions, ReadLeft, ReadRight, ReadSide, ApplyActions
<1>4. CASE Frames
  BY <1>4, Bounds DEF Frames, WaitFrame, WaitFrameUntracked, Moves, Room
<1>5. CASE Devs
  BY <1>5, Bounds DEF Devs, WireClient, UnwireClient, ClientLeaves, ClientConnects,
     SetInputDeviceActive, SetInputDeviceState, Automated, Moves
<1>6. CASE Asks
  BY <1>6, Bounds DEF Asks, GetCurrentInteractionProfile
<1>7. CASE UNCHANGED vars
  BY <1>7, Bounds
<1>8. CASE DestroyInstance
  BY <1>8, Bounds DEF DestroyInstance
<1>9. CASE DestroySession
  BY <1>9, Bounds DEF DestroySession
<1>10. CASE PollEvent
  BY <1>10, Bounds DEF PollEvent
<1>11. CASE ReportProfile
  BY <1>11, Bounds DEF ReportProfile, Room
<1> QED BY <1>1, <1>2, <1>3, <1>4, <1>5, <1>6, <1>7, <1>8, <1>9, <1>10, <1>11, Steps

\* The types of the flags, the client and the place in a synchronisation.
LEMMA FlagKept == ASSUME IInv, [Next]_vars PROVE FlagType'
<1> USE DEF FlagType, IInv, Idle, vars, setup, attach, syncing, app, device
<1>1. CASE Setups
  BY <1>1, PacketAssumption DEF Setups, CreateInstance, GetSystem, GetGraphicsRequirements, Ask,
     CreateActionSet, DestroyActionSet, CreateAction, DestroyAction, SuggestBindings, IsAttached
<1>2. CASE Sessions
  <2>1. CASE CreateSession
    BY <2>1, PacketAssumption DEF CreateSession, Push, Room
  <2>2. CASE BeginSession
    BY <2>2, PacketAssumption DEF BeginSession
  <2>3. CASE DestroyFails
    BY <2>3, PacketAssumption DEF DestroyFails, Moves
  <2>4. CASE AttachActionSets
    BY <2>4, PacketAssumption DEF AttachActionSets
  <2> QED BY <1>2, <2>1, <2>2, <2>3, <2>4 DEF Sessions
<1>3. CASE Syncs
  BY <1>3, PacketAssumption DEF Syncs, SyncActions, ReadLeft, ReadRight, ReadSide, ApplyActions
<1>4. CASE Frames
  BY <1>4, PacketAssumption DEF Frames, WaitFrame, WaitFrameUntracked, Moves, Room
<1>5. CASE Devs
  BY <1>5, PacketAssumption DEF Devs, WireClient, UnwireClient, ClientLeaves, ClientConnects,
     SetInputDeviceActive, SetInputDeviceState, Automated, Moves
<1>6. CASE Asks
  BY <1>6, PacketAssumption DEF Asks, GetCurrentInteractionProfile
<1>7. CASE UNCHANGED vars
  BY <1>7, PacketAssumption
<1>8. CASE DestroyInstance
  BY <1>8, PacketAssumption DEF DestroyInstance
<1>9. CASE DestroySession
  BY <1>9, PacketAssumption DEF DestroySession
<1>10. CASE PollEvent
  BY <1>10, PacketAssumption DEF PollEvent
<1>11. CASE ReportProfile
  BY <1>11, PacketAssumption DEF ReportProfile, Room
<1> QED BY <1>1, <1>2, <1>3, <1>4, <1>5, <1>6, <1>7, <1>8, <1>9, <1>10, <1>11, Steps

EventMoves ==
    \/ UNCHANGED <<events, session, sessions>>
    \/ session # 0 /\ UNCHANGED <<session, sessions>> /\ \E k \in Kinds : Grows(k)
    \/ CreateSession \/ DestroyInstance \/ DestroySession \/ PollEvent

\* The steps by what they do to the events.
LEMMA EventSteps == ASSUME IInv, [Next]_vars PROVE EventMoves
<1> USE DEF IInv, Idle, CountType, SessionFits, EventMoves, Grows, Room, vars, setup, attach,
   syncing, app, device
<1>1. CASE Setups
  BY <1>1 DEF Setups, CreateInstance, GetSystem, GetGraphicsRequirements, Ask, CreateActionSet,
     DestroyActionSet, CreateAction, DestroyAction, SuggestBindings, IsAttached
<1>2. CASE Sessions
  <2>1. CASE CreateSession
    BY <2>1 DEF CreateSession, Push, Room
  <2>2. CASE BeginSession
    BY <2>2 DEF BeginSession
  <2>3. CASE DestroyFails
    BY <2>3 DEF DestroyFails, Moves
  <2>4. CASE AttachActionSets
    BY <2>4 DEF AttachActionSets
  <2> QED BY <1>2, <2>1, <2>2, <2>3, <2>4 DEF Sessions
<1>3. CASE Syncs
  BY <1>3 DEF Syncs, SyncActions, ReadLeft, ReadRight, ReadSide, ApplyActions
<1>4. CASE Frames
  <2>1. CASE \E pk \in Packets : WaitFrame(pk)
    <3>1. PICK pk \in Packets : WaitFrame(pk)
      BY <2>1
    <3>2. session # 0 /\ UNCHANGED <<session, sessions>> /\ (events' = events \/ Grows("space"))
      BY <3>1 DEF WaitFrame, Moves
    <3> QED BY <3>2 DEF Kinds
  <2>2. CASE WaitFrameUntracked
    <3>1. session # 0 /\ UNCHANGED <<session, sessions>> /\ Grows("space")
      BY <2>2 DEF WaitFrameUntracked, Moves
    <3> QED BY <3>1 DEF Kinds
  <2> QED BY <1>4, <2>1, <2>2 DEF Frames
<1>5. CASE Devs
  BY <1>5 DEF Devs, WireClient, UnwireClient, ClientLeaves, ClientConnects, SetInputDeviceActive,
     SetInputDeviceState, Automated, Moves
<1>6. CASE Asks
  BY <1>6 DEF Asks, GetCurrentInteractionProfile
<1>7. CASE UNCHANGED vars
  BY <1>7
<1>8. CASE DestroyInstance
  BY <1>8
<1>9. CASE DestroySession
  BY <1>9
<1>10. CASE PollEvent
  BY <1>10
<1>11. CASE ReportProfile
  <2>1. session # 0 /\ UNCHANGED <<session, sessions>> /\ (events' = events \/ Grows("profile"))
    BY <1>11 DEF ReportProfile
  <2> QED BY <2>1 DEF Kinds
<1> QED BY <1>1, <1>2, <1>3, <1>4, <1>5, <1>6, <1>7, <1>8, <1>9, <1>10, <1>11, Steps

\* The queue stays within its bound.
LEMMA QueueKept == ASSUME IInv, [Next]_vars PROVE QueueType'
<1> USE DEF IInv, QueueType
<1>1. CASE UNCHANGED <<events, session, sessions>>
  BY <1>1
<1>2. CASE session # 0 /\ UNCHANGED <<session, sessions>> /\ \E k \in Kinds : Grows(k)
  <2>1. session' \in Nat
    BY <1>2 DEF CountType
  <2> QED BY <1>2, <2>1, Appended
<1>3. CASE CreateSession
  <2>1. session' \in Nat /\ Grows("state") /\ "state" \in Kinds
    BY <1>3 DEF CreateSession, Push, CountType, Grows, Kinds
  <2> QED BY <2>1, Appended
<1>4. CASE DestroyInstance
  BY <1>4, Bounds DEF DestroyInstance
<1>5. CASE DestroySession
  <2>1. RemoveEventsForSession
    BY <1>5 DEF DestroySession
  <2>2. events' \in Seq(Event) /\ Len(events') <= Len(events)
    BY <2>1, RemovalKeeps
  <2> QED BY <2>2, Bounds
<1>6. CASE PollEvent
  BY <1>6, Polled DEF PollEvent
<1> QED BY <1>1, <1>2, <1>3, <1>4, <1>5, <1>6, EventSteps DEF EventMoves

\* No event outlives its session, but the reports of profiles.
LEMMA EventsKept == ASSUME IInv, [Next]_vars PROVE EventsFit'
<1> USE DEF IInv, EventsFit
<1>0. /\ session \in Nat /\ sessions \in Nat /\ session <= sessions
      /\ \A n \in DOMAIN events : events[n] \in Event
  BY DEF CountType, QueueType
<1>1. CASE UNCHANGED <<events, session, sessions>>
  BY <1>1
<1>2. CASE session # 0 /\ UNCHANGED <<session, sessions>> /\ \E k \in Kinds : Grows(k)
  <2>1. session' \in Nat
    BY <1>0, <1>2
  <2>2. PICK k \in Kinds : Grows(k)
    BY <1>2
  <2>3. \A n \in DOMAIN events' : \/ n \in DOMAIN events /\ events'[n] = events[n]
                                  \/ events'[n] = [kind |-> k, session |-> session']
    BY <2>1, <2>2, Appended
  <2> QED BY <1>0, <1>2, <2>3
<1>3. CASE CreateSession
  <2>1. /\ session' = sessions + 1 /\ sessions' = sessions + 1 /\ session = 0
        /\ Grows("state") /\ "state" \in Kinds
    BY <1>3 DEF CreateSession, Push, Grows, Kinds
  <2>2. session' \in Nat
    BY <1>0, <2>1
  <2>3. \A n \in DOMAIN events' : \/ n \in DOMAIN events /\ events'[n] = events[n]
                                  \/ events'[n] = [kind |-> "state", session |-> session']
    BY <2>1, <2>2, Appended
  <2>4. \A n \in DOMAIN events :
            events[n].kind = "profile" /\ 0 < events[n].session /\ events[n].session <= sessions
    BY <1>0, <2>1
  <2>5. \A n \in DOMAIN events : events[n].session \in Nat
    BY <1>0 DEF Event
  <2> QED BY <1>0, <2>1, <2>3, <2>4, <2>5
<1>4. CASE DestroyInstance
  BY <1>4 DEF DestroyInstance
<1>5. CASE DestroySession
  <2>1. RemoveEventsForSession /\ sessions' = sessions
    BY <1>5 DEF DestroySession, attach
  <2>2. \A n \in DOMAIN events' :
            \E m \in DOMAIN events : events'[n] = events[m] /\ ~RemovedWith(events[m])
    BY <2>1, RemovalKeeps
  <2>3. \A m \in DOMAIN events : ~RemovedWith(events[m]) => events[m].kind = "profile"
    BY <1>0 DEF RemovedWith, Event, Kinds
  <2> QED BY <2>1, <2>2, <2>3
<1>6. CASE PollEvent
  <2>1. UNCHANGED <<session, sessions>>
    BY <1>6 DEF PollEvent, attach
  <2>2. \A n \in DOMAIN events' : n + 1 \in DOMAIN events /\ events'[n] = events[n + 1]
    BY <1>6, Polled DEF PollEvent
  <2> QED BY <2>1, <2>2
<1> QED BY <1>1, <1>2, <1>3, <1>4, <1>5, <1>6, EventSteps DEF EventMoves

\* A session leaves nothing of itself.
LEMMA SessionKept == ASSUME IInv, [Next]_vars PROVE SessionFits'
<1> USE DEF SessionFits, IInv, Idle, SetupType, CountType, IsAttached, Push, vars, setup, attach,
   syncing, app, device
<1>1. CASE Setups
  <2>1. CASE CreateInstance
    BY <2>1, Bounds DEF CreateInstance
  <2>2. CASE GetSystem
    BY <2>2, Bounds DEF GetSystem, Ask
  <2>3. CASE GetGraphicsRequirements
    BY <2>3, Bounds DEF GetGraphicsRequirements, Ask
  <2>4. CASE \E s \in Sets : CreateActionSet(s)
    <3>1. /\ instance # {}
          /\ UNCHANGED <<instance, session, running, attached, attachedSets, reported, input, step>>
      BY <2>4 DEF CreateActionSet
    <3> QED BY <3>1
  <2>5. CASE \E s \in Sets : DestroyActionSet(s)
    BY <2>5, Bounds DEF DestroyActionSet
  <2>6. CASE \E a \in Actions : CreateAction(a)
    BY <2>6, Bounds DEF CreateAction, IsAttached
  <2>7. CASE \E a \in Actions : DestroyAction(a)
    BY <2>7, Bounds DEF DestroyAction
  <2>8. CASE \E g \in Suggestions : SuggestBindings(g)
    BY <2>8, Bounds DEF SuggestBindings
  <2> QED BY <1>1, <2>1, <2>2, <2>3, <2>4, <2>5, <2>6, <2>7, <2>8 DEF Setups
<1>2. CASE Sessions
  <2>1. CASE CreateSession
    BY <2>1, Bounds DEF CreateSession, Push, Room
  <2>2. CASE BeginSession
    BY <2>2, Bounds DEF BeginSession
  <2>3. CASE DestroyFails
    BY <2>3, Bounds DEF DestroyFails, Moves
  <2>4. CASE AttachActionSets
    BY <2>4, Bounds DEF AttachActionSets
  <2> QED BY <1>2, <2>1, <2>2, <2>3, <2>4 DEF Sessions
<1>3. CASE Syncs
  BY <1>3, Bounds DEF Syncs, SyncActions, ReadLeft, ReadRight, ReadSide, ApplyActions
<1>4. CASE Frames
  BY <1>4, Bounds DEF Frames, WaitFrame, WaitFrameUntracked, Moves, Room
<1>5. CASE Devs
  BY <1>5, Bounds DEF Devs, WireClient, UnwireClient, ClientLeaves, ClientConnects,
     SetInputDeviceActive, SetInputDeviceState, Automated, Moves
<1>6. CASE Asks
  BY <1>6, Bounds DEF Asks, GetCurrentInteractionProfile
<1>7. CASE UNCHANGED vars
  BY <1>7, Bounds
<1>8. CASE DestroyInstance
  BY <1>8, Bounds DEF DestroyInstance
<1>9. CASE DestroySession
  BY <1>9, Bounds DEF DestroySession
<1>10. CASE PollEvent
  BY <1>10, Bounds DEF PollEvent
<1>11. CASE ReportProfile
  BY <1>11, Bounds DEF ReportProfile, Room
<1> QED BY <1>1, <1>2, <1>3, <1>4, <1>5, <1>6, <1>7, <1>8, <1>9, <1>10, <1>11, Steps

LEMMA Start == ASSUME Init PROVE IInv
<1> USE DEF Init
<1>1. SetupType
  BY Bounds DEF SetupType
<1>2. CountType
  BY Bounds DEF CountType
<1>3. QueueType /\ EventsFit
  BY Bounds DEF QueueType, EventsFit
<1>4. SessionFits
  BY DEF SessionFits
<1>5. FlagType
  BY DEF FlagType
<1> QED BY <1>1, <1>2, <1>3, <1>4, <1>5 DEF IInv

LEMMA Invariance == Spec => []IInv
<1>1. Init => IInv
  BY Start
<1>2. IInv /\ [Next]_vars => IInv'
  BY SetupKept, CountKept, FlagKept, QueueKept, EventsKept, SessionKept DEF IInv
<1> QED BY <1>1, <1>2, PTL DEF Spec

\* With no session, whatever ended it, the runtime keeps nothing of one: no attachment, no
\* reported profile, no event of its states or its spaces, no input; with no instance
\* nothing at all; and the queue and the handles keep within their bounds
\* (OxrDestroySession, RemoveEventsForSession, CleanupRuntimeState).
THEOREM InputIsSafe == Spec => []InputSafe
<1>1. ASSUME IInv PROVE TypeOK
  BY <1>1 DEF IInv, TypeOK, SetupType, CountType, FlagType, QueueType
<1>2. ASSUME IInv PROVE NothingCarriesOver
  <2>1. \A n \in DOMAIN events :
            events[n].kind # "profile" => events[n].session = session /\ session # 0
    BY <1>2 DEF IInv, EventsFit, CountType
  <2> QED BY <1>2, <2>1 DEF IInv, SessionFits, NothingCarriesOver
<1>3. IInv => InputSafe
  BY <1>1, <1>2 DEF InputSafe
<1> QED BY <1>3, Invariance, PTL

-----------------------------------------------------------------------------
(* What the application knows of its profiles.                             *)

\* With nothing connected no profile is active.
LEMMA NothingActive ==
    ASSUME NEW of, NEW h \in Hands
    PROVE  FirstSuggested(of, NoInput, h) = NoProfile
<1>1. ~ControllerActive(NoInput, h) /\ ~HandActive(NoInput, h) /\ ~NoInput.auto[h].explicit
  BY DEF NoInput, ControllerActive, HandActive
<1>2. DeviceProfile(NoInput, h) = NoProfile
  BY <1>1 DEF DeviceProfile
<1>3. <<>> \o <<>> = <<>>
  OBVIOUS
<1>4. ActiveProfiles(NoInput, h) = <<>>
  BY <1>1, <1>2, <1>3 DEF ActiveProfiles, Listed
<1> QED BY <1>4 DEF FirstSuggested

\* The profiles follow from the input and the suggested bindings.
LEMMA SameCurrent == ASSUME UNCHANGED <<input, suggested>> PROVE Current' = Current
BY DEF Current, Selected

\* What the notice depends on.
Informed == <<session, attached, reported, learnt, asking, input, suggested>>

LEMMA SpaceTold ==
    ASSUME QueueType, session' \in Nat, asking' = asking, session' = session,
           events' = events \/ Grows("space")
    PROVE  (Told' <=> Told) /\ (Pending' <=> Pending)
<1>1. CASE events' = events
  BY <1>1 DEF Told, Pending
<1>2. CASE Grows("space")
  <2>1. /\ \A n \in DOMAIN events' : \/ n \in DOMAIN events /\ events'[n] = events[n]
                                     \/ events'[n].kind = "space"
        /\ \A n \in DOMAIN events : n \in DOMAIN events' /\ events'[n] = events[n]
    BY <1>2, Appended DEF Kinds
  <2> QED BY <2>1 DEF Told, Pending
<1> QED BY <1>1, <1>2

\* The input of a session changes only while the application has nothing to learn.
InputMoves ==
    /\ Windows = {} => Told
    /\ session # 0
    /\ UNCHANGED <<session, attached, reported, learnt, asking, suggested>>
    /\ events' = events \/ Grows("space")
NoticeMoves ==
    \/ UNCHANGED Informed /\ events' = events
    \/ InputMoves \/ (\E g \in Suggestions : SuggestBindings(g)) \/ CreateSession
    \/ DestroyInstance \/ DestroySession \/ AttachActionSets
    \/ PollEvent \/ GetCurrentInteractionProfile \/ ReportProfile

LEMMA NoticeSteps == ASSUME [Next]_vars PROVE NoticeMoves
<1> USE DEF NoticeMoves, vars, setup, attach, syncing, app, device
<1>1. CASE Setups
  BY <1>1 DEF Informed, Setups, CreateInstance, GetSystem, GetGraphicsRequirements, Ask,
     CreateActionSet, DestroyActionSet, CreateAction, DestroyAction
<1>2. CASE Sessions
  <2>1. CASE DestroyFails
    BY <2>1 DEF DestroyFails, Moves, InputMoves
  <2>2. CASE BeginSession
    BY <2>2 DEF BeginSession, Informed
  <2> QED BY <1>2, <2>1, <2>2 DEF Sessions
<1>3. CASE Syncs
  BY <1>3 DEF Informed, Syncs, SyncActions, ReadLeft, ReadRight, ReadSide, ApplyActions
<1>4. CASE Frames
  BY <1>4 DEF Frames, WaitFrame, WaitFrameUntracked, Moves, InputMoves, Room, Grows
<1>5. CASE WireClient \/ UnwireClient \/ (\E d \in Devices : SetInputDeviceActive(d))
           \/ \E s \in States : SetInputDeviceState(s)
  BY <1>5 DEF WireClient, UnwireClient, SetInputDeviceActive, SetInputDeviceState, Automated,
     Moves, InputMoves
<1>6. CASE ClientLeaves \/ \E c \in Clients : ClientConnects(c)
  BY <1>6 DEF ClientLeaves, ClientConnects, Informed
<1>7. CASE UNCHANGED vars
  BY <1>7 DEF Informed
<1> QED BY <1>1, <1>2, <1>3, <1>4, <1>5, <1>6, <1>7, Steps DEF Devs, Asks

LEMMA NoticeKept == ASSUME Windows = {}, NoticeInv, [Next]_vars PROVE NoticeFits'
<1> USE DEF NoticeInv
<1>0. QueueType /\ session \in Nat /\ (step # "idle" => attached) /\ (session = 0 => ~attached)
  BY DEF IInv, CountType, SessionFits
<1>1. CASE UNCHANGED Informed /\ events' = events
  <2>1. Current' = Current /\ (Told' <=> Told) /\ (Pending' <=> Pending)
    BY <1>1, SameCurrent DEF Informed, Told, Pending
  <2> QED BY <1>1, <2>1 DEF NoticeFits, Informed
<1>2. CASE InputMoves
  <2>1. (Told' <=> Told) /\ (Pending' <=> Pending)
    BY <1>0, <1>2, SpaceTold DEF InputMoves
  <2>2. Told
    BY <1>2 DEF InputMoves
  <2> QED BY <1>2, <2>1, <2>2 DEF NoticeFits, InputMoves
<1>3. CASE \E g \in Suggestions : SuggestBindings(g)
  <2>1. /\ ~attached /\ UNCHANGED <<session, attached, reported, learnt, asking, input>>
        /\ events' = events
    BY <1>3 DEF SuggestBindings, attach, app, device
  <2>2. (Told' <=> Told) /\ (Pending' <=> Pending)
    BY <2>1 DEF Told, Pending
  <2>3. ASSUME session # 0, ~Told PROVE Current' = NoProfiles
    <3>1. input' = NoInput
      BY <2>1, <2>3 DEF NoticeFits
    <3> QED BY <3>1, NothingActive DEF Current, Selected, NoProfiles
  <2> QED BY <2>1, <2>2, <2>3 DEF NoticeFits
<1>4. CASE CreateSession
  <2>1. /\ session = 0 /\ UNCHANGED <<attached, reported, input, suggested>>
        /\ learnt' = NoProfiles
    BY <1>4 DEF CreateSession, setup, device
  <2>2. reported = NoProfiles /\ input = NoInput /\ ~attached
    BY <2>1 DEF IInv, SessionFits
  <2>3. Current' = NoProfiles
    BY <2>1, <2>2, NothingActive DEF Current, Selected, NoProfiles
  <2> QED BY <2>1, <2>2, <2>3 DEF NoticeFits
<1>5. CASE DestroyInstance \/ DestroySession
  BY <1>5 DEF DestroyInstance, DestroySession, NoticeFits
<1>6. CASE AttachActionSets
  <2>1. attached' /\ UNCHANGED <<session, reported, learnt, asking, input, suggested, events>>
    BY <1>6 DEF AttachActionSets, app, device, setup
  <2>2. Current' = Current /\ (Told' <=> Told) /\ (Pending' <=> Pending)
    BY <2>1, SameCurrent DEF Told, Pending
  <2> QED BY <2>1, <2>2 DEF NoticeFits
<1>7. CASE PollEvent
  <2>1. /\ UNCHANGED <<session, attached, reported, learnt, input, suggested>>
        /\ events # <<>> /\ events' = Tail(events)
        /\ asking' <=> (asking \/ (Head(events).kind = "profile" /\ Head(events).session = session))
    BY <1>7 DEF PollEvent, attach, device, setup
  <2>2. /\ Head(events) = events[1] /\ 1 \in DOMAIN events
        /\ \A n \in DOMAIN events' : n + 1 \in DOMAIN events /\ events'[n] = events[n + 1]
        /\ \A n \in DOMAIN events :
               n = 1 \/ (n - 1 \in DOMAIN events' /\ events'[n - 1] = events[n])
    BY <1>0, <2>1, Polled
  <2>3. Pending => Pending'
    BY <2>1, <2>2 DEF Pending
  <2>4. Told => Told'
    BY <2>1, <2>2 DEF Told
  <2>5. Current' = Current
    BY <2>1, SameCurrent
  <2> QED BY <2>1, <2>3, <2>4, <2>5 DEF NoticeFits
<1>8. CASE GetCurrentInteractionProfile
  <2>1. /\ session # 0 /\ attached /\ asking /\ learnt' = Current /\ ~asking'
        /\ UNCHANGED <<session, attached, reported, input, suggested, events>>
    BY <1>8 DEF GetCurrentInteractionProfile, setup, attach, device
  <2>2. Current = reported
    BY <2>1 DEF NoticeFits, Told
  <2>3. Current' = Current
    BY <2>1, SameCurrent
  <2> QED BY <2>1, <2>2, <2>3 DEF NoticeFits
<1>9. CASE ReportProfile
  <2>1. /\ attached /\ reported' = Current
        /\ UNCHANGED <<session, attached, learnt, asking, input, suggested>>
        /\ \/ Current = reported /\ events' = events
           \/ Grows("profile")
    BY <1>0, <1>9 DEF ReportProfile, setup, attach, app, device, Grows
  <2>2. Current' = Current
    BY <2>1, SameCurrent
  <2>3. ASSUME Grows("profile") PROVE Pending'
    <3>1. \E n \in DOMAIN events' : events'[n] = [kind |-> "profile", session |-> session']
      BY <1>0, <2>1, <2>3, Appended DEF Kinds
    <3> QED BY <3>1 DEF Pending
  <2>4. ASSUME Current = reported, events' = events PROVE Pending' <=> Pending
    BY <2>1, <2>4 DEF Pending
  <2> QED BY <2>1, <2>2, <2>3, <2>4 DEF NoticeFits
<1> QED BY <1>1, <1>2, <1>3, <1>4, <1>5, <1>6, <1>7, <1>8, <1>9, NoticeSteps DEF NoticeMoves

\* The application that has polled every event and asked knows the profiles the runtime
\* last reported, through any number of sessions, if it asks only when it has been told:
\* a report left in the queue by a session that is gone tells it nothing wrong of the next
\* (OxrSyncActions, OxrGetCurrentInteractionProfile, OxrDestroySession).
THEOREM NoticeIsQueued == Windows = {} => (Spec => []NoticeQueued)
<1> SUFFICES ASSUME Windows = {} PROVE Spec => []NoticeQueued
  OBVIOUS
<1>1. Init => NoticeInv
  BY Start DEF NoticeInv, NoticeFits, Init
<1>2. NoticeInv /\ [Next]_vars => NoticeInv'
  BY NoticeKept, SetupKept, CountKept, FlagKept, QueueKept, EventsKept, SessionKept
     DEF NoticeInv, IInv
<1>3. NoticeInv => NoticeQueued
  BY DEF NoticeInv, NoticeFits, NoticeQueued, Told, Pending
<1> QED BY <1>1, <1>2, <1>3, PTL DEF Spec

-----------------------------------------------------------------------------
(* Which changes of a value the application is told of.                    *)

LEMMA DataSteps ==
    ASSUME [Next]_vars
    PROVE  \/ UNCHANGED data \/ DestroyInstance \/ (\E a \in Actions : DestroyAction(a))
           \/ ApplyActions
<1> USE DEF vars
<1>1. CASE Setups
  BY <1>1 DEF Setups, CreateInstance, GetSystem, GetGraphicsRequirements, Ask, CreateActionSet,
     DestroyActionSet, CreateAction, SuggestBindings
<1>2. CASE Sessions
  BY <1>2 DEF Sessions, CreateSession, BeginSession, DestroyFails, AttachActionSets
<1>3. CASE Syncs
  BY <1>3 DEF Syncs, SyncActions, ReadLeft, ReadRight, ReadSide
<1>4. CASE Frames
  BY <1>4 DEF Frames, WaitFrame, WaitFrameUntracked
<1>5. CASE Devs
  BY <1>5 DEF Devs, WireClient, UnwireClient, ClientLeaves, ClientConnects, SetInputDeviceActive,
     SetInputDeviceState
<1>6. CASE Asks \/ DestroySession \/ PollEvent \/ ReportProfile
  BY <1>6 DEF Asks, GetCurrentInteractionProfile, DestroySession, PollEvent, ReportProfile
<1> QED BY <1>1, <1>2, <1>3, <1>4, <1>5, <1>6, Steps

\* The states of an action that a query of it looks at.
Looked(a, s) == IF s = None THEN Resolved(a) ELSE {s}

LEMMA LookedIsKept ==
    ASSUME NEW a \in Actions, NEW s \in Hands \cup {None}, Readable(a, s), NEW t \in Looked(a, s)
    PROVE  <<a, t>> \in Slots
<1>1. t \in Resolved(a)
  BY DEF Looked, Readable
<1>2. Resolved(a) \subseteq Hands \cup {None}
  BY ActionAssumption DEF Resolved
<1> QED BY <1>1, <1>2 DEF Slots

\* A query that finds the values it found before has not changed its own.
LEMMA SameValue ==
    ASSUME NEW a, NEW s, \A t \in Looked(a, s) : data'[<<a, t>>].value = data[<<a, t>>].value
    PROVE  Queried(a, s)'.value = Queried(a, s).value
<1>1. {data'[<<a, t>>].value : t \in Looked(a, s)} = {data[<<a, t>>].value : t \in Looked(a, s)}
  OBVIOUS
<1>2. /\ Queried(a, s)'.value = Largest({data'[<<a, t>>].value : t \in Looked(a, s)})
      /\ Queried(a, s).value = Largest({data[<<a, t>>].value : t \in Looked(a, s)})
  BY DEF Queried, Looked
<1> QED BY <1>1, <1>2

\* A value that reads differently than before a step is marked as changed, for one
\* subaction path and for all of them together: no synchronisation, of any sets and under
\* any interleaving with the frame thread, stores a new value as an unchanged one
\* (ApplySyncState, GetQueriedActionState).
THEOREM ChangesAreReported == Spec => ChangeReported
<1> DEFINE A == \A a \in Actions : \A s \in Hands \cup {None} :
          Readable(a, s) /\ Readable(a, s)' /\ created'[a] = created[a]
            /\ Queried(a, s)'.value # Queried(a, s).value => Queried(a, s)'.changed
<1>1. ASSUME [Next]_vars PROVE [A]_data
  <2> SUFFICES ASSUME data' # data,
                      NEW a \in Actions, NEW s \in Hands \cup {None},
                      Readable(a, s), Readable(a, s)',
                      Queried(a, s)'.value # Queried(a, s).value
               PROVE  Queried(a, s)'.changed
    OBVIOUS
  <2>1. \A t \in Looked(a, s) : <<a, t>> \in Slots
    BY LookedIsKept
  <2>2. PICK t \in Looked(a, s) : data'[<<a, t>>].value # data[<<a, t>>].value
    BY SameValue
  <2>3. ~DestroyInstance
    BY DEF DestroyInstance, Readable
  <2>4. ASSUME NEW b \in Actions, DestroyAction(b) PROVE FALSE
    <3>1. b # a
      BY <2>4 DEF DestroyAction, Readable
    <3>2. data'[<<a, t>>] = IF <<a, t>>[1] = b THEN NoData ELSE data[<<a, t>>]
      BY <2>1, <2>2, <2>4 DEF DestroyAction
    <3> QED BY <2>2, <3>1, <3>2
  <2>5. ApplyActions
    BY <1>1, <2>3, <2>4, DataSteps
  <2>6. data'[<<a, t>>] = IF a \in live /\ IsActive(a)
                          THEN Applied(data[<<a, t>>], SumOf(sums, <<a, t>>)) ELSE data[<<a, t>>]
    BY <2>1, <2>2, <2>5 DEF ApplyActions
  <2>7. data'[<<a, t>>] = Applied(data[<<a, t>>], SumOf(sums, <<a, t>>))
    BY <2>2, <2>6
  <2>8. /\ data'[<<a, t>>].value = SumOf(sums, <<a, t>>).value
        /\ data'[<<a, t>>].changed = (SumOf(sums, <<a, t>>).value # data[<<a, t>>].value)
    BY <2>7 DEF Applied
  <2> QED BY <2>2, <2>8 DEF Queried, Looked
<1> QED BY <1>1, PTL DEF Spec, ChangeReported

=============================================================================
