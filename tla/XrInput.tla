------------------------------- MODULE XrInput -------------------------------
(***************************************************************************)
(* The OpenXR calls an application makes about its input (EntryPoint.cpp,  *)
(* ActionSet.cpp, Instance.cpp): the instance and its event queue, action  *)
(* sets and actions, suggested bindings, the session they are attached to, *)
(* xrSyncActions, and the current interaction profile.  The application's  *)
(* frame thread moves the tracking packets into the input manager          *)
(* (ControllerInput) and wires it to the client, under no lock, so that    *)
(* the steps of an xrSyncActions on another thread interleave with it:     *)
(* each side is read in one step.  The session's own states are those of   *)
(* XrSession; here one that exists runs its frame loop or not.             *)
(***************************************************************************)
EXTENDS ControllerInput, SequencesExt

CONSTANTS
    Sets, Actions,           \* the names the application gives
    SetOf, TypeOf, PathsOf,  \* of an action: its set, its type, its subaction paths
    Lasting,                 \* the sets and actions it keeps as long as it has a session
    Groups,                  \* the groups of sets the application synchronises
    Suggestions, Required,   \* what it may suggest: profile and bindings; what it does
    Extensions, Api11,       \* of its instance: extensions enabled, API version 1.1
    Packets, Clients,        \* tracking packets; clients, by the profile of their name
    Devices, States,         \* what the conformance automation may set
    Windows,                 \* "ask": the profile is asked for at any time
    MaxSessions, MaxCreated, \* bounds: sessions, creations of one action
    MaxEvents                \* bound: events queued and not yet polled

ASSUME ActionAssumption == SetOf \in [Actions -> Sets] /\ PathsOf \in [Actions -> SUBSET Hands]
ASSUME PacketAssumption == \A pk \in Packets : pk.bounds \in BOOLEAN
ASSUME BoundAssumption == {MaxSessions, MaxCreated, MaxEvents} \subseteq Nat \ {0}
ASSUME WindowAssumption == Windows \subseteq {"ask"}

VARIABLES
    instance,     \* what the application has done of: create, system, graphics
    sets, live,   \* gActionSets; gActions
    created,      \* how often each action was created: with it, its handle
    suggested,    \* gSuggestedBindings
    events,       \* eventQueue_
    session,      \* gSession: 0 for none, else its handle
    sessions,     \* how many sessions there have been
    running,      \* its frame loop runs
    attached,     \* gActionSetsAttached
    attachedSets, \* gAttachedActionSetHandles
    reported,     \* gReportedInteractionProfiles
    data,         \* each action's subactionData_
    client,       \* the server's connected client
    input,        \* the input manager
    bounds,       \* stageBoundsAvailable_
    step,         \* where xrSyncActions is
    active,       \* the action sets it was given
    sums, read,   \* aggregatedStates, and the input each side was read from
    learnt,       \* the profiles the application last got
    asking        \* it has polled a change and will ask

setup   == <<instance, sets, live, created, suggested>>
attach  == <<session, sessions, running, attached, attachedSets>>
syncing == <<step, active, sums, read>>
app     == <<learnt, asking>>
device  == <<client, input, bounds>>
vars    == <<setup, attach, syncing, app, device, events, reported, data>>

None == "none"   \* XR_NULL_PATH as a subaction path
NoProfiles == [h \in Hands |-> NoProfile]

\* GetResolvedSubactionPaths, and the states an action keeps.
Resolved(a) == IF PathsOf[a] = {} THEN {None} ELSE PathsOf[a]
Slots == {x \in Actions \X (Hands \cup {None}) : x[2] \in Resolved(x[1])}
NoData == [value |-> 0, changed |-> FALSE, sources |-> <<>>]
NoSum == [value |-> 0, sources |-> <<>>, priority |-> -1]

Init ==
    /\ instance = {} /\ sets = {} /\ live = {} /\ created = [a \in Actions |-> 0]
    /\ suggested = <<>> /\ events = <<>>
    /\ session = 0 /\ sessions = 0 /\ running = FALSE /\ attached = FALSE /\ attachedSets = {}
    /\ reported = NoProfiles /\ data = [x \in Slots |-> NoData]
    /\ client = None /\ input = NoInput /\ bounds = FALSE
    /\ step = "idle" /\ active = {} /\ sums = <<>> /\ read = <<>>
    /\ learnt = NoProfiles /\ asking = FALSE

Push(kind) == events' = Append(events, [kind |-> kind, session |-> session'])
Room == Len(events) < MaxEvents
\* The application's own thread is between two calls.
Idle == step = "idle"

-------------------------------------------------------------------------------
(* The instance.                                                           *)

CreateInstance ==
    /\ Idle /\ instance = {} /\ instance' = {"created"}
    /\ UNCHANGED <<sets, live, created, suggested, attach, syncing, app, device, events, reported, data>>

\* xrGetSystem, xrGetMetalGraphicsRequirementsKHR and the Vulkan ones.
Ask(what) ==
    /\ Idle /\ "created" \in instance /\ instance' = instance \cup {what}
    /\ UNCHANGED <<sets, live, created, suggested, attach, syncing, app, device, events, reported, data>>
GetSystem == "system" \notin instance /\ Ask("system")
GetGraphicsRequirements == "graphics" \notin instance /\ Ask("graphics")

\* CleanupRuntimeState, once the session has shut down.
DestroyInstance ==
    /\ Idle /\ instance # {}
    /\ instance' = {} /\ sets' = {} /\ live' = {} /\ created' = [a \in Actions |-> 0]
    /\ suggested' = <<>> /\ events' = <<>> /\ reported' = NoProfiles
    /\ session' = 0 /\ running' = FALSE /\ attached' = FALSE /\ attachedSets' = {}
    /\ data' = [x \in Slots |-> NoData]
    /\ client' = None /\ input' = NoInput /\ bounds' = FALSE
    /\ learnt' = NoProfiles /\ asking' = FALSE
    /\ UNCHANGED <<sessions, syncing>>

\* xrPollEvent: an application that learns of a change of profile will ask for it.
PollEvent ==
    /\ events # <<>> /\ events' = Tail(events)
    /\ asking' = (asking \/ (Head(events).kind = "profile" /\ Head(events).session = session))
    /\ UNCHANGED <<setup, attach, syncing, learnt, device, reported, data>>

-------------------------------------------------------------------------------
(* Action sets, actions and suggested bindings.                            *)

CreateActionSet(s) ==
    /\ Idle /\ instance # {} /\ s \notin sets /\ sets' = sets \cup {s}
    /\ UNCHANGED <<instance, live, created, suggested, attach, syncing, app, device, events, reported, data>>

\* The application destroys a set's actions before the set.
DestroyActionSet(s) ==
    /\ Idle /\ s \in sets /\ (session # 0 => s \notin Lasting) /\ \A a \in live : SetOf[a] # s
    /\ sets' = sets \ {s} /\ attachedSets' = attachedSets \ {s}
    /\ UNCHANGED <<instance, live, created, suggested, session, sessions, running, attached,
                   syncing, app, device, events, reported, data>>

IsAttached(s) == attached /\ s \in attachedSets

CreateAction(a) ==
    /\ Idle /\ SetOf[a] \in sets /\ ~IsAttached(SetOf[a]) /\ a \notin live
    /\ created[a] < MaxCreated
    /\ live' = live \cup {a} /\ created' = [created EXCEPT ![a] = @ + 1]
    /\ UNCHANGED <<instance, sets, suggested, attach, syncing, app, device, events, reported, data>>

DestroyAction(a) ==
    /\ Idle /\ a \in live /\ (session # 0 => a \notin Lasting) /\ live' = live \ {a}
    /\ data' = [x \in Slots |-> IF x[1] = a THEN NoData ELSE data[x]]
    /\ UNCHANGED <<instance, sets, created, suggested, attach, syncing, app, device, events, reported>>

\* IsKnownInteractionProfilePath.
IsKnown(p) ==
    \/ p \in {"simple", "touch"}
    \/ p \in {"hand", "frame"} /\ p \in Extensions
    \/ p \in MetaProfiles \cup {"pico4"} /\ Api11

\* IsValidBindingPathForProfile.
IsValidBinding(p, b) ==
    /\ b.component \in HandComponents \ {"grip_surface/pose"} => "hand" \in Extensions
    /\ b.component = "grip_surface/pose" => Api11
    /\ p = "hand" => b.component \in HandComponents \cup {"aim/pose", "grip/pose", "haptic"}

\* xrSuggestInteractionProfileBindings replaces the profile's whole list, or nothing.
SuggestBindings(g) ==
    /\ Idle /\ instance # {} /\ ~attached /\ IsKnown(g.profile)
    /\ \A n \in DOMAIN g.bindings :
          g.bindings[n].action \in live /\ IsValidBinding(g.profile, g.bindings[n])
    /\ LET stored == [n \in DOMAIN g.bindings |->
                          [binding |-> g.bindings[n], handle |-> created[g.bindings[n].action]]]
       IN suggested' = (g.profile :> stored) @@ suggested
    /\ UNCHANGED <<instance, sets, live, created, attach, syncing, app, device, events, reported, data>>

-------------------------------------------------------------------------------
(* The session.                                                            *)

\* The application has made its sets, its actions and the suggestions it always makes.
CreateSession ==
    /\ Idle /\ {"system", "graphics"} \subseteq instance /\ session = 0
    /\ sets = Sets /\ live = Actions /\ Required \subseteq DOMAIN suggested
    /\ sessions < MaxSessions /\ Room
    /\ session' = sessions + 1 /\ sessions' = sessions + 1
    /\ learnt' = NoProfiles /\ asking' = FALSE
    /\ Push("state")
    /\ UNCHANGED <<setup, running, attached, attachedSets, syncing, device, reported, data>>

BeginSession ==
    /\ Idle /\ session # 0 /\ ~running /\ running' = TRUE
    /\ UNCHANGED <<setup, session, sessions, attached, attachedSets, syncing, app, device, events, reported, data>>

\* The input is left alone while the application is being told of a profile.
Told == ~asking /\ \A n \in DOMAIN events : events[n].kind # "profile"
\* Bound: at most once in a synchronisation, of microseconds.
Still == \A h \in DOMAIN read : read[h] = input
Moves == session # 0 /\ Still /\ ("ask" \in Windows \/ Told)

\* Session::Shutdown fails while a drain of the server is incomplete; the session stays.
DestroyFails ==
    /\ Idle /\ Moves /\ running /\ client # None
    /\ running' = FALSE /\ input' = WithoutReceiver(input)
    /\ UNCHANGED <<setup, session, sessions, attached, attachedSets, syncing, app, client, bounds, events, reported, data>>

\* Mutant: only the events of the session's spaces are removed.
RemovedWithSpaces(e) == e.kind = "space" /\ e.session = session
\* xrDestroySession, with RemoveEventsForSession: the other events stay, in their order.
RemovedWith(e) == e.kind \in {"state", "space"} /\ e.session = session
Nth(K, r) == CHOOSE n \in K : Cardinality({m \in K : m <= n}) = r
RemoveEventsForSession ==
    LET kept == {n \in DOMAIN events : ~RemovedWith(events[n])}
    IN events' = [r \in 1..Cardinality(kept) |-> events[Nth(kept, r)]]
DestroySession ==
    /\ Idle /\ session # 0
    /\ session' = 0 /\ running' = FALSE /\ attached' = FALSE /\ attachedSets' = {}
    /\ reported' = NoProfiles
    /\ RemoveEventsForSession
    /\ client' = None /\ input' = NoInput /\ bounds' = FALSE /\ asking' = FALSE
    /\ UNCHANGED <<setup, sessions, syncing, learnt, data>>

AttachActionSets ==
    /\ Idle /\ session # 0 /\ ~attached /\ sets # {}
    /\ attached' = TRUE /\ attachedSets' = sets
    /\ UNCHANGED <<setup, session, sessions, running, syncing, app, device, events, reported, data>>

-------------------------------------------------------------------------------
(* The interaction profile.                                                *)

\* SelectCurrentInteractionProfileForInstance: the first active profile the application
\* has suggested bindings for.
FirstSuggested(of, i, h) ==
    LET profiles == ActiveProfiles(i, h)
        usable == {n \in DOMAIN profiles : IsKnown(profiles[n]) /\ profiles[n] \in of}
    IN IF usable = {} THEN NoProfile ELSE profiles[Nth(usable, 1)]
Selected(i, h) == FirstSuggested(DOMAIN suggested, i, h)
Current == [h \in Hands |-> Selected(input, h)]

\* xrGetCurrentInteractionProfile, for both sides.
GetCurrentInteractionProfile ==
    /\ Idle /\ session # 0 /\ attached /\ (asking \/ "ask" \in Windows)
    /\ learnt' = Current /\ asking' = FALSE
    /\ UNCHANGED <<setup, attach, syncing, device, events, reported, data>>

-------------------------------------------------------------------------------
(* xrSyncActions.                                                          *)

\* IsActionSetActive: the sets the call names, or else all that are attached.
IsActive(a) == SetOf[a] \in (IF active = {} THEN attachedSets ELSE active)

Component(i, b, p) ==
    CASE TypeOf[b.action] = "bool" -> IF BooleanComponent(i, b.hand, b.component, p) THEN 2 ELSE 0
      [] TypeOf[b.action] = "float" -> FloatComponent(i, b.hand, b.component, p)
      [] TypeOf[b.action] = "vector" -> VectorComponent(i, b.hand, b.component, p)
      [] OTHER -> 0

Size(v) == IF v < 0 THEN -v ELSE v
\* Mutant: a hand counts as much as a controller.
PriorityEqual(p) == 1
\* BindingSourcePriority.
Priority(p) == IF p = "hand" THEN 1 ELSE 2
\* The device behind a binding is active.
Tracked(i, b, p) ==
    IF ~i.streaming THEN DeviceActive(i, b.hand)
    ELSE IF p = "hand" THEN HandActive(i, b.hand) ELSE ControllerActive(i, b.hand)

\* AccumulateBindingState.
Accumulate(i, sum, b, p) ==
    LET base == IF sum.priority < Priority(p) THEN [NoSum EXCEPT !.priority = Priority(p)] ELSE sum
        value == Component(i, b, p)
    IN IF ~Tracked(i, b, p) \/ sum.priority > Priority(p) THEN sum
       ELSE [base EXCEPT !.value = IF Size(value) > Size(@) THEN value ELSE @,
                         !.sources = Append(@, [profile |-> p, binding |-> b])]

\* The profiles one side is read through: only the Frame's own if its bindings are used.
ReadThrough(i, h) ==
    LET framed == Selected(i, h) = "frame"
    IN SelectSeq(ActiveProfiles(i, h),
                 LAMBDA p : p \in DOMAIN suggested /\ (framed => p = "frame"))

SlotOf(b) == <<b.action, IF PathsOf[b.action] = {} THEN None ELSE b.hand>>
Counts(x, h) ==
    /\ x.binding.hand = h /\ x.binding.action \in live /\ x.handle = created[x.binding.action]
    /\ IsActive(x.binding.action)
SumOf(m, slot) == IF slot \in DOMAIN m THEN m[slot] ELSE NoSum
\* The sums after the bindings of one side, through one profile and through all of them.
WithProfile(i, h, m, p) ==
    FoldLeft(LAMBDA acc, x :
                 IF Counts(x, h)
                 THEN (SlotOf(x.binding) :> Accumulate(i, SumOf(acc, SlotOf(x.binding)), x.binding, p)) @@ acc
                 ELSE acc,
             m, suggested[p])
WithSide(i, h, m) == FoldLeft(LAMBDA acc, p : WithProfile(i, h, acc, p), m, ReadThrough(i, h))

SyncActions(S) ==
    /\ Idle /\ session # 0 /\ attached
    /\ step' = "left" /\ active' = S /\ sums' = <<>> /\ read' = <<>>
    /\ UNCHANGED <<setup, attach, app, device, events, reported, data>>

ReadSide(h, next) ==
    /\ step = h /\ step' = next
    /\ sums' = WithSide(input, h, sums) /\ read' = (h :> input) @@ read
    /\ UNCHANGED <<setup, attach, active, app, device, events, reported, data>>
ReadLeft == ReadSide("left", "right")
ReadRight == ReadSide("right", "apply")

\* Mutant: only a value that rises has changed.
AppliedRising(old, sum) ==
    [value |-> sum.value, changed |-> Size(sum.value) > Size(old.value), sources |-> sum.sources]
\* ActionState::ApplySyncState, of an action state and the sum for it, if there is one.
Applied(old, sum) ==
    [value |-> sum.value, changed |-> sum.value # old.value, sources |-> sum.sources]
ApplyActions ==
    /\ step = "apply" /\ step' = "report" /\ active' = {} /\ sums' = <<>> /\ read' = <<>>
    /\ data' = [x \in Slots |-> IF x[1] \in live /\ IsActive(x[1])
                                THEN Applied(data[x], SumOf(sums, x)) ELSE data[x]]
    /\ UNCHANGED <<setup, attach, app, device, events, reported>>

\* Mutants: the application is told of a profile that appears and not of one that goes; it
\* is told of the first change only.
ReportProfileFound ==
    /\ step = "report" /\ step' = "idle" /\ reported' = Current
    /\ IF Current = reported \/ Current = NoProfiles THEN UNCHANGED events
       ELSE Room /\ events' = Append(events, [kind |-> "profile", session |-> session])
    /\ UNCHANGED <<setup, attach, active, sums, read, app, device, data>>
ReportProfileOnce ==
    /\ step = "report" /\ step' = "idle" /\ reported' = Current
    /\ IF Current = reported \/ reported # NoProfiles THEN UNCHANGED events
       ELSE Room /\ events' = Append(events, [kind |-> "profile", session |-> session])
    /\ UNCHANGED <<setup, attach, active, sums, read, app, device, data>>

\* The change of interaction profile is found last.
ReportProfile ==
    /\ step = "report" /\ step' = "idle"
    /\ reported' = Current
    /\ IF Current = reported THEN UNCHANGED events
       ELSE Room /\ events' = Append(events, [kind |-> "profile", session |-> session])
    /\ UNCHANGED <<setup, attach, active, sums, read, app, device, data>>

\* ValidateActionStateQuery: xrGetActionState* and xrEnumerateBoundSourcesForAction succeed.
Readable(a, s) ==
    session # 0 /\ a \in live /\ IsAttached(SetOf[a]) /\ s \in {None} \cup Resolved(a)
Largest(V) == CHOOSE v \in V : \A w \in V : Size(v) >= Size(w)
\* GetQueriedActionState: of one subaction path, or of all of them together.
Queried(a, s) ==
    LET of == IF s = None THEN Resolved(a) ELSE {s}
    IN [value |-> Largest({data[<<a, t>>].value : t \in of}),
        changed |-> \E t \in of : data[<<a, t>>].changed,
        sources |-> UNION {ToSet(data[<<a, t>>].sources) : t \in of}]

-------------------------------------------------------------------------------
(* The frame thread, the client and the conformance automation.            *)

\* xrWaitFrame: InputManager::Update, then GetStageBounds.
WaitFrame(pk) ==
    /\ Moves /\ running /\ input.streaming /\ client # None
    /\ input' = WithPacket(input, pk) /\ bounds' = pk.bounds
    /\ IF pk.bounds = bounds THEN UNCHANGED events
       ELSE Room /\ events' = Append(events, [kind |-> "space", session |-> session])
    /\ UNCHANGED <<setup, attach, syncing, app, client, reported, data>>

\* One without a connection finds no bounds.
WaitFrameUntracked ==
    /\ Moves /\ running /\ (client = None \/ ~input.streaming)
    /\ bounds /\ bounds' = FALSE
    /\ Room /\ events' = Append(events, [kind |-> "space", session |-> session])
    /\ UNCHANGED <<setup, attach, syncing, app, client, input, reported, data>>

\* xrEndFrame: CheckStreamingConnection.
WireClient ==
    /\ Moves /\ running /\ client # None /\ ~input.streaming
    /\ input' = WithClient(WithReceiver(input), client)
    /\ UNCHANGED <<setup, attach, syncing, app, client, bounds, events, reported, data>>
UnwireClient ==
    /\ Moves /\ running /\ client = None /\ input.streaming
    /\ input' = WithoutReceiver(input)
    /\ UNCHANGED <<setup, attach, syncing, app, client, bounds, events, reported, data>>

Automation == input.states # {} \/ \E h \in Hands : input.auto[h].explicit
ClientConnects(c) ==
    /\ running /\ client = None /\ ~Automation /\ client' = c
    /\ UNCHANGED <<setup, attach, syncing, app, input, bounds, events, reported, data>>
ClientLeaves ==
    /\ running /\ client # None /\ client' = None
    /\ UNCHANGED <<setup, attach, syncing, app, input, bounds, events, reported, data>>

\* The conformance tests, which drive the input themselves, run without a client.
Automated == Idle /\ Moves /\ client = None /\ ~input.streaming
SetInputDeviceActive(d) ==
    /\ Automated /\ input' = WithDevice(input, d.hand, d.profile, d.active)
    /\ UNCHANGED <<setup, attach, syncing, app, client, bounds, events, reported, data>>
SetInputDeviceState(s) ==
    /\ Automated /\ input' = WithState(input, s)
    /\ UNCHANGED <<setup, attach, syncing, app, client, bounds, events, reported, data>>

-------------------------------------------------------------------------------
Next ==
    \/ CreateInstance \/ GetSystem \/ GetGraphicsRequirements \/ DestroyInstance \/ PollEvent
    \/ \E s \in Sets : CreateActionSet(s) \/ DestroyActionSet(s)
    \/ \E a \in Actions : CreateAction(a) \/ DestroyAction(a)
    \/ \E g \in Suggestions : SuggestBindings(g)
    \/ CreateSession \/ BeginSession \/ DestroyFails \/ DestroySession
    \/ AttachActionSets \/ \E S \in Groups : SyncActions(S)
    \/ GetCurrentInteractionProfile \/ ReadLeft \/ ReadRight \/ ApplyActions \/ ReportProfile
    \/ (\E pk \in Packets : WaitFrame(pk)) \/ WaitFrameUntracked
    \/ WireClient \/ UnwireClient \/ ClientLeaves \/ \E c \in Clients : ClientConnects(c)
    \/ \E d \in Devices : SetInputDeviceActive(d)
    \/ \E s \in States : SetInputDeviceState(s)

Spec == Init /\ [][Next]_vars
\* The application polls, synchronises all its sets, and asks once it has been told,
\* however often it synchronises first; each call returns.
Fairness ==
    /\ WF_vars(PollEvent) /\ SF_vars(GetCurrentInteractionProfile) /\ WF_vars(SyncActions({}))
    /\ WF_vars(ReadLeft) /\ WF_vars(ReadRight) /\ WF_vars(ApplyActions) /\ WF_vars(ReportProfile)
FairSpec == Spec /\ Fairness

-------------------------------------------------------------------------------
(* Properties.                                                             *)

TypeOK ==
    /\ instance \subseteq {"created", "system", "graphics"} /\ sets \subseteq Sets
    /\ live \subseteq Actions /\ created \in [Actions -> 0..MaxCreated]
    /\ Len(events) <= MaxEvents /\ session \in 0..sessions /\ sessions \in 0..MaxSessions
    /\ {running, attached, bounds, asking} \subseteq BOOLEAN /\ attachedSets \subseteq sets
    /\ client \in Clients \cup {None} /\ step \in {"idle", "left", "right", "apply", "report"}
    /\ DOMAIN data = Slots

\* With no session nothing of one is left: no attachment, no reported profile, no event of
\* its states or its spaces, no input; with no instance, nothing at all
\* (OxrDestroySession, RemoveEventsForSession, CleanupRuntimeState).
NothingCarriesOver ==
    /\ session = 0 =>
          /\ ~running /\ ~attached /\ attachedSets = {} /\ reported = NoProfiles /\ input = NoInput
          /\ \A n \in DOMAIN events : events[n].kind = "profile"
    /\ \A n \in DOMAIN events : events[n].kind # "profile" => events[n].session = session
    /\ instance = {} => sets = {} /\ live = {} /\ suggested = <<>> /\ events = <<>> /\ session = 0

\* What the runs check of the two together.
InputSafe == TypeOK /\ NothingCarriesOver

\* What one side of a slot may be fed by: a binding of an action that still exists, under
\* the handle it was suggested for, in a profile that is active and has a live device behind
\* it; of a Frame whose own bindings are in use, only those.
Feeds(slot) ==
    {f \in UNION {{<<p, suggested[p][n].binding>> : n \in {m \in DOMAIN suggested[p] :
                        suggested[p][m].handle = created[suggested[p][m].binding.action]}}
                  : p \in DOMAIN suggested} :
        LET p == f[1]
            b == f[2]
            i == read[b.hand]
        IN /\ b.action = slot[1] /\ slot[2] \in {None, b.hand}
           /\ \E n \in DOMAIN ActiveProfiles(i, b.hand) : ActiveProfiles(i, b.hand)[n] = p
           /\ Selected(i, b.hand) = "frame" => p = "frame"
           /\ IF p = "hand" /\ i.streaming THEN HandActive(i, b.hand)
              ELSE IF i.streaming THEN ControllerActive(i, b.hand) ELSE DeviceActive(i, b.hand)}

\* What xrSyncActions is about to store for an action is what its bindings read, whatever
\* their order: those of a controller if it has any, those of a hand otherwise; the largest
\* of their values, with its sign; all of them its sources; and it is active on a side only
\* if the application can be told a profile there (OxrSyncActions, AccumulateBindingState,
\* SelectCurrentInteractionProfileForInstance).
SyncedValue ==
    /\ DOMAIN sums \subseteq Slots
    /\ step = "apply" =>
        \A slot \in {x \in Slots : x[1] \in live /\ IsActive(x[1])} :
            LET best == IF \E f \in Feeds(slot) : f[1] # "hand"
                        THEN {f \in Feeds(slot) : f[1] # "hand"} ELSE Feeds(slot)
                values == {Component(read[f[2].hand], f[2], f[1]) : f \in best} \cup {0}
                sum == SumOf(sums, slot)
            IN /\ sum.value \in values /\ \A v \in values : Size(v) <= Size(sum.value)
               /\ {<<x.profile, x.binding>> : x \in ToSet(sum.sources)} = best
               /\ \A f \in best : Selected(read[f[2].hand], f[2].hand) # NoProfile

\* The application that has polled every event and asked knows the profiles the runtime
\* last reported: what it was told is not out of date (OxrSyncActions,
\* OxrGetCurrentInteractionProfile; EntryPoint.cpp 2461).
NoticeQueued == session # 0 /\ Told => learnt = reported

\* A value that reads differently than before a step is marked as changed, for one
\* subaction path and for all of them (ApplySyncState, GetQueriedActionState).
ChangeReported ==
    [][\A a \in Actions : \A s \in Hands \cup {None} :
          Readable(a, s) /\ Readable(a, s)' /\ created'[a] = created[a]
            /\ Queried(a, s)'.value # Queried(a, s).value => Queried(a, s)'.changed]_data

\* Once session, bindings, client and input stay as they are, an application that keeps
\* synchronising and polling knows the profiles that are active (OxrSyncActions,
\* Instance::PushEvent, Instance::PollEvent).
Settled == attached /\ session # 0
LearnsProfile == <>[][FALSE]_<<setup, attach, device>> /\ <>[]Settled => <>[](learnt = Current)
=============================================================================
