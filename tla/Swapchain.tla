------------------------------ MODULE Swapchain ------------------------------
(***************************************************************************)
(* One OpenXR swapchain and its release-time snapshots                      *)
(* (runtime/src/SwapchainCommon.cpp, SwapchainVulkan.cpp, SwapchainMetal.mm,*)
(* SnapshotLeasePool.h).  The application acquires, waits for, draws into   *)
(* and releases images; a release copies the image into a pool slot while a *)
(* headset wants it.  xrEndFrame, which may run on another thread, hands    *)
(* the copy to the latest-frame queue; the encode worker waits for the copy *)
(* and encodes it.  Whoever can still read a slot holds a lease on it.      *)
(* xrDestroySwapchain drains the leases and the copies with a timeout.      *)
(*                                                                         *)
(* One eye is modelled: the two views of a frame read the same slot, or the *)
(* slots of two swapchains whose pools are independent.  What an image      *)
(* shows is the number of the drawing it holds.                             *)
(***************************************************************************)
EXTENDS Naturals, Sequences, FiniteSets

CONSTANTS
    N,           \* imageCount_
    SlotCount,   \* kVulkanSnapshotSlotCount, kMetalStagingImageCount
    Contexts,    \* the encoder's contexts: each encodes one frame
    None,        \* no slot
    Vulkan,      \* the Vulkan backend; otherwise Metal
    CallsFail,   \* whether the graphics calls of a snapshot may fail
    MaxDraws,    \* bound: drawings of the application
    MaxToggles   \* bound: headset arrivals and departures

ASSUME SwapchainAssumption ==
    /\ N \in Nat \ {0}
    /\ SlotCount \in Nat \ {0}
    /\ None \notin Nat
    /\ Vulkan \in BOOLEAN /\ CallsFail \in BOOLEAN
    /\ Vulkan \/ N > 1      \* a static Metal image is read in place, not copied
    /\ MaxDraws \in Nat /\ MaxToggles \in Nat

Images == 0 .. N - 1
Slots == 1 .. SlotCount

VARIABLES
    states, order, next, last,   \* imageStates_, acquiredImageOrder_, ...
    static,                      \* staticImageAcquired_
    content, drawn, released,    \* what images show; what was last released
    snap,                        \* the swapchain's last snapshot
    slot, fence, stopping,       \* the pool
    frame, pending, worker, peek, coding,   \* frames that read a slot
    demand, toggles,             \* streamingSnapshotDemand_
    apc, fpc, wpc, requested, gone

image == <<states, order, next, last, static>>
ink == <<content, drawn, released>>
pool == <<slot, fence, stopping>>
readers == <<frame, pending, worker, peek, coding>>
heads == <<demand, toggles>>
control == <<apc, fpc, wpc, requested, gone>>
vars == <<image, ink, snap, pool, readers, heads, control>>

\* A snapshot or frame: the slot it reads and the drawing it was taken to show.
NoFrame == [slot |-> None, shows |-> 0]

Init ==
    /\ states = [i \in Images |-> "Available"]
    /\ order = <<>> /\ next = 0 /\ last = None /\ static = FALSE
    /\ content = [i \in Images |-> 0] /\ drawn = 0 /\ released = 0
    /\ snap = NoFrame
    /\ slot = [s \in Slots |-> 0] /\ fence = [s \in Slots |-> "idle"]
    /\ stopping = FALSE
    /\ frame = NoFrame /\ pending = NoFrame /\ worker = NoFrame /\ peek = NoFrame
    /\ coding = [c \in Contexts |-> NoFrame]
    /\ demand = FALSE /\ toggles = 0
    /\ apc = "idle" /\ fpc = "idle" /\ wpc = "idle"
    /\ requested = FALSE /\ gone = FALSE

\* k % imageCount_ for the sums below 2 * imageCount_ the code takes it of.
Wrap(k) == IF k < N THEN k ELSE k - N

-----------------------------------------------------------------------------
(* The application's image calls.                                          *)

\* The first available image, looking from nextAcquireIndex_ on.
Candidate(i) ==
    /\ i \in Images /\ states[Wrap(next + i)] = "Available"
    /\ \A j \in 0 .. i - 1 : states[Wrap(next + j)] # "Available"

AcquireUnwrapped ==
    /\ apc = "idle" /\ ~gone
    /\ ~static /\ Len(order) < N
    /\ \E i \in Images :
        /\ Candidate(i)
        /\ LET a == Wrap(next + i) IN
             /\ states' = [states EXCEPT ![a] = "Acquired"]
             /\ order' = Append(order, a)
             /\ next' = a + 1
    /\ static' = (N = 1)
    /\ UNCHANGED <<last, ink, snap, pool, readers, heads, control>>

AcquireImage ==
    /\ apc = "idle" /\ ~gone
    /\ ~static /\ Len(order) < N
    /\ \E i \in Images :
        /\ Candidate(i)
        /\ LET a == Wrap(next + i) IN
             /\ states' = [states EXCEPT ![a] = "Acquired"]
             /\ order' = Append(order, a)
             /\ next' = Wrap(a + 1)
    /\ static' = (N = 1)
    /\ UNCHANGED <<last, ink, snap, pool, readers, heads, control>>

WaitImage ==
    /\ apc = "idle" /\ ~gone
    /\ order # <<>> /\ states[Head(order)] = "Acquired"
    /\ states' = [states EXCEPT ![Head(order)] = "Waited"]
    /\ UNCHANGED <<order, next, last, static, ink, snap, pool, readers, heads, control>>

\* The application may draw into an image it has waited for.
Draw ==
    /\ ~gone /\ drawn < MaxDraws
    /\ drawn' = drawn + 1
    /\ \E i \in Images : /\ states[i] = "Waited"
                         /\ content' = [content EXCEPT ![i] = drawn + 1]
    /\ UNCHANGED <<image, released, snap, pool, readers, heads, control>>

\* The first critical section of ReleaseImage.
ReleaseImage ==
    /\ apc = "idle" /\ ~gone
    /\ order # <<>> /\ states[Head(order)] = "Waited"
    /\ last' = Head(order)
    /\ states' = [states EXCEPT ![Head(order)] = "Available"]
    /\ order' = Tail(order)
    /\ released' = content[Head(order)]
    /\ apc' = "demand"
    /\ UNCHANGED <<next, static, content, drawn, snap, pool, readers, heads,
                   fpc, wpc, requested, gone>>

\* The demand is read between the two critical sections.
ReleaseDemand ==
    /\ apc = "demand"
    /\ requested' = (N = 1 \/ demand)
    /\ apc' = "snapshot"
    /\ UNCHANGED <<image, ink, snap, pool, readers, heads, fpc, wpc, gone>>

-----------------------------------------------------------------------------
(* The snapshot pool.                                                      *)

Frames == {snap, frame, pending, worker, peek} \cup {coding[c] : c \in Contexts}

\* A slot is leased while a snapshot or a frame refers to it.
Leased == {f.slot : f \in Frames}

\* Mutants: a slot that is free although its copy is not done, or leased.
FreeSlotsUnfenced(held) == Slots \ held
FreeSlotsUnleased(held) == {s \in Slots : ~Vulkan \/ fence[s] # "pending"}

\* TryAcquire: no lease and, on Vulkan, no copy in progress.
FreeSlots(held) == {s \in Slots \ held : ~Vulkan \/ fence[s] # "pending"}

\* The leases that survive once the swapchain has dropped its own snapshot.
LeasedBy(fs) == {f.slot : f \in fs}
OtherFrames == {frame, pending, worker, peek} \cup {coding[c] : c \in Contexts}

\* SnapshotVulkanReleasedImage, SnapshotMetalReleasedImage: the last snapshot
\* is dropped first; with no free slot, or if a graphics call fails, this
\* release has none.  The copy runs on the application's queue, so it shows
\* what the image holds when it is submitted.
SnapshotReleasedImage(want) ==
    LET free == FreeSlots(LeasedBy(OtherFrames)) IN
    \/ /\ ~want \/ stopping \/ free = {} \/ CallsFail
       /\ snap' = NoFrame /\ UNCHANGED <<slot, fence>>
    \/ /\ want /\ ~stopping
       /\ \E s \in free :
            /\ slot' = [slot EXCEPT ![s] = content[last]]
            /\ fence' = [fence EXCEPT ![s] = IF Vulkan THEN "pending" ELSE @]
            /\ snap' = [slot |-> s, shows |-> content[last]]

\* The second critical section of ReleaseImage.
ReleaseSnapshot ==
    /\ apc = "snapshot"
    /\ apc' = "idle"
    /\ requested' = FALSE
    /\ SnapshotReleasedImage(requested)
    /\ UNCHANGED <<image, ink, stopping, readers, heads, fpc, wpc, gone>>

\* The GPU finishes a copy.
CopyDone ==
    /\ \E s \in Slots : /\ fence[s] = "pending"
                        /\ fence' = [fence EXCEPT ![s] = "signaled"]
    /\ UNCHANGED <<image, ink, snap, slot, stopping, readers, heads, control>>

-----------------------------------------------------------------------------
(* xrEndFrame, on any thread but not while the swapchain is destroyed.     *)

\* ValidateSwapchainSubImage, then the layer: an overlay layer takes a missing
\* snapshot first, a projection layer does not.
EndFrameLayer(next_) ==
    /\ fpc = "idle" /\ ~gone
    /\ apc \notin {"d_stop", "d_leases", "d_fences"}
    /\ last # None /\ states[last] = "Available"
    /\ fpc' = next_
    /\ UNCHANGED <<image, ink, snap, pool, readers, heads, apc, wpc, requested, gone>>

\* Mutant: an overlay layer, too, only takes what the last release left.
SnapshotNever ==
    /\ fpc = "missing"
    /\ fpc' = "source"
    /\ UNCHANGED <<image, ink, snap, pool, readers, heads, apc, wpc, requested, gone>>

\* SnapshotLastReleasedImageIfMissing.
SnapshotIfMissing ==
    /\ fpc = "missing"
    /\ fpc' = "source"
    /\ IF N > 1 /\ demand /\ states[last] = "Available" /\ snap = NoFrame
         THEN SnapshotReleasedImage(TRUE)
         ELSE UNCHANGED <<snap, slot, fence>>
    /\ UNCHANGED <<image, ink, stopping, readers, heads, apc, wpc, requested, gone>>

\* GetLastReleasedFrameImageSource copies the snapshot with its lease; a frame
\* without one is not streamed.
FrameImageSource ==
    /\ fpc = "source"
    /\ IF demand /\ snap # NoFrame THEN fpc' = "push" /\ frame' = snap
                                   ELSE fpc' = "idle" /\ UNCHANGED frame
    /\ UNCHANGED <<image, ink, snap, pool, pending, worker, peek, coding, heads,
                   apc, wpc, requested, gone>>

\* SendFrame: PushLatest replaces the pending frame.
PushLatest ==
    /\ fpc = "push"
    /\ fpc' = "idle"
    /\ pending' = frame /\ frame' = NoFrame
    /\ UNCHANGED <<image, ink, snap, pool, worker, peek, coding, heads, apc, wpc,
                   requested, gone>>

-----------------------------------------------------------------------------
(* The encode worker: it waits for the copy within one budget, and drops a  *)
(* frame whose successor is complete by then.                              *)

WaitPop ==
    /\ wpc = "idle" /\ pending # NoFrame
    /\ wpc' = "check"
    /\ worker' = pending /\ pending' = NoFrame
    /\ UNCHANGED <<image, ink, snap, pool, frame, peek, coding, heads, apc, fpc,
                   requested, gone>>

\* waitForReady looks at the pool's stopping flag, then waits for the fence;
\* a Metal copy is not waited for on the host.
WaitForReady ==
    /\ wpc = "check"
    /\ IF Vulkan /\ stopping THEN wpc' = "idle" /\ worker' = NoFrame
                             ELSE wpc' = "wait" /\ UNCHANGED worker
    /\ UNCHANGED <<image, ink, snap, pool, frame, pending, peek, coding, heads,
                   apc, fpc, requested, gone>>

\* The copy is complete.  HasFinishedPendingFrame shares the pending frame.
WaitReady ==
    /\ wpc = "wait"
    /\ fence[worker.slot] # "pending"
    /\ wpc' = "peek" /\ peek' = pending
    /\ UNCHANGED <<image, ink, snap, pool, frame, pending, worker, coding, heads,
                   apc, fpc, requested, gone>>

\* The budget is spent: the frame is dropped.
WaitTimesOut ==
    /\ wpc = "wait"
    /\ fence[worker.slot] = "pending"
    /\ wpc' = "idle" /\ worker' = NoFrame
    /\ UNCHANGED <<image, ink, snap, pool, frame, pending, peek, coding, heads, apc,
                   fpc, requested, gone>>

Superseded ==
    peek # NoFrame /\ (Vulkan => ~stopping /\ fence[peek.slot] # "pending")

\* A stale frame is dropped; so is one that finds no free context.
PeekDone ==
    /\ wpc = "peek"
    /\ wpc' = "idle"
    /\ peek' = NoFrame /\ worker' = NoFrame
    /\ IF ~Superseded /\ \E c \in Contexts : coding[c] = NoFrame
         THEN \E c \in Contexts : /\ coding[c] = NoFrame
                                 /\ coding' = [coding EXCEPT ![c] = worker]
         ELSE UNCHANGED coding
    /\ UNCHANGED <<image, ink, snap, pool, frame, pending, heads, apc, fpc,
                   requested, gone>>

\* A context is finalized.
EncodeDone ==
    /\ \E c \in Contexts : /\ coding[c] # NoFrame
                           /\ coding' = [coding EXCEPT ![c] = NoFrame]
    /\ UNCHANGED <<image, ink, snap, pool, frame, pending, worker, peek, heads, control>>

\* CheckStreamingConnection; a headset that leaves clears the pending frame.
Demand ==
    /\ toggles < MaxToggles
    /\ toggles' = toggles + 1
    /\ demand' = ~demand
    /\ pending' = IF demand THEN NoFrame ELSE pending
    /\ UNCHANGED <<image, ink, snap, pool, frame, worker, peek, coding, control>>

-----------------------------------------------------------------------------
(* xrDestroySwapchain: PrepareForDestroy, which a failure makes retryable.  *)
(* The application makes no other call on the swapchain meanwhile.         *)

\* Mutant: the swapchain's own snapshot is kept until the drain is over.
DestroyKeepsSnapshot ==
    /\ apc = "idle" /\ fpc = "idle" /\ ~gone
    /\ IF Vulkan THEN apc' = "d_stop" /\ UNCHANGED gone
                 ELSE apc' = "idle" /\ gone' = TRUE
    /\ UNCHANGED <<image, ink, snap, pool, readers, heads, fpc, wpc, requested>>

DestroyBegin ==
    /\ apc = "idle" /\ fpc = "idle" /\ ~gone
    /\ snap' = NoFrame
    /\ IF Vulkan THEN apc' = "d_stop" /\ UNCHANGED gone
                 ELSE apc' = "idle" /\ gone' = TRUE
    /\ UNCHANGED <<image, ink, pool, readers, heads, fpc, wpc, requested>>

DestroyStop ==
    /\ apc = "d_stop"
    /\ apc' = "d_leases"
    /\ stopping' = TRUE
    /\ UNCHANGED <<image, ink, snap, slot, fence, readers, heads, fpc, wpc, requested, gone>>

LeasesReturned ==
    /\ apc = "d_leases" /\ Leased = {None}
    /\ apc' = "d_fences"
    /\ UNCHANGED <<image, ink, snap, pool, readers, heads, fpc, wpc, requested, gone>>

FencesSignaled ==
    /\ apc = "d_fences" /\ \A s \in Slots : fence[s] # "pending"
    /\ apc' = "idle" /\ gone' = TRUE
    /\ UNCHANGED <<image, ink, snap, pool, readers, heads, fpc, wpc, requested>>

\* A drain that runs out of time fails; the swapchain lives on, stopped.
DrainTimesOut ==
    /\ \/ apc = "d_leases" /\ Leased # {None}
       \/ apc = "d_fences" /\ \E s \in Slots : fence[s] = "pending"
    /\ apc' = "idle"
    /\ UNCHANGED <<image, ink, snap, pool, readers, heads, fpc, wpc, requested, gone>>

-----------------------------------------------------------------------------
App == AcquireImage \/ WaitImage \/ Draw \/ ReleaseImage \/ ReleaseDemand \/ ReleaseSnapshot
EndFrame == \/ EndFrameLayer("missing") \/ EndFrameLayer("source")
            \/ SnapshotIfMissing \/ FrameImageSource \/ PushLatest
Worker == WaitPop \/ WaitForReady \/ WaitReady \/ WaitTimesOut \/ PeekDone
Destroy == DestroyBegin \/ DestroyStop \/ LeasesReturned \/ FencesSignaled \/ DrainTimesOut

Next == App \/ EndFrame \/ Worker \/ CopyDone \/ EncodeDone \/ Demand \/ Destroy

\* The threads are scheduled, the GPU and the encoder finish; the application
\* renders frames with an overlay and retries a destruction that failed.
Fairness ==
    /\ WF_vars(ReleaseDemand) /\ WF_vars(ReleaseSnapshot)
    /\ SF_vars(EndFrameLayer("missing")) /\ WF_vars(SnapshotIfMissing)
    /\ WF_vars(FrameImageSource) /\ WF_vars(PushLatest)
    /\ WF_vars(Worker) /\ WF_vars(CopyDone) /\ WF_vars(EncodeDone)
    /\ WF_vars(DestroyStop) /\ WF_vars(LeasesReturned) /\ WF_vars(FencesSignaled)
    /\ WF_vars(DrainTimesOut) /\ SF_vars(DestroyBegin /\ stopping)

Spec == Init /\ [][Next]_vars
FairSpec == Spec /\ Fairness

-----------------------------------------------------------------------------
(* Properties.                                                             *)

Frame == {NoFrame} \cup [slot : Slots, shows : 0 .. MaxDraws]
ImageType ==
    /\ states \in [Images -> {"Available", "Acquired", "Waited"}]
    /\ order \in Seq(Images) /\ next \in Images /\ last \in Images \cup {None}
    /\ static \in BOOLEAN
InkType ==
    /\ content \in [Images -> 0 .. MaxDraws]
    /\ drawn \in 0 .. MaxDraws /\ released \in 0 .. MaxDraws
PoolType ==
    /\ slot \in [Slots -> 0 .. MaxDraws]
    /\ fence \in [Slots -> {"idle", "pending", "signaled"}]
    /\ stopping \in BOOLEAN
ReaderType ==
    /\ snap \in Frame /\ frame \in Frame /\ pending \in Frame
    /\ worker \in Frame /\ peek \in Frame
    /\ coding \in [Contexts -> Frame]
HeadType == demand \in BOOLEAN /\ toggles \in 0 .. MaxToggles
ControlType ==
    /\ apc \in {"idle", "demand", "snapshot", "d_stop", "d_leases", "d_fences"}
    /\ fpc \in {"idle", "missing", "source", "push"}
    /\ wpc \in {"idle", "check", "wait", "peek"}
    /\ requested \in BOOLEAN /\ gone \in BOOLEAN
TypeOK ==
    ImageType /\ InkType /\ PoolType /\ ReaderType /\ HeadType /\ ControlType

\* Images are acquired in turn: the acquired ones follow each other, the next
\* one follows them and the one released last precedes them.
Turn(b) ==
    /\ Len(order) <= N
    /\ order = [k \in 1 .. Len(order) |-> Wrap(b + k - 1)]
    /\ next = Wrap(b + Len(order))
    /\ last # None => last = Wrap(b + N - 1)
    /\ \A i \in Images :
        /\ states[i] # "Available" => \E k \in 1 .. Len(order) : i = Wrap(b + k - 1)
        /\ states[i] = "Waited" => order # <<>> /\ i = b
InTurn ==
    /\ \E b \in Images : Turn(b)
    /\ N = 1 => /\ last # None => order = <<>>
                /\ last # None \/ order # <<>> => static

\* The window ReleaseImage leaves between its critical sections is harmless:
\* the image released last is never drawn into again before another one is
\* released (SwapchainCommon.cpp:219), because images are acquired in turn and
\* waited for in the order they were acquired.
LastReleasedNotDrawn == last # None => states[last] # "Waited"

\* Outside that window a snapshot shows what the application released last,
\* through disconnections, a full pool and snapshots taken by xrEndFrame.
SnapshotIsLatest ==
    apc \notin {"demand", "snapshot"} /\ snap # NoFrame => snap.shows = released

\* What a frame was taken to show stays in its slot until the last reader is done.
FrameKeepsImage == \A f \in Frames : f # NoFrame => slot[f.slot] = f.shows

\* A copy is never submitted to a slot whose previous copy still runs (the
\* fence and the command buffer are reset first).
CopyNotReused ==
    [][\A s \in Slots : slot'[s] # slot[s] => fence[s] # "pending"]_vars

\* Destruction succeeds only once nobody can use the pool's Vulkan objects: no
\* lease, no copy in progress, no encode worker in a fence wait.
DestroyedUnused ==
    gone /\ Vulkan => /\ Leased = {None}
                      /\ \A s \in Slots : fence[s] # "pending"
                      /\ wpc = "idle"

\* What the runs check of the invariants together: snapshots show the last release, what
\* anyone reads is not written, and what is destroyed is read by nobody.
SwapchainSafe ==
    TypeOK /\ LastReleasedNotDrawn /\ SnapshotIsLatest /\ FrameKeepsImage /\ DestroyedUnused

\* A static image, released once and for all, stays available to a headset that
\* connects later (SwapchainCommon.cpp:224), unless destruction has begun.
StaticImageKept ==
    N = 1 /\ last # None /\ apc = "idle" /\ ~stopping /\ ~gone => snap # NoFrame

\* An overlay drawn once, whenever it was released, reaches the encoder of a
\* headset that stays connected (Swapchain.h:122): its copy is ready in the
\* worker's hands, where only a newer frame can supersede it.
LatestImageShown ==
    <>[](/\ demand /\ last # None /\ states[last] = "Available"
         /\ apc = "idle" /\ ~stopping /\ ~gone)
        => <>(wpc = "peek" /\ worker.shows = released)

\* A destruction that the application, between its other calls, goes on
\* retrying succeeds: the frames leave the encoder and the copies end.
DestroySucceeds ==
    []<>((apc = "idle" /\ fpc = "idle") \/ gone) => (apc = "d_stop" ~> gone)
=============================================================================
