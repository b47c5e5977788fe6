---------------------------- MODULE SwapchainProofs ----------------------------
(***************************************************************************)
(* Proofs about Swapchain, for any number of images, slots, encoder         *)
(* contexts and drawings, on either backend.                                *)
(***************************************************************************)
EXTENDS Swapchain, SequenceTheorems, TLAPS

\* Every action of Next, by name, so that each proof splits the same way.
LEMMA Actions ==
    ASSUME Next
    PROVE  \/ AcquireImage \/ WaitImage \/ Draw \/ ReleaseImage
           \/ ReleaseDemand \/ ReleaseSnapshot
           \/ EndFrameLayer("missing") \/ EndFrameLayer("source")
           \/ SnapshotIfMissing \/ FrameImageSource \/ PushLatest
           \/ WaitPop \/ WaitForReady \/ WaitReady \/ WaitTimesOut \/ PeekDone
           \/ CopyDone \/ EncodeDone \/ Demand
           \/ DestroyBegin \/ DestroyStop \/ LeasesReturned \/ FencesSignaled
           \/ DrainTimesOut
  BY DEF Next, App, EndFrame, Worker, Destroy

-----------------------------------------------------------------------------
(* Types.                                                                  *)

LEMMA InitType == Init => TypeOK
  <1> SUFFICES ASSUME Init PROVE TypeOK
    OBVIOUS
  <1> USE SwapchainAssumption DEF Init
  <1>1. ImageType
    <2>1. 0 \in Images
      BY DEF Images
    <2>2. states \in [Images -> {"Available", "Acquired", "Waited"}]
      OBVIOUS
    <2> QED BY <2>1, <2>2 DEF ImageType
  <1>2. InkType
    BY DEF InkType
  <1>3. PoolType
    <2>1. slot \in [Slots -> 0 .. MaxDraws]
      OBVIOUS
    <2>2. fence \in [Slots -> {"idle", "pending", "signaled"}]
      OBVIOUS
    <2> QED BY <2>1, <2>2 DEF PoolType
  <1>4. ReaderType
    BY DEF ReaderType, Frame
  <1>5. HeadType
    <2>1. toggles \in 0 .. MaxToggles
      OBVIOUS
    <2> QED BY <2>1, Zenon DEF HeadType
  <1>6. ControlType
    BY DEF ControlType
  <1> QED BY <1>1, <1>2, <1>3, <1>4, <1>5, <1>6 DEF TypeOK

\* Only three actions touch the image states.
LEMMA ImageSteps ==
    ASSUME [Next]_vars
    PROVE  AcquireImage \/ WaitImage \/ ReleaseImage \/ UNCHANGED image
  <1>1. CASE Next
    BY <1>1, Actions
    DEF Draw, ReleaseDemand, ReleaseSnapshot, EndFrameLayer, SnapshotIfMissing,
        FrameImageSource, PushLatest, WaitPop, WaitForReady, WaitReady,
        WaitTimesOut, PeekDone, CopyDone, EncodeDone, Demand, DestroyBegin,
        DestroyStop, LeasesReturned, FencesSignaled, DrainTimesOut
  <1>2. CASE UNCHANGED vars
    BY <1>2 DEF vars
  <1> QED BY <1>1, <1>2

LEMMA ImageKept ==
    ASSUME TypeOK, [Next]_vars PROVE ImageType'
  <1> USE DEF ImageType
  <1>0. ImageType
    BY DEF TypeOK
  <1>1. CASE AcquireImage
    <2>1. PICK i \in Images : /\ Candidate(i)
                              /\ states' = [states EXCEPT ![Wrap(next + i)] = "Acquired"]
                              /\ order' = Append(order, Wrap(next + i))
                              /\ next' = Wrap(Wrap(next + i) + 1)
      BY <1>1 DEF AcquireImage
    <2>2. Wrap(next + i) \in Images
      BY <1>0, SwapchainAssumption DEF Wrap, Images
    <2>3. Wrap(Wrap(next + i) + 1) \in Images
      BY <2>2, SwapchainAssumption DEF Wrap, Images
    <2>4. last' = last /\ static' \in BOOLEAN
      BY <1>1 DEF AcquireImage
    <2> QED BY <1>0, <2>1, <2>2, <2>3, <2>4
  <1>2. CASE WaitImage
    BY <1>0, <1>2 DEF WaitImage
  <1>3. CASE ReleaseImage
    <2>1. Head(order) \in Images /\ Tail(order) \in Seq(Images)
      BY <1>0, <1>3 DEF ReleaseImage
    <2> QED BY <1>0, <1>3, <2>1 DEF ReleaseImage
  <1>4. CASE UNCHANGED image
    BY <1>0, <1>4 DEF image
  <1> QED BY <1>1, <1>2, <1>3, <1>4, ImageSteps

-----------------------------------------------------------------------------
(* Images are acquired in turn, for any number of images.                  *)

LEMMA InitTurn == Init => InTurn
  <1> SUFFICES ASSUME Init PROVE InTurn
    OBVIOUS
  <1> USE SwapchainAssumption DEF Init, Images, Wrap
  <1>1. Turn(0)
    BY DEF Turn
  <1> QED BY <1>1 DEF InTurn

\* The search for an available image stops at the first candidate.
LEMMA AcquiredInTurn ==
    ASSUME ImageType, NEW b \in Images, Turn(b), Len(order) < N,
           NEW i \in Images, Candidate(i)
    PROVE  i = 0 /\ Wrap(next + i) = next
  <1> USE SwapchainAssumption DEF Images, Wrap, ImageType
  <1>1. Wrap(next) = next
    OBVIOUS
  <1>2. states[next] = "Available"
    <2>1. \A k \in 1 .. Len(order) : next # Wrap(b + k - 1)
      BY DEF Turn
    <2> QED BY <2>1 DEF Turn
  <1>3. CASE i # 0
    BY <1>1, <1>2, <1>3 DEF Candidate
  <1> QED BY <1>1, <1>3

LEMMA TurnKept ==
    ASSUME TypeOK, InTurn, [Next]_vars PROVE InTurn'
  <1> USE SwapchainAssumption
  <1>0. ImageType
    BY DEF TypeOK
  <1>1. CASE AcquireImage
    <2>1. PICK b \in Images : Turn(b)
      BY DEF InTurn
    <2>2. PICK i \in Images : /\ Candidate(i)
                              /\ states' = [states EXCEPT ![Wrap(next + i)] = "Acquired"]
                              /\ order' = Append(order, Wrap(next + i))
                              /\ next' = Wrap(Wrap(next + i) + 1)
      BY <1>1 DEF AcquireImage
    <2>3. Len(order) < N /\ last' = last /\ ~static /\ static' = (N = 1)
      BY <1>1 DEF AcquireImage
    <2>4. Wrap(next + i) = next
      BY <1>0, <2>1, <2>2, <2>3, AcquiredInTurn
    <2> DEFINE n == Len(order)
    <2>5. n \in Nat /\ Len(order') = n + 1 /\ next \in Images /\ b \in 0 .. N - 1
      BY <1>0, <2>2, <2>4 DEF ImageType, Images
    <2>6. next = Wrap(b + n) /\ next' = Wrap(b + (n + 1))
      <3>1. next = Wrap(b + n)
        BY <2>1 DEF Turn
      <3>2. n < N
        BY <2>3
      <3>3. Wrap(next + 1) = Wrap(b + (n + 1))
        BY <2>5, <3>1, <3>2 DEF Wrap, Images
      <3> QED BY <2>2, <2>4, <3>1, <3>3
    <2>7. order' = [k \in 1 .. Len(order') |-> Wrap(b + k - 1)]
      <3>1. order' = [k \in 1 .. n + 1 |-> IF k = n + 1 THEN next ELSE order[k]]
        BY <1>0, <2>2, <2>4 DEF ImageType
      <3>2. \A k \in 1 .. n : order[k] = Wrap(b + k - 1)
        BY <2>1, <2>5 DEF Turn
      <3>3. \A k \in 1 .. n + 1 :
               (IF k = n + 1 THEN next ELSE order[k]) = Wrap(b + k - 1)
        <4> SUFFICES ASSUME NEW k \in 1 .. n + 1
                     PROVE  (IF k = n + 1 THEN next ELSE order[k]) = Wrap(b + k - 1)
          OBVIOUS
        <4>1. CASE k = n + 1
          <5>1. b + k - 1 = b + n
            BY <2>5, <4>1
          <5> QED BY <2>6, <4>1, <5>1
        <4>2. CASE k # n + 1
          BY <2>5, <3>2, <4>2
        <4> QED BY <4>1, <4>2
      <3> QED BY <2>5, <3>1, <3>3
    <2>8. \A j \in Images :
            /\ states'[j] # "Available"
                 => \E k \in 1 .. Len(order') : j = Wrap(b + k - 1)
            /\ states'[j] = "Waited" => order' # <<>> /\ j = b
      <3> SUFFICES ASSUME NEW j \in Images
                   PROVE  /\ states'[j] # "Available"
                               => \E k \in 1 .. n + 1 : j = Wrap(b + k - 1)
                          /\ states'[j] = "Waited" => order' # <<>> /\ j = b
        BY <2>5
      <3>1. CASE j = next
        BY <1>0, <2>2, <2>4, <2>5, <2>6, <3>1 DEF ImageType
      <3>2. CASE j # next
        <4>1. states'[j] = states[j]
          BY <1>0, <2>2, <2>4, <2>5, <3>2 DEF ImageType
        <4>2. states[j] # "Available" => \E k \in 1 .. n : j = Wrap(b + k - 1)
          BY <2>1 DEF Turn
        <4>3. states[j] = "Waited" => order # <<>> /\ j = b
          BY <2>1 DEF Turn
        <4>4. order' # <<>>
          BY <1>0, <2>2, <2>4, <2>5 DEF ImageType
        <4> QED BY <2>5, <4>1, <4>2, <4>3, <4>4
      <3> QED BY <3>1, <3>2
    <2>9. Turn(b)'
      BY <2>1, <2>3, <2>5, <2>6, <2>7, <2>8 DEF Turn
    <2>10. N = 1 => last' = None /\ static'
      BY <2>3 DEF InTurn
    <2> QED BY <2>9, <2>10 DEF InTurn, Images
  <1>2. CASE WaitImage
    <2>1. PICK b \in Images : Turn(b)
      BY DEF InTurn
    <2>2. order # <<>> /\ Head(order) = b
      BY <1>0, <1>2, <2>1 DEF WaitImage, Turn, Wrap, Images, ImageType
    <2>3. Turn(b)'
      BY <1>0, <1>2, <2>1, <2>2 DEF WaitImage, Turn, ImageType
    <2> QED BY <1>2, <2>3 DEF InTurn, Images, WaitImage
  <1>3. CASE ReleaseImage
    <2>1. PICK b \in Images : Turn(b)
      BY DEF InTurn
    <2> DEFINE n == Len(order)
               c == Wrap(b + 1)
    <2>2. n \in 1 .. N /\ b \in 0 .. N - 1 /\ c \in Images /\ N \in Nat
      BY <1>0, <1>3, <2>1 DEF ReleaseImage, Turn, ImageType, Images, Wrap
    <2>3. Head(order) = b /\ last' = b /\ next' = next /\ static' = static
      BY <1>3, <2>1, <2>2 DEF ReleaseImage, Turn, Wrap
    <2>4. Len(order') = n - 1
      BY <1>0, <1>3, <2>2 DEF ReleaseImage, ImageType
    <2>5. order' = [k \in 1 .. n - 1 |-> Wrap(c + k - 1)]
      <3>1. order' = [k \in 1 .. n - 1 |-> order[k + 1]]
        <4>1. order \in Seq(Images) /\ order # <<>> /\ order' = Tail(order)
          BY <1>0, <1>3 DEF ReleaseImage, ImageType
        <4>2. /\ Tail(order) \in Seq(Images) /\ Len(Tail(order)) = n - 1
              /\ \A k \in 1 .. n - 1 : Tail(order)[k] = order[k + 1]
          BY <4>1, HeadTailProperties
        <4>3. Tail(order) = [k \in 1 .. n - 1 |-> Tail(order)[k]]
          BY <4>2, LenProperties
        <4> QED BY <4>1, <4>2, <4>3
      <3>2. \A k \in 1 .. n - 1 : order[k + 1] = Wrap(b + k)
        BY <2>1, <2>2 DEF Turn
      <3>3. \A k \in 1 .. n - 1 : Wrap(b + k) = Wrap(c + k - 1)
        BY <2>2 DEF Wrap
      <3> QED BY <3>1, <3>2, <3>3
    <2>6. next' = Wrap(c + (n - 1)) /\ last' = Wrap(c + N - 1)
      BY <2>1, <2>2, <2>3 DEF Turn, Wrap
    <2>7. \A j \in Images :
            /\ states'[j] # "Available"
                 => \E k \in 1 .. n - 1 : j = Wrap(c + k - 1)
            /\ states'[j] # "Waited"
      <3> SUFFICES ASSUME NEW j \in Images
                   PROVE  /\ states'[j] # "Available"
                               => \E k \in 1 .. n - 1 : j = Wrap(c + k - 1)
                          /\ states'[j] # "Waited"
        OBVIOUS
      <3>1. states' = [states EXCEPT ![b] = "Available"]
        BY <1>3, <2>3 DEF ReleaseImage
      <3>2. CASE j = b
        BY <1>0, <3>1, <3>2 DEF ImageType
      <3>3. CASE j # b
        <4>1. states'[j] = states[j] /\ states[j] # "Waited"
          BY <1>0, <2>1, <3>1, <3>3 DEF ImageType, Turn
        <4>2. ASSUME NEW k \in 1 .. n, j = Wrap(b + k - 1)
              PROVE  \E m \in 1 .. n - 1 : j = Wrap(c + m - 1)
          <5>1. k # 1
            BY <2>2, <3>3, <4>2 DEF Wrap
          <5>2. k - 1 \in 1 .. n - 1 /\ j = Wrap(c + (k - 1) - 1)
            BY <2>2, <4>2, <5>1 DEF Wrap
          <5> QED BY <5>2
        <4> QED BY <2>1, <4>1, <4>2 DEF Turn
      <3> QED BY <3>2, <3>3
    <2>8. Turn(c)'
      BY <2>2, <2>4, <2>5, <2>6, <2>7 DEF Turn
    <2>9. N = 1 => order' = <<>> /\ static'
      <3>1. N = 1 => n = 1
        BY <2>2
      <3> QED BY <1>0, <1>3, <2>3, <3>1 DEF ReleaseImage, InTurn, ImageType
    <2> QED BY <2>2, <2>8, <2>9 DEF InTurn, Images
  <1>4. CASE UNCHANGED image
    BY <1>4 DEF image, InTurn, Turn
  <1> QED BY <1>1, <1>2, <1>3, <1>4, ImageSteps

LEMMA TurnFacts ==
    ASSUME TypeOK, InTurn PROVE LastReleasedNotDrawn
  <1> USE SwapchainAssumption DEF TypeOK, ImageType
  <1> SUFFICES ASSUME last # None, states[last] = "Waited" PROVE FALSE
    BY DEF LastReleasedNotDrawn
  <1>1. PICK b \in Images : Turn(b)
    BY DEF InTurn
  <1>2. last = b /\ order # <<>>
    BY <1>1 DEF Turn
  <1>3. last = Wrap(b + N - 1)
    BY <1>1 DEF Turn
  <1>4. N = 1
    BY <1>2, <1>3 DEF Wrap, Images
  <1> QED BY <1>2, <1>4 DEF InTurn

-----------------------------------------------------------------------------
(* Types of the other variables.                                           *)

\* The two outcomes of a release-time snapshot.
LEMMA SnapshotOutcomes ==
    ASSUME NEW want, SnapshotReleasedImage(want)
    PROVE  \/ snap' = NoFrame /\ slot' = slot /\ fence' = fence
           \/ \E s \in Slots :
                /\ s \notin LeasedBy(OtherFrames)
                /\ ~Vulkan \/ fence[s] # "pending"
                /\ ~stopping
                /\ slot' = [slot EXCEPT ![s] = content[last]]
                /\ fence' = [fence EXCEPT ![s] = IF Vulkan THEN "pending" ELSE @]
                /\ snap' = [slot |-> s, shows |-> content[last]]
  BY DEF SnapshotReleasedImage, FreeSlots

\* No swapchain call has released an image yet.
Unreleased == last = None =>
    /\ snap = NoFrame
    /\ apc \notin {"demand", "snapshot"} /\ fpc = "idle"

LEMMA InkKept ==
    ASSUME TypeOK, [Next]_vars PROVE InkType'
  <1> USE SwapchainAssumption DEF InkType
  <1>0. InkType /\ ImageType
    BY DEF TypeOK
  <1>1. CASE Draw
    <2>1. PICK i \in Images : content' = [content EXCEPT ![i] = drawn + 1]
      BY <1>1 DEF Draw
    <2>2. drawn + 1 \in 0 .. MaxDraws /\ drawn' = drawn + 1 /\ released' = released
      BY <1>0, <1>1 DEF Draw, ink
    <2> QED BY <1>0, <2>1, <2>2
  <1>2. CASE ReleaseImage
    <2>1. Head(order) \in Images
      BY <1>0, <1>2 DEF ReleaseImage, ImageType
    <2> QED BY <1>0, <1>2, <2>1 DEF ReleaseImage
  <1>3. CASE UNCHANGED ink
    BY <1>0, <1>3 DEF ink
  <1>4. Draw \/ ReleaseImage \/ UNCHANGED ink
    <2>1. CASE Next
      BY <2>1, Actions
      DEF AcquireImage, WaitImage, ReleaseDemand, ReleaseSnapshot, EndFrameLayer,
          SnapshotIfMissing, FrameImageSource, PushLatest, WaitPop, WaitForReady,
          WaitReady, WaitTimesOut, PeekDone, CopyDone, EncodeDone, Demand,
          DestroyBegin, DestroyStop, LeasesReturned, FencesSignaled, DrainTimesOut
    <2>2. CASE UNCHANGED vars
      BY <2>2 DEF vars
    <2> QED BY <2>1, <2>2
  <1> QED BY <1>1, <1>2, <1>3, <1>4

LEMMA SnapshotKeepsType ==
    ASSUME TypeOK, NEW want, SnapshotReleasedImage(want), last # None
    PROVE  /\ slot' \in [Slots -> 0 .. MaxDraws]
           /\ fence' \in [Slots -> {"idle", "pending", "signaled"}]
           /\ snap' \in Frame
  <1> USE DEF TypeOK, PoolType, InkType, ImageType
  <1>1. CASE snap' = NoFrame /\ slot' = slot /\ fence' = fence
    BY <1>1 DEF Frame
  <1>2. CASE \E s \in Slots :
                /\ slot' = [slot EXCEPT ![s] = content[last]]
                /\ fence' = [fence EXCEPT ![s] = IF Vulkan THEN "pending" ELSE @]
                /\ snap' = [slot |-> s, shows |-> content[last]]
    <2>1. content[last] \in 0 .. MaxDraws
      OBVIOUS
    <2> QED BY <1>2, <2>1 DEF Frame
  <1> QED BY <1>1, <1>2, SnapshotOutcomes

LEMMA PoolKept ==
    ASSUME TypeOK, Unreleased, [Next]_vars PROVE PoolType'
  <1>0. PoolType
    BY DEF TypeOK
  <1>1. CASE ReleaseSnapshot
    <2>1. SnapshotReleasedImage(requested) /\ last # None /\ stopping' = stopping
      BY <1>1 DEF ReleaseSnapshot, Unreleased
    <2> QED BY <1>0, <2>1, SnapshotKeepsType DEF PoolType
  <1>2. CASE SnapshotIfMissing
    <2>1. last # None /\ stopping' = stopping
      BY <1>2 DEF SnapshotIfMissing, Unreleased
    <2>2. CASE SnapshotReleasedImage(TRUE)
      BY <1>0, <2>1, <2>2, SnapshotKeepsType DEF PoolType
    <2>3. CASE UNCHANGED <<snap, slot, fence>>
      BY <1>0, <2>1, <2>3 DEF PoolType
    <2> QED BY <1>2, <2>2, <2>3 DEF SnapshotIfMissing
  <1>3. CASE CopyDone
    BY <1>0, <1>3 DEF CopyDone, PoolType
  <1>4. CASE DestroyStop
    BY <1>0, <1>4 DEF DestroyStop, PoolType
  <1>5. CASE UNCHANGED pool
    BY <1>0, <1>5 DEF pool, PoolType
  <1>6. ReleaseSnapshot \/ SnapshotIfMissing \/ CopyDone \/ DestroyStop \/ UNCHANGED pool
    <2>1. CASE Next
      BY <2>1, Actions
      DEF AcquireImage, WaitImage, Draw, ReleaseImage, ReleaseDemand, EndFrameLayer,
          FrameImageSource, PushLatest, WaitPop, WaitForReady,
          WaitReady, WaitTimesOut, PeekDone, EncodeDone, Demand,
          DestroyBegin, LeasesReturned, FencesSignaled, DrainTimesOut
    <2>2. CASE UNCHANGED vars
      BY <2>2 DEF vars
    <2> QED BY <2>1, <2>2
  <1> QED BY <1>1, <1>2, <1>3, <1>4, <1>5, <1>6

LEMMA ReaderKept ==
    ASSUME TypeOK, Unreleased, [Next]_vars PROVE ReaderType'
  <1>0. ReaderType
    BY DEF TypeOK
  <1>1. NoFrame \in Frame
    BY DEF Frame
  <1> USE <1>0, <1>1 DEF ReaderType
  <1>2. CASE ReleaseSnapshot
    <2>1. SnapshotReleasedImage(requested) /\ last # None
      BY <1>2 DEF ReleaseSnapshot, Unreleased
    <2> QED BY <1>2, <2>1, SnapshotKeepsType DEF ReleaseSnapshot, readers
  <1>3. CASE SnapshotIfMissing
    <2>1. last # None
      BY <1>3 DEF SnapshotIfMissing, Unreleased
    <2>2. snap' \in Frame
      BY <1>3, <2>1, SnapshotKeepsType DEF SnapshotIfMissing
    <2> QED BY <1>3, <2>2 DEF SnapshotIfMissing, readers
  <1>4. CASE FrameImageSource \/ PushLatest
    BY <1>4 DEF FrameImageSource, PushLatest
  <1>5. CASE WaitPop \/ WaitForReady \/ WaitReady \/ WaitTimesOut
    BY <1>5 DEF WaitPop, WaitForReady, WaitReady, WaitTimesOut
  <1>6. CASE PeekDone
    BY <1>6 DEF PeekDone
  <1>7. CASE EncodeDone \/ Demand \/ DestroyBegin
    BY <1>7 DEF EncodeDone, Demand, DestroyBegin, readers
  <1>8. CASE UNCHANGED <<snap, readers>>
    BY <1>8 DEF readers
  <1>9. \/ ReleaseSnapshot \/ SnapshotIfMissing \/ FrameImageSource \/ PushLatest
        \/ WaitPop \/ WaitForReady \/ WaitReady \/ WaitTimesOut \/ PeekDone
        \/ EncodeDone \/ Demand \/ DestroyBegin \/ UNCHANGED <<snap, readers>>
    <2>1. CASE Next
      BY <2>1, Actions
      DEF AcquireImage, WaitImage, Draw, ReleaseImage, ReleaseDemand, EndFrameLayer,
          CopyDone, DestroyStop, LeasesReturned, FencesSignaled, DrainTimesOut
    <2>2. CASE UNCHANGED vars
      BY <2>2 DEF vars
    <2> QED BY <2>1, <2>2
  <1> QED BY <1>2, <1>3, <1>4, <1>5, <1>6, <1>7, <1>8, <1>9

LEMMA HeadKept ==
    ASSUME TypeOK, [Next]_vars PROVE HeadType'
  <1>0. HeadType
    BY DEF TypeOK
  <1>1. CASE Demand
    BY <1>0, <1>1, SwapchainAssumption DEF Demand, HeadType
  <1>2. CASE UNCHANGED heads
    BY <1>0, <1>2 DEF heads, HeadType
  <1>3. Demand \/ UNCHANGED heads
    <2>1. CASE Next
      BY <2>1, Actions
      DEF AcquireImage, WaitImage, Draw, ReleaseImage, ReleaseDemand, ReleaseSnapshot,
          EndFrameLayer, SnapshotIfMissing, FrameImageSource, PushLatest, WaitPop,
          WaitForReady, WaitReady, WaitTimesOut, PeekDone, CopyDone, EncodeDone,
          DestroyBegin, DestroyStop, LeasesReturned, FencesSignaled, DrainTimesOut
    <2>2. CASE UNCHANGED vars
      BY <2>2 DEF vars
    <2> QED BY <2>1, <2>2
  <1> QED BY <1>1, <1>2, <1>3

LEMMA ControlKept ==
    ASSUME TypeOK, [Next]_vars PROVE ControlType'
  <1>0. ControlType /\ HeadType
    BY DEF TypeOK
  <1> USE <1>0 DEF ControlType
  <1>1. CASE UNCHANGED vars \/ AcquireImage \/ WaitImage \/ Draw \/ CopyDone
             \/ EncodeDone \/ Demand
    <2>1. UNCHANGED control
      BY <1>1 DEF AcquireImage, WaitImage, Draw, CopyDone, EncodeDone, Demand, vars
    <2> QED BY <2>1 DEF control
  <1>2. CASE ReleaseImage \/ ReleaseSnapshot
    BY <1>2 DEF ReleaseImage, ReleaseSnapshot
  <1>3. CASE ReleaseDemand
    <2>1. requested' \in BOOLEAN
      BY <1>3 DEF ReleaseDemand, HeadType
    <2> QED BY <1>3, <2>1 DEF ReleaseDemand
  <1>4. CASE \/ EndFrameLayer("missing") \/ EndFrameLayer("source")
             \/ SnapshotIfMissing \/ FrameImageSource \/ PushLatest
    BY <1>4 DEF EndFrameLayer, SnapshotIfMissing, FrameImageSource, PushLatest
  <1>5. CASE WaitPop \/ WaitForReady \/ WaitReady \/ WaitTimesOut \/ PeekDone
    BY <1>5 DEF WaitPop, WaitForReady, WaitReady, WaitTimesOut, PeekDone
  <1>6. CASE \/ DestroyBegin \/ DestroyStop \/ LeasesReturned \/ FencesSignaled
             \/ DrainTimesOut
    BY <1>6 DEF DestroyBegin, DestroyStop, LeasesReturned, FencesSignaled, DrainTimesOut
  <1> QED BY <1>1, <1>2, <1>3, <1>4, <1>5, <1>6, Actions

-----------------------------------------------------------------------------
(* What snapshots show.  content[last] stays what was released, because the *)
(* image released last is not drawn into; so a snapshot taken in or after   *)
(* the window of ReleaseImage, by either thread, shows it.                  *)

Latest ==
    /\ Unreleased
    /\ last # None => content[last] = released
    /\ SnapshotIsLatest

LEMMA SnapshotShows ==
    ASSUME NEW want, SnapshotReleasedImage(want)
    PROVE  snap' # NoFrame => snap'.shows = content[last]
  BY SnapshotOutcomes

LEMMA LatestKept ==
    ASSUME TypeOK, InTurn, Latest, [Next]_vars PROVE Latest'
  <1>0. ImageType /\ InkType /\ ControlType /\ ReaderType
    BY DEF TypeOK
  <1>1. LastReleasedNotDrawn
    BY TurnFacts
  <1> USE <1>0, SwapchainAssumption DEF Latest, Unreleased, SnapshotIsLatest
  <1>2. CASE Draw
    <2>1. last # None => content'[last] = content[last]
      BY <1>1, <1>2 DEF Draw, LastReleasedNotDrawn, InkType, ImageType
    <2> QED BY <1>2, <2>1 DEF Draw, image, control
  <1>3. CASE ReleaseImage
    <2>1. Head(order) \in Images /\ Head(order) # None
      BY <1>3 DEF ReleaseImage, ImageType, Images
    <2> QED BY <1>3, <2>1 DEF ReleaseImage
  <1>4. CASE ReleaseSnapshot
    <2>1. last # None /\ SnapshotReleasedImage(requested)
      BY <1>4 DEF ReleaseSnapshot
    <2>2. snap' # NoFrame => snap'.shows = content[last]
      BY <2>1, SnapshotOutcomes
    <2> QED BY <1>4, <2>1, <2>2 DEF ReleaseSnapshot, image, ink
  <1>5. CASE SnapshotIfMissing
    <2>1. last # None
      BY <1>5 DEF SnapshotIfMissing
    <2>2. snap' = snap \/ (snap' # NoFrame => snap'.shows = content[last])
      <3>1. CASE SnapshotReleasedImage(TRUE)
        BY <3>1, SnapshotShows
      <3>2. CASE UNCHANGED <<snap, slot, fence>>
        BY <3>2
      <3> QED BY <1>5, <3>1, <3>2 DEF SnapshotIfMissing
    <2> QED BY <1>5, <2>1, <2>2 DEF SnapshotIfMissing, image, ink
  <1>6. CASE AcquireImage \/ WaitImage
    BY <1>6 DEF AcquireImage, WaitImage, ink, control
  <1>7. CASE ReleaseDemand
    BY <1>7 DEF ReleaseDemand, image, ink
  <1>8. CASE \/ EndFrameLayer("missing") \/ EndFrameLayer("source")
             \/ FrameImageSource \/ PushLatest
    BY <1>8 DEF EndFrameLayer, FrameImageSource, PushLatest, image, ink
  <1>9. CASE WaitPop \/ WaitForReady \/ WaitReady \/ WaitTimesOut \/ PeekDone
    BY <1>9 DEF WaitPop, WaitForReady, WaitReady, WaitTimesOut, PeekDone, image, ink
  <1>10. CASE CopyDone \/ EncodeDone \/ Demand
    BY <1>10 DEF CopyDone, EncodeDone, Demand, image, ink, control
  <1>11. CASE DestroyBegin
    BY <1>11 DEF DestroyBegin, image, ink
  <1>12. CASE DestroyStop \/ LeasesReturned \/ FencesSignaled \/ DrainTimesOut
    BY <1>12 DEF DestroyStop, LeasesReturned, FencesSignaled, DrainTimesOut, image, ink
  <1>13. CASE UNCHANGED vars
    BY <1>13 DEF vars, image, ink, control
  <1> QED BY <1>2, <1>3, <1>4, <1>5, <1>6, <1>7, <1>8, <1>9, <1>10, <1>11, <1>12,
             <1>13, Actions

-----------------------------------------------------------------------------
(* Leases.  A copy goes to a slot no frame reads, so every other frame      *)
(* keeps the drawing it was taken to show.                                  *)

LEMMA Readers ==
    ASSUME NEW f, f \in OtherFrames PROVE f.slot \in LeasedBy(OtherFrames)
  BY DEF LeasedBy

\* A frame of the next state was a frame before, or is the new snapshot.
LEMMA FramesMove ==
    ASSUME TypeOK, [Next]_vars, NEW f, f \in Frames', f # NoFrame
    PROVE  f \in Frames \/ f = snap'
  <1> USE DEF Frames
  <1>0. ReaderType
    BY DEF TypeOK
  <1>1. CASE UNCHANGED vars
    BY <1>1 DEF vars, readers
  <1>2. CASE \/ AcquireImage \/ WaitImage \/ Draw \/ ReleaseImage \/ ReleaseDemand
             \/ ReleaseSnapshot \/ EndFrameLayer("missing") \/ EndFrameLayer("source")
             \/ SnapshotIfMissing \/ CopyDone \/ DestroyBegin \/ DestroyStop
             \/ LeasesReturned \/ FencesSignaled \/ DrainTimesOut
    BY <1>2
    DEF AcquireImage, WaitImage, Draw, ReleaseImage, ReleaseDemand, ReleaseSnapshot,
        EndFrameLayer, SnapshotIfMissing, CopyDone, DestroyBegin, DestroyStop,
        LeasesReturned, FencesSignaled, DrainTimesOut, readers
  <1>3. CASE FrameImageSource \/ PushLatest \/ WaitPop \/ WaitForReady
             \/ WaitReady \/ WaitTimesOut \/ Demand
    BY <1>3 DEF FrameImageSource, PushLatest, WaitPop, WaitForReady, WaitReady,
                WaitTimesOut, Demand
  <1>4. CASE PeekDone \/ EncodeDone
    <2>1. \A c \in Contexts : coding'[c] \in {coding[c], worker, NoFrame}
      BY <1>0, <1>4 DEF PeekDone, EncodeDone, ReaderType
    <2>2. /\ snap' = snap /\ frame' = frame /\ pending' = pending
          /\ worker' \in {worker, NoFrame} /\ peek' \in {peek, NoFrame}
      BY <1>4 DEF PeekDone, EncodeDone
    <2> QED BY <2>1, <2>2
  <1> QED BY <1>1, <1>2, <1>3, <1>4, Actions

LEMMA FramesKept ==
    ASSUME TypeOK, Unreleased, FrameKeepsImage, [Next]_vars PROVE FrameKeepsImage'
  <1>0. PoolType /\ InkType /\ ReaderType
    BY DEF TypeOK
  <1> SUFFICES ASSUME NEW f \in Frames', f # NoFrame PROVE slot'[f.slot] = f.shows
    BY DEF FrameKeepsImage, NoFrame
  <1>1. CASE slot' = slot /\ snap' \in {snap, NoFrame}
    BY <1>1, FramesMove DEF FrameKeepsImage, Frames
  <1>2. ASSUME NEW want, SnapshotReleasedImage(want), UNCHANGED readers, last # None
        PROVE  slot'[f.slot] = f.shows
    <2>1. CASE snap' = NoFrame /\ slot' = slot
      BY <1>1, <2>1
    <2>2. ASSUME NEW s \in Slots,
                 s \notin LeasedBy(OtherFrames),
                 slot' = [slot EXCEPT ![s] = content[last]],
                 snap' = [slot |-> s, shows |-> content[last]]
          PROVE  slot'[f.slot] = f.shows
      <3>1. CASE f = snap'
        BY <1>0, <2>2, <3>1 DEF PoolType
      <3>2. CASE f # snap'
        <4>1. f \in OtherFrames
          BY <1>2, <3>2 DEF Frames, OtherFrames, readers
        <4>2. f.slot # s /\ f \in Frames
          BY <2>2, <4>1, Readers DEF Frames, OtherFrames
        <4>3. f \in Frame
          BY <1>0, <4>2 DEF Frames, ReaderType
        <4> QED BY <1>0, <2>2, <4>2, <4>3 DEF FrameKeepsImage, PoolType, Frame
      <3> QED BY <3>1, <3>2
    <2> QED BY <1>2, <2>1, <2>2, SnapshotOutcomes
  <1>3. CASE ReleaseSnapshot
    BY <1>2, <1>3 DEF ReleaseSnapshot, Unreleased
  <1>4. CASE SnapshotIfMissing
    BY <1>1, <1>2, <1>4 DEF SnapshotIfMissing, Unreleased
  <1>5. CASE ~ReleaseSnapshot /\ ~SnapshotIfMissing
    <2>1. CASE UNCHANGED vars
      BY <1>1, <2>1 DEF vars, pool
    <2>2. CASE Next
      BY <1>1, <1>5, <2>2, Actions
      DEF AcquireImage, WaitImage, Draw, ReleaseImage, ReleaseDemand,
          EndFrameLayer, FrameImageSource, PushLatest, WaitPop,
          WaitForReady, WaitReady, WaitTimesOut, PeekDone, CopyDone, EncodeDone,
          Demand, DestroyBegin, DestroyStop, LeasesReturned, FencesSignaled,
          DrainTimesOut, pool
    <2> QED BY <2>1, <2>2
  <1> QED BY <1>3, <1>4, <1>5

-----------------------------------------------------------------------------
(* Destruction.                                                            *)

\* Nobody refers to a slot.
Quiet ==
    /\ snap = NoFrame /\ frame = NoFrame /\ pending = NoFrame
    /\ worker = NoFrame /\ peek = NoFrame
    /\ \A c \in Contexts : coding[c] = NoFrame

\* A destruction excludes xrEndFrame; once the leases are back, nobody can
\* take another one.
DrainInv ==
    /\ ~Vulkan => \A s \in Slots : fence[s] = "idle"
    /\ worker = NoFrame => wpc = "idle"
    /\ apc \in {"d_stop", "d_leases", "d_fences"} => Vulkan /\ fpc = "idle"
    /\ gone => apc = "idle" /\ fpc = "idle"
    /\ apc = "d_fences" \/ (gone /\ Vulkan) => Quiet
    /\ gone /\ Vulkan => \A s \in Slots : fence[s] # "pending"

LEMMA QuietLeases == ASSUME ReaderType PROVE Leased = {None} <=> Quiet
  <1>1. \A f \in Frame : f.slot = None <=> f = NoFrame
    BY SwapchainAssumption DEF Frame, NoFrame, Slots
  <1>2. \A f \in Frames : f \in Frame
    BY DEF Frames, ReaderType
  <1>3. Leased = {None} <=> \A f \in Frames : f = NoFrame
    BY <1>1, <1>2 DEF Leased, Frames
  <1> QED BY <1>3 DEF Frames, Quiet

LEMMA DrainFacts == ASSUME TypeOK, DrainInv PROVE DestroyedUnused
  BY QuietLeases DEF TypeOK, DrainInv, DestroyedUnused, Quiet

LEMMA DrainKept ==
    ASSUME TypeOK, DrainInv, [Next]_vars PROVE DrainInv'
  <1>0. PoolType /\ ReaderType
    BY DEF TypeOK
  <1> USE <1>0 DEF DrainInv, Quiet
  <1>1. CASE \/ UNCHANGED vars \/ AcquireImage \/ WaitImage \/ Draw \/ ReleaseImage
             \/ ReleaseDemand
    BY <1>1 DEF vars, AcquireImage, WaitImage, Draw, ReleaseImage, ReleaseDemand,
                pool, readers, control
  <1>2. CASE ReleaseSnapshot
    <2>1. ~gone /\ apc' = "idle" /\ UNCHANGED <<readers, wpc, fpc, gone>>
      BY <1>2 DEF ReleaseSnapshot
    <2>2. ~Vulkan => \A s \in Slots : fence'[s] = "idle"
      BY <1>2, SnapshotOutcomes DEF ReleaseSnapshot, PoolType
    <2> QED BY <2>1, <2>2 DEF readers
  <1>3. CASE SnapshotIfMissing
    <2>1. /\ ~gone /\ apc \notin {"d_stop", "d_leases", "d_fences"}
          /\ UNCHANGED <<readers, wpc, apc, gone>>
      BY <1>3 DEF SnapshotIfMissing
    <2>2. ~Vulkan => \A s \in Slots : fence'[s] = "idle"
      <3>1. CASE SnapshotReleasedImage(TRUE)
        BY <3>1, SnapshotOutcomes DEF PoolType
      <3>2. CASE UNCHANGED <<snap, slot, fence>>
        BY <3>2
      <3> QED BY <1>3, <3>1, <3>2 DEF SnapshotIfMissing
    <2> QED BY <2>1, <2>2 DEF readers
  <1>4. CASE EndFrameLayer("missing") \/ EndFrameLayer("source")
    BY <1>4 DEF EndFrameLayer, pool, readers
  <1>5. CASE FrameImageSource \/ PushLatest
    BY <1>5 DEF FrameImageSource, PushLatest, pool
  <1>6. CASE WaitPop \/ WaitForReady \/ WaitReady \/ WaitTimesOut
    BY <1>6 DEF WaitPop, WaitForReady, WaitReady, WaitTimesOut, pool
  <1>7. CASE PeekDone \/ EncodeDone
    <2>1. \A c \in Contexts : coding'[c] \in {coding[c], worker, NoFrame}
      BY <1>7 DEF PeekDone, EncodeDone, ReaderType
    <2> QED BY <1>7, <2>1 DEF PeekDone, EncodeDone, pool, control
  <1>8. CASE CopyDone
    BY <1>8 DEF CopyDone, PoolType, readers, control
  <1>9. CASE Demand
    BY <1>9 DEF Demand, pool, control
  <1>10. CASE DestroyBegin
    BY <1>10 DEF DestroyBegin, pool, readers
  <1>11. CASE DestroyStop \/ DrainTimesOut
    BY <1>11 DEF DestroyStop, DrainTimesOut, pool, readers
  <1>12. CASE LeasesReturned
    BY <1>12, QuietLeases DEF LeasesReturned, pool, readers
  <1>13. CASE FencesSignaled
    BY <1>13 DEF FencesSignaled, pool, readers
  <1> QED BY <1>1, <1>2, <1>3, <1>4, <1>5, <1>6, <1>7, <1>8, <1>9, <1>10, <1>11,
             <1>12, <1>13, Actions

\* A slot is written only by a snapshot, to a slot that is free.
LEMMA CopyStep ==
    ASSUME TypeOK, DrainInv, [Next]_vars, NEW t \in Slots, slot'[t] # slot[t]
    PROVE  fence[t] # "pending"
  <1>0. PoolType
    BY DEF TypeOK
  <1>1. ASSUME NEW want, SnapshotReleasedImage(want) PROVE fence[t] # "pending"
    <2>1. PICK s \in Slots : /\ ~Vulkan \/ fence[s] # "pending"
                            /\ slot' = [slot EXCEPT ![s] = content[last]]
      BY <1>1, SnapshotOutcomes
    <2>2. t = s
      BY <1>0, <2>1 DEF PoolType
    <2>3. ~Vulkan => fence[s] = "idle"
      BY DEF DrainInv
    <2> QED BY <2>1, <2>2, <2>3
  <1>2. CASE ReleaseSnapshot
    BY <1>1, <1>2 DEF ReleaseSnapshot
  <1>3. CASE SnapshotIfMissing
    BY <1>1, <1>3 DEF SnapshotIfMissing
  <1>4. CASE ~ReleaseSnapshot /\ ~SnapshotIfMissing
    <2>1. slot' = slot
      <3>1. CASE UNCHANGED vars
        BY <3>1 DEF vars, pool
      <3>2. CASE Next
        BY <1>4, <3>2, Actions
        DEF AcquireImage, WaitImage, Draw, ReleaseImage, ReleaseDemand,
            EndFrameLayer, FrameImageSource, PushLatest, WaitPop,
            WaitForReady, WaitReady, WaitTimesOut, PeekDone, CopyDone, EncodeDone,
            Demand, DestroyBegin, DestroyStop, LeasesReturned, FencesSignaled,
            DrainTimesOut, pool
      <3> QED BY <3>1, <3>2
    <2> QED BY <2>1
  <1> QED BY <1>2, <1>3, <1>4

-----------------------------------------------------------------------------
(* The theorems.  Latest needs InTurn: only because images are acquired in  *)
(* turn does the image released last stay as it was released.              *)

Inv == TypeOK /\ InTurn /\ Latest /\ FrameKeepsImage /\ DrainInv

LEMMA InvHolds == Spec => []Inv
  <1>1. Init => Inv
    <2> SUFFICES ASSUME Init PROVE Inv
      OBVIOUS
    <2>1. Latest
      BY DEF Init, Latest, Unreleased, SnapshotIsLatest
    <2>2. Quiet /\ FrameKeepsImage
      BY DEF Init, Quiet, FrameKeepsImage, Frames
    <2>3. DrainInv
      BY <2>2 DEF Init, DrainInv
    <2> QED BY <2>1, <2>2, <2>3, InitType, InitTurn DEF Inv
  <1>2. Inv /\ [Next]_vars => Inv'
    <2> SUFFICES ASSUME Inv, [Next]_vars PROVE Inv'
      OBVIOUS
    <2>0. TypeOK /\ InTurn /\ Latest /\ Unreleased /\ FrameKeepsImage /\ DrainInv
      BY DEF Inv, Latest
    <2>1. TypeOK'
      BY <2>0, ImageKept, InkKept, PoolKept, ReaderKept, HeadKept, ControlKept
      DEF TypeOK
    <2>2. Latest'
      BY <2>0, LatestKept
    <2>3. DrainInv'
      BY <2>0, DrainKept
    <2> QED BY <2>0, <2>1, <2>2, <2>3, TurnKept, FramesKept DEF Inv
  <1> QED BY <1>1, <1>2, PTL DEF Spec

\* Every variable keeps its type.
THEOREM TypeInvariant == Spec => []TypeOK
  BY InvHolds, PTL DEF Inv

\* The image the last release published is never drawn into before another
\* release: the lock ReleaseImage drops protects nothing that can change.
THEOREM ReleasedImageKept == Spec => []LastReleasedNotDrawn
  <1>1. Inv => LastReleasedNotDrawn
    BY TurnFacts DEF Inv
  <1> QED BY <1>1, InvHolds, PTL

\* A snapshot shows the drawing the application released last.
THEOREM SnapshotLatest == Spec => []SnapshotIsLatest
  <1>1. Inv => SnapshotIsLatest
    BY DEF Inv, Latest
  <1> QED BY <1>1, InvHolds, PTL

\* No copy overwrites a slot a snapshot or a frame still reads.
THEOREM FramesKeepImages == Spec => []FrameKeepsImage
  BY InvHolds, PTL DEF Inv

\* A destroyed Vulkan swapchain has no reader and no copy in progress.
THEOREM DestroyedQuiet == Spec => []DestroyedUnused
  <1>1. Inv => DestroyedUnused
    BY DrainFacts DEF Inv
  <1> QED BY <1>1, InvHolds, PTL

\* The invariant of the runs.
THEOREM SwapchainIsSafe == Spec => []SwapchainSafe
  <1>1. TypeOK /\ LastReleasedNotDrawn /\ SnapshotIsLatest /\ FrameKeepsImage /\ DestroyedUnused
          => SwapchainSafe
    BY DEF SwapchainSafe
  <1> QED BY <1>1, TypeInvariant, ReleasedImageKept, SnapshotLatest, FramesKeepImages,
             DestroyedQuiet, PTL

\* No copy is submitted to a slot whose previous copy still runs.
THEOREM CopiesNotReused == Spec => CopyNotReused
  <1>1. Inv /\ [Next]_vars
          => [\A s \in Slots : slot'[s] # slot[s] => fence[s] # "pending"]_vars
    BY CopyStep DEF Inv
  <1> QED BY <1>1, InvHolds, PTL DEF Spec, CopyNotReused

-----------------------------------------------------------------------------
(* A static image is released once, so the pool is untouched until then and *)
(* its only snapshot cannot be refused for want of a slot.                  *)

Untouched == Quiet /\ \A s \in Slots : fence[s] = "idle"

StaticInv ==
    N = 1 =>
        /\ last = None \/ apc \in {"demand", "snapshot"} => Untouched
        /\ apc = "snapshot" => requested
        /\ apc \in {"d_leases", "d_fences"} => stopping
        /\ StaticImageKept

\* Nothing but a snapshot touches an untouched pool.
LEMMA UntouchedKept ==
    ASSUME Untouched, ReaderType, [Next]_vars, ~ReleaseSnapshot,
           ~(SnapshotIfMissing /\ SnapshotReleasedImage(TRUE))
    PROVE  Untouched'
  <1> USE DEF Untouched, Quiet
  <1>1. CASE \/ UNCHANGED vars \/ AcquireImage \/ WaitImage \/ Draw \/ ReleaseImage
             \/ ReleaseDemand \/ EndFrameLayer("missing") \/ EndFrameLayer("source")
    BY <1>1 DEF vars, AcquireImage, WaitImage, Draw, ReleaseImage, ReleaseDemand,
                EndFrameLayer, pool, readers
  <1>2. CASE SnapshotIfMissing
    BY <1>2 DEF SnapshotIfMissing, readers
  <1>3. CASE FrameImageSource \/ PushLatest \/ WaitPop \/ WaitForReady
             \/ WaitReady \/ WaitTimesOut \/ Demand
    BY <1>3 DEF FrameImageSource, PushLatest, WaitPop, WaitForReady, WaitReady,
                WaitTimesOut, Demand, pool
  <1>4. CASE PeekDone
    <2>1. \A c \in Contexts : coding'[c] \in {coding[c], worker}
      BY <1>4 DEF PeekDone, ReaderType
    <2> QED BY <1>4, <2>1 DEF PeekDone, pool
  <1>5. CASE EncodeDone \/ CopyDone
    BY <1>5 DEF EncodeDone, CopyDone, pool
  <1>6. CASE \/ DestroyBegin \/ DestroyStop \/ LeasesReturned \/ FencesSignaled
             \/ DrainTimesOut
    BY <1>6 DEF DestroyBegin, DestroyStop, LeasesReturned, FencesSignaled,
                DrainTimesOut, pool, readers
  <1> QED BY <1>1, <1>2, <1>3, <1>4, <1>5, <1>6, Actions

LEMMA StaticKept ==
    ASSUME ~CallsFail, N = 1, Inv, StaticInv, [Next]_vars PROVE StaticInv'
  <1> USE DEF StaticInv, StaticImageKept
  <1>0. /\ ImageType /\ PoolType /\ ReaderType /\ Vulkan
        /\ last # None => order = <<>>
    BY SwapchainAssumption DEF Inv, TypeOK, InTurn
  <1>1. CASE ReleaseImage
    <2>1. last = None /\ Untouched'
      BY <1>0, <1>1, UntouchedKept
      DEF ReleaseImage, ReleaseSnapshot, SnapshotIfMissing
    <2> QED BY <1>1, <2>1 DEF ReleaseImage, pool
  <1>2. CASE ReleaseDemand
    <2>1. Untouched'
      BY <1>0, <1>2, UntouchedKept
      DEF ReleaseDemand, ReleaseSnapshot, SnapshotIfMissing
    <2> QED BY <1>2, <2>1 DEF ReleaseDemand, pool, image
  <1>3. CASE ReleaseSnapshot
    <2>1. requested /\ Untouched /\ SnapshotReleasedImage(requested)
      BY <1>3 DEF ReleaseSnapshot
    <2>2. last # None
      BY <1>3 DEF Inv, Latest, Unreleased, ReleaseSnapshot
    <2>3. FreeSlots(LeasedBy(OtherFrames)) = Slots
      BY <2>1, SwapchainAssumption
      DEF FreeSlots, LeasedBy, OtherFrames, Untouched, Quiet, NoFrame, Slots
    <2>4. Slots # {}
      BY SwapchainAssumption DEF Slots
    <2>5. ~stopping => \E s \in Slots : snap' = [slot |-> s, shows |-> content[last]]
      BY <2>1, <2>3, <2>4 DEF SnapshotReleasedImage
    <2>6. ~stopping => snap' # NoFrame
      BY <2>5, SwapchainAssumption DEF Slots, NoFrame
    <2> QED BY <1>3, <2>2, <2>6 DEF ReleaseSnapshot, image
  <1>4. CASE SnapshotIfMissing
    <2>1. UNCHANGED <<snap, slot, fence>> /\ last' = last
      BY <1>4 DEF SnapshotIfMissing, image
    <2>2. Untouched => Untouched'
      BY <1>4, <2>1 DEF SnapshotIfMissing, Untouched, Quiet, readers
    <2> QED BY <1>4, <2>1, <2>2 DEF SnapshotIfMissing
  <1>5. CASE ~ReleaseImage /\ ~ReleaseDemand /\ ~ReleaseSnapshot /\ ~SnapshotIfMissing
    <2>1. Untouched => Untouched'
      BY <1>0, <1>5, UntouchedKept
    <2>2. last' = last
      BY <1>5, ImageSteps DEF AcquireImage, WaitImage, image
    <2>3. CASE UNCHANGED <<snap, stopping, control>>
      BY <2>1, <2>2, <2>3 DEF control
    <2>4. CASE /\ UNCHANGED <<snap, stopping, apc, requested, gone>>
      BY <2>1, <2>2, <2>4
    <2>5. CASE DestroyBegin
      BY <1>0, <2>1, <2>2, <2>5 DEF DestroyBegin
    <2>6. CASE DestroyStop
      BY <2>1, <2>2, <2>6 DEF DestroyStop
    <2>7. CASE LeasesReturned \/ FencesSignaled \/ DrainTimesOut
      BY <2>1, <2>2, <2>7 DEF LeasesReturned, FencesSignaled, DrainTimesOut, pool
    <2>8. \/ UNCHANGED <<snap, stopping, control>>
          \/ UNCHANGED <<snap, stopping, apc, requested, gone>>
          \/ DestroyBegin \/ DestroyStop
          \/ LeasesReturned \/ FencesSignaled \/ DrainTimesOut
      <3>1. CASE UNCHANGED vars
        BY <3>1 DEF vars, pool
      <3>2. CASE Next
        BY <1>5, <3>2, Actions
        DEF AcquireImage, WaitImage, Draw, EndFrameLayer, FrameImageSource,
            PushLatest, WaitPop, WaitForReady, WaitReady, WaitTimesOut, PeekDone,
            CopyDone, EncodeDone, Demand, pool
      <3> QED BY <3>1, <3>2
    <2> QED BY <2>3, <2>4, <2>5, <2>6, <2>7, <2>8
  <1> QED BY <1>1, <1>2, <1>3, <1>4, <1>5

\* If the graphics calls succeed, a static image stays available to a headset
\* that connects at any time after its one release.
THEOREM StaticImageStays == ASSUME ~CallsFail PROVE Spec => []StaticImageKept
  <1>1. Init => StaticInv
    BY DEF Init, StaticInv, Untouched, Quiet, StaticImageKept
  <1>2. Inv /\ StaticInv /\ [Next]_vars => StaticInv'
    BY StaticKept DEF StaticInv
  <1>3. StaticInv => StaticImageKept
    BY DEF StaticInv, StaticImageKept
  <1> QED BY <1>1, <1>2, <1>3, InvHolds, PTL DEF Spec

=============================================================================
