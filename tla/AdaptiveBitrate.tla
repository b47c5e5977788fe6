--------------------------- MODULE AdaptiveBitrate ---------------------------
(***************************************************************************)
(* The server's adaptive bitrate: the controller of StreamingAbr.h and the *)
(* code of StreamingServer.cpp that feeds it and acts on its decisions.    *)
(*                                                                         *)
(* A client's latency reports are handled by the control thread of its     *)
(* transport: "udp" for WiFi, "tcp" for USB.  Three totals, which other    *)
(* threads raise, count the key frames asked for, the frames the send      *)
(* queue dropped and those the encoder dropped; a report takes what each   *)
(* has grown by since the report before it.  The decision is stored, and   *)
(* then given to the encoder under its mutex; a session over USB in the    *)
(* "full" mode also changes its resolution, over StreamConfigUpdate and    *)
(* its acknowledgement (StreamReconfigure has that protocol in full).      *)
(*                                                                         *)
(* Resolution scales are percentages, averages are compared as sums, and   *)
(* the smoothed latency is a field of the report.                          *)
(***************************************************************************)
EXTENDS Integers, Sequences, FiniteSets

CONSTANTS
    Modes,          \* what streaming.abr_mode may be: "off", "bitrate", "full"
    ConfigBitrate,  \* streaming.bitrate_mbps
    Ceilings,       \* ClientConnect.maxBitrateMbps; 0 is CLIENT_MAX_BITRATE_USE_SERVER_CONFIG
    ConfigScale,    \* streaming.resolution_scale
    MinScale,       \* streaming.dynamic_resolution_min_scale
    EncodedSize,    \* the encoded size of a scale (BuildStreamLayout rounds it to blocks)
    Reports,        \* the latency reports a client may send
    Wrap,           \* stands for 2^32, the range of the totals
    Windows,        \* timing windows of the code the instance includes
    MaxSessions, MaxEvents, MaxFailures  \* bounds

Threads == {"udp", "tcp"}
Totals == {"keyframe", "send", "encoder"}
None == 0
Works == [bitrate : {None} \cup (10..ConfigBitrate), scale : 25..100]
NoWork == [bitrate |-> None, scale |-> None]

ASSUME BitrateAssumption ==
    /\ Modes \subseteq {"off", "bitrate", "full"}
    /\ ConfigBitrate \in 1..200 /\ Ceilings \subseteq 0..200
    /\ ConfigScale \in 25..100 /\ MinScale \in 25..100
    /\ Windows \subseteq {"stray", "late"}

\* A session counts fewer events than the totals can hold.
ASSUME TotalsAssumption == Wrap \in Nat /\ MaxEvents \in Nat /\ MaxEvents < Wrap

VARIABLES
    mode,        \* streaming.abr_mode
    control,     \* abrController_
    client,      \* the transport of the connected session: a thread, or "none"
    live,        \* clientSupportsStreamReconfigure_ and a reliable transport
    ceiling,     \* configMaxBitrateMbps_
    current,     \* currentBitrateMbps_
    encoder,     \* the bitrate of encoder_'s session, None without an encoder
    total, last, \* the totals, and what the last report found in them
    due,         \* per control thread: what its report in progress has still to do
    scale,       \* streamLayout_.activeResolutionScale
    pending,     \* the scale of the update the client has not acknowledged, or None
    unseen,      \* history: what was counted since this session's last report
    calm, quiet, \* history: no trouble is outstanding; for how many reports, and since the last rise
    sessions, events, failures

vars == <<mode, control, client, live, ceiling, current, encoder, total, last, due, scale, pending,
          unseen, calm, quiet, sessions, events, failures>>

Least(a, b) == IF a < b THEN a ELSE b
Most(a, b) == IF a < b THEN b ELSE a

-----------------------------------------------------------------------------
(* The controller (StreamingAbr.h)                                         *)

WindowSize == 5
MinBitrate == 10
StableBeforeIncrease == 5
ProfileHold == 4

Fresh(max) ==
    [bitrate |-> Most(max, MinBitrate), max |-> Most(max, MinBitrate), state |-> "stable",
     stable |-> 0, hold |-> 0, profile |-> "balanced", samples |-> <<>>]

\* The samples' average of a field is at least the threshold.
Reaches(samples, field, threshold) ==
    LET sum[i \in 0..Len(samples)] == IF i = 0 THEN 0 ELSE sum[i - 1] + samples[i][field]
    IN  sum[Len(samples)] >= threshold * Len(samples)

Immediate(report, delta) ==
    \/ delta["keyframe"] > 0 \/ delta["send"] > 1 \/ delta["encoder"] > 0
    \/ report.age >= 85 \/ report.reprojected >= 12 \/ report.stale >= 18

Strained(samples, report) ==
    \/ Reaches(samples, "latency", 45) \/ Reaches(samples, "age", 55)
    \/ Reaches(samples, "reprojected", 4) \/ Reaches(samples, "stale", 6)
    \/ report.fallbacks >= 2

Judged(samples, report, delta) ==
    IF Immediate(report, delta) THEN "recovery"
    ELSE IF Strained(samples, report) THEN "constrained" ELSE "stable"

\* Mutant: the five reports are not counted anew after trouble.
LoweredCounting(c, percent) ==
    [c EXCEPT !.hold = Most(@, ProfileHold), !.bitrate = Most((@ * percent) \div 100, MinBitrate)]

Lowered(c, percent) ==
    [c EXCEPT !.stable = 0, !.hold = Most(@, ProfileHold),
              !.bitrate = Most((@ * percent) \div 100, MinBitrate)]

\* Mutant: a twentieth of a small bitrate is nothing.
Twentieth(bitrate) == bitrate \div 20

Increase(bitrate) == Most(bitrate \div 20, 1)

\* The count of stable reports is kept to five: it only matters whether it has come that far.
Raised(c) ==
    LET counted == [c EXCEPT !.hold = Most(@ - 1, 0),
                             !.stable = Least(@ + 1, StableBeforeIncrease)]
    IN  IF counted.stable = StableBeforeIncrease /\ c.bitrate < c.max
        THEN [counted EXCEPT !.stable = 0, !.bitrate = Least(@ + Increase(@), c.max)]
        ELSE counted

\* A large step down at once, a small one up after five stable reports.
Moved(c, state) ==
    CASE state = "recovery" -> Lowered(c, 80)
      [] state = "constrained" -> Lowered(c, 90)
      [] state = "stable" -> Raised(c)

Profile(c) ==
    CASE mode # "full" -> "bitrate"
      [] mode = "full" /\ c.state = "recovery" -> "wifi_smooth"
      [] mode = "full" /\ c.state = "constrained" -> "smooth"
      [] mode = "full" /\ c.state = "stable" ->
           IF /\ c.hold = 0 /\ c.bitrate >= (c.max * 9) \div 10
              /\ ~Reaches(c.samples, "age", 30) /\ ~Reaches(c.samples, "reprojected", 1)
           THEN "quality" ELSE "balanced"

ProfileScale(profile) ==
    IF mode = "full" /\ profile \in {"wifi_smooth", "smooth"}
    THEN Most(Least(MinScale, ConfigScale), (ConfigScale * (IF profile = "wifi_smooth" THEN 70 ELSE 85)) \div 100)
    ELSE ConfigScale

\* Controller::Update.
Updated(c, report, delta) ==
    LET kept == IF Len(c.samples) < WindowSize THEN c.samples ELSE Tail(c.samples)
        samples == Append(kept, report)
        state == Judged(samples, report, delta)
        next == [Moved([c EXCEPT !.samples = samples], state) EXCEPT !.state = state]
    IN  IF mode = "off" THEN [c EXCEPT !.state = "stable"]
        ELSE [next EXCEPT !.profile = Profile(next)]

-----------------------------------------------------------------------------
Init ==
    /\ mode \in Modes
    /\ control = [Fresh(50) EXCEPT !.bitrate = 50]
    /\ client = "none" /\ live = FALSE
    /\ ceiling = 50 /\ current = 50 /\ encoder = None
    /\ total = [k \in Totals |-> 0] /\ last = total /\ unseen = total
    /\ due = [t \in Threads |-> NoWork]
    /\ scale = ConfigScale /\ pending = None
    /\ calm = TRUE /\ quiet = 0
    /\ sessions = 0 /\ events = 0 /\ failures = 0

Idle(t) == due[t] = NoWork

\* Mutant: one of the three is forgotten.
ResetTotalsButEncoder ==
    /\ total' = [k \in Totals |-> 0]
    /\ last' = [k \in Totals |-> IF k = "encoder" THEN last[k] ELSE 0]

ResetTotals == total' = [k \in Totals |-> 0] /\ last' = [k \in Totals |-> 0]

\* HandleClientConnect on the UDP thread, HandleUsbClientConnect on the TCP thread: the part that
\* prepares the session's bitrate.  The encoder may fail to initialise: there is no session then.
Connect(t, max, reconfigures) ==
    /\ client = "none" /\ Idle(t) /\ sessions < MaxSessions
    /\ (\A other \in Threads : Idle(other)) \/ "late" \in Windows
    /\ LET bitrate == IF max = 0 THEN ConfigBitrate ELSE Least(ConfigBitrate, max)
       IN  /\ ceiling' = bitrate /\ current' = bitrate /\ control' = Fresh(bitrate)
           /\ \/ encoder' = bitrate /\ client' = t /\ failures' = failures
              \/ encoder' = None /\ client' = client /\ failures < MaxFailures /\ failures' = failures + 1
    /\ live' = (reconfigures /\ t = "tcp" /\ client' = t)
    /\ ResetTotals
    /\ unseen' = [k \in Totals |-> 0] /\ calm' = TRUE /\ quiet' = 0
    /\ sessions' = sessions + 1
    /\ UNCHANGED <<mode, due, scale, pending, events>>

\* HandleClientDisconnect, on any thread: an encoder that is not drained stays for a later try.
\* The last count of the encoder's drops is not reset, and neither is the layout.
Disconnect ==
    /\ client # "none"
    /\ client' = "none" /\ live' = FALSE /\ pending' = None
    /\ encoder' \in {None, encoder}
    /\ total' = [k \in Totals |-> 0]
    /\ last' = [last EXCEPT !["keyframe"] = 0, !["send"] = 0]
    /\ unseen' = [k \in Totals |-> 0] /\ quiet' = 0
    /\ UNCHANGED <<mode, control, ceiling, current, due, scale, calm, sessions, events, failures>>

\* The encode callback that finds its frame dropped, EnqueueVideoFrame and the send thread that
\* drop one, and a key-frame request of the client.
Trouble(k) ==
    /\ client # "none" /\ events < MaxEvents
    /\ k = "keyframe" => Idle(client)
    /\ total' = [total EXCEPT ![k] = (@ + 1) % Wrap]
    /\ unseen' = [unseen EXCEPT ![k] = @ + 1]
    /\ calm' = FALSE /\ quiet' = IF k = "send" /\ unseen[k] = 0 THEN quiet ELSE 0
    /\ events' = events + 1
    /\ UNCHANGED <<mode, control, client, live, ceiling, current, encoder, last, due, scale, pending,
                   sessions, failures>>

-----------------------------------------------------------------------------
(* A latency report                                                        *)

\* A report is handled for its transport's session.  The UDP thread looks neither at the sender
\* nor at the state, so it also handles one that comes when no session is, or during a USB one.
MayCome(t) ==
    \/ client = t
    \/ t = "udp" /\ client = "none"
    \/ t = "udp" /\ "stray" \in Windows

\* HandleLatencyReport up to the store of the decision.
Report(t, report) ==
    /\ Idle(t) /\ MayCome(t)
    /\ LET delta == [k \in Totals |-> (total[k] - last[k]) % Wrap]
           next == Updated(control, report, delta)
           bad == Immediate(report, unseen) \/ report.fallbacks >= 2
       IN  /\ control' = next
           /\ current' = IF next.bitrate # control.bitrate THEN next.bitrate ELSE current
           /\ due' = [due EXCEPT ![t] =
                        [bitrate |-> IF next.bitrate # control.bitrate /\ next.bitrate # current
                                     THEN next.bitrate ELSE None,
                         scale |-> IF mode = "off" THEN ConfigScale ELSE ProfileScale(next.profile)]]
           /\ calm' = (next.state = "stable")
           /\ quiet' = IF bad \/ next.bitrate > control.bitrate THEN 0 ELSE Least(quiet + 1, 5)
    /\ last' = total
    /\ unseen' = [k \in Totals |-> 0]
    /\ UNCHANGED <<mode, client, live, ceiling, encoder, total, scale, pending, sessions, events, failures>>

\* Less than 0.025 apart.
Near(a, b) == a - b \in -2..2

\* MaybeRequestStreamReconfigure.  A size that rounding leaves as it is needs no update; the send
\* of an update may fail.
Reconfigure(target) ==
    IF mode # "full" \/ ~live \/ pending # None \/ Near(target, scale)
    THEN UNCHANGED <<scale, pending, failures>>
    ELSE IF EncodedSize[target] = EncodedSize[scale]
    THEN scale' = target /\ UNCHANGED <<pending, failures>>
    ELSE /\ scale' = scale
         /\ \/ pending' = target /\ failures' = failures
            \/ pending' = None /\ failures < MaxFailures /\ failures' = failures + 1

\* Mutant: the encoder is not told.
FinishUntold(t) ==
    /\ ~Idle(t)
    /\ encoder' = encoder
    /\ Reconfigure(due[t].scale)
    /\ due' = [due EXCEPT ![t] = NoWork]
    /\ UNCHANGED <<mode, control, client, live, ceiling, current, total, last, unseen, calm, quiet,
                   sessions, events>>

\* The rest of HandleLatencyReport: the encoder is told under its mutex.
Finish(t) ==
    /\ ~Idle(t)
    /\ encoder' = IF encoder # None /\ due[t].bitrate # None THEN due[t].bitrate ELSE encoder
    /\ Reconfigure(due[t].scale)
    /\ due' = [due EXCEPT ![t] = NoWork]
    /\ UNCHANGED <<mode, control, client, live, ceiling, current, total, last, unseen, calm, quiet,
                   sessions, events>>

\* HandleStreamConfigAck: the client refuses; or the new encoder, of the bitrate of this moment,
\* takes the old one's place; or it cannot be built and the update is forgotten.
Acknowledge ==
    /\ pending # None /\ client = "tcp" /\ Idle("tcp")
    /\ \/ scale' = pending /\ encoder' = current /\ failures' = failures
       \/ failures < MaxFailures /\ failures' = failures + 1 /\ UNCHANGED <<scale, encoder>>
    /\ pending' = None
    /\ UNCHANGED <<mode, control, client, live, ceiling, current, total, last, due, unseen, calm, quiet,
                   sessions, events>>

Next ==
    \/ \E t \in Threads, max \in Ceilings, r \in BOOLEAN : Connect(t, max, r)
    \/ Disconnect
    \/ \E k \in Totals : Trouble(k)
    \/ \E t \in Threads, r \in Reports : Report(t, r)
    \/ \E t \in Threads : Finish(t)
    \/ Acknowledge

\* A connected client goes on reporting: what it leaves to do is the one mark of its report.
Hears(t) == client = t /\ Idle(t) /\ \E work \in Works : due' = [due EXCEPT ![t] = work]

\* Both control threads run on.  The client answers an update, and the thread takes what it sends in
\* order, so the reports around the answer do not keep it away.
Fairness ==
    /\ \A t \in Threads : WF_due(Hears(t)) /\ WF_vars(Finish(t))
    /\ SF_vars(Acknowledge)

Spec == Init /\ [][Next]_vars
FairSpec == Spec /\ Fairness

-----------------------------------------------------------------------------
TypeOK ==
    /\ mode \in Modes /\ client \in Threads \cup {"none"} /\ live \in BOOLEAN
    /\ control.max \in 10..200 /\ control.bitrate \in 10..control.max
    /\ control.stable \in 0..StableBeforeIncrease /\ control.hold \in 0..ProfileHold
    /\ Len(control.samples) <= WindowSize
    /\ ceiling \in 1..200 /\ current \in 1..200 /\ encoder \in 0..200
    /\ total \in [Totals -> 0..Wrap - 1] /\ last \in [Totals -> 0..Wrap - 1]
    /\ scale \in 25..100 /\ pending \in 0..100

\* The difference a report takes of the totals is what was counted since this session's last report:
\* no event of an earlier session enters it, none of this one is lost, whatever was reset when.
NothingMissed ==
    client # "none" => \A k \in Totals : (total[k] - last[k]) % Wrap = unseen[k]

\* What the runs check of the two together.
BitrateSafe == TypeOK /\ NothingMissed

\* Between two messages of the client the encoder runs at the bitrate the server decided on last,
\* the controller's, also after its replacement by a reconfiguration and across sessions; and that
\* is never more than the client's ceiling.
EncoderFollows ==
    (client # "none" /\ \A t \in Threads : Idle(t)) =>
        /\ encoder = current /\ current <= ceiling
        /\ ceiling >= MinBitrate => current = control.bitrate

\* In a session the bitrate rises at the fifth of five reports in a row without any trouble of their
\* own or of the server's queues, counted anew after each rise.
RisesSlowly ==
    [][(client # "none" /\ sessions' = sessions /\ control'.bitrate > control.bitrate)
       => quiet >= 4 /\ \A k \in Totals \ {"send"} : unseen[k] = 0]_vars

\* When the trouble of a session ends, the bitrate comes back to its ceiling, and the resolution of
\* one that may change it to the configured one.
Recovers ==
    <>[](calm /\ client # "none") =>
        <>[](current = ceiling /\ (live /\ mode = "full" => scale = ConfigScale))
=============================================================================
