------------------------- MODULE AdaptiveBitrateProofs -------------------------
(***************************************************************************)
(* Proofs about AdaptiveBitrate, for any reports, modes, ceilings and      *)
(* totals: a report takes from the totals what was counted since the one   *)
(* before it, the bitrate rises only after five reports without trouble,   *)
(* and, outside the two timing windows, the encoder runs at the bitrate    *)
(* decided on last.                                                        *)
(***************************************************************************)
EXTENDS AdaptiveBitrate, TLAPS

States == {"stable", "constrained", "recovery"}
Profiles == {"bitrate", "wifi_smooth", "smooth", "quality", "balanced"}
Controls ==
    [bitrate : 10..200, max : 10..200, state : States, stable : 0..StableBeforeIncrease,
     hold : 0..ProfileHold, profile : Profiles, samples : Seq(Reports)]

\* The controller, between its bounds.
ControlType ==
    /\ control \in Controls
    /\ control.bitrate <= control.max
    /\ Len(control.samples) <= WindowSize

SessionType ==
    /\ mode \in Modes /\ client \in Threads \cup {"none"} /\ live \in BOOLEAN
    /\ ceiling \in 1..200 /\ current \in 1..200 /\ encoder \in 0..200

\* The totals, and the history of what they counted.
TotalType ==
    /\ total \in [Totals -> 0..Wrap - 1] /\ last \in [Totals -> 0..Wrap - 1]
    /\ unseen \in [Totals -> Nat] /\ events \in 0..MaxEvents /\ quiet \in 0..5
    /\ \A k \in Totals : unseen[k] <= events

\* What a report has still to do.
WorkType ==
    /\ due \in [Threads -> [bitrate : 0..200, scale : {None} \cup 25..100]]
    /\ \A t \in Threads : due[t].scale = None => due[t] = NoWork
    /\ scale \in 25..100 /\ pending \in {None} \cup 25..100

\* Trouble that the next report is bound to find in the totals.
Counted == unseen["keyframe"] > 0 \/ unseen["send"] > 1 \/ unseen["encoder"] > 0

\* The controller has not counted more stable reports than there were without
\* trouble, or the next report finds that trouble.
Steady ==
    /\ mode = "off" => control.stable = 0
    /\ client # "none" => control.stable <= quiet \/ Counted

IInv == ControlType /\ SessionType /\ TotalType /\ WorkType /\ NothingMissed /\ Steady

\* Outside the windows only the session's own thread is busy, and the bitrate it
\* has still to give to the encoder is the one stored last.
Following ==
    client # "none" =>
        /\ \A t \in Threads : t # client => Idle(t)
        /\ IF due[client].bitrate = None THEN encoder = current ELSE due[client].bitrate = current
        /\ encoder # None
        /\ control.max = Most(ceiling, MinBitrate)
        /\ current = Least(control.bitrate, ceiling)

-----------------------------------------------------------------------------
(* The controller's operators.                                             *)

LEMMA LoweredFacts ==
    ASSUME NEW c \in Controls, c.bitrate <= c.max, NEW percent \in {80, 90}
    PROVE  /\ Lowered(c, percent) \in Controls
           /\ Lowered(c, percent).bitrate <= c.bitrate /\ Lowered(c, percent).stable = 0
           /\ Lowered(c, percent).max = c.max /\ Lowered(c, percent).samples = c.samples
  <1> DEFINE b == Most((c.bitrate * percent) \div 100, MinBitrate)
             h == Most(c.hold, ProfileHold)
  <1>1. c.bitrate \in 10..200 /\ c.hold \in 0..ProfileHold
    BY DEF Controls
  <1>2. b \in 10..200 /\ b <= c.bitrate
    BY <1>1 DEF Most, MinBitrate
  <1>3. h \in 0..ProfileHold
    BY <1>1 DEF Most, ProfileHold
  <1>4. Lowered(c, percent) = [c EXCEPT !.stable = 0, !.hold = h, !.bitrate = b]
    BY DEF Lowered
  <1> HIDE DEF b, h
  <1>5. 0 \in 0..StableBeforeIncrease
    BY DEF StableBeforeIncrease
  <1>6. [c EXCEPT !.stable = 0, !.hold = h, !.bitrate = b] \in Controls
    BY <1>2, <1>3, <1>5 DEF Controls
  <1> QED BY <1>2, <1>4, <1>6 DEF Controls

\* The bitrate rises only at the fifth of the reports counted, which starts anew.
LEMMA RaisedFacts ==
    ASSUME NEW c \in Controls, c.bitrate <= c.max
    PROVE  /\ Raised(c) \in Controls
           /\ Raised(c).max = c.max /\ Raised(c).samples = c.samples
           /\ Raised(c).bitrate <= c.max /\ Raised(c).stable <= c.stable + 1
           /\ Raised(c).bitrate > c.bitrate => c.stable >= 4 /\ Raised(c).stable = 0
  <1> DEFINE h == Most(c.hold - 1, 0)
             n == Least(c.stable + 1, StableBeforeIncrease)
             b == Least(c.bitrate + Increase(c.bitrate), c.max)
             counted == [c EXCEPT !.hold = h, !.stable = n]
  <1>1. /\ c.bitrate \in 10..200 /\ c.hold \in 0..ProfileHold
        /\ c.stable \in 0..StableBeforeIncrease /\ c.max \in 10..200
    BY DEF Controls
  <1>2. h \in 0..ProfileHold
    BY <1>1 DEF Most, ProfileHold
  <1>3. n \in 0..StableBeforeIncrease /\ n <= c.stable + 1 /\ (n = 5 => c.stable >= 4)
    BY <1>1 DEF Least, StableBeforeIncrease
  <1>4. b \in 10..200 /\ b <= c.max
    <2>1. Increase(c.bitrate) \in Nat
      BY <1>1 DEF Increase, Most
    <2>2. c.bitrate + Increase(c.bitrate) \in Nat /\ c.bitrate + Increase(c.bitrate) >= 10
      BY <1>1, <2>1
    <2>3. (b = c.bitrate + Increase(c.bitrate) /\ b < c.max) \/ b = c.max
      BY <1>1, <2>2 DEF Least
    <2> HIDE DEF b
    <2> QED BY <1>1, <2>2, <2>3
  <1> HIDE DEF h, n, b
  <1>5. counted \in Controls /\ counted = [c EXCEPT !.hold = h, !.stable = n]
    BY <1>2, <1>3 DEF Controls
  <1>6. CASE n = StableBeforeIncrease /\ c.bitrate < c.max
    <2>1. Raised(c) = [counted EXCEPT !.stable = 0, !.bitrate = b]
      BY <1>6, <1>5 DEF Raised, h, n, b, Controls
    <2>2. 0 \in 0..StableBeforeIncrease /\ StableBeforeIncrease = 5
      BY DEF StableBeforeIncrease
    <2>3. [counted EXCEPT !.stable = 0, !.bitrate = b] \in Controls
      BY <1>4, <1>5, <2>2 DEF Controls
    <2>4. /\ Raised(c).max = c.max /\ Raised(c).samples = c.samples
          /\ Raised(c).bitrate = b /\ Raised(c).stable = 0
      BY <2>1, <1>5 DEF Controls
    <2> QED BY <2>1, <2>2, <2>3, <2>4, <1>1, <1>3, <1>4, <1>6
  <1>7. CASE ~(n = StableBeforeIncrease /\ c.bitrate < c.max)
    <2>1. Raised(c) = counted
      BY <1>7, <1>5 DEF Raised, h, n, b, Controls
    <2>2. /\ Raised(c).max = c.max /\ Raised(c).samples = c.samples
          /\ Raised(c).bitrate = c.bitrate /\ Raised(c).stable = n
      BY <2>1, <1>5 DEF Controls
    <2> QED BY <2>1, <2>2, <1>1, <1>3, <1>5
  <1> QED BY <1>6, <1>7

\* What an update of the controller keeps, and when it lets the bitrate rise.
LEMMA UpdatedFacts ==
    ASSUME ControlType, NEW report \in Reports, NEW delta
    PROVE  LET next == Updated(control, report, delta)
               bad == Immediate(report, delta) \/ report.fallbacks >= 2
           IN  /\ next \in Controls /\ Len(next.samples) <= WindowSize
               /\ next.max = control.max /\ next.bitrate <= next.max
               /\ mode = "off" => next.bitrate = control.bitrate /\ next.stable = control.stable
               /\ next.stable <= control.stable + 1
               /\ mode # "off" /\ bad => next.stable = 0
               /\ next.bitrate > control.bitrate => ~bad /\ control.stable >= 4 /\ next.stable = 0
  <1> DEFINE kept == IF Len(control.samples) < WindowSize THEN control.samples
                     ELSE Tail(control.samples)
             samples == Append(kept, report)
             state == Judged(samples, report, delta)
             c == [control EXCEPT !.samples = samples]
             moved == Moved(c, state)
             next == [moved EXCEPT !.state = state]
             final == [next EXCEPT !.profile = Profile(next)]
             bad == Immediate(report, delta) \/ report.fallbacks >= 2
  <1>1. samples \in Seq(Reports) /\ Len(samples) <= WindowSize
    <2>1. control.samples \in Seq(Reports) /\ Len(control.samples) <= WindowSize
      BY DEF ControlType, Controls
    <2>2. kept \in Seq(Reports) /\ Len(kept) < WindowSize
      BY <2>1 DEF WindowSize
    <2> HIDE DEF kept
    <2> QED BY <2>2 DEF WindowSize
  <1>2. state \in States /\ (bad => state # "stable")
    BY DEF Judged, States, Strained
  <1> HIDE DEF samples, state
  <1>3. /\ c \in Controls /\ c.samples = samples
        /\ c.bitrate = control.bitrate /\ c.max = control.max /\ c.stable = control.stable
    BY <1>1 DEF ControlType, Controls
  <1>4. control.bitrate \in 10..200 /\ control.stable \in 0..5 /\ control.bitrate <= control.max
    BY DEF ControlType, Controls, StableBeforeIncrease
  <1> HIDE DEF c, bad
  <1>5. /\ moved \in Controls /\ moved.samples = samples
        /\ moved.max = control.max /\ moved.bitrate <= control.max
        /\ moved.stable <= control.stable + 1
        /\ bad => moved.stable = 0
        /\ moved.bitrate > control.bitrate => ~bad /\ control.stable >= 4 /\ moved.stable = 0
    <2>1. CASE state = "recovery"
      <3>1. moved = Lowered(c, 80)
        BY <2>1 DEF Moved
      <3> HIDE DEF moved
      <3>2. c.bitrate <= c.max
        BY <1>3, <1>4
      <3>3. /\ moved \in Controls /\ moved.samples = samples
            /\ moved.max = control.max /\ moved.bitrate <= control.bitrate
            /\ moved.stable = 0
        BY <3>1, <3>2, <1>3, LoweredFacts
      <3> DEFINE to == moved.bitrate  from == control.bitrate
      <3>4. to \in 10..200 /\ to <= from /\ from \in 10..200 /\ from <= control.max
        BY <3>3, <1>4 DEF Controls
      <3>5. to <= control.max /\ ~(to > from)
        <4> HIDE DEF to, from
        <4>1. control.max \in 10..200
          BY DEF ControlType, Controls
        <4> QED BY <3>4, <4>1
      <3>6. moved.stable <= control.stable + 1
        BY <3>3, <1>4
      <3> QED BY <3>3, <3>5, <3>6
    <2>2. CASE state = "constrained"
      <3>1. moved = Lowered(c, 90)
        BY <2>2 DEF Moved
      <3> HIDE DEF moved
      <3>2. c.bitrate <= c.max
        BY <1>3, <1>4
      <3>3. /\ moved \in Controls /\ moved.samples = samples
            /\ moved.max = control.max /\ moved.bitrate <= control.bitrate
            /\ moved.stable = 0
        BY <3>1, <3>2, <1>3, LoweredFacts
      <3> DEFINE to == moved.bitrate  from == control.bitrate
      <3>4. to \in 10..200 /\ to <= from /\ from \in 10..200 /\ from <= control.max
        BY <3>3, <1>4 DEF Controls
      <3>5. to <= control.max /\ ~(to > from)
        <4> HIDE DEF to, from
        <4>1. control.max \in 10..200
          BY DEF ControlType, Controls
        <4> QED BY <3>4, <4>1
      <3>6. moved.stable <= control.stable + 1
        BY <3>3, <1>4
      <3> QED BY <3>3, <3>5, <3>6
    <2>3. CASE state = "stable"
      <3>1. moved = Raised(c) /\ ~bad
        BY <2>3, <1>2 DEF Moved
      <3> HIDE DEF moved
      <3> QED BY <3>1, <1>3, <1>4, RaisedFacts
    <2> QED BY <2>1, <2>2, <2>3, <1>2 DEF States
  <1> HIDE DEF moved
  <1>6. /\ next \in Controls /\ next.samples = moved.samples /\ next.max = moved.max
        /\ next.bitrate = moved.bitrate /\ next.stable = moved.stable
    BY <1>2, <1>5 DEF Controls
  <1> HIDE DEF next
  <1>7. Profile(next) \in Profiles
    <2>1. next.state \in States
      BY <1>6 DEF Controls
    <2> QED BY <2>1 DEF Profile, Profiles, States
  <1>8. /\ final \in Controls /\ final.samples = samples /\ final.max = control.max
        /\ final.bitrate = moved.bitrate /\ final.stable = moved.stable
    BY <1>5, <1>6, <1>7 DEF Controls
  <1> HIDE DEF final
  <1>9. CASE mode = "off"
    <2>1. Updated(control, report, delta) = [control EXCEPT !.state = "stable"]
      BY <1>9 DEF Updated
    <2>2. /\ [control EXCEPT !.state = "stable"] \in Controls
          /\ [control EXCEPT !.state = "stable"].samples = control.samples
          /\ [control EXCEPT !.state = "stable"].max = control.max
          /\ [control EXCEPT !.state = "stable"].bitrate = control.bitrate
          /\ [control EXCEPT !.state = "stable"].stable = control.stable
      BY DEF ControlType, Controls, States
    <2>3. LET off == Updated(control, report, delta)
          IN  /\ off \in Controls /\ Len(off.samples) <= WindowSize
              /\ off.max = control.max /\ off.bitrate = control.bitrate
              /\ off.bitrate <= off.max /\ off.stable = control.stable
      BY <2>1, <2>2 DEF ControlType
    <2>4. /\ control.stable <= control.stable + 1
          /\ ~(control.bitrate > control.bitrate)
      BY <1>4
    <2> QED BY <2>3, <2>4, <1>9
  <1>10. CASE mode # "off"
    <2>1. Updated(control, report, delta) = final
      BY <1>10 DEF Updated, final, next, moved, c, state, samples
    <2> QED BY <2>1, <1>1, <1>5, <1>8, <1>10 DEF bad
  <1> QED BY <1>9, <1>10

\* The scale a report asks for is within the bounds of the configuration.
LEMMA ProfileScaleType ==
    ASSUME NEW profile
    PROVE  ProfileScale(profile) \in 25..100
  <1>1. ConfigScale \in 25..100 /\ MinScale \in 25..100
    BY BitrateAssumption
  <1> QED BY <1>1 DEF ProfileScale, Most, Least

\* Differences and increments of totals that wrap.
LEMMA WrapFacts ==
    ASSUME NEW a \in 0..Wrap - 1, NEW b \in 0..Wrap - 1
    PROVE  /\ (a - b) % Wrap = IF b <= a THEN a - b ELSE a - b + Wrap
           /\ (a + 1) % Wrap = IF a + 1 = Wrap THEN 0 ELSE a + 1
  <1> USE TotalsAssumption
  <1>1. Wrap \in Nat \ {0}
    OBVIOUS
  <1> QED BY <1>1

-----------------------------------------------------------------------------
(* Every part of IInv is kept by every step.                              *)

LEMMA FreshType ==
    ASSUME NEW bitrate \in 1..200
    PROVE  /\ Fresh(bitrate) \in Controls
           /\ Fresh(bitrate).bitrate = Fresh(bitrate).max
           /\ Fresh(bitrate).max = Most(bitrate, MinBitrate)
           /\ Fresh(bitrate).stable = 0 /\ Fresh(bitrate).samples = <<>>
  <1> DEFINE m == Most(bitrate, MinBitrate)
  <1>1. m \in 10..200
    BY DEF Most, MinBitrate
  <1>2. 0 \in 0..StableBeforeIncrease /\ 0 \in 0..ProfileHold /\ <<>> \in Seq(Reports)
    BY DEF StableBeforeIncrease, ProfileHold
  <1> HIDE DEF m
  <1> QED BY <1>1, <1>2 DEF Fresh, Controls, States, Profiles, m

\* The bitrate a session starts with.
LEMMA StartBitrate ==
    ASSUME NEW max \in Ceilings
    PROVE  (IF max = 0 THEN ConfigBitrate ELSE Least(ConfigBitrate, max)) \in 1..200
  <1>1. ConfigBitrate \in 1..200 /\ max \in 0..200
    BY BitrateAssumption
  <1> QED BY <1>1 DEF Least

LEMMA NextControlType ==
    ASSUME IInv, [Next]_vars
    PROVE  ControlType'
  <1> USE DEF IInv
  <1>1. ASSUME NEW t \in Threads, NEW max \in Ceilings, NEW r \in BOOLEAN, Connect(t, max, r)
        PROVE  ControlType'
    <2>1. PICK bitrate \in 1..200 : control' = Fresh(bitrate)
      BY <1>1, StartBitrate DEF Connect
    <2>2. control'.bitrate = control'.max /\ control'.max \in 10..200
      BY <2>1, FreshType DEF Controls
    <2>3. control'.bitrate <= control'.max
      BY <2>2
    <2>4. control' \in Controls
      BY <2>1, FreshType
    <2>5. Len(control'.samples) <= WindowSize
      <3>1. control'.samples = <<>>
        BY <2>1, FreshType
      <3> QED BY <3>1 DEF WindowSize
    <2> QED BY <2>3, <2>4, <2>5 DEF ControlType
  <1>2. ASSUME NEW t \in Threads, NEW report \in Reports, Report(t, report)
        PROVE  ControlType'
    <2>1. control' = Updated(control, report, [k \in Totals |-> (total[k] - last[k]) % Wrap])
      BY <1>2 DEF Report
    <2> QED BY <2>1, UpdatedFacts DEF ControlType
  <1>3. CASE UNCHANGED control
    BY <1>3 DEF ControlType
  <1> QED
    BY <1>1, <1>2, <1>3 DEF Next, vars, Disconnect, Trouble, Finish, Acknowledge

LEMMA NextSessionType ==
    ASSUME IInv, [Next]_vars
    PROVE  SessionType'
  <1> USE DEF IInv, SessionType
  <1>1. ASSUME NEW t \in Threads, NEW max \in Ceilings, NEW r \in BOOLEAN, Connect(t, max, r)
        PROVE  SessionType'
    <2>1. PICK bitrate \in 1..200 :
              ceiling' = bitrate /\ current' = bitrate /\ encoder' \in {bitrate, None}
      BY <1>1, StartBitrate DEF Connect
    <2>2. encoder' \in 0..200
      BY <2>1 DEF None
    <2>3. mode' = mode /\ client' \in {client, t}
      BY <1>1 DEF Connect
    <2>4. live' \in BOOLEAN
      BY <1>1, Zenon DEF Connect
    <2> QED BY <2>1, <2>2, <2>3, <2>4
  <1>2. ASSUME NEW t \in Threads, NEW report \in Reports, Report(t, report)
        PROVE  SessionType'
    <2>1. control' \in Controls
      BY NextControlType DEF ControlType
    <2>2. control'.bitrate \in 1..200
      BY <2>1 DEF Controls
    <2>3. current' \in {current, control'.bitrate}
      BY <1>2 DEF Report
    <2> QED BY <1>2, <2>2, <2>3 DEF Report
  <1>3. ASSUME NEW t \in Threads, Finish(t)
        PROVE  SessionType'
    <2>1. encoder' \in {encoder, due[t].bitrate}
      BY <1>3 DEF Finish
    <2>2. due[t].bitrate \in 0..200
      BY DEF WorkType
    <2> QED BY <1>3, <2>1, <2>2 DEF Finish
  <1>4. CASE Disconnect
    <2>1. encoder' \in 0..200
      BY <1>4 DEF Disconnect, None
    <2> QED BY <1>4, <2>1 DEF Disconnect
  <1>5. CASE Acknowledge
    BY <1>5 DEF Acknowledge
  <1>6. CASE UNCHANGED vars \/ \E k \in Totals : Trouble(k)
    BY <1>6 DEF vars, Trouble
  <1> QED
    BY <1>1, <1>2, <1>3, <1>4, <1>5, <1>6 DEF Next

LEMMA NextWorkType ==
    ASSUME IInv, [Next]_vars
    PROVE  WorkType'
  <1> USE DEF IInv
  <1> DEFINE Dues == [bitrate : 0..200, scale : {None} \cup 25..100]
  <1>a. NoWork \in Dues
    BY DEF NoWork, None
  <1>1. ASSUME NEW t \in Threads, NEW report \in Reports, Report(t, report)
        PROVE  WorkType'
    <2>1. PICK b, s : /\ due' = [due EXCEPT ![t] = [bitrate |-> b, scale |-> s]]
                      /\ b \in {control'.bitrate, None}
                      /\ s = ConfigScale \/ \E p : s = ProfileScale(p)
      BY <1>1 DEF Report
    <2>2. b \in 0..200
      <3>1. control'.bitrate \in 10..200
        BY NextControlType DEF ControlType, Controls
      <3> QED BY <2>1, <3>1 DEF None
    <2>3. s \in 25..100 /\ s # None
      BY <2>1, ProfileScaleType, BitrateAssumption DEF None
    <2>4. due' \in [Threads -> Dues]
      BY <2>1, <2>2, <2>3 DEF WorkType
    <2>5. \A u \in Threads : due'[u].scale = None => due'[u] = NoWork
      BY <2>1, <2>3 DEF WorkType
    <2>6. UNCHANGED <<scale, pending>>
      BY <1>1 DEF Report
    <2> QED BY <2>4, <2>5, <2>6 DEF WorkType
  <1>2. ASSUME NEW t \in Threads, Finish(t)
        PROVE  WorkType'
    <2>1. due' = [due EXCEPT ![t] = NoWork]
      BY <1>2 DEF Finish
    <2>2. due' \in [Threads -> Dues] /\ \A u \in Threads : due'[u].scale = None => due'[u] = NoWork
      BY <2>1, <1>a DEF WorkType
    <2>3. due[t].scale \in 25..100
      BY <1>2 DEF Finish, Idle, WorkType
    <2>4. scale' \in {scale, due[t].scale} /\ pending' \in {pending, None, due[t].scale}
      BY <1>2 DEF Finish, Reconfigure
    <2> QED BY <2>2, <2>3, <2>4 DEF WorkType
  <1>3. CASE Acknowledge
    BY <1>3 DEF Acknowledge, WorkType
  <1>4. CASE Disconnect
    BY <1>4 DEF Disconnect, WorkType
  <1>5. CASE UNCHANGED <<due, scale, pending>>
    BY <1>5 DEF WorkType
  <1> QED
    BY <1>1, <1>2, <1>3, <1>4, <1>5 DEF Next, vars, Connect, Trouble

LEMMA NextTotalType ==
    ASSUME IInv, [Next]_vars
    PROVE  TotalType'
  <1> USE TotalsAssumption DEF IInv
  <1>a. 0 \in 0..Wrap - 1 /\ 0 \in 0..5
    OBVIOUS
  <1>1. ASSUME NEW k \in Totals, Trouble(k)
        PROVE  TotalType'
    <2>1. (total[k] + 1) % Wrap \in 0..Wrap - 1
      BY WrapFacts DEF TotalType
    <2>2. total' \in [Totals -> 0..Wrap - 1] /\ last' \in [Totals -> 0..Wrap - 1]
      BY <1>1, <2>1 DEF Trouble, TotalType
    <2>3. events' \in 0..MaxEvents /\ quiet' \in 0..5
      BY <1>1 DEF Trouble, TotalType
    <2>4. unseen' \in [Totals -> Nat] /\ \A j \in Totals : unseen'[j] <= events'
      BY <1>1 DEF Trouble, TotalType
    <2> QED BY <2>2, <2>3, <2>4 DEF TotalType
  <1>2. ASSUME NEW t \in Threads, NEW report \in Reports, Report(t, report)
        PROVE  TotalType'
    <2>1. last' = total /\ total' = total /\ unseen' = [k \in Totals |-> 0] /\ events' = events
      BY <1>2 DEF Report
    <2>2. quiet' \in {0, Least(quiet + 1, 5)}
      BY <1>2 DEF Report
    <2>3. quiet' \in 0..5
      BY <2>2 DEF TotalType, Least
    <2> QED BY <2>1, <2>3 DEF TotalType
  <1>3. ASSUME NEW t \in Threads, NEW max \in Ceilings, NEW r \in BOOLEAN, Connect(t, max, r)
        PROVE  TotalType'
    BY <1>3, <1>a DEF Connect, ResetTotals, TotalType
  <1>4. CASE Disconnect
    <2>1. total' \in [Totals -> 0..Wrap - 1] /\ last' \in [Totals -> 0..Wrap - 1]
      BY <1>4, <1>a DEF Disconnect, TotalType
    <2>2. unseen' = [k \in Totals |-> 0] /\ events' = events /\ quiet' = 0
      BY <1>4 DEF Disconnect
    <2> QED BY <1>a, <2>1, <2>2 DEF TotalType
  <1>5. CASE UNCHANGED <<total, last, unseen, events, quiet>>
    BY <1>5 DEF TotalType
  <1> QED
    BY <1>1, <1>2, <1>3, <1>4, <1>5 DEF Next, vars, Finish, Acknowledge

LEMMA NextMissed ==
    ASSUME IInv, [Next]_vars
    PROVE  NothingMissed'
  <1> USE TotalsAssumption DEF IInv, NothingMissed
  <1>1. ASSUME NEW k \in Totals, Trouble(k)
        PROVE  NothingMissed'
    <2> SUFFICES ASSUME NEW j \in Totals
                 PROVE  (total'[j] - last'[j]) % Wrap = unseen'[j]
      OBVIOUS
    <2>1. /\ last' = last /\ client # "none"
          /\ total'[j] = IF j = k THEN (total[j] + 1) % Wrap ELSE total[j]
          /\ unseen'[j] = IF j = k THEN unseen[j] + 1 ELSE unseen[j]
      BY <1>1 DEF Trouble, TotalType
    <2>2. unseen[j] + 1 < Wrap
      BY <1>1 DEF Trouble, TotalType
    <2>3. total[j] \in 0..Wrap - 1 /\ last[j] \in 0..Wrap - 1 /\ unseen[j] \in Nat
      BY DEF TotalType
    <2>4. (total[j] - last[j]) % Wrap = unseen[j]
      BY <2>1
    <2>5. unseen[j] = IF last[j] <= total[j] THEN total[j] - last[j]
                      ELSE total[j] - last[j] + Wrap
      BY <2>3, <2>4, WrapFacts
    <2> DEFINE next == IF total[j] + 1 = Wrap THEN 0 ELSE total[j] + 1
    <2>6. next = (total[j] + 1) % Wrap
      BY <2>3, WrapFacts
    <2>7. next \in 0..Wrap - 1
      BY <2>3
    <2>8. (next - last[j]) % Wrap = IF last[j] <= next THEN next - last[j]
                                    ELSE next - last[j] + Wrap
      <3> HIDE DEF next
      <3> QED BY <2>3, <2>7, WrapFacts
    <2>9. (next - last[j]) % Wrap = unseen[j] + 1
      BY <2>2, <2>3, <2>5, <2>8
    <2> QED BY <2>1, <2>4, <2>6, <2>9
  <1>2. ASSUME NEW t \in Threads, NEW report \in Reports, Report(t, report)
        PROVE  NothingMissed'
    <2>1. last' = total /\ total' = total /\ unseen' = [k \in Totals |-> 0]
      BY <1>2 DEF Report
    <2>2. \A k \in Totals : (total[k] - total[k]) % Wrap = 0
      BY WrapFacts DEF TotalType
    <2> QED BY <2>1, <2>2
  <1>3. ASSUME NEW t \in Threads, NEW max \in Ceilings, NEW r \in BOOLEAN, Connect(t, max, r)
        PROVE  NothingMissed'
    <2>1. (0 - 0) % Wrap = 0
      OBVIOUS
    <2> QED BY <1>3, <2>1 DEF Connect, ResetTotals
  <1>4. CASE Disconnect
    BY <1>4 DEF Disconnect
  <1>5. CASE UNCHANGED <<total, last, unseen, client>>
    BY <1>5
  <1> QED
    BY <1>1, <1>2, <1>3, <1>4, <1>5 DEF Next, vars, Finish, Acknowledge

\* What a report finds in the totals of a session is what was counted.
LEMMA DeltaIsUnseen ==
    ASSUME IInv, client # "none"
    PROVE  [k \in Totals |-> (total[k] - last[k]) % Wrap] = unseen
  BY DEF IInv, NothingMissed, TotalType

\* Trouble of the server's own is trouble of the next report.
LEMMA CountedIsBad ==
    ASSUME Counted, NEW report
    PROVE  Immediate(report, unseen)
  BY DEF Counted, Immediate

LEMMA NextSteady ==
    ASSUME IInv, [Next]_vars
    PROVE  Steady'
  <1> USE DEF IInv, Steady
  <1>0. control.stable \in 0..5 /\ quiet \in 0..5
    BY DEF ControlType, Controls, TotalType, StableBeforeIncrease
  <1>1. ASSUME NEW t \in Threads, NEW report \in Reports, Report(t, report)
        PROVE  Steady'
    <2> DEFINE delta == [k \in Totals |-> (total[k] - last[k]) % Wrap]
               next == Updated(control, report, delta)
               bad == Immediate(report, unseen) \/ report.fallbacks >= 2
    <2>1. /\ control' = next /\ mode' = mode /\ client' = client
          /\ quiet' = IF bad \/ next.bitrate > control.bitrate THEN 0 ELSE Least(quiet + 1, 5)
      BY <1>1 DEF Report
    <2>2. mode = "off" => control'.stable = 0
      BY <2>1, UpdatedFacts
    <2>3. ASSUME client # "none", mode # "off"
          PROVE  control'.stable <= quiet'
      <3>1. delta = unseen
        BY <2>3, DeltaIsUnseen
      <3> HIDE DEF delta, next, bad
      <3>2. CASE bad
        <4>1. control'.stable = 0
          BY <2>1, <2>3, <3>1, <3>2, UpdatedFacts DEF next, bad
        <4> QED BY <4>1, <2>1, <3>2
      <3>3. CASE next.bitrate > control.bitrate
        <4>1. control'.stable = 0
          BY <2>1, <3>3, UpdatedFacts DEF next
        <4> QED BY <4>1, <2>1, <3>3
      <3>4. CASE ~bad /\ ~(next.bitrate > control.bitrate)
        <4>1. ~Counted
          BY <3>4, CountedIsBad DEF bad
        <4>2. control.stable <= quiet
          BY <4>1, <2>3
        <4>3. control'.stable <= control.stable + 1
          BY <2>1, UpdatedFacts DEF next
        <4>4. control'.stable \in 0..5
          BY NextControlType DEF ControlType, Controls, StableBeforeIncrease
        <4>5. quiet' = Least(quiet + 1, 5)
          BY <2>1, <3>4
        <4> QED BY <4>2, <4>3, <4>4, <4>5, <1>0 DEF Least
      <3> QED BY <3>2, <3>3, <3>4
    <2>4. mode = "off" => control'.stable <= quiet'
      <3>1. quiet' \in 0..5
        BY NextTotalType DEF TotalType
      <3> QED BY <2>2, <3>1
    <2> QED BY <2>1, <2>2, <2>3, <2>4
  <1>2. ASSUME NEW k \in Totals, Trouble(k)
        PROVE  Steady'
    <2>1. control' = control /\ mode' = mode /\ client' = client /\ client # "none"
      BY <1>2 DEF Trouble
    <2>2. \A j \in Totals : unseen[j] \in Nat /\ unseen'[j] \in {unseen[j], unseen[j] + 1}
      BY <1>2 DEF Trouble, TotalType
    <2>3. Counted => Counted'
      <3>1. ASSUME NEW j \in Totals, NEW n \in Nat, unseen[j] > n
            PROVE  unseen'[j] > n
        BY <2>2, <3>1
      <3> QED BY <3>1 DEF Counted, Totals
    <2>4. quiet' = quiet \/ Counted'
      <3>1. CASE k = "send" /\ unseen[k] = 0
        BY <1>2, <3>1 DEF Trouble
      <3>2. CASE k = "send" /\ unseen[k] # 0
        <4>1. unseen'["send"] = unseen["send"] + 1 /\ unseen["send"] \in Nat /\ unseen["send"] # 0
          BY <1>2, <3>2 DEF Trouble, TotalType
        <4> QED BY <4>1 DEF Counted
      <3>3. CASE k \in {"keyframe", "encoder"}
        <4>1. unseen'[k] = unseen[k] + 1 /\ unseen[k] \in Nat
          BY <1>2 DEF Trouble, TotalType
        <4> QED BY <3>3, <4>1 DEF Counted
      <3> QED BY <3>1, <3>2, <3>3 DEF Totals
    <2> QED BY <2>1, <2>3, <2>4
  <1>3. ASSUME NEW t \in Threads, NEW max \in Ceilings, NEW r \in BOOLEAN, Connect(t, max, r)
        PROVE  Steady'
    <2>1. control'.stable = 0 /\ quiet' = 0
      BY <1>3, StartBitrate, FreshType DEF Connect
    <2> QED BY <2>1
  <1>4. CASE Disconnect
    BY <1>4 DEF Disconnect
  <1>5. CASE UNCHANGED <<control, mode, client, quiet, unseen>>
    BY <1>5 DEF Counted
  <1> QED
    BY <1>1, <1>2, <1>3, <1>4, <1>5 DEF Next, vars, Finish, Acknowledge

-----------------------------------------------------------------------------
THEOREM Invariance == Spec => []IInv
  <1>1. Init => IInv
    <2> SUFFICES ASSUME Init PROVE IInv
      OBVIOUS
    <2>1. ControlType
      <3>1. /\ Fresh(50) \in Controls /\ Fresh(50).max = 50
            /\ Fresh(50).stable = 0 /\ Fresh(50).samples = <<>>
        BY FreshType DEF Most, MinBitrate
      <3>2. /\ control \in Controls /\ control.max = 50 /\ control.bitrate = 50
            /\ control.samples = <<>>
        BY <3>1 DEF Init, Controls
      <3>3. control.bitrate <= control.max /\ Len(control.samples) <= WindowSize
        BY <3>2 DEF WindowSize
      <3> QED BY <3>2, <3>3 DEF ControlType
    <2>2. SessionType
      <3>1. mode \in Modes /\ client \in Threads \cup {"none"} /\ live \in BOOLEAN
        BY DEF Init
      <3>2. ceiling \in 1..200 /\ current \in 1..200 /\ encoder \in 0..200
        BY DEF Init, None
      <3> QED BY <3>1, <3>2 DEF SessionType
    <2>3. TotalType
      BY TotalsAssumption DEF Init, TotalType
    <2>4. WorkType
      BY BitrateAssumption DEF Init, WorkType, NoWork, None
    <2>5. NothingMissed
      BY DEF Init, NothingMissed
    <2>6. Steady
      <3>1. Fresh(50) \in Controls /\ Fresh(50).stable = 0
        BY FreshType
      <3>2. control = [Fresh(50) EXCEPT !.bitrate = 50]
        BY DEF Init
      <3>3. control.stable = 0
        BY <3>1, <3>2 DEF Controls
      <3> QED BY <3>3 DEF Init, Steady
    <2> QED BY <2>1, <2>2, <2>3, <2>4, <2>5, <2>6 DEF IInv
  <1>2. IInv /\ [Next]_vars => IInv'
    BY NextControlType, NextSessionType, NextTotalType, NextWorkType, NextMissed, NextSteady
       DEF IInv
  <1> QED BY <1>1, <1>2, PTL DEF Spec

\* The difference a latency report takes of the totals is what was counted since
\* the session's last report, although the totals wrap, a disconnection resets
\* some of them and not others, and reports come on two threads.
THEOREM BitrateIsSafe == Spec => []BitrateSafe
  <1>1. IInv => BitrateSafe
    <2> SUFFICES ASSUME IInv PROVE BitrateSafe
      OBVIOUS
    <2>1. /\ control.max \in 10..200 /\ control.bitrate \in 10..control.max
          /\ control.stable \in 0..StableBeforeIncrease /\ control.hold \in 0..ProfileHold
          /\ Len(control.samples) <= WindowSize
      <3>1. control \in Controls /\ control.bitrate <= control.max
            /\ Len(control.samples) <= WindowSize
        BY DEF IInv, ControlType
      <3>2. /\ control.max \in 10..200 /\ control.bitrate \in 10..200
            /\ control.stable \in 0..StableBeforeIncrease /\ control.hold \in 0..ProfileHold
        BY <3>1 DEF Controls
      <3> DEFINE rate == control.bitrate  top == control.max
      <3>3. rate \in 10..top
        <4>1. rate \in 10..200 /\ top \in 10..200 /\ rate <= top
          BY <3>1, <3>2
        <4> HIDE DEF rate, top
        <4> QED BY <4>1
      <3> QED BY <3>1, <3>2, <3>3
    <2>2. scale \in 25..100 /\ pending \in 0..100
      BY DEF IInv, WorkType, None
    <2> QED BY <2>1, <2>2 DEF IInv, BitrateSafe, TypeOK, SessionType, TotalType
  <1> QED BY <1>1, Invariance, PTL

\* The bitrate of a session rises only at the fifth of five reports in a row without
\* trouble of their own or of the server's queues, also when reports of no session,
\* or of an earlier one, come in between (StreamingAbr.h, Controller::Update).
THEOREM BitrateRisesSlowly == Spec => RisesSlowly
  <1>1. ASSUME IInv, [Next]_vars, client # "none", sessions' = sessions,
               control'.bitrate > control.bitrate
        PROVE  quiet >= 4 /\ \A k \in Totals \ {"send"} : unseen[k] = 0
    <2> USE <1>1 DEF IInv
    <2>0. control.bitrate \in 10..200
      BY DEF ControlType, Controls
    <2>1. ~(control.bitrate > control.bitrate)
      BY <2>0
    <2>2. ~UNCHANGED control
      BY <2>1
    <2>3. ASSUME NEW t \in Threads, NEW max \in Ceilings, NEW r \in BOOLEAN, Connect(t, max, r)
          PROVE  FALSE
      BY <2>3 DEF Connect
    <2>4. PICK t \in Threads, report \in Reports : Report(t, report)
      BY <2>2, <2>3 DEF Next, vars, Disconnect, Trouble, Finish, Acknowledge
    <2>5. control' = Updated(control, report, unseen)
      BY <2>4, DeltaIsUnseen DEF Report
    <2>6. ~Immediate(report, unseen) /\ control.stable >= 4
      BY <2>5, UpdatedFacts
    <2>7. control.stable <= quiet
      BY <2>6, CountedIsBad DEF Steady
    <2>8. control.stable \in 0..5 /\ quiet \in 0..5
      BY DEF ControlType, Controls, TotalType, StableBeforeIncrease
    <2>9. quiet >= 4
      BY <2>6, <2>7, <2>8
    <2>10. ASSUME NEW k \in {"keyframe", "encoder"}
           PROVE  unseen[k] = 0
      <3>1. unseen[k] \in Nat /\ ~(unseen[k] > 0)
        BY <2>6 DEF Immediate, TotalType, Totals
      <3> QED BY <3>1
    <2> QED BY <2>9, <2>10 DEF Totals
  <1>2. IInv /\ [Next]_vars =>
          [(client # "none" /\ sessions' = sessions /\ control'.bitrate > control.bitrate)
             => quiet >= 4 /\ \A k \in Totals \ {"send"} : unseen[k] = 0]_vars
    BY <1>1
  <1> QED BY <1>2, Invariance, PTL DEF Spec, RisesSlowly

-----------------------------------------------------------------------------
(* The encoder's bitrate, outside the two timing windows.                  *)

LEMMA NextFollowing ==
    ASSUME Windows = {}, IInv, Following, [Next]_vars
    PROVE  Following'
  <1> USE DEF IInv, Following
  <1>1. ASSUME NEW t \in Threads, NEW max \in Ceilings, NEW r \in BOOLEAN, Connect(t, max, r)
        PROVE  Following'
    <2>1. PICK bitrate \in 1..200 :
            /\ ceiling' = bitrate /\ current' = bitrate /\ control' = Fresh(bitrate)
            /\ client' \in {t, "none"} /\ (client' = t => encoder' = bitrate)
      BY <1>1, StartBitrate DEF Connect, Threads
    <2>2. due' = due /\ \A other \in Threads : Idle(other)
      BY <1>1 DEF Connect
    <2>3. SUFFICES ASSUME client' = t
                   PROVE  Following'
      BY <2>1
    <2>4. control'.max = Most(bitrate, MinBitrate) /\ control'.bitrate = control'.max
      BY <2>1, FreshType
    <2>5. bitrate = Least(control'.bitrate, bitrate)
      BY <2>4 DEF Least, Most, MinBitrate
    <2>6. due'[t].bitrate = None /\ \A u \in Threads : Idle(u)'
      BY <2>2 DEF Idle, NoWork
    <2>7. encoder' = bitrate /\ bitrate # None
      BY <2>1, <2>3 DEF None
    <2> QED BY <2>1, <2>3, <2>4, <2>5, <2>6, <2>7
  <1>2. ASSUME NEW t \in Threads, NEW report \in Reports, Report(t, report), client # "none"
        PROVE  Following'
    <2>1. t = client /\ client' = client /\ encoder' = encoder /\ ceiling' = ceiling
      BY <1>2 DEF Report, MayCome
    <2> DEFINE next == Updated(control, report, [k \in Totals |-> (total[k] - last[k]) % Wrap])
    <2>2. PICK s : /\ control' = next
                   /\ current' = IF next.bitrate # control.bitrate THEN next.bitrate ELSE current
                   /\ due' = [due EXCEPT ![t] =
                        [bitrate |-> IF next.bitrate # control.bitrate /\ next.bitrate # current
                                     THEN next.bitrate ELSE None,
                         scale |-> s]]
      BY <1>2 DEF Report
    <2>3. next \in Controls /\ next.max = control.max /\ next.bitrate <= next.max
      BY UpdatedFacts
    <2>4. Idle(t) /\ due[t].bitrate = None
      BY <1>2 DEF Report, Idle, NoWork
    <2>5. current = encoder
      BY <2>1, <2>4, <1>2
    <2>6. due'[t].bitrate = IF next.bitrate # control.bitrate /\ next.bitrate # current
                            THEN next.bitrate ELSE None
      BY <2>2 DEF WorkType
    <2>7. IF due'[t].bitrate = None THEN encoder = current' ELSE due'[t].bitrate = current'
      <3>1. next.bitrate # None
        <4>1. next.bitrate \in 10..200
          BY <2>3 DEF Controls
        <4> QED BY <4>1 DEF None
      <3> QED BY <2>2, <2>5, <2>6, <3>1
    <2>8. \A u \in Threads : u # t => Idle(u)'
      BY <2>1, <2>2, <1>2 DEF Idle, WorkType
    <2>9. current' = Least(next.bitrate, ceiling)
      <3> DEFINE old == control.bitrate  new == next.bitrate  top == control.max
      <3>1. /\ old \in 10..200 /\ new \in 10..200 /\ top \in 10..200
            /\ new <= top /\ old <= top /\ ceiling \in 1..200
        BY <2>3 DEF ControlType, Controls, SessionType
      <3>2. top = Most(ceiling, MinBitrate) /\ current = Least(old, ceiling)
        BY <1>2
      <3>3. current' = IF new # old THEN new ELSE current
        BY <2>2
      <3> HIDE DEF old, new, top
      <3>4. new # old => new <= ceiling
        BY <3>1, <3>2 DEF Most, MinBitrate
      <3>5. ASSUME new = old
            PROVE  current' = Least(new, ceiling)
        BY <3>2, <3>3, <3>5
      <3>6. ASSUME new # old
            PROVE  current' = Least(new, ceiling)
        <4>1. current' = new /\ new <= ceiling
          BY <3>3, <3>4, <3>6
        <4> QED BY <3>1, <4>1 DEF Least
      <3>7. current' = Least(new, ceiling)
        BY <3>5, <3>6
      <3> QED BY <3>7 DEF new
    <2> HIDE DEF next
    <2> QED BY <2>1, <2>2, <2>3, <2>7, <2>8, <2>9, <1>2
  <1>3. ASSUME NEW t \in Threads, Finish(t), client # "none"
        PROVE  Following'
    <2>1. t = client
      BY <1>3 DEF Finish
    <2>2. /\ UNCHANGED <<control, client, ceiling, current>>
          /\ encoder' = IF encoder # None /\ due[t].bitrate # None THEN due[t].bitrate ELSE encoder
          /\ due' = [due EXCEPT ![t] = NoWork]
      BY <1>3 DEF Finish
    <2>3. due'[t].bitrate = None /\ \A u \in Threads : u # client => Idle(u)'
      BY <2>1, <2>2, <1>3 DEF Idle, WorkType, NoWork
    <2>4. encoder' = current /\ encoder' # None
      BY <2>1, <2>2, <1>3
    <2> QED BY <2>1, <2>2, <2>3, <2>4, <1>3
  <1>4. CASE Disconnect
    BY <1>4 DEF Disconnect
  <1>5. CASE Acknowledge
    <2>1. UNCHANGED <<control, client, ceiling, current, due>> /\ encoder' \in {encoder, current}
      BY <1>5 DEF Acknowledge
    <2>2. client = "tcp" /\ due["tcp"].bitrate = None
      BY <1>5 DEF Acknowledge, Idle, NoWork
    <2>3. encoder = current
      BY <2>2
    <2> QED BY <2>1, <2>3 DEF Idle
  <1>6. CASE UNCHANGED <<control, client, ceiling, current, encoder, due>>
    BY <1>6 DEF Idle
  <1>7. CASE client = "none" /\ client' = client
    BY <1>7
  <1> QED
    BY <1>1, <1>2, <1>3, <1>4, <1>5, <1>6, <1>7 DEF Next, vars, Trouble, Report, Finish

\* Outside the two timing windows (a report that is not the session's, and a connection
\* that overtakes one in progress) the encoder runs at the bitrate decided on last,
\* after whatever failures, reconfigurations and reconnections.
THEOREM EncoderRateFollows == Windows = {} => (Spec => []EncoderFollows)
  <1> SUFFICES ASSUME Windows = {} PROVE Spec => []EncoderFollows
    OBVIOUS
  <1>1. Init => Following
    BY DEF Init, Following
  <1>2. IInv /\ Following /\ [Next]_vars => Following'
    BY NextFollowing
  <1>3. IInv /\ Following => EncoderFollows
    <2> SUFFICES ASSUME IInv, Following, client # "none", \A t \in Threads : Idle(t)
                 PROVE  /\ encoder = current /\ current <= ceiling
                        /\ ceiling >= MinBitrate => current = control.bitrate
      BY DEF EncoderFollows
    <2>1. encoder = current
      <3>1. due[client].bitrate = None
        BY DEF IInv, SessionType, Idle, NoWork
      <3> QED BY <3>1 DEF Following
    <2> DEFINE rate == control.bitrate  top == control.max
    <2>2. /\ rate \in 10..200 /\ top \in 10..200 /\ rate <= top /\ ceiling \in 1..200
          /\ top = Most(ceiling, MinBitrate) /\ current = Least(rate, ceiling)
      BY DEF IInv, ControlType, Controls, SessionType, Following
    <2> HIDE DEF rate, top
    <2>3. current <= ceiling /\ (ceiling >= MinBitrate => current = rate)
      BY <2>2 DEF Most, Least, MinBitrate
    <2> QED BY <2>1, <2>3 DEF rate
  <1> QED BY <1>1, <1>2, <1>3, Invariance, PTL DEF Spec

=============================================================================
