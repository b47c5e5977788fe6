-------------------------- MODULE MCAdaptiveBitrate --------------------------
(***************************************************************************)
(* Bitrates up to 12, so that a few reports cover the way down to the      *)
(* controller's minimum of 10 and back, and a ceiling below that minimum.  *)
(***************************************************************************)
EXTENDS AdaptiveBitrate

Healthy == [latency |-> 20, age |-> 20, reprojected |-> 0, stale |-> 0, fallbacks |-> 0]
MCReports ==
    {Healthy,
     \* Late: one such report strains the averages of several.
     [Healthy EXCEPT !.latency = 60, !.age = 100]}

\* The smooth scale rounds to the same size as the configured one.
MCEncodedSize == [s \in 25..100 |-> IF s >= 85 THEN 4 ELSE 3]
===============================================================================
