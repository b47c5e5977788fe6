--------------------------- MODULE SessionLifecycle ----------------------------
(***************************************************************************)
(* What an application may see of an OpenXR session: the states named by   *)
(* the events of xrPollEvent, in an order the OpenXR state machine allows. *)
(* XrSession implements it.                                                *)
(***************************************************************************)

VARIABLE state   \* the state of the last XrEventDataSessionStateChanged

States == {"READY", "SYNCHRONIZED", "VISIBLE", "FOCUSED", "STOPPING", "IDLE", "EXITING"}

Move(from, to) == state = from /\ state' = to

\* The session is created, with its first two events queued.
Init == state = "READY"

\* The frame loop brings the session up ...
Up ==
    \/ Move("READY", "SYNCHRONIZED")
    \/ Move("SYNCHRONIZED", "VISIBLE")
    \/ Move("VISIBLE", "FOCUSED")

\* ... an exit request takes it down, one state at a time ...
Down ==
    \/ Move("FOCUSED", "VISIBLE")
    \/ Move("VISIBLE", "SYNCHRONIZED")
    \/ Move("SYNCHRONIZED", "STOPPING")

\* ... and xrEndSession ends it for good.
End == Move("STOPPING", "IDLE") \/ Move("IDLE", "EXITING")

Next == Up \/ Down \/ End

Spec == Init /\ [][Next]_state
=============================================================================
