----------------------------- MODULE BoundedDrain -----------------------------
(***************************************************************************)
(* What runtime/src/BoundedDrain.h promises: asynchronous work is admitted *)
(* with a lease until the drain is stopped; the stopped drain admits no    *)
(* more, and a wait that succeeded has seen every lease returned.  Resets  *)
(* are refused while a lease is out.                                       *)
(***************************************************************************)
EXTENDS Naturals

CONSTANT Holder      \* the units of work that may hold a lease

VARIABLES
    leases,          \* the work whose lease is out
    stopping,        \* stopping_
    drained          \* a StopAndWait returned true since the last Reset

vars == <<leases, stopping, drained>>

Init == leases = {} /\ stopping = FALSE /\ drained = FALSE

TryAcquire(w) ==
    /\ ~stopping
    /\ w \notin leases
    /\ leases' = leases \cup {w}
    /\ UNCHANGED <<stopping, drained>>

Release(w) ==
    /\ w \in leases
    /\ leases' = leases \ {w}
    /\ UNCHANGED <<stopping, drained>>

Stop == stopping' = TRUE /\ UNCHANGED <<leases, drained>>

\* StopAndWait, when it does not time out.
StopAndWait ==
    /\ leases = {}
    /\ stopping' = TRUE
    /\ drained' = TRUE
    /\ UNCHANGED leases

Reset ==
    /\ leases = {}
    /\ stopping' = FALSE
    /\ drained' = FALSE
    /\ UNCHANGED leases

Next ==
    \/ \E w \in Holder : TryAcquire(w) \/ Release(w)
    \/ Stop
    \/ StopAndWait
    \/ Reset

Spec == Init /\ [][Next]_vars

=============================================================================
