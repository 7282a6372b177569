---------------------------- MODULE DaliBusClaims ----------------------------
(***************************************************************************)
(* What a comment of dali_bus.h says of the bus task and its code does not *)
(* keep.  The run bus_stale_cancel shows how.                              *)
(***************************************************************************)
EXTENDS DaliBus

\* dali_bus.h on dali_bus_cancel: "Ask the running long operation to stop at its
\* next step".  So an operation is cancelled only by a cancel that was under way
\* while it ran, not by one that was over before it began.
CancelOnlyRunning == opKind # None /\ opCancel => legit
==============================================================================
