---------------------------- MODULE ConsumerContract ---------------------------
(***************************************************************************)
(* What a consumer transaction promises the step envelope that owns it.    *)
(* While it is open nothing of it counts.  It ends in one step: accepted,  *)
(* with every sample shown but those whose policy allows an omission, or   *)
(* withdrawn, with no sample shown and a set of samples left behind whose  *)
(* cleanup failed.  An accepted transaction can still be withdrawn until   *)
(* it is sealed.  ConsumerTransaction implements this contract; the        *)
(* actions AcceptOne, AbortOne and Seal of StepEnvelope rely on it.        *)
(***************************************************************************)
CONSTANTS
    Effects,   \* the samples of the plan
    Omissible  \* those with SkipSampleReported as failure action

VARIABLES
    phase,     \* "open", "accepted", "withdrawn" or "sealed"
    shown,     \* the samples that count as published
    left       \* the samples a failed cleanup has left behind

contractVars == <<phase, shown, left>>

Init == phase = "open" /\ shown = {} /\ left = {}

Accept ==
    /\ phase = "open"
    /\ phase' = "accepted"
    /\ \E omitted \in SUBSET Omissible : shown' = Effects \ omitted
    /\ UNCHANGED left

Withdraw ==
    /\ phase \in {"open", "accepted"}
    /\ phase' = "withdrawn"
    /\ shown' = {}
    /\ left' \in SUBSET Effects

Seal ==
    /\ phase = "accepted"
    /\ phase' = "sealed"
    /\ UNCHANGED <<shown, left>>

Next == Accept \/ Withdraw \/ Seal

Spec == Init /\ [][Next]_contractVars
================================================================================
