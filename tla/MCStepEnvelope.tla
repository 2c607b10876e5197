----------------------------- MODULE MCStepEnvelope ----------------------------
(* Four consumers on two clocks.  The at_end consumer comes after the        *)
(* checkpoint and may skip: a run that ends on a checkpoint step is refused. *)
EXTENDS StepEnvelope

Consumer(clock, trigger, period, skip, checkpoint) ==
    [clock |-> clock, trigger |-> trigger, period |-> period, skip |-> skip,
     checkpoint |-> checkpoint]

MCClocks == <<"macro", "output">>
MCTopology == <<
    Consumer("macro", "at_start", 1, FALSE, FALSE),
    Consumer("macro", "every_dt", 3, FALSE, FALSE),
    Consumer("output", "every", 2, FALSE, TRUE),
    Consumer("output", "at_end", 1, TRUE, FALSE)>>
================================================================================
