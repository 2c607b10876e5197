------------------------- MODULE MCConsumerTransaction -------------------------
(* A plan that holds each failure action, with a checkpoint-like last effect. *)
EXTENDS ConsumerTransaction

MCFailureAction == <<"Retry", "SkipSampleReported", "Retry", "FailRun">>
MCMaxAttempts == <<3, 1, 2, 1>>
================================================================================
