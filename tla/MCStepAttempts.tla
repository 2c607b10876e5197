---------------------------- MODULE MCStepAttempts ----------------------------
(* Two ranks; exact and rounded time.                                      *)
EXTENDS StepAttempts
=============================================================================
