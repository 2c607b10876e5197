---------------------------- MODULE MCDurableJournal ---------------------------
(* Two frames; every kind of fault, or the two that break the comment. *)
EXTENDS DurableJournal
================================================================================
