--------------------------- MODULE MCProgramCadence ---------------------------
(***************************************************************************)
(* An instance of ProgramCadence for TLC: a node of every off-cadence      *)
(* policy, on a period or on a predicate of the Program.                   *)
(***************************************************************************)
EXTENDS ProgramCadence

every(n) == [period |-> n, off |-> "hold"]
when == [period |-> 0, off |-> "hold"]
off(node, policy) == [node EXCEPT !.off = policy]

FourNodes == <<off(every(2), "zero"), off(when, "accumulate"), off(when, "error"), every(3)>>

=============================================================================
