--------------------------- MODULE CheckpointRestore ---------------------------
(***************************************************************************)
(* The restart of a run from a checkpoint on several MPI ranks:            *)
(* RestartV3.reopen in python/pops/output/_restart_provider.py,            *)
(* restore_checkpoint_payload in _checkpoint_collective.py, and the        *)
(* transaction methods of the executors it drives (_system_io.py,          *)
(* _amr_system_io.py, _multi_layout_executor.py, system.cpp), with the     *)
(* outer state RuntimeInstance couples to them.                            *)
(*                                                                         *)
(* A rank does its local part of a stage and arrives at the exchange of    *)
(* the stage; all ranks leave it together with the same rows.  Nothing     *)
(* inside a rank's local part is visible to another rank, so it is one     *)
(* step that chooses where it fails.  A state is the number of the call    *)
(* that restored it; Torn is a state written only in part.                 *)
(***************************************************************************)
EXTENDS Integers

CONSTANTS
    Ranks,
    Root,       \* the rank that reads the archive
    NEngines,   \* child engines of the executor, on every rank
    MaxCalls,   \* bound: restarts requested
    MaxFaults   \* bound: local failures

ASSUME RestoreAssumption ==
    /\ Root \in Ranks
    /\ NEngines \in Nat \ {0}
    /\ MaxCalls \in Nat
    /\ MaxFaults \in Nat

VARIABLES
    stage,       \* rank -> stage of the call, or "idle"
    arrived,     \* rank -> it waits in the exchange of the stage
    brought,     \* rank -> the row it brings
    calls,       \* restarts requested
    outerActive, \* the caller is a RuntimeInstance with outer callbacks
    accepted,    \* the call whose checkpoint all ranks agreed to accept
    native,      \* rank, engine -> native state
    tx,          \* rank, engine -> native transaction
    saved,       \* rank, engine -> snapshot that transaction owns
    python,      \* rank, engine -> Python attributes of the engine
    handle,      \* rank, engine -> _checkpoint_restart_python_snapshot
    composite,   \* rank -> mapping counters and temporal state
    guard,       \* rank -> _checkpoint_restart_snapshot
    outer,       \* rank, part -> outer state of RuntimeInstance
    outerSaved,  \* rank, part -> outer_snapshot
    unrestored,  \* rank -> outer parts whose rollback has failed
    faults

control == <<stage, arrived, brought>>
engines == <<native, tx, saved, python, handle>>
coordinator == <<composite, guard>>
envelope == <<outer, outerSaved, unrestored>>
vars == <<control, calls, outerActive, accepted, engines, coordinator,
          envelope, faults>>

Engines == 1 .. NEngines
Cursors == 1      \* consumer cursors and geometry cache
Diagnostics == 2  \* diagnostic state of the publisher
Identity == 3     \* run identity of the executor and its engines
OuterParts == {Cursors, Diagnostics, Identity}
Torn == -1
Absent == -2  \* no snapshot
States == {Torn} \cup 0 .. MaxCalls
Snapshots == {Absent} \cup States

RootStages == {"selection", "read"}
LocalChecks == {"target", "budget", "decode", "policy", "protocol", "prepare"}
UndoStages == {"beginRollback", "outerRollback", "rollback"}
Stages == RootStages \cup LocalChecks \cup UndoStages
              \cup {"idle", "outerPrepare", "begin", "apply", "outerApply",
                    "commit", "finalize"}

Everywhere(v) == [r \in Ranks |-> v]
OnEngines(v) == [r \in Ranks |-> [e \in Engines |-> v]]
OnParts(v) == [r \in Ranks |-> [p \in OuterParts |-> v]]

Init ==
    /\ stage = Everywhere("idle")
    /\ arrived = Everywhere(FALSE)
    /\ brought = Everywhere("same")
    /\ calls = 0
    /\ outerActive \in BOOLEAN
    /\ accepted = 0
    /\ native = OnEngines(0)
    /\ tx = OnEngines("none")
    /\ saved = OnEngines(Absent)
    /\ python = OnEngines(0)
    /\ handle = OnEngines(Absent)
    /\ composite = Everywhere(0)
    /\ guard = Everywhere(Absent)
    /\ outer = OnParts(0)
    /\ outerSaved = OnParts(Absent)
    /\ unrestored = Everywhere({})
    /\ faults = 0

Fault == faults < MaxFaults /\ faults' = faults + 1
NoFault == UNCHANGED faults

-----------------------------------------------------------------------------
(* consensus(), root_value(), root_bytes().                                *)

Doing(r, s) == stage[r] = s /\ ~arrived[r]

Arrive(r, row) ==
    /\ arrived' = [arrived EXCEPT ![r] = TRUE]
    /\ brought' = [brought EXCEPT ![r] = row]
    /\ UNCHANGED stage

Met(s) == \A r \in Ranks : stage[r] = s /\ arrived[r]

\* No rank brought an error and all brought the same value.
Agreed == \E row \in {"same", "other"} : \A r \in Ranks : brought[r] = row

Leave(s) ==
    /\ stage' = Everywhere(s)
    /\ arrived' = Everywhere(FALSE)
    /\ brought' = Everywhere("same")

\* The exchange of stage s leads to one stage on all ranks.
Decide(s, onSuccess, onFailure) ==
    /\ Met(s)
    /\ Leave(IF Agreed THEN onSuccess ELSE onFailure)

-----------------------------------------------------------------------------
(* Everything up to the first write.                                       *)

\* RuntimeInstance.restart, or restart() of an engine: every rank calls it.
Restart ==
    /\ \A r \in Ranks : stage[r] = "idle"
    /\ calls < MaxCalls
    /\ calls' = calls + 1
    /\ Leave(IF outerActive THEN "selection" ELSE "target")
    /\ NoFault
    /\ UNCHANGED <<outerActive, accepted, engines, coordinator, envelope>>

\* The local part of a stage that writes nothing, with its possible rows: an
\* error, or a value (path, policy, protocol) that differs from the others'.
\* Only the root works in a root stage.
Check(r) ==
    /\ \E s \in RootStages \cup LocalChecks :
        /\ Doing(r, s)
        /\ \/ Arrive(r, "same") /\ NoFault
           \/ /\ s \in LocalChecks \/ r = Root
              /\ Arrive(r, "error")
              /\ Fault
           \/ s \in {"target", "policy"} /\ Arrive(r, "other") /\ Fault
    /\ UNCHANGED <<calls, outerActive, accepted, engines, coordinator,
                   envelope>>

\* The stage after each of them.
AfterCheck(s) ==
    CASE s = "selection" -> "target"
      [] s = "target" -> "read"
      [] s = "read" -> "budget"
      [] s = "budget" -> IF outerActive THEN "decode" ELSE "policy"
      [] s = "decode" -> "policy"
      [] s = "policy" -> "protocol"
      [] s = "protocol" -> "prepare"
      [] s = "prepare" -> IF outerActive THEN "outerPrepare" ELSE "begin"

Checked ==
    /\ \E s \in RootStages \cup LocalChecks : Decide(s, AfterCheck(s), "idle")
    /\ NoFault
    /\ UNCHANGED <<calls, outerActive, accepted, engines, coordinator,
                   envelope>>

\* prepare_outer_state: capture the outer state, or fail before capturing.
PrepareOuter(r) ==
    /\ Doing(r, "outerPrepare")
    /\ \/ /\ outerSaved' = [outerSaved EXCEPT ![r] = outer[r]]
          /\ Arrive(r, "same")
          /\ NoFault
       \/ /\ Arrive(r, "error")
          /\ Fault
          /\ UNCHANGED outerSaved
    /\ UNCHANGED <<calls, outerActive, accepted, engines, coordinator, outer,
                   unrestored>>

OuterPrepared ==
    /\ Decide("outerPrepare", "begin", "idle")
    /\ NoFault
    /\ UNCHANGED <<calls, outerActive, accepted, engines, coordinator,
                   envelope>>

-----------------------------------------------------------------------------
(* Begin: every engine snapshots itself.                                   *)

\* An engine whose transaction is still active refuses to begin.
Begin(r) ==
    /\ Doing(r, "begin")
    /\ guard[r] = Absent
    /\ \A e \in Engines : tx[r][e] = "none"
    /\ tx' = [tx EXCEPT ![r] = [e \in Engines |-> "open"]]
    /\ saved' = [saved EXCEPT ![r] = native[r]]
    /\ handle' = [handle EXCEPT ![r] = python[r]]
    /\ guard' = [guard EXCEPT ![r] = composite[r]]
    /\ Arrive(r, "same")
    /\ NoFault
    /\ UNCHANGED <<calls, outerActive, accepted, native, python, composite,
                   envelope>>

\* Engine k fails to begin: the engines before it are rolled back in reverse
\* order, those of Stuck without success, and k has no snapshot to roll back.
\* The composite restores itself and raises.  An active transaction of engine
\* k, or a snapshot the composite still holds, is reason enough to fail.
BeginFails(r) ==
    /\ Doing(r, "begin")
    /\ \E k \in Engines, Stuck \in SUBSET Engines :
        /\ \A e \in 1 .. k - 1 : tx[r][e] = "none"
        /\ \A e \in Stuck : e < k
        /\ guard[r] # Absent => k = 1
        /\ IF (tx[r][k] = "none" /\ guard[r] = Absent) \/ Stuck # {}
           THEN Fault ELSE NoFault
        /\ tx' = [tx EXCEPT ![r] =
                    [e \in Engines |-> IF e \in Stuck THEN "open" ELSE @[e]]]
        /\ saved' = [saved EXCEPT ![r] =
                       [e \in Engines |->
                          IF e \in Stuck THEN native[r][e] ELSE @[e]]]
        /\ native' = [native EXCEPT ![r] =
                        [e \in Engines |-> IF e \in Stuck THEN Torn ELSE @[e]]]
    /\ Arrive(r, "error")
    /\ UNCHANGED <<calls, outerActive, accepted, python, handle, coordinator,
                   envelope>>

\* Mutant: every rank goes by its own begin.
BegunAlone ==
    /\ Met("begin")
    /\ stage' = [r \in Ranks |-> IF brought[r] = "same" THEN "apply"
                                 ELSE "beginRollback"]
    /\ arrived' = Everywhere(FALSE)
    /\ brought' = Everywhere("same")
    /\ NoFault
    /\ UNCHANGED <<calls, outerActive, accepted, engines, coordinator,
                   envelope>>

Begun ==
    /\ Decide("begin", "apply", "beginRollback")
    /\ NoFault
    /\ UNCHANGED <<calls, outerActive, accepted, engines, coordinator,
                   envelope>>

-----------------------------------------------------------------------------
(* Rollback.                                                               *)

\* The finally clause of an engine's rollback, reached by the engines of Stuck
\* as well.
DropHandles(r, Stuck) ==
    handle' = [handle EXCEPT ![r] = [e \in Engines |-> Absent]]

\* _rollback_checkpoint_restart: the engines in reverse order; where the
\* native restore throws (Stuck) the transaction stays active over a partly
\* restored state, while the Python side is restored in any case.
RollbackExecutor(r, Stuck) ==
    /\ tx' = [tx EXCEPT ![r] =
                [e \in Engines |-> IF e \in Stuck THEN @[e] ELSE "none"]]
    /\ native' = [native EXCEPT ![r] =
                    [e \in Engines |->
                       IF e \in Stuck THEN Torn ELSE saved[r][e]]]
    /\ saved' = [saved EXCEPT ![r] =
                   [e \in Engines |-> IF e \in Stuck THEN @[e] ELSE Absent]]
    /\ python' = [python EXCEPT ![r] = handle[r]]
    /\ DropHandles(r, Stuck)
    /\ composite' = [composite EXCEPT ![r] = guard[r]]
    /\ guard' = [guard EXCEPT ![r] = Absent]

\* In beginRollback a rank whose begin failed has nothing to undo.
NothingToUndo(r) == guard[r] = Absent

Rollback(r) ==
    /\ Doing(r, "rollback") \/ Doing(r, "beginRollback")
    /\ \/ /\ NothingToUndo(r)
          /\ Arrive(r, "same")
          /\ NoFault
          /\ UNCHANGED <<engines, coordinator>>
       \/ /\ ~NothingToUndo(r)
          /\ \E Stuck \in SUBSET Engines :
              /\ RollbackExecutor(r, Stuck)
              /\ IF Stuck = {} THEN Arrive(r, "same") /\ NoFault
                               ELSE Arrive(r, "error") /\ Fault
    /\ UNCHANGED <<calls, outerActive, accepted, envelope>>

\* rollback_outer_state: each part is restored on its own.  Restoring the
\* cursors and the geometry cache only assigns.
RollbackOuter(r) ==
    /\ Doing(r, "outerRollback")
    /\ \E Failed \in SUBSET {Diagnostics, Identity} :
        /\ outer' = [outer EXCEPT ![r] =
                       [p \in OuterParts |->
                          IF p \in Failed THEN @[p] ELSE outerSaved[r][p]]]
        /\ unrestored' = [unrestored EXCEPT ![r] = @ \cup Failed]
        /\ IF Failed = {} THEN Arrive(r, "same") /\ NoFault
                          ELSE Arrive(r, "error") /\ Fault
    /\ UNCHANGED <<calls, outerActive, accepted, engines, coordinator,
                   outerSaved>>

\* A failed rollback is only a note on the error the call raises.
RolledBack ==
    /\ \/ Decide("outerRollback", "rollback", "rollback")
       \/ Decide("rollback", "idle", "idle")
       \/ Decide("beginRollback", "idle", "idle")
    /\ NoFault
    /\ UNCHANGED <<calls, outerActive, accepted, engines, coordinator,
                   envelope>>

\* Mutant: an error after the outer publication undoes only the executor.
UndoExecutor == "rollback"

\* Where a call goes that has published outer state and must undo it.
Undo == IF outerActive THEN "outerRollback" ELSE "rollback"

-----------------------------------------------------------------------------
(* Apply, publish, commit, release.                                        *)

\* _apply_checkpoint_restart: the engines in order, then the composite.  It
\* fails at engine k, or in the composite (k = NEngines + 1), after writing
\* some of it or nothing.  Ranks may return different evidence.
Apply(r) ==
    /\ Doing(r, "apply")
    /\ \/ /\ native' = [native EXCEPT ![r] = [e \in Engines |-> calls]]
          /\ python' = [python EXCEPT ![r] = [e \in Engines |-> calls]]
          /\ composite' = [composite EXCEPT ![r] = calls]
          /\ \/ Arrive(r, "same") /\ NoFault
             \/ Arrive(r, "other") /\ Fault
       \/ /\ Arrive(r, "error")
          /\ Fault
          /\ \E k \in 1 .. NEngines + 1, written \in BOOLEAN :
              LET Reached(old) ==
                    [e \in Engines |->
                        CASE e < k -> calls
                          [] e = k -> IF written THEN Torn ELSE old[e]
                          [] e > k -> old[e]] IN
              /\ native' = [native EXCEPT ![r] = Reached(@)]
              /\ python' = [python EXCEPT ![r] = Reached(@)]
              /\ composite' = [composite EXCEPT ![r] =
                                 IF k = NEngines + 1 /\ written THEN Torn
                                 ELSE @]
    /\ UNCHANGED <<calls, outerActive, accepted, tx, saved, handle, guard,
                   envelope>>

Applied ==
    /\ Decide("apply", IF outerActive THEN "outerApply" ELSE "commit",
              "rollback")
    /\ NoFault
    /\ UNCHANGED <<calls, outerActive, accepted, engines, coordinator,
                   envelope>>

\* restore_outer_state: cursors, diagnostics, run identity, in that order.  It
\* fails at part k after writing some of it or nothing.
PublishOuter(r) ==
    /\ Doing(r, "outerApply")
    /\ \/ /\ outer' = [outer EXCEPT ![r] = [p \in OuterParts |-> calls]]
          /\ Arrive(r, "same")
          /\ NoFault
       \/ /\ Arrive(r, "error")
          /\ Fault
          /\ \E k \in OuterParts, written \in BOOLEAN :
              outer' = [outer EXCEPT ![r] =
                          [p \in OuterParts |->
                             CASE p < k -> calls
                               [] p = k -> IF written THEN Torn ELSE @[p]
                               [] p > k -> @[p]]]
    /\ UNCHANGED <<calls, outerActive, accepted, engines, coordinator,
                   outerSaved, unrestored>>

OuterPublished ==
    /\ Decide("outerApply", "commit", "outerRollback")
    /\ NoFault
    /\ UNCHANGED <<calls, outerActive, accepted, engines, coordinator,
                   envelope>>

\* Mutant: a commit releases the snapshots.
CommitAndRelease(r) ==
    /\ Doing(r, "commit")
    /\ tx' = [tx EXCEPT ![r] = [e \in Engines |-> "none"]]
    /\ saved' = [saved EXCEPT ![r] = [e \in Engines |-> Absent]]
    /\ Arrive(r, "same")
    /\ NoFault
    /\ UNCHANGED <<calls, outerActive, accepted, native, python, handle,
                   coordinator, envelope>>

\* _commit_checkpoint_restart: seal the engines in order; engine k refuses.
Commit(r) ==
    /\ Doing(r, "commit")
    /\ \/ /\ tx' = [tx EXCEPT ![r] = [e \in Engines |-> "committed"]]
          /\ Arrive(r, "same")
          /\ NoFault
       \/ /\ \E k \in Engines :
              tx' = [tx EXCEPT ![r] =
                       [e \in Engines |->
                          IF e < k THEN "committed" ELSE @[e]]]
          /\ Arrive(r, "error")
          /\ Fault
    /\ UNCHANGED <<calls, outerActive, accepted, native, saved, python,
                   handle, coordinator, envelope>>

\* The last decision: from here on no rank may fail.
Committed ==
    /\ Decide("commit", "finalize", Undo)
    /\ accepted' = IF Agreed THEN calls ELSE accepted
    /\ NoFault
    /\ UNCHANGED <<calls, outerActive, engines, coordinator, envelope>>

\* _finalize_checkpoint_restart: release every snapshot; the call returns.
Finalize(r) ==
    /\ Doing(r, "finalize")
    /\ tx' = [tx EXCEPT ![r] = [e \in Engines |-> "none"]]
    /\ saved' = [saved EXCEPT ![r] = [e \in Engines |-> Absent]]
    /\ handle' = [handle EXCEPT ![r] = [e \in Engines |-> Absent]]
    /\ guard' = [guard EXCEPT ![r] = Absent]
    /\ stage' = [stage EXCEPT ![r] = "idle"]
    /\ unrestored' = [unrestored EXCEPT ![r] =
                        IF outerActive THEN {} ELSE @]
    /\ NoFault
    /\ UNCHANGED <<arrived, brought, calls, outerActive, accepted, native,
                   python, composite, outer, outerSaved>>

-----------------------------------------------------------------------------
Local(r) ==
    \/ Check(r) \/ PrepareOuter(r)
    \/ Begin(r) \/ BeginFails(r)
    \/ Apply(r) \/ PublishOuter(r) \/ Commit(r) \/ Finalize(r)
    \/ Rollback(r) \/ RollbackOuter(r)

Exchange ==
    \/ Checked \/ OuterPrepared \/ Begun \/ Applied \/ OuterPublished
    \/ Committed \/ RolledBack

Next == Restart \/ Exchange \/ \E r \in Ranks : Local(r)

\* A rank in a call keeps running and the exchanges of the communicator end.
Fairness == WF_vars(Exchange) /\ \A r \in Ranks : WF_vars(Local(r))

Spec == Init /\ [][Next]_vars /\ Fairness

-----------------------------------------------------------------------------
TypeOK ==
    /\ stage \in [Ranks -> Stages]
    /\ arrived \in [Ranks -> BOOLEAN]
    /\ brought \in [Ranks -> {"same", "other", "error"}]
    /\ calls \in 0 .. MaxCalls
    /\ outerActive \in BOOLEAN
    /\ accepted \in 0 .. MaxCalls
    /\ native \in [Ranks -> [Engines -> States]]
    /\ tx \in [Ranks -> [Engines -> {"none", "open", "committed"}]]
    /\ saved \in [Ranks -> [Engines -> Snapshots]]
    /\ python \in [Ranks -> [Engines -> States]]
    /\ handle \in [Ranks -> [Engines -> Snapshots]]
    /\ composite \in [Ranks -> States]
    /\ guard \in [Ranks -> Snapshots]
    /\ outer \in [Ranks -> [OuterParts -> States]]
    /\ outerSaved \in [Ranks -> [OuterParts -> Snapshots]]
    /\ unrestored \in [Ranks -> SUBSET OuterParts]
    /\ faults \in 0 .. MaxFaults

Idle == \A r \in Ranks : stage[r] = "idle"

\* Between calls, whatever failed where, all ranks hold the state of the one
\* accepted checkpoint: every engine whose transaction is not stuck, its
\* Python attributes, the composite, and every outer part whose own rollback
\* did not fail.
AllOrNothing ==
    Idle =>
        \A r \in Ranks :
            /\ composite[r] = accepted
            /\ \A e \in Engines :
                /\ python[r][e] = accepted
                /\ tx[r][e] = "none" => native[r][e] = accepted
            /\ outerActive =>
                \A p \in OuterParts \ unrestored[r] : outer[r][p] = accepted

\* While any rank can still be told to roll back, every rank keeps the
\* snapshot of the accepted state of every engine, also a rank that has
\* committed and waits; and an engine stuck in an earlier call keeps it too.
RollbackStaysPossible ==
    \A r \in Ranks, e \in Engines :
        /\ stage[r] \in {"apply", "outerApply", "commit", "outerRollback"} =>
              /\ tx[r][e] # "none"
              /\ handle[r][e] = accepted /\ guard[r] = accepted
        /\ tx[r][e] # "none" /\ stage[r] # "finalize" =>
              saved[r][e] = accepted

\* Every restart returns on every rank, with a result or with an error.
CallsReturn == \A r \in Ranks : stage[r] # "idle" ~> stage[r] = "idle"
=============================================================================
