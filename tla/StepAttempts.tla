----------------------------- MODULE StepAttempts ------------------------------
(***************************************************************************)
(* Step attempts of ErrorControlledDt on several MPI ranks: the collective *)
(* verdict and the retry cursor of python/pops/runtime/_step_strategy.py,  *)
(* the queued proposal of _temporal_restart.py, and what the envelope and  *)
(* the run loop of _runtime_instance.py restore when an attempt is undone. *)
(*                                                                         *)
(* A rank prepares and advances on its own, brings its verdict to one      *)
(* allgather, and all ranks act on the same rows.  After the verdict the   *)
(* samples of the step are published through a consensus of their own      *)
(* (ConsumerTransaction), so the step is kept or undone on all ranks.      *)
(*                                                                         *)
(* Times and steps are binary floating-point numbers with Precision        *)
(* significant bits, in units of the smallest one.  Growth is 2 and shrink *)
(* is 1/2, so scaling a step is exact, but adding it to a time rounds.     *)
(***************************************************************************)
EXTENDS Integers, FiniteSetsExt

CONSTANTS
    Ranks,
    Precision,          \* significant bits of a time
    DtInit, DtMin, DtMax,
    MaxRejections,      \* ErrorControlledDt.max_rejections
    RunEnds,            \* the t_end values pops.run is called with
    MaxRuns,            \* bound: calls of pops.run
    MaxFaults           \* bound: fatal attempts and failed publications

ASSUME AttemptsAssumption ==
    /\ Ranks # {}
    /\ Precision \in Nat \ {0}
    /\ DtMin \in Nat \ {0} /\ DtInit \in Nat /\ DtMax \in Nat
    /\ DtMin <= DtInit /\ DtInit <= DtMax
    /\ MaxRejections \in Nat \ {0}
    /\ RunEnds \subseteq Nat
    /\ MaxRuns \in Nat /\ MaxFaults \in Nat

VARIABLES
    pc,         \* rank -> where its run is
    verdict,    \* rank -> the row it brings, then the common decision
    native,     \* rank -> time and macro_step of the engine
    temporal,   \* rank -> _temporal_restart_state
    nextDt,     \* rank -> next_dt of the controller, 0 without a controller
    cursor,     \* rank -> _PreparedStepAttempts: proposal and attempts
    snapshot,   \* rank -> engine, temporal and controller before the attempt
    entry,      \* rank -> temporal and controller at the entry of the run
    steps,      \* rank -> accepted steps of the run
    end,        \* t_end of the run
    archive,    \* external: the last checkpoint written, as a set
    runs, faults

vars == <<pc, verdict, native, temporal, nextDt, cursor, snapshot, entry,
          steps, end, archive, runs, faults>>
local == <<native, temporal, nextDt, cursor, snapshot, entry, steps>>

Verdicts == {"ok", "reject", "otherReject", "fail"}
Torn == [time |-> 0, step |-> -1]  \* an engine a failed attempt has left

-----------------------------------------------------------------------------
(* Binary floating-point addition, round to nearest, ties to even.         *)

\* The spacing of the numbers around n.
Ulp(n) ==
    LET e == CHOOSE k \in 0 .. n : 2 ^ Precision * 2 ^ k > n
                                   /\ \A j \in 0 .. k - 1 :
                                        2 ^ Precision * 2 ^ j <= n
    IN  2 ^ e

Round(n) ==
    LET u == Ulp(n)
        below == (n \div u) * u
        rest == n - below
    IN  IF 2 * rest < u \/ (2 * rest = u /\ (n \div u) % 2 = 0)
        THEN below ELSE below + u

-----------------------------------------------------------------------------
(* The temporal state.                                                     *)

\* No proposal is queued before the first run.
FreshTemporal ==
    [time |-> 0, step |-> 0, queue |-> 0, last |-> 0, rejected |-> 0,
     failed |-> 0, accepted |-> 0, pending |-> FALSE]

NoCursor == [dt |-> 0, attempts |-> 0]
NoEntry == [temporal |-> FreshTemporal, nextDt |-> 0]
NoSnapshot == [native |-> [time |-> 0, step |-> 0],
               temporal |-> FreshTemporal, nextDt |-> 0]

\* begin_run: the first run queues dt_init.
BeginRun(t) ==
    IF ~t.pending /\ t.step = 0 /\ t.last = 0 /\ t.queue = 0
    THEN [t EXCEPT !.queue = DtInit] ELSE t

\* TemporalRestartState.accept: the queue head is consumed, the accepted dt is
\* the difference of the two times.
Accepted(t, time) ==
    [t EXCEPT !.time = time, !.step = @ + 1, !.queue = 0,
              !.last = Round(time - t.time), !.accepted = @ + 1,
              !.pending = FALSE]

\* The proposal the controller publishes after an accepted one.
Following(dt) == Min({DtMax, 2 * dt})

\* _validate_controller_events as checkpoint_json calls it: what the queue
\* must hold at an accepted boundary.
CheckpointAllowed(t) ==
    t.queue = IF t.last = 0 THEN DtInit ELSE Min({DtMax, 2 * t.last})

Everywhere(v) == [r \in Ranks |-> v]

Init ==
    /\ pc = Everywhere("idle")
    /\ verdict = Everywhere("none")
    /\ native = Everywhere([time |-> 0, step |-> 0])
    /\ temporal = Everywhere(FreshTemporal)
    /\ nextDt = Everywhere(0)
    /\ cursor = Everywhere(NoCursor)
    /\ snapshot = Everywhere(NoSnapshot)
    /\ entry = Everywhere(NoEntry)
    /\ steps = Everywhere(0)
    /\ end = 0
    /\ archive = {}
    /\ runs = 0 /\ faults = 0

Fault == faults < MaxFaults /\ faults' = faults + 1
All(s) == \A r \in Ranks : pc[r] = s

-----------------------------------------------------------------------------
(* The run loop.                                                           *)

Run ==
    /\ All("idle") /\ runs < MaxRuns
    /\ runs' = runs + 1
    /\ end' \in RunEnds
    /\ pc' = Everywhere("loop")
    /\ entry' = [r \in Ranks |-> [temporal |-> temporal[r],
                                  nextDt |-> nextDt[r]]]
    /\ temporal' = [r \in Ranks |-> BeginRun(temporal[r])]
    /\ steps' = Everywhere(0)
    /\ UNCHANGED <<verdict, native, nextDt, cursor, snapshot, archive, faults>>

\* _controller: without one, dt_init, or the queue head after a restart.
ControllerDt(r) ==
    CASE nextDt[r] # 0 -> nextDt[r]
      [] nextDt[r] = 0 /\ temporal[r].pending -> temporal[r].queue
      [] OTHER -> DtInit

Proposal(r) == Min({ControllerDt(r), DtMax, Round(end - native[r].time)})

\* prepare_attempts, outside the envelope: the proposal replaces the queue
\* head.  Then the envelope takes its snapshot and the attempt can start.
Prepare(r) ==
    /\ pc[r] = "loop" /\ native[r].time < end
    /\ nextDt' = [nextDt EXCEPT ![r] = ControllerDt(r)]
    /\ cursor' = [cursor EXCEPT ![r] = [dt |-> Proposal(r), attempts |-> 0]]
    /\ temporal' = [temporal EXCEPT ![r].queue = Proposal(r)]
    /\ snapshot' = [snapshot EXCEPT ![r] =
                      [native |-> native[r], temporal |-> temporal'[r],
                       nextDt |-> nextDt'[r]]]
    /\ pc' = [pc EXCEPT ![r] = "attempt"]
    /\ UNCHANGED <<verdict, native, entry, steps, end, archive, runs, faults>>

Return(r) ==
    /\ pc[r] = "loop" /\ ~(native[r].time < end)
    /\ pc' = [pc EXCEPT ![r] = "idle"]
    /\ UNCHANGED <<verdict, local, end, archive, runs, faults>>

\* _native_attempt up to the exchange.  A native rejection has restored its
\* attempt-local state; a failure has not.
Advance(r) ==
    /\ pc[r] = "attempt"
    /\ cursor' = [cursor EXCEPT ![r].attempts = @ + 1]
    /\ \E v \in Verdicts :
        /\ verdict' = [verdict EXCEPT ![r] = v]
        /\ native' = [native EXCEPT ![r] =
             CASE v = "ok" -> [time |-> Round(@.time + cursor[r].dt),
                               step |-> @.step + 1]
               [] v = "fail" -> Torn
               [] OTHER -> @]
        /\ IF v = "fail" THEN Fault ELSE UNCHANGED faults
    /\ pc' = [pc EXCEPT ![r] = "exchange"]
    /\ UNCHANGED <<temporal, nextDt, snapshot, entry, steps, end, archive,
                   runs>>

-----------------------------------------------------------------------------
(* The verdict of the attempt.                                             *)

\* _collective_attempt_error: a retry needs the same rejection on all ranks.
Decision(rows) ==
    CASE \A r \in Ranks : rows[r] = "ok" -> "accept"
      [] \E v \in {"reject", "otherReject"} : \A r \in Ranks : rows[r] = v ->
            "retry"
      [] OTHER -> "fail"

\* Accepted on all ranks: the temporal state moves, the cursor publishes the
\* next proposal.  An attempt that does not advance time raises.
Accept ==
    /\ All("exchange") /\ Decision(verdict) = "accept"
    /\ IF \A r \in Ranks : native[r].time > temporal[r].time
       THEN /\ temporal' = [r \in Ranks |->
                 [Accepted(temporal[r], native[r].time) EXCEPT
                     !.queue = Following(cursor[r].dt)]]
            /\ nextDt' = [r \in Ranks |-> Following(cursor[r].dt)]
            /\ verdict' = Everywhere("accept")
            /\ pc' = Everywhere("publish")
       ELSE /\ verdict' = Everywhere("fail")
            /\ pc' = Everywhere("undo")
            /\ UNCHANGED <<temporal, nextDt>>
    /\ UNCHANGED <<native, cursor, snapshot, entry, steps, end,
                   archive, runs, faults>>

\* Mutant: a rank that succeeded waits for the others to try again.
RefuseAlone ==
    /\ All("exchange") /\ Decision(verdict) # "accept"
    /\ verdict' = [r \in Ranks |-> IF verdict[r] = "ok" THEN "ok"
                                   ELSE Decision(verdict)]
    /\ pc' = [r \in Ranks |-> IF verdict[r] = "ok" THEN "exchange" ELSE "undo"]
    /\ UNCHANGED <<native, temporal, nextDt, cursor, snapshot, entry, steps,
                   end, archive, runs, faults>>

\* reject() and fail() count the attempt at the last accepted boundary.
Refuse ==
    /\ All("exchange") /\ Decision(verdict) # "accept"
    /\ temporal' = [r \in Ranks |->
          IF Decision(verdict) = "retry"
          THEN [temporal[r] EXCEPT !.rejected = @ + 1, !.pending = FALSE]
          ELSE [temporal[r] EXCEPT !.failed = @ + 1, !.pending = FALSE]]
    /\ verdict' = Everywhere(Decision(verdict))
    /\ pc' = Everywhere("undo")
    /\ UNCHANGED <<native, nextDt, cursor, snapshot, entry, steps,
                   end, archive, runs, faults>>

\* The samples of the step: published, or refused on all ranks.  A scheduled
\* checkpoint among them is refused where checkpoint_json refuses it.
Publish ==
    /\ All("publish")
    /\ \/ /\ pc' = Everywhere("loop")
          /\ verdict' = Everywhere("none")
          /\ steps' = [r \in Ranks |-> steps[r] + 1]
          /\ \/ UNCHANGED archive
             \/ /\ \A r \in Ranks : CheckpointAllowed(temporal[r])
                /\ \E r \in Ranks : archive' = {temporal[r]}
          /\ UNCHANGED faults
       \/ /\ pc' = Everywhere("undo")
          /\ verdict' = Everywhere("fail")
          /\ IF \A r \in Ranks : CheckpointAllowed(temporal[r])
             THEN Fault ELSE UNCHANGED faults
          /\ UNCHANGED <<steps, archive>>
    /\ UNCHANGED <<native, temporal, nextDt, cursor, snapshot, entry, end,
                   runs>>

\* _restore_unsuccessful_attempt_stats: only the counters survive.
Carried(accepted, failed) ==
    [accepted EXCEPT !.rejected = failed.rejected, !.failed = failed.failed]

\* The retry callback: one more attempt with half the step.
MayRetry(r) ==
    /\ verdict[r] = "retry"
    /\ cursor[r].attempts <= MaxRejections
    /\ cursor[r].dt >= 2 * DtMin

\* queue_error_controlled_proposal(replace=True).
RetryQueued(t, dt) == [t EXCEPT !.queue = dt]

\* Mutant: an engine that completed the attempt is left alone.
RestoredIfTorn(r) == IF native[r] = Torn THEN snapshot[r].native ELSE native[r]

\* rollback() of the native transaction.
Restored(r) == snapshot[r].native

\* Mutant: the controller keeps the proposal of the step that is undone.
RestoredDtLive(r) == nextDt[r]

\* The controller copy that _restore_step_envelope installs.
RestoredDt(r) == snapshot[r].nextDt

\* The exception handler of the envelope, then the retry or the handler of
\* _run: without an accepted step the run-entry authority comes back.
Undo(r) ==
    /\ pc[r] = "undo"
    /\ native' = [native EXCEPT ![r] = Restored(r)]
    /\ LET restored == Carried(snapshot[r].temporal, temporal[r])
           half == cursor[r].dt \div 2
       IN  IF MayRetry(r)
           THEN /\ cursor' = [cursor EXCEPT ![r].dt = half]
                /\ temporal' = [temporal EXCEPT ![r] =
                                  RetryQueued(restored, half)]
                /\ nextDt' = [nextDt EXCEPT ![r] = RestoredDt(r)]
                /\ snapshot' = [snapshot EXCEPT ![r].temporal = temporal'[r]]
                /\ pc' = [pc EXCEPT ![r] = "attempt"]
           ELSE /\ temporal' = [temporal EXCEPT ![r] =
                                  IF steps[r] = 0 THEN entry[r].temporal
                                  ELSE restored]
                /\ nextDt' = [nextDt EXCEPT ![r] =
                                IF steps[r] = 0 THEN entry[r].nextDt
                                ELSE RestoredDt(r)]
                /\ pc' = [pc EXCEPT ![r] = "idle"]
                /\ UNCHANGED <<cursor, snapshot>>
    /\ UNCHANGED <<verdict, entry, steps, end, archive, runs, faults>>

-----------------------------------------------------------------------------
(* Checkpoints on request, and restart.                                    *)

Checkpoint ==
    /\ All("idle")
    /\ \A r \in Ranks : CheckpointAllowed(temporal[r])
    /\ \E r \in Ranks : archive' = {temporal[r]}
    /\ UNCHANGED <<pc, verdict, local, end, runs, faults>>

\* CheckpointRestore shows that it is all or nothing.
Restart ==
    /\ All("idle") /\ archive # {}
    /\ \E t \in archive :
        /\ native' = Everywhere([time |-> t.time, step |-> t.step])
        /\ temporal' = Everywhere([t EXCEPT !.pending = TRUE])
    /\ nextDt' = Everywhere(0)
    /\ UNCHANGED <<pc, verdict, cursor, snapshot, entry, steps, end, archive,
                   runs, faults>>

-----------------------------------------------------------------------------
Local(r) == Prepare(r) \/ Return(r) \/ Advance(r) \/ Undo(r)
Exchange == Accept \/ Refuse \/ Publish
Next == Run \/ Checkpoint \/ Restart \/ Exchange \/ \E r \in Ranks : Local(r)

\* A rank inside a run keeps running; the exchanges of the world end.
Fairness == WF_vars(Exchange) /\ \A r \in Ranks : WF_vars(Local(r))
Spec == Init /\ [][Next]_vars /\ Fairness

-----------------------------------------------------------------------------
Temporals ==
    [time : Nat, step : Nat, queue : 0 .. DtMax, last : Nat,
     rejected : Nat, failed : Nat, accepted : Nat, pending : BOOLEAN]

TypeOK ==
    /\ pc \in [Ranks -> {"idle", "loop", "attempt", "exchange", "publish",
                         "undo"}]
    /\ verdict \in [Ranks -> Verdicts \cup {"none", "accept", "retry"}]
    /\ native \in [Ranks -> [time : Nat, step : Nat] \cup {Torn}]
    /\ temporal \in [Ranks -> Temporals]
    /\ nextDt \in [Ranks -> 0 .. DtMax]
    /\ cursor \in [Ranks -> [dt : 0 .. DtMax, attempts : 0 .. MaxRejections + 1]]
    /\ snapshot \in [Ranks -> [native : [time : Nat, step : Nat],
                               temporal : Temporals, nextDt : 0 .. DtMax]]
    /\ entry \in [Ranks -> [temporal : Temporals, nextDt : 0 .. DtMax]]
    /\ steps \in [Ranks -> Nat]
    /\ end \in RunEnds \cup {0}
    /\ archive \subseteq Temporals
    /\ runs \in 0 .. MaxRuns /\ faults \in 0 .. MaxFaults

\* Whatever the ranks thought of an attempt, they start the next one, and end
\* the run, from the same engine, temporal state, controller and proposal.
SameFate ==
    \A s \in {"idle", "loop", "attempt", "publish"} :
        All(s) => \A p, q \in Ranks :
            /\ native[p] = native[q] /\ native[p] # Torn
            /\ temporal[p] = temporal[q] /\ nextDt[p] = nextDt[q]
            /\ s = "attempt" => cursor[p] = cursor[q]

\* A restart decides like the run it replaces: where a checkpoint may be
\* taken, its queue head is the step the live controller would propose.
RestartReplays ==
    \A r \in Ranks :
        pc[r] \in {"idle", "publish"} /\ nextDt[r] # 0
            /\ CheckpointAllowed(temporal[r]) =>
        temporal[r].queue = nextDt[r]

\* The proposal published at an accepted boundary is the one checkpoint_json
\* demands there: a checkpoint scheduled at a step can be written.
BoundaryIsCheckpointable ==
    \A r \in Ranks : pc[r] = "publish" => CheckpointAllowed(temporal[r])

\* Every run ends on every rank.
RunsEnd == \A r \in Ranks : pc[r] # "idle" ~> pc[r] = "idle"
=============================================================================
