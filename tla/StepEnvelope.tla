----------------------------- MODULE StepEnvelope ------------------------------
(***************************************************************************)
(* The accepted-step envelope of python/pops/runtime/_runtime_instance.py. *)
(* One macro-step advances the native engine, its Python temporal          *)
(* authority and the samples that are due as one rollback boundary.  The   *)
(* module holds the run loop, the ErrorControlledDt retry sequence, the    *)
(* native step-transaction protocol, planning and staging of consumers,    *)
(* acceptance, compensation, sealing, checkpoints, restart and the death   *)
(* of the process.                                                         *)
(*                                                                         *)
(* A consumer transaction appears here through ConsumerContract, which     *)
(* ConsumerTransaction implements: accept either publishes every sample    *)
(* that its policy does not skip, or raises with every sample withdrawn    *)
(* but those whose cleanup failed; abort withdraws, with the same          *)
(* exception.  A sample whose cleanup failed stays visible at its path, or *)
(* is in a quarantine, out of sight (ArtifactPublication has the recovery  *)
(* of those).  Times and step sizes are integers; physical time is exact.  *)
(***************************************************************************)
EXTENDS Integers, Sequences, FiniteSets, SequencesExt, FiniteSetsExt

CONSTANTS
    Topology,       \* graph.topology: a sequence of consumer manifests
    Clocks,         \* the qualified clocks of the graph, in sorted order
    RunEnds,        \* the t_end values pops.run is called with
    DtInit, DtMin, DtMax,  \* ErrorControlledDt; shrink is 1/2, growth is 2
    MaxRejections,  \* ErrorControlledDt.max_rejections
    MaxSteps,       \* max_steps of one run
    MaxRuns,        \* bound: calls of pops.run
    MaxFaults,      \* bound: errors other than rejected attempts
    MaxEpochs       \* bound: process deaths plus restarts

Consumers == DOMAIN Topology
Triggers == {"at_start", "at_end", "every", "every_dt"}

\* The clocks of the moments are a sorted set, so none is named twice.
ASSUME EnvelopeAssumption ==
    /\ Clocks \in Seq(Range(Clocks)) /\ IsInjective(Clocks)
    /\ Topology \in Seq([clock : Range(Clocks), trigger : Triggers,
                         period : Nat \ {0}, skip : BOOLEAN,
                         checkpoint : BOOLEAN])
    /\ RunEnds \subseteq Nat
    /\ DtMin \in Nat \ {0} /\ DtInit \in Nat /\ DtMax \in Nat
    /\ DtMin <= DtInit /\ DtInit <= DtMax
    /\ MaxRejections \in Nat
    /\ {MaxSteps, MaxRuns, MaxFaults, MaxEpochs} \subseteq Nat

VARIABLES
    pc,         \* the call that comes next
    failure,    \* why the current attempt is being undone
    native,     \* the engine's macro_step, time and transaction phase
    image,      \* the AcceptedSnapshot of the open native transaction
    temporal,   \* _temporal_restart_state: accepted clock, attempt counts, the
                \* queued proposal and the last accepted dt
    nextDt,     \* the controller's next_dt
    sequence,   \* _PreparedStepAttempts: proposal and attempts so far
    run,        \* locals of _run, with the run-entry copies
    cursors,    \* _consumer_cursors
    reports,    \* _consumer_reports: the transaction each one is about
    pending,    \* _consumer_finalize_pending: report index and transaction
    snapshot,   \* _step_envelope_snapshot of the current attempt
    txns,       \* the staged consumer transactions
    moment,     \* the ConsumerMoment they were planned for
    capture,    \* what the staged checkpoint, if any, has recorded
    disk,       \* external: samples that are visible
    exposed,    \* history: samples a failed cleanup left visible
    vault,      \* external: visible checkpoints, with what they recorded
    moments,    \* history: accepted moments of this lineage
    lineage,    \* history: samples accepted on this lineage
    skipped,    \* history: due samples a policy skipped on this lineage
    faults, runs, epoch  \* bounded counters

python == <<temporal, nextDt, cursors, reports, pending>>
history == <<moments, lineage, skipped>>
files == <<disk, exposed, vault>>
bounds == <<faults, runs, epoch>>
vars == <<pc, failure, native, image, python, sequence, run, snapshot, txns,
          moment, capture, files, history, bounds>>

NoOccurrence == <<-1, -1>>
NewCursor == [last |-> NoOccurrence, n |-> 0]
Idle == pc = "idle"
NoSample == [consumer |-> 0, occ |-> NoOccurrence, n |-> 0, epoch |-> 0,
             run |-> 0]

--------------------------------------------------------------------------------
(***************************************************************************)
(* Planning (_consumer_planning.py, time/_schedule).                       *)
(***************************************************************************)

OnLattice(c, time) ==
    LET interval == Topology[c].period
    IN  time % interval = 0 /\ time \div interval >= 1

\* Trigger.consumer_due in the AcceptedStep domain.
Due(c, m) ==
    CASE Topology[c].trigger = "at_start" -> m.start
      [] Topology[c].trigger = "at_end"   -> ~m.start /\ m.end
      [] Topology[c].trigger = "every"    ->
            ~m.start /\ m.step % Topology[c].period = 0
      [] Topology[c].trigger = "every_dt" -> ~m.start /\ OnLattice(c, m.time)

\* The identity of one occurrence: the lattice index, or coordinate and point.
Occurrence(c, m) ==
    IF Topology[c].trigger = "every_dt"
    THEN <<m.time \div Topology[c].period, -1>>
    ELSE <<m.step, m.step>>

\* The earliest hard boundary strictly after the accepted time.
Deadlines(time) ==
    {Topology[c].period * (time \div Topology[c].period + 1) :
        c \in {d \in Consumers : Topology[d].trigger = "every_dt"}}

\* Mutant: the controller steps straight to t_end.
StepEndAtRunEnd(end, time) == end

StepEnd(end, time) == Min({end} \cup Deadlines(time))

\* Mutant: a sample whose occurrence was already committed is planned again.
PlannedAgain(c, m) == Due(c, m)

Planned(c, m) == Due(c, m) /\ cursors[c].last # Occurrence(c, m)

Moment(start, end) ==
    [step |-> native.step, time |-> temporal.time, start |-> start, end |-> end]

Effect(c, m) ==
    [consumer |-> c, occ |-> Occurrence(c, m), n |-> cursors[c].n + 1,
     epoch |-> epoch, run |-> runs]

\* The members of a finite set of numbers, in ascending order.
Ascending(S) ==
    CHOOSE s \in [1 .. Cardinality(S) -> S] :
        \A i, j \in DOMAIN s : i < j => s[i] < s[j]

\* plan_accepted_side_effects at the moment of one clock.
EffectPlan(clock, m) ==
    LET due == Ascending({c \in Consumers :
                              Topology[c].clock = clock /\ Planned(c, m)})
    IN  [j \in DOMAIN due |-> Effect(due[j], m)]

\* The plans of the clocks that have something due.
Plans(m) ==
    LET busy == Ascending({j \in DOMAIN Clocks :
                               EffectPlan(Clocks[j], m) # <<>>})
    IN  [j \in DOMAIN busy |-> EffectPlan(Clocks[busy[j]], m)]

IsCheckpoint(e) == Topology[e.consumer].checkpoint

EffectsOf(plans) == UNION {Range(plans[j]) : j \in DOMAIN plans}

\* cursors.replace(effect.cursor_after) for each effect of a step.
Advanced(cs, effects) ==
    [c \in Consumers |->
        IF \E e \in effects : e.consumer = c
        THEN LET e == CHOOSE e \in effects : e.consumer = c
             IN  [last |-> e.occ, n |-> e.n]
        ELSE cs[c]]

\* _validate_controller_events: checkpoint_json raises unless the queue holds
\* the proposal that follows the last accepted dt.
CheckpointAllowed(t) ==
    t.queue = IF t.last = 0 THEN DtInit ELSE Min({DtMax, 2 * t.last})

\* Mutant: a checkpoint may be staged anywhere and beside samples that skip.
StageRefusedNever(plans) == FALSE

\* The two ValueErrors of _stage_consumers, a checkpoint is the only one and
\* the last effect of all, and no effect beside it may skip; and the one of
\* checkpoint_json.
StageRefused(plans) ==
    LET points == {e \in EffectsOf(plans) : IsCheckpoint(e)}
    IN  /\ points # {}
        /\ \/ ~CheckpointAllowed(temporal)
           \/ points # {Last(Last(plans))}
           \/ \E e \in EffectsOf(plans) : Topology[e.consumer].skip

\* The checkpoint cursor override while a transaction is staged.
Predicted(effects) == Advanced(cursors, effects)

--------------------------------------------------------------------------------
(***************************************************************************)
(* The native step-transaction protocol (System, AmrSystem).               *)
(***************************************************************************)

Position(n) == [step |-> n.step, time |-> n.time]

NativeBegin ==
    /\ native.tx = "none"
    /\ native' = [native EXCEPT !.tx = "active"]
    /\ image' = Position(native)

NativeCommit ==
    /\ native.tx = "active"
    /\ native' = [native EXCEPT !.tx = "committed"]

NativeFinalize ==
    /\ native.tx = "committed"
    /\ native' = [native EXCEPT !.tx = "none"]

\* Mutant: a committed transaction is not rolled back.
NativeRollbackUncommitted ==
    native' = IF native.tx = "active"
              THEN [step |-> image.step, time |-> image.time, tx |-> "none"]
              ELSE [native EXCEPT !.tx = "none"]

\* Without an open transaction rollback raises, which the envelope only notes.
NativeRollback ==
    native' = IF native.tx = "none" THEN native
              ELSE [step |-> image.step, time |-> image.time, tx |-> "none"]

--------------------------------------------------------------------------------
(***************************************************************************)
(* The run loop (_run, _accepted_controller_step).                         *)
(***************************************************************************)

NoImage == [step |-> 0, time |-> 0]
NoSequence == [dt |-> 0, attempts |-> 0]
NoRun == [end |-> 0, steps |-> 0, rejected |-> 0, counts |-> 0,
          entry |-> [step |-> 0, time |-> 0, accepted |-> 0, rejected |-> 0,
                     failed |-> 0, queue |-> 0, last |-> 0],
          dt |-> 0]
NoSnapshot == [temporal |-> NoRun.entry, nextDt |-> 0, cursors |-> <<>>,
               reports |-> <<>>]
NoCapture == [cursors |-> <<>>, temporal |-> NoRun.entry]
NoMoment == [step |-> 0, time |-> 0, start |-> FALSE, end |-> FALSE]
FreshCursors == [c \in Consumers |-> NewCursor]

Init ==
    /\ pc = "idle" /\ failure = "none"
    /\ native = [step |-> 0, time |-> 0, tx |-> "none"]
    /\ image = NoImage
    /\ temporal = NoRun.entry /\ nextDt = DtInit
    /\ sequence = NoSequence /\ run = NoRun
    /\ cursors = FreshCursors /\ reports = <<>> /\ pending = {}
    /\ snapshot = NoSnapshot /\ txns = <<>> /\ capture = NoCapture
    /\ moment = NoMoment
    /\ disk = {} /\ exposed = {} /\ vault = {}
    /\ moments = {} /\ lineage = {} /\ skipped = {}
    /\ faults = 0 /\ runs = 0 /\ epoch = 0

\* One more error of an external call.
Fault == faults < MaxFaults /\ faults' = faults + 1

(***************************************************************************)
(* _retry_consumer_finalizers seals every pending owner again; the ones    *)
(* whose release fails once more stay, under the same report.              *)
(***************************************************************************)
RetryFinalizers == pending' \in SUBSET pending

\* begin_run: the first run queues dt_init.
BeginRun(t) ==
    IF t.step = 0 /\ t.last = 0 /\ t.queue = 0
    THEN [t EXCEPT !.queue = DtInit] ELSE t

Run(end) ==
    /\ Idle /\ runs < MaxRuns
    /\ runs' = runs + 1
    /\ run' = [end |-> end, steps |-> 0, rejected |-> 0,
               counts |-> temporal.rejected, entry |-> temporal, dt |-> nextDt]
    /\ temporal' = BeginRun(temporal)
    /\ RetryFinalizers
    /\ pc' = "start"
    /\ UNCHANGED <<failure, native, image, nextDt, cursors, reports,
                   sequence, snapshot, txns, moment, capture, files, history, faults,
                   epoch>>

\* One more iteration: the retry sequence is prepared outside the envelope, and
\* its proposal replaces the queued one.
PrepareAttempts ==
    /\ pc = "loop"
    /\ native.time < run.end /\ run.steps < MaxSteps
    /\ sequence' = [dt |-> Min({nextDt, DtMax,
                                StepEnd(run.end, temporal.time) - native.time}),
                    attempts |-> 0]
    /\ temporal' = [temporal EXCEPT !.queue = sequence'.dt]
    /\ pc' = "begin"
    /\ UNCHANGED <<failure, native, image, nextDt, cursors, reports, pending,
                   run, snapshot, txns, moment, capture, files, history,
                   bounds>>

RunReturns ==
    /\ pc = "loop"
    /\ ~(native.time < run.end)
    /\ pc' = "idle"
    /\ UNCHANGED <<failure, native, image, python, sequence, run, snapshot,
                   txns, moment, capture, files, history, bounds>>

\* The exception handler of _run: without an accepted step the run-entry
\* authority comes back, else the one the envelope restored stays.
RunRaises(restored, dt) ==
    /\ pc' = "idle" /\ failure' = "none"
    /\ temporal' = IF run.steps = 0 THEN run.entry ELSE restored
    /\ nextDt' = IF run.steps = 0 THEN run.dt ELSE dt

MaxStepsExhausted ==
    /\ pc = "loop"
    /\ native.time < run.end /\ run.steps >= MaxSteps
    /\ RunRaises(temporal, nextDt)
    /\ UNCHANGED <<native, image, cursors, reports, pending, sequence, run,
                   snapshot, txns, moment, capture, files, history, bounds>>

--------------------------------------------------------------------------------
(***************************************************************************)
(* One attempt in its envelope (_accepted_step_transaction_body).          *)
(***************************************************************************)

\* What an exception inside the envelope does first.
Raise(kind) == failure' = kind /\ pc' = "abort"

TakeSnapshot ==
    snapshot' = [temporal |-> temporal, nextDt |-> nextDt, cursors |-> cursors,
                 reports |-> reports]

Begin ==
    /\ pc = "begin"
    /\ RetryFinalizers
    /\ TakeSnapshot
    /\ \/ /\ NativeBegin
          /\ pc' = "solve"
          /\ UNCHANGED <<failure, faults>>
       \/ /\ Fault
          /\ Raise("fail")
          /\ UNCHANGED <<native, image>>
    /\ UNCHANGED <<temporal, nextDt, cursors, reports, sequence, run, txns,
                   moment, capture, files, history, runs, epoch>>

\* The engine reaches the proposed time with one more macro_step.
NativeAdvance == 
    native' = [native EXCEPT !.step = @ + 1, !.time = @ + sequence.dt]

\* _native_attempt succeeds; the sequence's accept publishes the next proposal.
SolveAccepted ==
    /\ pc = "solve"
    /\ NativeAdvance
    /\ nextDt' = Min({DtMax, 2 * sequence.dt})
    /\ temporal' = [temporal EXCEPT !.step = native.step + 1,
                                    !.time = native.time + sequence.dt,
                                    !.accepted = @ + 1,
                                    !.queue = nextDt', !.last = sequence.dt]
    /\ sequence' = [sequence EXCEPT !.attempts = @ + 1]
    /\ pc' = "stage"
    /\ UNCHANGED <<failure, image, cursors, reports, pending, run, snapshot,
                   txns, moment, capture, files, history, bounds>>

\* Every rank rejected the attempt; the engine restored its attempt-local state.
SolveRejected ==
    /\ pc = "solve"
    /\ temporal' = [temporal EXCEPT !.rejected = @ + 1]
    /\ sequence' = [sequence EXCEPT !.attempts = @ + 1]
    /\ Raise("reject")
    /\ UNCHANGED <<native, image, nextDt, cursors, reports, pending, run,
                   snapshot, txns, moment, capture, files, history, bounds>>

\* Any other error; the engine may have advanced before it was noticed.
SolveFails ==
    /\ pc = "solve"
    /\ Fault
    /\ NativeAdvance \/ UNCHANGED native
    /\ temporal' = [temporal EXCEPT !.failed = @ + 1]
    /\ sequence' = [sequence EXCEPT !.attempts = @ + 1]
    /\ Raise("fail")
    /\ UNCHANGED <<image, nextDt, cursors, reports, pending, run, snapshot,
                   txns, moment, capture, files, history, runs, epoch>>

Staged(plan) == [effects |-> plan, status |-> "staged", shown |-> {}]

(***************************************************************************)
(* _stage_consumers: plan, refuse a checkpoint that cannot tell the truth, *)
(* then prepare one transaction per clock.  A failed constructor withdraws *)
(* its own temporaries and the transactions staged before it.              *)
(***************************************************************************)
StageConsumers(m) ==
    LET plans == Plans(m)
        effects == EffectsOf(plans)
    IN  /\ moment' = m
        /\ \/ /\ ~StageRefused(plans)
              /\ txns' = [j \in DOMAIN plans |-> Staged(plans[j])]
              /\ capture' = IF \E e \in effects : IsCheckpoint(e)
                            THEN [cursors |-> Predicted(effects),
                                  temporal |-> temporal]
                            ELSE NoCapture
              /\ pc' = IF m.start THEN "accept" ELSE "commit"
              /\ UNCHANGED <<failure, faults>>
           \/ /\ StageRefused(plans) \/ plans # <<>>
              /\ IF StageRefused(plans) THEN UNCHANGED faults ELSE Fault
              /\ Raise("fail")
              /\ UNCHANGED <<txns, capture>>

StageAtStart ==
    /\ pc = "start"
    /\ StageConsumers(Moment(TRUE, FALSE))
    /\ UNCHANGED <<native, image, python, sequence, run, snapshot, files,
                   history, runs, epoch>>

StageStep ==
    /\ pc = "stage"
    /\ StageConsumers(Moment(FALSE, ~(native.time < run.end)))
    /\ UNCHANGED <<native, image, python, sequence, run, snapshot, files,
                   history, runs, epoch>>

Commit ==
    /\ pc = "commit"
    /\ \/ /\ NativeCommit
          /\ pc' = "accept"
          /\ UNCHANGED <<failure, faults>>
       \/ /\ Fault
          /\ Raise("fail")
          /\ UNCHANGED native
    /\ UNCHANGED <<image, python, sequence, run, snapshot, txns, moment,
                   capture, files, history, runs, epoch>>

\* The first transaction that is still staged.
NextStaged == CHOOSE j \in DOMAIN txns :
    /\ txns[j].status = "staged"
    /\ \A i \in 1 .. j - 1 : txns[i].status # "staged"
AllAccepted == \A j \in DOMAIN txns : txns[j].status = "accepted"

Samples(txn) == Range(txn.effects)
Skippable(txn) == {e \in Samples(txn) : Topology[e.consumer].skip}

\* The samples the open transactions have published.
Shown == UNION {txns[j].shown : j \in DOMAIN txns}

\* A checkpoint file: what it recorded, and the lineage it is a point of.
CheckpointFile(e, shown) ==
    [sample |-> e, cursors |-> capture.cursors, temporal |-> capture.temporal,
     moments |-> moments \cup {moment},
     lineage |-> lineage \cup Shown \cup shown, skipped |-> skipped]

\* The checkpoint files among the samples that are visible at their path.
CheckpointFiles(there, shown) ==
    {CheckpointFile(e, shown) : e \in {x \in there : IsCheckpoint(x)}}

(***************************************************************************)
(* A failed accept or abort names its leftovers in the report of the error *)
(* it raises.  _retain_consumer_recoveries keeps quarantine authorities    *)
(* only: over a sample that is still at its path nobody has one.           *)
(***************************************************************************)
Expose(there) == exposed' = exposed \cup there

\* transaction.accept() in clock order; it raises after its own compensation,
\* with the samples that it could not withdraw still there.
AcceptOne ==
    /\ pc = "accept" /\ ~AllAccepted
    /\ LET j == NextStaged
           txn == txns[j]
       IN  \/ \E omitted \in SUBSET Skippable(txn) :
                LET shown == Samples(txn) \ omitted
                IN  /\ txns' = [txns EXCEPT ![j].status = "accepted",
                                            ![j].shown = shown]
                    /\ disk' = disk \cup shown
                    /\ vault' = vault \cup CheckpointFiles(shown, shown)
                    /\ UNCHANGED <<pc, failure, exposed, faults>>
           \/ \E there \in SUBSET Samples(txn) :
                /\ Fault
                /\ txns' = [txns EXCEPT ![j].status = "failed"]
                /\ disk' = disk \cup there
                /\ vault' = vault \cup CheckpointFiles(there, Samples(txn))
                /\ Expose(there)
                /\ Raise("fail")
    /\ UNCHANGED <<native, image, python, sequence, run, snapshot, moment,
                   capture, history, runs, epoch>>

\* Every transaction is accepted: the point of no return of the step.
Reached ==
    /\ moments' = moments \cup {moment}
    /\ lineage' = lineage \cup Shown
    /\ skipped' = skipped \cup
          UNION {Samples(txns[j]) \ txns[j].shown : j \in DOMAIN txns}
    /\ pc' = "seal"

Finalize ==
    /\ pc = "accept" /\ AllAccepted
    /\ \/ /\ IF moment.start THEN UNCHANGED native ELSE NativeFinalize
          /\ Reached
          /\ UNCHANGED <<failure, faults>>
       \/ /\ ~moment.start
          /\ Fault
          /\ Raise("fail")
          /\ UNCHANGED <<native, history>>
    /\ UNCHANGED <<image, python, sequence, run, snapshot, txns, moment,
                   capture, files, runs, epoch>>

\* The cursors after _accept_consumers: those of the published samples.
AcceptedCursors == Advanced(cursors, Shown)

\* Mutant: the owner is registered under the index of the report before it.
OwnersOffByOne(from) ==
    {[index |-> Len(from) + j - 1, txn |-> Head(txns[j].effects)] :
        j \in DOMAIN txns}

\* The release owners of the transactions sealed after the reports in from.
Owners(from) ==
    {[index |-> Len(from) + j, txn |-> Head(txns[j].effects)] :
        j \in DOMAIN txns}

NewReports == [j \in DOMAIN txns |-> Head(txns[j].effects)]

\* The envelope is left; a step that was accepted is counted by the run.
LeaveEnvelope ==
    /\ pc' = "loop"
    /\ txns' = <<>> /\ capture' = NoCapture /\ moment' = NoMoment
    /\ snapshot' = NoSnapshot /\ image' = NoImage
    /\ sequence' = NoSequence
    /\ run' = IF moment.start THEN run
              ELSE [run EXCEPT !.steps = @ + 1,
                               !.rejected = @ + sequence.attempts - 1]

(***************************************************************************)
(* _seal_consumer_reports, then one more _retry_consumer_finalizers.  An   *)
(* error past native finalization is only reported; the handler keeps the  *)
(* cursors and rebuilds the reports from the snapshot.                     *)
(***************************************************************************)
Seal ==
    /\ pc = "seal"
    /\ \E failed \in SUBSET Owners(reports), cleared \in SUBSET pending :
        /\ IF failed = {} THEN UNCHANGED faults ELSE Fault
        /\ pending' = (pending \ cleared) \cup failed
    /\ cursors' = AcceptedCursors
    /\ reports' = reports \o NewReports
    /\ LeaveEnvelope
    /\ UNCHANGED <<failure, native, temporal, nextDt, files, history, runs,
                   epoch>>

SealRaises ==
    /\ pc = "seal" /\ ~moment.start
    /\ Fault
    /\ \E owners \in SUBSET Owners(reports) : pending' = pending \cup owners
    /\ cursors' = AcceptedCursors
    /\ reports' = snapshot.reports \o NewReports
    /\ LeaveEnvelope
    /\ UNCHANGED <<failure, native, temporal, nextDt, files, history, runs,
                   epoch>>

--------------------------------------------------------------------------------
(***************************************************************************)
(* Undoing an attempt (_abort_consumers and the exception handler).        *)
(***************************************************************************)

\* Mutant: only what is still staged is aborted.
UnresolvedStaged == {j \in DOMAIN txns : txns[j].status = "staged"}

Unresolved == {j \in DOMAIN txns : txns[j].status \in {"staged", "accepted"}}

\* transaction.abort() in reverse order; samples whose cleanup fails stay.
AbortOne ==
    /\ pc = "abort" /\ Unresolved # {}
    /\ LET j == Max(Unresolved)
       IN  \E there \in SUBSET txns[j].shown :
            /\ IF there = {} THEN UNCHANGED faults ELSE Fault
            /\ disk' = disk \ (txns[j].shown \ there)
            /\ vault' = {v \in vault : v.sample \notin txns[j].shown \ there}
            /\ Expose(there)
            /\ txns' = [txns EXCEPT ![j].status = "rejected", ![j].shown = {}]
    /\ UNCHANGED <<pc, failure, native, image, python, sequence, run, snapshot,
                   moment, capture, history, runs, epoch>>

\* _restore_unsuccessful_attempt_stats: the accepted authority with the
\* rejected and failed counts of the attempt that is undone.
RestoredCounts ==
    [snapshot.temporal EXCEPT
        !.rejected = @ + temporal.rejected - snapshot.temporal.rejected,
        !.failed = @ + temporal.failed - snapshot.temporal.failed]

\* ErrorControlledDt's retry callback.
Reduced == sequence.dt \div 2

MayRetry ==
    /\ failure = "reject"
    /\ ~(sequence.attempts > MaxRejections)
    /\ ~(Reduced < DtMin)

ForgetTransactions ==
    /\ txns' = <<>> /\ capture' = NoCapture /\ moment' = NoMoment
    /\ snapshot' = NoSnapshot /\ image' = NoImage

\* Every transaction is resolved: roll the engine back, restore the envelope.
UndoAttempt ==
    /\ NativeRollback
    /\ cursors' = snapshot.cursors
    /\ reports' = snapshot.reports
    /\ ForgetTransactions

AttemptRetried ==
    /\ pc = "abort" /\ Unresolved = {} /\ ~moment.start
    /\ MayRetry
    /\ UndoAttempt
    /\ temporal' = [RestoredCounts EXCEPT !.queue = Reduced]
    /\ nextDt' = snapshot.nextDt
    /\ sequence' = [sequence EXCEPT !.dt = Reduced]
    /\ failure' = "none" /\ pc' = "begin"
    /\ UNCHANGED <<pending, run, files, history, bounds>>

AttemptRaises ==
    /\ pc = "abort" /\ Unresolved = {} /\ ~moment.start
    /\ ~MayRetry
    /\ UndoAttempt
    /\ RunRaises(RestoredCounts, snapshot.nextDt)
    /\ sequence' = NoSequence
    /\ UNCHANGED <<pending, run, files, history, bounds>>

\* _fire_consumers has no native transaction and no envelope to restore.
StartRaises ==
    /\ pc = "abort" /\ Unresolved = {} /\ moment.start
    /\ RunRaises(temporal, nextDt)
    /\ ForgetTransactions
    /\ UNCHANGED <<native, cursors, reports, pending, sequence, run, files,
                   history, bounds>>

--------------------------------------------------------------------------------
(***************************************************************************)
(* Checkpoints on request, restart and process death.                      *)
(***************************************************************************)

Deeper == epoch < MaxEpochs /\ epoch' = epoch + 1

\* checkpoint(path) between two runs; release owners are retried around it.
Checkpoint ==
    /\ Idle /\ CheckpointAllowed(temporal)
    /\ vault' = vault \cup
          {[sample |-> NoSample, cursors |-> cursors, temporal |-> temporal,
            moments |-> moments, lineage |-> lineage, skipped |-> skipped]}
    /\ RetryFinalizers
    /\ UNCHANGED <<pc, failure, native, image, temporal, nextDt, cursors,
                   reports, sequence, run, snapshot, txns, moment, capture,
                   disk, exposed, history, bounds>>

RestoredCursors(v) == v.cursors

(***************************************************************************)
(* restart(path) of a visible checkpoint.  restore_checkpoint_payload      *)
(* applies the engine and the Python envelope inside one native            *)
(* transaction and undoes both on any error, so an attempt that fails is a *)
(* stuttering step.  Reports and release owners stay with the instance.    *)
(***************************************************************************)
Restart ==
    /\ Idle /\ Deeper
    /\ \E v \in vault :
        /\ native' = [step |-> v.temporal.step, time |-> v.temporal.time,
                      tx |-> "none"]
        /\ image' = NoImage
        /\ temporal' = v.temporal
        /\ nextDt' = v.temporal.queue
        /\ cursors' = RestoredCursors(v)
        /\ moments' = v.moments /\ lineage' = v.lineage /\ skipped' = v.skipped
    /\ run' = NoRun
    /\ UNCHANGED <<pc, failure, sequence, reports, pending, snapshot, txns,
                   moment, capture, files, faults, runs>>

\* The process dies anywhere; only files survive.
Crash ==
    /\ Deeper
    /\ pc' = "idle" /\ failure' = "none"
    /\ native' = [step |-> 0, time |-> 0, tx |-> "none"]
    /\ image' = NoImage
    /\ temporal' = NoRun.entry /\ nextDt' = DtInit
    /\ sequence' = NoSequence /\ run' = NoRun
    /\ cursors' = FreshCursors /\ reports' = <<>> /\ pending' = {}
    /\ snapshot' = NoSnapshot /\ txns' = <<>> /\ capture' = NoCapture
    /\ moment' = NoMoment
    /\ moments' = {} /\ lineage' = {} /\ skipped' = {}
    /\ UNCHANGED <<files, faults, runs>>

Step ==
    \/ PrepareAttempts \/ RunReturns \/ MaxStepsExhausted
    \/ Begin \/ SolveAccepted \/ SolveRejected \/ SolveFails
    \/ StageAtStart \/ StageStep \/ Commit \/ AcceptOne \/ Finalize
    \/ Seal \/ SealRaises
    \/ AbortOne \/ AttemptRetried \/ AttemptRaises \/ StartRaises

Next ==
    \/ Step
    \/ \E end \in RunEnds : Run(end)
    \/ Checkpoint
    \/ Restart
    \/ Crash

Spec == Init /\ [][Next]_vars

--------------------------------------------------------------------------------
Sample == [consumer : Consumers, occ : Int \X Int, n : Nat, epoch : Nat,
           run : Nat]
Authority == [step : Nat, time : Nat, accepted : Nat, rejected : Nat,
              failed : Nat, queue : 0 .. DtMax, last : 0 .. DtMax]
CursorSets == [Consumers -> [last : Int \X Int, n : Nat]]

(***************************************************************************)
(* Types of the envelope's state: the counters the code requires to be     *)
(* non-negative integers, the transaction phases, and samples everywhere.  *)
(***************************************************************************)
TypeOK ==
    /\ pc \in {"idle", "start", "loop", "begin", "solve", "stage", "commit",
               "accept", "seal", "abort"}
    /\ failure \in {"none", "reject", "fail"}
    /\ native \in [step : Nat, time : Nat, tx : {"none", "active", "committed"}]
    /\ image \in [step : Nat, time : Nat]
    /\ temporal \in Authority
    /\ nextDt \in Nat \ {0}
    /\ sequence \in [dt : 0 .. DtMax, attempts : 0 .. MaxRejections + 1]
    /\ pc \in {"begin", "solve"} => sequence.dt \in 1 .. DtMax
    /\ cursors \in CursorSets
    /\ reports \in Seq(Sample)
    /\ pending \subseteq [index : Nat, txn : Sample]
    /\ \A j \in DOMAIN txns : txns[j].effects \in Seq(Sample) \ {<<>>}
    /\ disk \subseteq Sample /\ exposed \subseteq Sample
    /\ \A v \in vault : v.cursors \in CursorSets /\ v.temporal \in Authority

(***************************************************************************)
(* Samples are published exactly once: on every lineage, across failed     *)
(* attempts, failed runs, repeated runs and restarts, the samples of a     *)
(* consumer are those of the moments at which it was due, less the ones    *)
(* its policy skipped, and its cursor counts them.  A lineage begun from a *)
(* checkpoint that a failed cleanup left has the samples it recorded       *)
(* (plan_accepted_side_effects, _restore_step_envelope, _restore_checkpoint). *)
(***************************************************************************)
OfConsumer(samples, c) == {a \in samples : a.consumer = c}
Occurrences(samples, c) == {a.occ : a \in OfConsumer(samples, c)}
DueOn(ms, c) == {Occurrence(c, m) : m \in {x \in ms : Due(c, x)}}

PublishedExactlyOnce ==
    pc # "seal" =>
        \A c \in Consumers :
            /\ Occurrences(lineage, c) \subseteq DueOn(moments, c)
            /\ DueOn(moments, c) \ Occurrences(skipped, c)
                    \subseteq Occurrences(lineage, c)
            /\ cursors[c].n = Cardinality(OfConsumer(lineage, c))
            /\ cursors[c].n = Cardinality(Occurrences(lineage, c))

(***************************************************************************)
(* The engine and the Python authority never part: whenever no attempt is  *)
(* open, no native transaction is, both stand at the same clock, and the   *)
(* number of accepted attempts is the number of steps of the lineage       *)
(* (rollback_step_transaction with _restore_step_envelope).                *)
(***************************************************************************)
EngineAndEnvelopeAgree ==
    pc \in {"idle", "start", "loop", "begin"} =>
        /\ native.tx = "none"
        /\ Position(native) = [step |-> temporal.step, time |-> temporal.time]
        /\ temporal.accepted = native.step

(***************************************************************************)
(* No visible sample escapes the books: one that this process published    *)
(* is accepted, still owned by an open transaction, or one whose removal   *)
(* was tried and failed, and then the run that published it is over or     *)
(* about to raise (_abort_consumers and the handlers that call it).        *)
(***************************************************************************)
VisibleIsAccounted ==
    \A a \in disk : a.epoch = epoch =>
        \/ a \in lineage \cup Shown
        \/ a \in exposed /\ (a.run = runs => pc \in {"abort", "idle"})

\* Samples counted from a checkpoint that a failed cleanup left visible.
Leftover(samples) == \E e \in exposed \cap samples : IsCheckpoint(e)

(***************************************************************************)
(* A visible checkpoint tells the truth from the moment it is visible, so  *)
(* also after a crash before the step is final: every sample it counts is  *)
(* on disk, its cursors count exactly those, and it stands at the last     *)
(* moment of its lineage (the cursor override and the two refusals of      *)
(* _stage_consumers).  Only a checkpoint that a failed cleanup left        *)
(* visible, and what is run from it, may count samples that were withdrawn *)
(* beside it; its cursors and its clock still agree with its lineage.      *)
(***************************************************************************)
CheckpointTellsTheTruth ==
    \A v \in vault :
        /\ v.lineage \subseteq disk \/ Leftover(v.lineage)
        /\ \A c \in Consumers :
            v.cursors[c].n = Cardinality(OfConsumer(v.lineage, c))
        /\ v.temporal.step = Max({0} \cup {m.step : m \in v.moments})

(***************************************************************************)
(* What the consumer contract says of the cursors, "no failed or skipped   *)
(* sample advances its scheduling cursor": every sample that the cursors   *)
(* of the process count is visible (cursor_updates, _restore_checkpoint).  *)
(* It does not hold after a restart from a left checkpoint: see Leftover.  *)
(***************************************************************************)
CountedIsVisible == lineage \subseteq disk

(***************************************************************************)
(* A release owner stays attached to the report of its own transaction,    *)
(* although failed attempts replace the report tuple                       *)
(* (_seal_consumer_reports, _retry_consumer_finalizers).                   *)
(***************************************************************************)
OwnersKeepTheirReport ==
    \A p \in pending :
        p.index \in DOMAIN reports /\ reports[p.index] = p.txn

(***************************************************************************)
(* No lattice point of an EveryDt consumer is stepped over                 *)
(* (next_consumer_deadline and the step_end of _run).                      *)
(***************************************************************************)
NoLatticePointSkipped ==
    \A m \in moments :
        \A c \in Consumers, t \in 1 .. m.time :
            Topology[c].trigger = "every_dt" /\ OnLattice(c, t) =>
                \E reached \in moments : reached.time = t /\ ~reached.start

================================================================================
