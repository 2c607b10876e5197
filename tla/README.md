# Verification of the PoPS runtime

PoPS is a C++20 solver for coupled hyperbolic-elliptic systems on adaptive
meshes, driven by a Python package (`validate -> resolve -> compile -> bind ->
run`). Its numerical kernels are tested by numerical means. What those tests
hardly reach is the bookkeeping around them: one macro-step has to advance the
engine, the Python clock, the adaptive controller, output files, checkpoints
and live frames *together*, although any of the calls involved may fail, be
retried, be undone, or be the last thing the process does. This project models
that bookkeeping in TLA+.

Source paths are those of the repository (`python/pops/...`, `src/runtime/...`).

## 1. Inventory

### Parts, state, operations

| part | state | operations |
|---|---|---|
| **consumer transaction** `runtime/_consumer_transaction.py` | `_state`, the lists `_prepared`, `_accepted`, `_finalize_pending`, skipped samples, recoveries | constructor (prepare all), `accept`, `reject`, `rollback_accepted`, `abort`, `seal` |
| **step envelope and run loop** `runtime/_runtime_instance.py` | consumer cursors, reports, release owners, recoveries, cursor override | `_run`, `_accepted_step_transaction`, `_stage/_accept/_abort/_seal_consumers`, `_fire_consumers`, `checkpoint`, `restart` |
| **planning and schedules** `runtime/_consumer_planning.py`, `time/_schedule/` | a cursor per consumer | due test, occurrence, next deadline, plan |
| **step strategies** `runtime/_step_strategy.py` | `next_dt`, the proposal of the running sequence | prepare, attempt, retry, accept; one decision for all ranks |
| **temporal restart state** `runtime/_temporal_restart.py` | accepted clock, attempt counters, event queue | accept, reject, fail, snapshot, restore |
| **native step transaction** `src/runtime/system/system.cpp`, `amr/amr_system.cpp` | accepted snapshot, phase | begin, commit, finalize, rollback |
| **multi-layout executor** `runtime/_multi_layout_executor.py` | child engines, transfer routes, generation | the same protocol over all children |
| **checkpoint restore** `output/_checkpoint_collective.py` | the native and the Python snapshot of a restart | preflight, begin, apply, commit, release, each with an all-rank consensus |
| **writers** `runtime/_output_publisher.py`, `output/_writers/` | temporaries, artifacts, quarantine | prepare, publish, discard, rollback, finalize |
| **durable observer journal** `output/_durable_journal.py` | hard links in `prepared/`, `pending/`, `delivered/` | prepare, discard, commit, delivered, recover |
| **post-commit queue and worker** `runtime/_observer_runtime.py` | bounded queue, gates, reports, worker thread | submit, deliver, flush, close, abort, seal |
| **artifact cache** `codegen/cache.py` | locked files, process-wide identities | look up, publish, load |
| **native program cadence** `runtime/program/program_runtime_state.hpp`, `cache_manager.hpp` | the open window, the value cache | prepare, hold, execute, store, restore, checkpoint |
| **AMR** `include/pops/amr/` | tags, boxes, flux ledgers | cluster, regrid, reflux |
| **case freeze** `problem/_freeze_transaction.py` | snapshots of the participants | capture all, freeze, restore |
| kernels, authoring API, code generation, bindings | - | not modelled |

### How they interact

`_run` asks planning for the next deadline and the strategy for a step size,
opens the native transaction, advances the engine, and plans the samples due at
the new moment. Staging prepares them as temporaries; a checkpoint among them
is written with the cursors it *predicts*. The engine commits, the transactions
publish, the engine finalizes: that is the point of no return. Afterwards
transactions are sealed, which releases resources and hands live frames to the
journal and to the worker thread. Any error before the point of no return
aborts the transactions in reverse order, rolls the engine back and restores
the Python envelope; a rejected attempt is then retried with a smaller step.

### What is hard

* *Partial failure*: every publisher call may raise, its cleanup may raise, and
  several transactions and the engine must be undone together.
* *Retries*: of a publication, of a step, of an acknowledgement, of a release.
* *Crashes*: a checkpoint is visible before its step is final; the journal is
  in the middle of a link, an fsync and an unlink.
* *Two threads* on the journal's directories, and on the queues between the run
  and its monitors: bounded queues, gates, a worker that fails while it is being
  closed.
* *Several ranks* that must act alike although each fails on its own: on the
  verdict of an attempt, in a restore, in the collective calls of a monitor.
* *Other processes* in the output directory.
* *Prediction*: cursors recorded before the samples they count are published.
* *Boundaries*: deadlines against `t_end`, `dt_min`, `max_rejections`,
  `max_steps`; a window divided into substeps; a cut at the least box size.

`PROJECT.json` lists the hazards at their lines, with the properties that cover
them or the reason why none does yet.

### What correctness means, part by part

* transaction: nothing the publisher holds is forgotten; it is accepted or
  withdrawn as a whole; what was sealed stays.
* envelope: engine, Python authority, cursors, samples and reports move
  together; each due sample is published exactly once, also across restarts; a
  visible checkpoint is true; no lattice point is stepped over; runs end.
* journal: a frame handed off is executed at least once; an acknowledged one is
  not replayed; a committed one is queued or known to be given up.
* queue and worker: no frame is lost or reported twice; a stopped worker has
  drained; a session is opened and closed once; nobody waits for ever.
* collective monitor: all ranks enter the provider in the same order; finalize
  and abort neither mix nor repeat.
* attempts: all ranks share one fate; a restart decides like the run it
  replaces; runs end on all ranks.
* restore: the checkpoint is adopted everywhere or nowhere, and a rollback stays
  possible until the last vote.
* multi-layout step: the children keep one accepted state; mappings read
  accepted sources and are applied once.
* writers: no file of another process is deleted but one that `publish` took for
  its own; what stays detached is
  recorded.
* program cadence: every instant is covered once; held values belong to the
  lineage, but for what a live restart leaves; a restart resumes window and cache.
* clustering: the boxes are a disjoint cover of the tags; no axis is preferred.

## 2. Modules

| module | what it is |
|---|---|
| `ConsumerContract` | abstract: a transaction ends accepted, withdrawn or sealed, in one step |
| `ConsumerTransaction` | `_consumer_transaction.py`, one step per publisher call |
| `ConsumerTransactionProofs` | its invariants, the refinement of `ConsumerContract`, and the invariants of the file behind an effect (`ArtifactPublication`) |
| `StepEnvelope` | `_runtime_instance.py` with planning, strategy, native protocol, checkpoint, restart |
| `StepEnvelopeProofs` | its six invariants, for any graph of consumers, any periods and any number of runs and deaths |
| `DurableJournal` | `_durable_journal.py` with its main thread and its worker |
| `DurableJournalProofs` | its three invariants, for any number of frames, attempts and faults |
| `ObserverQueue` | the queues, gates and the shared worker thread of `_observer_runtime.py` in one process |
| `ObserverQueueProofs` | the invariants of the queues, for any number of monitors, and of the collective lane, for any number of ranks |
| `ObserverLane` | one collective monitor on several ranks (`_runtime_consumers.py`) |
| `StepAttempts` | the collective verdict, retry and queued proposal of `_step_strategy.py` and `_temporal_restart.py` on several ranks |
| `StepAttemptsProofs` | the ranks share their fate, for any number of ranks and any rounding |
| `CheckpointRestore` | `restore_checkpoint_payload` and the executors it drives, on several ranks |
| `CheckpointRestoreProofs` | its two invariants, for any number of ranks and engines |
| `MultiLayoutExecutor` | `_multi_layout_executor.py` with its child engines and transfer sessions |
| `MultiLayoutExecutorProofs` | its three invariants, for any layouts and any graph of mappings |
| `ArtifactPublication` | one staged output file of `_writers/common.py` among other processes |
| `ProgramCadence` | windows, substeps and value cache of an installed Program |
| `ProgramCadenceProofs` | its three invariants, for any stride, substeps, Program and step sizes |
| `TagClustering` | Berger-Rigoutsos clustering (`berger_rigoutsos.hpp`) |
| `MC...` | the instances that TLC checks |

### ConsumerTransaction

An effect is its position in the plan. `state` is `_state`, `method` the public
method being executed, `pc` the publisher call that comes next; `prepared`,
`pending`, `accepted`, `finalizePending` are the code's lists (`pending` is the
*local* list of `accept` and `seal`), and `artifact` is what the external
publisher holds. Each of `prepare`, `publish`, `discard`, `rollback` and
`finalize` is one step with a nondeterministic outcome: it returns, it raises
without effect, it raises although it took effect, or it leaves a quarantined
artifact, with or without a recovery authority. A `prepare` that raises, or
returns what `_validate_prepared` refuses, hands nothing over: a temporary it
had made by then is in `dropped`, outside every list. The Python code between two
publisher calls belongs to the step. `Cancel` is an exception outside
`Exception` (`KeyboardInterrupt`, `SystemExit`), which the handlers do not
catch; it is part of `SpecWithCancellation` only, which no run uses (section 3,
known deviations).

Abstracted: identities and receipts (an effect authenticates itself; a receipt
that does not is a `publish` that raises), texts, the payload.

### ConsumerContract and the refinement

The envelope does not care how many calls a transaction makes. The contract has
three steps: `Accept` shows all samples but some that may be omitted,
`Withdraw` shows none and leaves some behind, `Seal` ends the right to
withdraw. The mapping takes `phase` from `state`, `shown` from the reported
cursors and `left` from what the publisher still holds. `StepEnvelope` uses
transactions through this contract: its `AcceptOne` and `AbortOne` are
`Accept` and `Withdraw`.

### StepEnvelope

`pc` follows the calls of one macro-step: `loop`, `begin`, `solve`, `stage`,
`commit`, `accept`, `seal`, or `abort` after an error; `start` is
`_fire_consumers(at_start)`. State follows the code: `native` and `image` (the
engine and its accepted snapshot), `temporal`, `nextDt`, `cursors`, `reports`,
`pending`, `snapshot` (`_step_envelope_snapshot`), `run` (the locals of `_run`
with the run-entry copies). `disk` and `vault` (the checkpoints) are what is
visible outside, `exposed` is a history of the samples that a failed cleanup
left there; `moments`, `lineage` and `skipped` are histories of the lineage the
process is on, and a checkpoint carries them so that a restart resumes the
right one.

Choices:
* One rank. A failed attempt of any rank is already one decision here
  (`StepAttempts` models how it is reached).
* `temporal` carries the queued proposal and the last accepted step; a
  checkpoint is refused where the queue is not the one the accepted boundary
  published (`CheckpointAllowed`), and `BeginRun` replaces it.
* Time is a small integer grid; `shrink` is 1/2 and `growth` 2. The tolerance
  of `_same_physical_time` is exact equality.
* The controller is `ErrorControlledDt`, the one with retry state.
* An engine rolls back whenever a transaction is open. The code only notes a
  rollback that fails; the engine's state is unknown then.
* `restart` is one step: `restore_checkpoint_payload` undoes a failed restore,
  so a failure is a stuttering step.
* A sample whose cleanup fails stays at its path with no owner, or is in a
  quarantine, out of sight: `_retain_consumer_recoveries` keeps authorities over
  quarantined files only (`ArtifactPublication` has these). A checkpoint left
  at its path can be restarted from.
* A step is a whole call: interrupts inside `Finalize` and inside the sealing
  loop are not modelled (known deviations).
* Not modelled: console, run manifests, the `_attempt` counter, the Attempt,
  Stage, AMRLevel, Event and WallOutput domains, retries of
  retained recoveries.

### DurableJournal

A call of the journal is a `script` of system calls: `probe` (an existence
test), `link`, `unlink`, `sync`. Between any two of them the other thread runs,
the process dies, or the machine loses power. `visible` holds the links,
`durable` those that survive a power loss; `sync` makes one directory durable,
and a power loss keeps any choice of the entries that are not. The main thread
prepares a frame, then discards or commits it; the worker executes and
acknowledges frames. A process death is followed by a new run that starts
anywhere, because the identity of a run is a function of its controls, so the
same frames come again. Replay is asynchronous, as it is outside the MPI modes.
Recovery takes the names one at a time, in any order (an archive name is a
hash); nothing else runs meanwhile. `InClockOrder` is the sort of
`list_pending`, by which the pending frames are submitted again. Once `commit()`
has returned, the queue takes the frame (`CommitReturns`) or the submission fails
(`SubmissionFails`: the queue refuses it, or another rank does) and the frame
waits for the next run.

Abstracted: archive bytes (fsynced before they get a name), authentication,
temporaries, the bound of the queue, MPI. `SyncFails` models an fsync that
raises; other system calls succeed.

### ObserverQueue

`main` is where the main thread is (opening a monitor, admitting a frame, in
flush or in close), `fifo` and `hand` are the worker thread, `queue` the fields
of each `PostCommitObserverQueue`, `shut` and `cancelled` the gates of deferred
submissions, `held` what the publisher retains for a later close. A step is
what a thread does between two waits or provider calls; a provider call has a
chosen outcome. `session` and `executed` are the provider's side. Two closes
are tried after a completed run. The payload, the texts of reports and the
journal (see `DurableJournal`) are abstracted; in ROOT mode the answer of the
other ranks is a chosen outcome. A delivery that loses the worker's
communicator is in `ObserverLane`; here it is a delivery that raises, after
which `collectiveLost` stays FALSE and a close may still abort the session.

### ObserverLane

The COLLECTIVE mode. Main threads exchange rows on the world communicator: a
rank does the local part of a `stage`, arrives, and all leave together. Worker
threads enter the provider and exchange rows on the duplicated communicator.
Every frame is drained before the next stage, so a worker has at most one task.
External assumption: a collective ends alike on all its ranks, and a broken
lane fails every later call on it.

### StepAttempts

Each rank prepares a proposal, attempts it and brings its verdict to one
allgather; all act on the common decision. `temporal` is
`_temporal_restart_state` with its one-element queue, `cursor` the retry
sequence, `snapshot` and `entry` what the envelope and the run restore. Times
are binary floating-point numbers with `Precision` bits; growth 2 and shrink
1/2 scale them exactly, an addition rounds. What follows the verdict (the
samples of the step) fails or succeeds alike on all ranks, because it is a
consensus of its own. A failed run that has accepted a step leaves the replaced
proposal in the queue, so a checkpoint right after it is refused, as in the
code.

### CheckpointRestore

A rank's local part of a stage is one step that chooses where it fails; the
exchange at the end of the stage gives all ranks the same rows. A state is the
number of the call that restored it, `Torn` one written in part. Native
transactions, Python snapshots, the composite's guard and the outer parts of
`RuntimeInstance` (cursors, diagnostics, identity) are kept apart because their
rollbacks fail independently. Assumed: the checks before the first exchange
(the canonical path, the decoding of the archive) have the same outcome on all
ranks.

### MultiLayoutExecutor

One thread, so an action is one call of a child engine or of a transfer
session, and `pc` and `i` say which comes next: `begin`, `capture`, `apply`,
`advance`, `commit`, `finalize`, or the ways back `unwind`, `reject`, `undo`,
`again`, `rollback`. The content of an engine is its macro-step and the
mappings fed to it since. A call that raises may leave its engine `Torn`; a
failed native rollback leaves the transaction open with its snapshot. An
interrupt may fall between the return of `begin_transaction` and the append
that records the session; the session then stays open and later steps are
refused. `finalize` does not raise: the code says it is a no-fail release.
Ranks are not modelled.

### ArtifactPublication

One staged file, its temporary and its target path. `publish`, `discard`,
`rollback` and the operations of the recovery registry are sequences of system
calls, any of which may fail; between two of them other processes create,
replace or remove files at both paths, and inode numbers are used again. Rank
zero makes the system calls, the others wait for its verdict. `Adopted(i)` says
that `publish` took the file of another process for its own: it was put in the
place of publish's link between the last check and the reading of the evidence.
Formats, the series catalogue and multi-file output are left out.

### ProgramCadence

One facade step either lengthens the held window or executes the Program
`Substeps` times over it. `clock`, `window`, `slots` (the value cache) and
`field` (what the blocks embody) are the accepted stores; `image` is the
snapshot of the open transaction, `saved` the checkpoint. `field.covered` and
`field.latest` are histories that go back with the blocks. A node has a period
or a predicate and an off-cadence policy (hold, accumulate, zero, error). Time
is an integer grid: an endpoint between two instants is rounded down, and a
substep that collapses is refused. On this grid the accumulated duration of a
window is the difference of its ends; the refusals that floating point adds
(`prepare_cadence_step`) are a choice, `RefuseStep`. A restart happens in a
fresh process or in the runtime that went on (`Hosts`); `field.stale` is a
history of the nodes whose slot a live restart left behind. Left out: the
balance mailbox, history rings, frames of `clock_schedule.hpp`, the Skip
policy, the AMR variant.

### TagClustering

A call of `cluster_rec_` is a step, `todo` its stack. Signatures, holes,
inflections, the choice among axes, children and chopping are operators
translated from the header; the work budgets are counters. The code cuts every
axis that ties, where `docs/ALGORITHMS.md` speaks of one; the model follows the
code. The efficiency threshold is an exact fraction; shards, authentication
and the bytes of identities are left out, and the result is a set.

### How the modules fit together

`StepEnvelope` uses a transaction as `ConsumerContract` describes it, and
`ConsumerTransaction` is proved to implement that contract. `StepEnvelope`
takes three things as one step which another module opens up: the verdict on an
attempt (`StepAttempts`), `restart` (`CheckpointRestore`), and the calls of the
native transaction (`MultiLayoutExecutor` for several layouts, `ProgramCadence`
for what one engine does inside). `ArtifactPublication` is the publisher that
`ConsumerTransaction` leaves open: its outcomes are among those allowed there.
`DurableJournal`, `ObserverQueue` and `ObserverLane` are the three sides of a
live frame after its step: its durable record, the threads of one process, the
ranks. These links are by construction of the assumptions, not by a checked
refinement.

## 3. Runs

| run | checks | distinct states |
|---|---|---|
| `consumer_transaction` | `TypeOK`, `NoOrphan`, `WithdrawalIsAccounted`, `AcceptanceIsExact`, `PublishedInPlanOrder`, `CompensatedInReverse`, `EventuallyResolved`, `ImplementsContract` | 228 534 |
| `step_envelope` | `PublishedExactlyOnce`, `EngineAndEnvelopeAgree`, `VisibleIsAccounted`, `OwnersKeepTheirReport`, `NoLatticePointSkipped`, `CheckpointTellsTheTruth` with failures, process deaths and restarts | 409 614 |
| `durable_journal` | `HandoffSurvives`, `AckIsFinal`, `PendingIsQueued` under every kind of fault | 287 484 |
| `observer_queue` | `NoFrameLost`, `StoppedIsDrained`, `SessionDiscipline`, `CallsReturn` | 149 978 |
| `observer_lane` | `SameOrder`, `OneFarewell`, `LaneCallsReturn` | 33 231 |
| `step_attempts` | `SameFate`, `RestartReplays`, `RunsEnd` in exact time | 262 141 |
| `step_attempts_checkpoint` | `BoundaryIsCheckpointable` in rounded time: violated | - |
| `checkpoint_restore` | `AllOrNothing`, `RollbackStaysPossible`, `CallsReturn` | 34 150 |
| `multi_layout` | `SourcesAreAccepted`, `ChildrenStayTogether`, `FedOncePerStep` | 137 149 |
| `artifact_publication` | `OthersSurvive`, `LeftIsRecorded` | 757 622 |
| `program_cadence` | `ProgramCoversTime`, `ResumesTheRun`, `HeldIsLatest` | 769 498 |
| `tag_clustering` | `CoversTags`, `AxesAreAlike` | 107 231 |

Every module has a `TypeOK` that says which values its variables take. Only
that of `ConsumerTransaction` is part of a run. It is proved of every module
but `StepAttempts` and `TagClustering`.

### Bounds

* `consumer_transaction`: four effects, in the order Retry(3),
  SkipSampleReported, Retry(2), FailRun: every action comes before and after
  another one, a retry can be used up in either round, and the last effect has
  the place of a checkpoint.
* `step_envelope`: four consumers on two clocks (AtStart, EveryDt(3), a
  checkpoint every 2 steps, an AtEnd consumer behind the checkpoint that may
  skip), `t_end` 2 or 4, steps of 1 or 2, one rejection per step, three steps
  per run (so `max_steps` is reached), two runs, two failures, two process
  deaths or restarts (crash, restart, and again). Steps of 2 would jump over
  the lattice point 3 if no deadline clipped them. A run that ends on a
  checkpoint step is refused by `_stage_consumers`; both refusals occur. Two
  failures are a publication that raises and a cleanup that fails; the restart
  budget lets a checkpoint left that way be used.
* `durable_journal`: two frames (one replayed while the other is prepared), two
  attempts, two faults. The two-fault histories include a death followed by a
  power loss and a fault during the recovery from another.
* `observer_queue`: two queues on one worker, one with room for one frame and
  two attempts, one with room for two and one attempt; three frames each, so
  both become full; two faults, so that a close meets a worker that has failed
  and fails again.
* `observer_lane`: two ranks, two frames, three faults: a local failure, a lost
  collective and a failing close in one history.
* `step_attempts`: two ranks, two rejections per step, two runs with `t_end` 8
  or 12 and steps of 2 to 8 (the proposal grows, is clipped and is halved
  twice), one fatal failure. `step_attempts_checkpoint`: one rank, three-bit
  times, no failure.
* `checkpoint_restore`: two ranks with two engines each, two calls (the second
  after a failed or an accepted one), three failures: an error and two failing
  rollbacks.
* `multi_layout`: three layouts, mappings 1 to 2, 2 to 1 and 2 to 3 (a cycle
  and a fan-out), two steps, two rejections, three failing calls, one interrupt,
  seven begun steps.
* `artifact_publication`: three inodes, three calls, one failing system call,
  three steps of other processes: replace, remove, use the number again.
* `program_cadence`: windows of two steps in three substeps, steps of 1 or 3 (a
  window of 2 collapses, 4 and 6 divide unevenly or evenly), three windows, four
  nodes with all four policies, one rejection, refusal or failure, one restart in
  a fresh process or in the same runtime.
* `tag_clustering`: every set of up to five tags on a 4 by 4 and a 1 by 2 patch,
  least size 2 by 1, greatest 2 by 3, threshold 2/3, budgets that suffice for
  some sets and not for others.

A run may stop for good when its bounds are used up or its object is closed, so
deadlock is checked only in `DurableJournal`; where waiting is the hazard, a
liveness property (`CallsReturn`, `LaneCallsReturn`, `RunsEnd`) is checked
instead.

### Fairness

`ConsumerTransaction`: weak fairness of `PublisherReturns` says that a public
method runs to its end once called; all its loops are bounded. Weak fairness of
`Accept \/ Reject` says that the envelope resolves what it staged, which its
`except BaseException` handler and its straight-line body do. No outcome of a
publisher call is assumed. `ObserverQueue` and `ObserverLane`: weak fairness of
the worker thread and of the main thread inside a call (`Worker`, `Continue`):
threads are scheduled and provider calls return or raise; nobody has to submit
another frame. `StepAttempts` and `CheckpointRestore`: weak fairness of each
rank's local part and of the exchange, which MPI completes once all have
arrived; nobody has to start a run or a restart. The other modules state no
fairness and no liveness.

### Finding

* **A checkpoint at a regular boundary is refused** (`step_attempts_checkpoint`).
  `checkpoint_json` demands that the queued proposal equal
  `last_accepted_dt * growth` bit for bit, where `last_accepted_dt` is the
  difference of two rounded times, and the controller queues the step it has
  taken times `growth`. When `t + dt` rounds, the two differ and the checkpoint
  raises.

### Known deviations seen while modelling

Other places where the code does not do what one of its comments or docs says,
or leaves something behind, met while writing the models. They are described
here and no run is about them; unless it is said that a model has the step, the
models leave them out, so that the properties above speak of the rest.

Three of them are exceptions inside a checked property: the model has the step,
the property of the run says that nothing else goes wrong, and a sharper
invariant beside it states what the document says, which TLC refutes within
the bounds of the same run.

* *A left checkpoint counts withdrawn samples* (`_runtime_instance.py:2374`). The
  consumer contract (`consumer_graph_transaction_contract.md:136`) says that "no
  failed or skipped sample advances its scheduling cursor". A checkpoint is
  accepted last, with predicted cursors. When its publication raises, its cleanup
  fails, and the abort withdraws the samples before it, the file at its path
  counts samples that are gone, and a restart from it never produces them again.
  `CheckpointTellsTheTruth` holds: without such a file every checkpoint counts
  only samples on disk, and with it the cursors and the clock still agree with
  the recorded lineage. `CountedIsVisible` is the sharper invariant.
* *A replacement is adopted and deleted* (`_writers/common.py:1034`). A file that
  another process puts in the place of publish's link, between the check of the
  link and the reading of the evidence, becomes the evidence, and `rollback`
  unlinks it, although "rollback refuses a target that has since been replaced
  and never deletes the replacement" (`exact-output-consumers.md:377`).
  `OthersSurvive` says that no other file of another process is ever deleted;
  `ReplacementSurvives` is the sharper invariant.
* *An unrecorded slot survives a live restart* (`_system_io.py:713`). Slots that
  the checkpoint does not record stay valid with values of the abandoned run,
  where `system.hpp:1229` says that such a node "fails loud at restart".
  `HeldIsLatest` and `ResumesTheRun` say that nothing else of an abandoned run
  can be read, and that it ends when the node is computed again;
  `UnrecordedFailsLoud` is the sharper invariant.

The others:

* *Cancellation inside `accept`* (`_consumer_transaction.py:402`). `accept`
  moves `_prepared` into a local list and handles `Exception` only. After a
  `KeyboardInterrupt` in `publish` the transaction is still `staged` with empty
  lists; `abort` reports a clean rejection while an artifact is published.
  `SpecWithCancellation` with the invariant `RejectedHasNoArtifact` shows it.
* *Temporaries of a failed prepare* (`_consumer_transaction.py:270`). `_prepare_one`
  drops what `prepare` returned when validation refuses it, and has nothing to
  discard when `prepare` raises after it made its file; no report names the
  temporary. The model has this step. `NoOrphan` is about what was handed over,
  and says of the rest that the failed prepare shows (as a skipped sample or a
  failed transaction) unless a later attempt succeeded.
* *Only the first abort failure is raised* (`_runtime_instance.py:1069`). When the
  cleanups of two transactions fail, the second leftover is visible and named
  nowhere. `VisibleIsAccounted` says that the run that published it has ended
  or is about to raise.
* *Recovery trusts links it has not synced* (`_durable_journal.py:359`). The
  module comment says that a crash "cannot turn a committed frame back into an
  uncommitted one". A process death between `os.link` and the fsync of the
  destination, a recovery, and a power loss lose a frame that the recovered
  journal had listed. A frame whose `commit()` returned is safe
  (`HandoffSurvives`).
* *A prepared intent that cannot be discarded* (`_durable_journal.py:439`).
  `prepare` tests three directories in turn while the worker acknowledges a
  replay of the same frame; it can return a `prepared` record whose discard is
  refused for ever.
* *Interrupts in the envelope* (`_runtime_instance.py:1393`, `:1143`). One
  between the return of `finalize()` and the assignment of the phase makes the
  handler compensate a finalized step; one inside the sealing loop loses the
  local list of release owners.
* *An interrupt in a multi-layout begin* (`_multi_layout_executor.py:1130`)
  leaves a session open that no rollback names; every later step is refused.
  The model has this step, and the children still agree.
* *A recovery under the wrong inode* (`_writers/common.py:957`). When the look
  at a moved entry fails, the recovery names the expected inode; if the path
  had been replaced, `restore()` refuses it for ever.
* *`accumulate_dt`* (`program_emit_schedule.py:126`). The generated code computes
  the effective step and drops it; the body runs with the plain step.
* *The balance mailbox* (`system.cpp:56`) is described as cleared before every
  public step; nothing outside the tests clears it.
* *The physics facade* (`_facade_compile.py:267`) looks for a shared artifact
  without the lock of the cache and lets the linker write to its path.

## 4. Proofs

Eight modules hold proofs that TLAPS checks. They are about every value of the
constants that the modules' assumptions allow, where a run is about one.

| module | theorems | from |
|---|---|---|
| `ConsumerTransactionProofs` | `TypeCorrect`, `NothingForgotten`, `WithdrawalAccounted`, `AcceptanceExact`, `SealIsFinal`, `PlanOrder`, `ReverseOrder`, the refinement `ContractHolds` | `PlanAssumption`: at least one effect and one attempt |
| same, last part | `FileTypes`, `OthersAreSafe`, `RemnantsAreRecorded` | `PublicationAssumption` |
| `StepEnvelopeProofs` | `TypeCorrect`, `PublishedOnce`, `EngineFollowsEnvelope`, `NothingVisibleEscapes`, `OwnersStayAttached`, `LatticeIsHit`, `CheckpointsAreTrue` | `EnvelopeAssumption`: distinct clocks, periods above 0, `DtMin <= DtInit <= DtMax` |
| `ObserverQueueProofs` | `TypeCorrect`, `NoFrameIsLost`, `WorkerDrains`, `SessionsLiveOnce` | `QueueAssumption`: at least one queue, capacities and attempts above 0 |
| same, last part | `LaneTypes`, `CollectivesAlign`, `FarewellOnce` | `LaneAssumption`: at least one rank |
| `DurableJournalProofs` | `TypeCorrect`, `HandoffIsDurable`, `AcksAreFinal`, `NoneStranded` | `JournalAssumption`: at least one frame and one attempt |
| `MultiLayoutExecutorProofs` | `TypeCorrect`, `ChildrenTogether`, `FedOnce`, `SourcesAccepted` | `LayoutsAssumption`: at least one layout; mappings join layouts |
| `CheckpointRestoreProofs` | `TypeCorrect`, `RestoreIsAtomic`, `SnapshotsAreKept` | `RestoreAssumption`: the root is a rank, at least one engine |
| `ProgramCadenceProofs` | `TypeCorrect`, `CoversTime`, `HeldValues`, `RestartResumes` | `CadenceAssumption` |
| `StepAttemptsProofs` | `RanksAgree` | `AttemptsAssumption` |

Two proof modules extend two components each: the transaction and the file its
publisher handles, the queues of one process and the lane between processes.
The components do not interact in the proofs; their names are disjoint
(`FileSpec`, `LaneSpec`).

In each module `Invariance` (`LaneInvariance` of the lane) shows
`Spec => []IndInv` from one lemma per action;
every theorem about a property is a consequence. TLC has checked each `IndInv`
as an invariant of the module's run before it was proved.

### ConsumerTransaction

None of the properties is inductive. `NoOrphan` speaks of the lists, but says neither
which list can be non-empty at which call nor how far a cleanup loop has come.
`IndInv` adds:
* `ControlInv`: which call can come next in which method and state;
* `ListInv`: which lists can hold something, and when;
* `LoopInv`: what lies behind the index of a cleanup or release loop is gone,
  or has a diagnostic;
* `OrderInv`: the lists are in plan order and the effect in hand sits between
  them;
* `StagedInv`, `PartitionInv`: until a withdrawal begins, every effect is on
  exactly the list that matches its artifact, in hand, skipped or still to come;
* `CursorInv`, `SealedInv`: cursors are those of the accepted list, and sealing
  freezes them.

`NoOrphan` itself has two parts, each with a lemma: `HeldStep` for what was
handed over, `ShowStep` for what a failed prepare kept.

Each conjunct has a lemma with one step per action; `IndInvStep` combines them.
Facts about sequences (contents of an appended, tailed or joined list, order)
are lemmas of their own.

`ReverseOrder` adds `ReverseInv` (what lies behind the index of the
compensation loop is in the report) and `PublishedIsKept`: only a step of that
loop or a release changes what the publisher holds for a published sample.

`ContractHolds` is the refinement. `SkipInv`
(only a sample with SkipSampleReported is skipped) is added to the invariant;
`VisibleSteps` splits the steps into the hidden ones and the three that end a
method; `ContractStep` maps each to a step of the contract or to a stutter.
`SealIsFinal` states `SealedIsForever`, which no run lists because
`ImplementsContract` asks the same of the contract's `Seal`.

### ArtifactPublication

`FileInv` adds to the two properties:
* `DirectoryInv`: a call makes at most two private directories, so that the one
  `mkdtemp` returns is new. Without it a quarantined file could be overwritten;
* `PointInv`: which path a call is removing, and that only a rollback of a file
  that made its target removes the target;
* `OwnerInv`: while a call may still remove something the staging descriptor is
  open, so that the number of the staged inode is not used again; until
  then no other process owns that number;
* `TargetInv`: a target this file made is owned by the staged inode until the
  evidence is read and by the inode of the evidence from then on.

The last one is where the race of section 3 enters: a rollback deletes the inode
of the evidence, and if that is not the staged one it is `Adopted`.

### StepEnvelope

The difficulty is that most state is provisional. `Base` is the accepted
authority: the temporal state outside an attempt, its snapshot inside one; each
part of `IndInv` is stated over it.
* `ShapeInv`, `ControlInv`: the types of what an attempt retains, and which
  native transaction is open at which call;
* `PositionInv`, `EntryInv`, `BoundaryInv`: where the engine stands, where a
  rollback would put it, and that the open step ends at the next deadline at the
  latest. `EngineFollowsEnvelope` and `LatticeIsHit` come from these;
* `StatusInv`, `EffectInv`, `CaptureInv`: each staged transaction shows what its
  status says; the transactions hold one effect per planned consumer; a staged
  checkpoint comes last and has recorded what will be true once all of them are
  accepted;
* `BooksInv`, `VaultInv`: the `Books` of a lineage (its cursors count its
  samples, each sample was due, each moment due has its sample or was skipped)
  balance for the running process *and for every checkpoint on disk*, because a
  restart makes a checkpoint the running process;
* `DiskInv`: who knows of a visible sample. A checkpoint of the open attempt may
  count samples that are not accepted yet; an abort takes it away first, or its
  cleanup fails and it is exposed. `Backed` is what survives of a lineage then:
  its samples are on disk, or one of them is an exposed checkpoint, from which
  everything later was run;
* `ExposedInv`: a run that exposed a sample is aborting for good or over; a
  rejected attempt, which is retried, has no transaction yet that could.

`PublishedExactlyOnce` and `CheckpointTellsTheTruth` follow from the books,
`VisibleIsAccounted` from the last two, and `OwnersKeepTheirReport` is a conjunct
of its own.

### ObserverQueue

`NoFrameLost` is stated over places, the positions of the FIFO with 0 for the
task in the worker's hand: the frames without a report occupy exactly one place
each, in order. It is inductive with:
* `MainInv`: which queue the main thread is working on and what it holds;
* `CallInv`, `StopInv`, `TaskInv`: a lifecycle call is the last task and the main
  thread waits for it; nothing follows Stop. `WorkerDrains` comes from these;
* `SessionInv`, `WaitInv`: how far a session is, by what is held of it and by the
  result of the call being waited for. An aborted session that is still held has
  an error on its queue, so that no delivery enters it. `SessionsLiveOnce` is
  the action property that follows.

### ObserverLane

`LaneInv` is about pairs of ranks.
* `StageInv`, `OwnerInv`: all main threads are in one stage that goes with the
  phase; all ranks hold something or none does;
* `LaneTaskInv`: a worker is busy only with the armed task its own main thread
  waits for, so that the lane is empty when the main threads meet;
* `EntryInv`: two ranks have entered the same operations, or one of them has
  the last one still before it (`WillEnter`). `CollectivesAlign` follows, a lost
  lane included;
* `FarewellInv`: after a farewell the owners were given up, or its retry is
  blocked on every rank (`KeptInv`); a run that finalizes has no error but
  those of a lost lane, one that aborts has an error (`RouteInv`), so that a
  second close takes the route of the first and is stopped there (`ReadyInv`).
  `FarewellOnce` follows.

TLC has checked `LaneInv` on three ranks as well (434 164 states).

### DurableJournal

A thread is always inside the script of its operation: `Rest` says that the
calls left are the last ones of that script, so that the number of calls left
(`Left`) tells where the thread stands. `WorkerMove`, `CommitMove`,
`PrepareMove` and `RecoverMove` give the effect of the next call on the four
sets that matter: the links in `pending` and `delivered`, visible and durable.
The rest of the proof never looks at a script again. `IndInv` says beside it:
* `ExecutedInv`: a link in `delivered`, visible or durable, is the trace of an
  execution, so that whoever unlinks a pending frame because it is in
  `delivered` unlinks an executed one;
* `HandedInv`: a frame whose `commit()` returned has a pending link that is
  visible *and* durable, or was executed. This is `HandoffSurvives` with what
  a power loss leaves of it;
* `PreparedInv`, `CommitInv`: a commit past its first probe owns its frame: it
  was not pending, is neither queued nor in `delivered`, so the worker cannot
  touch the link that the commit makes, and its link is durable when it returns;
* `RecoverInv`: a frame with a link in both directories has a name that
  recovery has not looked at, or its pending link is the next to go;
* `QueueInv`: a queued frame has a link that says so;
* while every fsync succeeds, `SyncedInv`: an acknowledged frame is in
  `delivered`, durably; only the frame the worker is acknowledging has both
  links; no frame is queued twice, and none that was acknowledged.

A failed fsync breaks the last part (the worker may give a frame up that is in
`delivered`), which is why `AckIsFinal` and `PendingIsQueued` are about runs
whose fsyncs succeed. `HandoffSurvives` holds with failures.

### MultiLayoutExecutor

`IndInv` gives the range of the loop index at every place (`IndexInv`) and what
each child holds there, before and behind the index (`ChildInv`). Its core is
`Recoverable`: until the step is finalized, a child without a transaction is at
the accepted state and one with a transaction has a snapshot of it. `HeldInv`
says that captured buffers hold accepted states.

### CheckpointRestore

`RankInv(r)` says what rank r holds at each stage of the call: an executor that
is `Clean`, `Held` (it can go back) or `New`, the same of the outer parts, and
which votes the rank can have cast. A step of one rank keeps the `RankInv` of
all others, because they only share the accepted checkpoint and the exchange;
the exchange moves all ranks at once and compares their rows.

### ProgramCadence

`TimeInv` carries `Covers`: what is not covered is exactly the held window. It
is needed of four states at once: the accepted one, the snapshot a rejection
returns to, the checkpoint a restart returns to, and, inside a window, the
substep that the Program stands at. The arithmetic of the partition of a window
into substeps is a lemma. `CacheInv` adds `SlotInv` (a valid slot has the last
value of its node, in all of these states, or is a leftover of a live restart)
and `LineageInv` (a run with a checkpoint stands at it or behind it).

All theorems hold for restarts in fresh processes and in live runtimes; when
`Hosts` is `{"fresh"}`, `field.stale` is never filled and `HeldValues` says that
a held node supplies the last value of its lineage.

### StepAttempts

Between two exchanges the ranks stand in different places, so that no two of
their variables need be equal. `Meeting(r)` is what rank r will bring to the
next place where all ranks meet: the attempt it starts, the step it publishes
or the state in which it leaves the run. `Agree` says that it is the same for
all ranks; a local step of a rank leaves its `Meeting` as it is, and an
exchange changes all of them alike. The proof takes rounding as an unknown
function.

### What stays with TLC

* Liveness (`EventuallyResolved`, `CallsReturn`, `LaneCallsReturn`, `RunsEnd`):
  fairness and ENABLED are out of the prover's reach.
* `StepAttempts.RestartReplays` is about exact time: it needs that the sum of
  two times is not rounded, which follows from an induction over powers of two
  that the prover cannot do. In rounded time it is not true (section 3,
  finding).
* `TagClustering` is built from recursive operators, and what these compute for
  every input is out of reach.

Every other property of a passing run is stated by a theorem.

## 5. Not modelled

* Numerical kernels: finite volumes, elliptic solves, time integrators. Their
  correctness is numerical.
* AMR regridding, refluxing and subcycling: grid data decides almost every
  branch; the flux ledger is arithmetic on faces.
* Artifact cache of the compiler: several processes around a lock and two
  atomic replaces; a part of the build, apart from the runtime modelled here.
* Case freeze: snapshots of Python objects in one thread.
* Interface flux scheduler, execution lanes: no state after construction, or
  the state of the MPI library.
* Authoring API, code generation, output formats, bindings, scripts: validation
  and text in one thread. They are most of the repository's lines.

## 6. State and plan

Done: the transaction with its contract, the envelope with restarts, the
journal, the queue and its worker, the collective lane, attempts and restores
over ranks, the multi-layout executor, artifact publication, the program
cadence, clustering; proofs of every safety property but the three named at the
end of section 4. What would come next:

1. `StepEnvelope` uses a transaction as `ConsumerContract` describes it; an
   INSTANCE of the contract per staged transaction would make that a checked
   refinement rather than a correspondence of two texts.
2. The artifact cache of the compiler (`codegen/cache.py`), several processes
   around a lock and two atomic replaces.
3. `RestartReplays` for all times, from a lemma about sums that are not rounded.
