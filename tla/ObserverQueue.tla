----------------------------- MODULE ObserverQueue -----------------------------
(***************************************************************************)
(* The post-commit queues of one run in one process: the threads of        *)
(* python/pops/runtime/_observer_runtime.py as _runtime_consumers.py uses  *)
(* them in the SERIAL and ROOT modes.                                      *)
(*                                                                         *)
(* The main thread opens one PostCommitObserverQueue per monitor, submits  *)
(* accepted frames, flushes and closes.  The queues share one              *)
(* PostCommitObserverWorker: a FIFO and a thread that makes every provider *)
(* call.  A step is what happens between two waits or provider calls of a  *)
(* thread; a provider call is one step with a chosen outcome.  What the    *)
(* other ranks say in a ROOT consensus is a chosen outcome as well.        *)
(***************************************************************************)
EXTENDS Naturals, Sequences

CONSTANTS
    NQueues,      \* monitors, in the order of _monitor_manifests
    Capacity,     \* queue -> queue_capacity
    MaxAttempts,  \* queue -> max_attempts
    MaxFrames,    \* bound: frames submitted to each queue
    MaxFaults     \* bound: provider calls and consensus rounds that go wrong

Queues == 1 .. NQueues

\* A run without monitors has neither queue nor worker; the constructor
\* refuses a capacity or an attempt limit below one.
ASSUME QueueAssumption ==
    /\ NQueues \in Nat \ {0}
    /\ Capacity \in [Queues -> Nat \ {0}]
    /\ MaxAttempts \in [Queues -> Nat \ {0}]
    /\ MaxFrames \in Nat
    /\ MaxFaults \in Nat

VARIABLES
    main,       \* where the main thread is
    at,         \* the queue it works on
    phase,      \* _observer_run_phases
    completed,  \* the run reached t_end: its close is tried twice
    closes,     \* calls of flush_live_visualizations(close=True)
    held,       \* queue -> what the publisher retains for it
    queue,      \* queue -> the fields of its PostCommitObserverQueue
    reports,    \* queue -> _reports
    shut,       \* jobs whose gate is unresolved
    cancelled,  \* jobs whose gate was resolved with an error
    fifo,       \* the worker's _jobs
    hand,       \* what the worker thread is doing
    call,       \* outcome of the lifecycle call the main thread waits for
    terminal,   \* the worker's _terminal_error is set
    session,    \* external: the provider session of each queue
    executed,   \* external: frames a provider has accepted, per queue
    faults

publisher == <<phase, completed, closes, held>>
gates == <<shut, cancelled>>
provider == <<session, executed>>
vars == <<main, at, publisher, queue, reports, gates, fifo, hand, call,
          terminal, provider, faults>>

MainStates == {"open", "initialize", "replay", "run", "admit", "agree",
               "flush", "drain", "close", "abortClose", "finalize", "abort",
               "report", "worker", "seal", "join", "ended"}
Phases == {"opening", "open", "closing_opening", "closing_open", "closed"}
SessionStates == {"new", "live", "torn", "finalized", "aborted"}

QueueFields ==
    [pending : Nat, next : Nat, lifecycleError : BOOLEAN,
     collectiveLost : BOOLEAN, closeRequested : BOOLEAN,
     closePrepared : BOOLEAN, abortPrepared : BOOLEAN,
     finalizeSucceeded : BOOLEAN, abortSucceeded : BOOLEAN]

Job(q, n) == [kind |-> "job", queue |-> q, seq |-> n]
Call(kind, q) == [kind |-> kind, queue |-> q, seq |-> 0]
Stop == [kind |-> "stop", queue |-> 0, seq |-> 0]
Tasks == [kind : {"job", "initialize", "finalize", "abort", "stop"},
          queue : 0 .. NQueues, seq : Nat]

Idle == [stage |-> "idle", task |-> Stop, attempt |-> 0]
Stopped == [Idle EXCEPT !.stage = "stopped"]
AtGate(task) == [stage |-> "gate", task |-> task, attempt |-> 1]

Fresh ==
    [pending |-> 0, next |-> 0, lifecycleError |-> FALSE,
     collectiveLost |-> FALSE, closeRequested |-> FALSE,
     closePrepared |-> FALSE, abortPrepared |-> FALSE,
     finalizeSucceeded |-> FALSE, abortSucceeded |-> FALSE]

Init ==
    /\ main = "open"
    /\ at = 1
    /\ phase = "opening"
    /\ completed = FALSE
    /\ closes = 0
    /\ held = [q \in Queues |-> "none"]
    /\ queue = [q \in Queues |-> Fresh]
    /\ reports = [q \in Queues |-> <<>>]
    /\ shut = {}
    /\ cancelled = {}
    /\ fifo = <<>>
    /\ hand = Idle
    /\ call = "none"
    /\ terminal = FALSE
    /\ session = [q \in Queues |-> "new"]
    /\ executed = [q \in Queues |-> {}]
    /\ faults = 0

\* abort_required: an internal failure left a session that was not finalized.
AbortRequired(q) ==
    /\ queue[q].lifecycleError
    /\ ~queue[q].collectiveLost
    /\ ~queue[q].finalizeSucceeded

\* The fault budget: a step that goes wrong takes one from it.
Fault == faults < MaxFaults /\ faults' = faults + 1
NoFault == UNCHANGED faults

\* A consensus round loses its collective proof: the run fails and the local
\* workers are sealed.
LoseWorld == Fault /\ main' = "seal" /\ at' = 1

\* PostCommitObserverWorker.submit and call: the main thread appends a task.
Enqueue(task) ==
    /\ fifo' = Append(fifo, task)
    /\ call' = "none"

-----------------------------------------------------------------------------
(* The main thread: opening.                                               *)

\* flush_live_visualizations(close=True): authenticate the phase and start.
StartClose ==
    /\ main' = "drain"
    /\ at' = 1
    /\ closes' = closes + 1
    /\ phase' = CASE phase = "opening" -> "closing_opening"
                  [] phase = "open" -> "closing_open"
                  [] OTHER -> phase

\* _open_observer_session: the session is held before its queue exists.
OpenSession ==
    /\ main = "open" /\ at <= NQueues
    /\ held' = [held EXCEPT ![at] = "session"]
    /\ Enqueue(Call("initialize", at))
    /\ main' = "initialize"
    /\ NoFault
    /\ UNCHANGED <<at, phase, completed, closes, queue, reports, gates, hand,
                   terminal, provider>>

\* The session cannot be constructed: the run fails before its first step.
OpenFails ==
    /\ main = "open" /\ at <= NQueues
    /\ Fault
    /\ StartClose
    /\ UNCHANGED <<completed, held, queue, reports, gates, fifo, hand, call,
                   terminal, provider>>

\* A consensus of the opening is lost, before or after the session exists.
OpenLost ==
    /\ main = "open" /\ at <= NQueues
    /\ \/ UNCHANGED held
       \/ held' = [held EXCEPT ![at] = "session"]
    /\ LoseWorld
    /\ UNCHANGED <<phase, completed, closes, queue, reports, gates, fifo, hand,
                   call, terminal, provider>>

\* The constructor of the queue returns; its session is now the queue's.
Initialized ==
    /\ main = "initialize" /\ call = "ok"
    /\ held' = [held EXCEPT ![at] = "queue"]
    /\ call' = "none"
    /\ main' = "replay"
    /\ NoFault
    /\ UNCHANGED <<at, phase, completed, closes, queue, reports, gates, fifo,
                   hand, terminal, provider>>

\* The constructor raises: the session stays pending, the run fails.
InitializeFailed ==
    /\ main = "initialize" /\ call = "failed"
    /\ call' = "none"
    /\ StartClose
    /\ NoFault
    /\ UNCHANGED <<completed, held, queue, reports, gates, fifo, hand,
                   terminal, provider>>

AllOpen ==
    /\ main = "open" /\ at = NQueues + 1
    /\ main' = "run"
    /\ phase' = "open"
    /\ NoFault
    /\ UNCHANGED <<at, completed, closes, held, queue, reports, gates, fifo,
                   hand, call, terminal, provider>>

-----------------------------------------------------------------------------
(* The main thread: frames.                                                *)

HasRoom(q) == queue[q].pending < Capacity[q]
Available(q) == ~queue[q].closeRequested /\ ~queue[q].lifecycleError

\* _enqueue_detached after its wait: the sequence number, the backlog and
\* the task.  A deferred job is registered behind a shut gate.
Admit(q, deferred) ==
    LET job == Job(q, queue[q].next) IN
    /\ HasRoom(q) /\ Available(q)
    /\ queue' = [queue EXCEPT ![q].pending = @ + 1, ![q].next = @ + 1]
    /\ shut' = IF deferred THEN shut \cup {job} ELSE shut
    /\ fifo' = Append(fifo, job)
    /\ UNCHANGED <<reports, cancelled, hand, call, terminal, provider>>

\* _replay_observer_journal: frames of earlier runs, behind no gate.
Replay ==
    /\ main = "replay" /\ queue[at].next < MaxFrames
    /\ Admit(at, FALSE)
    /\ NoFault
    /\ UNCHANGED <<main, at, publisher>>

\* submit raises because the worker failed on an earlier frame.
ReplayRefused ==
    /\ main = "replay" /\ ~Available(at)
    /\ StartClose
    /\ NoFault
    /\ UNCHANGED <<completed, held, queue, reports, gates, fifo, hand, call,
                   terminal, provider>>

Replayed ==
    /\ main = "replay"
    /\ main' = "open"
    /\ at' = at + 1
    /\ NoFault
    /\ UNCHANGED <<publisher, queue, reports, gates, fifo, hand, call,
                   terminal, provider>>

\* _submit_live_visualization for one sealed sample.
Submit(q) ==
    /\ main = "run" /\ queue[q].next < MaxFrames
    /\ main' = "admit"
    /\ at' = q
    /\ NoFault
    /\ UNCHANGED <<publisher, queue, reports, gates, fifo, hand, call,
                   terminal, provider>>

Prepared ==
    /\ main = "admit"
    /\ Admit(at, TRUE)
    /\ main' = "agree"
    /\ NoFault
    /\ UNCHANGED <<at, publisher>>

\* The wait for room ends because the worker failed: the consensus refuses
\* and records the failure, or is lost itself.
SubmitRefused ==
    /\ main = "admit" /\ ~Available(at)
    /\ \/ main' = "run" /\ NoFault /\ UNCHANGED at
       \/ LoseWorld
    /\ UNCHANGED <<publisher, queue, reports, gates, fifo, hand, call,
                   terminal, provider>>

\* _post_commit_root_consensus agrees: the gate is armed.
Armed ==
    /\ main = "agree"
    /\ shut' = {}
    /\ main' = "run"
    /\ NoFault
    /\ UNCHANGED <<at, publisher, queue, reports, cancelled, fifo, hand, call,
                   terminal, provider>>

\* Mutant: a refused submission keeps its gate shut.
CancelForgotten ==
    /\ main = "agree"
    /\ Fault
    /\ main' = "run"
    /\ UNCHANGED <<at, publisher, queue, reports, gates, fifo, hand, call,
                   terminal, provider>>

\* Another rank refuses, or the world collective is lost: the gate is
\* cancelled; a loss seals the workers of this process.
Cancelled ==
    /\ main = "agree"
    /\ cancelled' = cancelled \cup shut
    /\ shut' = {}
    /\ \/ main' = "run" /\ Fault /\ UNCHANGED at
       \/ LoseWorld
    /\ UNCHANGED <<publisher, queue, reports, fifo, hand, call, terminal,
                   provider>>

\* flush_live_visualizations, and _drain_post_commit_before_hdf5.
StartFlush ==
    /\ main = "run"
    /\ main' = "flush"
    /\ at' = 1
    /\ NoFault
    /\ UNCHANGED <<publisher, queue, reports, gates, fifo, hand, call,
                   terminal, provider>>

\* flush() returns, or raises what the worker recorded; either way the next
\* queue follows.
FlushOne ==
    /\ main = "flush" /\ at <= NQueues
    /\ queue[at].pending = 0
    /\ at' = at + 1
    /\ main' = IF at = NQueues THEN "run" ELSE "flush"
    /\ NoFault
    /\ UNCHANGED <<publisher, queue, reports, gates, fifo, hand, call,
                   terminal, provider>>

-----------------------------------------------------------------------------
(* The main thread: closing.                                               *)

\* The run ends, with success or with an error of its own.
Finish ==
    /\ main = "run"
    /\ completed' \in BOOLEAN
    /\ StartClose
    /\ NoFault
    /\ UNCHANGED <<held, queue, reports, gates, fifo, hand, call, terminal,
                   provider>>

\* _drain_observer_manifest, first half: which way does this queue close?
\* A pending session has no queue to drain and is aborted on the worker.
Route ==
    /\ main = "drain" /\ at <= NQueues
    /\ \/ /\ held[at] = "none"
          /\ main' = "report"
          /\ UNCHANGED <<queue, fifo, call>>
       \/ /\ held[at] = "session"
          /\ Enqueue(Call("abort", at))
          /\ main' = "abort"
          /\ UNCHANGED queue
       \/ /\ held[at] = "queue"
          /\ queue' = [queue EXCEPT ![at].closeRequested = TRUE]
          /\ main' = IF phase = "closing_opening" \/ AbortRequired(at)
                     THEN "abortClose" ELSE "close"
          /\ UNCHANGED <<fifo, call>>
    /\ NoFault
    /\ UNCHANGED <<at, publisher, reports, gates, hand, terminal, provider>>

\* prepare_close: after the drain an error that arrived meanwhile refuses
\* the finalization; the queue is retained.
CloseRefused ==
    /\ main = "close" /\ queue[at].pending = 0
    /\ ~queue[at].closePrepared /\ queue[at].lifecycleError
    /\ main' = "report"
    /\ NoFault
    /\ UNCHANGED <<at, publisher, queue, reports, gates, fifo, hand, call,
                   terminal, provider>>

\* Mutant: the drained queue is finalized without looking at the error again.
FinalizeUnchecked ==
    /\ main = "close" /\ queue[at].pending = 0
    /\ queue' = [queue EXCEPT ![at].closePrepared = TRUE]
    /\ Enqueue(Call("finalize", at))
    /\ main' = "finalize"
    /\ NoFault
    /\ UNCHANGED <<at, publisher, reports, gates, hand, terminal, provider>>

\* prepare_close, prepare_complete_close and complete_close.
StartFinalize ==
    /\ main = "close" /\ queue[at].pending = 0
    /\ queue[at].closePrepared \/ ~queue[at].lifecycleError
    /\ queue' = [queue EXCEPT ![at].closePrepared = TRUE]
    /\ Enqueue(Call("finalize", at))
    /\ main' = "finalize"
    /\ NoFault
    /\ UNCHANGED <<at, publisher, reports, gates, hand, terminal, provider>>

\* prepare_abort_close and complete_abort_close.
StartAbort ==
    /\ main = "abortClose" /\ queue[at].pending = 0
    /\ queue' = [queue EXCEPT ![at].abortPrepared = TRUE]
    /\ Enqueue(Call("abort", at))
    /\ main' = "abort"
    /\ NoFault
    /\ UNCHANGED <<at, publisher, reports, gates, hand, terminal,
                   provider>>

\* complete_close returns or raises.
Finalized ==
    /\ main = "finalize" /\ call # "none"
    /\ queue' = [queue EXCEPT ![at].finalizeSucceeded = (call = "ok")]
    /\ call' = "none"
    /\ main' = "report"
    /\ NoFault
    /\ UNCHANGED <<at, publisher, reports, gates, fifo, hand, terminal,
                   provider>>

\* complete_abort_close, or the abort of a pending session, returns or
\* raises; success gives up the queue and the session.
Aborted ==
    /\ main = "abort" /\ call # "none"
    /\ queue' = [queue EXCEPT ![at].abortSucceeded = (call = "ok")]
    /\ held' = IF call = "ok" THEN [held EXCEPT ![at] = "none"] ELSE held
    /\ call' = "none"
    /\ main' = "report"
    /\ NoFault
    /\ UNCHANGED <<at, phase, completed, closes, reports, gates, fifo, hand,
                   terminal, provider>>

\* The ranks exchange reports; a finalized queue is given up.
Report ==
    /\ main = "report"
    /\ held' = IF queue[at].finalizeSucceeded
               THEN [held EXCEPT ![at] = "none"] ELSE held
    /\ at' = at + 1
    /\ main' = IF at = NQueues THEN "worker" ELSE "drain"
    /\ NoFault
    /\ UNCHANGED <<phase, completed, closes, queue, reports, gates, fifo,
                   hand, call, terminal, provider>>

\* The exchange, at a close or a flush, loses the world collective.
ReportLost ==
    /\ main = "report" \/ (main = "flush" /\ queue[at].pending = 0)
    /\ LoseWorld
    /\ UNCHANGED <<publisher, queue, reports, gates, fifo, hand, call,
                   terminal, provider>>

\* PostCommitObserverWorker.close, refused while anything is retained.
CloseWorker ==
    /\ main = "worker"
    /\ IF \A q \in Queues : held[q] = "none"
       THEN fifo' = Append(fifo, Stop) /\ main' = "join"
       ELSE main' = "ended" /\ UNCHANGED fifo
    /\ NoFault
    /\ UNCHANGED <<at, publisher, queue, reports, gates, hand, call, terminal,
                   provider>>

\* The worker thread is joined.
Joined ==
    /\ main = "join" /\ hand = Stopped
    /\ main' = "ended"
    /\ phase' = IF terminal THEN phase ELSE "closed"
    /\ NoFault
    /\ UNCHANGED <<at, completed, closes, held, queue, reports, gates, fifo,
                   hand, call, terminal, provider>>

\* The handler of _run closes once more after a close that raised.
CloseAgain ==
    /\ main = "ended" /\ completed /\ closes = 1 /\ ~terminal
    /\ phase # "closed"
    /\ StartClose
    /\ NoFault
    /\ UNCHANGED <<completed, held, queue, reports, gates, fifo, hand, call,
                   terminal, provider>>

\* seal_observer_workers_after_world_loss: every queue, then the worker.
SealQueue ==
    /\ main = "seal" /\ at <= NQueues
    /\ queue' = IF held[at] = "queue"
                THEN [queue EXCEPT ![at].closeRequested = TRUE,
                                   ![at].collectiveLost = TRUE,
                                   ![at].lifecycleError = TRUE]
                ELSE queue
    /\ cancelled' = cancelled \cup {j \in shut : j.queue = at}
    /\ shut' = {j \in shut : j.queue # at}
    /\ at' = at + 1
    /\ NoFault
    /\ UNCHANGED <<main, publisher, reports, fifo, hand, call, terminal,
                   provider>>

SealWorker ==
    /\ main = "seal" /\ at = NQueues + 1
    /\ terminal' = TRUE
    /\ fifo' = Append(fifo, Stop)
    /\ main' = "join"
    /\ NoFault
    /\ UNCHANGED <<at, publisher, queue, reports, gates, hand, call, provider>>

-----------------------------------------------------------------------------
(* The worker thread.                                                      *)

mainThread == <<main, at, publisher, gates>>

\* _record: one terminal report, and room for another frame.
Record(job, status, failed) ==
    LET q == job.queue IN
    /\ reports' = [reports EXCEPT ![q] =
                      Append(@, [seq |-> job.seq, status |-> status])]
    /\ queue' = [queue EXCEPT ![q].pending = @ - 1,
                              ![q].lifecycleError = @ \/ failed]
    /\ hand' = Idle

\* _run takes the next task.
Take ==
    /\ hand = Idle /\ fifo # <<>> /\ ~terminal
    /\ hand' = IF Head(fifo) = Stop THEN Stopped ELSE AtGate(Head(fifo))
    /\ fifo' = Tail(fifo)
    /\ NoFault
    /\ UNCHANGED <<mainThread, queue, reports, call, terminal, provider>>

\* A poisoned worker fails its tasks without running them (_fail_job).
FailJob ==
    /\ hand = Idle /\ fifo # <<>> /\ terminal /\ Head(fifo) # Stop
    /\ Record(Head(fifo), "skipped", TRUE)
    /\ fifo' = Tail(fifo)
    /\ NoFault
    /\ UNCHANGED <<mainThread, call, terminal, provider>>

\* Mutant: a poisoned worker stops at once and drops its FIFO.
StopAtOnce ==
    /\ hand = Idle /\ terminal
    /\ hand' = Stopped
    /\ NoFault
    /\ UNCHANGED <<mainThread, queue, reports, fifo, call, terminal, provider>>

StopPoisoned ==
    /\ hand = Idle /\ fifo # <<>> /\ terminal /\ Head(fifo) = Stop
    /\ hand' = Stopped
    /\ fifo' = Tail(fifo)
    /\ NoFault
    /\ UNCHANGED <<mainThread, queue, reports, call, terminal, provider>>

InHand(kind, stage) == hand.stage = stage /\ hand.task.kind = kind

\* _process_job up to the provider: the gate is armed and the queue healthy.
Enter ==
    /\ InHand("job", "gate")
    /\ hand.task \notin shut \cup cancelled
    /\ ~queue[hand.task.queue].lifecycleError
    /\ hand' = [hand EXCEPT !.stage = "execute"]
    /\ NoFault
    /\ UNCHANGED <<mainThread, queue, reports, fifo, call, terminal, provider>>

\* Mutant: a skipped job leaves the backlog without a report.
SkipUnreported ==
    /\ InHand("job", "gate")
    /\ hand.task \notin shut
    /\ hand.task \in cancelled \/ queue[hand.task.queue].lifecycleError
    /\ queue' = [queue EXCEPT ![hand.task.queue].pending = @ - 1]
    /\ hand' = Idle
    /\ NoFault
    /\ UNCHANGED <<mainThread, reports, fifo, call, terminal, provider>>

\* _process_job of a cancelled job or on a failed queue.
Skip ==
    /\ InHand("job", "gate")
    /\ hand.task \notin shut
    /\ hand.task \in cancelled \/ queue[hand.task.queue].lifecycleError
    /\ Record(hand.task, "skipped", FALSE)
    /\ NoFault
    /\ UNCHANGED <<mainThread, fifo, call, terminal, provider>>

\* _deliver: execute and, with a journal, its acknowledgement succeed.
Deliver ==
    /\ InHand("job", "execute")
    /\ executed' = [executed EXCEPT ![hand.task.queue] = @ \cup {hand.task.seq}]
    /\ Record(hand.task, "delivered", FALSE)
    /\ NoFault
    /\ UNCHANGED <<mainThread, fifo, call, terminal, session>>

\* _deliver: an attempt fails, before or after the provider took the frame.
AttemptFails ==
    LET q == hand.task.queue IN
    /\ InHand("job", "execute")
    /\ Fault
    /\ \/ UNCHANGED executed
       \/ executed' = [executed EXCEPT ![q] = @ \cup {hand.task.seq}]
    /\ IF hand.attempt < MaxAttempts[q]
       THEN /\ hand' = [hand EXCEPT !.attempt = @ + 1]
            /\ UNCHANGED <<queue, reports>>
       ELSE Record(hand.task, "skipped", FALSE)
    /\ UNCHANGED <<mainThread, fifo, call, terminal, session>>

\* _deliver raises: the queue is poisoned and the session aborted in place,
\* successfully or not.  A delivery that loses the worker's communicator is in
\* ObserverLane.
DeliverRaises ==
    /\ InHand("job", "execute")
    /\ Fault
    /\ \/ session' = [session EXCEPT ![hand.task.queue] = "aborted"]
       \/ UNCHANGED session
    /\ Record(hand.task, "skipped", TRUE)
    /\ UNCHANGED <<mainThread, fifo, call, terminal, executed>>

\* What a successful lifecycle call makes of a session.
AfterCall ==
    [initialize |-> "live", finalize |-> "finalized", abort |-> "aborted"]

LifecycleInHand == hand.stage = "gate" /\ hand.task.kind \in DOMAIN AfterCall

\* _initialize_session, _finalize_session, or the idempotent abort of
\* _PendingObserverSession.
LifecycleReturns ==
    /\ LifecycleInHand
    /\ session' = [session EXCEPT ![hand.task.queue] =
                      AfterCall[hand.task.kind]]
    /\ call' = "ok"
    /\ hand' = Idle
    /\ NoFault
    /\ UNCHANGED <<mainThread, queue, reports, fifo, terminal, executed>>

LifecycleRaises ==
    /\ LifecycleInHand
    /\ Fault
    /\ session' = [session EXCEPT ![hand.task.queue] =
                      IF hand.task.kind = "initialize" THEN "torn" ELSE @]
    /\ ~(hand.task.kind = "abort" /\ session[hand.task.queue] = "aborted")
    /\ call' = "failed"
    /\ hand' = Idle
    /\ UNCHANGED <<mainThread, queue, reports, fifo, terminal, executed>>

-----------------------------------------------------------------------------

Worker ==
    \/ Take \/ FailJob \/ StopPoisoned
    \/ Enter \/ Skip \/ Deliver \/ AttemptFails \/ DeliverRaises
    \/ LifecycleReturns \/ LifecycleRaises

\* What the main thread does by itself once it is inside a call.
Continue ==
    \/ OpenSession \/ OpenFails \/ OpenLost
    \/ Initialized \/ InitializeFailed \/ AllOpen
    \/ Replay \/ ReplayRefused \/ Replayed
    \/ Prepared \/ SubmitRefused \/ Armed \/ Cancelled \/ FlushOne
    \/ Route \/ CloseRefused \/ StartFinalize \/ StartAbort
    \/ Finalized \/ Aborted \/ Report \/ ReportLost
    \/ CloseWorker \/ Joined \/ CloseAgain \/ SealQueue \/ SealWorker

\* What the run decides to do.
Demand == StartFlush \/ Finish \/ \E q \in Queues : Submit(q)

Next == Continue \/ Demand \/ Worker

Spec == Init /\ [][Next]_vars /\ WF_vars(Worker) /\ WF_vars(Continue)

-----------------------------------------------------------------------------
(* Properties.                                                             *)

\* Types of all variables.
TypeOK ==
    /\ main \in MainStates /\ at \in 1 .. NQueues + 1
    /\ phase \in Phases /\ completed \in BOOLEAN /\ closes \in 0 .. 2
    /\ held \in [Queues -> {"none", "session", "queue"}]
    /\ queue \in [Queues -> QueueFields]
    /\ reports \in [Queues -> Seq([seq : Nat,
                                   status : {"delivered", "skipped"}])]
    /\ shut \subseteq Tasks /\ cancelled \subseteq Tasks
    /\ fifo \in Seq(Tasks)
    /\ hand \in [stage : {"idle", "stopped", "gate", "execute"},
                 task : Tasks, attempt : Nat]
    /\ call \in {"none", "ok", "failed"}
    /\ terminal \in BOOLEAN
    /\ session \in [Queues -> SessionStates]
    /\ executed \in [Queues -> SUBSET Nat]
    /\ faults \in 0 .. MaxFaults

\* Place 0 is the worker's hand, the others are those of the FIFO.
Places == (IF hand.stage \in {"gate", "execute"} THEN 0 ELSE 1) .. Len(fifo)
TaskAt(i) == IF i = 0 THEN hand.task ELSE fifo[i]
JobsOf(q) == {i \in Places : TaskAt(i).kind = "job" /\ TaskAt(i).queue = q}

(***************************************************************************)
(* "It cannot silently lose frames": at any moment the frames of a queue   *)
(* are, in the order of submission, those with a terminal report, the one  *)
(* in the worker's hand and those in the FIFO, each exactly once, through  *)
(* retries, cancelled gates, a poisoned worker and two closes; and         *)
(* _pending counts those without a report.                                 *)
(***************************************************************************)
NoFrameLost ==
    \A q \in Queues :
        LET done == Len(reports[q]) IN
        /\ \A n \in 1 .. done : reports[q][n].seq = n - 1
        /\ {TaskAt(i).seq : i \in JobsOf(q)} = done .. queue[q].next - 1
        /\ \A i, j \in JobsOf(q) : i < j => TaskAt(i).seq < TaskAt(j).seq
        /\ queue[q].pending = queue[q].next - done

\* A worker that stopped leaves nothing behind: every accepted frame has its
\* report and no task is left in the FIFO.
StoppedIsDrained ==
    hand = Stopped =>
        /\ fifo = <<>>
        /\ \A q \in Queues : queue[q].pending = 0

\* A provider session lives once: no frame reaches it before initialize or
\* after finalize or abort, and neither of these two follows the other, also
\* when _deliver aborted the session in place while close was waiting.
SessionDiscipline ==
    [][\A q \in Queues :
        /\ executed'[q] # executed[q] => session[q] = "live"
        /\ session'[q] # session[q] =>
              <<session[q], session'[q]>> \in
                  {<<"new", "live">>, <<"new", "torn">>, <<"new", "aborted">>,
                   <<"live", "finalized">>, <<"live", "aborted">>,
                   <<"torn", "aborted">>}]_vars

\* No call of the main thread waits for ever: submit on a full queue, flush,
\* close and the local seal all return.
CallsReturn == main # "run" ~> main \in {"run", "ended"}
=============================================================================
