------------------------------ MODULE ObserverLane ------------------------------
(***************************************************************************)
(* One COLLECTIVE monitor on several MPI ranks: the lifecycle protocol of  *)
(* begin_post_commit_consumers, _submit_live_visualization and             *)
(* _drain_observer_manifest in python/pops/runtime/_runtime_consumers.py,  *)
(* with the worker threads of _observer_runtime.py.                        *)
(*                                                                         *)
(* The main threads exchange rows on the world communicator: a rank does   *)
(* its local part of a stage, arrives, and all ranks leave the exchange    *)
(* together with the same rows.  The worker threads call the provider,     *)
(* whose calls are collective themselves, and exchange rows on a           *)
(* duplicated communicator, the lane.  In this mode every frame is drained *)
(* before the next stage, so a worker's FIFO holds at most one task.       *)
(*                                                                         *)
(* External assumption: a collective ends alike on all its ranks, and a    *)
(* broken lane fails every later call on it.                               *)
(***************************************************************************)
EXTENDS Naturals, Sequences

CONSTANTS
    Ranks,
    MaxLaneFrames,  \* bound: frames submitted
    MaxLaneFaults   \* bound: local failures and lost collectives

ASSUME LaneAssumption ==
    /\ Ranks # {}
    /\ MaxLaneFrames \in Nat
    /\ MaxLaneFaults \in Nat

VARIABLES
    stage,          \* rank -> stage of its main thread
    arrived,        \* rank -> its main thread waits in the exchange of the stage
    bad,            \* rank -> the local error it brings to the exchange
    lanePhase,      \* _observer_run_phases, the same on all ranks
    laneCompleted,  \* the run reached t_end: its close is tried twice
    laneCloses,     \* calls of flush_live_visualizations(close=True)
    frames,         \* frames submitted
    lane,           \* rank -> state of its observer lane
    owner,          \* rank -> what it holds: nothing, a session, or a queue
    error,          \* rank -> _lifecycle_error is set
    lost,           \* rank -> _worker_collective_lost
    blocked,        \* rank -> abort or finalize may not be retried
    task,           \* rank -> the task of its worker, or "none"
    gate,           \* rank -> the gate of that task
    worker,         \* rank -> where its worker thread is
    laneCall,       \* rank -> outcome of its last lifecycle call
    workerBad,      \* rank -> the error its worker brings to the lane
    laneBroken,     \* external: the lane has lost a collective
    entered,        \* external: rank -> provider operations entered, in order
    laneFaults

control == <<stage, arrived, bad>>
run == <<lanePhase, laneCompleted, laneCloses, frames>>
holdings == <<lane, owner, blocked>>
health == <<error, lost>>
workers == <<task, gate, worker, laneCall, workerBad, laneBroken, entered>>
laneVars == <<control, run, holdings, health, workers, laneFaults>>

OpeningStages == {"lane", "session", "queue", "enqueue", "initialize"}
FrameStages == {"submit", "deliver"}
ClosingStages == {"preflight", "health", "route", "prepareClose",
                  "admitFinalize", "finalize", "prepareAbort", "admitAbort",
                  "abort", "laneClose", "workerClose", "seal"}
Stages == OpeningStages \cup FrameStages \cup ClosingStages
              \cup {"run", "ended"}
Operations == {"initialize", "execute", "finalize", "abort"}
LaneStages == {"barrier", "frame", "agree", "acknowledged"}
WorkerStages == LaneStages \cup {"idle", "provider", "acknowledge", "stopped"}

Everywhere(v) == [r \in Ranks |-> v]

LaneInit ==
    /\ stage = Everywhere("lane")
    /\ arrived = Everywhere(FALSE)
    /\ bad = Everywhere(FALSE)
    /\ lanePhase = "opening"
    /\ laneCompleted = FALSE
    /\ laneCloses = 0
    /\ frames = 0
    /\ lane = Everywhere("none")
    /\ owner = Everywhere("none")
    /\ blocked = Everywhere({})
    /\ error = Everywhere(FALSE)
    /\ lost = Everywhere(FALSE)
    /\ task = Everywhere("none")
    /\ gate = Everywhere("shut")
    /\ worker = Everywhere("idle")
    /\ laneCall = Everywhere("none")
    /\ workerBad = Everywhere(FALSE)
    /\ laneBroken = FALSE
    /\ entered = Everywhere(<<>>)
    /\ laneFaults = 0

LaneFault == laneFaults < MaxLaneFaults /\ laneFaults' = laneFaults + 1
NoLaneFault == UNCHANGED laneFaults

-----------------------------------------------------------------------------
(* The exchange on the world communicator.                                 *)

Doing(r, s) == stage[r] = s /\ ~arrived[r]

\* The rank enters the exchange with or without a local error.
Arrive(r, b) ==
    /\ arrived' = [arrived EXCEPT ![r] = TRUE]
    /\ bad' = [bad EXCEPT ![r] = b]
    /\ UNCHANGED stage

\* All ranks are in the exchange of stage s.
Met(s) == \A r \in Ranks : stage[r] = s /\ arrived[r]

AnyBad == \E r \in Ranks : bad[r]

\* All ranks leave the exchange, each for its own next stage.
Leave(next) ==
    /\ stage' = next
    /\ arrived' = Everywhere(FALSE)
    /\ bad' = Everywhere(FALSE)

\* _SubmissionGate.cancel of whatever is still behind a gate.
CancelGates ==
    gate' = [r \in Ranks |->
                IF task[r] # "none" /\ gate[r] = "shut" THEN "cancelled"
                ELSE gate[r]]

\* flush_live_visualizations(close=True) is called by every rank.
LaneStartClose ==
    /\ Leave(Everywhere("preflight"))
    /\ laneCloses' = laneCloses + 1
    /\ lanePhase' = CASE lanePhase = "opening" -> "closing_opening"
                      [] lanePhase = "open" -> "closing_open"
                      [] OTHER -> lanePhase

\* PostCommitObserverWorker.prepare_call and _prepare_detached.
LaneEnqueue(r, op) ==
    /\ task' = [task EXCEPT ![r] = op]
    /\ gate' = [gate EXCEPT ![r] = "shut"]
    /\ laneCall' = [laneCall EXCEPT ![r] = "none"]

-----------------------------------------------------------------------------
(* Opening: lane, session, queue, then the gated initialization.           *)

\* duplicate_observer_lane, _open_observer_session and _observer_queue, or
\* their failure on this rank.
Construct(r) ==
    /\ \E s \in {"lane", "session", "queue"} :
        /\ Doing(r, s)
        /\ \/ /\ Arrive(r, FALSE)
              /\ lane' = IF s = "lane" THEN [lane EXCEPT ![r] = "active"]
                         ELSE lane
              /\ owner' = IF s = "lane" THEN owner
                          ELSE [owner EXCEPT ![r] = s]
              /\ NoLaneFault
           \/ /\ Arrive(r, TRUE)
              /\ LaneFault
              /\ UNCHANGED <<lane, owner>>
    /\ UNCHANGED <<run, blocked, health, workers>>

\* The consensus after each of them.
Constructed ==
    \E s \in {"lane", "session", "queue"} :
        /\ Met(s)
        /\ IF AnyBad
           THEN LaneStartClose
           ELSE /\ Leave(Everywhere(CASE s = "lane" -> "session"
                                      [] s = "session" -> "queue"
                                      [] s = "queue" -> "enqueue"))
                /\ UNCHANGED <<lanePhase, laneCloses>>
        /\ NoLaneFault
        /\ UNCHANGED <<laneCompleted, frames, holdings, health, workers>>

\* prepare_initialize, prepare_complete_close, prepare_complete_abort_close
\* and _prepare_detached: enqueue behind a shut gate, or fail locally.  A
\* failed queue refuses frames, a lost lane refuses lifecycle calls.
OperationOf(s) ==
    CASE s = "enqueue" -> "initialize"
      [] s = "submit" -> "execute"
      [] s = "admitFinalize" -> "finalize"
      [] s = "admitAbort" -> "abort"

AdmissionStages == {"enqueue", "submit", "admitFinalize", "admitAbort"}

Refused(r, s) == IF s = "submit" THEN error[r] ELSE lost[r]

Prepare(r) ==
    /\ \E s \in AdmissionStages :
        /\ Doing(r, s)
        /\ \/ /\ ~Refused(r, s)
              /\ LaneEnqueue(r, OperationOf(s))
              /\ Arrive(r, FALSE)
              /\ NoLaneFault
           \/ /\ Refused(r, s)
              /\ Arrive(r, TRUE)
              /\ NoLaneFault
              /\ UNCHANGED <<task, gate, laneCall>>
           \/ /\ ~Refused(r, s)
              /\ Arrive(r, TRUE)
              /\ LaneFault
              /\ UNCHANGED <<task, gate, laneCall>>
    /\ UNCHANGED <<run, holdings, health, worker, workerBad, laneBroken,
                   entered>>

\* Where a rank goes when its operation is admitted, and where it goes when
\* some rank failed to enqueue it.
Admitted(s) ==
    CASE s = "enqueue" -> "initialize"
      [] s = "submit" -> "deliver"
      [] s = "admitFinalize" -> "finalize"
      [] s = "admitAbort" -> "abort"

\* The admission consensus.  A refusal cancels every gate: the run fails
\* while opening, records the lost frame, or retains the queue at a close.
Admission ==
    \E s \in AdmissionStages :
        /\ Met(s)
        /\ IF ~AnyBad
           THEN /\ Leave(Everywhere(Admitted(s)))
                /\ UNCHANGED <<lanePhase, laneCloses, gate>>
           ELSE /\ CancelGates
                /\ \/ s = "enqueue" /\ LaneStartClose
                   \/ /\ s = "submit"
                      /\ Leave(Everywhere("run"))
                      /\ UNCHANGED <<lanePhase, laneCloses>>
                   \/ /\ s \in {"admitFinalize", "admitAbort"}
                      /\ Leave(Everywhere("workerClose"))
                      /\ UNCHANGED <<lanePhase, laneCloses>>
        /\ NoLaneFault
        /\ UNCHANGED <<laneCompleted, frames, holdings, health, task, worker,
                       laneCall, workerBad, laneBroken, entered>>

\* arm_initialize, arm_complete_close, arm_complete_abort_close, arm.
Arm(r) ==
    /\ \E s \in {"initialize", "deliver", "finalize", "abort"} : Doing(r, s)
    /\ task[r] # "none" /\ gate[r] = "shut"
    /\ gate' = [gate EXCEPT ![r] = "armed"]
    /\ NoLaneFault
    /\ UNCHANGED <<control, run, holdings, health, task, worker, laneCall,
                   workerBad, laneBroken, entered>>

\* complete_initialize: the result of the call; a failure poisons the queue.
CompleteInitialize(r) ==
    /\ Doing(r, "initialize") /\ task[r] = "none"
    /\ error' = [error EXCEPT ![r] = @ \/ laneCall[r] = "failed"]
    /\ Arrive(r, laneCall[r] = "failed")
    /\ NoLaneFault
    /\ UNCHANGED <<run, holdings, lost, workers>>

Opened ==
    /\ Met("initialize")
    /\ IF AnyBad
       THEN LaneStartClose
       ELSE /\ Leave(Everywhere("run"))
            /\ lanePhase' = "open"
            /\ UNCHANGED laneCloses
    /\ NoLaneFault
    /\ UNCHANGED <<laneCompleted, frames, holdings, health, workers>>

-----------------------------------------------------------------------------
(* Frames.                                                                 *)

\* Every rank seals the same sample and submits its frame.
LaneSubmit ==
    /\ \A r \in Ranks : stage[r] = "run"
    /\ frames < MaxLaneFrames
    /\ frames' = frames + 1
    /\ Leave(Everywhere("submit"))
    /\ NoLaneFault
    /\ UNCHANGED <<lanePhase, laneCompleted, laneCloses, holdings, health, workers>>

\* flush(): the frame has its report; a poisoned queue raises.
Flush(r) ==
    /\ Doing(r, "deliver") /\ task[r] = "none"
    /\ Arrive(r, error[r])
    /\ NoLaneFault
    /\ UNCHANGED <<run, holdings, health, workers>>

\* The consensus "collective live delivery": a failure is only recorded.
Delivered ==
    /\ Met("deliver")
    /\ Leave(Everywhere("run"))
    /\ NoLaneFault
    /\ UNCHANGED <<run, holdings, health, workers>>

-----------------------------------------------------------------------------
(* Closing.                                                                *)

\* The run ends on all ranks, with success or with an error of its own.
LaneFinish ==
    /\ \A r \in Ranks : stage[r] = "run"
    /\ laneCompleted' \in BOOLEAN
    /\ LaneStartClose
    /\ NoLaneFault
    /\ UNCHANGED <<frames, holdings, health, workers>>

Exchange(s) == \E r \in Ranks : Doing(r, s) /\ Arrive(r, FALSE)

\* Stages without a local part: the rank only brings what it knows.
Inventory ==
    /\ \E s \in {"preflight", "health", "route"} : Exchange(s)
    /\ NoLaneFault
    /\ UNCHANGED <<run, holdings, health, workers>>

AllOrNone(having) == having \in {{}, Ranks}

\* _preflight_observer_close: lanes and owners on all ranks or on none.
Inventoried ==
    /\ AllOrNone({r \in Ranks : lane[r] # "none"})
    /\ AllOrNone({r \in Ranks : owner[r] # "none"})

Retained == \E r \in Ranks : lane[r] # "none" \/ owner[r] # "none"

Preflight ==
    /\ Met("preflight")
    /\ IF Inventoried /\ Retained
       THEN Leave(Everywhere("health")) /\ UNCHANGED lanePhase
       ELSE /\ Leave(Everywhere("ended"))
            /\ lanePhase' = IF Retained THEN lanePhase ELSE "closed"
    /\ NoLaneFault
    /\ UNCHANGED <<laneCompleted, laneCloses, frames, holdings, health, workers>>

\* "MPI observer worker lane health": a loss anywhere seals everywhere.
LaneHealth ==
    /\ Met("health")
    /\ LET poisoned == \E r \in Ranks : lost[r] /\ owner[r] # "none" IN
       Leave([r \in Ranks |->
                CASE poisoned -> "seal"
                  [] ~poisoned /\ lanePhase = "closing_opening" -> "prepareAbort"
                  [] ~poisoned /\ lanePhase # "closing_opening"
                     /\ owner[r] = "queue" -> "route"
                  [] OTHER -> "prepareClose"])
    /\ NoLaneFault
    /\ UNCHANGED <<run, holdings, health, workers>>

\* Mutant: a healthy rank finalizes although another one must abort.
CloseRouteLocal ==
    /\ Met("route")
    /\ Leave([r \in Ranks |->
                 IF error[r] THEN "prepareAbort" ELSE "prepareClose"])
    /\ NoLaneFault
    /\ UNCHANGED <<run, holdings, health, workers>>

\* "MPI observer close route": one rank that must abort makes all abort.
CloseRoute ==
    /\ Met("route")
    /\ Leave(Everywhere(IF \E r \in Ranks : error[r] /\ ~lost[r]
                        THEN "prepareAbort" ELSE "prepareClose"))
    /\ NoLaneFault
    /\ UNCHANGED <<run, holdings, health, workers>>

\* prepare_close and prepare_abort_close.  A blocked retry is not ready.
PrepareClose(r) ==
    /\ \/ /\ Doing(r, "prepareClose") /\ task[r] = "none"
          /\ Arrive(r, "finalize" \in blocked[r] \/ error[r])
       \/ /\ Doing(r, "prepareAbort") /\ task[r] = "none"
          /\ Arrive(r, "abort" \in blocked[r] \/ lost[r])
    /\ NoLaneFault
    /\ UNCHANGED <<run, holdings, health, workers>>

\* The preparation consensus.  Ranks that own nothing have nothing to enqueue.
ClosePrepared ==
    \E s \in {"prepareClose", "prepareAbort"} :
        /\ Met(s)
        /\ Leave([r \in Ranks |->
                    CASE AnyBad -> "workerClose"
                      [] ~AnyBad /\ owner[r] = "none" -> "laneClose"
                      [] OTHER -> IF s = "prepareClose" THEN "admitFinalize"
                                  ELSE "admitAbort"])
        /\ NoLaneFault
        /\ UNCHANGED <<run, holdings, health, workers>>

\* complete_close and complete_abort_close: wait for the worker's call.
CompleteClose(r) ==
    /\ Doing(r, "finalize") \/ Doing(r, "abort")
    /\ task[r] = "none"
    /\ error' = [error EXCEPT ![r] = @ \/ lost[r]]
    /\ Arrive(r, laneCall[r] = "failed")
    /\ NoLaneFault
    /\ UNCHANGED <<run, holdings, lost, workers>>

\* Mutant: a failed call may be retried after provider entry.
CompletedUnblocked ==
    \E s \in {"finalize", "abort"} :
        /\ Met(s)
        /\ owner' = IF AnyBad THEN owner ELSE Everywhere("none")
        /\ Leave(Everywhere(IF AnyBad THEN "workerClose" ELSE "laneClose"))
        /\ NoLaneFault
        /\ UNCHANGED <<run, lane, blocked, health, workers>>

\* The completion consensus: all give the queue up, or all keep it and block
\* a second entry.  An abort that lost the lane seals.
Completed ==
    \E s \in {"finalize", "abort"} :
        /\ Met(s)
        /\ IF AnyBad
           THEN /\ blocked' = [r \in Ranks |-> blocked[r] \cup {s}]
                /\ Leave(Everywhere(
                     IF s = "abort" /\ \E r \in Ranks : lost[r] THEN "seal"
                     ELSE "workerClose"))
                /\ UNCHANGED owner
           ELSE /\ owner' = Everywhere("none")
                /\ Leave(Everywhere("laneClose"))
                /\ UNCHANGED blocked
        /\ NoLaneFault
        /\ UNCHANGED <<run, lane, health, workers>>

\* close_collectively of the lane, or its failure on this rank.
CloseLane(r) ==
    /\ Doing(r, "laneClose")
    /\ \/ /\ lane' = [lane EXCEPT ![r] = "closed"]
          /\ Arrive(r, FALSE)
          /\ NoLaneFault
       \/ /\ lane[r] = "active"
          /\ Arrive(r, TRUE)
          /\ LaneFault
          /\ UNCHANGED lane
    /\ UNCHANGED <<run, owner, blocked, health, workers>>

\* "MPI observer lane close": released when it is closed everywhere.
LaneClosed ==
    /\ Met("laneClose")
    /\ lane' = IF AnyBad THEN lane ELSE Everywhere("none")
    /\ Leave(Everywhere("workerClose"))
    /\ NoLaneFault
    /\ UNCHANGED <<run, owner, blocked, health, workers>>

\* "post-commit worker close readiness", worker.close() and its rows.
StopWorker(r) ==
    /\ Doing(r, "workerClose")
    /\ \/ \E q \in Ranks : owner[q] # "none"
       \/ worker[r] = "stopped"
    /\ Arrive(r, FALSE)
    /\ NoLaneFault
    /\ UNCHANGED <<run, holdings, health, workers>>

\* seal_local of the queue and of the worker, which is joined.
SealLocal(r) ==
    /\ Doing(r, "seal")
    /\ lost' = [lost EXCEPT ![r] = @ \/ owner[r] = "queue"]
    /\ error' = [error EXCEPT ![r] = @ \/ owner[r] = "queue"]
    /\ task[r] = "none" /\ worker[r] = "stopped"
    /\ Arrive(r, FALSE)
    /\ NoLaneFault
    /\ UNCHANGED <<run, holdings, workers>>

\* The last preflight decides whether the run is closed.
Closed ==
    \E s \in {"workerClose", "seal"} :
        /\ Met(s)
        /\ Leave(Everywhere("ended"))
        /\ lanePhase' = IF Retained THEN lanePhase ELSE "closed"
        /\ NoLaneFault
        /\ UNCHANGED <<laneCompleted, laneCloses, frames, holdings, health, workers>>

\* The handler of _run closes once more after a close that raised.
LaneCloseAgain ==
    /\ \A r \in Ranks : stage[r] = "ended"
    /\ laneCompleted /\ laneCloses = 1 /\ lanePhase # "closed"
    /\ LaneStartClose
    /\ NoLaneFault
    /\ UNCHANGED <<laneCompleted, frames, holdings, health, workers>>

-----------------------------------------------------------------------------
(* The worker threads.                                                     *)

mainThreads == <<control, run, holdings>>

\* The task ends; a lifecycle call has its result, a job its report.
EndTask(r, result) ==
    /\ task' = [task EXCEPT ![r] = "none"]
    /\ worker' = [worker EXCEPT ![r] = "idle"]
    /\ laneCall' = [laneCall EXCEPT ![r] = result]

\* A cancelled task ends without a provider call.
SkipTask(r) ==
    /\ worker[r] = "idle" /\ task[r] # "none" /\ gate[r] = "cancelled"
    /\ EndTask(r, "failed")
    /\ NoLaneFault
    /\ UNCHANGED <<mainThreads, health, gate, workerBad, laneBroken, entered>>

\* The gate is armed: initialize meets at a barrier and a frame at its gate
\* before the provider is entered; finalize and abort enter it at once.
StartTask(r) ==
    /\ worker[r] = "idle" /\ task[r] # "none" /\ gate[r] = "armed"
    /\ worker' = [worker EXCEPT ![r] =
                     CASE task[r] = "initialize" -> "barrier"
                       [] task[r] = "execute" -> "frame"
                       [] OTHER -> "provider"]
    /\ workerBad' = [workerBad EXCEPT ![r] = FALSE]
    /\ NoLaneFault
    /\ UNCHANGED <<mainThreads, health, task, gate, laneCall, laneBroken, entered>>

\* The barrier of _initialize_session releases every rank.
Barrier ==
    /\ \A r \in Ranks : worker[r] = "barrier"
    /\ ~laneBroken
    /\ worker' = Everywhere("provider")
    /\ NoLaneFault
    /\ UNCHANGED <<mainThreads, health, task, gate, laneCall, workerBad,
                   laneBroken, entered>>

\* Mutant: only the rank with the bad frame stays out.
FrameGateAlone ==
    /\ \A r \in Ranks : worker[r] = "frame"
    /\ ~laneBroken
    /\ \/ /\ worker' = Everywhere("provider")
          /\ NoLaneFault
          /\ UNCHANGED workerBad
       \/ /\ \E r \in Ranks :
                /\ worker' = [Everywhere("provider") EXCEPT ![r] = "agree"]
                /\ workerBad' = [workerBad EXCEPT ![r] = TRUE]
          /\ LaneFault
    /\ UNCHANGED <<mainThreads, health, task, gate, laneCall, laneBroken, entered>>

\* The frame gate of _deliver: a rank that cannot describe its frame keeps
\* every rank out of the provider; all meet again at the agreement.
FrameGate ==
    /\ \A r \in Ranks : worker[r] = "frame"
    /\ ~laneBroken
    /\ \/ /\ worker' = Everywhere("provider")
          /\ NoLaneFault
          /\ UNCHANGED workerBad
       \/ /\ worker' = Everywhere("agree")
          /\ workerBad' = Everywhere(TRUE)
          /\ LaneFault
    /\ UNCHANGED <<mainThreads, health, task, gate, laneCall, laneBroken, entered>>

\* A provider call of this rank returns or raises.  abort has no agreement.
Provide(r) ==
    /\ worker[r] = "provider"
    /\ entered' = [entered EXCEPT ![r] = Append(@, task[r])]
    /\ \E fails \in BOOLEAN :
        /\ IF fails THEN LaneFault ELSE NoLaneFault
        /\ IF task[r] = "abort"
           THEN /\ EndTask(r, IF fails THEN "failed" ELSE "ok")
                /\ UNCHANGED workerBad
           ELSE /\ worker' = [worker EXCEPT ![r] = "agree"]
                /\ workerBad' = [workerBad EXCEPT ![r] = fails]
                /\ UNCHANGED <<task, laneCall>>
    /\ UNCHANGED <<mainThreads, health, gate, laneBroken>>

\* The provider reports that its collective is gone: the rank leaves the lane
\* without the agreement, and the lane is broken for all.
ProviderLost(r) ==
    /\ worker[r] = "provider"
    /\ LaneFault
    /\ entered' = [entered EXCEPT ![r] = Append(@, task[r])]
    /\ laneBroken' = TRUE
    /\ lost' = [lost EXCEPT ![r] = TRUE]
    /\ error' = [error EXCEPT ![r] = @ \/ task[r] = "execute"]
    /\ EndTask(r, "failed")
    /\ UNCHANGED <<mainThreads, gate, workerBad>>

\* _worker_agreement and the agreements of _deliver: one bad rank is a
\* failure for all.  A delivered frame is then acknowledged.
Agreement ==
    LET failed == \E r \in Ranks : workerBad[r] IN
    /\ \A r \in Ranks : worker[r] = "agree"
    /\ ~laneBroken
    /\ \/ /\ ~failed /\ \A r \in Ranks : task[r] = "execute"
          /\ worker' = Everywhere("acknowledge")
          /\ UNCHANGED <<task, laneCall>>
       \/ /\ failed \/ \E r \in Ranks : task[r] # "execute"
          /\ worker' = Everywhere("idle")
          /\ task' = Everywhere("none")
          /\ laneCall' = Everywhere(IF failed THEN "failed" ELSE "ok")
    /\ NoLaneFault
    /\ UNCHANGED <<mainThreads, health, gate, workerBad, laneBroken, entered>>

\* journal.delivered on this rank.
Acknowledge(r) ==
    /\ worker[r] = "acknowledge"
    /\ worker' = [worker EXCEPT ![r] = "acknowledged"]
    /\ \E fails \in BOOLEAN :
        /\ IF fails THEN LaneFault ELSE NoLaneFault
        /\ workerBad' = [workerBad EXCEPT ![r] = fails]
    /\ UNCHANGED <<mainThreads, health, task, gate, laneCall, laneBroken, entered>>

\* The agreement on the acknowledgement ends the job.
Acknowledged ==
    /\ \A r \in Ranks : worker[r] = "acknowledged"
    /\ ~laneBroken
    /\ task' = Everywhere("none")
    /\ worker' = Everywhere("idle")
    /\ NoLaneFault
    /\ UNCHANGED <<mainThreads, health, gate, laneCall, workerBad, laneBroken,
                   entered>>

\* A worker fails after the last agreement, on its rank alone (_process_job).
JobRaises(r) ==
    /\ \A q \in Ranks : worker[q] = "acknowledged"
    /\ ~laneBroken
    /\ LaneFault
    /\ task' = Everywhere("none")
    /\ worker' = Everywhere("idle")
    /\ error' = [error EXCEPT ![r] = TRUE]
    /\ UNCHANGED <<mainThreads, lost, gate, laneCall, workerBad, laneBroken,
                   entered>>

\* The transport loses a lane collective that some rank waits in.
LaneBreaks ==
    /\ \E r \in Ranks : worker[r] \in LaneStages
    /\ ~laneBroken
    /\ LaneFault
    /\ laneBroken' = TRUE
    /\ UNCHANGED <<mainThreads, health, task, gate, worker, laneCall, workerBad,
                   entered>>

\* A collective call on a broken lane raises: _WorkerCollectiveLost.
LaneRaises(r) ==
    /\ worker[r] \in LaneStages /\ laneBroken
    /\ lost' = [lost EXCEPT ![r] = TRUE]
    /\ error' = [error EXCEPT ![r] = @ \/ task[r] = "execute"]
    /\ EndTask(r, "failed")
    /\ NoLaneFault
    /\ UNCHANGED <<mainThreads, gate, workerBad, laneBroken, entered>>

\* The worker consumes the stop of worker.close() or of its seal_local.
WorkerStops(r) ==
    /\ worker[r] = "idle" /\ task[r] = "none"
    /\ \/ Doing(r, "seal")
       \/ Doing(r, "workerClose") /\ \A q \in Ranks : owner[q] = "none"
    /\ worker' = [worker EXCEPT ![r] = "stopped"]
    /\ NoLaneFault
    /\ UNCHANGED <<mainThreads, health, task, gate, laneCall, workerBad,
                   laneBroken, entered>>

-----------------------------------------------------------------------------

LaneWorker ==
    \/ Barrier \/ FrameGate \/ Agreement \/ Acknowledged \/ LaneBreaks
    \/ \E r \in Ranks :
        \/ SkipTask(r) \/ StartTask(r) \/ Provide(r) \/ ProviderLost(r)
        \/ Acknowledge(r) \/ JobRaises(r) \/ LaneRaises(r) \/ WorkerStops(r)

LaneContinue ==
    \/ Constructed \/ Admission \/ Opened \/ Delivered
    \/ Inventory \/ Preflight \/ LaneHealth \/ CloseRoute \/ ClosePrepared
    \/ Completed \/ LaneClosed \/ Closed \/ LaneCloseAgain
    \/ \E r \in Ranks :
        \/ Construct(r) \/ Prepare(r) \/ Arm(r) \/ CompleteInitialize(r)
        \/ Flush(r) \/ PrepareClose(r) \/ CompleteClose(r) \/ CloseLane(r)
        \/ StopWorker(r) \/ SealLocal(r)

LaneNext == LaneSubmit \/ LaneFinish \/ LaneContinue \/ LaneWorker

LaneSpec ==
    /\ LaneInit /\ [][LaneNext]_laneVars
    /\ WF_laneVars(LaneWorker) /\ WF_laneVars(LaneContinue)

-----------------------------------------------------------------------------
(* Properties.                                                             *)

\* Types of all variables.
LaneTypeOK ==
    /\ stage \in [Ranks -> Stages]
    /\ arrived \in [Ranks -> BOOLEAN] /\ bad \in [Ranks -> BOOLEAN]
    /\ lanePhase \in {"opening", "open", "closing_opening", "closing_open",
                  "closed"}
    /\ laneCompleted \in BOOLEAN /\ laneCloses \in 0 .. 2
    /\ frames \in 0 .. MaxLaneFrames
    /\ lane \in [Ranks -> {"none", "active", "closed"}]
    /\ owner \in [Ranks -> {"none", "session", "queue"}]
    /\ blocked \in [Ranks -> SUBSET {"finalize", "abort"}]
    /\ error \in [Ranks -> BOOLEAN] /\ lost \in [Ranks -> BOOLEAN]
    /\ task \in [Ranks -> Operations \cup {"none"}]
    /\ gate \in [Ranks -> {"shut", "armed", "cancelled"}]
    /\ worker \in [Ranks -> WorkerStages]
    /\ laneCall \in [Ranks -> {"none", "ok", "failed"}]
    /\ workerBad \in [Ranks -> BOOLEAN]
    /\ laneBroken \in BOOLEAN
    /\ entered \in [Ranks -> Seq(Operations)]
    /\ laneFaults \in 0 .. MaxLaneFaults

IsInitial(s, t) == Len(s) <= Len(t) /\ \A i \in 1 .. Len(s) : s[i] = t[i]

\* All ranks enter the collective provider in the same order: what one rank
\* has entered is an initial part of what the other has, whatever fails
\* locally, on the lane, or in the admission of a task.  No rank is left
\* behind: when all main threads meet in an exchange all have entered the
\* same operations, although the lane may be lost.
SameOrder ==
    \A r, q \in Ranks :
        /\ \/ IsInitial(entered[r], entered[q])
           \/ IsInitial(entered[q], entered[r])
        /\ (\E s \in Stages : Met(s)) => entered[r] = entered[q]

Farewells == {"finalize", "abort"}

\* "must never mix provider abort on one MPI rank with finalize on another",
\* and neither is entered twice: a retry after provider entry is refused.
OneFarewell ==
    \A r, q \in Ranks : \A i \in DOMAIN entered[r], j \in DOMAIN entered[q] :
        entered[r][i] \in Farewells /\ entered[q][j] \in Farewells =>
            entered[r][i] = entered[q][j] /\ (r = q => i = j)

\* Nobody waits for ever: no rank is left alone in an exchange, a lane
\* collective, a flush or a join.
LaneCallsReturn ==
    \A r \in Ranks : stage[r] # "run" ~> stage[r] \in {"run", "ended"}
=============================================================================
