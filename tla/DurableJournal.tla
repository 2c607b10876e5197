---------------------------- MODULE DurableJournal -----------------------------
(***************************************************************************)
(* python/pops/output/_durable_journal.py with its two callers: the main   *)
(* thread prepares, discards and commits a frame                           *)
(* (_PreparedLiveVisualization, _submit_live_visualization), the observer  *)
(* worker executes and acknowledges committed frames (_deliver).           *)
(*                                                                         *)
(* A frame is its archive name, which orders frames by clock.  A journal   *)
(* call is a script of system calls; between any two of them the other     *)
(* thread may run, the process may die, or the machine may lose power.  A  *)
(* directory entry that was not fsynced survives a power loss or not,      *)
(* independently of every other entry.  Archive bytes are fsynced before   *)
(* they get a name, so a name always authenticates.                        *)
(***************************************************************************)
EXTENDS Integers, Sequences, FiniteSets, Functions

CONSTANTS
    NFrames,      \* frames 1 .. NFrames, in clock order
    MaxAttempts,  \* ObserverQueue max_attempts of one delivery
    Faults,       \* the faults that occur, among "fsync", "process", "power"
    MaxFaults     \* bound: how many of them

Frames == 1 .. NFrames
Dirs == {"prepared", "pending", "delivered"}
Threads == {"main", "worker"}
FaultKinds == {"fsync", "process", "power"}

ASSUME JournalAssumption ==
    /\ NFrames \in Nat \ {0} /\ MaxAttempts \in Nat \ {0}
    /\ Faults \subseteq FaultKinds /\ MaxFaults \in Nat

VARIABLES
    visible,    \* directory -> the frames that have a link in it
    durable,    \* directory -> the links that would survive a power loss
    status,     \* "closed", "recovering" (_initialize) or "open"
    op,         \* thread -> the journal call it is in, or "none"
    script,     \* thread -> the system calls left of that call
    names,      \* the frames that recovery has not looked at yet
    cursor,     \* the last frame whose step this run has made final
    staged,     \* the frame of the step being accepted and its record state
    queue,      \* the frames submitted to the worker
    attempt,    \* deliveries tried for the head of the queue
    handed,     \* history: frames whose commit() returned
    executed,   \* history: frames a provider has executed
    acked,      \* history: frames whose delivered() returned
    givenUp,    \* history: frames this run has reported as failed
    syncFailed, \* history: some fsync has failed
    faults      \* bounded counter

links == <<visible, durable>>
threads == <<op, script>>
history == <<handed, executed, acked, givenUp>>
vars == <<links, status, threads, names, cursor, staged, queue, attempt, history,
          syncFailed, faults>>

Nothing == [frame |-> 0, state |-> "none"]
Call(name, d, f) == [name |-> name, dir |-> d, frame |-> f]
Free(t) == op[t] = "none"
NoCalls == [t \in Threads |-> <<>>]
NoOps == [t \in Threads |-> "none"]

\* _existing_exact: is there a link?  OnFound says how the call goes on if so.
Probe(d, f) == <<Call("probe", d, f)>>

\* _remove: unlink, then sync the directory; an absent name needs neither.
RemoveLink(d, f) == <<Call("unlink", d, f), Call("sync", d, f)>>

\* Mutant: the destination is never synced.
PromoteUnsynced(source, target, f) ==
    <<Call("link", target, f)>> \o RemoveLink(source, f)

\* _promote: the destination is durable before the source is removed.
Promote(source, target, f) ==
    <<Call("link", target, f), Call("sync", target, f)>> \o RemoveLink(source, f)

Init ==
    /\ visible = [d \in Dirs |-> {}] /\ durable = [d \in Dirs |-> {}]
    /\ status = "closed" /\ op = NoOps /\ script = NoCalls /\ names = {}
    /\ cursor = 0 /\ staged = Nothing /\ queue = <<>> /\ attempt = 0
    /\ handed = {} /\ executed = {} /\ acked = {}
    /\ givenUp = {} /\ syncFailed = FALSE /\ faults = 0

Start(t, name, calls) ==
    /\ op' = [op EXCEPT ![t] = name]
    /\ script' = [script EXCEPT ![t] = calls]

Finish(t) ==
    /\ op' = [op EXCEPT ![t] = "none"]
    /\ script' = [script EXCEPT ![t] = <<>>]

Returns(t, name) == op[t] = name /\ script[t] = <<>> /\ Finish(t)

--------------------------------------------------------------------------------
(***************************************************************************)
(* A run opens the journal: automatic recovery keeps the most advanced     *)
(* state of a name and rolls an orphaned preparation back.                 *)
(***************************************************************************)

RecoveryOf(f) ==
    IF f \in visible["delivered"]
    THEN RemoveLink("pending", f) \o RemoveLink("prepared", f)
    ELSE RemoveLink("prepared", f)

Recover ==
    /\ status = "closed"
    /\ status' = "recovering"
    /\ names' = Frames
    /\ Start("main", "recover", <<>>)
    /\ UNCHANGED <<links, cursor, staged, queue, attempt, history, syncFailed,
                   faults>>

\* Archive names are hashes: their order is any order of the frames.
RecoverName(f) ==
    /\ op["main"] = "recover" /\ script["main"] = <<>> /\ f \in names
    /\ script' = [script EXCEPT !["main"] = RecoveryOf(f)]
    /\ names' = names \ {f}
    /\ UNCHANGED <<links, status, op, cursor, staged, queue, attempt, history,
                   syncFailed, faults>>

\* list_pending: the sequence of these frames, in clock order.
InClockOrder(S) ==
    {q \in [1 .. Cardinality(S) -> S] :
        Range(q) = S /\ \A i, j \in DOMAIN q : i < j => q[i] < q[j]}

\* The committed frames are submitted in clock order; the run does not wait.
\* It starts at the beginning or at a checkpoint: frames may come again.
Opened ==
    /\ Returns("main", "recover") /\ names = {}
    /\ status' = "open"
    /\ queue' \in InClockOrder(visible["pending"])
    /\ attempt' = 0
    /\ cursor' \in 0 .. NFrames
    /\ givenUp' = {}
    /\ UNCHANGED <<links, names, staged, handed, executed, acked, syncFailed,
                   faults>>

\* The run ends: the queue is drained before its session closes.
Close ==
    /\ status = "open" /\ staged = Nothing /\ queue = <<>>
    /\ \A t \in Threads : Free(t)
    /\ status' = "closed"
    /\ UNCHANGED <<links, threads, names, cursor, staged, queue, attempt, history,
                   syncFailed, faults>>

--------------------------------------------------------------------------------
(***************************************************************************)
(* The main thread.                                                        *)
(***************************************************************************)

Idle == status = "open" /\ Free("main")

\* prepare: an existing archive is returned as it is; else the archive gets its
\* name, and the directory is synced for the name and for the temporary's end.
Prepare(f) ==
    /\ Idle /\ staged = Nothing /\ f = cursor + 1
    /\ staged' = [frame |-> f, state |-> "prepared"]
    /\ Start("main", "prepare",
             Probe("delivered", f) \o Probe("pending", f) \o Probe("prepared", f)
             \o <<Call("link", "prepared", f), Call("sync", "prepared", f),
                  Call("sync", "prepared", f)>>)
    /\ UNCHANGED <<links, status, names, cursor, queue, attempt, history,
                   syncFailed, faults>>

PrepareReturns ==
    /\ Returns("main", "prepare")
    /\ UNCHANGED <<links, status, names, cursor, staged, queue, attempt, history,
                   syncFailed, faults>>

\* The step is undone: only a record in state prepared is discarded.  A failed
\* rollback is tried again; its frame cannot be committed any more.
Discard ==
    /\ Idle /\ staged # Nothing
    /\ IF staged.state \in {"prepared", "undoing"}
       THEN /\ staged' = [staged EXCEPT !.state = "undoing"]
            /\ Start("main", "discard",
                     Probe("delivered", staged.frame)
                     \o Probe("pending", staged.frame)
                     \o RemoveLink("prepared", staged.frame))
       ELSE staged' = Nothing /\ UNCHANGED threads
    /\ UNCHANGED <<links, status, names, cursor, queue, attempt, history,
                   syncFailed, faults>>

DiscardReturns ==
    /\ Returns("main", "discard")
    /\ staged' = Nothing
    /\ UNCHANGED <<links, status, names, cursor, queue, attempt, history,
                   syncFailed, faults>>

\* The step is final.  A record that was committed before is left to replay.
Commit ==
    /\ Idle /\ staged.state \in Dirs
    /\ cursor' = staged.frame
    /\ IF staged.state = "prepared"
       THEN /\ Start("main", "commit",
                     Probe("delivered", staged.frame)
                     \o Probe("pending", staged.frame)
                     \o Promote("prepared", "pending", staged.frame))
            /\ UNCHANGED staged
       ELSE staged' = Nothing /\ UNCHANGED threads
    /\ UNCHANGED <<links, status, names, queue, attempt, history, syncFailed,
                   faults>>

\* Mutant: every committed record is taken for an acknowledged one.
SubmittedNever(f, state) == queue

\* A record that commit() found acknowledged is not submitted.
Submitted(f, state) == IF state = "delivered" THEN queue ELSE Append(queue, f)

CommitReturns ==
    /\ Returns("main", "commit")
    /\ staged' = Nothing
    /\ handed' = handed \cup {staged.frame}
    /\ queue' = Submitted(staged.frame, staged.state)
    /\ UNCHANGED <<links, status, names, cursor, attempt, executed, acked, givenUp,
                   syncFailed, faults>>

\* The record is committed, but the queue refuses the frame, or another rank
\* fails: _record_observer_failure, and the frame waits for the next run.
SubmissionFails ==
    /\ Returns("main", "commit")
    /\ staged' = Nothing
    /\ handed' = handed \cup {staged.frame}
    /\ givenUp' = givenUp \cup {staged.frame}
    /\ UNCHANGED <<links, status, names, cursor, queue, attempt, executed, acked,
                   syncFailed, faults>>

--------------------------------------------------------------------------------
(***************************************************************************)
(* The worker thread.                                                      *)
(***************************************************************************)

\* Mutant: the acknowledged frame keeps its pending link.
DeliveredCallsKeep(f) ==
    Probe("delivered", f)
        \o <<Call("link", "delivered", f), Call("sync", "delivered", f)>>
        \o RemoveLink("prepared", f)

\* The system calls of delivered.
DeliveredCalls(f) ==
    Probe("delivered", f) \o Promote("pending", "delivered", f)
        \o RemoveLink("pending", f) \o RemoveLink("prepared", f)

\* The provider executes the frame, then delivered() is called.
Deliver ==
    /\ status = "open" /\ Free("worker") /\ queue # <<>>
    /\ executed' = executed \cup {Head(queue)}
    /\ attempt' = attempt + 1
    /\ Start("worker", "delivered", DeliveredCalls(Head(queue)))
    /\ UNCHANGED <<links, status, names, cursor, staged, queue, handed,
                   acked, givenUp, syncFailed, faults>>

\* The provider refuses the frame in every attempt left: it stays pending.
GiveUp ==
    /\ status = "open" /\ Free("worker") /\ queue # <<>>
    /\ givenUp' = givenUp \cup {Head(queue)}
    /\ queue' = Tail(queue) /\ attempt' = 0
    /\ UNCHANGED <<links, status, threads, names, cursor, staged, handed,
                   executed, acked, syncFailed, faults>>

DeliveredReturns ==
    /\ Returns("worker", "delivered")
    /\ acked' = acked \cup {Head(queue)}
    /\ queue' = Tail(queue) /\ attempt' = 0
    /\ UNCHANGED <<links, status, names, cursor, staged, handed, executed,
                   givenUp, syncFailed, faults>>

--------------------------------------------------------------------------------
(***************************************************************************)
(* System calls.                                                           *)
(***************************************************************************)

\* How prepare, commit and delivered go on when a probe finds its link.
OnFound(name, f) ==
    CASE name = "prepare" -> <<>>
      [] name = "commit" -> RemoveLink("prepared", f)
      [] name = "delivered" ->
            RemoveLink("pending", f) \o RemoveLink("prepared", f)

Found(t) ==
    LET c == Head(script[t]) IN
    /\ script[t] # <<>> /\ c.name = "probe" /\ c.frame \in visible[c.dir]

ProbeFinds(t) ==
    /\ Found(t) /\ op[t] # "discard"
    /\ script' = [script EXCEPT ![t] = OnFound(op[t], Head(@).frame)]
    /\ staged' = IF t = "main" THEN [staged EXCEPT !.state = Head(script[t]).dir]
                 ELSE staged
    /\ UNCHANGED <<links, status, op, names, cursor, queue, attempt, history,
                   syncFailed, faults>>

\* discard_prepared: a committed journal record cannot be discarded.
DiscardRefused ==
    /\ Found("main") /\ op["main"] = "discard"
    /\ Finish("main")
    /\ UNCHANGED <<links, status, names, cursor, staged, queue, attempt, history,
                   syncFailed, faults>>

Links(c) ==
    CASE c.name = "link" -> [visible EXCEPT ![c.dir] = @ \cup {c.frame}]
      [] c.name = "unlink" -> [visible EXCEPT ![c.dir] = @ \ {c.frame}]
      [] OTHER -> visible

SystemCall(t) ==
    /\ script[t] # <<>> /\ ~Found(t)
    /\ LET c == Head(script[t])
           gone == c.name = "unlink" /\ c.frame \notin visible[c.dir]
       IN  /\ visible' = Links(c)
           /\ durable' = IF c.name = "sync"
                         THEN [durable EXCEPT ![c.dir] = visible[c.dir]]
                         ELSE durable
           /\ script' = [script EXCEPT ![t] = IF gone THEN Tail(Tail(@))
                                              ELSE Tail(@)]
    /\ UNCHANGED <<status, op, names, cursor, staged, queue, attempt, history,
                   syncFailed, faults>>

--------------------------------------------------------------------------------
(***************************************************************************)
(* Faults.                                                                 *)
(***************************************************************************)

Fault(kind) == kind \in Faults /\ faults < MaxFaults /\ faults' = faults + 1

\* _deliver has made its last attempt.
Exhausted == attempt = MaxAttempts

(***************************************************************************)
(* An fsync raises.  Opening fails; a failed prepare fails the step, a     *)
(* failed commit only the frame; a failed rollback or acknowledgement is   *)
(* tried again.                                                            *)
(***************************************************************************)
SyncFails(t) ==
    /\ script[t] # <<>> /\ Head(script[t]).name = "sync"
    /\ Fault("fsync")
    /\ syncFailed' = TRUE
    /\ Finish(t) /\ names' = {}
    /\ status' = IF op[t] = "recover" THEN "closed" ELSE status
    /\ staged' = IF op[t] \in {"prepare", "commit"} THEN Nothing ELSE staged
    /\ IF t = "worker" /\ Exhausted
       THEN queue' = Tail(queue) /\ attempt' = 0
       ELSE UNCHANGED <<queue, attempt>>
    /\ UNCHANGED <<links, cursor, history>>

Die ==
    /\ status' = "closed"
    /\ op' = NoOps /\ script' = NoCalls
    /\ names' = {} /\ staged' = Nothing /\ queue' = <<>> /\ attempt' = 0

ProcessDies ==
    /\ status # "closed"
    /\ Fault("process")
    /\ Die
    /\ UNCHANGED <<links, cursor, history, syncFailed>>

\* Each entry that is not durable survives or not.
PowerFails ==
    /\ Fault("power")
    /\ \E kept \in [Dirs -> SUBSET Frames] :
        /\ \A d \in Dirs : /\ visible[d] \cap durable[d] \subseteq kept[d]
                           /\ kept[d] \subseteq visible[d] \cup durable[d]
        /\ visible' = kept /\ durable' = kept
    /\ Die
    /\ UNCHANGED <<cursor, history, syncFailed>>

Next ==
    \/ Recover \/ Opened \/ Close
    \/ \E f \in Frames : RecoverName(f) \/ Prepare(f)
    \/ PrepareReturns \/ Discard \/ DiscardReturns \/ DiscardRefused
    \/ Commit \/ CommitReturns \/ SubmissionFails
    \/ Deliver \/ GiveUp \/ DeliveredReturns
    \/ \E t \in Threads : ProbeFinds(t) \/ SystemCall(t) \/ SyncFails(t)
    \/ ProcessDies \/ PowerFails

Spec == Init /\ [][Next]_vars

--------------------------------------------------------------------------------
(***************************************************************************)
(* Types: directories hold frames, threads hold the calls of their role,   *)
(* a frame is tried at most max_attempts times (_deliver).                 *)
(***************************************************************************)
TypeOK ==
    /\ visible \in [Dirs -> SUBSET Frames]
    /\ durable \in [Dirs -> SUBSET Frames]
    /\ {handed, executed, acked, givenUp} \subseteq SUBSET Frames
    /\ status \in {"closed", "recovering", "open"}
    /\ DOMAIN op = Threads
    /\ op["main"] \in {"none", "recover", "prepare", "discard", "commit"}
    /\ op["worker"] \in {"none", "delivered"}
    /\ script \in [Threads -> Seq([name : {"probe", "link", "unlink", "sync"},
                                   dir : Dirs, frame : Frames])]
    /\ staged \in {Nothing} \cup [frame : Frames, state : Dirs \cup {"undoing"}]
    /\ names \subseteq Frames
    /\ queue \in Seq(Frames) /\ attempt \in 0 .. MaxAttempts
    /\ cursor \in 0 .. NFrames /\ faults \in 0 .. MaxFaults

(***************************************************************************)
(* At least once after handoff: a frame whose commit() returned stays in   *)
(* the pending directory until a provider has executed it, whatever call   *)
(* dies, fails its fsync or loses power (the order of _promote).           *)
(***************************************************************************)
HandoffSurvives == \A f \in handed : f \in executed \/ f \in visible["pending"]

(***************************************************************************)
(* An acknowledgement is final: while every fsync succeeds, a frame whose  *)
(* delivered() returned is not pending in an open journal, so no later run *)
(* replays it, whatever died since (delivered, _recover).                  *)
(***************************************************************************)
AckIsFinal ==
    status = "open" /\ ~syncFailed =>
        \A f \in acked : f \notin visible["pending"]

(***************************************************************************)
(* No committed frame is stranded: while every fsync succeeds, a pending   *)
(* frame of an open journal is queued for the worker, or its commit has    *)
(* not returned, or this run has reported its failure, in the worker or    *)
(* between the commit and the queue (_submit_live_visualization,           *)
(* _replay_observer_journal).                                              *)
(***************************************************************************)
PendingIsQueued ==
    status = "open" /\ ~syncFailed =>
        \A f \in visible["pending"] :
            \/ f \in Range(queue) \cup givenUp
            \/ op["main"] = "commit" /\ staged.frame = f

================================================================================
