-------------------------- MODULE MultiLayoutExecutor --------------------------
(***************************************************************************)
(* One native step over several layouts                                    *)
(* (python/pops/runtime/_multi_layout_executor.py).  The executor drives   *)
(* one native engine per layout and one transfer session per mapping       *)
(* between two layouts (src/runtime/system/system_layout_transfer.cpp),    *)
(* and offers the envelope of _runtime_instance.py the transaction         *)
(* protocol of a single engine.                                            *)
(*                                                                         *)
(* The envelope has one thread, so every action is one call of an engine   *)
(* or of a session, and an error of that call unwinds as the code does.    *)
(* The content of an engine is its macro_step and the mappings that have   *)
(* been applied to it since the last accepted step.                        *)
(***************************************************************************)
EXTENDS Integers, Sequences, FiniteSets

CONSTANTS
    Layouts,        \* number of child engines, in order
    Routes,         \* the mappings: a sequence of source and target layouts
    MaxSteps,       \* bound: accepted steps
    MaxBegun,       \* bound: transfer generations, one per begun step
    MaxRejects,     \* bound: rejected attempts
    MaxFaults,      \* bound: calls that raise
    MaxInterrupts   \* bound: interrupts delivered when a native call returns

Engines == 1 .. Layouts
Sessions == DOMAIN Routes

ASSUME LayoutsAssumption ==
    /\ Layouts \in Nat \ {0}
    /\ Routes \in Seq([source : Engines, target : Engines])
    /\ {MaxSteps, MaxBegun, MaxRejects, MaxFaults, MaxInterrupts} \subseteq Nat

VARIABLES
    pc, i,          \* the call that comes next
    failure,        \* what the envelope is going to raise
    engine,         \* child -> its transaction, content and snapshot
    session,        \* mapping -> its PreparedSystemLayoutTransfer
    generation,     \* _transfer_generation
    active,         \* _active_transfer_generation, 0 when None
    attempt,        \* _transfer_attempt
    mapping,        \* _mapping_evaluations, the same for every mapping
    saved,          \* _mapping_snapshot as a set, empty when None
    accepted,       \* the accepted macro_step of the envelope
    rejects, faults, interrupts

transfer == <<generation, active, attempt>>
counts == <<mapping, saved>>
bounds == <<rejects, faults, interrupts>>
vars == <<pc, i, failure, engine, session, transfer, counts, accepted, bounds>>

At(step) == [step |-> step, fed |-> {}]
Torn == [step |-> -1, fed |-> {}]     \* what a failed native call leaves
Inbound(e) == {m \in Sessions : Routes[m].target = e}

Init ==
    /\ pc = "idle" /\ i = 0 /\ failure = "none"
    /\ engine = [e \in Engines |-> [tx |-> "none", now |-> At(0),
                                    image |-> At(0)]]
    /\ session = [m \in Sessions |->
          [active |-> FALSE, generation |-> 0, last |-> 0, captured |-> 0,
           applied |-> FALSE, held |-> At(0)]]
    /\ generation = 0 /\ active = 0 /\ attempt = 0
    /\ mapping = 0 /\ saved = {}
    /\ accepted = 0
    /\ rejects = 0 /\ faults = 0 /\ interrupts = 0

Fault == faults < MaxFaults /\ faults' = faults + 1
Goto(where, index) == pc' = where /\ i' = index

-----------------------------------------------------------------------------
(* A child engine (System::*_step_transaction).                            *)

Opened(e) == [engine[e] EXCEPT !.tx = "active", !.image = engine[e].now]

Restored(e) == [engine[e] EXCEPT !.tx = "none", !.now = engine[e].image]

\* An error inside AcceptedSnapshot::restore, or inside a call that writes the
\* state, leaves the transaction open.
Spoiled(e) == [engine[e] EXCEPT !.now = Torn]

Fed(e, m) == [engine[e] EXCEPT !.now.fed = @ \cup {m}]

Stepped(e) == [engine[e] EXCEPT !.now.step = @ + 1]

Committed(e) == [engine[e] EXCEPT !.tx = "committed"]

Closed(e) == [engine[e] EXCEPT !.tx = "none", !.now.fed = {}]

-----------------------------------------------------------------------------
(* A transfer session (PreparedSystemLayoutTransfer).                      *)

\* Source and target are in active, uncommitted transactions.
EnginesOpen(m) ==
    engine[Routes[m].source].tx = "active" /\ engine[Routes[m].target].tx = "active"

MayOpen(m) ==
    ~session[m].active /\ generation > session[m].last /\ EnginesOpen(m)

SessionOpened(m) ==
    [session[m] EXCEPT !.active = TRUE, !.generation = generation,
                       !.captured = 0, !.applied = FALSE]

ValidateActive(m) ==
    session[m].active /\ active = session[m].generation /\ EnginesOpen(m)

\* finalize_transaction and rollback_transaction: only the named generation.
Released(s, g) ==
    IF s.active /\ g = s.generation
    THEN [s EXCEPT !.last = g, !.generation = 0, !.captured = 0,
                   !.active = FALSE, !.applied = FALSE]
    ELSE s

-----------------------------------------------------------------------------
(* _begin_step_transaction.                                                *)

\* The run loop compares the clocks of the children before a step; the retry
\* of a rejected attempt begins at once.
Start ==
    /\ pc = "idle" /\ accepted < MaxSteps /\ generation < MaxBegun
    /\ \/ failure = "reject"
       \/ \A e \in Engines : engine[e].now.step = engine[1].now.step
    /\ saved' = {mapping}
    /\ failure' = "none"
    /\ Goto("begin", 1)
    /\ UNCHANGED <<engine, session, transfer, mapping, accepted, bounds>>

BeginEngine ==
    /\ pc = "begin" /\ i <= Layouts
    /\ \/ /\ engine[i].tx = "none"
          /\ engine' = [engine EXCEPT ![i] = Opened(i)]
          /\ generation' = IF i = Layouts THEN generation + 1 ELSE generation
          /\ Goto("begin", i + 1)
          /\ UNCHANGED <<failure, faults>>
       \/ /\ (engine[i].tx # "none" /\ UNCHANGED faults) \/ Fault
          /\ failure' = "fail"
          /\ Goto("unwind", i - 1)
          /\ UNCHANGED <<engine, generation>>
    /\ UNCHANGED <<session, active, attempt, counts, accepted, rejects,
                   interrupts>>

\* rollback_transaction of the sessions that are in begun_routes.
Unwound(begun) ==
    [m \in Sessions |-> IF m <= begun THEN Released(session[m], generation)
                        ELSE session[m]]

BeginSession ==
    LET m == i - Layouts
    IN  /\ pc = "begin" /\ m \in Sessions
        /\ \/ /\ MayOpen(m)
              /\ session' = [session EXCEPT ![m] = SessionOpened(m)]
              /\ Goto("begin", i + 1)
              /\ UNCHANGED <<failure, faults, interrupts>>
           \/ /\ (~MayOpen(m) /\ UNCHANGED faults) \/ Fault
              /\ failure' = "fail"
              /\ session' = Unwound(m - 1)
              /\ Goto("unwind", Layouts)
              /\ UNCHANGED interrupts
           \/ \* The call returns, but the session is not yet in begun_routes.
              /\ MayOpen(m)
              /\ interrupts < MaxInterrupts /\ interrupts' = interrupts + 1
              /\ failure' = "fail"
              /\ session' = [Unwound(m - 1) EXCEPT ![m] = SessionOpened(m)]
              /\ Goto("unwind", Layouts)
              /\ UNCHANGED faults
        /\ UNCHANGED <<engine, transfer, counts, accepted, rejects>>

Begun ==
    /\ pc = "begin" /\ i > Layouts + Len(Routes)
    /\ active' = generation
    /\ attempt' = attempt + 1   \* the first step() of the transaction
    /\ Goto("capture", 1)
    /\ UNCHANGED <<failure, engine, session, generation, counts, accepted,
                   bounds>>

\* The handler rolls the begun engines back in reverse order; an error there
\* leaves the handler.
UnwindEngine ==
    /\ pc = "unwind" /\ i > 0
    /\ \/ /\ engine' = [engine EXCEPT ![i] = Restored(i)]
          /\ Goto("unwind", i - 1)
          /\ UNCHANGED faults
       \/ /\ Fault
          /\ engine' = [engine EXCEPT ![i] = Spoiled(i)]
          /\ Goto("rollback", Layouts)
    /\ UNCHANGED <<failure, session, transfer, counts, accepted, rejects,
                   interrupts>>

UnwoundAll ==
    /\ pc = "unwind" /\ i = 0
    /\ active' = 0 /\ attempt' = 0 /\ saved' = {}
    /\ Goto("rollback", Layouts)
    /\ UNCHANGED <<failure, engine, session, generation, mapping, accepted,
                   bounds>>

-----------------------------------------------------------------------------
(* step.                                                                   *)

\* The envelope catches the error and calls rollback().
Fail ==
    /\ failure' = "fail"
    /\ Goto("rollback", Layouts)

\* Mutant: the buffer of the step before is taken for a capture.
CaptureSessionCached ==
    /\ pc = "capture" /\ i \in Sessions
    /\ session' = [session EXCEPT ![i].captured = attempt]
    /\ Goto("capture", i + 1)
    /\ UNCHANGED <<failure, engine, transfer, counts, accepted, bounds>>

CaptureSession ==
    /\ pc = "capture" /\ i \in Sessions
    /\ \/ /\ ValidateActive(i) /\ ~session[i].applied
          /\ session[i].captured \in {0, attempt}
          /\ session' = [session EXCEPT ![i].captured = attempt,
                              ![i].held = engine[Routes[i].source].now]
          /\ Goto("capture", i + 1)
          /\ UNCHANGED <<failure, faults>>
       \/ /\ Fault /\ Fail
          /\ UNCHANGED session
    /\ UNCHANGED <<engine, transfer, counts, accepted, rejects, interrupts>>

Captured ==
    /\ pc = "capture" /\ i > Len(Routes)
    /\ Goto("apply", 1)
    /\ UNCHANGED <<failure, engine, session, transfer, counts, accepted, bounds>>

\* The provider writes the target; a failing one leaves it half written.
ApplySession ==
    /\ pc = "apply" /\ i \in Sessions
    /\ LET to == Routes[i].target
       IN  \/ /\ ValidateActive(i)
              /\ session[i].captured = attempt /\ ~session[i].applied
              /\ session' = [session EXCEPT ![i].applied = TRUE]
              /\ engine' = [engine EXCEPT ![to] = Fed(to, i)]
              /\ Goto("apply", i + 1)
              /\ UNCHANGED <<failure, faults>>
           \/ /\ Fault /\ Fail
              /\ engine' = [engine EXCEPT ![to] = Spoiled(to)]
              /\ session' \in {session, [session EXCEPT ![i].applied = TRUE]}
    /\ UNCHANGED <<transfer, counts, accepted, rejects, interrupts>>

\* Mutant: the last mapping is left out.
AppliedEarly ==
    /\ pc = "apply" /\ i >= Len(Routes)
    /\ Goto("advance", 1)
    /\ UNCHANGED <<failure, engine, session, transfer, counts, accepted, bounds>>

Applied ==
    /\ pc = "apply" /\ i > Len(Routes)
    /\ Goto("advance", 1)
    /\ UNCHANGED <<failure, engine, session, transfer, counts, accepted, bounds>>

AdvanceEngine ==
    /\ pc = "advance" /\ i \in Engines
    /\ \/ /\ engine' = [engine EXCEPT ![i] = Stepped(i)]
          /\ Goto("advance", i + 1)
          /\ UNCHANGED <<failure, faults, rejects>>
       \/ \* StepAttemptRejected
          /\ rejects < MaxRejects /\ rejects' = rejects + 1
          /\ failure' = "reject"
          /\ Goto("reject", 0)
          /\ UNCHANGED <<engine, faults>>
       \/ /\ Fault /\ Fail
          /\ engine' = [engine EXCEPT ![i] = Spoiled(i)]
          /\ UNCHANGED rejects
    /\ UNCHANGED <<session, transfer, counts, accepted, interrupts>>

Advanced ==
    /\ pc = "advance" /\ i > Layouts
    /\ mapping' = mapping + 1
    /\ Goto("commit", 1)
    /\ UNCHANGED <<failure, engine, session, transfer, saved, accepted, bounds>>

-----------------------------------------------------------------------------
(* _restore_rejected_native_attempt.                                       *)

RejectSessions ==
    /\ pc = "reject"
    /\ \/ /\ \A m \in Sessions : ValidateActive(m) /\ session[m].captured = attempt
          /\ session' = [m \in Sessions |->
                [session[m] EXCEPT !.captured = 0, !.applied = FALSE]]
          /\ Goto("undo", Layouts)
          /\ UNCHANGED <<failure, faults>>
       \/ /\ Fault /\ Fail
          /\ UNCHANGED session
    /\ UNCHANGED <<engine, transfer, counts, accepted, rejects, interrupts>>

\* Every child is tried; an error makes the rejection fatal at the end.
UndoEngine ==
    /\ pc = "undo" /\ i > 0
    /\ \/ /\ engine' = [engine EXCEPT ![i] = Restored(i)]
          /\ UNCHANGED <<failure, faults>>
       \/ /\ Fault
          /\ engine' = [engine EXCEPT ![i] = Spoiled(i)]
          /\ failure' = "fail"
    /\ Goto("undo", i - 1)
    /\ UNCHANGED <<session, transfer, counts, accepted, rejects, interrupts>>

Undone ==
    /\ pc = "undo" /\ i = 0
    /\ IF failure = "fail" THEN Goto("rollback", Layouts) ELSE Goto("again", 1)
    /\ UNCHANGED <<failure, engine, session, transfer, counts, accepted, bounds>>

\* The children begin again; when one cannot, the begun ones are rolled back
\* and their errors are swallowed.
BeginAgain ==
    /\ pc = "again"
    /\ \/ /\ i \in Engines
          /\ engine' = [engine EXCEPT ![i] = Opened(i)]
          /\ Goto("again", i + 1)
          /\ UNCHANGED <<failure, faults>>
       \/ /\ i \in Engines
          /\ Fail
          /\ \E bad \in SUBSET (1 .. i - 1) :
                /\ faults' = faults + 1 + Cardinality(bad)
                /\ faults' <= MaxFaults
                /\ engine' = [e \in Engines |->
                                 IF e >= i THEN engine[e]
                                 ELSE IF e \in bad THEN Spoiled(e)
                                 ELSE Restored(e)]
       \/ /\ i > Layouts
          /\ Goto("rollback", Layouts)
          /\ UNCHANGED <<failure, engine, faults>>
    /\ UNCHANGED <<session, transfer, counts, accepted, rejects, interrupts>>

-----------------------------------------------------------------------------
(* _commit_step_transaction and _finalize_step_transaction.  Between them  *)
(* the envelope accepts the samples of the step.                           *)

CommitEngine ==
    /\ pc = "commit" /\ i <= Layouts
    /\ \/ /\ engine[i].tx = "active"
          /\ engine' = [engine EXCEPT ![i] = Committed(i)]
          /\ Goto("commit", i + 1)
          /\ UNCHANGED <<failure, faults>>
       \/ /\ Fault /\ Fail
          /\ UNCHANGED engine
    /\ UNCHANGED <<session, transfer, counts, accepted, rejects, interrupts>>

AcceptConsumers ==
    /\ pc = "commit" /\ i > Layouts
    /\ \/ /\ Goto("finalize", 1)
          /\ UNCHANGED <<failure, faults>>
       \/ Fault /\ Fail
    /\ UNCHANGED <<engine, session, transfer, counts, accepted, rejects,
                   interrupts>>

FinalizeEngine ==
    /\ pc = "finalize" /\ i <= Layouts
    /\ engine[i].tx = "committed"
    /\ engine' = [engine EXCEPT ![i] = Closed(i)]
    /\ Goto("finalize", i + 1)
    /\ UNCHANGED <<failure, session, transfer, counts, accepted, bounds>>

Finalized ==
    /\ pc = "finalize" /\ i > Layouts
    /\ session' = [m \in Sessions |-> Released(session[m], active)]
    /\ active' = 0 /\ attempt' = 0 /\ saved' = {}
    /\ accepted' = accepted + 1
    /\ failure' = "none"
    /\ Goto("idle", 0)
    /\ UNCHANGED <<engine, generation, mapping, bounds>>

-----------------------------------------------------------------------------
(* _rollback_step_transaction.                                             *)

\* Mutant: the first child that cannot roll back ends the loop.
RollbackEngineStops ==
    /\ pc = "rollback" /\ i > 0
    /\ engine' = [engine EXCEPT ![i] = IF @.tx = "none" THEN @ ELSE Restored(i)]
    /\ Goto("rollback", IF engine[i].tx = "none" THEN 0 ELSE i - 1)
    /\ UNCHANGED <<failure, session, transfer, counts, accepted, bounds>>

\* A child without a transaction raises; the loop goes on in any case.
RollbackEngine ==
    /\ pc = "rollback" /\ i > 0
    /\ \/ /\ engine[i].tx = "none"
          /\ UNCHANGED <<engine, faults>>
       \/ /\ engine[i].tx # "none"
          /\ engine' = [engine EXCEPT ![i] = Restored(i)]
          /\ UNCHANGED faults
       \/ /\ engine[i].tx # "none"
          /\ Fault
          /\ engine' = [engine EXCEPT ![i] = Spoiled(i)]
    /\ Goto("rollback", i - 1)
    /\ UNCHANGED <<failure, session, transfer, counts, accepted, rejects,
                   interrupts>>

RollbackSessions ==
    IF active = 0 THEN session
    ELSE [m \in Sessions |-> Released(session[m], active)]

RollbackMapping == IF saved = {} THEN mapping ELSE CHOOSE n \in saved : TRUE

RolledBack ==
    /\ pc = "rollback" /\ i = 0
    /\ session' = RollbackSessions
    /\ mapping' = RollbackMapping
    /\ active' = 0 /\ attempt' = 0 /\ saved' = {}
    /\ Goto("idle", 0)
    /\ UNCHANGED <<failure, engine, generation, accepted, bounds>>

-----------------------------------------------------------------------------
Next ==
    \/ Start \/ BeginEngine \/ BeginSession \/ Begun \/ UnwindEngine \/ UnwoundAll
    \/ CaptureSession \/ Captured \/ ApplySession \/ Applied
    \/ AdvanceEngine \/ Advanced
    \/ RejectSessions \/ UndoEngine \/ Undone \/ BeginAgain
    \/ CommitEngine \/ AcceptConsumers \/ FinalizeEngine \/ Finalized
    \/ RollbackEngine \/ RolledBack

Spec == Init /\ [][Next]_vars

-----------------------------------------------------------------------------
Contents == [step : Nat \cup {-1}, fed : SUBSET Sessions]

\* Types of the executor, its children and its sessions.
TypeOK ==
    /\ pc \in {"idle", "begin", "unwind", "capture", "apply", "advance",
               "reject", "undo", "again", "commit", "finalize", "rollback"}
    /\ i \in 0 .. Layouts + Len(Routes) + 1
    /\ failure \in {"none", "reject", "fail"}
    /\ engine \in [Engines -> [tx : {"none", "active", "committed"},
                               now : Contents, image : Contents]]
    /\ session \in [Sessions -> [active : BOOLEAN, generation : Nat, last : Nat,
                                 captured : Nat, applied : BOOLEAN,
                                 held : Contents]]
    /\ generation \in Nat /\ active \in Nat /\ attempt \in 0 .. 1
    /\ mapping \in Nat /\ saved \subseteq Nat /\ accepted \in Nat
    /\ rejects \in 0 .. MaxRejects /\ faults \in 0 .. MaxFaults
    /\ interrupts \in 0 .. MaxInterrupts

\* Whatever failed, and wherever: between two steps every child holds the
\* accepted state, or its own rollback failed and it still owns a snapshot of
\* exactly that state (_rollback_step_transaction tries every child).
ChildrenStayTogether ==
    pc = "idle" => \A e \in Engines :
        IF engine[e].tx = "none" THEN engine[e].now = At(accepted)
        ELSE engine[e].now = Torn /\ engine[e].image = At(accepted)

\* A step is committed only when every child has advanced once from the
\* accepted state, fed once by each of its mappings, whatever attempts were
\* rejected or failed before (step, _restore_rejected_native_attempt).
FedOncePerStep ==
    pc = "commit" => \A e \in Engines :
        engine[e].now = [step |-> accepted + 1, fed |-> Inbound(e)]

\* Mappings form cycles: each one transfers the accepted state of its source,
\* never a state that another mapping of the step has written (step captures
\* every source before it applies).
SourcesAreAccepted ==
    pc \in {"apply", "advance"} => \A m \in Sessions :
        session[m].held = At(accepted)

=============================================================================
