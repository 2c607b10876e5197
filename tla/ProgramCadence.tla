---------------------------- MODULE ProgramCadence ----------------------------
(***************************************************************************)
(* The native clock of an installed Program: one facade step either holds  *)
(* (it only lengthens the stride window) or is due, and then executes the  *)
(* whole Program Substeps times over the window accumulated so far         *)
(* (program_runtime_state.hpp).  Inside an invocation a scheduled node is  *)
(* recomputed when due and otherwise served from the value cache           *)
(* (cache_manager.hpp, program_emit_schedule.py).  Window and cache are    *)
(* rolled back with a rejected or failed attempt and travel through a      *)
(* checkpoint (system_impl.hpp, _system_io.py, system_io.cpp).             *)
(*                                                                         *)
(* Times are integers: the grid of representable instants.  A substep      *)
(* endpoint that falls between two of them is rounded down to the grid;    *)
(* that a step cannot be represented at all is a choice (RefuseStep).      *)
(* A node value is the stamp of the invocation that computed it.           *)
(***************************************************************************)
EXTENDS Integers, Sequences, FiniteSets

CONSTANTS
    Stride,         \* facade steps in one window
    Substeps,       \* invocations of the Program in one due window
    Program,        \* the scheduled nodes, in the order the Program runs them
    Dts,            \* the step sizes a run may ask for
    Hosts,          \* where a restart may happen: "fresh" process, "live" runtime
    MaxSteps,       \* bound: accepted macro-steps
    MaxAttempts,    \* bound: attempts, accepted or not
    MaxFailures,    \* bound: attempts rejected, refused, or failed by a body
    MaxRestarts     \* bound: restarts

Nodes == DOMAIN Program

Policies == {"hold", "accumulate", "zero", "error"}

(* A node recomputes every `period` accepted steps, or (period 0) when a   *)
(* predicate of the Program holds.                                         *)
ASSUME CadenceAssumption ==
    /\ Stride \in Nat \ {0} /\ Substeps \in Nat \ {0}
    /\ Program \in Seq([period : Nat, off : Policies])
    /\ Dts \subseteq Nat \ {0}
    /\ Hosts \subseteq {"fresh", "live"}
    /\ {MaxSteps, MaxAttempts, MaxFailures, MaxRestarts} \subseteq Nat

VARIABLES
    clock,      \* accepted cursor [time, step]; during an invocation, the Program's
    window,     \* held window [dt, steps, start]
    slots,      \* the value cache, one slot per node
    field,      \* what the block state embodies: the history of this lineage
    phase,      \* "idle", "prepared", "program" or "stepped"
    prepared,   \* the prepared step [due, dt, start, end, steps]
    at,         \* position in the due window [substep, node]
    out,        \* what each node has supplied in this invocation
    image,      \* accepted snapshot of the open transaction
    saved,      \* the checkpoint, if one was written
    budget      \* bounds used up [attempts, failures, restarts]

accepted == <<clock, window, slots, field>>
vars == <<accepted, phase, prepared, at, out, image, saved, budget>>

NoValue == 0

EmptySlot == [valid |-> FALSE, value |-> NoValue, last |-> -1, acc |-> 0]
NoWindow == [dt |-> 0, steps |-> 0, start |-> 0]
NoStep == [due |-> FALSE, dt |-> 0, start |-> 0, end |-> 0, steps |-> 0]

(* `covered` is the time up to which the Program has advanced the blocks,  *)
(* `latest` the last value each node computed; `stale` are the nodes whose *)
(* slot a restart in a live runtime left over from the abandoned run.      *)
FreshField == [covered |-> 0, latest |-> [n \in Nodes |-> NoValue], stale |-> {}]

Nothing == [n \in Nodes |-> NoValue]

Init ==
    /\ clock = [time |-> 0, step |-> 0]
    /\ window = NoWindow
    /\ slots = [n \in Nodes |-> EmptySlot]
    /\ field = FreshField
    /\ phase = "idle"
    /\ prepared = NoStep
    /\ at = [substep |-> 0, node |-> 1]
    /\ out = Nothing
    /\ image = <<>>
    /\ saved = <<>>
    /\ budget = [attempts |-> 0, failures |-> 0, restarts |-> 0]

-----------------------------------------------------------------------------
(* The arithmetic of one step. *)

(* validate_cadence_window_image and ..._time_image. *)
ValidWindow(w, c) ==
    /\ w.steps \in 0 .. Stride - 1
    /\ w.steps = c.step % Stride
    /\ w.dt >= 0
    /\ (w.steps = 0) = (w.dt = 0)
    /\ (w.steps = 0) => w.start = 0
    /\ (w.steps # 0) => w.start < c.time

\* Mutant: a window always opens at the accepted time.
PreparedStepForgets(dt) ==
    [due |-> window.steps + 1 = Stride, dt |-> window.dt + dt, start |-> clock.time,
     end |-> clock.time + dt, steps |-> window.steps + 1]

(* prepare_cadence_step: a window opens at the accepted time, or goes on.  *)
PreparedStep(dt) ==
    [due   |-> window.steps + 1 = Stride,
     dt    |-> window.dt + dt,
     start |-> IF window.steps = 0 THEN clock.time ELSE window.start,
     end   |-> clock.time + dt,
     steps |-> window.steps + 1]

(* The lambda `endpoint` of prepare_cadence_substep: the last one is exact.*)
Endpoint(k) ==
    IF k = Substeps THEN prepared.end
    ELSE prepared.start + ((prepared.end - prepared.start) * k) \div Substeps

SubstepDt(k) == Endpoint(k + 1) - Endpoint(k)

(* validate_cadence_partition: no substep may collapse. *)
Partitions == \A k \in 0 .. Substeps - 1 : SubstepDt(k) > 0

(* What commit_cadence_step leaves of a step. *)
CommittedWindow(p) ==
    IF p.due THEN NoWindow
    ELSE [dt |-> p.dt, steps |-> p.steps, start |-> p.start]

(* dispatch_cadence_step, its tail: the window is committed once and the   *)
(* public cursor advances once, from where the attempt began.              *)
FinishStep(c) ==
    /\ window' = CommittedWindow(prepared)
    /\ clock' = [time |-> prepared.end, step |-> c.step + 1]
    /\ phase' = "stepped"

-----------------------------------------------------------------------------
(* One attempt. *)

(* _begin_step_transaction, then step(dt): snapshot and prepare. *)
BeginStep(dt) ==
    /\ phase = "idle"
    /\ clock.step < MaxSteps
    /\ budget.attempts < MaxAttempts
    /\ ValidWindow(window, clock)
    /\ image' = accepted
    /\ prepared' = PreparedStep(dt)
    /\ phase' = "prepared"
    /\ budget' = [budget EXCEPT !.attempts = @ + 1]
    /\ UNCHANGED <<accepted, at, out, saved>>

(* A held step executes no Program work. *)
HoldStep ==
    /\ phase = "prepared" /\ ~prepared.due
    /\ FinishStep(clock)
    /\ UNCHANGED <<slots, field, prepared, at, out, image, saved, budget>>

\* Mutant: the value cache is not part of the snapshot.
RestoreSnapshotKeepsCache ==
    /\ clock' = image[1]
    /\ window' = image[2]
    /\ slots' = slots
    /\ field' = image[4]
    /\ phase' = "idle"
    /\ prepared' = NoStep
    /\ at' = [substep |-> 0, node |-> 1]
    /\ out' = Nothing
    /\ image' = <<>>
    /\ UNCHANGED saved

(* AcceptedSnapshot::restore: every accepted store returns to the snapshot.*)
RestoreSnapshot ==
    /\ clock' = image[1]
    /\ window' = image[2]
    /\ slots' = image[3]
    /\ field' = image[4]
    /\ phase' = "idle"
    /\ prepared' = NoStep
    /\ at' = [substep |-> 0, node |-> 1]
    /\ out' = Nothing
    /\ image' = <<>>
    /\ UNCHANGED saved

(* The overflow_error refusals of prepare_cadence_step: in floating point, *)
(* any step may fail to advance the clock or the window, or may have no    *)
(* representable duration.                                                 *)
RefuseStep ==
    /\ phase = "prepared"
    /\ budget.failures < MaxFailures
    /\ RestoreSnapshot
    /\ budget' = [budget EXCEPT !.failures = @ + 1]

(* A substep that collapses is refused before any Program call. *)
RefuseWindow ==
    /\ phase = "prepared" /\ prepared.due /\ ~Partitions
    /\ RestoreSnapshot
    /\ UNCHANGED budget

(* The Program sees the start of its substep, and the macro-step at which  *)
(* the window opened.                                                      *)
ProgramClock(k) ==
    [time |-> Endpoint(k), step |-> image[1].step - (prepared.steps - 1)]

EnterWindow ==
    /\ phase = "prepared" /\ prepared.due /\ Partitions
    /\ clock' = ProgramClock(0)
    /\ phase' = "program"
    /\ UNCHANGED <<window, slots, field, prepared, at, out, image, saved, budget>>

Dt == SubstepDt(at.substep)
Stamp == budget.attempts * Substeps + at.substep

(* schedule_is_due for a period; a predicate may be either. *)
MayBeDue(n) == Program[n].period # 0 => clock.step % Program[n].period = 0
MayBeOff(n) == Program[n].period # 0 => clock.step % Program[n].period # 0

Caches(n) == Program[n].off \in {"hold", "accumulate"}
Accumulates(n) == Program[n].off = "accumulate"

(* CacheManager::effective_dt spends the accumulator, then store. *)
StoredSlot(n) == [valid |-> TRUE, value |-> Stamp, last |-> clock.step, acc |-> 0]

(* The due branch of _emit_schedule_wrap: before_due, the body, after_due. *)
(* The effective step is handed out and dropped; the body uses plain dt.   *)
ComputeNode(n) ==
    /\ phase = "program" /\ at.node = n
    /\ MayBeDue(n)
    /\ slots' = IF Caches(n) THEN [slots EXCEPT ![n] = StoredSlot(n)] ELSE slots
    /\ field' = [field EXCEPT !.latest[n] = Stamp, !.stale = @ \ {n}]
    /\ out' = [out EXCEPT ![n] = Stamp]
    /\ at' = [at EXCEPT !.node = n + 1]
    /\ UNCHANGED <<clock, window, phase, prepared, image, saved, budget>>

(* CacheManager::accumulate_dt *)
SkippedSlot(n) ==
    IF Accumulates(n) THEN [slots[n] EXCEPT !.acc = @ + Dt] ELSE slots[n]

(* The else branch: accumulate, then restore from a valid slot; or zero.   *)
SupplyNode(n) ==
    /\ phase = "program" /\ at.node = n
    /\ MayBeOff(n)
    /\ Program[n].off # "error"
    /\ Caches(n) => slots[n].valid
    /\ slots' = [slots EXCEPT ![n] = SkippedSlot(n)]
    /\ out' = [out EXCEPT ![n] = IF Caches(n) THEN slots[n].value ELSE NoValue]
    /\ at' = [at EXCEPT !.node = n + 1]
    /\ UNCHANGED <<clock, window, field, phase, prepared, image, saved, budget>>

(* restore_into of an absent slot, and scheduler_error, throw; the step    *)
(* transaction puts the snapshot back.                                     *)
OffNodeRaises(n) ==
    /\ phase = "program" /\ at.node = n
    /\ MayBeOff(n)
    /\ Program[n].off = "error" \/ (Caches(n) /\ ~slots[n].valid)
    /\ RestoreSnapshot
    /\ UNCHANGED budget

(* The numerical body of a due node throws. *)
BodyRaises(n) ==
    /\ phase = "program" /\ at.node = n
    /\ MayBeDue(n)
    /\ budget.failures < MaxFailures
    /\ RestoreSnapshot
    /\ budget' = [budget EXCEPT !.failures = @ + 1]

(* The invocation ends: the blocks hold the new state. *)
EndInvocation ==
    /\ phase = "program" /\ at.node = Len(Program) + 1
    /\ field' = [field EXCEPT !.covered = Endpoint(at.substep + 1)]
    /\ out' = Nothing
    /\ \/ /\ at.substep + 1 < Substeps
          /\ at' = [substep |-> at.substep + 1, node |-> 1]
          /\ clock' = ProgramClock(at.substep + 1)
          /\ UNCHANGED <<window, phase>>
       \/ /\ at.substep + 1 = Substeps
          /\ at' = [substep |-> 0, node |-> 1]
          /\ FinishStep(image[1])
    /\ UNCHANGED <<slots, prepared, image, saved, budget>>

(* _commit_ and _finalize_step_transaction. *)
AcceptStep ==
    /\ phase = "stepped"
    /\ phase' = "idle"
    /\ prepared' = NoStep
    /\ image' = <<>>
    /\ UNCHANGED <<accepted, at, out, saved, budget>>

(* _rollback_step_transaction. *)
RejectStep ==
    /\ phase = "stepped"
    /\ budget.failures < MaxFailures
    /\ RestoreSnapshot
    /\ budget' = [budget EXCEPT !.failures = @ + 1]

-----------------------------------------------------------------------------
(* Checkpoint and restart. *)

Valid(s) == {n \in Nodes : s[n].valid}

(* The refusals of the capture plan. *)
Capturable ==
    /\ Valid(slots) # {} => clock.step > 0
    /\ \A n \in Valid(slots) : slots[n].last \in 0 .. clock.step - 1

(* Only valid slots are written. *)
Checkpoint ==
    /\ phase = "idle" /\ saved = <<>>
    /\ ValidWindow(window, clock) /\ Capturable
    /\ saved' = <<[clock |-> clock, window |-> window, field |-> field,
                   cache |-> [n \in Valid(slots) |-> slots[n]]]>>
    /\ UNCHANGED <<accepted, phase, prepared, at, out, image, budget>>

\* Mutant: the accumulated step is not written back.
RestoredSlotsZeroed(cache, host) ==
    [n \in Nodes |->
        IF n \in DOMAIN cache THEN [cache[n] EXCEPT !.acc = 0]
        ELSE IF host = "fresh" THEN EmptySlot ELSE slots[n]]

(* restore_slot for every recorded node; the other slots are left as they  *)
(* are: empty in a fresh process, the abandoned ones in a live runtime.    *)
RestoredSlots(cache, host) ==
    [n \in Nodes |->
        IF n \in DOMAIN cache THEN cache[n]
        ELSE IF host = "fresh" THEN EmptySlot ELSE slots[n]]

(* Slots the checkpoint does not record that survive the restart.          *)
LeftOver(cache, host) == {n \in Nodes \ DOMAIN cache : RestoredSlots(cache, host)[n].valid}

(* _apply_checkpoint_restart: block state, staged window, set_clock that   *)
(* consumes it, cache.                                                     *)
Restart(host) ==
    /\ phase = "idle" /\ saved # <<>>
    /\ budget.restarts < MaxRestarts
    /\ ValidWindow(saved[1].window, saved[1].clock)
    /\ field' = [saved[1].field EXCEPT !.stale = @ \cup LeftOver(saved[1].cache, host)]
    /\ window' = saved[1].window
    /\ clock' = saved[1].clock
    /\ slots' = RestoredSlots(saved[1].cache, host)
    /\ budget' = [budget EXCEPT !.restarts = @ + 1]
    /\ UNCHANGED <<phase, prepared, at, out, image, saved>>

-----------------------------------------------------------------------------

Next ==
    \/ \E dt \in Dts : BeginStep(dt)
    \/ HoldStep
    \/ RefuseStep
    \/ RefuseWindow
    \/ EnterWindow
    \/ \E n \in Nodes : ComputeNode(n) \/ SupplyNode(n)
    \/ \E n \in Nodes : OffNodeRaises(n) \/ BodyRaises(n)
    \/ EndInvocation
    \/ AcceptStep
    \/ RejectStep
    \/ Checkpoint
    \/ \E host \in Hosts : Restart(host)

Spec == Init /\ [][Next]_vars

-----------------------------------------------------------------------------
(* Properties *)

Slot == [valid : BOOLEAN, value : Nat, last : Nat \cup {-1}, acc : Nat]
Field == [covered : Nat, latest : [Nodes -> Nat], stale : SUBSET Nodes]
Window == [dt : Nat, steps : 0 .. Stride - 1, start : Nat]
Clock == [time : Nat, step : Nat]

(* The stores of program_runtime_state.hpp keep their types, in the live   *)
(* state, in an open snapshot and in a checkpoint.                         *)
TypeOK ==
    /\ clock \in Clock /\ window \in Window
    /\ slots \in [Nodes -> Slot] /\ field \in Field
    /\ phase \in {"idle", "prepared", "program", "stepped"}
    /\ at \in [substep : 0 .. Substeps - 1, node : 1 .. Len(Program) + 1]
    /\ out \in [Nodes -> Nat]
    /\ prepared \in [due : BOOLEAN, dt : Nat, start : Nat, end : Nat, steps : 0 .. Stride]
    /\ (image = <<>>) = (phase = "idle")
    /\ image # <<>> =>
        image \in Clock \X Window \X [Nodes -> Slot] \X Field
    /\ saved # <<>> =>
        /\ saved[1].clock \in Clock /\ saved[1].window \in Window
        /\ saved[1].field \in Field
        /\ saved[1].cache \in [DOMAIN saved[1].cache -> Slot]
    /\ budget \in [attempts : 0 .. MaxAttempts, failures : 0 .. MaxFailures,
                   restarts : 0 .. MaxRestarts]

(* Over any mixture of step sizes, rejections, failures and restarts the   *)
(* Program advances the blocks over every instant once: an invocation      *)
(* begins where the last one ended, and between steps what is not covered  *)
(* yet is exactly the held window (dispatch_cadence_step).                 *)
ProgramCoversTime ==
    /\ phase = "program" => clock.time = field.covered
    /\ phase = "idle" =>
        /\ field.covered = IF window.steps = 0 THEN clock.time ELSE window.start
        /\ window.dt = clock.time - field.covered

(* A node read off its cadence supplies the last value it computed on this *)
(* lineage, never one of a rolled-back attempt; one of an abandoned run    *)
(* only after a restart in a live runtime that recorded nothing for the    *)
(* node, and only until the node is computed again                         *)
(* (CacheManager::restore_into, restore_slot).                             *)
HeldIsLatest ==
    \A n \in Nodes :
        Caches(n) /\ n < at.node /\ phase = "program" =>
            out[n] = field.latest[n] \/ n \in field.stale

(* As system.hpp has it: "a held scheduled node the checkpoint never       *)
(* recorded fails loud at restart".  It does not hold in a live runtime.   *)
UnrecordedFailsLoud ==
    \A n \in Nodes :
        Caches(n) /\ n < at.node /\ phase = "program" => n \notin field.stale

SameLineage(f, g) == f.covered = g.covered /\ f.latest = g.latest

(* A restart resumes the run: clock, window and every slot a later         *)
(* invocation can read are what they were when the checkpoint was written, *)
(* so the continuation has the choices of the uninterrupted run.  In a     *)
(* live runtime a slot the checkpoint does not record may be the abandoned *)
(* run's; every other one is empty (_apply_checkpoint_restart).            *)
ResumesTheRun ==
    saved # <<>> /\ phase = "idle" /\ clock = saved[1].clock
                 /\ SameLineage(field, saved[1].field) =>
        /\ window = saved[1].window
        /\ \A n \in Nodes : Caches(n) =>
            IF n \in DOMAIN saved[1].cache THEN slots[n] = saved[1].cache[n]
            ELSE slots[n] = EmptySlot \/ n \in field.stale

=============================================================================
