------------------------- MODULE ProgramCadenceProofs --------------------------
(***************************************************************************)
(* Proofs about ProgramCadence, for any stride, number of substeps,        *)
(* Program and set of step sizes.                                          *)
(***************************************************************************)
EXTENDS ProgramCadence, TLAPS

-----------------------------------------------------------------------------
(* The inductive invariant.                                                *)

\* What is not covered yet is exactly the held window.
Covers(c, w, f) ==
    /\ f.covered = IF w.steps = 0 THEN c.time ELSE w.start
    /\ w.dt = c.time - f.covered
    /\ w.steps <= c.step

\* The prepared step goes on from the snapshot.
StepInv ==
    /\ prepared.start = image[4].covered
    /\ prepared.dt = prepared.end - prepared.start
    /\ prepared.end > prepared.start
    /\ prepared.steps \in 1 .. image[1].step + 1
    /\ prepared.due <=> prepared.steps = Stride

TimeInv ==
    /\ phase \in {"idle", "stepped"} => Covers(clock, window, field)
    /\ phase # "idle" => Covers(image[1], image[2], image[4]) /\ StepInv
    /\ phase = "prepared" => accepted = image
    /\ phase = "program" =>
          /\ prepared.due /\ Partitions /\ clock.time = field.covered
          /\ field.covered = Endpoint(at.substep)
    /\ phase # "program" => at = [substep |-> 0, node |-> 1]
    /\ phase = "stepped" => clock.step = image[1].step + 1
    /\ saved # <<>> => Covers(saved[1].clock, saved[1].window, saved[1].field)

\* A slot holds the last value its node computed, or nothing at all, or is left over
\* from an abandoned run.
Current(slot, f, n) ==
    IF slot.valid THEN slot.value = f.latest[n] \/ n \in f.stale ELSE slot = EmptySlot

SlotInv ==
    /\ \A n \in Nodes : Caches(n) => Current(slots[n], field, n)
    /\ phase # "idle" =>
          \A n \in Nodes : Caches(n) => Current(image[3][n], image[4], n)
    /\ saved # <<>> =>
          \A n \in DOMAIN saved[1].cache :
             Caches(n) => Current(saved[1].cache[n], saved[1].field, n)

\* A run that has a checkpoint stands where it was written, or later.
AtCheckpoint(c, w, s, f) ==
    /\ c = saved[1].clock /\ w = saved[1].window /\ SameLineage(f, saved[1].field)
    /\ \A n \in Nodes : Caches(n) =>
          IF n \in DOMAIN saved[1].cache THEN s[n] = saved[1].cache[n]
          ELSE s[n] = EmptySlot \/ n \in f.stale

SinceCheckpoint(c, w, s, f) ==
    AtCheckpoint(c, w, s, f) \/ c.step > saved[1].clock.step

LineageInv ==
    saved # <<>> =>
        /\ phase = "idle" => SinceCheckpoint(clock, window, slots, field)
        /\ phase # "idle" => SinceCheckpoint(image[1], image[2], image[3], image[4])

IndInv == TypeOK /\ TimeInv

CacheInv == SlotInv /\ HeldIsLatest /\ LineageInv

-----------------------------------------------------------------------------
(* Constants and arithmetic.                                               *)

\* What the assumption on the constants says, in the form the proofs use.
LEMMA ConstantFacts ==
  /\ Stride \in Nat /\ Stride >= 1 /\ Substeps \in Nat /\ Substeps >= 1
  /\ Len(Program) \in Nat /\ Nodes = 1 .. Len(Program)
  /\ Dts \subseteq Nat \ {0}
  /\ MaxAttempts \in Nat /\ MaxFailures \in Nat /\ MaxRestarts \in Nat
BY CadenceAssumption DEF Nodes

\* Integer division stays in the naturals.
LEMMA Division ==
  ASSUME NEW a \in Nat, NEW n \in Nat, n >= 1
  PROVE  a \div n \in Nat /\ 0 \div n = 0
OBVIOUS

Prepared == [due : BOOLEAN, dt : Nat, start : Nat, end : Nat, steps : 0 .. Stride]
Budget == [attempts : 0 .. MaxAttempts, failures : 0 .. MaxFailures,
           restarts : 0 .. MaxRestarts]
Stores == Clock \X Window \X [Nodes -> Slot] \X Field

\* The endpoints of the substeps run from the start of the window to its end.
LEMMA EndpointFacts ==
  ASSUME prepared \in Prepared, prepared.end > prepared.start
  PROVE  /\ Endpoint(0) = prepared.start
         /\ Endpoint(Substeps) = prepared.end
         /\ \A k \in 0 .. Substeps : Endpoint(k) \in Nat
<1>1. prepared.start \in Nat /\ prepared.end \in Nat
  BY DEF Prepared
<1>2. /\ prepared.end - prepared.start \in Nat
      /\ (prepared.end - prepared.start) * 0 = 0
  BY <1>1
<1>3. Endpoint(0) = prepared.start
  BY <1>1, <1>2, ConstantFacts, Division DEF Endpoint
<1>4. ASSUME NEW k \in 0 .. Substeps PROVE Endpoint(k) \in Nat
  <2>1. (prepared.end - prepared.start) * k \in Nat
    BY <1>2, ConstantFacts
  <2>2. ((prepared.end - prepared.start) * k) \div Substeps \in Nat
    BY <2>1, ConstantFacts, Division
  <2> QED
    BY <1>1, <2>2 DEF Endpoint
<1> QED
  BY <1>3, <1>4 DEF Endpoint

\* A snapshot of the accepted stores and its parts.
LEMMA ImageFacts ==
  ASSUME TypeOK, phase # "idle"
  PROVE  /\ image[1] \in Clock /\ image[2] \in Window
         /\ image[3] \in [Nodes -> Slot] /\ image[4] \in Field
BY DEF TypeOK

\* The accepted stores make a snapshot, and a snapshot is never empty.
LEMMA StoresFacts ==
  ASSUME NEW c \in Clock, NEW w \in Window, NEW s \in [Nodes -> Slot], NEW f \in Field
  PROVE  /\ <<c, w, s, f>> \in Stores
         /\ <<c, w, s, f>> # <<>>
BY DEF Stores

\* The stamp of an invocation is a natural number.
LEMMA StampFacts ==
  ASSUME TypeOK
  PROVE  Stamp \in Nat
<1>1. budget.attempts \in Nat /\ at.substep \in Nat
  BY ConstantFacts DEF TypeOK
<1>2. budget.attempts * Substeps \in Nat
  BY <1>1, ConstantFacts
<1> QED
  BY <1>1, <1>2 DEF Stamp

\* A bound that is not used up yet can be used once more.
LEMMA BudgetFacts ==
  ASSUME NEW b \in Budget
  PROVE  /\ b.attempts < MaxAttempts => [b EXCEPT !.attempts = @ + 1] \in Budget
         /\ b.failures < MaxFailures => [b EXCEPT !.failures = @ + 1] \in Budget
         /\ b.restarts < MaxRestarts => [b EXCEPT !.restarts = @ + 1] \in Budget
<1>1. ASSUME NEW k \in Nat, NEW m \in Nat, k < m PROVE k + 1 \in 0 .. m
  BY <1>1
<1>2. /\ b.attempts \in Nat /\ b.failures \in Nat /\ b.restarts \in Nat
      /\ MaxAttempts \in Nat /\ MaxFailures \in Nat /\ MaxRestarts \in Nat
  BY ConstantFacts DEF Budget
<1>3. /\ b.attempts < MaxAttempts => b.attempts + 1 \in 0 .. MaxAttempts
      /\ b.failures < MaxFailures => b.failures + 1 \in 0 .. MaxFailures
      /\ b.restarts < MaxRestarts => b.restarts + 1 \in 0 .. MaxRestarts
  BY <1>1, <1>2
<1> QED
  BY <1>3, Zenon DEF Budget

-----------------------------------------------------------------------------
(* Types and time, one lemma per action.                                   *)

\* A snapshot put back is the accepted state the attempt began with.
LEMMA RestoreStep ==
  ASSUME IndInv, phase # "idle", RestoreSnapshot,
         budget' \in Budget
  PROVE  IndInv'
<1> USE DEF IndInv
<1>1. /\ clock' = image[1] /\ window' = image[2] /\ slots' = image[3]
      /\ field' = image[4] /\ phase' = "idle" /\ prepared' = NoStep
      /\ at' = [substep |-> 0, node |-> 1] /\ out' = Nothing
      /\ image' = <<>> /\ saved' = saved
  BY DEF RestoreSnapshot
<1>2. prepared' \in Prepared /\ out' \in [Nodes -> Nat]
  BY <1>1, ConstantFacts DEF NoStep, Prepared, Nothing, NoValue
<1>3. at' \in [substep : 0 .. Substeps - 1, node : 1 .. Len(Program) + 1]
  BY <1>1, ConstantFacts
<1>4. TypeOK'
  BY <1>1, <1>2, <1>3, ImageFacts DEF TypeOK, Prepared, Budget
<1>5. TimeInv'
  BY <1>1 DEF TimeInv, Covers
<1> QED
  BY <1>4, <1>5

\* _begin_step_transaction: the prepared step goes on where the window stands.
LEMMA BeginStepKeeps ==
  ASSUME IndInv, NEW dt \in Dts, BeginStep(dt)
  PROVE  IndInv'
<1> USE DEF IndInv
<1>1. /\ phase = "idle" /\ image' = accepted /\ prepared' = PreparedStep(dt)
      /\ phase' = "prepared" /\ budget' = [budget EXCEPT !.attempts = @ + 1]
      /\ budget.attempts < MaxAttempts
      /\ clock' = clock /\ window' = window /\ slots' = slots /\ field' = field
      /\ at' = at /\ out' = out /\ saved' = saved
  BY DEF BeginStep, accepted
<1>2. dt \in Nat /\ dt > 0
  BY ConstantFacts
<1>3. /\ clock \in Clock /\ window \in Window /\ slots \in [Nodes -> Slot]
      /\ field \in Field /\ Covers(clock, window, field)
  BY <1>1 DEF TypeOK, TimeInv
<1>4. image' = <<clock, window, slots, field>> /\ image' \in Stores /\ image' # <<>>
  BY <1>1, <1>3, StoresFacts DEF accepted
<1>5. /\ image'[1] = clock /\ image'[2] = window /\ image'[4] = field
  BY <1>4
<1>6. /\ prepared'.due = (window.steps + 1 = Stride)
      /\ prepared'.dt = window.dt + dt
      /\ prepared'.start = IF window.steps = 0 THEN clock.time ELSE window.start
      /\ prepared'.end = clock.time + dt
      /\ prepared'.steps = window.steps + 1
      /\ prepared' \in Prepared
  BY <1>1, <1>2, <1>3, ConstantFacts DEF PreparedStep, Prepared, Clock, Window
<1>7. StepInv'
  <2>1. /\ clock.time \in Nat /\ clock.step \in Nat /\ window.dt \in Nat
        /\ window.steps \in 0 .. Stride - 1 /\ window.start \in Nat
        /\ field.covered \in Nat
    BY <1>3 DEF Clock, Window, Field
  <2>2. /\ field.covered = IF window.steps = 0 THEN clock.time ELSE window.start
        /\ window.dt = clock.time - field.covered /\ window.steps <= clock.step
    BY <1>3 DEF Covers
  <2>3. prepared'.start = image'[4].covered /\ prepared'.start = field.covered
    BY <1>5, <1>6, <2>2
  <2>4. prepared'.end > prepared'.start /\ prepared'.dt = prepared'.end - prepared'.start
    BY <1>2, <1>6, <2>1, <2>2, <2>3
  <2>5. prepared'.steps \in 1 .. image'[1].step + 1
    BY <1>5, <1>6, <2>1, <2>2
  <2>6. prepared'.due <=> prepared'.steps = Stride
    BY <1>6
  <2> QED
    BY <2>3, <2>4, <2>5, <2>6 DEF StepInv
<1>8. budget' \in Budget
  BY <1>1, BudgetFacts DEF TypeOK, Budget
<1>9. TypeOK'
  BY <1>1, <1>3, <1>4, <1>6, <1>8 DEF TypeOK, Prepared, Stores, Budget
<1>10. Covers(image'[1], image'[2], image'[4])
  BY <1>3, <1>5 DEF Covers
<1>11. TimeInv'
  BY <1>1, <1>4, <1>7, <1>10 DEF TimeInv, accepted, Covers
<1> QED
  BY <1>9, <1>11

\* The window a step leaves behind fits the window store.
LEMMA CommittedFacts ==
  ASSUME prepared \in Prepared, StepInv
  PROVE  CommittedWindow(prepared) \in Window
<1>1. NoWindow \in Window
  BY ConstantFacts DEF NoWindow, Window
<1>2. ASSUME ~prepared.due
      PROVE  [dt |-> prepared.dt, steps |-> prepared.steps,
              start |-> prepared.start] \in Window
  <2>1. /\ prepared.dt \in Nat /\ prepared.start \in Nat
        /\ prepared.steps \in 0 .. Stride /\ prepared.steps # Stride
    BY <1>2 DEF Prepared, StepInv
  <2>2. prepared.steps \in 0 .. Stride - 1
    BY <2>1, ConstantFacts
  <2> QED
    BY <2>1, <2>2 DEF Window
<1> QED
  BY <1>1, <1>2 DEF CommittedWindow

\* A held step: the window grows by exactly the step that was taken.
LEMMA HoldStepKeeps ==
  ASSUME IndInv, HoldStep
  PROVE  IndInv'
<1> USE DEF IndInv
<1>1. /\ phase = "prepared" /\ ~prepared.due
      /\ window' = CommittedWindow(prepared)
      /\ clock' = [time |-> prepared.end, step |-> clock.step + 1]
      /\ phase' = "stepped"
      /\ slots' = slots /\ field' = field /\ prepared' = prepared /\ at' = at
      /\ out' = out /\ image' = image /\ saved' = saved /\ budget' = budget
  BY DEF HoldStep, FinishStep
<1>2. /\ prepared \in Prepared /\ StepInv /\ Covers(image[1], image[2], image[4])
      /\ image = <<clock, window, slots, field>>
      /\ clock \in Clock /\ field \in Field
  BY <1>1 DEF TypeOK, TimeInv, Prepared, accepted
<1>3. image[1] = clock /\ image[4] = field
  BY <1>2
<1>4. clock' \in Clock /\ window' \in Window
  BY <1>1, <1>2, CommittedFacts DEF Clock, Prepared
<1>5. TypeOK'
  BY <1>1, <1>4 DEF TypeOK
<1>6. window' = [dt |-> prepared.dt, steps |-> prepared.steps, start |-> prepared.start]
  BY <1>1 DEF CommittedWindow
<1>7. Covers(clock', window', field')
  BY <1>1, <1>2, <1>3, <1>6 DEF Covers, StepInv, Clock, Prepared, Field
<1>8. clock'.step = image'[1].step + 1
  BY <1>1, <1>3
<1>9. StepInv' /\ Covers(image'[1], image'[2], image'[4])
  BY <1>1, <1>2 DEF StepInv, Covers
<1>10. TimeInv'
  BY <1>1, <1>7, <1>8, <1>9 DEF TimeInv, Covers
<1> QED
  BY <1>5, <1>10

\* The step the Program sees is the one at which the window opened.
LEMMA ProgramClockFacts ==
  ASSUME IndInv, phase # "idle", NEW k \in 0 .. Substeps
  PROVE  ProgramClock(k) \in Clock /\ ProgramClock(k).time = Endpoint(k)
<1>1. image[1] \in Clock /\ prepared \in Prepared /\ StepInv
  BY ImageFacts DEF IndInv, TypeOK, TimeInv, Prepared
<1>2. Endpoint(k) \in Nat
  BY <1>1, EndpointFacts DEF StepInv
<1>3. image[1].step - (prepared.steps - 1) \in Nat
  BY <1>1 DEF StepInv, Clock, Prepared
<1> QED
  BY <1>2, <1>3 DEF ProgramClock, Clock

\* A due window is entered where the blocks stand.
LEMMA EnterWindowKeeps ==
  ASSUME IndInv, EnterWindow
  PROVE  IndInv'
<1> USE DEF IndInv
<1>1. /\ phase = "prepared" /\ prepared.due /\ Partitions
      /\ clock' = ProgramClock(0) /\ phase' = "program"
      /\ window' = window /\ slots' = slots /\ field' = field
      /\ prepared' = prepared /\ at' = at /\ out' = out
      /\ image' = image /\ saved' = saved /\ budget' = budget
  BY DEF EnterWindow
<1>2. /\ prepared \in Prepared /\ StepInv /\ Covers(image[1], image[2], image[4])
      /\ image = <<clock, window, slots, field>>
      /\ at = [substep |-> 0, node |-> 1]
  BY <1>1 DEF TypeOK, TimeInv, Prepared, accepted
<1>3. image[4] = field
  BY <1>2
<1>4. clock' \in Clock /\ clock'.time = Endpoint(0)
  BY <1>1, ProgramClockFacts, ConstantFacts
<1>5. Endpoint(0) = field.covered
  BY <1>2, <1>3, EndpointFacts DEF StepInv
<1>6. TypeOK'
  BY <1>1, <1>4 DEF TypeOK
<1>7. Partitions' /\ Endpoint(0)' = Endpoint(0)
  BY <1>1 DEF Partitions, SubstepDt, Endpoint
<1>8. field'.covered = Endpoint(at.substep)' /\ clock'.time = field'.covered
  BY <1>1, <1>2, <1>4, <1>5 DEF Endpoint
<1>9. StepInv' /\ Covers(image'[1], image'[2], image'[4])
  BY <1>1, <1>2 DEF StepInv, Covers
<1>10. TimeInv'
  BY <1>1, <1>7, <1>8, <1>9 DEF TimeInv, Covers
<1> QED
  BY <1>6, <1>10

\* Facts of a state inside an invocation that its node steps leave alone.
LEMMA NodeStepKeeps ==
  ASSUME IndInv, phase = "program",
         slots' \in [Nodes -> Slot], out' \in [Nodes -> Nat],
         field' \in Field, field'.covered = field.covered,
         at'.substep = at.substep,
         at' \in [substep : 0 .. Substeps - 1, node : 1 .. Len(Program) + 1],
         UNCHANGED <<clock, window, phase, prepared, image, saved, budget>>
  PROVE  IndInv'
<1> USE DEF IndInv
<1>1. TypeOK'
  BY DEF TypeOK
<1>2. Partitions' /\ Endpoint(at.substep)' = Endpoint(at.substep)
  BY DEF TimeInv, Partitions, SubstepDt, Endpoint
<1>3. StepInv' /\ Covers(image[1], image[2], image[4])'
  BY DEF TimeInv, StepInv, Covers
<1>4. TimeInv'
  BY <1>2, <1>3 DEF TimeInv, Covers
<1> QED
  BY <1>1, <1>4

\* The position after node n.
LEMMA NextNode ==
  ASSUME TypeOK, NEW n \in Nodes
  PROVE  /\ [at EXCEPT !.node = n + 1]
              \in [substep : 0 .. Substeps - 1, node : 1 .. Len(Program) + 1]
         /\ [at EXCEPT !.node = n + 1].substep = at.substep
         /\ [at EXCEPT !.node = n + 1].node = n + 1
<1>1. n + 1 \in 1 .. Len(Program) + 1
  BY ConstantFacts
<1> QED
  BY <1>1 DEF TypeOK

\* The due branch of _emit_schedule_wrap.
LEMMA ComputeNodeKeeps ==
  ASSUME IndInv, NEW n \in Nodes, ComputeNode(n)
  PROVE  IndInv'
<1> USE DEF IndInv
<1>1. /\ phase = "program"
      /\ slots' = IF Caches(n) THEN [slots EXCEPT ![n] = StoredSlot(n)] ELSE slots
      /\ field' = [field EXCEPT !.latest[n] = Stamp, !.stale = @ \ {n}]
      /\ out' = [out EXCEPT ![n] = Stamp]
      /\ at' = [at EXCEPT !.node = n + 1]
      /\ UNCHANGED <<clock, window, phase, prepared, image, saved, budget>>
  BY DEF ComputeNode
<1>2. /\ clock \in Clock /\ slots \in [Nodes -> Slot] /\ field \in Field
      /\ out \in [Nodes -> Nat]
  BY DEF TypeOK
<1>3. Stamp \in Nat
  BY StampFacts
<1>4. StoredSlot(n) \in Slot
  BY <1>2, <1>3 DEF StoredSlot, Slot, Clock
<1>5. slots' \in [Nodes -> Slot]
  BY <1>1, <1>2, <1>4
<1>6. out' \in [Nodes -> Nat]
  BY <1>1, <1>2, <1>3
<1>7. field' \in Field /\ field'.covered = field.covered
  BY <1>1, <1>2, <1>3 DEF Field
<1> QED
  BY <1>1, <1>5, <1>6, <1>7, NextNode, NodeStepKeeps

\* The off-cadence branch: what a node accumulates is a natural number.
LEMMA SupplyNodeKeeps ==
  ASSUME IndInv, NEW n \in Nodes, SupplyNode(n)
  PROVE  IndInv'
<1> USE DEF IndInv
<1>1. /\ phase = "program"
      /\ slots' = [slots EXCEPT ![n] = SkippedSlot(n)]
      /\ out' = [out EXCEPT ![n] = IF Caches(n) THEN slots[n].value ELSE NoValue]
      /\ at' = [at EXCEPT !.node = n + 1]
      /\ UNCHANGED <<clock, window, field, phase, prepared, image, saved, budget>>
  BY DEF SupplyNode
<1>2. /\ slots \in [Nodes -> Slot] /\ field \in Field /\ out \in [Nodes -> Nat]
      /\ at.substep \in 0 .. Substeps - 1 /\ prepared \in Prepared
  BY DEF TypeOK, Prepared
<1>3. StepInv /\ Partitions
  BY <1>1 DEF TimeInv
<1>4. Dt \in Nat
  <2>1. Dt > 0
    BY <1>2, <1>3 DEF Partitions, Dt
  <2>2. at.substep \in 0 .. Substeps /\ at.substep + 1 \in 0 .. Substeps
    BY <1>2, ConstantFacts
  <2>3. Endpoint(at.substep) \in Nat /\ Endpoint(at.substep + 1) \in Nat
    BY <1>2, <1>3, <2>2, EndpointFacts DEF StepInv
  <2> QED
    BY <2>1, <2>3 DEF Dt, SubstepDt
<1>5. slots[n] \in Slot
  BY <1>2
<1>6. SkippedSlot(n) \in Slot
  BY <1>4, <1>5 DEF SkippedSlot, Slot
<1>7. slots' \in [Nodes -> Slot]
  BY <1>1, <1>2, <1>6
<1>8. slots[n].value \in Nat /\ NoValue \in Nat
  BY <1>5 DEF Slot, NoValue
<1>9. out' \in [Nodes -> Nat]
  BY <1>1, <1>2, <1>8
<1> QED
  BY <1>1, <1>2, <1>7, <1>9, NextNode, NodeStepKeeps

\* The five ways an attempt is undone.
Undone ==
    \/ RefuseStep
    \/ RefuseWindow
    \/ \E n \in Nodes : OffNodeRaises(n) \/ BodyRaises(n)
    \/ RejectStep

\* Each of them puts the snapshot back.
LEMMA UndoneRestores ==
  ASSUME TypeOK, Undone
  PROVE  phase # "idle" /\ RestoreSnapshot /\ budget' \in Budget
<1>1. budget \in Budget
  BY DEF TypeOK, Budget
<1>2. CASE RefuseWindow
  BY <1>1, <1>2 DEF RefuseWindow
<1>3. CASE \E n \in Nodes : OffNodeRaises(n) \/ BodyRaises(n)
  BY <1>1, <1>3, BudgetFacts DEF OffNodeRaises, BodyRaises
<1>4. CASE RefuseStep \/ RejectStep
  BY <1>1, <1>4, BudgetFacts DEF RefuseStep, RejectStep
<1> QED
  BY <1>2, <1>3, <1>4 DEF Undone

\* An invocation ends at the start of the next one, or at the end of the window.
LEMMA EndInvocationKeeps ==
  ASSUME IndInv, EndInvocation
  PROVE  IndInv'
<1> USE DEF IndInv
<1>1. /\ phase = "program"
      /\ field' = [field EXCEPT !.covered = Endpoint(at.substep + 1)]
      /\ out' = Nothing
      /\ slots' = slots /\ prepared' = prepared /\ image' = image
      /\ saved' = saved /\ budget' = budget
  BY DEF EndInvocation
<1>2. /\ prepared \in Prepared /\ StepInv /\ Covers(image[1], image[2], image[4])
      /\ prepared.due /\ Partitions /\ field \in Field
      /\ at.substep \in 0 .. Substeps - 1
      /\ image[1] \in Clock
  BY <1>1, ImageFacts DEF TypeOK, TimeInv, Prepared
<1>3. at.substep + 1 \in 0 .. Substeps
  BY <1>2, ConstantFacts
<1>4. Endpoint(at.substep + 1) \in Nat
  BY <1>2, <1>3, EndpointFacts DEF StepInv
<1>5. field' \in Field /\ field'.covered = Endpoint(at.substep + 1)
  BY <1>1, <1>2, <1>4 DEF Field
<1>6. out' \in [Nodes -> Nat]
  BY <1>1 DEF Nothing, NoValue
<1>7. StepInv' /\ Covers(image'[1], image'[2], image'[4])
  BY <1>1, <1>2 DEF StepInv, Covers
<1>8. Partitions'
  BY <1>1, <1>2 DEF Partitions, SubstepDt, Endpoint
<1>9. CASE /\ at.substep + 1 < Substeps
           /\ at' = [substep |-> at.substep + 1, node |-> 1]
           /\ clock' = ProgramClock(at.substep + 1)
           /\ UNCHANGED <<window, phase>>
  <2>1. clock' \in Clock /\ clock'.time = Endpoint(at.substep + 1)
    BY <1>1, <1>3, <1>9, ProgramClockFacts
  <2>2. at' \in [substep : 0 .. Substeps - 1, node : 1 .. Len(Program) + 1]
    BY <1>2, <1>9, ConstantFacts
  <2>3. TypeOK'
    BY <1>1, <1>5, <1>6, <1>9, <2>1, <2>2 DEF TypeOK
  <2>4. Endpoint(at.substep)' = Endpoint(at.substep + 1)
    BY <1>1, <1>9 DEF Endpoint
  <2>5. TimeInv'
    BY <1>1, <1>2, <1>5, <1>7, <1>8, <1>9, <2>1, <2>4 DEF TimeInv, Covers
  <2> QED
    BY <2>3, <2>5
<1>10. CASE /\ at.substep + 1 = Substeps
            /\ at' = [substep |-> 0, node |-> 1]
            /\ FinishStep(image[1])
  <2>1. /\ window' = NoWindow /\ phase' = "stepped"
        /\ clock' = [time |-> prepared.end, step |-> image[1].step + 1]
    BY <1>2, <1>10 DEF FinishStep, CommittedWindow
  <2>2. clock' \in Clock /\ window' \in Window
    BY <1>2, <2>1, ConstantFacts DEF Clock, Prepared, Window, NoWindow
  <2>3. at' \in [substep : 0 .. Substeps - 1, node : 1 .. Len(Program) + 1]
    BY <1>10, ConstantFacts
  <2>4. TypeOK'
    BY <1>1, <1>5, <1>6, <2>1, <2>2, <2>3 DEF TypeOK
  <2>5. field'.covered = prepared.end
    BY <1>2, <1>5, <1>10, EndpointFacts DEF StepInv
  <2>6. Covers(clock', window', field')
    BY <1>2, <2>1, <2>5 DEF Covers, NoWindow, Prepared, Clock
  <2>7. clock'.step = image'[1].step + 1
    BY <1>1, <2>1
  <2>8. TimeInv'
    BY <1>1, <1>7, <1>10, <2>1, <2>6, <2>7 DEF TimeInv, Covers
  <2> QED
    BY <2>4, <2>8
<1> QED
  BY <1>9, <1>10 DEF EndInvocation

\* _commit_ and _finalize_step_transaction.
LEMMA AcceptStepKeeps ==
  ASSUME IndInv, AcceptStep
  PROVE  IndInv'
<1> USE DEF IndInv
<1>1. /\ phase = "stepped" /\ phase' = "idle" /\ prepared' = NoStep /\ image' = <<>>
      /\ clock' = clock /\ window' = window /\ slots' = slots /\ field' = field
      /\ at' = at /\ out' = out /\ saved' = saved /\ budget' = budget
  BY DEF AcceptStep, accepted
<1>2. prepared' \in Prepared
  BY <1>1, ConstantFacts DEF NoStep, Prepared
<1>3. TypeOK'
  BY <1>1, <1>2 DEF TypeOK, Prepared
<1>4. TimeInv'
  BY <1>1 DEF TimeInv, Covers
<1> QED
  BY <1>3, <1>4

\* A checkpoint copies the accepted stores and the valid slots.
LEMMA CheckpointKeeps ==
  ASSUME IndInv, Checkpoint
  PROVE  IndInv'
<1> USE DEF IndInv
<1> DEFINE copy == [clock |-> clock, window |-> window, field |-> field,
                    cache |-> [n \in Valid(slots) |-> slots[n]]]
<1>1. /\ phase = "idle" /\ phase' = phase /\ saved' = <<copy>>
      /\ clock' = clock /\ window' = window /\ slots' = slots /\ field' = field
      /\ prepared' = prepared /\ image' = image
      /\ at' = at /\ out' = out /\ budget' = budget
  BY DEF Checkpoint, accepted
<1>2. /\ copy.clock = clock /\ copy.window = window /\ copy.field = field
      /\ copy.cache = [n \in Valid(slots) |-> slots[n]]
  OBVIOUS
<1>3. copy.cache \in [DOMAIN copy.cache -> Slot]
  BY <1>2 DEF TypeOK, Valid
<1> HIDE DEF copy
<1>4. saved'[1] = copy
  BY <1>1
<1>5. TypeOK'
  BY <1>1, <1>2, <1>3, <1>4 DEF TypeOK
<1>6. Covers(clock, window, field)
  BY <1>1 DEF TimeInv
<1>7. Covers(saved'[1].clock, saved'[1].window, saved'[1].field)
  BY <1>2, <1>4, <1>6
<1>8. TimeInv'
  BY <1>1, <1>7 DEF TimeInv, Covers
<1> QED
  BY <1>5, <1>8

\* _apply_checkpoint_restart, in a fresh or a live host.
LEMMA RestartKeeps ==
  ASSUME IndInv, NEW host \in Hosts, Restart(host)
  PROVE  IndInv'
<1> USE DEF IndInv
<1>1. /\ phase = "idle" /\ saved # <<>> /\ budget.restarts < MaxRestarts
      /\ field' = [saved[1].field EXCEPT !.stale = @ \cup LeftOver(saved[1].cache, host)]
      /\ window' = saved[1].window
      /\ clock' = saved[1].clock /\ slots' = RestoredSlots(saved[1].cache, host)
      /\ budget' = [budget EXCEPT !.restarts = @ + 1]
      /\ phase' = phase /\ prepared' = prepared /\ image' = image
      /\ at' = at /\ out' = out /\ saved' = saved
  BY DEF Restart
<1>2. budget' \in Budget
  BY <1>1, BudgetFacts DEF TypeOK, Budget
<1>3. EmptySlot \in Slot
  BY DEF EmptySlot, Slot, NoValue
<1>4. slots' \in [Nodes -> Slot]
  BY <1>1, <1>3 DEF TypeOK, RestoredSlots
<1>5. field' \in Field /\ field'.covered = saved[1].field.covered
  <2>1. saved[1].field \in Field
    BY <1>1 DEF TypeOK
  <2>2. LeftOver(saved[1].cache, host) \subseteq Nodes
    BY DEF LeftOver
  <2> QED
    BY <1>1, <2>1, <2>2 DEF Field
<1>6. TypeOK'
  BY <1>1, <1>2, <1>4, <1>5 DEF TypeOK, Budget
<1>7. TimeInv'
  BY <1>1, <1>5 DEF TimeInv, Covers
<1> QED
  BY <1>6, <1>7

-----------------------------------------------------------------------------

\* Every step keeps the types and the account of time.
LEMMA IndStep ==
  ASSUME IndInv, [Next]_vars
  PROVE  IndInv'
<1>1. ASSUME NEW dt \in Dts, BeginStep(dt) PROVE IndInv'
  BY <1>1, BeginStepKeeps
<1>2. ASSUME Undone PROVE IndInv'
  BY <1>2, UndoneRestores, RestoreStep DEF IndInv
<1>3. ASSUME NEW n \in Nodes, ComputeNode(n) \/ SupplyNode(n) PROVE IndInv'
  BY <1>3, ComputeNodeKeeps, SupplyNodeKeeps
<1>4. ASSUME NEW host \in Hosts, Restart(host) PROVE IndInv'
  BY <1>4, RestartKeeps
<1>5. CASE UNCHANGED vars
  <2>1. /\ clock' = clock /\ window' = window /\ slots' = slots /\ field' = field
        /\ phase' = phase /\ prepared' = prepared /\ at' = at /\ out' = out
        /\ image' = image /\ saved' = saved /\ budget' = budget
    BY <1>5 DEF vars, accepted
  <2>2. TypeOK'
    BY <2>1 DEF IndInv, TypeOK
  <2>3. Partitions' = Partitions /\ Endpoint(at.substep)' = Endpoint(at.substep)
    BY <2>1 DEF Partitions, SubstepDt, Endpoint
  <2>4. TimeInv'
    BY <2>1, <2>3 DEF IndInv, TimeInv, Covers, StepInv, accepted
  <2> QED
    BY <2>2, <2>4 DEF IndInv
<1> QED
  BY <1>1, <1>2, <1>3, <1>4, <1>5, HoldStepKeeps, EnterWindowKeeps,
     EndInvocationKeeps, AcceptStepKeeps, CheckpointKeeps DEF Next, Undone

\* The initial state.
LEMMA IndInit ==
  ASSUME Init
  PROVE  IndInv
<1>1. /\ NoStep \in Prepared /\ NoWindow \in Window /\ EmptySlot \in Slot
      /\ Nothing \in [Nodes -> Nat] /\ FreshField \in Field
  BY ConstantFacts
     DEF NoStep, Prepared, NoWindow, Window, EmptySlot, Slot, Nothing, NoValue,
         FreshField, Field
<1>2. /\ clock \in Clock /\ slots \in [Nodes -> Slot]
      /\ at \in [substep : 0 .. Substeps - 1, node : 1 .. Len(Program) + 1]
      /\ budget \in Budget
  BY <1>1, ConstantFacts DEF Init, Clock, Budget
<1>3. TypeOK
  BY <1>1, <1>2 DEF Init, TypeOK, Prepared, Budget
<1>4. TimeInv
  BY DEF Init, TimeInv, Covers, NoWindow, FreshField
<1> QED
  BY <1>3, <1>4 DEF IndInv

\* IndInv holds in every state the native clock reaches, whatever the host of
\* a restart, the stride, the substeps and the step sizes.
THEOREM Invariance == Spec => []IndInv
<1>1. Init => IndInv
  BY IndInit
<1>2. IndInv /\ [Next]_vars => IndInv'
  BY IndStep
<1> QED
  BY <1>1, <1>2, PTL DEF Spec

\* The stores of program_runtime_state.hpp, the snapshot and the checkpoint keep
\* their types; so ProgramClock never shows a Program a negative macro-step and
\* a skipped node never accumulates a negative step.
THEOREM TypeCorrect == Spec => []TypeOK
<1>1. IndInv => TypeOK
  BY DEF IndInv
<1> QED
  BY <1>1, Invariance, PTL

\* The Program advances the blocks over every instant once: dispatch_cadence_step
\* starts an invocation where the last one ended, and between steps exactly the
\* held window is left, over any mixture of step sizes, strides, substeps,
\* refusals, failures, rejections and restarts.
THEOREM CoversTime == Spec => []ProgramCoversTime
<1>1. IndInv => ProgramCoversTime
  BY DEF IndInv, TimeInv, Covers, ProgramCoversTime
<1> QED
  BY <1>1, Invariance, PTL

-----------------------------------------------------------------------------
(* The value cache, with restarts in a fresh process and in a live runtime.*)

\* The cache properties of a snapshot put back.
LEMMA RestoreCache ==
  ASSUME IndInv, CacheInv, phase # "idle", RestoreSnapshot
  PROVE  CacheInv'
<1>1. /\ clock' = image[1] /\ window' = image[2] /\ slots' = image[3]
      /\ field' = image[4] /\ phase' = "idle" /\ saved' = saved
  BY DEF RestoreSnapshot
<1>2. SlotInv' /\ HeldIsLatest'
  BY <1>1 DEF CacheInv, SlotInv, HeldIsLatest, Caches
<1>3. LineageInv'
  BY <1>1 DEF CacheInv, LineageInv, SinceCheckpoint, AtCheckpoint, Caches
<1> QED
  BY <1>2, <1>3 DEF CacheInv

\* The snapshot a step begins with has the cache of the accepted state.
LEMMA BeginStepCache ==
  ASSUME IndInv, CacheInv, NEW dt \in Dts, BeginStep(dt)
  PROVE  CacheInv'
<1>1. /\ phase = "idle" /\ image' = <<clock, window, slots, field>>
      /\ phase' = "prepared"
      /\ clock' = clock /\ window' = window /\ slots' = slots /\ field' = field
      /\ at' = at /\ out' = out /\ saved' = saved
  BY DEF BeginStep, accepted
<1>2. /\ image'[1] = clock /\ image'[2] = window /\ image'[3] = slots
      /\ image'[4] = field
  BY <1>1
<1>3. SlotInv' /\ HeldIsLatest'
  BY <1>1, <1>2 DEF CacheInv, SlotInv, HeldIsLatest, Caches
<1>4. LineageInv'
  BY <1>1, <1>2 DEF CacheInv, LineageInv, SinceCheckpoint, AtCheckpoint, Caches
<1> QED
  BY <1>3, <1>4 DEF CacheInv

\* A step of an open transaction that leaves cache, values and snapshot alone
\* and supplies nothing.
LEMMA ControlStepCache ==
  ASSUME CacheInv, phase # "idle", phase' # "idle",
         slots' = slots, field'.latest = field.latest, field'.stale = field.stale,
         image' = image, saved' = saved,
         \A n \in Nodes : ~(phase' = "program" /\ n < at'.node)
  PROVE  CacheInv'
<1>1. SlotInv' /\ HeldIsLatest'
  BY DEF CacheInv, SlotInv, HeldIsLatest, Caches, Current
<1>2. LineageInv'
  BY DEF CacheInv, LineageInv, SinceCheckpoint, AtCheckpoint, Caches
<1> QED
  BY <1>1, <1>2 DEF CacheInv

\* A held step runs no node.
LEMMA HoldStepCache ==
  ASSUME IndInv, CacheInv, HoldStep
  PROVE  CacheInv'
BY ControlStepCache DEF HoldStep, FinishStep

\* Entering a window runs no node yet.
LEMMA EnterWindowCache ==
  ASSUME IndInv, CacheInv, EnterWindow
  PROVE  CacheInv'
<1>1. at'.node = 1
  BY DEF EnterWindow, IndInv, TimeInv
<1> QED
  BY <1>1, ControlStepCache, ConstantFacts DEF EnterWindow

\* The next invocation has supplied nothing yet.
LEMMA EndInvocationCache ==
  ASSUME IndInv, CacheInv, EndInvocation
  PROVE  CacheInv'
<1>1. /\ phase = "program" /\ phase' \in {"program", "stepped"} /\ at'.node = 1
      /\ slots' = slots /\ image' = image /\ saved' = saved
      /\ field' = [field EXCEPT !.covered = Endpoint(at.substep + 1)]
  BY DEF EndInvocation, FinishStep
<1>2. field'.latest = field.latest /\ field'.stale = field.stale
  BY <1>1 DEF IndInv, TypeOK, Field
<1> QED
  BY <1>1, <1>2, ControlStepCache, ConstantFacts

\* A computed value is stored and is the latest.
LEMMA ComputeNodeCache ==
  ASSUME IndInv, CacheInv, NEW n \in Nodes, ComputeNode(n)
  PROVE  CacheInv'
<1>1. /\ phase = "program" /\ phase' = phase /\ at.node = n
      /\ slots' = IF Caches(n) THEN [slots EXCEPT ![n] = StoredSlot(n)] ELSE slots
      /\ field' = [field EXCEPT !.latest[n] = Stamp, !.stale = @ \ {n}]
      /\ out' = [out EXCEPT ![n] = Stamp]
      /\ at' = [at EXCEPT !.node = n + 1]
      /\ image' = image /\ saved' = saved
  BY DEF ComputeNode
<1>2. /\ slots \in [Nodes -> Slot] /\ field \in Field /\ out \in [Nodes -> Nat]
  BY DEF IndInv, TypeOK
<1>3. /\ field'.latest[n] = Stamp /\ out'[n] = Stamp
      /\ \A m \in Nodes \ {n} :
            /\ field'.latest[m] = field.latest[m] /\ out'[m] = out[m]
            /\ m \in field'.stale <=> m \in field.stale
  BY <1>1, <1>2 DEF Field
<1>4. /\ Caches(n) => slots'[n] = StoredSlot(n)
      /\ \A m \in Nodes \ {n} : slots'[m] = slots[m]
  BY <1>1, <1>2
<1>5. StoredSlot(n).valid /\ StoredSlot(n).value = Stamp
  BY DEF StoredSlot
<1>6. \A m \in Nodes : Caches(m) => Current(slots'[m], field', m)
  BY <1>3, <1>4, <1>5 DEF CacheInv, SlotInv, Current
<1>7. SlotInv'
  BY <1>1, <1>6 DEF CacheInv, SlotInv, Caches
<1>8. at'.node = n + 1
  BY <1>1, NextNode DEF IndInv
<1>9. \A m \in Nodes : Caches(m) /\ m < n + 1 =>
         out'[m] = field'.latest[m] \/ m \in field'.stale
  <2>1. \A m \in Nodes : m < n + 1 => m = n \/ m < n
    BY ConstantFacts
  <2>2. \A m \in Nodes : Caches(m) /\ m < n =>
           out[m] = field.latest[m] \/ m \in field.stale
    BY <1>1 DEF CacheInv, HeldIsLatest
  <2>3. \A m \in Nodes : m < n => m # n
    BY ConstantFacts
  <2> QED
    BY <1>3, <2>1, <2>2, <2>3
<1>10. HeldIsLatest'
  BY <1>1, <1>8, <1>9 DEF HeldIsLatest, Caches
<1>11. LineageInv'
  BY <1>1 DEF CacheInv, LineageInv, SinceCheckpoint, AtCheckpoint, Caches
<1> QED
  BY <1>7, <1>10, <1>11 DEF CacheInv

\* A valid slot supplies the latest value, and keeps it.
LEMMA SupplyNodeCache ==
  ASSUME IndInv, CacheInv, NEW n \in Nodes, SupplyNode(n)
  PROVE  CacheInv'
<1>1. /\ phase = "program" /\ phase' = phase /\ at.node = n
      /\ Caches(n) => slots[n].valid
      /\ slots' = [slots EXCEPT ![n] = SkippedSlot(n)]
      /\ out' = [out EXCEPT ![n] = IF Caches(n) THEN slots[n].value ELSE NoValue]
      /\ at' = [at EXCEPT !.node = n + 1]
      /\ field' = field /\ image' = image /\ saved' = saved
  BY DEF SupplyNode
<1>2. /\ slots \in [Nodes -> Slot] /\ field \in Field /\ out \in [Nodes -> Nat]
  BY DEF IndInv, TypeOK
<1>3. /\ slots'[n] = SkippedSlot(n)
      /\ Caches(n) => out'[n] = slots[n].value
      /\ \A m \in Nodes \ {n} : slots'[m] = slots[m] /\ out'[m] = out[m]
  BY <1>1, <1>2
<1>4. SkippedSlot(n).valid = slots[n].valid /\ SkippedSlot(n).value = slots[n].value
  <2>1. slots[n] \in Slot
    BY <1>2
  <2> QED
    BY <2>1 DEF SkippedSlot, Slot
<1>5. Caches(n) => slots[n].value = field.latest[n] \/ n \in field.stale
  BY <1>1 DEF CacheInv, SlotInv, Current
<1>6. \A m \in Nodes : Caches(m) => Current(slots'[m], field, m)
  BY <1>1, <1>3, <1>4, <1>5 DEF CacheInv, SlotInv, Current
<1>7. SlotInv'
  BY <1>1, <1>6 DEF CacheInv, SlotInv, Caches
<1>8. at'.node = n + 1
  BY <1>1, NextNode DEF IndInv
<1>9. \A m \in Nodes : Caches(m) /\ m < n + 1 =>
         out'[m] = field.latest[m] \/ m \in field.stale
  <2>1. \A m \in Nodes : m < n + 1 => m = n \/ m < n
    BY ConstantFacts
  <2>2. \A m \in Nodes : Caches(m) /\ m < n =>
           out[m] = field.latest[m] \/ m \in field.stale
    BY <1>1 DEF CacheInv, HeldIsLatest
  <2>3. \A m \in Nodes : m < n => m # n
    BY ConstantFacts
  <2> QED
    BY <1>3, <1>5, <2>1, <2>2, <2>3
<1>10. HeldIsLatest'
  BY <1>1, <1>8, <1>9 DEF HeldIsLatest, Caches
<1>11. LineageInv'
  BY <1>1 DEF CacheInv, LineageInv, SinceCheckpoint, AtCheckpoint, Caches
<1> QED
  BY <1>7, <1>10, <1>11 DEF CacheInv

\* An accepted step is later than the checkpoint its lineage goes back to.
LEMMA AcceptStepCache ==
  ASSUME IndInv, CacheInv, AcceptStep
  PROVE  CacheInv'
<1>1. /\ phase = "stepped" /\ phase' = "idle" /\ clock' = clock /\ saved' = saved
      /\ slots' = slots /\ field' = field
  BY DEF AcceptStep, accepted
<1>2. SlotInv' /\ HeldIsLatest'
  BY <1>1 DEF CacheInv, SlotInv, HeldIsLatest, Caches
<1>3. /\ clock.step = image[1].step + 1 /\ image[1].step \in Nat
      /\ saved # <<>> => saved[1].clock.step \in Nat
  BY <1>1, ImageFacts DEF IndInv, TypeOK, TimeInv, Clock
<1>4. saved # <<>> => clock.step > saved[1].clock.step
  BY <1>1, <1>3 DEF CacheInv, LineageInv, SinceCheckpoint, AtCheckpoint
<1>5. LineageInv'
  BY <1>1, <1>4 DEF LineageInv, SinceCheckpoint
<1> QED
  BY <1>2, <1>5 DEF CacheInv

\* A slot that is not valid is empty, so the valid ones tell the whole cache.
LEMMA CheckpointCache ==
  ASSUME IndInv, CacheInv, Checkpoint
  PROVE  CacheInv'
<1> DEFINE copy == [clock |-> clock, window |-> window, field |-> field,
                    cache |-> [n \in Valid(slots) |-> slots[n]]]
<1>1. /\ phase = "idle" /\ phase' = phase /\ saved' = <<copy>>
      /\ clock' = clock /\ window' = window /\ slots' = slots /\ field' = field
  BY DEF Checkpoint, accepted
<1>2. /\ copy.clock = clock /\ copy.window = window /\ copy.field = field
      /\ copy.cache = [n \in Valid(slots) |-> slots[n]]
  OBVIOUS
<1> HIDE DEF copy
<1>3. saved'[1] = copy
  BY <1>1
<1>4. /\ DOMAIN copy.cache = Valid(slots)
      /\ \A n \in Valid(slots) : n \in Nodes /\ slots[n].valid
      /\ \A n \in Valid(slots) : copy.cache[n] = slots[n]
      /\ \A n \in Nodes : n \notin Valid(slots) => ~slots[n].valid
  BY <1>2 DEF Valid
<1>5. \A n \in Nodes : Caches(n) => Current(slots[n], field, n)
  BY DEF CacheInv, SlotInv
<1>6. \A n \in DOMAIN copy.cache : Caches(n) => Current(copy.cache[n], copy.field, n)
  BY <1>2, <1>4, <1>5
<1>7. SlotInv' /\ HeldIsLatest'
  BY <1>1, <1>3, <1>5, <1>6 DEF SlotInv, HeldIsLatest, Caches
<1>8. \A n \in Nodes : Caches(n) =>
          slots[n] = IF n \in DOMAIN copy.cache THEN copy.cache[n] ELSE EmptySlot
  BY <1>4, <1>5 DEF Current
<1>9. AtCheckpoint(clock, window, slots, field)'
  BY <1>1, <1>2, <1>3, <1>8 DEF AtCheckpoint, SameLineage, Caches
<1>10. LineageInv'
  BY <1>1, <1>9 DEF LineageInv, SinceCheckpoint, AtCheckpoint
<1> QED
  BY <1>7, <1>10 DEF CacheInv

\* The slots that were not recorded are empty, or left over from the abandoned run.
LEMMA RestartCache ==
  ASSUME IndInv, CacheInv, NEW host \in Hosts, Restart(host)
  PROVE  CacheInv'
<1>1. /\ phase = "idle" /\ saved # <<>> /\ phase' = phase /\ saved' = saved
      /\ field' = [saved[1].field EXCEPT !.stale = @ \cup LeftOver(saved[1].cache, host)]
      /\ window' = saved[1].window
      /\ clock' = saved[1].clock /\ slots' = RestoredSlots(saved[1].cache, host)
  BY DEF Restart
<1>2. /\ SameLineage(field', saved[1].field)
      /\ field'.stale = saved[1].field.stale \cup LeftOver(saved[1].cache, host)
  <2>1. saved[1].field \in Field
    BY <1>1 DEF IndInv, TypeOK
  <2> QED
    BY <1>1, <2>1 DEF Field, SameLineage
<1>3. ASSUME NEW n \in Nodes, Caches(n)
      PROVE  /\ Current(slots'[n], field', n)
             /\ IF n \in DOMAIN saved[1].cache THEN slots'[n] = saved[1].cache[n]
                ELSE slots'[n] = EmptySlot \/ n \in field'.stale
  <2>1. CASE n \in DOMAIN saved[1].cache
    <3>1. slots'[n] = saved[1].cache[n]
      BY <1>1, <2>1 DEF RestoredSlots
    <3>2. Current(saved[1].cache[n], saved[1].field, n)
      BY <1>1, <1>3, <2>1 DEF CacheInv, SlotInv
    <3> QED
      BY <1>2, <2>1, <3>1, <3>2 DEF Current, SameLineage
  <2>2. CASE n \notin DOMAIN saved[1].cache
    <3>1. slots'[n] = EmptySlot \/ slots'[n] = slots[n]
      BY <1>1, <2>2 DEF RestoredSlots
    <3>2. slots'[n].valid => n \in field'.stale
      BY <1>1, <1>2, <2>2 DEF LeftOver
    <3>3. Current(slots[n], field, n)
      BY <1>3 DEF CacheInv, SlotInv
    <3>4. ~EmptySlot.valid
      BY DEF EmptySlot
    <3> QED
      BY <2>2, <3>1, <3>2, <3>3, <3>4 DEF Current
  <2> QED
    BY <2>1, <2>2
<1>4. SlotInv' /\ HeldIsLatest'
  BY <1>1, <1>3 DEF CacheInv, SlotInv, HeldIsLatest, Caches
<1>5. AtCheckpoint(clock, window, slots, field)'
  BY <1>1, <1>2, <1>3 DEF AtCheckpoint, SameLineage, Caches
<1>6. LineageInv'
  BY <1>1, <1>5 DEF LineageInv, SinceCheckpoint, AtCheckpoint
<1> QED
  BY <1>4, <1>6 DEF CacheInv

\* Every step keeps the cache invariant.
LEMMA CacheStep ==
  ASSUME IndInv, CacheInv, [Next]_vars
  PROVE  CacheInv'
<1>1. ASSUME NEW dt \in Dts, BeginStep(dt) PROVE CacheInv'
  BY <1>1, BeginStepCache
<1>2. ASSUME Undone PROVE CacheInv'
  BY <1>2, UndoneRestores, RestoreCache DEF IndInv
<1>3. ASSUME NEW n \in Nodes, ComputeNode(n) \/ SupplyNode(n) PROVE CacheInv'
  BY <1>3, ComputeNodeCache, SupplyNodeCache
<1>4. ASSUME NEW host \in Hosts, Restart(host) PROVE CacheInv'
  BY <1>4, RestartCache
<1>5. CASE UNCHANGED vars
  <2>1. /\ clock' = clock /\ window' = window /\ slots' = slots /\ field' = field
        /\ phase' = phase /\ at' = at /\ out' = out /\ image' = image /\ saved' = saved
    BY <1>5 DEF vars, accepted
  <2>2. SlotInv' /\ HeldIsLatest'
    BY <2>1 DEF CacheInv, SlotInv, HeldIsLatest, Caches
  <2>3. LineageInv'
    BY <2>1 DEF CacheInv, LineageInv, SinceCheckpoint, AtCheckpoint, Caches
  <2> QED
    BY <2>2, <2>3 DEF CacheInv
<1> QED
  BY <1>1, <1>2, <1>3, <1>4, <1>5, HoldStepCache, EnterWindowCache,
     EndInvocationCache, AcceptStepCache, CheckpointCache DEF Next, Undone

\* The initial cache is empty.
LEMMA CacheInit ==
  ASSUME Init
  PROVE  CacheInv
<1>1. \A n \in Nodes : slots[n] = EmptySlot
  BY DEF Init
<1>2. SlotInv /\ HeldIsLatest /\ LineageInv
  BY <1>1 DEF Init, SlotInv, Current, EmptySlot, HeldIsLatest, LineageInv
<1> QED
  BY <1>2 DEF CacheInv

\* The cache invariant holds in every reachable state too.
THEOREM CacheInvariance == Spec => [](IndInv /\ CacheInv)
<1>1. Init => IndInv /\ CacheInv
  BY IndInit, CacheInit
<1>2. IndInv /\ CacheInv /\ [Next]_vars => (IndInv /\ CacheInv)'
  BY IndStep, CacheStep
<1> QED
  BY <1>1, <1>2, PTL DEF Spec

\* CacheManager::restore_into supplies the last value the node computed on this
\* lineage, never one of a rolled-back attempt, and one of an abandoned run only for
\* a node that a restart in a live runtime left unrecorded and that has not been
\* computed since.
THEOREM HeldValues == Spec => []HeldIsLatest
<1>1. IndInv /\ CacheInv => HeldIsLatest
  BY DEF CacheInv
<1> QED
  BY <1>1, CacheInvariance, PTL

\* A run that stands where its checkpoint was written has the checkpoint's
\* window and slots, whether it never left or came back through a restart of
\* _apply_checkpoint_restart in a fresh process or in a live runtime; there a slot
\* the checkpoint does not record may be the abandoned run's.
THEOREM RestartResumes == Spec => []ResumesTheRun
<1>1. IndInv /\ CacheInv => ResumesTheRun
  <2> SUFFICES ASSUME IndInv, CacheInv, saved # <<>>, phase = "idle",
                      clock = saved[1].clock, SameLineage(field, saved[1].field)
               PROVE  AtCheckpoint(clock, window, slots, field)
    BY DEF ResumesTheRun, AtCheckpoint
  <2>1. SinceCheckpoint(clock, window, slots, field)
    BY DEF CacheInv, LineageInv
  <2>2. clock.step \in Nat
    BY DEF IndInv, TypeOK, Clock
  <2> QED
    BY <2>1, <2>2 DEF SinceCheckpoint
<1> QED
  BY <1>1, CacheInvariance, PTL
================================================================================
