----------------------- MODULE MultiLayoutExecutorProofs -----------------------
(***************************************************************************)
(* Proofs about MultiLayoutExecutor, for any number of layouts, any list   *)
(* of mappings between them (cycles and self mappings included) and any    *)
(* number of failing calls.                                                *)
(***************************************************************************)
EXTENDS MultiLayoutExecutor, FiniteSetTheorems, TLAPS

-----------------------------------------------------------------------------
(* The inductive invariant.                                                *)

\* Where the index of each loop of the executor stands.
IndexInv ==
    /\ pc = "begin" => i \in 1 .. Layouts + Len(Routes) + 1
    /\ pc \in {"unwind", "undo", "rollback"} => i \in 0 .. Layouts
    /\ pc \in {"capture", "apply"} => i \in 1 .. Len(Routes) + 1
    /\ pc \in {"advance", "again", "commit", "finalize"} => i \in 1 .. Layouts + 1
    /\ pc \in {"idle", "begin"} => attempt = 0
    /\ pc = "unwind" => attempt = 0

\* Until the step is finalized each child either is at the accepted state or
\* owns a snapshot of it: nothing that fails can lose it.
Recoverable(e) ==
    IF engine[e].tx = "none" THEN engine[e].now = At(accepted)
    ELSE engine[e].image = At(accepted)

\* Child e has an open transaction and this content.
Open(e, content) == engine[e].tx = "active" /\ engine[e].now = content

\* What the children that the loop has passed share.
ChildInv(e) ==
    /\ pc # "finalize" => Recoverable(e)
    /\ pc = "idle" /\ engine[e].tx # "none" => engine[e].now = Torn
    /\ pc = "rollback" /\ e > i /\ engine[e].tx # "none" => engine[e].now = Torn
    /\ pc = "begin" /\ e < i => Open(e, At(accepted))
    /\ pc = "unwind" /\ e <= i => engine[e].tx # "none"
    /\ pc = "capture" => Open(e, At(accepted))
    /\ pc = "apply" =>
          Open(e, [step |-> accepted, fed |-> {m \in Inbound(e) : m < i}])
    /\ pc = "advance" =>
          Open(e, [step |-> IF e < i THEN accepted + 1 ELSE accepted,
                   fed |-> Inbound(e)])
    /\ pc = "reject" => engine[e].tx = "active"
    /\ pc = "undo" /\ e <= i => engine[e].tx = "active"
    /\ pc = "undo" /\ e > i => engine[e].tx = "none" \/ failure = "fail"
    /\ pc = "again" =>
          IF e < i THEN Open(e, At(accepted)) ELSE engine[e].tx = "none"
    /\ pc = "commit" =>
          /\ engine[e].tx = IF e < i THEN "committed" ELSE "active"
          /\ engine[e].now = [step |-> accepted + 1, fed |-> Inbound(e)]
    /\ pc = "finalize" =>
          IF e < i THEN engine[e].tx = "none" /\ engine[e].now = At(accepted + 1)
          ELSE /\ engine[e].tx = "committed"
               /\ engine[e].now = [step |-> accepted + 1, fed |-> Inbound(e)]

ChildrenInv == \A e \in Engines : ChildInv(e)

\* The captured buffers.
HeldInv == \A m \in Sessions :
    \/ pc = "capture" /\ m < i
    \/ pc \in {"apply", "advance"}
    => session[m].held = At(accepted)

IndInv == TypeOK /\ IndexInv /\ ChildrenInv /\ HeldInv

-----------------------------------------------------------------------------
(* The constants and the operators on a child.                             *)

EngineRec == [tx : {"none", "active", "committed"}, now : Contents, image : Contents]
SessionRec == [active : BOOLEAN, generation : Nat, last : Nat, captured : Nat,
               applied : BOOLEAN, held : Contents]

\* What the assumption says of the constants, piece by piece.
LEMMA ConstantFacts ==
  /\ Layouts \in Nat /\ Layouts >= 1 /\ Engines = 1 .. Layouts
  /\ Len(Routes) \in Nat /\ Sessions = 1 .. Len(Routes)
  /\ \A m \in Sessions : Routes[m].source \in Engines /\ Routes[m].target \in Engines
  /\ MaxRejects \in Nat /\ MaxFaults \in Nat /\ MaxInterrupts \in Nat
<1>1. /\ Layouts \in Nat \ {0}
      /\ Routes \in Seq([source : Engines, target : Engines])
      /\ MaxRejects \in Nat /\ MaxFaults \in Nat /\ MaxInterrupts \in Nat
  BY LayoutsAssumption
<1>2. Len(Routes) \in Nat /\ Sessions = 1 .. Len(Routes)
  BY <1>1 DEF Sessions
<1>3. ASSUME NEW m \in Sessions
      PROVE  Routes[m].source \in Engines /\ Routes[m].target \in Engines
  <2> DEFINE Route == [source : Engines, target : Engines]
  <2>1. Routes \in Seq(Route)
    BY <1>1
  <2> HIDE DEF Route
  <2>2. Routes[m] \in Route
    BY <1>2, <2>1
  <2>3. Routes[m] \in [source : Engines, target : Engines]
    BY <2>2 DEF Route
  <2> QED
    BY <2>3
<1> QED
  BY <1>1, <1>2, <1>3 DEF Engines

\* The numbers alone.
LEMMA BoundFacts ==
  /\ Layouts \in Nat /\ Layouts >= 1 /\ Len(Routes) \in Nat
  /\ MaxRejects \in Nat /\ MaxFaults \in Nat /\ MaxInterrupts \in Nat
  /\ Engines = 1 .. Layouts /\ Sessions = 1 .. Len(Routes)
BY ConstantFacts

\* The contents the executor can write are contents.
LEMMA ContentTypes ==
  /\ Torn \in Contents
  /\ \A n \in Nat, fed \in SUBSET Sessions : [step |-> n, fed |-> fed] \in Contents
  /\ \A n \in Nat : At(n) \in Contents
  /\ \A e \in Engines : Inbound(e) \in SUBSET Sessions
BY DEF Torn, Contents, At, Inbound

\* What each call makes of a child.
LEMMA ChildCalls ==
  ASSUME engine \in [Engines -> EngineRec], NEW e \in Engines
  PROVE  /\ /\ Opened(e) \in EngineRec
            /\ Opened(e).tx = "active"
            /\ Opened(e).now = engine[e].now
            /\ Opened(e).image = engine[e].now
         /\ /\ Restored(e) \in EngineRec
            /\ Restored(e).tx = "none"
            /\ Restored(e).now = engine[e].image
         /\ /\ Spoiled(e) \in EngineRec
            /\ Spoiled(e).tx = engine[e].tx
            /\ Spoiled(e).now = Torn
            /\ Spoiled(e).image = engine[e].image
         /\ /\ Committed(e) \in EngineRec
            /\ Committed(e).tx = "committed"
            /\ Committed(e).now = engine[e].now
            /\ Committed(e).image = engine[e].image
<1>1. engine[e] \in EngineRec
  OBVIOUS
<1> QED
  BY <1>1, ContentTypes DEF EngineRec, Opened, Restored, Spoiled, Committed

\* The calls that change what a child contains.
LEMMA ChildContents ==
  ASSUME engine \in [Engines -> EngineRec], NEW e \in Engines
  PROVE  /\ \A m \in Sessions :
               /\ Fed(e, m) \in EngineRec
               /\ Fed(e, m).tx = engine[e].tx
               /\ Fed(e, m).now = [step |-> engine[e].now.step,
                                   fed |-> engine[e].now.fed \cup {m}]
               /\ Fed(e, m).image = engine[e].image
         /\ /\ Stepped(e) \in EngineRec
            /\ Stepped(e).tx = engine[e].tx
            /\ Stepped(e).now = [step |-> engine[e].now.step + 1,
                                 fed |-> engine[e].now.fed]
            /\ Stepped(e).image = engine[e].image
         /\ /\ Closed(e) \in EngineRec
            /\ Closed(e).tx = "none"
            /\ Closed(e).now = At(engine[e].now.step)
<1>1. engine[e] \in EngineRec /\ engine[e].now \in Contents
  BY DEF EngineRec
<1>2. engine[e].now.step \in Nat \cup {-1} /\ engine[e].now.fed \in SUBSET Sessions
  BY <1>1 DEF Contents
<1>3. ASSUME NEW m \in Sessions
      PROVE  /\ Fed(e, m) \in EngineRec
             /\ Fed(e, m).tx = engine[e].tx
             /\ Fed(e, m).now = [step |-> engine[e].now.step,
                                 fed |-> engine[e].now.fed \cup {m}]
             /\ Fed(e, m).image = engine[e].image
  <2>1. [engine[e].now EXCEPT !.fed = @ \cup {m}] =
           [step |-> engine[e].now.step, fed |-> engine[e].now.fed \cup {m}]
    BY <1>1 DEF Contents
  <2>2. [engine[e].now EXCEPT !.fed = @ \cup {m}] \in Contents
    BY <1>2, <2>1 DEF Contents
  <2> QED
    BY <1>1, <2>1, <2>2 DEF EngineRec, Fed
<1>4. /\ Stepped(e) \in EngineRec
      /\ Stepped(e).tx = engine[e].tx
      /\ Stepped(e).now = [step |-> engine[e].now.step + 1,
                           fed |-> engine[e].now.fed]
      /\ Stepped(e).image = engine[e].image
  <2>1. [engine[e].now EXCEPT !.step = @ + 1] =
           [step |-> engine[e].now.step + 1, fed |-> engine[e].now.fed]
    BY <1>1 DEF Contents
  <2>2. [engine[e].now EXCEPT !.step = @ + 1] \in Contents
    BY <1>2, <2>1 DEF Contents
  <2> QED
    BY <1>1, <2>1, <2>2 DEF EngineRec, Stepped
<1>5. /\ Closed(e) \in EngineRec
      /\ Closed(e).tx = "none"
      /\ Closed(e).now = At(engine[e].now.step)
  <2>1. [engine[e].now EXCEPT !.fed = {}] = At(engine[e].now.step)
    BY <1>1 DEF Contents, At
  <2>2. [engine[e].now EXCEPT !.fed = {}] \in Contents
    BY <1>2, <2>1 DEF Contents, At
  <2> QED
    BY <1>1, <2>1, <2>2 DEF EngineRec, Closed
<1> QED
  BY <1>3, <1>4, <1>5

\* Releasing a session keeps its buffer.
LEMMA SessionTypes ==
  ASSUME NEW s \in SessionRec, NEW g \in Nat
  PROVE  Released(s, g) \in SessionRec /\ Released(s, g).held = s.held
BY DEF SessionRec, Released

-----------------------------------------------------------------------------
(* Types.                                                                  *)

\* The executor starts well typed.
LEMMA TypeInit == Init => TypeOK
BY ConstantFacts, ContentTypes DEF Init, TypeOK


\* Every call leaves every child well typed.
LEMMA EngineTypeStep ==
  ASSUME TypeOK, IndexInv, [Next]_vars
  PROVE  engine' \in [Engines -> EngineRec]
<1>0. engine \in [Engines -> EngineRec]
  BY DEF TypeOK, EngineRec
<1>1. \A e \in Engines :
         /\ Opened(e) \in EngineRec /\ Restored(e) \in EngineRec
         /\ Spoiled(e) \in EngineRec /\ Committed(e) \in EngineRec
         /\ Stepped(e) \in EngineRec /\ Closed(e) \in EngineRec
         /\ \A m \in Sessions : Fed(e, m) \in EngineRec
  BY <1>0, ChildCalls, ChildContents
<1>2. CASE BeginEngine \/ UnwindEngine \/ UndoEngine \/ RollbackEngine
  <2>1. \/ engine' = engine
        \/ engine' = [engine EXCEPT ![i] = Opened(i)]
        \/ engine' = [engine EXCEPT ![i] = Restored(i)]
        \/ engine' = [engine EXCEPT ![i] = Spoiled(i)]
    BY <1>2 DEF BeginEngine, UnwindEngine, UndoEngine, RollbackEngine
  <2>2. i \in Engines
    BY <1>2, BoundFacts
    DEF BeginEngine, UnwindEngine, UndoEngine, RollbackEngine, IndexInv
  <2> QED
    BY <1>0, <1>1, <2>1, <2>2
<1>3. CASE ApplySession
  <2>1. PICK to \in Engines :
           \/ engine' = [engine EXCEPT ![to] = Fed(to, i)]
           \/ engine' = [engine EXCEPT ![to] = Spoiled(to)]
    BY <1>3, ConstantFacts DEF ApplySession
  <2>2. i \in Sessions
    BY <1>3 DEF ApplySession
  <2> QED
    BY <1>0, <1>1, <2>1, <2>2
<1>4. CASE AdvanceEngine \/ CommitEngine \/ FinalizeEngine
  <2>1. \/ engine' = engine
        \/ engine' = [engine EXCEPT ![i] = Stepped(i)]
        \/ engine' = [engine EXCEPT ![i] = Spoiled(i)]
        \/ engine' = [engine EXCEPT ![i] = Committed(i)]
        \/ engine' = [engine EXCEPT ![i] = Closed(i)]
    BY <1>4 DEF AdvanceEngine, CommitEngine, FinalizeEngine
  <2>2. i \in Engines
    BY <1>4, BoundFacts DEF AdvanceEngine, CommitEngine, FinalizeEngine, IndexInv
  <2> QED
    BY <1>0, <1>1, <2>1, <2>2
<1>5. CASE BeginAgain
  BY <1>0, <1>1, <1>5 DEF BeginAgain
<1>6. CASE engine' = engine
  BY <1>0, <1>6
<1> QED
  BY <1>2, <1>3, <1>4, <1>5, <1>6
  DEF Next, vars, Start, BeginSession, Begun, UnwoundAll, CaptureSession,
      Captured, Applied, Advanced, RejectSessions, Undone, AcceptConsumers,
      Finalized, RolledBack

\* Every call leaves every session well typed.
LEMMA SessionTypeStep ==
  ASSUME TypeOK, IndexInv, [Next]_vars
  PROVE  session' \in [Sessions -> SessionRec]
<1> USE DEF Goto
<1>0. /\ session \in [Sessions -> SessionRec]
      /\ \A m \in Sessions : session[m] \in SessionRec
      /\ generation \in Nat /\ active \in Nat /\ attempt \in Nat
      /\ \A e \in Engines : engine[e].now \in Contents
  BY DEF TypeOK, SessionRec
<1>1. \A m \in Sessions, g \in Nat : Released(session[m], g) \in SessionRec
  BY <1>0, SessionTypes
<1>2. \A m \in Sessions : SessionOpened(m) \in SessionRec
  BY <1>0 DEF SessionOpened, SessionRec
<1>3. CASE BeginSession
  <2>1. \A begun : Unwound(begun) \in [Sessions -> SessionRec]
    BY <1>0, <1>1 DEF Unwound
  <2> QED
    BY <1>0, <1>2, <1>3, <2>1 DEF BeginSession
<1>4. CASE CaptureSession
  <2>1. i \in Sessions /\ Routes[i].source \in Engines
    BY <1>4, ConstantFacts DEF CaptureSession
  <2>2. [session[i] EXCEPT !.captured = attempt, !.held = engine[Routes[i].source].now]
          \in SessionRec
    BY <1>0, <2>1 DEF SessionRec
  <2>3. \/ session' = session
        \/ session' = [session EXCEPT ![i] =
             [session[i] EXCEPT !.captured = attempt,
                                !.held = engine[Routes[i].source].now]]
    BY <1>0, <1>4, <2>1 DEF CaptureSession, SessionRec
  <2> QED
    BY <1>0, <2>1, <2>2, <2>3
<1>5. CASE ApplySession
  <2>1. /\ i \in Sessions
        /\ \/ session' = session
           \/ session' = [session EXCEPT ![i] = [@ EXCEPT !.applied = TRUE]]
    BY <1>5 DEF ApplySession
  <2>2. [session[i] EXCEPT !.applied = TRUE] \in SessionRec
    BY <1>0, <2>1 DEF SessionRec
  <2> QED
    BY <1>0, <2>1, <2>2
<1>6. CASE RejectSessions
  <2>1. \A m \in Sessions :
           [session[m] EXCEPT !.captured = 0, !.applied = FALSE] \in SessionRec
    BY <1>0 DEF SessionRec
  <2> QED
    BY <1>0, <1>6, <2>1 DEF RejectSessions
<1>7. CASE Finalized
  BY <1>0, <1>1, <1>7 DEF Finalized
<1>8. CASE RolledBack
  BY <1>0, <1>1, <1>8 DEF RolledBack, RollbackSessions
<1>9. CASE session' = session
  BY <1>0, <1>9
<1> QED
  BY <1>3, <1>4, <1>5, <1>6, <1>7, <1>8, <1>9
  DEF Next, vars, Start, BeginEngine, Begun, UnwindEngine, UnwoundAll,
      Captured, Applied, AdvanceEngine, Advanced, UndoEngine, Undone,
      BeginAgain, CommitEngine, AcceptConsumers, FinalizeEngine, RollbackEngine


\* The control flow of the executor: every step of the loops.
Moves ==
    \/ pc = "idle" /\ Goto("begin", 1)
    \/ /\ pc = "begin"
       /\ \/ i <= Layouts /\ (Goto("begin", i + 1) \/ Goto("unwind", i - 1))
          \/ /\ i - Layouts \in Sessions
             /\ Goto("begin", i + 1) \/ Goto("unwind", Layouts)
          \/ i > Layouts + Len(Routes) /\ Goto("capture", 1)
    \/ pc = "unwind" /\ i > 0 /\ Goto("unwind", i - 1)
    \/ /\ pc = "capture"
       /\ (i \in Sessions /\ Goto("capture", i + 1)) \/ Goto("apply", 1)
    \/ /\ pc = "apply"
       /\ (i \in Sessions /\ Goto("apply", i + 1)) \/ Goto("advance", 1)
    \/ /\ pc = "advance"
       /\ \/ i \in Engines /\ Goto("advance", i + 1)
          \/ Goto("reject", 0)
          \/ Goto("commit", 1)
    \/ pc = "reject" /\ Goto("undo", Layouts)
    \/ pc = "undo" /\ ((i > 0 /\ Goto("undo", i - 1)) \/ Goto("again", 1))
    \/ pc = "again" /\ i \in Engines /\ Goto("again", i + 1)
    \/ /\ pc = "commit"
       /\ (i <= Layouts /\ Goto("commit", i + 1)) \/ Goto("finalize", 1)
    \/ /\ pc = "finalize"
       /\ (i <= Layouts /\ Goto("finalize", i + 1)) \/ Goto("idle", 0)
    \/ /\ pc \notin {"idle", "begin", "finalize", "rollback"}
       /\ Goto("rollback", Layouts)
    \/ pc = "rollback" /\ ((i > 0 /\ Goto("rollback", i - 1)) \/ Goto("idle", 0))
    \/ UNCHANGED <<pc, i>>

\* Every action follows the control flow.
LEMMA ControlStep ==
  ASSUME [Next]_vars
  PROVE  Moves
<1> USE DEF Fail, Moves
<1>1. CASE Start \/ BeginEngine \/ Begun
  BY <1>1 DEF Start, BeginEngine, Begun
<1>2. CASE BeginSession
  BY <1>2 DEF BeginSession
<1>3. CASE UnwindEngine \/ UnwoundAll \/ CaptureSession \/ Captured
  BY <1>3 DEF UnwindEngine, UnwoundAll, CaptureSession, Captured
<1>4. CASE ApplySession \/ Applied
  BY <1>4 DEF ApplySession, Applied
<1>5. CASE AdvanceEngine \/ Advanced
  BY <1>5 DEF AdvanceEngine, Advanced
<1>6. CASE RejectSessions \/ UndoEngine \/ Undone
  BY <1>6 DEF RejectSessions, UndoEngine, Undone
<1>7. CASE BeginAgain
  BY <1>7 DEF BeginAgain
<1>8. CASE CommitEngine \/ AcceptConsumers
  BY <1>8 DEF CommitEngine, AcceptConsumers
<1>9. CASE FinalizeEngine \/ Finalized \/ RollbackEngine \/ RolledBack
  BY <1>9 DEF FinalizeEngine, Finalized, RollbackEngine, RolledBack
<1>10. CASE UNCHANGED vars
  BY <1>10 DEF vars
<1> QED
  BY <1>1, <1>2, <1>3, <1>4, <1>5, <1>6, <1>7, <1>8, <1>9, <1>10 DEF Next

\* The counters and the other scalars.
LEMMA ScalarStep ==
  ASSUME TypeOK, IndexInv, [Next]_vars
  PROVE  /\ failure' \in {"none", "reject", "fail"}
         /\ generation' \in Nat /\ active' \in Nat /\ accepted' \in Nat
         /\ mapping' \in Nat /\ saved' \subseteq Nat
         /\ rejects' \in 0 .. MaxRejects /\ interrupts' \in 0 .. MaxInterrupts
<1> USE DEF transfer, counts, bounds
<1>1. /\ failure' \in {"none", "reject", "fail", failure}
      /\ generation' \in {generation, generation + 1}
      /\ active' \in {active, generation, 0}
      /\ accepted' \in {accepted, accepted + 1}
      /\ mapping' \in {mapping, mapping + 1, RollbackMapping}
      /\ saved' \in {saved, {mapping}, {}}
      /\ \/ rejects' = rejects
         \/ rejects < MaxRejects /\ rejects' = rejects + 1
      /\ \/ interrupts' = interrupts
         \/ interrupts < MaxInterrupts /\ interrupts' = interrupts + 1
  BY DEF Next, vars, Start, BeginEngine, BeginSession, Begun, UnwindEngine,
         UnwoundAll, CaptureSession, Captured, ApplySession, Applied,
         AdvanceEngine, Advanced, RejectSessions, UndoEngine, Undone, BeginAgain,
         CommitEngine, AcceptConsumers, FinalizeEngine, Finalized,
         RollbackEngine, RolledBack, Fail
<1>2. RollbackMapping \in Nat
  BY DEF RollbackMapping, TypeOK
<1>3. /\ failure \in {"none", "reject", "fail"}
       /\ generation \in Nat /\ active \in Nat /\ mapping \in Nat
       /\ saved \subseteq Nat /\ accepted \in Nat
       /\ rejects \in 0 .. MaxRejects /\ interrupts \in 0 .. MaxInterrupts
  BY DEF TypeOK
<1> QED
  BY <1>1, <1>2, <1>3, BoundFacts

\* The errors of the swallowed rollbacks are counted with the others.
LEMMA FaultsStep ==
  ASSUME TypeOK, IndexInv, [Next]_vars
  PROVE  faults' \in 0 .. MaxFaults
<1>1. faults \in 0 .. MaxFaults /\ i \in Nat
  BY DEF TypeOK
<1>2. CASE BeginAgain
  <2>1. CASE UNCHANGED faults
    BY <1>1, <2>1
  <2>2. CASE faults' # faults
    <3>1. PICK bad \in SUBSET (1 .. i - 1) :
             /\ faults' = faults + 1 + Cardinality(bad)
             /\ faults' <= MaxFaults
      BY <1>2, <2>2 DEF BeginAgain
    <3>2. IsFiniteSet(1 .. i - 1)
      <4>1. 1 \in Int /\ i - 1 \in Int
        BY <1>1
      <4> QED
        BY <4>1, FS_Interval
    <3>3. IsFiniteSet(bad)
      BY <3>1, <3>2, FS_Subset
    <3>4. Cardinality(bad) \in Nat
      BY <3>3, FS_CardinalityType
    <3> QED
      BY <1>1, <3>1, <3>4, BoundFacts
  <2> QED
    BY <2>1, <2>2
<1>3. CASE UNCHANGED faults \/ Fault
  BY <1>1, <1>3, BoundFacts DEF Fault
<1>4. BeginAgain \/ UNCHANGED faults \/ Fault
  BY DEF Next, vars, bounds, Start, BeginEngine, BeginSession, Begun, UnwindEngine,
         UnwoundAll, CaptureSession, Captured, ApplySession, Applied,
         AdvanceEngine, Advanced, RejectSessions, UndoEngine, Undone,
         CommitEngine, AcceptConsumers, FinalizeEngine, Finalized,
         RollbackEngine, RolledBack
<1> QED
  BY <1>2, <1>3, <1>4

\* No loop leaves its range, and one attempt is numbered at a time.
LEMMA IndexStep ==
  ASSUME TypeOK, IndexInv, [Next]_vars
  PROVE  /\ IndexInv'
         /\ i' \in 0 .. Layouts + Len(Routes) + 1
         /\ attempt' \in 0 .. 1
         /\ pc' \in {"idle", "begin", "unwind", "capture", "apply", "advance",
                     "reject", "undo", "again", "commit", "finalize", "rollback"}
<1>1. /\ pc \in {"idle", "begin", "unwind", "capture", "apply", "advance",
                 "reject", "undo", "again", "commit", "finalize", "rollback"}
      /\ i \in 0 .. Layouts + Len(Routes) + 1 /\ attempt \in 0 .. 1
  BY DEF TypeOK
<1>2. \/ attempt' = attempt /\ pc' \notin {"idle", "capture"}
      \/ pc = "begin" /\ pc' = "capture" /\ attempt' = attempt + 1
      \/ attempt' = 0
      \/ UNCHANGED <<pc, attempt>>
  BY DEF Next, vars, transfer, Goto, Start, BeginEngine, BeginSession, Begun,
         UnwindEngine, UnwoundAll, CaptureSession, Captured, ApplySession, Applied,
         AdvanceEngine, Advanced, RejectSessions, UndoEngine, Undone, BeginAgain,
         CommitEngine, AcceptConsumers, FinalizeEngine, Finalized,
         RollbackEngine, RolledBack, Fail
<1> QED
  BY <1>1, <1>2, ControlStep, BoundFacts DEF IndexInv, Moves, Goto

\* Every step keeps the types.
LEMMA TypeStep ==
  ASSUME TypeOK, IndexInv, [Next]_vars
  PROVE  TypeOK'
BY EngineTypeStep, SessionTypeStep, ScalarStep, FaultsStep, IndexStep
DEF TypeOK, EngineRec, SessionRec

-----------------------------------------------------------------------------
(* The children and the captured buffers.                                  *)

\* Every call, whether it returns or raises, keeps what the loops rely on for
\* the child it names and for all the others.
LEMMA ChildrenStep ==
  ASSUME IndInv, [Next]_vars
  PROVE  ChildrenInv'
<1> SUFFICES ASSUME NEW e \in Engines PROVE ChildInv(e)'
  BY DEF ChildrenInv
<1>0. /\ engine \in [Engines -> EngineRec] /\ engine[e] \in EngineRec
      /\ i \in Nat /\ e \in Nat /\ 1 <= e /\ e <= Layouts /\ accepted \in Nat
      /\ Layouts \in Nat /\ Len(Routes) \in Nat
      /\ ChildInv(e) /\ IndexInv
  BY BoundFacts DEF IndInv, TypeOK, EngineRec, ChildrenInv
<1> USE DEF Goto, ChildInv, Recoverable, Open
<1>1. CASE Start
  BY <1>0, <1>1 DEF Start
<1>2. CASE BeginEngine
  <2>1. i \in Engines
    BY <1>0, <1>2, BoundFacts DEF BeginEngine, IndexInv
  <2>2. CASE /\ engine[i].tx = "none"
             /\ engine' = [engine EXCEPT ![i] = Opened(i)]
             /\ Goto("begin", i + 1)
    BY <1>0, <1>2, <2>1, <2>2, ChildCalls DEF BeginEngine
  <2>3. CASE UNCHANGED engine /\ Goto("unwind", i - 1)
    BY <1>0, <1>2, <2>3 DEF BeginEngine
  <2> QED
    BY <1>2, <2>2, <2>3 DEF BeginEngine
<1>3. CASE BeginSession
  <2>1. /\ pc = "begin" /\ i > Layouts
        /\ UNCHANGED <<engine, accepted>>
        /\ Goto("begin", i + 1) \/ Goto("unwind", Layouts)
    BY <1>0, <1>3, BoundFacts DEF BeginSession
  <2> QED
    BY <1>0, <2>1
<1>4. CASE Begun
  BY <1>0, <1>4 DEF Begun
<1>5. CASE UnwindEngine
  <2>1. i \in Engines
    BY <1>0, <1>5, BoundFacts DEF UnwindEngine, IndexInv
  <2>2. CASE engine' = [engine EXCEPT ![i] = Restored(i)] /\ Goto("unwind", i - 1)
    BY <1>0, <1>5, <2>1, <2>2, ChildCalls DEF UnwindEngine
  <2>3. CASE engine' = [engine EXCEPT ![i] = Spoiled(i)] /\ Goto("rollback", Layouts)
    BY <1>0, <1>5, <2>1, <2>3, ChildCalls DEF UnwindEngine
  <2> QED
    BY <1>5, <2>2, <2>3 DEF UnwindEngine
<1>6. CASE UnwoundAll
  BY <1>0, <1>6 DEF UnwoundAll
<1>7. CASE CaptureSession
  BY <1>0, <1>7 DEF CaptureSession, Fail
<1>8. CASE Captured
  <2>1. [step |-> accepted, fed |-> {m \in Inbound(e) : m < 1}] = At(accepted)
    <3>1. {m \in Inbound(e) : m < 1} = {}
      BY BoundFacts DEF Inbound
    <3> QED
      BY <3>1 DEF At
  <2> QED
    BY <1>0, <1>8, <2>1 DEF Captured
<1>9. CASE ApplySession
  <2> DEFINE to == Routes[i].target
  <2>1. i \in Sessions /\ to \in Engines /\ accepted' = accepted /\ pc = "apply"
    BY <1>9, ConstantFacts DEF ApplySession
  <2> HIDE DEF to
  <2>2. CASE engine' = [engine EXCEPT ![to] = Spoiled(to)] /\ Goto("rollback", Layouts)
    BY <1>0, <2>1, <2>2, ChildCalls
  <2>3. CASE engine' = [engine EXCEPT ![to] = Fed(to, i)] /\ Goto("apply", i + 1)
    <3>1. CASE e = to
      <4>1. engine'[e] = Fed(e, i)
        BY <1>0, <2>3, <3>1
      <4>2. engine[e].now = [step |-> accepted, fed |-> {m \in Inbound(e) : m < i}]
        BY <1>0, <2>1
      <4>3. engine'[e].now = [step |-> accepted,
                              fed |-> {m \in Inbound(e) : m < i} \cup {i}]
        <5>1. /\ engine[e].now.step = accepted
              /\ engine[e].now.fed = {m \in Inbound(e) : m < i}
          BY <4>2
        <5>2. engine \in [Engines -> EngineRec]
          BY <1>0
        <5>3. Fed(e, i).now = [step |-> engine[e].now.step,
                               fed |-> engine[e].now.fed \cup {i}]
          BY <2>1, <5>2, ChildContents
        <5> QED
          BY <4>1, <5>1, <5>3
      <4>4. {m \in Inbound(e) : m < i} \cup {i} = {m \in Inbound(e) : m < i + 1}
        BY <1>0, <2>1, <3>1, BoundFacts DEF Inbound, to
      <4> QED
        BY <1>0, <2>1, <2>3, <4>1, <4>3, <4>4, ChildContents
    <3>2. CASE e # to
      <4>1. {m \in Inbound(e) : m < i} = {m \in Inbound(e) : m < i + 1}
        BY <1>0, <2>1, <3>2, BoundFacts DEF Inbound, to
      <4> QED
        BY <1>0, <2>1, <2>3, <3>2, <4>1
    <3> QED
      BY <3>1, <3>2
  <2> QED
    BY <1>9, <2>2, <2>3 DEF ApplySession, Fail, to
<1>10. CASE Applied
  <2>1. {m \in Inbound(e) : m < i} = Inbound(e)
    BY <1>0, <1>10, BoundFacts DEF Applied, Inbound
  <2>2. /\ pc' = "advance" /\ i' = 1 /\ UNCHANGED <<engine, accepted>>
        /\ pc = "apply"
    BY <1>10 DEF Applied
  <2>3. engine[e].now = [step |-> accepted, fed |-> Inbound(e)]
    BY <1>0, <2>1, <2>2
  <2> QED
    BY <1>0, <2>2, <2>3
<1>11. CASE AdvanceEngine
  <2>1. i \in Engines /\ accepted' = accepted /\ pc = "advance"
    BY <1>11 DEF AdvanceEngine
  <2>2. CASE engine' = [engine EXCEPT ![i] = Stepped(i)] /\ Goto("advance", i + 1)
    <3>1. CASE e = i
      <4>1. engine'[e] = Stepped(e)
        BY <1>0, <2>2, <3>1
      <4>2. engine[e].now = [step |-> accepted, fed |-> Inbound(e)]
        BY <1>0, <2>1, <3>1
      <4>3. engine'[e].now = [step |-> accepted + 1, fed |-> Inbound(e)]
        BY <1>0, <4>1, <4>2, ChildContents
      <4> QED
        BY <1>0, <2>1, <2>2, <3>1, <4>1, <4>3, ChildContents
    <3>2. CASE e # i
      BY <1>0, <2>1, <2>2, <3>2
    <3> QED
      BY <3>1, <3>2
  <2>3. CASE UNCHANGED engine /\ Goto("reject", 0)
    BY <1>0, <2>1, <2>3
  <2>4. CASE engine' = [engine EXCEPT ![i] = Spoiled(i)] /\ Goto("rollback", Layouts)
    BY <1>0, <2>1, <2>4, ChildCalls
  <2> QED
    BY <1>11, <2>2, <2>3, <2>4 DEF AdvanceEngine, Fail
<1>12. CASE Advanced
  BY <1>0, <1>12 DEF Advanced
<1>13. CASE RejectSessions
  <2>1. /\ pc = "reject" /\ UNCHANGED <<engine, accepted>>
        /\ Goto("undo", Layouts) \/ Goto("rollback", Layouts)
    BY <1>13 DEF RejectSessions, Fail
  <2> QED
    BY <1>0, <2>1
<1>14. CASE UndoEngine
  <2>1. i \in Engines
    BY <1>0, <1>14, BoundFacts DEF UndoEngine, IndexInv
  <2>2. CASE engine' = [engine EXCEPT ![i] = Restored(i)]
    BY <1>0, <1>14, <2>1, <2>2, ChildCalls DEF UndoEngine
  <2>3. CASE engine' = [engine EXCEPT ![i] = Spoiled(i)] /\ failure' = "fail"
    BY <1>0, <1>14, <2>1, <2>3, ChildCalls DEF UndoEngine
  <2> QED
    BY <1>14, <2>2, <2>3 DEF UndoEngine
<1>15. CASE Undone
  BY <1>0, <1>15 DEF Undone
<1>16. CASE BeginAgain
  <2>1. pc = "again" /\ accepted' = accepted
    BY <1>16 DEF BeginAgain
  <2>2. CASE /\ i \in Engines
             /\ engine' = [engine EXCEPT ![i] = Opened(i)]
             /\ Goto("again", i + 1)
    BY <1>0, <2>1, <2>2, ChildCalls
  <2>3. ASSUME NEW bad \in SUBSET (1 .. i - 1), i \in Engines,
               Goto("rollback", Layouts),
               engine' = [x \in Engines |->
                            IF x >= i THEN engine[x]
                            ELSE IF x \in bad THEN Spoiled(x) ELSE Restored(x)]
        PROVE  ChildInv(e)'
    <3>1. \/ e >= i /\ engine'[e] = engine[e]
          \/ e < i /\ engine'[e] \in {Spoiled(e), Restored(e)}
      BY <1>0, <2>3
    <3> QED
      BY <1>0, <2>1, <2>3, <3>1, ChildCalls
  <2>4. CASE UNCHANGED engine /\ Goto("rollback", Layouts)
    BY <1>0, <2>1, <2>4
  <2> QED
    BY <1>16, <2>2, <2>3, <2>4 DEF BeginAgain, Fail
<1>17. CASE CommitEngine
  <2>1. i \in Engines /\ pc = "commit" /\ accepted' = accepted
    BY <1>0, <1>17, BoundFacts DEF CommitEngine, IndexInv
  <2>2. CASE engine' = [engine EXCEPT ![i] = Committed(i)] /\ Goto("commit", i + 1)
    BY <1>0, <2>1, <2>2, ChildCalls
  <2>3. CASE UNCHANGED engine /\ Goto("rollback", Layouts)
    BY <1>0, <2>1, <2>3
  <2> QED
    BY <1>17, <2>2, <2>3 DEF CommitEngine, Fail
<1>18. CASE AcceptConsumers
  BY <1>0, <1>18 DEF AcceptConsumers, Fail
<1>19. CASE FinalizeEngine
  <2>1. /\ i \in Engines /\ pc = "finalize" /\ accepted' = accepted
        /\ engine' = [engine EXCEPT ![i] = Closed(i)]
        /\ Goto("finalize", i + 1)
    BY <1>0, <1>19, BoundFacts DEF FinalizeEngine, IndexInv
  <2>2. CASE e = i
    <3>1. engine[e].now = [step |-> accepted + 1, fed |-> Inbound(e)]
      BY <1>0, <2>1, <2>2
    <3>2. engine'[e] = Closed(e) /\ engine[e].now.step = accepted + 1
      BY <1>0, <2>1, <2>2, <3>1
    <3>3. engine \in [Engines -> EngineRec]
      BY <1>0
    <3>4. engine'[e].tx = "none" /\ engine'[e].now = At(accepted + 1)
      BY <3>2, <3>3, ChildContents
    <3> QED
      BY <1>0, <2>1, <2>2, <3>4
  <2>3. CASE e # i
    BY <1>0, <2>1, <2>3
  <2> QED
    BY <2>2, <2>3
<1>20. CASE Finalized
  BY <1>0, <1>20 DEF Finalized
<1>21. CASE RollbackEngine
  <2>1. i \in Engines
    BY <1>0, <1>21, BoundFacts DEF RollbackEngine, IndexInv
  <2>2. CASE UNCHANGED engine /\ engine[i].tx = "none"
    BY <1>0, <1>21, <2>1, <2>2 DEF RollbackEngine
  <2>3. CASE engine' = [engine EXCEPT ![i] = Restored(i)]
    BY <1>0, <1>21, <2>1, <2>3, ChildCalls DEF RollbackEngine
  <2>4. CASE engine' = [engine EXCEPT ![i] = Spoiled(i)]
    BY <1>0, <1>21, <2>1, <2>4, ChildCalls DEF RollbackEngine
  <2> QED
    BY <1>21, <2>2, <2>3, <2>4 DEF RollbackEngine
<1>22. CASE RolledBack
  BY <1>0, <1>22 DEF RolledBack
<1>23. CASE UNCHANGED vars
  BY <1>0, <1>23 DEF vars
<1> QED
  BY <1>1, <1>2, <1>3, <1>4, <1>5, <1>6, <1>7, <1>8, <1>9, <1>10, <1>11,
     <1>12, <1>13, <1>14, <1>15, <1>16, <1>17, <1>18, <1>19, <1>20, <1>21,
     <1>22, <1>23 DEF Next

\* Every source is captured before anything is written.
LEMMA HeldStep ==
  ASSUME IndInv, [Next]_vars
  PROVE  HeldInv'
<1> SUFFICES ASSUME NEW m \in Sessions,
                    (pc = "capture" /\ m < i)' \/ (pc \in {"apply", "advance"})'
             PROVE  (session[m].held = At(accepted))'
  BY DEF HeldInv
<1>0. /\ session \in [Sessions -> SessionRec] /\ session[m] \in SessionRec
      /\ HeldInv /\ IndexInv /\ i \in Nat /\ m \in Nat /\ m >= 1 /\ m <= Len(Routes)
      /\ Len(Routes) \in Nat
  BY BoundFacts DEF IndInv, TypeOK, SessionRec
<1> USE DEF Goto
<1>1. CASE Begun
  BY <1>0, <1>1 DEF Begun
<1>2. CASE CaptureSession
  <2>1. /\ i \in Sessions /\ pc = "capture" /\ accepted' = accepted /\ i' = i + 1
        /\ session' = [session EXCEPT ![i].captured = attempt,
                                      ![i].held = engine[Routes[i].source].now]
    BY <1>2 DEF CaptureSession, Fail
  <2>2. engine[Routes[i].source].now = At(accepted)
    BY <2>1, ConstantFacts DEF IndInv, ChildrenInv, ChildInv, Open
  <2>3. CASE m = i
    BY <1>0, <2>1, <2>2, <2>3 DEF SessionRec
  <2>4. CASE m # i
    <3>1. session'[m] = session[m] /\ m < i
      BY <1>0, <2>1, <2>4, BoundFacts, <1>2 DEF CaptureSession, Fail
    <3> QED
      BY <1>0, <2>1, <3>1 DEF HeldInv
  <2> QED
    BY <2>3, <2>4
<1>3. CASE Captured
  BY <1>0, <1>3 DEF Captured, HeldInv
<1>4. CASE ApplySession
  <2>1. /\ i \in Sessions /\ pc = "apply" /\ accepted' = accepted
        /\ session' \in {session, [session EXCEPT ![i].applied = TRUE]}
    BY <1>4 DEF ApplySession, Fail
  <2>2. session'[m].held = session[m].held
    BY <1>0, <2>1 DEF SessionRec
  <2> QED
    BY <2>1, <2>2 DEF IndInv, HeldInv
<1>5. CASE Applied \/ AdvanceEngine
  <2>1. pc \in {"apply", "advance"} /\ UNCHANGED <<session, accepted>>
    BY <1>5 DEF Applied, AdvanceEngine
  <2> QED
    BY <1>0, <2>1 DEF HeldInv
<1>6. CASE UNCHANGED vars
  BY <1>0, <1>6 DEF vars, HeldInv
<1>7. Begun \/ CaptureSession \/ Captured \/ ApplySession \/ Applied \/ AdvanceEngine
      \/ UNCHANGED vars
  BY DEF Next, Fail, Start, BeginEngine, BeginSession, UnwindEngine, UnwoundAll,
         Advanced, RejectSessions, UndoEngine, Undone, BeginAgain, CommitEngine,
         AcceptConsumers, FinalizeEngine, Finalized, RollbackEngine, RolledBack
<1> QED
  BY <1>1, <1>2, <1>3, <1>4, <1>5, <1>6, <1>7

-----------------------------------------------------------------------------
(* The theorems.                                                           *)

\* The invariant holds at the start.
LEMMA InitIndInv == Init => IndInv
<1> SUFFICES ASSUME Init PROVE IndInv
  OBVIOUS
<1>1. TypeOK
  BY TypeInit
<1>2. IndexInv /\ HeldInv
  BY DEF Init, IndexInv, HeldInv
<1>3. ChildrenInv
  BY DEF Init, ChildrenInv, ChildInv, Recoverable
<1> QED
  BY <1>1, <1>2, <1>3 DEF IndInv

\* The invariant holds in every state of every behaviour.
THEOREM Invariance == Spec => []IndInv
<1>1. IndInv /\ [Next]_vars => IndInv'
  BY TypeStep, IndexStep, ChildrenStep, HeldStep DEF IndInv
<1> QED
  BY InitIndInv, <1>1, PTL DEF Spec

\* The variables of the executor always have their types.
THEOREM TypeCorrect == Spec => []TypeOK
<1>1. IndInv => TypeOK
  BY DEF IndInv
<1> QED
  BY Invariance, <1>1, PTL

\* For any number of children, mappings and failing calls, nested ones
\* included: between two steps every child holds the accepted state or owns a
\* snapshot of exactly that state (_rollback_step_transaction).
THEOREM ChildrenTogether == Spec => []ChildrenStayTogether
<1>1. IndInv => ChildrenStayTogether
  BY DEF IndInv, ChildrenInv, ChildInv, Recoverable, ChildrenStayTogether
<1> QED
  BY Invariance, <1>1, PTL

\* Whatever was rejected before, a step that reaches its commit has advanced
\* every child once and applied every mapping once (step).
THEOREM FedOnce == Spec => []FedOncePerStep
<1>1. IndInv => FedOncePerStep
  BY DEF IndInv, ChildrenInv, ChildInv, FedOncePerStep
<1> QED
  BY Invariance, <1>1, PTL

\* For any graph of mappings, cyclic or not, what is transferred is the
\* accepted state of the source (step).
THEOREM SourcesAccepted == Spec => []SourcesAreAccepted
<1>1. IndInv => SourcesAreAccepted
  BY DEF IndInv, HeldInv, SourcesAreAccepted
<1> QED
  BY Invariance, <1>1, PTL
================================================================================
