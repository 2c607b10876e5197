------------------------ MODULE CheckpointRestoreProofs ------------------------
(***************************************************************************)
(* Proofs about CheckpointRestore, for any set of ranks, any number of     *)
(* engines on each, and any number of restarts and of local failures.      *)
(***************************************************************************)
EXTENDS CheckpointRestore, TLAPS

-----------------------------------------------------------------------------
(* The inductive invariant: what a rank holds at each stage of a call.     *)

Untouched == {"idle", "outerPrepare"} \cup RootStages \cup LocalChecks

\* The executor holds the accepted state; a stuck engine has its snapshot.
Clean(r) ==
    /\ guard[r] = Absent
    /\ composite[r] = accepted
    /\ \A e \in Engines : /\ python[r][e] = accepted
                          /\ tx[r][e] = "none" => native[r][e] = accepted

\* The executor can go back to the accepted state.
Held(r) ==
    /\ guard[r] = accepted
    /\ \A e \in Engines : tx[r][e] # "none" /\ handle[r][e] = accepted

\* The executor holds the state of the checkpoint that is being restored.
New(r) ==
    /\ composite[r] = calls
    /\ \A e \in Engines : native[r][e] = calls /\ python[r][e] = calls

ExecutorInv(r) ==
    /\ stage[r] \in Untouched => Clean(r)
    /\ stage[r] = "begin" =>
          IF arrived[r] /\ brought[r] = "same" THEN Held(r) ELSE Clean(r)
    /\ stage[r] = "beginRollback" => Clean(r) \/ (Held(r) /\ ~arrived[r])
    /\ stage[r] \in {"apply", "outerApply", "commit", "outerRollback"} => Held(r)
    /\ stage[r] = "rollback" => IF arrived[r] THEN Clean(r) ELSE Held(r)
    /\ stage[r] = "apply" /\ arrived[r] /\ brought[r] # "error" => New(r)
    /\ stage[r] \in {"outerApply", "commit", "finalize"} => New(r)

\* A snapshot is a snapshot of the accepted state, in an engine that is stuck
\* since an earlier call too.
SavedInv(r) ==
    stage[r] # "finalize" => \A e \in Engines :
        tx[r][e] # "none" => saved[r][e] = accepted

OuterIs(r, state) == \A p \in OuterParts : outer[r][p] = state

OuterClean(r) == \A p \in OuterParts \ unrestored[r] : outer[r][p] = accepted

OuterKept(r) == \A p \in OuterParts :
    /\ outerSaved[r][p] # Absent
    /\ p \notin unrestored[r] => outerSaved[r][p] = accepted

OuterInv(r) ==
    /\ stage[r] \in Untouched \cup {"begin", "beginRollback", "apply", "rollback"}
          => OuterClean(r)
    /\ stage[r] = "outerApply" /\ ~arrived[r] => OuterClean(r)
    /\ stage[r] = "outerRollback" /\ arrived[r] => OuterClean(r)
    /\ stage[r] = "outerApply" /\ arrived[r] /\ brought[r] = "same" => OuterIs(r, calls)
    /\ stage[r] \in {"commit", "finalize"} => OuterIs(r, calls)
    /\ stage[r] = "outerPrepare" /\ arrived[r] /\ brought[r] = "same" => OuterKept(r)
    /\ stage[r] \in {"begin", "apply", "outerApply", "commit", "outerRollback"}
          => OuterKept(r)

\* The rows a rank can bring, and the end of a call.
RowInv(r) ==
    /\ arrived[r] => stage[r] \notin {"idle", "finalize"}
    /\ arrived[r] /\ brought[r] = "other" => stage[r] \in {"target", "policy", "apply"}
    /\ stage[r] = "finalize" => accepted = calls
    /\ stage[r] \in {"outerPrepare", "outerApply", "outerRollback"} => outerActive

RankInv(r) ==
    /\ ExecutorInv(r)
    /\ SavedInv(r)
    /\ outerActive => OuterInv(r)
    /\ RowInv(r)

RanksInv == \A r \in Ranks : RankInv(r)

IndInv == TypeOK /\ RanksInv

-----------------------------------------------------------------------------
(* Types.                                                                  *)

\* An absent snapshot is no state.
LEMMA StateFacts ==
  ASSUME TypeOK
  PROVE  /\ accepted \in States /\ calls \in States /\ Torn \in States
         /\ 0 \in States /\ Absent \in Snapshots
         /\ States \subseteq Snapshots
         /\ accepted # Absent /\ calls # Absent
         /\ MaxCalls \in Nat /\ MaxFaults \in Nat
BY RestoreAssumption DEF TypeOK, States, Snapshots, Torn, Absent

\* A run starts well typed.
LEMMA TypeInit == Init => TypeOK
BY RestoreAssumption
DEF Init, TypeOK, Everywhere, OnEngines, OnParts, Stages, States, Snapshots, Torn,
    Absent

\* The variables a stage and its exchange are made of.
LEMMA ControlTypeStep ==
  ASSUME TypeOK, [Next]_vars
  PROVE  /\ stage' \in [Ranks -> Stages]
         /\ arrived' \in [Ranks -> BOOLEAN]
         /\ brought' \in [Ranks -> {"same", "other", "error"}]
         /\ calls' \in 0 .. MaxCalls
         /\ outerActive' \in BOOLEAN
         /\ accepted' \in 0 .. MaxCalls
         /\ faults' \in 0 .. MaxFaults
<1>0. /\ stage \in [Ranks -> Stages] /\ arrived \in [Ranks -> BOOLEAN]
      /\ brought \in [Ranks -> {"same", "other", "error"}]
      /\ calls \in 0 .. MaxCalls /\ accepted \in 0 .. MaxCalls
      /\ faults \in 0 .. MaxFaults /\ outerActive \in BOOLEAN
  BY DEF TypeOK
<1>1. CASE Restart
  <2>1. PICK s \in Stages : Leave(s)
    BY <1>1 DEF Restart, Stages, RootStages, LocalChecks
  <2> QED
    BY <1>0, <1>1, <2>1, RestoreAssumption DEF Restart, Leave, Everywhere, NoFault
<1>2. CASE Exchange
  <2>1. PICK s \in Stages : Leave(s)
    <3>1. CASE Checked
      BY <3>1 DEF Checked, Decide, AfterCheck, Stages, RootStages, LocalChecks
    <3>2. CASE \/ OuterPrepared \/ Begun \/ Applied \/ OuterPublished \/ Committed
               \/ RolledBack
      BY <3>2 DEF OuterPrepared, Begun, Applied, OuterPublished, Committed,
                  RolledBack, Decide, Undo, Stages, UndoStages
    <3> QED
      BY <1>2, <3>1, <3>2 DEF Exchange
  <2>2. /\ calls' = calls /\ outerActive' = outerActive /\ faults' = faults
        /\ accepted' = accepted \/ accepted' = calls
    BY <1>2 DEF Exchange, Checked, OuterPrepared, Begun, Applied, OuterPublished,
                Committed, RolledBack, NoFault
  <2> QED
    BY <1>0, <2>1, <2>2 DEF Leave, Everywhere
<1>3. CASE \E r \in Ranks : Local(r)
  <2>1. PICK r \in Ranks : Local(r)
    BY <1>3
  <2>2. /\ \/ Arrive(r, "same") \/ Arrive(r, "other") \/ Arrive(r, "error")
           \/ /\ stage' = [stage EXCEPT ![r] = "idle"]
              /\ UNCHANGED <<arrived, brought>>
        /\ UNCHANGED <<calls, outerActive, accepted>>
        /\ Fault \/ NoFault
    BY <2>1 DEF Local, Check, PrepareOuter, Begin, BeginFails, Apply, PublishOuter,
                Commit, Finalize, Rollback, RollbackOuter
  <2>3. /\ stage' \in [Ranks -> Stages] /\ arrived' \in [Ranks -> BOOLEAN]
        /\ brought' \in [Ranks -> {"same", "other", "error"}]
    <3>1. "idle" \in Stages
      BY DEF Stages
    <3> QED
      BY <1>0, <2>2, <3>1 DEF Arrive
  <2>4. faults' \in 0 .. MaxFaults
    BY <1>0, <2>2, RestoreAssumption DEF Fault, NoFault
  <2> QED
    BY <1>0, <2>2, <2>3, <2>4
<1>4. CASE UNCHANGED vars
  BY <1>0, <1>4 DEF vars, control
<1> QED
  BY <1>1, <1>2, <1>3, <1>4 DEF Next

-----------------------------------------------------------------------------
(* A rank works alone between two exchanges.                               *)

\* The part of the state that belongs to rank r, before and after a step.
Kept(r) ==
    /\ stage'[r] = stage[r] /\ arrived'[r] = arrived[r] /\ brought'[r] = brought[r]
    /\ native'[r] = native[r] /\ tx'[r] = tx[r] /\ saved'[r] = saved[r]
    /\ python'[r] = python[r] /\ handle'[r] = handle[r]
    /\ composite'[r] = composite[r] /\ guard'[r] = guard[r]
    /\ outer'[r] = outer[r] /\ outerSaved'[r] = outerSaved[r]
    /\ unrestored'[r] = unrestored[r]

\* No local part writes what belongs to another rank.
LEMMA LocalFrame ==
  ASSUME TypeOK, NEW q \in Ranks, Local(q)
  PROVE  /\ UNCHANGED <<calls, outerActive, accepted>>
         /\ \A r \in Ranks \ {q} : Kept(r)
<1> USE DEF TypeOK, Kept, engines, coordinator, envelope, Arrive
<1>1. CASE Check(q)
  BY <1>1 DEF Check
<1>2. CASE PrepareOuter(q)
  BY <1>2 DEF PrepareOuter
<1>3. CASE Begin(q)
  BY <1>3 DEF Begin
<1>4. CASE BeginFails(q)
  BY <1>4 DEF BeginFails
<1>5. CASE Apply(q)
  BY <1>5 DEF Apply
<1>6. CASE PublishOuter(q)
  BY <1>6 DEF PublishOuter
<1>7. CASE Commit(q)
  BY <1>7 DEF Commit
<1>8. CASE Finalize(q)
  BY <1>8 DEF Finalize
<1>9. CASE Rollback(q)
  BY <1>9 DEF Rollback, RollbackExecutor, DropHandles
<1>10. CASE RollbackOuter(q)
  BY <1>10 DEF RollbackOuter
<1> QED
  BY <1>1, <1>2, <1>3, <1>4, <1>5, <1>6, <1>7, <1>8, <1>9, <1>10 DEF Local

\* A restart and an exchange move all ranks and write nothing else.
LEMMA ExchangeFrame ==
  ASSUME Restart \/ Exchange
  PROVE  UNCHANGED <<native, tx, saved, python, handle, composite, guard, outer,
                     outerSaved, unrestored, outerActive>>
BY DEF Restart, Exchange, Checked, OuterPrepared, Begun, Applied, OuterPublished,
       Committed, RolledBack, engines, coordinator, envelope

\* The state of the engines, the composite and the envelope.
DataOK ==
    /\ native \in [Ranks -> [Engines -> States]]
    /\ tx \in [Ranks -> [Engines -> {"none", "open", "committed"}]]
    /\ saved \in [Ranks -> [Engines -> Snapshots]]
    /\ python \in [Ranks -> [Engines -> States]]
    /\ handle \in [Ranks -> [Engines -> Snapshots]]
    /\ composite \in [Ranks -> States]
    /\ guard \in [Ranks -> Snapshots]
    /\ outer \in [Ranks -> [OuterParts -> States]]
    /\ outerSaved \in [Ranks -> [OuterParts -> Snapshots]]
    /\ unrestored \in [Ranks -> SUBSET OuterParts]

\* A rollback writes states, since it happens only over complete snapshots.
LEMMA DataTypeStep ==
  ASSUME IndInv, [Next]_vars
  PROVE  DataOK'
<1>0. TypeOK /\ DataOK
  BY DEF IndInv, TypeOK, DataOK
<1> USE StateFacts DEF engines, coordinator, envelope
<1>1. CASE Restart \/ Exchange \/ UNCHANGED vars
  BY <1>0, <1>1, ExchangeFrame DEF DataOK, vars
<1>2. ASSUME NEW r \in Ranks, Local(r)
      PROVE  DataOK'
  <2>0. RankInv(r)
    BY DEF IndInv, RanksInv
  <2>1. CASE Check(r)
    BY <1>0, <2>1 DEF Check, DataOK
  <2>2. CASE PrepareOuter(r)
    <3>1. outer[r] \in [OuterParts -> Snapshots]
      BY <1>0 DEF DataOK
    <3>2. /\ outerSaved' \in {outerSaved, [outerSaved EXCEPT ![r] = outer[r]]}
          /\ UNCHANGED <<native, tx, saved, python, handle, composite, guard,
                         outer, unrestored>>
      BY <2>2 DEF PrepareOuter
    <3> QED
      BY <1>0, <3>1, <3>2 DEF DataOK
  <2>3. CASE Begin(r)
    BY <1>0, <2>3 DEF Begin, DataOK
  <2>4. CASE BeginFails(r)
    BY <1>0, <2>4 DEF BeginFails, DataOK
  <2>5. CASE Apply(r)
    <3> DEFINE Reached(old, k, written) ==
                 [e \in Engines |-> CASE e < k -> calls
                                      [] e = k -> IF written THEN Torn ELSE old[e]
                                      [] e > k -> old[e]]
    <3>0. ASSUME NEW old \in [Engines -> States],
                 NEW k \in 1 .. NEngines + 1, NEW written \in BOOLEAN
          PROVE  Reached(old, k, written) \in [Engines -> States]
      <4>1. \A e \in Engines : e < k \/ e = k \/ e > k
        BY RestoreAssumption DEF Engines
      <4>2. ASSUME NEW e \in Engines
            PROVE  Reached(old, k, written)[e] \in States
        <5>1. CASE e < k
          BY <1>0, <5>1, RestoreAssumption DEF Engines
        <5>2. CASE e = k
          BY <1>0, <5>2, RestoreAssumption DEF Engines
        <5>3. CASE e > k
          BY <1>0, <5>3, RestoreAssumption DEF Engines
        <5> QED
          BY <4>1, <5>1, <5>2, <5>3
      <4> QED
        BY <4>2
    <3>2. /\ native' \in [Ranks -> [Engines -> States]]
          /\ python' \in [Ranks -> [Engines -> States]]
      <4>1. CASE /\ native' = [native EXCEPT ![r] = [e \in Engines |-> calls]]
                 /\ python' = [python EXCEPT ![r] = [e \in Engines |-> calls]]
        BY <1>0, <4>1 DEF DataOK
      <4>2. ASSUME NEW k \in 1 .. NEngines + 1, NEW written \in BOOLEAN,
                   native' = [native EXCEPT ![r] = Reached(@, k, written)],
                   python' = [python EXCEPT ![r] = Reached(@, k, written)]
            PROVE  /\ native' \in [Ranks -> [Engines -> States]]
                   /\ python' \in [Ranks -> [Engines -> States]]
        <5> HIDE DEF Reached
        <5>0. native[r] \in [Engines -> States] /\ python[r] \in [Engines -> States]
          BY <1>0 DEF DataOK
        <5>1. /\ Reached(native[r], k, written) \in [Engines -> States]
              /\ Reached(python[r], k, written) \in [Engines -> States]
          BY <3>0, <5>0
        <5> QED
          BY <1>0, <4>2, <5>1 DEF DataOK
      <4> QED
        BY <2>5, <4>1, <4>2 DEF Apply
    <3>3. composite' \in [Ranks -> States]
      BY <1>0, <2>5 DEF Apply, DataOK
    <3>4. UNCHANGED <<tx, saved, handle, guard, outer, outerSaved, unrestored>>
      BY <2>5 DEF Apply
    <3> QED
      BY <1>0, <3>2, <3>3, <3>4 DEF DataOK
  <2>6. CASE PublishOuter(r)
    <3>0. PICK row \in [OuterParts -> States] : outer' = [outer EXCEPT ![r] = row]
      <4>1. CASE outer' = [outer EXCEPT ![r] = [p \in OuterParts |-> calls]]
        BY <1>0, <4>1
      <4>2. ASSUME NEW k \in OuterParts, NEW written \in BOOLEAN,
                   outer' = [outer EXCEPT ![r] =
                               [p \in OuterParts |->
                                  CASE p < k -> calls
                                    [] p = k -> IF written THEN Torn ELSE @[p]
                                    [] p > k -> @[p]]]
            PROVE  \E row \in [OuterParts -> States] :
                     outer' = [outer EXCEPT ![r] = row]
        <5> DEFINE row == [p \in OuterParts |->
                             CASE p < k -> calls
                               [] p = k -> IF written THEN Torn ELSE outer[r][p]
                               [] p > k -> outer[r][p]]
        <5>1. \A p \in OuterParts : p < k \/ p = k \/ p > k
          BY DEF OuterParts, Cursors, Diagnostics, Identity
        <5>2. \A p \in OuterParts : outer[r][p] \in States
          BY <1>0 DEF DataOK
        <5>3. row \in [OuterParts -> States]
          BY <1>0, <5>1, <5>2
        <5>4. outer' = [outer EXCEPT ![r] = row]
          BY <1>0, <4>2 DEF DataOK
        <5> QED
          BY <5>3, <5>4
      <4> QED
        BY <2>6, <4>1, <4>2 DEF PublishOuter
    <3>1. outer' \in [Ranks -> [OuterParts -> States]]
      BY <1>0, <3>0 DEF DataOK
    <3>2. UNCHANGED <<native, tx, saved, python, handle, composite, guard,
                      outerSaved, unrestored>>
      BY <2>6 DEF PublishOuter
    <3> QED
      BY <1>0, <3>1, <3>2 DEF DataOK
  <2>7. CASE Commit(r)
    <3>1. tx' \in [Ranks -> [Engines -> {"none", "open", "committed"}]]
      <4>1. CASE tx' = [tx EXCEPT ![r] = [e \in Engines |-> "committed"]]
        BY <1>0, <4>1 DEF DataOK
      <4>2. ASSUME NEW k \in Engines,
                   tx' = [tx EXCEPT ![r] =
                            [e \in Engines |-> IF e < k THEN "committed" ELSE @[e]]]
            PROVE  tx' \in [Ranks -> [Engines -> {"none", "open", "committed"}]]
        BY <1>0, <4>2 DEF DataOK
      <4> QED
        BY <2>7, <4>1, <4>2 DEF Commit
    <3>2. UNCHANGED <<native, saved, python, handle, composite, guard, outer,
                      outerSaved, unrestored>>
      BY <2>7 DEF Commit
    <3> QED
      BY <1>0, <3>1, <3>2 DEF DataOK
  <2>8. CASE Finalize(r)
    BY <1>0, <2>8 DEF Finalize, DataOK
  <2>9. CASE Rollback(r)
    <3>1. CASE UNCHANGED <<engines, coordinator>>
      BY <1>0, <2>9, <3>1 DEF Rollback, DataOK
    <3>2. CASE /\ guard[r] # Absent
               /\ \E Stuck \in SUBSET Engines : RollbackExecutor(r, Stuck)
      <4>1. Held(r) /\ SavedInv(r) /\ stage[r] # "finalize"
        BY <2>0, <2>9, <3>2 DEF Rollback, RankInv, ExecutorInv, Clean, Doing
      <4>2. /\ guard[r] \in States
            /\ \A e \in Engines : saved[r][e] \in States /\ handle[r][e] \in States
        BY <1>0, <4>1 DEF Held, SavedInv
      <4>3. handle[r] \in [Engines -> States]
        BY <1>0, <4>2 DEF DataOK
      <4>4. PICK Stuck \in SUBSET Engines : RollbackExecutor(r, Stuck)
        BY <3>2
      <4>5. /\ tx' \in [Ranks -> [Engines -> {"none", "open", "committed"}]]
            /\ saved' \in [Ranks -> [Engines -> Snapshots]]
        BY <1>0, <4>4 DEF RollbackExecutor, DataOK
      <4>6. native' \in [Ranks -> [Engines -> States]]
        BY <1>0, <4>2, <4>4 DEF RollbackExecutor, DataOK
      <4>7. /\ python' \in [Ranks -> [Engines -> States]]
            /\ composite' \in [Ranks -> States]
            /\ guard' \in [Ranks -> Snapshots]
        BY <1>0, <4>2, <4>3, <4>4 DEF RollbackExecutor, DataOK
      <4>8. handle' \in [Ranks -> [Engines -> Snapshots]]
        BY <1>0, <4>4 DEF RollbackExecutor, DropHandles, DataOK
      <4> QED
        BY <1>0, <2>9, <4>5, <4>6, <4>7, <4>8 DEF Rollback, DataOK
    <3> QED
      BY <2>9, <3>1, <3>2 DEF Rollback, NothingToUndo
  <2>10. CASE RollbackOuter(r)
    <3>1. \A p \in OuterParts : outerSaved[r][p] # Absent
      BY <2>0, <2>10 DEF RollbackOuter, Doing, RankInv, RowInv, OuterInv, OuterKept
    <3>2. \A p \in OuterParts : outerSaved[r][p] \in States
      BY <1>0, <3>1 DEF DataOK, Snapshots
    <3>3. outer' \in [Ranks -> [OuterParts -> States]]
      BY <1>0, <2>10, <3>2 DEF RollbackOuter, DataOK
    <3>4. unrestored' \in [Ranks -> SUBSET OuterParts]
      BY <1>0, <2>10 DEF RollbackOuter, DataOK, OuterParts
    <3>5. UNCHANGED <<native, tx, saved, python, handle, composite, guard, outerSaved>>
      BY <2>10 DEF RollbackOuter
    <3> QED
      BY <1>0, <3>3, <3>4, <3>5 DEF DataOK
  <2> QED
    BY <1>2, <2>1, <2>2, <2>3, <2>4, <2>5, <2>6, <2>7, <2>8, <2>9, <2>10 DEF Local
<1> QED
  BY <1>1, <1>2 DEF Next

\* Every step keeps the types.
LEMMA TypeStep ==
  ASSUME IndInv, [Next]_vars
  PROVE  TypeOK'
BY ControlTypeStep, DataTypeStep DEF IndInv, TypeOK, DataOK

-----------------------------------------------------------------------------
(* The exchanges.                                                          *)

\* All ranks leave an exchange in the same direction, and what every one of
\* them has done allows that direction.
LEMMA ExchangeStep ==
  ASSUME IndInv, Restart \/ Exchange, NEW r \in Ranks
  PROVE  RankInv(r)'
<1>0. /\ TypeOK /\ RankInv(r)
      /\ UNCHANGED <<native, tx, saved, python, handle, composite, guard, outer,
                     outerSaved, unrestored, outerActive>>
  BY ExchangeFrame DEF IndInv, RanksInv
<1> USE DEF RankInv, ExecutorInv, SavedInv, OuterInv, RowInv, Untouched, RootStages,
            LocalChecks
<1>1. CASE Restart
  <2>1. PICK s \in {"selection", "target"} : Leave(s)
    BY <1>1 DEF Restart
  <2>2. stage[r] = "idle" /\ accepted' = accepted
    BY <1>1 DEF Restart
  <2>3. stage'[r] \in {"selection", "target"} /\ ~arrived'[r] 
    BY <2>1 DEF Leave, Everywhere
  <2> QED
    BY <1>0, <2>2, <2>3 DEF Clean, OuterClean
<1>2. ASSUME Exchange PROVE RankInv(r)'
  <2>1. calls' = calls
    BY <1>2 DEF Exchange, Checked, OuterPrepared, Begun, Applied, OuterPublished,
                Committed, RolledBack
  <2>2. \A s : Leave(s) => stage'[r] = s /\ ~arrived'[r] /\ brought'[r] = "same"
    BY DEF Leave, Everywhere
  <2>3. Agreed => brought[r] \in {"same", "other"}
    BY DEF Agreed
  <2> USE DEF Clean, Held, New, OuterClean, OuterKept, OuterIs
  <2>4. CASE Checked
    BY <1>0, <2>1, <2>2, <2>4 DEF Checked, Decide, Met, AfterCheck
  <2>5. CASE OuterPrepared
    BY <1>0, <2>1, <2>2, <2>3, <2>5 DEF OuterPrepared, Decide, Met
  <2>6. CASE Begun
    BY <1>0, <2>1, <2>2, <2>3, <2>6 DEF Begun, Decide, Met
  <2>7. CASE Applied
    BY <1>0, <2>1, <2>2, <2>3, <2>7 DEF Applied, Decide, Met
  <2>8. CASE OuterPublished
    BY <1>0, <2>1, <2>2, <2>3, <2>8 DEF OuterPublished, Decide, Met
  <2>9. CASE Committed
    BY <1>0, <2>1, <2>2, <2>3, <2>9 DEF Committed, Decide, Met, Undo
  <2>10. CASE RolledBack
    BY <1>0, <2>1, <2>2, <2>3, <2>10 DEF RolledBack, Decide, Met
  <2> QED
    BY <1>2, <2>4, <2>5, <2>6, <2>7, <2>8, <2>9, <2>10 DEF Exchange
<1> QED
  BY <1>1, <1>2

-----------------------------------------------------------------------------
(* The local parts.                                                        *)

\* The local part of a stage, wherever it fails, leaves its rank ready for
\* both directions of the exchange that follows.
LEMMA LocalStep ==
  ASSUME IndInv, NEW r \in Ranks, Local(r)
  PROVE  RankInv(r)'
<1>0. /\ TypeOK /\ DataOK
      /\ stage \in [Ranks -> Stages] /\ arrived \in [Ranks -> BOOLEAN]
      /\ brought \in [Ranks -> {"same", "other", "error"}]
  BY DEF IndInv, TypeOK, DataOK
<1>i. RankInv(r) /\ UNCHANGED <<calls, outerActive, accepted>>
  BY LocalFrame DEF IndInv, RanksInv
<1>e. ASSUME UNCHANGED <<engines, coordinator>>
      PROVE  /\ Clean(r)' <=> Clean(r)
             /\ Held(r)' <=> Held(r)
             /\ New(r)' <=> New(r)
             /\ tx' = tx /\ saved' = saved
  BY <1>i, <1>e DEF Clean, Held, New, engines, coordinator
<1>o. ASSUME UNCHANGED envelope
      PROVE  /\ OuterClean(r)' <=> OuterClean(r)
             /\ OuterKept(r)' <=> OuterKept(r)
             /\ OuterIs(r, calls)' <=> OuterIs(r, calls)
  BY <1>i, <1>o DEF OuterClean, OuterKept, OuterIs, envelope
<1> USE DEF RankInv, ExecutorInv, SavedInv, OuterInv, RowInv, Untouched, RootStages,
            LocalChecks
<1>1. CASE Check(r)
  <2>1. PICK s \in RootStages \cup LocalChecks :
           /\ Doing(r, s)
           /\ \/ Arrive(r, "same") \/ Arrive(r, "error")
              \/ s \in {"target", "policy"} /\ Arrive(r, "other")
    BY <1>1 DEF Check
  <2>2. UNCHANGED <<engines, coordinator>> /\ UNCHANGED envelope
    BY <1>1 DEF Check
  <2>3. /\ stage[r] = s /\ stage'[r] = s /\ arrived'[r] = TRUE
        /\ brought'[r] = "other" => s \in {"target", "policy"}
    BY <1>0, <2>1 DEF Doing, Arrive
  <2> QED
    BY <1>i, <1>e, <1>o, <2>2, <2>3
<1>2. CASE PrepareOuter(r)
  <2>0. Doing(r, "outerPrepare") /\ UNCHANGED <<engines, coordinator>>
    BY <1>2 DEF PrepareOuter
  <2>1. CASE outerSaved' = [outerSaved EXCEPT ![r] = outer[r]] /\ Arrive(r, "same")
    <3>1. /\ outerSaved'[r] = outer[r]
          /\ outer'[r] = outer[r] /\ unrestored'[r] = unrestored[r]
      BY <1>0, <1>2, <2>1 DEF PrepareOuter, DataOK
    <3>2. Absent \notin States
      BY RestoreAssumption DEF States, Absent, Torn
    <3>3. \A p \in OuterParts : outer[r][p] # Absent
      BY <1>0, <3>2 DEF DataOK
    <3>4. outerActive => OuterClean(r)
      BY <1>i, <2>0 DEF Doing
    <3>5. outerActive => OuterClean(r)' /\ OuterKept(r)'
      BY <1>i, <3>1, <3>3, <3>4 DEF OuterClean, OuterKept
    <3>c. /\ stage[r] = "outerPrepare" /\ stage'[r] = "outerPrepare" /\ ~arrived[r]
          /\ arrived'[r] = TRUE /\ brought'[r] = "same"
      BY <1>0, <2>0, <2>1 DEF Doing, Arrive
    <3> QED
      BY <1>i, <1>e, <2>0, <3>5, <3>c
  <2>2. CASE UNCHANGED envelope /\ Arrive(r, "error")
    <3>c. /\ stage[r] = "outerPrepare" /\ stage'[r] = "outerPrepare" /\ ~arrived[r]
          /\ arrived'[r] = TRUE /\ brought'[r] = "error"
      BY <1>0, <2>0, <2>2 DEF Doing, Arrive
    <3> QED
      BY <1>i, <1>e, <1>o, <2>0, <2>2, <3>c
  <2> QED
    BY <1>2, <2>1, <2>2 DEF PrepareOuter, envelope
<1>3. CASE Begin(r)
  <2>0. Doing(r, "begin") /\ Arrive(r, "same") /\ UNCHANGED envelope
    BY <1>3 DEF Begin
  <2>1. /\ guard'[r] = composite[r]
        /\ \A e \in Engines : /\ tx[r][e] = "none" /\ tx'[r][e] = "open"
                              /\ saved'[r][e] = native[r][e]
                              /\ handle'[r][e] = python[r][e]
    BY <1>0, <1>3 DEF Begin, DataOK
  <2>2. Clean(r)
    BY <1>i, <2>0 DEF Doing
  <2>3. Held(r)' /\ \A e \in Engines : saved'[r][e] = accepted
    BY <1>i, <2>1, <2>2 DEF Held, Clean
  <2>c. /\ stage[r] = "begin" /\ stage'[r] = "begin" /\ ~arrived[r]
        /\ arrived'[r] = TRUE /\ brought'[r] = "same"
    BY <1>0, <2>0 DEF Doing, Arrive
  <2> QED
    BY <1>i, <1>o, <2>0, <2>3, <2>c
<1>4. CASE BeginFails(r)
  <2>0. Doing(r, "begin") /\ Arrive(r, "error") /\ UNCHANGED envelope
    BY <1>4 DEF BeginFails
  <2>1. Clean(r)
    BY <1>i, <2>0 DEF Doing
  <2>2. PICK k \in Engines, Stuck \in SUBSET Engines :
           /\ \A e \in 1 .. k - 1 : tx[r][e] = "none"
           /\ \A e \in Stuck : e < k
           /\ tx' = [tx EXCEPT ![r] =
                       [e \in Engines |-> IF e \in Stuck THEN "open" ELSE @[e]]]
           /\ saved' = [saved EXCEPT ![r] =
                          [e \in Engines |->
                             IF e \in Stuck THEN native[r][e] ELSE @[e]]]
           /\ native' = [native EXCEPT ![r] =
                           [e \in Engines |-> IF e \in Stuck THEN Torn ELSE @[e]]]
    BY <1>4 DEF BeginFails
  <2>3. \A e \in Stuck : tx[r][e] = "none"
    BY <2>2, RestoreAssumption DEF Engines
  <2>4. \A e \in Engines :
           IF e \in Stuck
           THEN tx'[r][e] = "open" /\ saved'[r][e] = native[r][e]
           ELSE /\ tx'[r][e] = tx[r][e] /\ saved'[r][e] = saved[r][e]
                /\ native'[r][e] = native[r][e]
    BY <1>0, <2>2 DEF DataOK
  <2>5. UNCHANGED <<guard, composite, python>>
    BY <1>4 DEF BeginFails, coordinator
  <2>6. Clean(r)'
    BY <1>i, <2>1, <2>4, <2>5 DEF Clean
  <2>7. \A e \in Engines : tx'[r][e] # "none" => saved'[r][e] = accepted
    <3>1. \A e \in Engines : tx[r][e] # "none" => saved[r][e] = accepted
      BY <1>i, <2>0 DEF Doing
    <3> QED
      BY <2>1, <2>3, <2>4, <3>1 DEF Clean
  <2>c. /\ stage[r] = "begin" /\ stage'[r] = "begin" /\ ~arrived[r]
        /\ arrived'[r] = TRUE /\ brought'[r] = "error"
    BY <1>0, <2>0 DEF Doing, Arrive
  <2> QED
    BY <1>i, <1>o, <2>0, <2>6, <2>7, <2>c
<1>5. CASE Apply(r)
  <2>0. /\ Doing(r, "apply") /\ UNCHANGED <<tx, saved, handle, guard>>
        /\ UNCHANGED envelope
    BY <1>5 DEF Apply
  <2>1. Held(r)' <=> Held(r)
    BY <1>i, <2>0 DEF Held
  <2>2. CASE /\ native' = [native EXCEPT ![r] = [e \in Engines |-> calls]]
             /\ python' = [python EXCEPT ![r] = [e \in Engines |-> calls]]
             /\ composite' = [composite EXCEPT ![r] = calls]
             /\ Arrive(r, "same") \/ Arrive(r, "other")
    <3>1. New(r)'
      BY <1>0, <1>i, <2>2 DEF New, DataOK
    <3>c. /\ stage[r] = "apply" /\ stage'[r] = "apply" /\ ~arrived[r]
          /\ arrived'[r] = TRUE /\ brought'[r] \in {"same", "other"}
      BY <1>0, <2>0, <2>2 DEF Doing, Arrive
    <3> QED
      BY <1>i, <1>o, <2>0, <2>1, <3>1, <3>c
  <2>3. CASE Arrive(r, "error")
    <3>c. /\ stage[r] = "apply" /\ stage'[r] = "apply" /\ ~arrived[r]
          /\ arrived'[r] = TRUE /\ brought'[r] = "error"
      BY <1>0, <2>0, <2>3 DEF Doing, Arrive
    <3> QED
      BY <1>i, <1>o, <2>0, <2>1, <3>c
  <2> QED
    BY <1>5, <2>2, <2>3 DEF Apply
<1>6. CASE PublishOuter(r)
  <2>0. /\ Doing(r, "outerApply") /\ UNCHANGED <<engines, coordinator>>
        /\ UNCHANGED <<outerSaved, unrestored>>
    BY <1>6 DEF PublishOuter
  <2>1. OuterKept(r)' <=> OuterKept(r)
    BY <1>i, <2>0 DEF OuterKept
  <2>2. CASE /\ outer' = [outer EXCEPT ![r] = [p \in OuterParts |-> calls]]
             /\ Arrive(r, "same")
    <3>1. OuterIs(r, calls)'
      BY <1>0, <1>i, <2>2 DEF OuterIs, DataOK
    <3>c. /\ stage[r] = "outerApply" /\ stage'[r] = "outerApply" /\ ~arrived[r]
          /\ arrived'[r] = TRUE /\ brought'[r] = "same"
      BY <1>0, <2>0, <2>2 DEF Doing, Arrive
    <3> QED
      BY <1>i, <1>e, <2>0, <2>1, <3>1, <3>c
  <2>3. CASE Arrive(r, "error")
    <3>c. /\ stage[r] = "outerApply" /\ stage'[r] = "outerApply" /\ ~arrived[r]
          /\ arrived'[r] = TRUE /\ brought'[r] = "error"
      BY <1>0, <2>0, <2>3 DEF Doing, Arrive
    <3> QED
      BY <1>i, <1>e, <2>0, <2>1, <3>c
  <2> QED
    BY <1>6, <2>2, <2>3 DEF PublishOuter
<1>7. CASE Commit(r)
  <2>0. /\ Doing(r, "commit") /\ UNCHANGED envelope
        /\ UNCHANGED <<native, saved, python, handle, composite, guard>>
        /\ Arrive(r, "same") \/ Arrive(r, "error")
    BY <1>7 DEF Commit, coordinator
  <2>1. Held(r) /\ New(r)
    BY <1>i, <2>0 DEF Doing
  <2>2. \A e \in Engines : tx'[r][e] # "none"
    <3>1. CASE tx' = [tx EXCEPT ![r] = [e \in Engines |-> "committed"]]
      BY <1>0, <3>1 DEF DataOK
    <3>2. ASSUME NEW k \in Engines,
                 tx' = [tx EXCEPT ![r] =
                          [e \in Engines |-> IF e < k THEN "committed" ELSE @[e]]]
          PROVE  \A e \in Engines : tx'[r][e] # "none"
      BY <1>0, <2>1, <3>2 DEF DataOK, Held
    <3> QED
      BY <1>7, <3>1, <3>2 DEF Commit
  <2>3. Held(r)' /\ New(r)'
    BY <1>i, <2>0, <2>1, <2>2 DEF Held, New
  <2>4. \A e \in Engines : saved'[r][e] = accepted
    BY <1>i, <2>0, <2>1 DEF Held, Doing
  <2>c. /\ stage[r] = "commit" /\ stage'[r] = "commit" /\ ~arrived[r]
        /\ arrived'[r] = TRUE /\ brought'[r] \in {"same", "error"}
    BY <1>0, <2>0 DEF Doing, Arrive
  <2> QED
    BY <1>i, <1>o, <2>0, <2>3, <2>4, <2>c
<1>8. CASE Finalize(r)
  <2>1. /\ stage[r] = "finalize" /\ stage'[r] = "idle" /\ ~arrived'[r]
        /\ guard'[r] = Absent /\ \A e \in Engines : tx'[r][e] = "none"
    BY <1>0, <1>8 DEF Finalize, DataOK, Doing
  <2>2. New(r) /\ accepted = calls /\ (outerActive => OuterIs(r, calls))
    BY <1>i, <2>1
  <2>3. Clean(r)'
    BY <1>i, <1>8, <2>1, <2>2 DEF Finalize, Clean, New
  <2>4. outerActive => OuterClean(r)'
    BY <1>i, <1>8, <2>1, <2>2 DEF Finalize, OuterClean, OuterIs
  <2> QED
    BY <1>i, <2>1, <2>3, <2>4
<1>9. CASE Rollback(r)
  <2>0. /\ Doing(r, "rollback") \/ Doing(r, "beginRollback")
        /\ UNCHANGED envelope
    BY <1>9 DEF Rollback
  <2>1. CASE /\ guard[r] = Absent /\ Arrive(r, "same")
             /\ UNCHANGED <<engines, coordinator>>
    <3>1. ~Held(r)
      BY <1>0, <2>1, StateFacts DEF Held
    <3>2. Clean(r)
      BY <1>i, <2>0, <3>1 DEF Doing
    <3>c. /\ stage[r] \in {"rollback", "beginRollback"} /\ stage'[r] = stage[r]
          /\ arrived'[r] = TRUE /\ brought'[r] \in {"same", "error"}
      BY <1>0, <2>0, <2>1 DEF Doing, Arrive
    <3> QED
      BY <1>i, <1>e, <1>o, <2>0, <2>1, <3>2, <3>c
  <2>2. ASSUME NEW Stuck \in SUBSET Engines, guard[r] # Absent,
               RollbackExecutor(r, Stuck),
               Arrive(r, "same") \/ Arrive(r, "error")
        PROVE  RankInv(r)'
    <3>1. Held(r) /\ \A e \in Engines : saved[r][e] = accepted
      BY <1>i, <2>0, <2>2 DEF Held, Clean, Doing
    <3>2. /\ guard'[r] = Absent /\ composite'[r] = guard[r]
          /\ \A e \in Engines :
                /\ python'[r][e] = handle[r][e]
                /\ IF e \in Stuck
                   THEN tx'[r][e] = tx[r][e] /\ saved'[r][e] = saved[r][e]
                   ELSE tx'[r][e] = "none" /\ native'[r][e] = saved[r][e]
      BY <1>0, <2>2 DEF RollbackExecutor, DataOK
    <3>3. Clean(r)'
      BY <1>i, <3>1, <3>2 DEF Clean, Held
    <3>4. \A e \in Engines : tx'[r][e] # "none" => saved'[r][e] = accepted
      BY <3>1, <3>2
    <3>c. /\ stage[r] \in {"rollback", "beginRollback"} /\ stage'[r] = stage[r]
          /\ arrived'[r] = TRUE /\ brought'[r] \in {"same", "error"}
      BY <1>0, <2>0, <2>2 DEF Doing, Arrive
    <3> QED
      BY <1>i, <1>o, <2>0, <3>3, <3>4, <3>c
  <2> QED
    BY <1>9, <2>1, <2>2 DEF Rollback, NothingToUndo
<1>10. CASE RollbackOuter(r)
  <2>0. /\ Doing(r, "outerRollback") /\ UNCHANGED <<engines, coordinator>>
        /\ UNCHANGED outerSaved
    BY <1>10 DEF RollbackOuter
  <2>1. PICK Failed \in SUBSET {Diagnostics, Identity} :
           /\ outer' = [outer EXCEPT ![r] =
                          [p \in OuterParts |->
                             IF p \in Failed THEN @[p] ELSE outerSaved[r][p]]]
           /\ unrestored' = [unrestored EXCEPT ![r] = @ \cup Failed]
           /\ Arrive(r, "same") \/ Arrive(r, "error")
    BY <1>10 DEF RollbackOuter
  <2>2. /\ unrestored'[r] = unrestored[r] \cup Failed
        /\ \A p \in OuterParts \ Failed : outer'[r][p] = outerSaved[r][p]
    BY <1>0, <2>1 DEF DataOK
  <2>3. outerActive => OuterKept(r)
    BY <1>i, <2>0 DEF Doing
  <2>4. outerActive => OuterClean(r)' /\ OuterKept(r)'
    BY <1>i, <2>0, <2>2, <2>3 DEF OuterClean, OuterKept
  <2>c. /\ stage[r] = "outerRollback" /\ stage'[r] = "outerRollback" /\ ~arrived[r]
        /\ arrived'[r] = TRUE /\ brought'[r] \in {"same", "error"}
    BY <1>0, <2>0, <2>1 DEF Doing, Arrive
  <2> QED
    BY <1>i, <1>e, <2>0, <2>4, <2>c
<1> QED
  BY <1>1, <1>2, <1>3, <1>4, <1>5, <1>6, <1>7, <1>8, <1>9, <1>10 DEF Local

-----------------------------------------------------------------------------
(* The theorems.                                                           *)

\* What belongs to the other ranks is as before.
LEMMA KeptInv ==
  ASSUME NEW r, RankInv(r), Kept(r), UNCHANGED <<calls, outerActive, accepted>>
  PROVE  RankInv(r)'
BY DEF Kept, RankInv, ExecutorInv, SavedInv, OuterInv, RowInv, Clean, Held, New,
       OuterClean, OuterKept, OuterIs

\* The invariant holds at the start.
LEMMA InitIndInv == Init => IndInv
<1> SUFFICES ASSUME Init PROVE IndInv
  OBVIOUS
<1>1. TypeOK
  BY TypeInit
<1>2. ASSUME NEW r \in Ranks PROVE RankInv(r)
  BY <1>2 DEF Init, Everywhere, OnEngines, OnParts, RankInv, ExecutorInv, SavedInv,
              OuterInv, RowInv, Clean, OuterClean, Untouched
<1> QED
  BY <1>1, <1>2 DEF IndInv, RanksInv

\* The invariant holds in every state of every behaviour.
THEOREM Invariance == Spec => []IndInv
<1>1. ASSUME IndInv, [Next]_vars
      PROVE  IndInv'
  <2>1. TypeOK'
    BY <1>1, TypeStep
  <2>2. ASSUME NEW r \in Ranks
        PROVE  RankInv(r)'
    <3>0. TypeOK /\ RankInv(r)
      BY <1>1 DEF IndInv, RanksInv
    <3>1. CASE Restart \/ Exchange
      BY <1>1, <3>1, ExchangeStep
    <3>2. ASSUME NEW q \in Ranks, Local(q)
          PROVE  RankInv(r)'
      <4>1. CASE q = r
        BY <1>1, <3>2, <4>1, LocalStep
      <4>2. CASE q # r
        BY <3>0, <3>2, <4>2, LocalFrame, KeptInv
      <4> QED
        BY <4>1, <4>2
    <3>3. CASE UNCHANGED vars
      <4>1. Kept(r) /\ UNCHANGED <<calls, outerActive, accepted>>
        BY <3>3 DEF vars, control, engines, coordinator, envelope, Kept
      <4> QED
        BY <3>0, <4>1, KeptInv
    <3> QED
      BY <1>1, <3>1, <3>2, <3>3 DEF Next
  <2> QED
    BY <2>1, <2>2 DEF IndInv, RanksInv
<1> QED
  BY InitIndInv, <1>1, PTL DEF Spec

\* The state of every rank always has its type.
THEOREM TypeCorrect == Spec => []TypeOK
<1>1. IndInv => TypeOK
  BY DEF IndInv
<1> QED
  BY Invariance, <1>1, PTL

\* On any number of ranks and engines, whatever fails on whichever rank: when
\* all ranks are back in their callers they hold the one accepted checkpoint
\* (restore_checkpoint_payload).
THEOREM RestoreIsAtomic == Spec => []AllOrNothing
<1>1. IndInv => AllOrNothing
  BY DEF IndInv, RanksInv, RankInv, ExecutorInv, Clean, OuterInv, OuterClean,
         Untouched, AllOrNothing, Idle
<1> QED
  BY Invariance, <1>1, PTL

\* Until the last decision has been taken every rank can go back, a rank that
\* has committed and an engine stuck in an earlier call included
\* (_commit_checkpoint_restart, _finalize_checkpoint_restart).
THEOREM SnapshotsAreKept == Spec => []RollbackStaysPossible
<1>1. IndInv => RollbackStaysPossible
  BY DEF IndInv, RanksInv, RankInv, ExecutorInv, Held, SavedInv, RollbackStaysPossible
<1> QED
  BY Invariance, <1>1, PTL
================================================================================
