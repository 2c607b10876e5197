------------------------ MODULE ConsumerTransactionProofs ------------------------
(***************************************************************************)
(* Proofs that a ConsumerTransaction, for every plan and every assignment  *)
(* of failure actions, forgets nothing the publisher holds, accounts for   *)
(* every withdrawal, and accepts exactly the samples that are visible;     *)
(* and, in the last part, that the file behind one of its effects is       *)
(* published and removed without harm to the files of other processes.     *)
(***************************************************************************)
EXTENDS ConsumerTransaction, ArtifactPublication, WellFoundedInduction, TLAPS

Sorted(s) == \A i, j \in DOMAIN s : i < j => s[i] < s[j]
Below(s, e) == \A d \in Listed(s) : d < e
Above(s, e) == \A d \in Listed(s) : e < d
Before(s, t) == \A d \in Listed(s) : \A e \in Listed(t) : d < e

\* Which call may come next in which method, and in which state of the object.
ControlInv ==
    /\ pc # "cancelled" /\ state # "lost"
    /\ pc = "idle" <=> method = "none"
    /\ method = "construct" <=> state = "preparing"
    /\ method \in {"accept", "reject"} => state = "staged"
    /\ method = "rollback_accepted" => state = "accepted"
    /\ method = "seal" => state = "sealed"
    /\ pc = "prepare" => method \in {"construct", "accept"}
    /\ pc \in {"publish", "cleanup"} => method = "accept"
    /\ pc = "compensate" => method \in {"accept", "rollback_accepted"}
    /\ pc = "discard" => method \in {"construct", "accept", "reject"}
    /\ pc = "finalize" <=> method = "seal"
    /\ pc = "prepare" /\ method = "accept" => FailureAction[effect] = "Retry"

\* Which lists may hold something, and when a cleanup failure may be recorded.
ListInv ==
    /\ prepared # <<>> => \/ method = "construct" \/ pc = "discard"
                          \/ state = "staged" /\ pc \in {"idle", "compensate"}
    /\ pending # <<>> => \/ pc \in {"publish", "cleanup", "finalize"}
                         \/ pc = "prepare" /\ method = "accept"
    /\ accepted # <<>> => \/ state = "accepted"
                          \/ method = "accept" /\ pc # "discard"
    /\ finalizePending # <<>> => state = "sealed"
    /\ diagnostics # {} => pc \in {"compensate", "discard"} \/ state = "failed"
    /\ state \in {"rejected"} => diagnostics = {}
    /\ pc = "discard" /\ method = "construct" => cursors = {}

\* How far the running cleanup or release loop has come.
LoopInv ==
    /\ pc = "compensate" => k <= Len(accepted)
    /\ pc = "discard" => k <= Len(prepared)
    /\ pc = "compensate" => \A i \in DOMAIN accepted : i > k =>
          artifact[accepted[i]] = "none" \/ accepted[i] \in diagnostics
    /\ pc = "discard" => \A i \in DOMAIN prepared : i > k =>
          artifact[prepared[i]] = "none" \/ prepared[i] \in diagnostics
    /\ pc = "finalize" =>
          /\ k > 0
          /\ \A i \in DOMAIN finalizePending : i < k =>
                \/ artifact[finalizePending[i]] = "final"
                \/ finalizePending[i] \in Listed(pending)
          /\ Listed(pending) \subseteq Listed(finalizePending)

\* The lists are in plan order, and the effect in hand sits between them.
OrderInv ==
    /\ Sorted(prepared)
    /\ pc # "finalize" => Sorted(pending)
    /\ Sorted(accepted)
    /\ pc # "finalize" => Before(accepted, pending)
    /\ pc = "compensate" => Before(accepted, prepared)
    /\ method = "construct" /\ pc = "prepare" => Below(prepared, effect)
    /\ method = "accept" /\ pc \in {"prepare", "cleanup"} =>
          Below(accepted, effect) /\ Above(pending, effect)

Held == Listed(prepared) \cup Listed(pending) \cup Listed(accepted)
InHand(e) == e = effect /\ pc \in {"prepare", "cleanup"}
Withdrawing == pc \in {"compensate", "discard"} \/ state \in {"failed", "rejected"}

\* What the publisher holds for the listed effects until they are withdrawn.
StagedInv ==
    ~Withdrawing /\ pc # "finalize" =>
       /\ \A e \in Listed(prepared) \cup Listed(pending) :
             artifact[e] = "temporary" /\ skipped[e] = "no"
       /\ \A e \in Listed(accepted) :
             artifact[e] = "published" /\ skipped[e] = "no"
       /\ pc \in {"prepare", "cleanup"} => skipped[effect] = "no"
       /\ pc = "prepare" => artifact[effect] = "none"
       /\ method = "construct" => \A e \in Effects :
             e > effect => artifact[e] = "none" /\ skipped[e] = "no"

\* Every effect of the plan is on a list, in hand, skipped or still to come.
PartitionInv ==
    ~Withdrawing /\ state # "sealed" => \A e \in Effects :
       \/ e \in Held \/ InHand(e)
       \/ artifact[e] = "none" /\ skipped[e] # "no"
       \/ method = "construct" /\ e > effect

CursorInv ==
    /\ state \in {"preparing", "staged", "accepted"} => cursors = Listed(accepted)
    /\ state \in {"rejected", "failed"} => cursors = {}

\* Sealing freezes the cursors; releases start only then.
SealedInv ==
    /\ \A e \in Effects : artifact[e] = "final" => state = "sealed"
    /\ \A e \in Listed(finalizePending) : artifact[e] \in {"published", "final"}
    /\ state = "sealed" => /\ cursors = Visible
                           /\ \A e \in Effects \ cursors :
                                 skipped[e] # "no" /\ artifact[e] = "none"

IndInv ==
    /\ TypeOK
    /\ ControlInv
    /\ ListInv
    /\ LoopInv
    /\ OrderInv
    /\ StagedInv
    /\ PartitionInv
    /\ CursorInv
    /\ SealedInv
    /\ NoOrphan

\* What the provers need of the sequence operators, on types ...
LEMMA SequenceFacts ==
    ASSUME NEW S, NEW s \in Seq(S), NEW t \in Seq(S), NEW e \in S
    PROVE  /\ <<>> \in Seq(S) /\ DOMAIN <<>> = {}
           /\ Len(s) \in Nat /\ DOMAIN s = 1 .. Len(s)
           /\ \A i \in 1 .. Len(s) : s[i] \in S
           /\ Append(s, e) \in Seq(S)
           /\ <<e>> \o s \in Seq(S)
           /\ s \o t \in Seq(S)
           /\ s # <<>> => Head(s) \in S /\ Tail(s) \in Seq(S)
  OBVIOUS

\* ... and on lengths and elements.
LEMMA IndexFacts ==
    ASSUME NEW S, NEW s \in Seq(S), NEW t \in Seq(S), NEW e \in S
    PROVE  /\ Len(Append(s, e)) = Len(s) + 1
           /\ Append(s, e)[Len(s) + 1] = e
           /\ \A i \in 1 .. Len(s) : Append(s, e)[i] = s[i]
           /\ Len(<<e>> \o s) = Len(s) + 1
           /\ (<<e>> \o s)[1] = e
           /\ \A i \in 1 .. Len(s) : (<<e>> \o s)[i + 1] = s[i]
           /\ Len(s \o t) = Len(s) + Len(t)
           /\ \A i \in 1 .. Len(s) : (s \o t)[i] = s[i]
           /\ \A i \in 1 .. Len(t) : (s \o t)[Len(s) + i] = t[i]
           /\ s # <<>> => /\ Len(s) > 0
                          /\ Len(Tail(s)) = Len(s) - 1
                          /\ Head(s) = s[1]
                          /\ \A i \in 1 .. Len(s) - 1 : Tail(s)[i] = s[i + 1]
  OBVIOUS

\* The contents of a list after the operations accept and seal perform on it.
LEMMA ListedFacts ==
    ASSUME NEW s \in Seq(Effects), NEW t \in Seq(Effects), NEW e \in Effects
    PROVE  /\ Listed(<<>>) = {}
           /\ Listed(s) \subseteq Effects
           /\ Listed(Append(s, e)) = Listed(s) \cup {e}
           /\ Listed(<<e>> \o s) = Listed(s) \cup {e}
           /\ Listed(s \o t) = Listed(s) \cup Listed(t)
           /\ s # <<>> => Listed(s) = Listed(Tail(s)) \cup {Head(s)}
<1>1. Listed(<<>>) = {} /\ Listed(s) \subseteq Effects
  BY SequenceFacts DEF Listed
<1>2. ASSUME NEW q \in Seq(Effects) PROVE \A i \in 1 .. Len(q) : q[i] \in Listed(q)
  BY SequenceFacts DEF Listed
<1>3. ASSUME NEW q \in Seq(Effects), NEW X,
             \A i \in 1 .. Len(q) : q[i] \in X
      PROVE  Listed(q) \subseteq X
  BY <1>3, SequenceFacts DEF Listed
<1>4. Listed(Append(s, e)) = Listed(s) \cup {e}
  <2> DEFINE a == Append(s, e)
  <2>1. /\ a \in Seq(Effects) /\ Len(a) = Len(s) + 1 /\ Len(s) \in Nat
        /\ a[Len(s) + 1] = e /\ \A i \in 1 .. Len(s) : a[i] = s[i]
    BY SequenceFacts, IndexFacts
  <2> HIDE DEF a
  <2>2. \A i \in 1 .. Len(a) : a[i] \in Listed(s) \cup {e}
    BY <1>2, <2>1
  <2>3. (\A i \in 1 .. Len(s) : s[i] \in Listed(a)) /\ e \in Listed(a)
    BY <1>2, <2>1
  <2>4. Listed(a) \subseteq Listed(s) \cup {e} /\ Listed(s) \subseteq Listed(a)
    BY <1>3, <2>1, <2>2, <2>3
  <2> QED
    BY <2>3, <2>4 DEF a
<1>5. Listed(<<e>> \o s) = Listed(s) \cup {e}
  <2> DEFINE a == <<e>> \o s
  <2>1. /\ a \in Seq(Effects) /\ Len(a) = Len(s) + 1 /\ Len(s) \in Nat
        /\ a[1] = e /\ \A i \in 1 .. Len(s) : a[i + 1] = s[i]
    BY SequenceFacts, IndexFacts
  <2> HIDE DEF a
  <2>2. ASSUME NEW i \in 1 .. Len(a), i # 1
        PROVE  i - 1 \in 1 .. Len(s) /\ a[i] = s[i - 1]
    <3>1. i - 1 \in 1 .. Len(s) /\ (i - 1) + 1 = i
      BY <2>1, <2>2
    <3> QED
      BY <3>1, <2>1
  <2>3. \A i \in 1 .. Len(a) : a[i] \in Listed(s) \cup {e}
    BY <1>2, <2>1, <2>2
  <2>4. ASSUME NEW i \in 1 .. Len(s)
        PROVE  s[i] \in Listed(a)
    <3>1. i + 1 \in 1 .. Len(a)
      BY <2>1
    <3> QED
      BY <3>1, <2>1, <1>2
  <2>5. e \in Listed(a)
    BY <1>2, <2>1
  <2>6. Listed(a) \subseteq Listed(s) \cup {e} /\ Listed(s) \subseteq Listed(a)
    BY <1>3, <2>1, <2>3, <2>4
  <2> QED
    BY <2>5, <2>6 DEF a
<1>6. Listed(s \o t) = Listed(s) \cup Listed(t)
  <2> DEFINE a == s \o t
  <2>1. /\ a \in Seq(Effects) /\ Len(a) = Len(s) + Len(t)
        /\ Len(s) \in Nat /\ Len(t) \in Nat
        /\ \A i \in 1 .. Len(s) : a[i] = s[i]
        /\ \A i \in 1 .. Len(t) : a[Len(s) + i] = t[i]
    BY SequenceFacts, IndexFacts
  <2> HIDE DEF a
  <2>2. ASSUME NEW i \in 1 .. Len(a), i \notin 1 .. Len(s)
        PROVE  i - Len(s) \in 1 .. Len(t) /\ a[i] = t[i - Len(s)]
    <3>1. i - Len(s) \in 1 .. Len(t) /\ Len(s) + (i - Len(s)) = i
      BY <2>1, <2>2
    <3> QED
      BY <3>1, <2>1
  <2>3. \A i \in 1 .. Len(a) : a[i] \in Listed(s) \cup Listed(t)
    BY <1>2, <2>1, <2>2
  <2>4. \A i \in 1 .. Len(s) : s[i] \in Listed(a)
    BY <1>2, <2>1
  <2>5. ASSUME NEW i \in 1 .. Len(t)
        PROVE  t[i] \in Listed(a)
    <3>1. Len(s) + i \in 1 .. Len(a)
      BY <2>1
    <3> QED
      BY <3>1, <2>1, <1>2
  <2>6. /\ Listed(a) \subseteq Listed(s) \cup Listed(t)
        /\ Listed(s) \subseteq Listed(a) /\ Listed(t) \subseteq Listed(a)
    BY <1>3, <2>1, <2>3, <2>4, <2>5
  <2> QED
    BY <2>6 DEF a
<1>7. s # <<>> => Listed(s) = Listed(Tail(s)) \cup {Head(s)}
  <2> HAVE s # <<>>
  <2> DEFINE a == Tail(s)
  <2>1. /\ a \in Seq(Effects) /\ Head(s) = s[1]
        /\ Len(s) \in Nat /\ Len(s) > 0 /\ Len(a) = Len(s) - 1
        /\ \A i \in 1 .. Len(a) : a[i] = s[i + 1]
    BY SequenceFacts, IndexFacts
  <2> HIDE DEF a
  <2>2. ASSUME NEW i \in 1 .. Len(s), i # 1
        PROVE  i - 1 \in 1 .. Len(a) /\ s[i] = a[i - 1]
    <3>1. i - 1 \in 1 .. Len(a) /\ (i - 1) + 1 = i
      BY <2>1, <2>2
    <3> QED
      BY <3>1, <2>1
  <2>3. \A i \in 1 .. Len(s) : s[i] \in Listed(a) \cup {Head(s)}
    BY <1>2, <2>1, <2>2
  <2>4. ASSUME NEW i \in 1 .. Len(a)
        PROVE  a[i] \in Listed(s)
    <3>1. i + 1 \in 1 .. Len(s)
      BY <2>1
    <3> QED
      BY <3>1, <2>1, <1>2
  <2>5. Head(s) \in Listed(s)
    BY <1>2, <2>1
  <2>6. Listed(s) \subseteq Listed(a) \cup {Head(s)} /\ Listed(a) \subseteq Listed(s)
    BY <1>3, <2>1, <2>3, <2>4
  <2> QED
    BY <2>5, <2>6 DEF a
<1> QED
  BY <1>1, <1>4, <1>5, <1>6, <1>7

\* The effects are the positions 1..N of the plan.
LEMMA EffectsFacts ==
    /\ N \in Effects /\ 1 \in Effects /\ Effects \subseteq Nat \ {0}
    /\ \A e \in Effects : e < N => e + 1 \in Effects
    /\ \A e \in Effects : e \in Nat /\ e <= N
  BY PlanAssumption DEF Effects

\* The lists and the values the actions take from them hold effects only.
LEMMA ListTypes ==
    ASSUME TypeOK
    PROVE  /\ <<>> \in Seq(Effects)
           /\ Append(prepared, effect) \in Seq(Effects)
           /\ <<effect>> \o pending \in Seq(Effects)
           /\ prepared \o pending \in Seq(Effects)
           /\ Len(prepared) \in Nat /\ Len(accepted) \in Nat
           /\ Len(finalizePending) \in Nat
           /\ \A i \in 1 .. Len(prepared) : prepared[i] \in Effects
           /\ \A i \in 1 .. Len(accepted) : accepted[i] \in Effects
           /\ \A i \in 1 .. Len(finalizePending) :
                 /\ finalizePending[i] \in Effects
                 /\ Append(pending, finalizePending[i]) \in Seq(Effects)
           /\ pending # <<>> => /\ Head(pending) \in Effects
                                /\ Tail(pending) \in Seq(Effects)
                                /\ Append(accepted, Head(pending)) \in Seq(Effects)
  BY SequenceFacts DEF TypeOK

\* The contents of the transaction's own lists after each list operation.
LEMMA ListContents ==
    ASSUME TypeOK
    PROVE  /\ Listed(<<>>) = {}
           /\ Listed(prepared) \subseteq Effects
           /\ Listed(pending) \subseteq Effects
           /\ Listed(accepted) \subseteq Effects
           /\ Listed(finalizePending) \subseteq Effects
           /\ Listed(Append(prepared, effect)) = Listed(prepared) \cup {effect}
           /\ Listed(<<effect>> \o pending) = Listed(pending) \cup {effect}
           /\ Listed(prepared \o pending) = Listed(prepared) \cup Listed(pending)
           /\ pending # <<>> =>
                /\ Listed(pending) = Listed(Tail(pending)) \cup {Head(pending)}
                /\ Listed(Append(accepted, Head(pending))) =
                      Listed(accepted) \cup {Head(pending)}
           /\ \A i \in 1 .. Len(finalizePending) :
                 Listed(Append(pending, finalizePending[i])) =
                    Listed(pending) \cup {finalizePending[i]}
<1>1. \A i \in 1 .. Len(finalizePending) :
         Listed(Append(pending, finalizePending[i])) =
            Listed(pending) \cup {finalizePending[i]}
  BY ListTypes, ListedFacts, ZenonT(30) DEF TypeOK
<1>2. pending # <<>> =>
         /\ Listed(pending) = Listed(Tail(pending)) \cup {Head(pending)}
         /\ Listed(Append(accepted, Head(pending))) =
               Listed(accepted) \cup {Head(pending)}
  BY ListTypes, ListedFacts, ZenonT(30) DEF TypeOK
<1> QED
  BY <1>1, <1>2, ListTypes, ListedFacts DEF TypeOK

\* Membership in a list, by index, for the loops over it.
LEMMA ListIndices ==
    ASSUME TypeOK
    PROVE  /\ \A e : e \in Listed(prepared) <=>
                 \E i \in 1 .. Len(prepared) : prepared[i] = e
           /\ \A e : e \in Listed(accepted) <=>
                 \E i \in 1 .. Len(accepted) : accepted[i] = e
           /\ \A e : e \in Listed(finalizePending) <=>
                 \E i \in 1 .. Len(finalizePending) : finalizePending[i] = e
           /\ DOMAIN prepared = 1 .. Len(prepared)
           /\ DOMAIN accepted = 1 .. Len(accepted)
           /\ DOMAIN finalizePending = 1 .. Len(finalizePending)
  BY SequenceFacts DEF TypeOK, Listed

\* Every step keeps the types.
LEMMA TypeStep ==
    ASSUME TypeOK, LoopInv, Next
    PROVE  TypeOK'
<1>1. CASE PrepareSucceeds
  <2>1. attempts[effect] + 1 \in Nat
    BY DEF TypeOK
  <2> QED
    BY <1>1, <2>1, ListTypes, EffectsFacts
    DEF PrepareSucceeds, Reinsert, NextEffect, report, TypeOK, States, Methods, Calls, ArtifactStates
<1>2. CASE PrepareRaises
  <2>1. attempts[effect] + 1 \in Nat
    BY DEF TypeOK
  <2> QED
    BY <1>2, <2>1 DEF PrepareRaises, MayLeaveTemporary, ledger, report, TypeOK
<1>3. CASE PrepareExhausted
  <2>1. attempts[effect] + 1 \in Nat
    BY DEF TypeOK
  <2>2. CASE method = "construct" /\ FailureAction[effect] = "SkipSampleReported"
    <3>1. NextEffect /\ skipped' = [skipped EXCEPT ![effect] = "prepare"]
      BY <1>3, <2>2 DEF PrepareExhausted, KeepRest
    <3>2. /\ state' \in States /\ method' \in Methods /\ pc' \in Calls
          /\ effect' \in Effects
      BY <3>1, EffectsFacts DEF NextEffect, TypeOK, States, Methods, Calls
    <3> QED
      BY <1>3, <2>1, <2>2, <3>1, <3>2
      DEF PrepareExhausted, MayLeaveTemporary, KeepRest, TypeOK
  <2>3. CASE method = "construct" /\ FailureAction[effect] # "SkipSampleReported"
    BY <1>3, <2>1, <2>3, ListTypes
    DEF PrepareExhausted, MayLeaveTemporary, KeepRest, StartDiscard, TypeOK, Calls
  <2>4. CASE method = "accept"
    BY <1>3, <2>1, <2>4, ListTypes
    DEF PrepareExhausted, MayLeaveTemporary, KeepRest, StartCompensation, TypeOK,
        Calls
  <2> QED
    BY <1>3, <2>2, <2>3, <2>4 DEF PrepareExhausted, KeepRest
<1>4. CASE Accept
  BY <1>4, ListTypes, EffectsFacts
  DEF Accept, report, TypeOK, States, Methods, Calls, ArtifactStates, ledger
<1>5. CASE PublishSucceeds
  BY <1>5, ListTypes, EffectsFacts
  DEF PublishSucceeds, Advance, TypeOK, States, Methods, Calls, ArtifactStates,
      report, ledger
<1>6. CASE PublishRaises
  BY <1>6, ListTypes, EffectsFacts
  DEF PublishRaises, report, TypeOK, States, Methods, Calls, ArtifactStates, ledger
<1>7. CASE AcceptReturns
  BY <1>7, ListTypes, EffectsFacts
  DEF AcceptReturns, Resolve, ledger, report, TypeOK, States, Methods, Calls,
      ArtifactStates
<1>8. CASE FailedPublishRecovered
  BY <1>8, ListTypes, EffectsFacts
  DEF FailedPublishRecovered, RemovalSucceeds, ledger, MayRetry, Reprepare, TypeOK,
      States, Methods, Calls, ArtifactStates, report
<1>9. CASE FailedPublishFailsRun
  BY <1>9, ListTypes, EffectsFacts, ZenonT(30)
  DEF FailedPublishFailsRun, StartCompensation, RemovalSucceeds, RemovalFails,
      MayRetry, KeepRest, TypeOK, States, Methods, Calls, ArtifactStates, report,
      ledger
<1>10. CASE CompensateOne
  <2>1. k - 1 \in Nat /\ accepted[k] \in Effects
    BY <1>10, ListTypes DEF CompensateOne, Current, TypeOK, LoopInv
  <2> QED
    BY <1>10, <2>1
    DEF CompensateOne, Current, CleanUp, RemovalSucceeds, RemovalFails, ledger, TypeOK, ArtifactStates
<1>11. CASE CompensateDone
  BY <1>11, ListTypes, EffectsFacts
  DEF CompensateDone, Resolve, StartDiscard, TypeOK, States, Methods, Calls,
      ArtifactStates, report, ledger
<1>12. CASE DiscardOne
  <2>1. k - 1 \in Nat /\ prepared[k] \in Effects
    BY <1>12, ListTypes DEF DiscardOne, Current, TypeOK, LoopInv
  <2> QED
    BY <1>12, <2>1
    DEF DiscardOne, Current, CleanUp, RemovalSucceeds, RemovalFails, ledger, TypeOK, ArtifactStates
<1>13. CASE DiscardDone
  BY <1>13, ListTypes, EffectsFacts
  DEF DiscardDone, Resolve, report, TypeOK, States, Methods, Calls, ArtifactStates,
      ledger
<1>14. CASE Reject
  BY <1>14, ListTypes, EffectsFacts
  DEF Reject, StartDiscard, ledger, TypeOK, States, Methods, Calls, ArtifactStates,
      report
<1>15. CASE RollbackAccepted
  BY <1>15, ListTypes, EffectsFacts
  DEF RollbackAccepted, StartCompensation, ledger, Compensable, TypeOK, States,
      Methods, Calls, ArtifactStates, report
<1>16. CASE Seal
  BY <1>16, ListTypes, EffectsFacts
  DEF Seal, report, TypeOK, States, Methods, Calls, ArtifactStates, ledger
<1>17. CASE FinalizeOne
  <2>1. /\ k + 1 \in Nat
        /\ finalizePending[k] \in Effects
        /\ Append(pending, finalizePending[k]) \in Seq(Effects)
    BY <1>17, ListTypes DEF FinalizeOne, TypeOK, LoopInv
  <2> QED
    BY <1>17, <2>1 DEF FinalizeOne, report, TypeOK, ArtifactStates
<1>18. CASE FinalizeDone
  BY <1>18, ListTypes, EffectsFacts
  DEF FinalizeDone, Resolve, report, TypeOK, States, Methods, Calls, ArtifactStates,
      ledger
<1> QED
  BY <1>1, <1>2, <1>3, <1>4, <1>5, <1>6, <1>7, <1>8, <1>9, <1>10, <1>11, <1>12, <1>13,
     <1>14, <1>15, <1>16, <1>17, <1>18
  DEF Next, PublisherReturns, Resolution

\* Every step keeps method, next call and state consistent.
LEMMA ControlStep ==
    ASSUME TypeOK, ControlInv, ListInv, Next
    PROVE  ControlInv'
<1>1. CASE PrepareSucceeds
  BY <1>1
  DEF PrepareSucceeds, NextEffect, report, AttemptLimit, Reinsert, ControlInv, ListInv
<1>2. CASE PrepareRaises
  BY <1>2 DEF PrepareRaises, ledger, report, AttemptLimit, ControlInv, ListInv
<1>3. CASE PrepareExhausted
  BY <1>3
  DEF PrepareExhausted, NextEffect, StartDiscard, StartCompensation, AttemptLimit,
      KeepRest, ControlInv, ListInv
<1>4. CASE Accept
  BY <1>4 DEF Accept, report, ControlInv, ListInv
<1>5. CASE PublishSucceeds
  BY <1>5 DEF PublishSucceeds, Advance, ControlInv, ListInv
<1>6. CASE PublishRaises
  BY <1>6 DEF PublishRaises, report, ControlInv, ListInv
<1>7. CASE AcceptReturns
  BY <1>7 DEF AcceptReturns, Resolve, ledger, report, ControlInv, ListInv
<1>8. CASE FailedPublishRecovered
  BY <1>8
  DEF FailedPublishRecovered, RemovalSucceeds, ledger, AttemptLimit, MayRetry,
      Reprepare, ControlInv, ListInv
<1>9. CASE FailedPublishFailsRun
  BY <1>9
  DEF FailedPublishFailsRun, StartCompensation, RemovalSucceeds, RemovalFails,
      AttemptLimit, MayRetry, KeepRest, ControlInv, ListInv
<1>10. CASE CompensateOne
  BY <1>10
  DEF CompensateOne, RemovalSucceeds, RemovalFails, CleanUp, ledger, Current,
      ControlInv, ListInv
<1>11. CASE CompensateDone
  BY <1>11 DEF CompensateDone, Resolve, StartDiscard, ControlInv, ListInv
<1>12. CASE DiscardOne
  BY <1>12
  DEF DiscardOne, RemovalSucceeds, RemovalFails, CleanUp, ledger, Current, ControlInv,
      ListInv
<1>13. CASE DiscardDone
  BY <1>13 DEF DiscardDone, Resolve, report, ControlInv, ListInv
<1>14. CASE Reject
  BY <1>14 DEF Reject, StartDiscard, ledger, ControlInv, ListInv
<1>15. CASE RollbackAccepted
  BY <1>15
  DEF RollbackAccepted, StartCompensation, ledger, Compensable, ControlInv, ListInv
<1>16. CASE Seal
  BY <1>16 DEF Seal, report, ControlInv, ListInv
<1>17. CASE FinalizeOne
  BY <1>17 DEF FinalizeOne, report, ControlInv, ListInv
<1>18. CASE FinalizeDone
  BY <1>18 DEF FinalizeDone, Resolve, report, ControlInv, ListInv
<1> QED
  BY <1>1, <1>2, <1>3, <1>4, <1>5, <1>6, <1>7, <1>8, <1>9, <1>10, <1>11, <1>12, <1>13,
     <1>14, <1>15, <1>16, <1>17, <1>18
  DEF Next, PublisherReturns, Resolution

\* Every step leaves only those lists non-empty that its method owns.
LEMMA ListStep ==
    ASSUME TypeOK, ControlInv, ListInv, LoopInv, CursorInv, Next
    PROVE  ListInv'
<1>1. CASE PrepareSucceeds
  BY <1>1, ListContents
  DEF PrepareSucceeds, NextEffect, report, Reinsert, TypeOK, ControlInv, ListInv,
      CursorInv
<1>2. CASE PrepareRaises
  BY <1>2, ListContents
  DEF PrepareRaises, ledger, report, TypeOK, ControlInv, ListInv, CursorInv
<1>3. CASE PrepareExhausted
  BY <1>3, ListContents
  DEF PrepareExhausted, NextEffect, StartDiscard, StartCompensation, KeepRest, TypeOK,
      ControlInv, ListInv, CursorInv
<1>4. CASE Accept
  BY <1>4, ListContents DEF Accept, report, TypeOK, ControlInv, ListInv, CursorInv
<1>5. CASE PublishSucceeds
  BY <1>5, ListContents
  DEF PublishSucceeds, Advance, TypeOK, ControlInv, ListInv, CursorInv
<1>6. CASE PublishRaises
  BY <1>6, ListContents
  DEF PublishRaises, report, TypeOK, ControlInv, ListInv, CursorInv
<1>7. CASE AcceptReturns
  BY <1>7, ListContents
  DEF AcceptReturns, Resolve, ledger, report, TypeOK, ControlInv, ListInv, CursorInv
<1>8. CASE FailedPublishRecovered
  BY <1>8, ListContents
  DEF FailedPublishRecovered, RemovalSucceeds, ledger, MayRetry, Reprepare, TypeOK,
      ControlInv, ListInv, CursorInv
<1>9. CASE FailedPublishFailsRun
  BY <1>9, ListContents
  DEF FailedPublishFailsRun, StartCompensation, RemovalSucceeds, RemovalFails,
      MayRetry, KeepRest, TypeOK, ControlInv, ListInv, CursorInv
<1>10. CASE CompensateOne
  BY <1>10, ListContents
  DEF CompensateOne, RemovalSucceeds, RemovalFails, CleanUp, ledger, Current, TypeOK,
      ControlInv, ListInv, CursorInv
<1>11. CASE CompensateDone
  BY <1>11, ListContents
  DEF CompensateDone, Resolve, StartDiscard, TypeOK, ControlInv, ListInv, CursorInv
<1>12. CASE DiscardOne
  BY <1>12, ListContents
  DEF DiscardOne, RemovalSucceeds, RemovalFails, CleanUp, ledger, Current, TypeOK,
      ControlInv, ListInv, CursorInv
<1>13. CASE DiscardDone
  BY <1>13, ListContents
  DEF DiscardDone, Resolve, report, TypeOK, ControlInv, ListInv, CursorInv
<1>14. CASE Reject
  BY <1>14, ListContents
  DEF Reject, StartDiscard, ledger, TypeOK, ControlInv, ListInv, CursorInv
<1>15. CASE RollbackAccepted
  BY <1>15, ListContents
  DEF RollbackAccepted, StartCompensation, ledger, Compensable, TypeOK, ControlInv,
      ListInv, CursorInv
<1>16. CASE Seal
  BY <1>16, ListContents DEF Seal, report, TypeOK, ControlInv, ListInv, CursorInv
<1>17. CASE FinalizeOne
  BY <1>17, ListContents DEF FinalizeOne, report, TypeOK, ControlInv, ListInv, CursorInv
<1>18. CASE FinalizeDone
  BY <1>18, ListContents
  DEF FinalizeDone, Resolve, report, TypeOK, ControlInv, ListInv, CursorInv
<1> QED
  BY <1>1, <1>2, <1>3, <1>4, <1>5, <1>6, <1>7, <1>8, <1>9, <1>10, <1>11, <1>12, <1>13,
     <1>14, <1>15, <1>16, <1>17, <1>18
  DEF Next, PublisherReturns, Resolution

\* The cleanup loops leave behind nothing unreported, the release loop keeps its rest.
LEMMA LoopStep ==
    ASSUME TypeOK, ControlInv, ListInv, LoopInv, Next
    PROVE  LoopInv'
<1>1. CASE PrepareSucceeds
  BY <1>1, SequenceFacts, ListedFacts
  DEF PrepareSucceeds, NextEffect, report, Reinsert, LoopInv, TypeOK, ControlInv,
      ListInv, ledger
<1>2. CASE PrepareRaises
  BY <1>2, SequenceFacts, ListedFacts
  DEF PrepareRaises, ledger, report, LoopInv, TypeOK, ControlInv, ListInv
<1>3. CASE PrepareExhausted
  BY <1>3, SequenceFacts, ListedFacts
  DEF PrepareExhausted, NextEffect, StartDiscard, StartCompensation, KeepRest,
      LoopInv, TypeOK, ControlInv, ListInv, report, ledger
<1>4. CASE Accept
  BY <1>4, SequenceFacts, ListedFacts
  DEF Accept, report, LoopInv, TypeOK, ControlInv, ListInv, ledger
<1>5. CASE PublishSucceeds
  BY <1>5, SequenceFacts, ListedFacts
  DEF PublishSucceeds, Advance, LoopInv, TypeOK, ControlInv, ListInv, report, ledger
<1>6. CASE PublishRaises
  BY <1>6, SequenceFacts, ListedFacts
  DEF PublishRaises, report, LoopInv, TypeOK, ControlInv, ListInv, ledger
<1>7. CASE AcceptReturns
  BY <1>7, SequenceFacts, ListedFacts
  DEF AcceptReturns, Resolve, ledger, report, LoopInv, TypeOK, ControlInv, ListInv
<1>8. CASE FailedPublishRecovered
  BY <1>8, SequenceFacts, ListedFacts
  DEF FailedPublishRecovered, RemovalSucceeds, ledger, MayRetry, Reprepare, LoopInv,
      TypeOK, ControlInv, ListInv, report
<1>9. CASE FailedPublishFailsRun
  BY <1>9, SequenceFacts, ListedFacts
  DEF FailedPublishFailsRun, StartCompensation, RemovalSucceeds, RemovalFails,
      MayRetry, KeepRest, LoopInv, TypeOK, ControlInv, ListInv, report, ledger
<1>10. CASE CompensateOne
  <2>1. /\ k \in 1 .. Len(accepted) /\ accepted[k] \in Effects
        /\ DOMAIN accepted = 1 .. Len(accepted)
    BY <1>10, ListTypes, ListIndices DEF CompensateOne, Current, TypeOK, LoopInv
  <2>2. \A i \in 1 .. Len(accepted) : i > k - 1 => i > k \/ i = k
    BY DEF TypeOK
  <2>3. /\ pc' = "compensate" /\ k' = k - 1 /\ accepted' = accepted
        /\ diagnostics \subseteq diagnostics'
        /\ artifact'[accepted[k]] = "none" \/ accepted[k] \in diagnostics'
        /\ \A e \in Effects \ {accepted[k]} : artifact'[e] = artifact[e]
    BY <1>10, <2>1
    DEF CompensateOne, Current, CleanUp, RemovalSucceeds, RemovalFails, TypeOK, ledger
  <2>4. ASSUME NEW i \in 1 .. Len(accepted), i > k - 1
        PROVE  artifact'[accepted[i]] = "none" \/ accepted[i] \in diagnostics'
    <3>1. accepted[i] \in Effects
      BY ListTypes
    <3>2. CASE accepted[i] = accepted[k]
      BY <2>3, <3>2
    <3>3. CASE accepted[i] # accepted[k]
      <4>1. i > k
        BY <2>1, <2>2, <2>4, <3>3
      <4>2. artifact[accepted[i]] = "none" \/ accepted[i] \in diagnostics
        BY <1>10, <2>1, <4>1 DEF CompensateOne, Current, LoopInv
      <4> QED
        BY <2>3, <3>1, <3>3, <4>2
    <3> QED
      BY <3>2, <3>3
  <2>5. k - 1 <= Len(accepted)
    BY <2>1, ListTypes DEF TypeOK
  <2> QED
    BY <2>1, <2>3, <2>4, <2>5 DEF LoopInv
<1>11. CASE CompensateDone
  BY <1>11, SequenceFacts, ListedFacts, SMTT(30)
  DEF CompensateDone, Resolve, StartDiscard, LoopInv, TypeOK, ControlInv, ListInv,
      report, ledger
<1>12. CASE DiscardOne
  <2>1. /\ k \in 1 .. Len(prepared) /\ prepared[k] \in Effects
        /\ DOMAIN prepared = 1 .. Len(prepared)
    BY <1>12, ListTypes, ListIndices DEF DiscardOne, Current, TypeOK, LoopInv
  <2>2. \A i \in 1 .. Len(prepared) : i > k - 1 => i > k \/ i = k
    BY DEF TypeOK
  <2>3. /\ pc' = "discard" /\ k' = k - 1 /\ prepared' = prepared
        /\ diagnostics \subseteq diagnostics'
        /\ artifact'[prepared[k]] = "none" \/ prepared[k] \in diagnostics'
        /\ \A e \in Effects \ {prepared[k]} : artifact'[e] = artifact[e]
    BY <1>12, <2>1
    DEF DiscardOne, Current, CleanUp, RemovalSucceeds, RemovalFails, TypeOK, ledger
  <2>4. ASSUME NEW i \in 1 .. Len(prepared), i > k - 1
        PROVE  artifact'[prepared[i]] = "none" \/ prepared[i] \in diagnostics'
    <3>1. prepared[i] \in Effects
      BY ListTypes
    <3>2. CASE prepared[i] = prepared[k]
      BY <2>3, <3>2
    <3>3. CASE prepared[i] # prepared[k]
      <4>1. i > k
        BY <2>1, <2>2, <2>4, <3>3
      <4>2. artifact[prepared[i]] = "none" \/ prepared[i] \in diagnostics
        BY <1>12, <2>1, <4>1 DEF DiscardOne, Current, LoopInv
      <4> QED
        BY <2>3, <3>1, <3>3, <4>2
    <3> QED
      BY <3>2, <3>3
  <2>5. k - 1 <= Len(prepared)
    BY <2>1, ListTypes DEF TypeOK
  <2> QED
    BY <2>1, <2>3, <2>4, <2>5 DEF LoopInv
<1>13. CASE DiscardDone
  BY <1>13, SequenceFacts, ListedFacts
  DEF DiscardDone, Resolve, report, LoopInv, TypeOK, ControlInv, ListInv, ledger
<1>14. CASE Reject
  BY <1>14, SequenceFacts, ListedFacts
  DEF Reject, StartDiscard, ledger, LoopInv, TypeOK, ControlInv, ListInv, report
<1>15. CASE RollbackAccepted
  BY <1>15, SequenceFacts, ListedFacts
  DEF RollbackAccepted, StartCompensation, ledger, Compensable, LoopInv, TypeOK,
      ControlInv, ListInv, report
<1>16. CASE Seal
  <2>1. pending = <<>> /\ pending' = <<>>
    BY <1>16 DEF Seal, ListInv, ControlInv
  <2>2. Listed(pending') = {}
    BY <2>1, ListContents
  <2> QED
    BY <1>16, <2>2, SequenceFacts DEF Seal, LoopInv, TypeOK, ControlInv, Listed
<1>17. CASE FinalizeOne
  <2>1. k \in 1 .. Len(finalizePending)
    BY <1>17 DEF FinalizeOne, TypeOK, LoopInv
  <2>2. finalizePending[k] \in Listed(finalizePending)
    BY <2>1, ListIndices
  <2>3. \A i \in 1 .. Len(finalizePending) : i < k + 1 => i < k \/ i = k
    BY DEF TypeOK
  <2>4. finalizePending[k] \in Effects
    BY <2>1, ListTypes
  <2>5. /\ pc' = "finalize" /\ k' = k + 1 /\ k + 1 > 0
        /\ finalizePending' = finalizePending
        /\ DOMAIN finalizePending = 1 .. Len(finalizePending)
    BY <1>17, ListIndices DEF FinalizeOne, TypeOK
  <2>6. /\ artifact'[finalizePending[k]] = "final" \/ finalizePending[k] \in Listed(pending')
        /\ Listed(pending) \subseteq Listed(pending')
        /\ Listed(pending') \subseteq Listed(pending) \cup {finalizePending[k]}
    BY <1>17, <2>1, <2>4, ListContents DEF FinalizeOne, TypeOK
  <2>7. \A e \in Effects \ {finalizePending[k]} : artifact'[e] = artifact[e]
    BY <1>17 DEF FinalizeOne, TypeOK
  <2>8. ASSUME NEW i \in 1 .. Len(finalizePending), i < k + 1
        PROVE  \/ artifact'[finalizePending[i]] = "final"
               \/ finalizePending[i] \in Listed(pending')
    <3>1. CASE finalizePending[i] = finalizePending[k]
      BY <2>6, <3>1
    <3>2. CASE finalizePending[i] # finalizePending[k]
      <4>1. i < k /\ finalizePending[i] \in Effects
        BY <2>3, <2>8, <3>2, ListTypes
      <4>2. artifact[finalizePending[i]] = "final" \/ finalizePending[i] \in Listed(pending)
        BY <1>17, <2>5, <4>1 DEF FinalizeOne, LoopInv
      <4> QED
        BY <2>6, <2>7, <3>2, <4>1, <4>2
    <3> QED
      BY <3>1, <3>2
  <2>9. Listed(pending') \subseteq Listed(finalizePending)
    BY <1>17, <2>2, <2>6 DEF FinalizeOne, LoopInv
  <2> QED
    BY <2>5, <2>8, <2>9 DEF LoopInv
<1>18. CASE FinalizeDone
  BY <1>18, SequenceFacts, ListedFacts
  DEF FinalizeDone, Resolve, report, LoopInv, TypeOK, ControlInv, ListInv, ledger
<1> QED
  BY <1>1, <1>2, <1>3, <1>4, <1>5, <1>6, <1>7, <1>8, <1>9, <1>10, <1>11, <1>12, <1>13,
     <1>14, <1>15, <1>16, <1>17, <1>18
  DEF Next, PublisherReturns, Resolution

\* No step drops an artifact from the lists without removing or reporting it.
LEMMA HeldStep ==
    ASSUME TypeOK, ControlInv, ListInv, LoopInv, PublicationsAreHeld, Next
    PROVE  PublicationsAreHeld'
<1>1. CASE PrepareSucceeds
  BY <1>1, ListContents, ListTypes
  DEF PrepareSucceeds, NextEffect, report, Reinsert, PublicationsAreHeld, TypeOK, ControlInv,
      ListInv, LoopInv, ledger
<1>2. CASE PrepareRaises
  BY <1>2, ListContents, ListTypes
  DEF PrepareRaises, ledger, report, PublicationsAreHeld, TypeOK, ControlInv, ListInv, LoopInv
<1>3. CASE PrepareExhausted
  BY <1>3, ListContents, ListTypes
  DEF PrepareExhausted, NextEffect, StartDiscard, StartCompensation, KeepRest,
      PublicationsAreHeld, TypeOK, ControlInv, ListInv, LoopInv, report, ledger
<1>4. CASE Accept
  BY <1>4, ListContents, ListTypes
  DEF Accept, report, PublicationsAreHeld, TypeOK, ControlInv, ListInv, LoopInv, ledger
<1>5. CASE PublishSucceeds
  BY <1>5, ListContents, ListTypes
  DEF PublishSucceeds, Advance, PublicationsAreHeld, TypeOK, ControlInv, ListInv, LoopInv,
      report, ledger
<1>6. CASE PublishRaises
  BY <1>6, ListContents, ListTypes
  DEF PublishRaises, report, PublicationsAreHeld, TypeOK, ControlInv, ListInv, LoopInv, ledger
<1>7. CASE AcceptReturns
  BY <1>7, ListContents, ListTypes
  DEF AcceptReturns, Resolve, ledger, report, PublicationsAreHeld, TypeOK, ControlInv, ListInv,
      LoopInv
<1>8. CASE FailedPublishRecovered
  BY <1>8, ListContents, ListTypes
  DEF FailedPublishRecovered, RemovalSucceeds, ledger, MayRetry, Reprepare, PublicationsAreHeld,
      TypeOK, ControlInv, ListInv, LoopInv, report
<1>9. CASE FailedPublishFailsRun
  BY <1>9, ListContents, ListTypes
  DEF FailedPublishFailsRun, StartCompensation, RemovalSucceeds, RemovalFails,
      MayRetry, KeepRest, PublicationsAreHeld, TypeOK, ControlInv, ListInv, LoopInv, report,
      ledger
<1>10. CASE CompensateOne
  BY <1>10, ListContents, ListTypes
  DEF CompensateOne, RemovalSucceeds, RemovalFails, CleanUp, ledger, Current,
      PublicationsAreHeld, TypeOK, ControlInv, ListInv, LoopInv, report
<1>11. CASE CompensateDone
  <2>1. \A e \in Listed(accepted) : artifact[e] = "none" \/ e \in diagnostics
    <3> TAKE e \in Listed(accepted)
    <3>1. PICK i \in 1 .. Len(accepted) : accepted[i] = e
      BY ListIndices
    <3>2. i > k /\ i \in DOMAIN accepted
      BY <1>11, ListIndices DEF CompensateDone
    <3> QED
      BY <1>11, <3>1, <3>2 DEF CompensateDone, LoopInv
  <2>2. Listed(accepted') = {} /\ Listed(accepted)' = {}
    BY <1>11, ListContents DEF CompensateDone, Listed
  <2> QED
    BY <1>11, <2>1, <2>2 DEF CompensateDone, PublicationsAreHeld, Listed
<1>12. CASE DiscardOne
  BY <1>12, ListContents, ListTypes
  DEF DiscardOne, RemovalSucceeds, RemovalFails, CleanUp, ledger, Current, PublicationsAreHeld,
      TypeOK, ControlInv, ListInv, LoopInv, report
<1>13. CASE DiscardDone
  <2>1. \A e \in Listed(prepared) : artifact[e] = "none" \/ e \in diagnostics
    <3> TAKE e \in Listed(prepared)
    <3>1. PICK i \in 1 .. Len(prepared) : prepared[i] = e
      BY ListIndices
    <3>2. i > k /\ i \in DOMAIN prepared
      BY <1>13, ListIndices DEF DiscardDone
    <3> QED
      BY <1>13, <3>1, <3>2 DEF DiscardDone, LoopInv
  <2>2. Listed(prepared') = {} /\ Listed(prepared)' = {}
    BY <1>13, ListContents DEF DiscardDone, Listed
  <2> QED
    BY <1>13, <2>1, <2>2 DEF DiscardDone, report, PublicationsAreHeld, Listed
<1>14. CASE Reject
  BY <1>14, ListContents, ListTypes
  DEF Reject, StartDiscard, ledger, PublicationsAreHeld, TypeOK, ControlInv, ListInv, LoopInv,
      report
<1>15. CASE RollbackAccepted
  BY <1>15, ListContents, ListTypes
  DEF RollbackAccepted, StartCompensation, ledger, Compensable, PublicationsAreHeld, TypeOK,
      ControlInv, ListInv, LoopInv, report
<1>16. CASE Seal
  BY <1>16, ListContents, ListTypes
  DEF Seal, report, PublicationsAreHeld, TypeOK, ControlInv, ListInv, LoopInv, ledger
<1>17. CASE FinalizeOne
  BY <1>17, ListContents, ListTypes
  DEF FinalizeOne, report, PublicationsAreHeld, TypeOK, ControlInv, ListInv, LoopInv, ledger
<1>18. CASE FinalizeDone
  <2>1. \A e \in Listed(finalizePending) :
           artifact[e] = "final" \/ e \in Listed(pending)
    <3> TAKE e \in Listed(finalizePending)
    <3>1. PICK i \in 1 .. Len(finalizePending) : finalizePending[i] = e
      BY ListIndices
    <3>2. i < k /\ i \in DOMAIN finalizePending
      BY <1>18, ListTypes, ListIndices DEF FinalizeDone, TypeOK
    <3> QED
      BY <1>18, <3>1, <3>2 DEF FinalizeDone, LoopInv
  <2>2. Listed(finalizePending)' = Listed(pending) /\ Listed(pending)' = {}
    BY <1>18, ListContents DEF FinalizeDone, Listed
  <2> QED
    BY <1>18, <2>1, <2>2 DEF FinalizeDone, report, PublicationsAreHeld, Listed
<1> QED
  BY <1>1, <1>2, <1>3, <1>4, <1>5, <1>6, <1>7, <1>8, <1>9, <1>10, <1>11, <1>12, <1>13,
     <1>14, <1>15, <1>16, <1>17, <1>18
  DEF Next, PublisherReturns, Resolution

\* A failed prepare is not forgotten again, whatever its temporary's fate.
LEMMA ShowStep ==
    ASSUME TypeOK, ControlInv, FailedPreparesShow, Next
    PROVE  FailedPreparesShow'
<1>1. CASE PrepareRaises \/ PrepareExhausted
  <2>1. dropped' = dropped \/ dropped' = dropped \cup {effect}
    BY <1>1 DEF PrepareRaises, PrepareExhausted, MayLeaveTemporary
  <2>2. CASE PrepareRaises
    <3>1. FailureAction[effect] = "Retry"
      BY <2>2 DEF PrepareRaises, AttemptLimit, TypeOK
    <3> QED
      BY <2>1, <2>2, <3>1 DEF PrepareRaises, report, FailedPreparesShow
  <2>3. CASE PrepareExhausted /\ method = "construct"
                             /\ FailureAction[effect] = "SkipSampleReported"
    <3>1. skipped' = [skipped EXCEPT ![effect] = "prepare"]
      BY <2>3 DEF PrepareExhausted
    <3>2. pc = "prepare" /\ state = "preparing"
      BY <2>3 DEF PrepareExhausted, ControlInv
    <3> QED
      BY <2>1, <3>1, <3>2 DEF FailedPreparesShow, TypeOK
  <2>4. CASE PrepareExhausted /\ method = "construct"
                             /\ FailureAction[effect] # "SkipSampleReported"
    <3>1. method' = "construct" /\ pc' = "discard"
      BY <2>4 DEF PrepareExhausted, StartDiscard
    <3> QED
      BY <3>1 DEF FailedPreparesShow
  <2>5. CASE PrepareExhausted /\ method = "accept"
    <3>1. FailureAction[effect] = "Retry"
      BY <2>5 DEF PrepareExhausted, ControlInv
    <3> QED
      BY <2>1, <2>5, <3>1 DEF PrepareExhausted, FailedPreparesShow
  <2> QED
    BY <1>1, <2>2, <2>3, <2>4, <2>5 DEF PrepareExhausted
<1>2. CASE ~(PrepareRaises \/ PrepareExhausted)
  <2>1. dropped' = dropped
    BY <1>2
    DEF Next, PublisherReturns, Resolution, PrepareSucceeds, NextEffect, Resolve, Accept, PublishSucceeds,
        PublishRaises, AcceptReturns, FailedPublishRecovered,
        FailedPublishFailsRun, CompensateOne, CompensateDone, DiscardOne,
        DiscardDone, Reject, RollbackAccepted, Seal, FinalizeOne, FinalizeDone
  <2>2. skipped' = skipped \/ skipped' = [skipped EXCEPT ![effect] = "publish"]
    BY <1>2
    DEF Next, PublisherReturns, Resolution, report, PrepareSucceeds, NextEffect, Resolve, Accept, PublishSucceeds,
        PublishRaises, AcceptReturns, FailedPublishRecovered,
        FailedPublishFailsRun, CompensateOne, CompensateDone, DiscardOne,
        DiscardDone, Reject, RollbackAccepted, Seal, FinalizeOne, FinalizeDone
  <2>3. \A e \in Effects : skipped[e] # "no" => skipped'[e] # "no"
    BY <2>2 DEF TypeOK
  <2>4. state = "failed" => FALSE
    BY <1>2
    DEF Next, PublisherReturns, Resolution, Compensable, ControlInv, PrepareSucceeds, NextEffect, Resolve, Accept, PublishSucceeds,
        PublishRaises, AcceptReturns, FailedPublishRecovered,
        FailedPublishFailsRun, CompensateOne, CompensateDone, DiscardOne,
        DiscardDone, Reject, RollbackAccepted, Seal, FinalizeOne, FinalizeDone
  <2>5. ASSUME method = "construct", pc = "discard"
        PROVE  (method' = "construct" /\ pc' = "discard") \/ state' = "failed"
    BY <1>2, <2>5
    DEF Next, PublisherReturns, Resolution, PrepareSucceeds, NextEffect, Resolve, Accept, PublishSucceeds,
        PublishRaises, AcceptReturns, FailedPublishRecovered,
        FailedPublishFailsRun, CompensateOne, CompensateDone, DiscardOne,
        DiscardDone, Reject, RollbackAccepted, Seal, FinalizeOne, FinalizeDone
  <2> QED
    BY <2>1, <2>3, <2>4, <2>5 DEF FailedPreparesShow, TypeOK
<1> QED
  BY <1>1, <1>2

\* Plan order survives the list operations of _prepare_all and accept.
LEMMA SortedFacts ==
    ASSUME NEW s \in Seq(Effects), NEW e \in Effects
    PROVE  /\ Sorted(<<>>) /\ <<>> \o s = s
           /\ Sorted(s) /\ Below(s, e) => Sorted(Append(s, e))
           /\ Sorted(s) /\ Above(s, e) => Sorted(<<e>> \o s)
           /\ s # <<>> /\ Sorted(s) => Sorted(Tail(s)) /\ Above(Tail(s), Head(s))
<1>1. Sorted(<<>>) /\ <<>> \o s = s
  BY SequenceFacts DEF Sorted
<1>2. \A i \in 1 .. Len(s) : s[i] \in Listed(s) /\ s[i] \in Nat
  <2>1. \A i \in 1 .. Len(s) : s[i] \in Effects
    BY SequenceFacts
  <2>2. \A i \in 1 .. Len(s) : s[i] \in Listed(s)
    BY SequenceFacts DEF Listed
  <2> QED
    BY <2>1, <2>2, EffectsFacts
<1>3. Len(s) \in Nat /\ DOMAIN s = 1 .. Len(s)
  BY SequenceFacts
<1>4. ASSUME Sorted(s), Below(s, e) PROVE Sorted(Append(s, e))
  <2> DEFINE a == Append(s, e)
  <2>1. /\ DOMAIN a = 1 .. Len(s) + 1
        /\ a[Len(s) + 1] = e /\ \A i \in 1 .. Len(s) : a[i] = s[i]
    BY SequenceFacts, IndexFacts
  <2> HIDE DEF a
  <2>2. Sorted(a)
    BY <1>2, <1>3, <1>4, <2>1 DEF Sorted, Below
  <2> QED
    BY <2>2 DEF a
<1>5. ASSUME Sorted(s), Above(s, e) PROVE Sorted(<<e>> \o s)
  <2> DEFINE a == <<e>> \o s
  <2>1. /\ DOMAIN a = 1 .. Len(s) + 1
        /\ a[1] = e /\ \A i \in 1 .. Len(s) : a[i + 1] = s[i]
    BY SequenceFacts, IndexFacts
  <2> HIDE DEF a
  <2>2. ASSUME NEW i \in 1 .. Len(s) + 1, i # 1
        PROVE  i - 1 \in 1 .. Len(s) /\ a[i] = s[i - 1]
    <3>1. i - 1 \in 1 .. Len(s) /\ (i - 1) + 1 = i
      BY <1>3, <2>2
    <3> QED
      BY <2>1, <3>1
  <2>3. ASSUME NEW i \in DOMAIN a, NEW j \in DOMAIN a, i < j PROVE a[i] < a[j]
    <3>1. j # 1 /\ j - 1 \in 1 .. Len(s) /\ a[j] = s[j - 1]
      BY <1>3, <2>1, <2>2, <2>3
    <3>2. CASE i = 1
      BY <1>2, <1>5, <2>1, <3>1, <3>2 DEF Above
    <3>3. CASE i # 1
      <4>1. i - 1 \in 1 .. Len(s) /\ a[i] = s[i - 1] /\ i - 1 < j - 1
        BY <1>3, <2>1, <2>2, <2>3, <3>3
      <4> QED
        BY <1>3, <1>5, <3>1, <4>1 DEF Sorted
    <3> QED
      BY <3>2, <3>3
  <2> QED
    BY <2>3 DEF a, Sorted
<1>6. ASSUME s # <<>>, Sorted(s) PROVE Sorted(Tail(s)) /\ Above(Tail(s), Head(s))
  <2> DEFINE a == Tail(s)
  <2>1. /\ a \in Seq(Effects) /\ DOMAIN a = 1 .. Len(a)
        /\ Len(a) = Len(s) - 1 /\ Len(s) > 0 /\ Head(s) = s[1]
        /\ \A i \in 1 .. Len(a) : a[i] = s[i + 1]
    BY <1>6, SequenceFacts, IndexFacts
  <2> HIDE DEF a
  <2>2. \A i \in 1 .. Len(a) : i + 1 \in DOMAIN s /\ 1 < i + 1
    BY <1>3, <2>1
  <2>3. 1 \in DOMAIN s
    BY <1>3, <2>1
  <2>4. \A i \in 1 .. Len(a) : Head(s) < a[i]
    BY <1>6, <2>1, <2>2, <2>3 DEF Sorted
  <2>5. Above(a, Head(s))
    BY <2>1, <2>4 DEF Above, Listed
  <2>6. ASSUME NEW i \in DOMAIN a, NEW j \in DOMAIN a, i < j PROVE a[i] < a[j]
    <3>1. i + 1 < j + 1 /\ i + 1 \in DOMAIN s /\ j + 1 \in DOMAIN s
      BY <1>3, <2>1, <2>2, <2>6
    <3> QED
      BY <1>6, <2>1, <3>1 DEF Sorted
  <2> QED
    BY <2>5, <2>6 DEF a, Sorted
<1> QED
  BY <1>1, <1>4, <1>5, <1>6

\* Every step keeps the lists in plan order.
LEMMA OrderStep ==
    ASSUME TypeOK, ControlInv, ListInv, OrderInv, Next
    PROVE  OrderInv'
<1>1. CASE PrepareSucceeds
  <2>1. CASE method = "construct"
    <3>1. /\ prepared' = Append(prepared, effect) /\ NextEffect
          /\ pending' = pending /\ accepted' = accepted
          /\ accepted = <<>> /\ pending = <<>>
      BY <1>1, <2>1 DEF PrepareSucceeds, Reinsert, ControlInv, ListInv
    <3>2. Sorted(prepared')
      BY <1>1, <2>1, <3>1, SortedFacts DEF PrepareSucceeds, Reinsert, OrderInv, TypeOK
    <3>3. \A d \in Listed(prepared') : d \in Nat /\ d <= effect
      <4>1. Listed(prepared') = Listed(prepared) \cup {effect}
        BY <3>1, ListContents
      <4>2. Below(prepared, effect) /\ Listed(prepared) \subseteq Effects
        BY <1>1, <2>1, ListContents DEF PrepareSucceeds, Reinsert, OrderInv
      <4> QED
        <5> TAKE d \in Listed(prepared')
        <5>1. effect \in Nat /\ d \in Nat
          BY <4>1, <4>2, EffectsFacts DEF TypeOK
        <5>2. d = effect \/ d < effect
          BY <4>1, <4>2 DEF Below
        <5> QED
          BY <5>1, <5>2
    <3>4. pc' = "prepare" => Below(prepared, effect)'
      BY <3>1, <3>3, EffectsFacts DEF NextEffect, Below, TypeOK
    <3> QED
      BY <2>1, <3>1, <3>2, <3>4, ListContents
      DEF OrderInv, Before, NextEffect
  <2>2. CASE method = "accept"
    <3>1. /\ pending' = <<effect>> \o pending
          /\ accepted' = accepted /\ prepared' = prepared
          /\ pc' = "publish" /\ method' = method
      BY <1>1, <2>2 DEF PrepareSucceeds, Reinsert
    <3>2. Sorted(pending')
      BY <1>1, <2>2, <3>1, SortedFacts DEF PrepareSucceeds, Reinsert, OrderInv, TypeOK
    <3> QED
      BY <1>1, <2>2, <3>1, <3>2, ListContents
      DEF PrepareSucceeds, Reinsert, OrderInv, Before, Below
  <2> QED
    BY <1>1, <2>1, <2>2 DEF PrepareSucceeds, Reinsert
<1>2. CASE PrepareRaises
  BY <1>2, ListTypes, ListContents, SortedFacts, EffectsFacts
  DEF PrepareRaises, ledger, report, OrderInv, TypeOK, ControlInv, ListInv, Above,
      Below, Before
<1>3. CASE PrepareExhausted
  <2>1. CASE method = "construct" /\ FailureAction[effect] = "SkipSampleReported"
    <3>1. /\ prepared' = prepared /\ NextEffect
          /\ pending' = pending /\ accepted' = accepted
          /\ accepted = <<>> /\ pending = <<>>
      BY <1>3, <2>1 DEF PrepareExhausted, KeepRest, ControlInv, ListInv
    <3>2. \A d \in Listed(prepared) : d \in Nat /\ d <= effect
      <4>1. Below(prepared, effect) /\ Listed(prepared) \subseteq Effects
        BY <1>3, <2>1, ListContents DEF PrepareExhausted, KeepRest, OrderInv
      <4> QED
        <5> TAKE d \in Listed(prepared)
        <5>1. effect \in Nat /\ d \in Nat
          BY <4>1, EffectsFacts DEF TypeOK
        <5>2. d = effect \/ d < effect
          BY <4>1 DEF Below
        <5> QED
          BY <5>1, <5>2
    <3>3. pc' = "prepare" => Below(prepared, effect)'
      BY <3>1, <3>2, EffectsFacts DEF NextEffect, Below, TypeOK
    <3> QED
      BY <2>1, <3>1, <3>3, ListContents DEF OrderInv, Before, NextEffect
  <2>2. CASE method = "construct" /\ FailureAction[effect] # "SkipSampleReported"
    BY <1>3, <2>2 DEF PrepareExhausted, KeepRest, StartDiscard, OrderInv
  <2>3. CASE method = "accept"
    <3>1. prepared = <<>> /\ prepared' = pending
      BY <1>3, <2>3, SortedFacts
      DEF PrepareExhausted, KeepRest, ControlInv, ListInv, TypeOK
    <3> QED
      BY <1>3, <2>3, <3>1, SortedFacts, ListContents
      DEF PrepareExhausted, KeepRest, StartCompensation, OrderInv, Before, TypeOK
  <2> QED
    BY <1>3, <2>1, <2>2, <2>3 DEF PrepareExhausted, KeepRest
<1>4. CASE Accept
  BY <1>4, ListTypes, ListContents, SortedFacts, EffectsFacts
  DEF Accept, report, OrderInv, TypeOK, ControlInv, ListInv, Above, Below, Before,
      ledger
<1>5. CASE PublishSucceeds
  BY <1>5, ListTypes, ListContents, SortedFacts, EffectsFacts, ZenonT(30)
  DEF PublishSucceeds, Advance, OrderInv, TypeOK, ControlInv, ListInv, Above, Below,
      Before, report, ledger
<1>6. CASE PublishRaises
  BY <1>6, ListTypes, ListContents, SortedFacts, EffectsFacts
  DEF PublishRaises, report, OrderInv, TypeOK, ControlInv, ListInv, Above, Below,
      Before, ledger
<1>7. CASE AcceptReturns
  BY <1>7, ListTypes, ListContents, SortedFacts, EffectsFacts
  DEF AcceptReturns, Resolve, ledger, report, OrderInv, TypeOK, ControlInv, ListInv,
      Above, Below, Before
<1>8. CASE FailedPublishRecovered
  BY <1>8, ListTypes, ListContents, SortedFacts, EffectsFacts
  DEF FailedPublishRecovered, RemovalSucceeds, ledger, MayRetry, Reprepare, OrderInv,
      TypeOK, ControlInv, ListInv, Above, Below, Before, report
<1>9. CASE FailedPublishFailsRun
  BY <1>9, ListTypes, ListContents, SortedFacts, EffectsFacts
  DEF FailedPublishFailsRun, StartCompensation, RemovalSucceeds, RemovalFails,
      MayRetry, KeepRest, OrderInv, TypeOK, ControlInv, ListInv, Above, Below, Before,
      report, ledger
<1>10. CASE CompensateOne
  BY <1>10, ListTypes, ListContents, SortedFacts, EffectsFacts
  DEF CompensateOne, RemovalSucceeds, RemovalFails, CleanUp, ledger, Current,
      OrderInv, TypeOK, ControlInv, ListInv, Above, Below, Before, report
<1>11. CASE CompensateDone
  BY <1>11, ListTypes, ListContents, SortedFacts, EffectsFacts
  DEF CompensateDone, Resolve, StartDiscard, OrderInv, TypeOK, ControlInv, ListInv,
      Above, Below, Before, report, ledger
<1>12. CASE DiscardOne
  BY <1>12, ListTypes, ListContents, SortedFacts, EffectsFacts
  DEF DiscardOne, RemovalSucceeds, RemovalFails, CleanUp, ledger, Current, OrderInv,
      TypeOK, ControlInv, ListInv, Above, Below, Before, report
<1>13. CASE DiscardDone
  BY <1>13, ListTypes, ListContents, SortedFacts, EffectsFacts
  DEF DiscardDone, Resolve, report, OrderInv, TypeOK, ControlInv, ListInv, Above,
      Below, Before, ledger
<1>14. CASE Reject
  BY <1>14, ListTypes, ListContents, SortedFacts, EffectsFacts
  DEF Reject, StartDiscard, ledger, OrderInv, TypeOK, ControlInv, ListInv, Above,
      Below, Before, report
<1>15. CASE RollbackAccepted
  BY <1>15, ListTypes, ListContents, SortedFacts, EffectsFacts
  DEF RollbackAccepted, StartCompensation, ledger, Compensable, OrderInv, TypeOK,
      ControlInv, ListInv, Above, Below, Before, report
<1>16. CASE Seal
  BY <1>16, ListTypes, ListContents, SortedFacts, EffectsFacts
  DEF Seal, report, OrderInv, TypeOK, ControlInv, ListInv, Above, Below, Before,
      ledger
<1>17. CASE FinalizeOne
  BY <1>17, ListTypes, ListContents, SortedFacts, EffectsFacts
  DEF FinalizeOne, report, OrderInv, TypeOK, ControlInv, ListInv, Above, Below,
      Before, ledger
<1>18. CASE FinalizeDone
  BY <1>18, ListTypes, ListContents, SortedFacts, EffectsFacts
  DEF FinalizeDone, Resolve, report, OrderInv, TypeOK, ControlInv, ListInv, Above,
      Below, Before, ledger
<1> QED
  BY <1>1, <1>2, <1>3, <1>4, <1>5, <1>6, <1>7, <1>8, <1>9, <1>10, <1>11, <1>12, <1>13,
     <1>14, <1>15, <1>16, <1>17, <1>18
  DEF Next, PublisherReturns, Resolution

\* An effect that is about to change hands is on no other list.
LEMMA Disjoint ==
    ASSUME TypeOK, OrderInv, pc # "finalize"
    PROVE  /\ pending # <<>> =>
                /\ Head(pending) \in Effects
                /\ Head(pending) \notin Listed(Tail(pending))
                /\ Head(pending) \notin Listed(accepted)
           /\ method = "construct" /\ pc = "prepare" => effect \notin Listed(prepared)
           /\ method = "accept" /\ pc \in {"prepare", "cleanup"} =>
                effect \notin Listed(accepted) \cup Listed(pending)
<1>1. Listed(prepared) \cup Listed(pending) \cup Listed(accepted) \subseteq Nat
  BY ListContents, EffectsFacts
<1>2. ASSUME pending # <<>>
      PROVE  /\ Head(pending) \in Effects /\ Head(pending) \in Nat
             /\ Head(pending) \in Listed(pending)
             /\ Listed(Tail(pending)) \subseteq Listed(pending)
             /\ Above(Tail(pending), Head(pending))
  BY <1>2, ListTypes, ListContents, SortedFacts, EffectsFacts DEF TypeOK, OrderInv
<1>3. \A n \in Nat : ~(n < n)
  OBVIOUS
<1>4. effect \in Nat
  BY EffectsFacts DEF TypeOK
<1> QED
  BY <1>1, <1>2, <1>3, <1>4 DEF OrderInv, Above, Below, Before

\* Listed effects keep the artifact their list stands for.
LEMMA StagedStep ==
    ASSUME IndInv, Next
    PROVE  StagedInv'
<1>1. CASE PrepareSucceeds
  <2>1. /\ ~Withdrawing /\ artifact'[effect] = "temporary"
        /\ \A e \in Effects \ {effect} : artifact'[e] = artifact[e]
        /\ skipped' = skipped /\ accepted' = accepted
    BY <1>1
    DEF PrepareSucceeds, Reinsert, report, IndInv, ControlInv, Withdrawing, TypeOK
  <2>2. CASE method = "construct"
    <3>1. /\ accepted = <<>> /\ pending = <<>> /\ pending' = <<>> /\ NextEffect
          /\ Listed(prepared') = Listed(prepared) \cup {effect}
          /\ effect \notin Listed(prepared)
          /\ Listed(prepared) \subseteq Effects /\ Listed(<<>>) = {}
      BY <1>1, <2>2, ListContents, Disjoint
      DEF PrepareSucceeds, Reinsert, IndInv, ControlInv, ListInv
    <3>2. \A e \in Listed(prepared') : artifact'[e] = "temporary" /\ skipped'[e] = "no"
      BY <1>1, <2>1, <2>2, <3>1 DEF PrepareSucceeds, Reinsert, IndInv, StagedInv
    <3>3. \A e \in Effects : e > effect =>
             e # effect /\ artifact'[e] = "none" /\ skipped'[e] = "no"
      BY <1>1, <2>1, <2>2, EffectsFacts
      DEF PrepareSucceeds, Reinsert, IndInv, StagedInv, TypeOK
    <3>4. CASE effect < N
      <4>1. /\ effect' = effect + 1 /\ effect' \in Effects /\ effect' > effect
            /\ pc' = pc
            /\ \A e \in Effects : e > effect' => e > effect
        BY <3>1, <3>4, EffectsFacts DEF NextEffect, IndInv, TypeOK
      <4> QED
        BY <1>1, <3>1, <3>2, <3>3, <4>1, <2>1 DEF PrepareSucceeds, Reinsert, StagedInv
    <3>5. CASE effect = N
      BY <1>1, <2>1, <3>1, <3>2, <3>5, EffectsFacts DEF NextEffect, StagedInv
    <3> QED
      BY <3>1, <3>4, <3>5 DEF NextEffect
  <2>3. CASE method = "accept"
    <3>1. /\ pc' = "publish" /\ method' = "accept" /\ prepared' = prepared
          /\ Listed(pending') = Listed(pending) \cup {effect}
          /\ effect \notin Listed(accepted) \cup Listed(pending)
          /\ prepared = <<>> /\ Listed(<<>>) = {}
          /\ Listed(accepted) \cup Listed(pending) \subseteq Effects
      BY <1>1, <2>3, ListContents, Disjoint
      DEF PrepareSucceeds, Reinsert, IndInv, ControlInv, ListInv
    <3> QED
      BY <1>1, <2>1, <2>3, <3>1 DEF PrepareSucceeds, Reinsert, IndInv, StagedInv
  <2> QED
    BY <1>1, <2>2, <2>3 DEF PrepareSucceeds, Reinsert
<1>2. CASE PrepareRaises
  BY <1>2, ListContents, Disjoint
  DEF PrepareRaises, ledger, report, IndInv, StagedInv, Withdrawing, TypeOK,
      ControlInv, ListInv
<1>3. CASE PrepareExhausted
  <2>1. /\ ~Withdrawing /\ artifact' = artifact /\ accepted' = accepted
    BY <1>3 DEF PrepareExhausted, KeepRest, IndInv, ControlInv, Withdrawing
  <2>2. CASE method = "construct" /\ FailureAction[effect] = "SkipSampleReported"
    <3>1. /\ accepted = <<>> /\ pending = <<>> /\ pending' = <<>> /\ NextEffect
          /\ prepared' = prepared /\ effect \notin Listed(prepared)
          /\ Listed(prepared) \subseteq Effects /\ Listed(<<>>) = {}
          /\ \A e \in Effects \ {effect} : skipped'[e] = skipped[e]
      BY <1>3, <2>2, ListContents, Disjoint
      DEF PrepareExhausted, KeepRest, IndInv, ControlInv, ListInv, TypeOK
    <3>2. \A e \in Listed(prepared) : artifact'[e] = "temporary" /\ skipped'[e] = "no"
      BY <1>3, <2>1, <2>2, <3>1 DEF PrepareExhausted, KeepRest, IndInv, StagedInv
    <3>3. \A e \in Effects : e > effect =>
             e # effect /\ artifact'[e] = "none" /\ skipped'[e] = "no"
      BY <1>3, <2>1, <2>2, <3>1, EffectsFacts
      DEF PrepareExhausted, KeepRest, IndInv, StagedInv, TypeOK
    <3>4. CASE effect < N
      <4>1. /\ effect' = effect + 1 /\ effect' \in Effects /\ effect' > effect
            /\ pc' = pc
            /\ \A e \in Effects : e > effect' => e > effect
        BY <3>1, <3>4, EffectsFacts DEF NextEffect, IndInv, TypeOK
      <4> QED
        BY <1>3, <3>1, <3>2, <3>3, <4>1, <2>1 DEF PrepareExhausted, KeepRest, StagedInv
    <3>5. CASE effect = N
      BY <1>3, <2>1, <3>1, <3>2, <3>5, EffectsFacts DEF NextEffect, StagedInv
    <3> QED
      BY <3>1, <3>4, <3>5 DEF NextEffect
  <2>3. CASE ~(method = "construct" /\ FailureAction[effect] = "SkipSampleReported")
    BY <1>3, <2>3
    DEF PrepareExhausted, KeepRest, StartDiscard, StartCompensation, StagedInv,
        Withdrawing
  <2> QED
    BY <2>2, <2>3
<1>4. CASE Accept
  BY <1>4, ListContents, Disjoint
  DEF Accept, report, IndInv, StagedInv, Withdrawing, TypeOK, ControlInv, ListInv,
      ledger
<1>5. CASE PublishSucceeds
  BY <1>5, ListContents, Disjoint, SMTT(30)
  DEF PublishSucceeds, Advance, IndInv, StagedInv, Withdrawing, TypeOK, ControlInv,
      ListInv, report, ledger
<1>6. CASE PublishRaises
  BY <1>6, ListContents, Disjoint, SMTT(30)
  DEF PublishRaises, report, IndInv, StagedInv, Withdrawing, TypeOK, ControlInv,
      ListInv, ledger
<1>7. CASE AcceptReturns
  BY <1>7, ListContents, Disjoint
  DEF AcceptReturns, Resolve, ledger, report, IndInv, StagedInv, Withdrawing, TypeOK,
      ControlInv, ListInv
<1>8. CASE FailedPublishRecovered
  BY <1>8, ListContents, Disjoint
  DEF FailedPublishRecovered, RemovalSucceeds, ledger, MayRetry, Reprepare, IndInv,
      StagedInv, Withdrawing, TypeOK, ControlInv, ListInv, report
<1>9. CASE FailedPublishFailsRun
  BY <1>9, ListContents, Disjoint
  DEF FailedPublishFailsRun, StartCompensation, RemovalSucceeds, RemovalFails,
      MayRetry, KeepRest, IndInv, StagedInv, Withdrawing, TypeOK, ControlInv, ListInv,
      report, ledger
<1>10. CASE CompensateOne
  BY <1>10, ListContents, Disjoint
  DEF CompensateOne, RemovalSucceeds, RemovalFails, CleanUp, ledger, Current, IndInv,
      StagedInv, Withdrawing, TypeOK, ControlInv, ListInv, report
<1>11. CASE CompensateDone
  BY <1>11, ListContents, Disjoint
  DEF CompensateDone, Resolve, StartDiscard, IndInv, StagedInv, Withdrawing, TypeOK,
      ControlInv, ListInv, report, ledger
<1>12. CASE DiscardOne
  BY <1>12, ListContents, Disjoint
  DEF DiscardOne, RemovalSucceeds, RemovalFails, CleanUp, ledger, Current, IndInv,
      StagedInv, Withdrawing, TypeOK, ControlInv, ListInv, report
<1>13. CASE DiscardDone
  BY <1>13, ListContents, Disjoint
  DEF DiscardDone, Resolve, report, IndInv, StagedInv, Withdrawing, TypeOK,
      ControlInv, ListInv, ledger
<1>14. CASE Reject
  BY <1>14, ListContents, Disjoint
  DEF Reject, StartDiscard, ledger, IndInv, StagedInv, Withdrawing, TypeOK,
      ControlInv, ListInv, report
<1>15. CASE RollbackAccepted
  BY <1>15, ListContents, Disjoint
  DEF RollbackAccepted, StartCompensation, ledger, Compensable, IndInv, StagedInv,
      Withdrawing, TypeOK, ControlInv, ListInv, report
<1>16. CASE Seal
  BY <1>16, ListContents, Disjoint
  DEF Seal, report, IndInv, StagedInv, Withdrawing, TypeOK, ControlInv, ListInv,
      ledger
<1>17. CASE FinalizeOne
  BY <1>17, ListContents, Disjoint
  DEF FinalizeOne, report, IndInv, StagedInv, Withdrawing, TypeOK, ControlInv,
      ListInv, ledger
<1>18. CASE FinalizeDone
  BY <1>18, ListContents, Disjoint
  DEF FinalizeDone, Resolve, report, IndInv, StagedInv, Withdrawing, TypeOK,
      ControlInv, ListInv, ledger
<1> QED
  BY <1>1, <1>2, <1>3, <1>4, <1>5, <1>6, <1>7, <1>8, <1>9, <1>10, <1>11, <1>12, <1>13,
     <1>14, <1>15, <1>16, <1>17, <1>18
  DEF Next, PublisherReturns, Resolution

\* No effect of the plan drops out: it is listed, in hand, skipped or still to come.
LEMMA PartitionStep ==
    ASSUME IndInv, Next
    PROVE  PartitionInv'
<1>1. CASE PrepareSucceeds
  <2>1. /\ ~Withdrawing /\ state # "sealed" /\ accepted' = accepted
        /\ \A e \in Effects \ {effect} : artifact'[e] = artifact[e]
        /\ skipped' = skipped
    BY <1>1
    DEF PrepareSucceeds, Reinsert, report, IndInv, ControlInv, Withdrawing, TypeOK
  <2>2. CASE method = "construct"
    <3>1. Listed(prepared') = Listed(prepared) \cup {effect} /\ pending' = pending
      BY <1>1, <2>2, ListContents DEF PrepareSucceeds, Reinsert, IndInv
    <3>2. NextEffect /\ effect \in Effects /\ effect \in Nat
      BY <1>1, <2>2, EffectsFacts DEF PrepareSucceeds, Reinsert, IndInv, TypeOK
    <3>3. \A e \in Effects : e > effect =>
             \/ e = effect' /\ pc' = "prepare"
             \/ method' = "construct" /\ e > effect'
      BY <1>1, <2>2, <3>2, EffectsFacts
      DEF PrepareSucceeds, Reinsert, NextEffect, IndInv, ControlInv
    <3> QED
      BY <2>1, <2>2, <3>1, <3>2, <3>3 DEF IndInv, PartitionInv, Held, InHand
  <2>3. CASE method = "accept"
    <3>1. Listed(pending') = Listed(pending) \cup {effect} /\ prepared' = prepared
      BY <1>1, <2>3, ListContents DEF PrepareSucceeds, Reinsert, IndInv
    <3> QED
      BY <2>1, <2>3, <3>1 DEF IndInv, PartitionInv, Held, InHand
  <2> QED
    BY <1>1, <2>2, <2>3 DEF PrepareSucceeds, Reinsert
<1>2. CASE PrepareRaises
  BY <1>2, ListContents, ListTypes, EffectsFacts
  DEF PrepareRaises, ledger, report, IndInv, StagedInv, PartitionInv, Held, InHand,
      Withdrawing, TypeOK, ControlInv, ListInv
<1>3. CASE PrepareExhausted
  BY <1>3, ListContents, ListTypes, EffectsFacts, SMTT(30)
  DEF PrepareExhausted, NextEffect, StartDiscard, StartCompensation, KeepRest, IndInv,
      StagedInv, PartitionInv, Held, InHand, Withdrawing, TypeOK, ControlInv, ListInv,
      report, ledger
<1>4. CASE Accept
  BY <1>4, ListContents, ListTypes, EffectsFacts
  DEF Accept, report, IndInv, StagedInv, PartitionInv, Held, InHand, Withdrawing,
      TypeOK, ControlInv, ListInv, ledger
<1>5. CASE PublishSucceeds
  BY <1>5, ListContents, ListTypes, EffectsFacts
  DEF PublishSucceeds, Advance, IndInv, StagedInv, PartitionInv, Held, InHand,
      Withdrawing, TypeOK, ControlInv, ListInv, report, ledger
<1>6. CASE PublishRaises
  <2>1. /\ ~Withdrawing /\ state # "sealed" /\ method # "construct"
        /\ ~InHand(effect) /\ pc # "prepare" /\ pc # "cleanup"
    BY <1>6 DEF PublishRaises, IndInv, ControlInv, Withdrawing, InHand
  <2>2. /\ Listed(pending) = Listed(pending') \cup {effect'}
        /\ effect' = Head(pending) /\ effect' \in Effects
        /\ prepared' = prepared /\ accepted' = accepted
    BY <1>6, ListContents DEF PublishRaises, IndInv
  <2>3. /\ pc' = "cleanup" /\ skipped' = skipped
        /\ \A e \in Effects \ {effect'} : artifact'[e] = artifact[e]
    BY <1>6, <2>2 DEF PublishRaises, report, IndInv, TypeOK
  <2> QED
    BY <2>1, <2>2, <2>3 DEF IndInv, PartitionInv, Held, InHand
<1>7. CASE AcceptReturns
  BY <1>7, ListContents, ListTypes, EffectsFacts
  DEF AcceptReturns, Resolve, ledger, report, IndInv, StagedInv, PartitionInv, Held,
      InHand, Withdrawing, TypeOK, ControlInv, ListInv
<1>8. CASE FailedPublishRecovered
  <2>1. /\ ~Withdrawing /\ method = "accept" /\ effect \in Effects
        /\ artifact'[effect] = "none"
        /\ \A e \in Effects \ {effect} : artifact'[e] = artifact[e]
    BY <1>8
    DEF FailedPublishRecovered, Reprepare, RemovalSucceeds, IndInv, ControlInv, Withdrawing, TypeOK
  <2>2. /\ prepared' = prepared /\ pending' = pending /\ accepted' = accepted
        /\ state' = state /\ method' = method /\ effect' = effect
    BY <1>8 DEF FailedPublishRecovered, Reprepare, ledger
  <2>3. CASE pc' = "prepare" /\ skipped' = skipped
    BY <1>8, <2>1, <2>2, <2>3
    DEF FailedPublishRecovered, Reprepare, IndInv, PartitionInv, Held, InHand, ControlInv
  <2>4. CASE skipped' = [skipped EXCEPT ![effect] = "publish"]
    BY <1>8, <2>1, <2>2, <2>4
    DEF FailedPublishRecovered, Reprepare, IndInv, PartitionInv, Held, InHand, ControlInv, TypeOK
  <2> QED
    BY <1>8, <2>3, <2>4 DEF FailedPublishRecovered, Reprepare
<1>9. CASE FailedPublishFailsRun
  BY <1>9, ListContents, ListTypes, EffectsFacts
  DEF FailedPublishFailsRun, StartCompensation, RemovalSucceeds, RemovalFails,
      MayRetry, KeepRest, IndInv, StagedInv, PartitionInv, Held, InHand, Withdrawing,
      TypeOK, ControlInv, ListInv, report, ledger
<1>10. CASE CompensateOne
  BY <1>10, ListContents, ListTypes, EffectsFacts
  DEF CompensateOne, RemovalSucceeds, RemovalFails, CleanUp, ledger, Current, IndInv,
      StagedInv, PartitionInv, Held, InHand, Withdrawing, TypeOK, ControlInv, ListInv,
      report
<1>11. CASE CompensateDone
  BY <1>11, ListContents, ListTypes, EffectsFacts
  DEF CompensateDone, Resolve, StartDiscard, IndInv, StagedInv, PartitionInv, Held,
      InHand, Withdrawing, TypeOK, ControlInv, ListInv, report, ledger
<1>12. CASE DiscardOne
  BY <1>12, ListContents, ListTypes, EffectsFacts
  DEF DiscardOne, RemovalSucceeds, RemovalFails, CleanUp, ledger, Current, IndInv,
      StagedInv, PartitionInv, Held, InHand, Withdrawing, TypeOK, ControlInv, ListInv,
      report
<1>13. CASE DiscardDone
  BY <1>13, ListContents, ListTypes, EffectsFacts
  DEF DiscardDone, Resolve, report, IndInv, StagedInv, PartitionInv, Held, InHand,
      Withdrawing, TypeOK, ControlInv, ListInv, ledger
<1>14. CASE Reject
  BY <1>14, ListContents, ListTypes, EffectsFacts
  DEF Reject, StartDiscard, ledger, IndInv, StagedInv, PartitionInv, Held, InHand,
      Withdrawing, TypeOK, ControlInv, ListInv, report
<1>15. CASE RollbackAccepted
  BY <1>15, ListContents, ListTypes, EffectsFacts
  DEF RollbackAccepted, StartCompensation, ledger, Compensable, IndInv, StagedInv,
      PartitionInv, Held, InHand, Withdrawing, TypeOK, ControlInv, ListInv, report
<1>16. CASE Seal
  BY <1>16, ListContents, ListTypes, EffectsFacts
  DEF Seal, report, IndInv, StagedInv, PartitionInv, Held, InHand, Withdrawing,
      TypeOK, ControlInv, ListInv, ledger
<1>17. CASE FinalizeOne
  BY <1>17, ListContents, ListTypes, EffectsFacts
  DEF FinalizeOne, report, IndInv, StagedInv, PartitionInv, Held, InHand, Withdrawing,
      TypeOK, ControlInv, ListInv, ledger
<1>18. CASE FinalizeDone
  BY <1>18, ListContents, ListTypes, EffectsFacts
  DEF FinalizeDone, Resolve, report, IndInv, StagedInv, PartitionInv, Held, InHand,
      Withdrawing, TypeOK, ControlInv, ListInv, ledger
<1> QED
  BY <1>1, <1>2, <1>3, <1>4, <1>5, <1>6, <1>7, <1>8, <1>9, <1>10, <1>11, <1>12, <1>13,
     <1>14, <1>15, <1>16, <1>17, <1>18
  DEF Next, PublisherReturns, Resolution

\* The reported cursors follow the accepted list.
LEMMA CursorStep ==
    ASSUME IndInv, Next
    PROVE  CursorInv'
<1>1. CASE PrepareSucceeds
  BY <1>1, ListContents
  DEF PrepareSucceeds, NextEffect, report, Reinsert, IndInv, CursorInv, TypeOK,
      ControlInv, ListInv, ledger
<1>2. CASE PrepareRaises
  BY <1>2, ListContents
  DEF PrepareRaises, ledger, report, IndInv, CursorInv, TypeOK, ControlInv, ListInv
<1>3. CASE PrepareExhausted
  BY <1>3, ListContents
  DEF PrepareExhausted, NextEffect, StartDiscard, StartCompensation, KeepRest, IndInv,
      CursorInv, TypeOK, ControlInv, ListInv, report, ledger
<1>4. CASE Accept
  BY <1>4, ListContents
  DEF Accept, report, IndInv, CursorInv, TypeOK, ControlInv, ListInv, ledger
<1>5. CASE PublishSucceeds
  BY <1>5, ListContents
  DEF PublishSucceeds, Advance, IndInv, CursorInv, TypeOK, ControlInv, ListInv,
      report, ledger
<1>6. CASE PublishRaises
  BY <1>6, ListContents
  DEF PublishRaises, report, IndInv, CursorInv, TypeOK, ControlInv, ListInv, ledger
<1>7. CASE AcceptReturns
  BY <1>7, ListContents
  DEF AcceptReturns, Resolve, ledger, report, IndInv, CursorInv, TypeOK, ControlInv,
      ListInv
<1>8. CASE FailedPublishRecovered
  BY <1>8, ListContents
  DEF FailedPublishRecovered, RemovalSucceeds, ledger, MayRetry, Reprepare, IndInv,
      CursorInv, TypeOK, ControlInv, ListInv, report
<1>9. CASE FailedPublishFailsRun
  BY <1>9, ListContents
  DEF FailedPublishFailsRun, StartCompensation, RemovalSucceeds, RemovalFails,
      MayRetry, KeepRest, IndInv, CursorInv, TypeOK, ControlInv, ListInv, report,
      ledger
<1>10. CASE CompensateOne
  BY <1>10, ListContents
  DEF CompensateOne, RemovalSucceeds, RemovalFails, CleanUp, ledger, Current, IndInv,
      CursorInv, TypeOK, ControlInv, ListInv, report
<1>11. CASE CompensateDone
  BY <1>11, ListContents
  DEF CompensateDone, Resolve, StartDiscard, IndInv, CursorInv, TypeOK, ControlInv,
      ListInv, report, ledger
<1>12. CASE DiscardOne
  BY <1>12, ListContents
  DEF DiscardOne, RemovalSucceeds, RemovalFails, CleanUp, ledger, Current, IndInv,
      CursorInv, TypeOK, ControlInv, ListInv, report
<1>13. CASE DiscardDone
  BY <1>13, ListContents
  DEF DiscardDone, Resolve, report, IndInv, CursorInv, TypeOK, ControlInv, ListInv,
      ledger
<1>14. CASE Reject
  BY <1>14, ListContents
  DEF Reject, StartDiscard, ledger, IndInv, CursorInv, TypeOK, ControlInv, ListInv,
      report
<1>15. CASE RollbackAccepted
  BY <1>15, ListContents
  DEF RollbackAccepted, StartCompensation, ledger, Compensable, IndInv, CursorInv,
      TypeOK, ControlInv, ListInv, report
<1>16. CASE Seal
  BY <1>16, ListContents
  DEF Seal, report, IndInv, CursorInv, TypeOK, ControlInv, ListInv, ledger
<1>17. CASE FinalizeOne
  BY <1>17, ListContents
  DEF FinalizeOne, report, IndInv, CursorInv, TypeOK, ControlInv, ListInv, ledger
<1>18. CASE FinalizeDone
  BY <1>18, ListContents
  DEF FinalizeDone, Resolve, report, IndInv, CursorInv, TypeOK, ControlInv, ListInv,
      ledger
<1> QED
  BY <1>1, <1>2, <1>3, <1>4, <1>5, <1>6, <1>7, <1>8, <1>9, <1>10, <1>11, <1>12, <1>13,
     <1>14, <1>15, <1>16, <1>17, <1>18
  DEF Next, PublisherReturns, Resolution

\* Sealing fixes what is visible; releases change none of it.
LEMMA SealedStep ==
    ASSUME IndInv, Next
    PROVE  SealedInv'
<1>1. CASE PrepareSucceeds
  <2>1. state # "sealed" /\ state' # "sealed" /\ Listed(finalizePending') = {}
    BY <1>1, ListContents
    DEF PrepareSucceeds, Reinsert, NextEffect, IndInv, ControlInv, ListInv
  <2>2. \A e \in Effects : artifact'[e] # "final"
    BY <1>1, <2>1 DEF PrepareSucceeds, Reinsert, IndInv, SealedInv, TypeOK
  <2> QED
    BY <2>1, <2>2 DEF SealedInv
<1>2. CASE PrepareRaises
  <2>1. state # "sealed" /\ state' # "sealed" /\ Listed(finalizePending') = {}
    BY <1>2, ListContents DEF PrepareRaises, ledger, IndInv, ControlInv, ListInv
  <2>2. \A e \in Effects : artifact'[e] # "final"
    BY <1>2, <2>1 DEF PrepareRaises, IndInv, SealedInv, TypeOK
  <2> QED
    BY <2>1, <2>2 DEF SealedInv
<1>3. CASE PrepareExhausted
  <2>1. state # "sealed" /\ state' # "sealed" /\ Listed(finalizePending') = {}
    BY <1>3, ListContents
    DEF PrepareExhausted, KeepRest, NextEffect, IndInv, ControlInv, ListInv
  <2>2. \A e \in Effects : artifact'[e] # "final"
    BY <1>3, <2>1 DEF PrepareExhausted, KeepRest, IndInv, SealedInv, TypeOK
  <2> QED
    BY <2>1, <2>2 DEF SealedInv
<1>4. CASE Accept
  <2>1. state # "sealed" /\ state' # "sealed" /\ Listed(finalizePending') = {}
    BY <1>4, ListContents DEF Accept, IndInv, ControlInv, ListInv
  <2>2. \A e \in Effects : artifact'[e] # "final"
    BY <1>4, <2>1 DEF Accept, IndInv, SealedInv, TypeOK
  <2> QED
    BY <2>1, <2>2 DEF SealedInv
<1>5. CASE PublishSucceeds
  <2>1. state # "sealed" /\ state' # "sealed" /\ Listed(finalizePending') = {}
    BY <1>5, ListContents DEF PublishSucceeds, Advance, IndInv, ControlInv, ListInv
  <2>2. \A e \in Effects : artifact'[e] # "final"
    BY <1>5, <2>1 DEF PublishSucceeds, Advance, IndInv, SealedInv, TypeOK
  <2> QED
    BY <2>1, <2>2 DEF SealedInv
<1>6. CASE PublishRaises
  <2>1. state # "sealed" /\ state' # "sealed" /\ Listed(finalizePending') = {}
    BY <1>6, ListContents DEF PublishRaises, IndInv, ControlInv, ListInv
  <2>2. \A e \in Effects : artifact'[e] # "final"
    BY <1>6, <2>1 DEF PublishRaises, IndInv, SealedInv, TypeOK
  <2> QED
    BY <2>1, <2>2 DEF SealedInv
<1>7. CASE AcceptReturns
  <2>1. state # "sealed" /\ state' # "sealed" /\ Listed(finalizePending') = {}
    BY <1>7, ListContents
    DEF AcceptReturns, Resolve, ledger, IndInv, ControlInv, ListInv
  <2>2. \A e \in Effects : artifact'[e] # "final"
    BY <1>7, <2>1 DEF AcceptReturns, IndInv, SealedInv, TypeOK
  <2> QED
    BY <2>1, <2>2 DEF SealedInv
<1>8. CASE FailedPublishRecovered
  <2>1. state # "sealed" /\ state' # "sealed" /\ Listed(finalizePending') = {}
    BY <1>8, ListContents
    DEF FailedPublishRecovered, Reprepare, ledger, IndInv, ControlInv, ListInv
  <2>2. \A e \in Effects : artifact'[e] # "final"
    BY <1>8, <2>1
    DEF FailedPublishRecovered, Reprepare, RemovalSucceeds, IndInv, SealedInv, TypeOK
  <2> QED
    BY <2>1, <2>2 DEF SealedInv
<1>9. CASE FailedPublishFailsRun
  <2>1. state # "sealed" /\ state' # "sealed" /\ Listed(finalizePending') = {}
    BY <1>9, ListContents
    DEF FailedPublishFailsRun, KeepRest, IndInv, ControlInv, ListInv
  <2>2. \A e \in Effects : artifact'[e] # "final"
    BY <1>9, <2>1
    DEF FailedPublishFailsRun, KeepRest, RemovalSucceeds, RemovalFails, IndInv,
        SealedInv, TypeOK
  <2> QED
    BY <2>1, <2>2 DEF SealedInv
<1>10. CASE CompensateOne
  <2>1. state # "sealed" /\ state' # "sealed" /\ Listed(finalizePending') = {}
    BY <1>10, ListContents
    DEF CompensateOne, Current, ledger, IndInv, ControlInv, ListInv
  <2>2. \A e \in Effects : artifact'[e] # "final"
    BY <1>10, <2>1
    DEF CompensateOne, Current, CleanUp, RemovalSucceeds, RemovalFails, IndInv,
        SealedInv, TypeOK
  <2> QED
    BY <2>1, <2>2 DEF SealedInv
<1>11. CASE CompensateDone
  <2>1. state # "sealed" /\ state' # "sealed" /\ Listed(finalizePending') = {}
    BY <1>11, ListContents DEF CompensateDone, Resolve, IndInv, ControlInv, ListInv
  <2>2. \A e \in Effects : artifact'[e] # "final"
    BY <1>11, <2>1 DEF CompensateDone, IndInv, SealedInv, TypeOK
  <2> QED
    BY <2>1, <2>2 DEF SealedInv
<1>12. CASE DiscardOne
  <2>1. state # "sealed" /\ state' # "sealed" /\ Listed(finalizePending') = {}
    BY <1>12, ListContents DEF DiscardOne, Current, ledger, IndInv, ControlInv, ListInv
  <2>2. \A e \in Effects : artifact'[e] # "final"
    BY <1>12, <2>1
    DEF DiscardOne, Current, CleanUp, RemovalSucceeds, RemovalFails, IndInv,
        SealedInv, TypeOK
  <2> QED
    BY <2>1, <2>2 DEF SealedInv
<1>13. CASE DiscardDone
  <2>1. state # "sealed" /\ state' # "sealed" /\ Listed(finalizePending') = {}
    BY <1>13, ListContents DEF DiscardDone, Resolve, IndInv, ControlInv, ListInv
  <2>2. \A e \in Effects : artifact'[e] # "final"
    BY <1>13, <2>1 DEF DiscardDone, IndInv, SealedInv, TypeOK
  <2> QED
    BY <2>1, <2>2 DEF SealedInv
<1>14. CASE Reject
  <2>1. state # "sealed" /\ state' # "sealed" /\ Listed(finalizePending') = {}
    BY <1>14, ListContents DEF Reject, ledger, IndInv, ControlInv, ListInv
  <2>2. \A e \in Effects : artifact'[e] # "final"
    BY <1>14, <2>1 DEF Reject, IndInv, SealedInv, TypeOK
  <2> QED
    BY <2>1, <2>2 DEF SealedInv
<1>15. CASE RollbackAccepted
  <2>1. state # "sealed" /\ state' # "sealed" /\ Listed(finalizePending') = {}
    BY <1>15, ListContents
    DEF RollbackAccepted, Compensable, ledger, IndInv, ControlInv, ListInv
  <2>2. \A e \in Effects : artifact'[e] # "final"
    BY <1>15, <2>1 DEF RollbackAccepted, Compensable, IndInv, SealedInv, TypeOK
  <2> QED
    BY <2>1, <2>2 DEF SealedInv
<1>16. CASE Seal
  <2>1. CASE state = "accepted"
    <3>1. /\ finalizePending' = accepted /\ state' = "sealed" /\ artifact' = artifact
          /\ cursors' = cursors /\ skipped' = skipped
          /\ pc = "idle" /\ method = "none" /\ prepared = <<>> /\ pending = <<>>
      BY <1>16, <2>1 DEF Seal, report, IndInv, ControlInv, ListInv
    <3>2. /\ \A e \in Listed(accepted) : artifact[e] = "published"
          /\ \A e \in Effects \ Listed(accepted) :
                artifact[e] = "none" /\ skipped[e] # "no"
          /\ cursors = Listed(accepted) /\ cursors \subseteq Effects
      BY <2>1, <3>1, ListContents
      DEF IndInv, StagedInv, PartitionInv, CursorInv, Withdrawing, Held, InHand
    <3> QED
      BY <3>1, <3>2 DEF SealedInv, Visible, Listed
  <2>2. CASE state = "sealed"
    BY <1>16, <2>2 DEF Seal, report, IndInv, SealedInv, Visible
  <2> QED
    BY <1>16, <2>1, <2>2 DEF Seal
<1>17. CASE FinalizeOne
  <2>1. /\ state = "sealed" /\ state' = "sealed"
        /\ finalizePending[k] \in Listed(finalizePending)
        /\ finalizePending' = finalizePending /\ cursors' = cursors
        /\ skipped' = skipped
    BY <1>17, ListIndices
    DEF FinalizeOne, report, IndInv, TypeOK, ControlInv, LoopInv
  <2>2. artifact[finalizePending[k]] \in {"published", "final"}
    BY <2>1 DEF IndInv, SealedInv
  <2>3. \A e \in Effects :
           /\ e # finalizePending[k] => artifact'[e] = artifact[e]
           /\ e = finalizePending[k] => artifact'[e] \in {"published", "final"}
    BY <1>17, <2>2 DEF FinalizeOne, IndInv, TypeOK
  <2>4. Listed(finalizePending) \subseteq Effects
    BY ListContents DEF IndInv
  <2> QED
    BY <2>1, <2>2, <2>3, <2>4 DEF IndInv, SealedInv, Visible
<1>18. CASE FinalizeDone
  BY <1>18, ListContents, ListIndices, ListTypes, EffectsFacts
  DEF FinalizeDone, Resolve, report, IndInv, SealedInv, Withdrawing, Held, InHand,
      Visible, StagedInv, PartitionInv, CursorInv, TypeOK, ControlInv, ListInv,
      LoopInv, ledger
<1> QED
  BY <1>1, <1>2, <1>3, <1>4, <1>5, <1>6, <1>7, <1>8, <1>9, <1>10, <1>11, <1>12, <1>13,
     <1>14, <1>15, <1>16, <1>17, <1>18
  DEF Next, PublisherReturns, Resolution

(***************************************************************************)
(* The invariant holds initially and every step preserves it.              *)
(***************************************************************************)
LEMMA IndInvInit == Init => IndInv
<1> SUFFICES ASSUME Init PROVE IndInv
  OBVIOUS
<1>1. TypeOK
  BY EffectsFacts, SequenceFacts
  DEF Init, TypeOK, States, Methods, Calls, ArtifactStates
<1>2. ControlInv /\ ListInv
  BY DEF Init, ControlInv, ListInv
<1>3. Listed(<<>>) = {} /\ Sorted(<<>>)
  BY ListContents, SequenceFacts, <1>1 DEF Sorted
<1>4. LoopInv /\ OrderInv /\ NoOrphan
  BY <1>3
  DEF Init, LoopInv, OrderInv, NoOrphan, PublicationsAreHeld, FailedPreparesShow,
      Before, Below
<1>5. StagedInv /\ CursorInv /\ SealedInv
  BY <1>3, EffectsFacts DEF Init, StagedInv, CursorInv, SealedInv
<1>6. PartitionInv
  BY EffectsFacts DEF Init, PartitionInv, InHand, Effects
<1> QED
  BY <1>1, <1>2, <1>4, <1>5, <1>6 DEF IndInv

\* Every step preserves the inductive invariant.
LEMMA IndInvStep == IndInv /\ [Next]_vars => IndInv'
<1> SUFFICES ASSUME IndInv, [Next]_vars PROVE IndInv'
  OBVIOUS
<1>1. CASE Next
  BY <1>1, TypeStep, ControlStep, ListStep, LoopStep, OrderStep, StagedStep,
     PartitionStep, CursorStep, SealedStep, HeldStep, ShowStep
  DEF IndInv, NoOrphan
<1>2. CASE UNCHANGED vars
  <2> USE <1>2 DEF vars, ledger, report
  <2>1. TypeOK' /\ ControlInv' /\ ListInv'
    BY DEF IndInv, TypeOK, ControlInv, ListInv
  <2>2. LoopInv' /\ OrderInv'
    BY DEF IndInv, LoopInv, OrderInv, Sorted, Below, Above, Before, Listed
  <2>3. StagedInv'
    BY DEF IndInv, StagedInv, Withdrawing, Listed
  <2>4. PartitionInv'
    BY DEF IndInv, PartitionInv, Withdrawing, Held, InHand, Listed
  <2>5. CursorInv' /\ SealedInv'
    BY DEF IndInv, CursorInv, SealedInv, Visible, Listed
  <2>6. NoOrphan'
    BY DEF IndInv, NoOrphan, PublicationsAreHeld, FailedPreparesShow, Listed
  <2> QED
    BY <2>1, <2>2, <2>3, <2>4, <2>5, <2>6 DEF IndInv
<1> QED
  BY <1>1, <1>2

\* The inductive invariant holds in every reachable state.
LEMMA Invariance == Spec => []IndInv
  BY IndInvInit, IndInvStep, PTL DEF Spec

\* The transaction's variables keep their shape.
THEOREM TypeCorrect == Spec => []TypeOK
<1>1. IndInv => TypeOK
  BY DEF IndInv
<1> QED
  BY <1>1, Invariance, PTL

(***************************************************************************)
(* For every plan and every outcome of the publisher calls, no method      *)
(* loses track of a publication that prepare handed over (_prepared,       *)
(* _accepted, _finalize_pending, the local lists of accept and seal), and  *)
(* a failed prepare that left a temporary shows in a report or an error,   *)
(* unless its sample is retried (_prepare_one).                            *)
(***************************************************************************)
THEOREM NothingForgotten == Spec => []NoOrphan
<1>1. IndInv => NoOrphan
  BY DEF IndInv
<1> QED
  BY <1>1, Invariance, PTL

(***************************************************************************)
(* A rejected transaction is clean; a failed one reports every leftover.   *)
(***************************************************************************)
THEOREM WithdrawalAccounted == Spec => []WithdrawalIsAccounted
<1>1. IndInv => WithdrawalIsAccounted
  <2> SUFFICES ASSUME IndInv, state \in {"rejected", "failed"}
               PROVE  /\ state = "rejected" => \A e \in Effects : artifact[e] = "none"
                      /\ cursors = {}
                      /\ \A e \in Effects : artifact[e] # "none" => e \in diagnostics
    BY DEF WithdrawalIsAccounted
  <2>1. /\ prepared = <<>> /\ pending = <<>> /\ accepted = <<>>
        /\ finalizePending = <<>> /\ pc # "cleanup" /\ Listed(<<>>) = {}
        /\ state = "rejected" => diagnostics = {}
    BY ListContents DEF IndInv, ControlInv, ListInv
  <2>2. \A e \in Effects : artifact[e] # "final"
    BY DEF IndInv, SealedInv
  <2>3. \A e \in Effects : artifact[e] # "none" => e \in diagnostics
    BY <2>1, <2>2 DEF IndInv, NoOrphan, PublicationsAreHeld
  <2> QED
    BY <2>1, <2>3 DEF IndInv, CursorInv
<1> QED
  BY <1>1, Invariance, PTL

(***************************************************************************)
(* An accepted transaction advances the cursors of exactly the samples     *)
(* that are visible; the others were skipped, with a report.               *)
(***************************************************************************)
THEOREM AcceptanceExact == Spec => []AcceptanceIsExact
<1>1. IndInv => AcceptanceIsExact
  <2> SUFFICES ASSUME IndInv, state \in {"accepted", "sealed"},
                      method # "rollback_accepted"
               PROVE  /\ cursors = Visible
                      /\ \A e \in Effects \ cursors :
                            skipped[e] # "no" /\ artifact[e] = "none"
    BY DEF AcceptanceIsExact
  <2>1. CASE state = "sealed"
    BY <2>1 DEF IndInv, SealedInv
  <2>2. CASE state = "accepted"
    <3>1. /\ pc = "idle" /\ method = "none" /\ prepared = <<>> /\ pending = <<>>
          /\ Listed(<<>>) = {} /\ Listed(accepted) \subseteq Effects
      BY <2>2, ListContents DEF IndInv, ControlInv, ListInv, TypeOK, Methods
    <3>2. /\ \A e \in Listed(accepted) : artifact[e] = "published"
          /\ \A e \in Effects \ Listed(accepted) :
                artifact[e] = "none" /\ skipped[e] # "no"
          /\ cursors = Listed(accepted)
      BY <2>2, <3>1
      DEF IndInv, StagedInv, PartitionInv, CursorInv, Withdrawing, Held, InHand
    <3> QED
      BY <3>1, <3>2 DEF Visible
  <2> QED
    BY <2>1, <2>2
<1> QED
  BY <1>1, Invariance, PTL

(***************************************************************************)
(* No step after seal withdraws an artifact or reopens the transaction.    *)
(***************************************************************************)
THEOREM SealIsFinal == Spec => SealedIsForever
<1>1. IndInv /\ IndInv' /\ [Next]_vars
        => [state = "sealed" => state' = "sealed" /\ Visible' = Visible]_vars
  <2> SUFFICES ASSUME IndInv, IndInv', Next, state = "sealed"
               PROVE  state' = "sealed" /\ Visible' = Visible
    OBVIOUS
  <2>1. pc \in {"idle", "finalize"} /\ method \in {"none", "seal"}
    BY DEF IndInv, ControlInv, TypeOK, Calls, Methods
  <2>2. Seal \/ FinalizeOne \/ FinalizeDone
    BY <2>1
    DEF Next, PublisherReturns, Resolution, PrepareSucceeds, Reinsert, PrepareRaises,
        PrepareExhausted, KeepRest, Accept, PublishSucceeds, Advance, PublishRaises, AcceptReturns,
        FailedPublishRecovered, Reprepare, FailedPublishFailsRun, CompensateOne, Current, CompensateDone,
        DiscardOne, DiscardDone, Reject, RollbackAccepted, Compensable
  <2>3. state' = "sealed" /\ cursors' = cursors
    BY <2>2 DEF Seal, FinalizeOne, FinalizeDone, Resolve, report
  <2> QED
    BY <2>3 DEF IndInv, SealedInv
<1> QED
  BY <1>1, Invariance, PTL DEF Spec, SealedIsForever

(***************************************************************************)
(* Samples become visible in plan order, so the checkpoint at the end of   *)
(* the plan follows every sample whose cursor it records.                  *)
(***************************************************************************)
THEOREM PlanOrder == Spec => PublishedInPlanOrder
<1>1. IndInv /\ [Next]_vars
        => [\A e \in cursors' \ cursors : \A d \in Effects :
              d < e => d \in cursors \/ skipped[d] # "no"]_vars
  <2> SUFFICES ASSUME IndInv, Next,
                      NEW e \in cursors' \ cursors, NEW d \in Effects, d < e
               PROVE  d \in cursors \/ skipped[d] # "no"
    OBVIOUS
  <2>1. PublishSucceeds
    BY DEF Next, PublisherReturns, Resolution, PrepareSucceeds, Reinsert, PrepareRaises,
           PrepareExhausted, KeepRest, Accept, PublishRaises, AcceptReturns,
           FailedPublishRecovered, Reprepare, FailedPublishFailsRun, CompensateOne, Current, CompensateDone,
           DiscardOne, DiscardDone, Reject, RollbackAccepted, Compensable, Seal, FinalizeOne,
           FinalizeDone, report
  <2>2. /\ e = Head(pending) /\ pending # <<>> /\ pc = "publish"
        /\ method = "accept" /\ state = "staged" /\ prepared = <<>>
    BY <2>1 DEF PublishSucceeds, Advance, IndInv, ControlInv, ListInv
  <2>3. /\ Listed(<<>>) = {} /\ Above(Tail(pending), e)
        /\ Listed(pending) = Listed(Tail(pending)) \cup {e}
    BY <2>2, ListContents, SortedFacts DEF IndInv, TypeOK, OrderInv
  <2>4. e \in Nat /\ d \in Nat /\ Listed(pending) \subseteq Effects
    BY <2>2, ListTypes, ListContents, EffectsFacts DEF IndInv
  <2>5. d \notin Listed(pending)
    <3>1. d # e /\ ~(e < d)
      BY <2>4
    <3> QED
      BY <2>3, <3>1 DEF Above
  <2>6. d \in Listed(accepted) \/ skipped[d] # "no"
    BY <2>2, <2>3, <2>5 DEF IndInv, PartitionInv, Withdrawing, Held, InHand
  <2> QED
    BY <2>2, <2>6 DEF IndInv, CursorInv
<1> QED
  BY <1>1, Invariance, PTL DEF Spec, PublishedInPlanOrder

\* The compensation loop has tried every publication behind its index.
ReverseInv ==
    pc = "compensate" => \A i \in DOMAIN accepted : i > k =>
        accepted[i] \in rolledBack \cup diagnostics

LEMMA ReverseStep ==
    ASSUME IndInv, ReverseInv, [Next]_vars
    PROVE  ReverseInv'
<1> USE DEF ReverseInv
<1>1. /\ accepted \in Seq(Effects) /\ k \in Nat
      /\ DOMAIN accepted = 1 .. Len(accepted) /\ Len(accepted) \in Nat
  BY DEF IndInv, TypeOK
<1>2. CASE StartCompensation /\ accepted' = accepted
  BY <1>1, <1>2 DEF StartCompensation
<1>3. CASE CompensateOne
  <2>1. /\ pc = "compensate" /\ k > 0 /\ k' = k - 1 /\ accepted' = accepted
        /\ CleanUp(accepted[k])
    BY <1>3 DEF CompensateOne, Current, ledger
  <2>2. /\ accepted[k] \in rolledBack' \cup diagnostics'
        /\ rolledBack \subseteq rolledBack' /\ diagnostics \subseteq diagnostics'
    BY <2>1 DEF CleanUp
  <2>3. \A i \in DOMAIN accepted : i > k - 1 => i = k \/ i > k
    BY <1>1
  <2> QED
    BY <2>1, <2>2, <2>3
<1>4. CASE pc' # "compensate"
  BY <1>4
<1>5. CASE UNCHANGED <<pc, k, accepted, rolledBack, diagnostics>>
  BY <1>5
<1>6. \/ StartCompensation /\ accepted' = accepted
      \/ CompensateOne
      \/ pc' # "compensate"
      \/ UNCHANGED <<pc, k, accepted, rolledBack, diagnostics>>
  BY DEF Next, PublisherReturns, Resolution, PrepareSucceeds, PrepareRaises,
         PrepareExhausted, NextEffect, StartDiscard, Accept, PublishSucceeds,
         PublishRaises, AcceptReturns, Resolve, FailedPublishRecovered,
         Reprepare, FailedPublishFailsRun, CompensateDone, DiscardOne,
         DiscardDone, Reject, RollbackAccepted, Seal, FinalizeOne,
         FinalizeDone, vars, report, ledger
<1> QED
  BY <1>2, <1>3, <1>4, <1>5, <1>6

\* Outside compensation and release no step touches a published sample.
LEMMA PublishedIsKept ==
    ASSUME IndInv, Next, ~CompensateOne, NEW e \in cursors,
           artifact[e] = "published"
    PROVE  artifact'[e] \in {"published", "final"}
<1>1. /\ e \in Effects /\ artifact \in [Effects -> ArtifactStates]
      /\ effect \in Effects
  BY DEF IndInv, TypeOK
<1>2. CASE artifact' = artifact
  BY <1>2
<1>3. CASE PrepareSucceeds \/ PublishRaises \/ FailedPublishRecovered
           \/ FailedPublishFailsRun
  <2>1. /\ state \in {"preparing", "staged"} /\ pc # "finalize"
        /\ method = "construct" \/ method = "accept"
        /\ pc \in {"prepare", "publish", "cleanup"}
    BY <1>3 DEF PrepareSucceeds, PublishRaises, FailedPublishRecovered,
                FailedPublishFailsRun, IndInv, ControlInv
  <2>2. e \in Listed(accepted)
    BY <2>1 DEF IndInv, CursorInv
  <2>3. method = "accept"
    <3>1. accepted # <<>>
      BY <2>2, ListContents DEF IndInv
    <3> QED
      BY <2>1, <3>1 DEF IndInv, ListInv, ControlInv
  <2>4. /\ pending # <<>> => e # Head(pending)
        /\ pc \in {"prepare", "cleanup"} => e # effect
    BY <2>1, <2>2, <2>3, Disjoint DEF IndInv
  <2> QED
    BY <1>1, <1>3, <2>4
    DEF PrepareSucceeds, PublishRaises, FailedPublishRecovered,
        FailedPublishFailsRun, RemovalSucceeds, RemovalFails
<1>4. CASE PublishSucceeds
  BY <1>1, <1>4 DEF PublishSucceeds
<1>5. CASE DiscardOne
  <2>1. /\ state \in {"preparing", "staged"} /\ accepted = <<>>
    BY <1>5 DEF DiscardOne, IndInv, ControlInv, ListInv
  <2>2. cursors = {}
    BY <2>1, ListContents DEF IndInv, CursorInv
  <2> QED
    BY <2>2
<1>6. CASE FinalizeOne
  BY <1>1, <1>6 DEF FinalizeOne
<1> QED
  BY <1>2, <1>3, <1>4, <1>5, <1>6
  DEF Next, PublisherReturns, Resolution, PrepareRaises, PrepareExhausted,
      Accept, AcceptReturns, CompensateDone, DiscardDone, Reject,
      RollbackAccepted, Seal, FinalizeDone

(***************************************************************************)
(* Compensation runs backwards (reversed(self._accepted)): no published    *)
(* sample is withdrawn before the withdrawal of every later one was tried. *)
(***************************************************************************)
THEOREM ReverseOrder == Spec => CompensatedInReverse
<1>1. Init => ReverseInv
  BY DEF Init, ReverseInv
<1>2. IndInv /\ ReverseInv /\ [Next]_vars => ReverseInv'
  BY ReverseStep
<1>3. IndInv /\ ReverseInv /\ [Next]_vars
        => [\A e \in cursors :
              artifact[e] = "published" /\ artifact'[e] # "published"
              => artifact'[e] = "final" \/
                 \A d \in cursors : d > e => d \in rolledBack \cup diagnostics]_vars
  <2> SUFFICES ASSUME IndInv, ReverseInv, Next, NEW e \in cursors,
                      artifact[e] = "published", artifact'[e] # "published",
                      artifact'[e] # "final", NEW d \in cursors, d > e
               PROVE  d \in rolledBack \cup diagnostics
    OBVIOUS
  <2>1. CompensateOne
    BY PublishedIsKept
  <2>2. /\ pc = "compensate" /\ k > 0 /\ CleanUp(accepted[k])
        /\ cursors = Listed(accepted)
    BY <2>1 DEF CompensateOne, Current, IndInv, ControlInv, CursorInv
  <2>3. /\ k \in 1 .. Len(accepted) /\ DOMAIN accepted = 1 .. Len(accepted)
        /\ \A i \in 1 .. Len(accepted) : accepted[i] \in Effects
    BY <2>2 DEF IndInv, TypeOK, LoopInv
  <2>4. e = accepted[k]
    <3>1. artifact' = artifact \/ \E v \in ArtifactStates :
             artifact' = [artifact EXCEPT ![accepted[k]] = v]
      BY <2>2 DEF CleanUp, RemovalSucceeds, RemovalFails, ArtifactStates
    <3>2. e \in Effects /\ artifact \in [Effects -> ArtifactStates]
      BY DEF IndInv, TypeOK
    <3> QED
      BY <3>1, <3>2
  <2>5. PICK i \in 1 .. Len(accepted) : d = accepted[i]
    BY <2>2, <2>3 DEF Listed
  <2>6. i > k
    <3>1. i < k => accepted[i] < accepted[k]
      BY <2>3 DEF IndInv, OrderInv, Sorted
    <3>2. e \in Nat /\ d \in Nat
      BY <2>3, <2>4, <2>5, EffectsFacts
    <3>3. i \in Nat /\ k \in Nat
      BY DEF IndInv, TypeOK
    <3> QED
      BY <2>4, <2>5, <3>1, <3>2, <3>3
  <2> QED
    BY <2>2, <2>3, <2>5, <2>6 DEF ReverseInv
<1> QED
  BY <1>1, <1>2, <1>3, Invariance, PTL DEF Spec, CompensatedInReverse

----------------------------------------------------------------------------------
(***************************************************************************)
(* The refinement of ConsumerContract: of all the steps of a transaction   *)
(* only the ends of its public methods are visible to the envelope, and    *)
(* each of them is one step of the contract.                               *)
(***************************************************************************)

Omissible == {e \in Effects : FailureAction[e] = "SkipSampleReported"}

\* Only a sample whose action is SkipSampleReported is ever skipped.
SkipInv == \A e \in Effects : skipped[e] # "no" => e \in Omissible

\* What the proof of a step needs on both of its sides.
ContractInv == IndInv /\ SkipInv /\ AcceptanceIsExact

\* A step changes the failure reports only under the action that skips.
LEMMA SkipStep ==
  ASSUME IndInv, SkipInv, [Next]_vars
  PROVE  SkipInv'
<1> USE DEF SkipInv, Omissible
<1>1. effect \in Effects /\ skipped \in [Effects -> {"no", "prepare", "publish"}]
  BY DEF IndInv, TypeOK
<1>2. CASE PrepareExhausted
  BY <1>1, <1>2 DEF PrepareExhausted
<1>3. CASE FailedPublishRecovered
  BY <1>1, <1>3 DEF FailedPublishRecovered
<1>4. CASE FailedPublishFailsRun
  BY <1>1, <1>4 DEF FailedPublishFailsRun
<1>5. CASE skipped' = skipped
  BY <1>5
<1>6. \/ PrepareExhausted \/ FailedPublishRecovered \/ FailedPublishFailsRun
      \/ skipped' = skipped
  BY DEF Next, PublisherReturns, Resolution, PrepareSucceeds, PrepareRaises,
         Accept, PublishSucceeds, PublishRaises, AcceptReturns, CompensateOne,
         CompensateDone, DiscardOne, DiscardDone, Reject, RollbackAccepted,
         Seal, FinalizeOne, FinalizeDone, report, vars
<1> QED
  BY <1>2, <1>3, <1>4, <1>5, <1>6

(***************************************************************************)
(* The steps the envelope can see.                                         *)
(***************************************************************************)
Hidden ==
    /\ \/ state' = state
       \/ state = "preparing" /\ state' = "staged"
    /\ state \in {"accepted", "sealed"} => cursors' = cursors
    /\ state \in {"rejected", "failed"} => artifact' = artifact

Accepts == state = "staged" /\ state' = "accepted" /\ method' = "none"

Withdraws ==
    /\ state \in {"preparing", "staged", "accepted"}
    /\ state' \in {"rejected", "failed"}

Seals == state = "accepted" /\ state' = "sealed" /\ cursors' = cursors

LEMMA VisibleSteps ==
  ASSUME IndInv, Next
  PROVE  Hidden \/ Accepts \/ Withdraws \/ Seals
<1> USE DEF Hidden, Accepts, Withdraws, Seals
<1>1. /\ state \in States /\ method \in Methods
      /\ ControlInv
  BY DEF IndInv, TypeOK
<1>2. /\ pc = "publish" => state = "staged"
      /\ pc = "cleanup" => state = "staged"
      /\ pc = "prepare" => state \in {"preparing", "staged"}
      /\ pc = "compensate" => state \in {"staged", "accepted"}
      /\ pc = "discard" => state \in {"preparing", "staged"}
      /\ pc = "finalize" => state = "sealed"
      /\ method = "accept" => state = "staged"
      /\ method = "construct" => state = "preparing"
  BY <1>1 DEF ControlInv
<1>3. CASE PrepareSucceeds
  BY <1>2, <1>3 DEF PrepareSucceeds, NextEffect
<1>4. CASE PrepareRaises
  BY <1>2, <1>4 DEF PrepareRaises
<1>5. CASE PrepareExhausted
  BY <1>2, <1>5 DEF PrepareExhausted, NextEffect
<1>6. CASE PublishSucceeds \/ PublishRaises
  BY <1>2, <1>6 DEF PublishSucceeds, PublishRaises
<1>7. CASE AcceptReturns
  BY <1>2, <1>7 DEF AcceptReturns, Resolve
<1>8. CASE FailedPublishRecovered \/ FailedPublishFailsRun
  BY <1>2, <1>8 DEF FailedPublishRecovered, FailedPublishFailsRun
<1>9. CASE CompensateOne \/ DiscardOne
  BY <1>2, <1>9 DEF CompensateOne, DiscardOne
<1>10. CASE CompensateDone
  BY <1>2, <1>10 DEF CompensateDone, Resolve
<1>11. CASE DiscardDone
  BY <1>2, <1>11 DEF DiscardDone, Resolve
<1>12. CASE Accept \/ Reject
  BY <1>12 DEF Accept, Reject, report
<1>13. CASE RollbackAccepted
  BY <1>13 DEF RollbackAccepted, Compensable
<1>14. CASE Seal
  BY <1>14 DEF Seal, report
<1>15. CASE FinalizeOne
  BY <1>2, <1>15 DEF FinalizeOne, report
<1>16. CASE FinalizeDone
  BY <1>2, <1>16 DEF FinalizeDone, Resolve, report
<1> QED
  BY <1>3, <1>4, <1>5, <1>6, <1>7, <1>8, <1>9, <1>10, <1>11, <1>12, <1>13,
     <1>14, <1>15, <1>16
  DEF Next, PublisherReturns, Resolution

\* Every step of the transaction is a step of the contract or invisible.
LEMMA ContractStep ==
  ASSUME ContractInv, ContractInv', [Next]_vars
  PROVE  [Contract!Next]_(Contract!contractVars)
<1> USE DEF ContractInv, Contract!contractVars, ContractPhase
<1>1. CASE UNCHANGED vars
  BY <1>1 DEF vars, report
<1>2. CASE Next /\ Hidden
  BY <1>2 DEF Hidden
<1>3. CASE Next /\ Accepts
  <2>1. Effects \ cursors' \in SUBSET Omissible
    BY <1>3 DEF Accepts, AcceptanceIsExact, SkipInv
  <2>2. cursors' = Effects \ (Effects \ cursors')
    BY DEF IndInv, TypeOK
  <2>3. Contract!Accept
    BY <1>3, <2>1, <2>2 DEF Accepts, Contract!Accept, Omissible
  <2> QED
    BY <2>3 DEF Contract!Next
<1>4. CASE Next /\ Withdraws
  <2>1. Contract!Withdraw
    BY <1>4 DEF Withdraws, Contract!Withdraw
  <2> QED
    BY <2>1 DEF Contract!Next
<1>5. CASE Next /\ Seals
  <2>1. Contract!Seal
    BY <1>5 DEF Seals, Contract!Seal
  <2> QED
    BY <2>1 DEF Contract!Next
<1> QED
  BY <1>1, <1>2, <1>3, <1>4, <1>5, VisibleSteps

(***************************************************************************)
(* For every plan, every assignment of failure actions and every outcome   *)
(* of the publisher calls, the envelope sees a transaction that is         *)
(* accepted or withdrawn as a whole and never changes after seal.          *)
(***************************************************************************)
THEOREM ContractHolds == Spec => ImplementsContract
<1>1. Init => SkipInv
  BY DEF Init, SkipInv
<1>2. IndInv /\ SkipInv /\ [Next]_vars => SkipInv'
  BY SkipStep
<1>3. Spec => []SkipInv
  BY <1>1, <1>2, Invariance, PTL DEF Spec
<1>4. Spec => []ContractInv
  BY <1>3, Invariance, AcceptanceExact, PTL DEF ContractInv
<1>5. Init => Contract!Init
  BY DEF Init, Contract!Init, ContractPhase
<1>6. ContractInv /\ ContractInv' /\ [Next]_vars
        => [Contract!Next]_(Contract!contractVars)
  BY ContractStep
<1> QED
  BY <1>4, <1>5, <1>6, PTL DEF Spec, ImplementsContract, Contract!Spec

--------------------------------------------------------------------------------
(***************************************************************************)
(* The file behind one effect.  The publisher a transaction calls stages,  *)
(* publishes, discards and rolls back a file in a directory it shares with *)
(* other processes: ArtifactPublication, whose names differ from those of  *)
(* the transaction.                                                        *)
(***************************************************************************)

CallPoints == {"idle", "verify", "inspect", "link", "linked", "compare",
               "detach", "authenticate", "evidence", "conclude"}
CallRecords == [op : {"none", "publish", "discard", "rollback"}, pc : CallPoints,
                path : Paths \cup {"none"}, dir : {0} \cup Directories,
                failed : BOOLEAN]

\* How many private directories the call in progress may still make.
Remaining ==
    CASE call.pc \in {"idle", "conclude", "evidence"} -> 0
      [] call.pc = "detach" -> IF call.path = "target" THEN 2 ELSE 1
      [] call.pc = "authenticate" -> IF call.path = "target" THEN 1 ELSE 0
      [] OTHER -> 1

\* A call makes at most two directories, so a fresh one is always left.
DirectoryInv == \A d \in Directories : ~Unused(d) => d <= 2 * calls - Remaining

\* What a call is doing, and which path it removes.
PointInv ==
    /\ call.pc \in {"verify", "inspect", "link", "linked", "compare", "evidence"} =>
          call.op = "publish"
    /\ call.pc \in {"detach", "authenticate"} =>
          /\ call.path \in Paths
          /\ call.path = "target" => call.op = "rollback" /\ staged.created
    /\ call.pc = "authenticate" =>
          call.dir \in Directories /\ quarantine[call.dir] # None
    /\ call.pc # "idle" => calls # 0
    /\ call.op = "publish" => "publish" \in staged.tried

\* While a call may remove anything the descriptor keeps the staged inode's number
\* from being used again; a target made by this file has an owner.
OwnerInv ==
    /\ staged.descriptor \/ (call.pc = "idle" /\ (staged.discarded \/ staged.finalized))
    /\ staged.descriptor => Ours \notin others
    /\ call.pc \in {"verify", "inspect", "link", "compare"} \/ "publish" \notin staged.tried
          => ~staged.created
    /\ staged.created => staged.targetOwner # None

\* A target this file made is owned by the staged inode until the evidence is read,
\* and by the inode of the evidence from then on.
TargetInv ==
    /\ staged.created => staged.targetOwner \in {Ours, staged.evidence}
    /\ \/ "publish" \notin staged.tried
       \/ call.op = "publish" /\ call.pc # "conclude"
       => staged.evidence = None

FileInv ==
    /\ FileTypeOK /\ DirectoryInv /\ PointInv /\ OwnerInv /\ TargetInv
    /\ LeftIsRecorded
    /\ OthersSurvive

LEMMA LeastMember ==
    ASSUME NEW S \in SUBSET Nat, NEW b \in S
    PROVE  \E m \in S : \A e \in S : m <= e
<1> DEFINE R == {ss \in Nat \X Nat : ss[1] < ss[2]}
<1>1. IsWellFoundedOn(R, Nat)
  BY NatLessThanWellFounded, Zenon DEF OpToRel
<1>2. \A x, y \in Nat : y < x => <<y, x>> \in R
  OBVIOUS
<1> HIDE DEF R
<1>3. PICK m \in S : \A y \in S : ~(<<y, m>> \in R)
  BY <1>1, WFMin
<1>4. ASSUME NEW e \in S PROVE m <= e
  <2>1. m \in Nat /\ e \in Nat /\ ~(e < m)
    BY <1>2, <1>3, <1>4
  <2> QED
    BY <2>1
<1> QED
  BY <1>4

LEMMA CallFacts ==
    ASSUME FileTypeOK
    PROVE  /\ call \in CallRecords /\ Directories = 1 .. 2 * MaxCalls
           /\ calls \in Nat /\ MaxCalls \in Nat /\ calls <= MaxCalls
           /\ Directories \subseteq Nat /\ Remaining \in 0 .. 2
           /\ 0 \notin Directories /\ Paths = {"temporary", "target"}
<1>1. call \in CallRecords
  BY DEF FileTypeOK, CallRecords, CallPoints
<1>2. Remaining \in 0 .. 2
  BY DEF Remaining
<1> QED
  BY <1>1, <1>2, PublicationAssumption DEF FileTypeOK, Directories, Paths

\* The directory mkdtemp returns is a new one.
LEMMA FreshFacts ==
    ASSUME FileTypeOK, DirectoryInv, PointInv, call.pc = "detach"
    PROVE  /\ FreshDirectory \in Directories /\ Unused(FreshDirectory)
           /\ FreshDirectory <= 2 * calls - Remaining + 1
<1> DEFINE U == {d \in Directories : Unused(d)}
           b == 2 * calls - Remaining + 1
<1>1. /\ calls \in Nat /\ MaxCalls \in Nat /\ calls <= MaxCalls /\ Remaining \in {1, 2}
      /\ calls # 0 /\ Directories = 1 .. 2 * MaxCalls
  BY CallFacts DEF Remaining, PointInv
<1>2. b \in Directories /\ b \in Nat /\ ~(b <= 2 * calls - Remaining)
  BY <1>1
<1>3. b \in U
  BY <1>2 DEF DirectoryInv
<1>4. U \in SUBSET Nat
  BY CallFacts
<1> HIDE DEF U
<1>5. PICK m \in U : \A e \in U : m <= e
  BY <1>3, <1>4, LeastMember
<1>6. m \in Directories /\ Unused(m) /\ m <= b /\ m \in Nat
  BY <1>3, <1>4, <1>5 DEF U
<1>7. \A e \in 1 .. (m - 1) : ~Unused(e)
  <2>1. ASSUME NEW e \in 1 .. (m - 1) PROVE ~Unused(e)
    <3>1. e \in Directories /\ ~(m <= e)
      BY <1>1, <1>6, <2>1
    <3> QED
      BY <1>5, <3>1 DEF U
  <2> QED
    BY <2>1
<1>8. /\ FreshDirectory \in Directories /\ Unused(FreshDirectory)
      /\ \A e \in 1 .. (FreshDirectory - 1) : ~Unused(e)
  BY <1>6, <1>7 DEF FreshDirectory
<1>9. ~(FreshDirectory > m)
  <2>1. FreshDirectory \in Nat
    BY <1>8, CallFacts
  <2>2. m >= 1
    BY <1>1, <1>6
  <2>3. FreshDirectory > m => m \in 1 .. (FreshDirectory - 1)
    BY <1>6, <2>1, <2>2
  <2> QED
    BY <1>6, <1>8, <2>3
<1>10. FreshDirectory <= b
  BY <1>2, <1>6, <1>8, <1>9, CallFacts
<1> QED
  BY <1>8, <1>10

--------------------------------------------------------------------------------
(* Where a call goes.                                                       *)

LEMMA GotoFacts ==
    ASSUME call \in CallRecords, NEW p \in CallPoints, Goto(p)
    PROVE  /\ call' \in CallRecords /\ call'.pc = p /\ call'.op = call.op
           /\ call'.path = call.path
  BY DEF Goto, CallRecords

LEMMA DetachFacts ==
    ASSUME call \in CallRecords, NEW p \in Paths, NEW f \in BOOLEAN, GotoDetach(p, f)
    PROVE  /\ call' \in CallRecords /\ call'.pc = "detach" /\ call'.op = call.op
           /\ call'.path = p
  BY DEF GotoDetach, CallRecords, CallPoints

LEMMA ConcludeFacts ==
    ASSUME call \in CallRecords, NEW f \in BOOLEAN, Conclude(f)
    PROVE  call' \in CallRecords /\ call'.pc = "conclude" /\ call'.op = call.op
  BY DEF Conclude, CallRecords, CallPoints

\* After a removal: the evidence, the temporary after the target, or the verdict.
Removed ==
    /\ call' \in CallRecords /\ call'.op = call.op
    /\ \/ call'.pc = "evidence" /\ call.op = "publish"
       \/ call'.pc = "detach" /\ call'.path = "temporary" /\ call.path = "target"
       \/ call'.pc = "conclude"

LEMMA RemovalFacts ==
    ASSUME call \in CallRecords, NEW f \in BOOLEAN, AfterRemoval(f)
    PROVE  Removed
<1>1. call.failed \in BOOLEAN /\ (call.failed \/ f) \in BOOLEAN
  BY DEF CallRecords
<1>2. CASE call.op = "publish" /\ ~f
  <2>1. Goto("evidence") /\ "evidence" \in CallPoints
    BY <1>2 DEF AfterRemoval, CallPoints
  <2> QED
    BY <1>2, <2>1, GotoFacts DEF Removed
<1>3. CASE call.op = "rollback" /\ call.path = "target"
  <2>1. GotoDetach("temporary", call.failed \/ f) /\ "temporary" \in Paths
    BY <1>3 DEF AfterRemoval, Paths
  <2> QED
    BY <1>1, <1>3, <2>1, DetachFacts DEF Removed
<1>4. CASE ~(call.op = "publish" /\ ~f) /\ ~(call.op = "rollback" /\ call.path = "target")
  <2>1. Conclude(call.failed \/ f)
    BY <1>4 DEF AfterRemoval
  <2> QED
    BY <1>1, <2>1, ConcludeFacts DEF Removed
<1> QED
  BY <1>2, <1>3, <1>4

LEMMA RemovedRemaining ==
    ASSUME call \in CallRecords, Removed, call.pc \in {"detach", "authenticate"},
           call.path \in Paths
    PROVE  /\ Remaining' \in 0 .. 2 /\ Remaining' <= Remaining
           /\ call.path = "temporary" => Remaining' = 0
  BY DEF Removed, Remaining, Paths

\* Nothing on disk changes between two calls or two looks.
LEMMA DiskKept ==
    ASSUME FileTypeOK, LeftIsRecorded, OthersSurvive, staged'.created = staged.created,
           staged.evidence \in {None, staged'.evidence},
           UNCHANGED <<disk, registry>>, call.pc # "authenticate"
    PROVE  /\ LeftIsRecorded' /\ OthersSurvive'
           /\ \A d \in Directories : Unused(d)' <=> Unused(d)
<1>1. UNCHANGED <<link, bytes, quarantine, others, registry>>
  BY DEF disk
<1>2. \A i \in others : Adopted(i) => Adopted(i)'
  BY PublicationAssumption DEF Adopted, FileTypeOK
<1> QED
  BY <1>1, <1>2 DEF LeftIsRecorded, OthersSurvive, LinkedPublicly,
     LinkedPrivately, Unused

\* The room for directories never shrinks.
LEMMA RoomKept ==
    ASSUME FileTypeOK, DirectoryInv,
           \A d \in Directories : Unused(d) => Unused(d)',
           calls' \in Nat, calls <= calls', NEW t \in 0 .. 2, Remaining' = t,
           t <= Remaining \/ calls # calls'
    PROVE  DirectoryInv'
<1>1. PICK c \in Nat, r \in 0 .. 2, e \in Nat : c = calls /\ r = Remaining /\ e = calls'
  BY CallFacts
<1>2. 2 * c - r <= 2 * e - t
  <2>1. c <= e /\ (t <= r \/ c # e)
    BY <1>1
  <2>2. \A x, y \in Nat, v, w \in 0 .. 2 :
           x <= y /\ (w <= v \/ x # y) => 2 * x - v <= 2 * y - w
    OBVIOUS
  <2> QED
    BY <2>1, <2>2
<1> SUFFICES ASSUME NEW d \in Directories, ~Unused(d)'
             PROVE  d <= 2 * e - t
  BY <1>1 DEF DirectoryInv
<1>3. d <= 2 * c - r /\ d \in Nat
  BY <1>1, CallFacts DEF DirectoryInv
<1> QED
  BY <1>2, <1>3

StagedRecords ==
    [published : BOOLEAN, discarded : BOOLEAN, finalized : BOOLEAN,
     created : BOOLEAN, targetOwner : Inodes \cup {None},
     evidence : Inodes \cup {None}, descriptor : BOOLEAN,
     tried : SUBSET {"publish", "discard", "rollback"}]

RecoveryRecords ==
    [path : Paths, dir : Directories, owner : Inodes, restored : BOOLEAN]

LEMMA FaultFacts ==
    ASSUME FileTypeOK, Fault \/ UNCHANGED faults
    PROVE  faults' \in 0 .. MaxFaults
  BY PublicationAssumption DEF Fault, FileTypeOK

\* The types of a step that leaves the disk and the registry alone.
LEMMA TypeKept ==
    ASSUME FileTypeOK, UNCHANGED <<disk, registry, moves>>,
           staged' \in StagedRecords, call' \in CallRecords,
           calls' \in 0 .. MaxCalls, faults' \in 0 .. MaxFaults
    PROVE  FileTypeOK'
  BY DEF FileTypeOK, disk, StagedRecords, CallRecords, CallPoints

--------------------------------------------------------------------------------
(* The calls of the consumer transaction.                                   *)

LEMMA StartFacts ==
    ASSUME FileTypeOK, NEW op \in {"publish", "discard", "rollback"},
           NEW first \in {"verify", "detach"}, Start(op, first)
    PROVE  /\ call.pc = "idle" /\ ~staged.discarded /\ ~staged.finalized
           /\ calls' = calls + 1 /\ calls' \in 0 .. MaxCalls /\ calls \in Nat
           /\ staged' \in StagedRecords
           /\ staged'.tried = staged.tried \cup {op}
           /\ staged'.created = staged.created /\ staged'.descriptor = staged.descriptor
           /\ staged'.discarded = staged.discarded
           /\ staged'.finalized = staged.finalized
           /\ staged'.targetOwner = staged.targetOwner
           /\ staged'.evidence = staged.evidence
           /\ call' \in CallRecords /\ call'.op = op /\ call'.pc = first
           /\ first = "detach" =>
                 /\ call'.path \in Paths
                 /\ call'.path = "target" => op = "rollback" /\ staged.created
           /\ UNCHANGED <<disk, registry, faults, moves>>
<1>1. /\ staged \in StagedRecords /\ calls \in 0 .. MaxCalls /\ MaxCalls \in Nat
      /\ calls < MaxCalls /\ call.pc = "idle"
      /\ ~staged.discarded /\ ~staged.finalized /\ calls' = calls + 1
      /\ staged' = [staged EXCEPT !.tried = @ \cup {op}]
      /\ UNCHANGED <<disk, registry, faults, moves>>
  BY PublicationAssumption DEF Start, FileTypeOK, StagedRecords
<1> DEFINE p == CASE first # "detach" -> "none"
                  [] op = "rollback" /\ staged.created -> "target"
                  [] OTHER -> "temporary"
<1>2. /\ call' = [Idle EXCEPT !.op = op, !.pc = first, !.path = p]
      /\ p \in Paths \cup {"none"}
      /\ first = "detach" =>
            /\ p \in Paths
            /\ p = "target" => op = "rollback" /\ staged.created
  <2>1. call' = [Idle EXCEPT !.op = op, !.pc = first, !.path = p]
    BY DEF Start
  <2>2. CASE first = "verify"
    BY <2>1, <2>2 DEF Paths
  <2>3. CASE first = "detach" /\ op = "rollback" /\ staged.created
    <3>1. p = "target"
      BY <2>3
    <3> QED
      BY <2>1, <2>3, <3>1 DEF Paths
  <2>4. CASE first = "detach" /\ ~(op = "rollback" /\ staged.created)
    <3>1. p = "temporary"
      BY <2>4
    <3> QED
      BY <2>1, <2>4, <3>1 DEF Paths
  <2> QED
    BY <2>2, <2>3, <2>4
<1> HIDE DEF p
<1>3. /\ call' \in CallRecords /\ call'.op = op /\ call'.pc = first /\ call'.path = p
  BY <1>2 DEF Idle, CallRecords, CallPoints
<1>4. /\ staged' \in StagedRecords /\ staged'.tried = staged.tried \cup {op}
      /\ staged'.created = staged.created /\ staged'.descriptor = staged.descriptor
      /\ staged'.discarded = staged.discarded
      /\ staged'.finalized = staged.finalized
      /\ staged'.targetOwner = staged.targetOwner
  BY <1>1 DEF StagedRecords
<1> QED
  BY <1>1, <1>2, <1>3, <1>4

LEMMA StartStep ==
    ASSUME FileInv, Publish \/ Discard \/ Rollback
    PROVE  FileInv'
<1> USE DEF FileInv
<1>1. PICK op \in {"publish", "discard", "rollback"}, first \in {"verify", "detach"} :
         /\ Start(op, first)
         /\ op = "publish" <=> first = "verify"
         /\ op = "publish" => staged.tried = {}
  BY DEF Publish, Discard, Rollback
<1>2. /\ call.pc = "idle" /\ ~staged.discarded /\ ~staged.finalized
      /\ calls' = calls + 1 /\ calls' \in 0 .. MaxCalls /\ calls \in Nat
      /\ staged' \in StagedRecords
      /\ staged'.tried = staged.tried \cup {op}
      /\ staged'.created = staged.created /\ staged'.descriptor = staged.descriptor
      /\ staged'.discarded = staged.discarded
      /\ staged'.finalized = staged.finalized
      /\ staged'.targetOwner = staged.targetOwner
      /\ staged'.evidence = staged.evidence
      /\ call' \in CallRecords /\ call'.op = op /\ call'.pc = first
      /\ first = "detach" =>
            /\ call'.path \in Paths
            /\ call'.path = "target" => op = "rollback" /\ staged.created
      /\ UNCHANGED <<disk, registry, faults, moves>>
  BY <1>1, StartFacts
<1>3. FileTypeOK'
  BY <1>2, TypeKept DEF FileTypeOK
<1>4. /\ LeftIsRecorded' /\ OthersSurvive'
      /\ \A d \in Directories : Unused(d)' <=> Unused(d)
  BY <1>2, DiskKept
<1>5. DirectoryInv'
  <2>1. PICK t \in 0 .. 2 : Remaining' = t
    BY <1>2 DEF Remaining
  <2>2. calls' \in Nat /\ calls <= calls' /\ calls # calls'
    BY <1>2
  <2> QED
    BY <1>4, <2>1, <2>2, RoomKept
<1>6. PointInv'
  BY <1>1, <1>2 DEF PointInv
<1>7. OwnerInv'
  BY <1>1, <1>2 DEF OwnerInv, disk
<1>8. TargetInv'
  BY <1>1, <1>2 DEF TargetInv, disk
<1> QED
  BY <1>3, <1>4, <1>5, <1>6, <1>7, <1>8

LEMMA FinalizeStep ==
    ASSUME FileInv, Finalize
    PROVE  FileInv'
<1> USE DEF FileInv
<1>1. /\ call.pc = "idle" /\ UNCHANGED <<disk, registry, call, calls, faults, moves>>
      /\ staged' = [staged EXCEPT !.descriptor = FALSE, !.finalized = TRUE]
      /\ staged \in StagedRecords
  BY DEF Finalize, bounds, FileTypeOK, StagedRecords
<1>2. /\ staged' \in StagedRecords /\ staged'.tried = staged.tried
      /\ staged'.created = staged.created /\ ~staged'.descriptor /\ staged'.finalized
      /\ staged'.targetOwner = staged.targetOwner
      /\ staged'.evidence = staged.evidence
  BY <1>1 DEF StagedRecords
<1>3. FileTypeOK'
  BY <1>1, <1>2, TypeKept DEF FileTypeOK, CallRecords, CallPoints
<1>4. /\ LeftIsRecorded' /\ OthersSurvive'
      /\ \A d \in Directories : Unused(d)' <=> Unused(d)
  BY <1>1, DiskKept
<1>5. DirectoryInv'
  BY <1>1, <1>4 DEF DirectoryInv, Remaining
<1>6. PointInv'
  BY <1>1, <1>2 DEF PointInv
<1>7. OwnerInv'
  BY <1>1, <1>2 DEF OwnerInv
<1>8. TargetInv'
  BY <1>1, <1>2 DEF TargetInv, disk
<1> QED
  BY <1>3, <1>4, <1>5, <1>6, <1>7, <1>8

--------------------------------------------------------------------------------
(* publish.                                                                 *)

\* A look at the disk: only the place in the call changes.
Looks ==
    /\ UNCHANGED <<disk, staged, registry, calls, moves>>
    /\ call.pc \in {"verify", "inspect", "linked", "compare"}
    /\ call' \in CallRecords /\ call'.op = call.op
    /\ \/ call'.pc = "conclude"
       \/ call.pc = "verify" /\ call'.pc = "inspect"
       \/ call.pc = "inspect" /\ call'.pc = "link"
       \/ /\ call.pc \in {"linked", "compare"}
          /\ call'.pc = "detach" /\ call'.path = "temporary"
          /\ call.pc = "linked" => link["target"] = Ours

LEMMA LookFacts ==
    ASSUME FileInv,
           VerifyTemporary \/ InspectTemporary \/ InspectTarget \/ CompareTarget
    PROVE  Looks /\ faults' \in 0 .. MaxFaults
<1> USE DEF FileInv
<1>0. /\ call \in CallRecords /\ TRUE \in BOOLEAN /\ FALSE \in BOOLEAN
      /\ "inspect" \in CallPoints /\ "link" \in CallPoints /\ "temporary" \in Paths
  BY CallFacts DEF CallPoints, Paths
<1>1. faults' \in 0 .. MaxFaults
  <2>1. Fault \/ UNCHANGED faults
    BY DEF VerifyTemporary, InspectTemporary, InspectTarget,
         CompareTarget, bounds
  <2> QED
    BY <2>1, FaultFacts
<1>2. /\ UNCHANGED <<disk, staged, registry, calls, moves>>
      /\ call.pc \in {"verify", "inspect", "linked", "compare"}
  BY DEF VerifyTemporary, InspectTemporary, InspectTarget,
         CompareTarget, bounds
<1>3. \/ Conclude(TRUE)
      \/ call.pc = "verify" /\ Goto("inspect")
      \/ call.pc = "inspect" /\ Goto("link")
      \/ /\ call.pc \in {"linked", "compare"} /\ GotoDetach("temporary", FALSE)
         /\ call.pc = "linked" => link["target"] = Ours
  BY DEF VerifyTemporary, InspectTemporary, InspectTarget, CompareTarget
<1>4. CASE Conclude(TRUE)
  BY <1>0, <1>1, <1>2, <1>4, ConcludeFacts DEF Looks
<1>5. CASE call.pc = "verify" /\ Goto("inspect")
  BY <1>0, <1>1, <1>2, <1>5, GotoFacts DEF Looks
<1>6. CASE call.pc = "inspect" /\ Goto("link")
  BY <1>0, <1>1, <1>2, <1>6, GotoFacts DEF Looks
<1>7. CASE /\ call.pc \in {"linked", "compare"} /\ GotoDetach("temporary", FALSE)
           /\ call.pc = "linked" => link["target"] = Ours
  BY <1>0, <1>1, <1>2, <1>7, DetachFacts DEF Looks
<1> QED
  BY <1>3, <1>4, <1>5, <1>6, <1>7

LEMMA LookStep ==
    ASSUME FileInv,
           VerifyTemporary \/ InspectTemporary \/ InspectTarget \/ CompareTarget
    PROVE  FileInv'
<1> USE DEF FileInv
<1>1. Looks /\ faults' \in 0 .. MaxFaults
  BY LookFacts
<1>2. UNCHANGED <<disk, staged, registry, calls, moves>> /\ call' \in CallRecords
  BY <1>1 DEF Looks
<1>3. FileTypeOK'
  BY <1>1, <1>2, TypeKept DEF FileTypeOK, StagedRecords
<1>4. /\ LeftIsRecorded' /\ OthersSurvive'
      /\ \A d \in Directories : Unused(d)' <=> Unused(d)
  <2>1. call.pc # "authenticate"
    BY <1>1 DEF Looks
  <2> QED
    BY <1>2, <2>1, DiskKept
<1>5. DirectoryInv'
  <2>1. PICK t \in 0 .. 2 : Remaining' = t /\ t <= Remaining
    BY <1>1 DEF Looks, Remaining
  <2>2. calls' \in Nat /\ calls <= calls'
    BY <1>2, CallFacts
  <2> QED
    BY <1>4, <2>1, <2>2, RoomKept
<1>6. PointInv'
  BY <1>1 DEF Looks, PointInv, Paths
<1>7. OwnerInv'
  BY <1>1 DEF Looks, OwnerInv, disk
<1>8. TargetInv'
  BY <1>1 DEF Looks, TargetInv, OwnerInv, disk
<1> QED
  BY <1>3, <1>4, <1>5, <1>6, <1>7, <1>8

LEMMA LinkStep ==
    ASSUME FileInv, LinkTarget
    PROVE  FileInv'
<1> USE DEF FileInv
<1>0. /\ call \in CallRecords /\ TRUE \in BOOLEAN
      /\ "compare" \in CallPoints /\ "linked" \in CallPoints
      /\ call.pc = "link" /\ call.op = "publish" /\ ~staged.created
      /\ UNCHANGED <<bytes, quarantine, others, registry, calls, faults, moves>>
      /\ staged \in StagedRecords /\ link \in [Paths -> Inodes \cup {None}]
  BY CallFacts DEF CallPoints, LinkTarget, bounds, PointInv, OwnerInv, FileTypeOK,
     StagedRecords
<1>1. CASE UNCHANGED <<link, staged>> /\ (Conclude(TRUE) \/ Goto("compare"))
  <2>1. /\ call' \in CallRecords /\ call'.op = call.op
        /\ call'.pc \in {"conclude", "compare"}
    BY <1>0, <1>1, ConcludeFacts, GotoFacts
  <2>2. UNCHANGED <<disk, registry, moves>>
    BY <1>0, <1>1 DEF disk
  <2>3. FileTypeOK'
    BY <1>0, <1>1, <2>1, <2>2, TypeKept DEF FileTypeOK
  <2>4. /\ LeftIsRecorded' /\ OthersSurvive'
        /\ \A d \in Directories : Unused(d)' <=> Unused(d)
    BY <1>0, <1>1, <2>2, DiskKept
  <2>5. DirectoryInv'
    <3>1. PICK t \in 0 .. 2 : Remaining' = t /\ t <= Remaining
      BY <1>0, <2>1 DEF Remaining
    <3>2. calls' \in Nat /\ calls <= calls'
      BY <1>0, CallFacts
    <3> QED
      BY <2>4, <3>1, <3>2, RoomKept
  <2>6. PointInv' /\ OwnerInv' /\ TargetInv'
    BY <1>0, <1>1, <2>1 DEF PointInv, OwnerInv, TargetInv
  <2> QED
    BY <2>3, <2>4, <2>5, <2>6
<1>2. CASE /\ link["target"] = None /\ link["temporary"] # None
           /\ link' = [link EXCEPT !["target"] = link["temporary"]]
           /\ staged' = [staged EXCEPT !.created = TRUE, !.targetOwner = Ours]
           /\ Goto("linked")
  <2>1. /\ call' \in CallRecords /\ call'.op = call.op /\ call'.pc = "linked"
    BY <1>0, <1>2, GotoFacts
  <2>2. /\ staged' \in StagedRecords /\ staged'.created /\ staged'.targetOwner = Ours
        /\ staged'.descriptor = staged.descriptor /\ staged'.tried = staged.tried
        /\ staged'.evidence = staged.evidence
    BY <1>0, <1>2, PublicationAssumption DEF StagedRecords
  <2>3. /\ link' \in [Paths -> Inodes \cup {None}]
        /\ \A p \in Paths : link[p] # None => link'[p] = link[p]
    BY <1>0, <1>2 DEF Paths
  <2>4. FileTypeOK'
    BY <1>0, <2>1, <2>2, <2>3 DEF FileTypeOK, StagedRecords, CallRecords, CallPoints
  <2>5. LeftIsRecorded'
    BY <1>0, <2>1 DEF LeftIsRecorded
  <2>6. OthersSurvive'
    <3> SUFFICES ASSUME NEW i \in others
                 PROVE  (LinkedPublicly(i) \/ LinkedPrivately(i) \/ Adopted(i))'
      BY <1>0 DEF OthersSurvive
    <3>1. i # None
      BY PublicationAssumption DEF FileTypeOK
    <3> QED
      BY <1>0, <2>3, <3>1 DEF OthersSurvive, LinkedPublicly, LinkedPrivately, Adopted
  <2>7. DirectoryInv'
    <3>1. \A d \in Directories : Unused(d)' <=> Unused(d)
      BY <1>0 DEF Unused
    <3>2. PICK t \in 0 .. 2 : Remaining' = t /\ t <= Remaining
      BY <1>0, <2>1 DEF Remaining
    <3>3. calls' \in Nat /\ calls <= calls'
      BY <1>0, CallFacts
    <3> QED
      BY <3>1, <3>2, <3>3, RoomKept
  <2>8. PointInv'
    BY <1>0, <2>1, <2>2 DEF PointInv
  <2>9. OwnerInv'
    BY <1>0, <2>1, <2>2, PublicationAssumption DEF OwnerInv, PointInv
  <2>10. TargetInv'
    BY <1>0, <2>1, <2>2 DEF TargetInv, PointInv
  <2> QED
    BY <2>4, <2>5, <2>6, <2>7, <2>8, <2>9, <2>10
<1> QED
  <2>1. CASE link["temporary"] = None
    BY <1>1, <2>1 DEF LinkTarget
  <2>2. CASE link["temporary"] # None /\ link["target"] # None
    BY <1>1, <2>2 DEF LinkTarget
  <2>3. CASE link["temporary"] # None /\ link["target"] = None
    BY <1>2, <2>3 DEF LinkTarget
  <2> QED
    BY <2>1, <2>2, <2>3

LEMMA EvidenceStep ==
    ASSUME FileInv, ReadEvidence
    PROVE  FileInv'
<1> USE DEF FileInv
<1>0. /\ call \in CallRecords /\ TRUE \in BOOLEAN /\ FALSE \in BOOLEAN
      /\ call.pc = "evidence" /\ call.op = "publish"
      /\ UNCHANGED <<disk, registry, calls, moves>>
      /\ staged \in StagedRecords /\ link["target"] \in Inodes \cup {None}
  BY CallFacts DEF ReadEvidence, PointInv, FileTypeOK, StagedRecords, Paths
<1>1. faults' \in 0 .. MaxFaults
  BY FaultFacts DEF ReadEvidence
<1>2. call' \in CallRecords /\ call'.op = call.op /\ call'.pc = "conclude"
  BY <1>0, ConcludeFacts DEF ReadEvidence
<1>3. /\ staged' \in StagedRecords /\ staged'.created = staged.created
      /\ staged'.descriptor = staged.descriptor /\ staged'.tried = staged.tried
      /\ \/ /\ staged'.targetOwner = staged.targetOwner
            /\ staged'.evidence = staged.evidence
         \/ /\ staged'.targetOwner = link["target"] /\ link["target"] # None
            /\ staged'.evidence = link["target"]
  <2>1. CASE staged' = staged
    BY <1>0, <2>1
  <2>2. CASE /\ link["target"] # None
             /\ staged' = [staged EXCEPT !.evidence = link["target"],
                                         !.targetOwner = link["target"]]
    BY <1>0, <2>2 DEF StagedRecords
  <2> QED
    BY <2>1, <2>2 DEF ReadEvidence
<1>4. FileTypeOK'
  BY <1>0, <1>1, <1>2, <1>3, TypeKept DEF FileTypeOK
<1>5. /\ LeftIsRecorded' /\ OthersSurvive'
      /\ \A d \in Directories : Unused(d)' <=> Unused(d)
  BY <1>0, <1>3, DiskKept DEF TargetInv
<1>6. DirectoryInv'
  <2>1. PICK t \in 0 .. 2 : Remaining' = t /\ t <= Remaining
    BY <1>0, <1>2 DEF Remaining
  <2>2. calls' \in Nat /\ calls <= calls'
    BY <1>0, CallFacts
  <2> QED
    BY <1>5, <2>1, <2>2, RoomKept
<1>7. PointInv'
  BY <1>0, <1>2, <1>3 DEF PointInv
<1>8. OwnerInv'
  BY <1>0, <1>2, <1>3 DEF OwnerInv, disk
<1>9. TargetInv'
  BY <1>0, <1>2, <1>3 DEF TargetInv, PointInv
<1> QED
  BY <1>4, <1>5, <1>6, <1>7, <1>8, <1>9

LEMMA VerdictStep ==
    ASSUME FileInv, Verdict
    PROVE  FileInv'
<1> USE DEF FileInv
<1>0. /\ call.pc = "conclude" /\ call' = Idle
      /\ UNCHANGED <<disk, registry, calls, faults, moves>>
      /\ staged \in StagedRecords
  BY DEF Verdict, bounds, FileTypeOK, StagedRecords
<1>1. call' \in CallRecords /\ call'.pc = "idle" /\ call'.op = "none"
  BY <1>0 DEF Idle, CallRecords, CallPoints
<1>2. /\ staged' \in StagedRecords /\ staged'.created = staged.created
      /\ staged'.targetOwner = staged.targetOwner /\ staged'.tried = staged.tried
      /\ staged'.evidence = staged.evidence
      /\ \/ staged'.descriptor = staged.descriptor
         \/ ~staged'.descriptor /\ staged'.discarded
  <2>1. CASE staged' = staged
    BY <1>0, <2>1
  <2>2. CASE staged' = [staged EXCEPT !.published = TRUE]
    BY <1>0, <2>2 DEF StagedRecords
  <2>3. CASE staged' = [staged EXCEPT !.descriptor = FALSE, !.published = FALSE,
                                      !.discarded = TRUE]
    BY <1>0, <2>3 DEF StagedRecords
  <2> QED
    BY <2>1, <2>2, <2>3 DEF Verdict
<1>3. FileTypeOK'
  BY <1>0, <1>1, <1>2, TypeKept DEF FileTypeOK
<1>4. /\ LeftIsRecorded' /\ OthersSurvive'
      /\ \A d \in Directories : Unused(d)' <=> Unused(d)
  BY <1>0, <1>2, DiskKept
<1>5. DirectoryInv'
  <2>1. PICK t \in 0 .. 2 : Remaining' = t /\ t <= Remaining
    BY <1>0, <1>1 DEF Remaining
  <2>2. calls' \in Nat /\ calls <= calls'
    BY <1>0, CallFacts
  <2> QED
    BY <1>4, <2>1, <2>2, RoomKept
<1>6. PointInv'
  BY <1>0, <1>1 DEF PointInv, Idle
<1>7. OwnerInv'
  BY <1>0, <1>1, <1>2 DEF OwnerInv, disk
<1>8. TargetInv'
  BY <1>1, <1>2 DEF TargetInv
<1> QED
  BY <1>3, <1>4, <1>5, <1>6, <1>7, <1>8

--------------------------------------------------------------------------------
(* _quarantine_owned_path.                                                  *)

\* Nothing was there, or the rename failed.
LEMMA NothingDetached ==
    ASSUME FileInv, call.pc = "detach", Removed,
           UNCHANGED <<disk, staged, registry, calls, moves>>,
           faults' \in 0 .. MaxFaults
    PROVE  FileInv'
<1> USE DEF FileInv
<1>1. call' \in CallRecords /\ call \in CallRecords /\ call.path \in Paths
  BY CallFacts DEF Removed, PointInv
<1>2. FileTypeOK'
  BY <1>1, TypeKept DEF FileTypeOK, StagedRecords
<1>3. /\ LeftIsRecorded' /\ OthersSurvive'
      /\ \A d \in Directories : Unused(d)' <=> Unused(d)
  BY DiskKept
<1>4. DirectoryInv'
  <2>1. PICK t \in 0 .. 2 : Remaining' = t /\ t <= Remaining
    BY <1>1, RemovedRemaining
  <2>2. calls' \in Nat /\ calls <= calls'
    BY CallFacts
  <2> QED
    BY <1>3, <2>1, <2>2, RoomKept
<1>5. PointInv'
  BY DEF PointInv, Removed, Paths
<1>6. OwnerInv'
  BY DEF OwnerInv, Removed, disk
<1>7. TargetInv'
  BY DEF TargetInv, PointInv, Removed, disk
<1> QED
  BY <1>2, <1>3, <1>4, <1>5, <1>6, <1>7

\* The file at the path is moved into a new directory.
LEMMA Detached ==
    ASSUME FileInv, call.pc = "detach", link[call.path] # None,
           NEW f, f = FreshDirectory,
           quarantine' = [quarantine EXCEPT ![f] = link[call.path]],
           link' = [link EXCEPT ![call.path] = None],
           call' = [call EXCEPT !.pc = "authenticate", !.dir = f],
           UNCHANGED <<bytes, others, staged, registry, calls, faults, moves>>
    PROVE  FileInv'
<1> USE DEF FileInv
<1>0. /\ call \in CallRecords /\ call.path \in Paths /\ calls \in Nat /\ calls # 0
      /\ call.path = "target" => call.op = "rollback" /\ staged.created
      /\ link \in [Paths -> Inodes \cup {None}] /\ Directories \subseteq Nat
      /\ quarantine \in [Directories -> Inodes \cup {None}]
      /\ Remaining = IF call.path = "target" THEN 2 ELSE 1
  BY CallFacts DEF PointInv, FileTypeOK, Remaining
<1>1. f \in Directories /\ Unused(f) /\ f <= 2 * calls - Remaining + 1
  BY FreshFacts
<1>2. /\ call' \in CallRecords /\ call'.pc = "authenticate" /\ call'.op = call.op
      /\ call'.path = call.path /\ call'.dir = f
  BY <1>0, <1>1 DEF CallRecords, CallPoints
<1>3. /\ quarantine' \in [Directories -> Inodes \cup {None}]
      /\ quarantine'[f] = link[call.path]
      /\ \A d \in Directories : d # f => quarantine'[d] = quarantine[d]
  BY <1>0, <1>1
<1>4. /\ link' \in [Paths -> Inodes \cup {None}]
      /\ \A p \in Paths : p # call.path => link'[p] = link[p]
  BY <1>0
<1>5. quarantine[f] = None
  BY <1>1 DEF Unused
<1>6. FileTypeOK'
  BY <1>2, <1>3, <1>4 DEF FileTypeOK, CallRecords, CallPoints
<1>7. LeftIsRecorded'
  BY <1>2, <1>3 DEF LeftIsRecorded
<1>8. OthersSurvive'
  <2> SUFFICES ASSUME NEW i \in others
               PROVE  (LinkedPublicly(i) \/ LinkedPrivately(i) \/ Adopted(i))'
    BY DEF OthersSurvive
  <2>1. i # None
    BY PublicationAssumption DEF FileTypeOK
  <2>2. LinkedPublicly(i) \/ LinkedPrivately(i) \/ Adopted(i)
    BY DEF OthersSurvive
  <2>3. CASE LinkedPublicly(i)
    <3>1. PICK p \in Paths : link[p] = i
      BY <2>3 DEF LinkedPublicly
    <3>2. CASE p = call.path
      BY <1>1, <1>3, <3>1, <3>2 DEF LinkedPrivately
    <3>3. CASE p # call.path
      BY <1>4, <3>1, <3>3 DEF LinkedPublicly
    <3> QED
      BY <3>2, <3>3
  <2>4. CASE LinkedPrivately(i)
    <3>1. PICK d \in Directories : quarantine[d] = i
      BY <2>4 DEF LinkedPrivately
    <3>2. d # f
      BY <1>5, <2>1, <3>1
    <3> QED
      BY <1>3, <3>1, <3>2 DEF LinkedPrivately
  <2>5. Adopted(i) => Adopted(i)'
    BY DEF Adopted
  <2> QED
    BY <2>2, <2>3, <2>4, <2>5
<1>9. DirectoryInv'
  <2>1. PICK t \in 0 .. 2, r \in 0 .. 2, c \in Nat :
           t = Remaining' /\ r = Remaining /\ c = calls /\ r = t + 1
    BY <1>0, <1>2 DEF Remaining
  <2>2. calls' = c /\ f <= 2 * c - r + 1
    BY <1>1, <2>1
  <2>3. ASSUME NEW d \in Directories, ~Unused(d)' PROVE d <= 2 * c - t
    <3>1. CASE d = f
      BY <1>0, <1>1, <2>1, <2>2, <3>1
    <3>2. CASE d # f
      <4>1. ~Unused(d)
        BY <1>3, <2>3, <3>2 DEF Unused
      <4>2. d <= 2 * c - r /\ d \in Nat
        BY <1>0, <2>1, <4>1 DEF DirectoryInv
      <4> QED
        BY <2>1, <4>2
    <3> QED
      BY <3>1, <3>2
  <2> QED
    BY <2>1, <2>2, <2>3 DEF DirectoryInv
<1>10. PointInv'
  BY <1>0, <1>1, <1>2, <1>3 DEF PointInv
<1>11. OwnerInv'
  BY <1>2 DEF OwnerInv
<1>12. TargetInv'
  BY <1>0, <1>2, <1>4 DEF TargetInv, Paths
<1> QED
  BY <1>6, <1>7, <1>8, <1>9, <1>10, <1>11, <1>12

LEMMA DetachStep ==
    ASSUME FileInv, DetachPath
    PROVE  FileInv'
<1>0. /\ call.pc = "detach" /\ call \in CallRecords /\ TRUE \in BOOLEAN /\ FALSE \in BOOLEAN
      /\ UNCHANGED <<bytes, others, staged, registry, calls, moves>>
  BY CallFacts DEF DetachPath, FileInv
<1>1. CASE /\ link[call.path] # None
           /\ quarantine' = [quarantine EXCEPT ![FreshDirectory] = link[call.path]]
           /\ link' = [link EXCEPT ![call.path] = None]
           /\ call' = [call EXCEPT !.pc = "authenticate", !.dir = FreshDirectory]
           /\ UNCHANGED faults
  <2>1. PICK f : f = FreshDirectory
    OBVIOUS
  <2> QED
    BY <1>0, <1>1, <2>1, Detached
<1>2. CASE (AfterRemoval(FALSE) \/ AfterRemoval(TRUE)) /\ (Fault \/ UNCHANGED faults)
           /\ UNCHANGED <<link, quarantine>>
  <2>1. Removed
    BY <1>0, <1>2, RemovalFacts
  <2>2. faults' \in 0 .. MaxFaults
    BY <1>2, FaultFacts DEF FileInv
  <2>3. UNCHANGED <<disk, staged, registry, calls, moves>>
    BY <1>0, <1>2 DEF disk
  <2> QED
    BY <1>0, <2>1, <2>2, <2>3, NothingDetached
<1> QED
  BY <1>1, <1>2 DEF DetachPath

\* What the three outcomes of the look have in common: the file is deleted because it
\* is the expected one, or it stays and a recovery names its directory.
Judged ==
    /\ call.pc = "authenticate" /\ Removed
    /\ UNCHANGED <<bytes, others, staged, calls, moves>>
    /\ link' = link
          \/ (link[call.path] = None /\ link' = [link EXCEPT ![call.path] = Found])
    /\ \/ /\ Found = Expected(call.path) /\ UNCHANGED registry
          /\ quarantine' = [quarantine EXCEPT ![call.dir] = None]
       \/ /\ UNCHANGED quarantine
          /\ \E o \in Inodes : registry' = registry \cup {Recovery(o)}

LEMMA JudgeFacts ==
    ASSUME FileInv,
           RemoveOwned \/ ReturnReplacement \/ StatRaises
    PROVE  Judged /\ faults' \in 0 .. MaxFaults
<1> USE DEF FileInv
<1>0. /\ call \in CallRecords /\ TRUE \in BOOLEAN /\ FALSE \in BOOLEAN
      /\ call.pc = "authenticate" /\ call.path \in Paths
  BY CallFacts DEF RemoveOwned, ReturnReplacement, StatRaises, PointInv
<1>1. /\ UNCHANGED <<bytes, others, staged, calls, moves>>
      /\ Fault \/ UNCHANGED faults
      /\ AfterRemoval(FALSE) \/ AfterRemoval(TRUE)
  BY DEF RemoveOwned, ReturnReplacement, StatRaises, disk
<1>2. Removed /\ faults' \in 0 .. MaxFaults
  BY <1>0, <1>1, RemovalFacts, FaultFacts
<1>3. Found \in Inodes /\ Expected(call.path) \in Inodes
  <2>1. Found \in Inodes
    BY <1>0 DEF Found, PointInv, FileTypeOK
  <2>2. staged.created => staged.targetOwner \in Inodes
    BY DEF OwnerInv, FileTypeOK
  <2> QED
    BY <1>0, <2>1, <2>2, PublicationAssumption DEF Expected, PointInv, Paths
<1>4. CASE RemoveOwned
  <2>1. Found = Expected(call.path) /\ link' = link
    BY <1>4 DEF RemoveOwned
  <2>2. \/ quarantine' = [quarantine EXCEPT ![call.dir] = None] /\ UNCHANGED registry
        \/ UNCHANGED quarantine
           /\ registry' = registry \cup {Recovery(Expected(call.path))}
    BY <1>4 DEF RemoveOwned
  <2> QED
    BY <1>0, <1>1, <1>2, <1>3, <2>1, <2>2 DEF Judged
<1>5. CASE ReturnReplacement
  <2>1. /\ UNCHANGED quarantine /\ registry' = registry \cup {Recovery(Found)}
        /\ link' = link
              \/ (link[call.path] = None /\ link' = [link EXCEPT ![call.path] = Found])
    BY <1>5 DEF ReturnReplacement
  <2> QED
    BY <1>0, <1>1, <1>2, <1>3, <2>1 DEF Judged
<1>6. CASE StatRaises
  <2>1. /\ UNCHANGED quarantine /\ link' = link
        /\ registry' = registry \cup {Recovery(Expected(call.path))}
    BY <1>6 DEF StatRaises, disk
  <2> QED
    BY <1>0, <1>1, <1>2, <1>3, <2>1 DEF Judged
<1> QED
  BY <1>4, <1>5, <1>6

LEMMA JudgeStep ==
    ASSUME FileInv,
           RemoveOwned \/ ReturnReplacement \/ StatRaises
    PROVE  FileInv'
<1> USE DEF FileInv
<1>0. Judged /\ faults' \in 0 .. MaxFaults
  BY JudgeFacts
<1>1. /\ call.pc = "authenticate" /\ call \in CallRecords /\ call.path \in Paths
      /\ call' \in CallRecords /\ call.dir \in Directories /\ Removed
      /\ quarantine[call.dir] # None /\ quarantine[call.dir] \in Inodes
      /\ UNCHANGED <<bytes, others, staged, calls, moves>>
      /\ link \in [Paths -> Inodes \cup {None}]
      /\ quarantine \in [Directories -> Inodes \cup {None}]
  BY <1>0, CallFacts DEF Judged, Removed, PointInv, FileTypeOK
<1>2. /\ link' \in [Paths -> Inodes \cup {None}]
      /\ \A p \in Paths : link[p] # None \/ p # call.path => link'[p] = link[p]
  BY <1>0, <1>1 DEF Judged, Found
<1>3. \/ /\ quarantine[call.dir] = Expected(call.path) /\ registry' = registry
         /\ quarantine' \in [Directories -> Inodes \cup {None}]
         /\ quarantine'[call.dir] = None
         /\ \A d \in Directories : d # call.dir => quarantine'[d] = quarantine[d]
      \/ /\ quarantine' = quarantine
         /\ \E r \in RecoveryRecords : r.dir = call.dir /\ registry' = registry \cup {r}
  <2>1. CASE UNCHANGED quarantine
             /\ \E o \in Inodes : registry' = registry \cup {Recovery(o)}
    <3>1. PICK o \in Inodes : registry' = registry \cup {Recovery(o)}
      BY <2>1
    <3>2. Recovery(o) \in RecoveryRecords /\ Recovery(o).dir = call.dir
      BY <1>1 DEF Recovery, RecoveryRecords
    <3> QED
      BY <2>1, <3>1, <3>2
  <2>2. CASE /\ Found = Expected(call.path) /\ UNCHANGED registry
             /\ quarantine' = [quarantine EXCEPT ![call.dir] = None]
    BY <1>1, <2>2 DEF Found
  <2> QED
    BY <1>0, <2>1, <2>2 DEF Judged
<1>4. FileTypeOK'
  <2>1. /\ registry' \subseteq RecoveryRecords
        /\ quarantine' \in [Directories -> Inodes \cup {None}]
    BY <1>1, <1>3 DEF FileTypeOK, RecoveryRecords
  <2> QED
    BY <1>0, <1>1, <1>2, <2>1 DEF FileTypeOK, CallRecords, CallPoints, RecoveryRecords
<1>5. LeftIsRecorded'
  <2> SUFFICES ASSUME NEW d \in Directories, quarantine'[d] # None
               PROVE  \E r \in registry' : r.dir = d
    BY DEF LeftIsRecorded
  <2>1. CASE d = call.dir
    BY <1>3, <2>1
  <2>2. CASE d # call.dir
    <3>1. quarantine[d] # None
      BY <1>3, <2>2
    <3>2. \E r \in registry : r.dir = d
      BY <2>2, <3>1 DEF LeftIsRecorded
    <3> QED
      BY <1>3, <3>2
  <2> QED
    BY <2>1, <2>2
<1>6. OthersSurvive'
  <2> SUFFICES ASSUME NEW i \in others
               PROVE  (LinkedPublicly(i) \/ LinkedPrivately(i) \/ Adopted(i))'
    BY <1>1 DEF OthersSurvive
  <2>1. i # None
    BY PublicationAssumption DEF FileTypeOK
  <2>2. i # Ours
    BY <1>1 DEF OwnerInv
  <2>3. ~Adopted(i) => Expected(call.path) # i
    BY <1>1, <2>2 DEF Expected, PointInv, TargetInv, Paths, Adopted
  <2>4. LinkedPublicly(i) \/ LinkedPrivately(i) \/ Adopted(i)
    BY DEF OthersSurvive
  <2>5. CASE LinkedPublicly(i)
    BY <1>2, <2>1, <2>5 DEF LinkedPublicly
  <2>6. CASE LinkedPrivately(i) /\ ~Adopted(i)
    <3>1. PICK d \in Directories : quarantine[d] = i
      BY <2>6 DEF LinkedPrivately
    <3>2. quarantine'[d] = i
      BY <1>3, <2>3, <2>6, <3>1
    <3> QED
      BY <3>2 DEF LinkedPrivately
  <2>7. Adopted(i) => Adopted(i)'
    BY <1>1 DEF Adopted
  <2> QED
    BY <2>4, <2>5, <2>6, <2>7
<1>7. DirectoryInv'
  <2>1. ASSUME NEW d \in Directories, Unused(d) PROVE Unused(d)'
    <3>1. d # call.dir /\ quarantine[d] = None /\ \A r \in registry : r.dir # d
      BY <1>1, <2>1 DEF Unused
    <3> QED
      BY <1>3, <3>1 DEF Unused
  <2>2. PICK t \in 0 .. 2 : Remaining' = t /\ t <= Remaining
    BY <1>1, RemovedRemaining
  <2>3. calls' \in Nat /\ calls <= calls'
    BY <1>1, CallFacts
  <2> QED
    BY <2>1, <2>2, <2>3, RoomKept
<1>8. PointInv'
  BY <1>1 DEF PointInv, Removed, Paths
<1>9. OwnerInv'
  BY <1>1 DEF OwnerInv, Removed
<1>10. TargetInv'
  BY <1>1, <1>2 DEF TargetInv, PointInv, Removed, Paths
<1> QED
  BY <1>4, <1>5, <1>6, <1>7, <1>8, <1>9, <1>10

--------------------------------------------------------------------------------
(* The registry of recoveries and the other processes.                      *)

LEMMA RestoreStep ==
    ASSUME FileInv, NEW r \in registry, RestoreRecovery(r)
    PROVE  FileInv'
<1> USE DEF FileInv
<1>0. /\ r \in RecoveryRecords /\ registry \subseteq RecoveryRecords
      /\ call.pc = "idle" /\ link[r.path] \in {None, r.owner}
      /\ link' = [link EXCEPT ![r.path] = r.owner]
      /\ registry' = (registry \ {r}) \cup {[r EXCEPT !.restored = TRUE]}
      /\ UNCHANGED <<bytes, quarantine, others, staged, call, calls, faults, moves>>
      /\ link \in [Paths -> Inodes \cup {None}]
  BY DEF RestoreRecovery, FileTypeOK, RecoveryRecords, bounds
<1>1. PICK s \in RecoveryRecords : s = [r EXCEPT !.restored = TRUE] /\ s.dir = r.dir
  <2> HIDE DEF FileInv
  <2>1. [r EXCEPT !.restored = TRUE] \in RecoveryRecords
    <3>1. r \in RecoveryRecords
      BY <1>0
    <3> QED
      BY <3>1 DEF RecoveryRecords
  <2>2. [r EXCEPT !.restored = TRUE].dir = r.dir
    <3>1. r \in RecoveryRecords
      BY <1>0
    <3> QED
      BY <3>1 DEF RecoveryRecords
  <2> QED
    BY <2>1, <2>2
<1>2. registry' = (registry \ {r}) \cup {s} /\ registry' \subseteq RecoveryRecords
  BY <1>0, <1>1
<1>3. /\ link' \in [Paths -> Inodes \cup {None}]
      /\ \A p \in Paths : link[p] # None => link'[p] = link[p]
  <2>1. r.path \in Paths /\ r.owner \in Inodes
    BY <1>0 DEF RecoveryRecords
  <2>2. /\ link[r.path] \in {None, r.owner}
        /\ link' = [link EXCEPT ![r.path] = r.owner]
        /\ link \in [Paths -> Inodes \cup {None}]
    BY <1>0
  <2> HIDE DEF FileInv
  <2>3. link' \in [Paths -> Inodes \cup {None}]
    BY <2>1, <2>2
  <2>4. \A p \in Paths : link[p] # None => link'[p] = link[p]
    BY <2>1, <2>2
  <2> QED
    BY <2>3, <2>4
<1>4. FileTypeOK'
  BY <1>0, <1>2, <1>3 DEF FileTypeOK, RecoveryRecords
<1>5. \A d : (\E x \in registry' : x.dir = d) <=> (\E x \in registry : x.dir = d)
  BY <1>1, <1>2
<1>6. LeftIsRecorded'
  BY <1>0, <1>5 DEF LeftIsRecorded
<1>7. OthersSurvive'
  <2> SUFFICES ASSUME NEW i \in others
               PROVE  (LinkedPublicly(i) \/ LinkedPrivately(i) \/ Adopted(i))'
    BY <1>0 DEF OthersSurvive
  <2>1. i # None
    BY PublicationAssumption DEF FileTypeOK
  <2> QED
    BY <1>0, <1>3, <2>1 DEF OthersSurvive, LinkedPublicly, LinkedPrivately, Adopted
<1>8. DirectoryInv'
  <2>1. \A d \in Directories : Unused(d)' <=> Unused(d)
    BY <1>0, <1>5 DEF Unused
  <2> QED
    BY <1>0, <2>1 DEF DirectoryInv, Remaining
<1>9. PointInv' /\ OwnerInv' /\ TargetInv'
  BY <1>0 DEF PointInv, OwnerInv, TargetInv
<1> QED
  BY <1>4, <1>6, <1>7, <1>8, <1>9

LEMMA CleanupStep ==
    ASSUME FileInv, NEW r \in registry, CleanupRecovery(r)
    PROVE  FileInv'
<1> USE DEF FileInv
<1>0. /\ r \in RecoveryRecords /\ registry \subseteq RecoveryRecords
      /\ call.pc = "idle" /\ link[r.path] = r.owner
      /\ quarantine[r.dir] \in {None, r.owner}
      /\ quarantine' = [quarantine EXCEPT ![r.dir] = None]
      /\ registry' = registry \ {r} \/ registry' = registry
      /\ UNCHANGED <<link, bytes, others, staged, call, calls, moves>>
      /\ quarantine \in [Directories -> Inodes \cup {None}]
  BY DEF CleanupRecovery, FileTypeOK, RecoveryRecords
<1>1. faults' \in 0 .. MaxFaults
  BY FaultFacts DEF CleanupRecovery
<1>2. /\ quarantine' \in [Directories -> Inodes \cup {None}]
      /\ quarantine'[r.dir] = None
      /\ \A d \in Directories : d # r.dir => quarantine'[d] = quarantine[d]
  BY <1>0 DEF RecoveryRecords
<1>3. FileTypeOK'
  BY <1>0, <1>1, <1>2 DEF FileTypeOK, RecoveryRecords
<1>4. LeftIsRecorded'
  <2> SUFFICES ASSUME NEW d \in Directories, quarantine'[d] # None
               PROVE  \E x \in registry' : x.dir = d
    BY DEF LeftIsRecorded
  <2>1. d # r.dir /\ quarantine[d] # None
    BY <1>2
  <2>2. PICK x \in registry : x.dir = d
    BY <1>0, <2>1 DEF LeftIsRecorded
  <2>3. x \in registry'
    BY <1>0, <2>1, <2>2
  <2> QED
    BY <2>2, <2>3
<1>5. OthersSurvive'
  <2> SUFFICES ASSUME NEW i \in others
               PROVE  (LinkedPublicly(i) \/ LinkedPrivately(i) \/ Adopted(i))'
    BY <1>0 DEF OthersSurvive
  <2>1. i # None
    BY PublicationAssumption DEF FileTypeOK
  <2>2. CASE i = r.owner
    BY <1>0, <2>2 DEF LinkedPublicly, RecoveryRecords
  <2>3. CASE i # r.owner
    <3>1. \A d \in Directories : quarantine[d] = i => quarantine'[d] = i
      BY <1>0, <1>2, <2>1, <2>3
    <3> QED
      BY <1>0, <3>1 DEF OthersSurvive, LinkedPublicly, LinkedPrivately, Adopted
  <2> QED
    BY <2>2, <2>3
<1>6. DirectoryInv'
  <2>1. \A d \in Directories : Unused(d) => Unused(d)'
    BY <1>0, <1>2 DEF Unused
  <2> QED
    BY <1>0, <2>1 DEF DirectoryInv, Remaining
<1>7. PointInv' /\ OwnerInv' /\ TargetInv'
  BY <1>0 DEF PointInv, OwnerInv, TargetInv
<1> QED
  BY <1>3, <1>4, <1>5, <1>6, <1>7

\* Another process replaces or removes what a path names.
LEMMA OtherStep ==
    ASSUME FileInv, NEW p \in Paths,
           \/ \E i \in Inodes, kind \in {"same", "other"} : OtherWrites(p, i, kind)
           \/ OtherRemoves(p)
    PROVE  FileInv'
<1> USE DEF FileInv
<1>0. /\ UNCHANGED <<quarantine, staged, registry, call, calls, faults>>
      /\ moves' = moves + 1 /\ moves < MaxMoves
      /\ link \in [Paths -> Inodes \cup {None}] /\ others \subseteq Inodes
      /\ bytes \in [Inodes -> {"ours", "same", "other"}]
      /\ moves \in 0 .. MaxMoves /\ MaxMoves \in Nat
  BY PublicationAssumption DEF OtherWrites, OtherRemoves, FileTypeOK
<1>1. PICK j \in Inodes \cup {None} :
         /\ link' = [link EXCEPT ![p] = j]
         /\ others' = (others \ {link[p]}) \cup ({j} \ {None})
         /\ j = None \/ Free(j)
  <2>1. CASE \E i \in Inodes, kind \in {"same", "other"} : OtherWrites(p, i, kind)
    <3>1. PICK i \in Inodes : /\ link' = [link EXCEPT ![p] = i] /\ Free(i)
                              /\ others' = (others \ {link[p]}) \cup {i}
      BY <2>1 DEF OtherWrites
    <3>2. {i} \ {None} = {i}
      BY PublicationAssumption
    <3> QED
      BY <3>1, <3>2
  <2>2. CASE OtherRemoves(p)
    <3>1. /\ link' = [link EXCEPT ![p] = None] /\ others' = others \ {link[p]}
      BY <2>2 DEF OtherRemoves
    <3>2. others' = (others \ {link[p]}) \cup ({None} \ {None})
      BY <3>1
    <3> QED
      BY <3>1, <3>2
  <2> QED
    BY <2>1, <2>2
<1>2. bytes' \in [Inodes -> {"ours", "same", "other"}]
  BY <1>0 DEF OtherWrites, OtherRemoves
<1>3. /\ link' \in [Paths -> Inodes \cup {None}] /\ link'[p] = j
      /\ \A o \in Paths : o # p => link'[o] = link[o]
  BY <1>0, <1>1
<1>4. others' \subseteq Inodes /\ moves' \in 0 .. MaxMoves
  BY <1>0, <1>1
<1>5. FileTypeOK'
  BY <1>0, <1>2, <1>3, <1>4 DEF FileTypeOK
<1>6. LeftIsRecorded'
  BY <1>0 DEF LeftIsRecorded
<1>7. OthersSurvive'
  <2> SUFFICES ASSUME NEW i \in others'
               PROVE  (LinkedPublicly(i) \/ LinkedPrivately(i) \/ Adopted(i))'
    BY DEF OthersSurvive
  <2>1. CASE i = j
    BY <1>3, <2>1 DEF LinkedPublicly
  <2>2. CASE i # j
    <3>1. i \in others /\ i # link[p]
      BY <1>1, <2>2
    <3>2. LinkedPublicly(i) \/ LinkedPrivately(i) \/ Adopted(i)
      BY <3>1 DEF OthersSurvive
    <3> QED
      BY <1>0, <1>3, <3>1, <3>2 DEF LinkedPublicly, LinkedPrivately, Adopted
  <2> QED
    BY <2>1, <2>2
<1>8. DirectoryInv'
  <2>1. \A d \in Directories : Unused(d)' <=> Unused(d)
    BY <1>0 DEF Unused
  <2> QED
    BY <1>0, <2>1 DEF DirectoryInv, Remaining
<1>9. PointInv'
  BY <1>0 DEF PointInv
<1>10. OwnerInv'
  <2>1. staged.descriptor => Ours \notin others'
    BY <1>1 DEF OwnerInv, Free
  <2> QED
    BY <1>0, <2>1 DEF OwnerInv
<1>11. TargetInv'
  BY <1>0, <1>3 DEF TargetInv, Paths
<1> QED
  BY <1>5, <1>6, <1>7, <1>8, <1>9, <1>10, <1>11

LEMMA FileBegins ==
    ASSUME FileInit
    PROVE  FileInv
<1>1. PICK old \in {None} \cup (Inodes \ {Ours}), kind \in {"same", "other"} :
         /\ link = [temporary |-> Ours, target |-> old]
         /\ bytes = [i \in Inodes |-> IF i = Ours THEN "ours" ELSE kind]
         /\ others = {old} \ {None}
  BY DEF FileInit
<1>2. /\ quarantine = [d \in Directories |-> None] /\ registry = {}
      /\ calls = 0 /\ faults = 0 /\ moves = 0
      /\ staged \in StagedRecords /\ staged.descriptor /\ ~staged.created
      /\ staged.evidence = None
  BY DEF FileInit, StagedRecords
<1>3. call \in CallRecords /\ call.pc = "idle" /\ call.op = "none"
  BY DEF FileInit, Idle, CallRecords, CallPoints
<1>4. Ours \in Inodes /\ None \notin Inodes /\ MaxCalls \in Nat /\ MaxFaults \in Nat
      /\ MaxMoves \in Nat
  BY PublicationAssumption
<1>5. FileTypeOK
  <2>1. link \in [Paths -> Inodes \cup {None}]
    BY <1>1, <1>4 DEF Paths
  <2>2. bytes \in [Inodes -> {"ours", "same", "other"}] /\ others \subseteq Inodes
    BY <1>1
  <2> QED
    BY <1>2, <1>3, <1>4, <2>1, <2>2 DEF FileTypeOK, StagedRecords, CallRecords, CallPoints
<1>6. LeftIsRecorded
  BY <1>2 DEF LeftIsRecorded
<1>7. OthersSurvive
  BY <1>1 DEF OthersSurvive, LinkedPublicly, Paths
<1>8. DirectoryInv
  BY <1>2 DEF DirectoryInv, Unused
<1>9. PointInv /\ OwnerInv
  BY <1>1, <1>2, <1>3 DEF PointInv, OwnerInv
<1>10. TargetInv
  BY <1>2, <1>3 DEF TargetInv
<1> QED
  BY <1>5, <1>6, <1>7, <1>8, <1>9, <1>10 DEF FileInv

LEMMA FileStep ==
    ASSUME FileInv, [FileNext]_fileVars
    PROVE  FileInv'
<1>1. CASE UNCHANGED fileVars
  <2>1. UNCHANGED <<link, bytes, quarantine, others, staged, registry, call, calls,
                    faults, moves>>
    BY <1>1 DEF fileVars, disk, bounds
  <2> QED
    BY <2>1 DEF FileInv, FileTypeOK, DirectoryInv, Unused, Remaining, PointInv, OwnerInv,
       TargetInv, LeftIsRecorded, OthersSurvive, LinkedPublicly,
       LinkedPrivately, Adopted
<1>2. CASE Step
  BY <1>2, LookStep, LinkStep, EvidenceStep, DetachStep, JudgeStep, VerdictStep DEF Step
<1>3. CASE FileNext
  BY <1>2, <1>3, StartStep, FinalizeStep, RestoreStep, CleanupStep, OtherStep DEF FileNext
<1> QED
  BY <1>1, <1>3

\* Type correctness of the staged file, its quarantine directories and the registry
\* (_StagedOutputFile, _QuarantineRecovery).
THEOREM FileTypes ==
    FileSpec => []FileTypeOK
<1>1. FileInit => FileInv
  BY FileBegins
<1>2. FileInv /\ [FileNext]_fileVars => FileInv'
  BY FileStep
<1>3. FileInv => FileTypeOK
  BY DEF FileInv
<1> QED
  BY <1>1, <1>2, <1>3, PTL DEF FileSpec

\* _quarantine_owned_path deletes no file of another process, at every interleaving of
\* publish, discard and rollback with other processes and whichever system calls fail, but
\* the one that publish took for its own link (Adopted).
THEOREM OthersAreSafe ==
    FileSpec => []OthersSurvive
<1>1. FileInit => FileInv
  BY FileBegins
<1>2. FileInv /\ [FileNext]_fileVars => FileInv'
  BY FileStep
<1>3. FileInv => OthersSurvive
  BY DEF FileInv
<1> QED
  BY <1>1, <1>2, <1>3, PTL DEF FileSpec

\* What _quarantine_owned_path leaves in a private directory is known to the registry of
\* recoveries, whatever fails and whoever touches the target.
THEOREM RemnantsAreRecorded ==
    FileSpec => []LeftIsRecorded
<1>1. FileInit => FileInv
  BY FileBegins
<1>2. FileInv /\ [FileNext]_fileVars => FileInv'
  BY FileStep
<1>3. FileInv => LeftIsRecorded
  BY DEF FileInv
<1> QED
  BY <1>1, <1>2, <1>3, PTL DEF FileSpec

================================================================================
