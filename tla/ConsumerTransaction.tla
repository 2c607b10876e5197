-------------------------- MODULE ConsumerTransaction --------------------------
(***************************************************************************)
(* One ConsumerTransaction of python/pops/runtime/_consumer_transaction.py:*)
(* the samples ("effects") that are due at one accepted moment are         *)
(* prepared as temporaries, then published in plan order and, if anything  *)
(* goes wrong before the enclosing step is final, withdrawn again.         *)
(*                                                                         *)
(* Every call to the external publisher (prepare, publish, discard,        *)
(* rollback, finalize) is one step whose outcome is chosen                 *)
(* nondeterministically; the Python code between two such calls is part of *)
(* the step.  An effect is its position in EffectPlan.effects.             *)
(***************************************************************************)
EXTENDS Naturals, Sequences

CONSTANTS
    N,               \* len(plan.effects)
    FailureAction,   \* effect -> the ConsumerFailureAction of its consumer
    MaxAttempts      \* effect -> Retry.max_attempts, read only under "Retry"

Effects == 1 .. N
FailureActions == {"FailRun", "Retry", "SkipSampleReported"}

\* _stage_consumers drops plans without effects; Retry refuses max_attempts < 1.
ASSUME PlanAssumption ==
    /\ N \in Nat \ {0}
    /\ FailureAction \in [Effects -> FailureActions]
    /\ MaxAttempts \in [Effects -> Nat \ {0}]

VARIABLES
    state,            \* self._state; "lost" when the constructor was cancelled
    method,           \* the public method being executed, or "none"
    pc,               \* the publisher call that comes next
    effect,           \* the loop variable of _prepare_all and accept
    k,                \* index of the reversed (cleanup) or forward (seal) loop
    prepared,         \* self._prepared
    pending,          \* the local list of accept and of seal
    accepted,         \* self._accepted
    finalizePending,  \* self._finalize_pending
    attempts,         \* effect -> the attempt count carried in its tuple
    skipped,          \* effect -> phase of its SkippedSampleReport, or "no"
    cursors,          \* effects whose cursor_after is in the reported cursors
    rolledBack,       \* report.rolled_back_effects
    diagnostics,      \* effects with a cleanup failure in report.diagnostics
    recoveries,       \* self._recoveries: effects with a retained authority
    artifact,         \* external: what the publisher holds for each effect
    dropped           \* external: effects of which a failed prepare left a file

ledger == <<prepared, pending, accepted, finalizePending>>
report == <<skipped, cursors, rolledBack, diagnostics>>
vars == <<state, method, pc, effect, k, ledger, attempts, report, recoveries,
          artifact, dropped>>

States == {"preparing", "staged", "accepted", "rejected", "failed", "sealed",
           "lost"}
Methods == {"none", "construct", "accept", "reject", "rollback_accepted",
            "seal"}
Calls == {"idle", "cancelled", "prepare", "publish", "cleanup", "compensate",
          "discard", "finalize"}

(***************************************************************************)
(* What the publisher may hold for an effect: nothing, an invisible        *)
(* temporary, a visible artifact, a visible artifact whose rollback-only   *)
(* resources are released, or an artifact a failed cleanup moved aside.    *)
(***************************************************************************)
ArtifactStates == {"none", "temporary", "published", "final", "quarantined"}

AttemptLimit(e) == IF FailureAction[e] = "Retry" THEN MaxAttempts[e] ELSE 1

Init ==
    /\ state = "preparing"
    /\ method = "construct"
    /\ pc = "prepare"
    /\ effect = 1
    /\ k = 0
    /\ prepared = <<>>
    /\ pending = <<>>
    /\ accepted = <<>>
    /\ finalizePending = <<>>
    /\ attempts = [e \in Effects |-> 0]
    /\ skipped = [e \in Effects |-> "no"]
    /\ cursors = {}
    /\ rolledBack = {}
    /\ diagnostics = {}
    /\ recoveries = {}
    /\ artifact = [e \in Effects |-> "none"]
    /\ dropped = {}

\* Mutant: the loop over the plan runs one past its end.
NextEffectPastEnd ==
    /\ effect' = effect + 1
    /\ UNCHANGED <<state, method, pc>>

(***************************************************************************)
(* _prepare_all goes on to the next effect; after the last one the         *)
(* constructor returns a staged transaction.                               *)
(***************************************************************************)
NextEffect ==
    \/ /\ effect < N
       /\ effect' = effect + 1
       /\ UNCHANGED <<state, method, pc>>
    \/ /\ effect = N
       /\ state' = "staged"
       /\ method' = "none"
       /\ pc' = "idle"
       /\ UNCHANGED effect

Resolve(status) ==
    /\ state' = status
    /\ method' = "none"
    /\ pc' = "idle"

\* Mutant: compensation in publication order.
CurrentForward(list) == list[Len(list) + 1 - k]

\* The cleanup loops run over reversed(list), the list is cleared at the end.
Current(list) == list[k]
StartDiscard(list) == pc' = "discard" /\ k' = Len(list)
StartCompensation == pc' = "compensate" /\ k' = Len(accepted)

\* Mutant: the replacement of a failed publication is put at the end.
ReinsertLast(e) == pending' = Append(pending, e)

\* pending.insert(0, replacement)
Reinsert(e) == pending' = <<e>> \o pending

\* Mutant: the unpublished rest of accept's local list is dropped.
ForgetRest == pending' = <<>> /\ UNCHANGED prepared

\* self._prepared.extend(pending), so that _failed discards the unpublished rest.
KeepRest == prepared' = prepared \o pending /\ pending' = <<>>

--------------------------------------------------------------------------------
(* The constructor: _prepare_all and _prepare_one.                          *)

\* publisher.prepare(effect) returns an authentic PreparedPublication.
PrepareSucceeds ==
    /\ pc = "prepare"
    /\ attempts[effect] < AttemptLimit(effect)
    /\ attempts' = [attempts EXCEPT ![effect] = @ + 1]
    /\ artifact' = [artifact EXCEPT ![effect] = "temporary"]
    /\ \/ /\ method = "construct"
          /\ prepared' = Append(prepared, effect)
          /\ NextEffect
          /\ UNCHANGED pending
       \/ /\ method = "accept"
          /\ Reinsert(effect)
          /\ pc' = "publish"
          /\ UNCHANGED <<state, method, effect, prepared>>
    /\ UNCHANGED <<k, accepted, finalizePending, report, recoveries, dropped>>

(***************************************************************************)
(* prepare raises, or _validate_prepared refuses what it returned.  Either *)
(* way _prepare_one holds no publication to discard, so a temporary that   *)
(* prepare had made by then stays on disk with no owner.                   *)
(***************************************************************************)
MayLeaveTemporary(e) == dropped' \in {dropped, dropped \cup {e}}

\* It raises and an attempt is left: the loop of _prepare_one goes round.
PrepareRaises ==
    /\ pc = "prepare"
    /\ attempts[effect] + 1 < AttemptLimit(effect)
    /\ attempts' = [attempts EXCEPT ![effect] = @ + 1]
    /\ MayLeaveTemporary(effect)
    /\ UNCHANGED <<state, method, pc, effect, k, ledger, report, recoveries,
                   artifact>>

(***************************************************************************)
(* It raises on the last attempt.  The constructor skips the sample or     *)
(* discards what it staged; accept, which only comes here under Retry,     *)
(* keeps the rest of its list for _failed and compensates.                 *)
(***************************************************************************)
PrepareExhausted ==
    /\ pc = "prepare"
    /\ attempts[effect] + 1 = AttemptLimit(effect)
    /\ attempts' = [attempts EXCEPT ![effect] = @ + 1]
    /\ MayLeaveTemporary(effect)
    /\ \/ /\ method = "construct"
          /\ FailureAction[effect] = "SkipSampleReported"
          /\ skipped' = [skipped EXCEPT ![effect] = "prepare"]
          /\ NextEffect
          /\ UNCHANGED <<k, prepared, pending, rolledBack>>
       \/ /\ method = "construct"
          /\ FailureAction[effect] # "SkipSampleReported"
          /\ StartDiscard(prepared)
          /\ UNCHANGED <<state, method, effect, prepared, pending, skipped,
                         rolledBack>>
       \/ /\ method = "accept"
          /\ KeepRest
          /\ rolledBack' = {effect}
          /\ StartCompensation
          /\ UNCHANGED <<state, method, effect, skipped>>
    /\ UNCHANGED <<accepted, finalizePending, cursors, diagnostics, recoveries,
                   artifact>>

--------------------------------------------------------------------------------
(* accept                                                                   *)

Accept ==
    /\ pc = "idle"
    /\ state = "staged"
    /\ method' = "accept"
    /\ pc' = "publish"
    /\ pending' = prepared
    /\ prepared' = <<>>
    /\ UNCHANGED <<state, effect, k, accepted, finalizePending, attempts,
                   report, recoveries, artifact, dropped>>

\* Mutant: each receipt replaces its cursor in the initial set.
AdvanceOnly(e) == cursors' = {e}

\* cursors = cursors.replace(effect.cursor_after)
Advance(e) == cursors' = cursors \cup {e}

PublishSucceeds ==
    /\ pc = "publish"
    /\ pending # <<>>
    /\ effect' = Head(pending)
    /\ pending' = Tail(pending)
    /\ accepted' = Append(accepted, Head(pending))
    /\ Advance(Head(pending))
    /\ artifact' = [artifact EXCEPT ![Head(pending)] = "published"]
    /\ UNCHANGED <<state, method, pc, k, prepared, finalizePending, attempts,
                   skipped, rolledBack, diagnostics, recoveries, dropped>>

(***************************************************************************)
(* publish raises, or its receipt does not authenticate the effect: the    *)
(* artifact may or may not have become visible.                            *)
(***************************************************************************)
PublishRaises ==
    /\ pc = "publish"
    /\ pending # <<>>
    /\ effect' = Head(pending)
    /\ pending' = Tail(pending)
    /\ pc' = "cleanup"
    /\ \E visible \in {"temporary", "published"} :
          artifact' = [artifact EXCEPT ![Head(pending)] = visible]
    /\ UNCHANGED <<state, method, k, prepared, accepted, finalizePending,
                   attempts, report, recoveries, dropped>>

AcceptReturns ==
    /\ pc = "publish"
    /\ pending = <<>>
    /\ Resolve("accepted")
    /\ UNCHANGED <<effect, k, ledger, attempts, report, recoveries, artifact,
                   dropped>>

(***************************************************************************)
(* _discard and _rollback of one publication.  Success removes it.  A      *)
(* failure leaves it where it was, or moves it into a quarantine whose     *)
(* authority _retain_recoveries keeps; the transfer of that authority may  *)
(* itself fail, and that too is a failure of the cleanup.                  *)
(***************************************************************************)
RemovalSucceeds(e) ==
    /\ artifact' = [artifact EXCEPT ![e] = "none"]
    /\ UNCHANGED recoveries

RemovalFails(e) ==
    \/ UNCHANGED <<artifact, recoveries>>
    \/ /\ artifact' = [artifact EXCEPT ![e] = "none"]
       /\ UNCHANGED recoveries
    \/ /\ artifact' = [artifact EXCEPT ![e] = "quarantined"]
       /\ recoveries' = recoveries \cup {e}
    \/ /\ artifact' = [artifact EXCEPT ![e] = "quarantined"]
       /\ UNCHANGED recoveries

\* Mutant: the second round of attempts starts counting at zero.
ReprepareFromZero ==
    /\ pc' = "prepare"
    /\ attempts' = [attempts EXCEPT ![effect] = 0]

\* _prepare_one(effect, attempts) goes on counting where the first round stopped.
Reprepare == pc' = "prepare" /\ UNCHANGED attempts

MayRetry(e) == FailureAction[e] = "Retry" /\ attempts[e] < AttemptLimit(e)

\* The failed publication was removed and its action lets accept go on.
FailedPublishRecovered ==
    /\ pc = "cleanup"
    /\ RemovalSucceeds(effect)
    /\ \/ /\ MayRetry(effect)
          /\ Reprepare
          /\ UNCHANGED skipped
       \/ /\ FailureAction[effect] = "SkipSampleReported"
          /\ skipped' = [skipped EXCEPT ![effect] = "publish"]
          /\ pc' = "publish"
          /\ UNCHANGED attempts
    /\ UNCHANGED <<state, method, effect, k, ledger, cursors, rolledBack,
                   diagnostics, dropped>>

(***************************************************************************)
(* The cleanup failed, or the action does not let accept go on: the rest   *)
(* of the list goes back to _prepared and the published part is            *)
(* compensated.                                                            *)
(***************************************************************************)
FailedPublishFailsRun ==
    /\ pc = "cleanup"
    /\ \/ /\ RemovalSucceeds(effect)
          /\ ~MayRetry(effect)
          /\ FailureAction[effect] # "SkipSampleReported"
          /\ rolledBack' = {effect}
          /\ UNCHANGED <<skipped, diagnostics>>
       \/ /\ RemovalFails(effect)
          /\ skipped' = IF FailureAction[effect] = "SkipSampleReported"
                        THEN [skipped EXCEPT ![effect] = "publish"]
                        ELSE skipped
          /\ diagnostics' = {effect}
          /\ UNCHANGED rolledBack
    /\ KeepRest
    /\ StartCompensation
    /\ UNCHANGED <<state, method, effect, accepted, finalizePending, attempts,
                   cursors, dropped>>

--------------------------------------------------------------------------------
(* Compensation: _rollback_accepted and _discard_staged.                    *)

\* Mutant: a failed removal is listed as rolled back.
CleanUpUnreported(e) ==
    /\ RemovalSucceeds(e) \/ RemovalFails(e)
    /\ rolledBack' = rolledBack \cup {e}
    /\ UNCHANGED diagnostics

CleanUp(e) ==
    \/ /\ RemovalSucceeds(e)
       /\ rolledBack' = rolledBack \cup {e}
       /\ UNCHANGED diagnostics
    \/ /\ RemovalFails(e)
       /\ diagnostics' = diagnostics \cup {e}
       /\ UNCHANGED rolledBack

CompensateOne ==
    /\ pc = "compensate"
    /\ k > 0
    /\ CleanUp(Current(accepted))
    /\ k' = k - 1
    /\ UNCHANGED <<state, method, pc, effect, ledger, attempts, skipped,
                   cursors, dropped>>

\* The reports of a failed or rejected transaction carry the initial cursors.
CompensateDone ==
    /\ pc = "compensate"
    /\ k = 0
    /\ accepted' = <<>>
    /\ cursors' = {}
    /\ \/ /\ method = "accept"
          /\ StartDiscard(prepared)
          /\ UNCHANGED <<state, method>>
       \/ /\ method = "rollback_accepted"
          /\ Resolve(IF diagnostics = {} THEN "rejected" ELSE "failed")
          /\ UNCHANGED k
    /\ UNCHANGED <<effect, prepared, pending, finalizePending, attempts,
                   skipped, rolledBack, diagnostics, recoveries, artifact,
                   dropped>>

DiscardOne ==
    /\ pc = "discard"
    /\ k > 0
    /\ CleanUp(Current(prepared))
    /\ k' = k - 1
    /\ UNCHANGED <<state, method, pc, effect, ledger, attempts, skipped,
                   cursors, dropped>>

DiscardDone ==
    /\ pc = "discard"
    /\ k = 0
    /\ prepared' = <<>>
    /\ Resolve(IF method = "reject" /\ diagnostics = {}
               THEN "rejected" ELSE "failed")
    /\ UNCHANGED <<effect, k, pending, accepted, finalizePending, attempts,
                   report, recoveries, artifact, dropped>>

\* abort is Reject in "staged", RollbackAccepted in "accepted", else nothing.
Reject ==
    /\ pc \in {"idle", "cancelled"}
    /\ state = "staged"
    /\ method' = "reject"
    /\ StartDiscard(prepared)
    /\ rolledBack' = {}
    /\ diagnostics' = {}
    /\ UNCHANGED <<state, effect, ledger, attempts, skipped, cursors,
                   recoveries, artifact, dropped>>

\* Mutant: a sealed transaction still lets itself be compensated.
CompensableWhenSealed == state \in {"accepted", "sealed"}

Compensable == state = "accepted"

RollbackAccepted ==
    /\ pc \in {"idle", "cancelled"}
    /\ Compensable
    /\ method' = "rollback_accepted"
    /\ StartCompensation
    /\ rolledBack' = {}
    /\ diagnostics' = {}
    /\ UNCHANGED <<state, effect, ledger, attempts, skipped, cursors,
                   recoveries, artifact, dropped>>

--------------------------------------------------------------------------------
(* seal: rollback ownership ends before the first release is attempted.     *)

Seal ==
    /\ pc = "idle"
    /\ \/ /\ state = "accepted"
          /\ finalizePending' = accepted
          /\ accepted' = <<>>
          /\ state' = "sealed"
       \/ /\ state = "sealed"
          /\ finalizePending # <<>>
          /\ UNCHANGED <<state, accepted, finalizePending>>
    /\ method' = "seal"
    /\ pc' = "finalize"
    /\ k' = 1
    /\ UNCHANGED <<effect, prepared, pending, attempts, report, recoveries,
                   artifact, dropped>>

\* A finalizer that raises is kept for a later seal, whatever it released.
FinalizeOne ==
    /\ pc = "finalize"
    /\ k <= Len(finalizePending)
    /\ \/ /\ artifact' = [artifact EXCEPT ![finalizePending[k]] = "final"]
          /\ UNCHANGED pending
       \/ /\ \/ artifact' = [artifact EXCEPT ![finalizePending[k]] = "final"]
             \/ UNCHANGED artifact
          /\ pending' = Append(pending, finalizePending[k])
    /\ k' = k + 1
    /\ UNCHANGED <<state, method, pc, effect, prepared, accepted,
                   finalizePending, attempts, report, recoveries, dropped>>

FinalizeDone ==
    /\ pc = "finalize"
    /\ k > Len(finalizePending)
    /\ finalizePending' = pending
    /\ pending' = <<>>
    /\ Resolve("sealed")
    /\ UNCHANGED <<effect, k, prepared, accepted, attempts, report, recoveries,
                   artifact, dropped>>

--------------------------------------------------------------------------------
PublisherReturns ==
    \/ PrepareSucceeds \/ PrepareRaises \/ PrepareExhausted
    \/ PublishSucceeds \/ PublishRaises \/ AcceptReturns
    \/ FailedPublishRecovered \/ FailedPublishFailsRun
    \/ CompensateOne \/ CompensateDone \/ DiscardOne \/ DiscardDone
    \/ FinalizeOne \/ FinalizeDone

Resolution == Accept \/ Reject \/ RollbackAccepted \/ Seal

Next == PublisherReturns \/ Resolution

Spec == Init /\ [][Next]_vars

(***************************************************************************)
(* Every public call runs to its end (its loops are bounded), and the step *)
(* envelope resolves every transaction it has staged.  Nothing forces a    *)
(* particular outcome of a publisher call.                                 *)
(***************************************************************************)
FairSpec == Spec /\ WF_vars(PublisherReturns) /\ WF_vars(Accept \/ Reject)

(***************************************************************************)
(* A cancellation (KeyboardInterrupt, SystemExit) is no Exception: none of *)
(* the handlers inside accept, _prepare_one, _discard and _rollback        *)
(* catches it, so it leaves the method with self._state and the lists as   *)
(* they are and the local list gone.  The envelope catches it and aborts.  *)
(* Cancelled in the constructor, the transaction is never handed out.      *)
(***************************************************************************)
Cancel ==
    /\ pc \in {"prepare", "publish", "cleanup", "compensate", "discard"}
    /\ \/ UNCHANGED artifact
       \/ /\ pc = "prepare"
          /\ artifact' = [artifact EXCEPT ![effect] = "temporary"]
       \/ /\ pc = "publish"
          /\ pending # <<>>
          /\ artifact' = [artifact EXCEPT ![Head(pending)] = "published"]
    /\ pending' = <<>>
    /\ state' = IF method = "construct" THEN "lost" ELSE state
    /\ method' = "none"
    /\ pc' = "cancelled"
    /\ UNCHANGED <<effect, k, prepared, accepted, finalizePending, attempts,
                   report, recoveries, dropped>>

SpecWithCancellation == Init /\ [][Next \/ Cancel]_vars

--------------------------------------------------------------------------------
(* Properties                                                               *)

Listed(s) == {s[i] : i \in DOMAIN s}
Visible == {e \in Effects : artifact[e] \in {"published", "final"}}

\* Every variable keeps the shape __init__ gives it.
TypeOK ==
    /\ state \in States
    /\ method \in Methods
    /\ pc \in Calls
    /\ effect \in Effects
    /\ k \in Nat
    /\ prepared \in Seq(Effects)
    /\ pending \in Seq(Effects)
    /\ accepted \in Seq(Effects)
    /\ finalizePending \in Seq(Effects)
    /\ attempts \in [Effects -> Nat]
    /\ skipped \in [Effects -> {"no", "prepare", "publish"}]
    /\ cursors \subseteq Effects
    /\ rolledBack \subseteq Effects
    /\ diagnostics \subseteq Effects
    /\ recoveries \subseteq Effects
    /\ artifact \in [Effects -> ArtifactStates]
    /\ dropped \subseteq Effects

(***************************************************************************)
(* No publication that prepare handed over is forgotten, at any step of    *)
(* any method: one that is not released is on one of the lists the         *)
(* transaction owns, is the one being cleaned up, or has a cleanup failure *)
(* in the report.  What a failed prepare leaves has no owner (_prepare_one *)
(* drops it); the failure behind it shows, as a skipped sample or as the   *)
(* failure of the transaction, unless a retry hides it.                    *)
(***************************************************************************)
PublicationsAreHeld ==
    \A e \in Effects : artifact[e] \notin {"none", "final"} =>
        \/ e \in Listed(prepared) \cup Listed(pending)
        \/ e \in Listed(accepted) \cup Listed(finalizePending)
        \/ e \in diagnostics
        \/ pc = "cleanup" /\ e = effect

FailedPreparesShow ==
    \A e \in dropped :
        \/ FailureAction[e] = "Retry"
        \/ skipped[e] # "no"
        \/ method = "construct" /\ pc = "discard"
        \/ state = "failed"

NoOrphan == PublicationsAreHeld /\ FailedPreparesShow

(***************************************************************************)
(* reject, rollback_accepted and a failure inside the constructor or       *)
(* accept leave no publication behind that the report does not own up to,  *)
(* and "rejected" (the clean outcome) leaves none at all; either way the   *)
(* reported cursors are the initial ones.  A publication is what prepare   *)
(* returned: a failed prepare's temporary is none (NoOrphan).              *)
(***************************************************************************)
WithdrawalIsAccounted ==
    /\ state = "rejected" => \A e \in Effects : artifact[e] = "none"
    /\ state \in {"rejected", "failed"} =>
          /\ cursors = {}
          /\ \A e \in Effects : artifact[e] # "none" => e \in diagnostics

(***************************************************************************)
(* An accepted transaction advances exactly the cursors of the samples     *)
(* that are visible; every other sample of the plan was skipped, has a     *)
(* report and left no publication behind.                                  *)
(***************************************************************************)
AcceptanceIsExact ==
    state \in {"accepted", "sealed"} /\ method # "rollback_accepted" =>
        /\ cursors = Visible
        /\ \A e \in Effects \ cursors :
              skipped[e] # "no" /\ artifact[e] = "none"

(***************************************************************************)
(* Samples become visible in plan order.  _stage_consumers places the      *)
(* checkpoint last in the plan, so this is what lets a checkpoint rely on  *)
(* every sample it records a cursor for.                                   *)
(***************************************************************************)
PublishedInPlanOrder ==
    [][\A e \in cursors' \ cursors : \A d \in Effects :
          d < e => d \in cursors \/ skipped[d] # "no"]_vars

(***************************************************************************)
(* Compensation runs backwards: a published sample is withdrawn only after *)
(* the withdrawal of every later published one has been attempted.         *)
(***************************************************************************)
CompensatedInReverse ==
    [][\A e \in cursors : artifact[e] = "published" /\ artifact'[e] # "published"
          => artifact'[e] = "final" \/
             \A d \in cursors : d > e => d \in rolledBack \cup diagnostics]_vars

(***************************************************************************)
(* After seal no finalizer and no later call withdraws an artifact: the    *)
(* enclosing native step has committed.                                    *)
(***************************************************************************)
SealedIsForever ==
    [][state = "sealed" => state' = "sealed" /\ Visible' = Visible]_vars

\* Every public call returns, and a staged transaction gets resolved.
EventuallyResolved ==
    /\ <>(state \notin {"preparing", "staged"})
    /\ [](pc # "idle" => <>(pc = "idle"))

(***************************************************************************)
(* The transaction implements ConsumerContract: however many publisher     *)
(* calls, retries and cleanups a public method makes, the envelope sees    *)
(* one step, and the plan's samples are shown or withdrawn as a whole.     *)
(* Shown are the samples whose cursor the report advances; left behind are *)
(* the publications the publisher still holds after a withdrawal.          *)
(***************************************************************************)
ContractPhase ==
    CASE state \in {"accepted", "sealed"} -> state
      [] state \in {"rejected", "failed"} -> "withdrawn"
      [] OTHER -> "open"

Contract == INSTANCE ConsumerContract WITH
    Effects <- Effects,
    Omissible <- {e \in Effects : FailureAction[e] = "SkipSampleReported"},
    phase <- ContractPhase,
    shown <- IF state \in {"accepted", "sealed"} THEN cursors ELSE {},
    left <- IF state \in {"rejected", "failed"}
            THEN {e \in Effects : artifact[e] # "none"} ELSE {}

ImplementsContract == Contract!Spec

(***************************************************************************)
(* What abort's docstring promises, and ConsumerTransactionReport checks   *)
(* of its own fields: a rejected attempt has no published artifact.        *)
(***************************************************************************)
RejectedHasNoArtifact == state = "rejected" => Visible = {}
================================================================================
