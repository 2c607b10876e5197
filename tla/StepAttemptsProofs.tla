-------------------------- MODULE StepAttemptsProofs ---------------------------
(***************************************************************************)
(* Proofs about StepAttempts, for any set of ranks, precision, step bounds *)
(* and run ends.  Rounding is never looked into: what is proved of the     *)
(* ranks holds whatever floating-point addition returns.                   *)
(***************************************************************************)
EXTENDS StepAttempts, TLAPS

-----------------------------------------------------------------------------
(* The inductive invariant.  Between two collective exchanges every rank   *)
(* runs on its own, and the ranks stand in different places of the loop.   *)
(* Meeting(r) is what rank r will bring to the next place where all ranks  *)
(* meet again: the attempt it starts or has started, the accepted step it  *)
(* publishes, or the state in which it leaves the run.                     *)

Live(r) == <<native[r], temporal[r], nextDt[r]>>
Kept(r) == <<snapshot[r].native, snapshot[r].temporal, snapshot[r].nextDt>>

Half(r) == cursor[r].dt \div 2
Undone(r) == Carried(snapshot[r].temporal, temporal[r])

Meeting(r) ==
    IF pc[r] = "loop" /\ native[r].time < end
      THEN <<"attempt", native[r], [temporal[r] EXCEPT !.queue = Proposal(r)],
             ControllerDt(r), Proposal(r), 0>>
    ELSE IF pc[r] = "attempt"
      THEN <<"attempt", snapshot[r].native, snapshot[r].temporal,
             snapshot[r].nextDt, cursor[r].dt, cursor[r].attempts>>
    ELSE IF pc[r] = "exchange"
      THEN <<"attempt", snapshot[r].native, snapshot[r].temporal,
             snapshot[r].nextDt, cursor[r].dt, cursor[r].attempts - 1>>
    ELSE IF pc[r] = "publish"
      THEN <<"publish", Live(r), Kept(r), cursor[r]>>
    ELSE IF pc[r] = "undo" /\ MayRetry(r)
      THEN <<"attempt", snapshot[r].native, RetryQueued(Undone(r), Half(r)),
             snapshot[r].nextDt, Half(r), cursor[r].attempts>>
    ELSE IF pc[r] = "undo"
      THEN <<"idle", snapshot[r].native,
             IF steps[r] = 0 THEN entry[r].temporal ELSE Undone(r),
             IF steps[r] = 0 THEN entry[r].nextDt ELSE snapshot[r].nextDt>>
    ELSE <<"idle", native[r], temporal[r], nextDt[r]>>

Agree == \A p, q \in Ranks :
    /\ Meeting(p) = Meeting(q) /\ entry[p] = entry[q] /\ steps[p] = steps[q]
    /\ pc[p] = "loop" /\ pc[q] = "loop" => Live(p) = Live(q)

\* Records keep their fields; the counters of steps and attempts are naturals.
IsEngine(n) == n = [time |-> n.time, step |-> n.step] /\ n.step \in Nat
IsTemporal(t) ==
    /\ t = [time |-> t.time, step |-> t.step, queue |-> t.queue, last |-> t.last,
            rejected |-> t.rejected, failed |-> t.failed,
            accepted |-> t.accepted, pending |-> t.pending]
    /\ t.step \in Nat
IsCursor(c) == c = [dt |-> c.dt, attempts |-> c.attempts] /\ c.attempts \in Nat
IsSnapshot(s) ==
    /\ s = [native |-> s.native, temporal |-> s.temporal, nextDt |-> s.nextDt]
    /\ IsEngine(s.native) /\ IsTemporal(s.temporal)

Places == {"idle", "loop", "attempt", "exchange", "publish", "undo"}

Shape ==
    /\ DOMAIN pc = Ranks /\ DOMAIN verdict = Ranks /\ DOMAIN native = Ranks
    /\ DOMAIN temporal = Ranks /\ DOMAIN nextDt = Ranks /\ DOMAIN cursor = Ranks
    /\ DOMAIN snapshot = Ranks /\ DOMAIN entry = Ranks /\ DOMAIN steps = Ranks
    /\ \A r \in Ranks :
        /\ pc[r] \in Places
        /\ IsTemporal(temporal[r]) /\ IsCursor(cursor[r]) /\ IsSnapshot(snapshot[r])
        /\ IsTemporal(entry[r].temporal)
    /\ \A t \in archive : IsTemporal(t)

\* What an attempt makes of the engine, by the row the rank brings.
Outcome(v, n, dt) ==
    CASE v = "ok" -> [time |-> Round(n.time + dt), step |-> n.step + 1]
      [] v = "fail" -> Torn
      [] OTHER -> n

\* What each rank knows about itself.
Own ==
    \A r \in Ranks :
        /\ pc[r] \in {"idle", "loop", "attempt", "publish"} => IsEngine(native[r])
        /\ pc[r] = "attempt" => Live(r) = Kept(r)
        /\ pc[r] = "exchange" =>
              /\ verdict[r] \in Verdicts
              /\ temporal[r] = snapshot[r].temporal /\ nextDt[r] = snapshot[r].nextDt
              /\ native[r] = Outcome(verdict[r], snapshot[r].native, cursor[r].dt)

IndInv == Shape /\ Own /\ Agree

-----------------------------------------------------------------------------
(* Meeting, place by place.                                                *)

\* What a rank brings, by the place it stands in.
LEMMA MeetingFacts ==
  ASSUME NEW r \in Ranks
  PROVE  /\ pc[r] = "idle" =>
              Meeting(r) = <<"idle", native[r], temporal[r], nextDt[r]>>
         /\ pc[r] = "loop" /\ ~(native[r].time < end) =>
              Meeting(r) = <<"idle", native[r], temporal[r], nextDt[r]>>
         /\ pc[r] = "loop" /\ native[r].time < end =>
              Meeting(r) = <<"attempt", native[r],
                             [temporal[r] EXCEPT !.queue = Proposal(r)],
                             ControllerDt(r), Proposal(r), 0>>
         /\ pc[r] = "attempt" =>
              Meeting(r) = <<"attempt", snapshot[r].native, snapshot[r].temporal,
                             snapshot[r].nextDt, cursor[r].dt, cursor[r].attempts>>
         /\ pc[r] = "exchange" =>
              Meeting(r) = <<"attempt", snapshot[r].native, snapshot[r].temporal,
                             snapshot[r].nextDt, cursor[r].dt,
                             cursor[r].attempts - 1>>
         /\ pc[r] = "publish" =>
              Meeting(r) = <<"publish", Live(r), Kept(r), cursor[r]>>
         /\ pc[r] = "undo" /\ MayRetry(r) =>
              Meeting(r) = <<"attempt", snapshot[r].native,
                             RetryQueued(Undone(r), Half(r)),
                             snapshot[r].nextDt, Half(r), cursor[r].attempts>>
         /\ pc[r] = "undo" /\ ~MayRetry(r) =>
              Meeting(r) = <<"idle", snapshot[r].native,
                IF steps[r] = 0 THEN entry[r].temporal ELSE Undone(r),
                IF steps[r] = 0 THEN entry[r].nextDt ELSE snapshot[r].nextDt>>
BY Zenon DEF Meeting

\* The same after a step.
LEMMA MeetingFactsNext ==
  ASSUME NEW r \in Ranks
  PROVE  /\ pc'[r] = "idle" =>
              Meeting(r)' = <<"idle", native'[r], temporal'[r], nextDt'[r]>>
         /\ pc'[r] = "attempt" =>
              Meeting(r)' = <<"attempt", snapshot'[r].native, snapshot'[r].temporal,
                              snapshot'[r].nextDt, cursor'[r].dt,
                              cursor'[r].attempts>>
         /\ pc'[r] = "exchange" =>
              Meeting(r)' = <<"attempt", snapshot'[r].native, snapshot'[r].temporal,
                              snapshot'[r].nextDt, cursor'[r].dt,
                              cursor'[r].attempts - 1>>
         /\ pc'[r] = "publish" =>
              Meeting(r)' = <<"publish", Live(r)', Kept(r)', cursor'[r]>>
BY Zenon DEF Meeting

\* A rank that a step leaves alone brings what it brought before.
Still(q) ==
    /\ pc'[q] = pc[q] /\ verdict'[q] = verdict[q] /\ native'[q] = native[q]
    /\ temporal'[q] = temporal[q] /\ nextDt'[q] = nextDt[q]
    /\ cursor'[q] = cursor[q] /\ snapshot'[q] = snapshot[q]

\* So Meeting depends on the rank alone.
LEMMA StillMeeting ==
  ASSUME NEW q \in Ranks, Still(q), entry' = entry, steps' = steps, end' = end
  PROVE  Meeting(q)' = Meeting(q)
<1>1. /\ ControllerDt(q)' = ControllerDt(q) /\ MayRetry(q)' = MayRetry(q)
      /\ Live(q)' = Live(q) /\ Kept(q)' = Kept(q) /\ Half(q)' = Half(q)
      /\ Undone(q)' = Undone(q)
  BY DEF Still, ControllerDt, MayRetry, Live, Kept, Half, Undone, Carried
<1>2. Proposal(q)' = Proposal(q)
  BY <1>1 DEF Still, Proposal
<1>3. RetryQueued(Undone(q), Half(q))' = RetryQueued(Undone(q), Half(q))
  BY <1>1 DEF RetryQueued
<1> QED
  BY <1>1, <1>2, <1>3 DEF Still, Meeting

\* A step that leaves every rank alone keeps the agreement.
LEMMA StillAgree ==
  ASSUME Agree, \A q \in Ranks : Still(q),
         entry' = entry, steps' = steps, end' = end
  PROVE  Agree'
<1>1. \A q \in Ranks : /\ Meeting(q)' = Meeting(q) /\ Live(q)' = Live(q)
                       /\ pc'[q] = pc[q]
  BY StillMeeting DEF Still, Live
<1> QED
  BY <1>1 DEF Agree

\* A step of rank r alone that keeps what it brings keeps the agreement.
LEMMA LocalAgree ==
  ASSUME IndInv, NEW r \in Ranks, \A q \in Ranks \ {r} : Still(q),
         Meeting(r)' = Meeting(r), pc'[r] # "loop",
         entry' = entry, steps' = steps, end' = end
  PROVE  Agree'
<1>1. \A q \in Ranks : Meeting(q)' = Meeting(q)
  BY StillMeeting
<1>2. \A q \in Ranks : pc'[q] = "loop" => pc[q] = "loop" /\ Live(q)' = Live(q)
  BY DEF Still, Live
<1>3. \A p, q \in Ranks : Meeting(p) = Meeting(q)
  BY DEF IndInv, Agree
<1>4. \A p, q \in Ranks : pc[p] = "loop" /\ pc[q] = "loop" => Live(p) = Live(q)
  BY DEF IndInv, Agree
<1>5. \A p, q \in Ranks : entry[p] = entry[q] /\ steps[p] = steps[q]
  BY DEF IndInv, Agree
<1>6. \A p, q \in Ranks : Meeting(p)' = Meeting(q)'
  BY <1>1, <1>3
<1>7. \A p, q \in Ranks : pc'[p] = "loop" /\ pc'[q] = "loop" => Live(p)' = Live(q)'
  BY <1>2, <1>4
<1> QED
  BY <1>5, <1>6, <1>7 DEF Agree

\* Shape and Own, rank by rank.
RankShape(r) ==
    /\ pc[r] \in Places
    /\ IsTemporal(temporal[r]) /\ IsCursor(cursor[r]) /\ IsSnapshot(snapshot[r])
    /\ IsTemporal(entry[r].temporal)
RankOwn(r) ==
    /\ pc[r] \in {"idle", "loop", "attempt", "publish"} => IsEngine(native[r])
    /\ pc[r] = "attempt" => Live(r) = Kept(r)
    /\ pc[r] = "exchange" =>
          /\ verdict[r] \in Verdicts
          /\ temporal[r] = snapshot[r].temporal /\ nextDt[r] = snapshot[r].nextDt
          /\ native[r] = Outcome(verdict[r], snapshot[r].native, cursor[r].dt)
Domains ==
    /\ DOMAIN pc = Ranks /\ DOMAIN verdict = Ranks /\ DOMAIN native = Ranks
    /\ DOMAIN temporal = Ranks /\ DOMAIN nextDt = Ranks /\ DOMAIN cursor = Ranks
    /\ DOMAIN snapshot = Ranks /\ DOMAIN entry = Ranks /\ DOMAIN steps = Ranks

\* IndInv, taken apart.
LEMMA RankByRank ==
  /\ IndInv <=> /\ Domains /\ Agree /\ \A t \in archive : IsTemporal(t)
                /\ \A r \in Ranks : RankShape(r) /\ RankOwn(r)
  /\ IndInv' <=> /\ Domains' /\ Agree' /\ \A t \in archive' : IsTemporal(t)
                 /\ \A r \in Ranks : RankShape(r)' /\ RankOwn(r)'
BY DEF IndInv, Shape, Own, Domains, RankShape, RankOwn

\* A step of rank r alone: only r is left to look at.
LEMMA LocalStep ==
  ASSUME IndInv, NEW r \in Ranks, Domains', \A q \in Ranks \ {r} : Still(q),
         Meeting(r)' = Meeting(r), pc'[r] # "loop", RankShape(r)', RankOwn(r)',
         entry' = entry, steps' = steps, end' = end, archive' = archive
  PROVE  IndInv'
<1>1. Agree'
  BY LocalAgree
<1>2. ASSUME NEW q \in Ranks PROVE RankShape(q)' /\ RankOwn(q)'
  <2>1. CASE q = r
    BY <2>1
  <2>2. CASE q # r
    <3>1. Still(q) /\ RankShape(q) /\ RankOwn(q)
      BY <2>2, RankByRank
    <3>2. RankShape(q)'
      BY <3>1 DEF Still, RankShape
    <3>3. Live(q)' = Live(q) /\ Kept(q)' = Kept(q)
      BY <3>1 DEF Still, Live, Kept
    <3>4. RankOwn(q)'
      BY <3>1, <3>3 DEF Still, RankOwn
    <3> QED
      BY <3>2, <3>4
  <2> QED
    BY <2>1, <2>2
<1> QED
  BY <1>1, <1>2, RankByRank

\* prepare_attempts brings the ranks to the attempt they were bound for.
LEMMA PrepareKeeps ==
  ASSUME IndInv, NEW r \in Ranks, Prepare(r)
  PROVE  IndInv'
<1>1. /\ Domains /\ RankShape(r) /\ RankOwn(r) /\ pc[r] = "loop"
      /\ native[r].time < end
  BY RankByRank DEF Prepare
<1>2. /\ Domains' /\ entry' = entry /\ steps' = steps /\ end' = end
      /\ archive' = archive
      /\ \A q \in Ranks \ {r} : Still(q)
  BY <1>1 DEF Prepare, Domains, Still
<1> DEFINE t == [temporal[r] EXCEPT !.queue = Proposal(r)]
<1>3. /\ pc'[r] = "attempt" /\ native'[r] = native[r] /\ temporal'[r] = t
      /\ nextDt'[r] = ControllerDt(r)
      /\ cursor'[r] = [dt |-> Proposal(r), attempts |-> 0]
      /\ snapshot'[r] = [native |-> native[r], temporal |-> temporal'[r],
                         nextDt |-> nextDt'[r]]
  BY <1>1 DEF Prepare, Domains
<1>4. IsTemporal(t)
  BY <1>1 DEF RankShape, IsTemporal
<1> HIDE DEF t
<1>5. /\ snapshot'[r].native = native[r] /\ snapshot'[r].temporal = t
      /\ snapshot'[r].nextDt = ControllerDt(r)
      /\ cursor'[r].dt = Proposal(r) /\ cursor'[r].attempts = 0
  BY <1>3
<1>6. Meeting(r)' = Meeting(r)
  <2>1. Meeting(r)' = <<"attempt", native[r], t, ControllerDt(r), Proposal(r), 0>>
    BY <1>3, <1>5, MeetingFactsNext
  <2> QED
    BY <1>1, <2>1, MeetingFacts DEF t
<1>7. IsEngine(native[r])
  BY <1>1 DEF RankOwn
<1>8. RankShape(r)'
  BY <1>1, <1>2, <1>3, <1>4, <1>5, <1>7
     DEF RankShape, Places, IsSnapshot, IsCursor
<1>9. RankOwn(r)'
  BY <1>3, <1>5, <1>7 DEF RankOwn, Live, Kept
<1> QED
  BY <1>2, <1>3, <1>6, <1>8, <1>9, LocalStep

\* A rank whose engine has reached t_end leaves the run as it stands.
LEMMA ReturnKeeps ==
  ASSUME IndInv, NEW r \in Ranks, Return(r)
  PROVE  IndInv'
<1>1. /\ Domains /\ RankShape(r) /\ RankOwn(r) /\ pc[r] = "loop"
      /\ ~(native[r].time < end)
  BY RankByRank DEF Return
<1>2. /\ Domains' /\ entry' = entry /\ steps' = steps /\ end' = end
      /\ archive' = archive
      /\ \A q \in Ranks \ {r} : Still(q)
      /\ pc'[r] = "idle" /\ native'[r] = native[r] /\ temporal'[r] = temporal[r]
      /\ nextDt'[r] = nextDt[r] /\ cursor'[r] = cursor[r]
      /\ snapshot'[r] = snapshot[r]
  BY <1>1 DEF Return, Domains, Still, local
<1>3. Meeting(r)' = Meeting(r)
  BY <1>1, <1>2, MeetingFacts, MeetingFactsNext
<1>4. RankShape(r)' /\ RankOwn(r)'
  BY <1>1, <1>2 DEF RankShape, RankOwn, Places
<1> QED
  BY <1>2, <1>3, <1>4, LocalStep

\* An attempt changes the engine and counts itself; the snapshot stays.
LEMMA AdvanceKeeps ==
  ASSUME IndInv, NEW r \in Ranks, Advance(r)
  PROVE  IndInv'
<1>1. /\ Domains /\ RankShape(r) /\ RankOwn(r) /\ pc[r] = "attempt"
  BY RankByRank DEF Advance
<1>2. PICK v \in Verdicts :
        /\ verdict' = [verdict EXCEPT ![r] = v]
        /\ native' = [native EXCEPT ![r] =
             CASE v = "ok" -> [time |-> Round(@.time + cursor[r].dt),
                               step |-> @.step + 1]
               [] v = "fail" -> Torn
               [] OTHER -> @]
  BY DEF Advance
<1>3. /\ cursor' = [cursor EXCEPT ![r].attempts = @ + 1]
      /\ pc' = [pc EXCEPT ![r] = "exchange"]
      /\ temporal' = temporal /\ nextDt' = nextDt /\ snapshot' = snapshot
      /\ entry' = entry /\ steps' = steps /\ end' = end /\ archive' = archive
  BY DEF Advance
<1>4. Domains' /\ \A q \in Ranks \ {r} : Still(q)
  BY <1>1, <1>2, <1>3 DEF Domains, Still
<1>5. /\ pc'[r] = "exchange" /\ verdict'[r] = v
      /\ native'[r] = Outcome(v, native[r], cursor[r].dt)
  BY <1>1, <1>2, <1>3 DEF Domains, Outcome
<1>6. /\ cursor'[r] = [dt |-> cursor[r].dt, attempts |-> cursor[r].attempts + 1]
      /\ cursor[r].attempts \in Nat
  BY <1>1, <1>3 DEF Domains, RankShape, IsCursor
<1>7. cursor'[r].dt = cursor[r].dt /\ cursor'[r].attempts - 1 = cursor[r].attempts
  BY <1>6
<1>8. Meeting(r)' = Meeting(r)
  BY <1>1, <1>3, <1>5, <1>7, MeetingFacts, MeetingFactsNext
<1>9. IsCursor(cursor'[r])
  BY <1>6 DEF IsCursor
<1>10. RankShape(r)'
  BY <1>1, <1>3, <1>5, <1>9 DEF RankShape, Places
<1>11. native[r] = snapshot[r].native /\ temporal[r] = snapshot[r].temporal
       /\ nextDt[r] = snapshot[r].nextDt
  BY <1>1 DEF RankOwn, Live, Kept
<1>12. RankOwn(r)'
  BY <1>3, <1>5, <1>7, <1>11 DEF RankOwn
<1> QED
  BY <1>3, <1>4, <1>5, <1>8, <1>10, <1>12, LocalStep

\* A temporal state stays one when its fields change and its step is a natural.
LEMMA SameFields ==
  ASSUME NEW t, IsTemporal(t), NEW u, u = [k \in DOMAIN u |-> u[k]],
         DOMAIN u = DOMAIN t, u.step \in Nat
  PROVE  IsTemporal(u)
<1>1. DOMAIN t = {"time", "step", "queue", "last", "rejected", "failed",
                  "accepted", "pending"}
  BY DEF IsTemporal
<1>2. u = [time |-> u.time, step |-> u.step, queue |-> u.queue, last |-> u.last,
           rejected |-> u.rejected, failed |-> u.failed,
           accepted |-> u.accepted, pending |-> u.pending]
  BY <1>1
<1> QED
  BY <1>2 DEF IsTemporal

\* _restore_unsuccessful_attempt_stats, accept, reject and fail, and a restart
\* change fields of the temporal state.
LEMMA UpdatedFields ==
  ASSUME NEW t, IsTemporal(t), NEW x, NEW time, NEW dt
  PROVE  /\ IsTemporal(Carried(t, x))
         /\ IsTemporal([Accepted(t, time) EXCEPT !.queue = dt])
         /\ IsTemporal([t EXCEPT !.rejected = @ + 1, !.pending = FALSE])
         /\ IsTemporal([t EXCEPT !.failed = @ + 1, !.pending = FALSE])
         /\ IsTemporal([t EXCEPT !.pending = TRUE])
<1> DEFINE Is(u) == /\ u = [k \in DOMAIN u |-> u[k]] /\ DOMAIN u = DOMAIN t
                    /\ u.step \in Nat
<1>1. /\ DOMAIN t = {"time", "step", "queue", "last", "rejected", "failed",
                     "accepted", "pending"}
      /\ t.step \in Nat
  BY DEF IsTemporal
<1>2. Is(Carried(t, x))
  BY <1>1 DEF Carried
<1>3. Is([Accepted(t, time) EXCEPT !.queue = dt])
  <2> DEFINE u == [Accepted(t, time) EXCEPT !.queue = dt]
  <2>1. u = [k \in DOMAIN u |-> u[k]] /\ DOMAIN u = DOMAIN t /\ u.step = t.step + 1
    BY <1>1 DEF Accepted
  <2> HIDE DEF u
  <2>2. Is(u)
    BY <1>1, <2>1
  <2> QED
    BY <2>2 DEF u
<1>4. /\ Is([t EXCEPT !.rejected = @ + 1, !.pending = FALSE])
      /\ Is([t EXCEPT !.failed = @ + 1, !.pending = FALSE])
      /\ Is([t EXCEPT !.pending = TRUE])
  BY <1>1
<1>5. ASSUME NEW u, Is(u) PROVE IsTemporal(u)
  BY <1>5, SameFields
<1> HIDE DEF Is
<1> QED
  BY <1>2, <1>3, <1>4, <1>5, Zenon

\* The temporal state that an undone attempt leaves behind.
LEMMA UndoneFacts ==
  ASSUME NEW r \in Ranks, RankShape(r), NEW dt
  PROVE  IsTemporal(Undone(r)) /\ IsTemporal(RetryQueued(Undone(r), dt))
<1>1. IsTemporal(snapshot[r].temporal)
  BY DEF RankShape, IsSnapshot
<1>2. IsTemporal(Undone(r))
  BY <1>1, UpdatedFields DEF Undone
<1> QED
  BY <1>2 DEF RetryQueued, IsTemporal

\* The handlers bring the rank to the retry or out of the run.
LEMMA UndoKeeps ==
  ASSUME IndInv, NEW r \in Ranks, Undo(r)
  PROVE  IndInv'
<1>1. /\ Domains /\ RankShape(r) /\ RankOwn(r) /\ pc[r] = "undo"
  BY RankByRank DEF Undo
<1>2. /\ native' = [native EXCEPT ![r] = snapshot[r].native]
      /\ verdict' = verdict /\ entry' = entry /\ steps' = steps /\ end' = end
      /\ archive' = archive
  BY DEF Undo, Restored
<1>3. native'[r] = snapshot[r].native /\ IsEngine(native'[r])
  BY <1>1, <1>2 DEF Domains, RankShape, IsSnapshot
<1>4. CASE MayRetry(r)
  <2> DEFINE t == RetryQueued(Undone(r), Half(r))
  <2>1. /\ cursor' = [cursor EXCEPT ![r].dt = Half(r)]
        /\ temporal' = [temporal EXCEPT ![r] = t]
        /\ nextDt' = [nextDt EXCEPT ![r] = snapshot[r].nextDt]
        /\ snapshot' = [snapshot EXCEPT ![r].temporal = temporal'[r]]
        /\ pc' = [pc EXCEPT ![r] = "attempt"]
    BY <1>4 DEF Undo, Undone, Half, RestoredDt
  <2>2. IsTemporal(t)
    BY <1>1, UndoneFacts
  <2> HIDE DEF t
  <2>3. Domains' /\ \A q \in Ranks \ {r} : Still(q)
    BY <1>1, <1>2, <2>1 DEF Domains, Still
  <2>4. /\ pc'[r] = "attempt" /\ temporal'[r] = t /\ nextDt'[r] = snapshot[r].nextDt
        /\ cursor'[r] = [cursor[r] EXCEPT !.dt = Half(r)]
        /\ snapshot'[r] = [snapshot[r] EXCEPT !.temporal = temporal'[r]]
    BY <1>1, <2>1 DEF Domains
  <2>5. cursor'[r] = [dt |-> Half(r), attempts |-> cursor[r].attempts]
    BY <1>1, <2>4 DEF RankShape, IsCursor
  <2>6. snapshot'[r] = [native |-> snapshot[r].native, temporal |-> t,
                        nextDt |-> snapshot[r].nextDt]
    BY <1>1, <2>4 DEF RankShape, IsSnapshot
  <2>7. /\ cursor'[r].dt = Half(r) /\ cursor'[r].attempts = cursor[r].attempts
        /\ snapshot'[r].native = snapshot[r].native /\ snapshot'[r].temporal = t
        /\ snapshot'[r].nextDt = snapshot[r].nextDt
    BY <2>5, <2>6
  <2>8. Meeting(r)' = Meeting(r)
    <3>1. Meeting(r)' = <<"attempt", snapshot[r].native, t, snapshot[r].nextDt,
                          Half(r), cursor[r].attempts>>
      BY <2>4, <2>7, MeetingFactsNext
    <3> QED
      BY <1>1, <1>4, <3>1, MeetingFacts DEF t
  <2>9. IsCursor(cursor'[r])
    BY <1>1, <2>5 DEF RankShape, IsCursor
  <2>10. IsSnapshot(snapshot'[r])
    BY <1>3, <2>2, <2>6 DEF IsSnapshot
  <2>11. RankShape(r)'
    BY <1>1, <1>2, <2>2, <2>4, <2>9, <2>10 DEF RankShape, Places
  <2>12. RankOwn(r)'
    BY <1>3, <2>4, <2>7 DEF RankOwn, Live, Kept
  <2> QED
    BY <1>2, <2>3, <2>4, <2>8, <2>11, <2>12, LocalStep
<1>5. CASE ~MayRetry(r)
  <2>1. /\ temporal' = [temporal EXCEPT ![r] =
              IF steps[r] = 0 THEN entry[r].temporal ELSE Undone(r)]
        /\ nextDt' = [nextDt EXCEPT ![r] =
              IF steps[r] = 0 THEN entry[r].nextDt ELSE snapshot[r].nextDt]
        /\ pc' = [pc EXCEPT ![r] = "idle"]
        /\ cursor' = cursor /\ snapshot' = snapshot
    BY <1>5 DEF Undo, Undone, RestoredDt
  <2>2. Domains' /\ \A q \in Ranks \ {r} : Still(q)
    BY <1>1, <1>2, <2>1 DEF Domains, Still
  <2>3. /\ pc'[r] = "idle"
        /\ temporal'[r] = IF steps[r] = 0 THEN entry[r].temporal ELSE Undone(r)
        /\ nextDt'[r] = IF steps[r] = 0 THEN entry[r].nextDt ELSE snapshot[r].nextDt
    BY <1>1, <2>1 DEF Domains
  <2>4. Meeting(r)' = Meeting(r)
    BY <1>1, <1>3, <1>5, <2>3, MeetingFacts, MeetingFactsNext
  <2>5. IsTemporal(temporal'[r])
    BY <1>1, <2>3, UndoneFacts DEF RankShape
  <2>6. RankShape(r)'
    BY <1>1, <1>2, <2>1, <2>3, <2>5 DEF RankShape, Places
  <2>7. RankOwn(r)'
    BY <1>3, <2>3 DEF RankOwn
  <2> QED
    BY <1>2, <2>2, <2>3, <2>4, <2>6, <2>7, LocalStep
<1> QED
  BY <1>4, <1>5

-----------------------------------------------------------------------------
(* The collective steps: every rank moves, from the same values.           *)

\* In the same place, with the same values, ranks bring the same.
SameValues(p, q) ==
    /\ pc[p] = pc[q] /\ verdict[p] = verdict[q] /\ native[p] = native[q]
    /\ temporal[p] = temporal[q] /\ nextDt[p] = nextDt[q] /\ cursor[p] = cursor[q]
    /\ snapshot[p] = snapshot[q] /\ entry[p] = entry[q] /\ steps[p] = steps[q]

\* Equal values make equal meetings.
LEMMA SameMeeting ==
  ASSUME NEW p \in Ranks, NEW q \in Ranks, SameValues(p, q)'
  PROVE  Meeting(p)' = Meeting(q)' /\ Live(p)' = Live(q)'
<1>1. /\ ControllerDt(p)' = ControllerDt(q)' /\ MayRetry(p)' = MayRetry(q)'
      /\ Live(p)' = Live(q)' /\ Kept(p)' = Kept(q)' /\ Half(p)' = Half(q)'
      /\ Undone(p)' = Undone(q)'
  BY DEF SameValues, ControllerDt, MayRetry, Live, Kept, Half, Undone, Carried
<1>2. Proposal(p)' = Proposal(q)'
  BY <1>1 DEF SameValues, Proposal
<1>3. RetryQueued(Undone(p), Half(p))' = RetryQueued(Undone(q), Half(q))'
  BY <1>1 DEF RetryQueued
<1> QED
  BY <1>1, <1>2, <1>3 DEF SameValues, Meeting

\* Ranks that enter the loop together need only the same live values.
LEMMA SameLoop ==
  ASSUME NEW p \in Ranks, NEW q \in Ranks, pc'[p] = "loop", pc'[q] = "loop",
         native'[p] = native'[q], temporal'[p] = temporal'[q],
         nextDt'[p] = nextDt'[q]
  PROVE  Meeting(p)' = Meeting(q)' /\ Live(p)' = Live(q)'
<1>1. ControllerDt(p)' = ControllerDt(q)' /\ Live(p)' = Live(q)'
  BY DEF ControllerDt, Live
<1>2. Proposal(p)' = Proposal(q)'
  BY <1>1 DEF Proposal
<1> QED
  BY <1>1, <1>2 DEF Meeting

\* Ranks that undo a step look at everything but the engine they leave.
LEMMA SameUndo ==
  ASSUME NEW p \in Ranks, NEW q \in Ranks, pc'[p] = "undo", pc'[q] = "undo",
         verdict'[p] = verdict'[q], temporal'[p] = temporal'[q],
         cursor'[p] = cursor'[q], snapshot'[p] = snapshot'[q],
         entry'[p] = entry'[q], steps'[p] = steps'[q]
  PROVE  Meeting(p)' = Meeting(q)'
<1>1. /\ MayRetry(p)' = MayRetry(q)' /\ Half(p)' = Half(q)'
      /\ Undone(p)' = Undone(q)'
  BY DEF MayRetry, Half, Undone, Carried
<1>2. RetryQueued(Undone(p), Half(p))' = RetryQueued(Undone(q), Half(q))'
  BY <1>1 DEF RetryQueued
<1> QED
  BY <1>1, <1>2 DEF Meeting

\* Ranks that meet at the exchange have the same snapshot and cursor.
LEMMA AtExchange ==
  ASSUME IndInv, All("exchange"), NEW p \in Ranks, NEW q \in Ranks
  PROVE  /\ snapshot[p] = snapshot[q] /\ cursor[p] = cursor[q]
         /\ temporal[p] = temporal[q] /\ nextDt[p] = nextDt[q]
         /\ verdict[p] = verdict[q] => native[p] = native[q]
<1>1. /\ pc[p] = "exchange" /\ pc[q] = "exchange" /\ Meeting(p) = Meeting(q)
      /\ RankShape(p) /\ RankOwn(p) /\ RankShape(q) /\ RankOwn(q)
  BY RankByRank DEF All, Agree
<1>2. <<"attempt", snapshot[p].native, snapshot[p].temporal, snapshot[p].nextDt,
        cursor[p].dt, cursor[p].attempts - 1>>
      = <<"attempt", snapshot[q].native, snapshot[q].temporal, snapshot[q].nextDt,
          cursor[q].dt, cursor[q].attempts - 1>>
  BY <1>1, MeetingFacts
<1>3. /\ snapshot[p].native = snapshot[q].native
      /\ snapshot[p].temporal = snapshot[q].temporal
      /\ snapshot[p].nextDt = snapshot[q].nextDt /\ cursor[p].dt = cursor[q].dt
      /\ cursor[p].attempts - 1 = cursor[q].attempts - 1
  BY <1>2
<1>4. cursor[p].attempts = cursor[q].attempts
  BY <1>1, <1>3 DEF RankShape, IsCursor
<1>5. snapshot[p] = snapshot[q] /\ cursor[p] = cursor[q]
  BY <1>1, <1>3, <1>4 DEF RankShape, IsSnapshot, IsCursor
<1> QED
  BY <1>1, <1>3, <1>5 DEF RankOwn

\* Ranks that meet idle, or at the publication, have the same live values.
LEMMA AtRest ==
  ASSUME IndInv, All("idle") \/ All("publish"), NEW p \in Ranks, NEW q \in Ranks
  PROVE  /\ native[p] = native[q] /\ temporal[p] = temporal[q]
         /\ nextDt[p] = nextDt[q] /\ entry[p] = entry[q] /\ steps[p] = steps[q]
         /\ IsEngine(native[p])
         /\ All("publish") => snapshot[p] = snapshot[q] /\ cursor[p] = cursor[q]
<1>1. /\ Meeting(p) = Meeting(q) /\ entry[p] = entry[q] /\ steps[p] = steps[q]
      /\ RankShape(p) /\ RankOwn(p) /\ RankShape(q) /\ RankOwn(q)
  BY RankByRank DEF Agree
<1>2. CASE All("idle")
  <2>1. pc[p] = "idle" /\ pc[q] = "idle"
    BY <1>2 DEF All
  <2>2. <<"idle", native[p], temporal[p], nextDt[p]>>
        = <<"idle", native[q], temporal[q], nextDt[q]>>
    BY <1>1, <2>1, MeetingFacts
  <2>3. native[p] = native[q] /\ temporal[p] = temporal[q] /\ nextDt[p] = nextDt[q]
    BY <2>2
  <2> QED
    BY <1>1, <2>1, <2>3 DEF All, RankOwn
<1>3. CASE All("publish")
  <2>1. pc[p] = "publish" /\ pc[q] = "publish"
    BY <1>3 DEF All
  <2>2. <<"publish", Live(p), Kept(p), cursor[p]>>
        = <<"publish", Live(q), Kept(q), cursor[q]>>
    BY <1>1, <2>1, MeetingFacts
  <2>3. Live(p) = Live(q) /\ Kept(p) = Kept(q) /\ cursor[p] = cursor[q]
    BY <2>2
  <2>4. native[p] = native[q] /\ temporal[p] = temporal[q] /\ nextDt[p] = nextDt[q]
    BY <2>3 DEF Live
  <2>5. snapshot[p] = snapshot[q]
    BY <1>1, <2>3 DEF Kept, RankShape, IsSnapshot
  <2> QED
    BY <1>1, <2>1, <2>3, <2>4, <2>5 DEF RankOwn
<1> QED
  BY <1>2, <1>3

\* All ranks enter the run from the same state.
LEMMA RunKeeps ==
  ASSUME IndInv, Run
  PROVE  IndInv'
<1>1. /\ All("idle") /\ Domains
      /\ \A t \in archive : IsTemporal(t)
      /\ \A r \in Ranks : RankShape(r) /\ RankOwn(r)
  BY RankByRank DEF Run
<1>2. /\ pc' = Everywhere("loop") /\ steps' = Everywhere(0)
      /\ entry' = [r \in Ranks |-> [temporal |-> temporal[r], nextDt |-> nextDt[r]]]
      /\ temporal' = [r \in Ranks |-> BeginRun(temporal[r])]
      /\ verdict' = verdict /\ native' = native /\ nextDt' = nextDt
      /\ cursor' = cursor /\ snapshot' = snapshot /\ archive' = archive
  BY DEF Run
<1>3. Domains'
  BY <1>1, <1>2 DEF Domains, Everywhere
<1>4. \A r \in Ranks : /\ pc'[r] = "loop" /\ steps'[r] = 0
                       /\ entry'[r] = [temporal |-> temporal[r], nextDt |-> nextDt[r]]
                       /\ temporal'[r] = BeginRun(temporal[r])
  BY <1>2 DEF Everywhere
<1>5. ASSUME NEW p \in Ranks, NEW q \in Ranks
      PROVE  /\ Meeting(p)' = Meeting(q)' /\ Live(p)' = Live(q)'
             /\ entry'[p] = entry'[q] /\ steps'[p] = steps'[q]
  <2>1. native[p] = native[q] /\ temporal[p] = temporal[q] /\ nextDt[p] = nextDt[q]
    BY <1>1, AtRest
  <2>2. temporal'[p] = temporal'[q]
    BY <1>4, <2>1
  <2> QED
    BY <1>2, <1>4, <2>1, <2>2, SameLoop
<1>6. Agree'
  BY <1>5 DEF Agree
<1>7. ASSUME NEW r \in Ranks PROVE RankShape(r)' /\ RankOwn(r)'
  <2>1. IsTemporal(temporal[r]) /\ IsEngine(native[r])
    BY <1>1 DEF RankShape, RankOwn, All
  <2>2. IsTemporal(BeginRun(temporal[r]))
    BY <2>1 DEF BeginRun, IsTemporal
  <2>3. IsTemporal(entry'[r].temporal)
    <3>1. entry'[r] = [temporal |-> temporal[r], nextDt |-> nextDt[r]]
      BY <1>4, Zenon
    <3>2. entry'[r].temporal = temporal[r]
      BY <3>1
    <3> QED
      BY <2>1, <3>2
  <2>4. RankShape(r)'
    BY <1>1, <1>2, <1>4, <2>2, <2>3 DEF RankShape, Places
  <2> QED
    BY <1>2, <1>4, <2>1, <2>4 DEF RankOwn
<1> QED
  BY <1>1, <1>2, <1>3, <1>6, <1>7, RankByRank

\* _collective_attempt_error accepts what every rank has accepted.
LEMMA DecisionFacts ==
  Decision(verdict) = "accept" => \A r \in Ranks : verdict[r] = "ok"
BY DEF Decision

\* Accepted on all ranks, or undone on all when time does not advance.
LEMMA AcceptKeeps ==
  ASSUME IndInv, Accept
  PROVE  IndInv'
<1>1. /\ All("exchange") /\ Domains /\ Decision(verdict) = "accept"
      /\ \A t \in archive : IsTemporal(t)
      /\ \A r \in Ranks : RankShape(r) /\ RankOwn(r)
      /\ \A p, q \in Ranks : entry[p] = entry[q] /\ steps[p] = steps[q]
  BY RankByRank DEF Accept, Agree
<1>2. /\ native' = native /\ cursor' = cursor /\ snapshot' = snapshot
      /\ entry' = entry /\ steps' = steps /\ archive' = archive
  BY DEF Accept
<1>3. \A r \in Ranks : verdict[r] = "ok"
  BY <1>1, DecisionFacts
<1>4. \A p, q \in Ranks :
        /\ snapshot[p] = snapshot[q] /\ cursor[p] = cursor[q]
        /\ temporal[p] = temporal[q] /\ nextDt[p] = nextDt[q]
        /\ native[p] = native[q]
  BY <1>1, <1>3, AtExchange
<1>5. CASE \A r \in Ranks : native[r].time > temporal[r].time
  <2>1. /\ temporal' = [r \in Ranks |->
              [Accepted(temporal[r], native[r].time) EXCEPT
                  !.queue = Following(cursor[r].dt)]]
        /\ nextDt' = [r \in Ranks |-> Following(cursor[r].dt)]
        /\ verdict' = Everywhere("accept")
        /\ pc' = Everywhere("publish")
    BY <1>5 DEF Accept
  <2>2. Domains'
    BY <1>1, <1>2, <2>1 DEF Domains, Everywhere
  <2>3. \A r \in Ranks :
          /\ temporal'[r] = [Accepted(temporal[r], native[r].time) EXCEPT
                                !.queue = Following(cursor[r].dt)]
          /\ nextDt'[r] = Following(cursor[r].dt)
          /\ verdict'[r] = "accept" /\ pc'[r] = "publish"
    BY <2>1 DEF Everywhere
  <2>4. ASSUME NEW p \in Ranks, NEW q \in Ranks PROVE SameValues(p, q)'
    <3>1. temporal'[p] = temporal'[q] /\ nextDt'[p] = nextDt'[q]
      <4> DEFINE F(t, n, c) ==
                   [Accepted(t, n.time) EXCEPT !.queue = Following(c.dt)]
      <4>1. /\ temporal[p] = temporal[q] /\ native[p] = native[q]
            /\ cursor[p] = cursor[q]
        BY <1>4
      <4>2. /\ temporal'[p] = F(temporal[p], native[p], cursor[p])
            /\ temporal'[q] = F(temporal[q], native[q], cursor[q])
            /\ nextDt'[p] = Following(cursor[p].dt)
            /\ nextDt'[q] = Following(cursor[q].dt)
        BY <2>3, Zenon
      <4> HIDE DEF F
      <4> QED
        BY <4>1, <4>2, Zenon
    <3> QED
      BY <1>1, <1>2, <1>4, <2>3, <3>1 DEF SameValues
  <2>5. Agree'
    BY <2>4, SameMeeting DEF Agree, SameValues
  <2>6. ASSUME NEW r \in Ranks PROVE RankShape(r)' /\ RankOwn(r)'
    <3>1. /\ IsTemporal(temporal[r]) /\ IsSnapshot(snapshot[r])
          /\ native[r] = Outcome("ok", snapshot[r].native, cursor[r].dt)
      BY <1>1, <1>3 DEF RankShape, RankOwn, All
    <3>2. IsEngine(native[r])
      BY <3>1 DEF Outcome, IsSnapshot, IsEngine
    <3>3. IsTemporal(temporal'[r])
      <4>1. temporal'[r] = [Accepted(temporal[r], native[r].time) EXCEPT
                              !.queue = Following(cursor[r].dt)]
        BY <2>3, Zenon
      <4>2. IsTemporal([Accepted(temporal[r], native[r].time) EXCEPT
                          !.queue = Following(cursor[r].dt)])
        BY <3>1, UpdatedFields, Zenon
      <4> QED
        BY <4>1, <4>2, Zenon
    <3>4. RankShape(r)'
      BY <1>1, <1>2, <2>3, <3>3 DEF RankShape, Places
    <3> QED
      BY <1>2, <2>3, <3>2, <3>4 DEF RankOwn
  <2> QED
    BY <1>1, <1>2, <2>2, <2>5, <2>6, RankByRank
<1>6. CASE ~(\A r \in Ranks : native[r].time > temporal[r].time)
  <2>1. /\ verdict' = Everywhere("fail") /\ pc' = Everywhere("undo")
        /\ temporal' = temporal /\ nextDt' = nextDt
    BY <1>6 DEF Accept
  <2>2. Domains' /\ \A r \in Ranks : verdict'[r] = "fail" /\ pc'[r] = "undo"
    BY <1>1, <1>2, <2>1 DEF Domains, Everywhere
  <2>3. \A p, q \in Ranks : SameValues(p, q)'
    BY <1>1, <1>2, <1>4, <2>1, <2>2 DEF SameValues
  <2>4. Agree'
    BY <2>3, SameMeeting DEF Agree, SameValues
  <2>5. \A r \in Ranks : RankShape(r)' /\ RankOwn(r)'
    BY <1>1, <1>2, <2>1, <2>2 DEF RankShape, RankOwn, Places
  <2> QED
    BY <1>1, <1>2, <2>2, <2>4, <2>5, RankByRank
<1> QED
  BY <1>5, <1>6

\* A refused attempt: every rank counts it and undoes it on the same verdict.
LEMMA RefuseKeeps ==
  ASSUME IndInv, Refuse
  PROVE  IndInv'
<1>1. /\ All("exchange") /\ Domains
      /\ \A t \in archive : IsTemporal(t)
      /\ \A r \in Ranks : RankShape(r) /\ RankOwn(r)
      /\ \A p, q \in Ranks : entry[p] = entry[q] /\ steps[p] = steps[q]
  BY RankByRank DEF Refuse, Agree
<1> DEFINE F(t) == IF Decision(verdict) = "retry"
                   THEN [t EXCEPT !.rejected = @ + 1, !.pending = FALSE]
                   ELSE [t EXCEPT !.failed = @ + 1, !.pending = FALSE]
<1>2. /\ temporal' = [r \in Ranks |-> F(temporal[r])]
      /\ verdict' = Everywhere(Decision(verdict)) /\ pc' = Everywhere("undo")
      /\ native' = native /\ nextDt' = nextDt /\ cursor' = cursor
      /\ snapshot' = snapshot /\ entry' = entry /\ steps' = steps
      /\ archive' = archive
  BY DEF Refuse
<1>3. \A t : IsTemporal(t) => IsTemporal(F(t))
  BY UpdatedFields
<1> HIDE DEF F
<1>4. /\ Domains'
      /\ \A r \in Ranks : /\ temporal'[r] = F(temporal[r]) /\ pc'[r] = "undo"
                          /\ verdict'[r] = Decision(verdict)
  BY <1>1, <1>2 DEF Domains, Everywhere
<1>5. ASSUME NEW p \in Ranks, NEW q \in Ranks PROVE Meeting(p)' = Meeting(q)'
  <2>1. /\ snapshot[p] = snapshot[q] /\ cursor[p] = cursor[q]
        /\ temporal[p] = temporal[q] /\ nextDt[p] = nextDt[q]
    BY <1>1, AtExchange
  <2>2. temporal'[p] = temporal'[q]
    BY <1>4, <2>1
  <2> QED
    BY <1>1, <1>2, <1>4, <2>1, <2>2, SameUndo
<1>6. Agree'
  BY <1>1, <1>2, <1>4, <1>5 DEF Agree
<1>7. ASSUME NEW r \in Ranks PROVE RankShape(r)' /\ RankOwn(r)'
  <2>1. IsTemporal(temporal'[r])
    BY <1>1, <1>3, <1>4 DEF RankShape
  <2> QED
    BY <1>1, <1>2, <1>4, <2>1 DEF RankShape, RankOwn, Places
<1> QED
  BY <1>1, <1>2, <1>4, <1>6, <1>7, RankByRank

\* The samples are published on all ranks, or the step is undone on all.
LEMMA PublishKeeps ==
  ASSUME IndInv, Publish
  PROVE  IndInv'
<1>1. /\ All("publish") /\ Domains
      /\ \A t \in archive : IsTemporal(t)
      /\ \A r \in Ranks : RankShape(r) /\ RankOwn(r)
  BY RankByRank DEF Publish
<1>2. /\ native' = native /\ temporal' = temporal /\ nextDt' = nextDt
      /\ cursor' = cursor /\ snapshot' = snapshot /\ entry' = entry
  BY DEF Publish
<1>3. \A p, q \in Ranks :
        /\ native[p] = native[q] /\ temporal[p] = temporal[q]
        /\ nextDt[p] = nextDt[q] /\ entry[p] = entry[q] /\ steps[p] = steps[q]
        /\ snapshot[p] = snapshot[q] /\ cursor[p] = cursor[q]
  BY <1>1, AtRest
<1>4. CASE /\ pc' = Everywhere("loop") /\ verdict' = Everywhere("none")
           /\ steps' = [r \in Ranks |-> steps[r] + 1]
           /\ \/ archive' = archive
              \/ \E r \in Ranks : archive' = {temporal[r]}
  <2>1. /\ Domains'
        /\ \A r \in Ranks : pc'[r] = "loop" /\ steps'[r] = steps[r] + 1
    BY <1>1, <1>2, <1>4 DEF Domains, Everywhere
  <2>2. \A p, q \in Ranks : Meeting(p)' = Meeting(q)' /\ Live(p)' = Live(q)'
    BY <1>2, <1>3, <2>1, SameLoop
  <2>3. Agree'
    BY <1>2, <1>3, <2>1, <2>2 DEF Agree
  <2>4. \A r \in Ranks : RankShape(r)' /\ RankOwn(r)'
    BY <1>1, <1>2, <2>1 DEF RankShape, RankOwn, Places, All
  <2>5. \A t \in archive' : IsTemporal(t)
    BY <1>1, <1>4 DEF RankShape
  <2> QED
    BY <2>1, <2>3, <2>4, <2>5, RankByRank
<1>5. CASE /\ pc' = Everywhere("undo") /\ verdict' = Everywhere("fail")
           /\ steps' = steps /\ archive' = archive
  <2>1. /\ Domains'
        /\ \A r \in Ranks : pc'[r] = "undo" /\ verdict'[r] = "fail"
    BY <1>1, <1>2, <1>5 DEF Domains, Everywhere
  <2>2. \A p, q \in Ranks : Meeting(p)' = Meeting(q)'
    BY <1>2, <1>3, <1>5, <2>1, SameUndo
  <2>3. Agree'
    BY <1>2, <1>3, <1>5, <2>1, <2>2 DEF Agree
  <2>4. \A r \in Ranks : RankShape(r)' /\ RankOwn(r)'
    BY <1>1, <1>2, <2>1 DEF RankShape, RankOwn, Places
  <2> QED
    BY <1>1, <1>5, <2>1, <2>3, <2>4, RankByRank
<1> QED
  BY <1>4, <1>5 DEF Publish

\* A checkpoint on request is the temporal state of some rank.
LEMMA CheckpointKeeps ==
  ASSUME IndInv, Checkpoint
  PROVE  IndInv'
<1>1. /\ Domains /\ Agree /\ \A r \in Ranks : RankShape(r) /\ RankOwn(r)
  BY RankByRank
<1>2. PICK r \in Ranks : archive' = {temporal[r]}
  BY DEF Checkpoint
<1>3. /\ pc' = pc /\ verdict' = verdict /\ native' = native /\ temporal' = temporal
      /\ nextDt' = nextDt /\ cursor' = cursor /\ snapshot' = snapshot
      /\ entry' = entry /\ steps' = steps /\ end' = end
  BY DEF Checkpoint, local
<1>4. \A t \in archive' : IsTemporal(t)
  BY <1>1, <1>2 DEF RankShape
<1>5. \A q \in Ranks : Still(q)
  BY <1>3 DEF Still
<1>6. Agree'
  BY <1>1, <1>3, <1>5, StillAgree
<1>7. Domains' /\ \A q \in Ranks : RankShape(q)' /\ RankOwn(q)'
  BY <1>1, <1>3 DEF Domains, RankShape, RankOwn, Live, Kept
<1> QED
  BY <1>4, <1>6, <1>7, RankByRank

\* A restart installs one archived state on every rank.
LEMMA RestartKeeps ==
  ASSUME IndInv, Restart
  PROVE  IndInv'
<1>1. /\ All("idle") /\ Domains /\ \A t \in archive : IsTemporal(t)
      /\ \A r \in Ranks : RankShape(r) /\ RankOwn(r)
      /\ \A p, q \in Ranks : entry[p] = entry[q] /\ steps[p] = steps[q]
  BY RankByRank DEF Restart, Agree
<1>2. PICK t \in archive :
        /\ native' = Everywhere([time |-> t.time, step |-> t.step])
        /\ temporal' = Everywhere([t EXCEPT !.pending = TRUE])
  BY DEF Restart
<1>3. /\ nextDt' = Everywhere(0) /\ pc' = pc /\ verdict' = verdict
      /\ cursor' = cursor /\ snapshot' = snapshot /\ entry' = entry
      /\ steps' = steps /\ archive' = archive
  BY DEF Restart
<1>4. IsTemporal(t) /\ IsTemporal([t EXCEPT !.pending = TRUE])
  BY <1>1, UpdatedFields, Zenon
<1>5. IsEngine([time |-> t.time, step |-> t.step])
  BY <1>4 DEF IsEngine, IsTemporal
<1> DEFINE u == [t EXCEPT !.pending = TRUE]
<1> HIDE DEF u
<1>6. /\ Domains'
      /\ \A r \in Ranks :
            /\ native'[r] = [time |-> t.time, step |-> t.step]
            /\ temporal'[r] = u /\ nextDt'[r] = 0 /\ pc'[r] = "idle"
  BY <1>1, <1>2, <1>3 DEF Domains, Everywhere, All, u
<1>7. \A p, q \in Ranks : Meeting(p)' = Meeting(q)'
  BY <1>6, MeetingFactsNext
<1>8. Agree'
  BY <1>1, <1>3, <1>6, <1>7 DEF Agree
<1>9. \A r \in Ranks : RankShape(r)' /\ RankOwn(r)'
  BY <1>1, <1>3, <1>4, <1>5, <1>6 DEF RankShape, RankOwn, u
<1> QED
  BY <1>1, <1>3, <1>6, <1>8, <1>9, RankByRank

-----------------------------------------------------------------------------

\* Every step keeps IndInv.
LEMMA IndStep ==
  ASSUME IndInv, [Next]_vars
  PROVE  IndInv'
<1>1. ASSUME NEW r \in Ranks, Local(r) PROVE IndInv'
  BY <1>1, PrepareKeeps, ReturnKeeps, AdvanceKeeps, UndoKeeps DEF Local
<1>2. CASE UNCHANGED vars
  <2>1. /\ pc' = pc /\ verdict' = verdict /\ native' = native /\ temporal' = temporal
        /\ nextDt' = nextDt /\ cursor' = cursor /\ snapshot' = snapshot
        /\ entry' = entry /\ steps' = steps /\ end' = end /\ archive' = archive
    BY <1>2 DEF vars
  <2>2. \A q \in Ranks : Still(q)
    BY <2>1 DEF Still
  <2>3. Agree'
    BY <2>1, <2>2, StillAgree, RankByRank
  <2>4. Domains' /\ \A q \in Ranks : RankShape(q)' /\ RankOwn(q)'
    BY <2>1, RankByRank DEF Domains, RankShape, RankOwn, Live, Kept
  <2> QED
    BY <2>1, <2>3, <2>4, RankByRank
<1> QED
  BY <1>1, <1>2, RunKeeps, AcceptKeeps, RefuseKeeps, PublishKeeps, CheckpointKeeps,
     RestartKeeps DEF Next, Exchange

\* The initial state.
LEMMA IndInit ==
  ASSUME Init
  PROVE  IndInv
<1>1. Domains
  BY DEF Init, Domains, Everywhere
<1>2. /\ IsTemporal(FreshTemporal) /\ IsCursor(NoCursor)
      /\ IsEngine([time |-> 0, step |-> 0])
  BY DEF IsTemporal, FreshTemporal, IsCursor, NoCursor, IsEngine
<1>3. IsSnapshot(NoSnapshot) /\ IsTemporal(NoEntry.temporal)
  BY <1>2 DEF IsSnapshot, NoSnapshot, NoEntry
<1>4. \A r \in Ranks :
        /\ pc[r] = "idle" /\ native[r] = [time |-> 0, step |-> 0]
        /\ temporal[r] = FreshTemporal /\ nextDt[r] = 0 /\ cursor[r] = NoCursor
        /\ snapshot[r] = NoSnapshot /\ entry[r] = NoEntry /\ steps[r] = 0
  BY DEF Init, Everywhere
<1>5. Agree
  BY <1>4, MeetingFacts DEF Agree
<1>6. \A r \in Ranks : RankShape(r) /\ RankOwn(r)
  BY <1>2, <1>3, <1>4 DEF RankShape, RankOwn, Places
<1>7. archive = {}
  BY DEF Init
<1> QED
  BY <1>1, <1>5, <1>6, <1>7, RankByRank

\* IndInv holds in every state the ranks reach.
THEOREM Invariance == Spec => []IndInv
<1>1. Init => IndInv
  BY IndInit
<1>2. IndInv /\ [Next]_vars => IndInv'
  BY IndStep
<1> QED
  BY <1>1, <1>2, PTL DEF Spec

\* Whatever the ranks thought of an attempt, they start the next one, publish,
\* and end the run from the same engine, temporal state, controller and proposal
\* (_collective_attempt_error, the retry callback, _restore_step_envelope): for
\* any number of ranks and whatever floating-point addition returns.
THEOREM RanksAgree == Spec => []SameFate
<1>1. IndInv => SameFate
  <2> SUFFICES ASSUME IndInv, NEW s \in {"idle", "loop", "attempt", "publish"},
                      All(s), NEW p \in Ranks, NEW q \in Ranks
               PROVE  /\ native[p] = native[q] /\ native[p] # Torn
                      /\ temporal[p] = temporal[q] /\ nextDt[p] = nextDt[q]
                      /\ s = "attempt" => cursor[p] = cursor[q]
    BY DEF SameFate
  <2>1. /\ pc[p] = s /\ pc[q] = s /\ Meeting(p) = Meeting(q)
        /\ RankShape(p) /\ RankOwn(p) /\ RankShape(q) /\ RankOwn(q)
    BY RankByRank DEF All, Agree
  <2>2. native[p] # Torn
    BY <2>1 DEF RankOwn, IsEngine, Torn
  <2>3. CASE s \in {"idle", "publish"}
    BY <2>2, <2>3, AtRest
  <2>4. CASE s = "loop"
    <3>1. Live(p) = Live(q)
      BY <2>1, <2>4, RankByRank DEF Agree
    <3> QED
      BY <2>2, <2>4, <3>1 DEF Live
  <2>5. CASE s = "attempt"
    <3>1. <<"attempt", snapshot[p].native, snapshot[p].temporal,
            snapshot[p].nextDt, cursor[p].dt, cursor[p].attempts>>
          = <<"attempt", snapshot[q].native, snapshot[q].temporal,
              snapshot[q].nextDt, cursor[q].dt, cursor[q].attempts>>
      BY <2>1, <2>5, MeetingFacts
    <3>2. /\ snapshot[p].native = snapshot[q].native
          /\ snapshot[p].temporal = snapshot[q].temporal
          /\ snapshot[p].nextDt = snapshot[q].nextDt
          /\ cursor[p].dt = cursor[q].dt /\ cursor[p].attempts = cursor[q].attempts
      BY <3>1
    <3>3. cursor[p] = cursor[q]
      BY <2>1, <3>2 DEF RankShape, IsCursor
    <3>4. /\ native[p] = snapshot[p].native /\ native[q] = snapshot[q].native
          /\ temporal[p] = snapshot[p].temporal /\ temporal[q] = snapshot[q].temporal
          /\ nextDt[p] = snapshot[p].nextDt /\ nextDt[q] = snapshot[q].nextDt
      BY <2>1, <2>5 DEF RankOwn, Live, Kept
    <3> QED
      BY <2>2, <3>2, <3>3, <3>4
  <2> QED
    BY <2>3, <2>4, <2>5
<1> QED
  BY <1>1, Invariance, PTL
=============================================================================
