--------------------------- MODULE ObserverQueueProofs ---------------------------
(***************************************************************************)
(* Proofs that the post-commit queues, for any number of monitors, frames, *)
(* retries and failures, lose no frame, leave nothing behind when their    *)
(* worker stops, and lead every provider session once from its opening to  *)
(* its end; and, in the last part, that the workers of a collective        *)
(* monitor call their provider alike on every MPI rank.                    *)
(***************************************************************************)
EXTENDS ObserverQueue, ObserverLane, SequenceTheorems, TLAPS

--------------------------------------------------------------------------------
(* The inductive invariant.                                                 *)

Working == hand.stage \in {"gate", "execute"}
Lifecycle == {"initialize", "finalize", "abort"}

\* The world collective is lost: no lifecycle call follows.
Sealed == main = "seal" \/ terminal

\* Which queue the main thread works on, and what it holds by then.
MainInv ==
    /\ main \in {"initialize", "replay", "admit", "agree", "flush", "drain", "close",
                 "abortClose", "finalize", "abort", "report"} => at \in Queues
    /\ main \in {"open", "initialize", "replay", "run", "admit", "agree", "flush"} =>
          closes = 0
    /\ main \in {"open", "initialize", "replay"} => phase = "opening"
    /\ terminal => main \in {"join", "ended"}
    /\ main \in {"open", "initialize", "replay"} =>
          \A q \in Queues :
             /\ q < at => held[q] = "queue"
             /\ q > at \/ (q = at /\ main # "replay") =>
                   queue[q] = Fresh
             /\ q > at \/ (q = at /\ main = "open") =>
                   held[q] = "none" /\ session[q] = "new"
    /\ main = "initialize" => held[at] = "session"
    /\ main \in {"replay", "close", "abortClose", "finalize"} => held[at] = "queue"
    /\ main \in {"run", "admit", "agree", "flush"} =>
          \A q \in Queues : held[q] = "queue"
    /\ main = "abort" => held[at] # "none"
    /\ main \in {"close", "abortClose"} => queue[at].closeRequested
    /\ main \in {"finalize", "abort"} => queue[at].pending = 0

\* A lifecycle call is the last task, and the main thread waits for it.
CallInv ==
    \A i \in Places : TaskAt(i).kind \in Lifecycle =>
       /\ i = Len(fifo)
       /\ TaskAt(i).kind = main /\ TaskAt(i).queue = at /\ call = "none"

\* Stop is the last task, and the run ends with it.
StopInv ==
    /\ \A i \in DOMAIN fifo : fifo[i] = Stop => i = Len(fifo) /\ main = "join"
    /\ hand.stage = "stopped" =>
          /\ fifo = <<>>
          /\ main = "join" \/ (main = "ended" /\ (terminal \/ phase = "closed"))

\* The tasks a worker can meet.
TaskInv ==
    /\ \A i \in Places :
          \/ TaskAt(i) = Stop /\ i # 0
          \/ TaskAt(i).kind \in Lifecycle \cup {"job"} /\ TaskAt(i).queue \in Queues
    /\ hand.stage = "execute" => hand.task.kind = "job"

\* How far the session of a queue can be.
SessionOf(q) ==
    /\ held[q] = "session" => queue[q].pending = 0
    /\ held[q] = "queue" =>
          /\ session[q] \in {"live", "aborted", "finalized"}
          /\ session[q] = "aborted" =>
                \/ queue[q].lifecycleError
                \/ main = "abort" /\ at = q /\ call = "ok"
    /\ session[q] = "finalized" =>
          \/ held[q] = "none" \/ Sealed
          \/ main = "finalize" /\ at = q /\ call = "ok"
          \/ main = "report" /\ at = q /\ queue[q].finalizeSucceeded
    /\ queue[q].pending # 0 /\ ~queue[q].lifecycleError => session[q] = "live"
    /\ hand.stage = "execute" /\ hand.task.queue = q => session[q] = "live"
    /\ queue[q].closePrepared =>
          /\ queue[q].closeRequested /\ queue[q].pending = 0
          /\ Sealed \/ ~queue[q].lifecycleError

SessionInv == \A q \in Queues : SessionOf(q)

\* What the main thread knows of the session while it waits for a call.
WaitInv ==
    /\ main = "initialize" /\ call = "none" => session[at] = "new"
    /\ main = "initialize" /\ call = "ok" => session[at] = "live"
    /\ main = "finalize" /\ call # "ok" => session[at] = "live"

IndInv ==
    /\ TypeOK /\ MainInv /\ CallInv /\ StopInv /\ TaskInv /\ SessionInv /\ WaitInv
    /\ NoFrameLost

--------------------------------------------------------------------------------
(* The FIFO, the hand and the fields of a queue.                            *)

LEMMA FifoFacts ==
    ASSUME TypeOK
    PROVE  /\ Len(fifo) \in Nat /\ DOMAIN fifo = 1 .. Len(fifo)
           /\ \A i \in 1 .. Len(fifo) : fifo[i] \in Tasks
           /\ fifo # <<>> => /\ Len(fifo) >= 1
                             /\ Head(fifo) = fifo[1] /\ Head(fifo) \in Tasks
           /\ hand.task \in Tasks
<1>1. fifo \in Seq(Tasks)
  BY DEF TypeOK
<1>2. Len(fifo) \in Nat /\ DOMAIN fifo = 1 .. Len(fifo)
  BY <1>1, LenProperties
<1>3. \A i \in 1 .. Len(fifo) : fifo[i] \in Tasks
  BY <1>1, <1>2, ElementOfSeq
<1>4. fifo # <<>> => Len(fifo) >= 1 /\ Head(fifo) = fifo[1]
  BY <1>1, <1>2, EmptySeq, HeadTailProperties
<1> QED
  BY <1>2, <1>3, <1>4 DEF TypeOK

LEMMA AppendFacts ==
    ASSUME TypeOK, NEW t \in Tasks, fifo' = Append(fifo, t)
    PROVE  /\ fifo' \in Seq(Tasks) /\ fifo' # <<>>
           /\ Len(fifo') = Len(fifo) + 1
           /\ \A i \in 1 .. Len(fifo) : fifo'[i] = fifo[i]
           /\ fifo'[Len(fifo) + 1] = t
<1>1. fifo \in Seq(Tasks)
  BY DEF TypeOK
<1> QED
  BY <1>1, AppendProperties, LenProperties

LEMMA TailFacts ==
    ASSUME TypeOK, fifo # <<>>, fifo' = Tail(fifo)
    PROVE  /\ fifo' \in Seq(Tasks)
           /\ Len(fifo') = Len(fifo) - 1
           /\ \A i \in 1 .. Len(fifo) - 1 : fifo'[i] = fifo[i + 1]
<1>1. fifo \in Seq(Tasks)
  BY DEF TypeOK
<1> QED
  BY <1>1, HeadTailProperties, FifoFacts

LEMMA TaskFacts ==
    /\ Stop \in Tasks /\ Stop.kind = "stop"
    /\ \A q \in Queues, n \in Nat :
          /\ Job(q, n) \in Tasks /\ Job(q, n).kind = "job"
          /\ Job(q, n).queue = q /\ Job(q, n).seq = n
    /\ \A q \in Queues, k \in Lifecycle :
          /\ Call(k, q) \in Tasks /\ Call(k, q).kind = k /\ Call(k, q).queue = q
    /\ Queues \subseteq Nat
  BY QueueAssumption DEF Stop, Tasks, Job, Call, Queues, Lifecycle

\* The fields of a queue that every action leaves alone, and the record as a whole.
LEMMA FieldFacts ==
    ASSUME TypeOK, NEW q \in Queues
    PROVE  /\ queue[q] \in QueueFields
           /\ queue[q].pending \in Nat /\ queue[q].next \in Nat
           /\ queue[q].lifecycleError \in BOOLEAN /\ queue[q].closeRequested \in BOOLEAN
           /\ queue[q].closePrepared \in BOOLEAN
           /\ queue[q].finalizeSucceeded \in BOOLEAN
  BY DEF TypeOK, QueueFields

\* An assignment to fields of queue p leaves the other queues alone and gives
\* the fields the proofs look at these values.
Assigns(p, pending, next, failure, requested, prepared, succeeded) ==
    /\ queue' \in [Queues -> QueueFields]
    /\ \A q \in Queues : q # p => queue'[q] = queue[q]
    /\ queue'[p].pending = pending /\ queue'[p].next = next
    /\ queue'[p].lifecycleError = failure /\ queue'[p].closeRequested = requested
    /\ queue'[p].closePrepared = prepared /\ queue'[p].finalizeSucceeded = succeeded

LEMMA ReplaceQueue ==
    ASSUME TypeOK, NEW p \in Queues, NEW r \in QueueFields,
           queue' = [queue EXCEPT ![p] = r]
    PROVE  Assigns(p, r.pending, r.next, r.lifecycleError, r.closeRequested,
                   r.closePrepared, r.finalizeSucceeded)
  BY DEF TypeOK, Assigns

LEMMA AdmitFields ==
    ASSUME TypeOK, NEW p \in Queues,
           queue' = [queue EXCEPT ![p].pending = @ + 1, ![p].next = @ + 1]
    PROVE  Assigns(p, queue[p].pending + 1, queue[p].next + 1, queue[p].lifecycleError,
                   queue[p].closeRequested, queue[p].closePrepared, queue[p].finalizeSucceeded)
<1> DEFINE r == [queue[p] EXCEPT !.pending = queue[p].pending + 1,
                                 !.next = queue[p].next + 1]
<1>1. queue \in [Queues -> QueueFields] /\ queue[p] \in QueueFields
  BY DEF TypeOK
<1>2. queue' = [queue EXCEPT ![p] = r]
  BY <1>1 DEF QueueFields
<1>3. r \in QueueFields
  BY <1>1 DEF QueueFields
<1>4. Assigns(p, r.pending, r.next, r.lifecycleError, r.closeRequested,
              r.closePrepared, r.finalizeSucceeded)
  BY <1>2, <1>3, ReplaceQueue
<1> QED
  BY <1>1, <1>4 DEF QueueFields

LEMMA RequestFields ==
    ASSUME TypeOK, NEW p \in Queues,
           queue' = [queue EXCEPT ![p].closeRequested = TRUE]
    PROVE  Assigns(p, queue[p].pending, queue[p].next, queue[p].lifecycleError,
                   TRUE, queue[p].closePrepared, queue[p].finalizeSucceeded)
<1> DEFINE r == [queue[p] EXCEPT !.closeRequested = TRUE]
<1>1. queue \in [Queues -> QueueFields] /\ queue[p] \in QueueFields
  BY DEF TypeOK
<1>2. queue' = [queue EXCEPT ![p] = r]
  BY <1>1 DEF QueueFields
<1>3. r \in QueueFields
  BY <1>1 DEF QueueFields
<1>4. Assigns(p, r.pending, r.next, r.lifecycleError, r.closeRequested,
              r.closePrepared, r.finalizeSucceeded)
  BY <1>2, <1>3, ReplaceQueue
<1> QED
  BY <1>1, <1>4 DEF QueueFields

LEMMA PrepareFields ==
    ASSUME TypeOK, NEW p \in Queues,
           queue' = [queue EXCEPT ![p].closePrepared = TRUE]
    PROVE  Assigns(p, queue[p].pending, queue[p].next, queue[p].lifecycleError,
                   queue[p].closeRequested, TRUE, queue[p].finalizeSucceeded)
<1> DEFINE r == [queue[p] EXCEPT !.closePrepared = TRUE]
<1>1. queue \in [Queues -> QueueFields] /\ queue[p] \in QueueFields
  BY DEF TypeOK
<1>2. queue' = [queue EXCEPT ![p] = r]
  BY <1>1 DEF QueueFields
<1>3. r \in QueueFields
  BY <1>1 DEF QueueFields
<1>4. Assigns(p, r.pending, r.next, r.lifecycleError, r.closeRequested,
              r.closePrepared, r.finalizeSucceeded)
  BY <1>2, <1>3, ReplaceQueue
<1> QED
  BY <1>1, <1>4 DEF QueueFields

LEMMA PrepareAbortFields ==
    ASSUME TypeOK, NEW p \in Queues,
           queue' = [queue EXCEPT ![p].abortPrepared = TRUE]
    PROVE  Assigns(p, queue[p].pending, queue[p].next, queue[p].lifecycleError,
                   queue[p].closeRequested, queue[p].closePrepared, queue[p].finalizeSucceeded)
<1> DEFINE r == [queue[p] EXCEPT !.abortPrepared = TRUE]
<1>1. queue \in [Queues -> QueueFields] /\ queue[p] \in QueueFields
  BY DEF TypeOK
<1>2. queue' = [queue EXCEPT ![p] = r]
  BY <1>1 DEF QueueFields
<1>3. r \in QueueFields
  BY <1>1 DEF QueueFields
<1>4. Assigns(p, r.pending, r.next, r.lifecycleError, r.closeRequested,
              r.closePrepared, r.finalizeSucceeded)
  BY <1>2, <1>3, ReplaceQueue
<1> QED
  BY <1>1, <1>4 DEF QueueFields

LEMMA FinalizeFields ==
    ASSUME TypeOK, NEW p \in Queues, NEW b \in BOOLEAN,
           queue' = [queue EXCEPT ![p].finalizeSucceeded = b]
    PROVE  Assigns(p, queue[p].pending, queue[p].next, queue[p].lifecycleError,
                   queue[p].closeRequested, queue[p].closePrepared, b)
<1> DEFINE r == [queue[p] EXCEPT !.finalizeSucceeded = b]
<1>1. queue \in [Queues -> QueueFields] /\ queue[p] \in QueueFields
  BY DEF TypeOK
<1>2. queue' = [queue EXCEPT ![p] = r]
  BY <1>1 DEF QueueFields
<1>3. r \in QueueFields
  BY <1>1 DEF QueueFields
<1>4. Assigns(p, r.pending, r.next, r.lifecycleError, r.closeRequested,
              r.closePrepared, r.finalizeSucceeded)
  BY <1>2, <1>3, ReplaceQueue
<1> QED
  BY <1>1, <1>4 DEF QueueFields

LEMMA AbortFields ==
    ASSUME TypeOK, NEW p \in Queues, NEW b \in BOOLEAN,
           queue' = [queue EXCEPT ![p].abortSucceeded = b]
    PROVE  Assigns(p, queue[p].pending, queue[p].next, queue[p].lifecycleError,
                   queue[p].closeRequested, queue[p].closePrepared, queue[p].finalizeSucceeded)
<1> DEFINE r == [queue[p] EXCEPT !.abortSucceeded = b]
<1>1. queue \in [Queues -> QueueFields] /\ queue[p] \in QueueFields
  BY DEF TypeOK
<1>2. queue' = [queue EXCEPT ![p] = r]
  BY <1>1 DEF QueueFields
<1>3. r \in QueueFields
  BY <1>1 DEF QueueFields
<1>4. Assigns(p, r.pending, r.next, r.lifecycleError, r.closeRequested,
              r.closePrepared, r.finalizeSucceeded)
  BY <1>2, <1>3, ReplaceQueue
<1> QED
  BY <1>1, <1>4 DEF QueueFields

LEMMA SealFields ==
    ASSUME TypeOK, NEW p \in Queues,
           queue' = [queue EXCEPT ![p].closeRequested = TRUE,
                                  ![p].collectiveLost = TRUE,
                                  ![p].lifecycleError = TRUE]
    PROVE  Assigns(p, queue[p].pending, queue[p].next, TRUE,
                   TRUE, queue[p].closePrepared, queue[p].finalizeSucceeded)
<1> DEFINE r == [queue[p] EXCEPT !.closeRequested = TRUE, !.collectiveLost = TRUE,
                                 !.lifecycleError = TRUE]
<1>1. queue \in [Queues -> QueueFields] /\ queue[p] \in QueueFields
  BY DEF TypeOK
<1>2. queue' = [queue EXCEPT ![p] = r]
  BY <1>1 DEF QueueFields
<1>3. r \in QueueFields
  BY <1>1 DEF QueueFields
<1>4. Assigns(p, r.pending, r.next, r.lifecycleError, r.closeRequested,
              r.closePrepared, r.finalizeSucceeded)
  BY <1>2, <1>3, ReplaceQueue
<1> QED
  BY <1>1, <1>4 DEF QueueFields

LEMMA RecordFields ==
    ASSUME TypeOK, NEW p \in Queues, NEW b \in BOOLEAN, queue[p].pending # 0,
           queue' = [queue EXCEPT ![p].pending = @ - 1, ![p].lifecycleError = @ \/ b]
    PROVE  Assigns(p, queue[p].pending - 1, queue[p].next, queue[p].lifecycleError \/ b,
                   queue[p].closeRequested, queue[p].closePrepared, queue[p].finalizeSucceeded)
<1> DEFINE n == queue[p].pending - 1
           e == queue[p].lifecycleError \/ b
           r == [queue[p] EXCEPT !.pending = n, !.lifecycleError = e]
<1>1. queue \in [Queues -> QueueFields] /\ queue[p] \in QueueFields
  BY DEF TypeOK
<1>2. queue' = [queue EXCEPT ![p] = r]
  BY <1>1 DEF QueueFields
<1>3. r \in QueueFields
  <2>1. n \in Nat /\ e \in BOOLEAN
    BY <1>1 DEF QueueFields
  <2> HIDE DEF n, e
  <2> QED
    BY <1>1, <2>1 DEF QueueFields
<1>4. Assigns(p, r.pending, r.next, r.lifecycleError, r.closeRequested,
              r.closePrepared, r.finalizeSucceeded)
  BY <1>2, <1>3, ReplaceQueue
<1> QED
  BY <1>1, <1>4 DEF QueueFields

--------------------------------------------------------------------------------
(* How the backlog moves.                                                   *)

LEMMA PlaceFacts ==
    ASSUME TypeOK
    PROVE  /\ Places \subseteq Nat /\ Places = (IF Working THEN 0 ELSE 1) .. Len(fifo)
           /\ \A i \in Places : TaskAt(i) \in Tasks
           /\ \A q : JobsOf(q) \subseteq Nat /\ JobsOf(q) \subseteq Places
<1>1. Len(fifo) \in Nat /\ (\A i \in 1 .. Len(fifo) : fifo[i] \in Tasks)
      /\ hand.task \in Tasks
  BY FifoFacts
<1>2. Places \subseteq Nat /\ Places = (IF Working THEN 0 ELSE 1) .. Len(fifo)
  BY <1>1 DEF Places, Working
<1>3. \A i \in Places : TaskAt(i) \in Tasks
  BY <1>1, <1>2 DEF TaskAt
<1> QED
  BY <1>2, <1>3 DEF JobsOf

\* Nothing is taken, put or ended.
LEMMA QuietFacts ==
    ASSUME fifo' = fifo, hand'.task = hand.task, Working' = Working
    PROVE  /\ Places' = Places
           /\ \A i \in Places : TaskAt(i)' = TaskAt(i)
           /\ \A q : JobsOf(q)' = JobsOf(q)
<1>1. Places' = Places
  BY DEF Places, Working
<1>2. \A i : TaskAt(i)' = TaskAt(i)
  BY DEF TaskAt
<1> QED
  BY <1>1, <1>2 DEF JobsOf

\* A task is put at the end.
LEMMA PutFacts ==
    ASSUME TypeOK, NEW t \in Tasks, fifo' = Append(fifo, t), hand' = hand
    PROVE  \E n \in Nat :
              /\ n = Len(fifo) + 1 /\ Len(fifo') = n
              /\ Places' = Places \cup {n} /\ n \notin Places /\ n # 0
              /\ \A i \in Places : i < n /\ TaskAt(i)' = TaskAt(i)
              /\ TaskAt(n)' = t
              /\ \A q : JobsOf(q)' = IF t.kind = "job" /\ t.queue = q
                                     THEN JobsOf(q) \cup {n} ELSE JobsOf(q)
<1>0. PICK n \in Nat : n = Len(fifo) + 1
  BY FifoFacts
<1>1. Len(fifo) \in Nat /\ Len(fifo) = n - 1 /\ Len(fifo') = n /\ fifo'[n] = t
      /\ \A i \in 1 .. n - 1 : fifo'[i] = fifo[i]
  BY <1>0, AppendFacts, FifoFacts
<1>2. Places' = (IF Working THEN 0 ELSE 1) .. n
      /\ Places = (IF Working THEN 0 ELSE 1) .. n - 1
  BY <1>1 DEF Places, Working
<1>3. (\A i \in Places : TaskAt(i)' = TaskAt(i)) /\ TaskAt(n)' = t /\ n # 0
  BY <1>1, <1>2 DEF TaskAt
<1>4. /\ Places' = Places \cup {n} /\ n \notin Places
      /\ \A i \in Places : i < n
  BY <1>1, <1>2
<1>5. ASSUME NEW q
      PROVE  JobsOf(q)' = IF t.kind = "job" /\ t.queue = q
                          THEN JobsOf(q) \cup {n} ELSE JobsOf(q)
  BY <1>3, <1>4 DEF JobsOf
<1> QED
  BY <1>0, <1>1, <1>3, <1>4, <1>5

\* The worker takes the first task of the FIFO; everything moves one place.
LEMMA TakeFacts ==
    ASSUME TypeOK, ~Working, fifo # <<>>, fifo' = Tail(fifo),
           hand' = AtGate(Head(fifo))
    PROVE  /\ \A i \in Places' : i + 1 \in Places /\ TaskAt(i)' = TaskAt(i + 1)
           /\ \A i \in Places : i - 1 \in Places'
           /\ Len(fifo') = Len(fifo) - 1
           /\ \A q : /\ JobsOf(q)' = {i - 1 : i \in JobsOf(q)}
                     /\ \A i \in JobsOf(q) : TaskAt(i - 1)' = TaskAt(i)
<1> DEFINE n == Len(fifo)
<1>1. n \in Nat /\ n >= 1 /\ Len(fifo') = n - 1 /\ Head(fifo) = fifo[1]
      /\ \A i \in 1 .. n - 1 : fifo'[i] = fifo[i + 1]
  BY TailFacts, FifoFacts
<1>2. hand'.task = fifo[1] /\ hand'.stage = "gate"
  BY <1>1 DEF AtGate
<1>3. Places' = 0 .. n - 1 /\ Places = 1 .. n
  BY <1>1, <1>2 DEF Places, Working
<1>4. \A i \in Places' : TaskAt(i)' = TaskAt(i + 1)
  BY <1>1, <1>2, <1>3 DEF TaskAt
<1> HIDE DEF n
<1>5. (\A i \in Places' : i + 1 \in Places) /\ \A i \in Places : i - 1 \in Places'
  BY <1>1, <1>3
<1>6. ASSUME NEW q
      PROVE  /\ JobsOf(q)' = {i - 1 : i \in JobsOf(q)}
             /\ \A i \in JobsOf(q) : TaskAt(i - 1)' = TaskAt(i)
  <2>1. \A i \in JobsOf(q) : i - 1 \in JobsOf(q)' /\ TaskAt(i - 1)' = TaskAt(i)
    BY <1>1, <1>3, <1>4 DEF JobsOf
  <2>2. \A i \in JobsOf(q)' : i + 1 \in JobsOf(q) /\ (i + 1) - 1 = i
    BY <1>1, <1>3, <1>4 DEF JobsOf
  <2> QED
    BY <2>1, <2>2
<1> QED
  BY <1>1, <1>4, <1>5, <1>6 DEF n

\* A worker with empty hands drops the first task of the FIFO.
LEMMA DropFacts ==
    ASSUME TypeOK, ~Working, fifo # <<>>, fifo' = Tail(fifo), ~Working'
    PROVE  /\ \A i \in Places' : i + 1 \in Places /\ TaskAt(i)' = TaskAt(i + 1)
           /\ 1 \in Places /\ TaskAt(1) = Head(fifo) /\ \A i \in Places : 1 <= i
           /\ Len(fifo') = Len(fifo) - 1
           /\ \A q : /\ JobsOf(q)' = {i - 1 : i \in JobsOf(q) \ {1}}
                     /\ \A i \in JobsOf(q) \ {1} : TaskAt(i - 1)' = TaskAt(i)
<1> DEFINE n == Len(fifo)
<1>1. n \in Nat /\ n >= 1 /\ Len(fifo') = n - 1 /\ Head(fifo) = fifo[1]
      /\ \A i \in 1 .. n - 1 : fifo'[i] = fifo[i + 1]
  BY TailFacts, FifoFacts
<1>2. Places' = 1 .. n - 1 /\ Places = 1 .. n
  BY <1>1 DEF Places, Working
<1>3. (\A i \in Places' : TaskAt(i)' = TaskAt(i + 1)) /\ TaskAt(1) = Head(fifo)
  BY <1>1, <1>2 DEF TaskAt
<1> HIDE DEF n
<1>4. /\ \A i \in Places' : i + 1 \in Places
      /\ 1 \in Places /\ \A i \in Places : 1 <= i
  BY <1>1, <1>2
<1>5. ASSUME NEW q
      PROVE  /\ JobsOf(q)' = {i - 1 : i \in JobsOf(q) \ {1}}
             /\ \A i \in JobsOf(q) \ {1} : TaskAt(i - 1)' = TaskAt(i)
  <2>1. \A i \in JobsOf(q) \ {1} : i - 1 \in JobsOf(q)' /\ TaskAt(i - 1)' = TaskAt(i)
    BY <1>1, <1>2, <1>3 DEF JobsOf
  <2>2. \A i \in JobsOf(q)' : i + 1 \in JobsOf(q) \ {1} /\ (i + 1) - 1 = i
    BY <1>1, <1>2, <1>3 DEF JobsOf
  <2> QED
    BY <2>1, <2>2
<1> QED
  BY <1>1, <1>3, <1>4, <1>5 DEF n

\* The worker is done with the task in its hand.
LEMMA EndFacts ==
    ASSUME TypeOK, Working, fifo' = fifo, ~Working'
    PROVE  /\ 0 \in Places /\ TaskAt(0) = hand.task /\ \A i \in Places : 0 <= i
           /\ Places' = Places \ {0}
           /\ \A i \in Places' : TaskAt(i)' = TaskAt(i)
           /\ \A q : JobsOf(q)' = JobsOf(q) \ {0}
<1> DEFINE n == Len(fifo)
<1>1. n \in Nat
  BY FifoFacts
<1>2. Places = 0 .. n /\ Places' = 1 .. n
  BY <1>1 DEF Places, Working
<1>3. (\A i \in Places' : TaskAt(i)' = TaskAt(i)) /\ TaskAt(0) = hand.task
  BY <1>1, <1>2 DEF TaskAt
<1> HIDE DEF n
<1>4. Places' = Places \ {0} /\ 0 \in Places /\ \A i \in Places : 0 <= i
  BY <1>1, <1>2
<1>5. \A q : JobsOf(q)' = JobsOf(q) \ {0}
  BY <1>3, <1>4 DEF JobsOf
<1> QED
  BY <1>3, <1>4, <1>5

--------------------------------------------------------------------------------
(* No frame is lost.                                                        *)

\* NoFrameLost of one queue.
Frames(q) ==
    /\ \A n \in 1 .. Len(reports[q]) : reports[q][n].seq = n - 1
    /\ {TaskAt(i).seq : i \in JobsOf(q)} = Len(reports[q]) .. queue[q].next - 1
    /\ \A i, j \in JobsOf(q) : i < j => TaskAt(i).seq < TaskAt(j).seq
    /\ queue[q].pending = queue[q].next - Len(reports[q])

LEMMA FramesAll == NoFrameLost <=> \A q \in Queues : Frames(q)
  BY DEF NoFrameLost, Frames

LEMMA ReportFacts ==
    ASSUME TypeOK, NEW q \in Queues
    PROVE  /\ reports[q] \in Seq([seq : Nat, status : {"delivered", "skipped"}])
           /\ Len(reports[q]) \in Nat
           /\ queue[q].pending \in Nat /\ queue[q].next \in Nat
  BY FieldFacts, LenProperties DEF TypeOK

\* The tasks of a queue move together.
LEMMA FramesMove ==
    ASSUME TypeOK, NEW q \in Queues, Frames(q), NEW d \in {0, 1},
           JobsOf(q)' = {i - d : i \in JobsOf(q)},
           \A i \in JobsOf(q) : TaskAt(i - d)' = TaskAt(i),
           reports'[q] = reports[q], queue'[q].next = queue[q].next,
           queue'[q].pending = queue[q].pending
    PROVE  Frames(q)'
<1>1. JobsOf(q) \subseteq Nat
  BY PlaceFacts
<1>2. {TaskAt(i)'.seq : i \in JobsOf(q)'} = {TaskAt(i).seq : i \in JobsOf(q)}
  <2>1. \A i \in JobsOf(q) : i - d \in JobsOf(q)' /\ TaskAt(i - d)'.seq = TaskAt(i).seq
    OBVIOUS
  <2>2. \A j \in JobsOf(q)' : \E i \in JobsOf(q) : j = i - d /\ TaskAt(j)' = TaskAt(i)
    OBVIOUS
  <2> QED
    BY <2>1, <2>2
<1>3. \A i, j \in JobsOf(q)' : i < j => TaskAt(i)'.seq < TaskAt(j)'.seq
  <2> SUFFICES ASSUME NEW i \in JobsOf(q)', NEW j \in JobsOf(q)', i < j
               PROVE  TaskAt(i)'.seq < TaskAt(j)'.seq
    OBVIOUS
  <2>1. PICK a \in JobsOf(q) : i = a - d /\ TaskAt(i)' = TaskAt(a)
    OBVIOUS
  <2>2. PICK b \in JobsOf(q) : j = b - d /\ TaskAt(j)' = TaskAt(b)
    OBVIOUS
  <2>3. a < b
    BY <1>1, <2>1, <2>2
  <2> QED
    BY <2>1, <2>2, <2>3 DEF Frames
<1> QED
  BY <1>2, <1>3 DEF Frames

\* The first task of a queue has the number that is reported next.
LEMMA FirstIsNext ==
    ASSUME TypeOK, NEW q \in Queues, Frames(q),
           NEW f \in JobsOf(q), \A i \in JobsOf(q) : f <= i
    PROVE  TaskAt(f).seq = Len(reports[q]) /\ queue[q].pending # 0
<1> DEFINE done == Len(reports[q])
           last == queue[q].next - 1
<1>1. done \in Nat /\ last \in Int /\ queue[q].next \in Nat
  BY ReportFacts
<1>2. TaskAt(f).seq \in done .. last
  BY DEF Frames
<1>3. done \in done .. last
  BY <1>1, <1>2
<1>4. PICK i \in JobsOf(q) : TaskAt(i).seq = done
  BY <1>3 DEF Frames
<1>5. f = i
  <2>1. f \in Nat /\ i \in Nat
    BY PlaceFacts
  <2>2. f < i => TaskAt(f).seq < done
    BY <1>4 DEF Frames
  <2> QED
    BY <1>1, <1>2, <2>1, <2>2
<1>6. queue[q].pending = queue[q].next - done
  BY DEF Frames
<1> QED
  BY <1>1, <1>3, <1>4, <1>5, <1>6

\* The first task of a queue is reported.
LEMMA FramesRecord ==
    ASSUME TypeOK, NEW q \in Queues, Frames(q), NEW d \in {0, 1},
           NEW f \in JobsOf(q), \A i \in JobsOf(q) : f <= i,
           JobsOf(q)' = {i - d : i \in JobsOf(q) \ {f}},
           \A i \in JobsOf(q) \ {f} : TaskAt(i - d)' = TaskAt(i),
           NEW s \in {"delivered", "skipped"},
           reports'[q] = Append(reports[q], [seq |-> TaskAt(f).seq, status |-> s]),
           queue'[q].next = queue[q].next,
           queue'[q].pending = queue[q].pending - 1
    PROVE  Frames(q)'
<1> DEFINE done == Len(reports[q])
           last == queue[q].next - 1
           J == JobsOf(q)
           seqOf == [i \in J |-> TaskAt(i).seq]
<1>1. done \in Nat /\ last \in Int /\ queue[q].next \in Nat /\ J \subseteq Nat
  BY ReportFacts, PlaceFacts
<1>2. seqOf[f] = done /\ TaskAt(f).seq = done
  BY FirstIsNext
<1>3. /\ Len(reports'[q]) = done + 1
      /\ \A n \in 1 .. done + 1 : reports'[q][n].seq = n - 1
  <2>1. reports[q] \in Seq([seq : Nat, status : {"delivered", "skipped"}])
    BY ReportFacts
  <2>2. [seq |-> TaskAt(f).seq, status |-> s]
           \in [seq : Nat, status : {"delivered", "skipped"}]
    BY <1>1, <1>2
  <2>3. /\ Len(reports'[q]) = done + 1
        /\ reports'[q][done + 1] = [seq |-> TaskAt(f).seq, status |-> s]
        /\ \A n \in 1 .. done : reports'[q][n] = reports[q][n]
    BY <2>1, <2>2, AppendProperties
  <2>4. \A n \in 1 .. done : reports[q][n].seq = n - 1
    BY DEF Frames
  <2> QED
    BY <1>1, <1>2, <2>3, <2>4
<1>4. /\ \A i \in J : seqOf[i] \in done .. last
      /\ \A n \in done .. last : \E i \in J : seqOf[i] = n
      /\ \A i, j \in J : i < j => seqOf[i] < seqOf[j]
  BY DEF Frames
<1>5. \A i \in J \ {f} : i - d \in JobsOf(q)' /\ TaskAt(i - d)'.seq = seqOf[i]
  OBVIOUS
<1>6. \A k \in JobsOf(q)' : \E i \in J \ {f} : k = i - d /\ TaskAt(k)'.seq = seqOf[i]
  OBVIOUS
<1> HIDE DEF seqOf, J, done, last
<1>7. {TaskAt(k)'.seq : k \in JobsOf(q)'} = done + 1 .. last
  <2>1. \A i \in J \ {f} : seqOf[i] \in done + 1 .. last
    <3> SUFFICES ASSUME NEW i \in J \ {f} PROVE seqOf[i] \in done + 1 .. last
      OBVIOUS
    <3>1. f < i
      BY <1>1 DEF J
    <3> QED
      BY <1>1, <1>2, <1>4, <3>1 DEF J
  <2>2. \A n \in done + 1 .. last : \E i \in J \ {f} : seqOf[i] = n
    BY <1>1, <1>2, <1>4
  <2>3. \A k \in JobsOf(q)' : TaskAt(k)'.seq \in done + 1 .. last
    BY <1>6, <2>1
  <2>4. \A n \in done + 1 .. last : \E k \in JobsOf(q)' : TaskAt(k)'.seq = n
    BY <1>5, <2>2
  <2> QED
    BY <2>3, <2>4
<1>8. \A a, b \in JobsOf(q)' : a < b => TaskAt(a)'.seq < TaskAt(b)'.seq
  <2> SUFFICES ASSUME NEW a \in JobsOf(q)', NEW b \in JobsOf(q)', a < b
               PROVE  TaskAt(a)'.seq < TaskAt(b)'.seq
    OBVIOUS
  <2>1. PICK i \in J \ {f} : a = i - d /\ TaskAt(a)'.seq = seqOf[i]
    BY <1>6
  <2>2. PICK j \in J \ {f} : b = j - d /\ TaskAt(b)'.seq = seqOf[j]
    BY <1>6
  <2>3. i < j
    <3>1. i \in Nat /\ j \in Nat
      BY <1>1
    <3> QED
      BY <2>1, <2>2, <3>1
  <2> QED
    BY <1>4, <2>1, <2>2, <2>3
<1>9. queue'[q].pending = queue[q].next - (done + 1)
  <2>1. queue[q].pending = queue[q].next - done
    BY DEF Frames, done
  <2> QED
    BY <1>1, <2>1
<1> QED
  BY <1>3, <1>7, <1>8, <1>9 DEF Frames, last

\* A new frame of a queue is put behind the others.
LEMMA FramesAdmit ==
    ASSUME TypeOK, NEW q \in Queues, Frames(q), NEW n \in Nat,
           \A i \in JobsOf(q) : i < n /\ TaskAt(i)' = TaskAt(i),
           JobsOf(q)' = JobsOf(q) \cup {n}, TaskAt(n)'.seq = queue[q].next,
           reports'[q] = reports[q], queue'[q].next = queue[q].next + 1,
           queue'[q].pending = queue[q].pending + 1
    PROVE  Frames(q)'
<1> DEFINE done == Len(reports[q])
           next == queue[q].next
           J == JobsOf(q)
           seqOf == [i \in J |-> TaskAt(i).seq]
<1>1. done \in Nat /\ next \in Nat /\ J \subseteq Nat /\ queue[q].pending \in Nat
  BY ReportFacts, PlaceFacts
<1>2. /\ \A i \in J : seqOf[i] \in done .. next - 1
      /\ \A k \in done .. next - 1 : \E i \in J : seqOf[i] = k
      /\ \A i, j \in J : i < j => seqOf[i] < seqOf[j]
      /\ queue[q].pending = next - done
  BY DEF Frames
<1>3. \A i \in J : TaskAt(i)'.seq = seqOf[i]
  OBVIOUS
<1>4. J \subseteq JobsOf(q)' /\ n \in JobsOf(q)' /\ \A i \in JobsOf(q)' : i \in J \/ i = n
  OBVIOUS
<1>5. \A i \in J : i < n
  OBVIOUS
<1> HIDE DEF seqOf, J, next, done
<1>6. TaskAt(n)'.seq = next
  BY DEF next
<1>7. {TaskAt(i)'.seq : i \in JobsOf(q)'} = done .. (next + 1) - 1
  <2>1. \A i \in JobsOf(q)' : TaskAt(i)'.seq \in done .. (next + 1) - 1
    BY <1>1, <1>2, <1>3, <1>4, <1>6
  <2>2. \A k \in done .. (next + 1) - 1 : \E i \in JobsOf(q)' : TaskAt(i)'.seq = k
    BY <1>1, <1>2, <1>3, <1>4, <1>6
  <2> QED
    BY <2>1, <2>2
<1>8. \A i, j \in JobsOf(q)' : i < j => TaskAt(i)'.seq < TaskAt(j)'.seq
  BY <1>1, <1>2, <1>3, <1>4, <1>5, <1>6
<1>9. queue'[q].pending = (next + 1) - done
  BY <1>1, <1>2
<1>10. \A k \in 1 .. done : reports'[q][k].seq = k - 1
  BY DEF Frames, done
<1> QED
  BY <1>7, <1>8, <1>9, <1>10 DEF Frames, next, done

--------------------------------------------------------------------------------
(* What a step of the main thread does to the backlog.                      *)

\* No queue gains or loses a frame.
Unmoved ==
    \A q \in Queues : /\ queue'[q].next = queue[q].next
                      /\ queue'[q].pending = queue[q].pending

Leaves == fifo' = fifo /\ Unmoved

PutsCall ==
    \E k \in Lifecycle :
       /\ fifo' = Append(fifo, Call(k, at)) /\ Unmoved
       /\ main' = k /\ at' = at /\ at \in Queues /\ call' = "none"

PutsStop == fifo' = Append(fifo, Stop) /\ main' = "join" /\ Unmoved

PutsJob ==
    /\ main \in {"replay", "admit"} /\ at \in Queues
    /\ fifo' = Append(fifo, Job(at, queue[at].next)) /\ call' = call
    /\ Available(at)
    /\ Assigns(at, queue[at].pending + 1, queue[at].next + 1,
               queue[at].lifecycleError, queue[at].closeRequested,
               queue[at].closePrepared, queue[at].finalizeSucceeded)

MainStep == Continue \/ Demand

LEMMA MainKinds ==
    ASSUME TypeOK, MainInv, MainStep
    PROVE  /\ UNCHANGED <<hand, reports, session, executed>>
           /\ queue' \in [Queues -> QueueFields]
           /\ Leaves \/ PutsCall \/ PutsStop \/ PutsJob
<1> USE DEF publisher, gates, provider
<1>0. queue \in [Queues -> QueueFields]
  BY DEF TypeOK
<1>1. CASE Replay \/ Prepared
  <2>1. /\ UNCHANGED <<hand, reports, session, executed, call>>
        /\ main \in {"replay", "admit"} /\ Available(at)
        /\ fifo' = Append(fifo, Job(at, queue[at].next))
        /\ queue' = [queue EXCEPT ![at].pending = @ + 1, ![at].next = @ + 1]
    BY <1>1 DEF Replay, Prepared, Admit
  <2>2. at \in Queues
    BY <2>1 DEF MainInv
  <2>3. Assigns(at, queue[at].pending + 1, queue[at].next + 1,
                queue[at].lifecycleError, queue[at].closeRequested,
                queue[at].closePrepared, queue[at].finalizeSucceeded)
    BY <2>1, <2>2, AdmitFields
  <2> QED
    BY <2>1, <2>2, <2>3 DEF PutsJob, Assigns
<1>2. CASE OpenSession
  <2>1. /\ UNCHANGED <<hand, reports, session, executed, queue, at>>
        /\ fifo' = Append(fifo, Call("initialize", at)) /\ call' = "none"
        /\ main' = "initialize" /\ at <= NQueues
    BY <1>2 DEF OpenSession, Enqueue
  <2>2. at \in Queues
    BY <2>1, QueueAssumption DEF TypeOK, Queues
  <2> QED
    BY <1>0, <2>1, <2>2 DEF PutsCall, Lifecycle, Unmoved
<1>3. CASE Route
  <2>1. UNCHANGED <<hand, reports, session, executed, at>> /\ at \in Queues
    BY <1>3 DEF Route, MainInv
  <2>2. CASE held[at] = "session"
    BY <1>0, <1>3, <2>1, <2>2 DEF Route, Enqueue, PutsCall, Lifecycle, Unmoved
  <2>3. CASE held[at] = "queue"
    <3>1. fifo' = fifo /\ queue' = [queue EXCEPT ![at].closeRequested = TRUE]
      BY <1>3, <2>3 DEF Route
    <3> QED
      BY <2>1, <3>1, RequestFields DEF Leaves, Unmoved, Assigns
  <2>4. CASE held[at] = "none"
    BY <1>0, <1>3, <2>1, <2>4 DEF Route, Leaves, Unmoved
  <2> QED
    BY <2>1, <2>2, <2>3, <2>4 DEF TypeOK
<1>4. CASE StartFinalize
  <2>1. /\ UNCHANGED <<hand, reports, session, executed, at>> /\ at \in Queues
        /\ fifo' = Append(fifo, Call("finalize", at)) /\ call' = "none"
        /\ main' = "finalize"
        /\ queue' = [queue EXCEPT ![at].closePrepared = TRUE]
    BY <1>4 DEF StartFinalize, Enqueue, MainInv
  <2> QED
    BY <2>1, PrepareFields DEF PutsCall, Lifecycle, Unmoved, Assigns
<1>5. CASE StartAbort
  <2>1. /\ UNCHANGED <<hand, reports, session, executed, at>> /\ at \in Queues
        /\ fifo' = Append(fifo, Call("abort", at)) /\ call' = "none"
        /\ main' = "abort"
        /\ queue' = [queue EXCEPT ![at].abortPrepared = TRUE]
    BY <1>5 DEF StartAbort, Enqueue, MainInv
  <2> QED
    BY <2>1, PrepareAbortFields DEF PutsCall, Lifecycle, Unmoved, Assigns
<1>6. CASE Finalized
  <2>1. /\ UNCHANGED <<hand, reports, session, executed, fifo>> /\ at \in Queues
        /\ (call = "ok") \in BOOLEAN
        /\ queue' = [queue EXCEPT ![at].finalizeSucceeded = (call = "ok")]
    BY <1>6 DEF Finalized, MainInv
  <2> QED
    BY <2>1, FinalizeFields DEF Leaves, Unmoved, Assigns
<1>7. CASE Aborted
  <2>1. /\ UNCHANGED <<hand, reports, session, executed, fifo>> /\ at \in Queues
        /\ (call = "ok") \in BOOLEAN
        /\ queue' = [queue EXCEPT ![at].abortSucceeded = (call = "ok")]
    BY <1>7 DEF Aborted, MainInv
  <2> QED
    BY <2>1, AbortFields DEF Leaves, Unmoved, Assigns
<1>8. CASE SealQueue
  <2>1. UNCHANGED <<hand, reports, session, executed, fifo>> /\ at <= NQueues
    BY <1>8 DEF SealQueue
  <2>2. at \in Queues
    BY <2>1, QueueAssumption DEF TypeOK, Queues
  <2>3. CASE held[at] = "queue"
    <3>1. queue' = [queue EXCEPT ![at].closeRequested = TRUE,
                                 ![at].collectiveLost = TRUE,
                                 ![at].lifecycleError = TRUE]
      BY <1>8, <2>3 DEF SealQueue
    <3> QED
      BY <2>1, <2>2, <3>1, SealFields DEF Leaves, Unmoved, Assigns
  <2>4. CASE held[at] # "queue"
    BY <1>0, <1>8, <2>1, <2>4 DEF SealQueue, Leaves, Unmoved
  <2> QED
    BY <2>3, <2>4
<1>9. CASE SealWorker
  BY <1>0, <1>9 DEF SealWorker, PutsStop, Unmoved
<1>10. CASE CloseWorker
  <2>1. UNCHANGED <<hand, reports, session, executed, queue>>
    BY <1>10 DEF CloseWorker
  <2>2. fifo' = fifo \/ (fifo' = Append(fifo, Stop) /\ main' = "join")
    BY <1>10 DEF CloseWorker
  <2> QED
    BY <1>0, <2>1, <2>2 DEF PutsStop, Leaves, Unmoved
<1>11. CASE \/ OpenFails \/ OpenLost \/ Initialized \/ InitializeFailed \/ AllOpen
            \/ ReplayRefused \/ Replayed \/ SubmitRefused \/ Armed \/ Cancelled
            \/ FlushOne \/ CloseRefused \/ Report \/ ReportLost \/ Joined
            \/ CloseAgain \/ Demand
  <2>1. UNCHANGED <<hand, reports, session, executed, queue, fifo>>
    BY <1>11 DEF OpenFails, OpenLost, Initialized, InitializeFailed, AllOpen,
       ReplayRefused, Replayed, SubmitRefused, Armed, Cancelled, FlushOne,
       CloseRefused, Report, ReportLost, Joined, CloseAgain, Demand, StartFlush,
       Finish, Submit
  <2> QED
    BY <1>0, <2>1 DEF Leaves, Unmoved
<1> QED
  BY <1>1, <1>2, <1>3, <1>4, <1>5, <1>6, <1>7, <1>8, <1>9, <1>10, <1>11
  DEF MainStep, Continue

\* The main thread acts only when no lifecycle call and no stop is under way.
LEMMA MainClean ==
    ASSUME IndInv, MainStep
    PROVE  /\ \A i \in Places : TaskAt(i).kind = "job" /\ TaskAt(i).queue \in Queues
           /\ hand.stage = "stopped" => fifo = <<>> /\ Joined
<1> USE DEF IndInv
<1>1. /\ ~(main \in Lifecycle /\ call = "none")
      /\ main = "join" => hand = Stopped /\ Joined
      /\ main = "ended" => ~terminal /\ phase # "closed"
  BY DEF MainStep, Continue, Demand, OpenSession, OpenFails, OpenLost, Initialized,
     InitializeFailed, AllOpen, Replay, ReplayRefused, Replayed, Prepared,
     SubmitRefused, Armed, Cancelled, FlushOne, Route, CloseRefused, StartFinalize,
     StartAbort, Finalized, Aborted, Report, ReportLost, CloseWorker, Joined,
     CloseAgain, SealQueue, SealWorker, StartFlush, Finish, Submit, Lifecycle
<1>2. hand.stage = "stopped" => fifo = <<>> /\ Joined
  BY <1>1 DEF StopInv
<1>3. \A i \in DOMAIN fifo : fifo[i] # Stop
  <2>1. CASE main = "join"
    <3>1. fifo = <<>>
      BY <1>1, <2>1 DEF StopInv, Stopped, Idle
    <3> QED
      BY <3>1
  <2>2. CASE main # "join"
    BY <2>2 DEF StopInv
  <2> QED
    BY <2>1, <2>2
<1>4. \A i \in Places : TaskAt(i) # Stop \/ i = 0
  BY <1>3, FifoFacts, PlaceFacts DEF TaskAt
<1>5. \A i \in Places : TaskAt(i).kind \notin Lifecycle
  BY <1>1 DEF CallInv
<1> QED
  BY <1>2, <1>4, <1>5 DEF TaskInv

\* The tasks of a queue stay where they are.
LEMMA FramesSame ==
    ASSUME TypeOK, NEW q \in Queues, Frames(q), JobsOf(q)' = JobsOf(q),
           \A i \in JobsOf(q) : TaskAt(i)' = TaskAt(i),
           reports'[q] = reports[q], queue'[q].next = queue[q].next,
           queue'[q].pending = queue[q].pending
    PROVE  Frames(q)'
  BY DEF Frames

\* A task that is no frame is put at the end.
LEMMA PutOther ==
    ASSUME TypeOK, NoFrameLost, NEW t \in Tasks, t.kind # "job",
           fifo' = Append(fifo, t), UNCHANGED <<hand, reports>>, Unmoved
    PROVE  NoFrameLost'
<1>1. PICK n \in Nat :
         /\ Places' = Places \cup {n}
         /\ \A i \in Places : TaskAt(i)' = TaskAt(i)
         /\ \A q : JobsOf(q)' = JobsOf(q)
  BY PutFacts
<1>2. ASSUME NEW q \in Queues PROVE Frames(q)'
  <2>1. \A i \in JobsOf(q) : TaskAt(i)' = TaskAt(i)
    BY <1>1 DEF JobsOf
  <2>2. /\ Frames(q) /\ reports'[q] = reports[q] /\ JobsOf(q)' = JobsOf(q)
        /\ queue'[q].next = queue[q].next /\ queue'[q].pending = queue[q].pending
    BY <1>1, FramesAll DEF Unmoved
  <2> QED
    BY <2>1, <2>2, FramesSame
<1> QED
  BY <1>2 DEF NoFrameLost, Frames

LEMMA MainFrames ==
    ASSUME IndInv, MainStep
    PROVE  NoFrameLost'
<1> USE DEF IndInv
<1>0. /\ UNCHANGED <<hand, reports>> /\ queue' \in [Queues -> QueueFields]
      /\ Leaves \/ PutsCall \/ PutsStop \/ PutsJob
  BY MainKinds
<1>1. CASE Leaves
  <2>1. fifo' = fifo /\ Unmoved /\ Working' = Working
    BY <1>0, <1>1 DEF Leaves, Working
  <2>2. ASSUME NEW q \in Queues PROVE Frames(q)'
    <3>1. /\ \A i \in Places : TaskAt(i)' = TaskAt(i)
          /\ JobsOf(q)' = JobsOf(q)
      BY <1>0, <2>1, QuietFacts
    <3>2. \A i \in JobsOf(q) : TaskAt(i)' = TaskAt(i)
      BY <3>1 DEF JobsOf
    <3>3. /\ Frames(q) /\ reports'[q] = reports[q]
          /\ queue'[q].next = queue[q].next /\ queue'[q].pending = queue[q].pending
      BY <1>0, <2>1, FramesAll DEF Unmoved
    <3> QED
      BY <3>1, <3>2, <3>3, FramesSame
  <2> QED
    BY <2>2 DEF NoFrameLost, Frames
<1>2. CASE PutsCall
  <2>1. PICK k \in Lifecycle : fifo' = Append(fifo, Call(k, at)) /\ Unmoved /\ at \in Queues
    BY <1>2 DEF PutsCall
  <2>2. Call(k, at) \in Tasks /\ Call(k, at).kind # "job"
    BY <2>1, TaskFacts DEF Lifecycle
  <2> QED
    BY <1>0, <2>1, <2>2, PutOther
<1>3. CASE PutsStop
  BY <1>0, <1>3, TaskFacts, PutOther DEF PutsStop
<1>4. CASE PutsJob
  <2> DEFINE t == Job(at, queue[at].next)
  <2>1. /\ at \in Queues /\ fifo' = Append(fifo, t)
        /\ queue[at].next \in Nat
        /\ queue'[at].next = queue[at].next + 1
        /\ queue'[at].pending = queue[at].pending + 1
        /\ \A q \in Queues : q # at => queue'[q] = queue[q]
    BY <1>4, FieldFacts DEF PutsJob, Assigns
  <2>2. t \in Tasks /\ t.kind = "job" /\ t.queue = at /\ t.seq = queue[at].next
    BY <2>1, TaskFacts
  <2> HIDE DEF t
  <2>3. PICK n \in Nat :
           /\ \A i \in Places : i < n /\ TaskAt(i)' = TaskAt(i)
           /\ TaskAt(n)' = t
           /\ \A q : JobsOf(q)' = IF t.kind = "job" /\ t.queue = q
                                  THEN JobsOf(q) \cup {n} ELSE JobsOf(q)
    BY <1>0, <2>1, <2>2, PutFacts
  <2>4. ASSUME NEW q \in Queues PROVE Frames(q)'
    <3>1. /\ Frames(q) /\ reports'[q] = reports[q]
          /\ \A i \in JobsOf(q) : i < n /\ TaskAt(i)' = TaskAt(i)
      BY <1>0, <2>3, FramesAll DEF JobsOf
    <3>2. CASE q = at
      <4>1. JobsOf(q)' = JobsOf(q) \cup {n} /\ TaskAt(n)'.seq = queue[q].next
        BY <2>2, <2>3, <3>2
      <4> QED
        BY <2>1, <3>1, <3>2, <4>1, FramesAdmit
    <3>3. CASE q # at
      <4>1. JobsOf(q)' = JobsOf(q)
        BY <2>2, <2>3, <3>3
      <4> QED
        BY <2>1, <3>1, <3>3, <4>1, FramesSame
    <3> QED
      BY <3>2, <3>3
  <2> QED
    BY <2>4 DEF NoFrameLost, Frames
<1> QED
  BY <1>0, <1>1, <1>2, <1>3, <1>4

LEMMA MainTasks ==
    ASSUME IndInv, MainStep
    PROVE  CallInv' /\ StopInv' /\ TaskInv'
<1> USE DEF IndInv
<1>0. /\ UNCHANGED <<hand, reports>> /\ Working' = Working
      /\ Leaves \/ PutsCall \/ PutsStop \/ PutsJob
  BY MainKinds DEF Working
<1>1. /\ \A i \in Places : TaskAt(i).kind = "job" /\ TaskAt(i).queue \in Queues
      /\ \A i \in Places : TaskAt(i) # Stop
      /\ hand.stage = "stopped" => fifo = <<>> /\ Joined
  BY MainClean, TaskFacts
<1>2. \A i \in DOMAIN fifo : i \in Places /\ fifo[i] = TaskAt(i)
  BY FifoFacts, PlaceFacts DEF TaskAt
<1>3. hand.stage = "stopped" =>
         /\ fifo' = <<>> /\ main' = "ended"
         /\ terminal' \/ phase' = "closed"
  BY <1>1 DEF Joined
<1>4. hand.stage = "execute" => hand.task.kind = "job"
  BY DEF TaskInv
<1>5. CASE Leaves
  <2>1. fifo' = fifo /\ Places' = Places /\ \A i \in Places : TaskAt(i)' = TaskAt(i)
    BY <1>0, <1>5, QuietFacts DEF Leaves
  <2>2. CallInv'
    BY <1>1, <2>1 DEF CallInv, Lifecycle
  <2>3. StopInv'
    BY <1>0, <1>1, <1>2, <1>3, <2>1 DEF StopInv
  <2>4. TaskInv'
    BY <1>0, <1>1, <1>4, <2>1 DEF TaskInv
  <2> QED
    BY <2>2, <2>3, <2>4
<1>6. ASSUME NEW t \in Tasks, fifo' = Append(fifo, t),
             \/ t.kind = "job" /\ t.queue \in Queues
             \/ t.kind \in Lifecycle /\ t.queue \in Queues
                /\ main' = t.kind /\ t.queue = at' /\ call' = "none"
             \/ t = Stop /\ main' = "join"
      PROVE  CallInv' /\ StopInv' /\ TaskInv'
  <2>1. PICK n \in Nat :
           /\ Len(fifo') = n /\ Places' = Places \cup {n} /\ n # 0
           /\ \A i \in Places : i < n /\ TaskAt(i)' = TaskAt(i)
           /\ TaskAt(n)' = t
    BY <1>0, <1>6, PutFacts
  <2>2. fifo' # <<>> /\ fifo' \in Seq(Tasks)
    BY <1>6, AppendFacts
  <2>3. hand.stage # "stopped"
    BY <1>3, <2>2
  <2>4. CallInv'
    BY <1>1, <1>6, <2>1, TaskFacts DEF CallInv, Lifecycle
  <2>5. \A i \in DOMAIN fifo' : i \in Places' /\ fifo'[i] = TaskAt(i)'
    <3>1. DOMAIN fifo' = 1 .. n
      BY <2>1, <2>2, LenProperties
    <3>2. \A i \in 1 .. n : i # 0
      OBVIOUS
    <3>3. Places' = (IF Working' THEN 0 ELSE 1) .. n
      BY <2>1 DEF Places, Working
    <3>4. \A i \in 1 .. n : i \in Places'
      BY <3>3
    <3> QED
      BY <3>1, <3>2, <3>4 DEF TaskAt
  <2>6. \A i \in DOMAIN fifo' : fifo'[i] = Stop => i = n /\ t = Stop
    BY <1>1, <2>1, <2>5
  <2>7. StopInv'
    BY <1>0, <1>6, <2>1, <2>3, <2>6, TaskFacts DEF StopInv, Lifecycle
  <2>8. TaskInv'
    BY <1>0, <1>1, <1>4, <1>6, <2>1 DEF TaskInv
  <2> QED
    BY <2>4, <2>7, <2>8
<1>7. CASE PutsCall
  <2>1. PICK k \in Lifecycle :
           /\ fifo' = Append(fifo, Call(k, at)) /\ at \in Queues
           /\ main' = k /\ at' = at /\ call' = "none"
    BY <1>7 DEF PutsCall
  <2>2. Call(k, at) \in Tasks /\ Call(k, at).kind = k /\ Call(k, at).queue = at
    BY <2>1, TaskFacts
  <2> QED
    BY <1>6, <2>1, <2>2
<1>8. CASE PutsStop
  BY <1>6, <1>8, TaskFacts DEF PutsStop
<1>9. CASE PutsJob
  <2>1. /\ at \in Queues /\ fifo' = Append(fifo, Job(at, queue[at].next))
        /\ queue[at].next \in Nat
    BY <1>9, FieldFacts DEF PutsJob
  <2>2. /\ Job(at, queue[at].next) \in Tasks /\ Job(at, queue[at].next).kind = "job"
        /\ Job(at, queue[at].next).queue = at
    BY <2>1, TaskFacts
  <2> QED
    BY <1>6, <2>1, <2>2
<1> QED
  BY <1>0, <1>5, <1>7, <1>8, <1>9

--------------------------------------------------------------------------------
(* What a step of the worker thread does to the backlog.                    *)

\* One frame of queue p gets its report.
Reported(p, n, b) ==
    /\ Assigns(p, queue[p].pending - 1, queue[p].next, queue[p].lifecycleError \/ b,
               queue[p].closeRequested, queue[p].closePrepared,
               queue[p].finalizeSucceeded)
    /\ queue[p].pending # 0
    /\ reports' \in [Queues -> Seq([seq : Nat, status : {"delivered", "skipped"}])]
    /\ \A q \in Queues : q # p => reports'[q] = reports[q]
    /\ \E s \in {"delivered", "skipped"} :
          reports'[p] = Append(reports[p], [seq |-> n, status |-> s])

LEMMA RecordFacts ==
    ASSUME TypeOK, NoFrameLost, NEW p \in Queues, NEW f \in JobsOf(p),
           \A i \in JobsOf(p) : f <= i,
           NEW s \in {"delivered", "skipped"}, NEW b \in BOOLEAN,
           Record(TaskAt(f), s, b)
    PROVE  Reported(p, TaskAt(f).seq, b) /\ hand' = Idle
<1> DEFINE n == TaskAt(f).seq
           row == [seq |-> n, status |-> s]
           Rows == [seq : Nat, status : {"delivered", "skipped"}]
<1>1. TaskAt(f).queue = p
  BY DEF JobsOf
<1>2. /\ reports' = [reports EXCEPT ![p] = Append(@, row)]
      /\ queue' = [queue EXCEPT ![p].pending = @ - 1, ![p].lifecycleError = @ \/ b]
      /\ hand' = Idle
  BY <1>1 DEF Record
<1>3. n = Len(reports[p]) /\ queue[p].pending # 0 /\ Frames(p)
  BY FirstIsNext, FramesAll
<1>4. Assigns(p, queue[p].pending - 1, queue[p].next, queue[p].lifecycleError \/ b,
              queue[p].closeRequested, queue[p].closePrepared,
              queue[p].finalizeSucceeded)
  BY <1>2, <1>3, RecordFields
<1>5. n \in Nat /\ reports[p] \in Seq(Rows)
  BY <1>3, ReportFacts
<1> HIDE DEF n
<1>6. row \in Rows
  BY <1>5
<1>7. Append(reports[p], row) \in Seq(Rows)
  BY <1>5, <1>6, AppendProperties
<1>8. reports \in [Queues -> Seq(Rows)]
  BY DEF TypeOK
<1> HIDE DEF row, Rows
<1>9. /\ reports' \in [Queues -> Seq(Rows)]
      /\ \A q \in Queues : q # p => reports'[q] = reports[q]
      /\ reports'[p] = Append(reports[p], row)
  BY <1>2, <1>7, <1>8
<1> QED
  BY <1>2, <1>3, <1>4, <1>9 DEF Reported, row, Rows, n

LEMMA ReportedFrames ==
    ASSUME TypeOK, NoFrameLost, NEW p \in Queues, NEW f \in JobsOf(p),
           \A i \in JobsOf(p) : f <= i, \A q \in Queues : q # p => f \notin JobsOf(q),
           NEW b, Reported(p, TaskAt(f).seq, b), NEW d \in {0, 1},
           \A q : /\ JobsOf(q)' = {i - d : i \in JobsOf(q) \ {f}}
                  /\ \A i \in JobsOf(q) \ {f} : TaskAt(i - d)' = TaskAt(i)
    PROVE  NoFrameLost'
<1>1. ASSUME NEW q \in Queues PROVE Frames(q)'
  <2>1. Frames(q)
    BY FramesAll
  <2>2. CASE q = p
    <3>1. PICK s \in {"delivered", "skipped"} :
             reports'[p] = Append(reports[p], [seq |-> TaskAt(f).seq, status |-> s])
      BY DEF Reported
    <3>2. queue'[p].next = queue[p].next /\ queue'[p].pending = queue[p].pending - 1
      BY DEF Reported, Assigns
    <3> QED
      BY <2>1, <2>2, <3>1, <3>2, FramesRecord
  <2>3. CASE q # p
    <3>1. /\ reports'[q] = reports[q] /\ queue'[q] = queue[q]
          /\ JobsOf(q) \ {f} = JobsOf(q)
      BY <2>3 DEF Reported, Assigns
    <3>2. /\ JobsOf(q)' = {i - d : i \in JobsOf(q)}
          /\ \A i \in JobsOf(q) : TaskAt(i - d)' = TaskAt(i)
      BY <3>1
    <3> QED
      BY <2>1, <3>1, <3>2, FramesMove
  <2> QED
    BY <2>2, <2>3
<1> QED
  BY <1>1 DEF NoFrameLost, Frames

Takes ==
    /\ ~Working /\ hand = Idle /\ fifo # <<>> /\ fifo' = Tail(fifo)
    /\ Head(fifo) # Stop /\ hand' = AtGate(Head(fifo))
    /\ UNCHANGED <<queue, reports, call, session, executed>>

Stops ==
    /\ ~Working /\ hand = Idle /\ fifo # <<>> /\ fifo' = Tail(fifo)
    /\ Head(fifo) = Stop /\ hand' = Stopped
    /\ UNCHANGED <<queue, reports, call, session, executed>>

Fails ==
    /\ ~Working /\ hand = Idle /\ fifo # <<>> /\ fifo' = Tail(fifo) /\ hand' = Idle
    /\ terminal
    /\ \E p \in Queues : Head(fifo).queue = p /\ Reported(p, Head(fifo).seq, TRUE)
    /\ UNCHANGED <<call, session, executed>>

Proceeds ==
    /\ Working /\ Working' /\ fifo' = fifo /\ hand'.task = hand.task
    /\ hand.task.kind = "job" /\ hand' \in [stage : {"gate", "execute"}, task : Tasks,
                                           attempt : Nat]
    /\ UNCHANGED <<queue, reports, call, session>>
    /\ \/ ~queue[hand.task.queue].lifecycleError /\ UNCHANGED executed
       \/ hand.stage = "execute"

Records ==
    /\ Working /\ fifo' = fifo /\ hand' = Idle /\ hand.task.kind = "job"
    /\ \E p \in Queues, b \in BOOLEAN :
          /\ hand.task.queue = p /\ Reported(p, hand.task.seq, b)
          /\ session' # session =>
                b /\ session' = [session EXCEPT ![p] = "aborted"]
    /\ UNCHANGED call
    /\ UNCHANGED <<session, executed>> \/ hand.stage = "execute"

Ends ==
    /\ Working /\ hand.stage = "gate" /\ fifo' = fifo /\ hand' = Idle
    /\ hand.task.kind \in Lifecycle
    /\ UNCHANGED <<queue, reports, executed>>
    /\ \/ call' = "ok"
          /\ session' = [session EXCEPT ![hand.task.queue] = AfterCall[hand.task.kind]]
       \/ call' = "failed"
          /\ session' = [session EXCEPT ![hand.task.queue] =
                            IF hand.task.kind = "initialize" THEN "torn" ELSE @]

\* A frame in the worker's hand is the first of its queue.
LEMMA HandIsFirst ==
    ASSUME IndInv, Working, hand.task.kind = "job"
    PROVE  \E p \in Queues :
              /\ hand.task.queue = p /\ 0 \in JobsOf(p) /\ TaskAt(0) = hand.task
              /\ \A i \in JobsOf(p) : 0 <= i
              /\ \A q \in Queues : q # p => 0 \notin JobsOf(q)
<1> USE DEF IndInv
<1>1. 0 \in Places
  BY PlaceFacts, FifoFacts
<1>2. TaskAt(0) = hand.task
  BY DEF TaskAt
<1>3. hand.task.queue \in Queues
  BY <1>1, <1>2 DEF TaskInv
<1>4. \A q : JobsOf(q) \subseteq Nat
  BY PlaceFacts
<1> QED
  BY <1>1, <1>2, <1>3, <1>4 DEF JobsOf

LEMMA WorkerKinds ==
    ASSUME IndInv, Worker
    PROVE  /\ UNCHANGED <<main, at, phase, completed, closes, held, shut, cancelled,
                          terminal>>
           /\ Takes \/ Stops \/ Fails \/ Proceeds \/ Records \/ Ends
<1> USE DEF mainThread, publisher, gates, provider, IndInv
<1>0. UNCHANGED <<main, at, phase, completed, closes, held, shut, cancelled, terminal>>
  BY DEF Worker, Take, FailJob, StopPoisoned, Enter, Skip, Deliver, AttemptFails,
     DeliverRaises, LifecycleReturns, LifecycleRaises
<1>1. hand = Idle => ~Working
  BY DEF Idle, Working
<1>2. CASE Take \/ StopPoisoned
  BY <1>0, <1>1, <1>2 DEF Take, StopPoisoned, Takes, Stops
<1>3. CASE FailJob
  <2>1. /\ hand = Idle /\ fifo # <<>> /\ terminal /\ Head(fifo) # Stop
        /\ Record(Head(fifo), "skipped", TRUE) /\ fifo' = Tail(fifo)
        /\ UNCHANGED <<call, session, executed>>
    BY <1>3 DEF FailJob
  <2>2. ~Working /\ ~Working' /\ hand' = Idle
    BY <1>1, <2>1 DEF Record, Idle, Working
  <2>3. 1 \in Places /\ TaskAt(1) = Head(fifo) /\ \A i \in Places : 1 <= i
    BY <2>1, <2>2, DropFacts
  <2>4. main \notin Lifecycle
    BY <2>1 DEF MainInv, Lifecycle
  <2>5. Head(fifo).kind = "job" /\ Head(fifo).queue \in Queues
    BY <2>1, <2>3, <2>4 DEF TaskInv, CallInv
  <2>6. PICK p \in Queues : Head(fifo).queue = p
    BY <2>5
  <2>7. 1 \in JobsOf(p) /\ \A i \in JobsOf(p) : 1 <= i
    BY <2>3, <2>5, <2>6 DEF JobsOf
  <2>8. Reported(p, TaskAt(1).seq, TRUE)
    BY <2>1, <2>3, <2>7, RecordFacts
  <2> QED
    BY <1>0, <2>1, <2>2, <2>3, <2>6, <2>8 DEF Fails
<1>4. ASSUME Working, hand.task.kind = "job", fifo' = fifo, UNCHANGED call,
             NEW s \in {"delivered", "skipped"}, NEW b \in BOOLEAN,
             Record(hand.task, s, b),
             \/ UNCHANGED session
             \/ b /\ session' = [session EXCEPT ![hand.task.queue] = "aborted"],
             UNCHANGED <<session, executed>> \/ hand.stage = "execute"
      PROVE  Records
  <2>1. PICK p \in Queues :
              /\ hand.task.queue = p /\ 0 \in JobsOf(p) /\ TaskAt(0) = hand.task
              /\ \A i \in JobsOf(p) : 0 <= i
    BY <1>4, HandIsFirst
  <2>2. Reported(p, TaskAt(0).seq, b) /\ hand' = Idle
    BY <1>4, <2>1, RecordFacts
  <2> QED
    BY <1>4, <2>1, <2>2 DEF Records
<1>5. CASE Skip
  BY <1>0, <1>4, <1>5 DEF Skip, InHand, Working
<1>6. CASE Deliver
  BY <1>0, <1>4, <1>6 DEF Deliver, InHand, Working
<1>7. CASE DeliverRaises
  BY <1>0, <1>4, <1>7 DEF DeliverRaises, InHand, Working
<1>8. CASE AttemptFails
  <2>1. CASE hand.attempt < MaxAttempts[hand.task.queue]
    <3>1. /\ hand.stage = "execute" /\ hand.task.kind = "job"
          /\ hand' = [hand EXCEPT !.attempt = @ + 1] /\ UNCHANGED <<queue, reports>>
          /\ UNCHANGED <<fifo, call, session>>
      BY <1>8, <2>1 DEF AttemptFails, InHand
    <3>2. hand' \in [stage : {"gate", "execute"}, task : Tasks, attempt : Nat]
          /\ hand'.task = hand.task /\ hand'.stage = "execute"
      <4>1. hand \in [stage : {"idle", "stopped", "gate", "execute"}, task : Tasks,
                      attempt : Nat]
        BY DEF TypeOK
      <4>2. hand.attempt + 1 \in Nat
        BY <4>1
      <4> QED
        BY <3>1, <4>1, <4>2
    <3> QED
      BY <1>0, <3>1, <3>2 DEF Proceeds, Working
  <2>2. CASE ~(hand.attempt < MaxAttempts[hand.task.queue])
    BY <1>0, <1>4, <1>8, <2>2 DEF AttemptFails, InHand, Working
  <2> QED
    BY <2>1, <2>2
<1>9. CASE Enter
  <2>1. /\ hand.stage = "gate" /\ hand.task.kind = "job"
        /\ ~queue[hand.task.queue].lifecycleError
        /\ hand' = [hand EXCEPT !.stage = "execute"] /\ UNCHANGED <<queue, reports>>
        /\ UNCHANGED <<fifo, call, session, executed>>
    BY <1>9 DEF Enter, InHand
  <2>2. hand' \in [stage : {"gate", "execute"}, task : Tasks, attempt : Nat]
        /\ hand'.task = hand.task /\ hand'.stage = "execute"
    BY <2>1 DEF TypeOK
  <2> QED
    BY <1>0, <2>1, <2>2 DEF Proceeds, Working
<1>10. CASE LifecycleReturns \/ LifecycleRaises
  BY <1>0, <1>10 DEF LifecycleReturns, LifecycleRaises, LifecycleInHand, AfterCall,
     Lifecycle, Working, Ends
<1> QED
  BY <1>0, <1>2, <1>3, <1>5, <1>6, <1>7, <1>8, <1>9, <1>10 DEF Worker

LEMMA WorkerFrames ==
    ASSUME IndInv, Worker
    PROVE  NoFrameLost'
<1> USE DEF IndInv
<1>0. Takes \/ Stops \/ Fails \/ Proceeds \/ Records \/ Ends
  BY WorkerKinds
<1>1. CASE Takes
  <2>1. ASSUME NEW q \in Queues PROVE Frames(q)'
    <3>1. /\ JobsOf(q)' = {i - 1 : i \in JobsOf(q)}
          /\ \A i \in JobsOf(q) : TaskAt(i - 1)' = TaskAt(i)
      BY <1>1, TakeFacts DEF Takes
    <3>2. Frames(q) /\ UNCHANGED <<reports, queue>>
      BY <1>1, FramesAll DEF Takes
    <3> QED
      BY <3>1, <3>2, FramesMove
  <2> QED
    BY <2>1 DEF NoFrameLost, Frames
<1>2. CASE Stops
  <2>1. ASSUME NEW q \in Queues PROVE Frames(q)'
    <3>1. /\ JobsOf(q)' = {i - 1 : i \in JobsOf(q) \ {1}}
          /\ \A i \in JobsOf(q) \ {1} : TaskAt(i - 1)' = TaskAt(i)
          /\ TaskAt(1) = Stop
      BY <1>2, DropFacts DEF Stops, Working, Stopped, Idle
    <3>2. JobsOf(q) \ {1} = JobsOf(q)
      BY <3>1, TaskFacts DEF JobsOf
    <3>3. /\ JobsOf(q)' = {i - 1 : i \in JobsOf(q)}
          /\ \A i \in JobsOf(q) : TaskAt(i - 1)' = TaskAt(i)
      BY <3>1, <3>2
    <3>4. Frames(q) /\ UNCHANGED <<reports, queue>>
      BY <1>2, FramesAll DEF Stops
    <3> QED
      BY <3>3, <3>4, FramesMove
  <2> QED
    BY <2>1 DEF NoFrameLost, Frames
<1>3. CASE Fails
  <2>1. PICK p \in Queues : Head(fifo).queue = p /\ Reported(p, Head(fifo).seq, TRUE)
    BY <1>3 DEF Fails
  <2>2. ~Working' /\ ~Working /\ fifo # <<>> /\ fifo' = Tail(fifo) /\ terminal
        /\ Head(fifo) \in Tasks
    BY <1>3, FifoFacts DEF Fails, Idle, Working
  <2>3. 1 \in Places /\ TaskAt(1) = Head(fifo) /\ \A i \in Places : 1 <= i
    BY <2>2, DropFacts
  <2>4. Head(fifo).kind = "job"
    <3>1. Head(fifo) # Stop
      BY <2>1, TaskFacts DEF Stop, Queues
    <3>2. main \notin Lifecycle
      BY <2>2 DEF MainInv, Lifecycle
    <3> QED
      BY <2>3, <3>1, <3>2 DEF TaskInv, CallInv
  <2>5. /\ 1 \in JobsOf(p) /\ \A i \in JobsOf(p) : 1 <= i
        /\ \A q \in Queues : q # p => 1 \notin JobsOf(q)
    BY <2>1, <2>3, <2>4 DEF JobsOf
  <2>6. \A q : /\ JobsOf(q)' = {i - 1 : i \in JobsOf(q) \ {1}}
               /\ \A i \in JobsOf(q) \ {1} : TaskAt(i - 1)' = TaskAt(i)
    BY <2>2, DropFacts
  <2>7. Reported(p, TaskAt(1).seq, TRUE)
    BY <2>1, <2>3
  <2> HIDE DEF IndInv
  <2> QED
    BY <2>5, <2>6, <2>7, ReportedFrames DEF IndInv
<1>4. CASE Proceeds
  <2>1. ASSUME NEW q \in Queues PROVE Frames(q)'
    <3>1. /\ \A i \in Places : TaskAt(i)' = TaskAt(i)
          /\ JobsOf(q)' = JobsOf(q)
      BY <1>4, QuietFacts DEF Proceeds
    <3>2. \A i \in JobsOf(q) : TaskAt(i)' = TaskAt(i)
      BY <3>1 DEF JobsOf
    <3>3. Frames(q) /\ UNCHANGED <<reports, queue>>
      BY <1>4, FramesAll DEF Proceeds
    <3> QED
      BY <3>1, <3>2, <3>3, FramesSame
  <2> QED
    BY <2>1 DEF NoFrameLost, Frames
<1>5. CASE Records
  <2>1. PICK p \in Queues, b \in BOOLEAN :
           hand.task.queue = p /\ Reported(p, hand.task.seq, b)
    BY <1>5 DEF Records
  <2>2. Working /\ ~Working' /\ fifo' = fifo /\ hand.task.kind = "job"
    BY <1>5 DEF Records, Idle, Working
  <2>3. /\ 0 \in JobsOf(p) /\ TaskAt(0) = hand.task /\ \A i \in JobsOf(p) : 0 <= i
        /\ \A q \in Queues : q # p => 0 \notin JobsOf(q)
    BY <2>1, <2>2, HandIsFirst
  <2>4. \A q : /\ JobsOf(q)' = {i - 0 : i \in JobsOf(q) \ {0}}
               /\ \A i \in JobsOf(q) \ {0} : TaskAt(i - 0)' = TaskAt(i)
    <3> SUFFICES ASSUME NEW q
                 PROVE  /\ JobsOf(q)' = {i - 0 : i \in JobsOf(q) \ {0}}
                        /\ \A i \in JobsOf(q) \ {0} : TaskAt(i - 0)' = TaskAt(i)
      OBVIOUS
    <3>1. /\ JobsOf(q)' = JobsOf(q) \ {0}
          /\ \A i \in JobsOf(q) \ {0} : TaskAt(i)' = TaskAt(i)
      BY <2>2, EndFacts DEF JobsOf
    <3>2. \A i \in JobsOf(q) : i - 0 = i
      BY PlaceFacts
    <3> QED
      BY <3>1, <3>2
  <2> QED
    BY <2>1, <2>3, <2>4, ReportedFrames
<1>6. CASE Ends
  <2>1. ASSUME NEW q \in Queues PROVE Frames(q)'
    <3>1. /\ TaskAt(0) = hand.task /\ \A i \in Places \ {0} : TaskAt(i)' = TaskAt(i)
          /\ JobsOf(q)' = JobsOf(q) \ {0}
      BY <1>6, EndFacts DEF Ends, Working, Idle
    <3>2. 0 \notin JobsOf(q)
      BY <1>6, <3>1 DEF Ends, JobsOf, Lifecycle
    <3>3. JobsOf(q)' = JobsOf(q) /\ \A i \in JobsOf(q) : TaskAt(i)' = TaskAt(i)
      BY <3>1, <3>2 DEF JobsOf
    <3>4. Frames(q) /\ UNCHANGED <<reports, queue>>
      BY <1>6, FramesAll DEF Ends
    <3> QED
      BY <3>3, <3>4, FramesSame
  <2> QED
    BY <2>1 DEF NoFrameLost, Frames
<1> QED
  BY <1>0, <1>1, <1>2, <1>3, <1>4, <1>5, <1>6

LEMMA WorkerTasks ==
    ASSUME IndInv, Worker
    PROVE  CallInv' /\ StopInv' /\ TaskInv'
<1> USE DEF IndInv
<1>0. /\ UNCHANGED <<main, at, phase, terminal>>
      /\ Takes \/ Stops \/ Fails \/ Proceeds \/ Records \/ Ends
  BY WorkerKinds
<1> DEFINE n == Len(fifo)
<1>1. n \in Nat /\ DOMAIN fifo = 1 .. n /\ n = Len(fifo)
  BY FifoFacts
<1> HIDE DEF n
<1>2. CASE Takes \/ Stops \/ Fails
  <2>1. fifo # <<>> /\ fifo' = Tail(fifo) /\ ~Working
    BY <1>2 DEF Takes, Stops, Fails
  <2>2. /\ fifo' \in Seq(Tasks) /\ Len(fifo') = n - 1
        /\ \A i \in 1 .. n - 1 : fifo'[i] = fifo[i + 1]
        /\ n >= 1 /\ Head(fifo) = fifo[1]
    BY <1>1, <2>1, TailFacts, FifoFacts
  <2>3. \A i \in Places' : i + 1 \in Places /\ TaskAt(i)' = TaskAt(i + 1)
    <3>1. CASE Takes
      BY <3>1, TakeFacts DEF Takes
    <3>2. CASE Stops \/ Fails
      BY <3>2, DropFacts DEF Stops, Fails, Working, Stopped, Idle
    <3> QED
      BY <1>2, <3>1, <3>2
  <2>4. /\ call' = call
        /\ Takes => hand'.stage = "gate"
        /\ Stops => hand'.stage = "stopped"
        /\ Fails => hand'.stage = "idle"
    <3>1. call' = call
      BY <1>2 DEF Takes, Stops, Fails
    <3>2. Takes => hand'.stage = "gate"
      BY DEF Takes, AtGate
    <3>3. Stops => hand'.stage = "stopped"
      BY DEF Stops, Stopped, Idle
    <3>4. Fails => hand'.stage = "idle"
      BY DEF Fails, Idle
    <3> QED
      BY <3>1, <3>2, <3>3, <3>4
  <2>5. Places' \subseteq Int
    BY <2>2 DEF Places
  <2>6. CallInv'
    <3> SUFFICES ASSUME NEW i \in Places', TaskAt(i)'.kind \in Lifecycle
                 PROVE  /\ i = Len(fifo') /\ TaskAt(i)'.kind = main'
                        /\ TaskAt(i)'.queue = at' /\ call' = "none"
      BY DEF CallInv
    <3>1. i + 1 \in Places /\ TaskAt(i)' = TaskAt(i + 1) /\ i \in Int
      BY <2>3, <2>5
    <3>2. /\ i + 1 = n /\ TaskAt(i + 1).kind = main
          /\ TaskAt(i + 1).queue = at /\ call = "none"
      BY <1>1, <3>1 DEF CallInv
    <3> QED
      BY <1>0, <1>1, <2>2, <2>4, <3>1, <3>2
  <2>7. DOMAIN fifo' = 1 .. n - 1
    BY <2>2, LenProperties
  <2>8. \A i \in DOMAIN fifo' : fifo'[i] = Stop => i = Len(fifo') /\ main' = "join"
    <3> SUFFICES ASSUME NEW i \in 1 .. n - 1, fifo'[i] = Stop
                 PROVE  i = n - 1 /\ main = "join"
      BY <1>0, <2>2, <2>7
    <3>1. i + 1 \in 1 .. n /\ fifo[i + 1] = Stop
      BY <1>1, <2>2
    <3>2. i + 1 = n /\ main = "join"
      BY <1>1, <3>1 DEF StopInv
    <3>3. i \in Int /\ n \in Int
      BY <1>1
    <3> HIDE DEF IndInv
    <3>4. i = n - 1
      BY <3>2, <3>3
    <3> QED
      BY <3>2, <3>4
  <2>9. hand'.stage = "stopped" => fifo' = <<>> /\ main = "join"
    <3>1. SUFFICES ASSUME Stops PROVE fifo' = <<>> /\ main = "join"
      BY <1>2, <2>4
    <3>2. 1 \in DOMAIN fifo /\ fifo[1] = Stop
      BY <1>1, <2>2, <3>1 DEF Stops
    <3>3. n = 1 /\ main = "join"
      BY <1>1, <3>2 DEF StopInv
    <3>4. Len(fifo') = 0
      BY <2>2, <3>3
    <3> QED
      BY <2>2, <3>3, <3>4, EmptySeq
  <2>10. StopInv'
    BY <1>0, <2>8, <2>9 DEF StopInv
  <2>11. TaskInv'
    <3>1. hand'.stage # "execute"
      BY <1>2, <2>4
    <3>2. ASSUME NEW i \in Places'
          PROVE  \/ TaskAt(i)' = Stop /\ i # 0
                 \/ TaskAt(i)'.kind \in Lifecycle \cup {"job"} /\ TaskAt(i)'.queue \in Queues
      <4>1. i + 1 \in Places /\ TaskAt(i)' = TaskAt(i + 1) /\ i \in Int
        BY <2>3, <2>5
      <4>2. i = 0 => TaskAt(1) # Stop
        <5>1. SUFFICES ASSUME i = 0 PROVE Takes
          BY <2>2 DEF Takes, TaskAt
        <5>2. Working'
          BY <5>1 DEF Places, Working
        <5> QED
          BY <1>2, <5>2 DEF Stops, Fails, Working, Stopped, Idle
      <4> QED
        BY <4>1, <4>2 DEF TaskInv
    <3> QED
      BY <3>1, <3>2 DEF TaskInv
  <2> QED
    BY <2>6, <2>10, <2>11
<1>3. CASE Proceeds
  <2>1. /\ fifo' = fifo /\ call' = call /\ hand'.task = hand.task
        /\ hand'.stage \in {"gate", "execute"} /\ hand.task.kind = "job"
    BY <1>3 DEF Proceeds, Working
  <2>2. Places' = Places /\ \A i \in Places : TaskAt(i)' = TaskAt(i)
    BY <1>3, QuietFacts DEF Proceeds
  <2> QED
    BY <1>0, <2>1, <2>2 DEF CallInv, StopInv, TaskInv
<1>4. CASE Records \/ Ends
  <2>1. fifo' = fifo /\ hand' = Idle /\ Working /\ ~Working'
    BY <1>4 DEF Records, Ends, Idle, Working
  <2>2. /\ Places' = Places \ {0} /\ 0 \in Places /\ TaskAt(0) = hand.task
        /\ \A i \in Places' : TaskAt(i)' = TaskAt(i)
    BY <2>1, EndFacts
  <2>3. StopInv' /\ TaskInv'
    BY <1>0, <2>1, <2>2 DEF StopInv, TaskInv, Idle
  <2>4. CallInv'
    <3>1. CASE Records
      BY <1>0, <2>1, <2>2, <3>1 DEF CallInv, Records
    <3>2. CASE Ends
      <4>1. n = 0
        BY <1>1, <2>2, <3>2 DEF CallInv, Ends
      <4>2. Places' = {}
        BY <1>1, <2>1, <4>1 DEF Places, Working
      <4> QED
        BY <4>2 DEF CallInv
    <3> QED
      BY <1>4, <3>1, <3>2
  <2> QED
    BY <2>3, <2>4
<1> QED
  BY <1>0, <1>2, <1>3, <1>4

--------------------------------------------------------------------------------
(* The main thread: its own state and the sessions.                         *)

LEMMA MainType ==
    ASSUME TypeOK, MainInv, MainStep
    PROVE  /\ main' \in MainStates /\ at' \in 1 .. NQueues + 1
           /\ phase' \in Phases /\ completed' \in BOOLEAN /\ closes' \in 0 .. 2
           /\ held' \in [Queues -> {"none", "session", "queue"}]
           /\ call' \in {"none", "ok", "failed"} /\ terminal' \in BOOLEAN
           /\ faults' \in 0 .. MaxFaults
<1> USE DEF publisher, gates, provider
<1>0. /\ main \in MainStates /\ at \in 1 .. NQueues + 1 /\ NQueues \in Nat
      /\ phase \in Phases /\ completed \in BOOLEAN /\ closes \in 0 .. 2
      /\ held \in [Queues -> {"none", "session", "queue"}]
      /\ call \in {"none", "ok", "failed"} /\ terminal \in BOOLEAN
      /\ faults \in 0 .. MaxFaults /\ MaxFaults \in Nat
  BY QueueAssumption DEF TypeOK
<1>1. faults' \in 0 .. MaxFaults
  <2>1. NoFault \/ Fault
    BY DEF MainStep, Continue, Demand, OpenSession, OpenFails, OpenLost, Initialized,
       InitializeFailed, AllOpen, Replay, ReplayRefused, Replayed, Prepared,
       SubmitRefused, Armed, Cancelled, FlushOne, Route, CloseRefused, StartFinalize,
       StartAbort, Finalized, Aborted, Report, ReportLost, CloseWorker, Joined,
       CloseAgain, SealQueue, SealWorker, StartFlush, Finish, Submit, LoseWorld
  <2> QED
    BY <1>0, <2>1 DEF NoFault, Fault
<1>2. CASE \/ OpenFails \/ InitializeFailed \/ ReplayRefused \/ Finish \/ CloseAgain
  <2>1. closes \in {0, 1}
    BY <1>2 DEF OpenFails, InitializeFailed, ReplayRefused, Finish, CloseAgain, MainInv
  <2>2. /\ StartClose /\ completed' \in BOOLEAN /\ UNCHANGED <<held, terminal>>
        /\ call' \in {"none", "ok", "failed"}
    BY <1>0, <1>2 DEF OpenFails, InitializeFailed, ReplayRefused, Finish, CloseAgain
  <2> QED
    BY <1>0, <1>1, <2>1, <2>2 DEF StartClose, MainStates, Phases
<1>3. CASE OpenSession \/ Initialized \/ OpenLost
  <2>1. /\ UNCHANGED <<phase, completed, closes, terminal>>
        /\ call' \in {"none", call} /\ main' \in {"initialize", "replay", "seal"}
        /\ at' \in {at, 1}
        /\ \/ held' = held
           \/ \E v \in {"session", "queue"} : held' = [held EXCEPT ![at] = v]
    BY <1>3 DEF OpenSession, OpenLost, Initialized, LoseWorld, Enqueue
  <2> QED
    BY <1>0, <1>1, <2>1 DEF MainStates
<1>4. CASE AllOpen \/ Replay \/ Replayed \/ Prepared \/ SubmitRefused \/ Armed \/ Cancelled
  <2>1. /\ UNCHANGED <<completed, closes, held, terminal, call>>
        /\ phase' \in {phase, "open"} /\ main' \in {main, "run", "open", "agree", "seal"}
        /\ at' \in {at, 1} \/ (main = "replay" /\ at' = at + 1)
    BY <1>4 DEF AllOpen, Replay, Replayed, Prepared, SubmitRefused, Armed, Cancelled,
       LoseWorld, Admit
  <2>2. main = "replay" => at \in 1 .. NQueues
    BY DEF MainInv, Queues
  <2> QED
    BY <1>0, <1>1, <2>1, <2>2 DEF MainStates, Phases
<1>5. CASE FlushOne \/ Route \/ CloseRefused \/ StartFinalize \/ StartAbort
  <2>1. /\ UNCHANGED <<phase, completed, closes, held, terminal>>
        /\ call' \in {call, "none"}
        /\ main' \in {"run", "flush", "report", "abort", "abortClose", "close", "finalize"}
        /\ at' = at \/ (at <= NQueues /\ at' = at + 1)
    BY <1>5 DEF FlushOne, Route, CloseRefused, StartFinalize, StartAbort, Enqueue
  <2> QED
    BY <1>0, <1>1, <2>1 DEF MainStates
<1>6. CASE Finalized \/ Aborted \/ Report \/ ReportLost
  <2>1. /\ UNCHANGED <<phase, completed, closes, terminal>>
        /\ call' \in {call, "none"} /\ main' \in {"report", "worker", "drain", "seal"}
        /\ held' = held \/ held' = [held EXCEPT ![at] = "none"]
        /\ at' \in {at, 1} \/ (main = "report" /\ at' = at + 1)
    BY <1>6 DEF Finalized, Aborted, Report, ReportLost, LoseWorld
  <2>2. main = "report" => at \in 1 .. NQueues
    BY DEF MainInv, Queues
  <2> QED
    BY <1>0, <1>1, <2>1, <2>2 DEF MainStates
<1>7. CASE CloseWorker \/ Joined \/ SealQueue \/ SealWorker
  <2>1. /\ UNCHANGED <<completed, closes, held, call>>
        /\ phase' \in {phase, "closed"} /\ (terminal' = terminal \/ terminal' = TRUE)
        /\ main' \in {main, "join", "ended"}
        /\ at' = at \/ (at <= NQueues /\ at' = at + 1)
    BY <1>7 DEF CloseWorker, Joined, SealQueue, SealWorker
  <2>2. terminal' \in BOOLEAN
    BY <1>0, <2>1
  <2>3. main' \in MainStates /\ phase' \in Phases /\ at' \in 1 .. NQueues + 1
    BY <1>0, <2>1 DEF MainStates, Phases
  <2> QED
    BY <1>0, <1>1, <2>1, <2>2, <2>3
<1>8. CASE StartFlush \/ \E q \in Queues : Submit(q)
  <2>1. /\ UNCHANGED <<phase, completed, closes, held, call, terminal>>
        /\ main' \in {"flush", "admit"} /\ at' \in {1} \cup Queues
    BY <1>8 DEF StartFlush, Submit
  <2> QED
    BY <1>0, <1>1, <2>1 DEF MainStates, Queues
<1> QED
  BY <1>2, <1>3, <1>4, <1>5, <1>6, <1>7, <1>8 DEF MainStep, Continue, Demand

LEMMA MainGates ==
    ASSUME TypeOK, MainInv, MainStep
    PROVE  shut' \subseteq Tasks /\ cancelled' \subseteq Tasks
<1> USE DEF publisher, gates, provider
<1>0. shut \subseteq Tasks /\ cancelled \subseteq Tasks
  BY DEF TypeOK
<1>1. CASE Replay \/ Prepared
  <2>1. main \in {"replay", "admit"} /\ UNCHANGED cancelled
        /\ (shut' = shut \/ shut' = shut \cup {Job(at, queue[at].next)})
    BY <1>1 DEF Replay, Prepared, Admit
  <2>2. at \in Queues
    BY <2>1 DEF MainInv
  <2>3. Job(at, queue[at].next) \in Tasks
    BY <2>2, TaskFacts, FieldFacts
  <2> QED
    BY <1>0, <2>1, <2>3
<1>2. CASE Armed \/ Cancelled \/ SealQueue
  BY <1>0, <1>2 DEF Armed, Cancelled, SealQueue
<1>3. CASE ~(Replay \/ Prepared \/ Armed \/ Cancelled \/ SealQueue)
  <2>1. UNCHANGED gates
    BY <1>3 DEF MainStep, Continue, Demand, OpenSession, OpenFails, OpenLost, Initialized,
       InitializeFailed, AllOpen, ReplayRefused, Replayed,
       SubmitRefused, FlushOne, Route, CloseRefused, StartFinalize,
       StartAbort, Finalized, Aborted, Report, ReportLost, CloseWorker, Joined,
       CloseAgain, SealWorker, StartFlush, Finish, Submit
  <2> QED
    BY <1>0, <2>1
<1> QED
  BY <1>1, <1>2, <1>3

LEMMA MainTypeOK ==
    ASSUME TypeOK, MainInv, MainStep
    PROVE  TypeOK'
<1>1. /\ UNCHANGED <<hand, reports, session, executed>>
      /\ queue' \in [Queues -> QueueFields]
      /\ Leaves \/ PutsCall \/ PutsStop \/ PutsJob
  BY MainKinds
<1>2. fifo' \in Seq(Tasks)
  <2>1. CASE Leaves
    BY <2>1 DEF Leaves, TypeOK
  <2>2. CASE PutsCall
    BY <2>2, TaskFacts, AppendFacts DEF PutsCall
  <2>3. CASE PutsStop
    BY <2>3, TaskFacts, AppendFacts DEF PutsStop
  <2>4. CASE PutsJob
    <3>1. at \in Queues /\ queue[at].next \in Nat
          /\ fifo' = Append(fifo, Job(at, queue[at].next))
      BY <2>4, FieldFacts DEF PutsJob
    <3> QED
      BY <3>1, TaskFacts, AppendFacts
  <2> QED
    BY <1>1, <2>1, <2>2, <2>3, <2>4
<1> QED
  BY <1>1, <1>2, MainType, MainGates DEF TypeOK

\* Where the main thread may stand after a step, and what it then holds.
LEMMA MainPosition ==
    ASSUME TypeOK, MainInv, SessionInv, MainStep
    PROVE  MainInv'
<1> USE DEF publisher, gates, provider
<1>0. /\ NQueues \in Nat \ {0} /\ at \in 1 .. NQueues + 1 /\ at \in Nat
      /\ Queues = 1 .. NQueues /\ Queues \subseteq Nat
      /\ held \in [Queues -> {"none", "session", "queue"}]
      /\ queue \in [Queues -> QueueFields]
  BY QueueAssumption DEF TypeOK, Queues
<1>1. CASE OpenSession
  <2>1. /\ main = "open" /\ at \in Queues /\ main' = "initialize"
        /\ held' = [held EXCEPT ![at] = "session"]
        /\ UNCHANGED <<at, phase, closes, queue, session, terminal>>
    BY <1>0, <1>1 DEF OpenSession
  <2> QED
    BY <1>0, <2>1 DEF MainInv
<1>2. CASE Initialized
  <2>1. /\ main = "initialize" /\ at \in Queues /\ main' = "replay"
        /\ held' = [held EXCEPT ![at] = "queue"]
        /\ UNCHANGED <<at, phase, closes, queue, session, terminal>>
    BY <1>0, <1>2 DEF Initialized, MainInv
  <2> QED
    BY <1>0, <2>1 DEF MainInv
<1>3. CASE Replay
  <2>1. /\ main = "replay" /\ at \in Queues
        /\ UNCHANGED <<main, at, phase, closes, held, session, terminal>>
    BY <1>3 DEF Replay, Admit, MainInv
  <2>2. \A q \in Queues : q # at => queue'[q] = queue[q]
    <3>1. queue' = [queue EXCEPT ![at].pending = @ + 1, ![at].next = @ + 1]
      BY <1>3 DEF Replay, Admit
    <3> QED
      BY <2>1, <3>1, AdmitFields DEF Assigns
  <2> QED
    BY <1>0, <2>1, <2>2 DEF MainInv
<1>4. CASE Replayed
  <2>1. /\ main = "replay" /\ at \in Queues /\ main' = "open" /\ at' = at + 1
        /\ UNCHANGED <<phase, closes, held, queue, session, terminal>>
    BY <1>4 DEF Replayed, MainInv
  <2> QED
    BY <1>0, <2>1 DEF MainInv
<1>5. CASE AllOpen
  <2>1. /\ main = "open" /\ at = NQueues + 1 /\ main' = "run"
        /\ UNCHANGED <<at, closes, held, queue, session, terminal>>
    BY <1>5 DEF AllOpen
  <2>2. \A q \in Queues : held[q] = "queue"
    BY <1>0, <2>1 DEF MainInv
  <2> QED
    BY <1>0, <2>1, <2>2 DEF MainInv
<1>6. CASE OpenFails \/ InitializeFailed \/ ReplayRefused \/ Finish \/ CloseAgain
  <2>1. main' = "drain" /\ at' = 1 /\ UNCHANGED terminal
    BY <1>6 DEF OpenFails, InitializeFailed, ReplayRefused, Finish, CloseAgain, StartClose
  <2>2. ~terminal
    BY <1>6 DEF OpenFails, InitializeFailed, ReplayRefused, Finish, CloseAgain, MainInv
  <2> QED
    BY <1>0, <2>1, <2>2 DEF MainInv
<1>7. CASE OpenLost \/ ReportLost
  <2>1. main' = "seal" /\ UNCHANGED terminal /\ main \in {"open", "report", "flush"}
    BY <1>7 DEF OpenLost, ReportLost, LoseWorld
  <2> QED
    BY <1>0, <2>1 DEF MainInv
<1>8. CASE \/ Prepared \/ SubmitRefused \/ Armed \/ Cancelled \/ StartFlush
           \/ FlushOne \/ \E q \in Queues : Submit(q)
  <2>1. /\ main \in {"run", "admit", "agree", "flush"}
        /\ UNCHANGED <<closes, held, terminal>>
        /\ main' \in {"run", "admit", "agree", "flush", "seal"}
        /\ main' \in {"admit", "agree", "flush"} => at' \in Queues
    BY <1>0, <1>8 DEF Prepared, SubmitRefused, Armed, Cancelled, StartFlush, FlushOne,
       Submit, Admit, LoseWorld, MainInv
  <2> QED
    BY <1>0, <2>1 DEF MainInv
<1>9. CASE Route
  <2>1. /\ main = "drain" /\ at \in Queues /\ UNCHANGED <<at, held, terminal>>
    BY <1>9 DEF Route, MainInv
  <2>2. CASE held[at] = "none"
    <3>1. main' = "report" /\ ~terminal
      BY <1>9, <2>1, <2>2 DEF Route, MainInv
    <3> QED
      BY <2>1, <3>1 DEF MainInv
  <2>3. CASE held[at] = "session"
    <3>1. main' = "abort" /\ ~terminal /\ queue' = queue
      BY <1>9, <2>1, <2>3 DEF Route, MainInv
    <3>2. queue'[at].pending = 0
      BY <2>1, <2>3, <3>1 DEF SessionInv, SessionOf
    <3> QED
      BY <2>1, <2>3, <3>1, <3>2 DEF MainInv
  <2>4. CASE held[at] = "queue"
    <3>1. /\ main' \in {"abortClose", "close"} /\ ~terminal
          /\ queue' = [queue EXCEPT ![at].closeRequested = TRUE]
      BY <1>9, <2>1, <2>4 DEF Route, MainInv
    <3>2. queue'[at].closeRequested
      BY <2>1, <3>1, RequestFields DEF Assigns
    <3> QED
      BY <2>1, <2>4, <3>1, <3>2 DEF MainInv
  <2> QED
    BY <1>0, <2>1, <2>2, <2>3, <2>4
<1>10. CASE StartFinalize
  <2>1. /\ main = "close" /\ at \in Queues /\ UNCHANGED <<at, held, terminal>>
        /\ main' = "finalize" /\ queue[at].pending = 0
        /\ queue' = [queue EXCEPT ![at].closePrepared = TRUE]
    BY <1>10 DEF StartFinalize, MainInv
  <2>2. queue'[at].pending = 0
    BY <2>1, PrepareFields DEF Assigns
  <2> QED
    BY <2>1, <2>2 DEF MainInv
<1>11. CASE StartAbort
  <2>1. /\ main = "abortClose" /\ at \in Queues /\ UNCHANGED <<at, held, terminal>>
        /\ main' = "abort" /\ queue[at].pending = 0
        /\ queue' = [queue EXCEPT ![at].abortPrepared = TRUE]
    BY <1>11 DEF StartAbort, MainInv
  <2>2. queue'[at].pending = 0
    BY <2>1, PrepareAbortFields DEF Assigns
  <2> QED
    BY <2>1, <2>2 DEF MainInv
<1>12. CASE CloseRefused \/ Finalized \/ Aborted
  <2>1. /\ main \in {"close", "finalize", "abort"} /\ at \in Queues
        /\ UNCHANGED <<at, terminal>> /\ main' = "report"
    BY <1>12 DEF CloseRefused, Finalized, Aborted, MainInv
  <2> QED
    BY <2>1 DEF MainInv
<1>13. CASE Report
  <2>1. /\ main = "report" /\ at \in Queues /\ UNCHANGED terminal
        /\ \/ main' = "worker"
           \/ main' = "drain" /\ at' = at + 1 /\ at # NQueues
    BY <1>13 DEF Report, MainInv
  <2> QED
    BY <1>0, <2>1 DEF MainInv
<1>14. CASE CloseWorker \/ Joined \/ SealQueue \/ SealWorker
  <2>1. /\ main' \in {"join", "ended", "seal"}
        /\ terminal' => main' \in {"join", "ended"}
    BY <1>14 DEF CloseWorker, Joined, SealQueue, SealWorker, MainInv
  <2> QED
    BY <2>1 DEF MainInv
<1> QED
  BY <1>1, <1>2, <1>3, <1>4, <1>5, <1>6, <1>7, <1>8, <1>9, <1>10, <1>11, <1>12,
     <1>13, <1>14 DEF MainStep, Continue, Demand

\* A step that leaves queues and sessions alone keeps what is known of them.
LEMMA SessionKept ==
    ASSUME SessionInv, UNCHANGED <<queue, held, session, hand>>,
           main \notin {"abort", "finalize"}, Sealed => Sealed',
           main = "report" => Sealed'
    PROVE  SessionInv'
<1> SUFFICES ASSUME NEW q \in Queues PROVE SessionOf(q)'
  BY DEF SessionInv
<1>1. SessionOf(q)
  BY DEF SessionInv
<1> QED
  BY <1>1 DEF SessionOf

\* A queue that takes frames has a live session.
LEMMA AvailableIsLive ==
    ASSUME MainInv, SessionInv, main \in {"replay", "admit", "close"}, at \in Queues,
           held[at] = "queue", ~queue[at].lifecycleError
    PROVE  session[at] = "live"
  BY DEF MainInv, SessionInv, SessionOf, Sealed

LEMMA MainSessions ==
    ASSUME TypeOK, MainInv, SessionInv, WaitInv, MainStep
    PROVE  SessionInv' /\ WaitInv'
<1> USE DEF publisher, gates, provider
<1>0. /\ NQueues \in Nat \ {0} /\ at \in 1 .. NQueues + 1
      /\ Queues = 1 .. NQueues
      /\ held \in [Queues -> {"none", "session", "queue"}]
      /\ queue \in [Queues -> QueueFields]
  BY QueueAssumption DEF TypeOK, Queues
<1>1. UNCHANGED <<hand, session>>
  BY MainKinds
<1>2. \A q \in Queues : SessionOf(q)
  BY DEF SessionInv
<1>3. CASE \/ OpenFails \/ InitializeFailed \/ AllOpen \/ ReplayRefused \/ Replayed
           \/ SubmitRefused \/ Armed \/ Cancelled \/ FlushOne \/ CloseRefused
           \/ ReportLost \/ CloseWorker \/ Joined \/ CloseAgain \/ SealWorker \/ Demand
  <2>1. UNCHANGED <<queue, held>>
    BY <1>3 DEF OpenFails, InitializeFailed, AllOpen, ReplayRefused, Replayed,
       SubmitRefused, Armed, Cancelled, FlushOne, CloseRefused, ReportLost, CloseWorker,
       Joined, CloseAgain, SealWorker, Demand, StartFlush, Finish, Submit
  <2>2. /\ main \notin {"abort", "finalize"} /\ main' \notin {"initialize", "finalize"}
        /\ main = "report" => main' = "seal"
        /\ main = "seal" => terminal'
    BY <1>3 DEF OpenFails, InitializeFailed, AllOpen, ReplayRefused, Replayed,
       SubmitRefused, Armed, Cancelled, FlushOne, CloseRefused, ReportLost, CloseWorker,
       Joined, CloseAgain, SealWorker, Demand, StartFlush, Finish, Submit, StartClose,
       LoseWorld
  <2>3. terminal => terminal'
    BY <1>3 DEF OpenFails, InitializeFailed, AllOpen, ReplayRefused, Replayed,
       SubmitRefused, Armed, Cancelled, FlushOne, CloseRefused, ReportLost, CloseWorker,
       Joined, CloseAgain, SealWorker, Demand, StartFlush, Finish, Submit
  <2>4. SessionInv'
    BY <1>1, <2>1, <2>2, <2>3, SessionKept DEF Sealed
  <2> QED
    BY <2>2, <2>4 DEF WaitInv
<1>4. CASE OpenSession
  <2>1. /\ main = "open" /\ at \in Queues /\ main' = "initialize" /\ ~Sealed
        /\ held' = [held EXCEPT ![at] = "session"] /\ UNCHANGED <<at, queue>>
        /\ call' = "none"
    BY <1>0, <1>4 DEF OpenSession, Enqueue, Sealed, MainInv
  <2>2. queue[at].pending = 0 /\ session[at] = "new" /\ ~queue[at].closePrepared
    BY <2>1 DEF MainInv, Fresh
  <2>3. ASSUME NEW q \in Queues PROVE SessionOf(q)'
    BY <1>0, <1>1, <1>2, <2>1, <2>2, <2>3 DEF SessionOf
  <2> QED
    BY <1>1, <2>1, <2>2, <2>3 DEF SessionInv, WaitInv
<1>5. CASE OpenLost
  <2>1. /\ main = "open" /\ at \in Queues /\ main' = "seal" /\ queue' = queue
        /\ held' = held \/ held' = [held EXCEPT ![at] = "session"]
    BY <1>0, <1>5 DEF OpenLost, LoseWorld
  <2>2. queue[at].pending = 0
    BY <2>1 DEF MainInv, Fresh
  <2>3. ASSUME NEW q \in Queues PROVE SessionOf(q)'
    <3>1. held'[q] = held[q] \/ (q = at /\ held'[q] = "session")
      BY <1>0, <2>1, <2>3
    <3> QED
      BY <1>1, <1>2, <2>1, <2>2, <2>3, <3>1 DEF SessionOf, Sealed
  <2> QED
    BY <2>1, <2>3 DEF SessionInv, WaitInv
<1>6. CASE Initialized
  <2>1. /\ main = "initialize" /\ at \in Queues /\ main' = "replay" /\ call = "ok"
        /\ held' = [held EXCEPT ![at] = "queue"] /\ UNCHANGED <<at, queue>> /\ ~Sealed
    BY <1>6 DEF Initialized, MainInv, Sealed
  <2>2. session[at] = "live"
    BY <2>1 DEF WaitInv
  <2>3. ASSUME NEW q \in Queues PROVE SessionOf(q)'
    BY <1>0, <1>1, <1>2, <2>1, <2>2, <2>3 DEF SessionOf
  <2> QED
    BY <2>1, <2>3 DEF SessionInv, WaitInv
<1>7. CASE Replay \/ Prepared
  <2>1. /\ main \in {"replay", "admit"} /\ at \in Queues /\ main' \in {"replay", "agree"}
        /\ held[at] = "queue" /\ held' = held /\ ~Sealed
        /\ ~queue[at].closeRequested /\ ~queue[at].lifecycleError
        /\ queue' = [queue EXCEPT ![at].pending = @ + 1, ![at].next = @ + 1]
    BY <1>7 DEF Replay, Prepared, Admit, Available, MainInv, Sealed
  <2>2. session[at] = "live"
    BY <2>1, AvailableIsLive
  <2>3. Assigns(at, queue[at].pending + 1, queue[at].next + 1,
                queue[at].lifecycleError, queue[at].closeRequested,
                queue[at].closePrepared, queue[at].finalizeSucceeded)
    BY <2>1, AdmitFields
  <2>4. ASSUME NEW q \in Queues PROVE SessionOf(q)'
    <3>1. CASE q = at
      BY <1>1, <1>2, <2>1, <2>2, <2>3, <3>1 DEF SessionOf, Assigns
    <3>2. CASE q # at
      <4>1. queue'[q] = queue[q]
        BY <2>3, <2>4, <3>2 DEF Assigns
      <4> QED
        BY <1>1, <1>2, <2>1, <2>4, <4>1 DEF SessionOf
    <3> QED
      BY <3>1, <3>2
  <2> QED
    BY <2>1, <2>4 DEF SessionInv, WaitInv
<1>8. CASE Route
  <2>1. main = "drain" /\ at \in Queues /\ UNCHANGED <<at, held>> /\ ~Sealed
    BY <1>8 DEF Route, MainInv, Sealed
  <2>2. main' \in {"report", "abort", "abortClose", "close"}
    BY <1>8 DEF Route
  <2>3. CASE held[at] # "queue"
    <3>1. queue' = queue
      BY <1>8, <2>3 DEF Route
    <3>2. ASSUME NEW q \in Queues PROVE SessionOf(q)'
      BY <1>1, <1>2, <2>1, <3>1, <3>2 DEF SessionOf
    <3> QED
      BY <2>2, <3>2 DEF SessionInv, WaitInv
  <2>4. CASE held[at] = "queue"
    <3>1. queue' = [queue EXCEPT ![at].closeRequested = TRUE]
      BY <1>8, <2>4 DEF Route
    <3>2. Assigns(at, queue[at].pending, queue[at].next, queue[at].lifecycleError,
                  TRUE, queue[at].closePrepared, queue[at].finalizeSucceeded)
      BY <2>1, <3>1, RequestFields
    <3>3. ASSUME NEW q \in Queues PROVE SessionOf(q)'
      <4>1. CASE q = at
        BY <1>1, <1>2, <2>1, <2>4, <3>2, <4>1 DEF SessionOf, Assigns
      <4>2. CASE q # at
        <5>1. queue'[q] = queue[q]
          BY <3>2, <3>3, <4>2 DEF Assigns
        <5> QED
          BY <1>1, <1>2, <2>1, <3>3, <5>1 DEF SessionOf
      <4> QED
        BY <4>1, <4>2
    <3> QED
      BY <2>2, <3>3 DEF SessionInv, WaitInv
  <2> QED
    BY <2>3, <2>4
<1>9. CASE StartFinalize
  <2>1. /\ main = "close" /\ at \in Queues /\ UNCHANGED <<at, held>> /\ ~Sealed
        /\ main' = "finalize" /\ call' = "none" /\ held[at] = "queue"
        /\ queue[at].pending = 0 /\ queue[at].closeRequested
        /\ queue[at].closePrepared \/ ~queue[at].lifecycleError
        /\ queue' = [queue EXCEPT ![at].closePrepared = TRUE]
    BY <1>9 DEF StartFinalize, Enqueue, MainInv, Sealed
  <2>2. ~queue[at].lifecycleError
    BY <1>2, <2>1 DEF SessionOf
  <2>3. session[at] = "live"
    BY <2>1, <2>2, AvailableIsLive
  <2>4. Assigns(at, queue[at].pending, queue[at].next, queue[at].lifecycleError,
                queue[at].closeRequested, TRUE, queue[at].finalizeSucceeded)
    BY <2>1, PrepareFields
  <2>5. ASSUME NEW q \in Queues PROVE SessionOf(q)'
    <3>1. CASE q = at
      BY <1>1, <1>2, <2>1, <2>2, <2>3, <2>4, <3>1 DEF SessionOf, Assigns
    <3>2. CASE q # at
      <4>1. queue'[q] = queue[q]
        BY <2>4, <2>5, <3>2 DEF Assigns
      <4> QED
        BY <1>1, <1>2, <2>1, <2>5, <4>1 DEF SessionOf
    <3> QED
      BY <3>1, <3>2
  <2> QED
    BY <1>1, <2>1, <2>3, <2>5 DEF SessionInv, WaitInv
<1>10. CASE StartAbort
  <2>1. /\ main = "abortClose" /\ at \in Queues /\ UNCHANGED <<at, held>> /\ ~Sealed
        /\ main' = "abort"
        /\ queue' = [queue EXCEPT ![at].abortPrepared = TRUE]
    BY <1>10 DEF StartAbort, MainInv, Sealed
  <2>2. Assigns(at, queue[at].pending, queue[at].next, queue[at].lifecycleError,
                queue[at].closeRequested, queue[at].closePrepared,
                queue[at].finalizeSucceeded)
    BY <2>1, PrepareAbortFields
  <2>3. ASSUME NEW q \in Queues PROVE SessionOf(q)'
    <3>1. CASE q = at
      BY <1>1, <1>2, <2>1, <2>2, <3>1 DEF SessionOf, Assigns
    <3>2. CASE q # at
      <4>1. queue'[q] = queue[q]
        BY <2>2, <2>3, <3>2 DEF Assigns
      <4> QED
        BY <1>1, <1>2, <2>1, <2>3, <4>1 DEF SessionOf
    <3> QED
      BY <3>1, <3>2
  <2> QED
    BY <2>1, <2>3 DEF SessionInv, WaitInv
<1>11. CASE Finalized
  <2>1. /\ main = "finalize" /\ at \in Queues /\ UNCHANGED <<at, held>> /\ ~Sealed
        /\ main' = "report" /\ (call = "ok") \in BOOLEAN
        /\ queue' = [queue EXCEPT ![at].finalizeSucceeded = (call = "ok")]
    BY <1>11 DEF Finalized, MainInv, Sealed
  <2>2. Assigns(at, queue[at].pending, queue[at].next, queue[at].lifecycleError,
                queue[at].closeRequested, queue[at].closePrepared, call = "ok")
    BY <2>1, FinalizeFields
  <2>3. ASSUME NEW q \in Queues PROVE SessionOf(q)'
    <3>1. CASE q = at
      BY <1>1, <1>2, <2>1, <2>2, <3>1 DEF SessionOf, Assigns
    <3>2. CASE q # at
      <4>1. queue'[q] = queue[q]
        BY <2>2, <2>3, <3>2 DEF Assigns
      <4> QED
        BY <1>1, <1>2, <2>1, <2>3, <3>2, <4>1 DEF SessionOf
    <3> QED
      BY <3>1, <3>2
  <2> QED
    BY <2>1, <2>3 DEF SessionInv, WaitInv
<1>12. CASE Aborted
  <2>1. /\ main = "abort" /\ at \in Queues /\ at' = at /\ ~Sealed
        /\ main' = "report" /\ (call = "ok") \in BOOLEAN
        /\ held' = IF call = "ok" THEN [held EXCEPT ![at] = "none"] ELSE held
        /\ queue' = [queue EXCEPT ![at].abortSucceeded = (call = "ok")]
    BY <1>12 DEF Aborted, MainInv, Sealed
  <2>2. Assigns(at, queue[at].pending, queue[at].next, queue[at].lifecycleError,
                queue[at].closeRequested, queue[at].closePrepared,
                queue[at].finalizeSucceeded)
    BY <2>1, AbortFields
  <2>3. /\ \A q \in Queues : q # at => held'[q] = held[q]
        /\ held'[at] = IF call = "ok" THEN "none" ELSE held[at]
    BY <1>0, <2>1
  <2>4. ASSUME NEW q \in Queues PROVE SessionOf(q)'
    <3>1. CASE q = at
      BY <1>1, <1>2, <2>1, <2>2, <2>3, <3>1 DEF SessionOf, Assigns
    <3>2. CASE q # at
      <4>1. queue'[q] = queue[q] /\ held'[q] = held[q]
        BY <2>2, <2>3, <2>4, <3>2 DEF Assigns
      <4> QED
        BY <1>1, <1>2, <2>1, <2>4, <3>2, <4>1 DEF SessionOf
    <3> QED
      BY <3>1, <3>2
  <2> QED
    BY <2>1, <2>4 DEF SessionInv, WaitInv
<1>13. CASE Report
  <2>1. /\ main = "report" /\ at \in Queues /\ queue' = queue /\ ~Sealed
        /\ main' \in {"worker", "drain"}
        /\ held' = IF queue[at].finalizeSucceeded
                   THEN [held EXCEPT ![at] = "none"] ELSE held
    BY <1>13 DEF Report, MainInv, Sealed
  <2>2. /\ \A q \in Queues : q # at => held'[q] = held[q]
        /\ held'[at] = IF queue[at].finalizeSucceeded THEN "none" ELSE held[at]
    BY <1>0, <2>1
  <2>3. ASSUME NEW q \in Queues PROVE SessionOf(q)'
    <3>1. held'[q] = held[q] \/ held'[q] = "none"
      BY <2>2, <2>3
    <3> QED
      BY <1>1, <1>2, <2>1, <2>2, <2>3, <3>1 DEF SessionOf
  <2> QED
    BY <2>1, <2>3 DEF SessionInv, WaitInv
<1>14. CASE SealQueue
  <2>1. main = "seal" /\ main' = "seal" /\ at \in Queues /\ held' = held
    BY <1>0, <1>14 DEF SealQueue
  <2>2. CASE held[at] # "queue"
    <3>1. queue' = queue
      BY <1>14, <2>2 DEF SealQueue
    <3>2. SessionInv'
      BY <1>1, <2>1, <3>1, SessionKept DEF Sealed
    <3> QED
      BY <2>1, <3>2 DEF WaitInv
  <2>3. CASE held[at] = "queue"
    <3>1. queue' = [queue EXCEPT ![at].closeRequested = TRUE,
                                 ![at].collectiveLost = TRUE,
                                 ![at].lifecycleError = TRUE]
      BY <1>14, <2>3 DEF SealQueue
    <3>2. Assigns(at, queue[at].pending, queue[at].next, TRUE, TRUE,
                  queue[at].closePrepared, queue[at].finalizeSucceeded)
      BY <2>1, <3>1, SealFields
    <3>3. ASSUME NEW q \in Queues PROVE SessionOf(q)'
      <4>1. CASE q = at
        BY <1>1, <1>2, <2>1, <2>3, <3>2, <4>1 DEF SessionOf, Assigns, Sealed
      <4>2. CASE q # at
        <5>1. queue'[q] = queue[q]
          BY <3>2, <3>3, <4>2 DEF Assigns
        <5> QED
          BY <1>1, <1>2, <2>1, <3>3, <5>1 DEF SessionOf, Sealed
      <4> QED
        BY <4>1, <4>2
    <3> QED
      BY <2>1, <3>3 DEF SessionInv, WaitInv
  <2> QED
    BY <2>2, <2>3
<1> QED
  BY <1>3, <1>4, <1>5, <1>6, <1>7, <1>8, <1>9, <1>10, <1>11, <1>12, <1>13, <1>14
  DEF MainStep, Continue

--------------------------------------------------------------------------------
(* The worker thread: types, positions and sessions.                        *)

\* A provider takes a frame only from a worker that is executing it.
Delivers ==
    /\ hand.stage = "execute" /\ hand.task.queue \in Queues
    /\ executed' = [executed EXCEPT ![hand.task.queue] = @ \cup {hand.task.seq}]

LEMMA WorkerExecuted ==
    ASSUME IndInv, Worker
    PROVE  (executed' = executed \/ Delivers) /\ (NoFault \/ Fault)
<1> USE DEF mainThread, publisher, gates, provider, IndInv
<1>1. CASE Deliver \/ AttemptFails
  <2>1. hand.stage = "execute" /\ hand.task.kind = "job"
    BY <1>1 DEF Deliver, AttemptFails, InHand
  <2>2. hand.task.queue \in Queues
    BY <2>1, HandIsFirst DEF Working
  <2> QED
    BY <1>1, <2>1, <2>2 DEF Deliver, AttemptFails, Delivers
<1>2. CASE ~(Deliver \/ AttemptFails)
  BY <1>2 DEF Worker, Take, FailJob, StopPoisoned, Enter, Skip, DeliverRaises,
     LifecycleReturns, LifecycleRaises
<1> QED
  BY <1>1, <1>2

\* The lifecycle call in the worker's hand is the one the main thread waits for.
LEMMA EndsAtMain ==
    ASSUME IndInv, Ends
    PROVE  /\ hand.task.kind = main /\ hand.task.queue = at /\ call = "none"
           /\ at \in Queues /\ main \in Lifecycle /\ ~Sealed
           /\ \/ call' = "ok" /\ session' = [session EXCEPT ![at] = AfterCall[main]]
              \/ /\ call' = "failed"
                 /\ session' = [session EXCEPT ![at] =
                                   IF main = "initialize" THEN "torn" ELSE @]
<1> USE DEF IndInv
<1>1. 0 \in Places /\ TaskAt(0) = hand.task
  BY PlaceFacts, FifoFacts DEF Ends, TaskAt
<1>2. hand.task.kind = main /\ hand.task.queue = at /\ call = "none" /\ main \in Lifecycle
  BY <1>1 DEF Ends, CallInv
<1>3. at \in Queues /\ ~Sealed
  BY <1>2 DEF MainInv, Lifecycle, Sealed
<1> QED
  BY <1>2, <1>3 DEF Ends

LEMMA WorkerTypeOK ==
    ASSUME IndInv, Worker
    PROVE  TypeOK'
<1> USE DEF IndInv
<1>0. /\ UNCHANGED <<main, at, phase, completed, closes, held, shut, cancelled, terminal>>
      /\ Takes \/ Stops \/ Fails \/ Proceeds \/ Records \/ Ends
  BY WorkerKinds
<1>1. /\ fifo \in Seq(Tasks) /\ hand.task \in Tasks
      /\ queue \in [Queues -> QueueFields]
      /\ reports \in [Queues -> Seq([seq : Nat, status : {"delivered", "skipped"}])]
      /\ session \in [Queues -> SessionStates] /\ executed \in [Queues -> SUBSET Nat]
      /\ faults \in 0 .. MaxFaults /\ MaxFaults \in Nat
      /\ call \in {"none", "ok", "failed"}
  BY QueueAssumption DEF TypeOK
<1>2. fifo' \in Seq(Tasks)
  BY <1>0, <1>1, TailFacts DEF Takes, Stops, Fails, Proceeds, Records, Ends
<1>3. hand' \in [stage : {"idle", "stopped", "gate", "execute"}, task : Tasks,
                 attempt : Nat]
  <2>1. CASE Takes
    BY <2>1, FifoFacts DEF Takes, AtGate
  <2>2. CASE Stops \/ Fails \/ Records \/ Ends
    <3>1. hand' = Idle \/ hand' = Stopped
      BY <2>2 DEF Stops, Fails, Records, Ends
    <3>2. /\ Idle = [stage |-> "idle", task |-> Stop, attempt |-> 0]
          /\ Stopped = [stage |-> "stopped", task |-> Stop, attempt |-> 0]
      BY DEF Idle, Stopped
    <3>3. Stop \in Tasks
      BY TaskFacts
    <3> QED
      BY <3>1, <3>2, <3>3
  <2>3. CASE Proceeds
    BY <2>3 DEF Proceeds
  <2> QED
    BY <1>0, <2>1, <2>2, <2>3
<1>4. /\ queue' \in [Queues -> QueueFields]
      /\ reports' \in [Queues -> Seq([seq : Nat, status : {"delivered", "skipped"}])]
  <2>1. CASE Fails \/ Records
    BY <2>1 DEF Fails, Records, Reported, Assigns
  <2>2. CASE Takes \/ Stops \/ Proceeds \/ Ends
    BY <1>1, <2>2 DEF Takes, Stops, Proceeds, Ends
  <2> QED
    BY <1>0, <2>1, <2>2
<1>5. session' \in [Queues -> SessionStates] /\ call' \in {"none", "ok", "failed"}
  <2>1. CASE Records
    <3>1. session' = session \/ \E p \in Queues : session' = [session EXCEPT ![p] = "aborted"]
      BY <2>1 DEF Records
    <3> QED
      BY <1>1, <2>1, <3>1 DEF SessionStates, Records
  <2>2. CASE Ends
    <3>1. /\ \/ call' = "ok" /\ session' = [session EXCEPT ![at] = AfterCall[main]]
             \/ /\ call' = "failed"
                /\ session' = [session EXCEPT ![at] =
                                  IF main = "initialize" THEN "torn" ELSE @]
          /\ at \in Queues /\ main \in Lifecycle
      BY <2>2, EndsAtMain
    <3>2. AfterCall[main] \in SessionStates /\ session[at] \in SessionStates
      BY <1>1, <3>1 DEF AfterCall, SessionStates, Lifecycle
    <3> QED
      BY <1>1, <3>1, <3>2 DEF SessionStates
  <2>3. CASE Takes \/ Stops \/ Fails \/ Proceeds
    BY <1>1, <2>3 DEF Takes, Stops, Fails, Proceeds
  <2> QED
    BY <1>0, <2>1, <2>2, <2>3
<1>6. executed' \in [Queues -> SUBSET Nat]
  <2>1. hand.task.seq \in Nat
    BY <1>1 DEF Tasks
  <2>2. CASE executed' = executed
    BY <1>1, <2>2
  <2>3. CASE Delivers
    <3>1. PICK p \in Queues : executed' = [executed EXCEPT ![p] = @ \cup {hand.task.seq}]
      BY <2>3 DEF Delivers
    <3>2. executed[p] \cup {hand.task.seq} \in SUBSET Nat
      BY <1>1, <2>1
    <3> QED
      BY <1>1, <3>1, <3>2
  <2> QED
    BY <2>2, <2>3, WorkerExecuted
<1>7. faults' \in 0 .. MaxFaults
  BY <1>1, WorkerExecuted DEF NoFault, Fault
<1> QED
  BY <1>0, <1>2, <1>3, <1>4, <1>5, <1>6, <1>7 DEF TypeOK

\* The report of a frame of queue p disturbs nothing the main thread relies on.
LEMMA ReportedPosition ==
    ASSUME MainInv, NEW p \in Queues, NEW n, NEW b, Reported(p, n, b),
           UNCHANGED <<main, at, phase, closes, held, terminal>>,
           \A q \in Queues : q # p => session'[q] = session[q]
    PROVE  MainInv'
<1>1. /\ \A q \in Queues : q # p => queue'[q] = queue[q]
      /\ queue[p].pending # 0 /\ queue'[p].closeRequested = queue[p].closeRequested
  BY DEF Reported, Assigns
<1>2. queue[p] # Fresh
  BY <1>1 DEF Fresh
<1>3. main \in {"open", "initialize", "replay"} =>
         \A q \in Queues :
            /\ q < at => held'[q] = "queue"
            /\ q > at \/ (q = at /\ main # "replay") => queue'[q] = Fresh
            /\ q > at \/ (q = at /\ main = "open") =>
                  held'[q] = "none" /\ session'[q] = "new"
  BY <1>1, <1>2 DEF MainInv
<1>4. main \in {"close", "abortClose"} => queue'[at].closeRequested
  BY <1>1 DEF MainInv
<1>5. main \in {"finalize", "abort"} => queue'[at].pending = 0
  BY <1>1 DEF MainInv
<1> QED
  BY <1>3, <1>4, <1>5 DEF MainInv

LEMMA WorkerPosition ==
    ASSUME IndInv, Worker
    PROVE  MainInv'
<1> USE DEF IndInv
<1>0. /\ UNCHANGED <<main, at, phase, closes, held, terminal>>
      /\ Takes \/ Stops \/ Fails \/ Proceeds \/ Records \/ Ends
      /\ session \in [Queues -> SessionStates]
  BY WorkerKinds DEF TypeOK
<1>1. CASE Takes \/ Stops \/ Proceeds
  <2>1. UNCHANGED <<queue, session>>
    BY <1>1 DEF Takes, Stops, Proceeds
  <2> QED
    BY <1>0, <2>1 DEF MainInv
<1>2. CASE Fails
  <2>1. PICK p \in Queues : Reported(p, Head(fifo).seq, TRUE)
    BY <1>2 DEF Fails
  <2>2. session' = session
    BY <1>2 DEF Fails
  <2> QED
    BY <1>0, <2>1, <2>2, ReportedPosition
<1>3. CASE Records
  <2>1. PICK p \in Queues, b \in BOOLEAN :
           /\ Reported(p, hand.task.seq, b)
           /\ session' = session \/ session' = [session EXCEPT ![p] = "aborted"]
    BY <1>3 DEF Records
  <2>2. \A q \in Queues : q # p => session'[q] = session[q]
    BY <1>0, <2>1
  <2> QED
    BY <1>0, <2>1, <2>2, ReportedPosition
<1>4. CASE Ends
  <2>1. main \in Lifecycle /\ at \in Queues
    BY <1>4, EndsAtMain
  <2>2. \A q \in Queues : q # at => session'[q] = session[q]
    BY <1>0, <1>4, EndsAtMain
  <2>3. queue' = queue
    BY <1>4 DEF Ends
  <2> QED
    BY <1>0, <2>1, <2>2, <2>3 DEF MainInv, Lifecycle
<1> QED
  BY <1>0, <1>1, <1>2, <1>3, <1>4

\* The report of a frame, with the abort of its session when it poisons the queue.
LEMMA ReportedSessions ==
    ASSUME IndInv, NEW p \in Queues, NEW n, NEW b \in BOOLEAN, Reported(p, n, b),
           UNCHANGED <<main, at, held, terminal, call>>, hand' = Idle,
           \/ session' = session
           \/ b /\ session[p] = "live" /\ session' = [session EXCEPT ![p] = "aborted"]
    PROVE  SessionInv' /\ WaitInv'
<1> USE DEF IndInv
<1>1. /\ \A q \in Queues : q # p => queue'[q] = queue[q]
      /\ queue[p].pending # 0
      /\ queue'[p].lifecycleError = (queue[p].lifecycleError \/ b)
      /\ queue'[p].closePrepared = queue[p].closePrepared
      /\ queue'[p].finalizeSucceeded = queue[p].finalizeSucceeded
  BY DEF Reported, Assigns
<1>2. \A q \in Queues : q # p => session'[q] = session[q]
  BY DEF TypeOK
<1>3. session'[p] = session[p] \/ (b /\ session[p] = "live" /\ session'[p] = "aborted")
  BY DEF TypeOK
<1>4. hand'.stage # "execute"
  BY DEF Idle
<1>5. \A q \in Queues : SessionOf(q)
  BY DEF SessionInv
<1>6. ASSUME NEW q \in Queues PROVE SessionOf(q)'
  <2>1. CASE q # p
    BY <1>1, <1>2, <1>4, <1>5, <1>6, <2>1 DEF SessionOf, Sealed
  <2>2. CASE q = p
    <3>1. SessionOf(p)
      BY <1>5
    <3>2. ~queue[p].closePrepared /\ held[p] # "session"
      BY <1>1, <3>1 DEF SessionOf
    <3> QED
      BY <1>1, <1>3, <1>4, <2>2, <3>1, <3>2 DEF SessionOf, Sealed
  <2> QED
    BY <2>1, <2>2
<1>7. main \in {"initialize", "finalize"} => at \in Queues /\ at # p
  BY <1>1 DEF MainInv, Fresh
<1> QED
  BY <1>2, <1>6, <1>7 DEF SessionInv, WaitInv

LEMMA EndsSessions ==
    ASSUME IndInv, Ends, UNCHANGED <<main, at, held, terminal>>
    PROVE  SessionInv' /\ WaitInv'
<1> USE DEF IndInv
<1>1. /\ call = "none" /\ at \in Queues /\ main \in Lifecycle /\ ~Sealed /\ ~Sealed'
      /\ \/ call' = "ok" /\ session' = [session EXCEPT ![at] = AfterCall[main]]
         \/ /\ call' = "failed"
            /\ session' = [session EXCEPT ![at] =
                              IF main = "initialize" THEN "torn" ELSE @]
  BY EndsAtMain DEF Sealed
<1>2. queue' = queue /\ hand'.stage # "execute"
  BY DEF Ends, Idle
<1>3. /\ \A q \in Queues : q # at => session'[q] = session[q]
      /\ \/ call' = "ok" /\ session'[at] = AfterCall[main]
         \/ /\ call' = "failed"
            /\ session'[at] = IF main = "initialize" THEN "torn" ELSE session[at]
  BY <1>1 DEF TypeOK
<1>4. /\ main = "initialize" => held[at] = "session"
      /\ queue[at].pending = 0
      /\ main = "finalize" => held[at] = "queue"
  BY <1>1 DEF MainInv, Fresh, Lifecycle
<1>5. \A q \in Queues : SessionOf(q)
  BY DEF SessionInv
<1>6. ASSUME NEW q \in Queues PROVE SessionOf(q)'
  <2>1. CASE q # at
    BY <1>1, <1>2, <1>3, <1>5, <1>6, <2>1 DEF SessionOf
  <2>2. CASE q = at
    <3>1. SessionOf(at)
      BY <1>1, <1>5
    <3>2. main \in {"initialize", "finalize", "abort"}
      BY <1>1 DEF Lifecycle
    <3>3. CASE call' = "ok"
      <4>1. session'[at] = AfterCall[main]
        BY <1>3, <3>3
      <4> QED
        BY <1>1, <1>2, <1>4, <2>2, <3>1, <3>2, <3>3, <4>1 DEF SessionOf, AfterCall
    <3>4. CASE call' = "failed"
      <4>1. session'[at] = IF main = "initialize" THEN "torn" ELSE session[at]
        BY <1>3, <3>4
      <4> QED
        BY <1>1, <1>2, <1>4, <2>2, <3>1, <3>2, <3>4, <4>1 DEF SessionOf
    <3> QED
      BY <1>1, <3>3, <3>4
  <2> QED
    BY <2>1, <2>2
<1>7. WaitInv'
  BY <1>1, <1>3 DEF WaitInv, AfterCall
<1> QED
  BY <1>6, <1>7 DEF SessionInv

LEMMA WorkerSessions ==
    ASSUME IndInv, Worker
    PROVE  SessionInv' /\ WaitInv'
<1> USE DEF IndInv
<1>0. /\ UNCHANGED <<main, at, held, terminal>>
      /\ Takes \/ Stops \/ Fails \/ Proceeds \/ Records \/ Ends
  BY WorkerKinds
<1>1. \A q \in Queues : SessionOf(q)
  BY DEF SessionInv
<1>2. CASE Takes \/ Stops
  <2>1. UNCHANGED <<queue, session, call>> /\ hand'.stage # "execute"
    BY <1>2 DEF Takes, Stops, AtGate, Stopped, Idle
  <2>2. ASSUME NEW q \in Queues PROVE SessionOf(q)'
    BY <1>0, <1>1, <2>1, <2>2 DEF SessionOf, Sealed
  <2> QED
    BY <1>0, <2>1, <2>2 DEF SessionInv, WaitInv
<1>3. CASE Fails
  <2>1. PICK p \in Queues : Reported(p, Head(fifo).seq, TRUE)
    BY <1>3 DEF Fails
  <2>2. UNCHANGED <<session, call>> /\ hand' = Idle /\ TRUE \in BOOLEAN
    BY <1>3 DEF Fails
  <2> QED
    BY <1>0, <2>1, <2>2, ReportedSessions
<1>4. CASE Proceeds
  <2>1. PICK p \in Queues :
              /\ hand.task.queue = p /\ 0 \in JobsOf(p)
              /\ \A i \in JobsOf(p) : 0 <= i
    BY <1>4, HandIsFirst DEF Proceeds
  <2>2. queue[p].pending # 0
    BY <2>1, FirstIsNext, FramesAll
  <2>3. session[p] = "live"
    BY <1>1, <1>4, <2>1, <2>2 DEF Proceeds, SessionOf
  <2>4. UNCHANGED <<queue, session, call>> /\ hand'.task.queue = p
    BY <1>4, <2>1 DEF Proceeds
  <2>5. ASSUME NEW q \in Queues PROVE SessionOf(q)'
    BY <1>0, <1>1, <2>3, <2>4, <2>5 DEF SessionOf, Sealed
  <2> QED
    BY <1>0, <2>4, <2>5 DEF SessionInv, WaitInv
<1>5. CASE Records
  <2>1. PICK p \in Queues, b \in BOOLEAN :
           /\ hand.task.queue = p /\ Reported(p, hand.task.seq, b)
           /\ session' # session => b /\ session' = [session EXCEPT ![p] = "aborted"]
    BY <1>5 DEF Records
  <2>2. session' # session => session[p] = "live"
    BY <1>1, <1>5, <2>1 DEF Records, SessionOf
  <2>3. UNCHANGED call /\ hand' = Idle
    BY <1>5 DEF Records
  <2> QED
    BY <1>0, <2>1, <2>2, <2>3, ReportedSessions
<1>6. CASE Ends
  BY <1>0, <1>6, EndsSessions
<1> QED
  BY <1>0, <1>2, <1>3, <1>4, <1>5, <1>6

--------------------------------------------------------------------------------
(* The invariant and what follows from it.                                  *)

LEMMA InitHolds == Init => IndInv
<1> SUFFICES ASSUME Init PROVE IndInv
  OBVIOUS
<1> USE DEF Init
<1>0. NQueues \in Nat \ {0} /\ MaxFaults \in Nat /\ Queues = 1 .. NQueues
  BY QueueAssumption DEF Queues
<1>1. /\ hand.stage = "idle" /\ Len(fifo) = 0 /\ Places = {}
      /\ \A q : JobsOf(q) = {}
  BY DEF Idle, Places, JobsOf
<1>2. \A q \in Queues : queue[q] = Fresh /\ reports[q] = <<>> /\ Len(reports[q]) = 0
  OBVIOUS
<1>3. TypeOK
  <2>1. Fresh \in QueueFields
    BY DEF Fresh, QueueFields
  <2>2. hand \in [stage : {"idle", "stopped", "gate", "execute"}, task : Tasks,
                  attempt : Nat]
    BY TaskFacts DEF Idle
  <2>3. reports \in [Queues -> Seq([seq : Nat, status : {"delivered", "skipped"}])]
    OBVIOUS
  <2>4. queue \in [Queues -> QueueFields]
    BY <2>1
  <2>5. /\ main \in MainStates /\ at \in 1 .. NQueues + 1
        /\ phase \in Phases /\ closes \in 0 .. 2
        /\ faults \in 0 .. MaxFaults
    <3>1. /\ main = "open" /\ at = 1 /\ phase = "opening"
          /\ closes = 0 /\ faults = 0
      OBVIOUS
    <3> HIDE DEF Init
    <3> QED
      BY <1>0, <3>1 DEF MainStates, Phases
  <2>6. /\ shut \subseteq Tasks /\ cancelled \subseteq Tasks
        /\ fifo \in Seq(Tasks) /\ call \in {"none", "ok", "failed"}
    <3>1. shut = {} /\ cancelled = {} /\ fifo = <<>> /\ call = "none"
      OBVIOUS
    <3> HIDE DEF Init
    <3> QED
      BY <3>1
  <2>7. held \in [Queues -> {"none", "session", "queue"}]
    OBVIOUS
  <2>8. session \in [Queues -> SessionStates]
    BY DEF SessionStates
  <2>9. executed \in [Queues -> SUBSET Nat]
    OBVIOUS
  <2>10. completed \in BOOLEAN /\ terminal \in BOOLEAN
    BY Zenon
  <2> HIDE DEF Init
  <2> QED
    BY <2>2, <2>3, <2>4, <2>5, <2>6, <2>7, <2>8, <2>9, <2>10 DEF TypeOK
<1>4. MainInv
  BY <1>0 DEF MainInv
<1>5. CallInv /\ StopInv /\ TaskInv
  BY <1>1 DEF CallInv, StopInv, TaskInv
<1>6. SessionInv /\ WaitInv
  BY <1>1, <1>2 DEF SessionInv, SessionOf, WaitInv, Fresh
<1>7. NoFrameLost
  <2>1. ASSUME NEW q \in Queues PROVE Frames(q)
    <3>1. /\ reports[q] = <<>> /\ Len(reports[q]) = 0 /\ JobsOf(q) = {}
          /\ queue[q].next = 0 /\ queue[q].pending = 0
      BY <1>1, <1>2, <2>1 DEF Fresh
    <3> QED
      BY <3>1 DEF Frames
  <2> QED
    BY <2>1, FramesAll
<1> QED
  BY <1>3, <1>4, <1>5, <1>6, <1>7 DEF IndInv

LEMMA StepHolds == IndInv /\ [Next]_vars => IndInv'
<1> SUFFICES ASSUME IndInv, [Next]_vars PROVE IndInv'
  OBVIOUS
<1>1. CASE MainStep
  <2>1. TypeOK /\ MainInv /\ SessionInv /\ WaitInv
    BY DEF IndInv
  <2> QED
    BY <1>1, <2>1, MainTypeOK, MainPosition, MainSessions, MainTasks, MainFrames
    DEF IndInv
<1>2. CASE Worker
  BY <1>2, WorkerTypeOK, WorkerPosition, WorkerSessions, WorkerTasks, WorkerFrames
  DEF IndInv
<1>3. CASE UNCHANGED vars
  <2>1. /\ UNCHANGED <<main, at, phase, completed, closes, held, queue, reports, shut,
                       cancelled, fifo, hand, call, terminal, session, executed, faults>>
    BY <1>3 DEF vars, publisher, gates, provider
  <2>2. Places' = Places /\ \A i : TaskAt(i)' = TaskAt(i)
    BY <2>1 DEF Places, TaskAt
  <2>3. \A q : JobsOf(q)' = JobsOf(q)
    BY <2>2 DEF JobsOf
  <2>4. CallInv' /\ StopInv' /\ TaskInv'
    BY <2>1, <2>2 DEF IndInv, CallInv, StopInv, TaskInv
  <2>5. NoFrameLost'
    BY <2>1, <2>2, <2>3 DEF IndInv, NoFrameLost
  <2>6. TypeOK' /\ MainInv' /\ SessionInv' /\ WaitInv'
    BY <2>1 DEF IndInv, TypeOK, MainInv, SessionInv, SessionOf, WaitInv, Sealed
  <2> QED
    BY <2>4, <2>5, <2>6 DEF IndInv
<1> QED
  BY <1>1, <1>2, <1>3 DEF Next, MainStep

\* The inductive invariant of the main thread, the worker thread and the providers
\* (_observer_runtime.py with the publisher of _runtime_consumers.py): where both
\* threads are, which tasks wait and how far each session is.
THEOREM Invariance == Spec => []IndInv
  BY InitHolds, StepHolds, PTL DEF Spec

\* Type correctness of the post-commit queues and their worker.
THEOREM TypeCorrect == Spec => []TypeOK
<1>1. IndInv => TypeOK
  BY DEF IndInv
<1> QED
  BY <1>1, Invariance, PTL

\* PostCommitObserverQueue loses, repeats and reorders no frame between submit and
\* its terminal report, whatever fails, and _pending counts what is on the way.
THEOREM NoFrameIsLost == Spec => []NoFrameLost
<1>1. IndInv => NoFrameLost
  BY DEF IndInv
<1> QED
  BY <1>1, Invariance, PTL

\* PostCommitObserverWorker._run leaves its loop only with an empty FIFO and with
\* every accepted frame reported: Stop is its last task, poisoned or not.
THEOREM WorkerDrains == Spec => []StoppedIsDrained
<1>1. IndInv => StoppedIsDrained
  <2> SUFFICES ASSUME IndInv, hand = Stopped
               PROVE  fifo = <<>> /\ \A q \in Queues : queue[q].pending = 0
    BY DEF StoppedIsDrained
  <2>1. hand.stage = "stopped" /\ fifo = <<>>
    BY DEF Stopped, Idle, IndInv, StopInv
  <2>2. \A q : JobsOf(q) = {}
    BY <2>1 DEF Places, JobsOf
  <2>3. ASSUME NEW q \in Queues PROVE queue[q].pending = 0
    <3>1. Frames(q) /\ Len(reports[q]) \in Nat /\ queue[q].next \in Nat
          /\ queue[q].pending \in Nat
      BY <2>3, FramesAll, ReportFacts DEF IndInv
    <3>2. {TaskAt(i).seq : i \in JobsOf(q)} = {}
      BY <2>2
    <3>3. Len(reports[q]) .. queue[q].next - 1 = {}
      BY <3>1, <3>2 DEF Frames
    <3>4. PICK a \in Nat, c \in Int : a = Len(reports[q]) /\ c = queue[q].next - 1
      BY <3>1
    <3>5. \A i \in Int : ~(a <= i /\ i <= c)
      <4>1. a .. c = {}
        BY <3>3, <3>4
      <4> QED
        BY <4>1
    <3> QED
      BY <3>1, <3>4, <3>5 DEF Frames
  <2> QED
    BY <2>1, <2>3
<1> QED
  BY <1>1, Invariance, PTL

\* What a step does to a provider session, as SessionDiscipline allows it.
SessionStep ==
    \A q \in Queues :
        /\ executed'[q] # executed[q] => session[q] = "live"
        /\ session'[q] # session[q] =>
              <<session[q], session'[q]>> \in
                  {<<"new", "live">>, <<"new", "torn">>, <<"new", "aborted">>,
                   <<"live", "finalized">>, <<"live", "aborted">>,
                   <<"torn", "aborted">>}

LEMMA SessionSteps == IndInv /\ [Next]_vars => [SessionStep]_vars
<1> SUFFICES ASSUME IndInv, Next PROVE SessionStep
  OBVIOUS
<1> USE DEF IndInv
<1>1. CASE MainStep
  BY <1>1, MainKinds DEF SessionStep
<1>2. CASE Worker
  <2>1. \A q \in Queues : SessionOf(q)
    BY DEF SessionInv
  <2>2. ASSUME NEW q \in Queues, executed'[q] # executed[q] PROVE session[q] = "live"
    <3>1. Delivers
      BY <1>2, <2>2, WorkerExecuted
    <3>2. hand.stage = "execute" /\ hand.task.queue = q
      BY <2>2, <3>1 DEF Delivers, TypeOK
    <3> QED
      BY <2>1, <2>2, <3>2 DEF SessionOf
  <2>3. ASSUME NEW q \in Queues, session'[q] # session[q]
        PROVE  <<session[q], session'[q]>> \in
                  {<<"new", "live">>, <<"new", "torn">>, <<"new", "aborted">>,
                   <<"live", "finalized">>, <<"live", "aborted">>,
                   <<"torn", "aborted">>}
    <3>0. session \in [Queues -> SessionStates] /\ session' # session
      BY <2>3 DEF TypeOK
    <3>1. Records \/ Ends
      BY <1>2, <3>0, WorkerKinds DEF Takes, Stops, Fails, Proceeds
    <3>2. CASE Records
      <4>1. PICK p \in Queues :
               hand.task.queue = p /\ session' = [session EXCEPT ![p] = "aborted"]
        BY <3>0, <3>2 DEF Records
      <4>2. hand.stage = "execute"
        BY <3>0, <3>2 DEF Records
      <4>3. q = p /\ session'[q] = "aborted"
        BY <2>3, <3>0, <4>1
      <4>4. session[q] = "live"
        BY <2>1, <4>1, <4>2, <4>3 DEF SessionOf
      <4> QED
        BY <4>3, <4>4
    <3>3. CASE Ends
      <4>1. /\ call = "none" /\ at \in Queues /\ main \in Lifecycle /\ ~Sealed
            /\ \/ session' = [session EXCEPT ![at] = AfterCall[main]]
               \/ session' = [session EXCEPT ![at] =
                                 IF main = "initialize" THEN "torn" ELSE @]
        BY <3>3, EndsAtMain
      <4>2. /\ q = at
            /\ \/ session'[q] = AfterCall[main]
               \/ main = "initialize" /\ session'[q] = "torn"
        BY <2>3, <3>0, <4>1
      <4>3. CASE main = "initialize"
        BY <4>1, <4>2, <4>3 DEF WaitInv, AfterCall
      <4>4. CASE main = "finalize"
        BY <4>1, <4>2, <4>4 DEF WaitInv, AfterCall
      <4>5. CASE main = "abort"
        <5>1. session'[q] = "aborted"
          BY <4>2, <4>5 DEF AfterCall
        <5>2. session[q] # "finalized"
          BY <2>1, <4>1, <4>2, <4>5 DEF SessionOf, MainInv
        <5>3. session[q] \in {"new", "live", "torn"}
          BY <2>3, <3>0, <5>1, <5>2 DEF SessionStates
        <5> QED
          BY <5>1, <5>3
      <4> QED
        BY <4>1, <4>3, <4>4, <4>5 DEF Lifecycle
    <3> QED
      BY <3>1, <3>2, <3>3
  <2> QED
    BY <2>2, <2>3 DEF SessionStep
<1> QED
  BY <1>1, <1>2 DEF Next, MainStep

\* _initialize_session, _deliver, _finalize_session and the abort lead every provider
\* session once from its opening to its end, whatever the two threads do meanwhile.
THEOREM SessionsLiveOnce == Spec => SessionDiscipline
<1>1. IndInv /\ [Next]_vars => [SessionStep]_vars
  BY SessionSteps
<1>2. Spec => [][SessionStep]_vars
  BY <1>1, Invariance, PTL DEF Spec
<1> QED
  BY <1>2 DEF SessionStep, SessionDiscipline

--------------------------------------------------------------------------------
(***************************************************************************)
(* The worker of a collective monitor.  Under MPI every rank has a queue   *)
(* and a worker, and the workers call one collective provider:             *)
(* ObserverLane, whose names differ from those of the queues.               *)
(***************************************************************************)
OperationStages == {"initialize", "deliver", "finalize", "abort"}

Owning == {"health", "route", "prepareClose", "prepareAbort",
           "admitFinalize", "admitAbort", "finalize", "abort"}

\* All main threads are in the same stage, and the stage goes with the phase of the run.
StageInv ==
    /\ \A r, q \in Ranks : stage[r] = stage[q]
    /\ \A r \in Ranks :
          /\ lanePhase = "opening" <=> stage[r] \in OpeningStages
          /\ lanePhase = "open" <=> stage[r] \in FrameStages \cup {"run"}
          /\ lanePhase = "closed" => stage[r] = "ended"
          /\ stage[r] \in {"route", "prepareClose", "admitFinalize", "finalize"} =>
                lanePhase = "closing_open"
    /\ laneCompleted => lanePhase \in {"closing_open", "closed"}
    /\ lanePhase \in {"opening", "open"} => laneCloses = 0

\* What the ranks hold: all or none of them something in every stage that depends on it.
OwnerInv ==
    /\ \A r \in Ranks :
          /\ stage[r] = "queue" /\ arrived[r] /\ ~bad[r] => owner[r] = "queue"
          /\ stage[r] \in {"enqueue", "initialize"} => owner[r] = "queue"
          /\ lanePhase = "open" => owner[r] = "queue"
          /\ stage[r] \in {"admitFinalize", "admitAbort", "finalize", "abort"} =>
                owner[r] # "none"
    /\ lanePhase = "closing_open" =>
          (\A r \in Ranks : owner[r] = "queue") \/ (\A r \in Ranks : owner[r] = "none")
    /\ \A r, q \in Ranks : stage[r] \in Owning /\ owner[r] = "none" => owner[q] = "none"

\* A worker is busy only with the armed task of the operation its rank waits for.
LaneTaskInv ==
    \A r \in Ranks :
        /\ worker[r] \notin {"idle", "stopped"} => task[r] # "none" /\ gate[r] = "armed"
        /\ worker[r] = "barrier" => task[r] = "initialize"
        /\ worker[r] \in {"frame", "acknowledge", "acknowledged"} => task[r] = "execute"
        /\ task[r] # "none" /\ gate[r] = "armed" =>
              ~arrived[r] /\ stage[r] \in OperationStages
        /\ stage[r] \in OperationStages /\ task[r] # "none" =>
              /\ ~arrived[r] /\ gate[r] # "cancelled"
              /\ stage[r] = (CASE task[r] = "execute" -> "deliver" [] OTHER -> task[r])
        /\ stage[r] \in AdmissionStages /\ arrived[r] /\ ~bad[r] =>
              task[r] = OperationOf(stage[r]) /\ gate[r] = "shut"

\* The rank has still to enter the provider for the operation in progress.
WillEnter(r) ==
    \/ worker[r] = "provider"
    \/ /\ stage[r] \in Farewells /\ task[r] # "none"
       /\ worker[r] \in {"idle", "stopped"}

Behind(r, q) ==
    WillEnter(r) /\ ~WillEnter(q) /\ entered[q] = Append(entered[r], task[r])

\* Two ranks have entered the same, or one of them has the last operation before it.
EntryInv ==
    \A r, q \in Ranks :
        \/ entered[r] = entered[q] /\ (WillEnter(r) <=> WillEnter(q))
        \/ Behind(r, q) \/ Behind(q, r)

Said(r, op) == \E i \in DOMAIN entered[r] : entered[r][i] = op
SaidNothing(r) == \A op \in Farewells : ~Said(r, op)

\* A farewell is said once, at a close, and never when another one may come.
SaidInv ==
    \A r \in Ranks :
        /\ lanePhase \in {"opening", "open"} => SaidNothing(r)
        /\ stage[r] \in {"admitFinalize", "admitAbort"} => SaidNothing(r)
        /\ WillEnter(r) => SaidNothing(r)
        /\ \A i, j \in DOMAIN entered[r] :
              entered[r][i] \in Farewells /\ entered[r][j] \in Farewells => i = j

\* After a farewell the ranks have given up what they hold, or its retry is blocked.
KeptInv ==
    \A r \in Ranks :
        /\ Said(r, "finalize") => lanePhase \in {"closing_open", "closed"}
        /\ Said(r, "abort") /\ lanePhase = "closing_opening" =>
              stage[r] \in {"abort", "seal", "workerClose", "laneClose", "ended"}
        /\ \A op \in Farewells : Said(r, op) =>
              /\ stage[r] \in Farewells => stage[r] = op
              /\ \/ stage[r] = op
                 \/ \A q \in Ranks : owner[q] = "none"
                 \/ \A q \in Ranks : op \in blocked[q]

\* A run that finalizes has no error but a lost lane; one that aborts has an error.
RouteInv ==
    \A r \in Ranks :
        /\ stage[r] \in {"admitFinalize", "finalize"} \/ Said(r, "finalize") =>
              \A q \in Ranks : error[q] => lost[q]
        /\ /\ stage[r] \in {"prepareAbort", "admitAbort", "abort"} \/ Said(r, "abort")
           /\ lanePhase = "closing_open"
           => \E q \in Ranks : error[q]

\* What a rank brings to the consensus on the preparation of a close.
ReadyInv ==
    \A r \in Ranks : arrived[r] =>
        /\ stage[r] = "prepareClose" /\ ("finalize" \in blocked[r] \/ error[r]) => bad[r]
        /\ stage[r] = "prepareAbort" /\ ("abort" \in blocked[r] \/ lost[r]) => bad[r]

FarewellInv == SaidInv /\ KeptInv /\ RouteInv /\ ReadyInv

LaneInv ==
    /\ LaneTypeOK /\ StageInv /\ OwnerInv /\ LaneTaskInv /\ EntryInv /\ FarewellInv

--------------------------------------------------------------------------------
(* Steps of the main threads that bring a row to the exchange of the stage.   *)

Assembled == \A r \in Ranks : stage[r] \in {"run", "ended"} \/ arrived[r]

LEMMA AssembledFacts ==
    ASSUME LaneTypeOK, LaneTaskInv, EntryInv, Assembled
    PROVE  /\ \A r \in Ranks : ~(task[r] # "none" /\ gate[r] = "armed")
           /\ \A r \in Ranks : worker[r] \in {"idle", "stopped"}
           /\ \A r \in Ranks : ~WillEnter(r)
           /\ \A r, q \in Ranks : entered[r] = entered[q]
<1>1. ASSUME NEW r \in Ranks
      PROVE  /\ ~(task[r] # "none" /\ gate[r] = "armed")
             /\ worker[r] \in {"idle", "stopped"} /\ ~WillEnter(r)
  <2>1. ~(task[r] # "none" /\ gate[r] = "armed")
    BY DEF LaneTaskInv, Assembled, OperationStages
  <2>2. worker[r] \in {"idle", "stopped"}
    BY <2>1 DEF LaneTaskInv
  <2>3. stage[r] \in Farewells => task[r] = "none"
    BY DEF LaneTaskInv, Assembled, OperationStages, Farewells
  <2> QED
    BY <2>1, <2>2, <2>3 DEF WillEnter
<1>2. \A r, q \in Ranks : entered[r] = entered[q]
  BY <1>1 DEF EntryInv, Behind
<1> QED
  BY <1>1, <1>2

\* Entries are kept by a step that changes neither them nor who is still to enter.
LEMMA EntryKept ==
    ASSUME EntryInv, entered' = entered,
           \A r \in Ranks : WillEnter(r)' <=> WillEnter(r),
           \A r \in Ranks : WillEnter(r) => task'[r] = task[r]
    PROVE  EntryInv'
  BY DEF EntryInv, Behind

LEMMA StageKept ==
    ASSUME StageInv, UNCHANGED <<stage, lanePhase, laneCompleted, laneCloses>>
    PROVE  StageInv'
  BY DEF StageInv

LEMMA OwnerKept ==
    ASSUME OwnerInv, UNCHANGED <<stage, lanePhase, arrived, bad, owner>>
    PROVE  OwnerInv'
  BY DEF OwnerInv

LEMMA ArriveTask ==
    ASSUME LaneTypeOK, LaneTaskInv, EntryInv, NEW r \in Ranks, NEW b \in BOOLEAN, Arrive(r, b),
           stage[r] \notin AdmissionStages,
           stage[r] \in OperationStages => task[r] = "none",
           UNCHANGED <<task, gate, worker, entered>>
    PROVE  LaneTaskInv' /\ EntryInv'
<1>1. \A q \in Ranks : WillEnter(q)' <=> WillEnter(q)
  BY DEF WillEnter, Arrive
<1>2. EntryInv'
  BY <1>1, EntryKept
<1>3. LaneTaskInv'
  <2> SUFFICES ASSUME NEW q \in Ranks PROVE LaneTaskInv!(q)'
    BY DEF LaneTaskInv
  <2>1. LaneTaskInv!(q)
    BY DEF LaneTaskInv
  <2>2. q # r => arrived'[q] = arrived[q] /\ bad'[q] = bad[q]
    BY DEF Arrive, LaneTypeOK
  <2>3. CASE q = r
    BY <2>1, <2>3 DEF Arrive, LaneTypeOK, LaneTaskInv
  <2>4. CASE q # r
    BY <2>1, <2>2, <2>4 DEF Arrive
  <2> QED
    BY <2>3, <2>4
<1> QED
  BY <1>2, <1>3

LEMMA ArriveOwner ==
    ASSUME LaneTypeOK, OwnerInv, NEW r \in Ranks, NEW b \in BOOLEAN, Arrive(r, b),
           stage[r] # "queue", UNCHANGED <<lanePhase, owner>>
    PROVE  OwnerInv'
<1>1. \A q \in Ranks : stage[q] = "queue" => arrived'[q] = arrived[q] /\ bad'[q] = bad[q]
  BY DEF Arrive, LaneTypeOK
<1> QED
  BY <1>1 DEF OwnerInv, Arrive

\* The farewells are kept by a step that changes no stage and enters no provider.
LEMMA FarewellKept ==
    ASSUME FarewellInv, UNCHANGED <<stage, lanePhase, owner, blocked, entered>>,
           \A r \in Ranks : WillEnter(r)' => WillEnter(r) \/ SaidNothing(r),
           \A q \in Ranks : error[q] => error'[q],
           \/ /\ lanePhase \in {"opening", "open"}
              /\ \A q \in Ranks : stage[q] \notin {"admitFinalize", "finalize"}
           \/ (\A q \in Ranks : error[q] => lost[q]) =>
                 (\A q \in Ranks : error'[q] => lost'[q]),
           ReadyInv'
    PROVE  FarewellInv'
<1>1. \A q \in Ranks : SaidNothing(q)' <=> SaidNothing(q)
  BY DEF SaidNothing, Said
<1>2. \A q \in Ranks : \A op \in Farewells : Said(q, op)' <=> Said(q, op)
  BY DEF Said
<1>3. SaidInv'
  BY <1>1 DEF FarewellInv, SaidInv
<1>4. KeptInv'
  BY <1>2 DEF FarewellInv, KeptInv, Farewells
<1>5. RouteInv'
  <2>1. lanePhase \in {"opening", "open"} => \A r \in Ranks : ~Said(r, "finalize")
    BY DEF FarewellInv, SaidInv, SaidNothing, Farewells
  <2> QED
    BY <1>2, <2>1 DEF FarewellInv, RouteInv, Farewells
<1> QED
  BY <1>3, <1>4, <1>5 DEF FarewellInv

LEMMA ArriveTypes ==
    ASSUME LaneTypeOK, NEW r \in Ranks, NEW b \in BOOLEAN, Arrive(r, b)
    PROVE  /\ stage' \in [Ranks -> Stages]
           /\ arrived' \in [Ranks -> BOOLEAN] /\ bad' \in [Ranks -> BOOLEAN]
  BY DEF LaneTypeOK, Arrive

\* A rank arrives that has nothing to do in the stage but to bring a row.
LEMMA RowStep ==
    ASSUME LaneInv, NEW r \in Ranks, NEW b \in BOOLEAN, Arrive(r, b),
           stage[r] \notin AdmissionStages \cup {"queue"},
           stage[r] \in OperationStages => task[r] = "none",
           stage[r] = "prepareClose" /\ ("finalize" \in blocked[r] \/ error[r]) => b,
           stage[r] = "prepareAbort" /\ ("abort" \in blocked[r] \/ lost[r]) => b,
           lane' \in [Ranks -> {"none", "active", "closed"}],
           laneFaults' \in 0 .. MaxLaneFaults,
           UNCHANGED <<run, owner, blocked, health, workers>>
    PROVE  LaneInv'
<1> USE DEF LaneInv, run, health, workers
<1>1. LaneTypeOK'
  BY ArriveTypes DEF LaneTypeOK
<1>2. StageInv'
  BY StageKept DEF Arrive
<1>3. OwnerInv'
  BY ArriveOwner
<1>4. LaneTaskInv' /\ EntryInv'
  BY ArriveTask
<1>5. ReadyInv'
  <2> SUFFICES ASSUME NEW q \in Ranks PROVE ReadyInv!(q)'
    BY DEF ReadyInv
  <2>1. CASE q = r
    BY <2>1 DEF Arrive, LaneTypeOK
  <2>2. CASE q # r
    <3>1. arrived'[q] = arrived[q] /\ bad'[q] = bad[q]
      BY <2>2 DEF Arrive, LaneTypeOK
    <3> QED
      BY <3>1 DEF Arrive, FarewellInv, ReadyInv
  <2> QED
    BY <2>1, <2>2
<1>6. \A q \in Ranks : WillEnter(q)' <=> WillEnter(q)
  BY DEF WillEnter, Arrive
<1>7. FarewellInv'
  BY <1>5, <1>6, FarewellKept DEF Arrive
<1> QED
  BY <1>1, <1>2, <1>3, <1>4, <1>7

LEMMA FaultFacts ==
    ASSUME LaneTypeOK, LaneFault \/ NoLaneFault
    PROVE  laneFaults' \in 0 .. MaxLaneFaults
  BY LaneAssumption DEF LaneTypeOK, LaneFault, NoLaneFault

LEMMA FlushStep ==
    ASSUME LaneInv, NEW r \in Ranks, Flush(r)
    PROVE  LaneInv'
<1>1. error[r] \in BOOLEAN
  BY DEF LaneInv, LaneTypeOK
<1>2. laneFaults' \in 0 .. MaxLaneFaults
  BY FaultFacts DEF LaneInv, Flush
<1> QED
  BY <1>1, <1>2, RowStep DEF Flush, Doing, AdmissionStages, LaneInv, LaneTypeOK, holdings

LEMMA InventoryStep ==
    ASSUME LaneInv, Inventory
    PROVE  LaneInv'
<1>1. laneFaults' \in 0 .. MaxLaneFaults
  BY FaultFacts DEF LaneInv, Inventory
<1>2. PICK r \in Ranks : Doing(r, stage[r]) /\ stage[r] \in {"preflight", "health", "route"}
                         /\ Arrive(r, FALSE)
  BY DEF Inventory, Exchange, Doing
<1> QED
  BY <1>1, <1>2, RowStep DEF Inventory, AdmissionStages, OperationStages, LaneInv,
     LaneTypeOK, holdings

LEMMA PrepareCloseStep ==
    ASSUME LaneInv, NEW r \in Ranks, PrepareClose(r)
    PROVE  LaneInv'
<1>1. laneFaults' \in 0 .. MaxLaneFaults
  BY FaultFacts DEF LaneInv, PrepareClose
<1>2. UNCHANGED <<run, owner, blocked, health, workers, lane>>
  BY DEF PrepareClose, holdings
<1>3. /\ ("finalize" \in blocked[r] \/ error[r]) \in BOOLEAN
      /\ ("abort" \in blocked[r] \/ lost[r]) \in BOOLEAN
  BY Zenon
<1>4. lane' \in [Ranks -> {"none", "active", "closed"}]
  BY <1>2 DEF LaneInv, LaneTypeOK
<1>5. CASE stage[r] = "prepareClose"
  BY <1>1, <1>2, <1>3, <1>4, <1>5, RowStep DEF PrepareClose, Doing, AdmissionStages,
     OperationStages
<1>6. CASE stage[r] = "prepareAbort"
  BY <1>1, <1>2, <1>3, <1>4, <1>6, RowStep DEF PrepareClose, Doing, AdmissionStages,
     OperationStages
<1> QED
  BY <1>5, <1>6 DEF PrepareClose, Doing

LEMMA CloseLaneStep ==
    ASSUME LaneInv, NEW r \in Ranks, CloseLane(r)
    PROVE  LaneInv'
<1>1. laneFaults' \in 0 .. MaxLaneFaults
  BY FaultFacts DEF LaneInv, CloseLane
<1>2. lane' \in [Ranks -> {"none", "active", "closed"}]
  BY DEF LaneInv, LaneTypeOK, CloseLane
<1>3. PICK b \in BOOLEAN : Arrive(r, b)
  BY DEF CloseLane
<1> QED
  BY <1>1, <1>2, <1>3, RowStep DEF CloseLane, Doing, AdmissionStages, OperationStages

LEMMA StopWorkerStep ==
    ASSUME LaneInv, NEW r \in Ranks, StopWorker(r)
    PROVE  LaneInv'
<1>1. laneFaults' \in 0 .. MaxLaneFaults
  BY FaultFacts DEF LaneInv, StopWorker
<1> QED
  BY <1>1, RowStep DEF StopWorker, Doing, AdmissionStages, OperationStages, LaneInv,
     LaneTypeOK, holdings

\* A rank arrives and its own health gets worse, outside the preparation of a close.
LEMMA SickRowStep ==
    ASSUME LaneInv, NEW r \in Ranks, NEW b \in BOOLEAN, Arrive(r, b),
           stage[r] \in {"initialize", "finalize", "abort", "seal"},
           task[r] = "none",
           error' \in [Ranks -> BOOLEAN], lost' \in [Ranks -> BOOLEAN],
           \A q \in Ranks : error[q] => error'[q],
           \/ stage[r] = "initialize"
           \/ \A q \in Ranks : lost[q] => lost'[q],
           \/ stage[r] = "initialize"
           \/ \A q \in Ranks : error'[q] => error[q] \/ lost'[q],
           UNCHANGED <<run, holdings, workers, laneFaults>>
    PROVE  LaneInv'
<1> USE DEF LaneInv, run, holdings, workers
<1>1. LaneTypeOK'
  BY ArriveTypes DEF LaneTypeOK
<1>2. StageInv'
  BY StageKept DEF Arrive
<1>3. OwnerInv'
  BY ArriveOwner
<1>4. LaneTaskInv' /\ EntryInv'
  BY ArriveTask DEF AdmissionStages
<1>5. ReadyInv'
  <2>1. \A q \in Ranks : stage[q] = stage[r]
    BY DEF StageInv
  <2> QED
    BY <2>1 DEF ReadyInv, Arrive
<1>6. \A q \in Ranks : WillEnter(q)' <=> WillEnter(q)
  BY DEF WillEnter, Arrive
<1>7. \/ /\ lanePhase \in {"opening", "open"}
         /\ \A q \in Ranks : stage[q] \notin {"admitFinalize", "finalize"}
      \/ (\A q \in Ranks : error[q] => lost[q]) =>
            (\A q \in Ranks : error'[q] => lost'[q])
  <2>1. CASE stage[r] = "initialize"
    BY <2>1 DEF StageInv, OpeningStages
  <2>2. CASE stage[r] # "initialize"
    BY <2>2
  <2> QED
    BY <2>1, <2>2
<1>8. FarewellInv'
  BY <1>5, <1>6, <1>7, FarewellKept DEF Arrive
<1> QED
  BY <1>1, <1>2, <1>3, <1>4, <1>8

\* One place of a Boolean function is raised.
LEMMA Raised ==
    ASSUME NEW f \in [Ranks -> BOOLEAN], NEW r \in Ranks, NEW b \in BOOLEAN,
           NEW g, g = [f EXCEPT ![r] = @ \/ b]
    PROVE  /\ g \in [Ranks -> BOOLEAN]
           /\ \A q \in Ranks : f[q] => g[q]
           /\ \A q \in Ranks : g[q] => f[q] \/ (q = r /\ b)
           /\ b => g[r]
<1>1. g[r] <=> f[r] \/ b
  OBVIOUS
<1>2. \A q \in Ranks : q # r => g[q] = f[q]
  OBVIOUS
<1>3. g \in [Ranks -> BOOLEAN]
  OBVIOUS
<1> QED
  BY <1>1, <1>2, <1>3

LEMMA CompleteInitializeStep ==
    ASSUME LaneInv, NEW r \in Ranks, CompleteInitialize(r)
    PROVE  LaneInv'
<1>1. (laneCall[r] = "failed") \in BOOLEAN
  BY Zenon
<1>2. error \in [Ranks -> BOOLEAN] /\ lost' \in [Ranks -> BOOLEAN]
  BY DEF LaneInv, LaneTypeOK, CompleteInitialize
<1>3. error' \in [Ranks -> BOOLEAN] /\ \A q \in Ranks : error[q] => error'[q]
  BY <1>1, <1>2, Raised DEF CompleteInitialize
<1> QED
  BY <1>1, <1>2, <1>3, SickRowStep DEF CompleteInitialize, Doing, NoLaneFault

LEMMA CompleteCloseStep ==
    ASSUME LaneInv, NEW r \in Ranks, CompleteClose(r)
    PROVE  LaneInv'
<1>1. (laneCall[r] = "failed") \in BOOLEAN
  BY Zenon
<1>2. error \in [Ranks -> BOOLEAN] /\ lost' \in [Ranks -> BOOLEAN] /\ lost' = lost
      /\ lost[r] \in BOOLEAN
  BY DEF LaneInv, LaneTypeOK, CompleteClose
<1>3. /\ error' \in [Ranks -> BOOLEAN] /\ \A q \in Ranks : error[q] => error'[q]
      /\ \A q \in Ranks : error'[q] => error[q] \/ lost'[q]
  BY <1>2, Raised DEF CompleteClose
<1> QED
  BY <1>1, <1>2, <1>3, SickRowStep DEF CompleteClose, Doing, NoLaneFault

LEMMA SealLocalStep ==
    ASSUME LaneInv, NEW r \in Ranks, SealLocal(r)
    PROVE  LaneInv'
<1>1. (owner[r] = "queue") \in BOOLEAN
  BY Zenon
<1>2. error \in [Ranks -> BOOLEAN] /\ lost \in [Ranks -> BOOLEAN]
  BY DEF LaneInv, LaneTypeOK
<1>3. /\ error' \in [Ranks -> BOOLEAN] /\ \A q \in Ranks : error[q] => error'[q]
      /\ \A q \in Ranks : error'[q] => error[q] \/ (q = r /\ owner[r] = "queue")
  BY <1>1, <1>2, Raised DEF SealLocal
<1>4. /\ lost' \in [Ranks -> BOOLEAN] /\ \A q \in Ranks : lost[q] => lost'[q]
      /\ owner[r] = "queue" => lost'[r]
  <2>1. lost' = [lost EXCEPT ![r] = @ \/ owner[r] = "queue"]
    BY DEF SealLocal
  <2>2. lost' \in [Ranks -> BOOLEAN] /\ \A q \in Ranks : lost[q] => lost'[q]
    BY <1>1, <1>2, <2>1, Raised
  <2>3. owner[r] = "queue" => lost'[r]
    BY <1>2, <2>1
  <2> QED
    BY <2>2, <2>3
<1>5. \A q \in Ranks : error'[q] => error[q] \/ lost'[q]
  BY <1>3, <1>4
<1> QED
  BY <1>3, <1>4, <1>5, SickRowStep DEF SealLocal, Doing, NoLaneFault

LEMMA ConstructStep ==
    ASSUME LaneInv, NEW r \in Ranks, Construct(r)
    PROVE  LaneInv'
<1> USE DEF LaneInv, run, health, workers
<1>0. /\ stage[r] \in {"lane", "session", "queue"} /\ ~arrived[r]
      /\ UNCHANGED <<run, blocked, health, workers>>
  BY DEF Construct, Doing
<1>1. PICK b \in BOOLEAN :
         /\ Arrive(r, b)
         /\ ~b /\ stage[r] = "queue" => owner' = [owner EXCEPT ![r] = "queue"]
         /\ owner' \in [Ranks -> {"none", "session", "queue"}]
         /\ lane' \in [Ranks -> {"none", "active", "closed"}]
  <2>1. owner \in [Ranks -> {"none", "session", "queue"}]
        /\ lane \in [Ranks -> {"none", "active", "closed"}]
    BY DEF LaneTypeOK
  <2> QED
    BY <2>1 DEF Construct, Doing
<1>2. laneFaults' \in 0 .. MaxLaneFaults
  BY FaultFacts DEF Construct
<1>3. LaneTypeOK'
  BY <1>0, <1>1, <1>2, ArriveTypes DEF LaneTypeOK
<1>4. StageInv'
  BY <1>0, <1>1, StageKept DEF Arrive
<1>5. lanePhase = "opening" /\ \A q \in Ranks : stage[q] = stage[r]
  BY <1>0 DEF StageInv, OpeningStages
<1>6. \A q \in Ranks : q # r => owner'[q] = owner[q] /\ arrived'[q] = arrived[q] /\ bad'[q] = bad[q]
  BY <1>0, <1>1 DEF Construct, Arrive, LaneTypeOK
<1>7. OwnerInv'
  <2>1. \A q \in Ranks : stage'[q] = "queue" /\ arrived'[q] /\ ~bad'[q] => owner'[q] = "queue"
    BY <1>1, <1>5, <1>6 DEF OwnerInv, Arrive, LaneTypeOK
  <2> QED
    BY <1>0, <1>1, <1>5, <2>1 DEF OwnerInv, Arrive, Owning
<1>8. LaneTaskInv' /\ EntryInv'
  BY <1>0, <1>1, ArriveTask DEF AdmissionStages, OperationStages
<1>9. FarewellInv'
  <2>1. \A q \in Ranks : SaidNothing(q)
    BY <1>5 DEF FarewellInv, SaidInv
  <2>2. /\ \A q \in Ranks : SaidNothing(q)' /\ ~Said(q, "finalize")' /\ ~Said(q, "abort")'
        /\ \A q \in Ranks : stage'[q] \in {"lane", "session", "queue"}
    BY <1>0, <1>1, <1>5, <2>1 DEF SaidNothing, Said, Farewells, Arrive
  <2>3. \A q \in Ranks : \A i, j \in DOMAIN entered'[q] :
           entered'[q][i] \in Farewells /\ entered'[q][j] \in Farewells => i = j
    BY <1>0 DEF FarewellInv, SaidInv
  <2> QED
    BY <2>2, <2>3 DEF FarewellInv, SaidInv, KeptInv, RouteInv, ReadyInv, Farewells
<1> QED
  BY <1>3, <1>4, <1>7, <1>8, <1>9

LEMMA PrepareStep ==
    ASSUME LaneInv, NEW r \in Ranks, Prepare(r)
    PROVE  LaneInv'
<1> USE DEF LaneInv, run, health, holdings
<1>0. /\ stage[r] \in AdmissionStages /\ ~arrived[r]
      /\ UNCHANGED <<run, holdings, health, worker, workerBad, laneBroken, entered>>
      /\ OperationOf(stage[r]) \in Operations
  BY DEF Prepare, Doing, AdmissionStages, OperationOf, Operations
<1>1. PICK b \in BOOLEAN :
         /\ Arrive(r, b)
         /\ \/ ~b /\ LaneEnqueue(r, OperationOf(stage[r]))
            \/ b /\ UNCHANGED <<task, gate, laneCall>>
  BY DEF Prepare, Doing
<1>2. laneFaults' \in 0 .. MaxLaneFaults
  BY FaultFacts DEF Prepare
<1>3. LaneTypeOK'
  <2>1. /\ task' \in [Ranks -> Operations \cup {"none"}]
        /\ gate' \in [Ranks -> {"shut", "armed", "cancelled"}]
        /\ laneCall' \in [Ranks -> {"none", "ok", "failed"}]
    <3>1. /\ task \in [Ranks -> Operations \cup {"none"}]
          /\ gate \in [Ranks -> {"shut", "armed", "cancelled"}]
          /\ laneCall \in [Ranks -> {"none", "ok", "failed"}]
      BY DEF LaneTypeOK
    <3> QED
      BY <1>0, <1>1, <3>1 DEF LaneEnqueue
  <2> QED
    BY <1>0, <1>1, <1>2, <2>1, ArriveTypes DEF LaneTypeOK
<1>4. StageInv'
  BY <1>0, <1>1, StageKept DEF Arrive
<1>5. OwnerInv'
  BY <1>0, <1>1, ArriveOwner DEF AdmissionStages
<1>6. /\ \A q \in Ranks : stage[q] = stage[r]
      /\ \A q \in Ranks : worker[q] \in {"idle", "stopped"}
      /\ \A q \in Ranks : ~WillEnter(q) /\ ~WillEnter(q)'
  <2>1. \A q \in Ranks : stage[q] = stage[r]
    BY DEF StageInv
  <2>2. \A q \in Ranks : worker[q] \in {"idle", "stopped"}
    BY <1>0, <2>1 DEF LaneTaskInv, AdmissionStages, OperationStages
  <2> QED
    BY <1>0, <1>1, <2>1, <2>2 DEF WillEnter, Farewells, AdmissionStages, Arrive
<1>7. LaneTaskInv'
  <2> SUFFICES ASSUME NEW q \in Ranks PROVE LaneTaskInv!(q)'
    BY DEF LaneTaskInv
  <2>1. LaneTaskInv!(q)
    BY DEF LaneTaskInv
  <2>2. stage'[q] = stage[r] /\ stage[r] \notin OperationStages /\ worker'[q] \in {"idle", "stopped"}
    BY <1>0, <1>1, <1>6 DEF Arrive, AdmissionStages, OperationStages
  <2>3. CASE q # r
    <3>1. /\ task'[q] = task[q] /\ gate'[q] = gate[q]
          /\ arrived'[q] = arrived[q] /\ bad'[q] = bad[q]
      BY <1>1, <2>3 DEF Arrive, LaneEnqueue, LaneTypeOK
    <3> QED
      BY <1>0, <1>6, <2>1, <2>2, <3>1
  <2>4. CASE q = r
    <3>1. CASE b
      <4>1. bad'[q] /\ task'[q] = task[q] /\ gate'[q] = gate[q]
        BY <1>1, <2>4, <3>1 DEF Arrive, LaneTypeOK
      <4> QED
        BY <2>1, <2>2, <2>4, <4>1
    <3>2. CASE ~b
      <4>1. task'[q] = OperationOf(stage[r]) /\ gate'[q] = "shut"
        BY <1>1, <2>4, <3>2 DEF LaneEnqueue, LaneTypeOK
      <4> QED
        BY <2>2, <4>1
    <3> QED
      BY <3>1, <3>2
  <2> QED
    BY <2>3, <2>4
<1>8. EntryInv'
  BY <1>0, <1>6, EntryKept
<1>9. ReadyInv'
  BY <1>0, <1>1, <1>6 DEF ReadyInv, AdmissionStages, Arrive
<1>10. FarewellInv'
  BY <1>0, <1>1, <1>6, <1>9, FarewellKept DEF Arrive
<1> QED
  BY <1>3, <1>4, <1>5, <1>7, <1>8, <1>10

--------------------------------------------------------------------------------
(* Steps of the worker threads.                                              *)

\* A step of the workers that enters no provider and leaves the health of the ranks.
LEMMA WorkerKept ==
    ASSUME LaneInv, LaneTypeOK', LaneTaskInv', UNCHANGED <<mainThreads, entered>>,
           \A r \in Ranks : WillEnter(r)' <=> WillEnter(r),
           \A r \in Ranks : WillEnter(r) => task'[r] = task[r],
           \A q \in Ranks : error[q] => error'[q],
           \/ lanePhase \in {"opening", "open"}
           \/ (\A q \in Ranks : error[q] => lost[q]) =>
                 (\A q \in Ranks : error'[q] => lost'[q]),
           \/ UNCHANGED health
           \/ \A q \in Ranks : stage[q] \in OperationStages
    PROVE  LaneInv'
<1> USE DEF LaneInv, mainThreads, control, run, holdings
<1>1. StageInv' /\ OwnerInv'
  BY StageKept, OwnerKept
<1>2. EntryInv'
  BY EntryKept
<1>3. ReadyInv'
  BY DEF FarewellInv, ReadyInv, health, OperationStages
<1>4. lanePhase \in {"opening", "open"} =>
         \A q \in Ranks : stage[q] \notin {"admitFinalize", "finalize"}
  BY DEF StageInv
<1>5. FarewellInv'
  BY <1>3, <1>4, FarewellKept
<1> QED
  BY <1>1, <1>2, <1>5

LEMMA TaskOne ==
    ASSUME LaneTaskInv, NEW r \in Ranks, UNCHANGED control, LaneTaskInv!(r)',
           \A q \in Ranks : q # r =>
               /\ task'[q] = task[q] /\ gate'[q] = gate[q] /\ worker'[q] = worker[q]
    PROVE  LaneTaskInv'
<1> SUFFICES ASSUME NEW q \in Ranks PROVE LaneTaskInv!(q)'
  BY DEF LaneTaskInv
<1>1. LaneTaskInv!(q)
  BY DEF LaneTaskInv
<1>2. CASE q # r
  BY <1>1, <1>2 DEF control
<1> QED
  BY <1>2

\* A busy worker has an armed task, and all ranks are in the stage of its operation.
LEMMA BusyFacts ==
    ASSUME LaneInv, NEW r \in Ranks, worker[r] \notin {"idle", "stopped"}
    PROVE  /\ task[r] # "none" /\ gate[r] = "armed" /\ ~arrived[r]
           /\ \A q \in Ranks : stage[q] = stage[r] /\ stage[q] \in OperationStages
           /\ stage[r] = (CASE task[r] = "execute" -> "deliver" [] OTHER -> task[r])
           /\ task[r] \in {"initialize", "execute"} => lanePhase \in {"opening", "open"}
<1> USE DEF LaneInv
<1>1. task[r] # "none" /\ gate[r] = "armed" /\ ~arrived[r] /\ stage[r] \in OperationStages
  BY DEF LaneTaskInv
<1>2. stage[r] = (CASE task[r] = "execute" -> "deliver" [] OTHER -> task[r])
  BY <1>1 DEF LaneTaskInv
<1>3. \A q \in Ranks : stage[q] = stage[r]
  BY DEF StageInv
<1>4. task[r] \in {"initialize", "execute"} => lanePhase \in {"opening", "open"}
  BY <1>2 DEF StageInv, OpeningStages, FrameStages
<1> QED
  BY <1>1, <1>2, <1>3, <1>4

LEMMA ArmStep ==
    ASSUME LaneInv, NEW r \in Ranks, Arm(r)
    PROVE  LaneInv'
<1> USE DEF LaneInv
<1>0. /\ gate' = [gate EXCEPT ![r] = "armed"] /\ task[r] # "none" /\ ~arrived[r]
      /\ stage[r] \in OperationStages
      /\ UNCHANGED <<control, run, holdings, health, task, worker, laneCall,
                     workerBad,
                     laneBroken, entered, laneFaults>>
  BY DEF Arm, Doing, OperationStages, NoLaneFault
<1>1. LaneTypeOK'
  BY <1>0 DEF LaneTypeOK, control, run, holdings, health
<1>2. \A q \in Ranks : WillEnter(q)' <=> WillEnter(q)
  BY <1>0 DEF WillEnter, control
<1>3. LaneTaskInv'
  <2>1. LaneTaskInv!(r)
    BY DEF LaneTaskInv
  <2>2. gate'[r] = "armed" /\ \A q \in Ranks : q # r => gate'[q] = gate[q]
    BY <1>0 DEF LaneTypeOK
  <2>3. LaneTaskInv!(r)'
    BY <1>0, <2>1, <2>2 DEF control, OperationStages, AdmissionStages
  <2> QED
    BY <1>0, <2>2, <2>3, TaskOne
<1> QED
  BY <1>0, <1>1, <1>2, <1>3, WorkerKept DEF mainThreads, health

LEMMA SkipTaskStep ==
    ASSUME LaneInv, NEW r \in Ranks, SkipTask(r)
    PROVE  LaneInv'
<1> USE DEF LaneInv
<1>0. /\ worker[r] = "idle" /\ task[r] # "none" /\ gate[r] = "cancelled"
      /\ task' = [task EXCEPT ![r] = "none"] /\ worker' = [worker EXCEPT ![r] = "idle"]
      /\ laneCall' = [laneCall EXCEPT ![r] = "failed"]
      /\ UNCHANGED <<mainThreads, health, gate, workerBad, laneBroken, entered,
                     laneFaults>>
  BY DEF SkipTask, EndTask, NoLaneFault
<1>1. LaneTypeOK'
  BY <1>0 DEF LaneTypeOK, mainThreads, control, run, holdings, health, WorkerStages
<1>2. /\ task'[r] = "none" /\ worker'[r] = "idle"
      /\ \A q \in Ranks : q # r => task'[q] = task[q] /\ worker'[q] = worker[q]
  BY <1>0 DEF LaneTypeOK
<1>3. ~WillEnter(r) /\ ~WillEnter(r)'
  BY <1>0, <1>2 DEF WillEnter, LaneTaskInv, Farewells, OperationStages
<1>4. \A q \in Ranks : WillEnter(q)' <=> WillEnter(q)
  BY <1>0, <1>2, <1>3 DEF WillEnter, mainThreads, control
<1>5. LaneTaskInv'
  <2>1. LaneTaskInv!(r)
    BY DEF LaneTaskInv
  <2>2. LaneTaskInv!(r)'
    BY <1>0, <1>2, <2>1 DEF mainThreads, control, AdmissionStages, OperationOf
  <2> QED
    BY <1>0, <1>2, <2>2, TaskOne DEF mainThreads
<1> QED
  BY <1>0, <1>1, <1>2, <1>3, <1>4, <1>5, WorkerKept DEF health

LEMMA StartTaskStep ==
    ASSUME LaneInv, NEW r \in Ranks, StartTask(r)
    PROVE  LaneInv'
<1> USE DEF LaneInv
<1>0. /\ worker[r] = "idle" /\ task[r] # "none" /\ gate[r] = "armed"
      /\ workerBad' = [workerBad EXCEPT ![r] = FALSE]
      /\ UNCHANGED <<mainThreads, health, task, gate, laneCall, laneBroken, entered,
                     laneFaults>>
  BY DEF StartTask, NoLaneFault
<1>1. PICK w \in {"barrier", "frame", "provider"} :
         /\ worker' = [worker EXCEPT ![r] = w]
         /\ w = "barrier" <=> task[r] = "initialize"
         /\ w = "frame" <=> task[r] = "execute"
  BY DEF StartTask
<1>2. LaneTypeOK'
  BY <1>0, <1>1 DEF LaneTypeOK, mainThreads, control, run, holdings, health,
     WorkerStages, LaneStages
<1>3. worker'[r] = w /\ \A q \in Ranks : q # r => worker'[q] = worker[q]
  BY <1>1 DEF LaneTypeOK
<1>4. /\ stage[r] = (CASE task[r] = "execute" -> "deliver" [] OTHER -> task[r])
      /\ stage[r] \in OperationStages /\ ~arrived[r]
  BY <1>0 DEF LaneTaskInv
<1>5. WillEnter(r)' <=> WillEnter(r)
  <2>1. task[r] \in Operations
    BY <1>0 DEF LaneTypeOK
  <2>2. stage[r] \in Farewells <=> w = "provider"
    BY <1>1, <1>4, <2>1 DEF Farewells, OperationStages, Operations
  <2> QED
    BY <1>0, <1>3, <2>2 DEF WillEnter, mainThreads, control
<1>6. \A q \in Ranks : WillEnter(q)' <=> WillEnter(q)
  BY <1>0, <1>3, <1>5 DEF WillEnter, mainThreads, control
<1>7. LaneTaskInv'
  <2>1. LaneTaskInv!(r)
    BY DEF LaneTaskInv
  <2>2. LaneTaskInv!(r)'
    BY <1>0, <1>1, <1>3, <2>1 DEF mainThreads, control
  <2> QED
    BY <1>0, <1>3, <2>2, TaskOne DEF mainThreads
<1> QED
  BY <1>0, <1>2, <1>6, <1>7, WorkerKept DEF health

\* All workers stand at the same busy point and take the same step together.
LEMMA TogetherTask ==
    ASSUME LaneTypeOK, LaneTaskInv, NEW w, NEW v, UNCHANGED <<mainThreads, gate>>,
           \A r \in Ranks : worker[r] = w, w \notin {"idle", "stopped"},
           worker' = Everywhere(v),
           \/ v = "idle" /\ task' = Everywhere("none")
           \/ task' = task /\ v \in {"provider", "agree"}
           \/ task' = task /\ v = "acknowledge" /\ \A r \in Ranks : task[r] = "execute"
    PROVE  LaneTaskInv'
<1> SUFFICES ASSUME NEW q \in Ranks PROVE LaneTaskInv!(q)'
  BY DEF LaneTaskInv
<1>1. LaneTaskInv!(q) /\ worker'[q] = v /\ worker[q] = w
  BY DEF LaneTaskInv, Everywhere
<1>2. stage'[q] = stage[q] /\ arrived'[q] = arrived[q] /\ bad'[q] = bad[q] /\ gate'[q] = gate[q]
  BY DEF mainThreads, control
<1>3. stage[q] \in OperationStages /\ ~arrived[q]
  BY <1>1
<1>4. CASE v = "idle" /\ task' = Everywhere("none")
  <2>1. task'[q] = "none"
    BY <1>4 DEF Everywhere
  <2> QED
    BY <1>1, <1>2, <1>3, <1>4, <2>1
<1>5. CASE task' = task /\ v \in {"provider", "agree", "acknowledge"}
          /\ (v = "acknowledge" => task[q] = "execute")
  BY <1>1, <1>2, <1>3, <1>5
<1> QED
  BY <1>4, <1>5

\* The barrier and the frame gate let all ranks into the provider, or none.
LEMMA AdmitStep ==
    ASSUME LaneInv, NEW w \in {"barrier", "frame"}, NEW v \in {"provider", "agree"},
           \A r \in Ranks : worker[r] = w, worker' = Everywhere(v),
           workerBad' \in [Ranks -> BOOLEAN], laneFaults' \in 0 .. MaxLaneFaults,
           UNCHANGED <<mainThreads, health, task, gate, laneCall, laneBroken, entered>>
    PROVE  LaneInv'
<1> USE DEF LaneInv
<1>1. LaneTypeOK'
  BY DEF LaneTypeOK, mainThreads, control, run, holdings, health, WorkerStages,
     LaneStages, Everywhere
<1>2. LaneTaskInv'
  BY TogetherTask
<1>3. /\ lanePhase \in {"opening", "open"}
      /\ \A r \in Ranks : stage[r] \in {"initialize", "deliver"}
  <2>1. PICK r \in Ranks : TRUE
    BY LaneAssumption
  <2>2. task[r] \in {"initialize", "execute"}
    BY DEF LaneTaskInv
  <2> QED
    BY <2>1, <2>2, BusyFacts
<1>4. \A r \in Ranks : ~WillEnter(r) /\ (WillEnter(r)' <=> v = "provider")
  BY <1>3 DEF WillEnter, Everywhere, Farewells, mainThreads, control
<1>5. EntryInv'
  BY <1>4 DEF EntryInv, Behind
<1>6. StageInv' /\ OwnerInv'
  BY StageKept, OwnerKept DEF mainThreads, control, run, holdings
<1>7. ReadyInv'
  BY DEF FarewellInv, ReadyInv, health, mainThreads, control, holdings
<1>8. \A r \in Ranks : SaidNothing(r)
  BY <1>3 DEF FarewellInv, SaidInv
<1>9. FarewellInv'
  BY <1>3, <1>7, <1>8, FarewellKept DEF health, mainThreads, control, run, holdings
<1> QED
  BY <1>1, <1>2, <1>5, <1>6, <1>9

LEMMA BarrierStep ==
    ASSUME LaneInv, Barrier
    PROVE  LaneInv'
<1>1. laneFaults' \in 0 .. MaxLaneFaults /\ workerBad' \in [Ranks -> BOOLEAN]
  BY FaultFacts DEF LaneInv, LaneTypeOK, Barrier
<1> QED
  BY <1>1, AdmitStep DEF Barrier

LEMMA FrameGateStep ==
    ASSUME LaneInv, FrameGate
    PROVE  LaneInv'
<1>1. laneFaults' \in 0 .. MaxLaneFaults
  BY FaultFacts DEF LaneInv, FrameGate
<1>2. workerBad' \in [Ranks -> BOOLEAN]
  BY DEF LaneInv, LaneTypeOK, FrameGate, Everywhere
<1> QED
  BY <1>1, <1>2, AdmitStep DEF FrameGate

LEMMA AgreementStep ==
    ASSUME LaneInv, Agreement
    PROVE  LaneInv'
<1> USE DEF LaneInv
<1>0. /\ \A r \in Ranks : worker[r] = "agree"
      /\ UNCHANGED <<mainThreads, health, gate, workerBad, laneBroken, entered,
                     laneFaults>>
  BY DEF Agreement, NoLaneFault
<1>1. PICK v \in {"idle", "acknowledge"} :
         /\ worker' = Everywhere(v)
         /\ \/ v = "idle" /\ task' = Everywhere("none")
            \/ task' = task /\ v = "acknowledge" /\ \A r \in Ranks : task[r] = "execute"
         /\ laneCall' \in [Ranks -> {"none", "ok", "failed"}]
  <2>1. laneCall \in [Ranks -> {"none", "ok", "failed"}]
    BY DEF LaneTypeOK
  <2> QED
    BY <2>1 DEF Agreement, Everywhere
<1>2. task' \in [Ranks -> Operations \cup {"none"}] /\ worker' \in [Ranks -> WorkerStages]
  BY <1>1 DEF LaneTypeOK, Everywhere, WorkerStages
<1>3. LaneTypeOK'
  BY <1>0, <1>1, <1>2 DEF LaneTypeOK, mainThreads, control, run, holdings, health
<1>4. LaneTaskInv'
  BY <1>0, <1>1, TogetherTask
<1>5. \A r \in Ranks : ~WillEnter(r) /\ ~WillEnter(r)'
  <2> TAKE r \in Ranks
  <2>1. ~WillEnter(r)
    BY <1>0 DEF WillEnter
  <2>2. worker'[r] = v /\ (v = "idle" => task'[r] = "none")
    BY <1>1 DEF Everywhere
  <2> QED
    BY <2>1, <2>2 DEF WillEnter
<1> QED
  BY <1>0, <1>3, <1>4, <1>5, WorkerKept DEF health

LEMMA AcknowledgeStep ==
    ASSUME LaneInv, NEW r \in Ranks, Acknowledge(r)
    PROVE  LaneInv'
<1> USE DEF LaneInv
<1>0. /\ worker[r] = "acknowledge" /\ worker' = [worker EXCEPT ![r] = "acknowledged"]
      /\ UNCHANGED <<mainThreads, health, task, gate, laneCall, laneBroken, entered>>
  BY DEF Acknowledge
<1>1. laneFaults' \in 0 .. MaxLaneFaults /\ workerBad' \in [Ranks -> BOOLEAN]
  <2>1. laneFaults' \in 0 .. MaxLaneFaults
    BY FaultFacts DEF Acknowledge
  <2>2. workerBad \in [Ranks -> BOOLEAN]
    BY DEF LaneTypeOK
  <2> QED
    BY <2>1, <2>2 DEF Acknowledge
<1>2. LaneTypeOK'
  BY <1>0, <1>1 DEF LaneTypeOK, mainThreads, control, run, holdings, health,
     WorkerStages, LaneStages
<1>3. worker'[r] = "acknowledged" /\ \A q \in Ranks : q # r => worker'[q] = worker[q]
  BY <1>0 DEF LaneTypeOK
<1>4. \A q \in Ranks : WillEnter(q)' <=> WillEnter(q)
  BY <1>0, <1>3 DEF WillEnter, mainThreads, control
<1>5. LaneTaskInv'
  <2>1. LaneTaskInv!(r)
    BY DEF LaneTaskInv
  <2>2. LaneTaskInv!(r)'
    BY <1>0, <1>3, <2>1 DEF mainThreads, control
  <2> QED
    BY <1>0, <1>3, <2>2, TaskOne DEF mainThreads
<1> QED
  BY <1>0, <1>2, <1>4, <1>5, WorkerKept DEF health

\* The job ends on all ranks; one worker may have failed after the last agreement.
LEMMA JobEndsStep ==
    ASSUME LaneInv, Acknowledged \/ \E r \in Ranks : JobRaises(r)
    PROVE  LaneInv'
<1> USE DEF LaneInv
<1>0. /\ \A r \in Ranks : worker[r] = "acknowledged"
      /\ task' = Everywhere("none") /\ worker' = Everywhere("idle")
      /\ UNCHANGED <<mainThreads, lost, gate, laneCall, workerBad, laneBroken, entered>>
  BY DEF Acknowledged, JobRaises, health
<1>1. laneFaults' \in 0 .. MaxLaneFaults
  BY FaultFacts DEF Acknowledged, JobRaises
<1>2. error' \in [Ranks -> BOOLEAN] /\ \A q \in Ranks : error[q] => error'[q]
  <2>1. error \in [Ranks -> BOOLEAN]
    BY DEF LaneTypeOK
  <2> QED
    BY <2>1 DEF Acknowledged, JobRaises, health
<1>3. task' \in [Ranks -> Operations \cup {"none"}] /\ worker' \in [Ranks -> WorkerStages]
  BY <1>0 DEF Everywhere, WorkerStages
<1>4. LaneTypeOK'
  BY <1>0, <1>1, <1>2, <1>3 DEF LaneTypeOK, mainThreads, control, run, holdings
<1>5. LaneTaskInv'
  BY <1>0, TogetherTask
<1>6. \A q \in Ranks : ~WillEnter(q) /\ ~WillEnter(q)'
  BY <1>0 DEF WillEnter, Everywhere
<1>7. lanePhase \in {"opening", "open"} /\ \A q \in Ranks : stage[q] \in OperationStages
  <2>1. PICK r \in Ranks : TRUE
    BY LaneAssumption
  <2>2. task[r] = "execute"
    BY <1>0 DEF LaneTaskInv
  <2> QED
    BY <1>0, <2>1, <2>2, BusyFacts
<1> QED
  BY <1>0, <1>2, <1>4, <1>5, <1>6, <1>7, WorkerKept

LEMMA LaneBreaksStep ==
    ASSUME LaneInv, LaneBreaks
    PROVE  LaneInv'
<1> USE DEF LaneInv
<1>1. laneFaults' \in 0 .. MaxLaneFaults
  BY FaultFacts DEF LaneBreaks
<1>2. /\ UNCHANGED <<mainThreads, health, task, gate, worker, laneCall, workerBad,
                     entered>>
      /\ laneBroken' = TRUE
  BY DEF LaneBreaks
<1>3. laneBroken' \in BOOLEAN
  BY <1>2, Zenon
<1>4. LaneTypeOK'
  BY <1>1, <1>2, <1>3 DEF LaneTypeOK, mainThreads, control, run, holdings, health
<1>5. LaneTaskInv'
  BY <1>2 DEF LaneTaskInv, mainThreads, control
<1>6. \A q \in Ranks : WillEnter(q)' <=> WillEnter(q)
  BY <1>2 DEF WillEnter, mainThreads, control
<1> QED
  BY <1>2, <1>4, <1>5, <1>6, WorkerKept DEF health

LEMMA WorkerStopsStep ==
    ASSUME LaneInv, NEW r \in Ranks, WorkerStops(r)
    PROVE  LaneInv'
<1> USE DEF LaneInv
<1>0. /\ worker[r] = "idle" /\ task[r] = "none"
      /\ worker' = [worker EXCEPT ![r] = "stopped"]
      /\ UNCHANGED <<mainThreads, health, task, gate, laneCall, workerBad,
                     laneBroken, entered, laneFaults>>
  BY DEF WorkerStops, NoLaneFault
<1>2. LaneTypeOK'
  BY <1>0 DEF LaneTypeOK, mainThreads, control, run, holdings, health, WorkerStages
<1>3. worker'[r] = "stopped" /\ \A q \in Ranks : q # r => worker'[q] = worker[q]
  BY <1>0 DEF LaneTypeOK
<1>4. \A q \in Ranks : WillEnter(q)' <=> WillEnter(q)
  BY <1>0, <1>3 DEF WillEnter, mainThreads, control
<1>5. LaneTaskInv'
  <2>1. LaneTaskInv!(r)
    BY DEF LaneTaskInv
  <2>2. LaneTaskInv!(r)'
    BY <1>0, <1>3, <2>1 DEF mainThreads, control
  <2> QED
    BY <1>0, <1>3, <2>2, TaskOne DEF mainThreads
<1> QED
  BY <1>0, <1>2, <1>4, <1>5, WorkerKept DEF health

LEMMA LaneRaisesStep ==
    ASSUME LaneInv, NEW r \in Ranks, LaneRaises(r)
    PROVE  LaneInv'
<1> USE DEF LaneInv
<1>0. /\ worker[r] \in LaneStages
      /\ lost' = [lost EXCEPT ![r] = TRUE]
      /\ error' = [error EXCEPT ![r] = @ \/ task[r] = "execute"]
      /\ task' = [task EXCEPT ![r] = "none"] /\ worker' = [worker EXCEPT ![r] = "idle"]
      /\ laneCall' = [laneCall EXCEPT ![r] = "failed"]
      /\ UNCHANGED <<mainThreads, gate, workerBad, laneBroken, entered, laneFaults>>
  BY DEF LaneRaises, EndTask, NoLaneFault
<1>1. /\ error \in [Ranks -> BOOLEAN] /\ lost \in [Ranks -> BOOLEAN]
      /\ (task[r] = "execute") \in BOOLEAN
  <2>1. (task[r] = "execute") \in BOOLEAN
    BY Zenon
  <2> QED
    BY <2>1 DEF LaneTypeOK
<1>2. /\ error' \in [Ranks -> BOOLEAN] /\ \A q \in Ranks : error[q] => error'[q]
      /\ \A q \in Ranks : error'[q] => error[q] \/ q = r
  BY <1>0, <1>1, Raised
<1>3. lost' \in [Ranks -> BOOLEAN] /\ lost'[r] /\ \A q \in Ranks : lost[q] => lost'[q]
  BY <1>0, <1>1
<1>4. LaneTypeOK'
  BY <1>0, <1>2, <1>3 DEF LaneTypeOK, mainThreads, control, run, holdings, WorkerStages
<1>5. /\ task'[r] = "none" /\ worker'[r] = "idle"
      /\ \A q \in Ranks : q # r => task'[q] = task[q] /\ worker'[q] = worker[q]
  BY <1>0 DEF LaneTypeOK
<1>6. \A q \in Ranks : stage[q] \in OperationStages
  BY <1>0, BusyFacts DEF LaneStages
<1>7. ~WillEnter(r) /\ ~WillEnter(r)'
  BY <1>0, <1>5 DEF WillEnter, LaneStages
<1>8. \A q \in Ranks : WillEnter(q)' <=> WillEnter(q)
  BY <1>0, <1>5, <1>7 DEF WillEnter, mainThreads, control
<1>9. LaneTaskInv'
  <2>1. stage'[r] \in OperationStages
    BY <1>0, <1>6 DEF mainThreads, control
  <2>2. LaneTaskInv!(r)'
    BY <1>5, <2>1 DEF AdmissionStages, OperationStages
  <2> QED
    BY <1>0, <1>5, <2>2, TaskOne DEF mainThreads
<1>10. (\A q \in Ranks : error[q] => lost[q]) => (\A q \in Ranks : error'[q] => lost'[q])
  BY <1>2, <1>3
<1> QED
  BY <1>0, <1>2, <1>4, <1>5, <1>6, <1>7, <1>8, <1>9, <1>10, WorkerKept

LEMMA EnteredFacts ==
    ASSUME NEW S, NEW s \in Seq(S), NEW x \in S
    PROVE  /\ Append(s, x) \in Seq(S) /\ Len(Append(s, x)) = Len(s) + 1
           /\ DOMAIN s = 1 .. Len(s) /\ Len(s) \in Nat
           /\ DOMAIN Append(s, x) = 1 .. Len(s) + 1
           /\ \A i \in 1 .. Len(s) : Append(s, x)[i] = s[i]
           /\ Append(s, x)[Len(s) + 1] = x
  OBVIOUS

\* The rank enters the provider: it catches up with the others or goes first.
LEMMA EnterEntry ==
    ASSUME LaneInv, NEW r \in Ranks, worker[r] = "provider",
           entered' = [entered EXCEPT ![r] = Append(@, task[r])],
           UNCHANGED stage, ~WillEnter(r)',
           \A q \in Ranks : q # r => task'[q] = task[q] /\ worker'[q] = worker[q]
    PROVE  EntryInv'
<1> USE DEF LaneInv
<1>1. /\ WillEnter(r) /\ task[r] \in Operations
      /\ \A q \in Ranks : q # r => (WillEnter(q)' <=> WillEnter(q)) /\ entered'[q] = entered[q]
      /\ entered'[r] = Append(entered[r], task[r])
  <2>1. task[r] \in Operations
    BY BusyFacts DEF LaneTypeOK
  <2> QED
    BY <2>1 DEF WillEnter, LaneTypeOK
<1>2. ASSUME NEW q \in Ranks, q # r
      PROVE  \/ entered'[q] = entered'[r] /\ ~WillEnter(q)'
             \/ Behind(q, r)'
  <2>1. CASE WillEnter(q)
    <3>1. task[q] = task[r]
      <4>1. stage[r] = (CASE task[r] = "execute" -> "deliver" [] OTHER -> task[r])
            /\ stage[q] = stage[r] /\ stage[q] \in OperationStages
        BY BusyFacts
      <4>2. task[q] # "none"
        BY <2>1, BusyFacts DEF WillEnter
      <4>3. stage[q] = (CASE task[q] = "execute" -> "deliver" [] OTHER -> task[q])
        BY <4>1, <4>2 DEF LaneTaskInv
      <4>4. task[q] \in Operations
        BY <4>2 DEF LaneTypeOK
      <4> QED
        BY <1>1, <4>1, <4>3, <4>4 DEF Operations
    <3>2. entered[q] = entered[r]
      BY <1>1, <2>1 DEF EntryInv, Behind
    <3> QED
      BY <1>1, <1>2, <2>1, <3>1, <3>2 DEF Behind
  <2>2. CASE ~WillEnter(q)
    <3>1. entered[q] = Append(entered[r], task[r])
      BY <1>1, <2>2 DEF EntryInv, Behind
    <3> QED
      BY <1>1, <1>2, <2>2, <3>1
  <2> QED
    BY <2>1, <2>2
<1>3. ASSUME NEW p \in Ranks, NEW q \in Ranks, p # r, q # r
      PROVE  \/ entered'[p] = entered'[q] /\ (WillEnter(p)' <=> WillEnter(q)')
             \/ Behind(p, q)' \/ Behind(q, p)'
  BY <1>1, <1>3 DEF EntryInv, Behind
<1> QED
  BY <1>2, <1>3 DEF EntryInv

\* The operation that is entered is the first farewell, or none at all.
LEMMA EnterFarewell ==
    ASSUME LaneInv, NEW r \in Ranks, worker[r] = "provider",
           entered' = [entered EXCEPT ![r] = Append(@, task[r])],
           UNCHANGED mainThreads, ~WillEnter(r)',
           \A q \in Ranks : q # r => task'[q] = task[q] /\ worker'[q] = worker[q],
           \A q \in Ranks : error[q] => error'[q],
           \/ lanePhase \in {"opening", "open"}
           \/ (\A q \in Ranks : error[q] => lost[q]) =>
                 (\A q \in Ranks : error'[q] => lost'[q])
    PROVE  FarewellInv'
<1> USE DEF LaneInv, mainThreads, control, run, holdings
<1>1. /\ WillEnter(r) /\ SaidNothing(r) /\ task[r] \in Operations
      /\ entered[r] \in Seq(Operations)
      /\ entered'[r] = Append(entered[r], task[r])
      /\ \A q \in Ranks : q # r => (WillEnter(q)' <=> WillEnter(q)) /\ entered'[q] = entered[q]
  <2>1. WillEnter(r) /\ SaidNothing(r)
    BY DEF WillEnter, FarewellInv, SaidInv
  <2>2. task[r] \in Operations /\ entered[r] \in Seq(Operations)
    BY BusyFacts DEF LaneTypeOK
  <2> QED
    BY <2>1, <2>2 DEF WillEnter, LaneTypeOK
<1>2. \A op \in Farewells : Said(r, op)' => op = task[r]
  <2> SUFFICES ASSUME NEW op \in Farewells, NEW i \in DOMAIN entered'[r], entered'[r][i] = op
               PROVE  op = task[r]
    BY DEF Said
  <2>1. i \in 1 .. Len(entered[r]) => entered[r][i] = op /\ i \in DOMAIN entered[r]
    BY <1>1, EnteredFacts
  <2>2. i \notin 1 .. Len(entered[r])
    BY <1>1, <2>1 DEF SaidNothing, Said
  <2> QED
    BY <1>1, <2>2, EnteredFacts
<1>3. \A q \in Ranks : q # r =>
         (SaidNothing(q)' <=> SaidNothing(q)) /\ \A op \in Farewells : Said(q, op)' <=> Said(q, op)
  BY <1>1 DEF SaidNothing, Said
<1>4. /\ \A q \in Ranks : stage[q] = stage[r] /\ stage[q] \in OperationStages
      /\ stage[r] = (CASE task[r] = "execute" -> "deliver" [] OTHER -> task[r])
      /\ task[r] \in {"initialize", "execute"} => lanePhase \in {"opening", "open"}
      /\ task[r] \in Farewells => lanePhase \notin {"opening", "open"} /\ stage[r] = task[r]
  <2>1. /\ \A q \in Ranks : stage[q] = stage[r] /\ stage[q] \in OperationStages
        /\ stage[r] = (CASE task[r] = "execute" -> "deliver" [] OTHER -> task[r])
        /\ task[r] \in {"initialize", "execute"} => lanePhase \in {"opening", "open"}
    BY BusyFacts
  <2> QED
    BY <2>1 DEF Farewells, StageInv, OpeningStages, FrameStages
<1>5. SaidInv'
  <2>1. ASSUME NEW i \in DOMAIN entered'[r], NEW j \in DOMAIN entered'[r],
               entered'[r][i] \in Farewells, entered'[r][j] \in Farewells
        PROVE  i = j
    <3>1. \A k \in 1 .. Len(entered[r]) : Append(entered[r], task[r])[k] \notin Farewells
      BY <1>1, EnteredFacts DEF SaidNothing, Said
    <3>2. /\ i \in 1 .. Len(entered[r]) + 1 /\ j \in 1 .. Len(entered[r]) + 1
          /\ i \notin 1 .. Len(entered[r]) /\ j \notin 1 .. Len(entered[r])
          /\ Len(entered[r]) \in Nat
      BY <1>1, <2>1, <3>1, EnteredFacts
    <3> QED
      BY <3>2
  <2>2. lanePhase \in {"opening", "open"} => SaidNothing(r)'
    BY <1>2, <1>4 DEF SaidNothing, Farewells
  <2>3. ASSUME NEW q \in Ranks, q # r PROVE SaidInv!(q)'
    BY <1>1, <1>3, <2>3 DEF FarewellInv, SaidInv
  <2>4. SaidInv!(r)'
    BY <1>4, <2>1, <2>2 DEF OperationStages
  <2> QED
    BY <2>3, <2>4 DEF SaidInv
<1>6. KeptInv'
  <2>1. ASSUME NEW q \in Ranks, q # r PROVE KeptInv!(q)'
    BY <1>3, <2>1 DEF FarewellInv, KeptInv, Farewells
  <2>2. KeptInv!(r)'
    <3>1. Said(r, "finalize")' => lanePhase' \in {"closing_open", "closed"}
      BY <1>2, <1>4 DEF StageInv, Farewells
    <3>2. \A op \in Farewells : Said(r, op)' => stage'[r] = op
      BY <1>2, <1>4 DEF Farewells
    <3> QED
      BY <3>1, <3>2 DEF Farewells
  <2> QED
    BY <2>1, <2>2 DEF KeptInv
<1>7. RouteInv'
  <2>1. \A op \in Farewells : Said(r, op)' => stage[r] = op
    BY <1>2, <1>4 DEF Farewells
  <2>2. \A q \in Ranks : Said(q, "finalize")' => Said(q, "finalize") \/ stage[q] = "finalize"
    BY <1>3, <2>1 DEF Farewells
  <2>3. \A q \in Ranks : Said(q, "abort")' => Said(q, "abort") \/ stage[q] = "abort"
    BY <1>3, <2>1 DEF Farewells
  <2>4. lanePhase \in {"opening", "open"} => \A q \in Ranks :
           ~Said(q, "finalize") /\ stage[q] \notin {"admitFinalize", "finalize"}
    BY DEF FarewellInv, SaidInv, SaidNothing, Farewells, StageInv
  <2> QED
    BY <2>2, <2>3, <2>4 DEF FarewellInv, RouteInv
<1>8. ReadyInv'
  BY <1>4 DEF ReadyInv, OperationStages
<1> QED
  BY <1>5, <1>6, <1>7, <1>8 DEF FarewellInv

LEMMA ProvideStep ==
    ASSUME LaneInv, NEW r \in Ranks, Provide(r) \/ ProviderLost(r)
    PROVE  LaneInv'
<1> USE DEF LaneInv
<1>0. /\ worker[r] = "provider"
      /\ entered' = [entered EXCEPT ![r] = Append(@, task[r])]
      /\ UNCHANGED <<mainThreads, gate>>
  BY DEF Provide, ProviderLost
<1>1. laneFaults' \in 0 .. MaxLaneFaults
  BY FaultFacts DEF Provide, ProviderLost
<1>2. PICK w \in {"idle", "agree"}, t \in {"none", task[r]}, c \in {laneCall[r], "ok", "failed"} :
         /\ worker' = [worker EXCEPT ![r] = w]
         /\ task' = [task EXCEPT ![r] = t] /\ laneCall' = [laneCall EXCEPT ![r] = c]
         /\ w = "idle" <=> t = "none"
  <2>1. task[r] # "none" /\ task = [task EXCEPT ![r] = task[r]] /\ laneCall = [laneCall EXCEPT ![r] = laneCall[r]]
    BY <1>0, BusyFacts DEF LaneTypeOK
  <2>2. CASE Provide(r) /\ task[r] # "abort"
    <3>1. worker' = [worker EXCEPT ![r] = "agree"] /\ task' = task /\ laneCall' = laneCall
      BY <2>2 DEF Provide
    <3> QED
      BY <2>1, <3>1
  <2>3. CASE ProviderLost(r) \/ (Provide(r) /\ task[r] = "abort")
    <3>1. PICK c \in {"ok", "failed"} : EndTask(r, c)
      BY <2>3 DEF ProviderLost, Provide
    <3> QED
      BY <3>1 DEF EndTask
  <2> QED
    BY <2>2, <2>3
<1>3. /\ error' \in [Ranks -> BOOLEAN] /\ lost' \in [Ranks -> BOOLEAN]
      /\ \A q \in Ranks : error[q] => error'[q]
      /\ (\A q \in Ranks : error[q] => lost[q]) => (\A q \in Ranks : error'[q] => lost'[q])
  <2>1. /\ error \in [Ranks -> BOOLEAN] /\ lost \in [Ranks -> BOOLEAN]
        /\ (task[r] = "execute") \in BOOLEAN
    <3>1. (task[r] = "execute") \in BOOLEAN
      BY Zenon
    <3> QED
      BY <3>1 DEF LaneTypeOK
  <2>2. CASE Provide(r)
    BY <2>1, <2>2 DEF Provide, health
  <2>3. CASE ProviderLost(r)
    <3>1. /\ lost' = [lost EXCEPT ![r] = TRUE]
          /\ error' = [error EXCEPT ![r] = @ \/ task[r] = "execute"]
      BY <2>3 DEF ProviderLost
    <3>2. /\ error' \in [Ranks -> BOOLEAN] /\ \A q \in Ranks : error[q] => error'[q]
          /\ \A q \in Ranks : error'[q] => error[q] \/ q = r
      BY <2>1, <3>1, Raised
    <3>3. lost' \in [Ranks -> BOOLEAN] /\ lost'[r] /\ \A q \in Ranks : lost[q] => lost'[q]
      BY <2>1, <3>1
    <3> QED
      BY <3>2, <3>3
  <2> QED
    BY <2>2, <2>3
<1>4. workerBad' \in [Ranks -> BOOLEAN] /\ laneBroken' \in BOOLEAN
  <2>1. workerBad \in [Ranks -> BOOLEAN] /\ laneBroken \in BOOLEAN
    BY DEF LaneTypeOK
  <2>2. workerBad' \in [Ranks -> BOOLEAN]
    BY <2>1 DEF Provide, ProviderLost
  <2>3. laneBroken' = laneBroken \/ laneBroken' = TRUE
    BY DEF Provide, ProviderLost
  <2>4. laneBroken' \in BOOLEAN
    BY <2>1, <2>3, Zenon
  <2> QED
    BY <2>2, <2>4
<1>5. /\ task' \in [Ranks -> Operations \cup {"none"}]
      /\ worker' \in [Ranks -> WorkerStages] /\ laneCall' \in [Ranks -> {"none", "ok", "failed"}]
  <2>1. /\ task \in [Ranks -> Operations \cup {"none"}]
        /\ worker \in [Ranks -> WorkerStages] /\ laneCall \in [Ranks -> {"none", "ok", "failed"}]
        /\ task[r] \in Operations \cup {"none"} /\ laneCall[r] \in {"none", "ok", "failed"}
        /\ w \in WorkerStages
    BY <1>2 DEF LaneTypeOK, WorkerStages, LaneStages
  <2> QED
    BY <1>2, <2>1
<1>6. entered' \in [Ranks -> Seq(Operations)]
  <2>1. task[r] \in Operations /\ entered \in [Ranks -> Seq(Operations)]
    BY <1>0, BusyFacts DEF LaneTypeOK
  <2>2. Append(entered[r], task[r]) \in Seq(Operations)
    BY <2>1, EnteredFacts
  <2> QED
    BY <1>0, <2>1, <2>2
<1>7. LaneTypeOK'
  BY <1>0, <1>1, <1>3, <1>4, <1>5, <1>6 DEF LaneTypeOK, mainThreads, control, run,
     holdings
<1>8. /\ task'[r] = t /\ worker'[r] = w
      /\ \A q \in Ranks : q # r => task'[q] = task[q] /\ worker'[q] = worker[q]
  BY <1>2 DEF LaneTypeOK
<1>9. ~WillEnter(r)'
  BY <1>2, <1>8 DEF WillEnter
<1>10. LaneTaskInv'
  <2>1. LaneTaskInv!(r) /\ stage[r] \in OperationStages /\ gate'[r] = "armed" /\ task[r] # "none"
    BY <1>0, BusyFacts DEF LaneTaskInv
  <2>2. LaneTaskInv!(r)'
    BY <1>0, <1>2, <1>8, <2>1 DEF mainThreads, control, AdmissionStages, OperationStages
  <2> QED
    BY <1>0, <1>8, <2>2, TaskOne DEF mainThreads
<1>11. EntryInv'
  BY <1>0, <1>8, <1>9, EnterEntry DEF mainThreads, control
<1>12. FarewellInv'
  BY <1>0, <1>3, <1>8, <1>9, EnterFarewell
<1>13. StageInv' /\ OwnerInv'
  BY <1>0, StageKept, OwnerKept DEF mainThreads, control, run, holdings
<1> QED
  BY <1>7, <1>10, <1>11, <1>12, <1>13

--------------------------------------------------------------------------------
(* Steps in which all main threads leave an exchange.                        *)

\* The workers, when the ranks go to a stage that waits for no operation.
LEMMA MoveTask ==
    ASSUME LaneTypeOK, LaneTaskInv, EntryInv, Assembled,
           NEW t \in Stages \ OperationStages, Leave(Everywhere(t)),
           UNCHANGED <<task, worker, entered>>, gate' = gate \/ CancelGates
    PROVE  /\ LaneTaskInv' /\ EntryInv'
           /\ \A r \in Ranks : ~WillEnter(r)'
<1>1. \A q \in Ranks : stage'[q] = t /\ arrived'[q] = FALSE
  BY DEF Leave, Everywhere
<1>2. /\ \A r \in Ranks : ~(task[r] # "none" /\ gate[r] = "armed")
      /\ \A r \in Ranks : worker[r] \in {"idle", "stopped"}
      /\ \A r \in Ranks : ~WillEnter(r)
      /\ \A r, q \in Ranks : entered[r] = entered[q]
  BY AssembledFacts
<1>3. \A r \in Ranks : ~(task'[r] # "none" /\ gate'[r] = "armed")
  BY <1>2 DEF CancelGates
<1>4. LaneTaskInv'
  BY <1>1, <1>2, <1>3 DEF LaneTaskInv
<1>5. \A r \in Ranks : ~WillEnter(r)'
  BY <1>1, <1>2 DEF WillEnter, Farewells, OperationStages
<1>6. EntryInv'
  BY <1>2, <1>5 DEF EntryInv
<1> QED
  BY <1>4, <1>5, <1>6

\* The farewells, when the ranks go to such a stage.
LEMMA MoveFarewell ==
    ASSUME FarewellInv, NEW t \in Stages \ OperationStages, Leave(Everywhere(t)),
           \A r \in Ranks : ~WillEnter(r)',
           UNCHANGED <<entered, health>>,
           lanePhase' \in {"opening", "open"} => lanePhase \in {"opening", "open"},
           lanePhase \in {"closing_open", "closed"} => lanePhase' \in {"closing_open", "closed"},
           lanePhase' = "closing_open" => lanePhase \in {"open", "closing_open"},
           lanePhase' = "closing_opening" =>
               \/ t \in {"seal", "workerClose", "laneClose", "ended"}
               \/ \A r \in Ranks : ~Said(r, "abort"),
           t \in {"admitFinalize", "admitAbort"} => \A r \in Ranks : SaidNothing(r),
           t = "admitFinalize" => \A q \in Ranks : error[q] => lost[q],
           t \in {"prepareAbort", "admitAbort"} /\ lanePhase' = "closing_open" =>
               \E q \in Ranks : error[q],
           \A r \in Ranks : \A op \in Farewells : Said(r, op) =>
               \/ \A q \in Ranks : owner'[q] = "none"
               \/ \A q \in Ranks : op \in blocked'[q]
    PROVE  FarewellInv'
<1> USE DEF health
<1>0. \A q \in Ranks : stage'[q] = t /\ arrived'[q] = FALSE
  BY DEF Leave, Everywhere
<1>1. \A q \in Ranks : SaidNothing(q)' <=> SaidNothing(q)
  BY DEF SaidNothing, Said
<1>2. \A q \in Ranks : \A op \in Farewells : Said(q, op)' <=> Said(q, op)
  BY DEF Said
<1>3. SaidInv'
  BY <1>0, <1>1 DEF FarewellInv, SaidInv
<1>4. KeptInv'
  BY <1>0, <1>2 DEF FarewellInv, KeptInv, Farewells, OperationStages
<1>5. RouteInv'
  <2>1. lanePhase = "open" => \A r \in Ranks : ~Said(r, "abort")
    BY DEF FarewellInv, SaidInv, SaidNothing, Farewells
  <2>2. \A r \in Ranks : stage'[r] \in {"admitFinalize", "finalize"} \/ Said(r, "finalize")' =>
           \A q \in Ranks : error'[q] => lost'[q]
    BY <1>0, <1>2 DEF FarewellInv, RouteInv, Farewells, OperationStages
  <2>3. ASSUME NEW r \in Ranks, lanePhase' = "closing_open",
               stage'[r] \in {"prepareAbort", "admitAbort", "abort"} \/ Said(r, "abort")'
        PROVE  \E q \in Ranks : error'[q]
    <3>1. CASE Said(r, "abort")'
      BY <1>2, <2>1, <2>3, <3>1 DEF FarewellInv, RouteInv, Farewells
    <3>2. CASE t \in {"prepareAbort", "admitAbort"}
      BY <2>3, <3>2
    <3> QED
      BY <1>0, <2>3, <3>1, <3>2 DEF OperationStages
  <2> QED
    BY <2>2, <2>3 DEF RouteInv
<1>6. ReadyInv'
  BY <1>0 DEF ReadyInv
<1> QED
  BY <1>3, <1>4, <1>5, <1>6 DEF FarewellInv

\* What was said before keeps a later close out when nothing is given up or unblocked.
LEMMA StillKept ==
    ASSUME FarewellInv, UNCHANGED <<owner, blocked>>,
           \A r \in Ranks : stage[r] \notin Farewells
    PROVE  \A r \in Ranks : \A op \in Farewells : Said(r, op) =>
               \/ \A q \in Ranks : owner'[q] = "none"
               \/ \A q \in Ranks : op \in blocked'[q]
  BY DEF FarewellInv, KeptInv

LEMMA LeaveTypes ==
    ASSUME NEW t \in Stages, Leave(Everywhere(t))
    PROVE  /\ stage' \in [Ranks -> Stages]
           /\ arrived' \in [Ranks -> BOOLEAN] /\ bad' \in [Ranks -> BOOLEAN]
           /\ \A q \in Ranks : stage'[q] = t /\ arrived'[q] = FALSE /\ bad'[q] = FALSE
<1>1. FALSE \in BOOLEAN
  OBVIOUS
<1> QED
  BY <1>1 DEF Leave, Everywhere

\* All ranks go to a stage that waits for no operation and keep what they hold.
LEMMA MoveStep ==
    ASSUME LaneInv, NEW t \in Stages \ OperationStages, Leave(Everywhere(t)), Assembled,
           \A r \in Ranks : stage[r] \notin Farewells,
           UNCHANGED <<owner, blocked, health, task, worker, laneCall, workerBad,
                       laneBroken,
                       entered, laneFaults>>,
           gate' = gate \/ CancelGates,
           lane' \in [Ranks -> {"none", "active", "closed"}],
           frames' \in 0 .. MaxLaneFrames, laneCloses' \in 0 .. 2, laneCompleted' \in BOOLEAN,
           lanePhase' \in {lanePhase, "open", "closing_opening", "closing_open", "closed"},
           lanePhase' \in {"opening", "open"} => lanePhase \in {"opening", "open"},
           lanePhase \in {"closing_open", "closed"} => lanePhase' \in {"closing_open", "closed"},
           lanePhase' = "closing_open" => lanePhase \in {"open", "closing_open"},
           lanePhase' = "closing_opening" =>
               \/ t \in {"seal", "workerClose", "laneClose", "ended"}
               \/ \A r \in Ranks : ~Said(r, "abort"),
           t \in {"admitFinalize", "admitAbort"} => \A r \in Ranks : SaidNothing(r),
           t = "admitFinalize" => \A q \in Ranks : error[q] => lost[q],
           t \in {"prepareAbort", "admitAbort"} /\ lanePhase' = "closing_open" =>
               \E q \in Ranks : error[q],
           StageInv', OwnerInv'
    PROVE  LaneInv'
<1> USE DEF LaneInv
<1>1. gate' \in [Ranks -> {"shut", "armed", "cancelled"}]
  BY DEF LaneTypeOK, CancelGates
<1>2. LaneTypeOK'
  BY <1>1, LeaveTypes DEF LaneTypeOK, health
<1>3. LaneTaskInv' /\ EntryInv' /\ \A r \in Ranks : ~WillEnter(r)'
  BY MoveTask
<1>4. FarewellInv'
  BY <1>3, StillKept, MoveFarewell
<1> QED
  BY <1>2, <1>3, <1>4

\* Where a close begins.
LEMMA StartCloseStep ==
    ASSUME LaneInv, LaneStartClose, Assembled,
           \A r \in Ranks : stage[r] \in OpeningStages \cup {"run", "ended"},
           \E r \in Ranks : stage[r] = "ended" => laneCompleted /\ laneCloses = 1 /\ lanePhase # "closed",
           UNCHANGED <<frames, holdings, health, task, worker, laneCall, workerBad,
                       laneBroken,
                       entered, laneFaults>>,
           gate' = gate \/ CancelGates,
           \/ UNCHANGED laneCompleted
           \/ laneCompleted' \in BOOLEAN /\ \A r \in Ranks : stage[r] = "run"
    PROVE  LaneInv'
<1> USE DEF LaneInv, holdings
<1>1. PICK r \in Ranks : stage[r] = "ended" => laneCompleted /\ laneCloses = 1 /\ lanePhase # "closed"
  OBVIOUS
<1>2. \/ lanePhase = "opening" /\ lanePhase' = "closing_opening" /\ laneCloses = 0
      \/ lanePhase = "open" /\ lanePhase' = "closing_open" /\ laneCloses = 0
      \/ lanePhase = "closing_open" /\ lanePhase' = "closing_open" /\ laneCloses = 1 /\ laneCompleted
  <2>1. lanePhase' = CASE lanePhase = "opening" -> "closing_opening"
                  [] lanePhase = "open" -> "closing_open"
                  [] OTHER -> lanePhase
    BY DEF LaneStartClose
  <2>2. CASE stage[r] \in OpeningStages
    BY <2>1, <2>2 DEF StageInv
  <2>3. CASE stage[r] = "run"
    BY <2>1, <2>3 DEF StageInv
  <2>4. CASE stage[r] = "ended"
    <3>1. lanePhase = "closing_open"
      BY <1>1, <2>4 DEF StageInv
    <3> QED
      BY <1>1, <2>1, <2>4, <3>1
  <2> QED
    BY <2>2, <2>3, <2>4
<1>3. laneCloses' \in 0 .. 2 /\ Leave(Everywhere("preflight"))
  BY <1>2 DEF LaneStartClose
<1>4. laneCompleted' \in BOOLEAN /\ (laneCompleted' => lanePhase' = "closing_open")
  <2>1. CASE UNCHANGED laneCompleted
    BY <1>2, <2>1 DEF LaneTypeOK, StageInv
  <2>2. CASE laneCompleted' \in BOOLEAN /\ \A q \in Ranks : stage[q] = "run"
    BY <1>2, <2>2 DEF StageInv, OpeningStages, FrameStages
  <2> QED
    BY <2>1, <2>2
<1>5. "preflight" \in Stages \ OperationStages
  BY DEF Stages, ClosingStages, OperationStages
<1>6. \A q \in Ranks : stage'[q] = "preflight" /\ arrived'[q] = FALSE
  BY <1>3, <1>5, LeaveTypes
<1>7. StageInv'
  BY <1>2, <1>4, <1>6 DEF StageInv, OpeningStages, FrameStages
<1>8. OwnerInv'
  BY <1>2, <1>6 DEF OwnerInv, Owning
<1>9. lanePhase' = "closing_opening" => \A q \in Ranks : ~Said(q, "abort")
  BY <1>2 DEF FarewellInv, SaidInv, SaidNothing, Farewells
<1>10. \A q \in Ranks : stage[q] \notin Farewells
  BY DEF Farewells, OpeningStages
<1>11. lane' \in [Ranks -> {"none", "active", "closed"}] /\ frames' \in 0 .. MaxLaneFrames
  BY DEF LaneTypeOK
<1> QED
  BY <1>2, <1>3, <1>4, <1>5, <1>7, <1>8, <1>9, <1>10, <1>11, MoveStep

LEMMA MetFacts ==
    ASSUME NEW s, Met(s)
    PROVE  Assembled /\ \A r \in Ranks : stage[r] = s /\ arrived[r]
  BY DEF Met, Assembled

LEMMA ConstructedStep ==
    ASSUME LaneInv, Constructed
    PROVE  LaneInv'
<1> USE DEF LaneInv
<1>0. PICK s \in {"lane", "session", "queue"} :
         /\ Met(s)
         /\ IF AnyBad
            THEN LaneStartClose
            ELSE /\ Leave(Everywhere(CASE s = "lane" -> "session"
                                       [] s = "session" -> "queue"
                                       [] s = "queue" -> "enqueue"))
                 /\ UNCHANGED <<lanePhase, laneCloses>>
  BY DEF Constructed
<1>1. UNCHANGED <<laneCompleted, frames, holdings, health, workers, laneFaults>>
  BY DEF Constructed, NoLaneFault
<1>2. Assembled /\ \A r \in Ranks : stage[r] = s /\ arrived[r]
  BY <1>0, MetFacts
<1>3. PICK r \in Ranks : TRUE
  BY LaneAssumption
<1>4. CASE AnyBad
  BY <1>0, <1>1, <1>2, <1>3, <1>4, StartCloseStep DEF workers, OpeningStages
<1>5. CASE ~AnyBad
  <2>1. PICK t \in {"session", "queue", "enqueue"} :
           Leave(Everywhere(t)) /\ (t = "enqueue" => s = "queue") /\ UNCHANGED <<lanePhase, laneCloses>>
    BY <1>0, <1>5
  <2>2. t \in Stages \ OperationStages
    BY DEF Stages, OpeningStages, OperationStages
  <2>3. \A q \in Ranks : stage'[q] = t /\ arrived'[q] = FALSE
    BY <2>1, <2>2, LeaveTypes
  <2>4. lanePhase = "opening"
    BY <1>2, <1>3 DEF StageInv, OpeningStages
  <2>5. StageInv'
    BY <1>1, <2>1, <2>3, <2>4 DEF StageInv, OpeningStages, FrameStages
  <2>6. OwnerInv'
    <3>1. t = "enqueue" => \A q \in Ranks : owner[q] = "queue"
      BY <1>2, <1>5, <2>1 DEF OwnerInv, AnyBad
    <3> QED
      BY <1>1, <2>1, <2>3, <2>4, <3>1 DEF OwnerInv, Owning, holdings
  <2>7. \A q \in Ranks : stage[q] \notin Farewells
    BY <1>2 DEF Farewells
  <2> QED
    BY <1>1, <1>2, <2>1, <2>2, <2>4, <2>5, <2>6, <2>7, MoveStep DEF holdings, workers,
       LaneTypeOK
<1> QED
  BY <1>4, <1>5

LEMMA OpenedStep ==
    ASSUME LaneInv, Opened
    PROVE  LaneInv'
<1> USE DEF LaneInv
<1>1. UNCHANGED <<laneCompleted, frames, holdings, health, workers,
                  laneFaults>> /\ Met("initialize")
  BY DEF Opened, NoLaneFault
<1>2. Assembled /\ \A r \in Ranks : stage[r] = "initialize" /\ arrived[r]
  BY <1>1, MetFacts
<1>3. PICK r \in Ranks : TRUE
  BY LaneAssumption
<1>4. CASE AnyBad
  BY <1>1, <1>2, <1>3, <1>4, StartCloseStep DEF workers, OpeningStages, Opened
<1>5. CASE ~AnyBad
  <2>1. Leave(Everywhere("run")) /\ lanePhase' = "open" /\ UNCHANGED laneCloses
    BY <1>5 DEF Opened
  <2>2. "run" \in Stages \ OperationStages
    BY DEF Stages, OperationStages
  <2>3. \A q \in Ranks : stage'[q] = "run" /\ arrived'[q] = FALSE
    BY <2>1, <2>2, LeaveTypes
  <2>4. lanePhase = "opening"
    BY <1>2, <1>3 DEF StageInv, OpeningStages
  <2>5. StageInv'
    BY <1>1, <2>1, <2>3, <2>4 DEF StageInv, OpeningStages, FrameStages
  <2>6. OwnerInv'
    BY <1>1, <1>2, <2>1, <2>3, <2>4 DEF OwnerInv, Owning, holdings
  <2>7. \A q \in Ranks : stage[q] \notin Farewells
    BY <1>2 DEF Farewells
  <2> QED
    BY <1>1, <1>2, <2>1, <2>2, <2>4, <2>5, <2>6, <2>7, MoveStep DEF holdings, workers,
       LaneTypeOK
<1> QED
  BY <1>4, <1>5

LEMMA FinishStep ==
    ASSUME LaneInv, LaneFinish \/ LaneCloseAgain
    PROVE  LaneInv'
<1> USE DEF LaneInv
<1>1. /\ LaneStartClose /\ UNCHANGED <<frames, holdings, health, workers, laneFaults>>
      /\ \A r \in Ranks : stage[r] \in {"run", "ended"}
      /\ \/ laneCompleted' \in BOOLEAN /\ \A r \in Ranks : stage[r] = "run"
         \/ /\ laneCompleted /\ laneCloses = 1 /\ lanePhase # "closed" /\ UNCHANGED laneCompleted
  BY DEF LaneFinish, LaneCloseAgain, NoLaneFault
<1>2. Assembled
  BY <1>1 DEF Assembled
<1>3. \E r \in Ranks : stage[r] = "ended" => laneCompleted /\ laneCloses = 1 /\ lanePhase # "closed"
  BY <1>1, LaneAssumption
<1> QED
  BY <1>1, <1>2, <1>3, StartCloseStep DEF workers

\* Frames: all ranks go from and to the running run.
LEMMA FrameStep ==
    ASSUME LaneInv, LaneSubmit \/ Delivered
    PROVE  LaneInv'
<1> USE DEF LaneInv
<1>1. PICK t \in {"submit", "run"} : Leave(Everywhere(t))
  BY DEF LaneSubmit, Delivered
<1>2. /\ UNCHANGED <<lanePhase, laneCompleted, laneCloses, holdings, health,
                     workers, laneFaults>>
      /\ \A r \in Ranks : stage[r] \in {"run", "deliver"}
      /\ Assembled
  BY MetFacts DEF LaneSubmit, Delivered, run, NoLaneFault, Assembled
<1>3. frames' \in 0 .. MaxLaneFrames
  BY LaneAssumption DEF LaneSubmit, Delivered, run, LaneTypeOK
<1>4. t \in Stages \ OperationStages
  BY DEF Stages, FrameStages, OperationStages
<1>5. \A q \in Ranks : stage'[q] = t /\ arrived'[q] = FALSE
  BY <1>1, <1>4, LeaveTypes
<1>6. lanePhase = "open"
  BY <1>2, LaneAssumption DEF StageInv, FrameStages
<1>7. StageInv'
  BY <1>2, <1>5, <1>6 DEF StageInv, OpeningStages, FrameStages
<1>8. OwnerInv'
  BY <1>2, <1>5, <1>6 DEF OwnerInv, Owning, holdings
<1>9. \A q \in Ranks : stage[q] \notin Farewells
  BY <1>2 DEF Farewells
<1> QED
  BY <1>1, <1>2, <1>3, <1>4, <1>6, <1>7, <1>8, <1>9, MoveStep DEF holdings, workers,
     LaneTypeOK

\* The run is left by a last stage that says nothing of its own.
ClosingMove(s, t) ==
    /\ \A r \in Ranks : stage[r] = s /\ arrived[r]
    /\ Leave(Everywhere(t))
    /\ UNCHANGED <<laneCompleted, laneCloses, frames, owner, blocked, health,
                   workers, laneFaults>>
    /\ lanePhase \in {"closing_opening", "closing_open"}
    /\ lanePhase' \in {lanePhase, "closed"} /\ (lanePhase' = "closed" => t = "ended")

LEMMA ClosingMoveStep ==
    ASSUME LaneInv,
           NEW s \in ClosingStages \ Farewells, NEW t \in ClosingStages \cup {"ended"},
           ClosingMove(s, t), t \notin {"admitFinalize", "admitAbort", "finalize", "abort"},
           lane' \in [Ranks -> {"none", "active", "closed"}],
           lanePhase = "closing_opening" =>
               /\ t \notin {"route", "prepareClose"}
               /\ \/ s \notin {"seal", "workerClose", "laneClose", "ended"}
                  \/ t \in {"seal", "workerClose", "laneClose", "ended"},
           t \in Owning => \A r, q \in Ranks : owner[r] = "none" => owner[q] = "none",
           t = "prepareAbort" /\ lanePhase = "closing_open" => \E q \in Ranks : error[q]
    PROVE  LaneInv'
<1> USE DEF LaneInv
<1>0. /\ \A r \in Ranks : stage[r] = s /\ arrived[r]
      /\ Leave(Everywhere(t))
      /\ UNCHANGED <<laneCompleted, laneCloses, frames, owner, blocked, health,
                     workers, laneFaults>>
      /\ lanePhase \in {"closing_opening", "closing_open"}
      /\ lanePhase' \in {lanePhase, "closed"} /\ (lanePhase' = "closed" => t = "ended")
  BY DEF ClosingMove
<1>1. t \in Stages \ OperationStages
  BY DEF Stages, ClosingStages, OperationStages
<1>2. \A q \in Ranks : stage'[q] = t /\ arrived'[q] = FALSE
  BY <1>0, <1>1, LeaveTypes
<1>3. StageInv'
  BY <1>0, <1>2 DEF StageInv, OpeningStages, FrameStages, ClosingStages
<1>4. OwnerInv'
  BY <1>0, <1>2 DEF OwnerInv, ClosingStages
<1>5. \A q \in Ranks : stage[q] \notin Farewells
  BY <1>0
<1>6. Assembled
  BY <1>0 DEF Assembled
<1>7. lanePhase' = "closing_opening" =>
         \/ t \in {"seal", "workerClose", "laneClose", "ended"}
         \/ \A r \in Ranks : ~Said(r, "abort")
  BY <1>0, <1>5 DEF FarewellInv, KeptInv, Farewells
<1>8. /\ laneCloses' \in 0 .. 2 /\ laneCompleted' \in BOOLEAN /\ frames' \in 0 .. MaxLaneFrames
  BY <1>0 DEF LaneTypeOK
<1> QED
  BY <1>0, <1>1, <1>3, <1>4, <1>5, <1>6, <1>7, <1>8, MoveStep DEF workers

\* In a closing stage the run is being closed.
LEMMA ClosingPhase ==
    ASSUME LaneInv, NEW s \in ClosingStages, \A r \in Ranks : stage[r] = s
    PROVE  lanePhase \in {"closing_opening", "closing_open"}
<1>1. PICK r \in Ranks : TRUE
  BY LaneAssumption
<1>2. lanePhase \in {"opening", "open", "closing_opening", "closing_open", "closed"}
  BY DEF LaneInv, LaneTypeOK
<1> QED
  BY <1>1, <1>2 DEF LaneInv, StageInv, ClosingStages, OpeningStages, FrameStages

LEMMA PreflightStep ==
    ASSUME LaneInv, Preflight
    PROVE  LaneInv'
<1>1. /\ \A r \in Ranks : stage[r] = "preflight" /\ arrived[r]
      /\ UNCHANGED <<laneCompleted, laneCloses, frames, holdings, health, workers,
                     laneFaults>>
  BY MetFacts DEF Preflight, NoLaneFault
<1>2. lanePhase \in {"closing_opening", "closing_open"} /\ "preflight" \in ClosingStages \ Farewells
  BY <1>1, ClosingPhase DEF ClosingStages, Farewells
<1>3. PICK t \in {"health", "ended"} :
         /\ Leave(Everywhere(t)) /\ lanePhase' \in {lanePhase, "closed"}
         /\ lanePhase' = "closed" => t = "ended"
         /\ t = "health" => Inventoried
  BY <1>2 DEF Preflight
<1>4. ClosingMove("preflight", t)
  BY <1>1, <1>2, <1>3 DEF ClosingMove, holdings
<1>5. t \in Owning => \A r, q \in Ranks : owner[r] = "none" => owner[q] = "none"
  <2> SUFFICES ASSUME t = "health", NEW r \in Ranks, NEW q \in Ranks,
                      owner[r] = "none", owner[q] # "none"
               PROVE  FALSE
    BY DEF Owning
  <2>1. {x \in Ranks : owner[x] # "none"} \in {{}, Ranks}
    BY <1>3 DEF Inventoried, AllOrNone
  <2>2. r \notin {x \in Ranks : owner[x] # "none"} /\ q \in {x \in Ranks : owner[x] # "none"}
    OBVIOUS
  <2> QED
    BY <2>1, <2>2
<1>6. lane' \in [Ranks -> {"none", "active", "closed"}]
  BY <1>1 DEF LaneInv, LaneTypeOK, holdings
<1>7. t \in ClosingStages \cup {"ended"}
  BY DEF ClosingStages
<1> QED
  BY <1>2, <1>4, <1>5, <1>6, <1>7, ClosingMoveStep

LEMMA LaneHealthStep ==
    ASSUME LaneInv, LaneHealth
    PROVE  LaneInv'
<1>1. /\ \A r \in Ranks : stage[r] = "health" /\ arrived[r]
      /\ UNCHANGED <<run, holdings, health, workers, laneFaults>>
  BY MetFacts DEF LaneHealth, NoLaneFault
<1>2. lanePhase \in {"closing_opening", "closing_open"} /\ "health" \in ClosingStages \ Farewells
  BY <1>1, ClosingPhase DEF ClosingStages, Farewells
<1>3. \A r, q \in Ranks : owner[r] = "none" => owner[q] = "none"
  BY <1>1 DEF LaneInv, OwnerInv, Owning
<1>4. PICK t \in {"seal", "prepareAbort", "route", "prepareClose"} :
         /\ Leave(Everywhere(t))
         /\ t = "prepareAbort" => lanePhase = "closing_opening"
         /\ t \in {"route", "prepareClose"} => lanePhase = "closing_open"
  <2> DEFINE poisoned == \E r \in Ranks : lost[r] /\ owner[r] # "none"
             next == [r \in Ranks |->
                CASE poisoned -> "seal"
                  [] ~poisoned /\ lanePhase = "closing_opening" -> "prepareAbort"
                  [] ~poisoned /\ lanePhase # "closing_opening"
                     /\ owner[r] = "queue" -> "route"
                  [] OTHER -> "prepareClose"]
  <2>1. Leave(next)
    BY DEF LaneHealth
  <2>2. CASE poisoned
    BY <2>1, <2>2 DEF Everywhere
  <2>3. CASE ~poisoned /\ lanePhase = "closing_opening"
    BY <2>1, <2>3 DEF Everywhere
  <2>4. CASE ~poisoned /\ lanePhase = "closing_open" /\ \A r \in Ranks : owner[r] = "queue"
    <3>1. next = Everywhere("route")
      BY <2>4 DEF Everywhere
    <3> QED
      BY <2>1, <2>4, <3>1
  <2>5. CASE ~poisoned /\ lanePhase = "closing_open" /\ \A r \in Ranks : owner[r] = "none"
    <3>1. next = Everywhere("prepareClose")
      BY <2>5 DEF Everywhere
    <3> QED
      BY <2>1, <2>5, <3>1
  <2> QED
    BY <1>2, <2>2, <2>3, <2>4, <2>5 DEF LaneInv, OwnerInv
<1>5. ClosingMove("health", t)
  BY <1>1, <1>2, <1>4 DEF ClosingMove, holdings, run
<1>6. lane' \in [Ranks -> {"none", "active", "closed"}]
  BY <1>1 DEF LaneInv, LaneTypeOK, holdings
<1>7. t \in ClosingStages \cup {"ended"}
  BY DEF ClosingStages
<1> QED
  BY <1>2, <1>3, <1>4, <1>5, <1>6, <1>7, ClosingMoveStep

LEMMA CloseRouteStep ==
    ASSUME LaneInv, CloseRoute
    PROVE  LaneInv'
<1>1. /\ \A r \in Ranks : stage[r] = "route" /\ arrived[r]
      /\ UNCHANGED <<run, holdings, health, workers, laneFaults>>
  BY MetFacts DEF CloseRoute, NoLaneFault
<1>2. lanePhase = "closing_open" /\ "route" \in ClosingStages \ Farewells
  BY <1>1, LaneAssumption DEF LaneInv, StageInv, ClosingStages, Farewells
<1>3. \A r, q \in Ranks : owner[r] = "none" => owner[q] = "none"
  BY <1>1 DEF LaneInv, OwnerInv, Owning
<1>4. PICK t \in {"prepareAbort", "prepareClose"} :
         Leave(Everywhere(t)) /\ (t = "prepareAbort" => \E r \in Ranks : error[r])
  BY DEF CloseRoute
<1>5. ClosingMove("route", t)
  BY <1>1, <1>2, <1>4 DEF ClosingMove, holdings, run
<1>6. lane' \in [Ranks -> {"none", "active", "closed"}]
  BY <1>1 DEF LaneInv, LaneTypeOK, holdings
<1>7. t \in ClosingStages \cup {"ended"}
  BY DEF ClosingStages
<1> QED
  BY <1>2, <1>3, <1>4, <1>5, <1>6, <1>7, ClosingMoveStep

LEMMA LaneClosedStep ==
    ASSUME LaneInv, LaneClosed
    PROVE  LaneInv'
<1>1. /\ \A r \in Ranks : stage[r] = "laneClose" /\ arrived[r]
      /\ UNCHANGED <<run, owner, blocked, health, workers, laneFaults>>
      /\ Leave(Everywhere("workerClose"))
  BY MetFacts DEF LaneClosed, NoLaneFault
<1>2. /\ lanePhase \in {"closing_opening", "closing_open"}
      /\ "laneClose" \in ClosingStages \ Farewells /\ "workerClose" \in ClosingStages
  BY <1>1, ClosingPhase DEF ClosingStages, Farewells
<1>3. ClosingMove("laneClose", "workerClose")
  BY <1>1, <1>2 DEF ClosingMove, run
<1>4. lane' \in [Ranks -> {"none", "active", "closed"}]
  BY DEF LaneInv, LaneTypeOK, LaneClosed, Everywhere
<1> QED
  BY <1>2, <1>3, <1>4, ClosingMoveStep DEF Owning

LEMMA ClosedStep ==
    ASSUME LaneInv, Closed
    PROVE  LaneInv'
<1>1. PICK s \in {"workerClose", "seal"} :
      /\ \A r \in Ranks : stage[r] = s /\ arrived[r]
      /\ UNCHANGED <<laneCompleted, laneCloses, frames, holdings, health, workers,
                     laneFaults>>
      /\ Leave(Everywhere("ended")) /\ lanePhase' \in {lanePhase, "closed"}
  BY MetFacts DEF Closed, NoLaneFault
<1>2. lanePhase \in {"closing_opening", "closing_open"} /\ s \in ClosingStages \ Farewells
  BY <1>1, ClosingPhase DEF ClosingStages, Farewells
<1>3. ClosingMove(s, "ended")
  BY <1>1, <1>2 DEF ClosingMove, holdings
<1>4. lane' \in [Ranks -> {"none", "active", "closed"}]
  BY <1>1 DEF LaneInv, LaneTypeOK, holdings
<1> QED
  BY <1>2, <1>3, <1>4, ClosingMoveStep DEF Owning

LEMMA ClosePreparedStep ==
    ASSUME LaneInv, ClosePrepared
    PROVE  LaneInv'
<1> USE DEF LaneInv
<1>0. PICK s \in {"prepareClose", "prepareAbort"} :
      /\ Met(s)
      /\ Leave([r \in Ranks |->
                  CASE AnyBad -> "workerClose"
                    [] ~AnyBad /\ owner[r] = "none" -> "laneClose"
                    [] OTHER -> IF s = "prepareClose" THEN "admitFinalize"
                                ELSE "admitAbort"])
  BY DEF ClosePrepared
<1>1. /\ \A r \in Ranks : stage[r] = s /\ arrived[r]
      /\ UNCHANGED <<run, holdings, health, workers, laneFaults>>
  BY <1>0, MetFacts DEF ClosePrepared, NoLaneFault
<1>2. lanePhase \in {"closing_opening", "closing_open"} /\ s \in ClosingStages \ Farewells
  BY <1>1, ClosingPhase DEF ClosingStages, Farewells
<1>3. \A r, q \in Ranks : owner[r] = "none" => owner[q] = "none"
  BY <1>1 DEF OwnerInv, Owning
<1>4. lane' \in [Ranks -> {"none", "active", "closed"}]
  BY <1>1 DEF LaneTypeOK, holdings
<1>5. CASE AnyBad \/ \A r \in Ranks : owner[r] = "none"
  <2>1. PICK t \in {"workerClose", "laneClose"} : Leave(Everywhere(t))
    <3>1. CASE AnyBad
      BY <1>0, <3>1 DEF Everywhere
    <3>2. CASE ~AnyBad /\ \A r \in Ranks : owner[r] = "none"
      <4>1. [r \in Ranks |-> CASE AnyBad -> "workerClose"
                               [] ~AnyBad /\ owner[r] = "none" -> "laneClose"
                               [] OTHER -> IF s = "prepareClose" THEN "admitFinalize"
                                           ELSE "admitAbort"] = Everywhere("laneClose")
        BY <3>2 DEF Everywhere
      <4> QED
        BY <1>0, <4>1
    <3> QED
      BY <1>5, <3>1, <3>2
  <2>2. ClosingMove(s, t) /\ t \in ClosingStages /\ t \notin Owning
    BY <1>1, <1>2, <2>1 DEF ClosingMove, holdings, run, ClosingStages, Owning
  <2> QED
    BY <1>2, <1>4, <2>2, ClosingMoveStep DEF Owning
<1>6. CASE ~AnyBad /\ ~(\A r \in Ranks : owner[r] = "none")
  <2>0. \A r \in Ranks : owner[r] # "none"
    BY <1>3, <1>6
  <2>1. PICK t \in {"admitFinalize", "admitAbort"} :
           Leave(Everywhere(t)) /\ (t = "admitFinalize" <=> s = "prepareClose")
    <3> DEFINE u == IF s = "prepareClose" THEN "admitFinalize" ELSE "admitAbort"
    <3>1. [r \in Ranks |-> CASE AnyBad -> "workerClose"
                             [] ~AnyBad /\ owner[r] = "none" -> "laneClose"
                             [] OTHER -> IF s = "prepareClose" THEN "admitFinalize"
                                         ELSE "admitAbort"] = Everywhere(u)
      BY <1>6, <2>0 DEF Everywhere
    <3> QED
      BY <1>0, <3>1
  <2>2. t \in Stages \ OperationStages
    BY DEF Stages, ClosingStages, OperationStages
  <2>3. \A q \in Ranks : stage'[q] = t /\ arrived'[q] = FALSE
    BY <2>1, <2>2, LeaveTypes
  <2>4. /\ s = "prepareClose" => \A q \in Ranks : ~error[q] /\ "finalize" \notin blocked[q]
        /\ s = "prepareAbort" => \A q \in Ranks : ~lost[q] /\ "abort" \notin blocked[q]
    BY <1>1, <1>6 DEF FarewellInv, ReadyInv, AnyBad
  <2>5. t = "admitFinalize" => lanePhase = "closing_open"
    BY <1>1, <2>1, LaneAssumption DEF StageInv
  <2>6. ASSUME NEW r \in Ranks PROVE SaidNothing(r)
    <3>1. ~Said(r, "finalize")
      <4> SUFFICES ASSUME Said(r, "finalize") PROVE FALSE
        OBVIOUS
      <4>1. /\ lanePhase = "closing_open" /\ \A q \in Ranks : error[q] => lost[q]
            /\ \A q \in Ranks : "finalize" \in blocked[q]
        BY <1>1, <1>2, <2>0 DEF FarewellInv, KeptInv, RouteInv, Farewells
      <4>2. s = "prepareAbort"
        BY <2>4, <4>1
      <4>3. \E q \in Ranks : error[q]
        BY <1>1, <4>1, <4>2 DEF FarewellInv, RouteInv
      <4> QED
        BY <2>4, <4>1, <4>2, <4>3
    <3>2. ~Said(r, "abort")
      <4> SUFFICES ASSUME Said(r, "abort") PROVE FALSE
        OBVIOUS
      <4>1. lanePhase = "closing_open" /\ \A q \in Ranks : "abort" \in blocked[q]
        BY <1>1, <1>2, <2>0 DEF FarewellInv, KeptInv, Farewells
      <4>2. s = "prepareClose" /\ \E q \in Ranks : error[q]
        BY <2>4, <4>1 DEF FarewellInv, RouteInv
      <4> QED
        BY <2>4, <4>2
    <3> QED
      BY <3>1, <3>2 DEF SaidNothing, Farewells
  <2>7. StageInv'
    BY <1>1, <1>2, <2>3, <2>5 DEF StageInv, OpeningStages, FrameStages, run
  <2>8. OwnerInv'
    BY <1>1, <1>2, <2>0, <2>3 DEF OwnerInv, holdings, run
  <2>9. t = "admitFinalize" => \A q \in Ranks : error[q] => lost[q]
    BY <2>1, <2>4
  <2>10. t \in {"prepareAbort", "admitAbort"} /\ lanePhase' = "closing_open" =>
            \E q \in Ranks : error[q]
    BY <1>1, <2>1, LaneAssumption DEF FarewellInv, RouteInv, run
  <2>11. \A q \in Ranks : ~Said(q, "abort") /\ stage[q] \notin Farewells
    BY <1>1, <2>6 DEF SaidNothing, Farewells
  <2>12. Assembled
    BY <1>1 DEF Assembled
  <2> QED
    BY <1>1, <1>2, <1>4, <2>1, <2>2, <2>6, <2>7, <2>8, <2>9, <2>10, <2>11, <2>12, MoveStep
       DEF holdings, workers, run, LaneTypeOK
<1> QED
  BY <1>5, <1>6

LEMMA CompletedStep ==
    ASSUME LaneInv, Completed
    PROVE  LaneInv'
<1> USE DEF LaneInv
<1>1. PICK s \in {"finalize", "abort"} :
      /\ \A r \in Ranks : stage[r] = s /\ arrived[r]
      /\ UNCHANGED <<run, lane, health, workers, laneFaults>>
      /\ IF AnyBad
         THEN /\ blocked' = [r \in Ranks |-> blocked[r] \cup {s}]
              /\ Leave(Everywhere(
                   IF s = "abort" /\ \E r \in Ranks : lost[r] THEN "seal"
                   ELSE "workerClose"))
              /\ UNCHANGED owner
         ELSE /\ owner' = Everywhere("none")
              /\ Leave(Everywhere("laneClose"))
              /\ UNCHANGED blocked
  BY MetFacts DEF Completed, NoLaneFault
<1>2. PICK t \in {"seal", "workerClose", "laneClose"} : Leave(Everywhere(t))
  BY <1>1
<1>3. /\ owner' = owner \/ owner' = Everywhere("none")
      /\ blocked' \in [Ranks -> SUBSET {"finalize", "abort"}]
      /\ owner' \in [Ranks -> {"none", "session", "queue"}]
      /\ (\A q \in Ranks : owner'[q] = "none") \/ (\A q \in Ranks : s \in blocked'[q])
  BY <1>1 DEF LaneTypeOK, Everywhere
<1>4. t \in Stages \ OperationStages
  BY DEF Stages, ClosingStages, OperationStages
<1>5. /\ stage' \in [Ranks -> Stages]
      /\ arrived' \in [Ranks -> BOOLEAN] /\ bad' \in [Ranks -> BOOLEAN]
      /\ \A q \in Ranks : stage'[q] = t /\ arrived'[q] = FALSE
  BY <1>2, <1>4, LeaveTypes
<1>6. lanePhase \in {"closing_opening", "closing_open"} /\ lanePhase' = lanePhase
  BY <1>1, ClosingPhase DEF ClosingStages, run
<1>7. LaneTypeOK'
  BY <1>1, <1>3, <1>5 DEF LaneTypeOK, run, health, workers
<1>8. StageInv'
  BY <1>1, <1>5, <1>6 DEF StageInv, OpeningStages, FrameStages, run
<1>9. OwnerInv'
  <2>1. lanePhase = "closing_open" =>
           (\A r \in Ranks : owner'[r] = "queue") \/ (\A r \in Ranks : owner'[r] = "none")
    BY <1>3 DEF OwnerInv, Everywhere
  <2> QED
    BY <1>5, <1>6, <2>1 DEF OwnerInv, Owning
<1>10. Assembled
  BY <1>1 DEF Assembled
<1>11. LaneTaskInv' /\ EntryInv' /\ \A r \in Ranks : ~WillEnter(r)'
  BY <1>1, <1>2, <1>4, <1>10, MoveTask DEF workers
<1>12. \A r \in Ranks : \A op \in Farewells : Said(r, op) =>
          \/ \A q \in Ranks : owner'[q] = "none"
          \/ \A q \in Ranks : op \in blocked'[q]
  <2>1. \A r \in Ranks : \A op \in Farewells : Said(r, op) => op = s
    BY <1>1 DEF FarewellInv, KeptInv, Farewells
  <2> QED
    BY <1>3, <2>1
<1>13. FarewellInv'
  BY <1>1, <1>2, <1>4, <1>6, <1>11, <1>12, MoveFarewell DEF workers
<1> QED
  BY <1>7, <1>8, <1>9, <1>11, <1>13

\* Every rank has enqueued the operation: all are to enter it, or none is yet.
LEMMA AdmittedStep ==
    ASSUME LaneInv, NEW s \in AdmissionStages, Met(s), ~AnyBad,
           Leave(Everywhere(Admitted(s))),
           UNCHANGED <<run, holdings, health, workers, laneFaults>>
    PROVE  LaneInv'
<1> USE DEF LaneInv, run, holdings, workers
<1>1. Assembled /\ \A r \in Ranks : stage[r] = s /\ arrived[r]
  BY MetFacts
<1>2. PICK t \in OperationStages :
         /\ t = Admitted(s)
         /\ t = (CASE OperationOf(s) = "execute" -> "deliver" [] OTHER -> OperationOf(s))
         /\ t \in Farewells <=> s \in {"admitFinalize", "admitAbort"}
         /\ t = "initialize" <=> s = "enqueue"
         /\ t = "finalize" <=> s = "admitFinalize"
         /\ t = "abort" <=> s = "admitAbort"
         /\ t = "deliver" <=> s = "submit"
         /\ OperationOf(s) # "none"
  BY DEF Admitted, OperationOf, AdmissionStages, OperationStages, Farewells
<1>3. t \in Stages
  BY DEF Stages, OpeningStages, FrameStages, ClosingStages, OperationStages
<1>4. /\ stage' \in [Ranks -> Stages]
      /\ arrived' \in [Ranks -> BOOLEAN] /\ bad' \in [Ranks -> BOOLEAN]
      /\ \A q \in Ranks : stage'[q] = t /\ arrived'[q] = FALSE
  BY <1>2, <1>3, LeaveTypes
<1>5. LaneTypeOK'
  BY <1>4 DEF LaneTypeOK, health
<1>6. StageInv'
  BY <1>1, <1>2, <1>4 DEF StageInv, OpeningStages, FrameStages, OperationStages,
                          AdmissionStages
<1>7. OwnerInv'
  BY <1>1, <1>2, <1>4 DEF OwnerInv, Owning, OperationStages
<1>8. \A q \in Ranks : task[q] = OperationOf(s) /\ gate[q] = "shut"
  BY <1>1 DEF LaneTaskInv, AnyBad
<1>9. /\ \A q \in Ranks : worker[q] \in {"idle", "stopped"} /\ ~WillEnter(q)
      /\ \A r, q \in Ranks : entered[r] = entered[q]
  BY <1>1, AssembledFacts
<1>10. LaneTaskInv'
  BY <1>2, <1>4, <1>8, <1>9 DEF LaneTaskInv, OperationStages, AdmissionStages
<1>11. \A q \in Ranks : WillEnter(q)' <=> t \in Farewells
  BY <1>2, <1>4, <1>8, <1>9 DEF WillEnter
<1>12. EntryInv'
  BY <1>9, <1>11 DEF EntryInv
<1>13. \A q \in Ranks : /\ SaidNothing(q)' <=> SaidNothing(q)
                        /\ \A op \in Farewells : Said(q, op)' <=> Said(q, op)
  BY DEF SaidNothing, Said
<1>14. \A q \in Ranks : SaidNothing(q)
  <2>1. s \in {"enqueue", "submit"} => lanePhase \in {"opening", "open"}
    BY <1>1, LaneAssumption DEF StageInv, OpeningStages, FrameStages
  <2> QED
    BY <1>1, <2>1 DEF FarewellInv, SaidInv, AdmissionStages
<1>15. \A q \in Ranks : SaidNothing(q)' /\ ~Said(q, "finalize")' /\ ~Said(q, "abort")'
  BY <1>13, <1>14 DEF SaidNothing, Farewells
<1>16. SaidInv'
  BY <1>15 DEF FarewellInv, SaidInv
<1>17. KeptInv'
  BY <1>15 DEF KeptInv, Farewells
<1>18. RouteInv'
  BY <1>1, <1>2, <1>4, <1>15 DEF FarewellInv, RouteInv, health, OperationStages
<1>19. ReadyInv'
  BY <1>4 DEF ReadyInv
<1> QED
  BY <1>5, <1>6, <1>7, <1>10, <1>12, <1>16, <1>17, <1>18, <1>19 DEF FarewellInv

LEMMA AdmissionStep ==
    ASSUME LaneInv, Admission
    PROVE  LaneInv'
<1> USE DEF LaneInv
<1>0. PICK s \in AdmissionStages :
        /\ Met(s)
        /\ IF ~AnyBad
           THEN /\ Leave(Everywhere(Admitted(s)))
                /\ UNCHANGED <<lanePhase, laneCloses, gate>>
           ELSE /\ CancelGates
                /\ \/ s = "enqueue" /\ LaneStartClose
                   \/ /\ s = "submit"
                      /\ Leave(Everywhere("run"))
                      /\ UNCHANGED <<lanePhase, laneCloses>>
                   \/ /\ s \in {"admitFinalize", "admitAbort"}
                      /\ Leave(Everywhere("workerClose"))
                      /\ UNCHANGED <<lanePhase, laneCloses>>
  BY DEF Admission
<1>1. UNCHANGED <<laneCompleted, frames, holdings, health, task, worker, laneCall,
                  workerBad,
                  laneBroken, entered, laneFaults>>
  BY DEF Admission, NoLaneFault
<1>2. Assembled /\ \A r \in Ranks : stage[r] = s /\ arrived[r]
  BY <1>0, MetFacts
<1>3. CASE ~AnyBad
  BY <1>0, <1>1, <1>3, AdmittedStep DEF run, workers
<1>4. CASE AnyBad /\ s = "enqueue"
  <2>1. LaneStartClose /\ CancelGates
    BY <1>0, <1>4
  <2>2. \E r \in Ranks : stage[r] = "ended" => laneCompleted /\ laneCloses = 1 /\ lanePhase # "closed"
    BY <1>2, <1>4, LaneAssumption
  <2> QED
    BY <1>1, <1>2, <1>4, <2>1, <2>2, StartCloseStep DEF OpeningStages
<1>5. CASE AnyBad /\ s # "enqueue"
  <2>1. PICK t \in {"run", "workerClose"} :
           /\ Leave(Everywhere(t)) /\ UNCHANGED <<lanePhase,
                                                      laneCloses>> /\ CancelGates
           /\ t = "run" <=> s = "submit"
    BY <1>0, <1>5
  <2>2. t \in Stages \ OperationStages
    BY DEF Stages, ClosingStages, OperationStages
  <2>3. \A q \in Ranks : stage'[q] = t /\ arrived'[q] = FALSE
    BY <2>1, <2>2, LeaveTypes
  <2>4. \/ t = "run" /\ lanePhase = "open"
        \/ t = "workerClose" /\ lanePhase \in {"closing_opening", "closing_open"}
    BY <1>2, <1>5, <2>1, ClosingPhase, LaneAssumption DEF StageInv, FrameStages, AdmissionStages, ClosingStages
  <2>5. StageInv'
    BY <1>1, <2>1, <2>3, <2>4 DEF StageInv, OpeningStages, FrameStages
  <2>6. OwnerInv'
    BY <1>1, <2>1, <2>3, <2>4 DEF OwnerInv, Owning, holdings
  <2>7. \A q \in Ranks : stage[q] \notin Farewells
    BY <1>2 DEF Farewells, AdmissionStages
  <2>8. /\ lane' \in [Ranks -> {"none", "active", "closed"}] /\ frames' \in 0 .. MaxLaneFrames
        /\ laneCloses' \in 0 .. 2 /\ laneCompleted' \in BOOLEAN
    BY <1>1, <2>1 DEF LaneTypeOK, holdings
  <2> QED
    BY <1>1, <1>2, <2>1, <2>2, <2>4, <2>5, <2>6, <2>7, <2>8, MoveStep DEF holdings
<1> QED
  BY <1>3, <1>4, <1>5

--------------------------------------------------------------------------------

LEMMA LaneBegins ==
    ASSUME LaneInit
    PROVE  LaneInv
<1> USE DEF LaneInit, Everywhere
<1>1. LaneTypeOK
  <2>1. /\ arrived \in [Ranks -> BOOLEAN] /\ bad \in [Ranks -> BOOLEAN]
        /\ error \in [Ranks -> BOOLEAN] /\ lost \in [Ranks -> BOOLEAN]
        /\ workerBad \in [Ranks -> BOOLEAN]
    OBVIOUS
  <2>2. laneCompleted \in BOOLEAN /\ laneBroken \in BOOLEAN
    BY Zenon
  <2>3. entered \in [Ranks -> Seq(Operations)]
    OBVIOUS
  <2>4. blocked \in [Ranks -> SUBSET {"finalize", "abort"}]
    OBVIOUS
  <2>5. stage \in [Ranks -> Stages] /\ worker \in [Ranks -> WorkerStages]
    BY DEF Stages, OpeningStages, WorkerStages
  <2>6. laneFaults \in 0 .. MaxLaneFaults /\ frames \in 0 .. MaxLaneFrames /\ laneCloses \in 0 .. 2
    BY LaneAssumption
  <2> QED
    BY <2>1, <2>2, <2>3, <2>4, <2>5, <2>6 DEF LaneTypeOK
<1>2. StageInv /\ OwnerInv
  BY DEF StageInv, OwnerInv, OpeningStages, FrameStages, Owning
<1>3. LaneTaskInv
  BY DEF LaneTaskInv, OperationStages, AdmissionStages
<1>4. \A r \in Ranks : ~WillEnter(r) /\ SaidNothing(r)
  <2>1. ASSUME NEW r \in Ranks PROVE ~WillEnter(r)
    BY DEF WillEnter, Farewells
  <2>2. ASSUME NEW r \in Ranks PROVE \A i : i \notin DOMAIN entered[r]
    <3>1. entered[r] = <<>>
      OBVIOUS
    <3>2. DOMAIN <<>> = {}
      OBVIOUS
    <3> QED
      BY <3>1, <3>2, Zenon
  <2> QED
    BY <2>1, <2>2, Zenon DEF SaidNothing, Said
<1>5. EntryInv
  BY <1>4 DEF EntryInv
<1>6. FarewellInv
  BY <1>4 DEF FarewellInv, SaidInv, KeptInv, RouteInv, ReadyInv, SaidNothing, Farewells
<1> QED
  BY <1>1, <1>2, <1>3, <1>5, <1>6 DEF LaneInv

LEMMA LaneStep ==
    ASSUME LaneInv, [LaneNext]_laneVars
    PROVE  LaneInv'
<1>1. CASE UNCHANGED laneVars
  <2> USE <1>1 DEF laneVars, control, run, holdings, health, workers
  <2>1. LaneTypeOK' /\ StageInv' /\ OwnerInv'
    BY StageKept, OwnerKept DEF LaneInv, LaneTypeOK
  <2>2. LaneTaskInv'
    BY DEF LaneInv, LaneTaskInv
  <2>3. \A r \in Ranks : WillEnter(r)' <=> WillEnter(r)
    BY DEF WillEnter
  <2> QED
    BY <2>1, <2>2, <2>3, WorkerKept DEF LaneInv, mainThreads
<1>2. CASE LaneWorker
  BY <1>2, BarrierStep, FrameGateStep, AgreementStep, JobEndsStep, LaneBreaksStep, SkipTaskStep,
     StartTaskStep, ProvideStep, AcknowledgeStep, LaneRaisesStep, WorkerStopsStep DEF LaneWorker
<1>3. CASE LaneContinue
  BY <1>3, ConstructedStep, AdmissionStep, OpenedStep, FrameStep, InventoryStep, PreflightStep,
     LaneHealthStep, CloseRouteStep, ClosePreparedStep, CompletedStep, LaneClosedStep,
     ClosedStep,
     FinishStep, ConstructStep, PrepareStep, ArmStep, CompleteInitializeStep, FlushStep,
     PrepareCloseStep, CompleteCloseStep, CloseLaneStep, StopWorkerStep,
     SealLocalStep DEF LaneContinue
<1> QED
  BY <1>1, <1>2, <1>3, FrameStep, FinishStep DEF LaneNext

LEMMA LaneInvariance ==
    LaneSpec => []LaneInv
<1>1. LaneInit => LaneInv
  BY LaneBegins
<1>2. LaneInv /\ [LaneNext]_laneVars => LaneInv'
  BY LaneStep
<1> QED
  BY <1>1, <1>2, PTL DEF LaneSpec

\* For any number of ranks, frames and faults the collective monitor keeps its types
\* (begin_post_commit_consumers, _drain_observer_manifest and the observer worker).
THEOREM LaneTypes ==
    LaneSpec => []LaneTypeOK
<1>1. LaneInv => LaneTypeOK
  BY DEF LaneInv
<1> QED
  BY <1>1, LaneInvariance, PTL

\* On any number of ranks the workers enter the collective provider in the same order, and
\* no rank is left behind when the main threads meet, whatever fails locally, in a gate,
\* in the provider or on the lane (_observer_worker_gate, _drain_observer_manifest).
THEOREM CollectivesAlign ==
    LaneSpec => []SameOrder
<1>1. ASSUME LaneInv PROVE SameOrder
  <2> USE <1>1 DEF LaneInv
  <2>1. ASSUME NEW r \in Ranks, NEW q \in Ranks
        PROVE  IsInitial(entered[r], entered[q]) \/ IsInitial(entered[q], entered[r])
    <3>1. entered[r] \in Seq(Operations) /\ entered[q] \in Seq(Operations)
      BY DEF LaneTypeOK
    <3>2. ASSUME NEW x \in Ranks, NEW y \in Ranks, Behind(x, y)
          PROVE  IsInitial(entered[x], entered[y])
      <4>1. task[x] \in Operations /\ entered[x] \in Seq(Operations)
        <5>1. WillEnter(x)
          BY <3>2 DEF Behind
        <5> QED
          BY <5>1, BusyFacts DEF WillEnter, LaneTypeOK
      <4>2. entered[y] = Append(entered[x], task[x])
        BY <3>2 DEF Behind
      <4> QED
        BY <4>1, <4>2, EnteredFacts DEF IsInitial
    <3>3. entered[r] = entered[q] => IsInitial(entered[r], entered[q])
      BY <3>1 DEF IsInitial
    <3> QED
      BY <3>2, <3>3 DEF EntryInv
  <2>2. ASSUME NEW s \in Stages, Met(s), NEW r \in Ranks, NEW q \in Ranks
        PROVE  entered[r] = entered[q]
    BY <2>2, MetFacts, AssembledFacts
  <2> QED
    BY <2>1, <2>2 DEF SameOrder
<1> QED
  BY <1>1, LaneInvariance, PTL

\* On any number of ranks finalize or abort is entered once and never one here and the
\* other there, through refused admissions, failed farewells and a second close
\* (_drain_observer_manifest, complete_close, complete_abort_close).
THEOREM FarewellOnce ==
    LaneSpec => []OneFarewell
<1>1. ASSUME LaneInv PROVE OneFarewell
  <2> USE <1>1 DEF LaneInv
  <2> SUFFICES ASSUME NEW r \in Ranks, NEW q \in Ranks,
                      NEW i \in DOMAIN entered[r], NEW j \in DOMAIN entered[q],
                      entered[r][i] \in Farewells, entered[q][j] \in Farewells
               PROVE  entered[r][i] = entered[q][j] /\ (r = q => i = j)
    BY DEF OneFarewell
  <2>1. ~WillEnter(r) /\ ~WillEnter(q)
    BY DEF FarewellInv, SaidInv, SaidNothing, Said
  <2>2. entered[r] = entered[q]
    BY <2>1 DEF EntryInv, Behind
  <2> QED
    BY <2>2 DEF FarewellInv, SaidInv
<1> QED
  BY <1>1, LaneInvariance, PTL

================================================================================
