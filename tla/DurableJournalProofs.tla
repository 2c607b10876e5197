------------------------- MODULE DurableJournalProofs --------------------------
(***************************************************************************)
(* Proofs about DurableJournal, for any number of frames, of delivery      *)
(* attempts and of faults.                                                 *)
(***************************************************************************)
EXTENDS DurableJournal, SequenceTheorems, FiniteSetTheorems, TLAPS

-----------------------------------------------------------------------------
(* Where a thread stands in its call.                                      *)

Calls == [name : {"probe", "link", "unlink", "sync"}, dir : Dirs, frame : Frames]

\* The calls left are the last ones of the script of the operation.
Rest(s, calls) ==
    /\ s \in Seq(Calls) /\ Len(s) <= Len(calls)
    /\ \A i \in 1 .. Len(s) : s[i] = calls[Len(calls) - Len(s) + i]

PrepareCalls(f) ==
    Probe("delivered", f) \o Probe("pending", f) \o Probe("prepared", f)
    \o <<Call("link", "prepared", f), Call("sync", "prepared", f),
         Call("sync", "prepared", f)>>
DiscardCalls(f) ==
    Probe("delivered", f) \o Probe("pending", f) \o RemoveLink("prepared", f)
CommitCalls(f) ==
    Probe("delivered", f) \o Probe("pending", f) \o Promote("prepared", "pending", f)
RecoverCalls(f) == RemoveLink("pending", f) \o RemoveLink("prepared", f)

Left(t) == Len(script[t])

\* The links that matter, and the ones a power loss keeps.
VP == visible["pending"]
VD == visible["delivered"]
SP == durable["pending"]
SD == durable["delivered"]
Both == VP \cap VD
Queued == Range(queue)

-----------------------------------------------------------------------------
(* The inductive invariant.                                                *)

\* Every thread is inside the script of its operation.
MainInv ==
    /\ op["main"] = "none" => script["main"] = <<>>
    /\ op["main"] = "recover" <=> status = "recovering"
    /\ op["main"] \in {"prepare", "discard", "commit"} =>
          status = "open" /\ staged # Nothing
    /\ op["main"] = "prepare" => /\ Rest(script["main"], PrepareCalls(staged.frame))
                                 /\ script["main"] # <<>> => staged.state = "prepared"
    /\ op["main"] = "discard" => /\ Rest(script["main"], DiscardCalls(staged.frame))
                                 /\ staged.state = "undoing"
    /\ op["main"] = "commit" => Rest(script["main"], CommitCalls(staged.frame))

WorkerInv ==
    /\ op["worker"] = "none" => script["worker"] = <<>> /\ attempt < MaxAttempts
    /\ op["worker"] = "delivered" =>
          /\ status = "open" /\ queue # <<>> /\ attempt > 0
          /\ Rest(script["worker"], DeliveredCalls(Head(queue)))
          /\ Head(queue) \in executed
          /\ Left("worker") <= 7 => Head(queue) \in VD
    /\ status # "open" => queue = <<>> /\ staged = Nothing /\ attempt = 0
    /\ queue = <<>> => attempt = 0

\* Recovery: a frame with both links is still to come, or its pending link is
\* the next to go.
RecoverInv ==
    status = "recovering" =>
        \E g \in Frames :
            /\ Rest(script["main"], RecoverCalls(g))
            /\ Left("main") >= 3 => g \in VD
            /\ \A f \in Both : f \in names \/ (f = g /\ Left("main") = 4)

\* A link in delivered, or one that a power loss may bring back, is the trace
\* of an execution.
ExecutedInv == VD \cup SD \subseteq executed

\* A frame whose commit() returned has a pending link that survives a power
\* loss, until it is executed.
HandedInv ==
    \A f \in handed : f \in executed \/ f \in VP \cap SP

\* What a frame that is prepared knows: it has no pending link before its own
\* commit makes one.
PreparedInv ==
    staged.state = "prepared" /\
    (\/ op["main"] = "none"
     \/ op["main"] = "prepare" /\ Left("main") <= 4
     \/ op["main"] = "commit" /\ Left("main") >= 4) =>
        staged.frame \notin VP

\* A commit past its first probe owns its frame: it is not queued, the worker
\* cannot deliver it, and the pending link is made and then durable.
CommitInv ==
    op["main"] = "commit" =>
        /\ staged.state \in {"prepared", "delivered"}
        /\ staged.state = "delivered" =>
              staged.frame \in VD /\ Left("main") <= 2
        /\ staged.state = "prepared" =>
              /\ Left("main") <= 5 => staged.frame \notin Queued
              /\ Left("main") \in 4 .. 5 => staged.frame \notin VD
              /\ Left("main") <= 3 => staged.frame \in VP
              /\ Left("main") <= 2 => staged.frame \in SP

\* A queued frame has a link that says so.
QueueInv == Queued \subseteq VP \cup VD

LinkInv == /\ RecoverInv /\ ExecutedInv /\ HandedInv /\ PreparedInv /\ CommitInv
           /\ QueueInv

\* While every fsync succeeds.
AckedInv == acked \subseteq VD \cap SD

DeliveringInv ==
    status = "open" =>
        /\ \A f \in Both : /\ op["worker"] = "delivered" /\ f = Head(queue)
                           /\ Left("worker") \in 6 .. 7 /\ queue # <<>>
        /\ \A f \in Queued \cap VD :
              op["worker"] = "delivered" /\ f = Head(queue) /\ Left("worker") <= 7
        /\ op["worker"] = "delivered" /\ Left("worker") <= 6 =>
              Head(queue) \in SD
        /\ op["worker"] = "delivered" /\ Left("worker") <= 5 =>
              Head(queue) \notin VP
        /\ Queued \cap acked = {}

Distinct == \A i, j \in DOMAIN queue : queue[i] = queue[j] => i = j

SyncedInv ==
    ~syncFailed => AckedInv /\ DeliveringInv /\ Distinct /\ PendingIsQueued

IndInv == TypeOK /\ MainInv /\ WorkerInv /\ LinkInv /\ SyncedInv

-----------------------------------------------------------------------------
(* The scripts.                                                            *)

\* What the assumption on the constants says.
LEMMA ConstantFacts ==
  /\ NFrames \in Nat /\ NFrames > 0 /\ Frames = 1 .. NFrames /\ MaxAttempts \in Nat
  /\ MaxAttempts > 0 /\ MaxFaults \in Nat
BY JournalAssumption DEF Frames

\* A call of the scripts.
LEMMA CallFacts ==
  ASSUME NEW f \in Frames, NEW d \in Dirs,
         NEW n \in {"probe", "link", "unlink", "sync"}
  PROVE  /\ Call(n, d, f) \in Calls /\ Call(n, d, f).name = n
         /\ Call(n, d, f).dir = d /\ Call(n, d, f).frame = f
BY DEF Call, Calls

\* delivered: nine system calls.
LEMMA DeliveredScript ==
  ASSUME NEW f \in Frames
  PROVE  LET s == DeliveredCalls(f) IN
         /\ s \in Seq(Calls) /\ Len(s) = 9
         /\ s[1] = Call("probe", "delivered", f) /\ s[2] = Call("link", "delivered", f)
         /\ s[3] = Call("sync", "delivered", f) /\ s[4] = Call("unlink", "pending", f)
         /\ s[5] = Call("sync", "pending", f) /\ s[6] = Call("unlink", "pending", f)
         /\ s[7] = Call("sync", "pending", f) /\ s[8] = Call("unlink", "prepared", f)
         /\ s[9] = Call("sync", "prepared", f)
<1> DEFINE a == Call("probe", "delivered", f)   b == Call("link", "delivered", f)
           c == Call("sync", "delivered", f)    d == Call("unlink", "pending", f)
           e == Call("sync", "pending", f)      g == Call("unlink", "prepared", f)
           h == Call("sync", "prepared", f)
<1>1. /\ a \in Calls /\ b \in Calls /\ c \in Calls /\ d \in Calls /\ e \in Calls
      /\ g \in Calls /\ h \in Calls
  BY CallFacts DEF Dirs
<1>2. DeliveredCalls(f) = <<a>> \o (<<b, c>> \o <<d, e>>) \o <<d, e>> \o <<g, h>>
  BY DEF DeliveredCalls, Probe, Promote, RemoveLink
<1> HIDE DEF a, b, c, d, e, g, h
<1> DEFINE s == <<a>> \o (<<b, c>> \o <<d, e>>) \o <<d, e>> \o <<g, h>>
<1>3. /\ s \in Seq(Calls) /\ Len(s) = 9
      /\ s[1] = a /\ s[2] = b /\ s[3] = c /\ s[4] = d /\ s[5] = e /\ s[6] = d
      /\ s[7] = e /\ s[8] = g /\ s[9] = h
  BY <1>1
<1> HIDE DEF s
<1> QED
  BY <1>2, <1>3 DEF s, a, b, c, d, e, g, h

\* commit: six.
LEMMA CommitScript ==
  ASSUME NEW f \in Frames
  PROVE  LET s == CommitCalls(f) IN
         /\ s \in Seq(Calls) /\ Len(s) = 6
         /\ s[1] = Call("probe", "delivered", f) /\ s[2] = Call("probe", "pending", f)
         /\ s[3] = Call("link", "pending", f) /\ s[4] = Call("sync", "pending", f)
         /\ s[5] = Call("unlink", "prepared", f) /\ s[6] = Call("sync", "prepared", f)
<1> DEFINE a == Call("probe", "delivered", f)   b == Call("probe", "pending", f)
           c == Call("link", "pending", f)      d == Call("sync", "pending", f)
           g == Call("unlink", "prepared", f)   h == Call("sync", "prepared", f)
<1>1. /\ a \in Calls /\ b \in Calls /\ c \in Calls /\ d \in Calls
      /\ g \in Calls /\ h \in Calls
  BY CallFacts DEF Dirs
<1>2. CommitCalls(f) = <<a>> \o <<b>> \o (<<c, d>> \o <<g, h>>)
  BY DEF CommitCalls, Probe, Promote, RemoveLink
<1> HIDE DEF a, b, c, d, g, h
<1> DEFINE s == <<a>> \o <<b>> \o (<<c, d>> \o <<g, h>>)
<1>3. /\ s \in Seq(Calls) /\ Len(s) = 6
      /\ s[1] = a /\ s[2] = b /\ s[3] = c /\ s[4] = d /\ s[5] = g /\ s[6] = h
  BY <1>1
<1> HIDE DEF s
<1> QED
  BY <1>2, <1>3 DEF s, a, b, c, d, g, h

\* prepare: six, the last four about the prepared directory.
LEMMA PrepareScript ==
  ASSUME NEW f \in Frames
  PROVE  LET s == PrepareCalls(f) IN
         /\ s \in Seq(Calls) /\ Len(s) = 6
         /\ s[1] = Call("probe", "delivered", f) /\ s[2] = Call("probe", "pending", f)
         /\ s[3] = Call("probe", "prepared", f) /\ s[4] = Call("link", "prepared", f)
         /\ s[5] = Call("sync", "prepared", f) /\ s[6] = Call("sync", "prepared", f)
<1> DEFINE a == Call("probe", "delivered", f)   b == Call("probe", "pending", f)
           c == Call("probe", "prepared", f)    d == Call("link", "prepared", f)
           g == Call("sync", "prepared", f)
<1>1. a \in Calls /\ b \in Calls /\ c \in Calls /\ d \in Calls /\ g \in Calls
  BY CallFacts DEF Dirs
<1>2. PrepareCalls(f) = <<a>> \o <<b>> \o <<c>> \o <<d, g, g>>
  BY DEF PrepareCalls, Probe
<1> HIDE DEF a, b, c, d, g
<1> DEFINE s == <<a>> \o <<b>> \o <<c>> \o <<d, g, g>>
<1>3. /\ s \in Seq(Calls) /\ Len(s) = 6
      /\ s[1] = a /\ s[2] = b /\ s[3] = c /\ s[4] = d /\ s[5] = g /\ s[6] = g
  BY <1>1
<1> HIDE DEF s
<1> QED
  BY <1>2, <1>3 DEF s, a, b, c, d, g

\* discard_prepared: four.
LEMMA DiscardScript ==
  ASSUME NEW f \in Frames
  PROVE  LET s == DiscardCalls(f) IN
         /\ s \in Seq(Calls) /\ Len(s) = 4
         /\ s[1] = Call("probe", "delivered", f) /\ s[2] = Call("probe", "pending", f)
         /\ s[3] = Call("unlink", "prepared", f) /\ s[4] = Call("sync", "prepared", f)
<1> DEFINE a == Call("probe", "delivered", f)   b == Call("probe", "pending", f)
           g == Call("unlink", "prepared", f)   h == Call("sync", "prepared", f)
<1>1. a \in Calls /\ b \in Calls /\ g \in Calls /\ h \in Calls
  BY CallFacts DEF Dirs
<1>2. DiscardCalls(f) = <<a>> \o <<b>> \o <<g, h>>
  BY DEF DiscardCalls, Probe, RemoveLink
<1> HIDE DEF a, b, g, h
<1> DEFINE s == <<a>> \o <<b>> \o <<g, h>>
<1>3. /\ s \in Seq(Calls) /\ Len(s) = 4
      /\ s[1] = a /\ s[2] = b /\ s[3] = g /\ s[4] = h
  BY <1>1
<1> HIDE DEF s
<1> QED
  BY <1>2, <1>3 DEF s, a, b, g, h

\* _recover, for one name: four, or the last two of them.
LEMMA RecoverScript ==
  ASSUME NEW f \in Frames
  PROVE  LET s == RecoverCalls(f)
             r == RemoveLink("prepared", f) IN
         /\ s \in Seq(Calls) /\ Len(s) = 4
         /\ s[1] = Call("unlink", "pending", f) /\ s[2] = Call("sync", "pending", f)
         /\ s[3] = Call("unlink", "prepared", f) /\ s[4] = Call("sync", "prepared", f)
         /\ r \in Seq(Calls) /\ Len(r) = 2 /\ r[1] = s[3] /\ r[2] = s[4]
<1> DEFINE a == Call("unlink", "pending", f)    b == Call("sync", "pending", f)
           g == Call("unlink", "prepared", f)   h == Call("sync", "prepared", f)
<1>1. a \in Calls /\ b \in Calls /\ g \in Calls /\ h \in Calls
  BY CallFacts DEF Dirs
<1>2. /\ RecoverCalls(f) = <<a, b>> \o <<g, h>>
      /\ RemoveLink("prepared", f) = <<g, h>>
  BY DEF RecoverCalls, RemoveLink
<1> HIDE DEF a, b, g, h
<1> DEFINE s == <<a, b>> \o <<g, h>>
           r == <<g, h>>
<1>3. /\ s \in Seq(Calls) /\ Len(s) = 4
      /\ s[1] = a /\ s[2] = b /\ s[3] = g /\ s[4] = h
      /\ r \in Seq(Calls) /\ Len(r) = 2 /\ r[1] = g /\ r[2] = h
  BY <1>1
<1> HIDE DEF s, r
<1> QED
  BY <1>2, <1>3 DEF s, r, a, b, g, h

\* The next call, and what is left after it.
LEMMA RestTail ==
  ASSUME NEW s, NEW calls \in Seq(Calls), Rest(s, calls), s # <<>>
  PROVE  /\ Len(s) \in 1 .. Len(calls)
         /\ Head(s) = calls[Len(calls) - Len(s) + 1]
         /\ Rest(Tail(s), calls) /\ Len(Tail(s)) = Len(s) - 1
<1>1. s \in Seq(Calls) /\ Len(s) \in Nat /\ Len(s) > 0 /\ Len(calls) \in Nat
  BY DEF Rest
<1>2. Head(s) = s[1] /\ Len(s) \in 1 .. Len(calls)
  BY <1>1 DEF Rest
<1>3. /\ Tail(s) \in Seq(Calls) /\ Len(Tail(s)) = Len(s) - 1
      /\ \A i \in 1 .. Len(s) - 1 : Tail(s)[i] = s[i + 1]
  BY <1>1
<1>4. \A i \in 1 .. Len(s) - 1 : Tail(s)[i] = calls[Len(calls) - (Len(s) - 1) + i]
  <2> TAKE i \in 1 .. Len(s) - 1
  <2>1. i + 1 \in 1 .. Len(s)
    BY <1>1
  <2>2. Tail(s)[i] = calls[Len(calls) - Len(s) + (i + 1)]
    BY <1>3, <2>1 DEF Rest
  <2>3. Len(calls) - Len(s) + (i + 1) = Len(calls) - (Len(s) - 1) + i
    BY <1>1
  <2> QED
    BY <2>2, <2>3
<1>5. Rest(Tail(s), calls)
  BY <1>1, <1>2, <1>3, <1>4 DEF Rest
<1>6. Head(s) = calls[Len(calls) - Len(s) + 1]
  BY <1>1, <1>2 DEF Rest
<1> QED
  BY <1>2, <1>3, <1>5, <1>6

\* A whole script, and an empty one.
LEMMA RestEnds ==
  ASSUME NEW calls \in Seq(Calls)
  PROVE  Rest(calls, calls) /\ Rest(<<>>, calls) /\ Len(<<>>) = 0
BY DEF Rest

-----------------------------------------------------------------------------
(* What a system call does to the links that matter.                       *)

Quiet == VP' = VP /\ VD' = VD /\ SP' = SP /\ SD' = SD
Elsewhere == UNCHANGED <<status, op, names, cursor, staged, queue, attempt, history,
                         syncFailed, faults>>

\* The change of the links, by the name and the directory of the call.
LEMMA CallEffect ==
  ASSUME TypeOK, NEW t \in Threads, SystemCall(t), NEW f \in Frames, NEW d \in Dirs,
         NEW n \in {"probe", "link", "unlink", "sync"},
         Head(script[t]) = Call(n, d, f)
  PROVE  /\ visible' \in [Dirs -> SUBSET Frames] /\ durable' \in [Dirs -> SUBSET Frames]
         /\ n = "probe" => Quiet /\ f \notin visible[d]
         /\ d = "prepared" => Quiet
         /\ n = "link" /\ d = "pending" =>
               VP' = VP \cup {f} /\ VD' = VD /\ SP' = SP /\ SD' = SD
         /\ n = "link" /\ d = "delivered" =>
               VP' = VP /\ VD' = VD \cup {f} /\ SP' = SP /\ SD' = SD
         /\ n = "unlink" /\ d = "pending" =>
               VP' = VP \ {f} /\ VD' = VD /\ SP' = SP /\ SD' = SD
         /\ n = "sync" /\ d = "pending" =>
               VP' = VP /\ VD' = VD /\ SP' = VP /\ SD' = SD
         /\ n = "sync" /\ d = "delivered" =>
               VP' = VP /\ VD' = VD /\ SP' = SP /\ SD' = VD
<1> DEFINE c == Head(script[t])
<1>1. c.name = n /\ c.dir = d /\ c.frame = f
  BY CallFacts
<1>2. /\ visible \in [Dirs -> SUBSET Frames] /\ durable \in [Dirs -> SUBSET Frames]
      /\ "pending" \in Dirs /\ "delivered" \in Dirs /\ "prepared" \in Dirs
  BY DEF TypeOK, Dirs
<1>3. /\ visible' = Links(c) /\ ~Found(t) /\ script[t] # <<>>
      /\ durable' = IF c.name = "sync" THEN [durable EXCEPT ![c.dir] = visible[c.dir]]
                    ELSE durable
  BY DEF SystemCall
<1> HIDE DEF c
<1>4. /\ n = "link" =>
            visible' = [visible EXCEPT ![d] = @ \cup {f}] /\ durable' = durable
      /\ n = "unlink" =>
            visible' = [visible EXCEPT ![d] = @ \ {f}] /\ durable' = durable
      /\ n = "sync" =>
            visible' = visible /\ durable' = [durable EXCEPT ![d] = visible[d]]
      /\ n = "probe" => visible' = visible /\ durable' = durable
  BY <1>1, <1>3 DEF Links
<1>5. n = "probe" => f \notin visible[d]
  BY <1>1, <1>3 DEF Found, c
<1>6. CASE n = "probe"
  BY <1>2, <1>4, <1>5, <1>6 DEF Quiet, VP, VD, SP, SD
<1>7. CASE n = "link"
  BY <1>2, <1>4, <1>7 DEF Quiet, VP, VD, SP, SD
<1>8. CASE n = "unlink"
  BY <1>2, <1>4, <1>8 DEF Quiet, VP, VD, SP, SD
<1>9. CASE n = "sync"
  BY <1>2, <1>4, <1>9 DEF Quiet, VP, VD, SP, SD
<1> QED
  BY <1>6, <1>7, <1>8, <1>9

\* The thread goes on behind the call, or two calls on when the name to unlink
\* is not there.
LEMMA ScriptEffect ==
  ASSUME TypeOK, NEW t \in Threads, SystemCall(t), NEW calls \in Seq(Calls),
         Rest(script[t], calls), Head(script[t]).name = "unlink" => Left(t) >= 2
  PROVE  /\ Elsewhere
         /\ \A u \in Threads \ {t} : script'[u] = script[u]
         /\ DOMAIN script' = Threads
         /\ Rest(script'[t], calls)
         /\ Left(t) \in 1 .. Len(calls)
         /\ Head(script[t]) = calls[Len(calls) - Left(t) + 1]
         /\ \/ Left(t)' = Left(t) - 1
            \/ Left(t)' = Left(t) - 2 /\ Head(script[t]).name = "unlink"
<1> DEFINE gone == /\ Head(script[t]).name = "unlink"
                   /\ Head(script[t]).frame \notin visible[Head(script[t]).dir]
<1>1. /\ script[t] # <<>> /\ Elsewhere
      /\ script' = [script EXCEPT ![t] = IF gone THEN Tail(Tail(@)) ELSE Tail(@)]
  BY DEF SystemCall, Elsewhere, links, threads
<1>2. script \in [Threads -> Seq(Calls)]
  BY DEF TypeOK, Calls
<1>3. /\ \A u \in Threads \ {t} : script'[u] = script[u]
      /\ DOMAIN script' = Threads
      /\ script'[t] = IF gone THEN Tail(Tail(script[t])) ELSE Tail(script[t])
  BY <1>1, <1>2
<1>4. /\ Len(script[t]) \in 1 .. Len(calls)
      /\ Head(script[t]) = calls[Len(calls) - Len(script[t]) + 1]
      /\ Rest(Tail(script[t]), calls) /\ Len(Tail(script[t])) = Len(script[t]) - 1
  BY <1>1, RestTail
<1>5. CASE gone
  <2>1. Len(script[t]) - 1 # 0
    <3>1. Len(script[t]) >= 2
      BY <1>5, Zenon DEF Left
    <3>2. Len(script[t]) \in Int
      BY <1>4
    <3> QED
      BY <3>1, <3>2
  <2>2. Tail(script[t]) # <<>>
    <3>1. \A x : x = <<>> => Len(x) = 0
      OBVIOUS
    <3>2. Len(Tail(script[t])) # 0
      BY <1>4, <2>1, Zenon
    <3> QED
      BY <3>1, <3>2, Zenon
  <2>3. /\ Rest(Tail(Tail(script[t])), calls)
        /\ Len(Tail(Tail(script[t]))) = Len(Tail(script[t])) - 1
    BY <1>4, <2>2, RestTail
  <2>4. script'[t] = Tail(Tail(script[t])) /\ Head(script[t]).name = "unlink"
    BY <1>3, <1>5
  <2>5. Left(t)' = Left(t) - 2
    <3>1. Len(script'[t]) = (Len(script[t]) - 1) - 1
      BY <1>4, <2>3, <2>4
    <3>2. Len(script[t]) \in Int
      BY <1>4
    <3> QED
      BY <3>1, <3>2 DEF Left
  <2> QED
    BY <1>1, <1>3, <1>4, <2>3, <2>4, <2>5 DEF Left
<1>6. CASE ~gone
  BY <1>1, <1>3, <1>4, <1>6 DEF Left
<1> QED
  BY <1>5, <1>6

-----------------------------------------------------------------------------
(* The steps of each operation, seen from the links and the calls left.    *)

\* One system call of delivered().
WorkerMove(f, n, m) ==
    \/ n = 9 /\ m = 8 /\ Quiet /\ f \notin VD
    \/ n = 8 /\ m = 7 /\ VP' = VP /\ VD' = VD \cup {f} /\ SP' = SP /\ SD' = SD
    \/ n = 7 /\ m = 6 /\ VP' = VP /\ VD' = VD /\ SP' = SP /\ SD' = VD
    \/ /\ n = 6 /\ m \in {5, 4}
       /\ VP' = VP \ {f} /\ VD' = VD /\ SP' = SP /\ SD' = SD
    \/ /\ n = 4 /\ m \in {3, 2}
       /\ VP' = VP \ {f} /\ VD' = VD /\ SP' = SP /\ SD' = SD
    \/ n = 5 /\ m = 4 /\ VP' = VP /\ VD' = VD /\ SP' = VP /\ SD' = SD
    \/ n = 3 /\ m = 2 /\ VP' = VP /\ VD' = VD /\ SP' = VP /\ SD' = SD
    \/ n \in 1 .. 2 /\ m \in 0 .. 1 /\ m < n /\ Quiet

\* A system call of the worker is a move of delivered().
LEMMA WorkerCall ==
  ASSUME IndInv, SystemCall("worker")
  PROVE  /\ op["worker"] = "delivered" /\ Head(queue) \in Frames
         /\ WorkerMove(Head(queue), Left("worker"), Left("worker")')
         /\ Rest(script'["worker"], DeliveredCalls(Head(queue)))
         /\ script'["main"] = script["main"] /\ Elsewhere
         /\ script' \in [Threads -> Seq(Calls)]
         /\ visible' \in [Dirs -> SUBSET Frames]
         /\ durable' \in [Dirs -> SUBSET Frames]
<1> DEFINE f == Head(queue)
           s == DeliveredCalls(f)
           n == Left("worker")
<1>1. /\ TypeOK /\ script["worker"] # <<>> /\ "worker" \in Threads
      /\ "main" \in Threads /\ Threads \ {"worker"} = {"main"}
  BY DEF IndInv, SystemCall, Threads
<1>2. /\ op["worker"] = "delivered" /\ queue # <<>> /\ queue \in Seq(Frames)
      /\ Rest(script["worker"], s)
  BY <1>1 DEF IndInv, WorkerInv, TypeOK
<1>3. f \in Frames
  BY <1>2
<1> HIDE DEF f
<1>4. /\ s \in Seq(Calls) /\ Len(s) = 9
      /\ s[1] = Call("probe", "delivered", f) /\ s[2] = Call("link", "delivered", f)
      /\ s[3] = Call("sync", "delivered", f) /\ s[4] = Call("unlink", "pending", f)
      /\ s[5] = Call("sync", "pending", f) /\ s[6] = Call("unlink", "pending", f)
      /\ s[7] = Call("sync", "pending", f) /\ s[8] = Call("unlink", "prepared", f)
      /\ s[9] = Call("sync", "prepared", f)
  BY <1>3, DeliveredScript
<1> HIDE DEF s
<1>5. n \in 1 .. 9 /\ Head(script["worker"]) = s[9 - n + 1]
  BY <1>1, <1>2, <1>4, RestTail DEF Left
<1>6. Call("sync", "prepared", f).name # "unlink"
  BY DEF Call
<1>7. Head(script["worker"]).name = "unlink" => n >= 2
  BY <1>4, <1>5, <1>6
<1>8. /\ Elsewhere /\ script'["main"] = script["main"] /\ DOMAIN script' = Threads
      /\ Rest(script'["worker"], s)
      /\ \/ Left("worker")' = n - 1
         \/ Left("worker")' = n - 2 /\ Head(script["worker"]).name = "unlink"
  BY <1>1, <1>2, <1>4, <1>7, ScriptEffect
<1>9. script' \in [Threads -> Seq(Calls)]
  <2>1. script'["main"] \in Seq(Calls) /\ script'["worker"] \in Seq(Calls)
    BY <1>1, <1>8 DEF Rest, TypeOK, Calls
  <2>2. script' = [t \in Threads |-> script'[t]]
    BY <1>8, <1>1 DEF SystemCall, TypeOK
  <2> QED
    BY <2>1, <2>2 DEF Threads
<1>10. "probe" # "unlink" /\ "link" # "unlink" /\ "sync" # "unlink"
  OBVIOUS
<1>11. /\ \A d \in Dirs : Call("probe", d, f).name = "probe"
       /\ \A d \in Dirs : Call("link", d, f).name = "link"
       /\ \A d \in Dirs : Call("sync", d, f).name = "sync"
  BY DEF Call
<1>12. /\ visible' \in [Dirs -> SUBSET Frames] /\ durable' \in [Dirs -> SUBSET Frames]
       /\ WorkerMove(f, n, Left("worker")')
  <2>1. CASE n = 9
    <3>1. Head(script["worker"]) = Call("probe", "delivered", f)
      BY <1>4, <1>5, <2>1
    <3>2. /\ visible' \in [Dirs -> SUBSET Frames]
          /\ durable' \in [Dirs -> SUBSET Frames] /\ Quiet /\ f \notin VD
      BY <1>1, <1>3, <3>1, CallEffect DEF Dirs, VD
    <3>3. Left("worker")' = 8
      BY <1>8, <1>10, <1>11, <2>1, <3>1 DEF Dirs
    <3> QED
      BY <2>1, <3>2, <3>3 DEF WorkerMove
  <2>2. CASE n = 8
    <3>1. Head(script["worker"]) = Call("link", "delivered", f)
      BY <1>4, <1>5, <2>2
    <3>2. /\ visible' \in [Dirs -> SUBSET Frames]
          /\ durable' \in [Dirs -> SUBSET Frames]
          /\ VP' = VP /\ VD' = VD \cup {f} /\ SP' = SP /\ SD' = SD
      BY <1>1, <1>3, <3>1, CallEffect DEF Dirs
    <3>3. Left("worker")' = 7
      BY <1>8, <1>10, <1>11, <2>2, <3>1 DEF Dirs
    <3> QED
      BY <2>2, <3>2, <3>3 DEF WorkerMove
  <2>3. CASE n = 7
    <3>1. Head(script["worker"]) = Call("sync", "delivered", f)
      BY <1>4, <1>5, <2>3
    <3>2. /\ visible' \in [Dirs -> SUBSET Frames]
          /\ durable' \in [Dirs -> SUBSET Frames]
          /\ VP' = VP /\ VD' = VD /\ SP' = SP /\ SD' = VD
      BY <1>1, <1>3, <3>1, CallEffect DEF Dirs
    <3>3. Left("worker")' = 6
      BY <1>8, <1>10, <1>11, <2>3, <3>1 DEF Dirs
    <3> QED
      BY <2>3, <3>2, <3>3 DEF WorkerMove
  <2>4. CASE n \in {6, 4}
    <3>1. Head(script["worker"]) = Call("unlink", "pending", f)
      BY <1>4, <1>5, <2>4
    <3>2. /\ visible' \in [Dirs -> SUBSET Frames]
          /\ durable' \in [Dirs -> SUBSET Frames]
          /\ VP' = VP \ {f} /\ VD' = VD /\ SP' = SP /\ SD' = SD
      BY <1>1, <1>3, <3>1, CallEffect DEF Dirs
    <3>3. Left("worker")' \in {n - 1, n - 2}
      BY <1>8
    <3> QED
      BY <2>4, <3>2, <3>3 DEF WorkerMove
  <2>5. CASE n \in {5, 3}
    <3>1. Head(script["worker"]) = Call("sync", "pending", f)
      BY <1>4, <1>5, <2>5
    <3>2. /\ visible' \in [Dirs -> SUBSET Frames]
          /\ durable' \in [Dirs -> SUBSET Frames]
          /\ VP' = VP /\ VD' = VD /\ SP' = VP /\ SD' = SD
      BY <1>1, <1>3, <3>1, CallEffect DEF Dirs
    <3>3. Left("worker")' = n - 1
      BY <1>8, <1>10, <1>11, <3>1 DEF Dirs
    <3> QED
      BY <2>5, <3>2, <3>3 DEF WorkerMove
  <2>6. CASE n \in 1 .. 2
    <3>1. \/ Head(script["worker"]) = Call("unlink", "prepared", f)
          \/ n = 1 /\ Head(script["worker"]) = Call("sync", "prepared", f)
      BY <1>4, <1>5, <2>6
    <3>2. /\ visible' \in [Dirs -> SUBSET Frames]
          /\ durable' \in [Dirs -> SUBSET Frames] /\ Quiet
      BY <1>1, <1>3, <3>1, CallEffect DEF Dirs
    <3>3. Left("worker")' \in 0 .. 1 /\ Left("worker")' < n
      BY <1>7, <1>8, <2>6
    <3> QED
      BY <2>6, <3>2, <3>3 DEF WorkerMove
  <2> QED
    BY <1>5, <2>1, <2>2, <2>3, <2>4, <2>5, <2>6
<1> QED
  BY <1>2, <1>3, <1>8, <1>9, <1>12 DEF f, s

\* Types after a system call of the main thread.
Typed ==
    /\ script'["worker"] = script["worker"] /\ Elsewhere
    /\ script' \in [Threads -> Seq(Calls)]
    /\ visible' \in [Dirs -> SUBSET Frames] /\ durable' \in [Dirs -> SUBSET Frames]

\* The effect of a call of the main thread, by its name and directory.
Effect(n, d, f) ==
    /\ n = "probe" => Quiet /\ f \notin visible[d]
    /\ d = "prepared" => Quiet
    /\ n = "link" /\ d = "pending" =>
          VP' = VP \cup {f} /\ VD' = VD /\ SP' = SP /\ SD' = SD
    /\ n = "unlink" /\ d = "pending" =>
          VP' = VP \ {f} /\ VD' = VD /\ SP' = SP /\ SD' = SD
    /\ n = "sync" /\ d = "pending" =>
          VP' = VP /\ VD' = VD /\ SP' = VP /\ SD' = SD

\* The next call of a thread, in the script of its operation; an unlink is never
\* the last one.
At(t, calls, n, d, f) ==
    /\ calls \in Seq(Calls) /\ Rest(script[t], calls)
    /\ f \in Frames /\ d \in Dirs /\ n \in {"probe", "link", "unlink", "sync"}
    /\ calls[Len(calls) - Left(t) + 1] = Call(n, d, f)
Facing(calls, n, d, f) ==
    At("main", calls, n, d, f) /\ (n = "unlink" => Left("main") >= 2)

\* What a call of the main thread does, whatever its operation.
LEMMA MainCall ==
  ASSUME IndInv, SystemCall("main"), NEW calls, NEW n, NEW d, NEW f,
         Facing(calls, n, d, f)
  PROVE  /\ Typed /\ Effect(n, d, f) /\ Rest(script'["main"], calls)
         /\ Left("main")' \in {Left("main") - 1, Left("main") - 2}
         /\ n # "unlink" => Left("main")' = Left("main") - 1
<1> USE DEF Facing, At
<1>1. /\ TypeOK /\ script["main"] # <<>> /\ "worker" \in Threads
      /\ "main" \in Threads /\ Threads \ {"main"} = {"worker"}
  BY DEF IndInv, SystemCall, Threads
<1>2. Head(script["main"]) = Call(n, d, f)
  BY <1>1, RestTail DEF Left
<1>3. Call(n, d, f).name = n
  BY CallFacts
<1>4. /\ Elsewhere /\ script'["worker"] = script["worker"] /\ DOMAIN script' = Threads
      /\ Rest(script'["main"], calls)
      /\ \/ Left("main")' = Left("main") - 1
         \/ Left("main")' = Left("main") - 2 /\ n = "unlink"
  BY <1>1, <1>2, <1>3, ScriptEffect
<1>5. script' \in [Threads -> Seq(Calls)]
  <2>1. script'["main"] \in Seq(Calls) /\ script'["worker"] \in Seq(Calls)
    BY <1>1, <1>4 DEF Rest, TypeOK, Calls
  <2>2. script' = [t \in Threads |-> script'[t]]
    BY <1>1, <1>4 DEF SystemCall, TypeOK
  <2> QED
    BY <2>1, <2>2 DEF Threads
<1>6. /\ visible' \in [Dirs -> SUBSET Frames] /\ durable' \in [Dirs -> SUBSET Frames]
      /\ Effect(n, d, f)
  BY <1>1, <1>2, CallEffect DEF Effect
<1> QED
  BY <1>4, <1>5, <1>6 DEF Typed

\* One system call of commit().
CommitMove(f, n, m) ==
    \/ n = 6 /\ m = 5 /\ Quiet /\ f \notin VD
    \/ n = 5 /\ m = 4 /\ Quiet /\ f \notin VP
    \/ n = 4 /\ m = 3 /\ VP' = VP \cup {f} /\ VD' = VD /\ SP' = SP /\ SD' = SD
    \/ n = 3 /\ m = 2 /\ VP' = VP /\ VD' = VD /\ SP' = VP /\ SD' = SD
    \/ n \in 1 .. 2 /\ m \in 0 .. 1 /\ m < n /\ Quiet

\* The frame of a call of the main thread.
LEMMA StagedFrame ==
  ASSUME IndInv, op["main"] \in {"prepare", "discard", "commit"}
  PROVE  staged.frame \in Frames /\ status = "open"
<1>1. staged # Nothing /\ status = "open"
  BY DEF IndInv, MainInv
<1> QED
  BY <1>1 DEF IndInv, TypeOK

\* A system call inside commit() is a move of it.
LEMMA CommitCall ==
  ASSUME IndInv, SystemCall("main"), op["main"] = "commit"
  PROVE  /\ CommitMove(staged.frame, Left("main"), Left("main")')
         /\ Rest(script'["main"], CommitCalls(staged.frame)) /\ Typed
<1> DEFINE f == staged.frame
           s == CommitCalls(f)
           n == Left("main")
<1>1. f \in Frames /\ Rest(script["main"], s) /\ script["main"] # <<>>
  BY StagedFrame DEF IndInv, MainInv, SystemCall
<1> HIDE DEF f
<1>2. /\ s \in Seq(Calls) /\ Len(s) = 6
      /\ s[1] = Call("probe", "delivered", f) /\ s[2] = Call("probe", "pending", f)
      /\ s[3] = Call("link", "pending", f) /\ s[4] = Call("sync", "pending", f)
      /\ s[5] = Call("unlink", "prepared", f) /\ s[6] = Call("sync", "prepared", f)
  BY <1>1, CommitScript
<1> HIDE DEF s
<1>3. n \in 1 .. 6
  BY <1>1, <1>2, RestTail DEF Left
<1> HIDE DEF n
<1> DEFINE m == Left("main")'
<1> SUFFICES CommitMove(f, n, m) /\ Rest(script'["main"], s) /\ Typed
  BY DEF f, s, n
<1> HIDE DEF m
<1>4. CASE n = 6
  <2>1. s[Len(s) - n + 1] = Call("probe", "delivered", f)
    BY <1>2, <1>4
  <2>2. Facing(s, "probe", "delivered", f)
    BY <1>1, <1>2, <1>4, <2>1 DEF Facing, At, Dirs, n
  <2>3. /\ Typed /\ Effect("probe", "delivered", f) /\ Rest(script'["main"], s)
        /\ m = n - 1
    BY <2>2, MainCall DEF m, n
  <2> QED
    BY <1>4, <2>3 DEF Effect, CommitMove, VD
<1>5. CASE n = 5
  <2>1. s[Len(s) - n + 1] = Call("probe", "pending", f)
    BY <1>2, <1>5
  <2>2. Facing(s, "probe", "pending", f)
    BY <1>1, <1>2, <1>5, <2>1 DEF Facing, At, Dirs, n
  <2>3. Typed /\ Effect("probe", "pending", f) /\ Rest(script'["main"], s) /\ m = n - 1
    BY <2>2, MainCall DEF m, n
  <2> QED
    BY <1>5, <2>3 DEF Effect, CommitMove, VP
<1>6. CASE n = 4
  <2>1. s[Len(s) - n + 1] = Call("link", "pending", f)
    BY <1>2, <1>6
  <2>2. Facing(s, "link", "pending", f)
    BY <1>1, <1>2, <1>6, <2>1 DEF Facing, At, Dirs, n
  <2>3. Typed /\ Effect("link", "pending", f) /\ Rest(script'["main"], s) /\ m = n - 1
    BY <2>2, MainCall DEF m, n
  <2> QED
    BY <1>6, <2>3 DEF Effect, CommitMove
<1>7. CASE n = 3
  <2>1. s[Len(s) - n + 1] = Call("sync", "pending", f)
    BY <1>2, <1>7
  <2>2. Facing(s, "sync", "pending", f)
    BY <1>1, <1>2, <1>7, <2>1 DEF Facing, At, Dirs, n
  <2>3. Typed /\ Effect("sync", "pending", f) /\ Rest(script'["main"], s) /\ m = n - 1
    BY <2>2, MainCall DEF m, n
  <2> QED
    BY <1>7, <2>3 DEF Effect, CommitMove
<1>8. CASE n = 2
  <2>1. s[Len(s) - n + 1] = Call("unlink", "prepared", f)
    BY <1>2, <1>8
  <2>2. Facing(s, "unlink", "prepared", f)
    BY <1>1, <1>2, <1>8, <2>1 DEF Facing, At, Dirs, n
  <2>3. /\ Typed /\ Effect("unlink", "prepared", f) /\ Rest(script'["main"], s)
        /\ m \in {n - 1, n - 2}
    BY <2>2, MainCall DEF m, n
  <2> QED
    BY <1>8, <2>3 DEF Effect, CommitMove
<1>9. CASE n = 1
  <2>1. s[Len(s) - n + 1] = Call("sync", "prepared", f)
    BY <1>2, <1>9
  <2>2. Facing(s, "sync", "prepared", f)
    BY <1>1, <1>2, <1>9, <2>1 DEF Facing, At, Dirs, n
  <2>3. Typed /\ Effect("sync", "prepared", f) /\ Rest(script'["main"], s) /\ m = n - 1
    BY <2>2, MainCall DEF m, n
  <2> QED
    BY <1>9, <2>3 DEF Effect, CommitMove
<1> QED
  BY <1>3, <1>4, <1>5, <1>6, <1>7, <1>8, <1>9

\* One system call of prepare().
PrepareMove(f, n, m) ==
    /\ Quiet /\ n \in 1 .. 6 /\ m = n - 1
    /\ n = 5 => f \notin VP

\* A system call inside prepare() is a move of it.
LEMMA PrepareCall ==
  ASSUME IndInv, SystemCall("main"), op["main"] = "prepare"
  PROVE  /\ PrepareMove(staged.frame, Left("main"), Left("main")')
         /\ Rest(script'["main"], PrepareCalls(staged.frame)) /\ Typed
<1> DEFINE f == staged.frame
           s == PrepareCalls(f)
           n == Left("main")
<1>1. f \in Frames /\ Rest(script["main"], s) /\ script["main"] # <<>>
  BY StagedFrame DEF IndInv, MainInv, SystemCall
<1> HIDE DEF f
<1>2. /\ s \in Seq(Calls) /\ Len(s) = 6
      /\ s[1] = Call("probe", "delivered", f) /\ s[2] = Call("probe", "pending", f)
      /\ s[3] = Call("probe", "prepared", f) /\ s[4] = Call("link", "prepared", f)
      /\ s[5] = Call("sync", "prepared", f) /\ s[6] = Call("sync", "prepared", f)
  BY <1>1, PrepareScript
<1> HIDE DEF s
<1>3. n \in 1 .. 6
  BY <1>1, <1>2, RestTail DEF Left
<1> HIDE DEF n
<1> DEFINE m == Left("main")'
<1> SUFFICES PrepareMove(f, n, m) /\ Rest(script'["main"], s) /\ Typed
  BY DEF f, s, n
<1> HIDE DEF m
<1>4. CASE n = 6
  <2>1. s[Len(s) - n + 1] = Call("probe", "delivered", f)
    BY <1>2, <1>4
  <2>2. Facing(s, "probe", "delivered", f)
    BY <1>1, <1>2, <1>4, <2>1 DEF Facing, At, Dirs, n
  <2>3. /\ Typed /\ Effect("probe", "delivered", f) /\ Rest(script'["main"], s)
        /\ m = n - 1
    BY <2>2, MainCall DEF m, n
  <2> QED
    BY <1>4, <2>3 DEF Effect, PrepareMove
<1>5. CASE n = 5
  <2>1. s[Len(s) - n + 1] = Call("probe", "pending", f)
    BY <1>2, <1>5
  <2>2. Facing(s, "probe", "pending", f)
    BY <1>1, <1>2, <1>5, <2>1 DEF Facing, At, Dirs, n
  <2>3. Typed /\ Effect("probe", "pending", f) /\ Rest(script'["main"], s) /\ m = n - 1
    BY <2>2, MainCall DEF m, n
  <2> QED
    BY <1>5, <2>3 DEF Effect, PrepareMove, VP
<1>6. CASE n \in 1 .. 4
  <2>1. \E k \in {"probe", "link", "sync"} :
          s[Len(s) - n + 1] = Call(k, "prepared", f)
    BY <1>2, <1>6
  <2>2. PICK k \in {"probe", "link", "sync"} :
          s[Len(s) - n + 1] = Call(k, "prepared", f)
    BY <2>1
  <2>3. Facing(s, k, "prepared", f)
    BY <1>1, <1>2, <1>6, <2>2 DEF Facing, At, Dirs, n
  <2>4. Typed /\ Effect(k, "prepared", f) /\ Rest(script'["main"], s) /\ m = n - 1
    BY <2>3, MainCall DEF m, n
  <2> QED
    BY <1>6, <2>4 DEF Effect, PrepareMove
<1> QED
  BY <1>3, <1>4, <1>5, <1>6

\* One system call of discard_prepared() touches no link that matters.
LEMMA DiscardCall ==
  ASSUME IndInv, SystemCall("main"), op["main"] = "discard"
  PROVE  Quiet /\ Rest(script'["main"], DiscardCalls(staged.frame)) /\ Typed
<1> DEFINE f == staged.frame
           s == DiscardCalls(f)
           n == Left("main")
<1>1. f \in Frames /\ Rest(script["main"], s) /\ script["main"] # <<>>
  BY StagedFrame DEF IndInv, MainInv, SystemCall
<1> HIDE DEF f
<1>2. /\ s \in Seq(Calls) /\ Len(s) = 4
      /\ s[1] = Call("probe", "delivered", f) /\ s[2] = Call("probe", "pending", f)
      /\ s[3] = Call("unlink", "prepared", f) /\ s[4] = Call("sync", "prepared", f)
  BY <1>1, DiscardScript
<1> HIDE DEF s
<1>3. n \in 1 .. 4
  BY <1>1, <1>2, RestTail DEF Left
<1> HIDE DEF n
<1>4. CASE n \in 3 .. 4
  <2>1. \E d \in Dirs : s[Len(s) - n + 1] = Call("probe", d, f)
    BY <1>2, <1>4 DEF Dirs
  <2>2. PICK d \in Dirs : s[Len(s) - n + 1] = Call("probe", d, f)
    BY <2>1
  <2>3. Facing(s, "probe", d, f)
    BY <1>1, <1>2, <1>4, <2>2 DEF Facing, At, n
  <2>4. Typed /\ Effect("probe", d, f) /\ Rest(script'["main"], s)
    BY <2>3, MainCall
  <2> QED
    BY <2>4 DEF Effect, f, s
<1>5. CASE n \in 1 .. 2
  <2>1. \E k \in {"unlink", "sync"} :
          /\ s[Len(s) - n + 1] = Call(k, "prepared", f)
          /\ k = "unlink" => n = 2
    BY <1>2, <1>5
  <2>2. PICK k \in {"unlink", "sync"} :
          /\ s[Len(s) - n + 1] = Call(k, "prepared", f)
          /\ k = "unlink" => n = 2
    BY <2>1
  <2>3. Facing(s, k, "prepared", f)
    BY <1>1, <1>2, <1>5, <2>2 DEF Facing, At, Dirs, n
  <2>4. Typed /\ Effect(k, "prepared", f) /\ Rest(script'["main"], s)
    BY <2>3, MainCall
  <2> QED
    BY <2>4 DEF Effect, f, s
<1> QED
  BY <1>3, <1>4, <1>5

\* One system call of _recover() for the name of frame g.
RecoverMove(g, n, m) ==
    \/ /\ n = 4 /\ m \in {3, 2}
       /\ VP' = VP \ {g} /\ VD' = VD /\ SP' = SP /\ SD' = SD
    \/ n = 3 /\ m = 2 /\ VP' = VP /\ VD' = VD /\ SP' = VP /\ SD' = SD
    \/ n \in 1 .. 2 /\ m \in 0 .. 1 /\ m < n /\ Quiet

\* A system call inside _recover() is a move of it.
LEMMA RecoverCall ==
  ASSUME IndInv, SystemCall("main"), NEW f \in Frames,
         Rest(script["main"], RecoverCalls(f))
  PROVE  /\ RecoverMove(f, Left("main"), Left("main")')
         /\ Rest(script'["main"], RecoverCalls(f)) /\ Typed
<1> DEFINE s == RecoverCalls(f)
           n == Left("main")
<1>1. f \in Frames /\ Rest(script["main"], s) /\ script["main"] # <<>>
  BY DEF SystemCall
<1>2. /\ s \in Seq(Calls) /\ Len(s) = 4
      /\ s[1] = Call("unlink", "pending", f) /\ s[2] = Call("sync", "pending", f)
      /\ s[3] = Call("unlink", "prepared", f) /\ s[4] = Call("sync", "prepared", f)
  BY <1>1, RecoverScript
<1> HIDE DEF s
<1>3. n \in 1 .. 4
  BY <1>1, <1>2, RestTail DEF Left
<1> HIDE DEF n
<1> DEFINE m == Left("main")'
<1> SUFFICES RecoverMove(f, n, m) /\ Rest(script'["main"], s) /\ Typed
  BY DEF s, n
<1> HIDE DEF m
<1>4. CASE n = 4
  <2>1. s[Len(s) - n + 1] = Call("unlink", "pending", f)
    BY <1>2, <1>4
  <2>2. Facing(s, "unlink", "pending", f)
    BY <1>1, <1>2, <1>4, <2>1 DEF Facing, At, Dirs, n
  <2>3. /\ Typed /\ Effect("unlink", "pending", f) /\ Rest(script'["main"], s)
        /\ m \in {n - 1, n - 2}
    BY <2>2, MainCall DEF m, n
  <2> QED
    BY <1>4, <2>3 DEF Effect, RecoverMove
<1>5. CASE n = 3
  <2>1. s[Len(s) - n + 1] = Call("sync", "pending", f)
    BY <1>2, <1>5
  <2>2. Facing(s, "sync", "pending", f)
    BY <1>1, <1>2, <1>5, <2>1 DEF Facing, At, Dirs, n
  <2>3. Typed /\ Effect("sync", "pending", f) /\ Rest(script'["main"], s) /\ m = n - 1
    BY <2>2, MainCall DEF m, n
  <2> QED
    BY <1>5, <2>3 DEF Effect, RecoverMove
<1>6. CASE n \in 1 .. 2
  <2>1. \E k \in {"unlink", "sync"} :
          /\ s[Len(s) - n + 1] = Call(k, "prepared", f)
          /\ k = "unlink" => n = 2
    BY <1>2, <1>6
  <2>2. PICK k \in {"unlink", "sync"} :
          /\ s[Len(s) - n + 1] = Call(k, "prepared", f)
          /\ k = "unlink" => n = 2
    BY <2>1
  <2>3. Facing(s, k, "prepared", f)
    BY <1>1, <1>2, <1>6, <2>2 DEF Facing, At, Dirs, n
  <2>4. /\ Typed /\ Effect(k, "prepared", f) /\ Rest(script'["main"], s)
        /\ m \in {n - 1, n - 2}
        /\ k # "unlink" => m = n - 1
    BY <2>3, MainCall DEF m, n
  <2>5. Quiet
    BY <2>4 DEF Effect
  <2>6. m \in 0 .. 1 /\ m < n
    BY <1>6, <2>2, <2>4
  <2> QED
    BY <1>6, <2>4, <2>5, <2>6 DEF RecoverMove
<1> QED
  BY <1>3, <1>4, <1>5, <1>6

-----------------------------------------------------------------------------
(* What a step keeps when it leaves the state of an invariant alone.       *)

\* The first frame of the queue is queued.
LEMMA HeadQueued ==
  ASSUME queue \in Seq(Frames), queue # <<>>
  PROVE  Head(queue) \in Queued /\ Head(queue) \in Frames
<1>1. 1 \in DOMAIN queue /\ Head(queue) = queue[1]
  OBVIOUS
<1> QED
  BY <1>1 DEF Queued, Range

\* Types after a system call.
LEMMA TypeKept ==
  ASSUME TypeOK, Elsewhere, script' \in [Threads -> Seq(Calls)],
         visible' \in [Dirs -> SUBSET Frames], durable' \in [Dirs -> SUBSET Frames]
  PROVE  TypeOK'
BY DEF TypeOK, Elsewhere, Calls, history

\* The main thread stands where it stood.
LEMMA MainKept ==
  ASSUME MainInv, status' = status, staged' = staged, op'["main"] = op["main"],
         script'["main"] = script["main"]
  PROVE  MainInv'
BY DEF MainInv

\* The worker stands where it stood; delivered frames stay delivered.
LEMMA WorkerKept ==
  ASSUME WorkerInv, status' = status, queue' = queue, attempt' = attempt,
         op'["worker"] = op["worker"], script'["worker"] = script["worker"],
         status # "open" => staged' = staged, executed \subseteq executed',
         VD \subseteq VD'
  PROVE  WorkerInv'
BY DEF WorkerInv, Left

-----------------------------------------------------------------------------
(* A system call of the worker.                                            *)

\* The worker unlinks a pending frame only when it is in delivered, and its frame
\* is not the one of a running commit().
LEMMA WorkerSystemCall ==
  ASSUME IndInv, SystemCall("worker")
  PROVE  IndInv'
<1> DEFINE f == Head(queue)
           n == Left("worker")
           m == Left("worker")'
<1>1. /\ op["worker"] = "delivered" /\ f \in Frames /\ WorkerMove(f, n, m)
      /\ Rest(script'["worker"], DeliveredCalls(f))
      /\ script'["main"] = script["main"] /\ Elsewhere
      /\ script' \in [Threads -> Seq(Calls)]
      /\ visible' \in [Dirs -> SUBSET Frames]
      /\ durable' \in [Dirs -> SUBSET Frames]
  BY WorkerCall
<1>2. /\ TypeOK /\ MainInv /\ WorkerInv /\ RecoverInv /\ ExecutedInv /\ HandedInv
      /\ PreparedInv /\ CommitInv /\ QueueInv /\ SyncedInv
  BY DEF IndInv, LinkInv
<1>3. /\ status' = status /\ op' = op /\ names' = names /\ staged' = staged
      /\ queue' = queue /\ attempt' = attempt /\ handed' = handed
      /\ executed' = executed /\ acked' = acked /\ givenUp' = givenUp
      /\ syncFailed' = syncFailed
  BY <1>1 DEF Elsewhere, history
<1>4. /\ status = "open" /\ queue # <<>> /\ f \in executed
      /\ n <= 7 => f \in VD
  BY <1>1, <1>2 DEF WorkerInv
<1>5. f \in Queued
  BY <1>2, <1>4, HeadQueued DEF TypeOK
<1>6. Queued' = Queued /\ Left("main")' = Left("main") /\ f' = f
  BY <1>1, <1>3 DEF Queued, Left
<1>7. TypeOK' /\ MainInv'
  BY <1>1, <1>2, <1>3, TypeKept, MainKept
<1> HIDE DEF f, n, m
<1>8. /\ VP' \subseteq VP /\ VP \ {f} \subseteq VP' /\ VD \subseteq VD'
      /\ VD' \subseteq VD \cup {f}
      /\ SD' = SD \/ SD' = VD
      /\ SP' = SP \/ SP' = VP
      /\ n \in 1 .. 9 /\ m \in 0 .. 8
      /\ f \notin VP' => f \notin VP \/ f \in VD
      /\ m <= 7 => f \in VD'
  BY <1>1, <1>4 DEF WorkerMove, Quiet
<1>9. WorkerInv'
  BY <1>1, <1>2, <1>3, <1>4, <1>6, <1>8 DEF WorkerInv, f, m
<1>10. RecoverInv'
  BY <1>3, <1>4 DEF RecoverInv
<1>11. ExecutedInv'
  BY <1>2, <1>3, <1>4, <1>8 DEF ExecutedInv
<1>12. HandedInv'
  BY <1>2, <1>3, <1>4, <1>8 DEF HandedInv
<1>13. PreparedInv'
  BY <1>2, <1>3, <1>6, <1>8 DEF PreparedInv
<1>14. CommitInv'
  <2> SUFFICES ASSUME op["main"] = "commit"
               PROVE  CommitInv'
    BY <1>3 DEF CommitInv
  <2>1. CASE staged.state = "delivered"
    BY <1>2, <1>3, <1>6, <1>8, <2>1 DEF CommitInv
  <2>2. CASE staged.state = "prepared"
    <3>1. /\ Left("main") <= 5 => staged.frame \notin Queued
          /\ Left("main") \in 4 .. 5 => staged.frame \notin VD
          /\ Left("main") <= 3 => staged.frame \in VP
          /\ Left("main") <= 2 => staged.frame \in SP
      BY <1>2, <2>2 DEF CommitInv
    <3>2. Left("main") <= 5 => staged.frame # f
      BY <1>5, <3>1
    <3>3. Left("main") \in Nat
      BY <1>2 DEF TypeOK, Left, Threads
    <3>4. /\ Left("main") \in 4 .. 5 => staged.frame \notin VD'
          /\ Left("main") <= 3 => staged.frame \in VP'
          /\ Left("main") <= 2 => staged.frame \in SP'
      BY <1>8, <3>1, <3>2, <3>3
    <3> QED
      BY <1>3, <1>6, <2>2, <3>1, <3>4 DEF CommitInv
  <2> QED
    BY <1>2, <2>1, <2>2 DEF CommitInv
<1>15. QueueInv'
  BY <1>2, <1>6, <1>8 DEF QueueInv
<1>16. SyncedInv'
  <2> SUFFICES ASSUME ~syncFailed
               PROVE  AckedInv' /\ DeliveringInv' /\ Distinct' /\ PendingIsQueued'
    BY <1>3 DEF SyncedInv
  <2>1. AckedInv /\ DeliveringInv /\ Distinct /\ PendingIsQueued
    BY <1>2 DEF SyncedInv
  <2>2. AckedInv'
    BY <1>3, <1>8, <2>1 DEF AckedInv
  <2>3. /\ \A g \in Both : g = f /\ n \in 6 .. 7
        /\ \A g \in Queued \cap VD : g = f /\ n <= 7
        /\ n <= 6 => f \in SD
        /\ n <= 5 => f \notin VP
    BY <1>1, <1>4, <2>1 DEF DeliveringInv, f, n
  <2>4. Both' = VP' \cap VD' /\ Both = VP \cap VD
    BY DEF Both
  <2>5. /\ \A g \in Both' : g = f /\ m \in 6 .. 7
        /\ \A g \in Queued \cap VD' : g = f /\ m <= 7
        /\ m <= 6 => f \in SD'
        /\ m <= 5 => f \notin VP'
    BY <1>1, <1>4, <2>3, <2>4 DEF WorkerMove, Quiet
  <2>6. DeliveringInv'
    <3>1. Queued' \cap acked' = {}
      BY <1>3, <1>4, <1>6, <2>1 DEF DeliveringInv
    <3>2. /\ \A g \in Both' : g = f' /\ m \in 6 .. 7
          /\ \A g \in Queued' \cap VD' : g = f' /\ m <= 7
          /\ m <= 6 => f' \in SD'
          /\ m <= 5 => f' \notin VP'
      BY <1>6, <2>5
    <3> QED
      BY <1>1, <1>3, <1>4, <3>1, <3>2 DEF DeliveringInv, f, m
  <2>7. Distinct'
    BY <1>3, <2>1 DEF Distinct
  <2>8. PendingIsQueued'
    BY <1>3, <1>6, <1>8, <2>1 DEF PendingIsQueued, VP, Queued
  <2> QED
    BY <2>2, <2>6, <2>7, <2>8
<1> QED
  BY <1>7, <1>9, <1>10, <1>11, <1>12, <1>13, <1>14, <1>15, <1>16 DEF IndInv, LinkInv

-----------------------------------------------------------------------------
(* A system call of the main thread.                                       *)

\* What every one of them leaves alone.
LEMMA MainElsewhere ==
  ASSUME IndInv, Typed
  PROVE  /\ status' = status /\ op' = op /\ names' = names /\ staged' = staged
         /\ queue' = queue /\ attempt' = attempt /\ handed' = handed
         /\ executed' = executed /\ acked' = acked /\ givenUp' = givenUp
         /\ syncFailed' = syncFailed /\ Queued' = Queued
         /\ Left("worker")' = Left("worker") /\ TypeOK'
<1>1. Elsewhere /\ script'["worker"] = script["worker"]
  BY DEF Typed
<1>2. /\ status' = status /\ op' = op /\ names' = names /\ staged' = staged
      /\ queue' = queue /\ attempt' = attempt /\ handed' = handed
      /\ executed' = executed /\ acked' = acked /\ givenUp' = givenUp
      /\ syncFailed' = syncFailed
  BY <1>1 DEF Elsewhere, history
<1>3. TypeOK'
  BY TypeKept DEF IndInv, Typed
<1>4. Queued' = Queued /\ Left("worker")' = Left("worker")
  BY <1>1, <1>2 DEF Queued, Left
<1> QED
  BY <1>2, <1>3, <1>4

\* A call that only concerns the prepared directory, or only looks.
LEMMA QuietKept ==
  ASSUME IndInv, Typed, Quiet
  PROVE  WorkerInv' /\ ExecutedInv' /\ HandedInv' /\ QueueInv' /\ SyncedInv'
<1>1. /\ status' = status /\ op' = op /\ names' = names /\ staged' = staged
      /\ queue' = queue /\ attempt' = attempt /\ handed' = handed
      /\ executed' = executed /\ acked' = acked /\ givenUp' = givenUp
      /\ syncFailed' = syncFailed /\ Queued' = Queued
      /\ Left("worker")' = Left("worker")
  BY MainElsewhere
<1>2. VP' = VP /\ VD' = VD /\ SP' = SP /\ SD' = SD
  BY DEF Quiet
<1>3. Both' = Both
  BY <1>2 DEF Both
<1>4. WorkerInv'
  BY <1>1, <1>2, WorkerKept DEF IndInv, Typed
<1>5. ExecutedInv' /\ HandedInv' /\ QueueInv'
  BY <1>1, <1>2 DEF IndInv, LinkInv, ExecutedInv, HandedInv, QueueInv
<1>6. SyncedInv'
  <2> SUFFICES ASSUME ~syncFailed
               PROVE  AckedInv' /\ DeliveringInv' /\ Distinct' /\ PendingIsQueued'
    BY <1>1 DEF SyncedInv
  <2>1. AckedInv /\ DeliveringInv /\ Distinct /\ PendingIsQueued
    BY DEF IndInv, SyncedInv
  <2>2. AckedInv' /\ Distinct'
    BY <1>1, <1>2, <2>1 DEF AckedInv, Distinct
  <2>3. DeliveringInv'
    BY <1>1, <1>2, <1>3, <2>1 DEF DeliveringInv
  <2>4. PendingIsQueued'
    BY <1>1, <1>2, <2>1 DEF PendingIsQueued, VP
  <2> QED
    BY <2>1, <2>2, <2>3, <2>4
<1> QED
  BY <1>4, <1>5, <1>6

\* commit() makes the pending link of a frame that is neither queued nor in
\* delivered, and syncs it before it goes on.
LEMMA CommitSystemCall ==
  ASSUME IndInv, SystemCall("main"), op["main"] = "commit"
  PROVE  IndInv'
<1> DEFINE f == staged.frame
           n == Left("main")
           m == Left("main")'
<1>1. /\ CommitMove(f, n, m) /\ Rest(script'["main"], CommitCalls(f)) /\ Typed
  BY CommitCall
<1>2. /\ status' = status /\ op' = op /\ names' = names /\ staged' = staged
      /\ queue' = queue /\ attempt' = attempt /\ handed' = handed
      /\ executed' = executed /\ acked' = acked /\ givenUp' = givenUp
      /\ syncFailed' = syncFailed /\ Queued' = Queued
      /\ Left("worker")' = Left("worker") /\ TypeOK'
  BY <1>1, MainElsewhere
<1>3. /\ TypeOK /\ MainInv /\ WorkerInv /\ RecoverInv /\ ExecutedInv /\ HandedInv
      /\ PreparedInv /\ CommitInv /\ QueueInv /\ SyncedInv
  BY DEF IndInv, LinkInv
<1>4. status = "open" /\ f \in Frames /\ staged # Nothing
  BY <1>3, StagedFrame DEF MainInv
<1>5. MainInv'
  BY <1>1, <1>2, <1>3, <1>4 DEF MainInv
<1> HIDE DEF f, n, m
<1>6. /\ staged.state \in {"prepared", "delivered"}
      /\ staged.state = "delivered" => f \in VD /\ n <= 2
      /\ staged.state = "prepared" =>
              /\ n <= 5 => f \notin Queued
              /\ n \in 4 .. 5 => f \notin VD
              /\ n <= 3 => f \in VP
              /\ n <= 2 => f \in SP
              /\ n >= 4 => f \notin VP
  BY <1>3 DEF CommitInv, PreparedInv, f, n
<1>7. /\ VP \subseteq VP' /\ VP' \subseteq VP \cup {f} /\ VD' = VD /\ SD' = SD
      /\ SP' = SP \/ SP' = VP
      /\ n \in 1 .. 6 /\ m \in 0 .. 5
  BY <1>1 DEF CommitMove, Quiet
<1>8. WorkerInv'
  BY <1>1, <1>2, <1>3, <1>7, WorkerKept DEF Typed
<1>9. RecoverInv' /\ ExecutedInv' /\ HandedInv' /\ QueueInv'
  BY <1>2, <1>3, <1>4, <1>7 DEF RecoverInv, ExecutedInv, HandedInv, QueueInv
<1>10. staged.state = "delivered" => m <= 2
  BY <1>1, <1>6 DEF CommitMove
<1>11. staged.state = "prepared" =>
          /\ m <= 5 => f \notin Queued
          /\ m \in 4 .. 5 => f \notin VD'
          /\ m <= 3 => f \in VP'
          /\ m <= 2 => f \in SP'
          /\ m >= 4 => f \notin VP'
  BY <1>1, <1>3, <1>6 DEF CommitMove, Quiet, QueueInv
<1>12. PreparedInv'
  BY <1>2, <1>11 DEF PreparedInv, f, m
<1>13. CommitInv'
  BY <1>2, <1>6, <1>7, <1>10, <1>11 DEF CommitInv, f, m
<1>14. SyncedInv'
  <2> SUFFICES ASSUME ~syncFailed
               PROVE  AckedInv' /\ DeliveringInv' /\ Distinct' /\ PendingIsQueued'
    BY <1>2 DEF SyncedInv
  <2>1. AckedInv /\ DeliveringInv /\ Distinct /\ PendingIsQueued
    BY <1>3 DEF SyncedInv
  <2>2. AckedInv' /\ Distinct'
    BY <1>2, <1>7, <2>1 DEF AckedInv, Distinct
  <2>3. VP' # VP => f \notin VD /\ f \notin Queued
    BY <1>1, <1>6 DEF CommitMove, Quiet
  <2>4. Both' = Both
    BY <1>7, <2>3 DEF Both
  <2>5. queue # <<>> => Head(queue) \in Queued
    BY <1>3, HeadQueued DEF TypeOK
  <2>6. op["worker"] = "delivered" => queue # <<>>
    BY <1>3 DEF WorkerInv
  <2>7. DeliveringInv'
    BY <1>2, <1>7, <2>1, <2>3, <2>4, <2>5, <2>6 DEF DeliveringInv
  <2>8. PendingIsQueued'
    BY <1>2, <1>7, <2>1 DEF PendingIsQueued, VP, f
  <2> QED
    BY <2>2, <2>7, <2>8
<1> QED
  BY <1>2, <1>5, <1>8, <1>9, <1>12, <1>13, <1>14 DEF IndInv, LinkInv

\* prepare() learns that its frame is not pending.
LEMMA PrepareSystemCall ==
  ASSUME IndInv, SystemCall("main"), op["main"] = "prepare"
  PROVE  IndInv'
<1>1. /\ PrepareMove(staged.frame, Left("main"), Left("main")')
      /\ Rest(script'["main"], PrepareCalls(staged.frame)) /\ Typed
  BY PrepareCall
<1>2. Quiet
  BY <1>1 DEF PrepareMove
<1>3. /\ status' = status /\ op' = op /\ staged' = staged /\ TypeOK'
      /\ MainInv /\ PreparedInv /\ status = "open"
  BY <1>1, MainElsewhere, StagedFrame DEF IndInv, LinkInv
<1>4. WorkerInv' /\ ExecutedInv' /\ HandedInv' /\ QueueInv' /\ SyncedInv'
  BY <1>1, <1>2, QuietKept
<1>5. MainInv'
  <2>1. staged.state = "prepared" /\ staged # Nothing
    BY <1>3 DEF MainInv, SystemCall
  <2> QED
    BY <1>1, <1>3, <2>1 DEF MainInv
<1>6. RecoverInv' /\ CommitInv'
  BY <1>3 DEF RecoverInv, CommitInv
<1>7. PreparedInv'
  BY <1>1, <1>2, <1>3 DEF PreparedInv, PrepareMove, Quiet
<1> QED
  BY <1>3, <1>4, <1>5, <1>6, <1>7 DEF IndInv, LinkInv

\* discard_prepared() touches no link that matters.
LEMMA DiscardSystemCall ==
  ASSUME IndInv, SystemCall("main"), op["main"] = "discard"
  PROVE  IndInv'
<1>1. /\ Quiet /\ Rest(script'["main"], DiscardCalls(staged.frame)) /\ Typed
  BY DiscardCall
<1>2. /\ status' = status /\ op' = op /\ staged' = staged /\ TypeOK'
      /\ MainInv /\ status = "open"
  BY <1>1, MainElsewhere, StagedFrame DEF IndInv
<1>3. WorkerInv' /\ ExecutedInv' /\ HandedInv' /\ QueueInv' /\ SyncedInv'
  BY <1>1, QuietKept
<1>4. MainInv'
  BY <1>1, <1>2 DEF MainInv
<1>5. RecoverInv' /\ CommitInv' /\ PreparedInv'
  BY <1>2 DEF RecoverInv, CommitInv, PreparedInv
<1> QED
  BY <1>2, <1>3, <1>4, <1>5 DEF IndInv, LinkInv

\* A run that is not open has nothing in flight.
LEMMA NotOpen ==
  ASSUME IndInv, status # "open"
  PROVE  /\ queue = <<>> /\ staged = Nothing /\ attempt = 0 /\ Queued = {}
         /\ op["worker"] = "none" /\ script["worker"] = <<>>
         /\ op["main"] \in {"none", "recover"}
<1>1. queue = <<>> /\ staged = Nothing /\ attempt = 0
  BY DEF IndInv, WorkerInv
<1>2. Queued = {}
  BY <1>1 DEF Queued, Range
<1>3. op["worker"] = "none" /\ script["worker"] = <<>>
  BY DEF IndInv, WorkerInv, TypeOK
<1>4. op["main"] \in {"none", "recover"}
  BY DEF IndInv, MainInv, TypeOK
<1> QED
  BY <1>1, <1>2, <1>3, <1>4

\* Recovery unlinks a pending frame only when it is in delivered.
LEMMA RecoverSystemCall ==
  ASSUME IndInv, SystemCall("main"), op["main"] = "recover"
  PROVE  IndInv'
<1>1. /\ TypeOK /\ MainInv /\ WorkerInv /\ RecoverInv /\ ExecutedInv /\ HandedInv
      /\ SyncedInv
  BY DEF IndInv, LinkInv
<1>2. status = "recovering"
  BY <1>1 DEF MainInv
<1>3. /\ queue = <<>> /\ staged = Nothing /\ Queued = {} /\ op["worker"] = "none"
  BY <1>2, NotOpen
<1>4. PICK g \in Frames :
         /\ Rest(script["main"], RecoverCalls(g))
         /\ Left("main") >= 3 => g \in VD
         /\ \A f \in Both : f \in names \/ (f = g /\ Left("main") = 4)
  BY <1>1, <1>2 DEF RecoverInv
<1>5. /\ RecoverMove(g, Left("main"), Left("main")')
      /\ Rest(script'["main"], RecoverCalls(g)) /\ Typed
  BY <1>4, RecoverCall
<1>6. /\ status' = status /\ op' = op /\ names' = names /\ staged' = staged
      /\ queue' = queue /\ attempt' = attempt /\ handed' = handed
      /\ executed' = executed /\ acked' = acked /\ givenUp' = givenUp
      /\ syncFailed' = syncFailed /\ Queued' = Queued
      /\ Left("worker")' = Left("worker") /\ TypeOK'
  BY <1>5, MainElsewhere
<1> DEFINE n == Left("main")
           m == Left("main")'
<1> HIDE DEF n, m
<1>7. /\ VP' \subseteq VP /\ VD' = VD /\ SD' = SD /\ n \in 1 .. 4 /\ m < n
      /\ SP' = SP \/ SP' = VP
      /\ n # 4 => VP' = VP
      /\ n = 4 => VP' = VP \ {g}
      /\ m \in 0 .. 3
  BY <1>5 DEF RecoverMove, Quiet, n, m
<1>8. MainInv'
  BY <1>1, <1>2, <1>6 DEF MainInv
<1>9. WorkerInv'
  BY <1>1, <1>5, <1>6, <1>7, WorkerKept DEF Typed
<1>10. RecoverInv'
  <2>1. m >= 3 => g \in VD'
    BY <1>4, <1>7 DEF n
  <2>2. \A f \in Both' : f \in names
    BY <1>4, <1>7 DEF n, Both
  <2> QED
    BY <1>5, <1>6, <2>1, <2>2 DEF RecoverInv, m
<1>11. ExecutedInv' /\ HandedInv'
  <2>1. VP' # VP => g \in executed
    BY <1>1, <1>4, <1>7 DEF n, ExecutedInv
  <2>2. ExecutedInv'
    BY <1>1, <1>6, <1>7 DEF ExecutedInv
  <2>3. HandedInv'
    BY <1>1, <1>6, <1>7, <2>1 DEF HandedInv
  <2> QED
    BY <2>2, <2>3
<1>12. PreparedInv' /\ CommitInv' /\ QueueInv'
  BY <1>3, <1>6 DEF PreparedInv, CommitInv, QueueInv, Nothing
<1>13. SyncedInv'
  BY <1>1, <1>2, <1>6, <1>7
     DEF SyncedInv, AckedInv, DeliveringInv, Distinct, PendingIsQueued
<1> QED
  BY <1>6, <1>8, <1>9, <1>10, <1>11, <1>12, <1>13 DEF IndInv, LinkInv

\* The main thread is in one of its four operations.
LEMMA MainSystemCall ==
  ASSUME IndInv, SystemCall("main")
  PROVE  IndInv'
<1>1. op["main"] \in {"none", "recover", "prepare", "discard", "commit"}
  BY DEF IndInv, TypeOK
<1>2. op["main"] # "none"
  BY DEF IndInv, MainInv, SystemCall
<1> QED
  BY <1>1, <1>2, CommitSystemCall, PrepareSystemCall, DiscardSystemCall,
     RecoverSystemCall

-----------------------------------------------------------------------------
(* The operations begin and return.                                        *)

\* A thread begins a call, or returns from one.
LEMMA StartFacts ==
  ASSUME TypeOK, NEW t \in Threads, NEW name, NEW calls \in Seq(Calls),
         Start(t, name, calls)
  PROVE  /\ DOMAIN op' = Threads /\ script' \in [Threads -> Seq(Calls)]
         /\ op'[t] = name /\ script'[t] = calls /\ Left(t)' = Len(calls)
         /\ \A u \in Threads \ {t} : op'[u] = op[u] /\ script'[u] = script[u]
<1>1. DOMAIN op = Threads /\ script \in [Threads -> Seq(Calls)]
  BY DEF TypeOK, Calls
<1>2. /\ op' = [op EXCEPT ![t] = name] /\ script' = [script EXCEPT ![t] = calls]
  BY DEF Start
<1>3. /\ DOMAIN op' = Threads /\ op'[t] = name
      /\ \A u \in Threads \ {t} : op'[u] = op[u]
  BY <1>1, <1>2
<1>4. /\ script' \in [Threads -> Seq(Calls)] /\ script'[t] = calls
      /\ \A u \in Threads \ {t} : script'[u] = script[u]
  BY <1>1, <1>2
<1> QED
  BY <1>3, <1>4 DEF Left

\* The main thread begins a call, or returns from one.
LEMMA MainStarts ==
  ASSUME TypeOK, NEW name, NEW calls \in Seq(Calls), Start("main", name, calls)
  PROVE  /\ DOMAIN op' = Threads /\ script' \in [Threads -> Seq(Calls)]
         /\ op'["main"] = name /\ script'["main"] = calls
         /\ op'["worker"] = op["worker"] /\ script'["worker"] = script["worker"]
         /\ Left("main")' = Len(calls) /\ Left("worker")' = Left("worker")
<1>1. "main" \in Threads /\ "worker" \in Threads \ {"main"}
  BY DEF Threads
<1>2. /\ DOMAIN op' = Threads /\ script' \in [Threads -> Seq(Calls)]
      /\ op'["main"] = name /\ script'["main"] = calls
      /\ op'["worker"] = op["worker"] /\ script'["worker"] = script["worker"]
      /\ Left("main")' = Len(calls)
  BY <1>1, StartFacts
<1> QED
  BY <1>2 DEF Left

\* The worker does.
LEMMA WorkerStarts ==
  ASSUME TypeOK, NEW name, NEW calls \in Seq(Calls), Start("worker", name, calls)
  PROVE  /\ DOMAIN op' = Threads /\ script' \in [Threads -> Seq(Calls)]
         /\ op'["worker"] = name /\ script'["worker"] = calls
         /\ op'["main"] = op["main"] /\ script'["main"] = script["main"]
         /\ Left("worker")' = Len(calls) /\ Left("main")' = Left("main")
<1>1. "worker" \in Threads /\ "main" \in Threads \ {"worker"}
  BY DEF Threads
<1>2. /\ DOMAIN op' = Threads /\ script' \in [Threads -> Seq(Calls)]
      /\ op'["worker"] = name /\ script'["worker"] = calls
      /\ op'["main"] = op["main"] /\ script'["main"] = script["main"]
      /\ Left("worker")' = Len(calls)
  BY <1>1, StartFacts
<1> QED
  BY <1>2 DEF Left

\* Returning is beginning nothing.
LEMMA Ends ==
  ASSUME NEW t
  PROVE  /\ Finish(t) <=> Start(t, "none", <<>>)
         /\ <<>> \in Seq(Calls) /\ Len(<<>>) = 0
BY DEF Finish, Start

\* What the directories keep, every view of them keeps.
LEMMA SameLinks ==
  ASSUME UNCHANGED links
  PROVE  visible' = visible /\ durable' = durable /\ Quiet /\ Both' = Both
BY DEF links, Quiet, Both, VP, VD, SP, SD

\* The links and histories of a step that changes neither.
Settled ==
    /\ UNCHANGED links
    /\ handed' = handed /\ executed' = executed /\ acked' = acked
    /\ syncFailed' = syncFailed

\* Links and histories that stand still keep what is said of them alone.
LEMMA SettledLinks ==
  ASSUME IndInv, Settled
  PROVE  ExecutedInv' /\ HandedInv' /\ (~syncFailed' => AckedInv')
<1>1. VP' = VP /\ VD' = VD /\ SP' = SP /\ SD' = SD
  BY SameLinks DEF Settled, Quiet
<1> QED
  BY <1>1 DEF Settled, IndInv, LinkInv, SyncedInv, ExecutedInv, HandedInv, AckedInv

\* The queue and the worker of a step that leaves them alone.
LEMMA SettledWorker ==
  ASSUME IndInv, Settled, status' = status, queue' = queue, attempt' = attempt,
         givenUp' = givenUp, op'["worker"] = op["worker"],
         script'["worker"] = script["worker"],
         status # "open" => staged' = staged
  PROVE  /\ WorkerInv' /\ QueueInv'
         /\ ~syncFailed' => DeliveringInv' /\ Distinct'
<1>1. VP' = VP /\ VD' = VD /\ SP' = SP /\ SD' = SD /\ Both' = Both
  BY SameLinks DEF Settled, Quiet
<1>2. Queued' = Queued /\ Left("worker")' = Left("worker")
  BY DEF Queued, Left
<1>3. WorkerInv'
  BY <1>1, WorkerKept DEF IndInv, Settled
<1>4. QueueInv'
  BY <1>1, <1>2 DEF IndInv, LinkInv, QueueInv
<1>5. ~syncFailed' => DeliveringInv' /\ Distinct'
  BY <1>1, <1>2 DEF Settled, IndInv, SyncedInv, DeliveringInv, Distinct
<1> QED
  BY <1>3, <1>4, <1>5

\* Recovery begins: every name is to be looked at.
LEMMA RecoverStep ==
  ASSUME IndInv, Recover
  PROVE  IndInv'
<1>1. /\ status = "closed" /\ status' = "recovering" /\ names' = Frames
      /\ Start("main", "recover", <<>>) /\ Settled /\ cursor' = cursor
      /\ staged' = staged /\ queue' = queue /\ attempt' = attempt
      /\ givenUp' = givenUp /\ faults' = faults
  BY DEF Recover, Settled, history
<1>2. /\ TypeOK /\ MainInv /\ WorkerInv /\ QueueInv /\ SyncedInv
  BY DEF IndInv, LinkInv
<1>3. /\ queue = <<>> /\ staged = Nothing /\ attempt = 0 /\ Queued = {}
      /\ op["worker"] = "none" /\ script["worker"] = <<>>
  BY <1>1, NotOpen
<1>4. /\ DOMAIN op' = Threads /\ script' \in [Threads -> Seq(Calls)]
      /\ op'["main"] = "recover" /\ script'["main"] = <<>>
      /\ op'["worker"] = op["worker"] /\ script'["worker"] = script["worker"]
      /\ Left("main")' = 0
  BY <1>1, <1>2, MainStarts, Ends
<1>5. visible' = visible /\ durable' = durable /\ Both' = Both
  BY <1>1, SameLinks DEF Settled
<1>6. TypeOK'
  BY <1>1, <1>2, <1>4, <1>5 DEF TypeOK, Settled, Calls
<1>7. MainInv'
  BY <1>1, <1>4 DEF MainInv
<1>8. WorkerInv'
  BY <1>1, <1>2, <1>3, <1>4 DEF WorkerInv
<1>9. RecoverInv'
  <2>1. 1 \in Frames
    BY ConstantFacts
  <2>2. Rest(<<>>, RecoverCalls(1))
    BY <2>1, RecoverScript, RestEnds
  <2>3. Both \subseteq Frames
    BY <1>2 DEF TypeOK, Both, VP, Dirs
  <2> QED
    BY <1>1, <1>4, <1>5, <2>1, <2>2, <2>3 DEF RecoverInv
<1>10. ExecutedInv' /\ HandedInv' /\ (~syncFailed' => AckedInv')
  BY <1>1, SettledLinks
<1>11. PreparedInv' /\ CommitInv'
  BY <1>1, <1>3, <1>4 DEF PreparedInv, CommitInv, Nothing
<1>12. QueueInv'
  BY <1>1, <1>3 DEF QueueInv, Queued
<1>13. SyncedInv'
  BY <1>1, <1>2, <1>10
     DEF Settled, SyncedInv, DeliveringInv, Distinct, PendingIsQueued
<1> QED
  BY <1>6, <1>7, <1>8, <1>9, <1>10, <1>11, <1>12, <1>13 DEF IndInv, LinkInv

\* Recovery turns to a name: its frame has both links only if four calls are left.
LEMMA RecoverNameStep ==
  ASSUME IndInv, NEW f \in Frames, RecoverName(f)
  PROVE  IndInv'
<1>1. /\ op["main"] = "recover" /\ script["main"] = <<>> /\ f \in names
      /\ names' = names \ {f} /\ Settled /\ status' = status /\ op' = op
      /\ cursor' = cursor /\ staged' = staged /\ queue' = queue
      /\ attempt' = attempt /\ givenUp' = givenUp /\ faults' = faults
      /\ script' = [script EXCEPT !["main"] = RecoveryOf(f)]
  BY DEF RecoverName, Settled, history
<1>2. /\ TypeOK /\ MainInv /\ WorkerInv /\ RecoverInv /\ QueueInv /\ SyncedInv
  BY DEF IndInv, LinkInv
<1>3. status = "recovering"
  BY <1>1, <1>2 DEF MainInv
<1>4. queue = <<>> /\ staged = Nothing /\ Queued = {} /\ op["worker"] = "none"
  BY <1>3, NotOpen
<1>5. /\ VP' = VP /\ VD' = VD /\ Both' = Both /\ visible' = visible
      /\ durable' = durable
  BY <1>1, SameLinks DEF Settled, Quiet
<1>6. Both \subseteq names
  <2>1. Left("main") = 0
    BY <1>1 DEF Left
  <2> QED
    BY <1>2, <1>3, <2>1 DEF RecoverInv
<1>7. /\ RecoveryOf(f) \in Seq(Calls) /\ Rest(RecoveryOf(f), RecoverCalls(f))
      /\ f \in VD => Len(RecoveryOf(f)) = 4
      /\ f \notin VD => Len(RecoveryOf(f)) = 2
  <2>1. /\ f \in VD => RecoveryOf(f) = RecoverCalls(f)
        /\ f \notin VD => RecoveryOf(f) = RemoveLink("prepared", f)
    BY DEF RecoveryOf, RecoverCalls, VD
  <2>2. RecoverCalls(f) \in Seq(Calls) /\ Len(RecoverCalls(f)) = 4
    BY RecoverScript
  <2>3. Rest(RecoverCalls(f), RecoverCalls(f))
    BY <2>2, RestEnds
  <2>4. /\ Rest(RemoveLink("prepared", f), RecoverCalls(f))
        /\ RemoveLink("prepared", f) \in Seq(Calls)
        /\ Len(RemoveLink("prepared", f)) = 2
    <3> DEFINE r == RemoveLink("prepared", f)
               s == RecoverCalls(f)
    <3>1. /\ s \in Seq(Calls) /\ Len(s) = 4 /\ r \in Seq(Calls) /\ Len(r) = 2
          /\ r[1] = s[3] /\ r[2] = s[4]
      BY RecoverScript
    <3> HIDE DEF r, s
    <3> SUFFICES Rest(r, s)
      BY <3>1 DEF r, s
    <3> QED
      BY <3>1 DEF Rest
  <2> QED
    BY <2>1, <2>2, <2>3, <2>4
<1>8. /\ script' \in [Threads -> Seq(Calls)] /\ script'["main"] = RecoveryOf(f)
      /\ script'["worker"] = script["worker"]
  BY <1>1, <1>2, <1>7 DEF TypeOK, Threads, Calls
<1>9. TypeOK'
  BY <1>1, <1>2, <1>5, <1>8 DEF TypeOK, Settled, Calls
<1>10. MainInv'
  BY <1>1, <1>2, <1>3 DEF MainInv
<1>11. WorkerInv' /\ QueueInv' /\ (~syncFailed' => DeliveringInv' /\ Distinct')
  BY <1>1, <1>8, SettledWorker
<1>12. RecoverInv'
  <2>1. Left("main")' = Len(RecoveryOf(f))
    BY <1>8 DEF Left
  <2>2. Left("main")' >= 3 => f \in VD'
    BY <1>5, <1>7, <2>1
  <2>3. \A g \in Both' : g \in names' \/ (g = f /\ Left("main")' = 4)
    BY <1>1, <1>5, <1>6, <1>7, <2>1 DEF Both
  <2> QED
    BY <1>1, <1>7, <1>8, <2>2, <2>3 DEF RecoverInv
<1>13. ExecutedInv' /\ HandedInv' /\ (~syncFailed' => AckedInv')
  BY <1>1, SettledLinks
<1>14. PreparedInv' /\ CommitInv'
  BY <1>1, <1>4 DEF PreparedInv, CommitInv, Nothing
<1>15. SyncedInv'
  BY <1>1, <1>3, <1>11, <1>13 DEF SyncedInv, PendingIsQueued
<1> QED
  BY <1>9, <1>10, <1>11, <1>12, <1>13, <1>14, <1>15 DEF IndInv, LinkInv

\* Recovery is over: no frame has both links, and the pending ones are queued.
LEMMA OpenedStep ==
  ASSUME IndInv, Opened
  PROVE  IndInv'
<1>1. /\ op["main"] = "recover" /\ script["main"] = <<>> /\ Finish("main")
      /\ names = {} /\ status' = "open" /\ queue' \in InClockOrder(VP)
      /\ attempt' = 0 /\ cursor' \in 0 .. NFrames /\ givenUp' = {}
      /\ names' = names /\ staged' = staged /\ faults' = faults /\ Settled
  BY DEF Opened, Returns, Settled, VP
<1>2. /\ TypeOK /\ MainInv /\ WorkerInv /\ RecoverInv /\ SyncedInv
  BY DEF IndInv, LinkInv
<1>3. status = "recovering"
  BY <1>1, <1>2 DEF MainInv
<1>4. staged = Nothing /\ op["worker"] = "none" /\ script["worker"] = <<>>
  BY <1>3, NotOpen
<1>5. /\ VP' = VP /\ VD' = VD /\ Both' = Both /\ visible' = visible
      /\ durable' = durable
  BY <1>1, SameLinks DEF Settled, Quiet
<1>6. Both = {}
  <2>1. Left("main") = 0
    BY <1>1 DEF Left
  <2> QED
    BY <1>1, <1>2, <1>3, <2>1 DEF RecoverInv
<1>7. /\ queue' \in Seq(Frames) /\ Queued' = VP
      /\ \A i, j \in DOMAIN queue' : queue'[i] = queue'[j] => i = j
  <2>1. VP \subseteq Frames
    BY <1>2 DEF TypeOK, VP, Dirs
  <2>2. Cardinality(VP) \in Nat
    <3>1. IsFiniteSet(Frames)
      BY ConstantFacts, FS_Interval
    <3> QED
      BY <2>1, <3>1, FS_Subset, FS_CardinalityType
  <2>3. /\ queue' \in [1 .. Cardinality(VP) -> VP] /\ Range(queue') = VP
        /\ \A i, j \in DOMAIN queue' : i < j => queue'[i] < queue'[j]
    BY <1>1 DEF InClockOrder
  <2>4. queue' \in Seq(Frames)
    BY <2>1, <2>2, <2>3
  <2>5. \A i, j \in DOMAIN queue' : queue'[i] = queue'[j] => i = j
    <3> TAKE i, j \in DOMAIN queue'
    <3>1. DOMAIN queue' = 1 .. Cardinality(VP)
      BY <2>3
    <3>2. queue'[i] \in VP /\ queue'[j] \in VP
      BY <2>3, <3>1
    <3>3. i \in Int /\ j \in Int /\ queue'[i] \in Int /\ queue'[j] \in Int
      <4>1. \A x \in 1 .. Cardinality(VP) : x \in Int
        BY <2>2
      <4>2. \A x \in Frames : x \in Int
        BY ConstantFacts
      <4> QED
        BY <2>1, <3>1, <3>2, <4>1, <4>2, Zenon
    <3> QED
      BY <2>3, <3>3
  <2> QED
    BY <2>3, <2>4, <2>5 DEF Queued
<1>8. /\ DOMAIN op' = Threads /\ script' \in [Threads -> Seq(Calls)]
      /\ op'["main"] = "none" /\ script'["main"] = <<>>
      /\ op'["worker"] = op["worker"] /\ script'["worker"] = script["worker"]
  BY <1>1, <1>2, MainStarts, Ends
<1>9. TypeOK'
  <2>1. attempt' \in 0 .. MaxAttempts /\ givenUp' \in SUBSET Frames
    BY <1>1, ConstantFacts
  <2>2. {handed', executed', acked', givenUp'} \subseteq SUBSET Frames
    BY <1>1, <1>2, <2>1 DEF TypeOK, Settled
  <2> QED
    BY <1>1, <1>2, <1>5, <1>7, <1>8, <2>1, <2>2 DEF TypeOK, Calls
<1>10. MainInv'
  BY <1>1, <1>8 DEF MainInv
<1>11. WorkerInv'
  BY <1>1, <1>4, <1>8, ConstantFacts DEF WorkerInv
<1>12. RecoverInv' /\ CommitInv' /\ PreparedInv'
  BY <1>1, <1>4, <1>8 DEF RecoverInv, CommitInv, PreparedInv, Nothing
<1>13. QueueInv'
  BY <1>5, <1>7 DEF QueueInv
<1>14. ExecutedInv' /\ HandedInv' /\ (~syncFailed' => AckedInv')
  BY <1>1, SettledLinks
<1>15. SyncedInv'
  <2> SUFFICES ASSUME ~syncFailed'
               PROVE  DeliveringInv' /\ Distinct' /\ PendingIsQueued'
    BY <1>14 DEF SyncedInv
  <2>1. Queued' \cap VD' = {} /\ Both' = {}
    BY <1>5, <1>6, <1>7 DEF Both
  <2>2. Queued' \cap acked' = {}
    BY <1>1, <1>14, <2>1 DEF AckedInv
  <2>3. DeliveringInv'
    BY <1>4, <1>8, <2>1, <2>2 DEF DeliveringInv
  <2>4. Distinct'
    BY <1>7 DEF Distinct
  <2>5. PendingIsQueued'
    BY <1>5, <1>7 DEF PendingIsQueued, VP, Queued
  <2> QED
    BY <2>3, <2>4, <2>5
<1> QED
  BY <1>9, <1>10, <1>11, <1>12, <1>13, <1>14, <1>15 DEF IndInv, LinkInv

\* The run closes with an empty queue.
LEMMA CloseStep ==
  ASSUME IndInv, Close
  PROVE  IndInv'
<1>1. /\ staged = Nothing /\ queue = <<>> /\ op["main"] = "none"
      /\ op["worker"] = "none" /\ status' = "closed" /\ Settled
      /\ op' = op /\ script' = script /\ names' = names /\ cursor' = cursor
      /\ staged' = staged /\ queue' = queue /\ attempt' = attempt
      /\ givenUp' = givenUp /\ faults' = faults
  BY DEF Close, Settled, history, threads, Free, Threads
<1>2. TypeOK /\ MainInv /\ WorkerInv /\ SyncedInv /\ QueueInv
  BY DEF IndInv, LinkInv
<1>3. /\ VP' = VP /\ VD' = VD /\ visible' = visible /\ durable' = durable
  BY <1>1, SameLinks DEF Settled, Quiet
<1>4. TypeOK'
  BY <1>1, <1>2, <1>3 DEF TypeOK, Settled
<1>5. MainInv'
  BY <1>1, <1>2 DEF MainInv
<1>6. WorkerInv'
  BY <1>1, <1>2 DEF WorkerInv
<1>7. RecoverInv' /\ CommitInv' /\ PreparedInv'
  BY <1>1 DEF RecoverInv, CommitInv, PreparedInv, Nothing
<1>8. QueueInv'
  BY <1>1, <1>2, <1>3 DEF QueueInv, Queued
<1>9. ExecutedInv' /\ HandedInv' /\ (~syncFailed' => AckedInv')
  BY <1>1, SettledLinks
<1>10. SyncedInv'
  BY <1>1, <1>2, <1>9
     DEF Settled, SyncedInv, DeliveringInv, Distinct, PendingIsQueued
<1> QED
  BY <1>4, <1>5, <1>6, <1>7, <1>8, <1>9, <1>10 DEF IndInv, LinkInv

\* prepare() begins.
LEMMA PrepareStep ==
  ASSUME IndInv, NEW f \in Frames, Prepare(f)
  PROVE  IndInv'
<1>1. /\ status = "open" /\ op["main"] = "none"
      /\ staged' = [frame |-> f, state |-> "prepared"]
      /\ Start("main", "prepare", PrepareCalls(f)) /\ Settled
      /\ status' = status /\ names' = names /\ cursor' = cursor /\ queue' = queue
      /\ attempt' = attempt /\ givenUp' = givenUp /\ faults' = faults
  BY DEF Prepare, Idle, Free, PrepareCalls, Settled, history
<1>2. TypeOK /\ SyncedInv
  BY DEF IndInv
<1>3. /\ staged'.frame = f /\ staged' # Nothing
      /\ staged' \in [frame : Frames, state : Dirs \cup {"undoing"}]
  BY <1>1 DEF Nothing, Dirs
<1>4. PrepareCalls(f) \in Seq(Calls) /\ Len(PrepareCalls(f)) = 6
  BY PrepareScript
<1>5. /\ DOMAIN op' = Threads /\ script' \in [Threads -> Seq(Calls)]
      /\ op'["main"] = "prepare" /\ script'["main"] = PrepareCalls(f)
      /\ op'["worker"] = op["worker"] /\ script'["worker"] = script["worker"]
      /\ Left("main")' = 6
  BY <1>1, <1>2, <1>4, MainStarts
<1>6. VP' = VP /\ visible' = visible /\ durable' = durable
  BY <1>1, SameLinks DEF Settled, Quiet
<1>7. TypeOK'
  BY <1>1, <1>2, <1>3, <1>5, <1>6 DEF TypeOK, Settled, Calls
<1>8. MainInv'
  BY <1>1, <1>3, <1>4, <1>5, RestEnds DEF MainInv
<1>9. WorkerInv' /\ QueueInv' /\ (~syncFailed' => DeliveringInv' /\ Distinct')
  BY <1>1, <1>5, SettledWorker
<1>10. ExecutedInv' /\ HandedInv' /\ (~syncFailed' => AckedInv')
  BY <1>1, SettledLinks
<1>11. RecoverInv' /\ CommitInv' /\ PreparedInv'
  BY <1>1, <1>5 DEF RecoverInv, CommitInv, PreparedInv
<1>12. SyncedInv'
  BY <1>1, <1>2, <1>6, <1>9, <1>10 DEF Settled, SyncedInv, PendingIsQueued
<1> QED
  BY <1>7, <1>8, <1>9, <1>10, <1>11, <1>12 DEF IndInv, LinkInv

\* prepare() returns: a frame in state prepared is not pending.
LEMMA PrepareReturnsStep ==
  ASSUME IndInv, PrepareReturns
  PROVE  IndInv'
<1>1. /\ op["main"] = "prepare" /\ script["main"] = <<>> /\ Finish("main")
      /\ Settled /\ status' = status /\ names' = names /\ cursor' = cursor
      /\ staged' = staged /\ queue' = queue /\ attempt' = attempt
      /\ givenUp' = givenUp /\ faults' = faults
  BY DEF PrepareReturns, Returns, Settled, history
<1>2. TypeOK /\ PreparedInv /\ SyncedInv /\ status = "open"
  BY <1>1, StagedFrame DEF IndInv, LinkInv
<1>3. /\ DOMAIN op' = Threads /\ script' \in [Threads -> Seq(Calls)]
      /\ op'["main"] = "none" /\ script'["main"] = <<>>
      /\ op'["worker"] = op["worker"] /\ script'["worker"] = script["worker"]
  BY <1>1, <1>2, MainStarts, Ends
<1>4. VP' = VP /\ visible' = visible /\ durable' = durable
  BY <1>1, SameLinks DEF Settled, Quiet
<1>5. TypeOK'
  BY <1>1, <1>2, <1>3, <1>4 DEF TypeOK, Settled, Calls
<1>6. MainInv' /\ RecoverInv' /\ CommitInv'
  BY <1>1, <1>2, <1>3 DEF MainInv, RecoverInv, CommitInv
<1>7. WorkerInv' /\ QueueInv' /\ (~syncFailed' => DeliveringInv' /\ Distinct')
  BY <1>1, <1>3, SettledWorker
<1>8. ExecutedInv' /\ HandedInv' /\ (~syncFailed' => AckedInv')
  BY <1>1, SettledLinks
<1>9. PreparedInv'
  <2>1. Left("main") = 0
    BY <1>1 DEF Left
  <2> QED
    BY <1>1, <1>2, <1>4, <2>1 DEF PreparedInv
<1>10. SyncedInv'
  BY <1>1, <1>2, <1>3, <1>4, <1>7, <1>8 DEF Settled, SyncedInv, PendingIsQueued
<1> QED
  BY <1>5, <1>6, <1>7, <1>8, <1>9, <1>10 DEF IndInv, LinkInv

\* The main thread is at rest and has no frame that it could still commit.
LEMMA AtRest ==
  ASSUME IndInv, Settled, status = "open", status' = status, names' = names,
         cursor' \in 0 .. NFrames, queue' = queue, attempt' = attempt,
         givenUp' = givenUp, faults' = faults, op["main"] # "commit",
         \/ staged' = Nothing
         \/ staged' = staged /\ staged.state = "undoing",
         DOMAIN op' = Threads, script' \in [Threads -> Seq(Calls)],
         op'["main"] = "none", script'["main"] = <<>>,
         op'["worker"] = op["worker"], script'["worker"] = script["worker"]
  PROVE  IndInv'
<1>1. TypeOK /\ SyncedInv
  BY DEF IndInv
<1>2. VP' = VP /\ visible' = visible /\ durable' = durable
  BY SameLinks DEF Settled, Quiet
<1>3. TypeOK'
  BY <1>1, <1>2 DEF TypeOK, Settled, Calls
<1>4. MainInv' /\ RecoverInv' /\ CommitInv'
  BY DEF MainInv, RecoverInv, CommitInv
<1>5. WorkerInv' /\ QueueInv' /\ (~syncFailed' => DeliveringInv' /\ Distinct')
  BY SettledWorker
<1>6. ExecutedInv' /\ HandedInv' /\ (~syncFailed' => AckedInv')
  BY SettledLinks
<1>7. PreparedInv'
  BY DEF PreparedInv, Nothing
<1>8. SyncedInv'
  BY <1>1, <1>2, <1>5, <1>6 DEF Settled, SyncedInv, PendingIsQueued
<1> QED
  BY <1>3, <1>4, <1>5, <1>6, <1>7, <1>8 DEF IndInv, LinkInv

\* The step is undone.
LEMMA DiscardStep ==
  ASSUME IndInv, Discard
  PROVE  IndInv'
<1>1. /\ status = "open" /\ op["main"] = "none" /\ staged # Nothing /\ Settled
      /\ status' = status /\ names' = names /\ cursor' = cursor /\ queue' = queue
      /\ attempt' = attempt /\ givenUp' = givenUp /\ faults' = faults
  BY DEF Discard, Idle, Free, Settled, history
<1>2. TypeOK /\ MainInv /\ SyncedInv
  BY DEF IndInv
<1>3. script["main"] = <<>> /\ cursor \in 0 .. NFrames
  BY <1>1, <1>2 DEF MainInv, TypeOK
<1>4. CASE staged.state \notin {"prepared", "undoing"}
  <2>1. staged' = Nothing /\ op' = op /\ script' = script
    BY <1>4 DEF Discard, threads
  <2>2. DOMAIN op = Threads /\ script \in [Threads -> Seq(Calls)]
    BY <1>2 DEF TypeOK, Calls
  <2> QED
    BY <1>1, <1>3, <2>1, <2>2, AtRest
<1>5. CASE staged.state \in {"prepared", "undoing"}
  <2> DEFINE f == staged.frame
  <2>1. /\ staged' = [staged EXCEPT !.state = "undoing"]
        /\ Start("main", "discard", DiscardCalls(f))
    BY <1>5 DEF Discard, DiscardCalls
  <2>2. staged \in [frame : Frames, state : Dirs \cup {"undoing"}]
    BY <1>1, <1>2 DEF TypeOK
  <2>3. /\ staged' \in [frame : Frames, state : Dirs \cup {"undoing"}]
        /\ staged'.frame = f /\ staged'.state = "undoing" /\ f \in Frames
        /\ staged' # Nothing
    BY <2>1, <2>2 DEF Nothing
  <2>4. DiscardCalls(f) \in Seq(Calls)
    BY <2>3, DiscardScript
  <2>5. /\ DOMAIN op' = Threads /\ script' \in [Threads -> Seq(Calls)]
        /\ op'["main"] = "discard" /\ script'["main"] = DiscardCalls(f)
        /\ op'["worker"] = op["worker"] /\ script'["worker"] = script["worker"]
    BY <1>2, <2>1, <2>4, MainStarts
  <2>6. VP' = VP /\ visible' = visible /\ durable' = durable
    BY <1>1, SameLinks DEF Settled, Quiet
  <2>7. TypeOK'
    BY <1>1, <1>2, <2>3, <2>5, <2>6 DEF TypeOK, Settled, Calls
  <2>8. MainInv'
    BY <1>1, <2>3, <2>4, <2>5, RestEnds DEF MainInv
  <2>9. WorkerInv' /\ QueueInv' /\ (~syncFailed' => DeliveringInv' /\ Distinct')
    BY <1>1, <2>5, SettledWorker
  <2>10. ExecutedInv' /\ HandedInv' /\ (~syncFailed' => AckedInv')
    BY <1>1, SettledLinks
  <2>11. RecoverInv' /\ CommitInv' /\ PreparedInv'
    BY <1>1, <2>3, <2>5 DEF RecoverInv, CommitInv, PreparedInv
  <2>12. SyncedInv'
    BY <1>1, <1>2, <2>6, <2>9, <2>10 DEF Settled, SyncedInv, PendingIsQueued
  <2> QED
    BY <2>7, <2>8, <2>9, <2>10, <2>11, <2>12 DEF IndInv, LinkInv
<1> QED
  BY <1>4, <1>5

\* discard_prepared() returns, or refuses.
LEMMA DiscardEndsStep ==
  ASSUME IndInv, DiscardReturns \/ DiscardRefused
  PROVE  IndInv'
<1>1. /\ op["main"] = "discard" /\ Finish("main") /\ Settled
      /\ status' = status /\ names' = names /\ cursor' = cursor /\ queue' = queue
      /\ attempt' = attempt /\ givenUp' = givenUp /\ faults' = faults
      /\ staged' = Nothing \/ staged' = staged
  BY DEF DiscardReturns, DiscardRefused, Returns, Settled, history
<1>2. TypeOK /\ status = "open" /\ staged.state = "undoing" /\ cursor \in 0 .. NFrames
  BY <1>1, StagedFrame DEF IndInv, MainInv, TypeOK
<1>3. /\ DOMAIN op' = Threads /\ script' \in [Threads -> Seq(Calls)]
      /\ op'["main"] = "none" /\ script'["main"] = <<>>
      /\ op'["worker"] = op["worker"] /\ script'["worker"] = script["worker"]
  BY <1>1, <1>2, MainStarts, Ends
<1> QED
  BY <1>1, <1>2, <1>3, AtRest

\* The step is final: commit() begins for a frame in state prepared.
LEMMA CommitStep ==
  ASSUME IndInv, Commit
  PROVE  IndInv'
<1>1. /\ status = "open" /\ op["main"] = "none" /\ staged.state \in Dirs /\ Settled
      /\ status' = status /\ names' = names /\ cursor' = staged.frame
      /\ queue' = queue /\ attempt' = attempt /\ givenUp' = givenUp
      /\ faults' = faults
  BY DEF Commit, Idle, Free, Settled, history
<1>2. TypeOK /\ MainInv /\ PreparedInv /\ SyncedInv
  BY DEF IndInv, LinkInv
<1>3. /\ staged # Nothing /\ staged.frame \in Frames
      /\ staged \in [frame : Frames, state : Dirs \cup {"undoing"}]
  BY <1>1, <1>2 DEF TypeOK, Nothing, Dirs
<1>4. script["main"] = <<>> /\ cursor' \in 0 .. NFrames
  BY <1>1, <1>2, <1>3, ConstantFacts DEF MainInv
<1>5. CASE staged.state # "prepared"
  <2>1. staged' = Nothing /\ op' = op /\ script' = script
    BY <1>5 DEF Commit, threads
  <2>2. DOMAIN op = Threads /\ script \in [Threads -> Seq(Calls)]
    BY <1>2 DEF TypeOK, Calls
  <2> QED
    BY <1>1, <1>4, <2>1, <2>2, AtRest
<1>6. CASE staged.state = "prepared"
  <2> DEFINE f == staged.frame
  <2>1. staged' = staged /\ Start("main", "commit", CommitCalls(f))
    BY <1>6 DEF Commit, CommitCalls
  <2>2. CommitCalls(f) \in Seq(Calls) /\ Len(CommitCalls(f)) = 6
    BY <1>3, CommitScript
  <2>3. /\ DOMAIN op' = Threads /\ script' \in [Threads -> Seq(Calls)]
        /\ op'["main"] = "commit" /\ script'["main"] = CommitCalls(f)
        /\ op'["worker"] = op["worker"] /\ script'["worker"] = script["worker"]
        /\ Left("main")' = 6
    BY <1>2, <2>1, <2>2, MainStarts
  <2>4. VP' = VP /\ visible' = visible /\ durable' = durable
    BY <1>1, SameLinks DEF Settled, Quiet
  <2>5. TypeOK'
    BY <1>1, <1>2, <1>4, <2>1, <2>3, <2>4 DEF TypeOK, Settled, Calls
  <2>6. MainInv'
    BY <1>1, <1>3, <2>1, <2>2, <2>3, RestEnds DEF MainInv
  <2>7. WorkerInv' /\ QueueInv' /\ (~syncFailed' => DeliveringInv' /\ Distinct')
    BY <1>1, <2>3, SettledWorker
  <2>8. ExecutedInv' /\ HandedInv' /\ (~syncFailed' => AckedInv')
    BY <1>1, SettledLinks
  <2>9. PreparedInv'
    BY <1>1, <1>2, <1>6, <2>1, <2>4 DEF PreparedInv
  <2>10. RecoverInv' /\ CommitInv'
    BY <1>1, <1>6, <2>1, <2>3 DEF RecoverInv, CommitInv
  <2>11. SyncedInv'
    BY <1>1, <1>2, <2>4, <2>7, <2>8 DEF Settled, SyncedInv, PendingIsQueued
  <2> QED
    BY <2>5, <2>6, <2>7, <2>8, <2>9, <2>10, <2>11 DEF IndInv, LinkInv
<1> QED
  BY <1>5, <1>6

-----------------------------------------------------------------------------
(* The queue.                                                              *)

NoRepeats(q) == \A i, j \in DOMAIN q : q[i] = q[j] => i = j

\* A frame goes to the end of the queue.
LEMMA AppendFacts ==
  ASSUME NEW q \in Seq(Frames), NEW f \in Frames
  PROVE  LET r == Append(q, f) IN
         /\ r \in Seq(Frames) /\ r # <<>> /\ Range(r) = Range(q) \cup {f}
         /\ q # <<>> => Head(r) = Head(q)
         /\ NoRepeats(q) /\ f \notin Range(q) => NoRepeats(r)
<1> DEFINE r == Append(q, f)
           n == Len(q)
<1>1. /\ r \in Seq(Frames) /\ Len(r) = n + 1 /\ n \in Nat
      /\ \A i \in 1 .. n : r[i] = q[i]
      /\ r[n + 1] = f /\ DOMAIN q = 1 .. n /\ DOMAIN r = 1 .. n + 1
  OBVIOUS
<1> HIDE DEF r, n
<1>2. \A i \in 1 .. n + 1 : i \in 1 .. n \/ i = n + 1
  BY <1>1
<1>3. \A i \in 1 .. n : i \in 1 .. n + 1
  BY <1>1
<1>4. n + 1 \in 1 .. n + 1
  BY <1>1
<1>5. Range(r) = Range(q) \cup {f}
  <2>1. Range(r) \subseteq Range(q) \cup {f}
    BY <1>1, <1>2 DEF Range
  <2>2. Range(q) \cup {f} \subseteq Range(r)
    BY <1>1, <1>3, <1>4 DEF Range
  <2> QED
    BY <2>1, <2>2
<1>6. NoRepeats(q) /\ f \notin Range(q) => NoRepeats(r)
  <2> SUFFICES ASSUME NoRepeats(q), f \notin Range(q),
                      NEW i \in 1 .. n + 1, NEW j \in 1 .. n + 1, r[i] = r[j]
               PROVE  i = j
    BY <1>1 DEF NoRepeats
  <2>1. \A k \in 1 .. n : r[k] # f
    BY <1>1 DEF Range
  <2>2. CASE i \in 1 .. n /\ j \in 1 .. n
    BY <1>1, <2>2 DEF NoRepeats
  <2>3. CASE i = n + 1 \/ j = n + 1
    BY <1>1, <1>2, <2>1, <2>3
  <2> QED
    BY <1>2, <2>2, <2>3
<1>7. r # <<>>
  <2>1. Len(r) > 0
    BY <1>1
  <2>2. \A x : x = <<>> => Len(x) = 0
    OBVIOUS
  <2> QED
    BY <1>1, <2>1, <2>2
<1>8. q # <<>> => Head(r) = Head(q)
  <2> SUFFICES ASSUME q # <<>>
               PROVE  Head(r) = Head(q)
    OBVIOUS
  <2>1. n >= 1
    BY DEF n
  <2>2. Head(q) = q[1] /\ Head(r) = r[1]
    BY <1>1, <1>7
  <2> QED
    BY <1>1, <2>1, <2>2
<1> QED
  BY <1>1, <1>5, <1>6, <1>7, <1>8 DEF r

\* The worker is done with the first frame.
LEMMA TailFacts ==
  ASSUME NEW q \in Seq(Frames), q # <<>>
  PROVE  /\ Tail(q) \in Seq(Frames) /\ Head(q) \in Range(q)
         /\ Range(q) = Range(Tail(q)) \cup {Head(q)}
         /\ NoRepeats(q) => NoRepeats(Tail(q)) /\ Head(q) \notin Range(Tail(q))
<1> DEFINE r == Tail(q)
           n == Len(q)
<1>1. /\ r \in Seq(Frames) /\ Len(r) = n - 1 /\ n \in Nat /\ n >= 1
      /\ \A i \in 1 .. n - 1 : r[i] = q[i + 1]
      /\ Head(q) = q[1] /\ DOMAIN q = 1 .. n /\ DOMAIN r = 1 .. n - 1
  OBVIOUS
<1> HIDE DEF r, n
<1>2. \A i \in 1 .. n : i = 1 \/ (i - 1 \in 1 .. n - 1 /\ (i - 1) + 1 = i)
  BY <1>1
<1>3. \A i \in 1 .. n - 1 : i + 1 \in 1 .. n /\ i + 1 # 1
  BY <1>1
<1>4. 1 \in 1 .. n
  BY <1>1
<1>5. Head(q) \in Range(q)
  BY <1>1, <1>4 DEF Range
<1>6. Range(q) = Range(r) \cup {Head(q)}
  <2>1. Range(q) \subseteq Range(r) \cup {Head(q)}
    <3> SUFFICES ASSUME NEW i \in 1 .. n, i # 1
                 PROVE  q[i] \in Range(r)
      BY <1>1 DEF Range
    <3>1. i - 1 \in DOMAIN r /\ r[i - 1] = q[i]
      BY <1>1, <1>2
    <3> QED
      BY <3>1 DEF Range
  <2>2. Range(r) \subseteq Range(q)
    BY <1>1, <1>3 DEF Range
  <2> QED
    BY <1>5, <2>1, <2>2
<1>7. ASSUME NoRepeats(q)
      PROVE  NoRepeats(r) /\ Head(q) \notin Range(r)
  <2>1. \A i, j \in 1 .. n : q[i] = q[j] => i = j
    BY <1>1, <1>7 DEF NoRepeats
  <2>2. NoRepeats(r)
    <3> SUFFICES ASSUME NEW i \in 1 .. n - 1, NEW j \in 1 .. n - 1, r[i] = r[j]
                 PROVE  i = j
      BY <1>1 DEF NoRepeats
    <3>1. i + 1 = j + 1
      BY <1>1, <1>3, <2>1
    <3> QED
      BY <1>1, <3>1
  <2>3. Head(q) \notin Range(r)
    <3> SUFFICES ASSUME NEW i \in 1 .. n - 1, r[i] = q[1]
                 PROVE  FALSE
      BY <1>1 DEF Range
    <3> QED
      BY <1>1, <1>3, <1>4, <2>1
  <2> QED
    BY <2>2, <2>3
<1> QED
  BY <1>1, <1>5, <1>6, <1>7 DEF r

\* commit() returns: the frame has a durable pending link or was executed, and is
\* queued once, or reported as failed.
LEMMA CommitReturnsStep ==
  ASSUME IndInv, CommitReturns \/ SubmissionFails
  PROVE  IndInv'
<1> DEFINE f == staged.frame
<1>1. /\ op["main"] = "commit" /\ script["main"] = <<>> /\ Finish("main")
      /\ staged' = Nothing /\ handed' = handed \cup {f}
      /\ \/ queue' = Submitted(f, staged.state) /\ givenUp' = givenUp
         \/ queue' = queue /\ givenUp' = givenUp \cup {f}
      /\ UNCHANGED links
      /\ status' = status /\ names' = names /\ cursor' = cursor
      /\ attempt' = attempt /\ executed' = executed /\ acked' = acked
      /\ syncFailed' = syncFailed /\ faults' = faults
  BY DEF CommitReturns, SubmissionFails, Returns
<1>2. /\ TypeOK /\ WorkerInv /\ ExecutedInv /\ HandedInv /\ CommitInv /\ QueueInv
      /\ SyncedInv
  BY DEF IndInv, LinkInv
<1>3. status = "open" /\ f \in Frames /\ Left("main") = 0
  BY <1>1, StagedFrame DEF Left
<1>4. /\ VP' = VP /\ VD' = VD /\ SP' = SP /\ SD' = SD /\ Both' = Both
      /\ visible' = visible /\ durable' = durable
  BY <1>1, SameLinks DEF Quiet
<1>5. /\ DOMAIN op' = Threads /\ script' \in [Threads -> Seq(Calls)]
      /\ op'["main"] = "none" /\ script'["main"] = <<>>
      /\ op'["worker"] = op["worker"] /\ script'["worker"] = script["worker"]
      /\ Left("worker")' = Left("worker")
  BY <1>1, <1>2, MainStarts, Ends
<1>6. \/ staged.state = "delivered" /\ f \in VD /\ queue' = queue
      \/ /\ staged.state = "prepared" /\ f \in VP /\ f \in SP /\ f \notin Queued
         /\ queue' = Append(queue, f) \/ (queue' = queue /\ f \in givenUp')
  BY <1>1, <1>2, <1>3 DEF CommitInv, Submitted
<1> HIDE DEF f
<1>7. /\ queue \in Seq(Frames) /\ queue' \in Seq(Frames)
      /\ Queued \subseteq Queued' /\ Queued' \subseteq Queued \cup {f}
      /\ queue # <<>> => queue' # <<>> /\ Head(queue') = Head(queue)
      /\ NoRepeats(queue) => NoRepeats(queue')
      /\ queue' = queue \/ f \in Queued'
  <2>1. queue \in Seq(Frames)
    BY <1>2 DEF TypeOK
  <2>2. CASE queue' = queue
    BY <2>1, <2>2 DEF Queued
  <2>3. CASE queue' = Append(queue, f) /\ f \notin Queued
    BY <1>3, <2>1, <2>3, AppendFacts DEF Queued
  <2> QED
    BY <1>6, <2>2, <2>3
<1>8. TypeOK'
  <2>1. handed' \in SUBSET Frames
    BY <1>1, <1>2, <1>3 DEF TypeOK
  <2>2. {handed', executed', acked', givenUp'} \subseteq SUBSET Frames
    BY <1>1, <1>2, <1>3, <2>1 DEF TypeOK
  <2> QED
    BY <1>1, <1>2, <1>4, <1>5, <1>7, <2>2 DEF TypeOK, Calls
<1>9. MainInv' /\ RecoverInv' /\ CommitInv'
  BY <1>1, <1>3, <1>5 DEF MainInv, RecoverInv, CommitInv
<1>10. PreparedInv'
  BY <1>1 DEF PreparedInv, Nothing
<1>11. WorkerInv'
  <2>1. /\ queue' = <<>> => attempt' = 0
    BY <1>1, <1>2, <1>7 DEF WorkerInv
  <2>2. op'["worker"] = "delivered" =>
          /\ queue' # <<>> /\ Head(queue') = Head(queue) /\ attempt > 0
          /\ Rest(script["worker"], DeliveredCalls(Head(queue)))
          /\ Head(queue) \in executed
          /\ Left("worker") <= 7 => Head(queue) \in VD
    BY <1>2, <1>5, <1>7 DEF WorkerInv
  <2>3. op'["worker"] = "none" => script["worker"] = <<>> /\ attempt < MaxAttempts
    BY <1>2, <1>5 DEF WorkerInv
  <2> QED
    BY <1>1, <1>3, <1>4, <1>5, <2>1, <2>2, <2>3 DEF WorkerInv
<1>12. ExecutedInv'
  BY <1>1, <1>2, <1>4 DEF ExecutedInv
<1>13. HandedInv'
  BY <1>1, <1>2, <1>4, <1>6 DEF HandedInv, ExecutedInv
<1>14. QueueInv'
  BY <1>2, <1>4, <1>6, <1>7 DEF QueueInv, Queued
<1>15. SyncedInv'
  <2> SUFFICES ASSUME ~syncFailed
               PROVE  AckedInv' /\ DeliveringInv' /\ Distinct' /\ PendingIsQueued'
    BY <1>1 DEF SyncedInv
  <2>1. AckedInv /\ DeliveringInv /\ Distinct /\ PendingIsQueued
    BY <1>2 DEF SyncedInv
  <2>2. AckedInv'
    BY <1>1, <1>4, <2>1 DEF AckedInv
  <2>3. Distinct'
    BY <1>7, <2>1 DEF Distinct, NoRepeats
  <2>4. queue # <<>> => Head(queue) \in Queued
    BY <1>7, HeadQueued
  <2>5. Both \subseteq Queued
    BY <1>3, <2>1, <2>4 DEF DeliveringInv
  <2>6. queue' # queue => f \notin VD /\ f \notin acked
    BY <1>6, <2>1, <2>5 DEF Both, AckedInv
  <2>7. Queued' \cap VD = Queued \cap VD /\ Queued' \cap acked = Queued \cap acked
    BY <1>7, <2>6 DEF Queued
  <2>8. op["worker"] = "delivered" => queue # <<>>
    BY <1>2 DEF WorkerInv
  <2>9. DeliveringInv'
    BY <1>1, <1>3, <1>4, <1>5, <1>7, <2>1, <2>7, <2>8 DEF DeliveringInv
  <2>10. f \in VP => f \in Queued' \/ f \in givenUp'
    BY <1>6, <1>7, <2>5 DEF Both
  <2>11. PendingIsQueued'
    BY <1>1, <1>3, <1>4, <1>7, <2>1, <2>10 DEF PendingIsQueued, VP, Queued, f
  <2> QED
    BY <2>2, <2>3, <2>9, <2>11
<1> QED
  BY <1>8, <1>9, <1>10, <1>11, <1>12, <1>13, <1>14, <1>15 DEF IndInv, LinkInv

\* The provider executes the first frame and delivered() begins.
LEMMA DeliverStep ==
  ASSUME IndInv, Deliver
  PROVE  IndInv'
<1> DEFINE h == Head(queue)
<1>1. /\ status = "open" /\ op["worker"] = "none" /\ queue # <<>>
      /\ executed' = executed \cup {h} /\ attempt' = attempt + 1
      /\ Start("worker", "delivered", DeliveredCalls(h)) /\ UNCHANGED links
      /\ status' = status /\ names' = names /\ cursor' = cursor /\ staged' = staged
      /\ queue' = queue /\ handed' = handed /\ acked' = acked
      /\ givenUp' = givenUp /\ syncFailed' = syncFailed /\ faults' = faults
  BY DEF Deliver, Free
<1>2. /\ TypeOK /\ MainInv /\ WorkerInv /\ RecoverInv /\ ExecutedInv /\ HandedInv
      /\ PreparedInv /\ CommitInv /\ QueueInv /\ SyncedInv
  BY DEF IndInv, LinkInv
<1>3. h \in Frames /\ h \in Queued
  BY <1>1, <1>2, HeadQueued DEF TypeOK
<1>4. DeliveredCalls(h) \in Seq(Calls) /\ Len(DeliveredCalls(h)) = 9
  BY <1>3, DeliveredScript
<1>5. /\ DOMAIN op' = Threads /\ script' \in [Threads -> Seq(Calls)]
      /\ op'["worker"] = "delivered" /\ script'["worker"] = DeliveredCalls(h)
      /\ op'["main"] = op["main"] /\ script'["main"] = script["main"]
      /\ Left("worker")' = 9 /\ Left("main")' = Left("main")
  <2>1. /\ DOMAIN op' = Threads /\ script' \in [Threads -> Seq(Calls)]
        /\ op'["worker"] = "delivered" /\ script'["worker"] = DeliveredCalls(h)
        /\ op'["main"] = op["main"] /\ script'["main"] = script["main"]
        /\ Left("worker")' = Len(DeliveredCalls(h))
        /\ Left("main")' = Left("main")
    BY <1>1, <1>2, <1>4, WorkerStarts, Zenon
  <2> QED
    BY <1>4, <2>1, Zenon
<1>6. /\ VP' = VP /\ VD' = VD /\ SP' = SP /\ SD' = SD /\ Both' = Both
      /\ visible' = visible /\ durable' = durable /\ Queued' = Queued /\ h' = h
  BY <1>1, SameLinks DEF Quiet, Queued
<1>7. attempt < MaxAttempts /\ attempt \in 0 .. MaxAttempts
  BY <1>1, <1>2 DEF WorkerInv, TypeOK
<1>8. attempt' \in 0 .. MaxAttempts /\ attempt' > 0
  BY <1>1, <1>7, ConstantFacts
<1>9. TypeOK'
  <2>1. {handed', executed', acked', givenUp'} \subseteq SUBSET Frames
    BY <1>1, <1>2, <1>3 DEF TypeOK
  <2> QED
    BY <1>1, <1>2, <1>5, <1>6, <1>8, <2>1 DEF TypeOK, Calls
<1>10. MainInv'
  BY <1>1, <1>2, <1>5, MainKept
<1>11. WorkerInv'
  BY <1>1, <1>4, <1>5, <1>8, RestEnds DEF WorkerInv
<1>12. RecoverInv' /\ ExecutedInv' /\ HandedInv' /\ PreparedInv' /\ QueueInv'
  BY <1>1, <1>2, <1>5, <1>6
     DEF RecoverInv, ExecutedInv, HandedInv, PreparedInv, QueueInv
<1>13. CommitInv'
  BY <1>1, <1>2, <1>5, <1>6 DEF CommitInv
<1>14. SyncedInv'
  <2> SUFFICES ASSUME ~syncFailed
               PROVE  AckedInv' /\ DeliveringInv' /\ Distinct' /\ PendingIsQueued'
    BY <1>1 DEF SyncedInv
  <2>1. AckedInv /\ DeliveringInv /\ Distinct /\ PendingIsQueued
    BY <1>2 DEF SyncedInv
  <2>2. AckedInv' /\ Distinct'
    BY <1>1, <1>6, <2>1 DEF AckedInv, Distinct
  <2>3. Both = {} /\ Queued \cap VD = {} /\ Queued \cap acked = {}
    BY <1>1, <2>1 DEF DeliveringInv
  <2>4. DeliveringInv'
    BY <1>1, <1>5, <1>6, <2>3 DEF DeliveringInv
  <2>5. PendingIsQueued'
    BY <1>1, <1>5, <1>6, <2>1 DEF PendingIsQueued
  <2> QED
    BY <2>2, <2>4, <2>5
<1> QED
  BY <1>9, <1>10, <1>11, <1>12, <1>13, <1>14 DEF IndInv, LinkInv

\* The worker returns; it is done with the first frame or will try it again.
LEMMA WorkerRests ==
  ASSUME IndInv, status = "open", UNCHANGED links, status' = status,
         staged' = staged, handed' = handed, executed' = executed,
         op'["main"] = op["main"], script'["main"] = script["main"],
         op'["worker"] = "none", script'["worker"] = <<>>, queue # <<>>,
         \/ queue' = Tail(queue) /\ attempt' = 0
         \/ queue' = queue /\ attempt' = attempt /\ attempt < MaxAttempts
  PROVE  /\ queue' \in Seq(Frames) /\ attempt' \in 0 .. MaxAttempts
         /\ MainInv' /\ WorkerInv' /\ LinkInv'
<1>1. /\ TypeOK /\ MainInv /\ ExecutedInv /\ HandedInv /\ PreparedInv /\ CommitInv
      /\ QueueInv
  BY DEF IndInv, LinkInv
<1>2. VP' = VP /\ VD' = VD /\ SP' = SP /\ SD' = SD
  BY SameLinks DEF Quiet
<1>3. Left("main")' = Left("main")
  BY DEF Left
<1>4. queue' \in Seq(Frames) /\ Queued' \subseteq Queued
  <2>1. queue \in Seq(Frames)
    BY <1>1 DEF TypeOK
  <2>2. Tail(queue) \in Seq(Frames) /\ Range(Tail(queue)) \subseteq Range(queue)
    BY <2>1, TailFacts
  <2> QED
    BY <2>1, <2>2 DEF Queued
<1>5. attempt' \in 0 .. MaxAttempts /\ attempt' < MaxAttempts
  BY <1>1, ConstantFacts DEF TypeOK
<1>6. MainInv'
  BY <1>1, MainKept
<1>7. WorkerInv'
  <2>1. queue' = <<>> => attempt' = 0
    OBVIOUS
  <2> QED
    BY <1>5, <2>1 DEF WorkerInv
<1>8. RecoverInv' /\ ExecutedInv' /\ HandedInv' /\ QueueInv'
  BY <1>1, <1>2, <1>4 DEF RecoverInv, ExecutedInv, HandedInv, QueueInv
<1>9. PreparedInv'
  BY <1>1, <1>2, <1>3 DEF PreparedInv
<1>10. CommitInv'
  BY <1>1, <1>2, <1>3, <1>4 DEF CommitInv
<1> QED
  BY <1>4, <1>5, <1>6, <1>7, <1>8, <1>9, <1>10 DEF LinkInv

\* The worker gives the first frame up.
LEMMA GiveUpStep ==
  ASSUME IndInv, GiveUp
  PROVE  IndInv'
<1> DEFINE h == Head(queue)
<1>1. /\ status = "open" /\ op["worker"] = "none" /\ queue # <<>>
      /\ givenUp' = givenUp \cup {h} /\ queue' = Tail(queue) /\ attempt' = 0
      /\ UNCHANGED links /\ op' = op /\ script' = script
      /\ status' = status /\ names' = names /\ cursor' = cursor /\ staged' = staged
      /\ handed' = handed /\ executed' = executed /\ acked' = acked
      /\ syncFailed' = syncFailed /\ faults' = faults
  BY DEF GiveUp, Free, threads
<1>2. TypeOK /\ WorkerInv /\ SyncedInv
  BY DEF IndInv
<1>3. script["worker"] = <<>>
  BY <1>1, <1>2 DEF WorkerInv
<1>4. /\ queue' \in Seq(Frames) /\ attempt' \in 0 .. MaxAttempts
      /\ MainInv' /\ WorkerInv' /\ LinkInv'
  BY <1>1, <1>3, WorkerRests
<1>5. /\ VP' = VP /\ VD' = VD /\ SP' = SP /\ SD' = SD /\ Both' = Both
      /\ visible' = visible /\ durable' = durable
  BY <1>1, SameLinks DEF Quiet
<1>6. /\ h \in Frames /\ Queued = Queued' \cup {h}
      /\ NoRepeats(queue) => NoRepeats(queue')
  BY <1>1, <1>2, TailFacts, HeadQueued DEF TypeOK, Queued
<1>7. TypeOK'
  <2>1. {handed', executed', acked', givenUp'} \subseteq SUBSET Frames
    BY <1>1, <1>2, <1>6 DEF TypeOK
  <2> QED
    BY <1>1, <1>2, <1>4, <1>5, <2>1 DEF TypeOK
<1> HIDE DEF h
<1>8. SyncedInv'
  <2> SUFFICES ASSUME ~syncFailed
               PROVE  AckedInv' /\ DeliveringInv' /\ Distinct' /\ PendingIsQueued'
    BY <1>1 DEF SyncedInv
  <2>1. AckedInv /\ DeliveringInv /\ Distinct /\ PendingIsQueued
    BY <1>2 DEF SyncedInv
  <2>2. AckedInv' /\ Distinct'
    BY <1>1, <1>5, <1>6, <2>1 DEF AckedInv, Distinct, NoRepeats
  <2>3. Both = {} /\ Queued \cap VD = {} /\ Queued \cap acked = {}
    BY <1>1, <2>1 DEF DeliveringInv
  <2>4. DeliveringInv'
    BY <1>1, <1>5, <1>6, <2>3 DEF DeliveringInv
  <2>5. PendingIsQueued'
    BY <1>1, <1>5, <1>6, <2>1 DEF PendingIsQueued, Queued
  <2> QED
    BY <2>2, <2>4, <2>5
<1> QED
  BY <1>4, <1>7, <1>8 DEF IndInv

\* delivered() returns: the frame has a durable link in delivered and is not queued
\* a second time.
LEMMA DeliveredReturnsStep ==
  ASSUME IndInv, DeliveredReturns
  PROVE  IndInv'
<1> DEFINE h == Head(queue)
<1>1. /\ op["worker"] = "delivered" /\ script["worker"] = <<>> /\ Finish("worker")
      /\ acked' = acked \cup {h} /\ queue' = Tail(queue) /\ attempt' = 0
      /\ UNCHANGED links
      /\ status' = status /\ names' = names /\ cursor' = cursor /\ staged' = staged
      /\ handed' = handed /\ executed' = executed /\ givenUp' = givenUp
      /\ syncFailed' = syncFailed /\ faults' = faults
  BY DEF DeliveredReturns, Returns
<1>2. TypeOK /\ WorkerInv /\ SyncedInv
  BY DEF IndInv
<1>3. /\ status = "open" /\ queue # <<>> /\ Left("worker") = 0
      /\ Left("worker") <= 7 => h \in VD
  BY <1>1, <1>2 DEF WorkerInv, Left
<1>4. /\ DOMAIN op' = Threads /\ script' \in [Threads -> Seq(Calls)]
      /\ op'["worker"] = "none" /\ script'["worker"] = <<>>
      /\ op'["main"] = op["main"] /\ script'["main"] = script["main"]
  BY <1>1, <1>2, WorkerStarts, Ends
<1>5. /\ queue' \in Seq(Frames) /\ attempt' \in 0 .. MaxAttempts
      /\ MainInv' /\ WorkerInv' /\ LinkInv'
  BY <1>1, <1>3, <1>4, WorkerRests
<1>6. /\ VP' = VP /\ VD' = VD /\ SP' = SP /\ SD' = SD /\ Both' = Both
      /\ visible' = visible /\ durable' = durable
  BY <1>1, SameLinks DEF Quiet
<1>7. /\ h \in Frames /\ Queued = Queued' \cup {h}
      /\ NoRepeats(queue) => NoRepeats(queue') /\ h \notin Queued'
  BY <1>1, <1>2, <1>3, TailFacts, HeadQueued DEF TypeOK, Queued
<1>8. TypeOK'
  <2>1. {handed', executed', acked', givenUp'} \subseteq SUBSET Frames
    BY <1>1, <1>2, <1>7 DEF TypeOK
  <2> QED
    BY <1>1, <1>2, <1>4, <1>5, <1>6, <2>1 DEF TypeOK, Calls
<1>9. SyncedInv'
  <2> SUFFICES ASSUME ~syncFailed
               PROVE  AckedInv' /\ DeliveringInv' /\ Distinct' /\ PendingIsQueued'
    BY <1>1 DEF SyncedInv
  <2>1. AckedInv /\ DeliveringInv /\ Distinct /\ PendingIsQueued
    BY <1>2 DEF SyncedInv
  <2>2. NoRepeats(queue') /\ h \notin Queued'
    BY <1>7, <2>1 DEF Distinct, NoRepeats
  <2>3. /\ Both = {} /\ Queued \cap acked = {} /\ h \in SD /\ h \notin VP
        /\ \A f \in Queued \cap VD : f = h
    BY <1>1, <1>3, <2>1 DEF DeliveringInv
  <2> HIDE DEF h
  <2>4. AckedInv'
    BY <1>1, <1>3, <1>6, <2>1, <2>3 DEF AckedInv
  <2>5. Distinct'
    BY <2>2 DEF Distinct, NoRepeats
  <2>6. Both' = {} /\ Queued' \cap VD' = {} /\ Queued' \cap acked' = {}
    BY <1>1, <1>6, <1>7, <2>2, <2>3
  <2>7. DeliveringInv'
    BY <1>4, <2>6 DEF DeliveringInv
  <2>8. PendingIsQueued'
    BY <1>1, <1>3, <1>4, <1>6, <1>7, <2>1, <2>3 DEF PendingIsQueued, Queued, VP
  <2> QED
    BY <2>4, <2>5, <2>7, <2>8
<1> QED
  BY <1>5, <1>8, <1>9 DEF IndInv

-----------------------------------------------------------------------------
(* A probe finds its link.                                                 *)

\* What the step is.
LEMMA ProbeFacts ==
  ASSUME IndInv, NEW t, ProbeFinds(t), NEW calls, NEW n, NEW d, NEW f,
         At(t, calls, n, d, f)
  PROVE  /\ n = "probe" /\ f \in visible[d] /\ op[t] # "discard"
         /\ script' = [script EXCEPT ![t] = OnFound(op[t], f)]
         /\ t = "main" => staged' = [staged EXCEPT !.state = d]
         /\ t # "main" => staged' = staged
<1>1. /\ script[t] # <<>> /\ Head(script[t]).name = "probe"
      /\ Head(script[t]).frame \in visible[Head(script[t]).dir]
      /\ op[t] # "discard"
      /\ script' = [script EXCEPT ![t] = OnFound(op[t], Head(script[t]).frame)]
      /\ staged' = IF t = "main" THEN [staged EXCEPT !.state = Head(script[t]).dir]
                   ELSE staged
  BY DEF ProbeFinds, Found
<1>2. Head(script[t]) = Call(n, d, f)
  BY <1>1, RestTail DEF Left, At
<1>3. Call(n, d, f).name = n /\ Call(n, d, f).dir = d /\ Call(n, d, f).frame = f
  BY CallFacts DEF At
<1> QED
  BY <1>1, <1>2, <1>3

\* delivered() finds the frame acknowledged: the last two removals are left.
LEMMA FoundDelivered ==
  ASSUME NEW f \in Frames
  PROVE  /\ OnFound("delivered", f) \in Seq(Calls)
         /\ Len(OnFound("delivered", f)) = 4
         /\ Rest(OnFound("delivered", f), DeliveredCalls(f))
<1> DEFINE s == DeliveredCalls(f)
           r == RecoverCalls(f)
<1>1. OnFound("delivered", f) = r
  BY DEF OnFound, RecoverCalls
<1>2. /\ s \in Seq(Calls) /\ Len(s) = 9 /\ r \in Seq(Calls) /\ Len(r) = 4
      /\ r[1] = s[6] /\ r[2] = s[7] /\ r[3] = s[8] /\ r[4] = s[9]
  BY DeliveredScript, RecoverScript
<1> HIDE DEF r, s
<1>3. Rest(r, s)
  BY <1>2 DEF Rest
<1> QED
  BY <1>1, <1>2, <1>3 DEF s

\* commit() finds the frame acknowledged: one removal is left.
LEMMA FoundCommitted ==
  ASSUME NEW f \in Frames
  PROVE  /\ OnFound("commit", f) \in Seq(Calls)
         /\ Len(OnFound("commit", f)) = 2
         /\ Rest(OnFound("commit", f), CommitCalls(f))
<1> DEFINE s == CommitCalls(f)
           r == RemoveLink("prepared", f)
<1>1. OnFound("commit", f) = r
  BY DEF OnFound
<1>2. /\ s \in Seq(Calls) /\ Len(s) = 6 /\ r \in Seq(Calls) /\ Len(r) = 2
      /\ r[1] = s[5] /\ r[2] = s[6]
  BY CommitScript, RecoverScript
<1> HIDE DEF r, s
<1>3. Rest(r, s)
  BY <1>2 DEF Rest
<1> QED
  BY <1>1, <1>2, <1>3 DEF s

\* What a probe leaves alone.
LEMMA ProbeElsewhere ==
  ASSUME NEW t, ProbeFinds(t)
  PROVE  /\ Settled /\ status' = status /\ op' = op /\ names' = names
         /\ cursor' = cursor /\ queue' = queue /\ attempt' = attempt
         /\ givenUp' = givenUp /\ faults' = faults
BY DEF ProbeFinds, Settled, history

\* delivered() finds its frame in delivered only after a failed fsync.
LEMMA WorkerProbeStep ==
  ASSUME IndInv, ProbeFinds("worker")
  PROVE  IndInv'
<1> DEFINE f == Head(queue)
           s == DeliveredCalls(f)
           n == Left("worker")
<1>1. /\ Settled /\ status' = status /\ op' = op /\ names' = names
      /\ cursor' = cursor /\ queue' = queue /\ attempt' = attempt
      /\ givenUp' = givenUp /\ faults' = faults
  BY ProbeElsewhere
<1>2. /\ TypeOK /\ MainInv /\ WorkerInv /\ RecoverInv /\ PreparedInv /\ CommitInv
      /\ QueueInv /\ SyncedInv /\ script["worker"] # <<>>
  BY DEF IndInv, LinkInv, ProbeFinds, Found
<1>3. /\ op["worker"] = "delivered" /\ status = "open" /\ queue # <<>> /\ attempt > 0
      /\ Rest(script["worker"], s) /\ f \in executed
  BY <1>2 DEF WorkerInv, TypeOK
<1>4. f \in Frames /\ f \in Queued
  BY <1>2, <1>3, HeadQueued DEF TypeOK
<1> HIDE DEF f
<1>5. /\ s \in Seq(Calls) /\ Len(s) = 9
      /\ s[1] = Call("probe", "delivered", f) /\ s[2] = Call("link", "delivered", f)
      /\ s[3] = Call("sync", "delivered", f) /\ s[4] = Call("unlink", "pending", f)
      /\ s[5] = Call("sync", "pending", f) /\ s[6] = Call("unlink", "pending", f)
      /\ s[7] = Call("sync", "pending", f) /\ s[8] = Call("unlink", "prepared", f)
      /\ s[9] = Call("sync", "prepared", f)
  BY <1>4, DeliveredScript
<1> HIDE DEF s
<1>6. n \in 1 .. 9
  BY <1>2, <1>3, <1>5, RestTail DEF Left
<1>7. n = 9
  <2> SUFFICES ASSUME n # 9
               PROVE  FALSE
    OBVIOUS
  <2>1. \E k \in {"link", "unlink", "sync"}, d \in Dirs :
          s[Len(s) - n + 1] = Call(k, d, f)
    BY <1>5, <1>6 DEF Dirs
  <2>2. PICK k \in {"link", "unlink", "sync"}, d \in Dirs :
          s[Len(s) - n + 1] = Call(k, d, f)
    BY <2>1
  <2>3. At("worker", s, k, d, f)
    BY <1>3, <1>4, <1>5, <2>2 DEF At
  <2>4. k = "probe"
    BY <2>3, ProbeFacts
  <2> QED
    BY <2>4
<1>8. /\ f \in VD /\ staged' = staged
      /\ script' = [script EXCEPT !["worker"] = OnFound("delivered", f)]
  <2>1. s[Len(s) - n + 1] = Call("probe", "delivered", f)
    BY <1>5, <1>7
  <2>2. At("worker", s, "probe", "delivered", f)
    BY <1>3, <1>4, <1>5, <2>1 DEF At, Dirs
  <2>3. /\ f \in visible["delivered"]
        /\ script' = [script EXCEPT !["worker"] = OnFound(op["worker"], f)]
        /\ "worker" # "main" => staged' = staged
    BY <2>2, ProbeFacts
  <2> QED
    BY <1>3, <2>3 DEF VD
<1>9. /\ OnFound("delivered", f) \in Seq(Calls) /\ Len(OnFound("delivered", f)) = 4
      /\ Rest(OnFound("delivered", f), s)
  BY <1>4, FoundDelivered DEF s
<1>10. /\ script' \in [Threads -> Seq(Calls)]
       /\ script'["worker"] = OnFound("delivered", f)
       /\ script'["main"] = script["main"]
  BY <1>2, <1>8, <1>9 DEF TypeOK, Threads, Calls
<1>11. Left("worker")' = 4 /\ Left("main")' = Left("main")
  BY <1>9, <1>10 DEF Left
<1>12. /\ VP' = VP /\ VD' = VD /\ SP' = SP /\ SD' = SD /\ Both' = Both
       /\ visible' = visible /\ durable' = durable /\ Queued' = Queued
  BY <1>1, SameLinks DEF Settled, Quiet, Queued
<1>13. TypeOK'
  BY <1>1, <1>2, <1>8, <1>10, <1>12 DEF TypeOK, Settled, Calls
<1>14. MainInv'
  BY <1>1, <1>2, <1>8, <1>10, MainKept
<1>15. WorkerInv'
  BY <1>1, <1>3, <1>8, <1>9, <1>10, <1>12 DEF WorkerInv, Settled, f, s
<1>16. ExecutedInv' /\ HandedInv' /\ (~syncFailed' => AckedInv')
  BY <1>1, SettledLinks
<1>17. RecoverInv' /\ PreparedInv' /\ QueueInv'
  BY <1>1, <1>2, <1>3, <1>8, <1>11, <1>12 DEF RecoverInv, PreparedInv, QueueInv
<1>18. CommitInv'
  BY <1>1, <1>2, <1>8, <1>11, <1>12 DEF CommitInv
<1>19. syncFailed
  BY <1>2, <1>3, <1>4, <1>7, <1>8 DEF SyncedInv, DeliveringInv
<1>20. SyncedInv'
  BY <1>1, <1>19 DEF SyncedInv, Settled
<1> QED
  BY <1>13, <1>14, <1>15, <1>16, <1>17, <1>18, <1>20 DEF IndInv, LinkInv

\* commit() can only find its frame in delivered.
LEMMA CommitProbeStep ==
  ASSUME IndInv, ProbeFinds("main"), op["main"] = "commit"
  PROVE  IndInv'
<1> DEFINE f == staged.frame
           s == CommitCalls(f)
           n == Left("main")
<1>1. /\ Settled /\ status' = status /\ op' = op /\ names' = names
      /\ cursor' = cursor /\ queue' = queue /\ attempt' = attempt
      /\ givenUp' = givenUp /\ faults' = faults
  BY ProbeElsewhere
<1>2. /\ TypeOK /\ MainInv /\ PreparedInv /\ CommitInv /\ SyncedInv
      /\ script["main"] # <<>>
  BY DEF IndInv, LinkInv, ProbeFinds, Found
<1>3. /\ f \in Frames /\ status = "open" /\ Rest(script["main"], s)
      /\ staged \in [frame : Frames, state : Dirs \cup {"undoing"}]
  BY <1>2, StagedFrame DEF MainInv, TypeOK
<1>4. /\ staged.state \in {"prepared", "delivered"}
      /\ staged.state = "delivered" => n <= 2
      /\ staged.state = "prepared" /\ n >= 4 => f \notin VP
  BY <1>2 DEF CommitInv, PreparedInv
<1> HIDE DEF f
<1>5. /\ s \in Seq(Calls) /\ Len(s) = 6
      /\ s[1] = Call("probe", "delivered", f) /\ s[2] = Call("probe", "pending", f)
      /\ s[3] = Call("link", "pending", f) /\ s[4] = Call("sync", "pending", f)
      /\ s[5] = Call("unlink", "prepared", f) /\ s[6] = Call("sync", "prepared", f)
  BY <1>3, CommitScript
<1> HIDE DEF s
<1>6. n \in 1 .. 6
  BY <1>2, <1>3, <1>5, RestTail DEF Left
<1>7. n >= 5
  <2> SUFFICES ASSUME n \in 1 .. 4
               PROVE  FALSE
    BY <1>6
  <2>1. \E k \in {"link", "unlink", "sync"}, d \in Dirs :
          s[Len(s) - n + 1] = Call(k, d, f)
    BY <1>5 DEF Dirs
  <2>2. PICK k \in {"link", "unlink", "sync"}, d \in Dirs :
          s[Len(s) - n + 1] = Call(k, d, f)
    BY <2>1
  <2>3. At("main", s, k, d, f)
    BY <1>3, <1>5, <2>2 DEF At
  <2>4. k = "probe"
    BY <2>3, ProbeFacts
  <2> QED
    BY <2>4
<1>8. n = 6
  <2> SUFFICES ASSUME n = 5
               PROVE  FALSE
    BY <1>6, <1>7
  <2>1. s[Len(s) - n + 1] = Call("probe", "pending", f)
    BY <1>5
  <2>2. At("main", s, "probe", "pending", f)
    BY <1>3, <1>5, <2>1 DEF At, Dirs
  <2>3. f \in VP
    BY <2>2, ProbeFacts DEF VP
  <2> QED
    BY <1>4, <2>3
<1>9. /\ f \in VD /\ staged' = [staged EXCEPT !.state = "delivered"]
      /\ script' = [script EXCEPT !["main"] = OnFound("commit", f)]
  <2>1. s[Len(s) - n + 1] = Call("probe", "delivered", f)
    BY <1>5, <1>8
  <2>2. At("main", s, "probe", "delivered", f)
    BY <1>3, <1>5, <2>1 DEF At, Dirs
  <2>3. /\ f \in visible["delivered"]
        /\ script' = [script EXCEPT !["main"] = OnFound(op["main"], f)]
        /\ staged' = [staged EXCEPT !.state = "delivered"]
    BY <2>2, ProbeFacts
  <2> QED
    BY <2>3 DEF VD
<1>10. /\ OnFound("commit", f) \in Seq(Calls) /\ Len(OnFound("commit", f)) = 2
       /\ Rest(OnFound("commit", f), s)
  BY <1>3, FoundCommitted DEF s
<1>11. /\ script' \in [Threads -> Seq(Calls)]
       /\ script'["main"] = OnFound("commit", f)
       /\ script'["worker"] = script["worker"]
  BY <1>2, <1>9, <1>10 DEF TypeOK, Threads, Calls
<1>12. Left("main")' = 2
  BY <1>10, <1>11 DEF Left
<1>13. /\ staged' \in [frame : Frames, state : Dirs \cup {"undoing"}]
       /\ staged'.frame = f /\ staged'.state = "delivered" /\ staged' # Nothing
  BY <1>3, <1>9 DEF Dirs, Nothing, f
<1>14. VP' = VP /\ VD' = VD /\ visible' = visible /\ durable' = durable
  BY <1>1, SameLinks DEF Settled, Quiet
<1>15. TypeOK'
  BY <1>1, <1>2, <1>11, <1>13, <1>14 DEF TypeOK, Settled, Calls
<1>16. MainInv'
  BY <1>1, <1>3, <1>10, <1>11, <1>13 DEF MainInv, s
<1>17. WorkerInv' /\ QueueInv' /\ (~syncFailed' => DeliveringInv' /\ Distinct')
  BY <1>1, <1>3, <1>11, SettledWorker
<1>18. ExecutedInv' /\ HandedInv' /\ (~syncFailed' => AckedInv')
  BY <1>1, SettledLinks
<1>19. RecoverInv' /\ PreparedInv'
  BY <1>1, <1>3, <1>13 DEF RecoverInv, PreparedInv
<1>20. CommitInv'
  BY <1>9, <1>12, <1>13, <1>14 DEF CommitInv
<1>21. SyncedInv'
  BY <1>1, <1>2, <1>13, <1>14, <1>17, <1>18
     DEF Settled, SyncedInv, PendingIsQueued, f
<1> QED
  BY <1>15, <1>16, <1>17, <1>18, <1>19, <1>20, <1>21 DEF IndInv, LinkInv

\* prepare() returns the state of the archive that it finds.
LEMMA PrepareProbeStep ==
  ASSUME IndInv, ProbeFinds("main"), op["main"] = "prepare"
  PROVE  IndInv'
<1> DEFINE f == staged.frame
           s == PrepareCalls(f)
           n == Left("main")
<1>1. /\ Settled /\ status' = status /\ op' = op /\ names' = names
      /\ cursor' = cursor /\ queue' = queue /\ attempt' = attempt
      /\ givenUp' = givenUp /\ faults' = faults
  BY ProbeElsewhere
<1>2. /\ TypeOK /\ MainInv /\ PreparedInv /\ SyncedInv /\ script["main"] # <<>>
  BY DEF IndInv, LinkInv, ProbeFinds, Found
<1>3. /\ f \in Frames /\ status = "open" /\ Rest(script["main"], s)
      /\ staged \in [frame : Frames, state : Dirs \cup {"undoing"}]
  BY <1>2, StagedFrame DEF MainInv, TypeOK
<1> HIDE DEF f
<1>4. /\ s \in Seq(Calls) /\ Len(s) = 6
      /\ s[1] = Call("probe", "delivered", f) /\ s[2] = Call("probe", "pending", f)
      /\ s[3] = Call("probe", "prepared", f) /\ s[4] = Call("link", "prepared", f)
      /\ s[5] = Call("sync", "prepared", f) /\ s[6] = Call("sync", "prepared", f)
  BY <1>3, PrepareScript
<1>5. OnFound("prepare", f) = <<>> /\ <<>> \in Seq(Calls) /\ Rest(<<>>, s)
  BY <1>4, RestEnds DEF OnFound
<1> HIDE DEF s
<1>6. n \in 1 .. 6
  BY <1>2, <1>3, <1>4, RestTail DEF Left
<1>7. \E k \in {"probe", "link", "sync"}, d \in Dirs :
         /\ s[Len(s) - n + 1] = Call(k, d, f)
         /\ d = "prepared" => n <= 4
  BY <1>4, <1>6 DEF Dirs
<1>8. PICK k \in {"probe", "link", "sync"}, d \in Dirs :
         /\ s[Len(s) - n + 1] = Call(k, d, f)
         /\ d = "prepared" => n <= 4
  BY <1>7
<1>9. At("main", s, k, d, f)
  BY <1>3, <1>4, <1>8 DEF At
<1>10. /\ script' = [script EXCEPT !["main"] = <<>>]
       /\ staged' = [staged EXCEPT !.state = d]
  BY <1>5, <1>9, ProbeFacts
<1>11. /\ script' \in [Threads -> Seq(Calls)] /\ script'["main"] = <<>>
       /\ script'["worker"] = script["worker"]
  BY <1>2, <1>5, <1>10 DEF TypeOK, Threads, Calls
<1>12. /\ staged' \in [frame : Frames, state : Dirs \cup {"undoing"}]
       /\ staged'.frame = f /\ staged'.state = d /\ staged' # Nothing
  <2>1. /\ staged' \in [frame : Frames, state : Dirs \cup {"undoing"}]
        /\ staged'.frame = staged.frame /\ staged'.state = d
    BY <1>3, <1>10
  <2>2. d # "none"
    BY DEF Dirs
  <2> QED
    BY <2>1, <2>2 DEF Nothing, f
<1>13. VP' = VP /\ visible' = visible /\ durable' = durable
  BY <1>1, SameLinks DEF Settled, Quiet
<1>14. TypeOK'
  BY <1>1, <1>2, <1>11, <1>12, <1>13 DEF TypeOK, Settled, Calls
<1>15. MainInv'
  BY <1>1, <1>3, <1>5, <1>11, <1>12 DEF MainInv, s
<1>16. WorkerInv' /\ QueueInv' /\ (~syncFailed' => DeliveringInv' /\ Distinct')
  BY <1>1, <1>3, <1>11, SettledWorker
<1>17. ExecutedInv' /\ HandedInv' /\ (~syncFailed' => AckedInv')
  BY <1>1, SettledLinks
<1>18. RecoverInv' /\ CommitInv'
  BY <1>1, <1>3 DEF RecoverInv, CommitInv
<1>19. PreparedInv'
  <2>1. staged.state = "prepared"
    BY <1>2 DEF MainInv
  <2>2. d = "prepared" => f \notin VP
    BY <1>2, <1>8, <2>1 DEF PreparedInv, f
  <2> QED
    BY <1>12, <1>13, <2>2 DEF PreparedInv
<1>20. SyncedInv'
  BY <1>1, <1>2, <1>13, <1>16, <1>17 DEF Settled, SyncedInv, PendingIsQueued
<1> QED
  BY <1>14, <1>15, <1>16, <1>17, <1>18, <1>19, <1>20 DEF IndInv, LinkInv

\* The probes of the main thread are those of prepare() and commit().
LEMMA MainProbeStep ==
  ASSUME IndInv, ProbeFinds("main")
  PROVE  IndInv'
<1>1. /\ TypeOK /\ MainInv /\ RecoverInv /\ script["main"] # <<>>
      /\ op["main"] # "discard"
  BY DEF IndInv, LinkInv, ProbeFinds, Found
<1>2. op["main"] # "none"
  BY <1>1 DEF MainInv
<1>3. op["main"] # "recover"
  <2> SUFFICES ASSUME op["main"] = "recover"
               PROVE  FALSE
    OBVIOUS
  <2>1. PICK f \in Frames : Rest(script["main"], RecoverCalls(f))
    BY <1>1 DEF MainInv, RecoverInv
  <2> DEFINE s == RecoverCalls(f)
             n == Left("main")
  <2>2. /\ s \in Seq(Calls) /\ Len(s) = 4
        /\ s[1] = Call("unlink", "pending", f) /\ s[2] = Call("sync", "pending", f)
        /\ s[3] = Call("unlink", "prepared", f) /\ s[4] = Call("sync", "prepared", f)
    BY RecoverScript
  <2>3. Rest(script["main"], s)
    BY <2>1
  <2> HIDE DEF s
  <2>4. n \in 1 .. 4
    BY <1>1, <2>2, <2>3, RestTail DEF Left
  <2>5. \E k \in {"unlink", "sync"}, d \in Dirs : s[Len(s) - n + 1] = Call(k, d, f)
    BY <2>2, <2>4 DEF Dirs
  <2>6. PICK k \in {"unlink", "sync"}, d \in Dirs : s[Len(s) - n + 1] = Call(k, d, f)
    BY <2>5
  <2>7. At("main", s, k, d, f)
    BY <2>2, <2>3, <2>6 DEF At
  <2>8. k = "probe"
    BY <2>7, ProbeFacts
  <2> QED
    BY <2>8
<1>4. op["main"] \in {"none", "recover", "prepare", "discard", "commit"}
  BY <1>1 DEF TypeOK
<1> QED
  BY <1>1, <1>2, <1>3, <1>4, CommitProbeStep, PrepareProbeStep

-----------------------------------------------------------------------------
(* Faults.                                                                 *)

\* The counter of faults.
LEMMA FaultFacts ==
  ASSUME TypeOK, NEW kind, Fault(kind)
  PROVE  faults' \in 0 .. MaxFaults
BY ConstantFacts DEF TypeOK, Fault

\* An fsync of the worker fails.
LEMMA WorkerSyncFails ==
  ASSUME IndInv, SyncFails("worker")
  PROVE  IndInv'
<1>1. /\ script["worker"] # <<>> /\ Fault("fsync") /\ syncFailed' = TRUE
      /\ Finish("worker") /\ names' = {} /\ UNCHANGED links /\ cursor' = cursor
      /\ handed' = handed /\ executed' = executed /\ acked' = acked
      /\ givenUp' = givenUp
      /\ \/ attempt = MaxAttempts /\ queue' = Tail(queue) /\ attempt' = 0
         \/ attempt # MaxAttempts /\ queue' = queue /\ attempt' = attempt
  BY DEF SyncFails, Exhausted, history
<1>2. TypeOK /\ WorkerInv
  BY DEF IndInv
<1>3. op["worker"] = "delivered" /\ status = "open" /\ queue # <<>>
  BY <1>1, <1>2 DEF WorkerInv, TypeOK
<1>4. status' = status /\ staged' = staged
  BY <1>3 DEF SyncFails
<1>5. /\ DOMAIN op' = Threads /\ script' \in [Threads -> Seq(Calls)]
      /\ op'["worker"] = "none" /\ script'["worker"] = <<>>
      /\ op'["main"] = op["main"] /\ script'["main"] = script["main"]
  BY <1>1, <1>2, WorkerStarts, Ends
<1>6. \/ queue' = Tail(queue) /\ attempt' = 0
      \/ queue' = queue /\ attempt' = attempt /\ attempt < MaxAttempts
  <2>1. attempt \in 0 .. MaxAttempts
    BY <1>2 DEF TypeOK
  <2>2. attempt # MaxAttempts => attempt < MaxAttempts
    BY <2>1, ConstantFacts
  <2> QED
    BY <1>1, <2>2
<1>7. /\ queue' \in Seq(Frames) /\ attempt' \in 0 .. MaxAttempts
      /\ MainInv' /\ WorkerInv' /\ LinkInv'
  BY <1>1, <1>3, <1>4, <1>5, <1>6, WorkerRests
<1>8. visible' = visible /\ durable' = durable /\ faults' \in 0 .. MaxFaults
  BY <1>1, <1>2, SameLinks, FaultFacts
<1>9. TypeOK'
  BY <1>1, <1>2, <1>4, <1>5, <1>7, <1>8 DEF TypeOK, Calls
<1> QED
  BY <1>1, <1>7, <1>9 DEF IndInv, SyncedInv

\* An fsync of the main thread fails.
LEMMA MainSyncFails ==
  ASSUME IndInv, SyncFails("main")
  PROVE  IndInv'
<1>1. /\ script["main"] # <<>> /\ Fault("fsync") /\ syncFailed' = TRUE
      /\ Finish("main") /\ names' = {} /\ UNCHANGED links /\ cursor' = cursor
      /\ handed' = handed /\ executed' = executed /\ acked' = acked
      /\ givenUp' = givenUp /\ queue' = queue /\ attempt' = attempt
      /\ status' = IF op["main"] = "recover" THEN "closed" ELSE status
      /\ staged' = IF op["main"] \in {"prepare", "commit"} THEN Nothing ELSE staged
  BY DEF SyncFails, history
<1>2. /\ TypeOK /\ MainInv /\ WorkerInv /\ ExecutedInv /\ HandedInv /\ QueueInv
  BY DEF IndInv, LinkInv
<1>3. op["main"] \in {"recover", "prepare", "discard", "commit"}
  BY <1>1, <1>2 DEF MainInv, TypeOK
<1>4. /\ DOMAIN op' = Threads /\ script' \in [Threads -> Seq(Calls)]
      /\ op'["main"] = "none" /\ script'["main"] = <<>>
      /\ op'["worker"] = op["worker"] /\ script'["worker"] = script["worker"]
      /\ Left("worker")' = Left("worker")
  BY <1>1, <1>2, MainStarts, Ends
<1>5. /\ VP' = VP /\ VD' = VD /\ SP' = SP /\ SD' = SD
      /\ visible' = visible /\ durable' = durable /\ Queued' = Queued
  BY <1>1, SameLinks DEF Quiet, Queued
<1>6. /\ status' \in {"closed", "open"} /\ status # "closed"
      /\ op["main"] = "recover" => status = "recovering"
      /\ op["main"] # "recover" => status = "open" /\ status' = "open"
  BY <1>1, <1>2, <1>3 DEF MainInv
<1>7. \/ staged' = Nothing
      \/ staged' = staged /\ staged.state = "undoing" /\ status' = "open"
  <2>1. op["main"] = "recover" => staged = Nothing
    BY <1>6, NotOpen
  <2>2. op["main"] = "discard" => staged.state = "undoing"
    BY <1>2 DEF MainInv
  <2> QED
    BY <1>1, <1>3, <1>6, <2>1, <2>2
<1>8. faults' \in 0 .. MaxFaults
  BY <1>1, <1>2, FaultFacts
<1>9. TypeOK'
  BY <1>1, <1>2, <1>4, <1>5, <1>6, <1>7, <1>8 DEF TypeOK, Calls
<1>10. MainInv' /\ RecoverInv' /\ CommitInv'
  BY <1>4, <1>6 DEF MainInv, RecoverInv, CommitInv
<1>11. PreparedInv'
  BY <1>7 DEF PreparedInv, Nothing
<1>12. ExecutedInv' /\ HandedInv' /\ QueueInv'
  BY <1>1, <1>2, <1>5 DEF ExecutedInv, HandedInv, QueueInv
<1>13. WorkerInv'
  <2>1. CASE op["main"] = "recover"
    <3>1. /\ queue = <<>> /\ attempt = 0 /\ op["worker"] = "none"
          /\ script["worker"] = <<>> /\ staged' = Nothing
      BY <1>1, <1>6, <2>1, NotOpen
    <3> QED
      BY <1>1, <1>4, <3>1, ConstantFacts DEF WorkerInv
  <2>2. CASE op["main"] # "recover"
    BY <1>1, <1>2, <1>4, <1>5, <1>6, <2>2, WorkerKept
  <2> QED
    BY <2>1, <2>2
<1>14. SyncedInv'
  BY <1>1 DEF SyncedInv
<1> QED
  BY <1>9, <1>10, <1>11, <1>12, <1>13, <1>14 DEF IndInv, LinkInv

\* The process is gone; the links left are those that were durable and some of
\* the others.
LEMMA DieStep ==
  ASSUME IndInv, Die, faults' \in 0 .. MaxFaults, cursor' = cursor,
         handed' = handed, executed' = executed, acked' = acked,
         givenUp' = givenUp, syncFailed' = syncFailed,
         visible' \in [Dirs -> SUBSET Frames], durable' \in [Dirs -> SUBSET Frames],
         VP \cap SP \subseteq VP', VP \cap SP \subseteq SP',
         VD \cap SD \subseteq VD', VD \cap SD \subseteq SD',
         VD' \subseteq VD \cup SD, SD' \subseteq VD \cup SD
  PROVE  IndInv'
<1>1. /\ status' = "closed" /\ op' = NoOps /\ script' = NoCalls /\ names' = {}
      /\ staged' = Nothing /\ queue' = <<>> /\ attempt' = 0
  BY DEF Die
<1>2. TypeOK /\ ExecutedInv /\ HandedInv /\ SyncedInv
  BY DEF IndInv, LinkInv
<1>3. /\ DOMAIN op' = Threads /\ script' \in [Threads -> Seq(Calls)]
      /\ op'["main"] = "none" /\ script'["main"] = <<>>
      /\ op'["worker"] = "none" /\ script'["worker"] = <<>>
  BY <1>1 DEF NoOps, NoCalls, Threads
<1>4. queue' \in Seq(Frames) /\ attempt' \in 0 .. MaxAttempts /\ Queued' = {}
  BY <1>1, ConstantFacts DEF Queued, Range
<1>5. TypeOK'
  BY <1>1, <1>2, <1>3, <1>4 DEF TypeOK, Calls
<1>6. MainInv' /\ RecoverInv' /\ CommitInv'
  BY <1>1, <1>3 DEF MainInv, RecoverInv, CommitInv
<1>7. WorkerInv'
  BY <1>1, <1>3, ConstantFacts DEF WorkerInv
<1>8. PreparedInv' /\ QueueInv'
  BY <1>1, <1>4 DEF PreparedInv, QueueInv, Nothing
<1>9. ExecutedInv' /\ HandedInv'
  BY <1>2 DEF ExecutedInv, HandedInv
<1>10. SyncedInv'
  <2>1. ~syncFailed' => AckedInv'
    BY <1>2 DEF SyncedInv, AckedInv
  <2>2. Distinct'
    <3>1. DOMAIN queue' = {}
      BY <1>1
    <3> QED
      BY <3>1 DEF Distinct
  <2> QED
    BY <1>1, <2>1, <2>2 DEF SyncedInv, DeliveringInv, PendingIsQueued
<1> QED
  BY <1>5, <1>6, <1>7, <1>8, <1>9, <1>10 DEF IndInv, LinkInv

\* The process dies: every link stays.
LEMMA ProcessDiesStep ==
  ASSUME IndInv, ProcessDies
  PROVE  IndInv'
<1>1. /\ Fault("process") /\ Die /\ UNCHANGED links /\ cursor' = cursor
      /\ handed' = handed /\ executed' = executed /\ acked' = acked
      /\ givenUp' = givenUp /\ syncFailed' = syncFailed
  BY DEF ProcessDies, history
<1>2. TypeOK
  BY DEF IndInv
<1>3. VP' = VP /\ VD' = VD /\ SP' = SP /\ SD' = SD
  BY <1>1, SameLinks DEF Quiet
<1>4. visible' \in [Dirs -> SUBSET Frames] /\ durable' \in [Dirs -> SUBSET Frames]
  BY <1>1, <1>2, SameLinks DEF TypeOK
<1>5. faults' \in 0 .. MaxFaults
  BY <1>1, <1>2, FaultFacts
<1>6. /\ VP \cap SP \subseteq VP' /\ VP \cap SP \subseteq SP'
      /\ VD \cap SD \subseteq VD' /\ VD \cap SD \subseteq SD'
      /\ VD' \subseteq VD \cup SD /\ SD' \subseteq VD \cup SD
  BY <1>3
<1> QED
  BY <1>1, <1>4, <1>5, <1>6, DieStep

\* The power fails: links that are visible and durable stay.
LEMMA PowerFailsStep ==
  ASSUME IndInv, PowerFails
  PROVE  IndInv'
<1>1. /\ Fault("power") /\ Die /\ cursor' = cursor
      /\ handed' = handed /\ executed' = executed /\ acked' = acked
      /\ givenUp' = givenUp /\ syncFailed' = syncFailed
  BY DEF PowerFails, history
<1>2. PICK kept \in [Dirs -> SUBSET Frames] :
        /\ \A d \in Dirs : /\ visible[d] \cap durable[d] \subseteq kept[d]
                           /\ kept[d] \subseteq visible[d] \cup durable[d]
        /\ visible' = kept /\ durable' = kept
  BY DEF PowerFails
<1>3. TypeOK
  BY DEF IndInv
<1>4. visible' \in [Dirs -> SUBSET Frames] /\ durable' \in [Dirs -> SUBSET Frames]
  BY <1>2
<1>5. faults' \in 0 .. MaxFaults
  BY <1>1, <1>3, FaultFacts
<1>6. /\ VP \cap SP \subseteq VP' /\ VP \cap SP \subseteq SP'
      /\ VD \cap SD \subseteq VD' /\ VD \cap SD \subseteq SD'
      /\ VD' \subseteq VD \cup SD /\ SD' \subseteq VD \cup SD
  <2>1. "pending" \in Dirs /\ "delivered" \in Dirs
    BY DEF Dirs
  <2> QED
    BY <1>2, <2>1 DEF VP, VD, SP, SD
<1> QED
  BY <1>1, <1>4, <1>5, <1>6, DieStep

-----------------------------------------------------------------------------
(* The theorems.                                                           *)

\* A step that changes nothing.
LEMMA Stutter ==
  ASSUME IndInv, UNCHANGED vars
  PROVE  IndInv'
<1>1. /\ Settled /\ status' = status /\ op' = op /\ script' = script
      /\ names' = names /\ cursor' = cursor /\ staged' = staged /\ queue' = queue
      /\ attempt' = attempt /\ givenUp' = givenUp /\ faults' = faults
  BY DEF vars, Settled, threads, history
<1>2. /\ TypeOK /\ MainInv /\ WorkerInv /\ RecoverInv /\ PreparedInv /\ CommitInv
      /\ QueueInv /\ SyncedInv
  BY DEF IndInv, LinkInv
<1>3. /\ VP' = VP /\ VD' = VD /\ SP' = SP /\ SD' = SD /\ Both' = Both
      /\ visible' = visible /\ durable' = durable /\ Queued' = Queued
  BY <1>1, SameLinks DEF Settled, Quiet, Queued
<1>4. Left("main")' = Left("main") /\ Left("worker")' = Left("worker")
  BY <1>1 DEF Left
<1>5. TypeOK'
  BY <1>1, <1>2, <1>3 DEF TypeOK, Settled
<1>6. MainInv'
  BY <1>1, <1>2, MainKept
<1>7. ExecutedInv' /\ HandedInv' /\ (~syncFailed' => AckedInv')
  BY <1>1, SettledLinks
<1>8. WorkerInv' /\ QueueInv' /\ (~syncFailed' => DeliveringInv' /\ Distinct')
  BY <1>1, SettledWorker
<1>9. RecoverInv' /\ PreparedInv'
  BY <1>1, <1>2, <1>3, <1>4 DEF RecoverInv, PreparedInv
<1>10. CommitInv'
  BY <1>1, <1>2, <1>3, <1>4 DEF CommitInv
<1>11. SyncedInv'
  BY <1>1, <1>2, <1>3, <1>7, <1>8 DEF Settled, SyncedInv, PendingIsQueued
<1> QED
  BY <1>5, <1>6, <1>7, <1>8, <1>9, <1>10, <1>11 DEF IndInv, LinkInv

\* An empty journal.
LEMMA Initially == Init => IndInv
<1> SUFFICES ASSUME Init
             PROVE  IndInv
  OBVIOUS
<1>1. /\ visible = [d \in Dirs |-> {}] /\ durable = [d \in Dirs |-> {}]
      /\ status = "closed" /\ op = NoOps /\ script = NoCalls /\ names = {}
      /\ cursor = 0 /\ staged = Nothing /\ queue = <<>> /\ attempt = 0
      /\ handed = {} /\ executed = {} /\ acked = {} /\ givenUp = {}
      /\ syncFailed = FALSE /\ faults = 0
  BY DEF Init
<1>2. /\ DOMAIN op = Threads /\ script \in [Threads -> Seq(Calls)]
      /\ op["main"] = "none" /\ script["main"] = <<>>
      /\ op["worker"] = "none" /\ script["worker"] = <<>>
  BY <1>1 DEF NoOps, NoCalls, Threads
<1>3. /\ queue \in Seq(Frames) /\ attempt \in 0 .. MaxAttempts /\ Queued = {}
      /\ cursor \in 0 .. NFrames /\ faults \in 0 .. MaxFaults /\ DOMAIN queue = {}
  BY <1>1, ConstantFacts DEF Queued, Range
<1>4. VP = {} /\ VD = {} /\ SP = {} /\ SD = {}
  BY <1>1 DEF VP, VD, SP, SD, Dirs
<1>5. TypeOK
  BY <1>1, <1>2, <1>3 DEF TypeOK, Calls
<1>6. MainInv /\ RecoverInv /\ CommitInv
  BY <1>1, <1>2 DEF MainInv, RecoverInv, CommitInv
<1>7. WorkerInv
  BY <1>1, <1>2, ConstantFacts DEF WorkerInv
<1>8. ExecutedInv /\ HandedInv /\ QueueInv /\ PreparedInv
  BY <1>1, <1>3, <1>4 DEF ExecutedInv, HandedInv, QueueInv, PreparedInv, Nothing
<1>9. SyncedInv
  BY <1>1, <1>3
     DEF SyncedInv, AckedInv, DeliveringInv, Distinct, PendingIsQueued
<1> QED
  BY <1>5, <1>6, <1>7, <1>8, <1>9 DEF IndInv, LinkInv

(***************************************************************************)
(* The inductive invariant holds for any number of frames, delivery        *)
(* attempts and faults: recovery, the main thread and the worker may stop  *)
(* between any two system calls (DurableObserverJournal).                  *)
(***************************************************************************)
THEOREM Invariance == Spec => []IndInv
<1>1. Init => IndInv
  BY Initially
<1>2. IndInv /\ [Next]_vars => IndInv'
  <2> SUFFICES ASSUME IndInv, [Next]_vars
               PROVE  IndInv'
    OBVIOUS
  <2>1. CASE Recover \/ Opened \/ Close
    BY <2>1, RecoverStep, OpenedStep, CloseStep
  <2>2. CASE \E f \in Frames : RecoverName(f) \/ Prepare(f)
    BY <2>2, RecoverNameStep, PrepareStep
  <2>3. CASE PrepareReturns \/ Discard \/ DiscardReturns \/ DiscardRefused
    BY <2>3, PrepareReturnsStep, DiscardStep, DiscardEndsStep
  <2>4. CASE Commit \/ CommitReturns \/ SubmissionFails
    BY <2>4, CommitStep, CommitReturnsStep
  <2>5. CASE Deliver \/ GiveUp \/ DeliveredReturns
    BY <2>5, DeliverStep, GiveUpStep, DeliveredReturnsStep
  <2>6. CASE \E t \in Threads : ProbeFinds(t) \/ SystemCall(t) \/ SyncFails(t)
    <3>1. PICK t \in {"main", "worker"} :
            ProbeFinds(t) \/ SystemCall(t) \/ SyncFails(t)
      BY <2>6 DEF Threads
    <3>2. CASE t = "main"
      BY <3>1, <3>2, MainProbeStep, MainSystemCall, MainSyncFails
    <3>3. CASE t = "worker"
      BY <3>1, <3>3, WorkerProbeStep, WorkerSystemCall, WorkerSyncFails
    <3> QED
      BY <3>1, <3>2, <3>3
  <2>7. CASE ProcessDies \/ PowerFails
    BY <2>7, ProcessDiesStep, PowerFailsStep
  <2>8. CASE UNCHANGED vars
    BY <2>8, Stutter
  <2> QED
    BY <2>1, <2>2, <2>3, <2>4, <2>5, <2>6, <2>7, <2>8 DEF Next
<1> QED
  BY <1>1, <1>2, PTL DEF Spec

(***************************************************************************)
(* Every variable keeps its type; a frame is tried at most max_attempts    *)
(* times (_deliver).                                                       *)
(***************************************************************************)
THEOREM TypeCorrect == Spec => []TypeOK
<1>1. IndInv => TypeOK
  BY DEF IndInv
<1> QED
  BY <1>1, Invariance, PTL

(***************************************************************************)
(* A frame whose commit() returned keeps its pending link until a provider *)
(* has executed it, whatever dies, fails its fsync or loses power: its     *)
(* link is durable, and only a frame in delivered loses it (_promote,      *)
(* delivered, _recover).                                                   *)
(***************************************************************************)
THEOREM HandoffIsDurable == Spec => []HandoffSurvives
<1>1. IndInv => HandoffSurvives
  BY DEF IndInv, LinkInv, HandedInv, HandoffSurvives, VP
<1> QED
  BY <1>1, Invariance, PTL

(***************************************************************************)
(* While every fsync succeeds, a frame whose delivered() returned is not   *)
(* pending in an open journal, so that no later run replays it             *)
(* (delivered, _recover, list_pending).                                    *)
(***************************************************************************)
THEOREM AcksAreFinal == Spec => []AckIsFinal
<1>1. IndInv => AckIsFinal
  <2> SUFFICES ASSUME IndInv, status = "open", ~syncFailed, NEW f \in acked,
                      f \in VP
               PROVE  FALSE
    BY DEF AckIsFinal, VP
  <2>1. AckedInv /\ DeliveringInv /\ queue \in Seq(Frames)
    BY DEF IndInv, SyncedInv, TypeOK
  <2>2. f \in Both
    BY <2>1 DEF AckedInv, Both
  <2>3. queue # <<>> /\ f = Head(queue) /\ Queued \cap acked = {}
    BY <2>1, <2>2 DEF DeliveringInv
  <2>4. f \in Queued
    BY <2>1, <2>3, HeadQueued
  <2> QED
    BY <2>3, <2>4
<1> QED
  BY <1>1, Invariance, PTL

(***************************************************************************)
(* While every fsync succeeds, no committed frame of an open journal is    *)
(* stranded (_submit_live_visualization, _replay_observer_journal).        *)
(***************************************************************************)
THEOREM NoneStranded == Spec => []PendingIsQueued
<1>1. IndInv => PendingIsQueued
  BY DEF IndInv, SyncedInv, PendingIsQueued
<1> QED
  BY <1>1, Invariance, PTL
=============================================================================
