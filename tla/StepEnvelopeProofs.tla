--------------------------- MODULE StepEnvelopeProofs ---------------------------
(***************************************************************************)
(* Proofs that the accepted-step envelope, for every graph of consumers,   *)
(* every controller and any number of failures, process deaths and         *)
(* restarts, publishes each due sample exactly once, keeps the engine and  *)
(* the Python authority together, leaves no visible sample unaccounted for *)
(* and writes checkpoints that tell the truth.                             *)
(***************************************************************************)
EXTENDS StepEnvelope, FiniteSetTheorems, SequenceTheorems, WellFoundedInduction,
        TLAPS

--------------------------------------------------------------------------------
(* The inductive invariant.                                                 *)

\* An attempt is open: undoing it brings the snapshot back.
Attempting ==
    \/ pc \in {"solve", "stage", "commit"}
    \/ pc \in {"accept", "abort"} /\ ~moment.start

\* The accepted authority that an abort of the open attempt would restore.
Base == IF Attempting THEN snapshot.temporal ELSE temporal

Clock(t) == [step |-> t.step, time |-> t.time]

Moments == [step : Nat, time : Nat, start : BOOLEAN, end : BOOLEAN]
Statuses == {"staged", "accepted", "failed", "rejected"}
Transactions ==
    [effects : Seq(Sample) \ {<<>>}, status : Statuses, shown : SUBSET Sample]

\* The shapes of what TypeOK leaves open: what an attempt holds on to.
ShapeInv ==
    /\ run \in [end : Nat, steps : Nat, rejected : Int, counts : Nat,
                entry : Authority, dt : Nat]
    /\ pc # "idle" => run.dt # 0
    /\ moment \in Moments
    /\ txns \in Seq(Transactions)
    /\ Attempting => /\ snapshot.temporal \in Authority
                     /\ snapshot.nextDt \in Nat \ {0}
                     /\ snapshot.temporal.rejected <= temporal.rejected
                     /\ snapshot.temporal.failed <= temporal.failed
    /\ Attempting \/ (pc = "seal" /\ ~moment.start) =>
          snapshot.cursors = cursors /\ snapshot.reports = reports
    /\ pc \in {"begin", "solve"} => sequence.attempts <= MaxRejections
    /\ epoch \in Nat /\ runs \in Nat /\ faults \in Nat

\* Which native transaction is open at which call.
ControlInv ==
    /\ pc \in {"solve", "stage", "commit"} => native.tx = "active"
    /\ pc = "accept" /\ ~moment.start => native.tx = "committed"
    /\ ~Attempting => native.tx = "none"
    /\ pc \in {"idle", "start", "loop", "begin", "solve", "stage"} =>
          txns = <<>> /\ ~moment.start
    /\ pc = "commit" => ~moment.start

\* Where the engine stands, and where a rollback would put it.
PositionInv ==
    /\ Base.accepted = Base.step
    /\ Attempting /\ native.tx # "none" => image = Clock(Base)
    /\ ~Attempting \/ native.tx = "none" \/ pc = "solve" =>
          Position(native) = Clock(Base)
    /\ pc = "solve" =>
          Clock(temporal) = Clock(Base) /\ temporal.accepted = Base.accepted
    /\ pc \in {"stage", "commit", "accept", "seal"} =>
          /\ Position(native) = Clock(temporal)
          /\ temporal.accepted = temporal.step
    /\ pc \in {"stage", "commit"} \/ (pc = "accept" /\ ~moment.start) =>
          /\ temporal.step = Base.step + 1
          /\ temporal.time = Base.time + sequence.dt

\* A run without an accepted step still stands where it was entered.
EntryInv ==
    pc # "idle" /\ ~(pc = "seal" /\ ~moment.start) /\ run.steps = 0 =>
        Clock(run.entry) = Clock(Base) /\ run.entry.accepted = Base.accepted

\* The open step ends at a hard boundary at the latest.
BoundaryInv ==
    pc = "begin" \/ Attempting => \A d \in Deadlines(Base.time) :
        Base.time + sequence.dt <= d

--------------------------------------------------------------------------------
(* The staged transactions.                                                 *)

Planning == pc \in {"commit", "accept", "seal"}

\* Each transaction shows what its status says; accept takes them in order.
StatusInv ==
    /\ \A j \in DOMAIN txns :
          /\ txns[j].shown \subseteq Samples(txns[j])
          /\ txns[j].status # "accepted" => txns[j].shown = {}
          /\ txns[j].status = "accepted" => \A e \in Samples(txns[j]) :
                e \notin txns[j].shown => Topology[e.consumer].skip
    /\ pc \in {"commit", "accept"} => \A j \in DOMAIN txns :
          txns[j].status \in {"staged", "accepted"}
    /\ pc = "seal" => AllAccepted

AllSamples == UNION {Samples(txns[j]) : j \in DOMAIN txns}

\* The transactions hold one effect for each consumer that is planned.
EffectInv ==
    /\ txns # <<>> => /\ moment.step = temporal.step
                      /\ moment.time = temporal.time
    /\ Planning => /\ moment.step = temporal.step
                   /\ moment.time = temporal.time
                   /\ \A c \in Consumers : Planned(c, moment) =>
                         Effect(c, moment) \in AllSamples
    /\ \A j \in DOMAIN txns : \A e \in Samples(txns[j]) :
          /\ e = Effect(e.consumer, moment)
          /\ Planned(e.consumer, moment)
          /\ \A i \in DOMAIN txns : e \in Samples(txns[i]) => i = j

\* A staged checkpoint comes last, and has recorded what will be true then.
CaptureInv ==
    Planning => \A j \in DOMAIN txns : \A e \in Samples(txns[j]) :
        IsCheckpoint(e) =>
            /\ j = Len(txns)
            /\ capture.cursors = Predicted(AllSamples)
            /\ capture.temporal = temporal
            /\ temporal.queue # 0
            /\ \A x \in AllSamples : ~Topology[x.consumer].skip

--------------------------------------------------------------------------------
(* The books of a lineage.                                                  *)

(***************************************************************************)
(* What cursors cs and an accepted clock t say of the moments ms, samples  *)
(* ln and skipped samples sk of a lineage.  It holds of the running        *)
(* process and of every checkpoint.                                        *)
(***************************************************************************)
ClockCovers(t, ms) ==
    /\ ms \subseteq Moments
    /\ \A m \in ms : m.step <= t.step /\ m.time <= t.time
    /\ t.step = 0 \/ \E m \in ms : m.step = t.step
    /\ \A c \in Consumers, u \in 1 .. t.time :
          Topology[c].trigger = "every_dt" /\ OnLattice(c, u) =>
              \E m \in ms : m.time = u /\ ~m.start

SamplesAreDue(ms, ln) ==
    \A a \in ln : \E m \in ms :
        Due(a.consumer, m) /\ a.occ = Occurrence(a.consumer, m)

DueIsKnown(ms, ln, sk) ==
    \A c \in Consumers : \A m \in ms : Due(c, m) =>
        Occurrence(c, m) \in Occurrences(ln, c) \cup Occurrences(sk, c)

CursorsCount(cs, ln) ==
    /\ cs \in CursorSets
    /\ ln \subseteq Sample
    /\ \A c \in Consumers :
          /\ IsFiniteSet(OfConsumer(ln, c))
          /\ cs[c].n = Cardinality(OfConsumer(ln, c))
          /\ \A a \in OfConsumer(ln, c) :
                a.n <= cs[c].n /\ a.occ[1] <= cs[c].last[1]
          /\ \A a, b \in OfConsumer(ln, c) : a.occ = b.occ => a = b
          /\ cs[c].last = NoOccurrence \/ cs[c].last \in Occurrences(ln, c)

Books(cs, t, ms, ln, sk) ==
    /\ t \in Authority
    /\ ClockCovers(t, ms)
    /\ SamplesAreDue(ms, ln)
    /\ DueIsKnown(ms, ln, sk)
    /\ CursorsCount(cs, ln)

BooksInv ==
    Books(IF pc = "seal" THEN AcceptedCursors ELSE cursors, Base, moments,
          lineage, skipped)

\* The samples are on disk, or a checkpoint among them was left by a cleanup.
Backed(samples, visible, left) ==
    samples \subseteq visible \/ \E e \in left \cap samples : IsCheckpoint(e)

\* Every visible checkpoint could be restarted from.
VaultInv ==
    \A v \in vault :
        /\ Books(v.cursors, v.temporal, v.moments, v.lineage, v.skipped)
        /\ v.temporal.accepted = v.temporal.step
        /\ v.temporal.queue # 0
        /\ Backed(v.lineage, disk, exposed)
        /\ v.sample # NoSample => v.sample \in v.lineage /\ IsCheckpoint(v.sample)

\* A checkpoint of the open attempt, which an abort takes away first.
InFlight(v) == txns # <<>> /\ v.sample \in txns[Len(txns)].shown

\* What is on disk, and who knows of it.
DiskInv ==
    /\ Backed(lineage, disk, exposed) /\ Shown \subseteq disk
    /\ pc = "seal" => Shown \subseteq lineage
    /\ \A a \in disk \cup lineage : a.epoch <= epoch
    /\ \A v \in vault : \A a \in v.lineage : a.epoch <= epoch
    /\ \A v \in vault : \A a \in v.lineage : a.epoch = epoch =>
          v.sample \in exposed \/ a \in lineage \/ (InFlight(v) /\ a \in Shown)
    /\ \A a \in disk : a.epoch = epoch => a \in lineage \cup exposed \cup Shown

\* A run that has left a sample visible is over, or on its way out.
ExposedInv ==
    /\ \A a \in exposed :
          /\ a.epoch <= epoch /\ a.run <= runs
          /\ a.epoch = epoch /\ a.run = runs =>
                pc = "idle" \/ (pc = "abort" /\ failure = "fail")
    /\ pc = "abort" /\ txns # <<>> => failure = "fail"

IndInv ==
    /\ TypeOK
    /\ ShapeInv
    /\ ControlInv
    /\ PositionInv
    /\ EntryInv
    /\ BoundaryInv
    /\ StatusInv
    /\ EffectInv
    /\ CaptureInv
    /\ BooksInv
    /\ VaultInv
    /\ DiskInv
    /\ ExposedInv
    /\ OwnersKeepTheirReport

--------------------------------------------------------------------------------
(* Numbers and sequences.                                                   *)

\* The least number principle, and its mirror for finite sets.
LEMMA LeastElement ==
    ASSUME NEW S \in SUBSET Nat, S # {}
    PROVE  \E x \in S : \A y \in S : x <= y
<1> DEFINE R == OpToRel(<, Nat)
<1>1. IsWellFoundedOn(R, Nat)
  BY NatLessThanWellFounded
<1> HIDE DEF R
<1>2. PICK x \in S : \A y \in S : <<y, x>> \notin R
  BY <1>1, WFMin
<1>3. \A y \in S : ~(y < x)
  BY <1>2 DEF R, OpToRel
<1> QED
  BY <1>3

LEMMA GreatestElement ==
    ASSUME NEW S \in SUBSET Nat, S # {}, NEW n \in Nat, \A x \in S : x <= n
    PROVE  \E x \in S : \A y \in S : x >= y
<1> DEFINE Above == {b \in Nat : \A x \in S : x <= b}
<1>1. PICK b \in Above : \A c \in Above : b <= c
  <2>1. Above \in SUBSET Nat /\ n \in Above
    OBVIOUS
  <2> HIDE DEF Above
  <2> QED
    BY <2>1, LeastElement
<1>2. b \in S
  <2> SUFFICES ASSUME b \notin S PROVE FALSE
    OBVIOUS
  <2>1. PICK y \in S : TRUE
    OBVIOUS
  <2>2. \A x \in S : x < b
    OBVIOUS
  <2>3. b - 1 \in Above
    BY <2>1, <2>2
  <2> QED
    BY <2>3, <1>1
<1> QED
  BY <1>1, <1>2


Listing(S, s) ==
    /\ s \in [1 .. Cardinality(S) -> S]
    /\ \A i, j \in 1 .. Cardinality(S) : i < j => s[i] < s[j]

LEMMA ListingExists ==
    ASSUME NEW S \in SUBSET Nat, NEW n \in Nat, \A x \in S : x <= n
    PROVE  \E s : Listing(S, s)
<1> DEFINE Listed(m) == \A T \in SUBSET (0 .. m - 1) : \E s : Listing(T, s)
           Unlisted == {m \in Nat : ~Listed(m)}
<1>1. ASSUME NEW m \in Nat, Listed(m)
      PROVE  Listed(m + 1)
  <2> SUFFICES ASSUME NEW T \in SUBSET (0 .. m)
               PROVE  \E s : Listing(T, s)
    OBVIOUS
  <2> DEFINE U == T \ {m}
  <2>1. PICK s : Listing(U, s)
    BY <1>1
  <2>2. CASE m \notin T
    BY <2>1, <2>2
  <2>3. CASE m \in T
    <3>0. U \in SUBSET Nat /\ \A x \in U : x < m /\ x <= m
      OBVIOUS
    <3>1. IsFiniteSet(U) /\ T = U \cup {m} /\ m \notin U
      BY <2>3, <3>0, FS_BoundedSetOfNaturals
    <3> HIDE DEF U
    <3>2. /\ Cardinality(U) \in Nat
          /\ Cardinality(T) = Cardinality(U) + 1
      BY <3>1, FS_AddElement, FS_CardinalityType
    <3> DEFINE c == Cardinality(U)
               t == [i \in 1 .. c + 1 |-> IF i = c + 1 THEN m ELSE s[i]]
    <3>3. /\ \A i \in 1 .. c : s[i] \in U /\ s[i] < m
          /\ \A i, j \in 1 .. c : i < j => s[i] < s[j]
      BY <2>1, <3>0 DEF Listing
    <3>3a. c \in Nat
      BY <3>2
    <3> HIDE DEF c
    <3>4. t \in [1 .. c + 1 -> T]
      BY <3>1, <3>3, <3>3a
    <3>5. \A i, j \in 1 .. c + 1 : i < j => t[i] < t[j]
      <4> SUFFICES ASSUME NEW i \in 1 .. c + 1, NEW j \in 1 .. c + 1, i < j
                   PROVE  t[i] < t[j]
        OBVIOUS
      <4>1. i \in 1 .. c /\ t[i] = s[i] /\ (j = c + 1 \/ j \in 1 .. c)
        BY <3>3a
      <4> QED
        BY <3>3, <4>1
    <3> QED
      BY <3>2, <3>4, <3>5 DEF Listing, c
  <2> QED
    BY <2>2, <2>3
<1>2. Listed(0)
  <2>1. Cardinality({}) = 0 /\ <<>> \in [1 .. 0 -> {}]
    BY FS_EmptySet
  <2>2. Listing({}, <<>>)
    BY <2>1 DEF Listing
  <2>3. 0 .. 0 - 1 = {}
    OBVIOUS
  <2> QED
    BY <2>2, <2>3
<1> HIDE DEF Listed
<1>3. Unlisted = {}
  <2> SUFFICES ASSUME Unlisted # {} PROVE FALSE
    OBVIOUS
  <2>1. PICK m \in Unlisted : \A k \in Unlisted : m <= k
    BY LeastElement
  <2>2. m # 0 /\ m - 1 \in Nat /\ m - 1 \notin Unlisted
    BY <2>1, <1>2
  <2>3. Listed((m - 1) + 1)
    BY <2>2, <1>1
  <2>4. (m - 1) + 1 = m
    BY <2>1
  <2> QED
    BY <2>1, <2>3, <2>4
<1>4. Listed(n + 1)
  BY <1>3
<1>5. S \in SUBSET (0 .. (n + 1) - 1)
  OBVIOUS
<1> QED
  BY <1>4, <1>5 DEF Listed

\* Every bounded set of numbers has a listing in ascending order.
LEMMA AscendingFacts ==
    ASSUME NEW S \in SUBSET Nat, NEW n \in Nat, \A x \in S : x <= n
    PROVE  /\ Ascending(S) \in Seq(S)
           /\ DOMAIN Ascending(S) = 1 .. Len(Ascending(S))
           /\ \A x \in S : \E i \in DOMAIN Ascending(S) : Ascending(S)[i] = x
           /\ \A i, j \in DOMAIN Ascending(S) :
                 Ascending(S)[i] = Ascending(S)[j] => i = j
<1> DEFINE s == Ascending(S)
           c == Cardinality(S)
<1>1. Listing(S, s)
  <2>1. PICK t : Listing(S, t)
    BY ListingExists
  <2>2. t \in [1 .. c -> S] /\ DOMAIN t = 1 .. c
    BY <2>1 DEF Listing
  <2>3. \E u \in [1 .. c -> S] : \A i, j \in DOMAIN u : i < j => u[i] < u[j]
    BY <2>1, <2>2 DEF Listing
  <2>4. s \in [1 .. c -> S] /\ \A i, j \in DOMAIN s : i < j => s[i] < s[j]
    BY <2>3 DEF Ascending
  <2> QED
    BY <2>4 DEF Listing
<1>2. IsFiniteSet(S) /\ c \in Nat
  BY FS_BoundedSetOfNaturals, FS_CardinalityType
<1> HIDE DEF s
<1>3. \A i, j \in 1 .. c : s[i] = s[j] => i = j
  <2> SUFFICES ASSUME NEW i \in 1 .. c, NEW j \in 1 .. c, s[i] = s[j], i # j
               PROVE  FALSE
    OBVIOUS
  <2>1. s[i] \in S /\ s[j] \in S /\ i \in Nat /\ j \in Nat
    BY <1>1 DEF Listing
  <2>2. i < j \/ j < i
    BY <2>1
  <2>3. (i < j => s[i] < s[j]) /\ (j < i => s[j] < s[i])
    BY <1>1 DEF Listing
  <2>4. \A x \in S : ~(x < x)
    OBVIOUS
  <2> QED
    BY <2>1, <2>2, <2>3, <2>4
<1>4. s \in Seq(S) /\ Len(s) = c /\ DOMAIN s = 1 .. c
  BY <1>1, <1>2 DEF Listing
<1>5. \A x \in S : \E i \in 1 .. c : s[i] = x
  <2> DEFINE I == {s[i] : i \in 1 .. c}
  <2>1. ExistsBijection(1 .. c, I)
    <3>1. s \in Bijection(1 .. c, I)
      BY <1>1, <1>3 DEF Listing, Bijection, Injection, Surjection, IsInjective
    <3> QED
      BY <3>1 DEF ExistsBijection
  <2>2. IsFiniteSet(1 .. c) /\ Cardinality(1 .. c) = c
    BY <1>2, FS_Interval
  <2>3. Cardinality(I) = c
    BY <2>1, <2>2, FS_Bijection
  <2>4. I \in SUBSET S
    BY <1>1 DEF Listing
  <2>5. I = S
    BY <2>3, <2>4, <1>2, FS_Subset
  <2> QED
    BY <2>5
<1> QED
  BY <1>3, <1>4, <1>5 DEF s

\* The least and the greatest element, as FiniteSetsExt defines them.
LEMMA MinFacts ==
    ASSUME NEW S \in SUBSET Nat, S # {}
    PROVE  Min(S) \in S /\ Min(S) \in Nat /\ \A y \in S : Min(S) <= y
<1>1. \E x \in S : \A y \in S : x <= y
  BY LeastElement
<1> QED
  BY <1>1 DEF Min

LEMMA MaxFacts ==
    ASSUME NEW S \in SUBSET Nat, S # {}, NEW n \in Nat, \A x \in S : x <= n
    PROVE  Max(S) \in S /\ \A y \in S : Max(S) >= y
<1>1. \E x \in S : \A y \in S : x >= y
  BY GreatestElement
<1> QED
  BY <1>1 DEF Max

LEMMA MinOfTwo ==
    ASSUME NEW x \in Nat, NEW y \in Nat
    PROVE  Min({x, y}) \in {x, y} /\ Min({x, y}) <= x /\ Min({x, y}) <= y
  BY MinFacts

LEMMA MultipleBound ==
    ASSUME NEW p \in Nat \ {0}, NEW t \in Nat, NEW u \in Nat, u % p = 0, u > t
    PROVE  p * (t \div p + 1) <= u
<1> DEFINE q == t \div p
           r == u \div p
<1>1. q \in Nat /\ r \in Nat /\ u = p * r
  BY SMT
<1>2. p * q <= t
  BY SMT
<1> HIDE DEF q, r
<1>3. p * q < p * r
  BY <1>1, <1>2
<1>4. q < r
  <2> SUFFICES ASSUME r <= q PROVE FALSE
    BY <1>1
  <2>1. p * r <= p * q
    BY <1>1
  <2> QED
    BY <1>1, <1>3, <2>1
<1>5. q + 1 <= r
  BY <1>1, <1>4
<1>6. p * (q + 1) <= p * r
  BY <1>1, <1>5
<1> QED
  BY <1>1, <1>6 DEF q

LEMMA MultipleAfter ==
    ASSUME NEW p \in Nat \ {0}, NEW t \in Nat
    PROVE  p * (t \div p + 1) \in Nat /\ p * (t \div p + 1) > t
  OBVIOUS

LEMMA QuotientMonotone ==
    ASSUME NEW p \in Nat \ {0}, NEW t \in Nat, NEW u \in Nat, t <= u
    PROVE  t \div p \in Nat /\ u \div p \in Nat /\ t \div p <= u \div p
  OBVIOUS

\* What the graph and the constants are.
LEMMA GraphFacts ==
    /\ Consumers = 1 .. Len(Topology) /\ Len(Topology) \in Nat
    /\ Consumers \subseteq Nat \ {0} /\ 0 \notin Consumers
    /\ \A c \in Consumers :
          /\ Topology[c].period \in Nat /\ Topology[c].period # 0
          /\ Topology[c].clock \in Range(Clocks)
          /\ Topology[c].trigger \in Triggers
          /\ Topology[c].skip \in BOOLEAN /\ Topology[c].checkpoint \in BOOLEAN
    /\ DOMAIN Clocks = 1 .. Len(Clocks) /\ Len(Clocks) \in Nat
    /\ \A i, j \in DOMAIN Clocks : Clocks[i] = Clocks[j] => i = j
    /\ \A c \in Consumers : \E j \in DOMAIN Clocks : Clocks[j] = Topology[c].clock
<1>1. /\ Topology \in Seq([clock : Range(Clocks), trigger : Triggers,
                         period : Nat \ {0}, skip : BOOLEAN,
                         checkpoint : BOOLEAN])
      /\ Clocks \in Seq(Range(Clocks)) /\ IsInjective(Clocks)
  BY EnvelopeAssumption
<1> DEFINE T == [clock : Range(Clocks), trigger : Triggers, period : Nat \ {0},
                 skip : BOOLEAN, checkpoint : BOOLEAN]
<1>2. /\ Consumers = 1 .. Len(Topology) /\ Len(Topology) \in Nat
      /\ \A c \in Consumers : Topology[c] \in T
  <2>1. Topology \in Seq(T)
    BY <1>1
  <2> HIDE DEF T
  <2> QED
    BY <2>1 DEF Consumers
<1>3. DOMAIN Clocks = 1 .. Len(Clocks) /\ Len(Clocks) \in Nat
  BY <1>1
<1>4. \A i, j \in DOMAIN Clocks : Clocks[i] = Clocks[j] => i = j
  BY <1>1 DEF IsInjective
<1>5. \A k \in Range(Clocks) : \E j \in DOMAIN Clocks : Clocks[j] = k
  BY DEF Range
<1>6. \A c \in Consumers : Topology[c].clock \in Range(Clocks)
  BY <1>2
<1> QED
  BY <1>2, <1>3, <1>4, <1>5, <1>6

LEMMA ConstantFacts ==
    /\ RunEnds \subseteq Nat
    /\ DtMin \in Nat \ {0} /\ DtInit \in Nat \ {0} /\ DtMax \in Nat \ {0}
    /\ DtMin <= DtInit /\ DtInit <= DtMax /\ DtInit \in 0 .. DtMax
    /\ MaxRejections \in Nat
    /\ MaxSteps \in Nat /\ MaxRuns \in Nat /\ MaxFaults \in Nat /\ MaxEpochs \in Nat
  BY EnvelopeAssumption

(***************************************************************************)
(* The boundaries of a step: all lie ahead, and no lattice point comes     *)
(* before the nearest of them.                                             *)
(***************************************************************************)
LEMMA DeadlineFacts ==
    ASSUME NEW time \in Nat
    PROVE  /\ Deadlines(time) \subseteq Nat
           /\ \A d \in Deadlines(time) : d > time
           /\ \A c \in Consumers, u \in Nat :
                 Topology[c].trigger = "every_dt" /\ OnLattice(c, u) /\ u > time
                    => \E d \in Deadlines(time) : d <= u
<1>1. ASSUME NEW d \in Deadlines(time)
      PROVE  d \in Nat /\ d > time
  <2>1. PICK c \in Consumers : d = Topology[c].period * (time \div Topology[c].period + 1)
    BY DEF Deadlines
  <2>2. Topology[c].period \in Nat \ {0}
    BY GraphFacts
  <2> QED
    BY <2>1, <2>2, MultipleAfter
<1>2. ASSUME NEW c \in Consumers, NEW u \in Nat, Topology[c].trigger = "every_dt",
             OnLattice(c, u), u > time
      PROVE  \E d \in Deadlines(time) : d <= u
  <2>1. Topology[c].period \in Nat \ {0} /\ u % Topology[c].period = 0
    BY <1>2, GraphFacts DEF OnLattice
  <2>2. Topology[c].period * (time \div Topology[c].period + 1) \in Deadlines(time)
    BY <1>2 DEF Deadlines
  <2> QED
    BY <1>2, <2>1, <2>2, MultipleBound
<1> QED
  BY <1>1, <1>2

LEMMA StepEndFacts ==
    ASSUME NEW time \in Nat, NEW end \in Nat, time < end
    PROVE  /\ StepEnd(end, time) \in Nat
           /\ StepEnd(end, time) > time
           /\ \A d \in Deadlines(time) : StepEnd(end, time) <= d
<1>1. {end} \cup Deadlines(time) \in SUBSET Nat
  BY DeadlineFacts
<1>2. /\ StepEnd(end, time) \in {end} \cup Deadlines(time)
      /\ \A d \in {end} \cup Deadlines(time) : StepEnd(end, time) <= d
  BY <1>1, MinFacts DEF StepEnd
<1> QED
  BY <1>1, <1>2, DeadlineFacts


--------------------------------------------------------------------------------
(* What is planned.                                                         *)

\* The parts of the state that an effect is computed from.
PlanState == cursors \in CursorSets /\ epoch \in Nat /\ runs \in Nat

LEMMA OccurrenceFacts ==
    ASSUME NEW c \in Consumers, NEW m \in Moments
    PROVE  /\ Occurrence(c, m) \in Int \X Int
           /\ Occurrence(c, m)[1] \in Nat
           /\ Occurrence(c, m) # NoOccurrence
<1>1. Topology[c].period \in Nat \ {0} /\ m.step \in Nat /\ m.time \in Nat
  BY GraphFacts DEF Moments
<1>2. m.time \div Topology[c].period \in Nat
  BY <1>1
<1> QED
  BY <1>1, <1>2 DEF Occurrence, NoOccurrence

(***************************************************************************)
(* Occurrences of one consumer follow the accepted clock, and the lattice  *)
(* index or the step tells them apart.                                     *)
(***************************************************************************)
LEMMA OccurrenceOrder ==
    ASSUME NEW c \in Consumers, NEW m \in Moments, NEW l \in Moments,
           l.step <= m.step, l.time <= m.time
    PROVE  /\ Occurrence(c, l)[1] <= Occurrence(c, m)[1]
           /\ Occurrence(c, l)[1] = Occurrence(c, m)[1] =>
                 Occurrence(c, l) = Occurrence(c, m)
<1>1. /\ Topology[c].period \in Nat \ {0} /\ m.step \in Nat /\ m.time \in Nat
      /\ l.step \in Nat /\ l.time \in Nat
  BY GraphFacts DEF Moments
<1>2. l.time \div Topology[c].period <= m.time \div Topology[c].period
  BY <1>1, QuotientMonotone
<1> QED
  BY <1>1, <1>2 DEF Occurrence

LEMMA EffectFacts ==
    ASSUME PlanState, NEW c \in Consumers, NEW m \in Moments
    PROVE  /\ Effect(c, m) \in Sample
           /\ Effect(c, m).consumer = c
           /\ Effect(c, m).occ = Occurrence(c, m)
           /\ Effect(c, m).n = cursors[c].n + 1
           /\ Effect(c, m).epoch = epoch
<1>1. cursors[c].n \in Nat
  BY DEF PlanState, CursorSets
<1> QED
  BY <1>1, OccurrenceFacts DEF Effect, Sample, PlanState

\* The plan of one clock holds one effect for each consumer due on it.
LEMMA EffectPlanFacts ==
    ASSUME PlanState, NEW m \in Moments, NEW clock
    PROVE  /\ EffectPlan(clock, m) \in Seq(Sample)
           /\ \A c \in Consumers : Topology[c].clock = clock /\ Planned(c, m) =>
                 Effect(c, m) \in Range(EffectPlan(clock, m))
           /\ \A e \in Range(EffectPlan(clock, m)) :
                 /\ e.consumer \in Consumers /\ Planned(e.consumer, m)
                 /\ e = Effect(e.consumer, m)
                 /\ Topology[e.consumer].clock = clock
<1> DEFINE D == {c \in Consumers : Topology[c].clock = clock /\ Planned(c, m)}
           due == Ascending(D)
<1>1. /\ due \in Seq(D) /\ DOMAIN due = 1 .. Len(due)
      /\ \A c \in D : \E i \in DOMAIN due : due[i] = c
  <2>1. D \in SUBSET Nat /\ \A x \in D : x <= Len(Topology)
    BY GraphFacts
  <2> HIDE DEF D
  <2> QED
    BY <2>1, GraphFacts, AscendingFacts
<1>2. EffectPlan(clock, m) = [j \in DOMAIN due |-> Effect(due[j], m)]
  BY DEF EffectPlan
<1>3. D \subseteq Consumers /\ \A c \in D : Topology[c].clock = clock /\ Planned(c, m)
  OBVIOUS
<1>4. \A c \in Consumers : Topology[c].clock = clock /\ Planned(c, m) => c \in D
  OBVIOUS
<1> HIDE DEF D, due
<1>5. \A j \in DOMAIN due : due[j] \in D /\ Effect(due[j], m) \in Sample
                            /\ Effect(due[j], m).consumer = due[j]
  <2>1. \A j \in DOMAIN due : due[j] \in D
    BY <1>1, ElementOfSeq
  <2> QED
    BY <2>1, <1>3, EffectFacts
<1>6. EffectPlan(clock, m) \in Seq(Sample)
  <2>1. Len(due) \in Nat
    BY <1>1, LenProperties
  <2> DEFINE s == [j \in 1 .. Len(due) |-> Effect(due[j], m)]
  <2>2. s \in [1 .. Len(due) -> Sample]
    BY <1>1, <1>5
  <2>3. EffectPlan(clock, m) = s
    BY <1>1, <1>2
  <2> HIDE DEF s
  <2> QED
    BY <2>1, <2>2, <2>3
<1>7. ASSUME NEW e \in Range(EffectPlan(clock, m))
      PROVE  /\ e.consumer \in Consumers /\ Planned(e.consumer, m)
             /\ e = Effect(e.consumer, m)
             /\ Topology[e.consumer].clock = clock
  <2>1. PICK j \in DOMAIN due : e = Effect(due[j], m)
    BY <1>2 DEF Range
  <2> QED
    BY <2>1, <1>3, <1>5
<1>8. ASSUME NEW c \in Consumers, Topology[c].clock = clock, Planned(c, m)
      PROVE  Effect(c, m) \in Range(EffectPlan(clock, m))
  <2>1. PICK j \in DOMAIN due : due[j] = c
    BY <1>1, <1>4, <1>8
  <2> QED
    BY <2>1, <1>2 DEF Range
<1> QED
  BY <1>6, <1>7, <1>8

\* The plans of a moment: each planned consumer is in exactly one of them.
LEMMA PlansFacts ==
    ASSUME PlanState, NEW m \in Moments
    PROVE  /\ Plans(m) \in Seq(Seq(Sample) \ {<<>>})
           /\ DOMAIN Plans(m) = 1 .. Len(Plans(m)) /\ Len(Plans(m)) \in Nat
           /\ \A c \in Consumers : Planned(c, m) =>
                 \E j \in DOMAIN Plans(m) : Effect(c, m) \in Range(Plans(m)[j])
           /\ \A j \in DOMAIN Plans(m) : \A e \in Range(Plans(m)[j]) :
                 /\ e.consumer \in Consumers /\ Planned(e.consumer, m)
                 /\ e = Effect(e.consumer, m)
                 /\ \A i \in DOMAIN Plans(m) : e \in Range(Plans(m)[i]) => i = j
<1> DEFINE D == {j \in DOMAIN Clocks : EffectPlan(Clocks[j], m) # <<>>}
           busy == Ascending(D)
<1>1. /\ busy \in Seq(D) /\ DOMAIN busy = 1 .. Len(busy)
      /\ \A c \in D : \E i \in DOMAIN busy : busy[i] = c
      /\ \A i, j \in DOMAIN busy : busy[i] = busy[j] => i = j
  <2>1. D \in SUBSET Nat /\ \A x \in D : x <= Len(Clocks)
    BY GraphFacts
  <2> HIDE DEF D
  <2> QED
    BY <2>1, GraphFacts, AscendingFacts
<1>2. Plans(m) = [j \in DOMAIN busy |-> EffectPlan(Clocks[busy[j]], m)]
  BY DEF Plans
<1>3. D \subseteq DOMAIN Clocks /\ \A j \in D : EffectPlan(Clocks[j], m) # <<>>
  OBVIOUS
<1>4. \A j \in DOMAIN Clocks : EffectPlan(Clocks[j], m) # <<>> => j \in D
  OBVIOUS
<1> HIDE DEF D, busy
<1>5. \A j \in DOMAIN busy : /\ busy[j] \in D
                             /\ EffectPlan(Clocks[busy[j]], m) \in Seq(Sample) \ {<<>>}
  <2>1. \A j \in DOMAIN busy : busy[j] \in D
    BY <1>1, ElementOfSeq
  <2> QED
    BY <2>1, <1>3, EffectPlanFacts
<1>6. /\ Plans(m) \in Seq(Seq(Sample) \ {<<>>})
      /\ DOMAIN Plans(m) = 1 .. Len(Plans(m)) /\ Len(Plans(m)) \in Nat
      /\ DOMAIN Plans(m) = DOMAIN busy
  <2>1. Len(busy) \in Nat
    BY <1>1, LenProperties
  <2> DEFINE T == Seq(Sample) \ {<<>>}
             s == [j \in 1 .. Len(busy) |-> EffectPlan(Clocks[busy[j]], m)]
  <2>2. s \in [1 .. Len(busy) -> T]
    BY <1>1, <1>5
  <2>3. Plans(m) = s
    BY <1>1, <1>2
  <2> HIDE DEF s, T
  <2>4. Plans(m) \in Seq(T) /\ DOMAIN Plans(m) = 1 .. Len(busy) /\ Len(Plans(m)) = Len(busy)
    BY <2>1, <2>2, <2>3
  <2> QED
    BY <2>1, <2>4, <1>1 DEF T
<1>7. ASSUME NEW c \in Consumers, Planned(c, m)
      PROVE  \E j \in DOMAIN Plans(m) : Effect(c, m) \in Range(Plans(m)[j])
  <2>1. PICK k \in DOMAIN Clocks : Clocks[k] = Topology[c].clock
    BY GraphFacts
  <2>2. Effect(c, m) \in Range(EffectPlan(Clocks[k], m))
    BY <2>1, <1>7, EffectPlanFacts
  <2>3. EffectPlan(Clocks[k], m) # <<>>
    BY <2>2 DEF Range
  <2>4. PICK j \in DOMAIN busy : busy[j] = k
    BY <2>3, <1>1, <1>4
  <2> QED
    BY <2>2, <2>4, <1>2, <1>6
<1>8. ASSUME NEW j \in DOMAIN Plans(m), NEW e \in Range(Plans(m)[j])
      PROVE  /\ e.consumer \in Consumers /\ Planned(e.consumer, m)
             /\ e = Effect(e.consumer, m)
             /\ Topology[e.consumer].clock = Clocks[busy[j]]
  BY <1>2, <1>6, EffectPlanFacts
<1>9. ASSUME NEW j \in DOMAIN Plans(m), NEW e \in Range(Plans(m)[j]),
             NEW i \in DOMAIN Plans(m), e \in Range(Plans(m)[i])
      PROVE  i = j
  <2>1. Clocks[busy[i]] = Clocks[busy[j]]
    BY <1>8, <1>9
  <2>2. busy[i] \in DOMAIN Clocks /\ busy[j] \in DOMAIN Clocks
    BY <1>3, <1>5, <1>6
  <2> QED
    BY <2>1, <2>2, <1>1, <1>6, GraphFacts
<1> QED
  BY <1>6, <1>7, <1>8, <1>9


--------------------------------------------------------------------------------
(* The books of a lineage.                                                  *)

\* The books read no more of the accepted authority than its clock.
LEMMA BooksReadTheClock ==
    ASSUME NEW cs, NEW t, NEW ms, NEW ln, NEW sk, Books(cs, t, ms, ln, sk),
           NEW u \in Authority, Clock(u) = Clock(t)
    PROVE  Books(cs, u, ms, ln, sk)
<1>1. u.step = t.step /\ u.time = t.time
  BY DEF Clock
<1> QED
  BY <1>1 DEF Books, ClockCovers

LEMMA EmptyBooks ==
    ASSUME NEW t \in Authority, t.step = 0, t.time = 0
    PROVE  Books(FreshCursors, t, {}, {}, {})
<1>1. /\ FreshCursors \in CursorSets
      /\ \A c \in Consumers : FreshCursors[c].n = 0
                              /\ FreshCursors[c].last = NoOccurrence
  BY DEF FreshCursors, CursorSets, NewCursor, NoOccurrence
<1>2. \A c : OfConsumer({}, c) = {}
  BY DEF OfConsumer
<1>3. IsFiniteSet({}) /\ Cardinality({}) = 0
  BY FS_EmptySet
<1>4. CursorsCount(FreshCursors, {})
  BY <1>1, <1>2, <1>3 DEF CursorsCount
<1>5. 1 .. t.time = {}
  OBVIOUS
<1>6. ClockCovers(t, {})
  BY <1>5 DEF ClockCovers
<1> QED
  BY <1>4, <1>6 DEF Books, SamplesAreDue, DueIsKnown

(***************************************************************************)
(* The effects planned for the moment m after the books (cs, t, ms, ln):   *)
(* one for each consumer that is due and whose occurrence is not yet       *)
(* committed.                                                              *)
(***************************************************************************)
PlannedEffects(E, cs, m) ==
    /\ E \subseteq Sample
    /\ \A e \in E : /\ Due(e.consumer, m)
                    /\ e.occ = Occurrence(e.consumer, m)
                    /\ e.occ # cs[e.consumer].last
                    /\ e.n = cs[e.consumer].n + 1
    /\ \A e, f \in E : e.consumer = f.consumer => e = f
    /\ \A c \in Consumers : Due(c, m) /\ Occurrence(c, m) # cs[c].last =>
          \E e \in E : e.consumer = c

\* The accepted clock moves to the moment m and passes no boundary.
NextMoment(t, m, u) ==
    /\ m \in Moments /\ u \in Authority
    /\ u.step = m.step /\ u.time = m.time
    /\ IF m.start THEN u.step = t.step /\ u.time = t.time
       ELSE /\ u.step = t.step + 1 /\ u.time >= t.time
            /\ \A d \in Deadlines(t.time) : u.time <= d

LEMMA ClockCoversMoment ==
    ASSUME NEW t \in Authority, NEW ms, ClockCovers(t, ms),
           NEW m, NEW u, NextMoment(t, m, u)
    PROVE  ClockCovers(u, ms \cup {m})
<1>1. /\ t.step \in Nat /\ t.time \in Nat /\ u.step \in Nat /\ u.time \in Nat
      /\ m \in Moments /\ m.step = u.step /\ m.time = u.time
      /\ m.start \in BOOLEAN
  BY DEF NextMoment, Authority, Moments
<1>2. t.step <= u.step /\ t.time <= u.time
  BY <1>1 DEF NextMoment
<1>3. \A l \in ms : l.step <= u.step /\ l.time <= u.time /\ l \in Moments
  <2> SUFFICES ASSUME NEW l \in ms PROVE l.step <= u.step /\ l.time <= u.time /\ l \in Moments
    OBVIOUS
  <2>1. l \in Moments /\ l.step <= t.step /\ l.time <= t.time
    BY DEF ClockCovers
  <2>2. l.step \in Nat /\ l.time \in Nat
    BY <2>1 DEF Moments
  <2> QED
    BY <2>1, <2>2, <1>1, <1>2
<1>4. ASSUME NEW c \in Consumers, NEW v \in 1 .. u.time,
             Topology[c].trigger = "every_dt", OnLattice(c, v)
      PROVE  \E l \in ms \cup {m} : l.time = v /\ ~l.start
  <2>1. CASE v <= t.time
    <3>1. v \in 1 .. t.time
      BY <2>1, <1>1
    <3>2. \E l \in ms : l.time = v /\ ~l.start
      BY <3>1, <1>4 DEF ClockCovers
    <3> QED
      BY <3>2
  <2>2. CASE v > t.time
    <3>1. PICK d \in Deadlines(t.time) : d <= v
      BY <2>2, <1>1, <1>4, DeadlineFacts
    <3>2. ~m.start
      BY <2>2, <1>1 DEF NextMoment
    <3>3. u.time <= d /\ d \in Nat
      BY <3>2, <1>1, DeadlineFacts DEF NextMoment
    <3>4. m.time = v
      BY <3>1, <3>3, <1>1
    <3> QED
      BY <3>2, <3>4
  <2> QED
    BY <2>1, <2>2, <1>1
<1> QED
  BY <1>1, <1>3, <1>4 DEF ClockCovers

LEMMA CursorsCountEffects ==
    ASSUME NEW cs, NEW t \in Authority, NEW ms, NEW ln, ClockCovers(t, ms),
           SamplesAreDue(ms, ln), CursorsCount(cs, ln),
           NEW m, NEW u, NextMoment(t, m, u),
           NEW E, PlannedEffects(E, cs, m), NEW shown \in SUBSET E
    PROVE  CursorsCount(Advanced(cs, shown), ln \cup shown)
<1> DEFINE ad == Advanced(cs, shown)
<1>1. cs \in CursorSets /\ ln \subseteq Sample /\ shown \subseteq Sample
  BY DEF CursorsCount, PlannedEffects
<1>2. \A l \in ms : l \in Moments /\ l.step <= m.step /\ l.time <= m.time
  <2>1. ClockCovers(u, ms \cup {m}) /\ u.step = m.step /\ u.time = m.time
    BY ClockCoversMoment DEF NextMoment
  <2> QED
    BY <2>1 DEF ClockCovers
<1>3. m \in Moments
  BY DEF NextMoment
<1>4. ASSUME NEW c \in Consumers, NEW e \in shown, e.consumer = c
      PROVE  ad[c] = [last |-> e.occ, n |-> e.n]
  <2>1. \A f \in shown : f.consumer = c => f = e
    BY <1>4 DEF PlannedEffects
  <2>2. (CHOOSE f \in shown : f.consumer = c) = e
    BY <2>1, <1>4
  <2> QED
    BY <2>2, <1>4 DEF Advanced
<1>5. ASSUME NEW c \in Consumers, \A e \in shown : e.consumer # c
      PROVE  ad[c] = cs[c] /\ OfConsumer(ln \cup shown, c) = OfConsumer(ln, c)
  BY <1>5 DEF Advanced, OfConsumer
<1>6. ASSUME NEW c \in Consumers, NEW e \in shown, e.consumer = c
      PROVE  OfConsumer(ln \cup shown, c) = OfConsumer(ln, c) \cup {e}
  <2>1. \A f \in shown : f.consumer = c => f = e
    BY <1>6 DEF PlannedEffects
  <2> QED
    BY <2>1, <1>6 DEF OfConsumer
<1>7. ad \in CursorSets
  <2>1. \A c \in Consumers : ad[c] \in [last : Int \X Int, n : Nat]
    <3> SUFFICES ASSUME NEW c \in Consumers
                 PROVE  ad[c] \in [last : Int \X Int, n : Nat]
      OBVIOUS
    <3>1. CASE \E e \in shown : e.consumer = c
      <4>1. PICK e \in shown : e.consumer = c
        BY <3>1
      <4>2. e.occ \in Int \X Int /\ e.n \in Nat
        BY <1>1 DEF Sample
      <4>3. ad[c] = [last |-> e.occ, n |-> e.n]
        BY <4>1, <1>4
      <4> HIDE DEF ad
      <4> QED
        BY <4>2, <4>3
    <3>2. CASE \A e \in shown : e.consumer # c
      BY <3>2, <1>5, <1>1 DEF CursorSets
    <3> QED
      BY <3>1, <3>2
  <2>2. ad = [c \in Consumers |-> ad[c]]
    BY DEF Advanced
  <2> HIDE DEF ad
  <2> QED
    BY <2>1, <2>2 DEF CursorSets
<1> HIDE DEF ad
<1>8. ASSUME NEW c \in Consumers
      PROVE  /\ IsFiniteSet(OfConsumer(ln \cup shown, c))
             /\ ad[c].n = Cardinality(OfConsumer(ln \cup shown, c))
             /\ \A a \in OfConsumer(ln \cup shown, c) :
                   a.n <= ad[c].n /\ a.occ[1] <= ad[c].last[1]
             /\ \A a, b \in OfConsumer(ln \cup shown, c) : a.occ = b.occ => a = b
             /\ \/ ad[c].last = NoOccurrence
                \/ ad[c].last \in Occurrences(ln \cup shown, c)
  <2> DEFINE old == OfConsumer(ln, c)
  <2>1. /\ IsFiniteSet(old) /\ cs[c].n = Cardinality(old)
        /\ \A a \in old : a.n <= cs[c].n /\ a.occ[1] <= cs[c].last[1]
        /\ \A a, b \in old : a.occ = b.occ => a = b
        /\ cs[c].last = NoOccurrence \/ cs[c].last \in Occurrences(ln, c)
    BY DEF CursorsCount
  <2>2. CASE \A e \in shown : e.consumer # c
    <3>1. ad[c] = cs[c] /\ OfConsumer(ln \cup shown, c) = old
      BY <2>2, <1>5
    <3>2. Occurrences(ln \cup shown, c) = Occurrences(ln, c)
      BY <3>1 DEF Occurrences
    <3> QED
      BY <2>1, <3>1, <3>2
  <2>3. CASE \E e \in shown : e.consumer = c
    <3>1. PICK e \in shown : e.consumer = c
      BY <2>3
    <3>2. ad[c] = [last |-> e.occ, n |-> e.n] /\ OfConsumer(ln \cup shown, c) = old \cup {e}
      BY <3>1, <1>4, <1>6
    <3>3. /\ e \in Sample /\ Due(c, m) /\ e.occ = Occurrence(c, m)
          /\ e.occ # cs[c].last /\ e.n = cs[c].n + 1
      BY <3>1, <1>1 DEF PlannedEffects
    <3>4. /\ cs[c].n \in Nat /\ cs[c].last \in Int \X Int
          /\ \A a \in old : a \in Sample /\ a \in ln /\ a.consumer = c
                            /\ a.n \in Nat /\ a.occ \in Int \X Int
      BY <1>1 DEF CursorSets, Sample, OfConsumer
    <3>5. ASSUME NEW a \in old
          PROVE  /\ a.occ[1] <= e.occ[1] /\ a.occ[1] \in Nat
                 /\ a.occ[1] = e.occ[1] => a.occ = e.occ
      <4>1. PICK l \in ms : Due(a.consumer, l) /\ a.occ = Occurrence(a.consumer, l)
        BY <3>4 DEF SamplesAreDue
      <4>2. a.occ = Occurrence(c, l) /\ l \in Moments
        BY <4>1, <3>4, <1>2
      <4> QED
        BY <4>1, <4>2, <3>3, <1>2, <1>3, OccurrenceOrder, OccurrenceFacts
    <3>6. ASSUME NEW a \in old PROVE a.occ # e.occ
      <4>1. SUFFICES ASSUME a.occ = e.occ PROVE FALSE
        OBVIOUS
      <4>2. a.occ[1] <= cs[c].last[1] /\ a.occ[1] \in Nat
        BY <2>1, <3>5
      <4>3. cs[c].last # NoOccurrence
        BY <4>2 DEF NoOccurrence
      <4>4. PICK b \in old : b.occ = cs[c].last
        BY <4>3, <2>1 DEF Occurrences
      <4>5. b.occ[1] <= e.occ[1] /\ b.occ[1] \in Nat
            /\ (b.occ[1] = e.occ[1] => b.occ = e.occ)
        BY <3>5
      <4>6. b.occ[1] = e.occ[1]
        BY <4>1, <4>2, <4>4, <4>5
      <4> QED
        BY <4>4, <4>5, <4>6, <3>3
    <3>7. e \notin old
      BY <3>6
    <3>8. \A a \in old : a.n <= e.n
      BY <2>1, <3>3, <3>4
    <3>9. /\ IsFiniteSet(old \cup {e})
          /\ Cardinality(old \cup {e}) = Cardinality(old) + 1
      BY <2>1, <3>7, FS_AddElement
    <3>10. e.occ \in Occurrences(ln \cup shown, c)
      BY <3>2 DEF Occurrences
    <3>11. e.n \in Nat /\ e.occ[1] \in Int
      BY <3>3, <3>4 DEF Sample
    <3>12. ad[c].n = e.n /\ ad[c].last = e.occ
      BY <3>2
    <3>13. \A a \in old \cup {e} : a.n <= e.n /\ a.occ[1] <= e.occ[1]
      BY <3>5, <3>8, <3>11
    <3>14. \A a, b \in old \cup {e} : a.occ = b.occ => a = b
      BY <2>1, <3>6
    <3>15. e.n = Cardinality(old \cup {e})
      BY <2>1, <3>3, <3>9
    <3> HIDE DEF old
    <3> QED
      BY <3>2, <3>9, <3>10, <3>12, <3>13, <3>14, <3>15
  <2> QED
    BY <2>2, <2>3
<1> QED
  BY <1>1, <1>7, <1>8 DEF CursorsCount, ad

(***************************************************************************)
(* The step that is accepted keeps the books: its samples are published or *)
(* noted as skipped, and the cursors of the published ones advance.        *)
(***************************************************************************)
LEMMA BooksExtend ==
    ASSUME NEW cs, NEW t, NEW ms, NEW ln, NEW sk, Books(cs, t, ms, ln, sk),
           NEW m, NEW u, NextMoment(t, m, u),
           NEW E, PlannedEffects(E, cs, m),
           NEW shown \in SUBSET E, NEW omitted, E \ shown \subseteq omitted
    PROVE  Books(Advanced(cs, shown), u, ms \cup {m}, ln \cup shown, sk \cup omitted)
<1>1. /\ t \in Authority /\ ClockCovers(t, ms) /\ SamplesAreDue(ms, ln)
      /\ DueIsKnown(ms, ln, sk) /\ CursorsCount(cs, ln)
  BY DEF Books
<1>2. u \in Authority /\ m \in Moments
  BY DEF NextMoment
<1>3. ClockCovers(u, ms \cup {m})
  BY <1>1, ClockCoversMoment
<1>4. CursorsCount(Advanced(cs, shown), ln \cup shown)
  BY <1>1, CursorsCountEffects
<1>5. SamplesAreDue(ms \cup {m}, ln \cup shown)
  BY <1>1 DEF SamplesAreDue, PlannedEffects
<1>6. DueIsKnown(ms \cup {m}, ln \cup shown, sk \cup omitted)
  <2>1. \A c \in Consumers : Occurrences(ln, c) \cup Occurrences(sk, c) \subseteq
            Occurrences(ln \cup shown, c) \cup Occurrences(sk \cup omitted, c)
    BY DEF Occurrences, OfConsumer
  <2>2. ASSUME NEW c \in Consumers, Due(c, m)
        PROVE  Occurrence(c, m) \in
                 Occurrences(ln \cup shown, c) \cup Occurrences(sk \cup omitted, c)
    <3>1. CASE Occurrence(c, m) = cs[c].last
      <4>1. cs[c].last \in Occurrences(ln, c)
        BY <3>1, <1>1, <1>2, OccurrenceFacts DEF CursorsCount
      <4> QED
        BY <4>1, <3>1, <2>1
    <3>2. CASE Occurrence(c, m) # cs[c].last
      <4>1. PICK e \in E : e.consumer = c
        BY <2>2, <3>2 DEF PlannedEffects
      <4>2. e.occ = Occurrence(c, m) /\ e \in shown \cup omitted
        BY <4>1 DEF PlannedEffects
      <4> QED
        BY <4>1, <4>2 DEF Occurrences, OfConsumer
    <3> QED
      BY <3>1, <3>2
  <2>3. \A c \in Consumers : \A l \in ms : Due(c, l) =>
            Occurrence(c, l) \in Occurrences(ln, c) \cup Occurrences(sk, c)
    BY <1>1 DEF DueIsKnown
  <2> QED
    BY <2>1, <2>2, <2>3 DEF DueIsKnown
<1> QED
  BY <1>2, <1>3, <1>4, <1>5, <1>6 DEF Books


--------------------------------------------------------------------------------
(* The staged transactions.                                                 *)

LEMMA FunctionIsSeq ==
    ASSUME NEW n \in Nat, NEW T, NEW s \in [1 .. n -> T]
    PROVE  s \in Seq(T) /\ Len(s) = n /\ DOMAIN s = 1 .. n
  OBVIOUS

LEMMA TransactionFacts ==
    ASSUME ShapeInv
    PROVE  /\ DOMAIN txns = 1 .. Len(txns) /\ Len(txns) \in Nat
           /\ \A j \in DOMAIN txns :
                 /\ txns[j] \in Transactions
                 /\ txns[j].effects \in Seq(Sample) \ {<<>>}
                 /\ txns[j].shown \subseteq Sample
                 /\ Samples(txns[j]) \subseteq Sample
                 /\ Head(txns[j].effects) \in Samples(txns[j])
<1>1. txns \in Seq(Transactions)
  BY DEF ShapeInv
<1>2. DOMAIN txns = 1 .. Len(txns) /\ Len(txns) \in Nat
  BY <1>1, LenProperties
<1>3. \A j \in DOMAIN txns : txns[j] \in Transactions
  BY <1>1, ElementOfSeq
<1>4. ASSUME NEW s \in Seq(Sample) \ {<<>>}
      PROVE  Range(s) \subseteq Sample /\ Head(s) \in Range(s)
  <2>1. s # <<>> /\ s \in Seq(Sample)
    OBVIOUS
  <2>2. DOMAIN s = 1 .. Len(s) /\ Len(s) \in Nat /\ Len(s) # 0
    BY <2>1, EmptySeq, LenProperties
  <2>3. Head(s) = s[1] /\ 1 \in DOMAIN s
    BY <2>1, <2>2, HeadTailProperties
  <2> QED
    BY <2>2, <2>3 DEF Range
<1> QED
  BY <1>2, <1>3, <1>4 DEF Transactions, Samples

\* The first transaction that is not accepted yet.
LEMMA NextStagedFacts ==
    ASSUME ShapeInv, StatusInv, pc = "accept", ~AllAccepted
    PROVE  /\ NextStaged \in DOMAIN txns /\ txns[NextStaged].status = "staged"
           /\ txns[NextStaged].shown = {}
           /\ \A i \in DOMAIN txns : i < NextStaged => txns[i].status = "accepted"
<1> DEFINE S == {j \in DOMAIN txns : txns[j].status = "staged"}
<1>1. DOMAIN txns = 1 .. Len(txns) /\ Len(txns) \in Nat
  BY TransactionFacts
<1>2. \A j \in DOMAIN txns : txns[j].status \in {"staged", "accepted"}
  BY DEF StatusInv
<1>3. S \in SUBSET Nat /\ S # {}
  BY <1>1, <1>2 DEF AllAccepted
<1> DEFINE First(j) == /\ txns[j].status = "staged"
                       /\ \A i \in 1 .. j - 1 : txns[i].status # "staged"
<1>4. \E j \in DOMAIN txns : First(j)
  <2>1. PICK j \in S : \A i \in S : j <= i
    BY <1>3, LeastElement
  <2>2. \A i \in 1 .. j - 1 : i \in DOMAIN txns /\ i \notin S
    BY <1>1, <2>1
  <2> QED
    BY <2>1, <2>2
<1>5. NextStaged \in DOMAIN txns /\ First(NextStaged)
  BY <1>4 DEF NextStaged
<1>6. \A i \in DOMAIN txns : i < NextStaged => i \in 1 .. NextStaged - 1
  BY <1>1, <1>5, FunctionIsSeq
<1> QED
  BY <1>2, <1>5, <1>6 DEF StatusInv

LEMMA LastUnresolvedFacts ==
    ASSUME ShapeInv, Unresolved # {}
    PROVE  /\ Max(Unresolved) \in Unresolved /\ Max(Unresolved) \in DOMAIN txns
           /\ \A j \in Unresolved : j <= Max(Unresolved)
<1>1. DOMAIN txns = 1 .. Len(txns) /\ Len(txns) \in Nat
  BY TransactionFacts
<1>2. Unresolved \in SUBSET Nat /\ \A x \in Unresolved : x <= Len(txns)
  BY <1>1 DEF Unresolved
<1> QED
  BY <1>1, <1>2, MaxFacts DEF Unresolved

\* One transaction is accepted, fails or is aborted; the others stay.
LEMMA ReplaceOne ==
    ASSUME ShapeInv, NEW j \in DOMAIN txns,
           NEW t \in Transactions, t.effects = txns[j].effects,
           txns' = [txns EXCEPT ![j] = t]
    PROVE  /\ txns' \in Seq(Transactions)
           /\ DOMAIN txns' = DOMAIN txns /\ Len(txns') = Len(txns)
           /\ \A i \in DOMAIN txns : /\ Samples(txns'[i]) = Samples(txns[i])
                                     /\ i # j => txns'[i] = txns[i]
           /\ txns'[j] = t
<1>1. /\ DOMAIN txns = 1 .. Len(txns) /\ Len(txns) \in Nat
      /\ \A i \in DOMAIN txns : txns[i] \in Transactions
  BY TransactionFacts
<1>2. /\ DOMAIN txns' = DOMAIN txns
      /\ \A i \in DOMAIN txns : i # j => txns'[i] = txns[i]
      /\ txns'[j] = t
  BY <1>1
<1>3. \A i \in DOMAIN txns : txns'[i] \in Transactions /\ txns'[i].effects = txns[i].effects
  BY <1>1, <1>2
<1>4. txns' \in [1 .. Len(txns) -> Transactions]
  <2>1. txns' = [i \in DOMAIN txns |-> txns'[i]]
    OBVIOUS
  <2> QED
    BY <2>1, <1>1, <1>3
<1>5. txns' \in Seq(Transactions) /\ Len(txns') = Len(txns)
  <2> DEFINE n == Len(txns)
  <2>1. n \in Nat /\ txns' \in [1 .. n -> Transactions]
    BY <1>1, <1>4
  <2> HIDE DEF n
  <2>2. txns' \in Seq(Transactions) /\ Len(txns') = n
    BY <2>1, FunctionIsSeq
  <2> QED
    BY <2>2 DEF n
<1> QED
  BY <1>2, <1>3, <1>5 DEF Samples

LEMMA SettleOne ==
    ASSUME ShapeInv, NEW j \in DOMAIN txns, NEW status \in Statuses,
           NEW shown \in SUBSET Sample,
           txns' = [txns EXCEPT ![j].status = status, ![j].shown = shown]
    PROVE  /\ txns' \in Seq(Transactions)
           /\ DOMAIN txns' = DOMAIN txns /\ Len(txns') = Len(txns)
           /\ \A i \in DOMAIN txns : /\ Samples(txns'[i]) = Samples(txns[i])
                                     /\ i # j => txns'[i] = txns[i]
           /\ txns'[j].status = status /\ txns'[j].shown = shown
<1> DEFINE t == [txns[j] EXCEPT !.status = status, !.shown = shown]
<1>1. txns[j] \in Transactions
  BY TransactionFacts
<1>2. /\ t \in Transactions /\ t.effects = txns[j].effects
      /\ t.status = status /\ t.shown = shown
  BY <1>1 DEF Transactions
<1>3. txns' = [txns EXCEPT ![j] = t]
  OBVIOUS
<1> HIDE DEF t
<1> QED
  BY <1>2, <1>3, ReplaceOne

\* A transaction whose accept fails shows none of its samples.
LEMMA FailOne ==
    ASSUME ShapeInv, NEW j \in DOMAIN txns, txns[j].shown = {},
           txns' = [txns EXCEPT ![j].status = "failed"]
    PROVE  txns' = [txns EXCEPT ![j].status = "failed", ![j].shown = {}]
<1>1. txns[j] \in Transactions
  BY TransactionFacts
<1>2. [txns[j] EXCEPT !.status = "failed"] =
      [txns[j] EXCEPT !.status = "failed", !.shown = {}]
  BY <1>1 DEF Transactions
<1> QED
  BY <1>2

\* What staging leaves behind when it succeeds.
LEMMA StagedFacts ==
    ASSUME PlanState, NEW m \in Moments,
           txns' = [j \in DOMAIN Plans(m) |-> Staged(Plans(m)[j])]
    PROVE  /\ txns' \in Seq(Transactions)
           /\ DOMAIN txns' = DOMAIN Plans(m) /\ Len(txns') = Len(Plans(m))
           /\ \A j \in DOMAIN txns' : /\ txns'[j].status = "staged"
                                      /\ txns'[j].shown = {}
                                      /\ Samples(txns'[j]) = Range(Plans(m)[j])
<1> DEFINE p == Plans(m)
<1>1. /\ p \in Seq(Seq(Sample) \ {<<>>})
      /\ DOMAIN p = 1 .. Len(p) /\ Len(p) \in Nat
  BY PlansFacts
<1> HIDE DEF p
<1>2. \A j \in DOMAIN p : p[j] \in Seq(Sample) \ {<<>>}
  BY <1>1, ElementOfSeq
<1>3. \A j \in DOMAIN p : Staged(p[j]) \in Transactions
  BY <1>2 DEF Staged, Transactions, Statuses
<1>4. txns' = [j \in 1 .. Len(p) |-> Staged(p[j])]
  BY <1>1 DEF p
<1>5. txns' \in [1 .. Len(p) -> Transactions]
  BY <1>1, <1>3, <1>4
<1>6. txns' \in Seq(Transactions) /\ Len(txns') = Len(p) /\ DOMAIN txns' = DOMAIN p
  BY <1>1, <1>5, FunctionIsSeq
<1>7. \A j \in DOMAIN p : txns'[j] = Staged(p[j])
  BY <1>1, <1>4
<1> QED
  BY <1>6, <1>7 DEF p, Staged, Samples

LEMMA MomentFacts ==
    ASSUME TypeOK, NEW start \in BOOLEAN, NEW end \in BOOLEAN
    PROVE  Moment(start, end) \in Moments /\ Moment(start, end).start = start
  BY DEF TypeOK, Moment, Moments, Authority


--------------------------------------------------------------------------------
(* Types and shapes.                                                        *)

LEMMA PlanStateHolds ==
    ASSUME TypeOK, ShapeInv PROVE PlanState
  BY DEF TypeOK, ShapeInv, PlanState

\* The outcomes of staging at a moment m.
LEMMA StageOutcomes ==
    ASSUME TypeOK, ShapeInv, NEW m \in Moments, StageConsumers(m)
    PROVE  /\ moment' = m
           /\ \/ /\ txns' = [j \in DOMAIN Plans(m) |-> Staged(Plans(m)[j])]
                 /\ txns' \in Seq(Transactions)
                 /\ ~StageRefused(Plans(m))
                 /\ capture' = IF \E e \in EffectsOf(Plans(m)) : IsCheckpoint(e)
                               THEN [cursors |-> Predicted(EffectsOf(Plans(m))),
                                     temporal |-> temporal]
                               ELSE NoCapture
                 /\ pc' = IF m.start THEN "accept" ELSE "commit"
                 /\ UNCHANGED <<failure, faults>>
              \/ /\ pc' = "abort" /\ failure' = "fail"
                 /\ faults' = faults \/ faults' = faults + 1
                 /\ UNCHANGED <<txns, capture>>
<1>1. CASE /\ txns' = [j \in DOMAIN Plans(m) |-> Staged(Plans(m)[j])]
           /\ ~StageRefused(Plans(m))
           /\ capture' = IF \E e \in EffectsOf(Plans(m)) : IsCheckpoint(e)
                         THEN [cursors |-> Predicted(EffectsOf(Plans(m))),
                               temporal |-> temporal]
                         ELSE NoCapture
           /\ pc' = IF m.start THEN "accept" ELSE "commit"
           /\ UNCHANGED <<failure, faults>>
  <2>1. txns' \in Seq(Transactions)
    BY <1>1, PlanStateHolds, StagedFacts
  <2>2. moment' = m
    BY DEF StageConsumers
  <2> QED
    BY <1>1, <2>1, <2>2
<1>2. CASE /\ Raise("fail") /\ UNCHANGED <<txns, capture>>
           /\ IF StageRefused(Plans(m)) THEN UNCHANGED faults ELSE Fault
  <2>1. moment' = m
    BY DEF StageConsumers
  <2> QED
    BY <1>2, <2>1 DEF Raise, Fault
<1> QED
  BY <1>1, <1>2 DEF StageConsumers

LEMMA TransactionsStep ==
    ASSUME TypeOK, ShapeInv, StatusInv, [Next]_vars
    PROVE  txns' \in Seq(Transactions)
<1>1. txns \in Seq(Transactions)
  BY DEF ShapeInv
<1>2. CASE AcceptOne
  <2> DEFINE j == NextStaged
  <2>1. j \in DOMAIN txns /\ txns[j].shown = {}
    BY <1>2, NextStagedFacts DEF AcceptOne
  <2>2. ASSUME NEW omitted \in SUBSET Skippable(txns[j]),
               txns' = [txns EXCEPT ![j].status = "accepted",
                                    ![j].shown = Samples(txns[j]) \ omitted]
        PROVE  txns' \in Seq(Transactions)
    <3>1. Samples(txns[j]) \ omitted \in SUBSET Sample
      BY <2>1, TransactionFacts
    <3> HIDE DEF j
    <3> QED
      BY <2>1, <2>2, <3>1, SettleOne DEF Statuses
  <2>3. ASSUME txns' = [txns EXCEPT ![j].status = "failed"]
        PROVE  txns' \in Seq(Transactions)
    <3> HIDE DEF j
    <3> QED
      BY <2>1, <2>3, FailOne, SettleOne DEF Statuses
  <2> QED
    BY <1>2, <2>2, <2>3 DEF AcceptOne
<1>3. CASE AbortOne
  <2> DEFINE j == Max(Unresolved)
  <2>1. j \in DOMAIN txns
    BY <1>3, LastUnresolvedFacts DEF AbortOne
  <2>2. txns' = [txns EXCEPT ![j].status = "rejected", ![j].shown = {}]
    BY <1>3 DEF AbortOne
  <2>3. "rejected" \in Statuses /\ {} \in SUBSET Sample
    BY DEF Statuses
  <2> HIDE DEF j
  <2> QED
    BY <2>1, <2>2, <2>3, SettleOne
<1>4. CASE StageAtStart \/ StageStep
  <2>1. PICK m \in Moments : StageConsumers(m)
    <3>1. CASE StageAtStart
      BY <3>1, MomentFacts DEF StageAtStart
    <3>2. CASE StageStep
      BY <3>2, MomentFacts DEF StageStep
    <3> QED
      BY <1>4, <3>1, <3>2
  <2> QED
    BY <1>1, <2>1, StageOutcomes
<1>5. CASE Seal \/ SealRaises \/ AttemptRetried \/ AttemptRaises \/ StartRaises \/ Crash
  <2>1. txns' = <<>>
    BY <1>5 DEF Seal, SealRaises, AttemptRetried, AttemptRaises, StartRaises,
       Crash, LeaveEnvelope, UndoAttempt, ForgetTransactions
  <2> QED
    BY <2>1
<1>6. CASE \/ UNCHANGED vars \/ PrepareAttempts \/ RunReturns
           \/ MaxStepsExhausted \/ Begin \/ SolveAccepted \/ SolveRejected
           \/ SolveFails \/ Commit \/ Finalize \/ Checkpoint \/ Restart
           \/ \E end \in RunEnds : Run(end)
  <2>1. UNCHANGED txns
    BY <1>6 DEF vars, PrepareAttempts, RunReturns, MaxStepsExhausted, Begin,
       SolveAccepted, SolveRejected, SolveFails, Commit, Finalize, Checkpoint,
       Restart, Run
  <2> QED
    BY <1>1, <2>1
<1> QED
  BY <1>2, <1>3, <1>4, <1>5, <1>6 DEF Next, Step

\* The size of the steps the run loop proposes.
LEMMA ProposalFacts ==
    ASSUME TypeOK, ShapeInv, ControlInv, PositionInv, PrepareAttempts
    PROVE  /\ sequence'.dt \in 1 .. DtMax
           /\ \A d \in Deadlines(temporal.time) : temporal.time + sequence'.dt <= d
<1> DEFINE end == StepEnd(run.end, temporal.time)
           room == end - temporal.time
<1>1. /\ native.time = temporal.time /\ temporal.time \in Nat
      /\ run.end \in Nat /\ temporal.time < run.end
  BY DEF TypeOK, ShapeInv, PositionInv, PrepareAttempts, Base, Attempting,
     Clock, Position, Authority
<1>2. /\ end \in Nat /\ end > temporal.time
      /\ \A d \in Deadlines(temporal.time) : end <= d
  BY <1>1, StepEndFacts
<1>3. Deadlines(temporal.time) \subseteq Nat
  BY <1>1, DeadlineFacts
<1>4. nextDt \in Nat \ {0} /\ DtMax \in Nat \ {0}
  BY ConstantFacts DEF TypeOK
<1>5. sequence'.dt = Min({nextDt, DtMax, room})
  BY <1>1 DEF PrepareAttempts
<1> HIDE DEF end
<1>6. {nextDt, DtMax, room} \in SUBSET Nat /\ room > 0
  BY <1>1, <1>2, <1>4
<1> HIDE DEF room
<1>7. /\ sequence'.dt \in {nextDt, DtMax, room}
      /\ sequence'.dt <= DtMax /\ sequence'.dt <= room
  BY <1>5, <1>6, MinFacts
<1>8. sequence'.dt \in 1 .. DtMax
  BY <1>4, <1>6, <1>7
<1>9. ASSUME NEW d \in Deadlines(temporal.time)
      PROVE  temporal.time + sequence'.dt <= d
  <2>1. end <= d /\ d \in Nat
    BY <1>2, <1>3
  <2> QED
    BY <2>1, <1>1, <1>2, <1>7, <1>8 DEF room
<1> QED
  BY <1>8, <1>9

LEMMA ShapeStep ==
    ASSUME TypeOK, ShapeInv, ControlInv, StatusInv, [Next]_vars
    PROVE  ShapeInv'
<1> USE DEF python, history, files, bounds
<1> DEFINE RunShape == [end : Nat, steps : Nat, rejected : Int, counts : Nat,
                        entry : Authority, dt : Nat]
<1>0. /\ txns' \in Seq(Transactions)
      /\ run \in RunShape /\ (pc # "idle" => run.dt # 0) /\ moment \in Moments
      /\ epoch \in Nat /\ runs \in Nat /\ faults \in Nat
  BY TransactionsStep DEF ShapeInv
<1>1. CASE UNCHANGED vars
  BY <1>1 DEF vars, ShapeInv, Attempting
<1>2. CASE \E end \in RunEnds : Run(end)
  <2>1. PICK end \in RunEnds : Run(end)
    BY <1>2
  <2>2. run' \in RunShape /\ run'.dt # 0
    BY <2>1, ConstantFacts DEF Run, TypeOK, Authority
  <2>3. /\ pc' = "start" /\ UNCHANGED <<moment, epoch, faults>> /\ runs' = runs + 1
    BY <2>1 DEF Run
  <2> QED
    BY <1>0, <2>2, <2>3 DEF ShapeInv, Attempting
<1>3. CASE PrepareAttempts
  BY <1>0, <1>3, ConstantFacts DEF PrepareAttempts, ShapeInv, TypeOK, Attempting
<1>4. CASE RunReturns \/ MaxStepsExhausted
  BY <1>0, <1>4 DEF RunReturns, MaxStepsExhausted, RunRaises, ShapeInv, Attempting
<1>5. CASE Begin
  <2>1. /\ snapshot' = [temporal |-> temporal, nextDt |-> nextDt,
                        cursors |-> cursors, reports |-> reports]
        /\ pc = "begin" /\ pc' \in {"solve", "abort"}
        /\ faults' \in {faults, faults + 1}
        /\ UNCHANGED <<temporal, nextDt, cursors, reports, sequence, run, moment,
                       runs, epoch>>
    BY <1>5 DEF Begin, TakeSnapshot, Fault, Raise
  <2>2. temporal \in Authority /\ nextDt \in Nat \ {0}
    BY DEF TypeOK
  <2>3. /\ snapshot'.temporal = temporal' /\ snapshot'.nextDt = nextDt
        /\ snapshot'.cursors = cursors' /\ snapshot'.reports = reports'
        /\ temporal'.rejected \in Nat /\ temporal'.failed \in Nat
        /\ temporal' \in Authority
    BY <2>1, <2>2 DEF Authority
  <2>4. sequence.attempts <= MaxRejections
    BY <2>1 DEF ShapeInv
  <2> QED
    BY <1>0, <2>1, <2>2, <2>3, <2>4 DEF ShapeInv
<1>6. CASE SolveAccepted
  BY <1>0, <1>6 DEF SolveAccepted, ShapeInv, TypeOK, Attempting, Authority
<1>7. CASE SolveRejected \/ SolveFails
  <2>1. /\ pc = "solve" /\ pc' = "abort"
        /\ snapshot.temporal \in Authority /\ snapshot.nextDt \in Nat \ {0}
        /\ snapshot.temporal.rejected <= temporal.rejected
        /\ snapshot.temporal.failed <= temporal.failed
        /\ snapshot.cursors = cursors /\ snapshot.reports = reports
    BY <1>7 DEF SolveRejected, SolveFails, Raise, ShapeInv, Attempting
  <2>2. /\ temporal'.rejected \in {temporal.rejected, temporal.rejected + 1}
        /\ temporal'.failed \in {temporal.failed, temporal.failed + 1}
        /\ temporal.rejected \in Nat /\ temporal.failed \in Nat
        /\ snapshot.temporal.rejected \in Nat /\ snapshot.temporal.failed \in Nat
    BY <1>7, <2>1 DEF SolveRejected, SolveFails, TypeOK, Authority
  <2>3. UNCHANGED <<run, moment, snapshot, cursors, reports, epoch, runs>>
        /\ faults' \in {faults, faults + 1}
    BY <1>7 DEF SolveRejected, SolveFails, Fault
  <2>4. /\ snapshot'.temporal.rejected <= temporal'.rejected
        /\ snapshot'.temporal.failed <= temporal'.failed
    BY <2>1, <2>2, <2>3
  <2>5. /\ snapshot'.temporal \in Authority /\ snapshot'.nextDt \in Nat \ {0}
        /\ snapshot'.cursors = cursors' /\ snapshot'.reports = reports'
        /\ pc' = "abort" /\ pc # "idle" /\ faults' \in Nat
        /\ UNCHANGED <<run, moment, epoch, runs>>
    BY <1>0, <2>1, <2>3
  <2> QED
    BY <1>0, <2>4, <2>5 DEF ShapeInv
<1>8. CASE StageAtStart \/ StageStep
  <2>1. PICK m \in Moments : StageConsumers(m) /\ (m.start <=> pc = "start")
    <3>1. CASE StageAtStart
      BY <3>1, MomentFacts DEF StageAtStart
    <3>2. CASE StageStep
      BY <3>2, MomentFacts DEF StageStep
    <3> QED
      BY <1>8, <3>1, <3>2
  <2>2. /\ moment' = m /\ pc \in {"start", "stage"}
        /\ pc' \in {"abort", "accept", "commit"}
        /\ pc' = "commit" => ~m.start
        /\ faults' \in {faults, faults + 1}
        /\ UNCHANGED <<temporal, nextDt, cursors, reports, run, snapshot, runs, epoch>>
    BY <1>8, <2>1, StageOutcomes DEF StageAtStart, StageStep
  <2> QED
    BY <1>0, <2>1, <2>2 DEF ShapeInv, Attempting
<1>9. CASE Commit
  BY <1>0, <1>9 DEF Commit, Fault, Raise, ShapeInv, Attempting
<1>10. CASE AcceptOne
  <2>1. /\ pc = "accept" /\ pc' \in {"accept", "abort"}
        /\ faults' \in {faults, faults + 1}
        /\ UNCHANGED <<temporal, nextDt, cursors, reports, run, snapshot, moment,
                       runs, epoch>>
    BY <1>10 DEF AcceptOne, Fault, Raise
  <2> QED
    BY <1>0, <2>1 DEF ShapeInv, Attempting
<1>11. CASE Finalize
  BY <1>0, <1>11 DEF Finalize, Reached, Fault, Raise, ShapeInv, Attempting
<1>12. CASE Seal \/ SealRaises
  <2>1. /\ pc' = "loop" /\ pc = "seal" /\ moment' = NoMoment
        /\ run' = IF moment.start THEN run
                  ELSE [run EXCEPT !.steps = @ + 1,
                                   !.rejected = @ + sequence.attempts - 1]
        /\ faults' \in {faults, faults + 1} /\ UNCHANGED <<runs, epoch>>
    BY <1>12 DEF Seal, SealRaises, LeaveEnvelope, Fault
  <2>2. sequence.attempts \in Int
    BY DEF TypeOK
  <2>3. run' \in RunShape /\ run'.dt # 0
    <3>1. run \in RunShape /\ run.dt # 0
      BY <1>0, <2>1
    <3>2. [run EXCEPT !.steps = @ + 1, !.rejected = @ + sequence.attempts - 1]
             \in RunShape
      <4> DEFINE steps == run.steps + 1
                 rejected == run.rejected + sequence.attempts - 1
      <4>1. steps \in Nat /\ rejected \in Int
        BY <3>1, <2>2
      <4>2. [run EXCEPT !.steps = @ + 1, !.rejected = @ + sequence.attempts - 1]
               = [run EXCEPT !.steps = steps, !.rejected = rejected]
        OBVIOUS
      <4> HIDE DEF steps, rejected
      <4> QED
        BY <3>1, <4>1, <4>2
    <3>3. [run EXCEPT !.steps = @ + 1, !.rejected = @ + sequence.attempts - 1].dt
             = run.dt
      BY <3>1
    <3> HIDE DEF RunShape
    <3> QED
      BY <2>1, <3>1, <3>2, <3>3
  <2>4. moment' \in Moments /\ ~Attempting'
    BY <2>1 DEF NoMoment, Moments, Attempting
  <2>5. pc' = "loop" /\ faults' \in Nat /\ runs' \in Nat /\ epoch' \in Nat
    BY <1>0, <2>1
  <2> QED
    BY <1>0, <2>3, <2>4, <2>5 DEF ShapeInv
<1>13. CASE AbortOne
  <2>0. \E there \in SUBSET txns[Max(Unresolved)].shown :
           IF there = {} THEN UNCHANGED faults ELSE Fault
    BY <1>13 DEF AbortOne
  <2>1. /\ faults' \in {faults, faults + 1}
        /\ UNCHANGED <<pc, temporal, nextDt, cursors, reports, run, snapshot,
                       moment, sequence, runs, epoch>>
    <3>1. faults' \in {faults, faults + 1}
      BY <2>0 DEF Fault
    <3>2. UNCHANGED <<pc, python, run, snapshot, moment, sequence, runs, epoch>>
      BY <1>13 DEF AbortOne
    <3> QED
      BY <3>1, <3>2 DEF python
  <2> QED
    BY <1>0, <2>1 DEF ShapeInv, Attempting
<1>14. CASE AttemptRetried
  <2>1. /\ pc = "abort" /\ pc' = "begin" /\ moment' = NoMoment
        /\ sequence' = [sequence EXCEPT !.dt = Reduced]
        /\ ~(sequence.attempts > MaxRejections)
        /\ UNCHANGED <<run, epoch, runs, faults>>
    BY <1>14 DEF AttemptRetried, UndoAttempt, MayRetry, ForgetTransactions
  <2>2. sequence'.attempts = sequence.attempts /\ sequence.attempts \in Int
    BY <2>1 DEF TypeOK
  <2>3. sequence'.attempts <= MaxRejections
    BY <2>1, <2>2, ConstantFacts
  <2>4. moment' \in Moments /\ ~Attempting'
    BY <2>1 DEF NoMoment, Moments, Attempting
  <2> QED
    BY <1>0, <2>1, <2>3, <2>4 DEF ShapeInv
<1>15. CASE AttemptRaises \/ StartRaises
  <2>1. /\ pc' = "idle" /\ moment' = NoMoment
        /\ UNCHANGED <<run, epoch, runs, faults>>
    BY <1>15 DEF AttemptRaises, StartRaises, UndoAttempt, RunRaises,
       ForgetTransactions
  <2>2. moment' \in Moments /\ ~Attempting'
    BY <2>1 DEF NoMoment, Moments, Attempting
  <2> QED
    BY <1>0, <2>1, <2>2 DEF ShapeInv
<1>16. CASE Checkpoint
  BY <1>0, <1>16 DEF Checkpoint, Idle, ShapeInv, Attempting
<1>17. CASE Restart \/ Crash
  <2>1. /\ pc' = "idle" /\ run' = NoRun /\ epoch' = epoch + 1
        /\ moment' \in {moment, NoMoment} /\ UNCHANGED <<faults, runs>>
    BY <1>17 DEF Restart, Crash, Idle, Deeper
  <2>2. NoRun \in RunShape
    BY ConstantFacts DEF NoRun, Authority
  <2>3. moment' \in Moments /\ ~Attempting'
    <3>1. moment \in Moments /\ NoMoment \in Moments
      BY <1>0 DEF NoMoment, Moments
    <3> QED
      BY <2>1, <3>1 DEF Attempting
  <2>4. run' \in RunShape /\ epoch' \in Nat /\ runs' \in Nat /\ faults' \in Nat
    BY <1>0, <2>1, <2>2
  <2> QED
    BY <1>0, <2>1, <2>3, <2>4 DEF ShapeInv
<1> QED
  BY <1>1, <1>2, <1>3, <1>4, <1>5, <1>6, <1>7, <1>8, <1>9, <1>10, <1>11, <1>12,
     <1>13, <1>14, <1>15, <1>16, <1>17 DEF Next, Step


\* The control state stays among the calls there are.
LEMMA ControlType ==
    ASSUME TypeOK, [Next]_vars
    PROVE  /\ pc' \in {"idle", "start", "loop", "begin", "solve", "stage", "commit",
                       "accept", "seal", "abort"}
           /\ failure' \in {"none", "reject", "fail"}
<1> USE DEF python, history, files, bounds, TypeOK
<1>1. CASE UNCHANGED vars
  BY <1>1 DEF vars
<1>2. CASE \/ PrepareAttempts \/ RunReturns \/ MaxStepsExhausted \/ Begin
           \/ \E end \in RunEnds : Run(end)
  BY <1>2 DEF PrepareAttempts, RunReturns, MaxStepsExhausted, RunRaises, Begin,
     Raise, Run
<1>3. CASE SolveAccepted \/ SolveRejected \/ SolveFails \/ StageAtStart \/ StageStep
  BY <1>3 DEF SolveAccepted, SolveRejected, SolveFails, StageAtStart, StageStep,
     StageConsumers, Raise
<1>4. CASE Commit \/ AcceptOne \/ Finalize \/ Seal \/ SealRaises
  BY <1>4 DEF Commit, AcceptOne, Finalize, Reached, Seal, SealRaises,
     LeaveEnvelope, Raise
<1>5. CASE \/ AbortOne \/ AttemptRetried \/ AttemptRaises \/ StartRaises
           \/ Checkpoint \/ Restart \/ Crash
  BY <1>5 DEF AbortOne, AttemptRetried, AttemptRaises, StartRaises, RunRaises,
     Checkpoint, Restart, Crash
<1> QED
  BY <1>1, <1>2, <1>3, <1>4, <1>5 DEF Next, Step

LEMMA EngineType ==
    ASSUME TypeOK, VaultInv, [Next]_vars
    PROVE  /\ native' \in [step : Nat, time : Nat, tx : {"none", "active", "committed"}]
           /\ image' \in [step : Nat, time : Nat]
<1> USE DEF python, history, files, bounds
<1>0. /\ native \in [step : Nat, time : Nat, tx : {"none", "active", "committed"}]
      /\ image \in [step : Nat, time : Nat] /\ sequence.dt \in Nat
  BY DEF TypeOK
<1>1. CASE Begin \/ Commit \/ Finalize
  BY <1>0, <1>1 DEF Begin, Commit, Finalize, NativeBegin, NativeCommit,
     NativeFinalize, Position
<1>2. CASE SolveAccepted \/ SolveFails
  <2> DEFINE step == native.step + 1
             time == native.time + sequence.dt
  <2>1. step \in Nat /\ time \in Nat
    BY <1>0
  <2>2. /\ native' = native \/ native' = [native EXCEPT !.step = step, !.time = time]
        /\ UNCHANGED image
    BY <1>2 DEF SolveAccepted, SolveFails, NativeAdvance
  <2> HIDE DEF step, time
  <2> QED
    BY <1>0, <2>1, <2>2
<1>3. CASE AttemptRetried \/ AttemptRaises
  BY <1>0, <1>3 DEF AttemptRetried, AttemptRaises, UndoAttempt, NativeRollback,
     ForgetTransactions, NoImage
<1>4. CASE Seal \/ SealRaises \/ StartRaises
  BY <1>0, <1>4 DEF Seal, SealRaises, LeaveEnvelope, StartRaises,
     ForgetTransactions, NoImage
<1>5. CASE Restart
  <2>1. PICK v \in vault :
            /\ native' = [step |-> v.temporal.step, time |-> v.temporal.time,
                          tx |-> "none"]
            /\ image' = NoImage
    BY <1>5 DEF Restart
  <2>2. v.temporal.step \in Nat /\ v.temporal.time \in Nat
    BY DEF TypeOK, Authority
  <2> QED
    BY <2>1, <2>2 DEF NoImage
<1>6. CASE Crash
  BY <1>6 DEF Crash, NoImage
<1>7. CASE \/ UNCHANGED vars \/ PrepareAttempts \/ RunReturns \/ MaxStepsExhausted
           \/ SolveRejected \/ StageAtStart \/ StageStep \/ AcceptOne \/ AbortOne
           \/ Checkpoint \/ \E end \in RunEnds : Run(end)
  <2>1. UNCHANGED <<native, image>>
    BY <1>7 DEF vars, PrepareAttempts, RunReturns, MaxStepsExhausted,
       SolveRejected, StageAtStart, StageStep, AcceptOne, AbortOne, Checkpoint, Run
  <2> QED
    BY <1>0, <2>1
<1> QED
  BY <1>1, <1>2, <1>3, <1>4, <1>5, <1>6, <1>7 DEF Next, Step

\* The temporal authority, the controller and its retry sequence.
LEMMA AuthorityType ==
    ASSUME TypeOK, ShapeInv, ControlInv, PositionInv, VaultInv, [Next]_vars
    PROVE  /\ temporal' \in Authority
           /\ nextDt' \in Nat \ {0}
           /\ sequence' \in [dt : 0 .. DtMax, attempts : 0 .. MaxRejections + 1]
           /\ pc' \in {"begin", "solve"} => sequence'.dt \in 1 .. DtMax
<1> USE DEF python, history, files, bounds
<1>0. /\ temporal \in Authority /\ nextDt \in Nat \ {0}
      /\ sequence \in [dt : 0 .. DtMax, attempts : 0 .. MaxRejections + 1]
      /\ pc \in {"begin", "solve"} => sequence.dt \in 1 .. DtMax
  BY DEF TypeOK
<1>1. /\ DtInit \in Nat \ {0} /\ DtInit \in 0 .. DtMax /\ DtMax \in Nat \ {0}
      /\ DtMin \in Nat \ {0} /\ MaxRejections \in Nat
  BY ConstantFacts
<1>2. NoSequence \in [dt : 0 .. DtMax, attempts : 0 .. MaxRejections + 1]
  BY <1>1 DEF NoSequence
<1>3. CASE \E end \in RunEnds : Run(end)
  <2>1. /\ temporal' = BeginRun(temporal) /\ pc' = "start"
        /\ UNCHANGED <<nextDt, sequence>>
    BY <1>3 DEF Run
  <2>2. BeginRun(temporal) \in Authority
    BY <1>0, <1>1 DEF BeginRun, Authority
  <2> QED
    BY <1>0, <2>1, <2>2
<1>4. CASE PrepareAttempts
  <2>1. sequence'.dt \in 1 .. DtMax
    BY <1>4, ProposalFacts
  <2>2. sequence' \in [dt : 0 .. DtMax, attempts : 0 .. MaxRejections + 1]
    <3>1. sequence' = [dt |-> sequence'.dt, attempts |-> 0]
      BY <1>4 DEF PrepareAttempts
    <3> QED
      BY <1>1, <2>1, <3>1
  <2>3. temporal' = [temporal EXCEPT !.queue = sequence'.dt] /\ UNCHANGED nextDt
    BY <1>4 DEF PrepareAttempts
  <2>4. temporal' \in Authority
    BY <1>0, <1>1, <2>1, <2>3 DEF Authority
  <2> QED
    BY <1>0, <2>1, <2>2, <2>3, <2>4
<1>5. CASE SolveAccepted
  <2>1. sequence.dt \in 1 .. DtMax /\ native.step \in Nat /\ native.time \in Nat
    BY <1>0, <1>5 DEF SolveAccepted, TypeOK
  <2>2. nextDt' \in {DtMax, 2 * sequence.dt} /\ nextDt' <= DtMax
    <3> DEFINE next == 2 * sequence.dt
    <3>1. next \in Nat /\ DtMax \in Nat
      BY <1>1, <2>1
    <3>2. nextDt' = Min({DtMax, next})
      BY <1>5 DEF SolveAccepted
    <3> HIDE DEF next
    <3>3. nextDt' \in {DtMax, next} /\ nextDt' <= DtMax
      BY <3>1, <3>2, MinOfTwo
    <3> QED
      BY <3>3 DEF next
  <2>3. nextDt' \in Nat \ {0} /\ nextDt' \in 0 .. DtMax
    BY <1>1, <2>1, <2>2
  <2>4. temporal' \in Authority
    <3> DEFINE step == native.step + 1
               time == native.time + sequence.dt
               accepted == temporal.accepted + 1
    <3>1. /\ step \in Nat /\ time \in Nat /\ accepted \in Nat
          /\ sequence.dt \in 0 .. DtMax
      BY <1>0, <2>1 DEF Authority
    <3>2. temporal' = [temporal EXCEPT !.step = step, !.time = time,
                          !.accepted = accepted, !.queue = nextDt',
                          !.last = sequence.dt]
      BY <1>5 DEF SolveAccepted
    <3> HIDE DEF step, time, accepted
    <3> QED
      BY <1>0, <2>3, <3>1, <3>2 DEF Authority
  <2>5. sequence' \in [dt : 0 .. DtMax, attempts : 0 .. MaxRejections + 1] /\ pc' = "stage"
    <3>1. sequence.attempts <= MaxRejections
      BY <1>5 DEF SolveAccepted, ShapeInv
    <3> QED
      BY <1>0, <1>1, <1>5, <3>1 DEF SolveAccepted
  <2> QED
    BY <2>3, <2>4, <2>5
<1>6. CASE SolveRejected \/ SolveFails
  <2>1. /\ sequence.attempts <= MaxRejections
        /\ sequence' = [sequence EXCEPT !.attempts = @ + 1]
        /\ \/ temporal' = [temporal EXCEPT !.rejected = @ + 1]
           \/ temporal' = [temporal EXCEPT !.failed = @ + 1]
        /\ pc' = "abort" /\ UNCHANGED nextDt
    BY <1>6 DEF SolveRejected, SolveFails, Raise, ShapeInv
  <2>2. temporal' \in Authority
    BY <1>0, <2>1 DEF Authority
  <2> QED
    BY <1>0, <1>1, <2>1, <2>2
<1>7. CASE MaxStepsExhausted \/ StartRaises
  <2>1. /\ RunRaises(temporal, nextDt) /\ pc # "idle" /\ UNCHANGED sequence
    BY <1>7 DEF MaxStepsExhausted, StartRaises
  <2>2. run.entry \in Authority /\ run.dt \in Nat \ {0}
    BY <2>1 DEF ShapeInv
  <2> QED
    BY <1>0, <2>1, <2>2 DEF RunRaises
<1>8. CASE AttemptRetried \/ AttemptRaises
  <2>1. /\ snapshot.temporal \in Authority /\ snapshot.nextDt \in Nat \ {0}
        /\ run.entry \in Authority /\ run.dt \in Nat \ {0}
        /\ snapshot.temporal.rejected <= temporal.rejected
        /\ snapshot.temporal.failed <= temporal.failed
    BY <1>8 DEF AttemptRetried, AttemptRaises, ShapeInv, Attempting
  <2>2. RestoredCounts \in Authority
    <3> DEFINE r == snapshot.temporal.rejected + temporal.rejected
                       - snapshot.temporal.rejected
               f == snapshot.temporal.failed + temporal.failed
                       - snapshot.temporal.failed
    <3>1. r \in Nat /\ f \in Nat
      BY <1>0, <2>1 DEF Authority
    <3>2. RestoredCounts = [snapshot.temporal EXCEPT !.rejected = r, !.failed = f]
      BY DEF RestoredCounts
    <3> HIDE DEF r, f
    <3> QED
      BY <2>1, <3>1, <3>2 DEF Authority
  <2>3. CASE AttemptRetried
    <3>1. Reduced \in 1 .. DtMax
      <4>1. /\ ~(Reduced < DtMin) /\ sequence.dt \in Nat
        BY <1>0, <2>3 DEF AttemptRetried, MayRetry
      <4>2. sequence.dt <= DtMax
        BY <1>0
      <4> QED
        BY <1>1, <4>1, <4>2 DEF Reduced
    <3>2. /\ temporal' = [RestoredCounts EXCEPT !.queue = Reduced]
          /\ nextDt' = snapshot.nextDt
          /\ sequence' = [sequence EXCEPT !.dt = Reduced]
      BY <2>3 DEF AttemptRetried
    <3>3. temporal' \in Authority
      BY <1>1, <2>2, <3>1, <3>2 DEF Authority
    <3>4. /\ sequence' \in [dt : 0 .. DtMax, attempts : 0 .. MaxRejections + 1]
          /\ sequence'.dt \in 1 .. DtMax
      BY <1>0, <1>1, <3>1, <3>2
    <3> QED
      BY <2>1, <3>2, <3>3, <3>4
  <2>4. CASE AttemptRaises
    BY <1>2, <2>1, <2>2, <2>4 DEF AttemptRaises, RunRaises
  <2> QED
    BY <1>8, <2>3, <2>4
<1>9. CASE Seal \/ SealRaises
  BY <1>0, <1>2, <1>9 DEF Seal, SealRaises, LeaveEnvelope
<1>10. CASE Restart
  <2>1. PICK v \in vault : /\ temporal' = v.temporal /\ nextDt' = v.temporal.queue
                           /\ UNCHANGED <<pc, sequence>> /\ pc = "idle"
    BY <1>10 DEF Restart, Idle
  <2>2. v.temporal \in Authority /\ v.temporal.queue # 0
    BY DEF VaultInv, TypeOK
  <2> QED
    BY <1>0, <1>1, <2>1, <2>2 DEF Authority
<1>11. CASE Crash
  <2>1. NoRun.entry \in Authority
    BY <1>1 DEF NoRun, Authority
  <2> QED
    BY <1>1, <1>2, <1>11, <2>1 DEF Crash
<1>12. CASE \/ UNCHANGED vars \/ RunReturns \/ Begin \/ StageAtStart \/ StageStep
            \/ Commit \/ AcceptOne \/ Finalize \/ AbortOne \/ Checkpoint
  <2>1. UNCHANGED <<temporal, nextDt, sequence>>
    BY <1>12 DEF vars, RunReturns, Begin, StageAtStart, StageStep, Commit,
       AcceptOne, Finalize, AbortOne, Checkpoint
  <2>2. pc' \in {"begin", "solve"} => pc \in {"begin", "solve"}
    BY <1>12 DEF vars, RunReturns, Begin, StageAtStart, StageStep, StageConsumers,
       Commit, AcceptOne, Finalize, Reached, Raise, AbortOne, Checkpoint, Idle
  <2> QED
    BY <1>0, <2>1, <2>2
<1> QED
  BY <1>3, <1>4, <1>5, <1>6, <1>7, <1>8, <1>9, <1>10, <1>11, <1>12 DEF Next, Step


--------------------------------------------------------------------------------
(* The engine and the authority.                                            *)

\* What the clocks of one attempt say, in one conjunction.
AttemptInv == ControlInv /\ PositionInv /\ EntryInv /\ BoundaryInv

LEMMA SameClock ==
    ASSUME NEW t, NEW u
    PROVE  Clock(t) = Clock(u) <=> t.step = u.step /\ t.time = u.time
  BY DEF Clock

LEMMA SamePosition ==
    ASSUME NEW n, NEW t
    PROVE  Position(n) = Clock(t) <=> n.step = t.step /\ n.time = t.time
  BY DEF Clock, Position

\* An attempt goes on: neither the engine nor the authority nor the step moves.
LEMMA AttemptGoesOn ==
    ASSUME AttemptInv, Attempting, Attempting',
           UNCHANGED <<image, temporal, sequence, snapshot, run>>,
           native'.step = native.step, native'.time = native.time,
           native'.tx # "none", native.tx # "none",
           pc' \in {"solve", "stage", "commit"} => native'.tx = "active",
           pc' = "accept" => native'.tx = "committed",
           pc' = "stage" => txns' = <<>>, pc' \in {"stage", "commit"} => ~moment'.start,
           pc' # "solve", pc # "solve" \/ pc' = "abort",
           pc' # "abort" => pc \in {"stage", "commit", "accept"}
    PROVE  AttemptInv'
<1>1. Base' = Base
  BY DEF Base
<1>2. pc' \in {"stage", "commit", "accept", "abort"} /\ pc # "idle"
  BY DEF Attempting
<1>3. pc' = "accept" => ~moment'.start
  BY DEF Attempting
<1>4. ControlInv'
  BY <1>2, <1>3 DEF ControlInv
<1>5. PositionInv'
  <2>1. Base'.accepted = Base'.step /\ image' = Clock(Base')
    BY <1>1 DEF AttemptInv, PositionInv
  <2>2. Clock(Base') = Clock(Base) /\ Position(native') = Position(native)
    BY <1>1 DEF Clock, Position
  <2>3. pc' # "abort" =>
          /\ Position(native) = Clock(temporal) /\ temporal.accepted = temporal.step
          /\ temporal.step = Base.step + 1 /\ temporal.time = Base.time + sequence.dt
    BY DEF AttemptInv, PositionInv, Attempting
  <2>4. Clock(temporal') = Clock(temporal)
    BY DEF Clock
  <2> QED
    BY <1>1, <1>2, <2>1, <2>2, <2>3, <2>4 DEF PositionInv
<1>6. EntryInv'
  <2>1. ~(pc = "seal" /\ ~moment.start)
    BY DEF Attempting
  <2> QED
    BY <1>1, <1>2, <2>1 DEF AttemptInv, EntryInv
<1>7. BoundaryInv'
  BY <1>1 DEF AttemptInv, BoundaryInv
<1> QED
  BY <1>4, <1>5, <1>6, <1>7 DEF AttemptInv

\* No attempt is open, and the engine stands where the authority says.
LEMMA NoAttemptOpen ==
    ASSUME ~Attempting', native'.tx = "none", temporal'.accepted = temporal'.step,
           native'.step = temporal'.step, native'.time = temporal'.time,
           pc' \in {"idle", "start", "loop", "begin"} => txns' = <<>> /\ ~moment'.start,
           pc' \in {"idle", "start", "loop", "begin", "accept", "seal", "abort"},
           pc' = "begin" => \A d \in Deadlines(temporal'.time) :
                temporal'.time + sequence'.dt <= d,
           pc' # "idle" /\ ~(pc' = "seal" /\ ~moment'.start) /\ run'.steps = 0 =>
                /\ run'.entry.step = temporal'.step /\ run'.entry.time = temporal'.time
                /\ run'.entry.accepted = temporal'.accepted
    PROVE  AttemptInv'
<1>1. Base' = temporal'
  BY DEF Base
<1>2. ControlInv'
  BY DEF ControlInv, Attempting
<1>3. PositionInv'
  <2>1. Position(native') = Clock(temporal')
    BY SamePosition
  <2>2. ~(pc' = "accept" /\ ~moment'.start)
    BY DEF Attempting
  <2> QED
    BY <1>1, <2>1, <2>2 DEF PositionInv
<1>4. EntryInv'
  BY <1>1, SameClock DEF EntryInv
<1>5. BoundaryInv'
  BY <1>1 DEF BoundaryInv
<1> QED
  BY <1>2, <1>3, <1>4, <1>5 DEF AttemptInv

\* Where the engine and the authority stand when no attempt is open.
LEMMA AtRest ==
    ASSUME AttemptInv, ~Attempting
    PROVE  /\ native.tx = "none" /\ temporal.accepted = temporal.step
           /\ native.step = temporal.step /\ native.time = temporal.time
           /\ pc \in {"idle", "start", "loop", "begin"} => txns = <<>> /\ ~moment.start
           /\ pc # "idle" /\ ~(pc = "seal" /\ ~moment.start) /\ run.steps = 0 =>
                /\ run.entry.step = temporal.step /\ run.entry.time = temporal.time
                /\ run.entry.accepted = temporal.accepted
           /\ pc = "begin" => \A d \in Deadlines(temporal.time) :
                temporal.time + sequence.dt <= d
<1>1. Base = temporal
  BY DEF Base
<1>2. Position(native) = Clock(temporal) /\ temporal.accepted = temporal.step
  BY <1>1 DEF AttemptInv, PositionInv
<1>3. native.tx = "none"
      /\ (pc \in {"idle", "start", "loop", "begin"} => txns = <<>> /\ ~moment.start)
  BY DEF AttemptInv, ControlInv
<1> QED
  BY <1>1, <1>2, <1>3, SameClock, SamePosition
  DEF AttemptInv, EntryInv, BoundaryInv

\* The authority an abort would bring back, while an attempt is open.
LEMMA InAttempt ==
    ASSUME AttemptInv, Attempting
    PROVE  /\ Base = snapshot.temporal
           /\ snapshot.temporal.accepted = snapshot.temporal.step
           /\ native.tx # "none" => /\ image.step = snapshot.temporal.step
                                    /\ image.time = snapshot.temporal.time
           /\ native.tx = "none" \/ pc = "solve" =>
                 /\ native.step = snapshot.temporal.step
                 /\ native.time = snapshot.temporal.time
           /\ pc # "abort" => native.tx # "none"
           /\ \A d \in Deadlines(snapshot.temporal.time) :
                 snapshot.temporal.time + sequence.dt <= d
           /\ run.steps = 0 => /\ run.entry.step = snapshot.temporal.step
                               /\ run.entry.time = snapshot.temporal.time
                               /\ run.entry.accepted = snapshot.temporal.accepted
<1>1. Base = snapshot.temporal
  BY DEF Base
<1>2. /\ native.tx # "none" => image = Clock(Base)
      /\ native.tx = "none" \/ pc = "solve" => Position(native) = Clock(Base)
      /\ Base.accepted = Base.step
  BY DEF AttemptInv, PositionInv
<1>3. pc # "abort" => native.tx # "none"
  BY DEF AttemptInv, ControlInv, Attempting
<1>4. run.steps = 0 => Clock(run.entry) = Clock(Base) /\ run.entry.accepted = Base.accepted
  BY DEF AttemptInv, EntryInv, Attempting
<1>5. \A d \in Deadlines(Base.time) : Base.time + sequence.dt <= d
  BY DEF AttemptInv, BoundaryInv
<1>6. native.tx # "none" => image.step = Base.step /\ image.time = Base.time
  BY <1>2 DEF Clock
<1> QED
  BY <1>1, <1>2, <1>3, <1>4, <1>5, <1>6, SameClock, SamePosition


LEMMA AttemptStep ==
    ASSUME TypeOK, ShapeInv, AttemptInv, VaultInv, [Next]_vars
    PROVE  AttemptInv'
<1> USE DEF python, history, files, bounds
<1>0. /\ temporal \in Authority /\ native.step \in Nat /\ native.time \in Nat
      /\ sequence.dt \in 0 .. DtMax /\ DtMax \in Nat /\ run.steps \in Nat
      /\ temporal.time \in Nat
  BY ConstantFacts DEF TypeOK, ShapeInv, Authority
<1>1. CASE UNCHANGED vars
  BY <1>1 DEF vars, AttemptInv, ControlInv, PositionInv, EntryInv, BoundaryInv,
     Attempting, Base, Deadlines
<1>2. CASE \E end \in RunEnds : Run(end)
  <2>1. /\ pc = "idle" /\ pc' = "start" /\ temporal' = BeginRun(temporal)
        /\ run'.entry = temporal /\ UNCHANGED <<native, txns, moment>>
    BY <1>2 DEF Run, Idle
  <2>2. ~Attempting /\ ~Attempting'
    BY <2>1 DEF Attempting
  <2>3. /\ temporal'.step = temporal.step /\ temporal'.time = temporal.time
        /\ temporal'.accepted = temporal.accepted
    BY <1>0, <2>1 DEF BeginRun, Authority
  <2> QED
    BY <2>1, <2>2, <2>3, AtRest, NoAttemptOpen
<1>3. CASE PrepareAttempts
  <2>1. /\ pc = "loop" /\ pc' = "begin" /\ UNCHANGED <<native, txns, moment, run>>
        /\ temporal' = [temporal EXCEPT !.queue = sequence'.dt]
    BY <1>3 DEF PrepareAttempts
  <2>2. ~Attempting /\ ~Attempting'
    BY <2>1 DEF Attempting
  <2>3. /\ temporal'.step = temporal.step /\ temporal'.time = temporal.time
        /\ temporal'.accepted = temporal.accepted
    BY <1>0, <2>1 DEF Authority
  <2>4. \A d \in Deadlines(temporal'.time) : temporal'.time + sequence'.dt <= d
    BY <1>3, <2>3, ProposalFacts DEF AttemptInv
  <2>5. /\ native'.tx = "none" /\ temporal'.accepted = temporal'.step
        /\ native'.step = temporal'.step /\ native'.time = temporal'.time
        /\ txns' = <<>> /\ ~moment'.start
        /\ run'.steps = 0 =>
              /\ run'.entry.step = temporal'.step /\ run'.entry.time = temporal'.time
              /\ run'.entry.accepted = temporal'.accepted
    BY <2>1, <2>2, <2>3, AtRest
  <2> QED
    BY <2>1, <2>2, <2>4, <2>5, NoAttemptOpen
<1>4. CASE RunReturns \/ MaxStepsExhausted
  <2>1. /\ pc = "loop" /\ pc' = "idle" /\ UNCHANGED <<native, txns, moment, run>>
        /\ temporal' = temporal \/ (run.steps = 0 /\ temporal' = run.entry)
    BY <1>4 DEF RunReturns, MaxStepsExhausted, RunRaises
  <2>2. ~Attempting /\ ~Attempting'
    BY <2>1 DEF Attempting
  <2> QED
    BY <2>1, <2>2, AtRest, NoAttemptOpen
<1>5. CASE Begin
  <2>1. /\ pc = "begin" /\ snapshot'.temporal = temporal
        /\ UNCHANGED <<temporal, sequence, run, txns, moment>>
    BY <1>5 DEF Begin, TakeSnapshot
  <2>2. ~Attempting
    BY <2>1 DEF Attempting
  <2>3. pc' \in {"solve", "abort"} /\ Attempting'
    BY <1>5, <2>1, <2>2, AtRest DEF Begin, Raise, Attempting
  <2>4. Base' = temporal
    BY <2>1, <2>3 DEF Base
  <2>5. \/ /\ pc' = "solve" /\ native'.tx = "active" /\ image' = Position(native)
           /\ Position(native') = Position(native)
        \/ pc' = "abort" /\ UNCHANGED native
    <3>1. CASE NativeBegin /\ pc' = "solve"
      BY <3>1, <1>0 DEF NativeBegin, TypeOK, Position
    <3>2. CASE Raise("fail") /\ UNCHANGED native
      BY <3>2 DEF Raise
    <3> QED
      BY <1>5, <3>1, <3>2 DEF Begin
  <2>6. Position(native) = Clock(temporal)
    BY <2>2, AtRest, SamePosition
  <2>7. ControlInv'
    <3>1. txns' = <<>> /\ ~moment'.start
      BY <2>1, <2>2, AtRest
    <3> QED
      BY <2>3, <2>5, <3>1 DEF ControlInv
  <2>8. PositionInv'
    <3>1. Clock(temporal') = Clock(Base') /\ temporal'.accepted = Base'.accepted
      BY <2>1, <2>4
    <3>2. Base'.accepted = Base'.step /\ Position(native) = Clock(Base')
      BY <2>2, <2>4, <2>6, AtRest
    <3>3. native.tx = "none"
      BY <2>2, AtRest
    <3> QED
      BY <2>3, <2>5, <3>1, <3>2, <3>3 DEF PositionInv
  <2>9. EntryInv'
    <3>1. run.steps = 0 => Clock(run.entry) = Clock(temporal)
                           /\ run.entry.accepted = temporal.accepted
      BY <2>1, <2>2, AtRest, SameClock
    <3> QED
      BY <2>1, <2>4, <3>1 DEF EntryInv
  <2>10. BoundaryInv'
    BY <2>1, <2>2, <2>4, AtRest DEF BoundaryInv
  <2> QED
    BY <2>7, <2>8, <2>9, <2>10 DEF AttemptInv
<1>6. CASE SolveAccepted
  <2>1. /\ pc = "solve" /\ pc' = "stage" /\ NativeAdvance
        /\ temporal'.step = native.step + 1
        /\ temporal'.time = native.time + sequence.dt
        /\ temporal'.accepted = temporal.accepted + 1
        /\ sequence'.dt = sequence.dt
        /\ UNCHANGED <<image, run, snapshot, txns, moment>>
    BY <1>0, <1>6 DEF SolveAccepted, Authority, TypeOK
  <2>2. /\ native'.step = native.step + 1 /\ native'.time = native.time + sequence.dt
        /\ native'.tx = native.tx
    BY <2>1 DEF NativeAdvance, TypeOK
  <2>3. Attempting /\ Attempting' /\ Base' = Base
    BY <2>1 DEF Attempting, Base
  <2>4. /\ native.tx = "active" /\ txns = <<>> /\ ~moment.start
        /\ temporal.accepted = Base.accepted /\ Base.accepted = Base.step
        /\ Position(native) = Clock(Base) /\ image = Clock(Base)
    BY <2>1, <2>3 DEF AttemptInv, ControlInv, PositionInv
  <2>5. native.step = Base.step /\ native.time = Base.time
    BY <2>4, SamePosition
  <2>6. ControlInv'
    BY <2>1, <2>2, <2>3, <2>4 DEF ControlInv
  <2>7. PositionInv'
    <3>1. Position(native') = Clock(temporal')
      BY <2>1, <2>2, SamePosition
    <3>2. temporal'.accepted = temporal'.step
      BY <2>1, <2>4, <2>5
    <3>3. temporal'.step = Base'.step + 1 /\ temporal'.time = Base'.time + sequence'.dt
      BY <2>1, <2>3, <2>5
    <3>4. Base'.accepted = Base'.step /\ image' = Clock(Base')
      BY <2>1, <2>3, <2>4
    <3> QED
      BY <2>1, <2>2, <2>3, <2>4, <3>1, <3>2, <3>3, <3>4 DEF PositionInv
  <2>8. EntryInv'
    BY <2>1, <2>3 DEF AttemptInv, EntryInv
  <2>9. BoundaryInv'
    BY <2>1, <2>3 DEF AttemptInv, BoundaryInv
  <2> QED
    BY <2>6, <2>7, <2>8, <2>9 DEF AttemptInv
<1>7. CASE SolveRejected \/ SolveFails
  <2>1. /\ pc = "solve" /\ pc' = "abort"
        /\ sequence'.dt = sequence.dt
        /\ UNCHANGED <<image, run, snapshot, txns, moment>>
    BY <1>7 DEF SolveRejected, SolveFails, Raise, TypeOK
  <2>2. native'.tx = native.tx
    BY <1>7 DEF SolveRejected, SolveFails, NativeAdvance, TypeOK
  <2>3. native.tx = "active" /\ ~moment.start
    BY <2>1 DEF AttemptInv, ControlInv
  <2>4. Attempting /\ Attempting' /\ Base' = Base
    BY <2>1, <2>3 DEF Attempting, Base
  <2>5. ControlInv'
    BY <2>1, <2>4 DEF ControlInv
  <2>6. PositionInv'
    BY <2>1, <2>2, <2>3, <2>4 DEF AttemptInv, PositionInv
  <2>7. EntryInv'
    BY <2>1, <2>4 DEF AttemptInv, EntryInv
  <2>8. BoundaryInv'
    BY <2>1, <2>4 DEF AttemptInv, BoundaryInv
  <2> QED
    BY <2>5, <2>6, <2>7, <2>8 DEF AttemptInv
<1>8. CASE StageAtStart
  <2>1. /\ pc = "start" /\ StageConsumers(Moment(TRUE, FALSE))
        /\ Moment(TRUE, FALSE) \in Moments /\ Moment(TRUE, FALSE).start = TRUE
        /\ UNCHANGED <<native, temporal, run>>
    BY <1>8, MomentFacts DEF StageAtStart
  <2>2. moment'.start /\ pc' \in {"accept", "abort"}
    BY <2>1, StageOutcomes
  <2>3. ~Attempting /\ ~Attempting'
    BY <2>1, <2>2 DEF Attempting
  <2> QED
    BY <2>1, <2>2, <2>3, AtRest, NoAttemptOpen
<1>9. CASE StageStep
  <2>1. PICK m \in Moments : StageConsumers(m) /\ ~m.start
    BY <1>9, MomentFacts DEF StageStep
  <2>2. pc = "stage" /\ UNCHANGED <<native, image, temporal, sequence, snapshot, run>>
    BY <1>9 DEF StageStep
  <2>3. moment' = m /\ pc' \in {"commit", "abort"}
    BY <2>1, StageOutcomes
  <2>4. Attempting /\ Attempting' /\ native.tx = "active"
    BY <2>1, <2>2, <2>3 DEF Attempting, AttemptInv, ControlInv
  <2> QED
    BY <2>1, <2>2, <2>3, <2>4, AttemptGoesOn
<1>10. CASE Commit
  <2>1. /\ pc = "commit"
        /\ \/ pc' = "accept" /\ NativeCommit
           \/ pc' = "abort" /\ UNCHANGED native
        /\ UNCHANGED <<image, temporal, sequence, snapshot, run, txns, moment>>
    BY <1>10 DEF Commit, Raise
  <2>2. native.tx = "active" /\ ~moment.start
    BY <2>1 DEF AttemptInv, ControlInv
  <2>3. /\ native'.step = native.step /\ native'.time = native.time
        /\ pc' = "accept" => native'.tx = "committed"
        /\ pc' = "abort" => native'.tx = "active"
    BY <2>1, <2>2 DEF NativeCommit, TypeOK
  <2>4. Attempting /\ Attempting'
    BY <2>1, <2>2 DEF Attempting
  <2> QED
    BY <2>1, <2>2, <2>3, <2>4, AttemptGoesOn
<1>11. CASE AcceptOne \/ AbortOne
  <2>1. /\ pc \in {"accept", "abort"} /\ pc' \in {"accept", "abort"}
        /\ pc = "abort" => pc' = "abort"
        /\ UNCHANGED <<native, image, temporal, sequence, snapshot, run, moment>>
    BY <1>11 DEF AcceptOne, AbortOne, Raise
  <2>2. CASE moment.start
    <3>1. ~Attempting /\ ~Attempting'
      BY <2>1, <2>2 DEF Attempting
    <3> QED
      BY <2>1, <2>2, <3>1, AtRest, NoAttemptOpen
  <2>3. CASE ~moment.start
    <3>1. Attempting /\ Attempting' /\ Base' = Base
      BY <2>1, <2>3 DEF Attempting, Base
    <3>2. ControlInv'
      BY <2>1, <2>3, <3>1 DEF AttemptInv, ControlInv
    <3>3. PositionInv'
      BY <2>1, <2>3, <3>1 DEF AttemptInv, PositionInv
    <3>4. EntryInv' /\ BoundaryInv'
      BY <2>1, <3>1 DEF AttemptInv, EntryInv, BoundaryInv
    <3> QED
      BY <3>2, <3>3, <3>4 DEF AttemptInv
  <2> QED
    BY <2>2, <2>3
<1>12. CASE Finalize
  <2>0. pc = "accept" /\ UNCHANGED <<image, temporal, sequence, snapshot, run, txns, moment>>
    BY <1>12 DEF Finalize
  <2>1. CASE pc' = "abort" /\ ~moment.start /\ UNCHANGED native
    <3>1. Attempting /\ Attempting' /\ native.tx = "committed"
      BY <2>0, <2>1 DEF Attempting, AttemptInv, ControlInv
    <3> QED
      BY <2>0, <2>1, <3>1, AttemptGoesOn
  <2>2. CASE pc' = "seal" /\ (IF moment.start THEN UNCHANGED native ELSE NativeFinalize)
    <3>1. ~Attempting'
      BY <2>2 DEF Attempting
    <3>2. /\ native.step = temporal.step /\ native.time = temporal.time
          /\ temporal.accepted = temporal.step
      BY <2>0, SamePosition DEF AttemptInv, PositionInv
    <3>3. moment.start => native.tx = "none" /\ ~Attempting
      BY <2>0 DEF AttemptInv, ControlInv, Attempting
    <3>4. native'.step = native.step /\ native'.time = native.time /\ native'.tx = "none"
      BY <2>2, <3>3 DEF NativeFinalize, TypeOK
    <3> QED
      BY <2>0, <2>2, <3>1, <3>2, <3>3, <3>4, AtRest, NoAttemptOpen
  <2> QED
    BY <1>12, <2>1, <2>2 DEF Finalize, Raise, Reached
<1>13. CASE Seal \/ SealRaises
  <2>1. /\ pc = "seal" /\ pc' = "loop" /\ txns' = <<>> /\ moment' = NoMoment
        /\ run' = IF moment.start THEN run
                  ELSE [run EXCEPT !.steps = @ + 1,
                                   !.rejected = @ + sequence.attempts - 1]
        /\ UNCHANGED <<native, temporal>>
    BY <1>13 DEF Seal, SealRaises, LeaveEnvelope
  <2>2. ~Attempting /\ ~Attempting' /\ ~moment'.start
    BY <2>1 DEF Attempting, NoMoment
  <2>3. ~moment.start => run'.steps # 0
    BY <1>0, <2>1 DEF ShapeInv
  <2> QED
    BY <2>1, <2>2, <2>3, AtRest, NoAttemptOpen
<1>14. CASE AttemptRetried \/ AttemptRaises
  <2>1. /\ pc = "abort" /\ ~moment.start /\ NativeRollback
        /\ txns' = <<>> /\ moment' = NoMoment /\ UNCHANGED run
    BY <1>14 DEF AttemptRetried, AttemptRaises, UndoAttempt, ForgetTransactions
  <2>2. Attempting /\ snapshot.temporal \in Authority
    BY <2>1 DEF Attempting, ShapeInv
  <2>3. /\ native'.tx = "none" /\ native'.step = snapshot.temporal.step
        /\ native'.time = snapshot.temporal.time
    BY <2>1, <2>2, InAttempt DEF NativeRollback
  <2>4. /\ RestoredCounts.step = snapshot.temporal.step
        /\ RestoredCounts.time = snapshot.temporal.time
        /\ RestoredCounts.accepted = snapshot.temporal.accepted
        /\ \A q : /\ [RestoredCounts EXCEPT !.queue = q].step = RestoredCounts.step
                  /\ [RestoredCounts EXCEPT !.queue = q].time = RestoredCounts.time
                  /\ [RestoredCounts EXCEPT !.queue = q].accepted
                        = RestoredCounts.accepted
    BY <2>2 DEF RestoredCounts, Authority
  <2>5. CASE AttemptRetried
    <3>1. /\ pc' = "begin" /\ temporal' = [RestoredCounts EXCEPT !.queue = Reduced]
          /\ sequence' = [sequence EXCEPT !.dt = Reduced]
      BY <2>5 DEF AttemptRetried
    <3>2. ~Attempting' /\ ~moment'.start
      BY <2>1, <3>1 DEF Attempting, NoMoment
    <3>3. /\ temporal'.step = snapshot.temporal.step
          /\ temporal'.time = snapshot.temporal.time
          /\ temporal'.accepted = snapshot.temporal.accepted
      BY <2>4, <3>1
    <3>4. \A d \in Deadlines(temporal'.time) : temporal'.time + sequence'.dt <= d
      <4> SUFFICES ASSUME NEW d \in Deadlines(snapshot.temporal.time)
                   PROVE  snapshot.temporal.time + sequence'.dt <= d
        BY <3>3
      <4>1. snapshot.temporal.time + sequence.dt <= d
        BY <2>2, InAttempt
      <4>2. d \in Nat /\ snapshot.temporal.time \in Nat
        BY <2>2, DeadlineFacts DEF Authority
      <4>3. sequence'.dt = sequence.dt \div 2
        BY <3>1 DEF Reduced, TypeOK
      <4>4. sequence.dt \div 2 <= sequence.dt /\ sequence.dt \div 2 \in Nat
        BY <1>0
      <4> QED
        BY <1>0, <4>1, <4>2, <4>3, <4>4
    <3> QED
      BY <2>1, <2>2, <2>3, <3>1, <3>2, <3>3, <3>4, InAttempt, NoAttemptOpen
  <2>6. CASE AttemptRaises
    <3>1. /\ pc' = "idle"
          /\ temporal' = IF run.steps = 0 THEN run.entry ELSE RestoredCounts
      BY <2>6 DEF AttemptRaises, RunRaises
    <3>2. ~Attempting' /\ ~moment'.start
      BY <2>1, <3>1 DEF Attempting, NoMoment
    <3>3. /\ temporal'.step = snapshot.temporal.step
          /\ temporal'.time = snapshot.temporal.time
          /\ temporal'.accepted = snapshot.temporal.accepted
      BY <2>2, <2>4, <3>1, InAttempt
    <3> QED
      BY <2>1, <2>2, <2>3, <3>1, <3>2, <3>3, InAttempt, NoAttemptOpen
  <2> QED
    BY <1>14, <2>5, <2>6
<1>15. CASE StartRaises
  <2>1. /\ pc = "abort" /\ moment.start /\ pc' = "idle"
        /\ temporal' = IF run.steps = 0 THEN run.entry ELSE temporal
        /\ txns' = <<>> /\ moment' = NoMoment /\ UNCHANGED native
    BY <1>15 DEF StartRaises, RunRaises, ForgetTransactions
  <2>2. ~Attempting /\ ~Attempting' /\ ~moment'.start
    BY <2>1 DEF Attempting, NoMoment
  <2> QED
    BY <2>1, <2>2, AtRest, NoAttemptOpen
<1>16. CASE Checkpoint
  <2>1. pc = "idle" /\ pc' = "idle" /\ UNCHANGED <<native, temporal, txns, moment, run>>
    BY <1>16 DEF Checkpoint, Idle
  <2>2. ~Attempting /\ ~Attempting'
    BY <2>1 DEF Attempting
  <2> QED
    BY <2>1, <2>2, AtRest, NoAttemptOpen
<1>17. CASE Restart
  <2>1. PICK v \in vault :
           /\ native' = [step |-> v.temporal.step, time |-> v.temporal.time,
                         tx |-> "none"]
           /\ temporal' = v.temporal /\ pc = "idle" /\ pc' = "idle"
           /\ UNCHANGED <<txns, moment>>
    BY <1>17 DEF Restart, Idle
  <2>2. ~Attempting /\ ~Attempting'
    BY <2>1 DEF Attempting
  <2>3. v.temporal.accepted = v.temporal.step
    BY DEF VaultInv
  <2>4. txns = <<>> /\ ~moment.start
    BY <2>1, <2>2, AtRest
  <2> QED
    BY <2>1, <2>2, <2>3, <2>4, NoAttemptOpen
<1>18. CASE Crash
  <2>1. /\ pc' = "idle" /\ temporal' = NoRun.entry /\ txns' = <<>>
        /\ moment' = NoMoment
        /\ native' = [step |-> 0, time |-> 0, tx |-> "none"]
    BY <1>18 DEF Crash
  <2>2. ~Attempting' /\ ~moment'.start
    BY <2>1 DEF Attempting, NoMoment
  <2>3. temporal'.step = 0 /\ temporal'.time = 0 /\ temporal'.accepted = 0
    BY <2>1 DEF NoRun
  <2> QED
    BY <2>1, <2>2, <2>3, NoAttemptOpen
<1> QED
  BY <1>1, <1>2, <1>3, <1>4, <1>5, <1>6, <1>7, <1>8, <1>9, <1>10, <1>11, <1>12,
     <1>13, <1>14, <1>15, <1>16, <1>17, <1>18 DEF Next, Step


--------------------------------------------------------------------------------
(* The staged transactions, step by step.                                   *)

\* One transaction changed: its status and what it shows.
OneSettled(j, status, shown) ==
    /\ DOMAIN txns' = DOMAIN txns /\ Len(txns') = Len(txns)
    /\ \A i \in DOMAIN txns : /\ Samples(txns'[i]) = Samples(txns[i])
                              /\ i # j => txns'[i] = txns[i]
    /\ txns'[j].status = status /\ txns'[j].shown = shown

LEMMA SettleNothing ==
    ASSUME ShapeInv, NEW j \in DOMAIN txns, NEW status \in Statuses,
           txns' = [txns EXCEPT ![j].status = status, ![j].shown = {}]
    PROVE  OneSettled(j, status, {})
<1> DEFINE t == [txns[j] EXCEPT !.status = status, !.shown = {}]
<1>1. txns[j] \in Transactions
  BY TransactionFacts
<1>2. /\ t \in Transactions /\ t.effects = txns[j].effects
      /\ t.status = status /\ t.shown = {}
  BY <1>1 DEF Transactions
<1>3. txns' = [txns EXCEPT ![j] = t]
  OBVIOUS
<1> HIDE DEF t
<1> QED
  BY <1>2, <1>3, ReplaceOne DEF OneSettled

LEMMA AcceptOutcomes ==
    ASSUME ShapeInv, StatusInv, AcceptOne
    PROVE  \E j \in DOMAIN txns :
             /\ txns[j].status = "staged" /\ txns[j].shown = {}
             /\ \A i \in DOMAIN txns : i < j => txns[i].status = "accepted"
             /\ \/ \E shown \in SUBSET Samples(txns[j]) :
                     /\ OneSettled(j, "accepted", shown)
                     /\ \A e \in Samples(txns[j]) :
                           e \notin shown => Topology[e.consumer].skip
                     /\ disk' = disk \cup shown
                     /\ vault' = vault \cup CheckpointFiles(shown, shown)
                     /\ UNCHANGED <<pc, exposed>>
                \/ \E there \in SUBSET Samples(txns[j]) :
                     /\ OneSettled(j, "failed", {})
                     /\ disk' = disk \cup there
                     /\ vault' = vault \cup CheckpointFiles(there, Samples(txns[j]))
                     /\ exposed' = exposed \cup there
                     /\ pc' = "abort" /\ failure' = "fail"
<1> DEFINE j == NextStaged
<1>1. /\ j \in DOMAIN txns /\ txns[j].status = "staged" /\ txns[j].shown = {}
      /\ \A i \in DOMAIN txns : i < j => txns[i].status = "accepted"
  BY NextStagedFacts DEF AcceptOne
<1>2. ASSUME NEW omitted \in SUBSET Skippable(txns[j]),
             txns' = [txns EXCEPT ![j].status = "accepted",
                                  ![j].shown = Samples(txns[j]) \ omitted]
      PROVE  /\ OneSettled(j, "accepted", Samples(txns[j]) \ omitted)
             /\ \A e \in Samples(txns[j]) : e \notin Samples(txns[j]) \ omitted =>
                   Topology[e.consumer].skip
  <2>1. Samples(txns[j]) \ omitted \in SUBSET Sample
    BY <1>1, TransactionFacts
  <2>2. OneSettled(j, "accepted", Samples(txns[j]) \ omitted)
    <3> DEFINE shown == Samples(txns[j]) \ omitted
    <3> HIDE DEF j, shown
    <3>1. /\ shown \in SUBSET Sample /\ "accepted" \in Statuses
          /\ txns' = [txns EXCEPT ![j].status = "accepted", ![j].shown = shown]
      BY <1>2, <2>1 DEF Statuses, shown
    <3>2. OneSettled(j, "accepted", shown)
      BY <1>1, <3>1, SettleOne DEF OneSettled
    <3> QED
      BY <3>2 DEF shown
  <2> QED
    BY <2>2 DEF Skippable
<1>3. ASSUME txns' = [txns EXCEPT ![j].status = "failed"]
      PROVE  OneSettled(j, "failed", {})
  <2> HIDE DEF j
  <2>1. txns' = [txns EXCEPT ![j].status = "failed", ![j].shown = {}]
    BY <1>1, <1>3, FailOne
  <2> QED
    BY <1>1, <2>1, SettleNothing DEF Statuses
<1>4. CASE \E omitted \in SUBSET Skippable(txns[j]) :
             LET shown == Samples(txns[j]) \ omitted
             IN  /\ txns' = [txns EXCEPT ![j].status = "accepted",
                                         ![j].shown = shown]
                 /\ disk' = disk \cup shown
                 /\ vault' = vault \cup CheckpointFiles(shown, shown)
                 /\ UNCHANGED <<pc, failure, exposed, faults>>
  <2>1. PICK omitted \in SUBSET Skippable(txns[j]) :
             /\ txns' = [txns EXCEPT ![j].status = "accepted",
                                     ![j].shown = Samples(txns[j]) \ omitted]
             /\ disk' = disk \cup (Samples(txns[j]) \ omitted)
             /\ vault' = vault \cup CheckpointFiles(Samples(txns[j]) \ omitted,
                                                   Samples(txns[j]) \ omitted)
             /\ UNCHANGED <<pc, failure, exposed, faults>>
    BY <1>4
  <2>2. /\ OneSettled(j, "accepted", Samples(txns[j]) \ omitted)
        /\ \A e \in Samples(txns[j]) : e \notin Samples(txns[j]) \ omitted =>
              Topology[e.consumer].skip
    BY <1>2, <2>1
  <2> DEFINE shown == Samples(txns[j]) \ omitted
  <2>3. shown \in SUBSET Samples(txns[j])
    OBVIOUS
  <2>4. /\ OneSettled(j, "accepted", shown)
        /\ \A e \in Samples(txns[j]) : e \notin shown => Topology[e.consumer].skip
        /\ disk' = disk \cup shown
        /\ vault' = vault \cup CheckpointFiles(shown, shown)
        /\ UNCHANGED <<pc, exposed>>
    BY <2>1, <2>2
  <2> HIDE DEF shown, j
  <2> QED
    BY <1>1, <2>3, <2>4
<1>5. CASE \E there \in SUBSET Samples(txns[j]) :
             /\ txns' = [txns EXCEPT ![j].status = "failed"]
             /\ disk' = disk \cup there
             /\ vault' = vault \cup CheckpointFiles(there, Samples(txns[j]))
             /\ exposed' = exposed \cup there
             /\ pc' = "abort" /\ failure' = "fail"
  <2>1. OneSettled(j, "failed", {})
    BY <1>3, <1>5
  <2> HIDE DEF j
  <2> QED
    BY <1>1, <1>5, <2>1
<1> QED
  BY <1>4, <1>5 DEF AcceptOne, Raise, Expose

LEMMA AbortOutcomes ==
    ASSUME ShapeInv, AbortOne
    PROVE  \E j \in DOMAIN txns : \E there \in SUBSET txns[j].shown :
             /\ j \in Unresolved /\ \A i \in Unresolved : i <= j
             /\ OneSettled(j, "rejected", {})
             /\ disk' = disk \ (txns[j].shown \ there)
             /\ exposed' = exposed \cup there
             /\ vault' = {v \in vault : v.sample \notin txns[j].shown \ there}
<1> DEFINE j == Max(Unresolved)
<1>1. /\ j \in Unresolved /\ j \in DOMAIN txns /\ \A i \in Unresolved : i <= j
  BY LastUnresolvedFacts DEF AbortOne
<1>2. PICK there \in SUBSET txns[j].shown :
         /\ disk' = disk \ (txns[j].shown \ there)
         /\ exposed' = exposed \cup there
         /\ vault' = {v \in vault : v.sample \notin txns[j].shown \ there}
         /\ txns' = [txns EXCEPT ![j].status = "rejected", ![j].shown = {}]
  BY DEF AbortOne, Expose
<1> HIDE DEF j
<1>4. OneSettled(j, "rejected", {})
  BY <1>1, <1>2, SettleNothing DEF Statuses
<1> QED
  BY <1>1, <1>2, <1>4

\* Staging at a moment succeeds.
StagedAt(m) ==
    /\ m \in Moments /\ moment' = m
    /\ m.step = temporal.step /\ m.time = temporal.time
    /\ pc' \in {"accept", "commit"} /\ pc \in {"start", "stage"}
    /\ m.start <=> pc = "start"
    /\ txns' \in Seq(Transactions)
    /\ DOMAIN txns' = DOMAIN Plans(m) /\ Len(txns') = Len(Plans(m))
    /\ \A j \in DOMAIN txns' : /\ txns'[j].status = "staged"
                               /\ txns'[j].shown = {}
                               /\ Samples(txns'[j]) = Range(Plans(m)[j])
    /\ ~StageRefused(Plans(m))
    /\ capture' = IF \E e \in EffectsOf(Plans(m)) : IsCheckpoint(e)
                  THEN [cursors |-> Predicted(EffectsOf(Plans(m))),
                        temporal |-> temporal]
                  ELSE NoCapture
    /\ UNCHANGED <<temporal, cursors, epoch, runs>>

(***************************************************************************)
(* What a step does to the transactions: it works without any, it stages   *)
(* them, it settles one, or it leaves them alone.                          *)
(***************************************************************************)
LEMMA TransactionCases ==
    ASSUME TypeOK, ShapeInv, AttemptInv, [Next]_vars
    PROVE  \/ /\ txns' = <<>> /\ ~Planning'
           \/ \E m : StagedAt(m)
           \/ AcceptOne \/ AbortOne
           \/ /\ UNCHANGED <<txns, moment, capture, temporal, cursors, epoch, runs>>
              /\ Planning' => Planning
              /\ pc' \in {"commit", "accept"} => pc \in {"commit", "accept"}
              /\ pc' = "seal" => pc = "seal" \/ AllAccepted
<1> USE DEF python, history, files, bounds
<1>0. pc \in {"idle", "start", "loop", "begin", "solve", "stage"} => txns = <<>>
  BY DEF AttemptInv, ControlInv
<1>1. CASE StageAtStart \/ StageStep
  <2>1. PICK m \in Moments : /\ StageConsumers(m)
                             /\ m.step = native.step /\ m.time = temporal.time
                             /\ pc \in {"start", "stage"}
                             /\ m.start <=> pc = "start"
    <3>1. CASE StageAtStart
      BY <3>1, MomentFacts DEF StageAtStart, Moment
    <3>2. CASE StageStep
      BY <3>2, MomentFacts DEF StageStep, Moment
    <3> QED
      BY <1>1, <3>1, <3>2
  <2>2. native.step = temporal.step
    <3>1. pc = "start" => ~Attempting
      BY DEF Attempting
    <3>2. pc = "stage" => Position(native) = Clock(temporal)
      BY DEF AttemptInv, PositionInv
    <3> QED
      BY <2>1, <3>1, <3>2, AtRest, SamePosition
  <2>3. UNCHANGED <<temporal, cursors, epoch, runs>>
    BY <1>1 DEF StageAtStart, StageStep
  <2>4. CASE pc' = "abort" /\ UNCHANGED txns
    BY <1>0, <2>1, <2>4 DEF Planning
  <2>5. CASE /\ txns' = [j \in DOMAIN Plans(m) |-> Staged(Plans(m)[j])]
             /\ ~StageRefused(Plans(m))
             /\ capture' = IF \E e \in EffectsOf(Plans(m)) : IsCheckpoint(e)
                           THEN [cursors |-> Predicted(EffectsOf(Plans(m))),
                                 temporal |-> temporal]
                           ELSE NoCapture
             /\ pc' = IF m.start THEN "accept" ELSE "commit"
    <3>1. /\ txns' \in Seq(Transactions)
          /\ DOMAIN txns' = DOMAIN Plans(m) /\ Len(txns') = Len(Plans(m))
          /\ \A j \in DOMAIN txns' : /\ txns'[j].status = "staged"
                                     /\ txns'[j].shown = {}
                                     /\ Samples(txns'[j]) = Range(Plans(m)[j])
      BY <2>5, PlanStateHolds, StagedFacts
    <3>2. moment' = m
      BY <2>1, StageOutcomes
    <3>3. pc' \in {"accept", "commit"}
      BY <2>5
    <3>4. StagedAt(m)
      BY <2>1, <2>2, <2>3, <2>5, <3>1, <3>2, <3>3 DEF StagedAt
    <3> QED
      BY <3>4
  <2> QED
    BY <2>1, <2>4, <2>5, StageOutcomes
<1>2. CASE Seal \/ SealRaises \/ AttemptRetried \/ AttemptRaises \/ StartRaises \/ Crash
  BY <1>2 DEF Seal, SealRaises, AttemptRetried, AttemptRaises, StartRaises,
     RunRaises, Crash, LeaveEnvelope, UndoAttempt, ForgetTransactions, Planning
<1>3. CASE \/ PrepareAttempts \/ RunReturns \/ MaxStepsExhausted \/ Begin
           \/ SolveAccepted \/ SolveRejected \/ SolveFails \/ Checkpoint \/ Restart
           \/ \E end \in RunEnds : Run(end)
  BY <1>0, <1>3 DEF PrepareAttempts, RunReturns, MaxStepsExhausted, RunRaises,
     Begin, SolveAccepted, SolveRejected, SolveFails, Raise, Checkpoint, Restart,
     Run, Idle, Planning
<1>4. CASE UNCHANGED vars \/ Commit \/ Finalize
  BY <1>4 DEF vars, Commit, Finalize, Reached, Raise, Planning
<1> QED
  BY <1>1, <1>2, <1>3, <1>4 DEF Next, Step


LEMMA StatusStep ==
    ASSUME TypeOK, ShapeInv, AttemptInv, StatusInv, [Next]_vars
    PROVE  StatusInv'
<1>1. CASE txns' = <<>> /\ ~Planning'
  BY <1>1 DEF StatusInv, Planning
<1>2. CASE \E m : StagedAt(m)
  BY <1>2 DEF StagedAt, StatusInv
<1>3. CASE AcceptOne
  <2>1. PICK j \in DOMAIN txns :
           \/ \E shown \in SUBSET Samples(txns[j]) :
                 /\ OneSettled(j, "accepted", shown)
                 /\ \A e \in Samples(txns[j]) :
                       e \notin shown => Topology[e.consumer].skip
                 /\ pc' = pc
           \/ OneSettled(j, "failed", {}) /\ pc' = "abort"
    BY <1>3, AcceptOutcomes
  <2>2. pc = "accept"
    BY <1>3 DEF AcceptOne
  <2>3. ASSUME NEW shown \in SUBSET Samples(txns[j]),
               OneSettled(j, "accepted", shown), pc' = pc,
               \A e \in Samples(txns[j]) : e \notin shown => Topology[e.consumer].skip
        PROVE  StatusInv'
    BY <2>2, <2>3 DEF OneSettled, StatusInv
  <2>4. ASSUME OneSettled(j, "failed", {}), pc' = "abort"
        PROVE  StatusInv'
    BY <2>4 DEF OneSettled, StatusInv
  <2> QED
    BY <2>1, <2>3, <2>4
<1>4. CASE AbortOne
  <2>1. PICK j \in DOMAIN txns : OneSettled(j, "rejected", {})
    BY <1>4, AbortOutcomes
  <2>2. pc' = "abort"
    BY <1>4 DEF AbortOne
  <2> QED
    BY <2>1, <2>2 DEF OneSettled, StatusInv
<1>5. CASE /\ UNCHANGED txns
           /\ pc' \in {"commit", "accept"} => pc \in {"commit", "accept"}
           /\ pc' = "seal" => pc = "seal" \/ AllAccepted
  BY <1>5 DEF StatusInv, AllAccepted
<1> QED
  BY <1>1, <1>2, <1>3, <1>4, <1>5, TransactionCases

\* Whether an effect is planned, and which, does not change between two steps.
LEMMA SameEffects ==
    ASSUME UNCHANGED <<moment, cursors, epoch, runs>>, NEW c
    PROVE  /\ Effect(c, moment)' = Effect(c, moment)
           /\ Planned(c, moment)' = Planned(c, moment)
  BY DEF Effect, Planned, Due, Occurrence, OnLattice

\* A step that leaves the effects of every transaction alone.
LEMMA EffectsKept ==
    ASSUME EffectInv, UNCHANGED <<moment, temporal, cursors, epoch, runs>>,
           DOMAIN txns' = DOMAIN txns, Planning' => Planning,
           txns' # <<>> => txns # <<>>,
           \A i \in DOMAIN txns : Samples(txns'[i]) = Samples(txns[i])
    PROVE  EffectInv' /\ AllSamples' = AllSamples
<1>1. AllSamples' = AllSamples
  BY DEF AllSamples, Samples
<1>2. \A c : /\ Effect(c, moment)' = Effect(c, moment)
             /\ Planned(c, moment)' = Planned(c, moment)
  BY SameEffects
<1>3. Consumers' = Consumers
  BY DEF Consumers
<1>4. \A j \in DOMAIN txns' : \A e \in Samples(txns'[j]) :
          /\ e = Effect(e.consumer, moment)'
          /\ Planned(e.consumer, moment)'
          /\ \A i \in DOMAIN txns' : e \in Samples(txns'[i]) => i = j
  BY <1>2 DEF EffectInv
<1>5. Planning' => \A c \in Consumers : Planned(c, moment)' =>
          Effect(c, moment)' \in AllSamples'
  BY <1>1, <1>2 DEF EffectInv
<1>6. /\ txns' # <<>> => moment'.step = temporal'.step /\ moment'.time = temporal'.time
      /\ Planning' => moment'.step = temporal'.step /\ moment'.time = temporal'.time
  BY DEF EffectInv
<1> QED
  BY <1>1, <1>4, <1>5, <1>6 DEF EffectInv, Consumers, Samples

LEMMA EffectStep ==
    ASSUME TypeOK, ShapeInv, AttemptInv, StatusInv, EffectInv, [Next]_vars
    PROVE  EffectInv'
<1>1. CASE txns' = <<>> /\ ~Planning'
  BY <1>1 DEF EffectInv
<1>2. CASE \E m : StagedAt(m)
  <2>1. PICK m : StagedAt(m)
    BY <1>2
  <2>2. /\ m \in Moments /\ moment' = m
        /\ m.step = temporal.step /\ m.time = temporal.time
        /\ DOMAIN txns' = DOMAIN Plans(m)
        /\ \A j \in DOMAIN txns' : Samples(txns'[j]) = Range(Plans(m)[j])
        /\ UNCHANGED <<temporal, cursors, epoch, runs>>
    BY <2>1 DEF StagedAt
  <2>3. \A c : /\ Effect(c, moment)' = Effect(c, m)
               /\ Planned(c, moment)' = Planned(c, m)
    BY <2>2 DEF Effect, Planned, Due, Occurrence, OnLattice
  <2>4. /\ \A c \in Consumers : Planned(c, m) =>
              \E j \in DOMAIN Plans(m) : Effect(c, m) \in Range(Plans(m)[j])
        /\ \A j \in DOMAIN Plans(m) : \A e \in Range(Plans(m)[j]) :
              /\ Planned(e.consumer, m) /\ e = Effect(e.consumer, m)
              /\ \A i \in DOMAIN Plans(m) : e \in Range(Plans(m)[i]) => i = j
    BY <2>2, PlanStateHolds, PlansFacts
  <2>5. \A j \in DOMAIN txns' : \A e \in Samples(txns'[j]) :
          /\ e = Effect(e.consumer, moment)'
          /\ Planned(e.consumer, moment)'
          /\ \A i \in DOMAIN txns' : e \in Samples(txns'[i]) => i = j
    BY <2>2, <2>3, <2>4
  <2>6. \A c \in Consumers : Planned(c, moment)' => Effect(c, moment)' \in AllSamples'
    BY <2>2, <2>3, <2>4 DEF AllSamples, Samples
  <2>7. moment'.step = temporal'.step /\ moment'.time = temporal'.time
    BY <2>2
  <2> QED
    BY <2>5, <2>6, <2>7 DEF EffectInv, Consumers, Samples
<1>3. CASE AcceptOne \/ AbortOne
  <2>1. /\ DOMAIN txns' = DOMAIN txns /\ Len(txns') = Len(txns)
        /\ \A i \in DOMAIN txns : Samples(txns'[i]) = Samples(txns[i])
    <3>1. CASE AcceptOne
      BY <3>1, AcceptOutcomes DEF OneSettled
    <3>2. CASE AbortOne
      BY <3>2, AbortOutcomes DEF OneSettled
    <3> QED
      BY <1>3, <3>1, <3>2
  <2>2. UNCHANGED <<moment, temporal, cursors, epoch, runs>>
    BY <1>3 DEF AcceptOne, AbortOne, python
  <2>3. Planning' => Planning
    BY <1>3 DEF AcceptOne, AbortOne, Raise, Planning
  <2>4. txns' # <<>> => txns # <<>>
    <3>1. DOMAIN txns = 1 .. Len(txns) /\ Len(txns) \in Nat
      BY TransactionFacts
    <3>2. txns' \in Seq(Transactions)
      BY TransactionsStep
    <3>3. txns = <<>> => DOMAIN txns = {}
      OBVIOUS
    <3>4. DOMAIN txns' = {} => txns' = <<>>
      BY <3>2, EmptySeq, LenProperties
    <3> QED
      BY <2>1, <3>3, <3>4
  <2> QED
    BY <2>1, <2>2, <2>3, <2>4, EffectsKept
<1>4. CASE /\ UNCHANGED <<txns, moment, capture, temporal, cursors, epoch, runs>>
           /\ Planning' => Planning
  BY <1>4, EffectsKept
<1> QED
  BY <1>1, <1>2, <1>3, <1>4, TransactionCases

LEMMA CheckpointAllowedFacts ==
    ASSUME NEW t \in Authority, CheckpointAllowed(t)
    PROVE  t.queue # 0
<1>1. DtInit \in Nat \ {0} /\ DtMax \in Nat \ {0} /\ t.last \in Nat
  BY ConstantFacts DEF Authority
<1>2. CASE t.last = 0
  BY <1>1, <1>2 DEF CheckpointAllowed
<1>3. CASE t.last # 0
  <2> DEFINE next == 2 * t.last
  <2>1. next \in Nat \ {0} /\ DtMax \in Nat
    BY <1>1, <1>3
  <2>2. t.queue = Min({DtMax, next})
    BY <1>3 DEF CheckpointAllowed
  <2> HIDE DEF next
  <2>3. t.queue \in {DtMax, next}
    BY <2>1, <2>2, MinOfTwo
  <2> QED
    BY <1>1, <2>1, <2>3
<1> QED
  BY <1>2, <1>3

LEMMA CaptureStep ==
    ASSUME TypeOK, ShapeInv, AttemptInv, StatusInv, EffectInv, CaptureInv,
           [Next]_vars
    PROVE  CaptureInv'
<1>1. CASE txns' = <<>> /\ ~Planning'
  BY <1>1 DEF CaptureInv
<1>2. CASE \E m : StagedAt(m)
  <2>1. PICK m : StagedAt(m)
    BY <1>2
  <2> DEFINE p == Plans(m)
  <2>2. /\ m \in Moments /\ UNCHANGED <<temporal, cursors>>
        /\ txns' \in Seq(Transactions)
        /\ DOMAIN txns' = DOMAIN p /\ Len(txns') = Len(p)
        /\ \A j \in DOMAIN txns' : Samples(txns'[j]) = Range(p[j])
        /\ ~StageRefused(p)
        /\ capture' = IF \E e \in EffectsOf(p) : IsCheckpoint(e)
                      THEN [cursors |-> Predicted(EffectsOf(p)), temporal |-> temporal]
                      ELSE NoCapture
    BY <2>1 DEF StagedAt
  <2>3. /\ p \in Seq(Seq(Sample) \ {<<>>})
        /\ DOMAIN p = 1 .. Len(p) /\ Len(p) \in Nat
        /\ \A j \in DOMAIN p : \A e \in Range(p[j]) :
              \A i \in DOMAIN p : e \in Range(p[i]) => i = j
    BY <2>2, PlanStateHolds, PlansFacts
  <2> HIDE DEF p
  <2>4. AllSamples' = EffectsOf(p)
    BY <2>2 DEF AllSamples, EffectsOf, Samples
  <2>5. \A e : IsCheckpoint(e)' = IsCheckpoint(e)
    BY DEF IsCheckpoint
  <2>6. ASSUME NEW j \in DOMAIN p, NEW e \in Range(p[j]), IsCheckpoint(e)
        PROVE  /\ j = Len(p) /\ CheckpointAllowed(temporal)
               /\ \A x \in EffectsOf(p) : ~Topology[x.consumer].skip
    <3>1. e \in EffectsOf(p)
      BY DEF EffectsOf
    <3> DEFINE points == {x \in EffectsOf(p) : IsCheckpoint(x)}
    <3>2. e \in points
      BY <2>6, <3>1
    <3>3. /\ CheckpointAllowed(temporal) /\ points = {Last(Last(p))}
          /\ \A x \in EffectsOf(p) : ~Topology[x.consumer].skip
      BY <2>2, <3>2 DEF StageRefused
    <3>4. e = Last(Last(p))
      BY <3>2, <3>3
    <3>5. Len(p) \in DOMAIN p
      BY <2>3
    <3>6. Last(p) = p[Len(p)] /\ p[Len(p)] \in Seq(Sample) \ {<<>>}
      BY <2>3, <3>5, ElementOfSeq DEF Last
    <3>7. Last(Last(p)) \in Range(p[Len(p)])
      <4> DEFINE s == p[Len(p)]
      <4>1. s \in Seq(Sample) /\ s # <<>>
        BY <3>6
      <4> HIDE DEF s
      <4>2. Len(s) \in DOMAIN s
        BY <4>1, EmptySeq, LenProperties
      <4>3. s[Len(s)] \in Range(s)
        BY <4>2 DEF Range
      <4>4. Last(Last(p)) = s[Len(s)]
        BY <3>6 DEF Last, s
      <4> QED
        BY <4>3, <4>4 DEF s
    <3> QED
      BY <2>3, <2>6, <3>3, <3>4, <3>5, <3>7
  <2>7. ASSUME NEW j \in DOMAIN txns', NEW e \in Samples(txns'[j]), IsCheckpoint(e)
        PROVE  /\ j = Len(txns')
               /\ capture'.cursors = Predicted(AllSamples)'
               /\ capture'.temporal = temporal'
               /\ temporal'.queue # 0
               /\ \A x \in AllSamples' : ~Topology[x.consumer].skip
    <3>1. j \in DOMAIN p /\ e \in Range(p[j]) /\ e \in EffectsOf(p)
      BY <2>2 DEF EffectsOf
    <3>2. /\ j = Len(p) /\ CheckpointAllowed(temporal)
          /\ \A x \in EffectsOf(p) : ~Topology[x.consumer].skip
      BY <2>6, <2>7, <3>1
    <3>3. capture' = [cursors |-> Predicted(EffectsOf(p)), temporal |-> temporal]
      BY <2>2, <2>7, <3>1
    <3>4. Predicted(AllSamples)' = Predicted(EffectsOf(p))
      BY <2>2, <2>4 DEF Predicted, Advanced, Consumers
    <3>5. temporal'.queue # 0
      BY <2>2, <3>2, CheckpointAllowedFacts DEF TypeOK
    <3> QED
      BY <2>2, <2>4, <3>2, <3>3, <3>4, <3>5
  <2> QED
    BY <2>5, <2>7 DEF CaptureInv, Samples
<1>3. CASE /\ UNCHANGED <<capture, temporal, cursors>> /\ (Planning' => Planning)
           /\ DOMAIN txns' = DOMAIN txns /\ Len(txns') = Len(txns)
           /\ \A i \in DOMAIN txns : Samples(txns'[i]) = Samples(txns[i])
  <2>1. AllSamples' = AllSamples
    BY <1>3 DEF AllSamples, Samples
  <2>2. Predicted(AllSamples)' = Predicted(AllSamples)
    BY <1>3, <2>1 DEF Predicted, Advanced, Consumers
  <2>3. \A e : IsCheckpoint(e)' = IsCheckpoint(e)
    BY DEF IsCheckpoint
  <2>4. ASSUME Planning', NEW j \in DOMAIN txns', NEW e \in Samples(txns'[j]),
               IsCheckpoint(e)
        PROVE  /\ j = Len(txns')
               /\ capture'.cursors = Predicted(AllSamples)'
               /\ capture'.temporal = temporal'
               /\ temporal'.queue # 0
               /\ \A x \in AllSamples' : ~Topology[x.consumer].skip
    <3>1. Planning /\ j \in DOMAIN txns /\ e \in Samples(txns[j])
      BY <1>3, <2>4
    <3>2. /\ j = Len(txns)
          /\ capture.cursors = Predicted(AllSamples)
          /\ capture.temporal = temporal
          /\ temporal.queue # 0
          /\ \A x \in AllSamples : ~Topology[x.consumer].skip
      BY <2>4, <3>1 DEF CaptureInv
    <3> QED
      BY <1>3, <2>1, <2>2, <3>2
  <2> QED
    BY <2>3, <2>4 DEF CaptureInv, Samples
<1>4. CASE AcceptOne \/ AbortOne
  <2>1. /\ DOMAIN txns' = DOMAIN txns /\ Len(txns') = Len(txns)
        /\ \A i \in DOMAIN txns : Samples(txns'[i]) = Samples(txns[i])
    <3>1. CASE AcceptOne
      BY <3>1, AcceptOutcomes DEF OneSettled
    <3>2. CASE AbortOne
      BY <3>2, AbortOutcomes DEF OneSettled
    <3> QED
      BY <1>4, <3>1, <3>2
  <2>2. UNCHANGED <<capture, temporal, cursors>>
    BY <1>4 DEF AcceptOne, AbortOne, python
  <2>3. Planning' => Planning
    BY <1>4 DEF AcceptOne, AbortOne, Raise, Planning
  <2> QED
    BY <1>3, <2>1, <2>2, <2>3
<1> QED
  BY <1>1, <1>2, <1>3, <1>4, TransactionCases


--------------------------------------------------------------------------------
(* The books, step by step.                                                 *)

\* The accepted clock moves only when a step becomes final.
LEMMA BaseStep ==
    ASSUME TypeOK, ShapeInv, AttemptInv, [Next]_vars, ~Restart, ~Crash,
           pc' = "seal" => pc = "seal"
    PROVE  Clock(Base') = Clock(Base)
<1> USE DEF python, history, files, bounds
<1>0. temporal \in Authority
  BY DEF TypeOK
<1>1. CASE UNCHANGED vars
  BY <1>1 DEF vars, Base, Attempting, Clock
<1>2. CASE \E end \in RunEnds : Run(end)
  <2>1. pc = "idle" /\ pc' = "start" /\ temporal' = BeginRun(temporal)
    BY <1>2 DEF Run, Idle
  <2>2. Base = temporal /\ Base' = BeginRun(temporal)
    BY <2>1 DEF Base, Attempting
  <2>3. BeginRun(temporal).step = temporal.step /\ BeginRun(temporal).time = temporal.time
    BY <1>0 DEF BeginRun, Authority
  <2> QED
    BY <2>2, <2>3 DEF Clock
<1>3. CASE PrepareAttempts
  <2>1. /\ pc = "loop" /\ pc' = "begin"
        /\ temporal' = [temporal EXCEPT !.queue = sequence'.dt]
    BY <1>3 DEF PrepareAttempts
  <2>2. Base = temporal /\ Base' = temporal'
    BY <2>1 DEF Base, Attempting
  <2>3. temporal'.step = temporal.step /\ temporal'.time = temporal.time
    BY <1>0, <2>1 DEF Authority
  <2> QED
    BY <2>2, <2>3 DEF Clock
<1>4. CASE RunReturns \/ MaxStepsExhausted \/ StartRaises
  <2>1. /\ pc = "loop" \/ (pc = "abort" /\ moment.start)
        /\ pc' = "idle"
        /\ temporal' = temporal \/ (run.steps = 0 /\ temporal' = run.entry)
    BY <1>4 DEF RunReturns, MaxStepsExhausted, StartRaises, RunRaises
  <2>2. ~Attempting /\ Base = temporal /\ Base' = temporal'
    BY <2>1 DEF Base, Attempting
  <2>3. temporal'.step = temporal.step /\ temporal'.time = temporal.time
    BY <2>1, <2>2, AtRest
  <2> QED
    BY <2>2, <2>3 DEF Clock
<1>5. CASE Begin
  <2>1. /\ pc = "begin" /\ pc' \in {"solve", "abort"}
        /\ snapshot'.temporal = temporal /\ UNCHANGED temporal
    BY <1>5 DEF Begin, TakeSnapshot, Raise
  <2>2. Base = temporal /\ Base' = temporal
    BY <2>1 DEF Base, Attempting
  <2> QED
    BY <2>2
<1>6. CASE SolveAccepted \/ SolveRejected \/ SolveFails
  <2>1. /\ pc = "solve" /\ pc' \in {"stage", "abort"}
        /\ UNCHANGED <<snapshot, moment>>
    BY <1>6 DEF SolveAccepted, SolveRejected, SolveFails, Raise
  <2>2. ~moment.start
    BY <2>1 DEF AttemptInv, ControlInv
  <2> QED
    BY <2>1, <2>2 DEF Base, Attempting
<1>7. CASE StageAtStart \/ StageStep
  <2>1. PICK m \in Moments : StageConsumers(m) /\ (m.start <=> pc = "start")
    <3>1. CASE StageAtStart
      BY <3>1, MomentFacts DEF StageAtStart
    <3>2. CASE StageStep
      BY <3>2, MomentFacts DEF StageStep
    <3> QED
      BY <1>7, <3>1, <3>2
  <2>2. pc \in {"start", "stage"} /\ UNCHANGED <<temporal, snapshot>>
    BY <1>7 DEF StageAtStart, StageStep
  <2>3. pc' = "abort" \/ pc' = IF m.start THEN "accept" ELSE "commit"
    BY <2>1, StageOutcomes
  <2>4. moment' = m
    BY <2>1, StageOutcomes
  <2> QED
    BY <2>1, <2>2, <2>3, <2>4 DEF Base, Attempting
<1>8. CASE Commit
  BY <1>8 DEF Commit, Raise, Base, Attempting, AttemptInv, ControlInv
<1>9. CASE AcceptOne \/ AbortOne
  BY <1>9 DEF AcceptOne, AbortOne, Raise, Base, Attempting
<1>10. CASE Finalize
  BY <1>10 DEF Finalize, Reached, Raise, Base, Attempting
<1>11. CASE Seal \/ SealRaises
  BY <1>11 DEF Seal, SealRaises, LeaveEnvelope, Base, Attempting
<1>12. CASE AttemptRetried \/ AttemptRaises
  <2>1. pc = "abort" /\ ~moment.start /\ pc' \in {"begin", "idle"}
    BY <1>12 DEF AttemptRetried, AttemptRaises, RunRaises
  <2>2. /\ Attempting /\ Base = snapshot.temporal /\ Base' = temporal'
        /\ snapshot.temporal \in Authority
    BY <2>1 DEF Base, Attempting, ShapeInv
  <2>3. \/ temporal' = [RestoredCounts EXCEPT !.queue = Reduced]
        \/ temporal' = RestoredCounts
        \/ run.steps = 0 /\ temporal' = run.entry
    BY <1>12 DEF AttemptRetried, AttemptRaises, RunRaises
  <2>4. /\ RestoredCounts.step = snapshot.temporal.step
        /\ RestoredCounts.time = snapshot.temporal.time
        /\ [RestoredCounts EXCEPT !.queue = Reduced].step = RestoredCounts.step
        /\ [RestoredCounts EXCEPT !.queue = Reduced].time = RestoredCounts.time
    BY <2>2 DEF RestoredCounts, Authority
  <2>5. temporal'.step = snapshot.temporal.step /\ temporal'.time = snapshot.temporal.time
    BY <2>2, <2>3, <2>4, InAttempt
  <2> QED
    BY <2>2, <2>5 DEF Clock
<1>13. CASE Checkpoint
  BY <1>13 DEF Checkpoint, Idle, Base, Attempting
<1> QED
  BY <1>1, <1>2, <1>3, <1>4, <1>5, <1>6, <1>7, <1>8, <1>9, <1>10, <1>11, <1>12,
     <1>13 DEF Next, Step

\* What is staged is what the plan of the moment calls for.
LEMMA StagedIsPlanned ==
    ASSUME TypeOK, ShapeInv, EffectInv
    PROVE  /\ AllSamples \subseteq Sample
           /\ \A e \in AllSamples :
                 /\ Due(e.consumer, moment)
                 /\ e.occ = Occurrence(e.consumer, moment)
                 /\ e.occ # cursors[e.consumer].last
                 /\ e.n = cursors[e.consumer].n + 1
                 /\ e.epoch = epoch
           /\ Planning => PlannedEffects(AllSamples, cursors, moment)
<1>1. AllSamples \subseteq Sample
  BY TransactionFacts DEF AllSamples
<1>2. moment \in Moments /\ PlanState
  BY PlanStateHolds DEF ShapeInv
<1>3. ASSUME NEW e \in AllSamples
      PROVE  /\ e.consumer \in Consumers /\ e = Effect(e.consumer, moment)
             /\ Planned(e.consumer, moment)
  BY <1>1 DEF AllSamples, EffectInv, Sample
<1>4. ASSUME NEW e \in AllSamples
      PROVE  /\ Due(e.consumer, moment)
             /\ e.occ = Occurrence(e.consumer, moment)
             /\ e.occ # cursors[e.consumer].last
             /\ e.n = cursors[e.consumer].n + 1
             /\ e.epoch = epoch
  <2>1. /\ e.consumer \in Consumers /\ e = Effect(e.consumer, moment)
        /\ Planned(e.consumer, moment)
    BY <1>3
  <2>2. /\ Effect(e.consumer, moment).occ = Occurrence(e.consumer, moment)
        /\ Effect(e.consumer, moment).n = cursors[e.consumer].n + 1
        /\ Effect(e.consumer, moment).epoch = epoch
    BY <1>2, <2>1, EffectFacts
  <2> QED
    BY <2>1, <2>2 DEF Planned
<1>5. \A e, f \in AllSamples : e.consumer = f.consumer => e = f
  BY <1>3
<1>6. ASSUME Planning, NEW c \in Consumers, Due(c, moment),
             Occurrence(c, moment) # cursors[c].last
      PROVE  \E e \in AllSamples : e.consumer = c
  <2>1. Planned(c, moment)
    BY <1>6 DEF Planned
  <2>2. Effect(c, moment) \in AllSamples
    BY <1>6, <2>1 DEF EffectInv
  <2> QED
    BY <1>2, <2>2, EffectFacts
<1> QED
  BY <1>1, <1>4, <1>5, <1>6 DEF PlannedEffects

LEMMA MomentFollows ==
    ASSUME TypeOK, ShapeInv, AttemptInv, EffectInv, pc = "accept"
    PROVE  NextMoment(Base, moment, temporal)
<1>1. /\ moment \in Moments /\ temporal \in Authority
      /\ temporal.step = moment.step /\ temporal.time = moment.time
  BY DEF ShapeInv, TypeOK, EffectInv, Planning
<1>2. CASE moment.start
  <2>1. Base = temporal
    BY <1>2 DEF Base, Attempting
  <2> QED
    BY <1>1, <1>2, <2>1 DEF NextMoment
<1>3. CASE ~moment.start
  <2>1. Attempting /\ Base = snapshot.temporal /\ snapshot.temporal \in Authority
    BY <1>3 DEF Base, Attempting, ShapeInv
  <2>2. temporal.step = Base.step + 1 /\ temporal.time = Base.time + sequence.dt
    BY <1>3 DEF AttemptInv, PositionInv
  <2>3. Base.time \in Nat /\ sequence.dt \in Nat
    BY <2>1, ConstantFacts DEF TypeOK, Authority
  <2>4. \A d \in Deadlines(Base.time) : temporal.time <= d
    BY <2>1, <2>2, InAttempt
  <2>5. temporal.time >= Base.time
    BY <2>2, <2>3
  <2> QED
    BY <1>1, <1>3, <2>2, <2>4, <2>5 DEF NextMoment
<1> QED
  BY <1>2, <1>3

\* The books as they will stand once the open step is final.
LEMMA BooksAccepted ==
    ASSUME TypeOK, ShapeInv, AttemptInv, EffectInv, BooksInv, pc = "accept",
           NEW shown \in SUBSET AllSamples,
           NEW omitted, AllSamples \ shown \subseteq omitted
    PROVE  Books(Advanced(cursors, shown), temporal, moments \cup {moment},
                 lineage \cup shown, skipped \cup omitted)
<1>1. Books(cursors, Base, moments, lineage, skipped)
  BY DEF BooksInv
<1>2. PlannedEffects(AllSamples, cursors, moment)
  BY StagedIsPlanned DEF Planning
<1>3. NextMoment(Base, moment, temporal)
  BY MomentFollows
<1> QED
  BY <1>1, <1>2, <1>3, BooksExtend

LEMMA ShownIsStaged ==
    ASSUME StatusInv
    PROVE  Shown \subseteq AllSamples
  BY DEF StatusInv, Shown, AllSamples

LEMMA BooksStep ==
    ASSUME TypeOK, ShapeInv, AttemptInv, StatusInv, EffectInv, BooksInv, VaultInv,
           [Next]_vars
    PROVE  BooksInv'
<1> USE DEF python, history, files, bounds
<1>1. Base' \in Authority
  BY ShapeStep, AuthorityType DEF Base, ShapeInv, AttemptInv
<1>2. CASE Finalize /\ pc' = "seal"
  <2>1. /\ pc = "accept" /\ Reached
        /\ UNCHANGED <<temporal, cursors, txns, moment>>
    BY <1>2 DEF Finalize, Raise
  <2> DEFINE omitted == UNION {Samples(txns[j]) \ txns[j].shown : j \in DOMAIN txns}
  <2>2. AllSamples \ Shown \subseteq omitted
    BY DEF AllSamples, Shown
  <2>3. /\ moments' = moments \cup {moment} /\ lineage' = lineage \cup Shown
        /\ skipped' = skipped \cup omitted
    BY <2>1 DEF Reached
  <2> HIDE DEF omitted
  <2>4. Books(Advanced(cursors, Shown), temporal, moments \cup {moment},
              lineage \cup Shown, skipped \cup omitted)
    BY <2>1, <2>2, ShownIsStaged, BooksAccepted
  <2>5. Base' = temporal
    BY <1>2, <2>1 DEF Base, Attempting
  <2>6. AcceptedCursors' = Advanced(cursors, Shown)
    BY <2>1 DEF AcceptedCursors, Shown, Advanced, Consumers
  <2>7. BooksInv' = Books(AcceptedCursors', Base', moments', lineage', skipped')
    BY <1>2 DEF BooksInv
  <2> QED
    BY <2>3, <2>4, <2>5, <2>6, <2>7
<1>3. CASE Seal \/ SealRaises
  <2>1. /\ pc = "seal" /\ pc' = "loop" /\ cursors' = AcceptedCursors
        /\ UNCHANGED <<temporal, moments, lineage, skipped>>
    BY <1>3 DEF Seal, SealRaises, LeaveEnvelope
  <2>2. Base' = Base
    BY <2>1 DEF Base, Attempting
  <2> QED
    BY <2>1, <2>2 DEF BooksInv
<1>4. CASE Restart
  <2>1. PICK v \in vault :
           /\ pc' = "idle" /\ temporal' = v.temporal /\ cursors' = v.cursors
           /\ moments' = v.moments /\ lineage' = v.lineage /\ skipped' = v.skipped
    BY <1>4 DEF Restart, Idle, RestoredCursors
  <2>2. Base' = v.temporal
    BY <2>1 DEF Base, Attempting
  <2>3. Books(v.cursors, v.temporal, v.moments, v.lineage, v.skipped)
    BY DEF VaultInv
  <2> QED
    BY <2>1, <2>2, <2>3 DEF BooksInv
<1>5. CASE Crash
  <2>1. /\ pc' = "idle" /\ temporal' = NoRun.entry /\ cursors' = FreshCursors
        /\ moments' = {} /\ lineage' = {} /\ skipped' = {}
    BY <1>5 DEF Crash
  <2>2. Base' = NoRun.entry
    BY <2>1 DEF Base, Attempting
  <2>3. NoRun.entry.step = 0 /\ NoRun.entry.time = 0
    BY DEF NoRun
  <2>4. Books(FreshCursors, NoRun.entry, {}, {}, {})
    BY <1>1, <2>2, <2>3, EmptyBooks
  <2> QED
    BY <2>1, <2>2, <2>4 DEF BooksInv
<1>6. CASE /\ UNCHANGED <<moments, lineage, skipped, cursors>> /\ pc # "seal" /\ pc' # "seal"
           /\ ~Restart /\ ~Crash
  <2>1. Books(cursors, Base, moments, lineage, skipped)
    BY <1>6 DEF BooksInv
  <2>2. Books(cursors, Base', moments, lineage, skipped)
    BY <1>1, <1>6, <2>1, BaseStep, BooksReadTheClock
  <2> QED
    BY <1>6, <2>2 DEF BooksInv
<1>7. CASE AttemptRetried \/ AttemptRaises
  <2>1. /\ pc = "abort" /\ ~moment.start /\ pc' # "seal" /\ cursors' = snapshot.cursors
        /\ UNCHANGED <<moments, lineage, skipped, runs, epoch>>
    BY <1>7 DEF AttemptRetried, AttemptRaises, UndoAttempt, RunRaises
  <2>2. snapshot.cursors = cursors
    BY <2>1 DEF ShapeInv, Attempting
  <2>3. ~Restart /\ ~Crash
    <3>1. epoch \in Nat /\ epoch' = epoch
      BY <2>1 DEF ShapeInv
    <3> QED
      BY <3>1 DEF Restart, Crash, Deeper
  <2> QED
    BY <1>6, <2>1, <2>2, <2>3
<1>8. CASE UNCHANGED vars
  BY <1>8 DEF vars, BooksInv, AcceptedCursors, Shown, Base, Attempting, Advanced,
     Consumers
<1>9. CASE \/ PrepareAttempts \/ RunReturns \/ MaxStepsExhausted \/ Begin
           \/ SolveAccepted \/ SolveRejected \/ SolveFails \/ StageAtStart \/ StageStep
           \/ Commit \/ AcceptOne \/ (Finalize /\ pc' # "seal")
           \/ AbortOne \/ StartRaises \/ Checkpoint \/ \E end \in RunEnds : Run(end)
  <2>1. /\ UNCHANGED <<moments, lineage, skipped, cursors, epoch>>
        /\ pc # "seal" /\ pc' # "seal"
    BY <1>9 DEF PrepareAttempts, RunReturns, MaxStepsExhausted, RunRaises, Begin,
       SolveAccepted, SolveRejected, SolveFails, Raise, StageAtStart, StageStep,
       StageConsumers, Commit, AcceptOne, Finalize, Reached, AbortOne, StartRaises,
       Checkpoint, Run, Idle
  <2>2. ~Restart /\ ~Crash
    <3>1. epoch \in Nat /\ epoch' = epoch
      BY <2>1 DEF ShapeInv
    <3> QED
      BY <3>1 DEF Restart, Crash, Deeper
  <2> QED
    BY <1>6, <2>1, <2>2
<1> QED
  BY <1>2, <1>3, <1>4, <1>5, <1>7, <1>8, <1>9 DEF Next, Step


--------------------------------------------------------------------------------
(* Samples and checkpoints on disk, step by step.                           *)

LEMMA ShownSettled ==
    ASSUME NEW j \in DOMAIN txns, NEW status, NEW shown, OneSettled(j, status, shown)
    PROVE  /\ \A a \in Shown : a \in Shown' \/ a \in txns[j].shown
           /\ \A a \in Shown' : a \in Shown \/ a \in shown
           /\ shown \subseteq Shown'
           /\ txns[j].shown = {} => Shown' = Shown \cup shown
<1>1. /\ DOMAIN txns' = DOMAIN txns /\ txns'[j].shown = shown
      /\ \A i \in DOMAIN txns : i # j => txns'[i] = txns[i]
  BY DEF OneSettled
<1>2. ASSUME NEW a \in Shown PROVE a \in Shown' \/ a \in txns[j].shown
  BY <1>1 DEF Shown
<1>3. ASSUME NEW a \in Shown' PROVE a \in Shown \/ a \in shown
  BY <1>1 DEF Shown
<1>4. shown \subseteq Shown'
  BY <1>1 DEF Shown
<1> QED
  BY <1>2, <1>3, <1>4

\* A staged sample is not yet in the lineage: its number follows the cursor.
LEMMA StagedIsFresh ==
    ASSUME TypeOK, ShapeInv, EffectInv, BooksInv, pc # "seal"
    PROVE  \A e \in AllSamples : e \notin lineage
<1>1. CursorsCount(cursors, lineage)
  BY DEF BooksInv, Books
<1>2. SUFFICES ASSUME NEW e \in AllSamples, e \in lineage PROVE FALSE
  OBVIOUS
<1>3. e \in Sample /\ e.n = cursors[e.consumer].n + 1
  BY StagedIsPlanned
<1>4. e.consumer \in Consumers /\ e \in OfConsumer(lineage, e.consumer)
  BY <1>2, <1>3 DEF OfConsumer, Sample
<1>5. e.n <= cursors[e.consumer].n /\ cursors[e.consumer].n \in Nat
  BY <1>1, <1>4 DEF CursorsCount, CursorSets
<1> QED
  BY <1>3, <1>5

\* A checkpoint file is written when everything staged is shown.
LEMMA CheckpointIsComplete ==
    ASSUME ShapeInv, StatusInv, CaptureInv, pc = "accept",
           NEW j \in DOMAIN txns,
           \A i \in DOMAIN txns : i < j => txns[i].status = "accepted",
           NEW shown \in SUBSET Samples(txns[j]),
           \A e \in Samples(txns[j]) : e \notin shown => Topology[e.consumer].skip,
           NEW e \in shown, IsCheckpoint(e)
    PROVE  /\ j = Len(txns) /\ Shown \cup shown = AllSamples
           /\ capture.cursors = Predicted(AllSamples)
           /\ capture.temporal = temporal /\ temporal.queue # 0
<1>1. DOMAIN txns = 1 .. Len(txns) /\ Len(txns) \in Nat
  BY TransactionFacts
<1>2. /\ j = Len(txns)
      /\ capture.cursors = Predicted(AllSamples)
      /\ capture.temporal = temporal /\ temporal.queue # 0
      /\ \A x \in AllSamples : ~Topology[x.consumer].skip
  BY DEF CaptureInv, Planning
<1>3. Shown \cup shown \subseteq AllSamples
  BY ShownIsStaged DEF AllSamples
<1>4. ASSUME NEW x \in AllSamples PROVE x \in Shown \cup shown
  <2>1. PICK i \in DOMAIN txns : x \in Samples(txns[i])
    BY DEF AllSamples
  <2>2. CASE i = j
    BY <1>2, <2>1, <2>2
  <2>3. CASE i # j
    <3>1. txns[i].status = "accepted"
      BY <1>1, <1>2, <2>3
    <3>2. x \in txns[i].shown
      BY <1>2, <2>1, <3>1 DEF StatusInv
    <3> QED
      BY <3>2 DEF Shown
  <2> QED
    BY <2>2, <2>3
<1> QED
  BY <1>2, <1>3, <1>4

\* Which steps touch a file.
LEMMA FilesFrame ==
    ASSUME [Next]_vars
    PROVE  AcceptOne \/ AbortOne \/ Checkpoint \/ UNCHANGED <<disk, exposed, vault>>
<1> USE DEF python, history, files, bounds
<1>1. CASE UNCHANGED vars \/ \E end \in RunEnds : Run(end)
  BY <1>1 DEF vars, Run
<1>2. CASE \/ PrepareAttempts \/ RunReturns \/ MaxStepsExhausted \/ Begin
           \/ SolveAccepted \/ SolveRejected \/ SolveFails \/ StageAtStart \/ StageStep
  BY <1>2 DEF PrepareAttempts, RunReturns, MaxStepsExhausted, Begin,
     SolveAccepted, SolveRejected, SolveFails, StageAtStart, StageStep
<1>3. CASE \/ Commit \/ Finalize \/ Seal \/ SealRaises \/ AttemptRetried
           \/ AttemptRaises \/ StartRaises \/ Restart \/ Crash
  BY <1>3 DEF Commit, Finalize, Seal, SealRaises, AttemptRetried, AttemptRaises,
     StartRaises, Restart, Crash
<1> QED
  BY <1>1, <1>2, <1>3 DEF Next, Step

LEMMA InFlightFacts ==
    ASSUME ShapeInv, StatusInv, NEW v, InFlight(v)
    PROVE  /\ Len(txns) \in DOMAIN txns /\ \A i \in DOMAIN txns : i <= Len(txns)
           /\ v.sample \in txns[Len(txns)].shown
           /\ txns[Len(txns)].status = "accepted"
<1>1. txns \in Seq(Transactions) /\ txns # <<>>
  BY DEF ShapeInv, InFlight
<1>2. DOMAIN txns = 1 .. Len(txns) /\ Len(txns) \in Nat /\ Len(txns) # 0
  BY <1>1, EmptySeq, LenProperties
<1>3. v.sample \in txns[Len(txns)].shown
  BY DEF InFlight
<1> QED
  BY <1>2, <1>3 DEF StatusInv

\* More samples stay backed if more is visible or left behind.
LEMMA StaysBacked ==
    ASSUME NEW S, NEW T, NEW d, NEW dd, NEW x, NEW xx, Backed(S, d, x),
           x \subseteq xx, S \subseteq T, S \subseteq d => T \subseteq dd
    PROVE  Backed(T, dd, xx)
  BY DEF Backed

\* What a checkpoint file says, whether its transaction is accepted or fails.
LEMMA FileSaysTheBooks ==
    ASSUME TypeOK, ShapeInv, AttemptInv, StatusInv, EffectInv, CaptureInv,
           BooksInv, pc = "accept",
           NEW j \in DOMAIN txns,
           \A i \in DOMAIN txns : i < j => txns[i].status = "accepted",
           NEW shown \in SUBSET Samples(txns[j]),
           \A e \in Samples(txns[j]) : e \notin shown => Topology[e.consumer].skip,
           NEW e \in shown, IsCheckpoint(e),
           NEW v, v = CheckpointFile(e, shown)
    PROVE  /\ Books(v.cursors, v.temporal, v.moments, v.lineage, v.skipped)
           /\ v.temporal.accepted = v.temporal.step
           /\ v.temporal.queue # 0
           /\ v.lineage = lineage \cup Shown \cup shown
           /\ v.sample = e /\ e \in v.lineage
<1>1. /\ Shown \cup shown = AllSamples
      /\ capture.cursors = Predicted(AllSamples)
      /\ capture.temporal = temporal /\ temporal.queue # 0
  BY CheckpointIsComplete
<1>2. Books(Advanced(cursors, AllSamples), temporal, moments \cup {moment},
            lineage \cup AllSamples, skipped \cup {})
  BY BooksAccepted
<1>3. temporal.accepted = temporal.step
  BY DEF AttemptInv, PositionInv
<1>4. /\ v.cursors = Advanced(cursors, AllSamples) /\ v.temporal = temporal
      /\ v.moments = moments \cup {moment} /\ v.sample = e
      /\ v.lineage = lineage \cup AllSamples /\ v.skipped = skipped \cup {}
  BY <1>1 DEF CheckpointFile, Predicted
<1> QED
  BY <1>1, <1>2, <1>3, <1>4

LEMMA VaultStep ==
    ASSUME TypeOK, ShapeInv, AttemptInv, StatusInv, EffectInv, CaptureInv,
           BooksInv, VaultInv, DiskInv, [Next]_vars
    PROVE  VaultInv'
<1> DEFINE Good(v) ==
        /\ Books(v.cursors, v.temporal, v.moments, v.lineage, v.skipped)
        /\ v.temporal.accepted = v.temporal.step
        /\ v.temporal.queue # 0
        /\ v.sample # NoSample => v.sample \in v.lineage /\ IsCheckpoint(v.sample)
<1>0. /\ \A v \in vault : Good(v) /\ Backed(v.lineage, disk, exposed)
      /\ VaultInv' <=>
            \A v \in vault' : Good(v)' /\ Backed(v.lineage, disk', exposed')
  BY DEF VaultInv
<1>00. ASSUME NEW v, Good(v) PROVE Good(v)'
  BY <1>00 DEF Books, ClockCovers, SamplesAreDue, DueIsKnown, CursorsCount,
     Occurrences, OfConsumer, Occurrence, Due, OnLattice, Moments, Authority,
     CursorSets, Sample, NoOccurrence, Consumers, NoSample, IsCheckpoint
<1>000. ASSUME NEW samples, disk \subseteq disk', exposed \subseteq exposed',
               Backed(samples, disk, exposed)
        PROVE  Backed(samples, disk', exposed')
  BY <1>000, StaysBacked
<1>1. CASE AcceptOne
  <2>1. PICK j \in DOMAIN txns :
          /\ \A i \in DOMAIN txns : i < j => txns[i].status = "accepted"
          /\ \/ \E shown \in SUBSET Samples(txns[j]) :
                     /\ \A e \in Samples(txns[j]) :
                           e \notin shown => Topology[e.consumer].skip
                     /\ disk' = disk \cup shown
                     /\ vault' = vault \cup CheckpointFiles(shown, shown)
                     /\ UNCHANGED exposed
             \/ \E there \in SUBSET Samples(txns[j]) :
                     /\ disk' = disk \cup there
                     /\ vault' = vault \cup CheckpointFiles(there, Samples(txns[j]))
                     /\ exposed' = exposed \cup there
    BY <1>1, AcceptOutcomes
  <2>2. pc = "accept"
    BY <1>1 DEF AcceptOne
  <2>3. ASSUME NEW shown \in SUBSET Samples(txns[j]),
               \A e \in Samples(txns[j]) : e \notin shown => Topology[e.consumer].skip,
               NEW e \in shown, IsCheckpoint(e)
        PROVE  /\ Good(CheckpointFile(e, shown))
               /\ CheckpointFile(e, shown).lineage = lineage \cup Shown \cup shown
    <3> DEFINE v == CheckpointFile(e, shown)
    <3>1. /\ Books(v.cursors, v.temporal, v.moments, v.lineage, v.skipped)
          /\ v.temporal.accepted = v.temporal.step
          /\ v.temporal.queue # 0
          /\ v.lineage = lineage \cup Shown \cup shown
          /\ v.sample = e /\ e \in v.lineage
      <4> HIDE DEF v
      <4>1. v = CheckpointFile(e, shown)
        BY DEF v
      <4> QED
        BY <2>1, <2>2, <2>3, <4>1, FileSaysTheBooks
    <3> HIDE DEF v
    <3>2. Good(v) /\ v.lineage = lineage \cup Shown \cup shown
      BY <2>3, <3>1
    <3> QED
      BY <3>2 DEF v
  <2>4. ASSUME NEW shown \in SUBSET Samples(txns[j]),
               \A e \in Samples(txns[j]) : e \notin shown => Topology[e.consumer].skip,
               disk' = disk \cup shown,
               vault' = vault \cup CheckpointFiles(shown, shown), UNCHANGED exposed
        PROVE  VaultInv'
    <3>1. Backed(lineage \cup Shown \cup shown, disk', exposed')
      BY <2>4, StaysBacked DEF DiskInv
    <3> HIDE DEF Good
    <3>2. ASSUME NEW v \in vault' PROVE Good(v) /\ Backed(v.lineage, disk', exposed')
      <4>1. CASE v \in vault
        BY <1>0, <1>000, <2>4, <4>1
      <4>2. CASE v \in CheckpointFiles(shown, shown)
        <5>1. PICK e \in shown : IsCheckpoint(e) /\ v = CheckpointFile(e, shown)
          BY <4>2 DEF CheckpointFiles
        <5>2. Good(v) /\ v.lineage = lineage \cup Shown \cup shown
          BY <2>3, <2>4, <5>1
        <5> QED
          BY <3>1, <5>2
      <4> QED
        BY <2>4, <4>1, <4>2
    <3> QED
      BY <1>0, <1>00, <3>2
  <2>5. ASSUME NEW there \in SUBSET Samples(txns[j]), disk' = disk \cup there,
               vault' = vault \cup CheckpointFiles(there, Samples(txns[j])),
               exposed' = exposed \cup there
        PROVE  VaultInv'
    <3> HIDE DEF Good
    <3>1. ASSUME NEW v \in vault' PROVE Good(v) /\ Backed(v.lineage, disk', exposed')
      <4>1. CASE v \in vault
        BY <1>0, <1>000, <2>5, <4>1
      <4>2. CASE v \in CheckpointFiles(there, Samples(txns[j]))
        <5>1. PICK e \in there : IsCheckpoint(e)
                                 /\ v = CheckpointFile(e, Samples(txns[j]))
          BY <4>2 DEF CheckpointFiles
        <5>2. Good(v) /\ v.lineage = lineage \cup Shown \cup Samples(txns[j])
          BY <2>3, <5>1
        <5>3. e \in exposed' /\ e \in v.lineage
          BY <2>5, <5>2
        <5> QED
          BY <5>1, <5>2, <5>3 DEF Backed
      <4> QED
        BY <2>5, <4>1, <4>2
    <3> QED
      BY <1>0, <1>00, <3>1
  <2> QED
    BY <2>1, <2>4, <2>5
<1>2. CASE AbortOne
  <2>0. pc = "abort"
    BY <1>2 DEF AbortOne
  <2>1. PICK j \in DOMAIN txns : \E there \in SUBSET txns[j].shown :
             /\ j \in Unresolved /\ \A i \in Unresolved : i <= j
             /\ disk' = disk \ (txns[j].shown \ there)
             /\ exposed' = exposed \cup there
             /\ vault' = {v \in vault : v.sample \notin txns[j].shown \ there}
    BY <1>2, AbortOutcomes
  <2>2. PICK there \in SUBSET txns[j].shown :
             /\ disk' = disk \ (txns[j].shown \ there)
             /\ exposed' = exposed \cup there
             /\ vault' = {v \in vault : v.sample \notin txns[j].shown \ there}
    BY <2>1
  <2>3. exposed' \subseteq Sample /\ NoSample \notin Sample
    <3>1. txns[j].shown \subseteq Sample
      BY TransactionFacts DEF StatusInv
    <3>2. 0 \notin Consumers
      BY GraphFacts
    <3> QED
      BY <2>2, <3>1, <3>2 DEF TypeOK, NoSample, Sample
  <2>4. ASSUME NEW v \in vault' PROVE v \in vault /\ Backed(v.lineage, disk', exposed')
    <3>1. v \in vault /\ v.sample \notin txns[j].shown \ there
      BY <2>2
    <3>2. CASE v.sample \in exposed'
      <4>1. v.sample \in v.lineage /\ IsCheckpoint(v.sample)
        BY <1>0, <2>3, <3>1, <3>2
      <4> QED
        BY <3>1, <3>2, <4>1 DEF Backed
    <3>3. CASE \E e \in exposed \cap v.lineage : IsCheckpoint(e)
      BY <2>2, <3>1, <3>3 DEF Backed
    <3>4. CASE v.sample \notin exposed' /\ v.lineage \subseteq disk
      <4>1. v.sample \notin txns[j].shown /\ v.sample \notin exposed
        BY <2>2, <3>1, <3>4
      <4>2. SUFFICES ASSUME NEW a \in v.lineage, a \in txns[j].shown PROVE FALSE
        BY <2>2, <3>1, <3>4 DEF Backed
      <4>3. a \in AllSamples /\ a \in Shown
        BY <4>2 DEF StatusInv, AllSamples, Shown
      <4>4. a.epoch = epoch /\ a \notin lineage
        BY <2>0, <4>3, StagedIsPlanned, StagedIsFresh
      <4>5. InFlight(v)
        BY <3>1, <4>1, <4>4 DEF DiskInv
      <4>6. /\ Len(txns) \in DOMAIN txns /\ j <= Len(txns)
            /\ Len(txns) \in Unresolved /\ v.sample \in txns[Len(txns)].shown
        BY <4>5, InFlightFacts DEF Unresolved
      <4>7. j = Len(txns)
        <5>1. DOMAIN txns = 1 .. Len(txns) /\ Len(txns) \in Nat
          BY TransactionFacts
        <5> QED
          BY <2>1, <4>6, <5>1
      <4> QED
        BY <4>1, <4>6, <4>7
    <3> QED
      BY <1>0, <3>1, <3>2, <3>3, <3>4 DEF Backed
  <2> HIDE DEF Good
  <2> QED
    BY <1>0, <1>00, <2>4
<1>3. CASE Checkpoint
  <2>1. /\ pc = "idle" /\ CheckpointAllowed(temporal) /\ UNCHANGED <<disk, exposed>>
        /\ vault' = vault \cup
             {[sample |-> NoSample, cursors |-> cursors, temporal |-> temporal,
               moments |-> moments, lineage |-> lineage, skipped |-> skipped]}
    BY <1>3 DEF Checkpoint, Idle
  <2> DEFINE w == [sample |-> NoSample, cursors |-> cursors, temporal |-> temporal,
                   moments |-> moments, lineage |-> lineage, skipped |-> skipped]
  <2>2. ~Attempting /\ Base = temporal
    BY <2>1 DEF Base, Attempting
  <2>3. Books(cursors, temporal, moments, lineage, skipped)
    BY <2>1, <2>2 DEF BooksInv
  <2>4. temporal.accepted = temporal.step
    BY <2>2, AtRest
  <2>5. temporal.queue # 0
    BY <2>1, CheckpointAllowedFacts DEF TypeOK
  <2>6. Good(w)
    BY <2>3, <2>4, <2>5
  <2>7. Backed(w.lineage, disk', exposed')
    BY <2>1 DEF DiskInv
  <2>8. vault' = vault \cup {w}
    BY <2>1
  <2> HIDE DEF w, Good
  <2>9. \A v \in vault : Backed(v.lineage, disk', exposed')
    BY <1>0, <2>1
  <2> QED
    BY <1>0, <1>00, <2>6, <2>7, <2>8, <2>9
<1>4. CASE UNCHANGED <<disk, exposed, vault>>
  <2> HIDE DEF Good
  <2> QED
    BY <1>0, <1>00, <1>000, <1>4
<1> QED
  BY <1>1, <1>2, <1>3, <1>4, FilesFrame


\* The steps that leave the files and the lineage alone and show nothing new.
LEMMA DiskKept ==
    ASSUME DiskInv, UNCHANGED <<disk, exposed, vault, lineage, epoch>>,
           Shown' = Shown, Shown = {} \/ UNCHANGED txns,
           pc' = "seal" => pc = "seal" \/ Shown = {}
    PROVE  DiskInv'
<1>1. \A v \in vault : \A a \in Shown : InFlight(v) => InFlight(v)'
  BY DEF InFlight
<1>2. /\ Backed(lineage', disk', exposed') /\ Shown' \subseteq disk'
      /\ pc' = "seal" => Shown' \subseteq lineage'
      /\ \A a \in disk' \cup lineage' : a.epoch <= epoch'
      /\ \A v \in vault' : \A a \in v.lineage : a.epoch <= epoch'
      /\ \A a \in disk' : a.epoch = epoch' => a \in lineage' \cup exposed' \cup Shown'
  BY DEF DiskInv
<1>3. ASSUME NEW v \in vault', NEW a \in v.lineage, a.epoch = epoch'
      PROVE  v.sample \in exposed' \/ a \in lineage' \/ (InFlight(v)' /\ a \in Shown')
  BY <1>1, <1>3 DEF DiskInv
<1> QED
  BY <1>2, <1>3 DEF DiskInv

\* A new process or a restart: nothing on disk is of the new epoch.
LEMMA DiskOfNewEpoch ==
    ASSUME TypeOK, ShapeInv, VaultInv, DiskInv, UNCHANGED <<disk, exposed, vault>>,
           epoch' = epoch + 1, Backed(lineage', disk, exposed), Shown' = {},
           pc' # "seal", lineage' \subseteq Sample, \A a \in lineage' : a.epoch <= epoch
    PROVE  DiskInv'
<1>1. /\ epoch \in Nat /\ \A a \in Sample : a.epoch \in Nat
      /\ disk \subseteq Sample /\ \A v \in vault : v.lineage \subseteq Sample
  BY DEF ShapeInv, TypeOK, Sample, VaultInv, Books, CursorsCount
<1>2. \A a \in disk' \cup lineage' : a.epoch <= epoch' /\ a.epoch # epoch'
  BY <1>1 DEF DiskInv
<1>3. \A v \in vault' : \A a \in v.lineage : a.epoch <= epoch' /\ a.epoch # epoch'
  BY <1>1 DEF DiskInv
<1> QED
  BY <1>2, <1>3 DEF DiskInv

LEMMA DiskStep ==
    ASSUME TypeOK, ShapeInv, AttemptInv, StatusInv, EffectInv, CaptureInv,
           BooksInv, VaultInv, DiskInv, [Next]_vars
    PROVE  DiskInv'
<1> USE DEF python, history, files, bounds
<1>0. /\ Backed(lineage, disk, exposed) /\ Shown \subseteq disk
      /\ pc = "seal" => Shown \subseteq lineage
      /\ \A a \in disk \cup lineage : a.epoch <= epoch
      /\ \A v \in vault : \A a \in v.lineage : a.epoch <= epoch
      /\ \A v \in vault : \A a \in v.lineage : a.epoch = epoch =>
            v.sample \in exposed \/ a \in lineage \/ (InFlight(v) /\ a \in Shown)
      /\ \A a \in disk : a.epoch = epoch => a \in lineage \cup exposed \cup Shown
  BY DEF DiskInv
<1>00. /\ epoch \in Nat /\ \A e \in AllSamples : e.epoch = epoch
       /\ \A a \in disk : a.epoch \in Nat
  BY StagedIsPlanned DEF ShapeInv, TypeOK, Sample
<1>1. CASE AcceptOne
  <2>1. PICK j \in DOMAIN txns :
          /\ txns[j].shown = {}
          /\ \A i \in DOMAIN txns : i < j => txns[i].status = "accepted"
          /\ \/ \E shown \in SUBSET Samples(txns[j]) :
                     /\ OneSettled(j, "accepted", shown)
                     /\ \A e \in Samples(txns[j]) :
                           e \notin shown => Topology[e.consumer].skip
                     /\ disk' = disk \cup shown
                     /\ vault' = vault \cup CheckpointFiles(shown, shown)
                     /\ UNCHANGED <<pc, exposed>>
             \/ \E there \in SUBSET Samples(txns[j]) :
                     /\ OneSettled(j, "failed", {})
                     /\ disk' = disk \cup there
                     /\ vault' = vault \cup CheckpointFiles(there, Samples(txns[j]))
                     /\ exposed' = exposed \cup there
                     /\ pc' = "abort"
    BY <1>1, AcceptOutcomes
  <2>2. pc = "accept" /\ UNCHANGED <<lineage, epoch>>
    BY <1>1 DEF AcceptOne
  <2>3. Samples(txns[j]) \subseteq AllSamples
    BY DEF AllSamples
  <2>4. ASSUME NEW status, NEW shown, OneSettled(j, status, shown)
        PROVE  /\ Shown' = Shown \cup shown
               /\ \A v : InFlight(v) => InFlight(v)'
    <3>1. Shown' = Shown \cup shown
      BY <2>1, <2>4, ShownSettled
    <3>2. ASSUME NEW v, InFlight(v) PROVE InFlight(v)'
      <4>1. Len(txns) \in DOMAIN txns /\ v.sample \in txns[Len(txns)].shown
        BY <3>2, InFlightFacts
      <4>2. Len(txns) # j
        BY <2>1, <4>1
      <4>3. /\ Len(txns') = Len(txns) /\ txns'[Len(txns)] = txns[Len(txns)]
            /\ DOMAIN txns' = DOMAIN txns
        BY <2>4, <4>1, <4>2 DEF OneSettled
      <4>4. txns' # <<>>
        <5>1. DOMAIN txns' # {}
          BY <4>1, <4>3
        <5> QED
          BY <5>1
      <4> QED
        BY <4>1, <4>3, <4>4 DEF InFlight
    <3> QED
      BY <3>1, <3>2
  <2>5. ASSUME NEW shown \in SUBSET Samples(txns[j]), OneSettled(j, "accepted", shown),
               \A e \in Samples(txns[j]) : e \notin shown => Topology[e.consumer].skip,
               disk' = disk \cup shown,
               vault' = vault \cup CheckpointFiles(shown, shown),
               UNCHANGED <<pc, exposed>>
        PROVE  DiskInv'
    <3>1. Shown' = Shown \cup shown /\ \A v : InFlight(v) => InFlight(v)'
      BY <2>4, <2>5
    <3>2. ASSUME NEW e \in shown, IsCheckpoint(e), NEW a \in CheckpointFile(e, shown).lineage
          PROVE  a \in lineage' \/ (InFlight(CheckpointFile(e, shown))' /\ a \in Shown')
      <4>1. j = Len(txns)
        BY <2>1, <2>2, <2>5, <3>2, CheckpointIsComplete
      <4> DEFINE v == CheckpointFile(e, shown)
      <4>2. v.sample = e /\ v.lineage = lineage \cup Shown \cup shown
        BY DEF CheckpointFile
      <4> HIDE DEF v
      <4>3. Len(txns') = j /\ txns'[j].shown = shown /\ DOMAIN txns' = DOMAIN txns
        BY <2>5, <4>1 DEF OneSettled
      <4>4. txns' # <<>>
        <5>1. DOMAIN txns' # {}
          BY <4>3
        <5> QED
          BY <5>1
      <4>5. v.sample \in txns'[Len(txns')].shown
        BY <3>2, <4>2, <4>3
      <4>6. txns' # <<>> /\ v.sample \in txns'[Len(txns')].shown
              => InFlight(CheckpointFile(e, shown))'
        <5>1. CheckpointFile(e, shown)'.sample = e
          BY DEF CheckpointFile
        <5> QED
          BY <4>2, <5>1 DEF InFlight
      <4> QED
        BY <2>2, <3>1, <3>2, <4>2, <4>4, <4>5, <4>6 DEF v
    <3>3. ASSUME NEW v \in vault', NEW a \in v.lineage, a.epoch = epoch'
          PROVE  \/ v.sample \in exposed' \/ a \in lineage'
                 \/ (InFlight(v)' /\ a \in Shown')
      <4>1. CASE v \in vault
        BY <1>0, <2>2, <2>5, <3>1, <3>3, <4>1
      <4>2. CASE v \notin vault
        <5>1. PICK e \in shown : IsCheckpoint(e) /\ v = CheckpointFile(e, shown)
          BY <2>5, <4>2 DEF CheckpointFiles
        <5>2. InFlight(CheckpointFile(e, shown))' <=> InFlight(v)'
          BY <5>1 DEF InFlight, CheckpointFile
        <5> QED
          BY <3>2, <3>3, <5>1, <5>2
      <4> QED
        BY <4>1, <4>2
    <3>4. /\ Backed(lineage', disk', exposed') /\ Shown' \subseteq disk'
          /\ pc' # "seal"
      BY <1>0, <2>2, <2>5, <3>1, StaysBacked
    <3>5. \A a \in disk' \cup lineage' : a.epoch <= epoch'
      BY <1>0, <1>00, <2>2, <2>3, <2>5
    <3>6. \A a \in disk' : a.epoch = epoch' => a \in lineage' \cup exposed' \cup Shown'
      BY <1>0, <2>2, <2>5, <3>1
    <3>7. ASSUME NEW v \in vault', NEW a \in v.lineage PROVE a.epoch <= epoch'
      <4>1. CASE v \in vault
        BY <1>0, <2>2, <4>1
      <4>2. CASE v \notin vault
        <5>1. PICK e \in shown : v = CheckpointFile(e, shown)
          BY <2>5, <4>2 DEF CheckpointFiles
        <5>2. a \in lineage \cup Shown \cup shown
          BY <3>7, <5>1 DEF CheckpointFile
        <5> QED
          BY <3>1, <3>4, <3>5, <2>2, <2>5, <5>2
      <4> QED
        BY <4>1, <4>2
    <3> QED
      BY <3>3, <3>4, <3>5, <3>6, <3>7 DEF DiskInv
  <2>6. ASSUME NEW there \in SUBSET Samples(txns[j]), OneSettled(j, "failed", {}),
               disk' = disk \cup there, exposed' = exposed \cup there,
               vault' = vault \cup CheckpointFiles(there, Samples(txns[j])),
               pc' = "abort"
        PROVE  DiskInv'
    <3>1. Shown' = Shown /\ \A v : InFlight(v) => InFlight(v)'
      BY <2>4, <2>6
    <3>2. ASSUME NEW v \in vault', NEW a \in v.lineage
          PROVE  /\ a.epoch <= epoch'
                 /\ a.epoch = epoch' => \/ v.sample \in exposed' \/ a \in lineage'
                                        \/ (InFlight(v)' /\ a \in Shown')
      <4>1. CASE v \in vault
        BY <1>0, <2>2, <2>6, <3>1, <4>1
      <4>2. CASE v \notin vault
        <5>1. PICK e \in there : v = CheckpointFile(e, Samples(txns[j]))
          BY <2>6, <4>2 DEF CheckpointFiles
        <5>2. a \in lineage \cup Shown \cup Samples(txns[j]) /\ v.sample = e
          BY <3>2, <5>1 DEF CheckpointFile
        <5>3. a.epoch <= epoch
          BY <1>0, <1>00, <2>3, <5>2
        <5> QED
          BY <2>2, <2>6, <5>2, <5>3
      <4> QED
        BY <4>1, <4>2
    <3>3. /\ Backed(lineage', disk', exposed') /\ Shown' \subseteq disk'
          /\ pc' # "seal"
      BY <1>0, <2>2, <2>6, <3>1, StaysBacked
    <3>4. \A a \in disk' \cup lineage' : a.epoch <= epoch'
      BY <1>0, <1>00, <2>2, <2>3, <2>6
    <3>5. \A a \in disk' : a.epoch = epoch' => a \in lineage' \cup exposed' \cup Shown'
      BY <1>0, <2>2, <2>6, <3>1
    <3> QED
      BY <3>2, <3>3, <3>4, <3>5 DEF DiskInv
  <2> QED
    BY <2>1, <2>5, <2>6
<1>2. CASE AbortOne
  <2>0. PICK j \in DOMAIN txns : \E there \in SUBSET txns[j].shown :
             /\ j \in Unresolved /\ \A i \in Unresolved : i <= j
             /\ OneSettled(j, "rejected", {})
             /\ disk' = disk \ (txns[j].shown \ there)
             /\ exposed' = exposed \cup there
             /\ vault' = {v \in vault : v.sample \notin txns[j].shown \ there}
    BY <1>2, AbortOutcomes
  <2>1. PICK there \in SUBSET txns[j].shown :
             /\ j \in Unresolved /\ \A i \in Unresolved : i <= j
             /\ OneSettled(j, "rejected", {})
             /\ disk' = disk \ (txns[j].shown \ there)
             /\ exposed' = exposed \cup there
             /\ vault' = {v \in vault : v.sample \notin txns[j].shown \ there}
    BY <2>0
  <2>2. pc = "abort" /\ pc' = "abort" /\ UNCHANGED <<lineage, epoch>>
    BY <1>2 DEF AbortOne
  <2>3. /\ \A a \in Shown : a \in Shown' \/ a \in txns[j].shown
        /\ \A a \in Shown' : a \in Shown
    BY <2>1, ShownSettled
  <2>4. \A a \in txns[j].shown : a \in AllSamples /\ a \notin lineage
    <3>1. txns[j].shown \subseteq AllSamples
      BY DEF StatusInv, AllSamples
    <3> QED
      BY <2>2, <3>1, StagedIsFresh
  <2>5. \A v \in vault' : v.sample \in exposed' \/ ~InFlight(v)
    <3>1. SUFFICES ASSUME NEW v \in vault', InFlight(v) PROVE v.sample \in exposed'
      OBVIOUS
    <3>2. /\ Len(txns) \in DOMAIN txns /\ j <= Len(txns)
          /\ Len(txns) \in Unresolved /\ v.sample \in txns[Len(txns)].shown
      BY <3>1, InFlightFacts DEF Unresolved
    <3>3. j = Len(txns)
      <4>1. DOMAIN txns = 1 .. Len(txns) /\ Len(txns) \in Nat
        BY TransactionFacts
      <4> QED
        BY <2>1, <3>2, <4>1
    <3> QED
      BY <2>1, <3>2, <3>3
  <2>6. \A v \in vault' : \A a \in v.lineage :
           /\ a.epoch <= epoch'
           /\ a.epoch = epoch' => v.sample \in exposed' \/ a \in lineage'
    BY <1>0, <2>1, <2>2, <2>5
  <2>7. Backed(lineage', disk', exposed')
    <3>1. lineage \subseteq disk => lineage \subseteq disk'
      BY <2>1, <2>4
    <3> QED
      BY <1>0, <2>1, <2>2, <3>1, StaysBacked
  <2>8. Shown' \subseteq disk'
    <3>1. SUFFICES ASSUME NEW a \in Shown' PROVE a \notin txns[j].shown
      BY <1>0, <2>1, <2>3
    <3>2. PICK i \in DOMAIN txns : a \in txns'[i].shown
      BY <2>1 DEF Shown, OneSettled
    <3>3. i # j /\ a \in txns[i].shown
      BY <2>1, <3>2 DEF OneSettled
    <3>4. a \in Samples(txns[i])
      BY <3>3 DEF StatusInv
    <3>5. SUFFICES ASSUME a \in txns[j].shown PROVE FALSE
      OBVIOUS
    <3>6. a \in Samples(txns[j])
      BY <3>5 DEF StatusInv
    <3> QED
      BY <3>3, <3>4, <3>6 DEF EffectInv
  <2>9. \A a \in disk' : a.epoch = epoch' => a \in lineage' \cup exposed' \cup Shown'
    <3>1. SUFFICES ASSUME NEW a \in disk', a.epoch = epoch'
                   PROVE  a \in lineage' \cup exposed' \cup Shown'
      OBVIOUS
    <3>2. a \in lineage \cup exposed \cup Shown
      BY <1>0, <2>1, <2>2, <3>1
    <3> QED
      BY <2>1, <2>2, <2>3, <3>1, <3>2
  <2>10. \A a \in disk' \cup lineage' : a.epoch <= epoch'
    BY <1>0, <2>1, <2>2
  <2> QED
    BY <2>2, <2>6, <2>7, <2>8, <2>9, <2>10 DEF DiskInv
<1>3. CASE Checkpoint
  <2>1. /\ pc = "idle" /\ pc' = "idle" /\ UNCHANGED <<disk, exposed, lineage, epoch, txns>>
        /\ \A v \in vault' : v \in vault \/ v.lineage = lineage
    BY <1>3 DEF Checkpoint, Idle
  <2>2. Shown' = Shown /\ \A v : InFlight(v)' = InFlight(v)
    BY <2>1 DEF Shown, InFlight
  <2>3. \A v \in vault' : \A a \in v.lineage :
           /\ a.epoch <= epoch'
           /\ a.epoch = epoch' => \/ v.sample \in exposed' \/ a \in lineage'
                                  \/ (InFlight(v)' /\ a \in Shown')
    BY <1>0, <2>1, <2>2
  <2> QED
    BY <1>0, <2>1, <2>2, <2>3 DEF DiskInv
<1>4. CASE Finalize /\ pc' = "seal"
  <2>1. /\ lineage' = lineage \cup Shown
        /\ UNCHANGED <<disk, exposed, vault, epoch, txns>>
    BY <1>4 DEF Finalize, Reached, Raise
  <2>2. Shown' = Shown /\ \A v : InFlight(v)' = InFlight(v)
    BY <2>1 DEF Shown, InFlight
  <2>3. /\ Backed(lineage', disk', exposed')
        /\ \A a \in disk' \cup lineage' : a.epoch <= epoch'
    BY <1>0, <2>1, StaysBacked
  <2> QED
    BY <1>0, <2>1, <2>2, <2>3 DEF DiskInv
<1>5. CASE Seal \/ SealRaises
  <2>1. /\ pc = "seal" /\ pc' = "loop" /\ txns' = <<>>
        /\ UNCHANGED <<disk, exposed, vault, lineage, epoch>>
    BY <1>5 DEF Seal, SealRaises, LeaveEnvelope
  <2>2. Shown' = {}
    BY <2>1 DEF Shown
  <2>3. \A v \in vault' : \A a \in v.lineage : a.epoch = epoch' =>
           v.sample \in exposed' \/ a \in lineage'
    BY <1>0, <2>1
  <2> QED
    BY <1>0, <2>1, <2>2, <2>3 DEF DiskInv
<1>6. CASE Restart
  <2>1. PICK v \in vault :
           /\ lineage' = v.lineage /\ UNCHANGED <<pc, txns, disk, exposed, vault>>
           /\ epoch' = epoch + 1 /\ pc = "idle"
    BY <1>6 DEF Restart, Idle, Deeper
  <2>2. txns = <<>>
    BY <2>1 DEF AttemptInv, ControlInv
  <2>3. Shown' = {}
    BY <2>1, <2>2 DEF Shown
  <2>4. /\ Backed(lineage', disk, exposed) /\ lineage' \subseteq Sample
        /\ \A a \in lineage' : a.epoch <= epoch
    BY <1>0, <2>1 DEF VaultInv, Books, CursorsCount
  <2> QED
    BY <2>1, <2>3, <2>4, DiskOfNewEpoch
<1>7. CASE Crash
  <2>1. /\ lineage' = {} /\ txns' = <<>> /\ pc' = "idle"
        /\ UNCHANGED <<disk, exposed, vault>> /\ epoch' = epoch + 1
    BY <1>7 DEF Crash, Deeper
  <2>2. Shown' = {}
    BY <2>1 DEF Shown
  <2>3. Backed(lineage', disk, exposed)
    BY <2>1 DEF Backed
  <2> QED
    BY <2>1, <2>2, <2>3, DiskOfNewEpoch
<1>8. CASE AttemptRetried \/ AttemptRaises \/ StartRaises
  <2>1. /\ Unresolved = {} /\ txns' = <<>> /\ pc' # "seal"
        /\ UNCHANGED <<disk, exposed, vault, lineage, epoch>>
    BY <1>8 DEF AttemptRetried, AttemptRaises, StartRaises, RunRaises, UndoAttempt,
       ForgetTransactions
  <2>2. Shown = {} /\ Shown' = {}
    BY <2>1 DEF Shown, Unresolved, StatusInv
  <2> QED
    BY <2>1, <2>2, DiskKept
<1>9. CASE StageAtStart \/ StageStep
  <2>1. /\ pc \in {"start", "stage"}
        /\ UNCHANGED <<disk, exposed, vault, lineage, epoch>>
    BY <1>9 DEF StageAtStart, StageStep
  <2>2. txns = <<>>
    BY <2>1 DEF AttemptInv, ControlInv
  <2>3. Shown = {}
    BY <2>2 DEF Shown
  <2>4. Shown' = {} /\ pc' # "seal"
    <3>1. PICK m \in Moments : StageConsumers(m)
      <4>1. CASE StageAtStart
        BY <4>1, MomentFacts DEF StageAtStart
      <4>2. CASE StageStep
        BY <4>2, MomentFacts DEF StageStep
      <4> QED
        BY <1>9, <4>1, <4>2
    <3>2. CASE UNCHANGED txns /\ pc' = "abort"
      BY <2>2, <3>2 DEF Shown
    <3>3. CASE /\ txns' = [j \in DOMAIN Plans(m) |-> Staged(Plans(m)[j])]
               /\ pc' = IF m.start THEN "accept" ELSE "commit"
      BY <3>3, PlanStateHolds, StagedFacts DEF Shown
    <3> QED
      BY <3>1, <3>2, <3>3, StageOutcomes
  <2> QED
    BY <2>1, <2>3, <2>4, DiskKept
<1>10. CASE \/ UNCHANGED vars \/ PrepareAttempts \/ RunReturns \/ MaxStepsExhausted
            \/ Begin \/ SolveAccepted \/ SolveRejected \/ SolveFails \/ Commit
            \/ (Finalize /\ pc' # "seal") \/ \E end \in RunEnds : Run(end)
  <2>1. /\ UNCHANGED <<disk, exposed, vault, lineage, epoch, txns>>
        /\ pc' = "seal" => pc = "seal"
    BY <1>10 DEF vars, PrepareAttempts, RunReturns, MaxStepsExhausted, RunRaises,
       Begin, SolveAccepted, SolveRejected, SolveFails, Raise, Commit, Finalize,
       Reached, Run
  <2>2. Shown' = Shown
    BY <2>1 DEF Shown
  <2> QED
    BY <2>1, <2>2, DiskKept
<1> QED
  BY <1>1, <1>2, <1>3, <1>4, <1>5, <1>6, <1>7, <1>8, <1>9, <1>10 DEF Next, Step


\* A sample that cannot be removed ends the run that published it.
LEMMA ExposedStep ==
    ASSUME TypeOK, ShapeInv, AttemptInv, StatusInv, EffectInv, ExposedInv, [Next]_vars
    PROVE  ExposedInv'
<1> USE DEF python, history, files, bounds
<1>0. /\ epoch \in Nat /\ runs \in Nat
      /\ \A a \in exposed : a.epoch \in Nat /\ a.run \in Nat
      /\ \A a \in AllSamples : a.epoch = epoch /\ a.run = runs
  <2>1. \A a \in AllSamples : a.epoch = epoch /\ a.run = runs
    <3>1. SUFFICES ASSUME NEW j \in DOMAIN txns, NEW e \in Samples(txns[j])
                   PROVE  e.epoch = epoch /\ e.run = runs
      BY DEF AllSamples
    <3>2. e = Effect(e.consumer, moment)
      BY DEF EffectInv
    <3> QED
      BY <3>2 DEF Effect
  <2> QED
    BY <2>1 DEF ShapeInv, TypeOK, Sample
<1>1. CASE AcceptOne
  <2>1. PICK j \in DOMAIN txns :
          \/ UNCHANGED <<pc, exposed>>
          \/ \E there \in SUBSET Samples(txns[j]) :
                /\ exposed' = exposed \cup there
                /\ pc' = "abort" /\ failure' = "fail"
    BY <1>1, AcceptOutcomes
  <2>2. pc = "accept" /\ UNCHANGED <<runs, epoch>>
    BY <1>1 DEF AcceptOne
  <2>3. Samples(txns[j]) \subseteq AllSamples
    BY DEF AllSamples
  <2> QED
    BY <1>0, <2>1, <2>2, <2>3 DEF ExposedInv
<1>2. CASE AbortOne
  <2>1. PICK j \in DOMAIN txns : \E there \in SUBSET txns[j].shown :
             exposed' = exposed \cup there
    BY <1>2, AbortOutcomes
  <2>2. pc = "abort" /\ UNCHANGED <<pc, failure, runs, epoch>>
    BY <1>2 DEF AbortOne
  <2>3. txns[j].shown \subseteq AllSamples
    BY DEF StatusInv, AllSamples
  <2>4. txns # <<>>
    BY <2>1, TransactionFacts
  <2> QED
    BY <1>0, <2>1, <2>2, <2>3, <2>4 DEF ExposedInv
<1>3. CASE UNCHANGED <<exposed, runs, epoch, pc, failure, txns>>
  BY <1>3 DEF ExposedInv
<1>4. CASE Restart \/ Crash
  <2>1. UNCHANGED <<exposed, runs>> /\ epoch' = epoch + 1 /\ pc' = "idle"
    BY <1>4 DEF Restart, Crash, Deeper, Idle
  <2> QED
    BY <1>0, <2>1 DEF ExposedInv
<1>5. CASE \E end \in RunEnds : Run(end)
  <2>1. UNCHANGED <<exposed, epoch>> /\ runs' = runs + 1 /\ pc' = "start"
    BY <1>5 DEF Run
  <2> QED
    BY <1>0, <2>1 DEF ExposedInv
<1>6. CASE AttemptRetried \/ AttemptRaises \/ StartRaises
  <2>1. /\ pc = "abort" /\ UNCHANGED <<exposed, runs, epoch>>
        /\ pc' = "idle" \/ (pc' = "begin" /\ failure = "reject")
    BY <1>6 DEF AttemptRetried, AttemptRaises, StartRaises, RunRaises, MayRetry
  <2> QED
    BY <2>1 DEF ExposedInv
<1>7. CASE SolveRejected
  <2>1. /\ pc = "solve" /\ pc' = "abort" /\ UNCHANGED <<exposed, runs, epoch, txns>>
    BY <1>7 DEF SolveRejected, Raise
  <2>2. txns' = <<>>
    BY <2>1 DEF AttemptInv, ControlInv
  <2> QED
    BY <2>1, <2>2 DEF ExposedInv
<1>8. CASE \/ PrepareAttempts \/ RunReturns \/ MaxStepsExhausted \/ Begin
           \/ SolveAccepted \/ SolveFails \/ StageAtStart \/ StageStep
  <2>1. /\ pc \notin {"idle", "abort"} /\ UNCHANGED <<exposed, runs, epoch>>
        /\ pc' = "abort" => failure' = "fail"
    BY <1>8 DEF PrepareAttempts, RunReturns, MaxStepsExhausted, RunRaises, Begin,
       SolveAccepted, SolveFails, StageAtStart, StageStep, StageConsumers, Raise
  <2> QED
    BY <2>1 DEF ExposedInv
<1>9. CASE Commit \/ Finalize \/ Seal \/ SealRaises
  <2>1. /\ pc \notin {"idle", "abort"} /\ UNCHANGED <<exposed, runs, epoch>>
        /\ pc' = "abort" => failure' = "fail"
    BY <1>9 DEF Commit, Finalize, Reached, Seal, SealRaises, LeaveEnvelope, Raise
  <2> QED
    BY <2>1 DEF ExposedInv
<1>10. CASE Checkpoint \/ UNCHANGED vars
  <2>1. UNCHANGED <<exposed, runs, epoch, pc, failure, txns>>
    BY <1>10 DEF Checkpoint, vars
  <2> QED
    BY <1>3, <2>1
<1> QED
  BY <1>1, <1>2, <1>4, <1>5, <1>6, <1>7, <1>8, <1>9, <1>10 DEF Next, Step

--------------------------------------------------------------------------------
(* Reports and their release owners.                                        *)

\* The report that a seal appends for each transaction, and its owner.
LEMMA SealedFacts ==
    ASSUME TypeOK, ShapeInv
    PROVE  /\ reports \o NewReports \in Seq(Sample)
           /\ \A i \in DOMAIN reports : /\ i \in DOMAIN (reports \o NewReports)
                                        /\ (reports \o NewReports)[i] = reports[i]
           /\ \A p \in Owners(reports) :
                 /\ p \in [index : Nat, txn : Sample]
                 /\ p.index \in DOMAIN (reports \o NewReports)
                 /\ (reports \o NewReports)[p.index] = p.txn
<1>1. /\ DOMAIN txns = 1 .. Len(txns) /\ Len(txns) \in Nat
      /\ \A j \in DOMAIN txns : Head(txns[j].effects) \in Sample
  BY TransactionFacts
<1> DEFINE n == Len(txns)
           new == NewReports
           m == Len(reports)
           all == reports \o new
<1>2. n \in Nat /\ new \in [1 .. n -> Sample]
      /\ \A j \in 1 .. n : new[j] = Head(txns[j].effects)
  BY <1>1 DEF NewReports
<1>3. DOMAIN txns = 1 .. n
  BY <1>1
<1> HIDE DEF n, new
<1>4. new \in Seq(Sample) /\ Len(new) = n
  BY <1>2, FunctionIsSeq
<1>5. reports \in Seq(Sample) /\ m \in Nat /\ DOMAIN reports = 1 .. m
  BY LenProperties DEF TypeOK
<1>6. /\ all \in Seq(Sample) /\ Len(all) = m + n
      /\ \A i \in 1 .. m + n : all[i] = IF i <= m THEN reports[i] ELSE new[i - m]
  BY <1>2, <1>4, <1>5, ConcatProperties
<1>7. DOMAIN all = 1 .. m + n
  BY <1>6, LenProperties
<1> HIDE DEF m
<1>8. \A i \in DOMAIN reports : i \in DOMAIN all /\ all[i] = reports[i]
  BY <1>2, <1>5, <1>6, <1>7
<1>9. ASSUME NEW p \in Owners(reports)
      PROVE  /\ p \in [index : Nat, txn : Sample]
             /\ p.index \in DOMAIN all /\ all[p.index] = p.txn
  <2>1. PICK j \in 1 .. n : p = [index |-> m + j, txn |-> Head(txns[j].effects)]
    BY <1>3 DEF Owners, m
  <2>2. m + j \in 1 .. m + n /\ ~(m + j <= m) /\ (m + j) - m = j
    BY <1>2, <1>5
  <2>3. all[m + j] = new[j]
    BY <1>6, <2>2
  <2> HIDE DEF all
  <2> QED
    BY <1>1, <1>2, <1>3, <1>5, <1>7, <2>1, <2>2, <2>3
<1> QED
  BY <1>6, <1>8, <1>9 DEF new

LEMMA ReportsStep ==
    ASSUME TypeOK, ShapeInv, BooksInv, OwnersKeepTheirReport, [Next]_vars
    PROVE  /\ reports' \in Seq(Sample)
           /\ pending' \subseteq [index : Nat, txn : Sample]
           /\ cursors' \in CursorSets
           /\ OwnersKeepTheirReport'
<1> USE DEF python, history, files, bounds
<1>0. /\ reports \in Seq(Sample) /\ pending \subseteq [index : Nat, txn : Sample]
      /\ cursors \in CursorSets
      /\ \A p \in pending : p.index \in DOMAIN reports /\ reports[p.index] = p.txn
  BY DEF TypeOK, OwnersKeepTheirReport
<1>1. CASE Seal \/ SealRaises
  <2>1. /\ reports' = reports \o NewReports
        /\ \A p \in pending' : p \in pending \/ p \in Owners(reports)
        /\ cursors' = AcceptedCursors /\ pc = "seal"
    <3>1. CASE Seal
      BY <3>1 DEF Seal
    <3>2. CASE SealRaises
      <4>1. /\ reports' = snapshot.reports \o NewReports
            /\ \E owners \in SUBSET Owners(reports) : pending' = pending \cup owners
            /\ cursors' = AcceptedCursors /\ pc = "seal" /\ ~moment.start
        BY <3>2 DEF SealRaises
      <4>2. snapshot.reports = reports
        BY <4>1 DEF ShapeInv
      <4> QED
        BY <4>1, <4>2
    <3> QED
      BY <1>1, <3>1, <3>2
  <2>2. AcceptedCursors \in CursorSets
    BY <2>1 DEF BooksInv, Books, CursorsCount
  <2>3. ASSUME NEW p \in pending'
        PROVE  /\ p \in [index : Nat, txn : Sample]
               /\ p.index \in DOMAIN (reports \o NewReports)
               /\ (reports \o NewReports)[p.index] = p.txn
    <3>1. CASE p \in pending
      BY <1>0, <3>1, SealedFacts
    <3>2. CASE p \in Owners(reports)
      BY <3>2, SealedFacts
    <3> QED
      BY <2>1, <3>1, <3>2
  <2> QED
    BY <2>1, <2>2, <2>3, SealedFacts DEF OwnersKeepTheirReport
<1>2. CASE AttemptRetried \/ AttemptRaises
  <2>1. /\ pc = "abort" /\ ~moment.start
        /\ cursors' = snapshot.cursors /\ reports' = snapshot.reports
        /\ UNCHANGED pending
    BY <1>2 DEF AttemptRetried, AttemptRaises, UndoAttempt
  <2>2. snapshot.cursors = cursors /\ snapshot.reports = reports
    BY <2>1 DEF ShapeInv, Attempting
  <2> QED
    BY <1>0, <2>1, <2>2 DEF OwnersKeepTheirReport
<1>3. CASE Restart
  <2>1. PICK v \in vault : cursors' = v.cursors /\ UNCHANGED <<reports, pending>>
    BY <1>3 DEF Restart, RestoredCursors
  <2>2. v.cursors \in CursorSets
    BY DEF TypeOK
  <2> QED
    BY <1>0, <2>1, <2>2 DEF OwnersKeepTheirReport
<1>4. CASE Crash
  <2>1. FreshCursors \in CursorSets
    BY DEF FreshCursors, NewCursor, NoOccurrence, CursorSets
  <2> QED
    BY <1>4, <2>1 DEF Crash, OwnersKeepTheirReport
<1>5. CASE Begin \/ Checkpoint \/ \E end \in RunEnds : Run(end)
  <2>1. UNCHANGED <<cursors, reports>> /\ pending' \subseteq pending
    BY <1>5 DEF Begin, Checkpoint, Run, RetryFinalizers
  <2> QED
    BY <1>0, <2>1 DEF OwnersKeepTheirReport
<1>6. CASE \/ UNCHANGED vars \/ PrepareAttempts \/ RunReturns \/ MaxStepsExhausted
           \/ SolveAccepted \/ SolveRejected \/ SolveFails \/ StageAtStart
           \/ StageStep \/ Commit \/ AcceptOne \/ Finalize \/ AbortOne \/ StartRaises
  <2>1. UNCHANGED <<cursors, reports, pending>>
    BY <1>6 DEF vars, PrepareAttempts, RunReturns, MaxStepsExhausted, SolveAccepted,
       SolveRejected, SolveFails, StageAtStart, StageStep, Commit, AcceptOne,
       Finalize, AbortOne, StartRaises
  <2> QED
    BY <1>0, <2>1 DEF OwnersKeepTheirReport
<1> QED
  BY <1>1, <1>2, <1>3, <1>4, <1>5, <1>6 DEF Next, Step

LEMMA FilesType ==
    ASSUME TypeOK, ShapeInv, StatusInv, [Next]_vars
    PROVE  disk' \subseteq Sample /\ exposed' \subseteq Sample
<1>0. disk \subseteq Sample /\ exposed \subseteq Sample
  BY DEF TypeOK
<1>1. CASE AcceptOne
  <2>1. PICK j \in DOMAIN txns :
           /\ \E s \in SUBSET Samples(txns[j]) : disk' = disk \cup s
           /\ \E s \in SUBSET Samples(txns[j]) :
                 exposed' = exposed \/ exposed' = exposed \cup s
    BY <1>1, AcceptOutcomes
  <2>2. Samples(txns[j]) \subseteq Sample
    BY TransactionFacts
  <2> QED
    BY <1>0, <2>1, <2>2
<1>2. CASE AbortOne
  <2>1. PICK j \in DOMAIN txns : \E there \in SUBSET txns[j].shown :
           disk' = disk \ (txns[j].shown \ there) /\ exposed' = exposed \cup there
    BY <1>2, AbortOutcomes
  <2>2. txns[j].shown \subseteq Sample
    BY TransactionFacts
  <2> QED
    BY <1>0, <2>1, <2>2
<1>3. CASE Checkpoint \/ UNCHANGED <<disk, exposed, vault>>
  <2>1. UNCHANGED <<disk, exposed>>
    BY <1>3 DEF Checkpoint
  <2> QED
    BY <1>0, <2>1
<1> QED
  BY <1>1, <1>2, <1>3, FilesFrame

LEMMA TypeStep ==
    ASSUME IndInv, [Next]_vars
    PROVE  TypeOK'
<1> USE DEF IndInv
<1>0. AttemptInv
  BY DEF AttemptInv
<1>1. /\ pc' \in {"idle", "start", "loop", "begin", "solve", "stage", "commit",
                  "accept", "seal", "abort"}
      /\ failure' \in {"none", "reject", "fail"}
  BY ControlType
<1>2. /\ native' \in [step : Nat, time : Nat, tx : {"none", "active", "committed"}]
      /\ image' \in [step : Nat, time : Nat]
  BY EngineType
<1>3. /\ temporal' \in Authority /\ nextDt' \in Nat \ {0}
      /\ sequence' \in [dt : 0 .. DtMax, attempts : 0 .. MaxRejections + 1]
      /\ pc' \in {"begin", "solve"} => sequence'.dt \in 1 .. DtMax
  BY AuthorityType
<1>4. /\ reports' \in Seq(Sample) /\ pending' \subseteq [index : Nat, txn : Sample]
      /\ cursors' \in CursorSets
  BY ReportsStep
<1>5. \A j \in DOMAIN txns' : txns'[j].effects \in Seq(Sample) \ {<<>>}
  <2>1. txns' \in Seq(Transactions)
    BY TransactionsStep
  <2>2. \A j \in DOMAIN txns' : txns'[j] \in Transactions
    BY <2>1, ElementOfSeq
  <2> QED
    BY <2>2 DEF Transactions
<1>6. disk' \subseteq Sample /\ exposed' \subseteq Sample
  BY FilesType
<1>7. \A v \in vault' : v.cursors \in CursorSets /\ v.temporal \in Authority
  <2>1. VaultInv'
    BY <1>0, VaultStep
  <2> QED
    BY <2>1 DEF VaultInv, Books, CursorsCount, CursorSets, Authority, Consumers
<1> QED
  BY <1>1, <1>2, <1>3, <1>4, <1>5, <1>6, <1>7
  DEF TypeOK, Authority, CursorSets, Sample, Consumers

--------------------------------------------------------------------------------
(* The theorems.                                                            *)

LEMMA InitHolds ==
    ASSUME Init
    PROVE  IndInv
<1>0. /\ pc = "idle" /\ failure = "none"
      /\ native = [step |-> 0, time |-> 0, tx |-> "none"] /\ image = NoImage
      /\ temporal = NoRun.entry /\ nextDt = DtInit
      /\ sequence = NoSequence /\ run = NoRun /\ cursors = FreshCursors
      /\ reports = <<>> /\ pending = {} /\ txns = <<>> /\ moment = NoMoment
      /\ disk = {} /\ exposed = {} /\ vault = {}
      /\ moments = {} /\ lineage = {} /\ skipped = {}
      /\ faults = 0 /\ runs = 0 /\ epoch = 0
  BY DEF Init
<1>1. /\ NoRun.entry \in Authority /\ FreshCursors \in CursorSets
      /\ NoSequence \in [dt : 0 .. DtMax, attempts : 0 .. MaxRejections + 1]
      /\ NoMoment \in Moments /\ ~NoMoment.start
  BY ConstantFacts DEF NoRun, Authority, FreshCursors, NewCursor, NoOccurrence,
     CursorSets, NoSequence, NoMoment, Moments
<1>2. ~Attempting /\ Base = NoRun.entry
  BY <1>0 DEF Attempting, Base
<1>3. TypeOK
  BY <1>0, <1>1, ConstantFacts DEF TypeOK, NoImage
<1>4. ShapeInv
  <2>1. NoRun \in [end : Nat, steps : Nat, rejected : Int, counts : Nat,
                   entry : Authority, dt : Nat]
    BY <1>1 DEF NoRun
  <2> QED
    BY <1>0, <1>1, <1>2, <2>1 DEF ShapeInv
<1>5. ControlInv /\ EntryInv /\ BoundaryInv
  BY <1>0, <1>1, <1>2 DEF ControlInv, EntryInv, BoundaryInv, Attempting
<1>6. PositionInv
  BY <1>0, <1>2 DEF PositionInv, NoRun, Position, Clock
<1>7. StatusInv /\ EffectInv /\ CaptureInv
  BY <1>0 DEF StatusInv, EffectInv, CaptureInv, Planning
<1>8. BooksInv
  <2>1. NoRun.entry.step = 0 /\ NoRun.entry.time = 0
    BY DEF NoRun
  <2> QED
    BY <1>0, <1>1, <1>2, <2>1, EmptyBooks DEF BooksInv
<1>9. VaultInv /\ DiskInv /\ ExposedInv /\ OwnersKeepTheirReport
  BY <1>0 DEF VaultInv, DiskInv, ExposedInv, Backed, OwnersKeepTheirReport, Shown
<1> QED
  BY <1>3, <1>4, <1>5, <1>6, <1>7, <1>8, <1>9 DEF IndInv

LEMMA StepHolds ==
    ASSUME IndInv, [Next]_vars
    PROVE  IndInv'
<1>1. /\ TypeOK /\ ShapeInv /\ ControlInv /\ PositionInv /\ EntryInv /\ BoundaryInv
      /\ StatusInv /\ EffectInv /\ CaptureInv /\ BooksInv /\ VaultInv /\ DiskInv
      /\ ExposedInv /\ OwnersKeepTheirReport /\ AttemptInv
  BY DEF IndInv, AttemptInv
<1>2. TypeOK'
  BY TypeStep
<1>3. ShapeInv'
  BY <1>1, ShapeStep
<1>4. ControlInv' /\ PositionInv' /\ EntryInv' /\ BoundaryInv'
  BY <1>1, AttemptStep DEF AttemptInv
<1>5. StatusInv'
  BY <1>1, StatusStep
<1>6. EffectInv'
  BY <1>1, EffectStep
<1>7. CaptureInv'
  BY <1>1, CaptureStep
<1>8. BooksInv'
  BY <1>1, BooksStep
<1>9. VaultInv'
  BY <1>1, VaultStep
<1>10. DiskInv'
  BY <1>1, DiskStep
<1>11. ExposedInv'
  BY <1>1, ExposedStep
<1>12. OwnersKeepTheirReport'
  BY <1>1, ReportsStep
<1> QED
  BY <1>2, <1>3, <1>4, <1>5, <1>6, <1>7, <1>8, <1>9, <1>10, <1>11, <1>12
  DEF IndInv

\* The strengthened invariant holds in every state.
THEOREM Invariance == Spec => []IndInv
<1>1. Init => IndInv
  BY InitHolds
<1>2. IndInv /\ [Next]_vars => IndInv'
  BY StepHolds
<1> QED
  BY <1>1, <1>2, PTL DEF Spec

(***************************************************************************)
(* The counters and phases of the envelope keep their types: no retry,     *)
(* rollback or restart leaves a negative count or a step size outside the  *)
(* controller's range (RunController, ErrorControlledDt).                  *)
(***************************************************************************)
THEOREM TypeCorrect == Spec => []TypeOK
<1>1. IndInv => TypeOK
  BY DEF IndInv
<1> QED
  BY <1>1, Invariance, PTL

(***************************************************************************)
(* Whenever no attempt is open, no native transaction is, and the engine   *)
(* and the Python authority stand at the same clock                        *)
(* (rollback_step_transaction with _restore_step_envelope).                *)
(***************************************************************************)
THEOREM EngineFollowsEnvelope == Spec => []EngineAndEnvelopeAgree
<1>1. ASSUME IndInv PROVE EngineAndEnvelopeAgree
  <2>1. SUFFICES ASSUME pc \in {"idle", "start", "loop", "begin"}
                 PROVE  /\ native.tx = "none"
                        /\ Position(native) = [step |-> temporal.step,
                                               time |-> temporal.time]
                        /\ temporal.accepted = native.step
    BY DEF EngineAndEnvelopeAgree
  <2>2. AttemptInv /\ ~Attempting
    BY <1>1, <2>1 DEF IndInv, AttemptInv, Attempting
  <2>3. /\ native.tx = "none" /\ temporal.accepted = temporal.step
        /\ native.step = temporal.step /\ native.time = temporal.time
    BY <2>2, AtRest
  <2> QED
    BY <2>3 DEF Position
<1> QED
  BY <1>1, Invariance, PTL

(***************************************************************************)
(* A release owner stays under the report of its own transaction, although *)
(* failed attempts replace the report tuple (_seal_consumer_reports,       *)
(* _retry_consumer_finalizers).                                            *)
(***************************************************************************)
THEOREM OwnersStayAttached == Spec => []OwnersKeepTheirReport
<1>1. IndInv => OwnersKeepTheirReport
  BY DEF IndInv
<1> QED
  BY <1>1, Invariance, PTL

(***************************************************************************)
(* A sample this process made visible is accepted, owned by an open        *)
(* transaction, or one whose removal was tried and failed, and then the    *)
(* run that published it is over or about to raise (_abort_consumers).     *)
(***************************************************************************)
THEOREM NothingVisibleEscapes == Spec => []VisibleIsAccounted
<1>1. ASSUME IndInv PROVE VisibleIsAccounted
  <2>1. SUFFICES ASSUME NEW a \in disk, a.epoch = epoch, a \notin lineage \cup Shown
                 PROVE  a \in exposed /\ (a.run = runs => pc \in {"abort", "idle"})
    BY DEF VisibleIsAccounted
  <2>2. a \in exposed
    BY <1>1, <2>1 DEF IndInv, DiskInv
  <2> QED
    BY <1>1, <2>1, <2>2 DEF IndInv, ExposedInv
<1> QED
  BY <1>1, Invariance, PTL

(***************************************************************************)
(* No run steps over a lattice point of an EveryDt consumer                *)
(* (next_consumer_deadline and the step_end of _run).                      *)
(***************************************************************************)
THEOREM LatticeIsHit == Spec => []NoLatticePointSkipped
<1>1. ASSUME IndInv PROVE NoLatticePointSkipped
  <2>1. PICK t \in Authority : ClockCovers(t, moments)
    BY <1>1 DEF IndInv, BooksInv, Books
  <2>2. SUFFICES ASSUME NEW m \in moments, NEW c \in Consumers, NEW u \in 1 .. m.time,
                        Topology[c].trigger = "every_dt", OnLattice(c, u)
                 PROVE  \E reached \in moments : reached.time = u /\ ~reached.start
    BY DEF NoLatticePointSkipped
  <2>3. m \in Moments /\ m.time <= t.time
    BY <2>1 DEF ClockCovers
  <2>4. u \in 1 .. t.time
    BY <2>1, <2>2, <2>3 DEF Moments, Authority
  <2> QED
    BY <2>1, <2>2, <2>4 DEF ClockCovers
<1> QED
  BY <1>1, Invariance, PTL

\* Occurrences of one consumer are as many as its samples.
LEMMA OccurrencesAreSamples ==
    ASSUME NEW ln, NEW c, IsFiniteSet(OfConsumer(ln, c)),
           \A a, b \in OfConsumer(ln, c) : a.occ = b.occ => a = b
    PROVE  Cardinality(Occurrences(ln, c)) = Cardinality(OfConsumer(ln, c))
<1> DEFINE S == OfConsumer(ln, c)
           T == Occurrences(ln, c)
           f == [a \in S |-> a.occ]
<1>1. f \in Bijection(S, T)
  <2>1. f \in [S -> T]
    BY DEF Occurrences
  <2>2. \A a, b \in S : f[a] = f[b] => a = b
    OBVIOUS
  <2>3. \A o \in T : \E a \in S : f[a] = o
    BY DEF Occurrences
  <2> HIDE DEF S, T, f
  <2> QED
    BY <2>1, <2>2, <2>3 DEF Bijection, Injection, Surjection, IsInjective
<1> HIDE DEF f, S, T
<1>2. IsFiniteSet(S)
  BY DEF S
<1>3. ExistsBijection(S, T)
  BY <1>1 DEF ExistsBijection
<1>4. Cardinality(T) = Cardinality(S)
  BY <1>2, <1>3, FS_Bijection
<1> QED
  BY <1>4 DEF S, T

(***************************************************************************)
(* On every lineage the samples of a consumer are those of the moments at  *)
(* which it was due, less the ones its policy skipped, each of them once,  *)
(* and the cursor counts them: across failed attempts, failed runs,        *)
(* repeated runs and restarts (plan_accepted_side_effects,                 *)
(* _restore_step_envelope, _restore_checkpoint).                           *)
(***************************************************************************)
THEOREM PublishedOnce == Spec => []PublishedExactlyOnce
<1>1. ASSUME IndInv PROVE PublishedExactlyOnce
  <2>1. SUFFICES ASSUME pc # "seal", NEW c \in Consumers
                 PROVE  /\ Occurrences(lineage, c) \subseteq DueOn(moments, c)
                        /\ DueOn(moments, c) \ Occurrences(skipped, c)
                                \subseteq Occurrences(lineage, c)
                        /\ cursors[c].n = Cardinality(OfConsumer(lineage, c))
                        /\ cursors[c].n = Cardinality(Occurrences(lineage, c))
    BY DEF PublishedExactlyOnce
  <2>2. /\ SamplesAreDue(moments, lineage) /\ DueIsKnown(moments, lineage, skipped)
        /\ CursorsCount(cursors, lineage)
    BY <1>1, <2>1 DEF IndInv, BooksInv, Books
  <2>3. Occurrences(lineage, c) \subseteq DueOn(moments, c)
    BY <2>2 DEF SamplesAreDue, Occurrences, OfConsumer, DueOn
  <2>4. DueOn(moments, c) \ Occurrences(skipped, c) \subseteq Occurrences(lineage, c)
    BY <2>2 DEF DueIsKnown, DueOn
  <2>5. cursors[c].n = Cardinality(OfConsumer(lineage, c))
    BY <2>2 DEF CursorsCount
  <2>6. Cardinality(Occurrences(lineage, c)) = Cardinality(OfConsumer(lineage, c))
    BY <2>2, OccurrencesAreSamples DEF CursorsCount
  <2> QED
    BY <2>3, <2>4, <2>5, <2>6
<1> QED
  BY <1>1, Invariance, PTL

(***************************************************************************)
(* From the moment it is visible, so also after a crash before its step is *)
(* final, a checkpoint counts only samples on disk, its cursors count      *)
(* exactly those, and it stands at the last moment of its lineage (the     *)
(* cursor override and the two refusals of _stage_consumers).  The first   *)
(* of the three is lost only with a checkpoint that a failed cleanup left  *)
(* visible, or one that was run from such a checkpoint.                    *)
(***************************************************************************)
THEOREM CheckpointsAreTrue == Spec => []CheckpointTellsTheTruth
<1>1. ASSUME IndInv PROVE CheckpointTellsTheTruth
  <2>1. SUFFICES ASSUME NEW v \in vault
                 PROVE  /\ v.lineage \subseteq disk \/ Leftover(v.lineage)
                        /\ \A c \in Consumers : v.cursors[c].n
                              = Cardinality(OfConsumer(v.lineage, c))
                        /\ v.temporal.step = Max({0} \cup {m.step : m \in v.moments})
    BY DEF CheckpointTellsTheTruth
  <2>2. /\ v.lineage \subseteq disk \/ Leftover(v.lineage)
        /\ v.temporal \in Authority
        /\ ClockCovers(v.temporal, v.moments) /\ CursorsCount(v.cursors, v.lineage)
    BY <1>1 DEF IndInv, VaultInv, Books, Backed, Leftover
  <2> DEFINE S == {0} \cup {m.step : m \in v.moments}
             t == v.temporal.step
  <2>3. t \in Nat /\ S \in SUBSET Nat /\ S # {}
    BY <2>2 DEF ClockCovers, Moments, Authority
  <2>4. (\A x \in S : x <= t) /\ t \in S
    BY <2>2, <2>3 DEF ClockCovers
  <2> HIDE DEF S, t
  <2>5. Max(S) \in S /\ \A y \in S : Max(S) >= y
    BY <2>3, <2>4, MaxFacts
  <2> DEFINE top == Max(S)
  <2>6. top \in S /\ top >= t /\ top <= t /\ top \in Nat
    BY <2>3, <2>4, <2>5
  <2> HIDE DEF top
  <2>7. top = t
    BY <2>3, <2>6
  <2> QED
    BY <2>2, <2>7 DEF CursorsCount, S, t, top
<1> QED
  BY <1>1, Invariance, PTL
================================================================================
