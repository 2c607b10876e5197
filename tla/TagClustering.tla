----------------------------- MODULE TagClustering -----------------------------
(***************************************************************************)
(* Berger-Rigoutsos clustering of tagged cells into boxes, one call of     *)
(* cluster_rec_ per step (include/pops/amr/tagging/berger_rigoutsos.hpp;   *)
(* the final chop is include/pops/mesh/layout/box_array.hpp).              *)
(*                                                                         *)
(* The recursion is depth first, so the calls still to be made are a       *)
(* stack.  Cells and boxes are indexed by axis.  The efficiency threshold  *)
(* is the fraction Efficiency[1] / Efficiency[2], compared exactly.        *)
(***************************************************************************)
EXTENDS Integers, Sequences, FiniteSets, FiniteSetsExt

CONSTANTS
    Dim,
    Coordinates,        \* the cell coordinates of the level, along any axis
    Patches,            \* the patches of the level, in their global order
    MinBox, MaxBox,     \* axis -> options.min_box_size, options.max_box_size
    Efficiency,
    NodeBudget, CellBudget, OutputBudget,
    MaxTags             \* bound: tagged cells

Axes == 1..Dim

ASSUME ClusterAssumption ==
    /\ Dim \in 1..3
    /\ MinBox \in [Axes -> Nat \ {0}] /\ MaxBox \in [Axes -> Nat \ {0}]
    /\ \A a \in Axes : MinBox[a] <= MaxBox[a]
    /\ Efficiency[1] \in Nat \ {0} /\ Efficiency[2] \in Nat /\ Efficiency[1] <= Efficiency[2]
    /\ NodeBudget \in Nat \ {0} /\ CellBudget \in Nat \ {0} /\ OutputBudget \in Nat \ {0}
    /\ MaxTags \in Nat

VARIABLES
    tags,       \* the tagged cells of the level
    todo,       \* calls of cluster_rec_ still to be made, the next one first
    raw,        \* accepted regions
    boxes,      \* the result: pieces of the accepted regions
    work,       \* counters of the work budget
    status      \* "cluster", "chop", "done", "budget", "logic error"

vars == <<tags, todo, raw, boxes, work, status>>

Length(box, a) == box.hi[a] - box.lo[a] + 1
Cells(box) == {c \in [Axes -> Coordinates] : \A a \in Axes : c[a] \in box.lo[a]..box.hi[a]}
NumPts(box) == Cardinality(Cells(box))

-----------------------------------------------------------------------------
(* One call of cluster_rec_ on a candidate, given the tagged cells in it.   *)

Bounds(tagged) ==
    [lo |-> [a \in Axes |-> Min({c[a] : c \in tagged})],
     hi |-> [a \in Axes |-> Max({c[a] : c \in tagged})]]

Splittable(region, least) == {a \in Axes : Length(region, a) >= 2 * least[a]}

Efficient(tagged, region) ==
    Cardinality(tagged) * Efficiency[2] >= Efficiency[1] * NumPts(region)

\* Tags per slice; slice 0 is the first one of the region.
Signatures(tagged, region) ==
    [a \in Axes |-> [k \in 0..(Length(region, a) - 1) |->
        Cardinality({c \in tagged : c[a] = region.lo[a] + k})]]

Abs(n) == IF n < 0 THEN -n ELSE n

\* Empty slices at which to cut: the most central one, the lower of two.
Holes(sig, length, least) == {k \in least..(length - least) : sig[k] = 0}
BestHole(holes, length) ==
    CHOOSE k \in holes : \A j \in holes :
        LET near(i) == Abs(i - length \div 2)
        IN  near(k) < near(j) \/ (near(k) = near(j) /\ k <= j)

Laplacian(sig, length, k) ==
    IF k \in 1..(length - 2) THEN sig[k + 1] - 2 * sig[k] + sig[k - 1] ELSE 0
Inflection(sig, length, k) ==
    Abs(Laplacian(sig, length, k) - Laplacian(sig, length, k - 1))

\* The first of the cuts at which the signature bends most, if it bends.
Bends(sig, length, least) ==
    {k \in Max({least, 2})..Min({length - least, length - 2}) :
        Inflection(sig, length, k) > 0}
BestInflection(sig, bends, length) ==
    CHOOSE k \in bends : \A j \in bends :
        LET bend(i) == Inflection(sig, length, i)
        IN  bend(k) > bend(j) \/ (bend(k) = bend(j) /\ k <= j)

\* Mutant: only the first of the longest axes is cut.
LongestFirst(cuts) ==
    {c \in cuts : \A d \in cuts :
        d.length < c.length \/ (d.length = c.length /\ c.axis <= d.axis)}

\* Each selection keeps every axis that ties, as records of axis and offset.
Longest(cuts) == {c \in cuts : \A d \in cuts : d.length <= c.length}
Strongest(cuts) ==
    {c \in cuts : \A d \in cuts :
        d.score < c.score \/ (d.score = c.score /\ d.length <= c.length)}

Cut(region, a, k, score) ==
    [axis |-> a, offset |-> k, length |-> Length(region, a), score |-> score]

\* sigs is the signature of each axis.
HoleCuts(sigs, region, least) ==
    LET holes == [a \in Axes |-> Holes(sigs[a], Length(region, a), least[a])]
    IN  {Cut(region, a, BestHole(holes[a], Length(region, a)), 0) :
            a \in {b \in Splittable(region, least) : holes[b] # {}}}

InflectionCuts(sigs, region, least) ==
    LET bends == [a \in Axes |-> Bends(sigs[a], Length(region, a), least[a])]
        best == [a \in Axes |-> BestInflection(sigs[a], bends[a], Length(region, a))]
    IN  {Cut(region, a, best[a], Inflection(sigs[a], Length(region, a), best[a])) :
            a \in {b \in Splittable(region, least) : bends[b] # {}}}

MiddleCuts(region, least) ==
    {Cut(region, a, Length(region, a) \div 2, 0) : a \in Splittable(region, least)}

Cuts(sigs, region, least) ==
    LET holes == HoleCuts(sigs, region, least)
        bends == InflectionCuts(sigs, region, least)
    IN  IF holes # {} THEN Longest(holes)
        ELSE IF bends # {} THEN Strongest(bends)
        ELSE Longest(MiddleCuts(region, least))

StrictCut(region, cut) == cut.offset > 0 /\ cut.offset < Length(region, cut.axis)

ChildSkips(region, cuts, right) ==
    [lo |-> [a \in Axes |-> region.lo[a] +
                IF a \in right THEN (CHOOSE c \in cuts : c.axis = a).offset + 1 ELSE 0],
     hi |-> [a \in Axes |->
                IF a \in {c.axis : c \in cuts} \ right
                THEN region.lo[a] + (CHOOSE c \in cuts : c.axis = a).offset - 1
                ELSE region.hi[a]]]

\* One child for each choice of a side of every cut.
Child(region, cuts, right) ==
    LET offset(a) == (CHOOSE c \in cuts : c.axis = a).offset
        cut == {c.axis : c \in cuts}
    IN  [lo |-> [a \in Axes |->
                    IF a \in cut /\ a \in right THEN region.lo[a] + offset(a) ELSE region.lo[a]],
         hi |-> [a \in Axes |->
                    IF a \in cut /\ a \notin right THEN region.lo[a] + offset(a) - 1
                    ELSE region.hi[a]]]
Children(region, cuts) ==
    {Child(region, cuts, right) : right \in SUBSET {c.axis : c \in cuts}}

\* The order in which they are pushed: the first cut alternates fastest.
ChildCalls(region, cuts) ==
    LET axes == {c.axis : c \in cuts}
        right(n) == {a \in axes : (n \div 2^Cardinality({b \in axes : b < a})) % 2 = 1}
    IN  [n \in 1..2^Cardinality(axes) |-> Child(region, cuts, right(n - 1))]

-----------------------------------------------------------------------------
(* BoxArray::from_domain: even tiles no larger than the limit.              *)

Segments(length, limit) == 1 + (length - 1) \div limit

\* Mutant: the remainder is dropped.
SegmentEven(box, a, n) ==
    LET base == Length(box, a) \div Segments(Length(box, a), MaxBox[a])
    IN  [lo |-> box.lo[a] + n * base, hi |-> box.lo[a] + (n + 1) * base - 1]

Segment(box, a, n) ==
    LET parts == Segments(Length(box, a), MaxBox[a])
        base == Length(box, a) \div parts
        extra == Length(box, a) % parts
        offset == n * base + Min({n, extra})
        width == base + (IF n < extra THEN 1 ELSE 0)
    IN  [lo |-> box.lo[a] + offset, hi |-> box.lo[a] + offset + width - 1]

Tiles(box) ==
    {t \in [Axes -> 0..(Max({Segments(Length(box, a), MaxBox[a]) : a \in Axes}) - 1)] :
        \A a \in Axes : t[a] < Segments(Length(box, a), MaxBox[a])}

FromDomain(box) ==
    {[lo |-> [a \in Axes |-> Segment(box, a, t[a]).lo],
      hi |-> [a \in Axes |-> Segment(box, a, t[a]).hi]] : t \in Tiles(box)}

-----------------------------------------------------------------------------
(* The call of cluster().                                                   *)

Elements(seq) == {seq[i] : i \in 1..Len(seq)}
LevelCells == UNION {Cells(p) : p \in Elements(Patches)}

Init ==
    /\ tags \in SUBSET LevelCells
    /\ Cardinality(tags) <= MaxTags
    /\ todo = Patches
    /\ raw = <<>> /\ boxes = {}
    /\ work = [nodes |-> 0, cells |-> 0, outputs |-> 0]
    /\ status = "cluster"

Candidate == Head(todo)
Tagged == tags \cap Cells(Candidate)
Accepts(tagged, region) ==
    Efficient(tagged, region) \/ Splittable(region, MinBox) = {}

\* The scan's result: the tagged cells of the candidate and their bounds.
Scans == {<<tagged, Bounds(tagged)>> : tagged \in {Tagged} \ {{}}}

Calling == status = "cluster" /\ todo # <<>>
Scanned == work.cells + NumPts(Candidate)
ScanFits == work.nodes < NodeBudget /\ Scanned <= CellBudget
Counted(cells) == work' = [work EXCEPT !.nodes = @ + 1, !.cells = cells]

VisitEmpty ==
    /\ Calling /\ ScanFits /\ Tagged = {}
    /\ Counted(Scanned)
    /\ todo' = Tail(todo)
    /\ UNCHANGED <<tags, raw, boxes, status>>

Accept(tagged, region) ==
    /\ Accepts(tagged, region)
    /\ Len(raw) < OutputBudget
    /\ Counted(Scanned)
    /\ raw' = Append(raw, region)
    /\ todo' = Tail(todo)
    /\ UNCHANGED <<tags, boxes, status>>

Split(tagged, region) ==
    /\ ~Accepts(tagged, region)
    /\ Scanned + NumPts(region) <= CellBudget
    /\ Counted(Scanned + NumPts(region))
    /\ \E sigs \in {Signatures(tagged, region)} : \E cuts \in {Cuts(sigs, region, MinBox)} :
          IF cuts # {} /\ \A cut \in cuts : StrictCut(region, cut)
          THEN /\ todo' = ChildCalls(region, cuts) \o Tail(todo)
               /\ UNCHANGED status
          ELSE /\ status' = "logic error"
               /\ UNCHANGED todo
    /\ UNCHANGED <<tags, raw, boxes>>

\* A budget is exhausted: length_error, and no result.
GiveUp ==
    /\ Calling
    /\ \/ ~ScanFits
       \/ \E scan \in Scans :
             IF Accepts(scan[1], scan[2])
             THEN Len(raw) = OutputBudget
             ELSE Scanned + NumPts(scan[2]) > CellBudget
    /\ status' = "budget"
    /\ UNCHANGED <<tags, todo, raw, boxes, work>>

Visit ==
    /\ Calling /\ ScanFits
    /\ \E scan \in Scans : Accept(scan[1], scan[2]) \/ Split(scan[1], scan[2])

Clustered ==
    /\ status = "cluster" /\ todo = <<>>
    /\ status' = "chop"
    /\ UNCHANGED <<tags, todo, raw, boxes, work>>

\* chopped_count_, the output budget, and the pieces of the next region.
ChopNext ==
    /\ status = "chop" /\ raw # <<>>
    /\ LET pieces == FromDomain(Head(raw))
           outputs == work.outputs + Cardinality(pieces)
       IN  IF outputs > OutputBudget
           THEN /\ status' = "budget"
                /\ UNCHANGED <<raw, boxes, work>>
           ELSE /\ boxes' = boxes \cup pieces
                /\ raw' = Tail(raw)
                /\ work' = [work EXCEPT !.outputs = outputs]
                /\ UNCHANGED status
    /\ UNCHANGED <<tags, todo>>

Return ==
    /\ status = "chop" /\ raw = <<>>
    /\ status' = "done"
    /\ UNCHANGED <<tags, todo, raw, boxes, work>>

Next == VisitEmpty \/ Visit \/ GiveUp \/ Clustered \/ ChopNext \/ Return

Spec == Init /\ [][Next]_vars

-----------------------------------------------------------------------------
IsBox(box) ==
    /\ box.lo \in [Axes -> Int] /\ box.hi \in [Axes -> Int]
    /\ \A a \in Axes : box.lo[a] <= box.hi[a]

\* The counters stay within their budgets and every box has cells.
TypeOK ==
    /\ \A i \in 1..Len(todo) : IsBox(todo[i])
    /\ \A i \in 1..Len(raw) : IsBox(raw[i])
    /\ \A b \in boxes : IsBox(b)
    /\ work.nodes \in 0..NodeBudget /\ work.cells \in 0..CellBudget
    /\ work.outputs \in 0..OutputBudget
    /\ status \in {"cluster", "chop", "done", "budget", "logic error"}

\* What a call of cluster() is responsible for: the boxes it still has to
\* look at, the regions it accepted and the pieces it cut.
Holding == Elements(todo) \cup Elements(raw) \cup boxes

\* No tagged cell is lost and no cell is covered twice: at every moment each
\* tag lies in one box that is pending, accepted or chopped, and these boxes do
\* not overlap.  The patches of the fine level are a disjoint cover of the tags.
CoversTags ==
    /\ \A c \in tags : \E b \in Holding : c \in Cells(b)
    /\ \A b, c \in Holding : b # c => Cells(b) \cap Cells(c) = {}
    /\ Len(todo) + Len(raw) + Cardinality(boxes) = Cardinality(Holding)

Transposed(f) == [a \in Axes |-> f[Dim + 1 - a]]
TransposedBox(b) == [lo |-> Transposed(b.lo), hi |-> Transposed(b.hi)]

\* Clustering does not depend on the names of the axes: a call on the
\* transposed tags makes the transposed calls.  (The transposition of the axes
\* of every candidate that is not accepted.)
AxesAreAlike ==
    Calling => \A scan \in Scans : ~Accepts(scan[1], scan[2]) =>
        \A mirror \in {{Transposed(c) : c \in scan[1]}} :
        \A region \in {Bounds(mirror)}, least \in {Transposed(MinBox)} :
            /\ region = TransposedBox(scan[2])
            /\ Children(region, Cuts(Signatures(mirror, region), region, least)) =
                  {TransposedBox(b) : b \in
                      Children(scan[2], Cuts(Signatures(scan[1], scan[2]), scan[2], MinBox))}

================================================================================
