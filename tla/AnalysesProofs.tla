--------------------------- MODULE AnalysesProofs ---------------------------
(***************************************************************************)
(* Proofs about sweeps and about the dispatcher, for any circuit, number   *)
(* of rows, sweep and temperatures.  A sweep is right point by point       *)
(* because at any time the right-hand side is the one asked for but in the *)
(* rows of the inner source (Off, RowsOK).  A result is right because the  *)
(* plots of each finished analysis stay together (BlocksOK) and come from  *)
(* a round and a position (FromAnalysis) whose order is that of the list.  *)
(***************************************************************************)
EXTENDS Analyses, DataLemmas

-----------------------------------------------------------------------------
\* The points of a sweep.

LEMMA SignOfStep ==
    ASSUME NEW d \in Int, NEW e \in Int
    PROVE  Abs(d) \in Nat /\ (e # 0 => Abs(e) \in Nat \ {0})
BY DEF Abs

LEMMA QuotientIsNat ==
    ASSUME NEW x \in Nat, NEW n \in Nat \ {0}
    PROVE  x \div n \in Nat /\ x % n \in 0..(n - 1) /\ x = n * (x \div n) + (x % n)
OBVIOUS

\* What the k-th point's position says of the two loops.
LEMMA DivisionIsUnique ==
    ASSUME NEW n \in Nat \ {0}, NEW q \in Nat, NEW i \in 0..(n - 1)
    PROVE  (q * n + i) \div n = q /\ (q * n + i) % n = i
<1> DEFINE x == q * n + i
           d == x \div n
           m == x % n
<1>1. x \in Nat /\ q * n \in Nat
  OBVIOUS
<1> HIDE DEF x
<1>2. d \in Nat /\ m \in 0..(n - 1) /\ x = n * d + m
  BY <1>1, QuotientIsNat
<1> HIDE DEF d, m
<1>3. q * n + i = n * d + m
  BY <1>2 DEF x
<1>4. q = d
  <2>1. ASSUME NEW k \in Nat, k >= 1
        PROVE  k * n >= n /\ k * n \in Nat
    BY <2>1
  <2>2. CASE q > d
    <3>1. (q - d) * n >= n
      BY <1>2, <2>1, <2>2
    <3>2. (q - d) * n = q * n - n * d
      BY <1>2
    <3> QED
      BY <1>2, <1>3, <3>1, <3>2
  <2>3. CASE d > q
    <3>1. (d - q) * n >= n
      BY <1>2, <2>1, <2>3
    <3>2. (d - q) * n = n * d - q * n
      BY <1>2
    <3> QED
      BY <1>2, <1>3, <3>1, <3>2
  <2> QED
    BY <1>2, <2>2, <2>3
<1>5. i = m
  BY <1>2, <1>3, <1>4
<1> QED
  BY <1>4, <1>5 DEF d, m, x

LEMMA PointsAre ==
    ASSUME NEW r \in RangeType
    PROVE  /\ Points(r) \in Seq(Int)
           /\ Len(Points(r)) \in Nat \ {0}
           /\ DOMAIN Points(r) = 1..Len(Points(r))
           /\ \A i \in 1..Len(Points(r)) : Points(r)[i] \in Int
<1>1. r.start \in Int /\ r.stop \in Int /\ r.step \in Int
  BY DEF RangeType
<1>2. CASE r.step = 0 \/ Signum(r.stop - r.start) # Signum(r.step)
  <2>1. Points(r) = <<r.start>>
    BY <1>2 DEF Points
  <2>2. <<r.start>> \in Seq(Int) /\ Len(<<r.start>>) = 1 /\ DOMAIN <<r.start>> = 1..1
    BY <1>1
  <2> QED
    BY <1>1, <2>1, <2>2, ElementOfSeq
<1>3. CASE ~ (r.step = 0 \/ Signum(r.stop - r.start) # Signum(r.step))
  <2> DEFINE n == Steps(r) + 1
             p(i) == r.start + (i - 1) * r.step
             A == Abs(r.stop - r.start)
             B == Abs(r.step)
  <2>1. A \in Nat /\ B \in Nat \ {0}
    BY <1>1, <1>3, SignOfStep
  <2>2. n \in Nat \ {0}
    <3> HIDE DEF A, B
    <3>1. 2 * A + B \in Nat /\ 2 * B \in Nat \ {0}
      BY <2>1
    <3>2. (2 * A + B) \div (2 * B) \in Nat
      BY <3>1, QuotientIsNat
    <3> QED
      BY <3>2 DEF Steps, A, B
  <2>3. \A i \in 1..n : p(i) \in Int
    BY <1>1, <2>2
  <2>4. Points(r) = [i \in 1..n |-> p(i)]
    BY <1>3 DEF Points
  <2> HIDE DEF n, p
  <2>5. Points(r) \in Seq(Int) /\ Len(Points(r)) = n
    BY <2>2, <2>3, <2>4, IsASeq, LenProperties
  <2> QED
    BY <2>2, <2>5, LenProperties, ElementOfSeq
<1> QED
  BY <1>2, <1>3

-----------------------------------------------------------------------------
\* The right-hand side of a sweep.

\* What SweepAssumption says of one sweep.
ProperSweep(s) ==
    /\ s \in SweepType
    /\ \A a \in s.src2 \cup {s.src1} :
        /\ a.source.pos \cap a.source.neg = {}
        /\ a.source.kind = "V" => a.source.pos # {} /\ a.source.neg = {}
    /\ \A a, b \in s.src2 : a = b
    /\ \A a \in s.src2 :
        /\ a.source.kind = "V" =>
             s.src1.source.pos \cap a.source.pos = {} /\ s.src1.source.neg \cap a.source.pos = {}
        /\ s.src1.source.kind = "V" =>
             s.src1.source.pos \cap (a.source.pos \cup a.source.neg) = {}

\* Not a current source swept inside another sweep.
VoltageInside(s) == s.src2 = {} \/ s.src1.source.kind = "V"

Second(s) == CHOOSE a \in s.src2 : TRUE

\* The system without the inner source, in outer step o.
Beneath(s, o) ==
    IF s.src2 = {} THEN s.base
    ELSE Stamped(s.base, Second(s).source,
                 IF o = 0 THEN Second(s).source.dc ELSE Points2(s)[o])

\* x is that system but for the rows of the inner source.
Off(x, s, o) ==
    /\ x \in [Rows -> Int]
    /\ \A r \in Rows \ (s.src1.source.pos \cup s.src1.source.neg) : x[r] = Beneath(s, o)[r]

LEMMA SweepFields ==
    ASSUME NEW s, ProperSweep(s)
    PROVE  /\ s.base \in [Rows -> Int]
           /\ s.src1 \in Axis /\ s.src1.source \in SourceType /\ s.src1.range \in RangeType
           /\ s.src2 # {} =>
                /\ Second(s) \in s.src2 /\ \A a \in s.src2 : a = Second(s)
                /\ Second(s) \in Axis /\ Second(s).source \in SourceType
                /\ Second(s).range \in RangeType
<1>1. s.base \in [Rows -> Int] /\ s.src1 \in Axis /\ s.src2 \in SUBSET Axis
  BY DEF ProperSweep, SweepType
<1>2. \A a \in Axis : a.source \in SourceType /\ a.range \in RangeType
  BY DEF Axis
<1>3. s.src2 # {} => Second(s) \in s.src2
  BY DEF Second
<1>4. s.src2 # {} => \A a \in s.src2 : a = Second(s)
  BY <1>3 DEF ProperSweep
<1> QED
  BY <1>1, <1>2, <1>3, <1>4

LEMMA SweepPoints ==
    ASSUME NEW s, ProperSweep(s)
    PROVE  /\ Len(Points1(s)) \in Nat \ {0}
           /\ \A i \in 1..Len(Points1(s)) : Points1(s)[i] \in Int
           /\ Len(Points2(s)) \in Nat \ {0}
           /\ \A i \in 1..Len(Points2(s)) : Points2(s)[i] \in Int
<1>1. Len(Points1(s)) \in Nat \ {0} /\ \A i \in 1..Len(Points1(s)) : Points1(s)[i] \in Int
  BY SweepFields, PointsAre DEF Points1
<1>2. CASE s.src2 = {}
  BY <1>1, <1>2 DEF Points2
<1>3. CASE s.src2 # {}
  <2>1. Points2(s) = Points(Second(s).range)
    BY <1>3 DEF Points2, Second
  <2> QED
    BY <1>1, <1>3, <2>1, SweepFields, PointsAre
<1> QED
  BY <1>2, <1>3

LEMMA StampingRows ==
    ASSUME NEW b \in [Rows -> Int], NEW source \in SourceType, NEW v \in Int
    PROVE  /\ Stamped(b, source, v) \in [Rows -> Int]
           /\ \A r \in Rows :
                /\ r \notin source.pos \cup source.neg => Stamped(b, source, v)[r] = b[r]
                /\ source.kind = "V" /\ r \in source.pos => Stamped(b, source, v)[r] = v
                /\ source.kind = "V" /\ r \notin source.pos => Stamped(b, source, v)[r] = b[r]
                /\ source.kind # "V" /\ r \in source.pos /\ r \notin source.neg =>
                     Stamped(b, source, v)[r] = b[r] - v
                /\ source.kind # "V" /\ r \in source.neg /\ r \notin source.pos =>
                     Stamped(b, source, v)[r] = b[r] + v
BY DEF Stamped, SourceType

LEMMA BeneathType ==
    ASSUME NEW s, ProperSweep(s), NEW o \in FirstOuter(s)..Len(Points2(s))
    PROVE  Beneath(s, o) \in [Rows -> Int]
<1>1. CASE s.src2 = {}
  BY <1>1, SweepFields DEF Beneath
<1>2. CASE s.src2 # {}
  <2> DEFINE v == IF o = 0 THEN Second(s).source.dc ELSE Points2(s)[o]
  <2>1. v \in Int
    BY <1>2, SweepFields, SweepPoints DEF SourceType, FirstOuter
  <2> HIDE DEF v
  <2>2. Stamped(s.base, Second(s).source, v) \in [Rows -> Int]
    BY <1>2, <2>1, SweepFields, StampingRows
  <2> QED
    BY <1>2, <2>2 DEF Beneath, v
<1> QED
  BY <1>1, <1>2

LEMMA FirstSourceOff ==
    ASSUME NEW s, ProperSweep(s), NEW o \in FirstOuter(s)..Len(Points2(s)), NEW v \in Int
    PROVE  Off(Stamped(Beneath(s, o), s.src1.source, v), s, o)
<1> DEFINE source == s.src1.source
           b == Beneath(s, o)
<1>1. b \in [Rows -> Int] /\ source \in SourceType
  BY BeneathType, SweepFields
<1> HIDE DEF source, b
<1>2. Stamped(b, source, v) \in [Rows -> Int]
  BY <1>1, StampingRows
<1>3. ASSUME NEW r \in Rows \ (source.pos \cup source.neg)
      PROVE  Stamped(b, source, v)[r] = b[r]
  <2>1. b[r] \in Int
    BY <1>1
  <2> QED
    BY <2>1 DEF Stamped
<1> QED
  BY <1>2, <1>3 DEF Off, b, source

\* The assembled circuit has both sources at their own values.
LEMMA OriginalIs ==
    ASSUME NEW s, ProperSweep(s)
    PROVE  /\ Original(s) = Stamped(Beneath(s, 0), s.src1.source, s.src1.source.dc)
           /\ Beneath(s, 0) \in [Rows -> Int]
           /\ Off(Original(s), s, FirstOuter(s))
<1>1. Beneath(s, 0) \in [Rows -> Int]
  <2>1. CASE s.src2 = {}
    BY <2>1, SweepFields DEF Beneath
  <2>2. CASE s.src2 # {}
    BY <2>2, BeneathType, SweepPoints DEF FirstOuter
  <2> QED
    BY <2>1, <2>2
<1>2. StampedAll(s.src2, s.base) = Beneath(s, 0)
  BY DEF StampedAll, Beneath, Second
<1>3. Original(s) = Stamped(Beneath(s, 0), s.src1.source, s.src1.source.dc)
  BY <1>2 DEF Original
<1>4. Beneath(s, FirstOuter(s)) = Beneath(s, 0)
  BY DEF Beneath, FirstOuter
<1>5. s.src1.source.dc \in Int /\ s.src1.source \in SourceType
  BY SweepFields DEF SourceType
<1>6. Off(Original(s), s, FirstOuter(s))
  BY <1>1, <1>3, <1>4, <1>5, StampingRows DEF Off
<1> QED
  BY <1>1, <1>3, <1>6

\* A step of the inner loop puts the first source on the system beneath it.
LEMMA InnerPoint ==
    ASSUME NEW s, ProperSweep(s), VoltageInside(s), NEW o \in FirstOuter(s)..Len(Points2(s)),
           NEW x, Off(x, s, o), NEW u, s.src2 = {} => u = Original(s), NEW v \in Int
    PROVE  SetSource(x, s.src1.source, v, u) = Stamped(Beneath(s, o), s.src1.source, v)
<1> DEFINE source == s.src1.source
           b == Beneath(s, o)
<1>1. b \in [Rows -> Int] /\ source \in SourceType /\ x \in [Rows -> Int]
      /\ source.dc \in Int /\ source.pos \cap source.neg = {}
  BY BeneathType, SweepFields DEF Off, SourceType, ProperSweep
<1>2. \A r \in Rows \ (source.pos \cup source.neg) : x[r] = b[r]
  BY DEF Off
<1>3. CASE source.kind = "V"
  <2>1. source.neg = {}
    BY <1>3 DEF ProperSweep
  <2> HIDE DEF b, source
  <2>2. SetSource(x, source, v, u) = Stamped(b, source, v)
    BY <1>1, <1>2, <1>3, <2>1 DEF SetSource, Stamped
  <2> QED
    BY <2>2 DEF b, source
<1>4. CASE source.kind # "V"
  <2>1. s.src2 = {} /\ u = Original(s)
    BY <1>4 DEF VoltageInside
  <2>2. Beneath(s, 0) = b
    BY <2>1 DEF Beneath
  <2>3. u = Stamped(b, source, source.dc)
    BY <2>1, <2>2, OriginalIs
  <2> HIDE DEF b, source
  <2>4. /\ \A r \in Rows : r \in source.pos => u[r] = b[r] - source.dc
        /\ \A r \in Rows : r \in source.neg => u[r] = b[r] + source.dc
    BY <1>1, <1>4, <2>3 DEF Stamped
  <2>5. ASSUME NEW r \in Rows
        PROVE  SetSource(x, source, v, u)[r] = Stamped(b, source, v)[r]
    <3>1. CASE r \in source.pos
      BY <1>1, <1>4, <2>4, <3>1 DEF SetSource, Stamped
    <3>2. CASE r \in source.neg
      BY <1>1, <1>4, <2>4, <3>2 DEF SetSource, Stamped
    <3>3. CASE r \notin source.pos \cup source.neg
      BY <1>1, <1>2, <1>4, <3>3 DEF SetSource, Stamped
    <3> QED
      BY <3>1, <3>2, <3>3
  <2>6. SetSource(x, source, v, u) = Stamped(b, source, v)
    BY <2>5 DEF SetSource, Stamped
  <2> QED
    BY <2>6 DEF b, source
<1> QED
  BY <1>3, <1>4

\* A step of the outer loop changes the system beneath, whatever the inner loop left in
\* the rows of its source.
LEMMA OuterPoint ==
    ASSUME NEW s, ProperSweep(s), VoltageInside(s), NEW a \in s.src2,
           NEW o \in 0..(Len(Points2(s)) - 1), NEW x, Off(x, s, o)
    PROVE  Off(SetSource(x, a.source, Points2(s)[o + 1], Original(s)), s, o + 1)
<1> DEFINE inner1 == s.src1.source
           source == a.source
           v == Points2(s)[o + 1]
           y == SetSource(x, source, v, Original(s))
<1>1. /\ a = Second(s) /\ source \in SourceType /\ inner1 \in SourceType
      /\ s.base \in [Rows -> Int] /\ x \in [Rows -> Int]
      /\ v \in Int /\ source.dc \in Int
  BY SweepFields, SweepPoints DEF Off, SourceType
<1>2. /\ inner1.kind = "V" /\ inner1.neg = {}
      /\ inner1.pos \cap (source.pos \cup source.neg) = {}
      /\ source.pos \cap source.neg = {}
      /\ source.kind = "V" => source.neg = {}
  BY DEF ProperSweep, VoltageInside
<1>3. /\ Beneath(s, o + 1) = Stamped(s.base, source, v)
      /\ Beneath(s, 0) = Stamped(s.base, source, source.dc)
  BY <1>1 DEF Beneath
<1>4. \A r \in Rows \ (source.pos \cup source.neg) :
         Beneath(s, o)[r] = s.base[r] /\ Beneath(s, o + 1)[r] = s.base[r]
  <2> DEFINE w == IF o = 0 THEN source.dc ELSE Points2(s)[o]
  <2>1. w \in Int /\ Beneath(s, o) = Stamped(s.base, source, w)
    BY <1>1, SweepPoints DEF Beneath
  <2> HIDE DEF w, v, source
  <2> SUFFICES ASSUME NEW r \in Rows \ (source.pos \cup source.neg)
               PROVE  Stamped(s.base, source, w)[r] = s.base[r]
                      /\ Stamped(s.base, source, v)[r] = s.base[r]
    BY <1>3, <2>1
  <2>2. s.base[r] \in Int
    BY <1>1
  <2> QED
    BY <2>2 DEF Stamped
<1>5. /\ Original(s) \in [Rows -> Int]
      /\ \A r \in source.pos \cup source.neg : Original(s)[r] = Beneath(s, 0)[r]
  <2>1. \A r \in source.pos \cup source.neg : r \in Rows /\ r \notin inner1.pos \cup inner1.neg
    BY <1>1, <1>2 DEF SourceType
  <2> QED
    BY <1>2, <2>1, OriginalIs DEF Stamped, Off
<1>6. y \in [Rows -> Int]
  <2> HIDE DEF v, source, inner1
  <2> QED
    BY <1>1, <1>5 DEF SetSource, y
<1>7. ASSUME NEW r \in Rows \ (inner1.pos \cup inner1.neg)
      PROVE  y[r] = Beneath(s, o + 1)[r]
  <2>1. x[r] = Beneath(s, o)[r]
    BY DEF Off
  <2> HIDE DEF v, source, inner1
  <2>2. CASE r \notin source.pos \cup source.neg
    <3>1. y[r] = x[r]
      BY <1>1, <1>7, <2>2 DEF SetSource, y
    <3> QED
      BY <1>4, <1>7, <2>1, <2>2, <3>1
  <2>3. CASE r \in source.pos \cup source.neg /\ source.kind = "V"
    <3>1. y[r] = v
      BY <1>2, <1>7, <2>3 DEF SetSource, y
    <3>2. Stamped(s.base, source, v)[r] = v
      BY <1>2, <1>7, <2>3 DEF Stamped
    <3> QED
      BY <1>3, <3>1, <3>2
  <2>4. CASE r \in source.pos /\ source.kind # "V"
    <3>1. y[r] = Original(s)[r] + source.dc - v
      BY <1>2, <1>7, <2>4 DEF SetSource, y
    <3>2. Original(s)[r] = s.base[r] - source.dc
      BY <1>1, <1>2, <1>3, <1>5, <1>7, <2>4 DEF Stamped
    <3>3. Stamped(s.base, source, v)[r] = s.base[r] - v
      BY <1>1, <1>2, <1>7, <2>4 DEF Stamped
    <3> QED
      BY <1>1, <1>3, <1>7, <3>1, <3>2, <3>3
  <2>5. CASE r \in source.neg /\ source.kind # "V"
    <3>1. y[r] = Original(s)[r] - source.dc + v
      BY <1>2, <1>7, <2>5 DEF SetSource, y
    <3>2. Original(s)[r] = s.base[r] + source.dc
      BY <1>1, <1>2, <1>3, <1>5, <1>7, <2>5 DEF Stamped
    <3>3. Stamped(s.base, source, v)[r] = s.base[r] + v
      BY <1>1, <1>2, <1>7, <2>5 DEF Stamped
    <3> QED
      BY <1>1, <1>3, <1>7, <3>1, <3>2, <3>3
  <2> QED
    BY <2>2, <2>3, <2>4, <2>5
<1> QED
  BY <1>6, <1>7 DEF Off

\* The two sources commute: the circuit asked for is the first on the system beneath it.
LEMMA AskedIs ==
    ASSUME NEW s, ProperSweep(s), VoltageInside(s), NEW o \in 1..Len(Points2(s)),
           NEW k, Value2(s, k) = Points2(s)[o], Value1(s, k) \in Int
    PROVE  Asked(s, k) = Stamped(Beneath(s, o), s.src1.source, Value1(s, k))
<1> DEFINE v == Value1(s, k)
           w == Points2(s)[o]
           one == Stamped(s.base, s.src1.source, v)
<1>1. CASE s.src2 = {}
  BY <1>1 DEF Asked, Beneath
<1>2. CASE s.src2 # {}
  <2> DEFINE source == Second(s).source
             inner1 == s.src1.source
             b == s.base
  <2>1. Asked(s, k) = Stamped(one, source, w) /\ Beneath(s, o) = Stamped(b, source, w)
    BY <1>2 DEF Asked, Beneath, Second
  <2>2. /\ inner1 \in SourceType /\ source \in SourceType /\ b \in [Rows -> Int]
        /\ v \in Int /\ w \in Int
    BY <1>2, SweepFields, SweepPoints
  <2>3. inner1.kind = "V" /\ inner1.pos \cap (source.pos \cup source.neg) = {}
    BY <1>2, SweepFields DEF ProperSweep, VoltageInside
  <2>4. one = Stamped(b, inner1, v)
    OBVIOUS
  <2> HIDE DEF one, source, inner1, b, v, w
  <2>5. ASSUME NEW r \in Rows
        PROVE  Stamped(one, source, w)[r] = Stamped(Stamped(b, source, w), inner1, v)[r]
    BY <2>2, <2>3, <2>4 DEF Stamped, SourceType
  <2>6. Stamped(one, source, w) = Stamped(Stamped(b, source, w), inner1, v)
    BY <2>5 DEF Stamped
  <2> QED
    BY <2>1, <2>6 DEF inner1, v
<1> QED
  BY <1>1, <1>2

-----------------------------------------------------------------------------
\* The sweep under way.

\* Where the two loops are: the number of points solved so far.
Solved2(s, o, i) == IF o = 0 THEN 0 ELSE (o - 1) * Len(Points1(s)) + i

LoopsOK ==
    /\ ProperSweep(sweep)
    /\ outer \in FirstOuter(sweep)..Len(Points2(sweep))
    /\ inner \in 0..Len(Points1(sweep)) /\ (outer = 0 => inner = 0)
    /\ \E S : results \in Seq(S)
    /\ Len(results) = Solved2(sweep, outer, inner)
    /\ prev = IF sweep.nonlinear /\ inner # 0 THEN Len(results) ELSE 0
    /\ status \in {"idle", "sweeping", "complete", "failed"}
    /\ status = "complete" => outer = Len(Points2(sweep)) /\ inner = Len(Points1(sweep))

RowsOK ==
    VoltageInside(sweep) =>
        /\ Off(rhs, sweep, outer) /\ Off(under, sweep, outer)
        /\ sweep.src2 = {} => under = Original(sweep)
        /\ PointsAreAsked

SweepOK == LoopsOK /\ RowsOK /\ GuessIsNeighbour

SweepStart ==
    /\ ProperSweep(sweep)
    /\ rhs = Original(sweep) /\ under = Original(sweep)
    /\ outer = FirstOuter(sweep) /\ inner = 0 /\ prev = 0
    /\ results = <<>> /\ status = "sweeping"

LEMMA SweepStartOK == SweepStart => SweepOK
<1> SUFFICES ASSUME SweepStart PROVE SweepOK
  OBVIOUS
<1> USE DEF SweepStart
<1>1. Len(Points1(sweep)) \in Nat \ {0} /\ Len(Points2(sweep)) \in Nat \ {0}
  BY SweepPoints
<1>2. /\ FirstOuter(sweep) \in FirstOuter(sweep)..Len(Points2(sweep))
      /\ Solved2(sweep, FirstOuter(sweep), 0) = 0
  BY <1>1 DEF FirstOuter, Solved2
<1>3. <<>> \in Seq({}) /\ Len(<<>>) = 0 /\ DOMAIN <<>> = {}
  OBVIOUS
<1>4. LoopsOK
  BY <1>1, <1>2, <1>3 DEF LoopsOK
<1>5. PointsAreAsked /\ GuessIsNeighbour
  BY <1>3 DEF PointsAreAsked, GuessIsNeighbour
<1>6. RowsOK
  BY <1>5, OriginalIs DEF RowsOK
<1> QED
  BY <1>4, <1>5, <1>6 DEF SweepOK

LEMMA SweepStartsOK == SweepStart' => SweepOK'
BY SweepStartOK, PTL

LEMMA OuterKeeps ==
    ASSUME SweepOK, NextOuter
    PROVE  SweepOK'
<1> DEFINE s == sweep
<1>1. ProperSweep(s) /\ s' = s
  BY DEF SweepOK, LoopsOK, NextOuter
<1>2. Len(Points1(s)) \in Nat \ {0} /\ Len(Points2(s)) \in Nat \ {0}
  BY <1>1, SweepPoints
<1>3. PICK a \in s.src2 : rhs' = SetSource(rhs, a.source, Points2(s)[outer + 1], Original(s))
  BY DEF NextOuter
<1>4. /\ outer \in 0..(Len(Points2(s)) - 1) /\ outer' = outer + 1 /\ inner' = 0 /\ prev' = 0
      /\ results' = results /\ status' = status /\ status = "sweeping"
      /\ under' = rhs' /\ s.src2 # {}
  BY <1>2, <1>3 DEF SweepOK, LoopsOK, NextOuter, FirstOuter, Forgotten
<1>5. Solved2(s, outer + 1, 0) = Solved2(s, outer, inner)
  <2>1. CASE outer = 0
    BY <1>2, <2>1 DEF Solved2
  <2>2. CASE outer # 0
    <3>1. inner = Len(Points1(s))
      BY <2>2 DEF NextOuter, StepDone
    <3>2. \A n \in Nat, o \in Nat \ {0} : (o - 1) * n + n = (o + 1 - 1) * n + 0
      OBVIOUS
    <3> QED
      BY <1>2, <1>4, <2>2, <3>1, <3>2 DEF Solved2
  <2> QED
    BY <2>1, <2>2
<1>6. LoopsOK'
  <2>1. outer' \in FirstOuter(s)..Len(Points2(s)) /\ inner' \in 0..Len(Points1(s)) /\ outer' # 0
    BY <1>2, <1>4 DEF FirstOuter
  <2> QED
    BY <1>1, <1>4, <1>5, <2>1 DEF SweepOK, LoopsOK
<1>7. PointsAreAsked => PointsAreAsked'
  BY <1>1, <1>4 DEF PointsAreAsked
<1>8. VoltageInside(s) => Off(rhs', s, outer + 1)
  BY <1>1, <1>3, <1>4, OuterPoint DEF SweepOK, RowsOK
<1>9. RowsOK'
  BY <1>1, <1>4, <1>7, <1>8 DEF SweepOK, RowsOK
<1>10. GuessIsNeighbour'
  BY <1>1, <1>4 DEF SweepOK, GuessIsNeighbour
<1> QED
  BY <1>6, <1>9, <1>10 DEF SweepOK

LEMMA InnerKeeps ==
    ASSUME SweepOK, NextInner
    PROVE  SweepOK'
<1> DEFINE s == sweep
           n == Len(Points1(s))
           v == Points1(s)[inner + 1]
           k == Len(results) + 1
           x == SetSource(rhs, s.src1.source, v, under)
           point == [at |-> v, rhs |-> x, guess |-> prev,
                     stamps |-> [line \in s.lines |-> LineStamps(line)]]
<1>1. ProperSweep(s) /\ s' = s
  BY DEF SweepOK, LoopsOK, NextInner
<1>2. n \in Nat \ {0} /\ Len(Points2(s)) \in Nat \ {0}
  BY <1>1, SweepPoints
<1>3. /\ outer \in 1..Len(Points2(s)) /\ inner \in 0..(n - 1) /\ v \in Int
      /\ outer \in FirstOuter(s)..Len(Points2(s))
  <2>1. outer \in FirstOuter(s)..Len(Points2(s)) /\ outer # 0
        /\ inner \in 0..n /\ inner # n
    BY DEF SweepOK, LoopsOK, NextInner, StepDone
  <2>2. outer \in 1..Len(Points2(s)) /\ inner \in 0..(n - 1) /\ inner + 1 \in 1..n
    BY <1>2, <2>1 DEF FirstOuter
  <2> QED
    BY <1>1, <2>1, <2>2, SweepPoints
<1>4. /\ Len(results) = (outer - 1) * n + inner /\ Len(results) \in Nat
      /\ ((k - 1) % n) = inner /\ ((k - 1) \div n) = outer - 1
  <2>1. Len(results) = (outer - 1) * n + inner
    BY <1>3 DEF SweepOK, LoopsOK, Solved2
  <2> HIDE DEF n
  <2>2. outer - 1 \in Nat
    BY <1>2, <1>3
  <2> DEFINE q == outer - 1
             i == inner
  <2>3. (q * n + i) % n = i /\ (q * n + i) \div n = q /\ q * n + i \in Nat
    <3>1. n \in Nat \ {0} /\ q \in Nat /\ i \in 0..(n - 1)
      BY <1>2, <1>3, <2>2
    <3> HIDE DEF q, i
    <3>2. q * n + i \in Nat
      BY <3>1
    <3> QED
      BY <3>1, <3>2, DivisionIsUnique
  <2>4. k - 1 = Len(results)
    BY <2>1, <2>3
  <2> QED
    BY <2>1, <2>3, <2>4
<1>5. Value1(s, k) = v /\ Value2(s, k) = Points2(s)[outer]
  BY <1>3, <1>4 DEF Value1, Value2
<1>6. /\ inner' = inner + 1 /\ rhs' = x /\ results' = Append(results, point)
      /\ prev' = IF s.nonlinear THEN k ELSE prev
      /\ under' = under /\ outer' = outer /\ status' = status /\ status = "sweeping"
  BY DEF NextInner, WarmFrom
<1> HIDE DEF point, x, v
<1>7. /\ \E S : results' \in Seq(S)
      /\ Len(results') = k /\ DOMAIN results = 1..(k - 1) /\ DOMAIN results' = 1..k
      /\ results'[k] = point /\ \A i \in 1..(k - 1) : results'[i] = results[i]
  <2>1. PICK S : results \in Seq(S)
    BY DEF SweepOK, LoopsOK
  <2>2. /\ Append(results, point) \in Seq(S \cup {point})
        /\ Len(Append(results, point)) = Len(results) + 1
        /\ DOMAIN Append(results, point) = 1..Len(results) + 1
        /\ \A i \in 1..Len(results) : Append(results, point)[i] = results[i]
        /\ Append(results, point)[Len(results) + 1] = point
    BY <2>1, PushStack
  <2>3. DOMAIN results = 1..Len(results)
    BY <2>1, LenProperties
  <2> QED
    BY <1>4, <1>6, <2>2, <2>3
<1>8. \A i \in DOMAIN results' : i \in DOMAIN results \/ i = k
  BY <1>4, <1>7
<1>9. LoopsOK'
  <2>1. Solved2(s, outer, inner + 1) = k
    <3> HIDE DEF n
    <3>1. (outer - 1) * n + (inner + 1) = (outer - 1) * n + inner + 1
      BY <1>2, <1>3
    <3> QED
      BY <1>3, <1>4, <3>1 DEF Solved2, n
  <2>2. inner' \in 0..n /\ inner' # 0
    BY <1>2, <1>3, <1>6
  <2>3. prev' = IF s.nonlinear THEN k ELSE 0
    BY <1>6 DEF SweepOK, LoopsOK
  <2> QED
    BY <1>1, <1>3, <1>6, <1>7, <2>1, <2>2, <2>3 DEF SweepOK, LoopsOK
<1>10. RowsOK'
  <2> SUFFICES ASSUME VoltageInside(s)
               PROVE  /\ Off(rhs', s, outer) /\ Off(under, s, outer)
                      /\ s.src2 = {} => under = Original(s)
                      /\ PointsAreAsked'
    BY <1>1, <1>6 DEF RowsOK
  <2>1. /\ Off(rhs, s, outer) /\ Off(under, s, outer)
        /\ s.src2 = {} => under = Original(s)
        /\ PointsAreAsked
    BY DEF SweepOK, RowsOK
  <2>2. x = Stamped(Beneath(s, outer), s.src1.source, v)
    BY <1>1, <1>3, <2>1, InnerPoint DEF x
  <2>3. Off(rhs', s, outer)
    <3>1. Off(Stamped(Beneath(s, outer), s.src1.source, v), s, outer)
      BY <1>1, <1>3, FirstSourceOff
    <3> QED
      BY <1>6, <2>2, <3>1
  <2>4. x = Asked(s, k)
    BY <1>1, <1>3, <1>5, <2>2, AskedIs
  <2>5. PointsAreAsked'
    <3> SUFFICES ASSUME NEW i \in DOMAIN results'
                 PROVE  results'[i].at = Value1(s, i) /\ results'[i].rhs = Asked(s, i)
      BY <1>1 DEF PointsAreAsked
    <3>1. CASE i \in DOMAIN results
      BY <1>7, <2>1, <3>1 DEF PointsAreAsked
    <3>2. CASE i = k
      BY <1>5, <1>7, <2>4, <3>2 DEF point
    <3> QED
      BY <1>8, <3>1, <3>2
  <2> QED
    BY <2>1, <2>3, <2>5
<1>11. GuessIsNeighbour'
  <2> SUFFICES ASSUME NEW i \in DOMAIN results'
               PROVE  results'[i].guess = IF s.nonlinear /\ (i - 1) % n # 0 THEN i - 1 ELSE 0
    BY <1>1 DEF GuessIsNeighbour
  <2>1. CASE i \in DOMAIN results
    BY <1>7, <2>1 DEF SweepOK, GuessIsNeighbour
  <2>2. CASE i = k
    <3>1. results'[k].guess = prev
      BY <1>7 DEF point
    <3>2. prev = IF s.nonlinear /\ inner # 0 THEN k - 1 ELSE 0
      BY <1>4 DEF SweepOK, LoopsOK
    <3> QED
      BY <1>4, <2>2, <3>1, <3>2
  <2> QED
    BY <1>8, <2>1, <2>2
<1> QED
  BY <1>9, <1>10, <1>11 DEF SweepOK

LEMMA SweepStops ==
    ASSUME SweepOK, Fails \/ Complete
    PROVE  SweepOK'
<1>1. UNCHANGED <<sweep, rhs, under, outer, inner, prev, results>>
  BY DEF Fails, Complete
<1>2. Len(Points1(sweep)) \in Nat \ {0} /\ Len(Points2(sweep)) \in Nat \ {0}
  BY SweepPoints DEF SweepOK, LoopsOK
<1>3. LoopsOK'
  <2>1. Complete => outer = Len(Points2(sweep)) /\ inner = Len(Points1(sweep))
    BY <1>2 DEF Complete, StepDone, SweepOK, LoopsOK
  <2> QED
    BY <1>1, <2>1 DEF Fails, Complete, SweepOK, LoopsOK
<1>4. RowsOK' /\ GuessIsNeighbour'
  BY <1>1 DEF SweepOK, RowsOK, GuessIsNeighbour, PointsAreAsked
<1> QED
  BY <1>3, <1>4 DEF SweepOK

LEMMA SweepStays ==
    ASSUME SweepOK, UNCHANGED <<sweep, rhs, under, outer, inner, prev, results>>,
           status' \in {status, "idle"}
    PROVE  SweepOK'
<1>1. LoopsOK'
  BY DEF SweepOK, LoopsOK
<1>2. RowsOK' /\ GuessIsNeighbour'
  BY DEF SweepOK, RowsOK, GuessIsNeighbour, PointsAreAsked
<1> QED
  BY <1>1, <1>2 DEF SweepOK

-----------------------------------------------------------------------------
\* The circuit, its analyses and its temperatures.

LEMMA DeclaredIs ==
    ASSUME NEW c \in Circuits
    PROVE  /\ Declared(c) \in Seq(AnalysisType)
           /\ Len(Declared(c)) \in Nat \ {0}
           /\ DOMAIN Declared(c) = 1..Len(Declared(c))
           /\ \A i \in DOMAIN Declared(c) :
                \/ Declared(c)[i].kind = "dc" /\ Declared(c)[i].spec \in Sweeps
                \/ Declared(c)[i].kind \in Solved \cup Derived
<1>1. c.analyses \in Seq(AnalysisType)
  BY AnalysesAssumption
<1>2. Declared(c) \in Seq(AnalysisType) /\ Declared(c) # <<>>
  <2> DEFINE a == [kind |-> "op", spec |-> 0]
  <2>1. a \in AnalysisType
    BY DEF AnalysisType, Solved
  <2> HIDE DEF a
  <2>2. <<a>> \in Seq(AnalysisType) /\ <<a>> # <<>>
    BY <2>1
  <2> QED
    BY <1>1, <2>2 DEF Declared, a
<1>3. Len(Declared(c)) \in Nat \ {0} /\ DOMAIN Declared(c) = 1..Len(Declared(c))
  BY <1>2, EmptySeq, LenProperties
<1>4. \A i \in DOMAIN Declared(c) : Declared(c)[i] \in AnalysisType
  BY <1>2, <1>3, ElementOfSeq
<1> QED
  BY <1>2, <1>3, <1>4 DEF AnalysisType

LEMMA FirstIsFound ==
    ASSUME NEW c \in Circuits, NEW kind
    PROVE  /\ FirstOf(c, kind) \in 0..Len(Declared(c))
           /\ FirstOf(c, kind) # 0 => Declared(c)[FirstOf(c, kind)].kind = kind
           /\ \A i \in DOMAIN Declared(c) : Declared(c)[i].kind = kind => FirstOf(c, kind) # 0
<1> DEFINE D == Declared(c)
           I == {i \in 1..Len(D) : D[i].kind = kind}
<1>1. FirstOf(c, kind) = IF I # {} THEN Min(I) ELSE 0
  BY DEF FirstOf, SelectInSeq
<1>2. Len(D) \in Nat /\ DOMAIN D = 1..Len(D)
  BY DeclaredIs
<1>3. I # {} => Min(I) \in I
  <2>1. I \in SUBSET Nat
    BY <1>2
  <2> HIDE DEF I
  <2> QED
    BY <2>1, LeastIndex DEF Min
<1>4. CASE I # {}
  <2>1. FirstOf(c, kind) \in 1..Len(D) /\ D[FirstOf(c, kind)].kind = kind
    BY <1>1, <1>3, <1>4
  <2> QED
    BY <1>2, <2>1
<1>5. CASE I = {}
  <2>1. FirstOf(c, kind) = 0 /\ \A i \in DOMAIN D : D[i].kind # kind
    BY <1>1, <1>2, <1>5
  <2> QED
    BY <1>2, <2>1
<1> QED
  BY <1>4, <1>5

LEMMA RoundsAre ==
    ASSUME NEW c \in Circuits
    PROVE  /\ Rounds(c) \in Nat \ {0}
           /\ \A r \in 1..Rounds(c) :
                /\ TemperatureIn(c, r) \in Nat \ {0}
                /\ Label(c, r) = (IF Rounds(c) > 1 THEN r ELSE 0)
                /\ Label(c, r) # 0 => TemperatureIn(c, r) = c.temps[Label(c, r)]
<1>1. /\ c.temps \in Seq(Nat \ {0}) /\ c.option \in Nat \ {0}
      /\ Len(c.temps) \in Nat /\ (c.temps # <<>> => Len(c.temps) # 0)
  BY AnalysesAssumption, EmptySeq, LenProperties
<1>2. Rounds(c) \in Nat \ {0} /\ (Rounds(c) > 1 <=> Len(c.temps) > 1)
  BY <1>1 DEF Rounds
<1>3. ASSUME NEW r \in 1..Rounds(c)
      PROVE  TemperatureIn(c, r) \in Nat \ {0}
  <2>1. CASE c.temps = <<>>
    BY <1>1, <2>1 DEF TemperatureIn
  <2>2. CASE c.temps # <<>>
    <3>1. r \in 1..Len(c.temps)
      BY <1>1, <2>2 DEF Rounds
    <3> QED
      BY <1>1, <2>2, <3>1, ElementOfSeq DEF TemperatureIn
  <2> QED
    BY <2>1, <2>2
<1>4. ASSUME NEW r \in 1..Rounds(c)
      PROVE  /\ Label(c, r) = (IF Rounds(c) > 1 THEN r ELSE 0)
             /\ Label(c, r) # 0 => TemperatureIn(c, r) = c.temps[Label(c, r)]
  <2>1. Len(<<>>) = 0
    OBVIOUS
  <2> QED
    BY <1>1, <1>2, <2>1 DEF Label, TemperatureIn
<1> QED
  BY <1>2, <1>3, <1>4

LEMMA ProperAtTemperature ==
    ASSUME NEW s \in Sweeps, NEW t \in Int
    PROVE  /\ ProperSweep(AtTemperature(s, t))
           /\ VoltageInside(s) => VoltageInside(AtTemperature(s, t))
<1> DEFINE u == AtTemperature(s, t)
           b == [row \in Rows |-> s.base[row] * t]
<1>1. s \in SweepType
  BY SweepAssumption
<1>2. b \in [Rows -> Int]
  BY <1>1 DEF SweepType
<1>3. u = [s EXCEPT !.base = b]
  BY DEF AtTemperature
<1> HIDE DEF b, u
<1>4. u \in SweepType /\ u.src1 = s.src1 /\ u.src2 = s.src2
  BY <1>1, <1>2, <1>3 DEF SweepType
<1>5. ProperSweep(u)
  BY <1>4, SweepAssumption DEF ProperSweep
<1> QED
  BY <1>4, <1>5 DEF VoltageInside, u

LEMMA LeavesAre ==
    ASSUME NEW kind \in Solved \cup Derived \cup {"dc"}, NEW names \in Leaves(kind)
    PROVE  /\ Len(names) \in 0..2 /\ DOMAIN names = 1..Len(names)
           /\ \A k \in DOMAIN names :
                names[k] # "measurements" /\ (names[k] = "dc1" => kind = "dc")
           /\ kind # "pz" => \E k \in DOMAIN names : names[k] \in Answering(kind)
<1>1. CASE kind = "tran"
  <2>1. names \in {<<"op1", "tran1">>, <<"tran1">>} /\ Answering(kind) = {"tran1"}
    BY <1>1 DEF Leaves, Answering
  <2>2. CASE names = <<"op1", "tran1">>
    BY <1>1, <2>1, <2>2
  <2>3. CASE names = <<"tran1">>
    BY <1>1, <2>1, <2>3
  <2> QED
    BY <2>1, <2>2, <2>3
<1>2. CASE kind = "noise"
  <2>1. names = <<"noise1", "noise2">> /\ Answering(kind) = {"noise1", "noise2"}
    BY <1>2 DEF Leaves, Answering
  <2> QED
    BY <1>2, <2>1
<1>3. CASE kind = "pz"
  <2>1. names \in {<<>>, <<"pz1">>, <<"pz2">>, <<"pz1", "pz2">>}
    BY <1>3 DEF Leaves
  <2>2. CASE names = <<>>
    BY <1>3, <2>2
  <2>3. CASE names \in {<<"pz1">>, <<"pz2">>}
    BY <1>3, <2>3
  <2>4. CASE names = <<"pz1", "pz2">>
    BY <1>3, <2>4
  <2> QED
    BY <2>1, <2>2, <2>3, <2>4
<1>4. CASE kind \in {"op", "ac", "sens", "tf", "four", "fft", "dc"}
  <2> DEFINE name == CASE kind = "op" -> "op1" [] kind = "dc" -> "dc1"
                       [] kind = "ac" -> "ac1" [] kind = "sens" -> "sens1"
                       [] kind = "tf" -> "tf1" [] kind = "four" -> "fourier1"
                       [] OTHER -> "fft1"
  <2>1. names = <<name>>
    BY <1>4 DEF Leaves
  <2>2. /\ name # "measurements" /\ (name = "dc1" => kind = "dc")
        /\ name \in Answering(kind)
    BY <1>4 DEF Answering
  <2> HIDE DEF name
  <2> QED
    BY <2>1, <2>2
<1> QED
  BY <1>1, <1>2, <1>3, <1>4 DEF Solved, Derived

-----------------------------------------------------------------------------
\* The dispatcher: the sweep is that of the analysis under way, measurements come last.

DispatchOK ==
    /\ AnalysesTypeOK
    /\ \E S : plots \in Seq(S)
    /\ \E S : values \in Seq(S)
    /\ outcome \in {"running", "failed"} => values = <<>>
    /\ outcome = "failed" => plots = <<>>
    /\ outcome \in {"measuring", "done", "panicked"} =>
         /\ status = "idle" /\ turn = Len(Declared(circuit)) + 1
         /\ round = Rounds(circuit)
    /\ status \in {"sweeping", "complete"} =>
         /\ outcome = "running" /\ turn \in DOMAIN Declared(circuit)
         /\ Current.kind = "dc"
         /\ sweep = AtTemperature(Declared(circuit)[FirstOf(circuit, "dc")].spec,
                                  TemperatureIn(circuit, round))

SweepInv == (results = <<>> /\ status = "idle") \/ SweepOK

LEMMA ExtendIs ==
    ASSUME \E S : plots \in Seq(S), NEW names, Len(names) \in Nat,
           DOMAIN names = 1..Len(names), NEW position, NEW data,
           Extend(names, position, data)
    PROVE  /\ \E S : plots' \in Seq(S)
           /\ Len(plots) \in Nat /\ DOMAIN plots = 1..Len(plots)
           /\ Len(plots') = Len(plots) + Len(names)
           /\ DOMAIN plots' = 1..(Len(plots) + Len(names))
           /\ \A k \in 1..Len(plots) : plots'[k] = plots[k]
           /\ \A k \in 1..Len(names) :
                 plots'[Len(plots) + k] = Plot(names[k], position, data)
<1> DEFINE p(k) == Plot(names[k], position, data)
           n == Len(names)
           new == [k \in 1..n |-> p(k)]
<1>1. PICK S : plots \in Seq(S)
  OBVIOUS
<1> DEFINE T == S \cup {p(k) : k \in 1..n}
<1>2. plots \in Seq(T) /\ Len(plots) \in Nat /\ DOMAIN plots = 1..Len(plots)
  BY <1>1, SeqMonotonic, LenProperties
<1>3. \A k \in 1..n : p(k) \in T
  OBVIOUS
<1>4. plots' = plots \o new
  BY DEF Extend
<1> HIDE DEF T, p
<1>5. new \in Seq(T) /\ Len(new) = n
  BY <1>3, IsASeq, LenProperties
<1>6. \A k \in 1..n : new[k] = p(k)
  OBVIOUS
<1> HIDE DEF new, n
<1>7. n \in Nat
  BY DEF n
<1>8. /\ plots' \in Seq(T) /\ Len(plots') = Len(plots) + n
      /\ \A i \in 1..(Len(plots) + n) :
           plots'[i] = IF i <= Len(plots) THEN plots[i] ELSE new[i - Len(plots)]
  BY <1>2, <1>4, <1>5, ConcatProperties
<1>9. DOMAIN plots' = 1..(Len(plots) + n)
  BY <1>8, LenProperties
<1>10. \A k \in 1..Len(plots) : plots'[k] = plots[k]
  BY <1>2, <1>7, <1>8
<1>11. ASSUME NEW k \in 1..n
       PROVE  plots'[Len(plots) + k] = p(k)
  <2>1. Len(plots) + k \in 1..(Len(plots) + n) /\ ~ (Len(plots) + k <= Len(plots))
        /\ Len(plots) + k - Len(plots) = k
    BY <1>2, <1>7
  <2>2. plots'[Len(plots) + k] = new[Len(plots) + k - Len(plots)]
    BY <1>8, <2>1
  <2>3. new[k] = p(k)
    BY <1>6
  <2> QED
    BY <2>1, <2>2, <2>3
<1> QED
  BY <1>2, <1>8, <1>9, <1>10, <1>11 DEF n, p

\* What is true of the step of any analysis that leaves plots.
LEMMA LeavingKeepsDispatch ==
    ASSUME DispatchOK, NEW names, Len(names) \in Nat, DOMAIN names = 1..Len(names),
           NEW position, NEW data, Extend(names, position, data),
           turn \in DOMAIN Declared(circuit), outcome = "running", status' = "idle"
    PROVE  DispatchOK'
<1>1. \E S : plots' \in Seq(S)
  BY ExtendIs DEF DispatchOK
<1>2. /\ circuit' = circuit /\ round' = round /\ turn' = turn + 1 /\ values' = values
      /\ reading' = reading /\ outcome' = outcome
  BY DEF Extend
<1>3. turn + 1 \in 1..(Len(Declared(circuit)) + 1)
  BY DeclaredIs DEF DispatchOK, AnalysesTypeOK
<1>4. AnalysesTypeOK'
  BY <1>2, <1>3 DEF DispatchOK, AnalysesTypeOK
<1> QED
  BY <1>1, <1>2, <1>4 DEF DispatchOK

LEMMA DispatchStep ==
    ASSUME DispatchOK, SweepInv, [AnalysesNext]_all
    PROVE  DispatchOK'
<1>1. circuit \in Circuits /\ DOMAIN Declared(circuit) = 1..Len(Declared(circuit))
      /\ Len(Declared(circuit)) \in Nat /\ turn \in Nat
  BY DeclaredIs DEF DispatchOK, AnalysesTypeOK
<1>2. Running => turn \in DOMAIN Declared(circuit)
  BY <1>1 DEF Running, DispatchOK, AnalysesTypeOK
<1>3. CASE Solve
  <2>1. PICK names \in Leaves(Current.kind) : Extend(names, FirstOf(circuit, Current.kind), <<>>)
    BY <1>3 DEF Solve
  <2>2. Len(names) \in Nat /\ DOMAIN names = 1..Len(names)
    BY <1>3, LeavesAre DEF Solve
  <2>3. status' = "idle" /\ outcome = "running"
    BY <1>3 DEF Solve, Running, vars
  <2> QED
    BY <1>2, <1>3, <2>1, <2>2, <2>3, LeavingKeepsDispatch DEF Solve
<1>4. CASE PostProcess
  <2>1. PICK names \in Leaves(Current.kind) : Extend(names, turn, <<FirstOf(circuit, "tran")>>)
    BY <1>4 DEF PostProcess
  <2>2. Len(names) \in Nat /\ DOMAIN names = 1..Len(names)
    BY <1>4, LeavesAre DEF PostProcess
  <2>3. status' = "idle" /\ outcome = "running"
    BY <1>4 DEF PostProcess, Running, vars
  <2> QED
    BY <1>2, <1>4, <2>1, <2>2, <2>3, LeavingKeepsDispatch DEF PostProcess
<1>5. CASE SweepStarts
  <2>1. turn \in DOMAIN Declared(circuit) /\ Current.kind = "dc" /\ outcome = "running"
        /\ sweep' = AtTemperature(Declared(circuit)[FirstOf(circuit, "dc")].spec,
                                  TemperatureIn(circuit, round))
        /\ status' = "sweeping"
        /\ UNCHANGED dispatch
    BY <1>2, <1>5 DEF SweepStarts, Running
  <2> QED
    BY <2>1 DEF dispatch, DispatchOK, AnalysesTypeOK, Current
<1>6. CASE SweepRuns
  <2>1. /\ status = "sweeping" /\ sweep' = sweep /\ UNCHANGED dispatch
        /\ status' \in {"sweeping", "complete", "failed"}
    BY <1>6 DEF SweepRuns, NextOuter, NextInner, Fails, Complete
  <2> QED
    BY <2>1 DEF dispatch, DispatchOK, AnalysesTypeOK, Current
<1>7. CASE SweepEnds
  <2>1. Len(<<"dc1">>) \in Nat /\ DOMAIN <<"dc1">> = 1..Len(<<"dc1">>)
    OBVIOUS
  <2>2. Extend(<<"dc1">>, FirstOf(circuit, "dc"), results) /\ status' = "idle"
        /\ turn \in DOMAIN Declared(circuit) /\ outcome = "running"
    BY <1>7 DEF SweepEnds, DispatchOK
  <2> QED
    BY <2>1, <2>2, LeavingKeepsDispatch
<1>8. CASE Stop
  <2>1. /\ plots' = <<>> /\ outcome = "running" /\ outcome' = "failed"
        /\ status' = status /\ status \in {"idle", "failed"}
        /\ UNCHANGED <<circuit, round, turn, values, reading>>
    BY <1>8 DEF Stop, Running, vars
  <2>2. plots' \in Seq({})
    BY <2>1
  <2> QED
    BY <2>1, <2>2 DEF DispatchOK, AnalysesTypeOK
<1>9. CASE NextRound
  <2>1. /\ outcome = "running" /\ outcome' = outcome /\ status = "idle" /\ status' = status
        /\ round < Rounds(circuit) /\ round' = round + 1 /\ turn' = 1
        /\ UNCHANGED <<circuit, plots, values, reading>>
    BY <1>9 DEF NextRound, vars
  <2>2. round' \in 1..Rounds(circuit)
    BY <1>1, <2>1, RoundsAre DEF DispatchOK, AnalysesTypeOK
  <2>3. turn' \in 1..(Len(Declared(circuit)) + 1)
    BY <1>1, <2>1
  <2> QED
    BY <2>1, <2>2, <2>3 DEF DispatchOK, AnalysesTypeOK
<1>10. CASE StartMeasuring
  <2>1. /\ outcome = "running" /\ outcome' = "measuring" /\ status = "idle" /\ status' = status
        /\ turn > Len(Declared(circuit)) /\ round = Rounds(circuit)
        /\ UNCHANGED <<circuit, round, turn, plots, values, reading>>
    BY <1>10 DEF StartMeasuring, vars
  <2>2. turn = Len(Declared(circuit)) + 1
    BY <1>1, <2>1 DEF DispatchOK, AnalysesTypeOK
  <2> QED
    BY <2>1, <2>2 DEF DispatchOK, AnalysesTypeOK
<1>11. CASE Measure \/ SkipMeasure
  <2>1. /\ outcome = "measuring" /\ outcome' = outcome /\ status' = status
        /\ reading' = reading + 1 /\ reading < Len(circuit.measures)
        /\ UNCHANGED <<circuit, round, turn, plots>>
    BY <1>11 DEF Measure, SkipMeasure, Measuring, vars
  <2>2. \E S : values' \in Seq(S)
    <3>1. PICK S : values \in Seq(S)
      BY DEF DispatchOK
    <3>2. CASE Measure
      <4>1. PICK v : values' = Append(values, v)
        BY <3>2 DEF Measure
      <4>2. values' \in Seq(S \cup {v})
        BY <3>1, <4>1, PushStack
      <4> QED
        BY <4>2
    <3>3. CASE SkipMeasure
      BY <3>1, <3>3 DEF SkipMeasure
    <3> QED
      BY <1>11, <3>2, <3>3
  <2>3. reading' \in 0..Len(circuit.measures)
    BY <1>1, <2>1, LenProperties, AnalysesAssumption DEF DispatchOK, AnalysesTypeOK
  <2> QED
    BY <2>1, <2>2, <2>3 DEF DispatchOK, AnalysesTypeOK
<1>12. CASE Panic
  <2>1. /\ outcome = "measuring" /\ outcome' = "panicked" /\ status' = status
        /\ UNCHANGED <<circuit, round, turn, plots, values, reading>>
    BY <1>12 DEF Panic, Measuring, vars
  <2> QED
    BY <2>1 DEF DispatchOK, AnalysesTypeOK
<1>13. CASE Finish
  <2>1. /\ outcome = "measuring" /\ outcome' = "done" /\ status' = status
        /\ UNCHANGED <<circuit, round, turn, values, reading>>
    BY <1>13 DEF Finish, vars
  <2>2. \E S : plots' \in Seq(S)
    <3>1. PICK S : plots \in Seq(S)
      BY DEF DispatchOK
    <3>2. PICK p : plots' \in {plots, Append(plots, p)}
      BY <1>13 DEF Finish
    <3>3. Append(plots, p) \in Seq(S \cup {p})
      BY <3>1, PushStack
    <3> QED
      BY <3>1, <3>2, <3>3
  <2> QED
    BY <2>1, <2>2 DEF DispatchOK, AnalysesTypeOK
<1>14. CASE UNCHANGED all
  BY <1>14 DEF all, vars, dispatch, DispatchOK, AnalysesTypeOK, Current
<1> QED
  BY <1>3, <1>4, <1>5, <1>6, <1>7, <1>8, <1>9, <1>10, <1>11, <1>12, <1>13, <1>14 DEF AnalysesNext

LEMMA SweepStep ==
    ASSUME DispatchOK, SweepInv, [AnalysesNext]_all
    PROVE  SweepInv'
<1>1. CASE SweepStarts
  <2> DEFINE f == FirstOf(circuit, "dc")
             t == TemperatureIn(circuit, round)
             s == Declared(circuit)[f].spec
  <2>1. circuit \in Circuits /\ turn \in DOMAIN Declared(circuit)
        /\ Declared(circuit)[turn].kind = "dc" /\ round \in 1..Rounds(circuit)
    BY <1>1, DeclaredIs DEF SweepStarts, Running, Current, DispatchOK, AnalysesTypeOK
  <2>2. f \in DOMAIN Declared(circuit) /\ Declared(circuit)[f].kind = "dc"
    BY <2>1, FirstIsFound, DeclaredIs
  <2>3. s \in Sweeps /\ t \in Int
    BY <2>1, <2>2, DeclaredIs, RoundsAre DEF Solved, Derived
  <2>4. ProperSweep(AtTemperature(s, t))
    BY <2>3, ProperAtTemperature
  <2>5. /\ sweep' = AtTemperature(s, t) /\ rhs' = Original(AtTemperature(s, t))
        /\ under' = Original(AtTemperature(s, t)) /\ outer' = FirstOuter(AtTemperature(s, t))
        /\ inner' = 0 /\ prev' = 0 /\ results' = <<>> /\ status' = "sweeping"
    BY <1>1 DEF SweepStarts
  <2> HIDE DEF s, t
  <2>6. SweepOK'
    BY <2>4, <2>5, SweepStartsOK DEF SweepStart
  <2> QED
    BY <2>6 DEF SweepInv
<1>2. CASE SweepRuns
  <2>1. SweepOK /\ (NextOuter \/ NextInner \/ Fails \/ Complete)
    BY <1>2 DEF SweepRuns, SweepInv, NextOuter, NextInner, Fails, Complete
  <2>2. SweepOK'
    BY <2>1, OuterKeeps, InnerKeeps, SweepStops
  <2> QED
    BY <2>2 DEF SweepInv
<1>3. CASE SweepEnds
  BY <1>3, SweepStays DEF SweepEnds, SweepInv
<1>4. CASE UNCHANGED vars
  BY <1>4, SweepStays DEF vars, SweepInv
<1> QED
  BY <1>1, <1>2, <1>3, <1>4 DEF AnalysesNext, Solve, PostProcess, Stop, NextRound,
     StartMeasuring, Measure, SkipMeasure, Panic, Finish, all

-----------------------------------------------------------------------------
\* A complete sweep.

LEMMA CompleteIs ==
    ASSUME SweepOK, status = "complete"
    PROVE  Len(results) = Len(Points1(sweep)) * Len(Points2(sweep))
<1> DEFINE m == Len(Points1(sweep))
           n == Len(Points2(sweep))
<1>1. m \in Nat \ {0} /\ n \in Nat \ {0}
  BY SweepPoints DEF SweepOK, LoopsOK
<1>2. Len(results) = (n - 1) * m + m
  BY <1>1 DEF SweepOK, LoopsOK, Solved2
<1> HIDE DEF m, n
<1>3. (n - 1) * m + m = m * n
  BY <1>1
<1> QED
  BY <1>2, <1>3 DEF m, n

\* The last point of a range that its step divides is the stop value.
LEMMA LastIsStop ==
    ASSUME NEW r \in RangeType, r.step # 0, Signum(r.stop - r.start) = Signum(r.step),
           Abs(r.stop - r.start) % Abs(r.step) = 0
    PROVE  Points(r)[Len(Points(r))] = r.stop
<1> DEFINE A == Abs(r.stop - r.start)
           B == Abs(r.step)
           m == A \div B
           p(i) == r.start + (i - 1) * r.step
<1>1. r.start \in Int /\ r.stop \in Int /\ r.step \in Int
  BY DEF RangeType
<1>2. A \in Nat /\ B \in Nat \ {0}
  BY <1>1, SignOfStep
<1>3. m \in Nat /\ A = B * m
  <2>1. A % B = 0
    OBVIOUS
  <2> HIDE DEF A, B
  <2> QED
    BY <1>2, <2>1, QuotientIsNat
<1>4. Steps(r) = m
  <2>1. Steps(r) = (2 * A + B) \div (2 * B)
    BY DEF Steps
  <2> HIDE DEF A, B, m
  <2>2. 2 * A + B = m * (2 * B) + B
    BY <1>2, <1>3
  <2>3. 2 * B \in Nat \ {0} /\ B \in 0..(2 * B - 1)
    BY <1>2
  <2>4. (m * (2 * B) + B) \div (2 * B) = m
    BY <1>3, <2>3, DivisionIsUnique
  <2> QED
    BY <2>1, <2>2, <2>4
<1>5. Points(r) = [i \in 1..(m + 1) |-> p(i)]
  BY <1>4 DEF Points
<1>6. p(m + 1) = r.stop
  <2> DEFINE d == r.stop - r.start
  <2>1. m * r.step = d
    <3> HIDE DEF m
    <3>1. CASE d < 0
      <4>1. r.step < 0 /\ A = -d /\ B = -r.step
        BY <1>1, <3>1 DEF Signum, Abs
      <4>2. d \in Int
        BY <1>1
      <4> HIDE DEF d, A, B
      <4>3. -d = (-r.step) * m
        BY <1>3, <4>1
      <4> QED
        BY <1>1, <1>3, <4>2, <4>3
    <3>2. CASE ~ (d < 0)
      <4>1. A = d /\ B = r.step
        BY <1>1, <3>2 DEF Signum, Abs
      <4> HIDE DEF d, A, B
      <4> QED
        BY <1>1, <1>3, <4>1
    <3> QED
      BY <3>1, <3>2
  <2> HIDE DEF m, d
  <2> DEFINE k == m + 1
  <2>2. k - 1 = m
    BY <1>3
  <2> HIDE DEF k
  <2>3. p(k) = r.start + m * r.step
    BY <2>2
  <2>4. p(k) = r.start + d
    BY <2>1, <2>3
  <2> HIDE DEF p
  <2> QED
    BY <1>1, <2>4 DEF k, d
<1>7. m + 1 \in Nat /\ \A i \in 1..(m + 1) : p(i) \in Int
  BY <1>1, <1>3
<1> HIDE DEF p, m
<1>8. Len(Points(r)) = m + 1 /\ m + 1 \in 1..(m + 1)
  BY <1>3, <1>5, <1>7, IsASeq, LenProperties
<1> QED
  BY <1>5, <1>6, <1>8

LEMMA CompleteSweepHasAll == SweepInv => CompleteHasAll
<1> SUFFICES ASSUME SweepInv, status = "complete"
             PROVE  /\ Len(results) = Len(Points1(sweep)) * Len(Points2(sweep))
                    /\ LET r == sweep.src1.range
                       IN  r.step # 0 /\ Signum(r.stop - r.start) = Signum(r.step)
                           /\ (Abs(r.stop - r.start) % Abs(r.step)) = 0
                           => Points1(sweep)[Len(Points1(sweep))] = r.stop
  BY DEF CompleteHasAll
<1>1. SweepOK
  BY DEF SweepInv
<1>2. sweep.src1.range \in RangeType
  BY <1>1, SweepFields DEF SweepOK, LoopsOK
<1> QED
  BY <1>1, <1>2, CompleteIs, LastIsStop DEF Points1

-----------------------------------------------------------------------------
\* The result.

\* No two of the declared analyses are of one kind, and no current source is swept inside
\* another sweep: where this fails, so does what follows.
Sound(c) ==
    /\ \A i, j \in DOMAIN Declared(c) : Declared(c)[i].kind = Declared(c)[j].kind => i = j
    /\ \A i \in DOMAIN Declared(c) :
          Declared(c)[i].kind = "dc" => VoltageInside(Declared(c)[i].spec)

Finished(r, i) == r < round \/ (r = round /\ i < turn)

\* The plots of every finished analysis are together.
BlocksOK ==
    outcome # "failed" =>
        \A r \in 1..Rounds(circuit), i \in DOMAIN Declared(circuit) : Finished(r, i) =>
            \E names \in Leaves(Declared(circuit)[i].kind), before \in 0..Len(plots) :
                LeftBy(plots, r, i, names, before)

SweptAsDeclared(p) ==
    LET s == AtTemperature(Declared(circuit)[p.of].spec, p.temperature)
    IN  /\ Len(p.data) = Len(Points1(s)) * Len(Points2(s))
        /\ \A i \in DOMAIN p.data :
             p.data[i].at = Value1(s, i) /\ p.data[i].rhs = Asked(s, i)

\* A plot is from a finished analysis, or it is the last one, of the measurements.
FromAnalysis(p) ==
    \E q \in 1..round :
        /\ p.label = Label(circuit, q) /\ p.temperature = TemperatureIn(circuit, q)
        /\ p.of \in DOMAIN Declared(circuit) /\ Finished(q, p.of)
        /\ p.name # "measurements"
        /\ p.name = "dc1" => SweptAsDeclared(p)

PlotsOK ==
    \A k \in DOMAIN plots :
        \/ FromAnalysis(plots[k])
        \/ /\ outcome = "done" /\ k = Len(plots)
           /\ plots[k].name = "measurements" /\ plots[k].label = 0 /\ plots[k].of = 0

MeasuresOK ==
    /\ MeasuresAsDeclared
    /\ \A i \in DOMAIN values :
          circuit.measures[values[i].order].of # "param" => values[i].plot \in DOMAIN plots

ResultInv == Sound(circuit) => BlocksOK /\ PlotsOK /\ InOrder /\ MeasuresOK

LEMMA LabelsDiffer ==
    ASSUME NEW c \in Circuits, NEW r \in 1..Rounds(c), NEW q \in 1..Rounds(c)
    PROVE  /\ Label(c, r) = Label(c, q) => r = q
           /\ r < q => Label(c, r) < Label(c, q)
           /\ Label(c, r) \in Nat
BY RoundsAre

LEMMA FirstIsTurn ==
    ASSUME DispatchOK, Sound(circuit), turn \in DOMAIN Declared(circuit)
    PROVE  FirstOf(circuit, Current.kind) = turn
<1>1. FirstOf(circuit, Current.kind) \in DOMAIN Declared(circuit)
      /\ Declared(circuit)[FirstOf(circuit, Current.kind)].kind = Current.kind
  BY FirstIsFound, DeclaredIs DEF DispatchOK, AnalysesTypeOK, Current
<1> QED
  BY <1>1 DEF Sound, Current

\* The analysis whose turn it is leaves its plots after those of the finished ones.
LEMMA LeavingKeepsResult ==
    ASSUME DispatchOK, Sound(circuit), BlocksOK, PlotsOK, InOrder, MeasuresOK,
           turn \in DOMAIN Declared(circuit), outcome = "running",
           NEW names \in Leaves(Current.kind), NEW data, Extend(names, turn, data),
           \A k \in DOMAIN names :
               names[k] = "dc1" => SweptAsDeclared(Plot(names[k], turn, data))
    PROVE  BlocksOK' /\ PlotsOK' /\ InOrder' /\ MeasuresOK'
<1> DEFINE D == Declared(circuit)
           n == Len(plots)
           m == Len(names)
           p(k) == Plot(names[k], turn, data)
<1>1. /\ circuit \in Circuits /\ round \in 1..Rounds(circuit) /\ turn \in Nat \ {0}
      /\ DOMAIN D = 1..Len(D) /\ Len(D) \in Nat /\ Rounds(circuit) \in Nat
  BY DeclaredIs, RoundsAre DEF DispatchOK, AnalysesTypeOK
<1>2. /\ m \in 0..2 /\ DOMAIN names = 1..m /\ \A k \in 1..m : names[k] # "measurements"
  <2>1. Current.kind \in Solved \cup Derived \cup {"dc"}
    BY <1>1, DeclaredIs DEF Current
  <2> QED
    BY <2>1, LeavesAre
<1>3. /\ n \in Nat /\ DOMAIN plots = 1..n /\ Len(plots') = n + m /\ DOMAIN plots' = 1..(n + m)
      /\ \A k \in 1..n : plots'[k] = plots[k]
      /\ \A k \in 1..m : plots'[n + k] = p(k)
  <2>1. \E S : plots \in Seq(S)
    BY DEF DispatchOK
  <2>2. Len(names) \in Nat
    BY <1>2
  <2> HIDE DEF p
  <2> QED
    BY <1>2, <2>1, <2>2, ExtendIs DEF p
<1>4. /\ circuit' = circuit /\ round' = round /\ turn' = turn + 1 /\ values' = values
      /\ outcome' = outcome
  BY DEF Extend
<1>5. \A k \in 1..m : /\ p(k).label = Label(circuit, round) /\ p(k).of = turn
                      /\ p(k).temperature = TemperatureIn(circuit, round)
                      /\ p(k).name = names[k]
  BY DEF Plot
<1>6. \A k \in 1..(n + m) : k \in 1..n \/ (k - n \in 1..m /\ k = n + (k - n))
  BY <1>2, <1>3
<1>7. ASSUME NEW k \in 1..n
      PROVE  \E q \in 1..round : /\ plots[k].label = Label(circuit, q) /\ plots[k].of \in DOMAIN D
                                /\ Finished(q, plots[k].of)
  <2>1. FromAnalysis(plots[k])
    BY <1>3 DEF PlotsOK
  <2> QED
    BY <2>1 DEF FromAnalysis
<1>8. \A q, i : q \in 1..round /\ i \in DOMAIN D /\ Finished(q, i) => Finished(q, i)'
  <2> TAKE q, i
  <2> SUFFICES ASSUME q \in 1..round, i \in DOMAIN D, Finished(q, i)
               PROVE  Finished(q, i)'
    OBVIOUS
  <2>1. i \in Nat /\ q \in Nat
    BY <1>1
  <2> QED
    BY <1>1, <1>4, <2>1 DEF Finished
<1> HIDE DEF p
<1>9. \A k \in 1..n : ~ (plots[k].label = Label(circuit, round) /\ plots[k].of = turn)
  <2> SUFFICES ASSUME NEW k \in 1..n, plots[k].label = Label(circuit, round), plots[k].of = turn
               PROVE  FALSE
    OBVIOUS
  <2>1. PICK q \in 1..round : plots[k].label = Label(circuit, q) /\ Finished(q, turn)
    BY <1>7
  <2>2. q \in 1..Rounds(circuit)
    BY <1>1
  <2>3. q = round
    BY <1>1, <2>1, <2>2, LabelsDiffer
  <2> QED
    BY <1>1, <2>1, <2>3 DEF Finished
<1>10. BlocksOK'
  <2>0. \A r, i, ns, before :
           LeftBy(plots', r, i, ns, before) <=> LeftBy(plots, r, i, ns, before)'
    BY <1>4 DEF LeftBy
  <2> SUFFICES ASSUME NEW r \in 1..Rounds(circuit), NEW i \in DOMAIN D,
                      r < round \/ (r = round /\ i < turn + 1)
               PROVE  \E ns \in Leaves(D[i].kind), before \in 0..Len(plots') :
                          LeftBy(plots', r, i, ns, before)
    BY <1>4, <2>0 DEF BlocksOK, Finished
  <2>1. CASE r = round /\ i = turn
    <3>1. names \in Leaves(D[i].kind) /\ n \in 0..Len(plots')
      BY <1>2, <1>3, <2>1 DEF Current
    <3>2. \A k \in 1..(n + m) :
             plots'[k].label = Label(circuit, r) /\ plots'[k].of = i <=> k \in (n + 1)..(n + m)
      <4> SUFFICES ASSUME NEW k \in 1..(n + m)
                   PROVE  plots'[k].label = Label(circuit, r) /\ plots'[k].of = i
                          <=> k \in (n + 1)..(n + m)
        OBVIOUS
      <4>1. CASE k \in 1..n
        BY <1>2, <1>3, <1>9, <2>1, <4>1
      <4>2. CASE k - n \in 1..m /\ k = n + (k - n)
        <5>1. plots'[k].label = Label(circuit, r) /\ plots'[k].of = i
          BY <1>3, <1>5, <2>1, <4>2
        <5>2. k \in (n + 1)..(n + m)
          BY <1>2, <1>3, <4>2
        <5> QED
          BY <5>1, <5>2
      <4> QED
        BY <1>6, <4>1, <4>2
    <3>3. \A k \in 1..m : plots'[n + k].name = names[k]
      BY <1>3, <1>5
    <3>4. LeftBy(plots', r, i, names, n)
      BY <1>2, <1>3, <1>4, <3>2, <3>3 DEF LeftBy
    <3> QED
      BY <3>1, <3>4
  <2>2. CASE ~ (r = round /\ i = turn)
    <3>1. Finished(r, i)
      BY <1>1, <2>2 DEF Finished
    <3>2. PICK ns \in Leaves(D[i].kind), before \in 0..n : LeftBy(plots, r, i, ns, before)
      BY <3>1 DEF BlocksOK
    <3>3. Len(ns) \in Nat
      BY DeclaredIs, LeavesAre, <1>1
    <3>4. before \in 0..Len(plots')
      BY <1>2, <1>3
    <3>5. before + Len(ns) <= n
      BY <3>2 DEF LeftBy
    <3>6. before + Len(ns) <= Len(plots')
      BY <1>2, <1>3, <3>3, <3>5
    <3>7. ASSUME NEW k \in 1..(n + m)
          PROVE  plots'[k].label = Label(circuit, r) /\ plots'[k].of = i
                 <=> k \in (before + 1)..(before + Len(ns))
      <4>1. CASE k \in 1..n
        BY <1>3, <3>2, <4>1 DEF LeftBy
      <4>2. CASE k - n \in 1..m /\ k = n + (k - n)
        <5>1. plots'[k].label = Label(circuit, round) /\ plots'[k].of = turn
          BY <1>3, <1>5, <4>2
        <5>2. Label(circuit, round) = Label(circuit, r) => r = round
          BY <1>1, LabelsDiffer
        <5>3. k \notin (before + 1)..(before + Len(ns))
          BY <1>2, <1>3, <3>3, <3>5, <4>2
        <5> QED
          BY <2>2, <5>1, <5>2, <5>3
      <4> QED
        BY <1>6, <4>1, <4>2
    <3>8. \A k \in DOMAIN ns : plots'[before + k].name = ns[k]
      <4>1. DOMAIN ns = 1..Len(ns)
        BY DeclaredIs, LeavesAre, <1>1
      <4>2. \A k \in DOMAIN ns : before + k \in 1..n
        BY <1>3, <3>3, <3>5, <4>1
      <4> QED
        BY <1>3, <3>2, <4>2 DEF LeftBy
    <3>9. LeftBy(plots', r, i, ns, before)
      BY <1>3, <1>4, <3>6, <3>7, <3>8 DEF LeftBy
    <3> QED
      BY <3>4, <3>9
  <2> QED
    BY <2>1, <2>2
<1>11. PlotsOK'
  <2> SUFFICES ASSUME NEW k \in 1..(n + m) PROVE FromAnalysis(plots[k])'
    BY <1>3 DEF PlotsOK
  <2>1. CASE k \in 1..n
    <3>1. FromAnalysis(plots[k])
      BY <1>3, <2>1 DEF PlotsOK
    <3> QED
      BY <1>3, <1>4, <1>8, <2>1, <3>1 DEF FromAnalysis, SweptAsDeclared
  <2>2. CASE k - n \in 1..m /\ k = n + (k - n)
    <3>1. plots'[k] = p(k - n)
      BY <1>3, <2>2
    <3>2. round \in 1..round /\ turn \in DOMAIN D /\ round = round' /\ turn < turn'
      BY <1>1, <1>4
    <3>3. plots'[k].name = "dc1" => SweptAsDeclared(plots'[k])
      BY <1>2, <1>5, <2>2, <3>1 DEF p
    <3> QED
      BY <1>2, <1>4, <1>5, <2>2, <3>1, <3>2, <3>3 DEF FromAnalysis, SweptAsDeclared, Finished
  <2> QED
    BY <1>6, <2>1, <2>2
<1>12. InOrder'
  <2> SUFFICES ASSUME NEW j \in 1..(n + m), NEW k \in 1..(n + m), j < k
               PROVE  \/ plots'[j].label < plots'[k].label
                      \/ plots'[j].label = plots'[k].label /\ plots'[j].of <= plots'[k].of
    BY <1>3 DEF InOrder
  <2>1. CASE k \in 1..n
    <3>1. j \in 1..n
      BY <1>3, <2>1
    <3>2. plots[k].name # "measurements"
      BY <1>3, <2>1 DEF PlotsOK, FromAnalysis
    <3> QED
      BY <1>3, <2>1, <3>1, <3>2 DEF InOrder
  <2>2. CASE k - n \in 1..m /\ k = n + (k - n)
    <3>1. plots'[k].label = Label(circuit, round) /\ plots'[k].of = turn
      BY <1>3, <1>5, <2>2
    <3>2. CASE j \in 1..n
      <4>1. PICK q \in 1..round : plots[j].label = Label(circuit, q) /\ plots[j].of \in DOMAIN D
                                  /\ Finished(q, plots[j].of)
        BY <1>7, <3>2
      <4>2. q \in 1..Rounds(circuit) /\ plots[j].of \in Nat
        BY <1>1, <4>1
      <4>3. CASE q = round
        BY <1>1, <1>3, <3>1, <3>2, <4>1, <4>2, <4>3 DEF Finished
      <4>4. CASE q < round
        BY <1>1, <1>3, <3>1, <3>2, <4>1, <4>2, <4>4, LabelsDiffer
      <4> QED
        BY <1>1, <4>1, <4>2, <4>3, <4>4
    <3>3. CASE j - n \in 1..m /\ j = n + (j - n)
      <4>1. plots'[j].label = Label(circuit, round) /\ plots'[j].of = turn
        BY <1>3, <1>5, <3>3
      <4> QED
        BY <1>1, <3>1, <4>1
    <3> QED
      BY <1>6, <3>2, <3>3
  <2> QED
    BY <1>6, <2>1, <2>2
<1>13. MeasuresOK'
  <2>1. values = <<>>
    BY DEF DispatchOK
  <2> QED
    BY <1>4, <2>1 DEF MeasuresOK, MeasuresAsDeclared
<1> QED
  BY <1>10, <1>11, <1>12, <1>13

LEMMA ReadsIs ==
    ASSUME \E S : plots \in Seq(S), NEW of
    PROVE  /\ Reads(of) # 0 => Reads(of) \in DOMAIN plots /\ plots[Reads(of)].name \in Answering(of)
           /\ \A k \in DOMAIN plots : plots[k].name \in Answering(of) => Reads(of) <= k
<1> DEFINE I == {k \in 1..Len(plots) : plots[k].name \in Answering(of)}
<1>1. Reads(of) = IF I # {} THEN Min(I) ELSE 0
  BY DEF Reads, SelectInSeq
<1>2. Len(plots) \in Nat /\ DOMAIN plots = 1..Len(plots)
  BY LenProperties
<1>3. I # {} => Min(I) \in I /\ \A k \in I : Min(I) <= k
  <2>1. I \in SUBSET Nat
    BY <1>2
  <2> HIDE DEF I
  <2> QED
    BY <2>1, LeastIndex DEF Min
<1>4. Reads(of) # 0 => Reads(of) \in I
  BY <1>1, <1>3
<1>5. \A k \in DOMAIN plots : plots[k].name \in Answering(of) => k \in I
  BY <1>2
<1>6. \A k \in I : Reads(of) <= k
  BY <1>1, <1>3
<1> QED
  BY <1>2, <1>4, <1>5, <1>6

\* The parts of ResultInv on which neither a sweep nor a measurement has an influence.
LEMMA UntouchedResult ==
    ASSUME UNCHANGED <<circuit, round, turn, plots>>, BlocksOK, PlotsOK, InOrder,
           \/ outcome' = outcome
           \/ outcome \in {"running", "measuring"} /\ outcome' \in {"measuring", "panicked"}
    PROVE  BlocksOK' /\ PlotsOK' /\ InOrder'
<1>1. BlocksOK'
  <2>1. \A r, i, names, before :
           LeftBy(plots, r, i, names, before)' <=> LeftBy(plots, r, i, names, before)
    BY DEF LeftBy
  <2>2. \A r, i : Finished(r, i)' <=> Finished(r, i)
    BY DEF Finished
  <2>3. outcome' # "failed" => outcome # "failed"
    OBVIOUS
  <2> QED
    BY <2>1, <2>2, <2>3 DEF BlocksOK
<1>2. PlotsOK'
  BY DEF PlotsOK, FromAnalysis, SweptAsDeclared, Finished
<1>3. InOrder'
  BY DEF InOrder
<1> QED
  BY <1>1, <1>2, <1>3

\* The first plot that answers a measurement is of the first temperature if the circuit
\* declares the analysis: its plots of that temperature are there, and come first.
LEMMA FirstRoundAnswers ==
    ASSUME DispatchOK, BlocksOK, PlotsOK, InOrder, outcome = "measuring",
           NEW of, FirstOf(circuit, of) # 0, Reads(of) # 0,
           plots[Reads(of)].name \notin Complex
    PROVE  plots[Reads(of)].label <= 1
<1> DEFINE D == Declared(circuit)
           f == FirstOf(circuit, of)
           j == Reads(of)
<1>1. /\ circuit \in Circuits /\ round = Rounds(circuit) /\ turn = Len(D) + 1
      /\ Rounds(circuit) \in Nat \ {0} /\ 1 \in 1..Rounds(circuit)
      /\ DOMAIN D = 1..Len(D) /\ Len(D) \in Nat
  BY DeclaredIs, RoundsAre DEF DispatchOK, AnalysesTypeOK
<1>2. f \in DOMAIN D /\ D[f].kind = of
  BY <1>1, FirstIsFound
<1>3. of \in Solved \cup Derived \cup {"dc"}
  BY <1>1, <1>2, DeclaredIs
<1>4. Finished(1, f)
  BY <1>1, <1>2 DEF Finished
<1>5. PICK names \in Leaves(of), before \in 0..Len(plots) : LeftBy(plots, 1, f, names, before)
  BY <1>1, <1>2, <1>4 DEF BlocksOK
<1>6. /\ j \in DOMAIN plots /\ plots[j].name \in Answering(of)
      /\ \A k \in DOMAIN plots : plots[k].name \in Answering(of) => j <= k
      /\ DOMAIN plots = 1..Len(plots) /\ Len(plots) \in Nat
  BY ReadsIs, LenProperties DEF DispatchOK
<1>7. of # "pz"
  BY <1>6 DEF Answering, Complex
<1>8. PICK i \in DOMAIN names : names[i] \in Answering(of)
  BY <1>3, <1>5, <1>7, LeavesAre
<1>9. i \in 1..Len(names) /\ Len(names) \in Nat /\ names[i] # "measurements"
  BY <1>3, <1>5, <1>8, LeavesAre
<1> DEFINE k == before + i
<1>10. k \in DOMAIN plots /\ k \in (before + 1)..(before + Len(names))
  BY <1>5, <1>6, <1>9 DEF LeftBy
<1>11. plots[k].name = names[i] /\ plots[k].label = Label(circuit, 1)
  BY <1>5, <1>8, <1>10 DEF LeftBy
<1> HIDE DEF k
<1>12. j <= k /\ plots[k].name # "measurements" /\ j \in Nat /\ k \in Nat
  BY <1>6, <1>8, <1>9, <1>10, <1>11
<1>13. Label(circuit, 1) \in {0, 1}
  BY <1>1, RoundsAre
<1>14. plots[j].label <= plots[k].label
  <2>1. CASE j = k
    BY <1>11, <1>13, <2>1
  <2>2. CASE j < k
    <3>1. plots[j].label < plots[k].label \/ plots[j].label = plots[k].label
      BY <1>6, <1>10, <1>12, <2>2 DEF InOrder
    <3>2. PICK q \in 1..round : plots[j].label = Label(circuit, q)
      BY <1>6 DEF PlotsOK, FromAnalysis
    <3>3. plots[j].label \in Nat
      BY <1>1, <3>2, LabelsDiffer
    <3> QED
      BY <1>11, <1>13, <3>1, <3>3
  <2> QED
    BY <1>12, <2>1, <2>2
<1>15. plots[j].label \in Nat
  <2>1. PICK q \in 1..round : plots[j].label = Label(circuit, q)
    BY <1>6 DEF PlotsOK, FromAnalysis
  <2> QED
    BY <1>1, <2>1, LabelsDiffer
<1> QED
  BY <1>11, <1>13, <1>14, <1>15

LEMMA MeasureKeeps ==
    ASSUME DispatchOK, BlocksOK, PlotsOK, InOrder, MeasuresOK, Measure
    PROVE  MeasuresOK'
<1> DEFINE v == [name |-> Asks.name, order |-> reading + 1,
                 plot |-> IF Asks.of = "param" THEN 0 ELSE Reads(Asks.of)]
           n == Len(values)
<1>1. /\ outcome = "measuring" /\ values' = Append(values, v)
      /\ UNCHANGED <<circuit, round, turn, plots, outcome>>
      /\ Asks.uses \subseteq Known /\ (Asks.of # "param" => Reads(Asks.of) # 0)
      /\ (Asks.of # "param" => plots[Reads(Asks.of)].name \notin Complex)
  BY DEF Measure, Measuring, Answerable, OnComplex
<1>2. PICK S : values \in Seq(S)
  BY DEF DispatchOK
<1> HIDE DEF v
<1>3. /\ n \in Nat /\ DOMAIN values = 1..n /\ DOMAIN values' = 1..(n + 1)
      /\ \A i \in 1..n : values'[i] = values[i]
      /\ values'[n + 1] = v
  BY <1>1, <1>2, PushStack, LenProperties
<1>4. /\ v.order = reading + 1 /\ circuit.measures[v.order] = Asks
      /\ Asks.of # "param" => v.plot = Reads(Asks.of)
  BY DEF v, Asks
<1> HIDE DEF n
<1> SUFFICES ASSUME NEW i \in 1..(n + 1)
             PROVE  LET m == circuit.measures[values'[i].order]
                    IN  /\ \A x \in m.uses : \E j \in 1..(i - 1) : values'[j].name = x
                        /\ m.of # "param" =>
                             /\ plots[values'[i].plot].name \in Answering(m.of)
                             /\ FirstOf(circuit, m.of) # 0 => plots[values'[i].plot].label <= 1
                             /\ values'[i].plot \in DOMAIN plots
  BY <1>1, <1>3 DEF MeasuresOK, MeasuresAsDeclared
<1> DEFINE m == circuit.measures[values'[i].order]
<1>5. CASE i \in 1..n
  <2>1. values'[i] = values[i] /\ m = circuit.measures[values[i].order]
    BY <1>3, <1>5
  <2>2. \A x \in m.uses : \E j \in 1..(i - 1) : values[j].name = x
    BY <1>3, <1>5, <2>1 DEF MeasuresOK, MeasuresAsDeclared
  <2>3. \A j \in 1..(i - 1) : values'[j] = values[j]
    BY <1>3, <1>5
  <2>4. m.of # "param" =>
           /\ plots[values[i].plot].name \in Answering(m.of)
           /\ FirstOf(circuit, m.of) # 0 => plots[values[i].plot].label <= 1
           /\ values[i].plot \in DOMAIN plots
    BY <1>3, <1>5, <2>1 DEF MeasuresOK, MeasuresAsDeclared
  <2> QED
    BY <2>1, <2>2, <2>3, <2>4
<1>6. CASE i = n + 1
  <2>1. values'[i] = v /\ m = Asks
    BY <1>3, <1>4, <1>6
  <2>2. \A x \in Asks.uses : \E j \in 1..n : values[j].name = x
    BY <1>1, <1>3 DEF Known
  <2>3. i - 1 = n
    BY <1>3, <1>6
  <2>4. \A x \in m.uses : \E j \in 1..(i - 1) : values'[j].name = x
    BY <1>3, <2>1, <2>2, <2>3
  <2>5. ASSUME m.of # "param"
        PROVE  /\ plots[v.plot].name \in Answering(m.of) /\ v.plot \in DOMAIN plots
               /\ FirstOf(circuit, m.of) # 0 => plots[v.plot].label <= 1
    <3>1. v.plot = Reads(m.of) /\ Reads(m.of) # 0 /\ plots[Reads(m.of)].name \notin Complex
      BY <1>1, <1>4, <2>1, <2>5
    <3>2. plots[v.plot].name \in Answering(m.of) /\ v.plot \in DOMAIN plots
      BY <3>1, ReadsIs DEF DispatchOK
    <3> QED
      BY <1>1, <3>1, <3>2, FirstRoundAnswers
  <2> QED
    BY <2>1, <2>4, <2>5
<1> QED
  BY <1>3, <1>5, <1>6

\* The table of measurements comes after the plots of the analyses.
LEMMA FinishKeeps ==
    ASSUME DispatchOK, BlocksOK, PlotsOK, InOrder, MeasuresOK, Finish
    PROVE  BlocksOK' /\ PlotsOK' /\ InOrder' /\ MeasuresOK'
<1> DEFINE table == [name |-> "measurements", label |-> 0, of |-> 0,
                     temperature |-> 0, data |-> values]
           D == Declared(circuit)
           n == Len(plots)
<1>1. /\ outcome = "measuring" /\ outcome' = "done"
      /\ plots' = plots \/ plots' = Append(plots, table)
      /\ UNCHANGED <<circuit, round, turn, values>>
  BY DEF Finish
<1>2. /\ circuit \in Circuits /\ DOMAIN D = 1..Len(D) /\ Len(D) \in Nat
      /\ n \in Nat /\ DOMAIN plots = 1..n
  BY DeclaredIs, LenProperties DEF DispatchOK, AnalysesTypeOK
<1>3. /\ table.name = "measurements" /\ table.label = 0 /\ table.of = 0
  OBVIOUS
<1> HIDE DEF table
<1>4. CASE plots' = plots
  <2>1. BlocksOK'
    <3>1. \A r, i, names, before :
             LeftBy(plots, r, i, names, before)' <=> LeftBy(plots, r, i, names, before)
      BY <1>1, <1>4 DEF LeftBy
    <3> QED
      BY <1>1, <1>4, <3>1 DEF BlocksOK, Finished
  <2>2. PlotsOK' /\ InOrder'
    BY <1>1, <1>4 DEF PlotsOK, FromAnalysis, SweptAsDeclared, Finished, InOrder
  <2>3. MeasuresOK'
    BY <1>1, <1>4 DEF MeasuresOK, MeasuresAsDeclared
  <2> QED
    BY <2>1, <2>2, <2>3
<1>5. CASE plots' = Append(plots, table)
  <2>1. /\ Len(plots') = n + 1 /\ DOMAIN plots' = 1..(n + 1)
        /\ \A k \in 1..n : plots'[k] = plots[k]
        /\ plots'[n + 1] = table
    <3>1. PICK S : plots \in Seq(S)
      BY DEF DispatchOK
    <3> QED
      BY <1>5, <3>1, PushStack
  <2>2. BlocksOK'
    <3>1. \A r, i, names, before :
             LeftBy(plots', r, i, names, before) <=> LeftBy(plots, r, i, names, before)'
      BY <1>1 DEF LeftBy
    <3> SUFFICES ASSUME NEW r \in 1..Rounds(circuit), NEW i \in DOMAIN D, Finished(r, i)
                 PROVE  \E names \in Leaves(D[i].kind), before \in 0..Len(plots') :
                            LeftBy(plots', r, i, names, before)
      BY <1>1, <3>1 DEF BlocksOK, Finished
    <3>2. PICK names \in Leaves(D[i].kind), before \in 0..n : LeftBy(plots, r, i, names, before)
      BY <1>1 DEF BlocksOK
    <3>3. Len(names) \in Nat /\ DOMAIN names = 1..Len(names)
      BY <1>2, DeclaredIs, LeavesAre
    <3>4. before \in 0..Len(plots') /\ before + Len(names) <= n
          /\ before + Len(names) <= Len(plots')
      BY <1>2, <2>1, <3>2, <3>3 DEF LeftBy
    <3>5. \A k \in 1..(n + 1) :
             plots'[k].label = Label(circuit, r) /\ plots'[k].of = i
             <=> k \in (before + 1)..(before + Len(names))
      <4> SUFFICES ASSUME NEW k \in 1..(n + 1)
                   PROVE  plots'[k].label = Label(circuit, r) /\ plots'[k].of = i
                          <=> k \in (before + 1)..(before + Len(names))
        OBVIOUS
      <4>1. CASE k \in 1..n
        BY <1>2, <2>1, <3>2, <4>1 DEF LeftBy
      <4>2. CASE k = n + 1
        <5>1. plots'[k].of # i
          BY <1>2, <1>3, <2>1, <4>2
        <5>2. k \notin (before + 1)..(before + Len(names))
          BY <1>2, <3>3, <3>4, <4>2
        <5> QED
          BY <5>1, <5>2
      <4> QED
        BY <1>2, <4>1, <4>2
    <3>6. \A k \in DOMAIN names : plots'[before + k].name = names[k]
      <4>1. \A k \in DOMAIN names : before + k \in 1..n
        BY <1>2, <3>3, <3>4
      <4> QED
        BY <2>1, <3>2, <4>1 DEF LeftBy
    <3>7. LeftBy(plots', r, i, names, before)
      BY <1>1, <2>1, <3>4, <3>5, <3>6 DEF LeftBy
    <3> QED
      BY <3>4, <3>7
  <2>3. \A k \in 1..n : FromAnalysis(plots[k])
    BY <1>1, <1>2 DEF PlotsOK
  <2>4. PlotsOK'
    <3> SUFFICES ASSUME NEW k \in 1..(n + 1)
                 PROVE  \/ FromAnalysis(plots[k])'
                        \/ /\ k = n + 1
                           /\ plots'[k].name = "measurements" /\ plots'[k].label = 0
                           /\ plots'[k].of = 0
      BY <1>1, <2>1 DEF PlotsOK
    <3>1. CASE k \in 1..n
      BY <1>1, <2>1, <2>3, <3>1 DEF FromAnalysis, SweptAsDeclared, Finished
    <3>2. CASE k = n + 1
      BY <1>3, <2>1, <3>2
    <3> QED
      BY <1>2, <3>1, <3>2
  <2>5. InOrder'
    <3> SUFFICES ASSUME NEW j \in 1..(n + 1), NEW k \in 1..(n + 1), j < k,
                        plots'[k].name # "measurements"
                 PROVE  \/ plots'[j].label < plots'[k].label
                        \/ plots'[j].label = plots'[k].label /\ plots'[j].of <= plots'[k].of
      BY <2>1 DEF InOrder
    <3>1. j \in 1..n /\ k \in 1..n
      BY <1>2, <1>3, <2>1
    <3> QED
      BY <1>2, <2>1, <3>1 DEF InOrder
  <2>6. MeasuresOK'
    <3> SUFFICES ASSUME NEW i \in DOMAIN values
                 PROVE  LET m == circuit.measures[values[i].order]
                            k == values[i].plot
                        IN  /\ \A x \in m.uses : \E j \in 1..(i - 1) : values[j].name = x
                            /\ m.of # "param" =>
                                 /\ plots'[k].name \in Answering(m.of)
                                 /\ FirstOf(circuit, m.of) # 0 => plots'[k].label <= 1
                                 /\ k \in DOMAIN plots'
      BY <1>1 DEF MeasuresOK, MeasuresAsDeclared
    <3> DEFINE m == circuit.measures[values[i].order]
               k == values[i].plot
    <3>1. /\ \A x \in m.uses : \E j \in 1..(i - 1) : values[j].name = x
          /\ m.of # "param" =>
               /\ plots[k].name \in Answering(m.of)
               /\ FirstOf(circuit, m.of) # 0 => plots[k].label <= 1
               /\ k \in DOMAIN plots
      BY DEF MeasuresOK, MeasuresAsDeclared
    <3>2. m.of # "param" => plots'[k] = plots[k] /\ k \in DOMAIN plots'
      BY <1>2, <2>1, <3>1
    <3> QED
      BY <3>1, <3>2
  <2> QED
    BY <2>2, <2>4, <2>5, <2>6
<1> QED
  BY <1>1, <1>4, <1>5

LEMMA InitOK == AnalysesInit => DispatchOK /\ SweepInv /\ ResultInv
<1> SUFFICES ASSUME AnalysesInit PROVE DispatchOK /\ SweepInv /\ ResultInv
  OBVIOUS
<1>1. /\ circuit \in Circuits /\ round = 1 /\ turn = 1 /\ plots = <<>> /\ values = <<>>
      /\ reading = 0 /\ outcome = "running" /\ status = "idle" /\ results = <<>>
      /\ <<>> \in Seq({}) /\ DOMAIN <<>> = {}
  BY DEF AnalysesInit
<1>2. /\ Len(Declared(circuit)) \in Nat \ {0} /\ Rounds(circuit) \in Nat \ {0}
      /\ DOMAIN Declared(circuit) = 1..Len(Declared(circuit))
      /\ Len(circuit.measures) \in Nat
  BY <1>1, DeclaredIs, RoundsAre, AnalysesAssumption, LenProperties
<1>3. AnalysesTypeOK
  BY <1>1, <1>2 DEF AnalysesTypeOK
<1>4. DispatchOK
  BY <1>1, <1>3 DEF DispatchOK
<1>5. BlocksOK
  BY <1>1, <1>2 DEF BlocksOK, Finished
<1>6. PlotsOK /\ InOrder /\ MeasuresOK
  BY <1>1 DEF PlotsOK, InOrder, MeasuresOK, MeasuresAsDeclared
<1> QED
  BY <1>1, <1>4, <1>5, <1>6 DEF SweepInv, ResultInv

LEMMA NextRoundKeeps ==
    ASSUME DispatchOK, BlocksOK, PlotsOK, InOrder, MeasuresOK, NextRound
    PROVE  BlocksOK' /\ PlotsOK' /\ InOrder' /\ MeasuresOK'
<1>1. /\ outcome = "running" /\ turn > Len(Declared(circuit)) /\ round' = round + 1
      /\ turn' = 1 /\ UNCHANGED <<circuit, plots, values, outcome>>
  BY DEF NextRound
<1>2. /\ DOMAIN Declared(circuit) = 1..Len(Declared(circuit))
      /\ Len(Declared(circuit)) \in Nat /\ Rounds(circuit) \in Nat
      /\ round \in 1..Rounds(circuit) /\ turn \in Nat
  BY DeclaredIs, RoundsAre DEF DispatchOK, AnalysesTypeOK
<1>3. \A r \in 1..Rounds(circuit), i \in DOMAIN Declared(circuit) :
         Finished(r, i)' <=> Finished(r, i)
  BY <1>1, <1>2 DEF Finished
<1>4. BlocksOK'
  <2>1. \A r, i, names, before :
           LeftBy(plots, r, i, names, before)' <=> LeftBy(plots, r, i, names, before)
    BY <1>1 DEF LeftBy
  <2> QED
    BY <1>1, <1>3, <2>1 DEF BlocksOK
<1>5. PlotsOK'
  <2>1. ASSUME NEW k \in DOMAIN plots
        PROVE  FromAnalysis(plots[k])'
    <3>1. FromAnalysis(plots[k])
      BY <1>1, <2>1 DEF PlotsOK
    <3>2. PICK q \in 1..round :
             /\ plots[k].label = Label(circuit, q)
             /\ plots[k].temperature = TemperatureIn(circuit, q)
             /\ plots[k].of \in DOMAIN Declared(circuit) /\ Finished(q, plots[k].of)
             /\ plots[k].name # "measurements"
             /\ plots[k].name = "dc1" => SweptAsDeclared(plots[k])
      BY <3>1 DEF FromAnalysis
    <3>3. q \in 1..round' /\ q \in 1..Rounds(circuit)
      BY <1>1, <1>2
    <3>4. Finished(q, plots[k].of)'
      BY <1>1, <1>2, <3>2 DEF Finished
    <3>5. plots[k].name = "dc1" => SweptAsDeclared(plots[k])'
      BY <1>1, <3>2 DEF SweptAsDeclared
    <3> QED
      BY <1>1, <3>2, <3>3, <3>4, <3>5 DEF FromAnalysis
  <2> QED
    BY <1>1, <2>1 DEF PlotsOK
<1>6. InOrder' /\ MeasuresOK'
  BY <1>1 DEF InOrder, MeasuresOK, MeasuresAsDeclared
<1> QED
  BY <1>4, <1>5, <1>6

\* The plot of a sweep holds the sweep that was declared.
LEMMA SweepLeft ==
    ASSUME DispatchOK, SweepInv, Sound(circuit), status = "complete"
    PROVE  SweptAsDeclared(Plot("dc1", turn, results))
<1> DEFINE t == TemperatureIn(circuit, round)
           spec == Declared(circuit)[turn].spec
           p == Plot("dc1", turn, results)
<1>1. /\ turn \in DOMAIN Declared(circuit) /\ Current.kind = "dc" /\ circuit \in Circuits
      /\ sweep = AtTemperature(Declared(circuit)[FirstOf(circuit, "dc")].spec, t)
      /\ round \in 1..Rounds(circuit)
  BY DEF DispatchOK, AnalysesTypeOK
<1>2. FirstOf(circuit, "dc") = turn /\ sweep = AtTemperature(spec, t)
  BY <1>1, FirstIsTurn
<1>3. spec \in Sweeps /\ t \in Int /\ VoltageInside(spec)
  BY <1>1, DeclaredIs, RoundsAre DEF Current, Sound, Solved, Derived
<1>4. SweepOK
  BY DEF SweepInv
<1>5. VoltageInside(sweep)
  BY <1>2, <1>3, ProperAtTemperature
<1>6. PointsAreAsked
  BY <1>4, <1>5 DEF SweepOK, RowsOK
<1>7. Len(results) = Len(Points1(sweep)) * Len(Points2(sweep))
  BY <1>4, CompleteIs
<1>8. p.of = turn /\ p.temperature = t /\ p.data = results
  BY DEF Plot
<1> HIDE DEF p, t, spec
<1>9. SweptAsDeclared(p)
  BY <1>2, <1>6, <1>7, <1>8 DEF SweptAsDeclared, PointsAreAsked, spec
<1> QED
  BY <1>9 DEF p

LEMMA ResultStep ==
    ASSUME DispatchOK, SweepInv, ResultInv, [AnalysesNext]_all
    PROVE  ResultInv'
<1>1. circuit' = circuit
  BY DEF AnalysesNext, Solve, PostProcess, Extend, SweepStarts, SweepRuns, SweepEnds, Stop,
     NextRound, StartMeasuring, Measure, SkipMeasure, Panic, Finish, all, dispatch
<1> SUFFICES ASSUME Sound(circuit)
             PROVE  BlocksOK' /\ PlotsOK' /\ InOrder' /\ MeasuresOK'
  BY <1>1 DEF ResultInv, Sound
<1>2. BlocksOK /\ PlotsOK /\ InOrder /\ MeasuresOK
  BY DEF ResultInv
<1>3. DOMAIN Declared(circuit) = 1..Len(Declared(circuit)) /\ turn \in Nat \ {0}
      /\ Len(Declared(circuit)) \in Nat
  BY DeclaredIs DEF DispatchOK, AnalysesTypeOK
<1>4. Running => turn \in DOMAIN Declared(circuit) /\ FirstOf(circuit, Current.kind) = turn
                 /\ outcome = "running"
  BY <1>3, FirstIsTurn DEF Running
<1>5. CASE Solve
  <2>1. PICK names \in Leaves(Current.kind) : Extend(names, turn, <<>>)
    BY <1>4, <1>5 DEF Solve
  <2>2. \A k \in DOMAIN names : names[k] # "dc1"
    BY <1>5, LeavesAre DEF Solve, Solved
  <2> QED
    BY <1>2, <1>4, <1>5, <2>1, <2>2, LeavingKeepsResult DEF Solve
<1>6. CASE PostProcess
  <2>1. PICK names \in Leaves(Current.kind) : Extend(names, turn, <<FirstOf(circuit, "tran")>>)
    BY <1>6 DEF PostProcess
  <2>2. \A k \in DOMAIN names : names[k] # "dc1"
    BY <1>6, LeavesAre DEF PostProcess, Derived
  <2> QED
    BY <1>2, <1>4, <1>6, <2>1, <2>2, LeavingKeepsResult DEF PostProcess
<1>7. CASE SweepEnds
  <2>1. /\ outcome = "running" /\ status = "complete" /\ Current.kind = "dc"
        /\ turn \in DOMAIN Declared(circuit)
        /\ Extend(<<"dc1">>, FirstOf(circuit, "dc"), results)
    BY <1>7 DEF SweepEnds, DispatchOK
  <2>2. Extend(<<"dc1">>, turn, results)
    BY <2>1, FirstIsTurn
  <2>3. <<"dc1">> \in Leaves(Current.kind)
    BY <2>1 DEF Leaves
  <2>4. \A k \in DOMAIN <<"dc1">> : SweptAsDeclared(Plot(<<"dc1">>[k], turn, results))
    <3>1. \A k \in DOMAIN <<"dc1">> : <<"dc1">>[k] = "dc1"
      OBVIOUS
    <3> QED
      BY <2>1, <3>1, SweepLeft
  <2> DEFINE names == <<"dc1">>
  <2>5. /\ names \in Leaves(Current.kind) /\ Extend(names, turn, results)
        /\ \A k \in DOMAIN names : SweptAsDeclared(Plot(names[k], turn, results))
    BY <2>2, <2>3, <2>4
  <2> HIDE DEF names
  <2> QED
    BY <1>2, <2>1, <2>5, LeavingKeepsResult
<1>8. CASE SweepStarts \/ SweepRuns \/ UNCHANGED all
  <2>1. UNCHANGED <<circuit, round, turn, plots, values, outcome>>
    BY <1>8 DEF SweepStarts, SweepRuns, all, dispatch
  <2> QED
    BY <1>2, <2>1, UntouchedResult DEF MeasuresOK, MeasuresAsDeclared
<1>9. CASE StartMeasuring \/ SkipMeasure \/ Panic
  <2>1. /\ UNCHANGED <<circuit, round, turn, plots, values>>
        /\ \/ outcome' = outcome
           \/ outcome \in {"running", "measuring"} /\ outcome' \in {"measuring", "panicked"}
    BY <1>9 DEF StartMeasuring, SkipMeasure, Panic, Measuring
  <2> QED
    BY <1>2, <2>1, UntouchedResult DEF MeasuresOK, MeasuresAsDeclared
<1>10. CASE Measure
  BY <1>2, <1>10, UntouchedResult, MeasureKeeps DEF Measure
<1>11. CASE Stop
  <2>1. /\ plots' = <<>> /\ outcome' = "failed" /\ values' = <<>>
    BY <1>11 DEF Stop, DispatchOK
  <2>2. DOMAIN <<>> = {}
    OBVIOUS
  <2> QED
    BY <2>1, <2>2 DEF BlocksOK, PlotsOK, InOrder, MeasuresOK, MeasuresAsDeclared
<1>12. CASE NextRound
  BY <1>2, <1>12, NextRoundKeeps
<1>13. CASE Finish
  BY <1>2, <1>13, FinishKeeps
<1> QED
  BY <1>5, <1>6, <1>7, <1>8, <1>9, <1>10, <1>11, <1>12, <1>13 DEF AnalysesNext

LEMMA Inductive == AnalysesSpec => [](DispatchOK /\ SweepInv /\ ResultInv)
<1>1. AnalysesInit => DispatchOK /\ SweepInv /\ ResultInv
  BY InitOK
<1>2. (DispatchOK /\ SweepInv /\ ResultInv) /\ [AnalysesNext]_all
      => (DispatchOK /\ SweepInv /\ ResultInv)'
  BY DispatchStep, SweepStep, ResultStep
<1> QED
  BY <1>1, <1>2, PTL DEF AnalysesSpec

-----------------------------------------------------------------------------
\* A result: the rounds' plots, the sweeps' points, the measurements' sources.

LEMMA ResultFollows ==
    ASSUME DispatchOK, SweepInv, ResultInv, Sound(circuit)
    PROVE  ResultAsDeclared
<1>1. BlocksOK /\ PlotsOK /\ InOrder /\ MeasuresOK
  BY DEF ResultInv
<1>2. circuit \in Circuits /\ round \in 1..Rounds(circuit)
      /\ DOMAIN Declared(circuit) = 1..Len(Declared(circuit))
      /\ Len(Declared(circuit)) \in Nat /\ Rounds(circuit) \in Nat
  BY DeclaredIs, RoundsAre DEF DispatchOK, AnalysesTypeOK
<1>3. EveryAnalysisRuns
  <2>1. outcome = "done" =>
           \A r \in 1..Rounds(circuit), i \in DOMAIN Declared(circuit) : Finished(r, i)
    BY <1>2 DEF DispatchOK, Finished
  <2> QED
    BY <1>1, <2>1 DEF EveryAnalysisRuns, BlocksOK
<1>4. AtItsTemperature
  <2> SUFFICES ASSUME NEW k \in DOMAIN plots, plots[k].label # 0
               PROVE  plots[k].temperature = circuit.temps[plots[k].label]
    BY DEF AtItsTemperature
  <2>1. PICK q \in 1..round : plots[k].label = Label(circuit, q)
                              /\ plots[k].temperature = TemperatureIn(circuit, q)
    BY <1>1 DEF PlotsOK, FromAnalysis
  <2> QED
    BY <1>2, <2>1, RoundsAre
<1>5. SweepsAsDeclared
  <2>1. \A k \in DOMAIN plots : plots[k].name = "dc1" => SweptAsDeclared(plots[k])
    BY <1>1 DEF PlotsOK, FromAnalysis
  <2> QED
    BY <2>1 DEF SweepsAsDeclared, SweptAsDeclared
<1> QED
  BY <1>1, <1>3, <1>4, <1>5, CompleteSweepHasAll DEF ResultAsDeclared, MeasuresOK

\* The dispatcher's state is typed: rounds, turns and measurements never run past the
\* circuit's lists, in which simulate (circuit.rs) looks them up.
THEOREM DispatcherIsTyped == AnalysesSpec => []AnalysesTypeOK
<1>1. DispatchOK => AnalysesTypeOK
  BY DEF DispatchOK
<1> QED
  BY <1>1, Inductive, PTL

\* A sweep that simulate_dc runs by itself, or under the dispatcher.
LEMMA SweepAlone == Spec => []SweepOK
<1>1. Init => SweepStart
  <2> SUFFICES ASSUME Init PROVE ProperSweep(sweep)
    BY DEF Init, SweepStart
  <2>1. sweep \in Sweeps /\ sweep \in SweepType
    BY SweepAssumption DEF Init
  <2> QED
    BY <2>1, SweepAssumption DEF ProperSweep
<1>2. SweepOK /\ [Next]_vars => SweepOK'
  BY OuterKeeps, InnerKeeps, SweepStops, SweepStays DEF Next, vars
<1> QED
  BY <1>1, <1>2, SweepStartOK, PTL DEF Spec

LEMMA SweepFollows ==
    ASSUME SweepInv
    PROVE  GuessIsNeighbour /\ CompleteHasAll /\ (VoltageInside(sweep) => PointsAreAsked)
<1>1. results = <<>> => GuessIsNeighbour /\ PointsAreAsked
  BY DEF GuessIsNeighbour, PointsAreAsked
<1> QED
  BY <1>1, CompleteSweepHasAll DEF SweepInv, SweepOK, RowsOK

\* However many points, lines and outer steps: a point of a sweep starts from the point
\* before it in its outer step, and the first from nothing (run_dc_sweep).
THEOREM GuessesAreNeighbours == (Spec => []GuessIsNeighbour) /\ (AnalysesSpec => []GuessIsNeighbour)
<1>1. SweepInv => GuessIsNeighbour
  BY SweepFollows
<1>2. SweepOK => SweepInv
  BY DEF SweepInv
<1> QED
  BY <1>1, <1>2, SweepAlone, Inductive, PTL

\* A complete sweep has every point of its two ranges, as many as generate_sweep_points
\* makes, and ends on a stop value that the step divides: for any range, up or down.
THEOREM SweepsAreComplete == (Spec => []CompleteHasAll) /\ (AnalysesSpec => []CompleteHasAll)
<1>1. SweepInv => CompleteHasAll
  BY SweepFollows
<1>2. SweepOK => SweepInv
  BY DEF SweepInv
<1> QED
  BY <1>1, <1>2, SweepAlone, Inductive, PTL

\* Whatever the sources, the ranges and the rows: at every point of a sweep the
\* right-hand side that set_source_value has edited all the way is the one a fresh
\* assembly with the two values would have.  A current source inside another sweep is
\* the exception that MCDcSweep_open.cfg shows.
THEOREM SweepsKeepTheRest ==
    /\ Spec => [](VoltageInside(sweep) => PointsAreAsked)
    /\ AnalysesSpec => [](VoltageInside(sweep) => PointsAreAsked)
<1>1. SweepInv => (VoltageInside(sweep) => PointsAreAsked)
  BY SweepFollows
<1>2. SweepOK => SweepInv
  BY DEF SweepInv
<1> QED
  BY <1>1, <1>2, SweepAlone, Inductive, PTL

\* For every circuit whose analyses are of different kinds, at all its temperatures:
\* the result that `simulate` returns holds each analysis's plots once and together, in
\* order, each at its temperature, the sweeps' points as declared, and values read from
\* the plots that the measurements name.  Two analyses of one kind are run with the
\* parameters of the first (MCAnalyses_open.cfg shows it).
THEOREM ResultsAreAsDeclared == AnalysesSpec => [](Sound(circuit) => ResultAsDeclared)
<1>1. DispatchOK /\ SweepInv /\ ResultInv => (Sound(circuit) => ResultAsDeclared)
  BY ResultFollows
<1> QED
  BY <1>1, Inductive, PTL
=============================================================================
