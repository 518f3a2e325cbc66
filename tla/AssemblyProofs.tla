--------------------------- MODULE AssemblyProofs ---------------------------
(***************************************************************************)
(* What a circuit is compiled to before it is solved.  First the system of *)
(* MnaAssembly, for all circuits: what the second pass hands out is what   *)
(* the first one counted, the readers find the rows that were stamped, and *)
(* elements reach those they name.  The proof follows one invariant        *)
(* (AssemblyInvariant) over the steps of the passes, taken together as     *)
(* Counting, Giving, Passing, Refusing and Coupling.  Then the breakpoints *)
(* of its sources: the sorted vector with its cursor implements the set of *)
(* those ahead, for every table, separation and sequence of calls.         *)
(***************************************************************************)
EXTENDS BreakpointTable, MnaAssembly, DataLemmas, FiniteSetTheorems

-----------------------------------------------------------------------------
(* Sums.                                                                   *)

Adds(s, f, n) == s[0] = 0 /\ \A k \in 1..n : s[k] = s[k - 1] + f[k]

\* The recursive function of a sum, unfolded.
LEMMA TotalSteps ==
    ASSUME NEW f, NEW n \in Nat
    PROVE  \E sum : Total(f, n) = sum[n] /\ Adds(sum, f, n)
<1> DEFINE Sums(s, m) == s = [k \in 0..m |-> IF k = 0 THEN 0 ELSE s[k - 1] + f[k]]
           sum == CHOOSE s : Sums(s, n)
<1>1. Total(f, n) = sum[n]
  BY DEF Total
<1> DEFINE Bad == {m \in 0..n : ~ \E s : Sums(s, m)}
<1>2. Bad = {}
  <2> SUFFICES ASSUME Bad # {} PROVE FALSE
    OBVIOUS
  <2>1. Bad \in SUBSET Nat
    OBVIOUS
  <2>2. PICK m \in Bad : \A j \in Bad : m <= j
    <3> HIDE DEF Bad
    <3> QED
      BY <2>1, LeastIndex
  <2>3. m \in 0..n /\ ~ \E s : Sums(s, m)
    BY <2>2
  <2>4. CASE m = 0
    <3> DEFINE s == [k \in 0..0 |-> 0]
    <3>1. s = [k \in 0..0 |-> IF k = 0 THEN 0 ELSE s[k - 1] + f[k]]
      OBVIOUS
    <3>2. Sums(s, m)
      BY <2>4, <3>1
    <3> QED
      BY <2>3, <3>2
  <2>5. CASE m # 0
    <3>1. m - 1 \in 0..n /\ ~ m <= m - 1 /\ m \in Nat
      BY <2>3, <2>5
    <3>2. PICK g : Sums(g, m - 1)
      BY <2>2, <3>1
    <3> DEFINE s == [k \in 0..m |-> IF k = m THEN g[m - 1] + f[m] ELSE g[k]]
    <3>3. \A k \in 0..m : s[k] = IF k = 0 THEN 0 ELSE s[k - 1] + f[k]
      <4> SUFFICES ASSUME NEW k \in 0..m PROVE s[k] = IF k = 0 THEN 0 ELSE s[k - 1] + f[k]
        OBVIOUS
      <4>1. CASE k = m
        <5>1. s[k - 1] = g[m - 1]
          BY <3>1, <4>1
        <5> QED
          BY <2>5, <4>1, <5>1
      <4>2. CASE k # m
        <5>1. k \in 0..(m - 1) /\ (k # 0 => k - 1 \in 0..m /\ k - 1 # m)
          BY <3>1, <4>2
        <5>2. g[k] = IF k = 0 THEN 0 ELSE g[k - 1] + f[k]
          BY <3>2, <5>1
        <5> QED
          BY <4>2, <5>1, <5>2
      <4> QED
        BY <4>1, <4>2
    <3>4. Sums(s, m)
      <4>1. s = [k \in 0..m |-> s[k]]
        OBVIOUS
      <4> HIDE DEF s
      <4> QED
        BY <3>3, <4>1
    <3> QED
      BY <2>3, <3>4
  <2> QED
    BY <2>4, <2>5
<1>3. Sums(sum, n)
  <2>1. n \in 0..n
    OBVIOUS
  <2>2. PICK s : Sums(s, n)
    BY <1>2, <2>1
  <2> HIDE DEF Sums
  <2> QED
    BY <2>2
<1> HIDE DEF sum
<1>4. sum[0] = 0 /\ \A k \in 1..n : sum[k] = sum[k - 1] + f[k]
  <2>1. 0 \in 0..n /\ \A k \in 1..n : k \in 0..n /\ k # 0
    OBVIOUS
  <2>2. \A k \in 0..n : sum[k] = IF k = 0 THEN 0 ELSE sum[k - 1] + f[k]
    BY <1>3
  <2> QED
    BY <2>1, <2>2
<1> QED
  BY <1>1, <1>4 DEF Adds

\* Two recurrences with the same terms agree.
LEMMA SumsAgree ==
    ASSUME NEW f, NEW g, NEW s, NEW t, NEW n \in Nat,
           \A k \in 1..n : f[k] = g[k],
           Adds(s, f, n), Adds(t, g, n)
    PROVE  \A k \in 0..n : s[k] = t[k]
<1> DEFINE Bad == {k \in 0..n : s[k] # t[k]}
<1> SUFFICES ASSUME Bad # {} PROVE FALSE
  OBVIOUS
<1>1. Bad \in SUBSET Nat
  OBVIOUS
<1>2. PICK k \in Bad : \A j \in Bad : k <= j
  <2> HIDE DEF Bad
  <2> QED
    BY <1>1, LeastIndex
<1>3. k \in 0..n /\ s[k] # t[k] /\ k # 0
  BY <1>2 DEF Adds
<1>4. k \in 1..n /\ k - 1 \in 0..n /\ ~ k <= k - 1
  BY <1>3
<1>5. s[k - 1] = t[k - 1]
  BY <1>2, <1>4
<1>6. s[k] = s[k - 1] + f[k] /\ t[k] = t[k - 1] + g[k] /\ f[k] = g[k]
  BY <1>4 DEF Adds
<1> QED
  BY <1>3, <1>5, <1>6

LEMMA TotalAgrees ==
    ASSUME NEW f, NEW g, NEW n \in Nat, \A k \in 1..n : f[k] = g[k]
    PROVE  Total(f, n) = Total(g, n)
<1>1. PICK s : Total(f, n) = s[n] /\ Adds(s, f, n)
  BY TotalSteps
<1>2. PICK t : Total(g, n) = t[n] /\ Adds(t, g, n)
  BY TotalSteps
<1>3. \A k \in 0..n : s[k] = t[k]
  BY <1>1, <1>2, SumsAgree
<1> QED
  BY <1>1, <1>2, <1>3

\* A sum of one more term, and of none.
LEMMA TotalOfNone ==
    ASSUME NEW f
    PROVE  Total(f, 0) = 0
BY TotalSteps DEF Adds

LEMMA TotalOfMore ==
    ASSUME NEW f, NEW n \in Nat
    PROVE  Total(f, n + 1) = Total(f, n) + f[n + 1]
<1>1. n + 1 \in Nat /\ n + 1 \in 1..(n + 1) /\ (n + 1) - 1 = n /\ \A k \in 1..n : k \in 1..(n + 1)
  OBVIOUS
<1>2. PICK s : Total(f, n + 1) = s[n + 1] /\ Adds(s, f, n + 1)
  BY <1>1, TotalSteps
<1>3. PICK t : Total(f, n) = t[n] /\ Adds(t, f, n)
  BY TotalSteps
<1>4. Adds(s, f, n)
  BY <1>1, <1>2 DEF Adds
<1>5. \A k \in 0..n : s[k] = t[k]
  BY <1>3, <1>4, SumsAgree
<1>6. s[n] = t[n]
  BY <1>5
<1>7. s[n + 1] = s[n] + f[n + 1]
  BY <1>1, <1>2 DEF Adds
<1> QED
  BY <1>2, <1>3, <1>6, <1>7

\* Sums of naturals are naturals, and grow.
LEMMA TotalGrows ==
    ASSUME NEW f, NEW n \in Nat, \A k \in 1..n : f[k] \in Nat
    PROVE  /\ \A k \in 0..n : Total(f, k) \in Nat
           /\ \A k \in 0..n : Total(f, k) <= Total(f, n)
<1> DEFINE Bad == {k \in 0..n : Total(f, k) \notin Nat}
<1>1. Bad = {}
  <2> SUFFICES ASSUME Bad # {} PROVE FALSE
    OBVIOUS
  <2>1. Bad \in SUBSET Nat
    OBVIOUS
  <2>2. PICK k \in Bad : \A j \in Bad : k <= j
    <3> HIDE DEF Bad
    <3> QED
      BY <2>1, LeastIndex
  <2>3. k \in 0..n /\ Total(f, k) \notin Nat
    BY <2>2
  <2>4. k # 0
    BY <2>3, TotalOfNone
  <2>5. k - 1 \in Nat /\ k - 1 \in 0..n /\ (k - 1) + 1 = k /\ k \in 1..n /\ ~ k <= k - 1
    BY <2>3, <2>4
  <2>6. Total(f, k - 1) \in Nat
    BY <2>2, <2>5
  <2>7. Total(f, (k - 1) + 1) = Total(f, k - 1) + f[(k - 1) + 1]
    BY <2>5, TotalOfMore
  <2>8. Total(f, k) = Total(f, k - 1) + f[k]
    BY <2>5, <2>7
  <2> QED
    BY <2>3, <2>5, <2>6, <2>8
<1>2. \A k \in 0..n : Total(f, k) \in Nat
  BY <1>1
<1> HIDE DEF Bad
<1> DEFINE Low == {k \in 0..n : ~ Total(f, k) <= Total(f, n)}
<1>3. Low = {}
  <2> SUFFICES ASSUME Low # {} PROVE FALSE
    OBVIOUS
  <2>1. Low \in SUBSET (0..n)
    OBVIOUS
  <2>2. PICK k \in Low : \A j \in Low : j <= k
    <3> HIDE DEF Low
    <3> QED
      BY <2>1, GreatestIndex
  <2>3. k \in 0..n /\ ~ Total(f, k) <= Total(f, n)
    BY <2>2
  <2>4. k # n
    BY <1>2, <2>3
  <2>5. k \in Nat /\ k + 1 \in 0..n /\ k + 1 \in 1..n /\ ~ k + 1 <= k
    BY <2>3, <2>4
  <2>6. Total(f, k + 1) <= Total(f, n)
    BY <2>2, <2>5
  <2>7. Total(f, k + 1) = Total(f, k) + f[k + 1]
    BY <2>5, TotalOfMore
  <2>8. f[k + 1] \in Nat /\ Total(f, k) \in Nat /\ Total(f, n) \in Nat /\ Total(f, k + 1) \in Nat
    BY <1>2, <2>3, <2>5
  <2> QED
    BY <2>3, <2>6, <2>7, <2>8
<1> QED
  BY <1>2, <1>3

-----------------------------------------------------------------------------
(* Counts.                                                                 *)

\* What CircuitsAssumption says of an element.
Fit(e) ==
    /\ Len(e.nodes) \in Nat /\ DOMAIN e.nodes = 1..Len(e.nodes)
    /\ IsFiniteSet(DOMAIN e.ports)
    /\ IsFiniteSet(DOMAIN e.r) /\ \A n \in DOMAIN e.r : e.r[n] \in Int
    /\ e.width \in Nat
    /\ e.name \in DOMAIN Lower

LEMMA PrefixFinite ==
    ASSUME NEW m \in Nat
    PROVE  IsFiniteSet(1..m)
<1>1. 1 \in Int /\ m \in Int
  OBVIOUS
<1> QED
  BY <1>1, FS_Interval

LEMMA ElementsFit ==
    ASSUME NEW c \in Circuits
    PROVE  /\ Len(c.elements) \in Nat /\ DOMAIN c.elements = 1..Len(c.elements)
           /\ \A j \in 1..Len(c.elements) : Fit(c.elements[j])
<1>1. c.elements \in Seq(ToSet(c.elements))
  BY CircuitsAssumption
<1>2. Len(c.elements) \in Nat /\ DOMAIN c.elements = 1..Len(c.elements)
  BY <1>1, LenProperties
<1>3. ASSUME NEW j \in 1..Len(c.elements)
      PROVE  Fit(c.elements[j])
  <2> DEFINE e == c.elements[j]
  <2>1. e \in ToSet(c.elements)
    BY <1>1, <1>2, ElementOfSeq
  <2>2. /\ e.nodes \in Seq(ToSet(e.nodes)) /\ e.ports \in Seq(BOOLEAN)
        /\ IsFiniteSet(DOMAIN e.r) /\ \A n \in DOMAIN e.r : e.r[n] \in Int
        /\ e.width \in Nat
        /\ e.name \in DOMAIN Lower
    BY <2>1, CircuitsAssumption
  <2> HIDE DEF e
  <2>3. Len(e.nodes) \in Nat /\ DOMAIN e.nodes = 1..Len(e.nodes)
    BY <2>2, LenProperties
  <2>4. Len(e.ports) \in Nat /\ DOMAIN e.ports = 1..Len(e.ports)
    BY <2>2, LenProperties
  <2>5. IsFiniteSet(1..Len(e.ports))
    BY <2>4, PrefixFinite
  <2> QED
    BY <2>2, <2>3, <2>4, <2>5 DEF Fit, e
<1> QED
  BY <1>2, <1>3

\* Whatever an element's own resistances are, its nodes and ports are counted.
LEMMA Finite ==
    ASSUME NEW e, Fit(e)
    PROVE  /\ \A names : IsFiniteSet(Positive(e, names)) /\ IsFiniteSet(Nonzero(e, names))
           /\ IsFiniteSet(SheetNodes(e)) /\ IsFiniteSet(OwnPorts(e))
           /\ \A names : /\ Cardinality(Positive(e, names)) \in Nat
                         /\ Cardinality(Nonzero(e, names)) \in Nat
           /\ Cardinality(SheetNodes(e)) \in Nat /\ Cardinality(OwnPorts(e)) \in Nat
<1>1. ASSUME NEW names
      PROVE  IsFiniteSet(Positive(e, names)) /\ IsFiniteSet(Nonzero(e, names))
  <2>1. IsFiniteSet(DOMAIN e.r)
    BY DEF Fit
  <2>2. Positive(e, names) \in SUBSET DOMAIN e.r /\ Nonzero(e, names) \in SUBSET DOMAIN e.r
    BY DEF Positive, Nonzero
  <2> QED
    BY <2>1, <2>2, FS_Subset
<1>2. IsFiniteSet(SheetNodes(e))
  <2>1. IsFiniteSet({"nrd"} \cup {"nrs"})
    BY FS_Singleton, FS_AddElement
  <2>2. SheetNodes(e) \in SUBSET ({"nrd"} \cup {"nrs"})
    BY DEF SheetNodes
  <2> QED
    BY <2>1, <2>2, FS_Subset
<1>3. IsFiniteSet(OwnPorts(e))
  <2>1. IsFiniteSet(DOMAIN e.ports)
    BY DEF Fit
  <2>2. OwnPorts(e) \in SUBSET DOMAIN e.ports
    BY DEF OwnPorts
  <2> QED
    BY <2>1, <2>2, FS_Subset
<1> QED
  BY <1>1, <1>2, <1>3, FS_CardinalityType

LEMMA ReservedIsNat ==
    ASSUME NEW e, Fit(e)
    PROVE  Reserved(e) \in Nat
<1>1. \A names : /\ Cardinality(Positive(e, names)) \in Nat
                 /\ Cardinality(Nonzero(e, names)) \in Nat
  BY Finite
<1>2. Cardinality(SheetNodes(e)) \in Nat
  BY Finite
<1> QED
  BY <1>1, <1>2 DEF Reserved

\* The second pass hands out as many nodes as the first one reserved.
LEMMA CountsAgree ==
    ASSUME NEW e, Fit(e), Countable(e),
           e.kind = "soiFD" /\ HasBody(e) => Row(e.nodes[5]) # None
    PROVE  IsFiniteSet(Inside(e)) /\ Cardinality(Inside(e)) = Reserved(e)
<1>1. CASE e.kind = "vbic"
  <2> DEFINE R == Positive(e, VbicR)
  <2>1. Inside(e) = ((R \cup {"ci"}) \cup {"bi"}) \cup {"bp"}
    BY <1>1 DEF Inside, VbicNodes, GaAs, Soi, Sheet
  <2>2. R \subseteq VbicR
    BY DEF Positive
  <2>3. "ci" \notin R /\ "bi" \notin R \cup {"ci"} /\ "bp" \notin (R \cup {"ci"}) \cup {"bi"}
    BY <2>2 DEF VbicR
  <2>4. IsFiniteSet(R) /\ Cardinality(R) \in Nat
    BY Finite
  <2>5. Reserved(e) = 3 + Cardinality(R)
    BY <1>1 DEF Reserved, GaAs, Soi, Sheet
  <2> HIDE DEF R
  <2>6. IsFiniteSet(R \cup {"ci"}) /\ Cardinality(R \cup {"ci"}) = Cardinality(R) + 1
    BY <2>3, <2>4, FS_AddElement
  <2>7. /\ IsFiniteSet((R \cup {"ci"}) \cup {"bi"})
        /\ Cardinality((R \cup {"ci"}) \cup {"bi"}) = Cardinality(R \cup {"ci"}) + 1
    BY <2>3, <2>6, FS_AddElement
  <2>8. /\ IsFiniteSet(((R \cup {"ci"}) \cup {"bi"}) \cup {"bp"})
        /\ Cardinality(((R \cup {"ci"}) \cup {"bi"}) \cup {"bp"})
             = Cardinality((R \cup {"ci"}) \cup {"bi"}) + 1
    BY <2>3, <2>7, FS_AddElement
  <2>9. Cardinality(Inside(e)) = ((Cardinality(R) + 1) + 1) + 1
    BY <2>1, <2>6, <2>7, <2>8
  <2> QED
    BY <2>1, <2>4, <2>5, <2>8, <2>9
<1>2. CASE e.kind \in Soi
  <2>1. e.kind # "vbic" /\ e.kind \notin GaAs
    BY <1>2 DEF Soi, GaAs
  <2>2. Inside(e) = SoiNodes(e)
    BY <1>2, <2>1 DEF Inside
  <2>3. IsFiniteSet(SheetNodes(e)) /\ Cardinality(SheetNodes(e)) \in Nat
    BY Finite
  <2>4. "body" \notin SheetNodes(e)
    BY DEF SheetNodes
  <2>5. /\ IsFiniteSet(SheetNodes(e) \cup {"body"})
        /\ Cardinality(SheetNodes(e) \cup {"body"}) = Cardinality(SheetNodes(e)) + 1
    BY <2>3, <2>4, FS_AddElement
  <2>6. CASE e.kind = "soiFD"
    <3>1. Reserved(e) = (IF HasBody(e) THEN 1 ELSE 0) + Cardinality(SheetNodes(e))
      BY <2>6 DEF Reserved, GaAs, Soi
    <3>2. CASE HasBody(e)
      <4>1. Inside(e) = SheetNodes(e) \cup {"body"}
        BY <2>2, <3>2, <2>6 DEF SoiNodes
      <4> QED
        BY <2>3, <2>5, <3>1, <3>2, <4>1
    <3>3. CASE ~ HasBody(e)
      <4>1. Inside(e) = SheetNodes(e)
        BY <2>2, <3>3, <2>6 DEF SoiNodes
      <4> QED
        BY <2>3, <3>1, <3>3, <4>1
    <3> QED
      BY <3>2, <3>3
  <2>7. CASE e.kind # "soiFD"
    <3>1. Reserved(e) = 1 + Cardinality(SheetNodes(e))
      BY <2>1, <2>7, <1>2 DEF Reserved, Soi
    <3>2. Inside(e) = SheetNodes(e) \cup {"body"}
      BY <2>2, <2>7 DEF SoiNodes
    <3> QED
      BY <2>3, <2>5, <3>1, <3>2
  <2> QED
    BY <2>6, <2>7
<1>3. CASE e.kind \in Sheet \ Soi
  <2>1. e.kind # "vbic" /\ e.kind \notin GaAs /\ e.kind \notin Soi
    BY <1>3 DEF Sheet, Soi, GaAs
  <2>2. Inside(e) = SheetNodes(e)
    BY <1>3, <2>1 DEF Inside
  <2>3. Reserved(e) = Cardinality(SheetNodes(e))
    BY <1>3, <2>1 DEF Reserved, Soi
  <2> QED
    BY <2>2, <2>3, Finite
<1>4. CASE e.kind \in GaAs
  <2>1. e.kind # "vbic" /\ e.kind \notin Soi /\ e.kind \notin Sheet
    BY <1>4 DEF Sheet, Soi, GaAs
  <2>2. Reserved(e) = Cardinality(Nonzero(e, ModelR(e.kind)))
    BY <1>4, <2>1 DEF Reserved, Soi
  <2>3. \A n \in DOMAIN e.r : e.r[n] \in Int
    BY DEF Fit
  <2>4. CASE e.kind = "hfet"
    <3>1. Inside(e) = Nonzero(e, RdRs) \cup Positive(e, Gates)
      BY <2>1, <2>4 DEF Inside, HfetNodes
    <3>2. ModelR(e.kind) = RdRs \cup Gates
      BY <2>4 DEF ModelR
    <3>3. \A n \in Gates : n \notin RdRs
      BY DEF Gates, RdRs
    <3>4. \A n \in Gates : n \in DOMAIN e.r => e.r[n] >= 0
      BY <1>4, <3>3 DEF Countable
    <3>5. Positive(e, Gates) = Nonzero(e, Gates)
      BY <2>3, <3>4 DEF Positive, Nonzero
    <3>6. Nonzero(e, RdRs) \cup Nonzero(e, Gates) = Nonzero(e, RdRs \cup Gates)
      BY DEF Nonzero
    <3> QED
      BY <2>2, <3>1, <3>2, <3>5, <3>6, Finite
  <2>5. CASE e.kind # "hfet"
    <3>1. Inside(e) = Positive(e, ModelR(e.kind))
      BY <1>4, <2>1, <2>5 DEF Inside, MetalNodes
    <3>2. \A n \in DOMAIN e.r : e.r[n] >= 0
      BY <1>4, <2>5 DEF Countable
    <3>3. Positive(e, ModelR(e.kind)) = Nonzero(e, ModelR(e.kind))
      BY <2>3, <3>2 DEF Positive, Nonzero
    <3> QED
      BY <2>2, <3>1, <3>3, Finite
  <2> QED
    BY <2>4, <2>5
<1>5. CASE e.kind # "vbic" /\ e.kind \notin Sheet /\ e.kind \notin GaAs
  <2>1. e.kind \notin Soi /\ e.kind # "hfet"
    BY <1>5 DEF Sheet, GaAs
  <2>2. Inside(e) = Positive(e, ModelR(e.kind))
    BY <1>5, <2>1 DEF Inside, ModelNodes
  <2>3. Reserved(e) = Cardinality(Positive(e, ModelR(e.kind)))
    BY <1>5, <2>1 DEF Reserved, Soi
  <2> QED
    BY <2>2, <2>3, Finite
<1> QED
  BY <1>1, <1>2, <1>3, <1>4, <1>5

-----------------------------------------------------------------------------
(* Rows of nets.                                                           *)

\* Every net of the map has one row, the ground none.
NetRows(s) ==
    /\ s \in Seq(ToSet(s))
    /\ Ground \notin ToSet(s)
    /\ \A i, j \in 1..Len(s) : s[i] = s[j] => i = j

LEMMA NetRowsAppend ==
    ASSUME NEW s, NetRows(s), NEW x, x \notin {Ground} \cup ToSet(s)
    PROVE  NetRows(Append(s, x)) /\ ToSet(Append(s, x)) = ToSet(s) \cup {x}
<1> DEFINE t == Append(s, x)
<1>1. Len(s) \in Nat /\ DOMAIN s = 1..Len(s)
  BY LenProperties DEF NetRows
<1>2. /\ t \in Seq(ToSet(s) \cup {x})
      /\ Len(t) = Len(s) + 1
      /\ DOMAIN t = 1..Len(s) + 1
      /\ \A i \in 1..Len(s) : t[i] = s[i]
      /\ t[Len(s) + 1] = x
  BY PushStack DEF NetRows
<1> HIDE DEF t
<1>3. \A i \in 1..Len(s) : s[i] \in ToSet(s)
  BY <1>1 DEF ToSet
<1>4. ToSet(t) = ToSet(s) \cup {x}
  <2>1. \A i \in 1..Len(s) + 1 : i \in 1..Len(s) \/ i = Len(s) + 1
    BY <1>1
  <2>2. \A i \in 1..Len(s) : i \in 1..Len(s) + 1
    BY <1>1
  <2>3. Len(s) + 1 \in 1..Len(s) + 1
    BY <1>1
  <2> QED
    BY <1>1, <1>2, <2>1, <2>2, <2>3 DEF ToSet
<1>5. \A i, j \in 1..Len(t) : t[i] = t[j] => i = j
  <2> SUFFICES ASSUME NEW i \in 1..Len(s) + 1, NEW j \in 1..Len(s) + 1, t[i] = t[j]
               PROVE  i = j
    BY <1>2
  <2>1. (i \in 1..Len(s) \/ i = Len(s) + 1) /\ (j \in 1..Len(s) \/ j = Len(s) + 1)
    BY <1>1
  <2>2. i \in 1..Len(s) => t[i] = s[i] /\ t[i] # x
    BY <1>2, <1>3
  <2>3. j \in 1..Len(s) => t[j] = s[j] /\ t[j] # x
    BY <1>2, <1>3
  <2>4. \A k, l \in 1..Len(s) : s[k] = s[l] => k = l
    BY DEF NetRows
  <2> QED
    BY <1>2, <2>1, <2>2, <2>3, <2>4
<1>6. Ground \notin ToSet(t)
  BY <1>4 DEF NetRows
<1> QED
  BY <1>2, <1>4, <1>5, <1>6 DEF NetRows, t

\* NodeMap::index over the nets of an element keeps the rows and gives each net one.
LEMMA IndexedKeeps ==
    ASSUME NEW e, Len(e.nodes) \in Nat, NEW ks, NetRows(nodes)
    PROVE  /\ NetRows(Indexed(e, ks))
           /\ ToSet(nodes) \subseteq ToSet(Indexed(e, ks))
           /\ \A k \in 1..Len(e.nodes) :
                 k \in ks => e.nodes[k] \in {Ground} \cup ToSet(Indexed(e, ks))
<1> DEFINE n == Len(e.nodes)
           next(t, k) == IF k \notin ks \/ e.nodes[k] \in {Ground} \cup ToSet(t) THEN t
                         ELSE Append(t, e.nodes[k])
           Sees(f, m) ==
               f = [k \in 0..m |->
                       IF k = 0 THEN nodes
                       ELSE IF k \notin ks \/ e.nodes[k] \in {Ground} \cup ToSet(f[k - 1])
                            THEN f[k - 1]
                       ELSE Append(f[k - 1], e.nodes[k])]
           seen == CHOOSE f : Sees(f, n)
<1>1. Indexed(e, ks) = seen[n]
  BY DEF Indexed
<1>2. \A f, m : Sees(f, m) <=> f = [k \in 0..m |-> IF k = 0 THEN nodes ELSE next(f[k - 1], k)]
  OBVIOUS
<1>3. n \in Nat
  OBVIOUS
<1> HIDE DEF next, Sees, n
<1> DEFINE Bad == {m \in 0..n : ~ \E f : Sees(f, m)}
<1>4. Bad = {}
  <2> SUFFICES ASSUME Bad # {} PROVE FALSE
    OBVIOUS
  <2>1. Bad \in SUBSET Nat
    BY <1>3
  <2>2. PICK m \in Bad : \A j \in Bad : m <= j
    <3> HIDE DEF Bad
    <3> QED
      BY <2>1, LeastIndex
  <2>3. m \in 0..n /\ ~ \E f : Sees(f, m)
    BY <2>2
  <2>4. CASE m = 0
    <3> DEFINE f == [k \in 0..0 |-> nodes]
    <3>1. f = [k \in 0..0 |-> IF k = 0 THEN nodes ELSE next(f[k - 1], k)]
      OBVIOUS
    <3>2. Sees(f, m)
      BY <1>2, <2>4, <3>1
    <3> QED
      BY <2>3, <3>2
  <2>5. CASE m # 0
    <3>1. m - 1 \in 0..n /\ ~ m <= m - 1 /\ m \in Nat
      BY <1>3, <2>3, <2>5
    <3>2. PICK g : Sees(g, m - 1)
      BY <2>2, <3>1
    <3>3. g = [k \in 0..(m - 1) |-> IF k = 0 THEN nodes ELSE next(g[k - 1], k)]
      BY <1>2, <3>2
    <3> DEFINE f == [k \in 0..m |-> IF k = m THEN next(g[m - 1], m) ELSE g[k]]
    <3>4. \A k \in 0..m : f[k] = IF k = 0 THEN nodes ELSE next(f[k - 1], k)
      <4> SUFFICES ASSUME NEW k \in 0..m PROVE f[k] = IF k = 0 THEN nodes ELSE next(f[k - 1], k)
        OBVIOUS
      <4>1. CASE k = m
        <5>1. f[k - 1] = g[m - 1]
          BY <3>1, <4>1
        <5> QED
          BY <2>5, <4>1, <5>1
      <4>2. CASE k # m
        <5>1. k \in 0..(m - 1) /\ (k # 0 => k - 1 \in 0..m /\ k - 1 # m)
          BY <3>1, <4>2
        <5>2. g[k] = IF k = 0 THEN nodes ELSE next(g[k - 1], k)
          BY <3>3, <5>1
        <5> QED
          BY <4>2, <5>1, <5>2
      <4> QED
        BY <4>1, <4>2
    <3>5. f = [k \in 0..m |-> IF k = 0 THEN nodes ELSE next(f[k - 1], k)]
      <4>1. f = [k \in 0..m |-> f[k]]
        OBVIOUS
      <4> HIDE DEF f
      <4> QED
        BY <3>4, <4>1
    <3>6. Sees(f, m)
      BY <1>2, <3>5
    <3> QED
      BY <2>3, <3>6
  <2> QED
    BY <2>4, <2>5
<1>5. Sees(seen, n)
  <2>1. n \in 0..n
    BY <1>3
  <2>2. PICK f : Sees(f, n)
    BY <1>4, <2>1
  <2> QED
    BY <2>2
<1> HIDE DEF seen
<1>6. seen[0] = nodes /\ \A k \in 1..n : seen[k] = next(seen[k - 1], k)
  <2>1. seen = [k \in 0..n |-> IF k = 0 THEN nodes ELSE next(seen[k - 1], k)]
    BY <1>2, <1>5
  <2>2. \A k \in 0..n : seen[k] = IF k = 0 THEN nodes ELSE next(seen[k - 1], k)
    BY <2>1
  <2>3. 0 \in 0..n /\ \A k \in 1..n : k \in 0..n /\ k # 0
    BY <1>3
  <2> QED
    BY <2>2, <2>3
<1> DEFINE Good(m) == /\ NetRows(seen[m])
                      /\ ToSet(nodes) \subseteq ToSet(seen[m])
                      /\ \A k \in 1..m : k \in ks => e.nodes[k] \in {Ground} \cup ToSet(seen[m])
           Worse == {m \in 0..n : ~ Good(m)}
<1>7. ASSUME NEW m \in 1..n, Good(m - 1)
      PROVE  Good(m)
  <2> DEFINE t == seen[m - 1]
  <2>1. seen[m] = IF m \notin ks \/ e.nodes[m] \in {Ground} \cup ToSet(t) THEN t
                  ELSE Append(t, e.nodes[m])
    BY <1>6 DEF next
  <2>2. m \in Nat /\ \A k \in 1..m : k \in 1..(m - 1) \/ k = m
    BY <1>3
  <2>3. NetRows(t) /\ ToSet(nodes) \subseteq ToSet(t)
        /\ \A k \in 1..(m - 1) : k \in ks => e.nodes[k] \in {Ground} \cup ToSet(t)
    BY <1>7
  <2> HIDE DEF t
  <2>4. CASE m \notin ks \/ e.nodes[m] \in {Ground} \cup ToSet(t)
    <3>1. seen[m] = t
      BY <2>1, <2>4
    <3> QED
      BY <2>2, <2>3, <2>4, <3>1
  <2>5. CASE ~ (m \notin ks \/ e.nodes[m] \in {Ground} \cup ToSet(t))
    <3>1. seen[m] = Append(t, e.nodes[m])
      BY <2>1, <2>5
    <3>2. NetRows(seen[m]) /\ ToSet(seen[m]) = ToSet(t) \cup {e.nodes[m]}
      BY <2>3, <2>5, <3>1, NetRowsAppend
    <3> QED
      BY <2>2, <2>3, <3>2
  <2> QED
    BY <2>4, <2>5
<1>8. Good(0)
  BY <1>6
<1> HIDE DEF Good
<1>9. Worse = {}
  <2> SUFFICES ASSUME Worse # {} PROVE FALSE
    OBVIOUS
  <2>1. Worse \in SUBSET Nat
    BY <1>3
  <2>2. PICK m \in Worse : \A j \in Worse : m <= j
    <3> HIDE DEF Worse
    <3> QED
      BY <2>1, LeastIndex
  <2>3. m \in 0..n /\ ~ Good(m)
    BY <2>2
  <2>4. m # 0
    BY <1>8, <2>3
  <2>5. m \in 1..n /\ m - 1 \in 0..n /\ ~ m <= m - 1
    BY <1>3, <2>3, <2>4
  <2>6. Good(m - 1)
    BY <2>2, <2>5
  <2> QED
    BY <1>7, <2>3, <2>5, <2>6
<1>10. Good(n)
  BY <1>3, <1>9
<1> QED
  BY <1>1, <1>10 DEF Good, n

-----------------------------------------------------------------------------
(* What a step does, whatever the element.                                 *)

Size == Len(circuit.elements)

\* The branches and the inner nodes of an element, and of the first k elements.
Branches(c, e) ==
    CASE e.kind \in Named -> 1
      [] e.kind \in Lines -> 2 * e.width
      [] e.kind = "A" -> IF c.registry /\ e.known THEN Cardinality(OwnPorts(e)) ELSE 0
      [] OTHER -> 0
Inner(e) == IF e.kind \in Devices THEN Reserved(e) ELSE 0
BranchesIn(k) == Total([j \in DOMAIN circuit.elements |-> Branches(circuit, circuit.elements[j])], k)
InnerIn(k) == Total([j \in DOMAIN circuit.elements |-> Inner(circuit.elements[j])], k)

\* The elements whose nets the first pass indexes.
Indexes(c, e) == e.kind # "K" /\ (e.kind = "A" => c.registry /\ e.known)

Counting ==
    /\ phase = "index" /\ at <= Size
    /\ IndexNets
    /\ Indexes(circuit, Element)
    /\ vsourceCount' = vsourceCount + Branches(circuit, Element)
    /\ internalCount' = internalCount + Inner(Element)
    /\ \/ offsets' = offsets /\ Element.kind \notin Named
       \/ /\ Element.kind \in Named
          /\ offsets' = [n \in DOMAIN offsets \cup {Lower[Element.name]} |->
                            IF n = Lower[Element.name] THEN vsourceCount ELSE offsets[n]]

\* The rows and the names of an element's branches.
Base(e) == IF e.kind \in Lines THEN 0 ELSE NNodes
BranchRows(e) == [k \in 1..Branches(circuit, e) |-> Base(e) + vsourceIdx + k - 1]
NamesOf(e, names) ==
    /\ names \in Seq(ToSet(names)) /\ Len(names) = Branches(circuit, e)
    /\ \A k \in 1..Len(names) :
          /\ Lower[names[k][1]] = Lower[e.name]
          /\ Len(names[k]) = 1 => e.kind \in Named
          /\ e.kind \in Named => names[k] = <<e.name>>

Giving ==
    /\ phase = "stamp" /\ at <= Size
    /\ Indexes(circuit, Element)
    /\ \E names, controls :
          /\ Stamped(Consecutive(internalIdx, IF Element.kind \in Devices
                                              THEN Cardinality(Inside(Element)) ELSE 0),
                     BranchRows(Element), names, controls)
          /\ NamesOf(Element, names)
          /\ Element.kind \in Controlled => Refers(Element) /\ controls = Referred(Element)

Passing ==
    /\ at <= Size /\ at' = at + 1
    /\ \/ phase = "index" /\ ~ Indexes(circuit, Element)
       \/ phase = "stamp" \/ phase = "couple"
    /\ phase # "couple" => Branches(circuit, Element) = 0 /\ Inner(Element) = 0
    /\ UNCHANGED <<circuit, phase, nodes, counts, handed, couplings>>

\* The kinds of elements are apart.
LEMMA KindsApart ==
    ASSUME NEW k
    PROVE  /\ k \in Plain \cup {"F", "W"} =>
                 k \notin Named /\ k \notin Lines /\ k # "A" /\ k # "K" /\ k \notin Devices
           /\ k \in Named => k \notin Lines /\ k # "A" /\ k # "K" /\ k \notin Devices
           /\ k \in Lines => k \notin Named /\ k # "A" /\ k # "K" /\ k \notin Devices
                             /\ k \notin Controlled
           /\ k \in Devices => k \notin Named /\ k \notin Lines /\ k # "A" /\ k # "K"
                               /\ k \notin Controlled
           /\ k \in {"A", "K"} => k \notin Named /\ k \notin Lines /\ k \notin Devices
                                  /\ k \notin Controlled
           /\ k \in Plain => k \notin Controlled
<1>1. k \in Devices => k \notin {"V", "L", "E", "H", "BV", "F", "W", "O", "Y", "T", "P", "A", "K",
                                 "R", "C", "I", "G", "BI", "S"}
  BY DEF Devices, Modelled, GaAs, Sheet, Soi
<1> QED
  BY <1>1 DEF Plain, Named, Lines, Controlled

LEMMA BranchesAre ==
    ASSUME NEW c, NEW e
    PROVE  /\ e.kind \in Named => Branches(c, e) = 1
           /\ e.kind \in Lines => Branches(c, e) = 2 * e.width
           /\ e.kind = "A" =>
                 Branches(c, e) = IF c.registry /\ e.known THEN Cardinality(OwnPorts(e)) ELSE 0
           /\ e.kind \notin Named /\ e.kind \notin Lines /\ e.kind # "A" => Branches(c, e) = 0
BY KindsApart DEF Branches

LEMMA IndexCounts ==
    ASSUME vsourceCount \in Nat, internalCount \in Nat, Index
    PROVE  Counting
<1>1. CASE IndexPlain
  <2>1. Element.kind \in Plain \cup {"F", "W"}
    BY <1>1 DEF IndexPlain, AtElement
  <2>2. Branches(circuit, Element) = 0 /\ Inner(Element) = 0 /\ Indexes(circuit, Element)
        /\ Element.kind \notin Named
    BY <2>1, KindsApart, BranchesAre DEF Inner, Indexes
  <2> QED
    BY <1>1, <2>2 DEF IndexPlain, AtElement, Counting, counts, Size
<1>2. CASE IndexNamed
  <2>1. Element.kind \in Named
    BY <1>2 DEF IndexNamed, AtElement
  <2>2. Branches(circuit, Element) = 1 /\ Inner(Element) = 0 /\ Indexes(circuit, Element)
    BY <2>1, KindsApart, BranchesAre DEF Inner, Indexes
  <2> QED
    BY <1>2, <2>1, <2>2 DEF IndexNamed, AtElement, Counting, Size
<1>3. CASE IndexLine
  <2>1. Element.kind \in Lines
    BY <1>3 DEF IndexLine, AtElement
  <2>2. Branches(circuit, Element) = 2 * Element.width /\ Inner(Element) = 0
        /\ Indexes(circuit, Element) /\ Element.kind \notin Named
    BY <2>1, KindsApart, BranchesAre DEF Inner, Indexes
  <2> QED
    BY <1>3, <2>2 DEF IndexLine, AtElement, Counting, Size
<1>4. CASE IndexXspice
  <2>1. Element.kind = "A" /\ circuit.registry /\ Element.known
    BY <1>4 DEF IndexXspice, AtElement, HasCode
  <2>2. Branches(circuit, Element) = Cardinality(OwnPorts(Element)) /\ Inner(Element) = 0
        /\ Indexes(circuit, Element) /\ Element.kind \notin Named
    BY <2>1, KindsApart, BranchesAre DEF Inner, Indexes
  <2> QED
    BY <1>4, <2>2 DEF IndexXspice, AtElement, Counting, Size
<1>5. CASE IndexDevice
  <2>1. Element.kind \in Devices
    BY <1>5 DEF IndexDevice, AtElement
  <2>2. Branches(circuit, Element) = 0 /\ Inner(Element) = Reserved(Element)
        /\ Indexes(circuit, Element) /\ Element.kind \notin Named
    BY <2>1, KindsApart, BranchesAre DEF Inner, Indexes
  <2> QED
    BY <1>5, <2>2 DEF IndexDevice, AtElement, Counting, Size
<1> QED
  BY <1>1, <1>2, <1>3, <1>4, <1>5 DEF Index

LEMMA NoneGiven ==
    ASSUME NEW from
    PROVE  Consecutive(from, 0) = <<>>
BY DEF Consecutive

\* A function on 1..n is a sequence of its values.
LEMMA SeqOfValues ==
    ASSUME NEW n \in Nat, NEW s, s = [k \in 1..n |-> s[k]]
    PROVE  s \in Seq(ToSet(s)) /\ Len(s) = n /\ DOMAIN s = 1..n
<1>1. \A k \in 1..n : s[k] \in ToSet(s)
  BY DEF ToSet
<1> DEFINE V == ToSet(s)
<1> HIDE DEF V
<1>2. \A k \in 1..n : s[k] \in V
  BY <1>1 DEF V
<1>3. [k \in 1..n |-> s[k]] \in Seq(V)
  BY <1>2, IsASeq
<1>4. s \in Seq(V)
  BY <1>3
<1>5. DOMAIN s = 1..n
  OBVIOUS
<1>6. Len(s) = n
  BY <1>4, <1>5, LenProperties
<1> QED
  BY <1>4, <1>5, <1>6 DEF V

LEMMA NoNames ==
    ASSUME NEW e, Branches(circuit, e) = 0
    PROVE  NamesOf(e, <<>>) /\ BranchRows(e) = <<>>
<1>1. <<>> = [k \in 1..0 |-> <<>>[k]]
  OBVIOUS
<1>2. <<>> \in Seq(ToSet(<<>>)) /\ Len(<<>>) = 0
  BY <1>1, SeqOfValues
<1>3. BranchRows(e) = <<>>
  BY DEF BranchRows
<1> QED
  BY <1>2, <1>3 DEF NamesOf

LEMMA OneName ==
    ASSUME NEW e, e.kind \in Named, NNodes \in Nat, vsourceIdx \in Nat
    PROVE  NamesOf(e, <<<<e.name>>>>) /\ BranchRows(e) = <<NNodes + vsourceIdx>>
<1>1. Branches(circuit, e) = 1 /\ e.kind \notin Lines
  BY BranchesAre, KindsApart
<1> DEFINE names == <<<<e.name>>>>
<1>2. Len(names) = 1 /\ names[1] = <<e.name>> /\ names[1][1] = e.name /\ names = [k \in 1..1 |-> names[k]]
  OBVIOUS
<1> HIDE DEF names
<1>3. names \in Seq(ToSet(names)) /\ Len(names) = 1
  BY <1>2, SeqOfValues
<1>4. NamesOf(e, names)
  BY <1>1, <1>2, <1>3 DEF NamesOf
<1>5. BranchRows(e) = [k \in 1..1 |-> NNodes + vsourceIdx + k - 1]
  BY <1>1 DEF BranchRows, Base
<1>6. BranchRows(e) = <<NNodes + vsourceIdx>>
  BY <1>5
<1> QED
  BY <1>4, <1>6 DEF names

\* The names of lines and ports have more than one part.
LEMMA LongNames ==
    ASSUME NEW a, NEW b, NEW c
    PROVE  /\ Len(<<a, b, c>>) = 3 /\ <<a, b, c>>[1] = a
           /\ Len(<<a, b>>) = 2 /\ <<a, b>>[1] = a
OBVIOUS

LEMMA LinesNamed ==
    ASSUME NEW e, e.kind \in Lines, Fit(e)
    PROVE  /\ NamesOf(e, LineNames(e))
           /\ vsourceIdx \in Nat => BranchRows(e) = Consecutive(vsourceIdx, 2 * e.width)
<1>1. Branches(circuit, e) = 2 * e.width /\ e.kind \notin Named
  BY BranchesAre, KindsApart
<1> DEFINE names == LineNames(e)
           n == 2 * e.width
<1>2. n \in Nat
  BY DEF Fit
<1>3. \A k \in 1..n : names[k] =
          <<Lower[e.name], IF k <= e.width THEN "branch1" ELSE "branch2", (k - 1) % e.width>>
  BY DEF LineNames
<1>4. names = [k \in 1..n |-> names[k]]
  BY DEF LineNames
<1> HIDE DEF names, n
<1>5. \A k \in 1..n : Len(names[k]) # 1 /\ names[k][1] = Lower[e.name]
  BY <1>3, LongNames
<1>6. names \in Seq(ToSet(names)) /\ Len(names) = n
  BY <1>2, <1>4, SeqOfValues
<1>7. Lower[Lower[e.name]] = Lower[e.name]
  BY LowerAssumption DEF Fit
<1>8. Branches(circuit, e) = n
  BY <1>1 DEF n
<1>9. NamesOf(e, names)
  <2>1. \A k \in 1..Len(names) : /\ Lower[names[k][1]] = Lower[e.name]
                                 /\ Len(names[k]) # 1
    BY <1>5, <1>6, <1>7
  <2> QED
    BY <1>1, <1>6, <1>8, <2>1 DEF NamesOf
<1>10. ASSUME vsourceIdx \in Nat
       PROVE  BranchRows(e) = Consecutive(vsourceIdx, n)
  BY <1>2, <1>8, <1>10 DEF BranchRows, Base, Consecutive
<1> QED
  BY <1>9, <1>10 DEF names, n

LEMMA PortsNamed ==
    ASSUME NEW e, e.kind = "A", Fit(e), circuit.registry, e.known
    PROVE  /\ NamesOf(e, PortNames(e))
           /\ BranchRows(e) = Consecutive(NNodes + vsourceIdx, Cardinality(OwnPorts(e)))
<1>1. Branches(circuit, e) = Cardinality(OwnPorts(e)) /\ e.kind \notin Named /\ e.kind \notin Lines
  BY BranchesAre, KindsApart
<1> DEFINE names == PortNames(e)
           n == Cardinality(OwnPorts(e))
           port(k) == CHOOSE p \in OwnPorts(e) : Cardinality({q \in OwnPorts(e) : q <= p}) = k
<1>2. n \in Nat
  BY Finite
<1>3. \A k \in 1..n : names[k] = <<e.name, port(k)>>
  BY DEF PortNames
<1>4. names = [k \in 1..n |-> names[k]]
  BY DEF PortNames
<1> HIDE DEF names, n, port
<1>5. \A k \in 1..n : Len(names[k]) # 1 /\ names[k][1] = e.name
  BY <1>3, LongNames
<1>6. names \in Seq(ToSet(names)) /\ Len(names) = n
  BY <1>2, <1>4, SeqOfValues
<1>8. Branches(circuit, e) = n
  BY <1>1 DEF n
<1>9. NamesOf(e, names)
  <2>1. \A k \in 1..Len(names) : /\ Lower[names[k][1]] = Lower[e.name]
                                 /\ Len(names[k]) # 1
    BY <1>5, <1>6
  <2> QED
    BY <1>1, <1>6, <1>8, <2>1 DEF NamesOf
<1>10. BranchRows(e) = Consecutive(NNodes + vsourceIdx, n)
  BY <1>1, <1>8 DEF BranchRows, Base, Consecutive
<1> QED
  BY <1>9, <1>10 DEF names, n

\* An element that is stamped gets its branches under its name, and its inner nodes.
LEMMA StampGives ==
    ASSUME NNodes \in Nat, vsourceIdx \in Nat, Fit(Element),
           StampPlain \/ StampNamed \/ StampControlled \/ StampLine \/ StampXspice \/ StampDevice
    PROVE  Giving
<1> DEFINE w == IF Element.kind \in Devices THEN Cardinality(Inside(Element)) ELSE 0
<1> SUFFICES /\ phase = "stamp" /\ at <= Size /\ Indexes(circuit, Element)
             /\ \E names, controls :
                   /\ Stamped(Consecutive(internalIdx, w), BranchRows(Element), names, controls)
                   /\ NamesOf(Element, names)
                   /\ Element.kind \in Controlled => Refers(Element) /\ controls = Referred(Element)
  BY DEF Giving
<1>1. CASE StampPlain
  <2>1. Element.kind \in Plain /\ phase = "stamp" /\ at <= Size
    BY <1>1 DEF StampPlain, AtElement, Size
  <2>2. Branches(circuit, Element) = 0 /\ Element.kind \notin Controlled /\ w = 0
        /\ Indexes(circuit, Element)
    BY <2>1, KindsApart, BranchesAre DEF Indexes
  <2>3. Stamped(<<>>, <<>>, <<>>, <<>>)
    BY <1>1 DEF StampPlain
  <2> QED
    BY <2>1, <2>2, <2>3, NoNames, NoneGiven
<1>2. CASE StampNamed
  <2>1. Element.kind \in Named /\ Element.kind \notin Controlled /\ phase = "stamp" /\ at <= Size
    BY <1>2 DEF StampNamed, AtElement, Size
  <2>2. w = 0 /\ Indexes(circuit, Element)
    BY <2>1, KindsApart DEF Indexes
  <2>3. Stamped(<<>>, <<NNodes + vsourceIdx>>, <<<<Element.name>>>>, <<>>)
    BY <1>2 DEF StampNamed, OwnName
  <2>4. NamesOf(Element, <<<<Element.name>>>>) /\ BranchRows(Element) = <<NNodes + vsourceIdx>>
    BY <2>1, OneName
  <2> QED
    BY <2>1, <2>2, <2>3, <2>4, NoneGiven
<1>3. CASE StampControlled
  <2>1. Element.kind \in Controlled /\ Refers(Element) /\ phase = "stamp" /\ at <= Size
    BY <1>3 DEF StampControlled, AtElement, Size
  <2>2. w = 0 /\ Indexes(circuit, Element)
    BY <2>1, KindsApart DEF Indexes, Controlled
  <2>3. CASE Element.kind = "H"
    <3>1. Element.kind \in Named
      BY <2>3 DEF Named
    <3>2. NamesOf(Element, <<<<Element.name>>>>) /\ BranchRows(Element) = <<NNodes + vsourceIdx>>
      BY <3>1, OneName
    <3>3. Stamped(<<>>, <<NNodes + vsourceIdx>>, <<<<Element.name>>>>, Referred(Element))
      BY <1>3, <2>3 DEF StampControlled, OwnName
    <3> QED
      BY <2>1, <2>2, <3>2, <3>3, NoneGiven
  <2>4. CASE Element.kind # "H"
    <3>1. Element.kind \in Plain \cup {"F", "W"}
      BY <2>1, <2>4 DEF Controlled
    <3>2. Branches(circuit, Element) = 0
      BY <3>1, KindsApart, BranchesAre
    <3>3. Stamped(<<>>, <<>>, <<>>, Referred(Element))
      BY <1>3, <2>4 DEF StampControlled
    <3> QED
      BY <2>1, <2>2, <3>2, <3>3, NoNames, NoneGiven
  <2> QED
    BY <2>3, <2>4
<1>4. CASE StampLine
  <2>1. Element.kind \in Lines /\ phase = "stamp" /\ at <= Size
    BY <1>4 DEF StampLine, AtElement, Size
  <2>2. w = 0 /\ Indexes(circuit, Element) /\ Element.kind \notin Controlled
    BY <2>1, KindsApart DEF Indexes
  <2>3. Stamped(<<>>, Consecutive(vsourceIdx, 2 * Element.width), LineNames(Element), <<>>)
    BY <1>4 DEF StampLine
  <2>4. /\ NamesOf(Element, LineNames(Element))
        /\ BranchRows(Element) = Consecutive(vsourceIdx, 2 * Element.width)
    BY <2>1, LinesNamed
  <2> QED
    BY <2>1, <2>2, <2>3, <2>4, NoneGiven
<1>5. CASE StampXspice
  <2>1. Element.kind = "A" /\ circuit.registry /\ Element.known /\ phase = "stamp" /\ at <= Size
    BY <1>5 DEF StampXspice, AtElement, Complete, Size
  <2>2. w = 0 /\ Indexes(circuit, Element) /\ Element.kind \notin Controlled
    BY <2>1, KindsApart DEF Indexes
  <2>3. Stamped(<<>>, Consecutive(NNodes + vsourceIdx, Cardinality(OwnPorts(Element))),
                PortNames(Element), <<>>)
    BY <1>5 DEF StampXspice
  <2>4. /\ NamesOf(Element, PortNames(Element))
        /\ BranchRows(Element) = Consecutive(NNodes + vsourceIdx, Cardinality(OwnPorts(Element)))
    BY <2>1, PortsNamed
  <2> QED
    BY <2>1, <2>2, <2>3, <2>4, NoneGiven
<1>6. CASE StampDevice
  <2>1. Element.kind \in Devices /\ phase = "stamp" /\ at <= Size
    BY <1>6 DEF StampDevice, AtElement, Size
  <2>2. w = Cardinality(Inside(Element)) /\ Indexes(circuit, Element)
        /\ Element.kind \notin Controlled /\ Branches(circuit, Element) = 0
    BY <2>1, KindsApart, BranchesAre DEF Indexes
  <2>3. Stamped(Consecutive(internalIdx, Cardinality(Inside(Element))), <<>>, <<>>, <<>>)
    BY <1>6 DEF StampDevice
  <2> QED
    BY <2>1, <2>2, <2>3, NoNames
<1> QED
  BY <1>1, <1>2, <1>3, <1>4, <1>5, <1>6

LEMMA PassPasses ==
    ASSUME Pass
    PROVE  Passing
<1>1. at' = at + 1 /\ UNCHANGED <<circuit, phase, nodes, counts, handed, couplings>>
  BY DEF Pass
<1>2. CASE AtElement("index", {"K"}) \/ AtElement("stamp", {"K"})
  <2>1. Element.kind = "K" /\ at <= Size /\ phase \in {"index", "stamp"}
    BY <1>2 DEF AtElement, Size
  <2>2. Branches(circuit, Element) = 0 /\ Inner(Element) = 0 /\ ~ Indexes(circuit, Element)
    BY <2>1, KindsApart, BranchesAre DEF Inner, Indexes
  <2> QED
    BY <1>1, <2>1, <2>2 DEF Passing
<1>3. CASE AtElement("index", {"A"}) /\ ~ HasCode
  <2>1. Element.kind = "A" /\ at <= Size /\ phase = "index" /\ ~ (circuit.registry /\ Element.known)
    BY <1>3 DEF AtElement, Size, HasCode
  <2>2. Branches(circuit, Element) = 0 /\ Inner(Element) = 0 /\ ~ Indexes(circuit, Element)
    BY <2>1, KindsApart, BranchesAre DEF Inner, Indexes
  <2> QED
    BY <1>1, <2>1, <2>2 DEF Passing
<1>4. CASE AtElement("stamp", {"A"}) /\ ~ circuit.registry
  <2>1. Element.kind = "A" /\ at <= Size /\ phase = "stamp" /\ ~ circuit.registry
    BY <1>4 DEF AtElement, Size
  <2>2. Branches(circuit, Element) = 0 /\ Inner(Element) = 0
    BY <2>1, KindsApart, BranchesAre DEF Inner
  <2> QED
    BY <1>1, <2>1, <2>2 DEF Passing
<1>5. CASE phase = "couple" /\ at <= Len(circuit.elements) /\ Element.kind # "K"
  BY <1>1, <1>5 DEF Passing, Size
<1> QED
  BY <1>2, <1>3, <1>4, <1>5 DEF Pass

\* A transistor that is dropped had no node inside, if it is countable.
LEMMA DropPasses ==
    ASSUME DropDevice, Countable(Element), internalIdx \in Int
    PROVE  Passing
<1>1. Element.kind = "bsim2" /\ SheetNodes(Element) = {} /\ phase = "stamp" /\ at <= Size
  BY DEF DropDevice, AtElement, Countable, Size
<1>2. Element.kind \in Devices /\ Element.kind \in Sheet \ Soi /\ Element.kind \notin GaAs
  BY <1>1 DEF Devices, Sheet, Soi, GaAs
<1>3. Inside(Element) = SheetNodes(Element) /\ Reserved(Element) = Cardinality(SheetNodes(Element))
  BY <1>1, <1>2 DEF Inside, Reserved, Soi
<1>4. Cardinality({}) = 0
  BY FS_EmptySet
<1>5. Inner(Element) = 0 /\ Cardinality(Inside(Element)) = 0
  BY <1>1, <1>2, <1>3, <1>4 DEF Inner
<1>6. Branches(circuit, Element) = 0
  BY <1>2, KindsApart, BranchesAre
<1>7. internalIdx' = internalIdx
  BY <1>5 DEF DropDevice
<1> QED
  BY <1>1, <1>5, <1>6, <1>7 DEF DropDevice, Passing, handed

Refusing == phase \in {"stamp", "couple"} /\ Refuse
Coupling ==
    /\ phase = "couple" /\ at <= Size
    /\ Refers(Element)
    /\ couplings' = Append(couplings, [element |-> Element, rows |-> Referred(Element)])
    /\ at' = at + 1
    /\ UNCHANGED <<circuit, phase, nodes, counts, handed>>

LEMMA StepCases ==
    ASSUME vsourceCount \in Nat, internalCount \in Nat, vsourceIdx \in Nat, internalIdx \in Nat,
           Len(nodes) \in Nat, at \in 1..(Size + 1), circuit \in Circuits,
           \A e \in ToSet(circuit.elements) : Countable(e),
           AssemblyNext
    PROVE  Counting \/ Giving \/ Passing \/ StartStamping \/ StartCoupling \/ Refusing \/ Coupling
           \/ Return
<1>1. NNodes \in Nat
  BY DEF NNodes
<1>2. Size \in Nat /\ (at <= Size => Fit(Element) /\ Countable(Element))
  <2>1. Size \in Nat /\ DOMAIN circuit.elements = 1..Size
        /\ \A j \in 1..Size : Fit(circuit.elements[j])
    BY ElementsFit DEF Size
  <2>2. \A j \in 1..Size : circuit.elements[j] \in ToSet(circuit.elements)
    BY <2>1 DEF ToSet
  <2>3. at <= Size => at \in 1..Size
    BY <2>1
  <2> QED
    BY <2>1, <2>2, <2>3 DEF Element
<1>3. CASE Index
  BY <1>3, IndexCounts
<1>4. CASE StampPlain \/ StampNamed \/ StampControlled \/ StampLine \/ StampXspice \/ StampDevice
  <2>1. at <= Size
    BY <1>4 DEF StampPlain, StampNamed, StampControlled, StampLine, StampXspice, StampDevice,
                AtElement, Size
  <2> QED
    BY <1>1, <1>2, <1>4, <2>1, StampGives
<1>5. CASE RefuseControlled \/ RefuseLine \/ RefuseXspice \/ RefuseCoupling
  BY <1>5 DEF RefuseControlled, RefuseLine, RefuseXspice, RefuseCoupling, AtElement, Refusing
<1>6. CASE DropDevice
  <2>1. at <= Size /\ internalIdx \in Int
    BY <1>6 DEF DropDevice, AtElement, Size
  <2> QED
    BY <1>2, <1>6, <2>1, DropPasses
<1>7. CASE Pass
  BY <1>7, PassPasses
<1>8. CASE Couple
  BY <1>8 DEF Couple, Coupling, AtElement, CanCouple, Size
<1>9. CASE StartStamping \/ StartCoupling \/ Return
  BY <1>9
<1> QED
  BY <1>3, <1>4, <1>5, <1>6, <1>7, <1>8, <1>9 DEF AssemblyNext, Stamp

-----------------------------------------------------------------------------
(* The first pass.                                                         *)

\* How many elements the first pass is through with.
Counted == IF phase = "index" THEN at - 1 ELSE Size

NetsSeen ==
    \A j \in 1..Counted :
        Indexes(circuit, circuit.elements[j]) =>
            \A k \in Connected(circuit.elements[j]) :
                circuit.elements[j].nodes[k] \in {Ground} \cup ToSet(nodes)

OffsetsPlaced ==
    \A x \in DOMAIN offsets :
        \E j \in 1..Counted : /\ circuit.elements[j].kind \in Named
                              /\ Lower[circuit.elements[j].name] = x
                              /\ offsets[x] = BranchesIn(j - 1)

FirstPass ==
    /\ circuit \in Circuits
    /\ phase \in {"index", "stamp", "couple", "done", "error"}
    /\ at \in 1..(Size + 1)
    /\ NetRows(nodes) /\ NetsSeen
    /\ vsourceCount = BranchesIn(Counted) /\ internalCount = InnerIn(Counted)
    /\ OffsetsPlaced

LEMMA CircuitSums ==
    ASSUME circuit \in Circuits
    PROVE  /\ Size \in Nat
           /\ BranchesIn(0) = 0 /\ InnerIn(0) = 0
           /\ \A k \in 0..Size : /\ BranchesIn(k) \in Nat /\ BranchesIn(k) <= BranchesIn(Size)
                                 /\ InnerIn(k) \in Nat /\ InnerIn(k) <= InnerIn(Size)
           /\ \A k \in 1..Size :
                 /\ BranchesIn(k) = BranchesIn(k - 1) + Branches(circuit, circuit.elements[k])
                 /\ InnerIn(k) = InnerIn(k - 1) + Inner(circuit.elements[k])
           /\ \A k \in 1..Size : /\ Branches(circuit, circuit.elements[k]) \in Nat
                                 /\ Inner(circuit.elements[k]) \in Nat
<1> DEFINE b == [j \in DOMAIN circuit.elements |-> Branches(circuit, circuit.elements[j])]
           s == [j \in DOMAIN circuit.elements |-> Inner(circuit.elements[j])]
<1>1. /\ Size \in Nat /\ DOMAIN circuit.elements = 1..Size
      /\ \A j \in 1..Size : Fit(circuit.elements[j])
  BY ElementsFit DEF Size
<1>2. ASSUME NEW e, Fit(e)
      PROVE  Branches(circuit, e) \in Nat /\ Inner(e) \in Nat
  <2>1. e.width \in Nat /\ Cardinality(OwnPorts(e)) \in Nat /\ Reserved(e) \in Nat
    BY <1>2, Finite, ReservedIsNat DEF Fit
  <2>2. 2 * e.width \in Nat
    BY <2>1
  <2>3. Inner(e) \in Nat
    BY <2>1 DEF Inner
  <2>4. Branches(circuit, e) \in Nat
    BY <2>1, <2>2, BranchesAre
  <2> QED
    BY <2>3, <2>4
<1>3. \A k \in 1..Size : /\ Branches(circuit, circuit.elements[k]) \in Nat
                         /\ Inner(circuit.elements[k]) \in Nat
  BY <1>1, <1>2
<1>4. \A k \in 1..Size : /\ b[k] = Branches(circuit, circuit.elements[k])
                         /\ s[k] = Inner(circuit.elements[k])
  BY <1>1
<1>5. \A k : BranchesIn(k) = Total(b, k) /\ InnerIn(k) = Total(s, k)
  BY DEF BranchesIn, InnerIn
<1> HIDE DEF b, s
<1>6. (\A k \in 1..Size : b[k] \in Nat) /\ (\A k \in 1..Size : s[k] \in Nat)
  BY <1>3, <1>4
<1>7. \A k \in 0..Size : /\ Total(b, k) \in Nat /\ Total(b, k) <= Total(b, Size)
                         /\ Total(s, k) \in Nat /\ Total(s, k) <= Total(s, Size)
  BY <1>1, <1>6, TotalGrows
<1>8. Total(b, 0) = 0 /\ Total(s, 0) = 0
  BY TotalOfNone
<1>9. ASSUME NEW k \in 1..Size
      PROVE  Total(b, k) = Total(b, k - 1) + b[k] /\ Total(s, k) = Total(s, k - 1) + s[k]
  <2>1. k - 1 \in Nat /\ (k - 1) + 1 = k
    BY <1>1
  <2>2. /\ Total(b, (k - 1) + 1) = Total(b, k - 1) + b[(k - 1) + 1]
        /\ Total(s, (k - 1) + 1) = Total(s, k - 1) + s[(k - 1) + 1]
    BY <2>1, TotalOfMore
  <2> QED
    BY <2>1, <2>2
<1> QED
  BY <1>1, <1>3, <1>4, <1>5, <1>7, <1>8, <1>9

LEMMA FirstPassStarts ==
    ASSUME AssemblyInit
    PROVE  FirstPass
<1>1. circuit \in Circuits /\ phase = "index" /\ at = 1 /\ nodes = <<>> /\ vsourceCount = 0
      /\ internalCount = 0 /\ offsets = <<>>
  BY DEF AssemblyInit
<1>2. Size \in Nat /\ BranchesIn(0) = 0 /\ InnerIn(0) = 0
  BY <1>1, CircuitSums
<1>3. Counted = 0
  BY <1>1 DEF Counted
<1>4. NetRows(<<>>)
  <2>1. <<>> = [k \in 1..0 |-> <<>>[k]]
    OBVIOUS
  <2>2. <<>> \in Seq(ToSet(<<>>)) /\ Len(<<>>) = 0 /\ DOMAIN <<>> = 1..0
    BY <2>1, SeqOfValues
  <2> QED
    BY <2>2 DEF NetRows, ToSet
<1>5. NetsSeen /\ OffsetsPlaced
  <2>1. 1..0 = {} /\ DOMAIN offsets = {}
    BY <1>1
  <2> QED
    BY <1>3, <2>1 DEF NetsSeen, OffsetsPlaced
<1>6. at \in 1..(Size + 1)
  BY <1>1, <1>2
<1> QED
  BY <1>1, <1>2, <1>3, <1>4, <1>5, <1>6 DEF FirstPass

LEMMA CountingKeeps ==
    ASSUME FirstPass, Counting
    PROVE  FirstPass'
<1>1. circuit \in Circuits /\ phase = "index" /\ at \in 1..(Size + 1) /\ at <= Size
      /\ phase' = phase /\ circuit' = circuit /\ at' = at + 1
      /\ nodes' = Indexed(Element, Connected(Element))
  BY DEF FirstPass, Counting, IndexNets
<1>2. Size \in Nat /\ Size' = Size
  BY <1>1, CircuitSums DEF Size
<1>3. at \in 1..Size /\ Counted = at - 1 /\ Counted' = at /\ at' \in 1..(Size + 1)
  BY <1>1, <1>2 DEF Counted
<1>4. Fit(Element) /\ Element = circuit.elements[at]
  BY <1>1, <1>3, ElementsFit DEF Element, Size
<1>5. Len(Element.nodes) \in Nat /\ DOMAIN Element.nodes = 1..Len(Element.nodes)
  BY <1>4 DEF Fit
<1>6. /\ NetRows(nodes')
      /\ ToSet(nodes) \subseteq ToSet(nodes')
      /\ \A k \in 1..Len(Element.nodes) :
            k \in Connected(Element) => Element.nodes[k] \in {Ground} \cup ToSet(nodes')
  BY <1>1, <1>5, IndexedKeeps DEF FirstPass
<1>7. NetsSeen'
  <2> SUFFICES ASSUME NEW j \in 1..at, Indexes(circuit, circuit.elements[j]),
                      NEW k \in Connected(circuit.elements[j])
               PROVE  circuit.elements[j].nodes[k] \in {Ground} \cup ToSet(nodes')
    BY <1>1, <1>3 DEF NetsSeen, Connected
  <2>1. CASE j = at
    <3>1. Connected(Element) \subseteq DOMAIN Element.nodes
      BY DEF Connected
    <3> QED
      BY <1>4, <1>5, <1>6, <2>1, <3>1
  <2>2. CASE j # at
    <3>1. j \in 1..Counted
      BY <1>3, <2>2
    <3>2. circuit.elements[j].nodes[k] \in {Ground} \cup ToSet(nodes)
      BY <3>1 DEF FirstPass, NetsSeen
    <3> QED
      BY <1>6, <3>2
  <2> QED
    BY <2>1, <2>2
<1>8. \A k : BranchesIn(k)' = BranchesIn(k) /\ InnerIn(k)' = InnerIn(k)
  BY <1>1 DEF BranchesIn, InnerIn, Branches, Inner
<1>9. vsourceCount = BranchesIn(at - 1) /\ internalCount = InnerIn(at - 1)
  BY <1>3 DEF FirstPass
<1>10. BranchesIn(at) = BranchesIn(at - 1) + Branches(circuit, Element)
       /\ InnerIn(at) = InnerIn(at - 1) + Inner(Element)
  BY <1>1, <1>3, <1>4, CircuitSums
<1>11. vsourceCount' = BranchesIn(at) /\ internalCount' = InnerIn(at)
  BY <1>9, <1>10 DEF Counting
<1>12. vsourceCount' = BranchesIn(Counted)' /\ internalCount' = InnerIn(Counted)'
  BY <1>1, <1>3, <1>11 DEF BranchesIn, InnerIn, Branches, Inner
<1>13. OffsetsPlaced'
  <2>1. \A x \in DOMAIN offsets' :
            \/ x \in DOMAIN offsets /\ offsets'[x] = offsets[x]
            \/ /\ Element.kind \in Named /\ Lower[Element.name] = x
               /\ offsets'[x] = vsourceCount
    BY DEF Counting
  <2> SUFFICES ASSUME NEW x \in DOMAIN offsets'
               PROVE  \E j \in 1..at : /\ circuit.elements[j].kind \in Named
                                       /\ Lower[circuit.elements[j].name] = x
                                       /\ offsets'[x] = BranchesIn(j - 1)
    BY <1>1, <1>3, <1>8 DEF OffsetsPlaced, BranchesIn, Branches
  <2>2. CASE x \in DOMAIN offsets /\ offsets'[x] = offsets[x]
    <3>1. PICK j \in 1..(at - 1) : /\ circuit.elements[j].kind \in Named
                                   /\ Lower[circuit.elements[j].name] = x
                                   /\ offsets[x] = BranchesIn(j - 1)
      BY <1>3, <2>2 DEF FirstPass, OffsetsPlaced
    <3>2. j \in 1..at
      BY <1>3
    <3> QED
      BY <2>2, <3>1, <3>2
  <2>3. CASE Element.kind \in Named /\ Lower[Element.name] = x /\ offsets'[x] = vsourceCount
    <3>1. at \in 1..at
      BY <1>3
    <3> QED
      BY <1>4, <1>9, <2>3, <3>1
  <2> QED
    BY <2>1, <2>2, <2>3
<1> QED
  BY <1>1, <1>2, <1>3, <1>6, <1>7, <1>12, <1>13 DEF FirstPass

LEMMA FirstPassKept ==
    ASSUME FirstPass, circuit' = circuit, nodes' = nodes, UNCHANGED counts,
           phase' \in {"index", "stamp", "couple", "done", "error"}, at' \in 1..(Size + 1),
           \/ Counted' = Counted
           \/ /\ at \in 1..Size /\ Counted = at - 1 /\ Counted' = at
              /\ ~ Indexes(circuit, Element)
              /\ Branches(circuit, Element) = 0 /\ Inner(Element) = 0
    PROVE  FirstPass'
<1>1. circuit \in Circuits
  BY DEF FirstPass
<1>2. Size \in Nat /\ Size' = Size
  BY <1>1, CircuitSums DEF Size
<1>3. vsourceCount' = vsourceCount /\ internalCount' = internalCount /\ offsets' = offsets
  BY DEF counts
<1>4. \A j \in 1..Counted : j \in 1..Counted'
  <2>1. CASE Counted' = Counted
    BY <2>1
  <2>2. CASE at \in 1..Size /\ Counted = at - 1 /\ Counted' = at
    BY <2>2
  <2> QED
    BY <2>1, <2>2
<1>5. \A j \in 1..Counted' : j \in 1..Counted \/ (j = at /\ ~ Indexes(circuit, circuit.elements[j]))
  BY <1>2 DEF Element
<1>6. NetsSeen'
  BY <1>3, <1>5 DEF FirstPass, NetsSeen, Connected, Indexes
<1>7. OffsetsPlaced'
  <2> SUFFICES ASSUME NEW x \in DOMAIN offsets
               PROVE  \E j \in 1..Counted' : /\ circuit.elements[j].kind \in Named
                                             /\ Lower[circuit.elements[j].name] = x
                                             /\ offsets[x] = BranchesIn(j - 1)
    BY <1>3 DEF OffsetsPlaced, BranchesIn, Branches
  <2>1. PICK j \in 1..Counted : /\ circuit.elements[j].kind \in Named
                                /\ Lower[circuit.elements[j].name] = x
                                /\ offsets[x] = BranchesIn(j - 1)
    BY DEF FirstPass, OffsetsPlaced
  <2> QED
    BY <1>4, <2>1
<1>8. vsourceCount = BranchesIn(Counted') /\ internalCount = InnerIn(Counted')
  <2>1. vsourceCount = BranchesIn(Counted) /\ internalCount = InnerIn(Counted)
    BY DEF FirstPass
  <2>2. CASE Counted' = Counted
    BY <2>1, <2>2
  <2>3. CASE /\ at \in 1..Size /\ Counted = at - 1 /\ Counted' = at
             /\ Branches(circuit, Element) = 0 /\ Inner(Element) = 0
    <3>1. /\ BranchesIn(at) = BranchesIn(at - 1) + Branches(circuit, Element)
          /\ InnerIn(at) = InnerIn(at - 1) + Inner(Element)
      BY <1>1, <2>3, CircuitSums DEF Element
    <3>2. BranchesIn(at - 1) \in Nat /\ InnerIn(at - 1) \in Nat
      <4>1. at - 1 \in 0..Size
        BY <1>2, <2>3
      <4> QED
        BY <1>1, <4>1, CircuitSums
    <3> QED
      BY <2>1, <2>3, <3>1, <3>2
  <2> QED
    BY <2>2, <2>3
<1>9. vsourceCount' = BranchesIn(Counted)' /\ internalCount' = InnerIn(Counted)'
  BY <1>3, <1>8 DEF BranchesIn, InnerIn, Branches, Inner
<1>10. NetRows(nodes')
  BY DEF FirstPass
<1> QED
  BY <1>1, <1>2, <1>6, <1>7, <1>9, <1>10 DEF FirstPass

LEMMA FirstPassSteps ==
    ASSUME FirstPass,
           \/ Counting \/ Giving \/ Passing \/ StartStamping \/ StartCoupling \/ Refusing
           \/ Coupling \/ Return \/ UNCHANGED assemblyVars
    PROVE  FirstPass'
<1>1. circuit \in Circuits /\ at \in 1..(Size + 1)
      /\ phase \in {"index", "stamp", "couple", "done", "error"}
  BY DEF FirstPass
<1>2. Size \in Nat
  BY <1>1, CircuitSums
<1>3. CASE Counting
  BY <1>3, CountingKeeps
<1>4. CASE Giving
  <2>1. phase = "stamp" /\ at <= Size /\ at' = at + 1 /\ phase' = phase
        /\ UNCHANGED <<circuit, nodes, counts>>
    BY <1>4 DEF Giving, Stamped
  <2>2. Counted' = Counted /\ at' \in 1..(Size + 1)
    BY <1>1, <1>2, <2>1 DEF Counted, Size
  <2> QED
    BY <1>1, <2>1, <2>2, FirstPassKept
<1>5. CASE Passing
  <2>1. at <= Size /\ at' = at + 1 /\ phase' = phase /\ UNCHANGED <<circuit, nodes, counts>>
    BY <1>5 DEF Passing
  <2>2. at' \in 1..(Size + 1) /\ at \in 1..Size /\ Size' = Size
    BY <1>1, <1>2, <2>1 DEF Size
  <2>3. CASE phase = "index"
    <3>1. Counted = at - 1 /\ Counted' = at
      BY <2>1, <2>2, <2>3, <1>1 DEF Counted
    <3>2. ~ Indexes(circuit, Element) /\ Branches(circuit, Element) = 0 /\ Inner(Element) = 0
      BY <1>5, <2>3 DEF Passing
    <3> QED
      BY <1>1, <2>1, <2>2, <3>1, <3>2, FirstPassKept
  <2>4. CASE phase # "index"
    <3>1. Counted' = Counted
      BY <2>1, <2>2, <2>4 DEF Counted
    <3> QED
      BY <1>1, <2>1, <2>2, <3>1, FirstPassKept
  <2> QED
    BY <2>3, <2>4
<1>6. CASE StartStamping
  <2>1. phase = "index" /\ at = Size + 1 /\ phase' = "stamp" /\ at' = 1
        /\ UNCHANGED <<circuit, nodes, counts>>
    BY <1>1, <1>2, <1>6 DEF StartStamping, Size
  <2>2. Counted' = Counted /\ at' \in 1..(Size + 1)
    BY <1>2, <2>1 DEF Counted, Size
  <2> QED
    BY <1>1, <2>1, <2>2, FirstPassKept
<1>7. CASE StartCoupling
  <2>1. phase = "stamp" /\ phase' = "couple" /\ at' = 1 /\ UNCHANGED <<circuit, nodes, counts>>
    BY <1>7 DEF StartCoupling
  <2>2. Counted' = Counted /\ at' \in 1..(Size + 1)
    BY <1>2, <2>1 DEF Counted, Size
  <2> QED
    BY <1>1, <2>1, <2>2, FirstPassKept
<1>8. CASE Refusing
  <2>1. phase # "index" /\ phase' = "error" /\ at' = at /\ UNCHANGED <<circuit, nodes, counts>>
    BY <1>8 DEF Refusing, Refuse
  <2>2. Counted' = Counted /\ at' \in 1..(Size + 1)
    BY <1>1, <2>1 DEF Counted, Size
  <2> QED
    BY <1>1, <2>1, <2>2, FirstPassKept
<1>9. CASE Coupling
  <2>1. phase = "couple" /\ at <= Size /\ at' = at + 1 /\ phase' = phase
        /\ UNCHANGED <<circuit, nodes, counts>>
    BY <1>9 DEF Coupling
  <2>2. Counted' = Counted /\ at' \in 1..(Size + 1)
    BY <1>1, <1>2, <2>1 DEF Counted, Size
  <2> QED
    BY <1>1, <2>1, <2>2, FirstPassKept
<1>10. CASE Return
  <2>1. phase = "couple" /\ phase' = "done" /\ at' = at /\ UNCHANGED <<circuit, nodes, counts>>
    BY <1>10 DEF Return
  <2>2. Counted' = Counted /\ at' \in 1..(Size + 1)
    BY <1>1, <2>1 DEF Counted, Size
  <2> QED
    BY <1>1, <2>1, <2>2, FirstPassKept
<1>11. CASE UNCHANGED assemblyVars
  <2>1. phase' = phase /\ at' = at /\ UNCHANGED <<circuit, nodes, counts>>
    BY <1>11 DEF assemblyVars
  <2>2. Counted' = Counted
    BY <2>1 DEF Counted, Size
  <2> QED
    BY <1>1, <2>1, <2>2, FirstPassKept
<1> QED
  BY <1>3, <1>4, <1>5, <1>6, <1>7, <1>8, <1>9, <1>10, <1>11

-----------------------------------------------------------------------------
(* The second pass.                                                        *)

\* The two passes read the models of a circuit's elements alike.
Alike(c) == \A e \in ToSet(c.elements) : Countable(e)

\* How many elements the second pass is through with.
Given == IF phase = "stamp" THEN at - 1 ELSE Size

Handing ==
    /\ vsourceIdx \in Nat /\ internalIdx \in Nat
    /\ phase = "index" => vsourceIdx = 0 /\ internalIdx = 0
    /\ phase \in {"stamp", "couple", "done"} =>
          internalIdx = Len(nodes) + InnerIn(Given) /\ vsourceIdx = BranchesIn(Given)
    /\ phase # "index" =>
          Len(nodes) <= internalIdx /\ internalIdx <= NNodes /\ vsourceIdx <= vsourceCount

LEMMA RowIs ==
    ASSUME NetRows(nodes), NEW net \in ToSet(nodes)
    PROVE  Row(net) \in 0..(Len(nodes) - 1) /\ nodes[Row(net) + 1] = net
<1>1. Len(nodes) \in Nat /\ DOMAIN nodes = 1..Len(nodes)
  BY LenProperties DEF NetRows
<1> DEFINE k == CHOOSE k \in DOMAIN nodes : nodes[k] = net
<1>2. k \in DOMAIN nodes /\ nodes[k] = net
  BY DEF ToSet
<1>3. Row(net) = k - 1
  BY DEF Row
<1> HIDE DEF k
<1> QED
  BY <1>1, <1>2, <1>3

\* What is known of the counts in every phase.
LEMMA CountsAre ==
    ASSUME FirstPass
    PROVE  /\ Size \in Nat /\ Len(nodes) \in Nat /\ vsourceCount \in Nat /\ internalCount \in Nat
           /\ NNodes \in Nat
           /\ phase # "index" => /\ vsourceCount = BranchesIn(Size)
                                 /\ internalCount = InnerIn(Size)
                                 /\ NNodes = Len(nodes) + InnerIn(Size)
           /\ at <= Size => at \in 1..Size /\ Fit(Element) /\ Element \in ToSet(circuit.elements)
<1>1. circuit \in Circuits /\ at \in 1..(Size + 1)
  BY DEF FirstPass
<1>2. Size \in Nat /\ Counted \in 0..Size
  <2>1. Size \in Nat
    BY <1>1, CircuitSums
  <2> QED
    BY <1>1, <2>1 DEF Counted
<1>3. vsourceCount \in Nat /\ internalCount \in Nat
  <2>1. vsourceCount = BranchesIn(Counted) /\ internalCount = InnerIn(Counted)
    BY DEF FirstPass
  <2> QED
    BY <1>1, <1>2, <2>1, CircuitSums
<1>4. Len(nodes) \in Nat
  BY LenProperties DEF FirstPass, NetRows
<1>5. NNodes \in Nat
  BY <1>3, <1>4 DEF NNodes
<1>6. phase # "index" => /\ vsourceCount = BranchesIn(Size)
                         /\ internalCount = InnerIn(Size)
                         /\ NNodes = Len(nodes) + InnerIn(Size)
  BY DEF FirstPass, Counted, NNodes
<1>7. at <= Size => at \in 1..Size /\ Fit(Element) /\ Element \in ToSet(circuit.elements)
  <2>1. DOMAIN circuit.elements = 1..Size /\ \A j \in 1..Size : Fit(circuit.elements[j])
    BY <1>1, ElementsFit DEF Size
  <2>2. at <= Size => at \in 1..Size
    BY <1>1, <1>2
  <2> QED
    BY <2>1, <2>2 DEF Element, ToSet
<1> QED
  BY <1>2, <1>3, <1>4, <1>5, <1>6, <1>7

\* The instance that an element leaves: its rows are the next ones.
New(inst) ==
    /\ instances' = Append(instances, inst)
    /\ inst.element = Element
    /\ inst.terminals = [k \in Connected(Element) |-> Row(Element.nodes[k])]
    /\ Element.kind \in Controlled => Refers(Element) /\ inst.controls = Referred(Element)
    /\ Len(inst.inside) = Inner(Element) /\ DOMAIN inst.inside = 1..Inner(Element)
    /\ \A k \in 1..Inner(Element) : inst.inside[k] = internalIdx + k - 1
    /\ inst.branches = BranchRows(Element) /\ DOMAIN inst.branches = 1..Branches(circuit, Element)
    /\ \A k \in 1..Branches(circuit, Element) : Branch(inst, k) = NNodes + vsourceIdx + k - 1

LEMMA InsideIsReserved ==
    ASSUME FirstPass, Alike(circuit), phase = "stamp", at <= Size, Indexes(circuit, Element),
           Element.kind \in Devices
    PROVE  Cardinality(Inside(Element)) = Inner(Element)
<1>1. Fit(Element) /\ Element \in ToSet(circuit.elements) /\ at \in 1..Size /\ Counted = Size
  BY CountsAre DEF Counted
<1>2. Countable(Element)
  BY <1>1 DEF Alike
<1>3. ASSUME Element.kind = "soiFD", HasBody(Element)
      PROVE  Row(Element.nodes[5]) # None
  <2>1. Len(Element.nodes) = 5 /\ DOMAIN Element.nodes = 1..5
    BY <1>1, <1>3 DEF Fit, HasBody
  <2>2. 5 \in Connected(Element)
    BY <1>3, <2>1 DEF Connected
  <2>3. Element.nodes[5] \in {Ground} \cup ToSet(nodes)
    BY <1>1, <2>2 DEF FirstPass, NetsSeen, Element
  <2>4. Element.nodes[5] # Ground
    BY <1>2, <1>3 DEF Countable
  <2>5. NetRows(nodes) /\ Element.nodes[5] \in ToSet(nodes)
    BY <2>3, <2>4 DEF FirstPass
  <2>6. Row(Element.nodes[5]) \in 0..(Len(nodes) - 1) /\ Len(nodes) \in Nat
    BY <2>5, RowIs, CountsAre
  <2> QED
    BY <2>6 DEF None
<1> QED
  BY <1>1, <1>2, <1>3, CountsAgree DEF Inner

LEMMA GivingIs ==
    ASSUME FirstPass, Handing, Alike(circuit), Giving
    PROVE  /\ phase = "stamp" /\ at \in 1..Size /\ Indexes(circuit, Element)
           /\ \E inst : New(inst)
           /\ \E names : NamesOf(Element, names) /\ vsourceNames' = vsourceNames \o names
           /\ internalIdx' = internalIdx + Inner(Element)
           /\ vsourceIdx' = vsourceIdx + Branches(circuit, Element)
           /\ at' = at + 1
           /\ UNCHANGED <<circuit, phase, nodes, counts, couplings>>
<1>1. phase = "stamp" /\ at \in 1..Size /\ Indexes(circuit, Element)
  BY CountsAre DEF Giving
<1>2. circuit \in Circuits
  BY DEF FirstPass
<1> DEFINE w == Inner(Element)
           v == Branches(circuit, Element)
<1>3. w \in Nat /\ v \in Nat
  BY <1>1, <1>2, CircuitSums DEF Element
<1>4. w = IF Element.kind \in Devices THEN Cardinality(Inside(Element)) ELSE 0
  BY <1>1, InsideIsReserved DEF Inner, Giving
<1>5. PICK names, controls :
          /\ Stamped(Consecutive(internalIdx, w), BranchRows(Element), names, controls)
          /\ NamesOf(Element, names)
          /\ Element.kind \in Controlled => Refers(Element) /\ controls = Referred(Element)
  BY <1>4 DEF Giving
<1> DEFINE inside == Consecutive(internalIdx, w)
           inst == [element |-> Element,
                    terminals |-> [k \in Connected(Element) |-> Row(Element.nodes[k])],
                    inside |-> inside, branches |-> BranchRows(Element), controls |-> controls]
<1>6. /\ instances' = Append(instances, inst)
      /\ vsourceNames' = vsourceNames \o names
      /\ vsourceIdx' = vsourceIdx + Len(names)
      /\ internalIdx' = internalIdx + Len(inside)
      /\ at' = at + 1
      /\ UNCHANGED <<circuit, phase, nodes, counts, couplings>>
  BY <1>5 DEF Stamped
<1> HIDE DEF w, v
<1>7. Len(inside) = w /\ DOMAIN inside = 1..w /\ \A k \in 1..w : inside[k] = internalIdx + k - 1
  <2>1. inside = [k \in 1..w |-> inside[k]]
    BY DEF Consecutive
  <2>2. Len(inside) = w /\ DOMAIN inside = 1..w
    <3> HIDE DEF inside
    <3> QED
      BY <1>3, <2>1, SeqOfValues
  <2> QED
    BY <2>2 DEF Consecutive
<1>8. Len(names) = v
  BY <1>5 DEF NamesOf, v
<1>9. DOMAIN BranchRows(Element) = 1..v /\ \A k \in 1..v : BranchRows(Element)[k] = Base(Element) + vsourceIdx + k - 1
  BY DEF BranchRows, v
<1>10. New(inst)
  <2>1. /\ inst.element = Element /\ inst.inside = inside /\ inst.branches = BranchRows(Element)
        /\ inst.controls = controls
        /\ inst.terminals = [k \in Connected(Element) |-> Row(Element.nodes[k])]
    OBVIOUS
  <2>2. instances' = Append(instances, inst)
    BY <1>6
  <2> HIDE DEF inst, inside
  <2>3. \A k \in 1..v : Branch(inst, k) = NNodes + vsourceIdx + k - 1
    <3> SUFFICES ASSUME NEW k \in 1..v PROVE Branch(inst, k) = NNodes + vsourceIdx + k - 1
      OBVIOUS
    <3>1. vsourceIdx \in Nat /\ NNodes \in Nat /\ k \in Int
      BY <1>3, CountsAre DEF Handing
    <3>2. inst.branches[k] = Base(Element) + vsourceIdx + k - 1
      BY <1>9, <2>1
    <3>3. CASE Element.kind \in Lines
      BY <2>1, <3>1, <3>2, <3>3 DEF Branch, Base
    <3>4. CASE Element.kind \notin Lines
      BY <2>1, <3>1, <3>2, <3>4 DEF Branch, Base
    <3> QED
      BY <3>3, <3>4
  <2> QED
    BY <1>5, <1>7, <1>9, <2>1, <2>2, <2>3 DEF New, w, v
<1> QED
  BY <1>1, <1>5, <1>6, <1>7, <1>8, <1>10 DEF w, v

LEMMA HandingSteps ==
    ASSUME FirstPass, Handing, Alike(circuit),
           \/ Counting \/ Giving \/ Passing \/ StartStamping \/ StartCoupling \/ Refusing
           \/ Coupling \/ Return \/ UNCHANGED assemblyVars
    PROVE  Handing'
<1>1. /\ Size \in Nat /\ Len(nodes) \in Nat /\ NNodes \in Nat /\ vsourceCount \in Nat
      /\ at \in 1..(Size + 1) /\ circuit \in Circuits
      /\ phase \in {"index", "stamp", "couple", "done", "error"}
  BY CountsAre DEF FirstPass
<1>2. CASE Counting
  <2>1. phase' = "index" /\ vsourceIdx' = vsourceIdx /\ internalIdx' = internalIdx /\ phase = "index"
    BY <1>2 DEF Counting, IndexNets, handed
  <2> QED
    BY <2>1 DEF Handing
<1>3. CASE Giving
  <2> DEFINE v == Branches(circuit, Element)
             w == Inner(Element)
  <2>1. /\ phase = "stamp" /\ at \in 1..Size
        /\ internalIdx' = internalIdx + w /\ vsourceIdx' = vsourceIdx + v
        /\ at' = at + 1
        /\ UNCHANGED <<circuit, phase, nodes, counts>>
    BY <1>3, GivingIs
  <2>2. /\ BranchesIn(at) = BranchesIn(at - 1) + v /\ InnerIn(at) = InnerIn(at - 1) + w
        /\ v \in Nat /\ w \in Nat
        /\ BranchesIn(at) <= BranchesIn(Size) /\ InnerIn(at) <= InnerIn(Size)
    <3>1. at \in 0..Size
      BY <2>1
    <3> QED
      BY <1>1, <2>1, <3>1, CircuitSums DEF Element
  <2> HIDE DEF v, w
  <2>3. internalIdx = Len(nodes) + InnerIn(at - 1) /\ vsourceIdx = BranchesIn(at - 1)
        /\ internalIdx \in Nat /\ vsourceIdx \in Nat /\ Len(nodes) <= internalIdx
    BY <2>1 DEF Handing, Given
  <2>4. vsourceCount = BranchesIn(Size) /\ NNodes = Len(nodes) + InnerIn(Size)
    BY <2>1, CountsAre
  <2>5. InnerIn(at - 1) \in Nat /\ InnerIn(Size) \in Nat /\ BranchesIn(Size) \in Nat
        /\ InnerIn(at) \in Nat /\ BranchesIn(at) \in Nat
    <3>1. at - 1 \in 0..Size /\ at \in 0..Size /\ Size \in 0..Size
      BY <1>1, <2>1
    <3> QED
      BY <1>1, <3>1, CircuitSums
  <2>6. internalIdx' = Len(nodes) + InnerIn(at) /\ vsourceIdx' = BranchesIn(at)
    BY <1>1, <2>1, <2>2, <2>3, <2>5
  <2>7. Given' = at
    BY <1>1, <2>1 DEF Given
  <2>8. NNodes' = NNodes /\ vsourceCount' = vsourceCount /\ Len(nodes)' = Len(nodes)
    BY <2>1 DEF NNodes, counts
  <2>9. InnerIn(Given)' = InnerIn(at) /\ BranchesIn(Given)' = BranchesIn(at)
    BY <2>1, <2>7 DEF BranchesIn, InnerIn, Branches, Inner
  <2>10. /\ internalIdx' \in Nat /\ vsourceIdx' \in Nat
         /\ Len(nodes) <= internalIdx' /\ internalIdx' <= NNodes /\ vsourceIdx' <= vsourceCount
    BY <1>1, <2>2, <2>4, <2>5, <2>6
  <2> QED
    BY <2>1, <2>6, <2>8, <2>9, <2>10 DEF Handing
<1>4. CASE Passing
  <2>1. at \in 1..Size /\ at' = at + 1 /\ phase' = phase
        /\ UNCHANGED <<circuit, nodes, counts, vsourceIdx, internalIdx>>
    BY <1>1, <1>4 DEF Passing, handed
  <2>2. NNodes' = NNodes /\ vsourceCount' = vsourceCount /\ Len(nodes)' = Len(nodes)
    BY <2>1 DEF NNodes, counts
  <2>3. CASE phase = "stamp"
    <3>1. Branches(circuit, Element) = 0 /\ Inner(Element) = 0
      BY <1>4, <2>3 DEF Passing
    <3>2. BranchesIn(at) = BranchesIn(at - 1) + 0 /\ InnerIn(at) = InnerIn(at - 1) + 0
      BY <1>1, <2>1, <3>1, CircuitSums DEF Element
    <3>3. BranchesIn(at - 1) \in Nat /\ InnerIn(at - 1) \in Nat
      <4>1. at - 1 \in 0..Size
        BY <1>1, <2>1
      <4> QED
        BY <1>1, <4>1, CircuitSums
    <3>4. Given = at - 1 /\ Given' = at
      BY <1>1, <2>1, <2>3 DEF Given
    <3>5. InnerIn(Given)' = InnerIn(at) /\ BranchesIn(Given)' = BranchesIn(at)
      BY <2>1, <3>4 DEF BranchesIn, InnerIn, Branches, Inner
    <3>6. InnerIn(Given)' = InnerIn(Given) /\ BranchesIn(Given)' = BranchesIn(Given)
      BY <3>2, <3>3, <3>4, <3>5
    <3> QED
      BY <2>1, <2>2, <3>6 DEF Handing
  <2>4. CASE phase # "stamp"
    <3>1. Given' = Given
      BY <2>1, <2>4 DEF Given, Size
    <3>2. InnerIn(Given)' = InnerIn(Given) /\ BranchesIn(Given)' = BranchesIn(Given)
      BY <2>1, <3>1 DEF BranchesIn, InnerIn, Branches, Inner
    <3> QED
      BY <2>1, <2>2, <3>2 DEF Handing
  <2> QED
    BY <2>3, <2>4
<1>5. CASE StartStamping
  <2>1. phase = "index" /\ phase' = "stamp" /\ at' = 1 /\ internalIdx' = Len(nodes)
        /\ vsourceIdx' = vsourceIdx /\ UNCHANGED <<circuit, nodes, counts>> /\ at = Size + 1
    BY <1>1, <1>5 DEF StartStamping, Size
  <2>2. vsourceIdx' = 0
    BY <2>1 DEF Handing
  <2>3. Given' = 0
    BY <2>1 DEF Given
  <2>4. InnerIn(Given)' = 0 /\ BranchesIn(Given)' = 0
    <3>1. InnerIn(0) = 0 /\ BranchesIn(0) = 0
      BY <1>1, CircuitSums
    <3> QED
      BY <2>1, <2>3, <3>1 DEF BranchesIn, InnerIn, Branches, Inner
  <2>5. NNodes' = NNodes /\ vsourceCount' = vsourceCount /\ Len(nodes)' = Len(nodes)
    BY <2>1 DEF NNodes, counts
  <2>6. Len(nodes) <= NNodes
    <3>1. internalCount \in Nat
      BY CountsAre
    <3> QED
      BY <1>1, <3>1 DEF NNodes
  <2> QED
    BY <1>1, <2>1, <2>2, <2>4, <2>5, <2>6 DEF Handing
<1>6. CASE StartCoupling \/ Coupling \/ Return
  <2>1. /\ phase \in {"stamp", "couple"} /\ phase' \in {"couple", "done"}
        /\ phase = "stamp" => at = Size + 1
        /\ UNCHANGED <<circuit, nodes, counts, vsourceIdx, internalIdx>>
    BY <1>1, <1>6 DEF StartCoupling, Coupling, Return, Size, handed
  <2>2. Given = Size /\ Given' = Size
    BY <1>1, <2>1 DEF Given, Size
  <2>3. InnerIn(Given)' = InnerIn(Given) /\ BranchesIn(Given)' = BranchesIn(Given)
    BY <2>1, <2>2 DEF BranchesIn, InnerIn, Branches, Inner
  <2>4. NNodes' = NNodes /\ vsourceCount' = vsourceCount /\ Len(nodes)' = Len(nodes)
    BY <2>1 DEF NNodes, counts
  <2> QED
    BY <2>1, <2>3, <2>4 DEF Handing
<1>7. CASE Refusing
  <2>1. phase # "index" /\ phase' = "error" /\ UNCHANGED <<circuit, nodes, counts, vsourceIdx, internalIdx>>
    BY <1>7 DEF Refusing, Refuse, handed
  <2>2. NNodes' = NNodes /\ vsourceCount' = vsourceCount /\ Len(nodes)' = Len(nodes)
    BY <2>1 DEF NNodes, counts
  <2> QED
    BY <2>1, <2>2 DEF Handing
<1>8. CASE UNCHANGED assemblyVars
  <2>1. phase' = phase /\ at' = at /\ UNCHANGED <<circuit, nodes, counts, vsourceIdx, internalIdx>>
    BY <1>8 DEF assemblyVars, handed
  <2>2. Given' = Given
    BY <2>1 DEF Given, Size
  <2>3. InnerIn(Given)' = InnerIn(Given) /\ BranchesIn(Given)' = BranchesIn(Given)
    BY <2>1, <2>2 DEF BranchesIn, InnerIn, Branches, Inner
  <2>4. NNodes' = NNodes /\ vsourceCount' = vsourceCount /\ Len(nodes)' = Len(nodes)
    BY <2>1 DEF NNodes, counts
  <2> QED
    BY <2>1, <2>3, <2>4 DEF Handing
<1> QED
  BY <1>2, <1>3, <1>4, <1>5, <1>6, <1>7, <1>8

-----------------------------------------------------------------------------
(* Every unknown has one owner.                                            *)

RowsWithin ==
    \A i \in DOMAIN instances :
        /\ \A k \in DOMAIN instances[i].inside :
              instances[i].inside[k] \in Len(nodes)..(internalIdx - 1)
        /\ \A k \in DOMAIN instances[i].branches :
              Branch(instances[i], k) \in NNodes..(NNodes + vsourceIdx - 1)

RowsCovered ==
    /\ \A row \in Len(nodes)..(internalIdx - 1) :
          \E i \in DOMAIN instances : \E k \in DOMAIN instances[i].inside :
              instances[i].inside[k] = row
    /\ \A row \in NNodes..(NNodes + vsourceIdx - 1) :
          \E i \in DOMAIN instances : \E k \in DOMAIN instances[i].branches :
              Branch(instances[i], k) = row

Owners ==
    /\ instances \in Seq(ToSet(instances))
    /\ phase = "index" => instances = <<>>
    /\ OwnersApart /\ RowsWithin /\ RowsCovered

\* A sequence and what it becomes when an element is appended.
LEMMA Longer ==
    ASSUME NEW s, s \in Seq(ToSet(s)), NEW x, NEW t, t = Append(s, x)
    PROVE  /\ t \in Seq(ToSet(t))
           /\ Len(s) \in Nat /\ DOMAIN s = 1..Len(s)
           /\ DOMAIN t = 1..(Len(s) + 1) /\ Len(t) = Len(s) + 1
           /\ \A i \in 1..Len(s) : i \in DOMAIN t /\ t[i] = s[i]
           /\ Len(s) + 1 \in DOMAIN t /\ t[Len(s) + 1] = x
           /\ \A i \in DOMAIN t : i \in 1..Len(s) \/ i = Len(s) + 1
<1>1. Len(s) \in Nat /\ DOMAIN s = 1..Len(s)
  BY LenProperties
<1>2. /\ t \in Seq(ToSet(s) \cup {x})
      /\ Len(t) = Len(s) + 1
      /\ DOMAIN t = 1..Len(s) + 1
      /\ \A i \in 1..Len(s) : t[i] = s[i]
      /\ t[Len(s) + 1] = x
  BY PushStack
<1>3. t = [i \in 1..Len(s) + 1 |-> t[i]]
  <2> DEFINE V == ToSet(s) \cup {x}
  <2> HIDE DEF V
  <2>1. t \in Seq(V)
    BY <1>2 DEF V
  <2>2. t \in [1..Len(t) -> V]
    BY <2>1, LenProperties
  <2>3. t = [i \in 1..Len(t) |-> t[i]]
    BY <2>2
  <2> QED
    BY <1>2, <2>3
<1>4. t \in Seq(ToSet(t))
  <2>1. Len(s) + 1 \in Nat
    BY <1>1
  <2> QED
    BY <1>3, <2>1, SeqOfValues
<1> QED
  BY <1>1, <1>2, <1>4

LEMMA GivingKeepsOwners ==
    ASSUME FirstPass, Handing, Alike(circuit), Owners, Giving
    PROVE  Owners'
<1> DEFINE v == Branches(circuit, Element)
           w == Inner(Element)
           n == Len(instances)
<1>1. PICK inst : New(inst)
  BY GivingIs
<1>2. /\ phase = "stamp" /\ at \in 1..Size /\ phase' = phase
      /\ internalIdx' = internalIdx + w /\ vsourceIdx' = vsourceIdx + v
      /\ UNCHANGED <<circuit, nodes, counts>>
  BY GivingIs
<1>3. w \in Nat /\ v \in Nat
  BY <1>2, CircuitSums DEF Element, FirstPass
<1>4. /\ DOMAIN inst.inside = 1..w /\ \A k \in 1..w : inst.inside[k] = internalIdx + k - 1
      /\ DOMAIN inst.branches = 1..v
      /\ \A k \in 1..v : Branch(inst, k) = NNodes + vsourceIdx + k - 1
  BY <1>1 DEF New
<1>5. /\ instances' \in Seq(ToSet(instances'))
      /\ n \in Nat /\ DOMAIN instances = 1..n
      /\ DOMAIN instances' = 1..(n + 1) /\ n + 1 \in DOMAIN instances' /\ instances'[n + 1] = inst
      /\ \A i \in 1..n : i \in DOMAIN instances' /\ instances'[i] = instances[i]
      /\ \A i \in DOMAIN instances' : i \in 1..n \/ i = n + 1
  <2>1. instances \in Seq(ToSet(instances))
    BY DEF Owners
  <2>2. instances' = Append(instances, inst)
    BY <1>1 DEF New
  <2>3. \A t : t = Append(instances, inst) =>
           /\ t \in Seq(ToSet(t))
           /\ Len(instances) \in Nat /\ DOMAIN instances = 1..Len(instances)
           /\ DOMAIN t = 1..(Len(instances) + 1) /\ Len(t) = Len(instances) + 1
           /\ \A i \in 1..Len(instances) : i \in DOMAIN t /\ t[i] = instances[i]
           /\ Len(instances) + 1 \in DOMAIN t /\ t[Len(instances) + 1] = inst
           /\ \A i \in DOMAIN t : i \in 1..Len(instances) \/ i = Len(instances) + 1
    BY <2>1, Longer
  <2> QED
    BY <2>2, <2>3, Zenon
<1>6. /\ NNodes \in Nat /\ Len(nodes) \in Nat /\ internalIdx \in Nat /\ vsourceIdx \in Nat
      /\ Len(nodes) <= internalIdx
  BY <1>2, CountsAre DEF Handing
<1>7. NNodes' = NNodes /\ Len(nodes)' = Len(nodes)
  BY <1>2 DEF NNodes, counts
<1>8. \A i, k : Branch(i, k)' = Branch(i, k)
  BY <1>7 DEF Branch
<1> HIDE DEF w, v, n
<1>9. /\ \A k \in 1..w : inst.inside[k] \in internalIdx..(internalIdx' - 1)
      /\ \A k \in 1..v : Branch(inst, k) \in (NNodes + vsourceIdx)..(NNodes + vsourceIdx' - 1)
  BY <1>2, <1>3, <1>4, <1>6
<1>10. /\ \A k, l \in 1..w : inst.inside[k] = inst.inside[l] => k = l
       /\ \A k, l \in 1..v : Branch(inst, k) = Branch(inst, l) => k = l
  BY <1>3, <1>4, <1>6
<1>11. OwnersApart'
  <2>1. ASSUME NEW i \in DOMAIN instances', NEW j \in DOMAIN instances',
               NEW k \in DOMAIN instances'[i].inside, NEW l \in DOMAIN instances'[j].inside,
               instances'[i].inside[k] = instances'[j].inside[l]
        PROVE  i = j /\ k = l
    <3>1. CASE i \in 1..n /\ j \in 1..n
      BY <1>5, <2>1, <3>1 DEF Owners, OwnersApart
    <3>2. CASE i = n + 1 /\ j = n + 1
      BY <1>4, <1>5, <1>10, <2>1, <3>2
    <3>3. CASE i \in 1..n /\ j = n + 1
      <4>1. instances[i].inside[k] \in Len(nodes)..(internalIdx - 1)
        BY <1>5, <3>3 DEF Owners, RowsWithin
      <4>2. inst.inside[l] \in internalIdx..(internalIdx' - 1)
        BY <1>4, <1>5, <1>9, <3>3
      <4> QED
        BY <1>5, <1>6, <2>1, <3>3, <4>1, <4>2
    <3>4. CASE i = n + 1 /\ j \in 1..n
      <4>1. instances[j].inside[l] \in Len(nodes)..(internalIdx - 1)
        BY <1>5, <3>4 DEF Owners, RowsWithin
      <4>2. inst.inside[k] \in internalIdx..(internalIdx' - 1)
        BY <1>4, <1>5, <1>9, <3>4
      <4> QED
        BY <1>5, <1>6, <2>1, <3>4, <4>1, <4>2
    <3> QED
      BY <1>5, <3>1, <3>2, <3>3, <3>4
  <2>2. ASSUME NEW i \in DOMAIN instances', NEW j \in DOMAIN instances',
               NEW k \in DOMAIN instances'[i].branches, NEW l \in DOMAIN instances'[j].branches,
               Branch(instances'[i], k) = Branch(instances'[j], l)
        PROVE  i = j /\ k = l
    <3>1. CASE i \in 1..n /\ j \in 1..n
      BY <1>5, <2>2, <3>1 DEF Owners, OwnersApart
    <3>2. CASE i = n + 1 /\ j = n + 1
      BY <1>4, <1>5, <1>10, <2>2, <3>2
    <3>3. CASE i \in 1..n /\ j = n + 1
      <4>1. Branch(instances[i], k) \in NNodes..(NNodes + vsourceIdx - 1)
        BY <1>5, <3>3 DEF Owners, RowsWithin
      <4>2. Branch(inst, l) \in (NNodes + vsourceIdx)..(NNodes + vsourceIdx' - 1)
        BY <1>4, <1>5, <1>9, <3>3
      <4> QED
        BY <1>5, <1>6, <2>2, <3>3, <4>1, <4>2
    <3>4. CASE i = n + 1 /\ j \in 1..n
      <4>1. Branch(instances[j], l) \in NNodes..(NNodes + vsourceIdx - 1)
        BY <1>5, <3>4 DEF Owners, RowsWithin
      <4>2. Branch(inst, k) \in (NNodes + vsourceIdx)..(NNodes + vsourceIdx' - 1)
        BY <1>4, <1>5, <1>9, <3>4
      <4> QED
        BY <1>5, <1>6, <2>2, <3>4, <4>1, <4>2
    <3> QED
      BY <1>5, <3>1, <3>2, <3>3, <3>4
  <2> QED
    BY <1>8, <2>1, <2>2 DEF OwnersApart, Branch
<1>12. RowsWithin'
  <2>1. ASSUME NEW i \in DOMAIN instances', NEW k \in DOMAIN instances'[i].inside
        PROVE  instances'[i].inside[k] \in Len(nodes)..(internalIdx' - 1)
    <3>1. CASE i \in 1..n
      <4>1. instances[i].inside[k] \in Len(nodes)..(internalIdx - 1)
        BY <1>5, <3>1 DEF Owners, RowsWithin
      <4> QED
        BY <1>2, <1>3, <1>5, <1>6, <3>1, <4>1
    <3>2. CASE i = n + 1
      <4>1. inst.inside[k] \in internalIdx..(internalIdx' - 1)
        BY <1>4, <1>5, <1>9, <3>2
      <4> QED
        BY <1>2, <1>3, <1>5, <1>6, <3>2, <4>1
    <3> QED
      BY <1>5, <3>1, <3>2
  <2>2. ASSUME NEW i \in DOMAIN instances', NEW k \in DOMAIN instances'[i].branches
        PROVE  Branch(instances'[i], k) \in NNodes..(NNodes + vsourceIdx' - 1)
    <3>1. CASE i \in 1..n
      <4>1. Branch(instances[i], k) \in NNodes..(NNodes + vsourceIdx - 1)
        BY <1>5, <3>1 DEF Owners, RowsWithin
      <4> QED
        BY <1>2, <1>3, <1>5, <1>6, <3>1, <4>1
    <3>2. CASE i = n + 1
      <4>1. Branch(inst, k) \in (NNodes + vsourceIdx)..(NNodes + vsourceIdx' - 1)
        BY <1>4, <1>5, <1>9, <3>2
      <4> QED
        BY <1>2, <1>3, <1>5, <1>6, <3>2, <4>1
    <3> QED
      BY <1>5, <3>1, <3>2
  <2> QED
    BY <1>7, <2>1, <2>2 DEF RowsWithin, Branch
<1>13. RowsCovered'
  <2>1. ASSUME NEW row \in Len(nodes)..(internalIdx' - 1)
        PROVE  \E i \in DOMAIN instances' : \E k \in DOMAIN instances'[i].inside :
                   instances'[i].inside[k] = row
    <3>1. CASE row \in Len(nodes)..(internalIdx - 1)
      <4>1. PICK i \in 1..n : \E k \in DOMAIN instances[i].inside : instances[i].inside[k] = row
        BY <1>5, <3>1 DEF Owners, RowsCovered
      <4> QED
        BY <1>5, <4>1
    <3>2. CASE ~ row \in Len(nodes)..(internalIdx - 1)
      <4> DEFINE k == row - internalIdx + 1
      <4>1. k \in 1..w /\ internalIdx + k - 1 = row
        BY <1>2, <1>3, <1>6, <3>2
      <4> HIDE DEF k
      <4>2. inst.inside[k] = row /\ k \in DOMAIN inst.inside
        BY <1>4, <4>1
      <4> QED
        BY <1>5, <4>2
    <3> QED
      BY <3>1, <3>2
  <2>2. ASSUME NEW row \in NNodes..(NNodes + vsourceIdx' - 1)
        PROVE  \E i \in DOMAIN instances' : \E k \in DOMAIN instances'[i].branches :
                   Branch(instances'[i], k) = row
    <3>1. CASE row \in NNodes..(NNodes + vsourceIdx - 1)
      <4>1. PICK i \in 1..n : \E k \in DOMAIN instances[i].branches : Branch(instances[i], k) = row
        BY <1>5, <3>1 DEF Owners, RowsCovered
      <4> QED
        BY <1>5, <4>1
    <3>2. CASE ~ row \in NNodes..(NNodes + vsourceIdx - 1)
      <4> DEFINE k == row - (NNodes + vsourceIdx) + 1
      <4>1. k \in 1..v /\ NNodes + vsourceIdx + k - 1 = row
        BY <1>2, <1>3, <1>6, <3>2
      <4> HIDE DEF k
      <4>2. Branch(inst, k) = row /\ k \in DOMAIN inst.branches
        BY <1>4, <4>1
      <4> QED
        BY <1>5, <4>2
    <3> QED
      BY <3>1, <3>2
  <2> QED
    BY <1>7, <2>1, <2>2 DEF RowsCovered, Branch
<1>14. phase' # "index"
  BY <1>2
<1> QED
  BY <1>5, <1>11, <1>12, <1>13, <1>14 DEF Owners

LEMMA OwnersSteps ==
    ASSUME FirstPass, Handing, Alike(circuit), Owners, FirstPass', Handing',
           \/ Counting \/ Giving \/ Passing \/ StartStamping \/ StartCoupling \/ Refusing
           \/ Coupling \/ Return \/ UNCHANGED assemblyVars
    PROVE  Owners'
<1>1. Len(nodes') \in Nat /\ NNodes' \in Int
  <2>1. Len(nodes') \in Nat
    BY LenProperties DEF FirstPass, NetRows
  <2>2. internalCount' \in Int
    <3>1. internalCount \in Nat
      BY CountsAre
    <3>2. CASE Counting
      <4>1. circuit \in Circuits /\ at \in 1..Size
        BY <3>2, CountsAre DEF Counting, FirstPass
      <4>2. Inner(Element) \in Nat
        BY <4>1, CircuitSums DEF Element
      <4> QED
        BY <3>1, <3>2, <4>2 DEF Counting
    <3>3. CASE ~ Counting
      <4>1. internalCount' = internalCount
        BY <3>3 DEF Giving, Stamped, Passing, StartStamping, StartCoupling, Refusing, Refuse,
                    Coupling, Return, assemblyVars, counts
      <4> QED
        BY <3>1, <4>1
    <3> QED
      BY <3>2, <3>3
  <2> QED
    BY <2>1, <2>2 DEF NNodes
<1>2. CASE Giving
  BY <1>2, GivingKeepsOwners
<1>3. CASE Counting \/ StartStamping
  <2>1. phase = "index" /\ instances' = instances
        /\ vsourceIdx' = vsourceIdx /\ internalIdx' \in {internalIdx, Len(nodes')}
    BY <1>3 DEF Counting, IndexNets, StartStamping, handed
  <2>2. instances' = <<>> /\ vsourceIdx' = 0 /\ internalIdx' \in {0, Len(nodes')}
    BY <2>1 DEF Owners, Handing
  <2>3. DOMAIN instances' = {}
    BY <2>2
  <2>4. instances' \in Seq(ToSet(instances'))
    <3>1. instances' = [k \in 1..0 |-> instances'[k]]
      BY <2>2
    <3> QED
      BY <3>1, SeqOfValues
  <2>5. Len(nodes')..(internalIdx' - 1) = {} /\ NNodes'..(NNodes' + vsourceIdx' - 1) = {}
    <3>1. internalIdx' - 1 < Len(nodes') /\ internalIdx' \in Int
      BY <1>1, <2>2
    <3>2. \A a \in Int : a..(a + 0 - 1) = {}
      OBVIOUS
    <3>3. NNodes'..(NNodes' + 0 - 1) = {}
      BY <1>1, <3>2, Zenon
    <3>4. Len(nodes')..(internalIdx' - 1) = {}
      BY <1>1, <3>1
    <3>5. NNodes'..(NNodes' + vsourceIdx' - 1) = {}
      BY <2>2, <3>3, Zenon
    <3> QED
      BY <3>4, <3>5
  <2> QED
    BY <2>2, <2>3, <2>4, <2>5 DEF Owners, OwnersApart, RowsWithin, RowsCovered
<1>4. CASE Passing \/ StartCoupling \/ Refusing \/ Coupling \/ Return \/ UNCHANGED assemblyVars
  <2>1. /\ instances' = instances /\ internalIdx' = internalIdx /\ vsourceIdx' = vsourceIdx
        /\ UNCHANGED <<nodes, counts>>
        /\ phase' = "index" => phase = "index"
    BY <1>4 DEF Passing, StartCoupling, Refusing, Refuse, Coupling, Return, assemblyVars, handed
  <2>2. NNodes' = NNodes
    BY <2>1 DEF NNodes, counts
  <2> QED
    BY <2>1, <2>2 DEF Owners, OwnersApart, RowsWithin, RowsCovered, Branch
<1> QED
  BY <1>2, <1>3, <1>4

-----------------------------------------------------------------------------
(* Names of branches.                                                      *)

Position(j) == BranchesIn(j - 1) + 1

\* The branches of an instance are printed under the name of its element.
BranchesNamed ==
    \A i \in DOMAIN instances : \A k \in DOMAIN instances[i].branches :
        /\ instances[i].branches[k] \in Int
        /\ \E b \in DOMAIN vsourceNames :
              /\ Branch(instances[i], k) = NNodes + b - 1
              /\ Lower[vsourceNames[b][1]] = Lower[instances[i].element.name]

\* A branch with a plain name is that of an element with one branch.
SinglesPlaced ==
    \A b \in DOMAIN vsourceNames :
        Len(vsourceNames[b]) = 1 =>
            \E j \in 1..Size : /\ circuit.elements[j].kind \in Named
                               /\ vsourceNames[b] = <<circuit.elements[j].name>>
                               /\ b = Position(j)

\* An element with one branch has its instance, row and name once it is stamped.
NamedStamped ==
    phase \in {"stamp", "couple", "done"} =>
        \A j \in 1..Given :
            circuit.elements[j].kind \in Named =>
                /\ \E i \in DOMAIN instances :
                      /\ instances[i].element = circuit.elements[j]
                      /\ instances[i].branches = <<NNodes + BranchesIn(j - 1)>>
                /\ Position(j) \in DOMAIN vsourceNames
                /\ vsourceNames[Position(j)] = <<circuit.elements[j].name>>

Naming ==
    /\ vsourceNames \in Seq(ToSet(vsourceNames)) /\ Len(vsourceNames) = vsourceIdx
    /\ phase = "index" => vsourceNames = <<>>
    /\ BranchesNamed /\ SinglesPlaced /\ NamedStamped

\* What a sequence becomes when another is concatenated.
Joining(s, m, t) ==
    /\ t \in Seq(ToSet(t))
    /\ Len(s) \in Nat /\ DOMAIN s = 1..Len(s)
    /\ Len(t) = Len(s) + Len(m) /\ DOMAIN t = 1..(Len(s) + Len(m))
    /\ \A i \in 1..Len(s) : i \in DOMAIN t /\ t[i] = s[i]
    /\ \A k \in 1..Len(m) : Len(s) + k \in DOMAIN t /\ t[Len(s) + k] = m[k]
    /\ \A i \in DOMAIN t : i \in 1..Len(s) \/ (i - Len(s) \in 1..Len(m) /\ t[i] = m[i - Len(s)])

LEMMA Joined ==
    ASSUME NEW s, s \in Seq(ToSet(s)), NEW m, m \in Seq(ToSet(m)), NEW t, t = s \o m
    PROVE  Joining(s, m, t)
<1>1. Len(s) \in Nat /\ DOMAIN s = 1..Len(s) /\ Len(m) \in Nat
  BY LenProperties
<1> DEFINE V == ToSet(s) \cup ToSet(m)
<1>2. s \in Seq(V) /\ m \in Seq(V)
  BY SeqMonotonic
<1> HIDE DEF V
<1>3. t \in Seq(V)
  BY <1>2, ConcatProperties
<1>4. Len(t) = Len(s) + Len(m)
  BY <1>2, ConcatProperties
<1>5. \A i \in 1..Len(s) + Len(m) : t[i] = IF i <= Len(s) THEN s[i] ELSE m[i - Len(s)]
  BY <1>2, ConcatProperties
<1>6. DOMAIN t = 1..(Len(s) + Len(m))
  BY <1>3, <1>4, LenProperties
<1>7. t \in Seq(ToSet(t))
  <2>1. t \in [1..Len(t) -> V]
    BY <1>3, LenProperties
  <2>2. t = [i \in 1..Len(t) |-> t[i]]
    BY <2>1
  <2>3. Len(t) \in Nat
    BY <1>3, LenProperties
  <2> QED
    BY <2>2, <2>3, SeqOfValues
<1>8. \A i \in 1..Len(s) : i \in DOMAIN t /\ t[i] = s[i]
  BY <1>1, <1>5, <1>6
<1>9. ASSUME NEW k \in 1..Len(m)
      PROVE  Len(s) + k \in DOMAIN t /\ t[Len(s) + k] = m[k]
  <2>1. Len(s) + k \in 1..Len(s) + Len(m) /\ ~ Len(s) + k <= Len(s) /\ (Len(s) + k) - Len(s) = k
    BY <1>1
  <2> QED
    BY <1>5, <1>6, <2>1
<1>10. ASSUME NEW i \in DOMAIN t
       PROVE  i \in 1..Len(s) \/ (i - Len(s) \in 1..Len(m) /\ t[i] = m[i - Len(s)])
  BY <1>1, <1>5, <1>6
<1> QED
  BY <1>1, <1>4, <1>6, <1>7, <1>8, <1>9, <1>10 DEF Joining

LEMMA GivingKeepsNames ==
    ASSUME FirstPass, Handing, Alike(circuit), Owners, Naming, Giving
    PROVE  Naming'
<1> DEFINE v == Branches(circuit, Element)
           n == Len(instances)
<1>1. PICK inst : New(inst)
  BY GivingIs
<1>2. PICK names : NamesOf(Element, names) /\ vsourceNames' = vsourceNames \o names
  BY GivingIs
<1>3. /\ phase = "stamp" /\ at \in 1..Size /\ phase' = phase /\ at' = at + 1
      /\ vsourceIdx' = vsourceIdx + v
      /\ UNCHANGED <<circuit, nodes, counts>>
  BY GivingIs
<1>4. v \in Nat /\ circuit \in Circuits /\ Size \in Nat
  BY <1>3, CircuitSums DEF Element, FirstPass
<1>5. /\ n \in Nat /\ DOMAIN instances = 1..n
      /\ DOMAIN instances' = 1..(n + 1) /\ n + 1 \in DOMAIN instances' /\ instances'[n + 1] = inst
      /\ \A i \in 1..n : i \in DOMAIN instances' /\ instances'[i] = instances[i]
      /\ \A i \in DOMAIN instances' : i \in 1..n \/ i = n + 1
  <2>1. instances \in Seq(ToSet(instances))
    BY DEF Owners
  <2>2. instances' = Append(instances, inst)
    BY <1>1 DEF New
  <2>3. \A t : t = Append(instances, inst) =>
           /\ t \in Seq(ToSet(t))
           /\ Len(instances) \in Nat /\ DOMAIN instances = 1..Len(instances)
           /\ DOMAIN t = 1..(Len(instances) + 1) /\ Len(t) = Len(instances) + 1
           /\ \A i \in 1..Len(instances) : i \in DOMAIN t /\ t[i] = instances[i]
           /\ Len(instances) + 1 \in DOMAIN t /\ t[Len(instances) + 1] = inst
           /\ \A i \in DOMAIN t : i \in 1..Len(instances) \/ i = Len(instances) + 1
    BY <2>1, Longer
  <2> QED
    BY <2>2, <2>3, Zenon
<1> DEFINE u == Len(vsourceNames)
<1>6. /\ names \in Seq(ToSet(names)) /\ Len(names) = v
      /\ \A k \in 1..v : /\ Lower[names[k][1]] = Lower[Element.name]
                         /\ Len(names[k]) = 1 => Element.kind \in Named
                         /\ Element.kind \in Named => names[k] = <<Element.name>>
  BY <1>2 DEF NamesOf
<1>7. /\ vsourceNames' \in Seq(ToSet(vsourceNames'))
      /\ u \in Nat /\ DOMAIN vsourceNames = 1..u
      /\ Len(vsourceNames') = u + v /\ DOMAIN vsourceNames' = 1..(u + v)
      /\ \A b \in 1..u : b \in DOMAIN vsourceNames' /\ vsourceNames'[b] = vsourceNames[b]
      /\ \A k \in 1..v : u + k \in DOMAIN vsourceNames' /\ vsourceNames'[u + k] = names[k]
      /\ \A b \in DOMAIN vsourceNames' :
            b \in 1..u \/ (b - u \in 1..v /\ vsourceNames'[b] = names[b - u])
  <2>1. vsourceNames \in Seq(ToSet(vsourceNames))
    BY DEF Naming
  <2>2. Joining(vsourceNames, names, vsourceNames')
    BY <1>2, <1>6, <2>1, Joined
  <2> HIDE DEF v
  <2> QED
    BY <1>6, <2>2 DEF Joining
<1>8. u = vsourceIdx /\ vsourceIdx = BranchesIn(at - 1) /\ vsourceIdx \in Nat /\ NNodes \in Nat
  BY <1>3, CountsAre DEF Naming, Handing, Given
<1>9. /\ NNodes' = NNodes /\ Size' = Size
      /\ \A k : BranchesIn(k)' = BranchesIn(k)
  BY <1>3 DEF NNodes, counts, Size, BranchesIn, Branches
<1>10. \A i, k : Branch(i, k)' = Branch(i, k)
  BY <1>9 DEF Branch
<1>11. /\ inst.element = Element /\ inst.branches = BranchRows(Element)
       /\ DOMAIN inst.branches = 1..v
       /\ \A k \in 1..v : Branch(inst, k) = NNodes + vsourceIdx + k - 1
  BY <1>1 DEF New
<1>12. \A k \in 1..v : BranchRows(Element)[k] \in Int
  <2>1. Base(Element) \in Int
    BY <1>8 DEF Base
  <2>2. \A k \in 1..v : BranchRows(Element)[k] = Base(Element) + vsourceIdx + k - 1
    BY DEF BranchRows
  <2> HIDE DEF v
  <2> QED
    BY <1>4, <1>8, <2>1, <2>2
<1>13. Element = circuit.elements[at]
  BY DEF Element
<1> HIDE DEF v, n, u
<1>14. BranchesNamed'
  <2> SUFFICES ASSUME NEW i \in DOMAIN instances', NEW k \in DOMAIN instances'[i].branches
               PROVE  /\ instances'[i].branches[k] \in Int
                      /\ \E b \in DOMAIN vsourceNames' :
                            /\ Branch(instances'[i], k) = NNodes + b - 1
                            /\ Lower[vsourceNames'[b][1]] = Lower[instances'[i].element.name]
    BY <1>9 DEF BranchesNamed, Branch
  <2>1. CASE i \in 1..n
    <3>1. k \in DOMAIN instances[i].branches /\ i \in DOMAIN instances
      BY <1>5, <2>1
    <3>2. PICK b \in DOMAIN vsourceNames :
              /\ Branch(instances[i], k) = NNodes + b - 1
              /\ Lower[vsourceNames[b][1]] = Lower[instances[i].element.name]
      BY <3>1 DEF Naming, BranchesNamed
    <3>3. instances[i].branches[k] \in Int
      BY <3>1 DEF Naming, BranchesNamed
    <3> QED
      BY <1>5, <1>7, <2>1, <3>2, <3>3
  <2>2. CASE i = n + 1
    <3>1. instances'[i] = inst /\ k \in 1..v
      BY <1>5, <1>11, <2>2
    <3>2. u + k \in DOMAIN vsourceNames' /\ vsourceNames'[u + k] = names[k]
      BY <1>7, <3>1
    <3>3. Branch(inst, k) = NNodes + (u + k) - 1
      BY <1>4, <1>8, <1>11, <3>1
    <3> QED
      BY <1>6, <1>11, <1>12, <3>1, <3>2, <3>3
  <2> QED
    BY <1>5, <2>1, <2>2
<1>15. SinglesPlaced'
  <2> SUFFICES ASSUME NEW b \in DOMAIN vsourceNames', Len(vsourceNames'[b]) = 1
               PROVE  \E j \in 1..Size : /\ circuit.elements[j].kind \in Named
                                         /\ vsourceNames'[b] = <<circuit.elements[j].name>>
                                         /\ b = Position(j)
    BY <1>3, <1>9 DEF SinglesPlaced, Position, BranchesIn, Branches
  <2>1. CASE b \in 1..u
    BY <1>7, <2>1 DEF Naming, SinglesPlaced
  <2>2. CASE b - u \in 1..v /\ vsourceNames'[b] = names[b - u]
    <3>1. Element.kind \in Named /\ vsourceNames'[b] = <<Element.name>>
      BY <1>6, <2>2
    <3>2. v = 1
      BY <3>1, BranchesAre DEF v
    <3>3. b \in Int
      BY <1>4, <1>7
    <3>4. b = Position(at)
      BY <1>8, <2>2, <3>2, <3>3 DEF Position
    <3> QED
      BY <1>3, <1>13, <3>1, <3>4
  <2> QED
    BY <1>7, <2>1, <2>2
<1>16. NamedStamped'
  <2>1. Given' = at
    BY <1>3, <1>4 DEF Given
  <2> SUFFICES ASSUME NEW j \in 1..at, circuit.elements[j].kind \in Named
               PROVE  /\ \E i \in DOMAIN instances' :
                            /\ instances'[i].element = circuit.elements[j]
                            /\ instances'[i].branches = <<NNodes + BranchesIn(j - 1)>>
                      /\ Position(j) \in DOMAIN vsourceNames'
                      /\ vsourceNames'[Position(j)] = <<circuit.elements[j].name>>
    BY <1>3, <1>9, <2>1 DEF NamedStamped, Position, BranchesIn, Branches
  <2>2. CASE j # at
    <3>1. j \in 1..Given
      BY <1>3, <2>2 DEF Given
    <3>2. /\ \E i \in DOMAIN instances :
                /\ instances[i].element = circuit.elements[j]
                /\ instances[i].branches = <<NNodes + BranchesIn(j - 1)>>
          /\ Position(j) \in DOMAIN vsourceNames
          /\ vsourceNames[Position(j)] = <<circuit.elements[j].name>>
      BY <1>3, <3>1 DEF Naming, NamedStamped
    <3>3. PICK i \in 1..n : /\ instances[i].element = circuit.elements[j]
                            /\ instances[i].branches = <<NNodes + BranchesIn(j - 1)>>
      BY <1>5, <3>2
    <3>4. i \in DOMAIN instances' /\ instances'[i] = instances[i]
      BY <1>5
    <3>5. \E k \in DOMAIN instances' : /\ instances'[k].element = circuit.elements[j]
                                       /\ instances'[k].branches = <<NNodes + BranchesIn(j - 1)>>
      BY <3>3, <3>4
    <3>6. /\ Position(j) \in DOMAIN vsourceNames'
          /\ vsourceNames'[Position(j)] = <<circuit.elements[j].name>>
      BY <1>7, <3>2
    <3> QED
      BY <3>5, <3>6, Zenon
  <2>3. CASE j = at
    <3>1. Element.kind \in Named /\ circuit.elements[j] = Element
      BY <1>13, <2>3
    <3>2. v = 1
      BY <3>1, BranchesAre DEF v
    <3>3. BranchRows(Element) = <<NNodes + vsourceIdx>>
      BY <1>8, <3>1, OneName
    <3>4. u + 1 \in DOMAIN vsourceNames' /\ vsourceNames'[u + 1] = names[1]
      BY <1>7, <3>2
    <3>5. names[1] = <<Element.name>>
      BY <1>6, <3>1, <3>2
    <3>6. Position(j) = u + 1 /\ NNodes + BranchesIn(j - 1) = NNodes + vsourceIdx
      BY <1>8, <2>3 DEF Position
    <3>7. instances'[n + 1].element = circuit.elements[j]
      BY <1>5, <1>11, <3>1
    <3>8. instances'[n + 1].branches = <<NNodes + BranchesIn(j - 1)>>
      BY <1>5, <1>11, <3>3, <3>6
    <3>9. n + 1 \in DOMAIN instances'
      BY <1>5
    <3>10. vsourceNames'[Position(j)] = <<circuit.elements[j].name>>
      BY <3>1, <3>4, <3>5, <3>6
    <3>11. \E i \in DOMAIN instances' : /\ instances'[i].element = circuit.elements[j]
                                        /\ instances'[i].branches = <<NNodes + BranchesIn(j - 1)>>
      BY <3>7, <3>8, <3>9, Zenon
    <3>12. Position(j) \in DOMAIN vsourceNames'
      BY <3>4, <3>6, Zenon
    <3> QED
      BY <3>10, <3>11, <3>12, Zenon
  <2> QED
    BY <2>2, <2>3
<1>17. Len(vsourceNames') = vsourceIdx' /\ phase' # "index"
  BY <1>3, <1>7, <1>8
<1> QED
  BY <1>7, <1>14, <1>15, <1>16, <1>17 DEF Naming

LEMMA NamingSteps ==
    ASSUME FirstPass, Handing, Alike(circuit), Owners, Naming,
           \/ Counting \/ Giving \/ Passing \/ StartStamping \/ StartCoupling \/ Refusing
           \/ Coupling \/ Return \/ UNCHANGED assemblyVars
    PROVE  Naming'
<1>1. CASE Giving
  BY <1>1, GivingKeepsNames
<1>2. CASE Counting \/ StartStamping
  <2>1. /\ phase = "index" /\ instances' = instances /\ vsourceNames' = vsourceNames
        /\ vsourceIdx' = vsourceIdx
        /\ phase' = "index" \/ (phase' = "stamp" /\ at' = 1)
    BY <1>2 DEF Counting, IndexNets, StartStamping, handed
  <2>2. instances' = <<>> /\ vsourceNames' = <<>>
    BY <2>1 DEF Owners, Naming
  <2>3. DOMAIN instances' = {} /\ DOMAIN vsourceNames' = {}
    BY <2>2
  <2>4. BranchesNamed' /\ SinglesPlaced'
    BY <2>3 DEF BranchesNamed, SinglesPlaced
  <2>5. NamedStamped'
    <3>1. phase' = "stamp" => Given' = 0
      BY <2>1 DEF Given
    <3>2. 1..0 = {}
      OBVIOUS
    <3> QED
      BY <2>1, <3>1, <3>2 DEF NamedStamped
  <2>6. vsourceNames' \in Seq(ToSet(vsourceNames')) /\ Len(vsourceNames') = vsourceIdx'
    BY <2>1 DEF Naming
  <2> QED
    BY <2>2, <2>4, <2>5, <2>6 DEF Naming
<1>3. CASE Passing \/ StartCoupling \/ Refusing \/ Coupling \/ Return \/ UNCHANGED assemblyVars
  <2>1. /\ UNCHANGED <<circuit, nodes, counts, vsourceIdx, vsourceNames, instances>>
        /\ phase' = "index" => phase = "index"
    BY <1>3 DEF Passing, StartCoupling, Refusing, Refuse, Coupling, Return, assemblyVars, handed
  <2>2. NNodes' = NNodes /\ Size' = Size /\ \A k : BranchesIn(k)' = BranchesIn(k)
    BY <2>1 DEF NNodes, counts, Size, BranchesIn, Branches
  <2>3. BranchesNamed'
    BY <2>1, <2>2 DEF Naming, BranchesNamed, Branch
  <2>4. SinglesPlaced'
    BY <2>1, <2>2 DEF Naming, SinglesPlaced, Position, BranchesIn, Branches
  <2>5. ASSUME phase' \in {"stamp", "couple", "done"}
        PROVE  /\ phase \in {"stamp", "couple", "done"}
               /\ \A j \in 1..Given' : \/ j \in 1..Given
                                       \/ circuit.elements[j].kind \notin Named
    <3>1. Size \in Nat /\ at \in 1..(Size + 1) /\ Size' = Size
      BY <2>2, CountsAre DEF FirstPass
    <3>2. CASE Passing
      <4>1. phase' = phase /\ at' = at + 1 /\ at <= Size
        BY <3>2 DEF Passing
      <4>2. CASE phase = "stamp"
        <5>1. Given = at - 1 /\ Given' = at
          BY <3>1, <4>1, <4>2 DEF Given
        <5>2. Branches(circuit, Element) = 0
          BY <3>2, <4>2 DEF Passing
        <5>3. circuit.elements[at].kind \notin Named
          BY <5>2, BranchesAre DEF Element
        <5> QED
          BY <3>1, <4>2, <5>1, <5>3
      <4>3. CASE phase # "stamp"
        <5>1. Given' = Given
          BY <3>1, <4>1, <4>3 DEF Given
        <5> QED
          BY <2>5, <4>1, <5>1
      <4> QED
        BY <4>2, <4>3
    <3>3. CASE StartCoupling
      <4>1. phase = "stamp" /\ phase' = "couple" /\ at = Size + 1
        BY <3>1, <3>3 DEF StartCoupling, Size
      <4>2. Given = Size /\ Given' = Size
        BY <3>1, <4>1 DEF Given
      <4> QED
        BY <4>1, <4>2
    <3>4. CASE Refusing
      BY <2>5, <3>4 DEF Refusing, Refuse
    <3>5. CASE Coupling \/ Return
      <4>1. phase = "couple" /\ phase' \in {"couple", "done"}
        BY <3>5 DEF Coupling, Return
      <4>2. Given = Size /\ Given' = Size
        BY <3>1, <4>1 DEF Given
      <4> QED
        BY <4>1, <4>2
    <3>6. CASE UNCHANGED assemblyVars
      <4>1. phase' = phase /\ at' = at
        BY <3>6 DEF assemblyVars
      <4>2. Given' = Given
        BY <3>1, <4>1 DEF Given
      <4> QED
        BY <2>5, <4>1, <4>2
    <3> QED
      BY <1>3, <3>2, <3>3, <3>4, <3>5, <3>6
  <2>6. NamedStamped'
    <3> SUFFICES ASSUME phase' \in {"stamp", "couple", "done"}, NEW j \in 1..Given',
                        circuit.elements[j].kind \in Named
                 PROVE  /\ \E i \in DOMAIN instances :
                              /\ instances[i].element = circuit.elements[j]
                              /\ instances[i].branches = <<NNodes + BranchesIn(j - 1)>>
                        /\ Position(j) \in DOMAIN vsourceNames
                        /\ vsourceNames[Position(j)] = <<circuit.elements[j].name>>
      BY <2>1, <2>2 DEF NamedStamped, Position, BranchesIn, Branches
    <3>1. phase \in {"stamp", "couple", "done"} /\ j \in 1..Given
      BY <2>5
    <3> QED
      BY <3>1 DEF Naming, NamedStamped
  <2>7. vsourceNames' \in Seq(ToSet(vsourceNames')) /\ Len(vsourceNames') = vsourceIdx'
        /\ (phase' = "index" => vsourceNames' = <<>>)
    BY <2>1 DEF Naming
  <2> QED
    BY <2>3, <2>4, <2>6, <2>7 DEF Naming
<1> QED
  BY <1>1, <1>2, <1>3

-----------------------------------------------------------------------------
(* What instances refer to, and the recount.                               *)

\* The readers' sum leaves no inner node out.
Recounts(c) == \A e \in ToSet(c.elements) : Recountable(e)

Terminals ==
    \A i \in DOMAIN instances : \A k \in DOMAIN instances[i].terminals :
        instances[i].element.nodes[k] # Ground =>
            /\ instances[i].terminals[k] \in 0..(Len(nodes) - 1)
            /\ nodes[instances[i].terminals[k] + 1] = instances[i].element.nodes[k]

Sensing == \A i \in DOMAIN instances :
    instances[i].element.kind \in Controlled =>
        Refers(instances[i].element) /\ instances[i].controls = Referred(instances[i].element)

Wiring ==
    /\ Terminals /\ Sensing
    /\ couplings \in Seq(ToSet(couplings)) /\ (phase = "index" => couplings = <<>>)
    /\ \A c \in DOMAIN couplings :
          Refers(couplings[c].element) /\ couplings[c].rows = Referred(couplings[c].element)

Recount(k) == Total([i \in DOMAIN instances |-> Recounted(instances[i])], k)

Recounting ==
    phase # "index" =>
        /\ \A i \in DOMAIN instances : Recounted(instances[i]) \in Nat
        /\ Len(nodes) + Recount(Len(instances)) = internalIdx

\* What is recounted of an instance are the nodes it was given.
LEMMA RecountedIs ==
    ASSUME NEW inst, NEW e, inst.element = e, Recountable(e), Len(inst.inside) = Inner(e)
    PROVE  Recounted(inst) = Inner(e)
<1>0. inst.element.kind = e.kind
  OBVIOUS
<1>1. CASE e.kind = "mos2"
  <2>1. Reserved(e) = Cardinality(Positive(e, ModelR("mos2")))
    BY <1>1 DEF Reserved, GaAs, Soi, Sheet
  <2>2. e.kind \in Devices /\ e.kind \in Unread /\ e.kind \notin Held
    BY <1>1 DEF Devices, Modelled, Held, Unread, Soi
  <2>3. Recounted(inst) = 0
    BY <1>0, <2>2 DEF Recounted
  <2> QED
    BY <1>1, <2>1, <2>2, <2>3, FS_EmptySet DEF Inner, Recountable
<1>2. CASE e.kind = "bsim2"
  <2>1. Reserved(e) = Cardinality(SheetNodes(e))
    BY <1>2 DEF Reserved, GaAs, Soi, Sheet
  <2>2. e.kind \in Devices /\ e.kind \in Unread /\ e.kind \notin Held
    BY <1>2 DEF Devices, Sheet, Held, Unread, Soi
  <2>3. Recounted(inst) = 0
    BY <1>0, <2>2 DEF Recounted
  <2> QED
    BY <1>2, <2>1, <2>2, <2>3, FS_EmptySet DEF Inner, Recountable
<1>3. CASE e.kind \in Held
  <2>1. inst.element.kind \in Held
    BY <1>0, <1>3
  <2> QED
    BY <2>1 DEF Recounted
<1>4. CASE e.kind \notin Held /\ e.kind \notin {"mos2", "bsim2"}
  <2>1. inst.element.kind \notin Held /\ inst.element.kind \notin Unread
    BY <1>0, <1>4 DEF Unread
  <2>2. Recounted(inst) = IF e.kind \in Devices THEN Reserved(e) ELSE 0
    BY <2>1 DEF Recounted
  <2> QED
    BY <2>2 DEF Inner
<1> QED
  BY <1>1, <1>2, <1>3, <1>4

LEMMA ReferredKept ==
    ASSUME UNCHANGED <<nodes, counts>>
    PROVE  /\ NNodes' = NNodes
           /\ \A e : Refers(e)' <=> Refers(e)
           /\ \A e : Referred(e)' = Referred(e)
<1>1. NNodes' = NNodes /\ offsets' = offsets
  BY DEF NNodes, counts
<1> QED
  BY <1>1 DEF Refers, Referred

LEMMA GivingKeepsWiring ==
    ASSUME FirstPass, Handing, Alike(circuit), Owners, Wiring, Giving
    PROVE  Wiring'
<1> DEFINE n == Len(instances)
<1>1. PICK inst : New(inst)
  BY GivingIs
<1>2. /\ phase = "stamp" /\ at \in 1..Size /\ phase' = phase /\ Indexes(circuit, Element)
      /\ UNCHANGED <<circuit, nodes, counts, couplings>>
  BY GivingIs
<1>3. /\ \A i \in 1..n : i \in DOMAIN instances /\ instances'[i] = instances[i]
      /\ instances'[n + 1] = inst
      /\ \A i \in DOMAIN instances' : i \in 1..n \/ i = n + 1
  <2>1. instances \in Seq(ToSet(instances))
    BY DEF Owners
  <2>2. instances' = Append(instances, inst)
    BY <1>1 DEF New
  <2>3. \A t : t = Append(instances, inst) =>
           /\ t \in Seq(ToSet(t))
           /\ Len(instances) \in Nat /\ DOMAIN instances = 1..Len(instances)
           /\ DOMAIN t = 1..(Len(instances) + 1) /\ Len(t) = Len(instances) + 1
           /\ \A i \in 1..Len(instances) : i \in DOMAIN t /\ t[i] = instances[i]
           /\ Len(instances) + 1 \in DOMAIN t /\ t[Len(instances) + 1] = inst
           /\ \A i \in DOMAIN t : i \in 1..Len(instances) \/ i = Len(instances) + 1
    BY <2>1, Longer
  <2> QED
    BY <2>2, <2>3, Zenon
<1>4. /\ inst.element = Element
      /\ inst.terminals = [k \in Connected(Element) |-> Row(Element.nodes[k])]
      /\ Element.kind \in Controlled => Refers(Element) /\ inst.controls = Referred(Element)
  BY <1>1 DEF New
<1>5. /\ \A e : Refers(e)' <=> Refers(e)
      /\ \A e : Referred(e)' = Referred(e)
  BY <1>2, ReferredKept
<1> HIDE DEF n
<1>6. Terminals'
  <2> SUFFICES ASSUME NEW i \in DOMAIN instances', NEW k \in DOMAIN instances'[i].terminals,
                      instances'[i].element.nodes[k] # Ground
               PROVE  /\ instances'[i].terminals[k] \in 0..(Len(nodes) - 1)
                      /\ nodes[instances'[i].terminals[k] + 1] = instances'[i].element.nodes[k]
    BY <1>2 DEF Terminals
  <2>1. CASE i \in 1..n
    <3>1. instances'[i] = instances[i] /\ i \in DOMAIN instances
      BY <1>3, <2>1
    <3> QED
      BY <3>1 DEF Wiring, Terminals
  <2>2. CASE i = n + 1
    <3>1. instances'[i] = inst
      BY <1>3, <2>2
    <3>2. k \in Connected(Element) /\ inst.terminals[k] = Row(Element.nodes[k])
      BY <1>4, <3>1
    <3>3. Element = circuit.elements[at] /\ at \in 1..Counted
      BY <1>2 DEF Element, Counted
    <3>4. Element.nodes[k] \in {Ground} \cup ToSet(nodes)
      BY <1>2, <3>2, <3>3 DEF FirstPass, NetsSeen
    <3>5. Element.nodes[k] \in ToSet(nodes)
      BY <1>4, <3>1, <3>4
    <3>6. /\ Row(Element.nodes[k]) \in 0..(Len(nodes) - 1)
          /\ nodes[Row(Element.nodes[k]) + 1] = Element.nodes[k]
      BY <3>5, RowIs DEF FirstPass
    <3> QED
      BY <1>4, <3>1, <3>2, <3>6
  <2> QED
    BY <1>3, <2>1, <2>2
<1>7. Sensing'
  <2> SUFFICES ASSUME NEW i \in DOMAIN instances', instances'[i].element.kind \in Controlled
               PROVE  /\ Refers(instances'[i].element)
                      /\ instances'[i].controls = Referred(instances'[i].element)
    <3>1. \A e : (Refers(e)' <=> Refers(e)) /\ Referred(e)' = Referred(e)
      BY <1>5
    <3>2. offsets' = offsets /\ NNodes' = NNodes
      BY <1>2, ReferredKept DEF counts
    <3> QED
      BY <3>2 DEF Sensing, Refers, Referred
  <2>1. CASE i \in 1..n
    BY <1>3, <2>1 DEF Wiring, Sensing
  <2>2. CASE i = n + 1
    BY <1>3, <1>4, <2>2
  <2> QED
    BY <1>3, <2>1, <2>2
<1>8. offsets' = offsets /\ NNodes' = NNodes /\ couplings' = couplings /\ phase' # "index"
  BY <1>2, ReferredKept DEF counts
<1>9. /\ couplings' \in Seq(ToSet(couplings'))
      /\ \A c \in DOMAIN couplings' : /\ Refers(couplings[c].element)
                                      /\ couplings[c].rows = Referred(couplings[c].element)
  BY <1>8 DEF Wiring
<1> QED
  BY <1>6, <1>7, <1>8, <1>9 DEF Wiring, Refers, Referred

LEMMA CouplingKeepsWiring ==
    ASSUME FirstPass, Wiring, Coupling
    PROVE  Wiring'
<1> DEFINE n == Len(couplings)
           x == [element |-> Element, rows |-> Referred(Element)]
<1>1. /\ phase = "couple" /\ Refers(Element) /\ couplings' = Append(couplings, x)
      /\ UNCHANGED <<circuit, phase, nodes, counts, instances>>
  BY DEF Coupling, handed
<1>2. x.element = Element /\ x.rows = Referred(Element)
  OBVIOUS
<1> HIDE DEF x
<1>3. /\ couplings' \in Seq(ToSet(couplings'))
      /\ \A c \in 1..n : c \in DOMAIN couplings /\ couplings'[c] = couplings[c]
      /\ couplings'[n + 1] = x
      /\ \A c \in DOMAIN couplings' : c \in 1..n \/ c = n + 1
  <2>1. couplings \in Seq(ToSet(couplings))
    BY DEF Wiring
  <2>2. \A t : t = Append(couplings, x) =>
           /\ t \in Seq(ToSet(t))
           /\ Len(couplings) \in Nat /\ DOMAIN couplings = 1..Len(couplings)
           /\ DOMAIN t = 1..(Len(couplings) + 1) /\ Len(t) = Len(couplings) + 1
           /\ \A i \in 1..Len(couplings) : i \in DOMAIN t /\ t[i] = couplings[i]
           /\ Len(couplings) + 1 \in DOMAIN t /\ t[Len(couplings) + 1] = x
           /\ \A i \in DOMAIN t : i \in 1..Len(couplings) \/ i = Len(couplings) + 1
    BY <2>1, Longer
  <2> QED
    BY <1>1, <2>2, Zenon
<1> HIDE DEF n
<1>4. offsets' = offsets /\ NNodes' = NNodes /\ nodes' = nodes /\ instances' = instances
      /\ phase' # "index"
  BY <1>1, ReferredKept DEF counts
<1>5. \A c \in DOMAIN couplings' : /\ Refers(couplings'[c].element)
                                   /\ couplings'[c].rows = Referred(couplings'[c].element)
  <2> SUFFICES ASSUME NEW c \in DOMAIN couplings'
               PROVE  /\ Refers(couplings'[c].element)
                      /\ couplings'[c].rows = Referred(couplings'[c].element)
    OBVIOUS
  <2>1. CASE c \in 1..n
    BY <1>3, <2>1 DEF Wiring
  <2>2. CASE c = n + 1
    BY <1>1, <1>2, <1>3, <2>2
  <2> QED
    BY <1>3, <2>1, <2>2
<1>6. Terminals'
  BY <1>4 DEF Wiring, Terminals
<1>7. Sensing'
  BY <1>4 DEF Wiring, Sensing, Refers, Referred
<1> QED
  BY <1>3, <1>4, <1>5, <1>6, <1>7 DEF Wiring, Refers, Referred

LEMMA WiringSteps ==
    ASSUME FirstPass, Handing, Alike(circuit), Owners, Wiring,
           \/ Counting \/ Giving \/ Passing \/ StartStamping \/ StartCoupling \/ Refusing
           \/ Coupling \/ Return \/ UNCHANGED assemblyVars
    PROVE  Wiring'
<1>1. CASE Giving
  BY <1>1, GivingKeepsWiring
<1>2. CASE Coupling
  BY <1>2, CouplingKeepsWiring
<1>3. CASE Counting \/ StartStamping
  <2>1. phase = "index" /\ instances' = instances /\ couplings' = couplings
    BY <1>3 DEF Counting, IndexNets, StartStamping, handed
  <2>2. instances' = <<>> /\ couplings' = <<>>
    BY <2>1 DEF Owners, Wiring
  <2>3. DOMAIN instances' = {} /\ DOMAIN couplings' = {}
    BY <2>2
  <2>4. couplings' \in Seq(ToSet(couplings'))
    BY <2>1 DEF Wiring
  <2> QED
    BY <2>2, <2>3, <2>4 DEF Wiring, Terminals, Sensing
<1>4. CASE Passing \/ StartCoupling \/ Refusing \/ Return \/ UNCHANGED assemblyVars
  <2>1. /\ UNCHANGED <<nodes, counts, instances, couplings>>
        /\ phase' = "index" => phase = "index"
    BY <1>4 DEF Passing, StartCoupling, Refusing, Refuse, Return, assemblyVars, handed
  <2>2. offsets' = offsets /\ NNodes' = NNodes
    BY <2>1, ReferredKept DEF counts
  <2> QED
    BY <2>1, <2>2 DEF Wiring, Terminals, Sensing, Refers, Referred
<1> QED
  BY <1>1, <1>2, <1>3, <1>4

LEMMA GivingKeepsRecount ==
    ASSUME FirstPass, Handing, Alike(circuit), Recounts(circuit), Owners, Recounting, Giving
    PROVE  Recounting'
<1> DEFINE n == Len(instances)
           f == [i \in DOMAIN instances |-> Recounted(instances[i])]
           g == [i \in DOMAIN instances' |-> Recounted(instances'[i])]
<1>1. PICK inst : New(inst)
  BY GivingIs
<1>2. /\ phase = "stamp" /\ at \in 1..Size /\ internalIdx' = internalIdx + Inner(Element)
      /\ nodes' = nodes
  BY GivingIs
<1>3. /\ n \in Nat /\ DOMAIN instances = 1..n /\ DOMAIN instances' = 1..(n + 1)
      /\ Len(instances') = n + 1
      /\ \A i \in 1..n : instances'[i] = instances[i]
      /\ instances'[n + 1] = inst
      /\ \A i \in DOMAIN instances' : i \in 1..n \/ i = n + 1
      /\ \A i \in 1..n : i \in 1..(n + 1)
      /\ n + 1 \in 1..(n + 1)
  <2>1. instances \in Seq(ToSet(instances))
    BY DEF Owners
  <2>2. instances' = Append(instances, inst)
    BY <1>1 DEF New
  <2>3. \A t : t = Append(instances, inst) =>
           /\ t \in Seq(ToSet(t))
           /\ Len(instances) \in Nat /\ DOMAIN instances = 1..Len(instances)
           /\ DOMAIN t = 1..(Len(instances) + 1) /\ Len(t) = Len(instances) + 1
           /\ \A i \in 1..Len(instances) : i \in DOMAIN t /\ t[i] = instances[i]
           /\ Len(instances) + 1 \in DOMAIN t /\ t[Len(instances) + 1] = inst
           /\ \A i \in DOMAIN t : i \in 1..Len(instances) \/ i = Len(instances) + 1
    BY <2>1, Longer
  <2> QED
    BY <2>2, <2>3, Zenon
<1>4. Recounted(inst) = Inner(Element) /\ Inner(Element) \in Nat
  <2>1. Element \in ToSet(circuit.elements) /\ circuit \in Circuits
    BY <1>2, CountsAre DEF FirstPass
  <2>2. inst.element = Element /\ Len(inst.inside) = Inner(Element)
    BY <1>1 DEF New
  <2>3. Recountable(Element)
    BY <2>1 DEF Recounts
  <2>4. Inner(Element) \in Nat
    BY <1>2, <2>1, CircuitSums DEF Element
  <2> QED
    BY <2>2, <2>3, <2>4, RecountedIs
<1>5. (\A i \in 1..n : f[i] \in Nat) /\ Len(nodes) + Total(f, n) = internalIdx
  BY <1>2, <1>3 DEF Recounting, Recount
<1>6. (\A i \in 1..n : g[i] = f[i]) /\ g[n + 1] = Inner(Element)
  BY <1>3, <1>4
<1>7. \A i \in 1..(n + 1) : Recounted(instances'[i]) \in Nat
  <2> SUFFICES ASSUME NEW i \in 1..(n + 1) PROVE Recounted(instances'[i]) \in Nat
    OBVIOUS
  <2>1. CASE i \in 1..n
    BY <1>3, <1>5, <2>1
  <2>2. CASE i = n + 1
    BY <1>3, <1>4, <2>2
  <2> QED
    BY <1>3, <2>1, <2>2
<1>8. /\ Recounting' <=> (phase' # "index" =>
            /\ \A i \in DOMAIN instances' : Recounted(instances'[i]) \in Nat
            /\ Len(nodes') + Total(g, Len(instances')) = internalIdx')
  BY DEF Recounting, Recount
<1>9. n \in Nat /\ Len(nodes) \in Nat
  BY <1>3, CountsAre
<1> HIDE DEF f, g, n
<1>10. Total(g, n) = Total(f, n)
  BY <1>6, <1>9, TotalAgrees
<1>11. Total(g, n + 1) = Total(g, n) + g[n + 1]
  BY <1>9, TotalOfMore
<1>12. Total(f, n) \in Nat
  BY <1>5, <1>9, TotalGrows
<1>13. Len(nodes) + Total(g, n + 1) = internalIdx + Inner(Element)
  BY <1>4, <1>5, <1>6, <1>9, <1>10, <1>11, <1>12
<1>14. Len(nodes') + Total(g, Len(instances')) = internalIdx'
  BY <1>2, <1>3, <1>13
<1> QED
  BY <1>3, <1>7, <1>8, <1>14

LEMMA RecountingSteps ==
    ASSUME FirstPass, Handing, Alike(circuit), Recounts(circuit), Owners, Recounting,
           \/ Counting \/ Giving \/ Passing \/ StartStamping \/ StartCoupling \/ Refusing
           \/ Coupling \/ Return \/ UNCHANGED assemblyVars
    PROVE  Recounting'
<1>1. CASE Giving
  BY <1>1, GivingKeepsRecount
<1>2. CASE Counting
  BY <1>2 DEF Counting, IndexNets, Recounting
<1>3. CASE StartStamping
  <2>1. instances' = <<>> /\ nodes' = nodes /\ internalIdx' = Len(nodes)
    BY <1>3 DEF StartStamping, Owners
  <2>2. Recount(Len(instances))' = 0
    <3>1. Len(instances') = 0
      BY <2>1
    <3>2. \A h : Total(h, 0) = 0
      BY TotalOfNone
    <3> QED
      BY <3>1, <3>2 DEF Recount
  <2>3. DOMAIN instances' = {}
    BY <2>1
  <2>4. Len(nodes) \in Nat
    BY CountsAre
  <2> QED
    BY <2>1, <2>2, <2>3, <2>4 DEF Recounting
<1>4. CASE Passing \/ StartCoupling \/ Refusing \/ Coupling \/ Return \/ UNCHANGED assemblyVars
  <2>1. /\ UNCHANGED <<nodes, instances, internalIdx>>
        /\ phase' # "index" => phase # "index"
    BY <1>4 DEF Passing, StartCoupling, Refusing, Refuse, Coupling, Return, assemblyVars, handed
  <2> QED
    BY <2>1 DEF Recounting, Recount
<1> QED
  BY <1>1, <1>2, <1>3, <1>4

-----------------------------------------------------------------------------
(* What the invariant says of the properties.                              *)

\* All that the two passes keep of a circuit whose models they read alike.
AssemblyInvariant ==
    Alike(circuit) =>
        /\ FirstPass /\ Handing /\ Owners /\ Naming /\ Wiring
        /\ Recounts(circuit) => Recounting

LEMMA EmptyIsSeq == <<>> \in Seq(ToSet(<<>>)) /\ DOMAIN <<>> = {} /\ Len(<<>>) = 0
<1>1. <<>> = [k \in 1..0 |-> <<>>[k]]
  OBVIOUS
<1>2. <<>> \in Seq(ToSet(<<>>)) /\ Len(<<>>) = 0
  BY <1>1, SeqOfValues
<1> QED
  BY <1>2

LEMMA AssemblyStarts ==
    ASSUME AssemblyInit
    PROVE  AssemblyInvariant
<1>1. /\ phase = "index" /\ nodes = <<>> /\ vsourceIdx = 0 /\ internalIdx = 0
      /\ vsourceNames = <<>> /\ instances = <<>> /\ couplings = <<>>
      /\ vsourceCount = 0 /\ internalCount = 0
  BY DEF AssemblyInit
<1>2. FirstPass
  BY FirstPassStarts
<1>3. Handing
  BY <1>1 DEF Handing
<1>4. DOMAIN instances = {} /\ DOMAIN vsourceNames = {} /\ DOMAIN couplings = {}
  BY <1>1
<1>5. NNodes = 0
  <2>1. Len(nodes) = 0
    BY <1>1
  <2> QED
    BY <1>1, <2>1 DEF NNodes
<1>6. Owners
  <2>1. RowsCovered
    <3>1. Len(nodes) = 0
      BY <1>1
    <3>2. Len(nodes)..(internalIdx - 1) = {} /\ NNodes..(NNodes + vsourceIdx - 1) = {}
      BY <1>1, <1>5, <3>1
    <3> QED
      BY <3>2 DEF RowsCovered
  <2> QED
    BY <1>1, <1>4, <2>1, EmptyIsSeq DEF Owners, OwnersApart, RowsWithin
<1>7. Naming
  BY <1>1, <1>4, EmptyIsSeq DEF Naming, BranchesNamed, SinglesPlaced, NamedStamped
<1>8. Wiring
  BY <1>1, <1>4, EmptyIsSeq DEF Wiring, Terminals, Sensing
<1>9. Recounting
  BY <1>1 DEF Recounting
<1> QED
  BY <1>2, <1>3, <1>6, <1>7, <1>8, <1>9 DEF AssemblyInvariant

LEMMA CircuitStays ==
    ASSUME AssemblyNext \/ UNCHANGED assemblyVars
    PROVE  circuit' = circuit
<1>1. CASE Index
  BY <1>1 DEF Index, IndexPlain, IndexNamed, IndexLine, IndexXspice, IndexDevice, IndexNets
<1>2. CASE Stamp
  BY <1>2 DEF Stamp, StampPlain, StampNamed, StampControlled, RefuseControlled, StampLine,
              RefuseLine, StampXspice, RefuseXspice, StampDevice, DropDevice, Stamped, Refuse
<1>3. CASE ~ Index /\ ~ Stamp
  BY <1>3 DEF AssemblyNext, StartStamping, StartCoupling, Pass, Couple, RefuseCoupling, Refuse,
              Return, assemblyVars
<1> QED
  BY <1>1, <1>2, <1>3

LEMMA AssemblySteps ==
    ASSUME AssemblyInvariant, AssemblyNext \/ UNCHANGED assemblyVars
    PROVE  AssemblyInvariant'
<1>1. circuit' = circuit
  BY CircuitStays
<1> SUFFICES ASSUME Alike(circuit)
             PROVE  /\ FirstPass' /\ Handing' /\ Owners' /\ Naming' /\ Wiring'
                    /\ Recounts(circuit) => Recounting'
  BY <1>1 DEF AssemblyInvariant, Alike, Recounts
<1>2. FirstPass /\ Handing /\ Owners /\ Naming /\ Wiring /\ (Recounts(circuit) => Recounting)
  BY DEF AssemblyInvariant
<1>3. \/ Counting \/ Giving \/ Passing \/ StartStamping \/ StartCoupling \/ Refusing
      \/ Coupling \/ Return \/ UNCHANGED assemblyVars
  <2>1. /\ vsourceCount \in Nat /\ internalCount \in Nat /\ Len(nodes) \in Nat
        /\ at \in 1..(Size + 1) /\ circuit \in Circuits
    BY <1>2, CountsAre DEF FirstPass
  <2>2. vsourceIdx \in Nat /\ internalIdx \in Nat
    BY <1>2 DEF Handing
  <2>3. \A e \in ToSet(circuit.elements) : Countable(e)
    BY DEF Alike
  <2> QED
    BY <2>1, <2>2, <2>3, StepCases
<1>4. FirstPass'
  BY <1>2, <1>3, FirstPassSteps
<1>5. Handing'
  BY <1>2, <1>3, HandingSteps
<1>6. Owners'
  BY <1>2, <1>3, <1>4, <1>5, OwnersSteps
<1>7. Naming'
  BY <1>2, <1>3, NamingSteps
<1>8. Wiring'
  BY <1>2, <1>3, WiringSteps
<1>9. Recounts(circuit) => Recounting'
  BY <1>2, <1>3, RecountingSteps
<1> QED
  BY <1>4, <1>5, <1>6, <1>7, <1>8, <1>9

LEMMA OwnedThen ==
    ASSUME FirstPass, Handing, Owners
    PROVE  UnknownsOwned
<1>1. /\ Len(nodes) \in Nat /\ vsourceCount \in Nat /\ NNodes \in Nat
      /\ phase # "index" => NNodes = Len(nodes) + InnerIn(Size) /\ vsourceCount = BranchesIn(Size)
  BY CountsAre
<1>2. vsourceIdx \in Nat /\ internalIdx \in Nat
  BY DEF Handing
<1>3. phase # "index" => internalIdx <= NNodes /\ vsourceIdx <= vsourceCount
  BY DEF Handing
<1>4. phase = "done" => internalIdx = NNodes /\ vsourceIdx = vsourceCount
  BY <1>1 DEF Handing, Given
<1>5. Dim = NNodes + vsourceCount
  BY DEF Dim
<1>6. OwnersInBounds
  <2> SUFFICES ASSUME NEW i \in DOMAIN instances
               PROVE  /\ \A k \in DOMAIN instances[i].inside :
                            instances[i].inside[k] \in Len(nodes)..(NNodes - 1)
                      /\ \A k \in DOMAIN instances[i].branches :
                            Branch(instances[i], k) \in NNodes..(Dim - 1)
    BY DEF OwnersInBounds
  <2>1. phase # "index"
    BY DEF Owners
  <2>2. /\ \A k \in DOMAIN instances[i].inside :
              instances[i].inside[k] \in Len(nodes)..(internalIdx - 1)
        /\ \A k \in DOMAIN instances[i].branches :
              Branch(instances[i], k) \in NNodes..(NNodes + vsourceIdx - 1)
    BY DEF Owners, RowsWithin
  <2>3. \A row \in Len(nodes)..(internalIdx - 1) : row \in Len(nodes)..(NNodes - 1)
    BY <1>1, <1>2, <1>3, <2>1
  <2>4. \A row \in NNodes..(NNodes + vsourceIdx - 1) : row \in NNodes..(Dim - 1)
    BY <1>1, <1>2, <1>3, <1>5, <2>1
  <2> QED
    BY <2>2, <2>3, <2>4
<1>7. phase = "done" => NoneLeft
  <2> SUFFICES ASSUME phase = "done", NEW row \in Len(nodes)..(Dim - 1)
               PROVE  \E i \in DOMAIN instances :
                          \/ \E k \in DOMAIN instances[i].inside : instances[i].inside[k] = row
                          \/ \E k \in DOMAIN instances[i].branches : Branch(instances[i], k) = row
    BY DEF NoneLeft
  <2>1. row \in Len(nodes)..(internalIdx - 1) \/ row \in NNodes..(NNodes + vsourceIdx - 1)
    BY <1>1, <1>4, <1>5
  <2>2. CASE row \in Len(nodes)..(internalIdx - 1)
    <3>1. PICK i \in DOMAIN instances : \E k \in DOMAIN instances[i].inside :
              instances[i].inside[k] = row
      BY <2>2 DEF Owners, RowsCovered
    <3> QED
      BY <3>1
  <2>3. CASE row \in NNodes..(NNodes + vsourceIdx - 1)
    <3>1. PICK i \in DOMAIN instances : \E k \in DOMAIN instances[i].branches :
              Branch(instances[i], k) = row
      BY <2>3 DEF Owners, RowsCovered
    <3> QED
      BY <3>1
  <2> QED
    BY <2>1, <2>2, <2>3
<1> QED
  BY <1>3, <1>6, <1>7 DEF UnknownsOwned, Owners

\* At the end the readers count as many nodes as the first pass did.
LEMMA RecountAgrees ==
    ASSUME FirstPass, Handing, Recounting, phase = "done"
    PROVE  TotalNumNodes = NNodes
<1>1. internalIdx = Len(nodes) + InnerIn(Size)
  BY DEF Handing, Given
<1>2. NNodes = Len(nodes) + InnerIn(Size)
  BY CountsAre
<1>3. TotalNumNodes = Len(nodes) + Recount(Len(instances))
  BY DEF TotalNumNodes, Recount
<1> QED
  BY <1>1, <1>2, <1>3 DEF Recounting

LEMMA ReadThen ==
    ASSUME FirstPass, Handing, Naming, Wiring, Recounting
    PROVE  ReadersFindRows
<1> SUFFICES ASSUME phase = "done"
             PROVE  /\ \A i \in DOMAIN instances : \A k \in DOMAIN instances[i].branches :
                          \E b \in DOMAIN vsourceNames :
                             /\ ReadRow(b) = UsedRows(instances[i])[k]
                             /\ ReadRow(b) = NNodes + b - 1
                             /\ Lower[vsourceNames[b][1]] = Lower[instances[i].element.name]
                    /\ Terminals
  BY DEF ReadersFindRows, Terminals
<1>1. TotalNumNodes = NNodes /\ NNodes \in Nat
  BY RecountAgrees, CountsAre
<1>2. ASSUME NEW i \in DOMAIN instances, NEW k \in DOMAIN instances[i].branches
      PROVE  \E b \in DOMAIN vsourceNames :
                /\ ReadRow(b) = UsedRows(instances[i])[k]
                /\ ReadRow(b) = NNodes + b - 1
                /\ Lower[vsourceNames[b][1]] = Lower[instances[i].element.name]
  <2>1. instances[i].branches[k] \in Int
    BY <1>2 DEF Naming, BranchesNamed
  <2>2. PICK b \in DOMAIN vsourceNames :
            /\ Branch(instances[i], k) = NNodes + b - 1
            /\ Lower[vsourceNames[b][1]] = Lower[instances[i].element.name]
    BY <1>2 DEF Naming, BranchesNamed
  <2>3. UsedRows(instances[i])[k] = Branch(instances[i], k)
    <3>1. CASE instances[i].element.kind \in Lines
      <4>1. UsedRows(instances[i])[k] = TotalNumNodes + instances[i].branches[k]
        BY <1>2, <3>1 DEF UsedRows
      <4> QED
        BY <1>1, <2>1, <3>1, <4>1 DEF Branch
    <3>2. CASE instances[i].element.kind \notin Lines
      <4>1. UsedRows(instances[i])[k] = instances[i].branches[k]
        BY <3>2 DEF UsedRows
      <4> QED
        BY <2>1, <3>2, <4>1 DEF Branch
    <3> QED
      BY <3>1, <3>2
  <2>4. ReadRow(b) = NNodes + b - 1
    BY <1>1 DEF ReadRow
  <2> QED
    BY <2>2, <2>3, <2>4
<1> QED
  BY <1>2 DEF Wiring

LEMMA SensedThen ==
    ASSUME FirstPass, Handing, Naming, Recounting, phase = "done", NamesApart(circuit),
           NEW e, Refers(e)
    PROVE  Sensed(e.refs, Referred(e))
<1> SUFFICES ASSUME NEW k \in DOMAIN e.refs
             PROVE  /\ \E i \in DOMAIN instances :
                          /\ Lower[instances[i].element.name] = Lower[e.refs[k]]
                          /\ Referred(e)[k] \in ToSet(instances[i].branches)
                    /\ SweepRow(e.refs[k]) = Referred(e)[k]
  BY DEF Sensed
<1>1. TotalNumNodes = NNodes /\ NNodes \in Nat /\ Size \in Nat /\ circuit \in Circuits
  BY RecountAgrees, CountsAre DEF FirstPass
<1> DEFINE x == Lower[e.refs[k]]
<1>2. x \in DOMAIN offsets /\ Referred(e)[k] = NNodes + offsets[x]
  BY DEF Refers, Referred
<1>3. PICK j \in 1..Size : /\ circuit.elements[j].kind \in Named
                           /\ Lower[circuit.elements[j].name] = x
                           /\ offsets[x] = BranchesIn(j - 1)
  BY <1>2 DEF FirstPass, OffsetsPlaced, Counted
<1>4. /\ \E i \in DOMAIN instances :
            /\ instances[i].element = circuit.elements[j]
            /\ instances[i].branches = <<NNodes + BranchesIn(j - 1)>>
      /\ Position(j) \in DOMAIN vsourceNames
      /\ vsourceNames[Position(j)] = <<circuit.elements[j].name>>
  BY <1>3 DEF Naming, NamedStamped, Given
<1>5. BranchesIn(j - 1) \in Nat
  <2>1. j - 1 \in 0..Size
    BY <1>1
  <2> QED
    BY <1>1, <2>1, CircuitSums
<1>6. \E i \in DOMAIN instances :
          /\ Lower[instances[i].element.name] = x
          /\ Referred(e)[k] \in ToSet(instances[i].branches)
  <2>1. PICK i \in DOMAIN instances :
            /\ instances[i].element = circuit.elements[j]
            /\ instances[i].branches = <<NNodes + BranchesIn(j - 1)>>
    BY <1>4
  <2>2. Referred(e)[k] = instances[i].branches[1] /\ 1 \in DOMAIN instances[i].branches
    BY <1>2, <1>3, <2>1
  <2>3. Referred(e)[k] \in ToSet(instances[i].branches)
    BY <2>2 DEF ToSet
  <2> QED
    BY <1>3, <2>1, <2>3
<1> DEFINE found == {b \in DOMAIN vsourceNames :
                        Len(vsourceNames[b]) = 1 /\ Lower[vsourceNames[b][1]] = x}
<1>7. found = {Position(j)}
  <2>1. \A y : Len(<<y>>) = 1 /\ <<y>>[1] = y
    OBVIOUS
  <2>2. Position(j) \in found
    BY <1>3, <1>4, <2>1
  <2>3. ASSUME NEW b \in found
        PROVE  b = Position(j)
    <3>1. b \in DOMAIN vsourceNames /\ Len(vsourceNames[b]) = 1 /\ Lower[vsourceNames[b][1]] = x
      BY <2>3
    <3>2. PICK l \in 1..Size : /\ vsourceNames[b] = <<circuit.elements[l].name>>
                               /\ b = Position(l)
      BY <3>1 DEF Naming, SinglesPlaced
    <3>3. Lower[circuit.elements[l].name] = Lower[circuit.elements[j].name]
      BY <1>3, <2>1, <3>1, <3>2
    <3>4. DOMAIN circuit.elements = 1..Size
      BY <1>1, ElementsFit DEF Size
    <3>5. l = j
      BY <3>3, <3>4 DEF NamesApart
    <3> QED
      BY <3>2, <3>5
  <2> QED
    BY <2>2, <2>3
<1>8. SweepRow(e.refs[k]) = ReadRow(CHOOSE b \in found : \A c \in found : b <= c)
  BY DEF SweepRow
<1>9. (CHOOSE b \in found : \A c \in found : b <= c) = Position(j)
  <2>1. Position(j) \in Int
    BY <1>5 DEF Position
  <2> HIDE DEF found
  <2> QED
    BY <1>7, <2>1
<1>10. SweepRow(e.refs[k]) = Referred(e)[k]
  <2>1. SweepRow(e.refs[k]) = NNodes + Position(j) - 1
    BY <1>1, <1>8, <1>9 DEF ReadRow
  <2>2. Referred(e)[k] = NNodes + BranchesIn(j - 1) /\ Position(j) = BranchesIn(j - 1) + 1
    BY <1>2, <1>3 DEF Position
  <2> HIDE DEF found, x
  <2> QED
    BY <1>1, <1>5, <2>1, <2>2
<1> QED
  BY <1>6, <1>10

LEMMA ControlsThen ==
    ASSUME FirstPass, Handing, Naming, Wiring, Recounting, NamesApart(circuit)
    PROVE  ControlsReachSource
<1> SUFFICES ASSUME phase = "done"
             PROVE  /\ \A i \in DOMAIN instances :
                          instances[i].element.kind \in Controlled =>
                              Sensed(instances[i].element.refs, instances[i].controls)
                    /\ \A c \in DOMAIN couplings : Sensed(couplings[c].element.refs, couplings[c].rows)
  BY DEF ControlsReachSource
<1>1. \A e : Refers(e) => Sensed(e.refs, Referred(e))
  BY SensedThen
<1> QED
  BY <1>1 DEF Wiring, Sensing

-----------------------------------------------------------------------------
(* The theorems.                                                           *)

LEMMA AssemblyHolds == AssemblySpec => []AssemblyInvariant
<1>1. AssemblyInit => AssemblyInvariant
  BY AssemblyStarts
<1>2. AssemblyInvariant /\ [AssemblyNext]_assemblyVars => AssemblyInvariant'
  BY AssemblySteps
<1> QED
  BY <1>1, <1>2, PTL DEF AssemblySpec

\* Every unknown of a circuit whose models the two passes read alike has one owner: the
\* first pass of stamp_circuit reserves as many rows as the second hands out.
THEOREM UnknownsStayOwned == AssemblySpec => [](Alike(circuit) => UnknownsOwned)
<1>1. AssemblyInvariant => (Alike(circuit) => UnknownsOwned)
  BY OwnedThen DEF AssemblyInvariant
<1> QED
  BY <1>1, AssemblyHolds, PTL

\* If the sum of total_num_nodes leaves no inner node out either, the currents are read
\* where the elements were stamped, and a terminal is the row of its net.
THEOREM ReadersStayRight ==
    AssemblySpec => [](Alike(circuit) /\ Recounts(circuit) => ReadersFindRows)
<1>1. AssemblyInvariant => (Alike(circuit) /\ Recounts(circuit) => ReadersFindRows)
  BY ReadThen DEF AssemblyInvariant
<1> QED
  BY <1>1, AssemblyHolds, PTL

\* If moreover no two names differ in case alone, an element that names another senses
\* the branch of that one, and a sweep of the name moves the same row.
THEOREM ControlsStayConnected ==
    AssemblySpec =>
        [](Alike(circuit) /\ Recounts(circuit) /\ NamesApart(circuit) => ControlsReachSource)
<1>1. AssemblyInvariant =>
          (Alike(circuit) /\ Recounts(circuit) /\ NamesApart(circuit) => ControlsReachSource)
  BY ControlsThen DEF AssemblyInvariant
<1> QED
  BY <1>1, AssemblyHolds, PTL

-----------------------------------------------------------------------------
(* The table of breakpoints.                                               *)

\* Inserting into a sequence keeps what is before and moves what is after.
LEMMA InsertAtProperties ==
    ASSUME NEW S, NEW s \in Seq(S), NEW k \in 1..(Len(s) + 1), NEW e
    PROVE  /\ InsertAt(s, k, e) \in Seq(S \cup {e})
           /\ Len(InsertAt(s, k, e)) = Len(s) + 1
           /\ \A i \in 1..(Len(s) + 1) :
                 InsertAt(s, k, e)[i] = IF i < k THEN s[i] ELSE IF i = k THEN e ELSE s[i - 1]
<1> DEFINE n == Len(s)
           T == S \cup {e}
           a == SubSeq(s, 1, k - 1)
           b == SubSeq(s, k, n)
<1>1. n \in Nat /\ k \in Int /\ 1 <= k /\ k <= n + 1
  BY LenProperties
<1>2. \A i \in 1..n : s[i] \in T
  BY ElementOfSeq
<1>3. a \in Seq(T) /\ Len(a) = k - 1 /\ \A i \in 1..(k - 1) : a[i] = s[i]
  <2> HIDE DEF n, T
  <2>1. 1 \in Int /\ k - 1 \in Int /\ \A i \in 1..(k - 1) : s[i] \in T
    BY <1>1, <1>2
  <2>2. /\ a \in Seq(T)
        /\ Len(a) = IF 1 <= k - 1 THEN k - 1 - 1 + 1 ELSE 0
        /\ \A i \in 1..(k - 1 - 1 + 1) : a[i] = s[1 + i - 1]
    BY <2>1, SubSeqProperties
  <2> HIDE DEF a
  <2> QED
    BY <1>1, <2>2
<1>4. b \in Seq(T) /\ Len(b) = n - k + 1 /\ \A i \in 1..(n - k + 1) : b[i] = s[k + i - 1]
  <2> HIDE DEF n, T
  <2>1. n \in Int /\ \A i \in k..n : s[i] \in T
    BY <1>1, <1>2
  <2>2. /\ b \in Seq(T)
        /\ Len(b) = IF k <= n THEN n - k + 1 ELSE 0
        /\ \A i \in 1..(n - k + 1) : b[i] = s[k + i - 1]
    BY <1>1, <2>1, SubSeqProperties
  <2> HIDE DEF b
  <2> QED
    BY <1>1, <2>2
<1>5. <<e>> \in Seq(T) /\ Len(<<e>>) = 1 /\ <<e>>[1] = e
  OBVIOUS
<1> DEFINE c == a \o <<e>>
<1> HIDE DEF n, T, a, b
<1>6. /\ c \in Seq(T) /\ Len(c) = k
      /\ \A i \in 1..k : c[i] = IF i < k THEN s[i] ELSE e
  <2>1. /\ c \in Seq(T) /\ Len(c) = Len(a) + Len(<<e>>)
        /\ \A i \in 1..Len(a) + Len(<<e>>) :
              c[i] = IF i <= Len(a) THEN a[i] ELSE <<e>>[i - Len(a)]
    BY <1>3, <1>5, ConcatProperties
  <2> HIDE DEF c
  <2>2. Len(c) = k
    BY <1>1, <1>3, <1>5, <2>1
  <2>3. ASSUME NEW i \in 1..k, i < k
        PROVE  c[i] = s[i]
    BY <1>1, <1>3, <1>5, <2>1, <2>3
  <2>4. c[k] = e
    BY <1>1, <1>3, <1>5, <2>1
  <2>5. \A i \in 1..k : i < k \/ i = k
    BY <1>1
  <2> QED
    BY <1>1, <2>1, <2>2, <2>3, <2>4, <2>5
<1> HIDE DEF c
<1>7. /\ c \o b \in Seq(T) /\ Len(c \o b) = n + 1
      /\ \A i \in 1..(n + 1) : (c \o b)[i] = IF i <= k THEN c[i] ELSE b[i - k]
  <2>1. /\ c \o b \in Seq(T) /\ Len(c \o b) = Len(c) + Len(b)
        /\ \A i \in 1..Len(c) + Len(b) :
              (c \o b)[i] = IF i <= Len(c) THEN c[i] ELSE b[i - Len(c)]
    BY <1>4, <1>6, ConcatProperties
  <2>2. Len(c) = k /\ Len(c) + Len(b) = n + 1
    BY <1>1, <1>4, <1>6
  <2> QED
    BY <2>1, <2>2
<1>8. InsertAt(s, k, e) = c \o b
  BY DEF InsertAt, a, b, c, n
<1> DEFINE r == c \o b
<1> HIDE DEF r
<1>9. ASSUME NEW i \in 1..(n + 1)
      PROVE  r[i] = IF i < k THEN s[i] ELSE IF i = k THEN e ELSE s[i - 1]
  <2>1. CASE i <= k
    BY <1>1, <1>6, <1>7, <2>1 DEF r
  <2>2. CASE i > k
    <3>1. i - k \in 1..(n - k + 1) /\ k + (i - k) - 1 = i - 1
      BY <1>1, <2>2
    <3>2. r[i] = b[i - k]
      BY <1>1, <1>7, <2>2 DEF r
    <3> QED
      BY <1>1, <1>4, <2>2, <3>1, <3>2
  <2> QED
    BY <1>1, <2>1, <2>2
<1> QED
  BY <1>7, <1>8, <1>9 DEF r, T, n

-----------------------------------------------------------------------------
\* Where the two searches stop.

\* The vector is strictly increasing and the cursor in it or just past it.
Table ==
    /\ times \in Seq(Times)
    /\ Increasing(times)
    /\ nextIdx \in 1..(Len(times) + 1)

\* What the mapping of ImplementsSet takes for pending.
Ahead == {times[i] : i \in nextIdx..Len(times)}

LEMMA TableTypes ==
    ASSUME Table
    PROVE  /\ Len(times) \in Nat /\ DOMAIN times = 1..Len(times) /\ nextIdx \in Nat \ {0}
           /\ \A i \in 1..Len(times) : times[i] \in Times /\ times[i] \in Int
           /\ \A i, j \in 1..Len(times) : i < j => times[i] < times[j]
           /\ \A i, j \in 1..Len(times) : i <= j => times[i] <= times[j]
           /\ MinBreak \in Nat \ {0} /\ Times \subseteq Nat
<1>1. Len(times) \in Nat /\ DOMAIN times = 1..Len(times) /\ nextIdx \in Nat \ {0}
  BY LenProperties DEF Table
<1>2. MinBreak \in Nat \ {0} /\ Times \subseteq Nat
  BY TableAssumption
<1>3. \A i \in 1..Len(times) : times[i] \in Times /\ times[i] \in Int
  <2>1. \A i \in 1..Len(times) : times[i] \in Times
    BY ElementOfSeq DEF Table
  <2>2. \A x \in Times : x \in Int
    BY <1>2
  <2> QED
    BY <2>1, <2>2
<1>4. \A i, j \in 1..Len(times) : i < j => times[i] < times[j]
  BY <1>1 DEF Table, Increasing
<1>5. \A i, j \in 1..Len(times) : i <= j => times[i] <= times[j]
  BY <1>1, <1>3, <1>4
<1> QED
  BY <1>1, <1>2, <1>3, <1>4, <1>5

\* The binary search returns the index of the first entry that is not smaller.
LEMMA PartitionPointIsFirst ==
    ASSUME Table, NEW tp \in Times
    PROVE  /\ PartitionPoint(tp) \in 1..(Len(times) + 1)
           /\ \A i \in 1..Len(times) : times[i] < tp <=> i < PartitionPoint(tp)
<1> DEFINE n == Len(times)
           S == {i \in 1..n : ~ (times[i] < tp)} \cup {n + 1}
<1>1. n \in Nat /\ DOMAIN times = 1..n /\ tp \in Int
  BY TableTypes
<1>2. \A i, j \in 1..n : i <= j => times[i] <= times[j]
  BY TableTypes
<1>3. \A i \in 1..n : times[i] \in Int
  BY TableTypes
<1> HIDE DEF n
<1>4. S \in SUBSET Nat /\ S # {}
  BY <1>1
<1>5. PICK k \in S : \A j \in S : k <= j
  BY <1>4, LeastIndex
<1>6. k \in 1..(n + 1)
  BY <1>1
<1>7. \A i \in 1..n : times[i] < tp <=> i < k
  <2> SUFFICES ASSUME NEW i \in 1..n
               PROVE  times[i] < tp <=> i < k
    OBVIOUS
  <2>1. CASE i < k
    <3>1. i \notin S
      BY <1>1, <1>5, <1>6, <2>1
    <3> QED
      BY <2>1, <3>1
  <2>2. CASE ~ (i < k)
    <3>1. k \in 1..n /\ k <= i
      BY <1>1, <1>6, <2>2
    <3>2. ~ (times[k] < tp)
      BY <1>1, <3>1
    <3>3. times[k] <= times[i]
      BY <1>2, <3>1
    <3> QED
      BY <1>1, <1>3, <2>2, <3>1, <3>2, <3>3
  <2> QED
    BY <2>1, <2>2
<1>8. {i \in DOMAIN times : times[i] < tp} = 1..(k - 1)
  BY <1>1, <1>6, <1>7
<1>9. Cardinality(1..(k - 1)) = k - 1
  BY <1>1, <1>6, FS_Interval
<1>10. PartitionPoint(tp) = k
  <2>1. Cardinality({i \in DOMAIN times : times[i] < tp}) = k - 1
    BY <1>8, <1>9
  <2>2. PartitionPoint(tp) = (k - 1) + 1
    BY <2>1 DEF PartitionPoint
  <2> QED
    BY <1>1, <1>6, <2>2
<1> QED
  BY <1>6, <1>7, <1>10 DEF n

\* The loop of next_after stops, at the first entry more than min_break ahead.
LEMMA SkipIsFirst ==
    ASSUME Table, NEW clock \in Times
    PROVE  /\ Skip(clock) \in nextIdx..(Len(times) + 1)
           /\ \A i \in nextIdx..Len(times) : Passed(i, clock) <=> i < Skip(clock)
<1> DEFINE n == Len(times)
           S == {i \in nextIdx..n : ~ Passed(i, clock)} \cup {n + 1}
           Stop(j) == /\ \A i \in nextIdx..(j - 1) : Passed(i, clock)
                      /\ j <= n => ~ Passed(j, clock)
<1>1. n \in Nat /\ nextIdx \in 1..(n + 1) /\ clock \in Int /\ MinBreak \in Int
  BY TableTypes DEF Table
<1>2. /\ \A i, j \in 1..n : i <= j => times[i] <= times[j]
      /\ \A i \in 1..n : times[i] \in Int
  BY TableTypes
<1> HIDE DEF n
<1>3. S \in SUBSET Nat /\ S # {}
  BY <1>1
<1>4. PICK k \in S : \A j \in S : k <= j
  BY <1>3, LeastIndex
<1>5. k \in nextIdx..(n + 1)
  BY <1>1
<1>6. Stop(k)
  <2>1. ASSUME NEW i \in nextIdx..(k - 1)
        PROVE  Passed(i, clock)
    <3>1. i \in nextIdx..n /\ ~ (k <= i)
      BY <1>1, <1>5
    <3>2. i \notin S
      BY <1>4, <3>1
    <3> QED
      BY <3>1, <3>2
  <2>2. k <= n => ~ Passed(k, clock)
    BY <1>1, <1>5
  <2> QED
    BY <2>1, <2>2
<1> DEFINE s == Skip(clock)
<1>7. s \in nextIdx..(n + 1) /\ Stop(s)
  BY <1>5, <1>6 DEF Skip, n
<1> HIDE DEF s
<1>8. ASSUME NEW i \in nextIdx..n
      PROVE  Passed(i, clock) <=> i < s
  <2>1. CASE i < s
    BY <1>1, <1>7, <2>1
  <2>2. CASE ~ (i < s)
    <3>1. s \in 1..n /\ i \in 1..n /\ s <= i
      BY <1>1, <1>7, <2>2
    <3>2. ~ Passed(s, clock)
      BY <1>7, <3>1
    <3>3. times[s] <= times[i] /\ times[s] \in Int /\ times[i] \in Int
      BY <1>2, <3>1
    <3> QED
      BY <1>1, <2>2, <3>2, <3>3 DEF Passed
  <2> QED
    BY <2>1, <2>2
<1> QED
  BY <1>7, <1>8 DEF s, n

\* The entry at the cursor is the first of those ahead.
LEMMA CursorIsFirst ==
    ASSUME Table
    PROVE  AtCursor(nextIdx) = AsSet!First(Ahead)
<1> DEFINE n == Len(times)
<1>1. n \in Nat /\ nextIdx \in 1..(n + 1)
  BY TableTypes DEF Table
<1>2. /\ \A i, j \in 1..n : i < j => times[i] < times[j]
      /\ \A i, j \in 1..n : i <= j => times[i] <= times[j]
      /\ \A i \in 1..n : times[i] \in Int
  BY TableTypes
<1>3. Ahead = {times[i] : i \in nextIdx..n}
  BY DEF Ahead
<1>4. AtCursor(nextIdx) = IF nextIdx <= n THEN {times[nextIdx]} ELSE {}
  BY DEF AtCursor
<1> HIDE DEF n
<1>5. CASE nextIdx <= n
  <2>1. nextIdx \in nextIdx..n /\ \A i \in nextIdx..n : i \in 1..n /\ nextIdx <= i
    BY <1>1, <1>5
  <2>2. times[nextIdx] \in Ahead /\ \A c \in Ahead : times[nextIdx] <= c
    BY <1>2, <1>3, <2>1
  <2>3. ASSUME NEW b \in Ahead, \A c \in Ahead : b <= c
        PROVE  b = times[nextIdx]
    <3>1. b <= times[nextIdx] /\ times[nextIdx] <= b
      BY <2>2, <2>3
    <3>2. b \in Int /\ times[nextIdx] \in Int
      BY <1>2, <1>3, <2>1
    <3> QED
      BY <3>1, <3>2
  <2> QED
    BY <1>4, <1>5, <2>2, <2>3 DEF AsSet!First
<1>6. CASE ~ (nextIdx <= n)
  <2>1. nextIdx..n = {}
    BY <1>1, <1>6
  <2> QED
    BY <1>3, <1>4, <1>6, <2>1 DEF AsSet!First
<1> QED
  BY <1>5, <1>6

-----------------------------------------------------------------------------
\* The three methods.

\* insert looks at the two entries around the insertion point, which are the
\* nearest: no other entry can be closer.
LEMMA NeighboursAreNearest ==
    ASSUME Table, NEW tp \in Times
    PROVE  NextTo(tp) <=> \E i \in 1..Len(times) : Close(times[i], tp)
<1> DEFINE n == Len(times)
           k == PartitionPoint(tp)
<1>1. n \in Nat /\ tp \in Int /\ MinBreak \in Int
  BY TableTypes
<1>2. /\ \A i, j \in 1..n : i <= j => times[i] <= times[j]
      /\ \A i \in 1..n : times[i] \in Int
  BY TableTypes
<1>3. k \in 1..(n + 1) /\ \A i \in 1..n : times[i] < tp <=> i < k
  BY PartitionPointIsFirst
<1>4. NextTo(tp) <=> (k <= n /\ Close(times[k], tp)) \/ (k > 1 /\ Close(times[k - 1], tp))
  BY DEF NextTo
<1> HIDE DEF n, k
<1>5. ASSUME NextTo(tp)
      PROVE  \E i \in 1..n : Close(times[i], tp)
  <2>1. CASE k <= n /\ Close(times[k], tp)
    <3>1. k \in 1..n
      BY <1>1, <1>3, <2>1
    <3> QED
      BY <2>1, <3>1
  <2>2. CASE k > 1 /\ Close(times[k - 1], tp)
    <3>1. k - 1 \in 1..n
      BY <1>1, <1>3, <2>2
    <3> QED
      BY <2>2, <3>1
  <2> QED
    BY <1>4, <1>5, <2>1, <2>2
<1>6. ASSUME NEW i \in 1..n, Close(times[i], tp)
      PROVE  NextTo(tp)
  <2>1. CASE i < k
    <3>1. k - 1 \in 1..n /\ i <= k - 1 /\ k > 1
      BY <1>1, <1>3, <2>1
    <3>2. times[i] <= times[k - 1] /\ times[k - 1] < tp
      <4>1. k - 1 < k
        BY <1>3
      <4> QED
        BY <1>2, <1>3, <3>1, <4>1
    <3>3. times[i] \in Int /\ times[k - 1] \in Int
      BY <1>2, <3>1
    <3>4. Close(times[k - 1], tp)
      BY <1>1, <1>6, <3>2, <3>3 DEF Close
    <3> QED
      BY <1>4, <3>1, <3>4
  <2>2. CASE ~ (i < k)
    <3>1. k \in 1..n /\ k <= i
      BY <1>1, <1>3, <2>2
    <3>2. times[k] <= times[i] /\ ~ (times[k] < tp)
      BY <1>1, <1>2, <1>3, <3>1
    <3>3. times[i] \in Int /\ times[k] \in Int
      BY <1>2, <3>1
    <3>4. Close(times[k], tp)
      BY <1>1, <1>6, <3>2, <3>3 DEF Close
    <3> QED
      BY <1>4, <3>1, <3>4
  <2> QED
    BY <2>1, <2>2
<1> QED
  BY <1>5, <1>6 DEF n

\* What insert leaves when it adds tp.
LEMMA InsertedTable ==
    ASSUME Table, NEW tp \in Times, ~ NextTo(tp),
           NEW s, s = InsertAt(times, PartitionPoint(tp), tp)
    PROVE  /\ s \in Seq(Times) /\ Len(s) = Len(times) + 1 /\ Increasing(s)
           /\ {s[i] : i \in 1..Len(s)} = {times[i] : i \in 1..Len(times)} \cup {tp}
           /\ \A i \in 1..Len(s) : s[i] = tp \/ \E j \in 1..Len(times) : s[i] = times[j]
           /\ \A i, j \in 1..Len(s) : s[i] = tp /\ s[j] = tp => i = j
<1> DEFINE n == Len(times)
           k == PartitionPoint(tp)
<1>1. n \in Nat /\ tp \in Int /\ MinBreak \in Nat \ {0}
  BY TableTypes
<1>2. /\ \A i, j \in 1..n : i < j => times[i] < times[j]
      /\ \A i \in 1..n : times[i] \in Int
  BY TableTypes
<1>3. k \in 1..(n + 1) /\ \A i \in 1..n : times[i] < tp <=> i < k
  BY PartitionPointIsFirst
<1>4. /\ s \in Seq(Times \cup {tp}) /\ Len(s) = n + 1
      /\ \A i \in 1..(n + 1) : s[i] = IF i < k THEN times[i] ELSE IF i = k THEN tp ELSE times[i - 1]
  BY <1>3, InsertAtProperties DEF Table
<1>5. s \in Seq(Times) /\ DOMAIN s = 1..(n + 1)
  <2>1. Times \cup {tp} = Times
    OBVIOUS
  <2> QED
    BY <1>4, <2>1, LenProperties
<1>6. \A i \in 1..n : times[i] # tp
  <2> SUFFICES ASSUME NEW i \in 1..n, times[i] = tp PROVE FALSE
    OBVIOUS
  <2>1. Close(times[i], tp)
    BY <1>1 DEF Close
  <2> QED
    BY <2>1, NeighboursAreNearest
<1> HIDE DEF n, k
<1>7. \A i \in 1..n : i >= k => tp < times[i]
  BY <1>1, <1>2, <1>3, <1>6
<1>8. s[k] = tp
  BY <1>1, <1>3, <1>4
<1>9. ASSUME NEW i \in 1..(n + 1), i < k
      PROVE  i \in 1..n /\ s[i] = times[i] /\ s[i] < tp /\ s[i] \in Int
  <2>1. i \in 1..n
    BY <1>1, <1>3, <1>9
  <2> QED
    BY <1>2, <1>3, <1>4, <1>9, <2>1
<1>10. ASSUME NEW i \in 1..(n + 1), i > k
       PROVE  i - 1 \in 1..n /\ s[i] = times[i - 1] /\ s[i] > tp /\ s[i] \in Int
  <2>1. i - 1 \in 1..n /\ i - 1 >= k /\ ~ (i < k) /\ i # k
    BY <1>1, <1>3, <1>10
  <2>2. s[i] = times[i - 1]
    BY <1>4, <2>1
  <2>3. tp < times[i - 1] /\ times[i - 1] \in Int
    BY <1>2, <1>7, <2>1
  <2> QED
    BY <1>1, <2>1, <2>2, <2>3
<1>11. \A i \in 1..(n + 1) : i < k \/ i = k \/ i > k
  BY <1>1, <1>3
<1>12. Increasing(s)
  <2> SUFFICES ASSUME NEW i \in 1..(n + 1), NEW j \in 1..(n + 1), i < j
               PROVE  s[i] < s[j]
    BY <1>5 DEF Increasing
  <2>1. CASE j < k
    <3>1. i < k
      BY <1>1, <1>3, <2>1
    <3>2. s[i] = times[i] /\ s[j] = times[j] /\ i \in 1..n /\ j \in 1..n
      BY <1>9, <2>1, <3>1
    <3> QED
      BY <1>2, <3>2
  <2>2. CASE j = k
    BY <1>8, <1>9, <2>2
  <2>3. CASE j > k /\ i > k
    <3>1. /\ s[i] = times[i - 1] /\ s[j] = times[j - 1]
          /\ i - 1 \in 1..n /\ j - 1 \in 1..n /\ i - 1 < j - 1
      BY <1>1, <1>10, <2>3
    <3> QED
      BY <1>2, <3>1
  <2>4. CASE j > k /\ i <= k
    <3>1. s[j] > tp /\ s[j] \in Int
      BY <1>10, <2>4
    <3>2. s[i] = tp \/ (s[i] < tp /\ s[i] \in Int)
      BY <1>8, <1>9, <1>11, <1>1, <1>3, <2>4
    <3> QED
      BY <1>1, <3>1, <3>2
  <2> QED
    BY <1>1, <1>3, <1>11, <2>1, <2>2, <2>3, <2>4
<1>13. \A i \in 1..(n + 1) : s[i] = tp \/ \E j \in 1..n : s[i] = times[j]
  BY <1>8, <1>9, <1>10, <1>11
<1>14. ASSUME NEW j \in 1..n
       PROVE  \E i \in 1..(n + 1) : s[i] = times[j]
  <2>1. CASE j < k
    <3>1. j \in 1..(n + 1)
      BY <1>1
    <3> QED
      BY <1>9, <2>1, <3>1
  <2>2. CASE ~ (j < k)
    <3>1. j + 1 \in 1..(n + 1) /\ j + 1 > k /\ (j + 1) - 1 = j
      BY <1>1, <1>3, <2>2
    <3>2. s[j + 1] = times[(j + 1) - 1]
      BY <1>10, <3>1
    <3> QED
      BY <3>1, <3>2
  <2> QED
    BY <2>1, <2>2
<1>15. {s[i] : i \in 1..(n + 1)} = {times[i] : i \in 1..n} \cup {tp}
  <2>1. ASSUME NEW x \in {s[i] : i \in 1..(n + 1)}
        PROVE  x \in {times[i] : i \in 1..n} \cup {tp}
    BY <1>13
  <2>2. ASSUME NEW x \in {times[i] : i \in 1..n} \cup {tp}
        PROVE  x \in {s[i] : i \in 1..(n + 1)}
    BY <1>3, <1>8, <1>14
  <2> QED
    BY <2>1, <2>2
<1>16. \A i, j \in 1..(n + 1) : s[i] = tp /\ s[j] = tp => i = j
  <2> SUFFICES ASSUME NEW i \in 1..(n + 1), s[i] = tp PROVE i = k
    OBVIOUS
  <2> QED
    BY <1>1, <1>9, <1>10, <1>11
<1> QED
  BY <1>4, <1>5, <1>12, <1>13, <1>15, <1>16 DEF n

-----------------------------------------------------------------------------
\* Every step of the vector is a step of the set.

LEMMA InitMaps == ASSUME Init PROVE Table /\ AsSet!Init
<1>1. PICK n \in 0..MaxBreaks : times \in [1..n -> Times]
  BY DEF Init
<1>2. n \in Nat /\ Times \subseteq Nat
  BY TableAssumption
<1>3. times \in Seq(Times) /\ Len(times) = n
  <2>1. times = [i \in 1..n |-> times[i]] /\ \A i \in 1..n : times[i] \in Times
    BY <1>1
  <2> DEFINE e(i) == times[i]
  <2> HIDE DEF e
  <2>2. \A i \in 1..n : e(i) \in Times
    BY <2>1 DEF e
  <2>3. [i \in 1..n |-> e(i)] \in Seq(Times)
    BY <1>2, <2>2, IsASeq
  <2>4. times = [i \in 1..n |-> e(i)]
    BY <2>1 DEF e
  <2>5. times \in Seq(Times)
    BY <2>3, <2>4
  <2>6. DOMAIN times = 1..n
    BY <1>1
  <2> QED
    BY <1>2, <2>5, <2>6, LenProperties
<1>4. 1 \in 1..(n + 1)
  BY <1>2
<1>5. Table
  BY <1>3, <1>4 DEF Table, Init
<1>6. Ahead \in SUBSET Times
  BY <1>5, TableTypes DEF Ahead, Init
<1> QED
  BY <1>5, <1>6 DEF AsSet!Init, Init, Ahead

LEMMA InsertMaps ==
    ASSUME Table, NEW tp \in Times, Insert(tp)
    PROVE  Table' /\ AsSet!Insert(tp)
<1> DEFINE s == InsertAt(times, PartitionPoint(tp), tp)
<1>1. /\ nextIdx = 1 /\ nextIdx' = 1 /\ upcoming' = upcoming /\ flagged' = flagged
      /\ times' = IF NextTo(tp) THEN times ELSE s
  BY DEF Insert
<1>2. NextTo(tp) <=> \E b \in Ahead : ~ AsSet!Far(b, tp)
  <2>1. Ahead = {times[i] : i \in 1..Len(times)}
    BY <1>1 DEF Ahead
  <2>2. ASSUME NEW i \in 1..Len(times)
        PROVE  Close(times[i], tp) <=> ~ AsSet!Far(times[i], tp)
    <3>1. times[i] \in Int /\ tp \in Int /\ MinBreak \in Int
      BY TableTypes
    <3> QED
      BY <3>1 DEF Close, AsSet!Far
  <2> QED
    BY <2>1, <2>2, NeighboursAreNearest
<1> HIDE DEF s
<1>3. CASE NextTo(tp)
  <2>1. times' = times
    BY <1>1, <1>3
  <2>2. Table' /\ Ahead' = Ahead
    BY <1>1, <2>1 DEF Table, Increasing, Ahead
  <2> QED
    BY <1>1, <1>2, <1>3, <2>2 DEF AsSet!Insert, Ahead
<1>4. CASE ~ NextTo(tp)
  <2>1. times' = s
    BY <1>1, <1>4
  <2>2. /\ s \in Seq(Times) /\ Len(s) = Len(times) + 1 /\ Increasing(s)
        /\ {s[i] : i \in 1..Len(s)} = {times[i] : i \in 1..Len(times)} \cup {tp}
    BY <1>4, InsertedTable DEF s
  <2>3. Ahead' = Ahead \cup {tp}
    BY <1>1, <2>1, <2>2 DEF Ahead
  <2>4. 1 \in 1..(Len(s) + 1)
    BY <2>2, TableTypes
  <2>5. Table'
    BY <1>1, <2>1, <2>2, <2>4 DEF Table, Increasing
  <2> QED
    BY <1>1, <1>2, <1>4, <2>3, <2>5 DEF AsSet!Insert, Ahead
<1> QED
  BY <1>3, <1>4

LEMMA CursorStaysFirst == (Table => AtCursor(nextIdx) = AsSet!First(Ahead))'
<1>1. Table => AtCursor(nextIdx) = AsSet!First(Ahead)
  BY CursorIsFirst
<1> QED
  BY <1>1, PTL

LEMMA NextAfterMaps ==
    ASSUME Table, NEW clock \in Times, NextAfter(clock)
    PROVE  Table' /\ AsSet!NextAfter(clock)
<1> DEFINE n == Len(times)
           s == Skip(clock)
<1>1. /\ times' = times /\ nextIdx' = s /\ flagged' = flagged
      /\ upcoming' = AtCursor(nextIdx')
  BY DEF NextAfter
<1>2. s \in nextIdx..(n + 1) /\ \A i \in nextIdx..n : Passed(i, clock) <=> i < s
  BY SkipIsFirst
<1>3. /\ n \in Nat /\ nextIdx \in Nat \ {0} /\ clock \in Int /\ MinBreak \in Int
      /\ \A i \in 1..n : times[i] \in Int
  BY TableTypes
<1> HIDE DEF s
<1>4. Table'
  <2>1. s \in 1..(n + 1)
    BY <1>2, <1>3
  <2> QED
    BY <1>1, <2>1 DEF Table, Increasing
<1>5. Ahead' = {b \in Ahead : b > clock + MinBreak}
  <2>1. Ahead' = {times[i] : i \in s..n} /\ Ahead = {times[i] : i \in nextIdx..n}
    BY <1>1 DEF Ahead
  <2> HIDE DEF n
  <2>2. ASSUME NEW i \in nextIdx..n
        PROVE  i \in s..n <=> times[i] > clock + MinBreak
    <3>1. times[i] \in Int
      BY <1>3
    <3>2. Passed(i, clock) <=> i < s
      BY <1>2
    <3>3. i \in s..n <=> ~ (i < s)
      BY <1>2, <1>3
    <3> QED
      BY <1>3, <3>1, <3>2, <3>3 DEF Passed
  <2>3. \A i \in s..n : i \in nextIdx..n
    BY <1>2, <1>3
  <2> QED
    BY <2>1, <2>2, <2>3
<1>6. upcoming' = AsSet!First(Ahead')
  <2>1. Table' => AtCursor(nextIdx)' = AsSet!First(Ahead)'
    BY CursorStaysFirst
  <2>2. AtCursor(nextIdx)' = AtCursor(nextIdx')
    BY <1>1 DEF AtCursor
  <2>3. AsSet!First(Ahead)' = AsSet!First(Ahead')
    BY DEF AsSet!First
  <2> QED
    BY <1>1, <1>4, <2>1, <2>2, <2>3
<1> QED
  BY <1>1, <1>4, <1>5, <1>6 DEF AsSet!NextAfter, Ahead

LEMMA IsAtBreakpointMaps ==
    ASSUME Table, NEW clock \in Times, IsAtBreakpoint(clock)
    PROVE  Table' /\ AsSet!IsAtBreakpoint(clock)
<1>1. /\ times' = times /\ nextIdx' = nextIdx /\ upcoming' = upcoming
      /\ flagged' = \E b \in AtCursor(nextIdx) : Close(b, clock)
  BY DEF IsAtBreakpoint
<1>2. Table' /\ Ahead' = Ahead
  BY <1>1 DEF Table, Increasing, Ahead
<1>3. AtCursor(nextIdx) = AsSet!First(Ahead)
  BY CursorIsFirst
<1>4. ASSUME NEW b \in AsSet!First(Ahead)
      PROVE  Close(b, clock) <=> ~ AsSet!Far(b, clock)
  <2>1. b \in Ahead
    BY DEF AsSet!First
  <2>2. b \in Int /\ clock \in Int /\ MinBreak \in Int
    BY <2>1, TableTypes DEF Ahead
  <2> QED
    BY <2>2 DEF Close, AsSet!Far
<1>5. flagged' = \E b \in AsSet!First(Ahead) : ~ AsSet!Far(b, clock)
  BY <1>1, <1>3, <1>4
<1> QED
  BY <1>1, <1>2, <1>5 DEF AsSet!IsAtBreakpoint, Ahead

LEMMA StepMaps ==
    ASSUME Table, [Next]_vars
    PROVE  Table' /\ [AsSet!Next]_(AsSet!vars)
<1>1. CASE Next
  <2>1. PICK n \in Times : Insert(n) \/ NextAfter(n) \/ IsAtBreakpoint(n)
    BY <1>1 DEF Next
  <2> QED
    BY <2>1, InsertMaps, NextAfterMaps, IsAtBreakpointMaps DEF AsSet!Next
<1>2. CASE UNCHANGED vars
  BY <1>2 DEF vars, AsSet!vars, Table, Increasing
<1> QED
  BY <1>1, <1>2

\* The vector with its cursor is the set of breakpoints still ahead, for every table
\* and every order of calls with a clock that does not go back: next_after returns the
\* least of them, loses none and repeats none, and a pause time is added to them
\* exactly when none is within min_break.
THEOREM TableImplementsSet == Spec => ImplementsSet
<1>1. Init => Table /\ AsSet!Init
  BY InitMaps
<1>2. Table /\ [Next]_vars => Table' /\ [AsSet!Next]_(AsSet!vars)
  BY StepMaps
<1> QED
  BY <1>1, <1>2, PTL DEF Spec, ImplementsSet, AsSet!Spec

\* A pause time never comes between two breakpoints, or next to one, closer than
\* min_break: comparing with the two neighbours of the insertion point is enough.
THEOREM PausesKeepSeparation == Spec => InsertKeepsSeparation
<1>1. Init => Table
  BY InitMaps
<1>2. Table /\ [Next]_vars => Table'
  BY StepMaps
<1>3. Table /\ [Next]_vars => [Separated(times) => Separated(times')]_vars
  <2> SUFFICES ASSUME Table, Next, Separated(times)
               PROVE  Separated(times')
    OBVIOUS
  <2>1. PICK tp \in Times : Insert(tp) \/ NextAfter(tp) \/ IsAtBreakpoint(tp)
    BY DEF Next
  <2>2. CASE times' = times
    BY <2>2
  <2>3. CASE Insert(tp) /\ ~ NextTo(tp)
    <3> DEFINE s == InsertAt(times, PartitionPoint(tp), tp)
               n == Len(times)
    <3>1. times' = s
      BY <2>3 DEF Insert
    <3> HIDE DEF s
    <3>2. /\ s \in Seq(Times)
          /\ \A i \in 1..Len(s) : s[i] = tp \/ \E j \in 1..n : s[i] = times[j]
          /\ \A i, j \in 1..Len(s) : s[i] = tp /\ s[j] = tp => i = j
          /\ Increasing(s)
      BY <2>3, InsertedTable DEF s
    <3>3. DOMAIN s = 1..Len(s) /\ DOMAIN times = 1..n
      BY <3>2, TableTypes, LenProperties
    <3>4. tp \in Int /\ MinBreak \in Int /\ \A i \in 1..n : times[i] \in Int
      BY TableTypes
    <3>5. \A j \in 1..n : ~ Close(times[j], tp)
      BY <2>3, NeighboursAreNearest
    <3>6. \A j \in 1..n : ~ Close(tp, times[j])
      BY <3>4, <3>5 DEF Close
    <3>7. ASSUME NEW i \in 1..Len(s), NEW j \in 1..Len(s), i # j
          PROVE  ~ Close(s[i], s[j])
      <4>1. CASE s[i] = tp
        BY <3>2, <3>6, <3>7, <4>1
      <4>2. CASE s[j] = tp
        BY <3>2, <3>5, <3>7, <4>2
      <4>3. CASE s[i] # tp /\ s[j] # tp
        <5>1. PICK k \in 1..n, l \in 1..n : s[i] = times[k] /\ s[j] = times[l]
          BY <3>2, <4>3
        <5>2. s[i] # s[j]
          <6>1. i < j \/ j < i
            BY <3>2, <3>7, LenProperties
          <6>2. s[i] < s[j] \/ s[j] < s[i]
            BY <3>2, <3>3, <6>1 DEF Increasing
          <6> QED
            BY <3>4, <5>1, <6>2
        <5>3. k # l
          BY <5>1, <5>2
        <5> QED
          BY <3>3, <5>1, <5>3 DEF Separated
      <4> QED
        BY <4>1, <4>2, <4>3
    <3> QED
      BY <3>1, <3>3, <3>7 DEF Separated
  <2> QED
    BY <2>1, <2>2, <2>3 DEF Insert, NextAfter, IsAtBreakpoint
<1> QED
  BY <1>1, <1>2, <1>3, PTL DEF Spec, InsertKeepsSeparation
=============================================================================
