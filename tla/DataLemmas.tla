----------------------------- MODULE DataLemmas -----------------------------
(***************************************************************************)
(* Lemmas on the data of several components: call stacks, which are        *)
(* sequences with the innermost call last, under the three operations of   *)
(* the interpreters and expanders (replace the top, push, pop), the least  *)
(* and the greatest of a set of indices, and the joins of sequences.       *)
(***************************************************************************)
EXTENDS Integers, Sequences, SequencesExt, SequenceTheorems, WellFoundedInduction, TLAPS

LEMMA PopStack ==
    ASSUME NEW S, NEW s \in Seq(S), s # <<>>
    PROVE  /\ Len(s) \in Nat \ {0}
           /\ DOMAIN s = 1..Len(s)
           /\ Last(s) = s[Len(s)]
           /\ Last(s) \in S
           /\ Front(s) \in Seq(S)
           /\ Len(Front(s)) = Len(s) - 1
           /\ DOMAIN Front(s) = 1..Len(s) - 1
           /\ \A i \in 1..Len(s) - 1 : Front(s)[i] = s[i]
<1>1. Len(s) \in Nat \ {0} /\ DOMAIN s = 1..Len(s)
  BY EmptySeq, LenProperties
<1>2. Last(s) = s[Len(s)] /\ Last(s) \in S
  BY <1>1, ElementOfSeq DEF Last
<1>3. \A i \in 1..Len(s) - 1 : s[i] \in S
  BY <1>1, ElementOfSeq
<1>4. Front(s) = [i \in 1..Len(s) - 1 |-> s[i]]
  BY <1>1 DEF Front
<1>5. Len(s) - 1 \in Nat
  BY <1>1
<1>6. Front(s) \in Seq(S) /\ Len(Front(s)) = Len(s) - 1
  <2> DEFINE e(i) == s[i]
  <2>1. \A i \in 1..Len(s) - 1 : e(i) \in S
    BY <1>3
  <2> HIDE DEF e
  <2>2. [i \in 1..Len(s) - 1 |-> e(i)] \in Seq(S)
    BY <1>5, <2>1, IsASeq
  <2>3. Front(s) = [i \in 1..Len(s) - 1 |-> e(i)]
    BY <1>4 DEF e
  <2> QED
    BY <2>2, <2>3, <1>5, LenProperties
<1> QED
  BY <1>1, <1>2, <1>4, <1>6, LenProperties

LEMMA PushStack ==
    ASSUME NEW S, NEW s \in Seq(S), NEW f
    PROVE  /\ Append(s, f) \in Seq(S \cup {f})
           /\ Len(s) \in Nat
           /\ Len(Append(s, f)) = Len(s) + 1
           /\ DOMAIN Append(s, f) = 1..Len(s) + 1
           /\ \A i \in 1..Len(s) : Append(s, f)[i] = s[i]
           /\ Append(s, f)[Len(s) + 1] = f
<1>1. s \in Seq(S \cup {f})
  BY SeqMonotonic
<1> QED
  BY <1>1, AppendProperties, LenProperties

LEMMA ReplaceTop ==
    ASSUME NEW S, NEW s \in Seq(S), s # <<>>, NEW f
    PROVE  /\ Append(Front(s), f) \in Seq(S \cup {f})
           /\ Len(Append(Front(s), f)) = Len(s)
           /\ DOMAIN Append(Front(s), f) = 1..Len(s)
           /\ \A i \in 1..Len(s) - 1 : Append(Front(s), f)[i] = s[i]
           /\ Append(Front(s), f)[Len(s)] = f
<1>1. /\ Front(s) \in Seq(S) /\ Len(Front(s)) = Len(s) - 1 /\ Len(s) \in Nat
      /\ \A i \in 1..Len(s) - 1 : Front(s)[i] = s[i]
  BY PopStack
<1>2. /\ Append(Front(s), f) \in Seq(S \cup {f})
      /\ Len(Append(Front(s), f)) = Len(Front(s)) + 1
      /\ DOMAIN Append(Front(s), f) = 1..Len(Front(s)) + 1
      /\ \A i \in 1..Len(Front(s)) : Append(Front(s), f)[i] = Front(s)[i]
      /\ Append(Front(s), f)[Len(Front(s)) + 1] = f
  BY <1>1, PushStack
<1>3. Len(Front(s)) + 1 = Len(s)
  BY <1>1
<1> QED
  BY <1>1, <1>2, <1>3

LEMMA LeastIndex ==
    ASSUME NEW S \in SUBSET Nat, S # {}
    PROVE  \E i \in S : \A j \in S : i <= j
<1> DEFINE R == {p \in Nat \X Nat : p[1] < p[2]}
<1>1. IsWellFoundedOn(R, Nat)
  BY NatLessThanWellFounded DEF OpToRel
<1>2. \A x, y \in Nat : x < y => <<x, y>> \in R
  OBVIOUS
<1> HIDE DEF R
<1>3. PICK i \in S : \A j \in S : <<j, i>> \notin R
  BY <1>1, WFMin
<1>4. ASSUME NEW j \in S
      PROVE  i <= j
  <2>1. i \in Nat /\ j \in Nat
    OBVIOUS
  <2>2. ~ (j < i)
    BY <1>2, <1>3, <2>1
  <2> QED
    BY <2>1, <2>2
<1> QED
  BY <1>4

LEMMA GreatestIndex ==
    ASSUME NEW n \in Nat, NEW S \in SUBSET (0..n), S # {}
    PROVE  \E i \in S : \A j \in S : j <= i
<1> DEFINE D == {n - i : i \in S}
<1>1. D \in SUBSET Nat /\ D # {}
  <2>1. \A i \in S : n - i \in Nat
    OBVIOUS
  <2> QED
    BY <2>1
<1> HIDE DEF D
<1>2. PICK d \in D : \A e \in D : d <= e
  BY <1>1, LeastIndex
<1>3. PICK i \in S : d = n - i
  BY <1>2 DEF D
<1>4. \A j \in S : n - j \in D
  BY DEF D
<1>5. \A j \in S : j <= i
  BY <1>2, <1>3, <1>4
<1> QED
  BY <1>5

LEMMA MaxIs ==
    ASSUME NEW S \in SUBSET Nat, NEW m \in S, \A x \in S : x <= m
    PROVE  Max(S) = m
<1>1. \A y \in S : m >= y
  OBVIOUS
<1>2. ASSUME NEW x \in S, \A y \in S : x >= y PROVE x = m
  BY <1>1, <1>2
<1> QED
  BY <1>1, <1>2 DEF Max

LEMMA MaxIn ==
    ASSUME NEW n \in Nat, NEW S \in SUBSET (0..n), S # {}
    PROVE  Max(S) \in S /\ \A x \in S : x <= Max(S)
<1>1. PICK m \in S : \A x \in S : x <= m
  BY GreatestIndex
<1>2. S \in SUBSET Nat
  OBVIOUS
<1>3. Max(S) = m
  BY <1>1, <1>2, MaxIs
<1> QED
  BY <1>1, <1>3

\* What a join of texts is joined from.

Glues(join, seqs, n) ==
    join = [i \in 1..n |-> IF i = 1 THEN seqs[i] ELSE join[i - 1] \o seqs[i]]

LEMMA JoinExists ==
    ASSUME NEW seqs, NEW n \in Nat
    PROVE  \E join : Glues(join, seqs, n)
<1> DEFINE Bad == {m \in 0..n : ~ \E s : Glues(s, seqs, m)}
<1> SUFFICES ASSUME Bad # {} PROVE FALSE
  OBVIOUS
<1>1. Bad \in SUBSET Nat
  OBVIOUS
<1>2. PICK m \in Bad : \A j \in Bad : m <= j
  <2> HIDE DEF Bad
  <2> QED
    BY <1>1, LeastIndex
<1>3. m \in 0..n /\ ~ \E s : Glues(s, seqs, m)
  BY <1>2
<1>4. CASE m = 0
  <2> DEFINE s == [i \in 1..0 |-> <<>>]
  <2>1. s = [i \in 1..0 |-> IF i = 1 THEN seqs[i] ELSE s[i - 1] \o seqs[i]]
    OBVIOUS
  <2>2. Glues(s, seqs, m)
    BY <1>4, <2>1 DEF Glues
  <2> QED
    BY <1>3, <2>2
<1>5. CASE m # 0
  <2>1. m - 1 \in 0..n /\ ~ m <= m - 1 /\ m \in Nat
    BY <1>3, <1>5
  <2>2. PICK g : Glues(g, seqs, m - 1)
    BY <1>2, <2>1
  <2> DEFINE last == IF m = 1 THEN seqs[m] ELSE g[m - 1] \o seqs[m]
             s == [i \in 1..m |-> IF i = m THEN last ELSE g[i]]
  <2>3. ASSUME NEW i \in 1..m
        PROVE  s[i] = IF i = 1 THEN seqs[i] ELSE s[i - 1] \o seqs[i]
    <3>1. CASE i = m
      <4>1. m # 1 => m - 1 \in 1..m /\ m - 1 # m
        BY <2>1
      <4>2. m # 1 => s[m - 1] = g[m - 1]
        BY <4>1
      <4> QED
        BY <3>1, <4>2
    <3>2. CASE i # m
      <4>1. i \in 1..(m - 1) /\ (i # 1 => i - 1 \in 1..m /\ i - 1 # m)
        BY <2>1, <3>2
      <4>2. g[i] = IF i = 1 THEN seqs[i] ELSE g[i - 1] \o seqs[i]
        BY <2>2, <4>1 DEF Glues
      <4>3. i # 1 => s[i - 1] = g[i - 1]
        BY <4>1
      <4> QED
        BY <3>2, <4>2, <4>3
    <3> QED
      BY <3>1, <3>2
  <2>4. s = [i \in 1..m |-> s[i]]
    OBVIOUS
  <2> HIDE DEF s
  <2>5. Glues(s, seqs, m)
    BY <2>3, <2>4 DEF Glues
  <2> QED
    BY <1>3, <2>5
<1> QED
  BY <1>4, <1>5

LEMMA FlattenIs ==
    ASSUME NEW S, NEW seqs \in Seq(S), seqs # <<>>
    PROVE  \E join : FlattenSeq(seqs) = join[Len(seqs)] /\ Glues(join, seqs, Len(seqs))
<1> DEFINE n == Len(seqs)
           join == CHOOSE s : Glues(s, seqs, n)
<1>1. n \in Nat \ {0}
  BY EmptySeq, LenProperties
<1>2. FlattenSeq(seqs) = join[n]
  BY <1>1 DEF FlattenSeq, Glues
<1>3. Glues(join, seqs, n)
  BY <1>1, JoinExists
<1> QED
  BY <1>2, <1>3

\* What the pieces are made of, so is the whole.
LEMMA FlattenSeqType ==
    ASSUME NEW L, NEW seqs \in Seq(Seq(L))
    PROVE  FlattenSeq(seqs) \in Seq(L)
<1>1. CASE seqs = <<>>
  BY <1>1 DEF FlattenSeq
<1>2. CASE seqs # <<>>
  <2> DEFINE n == Len(seqs)
  <2>1. PICK join : FlattenSeq(seqs) = join[n] /\ Glues(join, seqs, n)
    BY <1>2, FlattenIs
  <2>2. n \in Nat \ {0} /\ \A i \in 1..n : seqs[i] \in Seq(L)
    BY <1>2, EmptySeq, LenProperties, ElementOfSeq
  <2>3. \A i \in 1..n : join[i] = IF i = 1 THEN seqs[i] ELSE join[i - 1] \o seqs[i]
    BY <2>1 DEF Glues
  <2> HIDE DEF n
  <2> DEFINE Bad == {i \in 1..n : join[i] \notin Seq(L)}
  <2>4. Bad = {}
    <3> SUFFICES ASSUME Bad # {} PROVE FALSE
      OBVIOUS
    <3>1. Bad \in SUBSET Nat
      OBVIOUS
    <3>2. PICK i \in Bad : \A j \in Bad : i <= j
      <4> HIDE DEF Bad
      <4> QED
        BY <3>1, LeastIndex
    <3>3. i \in 1..n /\ join[i] \notin Seq(L) /\ i # 1
      BY <2>2, <2>3, <3>2
    <3>4. i - 1 \in 1..n /\ ~ i <= i - 1
      BY <2>2, <3>3
    <3>5. join[i - 1] \in Seq(L) /\ seqs[i] \in Seq(L)
      BY <2>2, <3>2, <3>3, <3>4
    <3>6. join[i] = join[i - 1] \o seqs[i]
      BY <2>3, <3>3
    <3> QED
      BY <3>3, <3>5, <3>6, ConcatProperties
  <2> QED
    BY <2>1, <2>2, <2>4 DEF n
<1> QED
  BY <1>1, <1>2
=============================================================================
