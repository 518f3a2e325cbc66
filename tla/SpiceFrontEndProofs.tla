------------------------ MODULE SpiceFrontEndProofs -------------------------
(***************************************************************************)
(* The parts of reading SPICE that keep track of a place by hand, for all  *)
(* files.  preprocess_includes: the paths being visited are those of the   *)
(* texts being expanded, and the text written has every file in the place  *)
(* of the line that asks for it.  flatten_netlist: the names and the       *)
(* values of what is emitted are those of the instance it was written in.  *)
(***************************************************************************)
EXTENDS SpiceFrontEnd, DataLemmas

-----------------------------------------------------------------------------
\* The texts being expanded.

\* A call of expand_text has the fields of Text.
IsText(f) == \E T : f \in [path : T, todo : T]

\* The first call is for the input, which is marked too.
Visits(s, marked) ==
    /\ \E S : s \in Seq(S) /\ \A f \in S : IsText(f)
    /\ marked = {s[i].path : i \in 1..Len(s)}
    /\ \A i, j \in 1..Len(s) : s[i].path = s[j].path => i = j

LEMMA TextFields ==
    ASSUME NEW path, NEW lines
    PROVE  IsText(Includes!Text(path, lines))
           /\ Includes!Text(path, lines).path = path
<1> DEFINE T == {path, lines}
           f == [path |-> path, todo |-> lines]
<1>1. f \in [path : T, todo : T] /\ f.path = path
  OBVIOUS
<1> HIDE DEF T
<1>2. IsText(f)
  BY <1>1 DEF IsText
<1> QED
  BY <1>1, <1>2 DEF Includes!Text

LEMMA SamePath ==
    ASSUME NEW f, IsText(f), NEW t
    PROVE  LET g == [f EXCEPT !.todo = t] IN IsText(g) /\ g.path = f.path
<1>1. PICK T : f \in [path : T, todo : T]
  BY DEF IsText
<1> DEFINE U == T \cup {t}
           g == [f EXCEPT !.todo = t]
<1>2. g \in [path : U, todo : U] /\ g.path = f.path
  BY <1>1
<1> HIDE DEF U
<1>3. IsText(g)
  BY <1>2 DEF IsText
<1> QED
  BY <1>2, <1>3

\* The innermost text is replaced by one of the same path.
LEMMA VisitsReplace ==
    ASSUME NEW s, NEW m, Visits(s, m), s # <<>>, NEW g, IsText(g), g.path = Last(s).path
    PROVE  Visits(Append(Front(s), g), m) /\ Append(Front(s), g) # <<>>
<1> DEFINE r == Append(Front(s), g)
<1>1. PICK S : s \in Seq(S) /\ \A f \in S : IsText(f)
  BY DEF Visits
<1>2. /\ r \in Seq(S \cup {g}) /\ Len(r) = Len(s)
      /\ \A i \in 1..Len(s) - 1 : r[i] = s[i]
      /\ r[Len(s)] = g
  <2>1. s # <<>>
    OBVIOUS
  <2>2. /\ r \in Seq(S \cup {g})
        /\ Len(r) = Len(s)
        /\ DOMAIN r = 1..Len(s)
        /\ \A i \in 1..Len(s) - 1 : r[i] = s[i]
        /\ r[Len(s)] = g
    BY <1>1, <2>1, ReplaceTop, ZenonT(30)
  <2> QED
    BY <2>2
<1>3. Len(s) \in Nat \ {0} /\ Last(s) = s[Len(s)]
  BY <1>1, PopStack
<1> HIDE DEF r
<1>4. \A i \in 1..Len(s) : r[i].path = s[i].path
  BY <1>2, <1>3
<1>5. Visits(r, m)
  BY <1>1, <1>2, <1>4 DEF Visits
<1>6. r # <<>>
  BY <1>2, <1>3
<1> QED
  BY <1>5, <1>6 DEF r

\* A text is entered whose path is not marked.
LEMMA VisitsPush ==
    ASSUME NEW s, NEW m, Visits(s, m), NEW g, IsText(g), g.path \notin m
    PROVE  Visits(Append(s, g), m \cup {g.path}) /\ Append(s, g) # <<>>
<1> DEFINE r == Append(s, g)
           n == Len(s)
<1>1. PICK S : s \in Seq(S) /\ \A f \in S : IsText(f)
  BY DEF Visits
<1>2. /\ r \in Seq(S \cup {g}) /\ Len(r) = n + 1 /\ n \in Nat
      /\ \A i \in 1..n : r[i] = s[i]
      /\ r[n + 1] = g
  BY <1>1, PushStack
<1> HIDE DEF r, n
<1>3. m = {s[i].path : i \in 1..n} /\ \A i, j \in 1..n : s[i].path = s[j].path => i = j
  BY DEF Visits, n
<1>4. \A i \in 1..(n + 1) : i \in 1..n \/ i = n + 1
  BY <1>2
<1>5. \A i \in 1..n : i \in 1..(n + 1) /\ r[i].path = s[i].path /\ r[i].path # g.path
  <2> TAKE i \in 1..n
  <2>1. i \in 1..(n + 1) /\ r[i] = s[i]
    BY <1>2
  <2>2. s[i].path \in m
    BY <1>3
  <2> QED
    BY <2>1, <2>2
<1>6. n + 1 \in 1..(n + 1)
  BY <1>2
<1>7. m \cup {g.path} = {r[i].path : i \in 1..(n + 1)}
  BY <1>2, <1>3, <1>4, <1>5, <1>6
<1>8. ASSUME NEW i \in 1..(n + 1), NEW j \in 1..(n + 1), r[i].path = r[j].path
      PROVE  i = j
  BY <1>2, <1>3, <1>4, <1>5, <1>8
<1>9. \A f \in S \cup {g} : IsText(f)
  BY <1>1
<1>10. Visits(r, m \cup {g.path})
  BY <1>2, <1>7, <1>8, <1>9 DEF Visits
<1>11. r # <<>>
  BY <1>2
<1> QED
  BY <1>10, <1>11 DEF r

\* The innermost text is done with.
LEMMA VisitsPop ==
    ASSUME NEW s, NEW m, Visits(s, m), Len(s) > 1
    PROVE  Visits(Front(s), m \ {Last(s).path}) /\ Front(s) # <<>>
<1> DEFINE r == Front(s)
           n == Len(s)
<1>1. PICK S : s \in Seq(S) /\ \A f \in S : IsText(f)
  BY DEF Visits
<1>2. s # <<>>
  OBVIOUS
<1>3. /\ r \in Seq(S) /\ Len(r) = n - 1 /\ \A i \in 1..n - 1 : r[i] = s[i]
      /\ n \in Nat \ {0} /\ Last(s) = s[n]
  BY <1>1, <1>2, PopStack
<1>4. r # <<>>
  BY <1>3
<1> HIDE DEF r, n
<1>5. m = {s[i].path : i \in 1..n} /\ \A i, j \in 1..n : s[i].path = s[j].path => i = j
  BY DEF Visits, n
<1>6. \A i \in 1..n : i \in 1..(n - 1) \/ i = n
  BY <1>3
<1>7. \A i \in 1..(n - 1) : i \in 1..n /\ r[i] = s[i] /\ s[i].path # s[n].path
  <2> TAKE i \in 1..(n - 1)
  <2>1. i \in 1..n /\ n \in 1..n /\ i # n /\ i \in 1..n - 1
    BY <1>3
  <2> QED
    BY <1>3, <1>5, <2>1
<1>8. m \ {s[n].path} = {r[i].path : i \in 1..(n - 1)}
  BY <1>5, <1>6, <1>7
<1>9. \A i, j \in 1..(n - 1) : r[i].path = r[j].path => i = j
  BY <1>5, <1>7
<1>10. Visits(r, m \ {s[n].path})
  BY <1>1, <1>3, <1>8, <1>9 DEF Visits
<1> QED
  BY <1>3, <1>4, <1>10 DEF r, n

LEMMA IncludesKeepVisits ==
    ASSUME Visits(texts, visiting), texts # <<>>, Includes!Expand
    PROVE  Visits(texts', visiting') /\ texts' # <<>>
<1> DEFINE top == Last(texts)
           mid == Append(Front(texts), [top EXCEPT !.todo = Tail(@)])
<1>1. Includes!Top = top /\ Includes!Passed = mid
      /\ Includes!Front(texts) = Front(texts)
  BY DEF Includes!Top, Includes!Passed, Includes!Last, Includes!Front,
     Last, Front
<1>2. Visits(mid, visiting) /\ mid # <<>>
  <2>1. PICK S : texts \in Seq(S) /\ \A f \in S : IsText(f)
    BY DEF Visits
  <2>2. IsText(top)
    BY <2>1, PopStack
  <2> DEFINE g == [top EXCEPT !.todo = Tail(@)]
  <2>3. IsText(g) /\ g.path = Last(texts).path
    BY <2>2, SamePath
  <2> HIDE DEF g
  <2> QED
    BY <2>3, VisitsReplace DEF g
<1> HIDE DEF mid
<1>3. CASE Includes!FailDepth \/ Includes!FailLine
  <2>1. texts' = texts /\ visiting' = visiting
    BY <1>3 DEF Includes!FailDepth, Includes!FailLine
  <2> QED
    BY <2>1
<1>4. CASE Includes!EnterText
  <2>1. PICK path : /\ path \notin visiting /\ visiting' = visiting \cup {path}
                    /\ \E lines : texts' = Append(mid, Includes!Text(path, lines))
    BY <1>1, <1>4 DEF Includes!EnterText
  <2>2. PICK lines : texts' = Append(mid, Includes!Text(path, lines))
    BY <2>1
  <2> DEFINE g == Includes!Text(path, lines)
  <2>3. IsText(g) /\ g.path = path
    BY TextFields
  <2> HIDE DEF g
  <2>4. Visits(Append(mid, g), visiting \cup {g.path}) /\ Append(mid, g) # <<>>
    BY <1>2, <2>1, <2>3, VisitsPush
  <2> QED
    BY <2>1, <2>2, <2>3, <2>4 DEF g
<1>5. CASE Includes!DropMarker \/ Includes!EmitLine
  <2>1. texts' = mid /\ visiting' = visiting
    BY <1>1, <1>5 DEF Includes!DropMarker, Includes!EmitLine
  <2> QED
    BY <1>2, <2>1
<1>6. CASE Includes!LeaveText
  <2>1. /\ Len(texts) > 1 /\ texts' = Front(texts) /\ visiting' = visiting \ {top.path}
    BY <1>1, <1>6 DEF Includes!LeaveText, Includes!Left
  <2> QED
    BY <2>1, VisitsPop
<1> QED
  BY <1>3, <1>4, <1>5, <1>6 DEF Includes!Expand

\* One of the two expanders works; the stack of the other stays empty.
OneWay ==
    \/ calls # <<>> /\ \E S : calls \in Seq(S)
    \/ calls = <<>> /\ texts # <<>> /\ Visits(texts, visiting)

LEMMA LibsStay ==
    ASSUME NEW S, calls \in Seq(S), calls # <<>>, Libs!Expand
    PROVE  calls' # <<>> /\ \E T : calls' \in Seq(T)
<1>1. ASSUME NEW T, NEW s \in Seq(T), NEW f
      PROVE  Append(s, f) # <<>> /\ \E U : Append(s, f) \in Seq(U)
  <2> DEFINE r == Append(s, f)
  <2>1. r \in Seq(T \cup {f}) /\ Len(r) = Len(s) + 1 /\ Len(s) \in Nat
    BY PushStack
  <2> HIDE DEF r
  <2>2. r # <<>>
    BY <2>1
  <2> QED
    BY <2>1, <2>2 DEF r
<1>2. Front(calls) \in Seq(S) /\ Len(Front(calls)) = Len(calls) - 1
  BY PopStack
<1>3. Libs!Front(calls) = Front(calls)
      /\ Libs!Front(Front(calls)) = Front(Front(calls))
  BY DEF Libs!Front, Front
<1>4. CASE Libs!Fail
  BY <1>4 DEF Libs!Fail
<1>5. CASE Libs!EnterSection \/ Libs!EnterSubckt
  <2>1. \E f : calls' = Append(calls, f)
    BY <1>5 DEF Libs!EnterSection, Libs!EnterSubckt
  <2> QED
    BY <1>1, <2>1
<1>6. CASE Libs!KeepItem
  <2>1. \E f : calls' = Append(Front(calls), f)
    BY <1>3, <1>6 DEF Libs!KeepItem, Libs!Replace
  <2> QED
    BY <1>1, <1>2, <2>1
<1>7. CASE Libs!Return
  <2>1. Len(calls) > 1 /\ \E f : calls' = Append(Front(Front(calls)), f)
    BY <1>3, <1>7 DEF Libs!Return
  <2>2. Front(calls) # <<>>
    BY <1>2, <2>1
  <2>3. Front(Front(calls)) \in Seq(S)
    BY <1>2, <2>2, PopStack
  <2> QED
    BY <1>1, <2>1, <2>3
<1> QED
  BY <1>4, <1>5, <1>6, <1>7 DEF Libs!Expand

LEMMA OneWayInit == ASSUME Init PROVE OneWay
<1>1. CASE Libs!Init
  <2>1. PICK f : calls = <<f>>
    BY <1>1 DEF Libs!Init
  <2>2. calls # <<>> /\ calls \in Seq({f})
    BY <2>1
  <2> QED
    BY <2>2 DEF OneWay
<1>2. CASE Includes!Init /\ calls = <<>>
  <2> DEFINE f == Includes!Text(Includes!Input, project.root)
  <2>1. texts = <<f>> /\ visiting = {Includes!Input} /\ calls = <<>>
    BY <1>2 DEF Includes!Init
  <2>2. IsText(f) /\ f.path = Includes!Input
    BY TextFields
  <2> HIDE DEF f
  <2>3. texts \in Seq({f}) /\ texts # <<>> /\ 1..Len(texts) = {1} /\ texts[1] = f
    BY <2>1
  <2>4. \E S : texts \in Seq(S) /\ \A g \in S : IsText(g)
    <3>1. \A g \in {f} : IsText(g)
      BY <2>2
    <3> QED
      BY <2>3, <3>1
  <2>5. visiting = {texts[i].path : i \in 1..Len(texts)}
    BY <2>1, <2>2, <2>3
  <2>6. \A i, j \in 1..Len(texts) : i = j
    BY <2>3
  <2>7. Visits(texts, visiting)
    BY <2>4, <2>5, <2>6 DEF Visits
  <2> QED
    BY <2>1, <2>3, <2>7 DEF OneWay
<1> QED
  BY <1>1, <1>2 DEF Init

LEMMA OneWayStep == ASSUME OneWay, [Next]_(vars) PROVE OneWay'
<1>1. CASE ExpandLibs
  <2>1. calls # <<>> /\ Libs!Expand
    BY <1>1 DEF ExpandLibs, ByLibs
  <2>2. PICK S : calls \in Seq(S)
    BY <2>1 DEF OneWay
  <2> QED
    BY <2>1, <2>2, LibsStay DEF OneWay
<1>2. CASE ExpandIncludes
  <2>1. calls = <<>> /\ calls' = calls /\ Includes!Expand
    BY <1>2 DEF ExpandIncludes, ByLibs, libVars
  <2>2. texts # <<>> /\ Visits(texts, visiting)
    BY <2>1 DEF OneWay
  <2>3. Visits(texts', visiting') /\ texts' # <<>>
    BY <2>1, <2>2, IncludesKeepVisits
  <2> QED
    BY <2>1, <2>3 DEF OneWay
<1>3. ASSUME UNCHANGED <<calls, texts, visiting>> PROVE OneWay'
  BY <1>3 DEF OneWay
<1>4. CASE Refuse \/ StartFlattening \/ FlattenNetlist \/ Return
           \/ UNCHANGED vars
  BY <1>3, <1>4 DEF Refuse, StartFlattening, FlattenNetlist, Return,
     vars, libVars, includeVars
<1> QED
  BY <1>1, <1>2, <1>4 DEF Next

\* The paths marked are those of the texts being expanded, none twice, for all files,
\* search directories and depth limits (preprocess_includes).
THEOREM VisitingStaysOpen == Spec => []VisitingIsOpen
<1>1. Init => OneWay
  BY OneWayInit
<1>2. OneWay /\ [Next]_(vars) => OneWay'
  BY OneWayStep
<1>3. OneWay => VisitingIsOpen
  <2> SUFFICES ASSUME OneWay, calls = <<>> PROVE Includes!VisitingIsOpen
    BY DEF VisitingIsOpen, ByLibs
  <2>1. Visits(texts, visiting)
    BY DEF OneWay
  <2>2. DOMAIN texts = 1..Len(texts)
    BY <2>1, LenProperties DEF Visits
  <2> QED
    BY <2>1, <2>2 DEF Visits, Includes!VisitingIsOpen
<1> QED
  BY <1>1, <1>2, <1>3, PTL DEF Spec

\* A sequence is one of its own elements.
LEMMA SequenceIs ==
    ASSUME NEW S, NEW s \in Seq(S)
    PROVE  /\ IsSequence(s)
           /\ Len(s) \in Nat /\ DOMAIN s = 1..Len(s)
           /\ \A i \in 1..Len(s) : s[i] \in S
<1>1. Len(s) \in Nat /\ DOMAIN s = 1..Len(s) /\ s = [i \in 1..Len(s) |-> s[i]]
  BY LenProperties
<1>2. \A i \in 1..Len(s) : s[i] \in S
  BY <1>1, ElementOfSeq
<1> DEFINE e(i) == s[i]
           n == Len(s)
<1>3. \A i \in 1..n : e(i) \in ToSet(s)
  BY <1>1 DEF ToSet
<1> HIDE DEF e
<1>4. [i \in 1..n |-> e(i)] \in Seq(ToSet(s))
  BY <1>1, <1>3, IsASeq
<1>5. s = [i \in 1..n |-> e(i)]
  BY <1>1 DEF e
<1> QED
  BY <1>1, <1>2, <1>4, <1>5 DEF IsSequence

LEMMA SequenceOf ==
    ASSUME NEW S, NEW s, IsSequence(s), \A i \in DOMAIN s : s[i] \in S
    PROVE  s \in Seq(S) /\ ToSet(s) \subseteq S
<1>1. ToSet(s) \subseteq S
  BY DEF ToSet
<1>2. s \in Seq(ToSet(s))
  BY DEF IsSequence
<1> QED
  BY <1>1, <1>2, SeqMonotonic

-----------------------------------------------------------------------------
\* What parsing makes of lines.

\* The items that parsing knows: a definition holds items of the same kind.
Closed(L) == \A x \in L : IsLine(x) /\ (x.op = "subckt" => x.body \in Seq(L))

LEMMA LineWith ==
    ASSUME NEW x, IsLine(x), NEW b
    PROVE  LET y == [x EXCEPT !.body = b]
           IN  /\ IsLine(y) /\ y.op = x.op /\ y.body = b /\ y.name = x.name
<1> DEFINE y == [x EXCEPT !.body = b]
<1>1. y = [op |-> x.op, name |-> x.name, kind |-> x.kind, path |-> x.path, nets |-> x.nets,
           value |-> x.value, model |-> x.model, params |-> x.params, body |-> b]
  <2> DEFINE Line9(o, n, ki, p, ne, v, m, pa, bo) ==
          [op |-> o, name |-> n, kind |-> ki, path |-> p, nets |-> ne, value |-> v, model |-> m,
           params |-> pa, body |-> bo]
  <2>2. PICK o, n, ki, p, ne, v, m, pa, bo : x = Line9(o, n, ki, p, ne, v, m, pa, bo)
    BY Zenon DEF IsLine
  <2>3. /\ x.op = o /\ x.name = n /\ x.kind = ki /\ x.path = p /\ x.nets = ne
        /\ x.value = v /\ x.model = m /\ x.params = pa
    BY <2>2
  <2>4. y = Line9(o, n, ki, p, ne, v, m, pa, b)
    BY <2>2
  <2> QED
    BY <2>3, <2>4 DEF Line9
<1>2. /\ y.op = x.op /\ y.name = x.name /\ y.kind = x.kind /\ y.path = x.path /\ y.nets = x.nets
      /\ y.value = x.value /\ y.model = x.model /\ y.params = x.params /\ y.body = b
  BY <1>1
<1> HIDE DEF y
<1>3. IsLine(y)
  BY <1>1, <1>2 DEF IsLine
<1> QED
  BY <1>2, <1>3 DEF y

LEMMA ParentBefore ==
    ASSUME NEW lines, NEW j \in Nat \ {0}
    PROVE  Parent(lines, j) \in 0..j - 1
<1> DEFINE S == {0} \cup Around(lines, j)
<1>1. S \in SUBSET (0..j - 1) /\ S # {}
  BY DEF Around
<1>2. j - 1 \in Nat
  OBVIOUS
<1> HIDE DEF S
<1>3. Max(S) \in S
  BY <1>1, <1>2, MaxIn
<1> QED
  BY <1>1, <1>3 DEF Parent, S

\* The items of one body, in terms of the bodies of those inside of it.
BodyOf(lines, f, i) ==
    FlattenSeq([j \in DOMAIN lines |->
        IF lines[j].op = "ends" \/ Parent(lines, j) # i THEN <<>>
        ELSE IF lines[j].op = "subckt" THEN <<[lines[j] EXCEPT !.body = f[j]]>>
        ELSE <<lines[j]>>])

LEMMA BodyDepends ==
    ASSUME NEW lines, IsSequence(lines), NEW i \in Nat, NEW f, NEW g,
           \A j \in 1..Len(lines) : i < j => f[j] = g[j]
    PROVE  BodyOf(lines, f, i) = BodyOf(lines, g, i)
<1>1. DOMAIN lines = 1..Len(lines) /\ Len(lines) \in Nat
  BY SequenceIs DEF IsSequence
<1>2. ASSUME NEW j \in DOMAIN lines, Parent(lines, j) = i
      PROVE  f[j] = g[j]
  <2>1. j \in Nat \ {0}
    BY <1>1
  <2>2. Parent(lines, j) \in 0..j - 1
    BY <2>1, ParentBefore
  <2> QED
    BY <1>1, <1>2, <2>1, <2>2
<1> DEFINE P(h, j) == IF lines[j].op = "ends" \/ Parent(lines, j) # i THEN <<>>
                      ELSE IF lines[j].op = "subckt" THEN <<[lines[j] EXCEPT !.body = h[j]]>>
                      ELSE <<lines[j]>>
<1>3. \A j \in DOMAIN lines : P(f, j) = P(g, j)
  BY <1>2
<1>4. BodyOf(lines, f, i) = FlattenSeq([j \in DOMAIN lines |-> P(f, j)])
      /\ BodyOf(lines, g, i) = FlattenSeq([j \in DOMAIN lines |-> P(g, j)])
  BY DEF BodyOf
<1> HIDE DEF P
<1>5. [j \in DOMAIN lines |-> P(f, j)] = [j \in DOMAIN lines |-> P(g, j)]
  BY <1>3
<1> QED
  BY <1>4, <1>5

Bodies(lines, f) == f = [i \in 0..Len(lines) |-> BodyOf(lines, f, i)]

LEMMA BodiesExist ==
    ASSUME NEW lines, IsSequence(lines)
    PROVE  \E f : Bodies(lines, f)
<1> DEFINE n == Len(lines)
<1>1. DOMAIN lines = 1..n /\ n \in Nat
  BY SequenceIs DEF IsSequence
<1> DEFINE From(f, d) == \A i \in 0..n : n + 1 - d <= i => f[i] = BodyOf(lines, f, i)
           Bad == {d \in 0..n + 1 : ~ \E f : From(f, d)}
<1>2. Bad = {}
  <2> SUFFICES ASSUME Bad # {} PROVE FALSE
    OBVIOUS
  <2>1. Bad \in SUBSET Nat
    OBVIOUS
  <2>2. PICK d \in Bad : \A e \in Bad : d <= e
    <3> HIDE DEF Bad
    <3> QED
      BY <2>1, LeastIndex
  <2>3. d \in 0..n + 1 /\ ~ \E f : From(f, d)
    BY <2>2
  <2>4. d # 0
    <3> SUFFICES ASSUME d = 0 PROVE FALSE
      OBVIOUS
    <3>1. From(<<>>, 0)
      BY <1>1
    <3> QED
      BY <2>3, <3>1
  <2> DEFINE m == n + 1 - d
  <2>5. m \in 0..n /\ d - 1 \in 0..n + 1 /\ ~ d <= d - 1 /\ n + 1 - (d - 1) = m + 1
    BY <1>1, <2>3, <2>4
  <2>6. PICK f : From(f, d - 1)
    BY <2>2, <2>5
  <2>7. \A i \in 0..n : m + 1 <= i => f[i] = BodyOf(lines, f, i)
    BY <2>5, <2>6
  <2> DEFINE g == [i \in 0..n |-> IF i = m THEN BodyOf(lines, f, m) ELSE f[i]]
  <2> HIDE DEF From, Bad, m
  <2>8. \A i \in 0..n : m <= i => g[i] = BodyOf(lines, g, i)
    <3> SUFFICES ASSUME NEW i \in 0..n, m <= i PROVE g[i] = BodyOf(lines, g, i)
      OBVIOUS
    <3>1. \A j \in 1..n : i < j => f[j] = g[j]
      BY <1>1, <2>5
    <3>2. BodyOf(lines, f, i) = BodyOf(lines, g, i)
      <4> HIDE DEF g
      <4>1. i \in Nat
        OBVIOUS
      <4> QED
        BY <3>1, <4>1, BodyDepends
    <3>3. g[i] = BodyOf(lines, f, i)
      <4>1. i = m \/ m + 1 <= i
        BY <1>1, <2>5
      <4> QED
        BY <2>7, <4>1
    <3> QED
      BY <3>2, <3>3
  <2>9. From(g, d)
    <3> HIDE DEF g
    <3> QED
      BY <2>8 DEF From, m
  <2> QED
    BY <2>3, <2>9
<1>3. PICK f : From(f, n + 1)
  <2>1. n + 1 \in 0..n + 1
    BY <1>1
  <2> QED
    BY <1>2, <2>1
<1>4. \A i \in 0..n : f[i] = BodyOf(lines, f, i)
  BY <1>1, <1>3
<1> DEFINE g == [i \in 0..n |-> f[i]]
<1>5. ASSUME NEW i \in 0..n PROVE g[i] = BodyOf(lines, g, i)
  <2>1. \A j \in 1..n : i < j => f[j] = g[j]
    BY <1>1
  <2>2. g[i] = BodyOf(lines, f, i)
    BY <1>4
  <2>3. i \in Nat
    OBVIOUS
  <2> HIDE DEF g, n
  <2>4. BodyOf(lines, f, i) = BodyOf(lines, g, i)
    BY <2>1, <2>3, BodyDepends DEF n
  <2> QED
    BY <2>2, <2>4
<1>6. g = [i \in 0..n |-> g[i]]
  OBVIOUS
<1> HIDE DEF g
<1>7. Bodies(lines, g)
  BY <1>5, <1>6 DEF Bodies
<1> QED
  BY <1>7

LEMMA ParsedIs ==
    ASSUME NEW lines, IsSequence(lines)
    PROVE  \E f : Bodies(lines, f) /\ Parsed(lines) = f[0]
<1> DEFINE f == CHOOSE g : Bodies(lines, g)
<1>1. Bodies(lines, f)
  BY BodiesExist
<1>2. Parsed(lines) = f[0]
  BY DEF Parsed, Bodies, BodyOf
<1> QED
  BY <1>1, <1>2

LEMMA ItemsType ==
    ASSUME NEW lines, IsSource(lines), NEW f, Bodies(lines, f)
    PROVE  \E L : Closed(L) /\ f[0] \in Seq(L)
<1>1. Bodies(lines, f)
  OBVIOUS
<1> DEFINE n == Len(lines)
           It(j) == IF lines[j].op = "subckt" THEN [lines[j] EXCEPT !.body = f[j]] ELSE lines[j]
           L == {It(j) : j \in 1..n}
<1>2. DOMAIN lines = 1..n /\ n \in Nat /\ \A j \in 1..n : IsLine(lines[j])
  BY SequenceIs DEF IsSource, IsSequence
<1>3. ASSUME NEW i \in 0..n PROVE f[i] \in Seq(L)
  <2> DEFINE P(j) == IF lines[j].op = "ends" \/ Parent(lines, j) # i THEN <<>>
                     ELSE IF lines[j].op = "subckt" THEN <<[lines[j] EXCEPT !.body = f[j]]>>
                     ELSE <<lines[j]>>
             seqs == [j \in 1..n |-> P(j)]
  <2>1. ASSUME NEW j \in 1..n PROVE P(j) \in Seq(L)
    <3>1. P(j) = <<>> \/ P(j) = <<It(j)>>
      OBVIOUS
    <3>2. It(j) \in L
      OBVIOUS
    <3>3. \A x \in L : <<x>> \in Seq(L)
      <4> HIDE DEF L
      <4> QED
        OBVIOUS
    <3>4. <<>> \in Seq(L)
      <4> HIDE DEF L
      <4> QED
        OBVIOUS
    <3> HIDE DEF P, It, L
    <3> QED
      BY <3>1, <3>2, <3>3, <3>4
  <2>2. f[i] = FlattenSeq(seqs)
    BY <1>1, <1>2 DEF Bodies, BodyOf
  <2> HIDE DEF P, L
  <2>3. seqs \in Seq(Seq(L))
    BY <1>2, <2>1, IsASeq
  <2> QED
    BY <2>2, <2>3, FlattenSeqType
<1>4. ASSUME NEW x \in L PROVE IsLine(x) /\ (x.op = "subckt" => x.body \in Seq(L))
  <2>1. PICK j \in 1..n : x = It(j)
    OBVIOUS
  <2>2. CASE lines[j].op = "subckt"
    <3>1. x = [lines[j] EXCEPT !.body = f[j]]
      BY <2>1, <2>2
    <3>2. IsLine(lines[j]) /\ j \in 0..n
      BY <1>2
    <3> HIDE DEF L, It
    <3>3. IsLine(x) /\ x.body = f[j]
      BY <3>1, <3>2, LineWith
    <3> QED
      BY <1>3, <3>2, <3>3
  <2>3. CASE lines[j].op # "subckt"
    <3>1. x = lines[j]
      BY <2>1, <2>3
    <3> QED
      BY <1>2, <2>3, <3>1
  <2> QED
    BY <2>2, <2>3
<1>5. Closed(L)
  <2> HIDE DEF L
  <2> QED
    BY <1>4 DEF Closed
<1>6. 0 \in 0..n
  BY <1>2
<1> HIDE DEF L
<1> QED
  BY <1>3, <1>5, <1>6

LEMMA ParsedType ==
    ASSUME NEW lines, IsSource(lines)
    PROVE  \E L : Closed(L) /\ Parsed(lines) \in Seq(L)
<1>1. PICK f : Bodies(lines, f) /\ Parsed(lines) = f[0]
  BY ParsedIs DEF IsSource
<1> QED
  BY <1>1, ItemsType

-----------------------------------------------------------------------------
\* What process_libs works on are items.

LEMMA SourceFrom ==
    ASSUME NEW S, NEW s \in Seq(S), \A x \in S : IsLine(x)
    PROVE  IsSource(s)
BY SequenceIs DEF IsSource

LEMMA SourceLines ==
    ASSUME NEW s, IsSource(s)
    PROVE  /\ s \in Seq(ToSet(s))
           /\ \A x \in ToSet(s) : IsLine(x)
           /\ Len(s) \in Nat /\ DOMAIN s = 1..Len(s)
           /\ \A i \in 1..Len(s) : s[i] \in ToSet(s)
<1>1. s \in Seq(ToSet(s)) /\ \A i \in DOMAIN s : IsLine(s[i])
  BY DEF IsSource, IsSequence
<1>2. \A x \in ToSet(s) : IsLine(x)
  BY <1>1 DEF ToSet
<1> QED
  BY <1>1, <1>2, SequenceIs

LEMMA SectionSource ==
    ASSUME NEW lines, IsSource(lines), NEW name
    PROVE  IsSource(LibSection(lines, name))
<1> DEFINE inside(j) == \E i \in 1..j - 1 :
                /\ lines[i].op = "section" /\ lines[i].name = name
                /\ \A k \in i + 1..j : lines[k].op # "endl"
           P(j) == IF inside(j) THEN <<lines[j]>> ELSE <<>>
           n == Len(lines)
           S == ToSet(lines)
           seqs == [j \in 1..n |-> P(j)]
<1>1. /\ \A x \in S : IsLine(x)
      /\ n \in Nat /\ DOMAIN lines = 1..n /\ \A i \in 1..n : lines[i] \in S
  BY SourceLines
<1>2. LibSection(lines, name) = FlattenSeq(seqs)
  BY <1>1 DEF LibSection
<1>3. ASSUME NEW j \in 1..n PROVE P(j) \in Seq(S)
  <2>1. P(j) = <<lines[j]>> \/ P(j) = <<>>
    BY DEF P
  <2>2. lines[j] \in S
    BY <1>1
  <2> HIDE DEF P, S
  <2>3. <<lines[j]>> \in Seq(S) /\ <<>> \in Seq(S)
    BY <2>2
  <2> QED
    BY <2>1, <2>3
<1> HIDE DEF P, S
<1>4. seqs \in Seq(Seq(S))
  BY <1>1, <1>3, IsASeq
<1>5. FlattenSeq(seqs) \in Seq(S)
  BY <1>4, FlattenSeqType
<1> QED
  BY <1>1, <1>2, <1>5, SourceFrom

LEMMA ClosedJoin ==
    ASSUME NEW L, NEW M, Closed(L), Closed(M)
    PROVE  Closed(L \cup M)
<1>1. ASSUME NEW x \in L \cup M PROVE IsLine(x) /\ (x.op = "subckt" => x.body \in Seq(L \cup M))
  <2>1. ASSUME NEW b, b \in Seq(L) \/ b \in Seq(M) PROVE b \in Seq(L \cup M)
    BY <2>1, SeqMonotonic
  <2> QED
    BY <2>1 DEF Closed
<1> QED
  BY <1>1 DEF Closed

\* A call of process_items that works on such items.
IsCall(c, L) ==
    /\ c = [for |-> c.for, items |-> c.items, i |-> c.i, dir |-> c.dir]
    /\ c.items \in Seq(L)
    /\ c.i \in 1..Len(c.items) + 1

\* The calls that wait for another one are at an item of theirs.
LibStack(s, L) ==
    /\ s # <<>>
    /\ \E S : s \in Seq(S) /\ \A c \in S : IsCall(c, L)
    /\ \A k \in 1..Len(s) - 1 : s[k].i <= Len(s[k].items)

LEMMA CallJoin ==
    ASSUME NEW c, NEW L, NEW M, IsCall(c, L), L \subseteq M
    PROVE  IsCall(c, M)
<1>1. c.items \in Seq(M)
  BY SeqMonotonic DEF IsCall
<1> QED
  BY <1>1 DEF IsCall

LEMMA LibReplace ==
    ASSUME NEW s, NEW L, LibStack(s, L), NEW M, L \subseteq M, NEW c, IsCall(c, M)
    PROVE  LibStack(Append(Front(s), c), M)
<1> DEFINE r == Append(Front(s), c)
<1>1. PICK S : s \in Seq(S) /\ \A d \in S : IsCall(d, L)
  BY DEF LibStack
<1>2. s # <<>>
  BY DEF LibStack
<1>3. /\ r \in Seq(S \cup {c}) /\ Len(r) = Len(s)
      /\ \A i \in 1..Len(s) - 1 : r[i] = s[i]
  <2>1. /\ r \in Seq(S \cup {c})
        /\ Len(r) = Len(s)
        /\ DOMAIN r = 1..Len(s)
        /\ \A i \in 1..Len(s) - 1 : r[i] = s[i]
        /\ r[Len(s)] = c
    BY <1>1, <1>2, ReplaceTop, ZenonT(30)
  <2> QED
    BY <2>1
<1>4. Len(s) \in Nat \ {0}
  BY <1>1, <1>2, PopStack
<1> HIDE DEF r
<1>5. \A d \in S \cup {c} : IsCall(d, M)
  BY <1>1, CallJoin
<1>6. r # <<>>
  BY <1>3, <1>4
<1>7. \A k \in 1..Len(r) - 1 : r[k].i <= Len(r[k].items)
  BY <1>3 DEF LibStack
<1>8. LibStack(r, M)
  BY <1>3, <1>5, <1>6, <1>7 DEF LibStack
<1> QED
  BY <1>8 DEF r

LEMMA LibPush ==
    ASSUME NEW s, NEW L, LibStack(s, L), NEW M, L \subseteq M, NEW c, IsCall(c, M),
           Last(s).i <= Len(Last(s).items)
    PROVE  LibStack(Append(s, c), M)
<1> DEFINE r == Append(s, c)
<1>1. PICK S : s \in Seq(S) /\ \A d \in S : IsCall(d, L)
  BY DEF LibStack
<1>2. /\ r \in Seq(S \cup {c}) /\ Len(r) = Len(s) + 1 /\ Len(s) \in Nat
      /\ \A i \in 1..Len(s) : r[i] = s[i]
  BY <1>1, PushStack
<1>3. Last(s) = s[Len(s)]
  BY DEF Last
<1> HIDE DEF r
<1>5. \A d \in S \cup {c} : IsCall(d, M)
  BY <1>1, CallJoin
<1>6. r # <<>>
  BY <1>2
<1>7. ASSUME NEW k \in 1..Len(r) - 1 PROVE r[k].i <= Len(r[k].items)
  <2>1. k \in 1..Len(s) /\ (k \in 1..Len(s) - 1 \/ k = Len(s))
    BY <1>2
  <2>2. s[k].i <= Len(s[k].items)
    BY <1>3, <2>1 DEF LibStack
  <2> QED
    BY <1>2, <2>1, <2>2
<1>8. LibStack(r, M)
  BY <1>2, <1>5, <1>6, <1>7 DEF LibStack
<1> QED
  BY <1>8 DEF r

LEMMA LibPop ==
    ASSUME NEW s, NEW L, LibStack(s, L), Len(s) > 1
    PROVE  /\ LibStack(Front(s), L)
           /\ IsCall(s[Len(s) - 1], L)
           /\ s[Len(s) - 1].i <= Len(s[Len(s) - 1].items)
<1> DEFINE r == Front(s)
           n == Len(s)
<1>1. PICK S : s \in Seq(S) /\ \A d \in S : IsCall(d, L)
  BY DEF LibStack
<1>2. s # <<>>
  BY DEF LibStack
<1>3. /\ r \in Seq(S) /\ Len(r) = n - 1 /\ \A i \in 1..n - 1 : r[i] = s[i]
      /\ n \in Nat \ {0}
  BY <1>1, <1>2, PopStack
<1>4. n - 1 \in 1..n - 1 /\ n - 1 \in 1..n
  BY <1>3
<1>5. \A k \in 1..n - 1 : s[k].i <= Len(s[k].items)
  BY DEF LibStack
<1>6. s[n - 1] \in S
  BY <1>1, <1>4, ElementOfSeq
<1> HIDE DEF r, n
<1>7. r # <<>>
  BY <1>3, <1>4
<1>8. ASSUME NEW k \in 1..Len(r) - 1 PROVE r[k].i <= Len(r[k].items)
  <2>1. k \in 1..n - 1
    BY <1>3
  <2> QED
    BY <1>3, <1>5, <2>1
<1>9. LibStack(r, L)
  BY <1>1, <1>3, <1>7, <1>8 DEF LibStack
<1>10. IsCall(s[n - 1], L) /\ s[n - 1].i <= Len(s[n - 1].items)
  BY <1>1, <1>4, <1>5, <1>6
<1> QED
  BY <1>9, <1>10 DEF r, n

LEMMA LibTop ==
    ASSUME NEW s, NEW L, LibStack(s, L)
    PROVE  IsCall(Last(s), L) /\ s # <<>> /\ IsSequence(s)
<1>1. PICK S : s \in Seq(S) /\ \A d \in S : IsCall(d, L)
  BY DEF LibStack
<1>2. s # <<>>
  BY DEF LibStack
<1> QED
  BY <1>1, <1>2, PopStack, SequenceIs

\* The call at another place, with other items.
Moved(c, its, next) == [c EXCEPT !.items = its, !.i = next]

LEMMA MovedIs ==
    ASSUME NEW c, NEW L, IsCall(c, L), NEW its, NEW next
    PROVE  LET d == Moved(c, its, next)
           IN  /\ d = [for |-> c.for, items |-> its, i |-> next, dir |-> c.dir]
               /\ d = [for |-> d.for, items |-> d.items, i |-> d.i, dir |-> d.dir]
               /\ d.items = its /\ d.i = next
<1>1. PICK w, x, y, z : c = [for |-> w, items |-> x, i |-> y, dir |-> z]
  BY Zenon DEF IsCall
<1>2. Moved(c, its, next) = [for |-> w, items |-> its, i |-> next, dir |-> z]
  <2>1. PICK d : d = [c EXCEPT !.items = its, !.i = next]
    OBVIOUS
  <2>2. d = [for |-> w, items |-> its, i |-> next, dir |-> z]
    BY <1>1, <2>1
  <2> QED
    BY <2>1, <2>2, Zenon DEF Moved
<1>3. c.for = w /\ c.dir = z
  BY <1>1
<1> QED
  BY <1>2, <1>3

LEMMA MovedSame ==
    ASSUME NEW c, NEW L, IsCall(c, L), NEW its, NEW next
    PROVE  /\ [c EXCEPT !.items = its] = Moved(c, its, c.i)
           /\ [c EXCEPT !.i = next] = Moved(c, c.items, next)
<1>1. PICK w, x, y, z : c = [for |-> w, items |-> x, i |-> y, dir |-> z]
  BY Zenon DEF IsCall
<1>2. c.items = x /\ c.i = y
  BY <1>1
<1> QED
  BY <1>1, <1>2 DEF Moved

\* The items of a section instead of one item.
LEMMA SplicedType ==
    ASSUME NEW c, NEW L, IsCall(c, L), c.i <= Len(c.items), NEW its \in Seq(L)
    PROVE  LET d == [c EXCEPT !.items = Libs!Spliced(c, its)]
           IN  IsCall(d, L)
<1> DEFINE a == SubSeq(c.items, 1, c.i - 1)
           b == SubSeq(c.items, c.i + 1, Len(c.items))
           new == a \o its \o b
<1>1. c.items \in Seq(L) /\ c.i \in 1..Len(c.items) /\ Len(c.items) \in Nat
  <2>1. c.items \in Seq(L) /\ c.i \in 1..Len(c.items) + 1
    BY DEF IsCall
  <2>2. Len(c.items) \in Nat
    BY <2>1, LenProperties
  <2> QED
    BY <2>1, <2>2
<1>2. a \in Seq(L) /\ Len(a) = c.i - 1
  <2>1. c.i - 1 \in 0..Len(c.items) /\ 1 \in 1..Len(c.items) + 1
    BY <1>1
  <2>2. \A k \in 1..(c.i - 1) : k \in 1..Len(c.items)
    BY <1>1
  <2> QED
    BY <1>1, <2>1, <2>2, SubSeqProperties
<1>3. b \in Seq(L) /\ Len(b) \in Nat
  <2>1. c.i + 1 \in 1..Len(c.items) + 1 /\ Len(c.items) \in c.i..Len(c.items)
    BY <1>1
  <2>2. b \in Seq(L)
    BY <1>1, <2>1, SubSeqProperties
  <2> QED
    BY <2>2, LenProperties
<1>4. Len(its) \in Nat
  BY LenProperties
<1> HIDE DEF a, b
<1>5. a \o its \in Seq(L) /\ Len(a \o its) = Len(a) + Len(its)
  BY <1>2, ConcatProperties
<1>6. new \in Seq(L) /\ Len(new) = Len(a) + Len(its) + Len(b)
  BY <1>3, <1>5, ConcatProperties
<1>7. Libs!Spliced(c, its) = new
  BY DEF Libs!Spliced, a, b
<1> HIDE DEF new
<1>8. c.i \in 1..Len(new) + 1
  BY <1>1, <1>2, <1>3, <1>4, <1>6
<1>9. ASSUME NEW d, d = [c EXCEPT !.items = new] PROVE IsCall(d, L)
  <2>1. d = Moved(c, new, c.i)
    BY <1>9, MovedSame
  <2>2. d = [for |-> d.for, items |-> d.items, i |-> d.i, dir |-> d.dir]
        /\ d.items = new /\ d.i = c.i
    BY <2>1, MovedIs
  <2> QED
    BY <1>6, <1>8, <2>2 DEF IsCall
<1> QED
  BY <1>7, <1>9

\* The text operators are the same for the expander.
LEMMA LibsText ==
    /\ \A lines, name : Libs!LibSection(lines, name) = LibSection(lines, name)
    /\ \A s : Libs!Last(s) = Last(s) /\ Libs!Front(s) = Front(s)
<1>1. ASSUME NEW lines, NEW name PROVE Libs!LibSection(lines, name) = LibSection(lines, name)
  BY DEF Libs!LibSection, LibSection, Libs!FlattenSeq, FlattenSeq
<1>2. ASSUME NEW s PROVE Libs!Last(s) = Last(s) /\ Libs!Front(s) = Front(s)
  BY DEF Libs!Last, Libs!Front, Last, Front
<1> QED
  BY <1>1, <1>2

LEMMA LibsParsedType ==
    ASSUME NEW lines, IsSource(lines)
    PROVE  \E L : Closed(L) /\ Libs!Parsed(lines) \in Seq(L)
<1> DEFINE Body(f, i) == Libs!FlattenSeq([j \in DOMAIN lines |->
                IF lines[j].op = "ends" \/ Libs!Parent(lines, j) # i THEN <<>>
                ELSE IF lines[j].op = "subckt" THEN <<[lines[j] EXCEPT !.body = f[j]]>>
                ELSE <<lines[j]>>])
           Made(f) == f = [i \in 0..Len(lines) |-> Body(f, i)]
           g == CHOOSE f : Made(f)
<1>1. \A op, from, to : Libs!Count(lines, op, from, to) = Count(lines, op, from, to)
  BY DEF Libs!Count, Count, Libs!Cardinality, Cardinality
<1>2. \A j : Libs!Parent(lines, j) = Parent(lines, j)
  BY <1>1 DEF Libs!Parent, Parent, Libs!Around, Around, Libs!Max, Max
<1>3. \A s : Libs!FlattenSeq(s) = FlattenSeq(s)
  BY DEF Libs!FlattenSeq, FlattenSeq
<1>4. \A f, i : Body(f, i) = BodyOf(lines, f, i)
  BY <1>2, <1>3 DEF BodyOf
<1>5. Libs!Parsed(lines) = g[0]
  BY DEF Libs!Parsed
<1> HIDE DEF Body
<1>6. \A f : Made(f) <=> Bodies(lines, f)
  BY <1>4 DEF Bodies
<1>7. \E f : Made(f)
  BY <1>6, BodiesExist DEF IsSource
<1> HIDE DEF Made
<1>8. Made(g)
  BY <1>7
<1> QED
  BY <1>5, <1>6, <1>8, ItemsType

LEMMA ProcessCall ==
    ASSUME NEW L, NEW its \in Seq(L), NEW for, NEW dir
    PROVE  IsCall(Libs!Process(for, its, dir), L)
<1>1. Len(its) \in Nat
  BY LenProperties
<1> DEFINE c == [for |-> for, items |-> its, i |-> 1, dir |-> dir]
<1>2. c = [for |-> c.for, items |-> c.items, i |-> c.i, dir |-> c.dir] /\ c.items = its /\ c.i = 1
  OBVIOUS
<1> HIDE DEF c
<1>3. IsCall(c, L)
  BY <1>1, <1>2 DEF IsCall
<1> QED
  BY <1>3 DEF Libs!Process, c

\* A definition with its body replaced.
WithBody(c, its) == [c EXCEPT !.items = [@ EXCEPT ![c.i].body = its], !.i = @ + 1]

LEMMA BodyReplaced ==
    ASSUME NEW L, Closed(L), NEW c, IsCall(c, L), c.i <= Len(c.items), NEW its \in Seq(L),
           NEW d, d = WithBody(c, its)
    PROVE  \E M : L \subseteq M /\ Closed(M) /\ IsCall(d, M)
<1> DEFINE x == c.items[c.i]
           y == [x EXCEPT !.body = its]
           M == L \cup {y}
           new == [c.items EXCEPT ![c.i] = y]
<1>1. c.items \in Seq(L) /\ c.i \in 1..Len(c.items) /\ Len(c.items) \in Nat
      /\ DOMAIN c.items = 1..Len(c.items)
  <2>1. c.items \in Seq(L) /\ c.i \in 1..Len(c.items) + 1
    BY DEF IsCall
  <2>2. Len(c.items) \in Nat /\ DOMAIN c.items = 1..Len(c.items)
    BY <2>1, LenProperties
  <2> QED
    BY <2>1, <2>2
<1>2. x \in L /\ IsLine(x)
  BY <1>1, ElementOfSeq DEF Closed
<1>3. IsLine(y) /\ y.body = its
  <2> HIDE DEF x
  <2> QED
    BY <1>2, LineWith
<1>4. Closed(M)
  <2> HIDE DEF y
  <2>1. ASSUME NEW b \in Seq(L) PROVE b \in Seq(M)
    BY SeqMonotonic
  <2>2. ASSUME NEW z \in M PROVE IsLine(z) /\ (z.op = "subckt" => z.body \in Seq(M))
    <3>1. CASE z \in L
      BY <2>1, <3>1 DEF Closed
    <3>2. CASE z = y
      BY <1>3, <2>1, <3>2
    <3> QED
      BY <3>1, <3>2
  <2> HIDE DEF M
  <2> QED
    BY <2>2 DEF Closed
<1>5. new \in Seq(M) /\ Len(new) = Len(c.items)
  <2> DEFINE e(k) == IF k = c.i THEN y ELSE c.items[k]
             n == Len(c.items)
  <2>1. \A k \in 1..n : c.items[k] \in L
    BY <1>1, ElementOfSeq
  <2>2. \A k \in 1..n : e(k) \in M
    BY <2>1
  <2>3. c.items = [k \in 1..n |-> c.items[k]]
    BY <1>1, LenProperties
  <2>4. new = [k \in 1..n |-> e(k)]
    <3> HIDE DEF y
    <3> QED
      BY <2>3
  <2> HIDE DEF e, M, new
  <2>5. [k \in 1..n |-> e(k)] \in Seq(M) /\ n \in Nat
    BY <1>1, <2>2, IsASeq
  <2>6. Len([k \in 1..n |-> e(k)]) = n
    BY <2>5, LenProperties
  <2> QED
    BY <2>4, <2>5, <2>6
<1>6. d = Moved(c, new, c.i + 1)
  <2>1. PICK w, u, v, z : c = [for |-> w, items |-> u, i |-> v, dir |-> z]
    BY Zenon DEF IsCall
  <2>2. c.items = u /\ c.i = v /\ c.for = w /\ c.dir = z
    BY <2>1
  <2>3. d = [for |-> w, items |-> [u EXCEPT ![v].body = its], i |-> v + 1, dir |-> z]
    BY <2>1, <2>2 DEF WithBody
  <2>4. [u EXCEPT ![v].body = its] = new
    BY <2>2
  <2> DEFINE next == c.i + 1
  <2> HIDE DEF new, next
  <2>5. Moved(c, new, next) = [for |-> c.for, items |-> new, i |-> next, dir |-> c.dir]
    BY MovedIs
  <2> QED
    BY <2>2, <2>3, <2>4, <2>5 DEF next
<1> HIDE DEF new
<1>7. d = [for |-> d.for, items |-> d.items, i |-> d.i, dir |-> d.dir]
      /\ d.items = new /\ d.i = c.i + 1
  <2> DEFINE next == c.i + 1
  <2>1. d = Moved(c, new, next)
    BY <1>6
  <2> HIDE DEF next
  <2>2. d = [for |-> d.for, items |-> d.items, i |-> d.i, dir |-> d.dir]
        /\ d.items = new /\ d.i = next
    BY <2>1, MovedIs
  <2> QED
    BY <2>2 DEF next
<1>8. c.i + 1 \in 1..Len(new) + 1
  BY <1>1, <1>5
<1> HIDE DEF M
<1>9. IsCall(d, M)
  BY <1>5, <1>7, <1>8 DEF IsCall
<1>10. L \subseteq M
  BY DEF M
<1> QED
  BY <1>4, <1>9, <1>10

LEMMA LibsKeepTypes ==
    ASSUME project \in LibProjects, NEW L, Closed(L), LibStack(calls, L), Libs!Expand
    PROVE  \E M : Closed(M) /\ LibStack(calls', M)
<1> DEFINE top == Last(calls)
           it == top.items[top.i]
<1>1. Libs!Top = top /\ Libs!Item = it
  BY LibsText DEF Libs!Top, Libs!Item
<1>2. IsCall(top, L) /\ calls # <<>>
  BY LibTop
<1>3. ASSUME Libs!Working
      PROVE  top.i <= Len(top.items) /\ it \in L
  <2>1. top.items \in Seq(L) /\ top.i \in 1..Len(top.items) + 1
    BY <1>2 DEF IsCall
  <2>2. Len(top.items) \in Nat
    BY <2>1, LenProperties
  <2>3. ~ top.i > Len(top.items)
    BY <1>1, <1>3 DEF Libs!Working, Libs!Returns
  <2> HIDE DEF top
  <2>4. top.i \in 1..Len(top.items)
    BY <2>1, <2>2, <2>3
  <2> QED
    BY <2>1, <2>4, ElementOfSeq
<1> HIDE DEF top
<1>4. CASE Libs!Fail
  BY <1>4 DEF Libs!Fail
<1>5. CASE Libs!EnterSection
  <2> DEFINE text == LibSection(project.files[Libs!Path], it.name)
             new == Libs!Process("section", Libs!Parsed(text), Front(Libs!Path))
  <2>1. calls' = Append(calls, new) /\ Libs!Working /\ Libs!Path \in DOMAIN project.files
    BY <1>1, <1>5, LibsText DEF Libs!EnterSection, Libs!Text
  <2>2. IsSource(project.files[Libs!Path])
    BY <2>1, SourcesAssumption
  <2>3. IsSource(text)
    BY <2>2, SectionSource
  <2> HIDE DEF text
  <2>4. PICK M : Closed(M) /\ Libs!Parsed(text) \in Seq(M)
    BY <2>3, LibsParsedType
  <2> DEFINE N == L \cup M
  <2>5. Closed(N)
    BY <2>4, ClosedJoin
  <2>6. Libs!Parsed(text) \in Seq(N) /\ L \subseteq N
    BY <2>4, SeqMonotonic
  <2> HIDE DEF N
  <2>7. IsCall(new, N)
    BY <2>6, ProcessCall
  <2>8. Last(calls).i <= Len(Last(calls).items)
    BY <1>3, <2>1 DEF top
  <2> HIDE DEF new
  <2>9. LibStack(Append(calls, new), N)
    BY <2>6, <2>7, <2>8, LibPush
  <2> QED
    BY <2>1, <2>5, <2>9
<1>6. CASE Libs!EnterSubckt
  <2> DEFINE new == Libs!Process("subckt", it.body, top.dir)
  <2>1. calls' = Append(calls, new) /\ Libs!Working /\ it.op = "subckt"
    BY <1>1, <1>6 DEF Libs!EnterSubckt
  <2>2. it.body \in Seq(L)
    BY <1>3, <2>1 DEF Closed
  <2>3. IsCall(new, L)
    <3> HIDE DEF it
    <3> QED
      BY <2>2, ProcessCall
  <2>4. Last(calls).i <= Len(Last(calls).items)
    BY <1>3, <2>1 DEF top
  <2> HIDE DEF new
  <2>5. LibStack(Append(calls, new), L)
    BY <2>3, <2>4, LibPush
  <2> QED
    BY <2>1, <2>5
<1>7. CASE Libs!KeepItem
  <2>1. PICK d : d = [top EXCEPT !.i = @ + 1]
    OBVIOUS
  <2>2. calls' = Append(Front(calls), d) /\ Libs!Working
    BY <1>1, <1>7, <2>1, LibsText DEF Libs!KeepItem, Libs!Replace
  <2> DEFINE next == top.i + 1
  <2>3. d = Moved(top, top.items, next)
    <3>1. d = [top EXCEPT !.i = next]
      BY <2>1
    <3> HIDE DEF next
    <3> QED
      BY <1>2, <3>1, MovedSame
  <2> HIDE DEF next
  <2>4. d = [for |-> d.for, items |-> d.items, i |-> d.i, dir |-> d.dir]
        /\ d.items = top.items /\ d.i = next
    BY <1>2, <2>3, MovedIs
  <2>5. top.items \in Seq(L) /\ top.i \in 1..Len(top.items) + 1
    BY <1>2 DEF IsCall
  <2>6. Len(top.items) \in Nat
    BY <2>5, LenProperties
  <2>7. next \in 1..Len(top.items) + 1
    BY <1>3, <2>2, <2>5, <2>6 DEF next
  <2>8. IsCall(d, L)
    BY <2>4, <2>5, <2>7 DEF IsCall
  <2>9. LibStack(Append(Front(calls), d), L)
    BY <2>8, LibReplace
  <2> QED
    BY <2>2, <2>9
<1>8. CASE Libs!Return
  <2> DEFINE caller == calls[Len(calls) - 1]
  <2>1. Len(calls) > 1
    BY <1>8 DEF Libs!Return
  <2>2. /\ LibStack(Front(calls), L)
        /\ IsCall(caller, L) /\ caller.i <= Len(caller.items)
    BY <2>1, LibPop
  <2>3. top.items \in Seq(L)
    BY <1>2 DEF IsCall
  <2>4. calls' = Append(Front(Front(calls)),
            IF top.for = "section"
            THEN [caller EXCEPT !.items = Libs!Spliced(caller, top.items)]
            ELSE [caller EXCEPT !.items = [@ EXCEPT ![caller.i].body = top.items], !.i = @ + 1])
    BY <1>1, <1>8, LibsText DEF Libs!Return
  <2> HIDE DEF caller
  <2>5. CASE top.for = "section"
    <3> DEFINE d == [caller EXCEPT !.items = Libs!Spliced(caller, top.items)]
    <3>1. IsCall(d, L)
      BY <2>2, <2>3, SplicedType
    <3>2. calls' = Append(Front(Front(calls)), d)
      BY <2>4, <2>5
    <3> HIDE DEF d
    <3>3. LibStack(Append(Front(Front(calls)), d), L)
      BY <2>2, <3>1, LibReplace
    <3> QED
      BY <3>2, <3>3
  <2>6. CASE top.for # "section"
    <3>1. PICK d : d = WithBody(caller, top.items)
      OBVIOUS
    <3>2. calls' = Append(Front(Front(calls)), d)
      BY <2>4, <2>6, <3>1 DEF WithBody
    <3>3. PICK M : L \subseteq M /\ Closed(M) /\ IsCall(d, M)
      BY <2>2, <2>3, <3>1, BodyReplaced
    <3>4. LibStack(Append(Front(Front(calls)), d), M)
      BY <2>2, <3>3, LibReplace
    <3> QED
      BY <3>2, <3>3, <3>4
  <2> QED
    BY <2>5, <2>6
<1> QED
  BY <1>4, <1>5, <1>6, <1>7, <1>8 DEF Libs!Expand

-----------------------------------------------------------------------------
\* What preprocess_includes writes are lines.

LEMMA FirstIs ==
    ASSUME NEW S \in SUBSET Nat, S # {}
    PROVE  First(S) \in S /\ \A j \in S : First(S) <= j
BY LeastIndex DEF First

\* A section is lines of its file.
LEMMA BlockOf ==
    ASSUME NEW L, NEW lines \in Seq(L), NEW name, HasBlock(lines, name)
    PROVE  Block(lines, name) \in Seq(L) /\ name \in SectionNames(lines)
<1> DEFINE n == Len(lines)
           start == First(Starts(lines, name))
           end == First(EndsAfter(lines, name, start))
<1>1. n \in Nat /\ DOMAIN lines = 1..n /\ \A i \in 1..n : lines[i] \in L
  BY LenProperties, ElementOfSeq
<1>2. start \in Starts(lines, name)
  <2>1. Starts(lines, name) \in SUBSET Nat /\ Starts(lines, name) # {}
    BY <1>1 DEF Starts, HasBlock
  <2> QED
    BY <2>1, FirstIs
<1>3. start \in 1..n /\ name \in SectionNames(lines)
  BY <1>1, <1>2 DEF Starts, SectionNames
<1> HIDE DEF start
<1>4. end \in start + 1..n
  <2>1. EndsAfter(lines, name, start) \in SUBSET Nat
    <3>1. \A j \in start + 1..n : j \in Nat
      BY <1>1, <1>3
    <3> QED
      BY <3>1, Zenon DEF EndsAfter
  <2>2. EndsAfter(lines, name, start) # {}
    BY DEF HasBlock, start
  <2>3. end \in EndsAfter(lines, name, start)
    BY <2>1, <2>2, FirstIs
  <2> QED
    BY <2>3 DEF EndsAfter
<1> HIDE DEF end
<1>5. start + 1 \in Int /\ end - 1 \in Int /\ \A i \in start + 1..end - 1 : lines[i] \in L
  BY <1>1, <1>3, <1>4
<1>6. SubSeq(lines, start + 1, end - 1) \in Seq(L)
  BY <1>5, SubSeqProperties
<1> QED
  BY <1>3, <1>6 DEF Block, start, end

LEMMA BlockSource ==
    ASSUME NEW lines, IsSource(lines), NEW name, HasBlock(lines, name)
    PROVE  IsSource(Block(lines, name))
<1>1. lines \in Seq(ToSet(lines)) /\ \A x \in ToSet(lines) : IsLine(x)
  BY SourceLines
<1>2. Block(lines, name) \in Seq(ToSet(lines))
  BY <1>1, BlockOf
<1> QED
  BY <1>1, <1>2, SourceFrom

LEMMA SourceRest ==
    ASSUME NEW lines, IsSource(lines), lines # <<>>
    PROVE  IsLine(Head(lines)) /\ IsSource(Tail(lines))
<1>1. lines \in Seq(ToSet(lines)) /\ \A x \in ToSet(lines) : IsLine(x)
  BY SourceLines
<1>2. Head(lines) \in ToSet(lines) /\ Tail(lines) \in Seq(ToSet(lines))
  BY <1>1, HeadTailProperties
<1> QED
  BY <1>1, <1>2, SourceFrom

LEMMA SourceMore ==
    ASSUME NEW lines, IsSource(lines), NEW x, IsLine(x)
    PROVE  IsSource(Append(lines, x))
<1>1. lines \in Seq(ToSet(lines)) /\ \A y \in ToSet(lines) : IsLine(y)
  BY SourceLines
<1>2. Append(lines, x) \in Seq(ToSet(lines) \cup {x})
  BY <1>1, PushStack
<1> QED
  BY <1>1, <1>2, SourceFrom

\* The texts being expanded are lines.
Reads(s) == \E S : s \in Seq(S) /\ \A f \in S : IsText(f) /\ IsSource(f.todo)

LEMMA TextRest ==
    ASSUME NEW f, IsText(f), NEW t
    PROVE  LET g == [f EXCEPT !.todo = t] IN IsText(g) /\ g.todo = t
<1>1. PICK T : f \in [path : T, todo : T]
  BY DEF IsText
<1> DEFINE g == [f EXCEPT !.todo = t]
           U == T \cup {t}
<1>2. g \in [path : U, todo : U] /\ g.todo = t
  BY <1>1
<1> HIDE DEF U
<1>3. IsText(g)
  BY <1>2 DEF IsText
<1> QED
  BY <1>2, <1>3

LEMMA IncludesText ==
    /\ \A s : Includes!Last(s) = Last(s) /\ Includes!Front(s) = Front(s)
    /\ \A lines, name : Includes!Block(lines, name) = Block(lines, name)
    /\ \A lines, name : Includes!HasBlock(lines, name) = HasBlock(lines, name)
<1>1. ASSUME NEW s PROVE Includes!Last(s) = Last(s) /\ Includes!Front(s) = Front(s)
  BY DEF Includes!Last, Includes!Front, Last, Front
<1>2. ASSUME NEW S PROVE Includes!First(S) = First(S)
  BY DEF Includes!First, First
<1>3. ASSUME NEW lines, NEW name
      PROVE  /\ Includes!Starts(lines, name) = Starts(lines, name)
             /\ \A i : Includes!EndsAfter(lines, name, i) = EndsAfter(lines, name, i)
  BY DEF Includes!Starts, Starts, Includes!EndsAfter, EndsAfter
<1>4. ASSUME NEW lines, NEW name
      PROVE  /\ Includes!Block(lines, name) = Block(lines, name)
             /\ Includes!HasBlock(lines, name) = HasBlock(lines, name)
  BY <1>2, <1>3 DEF Includes!Block, Block, Includes!HasBlock, HasBlock
<1> QED
  BY <1>1, <1>4

LEMMA IncludesKeepLines ==
    ASSUME project \in IncludeProjects, Reads(texts), texts # <<>>, IsSource(out), Includes!Expand
    PROVE  Reads(texts') /\ texts' # <<>> /\ IsSource(out')
<1> DEFINE top == Last(texts)
           mid == Append(Front(texts), [top EXCEPT !.todo = Tail(@)])
<1>1. Includes!Top = top /\ Includes!Passed = mid /\ Includes!Item = Head(top.todo)
  BY IncludesText DEF Includes!Top, Includes!Passed, Includes!Item
<1>2. PICK S : texts \in Seq(S) /\ \A f \in S : IsText(f) /\ IsSource(f.todo)
  BY DEF Reads
<1>3. IsText(top) /\ IsSource(top.todo)
  BY <1>2, PopStack
<1> HIDE DEF top
<1>4. ASSUME top.todo # <<>> PROVE Reads(mid) /\ mid # <<>> /\ IsLine(Head(top.todo))
  <2>1. IsLine(Head(top.todo)) /\ IsSource(Tail(top.todo))
    BY <1>3, <1>4, SourceRest
  <2> DEFINE g == [top EXCEPT !.todo = Tail(@)]
  <2>2. IsText(g) /\ g.todo = Tail(top.todo)
    BY <1>3, TextRest
  <2> HIDE DEF g
  <2>3. /\ Append(Front(texts), g) \in Seq(S \cup {g})
        /\ Len(Append(Front(texts), g)) = Len(texts)
        /\ DOMAIN Append(Front(texts), g) = 1..Len(texts)
        /\ \A i \in 1..Len(texts) - 1 : Append(Front(texts), g)[i] = texts[i]
        /\ Append(Front(texts), g)[Len(texts)] = g
    BY <1>2, ReplaceTop, ZenonT(30)
  <2>4. mid = Append(Front(texts), g)
    BY DEF g
  <2>5. \A f \in S \cup {g} : IsText(f) /\ IsSource(f.todo)
    BY <1>2, <2>1, <2>2
  <2>6. Len(texts) \in Nat \ {0}
    BY <1>2, PopStack
  <2> HIDE DEF mid
  <2>7. mid \in Seq(S \cup {g}) /\ mid # <<>>
    BY <2>3, <2>4, <2>6
  <2> QED
    BY <2>1, <2>5, <2>7 DEF Reads
<1> HIDE DEF mid
<1>5. CASE Includes!FailDepth \/ Includes!FailLine
  <2>1. texts' = texts /\ out' = out
    BY <1>5 DEF Includes!FailDepth, Includes!FailLine
  <2> QED
    BY <2>1
<1>6. CASE Includes!EnterText
  <2> DEFINE section == Includes!Item.name
  <2>0. PICK target \in Includes!Targets :
            /\ Includes!IsThere(Includes!Lines(target), section)
            /\ texts' = Append(mid, Includes!Text(target, Includes!Part(Includes!Lines(target), section)))
    BY <1>1, <1>6 DEF Includes!EnterText
  <2> DEFINE lines == Includes!Lines(target)
             its == Includes!Part(lines, section)
             new == Includes!Text(target, its)
  <2>1. /\ texts' = Append(mid, new) /\ out' = out /\ top.todo # <<>>
        /\ its = lines \/ (its = Block(lines, section) /\ HasBlock(lines, section))
    BY <1>1, <1>6, <2>0, IncludesText
       DEF Includes!EnterText, Includes!IsThere, Includes!Part, Includes!Asks, Includes!Working
  <2>2. lines = project.files[Includes!File(target)] /\ Includes!File(target) \in DOMAIN project.files
    BY DEF Includes!Targets, Includes!Resolved, Includes!Exists, Includes!Lines
  <2>3. IsSource(lines)
    BY <2>2, SourcesAssumption
  <2>4. IsSource(its)
    <3> HIDE DEF lines
    <3> QED
      BY <2>1, <2>3, BlockSource
  <2> HIDE DEF its
  <2>5. IsText(new) /\ new.todo = its
    <3>1. new = [path |-> target, todo |-> its]
      BY DEF Includes!Text
    <3>2. IsText(new)
      BY TextFields
    <3> QED
      BY <3>1, <3>2
  <2> HIDE DEF new
  <2>6. PICK T : mid \in Seq(T) /\ \A f \in T : IsText(f) /\ IsSource(f.todo)
    BY <1>4, <2>1 DEF Reads
  <2>7. Append(mid, new) \in Seq(T \cup {new}) /\ Append(mid, new) # <<>>
    <3>1. Append(mid, new) \in Seq(T \cup {new}) /\ Len(Append(mid, new)) = Len(mid) + 1 /\ Len(mid) \in Nat
      BY <2>6, PushStack
    <3> QED
      BY <3>1
  <2>8. \A f \in T \cup {new} : IsText(f) /\ IsSource(f.todo)
    BY <2>4, <2>5, <2>6
  <2>9. Reads(Append(mid, new))
    BY <2>7, <2>8 DEF Reads
  <2> QED
    BY <2>1, <2>7, <2>9
<1>7. CASE Includes!DropMarker
  <2>1. texts' = mid /\ out' = out /\ top.todo # <<>>
    BY <1>1, <1>7 DEF Includes!DropMarker, Includes!Working
  <2> QED
    BY <1>4, <2>1
<1>8. CASE Includes!EmitLine
  <2>1. texts' = mid /\ out' = Append(out, Head(top.todo)) /\ top.todo # <<>>
    BY <1>1, <1>8 DEF Includes!EmitLine, Includes!Working
  <2> QED
    BY <1>4, <2>1, SourceMore
<1>9. CASE Includes!LeaveText
  <2>1. texts' = Front(texts) /\ out' = out /\ Len(texts) > 1
    BY <1>9, IncludesText DEF Includes!LeaveText
  <2>2. Front(texts) \in Seq(S) /\ Len(Front(texts)) = Len(texts) - 1
    BY <1>2, PopStack
  <2>3. Front(texts) # <<>>
    BY <2>1, <2>2
  <2> QED
    BY <1>2, <2>1, <2>2, <2>3 DEF Reads
<1> QED
  BY <1>5, <1>6, <1>7, <1>8, <1>9 DEF Includes!Expand

-----------------------------------------------------------------------------
\* Values of parameters.

LEMMA CallsText ==
    /\ \A s : Calls!Last(s) = Last(s) /\ Calls!Front(s) = Front(s) /\ Calls!ToSet(s) = ToSet(s)
    /\ \A S : Calls!Max(S) = Max(S)
    /\ \A s, t : Calls!IsPrefix(s, t) = IsPrefix(s, t)
<1>1. ASSUME NEW s
      PROVE  Calls!Last(s) = Last(s) /\ Calls!Front(s) = Front(s) /\ Calls!ToSet(s) = ToSet(s)
  BY DEF Calls!Last, Calls!Front, Calls!ToSet, Last, Front, ToSet
<1>2. ASSUME NEW S PROVE Calls!Max(S) = Max(S)
  BY DEF Calls!Max, Max
<1>3. ASSUME NEW s, NEW t PROVE Calls!IsPrefix(s, t) = IsPrefix(s, t)
  BY DEF Calls!IsPrefix, IsPrefix
<1> QED
  BY <1>1, <1>2, <1>3

LEMMA OverIs ==
    ASSUME NEW f, NEW g
    PROVE  /\ DOMAIN Calls!Over(f, g) = DOMAIN f \cup DOMAIN g
           /\ \A x \in DOMAIN f : Calls!Over(f, g)[x] = f[x]
           /\ \A x \in DOMAIN g \ DOMAIN f : Calls!Over(f, g)[x] = g[x]
BY DEF Calls!Over

LEMMA OverSame ==
    ASSUME NEW f, NEW g, NEW h, NEW k,
           DOMAIN Calls!Over(f, g) = DOMAIN Calls!Over(h, k),
           \A x \in DOMAIN Calls!Over(f, g) : Calls!Over(f, g)[x] = Calls!Over(h, k)[x]
    PROVE  Calls!Over(f, g) = Calls!Over(h, k)
BY DEF Calls!Over

LEMMA OverAgain ==
    ASSUME NEW f, NEW g, NEW h
    PROVE  Calls!Over(f, Calls!Over(g, h)) = Calls!Over(Calls!Over(f, g), h)
<1> DEFINE gh == Calls!Over(g, h)
           fg == Calls!Over(f, g)
           a == Calls!Over(f, gh)
           b == Calls!Over(fg, h)
<1>1. /\ DOMAIN gh = DOMAIN g \cup DOMAIN h
      /\ DOMAIN fg = DOMAIN f \cup DOMAIN g
      /\ \A x \in DOMAIN g : gh[x] = g[x]
      /\ \A x \in DOMAIN h \ DOMAIN g : gh[x] = h[x]
      /\ \A x \in DOMAIN f : fg[x] = f[x]
      /\ \A x \in DOMAIN g \ DOMAIN f : fg[x] = g[x]
  BY OverIs
<1> HIDE DEF gh, fg
<1>2. /\ DOMAIN a = DOMAIN f \cup DOMAIN gh
      /\ DOMAIN b = DOMAIN fg \cup DOMAIN h
      /\ \A x \in DOMAIN f : a[x] = f[x]
      /\ \A x \in DOMAIN gh \ DOMAIN f : a[x] = gh[x]
      /\ \A x \in DOMAIN fg : b[x] = fg[x]
      /\ \A x \in DOMAIN h \ DOMAIN fg : b[x] = h[x]
  BY OverIs
<1> HIDE DEF a, b
<1>3. DOMAIN a = DOMAIN b
  BY <1>1, <1>2
<1>4. ASSUME NEW x \in DOMAIN a PROVE a[x] = b[x]
  BY <1>1, <1>2
<1>5. a = b
  <2>1. \A x \in DOMAIN Calls!Over(f, gh) : Calls!Over(f, gh)[x] = Calls!Over(fg, h)[x]
    BY <1>4 DEF a, b
  <2>2. DOMAIN Calls!Over(f, gh) = DOMAIN Calls!Over(fg, h)
    BY <1>3 DEF a, b
  <2> QED
    BY <2>1, <2>2, OverSame DEF a, b
<1> QED
  BY <1>5 DEF a, b, gh, fg

\* The last of some places with a name.
LastPlace(s, P, x, i) == i \in P /\ s[i].name = x /\ \A j \in P : s[j].name = x => j <= i

LEMMA LatestIs ==
    ASSUME NEW s, NEW n \in Nat, NEW P, P \subseteq 1..n, NEW x, x \in Calls!NamesAt(s, P)
    PROVE  \E i : LastPlace(s, P, x, i) /\ Calls!Latest(s, P, x) = s[i]
<1> DEFINE S == {i \in P : s[i].name = x}
<1>1. S \in SUBSET (0..n) /\ S # {}
  <2>1. \A i \in P : i \in 0..n
    OBVIOUS
  <2> QED
    BY <2>1 DEF Calls!NamesAt
<1>2. Calls!Latest(s, P, x) = s[Max(S)]
  BY CallsText DEF Calls!Latest
<1> HIDE DEF S
<1>3. Max(S) \in S /\ \A j \in S : j <= Max(S)
  BY <1>1, MaxIn
<1>4. LastPlace(s, P, x, Max(S))
  BY <1>3 DEF S, LastPlace
<1> QED
  BY <1>2, <1>4

LEMMA LatestAt ==
    ASSUME NEW s, NEW n \in Nat, NEW P, P \subseteq 1..n, NEW x, NEW i, LastPlace(s, P, x, i)
    PROVE  Calls!Latest(s, P, x) = s[i]
<1>1. x \in Calls!NamesAt(s, P)
  BY DEF Calls!NamesAt, LastPlace
<1>2. PICK k : LastPlace(s, P, x, k) /\ Calls!Latest(s, P, x) = s[k]
  BY <1>1, LatestIs
<1>3. i <= k /\ k <= i /\ i \in Nat /\ k \in Nat
  BY <1>2 DEF LastPlace
<1>4. i = k
  BY <1>3
<1> QED
  BY <1>2, <1>4

\* What a list of parameters says up to the k-th.
Said(s, k) == [x \in Calls!NamesAt(s, 1..k) |-> Calls!Latest(s, 1..k, x).value]

LEMMA SaidNext ==
    ASSUME NEW s, NEW k \in Nat \ {0}, NEW f
    PROVE  Calls!Over(Said(s, k), f)
           = Calls!With(Calls!Over(Said(s, k - 1), f), s[k].name, s[k].value)
<1> DEFINE x == s[k].name
           one == [n \in {x} |-> s[k].value]
           before == Said(s, k - 1)
           now == Said(s, k)
<1>1. k \in 1..k /\ 1..(k - 1) \in SUBSET (1..k) /\ k - 1 \in Nat
      /\ \A i \in 1..k : i \in 1..(k - 1) \/ i = k
  OBVIOUS
<1>2. DOMAIN now = Calls!NamesAt(s, 1..k) /\ DOMAIN before = Calls!NamesAt(s, 1..(k - 1))
  BY DEF Said
<1>3. DOMAIN now = {x} \cup DOMAIN before
  BY <1>1, <1>2 DEF Calls!NamesAt
<1>4. now[x] = s[k].value
  <2>1. Calls!Latest(s, 1..k, x) = s[k]
    <3>1. 1..k \subseteq 1..k /\ \A j \in 1..k : j <= k
      OBVIOUS
    <3> HIDE DEF x
    <3>2. LastPlace(s, 1..k, x, k)
      BY <1>1, <3>1 DEF LastPlace, x
    <3> QED
      BY <3>1, <3>2, LatestAt
  <2>2. x \in Calls!NamesAt(s, 1..k)
    BY <1>1 DEF Calls!NamesAt
  <2> QED
    BY <2>1, <2>2 DEF Said
<1>5. ASSUME NEW y \in DOMAIN before, y # x PROVE now[y] = before[y]
  <2>1. PICK i : LastPlace(s, 1..(k - 1), y, i) /\ Calls!Latest(s, 1..(k - 1), y) = s[i]
    <3>1. 1..(k - 1) \subseteq 1..(k - 1)
      OBVIOUS
    <3> QED
      BY <1>1, <1>2, <3>1, LatestIs
  <2>2. LastPlace(s, 1..k, y, i)
    <3>1. s[k].name # y
      BY <1>5
    <3> QED
      BY <1>1, <2>1, <3>1 DEF LastPlace
  <2>3. Calls!Latest(s, 1..k, y) = s[i]
    <3>1. 1..k \subseteq 1..k
      OBVIOUS
    <3> QED
      BY <2>2, <3>1, LatestAt
  <2>4. y \in Calls!NamesAt(s, 1..k)
    BY <1>2, <1>3
  <2> QED
    BY <1>2, <2>1, <2>3, <2>4 DEF Said
<1>6. DOMAIN one = {x} /\ one[x] = s[k].value
  OBVIOUS
<1> DEFINE rest == Calls!Over(before, f)
           a == Calls!Over(now, f)
           b == Calls!Over(one, rest)
<1> HIDE DEF before, now, one, x
<1>7. /\ DOMAIN rest = DOMAIN before \cup DOMAIN f
      /\ \A y \in DOMAIN before : rest[y] = before[y]
      /\ \A y \in DOMAIN f \ DOMAIN before : rest[y] = f[y]
  BY OverIs
<1> HIDE DEF rest
<1>8. /\ DOMAIN a = DOMAIN now \cup DOMAIN f
      /\ DOMAIN b = DOMAIN one \cup DOMAIN rest
      /\ \A y \in DOMAIN now : a[y] = now[y]
      /\ \A y \in DOMAIN f \ DOMAIN now : a[y] = f[y]
      /\ \A y \in DOMAIN one : b[y] = one[y]
      /\ \A y \in DOMAIN rest \ DOMAIN one : b[y] = rest[y]
  BY OverIs
<1> HIDE DEF a, b
<1>9. DOMAIN a = DOMAIN b
  BY <1>3, <1>6, <1>7, <1>8
<1>10. ASSUME NEW y \in DOMAIN a PROVE a[y] = b[y]
  <2>1. CASE y = x
    BY <1>3, <1>4, <1>6, <1>8, <2>1
  <2>2. CASE y # x /\ y \in DOMAIN before
    BY <1>3, <1>5, <1>6, <1>7, <1>8, <2>2
  <2>3. CASE y # x /\ y \notin DOMAIN before
    BY <1>3, <1>6, <1>7, <1>8, <2>3
  <2> QED
    BY <2>1, <2>2, <2>3
<1>11. a = b
  <2>1. \A y \in DOMAIN Calls!Over(now, f) : Calls!Over(now, f)[y] = Calls!Over(one, rest)[y]
    BY <1>10 DEF a, b
  <2>2. DOMAIN Calls!Over(now, f) = DOMAIN Calls!Over(one, rest)
    BY <1>9 DEF a, b
  <2> QED
    BY <2>1, <2>2, OverSame DEF a, b
<1> QED
  BY <1>11 DEF a, b, rest, now, before, one, x, Calls!With

\* Nothing said changes nothing.
LEMMA SaidNone ==
    ASSUME NEW s, NEW f, f = [x \in DOMAIN f |-> f[x]]
    PROVE  Calls!Over(Said(s, 0), f) = f
<1> DEFINE none == Said(s, 0)
           a == Calls!Over(none, f)
<1>1. DOMAIN none = {}
  BY DEF Said, Calls!NamesAt
<1> HIDE DEF none
<1>2. DOMAIN a = DOMAIN f /\ \A x \in DOMAIN f : a[x] = f[x]
  BY <1>1, OverIs
<1>3. a = [x \in DOMAIN none \cup DOMAIN f |-> IF x \in DOMAIN none THEN none[x] ELSE f[x]]
  BY DEF Calls!Over
<1>4. a = [x \in DOMAIN f |-> f[x]]
  BY <1>1, <1>3
<1> QED
  BY <1>4 DEF none

\* What overriding parameters one after the other comes to.
Overrides(map, base, given, n) ==
    map = [k \in 0..n |-> IF k = 0 THEN base ELSE Calls!Override(map[k - 1], given[k])]

LEMMA OverridesExist ==
    ASSUME NEW base, NEW given, NEW n \in Nat
    PROVE  \E map : Overrides(map, base, given, n)
<1> DEFINE Bad == {m \in 0..n : ~ \E s : Overrides(s, base, given, m)}
<1> SUFFICES ASSUME Bad # {} PROVE FALSE
  OBVIOUS
<1>1. Bad \in SUBSET Nat
  OBVIOUS
<1>2. PICK m \in Bad : \A j \in Bad : m <= j
  <2> HIDE DEF Bad
  <2> QED
    BY <1>1, LeastIndex
<1>3. m \in 0..n /\ ~ \E s : Overrides(s, base, given, m)
  BY <1>2
<1>4. CASE m = 0
  <2> DEFINE s == [k \in 0..0 |-> base]
  <2>1. s = [k \in 0..0 |-> IF k = 0 THEN base ELSE Calls!Override(s[k - 1], given[k])]
    OBVIOUS
  <2> HIDE DEF s
  <2>2. Overrides(s, base, given, m)
    BY <1>4, <2>1 DEF Overrides
  <2> QED
    BY <1>3, <2>2
<1>5. CASE m # 0
  <2>1. m - 1 \in 0..n /\ ~ m <= m - 1 /\ m \in Nat
    BY <1>3, <1>5
  <2>2. PICK g : Overrides(g, base, given, m - 1)
    BY <1>2, <2>1
  <2> DEFINE last == Calls!Override(g[m - 1], given[m])
             s == [k \in 0..m |-> IF k = m THEN last ELSE g[k]]
  <2>3. ASSUME NEW k \in 0..m
        PROVE  s[k] = IF k = 0 THEN base ELSE Calls!Override(s[k - 1], given[k])
    <3>1. CASE k = m
      <4>1. k # 0 /\ m - 1 \in 0..m /\ m - 1 # m
        BY <1>5, <2>1, <3>1
      <4>2. s[m - 1] = g[m - 1]
        BY <4>1
      <4> QED
        BY <3>1, <4>1, <4>2
    <3>2. CASE k # m
      <4>1. k \in 0..(m - 1) /\ (k # 0 => k - 1 \in 0..m /\ k - 1 # m)
        BY <2>1, <3>2
      <4>2. g[k] = IF k = 0 THEN base ELSE Calls!Override(g[k - 1], given[k])
        BY <2>2, <4>1 DEF Overrides
      <4>3. k # 0 => s[k - 1] = g[k - 1]
        BY <4>1
      <4> QED
        BY <3>2, <4>2, <4>3
    <3> QED
      BY <3>1, <3>2
  <2>4. s = [k \in 0..m |-> s[k]]
    OBVIOUS
  <2> HIDE DEF s
  <2>5. Overrides(s, base, given, m)
    BY <2>3, <2>4 DEF Overrides
  <2> QED
    BY <1>3, <2>5
<1> QED
  BY <1>4, <1>5

\* Where numbers are given for all parameters, they are what is said.
LEMMA OverriddenIs ==
    ASSUME NEW base, base = [x \in DOMAIN base |-> base[x]],
           NEW given, Len(given) \in Nat,
           \A k \in 1..Len(given) : given[k].value \in Literals
    PROVE  Calls!Overridden(base, given) = Calls!Over(Said(given, Len(given)), base)
<1> DEFINE n == Len(given)
           map == CHOOSE s : Overrides(s, base, given, n)
<1>1. Overrides(map, base, given, n)
  BY OverridesExist
<1>2. Calls!Overridden(base, given) = map[n]
  BY DEF Calls!Overridden, Overrides
<1> HIDE DEF map
<1> DEFINE Bad == {k \in 0..n : map[k] # Calls!Over(Said(given, k), base)}
<1>3. \A k \in 0..n : map[k] = IF k = 0 THEN base ELSE Calls!Override(map[k - 1], given[k])
  BY <1>1 DEF Overrides
<1>4. Bad = {}
  <2> SUFFICES ASSUME Bad # {} PROVE FALSE
    OBVIOUS
  <2>1. Bad \in SUBSET Nat
    OBVIOUS
  <2>2. PICK k \in Bad : \A j \in Bad : k <= j
    <3> HIDE DEF Bad
    <3> QED
      BY <2>1, LeastIndex
  <2>3. k \in 0..n /\ map[k] # Calls!Over(Said(given, k), base)
    BY <2>2
  <2>4. k # 0
    <3>1. Calls!Over(Said(given, 0), base) = base
      BY SaidNone
    <3> QED
      BY <1>3, <2>3, <3>1
  <2>5. k - 1 \in 0..n /\ ~ k <= k - 1 /\ k \in 1..n /\ k \in Nat \ {0}
    BY <2>3, <2>4
  <2>6. map[k - 1] = Calls!Over(Said(given, k - 1), base)
    BY <2>2, <2>5
  <2>7. map[k] = Calls!Override(map[k - 1], given[k])
    BY <1>3, <2>3, <2>4
  <2>8. given[k].value \in Literals
    BY <2>5
  <2>9. Calls!Override(map[k - 1], given[k]) = Calls!With(map[k - 1], given[k].name, given[k].value)
    BY <2>8 DEF Calls!Override
  <2>10. Calls!Over(Said(given, k), base)
         = Calls!With(Calls!Over(Said(given, k - 1), base), given[k].name, given[k].value)
    BY <2>5, SaidNext
  <2> QED
    BY <2>3, <2>6, <2>7, <2>9, <2>10
<1>5. n \in 0..n
  OBVIOUS
<1> QED
  BY <1>2, <1>4, <1>5

\* A function of numbers.
IsNumbers(f) == f = [x \in DOMAIN f |-> f[x]] /\ \A x \in DOMAIN f : f[x] \in Literals

LEMMA NumbersAre ==
    ASSUME NEW s, NEW n \in Nat, NEW P, P \subseteq 1..n
    PROVE  IsNumbers(Calls!Numbers(s, P))
<1> DEFINE known == {i \in P : s[i].value \in Literals}
           f == Calls!Numbers(s, P)
<1>1. f = [x \in Calls!NamesAt(s, known) |-> Calls!Latest(s, known, x).value]
  BY DEF Calls!Numbers
<1>2. known \subseteq 1..n
  OBVIOUS
<1>3. \A i \in known : s[i].value \in Literals
  OBVIOUS
<1> HIDE DEF known, f
<1>4. DOMAIN f = Calls!NamesAt(s, known) /\ f = [x \in DOMAIN f |-> f[x]]
  BY <1>1
<1>5. ASSUME NEW x \in DOMAIN f PROVE f[x] \in Literals
  <2>1. PICK i : LastPlace(s, known, x, i) /\ Calls!Latest(s, known, x) = s[i]
    BY <1>2, <1>4, LatestIs
  <2>2. i \in known
    BY <2>1 DEF LastPlace
  <2>3. f[x] = s[i].value
    BY <1>1, <1>4, <2>1
  <2> QED
    BY <1>3, <2>2, <2>3
<1>6. IsNumbers(f)
  BY <1>4, <1>5 DEF IsNumbers
<1> QED
  BY <1>6 DEF f

LEMMA OverNumbers ==
    ASSUME NEW f, NEW g, IsNumbers(f), IsNumbers(g)
    PROVE  IsNumbers(Calls!Over(f, g))
<1> DEFINE h == Calls!Over(f, g)
<1>1. h = [x \in DOMAIN h |-> h[x]]
  BY DEF Calls!Over
<1>2. /\ DOMAIN h = DOMAIN f \cup DOMAIN g
      /\ \A x \in DOMAIN f : h[x] = f[x]
      /\ \A x \in DOMAIN g \ DOMAIN f : h[x] = g[x]
  BY OverIs
<1> HIDE DEF h
<1>3. IsNumbers(h)
  BY <1>1, <1>2 DEF IsNumbers
<1> QED
  BY <1>3 DEF h

\* A name is looked for in the parameters, then in those of the netlist.
LEMMA ValuedTwice ==
    ASSUME NEW f, IsNumbers(f), NEW g, NEW e
    PROVE  Calls!Valued(Calls!Valued(e, f), g) = Calls!Valued(e, Calls!Over(f, g))
<1> DEFINE h == Calls!Over(f, g)
<1>1. /\ DOMAIN h = DOMAIN f \cup DOMAIN g
      /\ \A x \in DOMAIN f : h[x] = f[x]
      /\ \A x \in DOMAIN g \ DOMAIN f : h[x] = g[x]
  BY OverIs
<1> HIDE DEF h
<1>2. \A x \in DOMAIN f : f[x] \in Literals
  BY DEF IsNumbers
<1>3. Calls!Valued(Calls!Valued(e, f), g) = Calls!Valued(e, h)
  <2>1. CASE e \in DOMAIN f \ Literals
    BY <1>1, <1>2, <2>1 DEF Calls!Valued
  <2>2. CASE e \in Literals
    BY <2>2 DEF Calls!Valued
  <2>3. CASE e \notin DOMAIN f /\ e \notin Literals
    BY <1>1, <2>3 DEF Calls!Valued
  <2> QED
    BY <2>1, <2>2, <2>3
<1> QED
  BY <1>3 DEF h

\* What is worked out with the parameters of a call, and at the end with those of the
\* netlist, is what its scope says.
Agree(base, scope, globally) ==
    \A e : Calls!Valued(Calls!Valued(e, base), globally) = Calls!Valued(e, scope)

LEMMA AgreeNumbers ==
    ASSUME NEW f, IsNumbers(f), NEW globally
    PROVE  Agree(f, Calls!Over(f, globally), globally)
BY ValuedTwice DEF Agree

LEMMA GivenIs ==
    ASSUME NEW x, x = Calls!Item, IsLine(x)
    PROVE  LET given == Calls!Given
           IN  /\ Len(x.params) \in Nat /\ DOMAIN x.params = 1..Len(x.params)
               /\ DOMAIN given = 1..Len(x.params) /\ Len(given) = Len(x.params)
               /\ \A i \in 1..Len(x.params) :
                     /\ given[i].name = x.params[i].name
                     /\ given[i].value = Calls!Valued(x.params[i].value, Calls!Top.params)
<1> DEFINE ps == x.params
           n == Len(ps)
           given == Calls!Given
           G(i) == [ps[i] EXCEPT !.value = Calls!Valued(@, Calls!Top.params)]
<1>1. n \in Nat /\ DOMAIN ps = 1..n /\ \A i \in 1..n : ps[i] = Is(ps[i].name, ps[i].value)
  BY SequenceIs DEF IsLine, IsSequence
<1>2. given = [i \in 1..n |-> G(i)]
  BY <1>1 DEF Calls!Given, Calls!Resolved
<1>3. ASSUME NEW i \in 1..n
      PROVE  G(i).name = ps[i].name /\ G(i).value = Calls!Valued(ps[i].value, Calls!Top.params)
  <2>1. PICK a, b : ps[i] = [name |-> a, value |-> b]
    BY <1>1 DEF Is
  <2> HIDE DEF ps
  <2> QED
    BY <2>1
<1> HIDE DEF G
<1>4. given \in Seq({G(i) : i \in 1..n})
  <2>1. \A i \in 1..n : G(i) \in {G(j) : j \in 1..n}
    OBVIOUS
  <2> HIDE DEF ps, n
  <2> QED
    BY <1>1, <1>2, <2>1, IsASeq
<1>5. Len(given) = n /\ DOMAIN given = 1..n
  BY <1>1, <1>2, <1>4, LenProperties
<1> QED
  BY <1>1, <1>2, <1>3, <1>5

\* A call whose overrides the caller can work out gives the elements of the body what
\* it says.
LEMMA CallAgrees ==
    ASSUME NEW x, x = Calls!Item, IsLine(x), NEW c, c = Calls!Callee, IsLine(c), IsSequence(c.body),
           Agree(Calls!Top.params, Calls!Top.scope, frames[1].scope),
           Calls!AllNumbers(Calls!Given, DOMAIN Calls!Given)
    PROVE  Agree(Calls!CallParams, Calls!CallScope, frames[1].scope)
<1> DEFINE n == Len(x.params)
           globally == frames[1].scope
           given == Calls!Given
           said == [m \in Calls!NamesAt(x.params, DOMAIN x.params) |->
                       Calls!Worth(Calls!Latest(x.params, DOMAIN x.params, m).value)]
           nums == Calls!BodyNumbers
           defs == Calls!Defaults
<1>1. /\ n \in Nat /\ DOMAIN x.params = 1..n /\ DOMAIN given = 1..n /\ Len(given) = n
      /\ \A i \in 1..n : /\ given[i].name = x.params[i].name
                         /\ given[i].value = Calls!Valued(x.params[i].value, Calls!Top.params)
  BY GivenIs
<1>2. \A i \in 1..n : given[i].value \in Literals
  BY <1>1 DEF Calls!AllNumbers
<1>3. IsNumbers(nums)
  <2>1. Len(c.body) \in Nat /\ DOMAIN c.body = 1..Len(c.body)
    BY SequenceIs DEF IsSequence
  <2>2. Calls!BodyParams \subseteq 1..Len(c.body)
    BY <2>1 DEF Calls!BodyParams, Calls!Of
  <2> QED
    BY <2>1, <2>2, NumbersAre DEF Calls!BodyNumbers
<1>4. IsNumbers(defs)
  <2>1. Len(c.params) \in Nat /\ DOMAIN c.params = 1..Len(c.params)
    BY SequenceIs DEF IsLine, IsSequence
  <2>2. DOMAIN c.params \subseteq 1..Len(c.params)
    BY <2>1
  <2> QED
    BY <2>1, <2>2, NumbersAre DEF Calls!Defaults
<1> HIDE DEF given, nums, defs, n
<1>5. 1..n \subseteq 1..n
  OBVIOUS
<1>6. said = Said(given, n)
  <2>1. Calls!NamesAt(x.params, 1..n) = Calls!NamesAt(given, 1..n)
    BY <1>1 DEF Calls!NamesAt
  <2>2. ASSUME NEW m \in Calls!NamesAt(given, 1..n)
        PROVE  Calls!Worth(Calls!Latest(x.params, 1..n, m).value)
               = Calls!Latest(given, 1..n, m).value
    <3>1. PICK i : LastPlace(given, 1..n, m, i) /\ Calls!Latest(given, 1..n, m) = given[i]
      BY <1>1, <1>5, LatestIs
    <3>2. i \in 1..n /\ LastPlace(x.params, 1..n, m, i)
      BY <1>1, <3>1 DEF LastPlace
    <3>3. Calls!Latest(x.params, 1..n, m) = x.params[i]
      <4> DEFINE ps == x.params
      <4> HIDE DEF ps
      <4>1. n \in Nat /\ LastPlace(ps, 1..n, m, i)
        BY <1>1, <3>2 DEF ps
      <4>2. Calls!Latest(ps, 1..n, m) = ps[i]
        BY <1>5, <4>1, LatestAt
      <4> QED
        BY <4>2 DEF ps
    <3> DEFINE v == x.params[i].value
               w == given[i].value
    <3>4. w = Calls!Valued(v, Calls!Top.params) /\ w \in Literals
      BY <1>1, <1>2, <3>2
    <3> HIDE DEF v, w
    <3>5. Calls!Valued(w, globally) = Calls!Valued(v, Calls!Top.scope)
      BY <3>4 DEF Agree
    <3>6. Calls!Valued(w, globally) = w
      BY <3>4 DEF Calls!Valued
    <3>7. Calls!Worth(v) = w
      BY <3>5, <3>6 DEF Calls!Worth
    <3> QED
      BY <3>1, <3>3, <3>7 DEF v, w
  <2>3. said = [m \in Calls!NamesAt(given, 1..n) |-> Calls!Worth(Calls!Latest(x.params, 1..n, m).value)]
    BY <1>1, <2>1
  <2> HIDE DEF said
  <2> QED
    BY <2>2, <2>3 DEF Said
<1> DEFINE own == Calls!Over(said, defs)
           f == Calls!Over(nums, own)
<1>7. Calls!CallParams = f
  <2>1. defs = [m \in DOMAIN defs |-> defs[m]]
    BY <1>4 DEF IsNumbers
  <2>2. Calls!Overridden(defs, given) = Calls!Over(Said(given, n), defs)
    BY <1>1, <1>2, <2>1, OverriddenIs
  <2> HIDE DEF said
  <2> QED
    BY <1>6, <2>2 DEF Calls!CallParams, nums, defs, given
<1>8. Calls!CallScope = Calls!Over(nums, Calls!Over(said, Calls!Over(defs, globally)))
  BY DEF Calls!CallScope, nums, defs
<1>9. IsNumbers(said)
  <2>1. said = [m \in DOMAIN said |-> said[m]]
    OBVIOUS
  <2>2. DOMAIN said = Calls!NamesAt(given, 1..n)
        /\ \A m \in DOMAIN said : said[m] = Calls!Latest(given, 1..n, m).value
    BY <1>6 DEF Said
  <2> HIDE DEF said
  <2>3. ASSUME NEW m \in DOMAIN said PROVE said[m] \in Literals
    <3>1. PICK i : LastPlace(given, 1..n, m, i) /\ Calls!Latest(given, 1..n, m) = given[i]
      <4>1. m \in Calls!NamesAt(given, 1..n) /\ n \in Nat
        BY <1>1, <2>2
      <4> QED
        BY <1>5, <4>1, LatestIs
    <3>2. i \in 1..n
      BY <3>1 DEF LastPlace
    <3> QED
      BY <1>2, <2>2, <3>1, <3>2
  <2> QED
    BY <2>1, <2>3 DEF IsNumbers
<1> HIDE DEF said, globally
<1>10. Calls!CallScope = Calls!Over(f, globally)
  <2>1. Calls!Over(said, Calls!Over(defs, globally)) = Calls!Over(own, globally)
    BY OverAgain
  <2> HIDE DEF own
  <2>2. Calls!Over(nums, Calls!Over(own, globally)) = Calls!Over(Calls!Over(nums, own), globally)
    BY OverAgain
  <2> QED
    BY <1>8, <2>1, <2>2
<1>11. IsNumbers(own)
  BY <1>4, <1>9, OverNumbers
<1> HIDE DEF own
<1>12. IsNumbers(f)
  BY <1>3, <1>11, OverNumbers
<1> HIDE DEF f
<1>13. Agree(f, Calls!Over(f, globally), globally)
  BY <1>12, AgreeNumbers
<1> QED
  BY <1>7, <1>10, <1>13 DEF globally

-----------------------------------------------------------------------------
\* Nets and models of instances.

\* A net of the netlist that it writes, or an inner net of an instance around the path.
NetInside(net, path, written) ==
    /\ IsSequence(net) /\ net # <<>>
    /\ IF Len(net) = 1 THEN net[1] \in written ELSE IsPrefix(Front(net), path)

Written(its) == (UNION {ToSet(item.nets) : item \in ToSet(its)}) \cup {"0"}

LEMMA NetOne ==
    ASSUME NEW written, NEW net \in written, NEW path
    PROVE  NetInside(<<net>>, path, written)
<1>1. <<net>> \in Seq(written) /\ Len(<<net>>) = 1 /\ <<net>>[1] = net /\ <<net>> # <<>>
  OBVIOUS
<1>2. IsSequence(<<net>>)
  BY <1>1, SequenceIs
<1> QED
  BY <1>1, <1>2 DEF NetInside

LEMMA NamePrefix ==
    ASSUME NEW path, IsSequence(path), NEW x
    PROVE  LET p == Append(path, x)
           IN  /\ IsSequence(p) /\ Len(p) = Len(path) + 1 /\ Len(path) \in Nat
               /\ p # <<>> /\ Front(p) = path /\ IsPrefix(path, p) /\ IsPrefix(path, path)
<1> DEFINE p == Append(path, x)
           n == Len(path)
           S == ToSet(path)
<1>1. path \in Seq(S)
  BY DEF IsSequence
<1> HIDE DEF S
<1>2. /\ p \in Seq(S \cup {x}) /\ n \in Nat /\ Len(p) = n + 1
      /\ DOMAIN p = 1..n + 1
      /\ \A i \in 1..n : p[i] = path[i]
      /\ path = [i \in 1..n |-> path[i]]
  BY <1>1, PushStack, LenProperties
<1> HIDE DEF p, n
<1>3. IsSequence(p) /\ p # <<>>
  <2>1. IsSequence(p)
    BY <1>2, SequenceIs
  <2>2. p # <<>>
    BY <1>2
  <2> QED
    BY <2>1, <2>2
<1>4. Front(p) = path
  <2>1. Front(p) = [i \in 1..n |-> p[i]]
    <3>1. Len(p) - 1 = n
      BY <1>2
    <3> QED
      BY <3>1 DEF Front
  <2> QED
    BY <1>2, <2>1
<1>5. IsPrefix(path, p) /\ IsPrefix(path, path)
  <2>1. SubSeq(path, 1, n) = SubSeq(p, 1, n)
    <3>1. SubSeq(path, 1, n) = [i \in 1..n |-> path[i]]
      BY <1>1, <1>2, SubSeqProperties DEF n
    <3>2. SubSeq(p, 1, n) = [i \in 1..n |-> p[i]]
      BY <1>2
    <3> QED
      BY <1>2, <3>1, <3>2
  <2> QED
    BY <1>2, <2>1 DEF IsPrefix, n
<1> QED
  BY <1>2, <1>3, <1>4, <1>5 DEF p, n

LEMMA NetHere ==
    ASSUME NEW path, IsSequence(path), path # <<>>, NEW x, NEW written
    PROVE  NetInside(Append(path, x), path, written)
<1> DEFINE p == Append(path, x)
<1>1. /\ IsSequence(p) /\ Len(p) = Len(path) + 1 /\ Len(path) \in Nat
      /\ p # <<>> /\ Front(p) = path /\ IsPrefix(path, path)
  BY NamePrefix
<1>2. Len(path) # 0
  BY EmptySeq DEF IsSequence
<1> HIDE DEF p
<1>3. Len(p) # 1
  BY <1>1, <1>2
<1>4. NetInside(p, path, written)
  BY <1>1, <1>3 DEF NetInside
<1> QED
  BY <1>4 DEF p

LEMMA PrefixLonger ==
    ASSUME NEW s, NEW path, IsSequence(path), NEW x, Len(s) \in Nat, IsPrefix(s, path)
    PROVE  IsPrefix(s, Append(path, x))
<1> DEFINE p == Append(path, x)
           n == Len(path)
           m == Len(s)
<1>1. /\ n \in Nat /\ Len(p) = n + 1
      /\ \A i \in 1..n : p[i] = path[i]
  <2>1. path \in Seq(ToSet(path))
    BY DEF IsSequence
  <2> QED
    BY <2>1, PushStack
<1>2. m \in Nat /\ m <= n /\ SubSeq(s, 1, m) = SubSeq(path, 1, m)
  BY DEF IsPrefix
<1>3. SubSeq(p, 1, m) = SubSeq(path, 1, m)
  <2>1. SubSeq(p, 1, m) = [i \in 1..m |-> p[i]] /\ SubSeq(path, 1, m) = [i \in 1..m |-> path[i]]
    <3> HIDE DEF p, m
    <3> QED
      BY DEF m
  <2> HIDE DEF p, n, m
  <2>2. \A i \in 1..m : p[i] = path[i]
    BY <1>1, <1>2
  <2> QED
    BY <2>1, <2>2
<1> HIDE DEF p
<1>4. m <= Len(p)
  BY <1>1, <1>2
<1>5. IsPrefix(s, p)
  BY <1>2, <1>3, <1>4 DEF IsPrefix
<1> QED
  BY <1>5 DEF p

LEMMA NetDeeper ==
    ASSUME NEW path, IsSequence(path), NEW x, NEW written, NEW net, NetInside(net, path, written)
    PROVE  NetInside(net, Append(path, x), written)
<1>1. net \in Seq(ToSet(net)) /\ net # <<>>
  BY DEF NetInside, IsSequence
<1>2. Len(Front(net)) \in Nat
  <2>1. Len(Front(net)) = Len(net) - 1 /\ Len(net) \in Nat \ {0}
    BY <1>1, PopStack
  <2> QED
    BY <2>1
<1>3. IsPrefix(Front(net), path) => IsPrefix(Front(net), Append(path, x))
  BY <1>2, PrefixLonger
<1> QED
  BY <1>3 DEF NetInside

-----------------------------------------------------------------------------
\* The calls of flatten_netlist.

IsFrame(f) ==
    f = [path |-> f.path, todo |-> f.todo, nodes |-> f.nodes, params |-> f.params,
         defs |-> f.defs, models |-> f.models, items |-> f.items, globals |-> f.globals,
         scope |-> f.scope, sound |-> f.sound]

\* A call works on items, its ports are on nets around its instance, and its parameters
\* say what its scope says.
FrameOK(f, L, written, globally) ==
    /\ IsFrame(f)
    /\ f.todo \in Seq(L)
    /\ \A n \in DOMAIN f.defs : f.defs[n] \in L /\ f.defs[n].op = "subckt"
    /\ IsSequence(f.path)
    /\ \A p \in DOMAIN f.nodes : NetInside(f.nodes[p], f.path, written)
    /\ f.sound => Agree(f.params, f.scope, globally)

\* The first of them is the netlist's.
FirstOK(f, written, globally) ==
    /\ f.path = <<>> /\ f.models = {}
    /\ written = Written(f.items) /\ globally = f.scope
    /\ f.globals \subseteq written
    /\ \A i \in 1..Len(f.todo) : ToSet(f.todo[i].nets) \subseteq written

FrameStack(s, L, written, globally) ==
    /\ s # <<>>
    /\ \E S : s \in Seq(S) /\ \A f \in S : FrameOK(f, L, written, globally)
    /\ FirstOK(s[1], written, globally)
    /\ \A k \in 2..Len(s) : s[k].path # <<>>

\* The model of that name is still to be hoisted by one of the calls.
AwaitsIn(f, p) == \E i \in 1..Len(f.todo) : f.todo[i].op = "model" /\ p = Append(f.path, f.todo[i].name)
Awaits(s, p) == \E k \in 1..Len(s) : AwaitsIn(s[k], p)

Advanced(f) == [f EXCEPT !.todo = Tail(@)]

LEMMA AdvancedIs ==
    ASSUME NEW f, IsFrame(f)
    PROVE  LET g == Advanced(f)
           IN  /\ IsFrame(g) /\ g.todo = Tail(f.todo)
               /\ g.path = f.path /\ g.nodes = f.nodes /\ g.params = f.params
               /\ g.defs = f.defs /\ g.models = f.models /\ g.items = f.items
               /\ g.globals = f.globals /\ g.scope = f.scope /\ g.sound = f.sound
<1> DEFINE Frame10(a, b, c, d, e, h, i, j, k, l) ==
        [path |-> a, todo |-> b, nodes |-> c, params |-> d, defs |-> e, models |-> h,
         items |-> i, globals |-> j, scope |-> k, sound |-> l]
<1>1. PICK a, b, c, d, e, h, i, j, k, l : f = Frame10(a, b, c, d, e, h, i, j, k, l)
  BY Zenon DEF IsFrame
<1> DEFINE g == Advanced(f)
<1>2. f.path = a /\ f.todo = b /\ f.nodes = c /\ f.params = d /\ f.defs = e /\ f.models = h
      /\ f.items = i /\ f.globals = j /\ f.scope = k /\ f.sound = l
  BY <1>1
<1>3. g = Frame10(a, Tail(b), c, d, e, h, i, j, k, l)
  <2> DEFINE t == Tail(f.todo)
  <2>1. g = [f EXCEPT !.todo = t]
    BY DEF Advanced
  <2>2. t = Tail(b)
    BY <1>2
  <2> HIDE DEF t, g
  <2>3. g = Frame10(a, t, c, d, e, h, i, j, k, l)
    BY <1>1, <2>1
  <2> QED
    BY <2>2, <2>3
<1> HIDE DEF g
<1>4. g.path = a /\ g.todo = Tail(b) /\ g.nodes = c /\ g.params = d /\ g.defs = e /\ g.models = h
      /\ g.items = i /\ g.globals = j /\ g.scope = k /\ g.sound = l
  BY <1>3
<1>5. IsFrame(g)
  BY <1>3, <1>4 DEF IsFrame
<1> QED
  BY <1>2, <1>4, <1>5 DEF g

LEMMA FrameTop ==
    ASSUME NEW s, NEW L, NEW written, NEW globally, FrameStack(s, L, written, globally)
    PROVE  /\ FrameOK(Last(s), L, written, globally)
           /\ Last(s) = s[Len(s)] /\ Len(s) \in Nat \ {0} /\ DOMAIN s = 1..Len(s)
           /\ Len(s) = 1 => FirstOK(Last(s), written, globally)
           /\ Len(s) > 1 => Last(s).path # <<>>
<1>1. PICK S : s \in Seq(S) /\ \A f \in S : FrameOK(f, L, written, globally)
  BY DEF FrameStack
<1>2. s # <<>>
  BY DEF FrameStack
<1>3. /\ Len(s) \in Nat \ {0} /\ DOMAIN s = 1..Len(s)
      /\ Last(s) = s[Len(s)] /\ Last(s) \in S
  BY <1>1, <1>2, PopStack
<1>4. Len(s) = 1 => FirstOK(Last(s), written, globally)
  BY <1>3 DEF FrameStack
<1>5. Len(s) > 1 => Last(s).path # <<>>
  <2>1. Len(s) > 1 => Len(s) \in 2..Len(s)
    BY <1>3
  <2> QED
    BY <1>3, <2>1 DEF FrameStack
<1> QED
  BY <1>1, <1>3, <1>4, <1>5

\* The items of the top call go one by one.
LEMMA FrameAdvances ==
    ASSUME NEW f, NEW L, NEW written, NEW globally, FrameOK(f, L, written, globally), f.todo # <<>>
    PROVE  LET g == Advanced(f)
           IN  /\ FrameOK(g, L, written, globally)
               /\ Head(f.todo) \in L /\ f.todo[1] = Head(f.todo) /\ 1 \in 1..Len(f.todo)
               /\ FirstOK(f, written, globally) => FirstOK(g, written, globally)
               /\ g.path = f.path /\ g.models = f.models
               /\ \A p : AwaitsIn(f, p) =>
                     AwaitsIn(g, p)
                     \/ (Head(f.todo).op = "model" /\ p = Append(f.path, Head(f.todo).name))
<1> DEFINE g == Advanced(f)
           n == Len(f.todo)
<1>1. /\ IsFrame(g) /\ g.todo = Tail(f.todo)
      /\ g.path = f.path /\ g.nodes = f.nodes /\ g.params = f.params
      /\ g.defs = f.defs /\ g.models = f.models /\ g.items = f.items
      /\ g.globals = f.globals /\ g.scope = f.scope /\ g.sound = f.sound
  BY AdvancedIs DEF FrameOK
<1>2. f.todo \in Seq(L)
  BY DEF FrameOK
<1>3. /\ Head(f.todo) \in L /\ f.todo[1] = Head(f.todo)
      /\ Tail(f.todo) \in Seq(L) /\ n \in Nat \ {0} /\ Len(Tail(f.todo)) = n - 1
      /\ \A i \in 1..n - 1 : Tail(f.todo)[i] = f.todo[i + 1]
  <2>1. n \in Nat \ {0}
    BY <1>2, EmptySeq, LenProperties
  <2>2. /\ Head(f.todo) \in L /\ Tail(f.todo) \in Seq(L)
        /\ \A i \in 1..Len(Tail(f.todo)) : Tail(f.todo)[i] = f.todo[i + 1]
        /\ Len(Tail(f.todo)) = n - 1
    BY <1>2, <2>1, HeadTailProperties
  <2>3. f.todo[1] = Head(f.todo)
    BY <1>2, <2>1
  <2> QED
    BY <2>1, <2>2, <2>3
<1> HIDE DEF g, n
<1>4. FrameOK(g, L, written, globally)
  BY <1>1, <1>3 DEF FrameOK
<1>5. Len(g.todo) = n - 1 /\ \A i \in 1..n - 1 : g.todo[i] = f.todo[i + 1]
  BY <1>1, <1>3
<1>6. FirstOK(f, written, globally) => FirstOK(g, written, globally)
  <2>1. \A i \in 1..n - 1 : i + 1 \in 1..n
    BY <1>3
  <2>2. (\A i \in 1..n : ToSet(f.todo[i].nets) \subseteq written)
        => \A i \in 1..n - 1 : ToSet(g.todo[i].nets) \subseteq written
    BY <1>5, <2>1
  <2> QED
    BY <1>1, <1>5, <2>2 DEF FirstOK, n
<1>7. ASSUME NEW p, AwaitsIn(f, p)
      PROVE  AwaitsIn(g, p) \/ (Head(f.todo).op = "model" /\ p = Append(f.path, Head(f.todo).name))
  <2>1. PICK i \in 1..n : f.todo[i].op = "model" /\ p = Append(f.path, f.todo[i].name)
    BY <1>7 DEF AwaitsIn, n
  <2>2. CASE i = 1
    BY <1>3, <2>1, <2>2
  <2>3. CASE i # 1
    <3>1. i - 1 \in 1..n - 1 /\ (i - 1) + 1 = i
      BY <1>3, <2>3
    <3>2. g.todo[i - 1] = f.todo[i]
      BY <1>5, <3>1
    <3>3. AwaitsIn(g, p)
      BY <1>1, <1>5, <2>1, <3>1, <3>2 DEF AwaitsIn
    <3> QED
      BY <3>3
  <2> QED
    BY <2>2, <2>3
<1> QED
  BY <1>1, <1>3, <1>4, <1>6, <1>7 DEF g, n


LEMMA StackAdvances ==
    ASSUME NEW s, NEW L, NEW written, NEW globally, FrameStack(s, L, written, globally),
           Last(s).todo # <<>>
    PROVE  LET r == Append(Front(s), Advanced(Last(s)))
           IN  /\ FrameStack(r, L, written, globally)
               /\ Len(r) = Len(s)
               /\ \A k \in 1..Len(s) : r[k].path = s[k].path /\ r[k].models = s[k].models
               /\ \A p : Awaits(s, p) =>
                     Awaits(r, p)
                     \/ (Head(Last(s).todo).op = "model"
                         /\ p = Append(Last(s).path, Head(Last(s).todo).name))
<1> DEFINE f == Last(s)
           g == Advanced(f)
           r == Append(Front(s), g)
<1>1. PICK S : s \in Seq(S) /\ \A h \in S : FrameOK(h, L, written, globally)
  BY DEF FrameStack
<1>2. s # <<>>
  BY DEF FrameStack
<1>3. /\ r \in Seq(S \cup {g})
      /\ Len(r) = Len(s)
      /\ DOMAIN r = 1..Len(s)
      /\ \A i \in 1..Len(s) - 1 : r[i] = s[i]
      /\ r[Len(s)] = g
  BY <1>1, <1>2, ReplaceTop, ZenonT(30)
<1>4. /\ FrameOK(f, L, written, globally)
      /\ f = s[Len(s)] /\ Len(s) \in Nat \ {0}
      /\ Len(s) = 1 => FirstOK(f, written, globally)
      /\ Len(s) > 1 => f.path # <<>>
  BY FrameTop
<1>5. /\ FrameOK(g, L, written, globally)
      /\ FirstOK(f, written, globally) => FirstOK(g, written, globally)
      /\ g.path = f.path /\ g.models = f.models
      /\ \A p : AwaitsIn(f, p) =>
            AwaitsIn(g, p) \/ (Head(f.todo).op = "model" /\ p = Append(f.path, Head(f.todo).name))
  BY <1>4, FrameAdvances
<1> HIDE DEF f, g, r
<1>6. \A k \in 1..Len(s) : k = Len(s) \/ k \in 1..Len(s) - 1
  BY <1>4
<1>7. \A k \in 1..Len(s) : r[k].path = s[k].path /\ r[k].models = s[k].models
  BY <1>3, <1>4, <1>5, <1>6
<1>8. FrameStack(r, L, written, globally)
  <2>1. r # <<>>
    BY <1>3, <1>4
  <2>2. \A h \in S \cup {g} : FrameOK(h, L, written, globally)
    BY <1>1, <1>5
  <2>3. FirstOK(r[1], written, globally)
    <3>1. CASE Len(s) = 1
      BY <1>3, <1>4, <1>5, <3>1
    <3>2. CASE Len(s) # 1
      <4>1. r[1] = s[1]
        BY <1>3, <1>4, <3>2
      <4> QED
        BY <4>1 DEF FrameStack
    <3> QED
      BY <3>1, <3>2
  <2>4. \A k \in 2..Len(r) : r[k].path # <<>>
    <3>1. \A k \in 2..Len(s) : k \in 1..Len(s)
      BY <1>4
    <3>2. \A k \in 2..Len(s) : s[k].path # <<>>
      BY DEF FrameStack
    <3> QED
      BY <1>3, <1>7, <3>1, <3>2
  <2> QED
    BY <1>3, <2>1, <2>2, <2>3, <2>4 DEF FrameStack
<1>9. ASSUME NEW p, Awaits(s, p)
      PROVE  Awaits(r, p) \/ (Head(f.todo).op = "model" /\ p = Append(f.path, Head(f.todo).name))
  <2>1. PICK k \in 1..Len(s) : AwaitsIn(s[k], p)
    BY <1>9 DEF Awaits
  <2>2. CASE k = Len(s)
    <3>1. AwaitsIn(f, p)
      BY <1>4, <2>1, <2>2
    <3>2. AwaitsIn(g, p) => Awaits(r, p)
      BY <1>3, <1>4 DEF Awaits
    <3> QED
      BY <1>5, <3>1, <3>2
  <2>3. CASE k # Len(s)
    BY <1>3, <1>6, <2>1, <2>3 DEF Awaits
  <2> QED
    BY <2>2, <2>3
<1> QED
  BY <1>3, <1>7, <1>8, <1>9 DEF f, g, r

LEMMA StackPushes ==
    ASSUME NEW s, NEW L, NEW written, NEW globally, FrameStack(s, L, written, globally),
           NEW f, FrameOK(f, L, written, globally), f.path # <<>>
    PROVE  LET r == Append(s, f)
           IN  /\ FrameStack(r, L, written, globally)
               /\ Len(r) = Len(s) + 1 /\ r[Len(s) + 1] = f
               /\ \A k \in 1..Len(s) : r[k] = s[k]
               /\ \A p : Awaits(s, p) => Awaits(r, p)
               /\ \A p : AwaitsIn(f, p) => Awaits(r, p)
<1> DEFINE r == Append(s, f)
           n == Len(s)
<1>1. PICK S : s \in Seq(S) /\ \A h \in S : FrameOK(h, L, written, globally)
  BY DEF FrameStack
<1>2. /\ r \in Seq(S \cup {f}) /\ n \in Nat /\ Len(r) = n + 1
      /\ \A i \in 1..n : r[i] = s[i]
      /\ r[n + 1] = f
  BY <1>1, PushStack
<1>3. n # 0
  BY <1>1, EmptySeq DEF FrameStack
<1> HIDE DEF r, n
<1>4. FrameStack(r, L, written, globally)
  <2>1. r # <<>> /\ r[1] = s[1]
    BY <1>2, <1>3
  <2>2. \A h \in S \cup {f} : FrameOK(h, L, written, globally)
    BY <1>1
  <2>3. \A k \in 2..Len(r) : r[k].path # <<>>
    <3>1. \A k \in 2..n + 1 : k = n + 1 \/ (k \in 2..n /\ k \in 1..n)
      BY <1>2
    <3>2. \A k \in 2..n : s[k].path # <<>>
      BY DEF FrameStack, n
    <3> QED
      BY <1>2, <3>1, <3>2
  <2> QED
    BY <1>2, <2>1, <2>2, <2>3 DEF FrameStack
<1>5. \A k \in 1..n : k \in 1..n + 1
  BY <1>2
<1>6. n + 1 \in 1..n + 1
  BY <1>2
<1>7. \A p : Awaits(s, p) => Awaits(r, p)
  BY <1>2, <1>5 DEF Awaits, n
<1>8. \A p : AwaitsIn(f, p) => Awaits(r, p)
  BY <1>2, <1>6 DEF Awaits
<1> QED
  BY <1>2, <1>4, <1>7, <1>8 DEF r, n

LEMMA StackPops ==
    ASSUME NEW s, NEW L, NEW written, NEW globally, FrameStack(s, L, written, globally),
           Len(s) > 1, Last(s).todo = <<>>
    PROVE  LET r == Front(s)
           IN  /\ FrameStack(r, L, written, globally)
               /\ Len(r) = Len(s) - 1
               /\ \A k \in 1..Len(s) - 1 : r[k] = s[k]
               /\ \A p : Awaits(s, p) => Awaits(r, p)
<1> DEFINE r == Front(s)
           n == Len(s)
<1>1. PICK S : s \in Seq(S) /\ \A h \in S : FrameOK(h, L, written, globally)
  BY DEF FrameStack
<1>2. s # <<>>
  BY DEF FrameStack
<1>3. /\ n \in Nat \ {0} /\ Last(s) = s[n]
      /\ r \in Seq(S) /\ Len(r) = n - 1
      /\ \A i \in 1..n - 1 : r[i] = s[i]
  BY <1>1, <1>2, PopStack
<1>4. n > 1
  OBVIOUS
<1> HIDE DEF r, n
<1>5. FrameStack(r, L, written, globally)
  <2>1. r # <<>> /\ r[1] = s[1]
    BY <1>3, <1>4
  <2>2. \A k \in 2..Len(r) : r[k].path # <<>>
    <3>1. \A k \in 2..n - 1 : k \in 2..n /\ k \in 1..n - 1
      BY <1>3
    <3>2. \A k \in 2..n : s[k].path # <<>>
      BY DEF FrameStack, n
    <3> QED
      BY <1>3, <3>1, <3>2
  <2> QED
    BY <1>1, <1>3, <2>1, <2>2 DEF FrameStack
<1>6. ASSUME NEW p, Awaits(s, p) PROVE Awaits(r, p)
  <2>1. PICK k \in 1..n : AwaitsIn(s[k], p)
    BY <1>6 DEF Awaits, n
  <2>2. ~ AwaitsIn(s[n], p)
    <3>1. Len(s[n].todo) = 0
      BY <1>3
    <3>2. 1..0 = {}
      OBVIOUS
    <3> QED
      BY <3>1, <3>2 DEF AwaitsIn
  <2>3. k \in 1..n - 1
    BY <1>3, <2>1, <2>2
  <2> QED
    BY <1>3, <2>1, <2>3 DEF Awaits
<1> QED
  BY <1>3, <1>5, <1>6 DEF r, n

LEMMA RemapInside ==
    ASSUME NEW L, NEW written, NEW globally, FrameStack(frames, L, written, globally),
           NEW net, Len(frames) = 1 => net \in written
    PROVE  NetInside(Calls!Remap(net), Calls!Top.path, written)
<1> DEFINE f == Last(frames)
<1>1. /\ FrameOK(f, L, written, globally)
      /\ Len(frames) \in Nat \ {0}
      /\ Len(frames) > 1 => f.path # <<>>
  BY FrameTop
<1>2. FirstOK(frames[1], written, globally)
  BY DEF FrameStack
<1>3. Calls!Top = f
  BY CallsText DEF Calls!Top
<1> HIDE DEF f
<1>4. Calls!Remap(net) =
        IF net = "0" \/ ~ Calls!Inside THEN <<net>>
        ELSE IF net \in DOMAIN f.nodes THEN f.nodes[net]
        ELSE IF net \in frames[1].globals THEN <<net>>
        ELSE Append(f.path, net)
  BY <1>3 DEF Calls!Remap
<1>5. CASE net = "0" \/ ~ Calls!Inside
  <2>1. net \in written
    <3>1. CASE net = "0"
      <4>1. written = Written(frames[1].items)
        BY <1>2 DEF FirstOK
      <4>2. \A S : "0" \in S \cup {"0"}
        OBVIOUS
      <4>3. "0" \in Written(frames[1].items)
        BY <4>2, Zenon DEF Written
      <4> QED
        BY <3>1, <4>1, <4>3
    <3>2. CASE ~ Calls!Inside
      <4>1. ~ (Len(frames) > 1)
        BY <3>2 DEF Calls!Inside
      <4>2. Len(frames) \in Nat \ {0}
        BY <1>1
      <4>3. \A n \in Nat \ {0} : ~ (n > 1) => n = 1
        OBVIOUS
      <4>4. Len(frames) = 1
        BY <4>1, <4>2, <4>3, Zenon
      <4> QED
        BY <4>4
    <3> QED
      BY <1>5, <3>1, <3>2
  <2>2. NetInside(<<net>>, f.path, written)
    BY <2>1, NetOne
  <2> QED
    BY <1>3, <1>4, <1>5, <2>2
<1>6. CASE ~ (net = "0" \/ ~ Calls!Inside) /\ net \in DOMAIN f.nodes
  <2>1. NetInside(f.nodes[net], f.path, written)
    BY <1>1, <1>6 DEF FrameOK
  <2> QED
    BY <1>3, <1>4, <1>6, <2>1
<1>7. CASE /\ ~ (net = "0" \/ ~ Calls!Inside) /\ net \notin DOMAIN f.nodes
           /\ net \in frames[1].globals
  <2>1. net \in written
    BY <1>2, <1>7 DEF FirstOK
  <2>2. NetInside(<<net>>, f.path, written)
    BY <2>1, NetOne
  <2> QED
    BY <1>3, <1>4, <1>7, <2>2
<1>8. CASE /\ ~ (net = "0" \/ ~ Calls!Inside) /\ net \notin DOMAIN f.nodes
           /\ net \notin frames[1].globals
  <2>1. f.path # <<>> /\ IsSequence(f.path)
    BY <1>1, <1>8 DEF Calls!Inside, FrameOK
  <2>2. NetInside(Append(f.path, net), f.path, written)
    BY <2>1, NetHere
  <2> QED
    BY <1>3, <1>4, <1>8, <2>2
<1> QED
  BY <1>5, <1>6, <1>7, <1>8

\* The definitions visible in a body.
AreDefs(defs, L) == \A n \in DOMAIN defs : defs[n] \in L /\ defs[n].op = "subckt"

LEMMA DefsWithAre ==
    ASSUME NEW L, NEW its \in Seq(L), NEW defs, AreDefs(defs, L)
    PROVE  AreDefs(Calls!DefsWith(defs, its), L)
<1> DEFINE own == Calls!Of(its, "subckt")
           n == Len(its)
           f == [x \in Calls!NamesAt(its, own) |-> Calls!Latest(its, own, x)]
           all == Calls!DefsWith(defs, its)
<1>1. n \in Nat /\ DOMAIN its = 1..n /\ \A i \in 1..n : its[i] \in L
  BY LenProperties, ElementOfSeq
<1>2. own \subseteq 1..n /\ \A i \in own : its[i].op = "subckt"
  BY <1>1 DEF Calls!Of
<1>3. all = Calls!Over(f, defs)
  BY DEF Calls!DefsWith
<1> HIDE DEF own, n, all
<1>4. ASSUME NEW x \in Calls!NamesAt(its, own)
      PROVE  f[x] \in L /\ f[x].op = "subckt"
  <2>1. PICK i : LastPlace(its, own, x, i) /\ Calls!Latest(its, own, x) = its[i]
    BY <1>1, <1>2, LatestIs
  <2>2. i \in own
    BY <2>1 DEF LastPlace
  <2> QED
    BY <1>1, <1>2, <2>1, <2>2
<1>5. DOMAIN f = Calls!NamesAt(its, own)
  OBVIOUS
<1> HIDE DEF f
<1>6. /\ DOMAIN all = DOMAIN f \cup DOMAIN defs
      /\ \A x \in DOMAIN f : all[x] = f[x]
      /\ \A x \in DOMAIN defs \ DOMAIN f : all[x] = defs[x]
  <2> DEFINE h == Calls!Over(f, defs)
  <2>1. /\ DOMAIN h = DOMAIN f \cup DOMAIN defs
        /\ \A x \in DOMAIN f : h[x] = f[x]
        /\ \A x \in DOMAIN defs \ DOMAIN f : h[x] = defs[x]
    BY OverIs
  <2>2. all = h
    BY <1>3
  <2> HIDE DEF h
  <2> QED
    BY <2>1, <2>2
<1>7. AreDefs(all, L)
  BY <1>4, <1>5, <1>6 DEF AreDefs
<1> QED
  BY <1>7 DEF all

-----------------------------------------------------------------------------
\* What is flattened.

Provided(p, s, placed) ==
    Awaits(s, p) \/ \E j \in 1..Len(placed) : placed[j].op = "model" /\ placed[j].path = p

ElementOK(e, s, placed, written, globally) ==
    /\ \A i \in DOMAIN e.nets \ Calls!Unmapped(e) : NetInside(e.nets[i], e.path, written)
    /\ e.own /\ e.kind \in Calls!Renamed => Provided(e.model, s, placed) /\ Front(e.model) = Front(e.path)
    /\ ~ e.own => Len(e.model) = 1
    /\ e.sound /\ e.kind \notin Calls!Copied => Calls!Valued(e.value, globally) = e.worth

FlatOK(s, placed, L, written, globally) ==
    /\ Closed(L)
    /\ FrameStack(s, L, written, globally)
    /\ \E T : placed \in Seq(T)
    /\ \A k \in 1..Len(s) : \A m \in s[k].models : Provided(Append(s[k].path, m), s, placed)
    /\ \A i \in 1..Len(placed) :
          placed[i].op = "element" => ElementOK(placed[i], s, placed, written, globally)

\* The calls advance, and what they place is in order.
LEMMA FlatAdvances ==
    ASSUME NEW s, NEW placed, NEW L, NEW written, NEW globally,
           FlatOK(s, placed, L, written, globally),
           NEW r, FrameStack(r, L, written, globally),
           NEW more, \E T : more \in Seq(T),
           \A p : Provided(p, s, placed) => Provided(p, r, more),
           \A k \in 1..Len(r) : \A m \in r[k].models :
              Provided(Append(r[k].path, m), s, placed) \/ Awaits(r, Append(r[k].path, m)),
           \A i \in 1..Len(more) :
              \/ i \in 1..Len(placed) /\ more[i] = placed[i]
              \/ more[i].op = "element" => ElementOK(more[i], s, placed, written, globally)
    PROVE  FlatOK(r, more, L, written, globally)
<1>1. ASSUME NEW e, ElementOK(e, s, placed, written, globally)
      PROVE  ElementOK(e, r, more, written, globally)
  BY <1>1 DEF ElementOK
<1>2. \A i \in 1..Len(more) :
          more[i].op = "element" => ElementOK(more[i], r, more, written, globally)
  BY <1>1 DEF FlatOK
<1>3. \A k \in 1..Len(r) : \A m \in r[k].models : Provided(Append(r[k].path, m), r, more)
  BY DEF Provided
<1> QED
  BY <1>2, <1>3 DEF FlatOK

LEMMA FlatLeaves ==
    ASSUME NEW L, NEW written, NEW globally, FlatOK(frames, flat, L, written, globally),
           Calls!LeaveCall
    PROVE  FlatOK(frames', flat', L, written, globally)
<1> DEFINE s == frames
           r == Front(frames)
<1>1. frames' = r /\ flat' = flat /\ Len(s) > 1 /\ Last(s).todo = <<>>
  BY CallsText DEF Calls!LeaveCall, Calls!Returned, Calls!Inside, Calls!Top
<1>2. /\ FrameStack(s, L, written, globally)
      /\ \E T : flat \in Seq(T)
      /\ \A k \in 1..Len(s) : \A m \in s[k].models : Provided(Append(s[k].path, m), s, flat)
      /\ Len(s) \in Nat
  BY FrameTop DEF FlatOK
<1>3. /\ FrameStack(r, L, written, globally)
      /\ Len(r) = Len(s) - 1
      /\ \A k \in 1..Len(s) - 1 : r[k] = s[k]
      /\ \A p : Awaits(s, p) => Awaits(r, p)
  BY <1>1, <1>2, StackPops
<1> HIDE DEF r
<1>4. \A p : Provided(p, s, flat) => Provided(p, r, flat)
  BY <1>3 DEF Provided
<1>5. \A k \in 1..Len(r) : \A m \in r[k].models : Provided(Append(r[k].path, m), s, flat)
  BY <1>2, <1>3
<1>6. FlatOK(r, flat, L, written, globally)
  BY <1>2, <1>3, <1>4, <1>5, FlatAdvances
<1> QED
  BY <1>1, <1>6

LEMMA PassedIs ==
    /\ Calls!Top = Last(frames) /\ Calls!Item = Head(Last(frames).todo)
    /\ Calls!Passed = Append(Front(frames), Advanced(Last(frames)))
BY CallsText DEF Calls!Top, Calls!Item, Calls!Passed, Advanced

\* The models of a call have the names of its instance.
LEMMA ModelsProvided ==
    ASSUME NEW s, NEW placed, NEW L, NEW written, NEW globally,
           FlatOK(s, placed, L, written, globally), NEW m \in Last(s).models
    PROVE  Provided(Append(Last(s).path, m), s, placed)
<1>1. Last(s) = s[Len(s)] /\ Len(s) \in Nat \ {0}
  BY FrameTop DEF FlatOK
<1>2. Len(s) \in 1..Len(s)
  BY <1>1
<1> QED
  BY <1>1, <1>2 DEF FlatOK

LEMMA MorePlaced ==
    ASSUME NEW T, NEW placed \in Seq(T), NEW x
    PROVE  LET more == Append(placed, x)
           IN  /\ \E U : more \in Seq(U)
               /\ Len(placed) \in Nat /\ Len(more) = Len(placed) + 1
               /\ more[Len(more)] = x
               /\ \A i \in 1..Len(placed) : more[i] = placed[i]
               /\ \A i \in 1..Len(more) : i \in 1..Len(placed) \/ i = Len(more)
               /\ \A s, p : Provided(p, s, placed) => Provided(p, s, more)
               /\ \A s : x.op = "model" => Provided(x.path, s, more)
<1> DEFINE more == Append(placed, x)
           n == Len(placed)
<1>1. /\ more \in Seq(T \cup {x}) /\ n \in Nat /\ Len(more) = n + 1
      /\ \A i \in 1..n : more[i] = placed[i]
      /\ more[n + 1] = x
  BY PushStack
<1> HIDE DEF more, n
<1>2. \A i \in 1..n : i \in 1..n + 1
  BY <1>1
<1>3. n + 1 \in 1..n + 1 /\ \A i \in 1..n + 1 : i \in 1..n \/ i = n + 1
  BY <1>1
<1>4. ASSUME NEW s, NEW p, Provided(p, s, placed) PROVE Provided(p, s, more)
  <2>1. CASE Awaits(s, p)
    BY <2>1 DEF Provided
  <2>2. CASE \E j \in 1..n : placed[j].op = "model" /\ placed[j].path = p
    <3>1. PICK j \in 1..n : placed[j].op = "model" /\ placed[j].path = p
      BY <2>2
    <3>2. j \in 1..Len(more) /\ more[j].op = "model" /\ more[j].path = p
      BY <1>1, <1>2, <3>1
    <3> QED
      BY <3>2 DEF Provided
  <2> QED
    BY <1>4, <2>1, <2>2 DEF Provided, n
<1>5. \A s : x.op = "model" => Provided(x.path, s, more)
  BY <1>1, <1>3 DEF Provided
<1> QED
  BY <1>1, <1>3, <1>4, <1>5 DEF more, n

\* The top call has seen an item, and what is placed may have grown by what became
\* of it.
LEMMA FlatPasses ==
    ASSUME NEW L, NEW written, NEW globally, FlatOK(frames, flat, L, written, globally),
           Last(frames).todo # <<>>,
           NEW more, \E T : more \in Seq(T),
           \A s, p : Provided(p, s, flat) => Provided(p, s, more),
           Head(Last(frames).todo).op = "model" =>
              \A s : Provided(Append(Last(frames).path, Head(Last(frames).todo).name), s, more),
           \A i \in 1..Len(more) :
              \/ i \in 1..Len(flat) /\ more[i] = flat[i]
              \/ more[i].op = "element" => ElementOK(more[i], frames, flat, written, globally)
    PROVE  FlatOK(Append(Front(frames), Advanced(Last(frames))), more, L, written, globally)
<1> DEFINE s == frames
           r == Append(Front(s), Advanced(Last(s)))
           it == Head(Last(s).todo)
           own == Append(Last(s).path, it.name)
<1>1. FrameStack(s, L, written, globally)
      /\ \A k \in 1..Len(s) : \A m \in s[k].models : Provided(Append(s[k].path, m), s, flat)
  BY DEF FlatOK
<1>2. /\ FrameStack(r, L, written, globally)
      /\ Len(r) = Len(s)
      /\ \A k \in 1..Len(s) : r[k].path = s[k].path /\ r[k].models = s[k].models
      /\ \A p : Awaits(s, p) => Awaits(r, p) \/ (it.op = "model" /\ p = own)
  BY <1>1, StackAdvances
<1>3. it.op = "model" => \A z : Provided(own, z, more)
  OBVIOUS
<1> HIDE DEF r, it, own
<1>4. ASSUME NEW p, Provided(p, s, flat) PROVE Provided(p, r, more)
  <2>1. CASE Awaits(s, p) /\ it.op = "model" /\ p = own
    BY <1>3, <2>1
  <2>2. CASE Awaits(r, p)
    BY <2>2 DEF Provided
  <2>3. CASE \E j \in 1..Len(flat) : flat[j].op = "model" /\ flat[j].path = p
    <3>1. Provided(p, r, flat)
      BY <2>3 DEF Provided
    <3> QED
      BY <3>1
  <2> QED
    BY <1>2, <1>4, <2>1, <2>2, <2>3 DEF Provided
<1>5. \A k \in 1..Len(r) : \A m \in r[k].models : Provided(Append(r[k].path, m), s, flat)
  BY <1>1, <1>2
<1>6. FlatOK(r, more, L, written, globally)
  BY <1>2, <1>4, <1>5, FlatAdvances
<1> QED
  BY <1>6 DEF r

LEMMA FlatPassesItem ==
    ASSUME NEW L, NEW written, NEW globally, FlatOK(frames, flat, L, written, globally),
           Calls!PassItem
    PROVE  FlatOK(frames', flat', L, written, globally)
<1> DEFINE r == Append(Front(frames), Advanced(Last(frames)))
<1>1. frames' = r /\ flat' = flat /\ Last(frames).todo # <<>> /\ Head(Last(frames).todo).op # "model"
  BY PassedIs DEF Calls!PassItem, Calls!Sees
<1>2. \E T : flat \in Seq(T)
  BY DEF FlatOK
<1>3. FlatOK(r, flat, L, written, globally)
  BY <1>1, <1>2, FlatPasses
<1> QED
  BY <1>1, <1>3

LEMMA FlatHoists ==
    ASSUME NEW L, NEW written, NEW globally, FlatOK(frames, flat, L, written, globally),
           Calls!HoistModel
    PROVE  FlatOK(frames', flat', L, written, globally)
<1> DEFINE r == Append(Front(frames), Advanced(Last(frames)))
           it == Head(Last(frames).todo)
           x == [op |-> "model", path |-> Append(Last(frames).path, it.name)]
           more == Append(flat, x)
<1>1. frames' = r /\ flat' = more /\ Last(frames).todo # <<>>
  BY PassedIs DEF Calls!HoistModel, Calls!Sees
<1>2. x.op = "model" /\ x.path = Append(Last(frames).path, it.name)
  OBVIOUS
<1> HIDE DEF x
<1>3. PICK T : flat \in Seq(T)
  BY DEF FlatOK
<1>4. /\ \E U : more \in Seq(U)
      /\ Len(flat) \in Nat /\ Len(more) = Len(flat) + 1
      /\ more[Len(more)] = x
      /\ \A i \in 1..Len(flat) : more[i] = flat[i]
      /\ \A i \in 1..Len(more) : i \in 1..Len(flat) \/ i = Len(more)
      /\ \A s, p : Provided(p, s, flat) => Provided(p, s, more)
      /\ \A s : x.op = "model" => Provided(x.path, s, more)
  BY <1>3, MorePlaced
<1> HIDE DEF more
<1>5. \A i \in 1..Len(more) : (i \in 1..Len(flat) /\ more[i] = flat[i]) \/ more[i].op # "element"
  BY <1>2, <1>4
<1>6. it.op = "model" => \A s : Provided(Append(Last(frames).path, it.name), s, more)
  BY <1>2, <1>4
<1> HIDE DEF r
<1>7. FlatOK(Append(Front(frames), Advanced(Last(frames))), more, L, written, globally)
  BY <1>1, <1>4, <1>5, <1>6, FlatPasses
<1> QED
  BY <1>1, <1>7 DEF r

\* The nets of an item of the netlist are nets the netlist writes.
LEMMA ItemNets ==
    ASSUME NEW L, NEW written, NEW globally, FrameStack(frames, L, written, globally),
           Last(frames).todo # <<>>, NEW it, it = Head(Last(frames).todo)
    PROVE  /\ it \in L
           /\ \A i \in DOMAIN it.nets : Len(frames) = 1 => it.nets[i] \in written
<1> DEFINE f == Last(frames)
<1>1. FrameOK(f, L, written, globally) /\ (Len(frames) = 1 => FirstOK(f, written, globally))
  BY FrameTop
<1>2. it \in L /\ f.todo[1] = it /\ 1 \in 1..Len(f.todo)
  BY <1>1, FrameAdvances
<1> HIDE DEF f
<1>3. Len(frames) = 1 => ToSet(it.nets) \subseteq written
  BY <1>1, <1>2 DEF FirstOK
<1> QED
  BY <1>2, <1>3 DEF ToSet

LEMMA RemapAllIs ==
    ASSUME NEW nets
    PROVE  LET all == Calls!RemapAll(nets)
           IN  DOMAIN all = DOMAIN nets /\ \A i \in DOMAIN nets : all[i] = Calls!Remap(nets[i])
BY DEF Calls!RemapAll

LEMMA NetsAre ==
    ASSUME NEW x, IsSequence(x.nets)
    PROVE  LET all == Calls!Nets(x)
           IN  /\ DOMAIN all = DOMAIN x.nets /\ Len(all) = Len(x.nets)
               /\ \A i \in DOMAIN x.nets \ Calls!Unmapped(x) : all[i] = Calls!Remap(x.nets[i])
<1> DEFINE n == Len(x.nets)
           V(i) == IF i \in Calls!Unmapped(x) THEN <<x.nets[i]>> ELSE Calls!Remap(x.nets[i])
           all == Calls!Nets(x)
<1>1. n \in Nat /\ DOMAIN x.nets = 1..n
  BY SequenceIs DEF IsSequence
<1>2. all = [i \in 1..n |-> V(i)]
  BY <1>1 DEF Calls!Nets
<1>3. \A i \in 1..n \ Calls!Unmapped(x) : V(i) = Calls!Remap(x.nets[i])
  OBVIOUS
<1> HIDE DEF n, V, all
<1>4. DOMAIN all = 1..n /\ Len(all) = n /\ \A i \in 1..n : all[i] = V(i)
  BY <1>1, <1>2
<1> QED
  BY <1>1, <1>3, <1>4 DEF n, all

LEMMA FlatPlaces ==
    ASSUME NEW L, NEW written, NEW globally, FlatOK(frames, flat, L, written, globally),
           Calls!PlaceElement
    PROVE  FlatOK(frames', flat', L, written, globally)
<1> DEFINE f == Last(frames)
           it == Head(f.todo)
           path == Append(f.path, it.name)
           nets == Calls!Nets(it)
           model == Calls!ModelRef(it)
           value == Calls!Value(it)
           own == it.model \in f.models
           worth == Calls!Worth(it.value)
           x == [op |-> "element", kind |-> it.kind, path |-> path, nets |-> nets,
                 model |-> model, value |-> value, own |-> own, worth |-> worth,
                 sound |-> f.sound]
           more == Append(flat, x)
<1>1. Calls!Top = f
  BY PassedIs
<1>2. frames' = Append(Front(frames), Advanced(f)) /\ flat' = more /\ f.todo # <<>>
      /\ it.op = "element"
  BY PassedIs DEF Calls!PlaceElement, Calls!Sees
<1>3. /\ x.op = "element" /\ x.kind = it.kind /\ x.path = path /\ x.nets = nets /\ x.model = model
      /\ x.value = value /\ x.own = own /\ x.worth = worth /\ x.sound = f.sound
  OBVIOUS
<1>4. FrameStack(frames, L, written, globally) /\ FrameOK(f, L, written, globally)
  BY FrameTop DEF FlatOK
<1>5. IsSequence(path) /\ Front(path) = f.path
  <2>1. IsSequence(f.path)
    BY <1>4 DEF FrameOK
  <2> HIDE DEF f
  <2> QED
    BY <2>1, NamePrefix
<1>6. \A i \in DOMAIN nets \ Calls!Unmapped(x) : NetInside(nets[i], path, written)
  <2>1. ASSUME NEW i \in DOMAIN it.nets PROVE NetInside(Calls!Remap(it.nets[i]), path, written)
    <3>1. Len(frames) = 1 => it.nets[i] \in written
      BY <1>2, <1>4, ItemNets
    <3>2. NetInside(Calls!Remap(it.nets[i]), f.path, written)
      BY <1>1, <1>4, <3>1, RemapInside
    <3>3. IsSequence(f.path)
      BY <1>4 DEF FrameOK
    <3> HIDE DEF f, it
    <3> QED
      BY <3>2, <3>3, NetDeeper DEF path
  <2>2. IsSequence(it.nets)
    BY <1>2, <1>4, ItemNets DEF FlatOK, Closed, IsLine
  <2>3. /\ DOMAIN nets = DOMAIN it.nets /\ Len(nets) = Len(it.nets)
        /\ \A i \in DOMAIN it.nets \ Calls!Unmapped(it) : nets[i] = Calls!Remap(it.nets[i])
    <3> HIDE DEF it
    <3> QED
      BY <2>2, NetsAre
  <2> HIDE DEF nets, path, it, x
  <2>4. Calls!Unmapped(x) = Calls!Unmapped(it)
    BY <1>3, <2>3 DEF Calls!Unmapped
  <2> QED
    BY <2>1, <2>3, <2>4
<1>7. /\ own /\ it.kind \in Calls!Renamed =>
            Provided(model, frames, flat) /\ Front(model) = Front(path)
      /\ ~ own => Len(model) = 1
  <2>1. model = IF own /\ it.kind \in Calls!Renamed THEN Append(f.path, it.model) ELSE <<it.model>>
    BY <1>1 DEF Calls!ModelRef
  <2>2. own => Provided(Append(f.path, it.model), frames, flat)
    BY ModelsProvided
  <2>3. Front(Append(f.path, it.model)) = f.path
    <3>1. IsSequence(f.path)
      BY <1>4 DEF FrameOK
    <3> HIDE DEF f, it
    <3> QED
      BY <3>1, NamePrefix
  <2>4. Len(<<it.model>>) = 1
    OBVIOUS
  <2> HIDE DEF model, own, path, it, f
  <2> QED
    BY <1>5, <2>1, <2>2, <2>3, <2>4
<1>8. f.sound /\ it.kind \notin Calls!Copied => Calls!Valued(value, globally) = worth
  <2>1. /\ it.kind \notin Calls!Copied => value = Calls!Valued(it.value, f.params)
        /\ worth = Calls!Valued(it.value, f.scope)
    BY <1>1 DEF Calls!Value, Calls!Resolved, Calls!Worth
  <2>2. f.sound => Agree(f.params, f.scope, globally)
    BY <1>4 DEF FrameOK
  <2> HIDE DEF value, worth, it, f
  <2> QED
    BY <2>1, <2>2 DEF Agree
<1> HIDE DEF path, nets, model, value, own, worth, x
<1>9. ElementOK(x, frames, flat, written, globally)
  BY <1>3, <1>6, <1>7, <1>8 DEF ElementOK
<1>10. PICK T : flat \in Seq(T)
  BY DEF FlatOK
<1>11. /\ \E U : more \in Seq(U)
       /\ Len(flat) \in Nat /\ Len(more) = Len(flat) + 1
       /\ more[Len(more)] = x
       /\ \A i \in 1..Len(flat) : more[i] = flat[i]
       /\ \A i \in 1..Len(more) : i \in 1..Len(flat) \/ i = Len(more)
       /\ \A s, p : Provided(p, s, flat) => Provided(p, s, more)
       /\ \A s : x.op = "model" => Provided(x.path, s, more)
  BY <1>10, MorePlaced
<1> HIDE DEF more
<1>12. \A i \in 1..Len(more) :
          \/ i \in 1..Len(flat) /\ more[i] = flat[i]
          \/ more[i].op = "element" => ElementOK(more[i], frames, flat, written, globally)
  BY <1>9, <1>11
<1>13. FlatOK(Append(Front(frames), Advanced(Last(frames))), more, L, written, globally)
  BY <1>2, <1>11, <1>12, FlatPasses
<1> QED
  BY <1>2, <1>13

\* The ports of a call are on nets around its instance.
LEMMA PortsInside ==
    ASSUME NEW L, NEW written, NEW globally, FrameStack(frames, L, written, globally),
           Last(frames).todo # <<>>, NEW it, it = Head(Last(frames).todo), IsLine(it),
           NEW c, c = Calls!Callee, IsLine(c), Len(it.nets) = Len(c.nets)
    PROVE  \A p \in DOMAIN Calls!Ports(it.nets) :
              NetInside(Calls!Ports(it.nets)[p], Append(Last(frames).path, it.name), written)
<1> DEFINE f == Last(frames)
           n == Len(c.nets)
           ports == Calls!Ports(it.nets)
           passed == Calls!RemapAll(it.nets)
           Places(p) == {k \in DOMAIN c.nets : c.nets[k] = p}
<1>1. /\ n \in Nat /\ DOMAIN c.nets = 1..n /\ DOMAIN it.nets = 1..n
  <2>1. IsSequence(c.nets) /\ IsSequence(it.nets)
    BY DEF IsLine
  <2> QED
    BY <2>1, SequenceIs DEF IsSequence
<1>2. ports = [p \in ToSet(c.nets) |-> passed[Max(Places(p))]]
  BY CallsText DEF Calls!Ports, Calls!CallNets
<1>3. IsSequence(f.path)
  BY FrameTop DEF FrameOK
<1>4. ASSUME NEW p \in ToSet(c.nets) PROVE Max(Places(p)) \in 1..n
  <2> DEFINE S == Places(p)
  <2>1. S \in SUBSET (0..n)
    BY <1>1
  <2>2. S # {} /\ S \subseteq 1..n
    BY <1>1 DEF ToSet
  <2> HIDE DEF S
  <2>3. Max(S) \in S
    BY <1>1, <2>1, <2>2, MaxIn
  <2> QED
    BY <2>2, <2>3 DEF S
<1>5. ASSUME NEW i \in 1..n PROVE NetInside(passed[i], Append(f.path, it.name), written)
  <2>1. passed[i] = Calls!Remap(it.nets[i])
    BY <1>1, RemapAllIs
  <2>2. Len(frames) = 1 => it.nets[i] \in written
    BY <1>1, ItemNets
  <2>3. NetInside(Calls!Remap(it.nets[i]), f.path, written)
    BY <2>2, RemapInside, PassedIs
  <2> HIDE DEF f, passed
  <2> QED
    BY <1>3, <2>1, <2>3, NetDeeper
<1> HIDE DEF f, passed, Places, n
<1>6. DOMAIN ports = ToSet(c.nets) /\ \A p \in ToSet(c.nets) : ports[p] = passed[Max(Places(p))]
  BY <1>2
<1> HIDE DEF ports
<1>7. \A p \in DOMAIN ports : NetInside(ports[p], Append(f.path, it.name), written)
  BY <1>4, <1>5, <1>6
<1> QED
  BY <1>7 DEF ports, f

\* The call of a body: its path, definitions, ports and parameters.
LEMMA FlatEnters ==
    ASSUME NEW L, NEW written, NEW globally, FlatOK(frames, flat, L, written, globally),
           Calls!EnterCall
    PROVE  FlatOK(frames', flat', L, written, globally)
<1> DEFINE f == Last(frames)
           it == Head(f.todo)
           r == Append(Front(frames), Advanced(f))
           c == Calls!Callee
           path == Append(f.path, it.name)
           ports == Calls!Ports(it.nets)
           base == Calls!CallParams
           defs == Calls!DefsWith(f.defs, c.body)
           models == Calls!NamesAt(c.body, Calls!Of(c.body, "model"))
           scope == Calls!CallScope
           sound == /\ f.sound /\ Calls!AllNumbers(c.params, DOMAIN c.params)
                    /\ Calls!AllNumbers(c.body, Calls!BodyParams)
                    /\ Calls!AllNumbers(Calls!Given, DOMAIN Calls!Given)
           g == [path |-> path, todo |-> c.body, nodes |-> ports, params |-> base,
                 defs |-> defs, models |-> models, items |-> c.body, globals |-> {},
                 scope |-> scope, sound |-> sound]
<1>1. Calls!Top = f /\ Calls!Item = it
  BY PassedIs
<1>2. /\ frames' = Append(r, g) /\ flat' = flat /\ f.todo # <<>> /\ it.op = "call"
      /\ it.model \in DOMAIN f.defs /\ Len(it.nets) = Len(c.nets)
  BY PassedIs DEF Calls!EnterCall, Calls!Sees
<1>3. /\ FrameStack(frames, L, written, globally) /\ FrameOK(f, L, written, globally)
      /\ globally = frames[1].scope /\ Closed(L)
  BY FrameTop DEF FlatOK, FrameStack, FirstOK
<1>4. it \in L /\ IsLine(it)
  BY <1>2, <1>3, ItemNets DEF Closed
<1>5. c \in L /\ IsLine(c) /\ c.body \in Seq(L)
  <2>1. c = f.defs[it.model]
    BY <1>1 DEF Calls!Callee
  <2>2. c \in L /\ c.op = "subckt"
    BY <1>2, <1>3, <2>1 DEF FrameOK
  <2> HIDE DEF c
  <2> QED
    BY <1>3, <2>2 DEF Closed
<1>6. /\ IsFrame(g) /\ g.path = path /\ g.todo = c.body /\ g.nodes = ports /\ g.params = base
      /\ g.defs = defs /\ g.models = models /\ g.scope = scope /\ g.sound = sound
  <2> HIDE DEF path, c, ports, base, defs, models, scope, sound
  <2>1. /\ g.path = path /\ g.todo = c.body /\ g.nodes = ports /\ g.params = base
        /\ g.defs = defs /\ g.models = models /\ g.items = c.body /\ g.globals = {}
        /\ g.scope = scope /\ g.sound = sound
    OBVIOUS
  <2>2. g = [path |-> path, todo |-> c.body, nodes |-> ports, params |-> base,
             defs |-> defs, models |-> models, items |-> c.body, globals |-> {},
             scope |-> scope, sound |-> sound]
    OBVIOUS
  <2> HIDE DEF g
  <2>3. IsFrame(g)
    BY <2>1, <2>2 DEF IsFrame
  <2> QED
    BY <2>1, <2>3
<1>7. IsSequence(path) /\ path # <<>>
  <2>1. IsSequence(f.path)
    BY <1>3 DEF FrameOK
  <2> HIDE DEF f, it
  <2> QED
    BY <2>1, NamePrefix
<1>8. AreDefs(defs, L)
  <2>1. AreDefs(f.defs, L)
    BY <1>3 DEF FrameOK, AreDefs
  <2> HIDE DEF f, c
  <2> QED
    BY <1>5, <2>1, DefsWithAre
<1>9. \A p \in DOMAIN ports : NetInside(ports[p], path, written)
  BY <1>2, <1>3, <1>4, <1>5, PortsInside
<1>10. sound => Agree(base, scope, globally)
  <2>1. ASSUME sound PROVE Agree(f.params, f.scope, globally)
    BY <1>3, <2>1 DEF FrameOK
  <2>2. ASSUME sound PROVE Calls!AllNumbers(Calls!Given, DOMAIN Calls!Given)
    BY <2>2
  <2>3. IsSequence(c.body)
    BY <1>5, SequenceIs
  <2> QED
    BY <1>1, <1>3, <1>4, <1>5, <2>1, <2>2, <2>3, CallAgrees
<1> HIDE DEF g, r, path, c, ports, base, defs, models, scope, sound
<1>11. FrameOK(g, L, written, globally) /\ g.path # <<>>
  BY <1>5, <1>6, <1>7, <1>8, <1>9, <1>10 DEF FrameOK, AreDefs
<1>12. FlatOK(r, flat, L, written, globally)
  <2>1. \E T : flat \in Seq(T)
    BY DEF FlatOK
  <2>2. FlatOK(Append(Front(frames), Advanced(Last(frames))), flat, L, written, globally)
    BY <1>2, <2>1, FlatPasses
  <2> QED
    BY <2>2 DEF r
<1>13. FrameStack(r, L, written, globally)
       /\ \A k \in 1..Len(r) : \A m \in r[k].models : Provided(Append(r[k].path, m), r, flat)
       /\ Len(r) \in Nat
  BY <1>12, FrameTop DEF FlatOK
<1> DEFINE q == Append(r, g)
<1>14. /\ FrameStack(q, L, written, globally)
       /\ Len(q) = Len(r) + 1 /\ q[Len(r) + 1] = g
       /\ \A k \in 1..Len(r) : q[k] = r[k]
       /\ \A p : Awaits(r, p) => Awaits(q, p)
       /\ \A p : AwaitsIn(g, p) => Awaits(q, p)
  BY <1>11, <1>13, StackPushes
<1> HIDE DEF q
<1>15. \A p : Provided(p, r, flat) => Provided(p, q, flat)
  BY <1>14 DEF Provided
<1>16. \A m \in g.models : AwaitsIn(g, Append(g.path, m))
  <2> DEFINE b == g.todo
  <2>1. b \in Seq(L) /\ g.models = Calls!NamesAt(b, Calls!Of(b, "model"))
    BY <1>5, <1>6 DEF models
  <2>2. DOMAIN b = 1..Len(b)
    BY <2>1, LenProperties
  <2>3. ASSUME NEW m \in g.models PROVE \E i \in 1..Len(b) : b[i].op = "model" /\ b[i].name = m
    BY <2>1, <2>2 DEF Calls!NamesAt, Calls!Of
  <2> QED
    BY <2>3 DEF AwaitsIn
<1>17. \A k \in 1..Len(q) : \A m \in q[k].models :
          Provided(Append(q[k].path, m), r, flat) \/ Awaits(q, Append(q[k].path, m))
  <2>1. \A k \in 1..Len(q) : k \in 1..Len(r) \/ k = Len(r) + 1
    BY <1>13, <1>14
  <2>2. \A k \in 1..Len(r) : \A m \in q[k].models : Provided(Append(q[k].path, m), r, flat)
    BY <1>13, <1>14
  <2>3. \A m \in q[Len(r) + 1].models : Awaits(q, Append(q[Len(r) + 1].path, m))
    BY <1>14, <1>16
  <2> QED
    BY <2>1, <2>2, <2>3
<1>18. FlatOK(q, flat, L, written, globally)
  <2>1. \E T : flat \in Seq(T)
    BY DEF FlatOK
  <2> QED
    BY <1>12, <1>14, <1>15, <1>17, <2>1, FlatAdvances
<1> QED
  BY <1>2, <1>18 DEF q

\* A line with another value and other parameters.
LEMMA LineValued ==
    ASSUME NEW x, IsLine(x), NEW known
    PROVE  /\ IsLine(WithValue(x, known)) /\ WithValue(x, known).op = x.op
           /\ WithValue(x, known).params = x.params
<1> DEFINE v == Calls!Valued(x.value, known)
           y == WithValue(x, known)
           Line9(o, n, ki, p, ne, va, m, pa, bo) ==
               [op |-> o, name |-> n, kind |-> ki, path |-> p, nets |-> ne, value |-> va, model |-> m,
                params |-> pa, body |-> bo]
<1>1. PICK o, n, ki, p, ne, va, m, pa, bo : x = Line9(o, n, ki, p, ne, va, m, pa, bo)
  BY Zenon DEF IsLine
<1>2. x.op = o /\ x.name = n /\ x.kind = ki /\ x.path = p /\ x.nets = ne /\ x.model = m /\ x.params = pa /\ x.body = bo
  BY <1>1
<1>3. y = [x EXCEPT !.value = v]
  BY DEF WithValue
<1> HIDE DEF y, v
<1>4. y = Line9(o, n, ki, p, ne, v, m, pa, bo)
  BY <1>1, <1>3
<1>5. /\ y.op = o /\ y.name = n /\ y.kind = ki /\ y.path = p /\ y.nets = ne /\ y.model = m /\ y.body = bo
      /\ y.value = v /\ y.params = pa
  BY <1>4
<1>6. IsLine(y)
  BY <1>2, <1>4, <1>5 DEF IsLine
<1> QED
  BY <1>2, <1>5, <1>6 DEF y

LEMMA LineReparameterized ==
    ASSUME NEW x, IsLine(x), NEW ps, IsSequence(ps),
           \A i \in DOMAIN ps : ps[i] = Is(ps[i].name, ps[i].value)
    PROVE  LET y == [x EXCEPT !.params = ps]
           IN  IsLine(y) /\ y.op = x.op
<1> DEFINE y == [x EXCEPT !.params = ps]
           Line9(o, n, ki, p, ne, va, m, pa, bo) ==
               [op |-> o, name |-> n, kind |-> ki, path |-> p, nets |-> ne, value |-> va, model |-> m,
                params |-> pa, body |-> bo]
<1>1. PICK o, n, ki, p, ne, va, m, pa, bo : x = Line9(o, n, ki, p, ne, va, m, pa, bo)
  BY Zenon DEF IsLine
<1>2. x.op = o /\ x.name = n /\ x.kind = ki /\ x.path = p /\ x.nets = ne /\ x.model = m /\ x.body = bo
  BY <1>1
<1>3. y = Line9(o, n, ki, p, ne, va, m, ps, bo)
  BY <1>1
<1> HIDE DEF y
<1>4. /\ y.op = o /\ y.name = n /\ y.kind = ki /\ y.path = p /\ y.nets = ne /\ y.model = m /\ y.body = bo
      /\ y.value = va /\ y.params = ps
  BY <1>3
<1>5. IsLine(y)
  BY <1>2, <1>3, <1>4 DEF IsLine
<1> QED
  BY <1>2, <1>4, <1>5 DEF y

LEMMA ResolvedType ==
    ASSUME NEW L, Closed(L), NEW its \in Seq(L)
    PROVE  \E M : Closed(M) /\ ResolveExprs(its) \in Seq(M)
<1> DEFINE n == Len(its)
           known == Known(its)
           P(ps) == [k \in DOMAIN ps |-> WithValue(ps[k], known)]
           R(x) == [WithValue(x, known) EXCEPT !.params = P(@)]
           It(i) == IF its[i].op \in {"element", "call"} THEN R(its[i]) ELSE its[i]
           M == {It(i) : i \in 1..n} \cup L
<1>1. n \in Nat /\ DOMAIN its = 1..n /\ \A i \in 1..n : its[i] \in L
  BY LenProperties, ElementOfSeq
<1>2. ResolveExprs(its) = [i \in 1..n |-> It(i)]
  BY <1>1 DEF ResolveExprs
<1> HIDE DEF known
<1>3. ASSUME NEW x, IsLine(x) PROVE IsLine(R(x)) /\ R(x).op = x.op
  <2> DEFINE ps == x.params
             m == Len(ps)
             qs == P(ps)
             Q(k) == WithValue(ps[k], known)
             z == WithValue(x, known)
  <2>1. m \in Nat /\ DOMAIN ps = 1..m /\ \A k \in 1..m : ps[k] = Is(ps[k].name, ps[k].value)
    BY <1>3, SequenceIs DEF IsLine, IsSequence
  <2>2. qs = [k \in 1..m |-> Q(k)]
    BY <2>1
  <2>3. ASSUME NEW k \in 1..m PROVE Q(k) = Is(Q(k).name, Q(k).value)
    <3>1. PICK a, b : ps[k] = [name |-> a, value |-> b]
      BY <2>1 DEF Is
    <3> DEFINE v == Calls!Valued(ps[k].value, known)
    <3>2. Q(k) = [ps[k] EXCEPT !.value = v]
      BY DEF WithValue
    <3> HIDE DEF v, ps, Q
    <3>3. Q(k) = [name |-> a, value |-> v]
      BY <3>1, <3>2
    <3> QED
      BY <3>3 DEF Is
  <2> HIDE DEF Q, ps, m, qs
  <2>4. qs \in Seq({Q(k) : k \in 1..m})
    <3>1. \A k \in 1..m : Q(k) \in {Q(j) : j \in 1..m}
      OBVIOUS
    <3> QED
      BY <2>1, <2>2, <3>1, IsASeq
  <2>5. IsSequence(qs) /\ DOMAIN qs = 1..m
    BY <2>2, <2>4, SequenceIs
  <2>6. \A k \in DOMAIN qs : qs[k] = Is(qs[k].name, qs[k].value)
    BY <2>2, <2>3, <2>5
  <2>7. IsLine(z) /\ z.op = x.op /\ z.params = ps
    BY <1>3, LineValued DEF ps
  <2> HIDE DEF z
  <2> DEFINE y == [z EXCEPT !.params = qs]
  <2>8. IsLine(y) /\ y.op = z.op
    BY <2>5, <2>6, <2>7, LineReparameterized
  <2>9. R(x) = y
    <3>1. R(x) = [z EXCEPT !.params = P(z.params)]
      BY DEF z
    <3> QED
      BY <2>7, <3>1 DEF qs
  <2> HIDE DEF y, R
  <2> QED
    BY <2>7, <2>8, <2>9
<1> HIDE DEF R
<1>4. ASSUME NEW x \in M PROVE IsLine(x) /\ (x.op = "subckt" => x.body \in Seq(M))
  <2>1. \A b : b \in Seq(L) => b \in Seq(M)
    <3>1. L \subseteq M
      OBVIOUS
    <3> HIDE DEF M
    <3> QED
      BY <3>1, SeqMonotonic
  <2>2. \A z \in L : IsLine(z) /\ (z.op = "subckt" => z.body \in Seq(M))
    BY <2>1 DEF Closed
  <2>3. x \in L \/ \E z \in L : z.op \in {"element", "call"} /\ x = R(z)
    BY <1>1
  <2> HIDE DEF M
  <2> QED
    BY <1>3, <2>2, <2>3
<1>5. Closed(M)
  <2> HIDE DEF M
  <2> QED
    BY <1>4 DEF Closed
<1>6. \A i \in 1..n : It(i) \in M
  OBVIOUS
<1> HIDE DEF M, It
<1>7. ResolveExprs(its) \in Seq(M)
  BY <1>1, <1>2, <1>6, IsASeq
<1> QED
  BY <1>5, <1>7

\* The netlist itself is the first call.
LEMMA FlatBegins ==
    ASSUME NEW L, Closed(L), NEW its \in Seq(L), frames = <<>>, flat = <<>>, Calls!Begin(its)
    PROVE  \E written, globally : FlatOK(frames', flat', L, written, globally)
<1> DEFINE own == Calls!DefsWith(<<>>, its)
           nets == UNION {Calls!ToSet(its[i].nets) : i \in Calls!Of(its, "global")}
           scope == Calls!Numbers(its, Calls!Of(its, "param"))
           g == [path |-> <<>>, todo |-> its, nodes |-> <<>>, params |-> <<>>,
                 defs |-> own, models |-> {}, items |-> its, globals |-> nets,
                 scope |-> scope, sound |-> TRUE]
           written == Written(its)
<1>1. frames' = <<g>> /\ flat' = <<>>
  BY DEF Calls!Begin, Calls!Netlist
<1>2. AreDefs(own, L)
  <2>1. AreDefs(<<>>, L)
    BY DEF AreDefs
  <2> QED
    BY <2>1, DefsWithAre
<1>3. \A i \in 1..Len(its) : ToSet(its[i].nets) \subseteq written
  <2>1. \A i \in 1..Len(its) : its[i] \in ToSet(its)
    <3>1. DOMAIN its = 1..Len(its)
      BY LenProperties
    <3> QED
      BY <3>1 DEF ToSet
  <2> QED
    BY <2>1 DEF Written
<1>4. nets \subseteq written
  <2>1. DOMAIN its = 1..Len(its)
    BY LenProperties
  <2>2. \A i \in Calls!Of(its, "global") : Calls!ToSet(its[i].nets) \subseteq written
    <3>1. \A i \in Calls!Of(its, "global") : i \in 1..Len(its)
      BY <2>1 DEF Calls!Of
    <3>2. \A i : Calls!ToSet(its[i].nets) = ToSet(its[i].nets)
      BY CallsText
    <3> QED
      BY <1>3, <3>1, <3>2
  <2> HIDE DEF written
  <2> QED
    BY <2>2
<1>5. Agree(<<>>, scope, scope)
  BY DEF Agree, Calls!Valued
<1> HIDE DEF own, nets, scope, written
<1>6. /\ g.path = <<>> /\ g.todo = its /\ g.nodes = <<>> /\ g.params = <<>> /\ g.defs = own
      /\ g.models = {} /\ g.items = its /\ g.globals = nets /\ g.scope = scope /\ g.sound = TRUE
  OBVIOUS
<1>7. g = [path |-> <<>>, todo |-> its, nodes |-> <<>>, params |-> <<>>,
           defs |-> own, models |-> {}, items |-> its, globals |-> nets,
           scope |-> scope, sound |-> TRUE]
  OBVIOUS
<1> HIDE DEF g
<1>8. IsFrame(g)
  BY <1>6, <1>7 DEF IsFrame
<1>9. IsSequence(<<>>) /\ DOMAIN <<>> = {}
  BY DEF IsSequence
<1>10. FrameOK(g, L, written, scope)
  BY <1>2, <1>5, <1>6, <1>8, <1>9 DEF FrameOK, AreDefs
<1>11. FirstOK(g, written, scope)
  BY <1>3, <1>4, <1>6 DEF FirstOK, written
<1>12. FrameStack(<<g>>, L, written, scope)
  <2>1. <<g>> \in Seq({g}) /\ <<g>> # <<>> /\ <<g>>[1] = g /\ 2..Len(<<g>>) = {}
    OBVIOUS
  <2>2. \E S : <<g>> \in Seq(S) /\ \A f \in S : FrameOK(f, L, written, scope)
    <3>1. \A f \in {g} : FrameOK(f, L, written, scope)
      BY <1>10
    <3> QED
      BY <2>1, <3>1
  <2> QED
    BY <1>11, <2>1, <2>2 DEF FrameStack
<1>13. FlatOK(<<g>>, <<>>, L, written, scope)
  <2>1. 1..Len(<<g>>) = {1} /\ <<g>>[1].models = {} /\ 1..Len(<<>>) = {}
    BY <1>6
  <2>2. \E T : <<>> \in Seq(T)
    <3>1. <<>> \in Seq({})
      OBVIOUS
    <3> QED
      BY <3>1
  <2> QED
    BY <1>12, <2>1, <2>2 DEF FlatOK
<1> QED
  BY <1>1, <1>13

\* Lines and items on both ways, and the calls on them.
Sourced ==
    \/ /\ calls # <<>> /\ project \in LibProjects
       /\ \E L : Closed(L) /\ LibStack(calls, L)
    \/ /\ calls = <<>> /\ texts # <<>> /\ project \in IncludeProjects
       /\ Reads(texts) /\ IsSource(out)

Flattened == \E L, written, globally : FlatOK(frames, flat, L, written, globally)

FlatteningOK ==
    /\ Sourced
    /\ (frames = <<>> /\ flat = <<>>) \/ (frames # <<>> /\ Flattened)

LEMMA SourcedInit == ASSUME Init PROVE FlatteningOK
<1>1. frames = <<>> /\ flat = <<>>
  BY DEF Init, Calls!Init
<1>2. CASE Libs!Init
  <2>1. IsSource(project.root) /\ project \in LibProjects
    BY <1>2, SourcesAssumption DEF Libs!Init
  <2> DEFINE its == Libs!Parsed(project.root)
             c == Libs!Process("netlist", its, <<>>)
  <2>2. calls = <<c>>
    BY <1>2 DEF Libs!Init
  <2>3. PICK L : Closed(L) /\ its \in Seq(L)
    BY <2>1, LibsParsedType
  <2> HIDE DEF its
  <2>4. IsCall(c, L)
    BY <2>3, ProcessCall
  <2> HIDE DEF c
  <2>5. <<c>> \in Seq({c}) /\ <<c>> # <<>> /\ 1..Len(<<c>>) - 1 = {}
    OBVIOUS
  <2>6. \E S : <<c>> \in Seq(S) /\ \A d \in S : IsCall(d, L)
    <3>1. \A d \in {c} : IsCall(d, L)
      BY <2>4
    <3> QED
      BY <2>5, <3>1
  <2>7. LibStack(<<c>>, L)
    BY <2>5, <2>6 DEF LibStack
  <2> QED
    BY <1>1, <2>1, <2>2, <2>3, <2>5, <2>7 DEF FlatteningOK, Sourced
<1>3. CASE Includes!Init /\ calls = <<>> /\ ~ Libs!Init
  <2>1. IsSource(project.root) /\ project \in IncludeProjects
    BY <1>3, SourcesAssumption DEF Includes!Init
  <2> DEFINE f == Includes!Text(Includes!Input, project.root)
  <2>2. texts = <<f>> /\ out = <<>>
    BY <1>3 DEF Includes!Init
  <2>3. f = [path |-> Includes!Input, todo |-> project.root]
    BY DEF Includes!Text
  <2>4. IsText(f) /\ f.todo = project.root
    BY <2>3, TextFields
  <2> HIDE DEF f
  <2>5. <<f>> \in Seq({f}) /\ <<f>> # <<>>
    OBVIOUS
  <2>6. Reads(<<f>>)
    <3> DEFINE s == <<f>>
               S == {f}
    <3>1. s \in Seq(S)
      BY <2>5
    <3>2. \A h \in S : IsText(h) /\ IsSource(h.todo)
      BY <2>1, <2>4
    <3> HIDE DEF s, S
    <3>3. Reads(s)
      BY <3>1, <3>2 DEF Reads
    <3> QED
      BY <3>3 DEF s
  <2>7. IsSource(<<>>)
    BY DEF IsSource, IsSequence
  <2> QED
    BY <1>1, <1>3, <2>1, <2>2, <2>5, <2>6, <2>7 DEF FlatteningOK, Sourced
<1> QED
  BY <1>2, <1>3 DEF Init

LEMMA SourcedStep == ASSUME Sourced, [Next]_(vars) PROVE Sourced'
<1>1. CASE ExpandLibs
  <2>1. calls # <<>> /\ Libs!Expand
    BY <1>1 DEF ExpandLibs, ByLibs
  <2>2. project \in LibProjects
    BY <2>1 DEF Sourced
  <2>3. PICK L : Closed(L) /\ LibStack(calls, L)
    BY <2>1 DEF Sourced
  <2>4. PICK M : Closed(M) /\ LibStack(calls', M)
    BY <2>1, <2>2, <2>3, LibsKeepTypes
  <2>5. project' = project
    BY <2>1 DEF Libs!Expand, Libs!Fail, Libs!EnterSection, Libs!EnterSubckt, Libs!KeepItem, Libs!Return
  <2>6. calls' # <<>>
    BY <2>4 DEF LibStack
  <2> QED
    BY <2>2, <2>4, <2>5, <2>6 DEF Sourced
<1>2. CASE ExpandIncludes
  <2>1. calls = <<>> /\ calls' = calls /\ Includes!Expand
    BY <1>2 DEF ExpandIncludes, ByLibs, libVars
  <2>2. texts # <<>> /\ project \in IncludeProjects /\ Reads(texts) /\ IsSource(out)
    BY <2>1 DEF Sourced
  <2>3. Reads(texts') /\ texts' # <<>> /\ IsSource(out')
    BY <2>1, <2>2, IncludesKeepLines
  <2>4. project' = project
    BY <2>1 DEF Includes!Expand, Includes!FailDepth, Includes!FailLine, Includes!EnterText,
       Includes!DropMarker, Includes!EmitLine, Includes!LeaveText
  <2> QED
    BY <2>1, <2>2, <2>3, <2>4 DEF Sourced
<1>3. ASSUME UNCHANGED <<project, calls, texts, out>> PROVE Sourced'
  BY <1>3 DEF Sourced
<1>4. CASE Refuse \/ StartFlattening \/ FlattenNetlist \/ Return \/ UNCHANGED vars
  BY <1>3, <1>4 DEF Refuse, StartFlattening, FlattenNetlist, Return, vars, libVars, includeVars
<1> QED
  BY <1>1, <1>2, <1>4 DEF Next

\* Where there are calls they are a stack.
LEMMA FlattenedStack == ASSUME NEW s, NEW placed, NEW L, NEW written, NEW globally,
                               FlatOK(s, placed, L, written, globally)
                        PROVE  s # <<>>
BY DEF FlatOK, FrameStack

LEMMA FlatteningStarts ==
    ASSUME Sourced, frames = <<>>, flat = <<>>, StartFlattening
    PROVE  frames' # <<>> /\ Flattened'
<1> DEFINE its == IF ByLibs THEN ResolveExprs(Libs!Output) ELSE Parsed(Includes!Output)
<1>1. Calls!Begin(its)
  BY DEF StartFlattening
<1>2. \E M : Closed(M) /\ its \in Seq(M)
  <2>1. CASE calls # <<>>
    <3>1. PICK L : Closed(L) /\ LibStack(calls, L)
      BY <2>1 DEF Sourced
    <3>2. PICK S : calls \in Seq(S) /\ \A c \in S : IsCall(c, L)
      BY <3>1 DEF LibStack
    <3>3. calls[1] \in S
      <4>1. Len(calls) \in Nat \ {0}
        BY <2>1, <3>2, PopStack
      <4> QED
        BY <3>2, <4>1, ElementOfSeq
    <3>4. Libs!Output \in Seq(L)
      BY <3>2, <3>3 DEF IsCall, Libs!Output
    <3>5. its = ResolveExprs(Libs!Output)
      BY <2>1 DEF ByLibs
    <3> HIDE DEF its
    <3> QED
      BY <3>1, <3>4, <3>5, ResolvedType
  <2>2. CASE calls = <<>>
    <3>1. IsSource(out)
      BY <2>2 DEF Sourced
    <3>2. its = Parsed(out)
      BY <2>2 DEF ByLibs, Includes!Output
    <3> HIDE DEF its
    <3> QED
      BY <3>1, <3>2, ParsedType
  <2> QED
    BY <2>1, <2>2
<1> HIDE DEF its
<1>3. PICK M : Closed(M) /\ its \in Seq(M)
  BY <1>2
<1>4. PICK written, globally : FlatOK(frames', flat', M, written, globally)
  BY <1>1, <1>3, FlatBegins
<1>5. frames' # <<>>
  BY <1>4, FlattenedStack
<1> QED
  BY <1>4, <1>5 DEF Flattened

LEMMA FlatteningGoesOn ==
    ASSUME Flattened, FlattenNetlist
    PROVE  frames' # <<>> /\ Flattened'
<1>1. PICK L, written, globally : FlatOK(frames, flat, L, written, globally)
  BY DEF Flattened
<1>2. FlatOK(frames', flat', L, written, globally)
  <2>1. CASE Calls!PlaceElement
    BY <1>1, <2>1, FlatPlaces
  <2>2. CASE Calls!HoistModel
    BY <1>1, <2>2, FlatHoists
  <2>3. CASE Calls!PassItem
    BY <1>1, <2>3, FlatPassesItem
  <2>4. CASE Calls!FailCall
    <3>1. frames' = frames /\ flat' = flat
      BY <2>4 DEF Calls!FailCall
    <3> QED
      BY <1>1, <3>1
  <2>5. CASE Calls!EnterCall
    BY <1>1, <2>5, FlatEnters
  <2>6. CASE Calls!LeaveCall
    BY <1>1, <2>6, FlatLeaves
  <2> QED
    BY <2>1, <2>2, <2>3, <2>4, <2>5, <2>6 DEF FlattenNetlist, Calls!Flatten
<1>3. frames' # <<>>
  BY <1>2, FlattenedStack
<1> QED
  BY <1>2, <1>3 DEF Flattened

LEMMA FlatteningStep == ASSUME FlatteningOK, [Next]_(vars) PROVE FlatteningOK'
<1>1. Sourced'
  BY SourcedStep DEF FlatteningOK
<1>2. CASE StartFlattening
  <2>1. frames = <<>>
    BY <1>2 DEF StartFlattening, Calls!Begin
  <2>2. flat = <<>> /\ Sourced
    BY <2>1 DEF FlatteningOK
  <2>3. frames' # <<>> /\ Flattened'
    BY <1>2, <2>1, <2>2, FlatteningStarts
  <2> QED
    BY <1>1, <2>3 DEF FlatteningOK
<1>3. CASE FlattenNetlist
  <2>1. frames # <<>>
    <3>1. SUFFICES ASSUME frames = <<>> PROVE FALSE
      OBVIOUS
    <3>2. Len(frames) = 0
      BY <3>1
    <3>3. ~ Calls!LeaveCall
      BY <3>2 DEF Calls!LeaveCall, Calls!Inside
    <3> QED
      BY <1>3, <3>1, <3>3 DEF FlattenNetlist, Calls!Flatten, Calls!PlaceElement, Calls!HoistModel,
         Calls!PassItem, Calls!FailCall, Calls!EnterCall, Calls!Sees
  <2>2. Flattened
    BY <2>1 DEF FlatteningOK
  <2>3. frames' # <<>> /\ Flattened'
    BY <1>3, <2>2, FlatteningGoesOn
  <2> QED
    BY <1>1, <2>3 DEF FlatteningOK
<1>4. ASSUME UNCHANGED <<frames, flat>> PROVE FlatteningOK'
  BY <1>1, <1>4 DEF FlatteningOK, Flattened
<1>5. CASE ExpandLibs \/ ExpandIncludes \/ Refuse \/ Return \/ UNCHANGED vars
  BY <1>4, <1>5 DEF ExpandLibs, ExpandIncludes, Refuse, Return, vars, flatVars
<1> QED
  BY <1>2, <1>3, <1>5 DEF Next

-----------------------------------------------------------------------------
LEMMA ElementsOK ==
    ASSUME FlatteningOK, NEW e \in Calls!Elements
    PROVE  \E L, written, globally :
              /\ FlatOK(frames, flat, L, written, globally)
              /\ ElementOK(e, frames, flat, written, globally)
<1>1. PICK i \in DOMAIN flat : flat[i].op = "element" /\ e = flat[i]
  BY DEF Calls!Elements
<1>2. flat # <<>>
  BY <1>1
<1>3. PICK L, written, globally : FlatOK(frames, flat, L, written, globally)
  BY <1>2 DEF FlatteningOK, Flattened
<1>4. DOMAIN flat = 1..Len(flat)
  BY <1>3, LenProperties DEF FlatOK
<1>5. ElementOK(e, frames, flat, written, globally)
  BY <1>1, <1>3, <1>4 DEF FlatOK
<1> QED
  BY <1>3, <1>5

LEMMA NamesScoped == ASSUME FlatteningOK PROVE NamesAsScoped
<1>1. ASSUME Calls!Succeeded, NEW e \in Calls!Elements
      PROVE  /\ e.own /\ e.kind \in Calls!Renamed =>
                   e.model \in Calls!Models /\ Calls!Front(e.model) = Calls!Front(e.path)
             /\ ~ e.own => Len(e.model) = 1
  <2>1. PICK L, written, globally :
              /\ FlatOK(frames, flat, L, written, globally)
              /\ ElementOK(e, frames, flat, written, globally)
    BY ElementsOK
  <2>2. Len(frames) = 1 /\ Last(frames).todo = <<>> /\ Last(frames) = frames[1]
    <3>1. Last(frames) = frames[Len(frames)]
      BY <2>1, FrameTop DEF FlatOK
    <3>2. Len(frames) = 1 /\ Last(frames).todo = <<>>
      BY <1>1, PassedIs DEF Calls!Succeeded, Calls!Finished
    <3> QED
      BY <3>1, <3>2
  <2>3. \A p : ~ Awaits(frames, p)
    <3>1. 1..Len(frames) = {1} /\ 1..Len(frames[1].todo) = {}
      BY <2>2
    <3> QED
      BY <3>1 DEF Awaits, AwaitsIn
  <2>4. DOMAIN flat = 1..Len(flat)
    BY <2>1, LenProperties DEF FlatOK
  <2>5. \A p : Provided(p, frames, flat) => p \in Calls!Models
    BY <2>3, <2>4 DEF Provided, Calls!Models
  <2> QED
    BY <2>1, <2>5, CallsText DEF ElementOK
<1>2. ASSUME NEW e \in Calls!Elements, NEW i \in DOMAIN e.nets \ Calls!Unmapped(e)
      PROVE  IF Len(e.nets[i]) = 1 THEN e.nets[i][1] \in Written(frames[1].items)
             ELSE Calls!IsPrefix(Calls!Front(e.nets[i]), e.path)
  <2>1. PICK L, written, globally :
              /\ FlatOK(frames, flat, L, written, globally)
              /\ ElementOK(e, frames, flat, written, globally)
    BY ElementsOK
  <2>2. written = Written(frames[1].items)
    BY <2>1 DEF FlatOK, FrameStack, FirstOK
  <2>3. NetInside(e.nets[i], e.path, written)
    BY <2>1 DEF ElementOK
  <2>4. Calls!IsPrefix(Calls!Front(e.nets[i]), e.path) = IsPrefix(Front(e.nets[i]), e.path)
    BY CallsText
  <2> QED
    BY <2>2, <2>3, <2>4 DEF NetInside
<1>3. Calls!Written = Written(frames[1].items)
  BY CallsText DEF Written, Calls!Written
<1>4. Calls!ModelsAsScoped
  BY <1>1 DEF Calls!ModelsAsScoped
<1>5. Calls!NetsStayInside
  BY <1>2, <1>3 DEF Calls!NetsStayInside, Calls!IsInside
<1> QED
  BY <1>4, <1>5 DEF NamesAsScoped

LEMMA ValuesScoped == ASSUME FlatteningOK PROVE ValuesAsScoped
<1>1. ASSUME NEW e \in Calls!Elements, e.sound, e.kind \notin Calls!Copied
      PROVE  Calls!Final(e.value) = e.worth
  <2>1. PICK L, written, globally :
              /\ FlatOK(frames, flat, L, written, globally)
              /\ ElementOK(e, frames, flat, written, globally)
    BY ElementsOK
  <2>2. globally = frames[1].scope
    BY <2>1 DEF FlatOK, FrameStack, FirstOK
  <2> QED
    BY <1>1, <2>1, <2>2 DEF ElementOK, Calls!Final
<1> QED
  BY <1>1 DEF ValuesAsScoped, Calls!ValuesAsScoped

\* The elements of a subcircuit are on nets of its instance or of the netlist, and those
\* of the kinds in Renamed refer to the models of their own instance, for all netlists,
\* files and limits; but for the nets that are copied, Unmapped (flatten_netlist of
\* subckt.rs, after either expander).
THEOREM NamesStayScoped == Spec => []NamesAsScoped
<1>1. Init => FlatteningOK
  BY SourcedInit
<1>2. FlatteningOK /\ [Next]_(vars) => FlatteningOK'
  BY FlatteningStep
<1>3. FlatteningOK => NamesAsScoped
  BY NamesScoped
<1> QED
  BY <1>1, <1>2, <1>3, PTL DEF Spec

\* The value of an element of a subcircuit is the one its innermost instance gives it,
\* where the calls on the way could work out their overrides and its kind is not one of
\* Copied, for all netlists, files and limits (expand_subckt_call of subckt.rs).
THEOREM ValuesStayScoped == Spec => []ValuesAsScoped
<1>1. Init => FlatteningOK
  BY SourcedInit
<1>2. FlatteningOK /\ [Next]_(vars) => FlatteningOK'
  BY FlatteningStep
<1>3. FlatteningOK => ValuesAsScoped
  BY ValuesScoped
<1> QED
  BY <1>1, <1>2, <1>3, PTL DEF Spec

-----------------------------------------------------------------------------
\* Where a path leads.

\* The first n steps along it.
StepsTo(f, path, n) ==
    f = [k \in 0..n |-> IF k = 0 THEN <<>> ELSE Step(f[k - 1], path[k])]

LEMMA StepsExist ==
    ASSUME NEW path, NEW n \in Nat
    PROVE  \E f : StepsTo(f, path, n)
<1> DEFINE Bad == {m \in 0..n : ~ \E s : StepsTo(s, path, m)}
<1> SUFFICES ASSUME Bad # {} PROVE FALSE
  OBVIOUS
<1>1. Bad \in SUBSET Nat
  OBVIOUS
<1>2. PICK m \in Bad : \A j \in Bad : m <= j
  <2> HIDE DEF Bad
  <2> QED
    BY <1>1, LeastIndex
<1>3. m \in 0..n /\ ~ \E s : StepsTo(s, path, m)
  BY <1>2
<1>4. CASE m = 0
  <2> DEFINE s == [k \in 0..0 |-> <<>>]
  <2>1. s = [k \in 0..0 |-> IF k = 0 THEN <<>> ELSE Step(s[k - 1], path[k])]
    OBVIOUS
  <2> HIDE DEF s
  <2>2. StepsTo(s, path, m)
    BY <1>4, <2>1 DEF StepsTo
  <2> QED
    BY <1>3, <2>2
<1>5. CASE m # 0
  <2>1. m - 1 \in 0..n /\ ~ m <= m - 1 /\ m \in Nat
    BY <1>3, <1>5
  <2>2. PICK g : StepsTo(g, path, m - 1)
    BY <1>2, <2>1
  <2> DEFINE last == Step(g[m - 1], path[m])
             s == [k \in 0..m |-> IF k = m THEN last ELSE g[k]]
  <2>3. ASSUME NEW k \in 0..m
        PROVE  s[k] = IF k = 0 THEN <<>> ELSE Step(s[k - 1], path[k])
    <3>1. CASE k = m
      <4>1. k # 0 /\ m - 1 \in 0..m /\ m - 1 # m
        BY <1>5, <2>1, <3>1
      <4>2. s[m - 1] = g[m - 1]
        BY <4>1
      <4> QED
        BY <3>1, <4>1, <4>2
    <3>2. CASE k # m
      <4>1. k \in 0..(m - 1) /\ (k # 0 => k - 1 \in 0..m /\ k - 1 # m)
        BY <2>1, <3>2
      <4>2. g[k] = IF k = 0 THEN <<>> ELSE Step(g[k - 1], path[k])
        BY <2>2, <4>1 DEF StepsTo
      <4>3. k # 0 => s[k - 1] = g[k - 1]
        BY <4>1
      <4> QED
        BY <3>2, <4>2, <4>3
    <3> QED
      BY <3>1, <3>2
  <2>4. s = [k \in 0..m |-> s[k]]
    OBVIOUS
  <2> HIDE DEF s
  <2>5. StepsTo(s, path, m)
    BY <2>3, <2>4 DEF StepsTo
  <2> QED
    BY <1>3, <2>5
<1> QED
  BY <1>4, <1>5

LEMMA FileIs ==
    ASSUME NEW path, Len(path) \in Nat
    PROVE  \E f : StepsTo(f, path, Len(path)) /\ File(path) = f[Len(path)]
<1> DEFINE f == CHOOSE s : StepsTo(s, path, Len(path))
<1>1. \E s : StepsTo(s, path, Len(path))
  BY StepsExist DEF StepsTo
<1>2. StepsTo(f, path, Len(path))
  BY <1>1
<1>3. File(path) = f[Len(path)]
  BY DEF File, StepsTo
<1> QED
  BY <1>2, <1>3

\* Two recursions that begin and go on alike are alike.
InStep(f, g, n) == f[0] = g[0] /\ \A k \in 1..n : f[k - 1] = g[k - 1] => f[k] = g[k]

LEMMA SameSteps ==
    ASSUME NEW f, NEW g, NEW n \in Nat, InStep(f, g, n)
    PROVE  \A k \in 0..n : f[k] = g[k]
<1> DEFINE Bad == {k \in 0..n : f[k] # g[k]}
<1> SUFFICES ASSUME Bad # {} PROVE FALSE
  OBVIOUS
<1>1. Bad \in SUBSET Nat
  OBVIOUS
<1>2. PICK k \in Bad : \A j \in Bad : k <= j
  <2> HIDE DEF Bad
  <2> QED
    BY <1>1, LeastIndex
<1>6. f[0] = g[0] /\ \A j \in 1..n : f[j - 1] = g[j - 1] => f[j] = g[j]
  BY DEF InStep
<1>3. k \in 0..n /\ f[k] # g[k] /\ k # 0
  BY <1>2, <1>6
<1>4. k - 1 \in 0..n /\ ~ k <= k - 1 /\ k \in 1..n
  BY <1>3
<1>5. f[k - 1] = g[k - 1]
  BY <1>2, <1>4
<1> QED
  BY <1>3, <1>4, <1>5, <1>6

\* What a path leads to goes on from what its beginning leads to.
LEMMA FileOfJoin ==
    ASSUME NEW T, NEW a \in Seq(T), NEW b \in Seq(T), NEW p \in Seq(T), File(a) = File(b)
    PROVE  File(a \o p) = File(b \o p)
<1>1. ASSUME NEW x \in Seq(T)
      PROVE  \E f : /\ f[0] = File(x) /\ f[Len(p)] = File(x \o p)
                    /\ \A k \in 1..Len(p) : f[k] = Step(f[k - 1], p[k])
  <2> DEFINE m == Len(x)
             n == Len(p)
             y == x \o p
  <2>1. /\ m \in Nat /\ n \in Nat /\ Len(y) = m + n
        /\ \A k \in 1..m : y[k] = x[k]
        /\ \A k \in 1..n : y[m + k] = p[k]
    BY ConcatProperties, LenProperties
  <2>2. PICK g : StepsTo(g, x, Len(x)) /\ File(x) = g[m]
    BY <2>1, FileIs
  <2> HIDE DEF y
  <2>3. PICK h : StepsTo(h, y, Len(y)) /\ File(y) = h[m + n]
    <3>1. Len(y) \in Nat
      BY <2>1
    <3> QED
      BY <2>1, <3>1, FileIs
  <2> HIDE DEF m, n
  <2>4. g = [k \in 0..m |-> IF k = 0 THEN <<>> ELSE Step(g[k - 1], x[k])]
    BY <2>2 DEF StepsTo, m
  <2>5. h = [k \in 0..m + n |-> IF k = 0 THEN <<>> ELSE Step(h[k - 1], y[k])]
    BY <2>1, <2>3 DEF StepsTo
  <2>6. \A k \in 0..m : g[k] = h[k]
    <3>1. g[0] = h[0]
      <4>1. 0 \in 0..m /\ 0 \in 0..m + n
        BY <2>1
      <4> QED
        BY <2>4, <2>5, <4>1
    <3>2. ASSUME NEW k \in 1..m, g[k - 1] = h[k - 1] PROVE g[k] = h[k]
      <4>1. k \in 0..m /\ k \in 0..m + n /\ k # 0
        BY <2>1
      <4>2. g[k] = Step(g[k - 1], x[k]) /\ h[k] = Step(h[k - 1], y[k])
        BY <2>4, <2>5, <4>1
      <4> QED
        BY <2>1, <3>2, <4>2
    <3>3. InStep(g, h, m)
      BY <3>1, <3>2 DEF InStep
    <3> QED
      BY <2>1, <3>3, SameSteps
  <2> DEFINE f == [k \in 0..n |-> h[m + k]]
  <2>7. f[0] = File(x) /\ f[n] = File(y)
    <3>1. 0 \in 0..n /\ n \in 0..n /\ m + 0 = m /\ m \in 0..m
      BY <2>1
    <3> QED
      BY <2>2, <2>3, <2>6, <3>1
  <2>8. ASSUME NEW k \in 1..n PROVE f[k] = Step(f[k - 1], p[k])
    <3>1. k \in 0..n /\ k - 1 \in 0..n /\ m + k \in 0..m + n /\ m + k # 0 /\ m + (k - 1) = (m + k) - 1
      BY <2>1
    <3>2. h[m + k] = Step(h[(m + k) - 1], y[m + k])
      BY <2>5, <3>1
    <3>3. y[m + k] = p[k]
      BY <2>1
    <3> QED
      BY <3>1, <3>2, <3>3
  <2> HIDE DEF f
  <2> QED
    BY <2>7, <2>8 DEF n, y
<1>2. PICK f : /\ f[0] = File(a) /\ f[Len(p)] = File(a \o p)
               /\ \A k \in 1..Len(p) : f[k] = Step(f[k - 1], p[k])
  BY <1>1
<1>3. PICK g : /\ g[0] = File(b) /\ g[Len(p)] = File(b \o p)
               /\ \A k \in 1..Len(p) : g[k] = Step(g[k - 1], p[k])
  BY <1>1
<1>4. Len(p) \in Nat
  BY LenProperties
<1>5. \A k \in 1..Len(p) : f[k - 1] = g[k - 1] => f[k] = g[k]
  BY <1>2, <1>3
<1>6. \A k \in 0..Len(p) : f[k] = g[k]
  <2>1. InStep(f, g, Len(p))
    BY <1>1, <1>2, <1>3, <1>5 DEF InStep
  <2> QED
    BY <1>4, <2>1, SameSteps
<1>7. Len(p) \in 0..Len(p)
  BY <1>4
<1> QED
  BY <1>2, <1>3, <1>6, <1>7

\* What a path leads to goes back at its beginning only.
Normal(s) == \A i \in 2..Len(s) : s[i] = ".." => s[i - 1] = ".."

LEMMA FrontOfAppend ==
    ASSUME NEW T, NEW s \in Seq(T), NEW x
    PROVE  Front(Append(s, x)) = s /\ Last(Append(s, x)) = x
<1> DEFINE t == Append(s, x)
<1>1. /\ t \in Seq(T \cup {x}) /\ Len(s) \in Nat /\ Len(t) = Len(s) + 1
      /\ \A i \in 1..Len(s) : t[i] = s[i]
      /\ t[Len(s) + 1] = x
  BY PushStack
<1> HIDE DEF t
<1>2. t # <<>>
  BY <1>1
<1>3. /\ Front(t) \in Seq(T \cup {x}) /\ Len(Front(t)) = Len(s)
      /\ \A i \in 1..Len(s) : Front(t)[i] = t[i]
      /\ Last(t) = t[Len(t)]
  <2>1. Len(t) - 1 = Len(s)
    BY <1>1
  <2> QED
    BY <1>1, <1>2, <2>1, PopStack
<1>4. s \in Seq(T \cup {x})
  BY SeqMonotonic
<1>5. Front(t) = s
  BY <1>1, <1>3, <1>4, SeqEqual
<1> QED
  BY <1>1, <1>3, <1>5 DEF t

LEMMA AppendOfFront ==
    ASSUME NEW T, NEW s \in Seq(T), s # <<>>
    PROVE  s = Append(Front(s), Last(s)) /\ s = Front(s) \o <<Last(s)>>
<1>1. /\ Len(s) \in Nat \ {0} /\ Last(s) = s[Len(s)] /\ Last(s) \in T /\ Front(s) \in Seq(T)
      /\ Len(Front(s)) = Len(s) - 1 /\ \A i \in 1..Len(s) - 1 : Front(s)[i] = s[i]
  BY PopStack
<1> DEFINE t == Append(Front(s), Last(s))
<1>2. /\ t \in Seq(T) /\ Len(t) = Len(Front(s)) + 1
      /\ \A i \in 1..Len(Front(s)) : t[i] = Front(s)[i]
      /\ t[Len(Front(s)) + 1] = Last(s)
  BY <1>1, AppendProperties
<1> HIDE DEF t
<1>3. \A i \in 1..Len(s) : s[i] = t[i]
  BY <1>1, <1>2
<1>4. s = t
  BY <1>1, <1>2, <1>3, SeqEqual
<1>5. t = Front(s) \o <<Last(s)>>
  BY <1>1, AppendIsConcat DEF t
<1> QED
  BY <1>4, <1>5 DEF t

LEMMA StepNormal ==
    ASSUME NEW T, NEW s \in Seq(T), NEW x \in T, Normal(s)
    PROVE  Step(s, x) \in Seq(T) /\ Normal(Step(s, x))
<1>1. Len(s) \in Nat
  BY LenProperties
<1>2. CASE x = ".." /\ s # <<>> /\ Last(s) # ".."
  <2>1. Step(s, x) = Front(s)
    BY <1>2 DEF Step
  <2>2. /\ Front(s) \in Seq(T) /\ Len(Front(s)) = Len(s) - 1
        /\ \A i \in 1..Len(s) - 1 : Front(s)[i] = s[i]
    BY <1>2, PopStack
  <2>3. \A i \in 2..Len(s) - 1 : i \in 2..Len(s) /\ i \in 1..Len(s) - 1 /\ i - 1 \in 1..Len(s) - 1
    BY <1>1
  <2>4. \A i \in 2..Len(s) - 1 : Front(s)[i] = ".." => Front(s)[i - 1] = ".."
    BY <2>2, <2>3 DEF Normal
  <2> QED
    BY <2>1, <2>2, <2>4 DEF Normal
<1>3. CASE ~ (x = ".." /\ s # <<>> /\ Last(s) # "..")
  <2> DEFINE t == Append(s, x)
  <2>1. Step(s, x) = t
    BY <1>3 DEF Step
  <2>2. /\ t \in Seq(T) /\ Len(t) = Len(s) + 1
        /\ \A i \in 1..Len(s) : t[i] = s[i]
        /\ t[Len(s) + 1] = x
    BY AppendProperties
  <2> HIDE DEF t
  <2>3. ASSUME NEW i \in 2..Len(s) + 1, t[i] = ".." PROVE t[i - 1] = ".."
    <3>1. CASE i = Len(s) + 1
      <4>1. i - 1 = Len(s) /\ Len(s) \in 1..Len(s) /\ s # <<>>
        BY <1>1, <3>1
      <4>2. x = ".."
        BY <2>2, <2>3, <3>1
      <4>3. Last(s) = s[Len(s)] /\ Last(s) = ".."
        BY <1>3, <4>1, <4>2, PopStack
      <4>4. t[Len(s)] = s[Len(s)]
        BY <2>2, <4>1
      <4> QED
        BY <4>1, <4>3, <4>4
    <3>2. CASE i # Len(s) + 1
      <4>1. i \in 2..Len(s) /\ i \in 1..Len(s) /\ i - 1 \in 1..Len(s)
        BY <1>1, <3>2
      <4> QED
        BY <2>2, <2>3, <4>1 DEF Normal
    <3> QED
      BY <3>1, <3>2
  <2> QED
    BY <2>1, <2>2, <2>3 DEF Normal
<1> QED
  BY <1>2, <1>3

LEMMA FileNormal ==
    ASSUME NEW T, NEW p \in Seq(T)
    PROVE  File(p) \in Seq(T) /\ Normal(File(p))
<1> DEFINE n == Len(p)
<1>1. n \in Nat /\ \A k \in 1..n : p[k] \in T
  BY LenProperties, ElementOfSeq
<1>2. PICK f : StepsTo(f, p, n) /\ File(p) = f[n]
  BY <1>1, FileIs
<1>3. \A k \in 0..n : f[k] = IF k = 0 THEN <<>> ELSE Step(f[k - 1], p[k])
  BY <1>2 DEF StepsTo
<1> HIDE DEF n
<1> DEFINE Bad == {k \in 0..n : ~ (f[k] \in Seq(T) /\ Normal(f[k]))}
<1>4. Bad = {}
  <2> SUFFICES ASSUME Bad # {} PROVE FALSE
    OBVIOUS
  <2>1. Bad \in SUBSET Nat
    BY <1>1
  <2>2. PICK k \in Bad : \A j \in Bad : k <= j
    <3> HIDE DEF Bad
    <3> QED
      BY <2>1, LeastIndex
  <2>3. k \in 0..n /\ ~ (f[k] \in Seq(T) /\ Normal(f[k]))
    BY <2>2
  <2>4. k # 0
    <3>1. <<>> \in Seq(T) /\ Normal(<<>>)
      BY EmptySeq DEF Normal
    <3> QED
      BY <1>3, <2>3, <3>1
  <2>5. k - 1 \in 0..n /\ ~ k <= k - 1 /\ k \in 1..n
    BY <1>1, <2>3, <2>4
  <2>6. f[k - 1] \in Seq(T) /\ Normal(f[k - 1])
    BY <2>2, <2>5
  <2>7. f[k] = Step(f[k - 1], p[k]) /\ p[k] \in T
    BY <1>1, <1>3, <2>3, <2>4, <2>5
  <2> QED
    BY <2>3, <2>6, <2>7, StepNormal
<1>5. n \in 0..n
  BY <1>1
<1> QED
  BY <1>2, <1>4, <1>5

\* Where it goes straight, it leads to itself.
LEMMA NormalFile ==
    ASSUME NEW T, NEW s \in Seq(T), Normal(s)
    PROVE  File(s) = s
<1> DEFINE n == Len(s)
           g == [k \in 0..n |-> SubSeq(s, 1, k)]
<1>1. n \in Nat /\ \A k \in 1..n : s[k] \in T
  BY LenProperties, ElementOfSeq
<1>2. PICK f : StepsTo(f, s, n) /\ File(s) = f[n]
  BY <1>1, FileIs
<1>3. f = [k \in 0..n |-> IF k = 0 THEN <<>> ELSE Step(f[k - 1], s[k])]
  BY <1>2 DEF StepsTo
<1> HIDE DEF n
<1>4. ASSUME NEW k \in 0..n
      PROVE  /\ g[k] \in Seq(T) /\ Len(g[k]) = k
             /\ \A i \in 1..k : g[k][i] = s[i]
  <2>1. g[k] = SubSeq(s, 1, k)
    OBVIOUS
  <2>2. k \in Int /\ 1 \in Int /\ (\A i \in 1..k : s[i] \in T) /\ k - 1 + 1 = k
        /\ (\A i \in 1..k : 1 + i - 1 = i) /\ (1 <= k \/ k = 0)
    BY <1>1
  <2>3. /\ SubSeq(s, 1, k) \in Seq(T)
        /\ Len(SubSeq(s, 1, k)) = IF 1 <= k THEN k - 1 + 1 ELSE 0
        /\ \A i \in 1..k - 1 + 1 : SubSeq(s, 1, k)[i] = s[1 + i - 1]
    BY <2>2, SubSeqProperties
  <2> QED
    BY <2>1, <2>2, <2>3
<1> HIDE DEF g
<1>5. InStep(f, g, n)
  <2>1. f[0] = g[0]
    <3>1. 0 \in 0..n
      BY <1>1
    <3>2. g[0] = <<>>
      BY <1>4, <3>1, EmptySeq
    <3> QED
      BY <1>3, <3>1, <3>2
  <2>2. ASSUME NEW k \in 1..n, f[k - 1] = g[k - 1] PROVE f[k] = g[k]
    <3>1. k \in 0..n /\ k - 1 \in 0..n /\ k # 0
      BY <1>1
    <3> DEFINE h == g[k - 1]
    <3>2. f[k] = Step(h, s[k])
      BY <1>3, <2>2, <3>1
    <3>3. h \in Seq(T) /\ Len(h) = k - 1 /\ \A i \in 1..k - 1 : h[i] = s[i]
      BY <1>4, <3>1
    <3> HIDE DEF h
    <3>4. ~ (s[k] = ".." /\ h # <<>> /\ Last(h) # "..")
      <4> SUFFICES ASSUME s[k] = "..", h # <<>> PROVE Last(h) = ".."
        OBVIOUS
      <4>1. Last(h) = h[k - 1] /\ k - 1 \in 1..k - 1
        <5>1. Last(h) = h[Len(h)] /\ Len(h) # 0
          BY <3>3, PopStack
        <5> QED
          BY <3>1, <3>3, <5>1
      <4>2. k \in 2..n
        BY <1>1, <4>1
      <4>3. s[k - 1] = ".."
        BY <4>2 DEF Normal, n
      <4> QED
        BY <3>3, <4>1, <4>3
    <3>5. f[k] = Append(h, s[k])
      BY <3>2, <3>4 DEF Step
    <3> DEFINE t == Append(h, s[k])
    <3>6. /\ t \in Seq(T) /\ Len(t) = Len(h) + 1
          /\ \A i \in 1..Len(h) : t[i] = h[i]
          /\ t[Len(h) + 1] = s[k]
      BY <1>1, <3>3, AppendProperties
    <3>7. Len(t) = k /\ \A i \in 1..k : t[i] = s[i]
      <4> HIDE DEF t
      <4> QED
        BY <3>3, <3>6
    <3>8. g[k] \in Seq(T) /\ Len(g[k]) = k /\ \A i \in 1..k : g[k][i] = s[i]
      BY <1>4, <3>1
    <3>9. t = g[k]
      <4> HIDE DEF t
      <4> QED
        BY <3>6, <3>7, <3>8, SeqEqual
    <3> QED
      BY <3>5, <3>9
  <2> QED
    BY <2>1, <2>2 DEF InStep
<1>6. \A k \in 0..n : f[k] = g[k]
  BY <1>1, <1>5, SameSteps
<1>7. n \in 0..n
  BY <1>1
<1>8. File(s) = g[n] /\ g[n] \in Seq(T) /\ Len(g[n]) = n /\ \A i \in 1..n : g[n][i] = s[i]
  BY <1>2, <1>4, <1>6, <1>7
<1>9. g[n] = s
  BY <1>8, SeqEqual DEF n
<1> QED
  BY <1>8, <1>9

\* A path that does not end by going back leads to a file of the directory before it.
LEMMA FileOfFront ==
    ASSUME NEW T, NEW p \in Seq(T), p # <<>>, Last(p) # ".."
    PROVE  Front(File(p)) = File(Front(p)) /\ File(p) # <<>>
<1> DEFINE a == Front(p)
           x == Last(p)
<1>1. a \in Seq(T) /\ x \in T /\ p = a \o <<x>>
  BY PopStack, AppendOfFront
<1>2. File(a) \in Seq(T) /\ Normal(File(a))
  BY <1>1, FileNormal
<1>3. File(File(a)) = File(a)
  BY <1>2, NormalFile
<1> DEFINE q == Append(File(a), x)
<1>4. q \in Seq(T) /\ q = File(a) \o <<x>>
  BY <1>1, <1>2, AppendProperties, AppendIsConcat
<1>5. <<x>> \in Seq(T)
  <2> HIDE DEF x
  <2> QED
    BY <1>1
<1>6. File(p) = File(q)
  <2> HIDE DEF a, x, q
  <2> QED
    BY <1>1, <1>2, <1>3, <1>4, <1>5, FileOfJoin
<1>7. Normal(q)
  <2>1. Step(File(a), x) = q
    BY DEF Step
  <2> HIDE DEF a, x, q
  <2> QED
    BY <1>1, <1>2, <2>1, StepNormal
<1>8. File(q) = q
  <2> HIDE DEF q
  <2> QED
    BY <1>4, <1>7, NormalFile
<1>9. Front(q) = File(a) /\ q # <<>>
  BY <1>1, <1>2, FrontOfAppend, AppendProperties
<1> QED
  BY <1>6, <1>8, <1>9

LEMMA IncludesFiles ==
    \A path : Includes!File(path) = File(path)
<1>1. ASSUME NEW f, NEW x PROVE Includes!Step(f, x) = Step(f, x)
  BY DEF Includes!Step, Step, Includes!Front, Front, Includes!Last, Last
<1> QED
  BY <1>1 DEF Includes!File, File

\* The directories a path is looked for in.
Places(dir) == <<dir, <<>>>> \o SearchDirs
FoundAt(dir, path) == {k \in DOMAIN Places(dir) : Includes!Exists(Places(dir)[k] \o path)}
FirstAt(dir, path) == {j \in FoundAt(dir, path) : \A h \in FoundAt(dir, path) : j <= h}

LEMMA ResolvedIs ==
    ASSUME NEW dir, NEW path
    PROVE  Includes!Resolved(dir, path) = {Places(dir)[k] \o path : k \in FirstAt(dir, path)}
BY DEF Includes!Resolved, Places, FoundAt, FirstAt

LEMMA PlacesAre ==
    ASSUME NEW T, NEW dir \in Seq(T)
    PROVE  /\ DOMAIN Places(dir) = 1..2 + Len(SearchDirs)
           /\ Len(SearchDirs) \in Nat
           /\ Places(dir)[1] = dir /\ Places(dir)[2] = <<>>
           /\ \A k \in 3..2 + Len(SearchDirs) :
                 Places(dir)[k] = SearchDirs[k - 2] /\ IsSequence(Places(dir)[k])
<1> DEFINE U == {dir, <<>>} \cup ToSet(SearchDirs)
           two == <<dir, <<>>>>
           n == Len(SearchDirs)
<1>1. SearchDirs \in Seq(ToSet(SearchDirs)) /\ \A k \in DOMAIN SearchDirs : IsSequence(SearchDirs[k])
  BY SearchDirsAssumption, Zenon DEF IsSequence
<1>2. SearchDirs \in Seq(U) /\ n \in Nat /\ DOMAIN SearchDirs = 1..n
  BY <1>1, SeqMonotonic, LenProperties
<1>3. two \in Seq(U) /\ Len(two) = 2 /\ two[1] = dir /\ two[2] = <<>>
  OBVIOUS
<1>4. Places(dir) = two \o SearchDirs
  BY DEF Places
<1> HIDE DEF two, U, n
<1> DEFINE p == Places(dir)
<1>5. /\ p \in Seq(U) /\ Len(p) = 2 + n
      /\ \A i \in 1..2 + n : p[i] = IF i <= 2 THEN two[i] ELSE SearchDirs[i - 2]
  <2>1. /\ two \o SearchDirs \in Seq(U) /\ Len(two \o SearchDirs) = Len(two) + Len(SearchDirs)
        /\ \A i \in 1..Len(two) + Len(SearchDirs) :
              (two \o SearchDirs)[i] = IF i <= Len(two) THEN two[i] ELSE SearchDirs[i - Len(two)]
    BY <1>2, <1>3, ConcatProperties
  <2>2. Len(two) = 2 /\ Len(SearchDirs) = n
    BY <1>3 DEF n
  <2> QED
    BY <1>4, <2>1, <2>2
<1>6. DOMAIN p = 1..2 + n
  BY <1>5, LenProperties
<1> HIDE DEF p
<1>7. 1 \in 1..2 + n /\ 2 \in 1..2 + n /\ 1 <= 2 /\ 2 <= 2
  BY <1>2
<1>8. ASSUME NEW k \in 3..2 + n PROVE p[k] = SearchDirs[k - 2] /\ IsSequence(p[k])
  <2>1. k \in 1..2 + n /\ ~ k <= 2 /\ k - 2 \in 1..n
    BY <1>2
  <2> QED
    BY <1>1, <1>2, <1>5, <2>1
<1>9. p[1] = dir /\ p[2] = <<>>
  BY <1>3, <1>5, <1>7
<1> QED
  BY <1>2, <1>6, <1>8, <1>9 DEF p, n

\* Directories that lead to the same place find the same.
LEMMA SameDirectory ==
    ASSUME NEW T, NEW a \in Seq(T), NEW b \in Seq(T), NEW path, IsSequence(path), File(a) = File(b)
    PROVE  /\ DOMAIN Places(a) = DOMAIN Places(b)
           /\ \A k \in DOMAIN Places(a) : File(Places(a)[k] \o path) = File(Places(b)[k] \o path)
           /\ FirstAt(a, path) = FirstAt(b, path)
<1> DEFINE n == 2 + Len(SearchDirs)
           p == Places(a)
           q == Places(b)
           U == T \cup ToSet(path)
<1>1. path \in Seq(U) /\ a \in Seq(U) /\ b \in Seq(U)
  BY SeqMonotonic DEF IsSequence
<1>2. DOMAIN p = 1..n /\ DOMAIN q = 1..n /\ n \in Nat
  BY PlacesAre
<1>3. /\ p[1] = a /\ q[1] = b /\ p[2] = q[2]
      /\ \A k \in 3..n : p[k] = q[k]
  BY PlacesAre
<1> HIDE DEF n, U
<1>4. ASSUME NEW k \in 1..n PROVE File(p[k] \o path) = File(q[k] \o path)
  <2>1. CASE k = 1
    BY <1>1, <1>3, <2>1, FileOfJoin
  <2>2. CASE k # 1
    <3>1. k = 2 \/ k \in 3..n
      BY <1>2, <2>2
    <3>2. p[k] = q[k]
      BY <1>3, <3>1
    <3> QED
      BY <3>2
  <2> QED
    BY <2>1, <2>2
<1> HIDE DEF p, q
<1>5. FoundAt(a, path) = FoundAt(b, path)
  BY <1>2, <1>4, IncludesFiles DEF FoundAt, Includes!Exists, p, q
<1>6. FirstAt(a, path) = FirstAt(b, path)
  BY <1>5 DEF FirstAt
<1> QED
  BY <1>2, <1>4, <1>6 DEF p, q

LEMMA SameNamed ==
    ASSUME NEW T, NEW a \in Seq(T), NEW b \in Seq(T), File(a) = File(b),
           NEW line, IsSequence(line.path)
    PROVE  Includes!Named(a, line) = Includes!Named(b, line)
<1> DEFINE S == FirstAt(a, line.path)
<1>1. /\ S = FirstAt(b, line.path)
      /\ \A k \in S : File(Places(a)[k] \o line.path) = File(Places(b)[k] \o line.path)
  <2>1. \A k \in S : k \in DOMAIN Places(a)
    BY DEF FirstAt, FoundAt
  <2> QED
    BY <2>1, SameDirectory
<1> HIDE DEF S
<1>2. ASSUME NEW d
      PROVE  {<<Includes!File(path), line.name>> : path \in Includes!Resolved(d, line.path)}
             = {<<File(Places(d)[k] \o line.path), line.name>> : k \in FirstAt(d, line.path)}
  <2>1. Includes!Resolved(d, line.path) = {Places(d)[k] \o line.path : k \in FirstAt(d, line.path)}
    BY ResolvedIs
  <2> QED
    BY <2>1, IncludesFiles
<1>3. {<<File(Places(a)[k] \o line.path), line.name>> : k \in FirstAt(a, line.path)}
      = {<<File(Places(b)[k] \o line.path), line.name>> : k \in FirstAt(b, line.path)}
  BY <1>1 DEF S
<1> QED
  BY <1>2, <1>3 DEF Includes!Named

\* The path found ends as the path asked for.
LEMMA ResolvedPath ==
    ASSUME NEW T, NEW dir \in Seq(T), NEW path, IsSequence(path), path # <<>>, Last(path) # "..",
           NEW target \in Includes!Resolved(dir, path)
    PROVE  /\ IsSequence(target) /\ target # <<>> /\ Last(target) # ".."
           /\ File(target) \in DOMAIN project.files
           /\ Includes!Resolved(dir, path) = {target}
<1>1. PICK k \in FirstAt(dir, path) : target = Places(dir)[k] \o path
  BY ResolvedIs
<1>2. k \in DOMAIN Places(dir) /\ Includes!Exists(target) /\ \A h \in FoundAt(dir, path) : k <= h
  BY <1>1 DEF FirstAt, FoundAt
<1> DEFINE d == Places(dir)[k]
<1>3. \E U : d \in Seq(U)
  <2>1. k \in 1..2 + Len(SearchDirs) /\ Len(SearchDirs) \in Nat
    BY <1>2, PlacesAre
  <2>2. CASE k \in 3..2 + Len(SearchDirs)
    <3>1. IsSequence(d)
      BY <2>2, PlacesAre
    <3> QED
      BY <3>1 DEF IsSequence
  <2>3. CASE k \notin 3..2 + Len(SearchDirs)
    <3>1. k = 1 \/ k = 2
      BY <2>1, <2>3
    <3>2. d = dir \/ d = <<>>
      BY <3>1, PlacesAre
    <3> QED
      BY <3>2, EmptySeq
  <2> QED
    BY <2>2, <2>3
<1>4. PICK U : d \in Seq(U)
  BY <1>3
<1> HIDE DEF d
<1> DEFINE V == U \cup ToSet(path)
<1>5. d \in Seq(V) /\ path \in Seq(V) /\ target = d \o path
  BY <1>1, <1>4, SeqMonotonic DEF IsSequence, d
<1> HIDE DEF V
<1>6. /\ target \in Seq(V) /\ Len(target) = Len(d) + Len(path)
      /\ \A i \in 1..Len(d) + Len(path) :
            target[i] = IF i <= Len(d) THEN d[i] ELSE path[i - Len(d)]
      /\ Len(d) \in Nat /\ Len(path) \in Nat \ {0} /\ Last(path) = path[Len(path)]
  <2>1. /\ d \o path \in Seq(V) /\ Len(d \o path) = Len(d) + Len(path)
        /\ \A i \in 1..Len(d) + Len(path) :
              (d \o path)[i] = IF i <= Len(d) THEN d[i] ELSE path[i - Len(d)]
    BY <1>5, ConcatProperties
  <2>2. Len(d) \in Nat /\ Len(path) \in Nat \ {0} /\ Last(path) = path[Len(path)]
    BY <1>5, PopStack, LenProperties
  <2> QED
    BY <1>5, <2>1, <2>2
<1>7. target # <<>> /\ Last(target) = path[Len(path)]
  <2>1. target # <<>>
    BY <1>6, EmptySeq
  <2>2. Last(target) = target[Len(d) + Len(path)]
    BY <1>6, <2>1, PopStack
  <2>3. /\ Len(d) + Len(path) \in 1..Len(d) + Len(path) /\ ~ Len(d) + Len(path) <= Len(d)
        /\ (Len(d) + Len(path)) - Len(d) = Len(path)
    BY <1>6
  <2> QED
    BY <1>6, <2>1, <2>2, <2>3
<1>8. IsSequence(target)
  BY <1>6, SequenceIs
<1>9. File(target) \in DOMAIN project.files
  BY <1>2, IncludesFiles DEF Includes!Exists
<1>10. ASSUME NEW h \in FirstAt(dir, path) PROVE h = k
  <2>1. h \in FoundAt(dir, path) /\ k \in FoundAt(dir, path) /\ h <= k /\ k <= h
    BY <1>1, <1>10 DEF FirstAt
  <2>2. h \in Nat /\ k \in Nat
    <3>1. h \in 1..2 + Len(SearchDirs) /\ k \in 1..2 + Len(SearchDirs) /\ Len(SearchDirs) \in Nat
      BY <2>1, PlacesAre DEF FoundAt
    <3> QED
      BY <3>1
  <2> QED
    BY <2>1, <2>2
<1>11. Includes!Resolved(dir, path) = {target}
  BY <1>1, <1>10, ResolvedIs
<1> QED
  BY <1>6, <1>7, <1>8, <1>9, <1>11

-----------------------------------------------------------------------------
\* What texts stand for.

AreSequences(L, x, y, z) == x \in Seq(L) /\ y \in Seq(L) /\ z \in Seq(L)

LEMMA JoinThree ==
    ASSUME NEW L, NEW x, NEW y, NEW z, AreSequences(L, x, y, z)
    PROVE  (x \o y) \o z = x \o (y \o z)
BY ConcatAssociative DEF AreSequences

\* A join is its first piece and the join of the others.
LEMMA FlattenSplit ==
    ASSUME NEW L, NEW seqs \in Seq(Seq(L)), seqs # <<>>
    PROVE  FlattenSeq(seqs) = Head(seqs) \o FlattenSeq(Tail(seqs))
<1> DEFINE n == Len(seqs)
           t == Tail(seqs)
           a == Head(seqs)
<1>1. /\ n \in Nat \ {0} /\ (\A i \in 1..n : seqs[i] \in Seq(L)) /\ a = seqs[1] /\ a \in Seq(L)
      /\ t \in Seq(Seq(L)) /\ Len(t) = n - 1 /\ \A i \in 1..n - 1 : t[i] = seqs[i + 1]
  <2>1. n \in Nat \ {0} /\ \A i \in 1..n : seqs[i] \in Seq(L)
    BY EmptySeq, LenProperties, ElementOfSeq
  <2>2. /\ Head(seqs) \in Seq(L) /\ Tail(seqs) \in Seq(Seq(L)) /\ Len(Tail(seqs)) = Len(seqs) - 1
        /\ \A i \in 1..Len(Tail(seqs)) : Tail(seqs)[i] = seqs[i + 1]
    BY HeadTailProperties
  <2> QED
    BY <2>1, <2>2
<1>2. PICK join : FlattenSeq(seqs) = join[n] /\ Glues(join, seqs, n)
  BY FlattenIs
<1>3. \A i \in 1..n : join[i] = IF i = 1 THEN seqs[i] ELSE join[i - 1] \o seqs[i]
  BY <1>2 DEF Glues
<1> HIDE DEF n, t, a
<1>4. CASE n = 1
  <2>1. t = <<>>
    BY <1>1, <1>4, EmptySeq
  <2>2. FlattenSeq(t) = <<>>
    BY <2>1 DEF FlattenSeq
  <2>3. join[1] = a
    BY <1>1, <1>3, <1>4
  <2>4. a \o <<>> = a
    BY <1>1, ConcatEmptySeq
  <2> QED
    BY <1>2, <1>4, <2>2, <2>3, <2>4 DEF t, a
<1>5. CASE n # 1
  <2> DEFINE m == n - 1
  <2>1. m \in Nat \ {0} /\ n = m + 1
    BY <1>1, <1>5
  <2>2. t # <<>> /\ Len(t) = m
    BY <1>1, <2>1, EmptySeq
  <2> HIDE DEF m
  <2>3. PICK g : FlattenSeq(t) = g[m] /\ Glues(g, t, m)
    BY <1>1, <2>2, FlattenIs
  <2>4. \A i \in 1..m : g[i] = IF i = 1 THEN t[i] ELSE g[i - 1] \o t[i]
    BY <2>3 DEF Glues
  <2>5. \A i \in 1..m : t[i] = seqs[i + 1] /\ t[i] \in Seq(L)
    BY <1>1, <2>1
  <2> DEFINE Bad == {i \in 1..m : ~ (g[i] \in Seq(L) /\ join[i + 1] = a \o g[i])}
  <2>6. Bad = {}
    <3> SUFFICES ASSUME Bad # {} PROVE FALSE
      OBVIOUS
    <3>1. Bad \in SUBSET Nat
      BY <2>1
    <3>2. PICK i \in Bad : \A j \in Bad : i <= j
      <4> HIDE DEF Bad
      <4> QED
        BY <3>1, LeastIndex
    <3>3. i \in 1..m /\ ~ (g[i] \in Seq(L) /\ join[i + 1] = a \o g[i])
      BY <3>2
    <3>4. i + 1 \in 1..n /\ i + 1 # 1 /\ (i + 1) - 1 = i /\ i \in 1..n
      BY <2>1, <3>3
    <3>5. join[i + 1] = join[i] \o t[i] /\ t[i] \in Seq(L)
      BY <1>3, <2>5, <3>3, <3>4
    <3>6. CASE i = 1
      <4>1. join[1] = a /\ g[1] = t[1]
        BY <1>1, <1>3, <2>4, <3>3, <3>4, <3>6
      <4> QED
        BY <3>3, <3>5, <3>6, <4>1
    <3>7. CASE i # 1
      <4> DEFINE h == i - 1
      <4>1. h \in 1..m /\ ~ i <= h /\ h + 1 = i
        BY <2>1, <3>3, <3>7
      <4> HIDE DEF h
      <4>2. g[h] \in Seq(L) /\ join[i] = a \o g[h]
        BY <3>2, <4>1
      <4>3. g[i] = g[h] \o t[i]
        BY <2>4, <3>3, <3>7 DEF h
      <4>4. (a \o g[h]) \o t[i] = a \o (g[h] \o t[i])
        <5>1. a \in Seq(L)
          BY <1>1
        <5>2. g[h] \in Seq(L)
          BY <4>2
        <5>3. t[i] \in Seq(L)
          BY <3>5
        <5>4. AreSequences(L, a, g[h], t[i])
          BY <5>1, <5>2, <5>3 DEF AreSequences
        <5> DEFINE y == g[h]
                   z == t[i]
        <5> HIDE DEF y, z, Bad
        <5>5. AreSequences(L, a, y, z)
          BY <5>4 DEF y, z
        <5>6. (a \o y) \o z = a \o (y \o z)
          BY <5>5, JoinThree
        <5> QED
          BY <5>6 DEF y, z
      <4>5. g[i] \in Seq(L)
        BY <3>5, <4>2, <4>3, ConcatProperties
      <4> QED
        BY <3>3, <3>5, <4>2, <4>3, <4>4, <4>5
    <3> QED
      BY <3>6, <3>7
  <2>7. m \in 1..m
    BY <2>1
  <2>8. join[n] = a \o g[m]
    BY <2>1, <2>6, <2>7
  <2> QED
    BY <1>2, <2>3, <2>8 DEF t, a
<1> QED
  BY <1>4, <1>5

\* All lines of a project.
AllLines ==
    ToSet(project.root) \cup UNION {ToSet(project.files[f]) : f \in DOMAIN project.files}

Answers == [Includes!Keys -> Seq(AllLines)]

LEMMA LinesAre ==
    ASSUME project \in IncludeProjects
    PROVE  /\ \A x \in AllLines : IsLine(x)
           /\ project.root \in Seq(AllLines)
           /\ \A f \in DOMAIN project.files : project.files[f] \in Seq(AllLines)
<1>1. IsSource(project.root) /\ \A f \in DOMAIN project.files : IsSource(project.files[f])
  BY SourcesAssumption
<1>2. ASSUME NEW s, IsSource(s), ToSet(s) \subseteq AllLines
      PROVE  s \in Seq(AllLines) /\ \A x \in ToSet(s) : IsLine(x)
  <2>1. s \in Seq(ToSet(s)) /\ \A x \in ToSet(s) : IsLine(x)
    BY <1>2, SourceLines
  <2> QED
    BY <1>2, <2>1, SeqMonotonic
<1>3. ToSet(project.root) \subseteq AllLines
      /\ \A f \in DOMAIN project.files : ToSet(project.files[f]) \subseteq AllLines
  BY DEF AllLines
<1>4. \A x \in AllLines : IsLine(x)
  <2> SUFFICES ASSUME NEW x \in AllLines PROVE IsLine(x)
    OBVIOUS
  <2>1. CASE x \in ToSet(project.root)
    BY <1>1, <1>2, <1>3, <2>1
  <2>2. CASE x \notin ToSet(project.root)
    <3>1. PICK f \in DOMAIN project.files : x \in ToSet(project.files[f])
      BY <2>2 DEF AllLines
    <3> QED
      BY <1>1, <1>2, <1>3, <3>1
  <2> QED
    BY <2>1, <2>2
<1> QED
  BY <1>1, <1>2, <1>3, <1>4

LEMMA StandsForType ==
    ASSUME NEW line \in AllLines, NEW dir, NEW text \in Answers
    PROVE  Includes!StandsFor(line, dir, text) \in Seq(AllLines)
<1>1. CASE line.op \in {"section", "endl"}
  BY <1>1, EmptySeq DEF Includes!StandsFor
<1>2. CASE line.op \notin {"section", "endl"} /\ line.op \notin {"include", "lib"}
  <2>1. Includes!StandsFor(line, dir, text) = <<line>>
    BY <1>2 DEF Includes!StandsFor
  <2>2. <<line>> \in Seq(AllLines)
    OBVIOUS
  <2> QED
    BY <2>1, <2>2
<1>3. CASE line.op \notin {"section", "endl"} /\ line.op \in {"include", "lib"}
  <2> DEFINE K == Includes!Named(dir, line)
             c == CHOOSE k \in K : TRUE
  <2>1. K = {} \/ c \in Includes!Keys
    BY DEF Includes!Named
  <2>2. Includes!StandsFor(line, dir, text) = IF K = {} THEN <<>> ELSE text[c]
    BY <1>3 DEF Includes!StandsFor
  <2> HIDE DEF K, c
  <2>3. CASE K = {}
    BY <2>2, <2>3, EmptySeq
  <2>4. CASE K # {}
    BY <2>1, <2>2, <2>4 DEF Answers
  <2> QED
    BY <2>3, <2>4
<1> QED
  BY <1>1, <1>2, <1>3

LEMMA SubstitutedIs ==
    ASSUME NEW lines \in Seq(AllLines), NEW dir, NEW text \in Answers
    PROVE  /\ Includes!Substituted(lines, dir, text) \in Seq(AllLines)
           /\ lines = <<>> => Includes!Substituted(lines, dir, text) = <<>>
           /\ lines # <<>> =>
                 Includes!Substituted(lines, dir, text)
                 = Includes!StandsFor(Head(lines), dir, text)
                   \o Includes!Substituted(Tail(lines), dir, text)
<1> DEFINE W(s) == [j \in DOMAIN s |-> Includes!StandsFor(s[j], dir, text)]
<1>1. ASSUME NEW s \in Seq(AllLines)
      PROVE  /\ W(s) \in Seq(Seq(AllLines)) /\ Len(W(s)) = Len(s) /\ Len(s) \in Nat
             /\ \A j \in 1..Len(s) : W(s)[j] = Includes!StandsFor(s[j], dir, text)
             /\ Includes!Substituted(s, dir, text) = FlattenSeq(W(s))
  <2> DEFINE e(j) == Includes!StandsFor(s[j], dir, text)
             n == Len(s)
  <2>1. n \in Nat /\ DOMAIN s = 1..n /\ \A j \in 1..n : s[j] \in AllLines
    BY LenProperties, ElementOfSeq
  <2>2. \A j \in 1..n : e(j) \in Seq(AllLines)
    BY <2>1, StandsForType
  <2>3. W(s) = [j \in 1..n |-> e(j)]
    BY <2>1
  <2>4. Includes!Substituted(s, dir, text) = FlattenSeq(W(s))
    BY DEF Includes!Substituted, Includes!FlattenSeq, FlattenSeq
  <2>5. \A j \in 1..n : W(s)[j] = e(j)
    BY <2>3
  <2> HIDE DEF e
  <2>6. [j \in 1..n |-> e(j)] \in Seq(Seq(AllLines))
    BY <2>1, <2>2, IsASeq
  <2>7. Len(W(s)) = n
    <3> HIDE DEF n
    <3>1. Len([j \in 1..n |-> e(j)]) = n
      BY <2>1
    <3> QED
      BY <2>3, <3>1
  <2> QED
    BY <2>1, <2>3, <2>4, <2>5, <2>6, <2>7 DEF e
<1> HIDE DEF W
<1>2. Includes!Substituted(lines, dir, text) \in Seq(AllLines)
  BY <1>1, FlattenSeqType
<1>3. ASSUME lines = <<>> PROVE Includes!Substituted(lines, dir, text) = <<>>
  <2>1. W(lines) \in Seq(Seq(AllLines)) /\ Len(W(lines)) = 0
    BY <1>1, <1>3
  <2>2. W(lines) = <<>>
    BY <2>1, EmptySeq
  <2>3. FlattenSeq(<<>>) = <<>>
    BY DEF FlattenSeq
  <2> QED
    BY <1>1, <2>2, <2>3
<1>4. ASSUME lines # <<>>
      PROVE  Includes!Substituted(lines, dir, text)
             = Includes!StandsFor(Head(lines), dir, text) \o Includes!Substituted(Tail(lines), dir, text)
  <2> DEFINE t == Tail(lines)
             n == Len(lines)
             w == W(lines)
             v == W(t)
  <2>1. /\ n \in Nat \ {0} /\ Head(lines) = lines[1]
        /\ t \in Seq(AllLines) /\ Len(t) = n - 1 /\ \A i \in 1..n - 1 : t[i] = lines[i + 1]
    <3>1. n \in Nat \ {0} /\ Head(lines) = lines[1]
      BY <1>4, EmptySeq, LenProperties
    <3>2. /\ Tail(lines) \in Seq(AllLines) /\ Len(Tail(lines)) = Len(lines) - 1
          /\ \A i \in 1..Len(Tail(lines)) : Tail(lines)[i] = lines[i + 1]
      BY <1>4, HeadTailProperties
    <3> QED
      BY <3>1, <3>2
  <2> HIDE DEF t
  <2>2. /\ w \in Seq(Seq(AllLines)) /\ Len(w) = n
        /\ \A j \in 1..n : w[j] = Includes!StandsFor(lines[j], dir, text)
        /\ Includes!Substituted(lines, dir, text) = FlattenSeq(w)
    BY <1>1
  <2>3. /\ v \in Seq(Seq(AllLines)) /\ Len(v) = n - 1
        /\ \A j \in 1..n - 1 : v[j] = Includes!StandsFor(t[j], dir, text)
        /\ Includes!Substituted(t, dir, text) = FlattenSeq(v)
    BY <1>1, <2>1
  <2> HIDE DEF w, v, n
  <2>4. w # <<>>
    BY <2>1, <2>2, EmptySeq
  <2>5. /\ Head(w) = w[1] /\ Tail(w) \in Seq(Seq(AllLines)) /\ Len(Tail(w)) = n - 1
        /\ \A i \in 1..n - 1 : Tail(w)[i] = w[i + 1]
    BY <2>2, <2>4, HeadTailProperties
  <2>6. Tail(w) = v
    <3>1. ASSUME NEW i \in 1..n - 1 PROVE Tail(w)[i] = v[i]
      <4>1. i + 1 \in 1..n
        BY <2>1
      <4> QED
        BY <2>1, <2>2, <2>3, <2>5, <4>1
    <3> QED
      BY <2>3, <2>5, <3>1, SeqEqual
  <2>7. FlattenSeq(w) = Head(w) \o FlattenSeq(Tail(w))
    BY <2>2, <2>4, FlattenSplit
  <2>8. 1 \in 1..n
    BY <2>1
  <2> QED
    BY <2>1, <2>2, <2>3, <2>5, <2>6, <2>7, <2>8 DEF t
<1> QED
  BY <1>2, <1>3, <1>4

\* Where files are looked for in the same place, texts stand for the same.
LEMMA SameSubstituted ==
    ASSUME project \in IncludeProjects, NEW lines \in Seq(AllLines), NEW text,
           NEW T, NEW a \in Seq(T), NEW b \in Seq(T), File(a) = File(b)
    PROVE  Includes!Substituted(lines, a, text) = Includes!Substituted(lines, b, text)
<1>1. ASSUME NEW j \in DOMAIN lines
      PROVE  Includes!StandsFor(lines[j], a, text) = Includes!StandsFor(lines[j], b, text)
  <2>1. lines[j] \in AllLines
    BY LenProperties, ElementOfSeq
  <2>2. IsSequence(lines[j].path)
    BY <2>1, LinesAre DEF IsLine
  <2>3. Includes!Named(a, lines[j]) = Includes!Named(b, lines[j])
    BY <2>2, SameNamed
  <2> QED
    BY <2>3 DEF Includes!StandsFor
<1> QED
  BY <1>1 DEF Includes!Substituted

\* The text that each file and section stands for, over the texts of one level less.
Level(n, below) ==
    [k \in Includes!Keys |->
        IF n = 0 THEN <<>>
        ELSE Includes!Substituted(Includes!Source(k), Includes!Front(k[1]), below)]
Levels(f, n) == f = [m \in 0..n |-> Level(m, f[m - 1])]

LEMMA LevelsExist ==
    ASSUME NEW n \in Nat
    PROVE  \E f : Levels(f, n)
<1> DEFINE Bad == {m \in 0..n : ~ \E s : Levels(s, m)}
<1> SUFFICES ASSUME Bad # {} PROVE FALSE
  OBVIOUS
<1>1. Bad \in SUBSET Nat
  OBVIOUS
<1>2. PICK m \in Bad : \A j \in Bad : m <= j
  <2> HIDE DEF Bad
  <2> QED
    BY <1>1, LeastIndex
<1>3. m \in 0..n /\ ~ \E s : Levels(s, m)
  BY <1>2
<1>4. CASE m = 0
  <2> DEFINE s == [k \in 0..0 |-> Level(0, <<>>)]
  <2>1. ASSUME NEW x PROVE Level(0, x) = Level(0, <<>>)
    BY DEF Level
  <2>2. s = [k \in 0..0 |-> Level(k, s[k - 1])]
    <3>1. \A k \in 0..0 : k = 0
      OBVIOUS
    <3>2. \A k \in 0..0 : Level(k, s[k - 1]) = Level(0, <<>>)
      <4> SUFFICES ASSUME NEW k \in 0..0 PROVE Level(k, s[k - 1]) = Level(0, <<>>)
        OBVIOUS
      <4>1. k = 0
        BY <3>1
      <4>2. Level(0, s[k - 1]) = Level(0, <<>>)
        BY <2>1
      <4> QED
        BY <4>1, <4>2
    <3> QED
      BY <3>2
  <2> HIDE DEF s
  <2>3. Levels(s, m)
    BY <1>4, <2>2 DEF Levels
  <2> QED
    BY <1>3, <2>3
<1>5. CASE m # 0
  <2>1. m - 1 \in 0..n /\ ~ m <= m - 1 /\ m \in Nat
    BY <1>3, <1>5
  <2>2. PICK g : Levels(g, m - 1)
    BY <1>2, <2>1
  <2> DEFINE last == Level(m, g[m - 1])
             s == [k \in 0..m |-> IF k = m THEN last ELSE g[k]]
  <2>3. ASSUME NEW k \in 0..m
        PROVE  s[k] = Level(k, s[k - 1])
    <3>1. CASE k = m
      <4>1. k # 0 /\ m - 1 \in 0..m /\ m - 1 # m
        BY <1>5, <2>1, <3>1
      <4>2. s[m - 1] = g[m - 1]
        BY <4>1
      <4> QED
        BY <3>1, <4>1, <4>2
    <3>2. CASE k # m /\ k # 0
      <4>1. k \in 0..(m - 1) /\ k - 1 \in 0..m /\ k - 1 # m
        BY <2>1, <3>2
      <4>2. g[k] = Level(k, g[k - 1])
        BY <2>2, <4>1 DEF Levels
      <4>3. s[k - 1] = g[k - 1]
        BY <4>1
      <4> QED
        BY <3>2, <4>2, <4>3
    <3>3. CASE k = 0
      <4>1. 0 \in 0..(m - 1) /\ 0 # m
        BY <1>5, <2>1
      <4>2. g[0] = Level(0, g[0 - 1]) /\ s[0] = g[0]
        BY <2>2, <4>1 DEF Levels
      <4>3. Level(0, g[0 - 1]) = Level(0, s[0 - 1])
        BY DEF Level
      <4> QED
        BY <3>3, <4>2, <4>3
    <3> QED
      BY <3>1, <3>2, <3>3
  <2>4. s = [k \in 0..m |-> s[k]]
    OBVIOUS
  <2> HIDE DEF s
  <2>5. Levels(s, m)
    BY <2>3, <2>4 DEF Levels
  <2> QED
    BY <1>3, <2>5
<1> QED
  BY <1>4, <1>5

LEMMA TextsAre ==
    /\ Includes!TextOf = [n \in 0..MaxIncludeDepth |-> Includes!TextOf[n]]
    /\ \A n \in 0..MaxIncludeDepth : Includes!TextOf[n] = Level(n, Includes!TextOf[n - 1])
<1>1. MaxIncludeDepth \in Nat
  BY LimitsAssumption
<1> DEFINE f == CHOOSE s : Levels(s, MaxIncludeDepth)
<1>2. Levels(f, MaxIncludeDepth)
  BY <1>1, LevelsExist
<1>3. Includes!TextOf = f
  BY DEF Includes!TextOf, Levels, Level
<1> HIDE DEF f
<1> QED
  BY <1>2, <1>3 DEF Levels

LEMMA SourceType ==
    ASSUME project \in IncludeProjects, NEW k \in Includes!Keys
    PROVE  Includes!Source(k) \in Seq(AllLines) /\ k[1] \in DOMAIN project.files
<1> DEFINE lines == project.files[k[1]]
<1>1. k[1] \in DOMAIN project.files
  <2>1. PICK f \in DOMAIN project.files :
            k \in {<<f, s>> : s \in {""} \cup Includes!SectionNames(project.files[f])}
    BY DEF Includes!Keys
  <2>2. PICK s : k = <<f, s>>
    BY <2>1
  <2> QED
    BY <2>1, <2>2
<1>2. lines \in Seq(AllLines) /\ IsSource(lines)
  BY <1>1, LinesAre, SourcesAssumption
<1>3. CASE ~ Includes!IsThere(lines, k[2])
  <2>1. Includes!Source(k) = <<>>
    BY <1>3 DEF Includes!Source
  <2> QED
    BY <1>1, <2>1, EmptySeq
<1>4. CASE Includes!IsThere(lines, k[2]) /\ k[2] = ""
  <2>1. Includes!Source(k) = lines
    BY <1>4 DEF Includes!Source, Includes!Part
  <2> QED
    BY <1>1, <1>2, <2>1
<1>5. CASE Includes!IsThere(lines, k[2]) /\ k[2] # ""
  <2>1. Includes!Source(k) = Block(lines, k[2]) /\ HasBlock(lines, k[2])
    BY <1>5, IncludesText DEF Includes!Source, Includes!Part, Includes!IsThere
  <2>2. Block(lines, k[2]) \in Seq(AllLines)
    <3> HIDE DEF lines
    <3> QED
      BY <1>2, <2>1, BlockOf
  <2> QED
    BY <1>1, <2>1, <2>2
<1> QED
  BY <1>3, <1>4, <1>5

LEMMA TextsType ==
    ASSUME project \in IncludeProjects
    PROVE  \A n \in 0..MaxIncludeDepth : Includes!TextOf[n] \in Answers
<1> DEFINE D == MaxIncludeDepth
           Bad == {n \in 0..D : Includes!TextOf[n] \notin Answers}
<1>1. D \in Nat
  BY LimitsAssumption
<1> SUFFICES ASSUME Bad # {} PROVE FALSE
  OBVIOUS
<1>2. Bad \in SUBSET Nat
  BY <1>1
<1>3. PICK n \in Bad : \A j \in Bad : n <= j
  <2> HIDE DEF Bad
  <2> QED
    BY <1>2, LeastIndex
<1>4. n \in 0..D /\ Includes!TextOf[n] \notin Answers /\ Includes!TextOf[n] = Level(n, Includes!TextOf[n - 1])
  BY <1>3, TextsAre
<1>5. CASE n = 0
  <2>1. <<>> \in Seq(AllLines)
    BY EmptySeq
  <2>2. Level(n, Includes!TextOf[n - 1]) \in Answers
    BY <1>5, <2>1 DEF Level, Answers
  <2> QED
    BY <1>4, <2>2
<1>6. CASE n # 0
  <2> DEFINE below == Includes!TextOf[n - 1]
  <2>1. n - 1 \in 0..D /\ ~ n <= n - 1
    BY <1>1, <1>4, <1>6
  <2>2. below \in Answers
    BY <1>3, <2>1
  <2> HIDE DEF below
  <2>3. ASSUME NEW k \in Includes!Keys
        PROVE  Includes!Substituted(Includes!Source(k), Includes!Front(k[1]), below) \in Seq(AllLines)
    BY <2>2, SourceType, SubstitutedIs
  <2>4. Level(n, below) \in Answers
    BY <1>6, <2>3 DEF Level, Answers
  <2> QED
    BY <1>4, <2>4 DEF below
<1> QED
  BY <1>5, <1>6

-----------------------------------------------------------------------------
\* What the open calls have still to write.

\* Call i asks for texts that may nest by that much less.
At(i) == Includes!TextOf[MaxIncludeDepth + 1 - i]
RestOf(f, i) == Includes!Substituted(f.todo, Front(f.path), At(i))

\* rest[i + 1] is what is written when call i and those around it go on.
Rests(rest, s) ==
    /\ rest \in [1..Len(s) + 1 -> Seq(AllLines)]
    /\ rest[1] = <<>>
    /\ \A i \in 1..Len(s) : rest[i + 1] = RestOf(s[i], i) \o rest[i]

\* g is the innermost call of s once it has written `piece`.
Writes(s, g, piece) ==
    /\ s # <<>> /\ piece \in Seq(AllLines)
    /\ RestOf(g, Len(s)) \in Seq(AllLines)
    /\ RestOf(s[Len(s)], Len(s)) = piece \o RestOf(g, Len(s))
Precedes(rest, s, t, piece) ==
    \E more : /\ Rests(more, t)
              /\ more[Len(s) + 1] \in Seq(AllLines)
              /\ rest[Len(s) + 1] = piece \o more[Len(s) + 1]

LEMMA RestsReplace ==
    ASSUME NEW S, NEW s \in Seq(S), NEW g, NEW piece, Writes(s, g, piece), NEW rest, Rests(rest, s)
    PROVE  Precedes(rest, s, Append(Front(s), g), piece)
<1> DEFINE n == Len(s)
           t == Append(Front(s), g)
           new == RestOf(g, n)
           more == [i \in 1..n + 1 |-> IF i = n + 1 THEN new \o rest[n] ELSE rest[i]]
<1>0. /\ s # <<>> /\ piece \in Seq(AllLines)
      /\ new \in Seq(AllLines) /\ RestOf(s[n], n) = piece \o new
  BY DEF Writes
<1>1. n \in Nat \ {0}
  BY <1>0, PopStack
<1>2. /\ Len(t) = n
      /\ \A i \in 1..n - 1 : t[i] = s[i]
      /\ t[n] = g
  <2>1. /\ Append(Front(s), g) \in Seq(S \cup {g})
        /\ Len(Append(Front(s), g)) = Len(s)
        /\ DOMAIN Append(Front(s), g) = 1..Len(s)
        /\ \A i \in 1..Len(s) - 1 : Append(Front(s), g)[i] = s[i]
        /\ Append(Front(s), g)[Len(s)] = g
    BY <1>0, ReplaceTop, ZenonT(30)
  <2> QED
    BY <2>1
<1>3. /\ \A i \in 1..n + 1 : rest[i] \in Seq(AllLines)
      /\ rest[1] = <<>>
      /\ \A i \in 1..n : rest[i + 1] = RestOf(s[i], i) \o rest[i]
  BY DEF Rests
<1>4. new \in Seq(AllLines) /\ piece \in Seq(AllLines) /\ RestOf(s[n], n) = piece \o new
  BY <1>0
<1> HIDE DEF n, t, new
<1>5. n \in 1..n + 1 /\ n + 1 \in 1..n + 1 /\ n \in 1..n /\ 1 \in 1..n + 1 /\ 1 # n + 1
  BY <1>1
<1>6. new \o rest[n] \in Seq(AllLines)
  BY <1>3, <1>4, <1>5, ConcatProperties
<1>7. more \in [1..n + 1 -> Seq(AllLines)] /\ more[1] = <<>> /\ more[n + 1] = new \o rest[n]
  BY <1>3, <1>5, <1>6
<1>8. ASSUME NEW i \in 1..n PROVE more[i + 1] = RestOf(t[i], i) \o more[i]
  <2>1. i \in 1..n + 1 /\ i # n + 1 /\ i + 1 \in 1..n + 1
    BY <1>1
  <2>2. more[i] = rest[i]
    BY <2>1
  <2>3. CASE i = n
    <3>1. more[n + 1] = RestOf(t[n], n) \o rest[n]
      BY <1>2, <1>7 DEF new
    <3> QED
      BY <2>2, <2>3, <3>1
  <2>4. CASE i # n
    <3>1. i \in 1..n - 1 /\ i + 1 # n + 1
      BY <1>1, <2>4
    <3>2. more[i + 1] = rest[i + 1] /\ t[i] = s[i]
      BY <1>2, <2>1, <3>1
    <3> QED
      BY <1>3, <2>2, <3>2
  <2> QED
    BY <2>3, <2>4
<1> HIDE DEF more
<1>9. Rests(more, t)
  BY <1>2, <1>7, <1>8 DEF Rests
<1>10. rest[n + 1] = piece \o more[n + 1]
  <2> DEFINE before == rest[n]
  <2>1. before \in Seq(AllLines)
    BY <1>3, <1>5
  <2>2. rest[n + 1] = (piece \o new) \o before
    BY <1>3, <1>4, <1>5
  <2> HIDE DEF before
  <2>3. (piece \o new) \o before = piece \o (new \o before)
    <3>1. AreSequences(AllLines, piece, new, before)
      BY <1>4, <2>1 DEF AreSequences
    <3> QED
      BY <3>1, JoinThree
  <2> QED
    BY <1>7, <2>2, <2>3 DEF before
<1>11. more[n + 1] \in Seq(AllLines)
  BY <1>6, <1>7
<1> QED
  BY <1>9, <1>10, <1>11 DEF Precedes, n, t

LEMMA RestsPush ==
    ASSUME NEW S, NEW s \in Seq(S), NEW f, RestOf(f, Len(s) + 1) \in Seq(AllLines),
           NEW rest, Rests(rest, s)
    PROVE  \E more : /\ Rests(more, Append(s, f))
                     /\ more[Len(s) + 2] = RestOf(f, Len(s) + 1) \o rest[Len(s) + 1]
<1> DEFINE n == Len(s)
           t == Append(s, f)
           new == RestOf(f, n + 1)
           more == [i \in 1..n + 2 |-> IF i = n + 2 THEN new \o rest[n + 1] ELSE rest[i]]
<1>1. /\ n \in Nat
      /\ Len(t) = n + 1
      /\ \A i \in 1..n : t[i] = s[i]
      /\ t[n + 1] = f
  BY PushStack
<1>2. /\ \A i \in 1..n + 1 : rest[i] \in Seq(AllLines)
      /\ rest[1] = <<>>
      /\ \A i \in 1..n : rest[i + 1] = RestOf(s[i], i) \o rest[i]
  BY DEF Rests
<1>3. new \in Seq(AllLines)
  OBVIOUS
<1> HIDE DEF n, t, new
<1>4. /\ n + 1 \in 1..n + 1 /\ n + 2 \in 1..n + 2 /\ 1 \in 1..n + 2 /\ 1 # n + 2 /\ (n + 1) + 1 = n + 2
      /\ \A i \in 1..n + 2 : i = n + 2 \/ i \in 1..n + 1
  BY <1>1
<1>5. new \o rest[n + 1] \in Seq(AllLines)
  BY <1>2, <1>3, <1>4, ConcatProperties
<1>6. more \in [1..n + 2 -> Seq(AllLines)] /\ more[1] = <<>> /\ more[n + 2] = new \o rest[n + 1]
  BY <1>2, <1>4, <1>5
<1>7. ASSUME NEW i \in 1..n + 1 PROVE more[i + 1] = RestOf(t[i], i) \o more[i]
  <2>1. i \in 1..n + 2 /\ i # n + 2 /\ i + 1 \in 1..n + 2
    BY <1>1
  <2>2. more[i] = rest[i]
    BY <2>1
  <2>3. CASE i = n + 1
    <3>1. more[(n + 1) + 1] = RestOf(t[n + 1], n + 1) \o rest[n + 1]
      BY <1>1, <1>4, <1>6 DEF new
    <3> QED
      BY <2>2, <2>3, <3>1
  <2>4. CASE i # n + 1
    <3>1. i \in 1..n /\ i + 1 # n + 2
      BY <1>1, <2>4
    <3>2. more[i + 1] = rest[i + 1] /\ t[i] = s[i]
      BY <1>1, <2>1, <3>1
    <3> QED
      BY <1>2, <2>2, <3>1, <3>2
  <2> QED
    BY <2>3, <2>4
<1> HIDE DEF more
<1>8. Rests(more, t)
  <2>1. Len(t) + 1 = n + 2
    BY <1>1
  <2> QED
    BY <1>1, <1>6, <1>7, <2>1 DEF Rests
<1> QED
  BY <1>6, <1>8 DEF n, t, new

LEMMA RestsPop ==
    ASSUME NEW S, NEW s \in Seq(S), s # <<>>, RestOf(s[Len(s)], Len(s)) = <<>>,
           NEW rest, Rests(rest, s)
    PROVE  \E more : Rests(more, Front(s)) /\ more[Len(Front(s)) + 1] = rest[Len(s) + 1]
<1> DEFINE n == Len(s)
           t == Front(s)
           more == [i \in 1..n |-> rest[i]]
<1>1. /\ n \in Nat \ {0}
      /\ Len(t) = n - 1
      /\ \A i \in 1..n - 1 : t[i] = s[i]
  BY PopStack
<1>2. /\ \A i \in 1..n + 1 : rest[i] \in Seq(AllLines)
      /\ rest[1] = <<>>
      /\ \A i \in 1..n : rest[i + 1] = RestOf(s[i], i) \o rest[i]
  BY DEF Rests
<1>3. RestOf(s[n], n) = <<>>
  OBVIOUS
<1> HIDE DEF n, t
<1>4. n \in 1..n /\ n \in 1..n + 1 /\ 1 \in 1..n /\ \A i \in 1..n : i \in 1..n + 1
  BY <1>1
<1>5. more \in [1..n -> Seq(AllLines)] /\ more[1] = <<>> /\ more[n] = rest[n]
  BY <1>2, <1>4
<1>6. ASSUME NEW i \in 1..n - 1 PROVE more[i + 1] = RestOf(t[i], i) \o more[i]
  <2>1. i \in 1..n /\ i + 1 \in 1..n
    BY <1>1
  <2>2. more[i] = rest[i] /\ more[i + 1] = rest[i + 1] /\ t[i] = s[i]
    BY <1>1, <2>1
  <2> QED
    BY <1>2, <2>1, <2>2
<1> HIDE DEF more
<1>7. Len(t) + 1 = n
  BY <1>1
<1>8. Rests(more, t)
  BY <1>1, <1>5, <1>6, <1>7 DEF Rests
<1>9. rest[n + 1] = rest[n]
  <2>1. rest[n + 1] = <<>> \o rest[n] /\ rest[n] \in Seq(AllLines)
    BY <1>2, <1>3, <1>4
  <2> QED
    BY <2>1, ConcatEmptySeq
<1> QED
  BY <1>5, <1>7, <1>8, <1>9 DEF n, t

IsPath(path) == IsSequence(path) /\ path # <<>> /\ Last(path) # ".."

\* The texts are lines of the project, read where their path says.
Located(s) ==
    \E S : s \in Seq(S) /\ \A f \in S : IsText(f) /\ f.todo \in Seq(AllLines) /\ IsPath(f.path)

\* The file that a line asks for is what stands for the line.
LEMMA TargetStands ==
    ASSUME project \in IncludeProjects, NEW line \in AllLines, line.op \in {"include", "lib"},
           NEW T, NEW dir \in Seq(T), NEW target \in Includes!Resolved(dir, line.path),
           Includes!IsThere(Includes!Lines(target), line.name), NEW text
    PROVE  LET k == <<File(target), line.name>>
           IN  /\ k \in Includes!Keys
               /\ Includes!StandsFor(line, dir, text) = text[k]
               /\ Includes!Source(k) = Includes!Part(Includes!Lines(target), line.name)
               /\ IsPath(target)
<1> DEFINE k == <<File(target), line.name>>
           lines == Includes!Lines(target)
           K == Includes!Named(dir, line)
<1>1. IsSequence(line.path) /\ line.path # <<>> /\ Last(line.path) # ".."
  BY LinesAre DEF IsLine
<1>2. /\ IsPath(target) /\ File(target) \in DOMAIN project.files
      /\ Includes!Resolved(dir, line.path) = {target}
  BY <1>1, ResolvedPath DEF IsPath
<1>3. lines = project.files[File(target)] /\ lines \in Seq(AllLines)
  BY <1>2, IncludesFiles, LinesAre DEF Includes!Lines
<1> HIDE DEF lines
<1>4. line.name \in {""} \cup Includes!SectionNames(project.files[File(target)])
  <2>1. CASE line.name = ""
    BY <2>1
  <2>2. CASE line.name # ""
    <3>1. HasBlock(lines, line.name)
      BY <2>2, IncludesText DEF Includes!IsThere, lines
    <3>2. line.name \in SectionNames(lines)
      BY <1>3, <3>1, BlockOf
    <3> QED
      BY <1>3, <3>2 DEF SectionNames, Includes!SectionNames
  <2> QED
    BY <2>1, <2>2
<1>5. k \in Includes!Keys
  <2> DEFINE f == File(target)
             Names(g) == {""} \cup Includes!SectionNames(project.files[g])
             KeysOf(g) == {<<g, s>> : s \in Names(g)}
  <2>1. f \in DOMAIN project.files /\ line.name \in Names(f)
    BY <1>2, <1>4
  <2>2. k \in KeysOf(f)
    BY <2>1
  <2>3. Includes!Keys = UNION {KeysOf(g) : g \in DOMAIN project.files}
    BY DEF Includes!Keys
  <2> HIDE DEF KeysOf, k, f
  <2> QED
    BY <2>1, <2>2, <2>3
<1>6. K = {k}
  <2>1. {<<Includes!File(path), line.name>> : path \in Includes!Resolved(dir, line.path)} = {k}
    BY <1>2, IncludesFiles
  <2> HIDE DEF k
  <2> QED
    BY <1>5, <2>1 DEF Includes!Named
<1>7. (CHOOSE x \in {k} : TRUE) = k
  OBVIOUS
<1>8. Includes!StandsFor(line, dir, text) = text[CHOOSE x \in K : TRUE] \/ K = {}
  BY DEF Includes!StandsFor
<1>9. Includes!StandsFor(line, dir, text) = text[k]
  <2>1. K # {}
    BY <1>6
  <2> HIDE DEF K
  <2>2. (CHOOSE x \in K : TRUE) = k
    BY <1>6, <1>7
  <2> QED
    BY <1>8, <2>1, <2>2 DEF K
<1>10. Includes!Source(k) = Includes!Part(lines, line.name)
  BY <1>3 DEF Includes!Source, lines
<1> QED
  BY <1>2, <1>5, <1>9, <1>10 DEF lines

\* Its text stands for what the call for it will write.
LEMMA TargetWrites ==
    ASSUME project \in IncludeProjects, NEW target, IsPath(target), NEW name,
           <<File(target), name>> \in Includes!Keys, NEW i \in 1..MaxIncludeDepth
    PROVE  LET k == <<File(target), name>>
               f == Includes!Text(target, Includes!Source(k))
           IN  At(i)[k] = RestOf(f, i + 1) /\ RestOf(f, i + 1) \in Seq(AllLines)
<1> DEFINE k == <<File(target), name>>
           lines == Includes!Source(k)
           f == Includes!Text(target, lines)
           D == MaxIncludeDepth
           d == Front(target)
           T == ToSet(target)
<1>1. D \in Nat
  BY LimitsAssumption
<1>2. lines \in Seq(AllLines)
  BY SourceType
<1>3. target \in Seq(T) /\ target # <<>> /\ Last(target) # ".."
  BY DEF IsPath, IsSequence
<1>4. Front(File(target)) = File(d) /\ d \in Seq(T)
  <2> HIDE DEF T
  <2> QED
    BY <1>3, FileOfFront, PopStack
<1>5. File(d) \in Seq(T) /\ File(File(d)) = File(d)
  <2> HIDE DEF T, d
  <2>1. File(d) \in Seq(T) /\ Normal(File(d))
    BY <1>4, FileNormal
  <2> QED
    BY <2>1, NormalFile
<1>6. /\ D + 1 - i \in 0..D /\ D + 1 - i # 0 /\ (D + 1 - i) - 1 = D + 1 - (i + 1)
      /\ D + 1 - (i + 1) \in 0..D
  BY <1>1
<1> DEFINE below == At(i + 1)
<1>7. At(i) = Level(D + 1 - i, below)
  <2> DEFINE m == D + 1 - i
  <2>1. m \in 0..D /\ m - 1 = D + 1 - (i + 1)
    BY <1>6
  <2> HIDE DEF m
  <2>2. Includes!TextOf[m] = Level(m, Includes!TextOf[m - 1])
    BY <2>1, TextsAre
  <2> QED
    BY <2>1, <2>2 DEF m, At
<1>8. below \in Answers
  BY <1>6, TextsType DEF At
<1> HIDE DEF below
<1>9. At(i)[k] = Includes!Substituted(lines, Front(k[1]), below)
  BY <1>6, <1>7, IncludesText DEF Level
<1>10. Front(k[1]) = File(d)
  BY <1>4
<1>11. Includes!Substituted(lines, File(d), below) = Includes!Substituted(lines, d, below)
  <2> HIDE DEF lines, d, T
  <2> QED
    BY <1>2, <1>4, <1>5, SameSubstituted
<1>12. f.path = target /\ f.todo = lines
  BY DEF Includes!Text
<1>13. RestOf(f, i + 1) = Includes!Substituted(lines, d, below)
  BY <1>12 DEF RestOf, below
<1>14. Includes!Substituted(lines, d, below) \in Seq(AllLines)
  BY <1>2, <1>8, SubstitutedIs
<1> QED
  BY <1>9, <1>10, <1>11, <1>13, <1>14

Reference == Includes!Substituted(project.root, <<>>, Includes!TextOf[MaxIncludeDepth])

\* What is written and what the open calls have still to write come to the reference.
Awaiting(s, o) == \E rest : Rests(rest, s) /\ o \o rest[Len(s) + 1] = Reference

Inlined(s, o, e) ==
    /\ Located(s) /\ s # <<>> /\ o \in Seq(AllLines)
    /\ e = "" /\ Len(s) <= MaxIncludeDepth + 1 => Awaiting(s, o)

LEMMA InlinedStays ==
    ASSUME project' = project, Inlined(texts', out', includeError')
    PROVE  Inlined(texts, out, includeError)'
<1>1. AllLines' = AllLines
  BY DEF AllLines
<1>2. Located(texts)' <=> Located(texts')
  BY <1>1 DEF Located
<1>3. Includes!Keys' = Includes!Keys
  BY DEF Includes!Keys, Includes!SectionNames
<1>4. ASSUME NEW line, NEW dir, NEW text
      PROVE  Includes!StandsFor(line, dir, text)' = Includes!StandsFor(line, dir, text)
  <2>1. ASSUME NEW d, NEW path PROVE Includes!Resolved(d, path)' = Includes!Resolved(d, path)
    BY DEF Includes!Resolved, Includes!Exists
  <2>2. Includes!Named(dir, line)' = Includes!Named(dir, line)
    BY <1>3, <2>1 DEF Includes!Named
  <2> QED
    BY <2>2 DEF Includes!StandsFor
<1>5. ASSUME NEW lines, NEW dir, NEW text
      PROVE  Includes!Substituted(lines, dir, text)' = Includes!Substituted(lines, dir, text)
  BY <1>4 DEF Includes!Substituted
<1>6. ASSUME NEW k PROVE Includes!Source(k)' = Includes!Source(k)
  BY DEF Includes!Source
<1>7. Includes!TextOf' = Includes!TextOf
  BY <1>3, <1>5, <1>6 DEF Includes!TextOf
<1>8. Reference' = Reference
  BY <1>5, <1>7 DEF Reference
<1>9. ASSUME NEW f, NEW i PROVE RestOf(f, i)' = RestOf(f, i)
  BY <1>5, <1>7 DEF RestOf, At
<1>10. Awaiting(texts, out)' <=> Awaiting(texts', out')
  BY <1>1, <1>8, <1>9 DEF Awaiting, Rests
<1> QED
  BY <1>1, <1>2, <1>10 DEF Inlined

LEMMA InitInlined ==
    ASSUME Includes!Init
    PROVE  Inlined(texts, out, includeError)
<1> DEFINE f == Includes!Text(Includes!Input, project.root)
           T == {f}
           D == MaxIncludeDepth
<1>1. project \in IncludeProjects /\ texts = <<f>> /\ out = <<>> /\ D \in Nat
  BY LimitsAssumption DEF Includes!Init
<1>2. f = [path |-> <<"<input>">>, todo |-> project.root]
  BY DEF Includes!Text, Includes!Input
<1>3. IsText(f) /\ f.path = <<"<input>">> /\ f.todo = project.root
  BY <1>2, TextFields
<1>4. IsPath(<<"<input>">>) /\ Front(<<"<input>">>) = <<>>
  <2> DEFINE p == <<"<input>">>
  <2>1. p \in Seq({"<input>"}) /\ p # <<>> /\ Len(p) = 1 /\ p[1] = "<input>"
    OBVIOUS
  <2>2. "<input>" # ".."
    OBVIOUS
  <2> HIDE DEF p
  <2>3. IsSequence(p)
    BY <2>1, SequenceIs
  <2>4. Last(p) = "<input>" /\ Front(p) \in Seq({"<input>"}) /\ Len(Front(p)) = 1 - 1
    BY <2>1, PopStack
  <2>5. Front(p) = <<>>
    BY <2>4, EmptySeq
  <2> QED
    BY <2>1, <2>2, <2>3, <2>4, <2>5 DEF IsPath, p
<1>5. f.todo \in Seq(AllLines)
  BY <1>1, <1>3, LinesAre
<1> HIDE DEF f, D
<1>6. texts \in Seq(T) /\ texts # <<>> /\ Len(texts) = 1 /\ texts[1] = f
  BY <1>1
<1>7. Located(texts)
  <2>1. \A g \in T : IsText(g) /\ g.todo \in Seq(AllLines) /\ IsPath(g.path)
    BY <1>3, <1>4, <1>5
  <2> HIDE DEF T
  <2> QED
    BY <1>6, <2>1 DEF Located
<1>8. RestOf(f, 1) = Reference
  <2>1. At(1) = Includes!TextOf[D]
    <3>1. D + 1 - 1 = D
      BY <1>1
    <3> QED
      BY <3>1 DEF At, D
  <2> QED
    BY <1>3, <1>4, <2>1 DEF RestOf, Reference, D
<1>9. Reference \in Seq(AllLines)
  <2>1. Includes!TextOf[D] \in Answers
    <3>1. D \in 0..D
      BY <1>1
    <3> QED
      BY <1>1, <3>1, TextsType DEF D
  <2> QED
    BY <1>1, <2>1, LinesAre, SubstitutedIs DEF Reference, D
<1> DEFINE rest == [i \in 1..2 |-> IF i = 1 THEN <<>> ELSE Reference]
<1>10. rest \in [1..2 -> Seq(AllLines)] /\ rest[1] = <<>> /\ rest[2] = Reference
  <2>1. <<>> \in Seq(AllLines)
    BY EmptySeq
  <2> QED
    BY <1>9, <2>1
<1> HIDE DEF rest
<1>11. Rests(rest, texts)
  <2>1. ASSUME NEW i \in 1..1 PROVE rest[i + 1] = RestOf(texts[i], i) \o rest[i]
    <3>1. i = 1 /\ i + 1 = 2
      OBVIOUS
    <3>2. Reference \o <<>> = Reference
      BY <1>9, ConcatEmptySeq
    <3> QED
      BY <1>6, <1>8, <1>10, <3>1, <3>2
  <2>2. Len(texts) + 1 = 2
    BY <1>6
  <2> QED
    BY <1>6, <1>10, <2>1, <2>2 DEF Rests
<1>12. out \o rest[Len(texts) + 1] = Reference
  <2>1. Len(texts) + 1 = 2
    BY <1>6
  <2>2. <<>> \o Reference = Reference
    BY <1>9, ConcatEmptySeq
  <2> QED
    BY <1>1, <1>10, <2>1, <2>2
<1>13. out \in Seq(AllLines)
  BY <1>1, EmptySeq
<1> QED
  BY <1>6, <1>7, <1>11, <1>12, <1>13 DEF Inlined, Awaiting

\* The innermost call reads a line, which stands for Piece.
Reading(s) == Located(s) /\ s # <<>> /\ Last(s).todo # <<>> /\ Len(s) <= MaxIncludeDepth + 1
ItsLine(s) == Head(Last(s).todo)
Piece(s) == Includes!StandsFor(ItsLine(s), Front(Last(s).path), At(Len(s)))
ReadOn(s) == Append(Front(s), [Last(s) EXCEPT !.todo = Tail(@)])

LEMMA LineRead ==
    ASSUME project \in IncludeProjects, NEW s, Reading(s)
    PROVE  /\ ItsLine(s) \in AllLines /\ Piece(s) \in Seq(AllLines) /\ IsPath(Last(s).path)
           /\ Located(ReadOn(s)) /\ ReadOn(s) # <<>> /\ Len(ReadOn(s)) = Len(s)
           /\ \A rest : Rests(rest, s) => Precedes(rest, s, ReadOn(s), Piece(s))
<1> DEFINE n == Len(s)
           D == MaxIncludeDepth
           f == Last(s)
           line == Head(f.todo)
           dir == Front(f.path)
           g == [f EXCEPT !.todo = Tail(@)]
           mid == Append(Front(s), g)
           piece == Includes!StandsFor(line, dir, At(n))
<1>0. Located(s) /\ s # <<>> /\ f.todo # <<>> /\ n <= D + 1
  BY DEF Reading
<1>1. PICK S : s \in Seq(S) /\ \A x \in S : IsText(x) /\ x.todo \in Seq(AllLines) /\ IsPath(x.path)
  BY <1>0 DEF Located
<1>2. /\ n \in Nat \ {0} /\ D \in Nat /\ f = s[n] /\ f \in S
      /\ IsText(f) /\ f.todo \in Seq(AllLines) /\ IsPath(f.path)
  BY <1>0, <1>1, PopStack, LimitsAssumption
<1>3. line \in AllLines /\ Tail(f.todo) \in Seq(AllLines) /\ f.todo # <<>>
  BY <1>0, <1>2, HeadTailProperties
<1>4. IsText(g) /\ g.todo = Tail(f.todo) /\ g.path = f.path
  <2> HIDE DEF f
  <2>1. PICK T : f \in [path : T, todo : T]
    BY <1>2 DEF IsText
  <2>2. g.path = f.path
    BY <2>1
  <2> QED
    BY <1>2, <2>2, TextRest
<1>5. At(n) \in Answers
  <2> HIDE DEF n
  <2>1. D + 1 - n \in 0..D
    BY <1>0, <1>2 DEF n
  <2> QED
    BY <2>1, TextsType DEF At
<1> HIDE DEF f, g
<1>6. piece \in Seq(AllLines)
  BY <1>3, <1>5, StandsForType
<1>7. /\ RestOf(f, n) = piece \o RestOf(g, n)
      /\ RestOf(g, n) \in Seq(AllLines)
  <2>1. Includes!Substituted(f.todo, dir, At(n)) = piece \o Includes!Substituted(Tail(f.todo), dir, At(n))
    BY <1>2, <1>3, <1>5, SubstitutedIs
  <2>2. Includes!Substituted(Tail(f.todo), dir, At(n)) \in Seq(AllLines)
    BY <1>3, <1>5, SubstitutedIs
  <2> QED
    BY <1>4, <2>1, <2>2 DEF RestOf
<1> HIDE DEF piece
<1>8. mid \in Seq(S \cup {g}) /\ Len(mid) = n
  <2>1. /\ Append(Front(s), g) \in Seq(S \cup {g})
        /\ Len(Append(Front(s), g)) = Len(s)
        /\ DOMAIN Append(Front(s), g) = 1..Len(s)
        /\ \A i \in 1..Len(s) - 1 : Append(Front(s), g)[i] = s[i]
        /\ Append(Front(s), g)[Len(s)] = g
    BY <1>0, <1>1, ReplaceTop, ZenonT(30)
  <2> QED
    BY <2>1
<1>9. ASSUME NEW rest, Rests(rest, s) PROVE Precedes(rest, s, mid, piece)
  <2>1. Writes(s, g, piece)
    BY <1>0, <1>2, <1>6, <1>7 DEF Writes
  <2> HIDE DEF n, mid
  <2>2. Precedes(rest, s, Append(Front(s), g), piece)
    BY <1>1, <1>9, <2>1, RestsReplace
  <2> QED
    BY <2>2 DEF mid
<1> HIDE DEF mid
<1>10. Located(mid) /\ mid # <<>>
  <2>1. \A x \in S \cup {g} : IsText(x) /\ x.todo \in Seq(AllLines) /\ IsPath(x.path)
    BY <1>1, <1>2, <1>3, <1>4
  <2>2. mid # <<>>
    BY <1>2, <1>8
  <2> QED
    BY <1>8, <2>1, <2>2 DEF Located
<1> QED
  BY <1>2, <1>3, <1>6, <1>8, <1>9, <1>10 DEF f, g, mid, piece, ItsLine, Piece, ReadOn

\* One line is written or dropped.
LEMMA LineGoesOut ==
    ASSUME project \in IncludeProjects, NEW s, Reading(s), NEW o \in Seq(AllLines), Awaiting(s, o)
    PROVE  o \o Piece(s) \in Seq(AllLines) /\ Awaiting(ReadOn(s), o \o Piece(s))
<1> DEFINE p == Piece(s)
           t == ReadOn(s)
           n == Len(s)
<1>1. /\ p \in Seq(AllLines) /\ Len(t) = n
      /\ \A rest : Rests(rest, s) => Precedes(rest, s, t, p)
  BY LineRead
<1>2. PICK rest : Rests(rest, s) /\ o \o rest[n + 1] = Reference
  BY DEF Awaiting
<1> HIDE DEF p, t, n
<1>3. PICK more : /\ Rests(more, t)
                  /\ more[n + 1] \in Seq(AllLines)
                  /\ rest[n + 1] = p \o more[n + 1]
  <2>1. Precedes(rest, s, t, p)
    BY <1>1, <1>2
  <2> QED
    BY <2>1 DEF Precedes, n
<1> DEFINE m == more[n + 1]
<1>4. o \o p \in Seq(AllLines)
  BY <1>1, ConcatProperties
<1>5. (o \o p) \o m = Reference
  <2>1. m \in Seq(AllLines) /\ o \o (p \o m) = Reference
    BY <1>2, <1>3
  <2> HIDE DEF m
  <2>2. (o \o p) \o m = o \o (p \o m)
    <3>1. AreSequences(AllLines, o, p, m)
      BY <1>1, <2>1 DEF AreSequences
    <3> QED
      BY <3>1, JoinThree
  <2> QED
    BY <2>1, <2>2
<1>6. Awaiting(t, o \o p)
  BY <1>1, <1>3, <1>5 DEF Awaiting
<1> QED
  BY <1>4, <1>6 DEF p, t

\* A line is answered by a call for what stands for it.
LEMMA LineCalls ==
    ASSUME project \in IncludeProjects, NEW s, Reading(s), NEW o, Awaiting(s, o),
           NEW f, RestOf(f, Len(s) + 1) = Piece(s)
    PROVE  Awaiting(Append(ReadOn(s), f), o)
<1> DEFINE p == Piece(s)
           t == ReadOn(s)
           n == Len(s)
<1>1. /\ p \in Seq(AllLines) /\ Len(t) = n /\ Located(t)
      /\ \A rest : Rests(rest, s) => Precedes(rest, s, t, p)
  BY LineRead
<1>2. PICK rest : Rests(rest, s) /\ o \o rest[n + 1] = Reference
  BY DEF Awaiting
<1>3. RestOf(f, n + 1) = p
  OBVIOUS
<1> HIDE DEF p, t, n
<1>4. PICK more : Rests(more, t) /\ rest[n + 1] = p \o more[n + 1]
  <2>1. Precedes(rest, s, t, p)
    BY <1>1, <1>2
  <2> QED
    BY <2>1 DEF Precedes, n
<1>5. PICK S : t \in Seq(S)
  BY <1>1 DEF Located
<1>6. RestOf(f, Len(t) + 1) = p /\ Len(t) \in Nat
  BY <1>1, <1>3, <1>5, LenProperties
<1>7. PICK last : /\ Rests(last, Append(t, f))
                  /\ last[Len(t) + 2] = RestOf(f, Len(t) + 1) \o more[Len(t) + 1]
  <2>1. RestOf(f, Len(t) + 1) \in Seq(AllLines)
    BY <1>1, <1>6
  <2> QED
    BY <1>4, <1>5, <2>1, RestsPush
<1>8. Len(Append(t, f)) + 1 = Len(t) + 2
  <2>1. Len(Append(t, f)) = Len(t) + 1
    BY <1>5, PushStack
  <2> QED
    BY <1>6, <2>1
<1>9. o \o last[Len(Append(t, f)) + 1] = Reference
  BY <1>1, <1>2, <1>4, <1>6, <1>7, <1>8
<1> QED
  BY <1>7, <1>9 DEF Awaiting, t

\* A call returns with nothing left to write.
LEMMA CallReturns ==
    ASSUME project \in IncludeProjects, NEW s, Located(s), s # <<>>, Last(s).todo = <<>>,
           Len(s) <= MaxIncludeDepth + 1, NEW o, Awaiting(s, o)
    PROVE  Located(Front(s)) /\ Awaiting(Front(s), o) /\ Len(Front(s)) = Len(s) - 1 /\ Len(s) \in Nat \ {0}
<1> DEFINE n == Len(s)
           D == MaxIncludeDepth
<1>1. PICK S : s \in Seq(S) /\ \A x \in S : IsText(x) /\ x.todo \in Seq(AllLines) /\ IsPath(x.path)
  BY DEF Located
<1>2. PICK rest : Rests(rest, s) /\ o \o rest[n + 1] = Reference
  BY DEF Awaiting
<1>3. /\ n \in Nat \ {0} /\ D \in Nat /\ Last(s) = s[n] /\ n <= D + 1
      /\ Front(s) \in Seq(S) /\ Len(Front(s)) = n - 1
  BY <1>1, PopStack, LimitsAssumption
<1>4. At(n) \in Answers
  <2> HIDE DEF n
  <2>1. D + 1 - n \in 0..D
    BY <1>3
  <2> QED
    BY <2>1, TextsType DEF At
<1>5. RestOf(s[n], n) = <<>>
  <2>1. s[n].todo = <<>>
    BY <1>3
  <2>2. <<>> \in Seq(AllLines)
    BY EmptySeq
  <2> QED
    BY <1>4, <2>1, <2>2, SubstitutedIs DEF RestOf
<1>6. PICK more : Rests(more, Front(s)) /\ more[Len(Front(s)) + 1] = rest[Len(s) + 1]
  BY <1>1, <1>2, <1>5, RestsPop
<1>7. Awaiting(Front(s), o)
  BY <1>2, <1>6 DEF Awaiting
<1> QED
  BY <1>1, <1>3, <1>7 DEF Located

LEMMA SmallNumbers ==
    /\ \A d \in Nat : 1 <= d + 1
    /\ \A n \in Nat : n > 1 => n - 1 # 0
    /\ 1 - 1 = 0 /\ 0 + 1 = 1
OBVIOUS

LEMMA IncludesInline ==
    ASSUME project \in IncludeProjects, Inlined(texts, out, includeError), Includes!Expand
    PROVE  Inlined(texts', out', includeError')
<1> DEFINE top == Last(texts)
           mid == ReadOn(texts)
           line == ItsLine(texts)
           dir == Front(top.path)
           n == Len(texts)
           D == MaxIncludeDepth
<1>1. Includes!Top = top /\ Includes!Passed = mid /\ Includes!Item = line
  BY IncludesText DEF Includes!Top, Includes!Passed, Includes!Item, ReadOn, ItsLine
<1>2. /\ Located(texts) /\ texts # <<>> /\ out \in Seq(AllLines)
      /\ includeError = "" /\ n <= D + 1 => Awaiting(texts, out)
  BY DEF Inlined
<1>3. PICK S : texts \in Seq(S) /\ \A x \in S : IsText(x) /\ x.todo \in Seq(AllLines) /\ IsPath(x.path)
  BY <1>2 DEF Located
<1>4. n \in Nat \ {0} /\ D \in Nat
  BY <1>2, <1>3, PopStack, LimitsAssumption
<1>5. ~ Includes!TooDeep => n <= D + 1
  <2> HIDE DEF n, D
  <2>1. Includes!TooDeep <=> n - 1 > D
    BY DEF Includes!TooDeep, n, D
  <2> QED
    BY <1>4, <2>1
<1>6. ASSUME includeError = "", ~ Includes!TooDeep, top.todo # <<>>
      PROVE  /\ Reading(texts) /\ Awaiting(texts, out)
             /\ line \in AllLines /\ IsPath(top.path) /\ Piece(texts) \in Seq(AllLines)
             /\ Located(mid) /\ mid # <<>> /\ Len(mid) = n
  <2>1. Reading(texts) /\ Awaiting(texts, out)
    BY <1>2, <1>5, <1>6 DEF Reading
  <2> HIDE DEF top, mid, line, n
  <2> QED
    BY <2>1, LineRead DEF top, mid, line, n
<1>7. ASSUME Includes!Working, ~ Includes!TooDeep,
             texts' = mid, out' = out \o Piece(texts), includeError' = includeError
      PROVE  Inlined(texts', out', includeError')
  <2>1. includeError = "" /\ top.todo # <<>>
    BY <1>1, <1>7 DEF Includes!Working
  <2>2. /\ Reading(texts) /\ Awaiting(texts, out)
        /\ Located(mid) /\ mid # <<>>
    BY <1>6, <1>7, <2>1
  <2> HIDE DEF mid
  <2>3. out \o Piece(texts) \in Seq(AllLines) /\ Awaiting(mid, out \o Piece(texts))
    BY <1>2, <2>2, LineGoesOut DEF mid
  <2> QED
    BY <1>7, <2>2, <2>3 DEF Inlined
<1>8. CASE Includes!FailDepth \/ Includes!FailLine
  <2>1. texts' = texts /\ out' = out
    BY <1>8 DEF Includes!FailDepth, Includes!FailLine
  <2>2. includeError' # ""
    BY <1>8 DEF Includes!FailDepth, Includes!FailLine
  <2> QED
    BY <1>2, <2>1, <2>2 DEF Inlined
<1>9. CASE Includes!DropMarker
  <2>1. /\ Includes!Working /\ ~ Includes!TooDeep
        /\ line.op \in {"section", "endl"}
        /\ texts' = mid /\ out' = out /\ includeError' = includeError
    BY <1>1, <1>9 DEF Includes!DropMarker
  <2>2. Piece(texts) = <<>>
    BY <2>1 DEF Piece, Includes!StandsFor
  <2>3. out \o <<>> = out
    BY <1>2, ConcatEmptySeq
  <2> QED
    BY <1>7, <2>1, <2>2, <2>3
<1>10. CASE Includes!EmitLine
  <2>1. /\ Includes!Working /\ ~ Includes!TooDeep
        /\ line.op \notin {"include", "lib", "section", "endl"}
        /\ texts' = mid /\ out' = Append(out, line) /\ includeError' = includeError
    BY <1>1, <1>10 DEF Includes!EmitLine
  <2>2. Piece(texts) = <<line>>
    BY <2>1 DEF Piece, Includes!StandsFor
  <2>3. Append(out, line) = out \o <<line>>
    <3>1. line \in AllLines
      BY <1>1, <1>6, <2>1 DEF Includes!Working
    <3> HIDE DEF line
    <3>2. line \in AllLines /\ out \in Seq(AllLines)
      BY <1>2, <3>1
    <3> QED
      BY <3>2, AppendIsConcat
  <2> QED
    BY <1>7, <2>1, <2>2, <2>3
<1>11. CASE Includes!EnterText
  <2>0. PICK target \in Includes!Targets :
            /\ Includes!IsThere(Includes!Lines(target), line.name)
            /\ texts' = Append(mid, Includes!Text(target, Includes!Part(Includes!Lines(target), line.name)))
    BY <1>1, <1>11 DEF Includes!EnterText
  <2>1. /\ out' = out /\ includeError' = includeError /\ includeError = ""
        /\ ~ Includes!TooDeep /\ top.todo # <<>> /\ line.op \in {"include", "lib"}
    BY <1>1, <1>11 DEF Includes!EnterText, Includes!Asks, Includes!Working
  <2>2. /\ Reading(texts) /\ Awaiting(texts, out) /\ line \in AllLines /\ IsPath(top.path)
        /\ Located(mid) /\ mid # <<>> /\ Len(mid) = n
    BY <1>6, <2>1
  <2> DEFINE T == ToSet(top.path)
             k == <<File(target), line.name>>
             f == Includes!Text(target, Includes!Source(k))
  <2>3. dir \in Seq(T)
    <3>1. top.path \in Seq(T) /\ top.path # <<>>
      BY <2>2 DEF IsPath, IsSequence
    <3> HIDE DEF T, top
    <3> QED
      BY <3>1, PopStack
  <2>4. target \in Includes!Resolved(dir, line.path)
    <3>1. Includes!Own = dir
      <4>1. CASE top.path = Includes!Input
        <5>1. Front(<<"<input>">>) = <<>>
          <6> DEFINE p == <<"<input>">>
          <6>1. p \in Seq({"<input>"}) /\ p # <<>> /\ Len(p) = 1
            OBVIOUS
          <6> HIDE DEF p
          <6>2. Front(p) \in Seq({"<input>"}) /\ Len(Front(p)) = 1 - 1
            BY <6>1, PopStack
          <6> QED
            BY <6>2, EmptySeq DEF p
        <5> QED
          BY <1>1, <4>1, <5>1 DEF Includes!Own, Includes!Input
      <4>2. CASE top.path # Includes!Input
        BY <1>1, <4>2, IncludesText DEF Includes!Own
      <4> QED
        BY <4>1, <4>2
    <3> QED
      BY <1>1, <2>0, <3>1 DEF Includes!Targets
  <2> HIDE DEF T
  <2>5. /\ k \in Includes!Keys
        /\ Includes!StandsFor(line, dir, At(n)) = At(n)[k]
        /\ Includes!Source(k) = Includes!Part(Includes!Lines(target), line.name)
        /\ IsPath(target)
    <3> HIDE DEF line, dir
    <3> QED
      BY <2>0, <2>1, <2>2, <2>3, <2>4, TargetStands
  <2>6. Piece(texts) = At(n)[k]
    BY <2>5 DEF Piece
  <2>7. texts' = Append(mid, f)
    BY <2>0, <2>5
  <2>8. IsText(f) /\ f.todo = Includes!Source(k) /\ f.path = target
    <3>1. f = [path |-> target, todo |-> Includes!Source(k)]
      BY DEF Includes!Text
    <3> QED
      BY <3>1, TextFields
  <2>9. Includes!Source(k) \in Seq(AllLines)
    <3> HIDE DEF k
    <3> QED
      BY <2>5, SourceType
  <2> HIDE DEF f
  <2>10. Located(texts') /\ texts' # <<>> /\ Len(texts') = n + 1
    <3>1. PICK U : mid \in Seq(U) /\ \A x \in U : IsText(x) /\ x.todo \in Seq(AllLines) /\ IsPath(x.path)
      BY <2>2 DEF Located
    <3> HIDE DEF mid, k
    <3>2. Append(mid, f) \in Seq(U \cup {f}) /\ Len(Append(mid, f)) = n + 1
      BY <2>2, <3>1, PushStack
    <3>3. \A x \in U \cup {f} : IsText(x) /\ x.todo \in Seq(AllLines) /\ IsPath(x.path)
      BY <2>5, <2>8, <2>9, <3>1
    <3>4. Append(mid, f) # <<>>
      BY <1>4, <3>2
    <3> QED
      BY <2>7, <3>2, <3>3, <3>4 DEF Located
  <2>11. ASSUME n + 1 <= D + 1 PROVE Awaiting(texts', out)
    <3>1. n \in 1..D
      <4> HIDE DEF n, D
      <4> QED
        BY <1>4, <2>11
    <3>2. At(n)[k] = RestOf(f, n + 1)
      <4> HIDE DEF n
      <4> QED
        BY <2>5, <3>1, TargetWrites DEF f
    <3>3. RestOf(f, Len(texts) + 1) = Piece(texts)
      BY <2>6, <3>2
    <3> HIDE DEF mid
    <3> QED
      BY <2>2, <2>7, <3>3, LineCalls DEF mid
  <2> QED
    BY <1>2, <2>1, <2>10, <2>11 DEF Inlined
<1>12. CASE Includes!LeaveText
  <2>1. /\ texts' = Front(texts) /\ out' = out /\ includeError' = includeError /\ includeError = ""
        /\ ~ Includes!TooDeep /\ top.todo = <<>> /\ n > 1
    BY <1>1, <1>12, IncludesText DEF Includes!LeaveText
  <2>2. n <= D + 1 /\ Awaiting(texts, out)
    BY <1>2, <1>5, <2>1
  <2>3. Located(Front(texts)) /\ Awaiting(Front(texts), out) /\ Len(Front(texts)) = Len(texts) - 1
    BY <1>2, <2>1, <2>2, CallReturns
  <2>4. Front(texts) # <<>>
    <3>1. n - 1 # 0
      <4> HIDE DEF n
      <4> QED
        BY <1>4, <2>1, SmallNumbers, Zenon
    <3>2. Len(Front(texts)) # 0
      BY <2>3, <3>1
    <3> QED
      BY <3>2
  <2> QED
    BY <1>2, <2>1, <2>3, <2>4 DEF Inlined
<1> QED
  BY <1>8, <1>9, <1>10, <1>11, <1>12 DEF Includes!Expand

\* preprocess_includes on the way of the includes.
InlinedOK ==
    \/ calls # <<>>
    \/ calls = <<>> /\ project \in IncludeProjects /\ Inlined(texts, out, includeError)

LEMMA InlinedInit == ASSUME Init PROVE InlinedOK
<1>1. CASE Libs!Init
  <2>1. PICK f : calls = <<f>>
    BY <1>1 DEF Libs!Init
  <2>2. calls # <<>>
    BY <2>1
  <2> QED
    BY <2>2 DEF InlinedOK
<1>2. CASE Includes!Init /\ calls = <<>>
  BY <1>2, InitInlined DEF InlinedOK, Includes!Init
<1> QED
  BY <1>1, <1>2 DEF Init

LEMMA InlinedStep == ASSUME Sourced, InlinedOK, [Next]_(vars) PROVE InlinedOK'
<1>1. CASE ExpandLibs
  <2>1. calls # <<>> /\ Libs!Expand
    BY <1>1 DEF ExpandLibs, ByLibs
  <2>2. Sourced'
    BY SourcedStep
  <2>3. project \in LibProjects
    BY <2>1 DEF Sourced
  <2>4. PICK L : Closed(L) /\ LibStack(calls, L)
    BY <2>1 DEF Sourced
  <2>5. PICK M : Closed(M) /\ LibStack(calls', M)
    BY <2>1, <2>3, <2>4, LibsKeepTypes
  <2>6. calls' # <<>>
    BY <2>5 DEF LibStack
  <2> QED
    BY <2>6 DEF InlinedOK
<1>2. CASE ExpandIncludes
  <2>1. calls = <<>> /\ calls' = calls /\ Includes!Expand
    BY <1>2 DEF ExpandIncludes, ByLibs, libVars
  <2>2. project \in IncludeProjects /\ Inlined(texts, out, includeError)
    BY <2>1 DEF InlinedOK
  <2>3. Inlined(texts', out', includeError')
    BY <2>1, <2>2, IncludesInline
  <2>4. project' = project
    BY <2>1 DEF Includes!Expand, Includes!FailDepth, Includes!FailLine, Includes!EnterText,
       Includes!DropMarker, Includes!EmitLine, Includes!LeaveText
  <2>5. Inlined(texts, out, includeError)'
    BY <2>3, <2>4, InlinedStays
  <2> QED
    BY <2>1, <2>2, <2>4, <2>5 DEF InlinedOK
<1>3. ASSUME UNCHANGED <<project, calls, texts, out, includeError>> PROVE InlinedOK'
  <2>1. CASE calls # <<>>
    BY <1>3, <2>1 DEF InlinedOK
  <2>2. CASE calls = <<>>
    <3>1. project \in IncludeProjects /\ Inlined(texts, out, includeError)
      BY <2>2 DEF InlinedOK
    <3>2. Inlined(texts', out', includeError')
      BY <1>3, <3>1
    <3>3. Inlined(texts, out, includeError)'
      BY <1>3, <3>2, InlinedStays
    <3> QED
      BY <1>3, <2>2, <3>1, <3>3 DEF InlinedOK
  <2> QED
    BY <2>1, <2>2
<1>4. CASE Refuse \/ StartFlattening \/ FlattenNetlist \/ Return \/ UNCHANGED vars
  BY <1>3, <1>4 DEF Refuse, StartFlattening, FlattenNetlist, Return, vars, libVars, includeVars
<1> QED
  BY <1>1, <1>2, <1>4 DEF Next

LEMMA InlinedEnds == ASSUME InlinedOK PROVE ~ ByLibs => Includes!IncludedInPlace
<1> SUFFICES ASSUME calls = <<>>, Includes!Finished, includeError = "" PROVE out = Reference
  BY DEF ByLibs, Includes!IncludedInPlace, Includes!Output, Reference
<1> DEFINE D == MaxIncludeDepth
<1>1. project \in IncludeProjects /\ Inlined(texts, out, includeError)
  BY DEF InlinedOK
<1>2. Len(texts) = 1 /\ Last(texts).todo = <<>>
  BY IncludesText DEF Includes!Finished, Includes!Top
<1>3. D \in Nat /\ 1 <= D + 1
  <2>1. D \in Nat
    BY LimitsAssumption
  <2> HIDE DEF D
  <2> QED
    BY <2>1, SmallNumbers, Zenon
<1>4. /\ Located(texts) /\ texts # <<>> /\ out \in Seq(AllLines) /\ Awaiting(texts, out)
      /\ Len(texts) <= MaxIncludeDepth + 1
  <2>1. Len(texts) <= MaxIncludeDepth + 1
    BY <1>2, <1>3
  <2> QED
    BY <1>1, <2>1 DEF Inlined
<1>5. Awaiting(Front(texts), out) /\ Located(Front(texts)) /\ Len(Front(texts)) = 0
  <2>1. Awaiting(Front(texts), out) /\ Located(Front(texts)) /\ Len(Front(texts)) = Len(texts) - 1
    BY <1>1, <1>2, <1>4, CallReturns
  <2> QED
    BY <1>2, <2>1, SmallNumbers, Zenon
<1>6. PICK rest : Rests(rest, Front(texts)) /\ out \o rest[Len(Front(texts)) + 1] = Reference
  BY <1>5 DEF Awaiting
<1>7. rest[Len(Front(texts)) + 1] = <<>>
  <2>1. rest[1] = <<>>
    BY <1>6 DEF Rests
  <2>2. Len(Front(texts)) + 1 = 1
    BY <1>5, SmallNumbers, Zenon
  <2> QED
    BY <2>1, <2>2
<1>8. out \o <<>> = out
  BY <1>4, ConcatEmptySeq
<1> QED
  BY <1>6, <1>7, <1>8

\* Without an error the text written is the source with every file and section in the
\* place of the line that asks for it, at every depth, for all projects, search
\* directories and depth limits (preprocess_includes of preprocess.rs).
THEOREM IncludesStayInPlace == Spec => []IncludesInPlace
<1>1. Init => FlatteningOK /\ InlinedOK
  BY SourcedInit, InlinedInit
<1>2. FlatteningOK /\ InlinedOK /\ [Next]_(vars) => (FlatteningOK /\ InlinedOK)'
  BY FlatteningStep, InlinedStep DEF FlatteningOK
<1>3. InlinedOK => IncludesInPlace
  BY InlinedEnds DEF IncludesInPlace
<1> QED
  BY <1>1, <1>2, <1>3, PTL DEF Spec
=============================================================================
