------------------------- MODULE CirqFrontEndProofs -------------------------
(***************************************************************************)
(* The two recursions of the Cirq front end, for all projects.  Import     *)
(* resolution: what is kept by hand is what the open calls stand for, a    *)
(* cycle is reported exactly when there is one, and nothing is merged      *)
(* twice or lost.  Lowering: no element takes a name that is taken, and    *)
(* every element has the value and the connections its body gives it.      *)
(***************************************************************************)
EXTENDS CirqFrontEnd, DataLemmas, FiniteSetTheorems

\* The operators on stacks are the same in the two parts.
LEMMA SameStacks ==
    ASSUME NEW s
    PROVE  /\ Imports!Last(s) = Last(s) /\ Imports!Front(s) = Front(s)
           /\ Lowering!Last(s) = Last(s) /\ Lowering!Front(s) = Front(s)
BY DEF Last, Front, Imports!Last, Imports!Front, Lowering!Last, Lowering!Front

-----------------------------------------------------------------------------
\* Import resolution: the files in progress are those of the open calls.

\* A call has the fields of Frame, so that EXCEPT changes no other.
IsCall(f) == \E T : f \in [file : T, names : T, todo : T, result : T]

\* The first call is for the root, which is no file.
Marks(s, marked) ==
    /\ \E S : s \in Seq(S) /\ \A f \in S : IsCall(f)
    /\ marked = {s[i].file : i \in 2..Len(s)}
    /\ \A i, j \in 2..Len(s) : s[i].file = s[j].file => i = j

LEMMA CallFields ==
    ASSUME NEW file, NEW names, NEW items
    PROVE  IsCall(Imports!Frame(file, names, items))
           /\ Imports!Frame(file, names, items).file = file
<1> DEFINE T == {file, names, items, <<>>}
           f == [file |-> file, names |-> names, todo |-> items, result |-> <<>>]
<1>1. f \in [file : T, names : T, todo : T, result : T] /\ f.file = file
  OBVIOUS
<1> HIDE DEF T
<1>2. IsCall(f)
  BY <1>1 DEF IsCall
<1> QED
  BY <1>1, <1>2 DEF Imports!Frame

LEMMA SameFile ==
    ASSUME NEW f, IsCall(f), NEW t, NEW r
    PROVE  LET a == [f EXCEPT !.todo = t]
               b == [[f EXCEPT !.todo = t] EXCEPT !.result = r]
               c == [f EXCEPT !.result = r]
           IN  /\ IsCall(a) /\ a.file = f.file
               /\ IsCall(b) /\ b.file = f.file
               /\ IsCall(c) /\ c.file = f.file
<1>1. PICK T : f \in [file : T, names : T, todo : T, result : T]
  BY DEF IsCall
<1> DEFINE U == T \cup {t, r}
           Fs == [file : U, names : U, todo : U, result : U]
           a == [f EXCEPT !.todo = t]
           b == [[f EXCEPT !.todo = t] EXCEPT !.result = r]
           c == [f EXCEPT !.result = r]
<1>2. a \in Fs /\ a.file = f.file
  BY <1>1
<1>3. b \in Fs /\ b.file = f.file
  BY <1>1
<1>4. c \in Fs /\ c.file = f.file
  BY <1>1
<1> HIDE DEF U
<1>5. IsCall(a) /\ IsCall(b) /\ IsCall(c)
  BY <1>2, <1>3, <1>4 DEF IsCall
<1> QED
  BY <1>2, <1>3, <1>4, <1>5

\* The innermost call is replaced by one for the same file.
LEMMA MarksReplace ==
    ASSUME NEW s, NEW m, Marks(s, m), s # <<>>, NEW g, IsCall(g), g.file = Last(s).file
    PROVE  Marks(Append(Front(s), g), m) /\ Append(Front(s), g) # <<>>
           /\ Len(Append(Front(s), g)) = Len(s)
<1> DEFINE r == Append(Front(s), g)
<1>1. PICK S : s \in Seq(S) /\ \A f \in S : IsCall(f)
  BY DEF Marks
<1>2. /\ r \in Seq(S \cup {g}) /\ Len(r) = Len(s)
      /\ \A i \in 1..Len(s) - 1 : r[i] = s[i]
      /\ r[Len(s)] = g
  <2>1. s # <<>>
    OBVIOUS
  <2>2. /\ r \in Seq(S \cup {g})
        /\ Len(r) = Len(s)
        /\ DOMAIN r = 1..Len(s)
        /\ \A i \in 1..Len(s) - 1 : r[i] = s[i]
        /\ r[Len(s)] = g
    BY <1>1, <2>1, ReplaceTop, ZenonT(30)
  <2> QED
    BY <2>2
<1>3. Len(s) \in Nat \ {0} /\ Last(s) = s[Len(s)]
  BY <1>1, PopStack
<1> HIDE DEF r
<1>4. \A i \in 1..Len(s) : r[i].file = s[i].file
  BY <1>2, <1>3
<1>5. Marks(r, m)
  BY <1>1, <1>2, <1>3, <1>4 DEF Marks
<1>6. r # <<>>
  BY <1>2, <1>3
<1> QED
  BY <1>2, <1>5, <1>6 DEF r

\* A call for a file that is not marked.
LEMMA MarksPush ==
    ASSUME NEW s, NEW m, Marks(s, m), s # <<>>, NEW g, IsCall(g), g.file \notin m
    PROVE  Marks(Append(s, g), m \cup {g.file})
<1> DEFINE r == Append(s, g)
           n == Len(s)
<1>1. PICK S : s \in Seq(S) /\ \A f \in S : IsCall(f)
  BY DEF Marks
<1>2. /\ r \in Seq(S \cup {g}) /\ Len(r) = n + 1
      /\ \A i \in 1..n : r[i] = s[i]
      /\ r[n + 1] = g
  BY <1>1, PushStack
<1>3. n \in Nat \ {0}
  BY <1>1, PopStack
<1> HIDE DEF r, n
<1>4. m = {s[i].file : i \in 2..n} /\ \A i, j \in 2..n : s[i].file = s[j].file => i = j
  BY DEF Marks, n
<1>5. m \cup {g.file} = {r[i].file : i \in 2..(n + 1)}
  <2>1. \A i \in 2..(n + 1) : i \in 2..n \/ i = n + 1
    BY <1>3
  <2>2. \A i \in 2..n : i \in 2..(n + 1) /\ r[i] = s[i]
    BY <1>2, <1>3
  <2>3. n + 1 \in 2..(n + 1)
    BY <1>3
  <2> QED
    BY <1>2, <1>4, <2>1, <2>2, <2>3
<1>6. ASSUME NEW i \in 2..(n + 1), NEW j \in 2..(n + 1), r[i].file = r[j].file
      PROVE  i = j
  <2>1. \A k \in 2..n : r[k] = s[k] /\ r[k].file # g.file
    BY <1>2, <1>3, <1>4
  <2>2. (i \in 2..n \/ i = n + 1) /\ (j \in 2..n \/ j = n + 1)
    BY <1>3
  <2> QED
    BY <1>2, <1>4, <1>6, <2>1, <2>2
<1>7. \A f \in S \cup {g} : IsCall(f)
  BY <1>1
<1>8. Marks(r, m \cup {g.file})
  BY <1>2, <1>5, <1>6, <1>7 DEF Marks
<1> QED
  BY <1>8 DEF r

\* The innermost call returns.
LEMMA MarksPop ==
    ASSUME NEW s, NEW m, Marks(s, m), s # <<>>, Len(s) > 1
    PROVE  Marks(Front(s), m \ {Last(s).file}) /\ Front(s) # <<>>
           /\ Last(Front(s)) = s[Len(s) - 1] /\ IsCall(s[Len(s) - 1])
<1> DEFINE r == Front(s)
           n == Len(s)
<1>1. PICK S : s \in Seq(S) /\ \A f \in S : IsCall(f)
  BY DEF Marks
<1>2. /\ r \in Seq(S) /\ Len(r) = n - 1 /\ \A i \in 1..n - 1 : r[i] = s[i]
      /\ n \in Nat \ {0} /\ Last(s) = s[n]
  BY <1>1, PopStack
<1>3. r # <<>>
  BY <1>2
<1>4. Last(r) = r[n - 1] /\ Last(r) \in S
  BY <1>2, <1>3, PopStack
<1> HIDE DEF r, n
<1>5. n > 1
  BY DEF n
<1>6. m = {s[i].file : i \in 2..n} /\ \A i, j \in 2..n : s[i].file = s[j].file => i = j
  BY DEF Marks, n
<1>7. m \ {s[n].file} = {r[i].file : i \in 2..(n - 1)}
  <2>1. \A i \in 2..n : i \in 2..(n - 1) \/ i = n
    BY <1>2
  <2>2. \A i \in 2..(n - 1) : i \in 2..n /\ r[i] = s[i] /\ s[i].file # s[n].file
    <3> TAKE i \in 2..(n - 1)
    <3>1. i \in 2..n /\ n \in 2..n /\ i # n /\ i \in 1..n - 1
      BY <1>2, <1>5
    <3> QED
      BY <1>2, <1>6, <3>1
  <2> QED
    BY <1>6, <2>1, <2>2
<1>8. \A i, j \in 2..(n - 1) : r[i].file = r[j].file => i = j
  <2>1. \A i \in 2..(n - 1) : i \in 2..n /\ r[i] = s[i]
    BY <1>2
  <2> QED
    BY <1>6, <2>1
<1>9. Marks(r, m \ {s[n].file})
  BY <1>1, <1>2, <1>7, <1>8 DEF Marks
<1>10. r[n - 1] = s[n - 1]
  BY <1>2, <1>5
<1> QED
  BY <1>1, <1>2, <1>3, <1>4, <1>9, <1>10 DEF r, n

LEMMA ResolveKeepsMarks ==
    ASSUME Marks(calls, inProgress), Imports!Resolve
    PROVE  Marks(calls', inProgress')
<1> DEFINE top == Last(calls)
           passed == [top EXCEPT !.todo = Tail(@)]
<1>0. /\ Imports!Top = top
      /\ \A g : Imports!Replace(g) = Append(Front(calls), g)
  BY SameStacks DEF Imports!Top, Imports!Replace
<1>1. calls # <<>> => IsCall(top)
  <2>1. PICK S : calls \in Seq(S) /\ \A f \in S : IsCall(f)
    BY DEF Marks
  <2> QED
    BY <2>1, PopStack
<1> HIDE DEF top
<1>2. ASSUME calls # <<>>
      PROVE  /\ IsCall(passed) /\ passed.file = top.file
             /\ \A r : IsCall([passed EXCEPT !.result = r])
                      /\ [passed EXCEPT !.result = r].file = top.file
  <2>1. IsCall(top)
    BY <1>1, <1>2
  <2>2. IsCall(passed) /\ passed.file = top.file
    BY <2>1, SameFile
  <2>3. ASSUME NEW r
        PROVE  IsCall([passed EXCEPT !.result = r]) /\ [passed EXCEPT !.result = r].file = top.file
    <3> HIDE DEF passed
    <3> QED
      BY <2>2, SameFile
  <2> QED
    BY <2>2, <2>3
<1>3. ASSUME calls # <<>>, inProgress' = inProgress,
             NEW g, IsCall(g), g.file = top.file, calls' = Append(Front(calls), g)
      PROVE  Marks(calls', inProgress')
  BY <1>3, MarksReplace DEF top
<1>4. CASE Imports!Keep
  <2>1. calls # <<>> /\ inProgress' = inProgress
    BY <1>4 DEF Imports!Keep, Imports!Reads
  <2>2. PICK r : calls' = Append(Front(calls), [passed EXCEPT !.result = r])
    BY <1>0, <1>4 DEF Imports!Keep, Imports!Passed
  <2> QED
    BY <1>2, <1>3, <2>1, <2>2
<1>5. CASE Imports!NotFound \/ Imports!Circular \/ Imports!SkipMerged
           \/ Imports!Unreadable \/ Imports!Unparsable
  <2>1. calls # <<>> /\ inProgress' = inProgress /\ calls' = Append(Front(calls), passed)
    BY <1>0, <1>5 DEF Imports!NotFound, Imports!Circular, Imports!SkipMerged, Imports!Unreadable,
       Imports!Unparsable, Imports!Visits, Imports!Imports, Imports!Reads, Imports!Passed
  <2> QED
    BY <1>2, <1>3, <2>1
<1>6. CASE Imports!Open
  <2>1. /\ calls # <<>> /\ Imports!Target \notin inProgress
        /\ inProgress' = inProgress \cup {Imports!Target}
        /\ \E names, items :
              calls' = Append(Append(Front(calls), passed),
                              Imports!Frame(Imports!Target, names, items))
    BY <1>0, <1>6 DEF Imports!Open, Imports!Visits, Imports!Imports, Imports!Reads, Imports!Passed,
       Imports!IsCircular
  <2>2. PICK names, items :
           calls' = Append(Append(Front(calls), passed), Imports!Frame(Imports!Target, names, items))
    BY <2>1
  <2> DEFINE mid == Append(Front(calls), passed)
             g == Imports!Frame(Imports!Target, names, items)
  <2>3. IsCall(g) /\ g.file = Imports!Target
    BY CallFields
  <2>4. Marks(mid, inProgress) /\ mid # <<>>
    BY <1>2, <2>1, MarksReplace DEF top
  <2> HIDE DEF mid, g
  <2>5. Marks(Append(mid, g), inProgress \cup {g.file})
    BY <2>1, <2>3, <2>4, MarksPush
  <2> QED
    BY <2>1, <2>2, <2>3, <2>5 DEF mid, g
<1>7. CASE Imports!Close
  <2> DEFINE caller == calls[Len(calls) - 1]
  <2>1. /\ Len(calls) > 1 /\ inProgress' = inProgress \ {top.file}
        /\ \E r : calls' = Append(Front(Front(calls)), [caller EXCEPT !.result = r])
    BY <1>0, <1>7, SameStacks DEF Imports!Close, Imports!Closed
  <2>2. calls # <<>>
    BY <2>1
  <2>3. PICK r : calls' = Append(Front(Front(calls)), [caller EXCEPT !.result = r])
    BY <2>1
  <2> DEFINE s == Front(calls)
             g == [caller EXCEPT !.result = r]
  <2>4. Marks(s, inProgress \ {top.file}) /\ s # <<>> /\ Last(s) = caller /\ IsCall(caller)
    BY <2>1, <2>2, MarksPop DEF top
  <2>5. IsCall(g) /\ g.file = Last(s).file
    BY <2>4, SameFile
  <2> HIDE DEF s, g
  <2>6. Marks(Append(Front(s), g), inProgress \ {top.file})
    BY <2>4, <2>5, MarksReplace
  <2> QED
    BY <2>1, <2>3, <2>6 DEF s, g
<1> QED
  BY <1>4, <1>5, <1>6, <1>7 DEF Imports!Resolve

-----------------------------------------------------------------------------
\* Lowering: the parameters in scope are those of the open bodies.

IsBody(f) ==
    \E T : f \in [prefix : T, todo : T, flat : T, saved : T, own : T, bound : T, scope : T]

\* What the first n bodies declare.
Own(s, n) == UNION {s[i].own : i \in 1..n}

\* And what a body saved is what was in scope when it was begun.
Scoped(s, p) ==
    /\ \E S : s \in Seq(S) /\ \A f \in S : IsBody(f)
    /\ DOMAIN p = Own(s, Len(s))
    /\ \A i \in 2..Len(s) : DOMAIN s[i].saved[2] = Own(s, i - 1)

LEMMA BodyFields ==
    ASSUME NEW prefix, NEW body, NEW saved, NEW bound, NEW scope
    PROVE  LET f == Lowering!Frame(prefix, body, saved, bound, scope)
           IN  IsBody(f) /\ f.own = {} /\ f.saved = saved
<1> DEFINE T == {prefix, body, saved, bound, scope, <<>>, {}}
           f == [prefix |-> prefix, todo |-> body, flat |-> <<>>, saved |-> saved,
                 own |-> {}, bound |-> bound, scope |-> scope]
<1>1. /\ f \in [prefix : T, todo : T, flat : T, saved : T, own : T, bound : T, scope : T]
      /\ f.own = {} /\ f.saved = saved
  OBVIOUS
<1> HIDE DEF T
<1>2. IsBody(f)
  BY <1>1 DEF IsBody
<1> QED
  BY <1>1, <1>2 DEF Lowering!Frame

\* What the passes do to a body.
LEMMA SeenBody ==
    ASSUME NEW f, IsBody(f), NEW t, NEW l
    PROVE  LET g == [f EXCEPT !.todo = t, !.flat = l]
           IN  IsBody(g) /\ g.own = f.own /\ g.saved = f.saved
<1>1. PICK T : f \in [prefix : T, todo : T, flat : T, saved : T, own : T, bound : T, scope : T]
  BY DEF IsBody
<1> DEFINE U == T \cup {t, l}
           g == [f EXCEPT !.todo = t, !.flat = l]
<1>2. /\ g \in [prefix : U, todo : U, flat : U, saved : U, own : U, bound : U, scope : U]
      /\ g.own = f.own /\ g.saved = f.saved
  BY <1>1
<1> HIDE DEF U
<1>3. IsBody(g)
  BY <1>2 DEF IsBody
<1> QED
  BY <1>2, <1>3

LEMMA StepBody ==
    ASSUME NEW f, IsBody(f), NEW l
    PROVE  LET g == [f EXCEPT !.flat = l]
               h == [f EXCEPT !.todo = l]
           IN  /\ IsBody(g) /\ g.own = f.own /\ g.saved = f.saved
               /\ IsBody(h) /\ h.own = f.own /\ h.saved = f.saved
<1>1. PICK T : f \in [prefix : T, todo : T, flat : T, saved : T, own : T, bound : T, scope : T]
  BY DEF IsBody
<1> DEFINE U == T \cup {l}
           Fs == [prefix : U, todo : U, flat : U, saved : U, own : U, bound : U, scope : U]
           g == [f EXCEPT !.flat = l]
           h == [f EXCEPT !.todo = l]
<1>2. g \in Fs /\ g.own = f.own /\ g.saved = f.saved
  BY <1>1
<1>3. h \in Fs /\ h.own = f.own /\ h.saved = f.saved
  BY <1>1
<1> HIDE DEF U
<1>4. IsBody(g) /\ IsBody(h)
  BY <1>2, <1>3 DEF IsBody
<1> QED
  BY <1>2, <1>3, <1>4

LEMMA BoundBody ==
    ASSUME NEW f, IsBody(f), NEW o, NEW c
    PROVE  LET g == [f EXCEPT !.own = o, !.scope = c]
           IN  IsBody(g) /\ g.own = o /\ g.saved = f.saved
<1>1. PICK T : f \in [prefix : T, todo : T, flat : T, saved : T, own : T, bound : T, scope : T]
  BY DEF IsBody
<1> DEFINE U == T \cup {o, c}
           g == [f EXCEPT !.own = o, !.scope = c]
<1>2. /\ g \in [prefix : U, todo : U, flat : U, saved : U, own : U, bound : U, scope : U]
      /\ g.own = o /\ g.saved = f.saved
  BY <1>1
<1> HIDE DEF U
<1>3. IsBody(g)
  BY <1>2 DEF IsBody
<1> QED
  BY <1>2, <1>3

\* The innermost body goes on, and declares more.
LEMMA ScopedReplace ==
    ASSUME NEW s, NEW p, Scoped(s, p), s # <<>>, NEW more, NEW g, IsBody(g),
           g.own = Last(s).own \cup more, g.saved = Last(s).saved,
           NEW q, DOMAIN q = DOMAIN p \cup more
    PROVE  Scoped(Append(Front(s), g), q) /\ Append(Front(s), g) # <<>>
<1> DEFINE r == Append(Front(s), g)
           n == Len(s)
<1>1. PICK S : s \in Seq(S) /\ \A f \in S : IsBody(f)
  BY DEF Scoped
<1>2. /\ r \in Seq(S \cup {g}) /\ Len(r) = n
      /\ \A i \in 1..n - 1 : r[i] = s[i]
      /\ r[n] = g
  <2>1. s # <<>>
    OBVIOUS
  <2>2. /\ r \in Seq(S \cup {g})
        /\ Len(r) = Len(s)
        /\ DOMAIN r = 1..Len(s)
        /\ \A i \in 1..Len(s) - 1 : r[i] = s[i]
        /\ r[Len(s)] = g
    BY <1>1, <2>1, ReplaceTop, ZenonT(30)
  <2> QED
    BY <2>2
<1>3. n \in Nat \ {0} /\ Last(s) = s[n]
  BY <1>1, PopStack
<1> HIDE DEF r
<1>4. r # <<>>
  BY <1>2, <1>3
<1>5. DOMAIN q = Own(r, n)
  <2>1. DOMAIN p = Own(s, n)
    BY DEF Scoped
  <2> HIDE DEF n
  <2>2. /\ n \in 1..n /\ \A i \in 1..n : i = n \/ i \in 1..n - 1
        /\ \A i \in 1..n - 1 : i \in 1..n
    BY <1>3
  <2>3. Own(r, n) = Own(s, n) \cup more
    BY <1>2, <1>3, <2>2 DEF Own
  <2> QED
    BY <2>1, <2>3
<1>6. \A i \in 2..n : DOMAIN r[i].saved[2] = Own(r, i - 1)
  <2> SUFFICES ASSUME NEW i \in 2..n PROVE DOMAIN r[i].saved[2] = Own(r, i - 1)
    OBVIOUS
  <2>1. DOMAIN s[i].saved[2] = Own(s, i - 1)
    BY DEF Scoped
  <2> HIDE DEF n
  <2>2. r[i].saved = s[i].saved
    BY <1>2, <1>3
  <2>3. Own(r, i - 1) = Own(s, i - 1)
    <3>1. \A k \in 1..i - 1 : r[k] = s[k]
      BY <1>2, <1>3
    <3> QED
      BY <3>1 DEF Own
  <2> QED
    BY <2>1, <2>2, <2>3
<1>7. Scoped(r, q)
  <2>1. \A f \in S \cup {g} : IsBody(f)
    BY <1>1
  <2> QED
    BY <1>2, <1>5, <1>6, <2>1 DEF Scoped
<1> QED
  BY <1>4, <1>7 DEF r

\* The body of an instance is begun.
LEMMA ScopedPush ==
    ASSUME NEW s, NEW p, Scoped(s, p), s # <<>>, NEW g, IsBody(g), g.own = {}, g.saved[2] = p
    PROVE  Scoped(Append(s, g), p)
<1> DEFINE r == Append(s, g)
           n == Len(s)
<1>1. PICK S : s \in Seq(S) /\ \A f \in S : IsBody(f)
  BY DEF Scoped
<1>2. /\ r \in Seq(S \cup {g}) /\ Len(r) = n + 1
      /\ \A i \in 1..n : r[i] = s[i]
      /\ r[n + 1] = g
  BY <1>1, PushStack
<1>3. n \in Nat \ {0}
  BY <1>1, PopStack
<1>4. DOMAIN p = Own(s, n) /\ \A i \in 2..n : DOMAIN s[i].saved[2] = Own(s, i - 1)
  BY DEF Scoped
<1> HIDE DEF r, n
<1>5. ASSUME NEW k \in 0..n
      PROVE  Own(r, k) = Own(s, k)
  <2>1. \A i \in 1..k : r[i] = s[i]
    BY <1>2, <1>3
  <2> QED
    BY <2>1 DEF Own
<1>6. Own(r, n + 1) = Own(r, n)
  <2>1. \A i \in 1..(n + 1) : i \in 1..n \/ r[i].own = {}
    BY <1>2, <1>3
  <2>2. \A i \in 1..n : i \in 1..(n + 1)
    BY <1>3
  <2> QED
    BY <2>1, <2>2 DEF Own
<1>7. DOMAIN p = Own(r, n + 1)
  BY <1>3, <1>4, <1>5, <1>6
<1>8. ASSUME NEW i \in 2..(n + 1)
      PROVE  DOMAIN r[i].saved[2] = Own(r, i - 1)
  <2>1. CASE i \in 2..n
    <3>1. r[i] = s[i] /\ i - 1 \in 0..n
      BY <1>2, <1>3, <2>1
    <3> QED
      BY <1>4, <1>5, <2>1, <3>1
  <2>2. CASE i = n + 1
    <3>1. i - 1 = n /\ n \in 0..n
      BY <1>3, <2>2
    <3> QED
      BY <1>2, <1>4, <1>5, <2>2, <3>1
  <2> QED
    BY <1>3, <2>1, <2>2
<1>9. Scoped(r, p)
  <2>1. \A f \in S \cup {g} : IsBody(f)
    BY <1>1
  <2> QED
    BY <1>2, <1>7, <1>8, <2>1 DEF Scoped
<1> QED
  BY <1>9 DEF r

\* It is done, and the scope is what it was.
LEMMA ScopedPop ==
    ASSUME NEW s, NEW p, Scoped(s, p), s # <<>>, Len(s) > 1
    PROVE  Scoped(Front(s), Last(s).saved[2])
<1> DEFINE r == Front(s)
           n == Len(s)
<1>1. PICK S : s \in Seq(S) /\ \A f \in S : IsBody(f)
  BY DEF Scoped
<1>2. /\ r \in Seq(S) /\ Len(r) = n - 1 /\ \A i \in 1..n - 1 : r[i] = s[i]
      /\ n \in Nat \ {0} /\ Last(s) = s[n]
  BY <1>1, PopStack
<1>3. \A i \in 2..n : DOMAIN s[i].saved[2] = Own(s, i - 1)
  BY DEF Scoped
<1>4. n > 1
  OBVIOUS
<1> HIDE DEF r, n
<1>5. ASSUME NEW k \in 0..(n - 1)
      PROVE  Own(r, k) = Own(s, k)
  <2>1. \A i \in 1..k : r[i] = s[i]
    BY <1>2
  <2> QED
    BY <2>1 DEF Own
<1>6. DOMAIN s[n].saved[2] = Own(r, n - 1)
  <2>1. n \in 2..n /\ n - 1 \in 0..(n - 1)
    BY <1>2, <1>4
  <2> QED
    BY <1>3, <1>5, <2>1
<1>7. ASSUME NEW i \in 2..(n - 1)
      PROVE  DOMAIN r[i].saved[2] = Own(r, i - 1)
  <2>1. i \in 2..n /\ i - 1 \in 0..(n - 1) /\ r[i] = s[i]
    BY <1>2
  <2> QED
    BY <1>3, <1>5, <2>1
<1>8. Scoped(r, s[n].saved[2])
  BY <1>1, <1>2, <1>6, <1>7 DEF Scoped
<1> QED
  BY <1>2, <1>8 DEF r

LEMMA LowerKeepsScope ==
    ASSUME Scoped(stack, params), Lowering!Lower
    PROVE  Scoped(stack', params')
<1> DEFINE top == Last(stack)
           next == Append(Front(stack), [top EXCEPT !.todo = Tail(@), !.flat = Append(@, Lowering!Item)])
<1>1. /\ Lowering!Top = top
      /\ \A g : Lowering!Replace(g) = Append(Front(stack), g)
      /\ Lowering!Seen(top) = [top EXCEPT !.todo = Tail(@), !.flat = Append(@, Lowering!Item)]
      /\ Lowering!Done2(top) = [top EXCEPT !.flat = Tail(@)]
  BY SameStacks DEF Lowering!Top, Lowering!Replace, Lowering!Seen, Lowering!Done2
<1>2. stack # <<>> => IsBody(top)
  <2>1. PICK S : stack \in Seq(S) /\ \A f \in S : IsBody(f)
    BY DEF Scoped
  <2> QED
    BY <2>1, PopStack
<1>3. ASSUME stack # <<>>
      PROVE  /\ IsBody(Lowering!Seen(top)) /\ Lowering!Seen(top).own = top.own
             /\ Lowering!Seen(top).saved = top.saved
             /\ IsBody(Lowering!Done2(top)) /\ Lowering!Done2(top).own = top.own
             /\ Lowering!Done2(top).saved = top.saved
  <2> HIDE DEF top
  <2> DEFINE t == Tail(top.todo)
             l == Append(top.flat, Lowering!Item)
             k == Tail(top.flat)
             a == [top EXCEPT !.todo = t, !.flat = l]
             b == [top EXCEPT !.flat = k]
  <2>1. a = Lowering!Seen(top) /\ b = Lowering!Done2(top)
    BY <1>1
  <2> HIDE DEF t, l, k
  <2>2. IsBody(a) /\ a.own = top.own /\ a.saved = top.saved
    BY <1>2, <1>3, SeenBody
  <2>3. IsBody(b) /\ b.own = top.own /\ b.saved = top.saved
    BY <1>2, <1>3, StepBody
  <2> QED
    BY <2>1, <2>2, <2>3
<1> HIDE DEF top, next
<1>4. ASSUME stack # <<>>, params' = params, NEW g, IsBody(g), g.own = top.own,
             g.saved = top.saved, stack' = Append(Front(stack), g)
      PROVE  Scoped(stack', params')
  <2>1. g.own = Last(stack).own \cup {} /\ DOMAIN params = DOMAIN params \cup {}
        /\ g.saved = Last(stack).saved
    BY <1>4 DEF top
  <2> QED
    BY <1>4, <2>1, ScopedReplace
<1>5. ASSUME stack # <<>>, NEW v, NEW w, Lowering!Bind(v, w)
      PROVE  Scoped(stack', params')
  <2> DEFINE f == Lowering!Seen(top)
             name == Lowering!Item.name
             g == [f EXCEPT !.own = @ \cup {name}, !.scope = Lowering!With(@, name, w)]
  <2>1. stack' = Append(Front(stack), g) /\ params' = Lowering!With(params, name, v)
    BY <1>1, <1>5 DEF Lowering!Bind
  <2>2. DOMAIN (params') = DOMAIN params \cup {name}
    BY <2>1 DEF Lowering!With
  <2>3. IsBody(g) /\ g.own = top.own \cup {name} /\ g.saved = top.saved
    <3> HIDE DEF f
    <3>1. IsBody(f) /\ f.own = top.own /\ f.saved = top.saved
      BY <1>3, <1>5 DEF f
    <3> DEFINE o == f.own \cup {name}
               c == Lowering!With(f.scope, name, w)
               e == [f EXCEPT !.own = o, !.scope = c]
    <3>2. e = g
      OBVIOUS
    <3> HIDE DEF o, c, name
    <3>3. IsBody(e) /\ e.own = o /\ e.saved = f.saved
      <4>1. IsBody(f)
        BY <3>1
      <4>2. \A x, y : LET h == [f EXCEPT !.own = x, !.scope = y]
                      IN  IsBody(h) /\ h.own = x /\ h.saved = f.saved
        BY <4>1, BoundBody
      <4> QED
        BY <4>2
    <3> QED
      BY <3>1, <3>2, <3>3 DEF o
  <2> HIDE DEF g
  <2>4. g.own = Last(stack).own \cup {name} /\ g.saved = Last(stack).saved
    BY <2>3 DEF top
  <2> QED
    BY <1>5, <2>1, <2>2, <2>3, <2>4, ScopedReplace
<1>6. CASE Lowering!DeclareParam
  <2>1. stack # <<>>
    BY <1>6 DEF Lowering!DeclareParam, Lowering!Declares, Lowering!InPass1
  <2>2. \/ \E v, w : Lowering!Bind(v, w)
        \/ params' = params /\ stack' = Append(Front(stack), Lowering!Seen(top))
    BY <1>1, <1>6 DEF Lowering!DeclareParam, Lowering!context
  <2> QED
    BY <1>3, <1>4, <1>5, <2>1, <2>2
<1>7. CASE Lowering!DeclareLet
  <2>1. stack # <<>>
    BY <1>7 DEF Lowering!DeclareLet, Lowering!Declares, Lowering!InPass1
  <2>2. \/ \E v, w : Lowering!Bind(v, w)
        \/ params' = params /\ stack' = Append(Front(stack), Lowering!Seen(top))
    BY <1>1, <1>7 DEF Lowering!DeclareLet
  <2> QED
    BY <1>3, <1>4, <1>5, <2>1, <2>2
<1>8. CASE Lowering!DefineModel \/ Lowering!DeclareGlobal \/ Lowering!DefineModule
           \/ Lowering!Defer
  <2>1. stack # <<>> /\ params' = params /\ stack' = Append(Front(stack), Lowering!Seen(top))
    BY <1>1, <1>8 DEF Lowering!DefineModel, Lowering!DeclareGlobal, Lowering!DefineModule,
       Lowering!Defer, Lowering!Declares, Lowering!InPass1, Lowering!context
  <2> QED
    BY <1>3, <1>4, <2>1
<1>9. CASE Lowering!TakeBranch
  <2>1. stack # <<>> /\ params' = params
        /\ \E t : stack' = Append(Front(stack), [top EXCEPT !.todo = t])
    BY <1>1, <1>9 DEF Lowering!TakeBranch, Lowering!Declares, Lowering!InPass1, Lowering!context
  <2>2. PICK t : stack' = Append(Front(stack), [top EXCEPT !.todo = t])
    BY <2>1
  <2>3. /\ IsBody([top EXCEPT !.todo = t]) /\ [top EXCEPT !.todo = t].own = top.own
        /\ [top EXCEPT !.todo = t].saved = top.saved
    BY <1>2, <2>1, StepBody
  <2> QED
    BY <1>4, <2>1, <2>2, <2>3
<1>10. CASE Lowering!SkipDeclaration \/ Lowering!PlaceElement \/ Lowering!PlaceUrc
            \/ Lowering!RefuseInstance
  <2>1. stack # <<>> /\ params' = params /\ stack' = Append(Front(stack), Lowering!Done2(top))
    BY <1>1, <1>10 DEF Lowering!SkipDeclaration, Lowering!PlaceElement, Lowering!PlaceUrc,
       Lowering!RefuseInstance, Lowering!Skipped, Lowering!Lowers, Lowering!InPass2,
       Lowering!context
  <2> QED
    BY <1>3, <1>4, <2>1
<1>11. CASE Lowering!Instantiate
  <2> DEFINE mid == Append(Front(stack), Lowering!Done2(top))
  <2>1. /\ stack # <<>> /\ params' = params
        /\ \E prefix, body, bound, scope :
              stack' = Append(mid, Lowering!Frame(prefix, body, Lowering!context, bound, scope))
    BY <1>1, <1>11 DEF Lowering!Instantiate, Lowering!Swap, Lowering!Lowers, Lowering!InPass2
  <2>2. PICK prefix, body, bound, scope :
           stack' = Append(mid, Lowering!Frame(prefix, body, Lowering!context, bound, scope))
    BY <2>1
  <2> DEFINE g == Lowering!Frame(prefix, body, Lowering!context, bound, scope)
  <2>3. IsBody(g) /\ g.own = {} /\ g.saved[2] = params
    BY BodyFields DEF Lowering!context
  <2>4. Scoped(mid, params) /\ mid # <<>>
    <3> DEFINE f == Lowering!Done2(top)
    <3>1. IsBody(f) /\ f.own = Last(stack).own \cup {} /\ f.saved = Last(stack).saved
          /\ DOMAIN params = DOMAIN params \cup {}
      BY <1>3, <2>1 DEF top
    <3> HIDE DEF f
    <3> QED
      BY <2>1, <3>1, ScopedReplace DEF f
  <2> HIDE DEF mid, g
  <2>5. Scoped(Append(mid, g), params)
    BY <2>3, <2>4, ScopedPush
  <2> QED
    BY <2>1, <2>2, <2>5 DEF g
<1>12. CASE Lowering!Return
  <2>1. /\ Len(stack) > 1 /\ stack' = Front(stack) /\ params' = Last(stack).saved[2]
    BY <1>1, <1>12, SameStacks DEF Lowering!Return, Lowering!Restore, top
  <2>2. stack # <<>>
    BY <2>1
  <2> QED
    BY <2>1, <2>2, ScopedPop
<1> QED
  BY <1>6, <1>7, <1>8, <1>9, <1>10, <1>11, <1>12 DEF Lowering!Lower

-----------------------------------------------------------------------------
\* No module inside itself.

InstancesOK == (\E S : instStack \in Seq(S)) /\ Lowering!NoRecursion

LEMMA LowerKeepsInstances ==
    ASSUME InstancesOK, Lowering!Lower
    PROVE  InstancesOK'
<1>1. PICK S : instStack \in Seq(S)
  BY DEF InstancesOK
<1>2. CASE Lowering!Instantiate
  <2> DEFINE m == Lowering!Next2.module
             n == Len(instStack)
  <2>1. instStack' = Append(instStack, m) /\ \A i \in DOMAIN instStack : instStack[i] # m
    BY <1>2 DEF Lowering!Instantiate, Lowering!IsOpen
  <2> HIDE DEF m
  <2>2. /\ instStack' \in Seq(S \cup {m}) /\ DOMAIN instStack' = 1..n + 1
        /\ DOMAIN instStack = 1..n /\ n \in Nat
        /\ \A i \in 1..n : instStack'[i] = instStack[i]
        /\ instStack'[n + 1] = m
    BY <1>1, <2>1, PushStack, LenProperties
  <2> HIDE DEF n
  <2>3. \A i \in 1..n + 1 : i \in 1..n \/ i = n + 1
    BY <2>2
  <2>4. Lowering!NoRecursion'
    BY <2>1, <2>2, <2>3 DEF InstancesOK, Lowering!NoRecursion
  <2> QED
    BY <2>2, <2>4 DEF InstancesOK
<1>3. CASE Lowering!Return
  <2>1. instStack' = Front(instStack)
    BY <1>3, SameStacks DEF Lowering!Return
  <2>2. CASE instStack = <<>>
    <3>1. Front(<<>>) = <<>> /\ <<>> \in Seq({}) /\ DOMAIN <<>> = {}
      BY DEF Front
    <3> QED
      BY <2>1, <2>2, <3>1 DEF InstancesOK, Lowering!NoRecursion
  <2>3. CASE instStack # <<>>
    <3>1. /\ Front(instStack) \in Seq(S) /\ DOMAIN Front(instStack) = 1..Len(instStack) - 1
          /\ DOMAIN instStack = 1..Len(instStack) /\ Len(instStack) \in Nat
          /\ \A i \in 1..Len(instStack) - 1 : Front(instStack)[i] = instStack[i]
      BY <1>1, <2>3, PopStack
    <3> QED
      BY <2>1, <3>1 DEF InstancesOK, Lowering!NoRecursion
  <2> QED
    BY <2>2, <2>3
<1>4. CASE instStack' = instStack
  BY <1>4 DEF InstancesOK, Lowering!NoRecursion
<1> QED
  BY <1>2, <1>3, <1>4 DEF Lowering!Lower, Lowering!DeclareParam, Lowering!DeclareLet,
     Lowering!DefineModel, Lowering!DeclareGlobal, Lowering!DefineModule, Lowering!TakeBranch,
     Lowering!Defer, Lowering!SkipDeclaration, Lowering!PlaceElement, Lowering!PlaceUrc,
     Lowering!RefuseInstance

-----------------------------------------------------------------------------
\* No element under a name that is taken.

ElementsOK == (\E S : elements \in Seq(S)) /\ PathsUnique

LEMMA LowerKeepsPaths ==
    ASSUME ElementsOK, Lowering!Lower
    PROVE  ElementsOK'
<1>1. PICK S : elements \in Seq(S)
  BY DEF ElementsOK
<1> DEFINE n == Len(elements)
<1>2. n \in Nat /\ DOMAIN elements = 1..n
  BY <1>1, LenProperties
<1>3. \A i, j \in 1..n : i < j /\ elements[i].path = elements[j].path => elements[j].urc
  BY <1>2 DEF ElementsOK, PathsUnique, Lowering!PathsUnique
<1>4. CASE elements' = elements
  BY <1>4 DEF ElementsOK, PathsUnique, Lowering!PathsUnique
<1>5. CASE Lowering!PlaceElement
  <2> DEFINE e == Lowering!Placed(Lowering!Path, Lowering!Next2.nets, 0)
  <2>1. elements' = elements \/ (elements' = Append(elements, e) /\ ~ Lowering!IsTaken)
    BY <1>5 DEF Lowering!PlaceElement
  <2>2. CASE elements' = Append(elements, e) /\ ~ Lowering!IsTaken
    <3>1. \A i \in 1..n : elements[i].path # e.path
      BY <1>2, <2>2 DEF Lowering!IsTaken, Lowering!Taken, Lowering!Placed
    <3> HIDE DEF e
    <3>2. /\ elements' \in Seq(S \cup {e}) /\ DOMAIN elements' = 1..n + 1
          /\ \A i \in 1..n : elements'[i] = elements[i]
          /\ elements'[n + 1] = e
      BY <1>1, <2>2, PushStack
    <3> HIDE DEF n
    <3>3. \A i, j \in 1..n + 1 : i < j => i \in 1..n /\ (j \in 1..n \/ j = n + 1)
      BY <1>2
    <3>4. PathsUnique'
      BY <1>3, <3>1, <3>2, <3>3 DEF PathsUnique, Lowering!PathsUnique
    <3> QED
      BY <3>2, <3>4 DEF ElementsOK
  <2> QED
    BY <1>4, <2>1, <2>2
<1>6. CASE Lowering!PlaceUrc
  <2>1. \/ elements' = elements
        \/ \E p, q, x, y : elements' = elements \o <<Lowering!Placed(p, x, 2), Lowering!Placed(q, y, 1)>>
    BY <1>6 DEF Lowering!PlaceUrc
  <2>2. ASSUME NEW p, NEW q, NEW x, NEW y,
               elements' = elements \o <<Lowering!Placed(p, x, 2), Lowering!Placed(q, y, 1)>>
        PROVE  ElementsOK'
    <3> DEFINE a == Lowering!Placed(p, x, 2)
               b == Lowering!Placed(q, y, 1)
    <3>1. a.urc /\ b.urc
      <4>1. a.urc = (2 # 0) /\ b.urc = (1 # 0)
        BY DEF Lowering!Placed
      <4>2. (2 # 0) = TRUE /\ (1 # 0) = TRUE
        OBVIOUS
      <4>3. a.urc = TRUE /\ b.urc = TRUE
        BY <4>1, <4>2
      <4> QED
        BY <4>3, Zenon
    <3> HIDE DEF a, b
    <3>2. elements \in Seq(S \cup {a, b}) /\ <<a, b>> \in Seq(S \cup {a, b})
          /\ Len(<<a, b>>) = 2 /\ <<a, b>>[1] = a /\ <<a, b>>[2] = b
      BY <1>1, SeqMonotonic
    <3> DEFINE new == <<a, b>>
    <3>3. elements' = elements \o new
      BY <2>2 DEF a, b
    <3> HIDE DEF new
    <3>4. /\ elements' \in Seq(S \cup {a, b}) /\ Len(elements') = n + 2
          /\ \A i \in 1..(n + 2) :
               elements'[i] = IF i <= n THEN elements[i] ELSE new[i - n]
      BY <3>2, <3>3, ConcatProperties DEF new
    <3>5. DOMAIN elements' = 1..(n + 2)
      BY <3>4, LenProperties
    <3> HIDE DEF n
    <3>6. \A j \in 1..(n + 2) : j \in 1..n \/ j = n + 1 \/ j = n + 2
      BY <1>2
    <3>7. /\ \A i \in 1..n : elements'[i] = elements[i]
          /\ elements'[n + 1] = a /\ elements'[n + 2] = b
      <4>1. \A i \in 1..n : i <= n /\ i \in 1..(n + 2)
        BY <1>2
      <4>2. elements'[n + 1] = new[1]
        <5>1. n + 1 \in 1..(n + 2) /\ ~ (n + 1 <= n) /\ (n + 1) - n = 1
          BY <1>2
        <5> QED
          BY <3>4, <5>1
      <4>3. elements'[n + 2] = new[2]
        <5>1. n + 2 \in 1..(n + 2) /\ ~ (n + 2 <= n) /\ (n + 2) - n = 2
          BY <1>2
        <5> QED
          BY <3>4, <5>1
      <4>5. \A i \in 1..n : elements'[i] = elements[i]
        BY <3>4, <4>1
      <4> QED
        BY <3>2, <4>2, <4>3, <4>5 DEF new
    <3>8. \A i, j \in 1..(n + 2) : i < j /\ j \in 1..n => i \in 1..n
      BY <1>2
    <3>9. PathsUnique'
      BY <1>3, <3>1, <3>5, <3>6, <3>7, <3>8 DEF PathsUnique, Lowering!PathsUnique
    <3> QED
      BY <3>4, <3>9 DEF ElementsOK
  <2> QED
    BY <1>4, <2>1, <2>2
<1> QED
  BY <1>4, <1>5, <1>6 DEF Lowering!Lower, Lowering!DeclareParam, Lowering!DeclareLet,
     Lowering!DefineModel, Lowering!DeclareGlobal, Lowering!DefineModule, Lowering!TakeBranch,
     Lowering!Defer, Lowering!SkipDeclaration, Lowering!Instantiate, Lowering!Return,
     Lowering!RefuseInstance

-----------------------------------------------------------------------------
\* The program: imports are resolved, and what they leave is lowered.

LEMMA BeginKeeps ==
    ASSUME NEW source, Scoped(stack, params), InstancesOK, ElementsOK, Lowering!Begin(source)
    PROVE  Scoped(stack', params') /\ InstancesOK' /\ ElementsOK'
<1> DEFINE body == Lowering!FirstBody(source)
           f == Lowering!Frame(<<>>, body, <<>>, Lowering!NoNames, Lowering!NoNames)
<1>1. /\ stack = <<>> /\ stack' = <<f>> /\ params' = params
      /\ instStack' = instStack /\ elements' = elements
  BY DEF Lowering!Begin, Lowering!context
<1> HIDE DEF body
<1>2. IsBody(f) /\ f.own = {}
  BY BodyFields
<1>3. DOMAIN params = {}
  BY <1>1 DEF Scoped, Own
<1> HIDE DEF f
<1>4. /\ <<f>> \in Seq({f}) /\ Len(<<f>>) = 1 /\ <<f>>[1] = f
      /\ 1..1 = {1} /\ 2..1 = {}
  OBVIOUS
<1>5. \A g \in {f} : IsBody(g)
  BY <1>2
<1>6. Own(<<f>>, 1) = {}
  BY <1>2, <1>4 DEF Own
<1>7. Scoped(<<f>>, params)
  BY <1>3, <1>4, <1>5, <1>6 DEF Scoped
<1>8. InstancesOK'
  BY <1>1 DEF InstancesOK, Lowering!NoRecursion
<1>9. ElementsOK'
  BY <1>1 DEF ElementsOK, PathsUnique, Lowering!PathsUnique
<1> QED
  BY <1>1, <1>7, <1>8, <1>9

\* The parts do not touch each other's state, so that their invariants are one.
IInv ==
    /\ Marks(calls, inProgress)
    /\ Scoped(stack, params) /\ InstancesOK
    /\ ElementsOK

LEMMA InitIsExact == ASSUME Init PROVE IInv
<1> DEFINE f == Imports!Frame(<<>>, {}, project.root)
<1>1. /\ calls = <<f>> /\ inProgress = {}
      /\ stack = <<>> /\ params = [n \in {} |-> <<>>] /\ instStack = <<>> /\ elements = <<>>
  BY DEF Init, Imports!Init, Lowering!Init, Lowering!NoNames
<1>2. IsCall(f)
  BY CallFields
<1> HIDE DEF f
<1>3. Marks(<<f>>, {})
  <2>1. <<f>> \in Seq({f}) /\ Len(<<f>>) = 1 /\ 2..1 = {}
    OBVIOUS
  <2>2. \A g \in {f} : IsCall(g)
    BY <1>2
  <2> QED
    BY <2>1, <2>2 DEF Marks
<1>4. stack \in Seq({}) /\ Len(stack) = 0 /\ 1..0 = {} /\ 2..0 = {}
  BY <1>1
<1>5. Own(stack, 0) = {} /\ DOMAIN params = {}
  BY <1>1, <1>4 DEF Own
<1>6. Scoped(stack, params)
  BY <1>4, <1>5 DEF Scoped
<1>7. InstancesOK /\ ElementsOK
  <2>1. instStack \in Seq({}) /\ elements \in Seq({}) /\ DOMAIN instStack = {} /\ DOMAIN elements = {}
    BY <1>1
  <2> QED
    BY <2>1 DEF InstancesOK, ElementsOK, Lowering!NoRecursion, PathsUnique, Lowering!PathsUnique
<1> QED
  BY <1>1, <1>3, <1>6, <1>7 DEF IInv

LEMMA StepsStayExact == ASSUME IInv, [Next]_vars PROVE IInv'
<1>1. ASSUME UNCHANGED importVars
      PROVE  Marks(calls', inProgress')
  BY <1>1 DEF importVars, IInv
<1>2. ASSUME UNCHANGED loweringVars
      PROVE  Scoped(stack', params') /\ InstancesOK' /\ ElementsOK'
  BY <1>2 DEF loweringVars, IInv, InstancesOK, ElementsOK, Lowering!NoRecursion, PathsUnique,
     Lowering!PathsUnique
<1>3. CASE ResolveImports
  <2>1. Marks(calls', inProgress')
    BY <1>3, ResolveKeepsMarks DEF ResolveImports, IInv
  <2> QED
    BY <1>2, <1>3, <2>1 DEF ResolveImports, IInv
<1>4. CASE RefuseImports
  BY <1>1, <1>2, <1>4 DEF RefuseImports, IInv
<1>5. CASE StartLowering
  <2>1. Scoped(stack', params') /\ InstancesOK' /\ ElementsOK'
    BY <1>5, BeginKeeps DEF StartLowering, IInv
  <2> QED
    BY <1>1, <1>5, <2>1 DEF StartLowering, IInv
<1>6. CASE Lower
  <2>1. Scoped(stack', params') /\ InstancesOK' /\ ElementsOK'
    BY <1>6, LowerKeepsScope, LowerKeepsInstances, LowerKeepsPaths DEF Lower, IInv
  <2> QED
    BY <1>1, <1>6, <2>1 DEF Lower, IInv
<1>7. CASE Return
  BY <1>1, <1>2, <1>7 DEF Return, IInv
<1>8. CASE UNCHANGED vars
  <2>1. UNCHANGED importVars /\ UNCHANGED loweringVars
    BY <1>8 DEF vars, importVars, loweringVars
  <2> QED
    BY <1>1, <1>2, <2>1 DEF IInv
<1> QED
  BY <1>3, <1>4, <1>5, <1>6, <1>7, <1>8 DEF Next

LEMMA ExactInvariant == Spec => []IInv
<1>1. Init => IInv
  BY InitIsExact
<1>2. IInv /\ [Next]_vars => IInv'
  BY StepsStayExact
<1> QED
  BY <1>1, <1>2, PTL DEF Spec

\* The guards of the two recursions are exact whatever files import each other and
\* modules instantiate each other: an import is refused as circular only for a file
\* that is being resolved, an instance as recursive only for a module that is being
\* lowered, and a parameter as a duplicate only of one that is in scope.
THEOREM GuardsStayExact == Spec => []GuardsAreExact
<1>1. IInv => GuardsAreExact
  <2> SUFFICES ASSUME IInv PROVE GuardsAreExact
    OBVIOUS
  <2>1. Imports!InProgressIsOpen
    BY DEF IInv, Marks, Imports!InProgressIsOpen
  <2>2. Lowering!NoRecursion
    BY DEF IInv, InstancesOK
  <2>3. Lowering!ScopeIsOpenBodies
    <3>1. PICK S : stack \in Seq(S)
      BY DEF IInv, Scoped
    <3>2. DOMAIN stack = 1..Len(stack)
      BY <3>1, LenProperties
    <3> QED
      BY <3>2 DEF IInv, Scoped, Own, Lowering!ScopeIsOpenBodies
  <2> QED
    BY <2>1, <2>2, <2>3 DEF GuardsAreExact
<1> QED
  BY <1>1, ExactInvariant, PTL

\* No element or inner net enters the flat circuit under a name another has, for
\* every nesting of instances (the resistors of a urc line aside, which the code
\* enters without looking their names up).
THEOREM PathsStayUnique == Spec => []PathsUnique
<1>1. IInv => PathsUnique
  BY DEF IInv, ElementsOK
<1> QED
  BY <1>1, ExactInvariant, PTL

-----------------------------------------------------------------------------
\* The values of elements: the arguments of an instance, the declarations of a body and
\* the bodies that wait.

\* The recursive function of the arguments bound so far, unfolded.
LEMMA BoundIs ==
    ASSUME Len(Lowering!Next2.args) \in Nat
    PROVE  /\ Lowering!Bound[0] =
                 [ports |-> Lowering!NoNames, params |-> Lowering!NoNames, bad |-> FALSE]
           /\ \A k \in 1..Len(Lowering!Next2.args) :
                 Lowering!Bound[k] = Lowering!Argument(Lowering!Bound[k - 1], Lowering!Next2.args[k])
<1> DEFINE args == Lowering!Next2.args
           n == Len(args)
           none == [ports |-> Lowering!NoNames, params |-> Lowering!NoNames, bad |-> FALSE]
           arg(b, k) == Lowering!Argument(b, args[k])
           Binds(f, m) == f = [k \in 0..m |-> IF k = 0 THEN none ELSE arg(f[k - 1], k)]
<1>1. Lowering!Bound = CHOOSE f : Binds(f, n)
  BY DEF Lowering!Bound
<1> HIDE DEF none, arg
<1>2. n \in Nat
  OBVIOUS
<1> HIDE DEF n
<1> DEFINE Bad == {m \in 0..n : ~ \E f : Binds(f, m)}
<1>3. Bad = {}
  <2> SUFFICES ASSUME Bad # {} PROVE FALSE
    OBVIOUS
  <2>1. Bad \in SUBSET Nat
    BY <1>2
  <2>2. PICK m \in Bad : \A j \in Bad : m <= j
    <3> HIDE DEF Bad
    <3> QED
      BY <2>1, LeastIndex
  <2>3. m \in 0..n /\ ~ \E f : Binds(f, m)
    BY <2>2
  <2>4. CASE m = 0
    <3> DEFINE f == [k \in 0..0 |-> none]
    <3>1. f = [k \in 0..0 |-> IF k = 0 THEN none ELSE arg(f[k - 1], k)]
      OBVIOUS
    <3>2. Binds(f, m)
      BY <2>4, <3>1
    <3> QED
      BY <2>3, <3>2
  <2>5. CASE m # 0
    <3>1. m - 1 \in 0..n /\ ~ m <= m - 1 /\ m \in Nat
      BY <1>2, <2>3, <2>5
    <3>2. PICK g : Binds(g, m - 1)
      BY <2>2, <3>1
    <3> DEFINE f == [k \in 0..m |-> IF k = m THEN arg(g[m - 1], m) ELSE g[k]]
    <3>3. \A k \in 0..m : f[k] = IF k = 0 THEN none ELSE arg(f[k - 1], k)
      <4> SUFFICES ASSUME NEW k \in 0..m PROVE f[k] = IF k = 0 THEN none ELSE arg(f[k - 1], k)
        OBVIOUS
      <4>1. CASE k = m
        <5>1. f[k - 1] = g[m - 1]
          BY <3>1, <4>1
        <5> QED
          BY <2>5, <4>1, <5>1
      <4>2. CASE k # m
        <5>1. k \in 0..(m - 1) /\ (k # 0 => k - 1 \in 0..m /\ k - 1 # m)
          BY <3>1, <4>2
        <5>2. g[k] = IF k = 0 THEN none ELSE arg(g[k - 1], k)
          BY <3>2, <5>1
        <5> QED
          BY <4>2, <5>1, <5>2
      <4> QED
        BY <4>1, <4>2
    <3>4. Binds(f, m)
      <4>1. f = [k \in 0..m |-> f[k]]
        OBVIOUS
      <4> HIDE DEF f
      <4> QED
        BY <3>3, <4>1
    <3> QED
      BY <2>3, <3>4
  <2> QED
    BY <2>4, <2>5
<1>4. PICK f : Binds(f, n)
  BY <1>2, <1>3
<1>5. Binds(Lowering!Bound, n)
  <2> HIDE DEF Binds
  <2> QED
    BY <1>1, <1>4
<1>6. \A k \in 0..n : Lowering!Bound[k] = IF k = 0 THEN none ELSE arg(Lowering!Bound[k - 1], k)
  BY <1>5
<1>7. 0 \in 0..n /\ \A k \in 1..n : k \in 0..n /\ k # 0
  BY <1>2
<1> QED
  BY <1>6, <1>7 DEF none, arg, n

\* An argument that overrides a parameter.
Overrides(a) ==
    /\ a.name # "" /\ a.name \notin ToSet(Lowering!Def.ports)
    /\ a.name \in Lowering!ParamNames(Lowering!Def) /\ Lowering!Evaluates(a.value)

IsBinding(b) == \E T : b \in [ports : T, params : T, bad : BOOLEAN]

LEMMA ArgumentIs ==
    ASSUME NEW b, IsBinding(b), NEW a
    PROVE  LET r == Lowering!Argument(b, a)
           IN  /\ IsBinding(r)
               /\ b.bad => r.bad
               /\ Overrides(a) =>
                    r.params = Lowering!With(b.params, a.name, Lowering!Eval(a.value))
               /\ ~ Overrides(a) => r.params = b.params
               /\ ~ Overrides(a) /\ ~ r.bad => a.name = "" \/ a.name \in ToSet(Lowering!Def.ports)
<1> DEFINE r == Lowering!Argument(b, a)
           v == Lowering!With(b.params, a.name, Lowering!Eval(a.value))
           w(p) == Lowering!With(b.ports, p, a.value)
           name == a.name
           ports == ToSet(Lowering!Def.ports)
           at == Lowering!Def.ports[Cardinality(DOMAIN b.ports) + 1]
<1>1. PICK T : b \in [ports : T, params : T, bad : BOOLEAN]
  BY DEF IsBinding
<1>2. \/ name = "" /\ \E x : r = [b EXCEPT !.ports = x]
      \/ ~ Overrides(a) /\ r = [b EXCEPT !.bad = TRUE]
      \/ name # "" /\ name \in ports /\ \E x : r = [b EXCEPT !.ports = x]
      \/ Overrides(a) /\ r = [b EXCEPT !.params = v]
  <2>1. Lowering!ToSet(Lowering!Def.ports) = ports
    BY DEF ToSet, Lowering!ToSet
  <2> QED
    BY <2>1, Zenon DEF Lowering!Argument, Lowering!OverrideValue, Overrides
<1> HIDE DEF r, v
<1>3. ASSUME NEW x, r = [b EXCEPT !.ports = x]
      PROVE  IsBinding(r) /\ r.bad = b.bad /\ r.params = b.params
  <2> DEFINE U == T \cup {x}
  <2>1. r \in [ports : U, params : U, bad : BOOLEAN]
    BY <1>1, <1>3
  <2> HIDE DEF U
  <2>2. r.bad = b.bad /\ r.params = b.params
    BY <1>1, <1>3
  <2> QED
    BY <2>1, <2>2 DEF IsBinding
<1>4. ASSUME r = [b EXCEPT !.bad = TRUE]
      PROVE  IsBinding(r) /\ r.bad /\ r.params = b.params
  BY <1>1, <1>4 DEF IsBinding
<1>5. ASSUME r = [b EXCEPT !.params = v]
      PROVE  IsBinding(r) /\ r.bad = b.bad /\ r.params = v
  <2> DEFINE U == T \cup {v}
  <2>1. r \in [ports : U, params : U, bad : BOOLEAN]
    BY <1>1, <1>5
  <2> HIDE DEF U
  <2>2. r.bad = b.bad /\ r.params = v
    BY <1>1, <1>5
  <2> QED
    BY <2>1, <2>2 DEF IsBinding
<1>6. CASE name = "" /\ \E x : r = [b EXCEPT !.ports = x]
  <2>1. ~ Overrides(a)
    BY <1>6 DEF Overrides
  <2> HIDE DEF ports
  <2> QED
    BY <1>3, <1>6, <2>1, Zenon DEF r
<1>7. CASE ~ Overrides(a) /\ r = [b EXCEPT !.bad = TRUE]
  <2> HIDE DEF name, ports
  <2> QED
    BY <1>4, <1>7, Zenon DEF r
<1>8. CASE name # "" /\ name \in ports /\ \E x : r = [b EXCEPT !.ports = x]
  <2>1. ~ Overrides(a) /\ a.name \in ToSet(Lowering!Def.ports)
    BY <1>8 DEF Overrides
  <2> HIDE DEF ports
  <2> QED
    BY <1>3, <1>8, <2>1, Zenon DEF r
<1>9. CASE Overrides(a) /\ r = [b EXCEPT !.params = v]
  <2> QED
    BY <1>5, <1>9, Zenon DEF r, v
<1> QED
  BY <1>2, <1>6, <1>7, <1>8, <1>9, Zenon

\* The k arguments seen so far: the last override of each name counts.
BoundSoFar(k) ==
    LET b == Lowering!Bound[k]
        args == Lowering!Next2.args
    IN  /\ IsBinding(b)
        /\ ~ b.bad => \A i \in 1..k : \/ Overrides(args[i]) \/ args[i].name = ""
                                      \/ args[i].name \in ToSet(Lowering!Def.ports)
        /\ DOMAIN b.params = {args[i].name : i \in {j \in 1..k : Overrides(args[j])}}
        /\ \A i \in 1..k :
              Overrides(args[i]) /\ (\A j \in 1..k : Overrides(args[j]) /\ args[j].name = args[i].name
                                                     => j <= i)
              => b.params[args[i].name] = Lowering!Eval(args[i].value)

LEMMA BindStep ==
    ASSUME NEW k \in Nat, BoundSoFar(k),
           Lowering!Bound[k + 1] = Lowering!Argument(Lowering!Bound[k], Lowering!Next2.args[k + 1])
    PROVE  BoundSoFar(k + 1)
<1> DEFINE b == Lowering!Bound[k]
           args == Lowering!Next2.args
           a == args[k + 1]
           r == Lowering!Bound[k + 1]
           Port(x) == x.name = "" \/ x.name \in ToSet(Lowering!Def.ports)
           e(x) == Lowering!Eval(x)
<1>1. /\ IsBinding(r)
      /\ b.bad => r.bad
      /\ Overrides(a) => r.params = Lowering!With(b.params, a.name, e(a.value))
      /\ ~ Overrides(a) => r.params = b.params
      /\ ~ Overrides(a) /\ ~ r.bad => Port(a)
  <2>1. IsBinding(b) /\ r = Lowering!Argument(b, a)
    BY DEF BoundSoFar
  <2> HIDE DEF b, a, r
  <2>2. /\ IsBinding(Lowering!Argument(b, a))
        /\ b.bad => Lowering!Argument(b, a).bad
        /\ Overrides(a) => Lowering!Argument(b, a).params
                             = Lowering!With(b.params, a.name, Lowering!Eval(a.value))
        /\ ~ Overrides(a) => Lowering!Argument(b, a).params = b.params
        /\ ~ Overrides(a) /\ ~ Lowering!Argument(b, a).bad =>
             a.name = "" \/ a.name \in ToSet(Lowering!Def.ports)
    BY <2>1, ArgumentIs
  <2> QED
    BY <2>1, <2>2
<1>2. /\ ~ b.bad => \A i \in 1..k : Overrides(args[i]) \/ Port(args[i])
      /\ DOMAIN b.params = {args[i].name : i \in {j \in 1..k : Overrides(args[j])}}
      /\ \A i \in 1..k :
            Overrides(args[i]) /\ (\A j \in 1..k : Overrides(args[j]) /\ args[j].name = args[i].name
                                                   => j <= i)
            => b.params[args[i].name] = e(args[i].value)
  BY DEF BoundSoFar
<1>3. Overrides(a) => /\ DOMAIN r.params = DOMAIN b.params \cup {a.name}
                      /\ r.params[a.name] = e(a.value)
                      /\ \A n \in DOMAIN b.params \ {a.name} : r.params[n] = b.params[n]
  BY <1>1 DEF Lowering!With
<1> HIDE DEF b, r, args, e
<1>4. /\ \A i \in 1..(k + 1) : i \in 1..k \/ i = k + 1
      /\ k + 1 \in 1..(k + 1) /\ \A i \in 1..k : i \in 1..(k + 1) /\ ~ (k + 1 <= i)
  OBVIOUS
<1>5. ~ r.bad => \A i \in 1..(k + 1) : Overrides(args[i]) \/ Port(args[i])
  <2> HIDE DEF Port
  <2> QED
    BY <1>1, <1>2, <1>4
<1>6. DOMAIN r.params = {args[i].name : i \in {j \in 1..(k + 1) : Overrides(args[j])}}
  <2>1. CASE Overrides(a)
    BY <1>2, <1>3, <1>4, <2>1
  <2>2. CASE ~ Overrides(a)
    BY <1>1, <1>2, <1>4, <2>2
  <2> QED
    BY <2>1, <2>2
<1>7. ASSUME NEW i \in 1..(k + 1), Overrides(args[i]),
             \A j \in 1..(k + 1) : Overrides(args[j]) /\ args[j].name = args[i].name => j <= i
      PROVE  r.params[args[i].name] = e(args[i].value)
  <2>1. CASE i = k + 1
    BY <1>3, <1>7, <2>1
  <2>2. CASE i \in 1..k
    <3>1. b.params[args[i].name] = e(args[i].value)
      BY <1>2, <1>4, <1>7, <2>2
    <3>2. CASE Overrides(a)
      <4>1. a.name # args[i].name /\ args[i].name \in DOMAIN b.params
        BY <1>2, <1>4, <1>7, <2>2, <3>2
      <4> QED
        BY <1>3, <3>1, <3>2, <4>1
    <3>3. CASE ~ Overrides(a)
      BY <1>1, <3>1, <3>3
    <3> QED
      BY <3>2, <3>3
  <2> QED
    BY <1>4, <2>1, <2>2
<1> QED
  BY <1>1, <1>5, <1>6, <1>7 DEF BoundSoFar, r, args, e

LEMMA BoundThroughout ==
    ASSUME NEW A, Lowering!Next2.args \in Seq(A), NEW k \in 0..Len(Lowering!Next2.args)
    PROVE  BoundSoFar(k)
<1> DEFINE args == Lowering!Next2.args
           n == Len(args)
<1>1. n \in Nat /\ DOMAIN args = 1..n
  BY LenProperties
<1>2. /\ Lowering!Bound[0] =
            [ports |-> Lowering!NoNames, params |-> Lowering!NoNames, bad |-> FALSE]
      /\ \A j \in 1..n :
            Lowering!Bound[j] = Lowering!Argument(Lowering!Bound[j - 1], args[j])
  BY <1>1, BoundIs
<1>3. BoundSoFar(0)
  <2> DEFINE none == Lowering!NoNames
             b == [ports |-> none, params |-> none, bad |-> FALSE]
  <2>1. DOMAIN none = {}
    BY DEF Lowering!NoNames
  <2> HIDE DEF none
  <2>2. IsBinding(b)
    <3>1. b \in [ports : {none}, params : {none}, bad : BOOLEAN]
      OBVIOUS
    <3> QED
      BY <3>1 DEF IsBinding
  <2>3. 1..0 = {} /\ b.params = none /\ Lowering!Bound[0] = b
    BY <1>2 DEF none
  <2> QED
    BY <2>1, <2>2, <2>3 DEF BoundSoFar
<1>4. k \in 0..n
  OBVIOUS
<1> HIDE DEF n, args
<1> DEFINE Bad == {j \in 0..n : ~ BoundSoFar(j)}
<1>5. Bad = {}
  <2> SUFFICES ASSUME Bad # {} PROVE FALSE
    OBVIOUS
  <2>1. Bad \in SUBSET Nat
    BY <1>1
  <2>2. PICK m \in Bad : \A j \in Bad : m <= j
    <3> HIDE DEF Bad
    <3> QED
      BY <2>1, LeastIndex
  <2>3. m \in 1..n /\ m - 1 \in Nat /\ m - 1 \in 0..n /\ ~ (m <= m - 1) /\ (m - 1) + 1 = m
    BY <1>1, <1>3, <2>2
  <2>4. BoundSoFar(m - 1)
    BY <2>2, <2>3
  <2>5. Lowering!Bound[(m - 1) + 1] =
           Lowering!Argument(Lowering!Bound[m - 1], Lowering!Next2.args[(m - 1) + 1])
    BY <1>2, <2>3 DEF args
  <2>6. BoundSoFar((m - 1) + 1)
    BY <2>3, <2>4, <2>5, BindStep
  <2> QED
    BY <2>2, <2>3, <2>6
<1> QED
  BY <1>4, <1>5

LEMMA BindingsAre ==
    ASSUME NEW A, Lowering!Next2.args \in Seq(A), ~ Lowering!Bindings.bad
    PROVE  /\ DOMAIN Lowering!Bindings.params = Lowering!MeantParams
           /\ \A p \in Lowering!MeantParams :
                 /\ Lowering!Evaluates(Lowering!Said(p))
                 /\ Lowering!Bindings.params[p] = Lowering!Eval(Lowering!Said(p))
<1> DEFINE args == Lowering!Next2.args
           n == Len(args)
           ports == ToSet(Lowering!Def.ports)
<1>1. n \in Nat /\ DOMAIN args = 1..n
  BY LenProperties
<1>2. n \in 0..n
  BY <1>1
<1> HIDE DEF n
<1>4. BoundSoFar(n)
  BY <1>2, BoundThroughout DEF n
<1> HIDE DEF args
<1> DEFINE b == Lowering!Bindings
<1>5. /\ \A i \in 1..n : Overrides(args[i]) \/ args[i].name = "" \/ args[i].name \in ports
      /\ DOMAIN b.params = {args[i].name : i \in {j \in 1..n : Overrides(args[j])}}
      /\ \A i \in 1..n :
            Overrides(args[i]) /\ (\A j \in 1..n : Overrides(args[j]) /\ args[j].name = args[i].name
                                                   => j <= i)
            => b.params[args[i].name] = Lowering!Eval(args[i].value)
  BY <1>4 DEF BoundSoFar, Lowering!Bindings, args, n
<1>6. \A p : Lowering!Given(p) = {i \in 1..n : args[i].name = p}
  BY <1>1 DEF Lowering!Given, args
<1>7. ASSUME NEW p, NEW i \in 1..n, args[i].name = p, p # "", p \notin ports
      PROVE  /\ p \in Lowering!ParamNames(Lowering!Def) /\ Lowering!Given(p) # {}
             /\ Lowering!Evaluates(Lowering!Said(p)) /\ p \in DOMAIN b.params
             /\ b.params[p] = Lowering!Eval(Lowering!Said(p))
  <2> DEFINE G == Lowering!Given(p)
  <2>1. G \in SUBSET (0..n) /\ i \in G
    <3>1. \A j \in 1..n : j \in 0..n
      BY <1>1
    <3>2. G = {j \in 1..n : args[j].name = p}
      BY <1>6
    <3> HIDE DEF G
    <3> QED
      BY <1>7, <3>1, <3>2
  <2>2. \E x \in G : \A y \in G : y <= x
    <3> HIDE DEF G
    <3> QED
      BY <1>1, <2>1, GreatestIndex
  <2> DEFINE m == CHOOSE x \in G : \A y \in G : y <= x
  <2>3. m \in G /\ \A y \in G : y <= m
    <3> HIDE DEF G
    <3> QED
      BY <2>2
  <2>4. Lowering!Said(p) = args[m].value
    BY DEF Lowering!Said, args
  <2> HIDE DEF m, G
  <2>5. m \in 1..n /\ args[m].name = p /\ \A y \in 1..n : args[y].name = p => y <= m
    BY <1>6, <2>3 DEF G
  <2>6. Overrides(args[m])
    BY <1>5, <1>7, <2>5
  <2>7. b.params[p] = Lowering!Eval(args[m].value) /\ p \in DOMAIN b.params
    <3> HIDE DEF b
    <3> QED
      BY <1>5, <2>5, <2>6
  <2>8. p \in Lowering!ParamNames(Lowering!Def) /\ Lowering!Evaluates(args[m].value)
    BY <2>5, <2>6 DEF Overrides
  <2>9. Lowering!Given(p) # {}
    BY <2>1 DEF G
  <2> QED
    BY <2>4, <2>7, <2>8, <2>9
<1>8. Lowering!MeantParams =
        {p \in Lowering!ParamNames(Lowering!Def) \ (ports \cup {""}) :
            Lowering!Given(p) # {} /\ Lowering!Evaluates(Lowering!Said(p))}
  BY DEF Lowering!MeantParams, Lowering!ToSet, ToSet
<1> HIDE DEF b, ports
<1>9. ASSUME NEW p \in DOMAIN b.params
      PROVE  p \in Lowering!MeantParams
  <2>1. PICK i \in 1..n : args[i].name = p /\ Overrides(args[i])
    BY <1>5
  <2>2. p # "" /\ p \notin ports
    BY <2>1 DEF Overrides, ports
  <2> QED
    BY <1>7, <1>8, <2>1, <2>2
<1>10. ASSUME NEW p \in Lowering!MeantParams
       PROVE  /\ p \in DOMAIN b.params /\ Lowering!Evaluates(Lowering!Said(p))
              /\ b.params[p] = Lowering!Eval(Lowering!Said(p))
  <2>1. Lowering!Given(p) # {} /\ p # "" /\ p \notin ports
    BY <1>8
  <2>2. PICK i \in 1..n : args[i].name = p
    BY <1>6, <2>1
  <2> QED
    BY <1>7, <2>1, <2>2
<1> QED
  BY <1>9, <1>10 DEF b

Pending(items) == {items[i].name : i \in {j \in DOMAIN items : items[j].op = "param"}}

LEMMA PendingTail ==
    ASSUME NEW I, NEW s \in Seq(I), s # <<>>
    PROVE  /\ Tail(s) \in Seq(I) /\ Head(s) \in I
           /\ Pending(s) = Pending(Tail(s)) \cup
                             (IF Head(s).op = "param" THEN {Head(s).name} ELSE {})
<1> DEFINE n == Len(s)
           t == Tail(s)
<1>1. n \in Nat \ {0} /\ DOMAIN s = 1..n
  BY EmptySeq, LenProperties
<1>2. /\ t \in Seq(I) /\ DOMAIN t = 1..n - 1
      /\ \A i \in 1..n - 1 : t[i] = s[i + 1]
      /\ Head(s) = s[1] /\ s[1] \in I
  <2>1. t \in Seq(I) /\ Len(t) = n - 1 /\ \A i \in 1..Len(t) : t[i] = s[i + 1]
    BY HeadTailProperties
  <2>2. DOMAIN t = 1..Len(t)
    BY <2>1, LenProperties
  <2>3. Head(s) = s[1] /\ s[1] \in I
    BY <1>1, HeadTailProperties, ElementOfSeq
  <2> QED
    BY <2>1, <2>2, <2>3
<1> HIDE DEF n, t
<1>3. /\ \A i \in 1..n : i = 1 \/ (i - 1 \in 1..n - 1 /\ (i - 1) + 1 = i)
      /\ \A i \in 1..n - 1 : i + 1 \in 1..n
      /\ 1 \in 1..n
  BY <1>1
<1>4. ASSUME NEW x \in Pending(s)
      PROVE  x \in Pending(t) \cup (IF s[1].op = "param" THEN {s[1].name} ELSE {})
  <2>1. PICK i \in 1..n : s[i].op = "param" /\ s[i].name = x
    BY <1>1 DEF Pending
  <2>2. CASE i = 1
    BY <2>1, <2>2
  <2>3. CASE i # 1
    <3>1. i - 1 \in 1..n - 1 /\ t[i - 1] = s[i]
      BY <1>2, <1>3, <2>3
    <3>2. x \in Pending(t)
      BY <1>2, <2>1, <3>1 DEF Pending
    <3> QED
      BY <3>2
  <2> QED
    BY <2>2, <2>3
<1>5. ASSUME NEW x \in Pending(t) \cup (IF s[1].op = "param" THEN {s[1].name} ELSE {})
      PROVE  x \in Pending(s)
  <2>1. CASE x \in Pending(t)
    <3>1. PICK i \in 1..n - 1 : t[i].op = "param" /\ t[i].name = x
      BY <1>2, <2>1 DEF Pending
    <3>2. i + 1 \in 1..n /\ s[i + 1] = t[i]
      BY <1>2, <1>3
    <3> QED
      BY <1>1, <3>1, <3>2 DEF Pending
  <2>2. CASE s[1].op = "param" /\ x = s[1].name
    BY <1>1, <1>3, <2>2 DEF Pending
  <2> QED
    BY <1>5, <2>1, <2>2
<1> QED
  BY <1>2, <1>4, <1>5 DEF t

LEMMA PendingConcat ==
    ASSUME NEW I, NEW s \in Seq(I), NEW t \in Seq(I)
    PROVE  s \o t \in Seq(I) /\ Pending(t) \subseteq Pending(s \o t)
<1> DEFINE r == s \o t
<1>1. /\ r \in Seq(I) /\ Len(r) = Len(s) + Len(t)
      /\ \A i \in 1..Len(r) : r[i] = IF i <= Len(s) THEN s[i] ELSE t[i - Len(s)]
  BY ConcatProperties
<1>2. DOMAIN t = 1..Len(t) /\ DOMAIN r = 1..Len(r) /\ Len(s) \in Nat /\ Len(t) \in Nat
  BY <1>1, LenProperties
<1> HIDE DEF r
<1>3. ASSUME NEW i \in 1..Len(t)
      PROVE  Len(s) + i \in 1..Len(r) /\ r[Len(s) + i] = t[i]
  <2>1. Len(s) + i \in 1..Len(r) /\ ~ (Len(s) + i <= Len(s)) /\ (Len(s) + i) - Len(s) = i
    BY <1>1, <1>2
  <2> QED
    BY <1>1, <2>1
<1>4. Pending(t) \subseteq Pending(r)
  BY <1>2, <1>3 DEF Pending
<1> QED
  BY <1>1, <1>4 DEF r

LEMMA NothingPending == Pending(<<>>) = {}
BY DEF Pending

\* The values in scope, declared or still to be, are those that the text gives.
Matches(scope, ps, os) ==
    /\ DOMAIN scope = DOMAIN ps \cup DOMAIN os
    /\ DOMAIN ps \cap DOMAIN os = {}
    /\ \A n \in DOMAIN ps : ps[n] = scope[n]
    /\ \A n \in DOMAIN os : os[n] = scope[n]

\* So it is in the innermost body, unless a parameter in scope will be declared again,
\* which is reported.
Live(f, ps, os) ==
    \/ Pending(f.todo) \cap DOMAIN ps # {}
    \/ Matches(f.scope, ps, os) /\ DOMAIN os \subseteq Pending(f.todo)

\* And in the bodies that wait for an instance, with what they have saved.
Waits(f, saved) ==
    /\ f.todo = <<>>
    /\ Matches(f.scope, saved[2], saved[3]) /\ DOMAIN saved[3] = {}

Chain(s) == \A i \in 2..Len(s) : Waits(s[i - 1], s[i].saved)

Worded(s, I) == \E S : s \in Seq(S) /\ \A f \in S : f.todo \in Seq(I) /\ f.flat \in Seq(I)

LEMMA BodyParts ==
    ASSUME NEW f, IsBody(f), NEW t, NEW l, NEW o, NEW c
    PROVE  LET a == [f EXCEPT !.todo = t, !.flat = l]
               b == [f EXCEPT !.flat = l]
               d == [f EXCEPT !.todo = t]
               e == [f EXCEPT !.own = o, !.scope = c]
           IN  /\ a.todo = t /\ a.flat = l /\ a.scope = f.scope /\ a.saved = f.saved
               /\ b.todo = f.todo /\ b.flat = l /\ b.scope = f.scope /\ b.saved = f.saved
               /\ d.todo = t /\ d.flat = f.flat /\ d.scope = f.scope /\ d.saved = f.saved
               /\ e.todo = f.todo /\ e.flat = f.flat /\ e.scope = c /\ e.saved = f.saved
<1>1. PICK T : f \in [prefix : T, todo : T, flat : T, saved : T, own : T, bound : T, scope : T]
  BY DEF IsBody
<1> QED
  BY <1>1

\* The innermost body is replaced, by one with the same caller.
LEMMA ChainReplace ==
    ASSUME NEW I, NEW s, Worded(s, I), s # <<>>, NEW g, g.todo \in Seq(I), g.flat \in Seq(I)
    PROVE  LET r == Append(Front(s), g)
           IN  /\ Worded(r, I) /\ r # <<>> /\ Last(r) = g
               /\ Chain(s) /\ g.saved = Last(s).saved => Chain(r)
<1> DEFINE r == Append(Front(s), g)
           n == Len(s)
<1>1. PICK S : s \in Seq(S) /\ \A f \in S : f.todo \in Seq(I) /\ f.flat \in Seq(I)
  BY DEF Worded
<1>2. /\ r \in Seq(S \cup {g}) /\ Len(r) = n
      /\ \A i \in 1..n - 1 : r[i] = s[i]
      /\ r[n] = g
  <2>1. s # <<>>
    OBVIOUS
  <2>2. /\ r \in Seq(S \cup {g})
        /\ Len(r) = Len(s)
        /\ DOMAIN r = 1..Len(s)
        /\ \A i \in 1..Len(s) - 1 : r[i] = s[i]
        /\ r[Len(s)] = g
    BY <1>1, <2>1, ReplaceTop, ZenonT(30)
  <2> QED
    BY <2>2
<1>3. n \in Nat \ {0} /\ Last(s) = s[n]
  BY <1>1, PopStack
<1> HIDE DEF r, n
<1>4. r # <<>>
  BY <1>2, <1>3
<1>5. Last(r) = g
  BY <1>2, <1>4, PopStack
<1>6. Worded(r, I)
  <2>1. \A f \in S \cup {g} : f.todo \in Seq(I) /\ f.flat \in Seq(I)
    BY <1>1
  <2> QED
    BY <1>2, <2>1 DEF Worded
<1>7. ASSUME Chain(s), g.saved = Last(s).saved
      PROVE  Chain(r)
  <2> SUFFICES ASSUME NEW i \in 2..n PROVE Waits(r[i - 1], r[i].saved)
    BY <1>2 DEF Chain
  <2>1. Waits(s[i - 1], s[i].saved)
    BY <1>7 DEF Chain, n
  <2>2. r[i - 1] = s[i - 1] /\ (i = n \/ r[i] = s[i])
    BY <1>2, <1>3
  <2>3. r[i].saved = s[i].saved
    BY <1>2, <1>3, <1>7, <2>2
  <2> QED
    BY <2>1, <2>2, <2>3
<1> QED
  BY <1>4, <1>5, <1>6, <1>7 DEF r

LEMMA ChainPush ==
    ASSUME NEW I, NEW s, Worded(s, I), s # <<>>, NEW g, g.todo \in Seq(I), g.flat \in Seq(I)
    PROVE  LET r == Append(s, g)
           IN  /\ Worded(r, I) /\ r # <<>> /\ Last(r) = g
               /\ Chain(s) /\ Waits(Last(s), g.saved) => Chain(r)
<1> DEFINE r == Append(s, g)
           n == Len(s)
<1>1. PICK S : s \in Seq(S) /\ \A f \in S : f.todo \in Seq(I) /\ f.flat \in Seq(I)
  BY DEF Worded
<1>2. /\ r \in Seq(S \cup {g}) /\ Len(r) = n + 1
      /\ \A i \in 1..n : r[i] = s[i]
      /\ r[n + 1] = g
  BY <1>1, PushStack
<1>3. n \in Nat \ {0} /\ Last(s) = s[n]
  BY <1>1, PopStack
<1> HIDE DEF r, n
<1>4. r # <<>>
  BY <1>2, <1>3
<1>5. Last(r) = g
  BY <1>2, <1>4, PopStack
<1>6. Worded(r, I)
  <2>1. \A f \in S \cup {g} : f.todo \in Seq(I) /\ f.flat \in Seq(I)
    BY <1>1
  <2> QED
    BY <1>2, <2>1 DEF Worded
<1>7. ASSUME Chain(s), Waits(Last(s), g.saved)
      PROVE  Chain(r)
  <2> SUFFICES ASSUME NEW i \in 2..(n + 1) PROVE Waits(r[i - 1], r[i].saved)
    BY <1>2 DEF Chain
  <2>1. CASE i \in 2..n
    <3>1. r[i - 1] = s[i - 1] /\ r[i] = s[i]
      BY <1>2, <1>3, <2>1
    <3> QED
      BY <1>7, <2>1, <3>1 DEF Chain, n
  <2>2. CASE i = n + 1
    <3>1. i - 1 = n /\ n \in 1..n
      BY <1>3, <2>2
    <3> QED
      BY <1>2, <1>3, <1>7, <2>2, <3>1
  <2> QED
    BY <1>3, <2>1, <2>2
<1> QED
  BY <1>4, <1>5, <1>6, <1>7 DEF r

LEMMA ChainPop ==
    ASSUME NEW I, NEW s, Worded(s, I), Len(s) > 1
    PROVE  /\ Worded(Front(s), I) /\ Front(s) # <<>>
           /\ Chain(s) => Chain(Front(s)) /\ Waits(Last(Front(s)), Last(s).saved)
<1> DEFINE r == Front(s)
           n == Len(s)
<1>1. PICK S : s \in Seq(S) /\ \A f \in S : f.todo \in Seq(I) /\ f.flat \in Seq(I)
  BY DEF Worded
<1>2. s # <<>>
  OBVIOUS
<1>3. /\ r \in Seq(S) /\ Len(r) = n - 1 /\ \A i \in 1..n - 1 : r[i] = s[i]
      /\ n \in Nat \ {0} /\ Last(s) = s[n]
  BY <1>1, <1>2, PopStack
<1>4. n > 1
  OBVIOUS
<1> HIDE DEF r, n
<1>5. r # <<>>
  BY <1>3, <1>4
<1>6. Last(r) = s[n - 1]
  <2>1. Last(r) = r[Len(r)]
    BY <1>3, <1>5, PopStack
  <2>2. n - 1 \in 1..n - 1
    BY <1>3, <1>4
  <2> QED
    BY <1>3, <2>1, <2>2
<1>7. Worded(r, I)
  BY <1>1, <1>3 DEF Worded
<1>8. ASSUME Chain(s)
      PROVE  Chain(r) /\ Waits(Last(r), Last(s).saved)
  <2>1. ASSUME NEW i \in 2..n - 1
        PROVE  Waits(r[i - 1], r[i].saved)
    <3>1. r[i - 1] = s[i - 1] /\ r[i] = s[i] /\ i \in 2..n
      BY <1>3
    <3> QED
      BY <1>8, <3>1 DEF Chain, n
  <2>2. Chain(r)
    BY <1>3, <2>1 DEF Chain
  <2>3. n \in 2..n
    BY <1>3, <1>4
  <2>4. Waits(s[n - 1], s[n].saved)
    BY <1>8, <2>3 DEF Chain, n
  <2> QED
    BY <1>3, <1>6, <2>2, <2>4
<1> QED
  BY <1>5, <1>7, <1>8 DEF r

LEMMA LiveGoesOn ==
    ASSUME NEW f, NEW g, NEW ps, NEW os, Live(f, ps, os), g.scope = f.scope,
           Pending(f.todo) \subseteq Pending(g.todo)
    PROVE  Live(g, ps, os)
BY DEF Live

\* The step from (f, ps, os) to (g, qs, ot) declares n: with the value it should have, and
\* no override left, or it will be declared again.
Declaring(n, f, ps, os, g, qs, ot) ==
    /\ n \notin DOMAIN ps
    /\ Pending(f.todo) \subseteq Pending(g.todo) \cup {n}
    /\ DOMAIN qs = DOMAIN ps \cup {n} /\ \A m \in DOMAIN ps : qs[m] = ps[m]
    /\ DOMAIN g.scope = DOMAIN f.scope \cup {n}
    /\ \A m \in DOMAIN f.scope \ {n} : g.scope[m] = f.scope[m]
    /\ \/ n \in Pending(g.todo)
       \/ /\ Matches(f.scope, ps, os) => qs[n] = g.scope[n]
          /\ DOMAIN ot = DOMAIN os \ {n} /\ \A m \in DOMAIN ot : ot[m] = os[m]

LEMMA LiveBinds ==
    ASSUME NEW n, NEW f, NEW ps, NEW os, NEW g, NEW qs, NEW ot,
           Live(f, ps, os), Declaring(n, f, ps, os, g, qs, ot)
    PROVE  Live(g, qs, ot)
<1>0. /\ n \notin DOMAIN ps
      /\ Pending(f.todo) \subseteq Pending(g.todo) \cup {n}
      /\ DOMAIN qs = DOMAIN ps \cup {n} /\ \A m \in DOMAIN ps : qs[m] = ps[m]
      /\ DOMAIN g.scope = DOMAIN f.scope \cup {n}
      /\ \A m \in DOMAIN f.scope \ {n} : g.scope[m] = f.scope[m]
      /\ \/ n \in Pending(g.todo)
         \/ /\ Matches(f.scope, ps, os) => qs[n] = g.scope[n]
            /\ DOMAIN ot = DOMAIN os \ {n} /\ \A m \in DOMAIN ot : ot[m] = os[m]
  BY DEF Declaring
<1>1. CASE n \in Pending(g.todo)
  BY <1>0, <1>1 DEF Live
<1>2. CASE Pending(f.todo) \cap DOMAIN ps # {}
  BY <1>0, <1>2 DEF Live
<1>3. CASE n \notin Pending(g.todo) /\ Matches(f.scope, ps, os) /\ DOMAIN os \subseteq Pending(f.todo)
  <2>1. /\ qs[n] = g.scope[n]
        /\ DOMAIN ot = DOMAIN os \ {n} /\ \A m \in DOMAIN ot : ot[m] = os[m]
    BY <1>0, <1>3
  <2>2. /\ DOMAIN f.scope = DOMAIN ps \cup DOMAIN os
        /\ DOMAIN ps \cap DOMAIN os = {}
        /\ \A m \in DOMAIN ps : ps[m] = f.scope[m]
        /\ \A m \in DOMAIN os : os[m] = f.scope[m]
    BY <1>0, <1>3 DEF Matches
  <2>3. DOMAIN g.scope = DOMAIN qs \cup DOMAIN ot /\ DOMAIN qs \cap DOMAIN ot = {}
    BY <1>0, <2>1, <2>2
  <2>4. ASSUME NEW m \in DOMAIN qs
        PROVE  qs[m] = g.scope[m]
    <3>1. CASE m = n
      BY <1>0, <2>1, <3>1
    <3>2. CASE m # n
      <4>1. m \in DOMAIN ps /\ m \in DOMAIN f.scope \ {n}
        BY <1>0, <2>2, <2>4, <3>2
      <4>2. qs[m] = ps[m] /\ g.scope[m] = f.scope[m] /\ ps[m] = f.scope[m]
        BY <1>0, <2>2, <4>1
      <4> QED
        BY <1>0, <4>2
    <3> QED
      BY <1>0, <3>1, <3>2
  <2>5. ASSUME NEW m \in DOMAIN ot
        PROVE  ot[m] = g.scope[m]
    <3>1. m \in DOMAIN os /\ m \in DOMAIN f.scope \ {n}
      BY <1>0, <2>1, <2>2, <2>5
    <3>2. ot[m] = os[m] /\ os[m] = f.scope[m] /\ g.scope[m] = f.scope[m]
      BY <1>0, <2>1, <2>2, <3>1
    <3> QED
      BY <1>0, <3>2
  <2>6. DOMAIN ot \subseteq Pending(g.todo)
    BY <1>0, <1>3, <2>1
  <2> QED
    BY <1>0, <2>3, <2>4, <2>5, <2>6 DEF Live, Matches
<1> QED
  BY <1>1, <1>2, <1>3 DEF Live

LEMMA PlacedAsMeant ==
    ASSUME Matches(Lowering!Top.scope, params, overrides), NEW p, NEW w, NEW k
    PROVE  Lowering!Placed(p, w, k).value = Lowering!Placed(p, w, k).worth
<1> DEFINE e == Lowering!Next2.value
<1>1. Lowering!Placed(p, w, k).value = IF Lowering!Evaluates(e) THEN Lowering!Eval(e) ELSE ""
  BY DEF Lowering!Placed
<1>2. Lowering!Placed(p, w, k).worth = IF Lowering!Evaluates(e) THEN Lowering!Worth(e) ELSE ""
  BY DEF Lowering!Placed
<1> HIDE DEF e
<1>3. Lowering!Evaluates(e) => Lowering!Eval(e) = Lowering!Worth(e)
  BY DEF Lowering!Evaluates, Lowering!Eval, Lowering!Worth, Matches
<1> DEFINE x == Lowering!Placed(p, w, k)
<1>4. x.value = IF Lowering!Evaluates(e) THEN Lowering!Eval(e) ELSE ""
  BY <1>1
<1>5. x.worth = IF Lowering!Evaluates(e) THEN Lowering!Worth(e) ELSE ""
  BY <1>2
<1> HIDE DEF x
<1>6. x.value = x.worth
  <2> DEFINE c == Lowering!Evaluates(e)
             v == Lowering!Eval(e)
             u == Lowering!Worth(e)
  <2>1. (c => v = u) /\ x.value = (IF c THEN v ELSE "") /\ x.worth = (IF c THEN u ELSE "")
    BY <1>3, <1>4, <1>5
  <2> HIDE DEF c, v, u
  <2>2. CASE c
    <3>1. x.value = v /\ x.worth = u /\ v = u
      BY <2>1, <2>2
    <3> QED
      BY <3>1
  <2>3. CASE ~ c
    <3>1. x.value = "" /\ x.worth = ""
      BY <2>1, <2>3
    <3> QED
      BY <3>1
  <2> QED
    BY <2>2, <2>3
<1> QED
  BY <1>6 DEF x

Texts(I) == Worded(stack, I) /\ \A n \in DOMAIN moduleDefs : moduleDefs[n].body \in Seq(I)

Values ==
    /\ stack = <<>> => DOMAIN params = {} /\ DOMAIN overrides = {} /\ elements = <<>>
    /\ diags = {} => /\ Chain(stack)
                     /\ stack # <<>> => Live(Last(stack), params, overrides)
                     /\ \A i \in DOMAIN elements : elements[i].value = elements[i].worth

\* What the stack is after a step that replaces the innermost body.
LEMMA TopReplaced ==
    ASSUME NEW I, Texts(I), stack # <<>>, NEW g, stack' = Append(Front(stack), g),
           g.todo \in Seq(I), g.flat \in Seq(I), g.saved = Last(stack).saved
    PROVE  /\ Worded(stack', I) /\ stack' # <<>> /\ Last(stack') = g
           /\ Chain(stack) => Chain(stack')
<1> DEFINE s == stack
           r == Append(Front(s), g)
<1>1. Worded(s, I) /\ s # <<>> /\ g.saved = Last(s).saved
  BY DEF Texts
<1> HIDE DEF s
<1>2. /\ Worded(r, I) /\ r # <<>> /\ Last(r) = g
      /\ Chain(s) /\ g.saved = Last(s).saved => Chain(r)
  BY <1>1, ChainReplace
<1>3. stack' = r
  BY DEF s
<1> HIDE DEF r
<1>4. Chain(s) => Chain(r)
  BY <1>1, <1>2
<1> QED
  BY <1>2, <1>3, <1>4 DEF s

LEMMA TopIs ==
    ASSUME NEW I, Texts(I), Scoped(stack, params), stack # <<>>
    PROVE  /\ Lowering!Top = Last(stack)
           /\ \A g : Lowering!Replace(g) = Append(Front(stack), g)
           /\ IsBody(Last(stack)) /\ Last(stack).todo \in Seq(I) /\ Last(stack).flat \in Seq(I)
<1>1. PICK S : stack \in Seq(S) /\ \A f \in S : f.todo \in Seq(I) /\ f.flat \in Seq(I)
  BY DEF Texts, Worded
<1>2. PICK U : stack \in Seq(U) /\ \A f \in U : IsBody(f)
  BY DEF Scoped
<1>3. Last(stack) \in S
  BY <1>1, PopStack
<1>4. Last(stack) \in U
  BY <1>2, PopStack
<1> QED
  BY <1>1, <1>2, <1>3, <1>4, SameStacks DEF Lowering!Top, Lowering!Replace

\* The first pass takes an item of the innermost body.
LEMMA SeenIs ==
    ASSUME NEW I, Texts(I), Scoped(stack, params), Lowering!InPass1
    PROVE  LET top == Last(stack)
               g == Lowering!Seen(top)
           IN  /\ stack # <<>> /\ top.todo # <<>> /\ Lowering!Item = Head(top.todo)
               /\ Lowering!Item \in I /\ Tail(top.todo) \in Seq(I)
               /\ Pending(top.todo) = Pending(Tail(top.todo)) \cup
                    (IF Lowering!Item.op = "param" THEN {Lowering!Item.name} ELSE {})
               /\ IsBody(g) /\ g.todo = Tail(top.todo) /\ g.flat \in Seq(I)
               /\ g.scope = top.scope /\ g.saved = top.saved
<1> DEFINE top == Last(stack)
           t == Tail(top.todo)
           l == Append(top.flat, Lowering!Item)
           g == [top EXCEPT !.todo = t, !.flat = l]
<1>1. stack # <<>>
  BY DEF Lowering!InPass1
<1>2. /\ Lowering!Top = top /\ IsBody(top) /\ top.todo \in Seq(I) /\ top.flat \in Seq(I)
  BY <1>1, TopIs
<1>3. top.todo # <<>> /\ Lowering!Item = Head(top.todo)
  BY <1>2 DEF Lowering!InPass1, Lowering!Item
<1>4. Lowering!Seen(top) = g
  BY DEF Lowering!Seen
<1> HIDE DEF top
<1>5. /\ t \in Seq(I) /\ Lowering!Item \in I
      /\ Pending(top.todo) = Pending(t) \cup
                    (IF Lowering!Item.op = "param" THEN {Lowering!Item.name} ELSE {})
  BY <1>2, <1>3, PendingTail
<1>6. l \in Seq(I)
  BY <1>2, <1>5, AppendProperties
<1> HIDE DEF t, l
<1>7. g.todo = t /\ g.flat = l /\ g.scope = top.scope /\ g.saved = top.saved
  BY <1>2, BodyParts
<1>8. IsBody(g)
  BY <1>2, SeenBody
<1> HIDE DEF g
<1> QED
  BY <1>1, <1>3, <1>4, <1>5, <1>6, <1>7, <1>8 DEF top, t

\* The second pass takes one.
LEMMA DoneIs ==
    ASSUME NEW I, Texts(I), Scoped(stack, params), Lowering!InPass2
    PROVE  LET top == Last(stack)
               g == Lowering!Done2(top)
           IN  /\ stack # <<>> /\ top.todo = <<>> /\ Lowering!Next2 \in I
               /\ IsBody(g) /\ g.todo = <<>> /\ g.todo \in Seq(I) /\ g.flat \in Seq(I)
               /\ g.scope = top.scope /\ g.saved = top.saved
<1> DEFINE top == Last(stack)
           l == Tail(top.flat)
           g == [top EXCEPT !.flat = l]
<1>1. stack # <<>>
  BY DEF Lowering!InPass2
<1>2. /\ Lowering!Top = top /\ IsBody(top) /\ top.todo \in Seq(I) /\ top.flat \in Seq(I)
  BY <1>1, TopIs
<1>3. top.todo = <<>> /\ top.flat # <<>> /\ Lowering!Next2 = Head(top.flat)
  BY <1>2 DEF Lowering!InPass2, Lowering!Next2
<1>4. Lowering!Done2(top) = g
  BY DEF Lowering!Done2
<1> HIDE DEF top
<1>5. l \in Seq(I) /\ Lowering!Next2 \in I
  BY <1>2, <1>3, PendingTail
<1> HIDE DEF l
<1>6. g.todo = top.todo /\ g.flat = l /\ g.scope = top.scope /\ g.saved = top.saved
  BY <1>2, BodyParts
<1>7. IsBody(g)
  BY <1>2, StepBody
<1> HIDE DEF g
<1> QED
  BY <1>1, <1>2, <1>3, <1>4, <1>5, <1>6, <1>7 DEF top

\* Pass 1 over an item that declares nothing.
LEMMA SeenKeeps ==
    ASSUME NEW I, Texts(I), Values, Scoped(stack, params), Lowering!InPass1,
           stack' = Append(Front(stack), Lowering!Seen(Last(stack))),
           UNCHANGED <<params, overrides, elements>>, diags \subseteq diags',
           Lowering!Item.op = "param" =>
             diags' # {} \/ Lowering!Item.name \notin DOMAIN params \cup DOMAIN overrides
    PROVE  Worded(stack', I) /\ Values'
<1> DEFINE top == Last(stack)
           g == Lowering!Seen(top)
           item == Lowering!Item
<1>1. /\ stack # <<>>
      /\ Pending(top.todo) = Pending(Tail(top.todo)) \cup
                    (IF item.op = "param" THEN {item.name} ELSE {})
      /\ Tail(top.todo) \in Seq(I)
      /\ g.todo = Tail(top.todo) /\ g.flat \in Seq(I) /\ g.scope = top.scope /\ g.saved = top.saved
  BY SeenIs
<1>2. /\ Worded(stack', I) /\ stack' # <<>> /\ Last(stack') = g
      /\ Chain(stack) => Chain(stack')
  <2>1. stack' = Append(Front(stack), g) /\ g.todo \in Seq(I) /\ g.saved = Last(stack).saved
    BY <1>1
  <2> HIDE DEF g
  <2> QED
    BY <1>1, <2>1, TopReplaced
<1> HIDE DEF top, g, item
<1>3. ASSUME diags' = {}
      PROVE  Live(g, params, overrides)
  <2>1. Live(top, params, overrides)
    BY <1>1, <1>3 DEF Values, top
  <2>2. Pending(top.todo) \subseteq
           Pending(g.todo) \cup (IF item.op = "param" THEN {item.name} ELSE {})
    BY <1>1
  <2>3. item.op = "param" => item.name \notin DOMAIN params \cup DOMAIN overrides
    BY <1>3 DEF item
  <2> QED
    BY <1>1, <2>1, <2>2, <2>3 DEF Live
<1>4. Values'
  BY <1>1, <1>2, <1>3 DEF Values
<1> QED
  BY <1>2, <1>4

LEMMA ParamKeeps ==
    ASSUME NEW I, Texts(I), Values, Scoped(stack, params),
           Lowering!DeclareParam \/ Lowering!DeclareLet
    PROVE  Worded(stack', I) /\ Values'
<1> DEFINE top == Last(stack)
           item == Lowering!Item
           n == item.name
           f == Lowering!Seen(top)
<1>1. Lowering!InPass1 /\ stack # <<>>
  BY DEF Lowering!DeclareParam, Lowering!DeclareLet, Lowering!Declares, Lowering!InPass1
<1>2. /\ Pending(top.todo) = Pending(Tail(top.todo)) \cup
                    (IF item.op = "param" THEN {n} ELSE {})
      /\ Tail(top.todo) \in Seq(I)
      /\ IsBody(f) /\ f.todo = Tail(top.todo) /\ f.flat \in Seq(I)
      /\ f.scope = top.scope /\ f.saved = top.saved
  BY <1>1, SeenIs
<1>3. Lowering!Top = top /\ \A g : Lowering!Replace(g) = Append(Front(stack), g)
  BY <1>1, TopIs
<1>4. /\ item.op = "param" \/ item.op = "let"
      /\ UNCHANGED <<elements, moduleDefs>>
  BY DEF Lowering!DeclareParam, Lowering!DeclareLet, Lowering!Declares
<1>5. ASSUME NEW v, NEW w, Lowering!Bind(v, w), n \notin DOMAIN params, diags' = diags,
             \/ n \in Pending(f.todo)
             \/ Matches(top.scope, params, overrides) /\ DOMAIN overrides \subseteq Pending(top.todo)
                => /\ v = w /\ DOMAIN overrides' = DOMAIN overrides \ {n}
                   /\ \A m \in DOMAIN overrides' : overrides'[m] = overrides[m]
      PROVE  Worded(stack', I) /\ Values'
  <2> DEFINE o == f.own \cup {n}
             c == Lowering!With(f.scope, n, w)
             g == [f EXCEPT !.own = o, !.scope = c]
  <2>1. stack' = Append(Front(stack), g) /\ params' = Lowering!With(params, n, v)
    BY <1>3, <1>5 DEF Lowering!Bind
  <2>2. /\ DOMAIN params' = DOMAIN params \cup {n} /\ params'[n] = v
        /\ \A m \in DOMAIN params : params'[m] = params[m]
    BY <1>5, <2>1 DEF Lowering!With
  <2>3. /\ DOMAIN c = DOMAIN top.scope \cup {n} /\ c[n] = w
        /\ \A m \in DOMAIN top.scope \ {n} : c[m] = top.scope[m]
    BY <1>2 DEF Lowering!With
  <2> HIDE DEF c, o, f
  <2>4. g.todo = f.todo /\ g.flat = f.flat /\ g.scope = c /\ g.saved = f.saved
    BY <1>2, BodyParts
  <2> HIDE DEF g
  <2>5. /\ Worded(stack', I) /\ stack' # <<>> /\ Last(stack') = g
        /\ Chain(stack) => Chain(stack')
    <3>1. g.todo \in Seq(I) /\ g.flat \in Seq(I) /\ g.saved = Last(stack).saved
      BY <1>2, <2>4
    <3> QED
      BY <1>1, <2>1, <3>1, TopReplaced
  <2>6. ASSUME diags = {}
        PROVE  Live(g, params', overrides')
    <3>1. Live(top, params, overrides)
      BY <1>1, <2>6 DEF Values
    <3>2. Pending(top.todo) \subseteq Pending(g.todo) \cup {n}
      BY <1>2, <2>4
    <3>3. DOMAIN g.scope = DOMAIN top.scope \cup {n} /\ g.scope[n] = w
          /\ \A m \in DOMAIN top.scope \ {n} : g.scope[m] = top.scope[m]
      BY <2>3, <2>4
    <3>4. CASE n \in Pending(g.todo) \/ Pending(top.todo) \cap DOMAIN params # {}
      BY <1>5, <2>2, <3>2, <3>4 DEF Live
    <3>5. CASE n \notin Pending(g.todo) /\ Matches(top.scope, params, overrides)
               /\ DOMAIN overrides \subseteq Pending(top.todo)
      <4>1. n \notin Pending(f.todo)
        BY <2>4, <3>5
      <4>2. /\ params'[n] = g.scope[n]
            /\ DOMAIN overrides' = DOMAIN overrides \ {n}
            /\ \A m \in DOMAIN overrides' : overrides'[m] = overrides[m]
        BY <1>5, <2>2, <3>3, <3>5, <4>1
      <4> DEFINE qs == params'
                 ot == overrides'
      <4>3. /\ DOMAIN qs = DOMAIN params \cup {n} /\ (\A m \in DOMAIN params : qs[m] = params[m])
            /\ qs[n] = g.scope[n] /\ DOMAIN ot = DOMAIN overrides \ {n}
            /\ \A m \in DOMAIN ot : ot[m] = overrides[m]
        BY <2>2, <4>2
      <4> HIDE DEF qs, ot, n, top
      <4>4. n \notin DOMAIN params
        BY <1>5
      <4>5. DOMAIN qs = DOMAIN params \cup {n} /\ \A m \in DOMAIN params : qs[m] = params[m]
        BY <4>3
      <4>6. \/ n \in Pending(g.todo)
            \/ /\ Matches(top.scope, params, overrides) => qs[n] = g.scope[n]
               /\ DOMAIN ot = DOMAIN overrides \ {n} /\ \A m \in DOMAIN ot : ot[m] = overrides[m]
        BY <4>3
      <4>7. /\ DOMAIN g.scope = DOMAIN top.scope \cup {n}
            /\ \A m \in DOMAIN top.scope \ {n} : g.scope[m] = top.scope[m]
        BY <3>3
      <4>8. Live(g, qs, ot)
        <5>1. Declaring(n, top, params, overrides, g, qs, ot)
          BY <3>2, <4>4, <4>5, <4>6, <4>7 DEF Declaring
        <5> QED
          BY <3>1, <5>1, LiveBinds
      <4> QED
        BY <4>8 DEF qs, ot
    <3> QED
      BY <3>1, <3>4, <3>5 DEF Live
  <2>7. Values'
    BY <1>1, <1>4, <1>5, <2>5, <2>6 DEF Values
  <2> QED
    BY <2>5, <2>7
<1>6. ASSUME stack' = Append(Front(stack), f), UNCHANGED <<params, overrides>>, diags \subseteq diags',
             item.op = "param" => diags' # {} \/ n \notin DOMAIN params \cup DOMAIN overrides
      PROVE  Worded(stack', I) /\ Values'
  BY <1>1, <1>4, <1>6, SeenKeeps
<1>7. CASE Lowering!DeclareParam
  <2>1. item.op = "param"
    BY <1>7 DEF Lowering!DeclareParam, Lowering!Declares
  <2>2. CASE n \in DOMAIN params
    <3>1. /\ diags' = diags \cup {"duplicate"} /\ stack' = Append(Front(stack), f)
          /\ UNCHANGED <<params, overrides>>
      BY <1>3, <1>7, <2>2 DEF Lowering!DeclareParam, Lowering!Report, Lowering!context
    <3>2. diags \subseteq diags' /\ diags' # {}
      BY <3>1
    <3> QED
      BY <1>6, <3>1, <3>2
  <2>3. CASE n \notin DOMAIN params /\ n \in DOMAIN overrides
    <3> DEFINE v == overrides[n]
               w == Lowering!Wanted
    <3>1. /\ Lowering!Bind(v, w) /\ diags' = diags
          /\ overrides' = Lowering!Only(overrides, DOMAIN overrides \ {n})
      BY <1>7, <2>3 DEF Lowering!DeclareParam, Lowering!IsOverridden
    <3>2. /\ DOMAIN overrides' = DOMAIN overrides \ {n}
          /\ \A m \in DOMAIN overrides' : overrides'[m] = overrides[m]
      BY <3>1 DEF Lowering!Only
    <3>3. Matches(top.scope, params, overrides) => v = w
      BY <1>3, <2>3 DEF Lowering!Wanted, Matches
    <3> HIDE DEF v, w
    <3> QED
      BY <1>5, <2>3, <3>1, <3>2, <3>3
  <2>4. CASE n \notin DOMAIN params \cup DOMAIN overrides /\ Lowering!Evaluates(item.value)
    <3> DEFINE v == Lowering!Eval(item.value)
               w == Lowering!Wanted
    <3>1. Lowering!Bind(v, w) /\ diags' = diags /\ overrides' = overrides
      BY <1>7, <2>4 DEF Lowering!DeclareParam, Lowering!IsOverridden
    <3>2. DOMAIN overrides' = DOMAIN overrides \ {n}
          /\ \A m \in DOMAIN overrides' : overrides'[m] = overrides[m]
      BY <2>4, <3>1
    <3>3. Matches(top.scope, params, overrides) => v = w
      <4>1. Matches(top.scope, params, overrides) => n \notin DOMAIN top.scope
        BY <2>4 DEF Matches
      <4> QED
        BY <1>3, <2>4, <4>1 DEF Lowering!Wanted, Lowering!Evaluates, Lowering!Eval, Lowering!Worth, Matches
    <3> HIDE DEF v, w
    <3> QED
      BY <1>5, <2>4, <3>1, <3>2, <3>3
  <2>5. CASE n \notin DOMAIN params \cup DOMAIN overrides /\ ~ Lowering!Evaluates(item.value)
    <3>1. /\ diags' = diags \/ diags' = diags \cup {"undefined"}
          /\ stack' = Append(Front(stack), f) /\ UNCHANGED <<params, overrides>>
      BY <1>3, <1>7, <2>5 DEF Lowering!DeclareParam, Lowering!Report, Lowering!context,
         Lowering!IsOverridden
    <3>2. diags \subseteq diags'
      BY <3>1
    <3> QED
      BY <1>6, <2>5, <3>1, <3>2
  <2> QED
    BY <2>2, <2>3, <2>4, <2>5
<1>8. CASE Lowering!DeclareLet
  <2>1. item.op = "let" /\ overrides' = overrides
    BY <1>8 DEF Lowering!DeclareLet, Lowering!Declares
  <2>2. CASE n \notin DOMAIN params /\ Lowering!Evaluates(item.value)
    <3> DEFINE v == Lowering!Eval(item.value)
               w == Lowering!Worth(item.value)
    <3>1. Lowering!Bind(v, w) /\ diags' = diags
      BY <1>8, <2>2 DEF Lowering!DeclareLet
    <3>2. Matches(top.scope, params, overrides) => v = w
      BY <1>3, <2>2 DEF Lowering!Evaluates, Lowering!Eval, Lowering!Worth, Matches
    <3> HIDE DEF v, w
    <3>3. CASE n \in Pending(f.todo)
      BY <1>5, <2>2, <3>1, <3>3
    <3>4. CASE n \notin Pending(f.todo) /\ n \notin DOMAIN overrides
      <4>1. DOMAIN overrides' = DOMAIN overrides \ {n}
            /\ \A m \in DOMAIN overrides' : overrides'[m] = overrides[m]
        BY <2>1, <3>4
      <4> QED
        BY <1>5, <2>2, <3>1, <3>2, <4>1
    <3>5. CASE n \notin Pending(f.todo) /\ n \in DOMAIN overrides
      <4>1. Pending(top.todo) = Pending(f.todo)
        BY <1>2, <2>1
      <4>2. ~ (DOMAIN overrides \subseteq Pending(top.todo))
        BY <3>5, <4>1
      <4> QED
        BY <1>5, <2>2, <3>1, <4>2
    <3> QED
      BY <3>3, <3>4, <3>5
  <2>3. CASE ~ (n \notin DOMAIN params /\ Lowering!Evaluates(item.value))
    <3>1. /\ \E k : diags' = diags \cup {k}
          /\ stack' = Append(Front(stack), f) /\ params' = params
      BY <1>3, <1>8, <2>3 DEF Lowering!DeclareLet, Lowering!Report
    <3>2. diags \subseteq diags' /\ diags' # {}
      BY <3>1
    <3> QED
      BY <1>6, <2>1, <3>1, <3>2
  <2> QED
    BY <2>2, <2>3
<1> QED
  BY <1>7, <1>8

LEMMA DefinesModules ==
    ASSUME NEW I, NEW A, ItemsOfBodies(I, A), Texts(I), Scoped(stack, params), Lowering!DefineModule
    PROVE  \A n \in DOMAIN moduleDefs' : moduleDefs'[n].body \in Seq(I)
<1>1. Lowering!InPass1 /\ Lowering!Item.op = "module"
  BY DEF Lowering!DefineModule, Lowering!Declares
<1>2. Lowering!Item \in I
  BY <1>1, SeenIs
<1>3. Lowering!Item.def.body \in Seq(I)
  BY <1>1, <1>2 DEF ItemsOfBodies
<1>4. moduleDefs' = Lowering!With(moduleDefs, Lowering!Item.name, Lowering!Item.def)
  BY DEF Lowering!DefineModule
<1>5. /\ DOMAIN moduleDefs' = DOMAIN moduleDefs \cup {Lowering!Item.name}
      /\ moduleDefs'[Lowering!Item.name] = Lowering!Item.def
      /\ \A n \in DOMAIN moduleDefs \ {Lowering!Item.name} : moduleDefs'[n] = moduleDefs[n]
  BY <1>4 DEF Lowering!With
<1> QED
  BY <1>3, <1>5 DEF Texts

LEMMA Pass1Keeps ==
    ASSUME NEW I, Texts(I), Values, Scoped(stack, params),
           \/ Lowering!DefineModel \/ Lowering!DeclareGlobal \/ Lowering!DefineModule
           \/ Lowering!Defer
    PROVE  Worded(stack', I) /\ Values'
<1>1. Lowering!InPass1 /\ Lowering!Item.op # "param"
  BY DEF Lowering!DefineModel, Lowering!DeclareGlobal, Lowering!DefineModule, Lowering!Defer,
     Lowering!Declares
<1>2. Lowering!Top = Last(stack) /\ \A g : Lowering!Replace(g) = Append(Front(stack), g)
  BY <1>1, TopIs DEF Lowering!InPass1
<1>3. /\ stack' = Append(Front(stack), Lowering!Seen(Last(stack)))
      /\ UNCHANGED <<params, overrides, elements>>
  BY <1>2 DEF Lowering!DefineModel, Lowering!DeclareGlobal, Lowering!DefineModule, Lowering!Defer,
     Lowering!context
<1>4. diags \subseteq diags'
  BY DEF Lowering!DefineModel, Lowering!DeclareGlobal, Lowering!DefineModule, Lowering!Defer,
     Lowering!Report
<1> QED
  BY <1>1, <1>3, <1>4, SeenKeeps

LEMMA BranchKeeps ==
    ASSUME NEW I, NEW A, ItemsOfBodies(I, A), Texts(I), Values, Scoped(stack, params),
           Lowering!TakeBranch
    PROVE  Worded(stack', I) /\ Values'
<1> DEFINE top == Last(stack)
           item == Lowering!Item
           rest == Tail(top.todo)
<1>1. Lowering!InPass1 /\ item.op = "if" /\ stack # <<>>
  BY DEF Lowering!TakeBranch, Lowering!Declares, Lowering!InPass1
<1>2. Lowering!Top = top /\ \A g : Lowering!Replace(g) = Append(Front(stack), g)
  BY <1>1, TopIs
<1>3. IsBody(top) /\ top.flat \in Seq(I)
  BY <1>1, TopIs
<1>4. item \in I /\ rest \in Seq(I) /\ Pending(top.todo) = Pending(rest)
  BY <1>1, SeenIs
<1>5. PICK b : /\ b \in {<<>>, item.then, item.other}
               /\ stack' = Append(Front(stack), [top EXCEPT !.todo = b \o rest])
               /\ diags \subseteq diags' /\ UNCHANGED <<params, overrides, elements>>
  <2>1. /\ diags' = diags \/ diags' = diags \cup {"condition"}
        /\ UNCHANGED <<params, overrides, elements>>
    BY DEF Lowering!TakeBranch, Lowering!Report, Lowering!context
  <2>2. \E b \in {<<>>, item.then, item.other} :
           stack' = Lowering!Replace([Lowering!Top EXCEPT !.todo = b \o Tail(@)])
    BY DEF Lowering!TakeBranch
  <2> QED
    BY <1>2, <2>1, <2>2
<1>6. b \in Seq(I)
  <2>1. item.then \in Seq(I) /\ item.other \in Seq(I) /\ <<>> \in Seq(I)
    BY <1>1, <1>4, EmptySeq DEF ItemsOfBodies
  <2> QED
    BY <1>5, <2>1
<1> DEFINE t == b \o rest
           g == [top EXCEPT !.todo = t]
<1>7. t \in Seq(I) /\ Pending(rest) \subseteq Pending(t)
  <2> HIDE DEF rest
  <2> QED
    BY <1>4, <1>6, PendingConcat
<1> HIDE DEF top, t, item
<1>8. g.todo = t /\ g.flat = top.flat /\ g.scope = top.scope /\ g.saved = top.saved
  BY <1>3, BodyParts
<1>9. stack' = Append(Front(stack), g)
  BY <1>5 DEF t
<1> HIDE DEF g
<1>10. /\ Worded(stack', I) /\ stack' # <<>> /\ Last(stack') = g
       /\ Chain(stack) => Chain(stack')
  <2>1. g.todo \in Seq(I) /\ g.flat \in Seq(I) /\ g.saved = Last(stack).saved
    BY <1>3, <1>7, <1>8 DEF top
  <2> QED
    BY <1>1, <1>9, <2>1, TopReplaced
<1>11. ASSUME diags = {}
       PROVE  Live(g, params, overrides)
  <2>1. Live(top, params, overrides)
    BY <1>1, <1>11 DEF Values, top
  <2>2. g.scope = top.scope /\ Pending(top.todo) \subseteq Pending(g.todo)
    BY <1>4, <1>7, <1>8
  <2> QED
    BY <2>1, <2>2, LiveGoesOn
<1>12. Values'
  BY <1>1, <1>5, <1>10, <1>11 DEF Values
<1> QED
  BY <1>10, <1>12

\* A body that has nothing more to declare has the values that its text gives.
LEMMA Settled ==
    ASSUME Values, stack # <<>>, Last(stack).todo = <<>>, diags = {}
    PROVE  Matches(Last(stack).scope, params, overrides) /\ DOMAIN overrides = {}
BY NothingPending DEF Values, Live

LEMMA SettledIsLive ==
    ASSUME NEW f, NEW ps, NEW os, Matches(f.scope, ps, os), DOMAIN os = {}
    PROVE  Live(f, ps, os)
BY DEF Live

\* Pass 2 over an item that is no instance, or a refused one.
LEMMA DoneKeeps ==
    ASSUME NEW I, Texts(I), Values, Scoped(stack, params), Lowering!InPass2,
           stack' = Append(Front(stack), Lowering!Done2(Last(stack))),
           UNCHANGED <<params, overrides>>, diags \subseteq diags',
           diags = {} => \A i \in DOMAIN elements' : elements'[i].value = elements'[i].worth
    PROVE  Worded(stack', I) /\ Values'
<1> DEFINE top == Last(stack)
           g == Lowering!Done2(top)
<1>1. /\ stack # <<>> /\ top.todo = <<>> /\ g.todo \in Seq(I) /\ g.flat \in Seq(I)
      /\ g.scope = top.scope /\ g.saved = top.saved
  BY DoneIs
<1>2. /\ Worded(stack', I) /\ stack' # <<>> /\ Last(stack') = g
      /\ Chain(stack) => Chain(stack')
  <2>1. stack' = Append(Front(stack), g) /\ g.saved = Last(stack).saved
    BY <1>1
  <2> HIDE DEF g
  <2> QED
    BY <1>1, <2>1, TopReplaced
<1>3. ASSUME diags = {}
      PROVE  Live(g, params, overrides)
  <2>1. Matches(top.scope, params, overrides) /\ DOMAIN overrides = {}
    BY <1>1, <1>3, Settled
  <2> HIDE DEF g, top
  <2>2. Matches(g.scope, params, overrides)
    BY <1>1, <2>1
  <2> QED
    BY <2>1, <2>2, SettledIsLive
<1> HIDE DEF top, g
<1>4. Values'
  BY <1>1, <1>2, <1>3 DEF Values
<1> QED
  BY <1>2, <1>4

\* What is in a sequence that grows.
LEMMA Appended ==
    ASSUME NEW S, NEW s \in Seq(S), NEW x, NEW y
    PROVE  /\ \A i \in DOMAIN Append(s, x) :
                 Append(s, x)[i] = x \/ \E j \in DOMAIN s : Append(s, x)[i] = s[j]
           /\ \A i \in DOMAIN (s \o <<x, y>>) :
                 \/ (s \o <<x, y>>)[i] = x \/ (s \o <<x, y>>)[i] = y
                 \/ \E j \in DOMAIN s : (s \o <<x, y>>)[i] = s[j]
<1>1. DOMAIN s = 1..Len(s) /\ Len(s) \in Nat
  BY LenProperties
<1>2. \A i \in DOMAIN Append(s, x) :
         Append(s, x)[i] = x \/ \E j \in DOMAIN s : Append(s, x)[i] = s[j]
  <2>1. /\ DOMAIN Append(s, x) = 1..Len(s) + 1
        /\ \A i \in 1..Len(s) : Append(s, x)[i] = s[i]
        /\ Append(s, x)[Len(s) + 1] = x
    BY PushStack
  <2> QED
    BY <1>1, <2>1
<1> DEFINE t == <<x, y>>
           r == s \o t
           U == S \cup {x, y}
<1>3. t \in Seq(U) /\ s \in Seq(U) /\ Len(t) = 2 /\ t[1] = x /\ t[2] = y
  BY SeqMonotonic
<1> HIDE DEF t, U
<1>4. /\ r \in Seq(U) /\ Len(r) = Len(s) + Len(t)
      /\ \A i \in 1..Len(r) : r[i] = IF i <= Len(s) THEN s[i] ELSE t[i - Len(s)]
  <2>1. t \in Seq(U) /\ s \in Seq(U)
    BY <1>3
  <2> QED
    BY <2>1, ConcatProperties
<1>5. Len(r) = Len(s) + 2 /\ DOMAIN r = 1..Len(r)
  BY <1>3, <1>4, LenProperties
<1> HIDE DEF r
<1>6. ASSUME NEW i \in DOMAIN r
      PROVE  r[i] = x \/ r[i] = y \/ \E j \in DOMAIN s : r[i] = s[j]
  <2>1. CASE i <= Len(s)
    <3>1. r[i] = s[i] /\ i \in DOMAIN s
      BY <1>1, <1>4, <1>5, <2>1
    <3> QED
      BY <3>1
  <2>2. CASE ~ i <= Len(s)
    <3>1. i - Len(s) = 1 \/ i - Len(s) = 2
      BY <1>1, <1>5, <2>2
    <3>2. r[i] = t[i - Len(s)]
      BY <1>4, <1>5, <2>2
    <3> QED
      BY <1>3, <3>1, <3>2
  <2> QED
    BY <2>1, <2>2
<1> QED
  BY <1>2, <1>6 DEF r, t

LEMMA Pass2Keeps ==
    ASSUME NEW I, Texts(I), Values, Scoped(stack, params), ElementsOK,
           \/ Lowering!SkipDeclaration \/ Lowering!PlaceElement \/ Lowering!PlaceUrc
           \/ Lowering!RefuseInstance
    PROVE  Worded(stack', I) /\ Values'
<1> DEFINE right(s) == \A i \in DOMAIN s : s[i].value = s[i].worth
<1>1. Lowering!InPass2 /\ stack # <<>>
  BY DEF Lowering!SkipDeclaration, Lowering!PlaceElement, Lowering!PlaceUrc,
     Lowering!RefuseInstance, Lowering!Lowers, Lowering!InPass2
<1>2. Lowering!Top = Last(stack) /\ \A g : Lowering!Replace(g) = Append(Front(stack), g)
  BY <1>1, TopIs
<1>3. /\ stack' = Append(Front(stack), Lowering!Done2(Last(stack)))
      /\ UNCHANGED <<params, overrides>>
  BY <1>2 DEF Lowering!SkipDeclaration, Lowering!PlaceElement, Lowering!PlaceUrc,
     Lowering!RefuseInstance, Lowering!Skipped, Lowering!context
<1>4. diags \subseteq diags'
  BY DEF Lowering!SkipDeclaration, Lowering!PlaceElement, Lowering!PlaceUrc,
     Lowering!RefuseInstance, Lowering!Report
<1>5. PICK S : elements \in Seq(S)
  BY DEF ElementsOK
<1>7. ASSUME diags = {}
      PROVE  right(elements')
  <2>1. Matches(Lowering!Top.scope, params, overrides)
    BY <1>1, <1>2, <1>7, DoneIs, Settled
  <2>2. \A p, w, k : Lowering!Placed(p, w, k).value = Lowering!Placed(p, w, k).worth
    BY <2>1, PlacedAsMeant
  <2>3. right(elements)
    BY <1>7 DEF Values
  <2>4. ASSUME NEW x, x.value = x.worth
        PROVE  right(Append(elements, x))
    <3>1. \A i \in DOMAIN Append(elements, x) :
             \/ Append(elements, x)[i] = x
             \/ \E j \in DOMAIN elements : Append(elements, x)[i] = elements[j]
      BY <1>5, Appended
    <3> QED
      BY <2>3, <2>4, <3>1
  <2>5. ASSUME NEW x, x.value = x.worth, NEW y, y.value = y.worth
        PROVE  right(elements \o <<x, y>>)
    <3> DEFINE r == elements \o <<x, y>>
    <3>1. \A i \in DOMAIN r :
             r[i] = x \/ r[i] = y \/ \E j \in DOMAIN elements : r[i] = elements[j]
      BY <1>5, Appended
    <3> HIDE DEF r
    <3> QED
      BY <2>3, <2>5, <3>1
  <2>6. \/ elements' = elements
        \/ \E p, w, k : elements' = Append(elements, Lowering!Placed(p, w, k))
        \/ \E p, q, x, y : elements' = elements \o <<Lowering!Placed(p, x, 2), Lowering!Placed(q, y, 1)>>
    BY DEF Lowering!SkipDeclaration, Lowering!PlaceElement, Lowering!PlaceUrc,
       Lowering!RefuseInstance
  <2> HIDE DEF right
  <2> QED
    BY <2>2, <2>3, <2>4, <2>5, <2>6
<1> QED
  BY <1>1, <1>3, <1>4, <1>7, DoneKeeps

LEMMA InstantiateKeeps ==
    ASSUME NEW I, NEW A, ItemsOfBodies(I, A), Texts(I), Values, Scoped(stack, params),
           Lowering!Instantiate
    PROVE  Worded(stack', I) /\ Values'
<1> DEFINE top == Last(stack)
           g == Lowering!Done2(top)
           ports == Lowering!MeantPorts
           scope == Lowering!MeantScope
           body == Lowering!Def.body
           path == Lowering!Path
           f == Lowering!Frame(path, body, <<netRemap, params, overrides>>, ports, scope)
           s == Append(Front(stack), g)
<1>1. /\ Lowering!InPass2 /\ Lowering!Next2.op = "instance" /\ stack # <<>>
      /\ Lowering!Next2.module \in DOMAIN moduleDefs
  BY DEF Lowering!Instantiate, Lowering!Lowers, Lowering!InPass2
<1>2. Lowering!Top = top /\ \A x : Lowering!Replace(x) = Append(Front(stack), x)
  BY <1>1, TopIs
<1>3. /\ top.todo = <<>> /\ Lowering!Next2 \in I
      /\ g.todo = <<>> /\ g.todo \in Seq(I) /\ g.flat \in Seq(I)
      /\ g.scope = top.scope /\ g.saved = top.saved
  BY <1>1, DoneIs
<1>4. body \in Seq(I)
  BY <1>1 DEF Texts, Lowering!Def
<1>5. /\ stack' = Append(s, f) /\ params' = params /\ elements' = elements
      /\ overrides' = Lowering!Bindings.params
      /\ IF Lowering!Bindings.bad THEN diags' = diags \cup {"argument"} ELSE diags' = diags
  BY <1>2 DEF Lowering!Instantiate, Lowering!Swap, Lowering!context, Lowering!Report
<1>6. /\ f.todo = body /\ f.flat = <<>> /\ f.saved = <<netRemap, params, overrides>>
      /\ f.scope = scope /\ f.flat \in Seq(I)
  <2>1. <<>> \in Seq(I)
    BY EmptySeq
  <2> HIDE DEF body, scope, path, ports
  <2> QED
    BY <2>1 DEF Lowering!Frame
<1>7. f.saved[2] = params /\ f.saved[3] = overrides
  <2> HIDE DEF f
  <2> QED
    BY <1>6
<1> HIDE DEF f, g, path, ports
<1>8. Worded(s, I) /\ s # <<>> /\ Last(s) = g /\ (Chain(stack) => Chain(s))
  <2>1. Worded(stack, I) /\ g.saved = Last(stack).saved
    BY <1>3 DEF Texts
  <2> QED
    BY <1>1, <1>3, <2>1, ChainReplace
<1>9. /\ Worded(stack', I) /\ stack' # <<>> /\ Last(stack') = f
      /\ Chain(s) /\ Waits(g, f.saved) => Chain(stack')
  <2> DEFINE r == Append(s, f)
  <2> HIDE DEF s, body
  <2>1. /\ Worded(r, I) /\ r # <<>> /\ Last(r) = f
        /\ Chain(s) /\ Waits(Last(s), f.saved) => Chain(r)
    BY <1>4, <1>6, <1>8, ChainPush
  <2>2. stack' = r
    BY <1>5
  <2> HIDE DEF r
  <2>3. Chain(s) /\ Waits(g, f.saved) => Chain(r)
    BY <1>8, <2>1
  <2> QED
    BY <2>1, <2>2, <2>3
<1>10. ASSUME diags' = {}
       PROVE  Chain(stack') /\ Live(f, params', overrides')
              /\ \A i \in DOMAIN elements : elements[i].value = elements[i].worth
  <2>1. diags = {} /\ ~ Lowering!Bindings.bad
    BY <1>5, <1>10
  <2>2. Matches(top.scope, params, overrides) /\ DOMAIN overrides = {}
    BY <1>1, <1>3, <2>1, Settled
  <2>3. Chain(stack) /\ \A i \in DOMAIN elements : elements[i].value = elements[i].worth
    BY <2>1 DEF Values
  <2>4. Waits(g, f.saved)
    <3>1. Matches(g.scope, f.saved[2], f.saved[3]) /\ DOMAIN f.saved[3] = {}
      BY <1>3, <1>7, <2>2
    <3> QED
      BY <1>3, <3>1 DEF Waits
  <2>5. Chain(stack')
    BY <1>8, <1>9, <2>3, <2>4
  <2> DEFINE meant == Lowering!MeantParams
             os == Lowering!Bindings.params
             said(p) == Lowering!Said(p)
  <2>6. /\ DOMAIN os = meant
        /\ \A p \in meant : Lowering!Evaluates(said(p)) /\ os[p] = Lowering!Eval(said(p))
    <3>1. Lowering!Next2.args \in Seq(A)
      BY <1>1, <1>3 DEF ItemsOfBodies
    <3> QED
      BY <2>1, <3>1, BindingsAre
  <2>7. meant \subseteq Pending(body)
    BY DEF Lowering!MeantParams, Lowering!ParamNames, Pending
  <2>8. /\ DOMAIN scope = meant \cup DOMAIN top.scope
        /\ \A p \in meant : scope[p] = Lowering!Worth(said(p))
        /\ \A p \in DOMAIN top.scope \ meant : scope[p] = top.scope[p]
    BY <1>2 DEF Lowering!MeantScope
  <2>9. /\ DOMAIN top.scope = DOMAIN params
        /\ \A n \in DOMAIN params : params[n] = top.scope[n]
    BY <2>2 DEF Matches
  <2>10. \A e : Lowering!Evaluates(e) => Lowering!Eval(e) = Lowering!Worth(e)
    BY <1>2, <2>9 DEF Lowering!Evaluates, Lowering!Eval, Lowering!Worth
  <2> HIDE DEF meant, os, said, top, scope, body
  <2>11. \A p \in meant : os[p] = scope[p]
    BY <2>6, <2>8, <2>10
  <2>12. CASE Pending(body) \cap DOMAIN params # {}
    BY <1>5, <1>6, <2>5, <2>3, <2>12 DEF Live
  <2>13. CASE Pending(body) \cap DOMAIN params = {}
    <3>1. meant \cap DOMAIN params = {}
      BY <2>7, <2>13
    <3>2. Matches(scope, params, os)
      BY <2>6, <2>8, <2>9, <2>11, <3>1 DEF Matches
    <3>3. Live(f, params, os)
      BY <1>6, <2>6, <2>7, <3>2 DEF Live
    <3>4. params' = params /\ overrides' = os
      BY <1>5 DEF os
    <3> QED
      BY <2>3, <2>5, <3>3, <3>4
  <2> QED
    BY <2>12, <2>13
<1>11. Values'
  BY <1>5, <1>9, <1>10 DEF Values
<1> QED
  BY <1>9, <1>11

LEMMA ReturnKeeps ==
    ASSUME NEW I, Texts(I), Values, Scoped(stack, params), Lowering!Return
    PROVE  Worded(stack', I) /\ Values'
<1> DEFINE r == Front(stack)
<1>1. Len(stack) > 1 /\ stack # <<>>
  BY DEF Lowering!Return
<1>2. Lowering!Top = Last(stack)
  BY <1>1, TopIs
<1>3. /\ stack' = r /\ params' = Last(stack).saved[2] /\ overrides' = Last(stack).saved[3]
      /\ elements' = elements /\ diags' = diags
  BY <1>2, SameStacks DEF Lowering!Return, Lowering!Restore
<1>4. /\ Worded(r, I) /\ r # <<>>
      /\ Chain(stack) => Chain(r) /\ Waits(Last(r), Last(stack).saved)
  BY <1>1, ChainPop DEF Texts
<1> HIDE DEF r
<1>5. ASSUME diags = {}
      PROVE  Live(Last(r), params', overrides')
  <2>1. Waits(Last(r), Last(stack).saved)
    BY <1>4, <1>5 DEF Values
  <2>2. Matches(Last(r).scope, params', overrides') /\ DOMAIN overrides' = {}
    BY <1>3, <2>1 DEF Waits
  <2> QED
    BY <2>2, SettledIsLive
<1>6. Values'
  BY <1>3, <1>4, <1>5 DEF Values
<1> QED
  BY <1>3, <1>4, <1>6

\* Whatever is lowered, values stay those that the text gives them.
LEMMA LowerKeepsValues ==
    ASSUME NEW I, NEW A, ItemsOfBodies(I, A), Texts(I), Values, Scoped(stack, params), ElementsOK,
           Lowering!Lower
    PROVE  Texts(I)' /\ Values'
<1>1. Worded(stack', I) /\ Values'
  BY ParamKeeps, Pass1Keeps, BranchKeeps, Pass2Keeps, InstantiateKeeps, ReturnKeeps
     DEF Lowering!Lower
<1>2. moduleDefs' = moduleDefs \/ Lowering!DefineModule
  BY DEF Lowering!Lower, Lowering!DeclareParam, Lowering!DeclareLet,
     Lowering!DefineModel, Lowering!DeclareGlobal, Lowering!TakeBranch,
     Lowering!Defer, Lowering!SkipDeclaration, Lowering!PlaceElement, Lowering!PlaceUrc,
     Lowering!RefuseInstance, Lowering!Instantiate, Lowering!Return
<1>3. \A n \in DOMAIN moduleDefs' : moduleDefs'[n].body \in Seq(I)
  BY <1>2, DefinesModules DEF Texts
<1> QED
  BY <1>1, <1>3 DEF Texts

\* The declarations extracted from a file are a sequence of declarations.
LEMMA SameFlattening == ASSUME NEW s PROVE Imports!FlattenSeq(s) = FlattenSeq(s)
BY DEF Imports!FlattenSeq, FlattenSeq

LEMMA FlattenedIs ==
    ASSUME NEW T, NEW s \in Seq(Seq(T))
    PROVE  Imports!FlattenSeq(s) \in Seq(T)
BY SameFlattening, FlattenSeqType

\* What the calls have still to read and what they have read are items of files.
Reading(T) ==
    /\ project \in Projects
    /\ \E S : calls \in Seq(S) /\ \A f \in S : f.todo \in Seq(T) /\ f.result \in Seq(T)

LEMMA CallParts ==
    ASSUME NEW f, IsCall(f), NEW t, NEW r
    PROVE  LET a == [f EXCEPT !.todo = t]
               b == [[f EXCEPT !.todo = t] EXCEPT !.result = r]
               c == [f EXCEPT !.result = r]
           IN  /\ a.todo = t /\ a.result = f.result
               /\ b.todo = t /\ b.result = r
               /\ c.todo = f.todo /\ c.result = r
<1>1. PICK T : f \in [file : T, names : T, todo : T, result : T]
  BY DEF IsCall
<1> QED
  BY <1>1

LEMMA ExtractedIs ==
    ASSUME NEW T, NEW I, ItemsOfFiles(T, I), NEW f, f.result \in Seq(T)
    PROVE  Imports!Extracted(f) \in Seq(T)
<1> DEFINE n == Len(f.result)
           e(i) == Imports!Part(f.names, f.result[i])
<1>1. n \in Nat /\ DOMAIN f.result = 1..n
  BY LenProperties
<1>2. ASSUME NEW i \in 1..n
      PROVE  e(i) \in Seq(T)
  <2> DEFINE t == f.result[i]
  <2>1. t \in T
    BY ElementOfSeq
  <2>2. t.op = "export" => t.items \in Seq(T)
    BY <2>1 DEF ItemsOfFiles
  <2>3. <<>> \in Seq(T) /\ <<t>> \in Seq(T)
    <3> HIDE DEF t
    <3> QED
      BY <2>1, EmptySeq
  <2>4. e(i) = <<>> \/ e(i) = <<t>> \/ (t.op = "export" /\ e(i) = t.items)
    BY DEF Imports!Part
  <2> HIDE DEF e, t
  <2> QED
    BY <2>2, <2>3, <2>4
<1> DEFINE s == [i \in 1..n |-> e(i)]
<1>3. s \in Seq(Seq(T))
  <2> HIDE DEF e, n
  <2> QED
    BY <1>1, <1>2, IsASeq
<1>4. Imports!Extracted(f) = Imports!FlattenSeq(s)
  BY <1>1 DEF Imports!Extracted
<1> HIDE DEF s
<1> QED
  BY <1>3, <1>4, FlattenedIs

\* The file an import means is there.
LEMMA TargetIsThere ==
    ASSUME Imports!Found # {}
    PROVE  Imports!Target \in DOMAIN project.files
<1> DEFINE dirs == Imports!Candidates
           found == Imports!Found
<1>1. DOMAIN dirs \in SUBSET Nat
  <2> DEFINE d == <<Imports!Dir(Imports!Top.file)>>
             S == Seq(STRING) \cup {Imports!Dir(Imports!Top.file)}
  <2>1. d \in Seq(S) /\ SearchPaths \in Seq(S)
    BY SearchPathsAssumption, SeqMonotonic
  <2> HIDE DEF d, S
  <2>2. d \o SearchPaths \in Seq(S)
    BY <2>1, ConcatProperties
  <2>3. dirs = d \o SearchPaths
    BY DEF Imports!Candidates, d
  <2> HIDE DEF dirs
  <2> QED
    BY <2>2, <2>3, LenProperties
<1>2. found = {k \in DOMAIN dirs : dirs[k] \o Imports!Item.path \in DOMAIN project.files}
  BY DEF Imports!Found
<1>3. found \in SUBSET Nat /\ found # {}
  BY <1>1, <1>2
<1> HIDE DEF found, dirs
<1>4. PICK k \in found : \A j \in found : k <= j
  BY <1>3, LeastIndex
<1> DEFINE c == CHOOSE h \in found : \A j \in found : h <= j
<1>5. c \in found
  BY <1>4
<1>6. Imports!Target = dirs[c] \o Imports!Item.path
  BY DEF Imports!Target, found, dirs
<1> HIDE DEF c
<1> QED
  BY <1>2, <1>5, <1>6

\* A call is one of the stack, with items to read and items read.
LEMMA ReadingCall ==
    ASSUME NEW T, Reading(T), Marks(calls, inProgress), NEW i \in DOMAIN calls
    PROVE  IsCall(calls[i]) /\ calls[i].todo \in Seq(T) /\ calls[i].result \in Seq(T)
<1>1. PICK S : calls \in Seq(S) /\ \A f \in S : f.todo \in Seq(T) /\ f.result \in Seq(T)
  BY DEF Reading
<1>2. PICK U : calls \in Seq(U) /\ \A f \in U : IsCall(f)
  BY DEF Marks
<1>3. i \in 1..Len(calls)
  BY <1>1, LenProperties
<1>4. calls[i] \in S /\ calls[i] \in U
  BY <1>1, <1>2, <1>3, ElementOfSeq
<1> QED
  BY <1>1, <1>2, <1>4

LEMMA ResolveKeepsReading ==
    ASSUME NEW T, NEW I, ItemsOfFiles(T, I), Reading(T), Marks(calls, inProgress), Imports!Resolve
    PROVE  Reading(T)'
<1> DEFINE top == Last(calls)
           rest == Tail(top.todo)
           passed == [top EXCEPT !.todo = rest]
<1>1. /\ Imports!Top = top
      /\ \A g : Imports!Replace(g) = Append(Front(calls), g)
  BY SameStacks DEF Imports!Top, Imports!Replace
<1>2. PICK S : calls \in Seq(S) /\ \A f \in S : f.todo \in Seq(T) /\ f.result \in Seq(T)
  BY DEF Reading
<1>3. ASSUME calls # <<>>
      PROVE  IsCall(top) /\ top.todo \in Seq(T) /\ top.result \in Seq(T)
  <2>1. top = calls[Len(calls)] /\ Len(calls) \in DOMAIN calls
    <3>1. /\ Len(calls) \in Nat \ {0} /\ DOMAIN calls = 1..Len(calls)
          /\ Last(calls) = calls[Len(calls)]
      BY <1>2, <1>3, PopStack
    <3> QED
      BY <3>1
  <2> QED
    BY <2>1, ReadingCall
<1>4. ASSUME calls # <<>>, top.todo # <<>>
      PROVE  /\ rest \in Seq(T) /\ Imports!Item \in T
             /\ passed.todo = rest /\ passed.result = top.result /\ IsCall(passed)
             /\ \A r : [passed EXCEPT !.result = r].todo = rest
                       /\ [passed EXCEPT !.result = r].result = r
  <2>1. IsCall(top) /\ top.todo \in Seq(T) /\ Imports!Item = Head(top.todo)
    BY <1>1, <1>3, <1>4 DEF Imports!Item
  <2> HIDE DEF top
  <2>2. rest \in Seq(T) /\ Head(top.todo) \in T
    BY <1>4, <2>1, PendingTail
  <2> HIDE DEF rest
  <2>3. passed.todo = rest /\ passed.result = top.result
    BY <2>1, CallParts
  <2>4. IsCall(passed)
    BY <2>1, SameFile
  <2>5. ASSUME NEW r
        PROVE  [passed EXCEPT !.result = r].todo = rest /\ [passed EXCEPT !.result = r].result = r
    <3>1. [passed EXCEPT !.result = r].todo = passed.todo /\ [passed EXCEPT !.result = r].result = r
      <4> HIDE DEF passed
      <4> QED
        BY <2>4, CallParts
    <3> QED
      BY <2>3, <3>1
  <2> QED
    BY <2>1, <2>2, <2>3, <2>4, <2>5
<1>5. project' = project /\ project \in Projects
  BY DEF Reading, Imports!Resolve, Imports!Keep, Imports!NotFound, Imports!Circular,
     Imports!SkipMerged, Imports!Unreadable, Imports!Unparsable, Imports!Open, Imports!Close
<1> HIDE DEF passed, rest, top
<1>6. ASSUME NEW s, NEW U, s \in Seq(U), \A f \in U : f.todo \in Seq(T) /\ f.result \in Seq(T),
             NEW g, g.todo \in Seq(T) /\ g.result \in Seq(T), calls' = Append(s, g)
      PROVE  Reading(T)'
  <2>1. Append(s, g) \in Seq(U \cup {g})
    BY <1>6, PushStack
  <2>2. \A f \in U \cup {g} : f.todo \in Seq(T) /\ f.result \in Seq(T)
    BY <1>6
  <2> QED
    BY <1>5, <1>6, <2>1, <2>2 DEF Reading
<1>7. CASE Imports!Keep
  <2> DEFINE r == Append(top.result, Imports!Item)
             g == [passed EXCEPT !.result = r]
  <2>1. calls # <<>> /\ top.todo # <<>> /\ calls' = Append(Front(calls), g)
    <3>1. calls # <<>> /\ top.todo # <<>>
      BY <1>1, <1>7 DEF Imports!Keep, Imports!Reads
    <3>2. Imports!Passed = passed
      BY <1>1 DEF Imports!Passed, passed, rest
    <3>3. calls' = Append(Front(calls), [Imports!Passed EXCEPT !.result = Append(@, Imports!Item)])
      BY <1>1, <1>7 DEF Imports!Keep
    <3>4. passed.result = top.result
      BY <1>4, <3>1
    <3>5. [passed EXCEPT !.result = Append(@, Imports!Item)] = g
      BY <3>4
    <3> QED
      BY <3>1, <3>2, <3>3, <3>5
  <2>2. top.result \in Seq(T) /\ Imports!Item \in T
    BY <1>3, <1>4, <2>1
  <2>3. r \in Seq(T)
    BY <2>2, AppendProperties
  <2>4. g.todo \in Seq(T) /\ g.result \in Seq(T)
    BY <1>4, <2>1, <2>3
  <2>5. Front(calls) \in Seq(S)
    BY <1>2, <2>1, PopStack
  <2> HIDE DEF g
  <2> QED
    BY <1>2, <1>6, <2>1, <2>4, <2>5
<1>8. CASE Imports!NotFound \/ Imports!Circular \/ Imports!SkipMerged
           \/ Imports!Unreadable \/ Imports!Unparsable
  <2>1. calls # <<>> /\ top.todo # <<>> /\ calls' = Append(Front(calls), passed)
    BY <1>1, <1>8 DEF Imports!NotFound, Imports!Circular, Imports!SkipMerged, Imports!Unreadable,
       Imports!Unparsable, Imports!Visits, Imports!Imports, Imports!Reads, Imports!Passed,
       passed, rest
  <2>2. passed.todo \in Seq(T) /\ passed.result \in Seq(T)
    BY <1>3, <1>4, <2>1
  <2>3. Front(calls) \in Seq(S)
    BY <1>2, <2>1, PopStack
  <2> QED
    BY <1>2, <1>6, <2>1, <2>2, <2>3
<1>9. CASE Imports!Open
  <2> DEFINE mid == Append(Front(calls), passed)
             items == Imports!Source.items
             names == Imports!Item.names
             file == Imports!Target
             g == Imports!Frame(file, names, items)
  <2>1. /\ calls # <<>> /\ top.todo # <<>> /\ Imports!Found # {}
        /\ calls' = Append(mid, g)
    BY <1>1, <1>9 DEF Imports!Open, Imports!Visits, Imports!Imports, Imports!Reads, Imports!Passed,
       passed, rest
  <2>2. items \in Seq(T)
    <3>1. file \in DOMAIN project.files
      BY <2>1, TargetIsThere
    <3>2. project.files[file].items \in Seq(T)
      <4> HIDE DEF file
      <4> QED
        BY <1>5, <3>1 DEF ItemsOfFiles
    <3> QED
      BY <3>2 DEF Imports!Source
  <2>3. g.todo \in Seq(T) /\ g.result \in Seq(T)
    <3>1. <<>> \in Seq(T)
      BY EmptySeq
    <3> HIDE DEF items, names, file
    <3>2. g.todo = items /\ g.result = <<>>
      BY DEF Imports!Frame
    <3> QED
      BY <2>2, <3>1, <3>2
  <2>4. passed.todo \in Seq(T) /\ passed.result \in Seq(T)
    BY <1>3, <1>4, <2>1
  <2>5. mid \in Seq(S \cup {passed})
    <3>1. Front(calls) \in Seq(S)
      BY <1>2, <2>1, PopStack
    <3> QED
      BY <3>1, PushStack
  <2>6. \A f \in S \cup {passed} : f.todo \in Seq(T) /\ f.result \in Seq(T)
    BY <1>2, <2>4
  <2> HIDE DEF g, mid
  <2> QED
    BY <1>6, <2>1, <2>3, <2>5, <2>6
<1>10. CASE Imports!Close
  <2> DEFINE caller == calls[Len(calls) - 1]
             r == caller.result \o Imports!Extracted(top)
             g == [caller EXCEPT !.result = r]
  <2>1. Len(calls) > 1 /\ calls' = Append(Front(Front(calls)), g)
    BY <1>1, <1>10, SameStacks DEF Imports!Close
  <2>2. calls # <<>> /\ Len(calls) - 1 \in DOMAIN calls
    BY <1>2, <2>1, LenProperties
  <2>3. IsCall(caller) /\ caller.todo \in Seq(T) /\ caller.result \in Seq(T)
    BY <2>2, ReadingCall
  <2>4. Imports!Extracted(top) \in Seq(T)
    BY <1>3, <2>2, ExtractedIs
  <2>5. r \in Seq(T)
    <3> DEFINE a == caller.result
               b == Imports!Extracted(top)
    <3>1. a \in Seq(T) /\ b \in Seq(T)
      BY <2>3, <2>4
    <3> HIDE DEF a, b
    <3>2. a \o b \in Seq(T)
      BY <3>1, ConcatProperties
    <3> QED
      BY <3>2 DEF a, b
  <2> HIDE DEF r, caller
  <2>6. g.todo \in Seq(T) /\ g.result \in Seq(T)
    BY <2>3, <2>5, CallParts
  <2>7. Front(Front(calls)) \in Seq(S)
    <3> DEFINE s == Front(calls)
    <3>1. s \in Seq(S) /\ Len(s) = Len(calls) - 1 /\ Len(calls) \in Nat
      BY <1>2, <2>2, PopStack
    <3> HIDE DEF s
    <3>2. s # <<>>
      BY <2>1, <3>1
    <3>3. Front(s) \in Seq(S)
      BY <3>1, <3>2, PopStack
    <3> QED
      BY <3>3 DEF s
  <2> HIDE DEF g
  <2> QED
    BY <1>2, <1>6, <2>1, <2>6, <2>7
<1> QED
  BY <1>7, <1>8, <1>9, <1>10 DEF Imports!Resolve

\* The declaration that the table keeps is one of the source's.
LEMMA LastIsOne ==
    ASSUME NEW T, NEW source \in Seq(T), NEW k, NEW m \in Lowering!Named(source, k)
    PROVE  LET t == Lowering!LastOf(source, k, m)
           IN  t \in T /\ t.op = "declare" /\ t.kind = k
<1> DEFINE n == Len(source)
           K == Lowering!OfKind(source, k)
           M == {i \in K : source[i].name = m}
           c == CHOOSE i \in K :
                   /\ source[i].name = m
                   /\ \A j \in K : source[j].name = m => j <= i
<1>1. n \in Nat /\ DOMAIN source = 1..n /\ \A i \in 1..n : source[i] \in T
  BY LenProperties, ElementOfSeq
<1>2. K = {i \in 1..n : source[i].op = "declare" /\ source[i].kind = k}
  BY <1>1 DEF Lowering!OfKind
<1>3. Lowering!LastOf(source, k, m) = source[c]
  BY DEF Lowering!LastOf
<1>4. M # {}
  BY DEF Lowering!Named
<1> HIDE DEF K, n
<1>5. \A i \in 1..n : i \in 0..n
  BY <1>1
<1>6. M \in SUBSET (0..n)
  BY <1>2, <1>5
<1>7. PICK i \in M : \A j \in M : j <= i
  <2> HIDE DEF M
  <2> QED
    BY <1>1, <1>4, <1>6, GreatestIndex
<1>8. c \in K
  BY <1>7
<1> HIDE DEF c
<1> QED
  BY <1>1, <1>2, <1>3, <1>8

\* Lowering begins with the text of the first circuit and those of the last module of
\* each name.
LEMMA BeginKeepsValues ==
    ASSUME NEW T, NEW I, ItemsOfFiles(T, I), Values, NEW source \in Seq(T), Lowering!Begin(source)
    PROVE  Texts(I)' /\ Values'
<1> DEFINE n == Len(source)
           kinds(k) == Lowering!OfKind(source, k)
<1>1. n \in Nat /\ DOMAIN source = 1..n /\ \A i \in 1..n : source[i] \in T
  BY LenProperties, ElementOfSeq
<1>2. \A k : kinds(k) = {i \in 1..n : source[i].op = "declare" /\ source[i].kind = k}
  BY <1>1 DEF Lowering!OfKind
<1> HIDE DEF kinds, n
<1>3. \A i \in 1..n : i \in Nat
  BY <1>1
<1>4. \A k : kinds(k) \in SUBSET Nat
  BY <1>2, <1>3
<1> DEFINE body == Lowering!FirstBody(source)
<1>5. body \in Seq(I)
  <2> DEFINE C == kinds("circuit")
             c == CHOOSE i \in C : \A j \in C : i <= j
  <2>1. body = IF C = {} THEN <<>> ELSE source[c].body
    BY DEF Lowering!FirstBody, kinds
  <2>2. C \in SUBSET Nat
    BY <1>4
  <2>3. CASE C = {}
    BY <2>1, <2>3, EmptySeq
  <2>4. CASE C # {}
    <3> HIDE DEF C
    <3>1. \E i \in C : \A j \in C : i <= j
      BY <2>2, <2>4, LeastIndex
    <3>2. c \in C
      BY <3>1
    <3> HIDE DEF c, body
    <3>3. c \in 1..n /\ source[c].op = "declare" /\ source[c].kind = "circuit"
      BY <1>2, <3>2 DEF C
    <3>4. source[c].body \in Seq(I)
      BY <1>1, <3>3 DEF ItemsOfFiles
    <3> QED
      BY <2>1, <2>4, <3>4
  <2> QED
    BY <2>3, <2>4
<1>6. ASSUME NEW m \in Lowering!Named(source, "module")
      PROVE  Lowering!LastOf(source, "module", m).def.body \in Seq(I)
  BY LastIsOne DEF ItemsOfFiles
<1> DEFINE none == Lowering!NoNames
           f == Lowering!Frame(<<>>, body, <<>>, none, none)
<1>7. /\ stack = <<>> /\ stack' = <<f>> /\ elements' = elements
      /\ params' = params /\ overrides' = overrides
      /\ moduleDefs' = [m \in Lowering!Named(source, "module") |->
                           Lowering!LastOf(source, "module", m).def]
  BY DEF Lowering!Begin, Lowering!context
<1>8. DOMAIN params = {} /\ DOMAIN overrides = {} /\ elements = <<>>
  BY <1>7 DEF Values
<1>9. DOMAIN none = {}
  BY DEF Lowering!NoNames
<1> HIDE DEF body, none
<1>10. f.todo = body /\ f.flat = <<>> /\ f.scope = none
  BY DEF Lowering!Frame
<1> HIDE DEF f
<1>11. <<f>> \in Seq({f}) /\ Len(<<f>>) = 1 /\ Last(<<f>>) = f /\ <<f>> # <<>> /\ 2..1 = {}
  BY DEF Last
<1>12. Texts(I)'
  <2>1. Worded(<<f>>, I)
    <3>1. f.todo \in Seq(I) /\ f.flat \in Seq(I)
      BY <1>5, <1>10, EmptySeq
    <3>2. \A g \in {f} : g.todo \in Seq(I) /\ g.flat \in Seq(I)
      BY <3>1
    <3> QED
      BY <1>11, <3>2 DEF Worded
  <2> QED
    BY <1>6, <1>7, <2>1 DEF Texts
<1>13. Live(f, params, overrides)
  BY <1>8, <1>9, <1>10 DEF Live, Matches
<1>14. Chain(<<f>>)
  BY <1>11 DEF Chain
<1>15. DOMAIN elements = {}
  BY <1>8
<1>16. Values'
  BY <1>7, <1>11, <1>13, <1>14, <1>15 DEF Values
<1> QED
  BY <1>12, <1>16

\* The invariant of the whole program, for sources whose items are in T and I.
VInv(T, I) == IInv /\ Reading(T) /\ Texts(I) /\ Values

LEMMA InitIsScoped ==
    ASSUME NEW T, NEW I, ItemsOfFiles(T, I), Init
    PROVE  VInv(T, I)
<1> DEFINE none == Lowering!NoNames
           f == Imports!Frame(<<>>, {}, project.root)
<1>1. /\ project \in Projects /\ calls = <<f>> /\ stack = <<>> /\ moduleDefs = none
      /\ params = none /\ overrides = none /\ elements = <<>>
  BY DEF Init, Imports!Init, Lowering!Init
<1>2. DOMAIN none = {}
  BY DEF Lowering!NoNames
<1>3. f.todo = project.root /\ f.result = <<>>
  BY DEF Imports!Frame
<1> HIDE DEF f, none
<1>4. Reading(T)
  <2>1. project.root \in Seq(T) /\ <<>> \in Seq(T)
    BY <1>1, EmptySeq DEF ItemsOfFiles
  <2>2. <<f>> \in Seq({f}) /\ \A g \in {f} : g.todo \in Seq(T) /\ g.result \in Seq(T)
    <3>1. <<f>> \in Seq({f})
      OBVIOUS
    <3>2. f.todo \in Seq(T) /\ f.result \in Seq(T)
      BY <1>3, <2>1
    <3> QED
      BY <3>1, <3>2
  <2> QED
    BY <1>1, <2>2 DEF Reading
<1>5. stack \in Seq({}) /\ Len(stack) = 0 /\ 2..0 = {} /\ DOMAIN elements = {}
  BY <1>1
<1>6. Texts(I)
  BY <1>1, <1>2, <1>5 DEF Texts, Worded
<1>7. Values
  BY <1>1, <1>2, <1>5 DEF Values, Chain
<1> QED
  BY <1>4, <1>6, <1>7, InitIsExact DEF VInv

LEMMA StepsStayScoped ==
    ASSUME NEW T, NEW I, NEW A, ItemsOfFiles(T, I), ItemsOfBodies(I, A), VInv(T, I), [Next]_vars
    PROVE  VInv(T, I)'
<1>1. IInv'
  BY StepsStayExact DEF VInv
<1>2. /\ Marks(calls, inProgress) /\ Scoped(stack, params) /\ ElementsOK
      /\ Reading(T) /\ Texts(I) /\ Values
  BY DEF VInv, IInv
<1>3. ASSUME UNCHANGED importVars
      PROVE  Reading(T)'
  BY <1>2, <1>3 DEF importVars, Reading
<1>4. ASSUME UNCHANGED loweringVars
      PROVE  Texts(I)' /\ Values'
  BY <1>2, <1>4 DEF loweringVars, Texts, Values
<1>5. CASE ResolveImports
  <2>1. Reading(T)'
    BY <1>2, <1>5, ResolveKeepsReading DEF ResolveImports
  <2> QED
    BY <1>1, <1>4, <1>5, <2>1 DEF ResolveImports, VInv
<1>6. CASE RefuseImports
  BY <1>1, <1>3, <1>4, <1>6 DEF RefuseImports, VInv
<1>7. CASE StartLowering
  <2>1. Imports!Output \in Seq(T)
    <3>1. Len(calls) = 1
      BY <1>7 DEF StartLowering, Imports!Finished
    <3>2. 1 \in DOMAIN calls
      BY <1>2, <3>1, LenProperties DEF Reading
    <3> QED
      BY <1>2, <3>2, ReadingCall DEF Imports!Output
  <2>2. Texts(I)' /\ Values'
    BY <1>2, <1>7, <2>1, BeginKeepsValues DEF StartLowering
  <2> QED
    BY <1>1, <1>3, <1>7, <2>2 DEF StartLowering, VInv
<1>8. CASE Lower
  <2>1. Texts(I)' /\ Values'
    BY <1>2, <1>8, LowerKeepsValues DEF Lower
  <2> QED
    BY <1>1, <1>3, <1>8, <2>1 DEF Lower, VInv
<1>9. CASE Return
  BY <1>1, <1>3, <1>4, <1>9 DEF Return, VInv
<1>10. CASE UNCHANGED vars
  <2>1. UNCHANGED importVars /\ UNCHANGED loweringVars
    BY <1>10 DEF vars, importVars, loweringVars
  <2> QED
    BY <1>1, <1>3, <1>4, <2>1 DEF VInv
<1> QED
  BY <1>5, <1>6, <1>7, <1>8, <1>9, <1>10 DEF Next

\* In every circuit that compiles, however its modules nest, an element has the value that
\* its body's scope gives it: an override, evaluated where the instance is written, else
\* the default, else what the instantiating bodies declare.
THEOREM ValuesStayScoped ==
    ASSUME NEW T, NEW I, NEW A, Syntax(T, I, A)
    PROVE  Spec => []ValuesAsScoped
<1>1. ItemsOfFiles(T, I) /\ ItemsOfBodies(I, A)
  BY DEF Syntax
<1>2. Init => VInv(T, I)
  BY <1>1, InitIsScoped
<1>3. VInv(T, I) /\ [Next]_vars => VInv(T, I)'
  BY <1>1, StepsStayScoped
<1>4. VInv(T, I) => ValuesAsScoped
  BY DEF VInv, Values, ValuesAsScoped, Lowering!ValuesAsScoped, Lowering!Accepted
<1> QED
  BY <1>2, <1>3, <1>4, PTL DEF Spec

-----------------------------------------------------------------------------
\* How an instance is connected.

LEMMA ArgumentPorts ==
    ASSUME NEW b, IsBinding(b), NEW a, ~ Lowering!Argument(b, a).bad
    PROVE  LET r == Lowering!Argument(b, a)
               index == Cardinality(DOMAIN b.ports) + 1
           IN  \/ /\ a.name = "" /\ index <= Len(Lowering!Def.ports)
                  /\ r.ports = Lowering!With(b.ports, Lowering!Def.ports[index], a.value)
               \/ /\ a.name # "" /\ a.name \in ToSet(Lowering!Def.ports)
                  /\ r.ports = Lowering!With(b.ports, a.name, a.value)
               \/ /\ a.name # "" /\ a.name \notin ToSet(Lowering!Def.ports)
                  /\ r.ports = b.ports
<1> DEFINE r == Lowering!Argument(b, a)
           index == Cardinality(DOMAIN b.ports) + 1
           ports == Lowering!Def.ports
           p1 == Lowering!With(b.ports, ports[index], a.value)
           p2 == Lowering!With(b.ports, a.name, a.value)
           v == Lowering!With(b.params, a.name, Lowering!Eval(a.value))
<1>1. PICK T : b \in [ports : T, params : T, bad : BOOLEAN]
  BY DEF IsBinding
<1>2. \/ a.name = "" /\ index <= Len(ports) /\ r = [b EXCEPT !.ports = p1]
      \/ r = [b EXCEPT !.bad = TRUE]
      \/ a.name # "" /\ a.name \in ToSet(ports) /\ r = [b EXCEPT !.ports = p2]
      \/ a.name # "" /\ a.name \notin ToSet(ports) /\ r = [b EXCEPT !.params = v]
  <2>1. Lowering!ToSet(ports) = ToSet(ports)
    BY DEF ToSet, Lowering!ToSet
  <2>2. Lowering!Cardinality(DOMAIN b.ports) = Cardinality(DOMAIN b.ports)
    BY DEF Cardinality, Lowering!Cardinality
  <2> QED
    BY <2>1, <2>2, Zenon DEF Lowering!Argument, Lowering!OverrideValue
<1>3. ~ r.bad
  OBVIOUS
<1> HIDE DEF r, index, ports, p1, p2, v
<1>4. r # [b EXCEPT !.bad = TRUE]
  <2>1. [b EXCEPT !.bad = TRUE].bad = TRUE
    BY <1>1
  <2> QED
    BY <1>3, <2>1
<1>5. /\ [b EXCEPT !.ports = p1].ports = p1
      /\ [b EXCEPT !.ports = p2].ports = p2
      /\ [b EXCEPT !.params = v].ports = b.ports
  BY <1>1
<1>6. \/ a.name = "" /\ index <= Len(ports) /\ r.ports = p1
      \/ a.name # "" /\ a.name \in ToSet(ports) /\ r.ports = p2
      \/ a.name # "" /\ a.name \notin ToSet(ports) /\ r.ports = b.ports
  BY <1>2, <1>4, <1>5
<1> QED
  BY <1>6 DEF r, index, ports, p1, p2

\* The argument i is for the port h: the h-th positional one, or one of its name.
IsFor(i, h) ==
    \/ Lowering!Next2.args[i].name = "" /\ i = h
    \/ Lowering!Next2.args[i].name = Lowering!Def.ports[h]

PositionalFirst(args) ==
    \A i, j \in DOMAIN args : i < j /\ args[j].name = "" => args[i].name = ""

\* The ports that k arguments bind, and the last argument for each.
ConnectedSoFar(k) ==
    LET b == Lowering!Bound[k]
        args == Lowering!Next2.args
        ports == Lowering!Def.ports
    IN  ~ b.bad =>
          /\ \A i \in 1..k : args[i].name = "" => i <= Len(ports)
          /\ DOMAIN b.ports = {ports[h] : h \in {j \in DOMAIN ports : \E i \in 1..k : IsFor(i, j)}}
          /\ \A h \in DOMAIN ports, i \in 1..k :
                IsFor(i, h) /\ (\A j \in 1..k : IsFor(j, h) => j <= i)
                => b.ports[ports[h]] = args[i].value

LEMMA IndexOfPort ==
    ASSUME NEW N, NEW ports \in Seq(N), NEW k \in Nat, k <= Len(ports),
           \A i, j \in DOMAIN ports : ports[i] = ports[j] => i = j
    PROVE  Cardinality({ports[h] : h \in 1..k}) = k
<1> DEFINE S == 1..k
           R == {ports[h] : h \in S}
           f == [h \in S |-> ports[h]]
<1>1. IsFiniteSet(S) /\ Cardinality(S) = k
  BY FS_Interval
<1>2. DOMAIN ports = 1..Len(ports) /\ Len(ports) \in Nat
  BY LenProperties
<1>3. \A h \in S : h \in DOMAIN ports
  BY <1>2
<1>4. f \in Bijection(S, R)
  <2>1. f \in Injection(S, R)
    BY <1>3 DEF Injection, IsInjective
  <2>2. f \in Surjection(S, R)
    BY DEF Surjection
  <2> QED
    BY <2>1, <2>2 DEF Bijection
<1> HIDE DEF f, S, R
<1>5. ExistsBijection(S, R)
  BY <1>4 DEF ExistsBijection
<1>6. Cardinality(R) = Cardinality(S)
  BY <1>1, <1>5, FS_Bijection
<1> QED
  BY <1>1, <1>6 DEF R, S

LEMMA OneMore ==
    ASSUME NEW k \in Nat
    PROVE  /\ \A i \in 1..(k + 1) : i \in 1..k \/ i = k + 1
           /\ k + 1 \in 1..(k + 1)
           /\ \A i \in 1..k : i \in 1..(k + 1) /\ ~ (k + 1 <= i) /\ i < k + 1
           /\ k # 0 => k \in 1..k
           /\ k = 0 => \A m \in Nat : k <= m
           /\ \A m \in Nat : k + 1 <= m => k + 1 \in 1..m /\ \A i \in 1..(k + 1) : i \in 1..m /\ i <= m
           /\ \A m \in Nat : k <= m => \A i \in 1..k : i \in 1..m
OBVIOUS

LEMMA PortsStep ==
    ASSUME NEW N, Lowering!Def.ports \in Seq(N), "" \notin N,
           \A i, j \in DOMAIN Lowering!Def.ports :
              Lowering!Def.ports[i] = Lowering!Def.ports[j] => i = j,
           NEW A, Lowering!Next2.args \in Seq(A), PositionalFirst(Lowering!Next2.args),
           NEW k \in Nat, k + 1 <= Len(Lowering!Next2.args),
           BoundSoFar(k), ConnectedSoFar(k),
           Lowering!Bound[k + 1] = Lowering!Argument(Lowering!Bound[k], Lowering!Next2.args[k + 1])
    PROVE  ConnectedSoFar(k + 1)
<1> DEFINE b == Lowering!Bound[k]
           r == Lowering!Bound[k + 1]
           args == Lowering!Next2.args
           ports == Lowering!Def.ports
           a == args[k + 1]
           index == Cardinality(DOMAIN b.ports) + 1
           m == Len(ports)
<1> SUFFICES ASSUME ~ r.bad PROVE
       /\ \A i \in 1..(k + 1) : args[i].name = "" => i <= m
       /\ DOMAIN r.ports = {ports[h] : h \in {j \in DOMAIN ports : \E i \in 1..(k + 1) : IsFor(i, j)}}
       /\ \A h \in DOMAIN ports, i \in 1..(k + 1) :
             IsFor(i, h) /\ (\A j \in 1..(k + 1) : IsFor(j, h) => j <= i)
             => r.ports[ports[h]] = args[i].value
  BY DEF ConnectedSoFar
<1>1. IsBinding(b) /\ r = Lowering!Argument(b, a)
  BY DEF BoundSoFar
<1>2. ~ b.bad
  <2> HIDE DEF b, r, a
  <2> QED
    BY <1>1, ArgumentIs
<1>3. \/ /\ a.name = "" /\ index <= m
         /\ r.ports = Lowering!With(b.ports, ports[index], a.value)
      \/ a.name # "" /\ a.name \in ToSet(ports) /\ r.ports = Lowering!With(b.ports, a.name, a.value)
      \/ a.name # "" /\ a.name \notin ToSet(ports) /\ r.ports = b.ports
  <2>1. ~ Lowering!Argument(b, a).bad
    BY <1>1
  <2>2. LET q == Lowering!Argument(b, a)
        IN  \/ /\ a.name = "" /\ index <= m
               /\ q.ports = Lowering!With(b.ports, ports[index], a.value)
            \/ /\ a.name # "" /\ a.name \in ToSet(ports)
               /\ q.ports = Lowering!With(b.ports, a.name, a.value)
            \/ a.name # "" /\ a.name \notin ToSet(ports) /\ q.ports = b.ports
    <3> HIDE DEF b, a
    <3> QED
      BY <1>1, <2>1, ArgumentPorts
  <2> HIDE DEF a, b, r
  <2> QED
    BY <1>1, <2>2
<1>4. /\ \A i \in 1..k : args[i].name = "" => i <= m
      /\ DOMAIN b.ports = {ports[h] : h \in {j \in DOMAIN ports : \E i \in 1..k : IsFor(i, j)}}
      /\ \A h \in DOMAIN ports, i \in 1..k :
            IsFor(i, h) /\ (\A j \in 1..k : IsFor(j, h) => j <= i)
            => b.ports[ports[h]] = args[i].value
  BY <1>2 DEF ConnectedSoFar
<1>5. /\ DOMAIN ports = 1..m /\ m \in Nat /\ DOMAIN args = 1..Len(args) /\ Len(args) \in Nat
      /\ \A h \in DOMAIN ports : ports[h] # ""
  <2>1. DOMAIN ports = 1..m /\ m \in Nat /\ DOMAIN args = 1..Len(args) /\ Len(args) \in Nat
    BY LenProperties
  <2>2. \A h \in 1..m : ports[h] \in N
    BY ElementOfSeq
  <2> QED
    BY <2>1, <2>2
<1>6. \A h, j \in DOMAIN ports : ports[h] = ports[j] => h = j
  OBVIOUS
<1>7. /\ \A i \in 1..(k + 1) : i \in 1..k \/ i = k + 1
      /\ k + 1 \in 1..(k + 1) /\ \A i \in 1..k : i \in 1..(k + 1) /\ ~ (k + 1 <= i) /\ i < k + 1
  BY OneMore
<1>8. ToSet(ports) = {ports[h] : h \in DOMAIN ports}
  BY DEF ToSet
<1>9. a.name = "" => \A i \in 1..k : args[i].name = ""
  <2>1. k + 1 \in DOMAIN args /\ \A i \in 1..k : i \in DOMAIN args
    <3>1. k + 1 \in 1..Len(args) /\ \A i \in 1..(k + 1) : i \in 1..Len(args)
      BY <1>5, OneMore
    <3> QED
      BY <1>5, <1>7, <3>1
  <2> QED
    BY <1>7, <2>1 DEF PositionalFirst
<1>10. /\ \A i, h : IsFor(i, h) <=> (args[i].name = "" /\ i = h) \/ args[i].name = ports[h]
  BY DEF IsFor
\* What one more argument for the port p does.
<1>11. ASSUME NEW p \in DOMAIN ports, \A h \in DOMAIN ports : IsFor(k + 1, h) <=> h = p,
              r.ports = Lowering!With(b.ports, ports[p], a.value)
       PROVE  /\ DOMAIN r.ports =
                   {ports[h] : h \in {j \in DOMAIN ports : \E i \in 1..(k + 1) : IsFor(i, j)}}
              /\ \A h \in DOMAIN ports, i \in 1..(k + 1) :
                    IsFor(i, h) /\ (\A j \in 1..(k + 1) : IsFor(j, h) => j <= i)
                    => r.ports[ports[h]] = args[i].value
  <2>1. /\ DOMAIN r.ports = DOMAIN b.ports \cup {ports[p]} /\ r.ports[ports[p]] = a.value
        /\ \A n \in DOMAIN b.ports \ {ports[p]} : r.ports[n] = b.ports[n]
    BY <1>11 DEF Lowering!With
  <2> HIDE DEF b, r, ports, args
  <2>2. DOMAIN r.ports =
           {ports[h] : h \in {j \in DOMAIN ports : \E i \in 1..(k + 1) : IsFor(i, j)}}
    <3>1. \A j \in DOMAIN ports :
             (\E i \in 1..(k + 1) : IsFor(i, j)) <=> j = p \/ \E i \in 1..k : IsFor(i, j)
      BY <1>7, <1>11
    <3> DEFINE old == {j \in DOMAIN ports : \E i \in 1..k : IsFor(i, j)}
               new == {j \in DOMAIN ports : \E i \in 1..(k + 1) : IsFor(i, j)}
    <3>2. new = old \cup {p}
      BY <1>11, <3>1
    <3>3. DOMAIN b.ports = {ports[h] : h \in old}
      BY <1>4
    <3> HIDE DEF old, new
    <3>4. {ports[h] : h \in new} = {ports[h] : h \in old} \cup {ports[p]}
      BY <3>2
    <3> QED
      BY <2>1, <3>3, <3>4 DEF new
  <2>3. ASSUME NEW h \in DOMAIN ports, NEW i \in 1..(k + 1), IsFor(i, h),
               \A j \in 1..(k + 1) : IsFor(j, h) => j <= i
        PROVE  r.ports[ports[h]] = args[i].value
    <3>1. CASE i = k + 1
      <4>1. h = p
        BY <1>11, <2>3, <3>1
      <4> QED
        BY <2>1, <3>1, <4>1
    <3>2. CASE i \in 1..k
      <4>1. h # p
        BY <1>7, <1>11, <2>3, <3>2
      <4>2. ports[h] # ports[p]
        BY <1>6, <4>1
      <4>3. ports[h] \in DOMAIN b.ports /\ b.ports[ports[h]] = args[i].value
        BY <1>4, <1>7, <2>3, <3>2
      <4> QED
        BY <2>1, <4>2, <4>3
    <3> QED
      BY <1>7, <3>1, <3>2
  <2> QED
    BY <2>2, <2>3
<1>12. CASE a.name = "" /\ index <= m /\ r.ports = Lowering!With(b.ports, ports[index], a.value)
  <2>1. \A i \in 1..k : args[i].name = ""
    BY <1>9, <1>12
  <2>2. k <= m
    <3>1. CASE k = 0
      <4> HIDE DEF m
      <4> QED
        BY <1>5, <3>1, OneMore
    <3>2. CASE k # 0
      <4>1. k \in 1..k
        BY <3>2, OneMore
      <4> QED
        BY <1>4, <2>1, <4>1
    <3> QED
      BY <3>1, <3>2
  <2>3. DOMAIN b.ports = {ports[h] : h \in 1..k}
    <3>1. \A h \in DOMAIN ports : (\E i \in 1..k : IsFor(i, h)) <=> h \in 1..k
      BY <1>5, <1>10, <2>1
    <3>2. \A h \in 1..k : h \in DOMAIN ports
      BY <1>5, <2>2, OneMore
    <3> HIDE DEF b, ports
    <3> QED
      BY <1>4, <3>1, <3>2
  <2>4. index = k + 1
    <3>1. Cardinality({ports[h] : h \in 1..k}) = k
      BY <1>6, <2>2, IndexOfPort
    <3> QED
      BY <2>3, <3>1
  <2>5. k + 1 \in DOMAIN ports /\ k + 1 <= m
    <3>1. k + 1 <= m
      BY <1>12, <2>4
    <3> HIDE DEF m
    <3> QED
      BY <1>5, <3>1, OneMore
  <2>6. \A h \in DOMAIN ports : IsFor(k + 1, h) <=> h = k + 1
    BY <1>5, <1>10, <1>12
  <2>7. r.ports = Lowering!With(b.ports, ports[k + 1], a.value)
    BY <1>12, <2>4
  <2>8. \A i \in 1..(k + 1) : i <= m
    <3> HIDE DEF m
    <3> QED
      BY <1>5, <2>5, OneMore
  <2> HIDE DEF b, r, ports, args, index, a, m
  <2> QED
    BY <1>11, <2>5, <2>6, <2>7, <2>8
<1>13. CASE a.name # "" /\ a.name \in ToSet(ports) /\ r.ports = Lowering!With(b.ports, a.name, a.value)
  <2>1. PICK p \in DOMAIN ports : a.name = ports[p]
    BY <1>8, <1>13
  <2>2. \A h \in DOMAIN ports : IsFor(k + 1, h) <=> h = p
    BY <1>6, <1>10, <1>13, <2>1
  <2>3. r.ports = Lowering!With(b.ports, ports[p], a.value)
    BY <1>13, <2>1
  <2>4. \A i \in 1..(k + 1) : args[i].name = "" => i <= m
    BY <1>4, <1>7, <1>13
  <2> HIDE DEF b, r, ports, args, index, a, m
  <2> QED
    BY <1>11, <2>2, <2>3, <2>4
<1>14. CASE a.name # "" /\ a.name \notin ToSet(ports) /\ r.ports = b.ports
  <2>1. \A h \in DOMAIN ports : ~ IsFor(k + 1, h)
    BY <1>8, <1>10, <1>14
  <2>2. \A i \in 1..(k + 1) : args[i].name = "" => i <= m
    BY <1>4, <1>7, <1>14
  <2> HIDE DEF b, r, ports, args, index, a, m
  <2>3. \A h \in DOMAIN ports : (\E i \in 1..(k + 1) : IsFor(i, h)) <=> (\E i \in 1..k : IsFor(i, h))
    BY <1>7, <2>1
  <2>4. DOMAIN r.ports =
           {ports[h] : h \in {j \in DOMAIN ports : \E i \in 1..(k + 1) : IsFor(i, j)}}
    BY <1>4, <1>14, <2>3
  <2>5. ASSUME NEW h \in DOMAIN ports, NEW i \in 1..(k + 1), IsFor(i, h),
               \A j \in 1..(k + 1) : IsFor(j, h) => j <= i
        PROVE  r.ports[ports[h]] = args[i].value
    <3>1. i \in 1..k
      BY <1>7, <2>1, <2>5
    <3> QED
      BY <1>4, <1>7, <1>14, <2>5, <3>1
  <2> QED
    BY <2>2, <2>4, <2>5
<1> HIDE DEF b, r, ports, args, index, a, m
<1> QED
  BY <1>3, <1>12, <1>13, <1>14

LEMMA ForIs ==
    ASSUME NEW A, Lowering!Next2.args \in Seq(A), PositionalFirst(Lowering!Next2.args),
           NEW h
    PROVE  Lowering!For(h) = {i \in 1..Len(Lowering!Next2.args) : IsFor(i, h)}
<1> DEFINE args == Lowering!Next2.args
           n == Len(args)
<1>1. n \in Nat /\ DOMAIN args = 1..n
  BY LenProperties
<1>2. ASSUME NEW i \in 1..n, args[i].name = ""
      PROVE  Lowering!Cardinality({j \in 1..i : args[j].name = ""}) = i
  <2>1. \A j \in 1..i : args[j].name = ""
    <3>1. \A j \in 1..i : j \in DOMAIN args /\ (j = i \/ j < i)
      <4> HIDE DEF args
      <4>1. n \in Nat /\ DOMAIN args = 1..n
        BY <1>1
      <4> HIDE DEF n
      <4> QED
        BY <4>1
    <3>2. i \in DOMAIN args
      BY <1>1
    <3> QED
      BY <1>2, <3>1, <3>2 DEF PositionalFirst
  <2>2. {j \in 1..i : args[j].name = ""} = 1..i
    BY <2>1
  <2>3. i \in Nat
    OBVIOUS
  <2>4. Cardinality(1..i) = i
    <3> HIDE DEF args, n
    <3>1. Cardinality(1..i) = IF 1 > i THEN 0 ELSE i - 1 + 1
      BY <2>3, FS_Interval
    <3> QED
      BY <2>3, <3>1
  <2>5. Lowering!Cardinality(1..i) = Cardinality(1..i)
    BY DEF Cardinality, Lowering!Cardinality
  <2> QED
    BY <2>2, <2>4, <2>5
<1>3. Lowering!Positional(h) = {i \in 1..n : args[i].name = "" /\ i = h}
  <2>1. Lowering!Positional(h) =
          {i \in 1..n : args[i].name = ""
                        /\ Lowering!Cardinality({j \in 1..i : args[j].name = ""}) = h}
    BY <1>1 DEF Lowering!Positional
  <2> DEFINE card(i) == Lowering!Cardinality({j \in 1..i : args[j].name = ""})
  <2>2. \A i \in 1..n : args[i].name = "" => card(i) = i
    BY <1>2
  <2>3. Lowering!Positional(h) = {i \in 1..n : args[i].name = "" /\ card(i) = h}
    BY <2>1
  <2> HIDE DEF card, args
  <2> QED
    BY <2>2, <2>3
<1>4. Lowering!Given(Lowering!Def.ports[h]) = {i \in 1..n : args[i].name = Lowering!Def.ports[h]}
  BY <1>1 DEF Lowering!Given
<1> HIDE DEF n
<1>5. Lowering!For(h) = {i \in 1..n : args[i].name = "" /\ i = h}
                        \cup {i \in 1..n : args[i].name = Lowering!Def.ports[h]}
  BY <1>3, <1>4 DEF Lowering!For
<1>6. \A i : IsFor(i, h) <=> (args[i].name = "" /\ i = h) \/ args[i].name = Lowering!Def.ports[h]
  BY DEF IsFor
<1> HIDE DEF args
<1>7. Lowering!For(h) = {i \in 1..n : IsFor(i, h)}
  BY <1>5, <1>6
<1> QED
  BY <1>7 DEF n, args

\* An instance whose arguments and module are such as the language has them.
WellCalled(N, A) ==
    /\ Lowering!Def.ports \in Seq(N) /\ "" \notin N
    /\ \A i, j \in DOMAIN Lowering!Def.ports :
          Lowering!Def.ports[i] = Lowering!Def.ports[j] => i = j
    /\ Lowering!Next2.args \in Seq(A) /\ PositionalFirst(Lowering!Next2.args)

\* In an accepted instance every port stands for the net that is meant.
LEMMA PortsAre ==
    ASSUME NEW N, NEW A, WellCalled(N, A), ~ Lowering!Bindings.bad
    PROVE  /\ DOMAIN Lowering!Bindings.ports = DOMAIN Lowering!MeantPorts
           /\ \A p \in DOMAIN Lowering!MeantPorts :
                 Lowering!MeantPorts[p] = Lowering!Meaning(Lowering!Bindings.ports[p])
<1> DEFINE args == Lowering!Next2.args
           n == Len(args)
           ports == Lowering!Def.ports
<1>0. args \in Seq(A) /\ PositionalFirst(args)
  BY DEF WellCalled
<1>1. n \in Nat /\ DOMAIN args = 1..n
  BY <1>0, LenProperties
<1>2. /\ Lowering!Bound[0] =
            [ports |-> Lowering!NoNames, params |-> Lowering!NoNames, bad |-> FALSE]
      /\ \A j \in 1..n :
            Lowering!Bound[j] = Lowering!Argument(Lowering!Bound[j - 1], args[j])
  BY <1>1, BoundIs
<1>3. \A k \in 0..n : BoundSoFar(k)
  BY <1>0, BoundThroughout
<1>4. ConnectedSoFar(0)
  <2> DEFINE none == Lowering!NoNames
             b == [ports |-> none, params |-> none, bad |-> FALSE]
  <2>1. DOMAIN none = {}
    BY DEF Lowering!NoNames
  <2> HIDE DEF none
  <2>2. 1..0 = {} /\ b.ports = none /\ Lowering!Bound[0] = b
    BY <1>2 DEF none
  <2> QED
    BY <2>1, <2>2 DEF ConnectedSoFar
<1>5. ASSUME NEW k \in Nat, k + 1 <= n, ConnectedSoFar(k)
      PROVE  ConnectedSoFar(k + 1)
  <2>1. k \in 0..n /\ k + 1 \in 1..n /\ (k + 1) - 1 = k
    <3> HIDE DEF n
    <3> QED
      BY <1>1, <1>5
  <2>2. Lowering!Bound[k + 1] = Lowering!Argument(Lowering!Bound[k], Lowering!Next2.args[k + 1])
    BY <1>2, <2>1
  <2> QED
    BY <1>3, <1>5, <2>1, <2>2, PortsStep DEF WellCalled
<1> HIDE DEF n, args
<1> DEFINE Bad == {j \in 0..n : ~ ConnectedSoFar(j)}
<1>6. Bad = {}
  <2> SUFFICES ASSUME Bad # {} PROVE FALSE
    OBVIOUS
  <2>1. Bad \in SUBSET Nat
    BY <1>1
  <2>2. PICK m \in Bad : \A j \in Bad : m <= j
    <3> HIDE DEF Bad
    <3> QED
      BY <2>1, LeastIndex
  <2>3. m - 1 \in Nat /\ m - 1 \in 0..n /\ ~ (m <= m - 1) /\ (m - 1) + 1 = m /\ (m - 1) + 1 <= n
    BY <1>1, <1>4, <2>2
  <2>4. ConnectedSoFar(m - 1)
    BY <2>2, <2>3
  <2>5. ConnectedSoFar((m - 1) + 1)
    BY <1>5, <2>3, <2>4
  <2> QED
    BY <2>2, <2>3, <2>5
<1>7. ConnectedSoFar(n)
  <2>1. n \in 0..n
    BY <1>1
  <2> QED
    BY <1>6, <2>1
<1> DEFINE b == Lowering!Bindings.ports
           for(h) == {i \in 1..n : IsFor(i, h)}
           bound == {k \in DOMAIN ports : for(k) # {}}
<1>8. /\ DOMAIN b = {ports[h] : h \in {j \in DOMAIN ports : \E i \in 1..n : IsFor(i, j)}}
      /\ \A h \in DOMAIN ports, i \in 1..n :
            IsFor(i, h) /\ (\A j \in 1..n : IsFor(j, h) => j <= i) => b[ports[h]] = args[i].value
  BY <1>7 DEF ConnectedSoFar, Lowering!Bindings, n, args
<1>9. \A h : Lowering!For(h) = for(h)
  BY <1>0, ForIs DEF n, args
<1>10. DOMAIN b = {ports[h] : h \in bound}
  <2>1. bound = {j \in DOMAIN ports : \E i \in 1..n : IsFor(i, j)}
    OBVIOUS
  <2> HIDE DEF bound, b
  <2> QED
    BY <1>8, <2>1
<1> DEFINE at(p) == CHOOSE k \in bound : ports[k] = p
<1>11. Lowering!MeantPorts = [p \in {ports[k] : k \in bound} |-> Lowering!Meaning(Lowering!PortNet(at(p)))]
  <2>1. bound = {k \in DOMAIN ports : Lowering!For(k) # {}}
    BY <1>9
  <2> HIDE DEF bound
  <2> QED
    BY <2>1 DEF Lowering!MeantPorts
<1>12. ASSUME NEW h \in bound
       PROVE  Lowering!PortNet(h) = b[ports[h]] /\ at(ports[h]) = h
  <2>1. h \in DOMAIN ports /\ for(h) # {}
    OBVIOUS
  <2>2. at(ports[h]) = h
    <3>1. \A k \in bound : k \in DOMAIN ports
      OBVIOUS
    <3> HIDE DEF bound
    <3> QED
      BY <3>1
  <2> DEFINE S == for(h)
             m == CHOOSE i \in S : \A j \in S : j <= i
  <2>3. S \in SUBSET (0..n) /\ S # {}
    <3>1. \A i \in 1..n : i \in 0..n
      BY <1>1
    <3> QED
      BY <2>1, <3>1
  <2>4. m \in S /\ \A j \in S : j <= m
    <3> HIDE DEF S
    <3>1. \E i \in S : \A j \in S : j <= i
      BY <1>1, <2>3, GreatestIndex
    <3> QED
      BY <3>1
  <2>5. Lowering!PortNet(h) = args[m].value
    BY <1>9 DEF Lowering!PortNet, args
  <2> HIDE DEF m
  <2>6. m \in 1..n /\ IsFor(m, h) /\ \A j \in 1..n : IsFor(j, h) => j <= m
    BY <2>4
  <2>7. b[ports[h]] = args[m].value
    <3> HIDE DEF b, ports
    <3> QED
      BY <1>8, <2>1, <2>6
  <2> QED
    BY <2>2, <2>5, <2>7
<1> HIDE DEF at, bound, b, ports
<1>13. DOMAIN Lowering!MeantPorts = {ports[k] : k \in bound}
  BY <1>11
<1>14. ASSUME NEW p \in DOMAIN Lowering!MeantPorts
       PROVE  Lowering!MeantPorts[p] = Lowering!Meaning(b[p])
  <2>1. PICK h \in bound : p = ports[h]
    BY <1>13
  <2>2. Lowering!PortNet(at(p)) = b[p]
    BY <1>12, <2>1
  <2>3. Lowering!MeantPorts[p] = Lowering!Meaning(Lowering!PortNet(at(p)))
    BY <1>11, <1>13
  <2> QED
    BY <2>2, <2>3
<1> QED
  BY <1>10, <1>13, <1>14 DEF b

\* In a body of the circuit or of one of its own instances, the nets that remap gives to the
\* ports are those that they mean.  No body of a module names a global net.
Wired(f, remap, J) ==
    /\ \E P : f.prefix \in Seq(P)
    /\ f.prefix # <<>> => f.todo \in Seq(J) /\ f.flat \in Seq(J)
    /\ f.prefix = <<>> => DOMAIN remap = {} /\ DOMAIN f.bound = {}
    /\ Len(f.prefix) = 1 => /\ DOMAIN remap = DOMAIN f.bound
                            /\ \A p \in DOMAIN remap : f.bound[p] = <<remap[p]>>

\* And in the bodies that wait, with what they have saved.
Callers(s, J) == \A i \in 2..Len(s) : Wired(s[i - 1], s[i].saved[1], J)

LEMMA CallersReplace ==
    ASSUME NEW J, NEW S, NEW s \in Seq(S), s # <<>>, NEW g, g.saved = Last(s).saved,
           Callers(s, J)
    PROVE  Callers(Append(Front(s), g), J)
<1> DEFINE r == Append(Front(s), g)
           n == Len(s)
<1>1. /\ Len(r) = n /\ r[n] = g
      /\ \A i \in 1..n - 1 : r[i] = s[i]
  <2>1. s # <<>>
    OBVIOUS
  <2>2. /\ r \in Seq(S \cup {g})
        /\ Len(r) = Len(s)
        /\ DOMAIN r = 1..Len(s)
        /\ \A i \in 1..Len(s) - 1 : r[i] = s[i]
        /\ r[Len(s)] = g
    BY <2>1, ReplaceTop, ZenonT(30)
  <2> QED
    BY <2>2
<1>2. n \in Nat \ {0} /\ Last(s) = s[n]
  BY PopStack
<1> HIDE DEF r, n
<1> SUFFICES ASSUME NEW i \in 2..n PROVE Wired(r[i - 1], r[i].saved[1], J)
  BY <1>1 DEF Callers, r
<1>3. Wired(s[i - 1], s[i].saved[1], J)
  BY DEF Callers, n
<1>4. r[i - 1] = s[i - 1] /\ (i = n \/ r[i] = s[i])
  BY <1>1, <1>2
<1>5. r[i].saved = s[i].saved
  BY <1>1, <1>2, <1>4
<1> QED
  BY <1>3, <1>4, <1>5

LEMMA CallersPush ==
    ASSUME NEW J, NEW S, NEW s \in Seq(S), s # <<>>, NEW g, Wired(Last(s), g.saved[1], J),
           Callers(s, J)
    PROVE  Callers(Append(s, g), J)
<1> DEFINE r == Append(s, g)
           n == Len(s)
<1>1. Len(r) = n + 1 /\ r[n + 1] = g /\ \A i \in 1..n : r[i] = s[i]
  BY PushStack
<1>2. n \in Nat \ {0} /\ Last(s) = s[n]
  BY PopStack
<1> HIDE DEF r, n
<1> SUFFICES ASSUME NEW i \in 2..(n + 1) PROVE Wired(r[i - 1], r[i].saved[1], J)
  BY <1>1 DEF Callers, r
<1>3. CASE i \in 2..n
  <2>1. r[i - 1] = s[i - 1] /\ r[i] = s[i]
    BY <1>1, <1>2, <1>3
  <2> QED
    BY <1>3, <2>1 DEF Callers, n
<1>4. CASE i = n + 1
  <2>1. i - 1 = n /\ n \in 1..n
    BY <1>2, <1>4
  <2> QED
    BY <1>1, <1>2, <1>4, <2>1
<1> QED
  BY <1>2, <1>3, <1>4

LEMMA CallersPop ==
    ASSUME NEW J, NEW S, NEW s \in Seq(S), Len(s) > 1, Callers(s, J)
    PROVE  Callers(Front(s), J) /\ Wired(Last(Front(s)), Last(s).saved[1], J)
<1> DEFINE r == Front(s)
           n == Len(s)
<1>1. s # <<>>
  OBVIOUS
<1>2. /\ r \in Seq(S) /\ Len(r) = n - 1 /\ \A i \in 1..n - 1 : r[i] = s[i]
      /\ n \in Nat \ {0} /\ Last(s) = s[n]
  BY <1>1, PopStack
<1>3. n > 1
  OBVIOUS
<1> HIDE DEF r, n
<1>4. r # <<>>
  BY <1>2, <1>3
<1>5. Last(r) = s[n - 1]
  <2>1. Last(r) = r[Len(r)]
    BY <1>2, <1>4, PopStack
  <2>2. n - 1 \in 1..n - 1
    BY <1>2, <1>3
  <2> QED
    BY <1>2, <2>1, <2>2
<1>6. ASSUME NEW i \in 2..n - 1
      PROVE  Wired(r[i - 1], r[i].saved[1], J)
  <2>1. r[i - 1] = s[i - 1] /\ r[i] = s[i] /\ i \in 2..n
    BY <1>2
  <2> QED
    BY <2>1 DEF Callers, n
<1>7. Callers(r, J)
  BY <1>2, <1>6 DEF Callers
<1>8. n \in 2..n
  BY <1>2, <1>3
<1>9. Wired(s[n - 1], s[n].saved[1], J)
  BY <1>8 DEF Callers, n
<1> QED
  BY <1>2, <1>5, <1>7, <1>9 DEF r

LEMMA BodyPlace ==
    ASSUME NEW f, IsBody(f), NEW t, NEW l, NEW o, NEW c
    PROVE  LET a == [f EXCEPT !.todo = t, !.flat = l]
               b == [f EXCEPT !.flat = l]
               d == [f EXCEPT !.todo = t]
               e == [f EXCEPT !.own = o, !.scope = c]
           IN  /\ a.prefix = f.prefix /\ a.bound = f.bound
               /\ b.prefix = f.prefix /\ b.bound = f.bound
               /\ d.prefix = f.prefix /\ d.bound = f.bound
               /\ e.prefix = f.prefix /\ e.bound = f.bound
<1>1. PICK T : f \in [prefix : T, todo : T, flat : T, saved : T, own : T, bound : T, scope : T]
  BY DEF IsBody
<1> QED
  BY <1>1

LEMMA StaysWired ==
    ASSUME NEW J, NEW f, NEW g, NEW remap, Wired(f, remap, J),
           g.prefix = f.prefix, g.bound = f.bound,
           f.prefix # <<>> => g.todo \in Seq(J) /\ g.flat \in Seq(J)
    PROVE  Wired(g, remap, J)
BY DEF Wired

\* The first pass takes an item.
LEMMA SeenStaysWired ==
    ASSUME NEW I, Texts(I), Scoped(stack, params), Lowering!InPass1,
           NEW J, Wired(Last(stack), netRemap, J)
    PROVE  LET top == Last(stack)
               g == Lowering!Seen(top)
           IN  /\ Wired(g, netRemap, J) /\ g.prefix = top.prefix /\ g.bound = top.bound
               /\ top.prefix # <<>> => Tail(top.todo) \in Seq(J) /\ Lowering!Item \in J
<1> DEFINE top == Last(stack)
           t == Tail(top.todo)
           l == Append(top.flat, Lowering!Item)
           g == [top EXCEPT !.todo = t, !.flat = l]
<1>1. stack # <<>>
  BY DEF Lowering!InPass1
<1>2. Lowering!Top = top /\ IsBody(top)
  BY <1>1, TopIs
<1>3. top.todo # <<>> /\ Lowering!Item = Head(top.todo)
  BY <1>2 DEF Lowering!InPass1, Lowering!Item
<1>4. Lowering!Seen(top) = g
  BY DEF Lowering!Seen
<1>5. Wired(top, netRemap, J)
  OBVIOUS
<1> HIDE DEF top
<1>6. ASSUME top.prefix # <<>>
      PROVE  t \in Seq(J) /\ l \in Seq(J) /\ Lowering!Item \in J
  <2>1. top.todo \in Seq(J) /\ top.flat \in Seq(J)
    BY <1>5, <1>6 DEF Wired
  <2>2. t \in Seq(J) /\ Lowering!Item \in J
    BY <1>3, <2>1, PendingTail
  <2> QED
    BY <2>1, <2>2, AppendProperties
<1> HIDE DEF t, l
<1>7. g.todo = t /\ g.flat = l /\ g.prefix = top.prefix /\ g.bound = top.bound
  BY <1>2, BodyParts, BodyPlace
<1> HIDE DEF g
<1>8. Wired(g, netRemap, J)
  BY <1>5, <1>6, <1>7, StaysWired
<1> QED
  BY <1>4, <1>6, <1>7, <1>8 DEF t, top

\* The second pass takes one.
LEMMA DoneStaysWired ==
    ASSUME NEW I, Texts(I), Scoped(stack, params), Lowering!InPass2,
           NEW J, Wired(Last(stack), netRemap, J)
    PROVE  LET top == Last(stack)
               g == Lowering!Done2(top)
           IN  /\ Wired(g, netRemap, J) /\ g.prefix = top.prefix /\ g.bound = top.bound
               /\ top.prefix # <<>> => Lowering!Next2 \in J
<1> DEFINE top == Last(stack)
           l == Tail(top.flat)
           g == [top EXCEPT !.flat = l]
<1>1. stack # <<>>
  BY DEF Lowering!InPass2
<1>2. Lowering!Top = top /\ IsBody(top)
  BY <1>1, TopIs
<1>3. top.flat # <<>> /\ Lowering!Next2 = Head(top.flat)
  BY <1>2 DEF Lowering!InPass2, Lowering!Next2
<1>4. Lowering!Done2(top) = g
  BY DEF Lowering!Done2
<1>5. Wired(top, netRemap, J)
  OBVIOUS
<1> HIDE DEF top
<1>6. ASSUME top.prefix # <<>>
      PROVE  top.todo \in Seq(J) /\ l \in Seq(J) /\ Lowering!Next2 \in J
  <2>1. top.todo \in Seq(J) /\ top.flat \in Seq(J)
    BY <1>5, <1>6 DEF Wired
  <2> QED
    BY <1>3, <2>1, PendingTail
<1> HIDE DEF l
<1>7. g.todo = top.todo /\ g.flat = l /\ g.prefix = top.prefix /\ g.bound = top.bound
  BY <1>2, BodyParts, BodyPlace
<1> HIDE DEF g
<1>8. Wired(g, netRemap, J)
  BY <1>5, <1>6, <1>7, StaysWired
<1> QED
  BY <1>4, <1>6, <1>7, <1>8 DEF top

LEMMA ShortPath ==
    ASSUME NEW P, NEW s \in Seq(P), Len(s) <= 1
    PROVE  s = <<>> \/ Len(s) = 1
<1>1. Len(s) \in Nat
  BY LenProperties
<1>2. Len(s) = 0 \/ Len(s) = 1
  BY <1>1
<1>3. Len(s) = 0 => s = <<>>
  BY EmptySeq
<1> QED
  BY <1>2, <1>3

\* In such a body a name is resolved to the net it means.
LEMMA ResolvedAsMeant ==
    ASSUME NEW J, Wired(Lowering!Top, netRemap, J), Len(Lowering!Top.prefix) <= 1,
           NEW G, globals \subseteq G \cup {"gnd"},
           NEW n, Lowering!Top.prefix # <<>> => n \notin G
    PROVE  Lowering!Resolve(n) = Lowering!Meaning(n)
<1> DEFINE f == Lowering!Top
<1>1. PICK P : f.prefix \in Seq(P)
  BY DEF Wired
<1>2. f.prefix = <<>> => DOMAIN netRemap = {} /\ DOMAIN f.bound = {}
  BY DEF Wired
<1>3. Len(f.prefix) = 1 => /\ DOMAIN netRemap = DOMAIN f.bound
                           /\ \A p \in DOMAIN netRemap : f.bound[p] = <<netRemap[p]>>
  BY DEF Wired
<1>4. f.prefix = <<>> \/ Len(f.prefix) = 1
  BY <1>1, ShortPath
<1>5. CASE n = "gnd"
  BY <1>5 DEF Lowering!Resolve, Lowering!Meaning
<1>6. CASE n # "gnd" /\ f.prefix = <<>>
  <2>1. Lowering!Resolve(n) = Append(f.prefix, n)
    BY <1>2, <1>6 DEF Lowering!Resolve
  <2>2. Lowering!Meaning(n) = IF n \in globals THEN <<n>> ELSE Append(f.prefix, n)
    BY <1>2, <1>6 DEF Lowering!Meaning
  <2>3. Append(f.prefix, n) = <<n>>
    BY <1>6
  <2> HIDE DEF f
  <2> QED
    BY <2>1, <2>2, <2>3
<1>7. CASE n # "gnd" /\ Len(f.prefix) = 1
  <2>1. n \notin globals
    <3>1. f.prefix # <<>>
      BY <1>7
    <3> QED
      BY <1>7, <3>1
  <2>2. CASE n \in DOMAIN netRemap
    BY <1>3, <1>7, <2>2 DEF Lowering!Resolve, Lowering!Meaning
  <2>3. CASE n \notin DOMAIN netRemap
    BY <1>3, <1>7, <2>1, <2>3 DEF Lowering!Resolve, Lowering!Meaning
  <2> QED
    BY <2>2, <2>3
<1> QED
  BY <1>4, <1>5, <1>6, <1>7

LEMMA PlacedAsWired ==
    ASSUME NEW J, Wired(Lowering!Top, netRemap, J),
           NEW G, globals \subseteq G \cup {"gnd"},
           NEW p, NEW w, NEW k,
           Lowering!Top.prefix # <<>> => \A i \in DOMAIN w : i # k => w[i] \notin G
    PROVE  LET e == Lowering!Placed(p, w, k)
           IN  e.depth <= 1 => e.nets = e.meant
<1> DEFINE e == Lowering!Placed(p, w, k)
           inner == Lowering!Path \o <<"m">>
<1>1. e.depth = Len(Lowering!Top.prefix)
  BY DEF Lowering!Placed
<1>2. e.nets = [i \in DOMAIN w |-> IF i = k THEN inner ELSE Lowering!Resolve(w[i])]
  BY DEF Lowering!Placed
<1>3. e.meant = [i \in DOMAIN w |-> IF i = k THEN inner ELSE Lowering!Meaning(w[i])]
  BY DEF Lowering!Placed
<1> HIDE DEF e, inner
<1>4. ASSUME Len(Lowering!Top.prefix) <= 1, NEW i \in DOMAIN w, i # k
      PROVE  Lowering!Resolve(w[i]) = Lowering!Meaning(w[i])
  BY <1>4, ResolvedAsMeant
<1>5. e.depth <= 1 => e.nets = e.meant
  <2> DEFINE x(i) == Lowering!Resolve(w[i])
             y(i) == Lowering!Meaning(w[i])
  <2>1. e.depth <= 1 => \A i \in DOMAIN w : i # k => x(i) = y(i)
    BY <1>1, <1>4
  <2>2. /\ e.nets = [i \in DOMAIN w |-> IF i = k THEN inner ELSE x(i)]
        /\ e.meant = [i \in DOMAIN w |-> IF i = k THEN inner ELSE y(i)]
    BY <1>2, <1>3
  <2> HIDE DEF x, y
  <2> QED
    BY <2>1, <2>2
<1> QED
  BY <1>5 DEF e

LEMMA LastReplaced ==
    ASSUME NEW S, NEW s \in Seq(S), s # <<>>, NEW g
    PROVE  Append(Front(s), g) # <<>> /\ Last(Append(Front(s), g)) = g
<1> DEFINE r == Append(Front(s), g)
<1>1. s # <<>>
  OBVIOUS
<1>2. /\ r \in Seq(S \cup {g})
      /\ Len(r) = Len(s)
      /\ DOMAIN r = 1..Len(s)
      /\ \A i \in 1..Len(s) - 1 : r[i] = s[i]
      /\ r[Len(s)] = g
  BY <1>1, ReplaceTop, ZenonT(30)
<1>3. Len(s) \in Nat \ {0}
  BY <1>1, PopStack
<1> HIDE DEF r
<1>4. r # <<>>
  BY <1>2, <1>3
<1>5. Last(r) = r[Len(r)]
  BY <1>2, <1>4, PopStack
<1> QED
  BY <1>2, <1>4, <1>5 DEF r

-----------------------------------------------------------------------------
\* In an accepted circuit ports stand for the callers' nets, and what is placed in the
\* circuit or in an instance of it is connected as its body says.
Links(J) ==
    diags = {} => /\ Callers(stack, J)
                  /\ stack # <<>> => Wired(Last(stack), netRemap, J)

Placements ==
    diags = {} => \A i \in DOMAIN elements :
                     elements[i].depth <= 1 => elements[i].nets = elements[i].meant

Tables(J, N, G) ==
    /\ globals \subseteq G \cup {"gnd"}
    /\ \A n \in DOMAIN moduleDefs : IsModule(moduleDefs[n], J, N)

Connected(J, N, G) ==
    /\ stack = <<>> => DOMAIN netRemap = {} /\ elements = <<>>
    /\ Links(J) /\ Placements /\ Tables(J, N, G)

LEMMA LinksReplace ==
    ASSUME NEW J, Links(J), Scoped(stack, params), stack # <<>>,
           NEW g, stack' = Append(Front(stack), g), g.saved = Last(stack).saved,
           Wired(Last(stack), netRemap, J) => Wired(g, netRemap, J),
           UNCHANGED netRemap, diags \subseteq diags'
    PROVE  Links(J)' /\ stack' # <<>>
<1> DEFINE s == stack
           r == Append(Front(s), g)
<1>1. PICK S : s \in Seq(S)
  BY DEF Scoped
<1>2. r # <<>> /\ Last(r) = g
  <2>1. s # <<>>
    OBVIOUS
  <2> HIDE DEF s
  <2> QED
    BY <1>1, <2>1, LastReplaced
<1>3. Callers(s, J) => Callers(r, J)
  <2>1. s # <<>> /\ g.saved = Last(s).saved
    OBVIOUS
  <2> HIDE DEF s
  <2> QED
    BY <1>1, <2>1, CallersReplace
<1>4. stack' = r
  OBVIOUS
<1> HIDE DEF r
<1> QED
  BY <1>2, <1>3, <1>4 DEF Links, s

\* Pass 1 over an item that is no conditional.
LEMMA SeenKeepsLinks ==
    ASSUME NEW I, NEW J, Texts(I), Scoped(stack, params), Links(J),
           \/ Lowering!DeclareParam \/ Lowering!DeclareLet \/ Lowering!DefineModel
           \/ Lowering!DeclareGlobal \/ Lowering!DefineModule \/ Lowering!Defer
    PROVE  /\ Links(J)' /\ stack' # <<>> /\ elements' = elements /\ diags \subseteq diags'
<1> DEFINE top == Last(stack)
           g == Lowering!Seen(top)
           item == Lowering!Item
<1>1. Lowering!InPass1 /\ stack # <<>>
  BY DEF Lowering!DeclareParam, Lowering!DeclareLet, Lowering!DefineModel,
     Lowering!DeclareGlobal, Lowering!DefineModule, Lowering!Defer, Lowering!Declares,
     Lowering!InPass1
<1>2. Lowering!Top = top /\ \A x : Lowering!Replace(x) = Append(Front(stack), x)
  BY <1>1, TopIs
<1>3. IsBody(g) /\ g.saved = top.saved
  BY <1>1, SeenIs
<1>4. Wired(top, netRemap, J) => Wired(g, netRemap, J)
  BY <1>1, SeenStaysWired
<1>5. /\ UNCHANGED <<netRemap, elements>> /\ diags \subseteq diags'
  BY DEF Lowering!DeclareParam, Lowering!DeclareLet, Lowering!DefineModel,
     Lowering!DeclareGlobal, Lowering!DefineModule, Lowering!Defer, Lowering!Bind,
     Lowering!Report, Lowering!context
<1>6. \/ stack' = Append(Front(stack), g)
      \/ \E v, w : Lowering!Bind(v, w)
  BY <1>2 DEF Lowering!DeclareParam, Lowering!DeclareLet, Lowering!DefineModel,
     Lowering!DeclareGlobal, Lowering!DefineModule, Lowering!Defer
<1>7. CASE stack' = Append(Front(stack), g)
  <2> HIDE DEF g
  <2> QED
    BY <1>1, <1>3, <1>4, <1>5, <1>7, LinksReplace DEF top
<1>8. ASSUME NEW v, NEW w, Lowering!Bind(v, w)
      PROVE  Links(J)' /\ stack' # <<>>
  <2> DEFINE o == g.own \cup {item.name}
             c == Lowering!With(g.scope, item.name, w)
             h == [g EXCEPT !.own = o, !.scope = c]
  <2>1. stack' = Append(Front(stack), h)
    BY <1>2, <1>8 DEF Lowering!Bind
  <2> HIDE DEF g, o, c
  <2>2. h.saved = g.saved /\ h.todo = g.todo /\ h.flat = g.flat
    <3>1. IsBody(g)
      BY <1>3
    <3> QED
      BY <3>1, BodyParts
  <2>3. h.prefix = g.prefix /\ h.bound = g.bound
    BY <1>3, BodyPlace
  <2> HIDE DEF h
  <2>4. Wired(g, netRemap, J) => Wired(h, netRemap, J)
    BY <2>2, <2>3 DEF Wired
  <2> HIDE DEF top
  <2>5. h.saved = Last(stack).saved /\ (Wired(Last(stack), netRemap, J) => Wired(h, netRemap, J))
    BY <1>3, <1>4, <2>2, <2>4 DEF top
  <2> QED
    BY <1>1, <1>5, <2>1, <2>5, LinksReplace
<1> HIDE DEF g
<1> QED
  BY <1>5, <1>6, <1>7, <1>8

LEMMA BranchKeepsLinks ==
    ASSUME NEW I, NEW J, Texts(I), Scoped(stack, params), Links(J),
           \A x \in J : x.op = "if" => x.then \in Seq(J) /\ x.other \in Seq(J),
           Lowering!TakeBranch
    PROVE  /\ Links(J)' /\ stack' # <<>> /\ elements' = elements /\ diags \subseteq diags'
<1> DEFINE top == Last(stack)
           item == Lowering!Item
           rest == Tail(top.todo)
<1>1. Lowering!InPass1 /\ item.op = "if" /\ stack # <<>>
  BY DEF Lowering!TakeBranch, Lowering!Declares, Lowering!InPass1
<1>2. Lowering!Top = top /\ \A g : Lowering!Replace(g) = Append(Front(stack), g)
  BY <1>1, TopIs
<1>3. IsBody(top)
  BY <1>1, TopIs
<1>4. PICK b : /\ b \in {<<>>, item.then, item.other}
               /\ stack' = Append(Front(stack), [top EXCEPT !.todo = b \o rest])
  <2>1. \E b \in {<<>>, item.then, item.other} :
           stack' = Lowering!Replace([Lowering!Top EXCEPT !.todo = b \o Tail(@)])
    BY DEF Lowering!TakeBranch
  <2> QED
    BY <1>2, <2>1
<1>5. diags \subseteq diags' /\ UNCHANGED <<netRemap, elements>>
  BY DEF Lowering!TakeBranch, Lowering!Report, Lowering!context
<1> DEFINE t == b \o rest
           g == [top EXCEPT !.todo = t]
<1>6. ASSUME Wired(top, netRemap, J), top.prefix # <<>>
      PROVE  t \in Seq(J) /\ top.flat \in Seq(J)
  <2>1. rest \in Seq(J) /\ item \in J
    BY <1>1, <1>6, SeenStaysWired
  <2>2. b \in Seq(J)
    <3>1. item.then \in Seq(J) /\ item.other \in Seq(J) /\ <<>> \in Seq(J)
      BY <1>1, <2>1, EmptySeq
    <3> QED
      BY <1>4, <3>1
  <2>3. t \in Seq(J)
    <3> HIDE DEF rest
    <3> QED
      BY <2>1, <2>2, PendingConcat
  <2> QED
    BY <1>6, <2>3 DEF Wired
<1>7. stack' = Append(Front(stack), g)
  BY <1>4
<1> HIDE DEF top, t, item
<1>8. g.todo = t /\ g.flat = top.flat /\ g.saved = top.saved
      /\ g.prefix = top.prefix /\ g.bound = top.bound
  BY <1>3, BodyParts, BodyPlace
<1> HIDE DEF g
<1>9. Wired(top, netRemap, J) => Wired(g, netRemap, J)
  BY <1>6, <1>8, StaysWired
<1> QED
  BY <1>1, <1>5, <1>7, <1>8, <1>9, LinksReplace DEF top

\* Elements of a module name no global net, and a line's ends do not.
NamesNoGlobal(J, G) ==
    \A x \in J :
        /\ x.op = "element" => \A i \in DOMAIN x.nets : x.nets[i] \notin G
        /\ x.op = "urc" => x.nets[1] \notin G /\ x.nets[2] \notin G

LEMMA Pass2KeepsLinks ==
    ASSUME NEW I, NEW J, NEW G, Texts(I), Scoped(stack, params), ElementsOK,
           Links(J), Placements, globals \subseteq G \cup {"gnd"}, NamesNoGlobal(J, G),
           \/ Lowering!SkipDeclaration \/ Lowering!PlaceElement \/ Lowering!PlaceUrc
           \/ Lowering!RefuseInstance
    PROVE  Links(J)' /\ stack' # <<>> /\ Placements'
<1> DEFINE top == Last(stack)
           g == Lowering!Done2(top)
           item == Lowering!Next2
           right(x) == x.depth <= 1 => x.nets = x.meant
<1>1. Lowering!InPass2 /\ stack # <<>>
  BY DEF Lowering!SkipDeclaration, Lowering!PlaceElement, Lowering!PlaceUrc,
     Lowering!RefuseInstance, Lowering!Lowers, Lowering!InPass2
<1>2. Lowering!Top = top /\ \A x : Lowering!Replace(x) = Append(Front(stack), x)
  BY <1>1, TopIs
<1>3. /\ stack' = Append(Front(stack), g) /\ UNCHANGED netRemap
      /\ diags \subseteq diags'
  BY <1>2 DEF Lowering!SkipDeclaration, Lowering!PlaceElement, Lowering!PlaceUrc,
     Lowering!RefuseInstance, Lowering!Skipped, Lowering!context, Lowering!Report
<1>4. g.saved = top.saved
  BY <1>1, DoneIs
<1>5. Wired(top, netRemap, J) => Wired(g, netRemap, J) /\ (top.prefix # <<>> => item \in J)
  BY <1>1, DoneStaysWired
<1> HIDE DEF g
<1>6. Links(J)' /\ stack' # <<>>
  BY <1>1, <1>3, <1>4, <1>5, LinksReplace DEF top
<1>7. ASSUME diags = {}
      PROVE  \A i \in DOMAIN elements' : right(elements'[i])
  <2>1. /\ Wired(top, netRemap, J)
        /\ \A j \in DOMAIN elements : right(elements[j])
    BY <1>1, <1>7 DEF Links, Placements
  <2>2. Wired(Lowering!Top, netRemap, J) /\ (Lowering!Top.prefix # <<>> => item \in J)
    BY <1>2, <1>5, <2>1
  <2> HIDE DEF top
  <2>3. ASSUME item.op = "element"
        PROVE  right(Lowering!Placed(Lowering!Path, item.nets, 0))
    <3>1. Lowering!Top.prefix # <<>> => \A i \in DOMAIN item.nets : i # 0 => item.nets[i] \notin G
      BY <2>2, <2>3 DEF NamesNoGlobal
    <3> HIDE DEF item
    <3> QED
      BY <2>2, <3>1, PlacedAsWired
  <2>4. ASSUME item.op = "urc"
        PROVE  \A p, q : /\ right(Lowering!Placed(p, <<item.nets[1], "m">>, 2))
                         /\ right(Lowering!Placed(q, <<"m", item.nets[2]>>, 1))
    <3> DEFINE a == item.nets[1]
               b == item.nets[2]
               v == <<a, "m">>
               w == <<"m", b>>
    <3>1. Lowering!Top.prefix # <<>> => a \notin G /\ b \notin G
      BY <2>2, <2>4 DEF NamesNoGlobal
    <3> HIDE DEF a, b
    <3>2. DOMAIN v = {1, 2} /\ DOMAIN w = {1, 2} /\ v[1] = a /\ w[2] = b
      OBVIOUS
    <3> HIDE DEF v, w
    <3>3. Lowering!Top.prefix # <<>> =>
             /\ \A i \in DOMAIN v : i # 2 => v[i] \notin G
             /\ \A i \in DOMAIN w : i # 1 => w[i] \notin G
      BY <3>1, <3>2
    <3>4. ASSUME NEW p PROVE right(Lowering!Placed(p, v, 2))
      <4> DEFINE k == 2
      <4>1. Lowering!Top.prefix # <<>> => \A i \in DOMAIN v : i # k => v[i] \notin G
        BY <3>3
      <4> HIDE DEF item, k
      <4>2. right(Lowering!Placed(p, v, k))
        BY <2>2, <4>1, PlacedAsWired
      <4> QED
        BY <4>2 DEF k
    <3>5. ASSUME NEW p PROVE right(Lowering!Placed(p, w, 1))
      <4> DEFINE k == 1
      <4>1. Lowering!Top.prefix # <<>> => \A i \in DOMAIN w : i # k => w[i] \notin G
        BY <3>3
      <4> HIDE DEF item, k
      <4>2. right(Lowering!Placed(p, w, k))
        BY <2>2, <4>1, PlacedAsWired
      <4> QED
        BY <4>2 DEF k
    <3> QED
      BY <3>4, <3>5 DEF a, b, v, w
  <2>5. \/ elements' = elements
        \/ /\ item.op = "element"
           /\ elements' = Append(elements, Lowering!Placed(Lowering!Path, item.nets, 0))
        \/ /\ item.op = "urc"
           /\ \E p, q : elements' = elements \o
                           <<Lowering!Placed(p, <<item.nets[1], "m">>, 2),
                             Lowering!Placed(q, <<"m", item.nets[2]>>, 1)>>
    BY DEF Lowering!SkipDeclaration, Lowering!PlaceElement, Lowering!PlaceUrc,
       Lowering!RefuseInstance, Lowering!Lowers
  <2>6. PICK S : elements \in Seq(S)
    BY DEF ElementsOK
  <2> HIDE DEF item, right
  <2>7. ASSUME NEW x, right(x)
        PROVE  \A i \in DOMAIN Append(elements, x) : right(Append(elements, x)[i])
    <3>1. \A i \in DOMAIN Append(elements, x) :
             \/ Append(elements, x)[i] = x
             \/ \E j \in DOMAIN elements : Append(elements, x)[i] = elements[j]
      BY <2>6, Appended
    <3> QED
      BY <2>1, <2>7, <3>1
  <2>8. ASSUME NEW x, right(x), NEW y, right(y)
        PROVE  \A i \in DOMAIN (elements \o <<x, y>>) : right((elements \o <<x, y>>)[i])
    <3> DEFINE r == elements \o <<x, y>>
    <3>1. \A i \in DOMAIN r :
             r[i] = x \/ r[i] = y \/ \E j \in DOMAIN elements : r[i] = elements[j]
      BY <2>6, Appended
    <3> HIDE DEF r
    <3>2. \A i \in DOMAIN r : right(r[i])
      BY <2>1, <2>8, <3>1
    <3> QED
      BY <3>2 DEF r
  <2>9. CASE elements' = elements
    BY <2>1, <2>9
  <2>10. CASE item.op = "element"
              /\ elements' = Append(elements, Lowering!Placed(Lowering!Path, item.nets, 0))
    BY <2>3, <2>7, <2>10
  <2>11. CASE item.op = "urc"
              /\ \E p, q : elements' = elements \o
                           <<Lowering!Placed(p, <<item.nets[1], "m">>, 2),
                             Lowering!Placed(q, <<"m", item.nets[2]>>, 1)>>
    BY <2>4, <2>8, <2>11
  <2> QED
    BY <2>5, <2>9, <2>10, <2>11
<1>8. Placements'
  BY <1>3, <1>7 DEF Placements
<1> QED
  BY <1>6, <1>8

LEMMA ReturnKeepsLinks ==
    ASSUME NEW I, NEW J, Texts(I), Scoped(stack, params), Links(J), Placements, Lowering!Return
    PROVE  Links(J)' /\ stack' # <<>> /\ Placements'
<1> DEFINE r == Front(stack)
<1>1. Len(stack) > 1 /\ stack # <<>>
  BY DEF Lowering!Return
<1>2. Lowering!Top = Last(stack)
  BY <1>1, TopIs
<1>3. /\ stack' = r /\ netRemap' = Last(stack).saved[1]
      /\ elements' = elements /\ diags' = diags
  BY <1>2, SameStacks DEF Lowering!Return, Lowering!Restore
<1>4. PICK S : stack \in Seq(S)
  BY DEF Scoped
<1>5. r # <<>>
  BY <1>1, ChainPop DEF Texts
<1>6. Callers(stack, J) => Callers(r, J) /\ Wired(Last(r), Last(stack).saved[1], J)
  <2>1. Len(stack) > 1
    BY <1>1
  <2> QED
    BY <1>4, <2>1, CallersPop
<1> HIDE DEF r
<1>7. Links(J)'
  BY <1>1, <1>3, <1>6 DEF Links
<1> QED
  BY <1>3, <1>5, <1>7 DEF Placements

\* A path is longer by one name.
LEMMA LongerPath ==
    ASSUME NEW P, NEW s \in Seq(P), NEW n
    PROVE  /\ Append(s, n) \in Seq(P \cup {n}) /\ Append(s, n) # <<>>
           /\ Len(Append(s, n)) = 1 => s = <<>>
<1> DEFINE r == Append(s, n)
<1>1. /\ r \in Seq(P \cup {n}) /\ Len(r) = Len(s) + 1 /\ Len(s) \in Nat
  BY PushStack
<1> HIDE DEF r
<1>2. r # <<>>
  BY <1>1
<1>3. Len(r) = 1 => Len(s) = 0
  BY <1>1
<1> QED
  BY <1>1, <1>2, <1>3, EmptySeq DEF r

LEMMA LastPushed ==
    ASSUME NEW S, NEW s \in Seq(S), NEW f
    PROVE  Append(s, f) # <<>> /\ Last(Append(s, f)) = f
<1> DEFINE r == Append(s, f)
<1>1. /\ r \in Seq(S \cup {f}) /\ Len(r) = Len(s) + 1 /\ Len(s) \in Nat /\ r[Len(s) + 1] = f
  BY PushStack
<1> HIDE DEF r
<1>2. r # <<>>
  BY <1>1
<1>3. Last(r) = r[Len(r)]
  BY <1>1, <1>2, PopStack
<1> QED
  BY <1>1, <1>2, <1>3 DEF r

LEMMA SingleName == ASSUME NEW n PROVE Append(<<>>, n) = <<n>>
OBVIOUS

\* An instance is called with its positional arguments first.
CalledInOrder(I, A) ==
    \A x \in I : x.op = "instance" => x.args \in Seq(A) /\ PositionalFirst(x.args)

LEMMA InstantiateKeepsLinks ==
    ASSUME NEW I, NEW A, NEW J, NEW N, NEW G, CalledInOrder(I, A), "" \notin N,
           Texts(I), Scoped(stack, params), Links(J), Placements, Tables(J, N, G),
           Lowering!Instantiate
    PROVE  Links(J)' /\ stack' # <<>> /\ Placements'
<1> DEFINE top == Last(stack)
           g == Lowering!Done2(top)
           ports == Lowering!MeantPorts
           scope == Lowering!MeantScope
           body == Lowering!Def.body
           path == Lowering!Path
           f == Lowering!Frame(path, body, <<netRemap, params, overrides>>, ports, scope)
           s == Append(Front(stack), g)
           remap == Lowering!Bindings.ports
<1>1. /\ Lowering!InPass2 /\ Lowering!Next2.op = "instance" /\ stack # <<>>
      /\ Lowering!Next2.module \in DOMAIN moduleDefs
  BY DEF Lowering!Instantiate, Lowering!Lowers, Lowering!InPass2
<1>2. Lowering!Top = top /\ \A x : Lowering!Replace(x) = Append(Front(stack), x)
  BY <1>1, TopIs
<1>3. Lowering!Next2 \in I /\ g.saved = top.saved
  BY <1>1, DoneIs
<1>4. IsModule(Lowering!Def, J, N)
  BY <1>1 DEF Tables, Lowering!Def
<1>5. /\ stack' = Append(s, f) /\ netRemap' = remap /\ elements' = elements
      /\ IF Lowering!Bindings.bad THEN diags' = diags \cup {"argument"} ELSE diags' = diags
  BY <1>2 DEF Lowering!Instantiate, Lowering!Swap, Lowering!context, Lowering!Report
<1>6. /\ f.prefix = path /\ f.todo = body /\ f.flat = <<>> /\ f.bound = ports
      /\ f.saved = <<netRemap, params, overrides>>
  <2> HIDE DEF body, scope, path, ports
  <2> QED
    BY DEF Lowering!Frame
<1>7. f.saved[1] = netRemap
  <2>1. <<netRemap, params, overrides>>[1] = netRemap
    OBVIOUS
  <2> HIDE DEF f
  <2> QED
    BY <1>6, <2>1
<1>8. Wired(top, netRemap, J) => Wired(g, netRemap, J)
  BY <1>1, DoneStaysWired
<1>9. path = Append(top.prefix, Lowering!Next2.name)
  BY <1>2 DEF Lowering!Path
<1>10. body \in Seq(J)
  BY <1>4 DEF IsModule
<1>11. ASSUME ~ Lowering!Bindings.bad
       PROVE  /\ DOMAIN remap = DOMAIN ports
              /\ \A p \in DOMAIN ports : ports[p] = Lowering!Meaning(remap[p])
  <2>1. WellCalled(N, A)
    BY <1>1, <1>3, <1>4 DEF WellCalled, IsModule, CalledInOrder
  <2> QED
    BY <1>11, <2>1, PortsAre
<1>12. PICK S : stack \in Seq(S)
  BY DEF Scoped
<1> HIDE DEF f, g, path, ports, body, scope, remap
<1>13. s \in Seq(S \cup {g}) /\ s # <<>> /\ Last(s) = g
  <2>1. stack # <<>>
    BY <1>1
  <2>2. s # <<>> /\ Last(s) = g
    BY <1>12, <2>1, LastReplaced
  <2>3. /\ s \in Seq(S \cup {g})
        /\ Len(s) = Len(stack)
        /\ DOMAIN s = 1..Len(stack)
        /\ \A i \in 1..Len(stack) - 1 : s[i] = stack[i]
        /\ s[Len(stack)] = g
    BY <1>12, <2>1, ReplaceTop, ZenonT(30)
  <2> QED
    BY <2>2, <2>3
<1>14. Callers(stack, J) => Callers(s, J)
  <2>1. stack # <<>> /\ g.saved = Last(stack).saved
    BY <1>1, <1>3
  <2> QED
    BY <1>12, <2>1, CallersReplace
<1> HIDE DEF s
<1>15. stack' # <<>> /\ Last(stack') = f
  BY <1>5, <1>13, LastPushed
<1>16. ASSUME diags' = {}
       PROVE  Callers(stack', J) /\ Wired(f, remap, J)
  <2>1. diags = {} /\ ~ Lowering!Bindings.bad
    BY <1>5, <1>16
  <2>2. Callers(stack, J) /\ Wired(top, netRemap, J)
    BY <1>1, <2>1 DEF Links
  <2>3. Callers(stack', J)
    <3>1. Callers(s, J) /\ Wired(Last(s), f.saved[1], J)
      BY <1>7, <1>8, <1>13, <1>14, <2>2
    <3>2. Callers(Append(s, f), J)
      BY <1>13, <3>1, CallersPush
    <3> QED
      BY <1>5, <3>2
  <2>4. PICK P : top.prefix \in Seq(P)
    BY <2>2 DEF Wired
  <2>5. /\ path \in Seq(P \cup {Lowering!Next2.name}) /\ path # <<>>
        /\ Len(path) = 1 => top.prefix = <<>>
    BY <1>9, <2>4, LongerPath
  <2>6. ASSUME top.prefix = <<>>
        PROVE  \A p \in DOMAIN remap : ports[p] = <<remap[p]>>
    <3>1. \A n : Lowering!Meaning(n) = <<n>>
      <4>1. DOMAIN Lowering!Top.bound = {} /\ Lowering!Top.prefix = top.prefix
        BY <1>2, <2>2, <2>6 DEF Wired
      <4>2. ASSUME NEW n PROVE Append(top.prefix, n) = <<n>>
        BY <2>6, SingleName
      <4> QED
        BY <4>1, <4>2 DEF Lowering!Meaning
    <3> QED
      BY <1>11, <2>1, <3>1
  <2>7. Wired(f, remap, J)
    <3>1. <<>> \in Seq(J)
      BY EmptySeq
    <3> QED
      BY <1>6, <1>10, <1>11, <2>1, <2>5, <2>6, <3>1 DEF Wired
  <2> QED
    BY <2>3, <2>7
<1>17. Links(J)'
  BY <1>5, <1>15, <1>16 DEF Links
<1>18. Placements'
  BY <1>5 DEF Placements
<1> QED
  BY <1>15, <1>17, <1>18

LEMMA BeginConnects ==
    ASSUME NEW T, NEW J, NEW N, NEW G,
           \A t \in T : t.op = "declare" /\ t.kind = "module" => IsModule(t.def, J, N),
           Connected(J, N, G), NEW source \in Seq(T), Lowering!Begin(source)
    PROVE  Connected(J, N, G)'
<1> DEFINE none == Lowering!NoNames
           body == Lowering!FirstBody(source)
           f == Lowering!Frame(<<>>, body, <<>>, none, none)
<1>1. /\ stack = <<>> /\ stack' = <<f>> /\ elements' = elements
      /\ netRemap' = netRemap /\ globals' = globals
      /\ moduleDefs' = [m \in Lowering!Named(source, "module") |->
                           Lowering!LastOf(source, "module", m).def]
  BY DEF Lowering!Begin, Lowering!context
<1>2. DOMAIN netRemap = {} /\ elements = <<>>
  BY <1>1 DEF Connected
<1>3. DOMAIN none = {}
  BY DEF Lowering!NoNames
<1> HIDE DEF body, none
<1>4. f.prefix = <<>> /\ f.bound = none
  BY DEF Lowering!Frame
<1> HIDE DEF f
<1>5. Wired(f, netRemap, J)
  <2>1. <<>> \in Seq({}) /\ Len(<<>>) # 1
    BY EmptySeq
  <2> QED
    BY <1>2, <1>3, <1>4, <2>1 DEF Wired
<1>6. Len(<<f>>) = 1 /\ Last(<<f>>) = f /\ <<f>> # <<>> /\ 2..1 = {}
  BY DEF Last
<1>7. Links(J)'
  BY <1>1, <1>5, <1>6 DEF Links, Callers
<1>8. Placements'
  BY <1>1, <1>2 DEF Placements
<1>9. Tables(J, N, G)'
  <2>1. ASSUME NEW m \in Lowering!Named(source, "module")
        PROVE  IsModule(Lowering!LastOf(source, "module", m).def, J, N)
    BY LastIsOne
  <2> QED
    BY <1>1, <2>1 DEF Connected, Tables
<1> QED
  BY <1>1, <1>6, <1>7, <1>8, <1>9 DEF Connected

LEMMA LowerKeepsTables ==
    ASSUME NEW I, NEW J, NEW N, NEW G, Texts(I), Scoped(stack, params), Tables(J, N, G),
           \A x \in I : /\ x.op = "module" => IsModule(x.def, J, N)
                        /\ x.op = "global" => x.name \in G \cup {"gnd"},
           Lowering!Lower
    PROVE  Tables(J, N, G)'
<1>1. CASE Lowering!DeclareGlobal
  <2>1. Lowering!InPass1 /\ Lowering!Item.op = "global"
    BY <1>1 DEF Lowering!DeclareGlobal, Lowering!Declares
  <2>2. Lowering!Item \in I
    BY <2>1, SeenIs
  <2>3. globals' = globals \cup {Lowering!Item.name} /\ moduleDefs' = moduleDefs
    BY <1>1 DEF Lowering!DeclareGlobal
  <2> QED
    BY <2>1, <2>2, <2>3 DEF Tables
<1>2. CASE Lowering!DefineModule
  <2>1. Lowering!InPass1 /\ Lowering!Item.op = "module"
    BY <1>2 DEF Lowering!DefineModule, Lowering!Declares
  <2>2. Lowering!Item \in I
    BY <2>1, SeenIs
  <2>3. /\ globals' = globals
        /\ moduleDefs' = Lowering!With(moduleDefs, Lowering!Item.name, Lowering!Item.def)
    BY <1>2 DEF Lowering!DefineModule
  <2>4. /\ DOMAIN moduleDefs' = DOMAIN moduleDefs \cup {Lowering!Item.name}
        /\ moduleDefs'[Lowering!Item.name] = Lowering!Item.def
        /\ \A n \in DOMAIN moduleDefs \ {Lowering!Item.name} : moduleDefs'[n] = moduleDefs[n]
    BY <2>3 DEF Lowering!With
  <2> QED
    BY <2>1, <2>2, <2>3, <2>4 DEF Tables
<1>3. CASE UNCHANGED <<globals, moduleDefs>>
  BY <1>3 DEF Tables
<1> QED
  BY <1>1, <1>2, <1>3
     DEF Lowering!Lower, Lowering!DeclareParam, Lowering!DeclareLet,
         Lowering!DefineModel, Lowering!TakeBranch,
         Lowering!Defer, Lowering!SkipDeclaration, Lowering!PlaceElement, Lowering!PlaceUrc,
         Lowering!RefuseInstance, Lowering!Instantiate, Lowering!Return

\* Whatever is lowered, what is connected stays connected.
LEMMA LowerKeepsConnected ==
    ASSUME NEW T, NEW I, NEW A, NEW J, NEW N, NEW G, Connectable(T, I, J, N, G),
           ItemsOfBodies(I, A), Texts(I), Scoped(stack, params), ElementsOK,
           Connected(J, N, G), Lowering!Lower
    PROVE  Connected(J, N, G)'
<1>1. /\ "" \notin N /\ CalledInOrder(I, A) /\ NamesNoGlobal(J, G)
      /\ \A x \in J : x.op = "if" => x.then \in Seq(J) /\ x.other \in Seq(J)
      /\ \A x \in I : /\ x.op = "module" => IsModule(x.def, J, N)
                      /\ x.op = "global" => x.name \in G \cup {"gnd"}
  <2>1. CalledInOrder(I, A)
    BY DEF Connectable, ItemsOfBodies, CalledInOrder, PositionalFirst
  <2>2. NamesNoGlobal(J, G)
    BY DEF Connectable, NamesNoGlobal
  <2> QED
    BY <2>1, <2>2 DEF Connectable
<1>2. Links(J) /\ Placements /\ Tables(J, N, G) /\ globals \subseteq G \cup {"gnd"}
  BY DEF Connected, Tables
<1>3. Tables(J, N, G)'
  BY <1>1, <1>2, LowerKeepsTables
<1>4. CASE \/ Lowering!DeclareParam \/ Lowering!DeclareLet \/ Lowering!DefineModel
           \/ Lowering!DeclareGlobal \/ Lowering!DefineModule \/ Lowering!Defer
  <2>1. /\ Links(J)' /\ stack' # <<>> /\ elements' = elements /\ diags \subseteq diags'
    BY <1>2, <1>4, SeenKeepsLinks
  <2> QED
    BY <1>2, <1>3, <2>1 DEF Connected, Placements
<1>5. CASE Lowering!TakeBranch
  <2>1. /\ Links(J)' /\ stack' # <<>> /\ elements' = elements /\ diags \subseteq diags'
    BY <1>1, <1>2, <1>5, BranchKeepsLinks
  <2> QED
    BY <1>2, <1>3, <2>1 DEF Connected, Placements
<1>6. CASE \/ Lowering!SkipDeclaration \/ Lowering!PlaceElement \/ Lowering!PlaceUrc
           \/ Lowering!RefuseInstance
  BY <1>1, <1>2, <1>3, <1>6, Pass2KeepsLinks DEF Connected
<1>7. CASE Lowering!Instantiate
  BY <1>1, <1>2, <1>3, <1>7, InstantiateKeepsLinks DEF Connected
<1>8. CASE Lowering!Return
  BY <1>2, <1>3, <1>8, ReturnKeepsLinks DEF Connected
<1> QED
  BY <1>4, <1>5, <1>6, <1>7, <1>8 DEF Lowering!Lower

LEMMA InitIsConnected ==
    ASSUME NEW J, NEW N, NEW G, Init
    PROVE  Connected(J, N, G)
<1> DEFINE none == Lowering!NoNames
<1>1. /\ stack = <<>> /\ netRemap = none /\ moduleDefs = none
      /\ globals = {"gnd"} /\ elements = <<>>
  BY DEF Init, Lowering!Init
<1>2. DOMAIN none = {}
  BY DEF Lowering!NoNames
<1> HIDE DEF none
<1>3. Len(stack) = 0 /\ 2..0 = {} /\ DOMAIN elements = {}
  BY <1>1
<1> QED
  BY <1>1, <1>2, <1>3 DEF Connected, Links, Callers, Placements, Tables

LEMMA StepsStayConnected ==
    ASSUME NEW T, NEW I, NEW A, NEW J, NEW N, NEW G, Syntax(T, I, A),
           Connectable(T, I, J, N, G), VInv(T, I), Connected(J, N, G), [Next]_vars
    PROVE  Connected(J, N, G)'
<1>1. /\ Scoped(stack, params) /\ ElementsOK /\ Reading(T) /\ Texts(I)
      /\ ItemsOfBodies(I, A)
  BY DEF VInv, IInv, Syntax
<1>2. ASSUME UNCHANGED loweringVars
      PROVE  Connected(J, N, G)'
  BY <1>2 DEF loweringVars, Connected, Links, Placements, Tables
<1>3. CASE ResolveImports \/ RefuseImports \/ Return \/ UNCHANGED vars
  <2>1. UNCHANGED loweringVars
    BY <1>3 DEF ResolveImports, RefuseImports, Return, vars, loweringVars
  <2> QED
    BY <1>2, <2>1
<1>4. CASE StartLowering
  <2>1. Imports!Output \in Seq(T)
    <3>1. Len(calls) = 1
      BY <1>4 DEF StartLowering, Imports!Finished
    <3>2. 1 \in DOMAIN calls
      BY <1>1, <3>1, LenProperties DEF Reading
    <3>3. Marks(calls, inProgress) /\ Reading(T)
      BY <1>1 DEF VInv, IInv
    <3> QED
      BY <3>2, <3>3, ReadingCall DEF Imports!Output
  <2>2. \A t \in T : t.op = "declare" /\ t.kind = "module" => IsModule(t.def, J, N)
    BY DEF Connectable
  <2>3. Lowering!Begin(Imports!Output)
    BY <1>4 DEF StartLowering
  <2> QED
    BY <2>1, <2>2, <2>3, BeginConnects
<1>5. CASE Lower
  <2>1. Lowering!Lower
    BY <1>5 DEF Lower
  <2> QED
    BY <1>1, <2>1, LowerKeepsConnected
<1> QED
  BY <1>3, <1>4, <1>5 DEF Next

\* In every circuit that compiles, the elements of the circuit and of its own instances are
\* connected to the nets that their bodies name: ports to the caller's nets, other names
\* to nets of the instance.
THEOREM InstancesStayConnected ==
    ASSUME NEW T, NEW I, NEW A, NEW J, NEW N, NEW G, Syntax(T, I, A), Connectable(T, I, J, N, G)
    PROVE  Spec => []InstancesConnected
<1>1. ItemsOfFiles(T, I) /\ ItemsOfBodies(I, A)
  BY DEF Syntax
<1>2. Init => VInv(T, I) /\ Connected(J, N, G)
  BY <1>1, InitIsScoped, InitIsConnected
<1>3. VInv(T, I) /\ Connected(J, N, G) /\ [Next]_vars => VInv(T, I)' /\ Connected(J, N, G)'
  BY <1>1, StepsStayScoped, StepsStayConnected
<1>4. Connected(J, N, G) => InstancesConnected
  BY DEF Connected, Placements, InstancesConnected, Lowering!InstancesConnected, Lowering!Accepted
<1> QED
  BY <1>2, <1>3, <1>4, PTL DEF Spec
-----------------------------------------------------------------------------
\* The files that are reached from others.

Spreads(w, from, next, n) ==
    w = [k \in 0..n |-> IF k = 0 THEN from ELSE w[k - 1] \cup UNION {next[f] : f \in w[k - 1]}]

LEMMA SpreadExists ==
    ASSUME NEW from, NEW next, NEW n \in Nat
    PROVE  \E w : Spreads(w, from, next, n)
<1> DEFINE Bad == {m \in 0..n : ~ \E w : Spreads(w, from, next, m)}
<1> SUFFICES ASSUME Bad # {} PROVE FALSE
  <2>1. n \in 0..n
    OBVIOUS
  <2> QED
    BY <2>1
<1>1. Bad \in SUBSET Nat
  OBVIOUS
<1>2. PICK m \in Bad : \A j \in Bad : m <= j
  <2> HIDE DEF Bad
  <2> QED
    BY <1>1, LeastIndex
<1>3. m \in 0..n /\ ~ \E w : Spreads(w, from, next, m)
  BY <1>2
<1>4. CASE m = 0
  <2> DEFINE w == [k \in 0..0 |-> from]
  <2>1. \A k \in 0..0 : k = 0
    OBVIOUS
  <2>2. w = [k \in 0..0 |->
               IF k = 0 THEN from ELSE w[k - 1] \cup UNION {next[f] : f \in w[k - 1]}]
    BY <2>1
  <2>3. Spreads(w, from, next, m)
    BY <1>4, <2>2 DEF Spreads
  <2> QED
    BY <1>3, <2>3
<1>5. CASE m # 0
  <2>1. m - 1 \in 0..n /\ ~ m <= m - 1 /\ m \in Nat
    BY <1>3, <1>5
  <2>2. PICK g : Spreads(g, from, next, m - 1)
    BY <1>2, <2>1
  <2> DEFINE last == g[m - 1] \cup UNION {next[f] : f \in g[m - 1]}
             w == [k \in 0..m |-> IF k = m THEN last ELSE g[k]]
  <2>3. ASSUME NEW k \in 0..m
        PROVE  w[k] = IF k = 0 THEN from ELSE w[k - 1] \cup UNION {next[f] : f \in w[k - 1]}
    <3>1. CASE k = m
      <4>1. k # 0 /\ m - 1 \in 0..m /\ m - 1 # m
        BY <1>5, <2>1, <3>1
      <4>2. w[m - 1] = g[m - 1]
        BY <4>1
      <4> QED
        BY <3>1, <4>1, <4>2
    <3>2. CASE k # m
      <4>1. k \in 0..(m - 1) /\ (k # 0 => k - 1 \in 0..m /\ k - 1 # m)
        BY <2>1, <3>2
      <4>2. g[k] = IF k = 0 THEN from ELSE g[k - 1] \cup UNION {next[f] : f \in g[k - 1]}
        BY <2>2, <4>1 DEF Spreads
      <4>3. k # 0 => w[k - 1] = g[k - 1]
        BY <4>1
      <4>4. w[k] = g[k]
        BY <3>2
      <4> QED
        BY <4>2, <4>3, <4>4
    <3> QED
      BY <3>1, <3>2
  <2>4. w = [k \in 0..m |-> w[k]]
    OBVIOUS
  <2> HIDE DEF w
  <2>5. Spreads(w, from, next, m)
    BY <2>3, <2>4 DEF Spreads
  <2> QED
    BY <1>3, <2>5
<1> QED
  BY <1>4, <1>5

ClosedUnder(S, next) == \A f \in S : next[f] \subseteq S

\* In as many steps as there are files, all that can be reached is: each step but the last
\* adds a file.
LEMMA SpreadCloses ==
    ASSUME NEW from, NEW next, NEW n \in Nat, NEW w, Spreads(w, from, next, n),
           NEW Z, IsFiniteSet(Z), Cardinality(Z) <= n + 1, from \subseteq Z, ClosedUnder(Z, next)
    PROVE  /\ from \subseteq w[n] /\ w[n] \subseteq Z
           /\ \A S : from \subseteq S /\ ClosedUnder(S, next) => w[n] \subseteq S
           /\ ClosedUnder(w[n], next)
<1>1. \A k \in 0..n : w[k] = IF k = 0 THEN from
                              ELSE w[k - 1] \cup UNION {next[f] : f \in w[k - 1]}
  BY DEF Spreads
<1>2. ASSUME NEW S, from \subseteq S, ClosedUnder(S, next)
      PROVE  \A k \in 0..n : w[k] \subseteq S
  <2> DEFINE Bad == {k \in 0..n : ~ w[k] \subseteq S}
  <2> SUFFICES ASSUME Bad # {} PROVE FALSE
    OBVIOUS
  <2>1. Bad \in SUBSET Nat
    OBVIOUS
  <2>2. PICK k \in Bad : \A j \in Bad : k <= j
    <3> HIDE DEF Bad
    <3> QED
      BY <2>1, LeastIndex
  <2>3. k \in 0..n /\ ~ w[k] \subseteq S
    BY <2>2
  <2>4. k # 0
    BY <1>1, <1>2, <2>3
  <2>5. k - 1 \in 0..n /\ ~ k <= k - 1
    BY <2>3, <2>4
  <2>6. w[k - 1] \subseteq S
    BY <2>2, <2>5
  <2>7. w[k] = w[k - 1] \cup UNION {next[f] : f \in w[k - 1]}
    BY <1>1, <2>3, <2>4
  <2>8. UNION {next[f] : f \in w[k - 1]} \subseteq S
    BY <1>2, <2>6 DEF ClosedUnder
  <2> QED
    BY <2>3, <2>6, <2>7, <2>8
<1>3. \A k \in 0..n : from \subseteq w[k]
  <2> DEFINE Bad == {k \in 0..n : ~ from \subseteq w[k]}
  <2> SUFFICES ASSUME Bad # {} PROVE FALSE
    OBVIOUS
  <2>1. Bad \in SUBSET Nat
    OBVIOUS
  <2>2. PICK k \in Bad : \A j \in Bad : k <= j
    <3> HIDE DEF Bad
    <3> QED
      BY <2>1, LeastIndex
  <2>3. k \in 0..n /\ ~ from \subseteq w[k]
    BY <2>2
  <2>4. k # 0
    BY <1>1, <2>3
  <2>5. k - 1 \in 0..n /\ ~ k <= k - 1
    BY <2>3, <2>4
  <2>6. from \subseteq w[k - 1]
    BY <2>2, <2>5
  <2> QED
    BY <1>1, <2>3, <2>4, <2>6
<1>4. \A k \in 0..n : w[k] \subseteq Z /\ IsFiniteSet(w[k])
  BY <1>2, FS_Subset
<1>5. \A k \in 0..n : ClosedUnder(w[k], next) \/ Cardinality(w[k]) >= k + 1
  <2> DEFINE Bad == {k \in 0..n : ~ (ClosedUnder(w[k], next) \/ Cardinality(w[k]) >= k + 1)}
  <2> SUFFICES ASSUME Bad # {} PROVE FALSE
    OBVIOUS
  <2>1. Bad \in SUBSET Nat
    OBVIOUS
  <2>2. PICK k \in Bad : \A j \in Bad : k <= j
    <3> HIDE DEF Bad
    <3> QED
      BY <2>1, LeastIndex
  <2>3. k \in 0..n /\ ~ ClosedUnder(w[k], next) /\ ~ Cardinality(w[k]) >= k + 1
    BY <2>2
  <2>4. CASE k = 0
    <3>0. 0 \in 0..n
      OBVIOUS
    <3>1. w[0] = from /\ 0 \in 0..n
      BY <1>1, <3>0
    <3>2. CASE from = {}
      BY <2>3, <2>4, <3>1, <3>2 DEF ClosedUnder
    <3>3. CASE from # {}
      <4>1. IsFiniteSet(w[0]) /\ w[0] # {}
        BY <1>4, <3>1, <3>3
      <4>2. Cardinality(w[0]) \in Nat /\ Cardinality(w[0]) # 0
        BY <4>1, FS_CardinalityType, FS_EmptySet
      <4> QED
        BY <2>3, <2>4, <4>2
    <3> QED
      BY <3>2, <3>3
  <2>5. CASE k # 0
    <3>1. k - 1 \in 0..n /\ ~ k <= k - 1 /\ k \in Nat
      BY <2>3, <2>5
    <3>2. w[k] = w[k - 1] \cup UNION {next[f] : f \in w[k - 1]}
      BY <1>1, <2>3, <2>5
    <3>3. ClosedUnder(w[k - 1], next) \/ Cardinality(w[k - 1]) >= (k - 1) + 1
      BY <2>2, <3>1
    <3>4. CASE ClosedUnder(w[k - 1], next)
      <4>1. w[k] = w[k - 1]
        BY <3>2, <3>4 DEF ClosedUnder
      <4> QED
        BY <2>3, <3>4, <4>1
    <3>5. CASE ~ ClosedUnder(w[k - 1], next)
      <4>1. w[k - 1] \subseteq w[k] /\ w[k - 1] # w[k]
        BY <3>2, <3>5 DEF ClosedUnder
      <4>2. Cardinality(w[k - 1]) < Cardinality(w[k])
        <5>1. IsFiniteSet(w[k])
          BY <1>4, <2>3
        <5>2. /\ Cardinality(w[k - 1]) <= Cardinality(w[k])
              /\ Cardinality(w[k]) = Cardinality(w[k - 1]) => w[k] = w[k - 1]
          BY <4>1, <5>1, FS_Subset
        <5>3. Cardinality(w[k - 1]) \in Nat /\ Cardinality(w[k]) \in Nat
          BY <1>4, <2>3, <3>1, FS_CardinalityType
        <5> QED
          BY <4>1, <5>2, <5>3
      <4>3. Cardinality(w[k - 1]) \in Nat /\ Cardinality(w[k]) \in Nat
        BY <1>4, <2>3, <3>1, FS_CardinalityType
      <4> QED
        BY <2>3, <3>1, <3>3, <3>5, <4>2, <4>3
    <3> QED
      BY <3>4, <3>5
  <2> QED
    BY <2>4, <2>5
<1>6. n \in 0..n
  OBVIOUS
<1>7. ClosedUnder(w[n], next)
  <2>1. CASE Cardinality(w[n]) >= n + 1
    <3>1. w[n] \subseteq Z /\ IsFiniteSet(w[n])
      BY <1>4, <1>6
    <3>2. Cardinality(Z) \in Nat /\ Cardinality(w[n]) \in Nat
      BY <3>1, FS_CardinalityType
    <3>3. ~ Cardinality(w[n]) < Cardinality(Z)
      BY <2>1, <3>2
    <3>4. w[n] = Z
      <4>1. /\ Cardinality(w[n]) <= Cardinality(Z)
            /\ Cardinality(Z) = Cardinality(w[n]) => Z = w[n]
        BY <3>1, FS_Subset
      <4> QED
        BY <3>2, <3>3, <4>1
    <3> QED
      BY <3>4
  <2> QED
    BY <1>5, <1>6, <2>1
<1> QED
  BY <1>2, <1>3, <1>6, <1>7
-----------------------------------------------------------------------------
\* What the steps of the resolution do to the calls.

\* The innermost call of s has read an item, and its result is r.
Moves(s, t, r) ==
    LET n == Len(s)
    IN  /\ n \in Nat \ {0} /\ Len(t) = n /\ s[n].todo # <<>>
        /\ \A i \in 1..n - 1 : t[i] = s[i]
        /\ t[n].file = s[n].file /\ t[n].names = s[n].names
        /\ t[n].todo = Tail(s[n].todo) /\ t[n].result = r

\* It has read an import and begun another call.
Opens(s, t, file, names, items) ==
    LET n == Len(s)
    IN  /\ n \in Nat \ {0} /\ Len(t) = n + 1 /\ s[n].todo # <<>>
        /\ \A i \in 1..n - 1 : t[i] = s[i]
        /\ t[n].file = s[n].file /\ t[n].names = s[n].names
        /\ t[n].todo = Tail(s[n].todo) /\ t[n].result = s[n].result
        /\ t[n + 1].file = file /\ t[n + 1].names = names
        /\ t[n + 1].todo = items /\ t[n + 1].result = <<>>

\* It has ended.
Closes(s, t) ==
    LET n == Len(s)
    IN  /\ n \in Nat /\ n > 1 /\ Len(t) = n - 1 /\ s[n].todo = <<>>
        /\ \A i \in 1..n - 2 : t[i] = s[i]
        /\ t[n - 1].file = s[n - 1].file /\ t[n - 1].names = s[n - 1].names
        /\ t[n - 1].todo = s[n - 1].todo
        /\ t[n - 1].result = s[n - 1].result \o Imports!Extracted(s[n])

LEMMA CallFieldsKept ==
    ASSUME NEW f, IsCall(f), NEW t, NEW r
    PROVE  LET a == [f EXCEPT !.todo = t]
               b == [[f EXCEPT !.todo = t] EXCEPT !.result = r]
               c == [f EXCEPT !.result = r]
           IN  /\ a.names = f.names /\ a.todo = t /\ a.result = f.result
               /\ b.names = f.names /\ b.todo = t /\ b.result = r
               /\ c.names = f.names /\ c.todo = f.todo /\ c.result = r
<1>1. PICK T : f \in [file : T, names : T, todo : T, result : T]
  BY DEF IsCall
<1> QED
  BY <1>1

\* A call replaced by one that has read an item.
LEMMA TopMoves ==
    ASSUME NEW S, NEW s \in Seq(S), s # <<>>, IsCall(Last(s)), Last(s).todo # <<>>, NEW r
    PROVE  LET f == Last(s)
           IN  /\ Moves(s, Append(Front(s), [[f EXCEPT !.todo = Tail(@)] EXCEPT !.result = r]), r)
               /\ Moves(s, Append(Front(s), [f EXCEPT !.todo = Tail(@)]), f.result)
<1> DEFINE f == Last(s)
           rest == Tail(f.todo)
           a == [f EXCEPT !.todo = rest]
           b == [[f EXCEPT !.todo = rest] EXCEPT !.result = r]
           n == Len(s)
<1>1. n \in Nat \ {0} /\ f = s[n]
  BY PopStack
<1>2. /\ a.file = f.file /\ a.names = f.names /\ a.todo = rest /\ a.result = f.result
      /\ b.file = f.file /\ b.names = f.names /\ b.todo = rest /\ b.result = r
  <2>1. IsCall(f)
    OBVIOUS
  <2> HIDE DEF rest, f
  <2>2. a.file = f.file /\ b.file = f.file
    <3>1. PICK U : f \in [file : U, names : U, todo : U, result : U]
      BY <2>1 DEF IsCall
    <3> QED
      BY <3>1
  <2>3. /\ a.names = f.names /\ a.todo = rest /\ a.result = f.result
        /\ b.names = f.names /\ b.todo = rest /\ b.result = r
    BY <2>1, CallFieldsKept
  <2> QED
    BY <2>2, <2>3
<1>3. ASSUME NEW g, g.file = f.file, g.names = f.names, g.todo = rest
      PROVE  Moves(s, Append(Front(s), g), g.result)
  <2> DEFINE t == Append(Front(s), g)
  <2>1. s # <<>>
    OBVIOUS
  <2>2. /\ t \in Seq(S \cup {g})
        /\ Len(t) = Len(s)
        /\ DOMAIN t = 1..Len(s)
        /\ \A i \in 1..Len(s) - 1 : t[i] = s[i]
        /\ t[Len(s)] = g
    BY <2>1, ReplaceTop, ZenonT(30)
  <2> HIDE DEF t
  <2>3. f.todo # <<>>
    OBVIOUS
  <2>4. Moves(s, t, g.result)
    BY <1>1, <1>3, <2>2, <2>3 DEF Moves
  <2> QED
    BY <2>4 DEF t
<1> HIDE DEF a, b, n
<1>4. Moves(s, Append(Front(s), a), f.result) /\ Moves(s, Append(Front(s), b), r)
  BY <1>2, <1>3
<1> QED
  BY <1>4 DEF a, b

LEMMA MoveThenOpen ==
    ASSUME NEW s, NEW mid, NEW S, mid \in Seq(S), Moves(s, mid, s[Len(s)].result), NEW g
    PROVE  Opens(s, Append(mid, g), g.file, g.names, g.todo) \/ g.result # <<>>
<1> DEFINE t == Append(mid, g)
           n == Len(s)
<1>1. /\ Len(t) = Len(mid) + 1 /\ t[Len(mid) + 1] = g
      /\ \A i \in 1..Len(mid) : t[i] = mid[i]
  BY PushStack
<1>2. n \in Nat \ {0} /\ Len(mid) = n
  BY DEF Moves
<1> HIDE DEF t, n
<1>3. \A i \in 1..n - 1 : i \in 1..n
  BY <1>2
<1>4. n \in 1..n
  BY <1>2
<1>5. g.result = <<>> => Opens(s, t, g.file, g.names, g.todo)
  BY <1>1, <1>2, <1>3, <1>4 DEF Moves, Opens, n
<1> QED
  BY <1>5 DEF t

LEMMA ResolveShape ==
    ASSUME NEW T, Reading(T), Marks(calls, inProgress), Imports!Resolve
    PROVE  /\ calls # <<>> /\ Imports!Top = Last(calls) /\ Last(calls) = calls[Len(calls)]
           /\ Len(calls) \in Nat \ {0}
           /\ Imports!Keep => Moves(calls, calls', Append(Imports!Top.result, Imports!Item))
           /\ Imports!NotFound \/ Imports!Circular \/ Imports!SkipMerged
                \/ Imports!Unreadable \/ Imports!Unparsable =>
                  Moves(calls, calls', Imports!Top.result)
           /\ Imports!Open =>
                  Opens(calls, calls', Imports!Target, Imports!Item.names, Imports!Source.items)
           /\ Imports!Close => Closes(calls, calls')
<1> DEFINE top == Last(calls)
           passed == [top EXCEPT !.todo = Tail(@)]
<1>1. /\ Imports!Top = top
      /\ \A g : Imports!Replace(g) = Append(Front(calls), g)
  BY SameStacks DEF Imports!Top, Imports!Replace
<1>2. PICK S : calls \in Seq(S) /\ \A f \in S : IsCall(f)
  BY DEF Marks
<1>3. calls # <<>>
  <2>1. CASE Imports!Close
    <3>1. Len(calls) > 1
      BY <2>1 DEF Imports!Close
    <3> QED
      BY <3>1
  <2> QED
    BY <2>1 DEF Imports!Resolve, Imports!Keep, Imports!NotFound, Imports!Circular,
       Imports!SkipMerged, Imports!Unreadable, Imports!Unparsable, Imports!Open, Imports!Visits,
       Imports!Imports, Imports!Reads
<1>4. IsCall(top) /\ top = calls[Len(calls)] /\ Len(calls) \in Nat \ {0}
  BY <1>2, <1>3, PopStack
<1>5. Imports!Passed = passed
  BY <1>1 DEF Imports!Passed
<1> HIDE DEF top, passed
<1>6. ASSUME top.todo # <<>>, NEW r
      PROVE  /\ Moves(calls, Append(Front(calls), [passed EXCEPT !.result = r]), r)
             /\ Moves(calls, Append(Front(calls), passed), top.result)
  BY <1>2, <1>3, <1>4, <1>6, TopMoves DEF top, passed
<1>7. ASSUME Imports!Keep
      PROVE  Moves(calls, calls', Append(Imports!Top.result, Imports!Item))
  <2> DEFINE r == Append(top.result, Imports!Item)
  <2>1. top.todo # <<>>
    BY <1>1, <1>7 DEF Imports!Keep, Imports!Reads
  <2>2. calls' = Append(Front(calls), [passed EXCEPT !.result = Append(@, Imports!Item)])
    BY <1>1, <1>5, <1>7 DEF Imports!Keep
  <2>3. passed.result = top.result
    BY <1>4, CallFieldsKept DEF passed
  <2>4. [passed EXCEPT !.result = Append(@, Imports!Item)] = [passed EXCEPT !.result = r]
    BY <2>3
  <2> HIDE DEF r
  <2>5. Moves(calls, calls', r)
    BY <1>6, <2>1, <2>2, <2>4
  <2> QED
    BY <1>1, <2>5 DEF r
<1>8. ASSUME Imports!NotFound \/ Imports!Circular \/ Imports!SkipMerged
               \/ Imports!Unreadable \/ Imports!Unparsable
      PROVE  Moves(calls, calls', Imports!Top.result)
  <2>1. top.todo # <<>> /\ calls' = Append(Front(calls), passed)
    BY <1>1, <1>5, <1>8 DEF Imports!NotFound, Imports!Circular, Imports!SkipMerged,
       Imports!Unreadable, Imports!Unparsable, Imports!Visits, Imports!Imports, Imports!Reads
  <2> QED
    BY <1>1, <1>6, <2>1
<1>9. ASSUME Imports!Open
      PROVE  Opens(calls, calls', Imports!Target, Imports!Item.names, Imports!Source.items)
  <2> DEFINE mid == Append(Front(calls), passed)
             items == Imports!Source.items
             names == Imports!Item.names
             file == Imports!Target
             g == Imports!Frame(file, names, items)
  <2>1. top.todo # <<>> /\ calls' = Append(mid, g)
    BY <1>1, <1>5, <1>9 DEF Imports!Open, Imports!Visits, Imports!Imports, Imports!Reads
  <2>2. Moves(calls, mid, calls[Len(calls)].result)
    BY <1>4, <1>6, <2>1
  <2>3. mid \in Seq(S \cup {passed})
    <3>1. Front(calls) \in Seq(S)
      BY <1>2, <1>3, PopStack
    <3> QED
      BY <3>1, PushStack
  <2>4. g.file = file /\ g.names = names /\ g.todo = items /\ g.result = <<>>
    <3> HIDE DEF file, names, items
    <3> QED
      BY DEF Imports!Frame
  <2> HIDE DEF g, mid
  <2>5. Opens(calls, Append(mid, g), g.file, g.names, g.todo)
    BY <2>2, <2>3, <2>4, MoveThenOpen
  <2> QED
    BY <2>1, <2>4, <2>5
<1>10. ASSUME Imports!Close
       PROVE  Closes(calls, calls')
  <2> DEFINE n == Len(calls)
             caller == calls[n - 1]
             r == caller.result \o Imports!Extracted(top)
             g == [caller EXCEPT !.result = r]
             s == Front(calls)
             t == Append(Front(s), g)
  <2>1. n > 1 /\ calls' = t /\ top.todo = <<>>
    BY <1>1, <1>10, SameStacks DEF Imports!Close
  <2>2. n - 1 \in DOMAIN calls /\ DOMAIN calls = 1..n
    BY <1>2, <2>1, LenProperties
  <2>3. IsCall(caller)
    BY <2>2, ReadingCall
  <2>4. g.file = caller.file /\ g.names = caller.names /\ g.todo = caller.todo /\ g.result = r
    <3> HIDE DEF r, caller
    <3>1. g.file = caller.file
      BY <2>3, SameFile
    <3>2. g.names = caller.names /\ g.todo = caller.todo /\ g.result = r
      BY <2>3, CallFieldsKept
    <3> QED
      BY <3>1, <3>2
  <2>5. s \in Seq(S) /\ Len(s) = n - 1 /\ \A i \in 1..n - 1 : s[i] = calls[i]
    BY <1>2, <1>3, PopStack
  <2> HIDE DEF s, g
  <2>6. s # <<>>
    BY <1>4, <2>1, <2>5
  <2>7. /\ t \in Seq(S \cup {g})
        /\ Len(t) = Len(s)
        /\ DOMAIN t = 1..Len(s)
        /\ \A i \in 1..Len(s) - 1 : t[i] = s[i]
        /\ t[Len(s)] = g
    BY <2>5, <2>6, ReplaceTop, ZenonT(30)
  <2> HIDE DEF t
  <2>8. n \in Nat
    BY <1>4
  <2> HIDE DEF n
  <2>9. \A i \in 1..n - 2 : i \in 1..(n - 1) - 1 /\ i \in 1..n - 1
    BY <2>8
  <2>10. Len(t) = n - 1 /\ t[n - 1] = g /\ \A i \in 1..n - 2 : t[i] = calls[i]
    BY <2>5, <2>7, <2>9
  <2>11. top = calls[n]
    BY <1>4 DEF n
  <2>12. Closes(calls, t)
    <3>1. g.result = calls[n - 1].result \o Imports!Extracted(calls[n])
      BY <2>4, <2>11
    <3> QED
      BY <2>1, <2>4, <2>8, <2>10, <2>11, <3>1 DEF Closes, n
  <2> QED
    BY <2>1, <2>12
<1> QED
  BY <1>1, <1>3, <1>4, <1>7, <1>8, <1>9, <1>10 DEF top
-----------------------------------------------------------------------------
\* The graph of imports.

LEMMA SameCardinality == ASSUME NEW S PROVE Imports!Cardinality(S) = Cardinality(S)
BY DEF Imports!Cardinality, Cardinality

LEMMA ReachedIs ==
    ASSUME project \in Projects, NEW next, \A f \in Imports!Files : next[f] \subseteq DOMAIN project.files,
           NEW from, from \subseteq DOMAIN project.files \/ from = {<<>>}
    PROVE  LET R == Imports!Reached(from, next)
           IN  /\ from \subseteq R /\ R \subseteq from \cup DOMAIN project.files
               /\ ClosedUnder(R, next)
               /\ \A S : from \subseteq S /\ ClosedUnder(S, next) => R \subseteq S
<1> DEFINE D == DOMAIN project.files
           n == Cardinality(D)
           w == CHOOSE v : Spreads(v, from, next, n)
           Z == IF from = {<<>>} THEN {<<>>} \cup D ELSE D
<1>1. IsFiniteSet(D) /\ <<>> \notin D /\ n \in Nat
  BY ProjectsAssumption, FS_CardinalityType
<1>2. Imports!Reached(from, next) = w[n]
  BY SameCardinality DEF Imports!Reached, Spreads
<1>3. \A f \in Z : next[f] \subseteq D
  BY DEF Imports!Files
<1>4. ClosedUnder(Z, next)
  BY <1>3 DEF ClosedUnder
<1>5. IsFiniteSet(Z) /\ Cardinality(Z) <= n + 1
  <2>1. Cardinality(D) <= n + 1
    BY <1>1
  <2>2. IsFiniteSet(D \cup {<<>>}) /\ Cardinality(D \cup {<<>>}) = n + 1
    BY <1>1, FS_AddElement
  <2>3. D \cup {<<>>} = {<<>>} \cup D
    OBVIOUS
  <2>4. n + 1 <= n + 1
    BY <1>1
  <2> HIDE DEF D, n
  <2> QED
    BY <1>1, <2>1, <2>2, <2>3, <2>4
<1>6. from \subseteq Z /\ Z \subseteq from \cup D
  OBVIOUS
<1> HIDE DEF D, n, Z
<1>7. Spreads(w, from, next, n)
  BY <1>1, SpreadExists
<1> HIDE DEF w
<1>8. /\ from \subseteq w[n] /\ w[n] \subseteq Z
      /\ \A S : from \subseteq S /\ ClosedUnder(S, next) => w[n] \subseteq S
      /\ ClosedUnder(w[n], next)
  BY <1>1, <1>4, <1>5, <1>6, <1>7, SpreadCloses
<1> QED
  BY <1>2, <1>6, <1>8 DEF D

\* Directories and where a path is found.
LEMMA Directories ==
    ASSUME NEW file
    PROVE  DOMAIN (<<Imports!Dir(file)>> \o SearchPaths) \in SUBSET Nat
<1> DEFINE d == <<Imports!Dir(file)>>
           S == Seq(STRING) \cup {Imports!Dir(file)}
<1>1. d \in Seq(S) /\ SearchPaths \in Seq(S)
  BY SearchPathsAssumption, SeqMonotonic
<1> HIDE DEF d, S
<1>2. d \o SearchPaths \in Seq(S)
  BY <1>1, ConcatProperties
<1>3. DOMAIN (d \o SearchPaths) \in SUBSET Nat
  BY <1>2, LenProperties
<1> QED
  BY <1>3 DEF d

\* An import means one file, or none.
LEMMA MeansIs ==
    ASSUME NEW file, NEW import
    PROVE  LET dirs == <<Imports!Dir(file)>> \o SearchPaths
               found == {k \in DOMAIN dirs : dirs[k] \o import.path \in DOMAIN project.files}
           IN  /\ found = {} => Imports!Means(file, import) = {}
               /\ found # {} => Imports!Means(file, import) =
                     {dirs[CHOOSE k \in found : \A j \in found : k <= j] \o import.path}
               /\ Imports!Means(file, import) \subseteq DOMAIN project.files
<1> DEFINE dirs == <<Imports!Dir(file)>> \o SearchPaths
           found == {k \in DOMAIN dirs : dirs[k] \o import.path \in DOMAIN project.files}
           c == CHOOSE k \in found : \A j \in found : k <= j
           first == {j \in found : \A h \in found : j <= h}
           paths == {dirs[k] \o import.path : k \in first}
<1>1. Imports!Means(file, import) = paths
  BY DEF Imports!Means
<1>2. found \in SUBSET Nat
  BY Directories
<1>3. paths \subseteq DOMAIN project.files
  OBVIOUS
<1>4. found = {} => paths = {}
  OBVIOUS
<1>5. ASSUME found # {} PROVE first = {c}
  <2> HIDE DEF found
  <2>1. PICK k \in found : \A j \in found : k <= j
    BY <1>2, <1>5, LeastIndex
  <2>2. c \in found /\ \A j \in found : c <= j
    BY <2>1
  <2>3. \A j \in first : j = c
    <3> SUFFICES ASSUME NEW j \in first PROVE j = c
      OBVIOUS
    <3>1. j \in Nat /\ c \in Nat /\ j <= c /\ c <= j
      BY <1>2, <2>2
    <3> HIDE DEF c, first
    <3> QED
      BY <3>1
  <2> QED
    BY <2>2, <2>3
<1>6. found # {} => paths = {dirs[c] \o import.path}
  <2> HIDE DEF dirs, found, c, first
  <2> QED
    BY <1>5
<1> HIDE DEF paths, c, found
<1> QED
  BY <1>1, <1>3, <1>4, <1>6 DEF found, c

LEMMA ImportedIs ==
    ASSUME NEW f \in Imports!Files
    PROVE  /\ Imports!Plain[f] \subseteq DOMAIN project.files
           /\ Imports!Named[f] \subseteq DOMAIN project.files
           /\ Imports!Imported[f] = Imports!Plain[f] \cup Imports!Named[f]
           /\ \A i \in Imports!ImportsOf(Imports!ItemsOf(f)) :
                 /\ Imports!Means(f, i) \subseteq Imports!Imported[f]
                 /\ i.names = {} => Imports!Means(f, i) \subseteq Imports!Plain[f]
                 /\ i.names # {} => Imports!Means(f, i) \subseteq Imports!Named[f]
           /\ \A g \in Imports!Plain[f] : \E i \in Imports!ImportsOf(Imports!ItemsOf(f)) :
                 i.names = {} /\ g \in Imports!Means(f, i)
           /\ \A g \in Imports!Named[f] : \E i \in Imports!ImportsOf(Imports!ItemsOf(f)) :
                 i.names # {} /\ g \in Imports!Means(f, i)
<1> DEFINE I == Imports!ImportsOf(Imports!ItemsOf(f))
           M(i) == Imports!Means(f, i)
<1>1. /\ Imports!Plain[f] = UNION {M(i) : i \in {j \in I : j.names = {}}}
      /\ Imports!Named[f] = UNION {M(i) : i \in {j \in I : j.names # {}}}
      /\ Imports!Imported[f] = Imports!Plain[f] \cup Imports!Named[f]
  BY DEF Imports!Plain, Imports!Named, Imports!Imported
<1>2. \A i : M(i) \subseteq DOMAIN project.files
  BY MeansIs
<1> HIDE DEF I, M
<1>3. /\ \A i \in I : /\ M(i) \subseteq Imports!Imported[f]
                      /\ i.names = {} => M(i) \subseteq Imports!Plain[f]
                      /\ i.names # {} => M(i) \subseteq Imports!Named[f]
      /\ \A g \in Imports!Plain[f] : \E i \in I : i.names = {} /\ g \in M(i)
      /\ \A g \in Imports!Named[f] : \E i \in I : i.names # {} /\ g \in M(i)
  BY <1>1
<1>4. Imports!Plain[f] \subseteq DOMAIN project.files /\ Imports!Named[f] \subseteq DOMAIN project.files
  BY <1>1, <1>2
<1> QED
  BY <1>1, <1>3, <1>4 DEF I, M

\* What is read from the project stays.
LEMMA GraphStays ==
    ASSUME project' = project
    PROVE  /\ Imports!Files' = Imports!Files
           /\ Imports!Plain' = Imports!Plain
           /\ Imports!Named' = Imports!Named
           /\ Imports!Imported' = Imports!Imported
           /\ \A f : Imports!ItemsOf(f)' = Imports!ItemsOf(f)
           /\ \A f, i : Imports!Means(f, i)' = Imports!Means(f, i)
<1>1. Imports!Files' = Imports!Files
  BY DEF Imports!Files
<1>2. ASSUME NEW f PROVE Imports!ItemsOf(f)' = Imports!ItemsOf(f)
  BY DEF Imports!ItemsOf
<1>3. ASSUME NEW f, NEW i PROVE Imports!Means(f, i)' = Imports!Means(f, i)
  BY DEF Imports!Means
<1>4. Imports!Plain' = Imports!Plain
  BY <1>1, <1>2, <1>3 DEF Imports!Plain
<1>5. Imports!Named' = Imports!Named
  BY <1>1, <1>2, <1>3 DEF Imports!Named
<1>6. Imports!Imported' = Imports!Imported
  BY <1>1, <1>4, <1>5 DEF Imports!Imported
<1> QED
  BY <1>1, <1>2, <1>3, <1>4, <1>5, <1>6
-----------------------------------------------------------------------------
\* Where the calls come from, and what they have still to read.

Items(seq) == {seq[k] : k \in DOMAIN seq}

\* Each call but the first was made by an import of the one before it, and reads its own
\* file.
Routed(s) ==
    /\ Len(s) \in Nat \ {0} /\ s[1].file = <<>>
    /\ \A i \in 1..Len(s) :
          /\ s[i].file \in Imports!Files
          /\ Items(s[i].todo) \subseteq Items(Imports!ItemsOf(s[i].file))
    /\ \A i \in 1..Len(s) - 1 :
          \E import \in Imports!ImportsOf(Imports!ItemsOf(s[i].file)) :
              s[i + 1].names = import.names /\ s[i + 1].file \in Imports!Means(s[i].file, import)

LEMMA RoutedStays ==
    ASSUME project' = project, Routed(calls')
    PROVE  Routed(calls)'
<1>1. ASSUME NEW f PROVE Imports!ItemsOf(f)' = Imports!ItemsOf(f)
  BY DEF Imports!ItemsOf
<1>2. ASSUME NEW f, NEW i PROVE Imports!Means(f, i)' = Imports!Means(f, i)
  BY DEF Imports!Means
<1>3. Imports!Files' = Imports!Files
  BY DEF Imports!Files
<1> QED
  BY <1>1, <1>2, <1>3 DEF Routed

LEMMA ItemsTail ==
    ASSUME NEW I, NEW s \in Seq(I), s # <<>>
    PROVE  /\ Tail(s) \in Seq(I) /\ Head(s) \in I
           /\ Items(s) = Items(Tail(s)) \cup {Head(s)}
<1> DEFINE n == Len(s)
           t == Tail(s)
<1>1. n \in Nat \ {0} /\ DOMAIN s = 1..n
  BY EmptySeq, LenProperties
<1>2. /\ t \in Seq(I) /\ DOMAIN t = 1..n - 1
      /\ \A i \in 1..n - 1 : t[i] = s[i + 1]
      /\ Head(s) = s[1] /\ s[1] \in I
  <2>1. t \in Seq(I) /\ Len(t) = n - 1 /\ \A i \in 1..Len(t) : t[i] = s[i + 1]
    BY HeadTailProperties
  <2>2. DOMAIN t = 1..Len(t)
    BY <2>1, LenProperties
  <2>3. Head(s) = s[1] /\ s[1] \in I
    BY <1>1, HeadTailProperties, ElementOfSeq
  <2> QED
    BY <2>1, <2>2, <2>3
<1> HIDE DEF n, t
<1>3. /\ \A i \in 1..n : i = 1 \/ (i - 1 \in 1..n - 1 /\ (i - 1) + 1 = i)
      /\ \A i \in 1..n - 1 : i + 1 \in 1..n
      /\ 1 \in 1..n
  BY <1>1
<1>4. \A x \in Items(s) : x \in Items(t) \/ x = s[1]
  <2> SUFFICES ASSUME NEW i \in 1..n PROVE s[i] \in Items(t) \/ s[i] = s[1]
    BY <1>1 DEF Items
  <2>1. CASE i # 1
    <3>1. i - 1 \in 1..n - 1 /\ t[i - 1] = s[i]
      BY <1>2, <1>3, <2>1
    <3> QED
      BY <1>2, <3>1 DEF Items
  <2> QED
    BY <2>1
<1>5. \A x \in Items(t) : x \in Items(s)
  <2> SUFFICES ASSUME NEW i \in 1..n - 1 PROVE t[i] \in Items(s)
    BY <1>2 DEF Items
  <2>1. i + 1 \in 1..n /\ s[i + 1] = t[i]
    BY <1>2, <1>3
  <2> QED
    BY <1>1, <2>1 DEF Items
<1>6. s[1] \in Items(s)
  BY <1>1, <1>3 DEF Items
<1> QED
  BY <1>2, <1>4, <1>5, <1>6 DEF t

\* The imports among items.
LEMMA ImportsAre ==
    ASSUME NEW items
    PROVE  Imports!ImportsOf(items) = {x \in Items(items) : x.op = "import"}
BY DEF Imports!ImportsOf, Items

Ahead(file, items) ==
    UNION {Imports!Means(file, i) : i \in Imports!ImportsOf(items)}

LEMMA AheadTail ==
    ASSUME NEW I, NEW s \in Seq(I), s # <<>>, NEW file
    PROVE  /\ Head(s).op = "import" =>
                 Ahead(file, s) = Ahead(file, Tail(s)) \cup Imports!Means(file, Head(s))
           /\ Head(s).op # "import" => Ahead(file, s) = Ahead(file, Tail(s))
<1> DEFINE M(i) == Imports!Means(file, i)
<1>1. Items(s) = Items(Tail(s)) \cup {Head(s)}
  BY ItemsTail
<1>2. /\ Imports!ImportsOf(s) = {x \in Items(s) : x.op = "import"}
      /\ Imports!ImportsOf(Tail(s)) = {x \in Items(Tail(s)) : x.op = "import"}
  BY ImportsAre
<1>3. /\ Ahead(file, s) = UNION {M(i) : i \in Imports!ImportsOf(s)}
      /\ Ahead(file, Tail(s)) = UNION {M(i) : i \in Imports!ImportsOf(Tail(s))}
  BY DEF Ahead
<1> HIDE DEF M
<1>4. CASE Head(s).op = "import"
  <2>1. Imports!ImportsOf(s) = Imports!ImportsOf(Tail(s)) \cup {Head(s)}
    BY <1>1, <1>2, <1>4
  <2>2. Ahead(file, s) = Ahead(file, Tail(s)) \cup M(Head(s))
    BY <1>3, <2>1
  <2> QED
    BY <1>4, <2>2 DEF M
<1>5. CASE Head(s).op # "import"
  <2>1. Imports!ImportsOf(s) = Imports!ImportsOf(Tail(s))
    BY <1>1, <1>2, <1>5
  <2> QED
    BY <1>3, <1>5, <2>1
<1> QED
  BY <1>4, <1>5

\* What the import that is read means.
LEMMA TargetMeant ==
    ASSUME calls # <<>>
    PROVE  /\ Imports!Found = {} => Imports!Means(Imports!Top.file, Imports!Item) = {}
           /\ Imports!Found # {} =>
                 /\ Imports!Means(Imports!Top.file, Imports!Item) = {Imports!Target}
                 /\ Imports!Target \in DOMAIN project.files
BY MeansIs, TargetIsThere DEF Imports!Found, Imports!Target, Imports!Candidates

\* The calls keep to the routes.
LEMMA MovesRouted ==
    ASSUME NEW T, NEW s, NEW t, NEW r, Routed(s), Moves(s, t, r),
           \A i \in 1..Len(s) : s[i].todo \in Seq(T)
    PROVE  Routed(t)
<1> DEFINE n == Len(s)
<1>1. n \in Nat \ {0} /\ Len(t) = n
  BY DEF Moves
<1>2. \A i \in 1..n : i \in 1..n - 1 \/ i = n
  BY <1>1
<1>3. \A i \in 1..n : t[i].file = s[i].file /\ t[i].names = s[i].names
  BY <1>2 DEF Moves
<1>4. \A i \in 1..n : Items(t[i].todo) \subseteq Items(s[i].todo)
  <2>1. n \in 1..n
    BY <1>1
  <2>2. s[n].todo \in Seq(T) /\ s[n].todo # <<>> /\ t[n].todo = Tail(s[n].todo)
    BY <2>1 DEF Moves
  <2>3. Items(t[n].todo) \subseteq Items(s[n].todo)
    BY <2>2, ItemsTail
  <2> QED
    BY <1>2, <2>3 DEF Moves
<1>5. 1 \in 1..n /\ \A i \in 1..n - 1 : i \in 1..n /\ i + 1 \in 1..n
  BY <1>1
<1> QED
  BY <1>1, <1>3, <1>4, <1>5 DEF Routed

LEMMA OpensRouted ==
    ASSUME NEW T, NEW s, NEW t, NEW file, NEW names, NEW items, Routed(s),
           Opens(s, t, file, names, items), \A i \in 1..Len(s) : s[i].todo \in Seq(T),
           Head(s[Len(s)].todo).op = "import", names = Head(s[Len(s)].todo).names,
           file \in Imports!Means(s[Len(s)].file, Head(s[Len(s)].todo)),
           Items(items) \subseteq Items(Imports!ItemsOf(file))
    PROVE  Routed(t)
<1> DEFINE n == Len(s)
           x == Head(s[n].todo)
<1>1. n \in Nat \ {0} /\ Len(t) = n + 1
  BY DEF Opens
<1>2. \A i \in 1..n : i \in 1..n - 1 \/ i = n
  BY <1>1
<1>3. \A i \in 1..n : t[i].file = s[i].file /\ t[i].names = s[i].names
  BY <1>2 DEF Opens
<1>4. n \in 1..n /\ 1 \in 1..n
  BY <1>1
<1>5. s[n].todo \in Seq(T) /\ s[n].todo # <<>> /\ t[n].todo = Tail(s[n].todo)
  BY <1>4 DEF Opens
<1>6. x \in Imports!ImportsOf(Imports!ItemsOf(s[n].file))
  <2>1. x \in Items(s[n].todo)
    BY <1>5, ItemsTail
  <2>2. x \in Items(Imports!ItemsOf(s[n].file))
    BY <1>4, <2>1 DEF Routed
  <2> QED
    BY <2>2, ImportsAre
<1>7. \A i \in 1..n : Items(t[i].todo) \subseteq Items(s[i].todo)
  <2>1. Items(t[n].todo) \subseteq Items(s[n].todo)
    BY <1>5, ItemsTail
  <2> QED
    BY <1>2, <2>1 DEF Opens
<1>8. t[n + 1].file = file /\ t[n + 1].names = names /\ t[n + 1].todo = items
  BY DEF Opens
<1>9. file \in Imports!Files
  BY MeansIs DEF Imports!Files
<1> HIDE DEF n
<1>10. /\ \A i \in 1..n + 1 : i \in 1..n \/ i = n + 1
       /\ \A i \in 1..(n + 1) - 1 : i \in 1..n - 1 \/ i = n
       /\ \A i \in 1..n - 1 : i \in 1..n /\ i + 1 \in 1..n
  BY <1>1
<1>11. \A i \in 1..n + 1 : /\ t[i].file \in Imports!Files
                           /\ Items(t[i].todo) \subseteq Items(Imports!ItemsOf(t[i].file))
  BY <1>3, <1>7, <1>8, <1>9, <1>10 DEF Routed, n
<1>12. \A i \in 1..n - 1 :
          \E import \in Imports!ImportsOf(Imports!ItemsOf(t[i].file)) :
              t[i + 1].names = import.names /\ t[i + 1].file \in Imports!Means(t[i].file, import)
  BY <1>3, <1>10 DEF Routed, n
<1>13. \E import \in Imports!ImportsOf(Imports!ItemsOf(t[n].file)) :
              t[n + 1].names = import.names /\ t[n + 1].file \in Imports!Means(t[n].file, import)
  BY <1>3, <1>4, <1>6, <1>8 DEF n
<1>14. t[1].file = <<>>
  BY <1>3, <1>4 DEF Routed
<1>15. n + 1 \in Nat \ {0}
  BY <1>1
<1> QED
  BY <1>1, <1>10, <1>11, <1>12, <1>13, <1>14, <1>15 DEF Routed

LEMMA ClosesRouted ==
    ASSUME NEW s, NEW t, Routed(s), Closes(s, t)
    PROVE  Routed(t)
<1> DEFINE n == Len(s)
<1>1. n \in Nat /\ n > 1 /\ Len(t) = n - 1
  BY DEF Closes
<1>2. \A i \in 1..n - 1 : i \in 1..n - 2 \/ i = n - 1
  BY <1>1
<1>3. \A i \in 1..n - 1 : /\ t[i].file = s[i].file /\ t[i].names = s[i].names
                          /\ t[i].todo = s[i].todo
  BY <1>2 DEF Closes
<1> HIDE DEF n
<1>4. /\ n - 1 \in Nat \ {0} /\ 1 \in 1..n - 1 /\ \A i \in 1..n - 1 : i \in 1..n
      /\ \A i \in 1..(n - 1) - 1 : i \in 1..n - 1 /\ i + 1 \in 1..n - 1
  BY <1>1
<1> QED
  BY <1>1, <1>3, <1>4 DEF Routed, n
-----------------------------------------------------------------------------
\* Cycles: a file that imports one still being resolved closes one, and what has been
\* resolved without it has none.

Start == Imports!Reached({<<>>}, Imports!Imported)
Beyond(f) == Imports!Reached(Imports!Imported[f], Imports!Imported)

LEMMA BeyondIs ==
    ASSUME project \in Projects
    PROVE  /\ <<>> \in Start /\ ClosedUnder(Start, Imports!Imported)
           /\ \A S : <<>> \in S /\ ClosedUnder(S, Imports!Imported) => Start \subseteq S
           /\ \A f \in Imports!Files :
                 /\ Imports!Imported[f] \subseteq Beyond(f)
                 /\ ClosedUnder(Beyond(f), Imports!Imported)
                 /\ \A S : Imports!Imported[f] \subseteq S /\ ClosedUnder(S, Imports!Imported)
                              => Beyond(f) \subseteq S
<1>1. \A f \in Imports!Files : Imports!Imported[f] \subseteq DOMAIN project.files
  BY ImportedIs
<1>2. /\ {<<>>} \subseteq Start /\ ClosedUnder(Start, Imports!Imported)
      /\ \A S : {<<>>} \subseteq S /\ ClosedUnder(S, Imports!Imported) => Start \subseteq S
  BY <1>1, ReachedIs DEF Start
<1>3. ASSUME NEW f \in Imports!Files
      PROVE  /\ Imports!Imported[f] \subseteq Beyond(f)
             /\ ClosedUnder(Beyond(f), Imports!Imported)
             /\ \A S : Imports!Imported[f] \subseteq S /\ ClosedUnder(S, Imports!Imported)
                          => Beyond(f) \subseteq S
  <2>1. Imports!Imported[f] \subseteq DOMAIN project.files
    BY <1>1
  <2> QED
    BY <1>1, <2>1, ReachedIs DEF Beyond
<1> QED
  BY <1>2, <1>3

\* What is reached from a call holds the calls it made.
LEMMA PathWithin ==
    ASSUME NEW s, Routed(s), NEW C, ClosedUnder(C, Imports!Imported),
           NEW k \in 1..Len(s), s[k].file \in C, NEW j \in k..Len(s)
    PROVE  s[j].file \in C
<1> DEFINE n == Len(s)
           Bad == {i \in k..n : s[i].file \notin C}
<1>1. n \in Nat \ {0} /\ k \in Nat
  BY DEF Routed
<1> SUFFICES ASSUME Bad # {} PROVE FALSE
  OBVIOUS
<1>2. Bad \in SUBSET Nat
  BY <1>1
<1>3. PICK i \in Bad : \A h \in Bad : i <= h
  <2> HIDE DEF Bad
  <2> QED
    BY <1>2, LeastIndex
<1>4. i \in k..n /\ s[i].file \notin C /\ i # k
  BY <1>3
<1>5. i - 1 \in k..n /\ ~ i <= i - 1 /\ i - 1 \in 1..n - 1 /\ (i - 1) + 1 = i
  BY <1>1, <1>4
<1>6. s[i - 1].file \in C
  BY <1>3, <1>5
<1>7. \E import \in Imports!ImportsOf(Imports!ItemsOf(s[i - 1].file)) :
          s[i].file \in Imports!Means(s[i - 1].file, import)
  BY <1>5 DEF Routed
<1>8. s[i - 1].file \in Imports!Files
  <2>1. i - 1 \in 1..n
    BY <1>1, <1>5
  <2> QED
    BY <2>1 DEF Routed
<1>9. s[i].file \in Imports!Imported[s[i - 1].file]
  BY <1>7, <1>8, ImportedIs
<1> QED
  BY <1>4, <1>6, <1>9 DEF ClosedUnder

\* An import of a file whose call is open closes a cycle.
LEMMA CircleFound ==
    ASSUME project \in Projects, NEW s, Routed(s), NEW i \in 1..Len(s),
           s[i].file \in Imports!Imported[s[Len(s)].file]
    PROVE  Imports!HasCycle
<1> DEFINE n == Len(s)
           g == s[i].file
           B == Beyond(g)
<1>1. n \in Nat \ {0} /\ 1 \in 1..n /\ n \in 1..n /\ i \in 1..n
  BY DEF Routed
<1>2. g \in Imports!Files
  BY <1>1 DEF Routed
<1>3. g \in Start
  <2>1. s[1].file \in Start
    BY BeyondIs DEF Routed
  <2>2. ClosedUnder(Start, Imports!Imported)
    BY BeyondIs
  <2>3. i \in 1..Len(s)
    OBVIOUS
  <2> QED
    BY <1>1, <2>1, <2>2, <2>3, PathWithin
<1>4. Imports!Imported[g] \subseteq B /\ ClosedUnder(B, Imports!Imported)
  BY <1>2, BeyondIs
<1> HIDE DEF B
<1>5. g \in B
  <2>1. CASE i = n
    BY <1>4, <2>1
  <2>2. CASE i # n
    <3>1. i \in 1..n - 1 /\ i + 1 \in 1..n /\ n \in (i + 1)..n
      BY <1>1, <2>2
    <3>2. s[i + 1].file \in Imports!Imported[g]
      BY <1>2, <3>1, ImportedIs DEF Routed
    <3>3. s[i + 1].file \in B
      BY <1>4, <3>2
    <3>4. s[n].file \in B
      BY <1>4, <3>1, <3>3, PathWithin
    <3> QED
      BY <1>4, <3>4 DEF ClosedUnder
  <2> QED
    BY <2>1, <2>2
<1>6. g \in Imports!Reached(Imports!Imported[g], Imports!Imported)
  BY <1>5 DEF B, Beyond
<1> HIDE DEF g
<1> QED
  BY <1>3, <1>6 DEF Imports!HasCycle, Start

\* The calls have more files ahead: those of the imports still to read and the file of
\* the next call.
Called(s, i) == {s[j].file : j \in {i + 1} \cap (1..Len(s))}

\* S is what has been resolved: it holds all it reaches, no file of it reaches itself, and
\* what an open call imports is in S or ahead of it.
Resolved(S, s, vis, prog) ==
    /\ S \subseteq vis /\ vis \subseteq S \cup prog
    /\ ClosedUnder(S, Imports!Imported)
    /\ \A f \in S : f \notin Beyond(f)
    /\ \A i \in 1..Len(s) :
          Imports!Imported[s[i].file]
             \subseteq S \cup Ahead(s[i].file, s[i].todo) \cup Called(s, i)

ImportsOK(s, vis, prog, d) ==
    /\ Routed(s)
    /\ prog \subseteq vis /\ vis \subseteq DOMAIN project.files
    /\ "circular" \in d => Imports!HasCycle
    /\ "circular" \notin d => \E S : Resolved(S, s, vis, prog)

LEMMA ImportsStay ==
    ASSUME project' = project, ImportsOK(calls', visited', inProgress', importDiags')
    PROVE  ImportsOK(calls, visited, inProgress, importDiags)'
<1>1. Imports!Imported' = Imports!Imported
  BY GraphStays
<1>2. ASSUME NEW from, NEW next
      PROVE  Imports!Reached(from, next)' = Imports!Reached(from, next)
  BY DEF Imports!Reached, Imports!Cardinality
<1>3. ASSUME NEW f PROVE Beyond(f)' = Beyond(f)
  BY <1>1, <1>2 DEF Beyond
<1>4. Imports!HasCycle' = Imports!HasCycle
  BY <1>1, <1>2 DEF Imports!HasCycle
<1>5. ASSUME NEW f, NEW i PROVE Imports!Means(f, i)' = Imports!Means(f, i)
  BY GraphStays
<1>6. ASSUME NEW f, NEW items PROVE Ahead(f, items)' = Ahead(f, items)
  BY <1>5 DEF Ahead, Imports!ImportsOf
<1>7. Routed(calls)'
  BY RoutedStays DEF ImportsOK
<1>8. ASSUME NEW S, Resolved(S, calls', visited', inProgress')
      PROVE  Resolved(S, calls, visited, inProgress)'
  BY <1>1, <1>3, <1>6, <1>8 DEF Resolved, ClosedUnder, Called
<1> QED
  BY <1>4, <1>7, <1>8 DEF ImportsOK

LEMMA MovesResolved ==
    ASSUME NEW S, NEW s, NEW t, NEW r, NEW vis, NEW prog, Resolved(S, s, vis, prog), Moves(s, t, r),
           NEW S2, NEW vis2, S \subseteq S2, S2 \subseteq vis2, vis2 \subseteq S2 \cup prog,
           ClosedUnder(S2, Imports!Imported), \A f \in S2 : f \notin Beyond(f),
           Ahead(s[Len(s)].file, s[Len(s)].todo)
              \subseteq S2 \cup Ahead(s[Len(s)].file, Tail(s[Len(s)].todo))
    PROVE  Resolved(S2, t, vis2, prog)
<1> DEFINE n == Len(s)
<1>1. n \in Nat \ {0} /\ Len(t) = n
  BY DEF Moves
<1>2. \A i \in 1..n : i \in 1..n - 1 \/ i = n
  BY <1>1
<1>3. \A i \in 1..n : t[i].file = s[i].file
  BY <1>2 DEF Moves
<1>4. \A i \in 1..n : Called(t, i) = Called(s, i)
  <2> SUFFICES ASSUME NEW i \in 1..n PROVE Called(t, i) = Called(s, i)
    OBVIOUS
  <2>1. \A j \in {i + 1} \cap (1..n) : t[j].file = s[j].file
    BY <1>3
  <2> HIDE DEF n
  <2> QED
    BY <1>1, <2>1 DEF Called, n
<1>5. ASSUME NEW i \in 1..n
      PROVE  Imports!Imported[t[i].file]
                \subseteq S2 \cup Ahead(t[i].file, t[i].todo) \cup Called(t, i)
  <2>1. Imports!Imported[s[i].file] \subseteq S \cup Ahead(s[i].file, s[i].todo) \cup Called(s, i)
    BY DEF Resolved
  <2>2. t[i].file = s[i].file /\ Called(t, i) = Called(s, i)
    BY <1>3, <1>4
  <2>3. Ahead(s[i].file, s[i].todo) \subseteq S2 \cup Ahead(t[i].file, t[i].todo)
    <3>1. CASE i \in 1..n - 1
      <4>1. t[i] = s[i]
        BY <3>1 DEF Moves
      <4> QED
        BY <4>1
    <3>2. CASE i = n
      <4>1. t[n].todo = Tail(s[n].todo)
        BY DEF Moves
      <4> QED
        BY <2>2, <3>2, <4>1
    <3> QED
      BY <1>2, <3>1, <3>2
  <2> QED
    BY <2>1, <2>2, <2>3
<1> QED
  BY <1>1, <1>5 DEF Resolved

LEMMA OpensResolved ==
    ASSUME NEW S, NEW s, NEW t, NEW vis, NEW prog, Resolved(S, s, vis, prog),
           NEW file, NEW names, NEW items, Opens(s, t, file, names, items),
           Ahead(s[Len(s)].file, s[Len(s)].todo)
              \subseteq {file} \cup Ahead(s[Len(s)].file, Tail(s[Len(s)].todo)),
           Imports!Imported[file] \subseteq Ahead(file, items),
           NEW U, s[Len(s)].todo \in Seq(U)
    PROVE  Resolved(S, t, vis \cup {file}, prog \cup {file})
<1> DEFINE n == Len(s)
<1>1. n \in Nat \ {0} /\ Len(t) = n + 1
  BY DEF Opens
<1>2. /\ \A i \in 1..n : i \in 1..n - 1 \/ i = n
      /\ \A i \in 1..n + 1 : i \in 1..n \/ i = n + 1
      /\ n \in 1..n /\ n + 1 \in 1..n + 1
  BY <1>1
<1>3. \A i \in 1..n : t[i].file = s[i].file
  BY <1>2 DEF Opens
<1>4. /\ t[n + 1].file = file /\ t[n + 1].todo = items /\ t[n].todo = Tail(s[n].todo)
      /\ \A i \in 1..n - 1 : t[i] = s[i]
  BY DEF Opens
<1>5. \A i \in 1..n : Imports!Imported[s[i].file]
         \subseteq S \cup Ahead(s[i].file, s[i].todo) \cup Called(s, i)
  BY DEF Resolved
<1>6. Ahead(s[n].file, s[n].todo) \subseteq {file} \cup Ahead(s[n].file, Tail(s[n].todo))
  OBVIOUS
<1>7. Len(s) = n
  OBVIOUS
<1> HIDE DEF n
<1>8. \A i \in 1..n : Called(s, i) \subseteq Called(t, i)
  <2> SUFFICES ASSUME NEW i \in 1..n PROVE Called(s, i) \subseteq Called(t, i)
    OBVIOUS
  <2>1. \A j \in {i + 1} \cap (1..n) : t[j].file = s[j].file /\ j \in 1..n + 1
    BY <1>1, <1>3
  <2> QED
    BY <1>1, <1>7, <2>1 DEF Called
<1>9. file \in Called(t, n)
  <2>1. n + 1 \in {n + 1} \cap (1..n + 1)
    BY <1>2
  <2> QED
    BY <1>1, <1>4, <2>1 DEF Called
<1>10. ASSUME NEW i \in 1..n + 1
      PROVE  Imports!Imported[t[i].file]
                \subseteq S \cup Ahead(t[i].file, t[i].todo) \cup Called(t, i)
  <2>1. CASE i \in 1..n - 1
    <3>1. i \in 1..n /\ t[i] = s[i]
      BY <1>1, <1>4, <2>1
    <3> QED
      BY <1>5, <1>8, <3>1
  <2>2. CASE i = n
    <3>1. /\ Imports!Imported[s[n].file]
                \subseteq S \cup Ahead(s[n].file, s[n].todo) \cup Called(s, n)
          /\ Called(s, n) \subseteq Called(t, n)
          /\ t[n].file = s[n].file
      BY <1>2, <1>3, <1>5, <1>8
    <3>2. Ahead(t[n].file, t[n].todo) = Ahead(s[n].file, Tail(s[n].todo))
      BY <1>4, <3>1
    <3> QED
      BY <1>6, <1>9, <2>2, <3>1, <3>2
  <2>3. CASE i = n + 1
    BY <1>4, <2>3
  <2> QED
    BY <1>2, <2>1, <2>2, <2>3
<1>11. S \subseteq vis \cup {file} /\ vis \cup {file} \subseteq S \cup (prog \cup {file})
  BY DEF Resolved
<1> QED
  BY <1>1, <1>10, <1>11 DEF Resolved

\* A file of which all that it imports is resolved is resolved with its call.
LEMMA ClosesResolved ==
    ASSUME project \in Projects, NEW S, NEW s, NEW t, NEW vis, NEW prog, Resolved(S, s, vis, prog),
           Routed(s), Closes(s, t), s[Len(s)].file \in prog, prog \subseteq vis
    PROVE  Resolved(S \cup {s[Len(s)].file}, t, vis, prog \ {s[Len(s)].file})
<1> DEFINE n == Len(s)
           f == s[n].file
           S2 == S \cup {f}
<1>1. n \in Nat /\ n > 1 /\ Len(t) = n - 1 /\ s[n].todo = <<>>
  BY DEF Closes
<1>2. n \in 1..n /\ \A i \in 1..n - 1 : i \in 1..n /\ (i \in 1..n - 2 \/ i = n - 1)
  BY <1>1
<1>3. Called(s, n) = {} /\ Ahead(f, <<>>) = {}
  <2>1. {n + 1} \cap (1..n) = {}
    BY <1>1
  <2>2. Called(s, n) = {}
    <3> HIDE DEF n
    <3>1. Len(s) = n
      BY DEF n
    <3> QED
      BY <2>1, <3>1 DEF Called
  <2>3. Imports!ImportsOf(<<>>) = {}
    BY DEF Imports!ImportsOf
  <2> QED
    BY <2>2, <2>3 DEF Ahead
<1>4. Imports!Imported[f] \subseteq S
  BY <1>1, <1>2, <1>3 DEF Resolved
<1>5. f \in Imports!Files
  BY <1>2 DEF Routed
<1>6. ClosedUnder(S, Imports!Imported) /\ \A g \in S : g \notin Beyond(g)
  BY DEF Resolved
<1> HIDE DEF f
<1>7. Beyond(f) \subseteq S
  BY <1>4, <1>5, <1>6, BeyondIs
<1>8. \A g \in S2 : g \notin Beyond(g)
  BY <1>6, <1>7
<1>9. ClosedUnder(S2, Imports!Imported)
  BY <1>4, <1>6 DEF ClosedUnder
<1>10. S2 \subseteq vis /\ vis \subseteq S2 \cup (prog \ {f})
  BY DEF Resolved, f
<1>11. ASSUME NEW i \in 1..n - 1
       PROVE  Imports!Imported[t[i].file]
                 \subseteq S2 \cup Ahead(t[i].file, t[i].todo) \cup Called(t, i)
  <2>1. t[i].file = s[i].file /\ t[i].todo = s[i].todo
    BY <1>2 DEF Closes
  <2>2. Imports!Imported[s[i].file]
           \subseteq S \cup Ahead(s[i].file, s[i].todo) \cup Called(s, i)
    BY <1>2 DEF Resolved
  <2>3. Called(s, i) \subseteq Called(t, i) \cup {f}
    <3> SUFFICES ASSUME NEW j \in {i + 1} \cap (1..n)
                 PROVE  s[j].file \in Called(t, i) \cup {f}
      BY DEF Called
    <3>1. CASE j = n
      BY <3>1 DEF f
    <3>2. CASE j # n
      <4>1. j \in 1..n - 1
        BY <1>1, <3>2
      <4>2. t[j].file = s[j].file
        BY <1>2, <4>1 DEF Closes
      <4> QED
        BY <1>1, <4>1, <4>2 DEF Called
    <3> QED
      BY <3>1, <3>2
  <2> QED
    BY <2>1, <2>2, <2>3
<1> HIDE DEF S2
<1>12. Resolved(S2, t, vis, prog \ {f})
  BY <1>1, <1>8, <1>9, <1>10, <1>11 DEF Resolved
<1> QED
  BY <1>12 DEF S2, f, n

LEMMA ResolveKeepsImports ==
    ASSUME NEW T, NEW I, ItemsOfFiles(T, I), Reading(T), Marks(calls, inProgress),
           ImportsOK(calls, visited, inProgress, importDiags), Imports!Resolve
    PROVE  ImportsOK(calls, visited, inProgress, importDiags)'
<1> DEFINE n == Len(calls)
           f == calls[n]
           x == Head(f.todo)
           g == Imports!Target
           OK == ImportsOK(calls', visited', inProgress', importDiags')
<1>1. project' = project
  BY DEF Imports!Resolve, Imports!Keep, Imports!NotFound, Imports!Circular,
     Imports!SkipMerged, Imports!Unreadable, Imports!Unparsable, Imports!Open, Imports!Close
<1>2. /\ calls # <<>> /\ Imports!Top = f /\ n \in Nat \ {0}
      /\ Imports!Keep => Moves(calls, calls', Append(Imports!Top.result, Imports!Item))
      /\ Imports!NotFound \/ Imports!Circular \/ Imports!SkipMerged
           \/ Imports!Unreadable \/ Imports!Unparsable =>
             Moves(calls, calls', Imports!Top.result)
      /\ Imports!Open => Opens(calls, calls', g, Imports!Item.names, Imports!Source.items)
      /\ Imports!Close => Closes(calls, calls')
  BY ResolveShape
<1>3. Imports!Item = x
  BY <1>2 DEF Imports!Item
<1>4. Routed(calls) /\ inProgress \subseteq visited /\ visited \subseteq DOMAIN project.files /\ project \in Projects
  BY DEF ImportsOK, Reading
<1>5. /\ "circular" \in importDiags => Imports!HasCycle
      /\ "circular" \notin importDiags => \E S : Resolved(S, calls, visited, inProgress)
  BY DEF ImportsOK
<1>6. DOMAIN calls = 1..n
  BY LenProperties DEF Reading
<1>7. \A i \in 1..n : calls[i].todo \in Seq(T)
  BY <1>6, ReadingCall
<1>8. inProgress = {calls[i].file : i \in 2..n}
  BY DEF Marks
<1>9. n \in 1..n
  BY <1>2
<1>10. f.file \in Imports!Files
  BY <1>4, <1>9 DEF Routed
<1>11. f.todo # <<>> =>
          /\ f.todo \in Seq(T)
          /\ x \in Items(Imports!ItemsOf(f.file))
          /\ x.op = "import" => Ahead(f.file, f.todo) = Ahead(f.file, Tail(f.todo)) \cup Imports!Means(f.file, x)
          /\ x.op # "import" => Ahead(f.file, f.todo) = Ahead(f.file, Tail(f.todo))
  <2> SUFFICES ASSUME f.todo # <<>>
               PROVE  /\ f.todo \in Seq(T)
                      /\ x \in Items(Imports!ItemsOf(f.file))
                      /\ x.op = "import" => Ahead(f.file, f.todo) = Ahead(f.file, Tail(f.todo)) \cup Imports!Means(f.file, x)
                      /\ x.op # "import" => Ahead(f.file, f.todo) = Ahead(f.file, Tail(f.todo))
    OBVIOUS
  <2>1. f.todo \in Seq(T)
    BY <1>7, <1>9
  <2>2. x \in Items(f.todo)
    BY <2>1, ItemsTail
  <2>3. x \in Items(Imports!ItemsOf(f.file))
    BY <1>4, <1>9, <2>2 DEF Routed
  <2> HIDE DEF f
  <2>4. /\ x.op = "import" => Ahead(f.file, f.todo) = Ahead(f.file, Tail(f.todo)) \cup Imports!Means(f.file, x)
        /\ x.op # "import" => Ahead(f.file, f.todo) = Ahead(f.file, Tail(f.todo))
    BY <2>1, AheadTail
  <2> QED
    BY <2>1, <2>3, <2>4
<1>12. Imports!Imports =>
          /\ f.todo # <<>> /\ x.op = "import"
          /\ Imports!Found = {} => Imports!Means(f.file, x) = {}
          /\ Imports!Found # {} =>
               /\ Imports!Means(f.file, x) = {g} /\ g \in DOMAIN project.files
               /\ g \in Imports!Imported[f.file]
  <2> SUFFICES ASSUME Imports!Imports
               PROVE  /\ f.todo # <<>> /\ x.op = "import"
                      /\ Imports!Found = {} => Imports!Means(f.file, x) = {}
                      /\ Imports!Found # {} =>
                           /\ Imports!Means(f.file, x) = {g} /\ g \in DOMAIN project.files
                           /\ g \in Imports!Imported[f.file]
    OBVIOUS
  <2>1. f.todo # <<>> /\ x.op = "import"
    BY <1>2, <1>3 DEF Imports!Imports, Imports!Reads
  <2>2. x \in Imports!ImportsOf(Imports!ItemsOf(f.file))
    BY <1>11, <2>1, ImportsAre
  <2>3. Imports!Means(f.file, x) \subseteq Imports!Imported[f.file]
    BY <1>10, <2>2, ImportedIs
  <2>4. /\ Imports!Found = {} => Imports!Means(f.file, x) = {}
        /\ Imports!Found # {} => /\ Imports!Means(f.file, x) = {g}
                                 /\ g \in DOMAIN project.files
    BY <1>2, <1>3, TargetMeant
  <2> QED
    BY <2>1, <2>3, <2>4
<1>13. \A file \in DOMAIN project.files :
          Imports!ItemsOf(file) = IF project.files[file].state \in {"clean", "faulty"}
                                  THEN project.files[file].items ELSE <<>>
  BY <1>4, ProjectsAssumption DEF Imports!ItemsOf
<1> SUFFICES OK
  BY <1>1, ImportsStay
<1> HIDE DEF n, f, x, g
\* the innermost call reads an item, and what it imports is resolved
<1>14. ASSUME NEW r, Moves(calls, calls', r), inProgress' = inProgress,
              visited \subseteq visited', visited' \subseteq DOMAIN project.files,
              "circular" \in importDiags' <=> "circular" \in importDiags,
              \A S : Resolved(S, calls, visited, inProgress) =>
                 \E S2 : Resolved(S2, calls', visited', inProgress)
       PROVE  OK
  <2>1. Routed(calls')
    BY <1>4, <1>7, <1>14, MovesRouted DEF n
  <2> QED
    BY <1>5, <1>14, <2>1 DEF ImportsOK
<1>15. ASSUME NEW S, Resolved(S, calls, visited, inProgress), NEW r, Moves(calls, calls', r),
              Ahead(f.file, f.todo) \subseteq S \cup Ahead(f.file, Tail(f.todo))
       PROVE  Resolved(S, calls', visited, inProgress)
  <2>1. /\ S \subseteq visited /\ visited \subseteq S \cup inProgress
        /\ ClosedUnder(S, Imports!Imported) /\ \A h \in S : h \notin Beyond(h)
    BY <1>15 DEF Resolved
  <2> QED
    BY <1>15, <2>1, MovesResolved DEF f, n
<1>16. ASSUME NEW S, Resolved(S, calls, visited, inProgress), NEW r, Moves(calls, calls', r),
              g \in DOMAIN project.files, Imports!ItemsOf(g) = <<>>,
              Ahead(f.file, f.todo) \subseteq {g} \cup Ahead(f.file, Tail(f.todo))
       PROVE  Resolved(S \cup {g}, calls', visited \cup {g}, inProgress)
  <2>1. g \in Imports!Files
    BY <1>16 DEF Imports!Files
  <2>2. Imports!Imported[g] = {}
    <3>1. Imports!ImportsOf(<<>>) = {}
      BY DEF Imports!ImportsOf
    <3> QED
      BY <1>16, <2>1, <3>1, ImportedIs
  <2>3. Beyond(g) \subseteq {}
    <3>1. ClosedUnder({}, Imports!Imported)
      BY DEF ClosedUnder
    <3> QED
      BY <1>4, <2>1, <2>2, <3>1, BeyondIs
  <2>4. /\ S \subseteq visited /\ visited \subseteq S \cup inProgress
        /\ ClosedUnder(S, Imports!Imported) /\ \A h \in S : h \notin Beyond(h)
    BY <1>16 DEF Resolved
  <2> DEFINE S2 == S \cup {g}
             vis2 == visited \cup {g}
  <2>5. /\ S \subseteq S2 /\ S2 \subseteq vis2 /\ vis2 \subseteq S2 \cup inProgress
        /\ ClosedUnder(S2, Imports!Imported) /\ \A h \in S2 : h \notin Beyond(h)
        /\ Ahead(f.file, f.todo) \subseteq S2 \cup Ahead(f.file, Tail(f.todo))
    BY <1>16, <2>2, <2>3, <2>4 DEF ClosedUnder
  <2> HIDE DEF S2, vis2
  <2>6. Resolved(S2, calls', vis2, inProgress)
    BY <1>16, <2>5, MovesResolved DEF f, n
  <2> QED
    BY <2>6 DEF S2, vis2
<1>17. CASE Imports!Keep
  <2>1. /\ Moves(calls, calls', Append(Imports!Top.result, Imports!Item))
        /\ visited' = visited /\ inProgress' = inProgress /\ importDiags' = importDiags
    BY <1>2, <1>17 DEF Imports!Keep
  <2>2. Ahead(f.file, f.todo) = Ahead(f.file, Tail(f.todo))
    BY <1>2, <1>3, <1>11, <1>17 DEF Imports!Keep, Imports!Reads
  <2> QED
    BY <1>4, <1>14, <1>15, <2>1, <2>2
<1>18. CASE Imports!NotFound
  <2>1. /\ Moves(calls, calls', Imports!Top.result)
        /\ visited' = visited /\ inProgress' = inProgress
        /\ importDiags' = importDiags \cup {"missing"}
    BY <1>2, <1>18 DEF Imports!NotFound, Imports!Report
  <2>2. Ahead(f.file, f.todo) = Ahead(f.file, Tail(f.todo))
    BY <1>11, <1>12, <1>18 DEF Imports!NotFound
  <2> QED
    BY <1>4, <1>14, <1>15, <2>1, <2>2
<1>19. CASE Imports!Circular
  <2>1. /\ Moves(calls, calls', Imports!Top.result)
        /\ visited' = visited /\ inProgress' = inProgress
        /\ importDiags' = importDiags \cup {"circular"} /\ g \in inProgress
    BY <1>2, <1>19 DEF Imports!Circular, Imports!Report, Imports!IsCircular, g
  <2>2. g \in Imports!Imported[f.file]
    BY <1>12, <1>19 DEF Imports!Circular
  <2>3. PICK i \in 2..n : g = calls[i].file
    BY <1>8, <2>1
  <2>4. Imports!HasCycle
    <3>1. i \in 1..Len(calls)
      BY <1>2, <2>3 DEF n
    <3> QED
      BY <1>4, <2>2, <2>3, <3>1, CircleFound DEF f, n
  <2>5. Routed(calls')
    BY <1>4, <1>7, <2>1, MovesRouted DEF n
  <2> QED
    BY <1>4, <2>1, <2>4, <2>5 DEF ImportsOK
<1>20. CASE Imports!SkipMerged
  <2>1. /\ Moves(calls, calls', Imports!Top.result)
        /\ visited' = visited /\ inProgress' = inProgress /\ importDiags' = importDiags
        /\ g \in visited /\ g \notin inProgress
    BY <1>2, <1>20 DEF Imports!SkipMerged, Imports!IsCircular, Imports!IsMerged, g
  <2>2. Ahead(f.file, f.todo) \subseteq {g} \cup Ahead(f.file, Tail(f.todo))
    BY <1>11, <1>12, <1>20 DEF Imports!SkipMerged
  <2>3. \A S : Resolved(S, calls, visited, inProgress) => g \in S
    BY <2>1 DEF Resolved
  <2>4. \A S : Resolved(S, calls, visited, inProgress) =>
                  Ahead(f.file, f.todo) \subseteq S \cup Ahead(f.file, Tail(f.todo))
    BY <2>2, <2>3
  <2>5. \A S : Resolved(S, calls, visited, inProgress) => Resolved(S, calls', visited', inProgress)
    BY <1>15, <2>1, <2>4
  <2> QED
    BY <1>4, <1>14, <2>1, <2>5
<1>21. CASE Imports!Unreadable \/ Imports!Unparsable
  <2>1. /\ Moves(calls, calls', Imports!Top.result)
        /\ visited' = visited \cup {g} /\ inProgress' = inProgress
        /\ "circular" \in importDiags' <=> "circular" \in importDiags
    <3>1. CASE Imports!Unreadable
      BY <1>2, <3>1 DEF Imports!Unreadable, Imports!Report, g
    <3>2. CASE Imports!Unparsable
      BY <1>2, <3>2 DEF Imports!Unparsable, g
    <3> QED
      BY <1>21, <3>1, <3>2
  <2>2. /\ Imports!Imports /\ Imports!Found # {}
        /\ project.files[g].state \in {"unreadable", "unparsable"}
    BY <1>21 DEF Imports!Unreadable, Imports!Unparsable, Imports!Visits, Imports!Source, g
  <2>3. g \in DOMAIN project.files /\ Imports!ItemsOf(g) = <<>>
    BY <1>12, <1>13, <2>2
  <2>4. Ahead(f.file, f.todo) \subseteq {g} \cup Ahead(f.file, Tail(f.todo))
    BY <1>11, <1>12, <2>2
  <2>5. \A S : Resolved(S, calls, visited, inProgress) =>
                  Resolved(S \cup {g}, calls', visited', inProgress)
    BY <1>16, <2>1, <2>3, <2>4
  <2> QED
    BY <1>4, <1>14, <2>1, <2>3, <2>5
<1>22. CASE Imports!Open
  <2> DEFINE items == project.files[g].items
             names == x.names
  <2>1. /\ Opens(calls, calls', g, names, items)
        /\ visited' = visited \cup {g} /\ inProgress' = inProgress \cup {g}
        /\ "circular" \in importDiags' <=> "circular" \in importDiags
    BY <1>2, <1>3, <1>22 DEF Imports!Open, Imports!Source, g
  <2>2. /\ Imports!Imports /\ Imports!Found # {}
        /\ project.files[g].state \in {"clean", "faulty"}
    BY <1>22 DEF Imports!Open, Imports!Visits, Imports!Source, g
  <2>3. g \in DOMAIN project.files /\ Imports!ItemsOf(g) = items
    BY <1>12, <1>13, <2>2
  <2>4. x.op = "import" /\ g \in Imports!Means(f.file, x)
        /\ Ahead(f.file, f.todo) \subseteq {g} \cup Ahead(f.file, Tail(f.todo))
    BY <1>11, <1>12, <2>2
  <2>5. Imports!Imported[g] \subseteq Ahead(g, items)
    <3>1. g \in Imports!Files
      BY <2>3 DEF Imports!Files
    <3> QED
      BY <2>3, <3>1, ImportedIs DEF Ahead
  <2>6. Routed(calls')
    <3> DEFINE file == g
    <3>1. /\ Opens(calls, calls', file, names, items) /\ \A i \in 1..Len(calls) : calls[i].todo \in Seq(T)
          /\ Head(calls[Len(calls)].todo).op = "import"
          /\ names = Head(calls[Len(calls)].todo).names
          /\ file \in Imports!Means(calls[Len(calls)].file, Head(calls[Len(calls)].todo))
          /\ Items(items) \subseteq Items(Imports!ItemsOf(file))
      BY <1>7, <2>1, <2>3, <2>4 DEF n, f, x
    <3> HIDE DEF file, names, items
    <3> QED
      BY <1>4, <3>1, OpensRouted
  <2>7. \A S : Resolved(S, calls, visited, inProgress) =>
                  Resolved(S, calls', visited', inProgress')
    BY <1>7, <1>9, <2>1, <2>4, <2>5, OpensResolved DEF n, f
  <2> QED
    BY <1>4, <1>5, <2>1, <2>3, <2>6, <2>7 DEF ImportsOK
<1>23. CASE Imports!Close
  <2>1. /\ Closes(calls, calls') /\ visited' = visited /\ inProgress' = inProgress \ {f.file}
        /\ "circular" \in importDiags' <=> "circular" \in importDiags
    BY <1>2, <1>23 DEF Imports!Close, Imports!Closed
  <2>2. f.file \in inProgress /\ inProgress \subseteq visited
    <3>1. n \in 2..n
      BY <1>2, <2>1 DEF Closes, n
    <3> QED
      BY <1>4, <1>8, <3>1 DEF f
  <2>3. Routed(calls')
    BY <1>4, <2>1, ClosesRouted
  <2>4. \A S : Resolved(S, calls, visited, inProgress) =>
                  Resolved(S \cup {f.file}, calls', visited', inProgress')
    BY <1>4, <2>1, <2>2, ClosesResolved DEF n, f
  <2> QED
    BY <1>4, <1>5, <2>1, <2>3, <2>4 DEF ImportsOK
<1> QED
  BY <1>17, <1>18, <1>19, <1>20, <1>21, <1>22, <1>23 DEF Imports!Resolve

\* The invariant of the resolution, for sources whose items are in T.
CInv(T) ==
    /\ IInv /\ Reading(T)
    /\ ImportsOK(calls, visited, inProgress, importDiags)

LEMMA InitImports ==
    ASSUME NEW T, NEW I, ItemsOfFiles(T, I), Init
    PROVE  CInv(T)
<1> DEFINE f == Imports!Frame(<<>>, {}, project.root)
<1>1. /\ calls = <<f>> /\ visited = {} /\ inProgress = {} /\ importDiags = {}
      /\ project \in Projects
  BY DEF Init, Imports!Init
<1>2. f.file = <<>> /\ f.todo = project.root
  BY DEF Imports!Frame
<1>3. Reading(T) /\ IInv
  BY InitIsScoped, InitIsExact DEF VInv
<1> HIDE DEF f
<1>4. Len(calls) = 1 /\ calls[1] = f
  BY <1>1
<1>5. Imports!ItemsOf(<<>>) = project.root /\ <<>> \in Imports!Files
  BY DEF Imports!ItemsOf, Imports!Files
<1>6. Routed(calls)
  <2>1. \A i \in 1..1 : i = 1
    OBVIOUS
  <2>2. 1..1 - 1 = {} /\ 1 \in Nat \ {0}
    OBVIOUS
  <2> QED
    BY <1>2, <1>4, <1>5, <2>1, <2>2 DEF Routed
<1>7. Resolved({}, calls, visited, inProgress)
  <2>1. Imports!Imported[<<>>] \subseteq Ahead(<<>>, project.root)
    BY <1>5, ImportedIs DEF Ahead
  <2>2. \A i \in 1..1 : i = 1
    OBVIOUS
  <2>3. \A i \in 1..1 : Imports!Imported[calls[i].file] \subseteq Ahead(calls[i].file, calls[i].todo)
    BY <1>2, <1>4, <2>1, <2>2
  <2> QED
    BY <1>1, <1>4, <2>3 DEF Resolved, ClosedUnder
<1> QED
  BY <1>1, <1>3, <1>6, <1>7 DEF CInv, ImportsOK

LEMMA StepsKeepImports ==
    ASSUME NEW T, NEW I, ItemsOfFiles(T, I), CInv(T), [Next]_vars
    PROVE  CInv(T)'
<1>1. IInv'
  BY StepsStayExact DEF CInv
<1>2. /\ Reading(T) /\ Marks(calls, inProgress)
      /\ ImportsOK(calls, visited, inProgress, importDiags)
  BY DEF CInv, IInv
<1>3. ASSUME UNCHANGED importVars
      PROVE  Reading(T)' /\ ImportsOK(calls, visited, inProgress, importDiags)'
  <2>1. /\ project' = project /\ calls' = calls /\ visited' = visited
        /\ inProgress' = inProgress /\ importDiags' = importDiags
    BY <1>3 DEF importVars
  <2>2. ImportsOK(calls', visited', inProgress', importDiags')
    BY <1>2, <2>1
  <2> QED
    BY <1>2, <2>1, <2>2, ImportsStay DEF Reading
<1>4. CASE ResolveImports
  BY <1>1, <1>2, <1>4, ResolveKeepsReading, ResolveKeepsImports DEF ResolveImports, CInv
<1>5. CASE RefuseImports \/ StartLowering \/ Lower \/ Return \/ UNCHANGED vars
  BY <1>1, <1>3, <1>5 DEF RefuseImports, StartLowering, Lower, Return, vars, CInv
<1> QED
  BY <1>4, <1>5 DEF Next

\* A cycle of imports is reported exactly when the files that a program reaches have one,
\* whatever plain and named imports make it up and however far they are apart: skipping
\* the files that were merged already loses no cycle, and no diamond is taken for one.
THEOREM CyclesStayReported ==
    ASSUME NEW T, NEW I, ItemsOfFiles(T, I)
    PROVE  Spec => []CyclesReported
<1>1. Init => CInv(T)
  BY InitImports
<1>2. CInv(T) /\ [Next]_vars => CInv(T)'
  BY StepsKeepImports
<1>3. CInv(T) => CyclesReported
  <2> SUFFICES ASSUME CInv(T), Imports!Finished
               PROVE  "circular" \in importDiags <=> Imports!HasCycle
    BY DEF CyclesReported, Imports!CyclesReported
  <2>1. ImportsOK(calls, visited, inProgress, importDiags) /\ project \in Projects
    BY DEF CInv, Reading
  <2>2. ASSUME "circular" \notin importDiags, Imports!HasCycle
        PROVE  FALSE
    <3>1. PICK S : Resolved(S, calls, visited, inProgress)
      BY <2>1, <2>2 DEF ImportsOK
    <3>2. Len(calls) = 1 /\ Imports!Top.todo = <<>> /\ Routed(calls)
      BY <2>1 DEF Imports!Finished, ImportsOK
    <3>3. Imports!Top = calls[1] /\ calls[1].file = <<>>
      BY <3>2, SameStacks DEF Imports!Top, Last, Routed
    <3>4. Called(calls, 1) = {} /\ Ahead(<<>>, <<>>) = {}
      <4>1. {1 + 1} \cap (1..1) = {}
        OBVIOUS
      <4>2. Imports!ImportsOf(<<>>) = {}
        BY DEF Imports!ImportsOf
      <4> QED
        BY <3>2, <4>1, <4>2 DEF Called, Ahead
    <3>5. Imports!Imported[<<>>] \subseteq S
      <4>1. 1 \in 1..1
        OBVIOUS
      <4> QED
        BY <3>1, <3>2, <3>3, <3>4, <4>1 DEF Resolved
    <3>6. /\ ClosedUnder(S, Imports!Imported) /\ \A f \in S : f \notin Beyond(f)
          /\ S \subseteq DOMAIN project.files
      BY <2>1, <3>1 DEF Resolved, ImportsOK
    <3>7. ClosedUnder({<<>>} \cup S, Imports!Imported)
      BY <3>5, <3>6 DEF ClosedUnder
    <3>8. Start \subseteq {<<>>} \cup S
      <4>1. <<>> \in {<<>>} \cup S
        OBVIOUS
      <4> QED
        BY <2>1, <3>7, <4>1, BeyondIs
    <3>9. <<>> \in Imports!Files
      BY DEF Imports!Files
    <3>10. Beyond(<<>>) \subseteq S
      BY <2>1, <3>5, <3>6, <3>9, BeyondIs
    <3>11. <<>> \notin S
      BY <2>1, <3>6, ProjectsAssumption
    <3>12. PICK f \in Start : f \in Beyond(f)
      BY <2>2 DEF Imports!HasCycle, Start, Beyond
    <3> QED
      BY <3>6, <3>8, <3>10, <3>11, <3>12
  <2> QED
    BY <2>1, <2>2 DEF ImportsOK
<1> QED
  BY <1>1, <1>2, <1>3, PTL DEF Spec
-----------------------------------------------------------------------------
\* The places of a join: each is one place of one piece, and stands for it alone.

Placed(flat, seqs, m, a, b) ==
    /\ \A p \in DOMAIN flat :
          a[p] \in 1..m /\ b[p] \in DOMAIN seqs[a[p]] /\ flat[p] = seqs[a[p]][b[p]]
    /\ \A p, q \in DOMAIN flat : a[p] = a[q] /\ b[p] = b[q] => p = q
    /\ \A i \in 1..m : \A k \in DOMAIN seqs[i] : \E p \in DOMAIN flat : a[p] = i /\ b[p] = k

LEMMA PlacedNext ==
    ASSUME NEW L, NEW seqs \in Seq(Seq(L)), NEW m \in Nat \ {0}, m <= Len(seqs),
           NEW flat \in Seq(L), NEW a, NEW b, Placed(flat, seqs, m - 1, a, b)
    PROVE  \E c, d : Placed(flat \o seqs[m], seqs, m, c, d)
<1> DEFINE s == seqs[m]
           n == Len(flat)
           k == Len(s)
           w == flat \o s
           c == [p \in 1..n + k |-> IF p <= n THEN a[p] ELSE m]
           d == [p \in 1..n + k |-> IF p <= n THEN b[p] ELSE p - n]
<1>1. s \in Seq(L) /\ n \in Nat /\ k \in Nat /\ DOMAIN flat = 1..n /\ DOMAIN s = 1..k
  <2>1. m \in 1..Len(seqs)
    BY LenProperties
  <2> QED
    BY <2>1, ElementOfSeq, LenProperties
<1>2. w \in Seq(L) /\ Len(w) = n + k /\ \A p \in 1..n + k : w[p] = IF p <= n THEN flat[p] ELSE s[p - n]
  BY <1>1, ConcatProperties
<1>3. DOMAIN w = 1..n + k
  BY <1>2, LenProperties
<1>4. \A p \in 1..n + k : c[p] = (IF p <= n THEN a[p] ELSE m) /\ d[p] = IF p <= n THEN b[p] ELSE p - n
  OBVIOUS
<1>5. /\ \A p \in 1..n : a[p] \in 1..m - 1 /\ b[p] \in DOMAIN seqs[a[p]] /\ flat[p] = seqs[a[p]][b[p]]
      /\ \A p, q \in 1..n : a[p] = a[q] /\ b[p] = b[q] => p = q
      /\ \A i \in 1..m - 1 : \A h \in DOMAIN seqs[i] : \E p \in 1..n : a[p] = i /\ b[p] = h
  <2> HIDE DEF s, n, k, w, c, d
  <2>1. DOMAIN flat = 1..n
    BY <1>1
  <2>2. \A p \in DOMAIN flat :
          a[p] \in 1..m - 1 /\ b[p] \in DOMAIN seqs[a[p]] /\ flat[p] = seqs[a[p]][b[p]]
    BY DEF Placed
  <2>3. \A p, q \in DOMAIN flat : a[p] = a[q] /\ b[p] = b[q] => p = q
    BY DEF Placed
  <2>4. \A i \in 1..m - 1 : \A h \in DOMAIN seqs[i] : \E p \in DOMAIN flat : a[p] = i /\ b[p] = h
    BY DEF Placed
  <2>5. \A p \in 1..n : a[p] \in 1..m - 1 /\ b[p] \in DOMAIN seqs[a[p]] /\ flat[p] = seqs[a[p]][b[p]]
    BY <2>1, <2>2
  <2>6. \A p, q \in 1..n : a[p] = a[q] /\ b[p] = b[q] => p = q
    BY <2>1, <2>3
  <2>7. \A i \in 1..m - 1 : \A h \in DOMAIN seqs[i] : \E p \in 1..n : a[p] = i /\ b[p] = h
    <3> SUFFICES ASSUME NEW i \in 1..m - 1, NEW h \in DOMAIN seqs[i]
                 PROVE  \E p \in 1..n : a[p] = i /\ b[p] = h
      OBVIOUS
    <3>1. PICK p \in DOMAIN flat : a[p] = i /\ b[p] = h
      BY <2>4
    <3>2. p \in 1..n
      BY <2>1
    <3> QED
      BY <3>1, <3>2
  <2> QED
    BY <2>5, <2>6, <2>7
<1>6. s = seqs[m]
  OBVIOUS
<1> HIDE DEF s, n, k, w, c, d
<1>7. /\ \A p \in 1..n + k : (p \in 1..n /\ p <= n) \/ (p - n \in 1..k /\ ~ p <= n)
      /\ \A p \in 1..n : p \in 1..n + k /\ p <= n
      /\ \A h \in 1..k : h + n \in 1..n + k /\ ~ h + n <= n /\ (h + n) - n = h
      /\ \A p, q \in 1..n + k : p - n = q - n => p = q
      /\ \A i \in 1..m : i \in 1..m - 1 \/ i = m
      /\ \A i \in 1..m - 1 : i \in 1..m /\ i # m
      /\ m \in 1..m
  BY <1>1
<1>8. ASSUME NEW p \in 1..n + k
      PROVE  c[p] \in 1..m /\ d[p] \in DOMAIN seqs[c[p]] /\ w[p] = seqs[c[p]][d[p]]
  <2>1. CASE p <= n
    <3>1. p \in 1..n /\ c[p] = a[p] /\ d[p] = b[p] /\ w[p] = flat[p]
      BY <1>2, <1>4, <1>7, <2>1
    <3> QED
      BY <1>5, <1>7, <3>1
  <2>2. CASE ~ p <= n
    <3>1. p - n \in 1..k /\ c[p] = m /\ d[p] = p - n /\ w[p] = s[p - n]
      BY <1>2, <1>4, <1>7, <2>2
    <3> QED
      BY <1>1, <1>6, <1>7, <3>1
  <2> QED
    BY <2>1, <2>2
<1>9. ASSUME NEW p \in 1..n + k, NEW q \in 1..n + k, c[p] = c[q], d[p] = d[q]
      PROVE  p = q
  <2>1. CASE p <= n /\ q <= n
    BY <1>4, <1>5, <1>7, <1>9, <2>1
  <2>2. CASE ~ p <= n /\ ~ q <= n
    BY <1>4, <1>7, <1>9, <2>2
  <2>3. CASE p <= n /\ ~ q <= n
    <3>1. c[p] \in 1..m - 1 /\ c[q] = m
      BY <1>4, <1>5, <1>7, <2>3
    <3> QED
      BY <1>7, <1>9, <3>1
  <2>4. CASE ~ p <= n /\ q <= n
    <3>1. c[q] \in 1..m - 1 /\ c[p] = m
      BY <1>4, <1>5, <1>7, <2>4
    <3> QED
      BY <1>7, <1>9, <3>1
  <2> QED
    BY <2>1, <2>2, <2>3, <2>4
<1>10. ASSUME NEW i \in 1..m, NEW h \in DOMAIN seqs[i]
       PROVE  \E p \in 1..n + k : c[p] = i /\ d[p] = h
  <2>1. CASE i = m
    <3>1. h \in 1..k
      BY <1>1, <1>6, <2>1
    <3>2. c[h + n] = m /\ d[h + n] = h /\ h + n \in 1..n + k
      BY <1>4, <1>7, <3>1
    <3> QED
      BY <2>1, <3>2
  <2>2. CASE i # m
    <3>1. i \in 1..m - 1
      BY <1>7, <2>2
    <3>2. PICK p \in 1..n : a[p] = i /\ b[p] = h
      BY <1>5, <3>1
    <3>3. p \in 1..n + k /\ c[p] = a[p] /\ d[p] = b[p]
      BY <1>4, <1>7
    <3> QED
      BY <3>2, <3>3
  <2> QED
    BY <2>1, <2>2
<1>11. Placed(w, seqs, m, c, d)
  <2>1. \A p \in DOMAIN w : c[p] \in 1..m /\ d[p] \in DOMAIN seqs[c[p]] /\ w[p] = seqs[c[p]][d[p]]
    BY <1>3, <1>8
  <2>2. \A p, q \in DOMAIN w : c[p] = c[q] /\ d[p] = d[q] => p = q
    BY <1>3, <1>9
  <2>3. \A i \in 1..m : \A h \in DOMAIN seqs[i] : \E p \in DOMAIN w : c[p] = i /\ d[p] = h
    <3> SUFFICES ASSUME NEW i \in 1..m, NEW h \in DOMAIN seqs[i]
                 PROVE  \E p \in DOMAIN w : c[p] = i /\ d[p] = h
      OBVIOUS
    <3>1. PICK p \in 1..n + k : c[p] = i /\ d[p] = h
      BY <1>10
    <3>2. p \in DOMAIN w
      BY <1>3
    <3> QED
      BY <3>1, <3>2
  <2> QED
    BY <2>1, <2>2, <2>3 DEF Placed
<1> QED
  BY <1>11 DEF w, s

LEMMA FlattenPlaces ==
    ASSUME NEW L, NEW seqs \in Seq(Seq(L))
    PROVE  \E a, b : Placed(FlattenSeq(seqs), seqs, Len(seqs), a, b)
<1> DEFINE n == Len(seqs)
<1>1. CASE seqs = <<>>
  <2>1. FlattenSeq(seqs) = <<>>
    BY <1>1 DEF FlattenSeq
  <2>2. DOMAIN <<>> = {} /\ 1..0 = {} /\ Len(<<>>) = 0
    OBVIOUS
  <2> QED
    BY <1>1, <2>1, <2>2 DEF Placed
<1>2. CASE seqs # <<>>
  <2>1. PICK join : FlattenSeq(seqs) = join[n] /\ Glues(join, seqs, n)
    BY <1>2, FlattenIs
  <2>2. n \in Nat \ {0} /\ \A i \in 1..n : seqs[i] \in Seq(L)
    BY <1>2, EmptySeq, LenProperties, ElementOfSeq
  <2>3. \A i \in 1..n : join[i] = IF i = 1 THEN seqs[i] ELSE join[i - 1] \o seqs[i]
    BY <2>1 DEF Glues
  <2> DEFINE Good(i) == join[i] \in Seq(L) /\ \E a, b : Placed(join[i], seqs, i, a, b)
             Bad == {i \in 1..n : ~ Good(i)}
  <2>4. Bad = {}
    <3> SUFFICES ASSUME Bad # {} PROVE FALSE
      OBVIOUS
    <3>1. Bad \in SUBSET Nat
      OBVIOUS
    <3>2. PICK i \in Bad : \A j \in Bad : i <= j
      <4> HIDE DEF Bad
      <4> QED
        BY <3>1, LeastIndex
    <3>3. i \in 1..n /\ ~ Good(i)
      BY <3>2
    <3>4. CASE i = 1
      <4>1. join[1] = seqs[1] /\ seqs[1] \in Seq(L)
        BY <2>2, <2>3, <3>3, <3>4
      <4>2. <<>> \in Seq(L) /\ <<>> \o seqs[1] = seqs[1]
        <5>1. <<>> \in Seq(L)
          BY EmptySeq
        <5>2. /\ <<>> \o seqs[1] \in Seq(L) /\ Len(<<>> \o seqs[1]) = 0 + Len(seqs[1])
              /\ \A p \in 1..Len(<<>>) + Len(seqs[1]) : (<<>> \o seqs[1])[p] =
                    IF p <= Len(<<>>) THEN <<>>[p] ELSE seqs[1][p - Len(<<>>)]
          BY <4>1, <5>1, ConcatProperties
        <5>3. Len(seqs[1]) \in Nat /\ Len(<<>>) = 0
          BY <4>1, LenProperties
        <5>4. \A p \in 1..Len(seqs[1]) : (<<>> \o seqs[1])[p] = seqs[1][p]
          BY <5>2, <5>3
        <5> QED
          BY <4>1, <5>1, <5>2, <5>3, <5>4, SeqEqual
      <4>3. Placed(<<>>, seqs, 1 - 1, <<>>, <<>>)
        <5>1. DOMAIN <<>> = {} /\ 1..(1 - 1) = {}
          OBVIOUS
        <5> QED
          BY <5>1 DEF Placed
      <4>4. 1 \in Nat \ {0} /\ 1 <= Len(seqs)
        BY <2>2
      <4>5. \E a, b : Placed(<<>> \o seqs[1], seqs, 1, a, b)
        BY <4>2, <4>3, <4>4, PlacedNext
      <4> QED
        BY <3>3, <3>4, <4>1, <4>2, <4>5
    <3>5. CASE i # 1
      <4>1. i - 1 \in 1..n /\ ~ i <= i - 1 /\ i \in Nat \ {0} /\ i <= Len(seqs)
        BY <2>2, <3>3, <3>5
      <4>2. Good(i - 1)
        BY <3>2, <4>1
      <4>3. PICK a, b : Placed(join[i - 1], seqs, i - 1, a, b)
        BY <4>2
      <4>4. join[i] = join[i - 1] \o seqs[i] /\ seqs[i] \in Seq(L) /\ join[i - 1] \in Seq(L)
        BY <2>2, <2>3, <3>3, <3>5, <4>2
      <4>5. \E c, d : Placed(join[i - 1] \o seqs[i], seqs, i, c, d)
        <5> HIDE DEF Bad
        <5> QED
          BY <4>1, <4>3, <4>4, PlacedNext
      <4>6. join[i] \in Seq(L)
        BY <4>4, ConcatProperties
      <4> QED
        BY <3>3, <4>4, <4>5, <4>6
    <3> QED
      BY <3>4, <3>5
  <2>5. Good(n)
    <3>1. n \in 1..n
      BY <2>2
    <3> QED
      BY <2>4, <3>1
  <2> QED
    BY <2>1, <2>5
<1> QED
  BY <1>1, <1>2
-----------------------------------------------------------------------------
\* What is merged.

Exports(items) == {x \in items : x.op = "export"}
Declares(items) == {x \in items : x.op = "declare"}

\* What the calls for a file have still to read, and what those for the files that are
\* merged as a whole have declared.
Unread(s, f) == UNION {Items(s[i].todo) : i \in {k \in 1..Len(s) : s[k].file = f}}
Whole(s) == {i \in 1..Len(s) : s[i].file \in Imports!Merging}
Got(s) == UNION {Declares(Items(s[i].result)) : i \in Whole(s)}

\* The file that import j of file f asks for exports is being read.
Awaited(s, f, j) ==
    \E i \in 1..Len(s) - 1 :
        s[i].file = f /\ s[i + 1].names = j.names /\ s[i + 1].file \in Imports!Means(f, j)

\* No export is lost and no declaration read twice.
ReadOK(s) ==
    \A i \in 1..Len(s) :
        /\ Exports(Items(s[i].result) \cup Items(s[i].todo)) = Exports(Items(Imports!ItemsOf(s[i].file)))
        /\ \A p, q \in DOMAIN s[i].todo :
              s[i].todo[p].op = "declare" /\ s[i].todo[p] = s[i].todo[q] => p = q

Bares == UNION {Imports!Bare(f) : f \in Imports!Merging}
Wanted == UNION {Imports!Declared(f) : f \in Imports!Merging}

\* What a file that is merged declares and imports has been read, or is about to be.
Covered(s, vis, f) ==
    /\ Imports!Bare(f) \subseteq Got(s) \cup Unread(s, f)
    /\ \A j \in Imports!ImportsOf(Imports!ItemsOf(f)) :
          \/ j \in Unread(s, f)
          \/ j.names = {} /\ Imports!Means(f, j) \subseteq vis
          \/ j.names # {} /\ Imports!Asked(f, j) \subseteq Got(s)
          \/ j.names # {} /\ Awaited(s, f, j)

\* What has been read is not ahead any more.
Fresh(s, vis) ==
    \A f \in Imports!Merging : \A x \in Imports!Bare(f) :
        x \in Got(s) => f \in {<<>>} \cup vis /\ x \notin Unread(s, f)

\* A bare declaration is in one place.
Once(s) ==
    \A i, j \in Whole(s) : \A p \in DOMAIN s[i].result, q \in DOMAIN s[j].result :
        s[i].result[p] = s[j].result[q] /\ s[i].result[p] \in Bares => i = j /\ p = q

MergeOK(s, vis) ==
    /\ ReadOK(s)
    /\ Got(s) \subseteq Wanted
    /\ \A f \in Imports!Merging : f \in {<<>>} \cup vis => Covered(s, vis, f)
    /\ Fresh(s, vis)
    /\ Once(s)

LEMMA MergeStays ==
    ASSUME project' = project, MergeOK(calls', visited')
    PROVE  MergeOK(calls, visited)'
<1>1. /\ Imports!Plain' = Imports!Plain /\ Imports!Named' = Imports!Named
      /\ Imports!Imported' = Imports!Imported /\ Imports!Files' = Imports!Files
  BY GraphStays
<1>2. ASSUME NEW from, NEW next
      PROVE  Imports!Reached(from, next)' = Imports!Reached(from, next)
  BY DEF Imports!Reached, Imports!Cardinality
<1>3. Imports!Merging' = Imports!Merging
  BY <1>1, <1>2 DEF Imports!Merging
<1>4. ASSUME NEW f PROVE Imports!ItemsOf(f)' = Imports!ItemsOf(f)
  BY GraphStays
<1>5. ASSUME NEW f, NEW i PROVE Imports!Means(f, i)' = Imports!Means(f, i)
  BY GraphStays
<1>6. ASSUME NEW f PROVE Imports!Bare(f)' = Imports!Bare(f)
  BY <1>4 DEF Imports!Bare, Imports!ToSet
<1>7. ASSUME NEW f, NEW names PROVE Imports!Exported(f, names)' = Imports!Exported(f, names)
  BY <1>4 DEF Imports!Exported, Imports!ToSet
<1>8. ASSUME NEW f, NEW i PROVE Imports!Asked(f, i)' = Imports!Asked(f, i)
  BY <1>5, <1>7 DEF Imports!Asked
<1>9. ASSUME NEW f PROVE Imports!Declared(f)' = Imports!Declared(f)
  BY <1>4, <1>6, <1>8 DEF Imports!Declared, Imports!ImportsOf
<1>10. Bares' = Bares /\ Wanted' = Wanted
  BY <1>3, <1>6, <1>9 DEF Bares, Wanted
<1>11. Got(calls)' = Got(calls')
  BY <1>3 DEF Got, Whole
<1>12. ASSUME NEW f, NEW j PROVE Awaited(calls, f, j)' <=> Awaited(calls', f, j)
  BY <1>5 DEF Awaited
<1>13. ReadOK(calls)'
  BY <1>4 DEF MergeOK, ReadOK, Exports
<1>14. Got(calls)' \subseteq Wanted'
  BY <1>10, <1>11 DEF MergeOK
<1>15. ASSUME NEW f, Covered(calls', visited', f)
       PROVE  Covered(calls, visited, f)'
  <2>1. Imports!Bare(f)' \subseteq Got(calls)' \cup Unread(calls, f)'
    BY <1>6, <1>11, <1>15 DEF Covered, Unread
  <2>2. ASSUME NEW j, j \in Imports!ImportsOf(Imports!ItemsOf(f))'
        PROVE  \/ j \in Unread(calls, f)'
               \/ j.names = {} /\ Imports!Means(f, j)' \subseteq visited'
               \/ j.names # {} /\ Imports!Asked(f, j)' \subseteq Got(calls)'
               \/ j.names # {} /\ Awaited(calls, f, j)'
    <3>1. j \in Imports!ImportsOf(Imports!ItemsOf(f))
      BY <1>4, <2>2 DEF Imports!ImportsOf
    <3>2. \/ j \in Unread(calls', f)
          \/ j.names = {} /\ Imports!Means(f, j) \subseteq visited'
          \/ j.names # {} /\ Imports!Asked(f, j) \subseteq Got(calls')
          \/ j.names # {} /\ Awaited(calls', f, j)
      BY <1>15, <3>1 DEF Covered
    <3>3. Unread(calls, f)' = Unread(calls', f)
      BY DEF Unread
    <3>4. Imports!Means(f, j)' = Imports!Means(f, j) /\ Imports!Asked(f, j)' = Imports!Asked(f, j)
      BY <1>5, <1>8
    <3> QED
      BY <1>11, <1>12, <3>2, <3>3, <3>4
  <2> QED
    BY <2>1, <2>2 DEF Covered
<1>16. \A f \in Imports!Merging' : f \in {<<>>} \cup visited' => Covered(calls, visited, f)'
  BY <1>3, <1>15 DEF MergeOK
<1>17. Fresh(calls, visited)'
  BY <1>3, <1>6, <1>11 DEF MergeOK, Fresh, Unread
<1>18. Once(calls)'
  BY <1>3, <1>10 DEF MergeOK, Once, Whole
<1> QED
  BY <1>13, <1>14, <1>16, <1>17, <1>18 DEF MergeOK

\* Where no file is imported in both ways.
Apart == Imports!Merging \cap Imports!ByName = {}

LEMMA SidesOfFiles ==
    ASSUME project \in Projects
    PROVE  /\ <<>> \in Imports!Merging
           /\ Imports!Merging \subseteq Imports!Files /\ Imports!ByName \subseteq DOMAIN project.files
           /\ \A f \in Imports!Merging :
                 Imports!Plain[f] \subseteq Imports!Merging /\ Imports!Named[f] \subseteq Imports!ByName
           /\ \A f \in Imports!ByName : Imports!Imported[f] \subseteq Imports!ByName
           /\ \A S : <<>> \in S /\ ClosedUnder(S, Imports!Plain) => Imports!Merging \subseteq S
<1>1. \A f \in Imports!Files : /\ Imports!Plain[f] \subseteq DOMAIN project.files
                               /\ Imports!Named[f] \subseteq DOMAIN project.files
                               /\ Imports!Imported[f] \subseteq DOMAIN project.files
  BY ImportedIs
<1> DEFINE M == Imports!Merging
           N == UNION {Imports!Named[f] : f \in M}
<1>2. /\ {<<>>} \subseteq M /\ M \subseteq {<<>>} \cup DOMAIN project.files
      /\ ClosedUnder(M, Imports!Plain)
      /\ \A S : {<<>>} \subseteq S /\ ClosedUnder(S, Imports!Plain) => M \subseteq S
  BY <1>1, ReachedIs DEF Imports!Merging
<1> HIDE DEF M
<1>3. M \subseteq Imports!Files
  BY <1>2 DEF Imports!Files
<1>4. N \subseteq DOMAIN project.files
  BY <1>1, <1>3
<1>5. Imports!ByName = Imports!Reached(N, Imports!Imported)
  BY DEF Imports!ByName, N, M
<1> HIDE DEF N
<1>6. /\ N \subseteq Imports!ByName /\ Imports!ByName \subseteq N \cup DOMAIN project.files
      /\ ClosedUnder(Imports!ByName, Imports!Imported)
  BY <1>1, <1>4, <1>5, ReachedIs
<1>7. \A f \in M : Imports!Named[f] \subseteq N
  BY DEF N
<1>8. /\ <<>> \in M /\ \A f \in M : Imports!Plain[f] \subseteq M
      /\ \A S : <<>> \in S /\ ClosedUnder(S, Imports!Plain) => M \subseteq S
  BY <1>2 DEF ClosedUnder
<1>9. \A f \in Imports!ByName : Imports!Imported[f] \subseteq Imports!ByName
  BY <1>6 DEF ClosedUnder
<1> QED
  BY <1>3, <1>4, <1>6, <1>7, <1>8, <1>9 DEF M

\* A call is for a file that is merged if it was made by a plain import of another such.
LEMMA SidesOfCalls ==
    ASSUME project \in Projects, Apart, NEW s, Routed(s)
    PROVE  /\ \A i \in 1..Len(s) : s[i].file \in Imports!Merging \cup Imports!ByName
           /\ 1 \in Whole(s)
           /\ \A i \in 1..Len(s) - 1 :
                 /\ i + 1 \in Whole(s) => i \in Whole(s) /\ s[i + 1].names = {}
                 /\ i \in Whole(s) /\ s[i + 1].names = {} => i + 1 \in Whole(s)
<1> DEFINE n == Len(s)
           Bad == {i \in 1..n : s[i].file \notin Imports!Merging \cup Imports!ByName}
<1>1. n \in Nat \ {0} /\ s[1].file = <<>> /\ \A i \in 1..n : s[i].file \in Imports!Files
  BY DEF Routed
<1>2. ASSUME NEW i \in 1..n - 1
      PROVE  /\ s[i].file \in Imports!Merging =>
                   /\ s[i + 1].names = {} => s[i + 1].file \in Imports!Merging
                   /\ s[i + 1].names # {} => s[i + 1].file \in Imports!ByName
             /\ s[i].file \in Imports!ByName => s[i + 1].file \in Imports!ByName
  <2>1. PICK import \in Imports!ImportsOf(Imports!ItemsOf(s[i].file)) :
            s[i + 1].names = import.names /\ s[i + 1].file \in Imports!Means(s[i].file, import)
    BY DEF Routed
  <2>2. s[i].file \in Imports!Files
    <3>1. i \in 1..n
      BY <1>1
    <3> QED
      BY <1>1, <3>1
  <2>3. /\ s[i + 1].file \in Imports!Imported[s[i].file]
        /\ s[i + 1].names = {} => s[i + 1].file \in Imports!Plain[s[i].file]
        /\ s[i + 1].names # {} => s[i + 1].file \in Imports!Named[s[i].file]
    BY <2>1, <2>2, ImportedIs
  <2> QED
    BY <2>3, SidesOfFiles
<1>3. Bad = {}
  <2> SUFFICES ASSUME Bad # {} PROVE FALSE
    OBVIOUS
  <2>1. Bad \in SUBSET Nat
    OBVIOUS
  <2>2. PICK i \in Bad : \A j \in Bad : i <= j
    <3> HIDE DEF Bad
    <3> QED
      BY <2>1, LeastIndex
  <2>3. i \in 1..n /\ s[i].file \notin Imports!Merging \cup Imports!ByName
    BY <2>2
  <2>4. i # 1
    BY <1>1, <2>3, SidesOfFiles
  <2>5. i - 1 \in 1..n - 1 /\ i - 1 \in 1..n /\ ~ i <= i - 1 /\ (i - 1) + 1 = i
    BY <1>1, <2>3, <2>4
  <2>6. s[i - 1].file \in Imports!Merging \cup Imports!ByName
    BY <2>2, <2>5
  <2> QED
    BY <1>2, <2>3, <2>5, <2>6
<1>4. 1 \in Whole(s)
  <2>1. 1 \in 1..n /\ s[1].file \in Imports!Merging
    BY <1>1, SidesOfFiles
  <2> QED
    BY <2>1 DEF Whole
<1>5. ASSUME NEW i \in 1..n - 1
      PROVE  /\ i + 1 \in Whole(s) => i \in Whole(s) /\ s[i + 1].names = {}
             /\ i \in Whole(s) /\ s[i + 1].names = {} => i + 1 \in Whole(s)
  <2>1. i \in 1..n /\ i + 1 \in 1..n
    BY <1>1
  <2>2. s[i].file \in Imports!Merging \cup Imports!ByName
    BY <1>3, <2>1
  <2>3. \A j \in 1..n : j \in Whole(s) <=> s[j].file \in Imports!Merging
    BY DEF Whole
  <2>4. s[i + 1].file \in Imports!Merging => s[i + 1].file \notin Imports!ByName
    BY DEF Apart
  <2> QED
    BY <1>2, <2>1, <2>2, <2>3, <2>4
<1> QED
  BY <1>3, <1>4, <1>5

\* What a file declares, and what its exports hold.
LEMMA DeclaredIs ==
    ASSUME NEW f
    PROVE  /\ Imports!Bare(f) = Declares(Items(Imports!ItemsOf(f)))
           /\ Imports!Bare(f) \subseteq Imports!Declared(f)
           /\ \A names : Imports!Exported(f, names) =
                 UNION {Items(e.items) : e \in {x \in Exports(Items(Imports!ItemsOf(f))) : x.name \in names}}
           /\ \A j \in Imports!ImportsOf(Imports!ItemsOf(f)) :
                 j.names # {} => Imports!Asked(f, j) \subseteq Imports!Declared(f)
           /\ \A j : \A g \in Imports!Means(f, j) : Imports!Asked(f, j) = Imports!Exported(g, j.names)
<1>1. \A q : Imports!ToSet(q) = Items(q)
  BY DEF Imports!ToSet, Items
<1>2. Imports!Bare(f) = Declares(Items(Imports!ItemsOf(f)))
  BY <1>1 DEF Imports!Bare, Declares
<1>3. ASSUME NEW names
      PROVE  Imports!Exported(f, names) =
                 UNION {Items(e.items) : e \in {x \in Exports(Items(Imports!ItemsOf(f))) : x.name \in names}}
  <2> DEFINE A == {x \in Imports!ToSet(Imports!ItemsOf(f)) : x.op = "export" /\ x.name \in names}
             B == {x \in Exports(Items(Imports!ItemsOf(f))) : x.name \in names}
  <2>1. A = B
    BY <1>1 DEF Exports
  <2>2. Imports!Exported(f, names) = UNION {Imports!ToSet(e.items) : e \in A}
    BY DEF Imports!Exported
  <2> HIDE DEF A, B
  <2>3. UNION {Imports!ToSet(e.items) : e \in A} = UNION {Items(e.items) : e \in B}
    BY <1>1, <2>1
  <2> QED
    BY <2>2, <2>3 DEF B
<1>4. /\ Imports!Bare(f) \subseteq Imports!Declared(f)
      /\ \A j \in Imports!ImportsOf(Imports!ItemsOf(f)) :
            j.names # {} => Imports!Asked(f, j) \subseteq Imports!Declared(f)
  BY DEF Imports!Declared
<1>5. ASSUME NEW j, NEW g \in Imports!Means(f, j)
      PROVE  Imports!Asked(f, j) = Imports!Exported(g, j.names)
  <2>1. Imports!Means(f, j) = {g}
    BY MeansIs
  <2> QED
    BY <2>1 DEF Imports!Asked
<1> QED
  BY <1>2, <1>3, <1>4, <1>5

\* The items of the files that can be read are written where they are.
LEMMA WrittenInFiles ==
    ASSUME WrittenOnce, project \in Projects, NEW f \in Imports!Files, NEW g \in Imports!Files,
           NEW i \in DOMAIN Imports!ItemsOf(f), NEW j \in DOMAIN Imports!ItemsOf(g)
    PROVE  LET x == Imports!ItemsOf(f)[i]
               y == Imports!ItemsOf(g)[j]
           IN  /\ x.op = "declare" /\ x = y => f = g /\ i = j
               /\ x.op = "export" => \A z \in Items(x.items) : z.op = "declare" /\ z # y
<1> DEFINE p == project
           text == [h \in {<<>>} \cup DOMAIN p.files |-> IF h = <<>> THEN p.root ELSE p.files[h].items]
<1>1. \A h \in Imports!Files : Imports!ItemsOf(h) = text[h] \/ Imports!ItemsOf(h) = <<>>
  BY DEF Imports!Files, Imports!ItemsOf
<1>2. DOMAIN <<>> = {}
  OBVIOUS
<1>3. Imports!ItemsOf(f) = text[f] /\ Imports!ItemsOf(g) = text[g]
  BY <1>1, <1>2
<1>4. f \in DOMAIN text /\ g \in DOMAIN text
  BY DEF Imports!Files
<1>5. \A u, v \in DOMAIN text : \A k \in DOMAIN text[u], m \in DOMAIN text[v] :
         /\ text[u][k].op = "declare" /\ text[u][k] = text[v][m] => u = v /\ k = m
         /\ text[u][k].op = "export" =>
               \A x \in ToSet(text[u][k].items) : x.op = "declare" /\ x # text[v][m]
  BY DEF WrittenOnce
<1> HIDE DEF text
<1>6. \A q : ToSet(q) = Items(q)
  BY DEF ToSet, Items
<1> QED
  BY <1>3, <1>4, <1>5, <1>6

\* What a call returns: all but the exports, each from a place of its own, or the contents
\* of the exports that were asked for.
LEMMA ExtractedItems ==
    ASSUME NEW T, \A t \in T : t.op = "export" => t.items \in Seq(T),
           NEW f, f.result \in Seq(T)
    PROVE  LET E == Imports!Extracted(f)
               R == f.result
           IN  /\ E \in Seq(T)
               /\ f.names = {} =>
                     /\ Items(E) = {x \in Items(R) : x.op # "export"}
                     /\ \E a : /\ \A p \in DOMAIN E : a[p] \in DOMAIN R /\ E[p] = R[a[p]]
                               /\ \A p, q \in DOMAIN E : a[p] = a[q] => p = q
               /\ f.names # {} =>
                     Items(E) = UNION {Items(e.items) : e \in {x \in Exports(Items(R)) : x.name \in f.names}}
<1> DEFINE R == f.result
           N == f.names
           n == Len(R)
           seqs == [i \in DOMAIN R |-> Imports!Part(N, R[i])]
           E == Imports!Extracted(f)
<1>1. E = FlattenSeq(seqs)
  BY SameFlattening DEF Imports!Extracted
<1>2. n \in Nat /\ DOMAIN R = 1..n /\ \A i \in 1..n : R[i] \in T
  BY LenProperties, ElementOfSeq
<1>3. \A i \in 1..n : Imports!Part(N, R[i]) =
         IF N = {} THEN IF R[i].op = "export" THEN <<>> ELSE <<R[i]>>
         ELSE IF R[i].op = "export" /\ R[i].name \in N THEN R[i].items ELSE <<>>
  BY DEF Imports!Part
<1>4. \A t \in T : <<t>> \in Seq(T) /\ DOMAIN <<t>> = {1} /\ <<t>>[1] = t
  OBVIOUS
<1>5. <<>> \in Seq(T) /\ DOMAIN <<>> = {}
  BY EmptySeq
<1> HIDE DEF n
<1>6. \A i \in 1..n : seqs[i] = Imports!Part(N, R[i]) /\ seqs[i] \in Seq(T)
  <2> SUFFICES ASSUME NEW i \in 1..n PROVE seqs[i] = Imports!Part(N, R[i]) /\ seqs[i] \in Seq(T)
    OBVIOUS
  <2>1. seqs[i] = Imports!Part(N, R[i])
    BY <1>2
  <2>2. R[i] \in T
    BY <1>2
  <2> HIDE DEF seqs, R, N
  <2>3. <<R[i]>> \in Seq(T) /\ <<>> \in Seq(T) /\ (R[i].op = "export" => R[i].items \in Seq(T))
    BY <1>4, <1>5, <2>2
  <2>4. Imports!Part(N, R[i]) \in Seq(T)
    BY <1>3, <2>3
  <2> QED
    BY <2>1, <2>4
<1>7. DOMAIN seqs = 1..n
  BY <1>2
<1>8. seqs = [i \in 1..n |-> seqs[i]]
  BY <1>2
<1> HIDE DEF seqs
<1>9. seqs \in Seq(Seq(T)) /\ Len(seqs) = n
  <2>1. seqs \in [1..n -> Seq(T)]
    BY <1>6, <1>8
  <2>2. seqs \in Seq(Seq(T))
    BY <1>2, <2>1, SeqDef
  <2>3. Len(seqs) \in Nat /\ 1..Len(seqs) = 1..n
    BY <1>7, <2>2, LenProperties
  <2> QED
    BY <1>2, <2>2, <2>3
<1>10. E \in Seq(T)
  BY <1>1, <1>9, FlattenSeqType
<1>11. PICK a, b : Placed(E, seqs, n, a, b)
  <2>1. \E a, b : Placed(E, seqs, Len(seqs), a, b)
    BY <1>1, <1>9, FlattenPlaces
  <2> QED
    BY <1>9, <2>1
<1> HIDE DEF E, R, N
<1>12. \A p \in DOMAIN E : a[p] \in 1..n /\ b[p] \in DOMAIN seqs[a[p]] /\ E[p] = seqs[a[p]][b[p]]
  BY <1>11 DEF Placed
<1>13. \A p, q \in DOMAIN E : a[p] = a[q] /\ b[p] = b[q] => p = q
  BY <1>11 DEF Placed
<1>14. \A i \in 1..n : \A k \in DOMAIN seqs[i] : \E p \in DOMAIN E : a[p] = i /\ b[p] = k
  BY <1>11 DEF Placed
<1>15. \A i \in 1..n : \A k \in DOMAIN seqs[i] : seqs[i][k] \in Items(E)
  <2> SUFFICES ASSUME NEW i \in 1..n, NEW k \in DOMAIN seqs[i] PROVE seqs[i][k] \in Items(E)
    OBVIOUS
  <2>1. PICK p \in DOMAIN E : a[p] = i /\ b[p] = k
    BY <1>14
  <2>2. E[p] = seqs[i][k]
    BY <1>12, <2>1
  <2> QED
    BY <2>2 DEF Items
<1>16. ASSUME N = {}
       PROVE  /\ Items(E) = {x \in Items(R) : x.op # "export"}
              /\ \E c : /\ \A p \in DOMAIN E : c[p] \in DOMAIN R /\ E[p] = R[c[p]]
                        /\ \A p, q \in DOMAIN E : c[p] = c[q] => p = q
  <2>1. \A i \in 1..n : seqs[i] = IF R[i].op = "export" THEN <<>> ELSE <<R[i]>>
    BY <1>3, <1>6, <1>16
  <2>2. \A i \in 1..n : \A k \in DOMAIN seqs[i] : k = 1 /\ seqs[i][k] = R[i] /\ R[i].op # "export"
    <3> SUFFICES ASSUME NEW i \in 1..n, NEW k \in DOMAIN seqs[i]
                 PROVE  k = 1 /\ seqs[i][k] = R[i] /\ R[i].op # "export"
      OBVIOUS
    <3>1. R[i].op # "export"
      BY <1>5, <2>1
    <3>2. seqs[i] = <<R[i]>> /\ R[i] \in T
      BY <1>2, <2>1, <3>1
    <3>3. DOMAIN <<R[i]>> = {1} /\ <<R[i]>>[1] = R[i]
      BY <1>4, <3>2
    <3> QED
      BY <3>1, <3>2, <3>3
  <2>3. \A p \in DOMAIN E : a[p] \in DOMAIN R /\ E[p] = R[a[p]] /\ R[a[p]].op # "export" /\ b[p] = 1
    BY <1>2, <1>12, <2>2
  <2>4. \A p, q \in DOMAIN E : a[p] = a[q] => p = q
    BY <1>13, <2>3
  <2>5. \A x \in Items(E) : x \in Items(R) /\ x.op # "export"
    BY <2>3 DEF Items
  <2>6. ASSUME NEW x \in Items(R), x.op # "export"
        PROVE  x \in Items(E)
    <3>1. PICK i \in 1..n : x = R[i]
      BY <1>2 DEF Items
    <3>2. seqs[i] = <<R[i]>> /\ R[i] \in T
      BY <1>2, <2>1, <2>6, <3>1
    <3>3. 1 \in DOMAIN seqs[i] /\ seqs[i][1] = x
      BY <1>4, <3>1, <3>2
    <3> QED
      BY <1>15, <3>3
  <2>7. Items(E) = {x \in Items(R) : x.op # "export"}
    BY <2>5, <2>6
  <2> QED
    BY <2>3, <2>4, <2>7
<1>17. ASSUME N # {}
       PROVE  Items(E) = UNION {Items(e.items) : e \in {x \in Exports(Items(R)) : x.name \in N}}
  <2> DEFINE A == {x \in Exports(Items(R)) : x.name \in N}
  <2>1. \A i \in 1..n : seqs[i] = IF R[i].op = "export" /\ R[i].name \in N THEN R[i].items ELSE <<>>
    BY <1>3, <1>6, <1>17
  <2>2. ASSUME NEW x \in Items(E)
        PROVE  \E e \in A : x \in Items(e.items)
    <3>1. PICK p \in DOMAIN E : x = E[p]
      BY DEF Items
    <3>2. a[p] \in 1..n /\ b[p] \in DOMAIN seqs[a[p]] /\ x = seqs[a[p]][b[p]]
      BY <1>12, <3>1
    <3>3. R[a[p]].op = "export" /\ R[a[p]].name \in N /\ seqs[a[p]] = R[a[p]].items
      BY <1>5, <2>1, <3>2
    <3>4. R[a[p]] \in A
      BY <1>2, <3>2, <3>3 DEF Exports, Items
    <3>5. x \in Items(R[a[p]].items)
      BY <3>2, <3>3 DEF Items
    <3> QED
      BY <3>4, <3>5
  <2>3. ASSUME NEW e \in A, NEW x \in Items(e.items)
        PROVE  x \in Items(E)
    <3>1. PICK i \in 1..n : e = R[i]
      BY <1>2 DEF Exports, Items
    <3>2. seqs[i] = e.items
      BY <2>1, <3>1 DEF Exports
    <3>3. PICK k \in DOMAIN e.items : x = e.items[k]
      BY DEF Items
    <3> QED
      BY <1>15, <3>2, <3>3
  <2> HIDE DEF A
  <2>4. Items(E) = UNION {Items(e.items) : e \in A}
    BY <2>2, <2>3
  <2> QED
    BY <2>4 DEF A
<1> QED
  BY <1>10, <1>16, <1>17, ZenonT(30) DEF R, N, E

\* What each step does to the sets of what is read and to be read.

LEMMA ItemsOfJoin ==
    ASSUME NEW T, NEW r \in Seq(T)
    PROVE  /\ \A x : /\ Items(Append(r, x)) = Items(r) \cup {x}
                     /\ DOMAIN Append(r, x) = 1..Len(r) + 1 /\ Append(r, x)[Len(r) + 1] = x
                     /\ \A p \in 1..Len(r) : Append(r, x)[p] = r[p]
           /\ \A e \in Seq(T) : Items(r \o e) = Items(r) \cup Items(e)
<1> DEFINE n == Len(r)
<1>1. n \in Nat /\ DOMAIN r = 1..n
  BY LenProperties
<1>2. ASSUME NEW x
      PROVE  /\ Items(Append(r, x)) = Items(r) \cup {x}
             /\ DOMAIN Append(r, x) = 1..n + 1 /\ Append(r, x)[n + 1] = x
             /\ \A p \in 1..n : Append(r, x)[p] = r[p]
  <2> DEFINE t == Append(r, x)
  <2>1. /\ t \in Seq(T \cup {x}) /\ Len(t) = n + 1 /\ t[n + 1] = x
        /\ \A p \in 1..n : t[p] = r[p]
    BY PushStack
  <2>2. DOMAIN t = 1..n + 1
    BY <2>1, LenProperties
  <2> HIDE DEF t, n
  <2>3. (\A p \in 1..n + 1 : p \in 1..n \/ p = n + 1) /\ n + 1 \in 1..n + 1 /\ \A p \in 1..n : p \in 1..n + 1
    BY <1>1
  <2>4. \A y \in Items(t) : y \in Items(r) \cup {x}
    BY <1>1, <2>1, <2>2, <2>3 DEF Items
  <2>5. \A y \in Items(r) \cup {x} : y \in Items(t)
    <3>1. x \in Items(t)
      BY <2>1, <2>2, <2>3 DEF Items
    <3>2. \A p \in 1..n : r[p] \in Items(t)
      <4> SUFFICES ASSUME NEW p \in 1..n PROVE r[p] \in Items(t)
        OBVIOUS
      <4>1. p \in DOMAIN t /\ t[p] = r[p]
        BY <2>1, <2>2, <2>3
      <4> QED
        BY <4>1 DEF Items
    <3>3. \A y \in Items(r) : \E p \in 1..n : y = r[p]
      BY <1>1 DEF Items
    <3> QED
      BY <3>1, <3>2, <3>3
  <2>6. Items(t) = Items(r) \cup {x}
    BY <2>4, <2>5
  <2> QED
    BY <2>1, <2>2, <2>6 DEF t
<1>3. ASSUME NEW e \in Seq(T)
      PROVE  Items(r \o e) = Items(r) \cup Items(e)
  <2> DEFINE k == Len(e)
             t == r \o e
  <2>1. k \in Nat /\ DOMAIN e = 1..k
    BY LenProperties
  <2>2. t \in Seq(T) /\ Len(t) = n + k /\ \A p \in 1..n + k : t[p] = IF p <= n THEN r[p] ELSE e[p - n]
    BY ConcatProperties
  <2>3. DOMAIN t = 1..n + k
    BY <2>2, LenProperties
  <2> HIDE DEF t, n, k
  <2>4. \A p \in 1..n + k : (p \in 1..n /\ p <= n) \/ (~ p <= n /\ p - n \in 1..k)
    BY <1>1, <2>1
  <2>5. \A y \in Items(t) : y \in Items(r) \cup Items(e)
    <3> SUFFICES ASSUME NEW p \in 1..n + k PROVE t[p] \in Items(r) \cup Items(e)
      BY <2>3 DEF Items
    <3>1. (p \in 1..n /\ t[p] = r[p]) \/ (p - n \in 1..k /\ t[p] = e[p - n])
      BY <2>2, <2>4
    <3> QED
      BY <1>1, <2>1, <3>1 DEF Items
  <2>6. \A p \in 1..n : r[p] \in Items(t)
    <3> SUFFICES ASSUME NEW p \in 1..n PROVE r[p] \in Items(t)
      OBVIOUS
    <3>1. p \in 1..n + k /\ p <= n
      BY <1>1, <2>1
    <3>2. t[p] = r[p] /\ p \in DOMAIN t
      BY <2>2, <2>3, <3>1
    <3> QED
      BY <3>2 DEF Items
  <2>7. \A p \in 1..k : e[p] \in Items(t)
    <3> SUFFICES ASSUME NEW p \in 1..k PROVE e[p] \in Items(t)
      OBVIOUS
    <3>1. p + n \in 1..n + k /\ ~ p + n <= n /\ (p + n) - n = p
      BY <1>1, <2>1
    <3>2. t[p + n] = e[p] /\ p + n \in DOMAIN t
      BY <2>2, <2>3, <3>1
    <3> QED
      BY <3>2 DEF Items
  <2>8. (\A y \in Items(r) : \E p \in 1..n : y = r[p]) /\ (\A y \in Items(e) : \E p \in 1..k : y = e[p])
    BY <1>1, <2>1 DEF Items
  <2> QED
    BY <2>5, <2>6, <2>7, <2>8 DEF t
<1> QED
  BY <1>2, <1>3

MovedSets(s, t, r) ==
    /\ Whole(t) = Whole(s)
    /\ \A f : /\ Unread(t, f) \subseteq Unread(s, f)
              /\ Unread(s, f) \subseteq Unread(t, f) \cup {Head(s[Len(s)].todo)}
              /\ f # s[Len(s)].file => Unread(t, f) = Unread(s, f)
    /\ \A f, j : Awaited(s, f, j) => Awaited(t, f, j)
    /\ Len(s) \notin Whole(s) \/ r = s[Len(s)].result => Got(t) = Got(s)
    /\ \A D : Len(s) \in Whole(s) /\ Declares(Items(r)) = Declares(Items(s[Len(s)].result)) \cup D
                 => Got(t) = Got(s) \cup D

LEMMA MovesSets ==
    ASSUME NEW T, NEW s, NEW t, NEW r, Moves(s, t, r), s[Len(s)].todo \in Seq(T)
    PROVE  MovedSets(s, t, r)
<1> DEFINE n == Len(s)
           x == Head(s[n].todo)
<1>1. /\ n \in Nat \ {0} /\ Len(t) = n
      /\ \A i \in 1..n - 1 : t[i] = s[i]
      /\ t[n].file = s[n].file /\ t[n].names = s[n].names
      /\ t[n].todo = Tail(s[n].todo) /\ t[n].result = r
  BY DEF Moves
<1>2. Len(s) = n
  OBVIOUS
<1>3. Items(s[n].todo) = Items(t[n].todo) \cup {x}
  <2>1. s[n].todo # <<>>
    BY DEF Moves
  <2>2. Items(s[n].todo) = Items(Tail(s[n].todo)) \cup {Head(s[n].todo)}
    BY <2>1, ItemsTail
  <2> QED
    BY <1>1, <2>2
<1> HIDE DEF n, x
<1>4. /\ \A i \in 1..n : i \in 1..n - 1 \/ i = n
      /\ \A i \in 1..n - 1 : i \in 1..n /\ i + 1 \in 1..n /\ i # n
      /\ n \in 1..n
  BY <1>1
<1>5. \A i \in 1..n : t[i].file = s[i].file /\ t[i].names = s[i].names
  BY <1>1, <1>4
<1>6. Whole(t) = Whole(s)
  BY <1>1, <1>2, <1>5 DEF Whole
<1>7. ASSUME NEW f
      PROVE  /\ Unread(t, f) \subseteq Unread(s, f)
             /\ Unread(s, f) \subseteq Unread(t, f) \cup {x}
             /\ f # s[n].file => Unread(t, f) = Unread(s, f)
  <2> DEFINE K == {k \in 1..n : s[k].file = f}
  <2>1. K = {k \in 1..n : t[k].file = f}
    BY <1>5
  <2>2. Unread(t, f) = UNION {Items(t[i].todo) : i \in K}
    BY <1>1, <2>1 DEF Unread
  <2>3. Unread(s, f) = UNION {Items(s[i].todo) : i \in K}
    BY <1>2 DEF Unread
  <2>4. \A i \in 1..n : Items(t[i].todo) \subseteq Items(s[i].todo)
    BY <1>1, <1>3, <1>4
  <2>5. \A i \in 1..n : Items(s[i].todo) \subseteq Items(t[i].todo) \cup {x}
    BY <1>1, <1>3, <1>4
  <2>6. f # s[n].file => \A i \in K : Items(t[i].todo) = Items(s[i].todo)
    <3> SUFFICES ASSUME f # s[n].file, NEW i \in K PROVE Items(t[i].todo) = Items(s[i].todo)
      OBVIOUS
    <3>1. i \in 1..n - 1
      BY <1>4
    <3>2. t[i] = s[i]
      BY <1>1, <3>1
    <3> QED
      BY <3>2
  <2>7. K \subseteq 1..n
    OBVIOUS
  <2> HIDE DEF K
  <2>8. Unread(t, f) \subseteq Unread(s, f)
    BY <2>2, <2>3, <2>4, <2>7
  <2>9. Unread(s, f) \subseteq Unread(t, f) \cup {x}
    BY <2>2, <2>3, <2>5, <2>7
  <2>10. f # s[n].file => Unread(t, f) = Unread(s, f)
    BY <2>2, <2>3, <2>6
  <2> QED
    BY <2>8, <2>9, <2>10
<1>8. ASSUME NEW f, NEW j, Awaited(s, f, j)
      PROVE  Awaited(t, f, j)
  <2>1. PICK i \in 1..n - 1 :
          s[i].file = f /\ s[i + 1].names = j.names /\ s[i + 1].file \in Imports!Means(f, j)
    BY <1>2, <1>8 DEF Awaited
  <2>2. /\ t[i].file = s[i].file /\ t[i + 1].names = s[i + 1].names
        /\ t[i + 1].file = s[i + 1].file
    BY <1>4, <1>5
  <2> QED
    BY <1>1, <2>1, <2>2 DEF Awaited
<1>9. \A i \in Whole(s) : i \in 1..n /\ (i # n => t[i] = s[i])
  BY <1>1, <1>2, <1>4 DEF Whole
<1>10. /\ Got(t) = UNION {Declares(Items(t[i].result)) : i \in Whole(s)}
       /\ Got(s) = UNION {Declares(Items(s[i].result)) : i \in Whole(s)}
  BY <1>6 DEF Got
<1>11. ASSUME n \notin Whole(s) \/ r = s[n].result
       PROVE  Got(t) = Got(s)
  <2>1. \A i \in Whole(s) : t[i].result = s[i].result
    BY <1>1, <1>9, <1>11
  <2> QED
    BY <1>10, <2>1
<1>12. ASSUME NEW D, n \in Whole(s),
              Declares(Items(r)) = Declares(Items(s[n].result)) \cup D
       PROVE  Got(t) = Got(s) \cup D
  <2> DEFINE A(i) == Declares(Items(t[i].result))
             B(i) == Declares(Items(s[i].result))
  <2>1. \A i \in Whole(s) : i # n => A(i) = B(i)
    BY <1>9
  <2>2. A(n) = B(n) \cup D
    BY <1>1, <1>12
  <2>3. Got(t) = UNION {A(i) : i \in Whole(s)} /\ Got(s) = UNION {B(i) : i \in Whole(s)}
    BY <1>10
  <2> HIDE DEF A, B
  <2>4. \A y \in Got(t) : y \in Got(s) \cup D
    BY <2>1, <2>2, <2>3
  <2>5. \A y \in Got(s) \cup D : y \in Got(t)
    BY <1>12, <2>1, <2>2, <2>3
  <2> QED
    BY <2>4, <2>5
<1> QED
  BY <1>6, <1>7, <1>8, <1>11, <1>12 DEF n, x, MovedSets

\* A file has one call, and has been visited.
Alone(s, vis) ==
    /\ \A i, j \in 1..Len(s) : s[i].file = s[j].file => i = j
    /\ \A i \in 1..Len(s) : s[i].file \in {<<>>} \cup vis

Apiece(q) == \A i, j \in DOMAIN q : q[i].op = "declare" /\ q[i] = q[j] => i = j

LEMMA ApieceTail ==
    ASSUME NEW T, NEW q \in Seq(T), q # <<>>, Apiece(q)
    PROVE  Apiece(Tail(q)) /\ (Head(q).op = "declare" => Head(q) \notin Items(Tail(q)))
<1> DEFINE n == Len(q)
           t == Tail(q)
<1>1. n \in Nat \ {0} /\ DOMAIN q = 1..n
  BY EmptySeq, LenProperties
<1>2. DOMAIN t = 1..n - 1 /\ (\A i \in 1..n - 1 : t[i] = q[i + 1]) /\ Head(q) = q[1]
  <2>1. t \in Seq(T) /\ Len(t) = n - 1 /\ \A i \in 1..Len(t) : t[i] = q[i + 1]
    BY HeadTailProperties
  <2>2. DOMAIN t = 1..Len(t)
    BY <2>1, LenProperties
  <2>3. Head(q) = q[1]
    BY <1>1, HeadTailProperties
  <2> QED
    BY <2>1, <2>2, <2>3
<1> HIDE DEF t, n
<1>3. (\A i \in 1..n - 1 : i + 1 \in 1..n /\ i + 1 # 1) /\ 1 \in 1..n
      /\ \A i, j \in 1..n - 1 : i + 1 = j + 1 => i = j
  BY <1>1
<1>4. Apiece(t)
  <2> SUFFICES ASSUME NEW i \in 1..n - 1, NEW j \in 1..n - 1, t[i].op = "declare", t[i] = t[j]
               PROVE  i = j
    BY <1>2 DEF Apiece
  <2>1. i + 1 \in 1..n /\ j + 1 \in 1..n /\ q[i + 1].op = "declare" /\ q[i + 1] = q[j + 1]
    BY <1>2, <1>3
  <2>2. i + 1 = j + 1
    BY <1>1, <2>1 DEF Apiece
  <2> QED
    BY <1>3, <2>2
<1>5. ASSUME q[1].op = "declare", q[1] \in Items(t)
      PROVE  FALSE
  <2>1. PICK i \in 1..n - 1 : q[1] = t[i]
    BY <1>2, <1>5 DEF Items
  <2>2. i + 1 \in 1..n /\ q[i + 1] = q[1] /\ i + 1 # 1
    BY <1>2, <1>3, <2>1
  <2> QED
    BY <1>1, <1>3, <1>5, <2>2 DEF Apiece
<1> QED
  BY <1>2, <1>4, <1>5 DEF t

\* A bare declaration is of one file.
LEMMA BareOnce ==
    ASSUME WrittenOnce, project \in Projects, NEW f \in Imports!Files, NEW g \in Imports!Files,
           NEW x, x \in Imports!Bare(f), x \in Items(Imports!ItemsOf(g))
    PROVE  f = g
<1>1. x \in Declares(Items(Imports!ItemsOf(f)))
  BY DeclaredIs
<1>2. PICK i \in DOMAIN Imports!ItemsOf(f) : x = Imports!ItemsOf(f)[i] /\ x.op = "declare"
  BY <1>1 DEF Declares, Items
<1>3. PICK j \in DOMAIN Imports!ItemsOf(g) : x = Imports!ItemsOf(g)[j]
  BY DEF Items
<1>4. Imports!ItemsOf(f)[i].op = "declare" /\ Imports!ItemsOf(f)[i] = Imports!ItemsOf(g)[j]
  BY <1>2, <1>3
<1> QED
  BY <1>4, WrittenInFiles

\* What exports hold is declared, and is no bare declaration.
LEMMA ExportedApart ==
    ASSUME WrittenOnce, project \in Projects, NEW f \in Imports!Files, NEW g \in Imports!Files,
           NEW e \in Exports(Items(Imports!ItemsOf(f))), NEW x \in Items(e.items)
    PROVE  x.op = "declare" /\ x \notin Imports!Bare(g)
<1>1. PICK i \in DOMAIN Imports!ItemsOf(f) : e = Imports!ItemsOf(f)[i] /\ e.op = "export"
  BY DEF Exports, Items
<1>2. ASSUME x \in Imports!Bare(g)
      PROVE  FALSE
  <2>1. x \in Declares(Items(Imports!ItemsOf(g)))
    BY <1>2, DeclaredIs
  <2>2. PICK j \in DOMAIN Imports!ItemsOf(g) : x = Imports!ItemsOf(g)[j]
    BY <2>1 DEF Declares, Items
  <2> QED
    BY <1>1, <2>2, WrittenInFiles
<1>3. x.op = "declare"
  BY <1>1, WrittenInFiles
<1> QED
  BY <1>2, <1>3

\* A call for a file has all that is unread of it.
LEMMA UnreadOfTop ==
    ASSUME NEW s, NEW vis, Alone(s, vis), NEW i \in 1..Len(s)
    PROVE  Unread(s, s[i].file) = Items(s[i].todo)
<1>1. {k \in 1..Len(s) : s[k].file = s[i].file} = {i}
  BY DEF Alone
<1> QED
  BY <1>1 DEF Unread

LEMMA KeepMerges ==
    ASSUME WrittenOnce, project \in Projects, Apart, NEW T, NEW s, NEW t, NEW vis,
           Routed(s), Alone(s, vis), MergeOK(s, vis),
           \A i \in 1..Len(s) : s[i].todo \in Seq(T) /\ s[i].result \in Seq(T),
           Head(s[Len(s)].todo).op # "import",
           Moves(s, t, Append(s[Len(s)].result, Head(s[Len(s)].todo)))
    PROVE  MergeOK(t, vis)
<1> DEFINE n == Len(s)
           x == Head(s[n].todo)
           g == s[n].file
           r == Append(s[n].result, x)
<1>1. /\ n \in Nat \ {0} /\ Len(t) = n /\ s[n].todo # <<>>
      /\ \A i \in 1..n - 1 : t[i] = s[i]
      /\ t[n].file = g /\ t[n].todo = Tail(s[n].todo) /\ t[n].result = r
  BY DEF Moves
<1>2. n \in 1..n /\ \A i \in 1..n : i \in 1..n - 1 \/ i = n
  BY <1>1
<1>3. s[n].todo \in Seq(T) /\ s[n].result \in Seq(T)
  BY <1>2
<1>4. /\ Items(r) = Items(s[n].result) \cup {x}
      /\ DOMAIN r = 1..Len(s[n].result) + 1 /\ r[Len(s[n].result) + 1] = x
      /\ \A p \in 1..Len(s[n].result) : r[p] = s[n].result[p]
      /\ DOMAIN s[n].result = 1..Len(s[n].result) /\ Len(s[n].result) \in Nat
  BY <1>3, ItemsOfJoin, LenProperties
<1>5. Items(s[n].todo) = Items(t[n].todo) \cup {x}
  BY <1>1, <1>3, ItemsTail
<1>6. /\ Whole(t) = Whole(s)
      /\ \A f : /\ Unread(t, f) \subseteq Unread(s, f)
                /\ Unread(s, f) \subseteq Unread(t, f) \cup {x}
                /\ f # g => Unread(t, f) = Unread(s, f)
      /\ \A f, j : Awaited(s, f, j) => Awaited(t, f, j)
      /\ n \notin Whole(s) => Got(t) = Got(s)
      /\ \A D : n \in Whole(s) /\ Declares(Items(r)) = Declares(Items(s[n].result)) \cup D
                   => Got(t) = Got(s) \cup D
  <2>1. s[Len(s)].todo \in Seq(T)
    BY <1>3
  <2>2. MovedSets(s, t, r)
    BY <2>1, MovesSets
  <2> QED
    BY <2>2 DEF MovedSets
<1>7. /\ ReadOK(s) /\ Got(s) \subseteq Wanted
      /\ \A f \in Imports!Merging : f \in {<<>>} \cup vis => Covered(s, vis, f)
      /\ Fresh(s, vis) /\ Once(s)
  BY DEF MergeOK
<1>8. /\ g \in Imports!Files /\ x \in Items(Imports!ItemsOf(g)) /\ g \in {<<>>} \cup vis
      /\ Unread(s, g) = Items(s[n].todo)
  <2>1. g \in Imports!Files /\ Items(s[n].todo) \subseteq Items(Imports!ItemsOf(g))
    BY <1>2 DEF Routed
  <2>2. Unread(s, g) = Items(s[n].todo)
    BY <1>2, UnreadOfTop
  <2>3. g \in {<<>>} \cup vis
    BY <1>2 DEF Alone
  <2> QED
    BY <1>5, <2>1, <2>2, <2>3
<1>9. Unread(t, g) = Items(t[n].todo)
  <2>1. \A i \in 1..n : t[i].file = s[i].file
    BY <1>1, <1>2
  <2>2. {k \in 1..n : t[k].file = g} = {n}
    BY <1>2, <2>1 DEF Alone
  <2> HIDE DEF n, g
  <2>3. UNION {Items(t[i].todo) : i \in {n}} = Items(t[n].todo)
    OBVIOUS
  <2> QED
    BY <1>1, <2>2, <2>3 DEF Unread
<1>10. Apiece(s[n].todo) /\ Apiece(t[n].todo) /\ (x.op = "declare" => x \notin Items(t[n].todo))
  <2>1. Apiece(s[n].todo)
    BY <1>2, <1>7 DEF ReadOK, Apiece
  <2> QED
    BY <1>1, <1>3, <2>1, ApieceTail
<1>11. n \in Whole(s) <=> g \in Imports!Merging
  BY <1>2 DEF Whole
<1>12. n \in Whole(s) => Got(t) = Got(s) \cup Declares({x})
  <2>1. Declares(Items(r)) = Declares(Items(s[n].result)) \cup Declares({x})
    BY <1>4 DEF Declares
  <2> HIDE DEF n, r, x
  <2> QED
    BY <1>6, <2>1
<1> HIDE DEF n, x, g, r
<1>13. ReadOK(t)
  <2> SUFFICES ASSUME NEW i \in 1..n
               PROVE  /\ Exports(Items(t[i].result) \cup Items(t[i].todo))
                            = Exports(Items(Imports!ItemsOf(t[i].file)))
                      /\ Apiece(t[i].todo)
    BY <1>1 DEF ReadOK, Apiece
  <2>1. CASE i = n
    <3>1. /\ Exports(Items(s[n].result) \cup Items(s[n].todo)) = Exports(Items(Imports!ItemsOf(g)))
      BY <1>2, <1>7 DEF ReadOK, n, g
    <3>2. Items(t[n].result) \cup Items(t[n].todo) = Items(s[n].result) \cup Items(s[n].todo)
      BY <1>1, <1>4, <1>5
    <3> QED
      BY <1>1, <1>10, <2>1, <3>1, <3>2
  <2>2. CASE i # n
    <3>1. t[i] = s[i]
      BY <1>1, <1>2, <2>2
    <3> QED
      BY <1>7, <3>1 DEF ReadOK, Apiece, n
  <2> QED
    BY <2>1, <2>2
<1>14. x.op = "declare" => x \in Imports!Bare(g)
  BY <1>8, DeclaredIs DEF Declares
<1>15. Got(t) \subseteq Wanted
  <2>1. CASE n \in Whole(s)
    <3>1. Declares({x}) \subseteq Imports!Declared(g)
      BY <1>14, DeclaredIs DEF Declares
    <3>2. Imports!Declared(g) \subseteq Wanted
      BY <1>11, <2>1 DEF Wanted
    <3> QED
      BY <1>7, <1>12, <2>1, <3>1, <3>2
  <2> QED
    BY <1>6, <1>7, <2>1
<1>16. Got(s) \subseteq Got(t)
  BY <1>6, <1>12
<1>17. ASSUME NEW f \in Imports!Merging, f \in {<<>>} \cup vis
       PROVE  Covered(t, vis, f)
  <2>1. Covered(s, vis, f)
    BY <1>7, <1>17
  <2>2. ASSUME NEW y \in Imports!Bare(f)
        PROVE  y \in Got(t) \cup Unread(t, f)
    <3>1. y \in Got(s) \cup Unread(s, f)
      BY <2>1 DEF Covered
    <3>2. ASSUME y = x, f = g
          PROVE  y \in Got(t)
      <4>1. y.op = "declare"
        BY DeclaredIs DEF Declares
      <4>2. n \in Whole(s)
        BY <1>11, <3>2
      <4> QED
        BY <1>12, <3>2, <4>1, <4>2 DEF Declares
    <3> QED
      BY <1>6, <1>16, <3>1, <3>2
  <2>3. ASSUME NEW j \in Imports!ImportsOf(Imports!ItemsOf(f)), j \in Unread(s, f)
        PROVE  j \in Unread(t, f)
    <3>1. j.op = "import"
      BY ImportsAre
    <3>2. x.op # "import"
      BY DEF x, n
    <3> QED
      BY <1>6, <2>3, <3>1, <3>2
  <2> QED
    BY <1>6, <1>16, <2>1, <2>2, <2>3 DEF Covered
<1>18. ASSUME NEW f \in Imports!Merging, NEW y \in Imports!Bare(f), y \in Got(t)
       PROVE  f \in {<<>>} \cup vis /\ y \notin Unread(t, f)
  <2>1. CASE y \in Got(s)
    BY <1>6, <1>7, <2>1 DEF Fresh
  <2>2. CASE y \notin Got(s)
    <3>1. n \in Whole(s) /\ y = x /\ x.op = "declare"
      BY <1>6, <1>12, <1>18, <2>2 DEF Declares
    <3>2. f \in Imports!Files
      BY SidesOfFiles
    <3>3. f = g
      BY <1>8, <3>1, <3>2, BareOnce
    <3> QED
      BY <1>8, <1>9, <1>10, <3>1, <3>3
  <2> QED
    BY <2>1, <2>2
<1>19. Once(t)
  <2>1. ASSUME NEW i \in Whole(s), NEW p \in DOMAIN t[i].result
        PROVE  \/ p \in DOMAIN s[i].result /\ t[i].result[p] = s[i].result[p]
               \/ i = n /\ p = Len(s[n].result) + 1 /\ t[i].result[p] = x
    <3>1. CASE i = n
      <4>1. p \in 1..Len(s[n].result) \/ p = Len(s[n].result) + 1
        BY <1>1, <1>4, <3>1
      <4> QED
        BY <1>1, <1>4, <3>1, <4>1
    <3>2. CASE i # n
      <4>1. i \in 1..n
        BY DEF Whole, n
      <4>2. t[i] = s[i]
        BY <1>1, <1>2, <3>2, <4>1
      <4> QED
        BY <4>2
    <3> QED
      BY <3>1, <3>2
  <2>2. ASSUME n \in Whole(s), x \in Bares, NEW i \in Whole(s), NEW p \in DOMAIN s[i].result,
               s[i].result[p] = x
        PROVE  FALSE
    <3>1. PICK f \in Imports!Merging : x \in Imports!Bare(f)
      BY <2>2 DEF Bares
    <3>2. x.op = "declare"
      BY <3>1, DeclaredIs DEF Declares
    <3>3. x \in Got(s)
      BY <2>2, <3>2 DEF Got, Declares, Items
    <3>4. x \in Imports!Bare(g) /\ g \in Imports!Merging
      BY <1>11, <1>14, <2>2, <3>2
    <3>5. x \notin Unread(s, g)
      BY <1>7, <3>3, <3>4 DEF Fresh
    <3> QED
      BY <1>5, <1>8, <3>5
  <2>3. ASSUME NEW i \in Whole(s), NEW j \in Whole(s), NEW p \in DOMAIN t[i].result,
               NEW q \in DOMAIN t[j].result, t[i].result[p] = t[j].result[q],
               t[i].result[p] \in Bares
        PROVE  i = j /\ p = q
    <3>1. CASE /\ p \in DOMAIN s[i].result /\ t[i].result[p] = s[i].result[p]
               /\ q \in DOMAIN s[j].result /\ t[j].result[q] = s[j].result[q]
      <4>1. s[i].result[p] = s[j].result[q] /\ s[i].result[p] \in Bares
        BY <2>3, <3>1
      <4> QED
        BY <1>7, <3>1, <4>1 DEF Once
    <3>2. CASE /\ i = n /\ p = Len(s[n].result) + 1 /\ t[i].result[p] = x
               /\ j = n /\ q = Len(s[n].result) + 1
      BY <3>2
    <3>3. CASE /\ i = n /\ t[i].result[p] = x
               /\ q \in DOMAIN s[j].result /\ t[j].result[q] = s[j].result[q]
      BY <2>2, <2>3, <3>3
    <3>4. CASE /\ j = n /\ t[j].result[q] = x
               /\ p \in DOMAIN s[i].result /\ t[i].result[p] = s[i].result[p]
      BY <2>2, <2>3, <3>4
    <3>5. /\ \/ p \in DOMAIN s[i].result /\ t[i].result[p] = s[i].result[p]
             \/ i = n /\ p = Len(s[n].result) + 1 /\ t[i].result[p] = x
          /\ \/ q \in DOMAIN s[j].result /\ t[j].result[q] = s[j].result[q]
             \/ j = n /\ q = Len(s[n].result) + 1 /\ t[j].result[q] = x
      BY <2>1
    <3> QED
      BY <3>1, <3>2, <3>3, <3>4, <3>5
  <2> QED
    BY <1>6, <2>3 DEF Once
<1>20. Fresh(t, vis)
  BY <1>18 DEF Fresh
<1> QED
  BY <1>13, <1>15, <1>17, <1>19, <1>20 DEF MergeOK

LEMMA SkipMerges ==
    ASSUME WrittenOnce, project \in Projects, Apart, NEW T, NEW s, NEW t, NEW vis,
           Routed(s), Alone(s, vis), MergeOK(s, vis),
           \A i \in 1..Len(s) : s[i].todo \in Seq(T) /\ s[i].result \in Seq(T),
           Head(s[Len(s)].todo).op = "import", Head(s[Len(s)].todo).names = {},
           Imports!Means(s[Len(s)].file, Head(s[Len(s)].todo)) \subseteq vis,
           Moves(s, t, s[Len(s)].result)
    PROVE  MergeOK(t, vis)
<1> DEFINE n == Len(s)
           x == Head(s[n].todo)
           g == s[n].file
           r == s[n].result
<1>1. /\ n \in Nat \ {0} /\ Len(t) = n /\ s[n].todo # <<>>
      /\ \A i \in 1..n - 1 : t[i] = s[i]
      /\ t[n].file = g /\ t[n].todo = Tail(s[n].todo) /\ t[n].result = r
  BY DEF Moves
<1>2. n \in 1..n /\ \A i \in 1..n : i \in 1..n - 1 \/ i = n
  BY <1>1
<1>3. s[n].todo \in Seq(T) /\ s[n].result \in Seq(T)
  BY <1>2
<1>4. Items(s[n].todo) = Items(t[n].todo) \cup {x}
  BY <1>1, <1>3, ItemsTail
<1>5. /\ Whole(t) = Whole(s) /\ Got(t) = Got(s)
      /\ \A f : /\ Unread(t, f) \subseteq Unread(s, f)
                /\ Unread(s, f) \subseteq Unread(t, f) \cup {x}
                /\ f # g => Unread(t, f) = Unread(s, f)
      /\ \A f, j : Awaited(s, f, j) => Awaited(t, f, j)
  <2>1. s[Len(s)].todo \in Seq(T)
    BY <1>3
  <2>2. MovedSets(s, t, s[Len(s)].result)
    BY <2>1, MovesSets
  <2> QED
    BY <2>2 DEF MovedSets
<1>6. /\ ReadOK(s) /\ Got(s) \subseteq Wanted
      /\ \A f \in Imports!Merging : f \in {<<>>} \cup vis => Covered(s, vis, f)
      /\ Fresh(s, vis) /\ Once(s)
  BY DEF MergeOK
<1>7. Apiece(t[n].todo)
  <2>1. Apiece(s[n].todo)
    BY <1>2, <1>6 DEF ReadOK, Apiece
  <2> QED
    BY <1>1, <1>3, <2>1, ApieceTail
<1>8. x.op = "import" /\ x.names = {} /\ Imports!Means(g, x) \subseteq vis
  OBVIOUS
<1> HIDE DEF n, x, g, r
<1>9. \A i \in 1..n : t[i].result = s[i].result
  BY <1>1, <1>2 DEF r
<1>10. ReadOK(t)
  <2> SUFFICES ASSUME NEW i \in 1..n
               PROVE  /\ Exports(Items(t[i].result) \cup Items(t[i].todo))
                            = Exports(Items(Imports!ItemsOf(t[i].file)))
                      /\ Apiece(t[i].todo)
    BY <1>1 DEF ReadOK, Apiece
  <2>1. CASE i = n
    <3>1. Exports(Items(s[n].result) \cup Items(s[n].todo)) = Exports(Items(Imports!ItemsOf(g)))
      BY <1>2, <1>6 DEF ReadOK, n, g
    <3>2. Exports(Items(t[n].result) \cup Items(t[n].todo))
             = Exports(Items(s[n].result) \cup Items(s[n].todo))
      BY <1>2, <1>4, <1>8, <1>9 DEF Exports
    <3> QED
      BY <1>1, <1>7, <2>1, <3>1, <3>2
  <2>2. CASE i # n
    <3>1. t[i] = s[i]
      BY <1>1, <1>2, <2>2
    <3> QED
      BY <1>6, <3>1 DEF ReadOK, Apiece, n
  <2> QED
    BY <2>1, <2>2
<1>11. ASSUME NEW f \in Imports!Merging, f \in {<<>>} \cup vis
       PROVE  Covered(t, vis, f)
  <2>1. Covered(s, vis, f)
    BY <1>6, <1>11
  <2>2. x \notin Imports!Bare(f)
    BY <1>8, DeclaredIs DEF Declares
  <2>3. Imports!Bare(f) \subseteq Got(t) \cup Unread(t, f)
    BY <1>5, <2>1, <2>2 DEF Covered
  <2>4. ASSUME NEW j, j \in Unread(s, f), j \notin Unread(t, f)
        PROVE  j.names = {} /\ Imports!Means(f, j) \subseteq vis
    BY <1>5, <1>8, <2>4
  <2> QED
    BY <1>5, <2>1, <2>3, <2>4 DEF Covered
<1>12. Fresh(t, vis)
  BY <1>5, <1>6 DEF Fresh
<1>13. Once(t)
  <2>1. \A i \in Whole(s) : t[i].result = s[i].result
    BY <1>9 DEF Whole, n
  <2> QED
    BY <1>5, <1>6, <2>1 DEF Once
<1> QED
  BY <1>5, <1>6, <1>10, <1>11, <1>12, <1>13 DEF MergeOK

OpenedSets(s, t, file, names, items) ==
    /\ Whole(s) \subseteq Whole(t) /\ Whole(t) \subseteq Whole(s) \cup {Len(s) + 1}
    /\ Got(t) = Got(s)
    /\ \A f : /\ Unread(s, f) \subseteq Unread(t, f) \cup {Head(s[Len(s)].todo)}
              /\ f # s[Len(s)].file => Unread(s, f) \subseteq Unread(t, f)
              /\ f # file => Unread(t, f) \subseteq Unread(s, f)
    /\ Items(items) \subseteq Unread(t, file)
    /\ \A f, j : Awaited(s, f, j) => Awaited(t, f, j)
    /\ \A j : j.names = names /\ file \in Imports!Means(s[Len(s)].file, j)
                 => Awaited(t, s[Len(s)].file, j)

LEMMA OpensSets ==
    ASSUME NEW T, NEW s, NEW t, NEW file, NEW names, NEW items, Opens(s, t, file, names, items),
           s[Len(s)].todo \in Seq(T)
    PROVE  OpenedSets(s, t, file, names, items)
<1> DEFINE n == Len(s)
           x == Head(s[n].todo)
<1>1. /\ n \in Nat \ {0} /\ Len(t) = n + 1
      /\ \A i \in 1..n - 1 : t[i] = s[i]
      /\ t[n].file = s[n].file /\ t[n].names = s[n].names
      /\ t[n].todo = Tail(s[n].todo) /\ t[n].result = s[n].result
      /\ t[n + 1].file = file /\ t[n + 1].names = names
      /\ t[n + 1].todo = items /\ t[n + 1].result = <<>>
  BY DEF Opens
<1>2. Len(s) = n
  OBVIOUS
<1>3. Items(s[n].todo) = Items(t[n].todo) \cup {x}
  <2>1. s[n].todo # <<>>
    BY DEF Opens
  <2>2. Items(s[n].todo) = Items(Tail(s[n].todo)) \cup {Head(s[n].todo)}
    BY <2>1, ItemsTail
  <2> QED
    BY <1>1, <2>2
<1> HIDE DEF n, x
<1>4. /\ \A i \in 1..n : i \in 1..n - 1 \/ i = n
      /\ \A i \in 1..n - 1 : i \in 1..n /\ i + 1 \in 1..n
      /\ \A i \in 1..n : i \in 1..n + 1 /\ i # n + 1
      /\ \A i \in 1..n + 1 : i \in 1..n \/ i = n + 1
      /\ n \in 1..n /\ n + 1 \in 1..n + 1 /\ (n + 1) - 1 = n
  BY <1>1
<1>5. \A i \in 1..n : t[i].file = s[i].file /\ t[i].names = s[i].names /\ t[i].result = s[i].result
  BY <1>1, <1>4
<1>6. Whole(s) \subseteq Whole(t) /\ Whole(t) \subseteq Whole(s) \cup {n + 1}
  BY <1>1, <1>2, <1>4, <1>5 DEF Whole
<1>7. Got(t) = Got(s)
  <2> DEFINE A(i) == Declares(Items(t[i].result))
             B(i) == Declares(Items(s[i].result))
  <2>1. \A i \in Whole(s) : A(i) = B(i)
    BY <1>2, <1>5 DEF Whole
  <2>2. A(n + 1) = {}
    <3>1. Items(<<>>) = {}
      BY DEF Items
    <3> QED
      BY <1>1, <3>1 DEF Declares
  <2>3. Got(t) = UNION {A(i) : i \in Whole(t)} /\ Got(s) = UNION {B(i) : i \in Whole(s)}
    BY DEF Got
  <2> HIDE DEF A, B
  <2>4. \A y \in Got(t) : y \in Got(s)
    BY <1>6, <2>1, <2>2, <2>3
  <2>5. \A y \in Got(s) : y \in Got(t)
    BY <1>6, <2>1, <2>3
  <2> QED
    BY <2>4, <2>5
<1>8. ASSUME NEW f
      PROVE  /\ Unread(s, f) \subseteq Unread(t, f) \cup {x}
             /\ f # s[n].file => Unread(s, f) \subseteq Unread(t, f)
             /\ f # file => Unread(t, f) \subseteq Unread(s, f)
  <2> DEFINE K == {k \in 1..n : s[k].file = f}
             L == {k \in 1..n + 1 : t[k].file = f}
  <2>1. K \subseteq L /\ L \subseteq K \cup {n + 1} /\ (f # file => L \subseteq K) /\ K \subseteq 1..n
    BY <1>1, <1>4, <1>5
  <2>2. Unread(t, f) = UNION {Items(t[i].todo) : i \in L}
    BY <1>1 DEF Unread
  <2>3. Unread(s, f) = UNION {Items(s[i].todo) : i \in K}
    BY <1>2 DEF Unread
  <2>4. \A i \in 1..n : Items(t[i].todo) \subseteq Items(s[i].todo)
    BY <1>1, <1>3, <1>4
  <2>5. \A i \in 1..n : Items(s[i].todo) \subseteq Items(t[i].todo) \cup {x}
    BY <1>1, <1>3, <1>4
  <2>6. f # s[n].file => \A i \in K : Items(t[i].todo) = Items(s[i].todo)
    <3> SUFFICES ASSUME f # s[n].file, NEW i \in K PROVE Items(t[i].todo) = Items(s[i].todo)
      OBVIOUS
    <3>1. i \in 1..n - 1
      BY <1>4
    <3>2. t[i] = s[i]
      BY <1>1, <3>1
    <3> QED
      BY <3>2
  <2> HIDE DEF K, L
  <2>7. Unread(s, f) \subseteq Unread(t, f) \cup {x}
    BY <2>1, <2>2, <2>3, <2>5
  <2>8. f # s[n].file => Unread(s, f) \subseteq Unread(t, f)
    BY <2>1, <2>2, <2>3, <2>6
  <2>9. f # file => Unread(t, f) \subseteq Unread(s, f)
    BY <2>1, <2>2, <2>3, <2>4
  <2> QED
    BY <2>7, <2>8, <2>9
<1>9. Items(items) \subseteq Unread(t, file)
  <2>1. n + 1 \in {k \in 1..Len(t) : t[k].file = file}
    BY <1>1, <1>4
  <2> QED
    BY <1>1, <2>1 DEF Unread
<1>10. ASSUME NEW f, NEW j, Awaited(s, f, j)
       PROVE  Awaited(t, f, j)
  <2>1. PICK i \in 1..n - 1 :
          s[i].file = f /\ s[i + 1].names = j.names /\ s[i + 1].file \in Imports!Means(f, j)
    BY <1>2, <1>10 DEF Awaited
  <2>2. /\ t[i].file = s[i].file /\ t[i + 1].names = s[i + 1].names
        /\ t[i + 1].file = s[i + 1].file
    BY <1>4, <1>5
  <2>3. i \in 1..Len(t) - 1
    BY <1>1, <1>4
  <2> QED
    BY <2>1, <2>2, <2>3 DEF Awaited
<1>11. ASSUME NEW j, j.names = names, file \in Imports!Means(s[n].file, j)
       PROVE  Awaited(t, s[n].file, j)
  <2>1. n \in 1..Len(t) - 1
    BY <1>1, <1>4
  <2> QED
    BY <1>1, <1>11, <2>1 DEF Awaited
<1> QED
  BY <1>6, <1>7, <1>8, <1>9, <1>10, <1>11 DEF n, x, OpenedSets

LEMMA OpensMerges ==
    ASSUME WrittenOnce, project \in Projects, Apart, NEW T, NEW s, NEW t, NEW vis,
           NEW file \in DOMAIN project.files, NEW names, NEW items,
           Routed(s), Routed(t), Alone(s, vis), MergeOK(s, vis),
           \A i \in 1..Len(s) : s[i].todo \in Seq(T) /\ s[i].result \in Seq(T),
           Head(s[Len(s)].todo).op = "import", names = Head(s[Len(s)].todo).names,
           file \in Imports!Means(s[Len(s)].file, Head(s[Len(s)].todo)),
           items = Imports!ItemsOf(file), names = {} => file \notin vis,
           Opens(s, t, file, names, items)
    PROVE  MergeOK(t, vis \cup {file})
<1> DEFINE n == Len(s)
           x == Head(s[n].todo)
           g == s[n].file
           vis2 == vis \cup {file}
<1>1. /\ n \in Nat \ {0} /\ Len(t) = n + 1 /\ s[n].todo # <<>>
      /\ \A i \in 1..n - 1 : t[i] = s[i]
      /\ t[n].file = g /\ t[n].todo = Tail(s[n].todo) /\ t[n].result = s[n].result
      /\ t[n + 1].file = file /\ t[n + 1].names = names
      /\ t[n + 1].todo = items /\ t[n + 1].result = <<>>
  BY DEF Opens
<1>2. n \in 1..n /\ (\A i \in 1..n : i \in 1..n - 1 \/ i = n)
      /\ \A i \in 1..n + 1 : i \in 1..n \/ i = n + 1
  BY <1>1
<1>3. s[n].todo \in Seq(T) /\ s[n].result \in Seq(T)
  BY <1>2
<1>4. Items(s[n].todo) = Items(t[n].todo) \cup {x}
  BY <1>1, <1>3, ItemsTail
<1>5. /\ Whole(s) \subseteq Whole(t) /\ Whole(t) \subseteq Whole(s) \cup {n + 1}
      /\ Got(t) = Got(s)
      /\ \A f : /\ Unread(s, f) \subseteq Unread(t, f) \cup {x}
                /\ f # g => Unread(s, f) \subseteq Unread(t, f)
                /\ f # file => Unread(t, f) \subseteq Unread(s, f)
      /\ Items(items) \subseteq Unread(t, file)
      /\ \A f, j : Awaited(s, f, j) => Awaited(t, f, j)
      /\ \A j : j.names = names /\ file \in Imports!Means(g, j) => Awaited(t, g, j)
  <2>1. s[Len(s)].todo \in Seq(T)
    BY <1>3
  <2>2. OpenedSets(s, t, file, names, items)
    BY <2>1, OpensSets
  <2> QED
    BY <2>2 DEF OpenedSets
<1>6. /\ ReadOK(s) /\ Got(s) \subseteq Wanted
      /\ \A f \in Imports!Merging : f \in {<<>>} \cup vis => Covered(s, vis, f)
      /\ Fresh(s, vis) /\ Once(s)
  BY DEF MergeOK
<1>7. Apiece(t[n].todo)
  <2>1. Apiece(s[n].todo)
    BY <1>2, <1>6 DEF ReadOK, Apiece
  <2> QED
    BY <1>1, <1>3, <2>1, ApieceTail
<1>8. x.op = "import" /\ names = x.names /\ file \in Imports!Means(g, x)
  OBVIOUS
<1>9. Imports!Means(g, x) = {file}
  BY <1>8, MeansIs
<1>10. file \in Imports!Files /\ file # <<>>
  BY ProjectsAssumption DEF Imports!Files
<1>11. Apiece(items)
  BY <1>10, WrittenInFiles DEF Apiece
<1>12. file \in Imports!Merging => names = {}
  <2>1. \A i \in 1..Len(t) - 1 : i + 1 \in Whole(t) => t[i + 1].names = {}
    BY SidesOfCalls
  <2>2. n \in 1..Len(t) - 1 /\ n + 1 \in 1..Len(t)
    BY <1>1
  <2>3. file \in Imports!Merging => n + 1 \in Whole(t)
    BY <1>1, <2>2 DEF Whole
  <2> QED
    BY <1>1, <2>1, <2>2, <2>3
<1> HIDE DEF n, x, g
<1>13. \A i \in 1..n : t[i].result = s[i].result
  BY <1>1, <1>2
<1>14. ReadOK(t)
  <2> SUFFICES ASSUME NEW i \in 1..n + 1
               PROVE  /\ Exports(Items(t[i].result) \cup Items(t[i].todo))
                            = Exports(Items(Imports!ItemsOf(t[i].file)))
                      /\ Apiece(t[i].todo)
    BY <1>1 DEF ReadOK, Apiece
  <2>1. CASE i = n
    <3>1. Exports(Items(s[n].result) \cup Items(s[n].todo)) = Exports(Items(Imports!ItemsOf(g)))
      BY <1>2, <1>6 DEF ReadOK, n, g
    <3>2. Exports(Items(t[n].result) \cup Items(t[n].todo))
             = Exports(Items(s[n].result) \cup Items(s[n].todo))
      BY <1>2, <1>4, <1>8, <1>13 DEF Exports
    <3> QED
      BY <1>1, <1>7, <2>1, <3>1, <3>2
  <2>2. CASE i \in 1..n - 1
    <3>1. t[i] = s[i] /\ i \in 1..n
      BY <1>1, <2>2
    <3> QED
      BY <1>6, <3>1 DEF ReadOK, Apiece, n
  <2>3. CASE i = n + 1
    <3>1. Items(<<>>) = {}
      BY DEF Items
    <3>2. Items(t[i].result) \cup Items(t[i].todo) = Items(items) /\ t[i].file = file
      BY <1>1, <2>3, <3>1
    <3> QED
      BY <1>1, <1>11, <2>3, <3>2
  <2> QED
    BY <1>2, <2>1, <2>2, <2>3
<1>15. ASSUME NEW f \in Imports!Merging, f \in {<<>>} \cup vis2
       PROVE  Covered(t, vis2, f)
  <2>1. CASE f = file
    <3>1. Imports!Bare(f) \subseteq Unread(t, f)
      BY <1>5, <2>1, DeclaredIs DEF Declares
    <3>2. \A j \in Imports!ImportsOf(Imports!ItemsOf(f)) : j \in Unread(t, f)
      BY <1>5, <2>1, ImportsAre
    <3> QED
      BY <3>1, <3>2 DEF Covered
  <2>2. CASE f # file
    <3>1. Covered(s, vis, f)
      BY <1>6, <1>15, <2>2
    <3>2. x \notin Imports!Bare(f)
      BY <1>8, DeclaredIs DEF Declares
    <3>3. Imports!Bare(f) \subseteq Got(t) \cup Unread(t, f)
      BY <1>5, <3>1, <3>2 DEF Covered
    <3>4. ASSUME NEW j, j \in Unread(s, f), j \notin Unread(t, f)
          PROVE  \/ j.names = {} /\ Imports!Means(f, j) \subseteq vis2
                 \/ j.names # {} /\ Awaited(t, f, j)
      <4>1. j = x /\ f = g
        BY <1>5, <3>4
      <4>2. Imports!Means(f, j) \subseteq vis2
        BY <1>9, <4>1
      <4>3. Awaited(t, f, j)
        BY <1>5, <1>8, <4>1
      <4> QED
        BY <4>2, <4>3
    <3>5. \A j : Imports!Means(f, j) \subseteq vis => Imports!Means(f, j) \subseteq vis2
      OBVIOUS
    <3> HIDE DEF vis2
    <3> QED
      BY <1>5, <3>1, <3>3, <3>4, <3>5 DEF Covered
  <2> QED
    BY <2>1, <2>2
<1>16. Fresh(t, vis2)
  <2> SUFFICES ASSUME NEW f \in Imports!Merging, NEW y \in Imports!Bare(f), y \in Got(t)
               PROVE  f \in {<<>>} \cup vis2 /\ y \notin Unread(t, f)
    BY DEF Fresh
  <2>1. f \in {<<>>} \cup vis /\ y \notin Unread(s, f)
    BY <1>5, <1>6 DEF Fresh
  <2>2. f # file
    BY <1>10, <1>12, <2>1
  <2> QED
    BY <1>5, <2>1, <2>2
<1>17. Once(t)
  <2>1. \A i \in Whole(t) : \A p \in DOMAIN t[i].result : i \in Whole(s) /\ t[i].result = s[i].result
    <3> SUFFICES ASSUME NEW i \in Whole(t), NEW p \in DOMAIN t[i].result
                 PROVE  i \in Whole(s) /\ t[i].result = s[i].result
      OBVIOUS
    <3>1. DOMAIN <<>> = {}
      OBVIOUS
    <3>2. i # n + 1
      BY <1>1, <3>1
    <3>3. i \in Whole(s)
      BY <1>5, <3>2
    <3> QED
      BY <1>13, <3>3 DEF Whole, n
  <2> QED
    BY <1>6, <2>1 DEF Once
<1> QED
  BY <1>5, <1>6, <1>14, <1>15, <1>16, <1>17 DEF MergeOK

ClosedSets(s, t, E) ==
    /\ Whole(t) = Whole(s) \ {Len(s)}
    /\ \A f : Unread(t, f) = Unread(s, f)
    /\ \A f, j : Awaited(s, f, j) =>
          \/ Awaited(t, f, j)
          \/ /\ s[Len(s) - 1].file = f /\ s[Len(s)].names = j.names
             /\ s[Len(s)].file \in Imports!Means(f, j)
    /\ Len(s) - 1 \notin Whole(s) /\ Len(s) \notin Whole(s) => Got(t) = Got(s)
    /\ Len(s) - 1 \in Whole(s) /\ Len(s) \notin Whole(s) => Got(t) = Got(s) \cup Declares(Items(E))
    /\ Len(s) - 1 \in Whole(s) /\ Len(s) \in Whole(s)
          /\ Declares(Items(E)) = Declares(Items(s[Len(s)].result)) => Got(t) = Got(s)

LEMMA ClosesSets ==
    ASSUME NEW T, NEW s, NEW t, NEW E \in Seq(T), E = Imports!Extracted(s[Len(s)]), Closes(s, t),
           s[Len(s) - 1].result \in Seq(T)
    PROVE  ClosedSets(s, t, E)
<1> DEFINE n == Len(s)
<1>1. /\ n \in Nat /\ n > 1 /\ Len(t) = n - 1 /\ s[n].todo = <<>>
      /\ \A i \in 1..n - 2 : t[i] = s[i]
      /\ t[n - 1].file = s[n - 1].file /\ t[n - 1].names = s[n - 1].names
      /\ t[n - 1].todo = s[n - 1].todo
      /\ t[n - 1].result = s[n - 1].result \o E
  BY DEF Closes
<1>2. Len(s) = n
  OBVIOUS
<1>3. Items(t[n - 1].result) = Items(s[n - 1].result) \cup Items(E)
  BY <1>1, ItemsOfJoin
<1> HIDE DEF n
<1>4. /\ \A i \in 1..n - 1 : i \in 1..n /\ i # n /\ (i \in 1..n - 2 \/ i = n - 1)
      /\ \A i \in 1..n : i \in 1..n - 1 \/ i = n
      /\ \A i \in 1..n - 2 : i \in 1..n - 1 /\ i + 1 \in 1..n - 1 /\ i # n - 1
      /\ n \in 1..n /\ n - 1 \in 1..n - 1 /\ (n - 1) - 1 = n - 2 /\ (n - 1) + 1 = n
  BY <1>1
<1>5. \A i \in 1..n - 1 : /\ t[i].file = s[i].file /\ t[i].names = s[i].names
                          /\ t[i].todo = s[i].todo
  BY <1>1, <1>4
<1>6. Whole(t) = Whole(s) \ {n}
  BY <1>1, <1>2, <1>4, <1>5 DEF Whole
<1>7. ASSUME NEW f
      PROVE  Unread(t, f) = Unread(s, f)
  <2> DEFINE K == {k \in 1..n : s[k].file = f}
             L == {k \in 1..n - 1 : t[k].file = f}
  <2>1. L \subseteq K /\ K \subseteq L \cup {n} /\ L \subseteq 1..n - 1
    BY <1>4, <1>5
  <2>2. Unread(t, f) = UNION {Items(t[i].todo) : i \in L}
    BY <1>1 DEF Unread
  <2>3. Unread(s, f) = UNION {Items(s[i].todo) : i \in K}
    BY <1>2 DEF Unread
  <2>4. \A i \in L : Items(t[i].todo) = Items(s[i].todo)
    BY <1>5, <2>1
  <2>5. Items(s[n].todo) = {}
    BY <1>1 DEF Items
  <2> HIDE DEF K, L
  <2>6. \A y \in Unread(t, f) : y \in Unread(s, f)
    BY <2>1, <2>2, <2>3, <2>4
  <2>7. \A y \in Unread(s, f) : y \in Unread(t, f)
    BY <2>1, <2>2, <2>3, <2>4, <2>5
  <2> QED
    BY <2>6, <2>7
<1>8. ASSUME NEW f, NEW j, Awaited(s, f, j)
      PROVE  \/ Awaited(t, f, j)
             \/ s[n - 1].file = f /\ s[n].names = j.names /\ s[n].file \in Imports!Means(f, j)
  <2>1. PICK i \in 1..n - 1 :
          s[i].file = f /\ s[i + 1].names = j.names /\ s[i + 1].file \in Imports!Means(f, j)
    BY <1>2, <1>8 DEF Awaited
  <2>2. CASE i = n - 1
    BY <1>4, <2>1, <2>2
  <2>3. CASE i # n - 1
    <3>1. i \in 1..Len(t) - 1
      BY <1>1, <1>4, <2>3
    <3>2. /\ t[i].file = s[i].file /\ t[i + 1].names = s[i + 1].names
          /\ t[i + 1].file = s[i + 1].file
      BY <1>4, <1>5, <2>3
    <3> QED
      BY <2>1, <3>1, <3>2 DEF Awaited
  <2> QED
    BY <2>2, <2>3
<1> DEFINE A(i) == Declares(Items(t[i].result))
           B(i) == Declares(Items(s[i].result))
           D == Declares(Items(E))
<1>9. A(n - 1) = B(n - 1) \cup D
  BY <1>3 DEF Declares
<1>10. \A i \in Whole(s) : i # n /\ i # n - 1 => A(i) = B(i)
  <2> SUFFICES ASSUME NEW i \in Whole(s), i # n, i # n - 1 PROVE t[i].result = s[i].result
    OBVIOUS
  <2>1. i \in 1..n - 2
    BY <1>2, <1>4 DEF Whole
  <2> QED
    BY <1>1, <2>1
<1>11. Got(t) = UNION {A(i) : i \in Whole(s) \ {n}} /\ Got(s) = UNION {B(i) : i \in Whole(s)}
  BY <1>6 DEF Got
<1>12. n - 1 # n
  BY <1>1
<1> HIDE DEF A, B, D
<1>13. ASSUME n - 1 \notin Whole(s), n \notin Whole(s)
       PROVE  Got(t) = Got(s)
  <2>1. \A y \in Got(t) : y \in Got(s)
    BY <1>10, <1>11, <1>13
  <2>2. \A y \in Got(s) : y \in Got(t)
    BY <1>10, <1>11, <1>13
  <2> QED
    BY <2>1, <2>2
<1>14. ASSUME n - 1 \in Whole(s), n \notin Whole(s)
       PROVE  Got(t) = Got(s) \cup D
  <2>1. \A y \in Got(t) : y \in Got(s) \cup D
    BY <1>9, <1>10, <1>11, <1>14
  <2>2. \A y \in Got(s) \cup D : y \in Got(t)
    BY <1>9, <1>10, <1>11, <1>12, <1>14
  <2> QED
    BY <2>1, <2>2
<1>15. ASSUME n - 1 \in Whole(s), n \in Whole(s), D = B(n)
       PROVE  Got(t) = Got(s)
  <2>1. \A y \in Got(t) : y \in Got(s)
    BY <1>9, <1>10, <1>11, <1>15
  <2>2. \A y \in Got(s) : y \in Got(t)
    BY <1>9, <1>10, <1>11, <1>12, <1>15
  <2> QED
    BY <2>1, <2>2
<1> QED
  BY <1>6, <1>7, <1>8, <1>13, <1>14, <1>15 DEF n, B, D, ClosedSets

LEMMA ClosesMerges ==
    ASSUME WrittenOnce, project \in Projects, Apart, NEW T,
           \A x \in T : x.op = "export" => x.items \in Seq(T), NEW s, NEW t, NEW vis,
           Routed(s), Alone(s, vis), MergeOK(s, vis),
           \A i \in 1..Len(s) : s[i].todo \in Seq(T) /\ s[i].result \in Seq(T),
           Closes(s, t)
    PROVE  MergeOK(t, vis)
<1> DEFINE n == Len(s)
           c == s[n]
           g == c.file
           f0 == s[n - 1].file
           E == Imports!Extracted(c)
           R == c.result
           Q == s[n - 1].result
<1>1. /\ n \in Nat /\ n > 1 /\ Len(t) = n - 1 /\ c.todo = <<>>
      /\ \A i \in 1..n - 2 : t[i] = s[i]
      /\ t[n - 1].file = f0 /\ t[n - 1].todo = s[n - 1].todo
      /\ t[n - 1].result = Q \o E
  BY DEF Closes
<1>2. /\ n \in 1..n /\ n - 1 \in 1..n /\ n - 1 \in 1..n - 1 /\ (n - 1) + 1 = n /\ n - 1 # n
      /\ \A i \in 1..n - 1 : i \in 1..n /\ (i \in 1..n - 2 \/ i = n - 1)
  BY <1>1
<1>3. R \in Seq(T) /\ Q \in Seq(T)
  BY <1>2
<1>4. /\ E \in Seq(T)
      /\ c.names = {} =>
            /\ Items(E) = {x \in Items(R) : x.op # "export"}
            /\ \E a : /\ \A p \in DOMAIN E : a[p] \in DOMAIN R /\ E[p] = R[a[p]]
                      /\ \A p, q \in DOMAIN E : a[p] = a[q] => p = q
      /\ c.names # {} =>
            Items(E) = UNION {Items(e.items) : e \in {x \in Exports(Items(R)) : x.name \in c.names}}
  <2> HIDE DEF c
  <2> QED
    BY <1>3, ExtractedItems, ZenonT(30)
<1>5. ClosedSets(s, t, E)
  <2>1. E \in Seq(T) /\ E = Imports!Extracted(s[Len(s)]) /\ s[Len(s) - 1].result \in Seq(T)
    BY <1>3, <1>4
  <2> HIDE DEF E
  <2> QED
    BY <2>1, ClosesSets
<1>6. /\ ReadOK(s) /\ Got(s) \subseteq Wanted
      /\ \A f \in Imports!Merging : f \in {<<>>} \cup vis => Covered(s, vis, f)
      /\ Fresh(s, vis) /\ Once(s)
  BY DEF MergeOK
<1>7. /\ n \in Whole(s) => n - 1 \in Whole(s) /\ c.names = {}
      /\ n - 1 \in Whole(s) /\ c.names = {} => n \in Whole(s)
  <2>1. n - 1 \in 1..Len(s) - 1 /\ (n - 1) + 1 = n
    BY <1>2
  <2>2. ASSUME NEW i \in 1..Len(s) - 1
        PROVE  /\ i + 1 \in Whole(s) => i \in Whole(s) /\ s[i + 1].names = {}
               /\ i \in Whole(s) /\ s[i + 1].names = {} => i + 1 \in Whole(s)
    BY SidesOfCalls
  <2>3. /\ (n - 1) + 1 \in Whole(s) => n - 1 \in Whole(s) /\ s[(n - 1) + 1].names = {}
        /\ n - 1 \in Whole(s) /\ s[(n - 1) + 1].names = {} => (n - 1) + 1 \in Whole(s)
    <3> DEFINE m == n - 1
    <3> HIDE DEF m
    <3>1. m \in 1..Len(s) - 1
      BY <2>1 DEF m
    <3>2. /\ m + 1 \in Whole(s) => m \in Whole(s) /\ s[m + 1].names = {}
          /\ m \in Whole(s) /\ s[m + 1].names = {} => m + 1 \in Whole(s)
      BY <2>2, <3>1
    <3> QED
      BY <3>2 DEF m
  <2> HIDE DEF n
  <2> QED
    BY <2>1, <2>3
<1>8. PICK import \in Imports!ImportsOf(Imports!ItemsOf(f0)) :
          c.names = import.names /\ g \in Imports!Means(f0, import)
  BY <1>2 DEF Routed
<1>9. g \in Imports!Files
  BY <1>2 DEF Routed
<1>10. Exports(Items(R)) = Exports(Items(Imports!ItemsOf(g)))
  <2>1. Exports(Items(R) \cup Items(c.todo)) = Exports(Items(Imports!ItemsOf(g)))
    BY <1>2, <1>6 DEF ReadOK
  <2>2. Items(c.todo) = {}
    BY <1>1 DEF Items
  <2> HIDE DEF R, c, g
  <2>3. Items(R) \cup {} = Items(R)
    OBVIOUS
  <2> QED
    BY <2>1, <2>2, <2>3
<1>11. n - 1 \in Whole(s) <=> f0 \in Imports!Merging
  BY <1>2 DEF Whole
<1> HIDE DEF n, g, f0, E, R, Q, c
<1>12. c.names # {} => Items(E) = Imports!Exported(g, c.names)
  BY <1>4, <1>10, DeclaredIs
<1>13. \A e \in Exports(Items(R)) : \A x \in Items(e.items) :
          x.op = "declare" /\ \A f \in Imports!Files : x \notin Imports!Bare(f)
  BY <1>9, <1>10, ExportedApart
<1>14. c.names # {} => \A x \in Items(E) : x.op = "declare" /\ \A f \in Imports!Files : x \notin Imports!Bare(f)
  BY <1>4, <1>13
<1>15. Exports(Items(E)) = {} /\ (c.names = {} => Declares(Items(E)) = Declares(Items(R)))
       /\ (c.names # {} => Declares(Items(E)) = Items(E))
  <2>1. CASE c.names = {}
    BY <1>4, <2>1 DEF Exports, Declares
  <2>2. CASE c.names # {}
    BY <1>14, <2>2 DEF Exports, Declares
  <2> QED
    BY <2>1, <2>2
<1>16. /\ Whole(t) = Whole(s) \ {n}
       /\ \A f : Unread(t, f) = Unread(s, f)
       /\ \A f, j : Awaited(s, f, j) =>
             \/ Awaited(t, f, j)
             \/ f0 = f /\ c.names = j.names /\ g \in Imports!Means(f, j)
       /\ n - 1 \notin Whole(s) /\ n \notin Whole(s) => Got(t) = Got(s)
       /\ n - 1 \in Whole(s) /\ n \notin Whole(s) => Got(t) = Got(s) \cup Declares(Items(E))
       /\ n - 1 \in Whole(s) /\ n \in Whole(s) /\ Declares(Items(E)) = Declares(Items(R))
             => Got(t) = Got(s)
  BY <1>5 DEF ClosedSets, n, f0, c, g, R
<1>17. \/ Got(t) = Got(s) /\ (n \in Whole(s) \/ n - 1 \notin Whole(s))
       \/ /\ n - 1 \in Whole(s) /\ n \notin Whole(s) /\ c.names # {}
          /\ Got(t) = Got(s) \cup Items(E)
  <2>1. CASE n \in Whole(s)
    BY <1>7, <1>15, <1>16, <2>1
  <2>2. CASE n \notin Whole(s) /\ n - 1 \notin Whole(s)
    BY <1>16, <2>2
  <2>3. CASE n \notin Whole(s) /\ n - 1 \in Whole(s)
    <3>1. c.names # {}
      BY <1>7, <2>3
    <3> QED
      BY <1>15, <1>16, <2>3, <3>1
  <2> QED
    BY <2>1, <2>2, <2>3
<1>18. ReadOK(t)
  <2> SUFFICES ASSUME NEW i \in 1..n - 1
               PROVE  /\ Exports(Items(t[i].result) \cup Items(t[i].todo))
                            = Exports(Items(Imports!ItemsOf(t[i].file)))
                      /\ Apiece(t[i].todo)
    BY <1>1 DEF ReadOK, Apiece
  <2>1. CASE i = n - 1
    <3>1. Exports(Items(Q) \cup Items(s[n - 1].todo)) = Exports(Items(Imports!ItemsOf(f0)))
      BY <1>2, <1>6 DEF ReadOK, n, f0, Q
    <3>5. Items(Q \o E) = Items(Q) \cup Items(E)
      BY <1>3, <1>4, ItemsOfJoin
    <3>2. Items(t[i].result) = Items(Q) \cup Items(E)
      BY <1>1, <2>1, <3>5
    <3>3. Exports(Items(t[i].result) \cup Items(t[i].todo)) = Exports(Items(Q) \cup Items(s[n - 1].todo))
      BY <1>1, <1>15, <2>1, <3>2 DEF Exports
    <3>4. Apiece(s[n - 1].todo)
      BY <1>2, <1>6 DEF ReadOK, Apiece, n
    <3> QED
      BY <1>1, <2>1, <3>1, <3>3, <3>4
  <2>2. CASE i # n - 1
    <3>1. t[i] = s[i] /\ i \in 1..n
      BY <1>1, <1>2, <2>2
    <3> QED
      BY <1>6, <3>1 DEF ReadOK, Apiece, n
  <2> QED
    BY <2>1, <2>2
<1>19. Got(t) \subseteq Wanted
  <2>1. CASE n - 1 \in Whole(s) /\ c.names # {} /\ Got(t) = Got(s) \cup Items(E)
    <3>1. Imports!Asked(f0, import) = Imports!Exported(g, c.names)
      BY <1>8, DeclaredIs
    <3>2. Imports!Asked(f0, import) \subseteq Imports!Declared(f0)
      BY <1>8, <2>1, DeclaredIs
    <3>3. Imports!Declared(f0) \subseteq Wanted
      BY <1>11, <2>1 DEF Wanted
    <3> QED
      BY <1>6, <1>12, <2>1, <3>1, <3>2, <3>3
  <2> QED
    BY <1>6, <1>17, <2>1
<1>20. ASSUME NEW f \in Imports!Merging, f \in {<<>>} \cup vis
       PROVE  Covered(t, vis, f)
  <2>1. Covered(s, vis, f) /\ Got(s) \subseteq Got(t) /\ Unread(t, f) = Unread(s, f)
    BY <1>6, <1>16, <1>17, <1>20
  <2>2. ASSUME NEW j, j.names # {}, Awaited(s, f, j)
        PROVE  Awaited(t, f, j) \/ Imports!Asked(f, j) \subseteq Got(t)
    <3>1. CASE f0 = f /\ c.names = j.names /\ g \in Imports!Means(f, j)
      <4>1. n - 1 \in Whole(s) /\ n \notin Whole(s)
        BY <1>7, <1>11, <2>2, <3>1
      <4>2. Got(t) = Got(s) \cup Items(E)
        BY <1>17, <4>1
      <4>3. Imports!Asked(f, j) = Imports!Exported(g, c.names)
        BY <3>1, DeclaredIs
      <4> QED
        BY <1>12, <2>2, <3>1, <4>2, <4>3
    <3> QED
      BY <1>16, <2>2, <3>1
  <2>3. \A j : Imports!Asked(f, j) \subseteq Got(s) => Imports!Asked(f, j) \subseteq Got(t)
    BY <2>1
  <2> QED
    BY <2>1, <2>2, <2>3 DEF Covered
<1>21. Fresh(t, vis)
  <2> SUFFICES ASSUME NEW f \in Imports!Merging, NEW y \in Imports!Bare(f), y \in Got(t)
               PROVE  f \in {<<>>} \cup vis /\ y \notin Unread(t, f)
    BY DEF Fresh
  <2>1. f \in Imports!Files
    BY SidesOfFiles
  <2>2. y \in Got(s)
    BY <1>14, <1>17, <2>1
  <2> QED
    BY <1>6, <1>16, <2>2 DEF Fresh
<1>22. PICK a : n \in Whole(s) =>
          /\ \A p \in DOMAIN E : a[p] \in DOMAIN R /\ E[p] = R[a[p]]
          /\ \A p, q \in DOMAIN E : a[p] = a[q] => p = q
  BY <1>4, <1>7
<1> DEFINE k == Len(Q)
<1>23. /\ k \in Nat /\ DOMAIN Q = 1..k /\ DOMAIN E = 1..Len(E) /\ Len(E) \in Nat
       /\ DOMAIN (Q \o E) = 1..k + Len(E)
       /\ \A p \in 1..k + Len(E) : (Q \o E)[p] = IF p <= k THEN Q[p] ELSE E[p - k]
  BY <1>3, <1>4, LenProperties, ConcatProperties
<1> HIDE DEF k
<1> DEFINE Old(i, p) == i \in Whole(s) /\ i # n /\ p \in DOMAIN s[i].result /\ t[i].result[p] = s[i].result[p]
           New(i, p) == /\ i = n - 1 /\ n \in Whole(s) /\ p \in 1..k + Len(E) /\ p - k \in DOMAIN E
                        /\ a[p - k] \in DOMAIN s[n].result /\ t[i].result[p] = s[n].result[a[p - k]]
<1>24. ASSUME NEW i \in Whole(t), NEW p \in DOMAIN t[i].result, t[i].result[p] \in Bares
       PROVE  Old(i, p) \/ New(i, p)
  <2>1. i \in Whole(s) /\ i # n
    BY <1>16
  <2>2. i \in 1..n
    BY <2>1 DEF Whole, n
  <2>3. i \in 1..n - 1
    BY <1>1, <2>1, <2>2
  <2>4. CASE i # n - 1
    <3>1. t[i] = s[i]
      BY <1>1, <1>2, <2>3, <2>4
    <3> QED
      BY <2>1, <3>1
  <2>5. CASE i = n - 1
    <3>1. p \in 1..k + Len(E) /\ t[i].result[p] = (Q \o E)[p]
      BY <1>1, <1>23, <2>5
    <3>2. CASE p <= k
      <4>1. p \in DOMAIN Q /\ t[i].result[p] = Q[p]
        BY <1>23, <3>1, <3>2
      <4> QED
        BY <2>1, <2>5, <4>1 DEF Q
    <3>3. CASE ~ p <= k
      <4>1. p - k \in DOMAIN E /\ t[i].result[p] = E[p - k]
        BY <1>23, <3>1, <3>3
      <4>2. CASE n \in Whole(s)
        <5>1. a[p - k] \in DOMAIN R /\ E[p - k] = R[a[p - k]]
          BY <1>22, <4>1, <4>2
        <5> QED
          BY <2>5, <3>1, <4>1, <4>2, <5>1 DEF R, c
      <4>3. CASE n \notin Whole(s)
        <5>1. c.names # {}
          BY <1>7, <2>1, <2>5, <4>3
        <5>2. E[p - k] \in Items(E)
          BY <4>1 DEF Items
        <5>3. PICK f \in Imports!Merging : E[p - k] \in Imports!Bare(f)
          BY <1>24, <4>1 DEF Bares
        <5>4. f \in Imports!Files
          BY SidesOfFiles
        <5> QED
          BY <1>14, <5>1, <5>2, <5>3, <5>4
      <4> QED
        BY <4>2, <4>3
    <3> QED
      BY <3>2, <3>3
  <2> QED
    BY <2>4, <2>5
<1>25. ASSUME NEW i, NEW j, NEW p, NEW q, t[i].result[p] = t[j].result[q], t[i].result[p] \in Bares,
              Old(i, p) \/ New(i, p), Old(j, q) \/ New(j, q)
       PROVE  i = j /\ p = q
  <2>1. CASE Old(i, p) /\ Old(j, q)
    <3>1. s[i].result[p] = s[j].result[q] /\ s[i].result[p] \in Bares
      BY <1>25, <2>1
    <3> QED
      BY <1>6, <2>1, <3>1 DEF Once
  <2>2. CASE New(i, p) /\ New(j, q)
    <3>1. s[n].result[a[p - k]] = s[n].result[a[q - k]] /\ s[n].result[a[p - k]] \in Bares
      BY <1>25, <2>2
    <3>2. a[p - k] = a[q - k]
      BY <1>6, <2>2, <3>1 DEF Once
    <3>3. p - k = q - k
      BY <1>22, <2>2, <3>2
    <3> QED
      BY <1>23, <2>2, <3>3
  <2>3. CASE Old(i, p) /\ New(j, q)
    <3>1. s[i].result[p] = s[n].result[a[q - k]] /\ s[i].result[p] \in Bares
      BY <1>25, <2>3
    <3>2. i = n
      BY <1>6, <2>3, <3>1 DEF Once
    <3> QED
      BY <2>3, <3>2
  <2>4. CASE New(i, p) /\ Old(j, q)
    <3>1. s[n].result[a[p - k]] = s[j].result[q] /\ s[n].result[a[p - k]] \in Bares
      BY <1>25, <2>4
    <3>2. n = j
      BY <1>6, <2>4, <3>1 DEF Once
    <3> QED
      BY <2>4, <3>2
  <2> QED
    BY <1>25, <2>1, <2>2, <2>3, <2>4
<1> HIDE DEF Old, New
<1>26. Once(t)
  BY <1>24, <1>25 DEF Once
<1> QED
  BY <1>16, <1>18, <1>19, <1>20, <1>21, <1>26 DEF MergeOK

LEMMA ApartStays ==
    ASSUME project' = project
    PROVE  Apart' <=> Apart
<1>1. /\ Imports!Plain' = Imports!Plain /\ Imports!Named' = Imports!Named
      /\ Imports!Imported' = Imports!Imported
  BY GraphStays
<1>2. ASSUME NEW from, NEW next
      PROVE  Imports!Reached(from, next)' = Imports!Reached(from, next)
  BY DEF Imports!Reached, Imports!Cardinality
<1>3. Imports!Merging' = Imports!Merging
  BY <1>1, <1>2 DEF Imports!Merging
<1>4. Imports!ByName' = Imports!ByName
  BY <1>1, <1>2, <1>3 DEF Imports!ByName
<1> QED
  BY <1>3, <1>4 DEF Apart

\* No file has two calls, and all that have one but the root have been visited.
LEMMA CallsAlone ==
    ASSUME NEW T, Reading(T), Marks(calls, inProgress),
           ImportsOK(calls, visited, inProgress, importDiags)
    PROVE  Alone(calls, visited)
<1> DEFINE n == Len(calls)
<1>1. /\ n \in Nat \ {0} /\ calls[1].file = <<>>
      /\ inProgress \subseteq visited /\ visited \subseteq DOMAIN project.files
  BY DEF ImportsOK, Routed
<1>2. /\ inProgress = {calls[i].file : i \in 2..n}
      /\ \A i, j \in 2..n : calls[i].file = calls[j].file => i = j
  BY DEF Marks
<1>3. <<>> \notin DOMAIN project.files
  BY ProjectsAssumption DEF Reading
<1>4. \A i \in 1..n : i = 1 \/ i \in 2..n
  BY <1>1
<1>5. \A i \in 2..n : calls[i].file \in visited /\ calls[i].file # <<>>
  BY <1>1, <1>2, <1>3
<1>6. ASSUME NEW i \in 1..n, NEW j \in 1..n, calls[i].file = calls[j].file
      PROVE  i = j
  BY <1>1, <1>2, <1>4, <1>5, <1>6
<1>7. \A i \in 1..n : calls[i].file \in {<<>>} \cup visited
  BY <1>1, <1>4, <1>5
<1> QED
  BY <1>6, <1>7 DEF Alone

\* While nothing has been reported, imports are found and files clean.
LEMMA ResolveKeepsMerges ==
    ASSUME WrittenOnce, Apart, NEW T, NEW I, ItemsOfFiles(T, I), Reading(T), Marks(calls, inProgress),
           ImportsOK(calls, visited, inProgress, importDiags), Imports!Resolve, importDiags' = {},
           MergeOK(calls, visited)
    PROVE  MergeOK(calls', visited')
<1> DEFINE n == Len(calls)
           f == calls[n]
           x == Head(f.todo)
           g == Imports!Target
<1>1. /\ calls # <<>> /\ Imports!Top = f /\ n \in Nat \ {0}
      /\ Imports!Keep => Moves(calls, calls', Append(Imports!Top.result, Imports!Item))
      /\ Imports!NotFound \/ Imports!Circular \/ Imports!SkipMerged
           \/ Imports!Unreadable \/ Imports!Unparsable =>
             Moves(calls, calls', Imports!Top.result)
      /\ Imports!Open => Opens(calls, calls', g, Imports!Item.names, Imports!Source.items)
      /\ Imports!Close => Closes(calls, calls')
  BY ResolveShape
<1>2. Imports!Item = x
  BY <1>1 DEF Imports!Item
<1>3. Routed(calls) /\ project \in Projects /\ Alone(calls, visited)
  BY CallsAlone DEF ImportsOK, Reading
<1>4. DOMAIN calls = 1..n
  BY LenProperties DEF Reading
<1>5. \A i \in 1..n : calls[i].todo \in Seq(T) /\ calls[i].result \in Seq(T)
  BY <1>4, ReadingCall
<1>6. \A file \in DOMAIN project.files :
         Imports!ItemsOf(file) = IF project.files[file].state \in {"clean", "faulty"}
                                 THEN project.files[file].items ELSE <<>>
  BY <1>3, ProjectsAssumption DEF Imports!ItemsOf
<1>7. Imports!Imports => x.op = "import"
  BY <1>2 DEF Imports!Imports
<1>8. Imports!Found # {} => /\ Imports!Means(f.file, x) = {g}
                            /\ g \in DOMAIN project.files
  BY <1>1, <1>2, TargetMeant
<1> HIDE DEF n, f, x, g
<1>9. CASE Imports!Keep
  <2>1. /\ Moves(calls, calls', Append(calls[Len(calls)].result, Head(calls[Len(calls)].todo)))
        /\ Head(calls[Len(calls)].todo).op # "import" /\ visited' = visited
    BY <1>1, <1>2, <1>9 DEF Imports!Keep, f, x, n
  <2>2. \A i \in 1..Len(calls) : calls[i].todo \in Seq(T) /\ calls[i].result \in Seq(T)
    BY <1>5 DEF n
  <2>3. MergeOK(calls', visited)
    BY <1>3, <2>1, <2>2, KeepMerges
  <2> QED
    BY <2>1, <2>3
<1>10. CASE Imports!SkipMerged
  <2>1. /\ Moves(calls, calls', calls[Len(calls)].result) /\ visited' = visited
        /\ Imports!Imports /\ Imports!Found # {} /\ Imports!IsMerged
    BY <1>1, <1>10 DEF Imports!SkipMerged, f, n
  <2>2. x.op = "import" /\ x.names = {} /\ Imports!Means(f.file, x) \subseteq visited
    BY <1>2, <1>7, <1>8, <2>1 DEF Imports!IsMerged, g
  <2>3. /\ Head(calls[Len(calls)].todo).op = "import" /\ Head(calls[Len(calls)].todo).names = {}
        /\ Imports!Means(calls[Len(calls)].file, Head(calls[Len(calls)].todo)) \subseteq visited
    BY <2>2 DEF f, x, n
  <2>4. \A i \in 1..Len(calls) : calls[i].todo \in Seq(T) /\ calls[i].result \in Seq(T)
    BY <1>5 DEF n
  <2>5. MergeOK(calls', visited)
    BY <1>3, <2>1, <2>3, <2>4, SkipMerges
  <2> QED
    BY <2>1, <2>5
<1>11. CASE Imports!Open
  <2> DEFINE items == project.files[g].items
             names == x.names
             file == g
  <2>1. Opens(calls, calls', g, names, items) /\ visited' = visited \cup {g}
    BY <1>1, <1>2, <1>11 DEF Imports!Open, Imports!Source, g
  <2>2. /\ Imports!Imports /\ Imports!Found # {} /\ ~ Imports!IsMerged
        /\ project.files[g].state \in {"clean", "faulty"}
    BY <1>11 DEF Imports!Open, Imports!Visits, Imports!Source, g
  <2>3. g \in DOMAIN project.files /\ Imports!ItemsOf(g) = items
    BY <1>6, <1>8, <2>2
  <2>4. x.op = "import" /\ g \in Imports!Means(f.file, x) /\ (names = {} => g \notin visited)
    BY <1>2, <1>7, <1>8, <2>2 DEF Imports!IsMerged, g
  <2>5. /\ Opens(calls, calls', file, names, items) /\ file \in DOMAIN project.files
        /\ \A i \in 1..Len(calls) : calls[i].todo \in Seq(T) /\ calls[i].result \in Seq(T)
        /\ Head(calls[Len(calls)].todo).op = "import"
        /\ names = Head(calls[Len(calls)].todo).names
        /\ file \in Imports!Means(calls[Len(calls)].file, Head(calls[Len(calls)].todo))
        /\ items = Imports!ItemsOf(file) /\ Items(items) \subseteq Items(Imports!ItemsOf(file))
        /\ names = {} => file \notin visited
    BY <1>5, <2>1, <2>3, <2>4 DEF n, f, x
  <2> HIDE DEF items, names, file
  <2>6. Routed(calls')
    BY <1>3, <2>5, OpensRouted
  <2>7. MergeOK(calls', visited \cup {file})
    BY <1>3, <2>5, <2>6, OpensMerges
  <2> QED
    BY <2>1, <2>7 DEF file
<1>12. CASE Imports!Close
  <2>1. Closes(calls, calls') /\ visited' = visited
    BY <1>1, <1>12 DEF Imports!Close
  <2>2. \A i \in 1..Len(calls) : calls[i].todo \in Seq(T) /\ calls[i].result \in Seq(T)
    BY <1>5 DEF n
  <2>3. \A t \in T : t.op = "export" => t.items \in Seq(T)
    BY DEF ItemsOfFiles
  <2>4. MergeOK(calls', visited)
    BY <1>3, <2>1, <2>2, <2>3, ClosesMerges
  <2> QED
    BY <2>1, <2>4
<1>13. CASE Imports!NotFound \/ Imports!Circular \/ Imports!Unreadable
  BY <1>13 DEF Imports!NotFound, Imports!Circular, Imports!Unreadable, Imports!Report
<1>14. CASE Imports!Unparsable
  BY <1>14 DEF Imports!Unparsable
<1> QED
  BY <1>9, <1>10, <1>11, <1>12, <1>13, <1>14 DEF Imports!Resolve

\* The invariant of what is merged, as long as nothing was reported.
MInv(T) ==
    /\ CInv(T)
    /\ importDiags = {} /\ Apart => MergeOK(calls, visited)

LEMMA InitMerges ==
    ASSUME WrittenOnce, NEW T, NEW I, ItemsOfFiles(T, I), Init, Apart
    PROVE  MergeOK(calls, visited)
<1> DEFINE f == Imports!Frame(<<>>, {}, project.root)
           root == Imports!ItemsOf(<<>>)
<1>1. /\ calls = <<f>> /\ visited = {} /\ project \in Projects
  BY DEF Init, Imports!Init
<1>2. f.file = <<>> /\ f.todo = project.root /\ f.result = <<>>
  BY DEF Imports!Frame
<1>3. root = project.root /\ <<>> \in Imports!Files
  BY DEF Imports!ItemsOf, Imports!Files
<1> HIDE DEF f, root
<1>4. Len(calls) = 1 /\ calls[1] = f /\ 1 \in 1..1 /\ \A i \in 1..1 : i = 1
  BY <1>1
<1>5. Items(<<>>) = {} /\ DOMAIN <<>> = {}
  BY DEF Items
<1>6. \A k : k \in Whole(calls) => k = 1
  BY <1>4 DEF Whole
<1>7. Got(calls) = {}
  <2>1. \A i \in Whole(calls) : Declares(Items(calls[i].result)) = {}
    BY <1>2, <1>4, <1>5, <1>6 DEF Declares
  <2> QED
    BY <2>1 DEF Got
<1>8. Unread(calls, <<>>) = Items(root)
  <2>1. {k \in 1..Len(calls) : calls[k].file = <<>>} = {1}
    BY <1>2, <1>4
  <2> QED
    BY <1>2, <1>3, <1>4, <2>1 DEF Unread
<1>9. ReadOK(calls)
  <2>1. ASSUME NEW p \in DOMAIN root, NEW q \in DOMAIN root, root[p].op = "declare", root[p] = root[q]
        PROVE  p = q
    BY <1>1, <1>3, <2>1, WrittenInFiles DEF root
  <2>2. {} \cup Items(root) = Items(root)
    OBVIOUS
  <2> QED
    BY <1>2, <1>3, <1>4, <1>5, <2>1, <2>2 DEF ReadOK, root
<1>10. Covered(calls, visited, <<>>)
  <2>1. Imports!Bare(<<>>) = Declares(Items(root))
    BY DeclaredIs DEF root
  <2>2. Imports!ImportsOf(Imports!ItemsOf(<<>>)) = {y \in Items(root) : y.op = "import"}
    BY ImportsAre DEF root
  <2>3. Imports!Bare(<<>>) \subseteq Unread(calls, <<>>)
    BY <1>8, <2>1 DEF Declares
  <2>4. \A j \in Imports!ImportsOf(Imports!ItemsOf(<<>>)) : j \in Unread(calls, <<>>)
    BY <1>8, <2>2
  <2> QED
    BY <2>3, <2>4 DEF Covered
<1>11. Once(calls)
  BY <1>2, <1>4, <1>5, <1>6 DEF Once
<1> QED
  BY <1>1, <1>7, <1>9, <1>10, <1>11 DEF MergeOK, Fresh

LEMMA StepsKeepMerges ==
    ASSUME WrittenOnce, NEW T, NEW I, ItemsOfFiles(T, I), MInv(T), [Next]_vars
    PROVE  MInv(T)'
<1>1. CInv(T)'
  BY StepsKeepImports DEF MInv
<1>2. /\ Reading(T) /\ Marks(calls, inProgress)
      /\ ImportsOK(calls, visited, inProgress, importDiags)
  BY DEF MInv, CInv, IInv
<1> SUFFICES ASSUME importDiags' = {}, Apart'
             PROVE  MergeOK(calls, visited)'
  BY <1>1 DEF MInv
<1>3. ASSUME UNCHANGED importVars
      PROVE  MergeOK(calls, visited)'
  <2>1. project' = project /\ calls' = calls /\ visited' = visited /\ importDiags' = importDiags
    BY <1>3 DEF importVars
  <2>2. MergeOK(calls, visited)
    BY <2>1, ApartStays DEF MInv
  <2>3. MergeOK(calls', visited')
    BY <2>1, <2>2
  <2> QED
    BY <2>1, <2>3, MergeStays
<1>4. CASE ResolveImports
  <2>1. Imports!Resolve
    BY <1>4 DEF ResolveImports
  <2>2. project' = project /\ importDiags \subseteq importDiags'
    <3>1. CASE Imports!Keep \/ Imports!SkipMerged
      BY <3>1 DEF Imports!Keep, Imports!SkipMerged
    <3>2. CASE Imports!NotFound \/ Imports!Circular \/ Imports!Unreadable
      BY <3>2 DEF Imports!NotFound, Imports!Circular, Imports!Unreadable, Imports!Report
    <3>3. CASE Imports!Unparsable
      BY <3>3 DEF Imports!Unparsable
    <3>4. CASE Imports!Open
      BY <3>4 DEF Imports!Open
    <3>5. CASE Imports!Close
      BY <3>5 DEF Imports!Close
    <3> QED
      BY <2>1, <3>1, <3>2, <3>3, <3>4, <3>5 DEF Imports!Resolve
  <2>3. importDiags = {} /\ Apart
    BY <2>2, ApartStays
  <2>4. MergeOK(calls', visited')
    BY <1>2, <2>1, <2>3, ResolveKeepsMerges DEF MInv
  <2> QED
    BY <2>2, <2>4, MergeStays
<1>5. CASE RefuseImports \/ StartLowering \/ Lower \/ Return \/ UNCHANGED vars
  BY <1>3, <1>5 DEF RefuseImports, StartLowering, Lower, Return, vars
<1> QED
  BY <1>4, <1>5 DEF Next

LEMMA MergedAtEnd ==
    ASSUME NEW T, MInv(T), Imports!Accepted, Apart
    PROVE  /\ Imports!Merged = Wanted
           /\ \A i, j \in Imports!Declarations :
                 Imports!Output[i] = Imports!Output[j] /\ Imports!Output[i] \in Bares => i = j
<1> DEFINE q == Imports!Output
<1>1. /\ MergeOK(calls, visited) /\ Routed(calls) /\ project \in Projects
      /\ Len(calls) = 1 /\ Imports!Top.todo = <<>>
  BY DEF MInv, CInv, Reading, ImportsOK, Imports!Accepted, Imports!Finished
<1>2. /\ calls[1].todo = <<>> /\ calls[1].file = <<>> /\ q = calls[1].result
  BY <1>1, SameStacks DEF Imports!Top, Last, Routed, Imports!Output
<1> HIDE DEF q
<1>3. 1 \in 1..1 /\ 1..1 - 1 = {} /\ \A i \in 1..1 : i = 1
  OBVIOUS
<1>4. Whole(calls) = {1}
  BY <1>1, <1>2, <1>3, SidesOfFiles DEF Whole
<1>5. Got(calls) = Imports!Merged
  <2>1. Got(calls) = Declares(Items(q))
    BY <1>2, <1>4 DEF Got
  <2>2. Imports!Merged = {q[i] : i \in {k \in DOMAIN q : q[k].op = "declare"}}
    BY DEF Imports!Merged, Imports!Declarations, q
  <2> QED
    BY <2>1, <2>2 DEF Declares, Items
<1>6. \A f : Unread(calls, f) = {}
  <2>1. \A i \in 1..Len(calls) : Items(calls[i].todo) = {}
    BY <1>1, <1>2, <1>3 DEF Items
  <2> QED
    BY <2>1 DEF Unread
<1>7. \A f, j : ~ Awaited(calls, f, j)
  BY <1>1, <1>3 DEF Awaited
<1>8. ASSUME NEW f \in Imports!Merging, f \in {<<>>} \cup visited
      PROVE  /\ Imports!Bare(f) \subseteq Got(calls)
             /\ \A j \in Imports!ImportsOf(Imports!ItemsOf(f)) :
                   /\ j.names = {} => Imports!Means(f, j) \subseteq visited
                   /\ j.names # {} => Imports!Asked(f, j) \subseteq Got(calls)
  <2>1. Covered(calls, visited, f)
    BY <1>1, <1>8 DEF MergeOK
  <2> QED
    BY <1>6, <1>7, <2>1 DEF Covered
<1>9. Imports!Merging \subseteq {<<>>} \cup visited
  <2> DEFINE S == {f \in Imports!Merging : f \in {<<>>} \cup visited}
  <2>1. <<>> \in S
    BY <1>1, SidesOfFiles
  <2>2. ASSUME NEW f \in S, NEW g \in Imports!Plain[f]
        PROVE  g \in S
    <3>1. f \in Imports!Files /\ g \in Imports!Merging
      BY <1>1, <2>2, SidesOfFiles
    <3>2. PICK j \in Imports!ImportsOf(Imports!ItemsOf(f)) : j.names = {} /\ g \in Imports!Means(f, j)
      BY <2>2, <3>1, ImportedIs
    <3> QED
      BY <1>8, <3>1, <3>2
  <2>3. ClosedUnder(S, Imports!Plain)
    BY <2>2 DEF ClosedUnder
  <2> HIDE DEF S
  <2>4. Imports!Merging \subseteq S
    BY <1>1, <2>1, <2>3, SidesOfFiles
  <2> QED
    BY <2>4 DEF S
<1>10. \A f \in Imports!Merging : Imports!Declared(f) \subseteq Got(calls)
  BY <1>8, <1>9 DEF Imports!Declared
<1>11. Got(calls) = Wanted
  BY <1>1, <1>10 DEF MergeOK, Wanted
<1>12. ASSUME NEW i \in Imports!Declarations, NEW j \in Imports!Declarations,
              q[i] = q[j], q[i] \in Bares
       PROVE  i = j
  <2>1. i \in DOMAIN calls[1].result /\ j \in DOMAIN calls[1].result
    BY <1>2 DEF Imports!Declarations, q
  <2> QED
    BY <1>1, <1>2, <1>4, <1>12, <2>1 DEF MergeOK, Once
<1> QED
  BY <1>5, <1>11, <1>12 DEF q

\* Where no file is imported both as a whole and in part, and every declaration is written
\* in one place, a program accepted has merged what its imports ask for: the bare
\* declarations of all files that plain imports reach and the exports these files name,
\* nothing else, and each bare declaration once, over any diamond.
THEOREM MergesStayAsWritten ==
    ASSUME NEW T, NEW I, ItemsOfFiles(T, I), WrittenOnce
    PROVE  Spec => []MergedAsWritten
<1>1. Init => MInv(T)
  BY InitImports, InitMerges DEF MInv
<1>2. MInv(T) /\ [Next]_vars => MInv(T)'
  BY StepsKeepMerges
<1>3. MInv(T) => MergedAsWritten
  BY MergedAtEnd DEF MergedAsWritten, Imports!MergedAsWritten, Apart, Wanted, Bares
<1> QED
  BY <1>1, <1>2, <1>3, PTL DEF Spec
=============================================================================
