---------------------------- MODULE ControlProofs ----------------------------
(***************************************************************************)
(* The .control interpreter and the netlist it is read with, for all       *)
(* programs.  ControlFlow: what is marked as being sourced is what is      *)
(* open, a quit or an error ends the script and neither becomes the other, *)
(* loops stop at the cap.  ControlSession: plots keep their names apart    *)
(* and a pause is owned.  NetlistParse: every continuation is on the line  *)
(* that it continues, every analysis has the items it should.              *)
(***************************************************************************)
EXTENDS ControlFlow, ControlSession, NetlistParse, DataLemmas, FiniteSetTheorems

\* A frame has the fields of Frame, so that EXCEPT changes no other.
IsFrame(f) ==
    \E T : f \in [kind : T, rest : T, body : T, started : T, left : T, file : T]

StackOK ==
    /\ \E S : stack \in Seq(S)
    /\ \A i \in DOMAIN stack : IsFrame(stack[i])

IInv == StackOK /\ GuardIsExact

\* Frames of r stand for the same scripts as those of s, up to the n-th.
Alike(r, s, n) ==
    \A i \in 1..n : r[i].kind = s[i].kind /\ r[i].file = s[i].file

LEMMA FrameFields ==
    ASSUME NEW k, NEW r, NEW b, NEW l, NEW f
    PROVE  /\ IsFrame(Frame(k, r)) /\ Frame(k, r).kind = k
           /\ IsFrame(Loop(k, b, l)) /\ Loop(k, b, l).kind = k
           /\ IsFrame(Script(f, r)) /\ Script(f, r).kind = "source" /\ Script(f, r).file = f
<1> DEFINE T == {k, r, b, l, f, "source", <<>>, 0, ""}
           Fs == [kind : T, rest : T, body : T, started : T, left : T, file : T]
<1>1. Frame(k, r) \in Fs /\ Frame(k, r).kind = k
  BY DEF Frame
<1>2. Loop(k, b, l) \in Fs /\ Loop(k, b, l).kind = k
  BY DEF Loop, Frame
<1>3. Script(f, r) \in Fs /\ Script(f, r).kind = "source" /\ Script(f, r).file = f
  BY DEF Script, Frame
<1> HIDE DEF T
<1> QED
  BY <1>1, <1>2, <1>3 DEF IsFrame

\* What the actions do to a frame leaves its kind and file.
LEMMA SameCall ==
    ASSUME NEW f, IsFrame(f), NEW r
    PROVE  LET a == [f EXCEPT !.rest = r]
               b == [f EXCEPT !.rest = f.body, !.left = f.left - 1, !.started = f.started + 1]
           IN  /\ IsFrame(a) /\ a.kind = f.kind /\ a.file = f.file
               /\ IsFrame(b) /\ b.kind = f.kind /\ b.file = f.file
               /\ IsFrame(Counted(f)) /\ Counted(f).kind = f.kind /\ Counted(f).file = f.file
<1>1. PICK T : f \in [kind : T, rest : T, body : T, started : T, left : T, file : T]
  BY DEF IsFrame
<1> DEFINE U == T \cup {r, f.left - 1, f.started + 1}
           Fs == [kind : U, rest : U, body : U, started : U, left : U, file : U]
           a == [f EXCEPT !.rest = r]
           b == [f EXCEPT !.rest = f.body, !.left = f.left - 1, !.started = f.started + 1]
<1>2. a \in Fs /\ a.kind = f.kind /\ a.file = f.file
  BY <1>1
<1>3. b \in Fs /\ b.kind = f.kind /\ b.file = f.file
  BY <1>1
<1>4. Counted(f) \in Fs /\ Counted(f).kind = f.kind /\ Counted(f).file = f.file
  BY <1>1 DEF Counted
<1> HIDE DEF U
<1>5. IsFrame(a) /\ IsFrame(b) /\ IsFrame(Counted(f))
  BY <1>2, <1>3, <1>4 DEF IsFrame
<1> QED
  BY <1>2, <1>3, <1>4, <1>5

\* The top frame is replaced by one of the same call.
LEMMA KeepsGuard ==
    ASSUME IInv, stack # <<>>, NEW f, IsFrame(f), f.kind = Top.kind, f.file = Top.file,
           stack' = Replace(f), sourcing' = sourcing
    PROVE  IInv'
<1>1. PICK S : stack \in Seq(S)
  BY DEF IInv, StackOK
<1>2. /\ stack' \in Seq(S \cup {f}) /\ DOMAIN stack' = 1..Len(stack)
      /\ \A i \in 1..Len(stack) - 1 : stack'[i] = stack[i]
      /\ stack'[Len(stack)] = f
  <2>1. stack' = Append(Front(stack), f)
    BY DEF Replace, Below
  <2> DEFINE r == Append(Front(stack), f)
  <2>2. stack # <<>>
    OBVIOUS
  <2>3. /\ r \in Seq(S \cup {f})
        /\ Len(r) = Len(stack)
        /\ DOMAIN r = 1..Len(stack)
        /\ \A i \in 1..Len(stack) - 1 : r[i] = stack[i]
        /\ r[Len(stack)] = f
    BY <1>1, <2>2, ReplaceTop, ZenonT(30)
  <2> QED
    BY <2>1, <2>3
<1>3. DOMAIN stack = 1..Len(stack) /\ Len(stack) \in Nat \ {0} /\ Top = stack[Len(stack)]
  BY <1>1, PopStack DEF Top
<1>4. Alike(stack', stack, Len(stack))
  BY <1>2, <1>3 DEF Alike
<1>5. StackOK'
  BY <1>2, <1>3 DEF IInv, StackOK
<1>6. OpenFiles' = OpenFiles
  BY <1>2, <1>3, <1>4 DEF OpenFiles, Alike
<1>7. NoReentry'
  BY <1>2, <1>3, <1>4 DEF IInv, GuardIsExact, NoReentry, Alike
<1> QED
  BY <1>5, <1>6, <1>7 DEF IInv, GuardIsExact, SourcingIsOpen

\* A call is made by the statement at the head of the top frame: a branch or a
\* loop, or a script that is not open.
LEMMA CallKeepsGuard ==
    ASSUME IInv, stack # <<>>, NEW f, IsFrame(f), stack' = Push(f),
           \/ f.kind # "source" /\ sourcing' = sourcing
           \/ f.kind = "source" /\ f.file \notin sourcing /\ sourcing' = sourcing \cup {f.file}
    PROVE  IInv'
<1> DEFINE g == [Top EXCEPT !.rest = Tail(@)]
           mid == Replace(g)
           n == Len(stack)
<1>1. PICK S : stack \in Seq(S)
  BY DEF IInv, StackOK
<1>3. DOMAIN stack = 1..n /\ n \in Nat \ {0} /\ Top = stack[n]
  BY <1>1, PopStack DEF Top
<1>4. IsFrame(g) /\ g.kind = Top.kind /\ g.file = Top.file
  <2>1. IsFrame(Top)
    BY <1>3 DEF IInv, StackOK
  <2> QED
    BY <2>1, SameCall
<1>2. /\ mid \in Seq(S \cup {g}) /\ Len(mid) = n
      /\ \A i \in 1..n - 1 : mid[i] = stack[i]
      /\ mid[n] = g
  <2> HIDE DEF g
  <2>1. mid = Append(Front(stack), g)
    BY DEF Replace, Below
  <2> DEFINE r == Append(Front(stack), g)
  <2>2. stack # <<>>
    OBVIOUS
  <2>3. /\ r \in Seq(S \cup {g})
        /\ Len(r) = Len(stack)
        /\ DOMAIN r = 1..Len(stack)
        /\ \A i \in 1..Len(stack) - 1 : r[i] = stack[i]
        /\ r[Len(stack)] = g
    BY <1>1, <2>2, ReplaceTop, ZenonT(30)
  <2> QED
    BY <2>1, <2>3
<1>5. stack' = Append(mid, f)
  BY DEF Push
<1> HIDE DEF mid, g
<1>6. /\ stack' \in Seq((S \cup {g}) \cup {f}) /\ DOMAIN stack' = 1..n + 1
      /\ \A i \in 1..n : stack'[i] = mid[i]
      /\ stack'[n + 1] = f
  BY <1>2, <1>5, PushStack
<1>7. Alike(stack', stack, n)
  BY <1>2, <1>3, <1>4, <1>6 DEF Alike
<1>8. StackOK'
  <2>1. \A i \in 1..n + 1 : IsFrame(stack'[i])
    BY <1>2, <1>3, <1>4, <1>6 DEF IInv, StackOK
  <2> QED
    BY <2>1, <1>6 DEF StackOK
<1>9. OpenFiles' = OpenFiles \cup {x \in {f.file} : f.kind = "source"}
  BY <1>3, <1>6, <1>7 DEF OpenFiles, Alike
<1>10. SourcingIsOpen'
  BY <1>9 DEF IInv, GuardIsExact, SourcingIsOpen
<1>11. NoReentry'
  <2> SUFFICES ASSUME NEW i \in 1..n + 1, NEW j \in 1..n + 1,
                      stack'[i].kind = "source", stack'[j].kind = "source",
                      stack'[i].file = stack'[j].file
               PROVE  i = j
    BY <1>6 DEF NoReentry
  <2>1. f.kind = "source" => \A k \in 1..n : stack[k].kind = "source" => stack[k].file # f.file
    BY <1>3 DEF IInv, GuardIsExact, SourcingIsOpen, OpenFiles
  <2>2. CASE i \in 1..n /\ j \in 1..n
    BY <2>2, <1>3, <1>7 DEF Alike, IInv, GuardIsExact, NoReentry
  <2>3. CASE i = n + 1 /\ j \in 1..n
    BY <2>1, <2>3, <1>6, <1>7 DEF Alike
  <2>4. CASE j = n + 1 /\ i \in 1..n
    BY <2>1, <2>4, <1>6, <1>7 DEF Alike
  <2> QED
    BY <2>2, <2>3, <2>4, <1>3
<1> QED
  BY <1>8, <1>10, <1>11 DEF IInv, GuardIsExact

\* A call returns, a script's with the removal of its path.
LEMMA ReturnKeepsGuard == ASSUME IInv, stack # <<>>, Return PROVE IInv'
<1> DEFINE n == Len(stack)
<1>1. PICK S : stack \in Seq(S)
  BY DEF IInv, StackOK
<1>2. /\ DOMAIN stack = 1..n /\ n \in Nat \ {0} /\ Top = stack[n]
      /\ stack' \in Seq(S) /\ DOMAIN stack' = 1..n - 1
      /\ \A i \in 1..n - 1 : stack'[i] = stack[i]
  BY <1>1, PopStack DEF Top, Below, Return
<1>3. StackOK'
  BY <1>2 DEF IInv, StackOK
<1>4. NoReentry'
  BY <1>2 DEF IInv, GuardIsExact, NoReentry
<1>5. CASE Top.kind = "source"
  <2>1. sourcing' = OpenFiles \ {Top.file}
    BY <1>5 DEF Return, Closed, IInv, GuardIsExact, SourcingIsOpen
  <2>2. \A i \in 1..n - 1 : stack[i].kind = "source" => stack[i].file # Top.file
    BY <1>2, <1>5 DEF IInv, GuardIsExact, NoReentry
  <2>3. OpenFiles' = OpenFiles \ {Top.file}
    BY <1>2, <1>5, <2>2 DEF OpenFiles
  <2> QED
    BY <2>1, <2>3, <1>3, <1>4 DEF IInv, GuardIsExact, SourcingIsOpen
<1>6. CASE Top.kind # "source"
  <2>1. OpenFiles' = OpenFiles
    BY <1>2, <1>6 DEF OpenFiles
  <2> QED
    BY <2>1, <1>3, <1>4, <1>6 DEF Return, IInv, GuardIsExact, SourcingIsOpen
<1> QED
  BY <1>5, <1>6

\* A block starts with no call open.
LEMMA StartBlockKeepsGuard == ASSUME IInv, StartBlock PROVE IInv'
<1> DEFINE f == Frame("block", program.blocks[block + 1])
<1>1. stack = <<>> /\ stack' = <<f>> /\ sourcing' = sourcing
  BY DEF StartBlock
<1>2. IsFrame(f) /\ f.kind # "source"
  BY FrameFields
<1> HIDE DEF f
<1>3. stack' \in Seq({f}) /\ DOMAIN stack' = {1} /\ stack'[1] = f
  BY <1>1
<1>4. StackOK'
  BY <1>2, <1>3 DEF StackOK
<1>5. OpenFiles = {} /\ OpenFiles' = {}
  BY <1>1, <1>2, <1>3 DEF OpenFiles
<1> QED
  BY <1>1, <1>3, <1>4, <1>5 DEF IInv, GuardIsExact, SourcingIsOpen, NoReentry

LEMMA NextKeepsGuard == IInv /\ [Next]_vars => IInv'
<1> SUFFICES ASSUME IInv, [Next]_vars PROVE IInv'
  OBVIOUS
<1>0. ASSUME stack' = stack, sourcing' = sourcing PROVE IInv'
  BY <1>0 DEF IInv, StackOK, GuardIsExact, SourcingIsOpen, OpenFiles, NoReentry
<1>top. stack # <<>> => IsFrame(Top)
  <2>1. ASSUME stack # <<>> PROVE IsFrame(Top)
    <3>1. PICK S : stack \in Seq(S)
      BY DEF IInv, StackOK
    <3>2. DOMAIN stack = 1..Len(stack) /\ Len(stack) \in Nat \ {0} /\ Top = stack[Len(stack)]
      BY <2>1, <3>1, PopStack DEF Top
    <3> QED
      BY <3>2 DEF IInv, StackOK
  <2> QED
    BY <2>1
<1>step. ASSUME stack # <<>>, stack' = Step, sourcing' = sourcing PROVE IInv'
  <2> DEFINE g == [Top EXCEPT !.rest = Tail(@)]
  <2>1. IsFrame(g) /\ g.kind = Top.kind /\ g.file = Top.file
    BY <1>top, <1>step, SameCall
  <2>2. stack' = Replace(g)
    BY <1>step DEF Step
  <2> QED
    BY <2>1, <2>2, <1>step, KeepsGuard
<1>fail. ASSUME NEW what, Fail(what) PROVE IInv'
  BY <1>fail, <1>0 DEF Fail
<1>1. CASE StartBlock
  BY <1>1, StartBlockKeepsGuard
<1>2. CASE Plain \/ Quit
  BY <1>2, <1>step DEF Plain, Quit, At, Proceeding
<1>3. CASE StatementFails
  BY <1>3, <1>fail DEF StatementFails
<1>4. CASE If
  <2>1. PICK branch : stack' = Push(Frame("block", branch))
    BY <1>4 DEF If
  <2>2. IsFrame(Frame("block", branch)) /\ Frame("block", branch).kind # "source"
    BY FrameFields
  <2> QED
    BY <1>4, <2>1, <2>2, CallKeepsGuard DEF If, At, Proceeding
<1>5. CASE Foreach \/ While \/ Repeat
  <2>1. ASSUME stack # <<>>, NEW k, k # "source", NEW b, NEW l, stack' = Push(Loop(k, b, l)),
               sourcing' = sourcing
        PROVE  IInv'
    <3>1. IsFrame(Loop(k, b, l)) /\ Loop(k, b, l).kind # "source"
      BY <2>1, FrameFields
    <3> QED
      BY <2>1, <3>1, CallKeepsGuard
  <2>2. CASE Foreach
    BY <2>1, <2>2 DEF Foreach, At, Proceeding
  <2>3. CASE While
    BY <2>1, <2>3 DEF While, At, Proceeding
  <2>4. CASE Repeat
    BY <2>1, <2>4, <1>fail DEF Repeat, At, Proceeding
  <2> QED
    BY <1>5, <2>2, <2>3, <2>4
<1>6. CASE Source
  <2> DEFINE f == Script(Stmt.file, program.files[Stmt.file])
  <2>1. CASE Refused(Stmt.file) \/ Stmt.file \notin DOMAIN program.files
    BY <1>6, <2>1, <1>fail DEF Source
  <2>2. CASE ~ (Refused(Stmt.file) \/ Stmt.file \notin DOMAIN program.files)
    <3>1. /\ stack # <<>> /\ stack' = Push(f) /\ sourcing' = sourcing \cup {Stmt.file}
          /\ Stmt.file \notin sourcing
      BY <1>6, <2>2 DEF Source, At, Proceeding, Refused
    <3>2. IsFrame(f) /\ f.kind = "source" /\ f.file = Stmt.file
      BY FrameFields
    <3> QED
      BY <3>1, <3>2, CallKeepsGuard
  <2> QED
    BY <2>1, <2>2
<1>7. CASE EndOfList
  BY <1>7, ReturnKeepsGuard DEF EndOfList, Proceeding
<1>8. CASE NextCount
  <2> DEFINE g == [Top EXCEPT !.rest = Top.body, !.left = @ - 1, !.started = @ + 1]
  <2>1. CASE More(Top)
    <3>1. stack # <<>> /\ stack' = Replace(g) /\ sourcing' = sourcing
      BY <1>8, <2>1 DEF NextCount, Proceeding
    <3>2. IsFrame(g) /\ g.kind = Top.kind /\ g.file = Top.file
      BY <1>top, <3>1, SameCall
    <3> QED
      BY <3>1, <3>2, KeepsGuard
  <2>2. CASE ~ More(Top)
    BY <1>8, <2>2, ReturnKeepsGuard DEF NextCount, Proceeding
  <2> QED
    BY <2>1, <2>2
<1>9. CASE NextTest
  <2>1. CASE Fail("loop") \/ Fail("statement")
    BY <2>1, <1>fail
  <2>2. CASE Return
    BY <1>9, <2>2, ReturnKeepsGuard DEF NextTest, Proceeding
  <2>3. CASE stack' = Replace(Counted(Top)) /\ sourcing' = sourcing
    <3>1. stack # <<>> /\ IsFrame(Top)
      BY <1>9, <1>top DEF NextTest, Proceeding
    <3> QED
      BY <3>1, <2>3, SameCall, KeepsGuard
  <2> QED
    BY <1>9, <2>1, <2>2, <2>3 DEF NextTest
<1>10. CASE Unwind
  BY <1>10, ReturnKeepsGuard DEF Unwind, OnExit
<1>11. CASE UNCHANGED vars
  BY <1>11, <1>0 DEF vars
<1> QED
  BY <1>1, <1>2, <1>3, <1>4, <1>5, <1>6, <1>7, <1>8, <1>9, <1>10, <1>11 DEF Next

LEMMA InitGuard == Init => IInv
<1> SUFFICES ASSUME Init PROVE IInv
  OBVIOUS
<1>1. stack = <<>> /\ sourcing = {} /\ DOMAIN stack = {}
  BY DEF Init
<1>2. stack \in Seq({})
  BY <1>1
<1> QED
  BY <1>1, <1>2 DEF IInv, StackOK, GuardIsExact, SourcingIsOpen, OpenFiles, NoReentry

\* On every path out of `source`, an error or a quit any number of calls deep, the
\* scripts marked are exactly those still open, and none is open twice.
THEOREM GuardStaysExact == Spec => []GuardIsExact
<1>1. IInv => GuardIsExact
  BY DEF IInv
<1> QED
  BY InitGuard, NextKeepsGuard, <1>1, PTL DEF Spec

-----------------------------------------------------------------------------
\* An exit code or an error ends the script.

Stopped == exit \/ failure # "none"

LEMMA NextKeepsQuit == QuitNeverFails /\ [Next]_vars => QuitNeverFails'
<1> SUFFICES ASSUME QuitNeverFails, [Next]_vars PROVE QuitNeverFails'
  OBVIOUS
<1>1. CASE Proceeding /\ exit' = exit
  BY <1>1 DEF Proceeding, QuitNeverFails
<1>2. CASE Quit
  BY <1>2 DEF Quit, At, Proceeding, QuitNeverFails
<1>3. CASE UNCHANGED <<exit, failure>>
  BY <1>3 DEF QuitNeverFails
<1>4. StatementFails \/ If \/ Foreach \/ While \/ Repeat \/ Source \/ Plain
      => Proceeding /\ exit' = exit
  BY DEF StatementFails, If, Foreach, While, Repeat, Source, Plain, At, Fail
<1>5. EndOfList \/ NextCount \/ NextTest => Proceeding /\ exit' = exit
  BY DEF EndOfList, NextCount, NextTest, Fail, Return
<1>6. StartBlock \/ Unwind \/ UNCHANGED vars => UNCHANGED <<exit, failure>>
  BY DEF StartBlock, Unwind, OnExit, Return, vars
<1> QED
  BY <1>1, <1>2, <1>3, <1>4, <1>5, <1>6 DEF Next

\* `quit` is never turned into an error: of the two ways a script stops (exit_code set, a
\* statement's Err), each is looked at before the other can happen.
THEOREM QuitStaysClean == Spec => []QuitNeverFails
<1>1. Init => QuitNeverFails
  BY DEF Init, QuitNeverFails
<1> QED
  BY <1>1, NextKeepsQuit, PTL DEF Spec

\* Once an exit code or an error is there, no statement, block or iteration is begun: all
\* that execute does is return to its caller, with what it had.
THEOREM StopIsFinal ==
    Spec => [][Stopped => /\ Return
                          /\ UNCHANGED <<exit, failure, block>>]_vars
<1>1. [Next]_vars => [Stopped => Return /\ UNCHANGED <<exit, failure, block>>]_vars
  <2> SUFFICES ASSUME Next, Stopped PROVE Return /\ UNCHANGED <<exit, failure, block>>
    OBVIOUS
  <2>1. ~ Proceeding /\ ~ StartBlock
    BY DEF Stopped, Proceeding, StartBlock
  <2>2. Unwind
    BY <2>1 DEF Next, Plain, StatementFails, Quit, If, Foreach, While, Repeat, Source, At,
       EndOfList, NextCount, NextTest
  <2> QED
    BY <2>2 DEF Unwind, OnExit, Return
<1> QED
  BY <1>1, PTL DEF Spec

-----------------------------------------------------------------------------
\* No loop goes past its cap.

Capped(f) ==
    IsFrame(f) /\ f.started \in Nat /\ (f.kind = "while" => f.started <= MaxLoopIters)

CapOK == \E S : stack \in Seq(S) /\ \A f \in S : Capped(f)

LEMMA FreshCapped ==
    ASSUME NEW k, NEW r, NEW b, NEW l, NEW f
    PROVE  Capped(Frame(k, r)) /\ Capped(Loop(k, b, l)) /\ Capped(Script(f, r))
<1>1. Frame(k, r).started = 0 /\ Loop(k, b, l).started = 0 /\ Script(f, r).started = 0
  BY DEF Frame, Loop, Script
<1>2. 0 <= MaxLoopIters
  BY FlowAssumption
<1> QED
  BY <1>1, <1>2, FrameFields DEF Capped

LEMMA SteppedCapped ==
    ASSUME NEW f, Capped(f), NEW r
    PROVE  LET a == [f EXCEPT !.rest = r]
               b == [f EXCEPT !.rest = f.body, !.left = f.left - 1, !.started = f.started + 1]
           IN  /\ Capped(a)
               /\ f.kind # "while" => Capped(b)
               /\ ~ AtCap(f) => Capped(Counted(f))
<1> DEFINE a == [f EXCEPT !.rest = r]
           b == [f EXCEPT !.rest = f.body, !.left = f.left - 1, !.started = f.started + 1]
<1>1. /\ IsFrame(f) /\ IsFrame(a) /\ IsFrame(b) /\ IsFrame(Counted(f))
      /\ a.kind = f.kind /\ b.kind = f.kind /\ Counted(f).kind = f.kind
  BY SameCall DEF Capped
<1>2. PICK T : f \in [kind : T, rest : T, body : T, started : T, left : T, file : T]
  BY <1>1 DEF IsFrame
<1>3. a.started = f.started /\ b.started = f.started + 1 /\ Counted(f).started = f.started + 1
  BY <1>2 DEF Counted
<1>4. f.started \in Nat /\ MaxLoopIters \in Nat
  BY FlowAssumption DEF Capped
<1> HIDE DEF a, b
<1>5. Capped(a)
  BY <1>1, <1>3 DEF Capped
<1>6. f.kind # "while" => Capped(b)
  BY <1>1, <1>3, <1>4 DEF Capped
<1>7. ~ AtCap(f) => Capped(Counted(f))
  BY <1>1, <1>3, <1>4 DEF Capped, AtCap
<1> QED
  BY <1>5, <1>6, <1>7 DEF a, b

LEMMA CappedSteps ==
    ASSUME CapOK, stack # <<>>
    PROVE  /\ Capped(Top)
           /\ stack' = Below => CapOK'
           /\ \A f : Capped(f) /\ stack' = Replace(f) => CapOK'
           /\ \A f : Capped(f) /\ stack' = Push(f) => CapOK'
<1>1. PICK S : stack \in Seq(S) /\ \A f \in S : Capped(f)
  BY DEF CapOK
<1>2. Top \in S /\ Below \in Seq(S)
  BY <1>1, PopStack DEF Top, Below
<1>3. ASSUME NEW f, Capped(f)
      PROVE  \E U : Replace(f) \in Seq(U) /\ \A g \in U : Capped(g)
  <2>1. Append(Below, f) \in Seq(S \cup {f})
    BY <1>2, PushStack
  <2> QED
    BY <1>1, <1>3, <2>1 DEF Replace
<1>4. ASSUME NEW f, Capped(f)
      PROVE  \E U : Push(f) \in Seq(U) /\ \A g \in U : Capped(g)
  <2> DEFINE g == [Top EXCEPT !.rest = Tail(@)]
             mid == Replace(g)
  <2>1. Capped(g)
    BY <1>1, <1>2, SteppedCapped
  <2>2. Push(f) = Append(mid, f)
    BY DEF Push
  <2> HIDE DEF g
  <2>3. PICK U : mid \in Seq(U) /\ \A h \in U : Capped(h)
    BY <1>3, <2>1
  <2> HIDE DEF mid
  <2>4. Append(mid, f) \in Seq(U \cup {f})
    BY <2>3, PushStack
  <2> QED
    BY <1>4, <2>2, <2>3, <2>4
<1> QED
  BY <1>1, <1>2, <1>3, <1>4 DEF CapOK

LEMMA NextKeepsCap == CapOK /\ [Next]_vars => CapOK'
<1> SUFFICES ASSUME CapOK, [Next]_vars PROVE CapOK'
  OBVIOUS
<1>1. CASE stack' = stack
  BY <1>1 DEF CapOK
<1>2. ASSUME NEW what, Fail(what) PROVE CapOK'
  BY <1>1, <1>2 DEF Fail
<1>3. CASE Return /\ stack # <<>>
  BY <1>3, CappedSteps DEF Return
<1>4. CASE StartBlock
  <2>1. PICK f : stack' = <<f>> /\ Capped(f)
    BY <1>4, FreshCapped DEF StartBlock
  <2>2. <<f>> \in Seq({f})
    OBVIOUS
  <2> QED
    BY <2>1, <2>2 DEF CapOK
<1>5. CASE Plain \/ Quit
  <2> DEFINE g == [Top EXCEPT !.rest = Tail(@)]
  <2>1. stack # <<>> /\ stack' = Replace(g)
    BY <1>5 DEF Plain, Quit, At, Proceeding, Step
  <2>2. Capped(g)
    BY <2>1, CappedSteps, SteppedCapped
  <2> QED
    BY <2>1, <2>2, CappedSteps
<1>6. CASE If \/ Foreach \/ While \/ Repeat \/ Source
  <2>1. \/ \E what : Fail(what)
        \/ stack # <<>> /\ \E f : Capped(f) /\ stack' = Push(f)
    BY <1>6, FreshCapped DEF If, Foreach, While, Repeat, Source, At, Proceeding
  <2> QED
    BY <1>2, <2>1, CappedSteps
<1>7. CASE EndOfList \/ Unwind
  BY <1>3, <1>7 DEF EndOfList, Unwind, OnExit, Proceeding
<1>8. CASE NextCount
  <2> DEFINE g == [Top EXCEPT !.rest = Top.body, !.left = @ - 1, !.started = @ + 1]
  <2>1. CASE More(Top)
    <3>1. stack # <<>> /\ stack' = Replace(g) /\ Top.kind # "while"
      BY <1>8, <2>1 DEF NextCount, Proceeding
    <3>2. Capped(g)
      BY <3>1, CappedSteps, SteppedCapped
    <3> QED
      BY <3>1, <3>2, CappedSteps
  <2> QED
    BY <1>3, <1>8, <2>1 DEF NextCount, Proceeding
<1>9. CASE NextTest
  <2>1. CASE AtCap(Top)
    BY <1>2, <1>9, <2>1 DEF NextTest
  <2>2. CASE ~ AtCap(Top) /\ stack' = Replace(Counted(Top))
    <3>1. stack # <<>>
      BY <1>9 DEF NextTest, Proceeding
    <3>2. Capped(Counted(Top))
      BY <2>2, <3>1, CappedSteps, SteppedCapped
    <3> QED
      BY <2>2, <3>1, <3>2, CappedSteps
  <2> QED
    BY <1>2, <1>3, <1>9, <2>1, <2>2 DEF NextTest, Proceeding
<1>10. CASE StatementFails \/ UNCHANGED vars
  BY <1>1, <1>2, <1>10 DEF StatementFails, vars
<1> QED
  BY <1>4, <1>5, <1>6, <1>7, <1>8, <1>9, <1>10 DEF Next

\* A `while` runs its body at most MAX_LOOP_ITERS times, however deeply it is nested: the
\* invariant under which "iters >= MAX_LOOP_ITERS" is met exactly at the limit.
THEOREM LoopsAreCapped ==
    Spec => [](\A i \in DOMAIN stack : stack[i].kind = "while" => stack[i].started <= MaxLoopIters)
<1>1. Init => CapOK
  <2>1. <<>> \in Seq({})
    OBVIOUS
  <2> QED
    BY <2>1 DEF Init, CapOK
<1>2. CapOK =>
        \A i \in DOMAIN stack : stack[i].kind = "while" => stack[i].started <= MaxLoopIters
  BY LenProperties, ElementOfSeq DEF CapOK, Capped
<1> QED
  BY <1>1, <1>2, NextKeepsCap, PTL DEF Spec

-----------------------------------------------------------------------------
\* The session.

VectorsType == UNION {[D -> Values] : D \in SUBSET (LetNames \cup MeasNames)}
PlotType == [name : Names, data : Values, vecs : VectorsType]

\* A plot's number is one its analysis has been through.
Numbered(ps, cs) ==
    \A i \in DOMAIN ps :
        ps[i].name[1] \in Analyses => ps[i].name[2] <= cs[ps[i].name[1]]

Unique(ps) ==
    \A i, j \in DOMAIN ps :
        ps[i].name = ps[j].name /\ ps[i].name[1] \in Analyses => i = j

PlotsOK(ps, cs) == ps \in Seq(PlotType) /\ Numbered(ps, cs) /\ Unique(ps)

HasPaused(ps, run) ==
    \E i \in DOMAIN ps : ps[i].data = [run |-> run, reached |-> "pause"]

SessionOK ==
    /\ currentPlot \in 0..Len(plots)
    /\ counters \in [Analyses -> Nat]
    /\ userVectors \in VectorsType
    /\ variables \in [MeasNames -> Values]
    /\ stopWhen \in BOOLEAN
    /\ pausedTran \in Nat \cup {None}
    /\ outcome \in {"running", "quit", "failed"}
    /\ evaluated \in [MeasNames -> Values]
    /\ runs \in Nat /\ lastTran \in Nat /\ stops \in Nat /\ pauses \in Nat

PauseOK ==
    /\ pausedTran # None => currentPlot # 0 /\ HasPaused(plots, pausedTran)
    /\ SnapshotIsLatest
    /\ StopIsOneShot

SessionInv == PlotsOK(plots, counters) /\ SessionOK /\ PauseOK

-----------------------------------------------------------------------------
LEMMA NamedPlots ==
    /\ UserPlot \in Names /\ UserPlot[1] \notin Analyses
    /\ MeasPlot \in Names /\ MeasPlot[1] \notin Analyses
    /\ \A k \in Analyses, n \in Nat \ {0} :
          <<k, n>> \in Names /\ <<k, n>>[1] = k /\ <<k, n>>[2] = n
    /\ \A name \in Names : name[1] \in Analyses => name[2] \in Nat
<1>1. UserPlot[1] = "user" /\ MeasPlot[1] = "measurements"
  BY DEF UserPlot, MeasPlot
<1>2. "user" \notin Analyses /\ "measurements" \notin Analyses
  BY SessionAssumption DEF Analyses
<1>3. \A name \in Analyses \X (Nat \ {0}) : name[1] \in Analyses /\ name[2] \in Nat
  OBVIOUS
<1>4. \A k \in Analyses, n \in Nat \ {0} :
          <<k, n>> \in Names /\ <<k, n>>[1] = k /\ <<k, n>>[2] = n
  BY DEF Names
<1> QED
  <2>1. \A name \in Names : name[1] \in Analyses => name[2] \in Nat
    BY <1>1, <1>2, <1>3 DEF Names
  <2>2. UserPlot \in Names /\ MeasPlot \in Names
    BY DEF Names
  <2> QED
    BY <1>1, <1>2, <1>4, <2>1, <2>2

LEMMA FirstIsIn ==
    ASSUME NEW S \in SUBSET Nat, S # {}
    PROVE  FirstOf(S) \in S
BY LeastIndex DEF FirstOf

LEMMA VectorsAre ==
    /\ NoVectors \in VectorsType
    /\ \A vs \in VectorsType : Vectors(vs)
    /\ \A vs \in VectorsType, v \in LetNames \cup MeasNames, x \in Values :
          Stored(vs, v, x) \in VectorsType
<1> DEFINE N == LetNames \cup MeasNames
<1>1. NoVectors \in [{} -> Values]
  BY DEF NoVectors
<1>2. NoVectors \in VectorsType
  BY <1>1 DEF VectorsType
<1>3. ASSUME NEW vs \in VectorsType
      PROVE  Vectors(vs)
  BY DEF VectorsType, Vectors
<1>6. ASSUME NEW vs \in VectorsType, NEW v \in N, NEW x \in Values
      PROVE  Stored(vs, v, x) \in VectorsType
  <2>1. PICK D \in SUBSET N : vs \in [D -> Values]
    BY DEF VectorsType
  <2>2. Stored(vs, v, x) \in [D \cup {v} -> Values]
    BY <1>6, <2>1 DEF Stored
  <2> QED
    BY <2>2, D \cup {v} \in SUBSET N DEF VectorsType
<1> QED
  BY <1>2, <1>3, <1>6

\* A plot is added at the end, under a name that is no analysis's or has the next
\* number of its analysis.
LEMMA AppendingPlot ==
    ASSUME NEW ps, NEW cs \in [Analyses -> Nat], PlotsOK(ps, cs),
           NEW ds \in [Analyses -> Nat], \A k \in Analyses : cs[k] <= ds[k],
           NEW p \in PlotType,
           p.name[1] \in Analyses =>
               p.name[2] = cs[p.name[1]] + 1 /\ p.name[2] <= ds[p.name[1]]
    PROVE  /\ PlotsOK(Append(ps, p), ds)
           /\ Len(ps) \in Nat /\ DOMAIN ps = 1..Len(ps)
           /\ Len(Append(ps, p)) = Len(ps) + 1
           /\ DOMAIN Append(ps, p) = 1..(Len(ps) + 1)
           /\ Append(ps, p)[Len(ps) + 1] = p
           /\ \A i \in DOMAIN ps : Append(ps, p)[i] = ps[i]
<1> DEFINE qs == Append(ps, p)
<1>1. ps \in Seq(PlotType)
  BY DEF PlotsOK
<1>2. /\ qs \in Seq(PlotType) /\ Len(ps) \in Nat /\ DOMAIN ps = 1..Len(ps)
      /\ Len(qs) = Len(ps) + 1 /\ DOMAIN qs = 1..(Len(ps) + 1)
      /\ qs[Len(ps) + 1] = p
      /\ \A i \in DOMAIN ps : qs[i] = ps[i]
  BY <1>1, AppendProperties, LenProperties
<1> HIDE DEF qs
<1>3. \A i \in DOMAIN qs : i \in DOMAIN ps \/ i = Len(ps) + 1
  BY <1>2
<1>4. \A i \in DOMAIN qs : qs[i].name \in Names
  <2>1. \A i \in DOMAIN qs : qs[i] \in PlotType
    BY <1>2, ElementOfSeq
  <2> QED
    BY <2>1 DEF PlotType
<1>5. ASSUME NEW i \in DOMAIN ps, ps[i].name[1] \in Analyses
      PROVE  ps[i].name[2] \in Nat /\ ps[i].name[2] <= cs[ps[i].name[1]]
  BY <1>2, <1>3, <1>4, <1>5, NamedPlots DEF PlotsOK, Numbered
<1>6. Numbered(qs, ds)
  <2> SUFFICES ASSUME NEW i \in DOMAIN qs, qs[i].name[1] \in Analyses
               PROVE  qs[i].name[2] <= ds[qs[i].name[1]]
    BY DEF Numbered
  <2>1. CASE i = Len(ps) + 1
    BY <1>2, <2>1
  <2>2. CASE i \in DOMAIN ps
    <3> DEFINE k == ps[i].name[1]
    <3>1. k \in Analyses /\ qs[i] = ps[i]
      BY <1>2, <2>2
    <3>2. ps[i].name[2] \in Nat /\ ps[i].name[2] <= cs[k] /\ cs[k] <= ds[k]
          /\ cs[k] \in Nat /\ ds[k] \in Nat
      BY <1>5, <2>2, <3>1
    <3> HIDE DEF k
    <3>3. ps[i].name[2] <= ds[k]
      BY <3>2
    <3> QED
      BY <3>1, <3>3 DEF k
  <2> QED
    BY <1>3, <2>1, <2>2
<1>7. Unique(qs)
  <2>1. ASSUME NEW i \in DOMAIN ps, p.name[1] \in Analyses
        PROVE  ps[i].name # p.name
    <3> SUFFICES ASSUME ps[i].name = p.name PROVE FALSE
      OBVIOUS
    <3> DEFINE k == p.name[1]
    <3>1. ps[i].name[2] <= cs[k] /\ p.name[2] = cs[k] + 1 /\ cs[k] \in Nat
      BY <1>5, <2>1
    <3> HIDE DEF k
    <3> QED
      BY <3>1
  <2>2. Unique(ps)
    BY DEF PlotsOK
  <2> QED
    BY <1>2, <1>3, <2>1, <2>2 DEF Unique
<1>8. PlotsOK(qs, ds)
  BY <1>2, <1>6, <1>7 DEF PlotsOK
<1> QED
  BY <1>2, <1>8 DEF qs

\* A plot is edited under its name.
LEMMA EditingPlot ==
    ASSUME NEW ps, NEW cs, PlotsOK(ps, cs),
           NEW j \in DOMAIN ps, NEW q \in PlotType, q.name = ps[j].name
    PROVE  /\ PlotsOK([ps EXCEPT ![j] = q], cs)
           /\ Len([ps EXCEPT ![j] = q]) = Len(ps)
           /\ DOMAIN [ps EXCEPT ![j] = q] = DOMAIN ps
           /\ \A i \in DOMAIN ps :
                 [ps EXCEPT ![j] = q][i] = IF i = j THEN q ELSE ps[i]
<1> DEFINE qs == [ps EXCEPT ![j] = q]
<1>1. ps \in Seq(PlotType) /\ Len(ps) \in Nat /\ DOMAIN ps = 1..Len(ps)
  BY LenProperties DEF PlotsOK
<1>2. qs \in Seq(PlotType) /\ Len(qs) = Len(ps)
  BY <1>1, ExceptSeq
<1>3. DOMAIN qs = DOMAIN ps /\ \A i \in DOMAIN ps : qs[i] = IF i = j THEN q ELSE ps[i]
  OBVIOUS
<1> HIDE DEF qs
<1>4. \A i \in DOMAIN ps : qs[i].name = ps[i].name
  BY <1>3
<1>5. Numbered(qs, cs) /\ Unique(qs)
  BY <1>3, <1>4 DEF PlotsOK, Numbered, Unique
<1> QED
  BY <1>2, <1>3, <1>5 DEF PlotsOK, qs

-----------------------------------------------------------------------------
\* What the operations make of the plots.

LEMMA AddPlotKeeps ==
    ASSUME SessionInv, NEW k \in Analyses, NEW d \in Values, AddPlot(k, d)
    PROVE  /\ PlotsOK(plots', counters')
           /\ counters' \in [Analyses -> Nat]
           /\ currentPlot' \in 0..Len(plots') /\ currentPlot' # 0
           /\ \A r : HasPaused(plots, r) => HasPaused(plots', r)
           /\ \A r : d = [run |-> r, reached |-> "pause"] => HasPaused(plots', r)
<1> DEFINE p == Plot(<<k, Number(k)>>, d, NoVectors)
<1>1. PlotsOK(plots, counters) /\ counters \in [Analyses -> Nat]
  BY DEF SessionInv, SessionOK
<1>2. /\ counters' = [counters EXCEPT ![k] = counters[k] + 1]
      /\ Number(k) = counters[k] + 1
      /\ plots' = Append(plots, p) /\ currentPlot' = Len(plots) + 1
  BY DEF AddPlot, Number, MakeCurrent
<1>3. /\ counters' \in [Analyses -> Nat]
      /\ \A j \in Analyses : counters[j] <= counters'[j]
      /\ counters'[k] = Number(k) /\ Number(k) \in Nat \ {0}
  BY <1>1, <1>2
<1>4. p \in PlotType /\ p.name = <<k, Number(k)>> /\ p.data = d
  <2>1. p.name = <<k, Number(k)>> /\ p.data = d /\ p.vecs = NoVectors
        /\ p = [name |-> <<k, Number(k)>>, data |-> d, vecs |-> NoVectors]
    BY DEF Plot
  <2>2. <<k, Number(k)>> \in Names /\ NoVectors \in VectorsType
    BY <1>3, NamedPlots, VectorsAre
  <2> QED
    BY <2>1, <2>2 DEF PlotType
<1>5. p.name[1] = k /\ p.name[2] = Number(k)
  BY <1>4
<1> HIDE DEF p
<1>6. /\ PlotsOK(plots', counters')
      /\ Len(plots) \in Nat /\ DOMAIN plots = 1..Len(plots)
      /\ Len(plots') = Len(plots) + 1
      /\ DOMAIN plots' = 1..(Len(plots) + 1)
      /\ plots'[Len(plots) + 1] = p
      /\ \A i \in DOMAIN plots : plots'[i] = plots[i]
  <2> DEFINE cs == counters  ds == counters'
  <2>1. cs \in [Analyses -> Nat] /\ PlotsOK(plots, cs) /\ ds \in [Analyses -> Nat]
        /\ \A j \in Analyses : cs[j] <= ds[j]
    BY <1>1, <1>3
  <2>2. p.name[2] = cs[p.name[1]] + 1 /\ p.name[2] <= ds[p.name[1]]
    BY <1>2, <1>3, <1>5
  <2> HIDE DEF cs, ds
  <2>3. /\ PlotsOK(Append(plots, p), ds)
        /\ Len(plots) \in Nat /\ DOMAIN plots = 1..Len(plots)
        /\ Len(Append(plots, p)) = Len(plots) + 1
        /\ DOMAIN Append(plots, p) = 1..(Len(plots) + 1)
        /\ Append(plots, p)[Len(plots) + 1] = p
        /\ \A i \in DOMAIN plots : Append(plots, p)[i] = plots[i]
    BY <1>4, <2>1, <2>2, AppendingPlot
  <2> QED
    BY <1>2, <2>3 DEF ds
<1> QED
  BY <1>2, <1>3, <1>4, <1>6 DEF HasPaused

\* A plot of no analysis is added: `setplot new` and `measure`.
LEMMA AddOtherKeeps ==
    ASSUME SessionInv, NEW p \in PlotType, p.name[1] \notin Analyses
    PROVE  /\ PlotsOK(Append(plots, p), counters)
           /\ Len(Append(plots, p)) = Len(plots) + 1 /\ Len(plots) \in Nat
           /\ DOMAIN Append(plots, p) = 1..(Len(plots) + 1)
           /\ Append(plots, p)[Len(plots) + 1] = p
           /\ \A r : HasPaused(plots, r) => HasPaused(Append(plots, p), r)
<1> DEFINE cs == counters
<1>1. cs \in [Analyses -> Nat] /\ PlotsOK(plots, cs) /\ \A k \in Analyses : cs[k] <= cs[k]
  BY DEF SessionInv, SessionOK
<1> HIDE DEF cs
<1>2. /\ PlotsOK(Append(plots, p), cs)
      /\ Len(plots) \in Nat /\ DOMAIN plots = 1..Len(plots)
      /\ Len(Append(plots, p)) = Len(plots) + 1
      /\ DOMAIN Append(plots, p) = 1..(Len(plots) + 1)
      /\ Append(plots, p)[Len(plots) + 1] = p
      /\ \A i \in DOMAIN plots : Append(plots, p)[i] = plots[i]
  BY <1>1, AppendingPlot
<1> QED
  BY <1>2 DEF HasPaused, cs

LEMMA StoreKeeps ==
    ASSUME SessionInv, NEW ps, PlotsOK(ps, counters), currentPlot \in 0..Len(ps),
           NEW v \in LetNames \cup MeasNames, NEW x \in Values, Store(ps, v, x)
    PROVE  /\ PlotsOK(plots', counters)
           /\ Len(plots') = Len(ps)
           /\ userVectors' \in VectorsType
           /\ \A r : HasPaused(ps, r) => HasPaused(plots', r)
<1>1. userVectors' \in VectorsType
  BY VectorsAre DEF Store, SessionInv, SessionOK
<1>2. CASE currentPlot = 0
  BY <1>1, <1>2 DEF Store
<1>3. CASE currentPlot # 0
  <2> DEFINE j == currentPlot
             q == [ps[j] EXCEPT !.vecs = Stored(ps[j].vecs, v, x)]
  <2>1. ps \in Seq(PlotType) /\ j \in DOMAIN ps /\ DOMAIN ps = 1..Len(ps)
    BY <1>3, LenProperties DEF PlotsOK
  <2>2. ps[j] \in PlotType
    BY <2>1, ElementOfSeq
  <2>3. q \in PlotType /\ q.name = ps[j].name /\ q.data = ps[j].data
    BY <2>2, VectorsAre DEF PlotType
  <2>4. plots' = [ps EXCEPT ![j] = q]
    BY <1>3 DEF Store
  <2> HIDE DEF j, q
  <2>5. /\ PlotsOK([ps EXCEPT ![j] = q], counters)
        /\ Len([ps EXCEPT ![j] = q]) = Len(ps)
        /\ DOMAIN [ps EXCEPT ![j] = q] = DOMAIN ps
        /\ \A i \in DOMAIN ps :
              [ps EXCEPT ![j] = q][i] = IF i = j THEN q ELSE ps[i]
    <3> DEFINE cs == counters
    <3>1. PlotsOK(ps, cs)
      OBVIOUS
    <3> HIDE DEF cs
    <3>2. /\ PlotsOK([ps EXCEPT ![j] = q], cs)
          /\ Len([ps EXCEPT ![j] = q]) = Len(ps)
          /\ DOMAIN [ps EXCEPT ![j] = q] = DOMAIN ps
          /\ \A i \in DOMAIN ps :
                [ps EXCEPT ![j] = q][i] = IF i = j THEN q ELSE ps[i]
      BY <2>1, <2>3, <3>1, EditingPlot
    <3> QED
      BY <3>2 DEF cs
  <2> QED
    BY <1>1, <2>3, <2>4, <2>5 DEF HasPaused
<1> QED
  BY <1>2, <1>3

LEMMA BindKeeps ==
    ASSUME SessionInv, NEW ps, PlotsOK(ps, counters), currentPlot \in 0..Len(ps),
           PlotsOf(ps, "measurements") # {}, NEW n \in MeasNames, Bind(n, ps)
    PROVE  /\ PlotsOK(plots', counters)
           /\ Len(plots') = Len(ps)
           /\ userVectors' \in VectorsType
           /\ variables' \in [MeasNames -> Values]
           /\ outcome' \in {"running", "quit", "failed"}
           /\ \A r : HasPaused(ps, r) => HasPaused(plots', r)
<1> DEFINE read == FirstMeasurements(ps)
<1>1. CASE n \in DOMAIN read
  <2>1. read \in VectorsType
    <3> DEFINE S == PlotsOf(ps, "measurements")
    <3>1. ps \in Seq(PlotType) /\ DOMAIN ps = 1..Len(ps) /\ Len(ps) \in Nat
      BY LenProperties DEF PlotsOK
    <3>2. S \in SUBSET DOMAIN ps /\ S \in SUBSET Nat
      BY <3>1 DEF PlotsOf
    <3> HIDE DEF S
    <3>3. FirstOf(S) \in DOMAIN ps
      BY <3>2, FirstIsIn DEF S
    <3>4. ps[FirstOf(S)] \in PlotType
      BY <3>1, <3>3, ElementOfSeq
    <3> QED
      BY <3>4 DEF FirstMeasurements, S, PlotType
  <2>2. read[n] \in Values
    BY <1>1, <2>1, VectorsAre DEF Vectors
  <2>3. /\ variables' = [variables EXCEPT ![n] = read[n]]
        /\ Store(ps, n, read[n])
        /\ outcome' = outcome
    BY <1>1 DEF Bind
  <2> HIDE DEF read
  <2>4. /\ PlotsOK(plots', counters) /\ Len(plots') = Len(ps)
        /\ userVectors' \in VectorsType
        /\ \A r : HasPaused(ps, r) => HasPaused(plots', r)
    BY <2>2, <2>3, StoreKeeps
  <2> QED
    BY <2>2, <2>3, <2>4 DEF SessionInv, SessionOK
<1>2. CASE n \notin DOMAIN read
  <2>1. outcome' = "failed" /\ plots' = ps
        /\ variables' = variables /\ userVectors' = userVectors
    BY <1>2 DEF Bind
  <2> QED
    BY <2>1 DEF SessionInv, SessionOK
<1> QED
  BY <1>1, <1>2

-----------------------------------------------------------------------------
LEMMA InitOK == SessionInit => SessionInv
<1> SUFFICES ASSUME SessionInit PROVE SessionInv
  OBVIOUS
<1>1. PlotsOK(plots, counters)
  BY DEF SessionInit, PlotsOK, Numbered, Unique
<1>2. SessionOK
  <2>1. None \in Values /\ Len(<<>>) = 0
    BY EmptySeq DEF Values
  <2>2. NoVectors \in VectorsType
    BY VectorsAre
  <2>3. variables \in [MeasNames -> Values] /\ evaluated \in [MeasNames -> Values]
    BY <2>1 DEF SessionInit
  <2>4. counters \in [Analyses -> Nat]
    BY DEF SessionInit
  <2>5. /\ plots = <<>> /\ currentPlot = 0 /\ userVectors = NoVectors
        /\ stopWhen = FALSE /\ pausedTran = None /\ outcome = "running"
        /\ runs = 0 /\ lastTran = 0 /\ stops = 0 /\ pauses = 0
    BY DEF SessionInit
  <2>6. currentPlot \in 0..Len(plots)
    BY <2>1, <2>5
  <2> QED
    BY <2>2, <2>3, <2>4, <2>5, <2>6 DEF SessionOK
<1>3. PauseOK
  BY DEF SessionInit, PauseOK, SnapshotIsLatest, StopIsOneShot
<1> QED
  BY <1>1, <1>2, <1>3 DEF SessionInv

LEMMA AnalyseKeeps ==
    ASSUME SessionInv, NEW k \in Kinds, Analyse(k)
    PROVE  SessionInv'
<1> DEFINE d == [run |-> runs + 1, reached |-> "end"]
<1>1. d \in Values /\ k \in Analyses /\ AddPlot(k, d)
  BY DEF SessionInv, SessionOK, Values, Contents, Analyses, Analyse
<1> HIDE DEF d
<1>2. /\ PlotsOK(plots', counters') /\ counters' \in [Analyses -> Nat]
      /\ currentPlot' \in 0..Len(plots') /\ currentPlot' # 0
      /\ \A r : HasPaused(plots, r) => HasPaused(plots', r)
  BY <1>1, AddPlotKeeps
<1>3. SessionOK'
  BY <1>2 DEF Analyse, SessionInv, SessionOK
<1>4. PauseOK'
  BY <1>2 DEF Analyse, SessionInv, SessionOK, PauseOK, SnapshotIsLatest, StopIsOneShot
<1> QED
  BY <1>2, <1>3, <1>4 DEF SessionInv

LEMMA TranKeeps ==
    ASSUME SessionInv, NEW paused \in BOOLEAN, Tran(paused)
    PROVE  SessionInv'
<1> DEFINE d == [run |-> runs + 1, reached |-> IF paused THEN "pause" ELSE "end"]
<1>1. d \in Values /\ "tran" \in Analyses /\ AddPlot("tran", d) /\ runs + 1 \in Nat
  BY DEF SessionInv, SessionOK, Values, Contents, Analyses, Tran
<1>2. paused => d = [run |-> runs + 1, reached |-> "pause"]
  OBVIOUS
<1> HIDE DEF d
<1>3. /\ PlotsOK(plots', counters') /\ counters' \in [Analyses -> Nat]
      /\ currentPlot' \in 0..Len(plots') /\ currentPlot' # 0
      /\ \A r : d = [run |-> r, reached |-> "pause"] => HasPaused(plots', r)
  BY <1>1, AddPlotKeeps
<1>4. SessionOK'
  <2>1. pausedTran' \in Nat \cup {None} /\ stopWhen' \in BOOLEAN
    BY <1>1 DEF Tran, Snapshot, TakeStop
  <2>2. runs' \in Nat /\ lastTran' \in Nat /\ pauses' \in Nat
    BY <1>1 DEF Tran, SessionInv, SessionOK
  <2> QED
    BY <1>3, <2>1, <2>2 DEF Tran, SessionInv, SessionOK
<1>5. PauseOK'
  <2>1. pausedTran' # None => paused /\ pausedTran' = runs + 1 /\ lastTran' = runs + 1
    BY DEF Tran, Snapshot
  <2>2. StopIsOneShot'
    BY DEF Tran, TakeStop, SessionInv, SessionOK, PauseOK, StopIsOneShot
  <2> QED
    BY <1>2, <1>3, <2>1, <2>2 DEF PauseOK, SnapshotIsLatest
<1> QED
  BY <1>3, <1>4, <1>5 DEF SessionInv

LEMMA ResumeKeeps ==
    ASSUME SessionInv, Resume
    PROVE  SessionInv'
<1> DEFINE d == [run |-> pausedTran, reached |-> "end"]
<1>1. d \in Values
  BY DEF SessionInv, SessionOK, Values, Contents, Resume
<1>2. currentPlot # 0
  BY DEF SessionInv, PauseOK, Resume
<1>3. PlotsOK(plots', counters') /\ counters' = counters
      /\ Len(plots') = Len(plots) /\ currentPlot' = currentPlot
  <2> DEFINE j == currentPlot
             q == [plots[j] EXCEPT !.data = d, !.vecs = NoVectors]
             cs == counters
  <2>1. plots \in Seq(PlotType) /\ j \in DOMAIN plots /\ PlotsOK(plots, cs)
    BY <1>2, LenProperties DEF PlotsOK, SessionInv, SessionOK
  <2>2. plots[j] \in PlotType
    BY <2>1, ElementOfSeq
  <2>3. q \in PlotType /\ q.name = plots[j].name
    BY <1>1, <2>2, VectorsAre DEF PlotType
  <2>4. plots' = [plots EXCEPT ![j] = q] /\ counters' = counters /\ currentPlot' = currentPlot
    BY <1>2 DEF Resume, Overwrite
  <2> HIDE DEF j, q, cs
  <2>5. PlotsOK([plots EXCEPT ![j] = q], cs) /\ Len([plots EXCEPT ![j] = q]) = Len(plots)
    BY <2>1, <2>3, EditingPlot
  <2> QED
    BY <2>4, <2>5 DEF cs
<1>4. SessionOK'
  BY <1>3 DEF Resume, history, SessionInv, SessionOK
<1>5. PauseOK'
  BY DEF Resume, history, SessionInv, PauseOK, SnapshotIsLatest, StopIsOneShot
<1> QED
  BY <1>3, <1>4, <1>5 DEF SessionInv

LEMMA SetplotNewKeeps ==
    ASSUME SessionInv, SetplotNew
    PROVE  SessionInv'
<1> DEFINE p == Plot(UserPlot, None, NoVectors)
<1>1. p \in PlotType /\ p.name[1] \notin Analyses
  BY NamedPlots, VectorsAre DEF Plot, PlotType, Values
<1>2. plots' = Append(plots, p) /\ currentPlot' = Len(plots) + 1 /\ counters' = counters
  BY DEF SetplotNew, MakeCurrent
<1> HIDE DEF p
<1>3. /\ PlotsOK(plots', counters') /\ Len(plots') = Len(plots) + 1 /\ Len(plots) \in Nat
      /\ \A r : HasPaused(plots, r) => HasPaused(plots', r)
  BY <1>1, <1>2, AddOtherKeeps
<1>4. SessionOK'
  BY <1>2, <1>3 DEF SetplotNew, history, SessionInv, SessionOK
<1>5. PauseOK'
  BY <1>2, <1>3 DEF SetplotNew, history, SessionInv, PauseOK, SnapshotIsLatest, StopIsOneShot
<1> QED
  BY <1>3, <1>4, <1>5 DEF SessionInv

LEMMA SetplotKeeps ==
    ASSUME SessionInv, NEW name, Setplot(name)
    PROVE  SessionInv'
<1>1. DOMAIN plots = 1..Len(plots) /\ Len(plots) \in Nat
  BY LenProperties DEF SessionInv, PlotsOK
<1>2. Named(name) \in SUBSET DOMAIN plots /\ Named(name) # {}
  BY DEF Setplot, Named
<1>3. FirstOf(Named(name)) \in 1..Len(plots)
  BY <1>1, <1>2, FirstIsIn
<1>4. SessionOK'
  BY <1>1, <1>3 DEF Setplot, history, SessionInv, SessionOK
<1>5. PauseOK'
  BY <1>1, <1>3 DEF Setplot, history, SessionInv, PauseOK, SnapshotIsLatest, StopIsOneShot
<1> QED
  BY <1>4, <1>5 DEF Setplot, SessionInv

LEMMA LetKeeps ==
    ASSUME SessionInv, NEW v \in LetNames, Let(v)
    PROVE  SessionInv'
<1>1. PlotsOK(plots, counters) /\ currentPlot \in 0..Len(plots) /\ None \in Values
  BY DEF SessionInv, SessionOK, Values
<1>2. /\ PlotsOK(plots', counters) /\ Len(plots') = Len(plots)
      /\ userVectors' \in VectorsType
      /\ \A r : HasPaused(plots, r) => HasPaused(plots', r)
  BY <1>1, StoreKeeps DEF Let
<1>3. SessionOK'
  BY <1>2 DEF Let, history, SessionInv, SessionOK
<1>4. PauseOK'
  BY <1>2 DEF Let, history, SessionInv, PauseOK, SnapshotIsLatest, StopIsOneShot
<1> QED
  BY <1>2, <1>3, <1>4 DEF Let, SessionInv

LEMMA MeasureKeeps ==
    ASSUME SessionInv, NEW n \in MeasNames, NEW k \in Analyses, Measure(n, k)
    PROVE  SessionInv'
<1> DEFINE ps == Measured(n, k)
           value == plots[FirstOf(PlotsOf(plots, k))].data
           p == Plot(MeasPlot, None, Stored(NoVectors, n, value))
<1>1. plots \in Seq(PlotType) /\ DOMAIN plots = 1..Len(plots) /\ Len(plots) \in Nat
  BY LenProperties DEF SessionInv, PlotsOK
<1>2. value \in Values
  <2> DEFINE S == PlotsOf(plots, k)
  <2>1. S \in SUBSET DOMAIN plots /\ S \in SUBSET Nat /\ S # {}
    BY <1>1 DEF PlotsOf, Measure
  <2> HIDE DEF S
  <2>2. FirstOf(S) \in DOMAIN plots
    BY <2>1, FirstIsIn
  <2>3. plots[FirstOf(S)] \in PlotType
    BY <1>1, <2>2, ElementOfSeq
  <2> QED
    BY <2>3 DEF S, PlotType
<1>3. /\ p \in PlotType /\ p.name[1] \notin Analyses /\ p.name[1] = "measurements"
      /\ p.vecs[n] = value
  <2> DEFINE vs == Stored(NoVectors, n, value)
  <2>1. vs \in VectorsType /\ vs[n] = value
    BY <1>2, VectorsAre DEF Stored
  <2>2. p = [name |-> MeasPlot, data |-> None, vecs |-> vs]
    BY DEF Plot
  <2> HIDE DEF vs, p
  <2> QED
    BY <2>1, <2>2, NamedPlots DEF PlotType, Values, MeasPlot
<1>4. ps = Append(plots, p)
  BY DEF Measured
<1> HIDE DEF p, value
<1>5. /\ PlotsOK(ps, counters) /\ Len(ps) = Len(plots) + 1
      /\ DOMAIN ps = 1..(Len(plots) + 1) /\ ps[Len(plots) + 1] = p
      /\ \A r : HasPaused(plots, r) => HasPaused(ps, r)
  BY <1>3, <1>4, AddOtherKeeps
<1>6. /\ PlotsOf(ps, "measurements") # {}
      /\ Last(ps).vecs[n] \in Values
      /\ currentPlot \in 0..Len(ps)
  <2>1. Len(plots) + 1 \in PlotsOf(ps, "measurements")
    BY <1>1, <1>3, <1>5 DEF PlotsOf
  <2>2. Last(ps) = p
    BY <1>5 DEF Last
  <2> QED
    BY <1>1, <1>2, <1>3, <1>5, <2>1, <2>2 DEF SessionInv, SessionOK
<1>7. Bind(n, ps) /\ evaluated' = [evaluated EXCEPT ![n] = Last(ps).vecs[n]]
      /\ UNCHANGED <<currentPlot, counters, stopWhen, pausedTran, runs, lastTran,
                     stops, pauses>>
  BY DEF Measure
<1> HIDE DEF ps
<1>8. /\ PlotsOK(plots', counters) /\ Len(plots') = Len(ps)
      /\ userVectors' \in VectorsType
      /\ variables' \in [MeasNames -> Values]
      /\ outcome' \in {"running", "quit", "failed"}
      /\ \A r : HasPaused(ps, r) => HasPaused(plots', r)
  BY <1>5, <1>6, <1>7, BindKeeps
<1>9. SessionOK'
  BY <1>6, <1>7, <1>8 DEF SessionInv, SessionOK
<1>10. PauseOK'
  BY <1>5, <1>7, <1>8 DEF SessionInv, PauseOK, SnapshotIsLatest, StopIsOneShot
<1> QED
  BY <1>7, <1>8, <1>9, <1>10 DEF SessionInv

LEMMA MeasureNothingKeeps ==
    ASSUME SessionInv, NEW n \in MeasNames, MeasureNothing(n)
    PROVE  SessionInv'
<1>1. PlotsOK(plots, counters) /\ currentPlot \in 0..Len(plots)
  BY DEF SessionInv, SessionOK
<1>2. /\ Bind(n, plots) /\ PlotsOf(plots, "measurements") # {}
      /\ evaluated' = [evaluated EXCEPT ![n] = None]
      /\ UNCHANGED <<currentPlot, counters, stopWhen, pausedTran, runs, lastTran,
                     stops, pauses>>
  BY DEF MeasureNothing
<1>3. /\ PlotsOK(plots', counters) /\ Len(plots') = Len(plots)
      /\ userVectors' \in VectorsType
      /\ variables' \in [MeasNames -> Values]
      /\ outcome' \in {"running", "quit", "failed"}
      /\ \A r : HasPaused(plots, r) => HasPaused(plots', r)
  BY <1>1, <1>2, BindKeeps
<1>4. SessionOK'
  BY <1>2, <1>3 DEF SessionInv, SessionOK, Values
<1>5. PauseOK'
  BY <1>2, <1>3 DEF SessionInv, PauseOK, SnapshotIsLatest, StopIsOneShot
<1> QED
  BY <1>2, <1>3, <1>4, <1>5 DEF SessionInv

LEMMA StepOK == SessionInv /\ [SessionNext]_sessionVars => SessionInv'
<1> SUFFICES ASSUME SessionInv, [SessionNext]_sessionVars PROVE SessionInv'
  OBVIOUS
<1>1. CASE StopWhen
  <2>1. SessionOK'
    BY <1>1 DEF StopWhen, SessionInv, SessionOK
  <2>2. PauseOK'
    BY <1>1 DEF StopWhen, SessionInv, SessionOK, PauseOK, SnapshotIsLatest, StopIsOneShot
  <2> QED
    BY <1>1, <2>1, <2>2 DEF StopWhen, SessionInv
<1>2. CASE Fails \/ QuitCommand
  BY <1>2 DEF Fails, QuitCommand, session, history, SessionInv, SessionOK, PauseOK,
              SnapshotIsLatest, StopIsOneShot
<1>3. CASE UNCHANGED sessionVars
  BY <1>3 DEF sessionVars, session, history, SessionInv, SessionOK, PauseOK,
              SnapshotIsLatest, StopIsOneShot
<1> QED
  BY <1>1, <1>2, <1>3, AnalyseKeeps, TranKeeps, ResumeKeeps, SetplotNewKeeps,
     SetplotKeeps, LetKeeps, MeasureKeeps, MeasureNothingKeeps DEF SessionNext

LEMMA Inductive == SessionSpec => []SessionInv
<1> QED
  BY InitOK, StepOK, PTL DEF SessionSpec

-----------------------------------------------------------------------------
\* Every plot, vector and measurement of a session is what its name says it is, and the
\* current plot is one of them (the types of SimContext, context.rs).
THEOREM SessionIsTyped == SessionSpec => []SessionTypeOK
<1>1. SessionInv => SessionTypeOK
  <2> SUFFICES ASSUME SessionInv PROVE SessionTypeOK
    OBVIOUS
  <2>1. ASSUME NEW i \in DOMAIN plots
        PROVE  plots[i].name \in Names /\ plots[i].data \in Values /\ Vectors(plots[i].vecs)
    <3>1. plots[i] \in PlotType
      BY ElementOfSeq, LenProperties DEF SessionInv, PlotsOK
    <3> QED
      BY <3>1, VectorsAre DEF PlotType
  <2> QED
    BY <2>1, VectorsAre DEF SessionInv, SessionOK, SessionTypeOK
<1> QED
  BY <1>1, Inductive, PTL

\* Two analyses never get one plot name, so `setplot tran2` reaches that plot and no
\* other (add_plot and set_current_plot of context.rs).
THEOREM AnalysesKeepTheirNames == SessionSpec => []NamesUnique
<1>1. SessionInv => NamesUnique
  BY DEF SessionInv, PlotsOK, Unique, NamesUnique
<1> QED
  BY <1>1, Inductive, PTL

\* A paused transient is the latest one, its plot is there still holding the paused leg,
\* some plot is current (execute_resume never takes its fallback), and each pause used up
\* one `stop when` (run_tran_with_pause).
THEOREM PauseStaysOwned == SessionSpec => []PauseIsOwned
<1>1. SessionInv => PauseIsOwned
  BY DEF SessionInv, PauseOK, HasPaused, PauseIsOwned, PausedPlotExists
<1> QED
  BY <1>1, Inductive, PTL

-----------------------------------------------------------------------------
\* Physical lines joined to logical ones.

\* A line is the indices of its pieces; its first piece says what it is.
IsComment(src, line) == src[line[1]].shape = "comment"

\* The pieces are below k.  A line other than a comment begins after everything on
\* the lines before it.
Lined(s, src, k) ==
    /\ s \in Seq(Seq(Nat))
    /\ \A n \in 1..Len(s) :
          /\ Len(s[n]) >= 1
          /\ \A i \in 1..Len(s[n]) : s[n][i] < k
          /\ \A i, j \in 1..Len(s[n]) : i < j => s[n][i] < s[n][j]
          /\ IsComment(src, s[n]) => Len(s[n]) = 1
    /\ \A m, n \in 1..Len(s) :
          m < n => IsComment(src, s[n]) \/ \A i \in 1..Len(s[m]) : s[m][i] < s[n][1]
    /\ \A m, n \in 1..Len(s) : m # n =>
          \A i \in 1..Len(s[m]), j \in 1..Len(s[n]) : s[m][i] # s[n][j]

LEMMA PieceTypes ==
    ASSUME NEW s, NEW src, NEW k, Lined(s, src, k)
    PROVE  /\ Len(s) \in Nat /\ DOMAIN s = 1..Len(s)
           /\ \A n \in 1..Len(s) :
                 /\ s[n] \in Seq(Nat) /\ Len(s[n]) \in Nat \ {0} /\ DOMAIN s[n] = 1..Len(s[n])
                 /\ \A i \in 1..Len(s[n]) : s[n][i] \in Nat
<1>1. Len(s) \in Nat /\ DOMAIN s = 1..Len(s)
  BY LenProperties DEF Lined
<1>2. \A n \in 1..Len(s) : s[n] \in Seq(Nat)
  BY ElementOfSeq DEF Lined
<1>3. ASSUME NEW n \in 1..Len(s)
      PROVE  Len(s[n]) \in Nat \ {0} /\ DOMAIN s[n] = 1..Len(s[n])
             /\ \A i \in 1..Len(s[n]) : s[n][i] \in Nat
  <2> DEFINE t == s[n]
  <2>1. t \in Seq(Nat) /\ Len(t) >= 1
    BY <1>2 DEF Lined
  <2> HIDE DEF t
  <2>2. Len(t) \in Nat \ {0} /\ DOMAIN t = 1..Len(t) /\ \A i \in 1..Len(t) : t[i] \in Nat
    BY <2>1, LenProperties, ElementOfSeq
  <2> QED
    BY <2>2 DEF t
<1> QED
  BY <1>1, <1>2, <1>3

\* The next line of the file is passed over.
LEMMA LinedLater ==
    ASSUME NEW s, NEW src, NEW k \in Nat, Lined(s, src, k)
    PROVE  Lined(s, src, k + 1)
<1>1. \A n \in 1..Len(s) : \A i \in 1..Len(s[n]) : s[n][i] < k + 1
  <2> SUFFICES ASSUME NEW n \in 1..Len(s), NEW i \in 1..Len(s[n]) PROVE s[n][i] < k + 1
    OBVIOUS
  <2>1. s[n][i] < k
    BY DEF Lined
  <2>2. s[n][i] \in Nat
    BY PieceTypes
  <2> QED
    BY <2>1, <2>2
<1> QED
  BY <1>1 DEF Lined

\* It is a line of its own.
LEMMA LinedNew ==
    ASSUME NEW s, NEW src, NEW k \in Nat, Lined(s, src, k)
    PROVE  LET r == Append(s, <<k>>)
           IN  /\ Lined(r, src, k + 1) /\ Len(r) = Len(s) + 1
               /\ \A n \in 1..Len(s) : IsComment(src, r[n]) <=> IsComment(src, s[n])
               /\ IsComment(src, r[Len(s) + 1]) <=> src[k].shape = "comment"
<1> DEFINE r == Append(s, <<k>>)
           z == Len(s)
<1>1. /\ <<k>> \in Seq(Nat) /\ Len(<<k>>) = 1 /\ <<k>>[1] = k /\ 1..1 = {1}
  OBVIOUS
<1>2. /\ r \in Seq(Seq(Nat)) /\ Len(r) = z + 1 /\ z \in Nat
      /\ \A n \in 1..z : r[n] = s[n]
      /\ r[z + 1] = <<k>>
  <2>1. s \in Seq(Seq(Nat))
    BY DEF Lined
  <2>2. /\ r \in Seq(Seq(Nat) \cup {<<k>>}) /\ Len(r) = z + 1 /\ z \in Nat
        /\ \A n \in 1..z : r[n] = s[n]
        /\ r[z + 1] = <<k>>
    BY <2>1, PushStack
  <2>3. Seq(Nat) \cup {<<k>>} = Seq(Nat)
    BY <1>1
  <2> QED
    BY <2>2, <2>3
<1>3. Lined(s, src, k + 1)
  BY LinedLater
<1>4. \A n \in 1..z : Len(s[n]) \in Nat \ {0} /\ \A i \in 1..Len(s[n]) : s[n][i] \in Nat /\ s[n][i] < k
  BY PieceTypes DEF Lined
<1> DEFINE new == <<k>>
<1> HIDE DEF r, z, new
<1>5. \A n \in 1..(z + 1) : n \in 1..z \/ n = z + 1
  BY <1>2
<1>6. ASSUME NEW n \in 1..(z + 1)
      PROVE  /\ Len(r[n]) >= 1
             /\ \A i \in 1..Len(r[n]) : r[n][i] < k + 1
             /\ \A i, j \in 1..Len(r[n]) : i < j => r[n][i] < r[n][j]
             /\ IsComment(src, r[n]) => Len(r[n]) = 1
  <2>1. CASE n \in 1..z
    BY <1>2, <1>3, <2>1 DEF Lined, z
  <2>2. CASE n = z + 1
    <3>1. Len(r[n]) = 1 /\ r[n][1] = k
      BY <1>1, <1>2, <2>2
    <3> QED
      BY <1>1, <3>1
  <2> QED
    BY <1>5, <2>1, <2>2
<1>7. ASSUME NEW m \in 1..(z + 1), NEW n \in 1..(z + 1), m < n
      PROVE  IsComment(src, r[n]) \/ \A i \in 1..Len(r[m]) : r[m][i] < r[n][1]
  <2>1. m \in 1..z
    BY <1>2, <1>7
  <2>2. CASE n \in 1..z
    BY <1>2, <1>7, <2>1, <2>2 DEF Lined, z
  <2>3. CASE n = z + 1
    <3>1. r[n][1] = k
      BY <1>1, <1>2, <2>3
    <3> QED
      BY <1>2, <1>4, <2>1, <3>1
  <2> QED
    BY <1>5, <2>2, <2>3
<1>8. ASSUME NEW m \in 1..z, NEW i \in 1..Len(r[m])
      PROVE  r[m][i] # k
  <2>1. r[m] = s[m]
    BY <1>2
  <2>2. i \in 1..Len(s[m])
    BY <2>1
  <2>3. s[m][i] \in Nat /\ s[m][i] < k
    BY <1>4, <2>2
  <2> QED
    BY <2>1, <2>3
<1>9. ASSUME NEW m \in 1..(z + 1), NEW n \in 1..(z + 1), m # n,
             NEW i \in 1..Len(r[m]), NEW j \in 1..Len(r[n])
      PROVE  r[m][i] # r[n][j]
  <2>1. r[z + 1][1] = k /\ 1..Len(r[z + 1]) = {1}
    BY <1>1, <1>2
  <2>2. CASE m \in 1..z /\ n \in 1..z
    <3>1. r[m] = s[m] /\ r[n] = s[n]
      BY <1>2, <2>2
    <3>2. i \in 1..Len(s[m]) /\ j \in 1..Len(s[n])
      BY <3>1
    <3>3. s[m][i] # s[n][j]
      BY <1>3, <1>9, <2>2, <3>2 DEF Lined, z
    <3> QED
      BY <3>1, <3>3
  <2>3. CASE m \in 1..z /\ n = z + 1
    BY <1>8, <2>1, <2>3
  <2>4. CASE m = z + 1 /\ n \in 1..z
    BY <1>8, <2>1, <2>4
  <2> QED
    BY <1>5, <1>9, <2>2, <2>3, <2>4
<1>10. Lined(r, src, k + 1)
  <2>1. r \in Seq(Seq(Nat)) /\ 1..Len(r) = 1..(z + 1)
    BY <1>2
  <2>2. \A n \in 1..Len(r) :
           /\ Len(r[n]) >= 1
           /\ \A i \in 1..Len(r[n]) : r[n][i] < k + 1
           /\ \A i, j \in 1..Len(r[n]) : i < j => r[n][i] < r[n][j]
           /\ IsComment(src, r[n]) => Len(r[n]) = 1
    BY <1>6, <2>1
  <2>3. \A m, n \in 1..Len(r) :
           m < n => IsComment(src, r[n]) \/ \A i \in 1..Len(r[m]) : r[m][i] < r[n][1]
    BY <1>7, <2>1
  <2>4. \A m, n \in 1..Len(r) : m # n =>
           \A i \in 1..Len(r[m]), j \in 1..Len(r[n]) : r[m][i] # r[n][j]
    BY <1>9, <2>1
  <2> QED
    BY <2>1, <2>2, <2>3, <2>4 DEF Lined
<1>11. IsComment(src, r[z + 1]) <=> src[k].shape = "comment"
  BY <1>1, <1>2 DEF IsComment
<1> QED
  BY <1>2, <1>10, <1>11 DEF r, z

\* It is glued to the last line that is no comment.
LEMMA LinedGlue ==
    ASSUME NEW s, NEW src, NEW k \in Nat, Lined(s, src, k),
           NEW a \in 1..Len(s), ~ IsComment(src, s[a]),
           \A n \in 1..Len(s) : n > a => IsComment(src, s[n])
    PROVE  LET r == [s EXCEPT ![a] = Append(@, k)]
           IN  /\ Lined(r, src, k + 1) /\ Len(r) = Len(s)
               /\ \A n \in 1..Len(s) : IsComment(src, r[n]) <=> IsComment(src, s[n])
<1> DEFINE r == [s EXCEPT ![a] = Append(@, k)]
           z == Len(s)
           l == Len(s[a])
           t == Append(s[a], k)
<1>1. /\ z \in Nat /\ DOMAIN s = 1..z
      /\ \A n \in 1..z : s[n] \in Seq(Nat) /\ Len(s[n]) \in Nat \ {0}
                         /\ \A i \in 1..Len(s[n]) : s[n][i] \in Nat /\ s[n][i] < k
  BY PieceTypes DEF Lined
<1>2. l \in Nat \ {0} /\ s[a] \in Seq(Nat)
  BY <1>1
<1>3. t \in Seq(Nat) /\ Len(t) = l + 1 /\ (\A i \in 1..l : t[i] = s[a][i]) /\ t[l + 1] = k
  BY <1>2, AppendProperties
<1>4. /\ r \in Seq(Seq(Nat)) /\ Len(r) = z
      /\ \A n \in 1..z : r[n] = IF n = a THEN t ELSE s[n]
  <2>1. s \in Seq(Seq(Nat))
    BY DEF Lined
  <2> HIDE DEF t
  <2>2. r = [s EXCEPT ![a] = t]
    BY DEF t
  <2>3. r \in Seq(Seq(Nat)) /\ Len(r) = Len(s)
    BY <1>3, <2>1, <2>2, ExceptSeq
  <2> QED
    BY <1>1, <2>2, <2>3
<1>5. t[1] = s[a][1]
  BY <1>2, <1>3
<1> HIDE DEF r, z, l, t
<1>6. \A n \in 1..z : r[n][1] = s[n][1] /\ (IsComment(src, r[n]) <=> IsComment(src, s[n]))
  BY <1>4, <1>5 DEF IsComment
<1>7. Lined(s, src, k + 1)
  BY LinedLater
<1>8. a \in 1..z /\ ~ IsComment(src, s[a]) /\ \A n \in 1..z : n > a => IsComment(src, s[n])
  BY DEF z
<1>9. \A i \in 1..(l + 1) : i \in 1..l \/ i = l + 1
  BY <1>2
<1>10. \A i \in 1..l : t[i] \in Nat /\ t[i] < k
  BY <1>1, <1>3, <1>8 DEF l
<1>11. ASSUME NEW n \in 1..z
       PROVE  /\ Len(r[n]) >= 1
              /\ \A i \in 1..Len(r[n]) : r[n][i] < k + 1
              /\ \A i, j \in 1..Len(r[n]) : i < j => r[n][i] < r[n][j]
              /\ IsComment(src, r[n]) => Len(r[n]) = 1
  <2>1. CASE n # a
    BY <1>4, <1>7, <2>1 DEF Lined, z
  <2>2. CASE n = a
    <3>1. r[n] = t /\ ~ IsComment(src, r[n])
      BY <1>4, <1>6, <1>8, <2>2
    <3>2. \A i \in 1..Len(t) : t[i] < k + 1
      BY <1>3, <1>9, <1>10
    <3>3. ASSUME NEW i \in 1..Len(t), NEW j \in 1..Len(t), i < j
          PROVE  t[i] < t[j]
      <4>1. i \in 1..l
        BY <1>2, <1>3, <3>3
      <4>2. CASE j \in 1..l
        <5>1. s[a][i] < s[a][j]
          BY <1>7, <1>8, <3>3, <4>1, <4>2 DEF Lined, l, z
        <5> QED
          BY <1>3, <4>1, <4>2, <5>1
      <4>3. CASE j = l + 1
        BY <1>3, <1>10, <4>1, <4>3
      <4> QED
        BY <1>3, <1>9, <4>2, <4>3
    <3>4. \A i, j \in 1..Len(t) : i < j => t[i] < t[j]
      BY <3>3
    <3>5. Len(t) >= 1
      BY <1>2, <1>3
    <3>6. /\ Len(r[n]) >= 1
          /\ \A i \in 1..Len(r[n]) : r[n][i] < k + 1
      BY <3>1, <3>2, <3>5
    <3>7. \A i, j \in 1..Len(r[n]) : i < j => r[n][i] < r[n][j]
      BY <3>1, <3>4
    <3> HIDE DEF z, l, t
    <3> QED
      BY <3>1, <3>6, <3>7, Zenon
  <2> QED
    BY <2>1, <2>2
<1>12. ASSUME NEW m \in 1..z, NEW n \in 1..z, m < n
       PROVE  IsComment(src, r[n]) \/ \A i \in 1..Len(r[m]) : r[m][i] < r[n][1]
  <2>1. CASE m = a
    BY <1>1, <1>6, <1>8, <1>12, <2>1
  <2>2. CASE m # a
    BY <1>4, <1>6, <1>7, <1>12, <2>2 DEF Lined, z
  <2> QED
    BY <2>1, <2>2
<1>13. ASSUME NEW m \in 1..z, m # a, NEW i \in 1..Len(s[m]), NEW j \in 1..(l + 1)
       PROVE  s[m][i] # t[j]
  <2>1. CASE j \in 1..l
    <3>1. j \in 1..Len(s[a]) /\ a \in 1..Len(s) /\ m \in 1..Len(s) /\ m # a
      BY <1>8, <1>13, <2>1 DEF z, l
    <3>2. s[m][i] # s[a][j]
      BY <1>7, <3>1 DEF Lined
    <3> QED
      BY <1>3, <2>1, <3>2
  <2>2. CASE j = l + 1
    <3>1. s[m][i] \in Nat /\ s[m][i] < k
      BY <1>1
    <3> QED
      BY <1>3, <2>2, <3>1
  <2> QED
    BY <1>9, <2>1, <2>2
<1>14. ASSUME NEW m \in 1..z, NEW n \in 1..z, m # n,
              NEW i \in 1..Len(r[m]), NEW j \in 1..Len(r[n])
       PROVE  r[m][i] # r[n][j]
  <2>1. CASE m = a
    <3>1. r[m] = t /\ r[n] = s[n] /\ n # a
      BY <1>4, <1>14, <2>1
    <3>2. i \in 1..(l + 1) /\ j \in 1..Len(s[n])
      BY <1>3, <3>1
    <3>3. s[n][j] # t[i]
      BY <1>13, <3>1, <3>2
    <3> QED
      BY <3>1, <3>3
  <2>2. CASE n = a
    <3>1. r[n] = t /\ r[m] = s[m] /\ m # a
      BY <1>4, <1>14, <2>2
    <3>2. j \in 1..(l + 1) /\ i \in 1..Len(s[m])
      BY <1>3, <3>1
    <3>3. s[m][i] # t[j]
      BY <1>13, <3>1, <3>2
    <3> QED
      BY <3>1, <3>3
  <2>3. CASE m # a /\ n # a
    <3>1. r[m] = s[m] /\ r[n] = s[n]
      BY <1>4, <2>3
    <3>2. i \in 1..Len(s[m]) /\ j \in 1..Len(s[n])
      BY <3>1
    <3>3. s[m][i] # s[n][j]
      BY <1>7, <1>14, <3>2 DEF Lined, z
    <3> QED
      BY <3>1, <3>3
  <2> QED
    BY <2>1, <2>2, <2>3
<1>15. Lined(r, src, k + 1)
  <2>1. r \in Seq(Seq(Nat)) /\ 1..Len(r) = 1..z
    BY <1>4
  <2>2. \A n \in 1..Len(r) :
           /\ Len(r[n]) >= 1
           /\ \A i \in 1..Len(r[n]) : r[n][i] < k + 1
           /\ \A i, j \in 1..Len(r[n]) : i < j => r[n][i] < r[n][j]
           /\ IsComment(src, r[n]) => Len(r[n]) = 1
    BY <1>11, <2>1
  <2>3. \A m, n \in 1..Len(r) :
           m < n => IsComment(src, r[n]) \/ \A i \in 1..Len(r[m]) : r[m][i] < r[n][1]
    BY <1>12, <2>1
  <2>4. \A m, n \in 1..Len(r) : m # n =>
           \A i \in 1..Len(r[m]), j \in 1..Len(r[n]) : r[m][i] # r[n][j]
    BY <1>14, <2>1
  <2> QED
    BY <2>1, <2>2, <2>3, <2>4 DEF Lined
<1> QED
  BY <1>4, <1>6, <1>15 DEF r, z

\* Lines as they are joined: what is glued goes on the last line that is no comment.
Joined ==
    /\ at \in Nat /\ Lined(logical, source, at)
    /\ attach \in 0..Len(logical)
    /\ attach # 0 => ~ IsComment(source, logical[attach])
    /\ ~ inControl => \A n \in 1..Len(logical) : n > attach => IsComment(source, logical[n])

LinesOK ==
    /\ phase = "join" => Joined
    /\ \E k \in Nat : Lined(logical, source, k)

LEMMA PassOverKeeps ==
    ASSUME Joined, UNCHANGED <<source, logical, attach>>, at' = at + 1,
           inControl' = inControl
    PROVE  Joined'
<1>1. Lined(logical, source, at + 1) /\ at + 1 \in Nat
  BY LinedLater DEF Joined
<1> QED
  BY <1>1 DEF Joined

LEMMA NewLineKeeps ==
    ASSUME Joined, source' = source, at' = at + 1, logical' = Append(logical, <<at>>),
           \/ attach' = Len(logical) + 1 /\ source[at].shape # "comment"
           \/ attach' = attach /\ (inControl' \/ (source[at].shape = "comment" /\ ~ inControl))
    PROVE  Joined'
<1> DEFINE z == Len(logical)
<1>1. /\ at \in Nat /\ Lined(logical, source, at)
      /\ attach \in 0..z
      /\ attach # 0 => ~ IsComment(source, logical[attach])
      /\ ~ inControl => \A n \in 1..z : n > attach => IsComment(source, logical[n])
  BY DEF Joined
<1>2. z \in Nat
  BY <1>1, PieceTypes
<1>3. /\ Lined(logical', source, at + 1) /\ Len(logical') = z + 1
      /\ \A n \in 1..z : IsComment(source, logical'[n]) <=> IsComment(source, logical[n])
      /\ IsComment(source, logical'[z + 1]) <=> source[at].shape = "comment"
  BY <1>1, LinedNew
<1> HIDE DEF z
<1>4. \A n \in 1..(z + 1) : n \in 1..z \/ n = z + 1
  BY <1>2
<1>5. CASE attach' = z + 1 /\ source[at].shape # "comment"
  <2>1. attach' \in 0..(z + 1) /\ attach' # 0
    BY <1>2, <1>5
  <2>2. ~ IsComment(source, logical'[attach'])
    BY <1>3, <1>5
  <2>3. \A n \in 1..(z + 1) : ~ (n > attach')
    BY <1>2, <1>5
  <2> QED
    BY <1>1, <1>3, <2>1, <2>2, <2>3 DEF Joined
<1>6. CASE attach' = attach /\ (inControl' \/ (source[at].shape = "comment" /\ ~ inControl))
  <2>1. attach' \in 0..(z + 1)
    BY <1>1, <1>2, <1>6
  <2>2. attach' # 0 => ~ IsComment(source, logical'[attach'])
    <3>1. attach # 0 => attach \in 1..z
      BY <1>1, <1>2
    <3> QED
      BY <1>1, <1>3, <1>6, <3>1
  <2>3. ~ inControl' => \A n \in 1..(z + 1) : n > attach' => IsComment(source, logical'[n])
    BY <1>1, <1>3, <1>4, <1>6
  <2> QED
    BY <1>1, <1>3, <2>1, <2>2, <2>3 DEF Joined
<1> QED
  BY <1>5, <1>6 DEF z

LEMMA GlueKeeps ==
    ASSUME Joined, ~ inControl, attach # 0, UNCHANGED <<source, attach, inControl>>,
           at' = at + 1, logical' = [logical EXCEPT ![attach] = Append(@, at)]
    PROVE  Joined'
<1> DEFINE z == Len(logical)
<1>1. /\ at \in Nat /\ Lined(logical, source, at)
      /\ attach \in 0..z /\ ~ IsComment(source, logical[attach])
      /\ \A n \in 1..z : n > attach => IsComment(source, logical[n])
  BY DEF Joined
<1>2. z \in Nat
  BY <1>1, PieceTypes
<1>3. attach \in 1..z
  BY <1>1, <1>2
<1>4. /\ Lined(logical', source, at + 1) /\ Len(logical') = z
      /\ \A n \in 1..z : IsComment(source, logical'[n]) <=> IsComment(source, logical[n])
  BY <1>1, <1>3, LinedGlue
<1> HIDE DEF z
<1> QED
  BY <1>1, <1>3, <1>4 DEF Joined

LEMMA LinesInit == ASSUME ParseInit PROVE LinesOK
<1>1. phase = "join" /\ at = 1 /\ logical = <<>> /\ attach = 0
  BY DEF ParseInit
<1>2. Len(logical) = 0 /\ logical \in Seq(Seq(Nat)) /\ 1..0 = {}
  BY <1>1
<1>3. Lined(logical, source, at)
  BY <1>2 DEF Lined
<1> QED
  BY <1>1, <1>2, <1>3 DEF LinesOK, Joined

LEMMA LinesStep == ASSUME LinesOK, [ParseNext]_(parserVars) PROVE LinesOK'
<1>1. ASSUME Joined' PROVE LinesOK'
  BY <1>1 DEF LinesOK, Joined
<1>2. ASSUME UNCHANGED <<source, logical>>, phase' # "join" PROVE LinesOK'
  BY <1>2 DEF LinesOK
<1>3. Joins => Joined
  BY DEF Joins, LinesOK
<1>4. CASE PassControl
  <2>1. Joined /\ source' = source /\ at' = at + 1 /\ logical' = Append(logical, <<at>>)
    BY <1>3, <1>4 DEF PassControl, NewLine, JoinStep
  <2>2. /\ inControl' = (source[at].shape = "control" \/ (inControl /\ source[at].shape # "endc"))
        /\ attach' = IF source[at].shape \in {"control", "endc"} THEN Len(logical) + 1 ELSE attach
        /\ inControl \/ source[at].shape = "control"
    BY <1>4 DEF PassControl, Physical
  <2>3. CASE source[at].shape \in {"control", "endc"}
    BY <1>1, <2>1, <2>2, <2>3, NewLineKeeps
  <2>4. CASE source[at].shape \notin {"control", "endc"}
    <3>1. attach' = attach /\ inControl'
      BY <2>2, <2>4
    <3>2. Joined'
      BY <2>1, <3>1, NewLineKeeps
    <3> QED
      BY <1>1, <3>2
  <2> QED
    BY <2>3, <2>4
<1>5. CASE SkipBlank
  <2>1. Joined /\ UNCHANGED <<source, logical, attach, inControl>> /\ at' = at + 1
    BY <1>3, <1>5 DEF SkipBlank, Outside, joinVars, JoinStep
  <2> QED
    BY <1>1, <2>1, PassOverKeeps
<1>6. CASE GlueBackslash \/ GluePlus
  <2>1. /\ Joined /\ ~ inControl /\ UNCHANGED <<source, attach, inControl>> /\ at' = at + 1
        /\ \/ attach # 0 /\ logical' = [logical EXCEPT ![attach] = Append(@, at)]
           \/ logical' = logical
    BY <1>3, <1>6 DEF GlueBackslash, GluePlus, Outside, Glue,
       JoinStep
  <2> QED
    BY <1>1, <2>1, GlueKeeps, PassOverKeeps
<1>7. CASE Bare
  <2>1. Joined /\ UNCHANGED <<source, logical, attach, inControl>> /\ at' = at + 1
    BY <1>3, <1>7 DEF Bare, Outside, JoinStep
  <2> QED
    BY <1>1, <2>1, PassOverKeeps
<1>8. CASE Comment
  <2>1. /\ Joined /\ ~ inControl /\ source' = source /\ at' = at + 1
        /\ logical' = Append(logical, <<at>>) /\ attach' = attach /\ source[at].shape = "comment"
    BY <1>3, <1>8 DEF Comment, Outside, NewLine, AfterComment,
       JoinStep, Physical
  <2> QED
    BY <1>1, <2>1, NewLineKeeps
<1>9. CASE StartLine
  <2>1. /\ Joined /\ source' = source /\ at' = at + 1 /\ logical' = Append(logical, <<at>>)
        /\ attach' = Len(logical) + 1 /\ source[at].shape # "comment"
    BY <1>3, <1>9 DEF StartLine, Outside, NewLine, JoinStep,
       Physical
  <2> QED
    BY <1>1, <2>1, NewLineKeeps
<1>10. CASE EndJoin
  BY <1>2, <1>10 DEF EndJoin, joinVars
<1>11. CASE OpenBlock \/ ElseIf \/ Else \/ EndIf \/ KeepLine
  BY <1>2, <1>11 DEF OpenBlock, ElseIf, Else, EndIf, KeepLine,
     Chooses, ChooseStep, joinVars
<1>12. CASE EndChoose \/ AddItem \/ AddToBody \/ Fork
            \/ RefuseEmpty \/ Finish
  BY <1>2, <1>12 DEF EndChoose, AddItem, AddToBody, Fork,
     RefuseEmpty, Finish, Parses, ParseStep, joinVars
<1>13. CASE UNCHANGED parserVars
  BY <1>13 DEF parserVars, joinVars, LinesOK, Joined
<1> QED
  BY <1>4, <1>5, <1>6, <1>7, <1>8, <1>9, <1>10, <1>11, <1>12, <1>13 DEF ParseNext

LEMMA LinesAttach == ASSUME LinesOK PROVE ContinuationsAttach
<1>1. PICK k \in Nat : Lined(logical, source, k)
  BY DEF LinesOK
<1>2. /\ Len(logical) \in Nat /\ DOMAIN logical = 1..Len(logical)
      /\ \A n \in 1..Len(logical) :
            /\ Len(logical[n]) \in Nat \ {0} /\ DOMAIN logical[n] = 1..Len(logical[n])
            /\ \A i \in 1..Len(logical[n]) : logical[n][i] \in Nat
  BY <1>1, PieceTypes
<1>3. \A n \in 1..Len(logical) :
         ToSet(logical[n]) = {logical[n][i] : i \in 1..Len(logical[n])}
  BY <1>2 DEF ToSet
<1>4. ASSUME NEW n \in 1..Len(logical), NEW i \in 1..Len(logical[n]), NEW j \in 1..Len(logical[n]),
             i < j
      PROVE  logical[n][i] < logical[n][j] /\ source[logical[n][1]].shape # "comment"
  <2>1. Len(logical[n]) # 1
    BY <1>2, <1>4
  <2> QED
    BY <1>1, <1>4, <2>1 DEF Lined, IsComment
<1>5. ASSUME NEW m \in 1..Len(logical), NEW n \in 1..Len(logical), m # n
      PROVE  ToSet(logical[m]) \cap ToSet(logical[n]) = {}
  <2> SUFFICES ASSUME NEW x, x \in ToSet(logical[m]), x \in ToSet(logical[n])
               PROVE  FALSE
    OBVIOUS
  <2>1. PICK i \in 1..Len(logical[m]) : x = logical[m][i]
    BY <1>3
  <2>2. PICK j \in 1..Len(logical[n]) : x = logical[n][j]
    BY <1>3
  <2>3. logical[m][i] # logical[n][j]
    BY <1>1, <1>5 DEF Lined
  <2> QED
    BY <2>1, <2>2, <2>3
<1>6. ASSUME NEW n \in 1..Len(logical), NEW p \in ToSet(logical[n]),
             NEW m \in 1..Len(logical), NEW q \in ToSet(logical[m]),
             p > logical[n][1], q > logical[n][1], q < p, q \notin ToSet(logical[n])
      PROVE  source[q].shape = "comment"
  <2>1. PICK i \in 1..Len(logical[n]) : p = logical[n][i]
    BY <1>3
  <2>2. PICK j \in 1..Len(logical[m]) : q = logical[m][j]
    BY <1>3
  <2>3. /\ p \in Nat /\ q \in Nat /\ logical[n][1] \in Nat /\ logical[m][1] \in Nat
        /\ 1 \in 1..Len(logical[n]) /\ 1 \in 1..Len(logical[m])
    BY <1>2, <2>1, <2>2
  <2>4. i > 1 /\ m # n
    BY <1>6, <2>1, <1>2
  <2>5. ~ IsComment(source, logical[n])
    <3>1. Len(logical[n]) # 1
      BY <1>2, <2>4
    <3> QED
      BY <1>1, <3>1 DEF Lined
  <2>6. CASE m < n
    <3>1. logical[m][j] < logical[n][1]
      BY <1>1, <2>5, <2>6 DEF Lined
    <3> QED
      BY <1>6, <2>2, <2>3, <3>1
  <2>7. CASE n < m
    <3>1. CASE IsComment(source, logical[m])
      <4>1. j = 1
        <5>1. Len(logical[m]) = 1
          BY <1>1, <3>1 DEF Lined
        <5> QED
          BY <5>1
      <4> QED
        BY <2>2, <3>1, <4>1 DEF IsComment
    <3>2. CASE ~ IsComment(source, logical[m])
      <4>1. logical[n][i] < logical[m][1]
        BY <1>1, <2>7, <3>2 DEF Lined
      <4>2. logical[m][1] <= logical[m][j]
        <5>1. CASE j = 1
          BY <2>3, <5>1
        <5>2. CASE j # 1
          <6>1. 1 < j
            BY <1>2, <5>2
          <6>2. logical[m][1] < logical[m][j]
            BY <1>1, <2>3, <6>1 DEF Lined
          <6> QED
            BY <2>2, <2>3, <6>2
        <5> QED
          BY <5>1, <5>2
      <4> QED
        BY <1>6, <2>1, <2>2, <2>3, <4>1, <4>2
    <3> QED
      BY <3>1, <3>2
  <2> QED
    BY <1>2, <2>4, <2>6, <2>7
<1>7. Pieces = UNION {ToSet(logical[m]) : m \in 1..Len(logical)}
  BY <1>2 DEF Pieces
<1> QED
  BY <1>2, <1>4, <1>5, <1>6, <1>7 DEF ContinuationsAttach

\* Every continuation is on the line it continues, whatever comments, blank lines, bare
\* backslashes and .control blocks stand between them, for all files.
THEOREM ContinuationsStayAttached == ParseSpec => []ContinuationsAttach
<1>1. ParseInit => LinesOK
  BY LinesInit
<1>2. LinesOK /\ [ParseNext]_(parserVars) => LinesOK'
  BY LinesStep
<1>3. LinesOK => ContinuationsAttach
  BY LinesAttach
<1> QED
  BY <1>1, <1>2, <1>3, PTL DEF ParseSpec
-----------------------------------------------------------------------------
\* The items shared out.

Rising(s) == s \in Seq(Nat) /\ \A i, j \in 1..Len(s) : i < j => s[i] < s[j]

\* What a fork has of the items: those before its analysis, the first of them.
Begins(f, its) ==
    /\ Len(f.items) <= Len(its)
    /\ \A i \in 1..Len(f.items) : f.items[i] = its[i]
    /\ \A i \in 1..Len(its) : IF i <= Len(f.items) THEN its[i] < f.analysis ELSE its[i] > f.analysis

Forks == [items : Seq(Nat), analysis : Nat \ {0}]

\* The lines below k have been read.
Shared(its, fs, k) ==
    /\ Rising(its) /\ \A i \in 1..Len(its) : its[i] < k
    /\ fs \in Seq(Forks)
    /\ \A m \in 1..Len(fs) : fs[m].analysis < k /\ Begins(fs[m], its)
    /\ \A l, m \in 1..Len(fs) : l < m => Len(fs[l].items) <= Len(fs[m].items)

LEMMA RisingLonger ==
    ASSUME NEW s, Rising(s), NEW n \in Nat, \A i \in 1..Len(s) : s[i] < n
    PROVE  LET r == Append(s, n)
           IN  /\ Rising(r) /\ Len(r) = Len(s) + 1 /\ Len(s) \in Nat
               /\ \A i \in 1..Len(s) : r[i] = s[i] /\ s[i] \in Nat
               /\ r[Len(s) + 1] = n
<1> DEFINE r == Append(s, n)
           z == Len(s)
<1>1. s \in Seq(Nat) /\ \A i, j \in 1..z : i < j => s[i] < s[j]
  BY DEF Rising
<1>2. /\ r \in Seq(Nat) /\ Len(r) = z + 1 /\ z \in Nat
      /\ \A i \in 1..z : r[i] = s[i]
      /\ r[z + 1] = n
  <2>1. /\ r \in Seq(Nat \cup {n}) /\ Len(r) = z + 1 /\ z \in Nat
        /\ \A i \in 1..z : r[i] = s[i]
        /\ r[z + 1] = n
    BY <1>1, PushStack
  <2>2. Nat \cup {n} = Nat
    OBVIOUS
  <2> QED
    BY <2>1, <2>2
<1>3. \A i \in 1..z : s[i] \in Nat
  BY <1>1, ElementOfSeq
<1> HIDE DEF r, z
<1>4. ASSUME NEW i \in 1..(z + 1), NEW j \in 1..(z + 1), i < j
      PROVE  r[i] < r[j]
  <2>1. i \in 1..z
    BY <1>2, <1>4
  <2>2. CASE j = z + 1
    <3>1. s[i] < n
      BY <2>1 DEF z
    <3> QED
      BY <1>2, <2>1, <2>2, <3>1
  <2>3. CASE j # z + 1
    <3>1. j \in 1..z
      BY <1>2, <2>3
    <3> QED
      BY <1>1, <1>2, <1>4, <2>1, <3>1
  <2> QED
    BY <2>2, <2>3
<1>5. Rising(r)
  BY <1>2, <1>4 DEF Rising
<1> QED
  BY <1>2, <1>3, <1>5 DEF r, z

LEMMA ForkTypes ==
    ASSUME NEW fs \in Seq(Forks)
    PROVE  /\ Len(fs) \in Nat /\ DOMAIN fs = 1..Len(fs)
           /\ \A m \in 1..Len(fs) :
                 /\ fs[m] \in Forks /\ fs[m].analysis \in Nat \ {0}
                 /\ fs[m].items \in Seq(Nat) /\ Len(fs[m].items) \in Nat
<1>1. Len(fs) \in Nat /\ DOMAIN fs = 1..Len(fs) /\ \A m \in 1..Len(fs) : fs[m] \in Forks
  BY LenProperties, ElementOfSeq
<1>2. \A f \in Forks : f.analysis \in Nat \ {0} /\ f.items \in Seq(Nat)
  BY DEF Forks
<1>3. \A t \in Seq(Nat) : Len(t) \in Nat
  BY LenProperties
<1> QED
  BY <1>1, <1>2, <1>3

\* A line is an item.
LEMMA SharedItem ==
    ASSUME NEW its, NEW fs, NEW k \in Nat, Shared(its, fs, k), NEW n \in Nat, k <= n
    PROVE  Shared(Append(its, n), fs, n + 1)
<1> DEFINE r == Append(its, n)
           z == Len(its)
<1>1. Rising(its) /\ fs \in Seq(Forks)
      /\ \A i \in 1..z : its[i] < k
  BY DEF Shared
<1>2. \A i \in 1..z : its[i] \in Nat
  BY <1>1, ElementOfSeq DEF Rising
<1>3. \A i \in 1..Len(its) : its[i] < n
  BY <1>1, <1>2
<1>4. /\ Rising(r) /\ Len(r) = z + 1 /\ z \in Nat
      /\ \A i \in 1..z : r[i] = its[i]
      /\ r[z + 1] = n
  BY <1>1, <1>3, RisingLonger
<1>5. \A m \in 1..Len(fs) : fs[m].analysis \in Nat /\ Len(fs[m].items) \in Nat
  BY <1>1, ForkTypes
<1>6. \A m \in 1..Len(fs) : fs[m].analysis < k /\ Begins(fs[m], its)
  BY DEF Shared
<1> HIDE DEF r
<1>7. \A i \in 1..(z + 1) : i \in 1..z \/ i = z + 1
  BY <1>4
<1>8. ASSUME NEW i \in 1..(z + 1) PROVE r[i] < n + 1
  BY <1>2, <1>3, <1>4, <1>7
<1>9. ASSUME NEW m \in 1..Len(fs)
      PROVE  fs[m].analysis < n + 1 /\ Begins(fs[m], r)
  <2> DEFINE f == fs[m]
  <2>1. /\ Len(f.items) \in Nat /\ f.analysis \in Nat /\ f.analysis < k
        /\ Len(f.items) <= z
        /\ \A i \in 1..Len(f.items) : f.items[i] = its[i]
        /\ \A i \in 1..z : IF i <= Len(f.items) THEN its[i] < f.analysis ELSE its[i] > f.analysis
    BY <1>5, <1>6 DEF Begins
  <2> HIDE DEF f, z
  <2>2. Len(f.items) <= z + 1 /\ f.analysis < n + 1
    BY <1>4, <2>1
  <2>3. \A i \in 1..Len(f.items) : f.items[i] = r[i]
    BY <1>4, <2>1
  <2>4. \A i \in 1..(z + 1) : IF i <= Len(f.items) THEN r[i] < f.analysis ELSE r[i] > f.analysis
    <3> TAKE i \in 1..(z + 1)
    <3>1. CASE i \in 1..z
      BY <1>4, <2>1, <3>1
    <3>2. CASE i = z + 1
      BY <1>4, <2>1, <3>2
    <3> QED
      BY <1>7, <3>1, <3>2
  <2>5. Begins(f, r)
    BY <1>4, <2>2, <2>3, <2>4 DEF Begins
  <2> QED
    BY <2>2, <2>5 DEF f
<1>10. Shared(r, fs, n + 1)
  <2>1. \A i \in 1..Len(r) : r[i] < n + 1
    BY <1>4, <1>8
  <2>2. \A l, m \in 1..Len(fs) : l < m => Len(fs[l].items) <= Len(fs[m].items)
    BY DEF Shared
  <2> QED
    BY <1>1, <1>4, <1>9, <2>1, <2>2 DEF Shared
<1> QED
  BY <1>10 DEF r

\* A line is an analysis: a netlist with the items so far.
LEMMA SharedFork ==
    ASSUME NEW its, NEW fs, NEW k \in Nat, Shared(its, fs, k), NEW n \in Nat \ {0}, k <= n
    PROVE  Shared(its, Append(fs, [items |-> its, analysis |-> n]), n + 1)
<1> DEFINE g == [items |-> its, analysis |-> n]
           r == Append(fs, g)
           z == Len(fs)
<1>1. Rising(its) /\ its \in Seq(Nat) /\ fs \in Seq(Forks)
      /\ \A i \in 1..Len(its) : its[i] < k
  BY DEF Shared, Rising
<1>2. g \in Forks /\ g.items = its /\ g.analysis = n
  BY <1>1 DEF Forks
<1>3. \A i \in 1..Len(its) : its[i] \in Nat
  BY <1>1, ElementOfSeq
<1>4. Len(its) \in Nat
  BY <1>1, LenProperties
<1> HIDE DEF g
<1>5. /\ r \in Seq(Forks) /\ Len(r) = z + 1 /\ z \in Nat
      /\ \A m \in 1..z : r[m] = fs[m]
      /\ r[z + 1] = g
  <2>1. /\ r \in Seq(Forks \cup {g}) /\ Len(r) = z + 1 /\ z \in Nat
        /\ \A m \in 1..z : r[m] = fs[m]
        /\ r[z + 1] = g
    BY <1>1, PushStack
  <2>2. Forks \cup {g} = Forks
    BY <1>2
  <2> QED
    BY <2>1, <2>2
<1> HIDE DEF r
<1>6. \A m \in 1..z : /\ fs[m].analysis \in Nat /\ Len(fs[m].items) \in Nat
                      /\ fs[m].analysis < k /\ Begins(fs[m], its)
  <2>1. \A m \in 1..z : fs[m].analysis \in Nat /\ Len(fs[m].items) \in Nat
    BY <1>1, ForkTypes
  <2>2. \A m \in 1..z : fs[m].analysis < k /\ Begins(fs[m], its)
    BY DEF Shared
  <2> QED
    BY <2>1, <2>2
<1>7. \A l, m \in 1..z : l < m => Len(fs[l].items) <= Len(fs[m].items)
  BY DEF Shared
<1> HIDE DEF z
<1>8. \A m \in 1..(z + 1) : m \in 1..z \/ m = z + 1
  BY <1>5
<1>9. Begins(g, its)
  <2>1. \A i \in 1..Len(its) : i <= Len(its) /\ its[i] < n
    BY <1>1, <1>3, <1>4
  <2> QED
    BY <1>2, <1>4, <2>1 DEF Begins
<1>10. ASSUME NEW m \in 1..(z + 1)
       PROVE  r[m].analysis < n + 1 /\ Begins(r[m], its)
  <2>1. CASE m \in 1..z
    <3>1. r[m] = fs[m] /\ fs[m].analysis < k /\ fs[m].analysis \in Nat /\ Begins(fs[m], its)
      BY <1>5, <1>6, <2>1
    <3> QED
      BY <3>1
  <2>2. CASE m = z + 1
    BY <1>2, <1>5, <1>9, <2>2
  <2> QED
    BY <1>8, <2>1, <2>2
<1>11. ASSUME NEW l \in 1..(z + 1), NEW m \in 1..(z + 1), l < m
       PROVE  Len(r[l].items) <= Len(r[m].items)
  <2>1. l \in 1..z
    BY <1>5, <1>11
  <2>2. CASE m \in 1..z
    BY <1>5, <1>7, <1>11, <2>1, <2>2
  <2>3. CASE m = z + 1
    <3>1. r[m].items = its /\ r[l] = fs[l]
      BY <1>2, <1>5, <2>1, <2>3
    <3>2. Len(fs[l].items) <= Len(its)
      BY <1>6, <2>1 DEF Begins
    <3> QED
      BY <3>1, <3>2
  <2> QED
    BY <1>8, <2>2, <2>3
<1>12. Shared(its, r, n + 1)
  <2>1. \A i \in 1..Len(its) : its[i] < n + 1
    BY <1>1, <1>3
  <2> QED
    BY <1>1, <1>5, <1>10, <1>11, <2>1 DEF Shared
<1> QED
  BY <1>12 DEF r, g

\* What follows the last analysis is put after what a fork has.
LEMMA TrailingJoined ==
    ASSUME NEW its, Rising(its), NEW k \in 0..Len(its), NEW l \in k..Len(its),
           NEW t \in Seq(Nat), Len(t) = k, \A i \in 1..k : t[i] = its[i]
    PROVE  LET r == t \o SubSeq(its, l + 1, Len(its))
           IN  InOrder(r) /\ ToSet(r) = {its[i] : i \in 1..k \cup (l + 1)..Len(its)}
<1> DEFINE z == Len(its)
           u == SubSeq(its, l + 1, z)
           r == t \o u
<1>1. /\ its \in Seq(Nat) /\ z \in Nat /\ \A i, j \in 1..z : i < j => its[i] < its[j]
      /\ \A i \in 1..z : its[i] \in Nat
  <2>1. its \in Seq(Nat) /\ \A i, j \in 1..z : i < j => its[i] < its[j]
    BY DEF Rising
  <2> QED
    BY <2>1, LenProperties, ElementOfSeq
<1>2. k \in Nat /\ l \in Nat /\ k <= l /\ l <= z
  BY <1>1
<1>3. u \in Seq(Nat) /\ Len(u) = z - l /\ \A i \in 1..(z - l) : u[i] = its[l + i]
  <2>1. \A i \in (l + 1)..z : its[i] \in Nat
    BY <1>1, <1>2
  <2>2. l + 1 \in Int /\ z \in Int
    BY <1>1, <1>2
  <2>3. /\ u \in Seq(Nat)
        /\ Len(u) = IF l + 1 <= z THEN z - (l + 1) + 1 ELSE 0
        /\ \A i \in 1..(z - (l + 1) + 1) : u[i] = its[(l + 1) + i - 1]
    BY <2>1, <2>2, SubSeqProperties
  <2> HIDE DEF u, z
  <2>4. z - (l + 1) + 1 = z - l /\ (~ (l + 1 <= z) => z - l = 0)
    BY <1>1, <1>2
  <2>5. \A i \in 1..(z - l) : (l + 1) + i - 1 = l + i
    BY <1>1, <1>2
  <2> QED
    BY <2>3, <2>4, <2>5
<1>4. /\ r \in Seq(Nat) /\ Len(r) = k + (z - l)
      /\ \A i \in 1..(k + (z - l)) : r[i] = IF i <= k THEN t[i] ELSE u[i - k]
  <2>1. u \in Seq(Nat) /\ Len(u) = z - l
    BY <1>3
  <2> HIDE DEF u, z
  <2>2. /\ r \in Seq(Nat) /\ Len(r) = Len(t) + Len(u)
        /\ \A i \in 1..Len(t) + Len(u) : r[i] = IF i <= Len(t) THEN t[i] ELSE u[i - Len(t)]
    BY <2>1, ConcatProperties
  <2> HIDE DEF r
  <2> QED
    BY <2>1, <2>2
<1>5. DOMAIN r = 1..(k + (z - l))
  <2>1. r \in Seq(Nat) /\ Len(r) = k + (z - l)
    BY <1>4
  <2> HIDE DEF r
  <2> QED
    BY <2>1, LenProperties
<1> HIDE DEF r, u, z
<1> DEFINE from(i) == IF i <= k THEN i ELSE l + (i - k)
<1>6. ASSUME NEW i \in 1..(k + (z - l))
      PROVE  from(i) \in 1..z /\ r[i] = its[from(i)]
  <2>1. CASE i <= k
    <3>1. i \in 1..k /\ i \in 1..z
      BY <1>1, <1>2, <2>1
    <3> QED
      BY <1>4, <2>1, <3>1
  <2>2. CASE ~ (i <= k)
    <3>1. i - k \in 1..(z - l) /\ l + (i - k) \in 1..z
      BY <1>1, <1>2, <2>2
    <3> QED
      BY <1>3, <1>4, <2>2, <3>1
  <2> QED
    BY <2>1, <2>2
<1>7. ASSUME NEW i \in 1..(k + (z - l)), NEW j \in 1..(k + (z - l)), i < j
      PROVE  r[i] < r[j]
  <2>1. from(i) < from(j)
    BY <1>1, <1>2, <1>7
  <2>2. from(i) \in 1..z /\ from(j) \in 1..z /\ r[i] = its[from(i)] /\ r[j] = its[from(j)]
    BY <1>6
  <2> HIDE DEF from
  <2> QED
    BY <1>1, <2>1, <2>2
<1>8. InOrder(r)
  BY <1>5, <1>7 DEF InOrder
<1>9. ASSUME NEW i \in 1..(k + (z - l))
      PROVE  from(i) \in 1..k \cup (l + 1)..z
  BY <1>1, <1>2
<1>10. ASSUME NEW j \in 1..k \cup (l + 1)..z
       PROVE  \E i \in 1..(k + (z - l)) : from(i) = j
  <2>1. CASE j \in 1..k
    <3>1. j \in 1..(k + (z - l)) /\ from(j) = j
      BY <1>1, <1>2, <2>1
    <3> QED
      BY <3>1
  <2>2. CASE j \in (l + 1)..z
    <3> DEFINE i == k + (j - l)
    <3>1. i \in 1..(k + (z - l)) /\ from(i) = j
      BY <1>1, <1>2, <2>2
    <3> QED
      BY <3>1
  <2> QED
    BY <2>1, <2>2
<1> HIDE DEF from
<1>11. ToSet(r) = {r[i] : i \in 1..(k + (z - l))}
  BY <1>5 DEF ToSet
<1>12. ToSet(r) = {its[j] : j \in 1..k \cup (l + 1)..z}
  <2> DEFINE P == 1..k \cup (l + 1)..z
             R == 1..(k + (z - l))
  <2>1. \A i \in R : from(i) \in P /\ r[i] = its[from(i)]
    BY <1>6, <1>9
  <2>2. \A j \in P : \E i \in R : from(i) = j
    BY <1>10
  <2>3. ToSet(r) = {r[i] : i \in R}
    BY <1>11
  <2> HIDE DEF P, R
  <2>4. ToSet(r) = {its[j] : j \in P}
    BY <2>1, <2>2, <2>3
  <2> QED
    BY <2>4 DEF P
<1> QED
  BY <1>8, <1>12 DEF r, u, z

Completed(its, fs) ==
    [m \in DOMAIN fs |-> [fs[m] EXCEPT !.items = @ \o SubSeq(its, Len(Last(fs).items) + 1, Len(its))]]

AsWritten(its, gs) ==
    \A f \in ToSet(gs) :
        LET last == Last(gs).analysis
        IN  /\ InOrder(f.items)
            /\ ToSet(f.items) = {n \in ToSet(its) : n < f.analysis \/ n > last \/ last = 0}

\* The last fork has the most; what it has not comes after its analysis.
LEMMA SharedDone ==
    ASSUME NEW its, NEW fs, NEW k \in Nat, Shared(its, fs, k), fs # <<>>
    PROVE  AsWritten(its, Completed(its, fs))
<1> DEFINE gs == Completed(its, fs)
<1>0. gs = [m \in DOMAIN fs |->
              [fs[m] EXCEPT !.items = @ \o SubSeq(its, Len(Last(fs).items) + 1, Len(its))]]
  BY DEF Completed
<1> HIDE DEF gs
<1> DEFINE z == Len(its)
           w == Len(fs)
           ending == Last(fs)
           trail == SubSeq(its, Len(ending.items) + 1, z)
<1>1. Rising(its) /\ its \in Seq(Nat) /\ fs \in Seq(Forks)
  BY DEF Shared, Rising
<1>2. /\ z \in Nat /\ DOMAIN its = 1..z /\ \A i \in 1..z : its[i] \in Nat
  BY <1>1, LenProperties, ElementOfSeq
<1>3. /\ w \in Nat \ {0} /\ DOMAIN fs = 1..w /\ ending = fs[w] /\ w \in 1..w
  <2>1. /\ w \in Nat \ {0} /\ DOMAIN fs = 1..w /\ ending = fs[w]
    BY <1>1, PopStack
  <2> QED
    BY <2>1
<1>4. \A m \in 1..w : /\ fs[m] \in Forks /\ fs[m].analysis \in Nat \ {0}
                      /\ fs[m].items \in Seq(Nat) /\ Len(fs[m].items) \in Nat
                      /\ Begins(fs[m], its)
  <2>1. \A m \in 1..w : Begins(fs[m], its)
    BY DEF Shared
  <2>2. \A m \in 1..w : /\ fs[m] \in Forks /\ fs[m].analysis \in Nat \ {0}
                        /\ fs[m].items \in Seq(Nat) /\ Len(fs[m].items) \in Nat
    BY <1>1, ForkTypes
  <2> QED
    BY <2>1, <2>2
<1>5. \A m \in 1..w : m < w => Len(fs[m].items) <= Len(fs[w].items)
  BY <1>3 DEF Shared
<1> HIDE DEF trail, ending, w, z
<1>6. ASSUME NEW m \in 1..w
      PROVE  gs[m].items = fs[m].items \o trail /\ gs[m].analysis = fs[m].analysis
  <2>1. gs[m] = [fs[m] EXCEPT !.items = @ \o trail]
    BY <1>0, <1>3 DEF trail, z, ending
  <2>2. \A t : [fs[m] EXCEPT !.items = t].items = t
               /\ [fs[m] EXCEPT !.items = t].analysis = fs[m].analysis
    BY <1>4 DEF Forks
  <2> QED
    BY <2>1, <2>2
<1>7. DOMAIN gs = 1..w /\ Last(gs).analysis = ending.analysis
  <2>1. DOMAIN gs = 1..w
    BY <1>0, <1>3
  <2>2. Len(gs) = w
    <3>1. gs = [m \in 1..w |-> gs[m]]
      BY <1>0, <1>3
    <3>2. \A x \in Nat : Len([m \in 1..x |-> gs[m]]) = x
      OBVIOUS
    <3> QED
      BY <1>3, <2>1, <3>1, <3>2
  <2>3. Last(gs) = gs[w]
    BY <2>2 DEF Last
  <2> QED
    BY <1>3, <1>6, <2>1, <2>3
<1>8. ToSet(gs) = {gs[m] : m \in 1..w}
  BY <1>7 DEF ToSet
<1>9. ASSUME NEW m \in 1..w
      PROVE  /\ InOrder(gs[m].items)
             /\ ToSet(gs[m].items) =
                   {n \in ToSet(its) : n < gs[m].analysis \/ n > ending.analysis \/ ending.analysis = 0}
  <2> DEFINE a == Len(fs[m].items)
             b == Len(ending.items)
             p == fs[m].analysis
             q == ending.analysis
  <2>1. /\ a \in Nat /\ p \in Nat \ {0} /\ a <= z
        /\ \A i \in 1..a : fs[m].items[i] = its[i]
        /\ \A i \in 1..z : IF i <= a THEN its[i] < p ELSE its[i] > p
    BY <1>4 DEF Begins, z
  <2>2. /\ b \in Nat /\ q \in Nat \ {0} /\ b <= z
        /\ \A i \in 1..z : IF i <= b THEN its[i] < q ELSE its[i] > q
    BY <1>3, <1>4 DEF Begins, z
  <2>3. a <= b
    <3>1. CASE m = w
      BY <1>3, <2>1, <3>1
    <3>2. CASE m # w
      <4>1. m < w
        BY <1>3, <3>2
      <4> QED
        BY <1>3, <1>5, <4>1
    <3> QED
      BY <3>1, <3>2
  <2>4. fs[m].items \in Seq(Nat) /\ gs[m].items = fs[m].items \o trail /\ gs[m].analysis = p
    BY <1>4, <1>6
  <2>5. trail = SubSeq(its, b + 1, Len(its)) /\ Len(its) = z
    BY DEF trail, z
  <2> HIDE DEF p, q, b
  <2>6. a \in 0..Len(its) /\ b \in a..Len(its)
    BY <1>2, <2>1, <2>2, <2>3, <2>5
  <2>7. /\ InOrder(fs[m].items \o SubSeq(its, b + 1, Len(its)))
        /\ ToSet(fs[m].items \o SubSeq(its, b + 1, Len(its)))
              = {its[i] : i \in 1..a \cup (b + 1)..Len(its)}
    <3>1. Len(fs[m].items) = a /\ fs[m].items \in Seq(Nat)
      BY <2>4
    <3>2. \A i \in 1..a : fs[m].items[i] = its[i]
      BY <2>1
    <3> DEFINE t == fs[m].items
    <3> HIDE DEF a, t
    <3>3. /\ InOrder(t \o SubSeq(its, b + 1, Len(its)))
          /\ ToSet(t \o SubSeq(its, b + 1, Len(its)))
                = {its[i] : i \in 1..a \cup (b + 1)..Len(its)}
      BY <1>1, <2>6, <3>1, <3>2, TrailingJoined DEF t
    <3> QED
      BY <3>3 DEF t
  <2> HIDE DEF a
  <2>8. ToSet(its) = {its[i] : i \in 1..z}
    BY <1>2 DEF ToSet
  <2>9. ASSUME NEW i \in 1..z
        PROVE  its[i] < p \/ its[i] > q \/ q = 0 <=> i \in 1..a \cup (b + 1)..z
    <3>1. its[i] \in Nat
      BY <1>2
    <3>2. CASE i <= a
      <4>1. its[i] < p /\ i \in 1..a
        BY <2>1, <3>2
      <4> QED
        BY <4>1
    <3>3. CASE i > b
      <4>1. its[i] > q /\ i \in (b + 1)..z
        BY <1>2, <2>1, <2>2, <3>3
      <4> QED
        BY <4>1
    <3>4. CASE ~ (i <= a) /\ i <= b
      <4>1. its[i] > p /\ its[i] < q /\ i \notin 1..a /\ i \notin (b + 1)..z /\ q # 0
        BY <1>2, <2>1, <2>2, <3>4
      <4>2. ~ (its[i] < p) /\ ~ (its[i] > q)
        BY <2>1, <2>2, <3>1, <4>1
      <4> QED
        BY <4>1, <4>2
    <3> QED
      BY <1>2, <2>1, <2>2, <3>2, <3>3, <3>4
  <2>10. 1..a \cup (b + 1)..z \subseteq 1..z
    BY <1>2, <2>1, <2>2
  <2>11. {its[i] : i \in 1..a \cup (b + 1)..z} = {n \in ToSet(its) : n < p \/ n > q \/ q = 0}
    BY <2>8, <2>9, <2>10
  <2> QED
    BY <2>4, <2>5, <2>7, <2>11 DEF q
<1>10. AsWritten(its, gs)
  BY <1>7, <1>8, <1>9 DEF AsWritten
<1> QED
  BY <1>10 DEF gs

\* The lines kept rise through the file; those that are items and analyses are shared out.
Keeping == /\ at \in Nat \ {0} /\ kept \in Seq(Nat \ {0}) /\ Rising(kept)
           /\ \A i \in 1..Len(kept) : kept[i] < at

Sharing ==
    /\ at \in Nat /\ kept \in Seq(Nat \ {0}) /\ Rising(kept)
    /\ \E k \in Nat : /\ Shared(items, forks, k)
                      /\ \A p \in 1..Len(kept) : p >= at => k <= kept[p]

ForksOK ==
    /\ phase = "join" => kept = <<>>
    /\ phase \in {"join", "choose"} => Keeping /\ items = <<>> /\ forks = <<>>
    /\ phase = "parse" => Sharing
    /\ phase \in {"join", "choose", "parse", "empty"} \/ ForksAsWritten

LEMMA SharedNone == Shared(<<>>, <<>>, 0)
<1>1. /\ <<>> \in Seq(Nat) /\ <<>> \in Seq(Forks) /\ Len(<<>>) = 0 /\ 1..0 = {}
  OBVIOUS
<1>2. Rising(<<>>)
  BY <1>1 DEF Rising
<1> QED
  BY <1>1, <1>2 DEF Shared

LEMMA KeepingOn ==
    ASSUME Keeping, at' = at + 1, kept' = kept
    PROVE  Keeping'
<1>1. /\ at \in Nat \ {0} /\ kept \in Seq(Nat \ {0}) /\ Rising(kept)
      /\ \A i \in 1..Len(kept) : kept[i] < at
  BY DEF Keeping
<1>2. \A i \in 1..Len(kept) : kept[i] \in Nat
  BY <1>1, ElementOfSeq
<1>3. \A i \in 1..Len(kept) : kept[i] < at + 1
  BY <1>1, <1>2
<1>4. at' \in Nat \ {0}
  BY <1>1
<1>5. Rising(kept)'
  BY <1>1 DEF Rising
<1> QED
  BY <1>1, <1>3, <1>4, <1>5 DEF Keeping

LEMMA KeepingOne ==
    ASSUME Keeping, at' = at + 1, kept' = Append(kept, at)
    PROVE  Keeping'
<1>1. /\ at \in Nat \ {0} /\ kept \in Seq(Nat \ {0}) /\ Rising(kept)
      /\ \A i \in 1..Len(kept) : kept[i] < at
  BY DEF Keeping
<1> DEFINE r == Append(kept, at)
           z == Len(kept)
<1>2. /\ Rising(r) /\ Len(r) = z + 1 /\ z \in Nat
      /\ \A i \in 1..z : r[i] = kept[i] /\ kept[i] \in Nat
      /\ r[z + 1] = at
  <2>1. at \in Nat
    BY <1>1
  <2> QED
    BY <1>1, <2>1, RisingLonger
<1>3. r \in Seq(Nat \ {0})
  BY <1>1, AppendProperties
<1> HIDE DEF r, z
<1>4. kept' = r
  BY DEF r
<1>5. \A i \in 1..(z + 1) : r[i] < at + 1
  <2> TAKE i \in 1..(z + 1)
  <2>1. CASE i = z + 1
    BY <1>1, <1>2, <2>1
  <2>2. CASE i # z + 1
    <3>1. i \in 1..z
      BY <1>2, <2>2
    <3>2. kept[i] < at
      BY <1>1, <3>1 DEF z
    <3> QED
      BY <1>1, <1>2, <3>1, <3>2
  <2> QED
    BY <2>1, <2>2
<1>6. at' \in Nat \ {0}
  BY <1>1
<1>7. Rising(kept)'
  BY <1>2, <1>4 DEF Rising
<1> QED
  BY <1>2, <1>3, <1>4, <1>5, <1>6, <1>7 DEF Keeping

\* A line of the netlist is read.
LEMMA SharingStep ==
    ASSUME Sharing, at \in DOMAIN kept, at' = at + 1, kept' = kept,
           \/ items' = Append(items, kept[at]) /\ forks' = forks
           \/ items' = items /\ forks' = forks
           \/ items' = items
              /\ forks' = Append(forks, [items |-> items, analysis |-> kept[at]])
    PROVE  Sharing'
<1>1. at \in Nat /\ kept \in Seq(Nat \ {0}) /\ Rising(kept)
  BY DEF Sharing
<1>2. PICK k \in Nat : /\ Shared(items, forks, k)
                       /\ \A p \in 1..Len(kept) : p >= at => k <= kept[p]
  BY DEF Sharing
<1>3. Len(kept) \in Nat /\ DOMAIN kept = 1..Len(kept) /\ at \in 1..Len(kept)
  BY <1>1, LenProperties
<1>4. \A p \in 1..Len(kept) : kept[p] \in Nat \ {0}
  BY <1>1, ElementOfSeq
<1> DEFINE n == kept[at]
<1>5. n \in Nat \ {0} /\ k <= n
  BY <1>1, <1>2, <1>3, <1>4
<1>6. \A p \in 1..Len(kept) : p >= at + 1 => n + 1 <= kept[p]
  <2> SUFFICES ASSUME NEW p \in 1..Len(kept), p >= at + 1 PROVE n + 1 <= kept[p]
    OBVIOUS
  <2>1. at < p
    BY <1>1, <1>3
  <2>2. kept[at] < kept[p]
    BY <1>1, <1>3, <2>1 DEF Rising
  <2>3. kept[at] \in Nat /\ kept[p] \in Nat
    BY <1>3, <1>4
  <2> QED
    BY <2>2, <2>3
<1>7. \A p \in 1..Len(kept) : p >= at + 1 => k <= kept[p]
  BY <1>1, <1>2, <1>3
<1>8. at + 1 \in Nat /\ n + 1 \in Nat
  BY <1>1, <1>5
<1> HIDE DEF n
<1>9. Rising(kept)'
  BY <1>1 DEF Rising
<1>10. ASSUME NEW j \in Nat, NEW its, NEW fs, its = items', fs = forks', Shared(its, fs, j),
              \A p \in 1..Len(kept) : p >= at + 1 => j <= kept[p]
       PROVE  Sharing'
  <2>1. Shared(items, forks, j)'
    BY <1>10 DEF Shared, Rising, Begins
  <2>2. at' \in Nat /\ kept' \in Seq(Nat \ {0})
    BY <1>1, <1>8
  <2>3. \A p \in 1..Len(kept') : p >= at' => j <= kept'[p]
    BY <1>10
  <2> QED
    BY <1>9, <1>10, <2>1, <2>2, <2>3 DEF Sharing
<1>11. CASE items' = Append(items, n) /\ forks' = forks
  <2>1. n \in Nat
    BY <1>5
  <2>2. Shared(Append(items, n), forks, n + 1)
    BY <1>2, <1>5, <2>1, SharedItem
  <2> QED
    BY <1>6, <1>8, <1>10, <1>11, <2>2
<1>12. CASE items' = items /\ forks' = forks
  BY <1>2, <1>7, <1>10, <1>12
<1>13. CASE items' = items /\ forks' = Append(forks, [items |-> items, analysis |-> n])
  <2>1. Shared(items, Append(forks, [items |-> items, analysis |-> n]), n + 1)
    BY <1>2, <1>5, SharedFork
  <2> QED
    BY <1>6, <1>8, <1>10, <1>13, <2>1
<1> QED
  BY <1>11, <1>12, <1>13 DEF n

\* The netlists are complete.
LEMMA FinishWrites == ASSUME Sharing, Finish PROVE ForksAsWritten'
<1>1. PICK k \in Nat : Shared(items, forks, k)
  BY DEF Sharing
<1>2. Rising(items) /\ items \in Seq(Nat) /\ forks \in Seq(Forks)
  BY <1>1 DEF Shared, Rising
<1>3. items' = items
  BY DEF Finish
<1> SUFFICES AsWritten(items, forks')
  BY <1>3 DEF ForksAsWritten, AsWritten, InOrder, ToSet
<1>4. CASE forks = <<>>
  <2> DEFINE g == [items |-> items, analysis |-> 0]
             gs == <<g>>
  <2>1. forks' = gs
    BY <1>4 DEF Finish
  <2>2. g.items = items /\ g.analysis = 0
    OBVIOUS
  <2> HIDE DEF g
  <2>3. Len(gs) = 1 /\ DOMAIN gs = {1} /\ gs[1] = g
    OBVIOUS
  <2>4. Last(gs) = g
    BY <2>3 DEF Last
  <2>5. ToSet(gs) = {g}
    BY <2>3 DEF ToSet
  <2>6. InOrder(items)
    <3>1. DOMAIN items = 1..Len(items)
      BY <1>2, LenProperties
    <3> QED
      BY <1>2, <3>1 DEF InOrder, Rising
  <2> HIDE DEF gs
  <2> QED
    BY <2>1, <2>2, <2>4, <2>5, <2>6 DEF AsWritten
<1>5. CASE forks # <<>>
  <2>1. forks' = Completed(items, forks)
    BY <1>5 DEF Finish, Trailing, Completed
  <2>2. AsWritten(items, Completed(items, forks))
    BY <1>1, <1>5, SharedDone
  <2> QED
    BY <2>1, <2>2
<1> QED
  BY <1>4, <1>5

LEMMA ForksInit == ASSUME ParseInit PROVE ForksOK
<1>1. /\ phase = "join" /\ at = 1 /\ kept = <<>> /\ items = <<>> /\ forks = <<>>
  BY DEF ParseInit
<1>2. /\ <<>> \in Seq(Nat) /\ <<>> \in Seq(Nat \ {0}) /\ Len(<<>>) = 0 /\ 1..0 = {}
      /\ 1 \in Nat \ {0}
  OBVIOUS
<1>3. Keeping
  BY <1>1, <1>2 DEF Keeping, Rising
<1> QED
  BY <1>1, <1>3 DEF ForksOK

LEMMA ForksStep == ASSUME ForksOK, [ParseNext]_(parserVars) PROVE ForksOK'
<1>1. ASSUME Keeping', items' = <<>>, forks' = <<>>,
             phase' = "choose" \/ (phase' = "join" /\ kept' = <<>>)
      PROVE  ForksOK'
  BY <1>1 DEF ForksOK
<1>2. ASSUME Sharing', phase' = "parse" PROVE ForksOK'
  BY <1>2 DEF ForksOK
<1>3. CASE PassControl \/ SkipBlank \/ GlueBackslash \/ Bare \/ GluePlus \/ Comment \/ StartLine
  <2>1. /\ phase = "join" /\ phase' = "join" /\ at' = at + 1
        /\ UNCHANGED <<kept, items, forks>>
    BY <1>3 DEF PassControl, SkipBlank, GlueBackslash, Bare, GluePlus, Comment,
       StartLine, Outside, Joins, JoinStep, chooseVars, parseVars
  <2>2. Keeping /\ items = <<>> /\ forks = <<>> /\ kept = <<>>
    BY <2>1 DEF ForksOK
  <2> QED
    BY <1>1, <2>1, <2>2, KeepingOn
<1>4. CASE EndJoin
  <2>1. /\ phase = "join" /\ phase' = "choose" /\ at' = 1
        /\ UNCHANGED <<kept, items, forks, logical, source>>
    BY <1>4 DEF EndJoin, chooseVars, parseVars, joinVars
  <2>2. kept = <<>> /\ items = <<>> /\ forks = <<>>
    BY <2>1 DEF ForksOK
  <2>3. <<>> \in Seq(Nat) /\ <<>> \in Seq(Nat \ {0}) /\ Len(<<>>) = 0 /\ 1..0 = {}
        /\ 1 \in Nat \ {0}
    OBVIOUS
  <2>4. Keeping'
    BY <2>1, <2>2, <2>3 DEF Keeping, Rising
  <2> QED
    BY <1>1, <2>1, <2>2, <2>4
<1>5. CASE OpenBlock \/ ElseIf \/ Else \/ EndIf
  <2>1. /\ phase = "choose" /\ phase' = "choose" /\ at' = at + 1
        /\ UNCHANGED <<kept, items, forks>>
    BY <1>5 DEF OpenBlock, ElseIf, Else, EndIf, Chooses, ChooseStep, parseVars
  <2>2. Keeping /\ items = <<>> /\ forks = <<>>
    BY <2>1 DEF ForksOK
  <2> QED
    BY <1>1, <2>1, <2>2, KeepingOn
<1>6. CASE KeepLine
  <2>1. /\ phase = "choose" /\ phase' = "choose" /\ at' = at + 1
        /\ UNCHANGED <<items, forks>>
        /\ kept' = Append(kept, at) \/ kept' = kept
    BY <1>6 DEF KeepLine, Chooses, ChooseStep, parseVars
  <2>2. Keeping /\ items = <<>> /\ forks = <<>>
    BY <2>1 DEF ForksOK
  <2> QED
    BY <1>1, <2>1, <2>2, KeepingOn, KeepingOne
<1>7. CASE EndChoose
  <2>1. /\ phase = "choose" /\ phase' = "parse" /\ at' = 2
        /\ UNCHANGED <<kept, items, forks>>
    BY <1>7 DEF EndChoose, chooseVars, parseVars
  <2>2. kept \in Seq(Nat \ {0}) /\ Rising(kept) /\ items = <<>> /\ forks = <<>>
    BY <2>1 DEF ForksOK, Keeping
  <2>3. \A p \in 1..Len(kept) : 0 <= kept[p]
    <3>1. \A p \in 1..Len(kept) : kept[p] \in Nat \ {0}
      BY <2>2, ElementOfSeq
    <3> QED
      BY <3>1
  <2>4. Rising(kept)'
    BY <2>1, <2>2 DEF Rising
  <2>5. Shared(items, forks, 0)'
    <3>1. items' = <<>> /\ forks' = <<>>
      BY <2>1, <2>2
    <3> QED
      BY <3>1, SharedNone DEF Shared, Rising, Begins
  <2>6. Sharing'
    BY <2>1, <2>2, <2>3, <2>4, <2>5 DEF Sharing
  <2> QED
    BY <1>2, <2>1, <2>6
<1>8. CASE AddItem \/ AddToBody \/ Fork
  <2>1. /\ phase = "parse" /\ phase' = "parse" /\ at' = at + 1 /\ kept' = kept
        /\ at \in DOMAIN kept
    BY <1>8 DEF AddItem, AddToBody, Fork, Parses, ParseEnds, ParseStep, chooseVars
  <2>2. \/ items' = Append(items, kept[at]) /\ forks' = forks
        \/ items' = items /\ forks' = forks
        \/ items' = items
           /\ forks' = Append(forks, [items |-> items, analysis |-> kept[at]])
    BY <1>8 DEF AddItem, AddToBody, Fork
  <2>3. Sharing
    BY <2>1 DEF ForksOK
  <2>4. Sharing'
    BY <2>1, <2>2, <2>3, SharingStep
  <2> QED
    BY <1>2, <2>1, <2>4
<1>9. CASE RefuseEmpty
  <2>1. phase' = "empty"
    BY <1>9 DEF RefuseEmpty
  <2> QED
    BY <2>1 DEF ForksOK
<1>10. CASE Finish
  <2>1. phase = "parse" /\ phase' = "done"
    BY <1>10 DEF Finish
  <2>2. Sharing
    BY <2>1 DEF ForksOK
  <2>3. ForksAsWritten'
    BY <1>10, <2>2, FinishWrites
  <2> QED
    BY <2>1, <2>3 DEF ForksOK
<1>11. CASE UNCHANGED parserVars
  <2>1. UNCHANGED <<phase, at, kept, items, forks>>
    BY <1>11 DEF parserVars, chooseVars, parseVars
  <2>2. Keeping => Keeping'
    BY <2>1 DEF Keeping, Rising
  <2>3. Sharing => Sharing'
    BY <2>1 DEF Sharing, Shared, Rising, Begins
  <2>4. ForksAsWritten => ForksAsWritten'
    BY <2>1 DEF ForksAsWritten, InOrder, ToSet
  <2> QED
    BY <2>1, <2>2, <2>3, <2>4 DEF ForksOK
<1> QED
  BY <1>3, <1>4, <1>5, <1>6, <1>7, <1>8, <1>9, <1>10, <1>11 DEF ParseNext

\* Each analysis gets the items before it and those after the last analysis, in the order
\* of the file and none twice, for all files (Netlist::parse).
THEOREM ForksStayAsWritten == ParseSpec => []ForksAsWritten
<1>1. ParseInit => ForksOK
  BY ForksInit
<1>2. ForksOK /\ [ParseNext]_(parserVars) => ForksOK'
  BY ForksStep
<1>3. ForksOK => ForksAsWritten
  BY DEF ForksOK, ForksAsWritten
<1> QED
  BY <1>1, <1>2, <1>3, PTL DEF ParseSpec

-----------------------------------------------------------------------------
\* Blocks of conditions.

LEMMA HowManyNone ==
    ASSUME NEW w, NEW a \in Nat
    PROVE  HowMany(w, a + 1, a) = 0
<1>1. {k \in (a + 1)..a : LineOf(k).word = w} = {}
  OBVIOUS
<1> QED
  BY <1>1, FS_EmptySet DEF HowMany

LEMMA HowManyNext ==
    ASSUME NEW w, NEW a \in Nat, NEW j \in Nat \ {0}, a <= j
    PROVE  /\ HowMany(w, a, j - 1) \in Nat
           /\ HowMany(w, a, j) = HowMany(w, a, j - 1) + IF LineOf(j).word = w THEN 1 ELSE 0
<1> DEFINE S == {k \in a..j - 1 : LineOf(k).word = w}
           T == {k \in a..j : LineOf(k).word = w}
<1>1. IsFiniteSet(S)
  <2>1. a \in Int /\ j - 1 \in Int
    OBVIOUS
  <2>2. IsFiniteSet(a..j - 1)
    BY <2>1, FS_Interval
  <2>3. S \in SUBSET (a..j - 1)
    OBVIOUS
  <2> QED
    BY <2>2, <2>3, FS_Subset
<1>2. Cardinality(S) \in Nat
  BY <1>1, FS_CardinalityType
<1>3. j \notin S
  OBVIOUS
<1>4. ASSUME LineOf(j).word = w PROVE Cardinality(T) = Cardinality(S) + 1
  <2>1. T = S \cup {j}
    BY <1>4
  <2>2. Cardinality(S \cup {j}) = Cardinality(S) + 1
    BY <1>1, <1>3, FS_AddElement
  <2> QED
    BY <2>1, <2>2
<1>5. ASSUME LineOf(j).word # w PROVE Cardinality(T) = Cardinality(S)
  <2>1. T = S
    BY <1>5
  <2> QED
    BY <2>1
<1>6. HowMany(w, a, j) = Cardinality(T) /\ HowMany(w, a, j - 1) = Cardinality(S)
  BY DEF HowMany
<1> HIDE DEF S, T
<1> QED
  BY <1>2, <1>4, <1>5, <1>6

\* The blocks a line is in, from the outermost: each has as many blocks opened in it and
\* not closed as there are after it.
Stack(open, j) ==
    /\ Rising(open)
    /\ BlocksAround(j) = {open[k] : k \in 1..Len(open)}
    /\ \A k \in 1..Len(open) :
          HowMany("if", open[k] + 1, j - 1) = HowMany("endif", open[k] + 1, j - 1) + (Len(open) - k)

LEMMA StackTypes ==
    ASSUME NEW open, NEW j \in Nat \ {0}, Stack(open, j)
    PROVE  /\ open \in Seq(Nat) /\ Len(open) \in Nat
           /\ \A k \in 1..Len(open) : open[k] \in 1..(j - 1) /\ open[k] \in Nat
           /\ \A k, l \in 1..Len(open) : k < l => open[k] < open[l]
<1>1. open \in Seq(Nat) /\ \A k, l \in 1..Len(open) : k < l => open[k] < open[l]
  BY DEF Stack, Rising
<1>2. Len(open) \in Nat
  BY <1>1, LenProperties
<1>3. \A k \in 1..Len(open) : open[k] \in BlocksAround(j)
  BY DEF Stack
<1>4. BlocksAround(j) \subseteq 1..(j - 1)
  BY DEF BlocksAround
<1> QED
  BY <1>1, <1>2, <1>3, <1>4

\* Which blocks the next line is in.
LEMMA AroundNext ==
    ASSUME NEW open, NEW j \in Nat \ {0}, Stack(open, j)
    PROVE  BlocksAround(j + 1) =
              {open[k] : k \in {m \in 1..Len(open) : LineOf(j).word = "endif" => m < Len(open)}}
              \cup {i \in {j} : LineOf(j).word = "if"}
<1> DEFINE d == Len(open)
           P == {m \in 1..d : LineOf(j).word = "endif" => m < d}
<1>1. /\ open \in Seq(Nat) /\ d \in Nat
      /\ \A k \in 1..d : open[k] \in 1..(j - 1) /\ open[k] \in Nat
  BY StackTypes
<1>2. BlocksAround(j) = {open[k] : k \in 1..d}
  BY DEF Stack
<1>3. BlocksAround(j + 1) =
         {i \in 1..j : /\ LineOf(i).word = "if"
                       /\ \A k \in i + 1..j : HowMany("endif", i + 1, k) <= HowMany("if", i + 1, k)}
  <2>1. (j + 1) - 1 = j
    OBVIOUS
  <2> QED
    BY <2>1 DEF BlocksAround
<1>4. BlocksAround(j) =
         {i \in 1..j - 1 : /\ LineOf(i).word = "if"
                           /\ \A k \in i + 1..j - 1 : HowMany("endif", i + 1, k) <= HowMany("if", i + 1, k)}
  BY DEF BlocksAround
<1>5. ASSUME NEW i \in 1..(j - 1)
      PROVE  i \in BlocksAround(j + 1)
             <=> i \in BlocksAround(j) /\ HowMany("endif", i + 1, j) <= HowMany("if", i + 1, j)
  <2>1. i \in 1..j /\ j \in i + 1..j /\ \A k \in i + 1..j : k = j \/ k \in i + 1..j - 1
    OBVIOUS
  <2>2. \A k \in i + 1..j - 1 : k \in i + 1..j
    OBVIOUS
  <2> QED
    BY <1>3, <1>4, <2>1, <2>2
<1>6. j \in BlocksAround(j + 1) <=> LineOf(j).word = "if"
  <2>1. j \in 1..j /\ j + 1..j = {}
    OBVIOUS
  <2> QED
    BY <1>3, <2>1
<1>7. ASSUME NEW k \in 1..d
      PROVE  open[k] \in BlocksAround(j + 1) <=> k \in P
  <2> DEFINE a == open[k] + 1
  <2>1. open[k] \in 1..(j - 1) /\ open[k] \in BlocksAround(j)
    BY <1>1, <1>2
  <2>2. a \in Nat /\ a <= j
    BY <2>1
  <2>3. HowMany("if", a, j - 1) = HowMany("endif", a, j - 1) + (d - k)
    BY DEF Stack
  <2>4. open[k] \in BlocksAround(j + 1) <=> HowMany("endif", a, j) <= HowMany("if", a, j)
    BY <1>5, <2>1
  <2> HIDE DEF a
  <2>5. /\ HowMany("endif", a, j - 1) \in Nat /\ HowMany("if", a, j - 1) \in Nat
        /\ HowMany("endif", a, j) = HowMany("endif", a, j - 1) + IF LineOf(j).word = "endif" THEN 1 ELSE 0
        /\ HowMany("if", a, j) = HowMany("if", a, j - 1) + IF LineOf(j).word = "if" THEN 1 ELSE 0
    BY <2>2, HowManyNext
  <2>6. CASE LineOf(j).word = "endif"
    <3>1. /\ HowMany("endif", a, j) = HowMany("endif", a, j - 1) + 1
          /\ HowMany("if", a, j) = HowMany("if", a, j - 1)
      BY <2>5, <2>6
    <3>2. HowMany("endif", a, j) <= HowMany("if", a, j) <=> k < d
      BY <1>1, <2>3, <2>5, <3>1
    <3> QED
      BY <2>4, <2>6, <3>2
  <2>7. CASE LineOf(j).word # "endif"
    <3>1. HowMany("endif", a, j) = HowMany("endif", a, j - 1)
      BY <2>5, <2>7
    <3>2. HowMany("if", a, j - 1) <= HowMany("if", a, j)
      BY <2>5
    <3>3. HowMany("endif", a, j - 1) <= HowMany("if", a, j - 1)
      BY <1>1, <2>3, <2>5
    <3>4. HowMany("if", a, j) \in Nat
      BY <2>5
    <3>5. HowMany("endif", a, j) <= HowMany("if", a, j)
      BY <2>5, <3>1, <3>2, <3>3, <3>4
    <3> QED
      BY <2>4, <2>7, <3>5
  <2> QED
    BY <2>6, <2>7
<1>8. \A i \in BlocksAround(j + 1) : i = j \/ (i \in 1..(j - 1) /\ i \in BlocksAround(j))
  <2> TAKE i \in BlocksAround(j + 1)
  <2>1. i \in 1..j
    BY <1>3
  <2>2. i = j \/ i \in 1..(j - 1)
    BY <2>1
  <2> QED
    BY <1>5, <2>2
<1> HIDE DEF P, d
<1>9. \A i \in BlocksAround(j + 1) : (i = j /\ LineOf(j).word = "if") \/ \E k \in P : i = open[k]
  <2> TAKE i \in BlocksAround(j + 1)
  <2>1. CASE i = j
    BY <1>6, <2>1
  <2>2. CASE i \in BlocksAround(j)
    <3>1. PICK k \in 1..d : i = open[k]
      BY <1>2, <2>2
    <3> QED
      BY <1>7, <3>1
  <2> QED
    BY <1>8, <2>1, <2>2
<1>10. \A k \in P : open[k] \in BlocksAround(j + 1)
  BY <1>7 DEF P
<1>11. BlocksAround(j + 1) = {open[k] : k \in P} \cup {i \in {j} : LineOf(j).word = "if"}
  BY <1>6, <1>9, <1>10
<1> QED
  BY <1>11 DEF P, d

\* How a block that stays open is counted by the next line.
LEMMA CountNext ==
    ASSUME NEW open, NEW j \in Nat \ {0}, Stack(open, j), NEW k \in 1..Len(open)
    PROVE  /\ LineOf(j).word = "if" =>
                HowMany("if", open[k] + 1, j)
                    = HowMany("endif", open[k] + 1, j) + ((Len(open) + 1) - k)
           /\ LineOf(j).word = "endif" =>
                HowMany("if", open[k] + 1, j)
                    = HowMany("endif", open[k] + 1, j) + ((Len(open) - 1) - k)
           /\ LineOf(j).word \notin {"if", "endif"} =>
                HowMany("if", open[k] + 1, j) = HowMany("endif", open[k] + 1, j) + (Len(open) - k)
<1> DEFINE a == open[k] + 1
           d == Len(open)
<1>1. d \in Nat /\ a \in Nat /\ a <= j
  BY StackTypes
<1>2. HowMany("if", a, j - 1) = HowMany("endif", a, j - 1) + (d - k)
  BY DEF Stack
<1> HIDE DEF a
<1>3. /\ HowMany("endif", a, j - 1) \in Nat /\ HowMany("if", a, j - 1) \in Nat
      /\ HowMany("endif", a, j) = HowMany("endif", a, j - 1) + IF LineOf(j).word = "endif" THEN 1 ELSE 0
      /\ HowMany("if", a, j) = HowMany("if", a, j - 1) + IF LineOf(j).word = "if" THEN 1 ELSE 0
  BY <1>1, HowManyNext
<1> HIDE DEF d
<1>4. k \in Nat
  BY <1>1 DEF d
<1>5. ASSUME LineOf(j).word = "if"
      PROVE  HowMany("if", a, j) = HowMany("endif", a, j) + ((d + 1) - k)
  <2>1. /\ HowMany("endif", a, j) = HowMany("endif", a, j - 1)
        /\ HowMany("if", a, j) = HowMany("if", a, j - 1) + 1
    BY <1>3, <1>5
  <2> QED
    BY <1>1, <1>2, <1>3, <1>4, <2>1
<1>6. ASSUME LineOf(j).word = "endif"
      PROVE  HowMany("if", a, j) = HowMany("endif", a, j) + ((d - 1) - k)
  <2>1. /\ HowMany("endif", a, j) = HowMany("endif", a, j - 1) + 1
        /\ HowMany("if", a, j) = HowMany("if", a, j - 1)
    BY <1>3, <1>6
  <2> QED
    BY <1>1, <1>2, <1>3, <1>4, <2>1
<1>7. ASSUME LineOf(j).word \notin {"if", "endif"}
      PROVE  HowMany("if", a, j) = HowMany("endif", a, j) + (d - k)
  <2>1. /\ HowMany("endif", a, j) = HowMany("endif", a, j - 1)
        /\ HowMany("if", a, j) = HowMany("if", a, j - 1)
    BY <1>3, <1>7
  <2> QED
    BY <1>2, <2>1
<1> QED
  BY <1>5, <1>6, <1>7 DEF a, d

LEMMA StackSame ==
    ASSUME NEW open, NEW j \in Nat \ {0}, Stack(open, j), LineOf(j).word # "if",
           LineOf(j).word # "endif" \/ open = <<>>
    PROVE  Stack(open, j + 1)
<1>1. open \in Seq(Nat) /\ Len(open) \in Nat
  BY StackTypes
<1>2. (j + 1) - 1 = j
  OBVIOUS
<1>3. {m \in 1..Len(open) : LineOf(j).word = "endif" => m < Len(open)} = 1..Len(open)
  <2>1. open = <<>> => 1..Len(open) = {}
    OBVIOUS
  <2> QED
    BY <2>1
<1>4. BlocksAround(j + 1) = {open[k] : k \in 1..Len(open)}
  <2>1. {i \in {j} : LineOf(j).word = "if"} = {}
    OBVIOUS
  <2> QED
    BY <1>3, <2>1, AroundNext
<1>5. \A k \in 1..Len(open) :
         HowMany("if", open[k] + 1, j) = HowMany("endif", open[k] + 1, j) + (Len(open) - k)
  <2> TAKE k \in 1..Len(open)
  <2>1. LineOf(j).word \notin {"if", "endif"}
    BY <1>1
  <2> QED
    BY <2>1, CountNext
<1> QED
  BY <1>2, <1>4, <1>5 DEF Stack

LEMMA StackOpens ==
    ASSUME NEW open, NEW j \in Nat \ {0}, Stack(open, j), LineOf(j).word = "if"
    PROVE  Stack(Append(open, j), j + 1)
<1> DEFINE r == Append(open, j)
           d == Len(open)
<1>1. /\ open \in Seq(Nat) /\ d \in Nat
      /\ \A k \in 1..d : open[k] \in 1..(j - 1)
  BY StackTypes
<1>2. /\ Rising(r) /\ Len(r) = d + 1
      /\ \A i \in 1..d : r[i] = open[i]
      /\ r[d + 1] = j
  <2>1. Rising(open) /\ \A k \in 1..Len(open) : open[k] < j
    BY <1>1 DEF Stack
  <2>2. j \in Nat
    OBVIOUS
  <2> QED
    BY <2>1, <2>2, RisingLonger
<1>3. BlocksAround(j + 1) = {open[k] : k \in 1..d} \cup {j}
  <2>1. {m \in 1..Len(open) : LineOf(j).word = "endif" => m < Len(open)} = 1..d
    OBVIOUS
  <2>2. {i \in {j} : LineOf(j).word = "if"} = {j}
    OBVIOUS
  <2> QED
    BY <2>1, <2>2, AroundNext
<1>4. ASSUME NEW k \in 1..d
      PROVE  HowMany("if", open[k] + 1, j) = HowMany("endif", open[k] + 1, j) + ((d + 1) - k)
  BY CountNext
<1>5. HowMany("if", j + 1, j) = 0 /\ HowMany("endif", j + 1, j) = 0
  BY HowManyNone
<1> HIDE DEF r, d
<1>6. \A k \in 1..(d + 1) : k \in 1..d \/ k = d + 1
  BY <1>1
<1>7. BlocksAround(j + 1) = {r[k] : k \in 1..Len(r)}
  <2>1. \A k \in 1..d : k \in 1..(d + 1)
    BY <1>1
  <2>2. d + 1 \in 1..(d + 1)
    BY <1>1
  <2> QED
    BY <1>2, <1>3, <1>6, <2>1, <2>2
<1>8. \A k \in 1..Len(r) : HowMany("if", r[k] + 1, j) = HowMany("endif", r[k] + 1, j) + (Len(r) - k)
  <2> SUFFICES ASSUME NEW k \in 1..(d + 1)
               PROVE  HowMany("if", r[k] + 1, j) = HowMany("endif", r[k] + 1, j) + ((d + 1) - k)
    BY <1>2
  <2>1. CASE k \in 1..d
    BY <1>2, <1>4, <2>1
  <2>2. CASE k = d + 1
    BY <1>1, <1>2, <1>5, <2>2
  <2> QED
    BY <1>6, <2>1, <2>2
<1>9. (j + 1) - 1 = j
  OBVIOUS
<1>10. Stack(r, j + 1)
  BY <1>2, <1>7, <1>8, <1>9 DEF Stack
<1> QED
  BY <1>10 DEF r

LEMMA StackCloses ==
    ASSUME NEW open, NEW j \in Nat \ {0}, Stack(open, j), open # <<>>, LineOf(j).word = "endif"
    PROVE  Stack(Front(open), j + 1)
<1> DEFINE r == Front(open)
           d == Len(open)
<1>1. /\ open \in Seq(Nat) /\ \A k, l \in 1..d : k < l => open[k] < open[l]
  BY StackTypes
<1>2. d \in Nat \ {0} /\ r \in Seq(Nat) /\ Len(r) = d - 1 /\ \A k \in 1..d - 1 : r[k] = open[k]
  BY <1>1, PopStack
<1>3. BlocksAround(j + 1) = {open[k] : k \in 1..d - 1}
  <2>1. {m \in 1..Len(open) : LineOf(j).word = "endif" => m < Len(open)} = 1..d - 1
    BY <1>2
  <2>2. {i \in {j} : LineOf(j).word = "if"} = {}
    OBVIOUS
  <2> QED
    BY <2>1, <2>2, AroundNext
<1>4. ASSUME NEW k \in 1..d
      PROVE  HowMany("if", open[k] + 1, j) = HowMany("endif", open[k] + 1, j) + ((d - 1) - k)
  BY CountNext
<1> HIDE DEF r, d
<1>5. \A k \in 1..d - 1 : k \in 1..d
  BY <1>2
<1>6. Rising(r)
  BY <1>1, <1>2, <1>5 DEF Rising
<1>7. BlocksAround(j + 1) = {r[k] : k \in 1..Len(r)}
  BY <1>2, <1>3
<1>8. \A k \in 1..Len(r) : HowMany("if", r[k] + 1, j) = HowMany("endif", r[k] + 1, j) + (Len(r) - k)
  BY <1>2, <1>4, <1>5
<1>9. (j + 1) - 1 = j
  OBVIOUS
<1>10. Stack(r, j + 1)
  BY <1>6, <1>7, <1>8, <1>9 DEF Stack
<1> QED
  BY <1>10 DEF r

LEMMA StackTop ==
    ASSUME NEW open, NEW j \in Nat \ {0}, Stack(open, j), open # <<>>
    PROVE  /\ Max(BlocksAround(j)) = open[Len(open)]
           /\ \A k \in 1..Len(open) - 1 : open[k] # open[Len(open)]
<1> DEFINE d == Len(open)
<1>1. /\ open \in Seq(Nat) /\ \A k, l \in 1..d : k < l => open[k] < open[l]
      /\ \A k \in 1..d : open[k] \in Nat
  BY StackTypes
<1>2. d \in Nat \ {0}
  BY <1>1, PopStack
<1>3. BlocksAround(j) = {open[k] : k \in 1..d}
  BY DEF Stack
<1> HIDE DEF d
<1>4. d \in 1..d
  BY <1>2
<1>5. ASSUME NEW k \in 1..d PROVE open[k] <= open[d]
  <2>1. CASE k = d
    BY <1>1, <1>4, <2>1
  <2>2. CASE k # d
    <3>1. k < d
      BY <1>2, <2>2
    <3>2. open[k] < open[d]
      BY <1>1, <1>4, <3>1
    <3> QED
      BY <1>1, <1>4, <3>2
  <2> QED
    BY <2>1, <2>2
<1>6. Max(BlocksAround(j)) = open[d]
  <2>1. BlocksAround(j) \in SUBSET Nat
    BY <1>1, <1>3
  <2>2. open[d] \in BlocksAround(j)
    BY <1>3, <1>4
  <2>3. \A x \in BlocksAround(j) : x <= open[d]
    BY <1>3, <1>5
  <2> QED
    BY <2>1, <2>2, <2>3, MaxIs
<1>7. ASSUME NEW k \in 1..d - 1 PROVE open[k] # open[d]
  <2>1. k \in 1..d /\ k < d
    BY <1>2
  <2>2. open[k] < open[d]
    BY <1>1, <1>4, <2>1
  <2> QED
    BY <1>1, <1>4, <2>1, <2>2
<1> QED
  BY <1>6, <1>7 DEF d

\* One of the tests of block i before line j holds.
Tried(chosen, i, j) == \E h \in Heads(i, j) : IsTrue(chosen, h)

LEMMA HeadsBefore ==
    ASSUME NEW j \in Nat, NEW i \in 1..(j - 1)
    PROVE  /\ Heads(i, j) \in SUBSET (0..(j - 1)) /\ Heads(i, j) # {}
           /\ Max(Heads(i, j)) \in Heads(i, j)
<1>1. Heads(i, j) \in SUBSET (0..(j - 1)) /\ Heads(i, j) # {}
  BY DEF Heads
<1>2. j - 1 \in Nat
  OBVIOUS
<1> QED
  BY <1>1, <1>2, MaxIn

LEMMA HeadsNext ==
    ASSUME NEW j \in Nat, NEW i \in 1..(j - 1)
    PROVE  Heads(i, j + 1) =
              Heads(i, j) \cup {h \in {j} : LineOf(j).word \in {"elseif", "else"} /\ Max(BlocksAround(j)) = i}
<1>1. i + 1..(j + 1) - 1 = (i + 1..j - 1) \cup {j}
  OBVIOUS
<1> QED
  BY <1>1 DEF Heads

\* Another branch of the block.
LEMMA BranchHead ==
    ASSUME NEW j \in Nat, NEW i \in 1..(j - 1), NEW chosen,
           LineOf(j).word \in {"elseif", "else"}, Max(BlocksAround(j)) = i
    PROVE  /\ InBranch(chosen, i, j + 1) <=> IsTrue(chosen, j) /\ ~ Tried(chosen, i, j)
           /\ Tried(chosen, i, j + 1) <=> IsTrue(chosen, j) \/ Tried(chosen, i, j)
<1>1. Heads(i, j + 1) = Heads(i, j) \cup {j}
  <2>1. {h \in {j} : LineOf(j).word \in {"elseif", "else"} /\ Max(BlocksAround(j)) = i} = {j}
    OBVIOUS
  <2> QED
    BY <2>1, HeadsNext
<1>2. Heads(i, j) \in SUBSET (0..(j - 1))
  BY HeadsBefore
<1>3. j \notin Heads(i, j)
  BY <1>2
<1>4. Max(Heads(i, j) \cup {j}) = j
  <2>1. Heads(i, j) \cup {j} \in SUBSET Nat
    BY <1>2
  <2>2. j \in Heads(i, j) \cup {j} /\ \A x \in Heads(i, j) \cup {j} : x <= j
    BY <1>2
  <2> QED
    BY <2>1, <2>2, MaxIs
<1>5. (Heads(i, j) \cup {j}) \ {j} = Heads(i, j)
  BY <1>3
<1>6. InBranch(chosen, i, j + 1) <=> IsTrue(chosen, j) /\ \A h \in Heads(i, j) : ~ IsTrue(chosen, h)
  BY <1>1, <1>4, <1>5 DEF InBranch
<1>7. Tried(chosen, i, j + 1) <=> \E h \in Heads(i, j) \cup {j} : IsTrue(chosen, h)
  BY <1>1 DEF Tried
<1> QED
  BY <1>6, <1>7 DEF Tried

\* A line that is no head of this block.
LEMMA BranchSame ==
    ASSUME NEW j \in Nat, NEW i \in 1..(j - 1), NEW chosen,
           LineOf(j).word \notin {"elseif", "else"} \/ Max(BlocksAround(j)) # i
    PROVE  /\ InBranch(chosen, i, j + 1) <=> InBranch(chosen, i, j)
           /\ Tried(chosen, i, j + 1) <=> Tried(chosen, i, j)
<1>1. {h \in {j} : LineOf(j).word \in {"elseif", "else"} /\ Max(BlocksAround(j)) = i} = {}
  OBVIOUS
<1>2. Heads(i, j + 1) = Heads(i, j)
  BY <1>1, HeadsNext
<1> QED
  BY <1>2 DEF InBranch, Tried

\* The first branch.
LEMMA BranchOpens ==
    ASSUME NEW j \in Nat, NEW chosen
    PROVE  /\ InBranch(chosen, j, j + 1) <=> IsTrue(chosen, j)
           /\ Tried(chosen, j, j + 1) <=> IsTrue(chosen, j)
<1>1. Heads(j, j + 1) = {j}
  <2>1. j + 1..(j + 1) - 1 = {}
    OBVIOUS
  <2> QED
    BY <2>1 DEF Heads
<1>2. Max({j}) = j
  <2>1. {j} \in SUBSET Nat /\ j \in {j} /\ \A x \in {j} : x <= j
    OBVIOUS
  <2> QED
    BY <2>1, MaxIs
<1>3. {j} \ {j} = {}
  OBVIOUS
<1> QED
  BY <1>1, <1>2, <1>3 DEF InBranch, Tried

\* A test depends on the lines before it only.
LEMMA TestStays ==
    ASSUME NEW chosen, NEW m \in Nat, NEW h \in 0..m
    PROVE  IsTrue(chosen \cup {m}, h) <=> IsTrue(chosen, h)
<1>1. Given(chosen \cup {m}, h) = Given(chosen, h)
  BY DEF Given
<1> QED
  BY <1>1 DEF IsTrue, Worth

LEMMA BranchStays ==
    ASSUME NEW chosen, NEW m \in Nat, NEW j \in 0..m + 1, NEW i \in 1..(j - 1)
    PROVE  /\ InBranch(chosen \cup {m}, i, j) <=> InBranch(chosen, i, j)
           /\ Tried(chosen \cup {m}, i, j) <=> Tried(chosen, i, j)
<1>1. j \in Nat
  OBVIOUS
<1>2. /\ Heads(i, j) \in SUBSET (0..(j - 1)) /\ Max(Heads(i, j)) \in Heads(i, j)
  BY <1>1, HeadsBefore
<1>3. \A h \in Heads(i, j) : h \in 0..m
  BY <1>2
<1>4. \A h \in Heads(i, j) : IsTrue(chosen \cup {m}, h) <=> IsTrue(chosen, h)
  BY <1>3, TestStays
<1> QED
  BY <1>2, <1>4 DEF InBranch, Tried

\* What the code knows of the blocks that line j is in.
Frames == [taken : BOOLEAN, any : BOOLEAN]

Told(chosen, known, open, j) ==
    /\ known \in Seq(Frames) /\ Len(known) = Len(open)
    /\ \A k \in 1..Len(open) :
          /\ known[k].taken <=> \A l \in 1..k : InBranch(chosen, open[l], j)
          /\ known[k].any <=> /\ \A l \in 1..(k - 1) : InBranch(chosen, open[l], j)
                              /\ Tried(chosen, open[k], j)

LEMMA ActiveIs ==
    ASSUME NEW chosen, NEW known, NEW open, NEW j \in Nat \ {0}, Stack(open, j),
           Told(chosen, known, open, j)
    PROVE  /\ AllTaken(known) <=> \A l \in 1..Len(open) : InBranch(chosen, open[l], j)
           /\ AllTaken(known) <=> \A i \in BlocksAround(j) : InBranch(chosen, i, j)
<1> DEFINE d == Len(open)
<1>1. d \in Nat
  BY StackTypes
<1>2. DOMAIN known = 1..d
  <2>1. known \in Seq(Frames) /\ Len(known) = Len(open)
    BY DEF Told
  <2> QED
    BY <2>1, LenProperties
<1>3. \A k \in 1..d : known[k].taken <=> \A l \in 1..k : InBranch(chosen, open[l], j)
  BY DEF Told
<1>4. \A k \in 1..d : k \in 1..k /\ \A l \in 1..k : l \in 1..d
  BY <1>1
<1> HIDE DEF d
<1>5. AllTaken(known) <=> \A l \in 1..d : InBranch(chosen, open[l], j)
  <2>1. AllTaken(known) <=> \A k \in 1..d : known[k].taken
    BY <1>2 DEF AllTaken
  <2>2. ASSUME \A l \in 1..d : InBranch(chosen, open[l], j), NEW k \in 1..d PROVE known[k].taken
    BY <1>3, <1>4, <2>2
  <2>3. ASSUME \A k \in 1..d : known[k].taken, NEW l \in 1..d PROVE InBranch(chosen, open[l], j)
    BY <1>3, <1>4, <2>3
  <2> QED
    BY <2>1, <2>2, <2>3
<1>6. BlocksAround(j) = {open[k] : k \in 1..d}
  BY DEF Stack, d
<1> QED
  BY <1>5, <1>6 DEF d

LEMMA FrameTypes ==
    ASSUME NEW t \in BOOLEAN, NEW a \in BOOLEAN
    PROVE  LET f == [taken |-> t, any |-> a] IN f \in Frames /\ f.taken = t /\ f.any = a
BY DEF Frames

LEMMA ToldSame ==
    ASSUME NEW chosen, NEW known, NEW open, NEW j \in Nat \ {0}, Stack(open, j),
           Told(chosen, known, open, j), LineOf(j).word \notin {"elseif", "else"} \/ open = <<>>
    PROVE  Told(chosen, known, open, j + 1)
<1>1. /\ Len(open) \in Nat /\ \A k \in 1..Len(open) : open[k] \in 1..(j - 1)
  BY StackTypes
<1>2. ASSUME NEW k \in 1..Len(open)
      PROVE  /\ InBranch(chosen, open[k], j + 1) <=> InBranch(chosen, open[k], j)
             /\ Tried(chosen, open[k], j + 1) <=> Tried(chosen, open[k], j)
  <2>1. open # <<>>
    OBVIOUS
  <2> QED
    BY <1>1, <2>1, BranchSame
<1>3. \A k \in 1..Len(open) : \A l \in 1..k : l \in 1..Len(open)
  BY <1>1
<1>4. \A k \in 1..Len(open) : \A l \in 1..(k - 1) : l \in 1..Len(open)
  BY <1>1
<1> QED
  BY <1>2, <1>3, <1>4 DEF Told

LEMMA ToldOpens ==
    ASSUME NEW chosen, NEW known, NEW open, NEW j \in Nat \ {0}, Stack(open, j),
           Told(chosen, known, open, j), LineOf(j).word = "if", NEW t \in BOOLEAN,
           t <=> AllTaken(known) /\ IsTrue(chosen, j)
    PROVE  Told(chosen, Append(known, [taken |-> t, any |-> t]), Append(open, j), j + 1)
<1> DEFINE f == [taken |-> t, any |-> t]
           r == Append(known, f)
           o == Append(open, j)
           d == Len(open)
<1>1. /\ open \in Seq(Nat) /\ d \in Nat /\ \A k \in 1..d : open[k] \in 1..(j - 1)
  BY StackTypes
<1>2. f \in Frames /\ f.taken = t /\ f.any = t
  BY FrameTypes
<1>3. known \in Seq(Frames) /\ Len(known) = d
  BY DEF Told
<1> HIDE DEF f
<1>4. /\ r \in Seq(Frames) /\ Len(r) = d + 1
      /\ \A k \in 1..d : r[k] = known[k]
      /\ r[d + 1] = f
  <2>1. Frames \cup {f} = Frames
    BY <1>2
  <2> QED
    BY <1>3, <2>1, PushStack
<1>5. /\ Len(o) = d + 1
      /\ \A k \in 1..d : o[k] = open[k]
      /\ o[d + 1] = j
  BY <1>1, PushStack
<1>6. ASSUME NEW k \in 1..d
      PROVE  /\ InBranch(chosen, open[k], j + 1) <=> InBranch(chosen, open[k], j)
             /\ Tried(chosen, open[k], j + 1) <=> Tried(chosen, open[k], j)
  <2>1. LineOf(j).word \notin {"elseif", "else"}
    OBVIOUS
  <2> QED
    BY <1>1, <2>1, BranchSame
<1>7. /\ InBranch(chosen, j, j + 1) <=> IsTrue(chosen, j)
      /\ Tried(chosen, j, j + 1) <=> IsTrue(chosen, j)
  BY BranchOpens
<1>8. AllTaken(known) <=> \A l \in 1..d : InBranch(chosen, open[l], j)
  BY ActiveIs
<1>9. \A k \in 1..d : /\ known[k].taken <=> \A l \in 1..k : InBranch(chosen, open[l], j)
                      /\ known[k].any <=> /\ \A l \in 1..(k - 1) : InBranch(chosen, open[l], j)
                                          /\ Tried(chosen, open[k], j)
  BY DEF Told
<1> HIDE DEF r, o, d
<1>10. ASSUME NEW k \in 1..(d + 1)
       PROVE  /\ r[k].taken <=> \A l \in 1..k : InBranch(chosen, o[l], j + 1)
              /\ r[k].any <=> /\ \A l \in 1..(k - 1) : InBranch(chosen, o[l], j + 1)
                              /\ Tried(chosen, o[k], j + 1)
  <2>1. CASE k \in 1..d
    <3>1. \A l \in 1..k : l \in 1..d
      BY <1>1, <2>1
    <3>2. \A l \in 1..(k - 1) : l \in 1..d
      BY <1>1, <2>1
    <3>3. r[k] = known[k] /\ o[k] = open[k]
      BY <1>4, <1>5, <2>1
    <3>4. \A l \in 1..d : InBranch(chosen, o[l], j + 1) <=> InBranch(chosen, open[l], j)
      BY <1>5, <1>6
    <3> QED
      BY <1>6, <1>9, <2>1, <3>1, <3>2, <3>3, <3>4
  <2>2. CASE k = d + 1
    <3>1. \A l \in 1..(d + 1) : l \in 1..d \/ l = d + 1
      BY <1>1
    <3>2. 1..((d + 1) - 1) = 1..d /\ \A l \in 1..d : l \in 1..(d + 1)
      BY <1>1
    <3>3. \A l \in 1..d : InBranch(chosen, o[l], j + 1) <=> InBranch(chosen, open[l], j)
      BY <1>5, <1>6
    <3>4. d + 1 \in 1..(d + 1)
      BY <1>1
    <3>5. (\A l \in 1..(d + 1) : InBranch(chosen, o[l], j + 1))
          <=> (\A l \in 1..d : InBranch(chosen, open[l], j)) /\ IsTrue(chosen, j)
      BY <1>5, <1>7, <3>1, <3>2, <3>3, <3>4
    <3>6. (\A l \in 1..d : InBranch(chosen, o[l], j + 1))
          <=> (\A l \in 1..d : InBranch(chosen, open[l], j))
      BY <3>3
    <3>7. r[k].taken = t /\ r[k].any = t /\ o[k] = j
      BY <1>2, <1>4, <1>5, <2>2
    <3>8. r[k].taken <=> \A l \in 1..k : InBranch(chosen, o[l], j + 1)
      BY <1>8, <2>2, <3>5, <3>7
    <3>9. r[k].any <=> /\ \A l \in 1..(k - 1) : InBranch(chosen, o[l], j + 1)
                       /\ Tried(chosen, o[k], j + 1)
      BY <1>7, <1>8, <2>2, <3>2, <3>6, <3>7
    <3> QED
      BY <3>8, <3>9
  <2>3. k \in 1..d \/ k = d + 1
    BY <1>1
  <2> QED
    BY <2>1, <2>2, <2>3
<1>11. Told(chosen, r, o, j + 1)
  BY <1>4, <1>5, <1>10 DEF Told
<1> QED
  BY <1>11 DEF r, o, f

LEMMA ToldCloses ==
    ASSUME NEW chosen, NEW known, NEW open, NEW j \in Nat \ {0}, Stack(open, j),
           Told(chosen, known, open, j), LineOf(j).word = "endif", open # <<>>
    PROVE  Told(chosen, Front(known), Front(open), j + 1)
<1> DEFINE r == Front(known)
           o == Front(open)
           d == Len(open)
<1>1. open \in Seq(Nat)
  BY StackTypes
<1>2. /\ d \in Nat \ {0} /\ Len(o) = d - 1 /\ \A k \in 1..d - 1 : o[k] = open[k]
  BY <1>1, PopStack
<1>3. known \in Seq(Frames) /\ Len(known) = d
  BY DEF Told
<1>4. known # <<>>
  BY <1>2, <1>3
<1>5. /\ r \in Seq(Frames) /\ Len(r) = d - 1 /\ \A k \in 1..d - 1 : r[k] = known[k]
  BY <1>3, <1>4, PopStack
<1>6. Told(chosen, known, open, j + 1)
  <2>1. LineOf(j).word \notin {"elseif", "else"}
    OBVIOUS
  <2> QED
    BY <2>1, ToldSame
<1>7. \A k \in 1..d : /\ known[k].taken <=> \A l \in 1..k : InBranch(chosen, open[l], j + 1)
                      /\ known[k].any <=> /\ \A l \in 1..(k - 1) : InBranch(chosen, open[l], j + 1)
                                          /\ Tried(chosen, open[k], j + 1)
  BY <1>6 DEF Told
<1> HIDE DEF r, o, d
<1>8. \A k \in 1..d - 1 : k \in 1..d /\ \A l \in 1..k : l \in 1..d - 1
  BY <1>2
<1>9. \A k \in 1..d - 1 : \A l \in 1..(k - 1) : l \in 1..d - 1
  BY <1>2
<1>10. Told(chosen, r, o, j + 1)
  BY <1>2, <1>5, <1>7, <1>8, <1>9 DEF Told
<1> QED
  BY <1>10 DEF r, o

LEMMA ToldHead ==
    ASSUME NEW chosen, NEW known, NEW open, NEW j \in Nat \ {0}, Stack(open, j),
           Told(chosen, known, open, j), LineOf(j).word \in {"elseif", "else"}, open # <<>>,
           NEW t \in BOOLEAN, NEW a \in BOOLEAN,
           t <=> ~ Last(known).any /\ AllTaken(Front(known)) /\ IsTrue(chosen, j),
           a <=> Last(known).any \/ t
    PROVE  Told(chosen, Append(Front(known), [taken |-> t, any |-> a]), open, j + 1)
<1> DEFINE f == [taken |-> t, any |-> a]
           r == Append(Front(known), f)
           d == Len(open)
<1>1. /\ open \in Seq(Nat) /\ \A k \in 1..d : open[k] \in 1..(j - 1)
  BY StackTypes
<1>2. d \in Nat \ {0}
  BY <1>1, PopStack
<1>3. f \in Frames /\ f.taken = t /\ f.any = a
  BY FrameTypes
<1>4. known \in Seq(Frames) /\ Len(known) = d
  BY DEF Told
<1>5. known # <<>>
  BY <1>2, <1>4
<1>6. /\ Last(known) = known[d]
      /\ Len(Front(known)) = d - 1 /\ DOMAIN Front(known) = 1..d - 1
      /\ \A k \in 1..d - 1 : Front(known)[k] = known[k]
  BY <1>4, <1>5, PopStack
<1> HIDE DEF f
<1>7. /\ r \in Seq(Frames) /\ Len(r) = d
      /\ \A k \in 1..d - 1 : r[k] = known[k]
      /\ r[d] = f
  <2>1. Frames \cup {f} = Frames
    BY <1>3
  <2>2. /\ r \in Seq(Frames \cup {f})
        /\ Len(r) = Len(known)
        /\ DOMAIN r = 1..Len(known)
        /\ \A k \in 1..Len(known) - 1 : r[k] = known[k]
        /\ r[Len(known)] = f
    <3>1. known \in Seq(Frames)
      BY <1>4
    <3> QED
      BY <1>5, <3>1, ReplaceTop, ZenonT(30)
  <2> HIDE DEF r, d
  <2> QED
    BY <1>4, <2>1, <2>2
<1>8. \A k \in 1..d : /\ known[k].taken <=> \A l \in 1..k : InBranch(chosen, open[l], j)
                      /\ known[k].any <=> /\ \A l \in 1..(k - 1) : InBranch(chosen, open[l], j)
                                          /\ Tried(chosen, open[k], j)
  BY DEF Told
<1>9. Max(BlocksAround(j)) = open[d] /\ \A k \in 1..d - 1 : open[k] # open[d]
  BY StackTop
<1> HIDE DEF r, d
<1>10. d \in 1..d /\ \A k \in 1..d - 1 : k \in 1..d
  BY <1>2
<1>11. ASSUME NEW k \in 1..d - 1
       PROVE  /\ InBranch(chosen, open[k], j + 1) <=> InBranch(chosen, open[k], j)
              /\ Tried(chosen, open[k], j + 1) <=> Tried(chosen, open[k], j)
  <2>1. Max(BlocksAround(j)) # open[k] /\ open[k] \in 1..(j - 1)
    BY <1>1, <1>9, <1>10
  <2> QED
    BY <2>1, BranchSame
<1>12. /\ InBranch(chosen, open[d], j + 1) <=> IsTrue(chosen, j) /\ ~ Tried(chosen, open[d], j)
       /\ Tried(chosen, open[d], j + 1) <=> IsTrue(chosen, j) \/ Tried(chosen, open[d], j)
  <2>1. open[d] \in 1..(j - 1)
    BY <1>1, <1>10
  <2> QED
    BY <1>9, <2>1, BranchHead
<1>13. AllTaken(Front(known)) <=> \A l \in 1..d - 1 : InBranch(chosen, open[l], j)
  <2>1. AllTaken(Front(known)) <=> \A k \in 1..d - 1 : known[k].taken
    BY <1>6 DEF AllTaken
  <2>2. \A k \in 1..d - 1 : k \in 1..k /\ \A l \in 1..k : l \in 1..d - 1
    BY <1>2
  <2>3. ASSUME \A l \in 1..d - 1 : InBranch(chosen, open[l], j), NEW k \in 1..d - 1
        PROVE  known[k].taken
    BY <1>8, <1>10, <2>2, <2>3
  <2>4. ASSUME \A k \in 1..d - 1 : known[k].taken, NEW l \in 1..d - 1
        PROVE  InBranch(chosen, open[l], j)
    BY <1>8, <1>10, <2>2, <2>4
  <2> QED
    BY <2>1, <2>3, <2>4
<1>14. ASSUME NEW k \in 1..d - 1
       PROVE  /\ r[k].taken <=> \A l \in 1..k : InBranch(chosen, open[l], j + 1)
              /\ r[k].any <=> /\ \A l \in 1..(k - 1) : InBranch(chosen, open[l], j + 1)
                              /\ Tried(chosen, open[k], j + 1)
  <2>1. \A l \in 1..k : l \in 1..d - 1
    BY <1>2
  <2>2. \A l \in 1..(k - 1) : l \in 1..d - 1
    BY <1>2
  <2>3. r[k] = known[k]
    BY <1>7
  <2> QED
    BY <1>8, <1>10, <1>11, <2>1, <2>2, <2>3
<1> DEFINE Outer == \A l \in 1..d - 1 : InBranch(chosen, open[l], j)
<1>15. (\A l \in 1..d - 1 : InBranch(chosen, open[l], j + 1)) <=> Outer
  BY <1>11
<1>16. known[d].any <=> Outer /\ Tried(chosen, open[d], j)
  BY <1>8, <1>10
<1>17. (\A l \in 1..d : InBranch(chosen, open[l], j + 1))
       <=> Outer /\ InBranch(chosen, open[d], j + 1)
  <2>1. \A l \in 1..d : l \in 1..d - 1 \/ l = d
    BY <1>2
  <2> QED
    BY <1>10, <1>15, <2>1
<1>18. r[d].taken = t /\ r[d].any = a
  BY <1>3, <1>7
<1>19. AllTaken(Front(known)) <=> Outer
  BY <1>13
<1>20. t <=> ~ known[d].any /\ Outer /\ IsTrue(chosen, j)
  BY <1>6, <1>19
<1>21. a <=> known[d].any \/ t
  BY <1>6
<1> HIDE DEF Outer
<1>22. r[d].taken <=> \A l \in 1..d : InBranch(chosen, open[l], j + 1)
  BY <1>12, <1>16, <1>17, <1>18, <1>20
<1>23. r[d].any <=> /\ \A l \in 1..d - 1 : InBranch(chosen, open[l], j + 1)
                    /\ Tried(chosen, open[d], j + 1)
  BY <1>12, <1>15, <1>16, <1>18, <1>20, <1>21
<1>24. \A k \in 1..d : k \in 1..d - 1 \/ k = d
  BY <1>2
<1>25. Told(chosen, r, open, j + 1)
  <2>1. ASSUME NEW k \in 1..d
        PROVE  /\ r[k].taken <=> \A l \in 1..k : InBranch(chosen, open[l], j + 1)
               /\ r[k].any <=> /\ \A l \in 1..(k - 1) : InBranch(chosen, open[l], j + 1)
                               /\ Tried(chosen, open[k], j + 1)
    BY <1>14, <1>22, <1>23, <1>24
  <2>2. r \in Seq(Frames) /\ Len(r) = Len(open)
    BY <1>7 DEF d
  <2> QED
    BY <2>1, <2>2 DEF Told, d
<1> QED
  BY <1>25 DEF r, f

LEMMA ToldKept ==
    ASSUME NEW chosen, NEW known, NEW open, NEW j \in Nat \ {0}, Stack(open, j + 1),
           Told(chosen, known, open, j + 1)
    PROVE  Told(chosen \cup {j}, known, open, j + 1)
<1>1. Len(open) \in Nat /\ \A k \in 1..Len(open) : open[k] \in 1..((j + 1) - 1)
  BY StackTypes
<1>2. ASSUME NEW k \in 1..Len(open)
      PROVE  /\ InBranch(chosen \cup {j}, open[k], j + 1) <=> InBranch(chosen, open[k], j + 1)
             /\ Tried(chosen \cup {j}, open[k], j + 1) <=> Tried(chosen, open[k], j + 1)
  <2>1. j \in Nat /\ j + 1 \in 0..j + 1
    OBVIOUS
  <2> QED
    BY <1>1, <2>1, BranchStays
<1>3. \A k \in 1..Len(open) : \A l \in 1..k : l \in 1..Len(open)
  BY <1>1
<1>4. \A k \in 1..Len(open) : \A l \in 1..(k - 1) : l \in 1..Len(open)
  BY <1>1
<1> QED
  BY <1>2, <1>3, <1>4 DEF Told

\* The parameters known are those of the lines chosen.
ParamsOf(chosen, name) == {k \in chosen : LineOf(k).word = "param" /\ LineOf(k).name = name}

Remembered(chosen, values) ==
    \A name : /\ name \in DOMAIN values <=> ParamsOf(chosen, name) # {}
              /\ name \in DOMAIN values => values[name] = LineOf(Max(ParamsOf(chosen, name))).value

LEMMA RememberedTest ==
    ASSUME NEW chosen, NEW values, Remembered(chosen, values), NEW j \in Nat, chosen \subseteq 1..j - 1
    PROVE  LET line == LineOf(j)
           IN  Worth(chosen, j) = IF line.name \in DOMAIN values THEN values[line.name] ELSE 0
<1>1. Given(chosen, j) = ParamsOf(chosen, LineOf(j).name)
  <2>1. \A k \in chosen : k < j
    OBVIOUS
  <2> QED
    BY <2>1 DEF Given, ParamsOf
<1> QED
  BY <1>1 DEF Worth, Remembered

LEMMA RememberedParam ==
    ASSUME NEW chosen, NEW values, Remembered(chosen, values), NEW j \in Nat \ {0},
           chosen \subseteq 1..j - 1, LineOf(j).word = "param"
    PROVE  Remembered(chosen \cup {j}, With(values, LineOf(j).name, LineOf(j).value))
<1> DEFINE new == With(values, LineOf(j).name, LineOf(j).value)
           more == chosen \cup {j}
<1>1. /\ DOMAIN new = DOMAIN values \cup {LineOf(j).name}
      /\ new[LineOf(j).name] = LineOf(j).value
      /\ \A n \in DOMAIN values : n # LineOf(j).name => new[n] = values[n]
  BY DEF With
<1>2. ASSUME NEW name, name # LineOf(j).name
      PROVE  ParamsOf(more, name) = ParamsOf(chosen, name)
  BY <1>2 DEF ParamsOf
<1>3. ParamsOf(more, LineOf(j).name) = ParamsOf(chosen, LineOf(j).name) \cup {j}
  BY DEF ParamsOf
<1>4. Max(ParamsOf(chosen, LineOf(j).name) \cup {j}) = j
  <2> DEFINE S == ParamsOf(chosen, LineOf(j).name) \cup {j}
  <2>1. \A x \in S : x = j \/ x \in 1..j - 1
    BY DEF ParamsOf
  <2>2. \A x \in S : x \in Nat /\ x <= j
    BY <2>1
  <2>3. j \in S
    OBVIOUS
  <2> HIDE DEF S
  <2>4. S \in SUBSET Nat
    BY <2>2
  <2>5. Max(S) = j
    BY <2>2, <2>3, <2>4, MaxIs
  <2> QED
    BY <2>5 DEF S
<1> HIDE DEF new, more
<1>5. ASSUME NEW name
      PROVE  /\ name \in DOMAIN new <=> ParamsOf(more, name) # {}
             /\ name \in DOMAIN new => new[name] = LineOf(Max(ParamsOf(more, name))).value
  <2>1. CASE name = LineOf(j).name
    BY <1>1, <1>3, <1>4, <2>1
  <2>2. CASE name # LineOf(j).name
    <3>1. /\ name \in DOMAIN values <=> ParamsOf(chosen, name) # {}
          /\ name \in DOMAIN values => values[name] = LineOf(Max(ParamsOf(chosen, name))).value
      BY DEF Remembered
    <3>2. ParamsOf(more, name) = ParamsOf(chosen, name)
      BY <1>2, <2>2
    <3>3. name \in DOMAIN new <=> name \in DOMAIN values
      BY <1>1, <2>2
    <3>4. name \in DOMAIN values => new[name] = values[name]
      BY <1>1, <2>2
    <3> QED
      BY <3>1, <3>2, <3>3, <3>4
  <2> QED
    BY <2>1, <2>2
<1>6. Remembered(more, new)
  BY <1>5 DEF Remembered
<1> QED
  BY <1>6 DEF more, new

LEMMA RememberedOther ==
    ASSUME NEW chosen, NEW values, Remembered(chosen, values), NEW j, LineOf(j).word # "param"
    PROVE  Remembered(chosen \cup {j}, values)
<1>1. \A name : ParamsOf(chosen \cup {j}, name) = ParamsOf(chosen, name)
  BY DEF ParamsOf
<1> QED
  BY <1>1 DEF Remembered

\* The lines before line j are chosen as they should be.
ChosenTo(chosen, j) ==
    \A n \in 1..(j - 1) : LineOf(n).word \in Ordinary =>
        (n \in chosen <=> \A i \in BlocksAround(n) : InBranch(chosen, i, n))

\* All there is to know before line j is looked at.
Nested(chosen, known, values, j) ==
    /\ j \in Nat \ {0} /\ chosen \subseteq 1..j - 1
    /\ Remembered(chosen, values)
    /\ ChosenTo(chosen, j)
    /\ \E open : Stack(open, j) /\ Told(chosen, known, open, j)

LEMMA ChosenSame ==
    ASSUME NEW chosen, NEW j \in Nat \ {0}, ChosenTo(chosen, j), LineOf(j).word \notin Ordinary
    PROVE  ChosenTo(chosen, j + 1)
<1>1. \A n \in 1..((j + 1) - 1) : n \in 1..(j - 1) \/ n = j
  OBVIOUS
<1> QED
  BY <1>1 DEF ChosenTo

LEMMA ChosenOne ==
    ASSUME NEW chosen, NEW j \in Nat \ {0}, ChosenTo(chosen, j), chosen \subseteq 1..j - 1,
           NEW more, more = chosen \cup {n \in {j} : \A i \in BlocksAround(j) : InBranch(chosen, i, j)}
    PROVE  ChosenTo(more, j + 1)
<1>1. ASSUME NEW n \in 1..j, NEW i \in BlocksAround(n)
      PROVE  InBranch(more, i, n) <=> InBranch(chosen, i, n)
  <2>1. more = chosen \/ more = chosen \cup {j}
    OBVIOUS
  <2>2. j \in Nat /\ n \in 0..j + 1
    OBVIOUS
  <2>3. i \in 1..(n - 1)
    BY DEF BlocksAround
  <2> QED
    BY <2>1, <2>2, <2>3, BranchStays
<1>2. \A n \in 1..((j + 1) - 1) : n \in 1..j /\ (n \in 1..(j - 1) \/ n = j)
  OBVIOUS
<1>3. \A n \in 1..(j - 1) : n \in more <=> n \in chosen
  <2>1. \A n \in 1..(j - 1) : n # j
    OBVIOUS
  <2> QED
    BY <2>1
<1>4. j \in more <=> \A i \in BlocksAround(j) : InBranch(chosen, i, j)
  <2>1. j \notin chosen
    OBVIOUS
  <2> QED
    BY <2>1
<1> QED
  BY <1>1, <1>2, <1>3, <1>4 DEF ChosenTo

LEMMA NestedStart == Nested({}, <<>>, <<>>, 1)
<1>1. BlocksAround(1) = {}
  <2>1. 1..1 - 1 = {}
    OBVIOUS
  <2> QED
    BY <2>1 DEF BlocksAround
<1>2. <<>> \in Seq(Nat) /\ <<>> \in Seq(Frames) /\ Len(<<>>) = 0 /\ 1..0 = {} /\ DOMAIN <<>> = {}
  OBVIOUS
<1>3. Stack(<<>>, 1)
  BY <1>1, <1>2 DEF Stack, Rising
<1>4. Told({}, <<>>, <<>>, 1)
  BY <1>2 DEF Told
<1>5. Remembered({}, <<>>)
  <2>1. \A name : ParamsOf({}, name) = {}
    BY DEF ParamsOf
  <2> QED
    BY <1>2, <2>1 DEF Remembered
<1>6. ChosenTo({}, 1)
  <2>1. 1..(1 - 1) = {}
    OBVIOUS
  <2> QED
    BY <2>1 DEF ChosenTo
<1>7. 1 \in Nat \ {0} /\ {} \subseteq 1..1 - 1
  OBVIOUS
<1> QED
  BY <1>3, <1>4, <1>5, <1>6, <1>7 DEF Nested

\* A line of a condition is dropped.
LEMMA NestedOn ==
    ASSUME NEW chosen, NEW known, NEW values, NEW j, Nested(chosen, known, values, j),
           LineOf(j).word \notin Ordinary, NEW later,
           \E open : Stack(open, j + 1) /\ Told(chosen, later, open, j + 1)
    PROVE  Nested(chosen, later, values, j + 1)
<1>1. /\ j \in Nat \ {0} /\ chosen \subseteq 1..j - 1
      /\ Remembered(chosen, values)
      /\ ChosenTo(chosen, j)
  BY DEF Nested
<1>2. ChosenTo(chosen, j + 1)
  BY <1>1, ChosenSame
<1>3. j + 1 \in Nat \ {0} /\ 1..j - 1 \subseteq 1..(j + 1) - 1
  BY <1>1
<1>4. chosen \subseteq 1..(j + 1) - 1
  BY <1>1, <1>3
<1> QED
  BY <1>1, <1>2, <1>3, <1>4 DEF Nested

LEMMA NestedTest ==
    ASSUME NEW chosen, NEW known, NEW values, NEW j, Nested(chosen, known, values, j)
    PROVE  LET line == LineOf(j)
           IN  IsTrue(chosen, j)
               <=> \/ line.word = "else"
                   \/ (IF line.name \in DOMAIN values THEN values[line.name] ELSE 0) = line.value
<1>1. j \in Nat \ {0} /\ chosen \subseteq 1..j - 1 /\ Remembered(chosen, values)
  BY DEF Nested
<1>2. j \in Nat
  BY <1>1
<1>3. LET line == LineOf(j)
      IN  Worth(chosen, j) = IF line.name \in DOMAIN values THEN values[line.name] ELSE 0
  BY <1>1, <1>2, RememberedTest
<1> QED
  BY <1>3 DEF IsTrue

LEMMA NestedIf ==
    ASSUME NEW chosen, NEW known, NEW values, NEW j, Nested(chosen, known, values, j),
           LineOf(j).word = "if", NEW t \in BOOLEAN, t <=> AllTaken(known) /\ IsTrue(chosen, j)
    PROVE  Nested(chosen, Append(known, [taken |-> t, any |-> t]), values, j + 1)
<1>1. j \in Nat \ {0}
  BY DEF Nested
<1>2. PICK open : Stack(open, j) /\ Told(chosen, known, open, j)
  BY DEF Nested
<1>3. Stack(Append(open, j), j + 1)
  BY <1>1, <1>2, StackOpens
<1>4. Told(chosen, Append(known, [taken |-> t, any |-> t]), Append(open, j), j + 1)
  BY <1>1, <1>2, ToldOpens
<1>5. LineOf(j).word \notin Ordinary
  BY DEF Ordinary
<1> QED
  BY <1>3, <1>4, <1>5, NestedOn

LEMMA NestedHead ==
    ASSUME NEW chosen, NEW known, NEW values, NEW j, Nested(chosen, known, values, j),
           LineOf(j).word \in {"elseif", "else"}, known # <<>>,
           NEW t \in BOOLEAN, NEW a \in BOOLEAN,
           t <=> ~ Last(known).any /\ AllTaken(Front(known)) /\ IsTrue(chosen, j),
           a <=> Last(known).any \/ t
    PROVE  Nested(chosen, Append(Front(known), [taken |-> t, any |-> a]), values, j + 1)
<1>1. j \in Nat \ {0}
  BY DEF Nested
<1>2. PICK open : Stack(open, j) /\ Told(chosen, known, open, j)
  BY DEF Nested
<1>3. open # <<>>
  <2>1. known \in Seq(Frames) /\ Len(known) = Len(open)
    BY <1>2 DEF Told
  <2>2. Len(known) \in Nat \ {0}
    BY <2>1, PopStack
  <2> QED
    BY <2>1, <2>2
<1>4. Stack(open, j + 1)
  BY <1>1, <1>2, StackSame
<1>5. Told(chosen, Append(Front(known), [taken |-> t, any |-> a]), open, j + 1)
  BY <1>1, <1>2, <1>3, ToldHead
<1>6. LineOf(j).word \notin Ordinary
  BY DEF Ordinary
<1> QED
  BY <1>4, <1>5, <1>6, NestedOn

LEMMA NestedEndif ==
    ASSUME NEW chosen, NEW known, NEW values, NEW j, Nested(chosen, known, values, j),
           LineOf(j).word = "endif", known # <<>>
    PROVE  Nested(chosen, Front(known), values, j + 1)
<1>1. j \in Nat \ {0}
  BY DEF Nested
<1>2. PICK open : Stack(open, j) /\ Told(chosen, known, open, j)
  BY DEF Nested
<1>3. open # <<>>
  <2>1. known \in Seq(Frames) /\ Len(known) = Len(open)
    BY <1>2 DEF Told
  <2>2. Len(known) \in Nat \ {0}
    BY <2>1, PopStack
  <2> QED
    BY <2>1, <2>2
<1>4. Stack(Front(open), j + 1)
  BY <1>1, <1>2, <1>3, StackCloses
<1>5. Told(chosen, Front(known), Front(open), j + 1)
  BY <1>1, <1>2, <1>3, ToldCloses
<1>6. LineOf(j).word \notin Ordinary
  BY DEF Ordinary
<1> QED
  BY <1>4, <1>5, <1>6, NestedOn

\* A head or an end outside of any block.
LEMMA NestedStray ==
    ASSUME NEW chosen, NEW values, NEW j, Nested(chosen, <<>>, values, j),
           LineOf(j).word \in {"elseif", "else", "endif"}
    PROVE  Nested(chosen, <<>>, values, j + 1)
<1>1. j \in Nat \ {0}
  BY DEF Nested
<1>2. PICK open : Stack(open, j) /\ Told(chosen, <<>>, open, j)
  BY DEF Nested
<1>3. open = <<>>
  <2>1. Len(open) = 0 /\ open \in Seq(Nat)
    <3>1. Len(open) = Len(<<>>)
      BY <1>2 DEF Told
    <3> QED
      BY <1>1, <1>2, <3>1, StackTypes
  <2> QED
    BY <2>1, EmptySeq
<1>4. Stack(open, j + 1)
  BY <1>1, <1>2, <1>3, StackSame
<1>5. Told(chosen, <<>>, open, j + 1)
  BY <1>1, <1>2, <1>3, ToldSame
<1>6. LineOf(j).word \notin Ordinary
  BY DEF Ordinary
<1> QED
  BY <1>4, <1>5, <1>6, NestedOn

\* Any other line is kept when all the blocks around it are taken.
LEMMA NestedLine ==
    ASSUME NEW chosen, NEW known, NEW values, NEW j, Nested(chosen, known, values, j),
           LineOf(j).word \in Ordinary, NEW more, NEW new,
           more = IF AllTaken(known) THEN chosen \cup {j} ELSE chosen,
           new = IF AllTaken(known) /\ LineOf(j).word = "param"
                 THEN With(values, LineOf(j).name, LineOf(j).value) ELSE values
    PROVE  Nested(more, known, new, j + 1)
<1>1. /\ j \in Nat \ {0} /\ chosen \subseteq 1..j - 1
      /\ Remembered(chosen, values)
      /\ ChosenTo(chosen, j)
  BY DEF Nested
<1>2. PICK open : Stack(open, j) /\ Told(chosen, known, open, j)
  BY DEF Nested
<1>3. LineOf(j).word \notin {"if", "elseif", "else", "endif"}
  BY DEF Ordinary
<1>4. Stack(open, j + 1)
  BY <1>1, <1>2, <1>3, StackSame
<1>5. Told(chosen, known, open, j + 1)
  BY <1>1, <1>2, <1>3, ToldSame
<1>6. Told(more, known, open, j + 1)
  BY <1>1, <1>4, <1>5, ToldKept
<1>7. Remembered(more, new)
  <2>1. CASE AllTaken(known) /\ LineOf(j).word = "param"
    BY <1>1, <2>1, RememberedParam
  <2>2. CASE AllTaken(known) /\ LineOf(j).word # "param"
    BY <1>1, <2>2, RememberedOther
  <2>3. CASE ~ AllTaken(known)
    BY <1>1, <2>3
  <2> QED
    BY <2>1, <2>2, <2>3
<1>8. more = chosen \cup {n \in {j} : \A i \in BlocksAround(j) : InBranch(chosen, i, j)}
  <2>1. AllTaken(known) <=> \A i \in BlocksAround(j) : InBranch(chosen, i, j)
    BY <1>1, <1>2, ActiveIs
  <2> QED
    BY <2>1
<1>9. ChosenTo(more, j + 1)
  BY <1>1, <1>8, ChosenOne
<1>10. j + 1 \in Nat \ {0} /\ 1..j - 1 \subseteq 1..(j + 1) - 1 /\ j \in 1..(j + 1) - 1
  BY <1>1
<1>11. more \subseteq 1..(j + 1) - 1
  BY <1>1, <1>10
<1> QED
  BY <1>4, <1>6, <1>7, <1>9, <1>10, <1>11 DEF Nested

LEMMA ToSetAppend ==
    ASSUME NEW S, NEW s \in Seq(S), NEW e
    PROVE  ToSet(Append(s, e)) = ToSet(s) \cup {e}
<1> DEFINE r == Append(s, e)
           z == Len(s)
<1>1. /\ z \in Nat /\ DOMAIN r = 1..(z + 1)
      /\ \A i \in 1..z : r[i] = s[i]
      /\ r[z + 1] = e
  BY PushStack
<1>2. DOMAIN s = 1..z
  BY LenProperties
<1> HIDE DEF r, z
<1>3. \A i \in 1..(z + 1) : i \in 1..z \/ i = z + 1
  BY <1>1
<1>4. \A i \in 1..z : i \in 1..(z + 1)
  BY <1>1
<1>5. z + 1 \in 1..(z + 1)
  BY <1>1
<1>6. ToSet(r) = ToSet(s) \cup {e}
  BY <1>1, <1>2, <1>3, <1>4, <1>5 DEF ToSet
<1> QED
  BY <1>6 DEF r

\* The text does not change: nor does anything said of it.
LEMMA SameText ==
    ASSUME source' = source, logical' = logical
    PROVE  /\ \A j : LineOf(j)' = LineOf(j)
           /\ \A chosen, j : ChosenTo(chosen, j)' <=> ChosenTo(chosen, j)
           /\ \A chosen, known, values, j :
                 Nested(chosen, known, values, j)' <=> Nested(chosen, known, values, j)
<1>1. \A j : LineOf(j)' = LineOf(j)
  BY DEF LineOf
<1>2. \A w, a, b : HowMany(w, a, b)' = HowMany(w, a, b)
  <2> TAKE w, a, b
  <2>1. {k \in a..b : LineOf(k).word = w}' = {k \in a..b : LineOf(k).word = w}
    BY <1>1
  <2> QED
    BY <2>1 DEF HowMany
<1>3. \A j : BlocksAround(j)' = BlocksAround(j)
  <2> TAKE j
  <2> QED
    BY <1>1, <1>2 DEF BlocksAround
<1>4. \A i, j : Heads(i, j)' = Heads(i, j)
  <2> TAKE i, j
  <2> QED
    BY <1>1, <1>3 DEF Heads
<1>5. \A chosen, h : Given(chosen, h)' = Given(chosen, h)
  <2> TAKE chosen, h
  <2> QED
    BY <1>1 DEF Given
<1>6. \A chosen, h : IsTrue(chosen, h)' <=> IsTrue(chosen, h)
  <2> TAKE chosen, h
  <2>1. Worth(chosen, h)' = Worth(chosen, h)
    BY <1>1, <1>5 DEF Worth
  <2> QED
    BY <1>1, <2>1 DEF IsTrue
<1>7. \A chosen, i, j : InBranch(chosen, i, j)' <=> InBranch(chosen, i, j)
  <2> TAKE chosen, i, j
  <2> QED
    BY <1>4, <1>6 DEF InBranch
<1>8. \A chosen, i, j : Tried(chosen, i, j)' <=> Tried(chosen, i, j)
  <2> TAKE chosen, i, j
  <2> QED
    BY <1>4, <1>6 DEF Tried
<1>9. \A chosen, j : ChosenTo(chosen, j)' <=> ChosenTo(chosen, j)
  <2> TAKE chosen, j
  <2> QED
    BY <1>1, <1>3, <1>7 DEF ChosenTo
<1>10. \A open, j : Stack(open, j)' <=> Stack(open, j)
  <2> TAKE open, j
  <2> QED
    BY <1>2, <1>3 DEF Stack
<1>11. \A chosen, known, open, j : Told(chosen, known, open, j)' <=> Told(chosen, known, open, j)
  <2> TAKE chosen, known, open, j
  <2> QED
    BY <1>7, <1>8 DEF Told
<1>12. \A chosen, name : ParamsOf(chosen, name)' = ParamsOf(chosen, name)
  <2> TAKE chosen, name
  <2> QED
    BY <1>1 DEF ParamsOf
<1>13. \A chosen, values : Remembered(chosen, values)' <=> Remembered(chosen, values)
  <2> TAKE chosen, values
  <2> QED
    BY <1>1, <1>12 DEF Remembered
<1>14. \A chosen, known, values, j :
          Nested(chosen, known, values, j)' <=> Nested(chosen, known, values, j)
  <2> TAKE chosen, known, values, j
  <2> QED
    BY <1>9, <1>10, <1>11, <1>13 DEF Nested
<1> QED
  BY <1>1, <1>9, <1>14

BlocksOK ==
    /\ phase = "join" => blocks = <<>> /\ params = <<>>
    /\ phase = "choose" => Nested(ToSet(kept), blocks, params, at)
    /\ phase \notin {"join", "choose"} => ChosenTo(ToSet(kept), Len(logical) + 1)

ParserOK == LinesOK /\ ForksOK /\ BlocksOK

\* The steps of process_conditionals, as what they do to the blocks.
LEMMA ChooseKeeps ==
    ASSUME Nested(ToSet(kept), blocks, params, at), kept \in Seq(Nat \ {0}),
           OpenBlock \/ ElseIf \/ Else \/ EndIf \/ KeepLine
    PROVE  Nested(ToSet(kept'), blocks', params', at + 1)
<1> DEFINE K == ToSet(kept)
           line == LineOf(at)
<1>1. IsTrue(K, at) <=> line.word = "else" \/ Holds(line)
  BY NestedTest DEF Holds
<1>2. \E S : blocks \in Seq(S) /\ \A f \in S : f.any \in BOOLEAN
  <2>1. blocks \in Seq(Frames)
    BY DEF Nested, Told
  <2>2. \A f \in Frames : f.any \in BOOLEAN
    BY DEF Frames
  <2> QED
    BY <2>1, <2>2
<1>3. blocks # <<>> => Last(blocks).any \in BOOLEAN
  BY <1>2, PopStack
<1>4. CASE OpenBlock
  <2> DEFINE t == Active /\ Holds(line)
  <2>1. /\ line.word = "if" /\ kept' = kept /\ params' = params
        /\ blocks' = Append(blocks, [taken |-> t, any |-> t])
    BY <1>4 DEF OpenBlock, Chooses
  <2>2. t \in BOOLEAN
    OBVIOUS
  <2>3. t <=> AllTaken(blocks) /\ IsTrue(K, at)
    BY <1>1, <2>1 DEF Active
  <2> HIDE DEF t
  <2>4. Nested(K, Append(blocks, [taken |-> t, any |-> t]), params, at + 1)
    BY <2>1, <2>2, <2>3, NestedIf
  <2> QED
    BY <2>1, <2>4
<1>5. CASE (ElseIf \/ Else) /\ blocks # <<>>
  <2>1. \E t \in BOOLEAN :
           /\ t <=> MayTake /\ IsTrue(K, at)
           /\ blocks' = Append(Front(blocks), Branch(t))
    <3>1. CASE ElseIf
      <4> DEFINE t == MayTake /\ Holds(line)
      <4>1. blocks' = Append(Front(blocks), Branch(t)) /\ line.word = "elseif"
        BY <1>5, <3>1 DEF ElseIf, SetLast, Chooses
      <4>2. t \in BOOLEAN
        OBVIOUS
      <4>3. t <=> MayTake /\ IsTrue(K, at)
        BY <1>1, <4>1
      <4> HIDE DEF t
      <4> QED
        BY <4>1, <4>2, <4>3
    <3>2. CASE Else
      <4> DEFINE t == MayTake
      <4>1. blocks' = Append(Front(blocks), Branch(t)) /\ line.word = "else"
        BY <1>5, <3>2 DEF Else, SetLast, Chooses
      <4>2. t \in BOOLEAN
        BY DEF MayTake
      <4>3. t <=> MayTake /\ IsTrue(K, at)
        BY <1>1, <4>1
      <4> HIDE DEF t
      <4> QED
        BY <4>1, <4>2, <4>3
    <3> QED
      BY <1>5, <3>1, <3>2
  <2>2. PICK t \in BOOLEAN :
           /\ t <=> MayTake /\ IsTrue(K, at)
           /\ blocks' = Append(Front(blocks), Branch(t))
    BY <2>1
  <2> DEFINE a == Last(blocks).any \/ t
  <2>3. Branch(t) = [taken |-> t, any |-> a]
    BY DEF Branch
  <2>4. a \in BOOLEAN
    OBVIOUS
  <2>5. a <=> Last(blocks).any \/ t
    OBVIOUS
  <2>6. t <=> ~ Last(blocks).any /\ AllTaken(Front(blocks)) /\ IsTrue(K, at)
    BY <1>5, <2>2 DEF MayTake
  <2>7. line.word \in {"elseif", "else"} /\ kept' = kept /\ params' = params
    BY <1>5 DEF ElseIf, Else, Chooses
  <2> HIDE DEF a
  <2>8. Nested(K, Append(Front(blocks), [taken |-> t, any |-> a]), params, at + 1)
    BY <1>5, <2>4, <2>5, <2>6, <2>7, NestedHead
  <2> QED
    BY <2>2, <2>3, <2>7, <2>8
<1>6. CASE (ElseIf \/ Else \/ EndIf) /\ blocks = <<>>
  <2>1. /\ line.word \in {"elseif", "else", "endif"} /\ kept' = kept /\ params' = params
        /\ blocks' = <<>>
    BY <1>6 DEF ElseIf, Else, EndIf, SetLast, Chooses
  <2>2. Nested(K, <<>>, params, at + 1)
    BY <1>6, <2>1, NestedStray
  <2> QED
    BY <2>1, <2>2
<1>7. CASE EndIf /\ blocks # <<>>
  <2>1. /\ line.word = "endif" /\ kept' = kept /\ params' = params
        /\ blocks' = Front(blocks)
    BY <1>7 DEF EndIf, Chooses
  <2>2. Nested(K, Front(blocks), params, at + 1)
    BY <1>7, <2>1, NestedEndif
  <2> QED
    BY <2>1, <2>2
<1>8. CASE KeepLine
  <2>1. /\ line.word \in Ordinary /\ blocks' = blocks
        /\ kept' = IF AllTaken(blocks) THEN Append(kept, at) ELSE kept
        /\ params' = IF AllTaken(blocks) /\ line.word = "param"
                     THEN With(params, line.name, line.value) ELSE params
    BY <1>8 DEF KeepLine, Chooses, Active
  <2>2. ToSet(kept') = IF AllTaken(blocks) THEN K \cup {at} ELSE K
    <3>1. ToSet(Append(kept, at)) = K \cup {at}
      BY ToSetAppend
    <3> QED
      BY <2>1, <3>1
  <2>3. Nested(ToSet(kept'), blocks, params', at + 1)
    BY <2>1, <2>2, NestedLine
  <2> QED
    BY <2>1, <2>3
<1> QED
  BY <1>4, <1>5, <1>6, <1>7, <1>8

\* What is said of the next values is said of the variables in the next state.
LEMMA NestedNow ==
    \A c, b, v, j : c = ToSet(kept') /\ b = blocks' /\ v = params' /\ j = at'
                    /\ Nested(c, b, v, j)' => Nested(ToSet(kept), blocks, params, at)'
<1> SUFFICES ASSUME NEW c, NEW b, NEW v, NEW j,
                    c = ToSet(kept'), b = blocks', v = params', j = at', Nested(c, b, v, j)'
             PROVE  Nested(ToSet(kept), blocks, params, at)'
  OBVIOUS
<1>1. j \in Nat \ {0} /\ c \subseteq 1..j - 1
  BY DEF Nested
<1>2. Remembered(ToSet(kept), params)'
  <2>1. Remembered(c, v)'
    BY DEF Nested
  <2> QED
    BY <2>1 DEF Remembered
<1>3. ChosenTo(ToSet(kept), at)'
  <2>1. ChosenTo(c, j)'
    BY DEF Nested
  <2> QED
    BY <2>1 DEF ChosenTo
<1>4. (\E open : Stack(open, at) /\ Told(ToSet(kept), blocks, open, at))'
  <2>1. PICK open : Stack(open, j)' /\ Told(c, b, open, j)'
    BY DEF Nested
  <2>2. Stack(open, at)'
    BY <2>1 DEF Stack
  <2>3. Told(ToSet(kept), blocks, open, at)'
    BY <2>1 DEF Told
  <2> QED
    BY <2>2, <2>3
<1> QED
  BY <1>1, <1>2, <1>3, <1>4 DEF Nested

LEMMA ParserInit == ASSUME ParseInit PROVE ParserOK
<1>1. LinesOK /\ ForksOK
  BY LinesInit, ForksInit
<1>2. phase = "join" /\ blocks = <<>> /\ params = <<>>
  BY DEF ParseInit
<1>3. BlocksOK
  BY <1>2 DEF BlocksOK
<1> QED
  BY <1>1, <1>3 DEF ParserOK

LEMMA ParserStep == ASSUME ParserOK, [ParseNext]_(parserVars) PROVE ParserOK'
<1>1. LinesOK' /\ ForksOK'
  BY LinesStep, ForksStep DEF ParserOK
<1> SUFFICES BlocksOK'
  BY <1>1 DEF ParserOK
<1>2. BlocksOK
  BY DEF ParserOK
<1>3. CASE PassControl \/ SkipBlank \/ GlueBackslash \/ Bare \/ GluePlus \/ Comment \/ StartLine
  <2>1. phase = "join" /\ phase' = "join" /\ UNCHANGED <<blocks, params>>
    BY <1>3 DEF PassControl, SkipBlank, GlueBackslash, Bare, GluePlus, Comment,
       StartLine, Outside, Joins, JoinStep, chooseVars
  <2> QED
    BY <1>2, <2>1 DEF BlocksOK
<1>4. CASE EndJoin
  <2>1. /\ phase = "join" /\ phase' = "choose" /\ at' = 1
        /\ UNCHANGED <<kept, blocks, params, logical, source>>
    BY <1>4 DEF EndJoin, chooseVars, joinVars
  <2>2. blocks = <<>> /\ params = <<>> /\ kept = <<>>
    BY <1>2, <2>1 DEF BlocksOK, ParserOK, ForksOK
  <2>3. ToSet(kept') = {}
    BY <2>1, <2>2 DEF ToSet
  <2>4. Nested({}, <<>>, <<>>, 1)'
    BY <2>1, NestedStart, SameText
  <2> QED
    BY <2>1, <2>2, <2>3, <2>4 DEF BlocksOK
<1>5. CASE OpenBlock \/ ElseIf \/ Else \/ EndIf \/ KeepLine
  <2>1. /\ phase = "choose" /\ phase' = "choose" /\ at' = at + 1
        /\ UNCHANGED <<logical, source>>
    BY <1>5 DEF OpenBlock, ElseIf, Else, EndIf, KeepLine, Chooses, ChooseStep, joinVars
  <2>2. kept \in Seq(Nat \ {0})
    BY <2>1 DEF ParserOK, ForksOK, Keeping
  <2>3. Nested(ToSet(kept), blocks, params, at)
    BY <1>2, <2>1 DEF BlocksOK
  <2>4. Nested(ToSet(kept'), blocks', params', at + 1)
    BY <1>5, <2>2, <2>3, ChooseKeeps
  <2>5. \A c, b, v, j : Nested(c, b, v, j) => Nested(c, b, v, j)'
    BY <2>1, SameText
  <2>6. Nested(ToSet(kept), blocks, params, at)'
    BY <2>1, <2>4, <2>5, NestedNow
  <2> QED
    BY <2>1, <2>6 DEF BlocksOK
<1>6. CASE EndChoose
  <2>1. /\ phase = "choose" /\ phase' = "parse" /\ at > Len(logical)
        /\ UNCHANGED <<kept, logical, source>>
    BY <1>6 DEF EndChoose, chooseVars, joinVars
  <2>2. Nested(ToSet(kept), blocks, params, at)
    BY <1>2, <2>1 DEF BlocksOK
  <2>3. ChosenTo(ToSet(kept), at) /\ at \in Nat \ {0}
    BY <2>2 DEF Nested
  <2>4. Len(logical) \in Nat
    BY PieceTypes DEF ParserOK, LinesOK
  <2>5. \A n \in 1..((Len(logical) + 1) - 1) : n \in 1..(at - 1)
    BY <2>1, <2>3, <2>4
  <2>6. ChosenTo(ToSet(kept), Len(logical) + 1)
    BY <2>3, <2>5 DEF ChosenTo
  <2>7. ChosenTo(ToSet(kept), Len(logical) + 1)'
    <3>1. \A c, j : ChosenTo(c, j) => ChosenTo(c, j)'
      BY <2>1, SameText
    <3>2. \A c, j : c = ToSet(kept') /\ j = Len(logical') + 1 /\ ChosenTo(c, j)'
                    => ChosenTo(ToSet(kept), Len(logical) + 1)'
      BY DEF ChosenTo
    <3>3. ToSet(kept') = ToSet(kept)
      BY <2>1
    <3> QED
      BY <2>1, <2>6, <3>1, <3>2, <3>3
  <2> QED
    BY <2>1, <2>7 DEF BlocksOK
<1>7. CASE AddItem \/ AddToBody \/ Fork \/ RefuseEmpty \/ Finish \/ UNCHANGED parserVars
  <2>1. /\ UNCHANGED <<source, logical, kept, blocks, params>>
        /\ \/ phase = "parse" /\ phase' \notin {"join", "choose"}
           \/ phase' = phase /\ at' = at
    BY <1>7 DEF AddItem, AddToBody, Fork, RefuseEmpty, Finish, Parses, ParseStep,
       parserVars, joinVars, chooseVars
  <2>2. ToSet(kept') = ToSet(kept)
    BY <2>1
  <2>3. ChosenTo(ToSet(kept), Len(logical) + 1) => ChosenTo(ToSet(kept), Len(logical) + 1)'
    <3>1. \A c, j : ChosenTo(c, j) => ChosenTo(c, j)'
      BY <2>1, SameText
    <3>2. \A c, j : c = ToSet(kept') /\ j = Len(logical') + 1 /\ ChosenTo(c, j)'
                    => ChosenTo(ToSet(kept), Len(logical) + 1)'
      BY DEF ChosenTo
    <3> QED
      BY <2>1, <2>2, <3>1, <3>2
  <2>4. CASE phase = "parse" /\ phase' \notin {"join", "choose"}
    BY <1>2, <2>3, <2>4 DEF BlocksOK
  <2>5. CASE phase' = phase /\ at' = at
    <3>1. Nested(ToSet(kept), blocks, params, at) => Nested(ToSet(kept), blocks, params, at)'
      <4>1. \A c, b, v, j : Nested(c, b, v, j) => Nested(c, b, v, j)'
        BY <2>1, SameText
      <4> QED
        BY <2>1, <2>2, <2>5, <4>1, NestedNow
    <3> QED
      BY <1>2, <2>1, <2>3, <2>5, <3>1 DEF BlocksOK
  <2> QED
    BY <2>1, <2>4, <2>5
<1> QED
  BY <1>3, <1>4, <1>5, <1>6, <1>7 DEF ParseNext

\* A line is kept exactly when every block of conditions around it has chosen its branch,
\* however blocks are nested, skipped or left open, for all files (process_conditionals).
THEOREM LinesStayChosen == ParseSpec => []KeptAsNested
<1>1. ParseInit => ParserOK
  BY ParserInit
<1>2. ParserOK /\ [ParseNext]_(parserVars) => ParserOK'
  BY ParserStep
<1>3. ParserOK => KeptAsNested
  <2> SUFFICES ASSUME ParserOK, phase # "join" PROVE KeptAsNested
    BY DEF KeptAsNested
  <2>1. CASE phase = "choose"
    <3>1. ChosenTo(ToSet(kept), at)
      BY <2>1 DEF ParserOK, BlocksOK, Nested
    <3> QED
      BY <2>1, <3>1 DEF KeptAsNested, ChosenTo
  <2>2. CASE phase # "choose"
    <3>1. ChosenTo(ToSet(kept), Len(logical) + 1)
      BY <2>2 DEF ParserOK, BlocksOK
    <3>2. Len(logical) \in Nat
      BY PieceTypes DEF ParserOK, LinesOK
    <3>3. (Len(logical) + 1) - 1 = Len(logical)
      BY <3>2
    <3> QED
      BY <2>2, <3>1, <3>3 DEF KeptAsNested, ChosenTo
  <2> QED
    BY <2>1, <2>2
<1> QED
  BY <1>1, <1>2, <1>3, PTL DEF ParseSpec
=============================================================================
