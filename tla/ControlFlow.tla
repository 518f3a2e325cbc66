---------------------------- MODULE ControlFlow ----------------------------
(***************************************************************************)
(* How thevenin-control/src/exec.rs walks a script: execute and            *)
(* execute_one call each other, so the call stack is the state.  A frame   *)
(* is one call of execute with the loop or `source` that made it.  What a  *)
(* plain statement does is ControlSession's subject; here it succeeds or   *)
(* fails.  Conditions are nondeterministic.                                *)
(***************************************************************************)
EXTENDS Integers, Sequences, SequencesExt

CONSTANTS Programs,      \* the scripts: [blocks : Seq(Seq(Stmt)), files : [name -> Seq(Stmt)]]
          MaxLoopIters   \* MAX_LOOP_ITERS

ASSUME FlowAssumption == MaxLoopIters \in Nat \ {0}

VARIABLES program,   \* the program being run
          block,     \* how many of its code blocks were started
          stack,     \* the calls of execute, innermost last
          sourcing,  \* SimContext.sourcing
          exit,      \* SimContext.exit_code is Some
          failure    \* "none", or what returned Err: "statement", "loop", "source"

vars == <<program, block, stack, sourcing, exit, failure>>

\* Frames: rest is what execute has still to run; started counts the runs of
\* body, left the values or the count still to go.
Frame(kind, rest) ==
    [kind |-> kind, rest |-> rest, body |-> <<>>, started |-> 0, left |-> 0, file |-> ""]
Loop(kind, body, left) == [Frame(kind, <<>>) EXCEPT !.body = body, !.left = left]
Script(file, text) == [Frame("source", text) EXCEPT !.file = file]

Top == Last(stack)
Below == Front(stack)
Replace(frame) == Append(Below, frame)
Push(frame) == Append(Replace([Top EXCEPT !.rest = Tail(@)]), frame)
Step == Replace([Top EXCEPT !.rest = Tail(@)])
OpenFiles == {stack[i].file : i \in {j \in DOMAIN stack : stack[j].kind = "source"}}

Init ==
    /\ program \in Programs
    /\ block = 0
    /\ stack = <<>>
    /\ sourcing = {}
    /\ exit = FALSE
    /\ failure = "none"

\* execute_code_blocks_ir takes the next block unless exit_code is set.
StartBlock ==
    /\ stack = <<>> /\ ~ exit /\ failure = "none"
    /\ block < Len(program.blocks)
    /\ block' = block + 1
    /\ stack' = <<Frame("block", program.blocks[block + 1])>>
    /\ UNCHANGED <<program, sourcing, exit, failure>>

Proceeding == stack # <<>> /\ ~ exit /\ failure = "none"

\* execute_one gets the next statement.
At(op) == Proceeding /\ Top.rest # <<>> /\ Head(Top.rest).op = op
Stmt == Head(Top.rest)
Fail(what) == failure' = what /\ UNCHANGED <<program, block, stack, sourcing, exit>>

Plain ==
    /\ At("plain")
    /\ stack' = Step
    /\ UNCHANGED <<program, block, sourcing, exit, failure>>

\* A statement, a condition or a count that cannot be evaluated.
StatementFails ==
    /\ \E op \in {"plain", "if", "repeat"} : At(op)
    /\ Fail("statement")

Quit ==
    /\ At("quit")
    /\ stack' = Step
    /\ exit' = TRUE
    /\ UNCHANGED <<program, block, sourcing, failure>>

If ==
    /\ At("if")
    /\ \E branch \in {Stmt.body, Stmt.other} : stack' = Push(Frame("block", branch))
    /\ UNCHANGED <<program, block, sourcing, exit, failure>>

Foreach ==
    /\ At("foreach")
    /\ stack' = Push(Loop("counted", Stmt.body, Stmt.n))
    /\ UNCHANGED <<program, block, sourcing, exit, failure>>

While ==
    /\ At("while")
    /\ stack' = Push(Loop("while", Stmt.body, 0))
    /\ UNCHANGED <<program, block, sourcing, exit, failure>>

TooMany(n) == n > MaxLoopIters

Repeat ==
    /\ At("repeat")
    /\ IF TooMany(Stmt.n)
       THEN Fail("loop")
       ELSE /\ stack' = Push(Loop("counted", Stmt.body, Stmt.n))
            /\ UNCHANGED <<program, block, sourcing, exit, failure>>

\* ctx.sourcing.contains(&resolved)
Refused(f) == f \in sourcing

\* execute_source: refused, unreadable, or run in the same context.
Source ==
    /\ At("source")
    /\ IF Refused(Stmt.file) \/ Stmt.file \notin DOMAIN program.files
       THEN Fail("source")
       ELSE /\ stack' = Push(Script(Stmt.file, program.files[Stmt.file]))
            /\ sourcing' = sourcing \cup {Stmt.file}
            /\ UNCHANGED <<program, block, exit, failure>>

\* (mutant: `?` on the sub-script's result, before the removal)
Closed_OnlyOnOk == IF failure # "none" THEN sourcing ELSE sourcing \ {Top.file}

\* execute_source removes the path whatever the sub-script returned.
Closed == sourcing \ {Top.file}

\* The innermost execute returns to its caller.
Return ==
    /\ stack' = Below
    /\ sourcing' = IF Top.kind = "source" THEN Closed ELSE sourcing
    /\ UNCHANGED <<program, block, exit, failure>>

\* The statements of a block, a branch or a sourced script are done.
EndOfList ==
    /\ Proceeding /\ Top.rest = <<>> /\ Top.kind \in {"block", "source"}
    /\ Return

More(frame) == frame.left > 0

\* foreach and repeat: once more, or out.
NextCount ==
    /\ Proceeding /\ Top.rest = <<>> /\ Top.kind = "counted"
    /\ IF More(Top)
       THEN /\ stack' = Replace([Top EXCEPT !.rest = Top.body, !.left = @ - 1,
                                            !.started = @ + 1])
            /\ UNCHANGED <<program, block, sourcing, exit, failure>>
       ELSE Return

\* (mutant: iters is not incremented)
Counted_Not(frame) == [frame EXCEPT !.rest = frame.body]

\* iters >= MAX_LOOP_ITERS, tested after every run of the body.
AtCap(frame) == frame.started >= MaxLoopIters

Counted(frame) == [frame EXCEPT !.rest = frame.body, !.started = @ + 1]

\* while: after a run of the body the cap comes first, then the condition.
NextTest ==
    /\ Proceeding /\ Top.rest = <<>> /\ Top.kind = "while"
    /\ IF AtCap(Top)
       THEN Fail("loop")
       ELSE \/ /\ stack' = Replace(Counted(Top))
               /\ UNCHANGED <<program, block, sourcing, exit, failure>>
            \/ Return
            \/ Fail("statement")

\* (mutant: the while cap is tested before exit_code)
OnExit_CapFirst ==
    IF failure = "none" /\ Top.kind = "while" /\ AtCap(Top)
    THEN Fail("loop")
    ELSE Return

\* Every execute and every loop looks at exit_code first and returns Ok.
OnExit == Return

\* An error or an exit code: every call returns to its caller.
Unwind ==
    /\ stack # <<>>
    /\ \/ exit /\ OnExit
       \/ ~ exit /\ failure # "none" /\ Return

Next ==
    \/ StartBlock
    \/ Plain \/ StatementFails \/ Quit \/ If \/ Foreach \/ While \/ Repeat \/ Source
    \/ EndOfList \/ NextCount \/ NextTest
    \/ Unwind

Spec == Init /\ [][Next]_vars

\* The interpreter is one thread that runs to the end.
FairSpec == Spec /\ WF_vars(Next)

-----------------------------------------------------------------------------
Finished ==
    /\ stack = <<>>
    /\ exit \/ failure # "none" \/ block = Len(program.blocks)

TypeOK ==
    /\ program \in Programs
    /\ block \in 0..Len(program.blocks)
    /\ \A i \in DOMAIN stack :
          /\ stack[i].kind \in {"block", "source", "counted", "while"}
          /\ stack[i].started \in Nat
          /\ stack[i].left \in Nat
    /\ exit \in BOOLEAN
    /\ failure \in {"none", "statement", "loop", "source"}

\* The recursion guard knows exactly the scripts that are open, on every path out
\* of execute_source, so that a script can be sourced again once it has returned
\* and only then.
SourcingIsOpen == sourcing = OpenFiles

\* No script is open twice: `source` cannot recurse.
NoReentry ==
    \A i, j \in DOMAIN stack :
        /\ stack[i].kind = "source" /\ stack[j].kind = "source"
        /\ stack[i].file = stack[j].file
        => i = j

GuardIsExact == SourcingIsOpen /\ NoReentry

\* `quit` ends the script without an error from wherever it is called, the last
\* allowed iteration of a loop included.
QuitNeverFails == exit => failure = "none"

\* Every script ends: no loop and no chain of `source` goes on for ever.
EveryScriptEnds == <>Finished
=============================================================================
