---------------------------- MODULE LibExpansion ----------------------------
(***************************************************************************)
(* process_libs of thevenin/src/libproc.rs: every `.lib file section` of a *)
(* netlist is replaced by the items of that section, which may have such   *)
(* lines themselves.  The recursion of process_items is the stack.         *)
(***************************************************************************)
EXTENDS Integers, Sequences, FiniteSets, SpiceText

CONSTANTS Projects,     \* [root : Seq(Line), files : [path -> Seq(Line)]]
          MaxDepth      \* calls deeper than this return at once (20 in the code)

VARIABLES project,
          calls,        \* the calls of process_items, innermost last
          error         \* "" or the LibError that ended the work

vars == <<project, calls, error>>

\* A call works on items, at index i; a section's items are spliced into those of
\* the caller when it returns, a subcircuit's replace its body.
Process(for, items, dir) == [for |-> for, items |-> items, i |-> 1, dir |-> dir]

Top == Last(calls)
Replace(call) == Append(Front(calls), call)
Depth == Len(calls) - 1
Item == Top.items[Top.i]

Init ==
    /\ project \in Projects
    /\ calls = <<Process("netlist", Parsed(project.root), <<>>)>>
    /\ error = ""

\* The loop is over, or the call is too deep to begin.
Returns == Depth > MaxDepth \/ Top.i > Len(Top.items)

Working == error = "" /\ ~ Returns

Path == File(Top.dir \o Item.path)
Text == LibSection(project.files[Path], Item.name)

\* A library that cannot be read or has no such section ends the work.
Fail ==
    /\ Working /\ Item.op = "lib"
    /\ \/ Path \notin DOMAIN project.files /\ error' = "file"
       \/ Path \in DOMAIN project.files /\ Text = <<>> /\ error' = "section"
    /\ UNCHANGED <<project, calls>>

\* The section's items are processed in the directory of their file.
EnterSection ==
    /\ Working /\ Item.op = "lib" /\ Path \in DOMAIN project.files /\ Text # <<>>
    /\ calls' = Append(calls, Process("section", Parsed(Text), Front(Path)))
    /\ UNCHANGED <<project, error>>

EnterSubckt ==
    /\ Working /\ Item.op = "subckt"
    /\ calls' = Append(calls, Process("subckt", Item.body, Top.dir))
    /\ UNCHANGED <<project, error>>

KeepItem ==
    /\ Working /\ Item.op \notin {"lib", "subckt"}
    /\ calls' = Replace([Top EXCEPT !.i = @ + 1])
    /\ UNCHANGED <<project, error>>

\* (mutant: the items after the .lib line are lost)
Spliced_Tail(call, items) == SubSeq(call.items, 1, call.i - 1) \o items

\* The items of the section in place of the .lib line.
Spliced(call, items) ==
    SubSeq(call.items, 1, call.i - 1) \o items \o SubSeq(call.items, call.i + 1, Len(call.items))

\* "Don't increment i": the spliced items are looked at once more.
Return ==
    /\ Len(calls) > 1 /\ error = "" /\ Returns
    /\ LET caller == calls[Len(calls) - 1]
       IN  calls' = Append(Front(Front(calls)),
               IF Top.for = "section"
               THEN [caller EXCEPT !.items = Spliced(caller, Top.items)]
               ELSE [caller EXCEPT !.items = [@ EXCEPT ![caller.i].body = Top.items],
                                   !.i = @ + 1])
    /\ UNCHANGED <<project, error>>

Expand == Fail \/ EnterSection \/ EnterSubckt \/ KeepItem \/ Return

Next == Expand

Spec == Init /\ [][Next]_vars

\* process_libs is one thread that runs until it returns.
FairSpec == Spec /\ WF_vars(Next)

-----------------------------------------------------------------------------
Finished == error # "" \/ (Len(calls) = 1 /\ Returns)
Output == calls[1].items

\* The reference: the text of every .lib line in its place, n levels deep.
Keys == UNION {{<<f, s>> : s \in SectionNames(project.files[f])} : f \in DOMAIN project.files}
Substituted(lines, dir, TextOf(_)) ==
    FlattenSeq([j \in DOMAIN lines |->
        IF lines[j].op # "lib" THEN <<lines[j]>>
        ELSE IF <<File(dir \o lines[j].path), lines[j].name>> \notin Keys THEN <<>>
        ELSE TextOf(<<File(dir \o lines[j].path), lines[j].name>>)])
Text_[n \in 0..Cardinality(Keys), k \in Keys] ==
    IF n = 0 THEN <<>>
    ELSE Substituted(LibSection(project.files[k[1]], k[2]), Front(k[1]), LAMBDA c : Text_[n - 1, c])

\* Without cycles the result is the netlist with the text of every library section
\* in its place, at every depth and inside subcircuits, also where MaxDepth cut a
\* call short.  What was cut is looked at in the caller's directory: the .lib lines
\* of Projects lead to no other file from there.
SplicedInPlace ==
    Finished /\ error = "" =>
        Output = Parsed(Substituted(project.root, <<>>, LAMBDA c : Text_[Cardinality(Keys), c]))

ExpansionEnds == <>Finished

-----------------------------------------------------------------------------
\* libproc.rs: the depth limit is there to "prevent infinite recursion".
LibsEnd == ExpansionEnds
=============================================================================
