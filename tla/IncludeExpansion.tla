-------------------------- MODULE IncludeExpansion --------------------------
(***************************************************************************)
(* preprocess_includes of cirq-spice-import/src/preprocess.rs: .include    *)
(* and two-argument .lib lines are replaced by the text they name, before  *)
(* anything is parsed.  The recursion of expand_text is the stack.         *)
(*                                                                         *)
(* Section markers are dropped; the filter on the active section passes    *)
(* every line, as expand_text is only called with none active.             *)
(***************************************************************************)
EXTENDS Integers, Sequences, FiniteSets, SpiceText

CONSTANTS Projects,     \* [root : Seq(Line), files : [path -> Seq(Line)]]
          SearchDirs,   \* lib_paths, tried after the file's own directory and the source's
          MaxDepth      \* MAX_INCLUDE_DEPTH

VARIABLES project,
          texts,        \* the calls of expand_text, innermost last
          visiting,     \* the paths on the stack, as they were joined
          out,          \* the text written so far
          error         \* "" or the IncludeError that ended the work

vars == <<project, texts, visiting, out, error>>

Text(path, lines) == [path |-> path, todo |-> lines]
Input == <<"<input>">>

Top == Last(texts)
Item == Head(Top.todo)
Passed == Append(Front(texts), [Top EXCEPT !.todo = Tail(@)])

\* Paths are joined and compared by their parts: ".." stays in them.
Exists(path) == File(path) \in DOMAIN project.files
Lines(path) == project.files[File(path)]

Own == IF Top.path = Input THEN <<>> ELSE Front(Top.path)

\* resolve_path: where `path` is found first, in a set of at most one.
Resolved(dir, path) ==
    LET dirs == <<dir, <<>>>> \o SearchDirs
        found == {k \in DOMAIN dirs : Exists(dirs[k] \o path)}
    IN  {dirs[k] \o path : k \in {j \in found : \A h \in found : j <= h}}

Targets == Resolved(Own, Item.path)

\* What a line asks for: a file, or a section of it.
Part(lines, section) == IF section = "" THEN lines ELSE Block(lines, section)
IsThere(lines, section) == section = "" \/ HasBlock(lines, section)

Init ==
    /\ project \in Projects
    /\ texts = <<Text(Input, project.root)>>
    /\ visiting = {Input}
    /\ out = <<>>
    /\ error = ""

Working == error = "" /\ Top.todo # <<>>
TooDeep == Len(texts) - 1 > MaxDepth
Asks == Working /\ ~ TooDeep /\ Item.op \in {"include", "lib"}

\* expand_text's first test.
FailDepth ==
    /\ error = "" /\ TooDeep
    /\ error' = "depth"
    /\ UNCHANGED <<project, texts, visiting, out>>

\* The errors of one line, in the order they are looked for.
FailLine ==
    /\ Asks
    /\ \/ Targets = {} /\ error' = "file"
       \/ \E target \in Targets :
            \/ target \in visiting /\ error' = "circular"
            \/ target \notin visiting /\ ~ IsThere(Lines(target), Item.name) /\ error' = "section"
    /\ UNCHANGED <<project, texts, visiting, out>>

EnterText ==
    /\ Asks
    /\ \E target \in Targets :
          /\ target \notin visiting /\ IsThere(Lines(target), Item.name)
          /\ visiting' = visiting \cup {target}
          /\ texts' = Append(Passed, Text(target, Part(Lines(target), Item.name)))
    /\ UNCHANGED <<project, out, error>>

DropMarker ==
    /\ Working /\ ~ TooDeep /\ Item.op \in {"section", "endl"}
    /\ texts' = Passed
    /\ UNCHANGED <<project, visiting, out, error>>

EmitLine ==
    /\ Working /\ ~ TooDeep /\ Item.op \notin {"include", "lib", "section", "endl"}
    /\ out' = Append(out, Item)
    /\ texts' = Passed
    /\ UNCHANGED <<project, visiting, error>>

\* (mutant: the file stays marked)
Left_Not(path) == visiting

\* visiting.remove
Left(path) == visiting \ {path}

LeaveText ==
    /\ error = "" /\ ~ TooDeep /\ Top.todo = <<>> /\ Len(texts) > 1
    /\ texts' = Front(texts)
    /\ visiting' = Left(Top.path)
    /\ UNCHANGED <<project, out, error>>

Expand == FailDepth \/ FailLine \/ EnterText \/ DropMarker \/ EmitLine \/ LeaveText

Next == Expand

Spec == Init /\ [][Next]_vars

\* preprocess_includes is one thread that runs until it returns.
FairSpec == Spec /\ WF_vars(Next)

-----------------------------------------------------------------------------
Finished == error # "" \/ (Len(texts) = 1 /\ Top.todo = <<>>)
Output == out

\* The guard is exact: a path is marked while a call works on its text, and no two
\* calls work on the same path.
VisitingIsOpen ==
    /\ visiting = {texts[i].path : i \in DOMAIN texts}
    /\ \A i, j \in DOMAIN texts : texts[i].path = texts[j].path => i = j

TypeOK ==
    /\ Len(texts) \in 1..MaxDepth + 2
    /\ \A i \in 2..Len(texts) : Exists(texts[i].path)
    /\ error \in {"", "depth", "file", "circular", "section"}

\* The reference: the text of every file or section in the place it is asked for, n
\* levels deep, without the markers.
Keys == UNION {{<<f, s>> : s \in {""} \cup SectionNames(project.files[f])} : f \in DOMAIN project.files}
Named(dir, line) ==
    Keys \cap {<<File(path), line.name>> : path \in Resolved(dir, line.path)}
StandsFor(line, dir, text) ==
    IF line.op \in {"section", "endl"} THEN <<>>
    ELSE IF line.op \notin {"include", "lib"} THEN <<line>>
    ELSE IF Named(dir, line) = {} THEN <<>>
    ELSE text[CHOOSE k \in Named(dir, line) : TRUE]
Substituted(lines, dir, text) ==
    FlattenSeq([j \in DOMAIN lines |-> StandsFor(lines[j], dir, text)])
Source(key) ==
    LET lines == project.files[key[1]]
    IN  IF IsThere(lines, key[2]) THEN Part(lines, key[2]) ELSE <<>>
TextOf[n \in 0..MaxDepth] ==
    [k \in Keys |-> IF n = 0 THEN <<>> ELSE Substituted(Source(k), Front(k[1]), TextOf[n - 1])]

\* Without an error the output is the source with every include in its place: no
\* file left out because it was read before, none twice.
IncludedInPlace ==
    Finished /\ error = "" =>
        Output = Substituted(project.root, <<>>, TextOf[MaxDepth])

\* An error is reported for a cycle, never an endless expansion; a path that winds
\* through ".." is caught by the depth limit.
ExpansionEnds == <>Finished
=============================================================================
