-------------------------- MODULE ImportResolution --------------------------
(***************************************************************************)
(* How cirq-frontend/src/resolve.rs replaces the imports of a source file  *)
(* by the declarations of the files they name.  The recursion of           *)
(* resolve_items is the stack; a frame is one call, with the import that   *)
(* made it.                                                                *)
(*                                                                         *)
(* A path is a sequence of names.  A plain import has no names and merges  *)
(* the bare declarations of a file; a named one merges the contents of the *)
(* exports it names.                                                       *)
(***************************************************************************)
EXTENDS Integers, Sequences, FiniteSets, SequencesExt

CONSTANTS Projects,     \* [root : Seq(Item), files : [path -> [state, items]]]
          SearchPaths   \* the directories tried after the importing file's own

VARIABLES project,      \* the files on disk
          stack,        \* the calls of resolve_items, innermost last
          visited,      \* visited: files imported so far
          inProgress,   \* in_progress: files being resolved
          diags         \* the kinds of error reported

vars == <<project, stack, visited, inProgress, diags>>

\* todo is what the call has still to look at, result what it returns.
Frame(file, names, items) ==
    [file |-> file, names |-> names, todo |-> items, result |-> <<>>]

Top == Last(stack)
Item == Head(Top.todo)
Replace(frame) == Append(Front(stack), frame)
Report(kind) == diags' = diags \cup {kind}

\* The directory paths are relative to: the importing file's.
Dir(file) == IF file = <<>> THEN <<>> ELSE Front(file)

\* resolve_path
Candidates == <<Dir(Top.file)>> \o SearchPaths
Found == {k \in DOMAIN Candidates : Candidates[k] \o Item.path \in DOMAIN project.files}
Target ==
    Candidates[CHOOSE k \in Found : \A j \in Found : k <= j] \o Item.path
Source == project.files[Target]

Init ==
    /\ project \in Projects
    /\ stack = <<Frame(<<>>, {}, project.root)>>
    /\ visited = {}
    /\ inProgress = {}
    /\ diags = {}

-----------------------------------------------------------------------------
Reads == stack # <<>> /\ Top.todo # <<>>
Imports == Reads /\ Item.op = "import"
Passed == [Top EXCEPT !.todo = Tail(@)]

\* A declaration, bare or in an export, is kept for the caller to choose from.
Keep ==
    /\ Reads /\ Item.op # "import"
    /\ stack' = Replace([Passed EXCEPT !.result = Append(@, Item)])
    /\ UNCHANGED <<project, visited, inProgress, diags>>

NotFound ==
    /\ Imports /\ Found = {}
    /\ stack' = Replace(Passed)
    /\ Report("missing")
    /\ UNCHANGED <<project, visited, inProgress>>

\* (mutant: plain imports are looked up among the visited files first)
IsCircular_AfterVisited ==
    Target \in inProgress /\ ~ (Item.names = {} /\ Target \in visited)

\* The cycle guard is for every import.
IsCircular == Target \in inProgress

Circular ==
    /\ Imports /\ Found # {} /\ IsCircular
    /\ stack' = Replace(Passed)
    /\ Report("circular")
    /\ UNCHANGED <<project, visited, inProgress>>

\* (mutant: only a file that is still open counts)
IsMerged_Open == Item.names = {} /\ Target \in inProgress

\* Diamond dedup: a plain import of a file already imported, in either way.
IsMerged == Item.names = {} /\ Target \in visited

SkipMerged ==
    /\ Imports /\ Found # {} /\ ~ IsCircular /\ IsMerged
    /\ stack' = Replace(Passed)
    /\ UNCHANGED <<project, visited, inProgress, diags>>

Visits == Imports /\ Found # {} /\ ~ IsCircular /\ ~ IsMerged

Unreadable ==
    /\ Visits /\ Source.state = "unreadable"
    /\ visited' = visited \cup {Target}
    /\ stack' = Replace(Passed)
    /\ Report("unreadable")
    /\ UNCHANGED <<project, inProgress>>

\* No tree: the call returns nothing, and a named import misses its names.
Unparsable ==
    /\ Visits /\ Source.state = "unparsable"
    /\ visited' = visited \cup {Target}
    /\ stack' = Replace(Passed)
    /\ diags' = diags \cup {"parse"} \cup (IF Item.names = {} THEN {} ELSE {"export"})
    /\ UNCHANGED <<project, inProgress>>

\* parse_and_resolve: errors in the file are collected, and its imports resolved.
Open ==
    /\ Visits /\ Source.state \in {"clean", "faulty"}
    /\ visited' = visited \cup {Target}
    /\ inProgress' = inProgress \cup {Target}
    /\ stack' = Append(Replace(Passed), Frame(Target, Item.names, Source.items))
    /\ diags' = diags \cup (IF Source.state = "faulty" THEN {"syntax"} ELSE {})
    /\ UNCHANGED project

\* parse_and_extract keeps what is bare, parse_and_extract_named the contents of the
\* exports asked for.
Part(names, item) ==
    IF names = {} THEN IF item.op = "export" THEN <<>> ELSE <<item>>
    ELSE IF item.op = "export" /\ item.name \in names THEN item.items ELSE <<>>

Extracted(frame) ==
    FlattenSeq([i \in DOMAIN frame.result |-> Part(frame.names, frame.result[i])])

ExportNames(frame) ==
    {frame.result[i].name : i \in {j \in DOMAIN frame.result : frame.result[j].op = "export"}}

\* (mutant: a file whose exports were not all found stays open)
Closed_IfFound(frame) ==
    IF frame.names \subseteq ExportNames(frame) THEN inProgress \ {frame.file} ELSE inProgress

\* in_progress.remove
Closed(frame) == inProgress \ {frame.file}

\* The call returns and the importing file goes on with what it extracts.
Close ==
    /\ Len(stack) > 1 /\ Top.todo = <<>>
    /\ LET caller == stack[Len(stack) - 1]
       IN  stack' = Append(Front(Front(stack)),
                           [caller EXCEPT !.result = @ \o Extracted(Top)])
    /\ inProgress' = Closed(Top)
    /\ diags' = diags \cup (IF Top.names \subseteq ExportNames(Top) THEN {} ELSE {"export"})
    /\ UNCHANGED <<project, visited>>

Resolve == Keep \/ NotFound \/ Circular \/ SkipMerged \/ Unreadable \/ Unparsable \/ Open \/ Close

Next == Resolve

Spec == Init /\ [][Next]_vars

\* resolve_imports is one thread that runs to its end.
FairSpec == Spec /\ WF_vars(Next)

-----------------------------------------------------------------------------
Finished == Len(stack) = 1 /\ Top.todo = <<>>
Output == stack[1].result

Diagnostics == {"missing", "circular", "unreadable", "parse", "syntax", "export"}

ImportsOf(items) == {items[i] : i \in {j \in DOMAIN items : items[j].op = "import"}}
ItemsOf(file) == IF file = <<>> THEN project.root
                 ELSE IF project.files[file].state \in {"clean", "faulty"}
                 THEN project.files[file].items ELSE <<>>

\* The file an import written in `file` stands for, in a set of at most one.
Means(file, import) ==
    LET dirs == <<Dir(file)>> \o SearchPaths
        found == {k \in DOMAIN dirs : dirs[k] \o import.path \in DOMAIN project.files}
    IN  {dirs[k] \o import.path : k \in {j \in found : \A h \in found : j <= h}}

\* The files that the imports of each file stand for: as a whole, in part, and both.
Files == {<<>>} \cup DOMAIN project.files
Plain ==
    [file \in Files |-> UNION {Means(file, i) : i \in {j \in ImportsOf(ItemsOf(file)) : j.names = {}}}]
Named ==
    [file \in Files |-> UNION {Means(file, i) : i \in {j \in ImportsOf(ItemsOf(file)) : j.names # {}}}]
Imported == [file \in Files |-> Plain[file] \cup Named[file]]

\* All files reached from those of `from` when `next` has the files next to each.
Reached(from, next) ==
    LET within[n \in 0..Cardinality(DOMAIN project.files)] ==
            IF n = 0 THEN from
            ELSE within[n - 1] \cup UNION {next[f] : f \in within[n - 1]}
    IN  within[Cardinality(DOMAIN project.files)]

Merging == Reached({<<>>}, Plain)
ByName == Reached(UNION {Named[f] : f \in Merging}, Imported)
HasCycle == \E f \in Reached({<<>>}, Imported) : f \in Reached(Imported[f], Imported)

\* The contents of the exports of a file of these names.
Exported(file, names) ==
    UNION {ToSet(e.items) : e \in {x \in ToSet(ItemsOf(file)) : x.op = "export" /\ x.name \in names}}

\* The bare declarations of a file, and those its named imports ask for.
Asked(file, import) == UNION {Exported(g, import.names) : g \in Means(file, import)}
Bare(file) == {item \in ToSet(ItemsOf(file)) : item.op = "declare"}
Declared(file) ==
    Bare(file) \cup UNION {Asked(file, i) : i \in {j \in ImportsOf(ItemsOf(file)) : j.names # {}}}

\* The places of the declarations in the result.
Declarations == {i \in DOMAIN Output : Output[i].op = "declare"}
Merged == {Output[i] : i \in Declarations}
Accepted == Finished /\ diags = {}

TypeOK ==
    /\ stack # <<>>
    /\ Head(stack).file = <<>>
    /\ inProgress \subseteq visited
    /\ visited \subseteq DOMAIN project.files
    /\ diags \subseteq Diagnostics

\* The cycle guard is exact: a file is marked exactly while a call resolves it, and
\* no two calls do ("Without it, a self- or mutually-referential named import
\* re-parses the same file forever").
InProgressIsOpen ==
    /\ inProgress = {stack[i].file : i \in 2..Len(stack)}
    /\ \A i, j \in 2..Len(stack) : stack[i].file = stack[j].file => i = j

\* A cycle of imports is reported exactly when the files reached have one, whatever
\* plain and named imports make it up, although files already merged are skipped.
CyclesReported == Finished => ("circular" \in diags <=> HasCycle)

\* Where no file is imported in both ways, the result is what the imports ask for:
\* the bare declarations of all files reached by plain imports and the exports these
\* name, and no other; the bare declarations once each, over any diamond.
MergedAsWritten ==
    Accepted /\ Merging \cap ByName = {} =>
        /\ Merged = UNION {Declared(f) : f \in Merging}
        /\ \A i, j \in Declarations :
              Output[i] = Output[j] /\ Output[i] \in UNION {Bare(f) : f \in Merging} => i = j

\* Resolution ends, whatever files import each other.
ResolutionEnds == <>Finished

-----------------------------------------------------------------------------
\* 03-circuits-and-modules.md: "its top-level declarations (modules, models,
\* functions) are merged into the importing file's AST".
PlainImportsMerge ==
    Accepted => \A f \in Merging : Declared(f) \subseteq Merged
=============================================================================
