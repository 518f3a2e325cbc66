---------------------------- MODULE CirqFrontEnd ----------------------------
(***************************************************************************)
(* compile_file_with_languages of cirq-frontend/src/lib.rs: the imports of *)
(* a file are resolved (ImportResolution), and what they leave is lowered  *)
(* to a flat circuit (Elaboration) unless resolving reported an error.     *)
(***************************************************************************)
EXTENDS Integers, Sequences, FiniteSets, SequencesExt

CONSTANTS Projects, SearchPaths, Literals, False

ASSUME LiteralAssumption == False \in Literals

\* A file has a name, and a disk finitely many files.
ASSUME ProjectsAssumption ==
    \A p \in Projects : IsFiniteSet(DOMAIN p.files) /\ <<>> \notin DOMAIN p.files

\* Directories are sequences of names.
ASSUME SearchPathsAssumption == SearchPaths \in Seq(Seq(STRING))

VARIABLES project, calls, visited, inProgress, importDiags,
          moduleDefs, stack, instStack, netRemap, params, overrides, globals, models,
          elements, diags,
          result          \* "" while compiling, then what compile_file returns

Imports == INSTANCE ImportResolution WITH stack <- calls, diags <- importDiags
Lowering == INSTANCE Elaboration WITH Sources <- {}

importVars == <<project, calls, visited, inProgress, importDiags>>
loweringVars == <<moduleDefs, stack, instStack, netRemap, params, overrides, globals, models,
                  elements, diags>>
vars == <<importVars, loweringVars, result>>

Init == Imports!Init /\ Lowering!Init /\ result = ""

ResolveImports ==
    /\ Imports!Resolve
    /\ UNCHANGED <<loweringVars, result>>

HasErrors == importDiags # {}

\* Errors of import resolution are returned before anything is lowered.
RefuseImports ==
    /\ Imports!Finished /\ result = "" /\ HasErrors
    /\ result' = "imports"
    /\ UNCHANGED <<importVars, loweringVars>>

StartLowering ==
    /\ Imports!Finished /\ result = "" /\ ~ HasErrors
    /\ Lowering!Begin(Imports!Output)
    /\ UNCHANGED <<importVars, result>>

Lower ==
    /\ Lowering!Lower
    /\ UNCHANGED <<importVars, result>>

Return ==
    /\ stack # <<>> /\ Lowering!Finished /\ result = ""
    /\ result' = IF diags = {} THEN "circuit" ELSE "errors"
    /\ UNCHANGED <<importVars, loweringVars>>

Next == ResolveImports \/ RefuseImports \/ StartLowering \/ Lower \/ Return

Spec == Init /\ [][Next]_vars

\* Compilation is one thread that runs to its end.
FairSpec == Spec /\ WF_vars(Next)

-----------------------------------------------------------------------------
\* What the parser leaves are trees.  T has the items of files, alone or in an export.
ItemsOfFiles(T, I) ==
    /\ \A p \in Projects :
          p.root \in Seq(T) /\ \A f \in DOMAIN p.files : p.files[f].items \in Seq(T)
    /\ \A t \in T :
          /\ t.op = "export" => t.items \in Seq(T)
          /\ t.op = "declare" /\ t.kind = "circuit" => t.body \in Seq(I)
          /\ t.op = "declare" /\ t.kind = "module" => t.def.body \in Seq(I)

\* I has the items of bodies and A the arguments of instances.
ItemsOfBodies(I, A) ==
    \A x \in I :
        /\ x.op = "module" => x.def.body \in Seq(I)
        /\ x.op = "if" => x.then \in Seq(I) /\ x.other \in Seq(I)
        /\ x.op = "instance" => x.args \in Seq(A)

\* A declaration is what is written in one place, of a file or of one of its exports, and
\* exports hold declarations only (lower_export).
WrittenOnce ==
    \A p \in Projects :
        LET text == [f \in {<<>>} \cup DOMAIN p.files |->
                        IF f = <<>> THEN p.root ELSE p.files[f].items]
        IN  \A f, g \in DOMAIN text : \A i \in DOMAIN text[f], j \in DOMAIN text[g] :
               /\ text[f][i].op = "declare" /\ text[f][i] = text[g][j] => f = g /\ i = j
               /\ text[f][i].op = "export" =>
                     \A x \in ToSet(text[f][i].items) : x.op = "declare" /\ x # text[g][j]

Syntax(T, I, A) == ItemsOfFiles(T, I) /\ ItemsOfBodies(I, A)

\* A module has distinct ports, named from N, and a body of items in J.
IsModule(def, J, N) ==
    /\ def.body \in Seq(J) /\ def.ports \in Seq(N)
    /\ \A i, j \in DOMAIN def.ports : def.ports[i] = def.ports[j] => i = j

\* Where connections are as the language has them: positional arguments come first
\* (03-circuits-and-modules.md: "Mixed: positional first, then named"), and no element of
\* a module, whose items are in J, names one of the global nets, in G.
Connectable(T, I, J, N, G) ==
    /\ J \subseteq I /\ "" \notin N
    /\ \A t \in T : t.op = "declare" /\ t.kind = "module" => IsModule(t.def, J, N)
    /\ \A x \in I :
          /\ x.op = "module" => IsModule(x.def, J, N)
          /\ x.op = "global" => x.name \in G \cup {"gnd"}
          /\ x.op = "instance" =>
                \A i, j \in DOMAIN x.args : i < j /\ x.args[j].name = "" => x.args[i].name = ""
    /\ \A x \in J :
          /\ x.op = "if" => x.then \in Seq(J) /\ x.other \in Seq(J)
          /\ x.op = "element" => \A i \in DOMAIN x.nets : x.nets[i] \notin G
          /\ x.op = "urc" => x.nets[1] \notin G /\ x.nets[2] \notin G

\* What the recursion keeps by hand is exactly what its open calls stand for: the
\* files marked in progress, no file twice; the modules being instantiated, no module
\* inside itself; and the parameters in scope, none of which outlives its body.
GuardsAreExact ==
    /\ Imports!InProgressIsOpen
    /\ Lowering!NoRecursion
    /\ Lowering!ScopeIsOpenBodies

\* The properties of the two parts, of the whole program.
CyclesReported == Imports!CyclesReported
MergedAsWritten == Imports!MergedAsWritten
PathsUnique == Lowering!PathsUnique
ValuesAsScoped == Lowering!ValuesAsScoped
InstancesConnected == Lowering!InstancesConnected

\* compile_file returns, whatever files import and modules instantiate each other.
CompileEnds == <>(result # "")
=============================================================================
